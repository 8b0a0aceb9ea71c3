--------------------------- MODULE Elf32Lifecycle ---------------------------
(***************************************************************************)
(* INIT_ARRAY constructors (elf/linking/elf32_lifecycle.cpp): the plan is  *)
(* a depth first walk of the dependency graph, dependencies first; the     *)
(* executor runs the planned calls one after the other through             *)
(* cpu::execute, with LR at a return PC where the CPU stops.               *)
(*                                                                         *)
(* visit recurses; its activations are the frames of stack.  What reading  *)
(* an object's array from guest memory shows is the object's init field.   *)
(***************************************************************************)
EXTENDS A32Cpu, FiniteSets, Sequences

CONSTANTS
    Graphs,         \* dependency graphs: sequences of [dependencies, init]
    PlanOptions,    \* Elf32InitPlanOptions callers pass
    ExecOptions,    \* Elf32InitExecutionOptions callers pass
    AllOnes         \* the word of 32 ones

VARIABLES
    graph,          \* the graph
    lpc,            \* "idle", "visit", "planned", "next", "call" or "done"
    options,        \* of the call in progress
    root,           \* root_object
    stack,          \* activations of visit: [object, edge]
    states,         \* InitVisitState of every object
    visited,        \* visited_objects
    decoded,        \* decoded_entries
    calls,          \* context.calls, then the plan
    plan,           \* [error, failing_object] of the plan
    completed,      \* calls_completed
    execution,      \* [error, failing_call] of the execution
    began           \* observer: the constructors entered, in order

lifecycleVars == <<graph, lpc, options, root, stack, states, visited, decoded, calls, plan,
                   completed, execution, began>>
allVars == <<cpuVars, lifecycleVars>>

Top == stack[Len(stack)]
Pop == SubSeq(stack, 1, Len(stack) - 1)
NoObject == 0

(***************************************************************************)
(* plan_elf32_init_array_calls                                             *)
(***************************************************************************)
Plan(r, o) ==
    /\ lpc = "idle"
    /\ root' = r
    /\ options' = o
    /\ IF o.max_objects = 0 \/ r \notin DOMAIN graph
       THEN /\ lpc' = "done"
            /\ plan' = IF o.max_objects = 0
                       THEN [error |-> "InvalidOptions", failing_object |-> NoObject]
                       ELSE [error |-> "InvalidRootObject", failing_object |-> r]
            /\ UNCHANGED stack
       ELSE /\ lpc' = "visit"
            /\ stack' = <<[object |-> r, edge |-> 0]>>
            /\ UNCHANGED plan
    /\ UNCHANGED <<cpuVars, graph, states, visited, decoded, calls, completed, execution, began>>

PlanFails(e, object) ==
    /\ lpc' = "done"
    /\ plan' = [error |-> e, failing_object |-> object]
    /\ calls' = <<>>
    /\ UNCHANGED <<cpuVars, graph, options, root, stack, states, visited, decoded, completed,
                   execution, began>>

\* The head of visit: an object that is complete or being visited is left.
Enter ==
    /\ lpc = "visit" /\ stack # <<>> /\ Top.edge = 0
    /\ IF states[Top.object] # "Unseen"
       THEN /\ stack' = Pop
            /\ UNCHANGED <<cpuVars, graph, lpc, options, root, states, visited, decoded, calls,
                           plan, completed, execution, began>>
       ELSE IF visited >= options.max_objects
       THEN PlanFails("ObjectLimitExceeded", Top.object)
       ELSE /\ visited' = visited + 1
            /\ states' = [states EXCEPT ![Top.object] = "Visiting"]
            /\ stack' = [stack EXCEPT ![Len(stack)].edge = 1]
            /\ UNCHANGED <<cpuVars, graph, lpc, options, root, decoded, calls, plan, completed,
                           execution, began>>

\* One round of the loop over the edges.
Edge ==
    LET dependencies == graph[Top.object].dependencies IN
    /\ lpc = "visit" /\ stack # <<>> /\ Top.edge \in DOMAIN dependencies
    /\ IF dependencies[Top.edge] \notin DOMAIN graph
       THEN PlanFails("InvalidGraphEdge", Top.object)
       ELSE /\ stack' = Append([stack EXCEPT ![Len(stack)].edge = @ + 1],
                               [object |-> dependencies[Top.edge], edge |-> 0])
            /\ UNCHANGED <<cpuVars, graph, lpc, options, root, states, visited, decoded, calls,
                           plan, completed, execution, began>>

\* decode_elf32_function_array: sizes, then the ceiling, then the range and reads.
decode_error(array, max_entries) ==
    IF array.error = "InvalidArraySize" THEN array.error
    ELSE IF Len(array.entries) > max_entries THEN "TooManyEntries"
    ELSE array.error

\* Mutant: the sentinels are planned as calls.
IsCallAny(function) == TRUE

IsCall(function) == function # 0 /\ function # AllOnes

\* The calls an object contributes: its entries in order, less the sentinels.
InitCalls(object) ==
    LET entries == graph[object].init.entries
    IN  SelectSeq([i \in DOMAIN entries |->
                      [object |-> object, array_index |-> i, function |-> entries[i]]],
                  LAMBDA c : IsCall(c.function))

\* Mutant: an object's calls are put before those of its dependencies.
ContributeFirst ==
    LET object == Top.object
        init   == graph[object].init
        error  == decode_error(init, options.max_entries - decoded)
    IN
    /\ lpc = "visit" /\ stack # <<>>
    /\ Top.edge = Len(graph[object].dependencies) + 1
    /\ IF init.present /\ error # "None"
       THEN PlanFails("DecodeFailed", object)
       ELSE /\ decoded' = decoded + Len(init.entries)
            /\ calls' = InitCalls(object) \o calls
            /\ states' = [states EXCEPT ![object] = "Complete"]
            /\ stack' = Pop
            /\ UNCHANGED <<cpuVars, graph, lpc, options, root, visited, plan, completed,
                           execution, began>>

\* The tail of visit, after the dependencies.
Contribute ==
    LET object == Top.object
        init   == graph[object].init
        error  == decode_error(init, options.max_entries - decoded)
    IN
    /\ lpc = "visit" /\ stack # <<>>
    /\ Top.edge = Len(graph[object].dependencies) + 1
    /\ IF init.present /\ error # "None"
       THEN PlanFails(IF error = "TooManyEntries" THEN "EntryLimitExceeded"
                      ELSE "DecodeFailed", object)
       ELSE /\ IF init.present
               THEN /\ decoded' = decoded + Len(init.entries)
                    /\ calls' = calls \o InitCalls(object)
               ELSE UNCHANGED <<decoded, calls>>
            /\ states' = [states EXCEPT ![object] = "Complete"]
            /\ stack' = Pop
            /\ UNCHANGED <<cpuVars, graph, lpc, options, root, visited, plan, completed,
                           execution, began>>

Planned ==
    /\ lpc = "visit" /\ stack = <<>>
    /\ lpc' = "planned"
    /\ UNCHANGED <<cpuVars, graph, options, root, stack, states, visited, decoded, calls, plan,
                   completed, execution, began>>

(***************************************************************************)
(* execute_elf32_init_calls                                                *)
(***************************************************************************)
IsThumb(function) == function % 2 = 1
EntryPc(function) == function - (function % 2)

ExecuteCalls(o) ==
    /\ lpc = "planned"
    /\ options' = o
    /\ IF o.stack_top = 0 \/ o.stack_top % 8 # 0 \/ o.return_pc % 4 # 0
          \/ o.max_instructions = 0
       THEN lpc' = "done" /\ execution' = [error |-> "InvalidOptions", failing_call |-> 0]
       ELSE lpc' = "next" /\ UNCHANGED execution
    /\ UNCHANGED <<cpuVars, graph, root, stack, states, visited, decoded, calls, plan,
                   completed, began>>

BadFunction(function) ==
    \/ function = 0 \/ function = AllOnes
    \/ EntryPc(function) = options.return_pc
    \/ ~IsThumb(function) /\ EntryPc(function) % 4 # 0

\* The next call: refused, or entered with fresh registers, LR and the stop PC.
BeginCall ==
    LET function == calls[completed + 1].function IN
    /\ lpc = "next"
    /\ completed < Len(calls)
    /\ IF BadFunction(function)
       THEN /\ lpc' = "done"
            /\ execution' = [error |-> "InvalidFunctionAddress",
                             failing_call |-> completed + 1]
            /\ UNCHANGED <<cpuVars, began>>
       ELSE /\ lpc' = "call"
            /\ Execute([pc |-> EntryPc(function), r0 |-> 0], IsThumb(function),
                       options.max_instructions, options.return_pc)
            /\ began' = Append(began, completed + 1)
            /\ UNCHANGED execution
    /\ UNCHANGED <<graph, options, root, stack, states, visited, decoded, calls, plan, completed>>

RunConstructor ==
    /\ lpc = "call"
    /\ \E r \in Regs, t \in BOOLEAN, o \in Outcomes : JitStep(r, t, o[1], o[2], o[3])
    /\ UNCHANGED lifecycleVars

ExecutionError ==
    IF fault THEN "MemoryFault"
    ELSE IF raised THEN "CpuException"
    ELSE IF ~stop_pc_reached THEN "InstructionLimitExceeded"
    ELSE "None"

\* Mutant: the next constructor runs although this one did not return.
EndCallGoesOn ==
    /\ lpc = "call"
    /\ ~LoopCondition
    /\ lpc' = "next" /\ completed' = completed + 1
    /\ execution' = IF ExecutionError = "None" THEN execution
                    ELSE [error |-> ExecutionError, failing_call |-> completed + 1]
    /\ UNCHANGED <<cpuVars, graph, options, root, stack, states, visited, decoded, calls, plan,
                   began>>

EndCall ==
    /\ lpc = "call"
    /\ ~LoopCondition
    /\ IF ExecutionError = "None"
       THEN lpc' = "next" /\ completed' = completed + 1 /\ UNCHANGED execution
       ELSE /\ lpc' = "done"
            /\ execution' = [error |-> ExecutionError, failing_call |-> completed + 1]
            /\ UNCHANGED completed
    /\ UNCHANGED <<cpuVars, graph, options, root, stack, states, visited, decoded, calls, plan,
                   began>>

AllCalled ==
    /\ lpc = "next"
    /\ completed = Len(calls)
    /\ lpc' = "done"
    /\ UNCHANGED <<cpuVars, graph, options, root, stack, states, visited, decoded, calls, plan,
                   completed, execution, began>>

(***************************************************************************)
(* The specification: one plan and, if the caller goes on, its execution.  *)
(***************************************************************************)
LifecycleInit ==
    /\ graph \in Graphs
    /\ lpc = "idle"
    /\ options \in PlanOptions /\ root = NoObject
    /\ stack = <<>> /\ visited = 0 /\ decoded = 0 /\ calls = <<>>
    /\ states = [i \in DOMAIN graph |-> "Unseen"]
    /\ plan = [error |-> "None", failing_object |-> NoObject]
    /\ completed = 0 /\ began = <<>>
    /\ execution = [error |-> "None", failing_call |-> 0]
    /\ regs = [pc |-> CHOOSE p \in PC : TRUE, r0 |-> 0] /\ thumb = FALSE
    /\ count = 0 /\ stop = NoStop /\ executed = 0
    /\ raised = FALSE /\ fault = FALSE /\ svc = NoSvc

Step ==
    \/ Enter \/ Edge \/ Contribute \/ Planned
    \/ BeginCall \/ RunConstructor \/ EndCall \/ AllCalled

LifecycleNext ==
    \/ \E r \in 1 .. Len(graph) + 1, o \in PlanOptions : Plan(r, o)
    \/ \E o \in ExecOptions : ExecuteCalls(o)
    \/ Step

\* Both functions are finite code with no blocking call in them.
LifecycleSpec == LifecycleInit /\ [][LifecycleNext]_allVars /\ WF_allVars(Step)

(***************************************************************************)
(* Properties.                                                             *)
(***************************************************************************)
\* Type invariant.
LifecycleTypeOK ==
    /\ CpuTypeOK
    /\ lpc \in {"idle", "visit", "planned", "next", "call", "done"}
    /\ states \in [DOMAIN graph -> {"Unseen", "Visiting", "Complete"}]
    /\ \A k \in DOMAIN stack : stack[k].object \in DOMAIN graph
    /\ visited \in 0 .. Len(graph)
    /\ completed \in 0 .. Len(calls)

\* Reach[n][i]: the objects that i reaches in at most n edges.
Reach ==
    LET r[n \in 0 .. Len(graph)] ==
            [i \in DOMAIN graph |->
                IF n = 0 THEN {i}
                ELSE UNION {r[n - 1][j] : j \in r[n - 1][i]} \cup
                     UNION {{graph[j].dependencies[k] : k \in DOMAIN graph[j].dependencies}
                               : j \in r[n - 1][i]}]
    IN  r[Len(graph)]

WasPlanned == lpc \in {"planned", "next", "call", "done"} /\ plan.error = "None"

\* A plan that succeeds holds exactly the constructors of the objects the root
\* reaches, each once and in the order of its array, whatever cycles and shared
\* dependencies the graph has, and the walk keeps both ceilings, sentinels counted.
PlanIsComplete ==
    /\ lpc \in {"visit", "planned"} =>
        decoded <= options.max_entries /\ visited <= options.max_objects
    /\ WasPlanned =>
        /\ \A i \in DOMAIN graph :
              SelectSeq(calls, LAMBDA c : c.object = i) =
                 IF i \in Reach[root] /\ graph[i].init.present THEN InitCalls(i) ELSE <<>>
        /\ \A k \in DOMAIN calls : calls[k].function \notin {0, AllOnes}

\* In a plan that succeeds every object comes after the objects in its own
\* dependency list, except those that reach it in turn: two objects of one cycle
\* may come in either order, and a cycle disturbs no edge that leads out of it.
DependenciesComeFirst ==
    WasPlanned =>
        \A j, k \in DOMAIN calls :
            LET a == calls[j].object
                b == calls[k].object
                needed == {graph[a].dependencies[d] : d \in DOMAIN graph[a].dependencies}
            IN  b \in needed /\ a \notin Reach[b] => k < j

\* The constructors entered are a prefix of the plan, each entered once; all but
\* the last returned, and the last one also unless it is the one that the result
\* names as failing, with a fault taking precedence over an exception.
ExecutedPrefix ==
    /\ \A k \in DOMAIN began : began[k] = k
    /\ Len(began) \in {completed, completed + 1}
    /\ lpc = "done" /\ plan.error = "None" /\ execution.error = "None" =>
          completed = Len(calls)
    /\ execution.error \in {"MemoryFault", "CpuException", "InstructionLimitExceeded"} =>
          /\ execution.failing_call = Len(began)
          /\ completed = Len(began) - 1
          /\ fault <=> execution.error = "MemoryFault"

\* Planning ends although graphs have cycles, and execution although constructors
\* may loop.
EveryCallEnds == lpc \in {"visit", "next", "call"} ~> lpc \in {"planned", "done"}

=============================================================================
