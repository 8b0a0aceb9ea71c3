------------------------- MODULE A32ServiceDispatch -------------------------
(***************************************************************************)
(* execute_a32_with_services (runtime/a32_service_dispatch.cpp) over       *)
(* cpu::execute and the service registry (runtime/a32_service_registry):   *)
(* the guest runs in slices that end at an SVC; a service is called and    *)
(* the next slice resumes from the registers and the CPSR it left.         *)
(*                                                                         *)
(* A service may do what it likes with the registers and the CPSR, and     *)
(* answer as it likes.                                                     *)
(***************************************************************************)
EXTENDS A32Cpu, FiniteSets, Sequences

CONSTANTS
    Budgets,        \* values of request.instruction_count
    Ceilings,       \* values of max_service_calls
    Registries,     \* sequences of registry entries
    MaxRuns         \* bound on calls

ASSUME BudgetsAssumption == Budgets \subseteq Nat /\ Ceilings \subseteq Nat
ASSUME MaxRunsAssumption == MaxRuns \in Nat

VARIABLES
    dpc,            \* "idle", "slice", "trap" or "serviced"
    remaining,      \* remaining_instructions
    ceiling,        \* max_service_calls
    instruction_set,\* request.instruction_set, TRUE for Thumb
    result,         \* A32ServiceDispatchResult
    registry,       \* the handler's entries
    runs,           \* calls made
    budget,         \* observer: request.instruction_count of the call
    saved           \* observer: registers before the last guest instruction

dispatchVars == <<dpc, remaining, ceiling, instruction_set, result, registry, runs, budget,
                  saved>>
vars == <<cpuVars, dispatchVars>>

Snapshot == [regs |-> regs, thumb |-> thumb]

Start(r, iset, t, n, m, s) ==
    /\ dpc = "idle"
    /\ runs < MaxRuns
    /\ runs' = runs + 1
    /\ Execute(r, t, n, s)
    /\ instruction_set' = iset
    /\ remaining' = n /\ budget' = n
    /\ ceiling' = m
    /\ result' = [error |-> "None", regs |-> r, thumb |-> t, instructions |-> 0,
                  handled |-> 0, stop_pc_reached |-> FALSE, failing_svc |-> NoSvc]
    /\ saved' = [regs |-> r, thumb |-> t]
    /\ dpc' = "slice"
    /\ UNCHANGED registry

\* The guest runs.
Run ==
    /\ dpc = "slice"
    /\ \E r \in Regs, t \in BOOLEAN, o \in Outcomes : JitStep(r, t, o[1], o[2], o[3])
    /\ saved' = Snapshot
    /\ UNCHANGED <<dpc, remaining, ceiling, instruction_set, result, registry, runs, budget>>

Return(res) == dpc' = "idle" /\ result' = res

\* Mutant: exceptions are looked at before traps, although CallSVC raises too.
SliceEndsExceptionFirst ==
    LET res == [result EXCEPT !.instructions = @ + executed, !.regs = regs,
                              !.thumb = thumb, !.stop_pc_reached = stop_pc_reached]
    IN
    /\ dpc = "slice"
    /\ ~LoopCondition
    /\ remaining' = remaining - executed
    /\ IF fault THEN Return([res EXCEPT !.error = "MemoryFault"])
       ELSE IF raised THEN Return([res EXCEPT !.error = "CpuException"])
       ELSE IF stop_pc_reached THEN Return(res)
       ELSE IF stop # NoStop THEN Return([res EXCEPT !.error = "InstructionLimitExceeded"])
       ELSE Return(res)
    /\ UNCHANGED <<cpuVars, ceiling, instruction_set, registry, runs, budget, saved>>

\* cpu::execute returns: bookkeeping, then faults before traps before exceptions
\* before the stop.
SliceEnds ==
    LET res == [result EXCEPT !.instructions = @ + executed, !.regs = regs,
                              !.thumb = thumb, !.stop_pc_reached = stop_pc_reached]
    IN
    /\ dpc = "slice"
    /\ ~LoopCondition
    /\ remaining' = remaining - executed
    /\ IF executed > remaining THEN Return([result EXCEPT !.error = "CpuException"])
       ELSE IF fault THEN Return([res EXCEPT !.error = "MemoryFault"])
       ELSE IF svc # NoSvc THEN dpc' = "trap" /\ result' = res
       ELSE IF raised THEN Return([res EXCEPT !.error = "CpuException"])
       ELSE IF stop_pc_reached THEN Return(res)
       ELSE IF stop # NoStop THEN Return([res EXCEPT !.error = "InstructionLimitExceeded"])
       ELSE Return(res)
    /\ UNCHANGED <<cpuVars, ceiling, instruction_set, registry, runs, budget, saved>>

\* A32HostServiceRegistry::handle, up to the child it calls.
registry_match(immediate) ==
    LET matches == {k \in DOMAIN registry : registry[k].svc_immediate = immediate}
    IN  IF matches = {} THEN "Unhandled"
        ELSE IF Cardinality(matches) > 1
                \/ \E k \in matches : registry[k].handler \in {"null", "self"}
             THEN "Failed"
        ELSE "call"

Refuse(e) ==
    /\ Return([result EXCEPT !.error = e, !.failing_svc = svc])
    /\ UNCHANGED <<cpuVars, remaining, ceiling, instruction_set, registry, runs, budget, saved>>

\* The ceiling comes before the service.
ServiceLimit ==
    /\ dpc = "trap"
    /\ result.handled >= ceiling
    /\ Refuse("ServiceLimitExceeded")

NoService ==
    /\ dpc = "trap"
    /\ result.handled < ceiling
    /\ registry_match(svc) # "call"
    /\ Refuse(IF registry_match(svc) = "Unhandled" THEN "ServiceUnhandled"
              ELSE "ServiceFailed")

\* A child's handle: it leaves r and t in the registers and the CPSR.
Service(r, t, disposition) ==
    LET res == [result EXCEPT !.regs = r, !.thumb = t] IN
    /\ dpc = "trap"
    /\ result.handled < ceiling
    /\ registry_match(svc) = "call"
    /\ IF disposition = "Handled"
       THEN /\ result' = [res EXCEPT !.handled = @ + 1]
            /\ dpc' = "serviced"
       ELSE Return([res EXCEPT !.failing_svc = svc,
                               !.error = IF disposition = "Unhandled"
                                         THEN "ServiceUnhandled" ELSE "ServiceFailed"])
    /\ UNCHANGED <<cpuVars, remaining, ceiling, instruction_set, registry, runs, budget, saved>>

\* Mutant: the next slice starts in the request's instruction set.
ContinueInstructionSet ==
    /\ dpc = "serviced"
    /\ IF (stop # NoStop /\ result.regs.pc = stop) \/ remaining = 0
       THEN /\ Return([result EXCEPT !.stop_pc_reached = (result.regs.pc = stop),
                                     !.error = IF result.regs.pc = stop \/ stop = NoStop
                                               THEN "None" ELSE "InstructionLimitExceeded"])
            /\ UNCHANGED cpuVars
       ELSE /\ Execute(result.regs, instruction_set, remaining, stop)
            /\ dpc' = "slice"
            /\ UNCHANGED result
    /\ UNCHANGED <<remaining, ceiling, instruction_set, registry, runs, budget, saved>>

\* After a handled service: stop, give up, or resume.
Continue ==
    /\ dpc = "serviced"
    /\ IF stop # NoStop /\ result.regs.pc = stop
       THEN Return([result EXCEPT !.stop_pc_reached = TRUE]) /\ UNCHANGED cpuVars
       ELSE IF remaining = 0
       THEN /\ Return([result EXCEPT !.error = IF stop # NoStop THEN "InstructionLimitExceeded"
                                               ELSE "None"])
            /\ UNCHANGED cpuVars
       ELSE /\ Execute(result.regs, result.thumb, remaining, stop)
            /\ dpc' = "slice"
            /\ UNCHANGED result
    /\ UNCHANGED <<remaining, ceiling, instruction_set, registry, runs, budget, saved>>

(***************************************************************************)
(* The specification.                                                      *)
(***************************************************************************)
Init ==
    /\ regs \in Regs /\ thumb = FALSE
    /\ count = 0 /\ stop = NoStop /\ executed = 0
    /\ raised = FALSE /\ fault = FALSE /\ svc = NoSvc
    /\ dpc = "idle"
    /\ remaining = 0 /\ budget = 0 /\ ceiling = 0
    /\ instruction_set = FALSE
    /\ result = [error |-> "None", regs |-> regs, thumb |-> FALSE, instructions |-> 0,
                 handled |-> 0, stop_pc_reached |-> FALSE, failing_svc |-> NoSvc]
    /\ saved = Snapshot
    /\ registry \in Registries
    /\ runs = 0

Dispatch ==
    \/ Run
    \/ SliceEnds
    \/ ServiceLimit
    \/ NoService
    \/ \E r \in Regs, t \in BOOLEAN, d \in {"Handled", "Unhandled", "Failed"} : Service(r, t, d)
    \/ Continue

\* The initial CPSR is the request's own or that of its instruction set.
Next ==
    \/ \E r \in Regs, iset, t \in BOOLEAN, n \in Budgets, m \in Ceilings, s \in PC \cup {NoStop} :
          Start(r, iset, t, n, m, s)
    \/ Dispatch

\* The loop is finite code; a service returns (its contract is synchronous).
Spec == Init /\ [][Next]_vars /\ WF_vars(Dispatch)

(***************************************************************************)
(* Properties.                                                             *)
(***************************************************************************)
Errors == {"None", "MemoryFault", "CpuException", "ServiceLimitExceeded",
           "ServiceUnhandled", "ServiceFailed", "InstructionLimitExceeded"}

\* Type invariant.
TypeOK ==
    /\ CpuTypeOK
    /\ dpc \in {"idle", "slice", "trap", "serviced"}
    /\ remaining \in Nat
    /\ ceiling \in Nat
    /\ instruction_set \in BOOLEAN
    /\ result.error \in Errors
    /\ result.regs \in Regs
    /\ result.handled \in 0 .. ceiling
    /\ result.instructions \in 0 .. budget
    /\ result.failing_svc \in Immediates \cup {NoSvc}

\* The instruction that ended a slice and is not accounted for yet.
Unsettled == dpc = "trap" \/ (dpc = "slice" /\ (raised \/ fault))

Machine == INSTANCE GuestRun WITH
    state <- IF dpc # "idle" THEN "running" ELSE IF runs = 0 THEN "idle" ELSE result.error,
    regs <- IF Unsettled THEN saved.regs ELSE IF dpc = "slice" THEN regs ELSE result.regs,
    thumb <- IF Unsettled THEN saved.thumb ELSE IF dpc = "slice" THEN thumb ELSE result.thumb,
    executed <- result.instructions + (IF dpc = "slice" THEN executed ELSE 0)
                    - (IF Unsettled THEN 1 ELSE 0),
    handled <- result.handled

\* The run is one machine under one budget: entering the CPU anew after each
\* service neither loses nor repeats an instruction, keeps the registers and the
\* instruction set the service left, never runs the instruction at stop_pc, and
\* ends as the machine would (execute_a32_with_services and cpu::execute).
RunsAsOneMachine == Machine!Spec

\* What the result says of a finished run is what ended its last slice: a refused
\* access is reported as such although it may raise too, an SVC is never taken for
\* the exception that CallSVC also raises; success means the stop PC or, with none,
\* the whole budget; the stop flag is never set on a failure; an SVC is named, the
\* one that trapped, exactly when a service is to blame (the order of the checks
\* after cpu::execute in execute_a32_with_services).
ResultIsFaithful ==
    dpc = "idle" /\ runs > 0 =>
        /\ result.error = "None" =>
              IF stop = NoStop THEN result.instructions = budget
              ELSE result.stop_pc_reached /\ result.regs.pc = stop
        /\ result.stop_pc_reached => result.error = "None"
        /\ result.error = "InstructionLimitExceeded" =>
              result.instructions = budget /\ result.regs.pc # stop
        /\ (result.failing_svc # NoSvc) <=>
              result.error \in {"ServiceLimitExceeded", "ServiceUnhandled", "ServiceFailed"}
        /\ result.failing_svc \in {svc, NoSvc}
        /\ (result.error = "MemoryFault") <=> fault
        /\ (result.error = "CpuException") <=> raised /\ ~fault /\ svc = NoSvc

\* Every run returns: the guest cannot keep the host past its budget.
EveryRunReturns == dpc # "idle" ~> dpc = "idle"

=============================================================================
