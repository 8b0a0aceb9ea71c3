----------------------- MODULE Elf32DependencyLoader -----------------------
(***************************************************************************)
(* The dependency loader (elf/linking/elf32_dependency_loader.cpp): a root *)
(* and everything it needs are loaded depth first, into a graph of the     *)
(* caller's or as an append to a persistent link map, all or nothing.      *)
(*                                                                         *)
(* process_object recurses; its activations are the frames of stack, and   *)
(* each step below is the part of an activation between two calls that     *)
(* can fail.  The provider may answer every request as it likes, with an   *)
(* error or with any identity and image, differently each time it is       *)
(* asked.  load_elf32 is the atomic operation that module Elf32Loader      *)
(* shows it to be: it maps all of an image, or nothing but pages whose     *)
(* rollback failed.                                                        *)
(***************************************************************************)
EXTENDS Integers, Sequences, FiniteSets

CONSTANTS
    NumPages,   \* pages of the placement window
    Images,     \* images: name -> what loading and inspecting it shows
    Answers,    \* <<identity, image>> pairs roots and providers come up with
    Options,    \* Elf32DependencyLoadOptions callers pass
    MaxCalls    \* bound on calls

ASSUME NumPagesAssumption == NumPages \in Nat
ASSUME MaxCallsAssumption == MaxCalls \in Nat
ASSUME ImagesAssumption ==
    \A m \in DOMAIN Images :
        /\ Images[m].needed \in Nat
        /\ Images[m].bytes \in Nat
        /\ Images[m].size \in Nat \ {0}
        /\ Images[m].type \in {"Dynamic", "Executable", "Invalid"}
        /\ Images[m].at \in Nat
        /\ Images[m].global \in BOOLEAN

\* Elf32DependencyLoadOptions: unsigned limits.
LoadLimits == [max_objects : Nat, max_depth : Nat, max_occurrences : Nat,
               max_image_bytes : Nat, max_total : Nat]

ASSUME AnswersAssumption == \A a \in Answers : a[2] \in DOMAIN Images
ASSUME OptionsAssumption == Options \subseteq LoadLimits

VARIABLES
    objects, roots, global_scope, mapped,   \* as in LinkMap
    pc,             \* "idle", "process", "record" or "rollback"
    call,           \* the arguments: mode, policy, options
    initial,        \* initial_object_count
    stack,          \* activations of process_object, outermost first
    states,         \* ObjectState of every object
    loads,          \* successful_loads, as the indices of their objects
    occurrences,    \* dependency_occurrences
    total,          \* total_image_bytes
    recorded,       \* objects the record_global loop has passed
    rollback_ok,    \* rollback_failure's flag
    outcome,        \* [error, primary_error] of the last call
    calls,          \* calls made
    before,         \* observer: the link map and the mapped pages at the call
    lost            \* observer: pages this call left mapped without an owner

linkMap  == <<objects, roots, global_scope>>
callVars == <<pc, call, initial, stack, states, loads, occurrences, total,
              recorded, rollback_ok, outcome, calls, before, lost>>
vars == <<linkMap, mapped, callVars>>

Page == 0 .. NumPages - 1
Ids  == {a[1] : a \in Answers}

Top == stack[Len(stack)]
Pop == SubSeq(stack, 1, Len(stack) - 1)
SetTop(frame) == [stack EXCEPT ![Len(stack)] = frame]

Success == [error |-> "None", primary_error |-> "None"]
Failure(e) == [error |-> e, primary_error |-> e]

NoCall == [mode |-> "append", policy |-> "Local",
           options |-> [max_objects |-> 0, max_depth |-> 0, max_occurrences |-> 0,
                        max_image_bytes |-> 0, max_total |-> 0]]

Snapshot == [objects |-> objects, roots |-> roots, global_scope |-> global_scope,
             mapped |-> mapped]

(***************************************************************************)
(* Helpers of the append's preflight and of its last part.                 *)
(***************************************************************************)
IndexOf(identity) == {i \in DOMAIN objects : objects[i].identity = identity}

RequiredGlobal ==
    {i \in DOMAIN objects : objects[i].global}
        \cup {roots[k].object : k \in {j \in DOMAIN roots : roots[j].policy = "Global"}}

\* What the preflight checks of the caller's link map.
ValidLinkMap ==
    /\ \A i, j \in DOMAIN objects :
          objects[i].identity = objects[j].identity => i = j
    /\ \A i \in DOMAIN objects : \A k \in DOMAIN objects[i].dependencies :
          objects[i].dependencies[k] \in DOMAIN objects
    /\ \A k \in DOMAIN roots : roots[k].object \in DOMAIN objects
    /\ \A j, k \in DOMAIN roots : roots[j].object = roots[k].object => j = k
    /\ {global_scope[k] : k \in DOMAIN global_scope} = RequiredGlobal
    /\ \A k \in DOMAIN global_scope : k # 1 => global_scope[k - 1] < global_scope[k]

\* Mutant: a root that is recorded already is recorded again.
record_root_twice(object, policy) ==
    Append(roots, [object |-> object, policy |-> policy])

record_root(object, policy) ==
    IF \E k \in DOMAIN roots : roots[k].object = object
    THEN [k \in DOMAIN roots |->
             IF roots[k].object = object /\ policy = "Global"
             THEN [roots[k] EXCEPT !.policy = "Global"] ELSE roots[k]]
    ELSE Append(roots, [object |-> object, policy |-> policy])

\* Mutant: a promoted object goes to the end of the global scope.
record_global_last(object) ==
    IF \E k \in DOMAIN global_scope : global_scope[k] = object
    THEN global_scope ELSE Append(global_scope, object)

\* Inserted at lower_bound, unless it is there.
record_global(object) ==
    LET below == Cardinality({k \in DOMAIN global_scope : global_scope[k] < object})
    IN  IF \E k \in DOMAIN global_scope : global_scope[k] = object
        THEN global_scope
        ELSE SubSeq(global_scope, 1, below) \o <<object>>
                \o SubSeq(global_scope, below + 1, Len(global_scope))

(***************************************************************************)
(* The two entry points.                                                   *)
(***************************************************************************)
root_error(identity, image, options) ==
    IF options.max_objects = 0 THEN "InvalidOptions"
    ELSE IF identity = "" THEN "EmptyRootIdentity"
    ELSE IF Images[image].bytes = 0 THEN "EmptyRootImage"
    ELSE IF Images[image].bytes > options.max_image_bytes THEN "ImageTooLarge"
    ELSE IF Images[image].bytes > options.max_total THEN "TotalImageBytesExceeded"
    ELSE "None"

append_error(identity, image, options) ==
    IF root_error(identity, image, options) # "None"
    THEN root_error(identity, image, options)
    ELSE IF Len(objects) > options.max_objects THEN "TooManyObjects"
    ELSE IF ~ValidLinkMap THEN "InvalidLinkMap"
    ELSE "None"

NewObject(identity, image) ==
    [identity |-> identity, image |-> image, pages |-> {}, global |-> FALSE,
     dependencies |-> <<>>]

Frame(index, depth) ==
    [index |-> index, depth |-> depth, at |-> "load", pending |-> <<>>]

\* The root becomes the last object and process_object(root, 0, false) starts.
StartGraph(identity, image) ==
    /\ pc' = "process"
    /\ initial' = Len(objects)
    /\ objects' = Append(objects, NewObject(identity, image))
    /\ states' = [i \in 1 .. Len(objects) + 1 |->
                     IF i <= Len(objects) THEN "Loaded" ELSE "Discovered"]
    /\ stack' = <<Frame(Len(objects) + 1, 0)>>
    /\ total' = Images[image].bytes
    /\ loads' = <<>> /\ occurrences' = 0
    /\ recorded' = Len(objects) /\ rollback_ok' = TRUE
    /\ outcome' = Success
    /\ UNCHANGED <<roots, global_scope, mapped>>

\* The call returns and its locals are gone.
Return(result) ==
    /\ pc' = "idle" /\ outcome' = result
    /\ initial' = 0 /\ stack' = <<>> /\ states' = <<>> /\ loads' = <<>>
    /\ occurrences' = 0 /\ total' = 0 /\ recorded' = 0 /\ rollback_ok' = TRUE

Refused(e) ==
    /\ Return(Failure(e))
    /\ UNCHANGED <<linkMap, mapped>>

Called(mode, policy, options) ==
    /\ pc = "idle"
    /\ calls < MaxCalls /\ calls' = calls + 1
    /\ call' = [mode |-> mode, policy |-> policy, options |-> options]
    /\ before' = Snapshot
    /\ lost' = {}

\* A root that is in the link map: only its records change.
ReuseRoot(index, policy) ==
    /\ roots' = record_root(index, policy)
    /\ global_scope' = IF policy = "Global" \/ objects[index].global
                       THEN record_global(index) ELSE global_scope
    /\ Return(Success)
    /\ UNCHANGED <<objects, mapped>>

append_elf32_link_map_root(identity, image, policy, options) ==
    /\ Called("append", policy, options)
    /\ \/ /\ append_error(identity, image, options) # "None"
          /\ Refused(append_error(identity, image, options))
       \/ /\ append_error(identity, image, options) = "None"
          /\ \/ \E index \in IndexOf(identity) :
                   \/ objects[index].image # image /\ Refused("IdentityImageMismatch")
                   \/ objects[index].image = image /\ ReuseRoot(index, policy)
             \/ /\ IndexOf(identity) = {}
                /\ \/ /\ Len(objects) >= options.max_objects
                      /\ Refused("TooManyObjects")
                   \/ /\ Len(objects) < options.max_objects
                      /\ StartGraph(identity, image)

\* The graph starts empty, so the call is modelled where the link map is.
load_elf32_dependency_graph(identity, image, options) ==
    /\ objects = <<>>
    /\ Called("graph", "Local", options)
    /\ \/ /\ root_error(identity, image, options) # "None"
          /\ Refused(root_error(identity, image, options))
       \/ /\ root_error(identity, image, options) = "None"
          /\ StartGraph(identity, image)

(***************************************************************************)
(* process_object, one activation at a time.                               *)
(***************************************************************************)
Processing == pc = "process" /\ stack # <<>>

Fail(e) ==
    /\ pc' = "rollback"
    /\ outcome' = Failure(e)

\* Mutant: the search looks at the first page of a run only.
RunsByFirstPage(size) == {p \in Page : p + size <= NumPages /\ p \notin mapped}

\* The lowest free run place_elf32_dynamic finds, as its first page.
Runs(size) == {p \in Page : p + size <= NumPages
                              /\ \A q \in p .. p + size - 1 : q \notin mapped}

LoadPages(image) ==
    LET m == Images[image]
        start == IF m.type = "Executable" THEN m.at
                 ELSE CHOOSE p \in Runs(m.size) : \A q \in Runs(m.size) : p <= q
    IN  start .. start + m.size - 1

load_object_error(frame) ==
    LET m == Images[objects[frame.index].image] IN
    IF frame.depth > call.options.max_depth THEN "MaxDepthExceeded"
    ELSE IF m.type = "Invalid" THEN "InvalidImage"
    ELSE IF frame.depth # 0 /\ m.type # "Dynamic" THEN "DependencyNotDynamic"
    ELSE IF m.type = "Dynamic" /\ Runs(m.size) = {} THEN "PlacementFailed"
    ELSE IF m.type = "Executable" /\ LoadPages(objects[frame.index].image) \cap mapped # {}
         THEN "LoadFailed"
    ELSE "None"

\* The depth check and load_object.  load_elf32 itself may still fail, and its
\* rollback may then leave pages behind.
LoadObject ==
    /\ Processing /\ Top.at = "load"
    /\ states' = IF Top.depth > call.options.max_depth THEN states
                 ELSE [states EXCEPT ![Top.index] = "Loading"]
    /\ \/ /\ load_object_error(Top) # "None"
          /\ Fail(load_object_error(Top))
          /\ UNCHANGED <<objects, mapped, stack, loads, lost>>
       \/ /\ load_object_error(Top) = "None"
          /\ LET pages == LoadPages(objects[Top.index].image) IN
             \/ /\ mapped' = mapped \cup pages
                /\ objects' = [objects EXCEPT ![Top.index].pages = pages]
                /\ loads' = Append(loads, Top.index)
                /\ stack' = SetTop([Top EXCEPT !.at = "inspect"])
                /\ UNCHANGED <<pc, outcome, lost>>
             \/ /\ \E left \in SUBSET pages :
                      mapped' = mapped \cup left /\ lost' = lost \cup left
                /\ Fail("LoadFailed")
                /\ UNCHANGED <<objects, loads, stack>>
    /\ UNCHANGED <<roots, global_scope, call, initial, occurrences, total,
                   recorded, rollback_ok, calls, before>>

inspect_error(frame) ==
    LET m == Images[objects[frame.index].image] IN
    IF m.inspect # "None" THEN m.inspect
    ELSE IF m.needed > call.options.max_occurrences - occurrences
         THEN "TooManyDependencyOccurrences"
    ELSE "None"

\* inspect_object and the occurrence ceiling; an object that needs nothing is
\* done.
InspectObject ==
    LET m == Images[objects[Top.index].image] IN
    /\ Processing /\ Top.at = "inspect"
    /\ objects' = [objects EXCEPT ![Top.index].global =
                      IF m.inspect = "None" THEN m.global ELSE FALSE]
    /\ IF inspect_error(Top) # "None"
       THEN Fail(inspect_error(Top)) /\ UNCHANGED <<stack, states>>
       ELSE /\ IF m.needed = 0
               THEN stack' = Pop /\ states' = [states EXCEPT ![Top.index] = "Loaded"]
               ELSE stack' = SetTop([Top EXCEPT !.at = "resolve"]) /\ UNCHANGED states
            /\ UNCHANGED <<pc, outcome>>
    /\ UNCHANGED <<roots, global_scope, mapped, call, initial, loads, occurrences,
                   total, recorded, rollback_ok, calls, before, lost>>

Bytes(answers) ==
    LET sum[k \in 0 .. Len(answers)] ==
            IF k = 0 THEN 0 ELSE sum[k - 1] + Images[answers[k][2]].bytes
    IN  sum[Len(answers)]

\* Mutant: the resolver is given the whole total, not what is left of it.
ResolutionsWithWholeTotal(count) ==
    {answers \in [1 .. count -> Answers] :
        /\ \A k \in 1 .. count :
              /\ answers[k][1] # ""
              /\ Images[answers[k][2]].bytes \in 1 .. call.options.max_image_bytes
        /\ Bytes(answers) <= call.options.max_total}

\* What resolve_elf32_dependencies can return for count names: every image
\* within its limit, and all of them within what is left of the total.
Resolutions(count) ==
    {answers \in [1 .. count -> Answers] :
        /\ \A k \in 1 .. count :
              /\ answers[k][1] # ""
              /\ Images[answers[k][2]].bytes \in 1 .. call.options.max_image_bytes
        /\ Bytes(answers) <= call.options.max_total - total}

ResolveDependencies ==
    LET needed == Images[objects[Top.index].image].needed IN
    /\ Processing /\ Top.at = "resolve"
    /\ \/ /\ Fail("DependencyResolveFailed")
          /\ UNCHANGED <<stack, occurrences, total>>
       \/ \E answers \in Resolutions(needed) :
             /\ occurrences' = occurrences + needed
             /\ total' = total + Bytes(answers)
             /\ stack' = SetTop([Top EXCEPT !.at = "each", !.pending = answers])
             /\ UNCHANGED <<pc, outcome>>
    /\ UNCHANGED <<linkMap, mapped, call, initial, states, loads, recorded,
                   rollback_ok, calls, before, lost>>

AddEdge(objs, from, to) ==
    [objs EXCEPT ![from].dependencies = Append(@, to)]

\* Mutant: no edge is recorded to an object that is still loading.
KnownDependencyNoCycleEdge(index) ==
    /\ objects' = IF states[index] = "Loading" THEN objects
                  ELSE AddEdge(objects, Top.index, index)
    /\ stack' = SetTop([Top EXCEPT !.pending = Tail(@)])
    /\ UNCHANGED <<pc, outcome, states>>

\* One dependency: an identity that is known is reused, and only an object
\* nobody has started on would be processed; a new one is appended and its
\* activation starts.
KnownDependency(index) ==
    /\ objects' = AddEdge(objects, Top.index, index)
    /\ stack' = IF states[index] = "Discovered"
                THEN Append(SetTop([Top EXCEPT !.pending = Tail(@)]),
                            Frame(index, Top.depth + 1))
                ELSE SetTop([Top EXCEPT !.pending = Tail(@)])
    /\ UNCHANGED <<pc, outcome, states>>

NewDependency(identity, image) ==
    LET index == Len(objects) + 1 IN
    /\ objects' = AddEdge(Append(objects, NewObject(identity, image)),
                          Top.index, index)
    /\ states' = Append(states, "Discovered")
    /\ stack' = Append(SetTop([Top EXCEPT !.pending = Tail(@)]),
                       Frame(index, Top.depth + 1))
    /\ UNCHANGED <<pc, outcome>>

NextDependency ==
    /\ Processing /\ Top.at = "each" /\ Top.pending # <<>>
    /\ LET identity == Head(Top.pending)[1]
           image == Head(Top.pending)[2]
       IN  \/ \E index \in IndexOf(identity) :
                 \/ /\ objects[index].image # image
                    /\ Fail("IdentityImageMismatch")
                    /\ UNCHANGED <<objects, stack, states>>
                 \/ objects[index].image = image /\ KnownDependency(index)
           \/ /\ IndexOf(identity) = {}
              /\ Len(objects) >= call.options.max_objects
              /\ Fail("TooManyObjects")
              /\ UNCHANGED <<objects, stack, states>>
           \/ /\ IndexOf(identity) = {}
              /\ Len(objects) < call.options.max_objects
              /\ NewDependency(identity, image)
    /\ UNCHANGED <<roots, global_scope, mapped, call, initial, loads, occurrences,
                   total, recorded, rollback_ok, calls, before, lost>>

\* The end of the dependency loop: the activation returns to its caller.
FinishObject ==
    /\ Processing /\ Top.at = "each" /\ Top.pending = <<>>
    /\ states' = [states EXCEPT ![Top.index] = "Loaded"]
    /\ stack' = Pop
    /\ UNCHANGED <<linkMap, mapped, pc, call, initial, loads, occurrences, total,
                   recorded, rollback_ok, outcome, calls, before, lost>>

(***************************************************************************)
(* The end of a call.                                                      *)
(***************************************************************************)
\* The outermost process_object has succeeded.  A one-shot graph is handed to
\* the caller; an append records its root, then its global objects.
Complete ==
    /\ pc = "process" /\ stack = <<>>
    /\ \/ /\ call.mode = "graph"
          /\ objects' = <<>>
          /\ Return(Success)
          /\ UNCHANGED roots
       \/ /\ call.mode = "append"
          /\ roots' = record_root(initial + 1, call.policy)
          /\ pc' = "record"
          /\ UNCHANGED <<objects, outcome, initial, stack, states, loads,
                         occurrences, total, recorded, rollback_ok>>
    /\ UNCHANGED <<global_scope, mapped, call, calls, before, lost>>

RecordGlobal ==
    LET object == recorded + 1 IN
    /\ pc = "record"
    /\ \/ /\ object \in DOMAIN objects
          /\ global_scope' =
                IF \/ object = initial + 1 /\ call.policy = "Global"
                   \/ objects[object].global
                THEN record_global(object) ELSE global_scope
          /\ recorded' = object
          /\ UNCHANGED <<pc, outcome, initial, stack, states, loads, occurrences,
                         total, rollback_ok>>
       \/ /\ object \notin DOMAIN objects
          /\ Return(Success)
          /\ UNCHANGED global_scope
    /\ UNCHANGED <<objects, roots, mapped, call, calls, before, lost>>

\* Mutant: the rollback loop does not move on.
RollbackLoadStuck ==
    /\ pc = "rollback" /\ loads # <<>>
    /\ mapped' = mapped \ objects[loads[Len(loads)]].pages
    /\ UNCHANGED <<linkMap, pc, call, initial, stack, states, loads, occurrences,
                   total, recorded, rollback_ok, outcome, calls, before, lost>>

\* rollback_load of the last object loaded: every segment is tried, and a
\* failure is remembered.
RollbackLoad ==
    /\ pc = "rollback" /\ loads # <<>>
    /\ \E stuck \in SUBSET objects[loads[Len(loads)]].pages :
          /\ mapped' = mapped \ (objects[loads[Len(loads)]].pages \ stuck)
          /\ lost' = lost \cup stuck
          /\ rollback_ok' = (rollback_ok /\ stuck = {})
    /\ loads' = SubSeq(loads, 1, Len(loads) - 1)
    /\ UNCHANGED <<linkMap, pc, call, initial, stack, states, occurrences, total,
                   recorded, outcome, calls, before>>

\* Mutant: a failed append keeps its objects.
RollbackDoneKeepsObjects ==
    /\ pc = "rollback" /\ loads = <<>>
    /\ Return(IF rollback_ok THEN outcome
              ELSE [error |-> "RollbackFailed", primary_error |-> outcome.error])
    /\ UNCHANGED <<linkMap, mapped, call, calls, before, lost>>

\* The result is settled and the new objects are dropped.
RollbackDone ==
    /\ pc = "rollback" /\ loads = <<>>
    /\ Return(IF rollback_ok THEN outcome
              ELSE [error |-> "RollbackFailed", primary_error |-> outcome.error])
    /\ objects' = SubSeq(objects, 1, initial)
    /\ UNCHANGED <<roots, global_scope, mapped, call, calls, before, lost>>

Init ==
    /\ objects = <<>> /\ roots = <<>> /\ global_scope = <<>> /\ mapped = {}
    /\ pc = "idle" /\ call = NoCall /\ initial = 0 /\ stack = <<>>
    /\ states = <<>> /\ loads = <<>> /\ occurrences = 0 /\ total = 0
    /\ recorded = 0 /\ rollback_ok = TRUE /\ outcome = Success /\ calls = 0
    /\ before = Snapshot /\ lost = {}

Step ==
    \/ LoadObject \/ InspectObject \/ ResolveDependencies
    \/ NextDependency \/ FinishObject
    \/ Complete \/ RecordGlobal
    \/ RollbackLoad \/ RollbackDone

Call ==
    \E answer \in Answers, options \in Options :
        \/ \E policy \in {"Local", "Global"} :
              append_elf32_link_map_root(answer[1], answer[2], policy, options)
        \/ load_elf32_dependency_graph(answer[1], answer[2], options)

Next == Call \/ Step

\* A call runs on to its end: the loader never waits.
Spec == Init /\ [][Next]_vars /\ WF_vars(Step)

(***************************************************************************)
(* Properties.                                                             *)
(***************************************************************************)
Busy == pc # "idle"

\* Types, and the lengths that have to agree.
TypeOK ==
    /\ pc \in {"idle", "process", "record", "rollback"}
    /\ mapped \subseteq Page /\ lost \subseteq Page
    /\ Busy => Len(states) = Len(objects)
    /\ \A i \in DOMAIN objects :
          /\ objects[i].identity \in Ids /\ objects[i].image \in DOMAIN Images
          /\ objects[i].pages \subseteq Page
    /\ \A k \in DOMAIN stack : stack[k].index \in DOMAIN objects
    /\ occurrences \in Nat /\ total \in Nat
    /\ calls \in 0 .. MaxCalls

\* Between calls the link map passes the preflight's own validation, so an
\* append that changes nothing but through this API never meets
\* InvalidLinkMap: identities unique, edges and roots in range, the global
\* scope exactly the objects that must be in it, in index order.
LinkMapStaysValid == ~Busy => ValidLinkMap

\* Every mapped page has one owner: the objects of the link map keep theirs
\* whatever other calls do, and no two of them share a page.
PagesHaveOneOwner ==
    /\ \A i \in DOMAIN objects : objects[i].pages \subseteq mapped
          \/ (pc = "rollback" /\ i > initial)
    /\ \A i, j \in DOMAIN objects :
          i # j => objects[i].pages \cap objects[j].pages = {}

\* A call that failed has put everything back: the link map is the one before
\* the call, and the only pages more are those an unmap failed on.
FailureRestores ==
    ~Busy /\ outcome.error # "None" =>
        /\ linkMap = <<before.objects, before.roots, before.global_scope>>
        /\ mapped = before.mapped \cup lost
        /\ lost \cap before.mapped = {}

\* A call that succeeded leaves nothing half done: every object has its pages
\* and one edge for each of its DT_NEEDED entries, and every object is there
\* for a reason, as a root or as the dependency of an older object.
GraphIsComplete ==
    ~Busy => \A i \in DOMAIN objects :
        /\ objects[i].pages # {}
        /\ Len(objects[i].dependencies) = Images[objects[i].image].needed
        /\ \/ \E k \in DOMAIN roots : roots[k].object = i
           \/ \E j \in 1 .. i - 1 : \E k \in DOMAIN objects[j].dependencies :
                 objects[j].dependencies[k] = i

\* The limits of the call hold at every moment and the two budgets never go
\* below zero, where the unsigned subtractions would wrap; the recursion is no
\* deeper than max_depth but for the activation that finds out.
LimitsHold ==
    Busy =>
        /\ occurrences <= call.options.max_occurrences
        /\ total <= call.options.max_total
        /\ Len(objects) <= call.options.max_objects
        /\ Len(stack) <= call.options.max_depth + 2

\* Every call is one step of the link map its users see: LinkMap's Next, with
\* the state at the call in place of the states in between.
Seen(then, now) == IF Busy THEN then ELSE now
Users == INSTANCE LinkMap WITH
    objects <- Seen(before.objects, objects),
    roots <- Seen(before.roots, roots),
    global_scope <- Seen(before.global_scope, global_scope),
    mapped <- Seen(before.mapped, mapped)

CallsAreAtomic == Users!Spec

\* Every call returns, cyclic dependencies and failing rollbacks included.
EveryCallReturns == Busy ~> ~Busy

\* elf32_dependency_loader.h:86 "every mapping owned by the call is rolled back
\* if the aggregate operation fails", and a rollback that cannot do so is
\* reported as RollbackFailed (docs/architecture/elf32-dependency-loading.md:108).
UnreportedFailureLeavesNothing ==
    ~Busy /\ outcome.error \notin {"None", "RollbackFailed"} =>
        mapped = before.mapped

=============================================================================
