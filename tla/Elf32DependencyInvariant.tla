---------------------- MODULE Elf32DependencyInvariant ----------------------
(***************************************************************************)
(* The inductive invariant of the dependency loader.                       *)
(*                                                                         *)
(* Sound says what a link map between two calls is.  During a call it      *)
(* holds of the link map the call began with; DepInv says how far the call *)
(* has moved away from it, activation by activation, so that its end, in   *)
(* success or in rollback, is sound again.                                 *)
(***************************************************************************)
EXTENDS Elf32DependencyLoader

Policies == {"Local", "Global"}

LinkObjects ==
    [identity : Ids, image : DOMAIN Images, pages : SUBSET Int, global : BOOLEAN,
     dependencies : Seq(Nat)]

LinkRoots == [object : Nat, policy : Policies]

Frames ==
    [index : Nat, depth : Nat, at : {"load", "inspect", "resolve", "each"},
     pending : Seq(Answers)]

CallRecords == [mode : {"append", "graph"}, policy : Policies, options : LoadLimits]

(***************************************************************************)
(* The link map between calls.                                             *)
(***************************************************************************)
UniqueIdentities(o) == \A i, j \in DOMAIN o : o[i].identity = o[j].identity => i = j

EdgesInRange(o) ==
    \A i \in DOMAIN o : \A k \in DOMAIN o[i].dependencies : o[i].dependencies[k] \in DOMAIN o

RootsOK(o, r) ==
    /\ \A k \in DOMAIN r : r[k].object \in DOMAIN o
    /\ \A j, k \in DOMAIN r : r[j].object = r[k].object => j = k

Required(o, r, i) ==
    o[i].global \/ \E k \in DOMAIN r : r[k].object = i /\ r[k].policy = "Global"

InScope(g, i) == \E k \in DOMAIN g : g[k] = i

\* The scope holds the objects up to n that it must hold, in order.
ScopeOK(o, r, g, n) ==
    /\ \A k \in DOMAIN g : g[k] \in DOMAIN o /\ g[k] <= n
    /\ \A i \in DOMAIN o : i <= n => (InScope(g, i) <=> Required(o, r, i))
    /\ \A k \in DOMAIN g : k # 1 => g[k - 1] < g[k]

DisjointPages(o) == \A i, j \in DOMAIN o : i # j => o[i].pages \cap o[j].pages = {}

\* An object whose activation is over.
Finished(object) ==
    object.pages # {} /\ Len(object.dependencies) = Images[object.image].needed

HasReason(o, i) ==
    \E j \in 1 .. i - 1 : \E k \in DOMAIN o[j].dependencies : o[j].dependencies[k] = i

Sound(o, r, g, m) ==
    /\ o \in Seq(LinkObjects) /\ r \in Seq(LinkRoots) /\ g \in Seq(Nat)
    /\ UniqueIdentities(o) /\ EdgesInRange(o) /\ RootsOK(o, r) /\ ScopeOK(o, r, g, Len(o))
    /\ DisjointPages(o)
    /\ \A i \in DOMAIN o :
          /\ o[i].pages \subseteq m /\ Finished(o[i])
          /\ HasReason(o, i) \/ \E k \in DOMAIN r : r[k].object = i

(***************************************************************************)
(* The link map during a call.                                             *)
(***************************************************************************)
New == initial + 1 .. Len(objects)

\* What holds from the start of a call to its return.
CallOK ==
    /\ call.options \in LoadLimits
    /\ Sound(before.objects, before.roots, before.global_scope, before.mapped)
    /\ initial = Len(before.objects) /\ initial < Len(objects)
    /\ \A i \in 1 .. initial : objects[i] = before.objects[i]
    /\ UniqueIdentities(objects) /\ EdgesInRange(objects) /\ DisjointPages(objects)
    /\ \A i \in New : objects[i].pages \cap before.mapped = {}
    /\ call.mode = "graph" => initial = 0
    /\ LimitsHold
    /\ pc # "record" => roots = before.roots /\ global_scope = before.global_scope

\* The pages: those at the call, those of the loads to roll back, those lost.
MappingOK ==
    /\ mapped = before.mapped \cup lost \cup UNION {objects[loads[k]].pages : k \in DOMAIN loads}
    /\ lost \cap before.mapped = {}
    /\ \A k \in DOMAIN loads :
          /\ loads[k] \in New
          /\ objects[loads[k]].pages # {} /\ objects[loads[k]].pages \cap lost = {}
    /\ \A j, k \in DOMAIN loads : loads[j] = loads[k] => j = k
    /\ pc # "rollback" =>
          /\ lost = {}
          /\ \A i \in New : objects[i].pages # {} => \E k \in DOMAIN loads : loads[k] = i

\* How far an activation has come.
FrameOK(k) ==
    LET f == stack[k]
        object == objects[f.index]
    IN  /\ f.index \in New /\ f.depth = k - 1
        /\ k # Len(stack) => f.at = "each"
        /\ f.at = "load" => states[f.index] = "Discovered" /\ object.pages = {}
        /\ f.at # "load" => /\ states[f.index] = "Loading" /\ object.pages # {}
                            /\ f.depth <= call.options.max_depth
        /\ f.at # "each" => object.dependencies = <<>>
        /\ f.at = "resolve" =>
              occurrences + Images[object.image].needed <= call.options.max_occurrences
        /\ f.at = "each" =>
              Len(object.dependencies) + Len(f.pending) = Images[object.image].needed

NewHaveReason == \A i \in New : i # initial + 1 => HasReason(objects, i)

ProcessOK ==
    /\ stack \in Seq(Frames)
    /\ states \in Seq({"Discovered", "Loading", "Loaded"}) /\ Len(states) = Len(objects)
    /\ \A k \in DOMAIN stack : FrameOK(k)
    /\ \A j, k \in DOMAIN stack : stack[j].index = stack[k].index => j = k
    /\ \A i \in 1 .. initial : states[i] = "Loaded"
    /\ \A i \in New :
          \/ states[i] = "Loaded" /\ Finished(objects[i])
          \/ \E k \in DOMAIN stack : stack[k].index = i
    /\ NewHaveReason
    /\ recorded = initial

RecordOK ==
    /\ call.mode = "append" /\ stack = <<>>
    /\ \A i \in New : Finished(objects[i])
    /\ NewHaveReason
    /\ recorded \in initial .. Len(objects)
    /\ roots = Append(before.roots, [object |-> initial + 1, policy |-> call.policy])
    /\ ScopeOK(objects, roots, global_scope, recorded)

Typed ==
    /\ pc \in {"idle", "process", "record", "rollback"}
    /\ objects \in Seq(LinkObjects) /\ roots \in Seq(LinkRoots) /\ global_scope \in Seq(Nat)
    /\ mapped \in SUBSET Int /\ lost \in SUBSET Int
    /\ call \in CallRecords /\ initial \in Nat /\ loads \in Seq(Nat)
    /\ occurrences \in Nat /\ total \in Nat /\ recorded \in Nat
    /\ Len(stack) \in Nat

DepInv ==
    /\ Typed
    /\ pc # "idle" => CallOK /\ MappingOK
    /\ pc = "process" => ProcessOK
    /\ pc = "record" => RecordOK
    /\ pc = "idle" => Sound(objects, roots, global_scope, mapped) /\ FailureRestores

(***************************************************************************)
(* What the operators on numbers and sequences compute, as far as the      *)
(* steps rest on it.  Each is a fact, proved by induction apart from the   *)
(* steps: RecordGlobalEffect, BytesNatural and LoadPagesFree.              *)
(***************************************************************************)
Increasing(g) == \A k \in DOMAIN g : k # 1 => g[k - 1] < g[k]

\* record_global keeps the order and adds the object, unless it is there.
RecordsInOrder ==
    global_scope \in Seq(Nat) /\ Increasing(global_scope) =>
        \A object \in Nat :
            /\ record_global(object) \in Seq(Nat)
            /\ Increasing(record_global(object))
            /\ InScope(record_global(object), object)
            /\ \A i : InScope(global_scope, i) => InScope(record_global(object), i)
            /\ \A k \in DOMAIN record_global(object) :
                  \/ record_global(object)[k] = object
                  \/ InScope(global_scope, record_global(object)[k])

\* The bytes of a resolution are a number.
BytesAreNatural ==
    \A n \in Nat : \A answers \in [1 .. n -> Answers] : Bytes(answers) \in Nat

\* load_elf32 maps pages that were free, and some.
LoadsFreePages ==
    \A image \in DOMAIN Images :
        /\ Images[image].type # "Invalid"
        /\ Images[image].type = "Dynamic" => Runs(Images[image].size) # {}
        /\ Images[image].type = "Executable" => LoadPages(image) \cap mapped = {}
        => /\ LoadPages(image) \in SUBSET Int /\ LoadPages(image) # {}
           /\ LoadPages(image) \cap mapped = {}

=============================================================================
