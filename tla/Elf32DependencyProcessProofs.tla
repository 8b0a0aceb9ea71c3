------------------- MODULE Elf32DependencyProcessProofs -------------------
(***************************************************************************)
(* Every step of the dependency loader keeps DepInv: a lemma for each, and *)
(* the facts about states and steps that several of them share.            *)
(***************************************************************************)
EXTENDS Elf32DependencyInvariant, TLAPS

(***************************************************************************)
(* What the operators on sequences return.                                 *)
(***************************************************************************)
LEMMA SeqFacts ==
    ASSUME NEW S, NEW s \in Seq(S)
    PROVE  /\ Len(s) \in Nat /\ DOMAIN s = 1 .. Len(s)
           /\ \A i \in 1 .. Len(s) : s[i] \in S
           /\ s # <<>> => Len(s) # 0
  OBVIOUS

LEMMA SeqReplaced ==
    ASSUME NEW S, NEW s \in Seq(S), NEW i \in 1 .. Len(s), NEW e \in S
    PROVE  /\ [s EXCEPT ![i] = e] \in Seq(S)
           /\ Len([s EXCEPT ![i] = e]) = Len(s)
           /\ \A j \in 1 .. Len(s) : [s EXCEPT ![i] = e][j] = IF j = i THEN e ELSE s[j]
  OBVIOUS

LEMMA SeqAppended ==
    ASSUME NEW S, NEW s \in Seq(S), NEW e \in S
    PROVE  /\ Append(s, e) \in Seq(S) /\ Len(Append(s, e)) = Len(s) + 1
           /\ \A i \in 1 .. Len(s) : Append(s, e)[i] = s[i]
           /\ Append(s, e)[Len(s) + 1] = e
  OBVIOUS

LEMMA SeqTail ==
    ASSUME NEW S, NEW s \in Seq(S), s # <<>>
    PROVE  Head(s) \in S /\ Tail(s) \in Seq(S) /\ Len(Tail(s)) = Len(s) - 1
  OBVIOUS

LEMMA SeqPart ==
    ASSUME NEW S, NEW s, NEW m \in Int, NEW n \in Int, \A i \in m .. n : s[i] \in S
    PROVE  /\ SubSeq(s, m, n) \in Seq(S)
           /\ Len(SubSeq(s, m, n)) = IF m <= n THEN n - m + 1 ELSE 0
           /\ \A i \in 1 .. n - m + 1 : SubSeq(s, m, n)[i] = s[m + i - 1]
  OBVIOUS

LEMMA SeqJoined ==
    ASSUME NEW S, NEW s \in Seq(S), NEW t \in Seq(S)
    PROVE  /\ s \o t \in Seq(S) /\ Len(s \o t) = Len(s) + Len(t)
           /\ \A i \in 1 .. Len(s) + Len(t) :
                 (s \o t)[i] = IF i <= Len(s) THEN s[i] ELSE t[i - Len(s)]
  OBVIOUS

(***************************************************************************)
(* Facts about one state.                                                  *)
(***************************************************************************)
LEMMA SeqSame ==
    ASSUME NEW S, NEW s \in Seq(S), NEW t \in Seq(S), Len(s) = Len(t),
           \A i \in 1 .. Len(s) : s[i] = t[i]
    PROVE  s = t
  OBVIOUS
LEMMA ObjectFacts ==
    ASSUME Typed
    PROVE  /\ Len(objects) \in Nat /\ DOMAIN objects = 1 .. Len(objects) /\ initial \in Nat
           /\ \A i \in DOMAIN objects :
                 /\ objects[i] \in LinkObjects
                 /\ objects[i].image \in DOMAIN Images /\ objects[i].pages \in SUBSET Int
                 /\ objects[i].dependencies \in Seq(Nat) /\ objects[i].global \in BOOLEAN
                 /\ Images[objects[i].image].needed \in Nat
           /\ New \subseteq DOMAIN objects
  <1>1. /\ Len(objects) \in Nat /\ DOMAIN objects = 1 .. Len(objects) /\ initial \in Nat
        /\ \A i \in DOMAIN objects : objects[i] \in LinkObjects
    BY SeqFacts, Zenon DEF Typed
  <1>2. \A x \in LinkObjects :
           /\ x.image \in DOMAIN Images /\ x.pages \in SUBSET Int
           /\ x.dependencies \in Seq(Nat) /\ x.global \in BOOLEAN
    BY Zenon DEF LinkObjects
  <1>3. New \subseteq DOMAIN objects
    BY <1>1 DEF New
  <1> QED
    BY <1>1, <1>2, <1>3, ImagesAssumption, Zenon

\* ... and the one at the call.
LEMMA SoundBefore ==
    ASSUME NEW o, NEW r, NEW g, NEW m, Sound(o, r, g, m),
           before'.objects = o, before'.roots = r, before'.global_scope = g, before'.mapped = m
    PROVE  Sound(before.objects, before.roots, before.global_scope, before.mapped)'
  <1>1. (/\ before.objects \in Seq(LinkObjects) /\ before.roots \in Seq(LinkRoots)
         /\ before.global_scope \in Seq(Nat))'
    BY Zenon DEF Sound, LinkObjects, LinkRoots, Ids, Policies
  <1>2. (/\ UniqueIdentities(before.objects) /\ EdgesInRange(before.objects)
         /\ DisjointPages(before.objects))'
    BY Zenon DEF Sound, UniqueIdentities, EdgesInRange, DisjointPages
  <1>3. RootsOK(before.objects, before.roots)'
    BY Zenon DEF Sound, RootsOK
  <1>4. ScopeOK(before.objects, before.roots, before.global_scope, Len(before.objects))'
    BY DEF Sound, ScopeOK, InScope, Required
  <1>5. (\A i \in DOMAIN before.objects :
            /\ before.objects[i].pages \subseteq before.mapped /\ Finished(before.objects[i])
            /\ HasReason(before.objects, i) \/ \E k \in DOMAIN before.roots : before.roots[k].object = i)'
    <2>1. (\A i \in DOMAIN before.objects :
              before.objects[i].pages \subseteq before.mapped /\ Finished(before.objects[i]))'
      BY Zenon DEF Sound, Finished
    <2>2. (\A i \in DOMAIN before.objects :
              HasReason(before.objects, i) \/ \E k \in DOMAIN before.roots : before.roots[k].object = i)'
      BY Zenon DEF Sound, HasReason
    <2> QED
      BY <2>1, <2>2, Zenon
  <1> QED
    BY <1>1, <1>2, <1>3, <1>4, <1>5, Zenon DEF Sound

(***************************************************************************)
(* Steps that keep every object's identity, pages and edges.               *)
(***************************************************************************)
SameShape ==
    /\ objects' \in Seq(LinkObjects) /\ Len(objects') = Len(objects)
    /\ \A i \in DOMAIN objects :
          /\ objects'[i].identity = objects[i].identity /\ objects'[i].image = objects[i].image
          /\ objects'[i].pages = objects[i].pages
          /\ objects'[i].dependencies = objects[i].dependencies
          /\ i <= initial => objects'[i] = objects[i]

LEMMA UnchangedShape ==
    ASSUME Typed, UNCHANGED objects
    PROVE  SameShape
  BY Zenon DEF Typed, SameShape

LEMMA SameShapeKeepsCall ==
    ASSUME Typed, CallOK, SameShape, UNCHANGED <<call, initial, before>>, LimitsHold',
           pc' # "record" => roots' = before.roots /\ global_scope' = before.global_scope
    PROVE  CallOK'
  <1>1. /\ DOMAIN objects' = DOMAIN objects /\ New' = New /\ New \subseteq DOMAIN objects
        /\ 1 .. initial \subseteq DOMAIN objects
    <2>1. Len(objects) \in Nat /\ DOMAIN objects = 1 .. Len(objects) /\ New \subseteq DOMAIN objects
      BY ObjectFacts, Zenon
    <2>2. DOMAIN objects' = 1 .. Len(objects')
      BY SeqFacts, Zenon DEF SameShape
    <2>3. initial \in Nat /\ initial < Len(objects)
      BY Zenon DEF Typed, CallOK
    <2> QED
      BY <2>1, <2>2, <2>3 DEF SameShape, New
  <1>2. Sound(before.objects, before.roots, before.global_scope, before.mapped)'
    BY SoundBefore, Zenon DEF CallOK
  <1>3. UniqueIdentities(objects)'
    BY <1>1, Zenon DEF CallOK, UniqueIdentities, SameShape
  <1>4. EdgesInRange(objects)'
    BY <1>1 DEF CallOK, EdgesInRange, SameShape
  <1>5. DisjointPages(objects)'
    BY <1>1, Zenon DEF CallOK, DisjointPages, SameShape
  <1>6. \A i \in New' : objects'[i].pages \cap before'.mapped = {}
    BY <1>1, Zenon DEF CallOK, SameShape
  <1>7. \A i \in 1 .. initial' : objects'[i] = before'.objects[i]
    <2> SUFFICES ASSUME NEW i \in 1 .. initial
                 PROVE  objects'[i] = before.objects[i]
      BY Zenon
    <2>1. i <= initial /\ i \in DOMAIN objects
      BY <1>1 DEF Typed
    <2> QED
      BY <2>1, Zenon DEF SameShape, CallOK
  <1>8. initial' = Len(before'.objects) /\ initial' < Len(objects')
    BY Zenon DEF CallOK, SameShape
  <1> QED
    BY <1>2, <1>3, <1>4, <1>5, <1>6, <1>7, <1>8, Zenon DEF CallOK

LEMMA SameShapeKeepsMapping ==
    ASSUME Typed, MappingOK, SameShape, UNCHANGED <<initial, loads, before, mapped, lost>>,
           pc' # "rollback" => pc # "rollback"
    PROVE  MappingOK'
  <1>1. New' = New /\ New \subseteq DOMAIN objects
    BY ObjectFacts, Zenon DEF SameShape, New
  <1>2. \A i \in New : objects'[i].pages = objects[i].pages
    BY <1>1, Zenon DEF SameShape
  <1>3. \A k \in DOMAIN loads : objects'[loads[k]].pages = objects[loads[k]].pages
    BY <1>2, Zenon DEF MappingOK
  <1>4. {objects'[loads[k]].pages : k \in DOMAIN loads} = {objects[loads[k]].pages : k \in DOMAIN loads}
    BY <1>3, Zenon
  <1> QED
    BY <1>1, <1>2, <1>3, <1>4 DEF MappingOK

LEMMA SoundGrows ==
    ASSUME NEW o, NEW r, NEW g, NEW m, NEW n, Sound(o, r, g, m), m \subseteq n
    PROVE  Sound(o, r, g, n)
  BY Zenon DEF Sound

\* The link map after a step, where it is a sound one.
LEMMA SoundNext ==
    ASSUME NEW o, NEW r, NEW g, NEW m, Sound(o, r, g, m),
           objects' = o, roots' = r, global_scope' = g, mapped' = m
    PROVE  Sound(objects, roots, global_scope, mapped)'
  <1>1. (objects \in Seq(LinkObjects) /\ roots \in Seq(LinkRoots) /\ global_scope \in Seq(Nat))'
    BY Zenon DEF Sound, LinkObjects, LinkRoots, Ids, Policies
  <1>2. (UniqueIdentities(objects) /\ EdgesInRange(objects) /\ DisjointPages(objects))'
    BY Zenon DEF Sound, UniqueIdentities, EdgesInRange, DisjointPages
  <1>3. RootsOK(objects, roots)'
    BY Zenon DEF Sound, RootsOK
  <1>4. ScopeOK(objects, roots, global_scope, Len(objects))'
    BY ZenonT(40) DEF Sound, ScopeOK, InScope, Required
  <1>5. (\A i \in DOMAIN objects :
            /\ objects[i].pages \subseteq mapped /\ Finished(objects[i])
            /\ HasReason(objects, i) \/ \E k \in DOMAIN roots : roots[k].object = i)'
    <2>1. (\A i \in DOMAIN objects : objects[i].pages \subseteq mapped /\ Finished(objects[i]))'
      BY Zenon DEF Sound, Finished
    <2>2. (\A i \in DOMAIN objects :
              HasReason(objects, i) \/ \E k \in DOMAIN roots : roots[k].object = i)'
      BY Zenon DEF Sound, HasReason
    <2> QED
      BY <2>1, <2>2, Zenon
  <1> QED
    BY <1>1, <1>2, <1>3, <1>4, <1>5, Zenon DEF Sound

LEMMA StutterDepInv ==
    ASSUME DepInv, UNCHANGED vars
    PROVE  DepInv'
  <1>1. /\ UNCHANGED <<objects, roots, global_scope, mapped, pc, call, initial, stack, states>>
        /\ UNCHANGED <<loads, occurrences, total, recorded, outcome, before, lost>>
    BY Zenon DEF vars, linkMap, callVars
  <1>2. Typed'
    BY <1>1, Zenon DEF DepInv, Typed
  <1>3. ASSUME pc # "idle"
        PROVE  CallOK' /\ MappingOK'
    <2>1. Typed /\ CallOK /\ MappingOK
      BY <1>3, Zenon DEF DepInv
    <2>2. SameShape
      BY <1>1, <2>1, UnchangedShape, Zenon
    <2>3. LimitsHold'
      BY <1>1, <1>3, <2>1, Zenon DEF CallOK, LimitsHold, Busy
    <2>4. pc' # "record" => roots' = before.roots /\ global_scope' = before.global_scope
      BY <1>1, <2>1, Zenon DEF CallOK
    <2> QED
      BY <1>1, <2>1, <2>2, <2>3, <2>4, SameShapeKeepsCall, SameShapeKeepsMapping, Zenon
  <1>4. ASSUME pc = "process"
        PROVE  ProcessOK'
    <2>1. ProcessOK
      BY <1>4, Zenon DEF DepInv
    <2>2. New' = New
      BY <1>1, Zenon DEF New
    <2>3. ASSUME NEW k \in DOMAIN stack
          PROVE  FrameOK(k)'
      <3>1. FrameOK(k)
        BY <2>1, Zenon DEF ProcessOK
      <3> QED
        BY <1>1, <2>2, <3>1, Zenon DEF FrameOK
    <2>4. (\A k \in DOMAIN stack : FrameOK(k))'
      BY <1>1, <2>3, Zenon
    <2>5. (\A i \in New :
             \/ states[i] = "Loaded" /\ Finished(objects[i])
             \/ \E k \in DOMAIN stack : stack[k].index = i)'
      BY <1>1, <2>1, <2>2, Zenon DEF ProcessOK, Finished
    <2>6. NewHaveReason'
      BY <1>1, <2>1, <2>2 DEF ProcessOK, NewHaveReason, HasReason
    <2>7. /\ stack' \in Seq(Frames) /\ recorded' = initial'
          /\ states' \in Seq({"Discovered", "Loading", "Loaded"}) /\ Len(states') = Len(objects')
          /\ \A j, k \in DOMAIN stack' : stack'[j].index = stack'[k].index => j = k
          /\ \A i \in 1 .. initial' : states'[i] = "Loaded"
      BY <1>1, <2>1, Zenon DEF ProcessOK
    <2> QED
      BY <2>4, <2>5, <2>6, <2>7, Zenon DEF ProcessOK
  <1>5. ASSUME pc = "record"
        PROVE  RecordOK'
    BY <1>1, <1>5, SMTT(40) DEF DepInv, RecordOK, New, NewHaveReason, HasReason, Finished,
                      ScopeOK, InScope, Required
  <1>6. ASSUME pc = "idle"
        PROVE  Sound(objects, roots, global_scope, mapped)' /\ FailureRestores'
    <2>1. Sound(objects, roots, global_scope, mapped) /\ FailureRestores
      BY <1>6, Zenon DEF DepInv
    <2>2. Sound(objects, roots, global_scope, mapped)'
      BY <1>1, <2>1, SoundNext, Zenon
    <2>3. FailureRestores'
      BY <1>1, <2>1, Zenon DEF FailureRestores, Busy, linkMap
    <2> QED
      BY <2>2, <2>3, Zenon
  <1> QED
    BY <1>1, <1>2, <1>3, <1>4, <1>5, <1>6, Zenon DEF DepInv

LEMMA ReturnTyped ==
    ASSUME Typed, NEW result, Return(result), call' \in CallRecords,
           objects' \in Seq(LinkObjects), roots' \in Seq(LinkRoots), global_scope' \in Seq(Nat),
           mapped' \in SUBSET Int, lost' \in SUBSET Int
    PROVE  Typed' /\ pc' = "idle" /\ outcome' = result
  <1>1. <<>> \in Seq(Nat) /\ Len(<<>>) \in Nat
    OBVIOUS
  <1> QED
    BY <1>1, Zenon DEF Typed, Return

\* A step of process_object that fails: what it loaded is on record, and left
\* are the pages that load_elf32 could not give back.
LEMMA FailPreserves ==
    ASSUME DepInv, pc = "process", pc' = "rollback", UNCHANGED stack, SameShape,
           NEW left \in SUBSET Int, left \cap mapped = {},
           mapped' = mapped \cup left, lost' = lost \cup left,
           UNCHANGED <<roots, global_scope, call, initial, loads, occurrences, total,
                       recorded, before>>
    PROVE  DepInv'
  <1>1. Typed /\ CallOK /\ MappingOK /\ lost = {}
    BY Zenon DEF DepInv, MappingOK
  <1>2. Typed'
    BY <1>1, Zenon DEF Typed, SameShape
  <1>3. LimitsHold'
    BY <1>1, Zenon DEF CallOK, LimitsHold, Busy, SameShape
  <1>4. roots' = before.roots /\ global_scope' = before.global_scope
    BY <1>1, Zenon DEF CallOK
  <1>5. CallOK'
    BY <1>1, <1>3, <1>4, SameShapeKeepsCall, Zenon
  <1>6. MappingOK'
    <2>1. New' = New /\ New \subseteq DOMAIN objects
      BY <1>1, ObjectFacts, Zenon DEF SameShape, New
    <2>2. left \cap before.mapped = {}
      BY <1>1, Zenon DEF MappingOK
    <2>3. \A k \in DOMAIN loads : objects'[loads[k]].pages = objects[loads[k]].pages
      BY <1>1, <2>1, Zenon DEF MappingOK, SameShape
    <2>4. \A k \in DOMAIN loads : objects[loads[k]].pages \subseteq mapped
      BY <1>1 DEF MappingOK
    <2>5. mapped' = before'.mapped \cup lost' \cup UNION {objects'[loads'[k]].pages : k \in DOMAIN loads'}
      BY <1>1, <2>3 DEF MappingOK
    <2>6. lost' \cap before'.mapped = {}
      BY <1>1, <2>2, Zenon
    <2>7. ASSUME NEW k \in DOMAIN loads
          PROVE  /\ loads[k] \in New'
                 /\ objects'[loads[k]].pages # {} /\ objects'[loads[k]].pages \cap lost' = {}
      <3>1. objects'[loads[k]].pages = objects[loads[k]].pages
        BY <2>3, Zenon
      <3>2. objects[loads[k]].pages \cap lost' = {}
        BY <1>1, <2>4, Zenon
      <3> QED
        BY <1>1, <2>1, <3>1, <3>2, Zenon DEF MappingOK
    <2>8. \A j, k \in DOMAIN loads' : loads'[j] = loads'[k] => j = k
      BY <1>1, Zenon DEF MappingOK
    <2> QED
      BY <2>5, <2>6, <2>7, <2>8, Zenon DEF MappingOK
  <1> QED
    BY <1>2, <1>5, <1>6, Zenon DEF DepInv

(***************************************************************************)
(* Rollback.                                                               *)
(***************************************************************************)
LEMMA RollbackLoadPreserves ==
    ASSUME DepInv, RollbackLoad
    PROVE  DepInv'
  <1> DEFINE n == Len(loads)
             pages == objects[loads[n]].pages
  <1>1. /\ pc = "rollback" /\ pc' = "rollback" /\ loads # <<>> /\ loads' = SubSeq(loads, 1, n - 1)
        /\ UNCHANGED <<linkMap, call, initial, stack, occurrences, total, recorded, before>>
    BY Zenon DEF RollbackLoad
  <1>2. PICK stuck \in SUBSET pages : mapped' = mapped \ (pages \ stuck) /\ lost' = lost \cup stuck
    BY Zenon DEF RollbackLoad
  <1>3. Typed /\ CallOK /\ MappingOK /\ UNCHANGED objects /\ loads \in Seq(Nat)
    BY <1>1, Zenon DEF DepInv, linkMap, Typed
  <1>4. n \in Nat \ {0} /\ DOMAIN loads = 1 .. n /\ n \in DOMAIN loads
    BY <1>1, <1>3, SeqFacts
  <1>5. /\ loads' \in Seq(Nat) /\ Len(loads') = n - 1
        /\ \A k \in 1 .. n - 1 : loads'[k] = loads[k]
    <2>1. n - 1 \in Int /\ \A i \in 1 .. n - 1 : loads[i] \in Nat
      BY <1>3, <1>4
    <2>2. /\ SubSeq(loads, 1, n - 1) \in Seq(Nat)
          /\ Len(SubSeq(loads, 1, n - 1)) = IF 1 <= n - 1 THEN (n - 1) - 1 + 1 ELSE 0
          /\ \A i \in 1 .. (n - 1) - 1 + 1 : SubSeq(loads, 1, n - 1)[i] = loads[1 + i - 1]
      BY <2>1, SeqPart
    <2> DEFINE s == SubSeq(loads, 1, n - 1)
    <2>3. loads' = s
      BY <1>1, Zenon
    <2> HIDE DEF s, n
    <2> QED
      BY <1>4, <2>2, <2>3 DEF s
  <1>6. DOMAIN loads' = 1 .. n - 1
    BY <1>5, SeqFacts
  <1>7. pages \in SUBSET Int
    <2>1. loads[n] \in DOMAIN objects
      BY <1>3, <1>4, ObjectFacts, Zenon DEF MappingOK
    <2> QED
      BY <1>3, <2>1, ObjectFacts, Zenon
  <1> HIDE DEF n
  <1>8. Typed'
    BY <1>1, <1>2, <1>3, <1>5, <1>7, Zenon DEF Typed, linkMap
  <1>9. SameShape
    BY <1>3, UnchangedShape, Zenon
  <1>10. CallOK'
    <2>1. LimitsHold'
      BY <1>1, <1>3, Zenon DEF CallOK, LimitsHold, Busy
    <2>2. roots' = before.roots /\ global_scope' = before.global_scope
      BY <1>1, <1>3, Zenon DEF CallOK, linkMap
    <2> QED
      BY <1>1, <1>3, <1>9, <2>1, <2>2, SameShapeKeepsCall, Zenon
  <1>11. MappingOK'
    <2>1. New' = New /\ n \in DOMAIN loads
      BY <1>1, <1>3, <1>4, Zenon DEF New
    <2>2. /\ pages \cap lost = {} /\ pages \cap before.mapped = {}
      BY <1>3, <2>1, Zenon DEF MappingOK, CallOK
    <2>3. ASSUME NEW k \in 1 .. n - 1
          PROVE  /\ k \in DOMAIN loads /\ loads[k] # loads[n]
                 /\ objects[loads[k]].pages \cap pages = {}
      <3>1. k \in DOMAIN loads /\ k # n
        BY <1>4
      <3>2. loads[k] # loads[n]
        BY <1>3, <2>1, <3>1, Zenon DEF MappingOK
      <3>3. loads[k] \in DOMAIN objects /\ loads[n] \in DOMAIN objects
        BY <1>3, <2>1, <3>1, ObjectFacts, Zenon DEF MappingOK
      <3> QED
        BY <1>3, <3>1, <3>2, <3>3, Zenon DEF CallOK, DisjointPages
    <2>4. mapped = before.mapped \cup lost \cup pages
                     \cup UNION {objects[loads[k]].pages : k \in 1 .. n - 1}
      <3>1. \A k \in DOMAIN loads : k = n \/ k \in 1 .. n - 1
        BY <1>4
      <3> QED
        BY <1>3, <2>1, <2>3, <3>1, SMTT(40) DEF MappingOK
    <2>5. mapped' = before.mapped \cup lost' \cup UNION {objects[loads[k]].pages : k \in 1 .. n - 1}
      BY <1>2, <2>2, <2>3, <2>4, ZenonT(40)
    <2>6. UNION {objects[loads[k]].pages : k \in 1 .. n - 1}
             = UNION {objects'[loads'[k]].pages : k \in DOMAIN loads'}
      <3>1. \A k \in 1 .. n - 1 : objects'[loads'[k]].pages = objects[loads[k]].pages
        BY <1>3, <1>5, Zenon
      <3>2. {objects[loads[k]].pages : k \in 1 .. n - 1}
               = {objects'[loads'[k]].pages : k \in 1 .. n - 1}
        BY <3>1, Zenon
      <3> QED
        BY <1>6, <3>2, Zenon
    <2>7. lost' \cap before'.mapped = {}
      BY <1>1, <1>2, <1>3, <2>2, Zenon DEF MappingOK
    <2>8. ASSUME NEW k \in DOMAIN loads'
          PROVE  /\ loads'[k] \in New' /\ objects'[loads'[k]].pages # {}
                 /\ objects'[loads'[k]].pages \cap lost' = {}
      <3>1. loads'[k] = loads[k] /\ k \in 1 .. n - 1
        BY <1>5, <1>6, Zenon
      <3>2. k \in DOMAIN loads /\ objects[loads[k]].pages \cap pages = {}
        BY <2>3, <3>1, Zenon
      <3> QED
        BY <1>2, <1>3, <2>1, <3>1, <3>2, Zenon DEF MappingOK
    <2>9. \A j, k \in DOMAIN loads' : loads'[j] = loads'[k] => j = k
      BY <1>3, <1>5, <1>6, <2>3, Zenon DEF MappingOK
    <2> QED
      BY <1>1, <2>5, <2>6, <2>7, <2>8, <2>9, Zenon DEF MappingOK
  <1> QED
    BY <1>1, <1>8, <1>10, <1>11, Zenon DEF DepInv

\* The objects of the call are dropped: what is left is the link map it began
\* with.
LEMMA DropNewObjects ==
    ASSUME Typed, CallOK
    PROVE  SubSeq(objects, 1, initial) = before.objects
  <1> DEFINE s == SubSeq(objects, 1, initial)
             b == before.objects
  <1>1. /\ objects \in Seq(LinkObjects) /\ initial \in Nat /\ Len(objects) \in Nat
        /\ DOMAIN objects = 1 .. Len(objects) /\ initial < Len(objects) /\ initial = Len(b)
        /\ \A i \in 1 .. initial : objects[i] = b[i]
    BY ObjectFacts, Zenon DEF Typed, CallOK
  <1>2. b \in Seq(LinkObjects)
    BY Zenon DEF CallOK, Sound
  <1>3. \A i \in 1 .. initial : objects[i] \in LinkObjects
    BY <1>1, SeqFacts
  <1>4. /\ s \in Seq(LinkObjects)
        /\ Len(s) = IF 1 <= initial THEN initial - 1 + 1 ELSE 0
        /\ \A i \in 1 .. initial - 1 + 1 : s[i] = objects[1 + i - 1]
    BY <1>1, <1>3, SeqPart
  <1> HIDE DEF s, b
  <1>5. Len(s) = initial /\ \A i \in 1 .. initial : s[i] = b[i]
    BY <1>1, <1>4
  <1>6. Len(s) = Len(b) /\ \A i \in 1 .. Len(s) : s[i] = b[i]
    BY <1>1, <1>5, Zenon
  <1>7. s = b
    BY <1>2, <1>4, <1>6, SeqSame, Zenon
  <1> QED
    BY <1>7, Zenon DEF s, b

LEMMA RollbackDonePreserves ==
    ASSUME DepInv, RollbackDone
    PROVE  DepInv'
  <1>1. /\ pc = "rollback" /\ loads = <<>> /\ objects' = SubSeq(objects, 1, initial)
        /\ \E result : Return(result)
        /\ UNCHANGED <<roots, global_scope, mapped, call, calls, before, lost>>
    BY Zenon DEF RollbackDone
  <1>2. Typed /\ CallOK /\ MappingOK
    BY <1>1, Zenon DEF DepInv
  <1>3. objects' = before.objects /\ roots' = before.roots /\ global_scope' = before.global_scope
    BY <1>1, <1>2, DropNewObjects, Zenon DEF CallOK
  <1>4. Sound(before.objects, before.roots, before.global_scope, before.mapped)
    BY <1>2, Zenon DEF CallOK
  <1>5. mapped = before.mapped \cup lost /\ lost \cap before.mapped = {}
    <2>1. DOMAIN loads = {}
      BY <1>1
    <2> QED
      BY <1>2, <2>1, Zenon DEF MappingOK
  <1>6. Typed' /\ pc' = "idle"
    <2>1. /\ objects' \in Seq(LinkObjects) /\ roots' \in Seq(LinkRoots) /\ global_scope' \in Seq(Nat)
      BY <1>3, <1>4, Zenon DEF Sound
    <2>2. mapped' \in SUBSET Int /\ lost' \in SUBSET Int /\ call' \in CallRecords
      BY <1>1, <1>2, Zenon DEF Typed
    <2> QED
      BY <1>1, <1>2, <2>1, <2>2, ReturnTyped, Zenon
  <1>7. Sound(objects, roots, global_scope, mapped)'
    <2>1. Sound(before.objects, before.roots, before.global_scope, mapped)
      BY <1>4, <1>5, SoundGrows, Zenon
    <2> QED
      BY <1>1, <1>3, <2>1, SoundNext, Zenon
  <1>8. FailureRestores'
    <2>1. linkMap' = <<before'.objects, before'.roots, before'.global_scope>>
      BY <1>1, <1>3, Zenon DEF linkMap
    <2>2. mapped' = before'.mapped \cup lost' /\ lost' \cap before'.mapped = {}
      BY <1>1, <1>5, Zenon
    <2> QED
      BY <2>1, <2>2, Zenon DEF FailureRestores
  <1> QED
    BY <1>6, <1>7, <1>8, Zenon DEF DepInv

(***************************************************************************)
(* The entry points.                                                       *)
(***************************************************************************)
LEMMA InitDepInv == Init => DepInv
  <1> SUFFICES ASSUME Init
               PROVE  DepInv
    BY Zenon
  <1>1. /\ <<>> \in Seq(LinkObjects) /\ <<>> \in Seq(LinkRoots) /\ <<>> \in Seq(Nat)
        /\ Len(<<>>) \in Nat
    OBVIOUS
  <1>2. call \in CallRecords
    BY Zenon DEF Init, NoCall, CallRecords, Policies, LoadLimits
  <1>3. Typed
    BY <1>1, <1>2, Zenon DEF Init, Typed
  <1>4. Sound(objects, roots, global_scope, mapped)
    <2>1. objects = <<>> /\ roots = <<>> /\ global_scope = <<>>
      BY Zenon DEF Init
    <2>2. DOMAIN objects = {} /\ DOMAIN roots = {} /\ DOMAIN global_scope = {}
      BY <2>1
    <2>3. RootsOK(objects, roots) /\ ScopeOK(objects, roots, global_scope, Len(objects))
      BY <2>2, Zenon DEF RootsOK, ScopeOK
    <2>4. UniqueIdentities(objects) /\ EdgesInRange(objects) /\ DisjointPages(objects)
      BY <2>2, Zenon DEF UniqueIdentities, EdgesInRange, DisjointPages
    <2> QED
      BY <1>3, <2>2, <2>3, <2>4, Zenon DEF Sound, Typed
  <1>5. FailureRestores
    BY Zenon DEF Init, FailureRestores, Success
  <1> QED
    BY <1>3, <1>4, <1>5, Zenon DEF Init, DepInv

LEMMA CalledFacts ==
    ASSUME DepInv, NEW mode \in {"append", "graph"}, NEW policy \in Policies, NEW options \in Options,
           Called(mode, policy, options)
    PROVE  /\ pc = "idle" /\ Typed /\ Sound(objects, roots, global_scope, mapped)
           /\ call' = [mode |-> mode, policy |-> policy, options |-> options]
           /\ call' \in CallRecords /\ options \in LoadLimits
           /\ lost' = {} /\ before'.objects = objects /\ before'.roots = roots
           /\ before'.global_scope = global_scope /\ before'.mapped = mapped
  <1>1. pc = "idle" /\ Typed /\ Sound(objects, roots, global_scope, mapped)
    BY Zenon DEF Called, DepInv
  <1>2. options \in LoadLimits
    BY OptionsAssumption, Zenon
  <1>3. call' = [mode |-> mode, policy |-> policy, options |-> options] /\ call' \in CallRecords
    BY <1>2, Zenon DEF Called, CallRecords
  <1> QED
    BY <1>1, <1>2, <1>3, Zenon DEF Called, Snapshot

LEMMA RefusedPreserves ==
    ASSUME DepInv, NEW mode \in {"append", "graph"}, NEW policy \in Policies, NEW options \in Options,
           Called(mode, policy, options), NEW e, Refused(e)
    PROVE  DepInv'
  <1>1. /\ pc = "idle" /\ Typed /\ Sound(objects, roots, global_scope, mapped)
        /\ call' \in CallRecords
        /\ lost' = {} /\ before'.objects = objects /\ before'.roots = roots
        /\ before'.global_scope = global_scope /\ before'.mapped = mapped
    BY CalledFacts, Zenon
  <1>2. Return(Failure(e)) /\ UNCHANGED <<objects, roots, global_scope, mapped>>
    BY Zenon DEF Refused, linkMap
  <1>3. Typed' /\ pc' = "idle"
    <2>1. /\ objects' \in Seq(LinkObjects) /\ roots' \in Seq(LinkRoots)
          /\ global_scope' \in Seq(Nat) /\ mapped' \in SUBSET Int /\ lost' \in SUBSET Int
      BY <1>1, <1>2, Zenon DEF Typed
    <2> QED
      BY <1>1, <1>2, <2>1, ReturnTyped, Zenon
  <1>4. Sound(objects, roots, global_scope, mapped)'
    BY <1>1, <1>2, SoundNext, Zenon
  <1>5. FailureRestores'
    BY <1>1, <1>2, Zenon DEF FailureRestores, linkMap
  <1> QED
    BY <1>3, <1>4, <1>5, Zenon DEF DepInv

LEMMA StartGraphPreserves ==
    ASSUME DepInv, NEW mode \in {"append", "graph"}, NEW policy \in Policies, NEW options \in Options,
           Called(mode, policy, options), NEW answer \in Answers,
           IndexOf(answer[1]) = {}, Len(objects) < options.max_objects,
           Images[answer[2]].bytes <= options.max_total, mode = "graph" => objects = <<>>,
           StartGraph(answer[1], answer[2])
    PROVE  DepInv'
  <1> DEFINE n == Len(objects)
             new == NewObject(answer[1], answer[2])
             frame == Frame(n + 1, 0)
             grown == Append(objects, new)
  <1>1. /\ pc = "idle" /\ Typed /\ Sound(objects, roots, global_scope, mapped)
        /\ call' = [mode |-> mode, policy |-> policy, options |-> options]
        /\ call' \in CallRecords /\ options \in LoadLimits
        /\ lost' = {} /\ before'.objects = objects /\ before'.roots = roots
        /\ before'.global_scope = global_scope /\ before'.mapped = mapped
    BY CalledFacts, Zenon
  <1>2. /\ pc' = "process" /\ initial' = n /\ objects' = grown
        /\ states' = [i \in 1 .. n + 1 |-> IF i <= n THEN "Loaded" ELSE "Discovered"]
        /\ stack' = <<frame>> /\ total' = Images[answer[2]].bytes
        /\ loads' = <<>> /\ occurrences' = 0 /\ recorded' = n
        /\ UNCHANGED <<roots, global_scope, mapped>>
    BY Zenon DEF StartGraph
  <1>3. n \in Nat /\ DOMAIN objects = 1 .. n /\ objects \in Seq(LinkObjects)
    BY <1>1, ObjectFacts, Zenon DEF Typed
  <1>4. answer[2] \in DOMAIN Images /\ Images[answer[2]].bytes \in Nat /\ answer[1] \in Ids
    BY AnswersAssumption, ImagesAssumption, Zenon DEF Ids
  <1>5. /\ new \in LinkObjects /\ new.identity = answer[1] /\ new.image = answer[2]
        /\ new.pages = {} /\ new.dependencies = <<>>
    <2>1. <<>> \in Seq(Nat) /\ {} \in SUBSET Int
      OBVIOUS
    <2> QED
      BY <1>4, <2>1, Zenon DEF NewObject, LinkObjects
  <1>6. /\ frame \in Frames /\ frame.index = n + 1 /\ frame.depth = 0 /\ frame.at = "load"
    <2>1. <<>> \in Seq(Answers) /\ n + 1 \in Nat
      BY <1>3
    <2> QED
      BY <2>1, Zenon DEF Frame, Frames
  <1> HIDE DEF new, frame
  <1>7. /\ grown \in Seq(LinkObjects) /\ Len(grown) = n + 1 /\ grown[n + 1] = new
        /\ \A i \in 1 .. n : grown[i] = objects[i]
    <2>1. objects \in Seq(LinkObjects) /\ new \in LinkObjects
      BY <1>3, <1>5, Zenon
    <2> QED
      BY <2>1, SeqAppended
  <1> HIDE DEF grown, n
  <1>8. /\ DOMAIN grown = 1 .. n + 1 /\ New' = {n + 1} /\ Len(objects') = n + 1
        /\ \A i \in DOMAIN grown : i = n + 1 \/ (i # n + 1 /\ i \in DOMAIN objects)
    <2>1. DOMAIN grown = 1 .. n + 1
      BY <1>7, SeqFacts, Zenon
    <2>2. New' = n + 1 .. n + 1
      BY <1>2, <1>7, Zenon DEF New
    <2>3. n + 1 .. n + 1 = {n + 1} /\ \A i \in 1 .. n + 1 : i = n + 1 \/ i \in 1 .. n
      BY <1>3
    <2>4. n + 1 \notin 1 .. n
      BY <1>3
    <2> QED
      BY <1>2, <1>3, <1>7, <2>1, <2>2, <2>3, <2>4, Zenon
  <1>9. Typed'
    <2>1. <<>> \in Seq(Nat) /\ Len(<<frame>>) \in Nat
      OBVIOUS
    <2> QED
      BY <1>1, <1>2, <1>3, <1>4, <1>7, <2>1, Zenon DEF Typed
  <1>10. UniqueIdentities(grown) /\ EdgesInRange(grown) /\ DisjointPages(grown)
    <2>1. UniqueIdentities(objects) /\ EdgesInRange(objects) /\ DisjointPages(objects)
      BY <1>1, Zenon DEF Sound
    <2>2. \A i \in DOMAIN objects :
             i \in DOMAIN grown /\ grown[i] = objects[i] /\ objects[i].identity # answer[1]
      BY <1>3, <1>7, <1>8 DEF IndexOf
    <2>3. \A i \in DOMAIN grown : i # n + 1 =>
             i \in DOMAIN objects /\ grown[i] = objects[i] /\ grown[i].identity # answer[1]
      BY <1>8, <2>2, Zenon
    <2>4. grown[n + 1].identity = answer[1] /\ grown[n + 1].pages = {}
      BY <1>5, <1>7, Zenon
    <2>5. ASSUME NEW i \in DOMAIN grown, NEW j \in DOMAIN grown
          PROVE  /\ grown[i].identity = grown[j].identity => i = j
                 /\ i # j => grown[i].pages \cap grown[j].pages = {}
      <3>1. CASE i # n + 1 /\ j # n + 1
        <4>1. /\ i \in DOMAIN objects /\ grown[i] = objects[i]
              /\ j \in DOMAIN objects /\ grown[j] = objects[j]
          BY <2>3, <3>1, Zenon
        <4> QED
          BY <2>1, <4>1, Zenon DEF UniqueIdentities, DisjointPages
      <3>2. CASE i = n + 1 \/ j = n + 1
        BY <2>3, <2>4, <3>2, Zenon
      <3> QED
        BY <3>1, <3>2, Zenon
    <2>6. EdgesInRange(grown)
      <3>1. DOMAIN new.dependencies = {}
        BY <1>5
      <3> QED
        BY <1>7, <1>8, <2>1, <2>2, <3>1, Zenon DEF EdgesInRange
    <2> QED
      BY <2>5, <2>6, Zenon DEF UniqueIdentities, DisjointPages
  <1>11. CallOK'
    <2>1. Sound(before.objects, before.roots, before.global_scope, before.mapped)'
      BY <1>1, SoundBefore, Zenon
    <2>2. LimitsHold'
      <3>1. /\ call'.options = options /\ options.max_objects \in Nat /\ options.max_depth \in Nat
            /\ options.max_occurrences \in Nat
        BY <1>1, Zenon DEF LoadLimits
      <3>2. Len(stack') = 1
        BY <1>2, Zenon
      <3>3. n < options.max_objects
        BY Zenon DEF n
      <3> QED
        BY <1>2, <1>3, <1>8, <3>1, <3>2, <3>3 DEF LimitsHold
    <2>3. UniqueIdentities(objects)' /\ EdgesInRange(objects)' /\ DisjointPages(objects)'
      BY <1>2, <1>10, Zenon DEF UniqueIdentities, EdgesInRange, DisjointPages
    <2>4. \A i \in New' : objects'[i].pages \cap before'.mapped = {}
      BY <1>2, <1>5, <1>7, <1>8, Zenon
    <2>5. call'.mode = "graph" => initial' = 0
      <3>1. objects = <<>> => n = 0
        BY DEF n
      <3> QED
        BY <1>1, <1>2, <3>1, Zenon
    <2>6. initial' = Len(before'.objects) /\ initial' < Len(objects')
      <3>1. initial' = Len(before'.objects)
        BY <1>1, <1>2, Zenon DEF n
      <3> QED
        BY <1>2, <1>3, <1>8, <3>1
    <2>7. \A i \in 1 .. initial' : objects'[i] = before'.objects[i]
      BY <1>1, <1>2, <1>7, Zenon
    <2>8. call'.options \in LoadLimits /\ roots' = before'.roots /\ global_scope' = before'.global_scope
      BY <1>1, <1>2, Zenon
    <2> QED
      BY <2>1, <2>2, <2>3, <2>4, <2>5, <2>6, <2>7, <2>8, Zenon DEF CallOK
  <1>12. MappingOK'
    <2>1. DOMAIN loads' = {}
      BY <1>2
    <2>2. \A i \in New' : objects'[i].pages = {}
      BY <1>2, <1>5, <1>7, <1>8, Zenon
    <2> QED
      BY <1>1, <1>2, <2>1, <2>2, Zenon DEF MappingOK
  <1>13. ProcessOK'
    <2>1. /\ stack' \in Seq(Frames) /\ DOMAIN stack' = {1} /\ stack'[1] = frame /\ Len(stack') = 1
      BY <1>2, <1>6
    <2>2. /\ states' \in Seq({"Discovered", "Loading", "Loaded"}) /\ Len(states') = n + 1
          /\ states'[n + 1] = "Discovered" /\ \A i \in 1 .. n : states'[i] = "Loaded"
      <3> DEFINE s == [i \in 1 .. n + 1 |-> IF i <= n THEN "Loaded" ELSE "Discovered"]
      <3>1. s \in [1 .. n + 1 -> {"Discovered", "Loading", "Loaded"}]
        BY <1>3, Zenon
      <3>2. s[n + 1] = "Discovered" /\ \A i \in 1 .. n : s[i] = "Loaded"
        BY <1>3
      <3> HIDE DEF s
      <3>3. s \in Seq({"Discovered", "Loading", "Loaded"}) /\ Len(s) = n + 1
        BY <1>3, <3>1
      <3> QED
        BY <1>2, <3>2, <3>3, Zenon DEF s
    <2>3. FrameOK(1)'
      <3>1. /\ stack'[1].index = n + 1 /\ stack'[1].depth = 1 - 1 /\ stack'[1].at = "load"
            /\ n + 1 \in New' /\ Len(stack') = 1
        BY <1>6, <1>8, <2>1
      <3>2. objects'[n + 1].pages = {} /\ objects'[n + 1].dependencies = <<>>
        BY <1>2, <1>5, <1>7, Zenon
      <3> QED
        BY <2>2, <3>1, <3>2, Zenon DEF FrameOK
    <2>4. \A k \in DOMAIN stack' : FrameOK(k)'
      BY <2>1, <2>3, Zenon
    <2>5. \A i \in New' : \E k \in DOMAIN stack' : stack'[k].index = i
      BY <1>6, <1>8, <2>1, Zenon
    <2>6. NewHaveReason'
      BY <1>2, <1>8, Zenon DEF NewHaveReason
    <2>7. (\A k \in DOMAIN stack : FrameOK(k))'
      BY <2>4, Zenon
    <2> QED
      BY <1>2, <1>8, <2>1, <2>2, <2>5, <2>6, <2>7, Zenon DEF ProcessOK
  <1> QED
    BY <1>2, <1>9, <1>11, <1>12, <1>13, Zenon DEF DepInv

(***************************************************************************)
(* The records of a call that succeeds.                                    *)
(***************************************************************************)
\* The roots of the link map at the call are objects it had.
LEMMA RootsBefore ==
    ASSUME Typed, CallOK
    PROVE  /\ before.roots \in Seq(LinkRoots)
           /\ \A k \in DOMAIN before.roots : before.roots[k].object \in 1 .. initial
           /\ \A j, k \in DOMAIN before.roots :
                 before.roots[j].object = before.roots[k].object => j = k
  <1>1. before.objects \in Seq(LinkObjects) /\ RootsOK(before.objects, before.roots)
        /\ before.roots \in Seq(LinkRoots)
    BY Zenon DEF CallOK, Sound
  <1>2. DOMAIN before.objects = 1 .. initial
    BY <1>1, SeqFacts, Zenon DEF CallOK
  <1> QED
    BY <1>1, <1>2, Zenon DEF RootsOK

\* The roots with the call's own.
LEMMA RootAppended ==
    ASSUME Typed, CallOK, NEW r,
           r = Append(before.roots, [object |-> initial + 1, policy |-> call.policy])
    PROVE  /\ r \in Seq(LinkRoots) /\ RootsOK(objects, r)
           /\ \E k \in DOMAIN r : r[k].object = initial + 1
           /\ \A i \in 1 .. initial :
                 Required(objects, r, i) <=> Required(before.objects, before.roots, i)
           /\ \A i \in 1 .. initial :
                 (\E k \in DOMAIN before.roots : before.roots[k].object = i)
                    => \E k \in DOMAIN r : r[k].object = i
           /\ \A i \in New : Required(objects, r, i) <=>
                 objects[i].global \/ (i = initial + 1 /\ call.policy = "Global")
  <1> DEFINE b == before.roots
             n == Len(b)
             last == [object |-> initial + 1, policy |-> call.policy]
  <1>1. /\ b \in Seq(LinkRoots) /\ n \in Nat /\ DOMAIN b = 1 .. n
        /\ \A k \in DOMAIN b : b[k].object \in 1 .. initial
        /\ \A j, k \in DOMAIN b : b[j].object = b[k].object => j = k
    BY RootsBefore, SeqFacts, Zenon
  <1>2. last \in LinkRoots
    BY DEF Typed, CallRecords, LinkRoots
  <1>3. /\ r \in Seq(LinkRoots) /\ Len(r) = n + 1 /\ r[n + 1] = last
        /\ \A k \in 1 .. n : r[k] = b[k]
    <2> HIDE DEF last
    <2> QED
      BY <1>1, <1>2, SeqAppended DEF last
  <1>4. DOMAIN r = 1 .. n + 1
    BY <1>3, SeqFacts, Zenon
  <1>5. last.object = initial + 1 /\ last.policy = call.policy
    BY Zenon
  <1>6. /\ initial \in Nat /\ initial < Len(objects) /\ Len(objects) \in Nat
        /\ DOMAIN objects = 1 .. Len(objects)
        /\ \A i \in 1 .. initial : objects[i] = before.objects[i]
    BY ObjectFacts, Zenon DEF CallOK
  <1> HIDE DEF b, n, last
  <1>7. \A k \in DOMAIN r : k = n + 1 \/ (k \in DOMAIN b /\ k \in 1 .. n)
    BY <1>1, <1>4
  <1>8. RootsOK(objects, r)
    <2>1. 1 .. initial \subseteq DOMAIN objects /\ initial + 1 \in DOMAIN objects
          /\ initial + 1 \notin 1 .. initial
      BY <1>6
    <2>2. \A k \in DOMAIN r : k # n + 1 => k \in DOMAIN b /\ r[k] = b[k]
      BY <1>3, <1>7, Zenon
    <2>3. \A k \in DOMAIN r : k # n + 1 => r[k].object \in 1 .. initial
      BY <1>1, <2>2, Zenon
    <2>4. r[n + 1].object = initial + 1
      BY <1>3, <1>5, Zenon
    <2>5. \A k \in DOMAIN r : r[k].object \in DOMAIN objects
      BY <2>1, <2>3, <2>4, Zenon
    <2>6. ASSUME NEW j \in DOMAIN r, NEW k \in DOMAIN r, r[j].object = r[k].object
          PROVE  j = k
      <3>1. j = n + 1 <=> k = n + 1
        BY <2>1, <2>3, <2>4, <2>6, Zenon
      <3>2. CASE j # n + 1
        <4>1. /\ j \in DOMAIN b /\ r[j] = b[j]
              /\ k \in DOMAIN b /\ r[k] = b[k]
          BY <2>2, <3>1, <3>2, Zenon
        <4> QED
          BY <1>1, <2>6, <4>1, Zenon
      <3> QED
        BY <3>1, <3>2, Zenon
    <2> QED
      BY <2>5, <2>6, Zenon DEF RootsOK
  <1>9. n + 1 \in DOMAIN r /\ r[n + 1].object = initial + 1
    BY <1>1, <1>3, <1>4, <1>5
  <1>10. ASSUME NEW i \in 1 .. initial
         PROVE  /\ Required(objects, r, i) <=> Required(before.objects, before.roots, i)
                /\ (\E k \in DOMAIN b : b[k].object = i) => \E k \in DOMAIN r : r[k].object = i
    <2>1. objects[i] = before.objects[i] /\ i # initial + 1
      BY <1>6
    <2>2. \A k \in DOMAIN b : k \in DOMAIN r /\ r[k] = b[k]
      BY <1>1, <1>3, <1>4
    <2>3. \A k \in DOMAIN r : r[k].object = i => k \in DOMAIN b
      BY <1>3, <1>5, <1>7, <2>1, Zenon
    <2>4. Required(objects, r, i) <=> Required(before.objects, b, i)
      BY <2>1, <2>2, <2>3, Zenon DEF Required
    <2> QED
      BY <2>2, <2>4, Zenon DEF b
  <1>11. ASSUME NEW i \in New
         PROVE  Required(objects, r, i) <=>
                   objects[i].global \/ (i = initial + 1 /\ call.policy = "Global")
    <2>1. \A k \in DOMAIN r : r[k].object = i => k = n + 1
      BY <1>1, <1>3, <1>6, <1>7, SMTT(40) DEF New
    <2>2. r[n + 1].policy = call.policy
      BY <1>3, <1>5, Zenon
    <2> QED
      BY <1>9, <2>1, <2>2, Zenon DEF Required
  <1> QED
    BY <1>3, <1>8, <1>9, <1>10, <1>11, Zenon DEF b

LEMMA ScopeNext ==
    ASSUME NEW o, NEW r, NEW g, NEW n, ScopeOK(o, r, g, n),
           objects' = o, roots' = r, global_scope' = g, recorded' = n
    PROVE  ScopeOK(objects, roots, global_scope, recorded)'
  BY ZenonT(40) DEF ScopeOK, InScope, Required

LEMMA CompletePreserves ==
    ASSUME DepInv, Complete
    PROVE  DepInv'
  <1>1. /\ pc = "process" /\ stack = <<>>
        /\ UNCHANGED <<global_scope, mapped, call, calls, before, lost>>
        /\ \/ /\ call.mode = "graph"
              /\ objects' = <<>>
              /\ Return(Success)
              /\ UNCHANGED roots
           \/ /\ call.mode = "append"
              /\ roots' = record_root(initial + 1, call.policy)
              /\ pc' = "record"
              /\ UNCHANGED <<objects, outcome, initial, stack, states, loads,
                             occurrences, total, recorded, rollback_ok>>
    BY Zenon DEF Complete
  <1>2. Typed /\ CallOK /\ MappingOK /\ ProcessOK
    BY <1>1, Zenon DEF DepInv
  <1>3. roots = before.roots /\ global_scope = before.global_scope
    BY <1>1, <1>2, Zenon DEF CallOK
  <1>4. Sound(before.objects, before.roots, before.global_scope, before.mapped)
    BY <1>2, Zenon DEF CallOK
  <1>5. CASE /\ call.mode = "graph" /\ objects' = <<>> /\ Return(Success) /\ UNCHANGED roots
    <2>1. before.objects = <<>>
      <3>1. before.objects \in Seq(LinkObjects) /\ Len(before.objects) = 0
        BY <1>2, <1>4, <1>5, Zenon DEF CallOK, Sound
      <3> QED
        BY <3>1, SeqFacts, Zenon
    <2>2. before.mapped \subseteq mapped
      BY <1>2, Zenon DEF MappingOK
    <2>3. Sound(before.objects, before.roots, before.global_scope, mapped)
      BY <1>4, <2>2, SoundGrows, Zenon
    <2>4. Sound(objects, roots, global_scope, mapped)'
      BY <1>1, <1>3, <1>5, <2>1, <2>3, SoundNext, Zenon
    <2>5. Typed' /\ pc' = "idle" /\ outcome' = Success
      <3>1. /\ objects' \in Seq(LinkObjects) /\ roots' \in Seq(LinkRoots)
            /\ global_scope' \in Seq(Nat) /\ mapped' \in SUBSET Int /\ lost' \in SUBSET Int
            /\ call' \in CallRecords
        BY <1>1, <1>2, <1>5 DEF Typed
      <3> QED
        BY <1>1, <1>2, <1>5, <3>1, ReturnTyped, Zenon
    <2>6. FailureRestores'
      BY <2>5, Zenon DEF FailureRestores, Success
    <2> QED
      BY <2>4, <2>5, <2>6 DEF DepInv
  <1>6. CASE /\ call.mode = "append" /\ roots' = record_root(initial + 1, call.policy)
             /\ pc' = "record"
             /\ UNCHANGED <<objects, outcome, initial, stack, states, loads,
                            occurrences, total, recorded, rollback_ok>>
    <2>1. initial \in Nat /\ recorded = initial /\ initial < Len(objects) /\ Len(objects) \in Nat
          /\ DOMAIN objects = 1 .. Len(objects)
      BY <1>2, ObjectFacts, Zenon DEF CallOK, ProcessOK
    <2>2. roots' = Append(before.roots, [object |-> initial + 1, policy |-> call.policy])
      <3>1. \A k \in DOMAIN roots : roots[k].object # initial + 1
        BY <1>2, <1>3, <2>1, RootsBefore
      <3> QED
        BY <1>3, <1>6, <3>1, Zenon DEF record_root
    <2>3. /\ roots' \in Seq(LinkRoots)
          /\ \A i \in 1 .. initial :
                Required(objects, roots', i) <=> Required(before.objects, before.roots, i)
      BY <1>2, <2>2, RootAppended, Zenon
    <2>4. Typed'
      BY <1>1, <1>2, <1>6, <2>3, Zenon DEF Typed
    <2>5. CallOK' /\ MappingOK'
      <3>1. LimitsHold'
        BY <1>1, <1>2, <1>6, Zenon DEF CallOK, LimitsHold, Busy
      <3>2. SameShape
        BY <1>2, <1>6, UnchangedShape, Zenon
      <3> QED
        BY <1>1, <1>2, <1>6, <3>1, <3>2, SameShapeKeepsCall, SameShapeKeepsMapping, Zenon
    <2>6. ScopeOK(objects, roots', global_scope, initial)
      <3>1. /\ before.objects \in Seq(LinkObjects)
            /\ ScopeOK(before.objects, before.roots, global_scope, initial)
        BY <1>2, <1>3, <1>4, Zenon DEF CallOK, Sound
      <3>2. DOMAIN before.objects = 1 .. initial
        BY <1>2, <3>1, SeqFacts, Zenon DEF CallOK
      <3>3. \A k \in DOMAIN global_scope : global_scope[k] \in DOMAIN objects /\ global_scope[k] <= initial
        BY <2>1, <3>1, <3>2 DEF ScopeOK
      <3>4. \A i \in DOMAIN objects : i <= initial =>
               (InScope(global_scope, i) <=> Required(objects, roots', i))
        <4> SUFFICES ASSUME NEW i \in DOMAIN objects, i <= initial
                     PROVE  InScope(global_scope, i) <=> Required(objects, roots', i)
          BY Zenon
        <4>1. i \in 1 .. initial
          BY <2>1
        <4> QED
          BY <2>3, <3>1, <3>2, <4>1, Zenon DEF ScopeOK
      <3> QED
        BY <3>1, <3>3, <3>4, Zenon DEF ScopeOK
    <2>7. RecordOK'
      <3>1. ScopeOK(objects, roots, global_scope, recorded)'
        BY <1>1, <1>6, <2>1, <2>6, ScopeNext, Zenon
      <3>2. recorded' \in initial' .. Len(objects')
        BY <1>6, <2>1
      <3>3. New' = New /\ objects' = objects
        BY <1>6, Zenon DEF New
      <3>4. NewHaveReason'
        BY <1>2, <1>6, <3>3 DEF ProcessOK, NewHaveReason, HasReason
      <3>5. \A i \in New' : Finished(objects'[i])
        <4>1. DOMAIN stack = {}
          BY <1>1
        <4> QED
          BY <1>2, <3>3, <4>1, Zenon DEF ProcessOK
      <3>6. (\A i \in New : Finished(objects[i]))'
        BY <3>5, Zenon DEF Finished
      <3>7. /\ call'.mode = "append" /\ stack' = <<>>
            /\ roots' = Append(before'.roots, [object |-> initial' + 1, policy |-> call'.policy])
        BY <1>1, <1>6, <2>2, Zenon
      <3> QED
        BY <3>1, <3>2, <3>4, <3>6, <3>7, Zenon DEF RecordOK
    <2> QED
      BY <1>6, <2>4, <2>5, <2>7, Zenon DEF DepInv
  <1> QED
    BY <1>1, <1>5, <1>6, Zenon

\* When the record loop is over the link map is sound again.
LEMMA RecordedIsSound ==
    ASSUME Typed, CallOK, MappingOK, RecordOK, pc = "record", recorded = Len(objects)
    PROVE  Sound(objects, roots, global_scope, mapped)
  <1> DEFINE b == before.objects
  <1>1. /\ DOMAIN objects = 1 .. Len(objects) /\ Len(objects) \in Nat /\ initial \in Nat
        /\ initial < Len(objects) /\ initial = Len(b)
        /\ \A i \in 1 .. initial : objects[i] = b[i]
    BY ObjectFacts, Zenon DEF CallOK
  <1>2. /\ b \in Seq(LinkObjects)
        /\ \A i \in DOMAIN b :
              /\ b[i].pages \subseteq before.mapped /\ Finished(b[i])
              /\ HasReason(b, i) \/ \E k \in DOMAIN before.roots : before.roots[k].object = i
    BY Zenon DEF CallOK, Sound
  <1>3. DOMAIN b = 1 .. initial
    BY <1>1, <1>2, SeqFacts, Zenon
  <1>4. /\ RootsOK(objects, roots) /\ \E k \in DOMAIN roots : roots[k].object = initial + 1
        /\ \A i \in 1 .. initial :
              (\E k \in DOMAIN before.roots : before.roots[k].object = i)
                 => \E k \in DOMAIN roots : roots[k].object = i
    <2>1. roots = Append(before.roots, [object |-> initial + 1, policy |-> call.policy])
      BY Zenon DEF RecordOK
    <2>2. RootsOK(objects, roots)
      BY <2>1, RootAppended, Zenon
    <2>3. \E k \in DOMAIN roots : roots[k].object = initial + 1
      BY <2>1, RootAppended, Zenon
    <2>4. \A i \in 1 .. initial :
             (\E k \in DOMAIN before.roots : before.roots[k].object = i)
                => \E k \in DOMAIN roots : roots[k].object = i
      BY <2>1, RootAppended, ZenonT(40)
    <2> QED
      BY <2>2, <2>3, <2>4, Zenon
  <1> HIDE DEF b
  <1>5. ASSUME NEW i \in DOMAIN objects
        PROVE  /\ objects[i].pages \subseteq mapped /\ Finished(objects[i])
               /\ HasReason(objects, i) \/ \E k \in DOMAIN roots : roots[k].object = i
    <2>1. CASE i \in 1 .. initial
      <3>1. objects[i] = b[i] /\ i \in DOMAIN b
        BY <1>1, <1>3, <2>1, Zenon
      <3>2. before.mapped \subseteq mapped
        BY Zenon DEF MappingOK
      <3>3. HasReason(b, i) => HasReason(objects, i)
        <4>1. \A j \in 1 .. i - 1 : objects[j] = b[j]
          BY <1>1, <2>1
        <4> QED
          BY <4>1, Zenon DEF HasReason
      <3>4. objects[i].pages \subseteq mapped
        BY <1>2, <3>1, <3>2, Zenon
      <3>5. Finished(objects[i])
        BY <1>2, <3>1, Zenon
      <3> QED
        BY <1>2, <1>4, <2>1, <3>1, <3>3, <3>4, <3>5, Zenon
    <2>2. CASE i \in New
      <3>1. Finished(objects[i])
        BY <2>2, Zenon DEF RecordOK
      <3>2. PICK k \in DOMAIN loads : loads[k] = i
        BY <2>2, <3>1, Zenon DEF MappingOK, Finished
      <3>3. objects[loads[k]].pages \subseteq mapped
        BY DEF MappingOK
      <3>4. i # initial + 1 => HasReason(objects, i)
        BY <2>2, Zenon DEF RecordOK, NewHaveReason
      <3> QED
        BY <1>4, <3>1, <3>2, <3>3, <3>4, Zenon
    <2>3. i \in 1 .. initial \/ i \in New
      BY <1>1 DEF New
    <2> QED
      BY <2>1, <2>2, <2>3, Zenon
  <1>6. ScopeOK(objects, roots, global_scope, Len(objects))
    BY Zenon DEF RecordOK
  <1>7. /\ objects \in Seq(LinkObjects) /\ roots \in Seq(LinkRoots) /\ global_scope \in Seq(Nat)
        /\ UniqueIdentities(objects) /\ EdgesInRange(objects) /\ DisjointPages(objects)
    BY Zenon DEF Typed, CallOK
  <1> QED
    BY <1>4, <1>5, <1>6, <1>7, Zenon DEF Sound

\* Recording x, or leaving it out, brings the scope up to date.
LEMMA ScopeAfterRecord ==
    ASSUME RecordsInOrder, global_scope \in Seq(Nat), NEW n \in Nat, NEW m \in Nat, NEW r,
           DOMAIN objects \subseteq Nat, ScopeOK(objects, roots, global_scope, n), n <= m,
           NEW x \in DOMAIN objects, x <= m,
           \A i \in DOMAIN objects :
               i <= m /\ i # x => (Required(objects, r, i) <=> i <= n /\ Required(objects, roots, i)),
           NEW g,
           \/ g = record_global(x) /\ Required(objects, r, x)
           \/ g = global_scope /\ (InScope(global_scope, x) <=> Required(objects, r, x))
    PROVE  g \in Seq(Nat) /\ ScopeOK(objects, r, g, m)
  <1>1. Increasing(global_scope) /\ x \in Nat
    BY Zenon DEF ScopeOK, Increasing
  <1>2. /\ g \in Seq(Nat) /\ Increasing(g)
        /\ \A i : InScope(global_scope, i) => InScope(g, i)
        /\ \A k \in DOMAIN g : g[k] = x \/ InScope(global_scope, g[k])
        /\ InScope(g, x) <=> Required(objects, r, x)
    <2>1. CASE g = record_global(x) /\ Required(objects, r, x)
      BY <1>1, <2>1, Zenon DEF RecordsInOrder
    <2>2. CASE g = global_scope /\ (InScope(global_scope, x) <=> Required(objects, r, x))
      BY <1>1, <2>2, Zenon DEF InScope
    <2> QED
      BY <2>1, <2>2, Zenon
  <1>3. \A i : InScope(global_scope, i) => i \in DOMAIN objects /\ i <= n
    BY Zenon DEF ScopeOK, InScope
  <1>4. \A k \in DOMAIN g : g[k] \in DOMAIN objects /\ g[k] <= m
    <2> SUFFICES ASSUME NEW k \in DOMAIN g
                 PROVE  g[k] \in DOMAIN objects /\ g[k] <= m
      BY Zenon
    <2>1. CASE g[k] = x
      BY <2>1, Zenon
    <2>2. CASE InScope(global_scope, g[k])
      <3>1. g[k] \in DOMAIN objects /\ g[k] <= n
        BY <1>3, <2>2, Zenon
      <3> HIDE DEF InScope
      <3> QED
        BY <3>1
    <2> QED
      BY <1>2, <2>1, <2>2, Zenon
  <1>5. ASSUME NEW i \in DOMAIN objects, i <= m
        PROVE  InScope(g, i) <=> Required(objects, r, i)
    <2>1. CASE i = x
      BY <1>2, <2>1, Zenon
    <2>2. CASE i # x
      <3>1. InScope(g, i) <=> InScope(global_scope, i)
        BY <1>2, <2>2, Zenon DEF InScope
      <3>2. InScope(global_scope, i) <=> i <= n /\ Required(objects, roots, i)
        BY <1>3, Zenon DEF ScopeOK
      <3> QED
        BY <1>5, <2>2, <3>1, <3>2, Zenon
    <2> QED
      BY <2>1, <2>2, Zenon
  <1> QED
    BY <1>2, <1>4, <1>5, Zenon DEF ScopeOK, Increasing

LEMMA RecordGlobalPreserves ==
    ASSUME DepInv, RecordsInOrder, RecordGlobal
    PROVE  DepInv'
  <1> DEFINE object == recorded + 1
  <1>1. /\ pc = "record" /\ UNCHANGED <<objects, roots, mapped, call, calls, before, lost>>
        /\ \/ /\ object \in DOMAIN objects
              /\ global_scope' =
                    IF \/ object = initial + 1 /\ call.policy = "Global"
                       \/ objects[object].global
                    THEN record_global(object) ELSE global_scope
              /\ recorded' = object
              /\ UNCHANGED <<pc, outcome, initial, stack, states, loads, occurrences,
                             total, rollback_ok>>
           \/ /\ object \notin DOMAIN objects
              /\ Return(Success)
              /\ UNCHANGED global_scope
    BY Zenon DEF RecordGlobal
  <1>2. Typed /\ CallOK /\ MappingOK /\ RecordOK
    BY <1>1, Zenon DEF DepInv
  <1>3. /\ DOMAIN objects = 1 .. Len(objects) /\ Len(objects) \in Nat /\ initial \in Nat
        /\ recorded \in initial .. Len(objects) /\ recorded \in Nat
    BY <1>2, ObjectFacts, Zenon DEF RecordOK, Typed
  <1>4. CASE object \notin DOMAIN objects
    <2>1. recorded = Len(objects) /\ Return(Success) /\ UNCHANGED global_scope
      <3> DEFINE n == Len(objects)
      <3>1. n \in Nat /\ recorded \in Nat /\ recorded <= n /\ recorded + 1 \notin 1 .. n
        BY <1>3, <1>4
      <3> HIDE DEF n
      <3>3. recorded = n
        BY <3>1
      <3>2. Return(Success) /\ UNCHANGED global_scope
        <4> HIDE DEF object
        <4> QED
          BY <1>1, <1>4, Zenon
      <3> QED
        BY <3>2, <3>3, Zenon DEF n
    <2>2. Sound(objects, roots, global_scope, mapped)
      BY <1>1, <1>2, <2>1, RecordedIsSound, Zenon
    <2>3. Sound(objects, roots, global_scope, mapped)'
      BY <1>1, <2>1, <2>2, SoundNext, Zenon
    <2>4. Typed' /\ pc' = "idle" /\ outcome' = Success
      <3>1. /\ objects' \in Seq(LinkObjects) /\ roots' \in Seq(LinkRoots)
            /\ global_scope' \in Seq(Nat) /\ mapped' \in SUBSET Int /\ lost' \in SUBSET Int
            /\ call' \in CallRecords
        BY <1>1, <1>2, <2>1, Zenon DEF Typed
      <3> QED
        BY <1>1, <1>2, <2>1, <3>1, ReturnTyped, Zenon
    <2>5. FailureRestores'
      BY <2>4, Zenon DEF FailureRestores, Success
    <2> QED
      BY <2>3, <2>4, <2>5, Zenon DEF DepInv
  <1>5. CASE object \in DOMAIN objects
    <2>1. /\ recorded' = object /\ pc' = "record"
          /\ UNCHANGED <<initial, stack, loads, occurrences, total>>
          /\ global_scope' =
                IF \/ object = initial + 1 /\ call.policy = "Global"
                   \/ objects[object].global
                THEN record_global(object) ELSE global_scope
      BY <1>1, <1>5, Zenon
    <2>2. object \in New /\ object \in Nat
      BY <1>3, <1>5 DEF New
    <2>3. ScopeOK(objects, roots, global_scope, recorded)
      BY <1>2, Zenon DEF RecordOK
    <2>4. Required(objects, roots, object) <=>
             objects[object].global \/ (object = initial + 1 /\ call.policy = "Global")
      BY <1>2, <2>2, RootAppended, Zenon DEF RecordOK
    <2>5. ~InScope(global_scope, object)
      BY <1>3, <2>3 DEF ScopeOK, InScope
    <2>6. global_scope' \in Seq(Nat) /\ ScopeOK(objects, roots, global_scope', object)
      <3>1. \/ global_scope' = record_global(object) /\ Required(objects, roots, object)
            \/ /\ global_scope' = global_scope
               /\ InScope(global_scope, object) <=> Required(objects, roots, object)
        BY <2>1, <2>4, <2>5, Zenon
      <3>2. /\ global_scope \in Seq(Nat) /\ recorded <= object /\ object <= object
            /\ DOMAIN objects \subseteq Nat
        BY <1>2, <1>3 DEF Typed
      <3>3. \A i \in DOMAIN objects :
               i <= object /\ i # object =>
                  (Required(objects, roots, i) <=> i <= recorded /\ Required(objects, roots, i))
        BY <1>3
      <3> HIDE DEF object
      <3> QED
        BY <1>3, <1>5, <2>2, <2>3, <3>1, <3>2, <3>3, ScopeAfterRecord, Zenon
    <2>7. Typed'
      BY <1>1, <1>2, <2>1, <2>2, <2>6, Zenon DEF Typed
    <2>8. SameShape
      BY <1>1, <1>2, UnchangedShape, Zenon
    <2>9. CallOK' /\ MappingOK'
      <3>1. LimitsHold'
        BY <1>1, <1>2, <2>1, Zenon DEF CallOK, LimitsHold, Busy
      <3> QED
        BY <1>1, <1>2, <2>1, <2>8, <3>1, SameShapeKeepsCall, SameShapeKeepsMapping, Zenon
    <2>10. RecordOK'
      <3>1. ScopeOK(objects, roots, global_scope, recorded)'
        BY <1>1, <2>1, <2>6, ScopeNext, Zenon
      <3>2. recorded' \in initial' .. Len(objects')
        BY <1>1, <1>3, <1>5, <2>1
      <3>3. New' = New /\ objects' = objects
        BY <1>1, <2>1, Zenon DEF New
      <3>4. NewHaveReason'
        BY <1>2, <2>1, <3>3, Zenon DEF RecordOK, NewHaveReason, HasReason
      <3>5. \A i \in New' : Finished(objects'[i])
        BY <1>2, <3>3, Zenon DEF RecordOK
      <3>6. (\A i \in New : Finished(objects[i]))'
        BY <3>5, Zenon DEF Finished
      <3>7. /\ call'.mode = "append" /\ stack' = <<>>
            /\ roots' = Append(before'.roots, [object |-> initial' + 1, policy |-> call'.policy])
        BY <1>1, <1>2, <2>1, Zenon DEF RecordOK
      <3> QED
        BY <3>1, <3>2, <3>4, <3>6, <3>7, Zenon DEF RecordOK
    <2> QED
      BY <2>1, <2>7, <2>9, <2>10, Zenon DEF DepInv
  <1> QED
    BY <1>4, <1>5, Zenon

LEMMA RecordRootEffect ==
    ASSUME roots \in Seq(LinkRoots), RootsOK(objects, roots), NEW index \in DOMAIN objects,
           index \in Nat, NEW policy \in Policies, NEW r, r = record_root(index, policy)
    PROVE  /\ r \in Seq(LinkRoots) /\ RootsOK(objects, r)
           /\ \A i \in DOMAIN objects :
                 i # index => (Required(objects, r, i) <=> Required(objects, roots, i))
           /\ Required(objects, r, index) <=> Required(objects, roots, index) \/ policy = "Global"
           /\ \A i \in DOMAIN objects : (\E k \in DOMAIN roots : roots[k].object = i)
                        => \E k \in DOMAIN r : r[k].object = i
  <1> DEFINE n == Len(roots)
  <1>1. n \in Nat /\ DOMAIN roots = 1 .. n /\ \A k \in 1 .. n : roots[k] \in LinkRoots
    BY SeqFacts, Zenon
  <1> HIDE DEF n
  <1>2. CASE \E k \in DOMAIN roots : roots[k].object = index
    <2> DEFINE entry(k) == IF roots[k].object = index /\ policy = "Global"
                           THEN [roots[k] EXCEPT !.policy = "Global"] ELSE roots[k]
    <2>1. r = [k \in DOMAIN roots |-> entry(k)]
      BY <1>2, Zenon DEF record_root
    <2>2. \A k \in 1 .. n :
             /\ entry(k) \in LinkRoots /\ entry(k).object = roots[k].object
             /\ entry(k).policy = IF roots[k].object = index /\ policy = "Global"
                                  THEN "Global" ELSE roots[k].policy
      BY <1>1, SMTT(40) DEF LinkRoots, Policies
    <2> HIDE DEF entry
    <2>3. /\ r \in Seq(LinkRoots) /\ DOMAIN r = DOMAIN roots
          /\ \A k \in DOMAIN roots :
                /\ r[k].object = roots[k].object
                /\ r[k].policy = IF roots[k].object = index /\ policy = "Global"
                                 THEN "Global" ELSE roots[k].policy
      BY <1>1, <2>1, <2>2
    <2>4. RootsOK(objects, r)
      BY <2>3, Zenon DEF RootsOK
    <2>5. \A i \in DOMAIN objects :
             i # index => (Required(objects, r, i) <=> Required(objects, roots, i))
      BY <2>3, Zenon DEF Required
    <2>6. Required(objects, r, index) <=> Required(objects, roots, index) \/ policy = "Global"
      BY <1>2, <2>3, Zenon DEF Required
    <2> QED
      BY <2>3, <2>4, <2>5, <2>6, Zenon
  <1>3. CASE \A k \in DOMAIN roots : roots[k].object # index
    <2> DEFINE last == [object |-> index, policy |-> policy]
    <2>1. r = Append(roots, last)
      BY <1>3, Zenon DEF record_root
    <2>2. last \in LinkRoots /\ last.object = index /\ last.policy = policy
      BY Zenon DEF LinkRoots
    <2> HIDE DEF last
    <2>3. /\ r \in Seq(LinkRoots) /\ Len(r) = n + 1 /\ r[n + 1] = last
          /\ \A k \in 1 .. n : r[k] = roots[k]
      BY <2>1, <2>2, SeqAppended, SMTT(40) DEF n
    <2>4. /\ DOMAIN r = 1 .. n + 1 /\ n + 1 \in DOMAIN r
          /\ \A k \in DOMAIN r : k = n + 1 \/ (k # n + 1 /\ k \in DOMAIN roots)
          /\ \A k \in DOMAIN roots : k \in DOMAIN r /\ r[k] = roots[k]
      BY <1>1, <2>3, SeqFacts
    <2>5. RootsOK(objects, r)
      <3>1. \A k \in DOMAIN r : r[k].object \in DOMAIN objects
        BY <2>2, <2>3, <2>4, Zenon DEF RootsOK
      <3>2. \A j, k \in DOMAIN r : r[j].object = r[k].object => j = k
        BY <1>3, <2>2, <2>3, <2>4 DEF RootsOK
      <3> QED
        BY <3>1, <3>2, Zenon DEF RootsOK
    <2>6. \A i \in DOMAIN objects :
             i # index => (Required(objects, r, i) <=> Required(objects, roots, i))
      BY <2>2, <2>3, <2>4, ZenonT(40) DEF Required
    <2>7. Required(objects, r, index) <=> Required(objects, roots, index) \/ policy = "Global"
      BY <1>3, <2>2, <2>3, <2>4, ZenonT(40) DEF Required
    <2> QED
      BY <2>3, <2>4, <2>5, <2>6, <2>7, Zenon
  <1> QED
    BY <1>2, <1>3, Zenon

LEMMA ReuseRootSound ==
    ASSUME DepInv, RecordsInOrder, NEW policy \in Policies, NEW options \in Options,
           Called("append", policy, options),
           NEW index \in DOMAIN objects, ReuseRoot(index, policy)
    PROVE  Sound(objects, roots', global_scope', mapped)
  <1>1. /\ pc = "idle" /\ Typed /\ Sound(objects, roots, global_scope, mapped)
        /\ call' \in CallRecords /\ lost' = {}
    BY CalledFacts, Zenon
  <1>2. /\ roots' = record_root(index, policy)
        /\ global_scope' = IF policy = "Global" \/ objects[index].global
                           THEN record_global(index) ELSE global_scope
        /\ Return(Success)
        /\ UNCHANGED <<objects, mapped>>
    BY Zenon DEF ReuseRoot
  <1>3. /\ DOMAIN objects = 1 .. Len(objects) /\ Len(objects) \in Nat /\ index \in Nat
        /\ index <= Len(objects) /\ DOMAIN objects \subseteq Nat
    <2> DEFINE n == Len(objects)
    <2>1. n \in Nat /\ DOMAIN objects = 1 .. n
      BY <1>1, ObjectFacts, Zenon
    <2> HIDE DEF n
    <2>2. \A k \in 1 .. n : k \in Nat /\ k <= n
      BY <2>1
    <2> QED
      BY <2>1, <2>2, Zenon DEF n
  <1>4. /\ objects \in Seq(LinkObjects) /\ roots \in Seq(LinkRoots) /\ global_scope \in Seq(Nat)
        /\ UniqueIdentities(objects) /\ EdgesInRange(objects) /\ DisjointPages(objects)
        /\ RootsOK(objects, roots) /\ ScopeOK(objects, roots, global_scope, Len(objects))
        /\ \A i \in DOMAIN objects :
              /\ objects[i].pages \subseteq mapped /\ Finished(objects[i])
              /\ HasReason(objects, i) \/ \E k \in DOMAIN roots : roots[k].object = i
    BY <1>1, Zenon DEF Sound
  <1>5. /\ roots' \in Seq(LinkRoots) /\ RootsOK(objects, roots')
        /\ \A i \in DOMAIN objects :
              i # index => (Required(objects, roots', i) <=> Required(objects, roots, i))
        /\ Required(objects, roots', index) <=> Required(objects, roots, index) \/ policy = "Global"
        /\ \A i \in DOMAIN objects : (\E k \in DOMAIN roots : roots[k].object = i)
                     => \E k \in DOMAIN roots' : roots'[k].object = i
    <2>1. roots' = record_root(index, policy) /\ index \in Nat
      BY <1>2, <1>3, Zenon
    <2>2. roots \in Seq(LinkRoots) /\ RootsOK(objects, roots)
      BY <1>4, Zenon
    <2>3. roots' \in Seq(LinkRoots) /\ RootsOK(objects, roots')
      BY <2>1, <2>2, RecordRootEffect, Zenon
    <2>4. \A i \in DOMAIN objects :
              i # index => (Required(objects, roots', i) <=> Required(objects, roots, i))
      BY <2>1, <2>2, RecordRootEffect, Zenon
    <2>5. Required(objects, roots', index) <=> Required(objects, roots, index) \/ policy = "Global"
      BY <2>1, <2>2, RecordRootEffect, ZenonT(40)
    <2>6. \A i \in DOMAIN objects : (\E k \in DOMAIN roots : roots[k].object = i)
                     => \E k \in DOMAIN roots' : roots'[k].object = i
      BY <2>1, <2>2, RecordRootEffect
    <2> QED
      BY <2>3, <2>4, <2>5, <2>6, Zenon
  <1>6. global_scope' \in Seq(Nat) /\ ScopeOK(objects, roots', global_scope', Len(objects))
    <2>1. InScope(global_scope, index) <=> Required(objects, roots, index)
      BY <1>3, <1>4, Zenon DEF ScopeOK
    <2>2. objects[index].global => Required(objects, roots, index)
      BY Zenon DEF Required
    <2>3. \/ global_scope' = record_global(index) /\ Required(objects, roots', index)
          \/ /\ global_scope' = global_scope
             /\ InScope(global_scope, index) <=> Required(objects, roots', index)
      BY <1>2, <1>5, <2>1, <2>2, Zenon
    <2>4. \A i \in DOMAIN objects :
             i <= Len(objects) /\ i # index =>
                (Required(objects, roots', i) <=> i <= Len(objects) /\ Required(objects, roots, i))
      BY <1>5, Zenon
    <2> DEFINE n == Len(objects)
    <2>5. n \in Nat /\ n <= n /\ ScopeOK(objects, roots, global_scope, n) /\ index <= n
      <3>1. \A k \in Nat : k <= k
        OBVIOUS
      <3> QED
        BY <1>3, <1>4, <3>1, Zenon
    <2>6. \A i \in DOMAIN objects :
             i <= n /\ i # index =>
                (Required(objects, roots', i) <=> i <= n /\ Required(objects, roots, i))
      BY <2>4, Zenon
    <2> HIDE DEF n
    <2>7. global_scope' \in Seq(Nat) /\ ScopeOK(objects, roots', global_scope', n)
      BY <1>3, <1>4, <2>3, <2>5, <2>6, ScopeAfterRecord, Zenon
    <2> QED
      BY <2>7, Zenon DEF n
  <1>7. \A i \in DOMAIN objects :
            /\ objects[i].pages \subseteq mapped /\ Finished(objects[i])
            /\ HasReason(objects, i) \/ \E k \in DOMAIN roots' : roots'[k].object = i
    BY <1>4, <1>5, Zenon
  <1> QED
    BY <1>4, <1>5, <1>6, <1>7, Zenon DEF Sound

LEMMA ReuseRootPreserves ==
    ASSUME DepInv, RecordsInOrder, NEW policy \in Policies, NEW options \in Options,
           Called("append", policy, options),
           NEW index \in DOMAIN objects, ReuseRoot(index, policy)
    PROVE  DepInv'
  <1>1. /\ pc = "idle" /\ Typed /\ call' \in CallRecords /\ lost' = {}
    BY CalledFacts, Zenon
  <1>2. Return(Success) /\ UNCHANGED <<objects, mapped>>
    BY Zenon DEF ReuseRoot
  <1>7. Sound(objects, roots', global_scope', mapped)
    BY ReuseRootSound, Zenon
  <1>8. Sound(objects, roots, global_scope, mapped)'
    BY <1>2, <1>7, SoundNext, Zenon
  <1>9. Typed' /\ pc' = "idle" /\ outcome' = Success
    <2>1. /\ objects' \in Seq(LinkObjects) /\ mapped' \in SUBSET Int /\ lost' \in SUBSET Int
      BY <1>1, <1>2, Zenon DEF Typed
    <2>2. roots' \in Seq(LinkRoots) /\ global_scope' \in Seq(Nat)
      BY <1>7, Zenon DEF Sound
    <2> QED
      BY <1>1, <1>2, <2>1, <2>2, ReturnTyped, Zenon
  <1>10. FailureRestores'
    BY <1>9, Zenon DEF FailureRestores, Success
  <1> QED
    BY <1>8, <1>9, <1>10, Zenon DEF DepInv

(***************************************************************************)
(* process_object.                                                         *)
(***************************************************************************)
ObjectStates == {"Discovered", "Loading", "Loaded"}

\* What a step of the innermost activation may change: its own object.
OnlyTop ==
    /\ objects' \in Seq(LinkObjects) /\ Len(objects') = Len(objects)
    /\ \A i \in DOMAIN objects : i # Top.index => objects'[i] = objects[i]
    /\ objects'[Top.index].identity = objects[Top.index].identity
    /\ objects'[Top.index].image = objects[Top.index].image
    /\ \A k \in DOMAIN objects[Top.index].dependencies :
          /\ k \in DOMAIN objects'[Top.index].dependencies
          /\ objects'[Top.index].dependencies[k] = objects[Top.index].dependencies[k]
    /\ states' \in Seq(ObjectStates) /\ Len(states') = Len(states)
    /\ \A i \in DOMAIN objects : i # Top.index => states'[i] = states[i]

LEMMA TopFacts ==
    ASSUME Typed, ProcessOK, stack # <<>>
    PROVE  /\ Len(stack) \in Nat \ {0} /\ DOMAIN stack = 1 .. Len(stack)
           /\ Len(stack) \in DOMAIN stack /\ Top \in Frames /\ FrameOK(Len(stack))
           /\ Top.index \in New /\ Top.depth = Len(stack) - 1
  <1>1. /\ Len(stack) \in Nat \ {0} /\ DOMAIN stack = 1 .. Len(stack)
    BY SeqFacts, Zenon DEF ProcessOK
  <1>2. Len(stack) \in DOMAIN stack
    BY <1>1
  <1>3. FrameOK(Len(stack)) /\ Top \in Frames
    BY <1>1, <1>2, SeqFacts, Zenon DEF ProcessOK, Top
  <1> QED
    BY <1>1, <1>2, <1>3, Zenon DEF FrameOK, Top

\* A frame below the top, whose object a step leaves alone.
LEMMA LowerFrame ==
    ASSUME ProcessOK, NEW k \in DOMAIN stack, k # Len(stack), stack'[k] = stack[k],
           stack[k].index \in New', objects'[stack[k].index] = objects[stack[k].index],
           states'[stack[k].index] = states[stack[k].index], call' = call
    PROVE  FrameOK(k)'
  <1>1. FrameOK(k) /\ stack[k].at = "each"
    BY Zenon DEF ProcessOK, FrameOK
  <1> QED
    BY <1>1, Zenon DEF FrameOK

LEMMA OnlyTopFacts ==
    ASSUME Typed, CallOK, ProcessOK, stack # <<>>, OnlyTop, UNCHANGED initial
    PROVE  /\ New' = New /\ New \subseteq DOMAIN objects /\ DOMAIN objects' = DOMAIN objects
           /\ Top.index \in DOMAIN objects
           /\ \A i \in 1 .. initial : states'[i] = "Loaded" /\ objects'[i] = objects[i]
           /\ NewHaveReason'
  <1>1. /\ Len(objects) \in Nat /\ DOMAIN objects = 1 .. Len(objects) /\ initial \in Nat
        /\ New \subseteq DOMAIN objects /\ Top.index \in New /\ initial < Len(objects)
    BY ObjectFacts, TopFacts, Zenon DEF CallOK
  <1>2. DOMAIN objects' = 1 .. Len(objects')
    BY SeqFacts, Zenon DEF OnlyTop
  <1>3. New' = New /\ DOMAIN objects' = DOMAIN objects
    BY <1>1, <1>2, Zenon DEF OnlyTop, New
  <1>4. \A i \in 1 .. initial : i # Top.index /\ i \in DOMAIN objects
    BY <1>1 DEF New
  <1>5. \A i \in 1 .. initial : states'[i] = "Loaded" /\ objects'[i] = objects[i]
    BY <1>4, Zenon DEF OnlyTop, ProcessOK
  <1>6. ASSUME NEW i \in New, i # initial + 1
        PROVE  HasReason(objects', i)
    <2>1. PICK j \in 1 .. i - 1 : \E k \in DOMAIN objects[j].dependencies :
                                     objects[j].dependencies[k] = i
      BY <1>6, Zenon DEF ProcessOK, NewHaveReason, HasReason
    <2>2. j \in DOMAIN objects
      BY <1>1
    <2>3. \E k \in DOMAIN objects'[j].dependencies : objects'[j].dependencies[k] = i
      BY <2>1, <2>2, ZenonT(40) DEF OnlyTop
    <2> QED
      BY <2>3, Zenon DEF HasReason
  <1>7. NewHaveReason'
    BY <1>3, <1>6, Zenon DEF NewHaveReason, HasReason
  <1> QED
    BY <1>1, <1>3, <1>5, <1>7, SMTT(40)

\* The innermost activation goes on.
LEMMA TopMoves ==
    ASSUME Typed, CallOK, ProcessOK, stack # <<>>, OnlyTop, UNCHANGED <<call, initial, recorded>>,
           NEW frame \in Frames, frame.index = Top.index, stack' = SetTop(frame),
           NEW n, n = Len(stack), stack'[n] = frame /\ Len(stack') = n => FrameOK(n)'
    PROVE  ProcessOK' /\ Len(stack') = Len(stack)
  <1>1. /\ n \in Nat \ {0} /\ DOMAIN stack = 1 .. n /\ n \in DOMAIN stack /\ stack \in Seq(Frames)
    BY TopFacts, Zenon DEF ProcessOK
  <1>2. /\ stack' \in Seq(Frames) /\ Len(stack') = n /\ stack'[n] = frame
        /\ \A k \in 1 .. n : k # n => stack'[k] = stack[k]
    <2>1. stack' = [stack EXCEPT ![n] = frame]
      BY Zenon DEF SetTop
    <2> QED
      BY <1>1, <2>1, SeqReplaced
  <1>3. DOMAIN stack' = 1 .. n
    BY <1>2, SeqFacts, Zenon
  <1>4. stack[n] = Top /\ FrameOK(n)'
    BY <1>2, Zenon DEF Top
  <1>5. /\ New' = New /\ New \subseteq DOMAIN objects /\ DOMAIN objects' = DOMAIN objects
        /\ \A i \in 1 .. initial : states'[i] = "Loaded" /\ objects'[i] = objects[i]
        /\ NewHaveReason'
    BY OnlyTopFacts, Zenon
  <1>6. \A k \in 1 .. n : stack'[k].index = stack[k].index
    BY <1>2, <1>4, Zenon
  <1>7. \A j, k \in 1 .. n : stack[j].index = stack[k].index => j = k
    BY <1>1, Zenon DEF ProcessOK
  <1>8. ASSUME NEW k \in 1 .. n, k # n
        PROVE  FrameOK(k)'
    <2>1. stack[k].index # Top.index
      BY <1>1, <1>4, <1>7, <1>8
    <2>2. stack[k].index \in New /\ k \in DOMAIN stack /\ k # Len(stack)
      BY <1>1, <1>8, Zenon DEF ProcessOK, FrameOK
    <2>3. /\ objects'[stack[k].index] = objects[stack[k].index]
          /\ states'[stack[k].index] = states[stack[k].index]
      BY <1>5, <2>1, <2>2, Zenon DEF OnlyTop
    <2> QED
      BY <1>2, <1>5, <1>8, <2>2, <2>3, LowerFrame, ZenonT(40)
  <1>9. (\A k \in DOMAIN stack : FrameOK(k))'
    BY <1>3, <1>4, <1>8
  <1>10. ASSUME NEW i \in New
         PROVE  \/ states'[i] = "Loaded" /\ Finished(objects'[i])
                \/ \E k \in DOMAIN stack' : stack'[k].index = i
    <2>1. CASE \E k \in DOMAIN stack : stack[k].index = i
      BY <1>1, <1>3, <1>6, <2>1, Zenon
    <2>2. CASE /\ states[i] = "Loaded" /\ Finished(objects[i])
               /\ \A k \in DOMAIN stack : stack[k].index # i
      <3>1. i # Top.index /\ i \in DOMAIN objects
        BY <1>1, <1>4, <1>5, <2>2, Zenon
      <3> QED
        BY <2>2, <3>1, Zenon DEF OnlyTop
    <2> QED
      BY <2>1, <2>2, Zenon DEF ProcessOK
  <1>11. (\A i \in New :
             \/ states[i] = "Loaded" /\ Finished(objects[i])
             \/ \E k \in DOMAIN stack : stack[k].index = i)'
    BY <1>5, <1>10, Zenon DEF Finished
  <1>12. Len(states') = Len(objects') /\ states' \in Seq({"Discovered", "Loading", "Loaded"})
    BY Zenon DEF OnlyTop, ProcessOK, ObjectStates
  <1>13. recorded' = initial' /\ Len(stack') = Len(stack)
    BY <1>2, Zenon DEF ProcessOK
  <1> QED
    BY <1>2, <1>3, <1>5, <1>6, <1>7, <1>9, <1>11, <1>12, <1>13, SMTT(40) DEF ProcessOK

LEMMA TopFrame ==
    ASSUME Typed, ProcessOK, stack # <<>>
    PROVE  /\ Top \in Frames /\ Top.index \in New /\ Top.index \in DOMAIN objects
           /\ Top.depth = Len(stack) - 1 /\ Top.depth \in Nat
           /\ objects[Top.index] \in LinkObjects
           /\ Top.at = "load" => /\ states[Top.index] = "Discovered"
                                 /\ objects[Top.index].pages = {}
           /\ Top.at # "load" => /\ states[Top.index] = "Loading"
                                 /\ objects[Top.index].pages # {}
                                 /\ Top.depth <= call.options.max_depth
           /\ Top.at # "each" => objects[Top.index].dependencies = <<>>
           /\ Top.at = "resolve" =>
                 occurrences + Images[objects[Top.index].image].needed
                    <= call.options.max_occurrences
           /\ Top.at = "each" =>
                 Len(objects[Top.index].dependencies) + Len(Top.pending)
                    = Images[objects[Top.index].image].needed
  <1>1. Top \in Frames /\ Top.index \in New /\ FrameOK(Len(stack)) /\ Top.depth = Len(stack) - 1
    BY TopFacts, Zenon
  <1>2. Top.index \in DOMAIN objects /\ objects[Top.index] \in LinkObjects
    BY <1>1, ObjectFacts, Zenon
  <1>3. Top.depth \in Nat
    BY <1>1, Zenon DEF Frames
  <1> QED
    BY <1>1, <1>2, <1>3, Zenon DEF FrameOK, Top

LEMMA ResolvePreserves ==
    ASSUME DepInv, BytesAreNatural, ResolveDependencies
    PROVE  DepInv'
  <1> DEFINE needed == Images[objects[Top.index].image].needed
             limits == call.options
  <1>1. /\ pc = "process" /\ stack # <<>> /\ Top.at = "resolve"
        /\ UNCHANGED <<objects, roots, global_scope, mapped, call, initial, states, loads,
                       recorded, before, lost>>
    BY Zenon DEF ResolveDependencies, Processing, linkMap
  <1>2. \/ pc' = "rollback" /\ UNCHANGED <<stack, occurrences, total>>
        \/ /\ pc' = "process"
           /\ \E answers \in Resolutions(needed) :
                 /\ occurrences' = occurrences + needed
                 /\ total' = total + Bytes(answers)
                 /\ stack' = SetTop([Top EXCEPT !.at = "each", !.pending = answers])
    BY <1>1, Zenon DEF ResolveDependencies, Fail
  <1>3. Typed /\ CallOK /\ MappingOK /\ ProcessOK
    BY <1>1, Zenon DEF DepInv
  <1>4. SameShape
    BY <1>1, <1>3, UnchangedShape, Zenon
  <1>5. CASE pc' = "rollback" /\ UNCHANGED <<stack, occurrences, total>>
    <2>1. mapped' = mapped \cup {} /\ lost' = lost \cup {}
      BY <1>1
    <2> QED
      BY <1>1, <1>4, <1>5, <2>1, FailPreserves, SMTT(40)
  <1>6. ASSUME pc' = "process", NEW answers \in Resolutions(needed),
               occurrences' = occurrences + needed, total' = total + Bytes(answers),
               stack' = SetTop([Top EXCEPT !.at = "each", !.pending = answers])
        PROVE  DepInv'
    <2> DEFINE frame == [Top EXCEPT !.at = "each", !.pending = answers]
    <2>1. /\ objects[Top.index] \in LinkObjects /\ Top.index \in New /\ Top \in Frames
          /\ objects[Top.index].dependencies = <<>> /\ objects[Top.index].pages # {}
          /\ states[Top.index] = "Loading" /\ Top.depth <= limits.max_depth
          /\ Top.depth = Len(stack) - 1
          /\ occurrences + needed <= limits.max_occurrences
      BY <1>1, <1>3, TopFrame, Zenon
    <2>2. needed \in Nat
      <3>1. objects[Top.index].image \in DOMAIN Images
        BY <2>1, Zenon DEF LinkObjects
      <3> QED
        BY <3>1, ImagesAssumption, Zenon
    <2>3. answers \in [1 .. needed -> Answers] /\ Bytes(answers) <= limits.max_total - total
      BY Zenon DEF Resolutions
    <2> HIDE DEF needed
    <2>4. Bytes(answers) \in Nat
      BY <2>2, <2>3, Zenon DEF BytesAreNatural
    <2>5. answers \in Seq(Answers) /\ Len(answers) = needed
      BY <2>2, <2>3
    <2>6. /\ frame \in Frames /\ frame.index = Top.index /\ frame.depth = Top.depth
          /\ frame.at = "each" /\ frame.pending = answers
      BY <2>1, <2>5, Zenon DEF Frames
    <2>7. OnlyTop
      BY <1>1, <1>3, Zenon DEF OnlyTop, Typed, ProcessOK, ObjectStates
    <2>8. New' = New
      BY <1>1 DEF New
    <2> HIDE DEF frame
    <2>9. ASSUME NEW k, k = Len(stack), stack'[k] = frame, Len(stack') = k
          PROVE  FrameOK(k)'
      <3>1. /\ stack'[k].index = Top.index /\ stack'[k].depth = k - 1 /\ stack'[k].at = "each"
            /\ stack'[k].pending = answers
            /\ Top.index \in New' /\ stack'[k].depth <= call'.options.max_depth
        BY <1>1, <2>1, <2>6, <2>8, <2>9, Zenon
      <3>2. /\ objects'[Top.index].pages # {} /\ states'[Top.index] = "Loading"
        BY <1>1, <2>1, ZenonT(40)
      <3>3. Len(objects'[Top.index].dependencies) + Len(answers)
               = Images[objects'[Top.index].image].needed
        <4>1. /\ objects'[Top.index].dependencies = <<>>
              /\ objects'[Top.index].image = objects[Top.index].image
          BY <1>1, <2>1, Zenon
        <4>2. Len(<<>>) + needed = needed
          BY <2>2
        <4> QED
          BY <2>5, <4>1, <4>2, Zenon DEF needed
      <3> QED
        BY <2>9, <3>1, <3>2, <3>3, Zenon DEF FrameOK
    <2>10. stack' = SetTop(frame)
      BY <1>6 DEF frame
    <2>11. ProcessOK' /\ Len(stack') = Len(stack)
      BY <1>1, <1>3, <2>6, <2>7, <2>9, <2>10, TopMoves, Zenon
    <2>12. Typed'
      BY <1>1, <1>3, <1>6, <2>2, <2>4, <2>11, SMTT(40) DEF Typed
    <2>13. LimitsHold'
      <3>1. /\ Len(stack) <= limits.max_depth + 2 /\ limits.max_total \in Nat
            /\ Len(objects) <= limits.max_objects
        BY <1>1, <1>3, Zenon DEF CallOK, LimitsHold, Busy, LoadLimits
      <3>2. total' <= limits.max_total
        BY <1>3, <1>6, <2>3, <2>4, <3>1, SMTT(40) DEF Typed
      <3>3. occurrences' <= limits.max_occurrences
        BY <1>6, <2>1
      <3> QED
        BY <1>1, <2>11, <3>1, <3>2, <3>3, Zenon DEF LimitsHold
    <2>14. roots' = before.roots /\ global_scope' = before.global_scope
      BY <1>1, <1>3, Zenon DEF CallOK
    <2>15. CallOK' /\ MappingOK'
      BY <1>1, <1>3, <1>4, <2>13, <2>14, SameShapeKeepsCall, SameShapeKeepsMapping, Zenon
    <2> QED
      BY <1>6, <2>11, <2>12, <2>15, Zenon DEF DepInv
  <1> QED
    BY <1>2, <1>5, <1>6, Zenon

\* The innermost activation returns.
LEMMA PopPreserves ==
    ASSUME Typed, CallOK, ProcessOK, stack # <<>>, OnlyTop, UNCHANGED <<call, initial, recorded>>,
           Finished(objects'[Top.index]), states'[Top.index] = "Loaded", stack' = Pop
    PROVE  ProcessOK' /\ Len(stack') = Len(stack) - 1
  <1> DEFINE n == Len(stack)
  <1>1. /\ n \in Nat \ {0} /\ DOMAIN stack = 1 .. n /\ n \in DOMAIN stack /\ stack \in Seq(Frames)
    BY TopFacts, Zenon DEF ProcessOK
  <1>2. stack[n] = Top
    BY Zenon DEF Top
  <1>3. /\ stack' \in Seq(Frames) /\ Len(stack') = n - 1
        /\ \A k \in 1 .. n - 1 : stack'[k] = stack[k]
    <2>1. n - 1 \in Int /\ \A i \in 1 .. n - 1 : stack[i] \in Frames
      BY <1>1, SeqFacts, SMTT(40)
    <2>2. /\ SubSeq(stack, 1, n - 1) \in Seq(Frames)
          /\ Len(SubSeq(stack, 1, n - 1)) = IF 1 <= n - 1 THEN (n - 1) - 1 + 1 ELSE 0
          /\ \A i \in 1 .. (n - 1) - 1 + 1 : SubSeq(stack, 1, n - 1)[i] = stack[1 + i - 1]
      BY <2>1, SeqPart
    <2> DEFINE s == SubSeq(stack, 1, n - 1)
    <2>3. stack' = s
      BY Zenon DEF Pop
    <2> HIDE DEF s, n
    <2> QED
      BY <1>1, <2>2, <2>3, SMTT(40) DEF s
  <1>4. DOMAIN stack' = 1 .. n - 1
    BY <1>3, SeqFacts, SMTT(40)
  <1> HIDE DEF n
  <1>5. /\ New' = New /\ New \subseteq DOMAIN objects /\ DOMAIN objects' = DOMAIN objects
        /\ \A i \in 1 .. initial : states'[i] = "Loaded" /\ objects'[i] = objects[i]
        /\ NewHaveReason'
    BY OnlyTopFacts, Zenon
  <1>6. ASSUME NEW k \in 1 .. n - 1
        PROVE  k \in DOMAIN stack /\ k # n /\ stack[k].index # Top.index
    <2>1. k \in DOMAIN stack /\ k # n
      BY <1>1
    <2> QED
      BY <1>1, <1>2, <2>1, Zenon DEF ProcessOK
  <1>7. ASSUME NEW k \in 1 .. n - 1
        PROVE  FrameOK(k)'
    <2>1. k \in DOMAIN stack /\ k # Len(stack) /\ stack[k].index # Top.index
      BY <1>6, Zenon DEF n
    <2>2. stack[k].index \in New
      BY <2>1, Zenon DEF ProcessOK, FrameOK
    <2>3. /\ objects'[stack[k].index] = objects[stack[k].index]
          /\ states'[stack[k].index] = states[stack[k].index]
      BY <1>5, <2>1, <2>2, Zenon DEF OnlyTop
    <2> QED
      BY <1>3, <1>5, <2>1, <2>2, <2>3, LowerFrame, Zenon
  <1>8. (\A k \in DOMAIN stack : FrameOK(k))'
    BY <1>4, <1>7
  <1>9. ASSUME NEW i \in New
        PROVE  \/ states'[i] = "Loaded" /\ Finished(objects'[i])
               \/ \E k \in DOMAIN stack' : stack'[k].index = i
    <2>1. CASE i = Top.index
      BY <2>1, Zenon
    <2>2. CASE i # Top.index
      <3>1. CASE states[i] = "Loaded" /\ Finished(objects[i])
        BY <1>5, <2>2, <3>1, Zenon DEF OnlyTop
      <3>2. ASSUME NEW k \in DOMAIN stack, stack[k].index = i
            PROVE  \E l \in DOMAIN stack' : stack'[l].index = i
        <4>1. k \in 1 .. n - 1
          BY <1>1, <1>2, <2>2, <3>2
        <4> QED
          BY <1>3, <1>4, <3>2, <4>1, Zenon
      <3> QED
        BY <3>1, <3>2, Zenon DEF ProcessOK
    <2> QED
      BY <2>1, <2>2, Zenon
  <1>10. (\A i \in New :
             \/ states[i] = "Loaded" /\ Finished(objects[i])
             \/ \E k \in DOMAIN stack : stack[k].index = i)'
    BY <1>5, <1>9, Zenon DEF Finished
  <1>11. \A j, k \in DOMAIN stack' : stack'[j].index = stack'[k].index => j = k
    BY <1>3, <1>4, <1>6 DEF ProcessOK
  <1>12. Len(states') = Len(objects') /\ states' \in Seq({"Discovered", "Loading", "Loaded"})
    BY Zenon DEF OnlyTop, ProcessOK, ObjectStates
  <1>13. recorded' = initial' /\ Len(stack') = Len(stack) - 1
    BY <1>3, Zenon DEF ProcessOK, n
  <1> QED
    BY <1>3, <1>5, <1>8, <1>10, <1>11, <1>12, <1>13, Zenon DEF ProcessOK

LEMMA SetState ==
    ASSUME Typed, ProcessOK, stack # <<>>, NEW s \in ObjectStates,
           states' = [states EXCEPT ![Top.index] = s]
    PROVE  /\ states' \in Seq(ObjectStates) /\ Len(states') = Len(states)
           /\ states'[Top.index] = s
           /\ \A i \in DOMAIN objects : i # Top.index => states'[i] = states[i]
  <1>1. /\ states \in Seq(ObjectStates) /\ DOMAIN objects = 1 .. Len(states)
        /\ Top.index \in 1 .. Len(states)
    BY TopFrame, ObjectFacts, Zenon DEF ProcessOK, ObjectStates
  <1> QED
    BY <1>1, SeqReplaced

LEMMA SetObject ==
    ASSUME Typed, ProcessOK, stack # <<>>, NEW o \in LinkObjects,
           objects' = [objects EXCEPT ![Top.index] = o]
    PROVE  /\ objects' \in Seq(LinkObjects) /\ Len(objects') = Len(objects)
           /\ objects'[Top.index] = o
           /\ \A i \in DOMAIN objects : i # Top.index => objects'[i] = objects[i]
  <1>1. /\ objects \in Seq(LinkObjects) /\ DOMAIN objects = 1 .. Len(objects)
        /\ Top.index \in 1 .. Len(objects)
    BY TopFrame, ObjectFacts, Zenon DEF Typed
  <1> QED
    BY <1>1, SeqReplaced

LEMMA FinishObjectPreserves ==
    ASSUME DepInv, FinishObject
    PROVE  DepInv'
  <1>1. /\ pc = "process" /\ stack # <<>> /\ Top.at = "each" /\ Top.pending = <<>>
        /\ states' = [states EXCEPT ![Top.index] = "Loaded"] /\ stack' = Pop /\ pc' = "process"
        /\ UNCHANGED <<objects, roots, global_scope, mapped, call, initial, loads, occurrences,
                       total, recorded, before, lost>>
    BY Zenon DEF FinishObject, Processing, linkMap
  <1>2. Typed /\ CallOK /\ MappingOK /\ ProcessOK
    BY <1>1, Zenon DEF DepInv
  <1>3. /\ states' \in Seq(ObjectStates) /\ Len(states') = Len(states)
        /\ states'[Top.index] = "Loaded"
        /\ \A i \in DOMAIN objects : i # Top.index => states'[i] = states[i]
    <2>1. "Loaded" \in ObjectStates
      BY Zenon DEF ObjectStates
    <2> QED
      BY <1>1, <1>2, <2>1, SetState, Zenon
  <1>4. OnlyTop
    BY <1>1, <1>2, <1>3, ZenonT(40) DEF OnlyTop, Typed
  <1>5. Finished(objects'[Top.index])
    <2>1. /\ objects[Top.index].pages # {} /\ objects[Top.index] \in LinkObjects
          /\ Len(objects[Top.index].dependencies) + Len(Top.pending)
                    = Images[objects[Top.index].image].needed
      BY <1>1, <1>2, TopFrame, Zenon
    <2>2. Len(Top.pending) = 0 /\ Len(objects[Top.index].dependencies) \in Nat
      BY <1>1, <2>1 DEF LinkObjects
    <2> QED
      BY <1>1, <2>1, <2>2 DEF Finished
  <1>6. ProcessOK' /\ Len(stack') = Len(stack) - 1
    BY <1>1, <1>2, <1>3, <1>4, <1>5, PopPreserves, ZenonT(40)
  <1>7. Len(stack) \in Nat \ {0} /\ Len(stack') \in Nat /\ Len(stack') <= Len(stack)
    BY <1>1, <1>2, <1>6, TopFacts
  <1>8. Typed'
    BY <1>1, <1>2, <1>7, Zenon DEF Typed
  <1>9. LimitsHold'
    <2>1. /\ Len(stack) <= call.options.max_depth + 2 /\ call.options.max_depth \in Nat
          /\ occurrences <= call.options.max_occurrences
          /\ total <= call.options.max_total /\ Len(objects) <= call.options.max_objects
      BY <1>1, <1>2, Zenon DEF CallOK, LimitsHold, Busy, LoadLimits
    <2>2. Len(stack') <= call.options.max_depth + 2
      BY <1>7, <2>1
    <2> QED
      BY <1>1, <2>1, <2>2, Zenon DEF LimitsHold
  <1>10. CallOK' /\ MappingOK'
    <2>1. SameShape
      BY <1>1, <1>2, UnchangedShape, Zenon
    <2>2. roots' = before.roots /\ global_scope' = before.global_scope
      BY <1>1, <1>2, Zenon DEF CallOK
    <2> QED
      BY <1>1, <1>2, <1>9, <2>1, <2>2, SameShapeKeepsCall, SameShapeKeepsMapping, Zenon
  <1> QED
    BY <1>1, <1>6, <1>8, <1>10, Zenon DEF DepInv

LEMMA InspectObjectPreserves ==
    ASSUME DepInv, InspectObject
    PROVE  DepInv'
  <1> DEFINE m == Images[objects[Top.index].image]
             flag == IF m.inspect = "None" THEN m.global ELSE FALSE
             o == [objects[Top.index] EXCEPT !.global = flag]
  <1>1. /\ pc = "process" /\ stack # <<>> /\ Top.at = "inspect"
        /\ objects' = [objects EXCEPT ![Top.index] = o]
        /\ UNCHANGED <<roots, global_scope, mapped, call, initial, loads, occurrences,
                       total, recorded, before, lost>>
    BY Zenon DEF InspectObject, Processing
  <1>2. \/ pc' = "rollback" /\ UNCHANGED stack
        \/ /\ inspect_error(Top) = "None" /\ pc' = "process" /\ m.needed = 0
           /\ stack' = Pop /\ states' = [states EXCEPT ![Top.index] = "Loaded"]
        \/ /\ inspect_error(Top) = "None" /\ pc' = "process"
           /\ stack' = SetTop([Top EXCEPT !.at = "resolve"]) /\ UNCHANGED states
    BY <1>1, Zenon DEF InspectObject, Fail
  <1>3. Typed /\ CallOK /\ MappingOK /\ ProcessOK
    BY <1>1, Zenon DEF DepInv
  <1>4. /\ objects[Top.index] \in LinkObjects /\ Top.index \in DOMAIN objects
        /\ Top.index \in New /\ Top \in Frames
        /\ objects[Top.index].dependencies = <<>> /\ objects[Top.index].pages # {}
        /\ states[Top.index] = "Loading" /\ Top.depth <= call.options.max_depth
        /\ Top.depth = Len(stack) - 1
    BY <1>1, <1>3, TopFrame
  <1>5. m.needed \in Nat /\ flag \in BOOLEAN
    <2>1. objects[Top.index].image \in DOMAIN Images
      BY <1>4, Zenon DEF LinkObjects
    <2>2. m.needed \in Nat /\ m.global \in BOOLEAN
      BY <2>1, ImagesAssumption, Zenon
    <2> HIDE DEF m
    <2> QED
      BY <2>2, Zenon
  <1>6. /\ o \in LinkObjects /\ o.identity = objects[Top.index].identity
        /\ o.image = objects[Top.index].image /\ o.pages = objects[Top.index].pages
        /\ o.dependencies = objects[Top.index].dependencies
    <2> HIDE DEF flag
    <2> QED
      BY <1>4, <1>5, Zenon DEF LinkObjects
  <1> HIDE DEF o
  <1>7. /\ objects' \in Seq(LinkObjects) /\ Len(objects') = Len(objects)
        /\ objects'[Top.index] = o
        /\ \A i \in DOMAIN objects : i # Top.index => objects'[i] = objects[i]
    BY <1>1, <1>3, <1>6, SetObject, Zenon
  <1>8. SameShape
    <2>1. initial \in Nat /\ Top.index \in Int /\ Top.index > initial
      BY <1>3, <1>4, ObjectFacts DEF New
    <2>2. \A i \in DOMAIN objects : i <= initial => i # Top.index
      BY <2>1, SMTT(40)
    <2> QED
      BY <1>6, <1>7, <2>2, Zenon DEF SameShape
  <1>9. CASE pc' = "rollback" /\ UNCHANGED stack
    <2>1. mapped' = mapped \cup {} /\ lost' = lost \cup {}
      BY <1>1, Zenon
    <2> QED
      BY <1>1, <1>8, <1>9, <2>1, FailPreserves, SMTT(40)
  <1>10. ASSUME pc' = "process", ProcessOK', Len(stack') \in {Len(stack), Len(stack) - 1}
         PROVE  DepInv'
    <2>1. Len(stack) \in Nat \ {0}
      BY <1>1, <1>3, TopFacts, Zenon
    <2>2. Len(stack') \in Nat /\ Len(stack') <= Len(stack)
      BY <1>10, <2>1
    <2>3. Typed'
      BY <1>1, <1>3, <1>7, <1>10, <2>2, Zenon DEF Typed
    <2>4. LimitsHold'
      <3>1. /\ Len(stack) <= call.options.max_depth + 2 /\ call.options.max_depth \in Nat
            /\ occurrences <= call.options.max_occurrences
            /\ total <= call.options.max_total /\ Len(objects) <= call.options.max_objects
        BY <1>1, <1>3, Zenon DEF CallOK, LimitsHold, Busy, LoadLimits
      <3>2. Len(stack') <= call.options.max_depth + 2
        BY <2>1, <2>2, <3>1
      <3> QED
        BY <1>1, <1>7, <3>1, <3>2, Zenon DEF LimitsHold
    <2>5. roots' = before.roots /\ global_scope' = before.global_scope
      BY <1>1, <1>3, Zenon DEF CallOK
    <2>6. CallOK' /\ MappingOK'
      BY <1>1, <1>3, <1>8, <2>4, <2>5, SameShapeKeepsCall, SameShapeKeepsMapping, Zenon
    <2> QED
      BY <1>10, <2>3, <2>6, Zenon DEF DepInv
  <1>11. CASE /\ inspect_error(Top) = "None" /\ pc' = "process" /\ m.needed = 0
              /\ stack' = Pop /\ states' = [states EXCEPT ![Top.index] = "Loaded"]
    <2>1. /\ states' \in Seq(ObjectStates) /\ Len(states') = Len(states)
          /\ states'[Top.index] = "Loaded"
          /\ \A i \in DOMAIN objects : i # Top.index => states'[i] = states[i]
      <3>1. "Loaded" \in ObjectStates
        BY Zenon DEF ObjectStates
      <3> QED
        BY <1>1, <1>3, <1>11, <3>1, SetState, Zenon
    <2>2. OnlyTop
      BY <1>6, <1>7, <2>1, Zenon DEF OnlyTop
    <2>3. Finished(objects'[Top.index])
      BY <1>4, <1>6, <1>7, <1>11, SMTT(40) DEF Finished
    <2>4. ProcessOK' /\ Len(stack') = Len(stack) - 1
      BY <1>1, <1>3, <1>11, <2>1, <2>2, <2>3, PopPreserves, Zenon
    <2> QED
      BY <1>10, <1>11, <2>4, Zenon
  <1>12. CASE /\ inspect_error(Top) = "None" /\ pc' = "process"
              /\ stack' = SetTop([Top EXCEPT !.at = "resolve"]) /\ UNCHANGED states
    <2> DEFINE frame == [Top EXCEPT !.at = "resolve"]
               n == Len(stack)
    <2>1. /\ frame \in Frames /\ frame.index = Top.index /\ frame.depth = Top.depth
          /\ frame.at = "resolve"
      BY <1>4, Zenon DEF Frames
    <2>2. OnlyTop
      BY <1>3, <1>6, <1>7, <1>12, Zenon DEF OnlyTop, ProcessOK, ObjectStates
    <2>3. New' = New
      BY <1>1, <1>7, Zenon DEF New
    <2>4. occurrences + m.needed <= call.options.max_occurrences
      <3>1. /\ occurrences \in Nat /\ call.options.max_occurrences \in Nat
        BY <1>3, Zenon DEF Typed, CallOK, LoadLimits
      <3>2. ~(m.needed > call.options.max_occurrences - occurrences)
        BY <1>12, Zenon DEF inspect_error
      <3> HIDE DEF m
      <3> QED
        BY <1>5, <3>1, <3>2
    <2> HIDE DEF frame
    <2>5. ASSUME NEW k, k = Len(stack), stack'[k] = frame, Len(stack') = k
          PROVE  FrameOK(k)'
      <3>1. /\ stack'[k].index = Top.index /\ stack'[k].depth = k - 1 /\ stack'[k].at = "resolve"
            /\ Top.index \in New' /\ stack'[k].depth <= call'.options.max_depth
        BY <1>1, <1>4, <2>1, <2>3, <2>5, Zenon
      <3>2. /\ objects'[Top.index].dependencies = <<>> /\ objects'[Top.index].pages # {}
            /\ objects'[Top.index].image = objects[Top.index].image
            /\ states'[Top.index] = "Loading"
        BY <1>4, <1>6, <1>7, <1>12, Zenon
      <3>3. occurrences' + Images[objects'[Top.index].image].needed <= call'.options.max_occurrences
        BY <1>1, <2>4, <3>2, Zenon
      <3> QED
        BY <2>5, <3>1, <3>2, <3>3, Zenon DEF FrameOK
    <2>6. stack' = SetTop(frame)
      BY <1>12 DEF frame
    <2>7. ProcessOK' /\ Len(stack') = Len(stack)
      BY <1>1, <1>3, <2>1, <2>2, <2>5, <2>6, TopMoves, Zenon
    <2> QED
      BY <1>10, <1>12, <2>7, Zenon
  <1> QED
    BY <1>2, <1>9, <1>11, <1>12, Zenon

\* Until a call rolls back, every object's pages are mapped.
LEMMA PagesMapped ==
    ASSUME Typed, CallOK, MappingOK, pc # "rollback"
    PROVE  \A i \in DOMAIN objects : objects[i].pages \subseteq mapped
  <1> SUFFICES ASSUME NEW i \in DOMAIN objects
               PROVE  objects[i].pages \subseteq mapped
    BY Zenon
  <1>1. i \in 1 .. initial \/ i \in New
    BY ObjectFacts DEF New
  <1>2. CASE i \in 1 .. initial
    <2>1. before.objects \in Seq(LinkObjects)
      BY Zenon DEF CallOK, Sound
    <2>2. i \in DOMAIN before.objects
      BY <1>2, <2>1, SeqFacts, Zenon DEF CallOK
    <2>3. before.objects[i].pages \subseteq before.mapped
      BY <2>2, Zenon DEF CallOK, Sound
    <2> QED
      BY <1>2, <2>3, Zenon DEF CallOK, MappingOK
  <1>3. CASE i \in New /\ objects[i].pages # {}
    <2>1. PICK k \in DOMAIN loads : loads[k] = i
      BY <1>3, Zenon DEF MappingOK
    <2>2. objects[loads[k]].pages \subseteq mapped
      BY DEF MappingOK
    <2> QED
      BY <2>1, <2>2, Zenon
  <1> QED
    BY <1>1, <1>2, <1>3, SMTT(40)

\* A step on the innermost object that keeps edges in range and pages apart.
LEMMA OnlyTopKeepsCall ==
    ASSUME Typed, CallOK, ProcessOK, stack # <<>>, OnlyTop, pc = "process", pc' = "process",
           UNCHANGED <<call, initial, before, roots, global_scope>>, LimitsHold',
           DisjointPages(objects'), EdgesInRange(objects'),
           objects'[Top.index].pages \cap before.mapped = {}
    PROVE  CallOK'
  <1>1. /\ New' = New /\ New \subseteq DOMAIN objects /\ DOMAIN objects' = DOMAIN objects
        /\ \A i \in 1 .. initial : objects'[i] = objects[i]
    BY OnlyTopFacts, Zenon
  <1>2. Sound(before.objects, before.roots, before.global_scope, before.mapped)'
    BY SoundBefore, ZenonT(40) DEF CallOK
  <1>3. UniqueIdentities(objects)'
    BY <1>1, SMTT(40) DEF CallOK, UniqueIdentities, OnlyTop
  <1>4. EdgesInRange(objects)' /\ DisjointPages(objects)'
    BY Zenon DEF EdgesInRange, DisjointPages
  <1>5. \A i \in New' : objects'[i].pages \cap before'.mapped = {}
    BY <1>1, Zenon DEF CallOK, OnlyTop
  <1>6. \A i \in 1 .. initial' : objects'[i] = before'.objects[i]
    BY <1>1, Zenon DEF CallOK
  <1>7. initial' = Len(before'.objects) /\ initial' < Len(objects')
    BY Zenon DEF CallOK, OnlyTop
  <1>8. roots' = before'.roots /\ global_scope' = before'.global_scope
    BY Zenon DEF CallOK
  <1> QED
    BY <1>2, <1>3, <1>4, <1>5, <1>6, <1>7, <1>8, Zenon DEF CallOK

LEMMA LoadSucceedsPreserves ==
    ASSUME DepInv, pc = "process", stack # <<>>, Top.at = "load", NEW pages \in SUBSET Int,
           pages # {}, pages \cap mapped = {}, Top.depth <= call.options.max_depth,
           states' = [states EXCEPT ![Top.index] = "Loading"],
           mapped' = mapped \cup pages,
           objects' = [objects EXCEPT ![Top.index].pages = pages],
           loads' = Append(loads, Top.index),
           stack' = SetTop([Top EXCEPT !.at = "inspect"]),
           UNCHANGED <<pc, lost, roots, global_scope, call, initial, occurrences, total,
                       recorded, before>>
    PROVE  DepInv'
  <1> DEFINE o == [objects[Top.index] EXCEPT !.pages = pages]
             frame == [Top EXCEPT !.at = "inspect"]
             n == Len(loads)
  <1>1. Typed /\ CallOK /\ MappingOK /\ ProcessOK
    BY Zenon DEF DepInv
  <1>2. /\ objects[Top.index] \in LinkObjects /\ Top.index \in DOMAIN objects
        /\ Top.index \in New /\ Top \in Frames
        /\ objects[Top.index].dependencies = <<>> /\ objects[Top.index].pages = {}
        /\ Top.depth = Len(stack) - 1
    BY <1>1, TopFrame, Zenon
  <1>3. /\ o \in LinkObjects /\ o.identity = objects[Top.index].identity
        /\ o.image = objects[Top.index].image /\ o.pages = pages /\ o.dependencies = <<>>
    BY <1>2, Zenon DEF LinkObjects
  <1>4. objects' = [objects EXCEPT ![Top.index] = o]
    OBVIOUS
  <1>5. /\ frame \in Frames /\ frame.index = Top.index /\ frame.depth = Top.depth
        /\ frame.at = "inspect"
    BY <1>2, Zenon DEF Frames
  <1> HIDE DEF o, frame
  <1>6. /\ objects' \in Seq(LinkObjects) /\ Len(objects') = Len(objects)
        /\ objects'[Top.index] = o
        /\ \A i \in DOMAIN objects : i # Top.index => objects'[i] = objects[i]
    BY <1>1, <1>3, <1>4, SetObject, Zenon
  <1>7. /\ states' \in Seq(ObjectStates) /\ Len(states') = Len(states)
        /\ states'[Top.index] = "Loading"
        /\ \A i \in DOMAIN objects : i # Top.index => states'[i] = states[i]
    <2>1. "Loading" \in ObjectStates
      BY Zenon DEF ObjectStates
    <2> QED
      BY <1>1, <2>1, SetState, Zenon
  <1>8. OnlyTop
    <2>1. DOMAIN objects[Top.index].dependencies = {}
      BY <1>2
    <2> QED
      BY <1>3, <1>6, <1>7, <2>1, Zenon DEF OnlyTop
  <1>9. /\ New' = New /\ New \subseteq DOMAIN objects /\ DOMAIN objects' = DOMAIN objects
    BY <1>1, <1>8, OnlyTopFacts, Zenon
  <1>10. ASSUME NEW k, k = Len(stack), stack'[k] = frame, Len(stack') = k
         PROVE  FrameOK(k)'
    <2>1. /\ stack'[k].index = Top.index /\ stack'[k].depth = k - 1 /\ stack'[k].at = "inspect"
          /\ Top.index \in New' /\ stack'[k].depth <= call'.options.max_depth
      BY <1>2, <1>5, <1>9, <1>10, Zenon
    <2>2. /\ objects'[Top.index].dependencies = <<>> /\ objects'[Top.index].pages # {}
          /\ states'[Top.index] = "Loading"
      BY <1>3, <1>6, <1>7, Zenon
    <2> QED
      BY <1>10, <2>1, <2>2, Zenon DEF FrameOK
  <1>11. ProcessOK' /\ Len(stack') = Len(stack)
    <2>1. stack' = SetTop(frame)
      BY Zenon DEF frame
    <2> QED
      BY <1>1, <1>5, <1>8, <1>10, <2>1, TopMoves, Zenon
  <1>12. Top.index \in Nat /\ \A k \in DOMAIN loads : loads[k] # Top.index
    <2>1. Top.index \in Nat
      BY <1>2, Zenon DEF Frames
    <2> QED
      BY <1>1, <1>2, <2>1, SMTT(40) DEF MappingOK
  <1>13. /\ loads' \in Seq(Nat) /\ n \in Nat /\ DOMAIN loads = 1 .. n /\ DOMAIN loads' = 1 .. n + 1
         /\ loads'[n + 1] = Top.index /\ \A k \in 1 .. n : loads'[k] = loads[k]
    <2>1. loads \in Seq(Nat)
      BY <1>1, Zenon DEF Typed
    <2>2. /\ loads' \in Seq(Nat) /\ Len(loads') = n + 1
          /\ loads'[n + 1] = Top.index /\ \A k \in 1 .. n : loads'[k] = loads[k]
      BY <1>12, <2>1, SeqAppended
    <2> QED
      BY <2>1, <2>2, SeqFacts, Zenon
  <1> HIDE DEF n
  <1>14. Typed'
    BY <1>1, <1>6, <1>11, <1>13, Zenon DEF Typed
  <1>15. LimitsHold'
    BY <1>1, <1>6, <1>11, Zenon DEF CallOK, LimitsHold, Busy
  <1>16. \A i \in DOMAIN objects : objects[i].pages \subseteq mapped
    BY <1>1, PagesMapped, Zenon
  <1>17. before.mapped \subseteq mapped /\ lost = {}
    BY <1>1, Zenon DEF MappingOK
  <1>18. CallOK'
    <2>1. DisjointPages(objects')
      <3>1. \A i \in DOMAIN objects : objects[i].pages \cap pages = {}
        BY <1>16, Zenon
      <3> QED
        BY <1>1, <1>3, <1>6, <1>9, <3>1, SMTT(40) DEF CallOK, DisjointPages
    <2>2. EdgesInRange(objects')
      <3>1. DOMAIN o.dependencies = {}
        BY <1>3
      <3> QED
        BY <1>1, <1>6, <1>9, <3>1, Zenon DEF CallOK, EdgesInRange
    <2>3. objects'[Top.index].pages \cap before.mapped = {}
      BY <1>3, <1>6, <1>17, Zenon
    <2> QED
      BY <1>1, <1>8, <1>15, <2>1, <2>2, <2>3, OnlyTopKeepsCall, ZenonT(40)
  <1>19. MappingOK'
    <2>1. \A k \in DOMAIN loads' : k = n + 1 \/ (k \in DOMAIN loads /\ k \in 1 .. n)
      <3>1. n \in Nat /\ DOMAIN loads' = 1 .. n + 1 /\ DOMAIN loads = 1 .. n
        BY <1>13, Zenon
      <3>2. \A k \in 1 .. n + 1 : k = n + 1 \/ k \in 1 .. n
        BY <3>1
      <3> QED
        BY <3>1, <3>2, Zenon
    <2>2. \A k \in 1 .. n : /\ k \in DOMAIN loads' /\ objects'[loads'[k]] = objects[loads[k]]
                            /\ loads[k] \in New /\ loads[k] # Top.index
      <3> SUFFICES ASSUME NEW k \in 1 .. n
                   PROVE  /\ k \in DOMAIN loads' /\ objects'[loads'[k]] = objects[loads[k]]
                          /\ loads[k] \in New /\ loads[k] # Top.index
        BY Zenon
      <3>1. loads[k] \in New /\ loads[k] # Top.index
        BY <1>1, <1>12, <1>13, Zenon DEF MappingOK
      <3>2. k \in DOMAIN loads' /\ loads'[k] = loads[k]
        BY <1>13
      <3> QED
        BY <1>6, <1>9, <3>1, <3>2, Zenon
    <2>3. n + 1 \in DOMAIN loads' /\ objects'[loads'[n + 1]].pages = pages
      BY <1>3, <1>6, <1>13, SMTT(40)
    <2>4. mapped' = before'.mapped \cup lost' \cup UNION {objects'[loads'[k]].pages : k \in DOMAIN loads'}
      <3>1. mapped = before.mapped \cup lost \cup UNION {objects[loads[k]].pages : k \in DOMAIN loads}
        BY <1>1, Zenon DEF MappingOK
      <3>2. UNION {objects'[loads'[k]].pages : k \in DOMAIN loads'}
               = pages \cup UNION {objects[loads[k]].pages : k \in DOMAIN loads}
        BY <1>13, <2>1, <2>2, <2>3, SMTT(40)
      <3> QED
        BY <3>1, <3>2, Zenon
    <2>5. ASSUME NEW k \in DOMAIN loads'
          PROVE  /\ loads'[k] \in New'
                 /\ objects'[loads'[k]].pages # {} /\ objects'[loads'[k]].pages \cap lost' = {}
      <3>1. CASE k = n + 1
        BY <1>2, <1>9, <1>13, <1>17, <2>3, <3>1, Zenon
      <3>2. CASE k \in DOMAIN loads /\ k \in 1 .. n
        <4>1. loads'[k] = loads[k] /\ loads[k] \in New /\ objects'[loads'[k]] = objects[loads[k]]
          BY <1>13, <2>2, <3>2, ZenonT(40)
        <4>2. objects[loads[k]].pages # {}
          BY <1>1, <3>2, Zenon DEF MappingOK
        <4> QED
          BY <1>9, <1>17, <4>1, <4>2, Zenon
      <3> QED
        BY <2>1, <3>1, <3>2, Zenon
    <2>6. \A j, k \in DOMAIN loads' : loads'[j] = loads'[k] => j = k
      <3>1. \A j, k \in 1 .. n : loads'[j] = loads'[k] => j = k
        BY <1>1, <1>13 DEF MappingOK
      <3>2. \A k \in 1 .. n : loads'[k] # Top.index
        BY <1>13, <2>2, Zenon
      <3> QED
        BY <1>13, <2>1, <3>1, <3>2, ZenonT(40)
    <2>7. ASSUME NEW i \in New', objects'[i].pages # {}
          PROVE  \E k \in DOMAIN loads' : loads'[k] = i
      <3>1. CASE i = Top.index
        BY <1>13, <2>3, <3>1, Zenon
      <3>2. CASE i # Top.index
        <4>1. i \in New /\ objects[i].pages # {}
          BY <1>6, <1>9, <2>7, <3>2, SMTT(40)
        <4>2. PICK k \in DOMAIN loads : loads[k] = i
          BY <1>1, <4>1, Zenon DEF MappingOK
        <4> QED
          BY <1>13, <2>2, <4>2, Zenon
      <3> QED
        BY <3>1, <3>2, Zenon
    <2>8. lost' = {} /\ lost' \cap before'.mapped = {}
      BY <1>17, Zenon
    <2> QED
      BY <2>4, <2>5, <2>6, <2>7, <2>8, Zenon DEF MappingOK
  <1> QED
    BY <1>11, <1>14, <1>18, <1>19, Zenon DEF DepInv

\* The object of the innermost activation with one more edge, and the
\* activation with one dependency less to go.

LEMMA LoadObjectPreserves ==
    ASSUME DepInv, LoadsFreePages, LoadObject
    PROVE  DepInv'
  <1> DEFINE image == objects[Top.index].image
             m == Images[image]
             pages == LoadPages(image)
             e == load_object_error(Top)
  <1>1. /\ pc = "process" /\ stack # <<>> /\ Top.at = "load"
        /\ states' = IF Top.depth > call.options.max_depth THEN states
                     ELSE [states EXCEPT ![Top.index] = "Loading"]
        /\ UNCHANGED <<roots, global_scope, call, initial, occurrences, total, recorded, before>>
    BY DEF LoadObject, Processing
  <1>2. \/ e # "None" /\ pc' = "rollback" /\ UNCHANGED <<objects, mapped, stack, loads, lost>>
        \/ /\ e = "None"
           /\ mapped' = mapped \cup pages
           /\ objects' = [objects EXCEPT ![Top.index].pages = pages]
           /\ loads' = Append(loads, Top.index)
           /\ stack' = SetTop([Top EXCEPT !.at = "inspect"])
           /\ UNCHANGED <<pc, lost>>
        \/ /\ e = "None"
           /\ \E left \in SUBSET pages : mapped' = mapped \cup left /\ lost' = lost \cup left
           /\ pc' = "rollback" /\ UNCHANGED <<objects, loads, stack>>
    BY Zenon DEF LoadObject, Fail
  <1>3. Typed /\ CallOK /\ MappingOK /\ ProcessOK
    BY <1>1, Zenon DEF DepInv
  <1>4. /\ objects[Top.index] \in LinkObjects /\ Top.depth \in Nat
        /\ call.options.max_depth \in Nat
    BY <1>1, <1>3, TopFrame, Zenon DEF CallOK, LoadLimits
  <1>5. image \in DOMAIN Images
    BY <1>4, ZenonT(40) DEF LinkObjects
  <1>6. ASSUME e = "None"
        PROVE  /\ pages \in SUBSET Int /\ pages # {} /\ pages \cap mapped = {}
               /\ Top.depth <= call.options.max_depth
               /\ ~(Top.depth > call.options.max_depth)
    <2>1. /\ ~(Top.depth > call.options.max_depth) /\ m.type # "Invalid"
          /\ m.type = "Dynamic" => Runs(m.size) # {}
          /\ m.type = "Executable" => pages \cap mapped = {}
      BY <1>6, Zenon DEF load_object_error
    <2>2. pages \in SUBSET Int /\ pages # {} /\ pages \cap mapped = {}
      <3> HIDE DEF image
      <3> QED
        BY <1>5, <2>1, Zenon DEF LoadsFreePages
    <2>3. \A x, y \in Nat : ~(x > y) => x <= y
      OBVIOUS
    <2> QED
      BY <1>4, <2>1, <2>2, <2>3, Zenon
  <1>7. CASE e # "None" /\ pc' = "rollback" /\ UNCHANGED <<objects, mapped, stack, loads, lost>>
    <2>1. mapped' = mapped \cup {} /\ lost' = lost \cup {} /\ SameShape
      BY <1>3, <1>7, UnchangedShape, Zenon
    <2>2. {} \in SUBSET Int /\ {} \cap mapped = {}
      BY Zenon
    <2>3. pc' = "rollback" /\ UNCHANGED <<stack, loads>>
      BY <1>7, Zenon
    <2> HIDE DEF e
    <2> QED
      BY <1>1, <2>1, <2>2, <2>3, FailPreserves, Zenon
  <1> HIDE DEF e, pages
  <1>8. CASE /\ e = "None"
             /\ mapped' = mapped \cup pages
             /\ objects' = [objects EXCEPT ![Top.index].pages = pages]
             /\ loads' = Append(loads, Top.index)
             /\ stack' = SetTop([Top EXCEPT !.at = "inspect"])
             /\ UNCHANGED <<pc, lost>>
    <2>1. states' = [states EXCEPT ![Top.index] = "Loading"]
      BY <1>1, <1>6, <1>8, Zenon
    <2> QED
      BY <1>1, <1>6, <1>8, <2>1, LoadSucceedsPreserves, Zenon
  <1>9. CASE /\ e = "None"
             /\ \E left \in SUBSET pages : mapped' = mapped \cup left /\ lost' = lost \cup left
             /\ pc' = "rollback" /\ UNCHANGED <<objects, loads, stack>>
    <2>1. PICK left \in SUBSET pages : mapped' = mapped \cup left /\ lost' = lost \cup left
      BY <1>9, Zenon
    <2>2. left \in SUBSET Int /\ left \cap mapped = {} /\ SameShape
      BY <1>3, <1>6, <1>9, UnchangedShape, Zenon
    <2> QED
      BY <1>1, <1>9, <2>1, <2>2, FailPreserves, Zenon
  <1> QED
    BY <1>2, <1>7, <1>8, <1>9, ZenonT(40)

TopWithEdge(to) ==
    [objects[Top.index] EXCEPT !.dependencies = Append(objects[Top.index].dependencies, to)]

NextPending == [Top EXCEPT !.pending = Tail(Top.pending)]

LEMMA EdgeAdded ==
    ASSUME Typed, CallOK, ProcessOK, stack # <<>>, Top.at = "each", Top.pending # <<>>, NEW to \in Nat
    PROVE  LET o == TopWithEdge(to)
               deps == objects[Top.index].dependencies
           IN  /\ o \in LinkObjects /\ o.identity = objects[Top.index].identity
               /\ o.image = objects[Top.index].image /\ o.pages = objects[Top.index].pages
               /\ o.dependencies \in Seq(Nat) /\ deps \in Seq(Nat)
               /\ Len(deps) \in Nat /\ DOMAIN deps = 1 .. Len(deps)
               /\ DOMAIN o.dependencies = 1 .. Len(deps) + 1
               /\ Len(o.dependencies) = Len(deps) + 1
               /\ o.dependencies[Len(deps) + 1] = to
               /\ \A k \in 1 .. Len(deps) : o.dependencies[k] = deps[k]
               /\ NextPending \in Frames /\ NextPending.index = Top.index
               /\ NextPending.depth = Top.depth /\ NextPending.at = "each"
               /\ Len(o.dependencies) + Len(NextPending.pending) = Images[o.image].needed
  <1> DEFINE object == objects[Top.index]
             deps == object.dependencies
             longer == Append(deps, to)
             o == TopWithEdge(to)
  <1>1. /\ object \in LinkObjects /\ Top \in Frames
        /\ Len(deps) + Len(Top.pending) = Images[object.image].needed
    BY TopFrame, Zenon
  <1>2. deps \in Seq(Nat) /\ Top.pending \in Seq(Answers)
    BY <1>1, Zenon DEF LinkObjects, Frames
  <1>3. Len(deps) \in Nat /\ DOMAIN deps = 1 .. Len(deps)
    BY <1>2, SeqFacts, Zenon
  <1>4. /\ longer \in Seq(Nat) /\ Len(longer) = Len(deps) + 1 /\ longer[Len(deps) + 1] = to
        /\ \A k \in 1 .. Len(deps) : longer[k] = deps[k]
    BY <1>2, SeqAppended
  <1>5. DOMAIN longer = 1 .. Len(deps) + 1
    BY <1>4, SeqFacts, Zenon
  <1>6. /\ Tail(Top.pending) \in Seq(Answers) /\ Len(Tail(Top.pending)) = Len(Top.pending) - 1
        /\ Len(Top.pending) \in Nat
    BY <1>2, SeqTail, SeqFacts
  <1>7. /\ NextPending \in Frames /\ NextPending.index = Top.index
        /\ NextPending.depth = Top.depth /\ NextPending.at = "each"
        /\ NextPending.pending = Tail(Top.pending)
    BY <1>1, <1>6, Zenon DEF NextPending, Frames
  <1> HIDE DEF longer
  <1>8. /\ o \in LinkObjects /\ o.identity = object.identity
        /\ o.image = object.image /\ o.pages = object.pages /\ o.dependencies = longer
    <2>1. o = [object EXCEPT !.dependencies = longer]
      BY Zenon DEF TopWithEdge, longer
    <2> HIDE DEF o, object
    <2> QED
      BY <1>1, <1>4, <2>1, Zenon DEF LinkObjects
  <1> HIDE DEF o
  <1>9. Len(longer) + Len(NextPending.pending) = Images[object.image].needed
    <2> DEFINE a == Len(deps)
               b == Len(Top.pending)
    <2>1. Len(longer) = a + 1 /\ Len(NextPending.pending) = b - 1 /\ a \in Nat /\ b \in Nat
          /\ a + b = Images[object.image].needed
      BY <1>1, <1>3, <1>4, <1>6, <1>7, Zenon
    <2> HIDE DEF a, b
    <2> QED
      BY <2>1
  <1>10. /\ o.dependencies \in Seq(Nat) /\ DOMAIN o.dependencies = 1 .. Len(deps) + 1
         /\ Len(o.dependencies) = Len(deps) + 1 /\ o.dependencies[Len(deps) + 1] = to
         /\ \A k \in 1 .. Len(deps) : o.dependencies[k] = deps[k]
    BY <1>4, <1>5, <1>8, Zenon
  <1>11. Len(o.dependencies) + Len(NextPending.pending) = Images[o.image].needed
    BY <1>8, <1>9, Zenon
  <1> QED
    BY <1>2, <1>3, <1>7, <1>8, <1>10, <1>11, ZenonT(40) DEF o

\* New objects own no pages yet, and the others keep theirs.
LEMMA SamePagesKeepsMapping ==
    ASSUME Typed, MappingOK, New \subseteq New',
           \A i \in New : objects'[i].pages = objects[i].pages,
           \A i \in New' : i \notin New => objects'[i].pages = {},
           UNCHANGED <<loads, before, mapped, lost>>, pc' # "rollback" => pc # "rollback"
    PROVE  MappingOK'
  <1>1. \A k \in DOMAIN loads : loads[k] \in New /\ objects'[loads[k]].pages = objects[loads[k]].pages
    BY Zenon DEF MappingOK
  <1>2. {objects'[loads[k]].pages : k \in DOMAIN loads} = {objects[loads[k]].pages : k \in DOMAIN loads}
    BY <1>1, SMTT(40)
  <1>3. mapped' = before'.mapped \cup lost' \cup UNION {objects'[loads'[k]].pages : k \in DOMAIN loads'}
    BY <1>2 DEF MappingOK
  <1>4. \A k \in DOMAIN loads' :
           /\ loads'[k] \in New'
           /\ objects'[loads'[k]].pages # {} /\ objects'[loads'[k]].pages \cap lost' = {}
    BY <1>1, Zenon DEF MappingOK
  <1>5. \A j, k \in DOMAIN loads' : loads'[j] = loads'[k] => j = k
    BY Zenon DEF MappingOK
  <1>6. pc' # "rollback" =>
           /\ lost' = {}
           /\ \A i \in New' : objects'[i].pages # {} => \E k \in DOMAIN loads' : loads'[k] = i
    BY Zenon DEF MappingOK
  <1>7. lost' \cap before'.mapped = {}
    BY Zenon DEF MappingOK
  <1> QED
    BY <1>3, <1>4, <1>5, <1>6, <1>7, ZenonT(40) DEF MappingOK

LEMMA KnownDependencyPreserves ==
    ASSUME DepInv, pc = "process", stack # <<>>, Top.at = "each", Top.pending # <<>>,
           NEW index \in DOMAIN objects, KnownDependency(index),
           UNCHANGED <<roots, global_scope, mapped, call, initial, loads, occurrences,
                       total, recorded, before, lost>>
    PROVE  DepInv'
  <1> DEFINE o == TopWithEdge(index)
             deps == objects[Top.index].dependencies
             a == Len(deps)
  <1>1. Typed /\ CallOK /\ MappingOK /\ ProcessOK
    BY Zenon DEF DepInv
  <1>2. /\ Top.index \in New /\ Top.index \in DOMAIN objects /\ states[Top.index] = "Loading"
        /\ objects[Top.index].pages # {} /\ Top.depth <= call.options.max_depth
        /\ Top.depth = Len(stack) - 1
    BY <1>1, TopFrame, ZenonT(40)
  <1>3. DOMAIN objects = 1 .. Len(objects) /\ Len(objects) \in Nat /\ initial \in Nat /\ index \in Nat
    BY <1>1, ObjectFacts, SMTT(40)
  <1>4. states[index] # "Discovered"
    <2>1. CASE index \in 1 .. initial
      BY <1>1, <2>1, Zenon DEF ProcessOK
    <2>2. ASSUME NEW k \in DOMAIN stack, stack[k].index = index
          PROVE  states[index] # "Discovered"
      <3>1. FrameOK(k)
        BY <1>1, Zenon DEF ProcessOK
      <3>2. stack[k].at = "each"
        BY <3>1, Zenon DEF FrameOK, Top
      <3> QED
        BY <2>2, <3>1, <3>2, Zenon DEF FrameOK
    <2>3. index \in 1 .. initial \/ index \in New
      BY <1>3 DEF New
    <2> QED
      BY <1>1, <2>1, <2>2, <2>3, Zenon DEF ProcessOK
  <1>5. /\ objects' = [objects EXCEPT ![Top.index] = o] /\ stack' = SetTop(NextPending)
        /\ pc' = "process" /\ UNCHANGED states
    BY <1>4 DEF KnownDependency, AddEdge, TopWithEdge, NextPending
  <1>6. /\ o \in LinkObjects /\ o.identity = objects[Top.index].identity
        /\ o.image = objects[Top.index].image /\ o.pages = objects[Top.index].pages
        /\ a \in Nat /\ DOMAIN deps = 1 .. a /\ DOMAIN o.dependencies = 1 .. a + 1
        /\ o.dependencies[a + 1] = index /\ \A k \in 1 .. a : o.dependencies[k] = deps[k]
        /\ NextPending \in Frames /\ NextPending.index = Top.index
        /\ NextPending.depth = Top.depth /\ NextPending.at = "each"
        /\ Len(o.dependencies) + Len(NextPending.pending) = Images[o.image].needed
    BY <1>1, <1>3, EdgeAdded, Zenon
  <1> HIDE DEF o, a
  <1>7. /\ objects' \in Seq(LinkObjects) /\ Len(objects') = Len(objects)
        /\ objects'[Top.index] = o
        /\ \A i \in DOMAIN objects : i # Top.index => objects'[i] = objects[i]
    BY <1>1, <1>5, <1>6, SetObject, Zenon
  <1>8. OnlyTop
    <2>1. \A k \in DOMAIN deps : k \in DOMAIN o.dependencies /\ o.dependencies[k] = deps[k]
      <3>1. a \in Nat
        BY <1>6, Zenon
      <3>2. \A k \in 1 .. a : k \in 1 .. a + 1
        BY <3>1
      <3> QED
        BY <1>6, <3>2, Zenon
    <2> QED
      BY <1>1, <1>5, <1>6, <1>7, <2>1, ZenonT(40) DEF OnlyTop, ProcessOK, ObjectStates
  <1>9. /\ New' = New /\ New \subseteq DOMAIN objects /\ DOMAIN objects' = DOMAIN objects
    BY <1>1, <1>8, OnlyTopFacts, Zenon
  <1>10. ASSUME NEW k, k = Len(stack), stack'[k] = NextPending, Len(stack') = k
         PROVE  FrameOK(k)'
    <2>1. /\ stack'[k].index = Top.index /\ stack'[k].depth = k - 1 /\ stack'[k].at = "each"
          /\ Top.index \in New' /\ stack'[k].depth <= call'.options.max_depth
      BY <1>2, <1>6, <1>9, <1>10, Zenon
    <2>2. /\ objects'[Top.index].pages # {} /\ states'[Top.index] = "Loading"
          /\ Len(objects'[Top.index].dependencies) + Len(stack'[k].pending)
                = Images[objects'[Top.index].image].needed
      BY <1>2, <1>5, <1>6, <1>7, <1>10, Zenon
    <2> QED
      BY <1>10, <2>1, <2>2, Zenon DEF FrameOK
  <1>11. ProcessOK' /\ Len(stack') = Len(stack)
    BY <1>1, <1>5, <1>6, <1>8, <1>10, TopMoves, Zenon
  <1>12. Typed'
    BY <1>1, <1>5, <1>7, <1>11, ZenonT(40) DEF Typed
  <1>13. LimitsHold'
    BY <1>1, <1>7, <1>11, Zenon DEF CallOK, LimitsHold, Busy
  <1>14. CallOK'
    <2>1. DisjointPages(objects')
      <3>1. \A i \in DOMAIN objects : objects'[i].pages = objects[i].pages
        BY <1>6, <1>7, Zenon
      <3> QED
        BY <1>1, <1>9, <3>1, Zenon DEF CallOK, DisjointPages
    <2>2. EdgesInRange(objects')
      <3>1. \A k \in DOMAIN o.dependencies : o.dependencies[k] \in DOMAIN objects
        <4>1. \A k \in DOMAIN deps : deps[k] \in DOMAIN objects
          BY <1>1, <1>2, Zenon DEF CallOK, EdgesInRange
        <4>2. \A k \in DOMAIN o.dependencies : k = a + 1 \/ k \in DOMAIN deps
          <5>1. a \in Nat
            BY <1>6, Zenon
          <5>2. \A k \in 1 .. a + 1 : k = a + 1 \/ k \in 1 .. a
            BY <5>1
          <5> QED
            BY <1>6, <5>2, Zenon
        <4> QED
          BY <1>6, <4>1, <4>2, Zenon
      <3> QED
        BY <1>1, <1>7, <1>9, <3>1, ZenonT(40) DEF CallOK, EdgesInRange
    <2>3. objects'[Top.index].pages \cap before.mapped = {}
      BY <1>1, <1>2, <1>6, <1>7, ZenonT(40) DEF CallOK
    <2> QED
      BY <1>1, <1>5, <1>8, <1>13, <2>1, <2>2, <2>3, OnlyTopKeepsCall, ZenonT(40)
  <1>15. MappingOK'
    <2>1. \A i \in New : objects'[i].pages = objects[i].pages
      BY <1>6, <1>7, <1>9, Zenon
    <2> QED
      BY <1>1, <1>5, <1>9, <2>1, SamePagesKeepsMapping, ZenonT(40)
  <1> QED
    BY <1>5, <1>11, <1>12, <1>14, <1>15, Zenon DEF DepInv

\* The stack after a call of process_object: the caller has moved on and the
\* new activation is on top.
LEMMA PushFacts ==
    ASSUME Typed, ProcessOK, stack # <<>>, NEW moved \in Frames, NEW pushed \in Frames,
           stack' = Append(SetTop(moved), pushed)
    PROVE  LET n == Len(stack) IN
           /\ stack' \in Seq(Frames) /\ Len(stack') = n + 1 /\ DOMAIN stack' = 1 .. n + 1
           /\ stack'[n + 1] = pushed /\ stack'[n] = moved
           /\ \A k \in 1 .. n : k # n => stack'[k] = stack[k]
  <1> DEFINE n == Len(stack)
             t == SetTop(moved)
  <1>1. n \in Nat \ {0} /\ n \in DOMAIN stack /\ DOMAIN stack = 1 .. n /\ stack \in Seq(Frames)
    BY TopFacts, Zenon DEF ProcessOK
  <1>2. /\ t \in Seq(Frames) /\ Len(t) = n /\ t[n] = moved
        /\ \A k \in 1 .. n : k # n => t[k] = stack[k]
    BY <1>1, SeqReplaced, Zenon DEF SetTop
  <1> HIDE DEF t
  <1>3. /\ stack' \in Seq(Frames) /\ Len(stack') = n + 1 /\ stack'[n + 1] = pushed
        /\ \A k \in 1 .. n : stack'[k] = t[k]
    <2>1. stack' = Append(t, pushed)
      BY Zenon DEF t
    <2> QED
      BY <1>2, <2>1, SeqAppended, SMTT(40)
  <1>4. DOMAIN stack' = 1 .. n + 1
    BY <1>3, SeqFacts, Zenon
  <1>5. n \in 1 .. n
    BY <1>1
  <1> HIDE DEF n
  <1>6. stack'[n] = moved /\ \A k \in 1 .. n : k # n => stack'[k] = stack[k]
    BY <1>2, <1>3, <1>5, Zenon
  <1> QED
    BY <1>3, <1>4, <1>6, Zenon DEF n

\* The objects after a new one has been appended with an edge to it.
LEMMA GrowFacts ==
    ASSUME Typed, CallOK, ProcessOK, stack # <<>>, Top.at = "each", Top.pending # <<>>,
           NEW identity \in Ids, NEW image \in DOMAIN Images,
           NEW o, o = AddEdge(Append(objects, NewObject(identity, image)), Top.index, Len(objects) + 1)
    PROVE  LET m == Len(objects) IN
           /\ o \in Seq(LinkObjects) /\ Len(o) = m + 1 /\ DOMAIN o = 1 .. m + 1
           /\ o[m + 1] = NewObject(identity, image)
           /\ o[Top.index] = TopWithEdge(m + 1)
           /\ \A i \in 1 .. m : i # Top.index => o[i] = objects[i]
  <1> DEFINE m == Len(objects)
             new == NewObject(identity, image)
             g == Append(objects, new)
             top == TopWithEdge(m + 1)
  <1>1. /\ m \in Nat /\ DOMAIN objects = 1 .. m /\ objects \in Seq(LinkObjects)
        /\ Top.index \in 1 .. m
    BY ObjectFacts, TopFrame, Zenon DEF Typed
  <1>2. new \in LinkObjects
    <2>1. <<>> \in Seq(Nat) /\ {} \in SUBSET Int
      BY SMTT(40)
    <2> QED
      BY <2>1, Zenon DEF NewObject, LinkObjects
  <1> HIDE DEF new
  <1>3. /\ g \in Seq(LinkObjects) /\ Len(g) = m + 1 /\ g[m + 1] = new
        /\ \A i \in 1 .. m : g[i] = objects[i]
    BY <1>1, <1>2, SeqAppended
  <1>4. top \in LinkObjects
    <2>1. m + 1 \in Nat
      BY <1>1
    <2> HIDE DEF m
    <2> QED
      BY <2>1, EdgeAdded, Zenon
  <1> HIDE DEF g, m, top
  <1>5. o = [g EXCEPT ![Top.index] = top]
    <2>1. o = [g EXCEPT ![Top.index] =
                 [g[Top.index] EXCEPT !.dependencies = Append(g[Top.index].dependencies, m + 1)]]
      BY Zenon DEF AddEdge, g, m, new
    <2>2. g[Top.index] = objects[Top.index]
      BY <1>1, <1>3, ZenonT(40)
    <2> QED
      BY <2>1, <2>2, Zenon DEF TopWithEdge, top
  <1>6. Top.index \in 1 .. Len(g) /\ Top.index # m + 1 /\ m + 1 \in 1 .. Len(g)
        /\ \A i \in 1 .. m : i \in 1 .. Len(g)
    BY <1>1, <1>3, SMTT(40)
  <1>7. /\ o \in Seq(LinkObjects) /\ Len(o) = Len(g) /\ o[Top.index] = top
        /\ \A i \in 1 .. Len(g) : i # Top.index => o[i] = g[i]
    BY <1>3, <1>4, <1>5, <1>6, SeqReplaced, SMTT(40)
  <1>8. /\ Len(o) = m + 1 /\ o[m + 1] = new /\ \A i \in 1 .. m : i # Top.index => o[i] = objects[i]
    BY <1>3, <1>6, <1>7, Zenon
  <1>9. DOMAIN o = 1 .. m + 1
    BY <1>7, <1>8, SeqFacts, Zenon
  <1> QED
    BY <1>7, <1>8, <1>9, Zenon DEF m, new, top

LEMMA NewDependencyPreserves ==
    ASSUME DepInv, pc = "process", stack # <<>>, Top.at = "each", Top.pending # <<>>,
           NEW identity \in Ids, NEW image \in DOMAIN Images, IndexOf(identity) = {},
           Len(objects) < call.options.max_objects, NewDependency(identity, image),
           UNCHANGED <<roots, global_scope, mapped, call, initial, loads, occurrences,
                       total, recorded, before, lost>>
    PROVE  DepInv'
  <1> DEFINE m == Len(objects)
             n == Len(stack)
             o == TopWithEdge(m + 1)
             deps == objects[Top.index].dependencies
             a == Len(deps)
             new == NewObject(identity, image)
             pushed == Frame(m + 1, Top.depth + 1)
  <1>1. Typed /\ CallOK /\ MappingOK /\ ProcessOK
    BY Zenon DEF DepInv
  <1>2. /\ objects' = AddEdge(Append(objects, new), Top.index, m + 1)
        /\ states' = Append(states, "Discovered")
        /\ stack' = Append(SetTop(NextPending), pushed) /\ pc' = "process"
    BY Zenon DEF NewDependency, NextPending
  <1>3. /\ Top.index \in New /\ Top.index \in DOMAIN objects /\ states[Top.index] = "Loading"
        /\ objects[Top.index].pages # {} /\ Top.depth <= call.options.max_depth
        /\ Top.depth = n - 1 /\ Top.depth \in Nat
    BY <1>1, TopFrame, Zenon
  <1>4. /\ DOMAIN objects = 1 .. m /\ m \in Nat /\ initial \in Nat /\ initial < m
        /\ New \subseteq DOMAIN objects
    BY <1>1, ObjectFacts, Zenon DEF CallOK
  <1>5. n \in Nat \ {0} /\ DOMAIN stack = 1 .. n /\ stack[n] = Top /\ n \in DOMAIN stack
    BY <1>1, TopFacts, Zenon DEF Top
  <1>6. /\ o \in LinkObjects /\ o.identity = objects[Top.index].identity
        /\ o.image = objects[Top.index].image /\ o.pages = objects[Top.index].pages
        /\ a \in Nat /\ DOMAIN deps = 1 .. a /\ DOMAIN o.dependencies = 1 .. a + 1
        /\ o.dependencies[a + 1] = m + 1 /\ \A k \in 1 .. a : o.dependencies[k] = deps[k]
        /\ NextPending \in Frames /\ NextPending.index = Top.index
        /\ NextPending.depth = Top.depth /\ NextPending.at = "each"
        /\ Len(o.dependencies) + Len(NextPending.pending) = Images[o.image].needed
    <2>1. m + 1 \in Nat
      BY <1>4
    <2> HIDE DEF m
    <2> QED
      BY <1>1, <2>1, EdgeAdded, ZenonT(40)
  <1>7. /\ new.identity = identity /\ new.pages = {} /\ new.dependencies = <<>>
    BY Zenon DEF NewObject
  <1>8. /\ pushed \in Frames /\ pushed.index = m + 1 /\ pushed.depth = n /\ pushed.at = "load"
    <2>1. <<>> \in Seq(Answers) /\ m + 1 \in Nat /\ Top.depth + 1 \in Nat /\ Top.depth + 1 = n
      BY <1>3, <1>4, <1>5, SMTT(40)
    <2> HIDE DEF m, n
    <2> QED
      BY <2>1, ZenonT(40) DEF Frame, Frames
  <1>9. /\ objects' \in Seq(LinkObjects) /\ Len(objects') = m + 1 /\ DOMAIN objects' = 1 .. m + 1
        /\ objects'[m + 1] = new /\ objects'[Top.index] = o
        /\ \A i \in 1 .. m : i # Top.index => objects'[i] = objects[i]
    BY <1>1, <1>2, GrowFacts, ZenonT(40)
  <1>10. /\ stack' \in Seq(Frames) /\ Len(stack') = n + 1 /\ DOMAIN stack' = 1 .. n + 1
         /\ stack'[n + 1] = pushed /\ stack'[n] = NextPending
         /\ \A k \in 1 .. n : k # n => stack'[k] = stack[k]
    <2>1. stack' = Append(SetTop(NextPending), pushed) /\ NextPending \in Frames /\ pushed \in Frames
      BY <1>2, <1>6, <1>8, Zenon
    <2> HIDE DEF pushed
    <2>2. stack' \in Seq(Frames) /\ Len(stack') = n + 1
      BY <1>1, <2>1, PushFacts, Zenon
    <2>5. DOMAIN stack' = 1 .. n + 1
      BY <2>2, SeqFacts, Zenon
    <2>3. stack'[n + 1] = pushed /\ stack'[n] = NextPending
      BY <1>1, <2>1, PushFacts, Zenon
    <2>4. \A k \in 1 .. n : k # n => stack'[k] = stack[k]
      BY <1>1, <2>1, PushFacts, ZenonT(40)
    <2> QED
      BY <2>2, <2>3, <2>4, <2>5, Zenon
  <1>11. /\ states' \in Seq(ObjectStates) /\ Len(states') = m + 1
         /\ states'[m + 1] = "Discovered" /\ \A i \in 1 .. m : states'[i] = states[i]
    <2>1. states \in Seq(ObjectStates) /\ Len(states) = m /\ "Discovered" \in ObjectStates
      BY <1>1, Zenon DEF ProcessOK, ObjectStates
    <2> QED
      BY <1>2, <2>1, SeqAppended, SMTT(40)
  <1>12. m < call.options.max_objects
    BY Zenon
  <1> HIDE DEF m, n, a, o, new, pushed
  <1>13. /\ New' = initial + 1 .. m + 1 /\ New = initial + 1 .. m
    BY <1>9, Zenon DEF New, m
  <1>14. /\ \A i \in New' : i = m + 1 \/ i \in New
         /\ New \subseteq New' /\ m + 1 \in New' /\ m + 1 \notin New
         /\ \A i \in DOMAIN objects' : i = m + 1 \/ (i # m + 1 /\ i \in DOMAIN objects)
         /\ DOMAIN objects \subseteq DOMAIN objects' /\ m + 1 \in DOMAIN objects'
    BY <1>4, <1>9, <1>13, SMTT(40)
  <1>15. \A i \in DOMAIN objects :
            /\ objects'[i].identity = objects[i].identity /\ objects'[i].pages = objects[i].pages
            /\ objects'[i].image = objects[i].image
    BY <1>4, <1>6, <1>9, Zenon
  <1>16. Typed'
    <2>1. n + 1 \in Nat
      BY <1>5
    <2> QED
      BY <1>1, <1>2, <1>9, <1>10, <2>1, ZenonT(40) DEF Typed
  <1>17. LimitsHold'
    <2>1. /\ call.options.max_depth \in Nat /\ call.options.max_objects \in Nat
          /\ occurrences <= call.options.max_occurrences
          /\ total <= call.options.max_total
      BY <1>1, Zenon DEF CallOK, LimitsHold, Busy, LoadLimits
    <2>2. n + 1 <= call.options.max_depth + 2 /\ m + 1 <= call.options.max_objects
      BY <1>3, <1>4, <1>5, <1>12, <2>1, SMTT(40)
    <2> QED
      BY <1>9, <1>10, <2>1, <2>2, Zenon DEF LimitsHold
  <1>18. CallOK'
    <2>1. Sound(before.objects, before.roots, before.global_scope, before.mapped)'
      BY <1>1, SoundBefore, Zenon DEF CallOK
    <2>2. UniqueIdentities(objects)'
      <3>1. \A i \in DOMAIN objects : objects[i].identity # identity
        BY Zenon DEF IndexOf
      <3>2. objects'[m + 1].identity = identity
        BY <1>7, <1>9, Zenon
      <3>3. UniqueIdentities(objects)
        BY <1>1, Zenon DEF CallOK
      <3> QED
        BY <1>14, <1>15, <3>1, <3>2, <3>3, Zenon DEF UniqueIdentities
    <2>3. EdgesInRange(objects)'
      <3>1. EdgesInRange(objects)
        BY <1>1, Zenon DEF CallOK
      <3>2. ASSUME NEW i \in DOMAIN objects', NEW k \in DOMAIN objects'[i].dependencies
            PROVE  objects'[i].dependencies[k] \in DOMAIN objects'
        <4>1. CASE i = m + 1
          BY <1>7, <1>9, <4>1, SMTT(40)
        <4>2. CASE i = Top.index
          <5>1. objects'[i] = o
            BY <1>9, <4>2, Zenon
          <5>2. k \in 1 .. a + 1 /\ a \in Nat
            BY <1>6, <5>1, Zenon
          <5>3. k = a + 1 \/ k \in 1 .. a
            BY <5>2, SMTT(40)
          <5>4. CASE k = a + 1
            BY <1>6, <1>14, <5>1, <5>4, Zenon
          <5>5. CASE k \in 1 .. a
            <6>1. deps[k] \in DOMAIN objects
              BY <1>3, <1>6, <3>1, <5>5, Zenon DEF EdgesInRange
            <6> QED
              BY <1>6, <1>14, <5>1, <5>5, <6>1, Zenon
          <5> QED
            BY <5>3, <5>4, <5>5, Zenon
        <4>3. CASE i # m + 1 /\ i # Top.index
          <5>1. i \in DOMAIN objects /\ objects'[i] = objects[i]
            BY <1>4, <1>9, <1>14, <4>3, ZenonT(40)
          <5> QED
            BY <1>14, <3>1, <5>1, Zenon DEF EdgesInRange
        <4> QED
          BY <4>1, <4>2, <4>3, ZenonT(40)
      <3> QED
        BY <3>2, Zenon DEF EdgesInRange
    <2>4. DisjointPages(objects)'
      <3>1. DisjointPages(objects) /\ objects'[m + 1].pages = {}
        BY <1>1, <1>7, <1>9, Zenon DEF CallOK
      <3> QED
        BY <1>14, <1>15, <3>1, Zenon DEF DisjointPages
    <2>5. \A i \in New' : objects'[i].pages \cap before'.mapped = {}
      BY <1>1, <1>4, <1>7, <1>9, <1>14, <1>15, ZenonT(40) DEF CallOK
    <2>6. \A i \in 1 .. initial' : objects'[i] = before'.objects[i]
      <3> SUFFICES ASSUME NEW i \in 1 .. initial
                   PROVE  objects'[i] = before.objects[i]
        BY Zenon
      <3>1. i \in 1 .. m /\ i # Top.index
        BY <1>3, <1>4, <1>13, SMTT(40)
      <3> QED
        BY <1>1, <1>9, <3>1, Zenon DEF CallOK
    <2>7. initial' = Len(before'.objects) /\ initial' < Len(objects')
      <3>1. initial < m + 1
        BY <1>4, SMTT(40)
      <3> QED
        BY <1>1, <1>9, <3>1, ZenonT(40) DEF CallOK
    <2>8. roots' = before'.roots /\ global_scope' = before'.global_scope
      BY <1>1, Zenon DEF CallOK
    <2> QED
      BY <1>1, <1>17, <2>1, <2>2, <2>3, <2>4, <2>5, <2>6, <2>7, <2>8, Zenon DEF CallOK
  <1>19. MappingOK'
    <2>1. \A i \in New : objects'[i].pages = objects[i].pages
      BY <1>4, <1>15, Zenon
    <2>2. \A i \in New' : i \notin New => objects'[i].pages = {}
      BY <1>7, <1>9, <1>14, Zenon
    <2> QED
      BY <1>1, <1>2, <1>14, <2>1, <2>2, SamePagesKeepsMapping, ZenonT(40)
  <1>20. ASSUME NEW k \in 1 .. n, k # n
         PROVE  FrameOK(k)'
    <2>1. k \in DOMAIN stack /\ k # Len(stack)
      BY <1>5, <1>20, Zenon DEF n
    <2>2. stack[k].index \in New
      BY <1>1, <2>1, ZenonT(40) DEF ProcessOK, FrameOK
    <2>3. stack[k].index # Top.index
      BY <1>1, <1>5, <1>20, <2>1, ZenonT(40) DEF ProcessOK
    <2>4. /\ objects'[stack[k].index] = objects[stack[k].index]
          /\ states'[stack[k].index] = states[stack[k].index]
      BY <1>4, <1>9, <1>11, <2>2, <2>3, Zenon
    <2> QED
      BY <1>1, <1>10, <1>14, <1>20, <2>1, <2>2, <2>4, LowerFrame, ZenonT(40)
  <1>21. ASSUME NEW k, k = n
         PROVE  FrameOK(k)'
    <2>1. /\ stack'[k].index = Top.index /\ stack'[k].depth = k - 1 /\ stack'[k].at = "each"
          /\ Top.index \in New' /\ stack'[k].depth <= call'.options.max_depth
      BY <1>3, <1>6, <1>10, <1>14, <1>21, ZenonT(40)
    <2>2. /\ objects'[Top.index].pages # {} /\ states'[Top.index] = "Loading"
          /\ Len(objects'[Top.index].dependencies) + Len(stack'[k].pending)
                = Images[objects'[Top.index].image].needed
      BY <1>3, <1>4, <1>6, <1>9, <1>10, <1>11, <1>21, ZenonT(40)
    <2> QED
      BY <2>1, <2>2, ZenonT(40) DEF FrameOK
  <1>22. ASSUME NEW k, k = n + 1
         PROVE  FrameOK(k)'
    <2>1. /\ stack'[k].index = m + 1 /\ stack'[k].depth = k - 1
          /\ stack'[k].at = "load" /\ m + 1 \in New' /\ Len(stack') = k
      <3>1. n \in Nat
        BY <1>5, Zenon
      <3>2. n = k - 1
        <4> HIDE DEF n
        <4> QED
          BY <1>22, <3>1
      <3> QED
        BY <1>8, <1>10, <1>14, <1>22, <3>2, Zenon
    <2>2. /\ objects'[m + 1].pages = {} /\ states'[m + 1] = "Discovered"
          /\ objects'[m + 1].dependencies = <<>>
      BY <1>7, <1>9, <1>11, Zenon
    <2> QED
      BY <2>1, <2>2, Zenon DEF FrameOK
  <1>23. ProcessOK'
    <2>1. /\ \A k \in 1 .. n + 1 : k = n + 1 \/ k = n \/ (k \in 1 .. n /\ k # n)
          /\ \A k \in 1 .. n : k \in DOMAIN stack' /\ k # n + 1 /\ k \in DOMAIN stack
          /\ n + 1 \in DOMAIN stack' /\ n \in 1 .. n
      BY <1>5, <1>10, SMTT(40)
    <2>2. (\A k \in DOMAIN stack : FrameOK(k))'
      BY <1>10, <1>20, <1>21, <1>22, <2>1, ZenonT(40)
    <2>3. \A k \in 1 .. n : stack'[k].index = stack[k].index /\ stack[k].index \in New
      <3>1. \A k \in 1 .. n : stack'[k].index = stack[k].index
        BY <1>5, <1>6, <1>10, ZenonT(40)
      <3>2. \A k \in 1 .. n : stack[k].index \in New
        BY <1>1, <2>1, ZenonT(40) DEF ProcessOK, FrameOK
      <3> QED
        BY <3>1, <3>2, Zenon
    <2>4. \A j, k \in DOMAIN stack' : stack'[j].index = stack'[k].index => j = k
      <3>1. \A j, k \in 1 .. n : stack[j].index = stack[k].index => j = k
        BY <1>1, <2>1, Zenon DEF ProcessOK
      <3>2. stack'[n + 1].index = m + 1
        BY <1>8, <1>10, Zenon
      <3>3. \A k \in DOMAIN stack' : k = n + 1 \/ k \in 1 .. n
        BY <1>10, <2>1, ZenonT(40)
      <3> QED
        BY <1>14, <2>3, <3>1, <3>2, <3>3, SMTT(40)
    <2>5. \A i \in 1 .. initial' : states'[i] = "Loaded"
      BY <1>1, <1>4, <1>11, SMTT(40) DEF ProcessOK
    <2>6. ASSUME NEW i \in New'
          PROVE  \/ states'[i] = "Loaded" /\ Finished(objects'[i])
                 \/ \E k \in DOMAIN stack' : stack'[k].index = i
      <3>1. CASE i = m + 1
        BY <1>8, <1>10, <2>1, <3>1, Zenon
      <3>2. CASE i \in New
        <4>1. CASE \E k \in DOMAIN stack : stack[k].index = i
          BY <1>5, <2>1, <2>3, <4>1, Zenon
        <4>2. CASE /\ states[i] = "Loaded" /\ Finished(objects[i])
                   /\ \A k \in DOMAIN stack : stack[k].index # i
          <5>1. i # Top.index /\ i \in 1 .. m
            BY <1>4, <1>5, <3>2, <4>2, Zenon
          <5> QED
            BY <1>9, <1>11, <4>2, <5>1, ZenonT(40)
        <4> QED
          BY <1>1, <3>2, <4>1, <4>2, Zenon DEF ProcessOK
      <3> QED
        BY <1>14, <3>1, <3>2, Zenon
    <2>7. (\A i \in New :
             \/ states[i] = "Loaded" /\ Finished(objects[i])
             \/ \E k \in DOMAIN stack : stack[k].index = i)'
      BY <2>6, Zenon DEF Finished
    <2>8. ASSUME NEW i \in New', i # initial + 1
          PROVE  HasReason(objects', i)
      <3>1. CASE i = m + 1
        <4>1. Top.index \in 1 .. i - 1
          BY <1>3, <1>4, <3>1, SMTT(40)
        <4>2. a + 1 \in DOMAIN objects'[Top.index].dependencies
              /\ objects'[Top.index].dependencies[a + 1] = i
          <5>1. a \in Nat
            BY <1>6, Zenon
          <5>2. a + 1 \in 1 .. a + 1
            BY <5>1
          <5> QED
            BY <1>6, <1>9, <3>1, <5>2, Zenon
        <4> QED
          BY <4>1, <4>2, ZenonT(40) DEF HasReason
      <3>2. CASE i \in New
        <4>1. PICK j \in 1 .. i - 1 : \E k \in DOMAIN objects[j].dependencies :
                                         objects[j].dependencies[k] = i
          BY <1>1, <2>8, <3>2, ZenonT(40) DEF ProcessOK, NewHaveReason, HasReason
        <4>2. j \in 1 .. m
          BY <1>4, <3>2, SMTT(40)
        <4>3. PICK k \in DOMAIN objects[j].dependencies : objects[j].dependencies[k] = i
          BY <4>1, Zenon
        <4>4. k \in DOMAIN objects'[j].dependencies /\ objects'[j].dependencies[k] = i
          <5>1. CASE j = Top.index
            <6>1. k \in 1 .. a /\ a \in Nat
              BY <1>6, <4>3, <5>1, ZenonT(40)
            <6>2. k \in 1 .. a + 1
              BY <6>1, SMTT(40)
            <6> QED
              BY <1>6, <1>9, <4>3, <5>1, <6>1, <6>2, ZenonT(40)
          <5>2. CASE j # Top.index
            BY <1>9, <4>2, <4>3, <5>2, Zenon
          <5> QED
            BY <5>1, <5>2, Zenon
        <4> QED
          BY <4>4, ZenonT(40) DEF HasReason
      <3> QED
        BY <1>14, <3>1, <3>2, ZenonT(40)
    <2>9. NewHaveReason'
      BY <2>8, Zenon DEF NewHaveReason, HasReason
    <2>10. Len(states') = Len(objects') /\ states' \in Seq({"Discovered", "Loading", "Loaded"})
      BY <1>9, <1>11, ZenonT(40) DEF ObjectStates
    <2>11. recorded' = initial'
      BY <1>1, Zenon DEF ProcessOK
    <2> QED
      BY <1>10, <2>2, <2>4, <2>5, <2>7, <2>9, <2>10, <2>11, ZenonT(40) DEF ProcessOK
  <1> QED
    BY <1>2, <1>16, <1>18, <1>19, <1>23, ZenonT(40) DEF DepInv

LEMMA NextDependencyPreserves ==
    ASSUME DepInv, NextDependency
    PROVE  DepInv'
  <1> DEFINE identity == Head(Top.pending)[1]
             image == Head(Top.pending)[2]
  <1>1. /\ pc = "process" /\ stack # <<>> /\ Top.at = "each" /\ Top.pending # <<>>
        /\ UNCHANGED <<roots, global_scope, mapped, call, initial, loads, occurrences,
                       total, recorded, before, lost>>
    BY Zenon DEF NextDependency, Processing
  <1>2. \/ pc' = "rollback" /\ UNCHANGED <<objects, stack>>
        \/ \E index \in IndexOf(identity) : KnownDependency(index)
        \/ /\ IndexOf(identity) = {} /\ Len(objects) < call.options.max_objects
           /\ NewDependency(identity, image)
    BY Zenon DEF NextDependency, Fail
  <1>3. Typed /\ ProcessOK
    BY <1>1, Zenon DEF DepInv
  <1>4. identity \in Ids /\ image \in DOMAIN Images
    <2>1. Top.pending \in Seq(Answers)
      BY <1>1, <1>3, TopFrame, Zenon DEF Frames
    <2>2. Head(Top.pending) \in Answers
      BY <1>1, <2>1, SeqTail, Zenon
    <2> QED
      BY <2>2, AnswersAssumption, Zenon DEF Ids
  <1>5. CASE pc' = "rollback" /\ UNCHANGED <<objects, stack>>
    <2>1. mapped' = mapped \cup {} /\ lost' = lost \cup {} /\ SameShape
      BY <1>1, <1>3, <1>5, UnchangedShape, Zenon
    <2>2. {} \in SUBSET Int /\ {} \cap mapped = {}
      BY Zenon
    <2> QED
      BY <1>1, <1>5, <2>1, <2>2, FailPreserves, Zenon
  <1> HIDE DEF identity, image
  <1>6. ASSUME NEW index \in IndexOf(identity), KnownDependency(index)
        PROVE  DepInv'
    <2>1. index \in DOMAIN objects
      BY Zenon DEF IndexOf
    <2> QED
      BY <1>1, <1>6, <2>1, KnownDependencyPreserves, Zenon
  <1>7. CASE /\ IndexOf(identity) = {} /\ Len(objects) < call.options.max_objects
             /\ NewDependency(identity, image)
    BY <1>1, <1>4, <1>7, NewDependencyPreserves, Zenon
  <1> QED
    BY <1>2, <1>5, <1>6, <1>7, ZenonT(40)

=============================================================================
