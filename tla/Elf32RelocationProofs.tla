----------------------- MODULE Elf32RelocationProofs -----------------------
(***************************************************************************)
(* Proofs about Elf32Relocation, for every number and size of pages, every *)
(* pair of tables and set of symbols, every faulty write, and any number   *)
(* of calls.                                                               *)
(*                                                                         *)
(* The argument is the one the code's comments make.  The preparation      *)
(* leaves a plan: one write for each relocation, at places that differ,    *)
(* with the word memory holds there and the word it is to hold.  From      *)
(* there on every word is what the call found, except at the places of     *)
(* writes still applied, of the write that failed, and of restorations     *)
(* that were not verified; and since writes run in table order and are     *)
(* undone in reverse, the first restoration that fails is the last of all  *)
(* in that order.                                                          *)
(***************************************************************************)
EXTENDS Elf32Relocation, ArithmeticLemmas

MachineOK ==
    /\ backend \in {"Mapped", "Faulty"}
    /\ tables \in [Kinds -> RelTables]
    /\ \A k \in Kinds : tables[k].present \/ tables[k].entries = <<>>

\* The plan: what each pending write is for.
IsPlanned(w) ==
    /\ w.table \in kinds
    /\ w.relocation_index \in TargetsOf(w.table)
    /\ w.place = Place(tables[w.table].entries[w.relocation_index])
    /\ w.original_word = before[w.place]
    /\ RelocatedAs(tables[w.table].entries[w.relocation_index], before[w.place], w.final_word)
    /\ CanRead(w.place)

Planned ==
    /\ \A w \in pending : IsPlanned(w)
    /\ \A w, v \in pending : w # v => w.place # v.place
    /\ rpc # "idle" =>
          \A k \in kinds : \A i \in TargetsOf(k) :
              \E w \in pending : w.table = k /\ w.relocation_index = i

\* The words a call that is running may have changed.
Touched ==
    {w.place : w \in applied} \cup unrestored
        \cup (IF rpc = "check" THEN {failed[1].place} ELSE {})

Running ==
    rpc # "idle" => \A a \in Word \ Touched : mem[a] = before[a]

\* Going forward: writes are done in order, and none was undone.
Forward ==
    rpc \in {"write", "check"} =>
        /\ unrestored = {} /\ rollback = <<>>
        /\ applied = pending \ todo
        /\ \A v \in applied, w \in todo : Before(v, w)

\* Going back: the write that failed was the next one, and the first restoration
\* that failed is after all the writes still to be undone and all that were not
\* restored.
Backward ==
    /\ rpc = "check" => \E w \in pending : failed = <<w>> /\ IsNext(w)
    /\ rpc = "undo" =>
          /\ \E w \in pending : failed = <<w>>
          /\ rollback = <<>> <=> unrestored = {}
          /\ rollback # <<>> =>
                /\ rollback[1].place \in unrestored
                /\ \A v \in pending :
                      Before(rollback[1], v) => v \notin applied /\ v.place \notin unrestored

\* Memory that obeys its permissions: what was written could be written.
Obedient ==
    backend = "Mapped" /\ rpc # "idle" =>
        /\ unrestored = {}
        /\ \A w \in applied : CanWrite(w.place) /\ mem[w.place] = w.final_word
        /\ rpc = "check" => mem[failed[1].place] = failed[1].original_word

RelocationInv ==
    /\ RelocationTypeOK /\ MachineOK
    /\ Planned /\ Running /\ Forward /\ Backward /\ Obedient
    /\ AppliedExactly /\ FailureLeavesMemory /\ RollbackFailureIsReported

(***************************************************************************)
(* Words.                                                                  *)
(***************************************************************************)

\* The address space is not empty and its size is even: pages hold whole words.
LEMMA SpaceSize ==
    /\ AddressSpaceSize \in Nat \ {0}
    /\ \E h \in Nat : AddressSpaceSize = 2 * h
  <1> DEFINE k == PageSize \div 4
  <1>1. k \in Nat /\ PageSize = k * 4 + (PageSize % 4)
    BY PageSizeAssumption, Division
  <1> HIDE DEF k
  <1>2. PageSize = 4 * k
    BY <1>1, PageSizeAssumption, WordAssumption DEF WordSize
  <1>3. NumPages * PageSize = 2 * (NumPages * (2 * k)) /\ NumPages * (2 * k) \in Nat
    BY <1>1, <1>2, NumPagesAssumption
  <1>4. NumPages * PageSize \in Nat \ {0}
    BY NumPagesAssumption, PageSizeAssumption
  <1> QED
    BY <1>3, <1>4, Zenon DEF AddressSpaceSize

\* wrap_add: subtracting an operand gives the other one back.
LEMMA WrapAddFacts ==
    ASSUME NEW a \in Address, NEW b \in Address
    PROVE  /\ wrap_add(a, b) \in Address
           /\ (wrap_add(a, b) - b) % AddressSpaceSize = a
  <1> DEFINE M == AddressSpaceSize
  <1>1. M \in Nat \ {0}
    BY SpaceSize, Zenon
  <1> HIDE DEF M
  <1>2. a \in 0 .. M - 1 /\ b \in 0 .. M - 1
    BY Zenon DEF Address, M
  <1>3. (a + b) % M \in 0 .. M - 1
    BY <1>1, <1>2, Division
  <1>4. (((a + b) % M) + (-b)) % M = ((a + b) + (-b)) % M
    <2>1. a + b \in Int /\ -b \in Int
      BY <1>2
    <2> QED
      BY <1>1, <2>1, WrappedSum, Zenon
  <1>5. a % M = a
    BY <1>1, <1>2, SmallRemainder, Zenon
  <1>6. (a + b) + (-b) = a /\ ((a + b) % M) + (-b) = ((a + b) % M) - b
    BY <1>2, <1>3
  <1> QED
    BY <1>3, <1>4, <1>5, <1>6, Zenon DEF wrap_add, Address, M

\* wrap_sub: a PC-relative word, added to its place, gives the target back.
LEMMA WrapSubFacts ==
    ASSUME NEW a \in Address, NEW p \in Address
    PROVE  /\ wrap_sub(a, p) \in Address
           /\ (p + wrap_sub(a, p)) % AddressSpaceSize = a
  <1> DEFINE M == AddressSpaceSize
  <1>1. M \in Nat \ {0}
    BY SpaceSize, Zenon
  <1> HIDE DEF M
  <1>2. a \in 0 .. M - 1 /\ p \in 0 .. M - 1
    BY Zenon DEF Address, M
  <1>3. (a - p) % M \in 0 .. M - 1
    BY <1>1, <1>2, Division
  <1>4. (((a - p) % M) + p) % M = ((a - p) + p) % M
    <2>1. a - p \in Int /\ p \in Int
      BY <1>2
    <2> QED
      BY <1>1, <2>1, WrappedSum, Zenon
  <1>5. a % M = a
    BY <1>1, <1>2, SmallRemainder, Zenon
  <1>6. (a - p) + p = a /\ ((a - p) % M) + p = p + ((a - p) % M)
    BY <1>2, <1>3
  <1> QED
    BY <1>3, <1>4, <1>5, <1>6, Zenon DEF wrap_sub, Address, M

\* The interworking bit: setting it in the sum of an even address and an addend
\* gives the sum of the odd address and the addend, or one less.
LEMMA ThumbBitFacts ==
    ASSUME NEW a \in Address, NEW b \in Address, a % 2 = 1
    PROVE  LET t == SetBit0(wrap_add(ClearBit0(a), b))
           IN  /\ t \in Address
               /\ t % 2 = 1
               /\ (t - a - b) % AddressSpaceSize \in {0, AddressSpaceSize - 1}
  <1> DEFINE M == AddressSpaceSize
             v == (a - 1 + b) % M
             t == v - (v % 2) + 1
             q == v \div 2
  <1>1. M \in Nat \ {0} /\ \E h \in Nat : M = 2 * h
    BY SpaceSize, Zenon
  <1> HIDE DEF M
  <1>2. a \in 0 .. M - 1 /\ b \in 0 .. M - 1
    BY Zenon DEF Address, M
  <1>3. v \in 0 .. M - 1
    BY <1>1, <1>2, Division
  <1> HIDE DEF v
  <1>4. q \in Nat /\ v = q * 2 + (v % 2) /\ v % 2 \in 0 .. 1
    BY <1>3, Division
  <1>5. \A y \in Int : (v + y) % M = ((a - 1 + b) + y) % M
    <2>1. a - 1 + b \in Int
      BY <1>2
    <2> QED
      BY <1>1, <2>1, WrappedSum, Zenon DEF v
  <1>6. 1 - a - b \in Int /\ 0 - a - b \in Int
    BY <1>2
  <1>7. 0 % M = 0 /\ (-1) % M = M - 1
    <2>1. 0 % M = 0
      BY <1>1, SmallRemainder
    <2>2. ((-1) * M + (M - 1)) % M = M - 1
      BY <1>1, Remainder
    <2> QED
      BY <1>1, <2>1, <2>2
  <1>8. t = q * 2 + 1 /\ (t = v + 1 \/ t = v)
    BY <1>3, <1>4
  <1>9. t \in 0 .. M - 1
    <2>1. PICK h \in Nat : M = 2 * h
      BY <1>1, Zenon
    <2>2. q < h
      BY <1>3, <1>4, <2>1
    <2> QED
      BY <1>4, <1>8, <2>1, <2>2, SMTT(40)
  <1>10. t % 2 = 1
    BY <1>4, <1>8, Remainder, SMTT(40)
  <1>11. (t - a - b) % M \in {0, M - 1}
    <2>1. CASE t = v + 1
      <3>1. t - a - b = v + (1 - a - b) /\ (a - 1 + b) + (1 - a - b) = 0
        BY <2>1, <1>2, <1>3
      <3> QED
        BY <3>1, <1>5, <1>6, <1>7, Zenon
    <2>2. CASE t = v
      <3>1. t - a - b = v + (0 - a - b) /\ (a - 1 + b) + (0 - a - b) = -1
        BY <2>2, <1>2, <1>3
      <3> QED
        BY <3>1, <1>5, <1>6, <1>7, Zenon
    <2> QED
      BY <1>8, <2>1, <2>2, Zenon
  <1>12. t = SetBit0(wrap_add(ClearBit0(a), b))
    BY Zenon DEF SetBit0, ClearBit0, wrap_add, M, v
  <1> QED
    BY <1>9, <1>10, <1>11, <1>12, Zenon DEF Address, M

(***************************************************************************)
(* The preparation.                                                        *)
(***************************************************************************)

\* A reference that passed has a symbol that is defined or weak.
LEMMA ReferenceFacts ==
    ASSUME NEW e, e.symbol_index \in Nat, symbol_bearing_type(e.type),
           ReferenceError(e) = None
    PROVE  /\ Symbols[e.symbol_index].value \in Address
           /\ Symbols[e.symbol_index].lookup \in {None, "SymbolNotFound"}
  <1>1. e.symbol_index \in 1 .. Len(Symbols)
    BY SymbolsAssumption DEF ReferenceError, None
  <1>2. Symbols[e.symbol_index] \in Resolutions
    BY <1>1, SymbolsAssumption
  <1>3. Symbols[e.symbol_index].lookup \in {None, "SymbolNotFound"}
    BY <1>1, SymbolsAssumption, Zenon DEF ReferenceError, None
  <1> QED
    BY <1>2, <1>3, Zenon DEF Resolutions

\* The formulas of compute_final_word give the word that AAELF32 asks for.
LEMMA FinalWordIsRight ==
    ASSUME NEW e, e.symbol_index \in Nat, Place(e) \in Word, mem[Place(e)] \in Address,
           (supported_type(e.type) /\ e.type # "NONE") \/ e.type = "JUMP_SLOT",
           ReferenceError(e) = None
    PROVE  /\ FinalWord(e) \in Address
           /\ RelocatedAs(e, mem[Place(e)], FinalWord(e))
  <1> DEFINE A == mem[Place(e)]
             symbol == Symbols[e.symbol_index]
             S == IF symbol.lookup = None THEN symbol.value ELSE 0
             X == FinalWord(e)
             P == Place(e)
  <1>1. P \in Address /\ A \in Address /\ 0 \in Address
    BY SpaceSize DEF Word, Address
  <1>2. CASE e.type = "RELATIVE"
    <2>1. X = wrap_add(LoadBias, A)
      BY <1>2, Zenon DEF FinalWord
    <2> QED
      BY <1>1, <1>2, <2>1, WrapAddFacts, LoadBiasAssumption, SMTT(40) DEF RelocatedAs
  <1>3. CASE e.type # "RELATIVE"
    <2>1. /\ symbol_bearing_type(e.type)
          /\ e.type \in {"ABS32", "REL32", "GLOB_DAT", "JUMP_SLOT"}
      BY <1>3, Zenon DEF supported_type, symbol_bearing_type
    <2>2. symbol.value \in Address /\ symbol.lookup \in {None, "SymbolNotFound"}
      BY <2>1, ReferenceFacts, Zenon
    <2>3. S \in Address /\ S = IF symbol.lookup = "SymbolNotFound" THEN 0 ELSE symbol.value
      BY <1>1, <2>2, Zenon DEF None
    <2>4. CASE e.type \in {"GLOB_DAT", "JUMP_SLOT"}
      <3>1. X = S
        BY <2>4, Zenon DEF FinalWord
      <3> QED
        BY <2>3, <2>4, <3>1, Zenon DEF RelocatedAs
    <2>5. CASE e.type = "ABS32"
      <3>1. X = wrap_add(S, A)
        BY <2>5, Zenon DEF FinalWord
      <3> QED
        BY <1>1, <2>3, <2>5, <3>1, WrapAddFacts, SMTT(40) DEF RelocatedAs
    <2>6. CASE e.type = "REL32"
      <3> DEFINE thumb == symbol.lookup = None /\ symbol.function /\ symbol.value % 2 = 1
      <3>1. CASE ~thumb
        <4>1. X = wrap_sub(wrap_add(S, A), P)
          BY <2>6, <3>1, Zenon DEF FinalWord
        <4>2. wrap_add(S, A) \in Address /\ (wrap_add(S, A) - A) % AddressSpaceSize = S
          BY <1>1, <2>3, WrapAddFacts, Zenon
        <4>3. X \in Address /\ (P + X) % AddressSpaceSize = wrap_add(S, A)
          BY <1>1, <4>1, <4>2, WrapSubFacts
        <4> QED
          BY <2>2, <2>3, <2>6, <3>1, <4>2, <4>3, Zenon DEF RelocatedAs, None
      <3>2. CASE thumb
        <4> DEFINE t == SetBit0(wrap_add(ClearBit0(S), A))
        <4>1. X = wrap_sub(t, P)
          BY <2>6, <3>2, Zenon DEF FinalWord
        <4>2. /\ t \in Address /\ t % 2 = 1
              /\ (t - S - A) % AddressSpaceSize \in {0, AddressSpaceSize - 1}
          BY <1>1, <2>3, <3>2, ThumbBitFacts, ZenonT(40)
        <4>3. X \in Address /\ (P + X) % AddressSpaceSize = t
          BY <1>1, <4>1, <4>2, WrapSubFacts, SMTT(40)
        <4> QED
          BY <2>3, <2>6, <3>2, <4>2, <4>3, Zenon DEF RelocatedAs, None
      <3> QED
        BY <3>1, <3>2, Zenon
    <2> QED
      BY <2>1, <2>4, <2>5, <2>6, Zenon
  <1> QED
    BY <1>2, <1>3, Zenon

\* The first wrong entry is a wrong entry.
LEMMA LeastIsMember ==
    ASSUME NEW S \in SUBSET Nat, S # {}
    PROVE  Least(S) \in S
  BY LeastNatural, Zenon DEF Least

\* The entries of a table.
LEMMA EntryFacts ==
    ASSUME MachineOK, NEW k \in Kinds
    PROVE  /\ DOMAIN tables[k].entries \in SUBSET (Nat \ {0})
           /\ \A i \in DOMAIN tables[k].entries : tables[k].entries[i] \in RelEntries
           /\ \A i \in DOMAIN tables[k].entries : tables[k].present
  <1>1. tables[k] \in RelTables
    BY Zenon DEF MachineOK
  <1>2. tables[k].entries \in Seq(RelEntries)
    BY <1>1, Zenon DEF RelTables
  <1>3. tables[k].present \/ tables[k].entries = <<>>
    BY Zenon DEF MachineOK
  <1> QED
    BY <1>2, <1>3

\* A plan without error: the targets are words that can be read, and differ.
LEMMA PlanFacts ==
    ASSUME MachineOK, NEW k \in Kinds, NEW options, plan_error(k, options) = None,
           NEW i \in TargetsOf(k)
    PROVE  LET e == tables[k].entries[i]
           IN  /\ Place(e) \in Word
               /\ CanRead(Place(e))
               /\ (supported_type(e.type) /\ e.type # "NONE") \/ e.type = "JUMP_SLOT"
               /\ \A j \in TargetsOf(k) : j < i => Place(tables[k].entries[j]) # Place(e)
  <1> DEFINE entries == tables[k].entries
             bad == {j \in DOMAIN entries : EntryError(entries, j, k) # None}
             e == entries[i]
  <1>1. /\ i \in DOMAIN entries /\ e.type # "NONE"
        /\ TargetsOf(k) \subseteq DOMAIN entries
        /\ \A j \in TargetsOf(k) : entries[j].type # "NONE"
    BY Zenon DEF TargetsOf
  <1>2. DOMAIN entries \in SUBSET (Nat \ {0}) /\ tables[k].present /\ e \in RelEntries
    BY <1>1, EntryFacts, Zenon
  <1>3. bad = {}
    <2> SUFFICES ASSUME bad # {}
                 PROVE  FALSE
      BY Zenon
    <2>1. Least(bad) \in bad
      BY <1>2, LeastIsMember, Zenon
    <2>2. plan_error(k, options) = EntryError(entries, Least(bad), k)
      BY <1>2, Zenon DEF plan_error, None
    <2> QED
      BY <2>1, <2>2, Zenon
  <1>4. EntryError(entries, i, k) = None
    BY <1>1, <1>3, Zenon
  <1>5. /\ Place(e) % WordSize = 0 /\ ~(Place(e) >= AddressSpaceSize) /\ CanRead(Place(e))
        /\ supported_type_for_table(e.type, k)
        /\ ~\E j \in 1 .. i - 1 : entries[j].type # "NONE" /\ Place(entries[j]) = Place(e)
    BY <1>1, <1>4, Zenon DEF EntryError, None
  <1>6. Place(e) \in Word
    <2>1. e.offset \in Nat
      BY <1>2, Zenon DEF RelEntries
    <2> QED
      BY <1>5, <2>1, LoadBiasAssumption, SpaceSize DEF Place, Word, Address
  <1>7. \A j \in TargetsOf(k) : j < i => Place(entries[j]) # Place(e)
    BY <1>1, <1>2, <1>5
  <1> QED
    BY <1>1, <1>5, <1>6, <1>7, Zenon DEF supported_type_for_table

\* A preparation without error.
LEMMA PrepareFacts ==
    ASSUME MachineOK, NEW k \in Kinds, NEW options, prepare_error(k, options).error = None
    PROVE  /\ plan_error(k, options) = None
           /\ \A i \in DOMAIN tables[k].entries : ReferenceError(tables[k].entries[i]) = None
  <1> DEFINE entries == tables[k].entries
             bad == {i \in DOMAIN entries : ReferenceError(entries[i]) # None}
  <1>1. resolve_error(k, options) = None
    BY SMTT(40) DEF prepare_error, Failure, Success, None
  <1>2. plan_error(k, options) = None
    BY <1>1, Zenon DEF resolve_error, None
  <1>3. \A i \in DOMAIN entries : ReferenceError(entries[i]) = None
    <2>1. CASE \A i \in DOMAIN entries : ~symbol_bearing_type(entries[i].type)
      BY <2>1, Zenon DEF ReferenceError
    <2>2. CASE ~\A i \in DOMAIN entries : ~symbol_bearing_type(entries[i].type)
      <3> SUFFICES ASSUME bad # {}
                   PROVE  FALSE
        BY Zenon
      <3>1. Least(bad) \in bad
        BY EntryFacts, LeastIsMember, Zenon
      <3>2. resolve_error(k, options) \in
                {"InvalidOptions", "IndexBuildFailed", ReferenceError(entries[Least(bad)])}
        BY <1>2, <2>2, Zenon DEF resolve_error
      <3> QED
        BY <1>1, <3>1, <3>2, Zenon DEF None
    <2> QED
      BY <2>1, <2>2, Zenon
  <1> QED
    BY <1>2, <1>3, Zenon

\* What a preparation without error leaves pending: one write for each target.
LEMMA PendingFacts ==
    ASSUME RelocationTypeOK, MachineOK, NEW k \in Kinds, NEW options,
           prepare_error(k, options).error = None
    PROVE  /\ Pending(k) \subseteq Writes
           /\ \A w \in Pending(k) :
                 LET e == tables[k].entries[w.relocation_index]
                 IN  /\ w.table = k
                     /\ w.relocation_index \in TargetsOf(k)
                     /\ w.place = Place(e)
                     /\ w.original_word = mem[w.place]
                     /\ RelocatedAs(e, mem[w.place], w.final_word)
                     /\ CanRead(w.place)
           /\ \A w, v \in Pending(k) : w # v => w.place # v.place
           /\ \A i \in TargetsOf(k) :
                 \E w \in Pending(k) : w.table = k /\ w.relocation_index = i
  <1> DEFINE entries == tables[k].entries
             write(i) == [relocation_index |-> i, table |-> k, place |-> Place(entries[i]),
                          original_word |-> mem[Place(entries[i])],
                          final_word |-> FinalWord(entries[i])]
  <1>1. Pending(k) = {write(i) : i \in TargetsOf(k)}
    BY Zenon DEF Pending, TargetsOf
  <1>2. ASSUME NEW i \in TargetsOf(k)
        PROVE  /\ i \in Nat \ {0}
               /\ Place(entries[i]) \in Word
               /\ mem[Place(entries[i])] \in Address
               /\ FinalWord(entries[i]) \in Address
               /\ RelocatedAs(entries[i], mem[Place(entries[i])], FinalWord(entries[i]))
               /\ CanRead(Place(entries[i]))
               /\ \A j \in TargetsOf(k) : j < i => Place(entries[j]) # Place(entries[i])
    <2>1. i \in DOMAIN entries
      BY Zenon DEF TargetsOf
    <2>2. i \in Nat \ {0} /\ entries[i].symbol_index \in Nat
      BY <2>1, EntryFacts, Zenon DEF RelEntries
    <2>3. /\ Place(entries[i]) \in Word
          /\ CanRead(Place(entries[i]))
          /\ (supported_type(entries[i].type) /\ entries[i].type # "NONE")
                \/ entries[i].type = "JUMP_SLOT"
          /\ \A j \in TargetsOf(k) : j < i => Place(entries[j]) # Place(entries[i])
      BY PrepareFacts, PlanFacts, Zenon
    <2>4. ReferenceError(entries[i]) = None
      BY <2>1, PrepareFacts, Zenon
    <2>5. mem[Place(entries[i])] \in Address
      BY <2>3, Zenon DEF RelocationTypeOK
    <2> HIDE DEF entries
    <2> QED
      BY <2>2, <2>3, <2>4, <2>5, FinalWordIsRight, Zenon
  <1> HIDE DEF entries
  <1>3. Pending(k) \subseteq Writes
    BY <1>1, <1>2, SMTT(40) DEF Writes, Address, Word
  <1>4. \A w \in Pending(k) :
            /\ w.table = k
            /\ w.relocation_index \in TargetsOf(k)
            /\ w.place = Place(entries[w.relocation_index])
            /\ w.original_word = mem[w.place]
            /\ RelocatedAs(entries[w.relocation_index], mem[w.place], w.final_word)
            /\ CanRead(w.place)
    BY <1>1, <1>2, SMTT(40)
  <1>5. ASSUME NEW i \in TargetsOf(k), NEW j \in TargetsOf(k), i # j
        PROVE  Place(entries[i]) # Place(entries[j])
    <2>1. i < j \/ j < i
      BY <1>2, <1>5
    <2> QED
      BY <2>1, <1>2, Zenon
  <1>6. \A w, v \in Pending(k) : w # v => w.place # v.place
    BY <1>1, <1>5
  <1>7. ASSUME NEW i \in TargetsOf(k)
        PROVE  \E w \in Pending(k) : w.table = k /\ w.relocation_index = i
    <2>1. write(i) \in Pending(k) /\ write(i).table = k /\ write(i).relocation_index = i
      BY <1>1, Zenon
    <2> QED
      BY <2>1, Zenon
  <1> QED
    BY <1>3, <1>4, <1>6, <1>7, Zenon DEF entries

(***************************************************************************)
(* The steps.                                                              *)
(***************************************************************************)

\* The initial states.
LEMMA InitRelocationInv == RelocationInit => RelocationInv
  <1> SUFFICES ASSUME RelocationInit
               PROVE  RelocationInv
    BY Zenon
  <1> USE DEF RelocationInit, CallInit
  <1>1. RelocationTypeOK
    BY MachinesAssumption, MaxAppliesAssumption, SMTT(40) DEF MachineInit, RelocationTypeOK
  <1>2. MachineOK
    BY MachinesAssumption DEF MachineInit, MachineOK, Kinds
  <1>3. Planned /\ Running /\ Forward /\ Backward /\ Obedient
    BY Zenon DEF Planned, Running, Forward, Backward, Obedient
  <1>4. AppliedExactly /\ FailureLeavesMemory /\ RollbackFailureIsReported
    BY Zenon DEF AppliedExactly, FailureLeavesMemory, RollbackFailureIsReported, Success,
           Failure, None
  <1> QED
    BY <1>1, <1>2, <1>3, <1>4, Zenon DEF RelocationInv

\* A call that starts writing has prepared each of its tables, and no place is
\* a target of both.
LEMMA CallErrorFacts ==
    ASSUME NEW ks \in SUBSET Kinds, NEW options, CallError(ks, options).error = None
    PROVE  /\ \A k \in ks : prepare_error(k, options).error = None
           /\ ks = Kinds => \A w \in Pending("PltRel"), v \in Pending("MainRel") :
                               v.place # w.place
  <1>1. \A k \in ks : prepare_error(k, options).error = None
    BY Zenon DEF CallError, Kinds
  <1>2. ASSUME ks = Kinds
        PROVE  AcrossTables = {}
    BY <1>1, <1>2, Zenon DEF CallError, Failure, None, Kinds
  <1> QED
    BY <1>1, <1>2, Zenon DEF AcrossTables

\* A call that is refused before its first write, or starts writing.
LEMMA ApplyPreserves ==
    ASSUME RelocationInv, NEW ks \in SUBSET Kinds, NEW options, Apply(ks, options)
    PROVE  RelocationInv'
  <1> DEFINE error == CallError(ks, options).error
  <1> USE DEF RelocationInv
  <1>1. MachineOK'
    BY Zenon DEF Apply, objectVars, MachineOK
  <1>2. CASE error # None
    <2>1. RelocationTypeOK'
      BY <1>2, MaxAppliesAssumption DEF Apply, objectVars, RelocationTypeOK
    <2>2. Planned' /\ Running' /\ Forward' /\ Backward' /\ Obedient'
      BY <1>2, Zenon DEF Apply, Planned, Running, Forward, Backward, Obedient
    <2>3. AppliedExactly' /\ FailureLeavesMemory'
      BY <1>2, Zenon DEF Apply, AppliedExactly, FailureLeavesMemory
    <2>4. error # "RollbackFailed"
      BY Zenon DEF CallError, prepare_error, Success, Failure, None
    <2>5. RollbackFailureIsReported'
      BY <2>4, Zenon DEF Apply, RollbackFailureIsReported
    <2> QED
      BY <1>1, <2>1, <2>2, <2>3, <2>5, Zenon
  <1>3. CASE error = None
    <2>1. /\ pending' = UNION {Pending(k) : k \in ks} /\ todo' = pending'
          /\ rpc' = "write" /\ kinds' = ks /\ before' = mem /\ mem' = mem
          /\ UNCHANGED <<mapped, permissions, backend, tables>>
          /\ applied' = {} /\ unrestored' = {} /\ failed' = <<>> /\ rollback' = <<>>
          /\ applies' = applies + 1 /\ applies < MaxApplies
      BY <1>3, Zenon DEF Apply, objectVars
    <2>2. \A k \in ks : prepare_error(k, options).error = None
      BY <1>3, CallErrorFacts, Zenon
    <2>3. \A k \in ks : Pending(k) \subseteq Writes
      BY <2>2, PendingFacts, Zenon
    <2>4. RelocationTypeOK'
      BY <2>1, <2>3, MaxAppliesAssumption, SMTT(40) DEF RelocationTypeOK
    <2>5. ASSUME NEW w \in pending'
          PROVE  IsPlanned(w)'
      <3>1. PICK k \in ks : w \in Pending(k)
        BY <2>1, Zenon
      <3> QED
        BY <2>1, <2>2, <3>1, PendingFacts DEF IsPlanned, TargetsOf, CanRead
    <2>6. ASSUME NEW w \in pending', NEW v \in pending', w # v
          PROVE  w.place # v.place
      <3>1. PICK k \in ks, l \in ks : w \in Pending(k) /\ v \in Pending(l)
        BY <2>1, Zenon
      <3>2. CASE k = l
        BY <2>2, <2>6, <3>1, <3>2, PendingFacts
      <3>3. CASE k # l
        <4>1. /\ ks = Kinds
              /\ \/ k = "MainRel" /\ l = "PltRel"
                 \/ k = "PltRel" /\ l = "MainRel"
          BY <3>3, Zenon DEF Kinds
        <4> QED
          BY <1>3, <3>1, <4>1, CallErrorFacts, Zenon DEF Kinds
      <3> QED
        BY <3>2, <3>3, Zenon
    <2>7. ASSUME NEW k \in ks, NEW i \in TargetsOf(k)
          PROVE  \E w \in pending' : w.table = k /\ w.relocation_index = i
      BY <2>1, <2>2, PendingFacts, SMTT(40)
    <2>8. Planned'
      BY <2>1, <2>5, <2>6, <2>7 DEF Planned, TargetsOf
    <2>9. Running' /\ Forward' /\ Backward' /\ Obedient'
      BY <2>1, Zenon DEF Running, Forward, Backward, Obedient
    <2>10. AppliedExactly' /\ FailureLeavesMemory' /\ RollbackFailureIsReported'
      BY <2>1, Zenon DEF AppliedExactly, FailureLeavesMemory, RollbackFailureIsReported
    <2> QED
      BY <1>1, <2>4, <2>8, <2>9, <2>10, Zenon
  <1> QED
    BY <1>2, <1>3, Zenon

\* Table order is a strict order on the plan.
LEMMA PlanOrder ==
    ASSUME RelocationTypeOK, NEW w \in pending, NEW v \in pending, Before(w, v)
    PROVE  ~Before(v, w) /\ w # v
  BY DEF RelocationTypeOK, Writes, Before, Kinds

\* Storing into one word leaves the others; the word stored is a word.
LEMMA StoreFacts ==
    ASSUME RelocationTypeOK, NEW a \in Word, NEW value \in Address,
           NEW o \in Stores(a, value), mem' = [mem EXCEPT ![a] = o.word]
    PROVE  /\ mem' \in [Word -> Address]
           /\ mem'[a] = o.word
           /\ \A b \in Word \ {a} : mem'[b] = mem[b]
           /\ backend = "Mapped" /\ o.ok => CanWrite(a)
           /\ backend = "Mapped" /\ ~o.ok => o.word = mem[a]
  <1>1. mem[a] \in Address /\ mem \in [Word -> Address]
    BY Zenon DEF RelocationTypeOK
  <1>2. o.word \in Address
    BY <1>1, JunkAssumption DEF Stores
  <1>3. /\ backend = "Mapped" /\ o.ok => CanWrite(a)
        /\ backend = "Mapped" /\ ~o.ok => o.word = mem[a]
    BY DEF Stores
  <1> QED
    BY <1>1, <1>2, <1>3, Zenon

\* The plan does not change while it is carried out.
LEMMA PlanKept ==
    ASSUME Planned, UNCHANGED <<mapped, permissions, backend, tables, pending, kinds, before>>,
           rpc' # "idle" => rpc # "idle"
    PROVE  Planned'
  <1>1. \A k : TargetsOf(k)' = TargetsOf(k)
    BY Zenon DEF TargetsOf
  <1>2. ASSUME NEW w \in pending
        PROVE  IsPlanned(w)'
    <2>1. IsPlanned(w)
      BY Zenon DEF Planned
    <2>2. CanRead(w.place)' = CanRead(w.place)
      BY Zenon DEF CanRead
    <2> QED
      BY <1>1, <2>1, <2>2, Zenon DEF IsPlanned
  <1>3. (\A w \in pending : IsPlanned(w))'
    BY <1>2, Zenon
  <1>4. (\A w, v \in pending : w # v => w.place # v.place)'
    BY Zenon DEF Planned
  <1>5. (rpc # "idle" =>
          \A k \in kinds : \A i \in TargetsOf(k) :
              \E w \in pending : w.table = k /\ w.relocation_index = i)'
    <2> SUFFICES ASSUME rpc # "idle", NEW k \in kinds, NEW i \in TargetsOf(k)
                 PROVE  \E w \in pending : w.table = k /\ w.relocation_index = i
      BY <1>1
    <2> QED
      BY Zenon DEF Planned
  <1> QED
    BY <1>3, <1>4, <1>5, Zenon DEF Planned

\* A write that succeeds.
LEMMA WriteWordPreserves ==
    ASSUME RelocationInv, NEW w \in pending, WriteWord(w)
    PROVE  RelocationInv'
  <1> USE DEF RelocationInv
  <1>1. /\ rpc = "write" /\ rpc' = "write" /\ IsNext(w)
        /\ todo' = todo \ {w} /\ applied' = applied \cup {w}
        /\ UNCHANGED <<mapped, permissions, backend, tables, pending, failed, rollback,
                       result, applies, kinds, before, unrestored>>
    BY Zenon DEF WriteWord, objectVars
  <1>2. w \in Writes /\ w.place \in Word /\ w.final_word \in Address
    BY Zenon DEF RelocationTypeOK, Writes
  <1>3. PICK o \in Stores(w.place, w.final_word) :
            o.ok /\ mem' = [mem EXCEPT ![w.place] = o.word]
    BY Zenon DEF WriteWord
  <1>4. /\ mem' \in [Word -> Address]
        /\ mem'[w.place] = o.word
        /\ \A b \in Word \ {w.place} : mem'[b] = mem[b]
        /\ backend = "Mapped" => CanWrite(w.place) /\ o.word = w.final_word
    <2>1. /\ mem' \in [Word -> Address]
          /\ mem'[w.place] = o.word
          /\ \A b \in Word \ {w.place} : mem'[b] = mem[b]
      BY <1>2, <1>3, StoreFacts, Zenon
    <2>2. backend = "Mapped" => CanWrite(w.place)
      BY <1>2, <1>3, StoreFacts, Zenon
    <2>3. backend = "Mapped" => o.word = w.final_word
      BY <2>2 DEF Stores
    <2> QED
      BY <2>1, <2>2, <2>3, Zenon
  <1>5. w \in todo /\ \A v \in todo \ {w} : Before(w, v)
    BY <1>1, Zenon DEF IsNext
  <1>6. RelocationTypeOK' /\ MachineOK'
    BY <1>1, <1>4, Zenon DEF RelocationTypeOK, MachineOK
  <1>7. Planned'
    BY <1>1, PlanKept
  <1>8. Running'
    <2>1. \A a \in Word \ Touched : mem[a] = before[a]
      BY <1>1, Zenon DEF Running
    <2>2. Touched \cup {w.place} \subseteq Touched'
      BY <1>1, Zenon DEF Touched
    <2> QED
      BY <1>1, <1>4, <2>1, <2>2, Zenon DEF Running
  <1>9. Forward' /\ Backward'
    BY <1>1, <1>5, Zenon DEF Forward, Backward, RelocationTypeOK, Before
  <1>10. Obedient'
    <2>1. ASSUME backend = "Mapped", NEW v \in applied
          PROVE  v.place \in Word \ {w.place}
      BY <1>1, <1>5, <2>1 DEF Forward, Planned, RelocationTypeOK, Writes
    <2> QED
      BY <1>1, <1>4, <2>1, Zenon DEF Obedient, CanWrite
  <1>11. AppliedExactly' /\ FailureLeavesMemory' /\ RollbackFailureIsReported'
    BY <1>1, Zenon DEF AppliedExactly, FailureLeavesMemory, RollbackFailureIsReported
  <1> QED
    BY <1>6, <1>7, <1>8, <1>9, <1>10, <1>11, Zenon

\* A write that fails, having stored something or not.
LEMMA WriteFailsPreserves ==
    ASSUME RelocationInv, NEW w \in pending, WriteFails(w)
    PROVE  RelocationInv'
  <1> USE DEF RelocationInv
  <1>1. /\ rpc = "write" /\ rpc' = "check" /\ IsNext(w) /\ failed' = <<w>>
        /\ UNCHANGED <<mapped, permissions, backend, tables, pending, todo, applied,
                       rollback, result, applies, kinds, before, unrestored>>
    BY Zenon DEF WriteFails, objectVars
  <1>2. w \in Writes /\ w.place \in Word /\ w.final_word \in Address
    BY Zenon DEF RelocationTypeOK, Writes
  <1>3. PICK o \in Stores(w.place, w.final_word) :
            ~o.ok /\ mem' = [mem EXCEPT ![w.place] = o.word]
    BY Zenon DEF WriteFails
  <1>4. /\ mem' \in [Word -> Address]
        /\ mem'[w.place] = o.word
        /\ \A b \in Word \ {w.place} : mem'[b] = mem[b]
        /\ backend = "Mapped" => o.word = mem[w.place]
    BY <1>2, <1>3, StoreFacts, Zenon
  <1>5. w \in todo /\ w \notin applied
    BY <1>1, Zenon DEF IsNext, Forward
  <1>6. RelocationTypeOK' /\ MachineOK'
    BY <1>1, <1>4, Zenon DEF RelocationTypeOK, MachineOK
  <1>7. Planned'
    BY <1>1, PlanKept, Zenon
  <1>8. Running'
    BY <1>1, <1>4, Zenon DEF Running, Touched
  <1>9. Forward' /\ Backward'
    BY <1>1, Zenon DEF Forward, Backward, IsNext
  <1>10. Obedient'
    <2>1. ASSUME NEW v \in applied
          PROVE  v.place \in Word \ {w.place}
      BY <1>5, <2>1 DEF Planned, RelocationTypeOK, Writes
    <2>2. ASSUME backend = "Mapped"
          PROVE  mem[w.place] = w.original_word
      <3>1. w.place \notin Touched
        BY <1>1, <2>1, Zenon DEF Touched, Forward
      <3>2. mem[w.place] = before[w.place]
        BY <1>1, <1>2, <3>1, Zenon DEF Running
      <3> QED
        BY <3>2, Zenon DEF Planned, IsPlanned
    <2> QED
      BY <1>1, <1>4, <2>1, <2>2, Zenon DEF Obedient, CanWrite
  <1>11. AppliedExactly' /\ FailureLeavesMemory' /\ RollbackFailureIsReported'
    BY <1>1, Zenon DEF AppliedExactly, FailureLeavesMemory, RollbackFailureIsReported
  <1> QED
    BY <1>6, <1>7, <1>8, <1>9, <1>10, <1>11, Zenon

\* The places of the plan differ from each other.
LEMMA OtherPlaces ==
    ASSUME RelocationTypeOK, Planned, NEW w \in pending, NEW v \in applied, v # w
    PROVE  v.place \in Word \ {w.place}
  BY DEF Planned, RelocationTypeOK, Writes

\* restore_word: the word is the original again, or the place is recorded as not
\* restored.  On memory that obeys its permissions it is the original.
LEMMA RestoreWordFacts ==
    ASSUME RelocationTypeOK, Planned, NEW w \in pending, RestoreWord(w)
    PROVE  /\ mem' \in [Word -> Address]
           /\ \A b \in Word \ {w.place} : mem'[b] = mem[b]
           /\ \/ mem'[w.place] = before[w.place] /\ UNCHANGED <<rollback, unrestored>>
              \/ /\ unrestored' = unrestored \cup {w.place}
                 /\ rollback' = IF rollback # <<>> THEN rollback ELSE <<w>>
                 /\ backend = "Mapped" => ~CanWrite(w.place)
  <1>1. w.place \in Word /\ w.original_word \in Address
    BY Zenon DEF RelocationTypeOK, Writes
  <1>2. w.original_word = before[w.place] /\ CanRead(w.place)
    BY Zenon DEF Planned, IsPlanned
  <1>3. PICK o \in Stores(w.place, w.original_word), readable \in Reads(w.place) :
            LET ok == o.ok /\ readable /\ o.word = w.original_word
            IN  /\ mem' = [mem EXCEPT ![w.place] = o.word]
                /\ rollback' = IF ok \/ rollback # <<>> THEN rollback ELSE <<w>>
                /\ unrestored' = IF ok THEN unrestored ELSE unrestored \cup {w.place}
    BY Zenon DEF RestoreWord
  <1>4. /\ mem' \in [Word -> Address]
        /\ mem'[w.place] = o.word
        /\ \A b \in Word \ {w.place} : mem'[b] = mem[b]
    BY <1>1, <1>3, StoreFacts, Zenon
  <1>5. backend = "Mapped" /\ CanWrite(w.place)
            => o.ok /\ o.word = w.original_word /\ readable
    BY <1>2 DEF Reads, Stores
  <1>6. CASE o.ok /\ readable /\ o.word = w.original_word
    BY <1>2, <1>3, <1>4, <1>6, Zenon
  <1>7. CASE ~(o.ok /\ readable /\ o.word = w.original_word)
    BY <1>2, <1>3, <1>4, <1>5, <1>7, Zenon
  <1> QED
    BY <1>4, <1>6, <1>7, Zenon

\* The target of the write that failed is looked at, and restored if need be.
LEMMA CheckFailedTargetPreserves ==
    ASSUME RelocationInv, CheckFailedTarget
    PROVE  RelocationInv'
  <1> USE DEF RelocationInv
  <1>1. /\ rpc = "check" /\ rpc' = "undo"
        /\ UNCHANGED <<mapped, permissions, backend, tables, pending, todo, applied, failed,
                       result, applies, kinds, before>>
    BY Zenon DEF CheckFailedTarget, objectVars
  <1>2. PICK w \in pending : failed = <<w>> /\ IsNext(w)
    BY <1>1, Zenon DEF Backward
  <1>3. /\ w \in todo /\ w \notin applied /\ w.place \in Word
        /\ w.original_word = before[w.place] /\ CanRead(w.place)
    BY <1>1, <1>2, Zenon DEF IsNext, Forward, RelocationTypeOK, Writes, Planned, IsPlanned
  <1>4. /\ mem' \in [Word -> Address]
        /\ \A b \in Word \ {w.place} : mem'[b] = mem[b]
        /\ \/ mem'[w.place] = before[w.place] /\ UNCHANGED <<rollback, unrestored>>
           \/ /\ unrestored' = unrestored \cup {w.place}
              /\ rollback' = IF rollback # <<>> THEN rollback ELSE <<w>>
              /\ backend # "Mapped"
    <2>1. CASE /\ TRUE \in Reads(failed[1].place)
               /\ mem[failed[1].place] = failed[1].original_word
               /\ UNCHANGED <<mem, rollback, unrestored>>
      BY <1>2, <1>3, <2>1, Zenon DEF RelocationTypeOK
    <2>2. CASE /\ \/ FALSE \in Reads(failed[1].place)
                  \/ mem[failed[1].place] # failed[1].original_word
               /\ RestoreWord(failed[1])
      <3>1. backend # "Mapped"
        BY <1>1, <1>2, <1>3, <2>2, Zenon DEF Reads, Obedient
      <3> QED
        BY <1>2, <2>2, <3>1, RestoreWordFacts, Zenon
    <2> QED
      BY <2>1, <2>2, Zenon DEF CheckFailedTarget
  <1>5. unrestored = {} /\ rollback = <<>>
    BY <1>1, Zenon DEF Forward
  <1>6. RelocationTypeOK' /\ MachineOK'
    BY <1>1, <1>3, <1>4, Zenon DEF RelocationTypeOK, MachineOK
  <1>7. Planned'
    BY <1>1, PlanKept
  <1>8. Running'
    BY <1>1, <1>2, <1>3, <1>4, Zenon DEF Running, Touched
  <1>9. Forward'
    BY <1>1, Zenon DEF Forward
  <1>10. Backward'
    <2>1. ASSUME rollback' = <<w>>, NEW v \in pending, Before(w, v)
          PROVE  v \notin applied /\ v.place # w.place
      <3>1. ~Before(v, w) /\ v # w
        BY <2>1, PlanOrder, Zenon
      <3> QED
        BY <1>1, <1>3, <3>1, Zenon DEF Forward, Planned
    <2>2. CASE UNCHANGED <<rollback, unrestored>>
      BY <1>1, <1>2, <1>5, <2>2, Zenon DEF Backward
    <2>3. CASE unrestored' = {w.place} /\ rollback' = <<w>>
      BY <1>1, <1>2, <2>1, <2>3, Zenon DEF Backward
    <2> QED
      BY <1>4, <1>5, <2>2, <2>3, Zenon
  <1>11. Obedient'
    BY <1>1, <1>3, <1>4, <1>5, OtherPlaces, Zenon DEF Obedient, CanWrite
  <1>12. AppliedExactly' /\ FailureLeavesMemory' /\ RollbackFailureIsReported'
    BY <1>1, Zenon DEF AppliedExactly, FailureLeavesMemory, RollbackFailureIsReported
  <1> QED
    BY <1>6, <1>7, <1>8, <1>9, <1>10, <1>11, <1>12, SMTT(40)

\* The last write that is still applied is undone.
LEMMA UndoPreserves ==
    ASSUME RelocationInv, NEW w \in pending, Undo(w)
    PROVE  RelocationInv'
  <1> USE DEF RelocationInv
  <1>1. /\ rpc = "undo" /\ rpc' = "undo" /\ IsLast(w) /\ applied' = applied \ {w}
        /\ UNCHANGED <<mapped, permissions, backend, tables, pending, todo, failed,
                       result, applies, kinds, before>>
    BY Zenon DEF Undo, objectVars
  <1>2. w \in applied /\ w.place \in Word /\ \A v \in applied \ {w} : Before(v, w)
    BY <1>1, Zenon DEF IsLast, RelocationTypeOK, Writes
  <1>3. backend = "Mapped" => CanWrite(w.place)
    BY <1>1, <1>2, Zenon DEF Obedient
  <1>4. /\ mem' \in [Word -> Address]
        /\ \A b \in Word \ {w.place} : mem'[b] = mem[b]
        /\ \/ mem'[w.place] = before[w.place] /\ UNCHANGED <<rollback, unrestored>>
           \/ /\ unrestored' = unrestored \cup {w.place}
              /\ rollback' = IF rollback # <<>> THEN rollback ELSE <<w>>
              /\ backend # "Mapped"
    BY <1>3, RestoreWordFacts, Zenon DEF Undo
  <1>5. RelocationTypeOK' /\ MachineOK'
    BY <1>1, <1>2, <1>4, Zenon DEF RelocationTypeOK, MachineOK
  <1>6. Planned'
    BY <1>1, PlanKept, Zenon
  <1>7. Running'
    <2>1. \A a \in Word \ Touched : mem[a] = before[a]
      BY <1>1, Zenon DEF Running
    <2>2. Touched \subseteq Touched' \cup {w.place}
      BY <1>1, <1>4, Zenon DEF Touched
    <2>3. mem'[w.place] = before[w.place] \/ w.place \in Touched'
      BY <1>4, Zenon DEF Touched
    <2> QED
      BY <1>1, <1>4, <2>1, <2>2, <2>3, Zenon DEF Running
  <1>8. Forward'
    BY <1>1, Zenon DEF Forward
  <1>9. Backward'
    <2>1. CASE UNCHANGED <<rollback, unrestored>>
      BY <1>1, <2>1, Zenon DEF Backward
    <2>2. CASE /\ unrestored' = unrestored \cup {w.place}
               /\ rollback # <<>> /\ rollback' = rollback
      <3>1. ASSUME NEW v \in pending, Before(rollback[1], v)
            PROVE  v \notin applied' /\ v.place \notin unrestored'
        <4>1. v \notin applied /\ v.place \notin unrestored
          BY <1>1, <2>2, <3>1, Zenon DEF Backward
        <4> QED
          BY <1>1, <1>2, <2>2, <4>1, Zenon DEF Planned
      <3> QED
        BY <1>1, <2>2, <3>1, Zenon DEF Backward
    <2>3. CASE /\ unrestored' = unrestored \cup {w.place}
               /\ rollback = <<>> /\ rollback' = <<w>>
      <3>1. unrestored' = {w.place}
        BY <1>1, <2>3, Zenon DEF Backward
      <3>2. ASSUME NEW v \in pending, Before(w, v)
            PROVE  v \notin applied' /\ v.place # w.place
        <4>1. ~Before(v, w) /\ v # w
          BY <3>2, PlanOrder, Zenon
        <4> QED
          BY <1>1, <1>2, <4>1, Zenon DEF Planned
      <3> QED
        BY <1>1, <2>3, <3>1, <3>2, Zenon DEF Backward
    <2> QED
      BY <1>4, <2>1, <2>2, <2>3, Zenon
  <1>10. Obedient'
    BY <1>1, <1>4, OtherPlaces, Zenon DEF Obedient, CanWrite
  <1>11. AppliedExactly' /\ FailureLeavesMemory' /\ RollbackFailureIsReported'
    BY <1>1, Zenon DEF AppliedExactly, FailureLeavesMemory, RollbackFailureIsReported
  <1> QED
    BY <1>5, <1>6, <1>7, <1>8, <1>9, <1>10, <1>11, Zenon

\* The call returns, with all its writes done or with what the rollback left.
LEMMA ReturnPreserves ==
    ASSUME RelocationInv, Return
    PROVE  RelocationInv'
  <1> USE DEF RelocationInv
  <1>1. /\ rpc' = "idle" /\ pending' = {} /\ todo' = {} /\ applied' = {}
        /\ failed' = <<>> /\ rollback' = <<>>
        /\ UNCHANGED <<mapped, permissions, backend, tables, mem, applies, kinds, before,
                       unrestored>>
    BY Zenon DEF Return, objectVars
  <1>2. RelocationTypeOK' /\ MachineOK'
    BY <1>1, Zenon DEF RelocationTypeOK, MachineOK
  <1>3. Planned' /\ Running' /\ Forward' /\ Backward' /\ Obedient'
    BY <1>1, Zenon DEF Planned, Running, Forward, Backward, Obedient
  <1>4. CASE rpc = "write" /\ todo = {} /\ result' = Success(pending)
    <2>1. applied = pending /\ unrestored = {}
      BY <1>4, Zenon DEF Forward, RelocationTypeOK
    <2>2. result'.error = None
      BY <1>4, Zenon DEF Success, Failure
    <2>3. ASSUME backend = "Mapped", NEW k \in kinds, NEW i \in TargetsOf(k)
          PROVE  LET e == tables[k].entries[i] IN RelocatedAs(e, before[Place(e)], mem[Place(e)])
      <3>1. PICK w \in pending : w.table = k /\ w.relocation_index = i
        BY <1>4 DEF Planned
      <3>2. /\ IsPlanned(w) /\ mem[w.place] = w.final_word
        BY <1>4, <2>1, <2>3, Zenon DEF Planned, Obedient
      <3> QED
        BY <3>1, <3>2, Zenon DEF IsPlanned
    <2>4. ASSUME NEW a \in Word, mem[a] # before[a]
          PROVE  \E k \in kinds : \E i \in TargetsOf(k) : Place(tables[k].entries[i]) = a
      <3>1. a \in Touched
        BY <1>4, <2>4, Zenon DEF Running
      <3>2. PICK w \in pending : w.place = a
        BY <1>4, <2>1, <3>1, Zenon DEF Touched
      <3>3. IsPlanned(w)
        BY Zenon DEF Planned
      <3> QED
        BY <3>2, <3>3, Zenon DEF IsPlanned
    <2>5. AppliedExactly'
      BY <1>1, <2>3, <2>4, Zenon DEF AppliedExactly, TargetsOf
    <2>6. FailureLeavesMemory' /\ RollbackFailureIsReported'
      BY <2>2, Zenon DEF FailureLeavesMemory, RollbackFailureIsReported, None
    <2> QED
      BY <1>2, <1>3, <2>5, <2>6, Zenon
  <1>5. CASE rpc = "undo" /\ applied = {} /\ rpc # "write"
    <2>1. /\ result'.error = IF rollback = <<>> THEN "TargetWriteFailed" ELSE "RollbackFailed"
          /\ result'.primary_error = "TargetWriteFailed"
          /\ result'.rollback_failing = rollback
      BY <1>5, Zenon DEF Return, Failure
    <2>2. \A a \in Word \ unrestored : mem[a] = before[a]
      BY <1>5, Zenon DEF Running, Touched
    <2>3. AppliedExactly'
      BY <2>1, Zenon DEF AppliedExactly, None
    <2>4. FailureLeavesMemory'
      <3>1. CASE rollback = <<>>
        <4>1. unrestored = {}
          BY <1>5, <3>1, Zenon DEF Backward
        <4>2. mem = before
          BY <2>2, <4>1, SMTT(40) DEF RelocationTypeOK
        <4> QED
          BY <1>1, <4>2, Zenon DEF FailureLeavesMemory
      <3>2. CASE rollback # <<>>
        <4>1. backend = "Faulty"
          BY <1>5, <3>2, Zenon DEF Backward, Obedient, MachineOK
        <4> QED
          BY <1>1, <2>1, <3>2, <4>1, Zenon DEF FailureLeavesMemory
      <3> QED
        BY <3>1, <3>2
    <2>5. ASSUME rollback # <<>>
          PROVE  /\ Len(rollback) = 1
                 /\ rollback[1].place \in unrestored
                 /\ \A k \in kinds : \A i \in TargetsOf(k) :
                       Before(rollback[1], [table |-> k, relocation_index |-> i])
                         => mem[Place(tables[k].entries[i])] = before[Place(tables[k].entries[i])]
      <3>1. PICK r \in pending : rollback = <<r>>
        BY <2>5, Zenon DEF RelocationTypeOK
      <3>2. /\ r.place \in unrestored
            /\ \A v \in pending : Before(r, v) => v.place \notin unrestored
        BY <1>5, <2>5, <3>1, Zenon DEF Backward
      <3>3. ASSUME NEW k \in kinds, NEW i \in TargetsOf(k),
                   Before(r, [table |-> k, relocation_index |-> i])
            PROVE  mem[Place(tables[k].entries[i])] = before[Place(tables[k].entries[i])]
        <4>1. PICK w \in pending : w.table = k /\ w.relocation_index = i
          BY <1>5, Zenon DEF Planned
        <4>2. Before(r, w)
          BY <3>3, <4>1, Zenon DEF Before
        <4>3. w.place \in Word \ unrestored /\ w.place = Place(tables[k].entries[i])
          BY <3>2, <4>1, <4>2, Zenon DEF RelocationTypeOK, Writes, Planned, IsPlanned
        <4> QED
          BY <2>2, <4>3, Zenon
      <3> QED
        BY <3>1, <3>2, <3>3, Zenon
    <2>6. RollbackFailureIsReported'
      BY <1>1, <2>1, <2>2, <2>5, ZenonT(40) DEF RollbackFailureIsReported, TargetsOf
    <2> QED
      BY <1>2, <1>3, <2>3, <2>4, <2>6, Zenon
  <1> QED
    BY <1>4, <1>5, Zenon DEF Return

(***************************************************************************)
(* The theorems.                                                           *)
(***************************************************************************)

\* Every step keeps the invariant.
LEMMA NextRelocationInv == RelocationInv /\ [RelocationNext]_relocVars => RelocationInv'
  <1> SUFFICES ASSUME RelocationInv, [RelocationNext]_relocVars
               PROVE  RelocationInv'
    BY Zenon
  <1>1. ASSUME NEW ks \in SUBSET Kinds \ {{}}, NEW options \in RelOptions, Apply(ks, options)
        PROVE  RelocationInv'
    BY <1>1, ApplyPreserves, Zenon
  <1>2. ASSUME NEW w \in pending, WriteWord(w)
        PROVE  RelocationInv'
    BY <1>2, WriteWordPreserves, Zenon
  <1>3. ASSUME NEW w \in pending, WriteFails(w)
        PROVE  RelocationInv'
    BY <1>3, WriteFailsPreserves, SMTT(40)
  <1>4. ASSUME NEW w \in pending, Undo(w)
        PROVE  RelocationInv'
    BY <1>4, UndoPreserves
  <1>5. CASE UNCHANGED relocVars
    <2> USE <1>5 DEF relocVars, objectVars, callVars, RelocationInv
    <2>1. RelocationTypeOK' /\ MachineOK'
      BY Zenon DEF RelocationTypeOK, MachineOK
    <2>2. Planned'
      BY PlanKept, Zenon
    <2>3. Running' /\ Forward' /\ Backward'
      BY Zenon DEF Running, Touched, Forward, Backward, IsNext
    <2>4. Obedient'
      BY Zenon DEF Obedient, CanWrite
    <2>5. AppliedExactly' /\ FailureLeavesMemory' /\ RollbackFailureIsReported'
      BY Zenon DEF AppliedExactly, FailureLeavesMemory, RollbackFailureIsReported, TargetsOf
    <2> QED
      BY <2>1, <2>2, <2>3, <2>4, <2>5, Zenon
  <1> QED
    BY <1>1, <1>2, <1>3, <1>4, <1>5, CheckFailedTargetPreserves, ReturnPreserves, Zenon
       DEF RelocationNext, RelocationStep

\* Every behaviour keeps the invariant.
LEMMA RelocationInvHolds == RelocationSpec => []RelocationInv
  BY InitRelocationInv, NextRelocationInv, PTL DEF RelocationSpec

\* The state of a relocation call is always of its type: no final word, original
\* word or place that apply_pending_relocations handles leaves the address space.
THEOREM RelocationTypeCorrect == RelocationSpec => []RelocationTypeOK
  <1>1. RelocationInv => RelocationTypeOK
    BY Zenon DEF RelocationInv
  <1> QED
    BY <1>1, RelocationInvHolds, PTL

\* A call that succeeds on memory that obeys its permissions leaves at each
\* target the word that its relocation asks for and changes no other word, for
\* all tables, symbols, load biases and contents of memory.
THEOREM RelocationsAreExact == RelocationSpec => []AppliedExactly
  <1>1. RelocationInv => AppliedExactly
    BY Zenon DEF RelocationInv
  <1> QED
    BY <1>1, RelocationInvHolds, PTL

\* A call that fails leaves memory as it found it, unless it says that its
\* rollback failed, which memory that obeys its permissions never makes it say.
THEOREM FailedCallUndone == RelocationSpec => []FailureLeavesMemory
  <1>1. RelocationInv => FailureLeavesMemory
    BY Zenon DEF RelocationInv
  <1> QED
    BY <1>1, RelocationInvHolds, PTL

\* A rollback that failed is reported whole: the words that differ are among
\* those whose restoration was not verified, and what is named is the last of
\* them in table order.
THEOREM FailedRollbackReported == RelocationSpec => []RollbackFailureIsReported
  <1>1. RelocationInv => RollbackFailureIsReported
    BY Zenon DEF RelocationInv
  <1> QED
    BY <1>1, RelocationInvHolds, PTL

=============================================================================
