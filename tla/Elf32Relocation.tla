-------------------------- MODULE Elf32Relocation --------------------------
(***************************************************************************)
(* Relocation of one loaded object (elf/linking/elf32_relocation.cpp): the *)
(* three entry points apply_elf32_rel_relocations,                         *)
(* apply_elf32_plt_rel_relocations and apply_elf32_combined_relocations.   *)
(* A call reads its tables and computes every final word before it writes  *)
(* the first one; when a write fails it restores what it wrote in reverse. *)
(*                                                                         *)
(* Guest words live at the multiples of WordSize, and their values are     *)
(* addresses: AddressSpaceSize stands for 2^32 in both roles, so sums of   *)
(* words wrap at it.  What reading a relocation, its symbol and its name   *)
(* shows, and what the graph lookup answers, are the fields of the entries *)
(* and of Symbols.                                                         *)
(*                                                                         *)
(* A call goes through the GuestMemory interface, whose write only returns *)
(* a bool.  A "Mapped" backend behaves as HostGuestMemory does             *)
(* (permissions decide, a refused write stores nothing).  On a "Faulty"    *)
(* one a write may fail, may fail after it has stored something, or may    *)
(* claim a success it did not have: what the verified rollback is there    *)
(* for.                                                                    *)
(***************************************************************************)
EXTENDS AddressSpace, FiniteSets, Sequences

CONSTANTS
    LoadBias,       \* load.load_bias of the object
    Machines,       \* backend, tables and memory that a behaviour may start with
    Symbols,        \* what its dynamic symbols 1, 2, ... resolve to
    IndexError,     \* the error of build_elf32_symbol_index, or "None"
    RelOptions,     \* Elf32RelocationOptions callers pass
    Junk,           \* values a faulty write may leave behind
    MaxApplies      \* bound on calls

WordSize == 4

ASSUME WordAssumption == PageSize % WordSize = 0
ASSUME LoadBiasAssumption == LoadBias \in Address
ASSUME MaxAppliesAssumption == MaxApplies \in Nat
ASSUME JunkAssumption == Junk \subseteq Address
\* What a dynamic symbol resolves to.
Resolutions ==
    [value : Address, function : BOOLEAN, weak : BOOLEAN, lookup : STRING, defect : STRING]

ASSUME SymbolsAssumption == Symbols \in Seq(Resolutions)

VARIABLES
    mapped, permissions,    \* the pages, as in Elf32Relro
    mem,            \* word address -> word
    backend,        \* "Mapped" or "Faulty"
    tables,         \* the object's tables: "MainRel" and "PltRel"
    rpc,            \* "idle", "write", "check" or "undo"
    pending,        \* the planned writes
    todo,           \* planned writes the loop has not reached
    applied,        \* writes done and not rolled back
    failed,         \* the write that failed, as a sequence
    rollback,       \* the first restoration that failed, as a sequence
    result,         \* the result of the last call
    applies,        \* calls made
    kinds,          \* observer: the tables of the call
    before,         \* observer: memory when the call began
    unrestored      \* observer: places whose restoration was not verified

objectVars == <<mapped, permissions, backend, tables>>
callVars == <<rpc, pending, todo, applied, failed, rollback, result, applies, kinds,
              before, unrestored>>

Word == {a \in Address : a % WordSize = 0}

\* A relocation, and a table; one the dynamic section does not name has no entries.
RelEntries == [readable : BOOLEAN, offset : Nat, type : STRING, symbol_index : Nat]
RelTables  == [present : BOOLEAN, well_formed : BOOLEAN, entries : Seq(RelEntries)]

ASSUME MachinesAssumption ==
    \A m \in Machines :
        /\ m.backend \in {"Mapped", "Faulty"}
        /\ \A t \in {m.main, m.plt} : t \in RelTables /\ (t.present \/ t.entries = <<>>)
        /\ m.mapped \subseteq Page
        /\ m.permissions \in [Page -> Permissions]
        /\ m.mem \in [Word -> Address]

None == "None"
Kinds == {"MainRel", "PltRel"}

(***************************************************************************)
(* 32-bit arithmetic and relocation types.                                 *)
(***************************************************************************)
wrap_add(a, b) == (a + b) % AddressSpaceSize
wrap_sub(a, b) == (a - b) % AddressSpaceSize
ClearBit0(a) == a - (a % 2)
SetBit0(a)   == ClearBit0(a) + 1

supported_type(type) == type \in {"NONE", "ABS32", "REL32", "GLOB_DAT", "RELATIVE"}
symbol_bearing_type(type) == type \in {"ABS32", "REL32", "GLOB_DAT", "JUMP_SLOT"}

supported_type_for_table(type, kind) ==
    IF kind = "PltRel" THEN type = "JUMP_SLOT" ELSE supported_type(type)

\* Least index of a set of indices.
Least(S) == CHOOSE i \in S : \A j \in S : i <= j

CanRead(a)  == page_index(a) \in mapped /\ Read \in permissions[page_index(a)]
\* Mutant: a mapped page is taken to be writable.
CanWriteMapped(a) == page_index(a) \in mapped

CanWrite(a) == page_index(a) \in mapped /\ Write \in permissions[page_index(a)]

(***************************************************************************)
(* Preparation: decode and validate the table, resolve its references,     *)
(* compute the final words.  Each of the three looks at the entries in     *)
(* order and stops at the first that is wrong.                             *)
(***************************************************************************)
Place(e) == LoadBias + e.offset

EntryError(entries, i, kind) ==
    LET e == entries[i] IN
    IF ~e.readable THEN "RelocationReadFailed"
    ELSE IF ~supported_type_for_table(e.type, kind) THEN "UnsupportedRelocationType"
    ELSE IF Place(e) >= AddressSpaceSize THEN "PlaceOverflow"
    ELSE IF e.type = "NONE" THEN None
    ELSE IF Place(e) % WordSize # 0 THEN "UnalignedPlace"
    ELSE IF ~CanRead(Place(e)) THEN "TargetReadFailed"
    ELSE IF \E j \in 1 .. i - 1 : entries[j].type # "NONE" /\ Place(entries[j]) = Place(e)
         THEN "DuplicateTarget"
    ELSE None

\* build_relocation_plan_for_table
plan_error(kind, options) ==
    LET table == tables[kind]
        bad   == {i \in DOMAIN table.entries : EntryError(table.entries, i, kind) # None}
    IN  IF ~table.present THEN None
        ELSE IF options.max_relocations = 0 THEN "InvalidOptions"
        ELSE IF ~table.well_formed THEN "RelocationReadFailed"
        ELSE IF Len(table.entries) > options.max_relocations THEN "TooManyRelocations"
        ELSE IF bad = {} THEN None
        ELSE EntryError(table.entries, Least(bad), kind)

\* A reference that is read, named and of a supported kind, and its lookup.
ReferenceError(e) ==
    IF ~symbol_bearing_type(e.type) THEN None
    ELSE IF e.symbol_index = 0 THEN "MissingReferenceSymbol"
    ELSE IF e.symbol_index > Len(Symbols) THEN "SymbolIndexOutOfRange"
    ELSE LET s == Symbols[e.symbol_index] IN
         IF s.defect # None THEN s.defect
         ELSE IF s.lookup = "SymbolNotFound"
              THEN IF s.weak THEN None ELSE "UnresolvedStrongSymbol"
         ELSE IF s.lookup # None THEN "SymbolLookupFailed"
         ELSE None

\* resolve_relocation_references_for_table
resolve_error(kind, options) ==
    LET entries == tables[kind].entries
        bad     == {i \in DOMAIN entries : ReferenceError(entries[i]) # None}
    IN  IF plan_error(kind, options) # None THEN "PlanFailed"
        ELSE IF \A i \in DOMAIN entries : ~symbol_bearing_type(entries[i].type) THEN None
        ELSE IF ~options.symbols_valid THEN "InvalidOptions"
        ELSE IF IndexError # None THEN "IndexBuildFailed"
        ELSE IF bad = {} THEN None
        ELSE ReferenceError(entries[Least(bad)])

\* Mutant: GLOB_DAT adds the word in place, as the other data relocations do.
FinalWordAddend(e) ==
    LET symbol == Symbols[e.symbol_index]
    IN  IF e.type = "RELATIVE" THEN wrap_add(LoadBias, mem[Place(e)])
        ELSE wrap_add(IF symbol.lookup = None THEN symbol.value ELSE 0, mem[Place(e)])

\* The load bias is page-aligned, so the bit 0 that makes a function Thumb is
\* the same in the symbol's value and in its guest address.  B + A, S, S + A
\* or ((S + A) | T) - P.
FinalWord(e) ==
    LET A == mem[Place(e)]
        symbol == Symbols[e.symbol_index]
        S == IF symbol.lookup = None THEN symbol.value ELSE 0
        thumb == symbol.lookup = None /\ symbol.function /\ symbol.value % 2 = 1
    IN  CASE e.type = "RELATIVE" -> wrap_add(LoadBias, A)
          [] e.type \in {"GLOB_DAT", "JUMP_SLOT"} -> S
          [] e.type = "ABS32" -> wrap_add(S, A)
          [] e.type = "REL32" /\ ~thumb -> wrap_sub(wrap_add(S, A), Place(e))
          [] e.type = "REL32" /\ thumb ->
                wrap_sub(SetBit0(wrap_add(ClearBit0(S), A)), Place(e))

Failure(e, i, kind) ==
    [error |-> e, primary_error |-> e, failing_relocation |-> i, failing_table |-> kind,
     rollback_failing |-> <<>>, writes |-> {}]

Success(writes) == [Failure(None, 0, None) EXCEPT !.writes = writes]

\* prepare_relocations_for_table: its error ...
prepare_error(kind, options) ==
    LET entries == tables[kind].entries
        e       == resolve_error(kind, options)
        refs    == {i \in DOMAIN entries : ReferenceError(entries[i]) # None}
        bad     == {i \in DOMAIN entries : entries[i].type = "RELATIVE"
                                             /\ entries[i].symbol_index # 0}
    IN  IF e \in {"PlanFailed", "InvalidOptions", "IndexBuildFailed"}
        THEN Failure("ResolveFailed", 0, kind)
        ELSE IF e # None THEN Failure("ResolveFailed", Least(refs), kind)
        ELSE IF bad # {} THEN Failure("InvalidRelativeSymbol", Least(bad), kind)
        ELSE Success({})

\* ... and the writes it leaves pending.
Pending(kind) ==
    LET entries == tables[kind].entries
    IN  {[relocation_index |-> i, table |-> kind, place |-> Place(entries[i]),
          original_word |-> mem[Place(entries[i])], final_word |-> FinalWord(entries[i])] :
            i \in {j \in DOMAIN entries : entries[j].type # "NONE"}}

\* Writes run in table order, main before PLT.
Before(w, v) ==
    \/ w.table = "MainRel" /\ v.table = "PltRel"
    \/ w.table = v.table /\ w.relocation_index < v.relocation_index

\* PLT entries with a target of the main table.
AcrossTables ==
    {w \in Pending("PltRel") : \E v \in Pending("MainRel") : v.place = w.place}

\* What ends a call before its first write.
CallError(ks, options) ==
    IF "MainRel" \in ks /\ prepare_error("MainRel", options).error # None
    THEN prepare_error("MainRel", options)
    ELSE IF "PltRel" \in ks /\ prepare_error("PltRel", options).error # None
    THEN prepare_error("PltRel", options)
    ELSE IF ks = Kinds /\ AcrossTables # {}
    THEN Failure("DuplicateTargetAcrossTables",
                 Least({w.relocation_index : w \in AcrossTables}), "PltRel")
    ELSE Success({})

(***************************************************************************)
(* The call, with ks the tables it is about.                               *)
(***************************************************************************)
Apply(ks, options) ==
    /\ rpc = "idle"
    /\ applies < MaxApplies
    /\ applies' = applies + 1
    /\ kinds' = ks
    /\ before' = mem
    /\ unrestored' = {}
    /\ failed' = <<>>
    /\ rollback' = <<>>
    /\ applied' = {}
    /\ result' = CallError(ks, options)
    /\ IF CallError(ks, options).error # None
       THEN pending' = {} /\ UNCHANGED rpc
       ELSE pending' = UNION {Pending(k) : k \in ks} /\ rpc' = "write"
    /\ todo' = pending'
    /\ UNCHANGED <<objectVars, mem>>

\* The outcomes of GuestMemory::write of a word, and of reading one.
Stores(a, value) ==
    IF backend = "Mapped"
    THEN {[ok |-> CanWrite(a), word |-> IF CanWrite(a) THEN value ELSE mem[a]]}
    ELSE [ok : BOOLEAN, word : Junk \cup {value, mem[a]}]

Reads(a) == IF backend = "Mapped" THEN {CanRead(a)} ELSE {CanRead(a), FALSE}

IsNext(w) == w \in todo /\ \A v \in todo \ {w} : Before(w, v)
IsLast(w) == w \in applied /\ \A v \in applied \ {w} : Before(v, w)

\* The loop of apply_pending_relocations: a write that succeeds ...
WriteWord(w) ==
    /\ rpc = "write"
    /\ IsNext(w)
    /\ \E o \in Stores(w.place, w.final_word) :
          /\ o.ok
          /\ mem' = [mem EXCEPT ![w.place] = o.word]
    /\ todo' = todo \ {w}
    /\ applied' = applied \cup {w}
    /\ UNCHANGED <<objectVars, rpc, pending, failed, rollback, result, applies,
                   kinds, before, unrestored>>

\* ... and one that fails.
WriteFails(w) ==
    /\ rpc = "write"
    /\ IsNext(w)
    /\ \E o \in Stores(w.place, w.final_word) :
          /\ ~o.ok
          /\ mem' = [mem EXCEPT ![w.place] = o.word]
    /\ failed' = <<w>>
    /\ rpc' = "check"
    /\ UNCHANGED <<objectVars, pending, todo, applied, rollback, result, applies,
                   kinds, before, unrestored>>

\* Mutant: the last restoration that failed is the one recorded.
RestoreWordLast(w) ==
    \E o \in Stores(w.place, w.original_word), readable \in Reads(w.place) :
        LET ok == o.ok /\ readable /\ o.word = w.original_word IN
        /\ mem' = [mem EXCEPT ![w.place] = o.word]
        /\ rollback' = IF ok THEN rollback ELSE <<w>>
        /\ unrestored' = IF ok THEN unrestored ELSE unrestored \cup {w.place}

\* restore_word writes the original back and rereads it; the first one that
\* fails is recorded.
RestoreWord(w) ==
    \E o \in Stores(w.place, w.original_word), readable \in Reads(w.place) :
        LET ok == o.ok /\ readable /\ o.word = w.original_word IN
        /\ mem' = [mem EXCEPT ![w.place] = o.word]
        /\ rollback' = IF ok \/ rollback # <<>> THEN rollback ELSE <<w>>
        /\ unrestored' = IF ok THEN unrestored ELSE unrestored \cup {w.place}

\* Mutant: a failed write is taken to have stored nothing.
CheckFailedTargetTrusts ==
    /\ rpc = "check"
    /\ rpc' = "undo"
    /\ UNCHANGED <<objectVars, mem, pending, todo, applied, failed, rollback, result,
                   applies, kinds, before, unrestored>>

\* A failed write may have stored something: unless the target reads as it was
\* it is restored first.
CheckFailedTarget ==
    /\ rpc = "check"
    /\ \/ /\ TRUE \in Reads(failed[1].place)
          /\ mem[failed[1].place] = failed[1].original_word
          /\ UNCHANGED <<mem, rollback, unrestored>>
       \/ /\ \/ FALSE \in Reads(failed[1].place)
             \/ mem[failed[1].place] # failed[1].original_word
          /\ RestoreWord(failed[1])
    /\ rpc' = "undo"
    /\ UNCHANGED <<objectVars, pending, todo, applied, failed, result, applies,
                   kinds, before>>

Undo(w) ==
    /\ rpc = "undo"
    /\ IsLast(w)
    /\ RestoreWord(w)
    /\ applied' = applied \ {w}
    /\ UNCHANGED <<objectVars, rpc, pending, todo, failed, result, applies, kinds, before>>

Return ==
    /\ \/ /\ rpc = "write" /\ todo = {}
          /\ result' = Success(pending)
       \/ /\ rpc = "undo" /\ applied = {}
          /\ result' = [Failure("TargetWriteFailed", failed[1].relocation_index,
                                failed[1].table)
                         EXCEPT !.error = IF rollback = <<>> THEN "TargetWriteFailed"
                                          ELSE "RollbackFailed",
                                !.rollback_failing = rollback]
    /\ rpc' = "idle"
    /\ pending' = {} /\ todo' = {} /\ applied' = {}
    /\ failed' = <<>> /\ rollback' = <<>>
    /\ UNCHANGED <<objectVars, mem, applies, kinds, before, unrestored>>

(***************************************************************************)
(* The specification.                                                      *)
(***************************************************************************)
MachineInit ==
    \E m \in Machines :
        /\ backend = m.backend
        /\ tables = [k \in Kinds |-> IF k = "MainRel" THEN m.main ELSE m.plt]
        /\ mem = m.mem
        /\ mapped = m.mapped
        /\ permissions = m.permissions

CallInit ==
    /\ rpc = "idle"
    /\ pending = {} /\ todo = {} /\ applied = {} /\ unrestored = {}
    /\ failed = <<>> /\ rollback = <<>>
    /\ result = Success({})
    /\ applies = 0
    /\ kinds = {}
    /\ before = mem

RelocationStep ==
    \/ \E w \in pending : WriteWord(w) \/ WriteFails(w) \/ Undo(w)
    \/ CheckFailedTarget
    \/ Return

RelocationNext ==
    \/ \E ks \in SUBSET Kinds \ {{}}, options \in RelOptions : Apply(ks, options)
    \/ RelocationStep

relocVars == <<objectVars, mem, callVars>>

RelocationInit == MachineInit /\ CallInit

RelocationSpec == RelocationInit /\ [][RelocationNext]_relocVars

(***************************************************************************)
(* Properties.                                                             *)
(***************************************************************************)
Writes ==
    [relocation_index : Nat \ {0}, table : Kinds, place : Word,
     original_word : Address, final_word : Address]

\* Type invariant of the relocation call's state.
RelocationTypeOK ==
    /\ mapped \subseteq Page
    /\ permissions \in [Page -> Permissions]
    /\ mem \in [Word -> Address]
    /\ before \in [Word -> Address]
    /\ rpc \in {"idle", "write", "check", "undo"}
    /\ pending \subseteq Writes
    /\ todo \subseteq pending
    /\ applied \subseteq pending
    /\ unrestored \subseteq Word
    /\ failed \in {<<>>} \cup {<<w>> : w \in pending}
    /\ rollback \in {<<>>} \cup {<<w>> : w \in pending}
    /\ kinds \subseteq Kinds
    /\ applies \in 0 .. MaxApplies

\* The word X at the place of e is what AAELF32 asks for where A was: congruences
\* that the code's wrapping formulas have to satisfy.
RelocatedAs(e, A, X) ==
    LET M == AddressSpaceSize
        symbol == Symbols[e.symbol_index]
        S == IF symbol.lookup = "SymbolNotFound" THEN 0 ELSE symbol.value
        target == (Place(e) + X) % M
    IN  CASE e.type = "RELATIVE" -> (X - A) % M = LoadBias
          [] e.type = "ABS32"    -> (X - A) % M = S
          [] e.type \in {"GLOB_DAT", "JUMP_SLOT"} -> X = S
          [] e.type = "REL32"    ->
                IF symbol.lookup = None /\ symbol.function /\ S % 2 = 1
                THEN target % 2 = 1 /\ (target - S - A) % M \in {0, M - 1}
                ELSE (target - A) % M = S

TargetsOf(k) == {i \in DOMAIN tables[k].entries : tables[k].entries[i].type # "NONE"}

\* A successful call leaves at every target of its tables the word the relocation
\* asks for, computed from what memory held when the call began, and changes no
\* other word (apply_pending_relocations after prepare_relocations_for_table).
AppliedExactly ==
    rpc = "idle" /\ result.error = None /\ backend = "Mapped" =>
        /\ \A k \in kinds : \A i \in TargetsOf(k) :
              LET e == tables[k].entries[i]
              IN  RelocatedAs(e, before[Place(e)], mem[Place(e)])
        /\ \A a \in Word :
              mem[a] # before[a] =>
                 \E k \in kinds : \E i \in TargetsOf(k) : Place(tables[k].entries[i]) = a

\* A call that fails in any way but RollbackFailed leaves memory as it found it,
\* even where writes fail half done or claim a success they did not have: the
\* preparation comes before the first write, and every restoration is verified.
\* On memory that obeys its permissions the rollback itself cannot fail: what
\* could be written once can be written back.
FailureLeavesMemory ==
    rpc = "idle" /\ result.error # None =>
        \/ mem = before
        \/ result.error = "RollbackFailed" /\ backend = "Faulty"

\* RollbackFailed is the whole story: the cause is kept, only words whose
\* restoration could not be verified differ, and the relocation it names is one
\* of those, with every later write of the call restored or never made.
RollbackFailureIsReported ==
    rpc = "idle" /\ result.error = "RollbackFailed" =>
        /\ result.primary_error = "TargetWriteFailed"
        /\ \A a \in Word : mem[a] # before[a] => a \in unrestored
        /\ Len(result.rollback_failing) = 1
        /\ result.rollback_failing[1].place \in unrestored
        /\ \A k \in kinds : \A i \in TargetsOf(k) :
              Before(result.rollback_failing[1], [table |-> k, relocation_index |-> i])
                => mem[Place(tables[k].entries[i])] = before[Place(tables[k].entries[i])]

=============================================================================
