------------------------ MODULE Elf32LinkerMetadata ------------------------
(***************************************************************************)
(* From the dynamic segment of a loaded object to the descriptors of its   *)
(* tables (elf/metadata): parse_elf32_dynamic, build_elf32_linker_metadata *)
(* and build_elf32_linker_strings, which inspect_object of the dependency  *)
(* loader calls one after the other.                                       *)
(*                                                                         *)
(* A dynamic entry is a tag's name and its value.  The metadata maps each  *)
(* table the object has to its guest address and its size (a count, for    *)
(* the version tables).                                                    *)
(***************************************************************************)
EXTENDS Elf32Bytes, SequencesExt

\* The order in which build_elf32_linker_metadata looks at the tables.
Tables ==
    <<"STRTAB", "SYMTAB", "HASH", "GNU_HASH", "VERSYM", "VERDEF", "VERNEED",
      "INIT_ARRAY", "FINI_ARRAY", "REL", "JMPREL">>

SizeTag(table) ==
    CASE table = "STRTAB"     -> "STRSZ"
      [] table = "VERDEF"     -> "VERDEFNUM"
      [] table = "VERNEED"    -> "VERNEEDNUM"
      [] table = "INIT_ARRAY" -> "INIT_ARRAYSZ"
      [] table = "FINI_ARRAY" -> "FINI_ARRAYSZ"
      [] table = "REL"        -> "RELSZ"
      [] table = "JMPREL"     -> "PLTRELSZ"
      [] OTHER                -> "no size"

Singletons ==
    {Tables[i] : i \in DOMAIN Tables}
      \cup ({SizeTag(Tables[i]) : i \in DOMAIN Tables} \ {"no size"})
      \cup {"SYMENT", "RELENT", "PLTREL", "SONAME", "SYMBOLIC", "FLAGS", "FLAGS_1"}

kDtRel == 17

(***************************************************************************)
(* The raw entries, up to and with the first DT_NULL.                      *)
(***************************************************************************)
parse_elf32_dynamic(m, segment) ==
    LET entry(i) == Decoded(m.dynamic, segment.guest_address + (i - 1) * DynSize,
                            [tag |-> "NULL", value |-> 0])
        slots == 1 .. segment.file_size \div DynSize
        unreadable(i) == ~CanRead(m, segment.guest_address + (i - 1) * DynSize, DynSize)
        stops == {i \in slots : unreadable(i) \/ entry(i).tag = "NULL"}
        error == IF \/ segment.file_size > segment.memory_size
                    \/ ~range_fits(segment.guest_address, segment.memory_size)
                 THEN "InvalidRange"
                 ELSE IF segment.file_size % DynSize # 0 THEN "TruncatedEntry"
                 ELSE IF stops = {} THEN "Unterminated"
                 ELSE IF unreadable(Least(stops)) THEN "ReadFailed"
                 ELSE None
    IN  [error |-> error,
         entries |-> IF error # None THEN <<>> 
                     ELSE SubSeq([i \in slots |-> entry(i)], 1, Least(stops))]

(***************************************************************************)
(* What the entries before DT_NULL say: the value of every singleton tag,  *)
(* the offsets of DT_NEEDED in order.                                      *)
(***************************************************************************)
Live(entries) ==
    LET nulls == {i \in DOMAIN entries : entries[i].tag = "NULL"}
    IN  IF nulls = {} THEN entries ELSE SubSeq(entries, 1, Least(nulls) - 1)

Needed(e) == e.tag = "NEEDED"

Collected(entries) ==
    LET live == Live(entries)
        Singleton(e) == e.tag \in Singletons
        single == SelectSeq(live, Singleton)
    IN  [duplicate |-> Cardinality({single[i].tag : i \in DOMAIN single}) < Len(single),
         value  |-> FoldLeft(LAMBDA f, e : f @@ (e.tag :> e.value), <<>>, single),
         needed |-> FoldLeft(LAMBDA seq, e : Append(seq, e.value), <<>>,
                             SelectSeq(live, Needed))]

has(c, tag) == tag \in DOMAIN c.value

collect_elf32_linker_metadata(c) ==
    LET pair_complete(s, t) == has(c, s) <=> has(c, t)
        all_or_none(S) == {t \in S : has(c, t)} \in {{}, S}
        ragged(t) == has(c, t) /\ c.value[t] % WordSize # 0
    IN  IF c.duplicate THEN "DuplicateSingleton"
        ELSE IF \/ ~pair_complete("STRTAB", "STRSZ")
                \/ (has(c, "SONAME") \/ c.needed # <<>>) /\ ~has(c, "STRTAB")
             THEN "IncompleteStringTable"
        ELSE IF ~pair_complete("SYMTAB", "SYMENT") THEN "IncompleteSymbolTable"
        ELSE IF ~all_or_none({"REL", "RELSZ", "RELENT"}) THEN "IncompleteRelTable"
        ELSE IF ~all_or_none({"JMPREL", "PLTRELSZ", "PLTREL"}) THEN "IncompletePltRelTable"
        ELSE IF has(c, "PLTREL") /\ c.value["PLTREL"] # kDtRel THEN "InvalidPltRelType"
        ELSE IF ~pair_complete("INIT_ARRAY", "INIT_ARRAYSZ") THEN "IncompleteInitArray"
        ELSE IF ~pair_complete("FINI_ARRAY", "FINI_ARRAYSZ") THEN "IncompleteFiniArray"
        ELSE IF ragged("INIT_ARRAYSZ") \/ ragged("FINI_ARRAYSZ")
             THEN "InvalidFunctionArraySize"
        ELSE IF ~pair_complete("VERDEF", "VERDEFNUM") THEN "IncompleteVersionDefinitionTable"
        ELSE IF ~pair_complete("VERNEED", "VERNEEDNUM")
             THEN "IncompleteVersionRequirementTable"
        ELSE IF has(c, "VERSYM") /\ ~has(c, "SYMTAB") THEN "IncompleteSymbolTable"
        ELSE IF (has(c, "VERDEF") \/ has(c, "VERNEED")) /\ ~has(c, "STRTAB")
             THEN "IncompleteStringTable"
        ELSE None

(***************************************************************************)
(* Validation against guest memory, one table after the other.             *)
(***************************************************************************)
\* rebase_address, range_fits, readable_range.
RangeError(m, bias, value, extent) ==
    IF ~checked_add_guest_address(bias, value) THEN "AddressOverflow"
    ELSE IF ~range_fits(bias + value, extent) THEN "RangeOverflow"
    ELSE IF ~readable_range(m, bias + value, extent) THEN "ReadFailed"
    ELSE None

StringTableError(m, bias, c) ==
    LET size == c.value["STRSZ"]
    IN  IF \/ has(c, "SONAME") /\ c.value["SONAME"] >= size
           \/ \E i \in DOMAIN c.needed : c.needed[i] >= size
        THEN "StringOffsetOutOfRange"
        ELSE RangeError(m, bias, c.value["STRTAB"], size)

SymbolTableError(m, bias, c) ==
    IF c.value["SYMENT"] # SymbolSize THEN "InvalidSymbolEntrySize"
    ELSE RangeError(m, bias, c.value["SYMTAB"], SymbolSize)

\* Only the header: 2 words of SysV, 4 words of GNU.
HashTableError(m, bias, c, table) ==
    RangeError(m, bias, c.value[table], (IF table = "HASH" THEN 2 ELSE 4) * WordSize)

\* Only the first entry; of the record tables only if they are not empty.
VersionTableError(m, bias, c, table) ==
    LET first == CASE table = "VERSYM"  -> VersymSize
                   [] table = "VERDEF"  -> VerdefSize
                   [] table = "VERNEED" -> VerneedSize
    IN  IF table # "VERSYM" /\ c.value[SizeTag(table)] = 0
        THEN RangeError(m, bias, c.value[table], 0)
        ELSE RangeError(m, bias, c.value[table], first)

FunctionArrayError(m, bias, c, table) ==
    RangeError(m, bias, c.value[table], c.value[SizeTag(table)])

RelTableError(m, bias, c, table) ==
    LET size == c.value[SizeTag(table)]
    IN  IF table = "REL" /\ c.value["RELENT"] # RelSize THEN "InvalidRelEntrySize"
        ELSE IF size % RelSize # 0
             THEN IF table = "REL" THEN "InvalidRelSize" ELSE "InvalidPltRelSize"
        ELSE RangeError(m, bias, c.value[table], size)

TableError(m, bias, c, table) ==
    IF ~has(c, table) THEN None
    ELSE CASE table = "STRTAB" -> StringTableError(m, bias, c)
           [] table = "SYMTAB" -> SymbolTableError(m, bias, c)
           [] table \in {"HASH", "GNU_HASH"} -> HashTableError(m, bias, c, table)
           [] table \in {"VERSYM", "VERDEF", "VERNEED"} -> VersionTableError(m, bias, c, table)
           [] table \in {"INIT_ARRAY", "FINI_ARRAY"} -> FunctionArrayError(m, bias, c, table)
           [] table \in {"REL", "JMPREL"} -> RelTableError(m, bias, c, table)

Bit1(value) == (value \div 2) % 2 = 1

\* DF_SYMBOLIC of DT_FLAGS and DF_1_GLOBAL of DT_FLAGS_1 are both bit 1.
LinkerMetadata(bias, c) ==
    [tables |-> [t \in {Tables[i] : i \in DOMAIN Tables} \cap DOMAIN c.value |->
                    [guest_address |-> bias + c.value[t],
                     size |-> IF has(c, SizeTag(t)) THEN c.value[SizeTag(t)] ELSE 0]],
     soname   |-> IF has(c, "SONAME") THEN <<c.value["SONAME"]>> ELSE <<>>,
     needed   |-> c.needed,
     symbolic |-> has(c, "SYMBOLIC") \/ (has(c, "FLAGS") /\ Bit1(c.value["FLAGS"])),
     global   |-> has(c, "FLAGS_1") /\ Bit1(c.value["FLAGS_1"]),
     has_symbol_versioning |-> \E t \in {"VERSYM", "VERDEF", "VERNEED"} : has(c, t)]

\* An object without a dynamic segment has default metadata and no strings.
NoMetadata ==
    [tables |-> <<>>, soname |-> <<>>, needed |-> <<>>, symbolic |-> FALSE, global |-> FALSE,
     has_symbol_versioning |-> FALSE]
NoStrings == [soname |-> <<>>, needed |-> <<>>]

build_elf32_linker_metadata(m, bias, entries) ==
    LET c     == Collected(entries)
        wrong == {i \in DOMAIN Tables : TableError(m, bias, c, Tables[i]) # None}
        error == IF collect_elf32_linker_metadata(c) # None
                 THEN collect_elf32_linker_metadata(c)
                 ELSE IF wrong = {} THEN None
                 ELSE TableError(m, bias, c, Tables[Least(wrong)])
    IN  [error |-> error,
         metadata |-> IF error = None THEN LinkerMetadata(bias, c) ELSE NoMetadata]

(***************************************************************************)
(* Strings.  The reader inspects at most max_string_bytes + 1 bytes of     *)
(* what is left of the table.  It reads them in chunks of 256, here one.   *)
(***************************************************************************)
has_table(md, table) == table \in DOMAIN md.tables

read_elf32_string_table_entry(m, table, offset, max_string_bytes) ==
    LET start     == table.guest_address + offset
        remaining == table.size - offset
        probe     == IF remaining < max_string_bytes + 1 THEN remaining
                     ELSE max_string_bytes + 1
        char(i)   == Decoded(m.char, start + i, 0)
        nuls      == {i \in 0 .. probe - 1 : char(i) = 0}
        error == IF offset >= table.size THEN "StringOffsetOutOfRange"
                 ELSE IF ~range_fits(start, probe) THEN "AddressOverflow"
                 ELSE IF ~CanRead(m, start, probe) THEN "ReadFailed"
                 ELSE IF nuls # {} THEN None
                 ELSE IF remaining > max_string_bytes THEN "StringTooLong"
                 ELSE "UnterminatedString"
    IN  [error |-> error,
         value |-> IF error = None THEN [i \in 1 .. Least(nuls) |-> char(i - 1)] ELSE <<>>]

build_elf32_linker_strings(m, md, max_string_bytes) ==
    LET offsets == md.soname \o md.needed
        text(i) == read_elf32_string_table_entry(m, md.tables["STRTAB"], offsets[i],
                                                 max_string_bytes)
        wrong   == {i \in DOMAIN offsets : text(i).error # None}
        error   == IF offsets = <<>> THEN None
                   ELSE IF ~has_table(md, "STRTAB") THEN "MissingStringTable"
                   ELSE IF wrong = {} THEN None
                   ELSE text(Least(wrong)).error
        texts   == [i \in DOMAIN offsets |-> text(i).value]
    IN  [error |-> error,
         strings |-> IF error # None THEN NoStrings
                     ELSE [soname |-> SubSeq(texts, 1, Len(md.soname)),
                           needed |-> SubSeq(texts, Len(md.soname) + 1, Len(offsets))]]

=============================================================================
