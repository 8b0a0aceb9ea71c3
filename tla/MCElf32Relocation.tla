------------------------- MODULE MCElf32Relocation -------------------------
(***************************************************************************)
(* Elf32Relocation for TLC: pages of two words.  The tables hold every     *)
(* relocation type and every way an entry or a table can be wrong; the     *)
(* symbols an object, a Thumb function, a weak and a strong one that       *)
(* nobody defines, one whose lookup fails and one of an unsupported kind.  *)
(***************************************************************************)
EXTENDS Elf32Relocation

Rel(offset, type, symbol) ==
    [readable |-> TRUE, offset |-> offset, type |-> type, symbol_index |-> symbol]

Table(entries) == [present |-> TRUE, well_formed |-> TRUE, entries |-> entries]
NoTable == [present |-> FALSE, well_formed |-> FALSE, entries |-> <<>>]

Symbol(value, function, weak, lookup, defect) ==
    [value |-> value, function |-> function, weak |-> weak, lookup |-> lookup,
     defect |-> defect]

MCSymbols ==
    <<Symbol(10, FALSE, FALSE, None, None),
      Symbol(13, TRUE, FALSE, None, None),
      Symbol(0, FALSE, TRUE, "SymbolNotFound", None),
      Symbol(0, FALSE, FALSE, "SymbolNotFound", None),
      Symbol(0, FALSE, TRUE, "VersionMismatch", None),
      Symbol(9, TRUE, FALSE, None, "UnsupportedReferenceVisibility")>>

Main == Table(<<Rel(0, "RELATIVE", 0), Rel(1, "NONE", 0), Rel(8, "ABS32", 1),
                Rel(12, "REL32", 2)>>)
Plt  == Table(<<Rel(4, "JUMP_SLOT", 2), Rel(16, "JUMP_SLOT", 3)>>)

\* Each page unmapped, mapped without access, readable or writable.
Pages(n) ==
    {m \in [mapped : SUBSET (0 .. n - 1),
            permissions : [Page -> {{}, {Read}, {Read, Write}}]] :
        \A p \in Page \ m.mapped : m.permissions[p] = {}}

Machine(backend_, t, contents, m) ==
    [backend |-> backend_, main |-> t[1], plt |-> t[2], mem |-> contents,
     mapped |-> m.mapped, permissions |-> m.permissions]

MCTables ==
    {<<Main, Plt>>,
     <<Table(<<Rel(4, "GLOB_DAT", 1), Rel(0, "REL32", 3)>>), NoTable>>,
     <<Table(<<Rel(4, "REL32", 1), Rel(16, "ABS32", 3)>>), Plt>>,
     <<Table(<<Rel(0, "RELATIVE", 0), Rel(0, "ABS32", 1)>>), Plt>>,
     <<Table(<<Rel(0, "RELATIVE", 1)>>), Plt>>,
     <<Table(<<Rel(2, "RELATIVE", 0)>>), Table(<<Rel(24, "JUMP_SLOT", 1)>>)>>,
     <<Table(<<Rel(0, "JUMP_SLOT", 1)>>), Table(<<Rel(0, "RELATIVE", 0)>>)>>,
     <<Table(<<Rel(8, "ABS32", 0)>>), Table(<<Rel(0, "JUMP_SLOT", 4)>>)>>,
     <<Table(<<Rel(8, "GLOB_DAT", 5)>>), Table(<<Rel(0, "JUMP_SLOT", 6)>>)>>,
     <<[Main EXCEPT !.well_formed = FALSE], Table(<<Rel(0, "JUMP_SLOT", 7)>>)>>,
     <<Table(<<[Rel(0, "NONE", 0) EXCEPT !.readable = FALSE]>>), Table(<<>>)>>}

\* For the faulty backend: two pages after the load bias, up to three writes.
MCFewTables ==
    {<<Table(<<Rel(0, "RELATIVE", 0), Rel(4, "ABS32", 1)>>),
       Table(<<Rel(8, "JUMP_SLOT", 2)>>)>>,
     <<Table(<<Rel(4, "REL32", 2), Rel(0, "RELATIVE", 0)>>),
       Table(<<Rel(4, "JUMP_SLOT", 3)>>)>>}

MCContents == {[a \in Word |-> (a + 3) % AddressSpaceSize],
               [a \in Word |-> AddressSpaceSize - 1]}
FewContents == [a \in Word |-> IF a = 12 THEN 0 ELSE (a + 3) % AddressSpaceSize]

MCMachines ==
    {Machine("Mapped", t, c, m) : t \in MCTables, c \in MCContents, m \in Pages(NumPages)}
      \cup {Machine("Faulty", t, FewContents, m) :
                t \in MCFewTables, m \in {m \in Pages(3) : 0 \notin m.mapped}}

MCOptions ==
    [max_relocations : {4}, symbols_valid : BOOLEAN]
        \cup [max_relocations : {0, 1}, symbols_valid : {TRUE}]

=============================================================================
