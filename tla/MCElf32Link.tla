---------------------------- MODULE MCElf32Link ----------------------------
(***************************************************************************)
(* Elf32Link for TLC: pages of one word, a main and a PLT table with       *)
(* targets on all of them, and RELRO descriptors that are disjoint,        *)
(* overlapping, out of order, too many, unaligned, empty or end beyond the *)
(* address space.                                                          *)
(***************************************************************************)
EXTENDS Elf32Link

Rel(offset, type, symbol) ==
    [readable |-> TRUE, offset |-> offset, type |-> type, symbol_index |-> symbol]
Table(entries) == [present |-> TRUE, well_formed |-> TRUE, entries |-> entries]

PageStarts == {p * PageSize : p \in Page}

MCMachines ==
    {[backend |-> "Mapped",
      main |-> Table(<<Rel(0, "RELATIVE", 0), Rel(8, "ABS32", 1)>>),
      plt |-> Table(<<Rel(4, "JUMP_SLOT", 1)>>),
      mem |-> [a \in PageStarts |-> a + 1],
      mapped |-> m, permissions |-> p] :
        m \in SUBSET Page, p \in [Page -> Permissions]}

\* Unmapped pages have no permissions.
MCPossibleMachines ==
    {m \in MCMachines : \A p \in Page \ m.mapped : m.permissions[p] = {}}

MCSymbols == <<[value |-> 7, function |-> FALSE, weak |-> FALSE, lookup |-> "None",
                defect |-> "None"]>>
MCOptions == {[max_relocations |-> 2, symbols_valid |-> TRUE]}

Relro(address, size, start, length) ==
    [guest_address |-> address, memory_size |-> size,
     mapping_start |-> start, mapping_size |-> length]

MCDescriptors ==
    {<<>>,
     <<Relro(1, 10, 0, 12)>>,
     <<Relro(8, 4, 8, 4), Relro(0, 3, 0, 4)>>,
     <<Relro(0, 8, 0, 8), Relro(4, 1, 4, 4)>>,
     <<Relro(0, 8, 0, 8), Relro(8, 4, 8, 4)>>,
     <<Relro(8, 4, 8, 4), Relro(3, 1, 3, 4)>>,
     <<Relro(8, 4, 8, 8)>>,
     <<Relro(8, 5, 8, 4)>>,
     <<Relro(4, 0, 4, 4)>>}

=============================================================================
