-------------------------- MODULE MCElf32LoadPlan --------------------------
(***************************************************************************)
(* Elf32LoadPlan for TLC: four pages of four cells, headers on and off the *)
(* page boundaries and at the end of the address space.                    *)
(***************************************************************************)
EXTENDS Elf32LoadPlan

R  == {Read}
RW == {Read, Write}
RX == {Read, Execute}

Header(offset, vaddr, filesz, memsz, flags, align) ==
    [offset |-> offset, virtual_address |-> vaddr, file_size |-> filesz,
     memory_size |-> memsz, permissions |-> flags, alignment |-> align]

MCLoadHeaders ==
    {Header(o, v, 2, m, f, 0) :
        o \in {0, 2}, v \in {0, 3, 4, 10}, m \in {2, 6}, f \in {RW, {}}}
    \cup {Header(0, 0, 4, 4, RX, 4), Header(4, 8, 2, 4, RW, 8),
          Header(0, 8, 2, 4, RW, 8), Header(2, 6, 2, 2, R, 2),
          Header(0, 6, 0, 2, R, 6),
          Header(0, 0, 0, 0, {}, 2), Header(0, 12, 0, 4, RX, 1),
          Header(0, 14, 0, 3, R, 0), Header(7, 0, 2, 2, R, 0),
          Header(0, 0, 3, 2, R, 0), Header(0, 0, 2, 2, {Write}, 0),
          Header(0, 0, 2, 2, {Read, Write, Execute}, 0)}

Dynamic(offset, vaddr, filesz, memsz) ==
    [offset |-> offset, virtual_address |-> vaddr, file_size |-> filesz,
     memory_size |-> memsz]

MCDynamicHeaders ==
    {Dynamic(0, 0, 2, 2), Dynamic(2, 4, 2, 2), Dynamic(0, 4, 2, 2),
     Dynamic(0, 5, 0, 2), Dynamic(1, 4, 1, 1), Dynamic(0, 0, 0, 0),
     Dynamic(0, 0, 3, 2), Dynamic(7, 0, 2, 2), Dynamic(0, 14, 2, 4)}

MCRelroHeaders ==
    [virtual_address : {0, 3, 6, 13}, memory_size : {0, 2, 4}]

=============================================================================
