--------------------------- MODULE MCElf32Loader ---------------------------
(***************************************************************************)
(* Elf32Loader for TLC: four pages of two cells.  Fixed is an ET_EXEC of   *)
(* one page with slack; Shared an ET_DYN of two segments, the second with  *)
(* a zero tail that fills its page, PT_DYNAMIC and RELRO; Aligned an       *)
(* ET_DYN that starts on page 1 and needs a bias of two pages.             *)
(***************************************************************************)
EXTENDS Elf32Loader

Seg(offset, vaddr, filesz, memsz, perms, align) ==
    [offset |-> offset, virtual_address |-> vaddr, file_size |-> filesz,
     memory_size |-> memsz, permissions |-> perms, alignment |-> align,
     mapping_start |-> IF memsz = 0 THEN 0 ELSE MappingStart(vaddr),
     mapping_end |-> IF memsz = 0 THEN 0 ELSE MappingEnd(vaddr, memsz)]

Plan(type, segments, dynamic, relro, minimum, maximum, alignment) ==
    [type |-> type, segments |-> segments, dynamic_segment |-> dynamic,
     relro_segments |-> relro, minimum_page |-> minimum,
     maximum_page_end |-> maximum, required_load_bias_alignment |-> alignment]

Fixed ==
    Plan("Executable", <<Seg(1, 3, 1, 1, {Read, Execute}, 1)>>,
         NoDynamic, <<>>, 2, 4, 1)

Shared ==
    Plan("Dynamic",
         <<Seg(0, 0, 2, 2, {Read, Execute}, 2), Seg(0, 0, 0, 0, {}, 0),
           Seg(2, 2, 1, 2, {Read, Write}, 2)>>,
         <<[offset |-> 2, virtual_address |-> 2, file_size |-> 1, memory_size |-> 1]>>,
         <<[virtual_address |-> 2, memory_size |-> 1,
            mapping_start |-> 2, mapping_end |-> 4]>>,
         0, 4, 2)

Aligned ==
    Plan("Dynamic", <<Seg(2, 2, 0, 1, {Read}, 4)>>, NoDynamic, <<>>, 2, 4, 4)

MCPlans == {Fixed, Shared, Aligned}
MCWindows == {<<0, 10>>, <<3, 8>>, <<6, 11>>, <<4, 4>>}
MCImage == [o \in 0 .. 2 |-> 1]

=============================================================================
