---------------------- MODULE MCElf32DependencyLoader ----------------------
(***************************************************************************)
(* Elf32DependencyLoader for TLC.  lib needs two objects, leaf one, plain  *)
(* none and asks for the global scope; main is an ET_EXEC, broken fails    *)
(* its inspection, junk is no ELF image and empty has no bytes.  The       *)
(* provider may give leaf's identity to another image and any object to    *)
(* any request, so shared and cyclic graphs arise.                         *)
(***************************************************************************)
EXTENDS Elf32DependencyLoader

Image(type, at, size, bytes, needed, global, inspect) ==
    [type |-> type, at |-> at, size |-> size, bytes |-> bytes,
     needed |-> needed, global |-> global, inspect |-> inspect]

MCImages ==
    [lib    |-> Image("Dynamic", 0, 1, 1, 2, FALSE, "None"),
     leaf   |-> Image("Dynamic", 0, 1, 1, 1, FALSE, "None"),
     plain  |-> Image("Dynamic", 0, 2, 2, 0, TRUE, "None"),
     main   |-> Image("Executable", 1, 1, 1, 1, FALSE, "None"),
     broken |-> Image("Dynamic", 0, 1, 1, 0, FALSE, "DynamicParseFailed"),
     junk   |-> Image("Invalid", 0, 1, 1, 0, FALSE, "None"),
     empty  |-> Image("Invalid", 0, 1, 0, 0, FALSE, "None")]

MCAnswers ==
    {<<"lib", "lib">>, <<"leaf", "leaf">>, <<"plain", "plain">>,
     <<"main", "main">>, <<"leaf", "broken">>, <<"junk", "junk">>,
     <<"junk", "empty">>, <<"", "lib">>}

Limits(objs, depth, edges, image, sum) ==
    [max_objects |-> objs, max_depth |-> depth, max_occurrences |-> edges,
     max_image_bytes |-> image, max_total |-> sum]

MCOptions == {Limits(3, 2, 4, 2, 6), Limits(3, 1, 3, 1, 3), Limits(0, 0, 0, 0, 0)}

=============================================================================
