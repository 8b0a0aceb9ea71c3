-------------------------- MODULE MCElf32Lifecycle --------------------------
(***************************************************************************)
(* Elf32Lifecycle for TLC: three objects with up to two dependencies each  *)
(* (chains, shared ones, cycles, self references and edges that lead       *)
(* nowhere) and small arrays: a Thumb constructor and sentinels, two ARM   *)
(* ones, an array that cannot be read, one entry that may not be entered.  *)
(* The word of all ones is 31.                                             *)
(***************************************************************************)
EXTENDS Elf32Lifecycle

Array(entries, error) == [present |-> TRUE, entries |-> entries, error |-> error]
NoArray == [present |-> FALSE, entries |-> <<>>, error |-> "None"]

Edges == <<{<<1>>, <<2>>, <<2, 3>>, <<3, 2>>},
           {<<>>, <<1>>, <<3>>, <<3, 1>>},
           {<<>>, <<1>>, <<4>>}>>

Inits == {<<Array(<<0, 9>>, "None"), Array(<<8, 4>>, "None"), Array(<<31, 5>>, "None")>>,
          <<Array(<<5>>, "None"), NoArray, Array(<<4>>, "ReadFailed")>>,
          <<Array(<<12>>, "None"), Array(<<>>, "InvalidArraySize"), Array(<<6>>, "None")>>}

MCGraphs ==
    {[i \in 1 .. 3 |-> [dependencies |-> e[i], init |-> n[i]]] :
        e \in Edges[1] \X Edges[2] \X Edges[3], n \in Inits}

MCPlanOptions == {[max_objects |-> o, max_entries |-> e] : o \in {2, 4}, e \in {4, 6}}
                    \cup {[max_objects |-> 0, max_entries |-> 6]}

MCExecOptions ==
    {[stack_top |-> 8, return_pc |-> 12, max_instructions |-> 2],
     [stack_top |-> 4, return_pc |-> 12, max_instructions |-> 2]}

=============================================================================
