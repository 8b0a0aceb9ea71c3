------------------------ MODULE MCA32ServiceDispatch ------------------------
(***************************************************************************)
(* A32ServiceDispatch for TLC: two PCs, a budget of up to three            *)
(* instructions, up to two services, and registries with a good entry, a   *)
(* doubled one, a null one and one that names the registry itself.         *)
(***************************************************************************)
EXTENDS A32ServiceDispatch

Entry(immediate, handler) == [svc_immediate |-> immediate, handler |-> handler]

MCRegistries ==
    {<<Entry(1, "child")>>,
     <<Entry(1, "child"), Entry(2, "null"), Entry(1, "child")>>,
     <<Entry(2, "child"), Entry(1, "self")>>}

=============================================================================
