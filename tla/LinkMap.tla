------------------------------ MODULE LinkMap ------------------------------
(***************************************************************************)
(* The persistent link map (elf/elf32_link_map.h) as its users see it:     *)
(* every call of the dependency loader is one step that appends a whole    *)
(* graph, reuses an object that is there, or leaves the link map alone.    *)
(* Module Elf32DependencyLoader implements this specification.             *)
(***************************************************************************)
EXTENDS Integers, Sequences

VARIABLES
    objects,        \* graph.objects: [identity, image, pages, global, dependencies]
    roots,          \* [object, policy], in the order they were appended
    global_scope,   \* global_scope_objects
    mapped          \* pages mapped in guest memory

linkMapVars == <<objects, roots, global_scope, mapped>>

Policies == {"Local", "Global"}

RootObjects == {roots[k].object : k \in DOMAIN roots}

RequiredGlobal ==
    {i \in DOMAIN objects : objects[i].global}
        \cup {roots[k].object : k \in {j \in DOMAIN roots : roots[j].policy = "Global"}}

\* Membership and order of the global scope: the objects that must be in it,
\* each once, in the order of their indices.
GlobalScopeExact ==
    /\ {global_scope[k] : k \in DOMAIN global_scope} = RequiredGlobal
    /\ \A j, k \in DOMAIN global_scope : j < k => global_scope[j] < global_scope[k]

EmptyLinkMap == objects = <<>> /\ roots = <<>> /\ global_scope = <<>>

\* New objects go after the old ones, which keep index and contents, on pages
\* nobody had; the root is the first of them.
Append_(policy) ==
    LET new == Len(objects) + 1 .. Len(objects') IN
    /\ Len(objects') > Len(objects)
    /\ \A i \in DOMAIN objects : objects'[i] = objects[i]
    /\ roots' = Append(roots, [object |-> Len(objects) + 1, policy |-> policy])
    /\ \A i \in new : objects'[i].pages \cap mapped = {}
    /\ \A i, j \in new : i # j => objects'[i].pages \cap objects'[j].pages = {}
    /\ mapped' = mapped \cup UNION {objects'[i].pages : i \in new}
    /\ GlobalScopeExact'

\* An object that is already loaded becomes a root, or a local root global.
Reuse(object, policy) ==
    /\ \/ /\ object \notin RootObjects
          /\ roots' = Append(roots, [object |-> object, policy |-> policy])
       \/ /\ object \in RootObjects
          /\ roots' = [k \in DOMAIN roots |->
                          IF roots[k].object = object /\ policy = "Global"
                          THEN [roots[k] EXCEPT !.policy = "Global"] ELSE roots[k]]
    /\ GlobalScopeExact'
    /\ UNCHANGED <<objects, mapped>>

\* A call that fails, or whose graph the caller keeps for itself: pages may
\* have been mapped, none has been unmapped.
Elsewhere ==
    /\ mapped \subseteq mapped'
    /\ UNCHANGED <<objects, roots, global_scope>>

Next ==
    \/ \E policy \in Policies : Append_(policy)
    \/ \E object \in DOMAIN objects, policy \in Policies : Reuse(object, policy)
    \/ Elsewhere

Spec == EmptyLinkMap /\ [][Next]_linkMapVars

=============================================================================
