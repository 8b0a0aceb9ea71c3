----------------------------- MODULE Elf32Link -----------------------------
(***************************************************************************)
(* Relocation and RELRO sealing of one object, on the same pages.  The     *)
(* library leaves the order to its caller ("Callers must therefore invoke  *)
(* this only after all relocation writes needed by the object have         *)
(* completed", elf32_relro.h), who may get it wrong: here calls come in    *)
(* any order, one at a time.  Both components read the permissions of the  *)
(* pages; sealing changes them, and only relocation writes words.          *)
(***************************************************************************)
EXTENDS Elf32Relro

CONSTANTS LoadBias, Machines, Symbols, IndexError, RelOptions, Junk, MaxApplies

VARIABLES
    mem, backend, tables, rpc, pending, unwritten, applied, failed, rollback, result,
    applies, kinds, before, unrestored,                     \* Elf32Relocation's
    sealed,         \* observer: pages sealed by calls that succeeded
    frozen          \* observer: memory when a seal last succeeded

Relocation == INSTANCE Elf32Relocation WITH todo <- unwritten

\* The relocation model's assumption on where a behaviour may start.
ASSUME LinkMachinesAssumption ==
    \A m \in Machines :
        /\ m.mapped \subseteq Page
        /\ m.permissions \in [Page -> Permissions]
        /\ m.mem \in [Relocation!Word -> Address]

relocationVars == <<mem, backend, tables, rpc, pending, unwritten, applied, failed,
                    rollback, result, applies, kinds, before, unrestored>>
vars == <<pageVars, sealVars, relocationVars, sealed, frozen>>

Init ==
    /\ Relocation!RelocationInit
    /\ SealInit
    /\ sealed = {}
    /\ frozen = mem

\* A relocation call begins when no seal is running, and the other way round.
Relocate ==
    /\ spc = "idle"
    /\ Relocation!RelocationNext
    /\ UNCHANGED <<sealVars, sealed, frozen>>

SealPages ==
    /\ rpc = "idle"
    /\ SealNext
    /\ IF spc = "protect" /\ spc' = "idle"
       THEN sealed' = sealed \cup pages /\ frozen' = mem
       ELSE UNCHANGED <<sealed, frozen>>
    /\ UNCHANGED relocationVars

Next == Relocate \/ SealPages

\* A call that has begun goes on: the loops of both calls are finite code with
\* no blocking call in them.
RelocateGoesOn ==
    rpc # "idle" /\ Relocation!RelocationStep /\ UNCHANGED <<sealVars, sealed, frozen>>
SealGoesOn == spc # "idle" /\ SealPages

Fairness == WF_vars(RelocateGoesOn) /\ WF_vars(SealGoesOn)

Spec == Init /\ [][Next]_vars /\ Fairness

\* What a seal has made read-only never changes again, neither by a relocation
\* that comes too late, is refused half way and rolled back, nor by way of a
\* later seal whose own rollback gives pages their permissions back.
SealedWordsAreFrozen ==
    backend = "Mapped" =>
        \A a \in Relocation!Word : page_index(a) \in sealed => mem[a] = frozen[a]

\* Every call of either component returns: relocation's write and undo loops and
\* the protect and restore loops of a seal all come to an end.
EveryCallReturns == rpc # "idle" \/ spc # "idle" ~> rpc = "idle" /\ spc = "idle"

=============================================================================
