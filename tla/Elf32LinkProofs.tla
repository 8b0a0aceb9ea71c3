-------------------------- MODULE Elf32LinkProofs --------------------------
(***************************************************************************)
(* Proofs about Elf32Link, for every number and size of pages, every set   *)
(* of RELRO descriptors and relocation tables, and any number of calls.    *)
(*                                                                         *)
(* The argument is that a seal keeps a ledger.  At every moment, between   *)
(* calls too, the permissions are those the call found, except that the    *)
(* pages of `changed' are read-only; the pages of `changed' were writable  *)
(* and nothing but readable or writable, which the preflight made sure of. *)
(***************************************************************************)
EXTENDS Elf32Link, TLAPS

\* A page of the plan that needs nothing more.
Settled(p) == p \in changed \/ Write \notin unsealed[p]

Ledger ==
    /\ original = unsealed
    /\ permissions = [p \in Page |-> IF p \in changed THEN {Read} ELSE unsealed[p]]
    /\ \A p \in pages : Read \in unsealed[p] /\ Execute \notin unsealed[p]
    /\ \A p \in changed : Write \in unsealed[p]

Progress ==
    /\ spc = "protect" => \A p \in pages \ todo : Settled(p)
    /\ SealDone("None") => \A p \in pages : Settled(p)
    /\ spc = "idle" /\ seal.error \notin {"None", "RollbackFailed"} => changed = {}

SealInv == SealTypeOK /\ Ledger /\ Progress

(***************************************************************************)
(* The seal's invariant.                                                   *)
(***************************************************************************)

\* The initial states, whose pages come from the machines the object may meet.
LEMMA InitSealInv == Init => SealInv
  <1> SUFFICES ASSUME Init PROVE SealInv
    BY Zenon
  <1>1. mapped \subseteq Page /\ permissions \in [Page -> Permissions]
    BY LinkMachinesAssumption, Zenon DEF Init, Relocation!RelocationInit, Relocation!MachineInit
  <1>2. SealTypeOK
    BY <1>1, MaxSealsAssumption, NumPagesAssumption, PageSizeAssumption
       DEF Init, SealInit, SealTypeOK, NoPage, AddressSpaceSize
  <1>3. Ledger
    BY <1>1, Zenon DEF Init, SealInit, Ledger
  <1>4. Progress
    BY Zenon DEF Init, SealInit, Progress, SealDone, Sealed, SealFailure
  <1> QED
    BY <1>2, <1>3, <1>4, Zenon DEF SealInv

\* The preflight lets through pages that are readable and not executable.
LEMMA PreflightPages ==
    ASSUME NEW ds, NEW max_pages, PreflightOk(ds, max_pages)
    PROVE  /\ PlannedPages(ds) \subseteq Page
           /\ \A p \in PlannedPages(ds) :
                 Read \in permissions[p] /\ Execute \notin permissions[p]
  <1>1. PlannedPages(ds) \subseteq Page
    BY Zenon DEF PlannedPages, DescriptorPages
  <1>2. \A p \in PlannedPages(ds) : PageError(p) = "None"
    BY Zenon DEF PreflightOk
  <1> QED
    BY <1>1, <1>2, Zenon DEF PageError

\* A call that begins.
LEMMA SealBeginsInv ==
    ASSUME SealInv, NEW ds, NEW max_pages \in MaxPages, Seal(ds, max_pages)
    PROVE  SealInv'
  <1> USE DEF SealInv
  <1>1. /\ pages' \subseteq Page
        /\ \A p \in pages' : Read \in permissions[p] /\ Execute \notin permissions[p]
    BY PreflightPages, Zenon DEF Seal
  <1>2. SealTypeOK'
    BY <1>1, MaxSealsAssumption, MaxPagesAssumption, NumPagesAssumption, PageSizeAssumption,
       SMTT(40)
       DEF Seal, SealTypeOK, NoPage, AddressSpaceSize, pageVars
  <1>3. Ledger'
    BY <1>1, Zenon DEF Seal, SealTypeOK, Ledger, pageVars
  <1>4. Progress'
    BY Zenon DEF Seal, Progress, SealDone, Settled
  <1> QED
    BY <1>2, <1>3, <1>4, Zenon

\* A step of a call that is running.
LEMMA SealStepInv ==
    ASSUME SealInv, SealStep
    PROVE  SealInv'
  <1> USE DEF SealInv
  <1>1. ASSUME NEW p \in Page, ProtectPage(p)
        PROVE  SealInv'
    <2>1. SealTypeOK'
      BY <1>1, Zenon DEF ProtectPage, IsNext, SealTypeOK, Permissions
    <2>2. Ledger'
      BY <1>1, Zenon DEF ProtectPage, IsNext, SealTypeOK, Ledger
    <2>3. Progress'
      BY <1>1, Zenon DEF ProtectPage, Progress, SealDone, Settled
    <2> QED
      BY <2>1, <2>2, <2>3, Zenon
  <1>2. ASSUME NEW p \in Page, SkipPage(p)
        PROVE  SealInv'
    <2>1. SealTypeOK' /\ Ledger'
      BY <1>2, Zenon DEF SkipPage, SealTypeOK, Ledger, pageVars
    <2>2. Progress'
      BY <1>2, Zenon DEF SkipPage, Ledger, Progress, SealDone, Settled
    <2> QED
      BY <2>1, <2>2, Zenon
  <1>3. ASSUME NEW p \in Page, ProtectFails(p)
        PROVE  SealInv'
    <2>1. SealTypeOK'
      BY <1>3, PageSizeAssumption DEF ProtectFails, SealTypeOK, pageVars, Page
    <2>2. Ledger' /\ Progress'
      BY <1>3, Zenon DEF ProtectFails, Ledger, Progress, SealDone, pageVars
    <2> QED
      BY <2>1, <2>2, Zenon
  <1>4. ASSUME NEW p \in Page, RestorePage(p)
        PROVE  SealInv'
    <2>1. SealTypeOK'
      BY <1>4, Zenon DEF RestorePage, SealTypeOK
    <2>2. Ledger'
      BY <1>4, Zenon DEF RestorePage, SealTypeOK, Ledger
    <2>3. Progress'
      BY <1>4, Zenon DEF RestorePage, Progress, SealDone
    <2> QED
      BY <2>1, <2>2, <2>3, Zenon
  <1>5. ASSUME NEW p \in Page, RestoreFails(p)
        PROVE  SealInv'
    BY <1>5, Zenon DEF RestoreFails, SealTypeOK, Ledger, Progress, SealDone, pageVars
  <1>6. ASSUME SealReturns
        PROVE  SealInv'
    <2>1. SealTypeOK' /\ Ledger'
      BY <1>6, Zenon DEF SealReturns, SealTypeOK, Ledger, pageVars
    <2>2. Progress'
      BY <1>6 DEF SealReturns, Progress, SealDone, Settled, Sealed, SealFailure
    <2> QED
      BY <2>1, <2>2, Zenon
  <1> QED
    BY <1>1, <1>2, <1>3, <1>4, <1>5, <1>6, Zenon DEF SealStep

\* Relocation reads the permissions of the pages and leaves them alone.
LEMMA RelocationKeepsPages ==
    ASSUME Relocation!RelocationNext
    PROVE  UNCHANGED <<mapped, permissions, backend>>
  BY Zenon DEF Relocation!RelocationNext, Relocation!RelocationStep, Relocation!Apply,
         Relocation!WriteWord, Relocation!WriteFails, Relocation!CheckFailedTarget,
         Relocation!Undo, Relocation!Return, Relocation!objectVars

\* Every step of the composition keeps the seal's invariant.
LEMMA NextSealInv == SealInv /\ [Next]_vars => SealInv'
  <1> SUFFICES ASSUME SealInv, [Next]_vars PROVE SealInv'
    BY Zenon
  <1>1. CASE Relocate
    <2>1. UNCHANGED <<pageVars, sealVars>>
      BY <1>1, RelocationKeepsPages, Zenon DEF Relocate, pageVars
    <2> QED
      BY <2>1, Zenon
         DEF SealInv, SealTypeOK, Ledger, Progress, SealDone, Settled, pageVars, sealVars
  <1>2. CASE SealPages
    BY <1>2, SealBeginsInv, SealStepInv, Zenon DEF SealPages, SealNext
  <1>3. CASE UNCHANGED vars
    BY <1>3, Zenon DEF SealInv, SealTypeOK, Ledger, Progress, SealDone, Settled, pageVars,
                sealVars, vars
  <1> QED
    BY <1>1, <1>2, <1>3, Zenon DEF Next

\* SealInv holds in every reachable state.
THEOREM SealInvariant == Spec => []SealInv
  BY InitSealInv, NextSealInv, PTL DEF Spec

\* The seal call's state has its type in every reachable state.
THEOREM SealTypeCorrect == Spec => []SealTypeOK
  <1>1. SealInv => SealTypeOK
    BY Zenon DEF SealInv
  <1> QED
    BY <1>1, SealInvariant, PTL

\* A settled page of the plan is read-only.
LEMMA SettledIsReadOnly ==
    ASSUME SealInv, NEW p \in pages, Settled(p)
    PROVE  p \in Page /\ permissions[p] = {Read}
  <1>1. p \in Page /\ unsealed[p] \in Permissions
    BY Zenon DEF SealInv, SealTypeOK
  <1>2. CASE p \in changed
    BY <1>1, <1>2, Zenon DEF SealInv, Ledger
  <1>3. CASE p \notin changed
    <2>1. Write \notin unsealed[p] /\ permissions[p] = unsealed[p]
      BY <1>1, <1>3, Zenon DEF SealInv, Ledger, Settled
    <2> QED
      BY <1>1, <2>1, Zenon DEF SealInv, Ledger, Permissions, Read, Write, Execute
  <1> QED
    BY <1>2, <1>3, Zenon

\* A seal that succeeds leaves every planned page read-only and no other page
\* changed.
THEOREM SealIsExact == Spec => []SealedExactly
  <1>1. SealInv => SealedExactly
    <2> SUFFICES ASSUME SealInv, SealDone("None")
                 PROVE  permissions =
                          [p \in Page |-> IF p \in pages THEN {Read} ELSE unsealed[p]]
      BY Zenon DEF SealedExactly
    <2>1. \A p \in pages : permissions[p] = {Read}
      BY SettledIsReadOnly, Zenon DEF SealInv, Progress
    <2>2. changed \subseteq pages
      BY Zenon DEF SealInv, SealTypeOK
    <2> QED
      BY <2>1, <2>2, Zenon DEF SealInv, Ledger
  <1> QED
    BY <1>1, SealInvariant, PTL

\* A seal that fails, its rollback not failing, has changed no permission.
THEOREM FailedSealUndone == Spec => []FailedSealRestores
  <1>1. SealInv => FailedSealRestores
    BY Zenon DEF SealInv, SealTypeOK, Ledger, Progress, FailedSealRestores
  <1> QED
    BY <1>1, SealInvariant, PTL

\* No step of a seal gives a page a permission it did not have at its start.
THEOREM SealGrantsNothing == Spec => []SealingNeverGrants
  <1>1. SealInv => SealingNeverGrants
    BY Zenon DEF SealInv, SealTypeOK, Ledger, SealingNeverGrants
  <1> QED
    BY <1>1, SealInvariant, PTL

(***************************************************************************)
(* A rollback that fails.                                                  *)
(***************************************************************************)

\* The loops go through the pages in order.
OrderInv ==
    /\ spc = "protect" => \A c \in changed, t \in todo : c < t
    /\ spc = "restore" => \E q \in Page : /\ failing = q * PageSize
                                         /\ \A c \in changed : c < q
    /\ PartialSealIsReported

\* Pages and their addresses have the same order.
LEMMA PageOrder ==
    ASSUME NEW p \in Page, NEW q \in Page
    PROVE  /\ p <= q => p * PageSize <= q * PageSize
           /\ p < q => p * PageSize < q * PageSize
  <1>1. p \in Nat /\ q \in Nat /\ PageSize \in Nat /\ PageSize > 0
    BY PageSizeAssumption, NumPagesAssumption DEF Page
  <1>2. ASSUME p < q PROVE p * PageSize < q * PageSize
    <2>1. PICK d \in Nat \ {0} : q = p + d
      <3>1. q - p \in Nat \ {0} /\ q = p + (q - p)
        BY <1>1, <1>2
      <3> QED
        BY <3>1, Zenon
    <2>2. d * PageSize > 0 /\ q * PageSize = p * PageSize + d * PageSize
      BY <1>1, <2>1, SMTT(40)
    <2> QED
      BY <1>1, <2>1, <2>2
  <1> QED
    BY <1>1, <1>2

\* No preflight ends in RollbackFailed.
LEMMA PreflightErrors ==
    ASSUME NEW ds, NEW max_pages
    PROVE  SealError(ds, max_pages).error # "RollbackFailed"
  BY Zenon DEF SealError, SealFailure, DescriptorError, PageError

\* The pages that differ are the pages of the ledger.
LEMMA PartialPages ==
    ASSUME SealInv, NEW p \in Page
    PROVE  permissions[p] # unsealed[p] <=> p \in changed
  BY Zenon DEF SealInv, Ledger, Read, Write

LEMMA SealBeginsOrderInv ==
    ASSUME SealInv, NEW ds, NEW max_pages, Seal(ds, max_pages)
    PROVE  OrderInv'
  <1>1. changed' = {} /\ spc' \in {"idle", "protect"}
    BY Zenon DEF Seal, SealInv, SealTypeOK
  <1>2. ~(spc' = "idle" /\ seal'.error = "RollbackFailed")
    BY PreflightErrors, Zenon DEF Seal, Sealed, SealFailure
  <1> QED
    BY <1>1, <1>2, Zenon DEF OrderInv, PartialSealIsReported, SealDone

\* The restore loop comes down, so a restoration that fails leaves changed only
\* pages at or below the one it was about.
LEMMA RestoreFailsOrderInv ==
    ASSUME SealInv, OrderInv, NEW p \in Page, RestoreFails(p)
    PROVE  OrderInv'
  <1>1. PICK q \in Page : failing = q * PageSize /\ \A c \in changed : c < q
    BY Zenon DEF RestoreFails, OrderInv
  <1>2. /\ seal'.primary_error = "ProtectFailed"
        /\ seal'.failing_page = failing
        /\ seal'.rollback_failing_page = p * PageSize
        /\ p \in changed /\ \A c \in changed : c <= p
        /\ UNCHANGED <<permissions, unsealed, changed>>
        /\ spc' = "idle"
    BY Zenon DEF RestoreFails, IsLast, pageVars
  <1>3. \A c \in Page : permissions[c] # unsealed[c] <=> c \in changed
    BY PartialPages, Zenon
  <1>4. \A c \in changed : /\ c \in Page
                           /\ permissions[c] = {Read}
                           /\ Write \in unsealed[c]
                           /\ c * PageSize <= p * PageSize
                           /\ c * PageSize < failing
    <2> TAKE c \in changed
    <2>1. c \in Page /\ permissions[c] = {Read} /\ Write \in unsealed[c]
      BY Zenon DEF SealInv, SealTypeOK, Ledger
    <2> QED
      BY <1>1, <1>2, <2>1, PageOrder, Zenon
  <1> QED
    BY <1>2, <1>3, <1>4, Zenon DEF OrderInv, PartialSealIsReported

LEMMA SealStepOrderInv ==
    ASSUME SealInv, OrderInv, SealStep
    PROVE  OrderInv'
  <1>0. todo \subseteq Page /\ changed \subseteq Page /\ Page \subseteq Int
    BY SMTT(40) DEF SealInv, SealTypeOK, Page
  <1>1. ASSUME NEW p \in Page, ProtectPage(p) PROVE OrderInv'
    BY <1>0, <1>1, SMTT(40) DEF ProtectPage, IsNext, OrderInv, PartialSealIsReported, SealDone
  <1>2. ASSUME NEW p \in Page, SkipPage(p) PROVE OrderInv'
    BY <1>2, Zenon DEF SkipPage, OrderInv, PartialSealIsReported, SealDone
  <1>3. ASSUME NEW p \in Page, ProtectFails(p) PROVE OrderInv'
    BY <1>3, Zenon DEF ProtectFails, IsNext, OrderInv, PartialSealIsReported, SealDone
  <1>4. ASSUME NEW p \in Page, RestorePage(p) PROVE OrderInv'
    BY <1>4, Zenon DEF RestorePage, OrderInv, PartialSealIsReported, SealDone
  <1>5. ASSUME NEW p \in Page, RestoreFails(p) PROVE OrderInv'
    BY <1>5, RestoreFailsOrderInv, Zenon
  <1>6. ASSUME SealReturns PROVE OrderInv'
    BY <1>6 DEF SealReturns, OrderInv, PartialSealIsReported, SealDone, Sealed, SealFailure
  <1> QED
    BY <1>1, <1>2, <1>3, <1>4, <1>5, <1>6, Zenon DEF SealStep

LEMMA NextOrderInv == SealInv /\ OrderInv /\ [Next]_vars => OrderInv'
  <1> SUFFICES ASSUME SealInv, OrderInv, [Next]_vars PROVE OrderInv'
    BY Zenon
  <1>1. CASE Relocate \/ UNCHANGED vars
    <2>1. UNCHANGED <<pageVars, sealVars>>
      BY <1>1, RelocationKeepsPages, Zenon DEF Relocate, pageVars, vars
    <2> QED
      BY <2>1, Zenon DEF OrderInv, PartialSealIsReported, SealDone, pageVars, sealVars
  <1>2. CASE SealPages
    BY <1>2, SealBeginsOrderInv, SealStepOrderInv, Zenon DEF SealPages, SealNext
  <1> QED
    BY <1>1, <1>2, Zenon DEF Next

\* RollbackFailed names a page that stayed sealed; every page that did lies at or
\* below it, below the page that could not be protected, and was writable.
THEOREM PartialSealReported == Spec => []PartialSealIsReported
  <1>1. Init => SealInv /\ OrderInv
    <2>1. Init => OrderInv
      BY Zenon DEF Init, SealInit, OrderInv, PartialSealIsReported, SealDone, Sealed, SealFailure
    <2> QED
      BY <2>1, InitSealInv, Zenon
  <1>2. (SealInv /\ OrderInv) /\ [Next]_vars => (SealInv /\ OrderInv)'
    BY NextSealInv, NextOrderInv, Zenon
  <1>3. OrderInv => PartialSealIsReported
    BY Zenon DEF OrderInv
  <1> QED
    BY <1>1, <1>2, <1>3, PTL DEF Spec

(***************************************************************************)
(* What is sealed is frozen.                                               *)
(***************************************************************************)

\* Sealed pages are read-only, and while a later seal runs they were so when it
\* began: it skips them, and its rollback has nothing to give back to them.
FrozenInv ==
    /\ mem = [a \in Relocation!Word |-> mem[a]]
    /\ \A p \in sealed : p \in Page /\ permissions[p] = {Read}
    /\ spc # "idle" => \A p \in sealed : unsealed[p] = {Read}
    /\ SealedWordsAreFrozen

\* What any relocation step does to memory: nothing, or one store.
StoreOrNothing ==
    \/ UNCHANGED mem
    \/ \E a, v : \E o \in Relocation!Stores(a, v) : mem' = [mem EXCEPT ![a] = o.word]

LEMMA RelocationStores ==
    ASSUME Relocation!RelocationNext
    PROVE  StoreOrNothing
  <1>1. ASSUME NEW ks, NEW options, Relocation!Apply(ks, options)
        PROVE  StoreOrNothing
    BY <1>1, Zenon DEF Relocation!Apply, StoreOrNothing
  <1>2. ASSUME NEW w, Relocation!WriteWord(w) \/ Relocation!WriteFails(w)
        PROVE  StoreOrNothing
    BY <1>2, Zenon DEF Relocation!WriteWord, Relocation!WriteFails, StoreOrNothing
  <1>3. ASSUME NEW w, Relocation!RestoreWord(w)
        PROVE  StoreOrNothing
    BY <1>3, Zenon DEF Relocation!RestoreWord, StoreOrNothing
  <1>4. ASSUME NEW w, Relocation!Undo(w)
        PROVE  StoreOrNothing
    BY <1>3, <1>4, Zenon DEF Relocation!Undo
  <1>5. ASSUME Relocation!CheckFailedTarget
        PROVE  StoreOrNothing
    <2>1. UNCHANGED mem \/ Relocation!RestoreWord(failed[1])
      BY <1>5, Zenon DEF Relocation!CheckFailedTarget
    <2> QED
      BY <2>1, <1>3, Zenon DEF StoreOrNothing
  <1>6. ASSUME Relocation!Return
        PROVE  StoreOrNothing
    BY <1>6, Zenon DEF Relocation!Return, StoreOrNothing
  <1> QED
    BY <1>1, <1>2, <1>4, <1>5, <1>6, Zenon DEF Relocation!RelocationNext, Relocation!RelocationStep

\* A store through the mapped backend does not reach a sealed page.
LEMMA StoreSparesSealed ==
    ASSUME FrozenInv, backend = "Mapped", StoreOrNothing,
           NEW b \in Relocation!Word, page_index(b) \in sealed
    PROVE  mem'[b] = mem[b]
  <1>1. CASE UNCHANGED mem
    BY <1>1, Zenon
  <1>2. ASSUME NEW a, NEW v, NEW o \in Relocation!Stores(a, v),
               mem' = [mem EXCEPT ![a] = o.word]
        PROVE  mem'[b] = mem[b]
    <2>1. CASE a # b
      BY <1>2, <2>1, Zenon DEF FrozenInv
    <2>2. CASE a = b
      <3>1. permissions[page_index(a)] = {Read}
        BY <2>2, Zenon DEF FrozenInv
      <3>2. ~Relocation!CanWrite(a)
        BY <3>1, Zenon DEF Relocation!CanWrite, Relocation!page_index, page_index,
                    Relocation!Write, Read
      <3>3. o.word = mem[a]
        BY <1>2, <3>2, SMTT(40) DEF Relocation!Stores
      <3> QED
        BY <1>2, <2>2, <3>3, Zenon DEF FrozenInv
    <2> QED
      BY <2>1, <2>2, Zenon
  <1> QED
    BY <1>1, <1>2, Zenon DEF StoreOrNothing

\* Nothing is sealed at first.
LEMMA InitFrozenInv == Init => FrozenInv
  BY LinkMachinesAssumption, Zenon
     DEF Init, FrozenInv, SealedWordsAreFrozen, Relocation!RelocationInit,
         Relocation!MachineInit

\* A relocation step keeps it.
LEMMA RelocateFrozenInv ==
    ASSUME FrozenInv, Relocate
    PROVE  FrozenInv'
  <1>1. /\ UNCHANGED <<mapped, permissions, backend, sealVars, sealed, frozen>>
        /\ StoreOrNothing
    BY RelocationKeepsPages, RelocationStores, Zenon DEF Relocate
  <1>2. (mem = [a \in Relocation!Word |-> mem[a]])'
    BY <1>1, Zenon DEF FrozenInv, StoreOrNothing
  <1>3. SealedWordsAreFrozen'
    BY <1>1, StoreSparesSealed, Zenon
    DEF FrozenInv, SealedWordsAreFrozen, Relocation!Word, Relocation!Address
  <1> QED
    BY <1>1, <1>2, <1>3, Zenon DEF FrozenInv, sealVars

\* A seal that begins finds what earlier seals left.
LEMMA SealBeginsFrozenInv ==
    ASSUME FrozenInv, NEW ds, NEW max_pages, Seal(ds, max_pages),
           UNCHANGED <<relocationVars, sealed, frozen>>
    PROVE  FrozenInv'
  BY Zenon DEF FrozenInv, Seal, SealedWordsAreFrozen, relocationVars, pageVars

\* The steps of a seal keep it: what they change was writable when the seal
\* began, and only the return of a seal that did everything seals more pages.
LEMMA SealStepFrozenInv ==
    ASSUME SealInv, FrozenInv, SealStep, SealPages
    PROVE  FrozenInv'
  <1>0. UNCHANGED <<mem, backend>>
    BY Zenon DEF SealPages, relocationVars
  <1>1. ASSUME NEW p \in Page, ProtectPage(p) \/ RestorePage(p)
        PROVE  FrozenInv'
    <2>1. p \notin sealed
      BY <1>1, Zenon DEF ProtectPage, RestorePage, IsLast, SealInv, Ledger, FrozenInv, Read, Write
    <2>2. UNCHANGED <<spc, unsealed, sealed, frozen>> /\ spc # "idle"
      BY <1>1, Zenon DEF ProtectPage, RestorePage, SealPages
    <2>3. \A q \in sealed : permissions'[q] = permissions[q]
      BY <1>1, <2>1, Zenon DEF ProtectPage, RestorePage, SealInv, SealTypeOK, FrozenInv
    <2> QED
      BY <1>0, <2>2, <2>3, Zenon DEF FrozenInv, SealedWordsAreFrozen
  <1>2. ASSUME NEW p \in Page, SkipPage(p) \/ ProtectFails(p) \/ RestoreFails(p)
        PROVE  FrozenInv'
    <2>1. /\ UNCHANGED <<permissions, unsealed, sealed, frozen>>
          /\ spc # "idle"
      BY <1>2, Zenon DEF SkipPage, ProtectFails, RestoreFails, SealPages, pageVars
    <2> QED
      BY <1>0, <2>1, Zenon DEF FrozenInv, SealedWordsAreFrozen
  <1>3. CASE SealReturns /\ spc = "protect"
    <2>1. /\ sealed' = sealed \cup pages /\ frozen' = mem
          /\ UNCHANGED permissions /\ spc' = "idle" /\ todo = {}
      BY <1>3, Zenon DEF SealReturns, SealPages, pageVars
    <2>2. \A p \in pages : p \in Page /\ permissions[p] = {Read}
      BY <1>3, <2>1, SettledIsReadOnly, Zenon DEF SealInv, Progress
    <2> QED
      BY <1>0, <2>1, <2>2, Zenon DEF FrozenInv, SealedWordsAreFrozen
  <1>4. CASE SealReturns /\ spc # "protect"
    <2>1. UNCHANGED <<permissions, sealed, frozen>> /\ spc' = "idle"
      BY <1>4, Zenon DEF SealReturns, SealPages, pageVars
    <2> QED
      BY <1>0, <2>1, Zenon DEF FrozenInv, SealedWordsAreFrozen
  <1> QED
    BY <1>1, <1>2, <1>3, <1>4, Zenon DEF SealStep

\* Every step of the composition keeps it.
LEMMA NextFrozenInv == SealInv /\ FrozenInv /\ [Next]_vars => FrozenInv'
  <1> SUFFICES ASSUME SealInv, FrozenInv, [Next]_vars PROVE FrozenInv'
    BY Zenon
  <1>1. CASE Relocate
    BY <1>1, RelocateFrozenInv, Zenon
  <1>2. CASE SealPages
    <2>1. ASSUME NEW ds, NEW max_pages, Seal(ds, max_pages)
          PROVE  FrozenInv'
      <3>1. UNCHANGED <<relocationVars, sealed, frozen>>
        BY <1>2, <2>1, Zenon DEF SealPages, Seal
      <3> QED
        BY <2>1, <3>1, SealBeginsFrozenInv, Zenon
    <2> QED
      BY <1>2, <2>1, SealStepFrozenInv, Zenon DEF SealPages, SealNext
  <1>3. CASE UNCHANGED vars
    BY <1>3, Zenon DEF FrozenInv, SealedWordsAreFrozen, vars, pageVars, sealVars, relocationVars
  <1> QED
    BY <1>1, <1>2, <1>3, Zenon DEF Next

\* On memory that obeys its permissions, no word of a page that a seal made
\* read-only ever changes again, whatever is relocated or sealed afterwards.
THEOREM SealedStaysFrozen == Spec => []SealedWordsAreFrozen
  <1>1. Init => SealInv /\ FrozenInv
    BY InitSealInv, InitFrozenInv, Zenon
  <1>2. (SealInv /\ FrozenInv) /\ [Next]_vars => (SealInv /\ FrozenInv)'
    BY NextSealInv, NextFrozenInv, Zenon
  <1>3. FrozenInv => SealedWordsAreFrozen
    BY Zenon DEF FrozenInv
  <1> QED
    BY <1>1, <1>2, <1>3, PTL DEF Spec

=============================================================================
