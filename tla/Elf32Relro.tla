----------------------------- MODULE Elf32Relro -----------------------------
(***************************************************************************)
(* GNU RELRO sealing (elf/hardening/elf32_relro.cpp).  After relocation    *)
(* the pages of an object's PT_GNU_RELRO ranges are made read-only one by  *)
(* one; when a protect fails the pages changed so far are given back their *)
(* permissions in reverse order.                                           *)
(*                                                                         *)
(* protect of one page either does it or fails and changes nothing.  It    *)
(* may fail at any call: mprotect has to split a host mapping and can run  *)
(* out of them.                                                            *)
(***************************************************************************)
EXTENDS AddressSpace, FiniteSets, Sequences

CONSTANTS
    RelroDescriptors,   \* sets of load.relro_segments an object may come with
    MaxPages,           \* values of options.max_pages
    MaxSeals            \* bound on calls

ASSUME MaxSealsAssumption == MaxSeals \in Nat
ASSUME MaxPagesAssumption == MaxPages \subseteq Nat

VARIABLES
    mapped,         \* the mapped pages
    permissions,    \* page -> permissions, {} where nothing is mapped
    spc,            \* "idle", "protect", "restore"
    pages,          \* the planned pages
    original,       \* permissions captured by the preflight
    todo,           \* planned pages the protect loop has not reached
    changed,        \* pages changed and not restored
    failing,        \* the page whose protect failed
    seal,           \* the result of the last call
    seals,          \* calls made
    unsealed,       \* observer: permissions when the call began
    limit           \* observer: options.max_pages of the call

pageVars == <<mapped, permissions>>
sealVars == <<spc, pages, original, todo, changed, failing, seal, seals, unsealed, limit>>

NoPage == AddressSpaceSize

SealFailure(e, page) ==
    [error |-> e, primary_error |-> e, failing_page |-> page,
     rollback_failing_page |-> NoPage, sealed_pages |-> 0]

Sealed(n) == [SealFailure("None", NoPage) EXCEPT !.sealed_pages = n]

(***************************************************************************)
(* Preflight.  mapping_start and mapping_size are those of the descriptor, *)
(* the pages are numbered.                                                 *)
(***************************************************************************)
DescriptorPages(d) ==
    {p \in Page : p * PageSize >= d.mapping_start
                    /\ p * PageSize < d.mapping_start + d.mapping_size}

MetadataOk(d) ==
    /\ d.memory_size # 0
    /\ d.mapping_size # 0
    /\ d.mapping_start % PageSize = 0
    /\ d.mapping_size % PageSize = 0
    /\ d.guest_address + d.memory_size <= AddressSpaceSize
    /\ d.mapping_start + d.mapping_size <= AddressSpaceSize
    /\ d.guest_address >= d.mapping_start
    /\ d.guest_address + d.memory_size <= d.mapping_start + d.mapping_size

\* Pages declared by the first k descriptors, counted with repetition.
DeclaredPages(ds) ==
    LET f[k \in 0 .. Len(ds)] ==
            IF k = 0 THEN 0 ELSE f[k - 1] + ds[k].mapping_size \div PageSize
    IN  f

\* Mutant: each descriptor is held against the ceiling on its own.
DescriptorErrorEach(ds, max_pages) ==
    IF \E k \in DOMAIN ds : ~MetadataOk(ds[k]) THEN "InvalidMetadata"
    ELSE IF \E k \in DOMAIN ds : ds[k].mapping_size \div PageSize > max_pages
         THEN "PageLimitExceeded"
    ELSE "None"

\* The first descriptor that is refused decides the error.
DescriptorError(ds, max_pages) ==
    LET bad == {k \in DOMAIN ds : ~MetadataOk(ds[k])
                    \/ DeclaredPages(ds)[k] > max_pages}
    IN  IF bad = {} THEN "None"
        ELSE LET k == CHOOSE b \in bad : \A c \in bad : b <= c
             IN  IF MetadataOk(ds[k]) THEN "PageLimitExceeded" ELSE "InvalidMetadata"

PageError(p) ==
    IF p \notin mapped THEN "UnmappedPage"
    ELSE IF Read \notin permissions[p] THEN "UnreadablePage"
    ELSE IF Execute \in permissions[p] THEN "ExecutablePage"
    ELSE "None"

\* The union stands for sort and unique.
PlannedPages(ds) == UNION {DescriptorPages(ds[k]) : k \in DOMAIN ds}

\* The result of a preflight that fails: at the first thing that is wrong.
SealError(ds, max_pages) ==
    IF max_pages = 0 THEN SealFailure("InvalidOptions", NoPage)
    ELSE IF DescriptorError(ds, max_pages) # "None"
         THEN SealFailure(DescriptorError(ds, max_pages), NoPage)
    ELSE LET bad == {p \in PlannedPages(ds) : PageError(p) # "None"}
             p   == CHOOSE b \in bad : \A c \in bad : b <= c
         IN  SealFailure(PageError(p), p * PageSize)

\* The preflight lets the call through.
PreflightOk(ds, max_pages) ==
    /\ ds # <<>>
    /\ max_pages # 0
    /\ DescriptorError(ds, max_pages) = "None"
    /\ \A p \in PlannedPages(ds) : PageError(p) = "None"

(***************************************************************************)
(* The call, the loop that protects and the loop that restores.  The pages *)
(* are sorted, so the protect loop goes up through the addresses and the   *)
(* restore loop comes down.                                                *)
(***************************************************************************)
Seal(ds, max_pages) ==
    /\ spc = "idle"
    /\ seals < MaxSeals
    /\ seals' = seals + 1
    /\ unsealed' = permissions
    /\ limit' = max_pages
    /\ changed' = {}
    /\ failing' = NoPage
    /\ original' = permissions
    /\ IF PreflightOk(ds, max_pages)
       THEN /\ spc' = "protect"
            /\ pages' = PlannedPages(ds)
            /\ seal' = Sealed(0)
       ELSE /\ seal' = IF ds = <<>> THEN Sealed(0) ELSE SealError(ds, max_pages)
            /\ pages' = {}
            /\ UNCHANGED spc
    /\ todo' = pages'
    /\ UNCHANGED pageVars

\* The page the protect loop has come to.
IsNext(p) == p \in todo /\ \A q \in todo : p <= q

\* Mutant: the loop remembers the page it changed last and no other.
ProtectPageForgets(p) ==
    /\ spc = "protect"
    /\ IsNext(p)
    /\ Write \in original[p]
    /\ permissions' = [permissions EXCEPT ![p] = {Read}]
    /\ changed' = {p}
    /\ todo' = todo \ {p}
    /\ UNCHANGED <<mapped, spc, pages, original, failing, seal, seals, unsealed, limit>>

\* protect(page, page_size, Read) succeeds.
ProtectPage(p) ==
    /\ spc = "protect"
    /\ IsNext(p)
    /\ Write \in original[p]
    /\ permissions' = [permissions EXCEPT ![p] = {Read}]
    /\ changed' = changed \cup {p}
    /\ todo' = todo \ {p}
    /\ UNCHANGED <<mapped, spc, pages, original, failing, seal, seals, unsealed, limit>>

\* Mutant: one page that may still be written is taken for read-only.
SkipPageWritable(p) ==
    /\ spc = "protect"
    /\ IsNext(p)
    /\ todo' = todo \ {p}
    /\ UNCHANGED <<pageVars, spc, pages, original, changed, failing, seal, seals,
                   unsealed, limit>>

\* Mutant: the loop does not go on from a page that is read-only already.
SkipPageStays(p) ==
    /\ spc = "protect"
    /\ IsNext(p)
    /\ Write \notin original[p]
    /\ UNCHANGED <<pageVars, sealVars>>

\* A page that is read-only already.
SkipPage(p) ==
    /\ spc = "protect"
    /\ IsNext(p)
    /\ Write \notin original[p]
    /\ todo' = todo \ {p}
    /\ UNCHANGED <<pageVars, spc, pages, original, changed, failing, seal, seals,
                   unsealed, limit>>

ProtectFails(p) ==
    /\ spc = "protect"
    /\ IsNext(p)
    /\ Write \in original[p]
    /\ failing' = p * PageSize
    /\ spc' = "restore"
    /\ UNCHANGED <<pageVars, pages, original, todo, changed, seal, seals, unsealed, limit>>

\* Mutant: pages are restored from the lowest up.
IsLastLowest(p) == p \in changed /\ \A q \in changed : p <= q

\* The page the restore loop has come to.
IsLast(p) == p \in changed /\ \A q \in changed : q <= p

\* Mutant: every page is restored with every permission there is.
RestorePageBlindly(p) ==
    /\ spc = "restore"
    /\ IsLast(p)
    /\ permissions' = [permissions EXCEPT ![p] = {Read, Write, Execute}]
    /\ changed' = changed \ {p}
    /\ UNCHANGED <<mapped, spc, pages, original, todo, failing, seal, seals, unsealed, limit>>

\* protect back to the captured permissions, which permissions() confirms.
RestorePage(p) ==
    /\ spc = "restore"
    /\ IsLast(p)
    /\ permissions' = [permissions EXCEPT ![p] = original[p]]
    /\ changed' = changed \ {p}
    /\ UNCHANGED <<mapped, spc, pages, original, todo, failing, seal, seals, unsealed, limit>>

\* The first restoration that fails ends the call; the rest is not tried.
RestoreFails(p) ==
    /\ spc = "restore"
    /\ IsLast(p)
    /\ seal' = [error |-> "RollbackFailed", primary_error |-> "ProtectFailed",
                failing_page |-> failing, rollback_failing_page |-> p * PageSize,
                sealed_pages |-> 0]
    /\ spc' = "idle"
    /\ UNCHANGED <<pageVars, pages, original, todo, changed, failing, seals, unsealed, limit>>

\* Everything is restored, or everything is sealed.
SealReturns ==
    /\ \/ /\ spc = "restore"
          /\ changed = {}
          /\ seal' = SealFailure("ProtectFailed", failing)
       \/ /\ spc = "protect"
          /\ todo = {}
          /\ seal' = Sealed(Cardinality(pages))
    /\ spc' = "idle"
    /\ UNCHANGED <<pageVars, pages, original, todo, changed, failing, seals, unsealed, limit>>

(***************************************************************************)
(* The specification.                                                      *)
(***************************************************************************)
SealInit ==
    /\ spc = "idle"
    /\ pages = {} /\ todo = {} /\ changed = {}
    /\ original = permissions
    /\ unsealed = permissions
    /\ limit = 0
    /\ failing = NoPage
    /\ seal = Sealed(0)
    /\ seals = 0

SealStep ==
    \/ \E p \in Page :
          \/ ProtectPage(p) \/ SkipPage(p) \/ ProtectFails(p)
          \/ RestorePage(p) \/ RestoreFails(p)
    \/ SealReturns

SealNext ==
    \/ \E ds \in RelroDescriptors, m \in MaxPages : Seal(ds, m)
    \/ SealStep

(***************************************************************************)
(* Properties.                                                             *)
(***************************************************************************)
\* Type invariant of the seal call's state.
SealTypeOK ==
    /\ mapped \subseteq Page
    /\ permissions \in [Page -> Permissions]
    /\ original \in [Page -> Permissions]
    /\ unsealed \in [Page -> Permissions]
    /\ spc \in {"idle", "protect", "restore"}
    /\ pages \subseteq Page
    /\ todo \subseteq pages
    /\ changed \subseteq pages
    /\ failing \in Nat
    /\ seals \in 0 .. MaxSeals
    /\ limit \in Nat

SealDone(e) == spc = "idle" /\ seal.error = e

\* A seal that succeeds leaves every planned page read-only, whatever it was,
\* and no other page changed (seal_elf32_gnu_relro's protect loop).
SealedExactly ==
    SealDone("None") =>
        permissions = [p \in Page |-> IF p \in pages THEN {Read} ELSE unsealed[p]]

\* A seal that fails in any way but RollbackFailed has changed no permission:
\* the preflight comes before the first protect, and the reverse loop undoes
\* every page that a later failure finds changed.
FailedSealRestores ==
    spc = "idle" /\ seal.error \notin {"None", "RollbackFailed"} => permissions = unsealed

\* RollbackFailed is the whole story of a partial seal: the pages that stay
\* sealed lie at or below the page it names and below the page that could not
\* be protected, the named page is one of them, and the cause is kept.
PartialSealIsReported ==
    SealDone("RollbackFailed") =>
        LET partial == {p \in Page : permissions[p] # unsealed[p]} IN
        /\ seal.primary_error = "ProtectFailed"
        /\ \E p \in partial : p * PageSize = seal.rollback_failing_page
        /\ \A p \in partial : /\ permissions[p] = {Read}
                              /\ Write \in unsealed[p]
                              /\ p * PageSize <= seal.rollback_failing_page
                              /\ p * PageSize < seal.failing_page

\* At no moment of a seal, not even while it is rolling back, has a page a
\* permission that it did not have when the call began.
SealingNeverGrants == \A p \in Page : permissions[p] \subseteq unsealed[p]

\* options.max_pages bounds what a call may do to the address space, however many
\* descriptors the pages come from: at no moment of the call, nor after it, do
\* more pages differ from what it found, and it reports no more as sealed.
SealWithinCeiling ==
    /\ Cardinality({p \in Page : permissions[p] # unsealed[p]}) <= limit
    /\ SealDone("None") => seal.sealed_pages <= limit

=============================================================================
