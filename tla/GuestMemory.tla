---------------------------- MODULE GuestMemory ----------------------------
(***************************************************************************)
(* MappedGuestMemory (memory/guest_memory.cpp): the sparse 32-bit guest    *)
(* address space over one host reservation.                                *)
(*                                                                         *)
(* The class keeps page_state_, one byte per page: 0 for a page that is    *)
(* not mapped, else a mapped bit and the guest permissions.  The host      *)
(* keeps its own protection of every page, which the JIT's fastmem path    *)
(* obeys and page_state_ does not see, and the bytes of the reservation.   *)
(* Every operation is modelled whole, with the outcomes of the system      *)
(* calls it makes: a failing mprotect may already have changed some of the *)
(* pages it was given (POSIX), and unmap discards the bytes before it      *)
(* knows whether it can withdraw the protection.                           *)
(*                                                                         *)
(* The address space is the scaled one of AddressSpace; a cell holds a     *)
(* member of Byte.                                                         *)
(***************************************************************************)
EXTENDS AddressSpace

CONSTANT
    Byte        \* values a cell may hold; 0 is the zero byte

ASSUME ByteAssumption == 0 \in Byte

Mapped   == "mapped"
Unmapped == {}

VARIABLES
    page_state,   \* page -> Unmapped, or {Mapped} and the guest permissions
    host,         \* page -> host protection, a set of PROT_READ / PROT_WRITE
    contents,     \* address -> byte of the reservation
    torn,         \* observer: pages a failed mprotect changed since the last
                  \* successful one
    result        \* what the last operation returned

memVars == <<page_state, host, contents, torn, result>>

(***************************************************************************)
(* Ranges and permissions.                                                 *)
(***************************************************************************)
valid_page_range(address, length) ==
    /\ length # 0
    /\ address % PageSize = 0
    /\ length % PageSize = 0
    /\ address + length <= AddressSpaceSize

valid_permissions(perms) ==
    (Write \in perms \/ Execute \in perms) => Read \in perms

page_is_mapped(p) == Mapped \in page_state[p]

encode_page_state(perms) == perms \cup {Mapped}

\* PROT_EXEC is never requested: guest code is translated, not run in place.
host_protection(perms) ==
    (IF Read \in perms \/ Execute \in perms THEN {Read} ELSE {})
        \cup (IF Write \in perms THEN {Write} ELSE {})

valid_access(address, length, required) ==
    \/ length = 0
    \/ /\ address + length <= AddressSpaceSize
       /\ \A p \in PagesOf(address, length) :
             page_is_mapped(p) /\ required \in page_state[p]

is_mapped(address) == page_is_mapped(page_index(address))

permissions(address) ==
    IF is_mapped(address) THEN page_state[page_index(address)] \ {Mapped}
                          ELSE {}

(***************************************************************************)
(* The system calls, as the operations use them.                           *)
(***************************************************************************)
MprotectSucceeds(pages, prot) ==
    /\ host' = [p \in Page |-> IF p \in pages THEN prot ELSE host[p]]
    /\ torn' = torn \ pages

MprotectFails(pages, prot) ==
    \E changed \in SUBSET pages :
        /\ host' = [p \in Page |-> IF p \in changed THEN prot ELSE host[p]]
        /\ torn' = torn \cup changed

MadviseDontNeed(pages) ==
    contents' = [a \in Address |->
                    IF page_index(a) \in pages THEN 0 ELSE contents[a]]

SetPageState(pages, state) ==
    page_state' = [p \in Page |-> IF p \in pages THEN state ELSE page_state[p]]

Refuse == result' = FALSE /\ UNCHANGED <<page_state, host, contents, torn>>

(***************************************************************************)
(* Operations.                                                             *)
(***************************************************************************)
CanMap(address, length, perms) ==
    /\ valid_page_range(address, length)
    /\ valid_permissions(perms)
    /\ \A p \in PagesOf(address, length) : ~page_is_mapped(p)

\* Mutant: protect() forgets valid_permissions.
CanProtectAnything(address, length, perms) ==
    /\ valid_page_range(address, length)
    /\ \A p \in PagesOf(address, length) : page_is_mapped(p)

CanProtect(address, length, perms) ==
    /\ valid_page_range(address, length)
    /\ valid_permissions(perms)
    /\ \A p \in PagesOf(address, length) : page_is_mapped(p)

CanUnmap(address, length) ==
    /\ valid_page_range(address, length)
    /\ \A p \in PagesOf(address, length) : page_is_mapped(p)

\* Mutant: page_state_ is updated before mprotect is known to have succeeded.
SetProtectionEarly(pages, perms) ==
    /\ SetPageState(pages, encode_page_state(perms))
    /\ \/ MprotectSucceeds(pages, host_protection(perms)) /\ result' = TRUE
       \/ MprotectFails(pages, host_protection(perms)) /\ result' = FALSE
    /\ UNCHANGED contents

\* The part map and protect share: mprotect, then page_state_ on success.
SetProtection(pages, perms) ==
    /\ \/ /\ MprotectSucceeds(pages, host_protection(perms))
          /\ SetPageState(pages, encode_page_state(perms))
          /\ result' = TRUE
       \/ /\ MprotectFails(pages, host_protection(perms))
          /\ result' = FALSE
          /\ UNCHANGED page_state
    /\ UNCHANGED contents

Map(address, length, perms) ==
    \/ CanMap(address, length, perms)
         /\ SetProtection(PagesOf(address, length), perms)
    \/ ~CanMap(address, length, perms) /\ Refuse

\* Mutant: protect() changes page_state_ and leaves the host protection.
ProtectMetadataOnly(address, length, perms) ==
    \/ /\ CanProtect(address, length, perms)
       /\ SetPageState(PagesOf(address, length), encode_page_state(perms))
       /\ result' = TRUE
       /\ UNCHANGED <<host, contents, torn>>
    \/ ~CanProtect(address, length, perms) /\ Refuse

Protect(address, length, perms) ==
    \/ CanProtect(address, length, perms)
         /\ SetProtection(PagesOf(address, length), perms)
    \/ ~CanProtect(address, length, perms) /\ Refuse

\* Mutant: unmap() does not discard the bytes.
UnmapKeepsBytes(address, length) ==
    LET pages == PagesOf(address, length) IN
    \/ /\ CanUnmap(address, length)
       /\ UNCHANGED contents
       /\ \/ /\ MprotectSucceeds(pages, {})
             /\ SetPageState(pages, Unmapped)
             /\ result' = TRUE
          \/ /\ MprotectFails(pages, {})
             /\ result' = FALSE
             /\ UNCHANGED page_state
    \/ ~CanUnmap(address, length) /\ Refuse

Unmap(address, length) ==
    LET pages == PagesOf(address, length) IN
    \/ /\ CanUnmap(address, length)
       /\ \/ Refuse                              \* madvise fails
          \/ /\ MadviseDontNeed(pages)
             /\ \/ /\ MprotectSucceeds(pages, {})
                   /\ SetPageState(pages, Unmapped)
                   /\ result' = TRUE
                \/ /\ MprotectFails(pages, {})
                   /\ result' = FALSE
                   /\ UNCHANGED page_state
    \/ ~CanUnmap(address, length) /\ Refuse

\* write(): all of the range or none of it.  bytes is the span to store.  The
\* memcpy of an access page_state_ allows faults when a failed mprotect has
\* withdrawn the host protection: the process ends and no step follows.
WriteBytes(address, length, bytes) ==
    \/ /\ valid_access(address, length, Write)
       /\ length # 0 => \A p \in PagesOf(address, length) : Write \in host[p]
       /\ contents' = [a \in Address |->
                          IF a \in address .. address + length - 1
                          THEN bytes[a - address] ELSE contents[a]]
       /\ result' = TRUE
       /\ UNCHANGED <<page_state, host, torn>>
    \/ ~valid_access(address, length, Write) /\ Refuse

\* A store the JIT makes through the fastmem base: the host protection is the
\* only thing that can stop it (a host fault falls back to write()).
FastmemStore(address, byte) ==
    /\ Write \in host[page_index(address)]
    /\ contents' = [contents EXCEPT ![address] = byte]
    /\ UNCHANGED <<page_state, host, torn, result>>

(***************************************************************************)
(* The memory on its own, used in every order by its clients.              *)
(***************************************************************************)
Init ==
    /\ page_state = [p \in Page |-> Unmapped]
    /\ host = [p \in Page |-> {}]
    /\ contents = [a \in Address |-> 0]
    /\ torn = {}
    /\ result = TRUE

Length == 0 .. AddressSpaceSize

Next ==
    \/ \E a \in Address, n \in Length, perms \in Permissions : Map(a, n, perms)
    \/ \E a \in Address, n \in Length, perms \in Permissions : Protect(a, n, perms)
    \/ \E a \in Address, n \in Length : Unmap(a, n)
    \/ \E a \in Address, n \in Length, b \in Byte :
          WriteBytes(a, n, [i \in 0 .. n |-> b])
    \/ \E a \in Address, b \in Byte : FastmemStore(a, b)

Spec == Init /\ [][Next]_memVars

(***************************************************************************)
(* Properties.                                                             *)
(***************************************************************************)

\* Every variable has its type, and page_state_ only ever holds the byte 0 or
\* an encoded permission set that valid_permissions accepts.
TypeOK ==
    /\ page_state \in [Page -> {Unmapped} \cup
                        {encode_page_state(perms) : perms \in
                            {q \in Permissions : valid_permissions(q)}}]
    /\ host \in [Page -> SUBSET {Read, Write}]
    /\ contents \in [Address -> Byte]
    /\ torn \in SUBSET Page
    /\ result \in BOOLEAN

\* The host protection the JIT's fastmem path obeys is the one page_state_
\* stands for, at every page but those a failed mprotect has touched: an
\* access the guest permissions deny faults, and the memcpy of an access they
\* allow does not.
FastmemAgrees ==
    \A p \in Page \ torn :
        host[p] = host_protection(page_state[p] \ {Mapped})

\* A page that is not mapped holds zeros, so map() hands out zero-filled pages
\* whatever an earlier mapping of the page stored; unmap's madvise keeps it so.
UnmappedPagesAreZero ==
    \A a \in Address :
        LET p == page_index(a) IN
        ~page_is_mapped(p) /\ p \notin torn => contents[a] = 0

\* A byte changes only on a page that has guest write permission, or lies on a
\* page whose host protection a failed mprotect has left behind, or is discarded
\* by unmap: then its mapping is gone too, or the caller is told that the unmap
\* failed, the only way in which a read-only page that stays mapped loses its
\* bytes.  Fastmem stores are included.
StoreAllowed ==
    \A a \in Address :
        LET p == page_index(a) IN
        contents'[a] # contents[a] =>
            \/ Write \in page_state[p]
            \/ p \in torn
            \/ /\ page_is_mapped(p) /\ contents'[a] = 0
               /\ page_is_mapped(p)' => ~result'

StoreNeedsWritePermission == [][StoreAllowed]_memVars

\* docs/architecture/cpu-engine.md:57 "Unmapped pages remain `PROT_NONE`."
UnmappedStaysInaccessible ==
    \A p \in Page : ~page_is_mapped(p) => host[p] = {}

=============================================================================
