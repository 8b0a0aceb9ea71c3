------------------------- MODULE Elf32LoaderProofs -------------------------
(***************************************************************************)
(* Proofs about GuestMemory and what stands on it: Elf32Loader, and the    *)
(* search for free addresses of GuestVaAllocator, by which a dynamic       *)
(* object is placed.  They are for every address space, every image and    *)
(* every set of plans that meet the contract of Elf32Plan.                 *)
(***************************************************************************)
EXTENDS Elf32Loader, GuestVaAllocator, ArithmeticLemmas, FiniteSetTheorems

(***************************************************************************)
(* Arithmetic of pages.                                                    *)
(***************************************************************************)

\* page_index and the offset within the page recompose the address.
LEMMA DivisionFacts ==
    ASSUME NEW a \in Nat, NEW n \in Nat \ {0}
    PROVE  /\ a \div n \in Nat
           /\ (a \div n) * n <= a
           /\ a < (a \div n) * n + n
  OBVIOUS

\* Every address lies on a page of the address space.
LEMMA PageIndexType ==
    ASSUME NEW a \in Address
    PROVE  page_index(a) \in Page
  <1> DEFINE q == a \div PageSize
  <1>1. a \in Nat /\ a < NumPages * PageSize
    BY NumPagesAssumption, PageSizeAssumption DEF Address, AddressSpaceSize
  <1>2. q \in Nat /\ q * PageSize <= a
    BY <1>1, DivisionFacts, PageSizeAssumption, Zenon
  <1> HIDE DEF q
  <1>3. q < NumPages
    BY <1>1, <1>2, NumPagesAssumption, PageSizeAssumption
  <1> QED
    BY <1>2, <1>3, NumPagesAssumption DEF q, page_index, Page

\* A cell of a range lies on one of the pages valid_access looks at.
LEMMA CellOnRangePage ==
    ASSUME NEW address \in Nat, NEW length \in Nat, NEW a \in Address,
           a \in address .. address + length - 1
    PROVE  page_index(a) \in PagesOf(address, length)
  <1> DEFINE q == a \div PageSize
             r == address \div PageSize
  <1>1. a \in Nat /\ address \in Nat
    BY NumPagesAssumption, PageSizeAssumption DEF Address, AddressSpaceSize
  <1>2. /\ q \in Nat /\ q * PageSize <= a /\ a < q * PageSize + PageSize
        /\ r \in Nat /\ r * PageSize <= address
    BY <1>1, DivisionFacts, PageSizeAssumption, Zenon
  <1>3. q \in Page
    BY PageIndexType, Zenon DEF page_index
  <1> HIDE DEF q, r
  <1>4. q >= r
    <2>1. r * PageSize < (q + 1) * PageSize
      BY <1>1, <1>2, PageSizeAssumption
    <2> QED
      BY <2>1, <1>2, PageSizeAssumption
  <1>5. q * PageSize < address + length
    BY <1>1, <1>2, PageSizeAssumption
  <1> QED
    BY <1>3, <1>4, <1>5, Zenon DEF q, r, page_index, PagesOf

(***************************************************************************)
(* The inductive invariant.  The three parts need each other: a fastmem    *)
(* store leaves an unmapped page alone only because the host agrees with   *)
(* page_state_ there.                                                      *)
(***************************************************************************)
MemoryInv == TypeOK /\ FastmemAgrees /\ UnmappedPagesAreZero

LEMMA InitMemoryInv == Init => MemoryInv
  BY ByteAssumption, Zenon
     DEF Init, MemoryInv, TypeOK, FastmemAgrees, UnmappedPagesAreZero,
         host_protection, Unmapped, Mapped, Read, Write, Execute

\* encode_page_state and decoding are inverse, and an encoded state is mapped.
LEMMA EncodedState ==
    ASSUME NEW perms \in Permissions
    PROVE  /\ encode_page_state(perms) \ {Mapped} = perms
           /\ Mapped \in encode_page_state(perms)
  BY Zenon DEF Permissions, encode_page_state, Mapped, Read, Write, Execute

LEMMA HostProtectionType ==
    ASSUME NEW perms
    PROVE  host_protection(perms) \in SUBSET {Read, Write}
  BY Zenon DEF host_protection

\* map and protect, once their checks have passed.
LEMMA SetProtectionPreserves ==
    ASSUME MemoryInv, NEW pages \in SUBSET Page, NEW perms \in Permissions,
           valid_permissions(perms), SetProtection(pages, perms)
    PROVE  MemoryInv'
  <1> USE DEF MemoryInv
  <1>1. TypeOK'
    <2>1. CASE MprotectSucceeds(pages, host_protection(perms))
               /\ SetPageState(pages, encode_page_state(perms)) /\ result' = TRUE
      BY <2>1, HostProtectionType
         DEF SetProtection, MprotectSucceeds, SetPageState, TypeOK
    <2>2. CASE MprotectFails(pages, host_protection(perms))
               /\ result' = FALSE /\ UNCHANGED page_state
      BY <2>2, HostProtectionType, ZenonT(40) DEF SetProtection, MprotectFails, TypeOK
    <2> QED BY <2>1, <2>2, Zenon DEF SetProtection
  <1>2. FastmemAgrees'
    <2>1. CASE MprotectSucceeds(pages, host_protection(perms))
               /\ SetPageState(pages, encode_page_state(perms)) /\ result' = TRUE
      BY <2>1, EncodedState, Zenon
         DEF MprotectSucceeds, SetPageState, TypeOK, FastmemAgrees
    <2>2. CASE MprotectFails(pages, host_protection(perms))
               /\ result' = FALSE /\ UNCHANGED page_state
      BY <2>2, Zenon DEF MprotectFails, TypeOK, FastmemAgrees
    <2> QED BY <2>1, <2>2, Zenon DEF SetProtection
  <1>3. UnmappedPagesAreZero'
    <2>1. CASE MprotectSucceeds(pages, host_protection(perms))
               /\ SetPageState(pages, encode_page_state(perms)) /\ result' = TRUE
      BY <2>1, EncodedState, PageIndexType, Zenon
         DEF SetProtection, MprotectSucceeds, SetPageState, TypeOK,
             UnmappedPagesAreZero, page_is_mapped
    <2>2. CASE MprotectFails(pages, host_protection(perms))
               /\ result' = FALSE /\ UNCHANGED page_state
      BY <2>2, Zenon DEF SetProtection, MprotectFails, TypeOK,
                  UnmappedPagesAreZero, page_is_mapped
    <2> QED BY <2>1, <2>2, Zenon DEF SetProtection
  <1> QED BY <1>1, <1>2, <1>3, Zenon

LEMMA RefusePreserves ==
    ASSUME MemoryInv, Refuse
    PROVE  MemoryInv'
  BY Zenon DEF MemoryInv, Refuse, TypeOK, FastmemAgrees, UnmappedPagesAreZero,
         page_is_mapped

LEMMA UnmapPreserves ==
    ASSUME MemoryInv, NEW address, NEW length, Unmap(address, length)
    PROVE  MemoryInv'
  <1> DEFINE pages == PagesOf(address, length)
  <1>0. pages \in SUBSET Page
    BY Zenon DEF PagesOf
  <1>1. CASE Refuse
    BY <1>1, RefusePreserves
  <1>2. CASE /\ MadviseDontNeed(pages) /\ MprotectSucceeds(pages, {})
             /\ SetPageState(pages, Unmapped) /\ result' = TRUE
    <2>1. TypeOK'
      BY <1>0, <1>2, ByteAssumption, Zenon
         DEF MemoryInv, TypeOK, MadviseDontNeed, MprotectSucceeds, SetPageState
    <2>2. FastmemAgrees'
      BY <1>0, <1>2, Zenon
         DEF MemoryInv, TypeOK, FastmemAgrees, MprotectSucceeds, SetPageState,
             host_protection, Unmapped
    <2>3. UnmappedPagesAreZero'
      BY <1>0, <1>2, PageIndexType, SMTT(40)
         DEF MemoryInv, TypeOK, UnmappedPagesAreZero, MadviseDontNeed,
             MprotectSucceeds, SetPageState, page_is_mapped, Unmapped
    <2> QED BY <2>1, <2>2, <2>3, Zenon DEF MemoryInv
  <1>3. CASE /\ MadviseDontNeed(pages) /\ MprotectFails(pages, {})
             /\ result' = FALSE /\ UNCHANGED page_state
    <2>1. TypeOK'
      BY <1>0, <1>3, ByteAssumption, Zenon
         DEF MemoryInv, TypeOK, MadviseDontNeed, MprotectFails
    <2>2. FastmemAgrees'
      BY <1>0, <1>3, Zenon DEF MemoryInv, TypeOK, FastmemAgrees, MprotectFails
    <2>3. UnmappedPagesAreZero'
      BY <1>0, <1>3, PageIndexType, Zenon
         DEF MemoryInv, TypeOK, UnmappedPagesAreZero, MadviseDontNeed,
             MprotectFails, page_is_mapped
    <2> QED BY <2>1, <2>2, <2>3, Zenon DEF MemoryInv
  <1> QED
    BY <1>1, <1>2, <1>3, Zenon DEF Unmap

LEMMA WritePreserves ==
    ASSUME MemoryInv, NEW address \in Nat, NEW length \in Nat,
           NEW bytes, \A k \in 0 .. length - 1 : bytes[k] \in Byte,
           WriteBytes(address, length, bytes)
    PROVE  MemoryInv'
  <1>1. CASE Refuse
    BY <1>1, RefusePreserves, Zenon
  <1>2. CASE /\ valid_access(address, length, Write)
             /\ contents' = [a \in Address |->
                                IF a \in address .. address + length - 1
                                THEN bytes[a - address] ELSE contents[a]]
             /\ result' = TRUE
             /\ UNCHANGED <<page_state, host, torn>>
    <2>1. ASSUME NEW a \in Address, a \in address .. address + length - 1
          PROVE  /\ bytes[a - address] \in Byte
                 /\ page_is_mapped(page_index(a))
      <3>1. a - address \in 0 .. length - 1
        BY <2>1
      <3>2. page_index(a) \in PagesOf(address, length)
        BY <2>1, CellOnRangePage, Zenon
      <3>3. length # 0
        BY <2>1
      <3> QED
        BY <1>2, <3>1, <3>2, <3>3, Zenon DEF valid_access
    <2>2. TypeOK'
      BY <1>2, <2>1, Zenon DEF MemoryInv, TypeOK
    <2>3. FastmemAgrees'
      BY <1>2, Zenon DEF MemoryInv, FastmemAgrees
    <2>4. UnmappedPagesAreZero'
      BY <1>2, <2>1, Zenon DEF MemoryInv, UnmappedPagesAreZero, page_is_mapped
    <2> QED BY <2>2, <2>3, <2>4, Zenon DEF MemoryInv
  <1> QED
    BY <1>1, <1>2, Zenon DEF WriteBytes

LEMMA FastmemStorePreserves ==
    ASSUME MemoryInv, NEW address \in Address, NEW byte \in Byte,
           FastmemStore(address, byte)
    PROVE  MemoryInv'
  <1>1. TypeOK'
    BY Zenon DEF MemoryInv, TypeOK, FastmemStore
  <1>2. FastmemAgrees'
    BY Zenon DEF MemoryInv, FastmemAgrees, FastmemStore
  <1>3. ASSUME page_index(address) \notin torn
        PROVE  page_is_mapped(page_index(address))
    <2>1. page_index(address) \in Page
      BY PageIndexType, Zenon
    <2>2. Write \in host_protection(page_state[page_index(address)] \ {Mapped})
      BY <1>3, <2>1, Zenon DEF MemoryInv, FastmemAgrees, FastmemStore
    <2>3. page_state[page_index(address)] # Unmapped
      BY <2>2, Zenon DEF host_protection, Unmapped, Read, Write, Execute
    <2> QED
      BY <2>1, <2>3
         DEF MemoryInv, TypeOK, encode_page_state, page_is_mapped
  <1>4. UnmappedPagesAreZero'
    BY <1>3, Zenon DEF MemoryInv, TypeOK, UnmappedPagesAreZero, FastmemStore,
                page_is_mapped
  <1> QED BY <1>1, <1>2, <1>4, SMTT(40) DEF MemoryInv

LEMMA NextMemoryInv == MemoryInv /\ [Next]_memVars => MemoryInv'
  <1> SUFFICES ASSUME MemoryInv, [Next]_memVars
               PROVE  MemoryInv'
    BY Zenon
  <1>1. CASE \E a \in Address, n \in Length, perms \in Permissions :
                Map(a, n, perms)
    <2> PICK a \in Address, n \in Length, perms \in Permissions : Map(a, n, perms)
      BY <1>1, Zenon
    <2>1. PagesOf(a, n) \in SUBSET Page
      BY Zenon DEF PagesOf
    <2> QED
      BY <2>1, SetProtectionPreserves, RefusePreserves, Zenon DEF Map, CanMap
  <1>2. CASE \E a \in Address, n \in Length, perms \in Permissions :
                Protect(a, n, perms)
    <2> PICK a \in Address, n \in Length, perms \in Permissions : Protect(a, n, perms)
      BY <1>2, Zenon
    <2>1. PagesOf(a, n) \in SUBSET Page
      BY Zenon DEF PagesOf
    <2> QED
      BY <2>1, SetProtectionPreserves, RefusePreserves, Zenon DEF Protect, CanProtect
  <1>3. CASE \E a \in Address, n \in Length : Unmap(a, n)
    BY <1>3, UnmapPreserves, Zenon
  <1>4. CASE \E a \in Address, n \in Length, b \in Byte :
                WriteBytes(a, n, [i \in 0 .. n |-> b])
    <2> PICK a \in Address, n \in Length, b \in Byte : WriteBytes(a, n, [i \in 0 .. n |-> b])
      BY <1>4, Zenon
    <2>1. /\ a \in Nat /\ n \in Nat
          /\ \A k \in 0 .. n - 1 : [i \in 0 .. n |-> b][k] \in Byte
      BY NumPagesAssumption, PageSizeAssumption DEF Length, Address, AddressSpaceSize
    <2> HIDE DEF WriteBytes
    <2> QED
      BY <2>1, WritePreserves, Zenon
  <1>5. CASE \E a \in Address, b \in Byte : FastmemStore(a, b)
    BY <1>5, FastmemStorePreserves, Zenon
  <1>6. CASE UNCHANGED memVars
    BY <1>6, Zenon DEF memVars, MemoryInv, TypeOK, FastmemAgrees,
                UnmappedPagesAreZero, page_is_mapped
  <1> QED
    BY <1>1, <1>2, <1>3, <1>4, <1>5, <1>6, Zenon DEF Next

\* page_state_ only ever holds encoded, valid permission shapes.
THEOREM TypeCorrect == Spec => []TypeOK
  <1>1. MemoryInv => TypeOK
    BY Zenon DEF MemoryInv
  <1> QED
    BY <1>1, InitMemoryInv, NextMemoryInv, PTL DEF Spec

\* Host protection and guest permissions agree wherever mprotect has not
\* failed: the fastmem path of the JIT cannot bypass page_state_.
THEOREM FastmemSafe == Spec => []FastmemAgrees
  <1>1. MemoryInv => FastmemAgrees
    BY Zenon DEF MemoryInv
  <1> QED
    BY <1>1, InitMemoryInv, NextMemoryInv, PTL DEF Spec

\* map() hands out zero-filled pages.
THEOREM FreshPagesAreZero == Spec => []UnmappedPagesAreZero
  <1>1. MemoryInv => UnmappedPagesAreZero
    BY SMTT(40) DEF MemoryInv
  <1> QED
    BY <1>1, InitMemoryInv, NextMemoryInv, PTL DEF Spec

LEMMA StepStoreAllowed == MemoryInv /\ [Next]_memVars => [StoreAllowed]_memVars
  <1> SUFFICES ASSUME MemoryInv, Next
               PROVE  StoreAllowed
    BY Zenon DEF memVars
  <1> SUFFICES ASSUME NEW a \in Address, contents'[a] # contents[a]
               PROVE  \/ Write \in page_state[page_index(a)]
                      \/ page_index(a) \in torn
                      \/ /\ page_is_mapped(page_index(a)) /\ contents'[a] = 0
                         /\ page_is_mapped(page_index(a))' => ~result'
    BY Zenon DEF StoreAllowed
  <1>0. page_index(a) \in Page
    BY PageIndexType, Zenon
  <1>1. ASSUME NEW address \in Address, NEW n \in Length, NEW perms \in Permissions,
               Map(address, n, perms) \/ Protect(address, n, perms)
        PROVE  FALSE
    BY <1>1, Zenon DEF Map, Protect, SetProtection, Refuse
  <1>2. ASSUME NEW address \in Address, NEW n \in Length, Unmap(address, n)
        PROVE  /\ page_is_mapped(page_index(a)) /\ contents'[a] = 0
               /\ page_is_mapped(page_index(a))' => ~result'
    <2> DEFINE pages == PagesOf(address, n)
    <2>1. /\ CanUnmap(address, n) /\ MadviseDontNeed(pages)
          /\ SetPageState(pages, Unmapped) \/ ~result'
      BY <1>2, Zenon DEF Unmap, Refuse
    <2>2. page_index(a) \in pages /\ contents'[a] = 0
      BY <2>1, Zenon DEF MadviseDontNeed, MemoryInv, TypeOK
    <2>3. page_is_mapped(page_index(a))
      BY <2>1, <2>2, Zenon DEF CanUnmap
    <2>4. SetPageState(pages, Unmapped) => ~page_is_mapped(page_index(a))'
      BY <1>0, <2>2, Zenon DEF SetPageState, page_is_mapped, Unmapped
    <2> QED
      BY <2>1, <2>2, <2>3, <2>4, Zenon
  <1>3. ASSUME NEW address \in Address, NEW n \in Length, NEW b \in Byte,
               WriteBytes(address, n, [i \in 0 .. n |-> b])
        PROVE  Write \in page_state[page_index(a)]
    <2>1. n \in Nat /\ address \in Nat
      BY NumPagesAssumption, PageSizeAssumption, SMTT(40)
         DEF Length, Address, AddressSpaceSize
    <2>2. valid_access(address, n, Write) /\ a \in address .. address + n - 1
      BY <1>3, Zenon DEF WriteBytes, Refuse, MemoryInv, TypeOK
    <2>3. page_index(a) \in PagesOf(address, n) /\ n # 0
      BY <2>1, <2>2, CellOnRangePage
    <2> QED
      BY <2>2, <2>3, Zenon DEF valid_access
  <1>4. ASSUME NEW address \in Address, NEW b \in Byte, FastmemStore(address, b)
        PROVE  Write \in page_state[page_index(a)] \/ page_index(a) \in torn
    <2>1. a = address /\ Write \in host[page_index(a)]
      BY <1>4, Zenon DEF FastmemStore, MemoryInv, TypeOK
    <2> QED
      BY <1>0, <2>1
         DEF MemoryInv, FastmemAgrees, host_protection, Read, Write, Execute
  <1> QED
    BY <1>1, <1>2, <1>3, <1>4, Zenon DEF Next

\* No store, through write() or through fastmem, reaches a page without guest
\* write permission unless a failed mprotect left the page writable, and no
\* read-only page loses its bytes unless unmap takes it or says that it failed.
THEOREM StoresAreChecked == Spec => StoreNeedsWritePermission
  BY InitMemoryInv, NextMemoryInv, StepStoreAllowed, PTL
     DEF Spec, StoreNeedsWritePermission

(***************************************************************************)
(* The inductive invariant.                                                *)
(***************************************************************************)

LoadedSegments ==
    [guest_address : Nat, mapping_start : Nat, mapping_end : Nat, offset : Nat,
     file_size : Nat, memory_size : Nat, permissions : Permissions]

Cells(s) == s.mapping_start .. s.mapping_end - 1
FileCells(s) == s.guest_address .. s.guest_address + s.file_size - 1

\* What planning and the preflight establish of a segment.
SegmentOK(s) ==
    /\ s \in LoadedSegments
    /\ valid_permissions(s.permissions)
    /\ s.mapping_start <= s.guest_address
    /\ s.guest_address + s.memory_size <= s.mapping_end
    /\ s.mapping_end <= AddressSpaceSize
    /\ s.file_size <= s.memory_size /\ s.memory_size # 0
    /\ \A k \in 0 .. s.file_size - 1 : Image[s.offset + k] \in Byte

\* The memory before a call.
BeforeOK == \A p \in Page : before.page_state[p] = Unmapped \/ Mapped \in before.page_state[p]

\* The segments of a call lie apart from each other, on pages that were free.
PlannedOK ==
    /\ planned \in Seq(LoadedSegments)
    /\ \A i \in DOMAIN planned : SegmentOK(planned[i])
    /\ \A i, j \in DOMAIN planned : i # j => Pages(planned[i]) \cap Pages(planned[j]) = {}
    /\ \A i \in DOMAIN planned : \A p \in Pages(planned[i]) : before.page_state[p] = Unmapped

\* A page of the call.
Owned(p) == \E i \in DOMAIN planned : p \in Pages(planned[i])

\* Nothing else has changed since the call began.
Elsewhere ==
    /\ \A p \in Page : ~Owned(p) => page_state[p] = before.page_state[p]
    /\ \A a \in Address : ~Owned(page_index(a)) => contents[a] = before.contents[a]

\* No one runs guest code here: a page that is not mapped holds zeros, whatever
\* has happened to its host protection.
FreeCellsAreZero ==
    \A a \in Address : ~page_is_mapped(page_index(a)) => contents[a] = 0

Failed == pc = "rollback" \/ (pc = "returned" /\ error # "None")
Succeeding ==
    pc \in {"map", "write", "zero", "protect"} \/ (pc = "returned" /\ error = "None")

\* mapped_ranges holds the segments that are mapped, in their order; of the
\* others every page is free, or its unmap failed.
LedgerOK ==
    /\ ranges \in Seq(Nat) /\ Len(ranges) <= Len(planned)
    /\ \A k \in DOMAIN ranges : ranges[k] = k
    /\ Busy => next \in DOMAIN planned
    /\ pc \in {"map", "write", "zero", "protect"} => error = "None" /\ leaked = {}
    /\ pc = "rollback" => error # "None"
    /\ pc = "map" => Len(ranges) = next - 1
    /\ pc \in {"write", "zero", "protect"} => Len(ranges) = Len(planned)
    /\ pc = "returned" /\ error # "None" => ranges = <<>>
    /\ pc = "map" \/ Failed =>
          \A i \in DOMAIN planned : i > Len(ranges) =>
              \A p \in Pages(planned[i]) \ leaked : page_state[p] = Unmapped

\* The segments whose file bytes, and whose permissions, are in place.
Written(i) ==
    \/ pc = "write" /\ i < next
    \/ pc = "zero" /\ i <= next
    \/ pc \in {"protect", "returned"}

Protected(i) == (pc = "protect" /\ i < next) \/ pc = "returned"

ContentsOK ==
    Succeeding =>
        \A i \in DOMAIN planned :
            /\ \A a \in Cells(planned[i]) :
                  contents[a] = IF Written(i) /\ a \in FileCells(planned[i])
                                THEN Image[planned[i].offset + (a - planned[i].guest_address)]
                                ELSE 0
            /\ Protected(i) => \A p \in Pages(planned[i]) :
                                  page_state[p] = encode_page_state(planned[i].permissions)

LoaderInv ==
    /\ MemoryInv
    /\ FreeCellsAreZero
    /\ pc \in {"idle", "map", "write", "zero", "protect", "rollback", "returned"}
    /\ leaked \in SUBSET Page
    /\ calls \in 0 .. MaxCalls
    /\ PlannedOK /\ BeforeOK /\ Elsewhere /\ LedgerOK /\ ContentsOK
    /\ PlacementAccepted

(***************************************************************************)
(* What an operation of the memory does.                                   *)
(***************************************************************************)
LEMMA SetProtectionEffect ==
    ASSUME MemoryInv, FreeCellsAreZero, NEW address, NEW length, NEW perms \in Permissions,
           Map(address, length, perms) \/ Protect(address, length, perms)
    PROVE  /\ MemoryInv' /\ FreeCellsAreZero'
           /\ contents' = contents
           /\ \/ result' = TRUE /\ SetPageState(PagesOf(address, length), encode_page_state(perms))
              \/ result' = FALSE /\ page_state' = page_state
  <1> DEFINE pages == PagesOf(address, length)
  <1>1. pages \in SUBSET Page
    BY Zenon DEF PagesOf
  <1>2. \/ valid_permissions(perms) /\ SetProtection(pages, perms)
        \/ Refuse
    BY Zenon DEF Map, Protect, CanMap, CanProtect
  <1>3. MemoryInv'
    BY <1>1, <1>2, SetProtectionPreserves, RefusePreserves, Zenon
  <1>4. /\ contents' = contents
        /\ \/ result' = TRUE /\ SetPageState(pages, encode_page_state(perms))
           \/ result' = FALSE /\ page_state' = page_state
    BY <1>2, Zenon DEF SetProtection, Refuse, SetPageState
  <1>5. \A p \in Page : page_is_mapped(p) => page_is_mapped(p)'
    BY <1>4, EncodedState DEF SetPageState, page_is_mapped, MemoryInv, TypeOK
  <1>6. FreeCellsAreZero'
    BY <1>4, <1>5, PageIndexType, Zenon DEF FreeCellsAreZero
  <1> QED
    BY <1>3, <1>4, <1>6, Zenon

LEMMA UnmapEffect ==
    ASSUME MemoryInv, FreeCellsAreZero, NEW address, NEW length, Unmap(address, length)
    PROVE  /\ MemoryInv' /\ FreeCellsAreZero'
           /\ \A a \in Address :
                 contents'[a] = contents[a] \/ page_index(a) \in PagesOf(address, length)
           /\ \/ result' = TRUE /\ SetPageState(PagesOf(address, length), Unmapped)
              \/ result' = FALSE /\ page_state' = page_state
  <1> DEFINE pages == PagesOf(address, length)
  <1>1. MemoryInv'
    BY UnmapPreserves, Zenon
  <1>2. /\ contents' = contents \/ MadviseDontNeed(pages)
        /\ \/ result' = TRUE /\ SetPageState(pages, Unmapped) /\ MadviseDontNeed(pages)
           \/ result' = FALSE /\ page_state' = page_state
    BY Zenon DEF Unmap, Refuse, SetPageState
  <1> HIDE DEF pages
  <1>3. \A a \in Address : contents'[a] = contents[a] \/ page_index(a) \in pages
    BY <1>2, Zenon DEF MadviseDontNeed
  <1>4. \A a \in Address : contents'[a] = contents[a] \/ contents'[a] = 0
    BY <1>2, Zenon DEF MadviseDontNeed
  <1>5. FreeCellsAreZero'
    <2> SUFFICES ASSUME NEW a \in Address, ~page_is_mapped(page_index(a))'
                 PROVE  contents'[a] = 0
      BY DEF FreeCellsAreZero
    <2>1. page_index(a) \in Page
      BY PageIndexType, Zenon
    <2>2. CASE page_state' = page_state
      BY <1>4, <2>2, Zenon DEF FreeCellsAreZero, page_is_mapped
    <2>3. CASE SetPageState(pages, Unmapped) /\ MadviseDontNeed(pages)
      BY <1>4, <2>1, <2>3, Zenon DEF FreeCellsAreZero, page_is_mapped, SetPageState, MadviseDontNeed
    <2> QED
      BY <1>2, <2>2, <2>3, Zenon
  <1> QED
    BY <1>1, <1>2, <1>3, <1>5, Zenon DEF pages

LEMMA WriteEffect ==
    ASSUME MemoryInv, FreeCellsAreZero, NEW address \in Nat, NEW length \in Nat, NEW bytes,
           \A k \in 0 .. length - 1 : bytes[k] \in Byte,
           WriteBytes(address, length, bytes)
    PROVE  /\ MemoryInv' /\ FreeCellsAreZero'
           /\ page_state' = page_state
           /\ \/ /\ result' = TRUE
                 /\ \A a \in Address :
                       contents'[a] = IF a \in address .. address + length - 1
                                      THEN bytes[a - address] ELSE contents[a]
              \/ result' = FALSE /\ contents' = contents
  <1>1. MemoryInv'
    BY WritePreserves, Zenon
  <1>2. /\ page_state' = page_state
        /\ \/ /\ result' = TRUE /\ valid_access(address, length, Write)
              /\ \A a \in Address :
                    contents'[a] = IF a \in address .. address + length - 1
                                   THEN bytes[a - address] ELSE contents[a]
           \/ result' = FALSE /\ contents' = contents
    BY Zenon DEF WriteBytes, Refuse
  <1>3. ASSUME NEW a \in Address, a \in address .. address + length - 1,
               valid_access(address, length, Write)
        PROVE  page_is_mapped(page_index(a))
    <2>1. page_index(a) \in PagesOf(address, length) /\ length # 0
      BY <1>3, CellOnRangePage, SMTT(40)
    <2> QED
      BY <1>3, <2>1 DEF valid_access
  <1>4. FreeCellsAreZero'
    BY <1>2, <1>3, Zenon DEF FreeCellsAreZero, page_is_mapped
  <1> QED
    BY <1>1, <1>2, <1>4, Zenon

(***************************************************************************)
(* The pages of a call.                                                    *)
(***************************************************************************)

\* The cells of a segment are cells of the address space, on its pages.
LEMMA CellsOnPages ==
    ASSUME NEW s, SegmentOK(s), NEW a \in Cells(s)
    PROVE  a \in Address /\ page_index(a) \in Pages(s)
  <1>1. /\ s.mapping_start \in Nat /\ s.mapping_end \in Nat
        /\ s.mapping_end <= AddressSpaceSize /\ AddressSpaceSize \in Nat
    BY NumPagesAssumption, PageSizeAssumption DEF SegmentOK, LoadedSegments, AddressSpaceSize
  <1>2. a \in Nat /\ a >= s.mapping_start /\ a < s.mapping_end
    BY <1>1 DEF Cells
  <1>3. a \in Address
    BY <1>1, <1>2 DEF Address
  <1>4. /\ s.mapping_end - s.mapping_start \in Nat
        /\ a \in s.mapping_start .. s.mapping_start + (s.mapping_end - s.mapping_start) - 1
    BY <1>1, <1>2, SMTT(40)
  <1> QED
    BY <1>1, <1>3, <1>4, CellOnRangePage, Zenon DEF Pages, MappingSize

\* The cells that are written are cells of the segment.
LEMMA MemoryCells ==
    ASSUME NEW s, SegmentOK(s), NEW a \in Address,
           a \in s.guest_address .. s.guest_address + s.memory_size - 1
    PROVE  a \in Cells(s)
  BY DEF SegmentOK, LoadedSegments, Cells

\* The segments and the memory before the call are the call's, not a step's.
LEMMA PlannedKept ==
    ASSUME PlannedOK, BeforeOK, UNCHANGED <<planned, before>>
    PROVE  PlannedOK' /\ BeforeOK'
  <1>1. PlannedOK'
    BY Zenon DEF PlannedOK, SegmentOK, Pages, MappingSize, PagesOf
  <1>2. BeforeOK'
    BY Zenon DEF BeforeOK
  <1> QED
    BY <1>1, <1>2, SMTT(40)

\* A change to the pages of one segment leaves the rest alone.
LEMMA OneSegmentChanges ==
    ASSUME LoaderInv, UNCHANGED <<planned, before>>, NEW i \in DOMAIN planned,
           \A p \in Page : p \in Pages(planned[i]) \/ page_state'[p] = page_state[p],
           \A a \in Address : page_index(a) \in Pages(planned[i]) \/ contents'[a] = contents[a]
    PROVE  /\ PlannedOK' /\ BeforeOK' /\ Elsewhere'
           /\ \A j \in DOMAIN planned : j # i =>
                 /\ \A p \in Pages(planned[j]) : page_state'[p] = page_state[p]
                 /\ \A a \in Cells(planned[j]) : contents'[a] = contents[a]
  <1>1. PlannedOK' /\ BeforeOK'
    BY PlannedKept, Zenon DEF LoaderInv
  <1>2. \A p : Owned(p)' <=> Owned(p)
    BY Zenon DEF Owned
  <1>3. Elsewhere'
    BY <1>2, PageIndexType, Zenon DEF LoaderInv, Elsewhere, Owned
  <1>4. ASSUME NEW j \in DOMAIN planned, j # i
        PROVE  /\ \A p \in Pages(planned[j]) : page_state'[p] = page_state[p]
               /\ \A a \in Cells(planned[j]) : contents'[a] = contents[a]
    <2>1. Pages(planned[i]) \cap Pages(planned[j]) = {} /\ SegmentOK(planned[j])
      BY <1>4, Zenon DEF LoaderInv, PlannedOK
    <2>2. Pages(planned[j]) \subseteq Page
      BY Zenon DEF Pages, PagesOf
    <2> QED
      BY <2>1, <2>2, CellsOnPages, SMTT(40)
  <1> QED
    BY <1>1, <1>3, <1>4, Zenon

(***************************************************************************)
(* The passes.                                                             *)
(***************************************************************************)
LEMMA MapSegmentPreserves ==
    ASSUME LoaderInv, MapSegment
    PROVE  LoaderInv'
  <1> DEFINE s == planned[next]
  <1>1. /\ pc = "map" /\ Map(s.mapping_start, MappingSize(s), {Read, Write})
        /\ UNCHANGED <<planned, calls, placed, before, leaked>>
    BY Zenon DEF MapSegment, Segment
  <1>2. /\ next \in DOMAIN planned /\ planned \in Seq(LoadedSegments)
        /\ ranges \in Seq(Nat) /\ Len(ranges) = next - 1 /\ error = "None" /\ leaked = {}
        /\ \A k \in DOMAIN ranges : ranges[k] = k
    BY <1>1, Zenon DEF LoaderInv, LedgerOK, PlannedOK, Busy
  <1>3. next \in 1 .. Len(planned) /\ next \in Nat /\ Len(planned) \in Nat
    BY <1>2
  <1>4. /\ MemoryInv' /\ FreeCellsAreZero' /\ contents' = contents
        /\ \/ result' = TRUE /\ SetPageState(Pages(s), encode_page_state({Read, Write}))
           \/ result' = FALSE /\ page_state' = page_state
    <2>1. {Read, Write} \in Permissions
      BY Zenon DEF Permissions
    <2> QED
      BY <1>1, <2>1, SetProtectionEffect, Zenon DEF LoaderInv, Pages
  <1>5. \A p \in Page : p \in Pages(s) \/ page_state'[p] = page_state[p]
    BY <1>4 DEF SetPageState
  <1>6. /\ PlannedOK' /\ BeforeOK' /\ Elsewhere'
        /\ \A j \in DOMAIN planned : j # next =>
              \A p \in Pages(planned[j]) : page_state'[p] = page_state[p]
    BY <1>1, <1>2, <1>4, <1>5, OneSegmentChanges, Zenon
  <1> HIDE DEF s
  <1>7. ASSUME NEW j \in DOMAIN planned, NEW a \in Cells(planned[j])
        PROVE  contents[a] = 0
    BY <1>1, <1>7, Zenon DEF LoaderInv, ContentsOK, Succeeding, Written
  <1>8. CASE result' = FALSE
    <2>1. /\ pc' = "rollback" /\ error' = "MapFailed" /\ next' = next /\ ranges' = ranges
          /\ page_state' = page_state
      BY <1>4, <1>8 DEF MapSegment, Fail
    <2>2. LedgerOK'
      BY <1>1, <1>2, <1>3, <2>1, Zenon
      DEF LoaderInv, LedgerOK, Busy, Failed, Pages, MappingSize, PagesOf
    <2>3. ContentsOK' /\ PlacementAccepted'
      BY <2>1, Zenon DEF ContentsOK, Succeeding, PlacementAccepted
    <2> QED
      BY <1>1, <1>4, <1>6, <2>1, <2>2, <2>3, ZenonT(40) DEF LoaderInv
  <1>9. CASE result' = TRUE
    <2>1. /\ ranges' = Append(ranges, next) /\ error' = error
          /\ IF next < Len(planned) THEN next' = next + 1 /\ pc' = "map"
                                    ELSE next' = 1 /\ pc' = "write"
      BY <1>9 DEF MapSegment, Advance
    <2>2. /\ ranges' \in Seq(Nat) /\ Len(ranges') = next /\ \A k \in DOMAIN ranges' : ranges'[k] = k
      BY <1>2, <1>3, <2>1, SMTT(40)
    <2>3. LedgerOK'
      <3>1. next' \in DOMAIN planned /\ pc' \in {"map", "write"}
        BY <1>2, <1>3, <2>1, SMTT(40)
      <3>2. /\ pc' = "map" => Len(ranges') = next' - 1
            /\ pc' # "map" => Len(ranges') = Len(planned)
        BY <1>3, <2>1, <2>2, SMTT(40)
      <3>3. ASSUME pc' = "map", NEW i \in DOMAIN planned, i > Len(ranges'), NEW p \in Pages(planned[i])
            PROVE  page_state'[p] = Unmapped
        <4>1. i # next /\ i > Len(ranges)
          BY <1>2, <1>3, <2>2, <3>3, SMTT(40)
        <4>2. page_state[p] = Unmapped
          BY <1>1, <1>2, <3>3, <4>1, Zenon DEF LoaderInv, LedgerOK
        <4> QED
          BY <1>6, <3>3, <4>1, <4>2, ZenonT(40)
      <3> QED
        BY <1>1, <1>2, <1>3, <2>1, <2>2, <3>1, <3>2, <3>3, SMTT(40)
           DEF LedgerOK, Failed, Pages, MappingSize, PagesOf
    <2>4. ContentsOK'
      <3>1. pc' \in {"map", "write"} /\ (pc' = "write" => next' = 1)
        BY <2>1, Zenon
      <3>2. ASSUME NEW i \in DOMAIN planned
            PROVE  ~Written(i)' /\ ~Protected(i)'
        BY <1>2, <1>3, <3>1, SMTT(40) DEF Written, Protected
      <3> QED
        BY <1>1, <1>4, <1>7, <3>2, Zenon DEF ContentsOK, Cells
    <2>5. PlacementAccepted'
      BY <1>1, <2>1, Zenon DEF LoaderInv, PlacementAccepted
    <2>6. pc' \in {"map", "write"}
      BY <2>1, Zenon
    <2> QED
      BY <1>1, <1>4, <1>6, <2>3, <2>4, <2>5, <2>6, Zenon DEF LoaderInv
  <1> QED
    BY <1>4, <1>8, <1>9, Zenon

\* A later call that fails leaves the segments mapped and turns to rollback().
LEMMA FailPreserves ==
    ASSUME LoaderInv, pc \in {"write", "zero", "protect"},
           NEW e \in {"WriteFailed", "ProtectFailed"}, Fail(e),
           MemoryInv', FreeCellsAreZero', page_state' = page_state, contents' = contents,
           UNCHANGED <<planned, ranges, calls, placed, before, leaked>>
    PROVE  LoaderInv'
  <1>1. pc' = "rollback" /\ error' = e /\ next' = next
    BY DEF Fail
  <1>2. /\ next \in DOMAIN planned /\ planned \in Seq(LoadedSegments) /\ ranges \in Seq(Nat)
        /\ Len(ranges) = Len(planned) /\ \A k \in DOMAIN ranges : ranges[k] = k
    BY Zenon DEF LoaderInv, LedgerOK, PlannedOK, Busy
  <1>3. PlannedOK' /\ BeforeOK' /\ Elsewhere'
    BY <1>2, OneSegmentChanges, Zenon
  <1>4. \A i \in DOMAIN planned : ~(i > Len(ranges))
    BY <1>2, SMTT(40)
  <1>5. LedgerOK'
    BY <1>1, <1>2, <1>4, SMTT(40) DEF LedgerOK, Failed
  <1>6. ContentsOK' /\ PlacementAccepted'
    BY <1>1, Zenon DEF ContentsOK, Succeeding, PlacementAccepted
  <1> QED
    BY <1>1, <1>3, <1>5, <1>6, Zenon DEF LoaderInv

\* A write into segment next that leaves what ContentsOK says of it.
LEMMA WritePassPreserves ==
    ASSUME LoaderInv, pc \in {"write", "zero"}, pc' \in {"write", "zero", "protect"},
           next' \in DOMAIN planned, error' = error,
           \A i \in DOMAIN planned : Written(i)' <=> i = next \/ Written(i),
           \A i \in DOMAIN planned : ~Protected(i)',
           UNCHANGED <<planned, ranges, calls, placed, before, leaked>>,
           MemoryInv', FreeCellsAreZero', page_state' = page_state,
           \A a \in Address : a \in Cells(planned[next]) \/ contents'[a] = contents[a],
           \A a \in Cells(planned[next]) :
               contents'[a] = IF a \in FileCells(planned[next])
                              THEN Image[planned[next].offset + (a - planned[next].guest_address)]
                              ELSE 0
    PROVE  LoaderInv'
  <1>1. /\ next \in DOMAIN planned /\ planned \in Seq(LoadedSegments) /\ ranges \in Seq(Nat)
        /\ Len(ranges) = Len(planned) /\ \A k \in DOMAIN ranges : ranges[k] = k
        /\ error = "None" /\ leaked = {} /\ SegmentOK(planned[next])
    BY Zenon DEF LoaderInv, LedgerOK, PlannedOK, Busy
  <1>2. \A a \in Address : page_index(a) \in Pages(planned[next]) \/ contents'[a] = contents[a]
    BY <1>1, CellsOnPages, Zenon
  <1>3. /\ PlannedOK' /\ BeforeOK' /\ Elsewhere'
        /\ \A j \in DOMAIN planned : j # next =>
              \A a \in Cells(planned[j]) : contents'[a] = contents[a]
    BY <1>1, <1>2, OneSegmentChanges, ZenonT(40)
  <1>4. LedgerOK'
    BY <1>1 DEF LedgerOK, Failed, Busy
  <1>5. ASSUME NEW j \in DOMAIN planned, NEW a \in Cells(planned[j])
        PROVE  contents'[a] = IF Written(j)' /\ a \in FileCells(planned[j])
                              THEN Image[planned[j].offset + (a - planned[j].guest_address)]
                              ELSE 0
    <2>1. CASE j = next
      BY <1>5, <2>1, Zenon
    <2>2. CASE j # next
      <3>1. contents'[a] = contents[a] /\ (Written(j)' <=> Written(j))
        BY <1>3, <1>5, <2>2, Zenon
      <3>2. contents[a] = IF Written(j) /\ a \in FileCells(planned[j])
                          THEN Image[planned[j].offset + (a - planned[j].guest_address)]
                          ELSE 0
        BY <1>5, Zenon DEF LoaderInv, ContentsOK, Succeeding
      <3> QED
        BY <3>1, <3>2, Zenon
    <2> QED
      BY <2>1, <2>2, Zenon
  <1>6. ContentsOK'
    <2>1. ASSUME NEW j \in DOMAIN planned
          PROVE  (\A a \in Cells(planned[j]) :
                     contents[a] = IF Written(j) /\ a \in FileCells(planned[j])
                                   THEN Image[planned[j].offset + (a - planned[j].guest_address)]
                                   ELSE 0)'
      BY <1>5, <2>1, ZenonT(40) DEF Cells, FileCells
    <2> QED
      BY <2>1, Zenon DEF ContentsOK
  <1>7. PlacementAccepted'
    BY Zenon DEF LoaderInv, PlacementAccepted
  <1> QED
    BY <1>3, <1>4, <1>6, <1>7, Zenon DEF LoaderInv

LEMMA WriteFilePreserves ==
    ASSUME LoaderInv, WriteFile
    PROVE  LoaderInv'
  <1> DEFINE s == planned[next]
             bytes == [k \in 0 .. s.file_size - 1 |-> Image[s.offset + k]]
  <1>1. /\ pc = "write" /\ WriteBytes(s.guest_address, s.file_size, bytes)
        /\ UNCHANGED <<planned, ranges, calls, placed, before, leaked>>
    BY Zenon DEF WriteFile, Segment
  <1>2. next \in DOMAIN planned /\ planned \in Seq(LoadedSegments) /\ SegmentOK(s)
    BY <1>1, Zenon DEF LoaderInv, LedgerOK, PlannedOK, Busy
  <1>3. next \in Nat /\ \A i \in DOMAIN planned : i \in Nat
    BY <1>2
  <1>4. /\ s.guest_address \in Nat /\ s.file_size \in Nat /\ s.memory_size \in Nat
        /\ s.file_size <= s.memory_size
    BY <1>2, Zenon DEF SegmentOK, LoadedSegments
  <1>5. /\ MemoryInv' /\ FreeCellsAreZero' /\ page_state' = page_state
        /\ \/ /\ result' = TRUE
              /\ \A a \in Address : contents'[a] = IF a \in FileCells(s)
                                                   THEN bytes[a - s.guest_address] ELSE contents[a]
           \/ result' = FALSE /\ contents' = contents
    <2>1. \A k \in 0 .. s.file_size - 1 : bytes[k] \in Byte
      BY <1>2, Zenon DEF SegmentOK, LoadedSegments
    <2>2. MemoryInv /\ FreeCellsAreZero
      BY Zenon DEF LoaderInv
    <2> HIDE DEF bytes
    <2> QED
      BY <1>1, <1>4, <2>1, <2>2, WriteEffect, ZenonT(40) DEF FileCells
  <1>6. CASE result' = FALSE
    <2>1. Fail("WriteFailed")
      BY <1>6 DEF WriteFile
    <2> QED
      BY <1>1, <1>5, <1>6, <2>1, FailPreserves, ZenonT(40)
  <1>7. CASE result' = TRUE
    <2>1. pc' = "zero" /\ next' = next /\ error' = error
      BY <1>7, Zenon DEF WriteFile
    <2>2. \A i \in DOMAIN planned : (Written(i)' <=> i = next \/ Written(i)) /\ ~Protected(i)'
      BY <1>1, <1>3, <2>1, SMTT(40) DEF Written, Protected
    <2>3. ASSUME NEW a \in Address, a \in FileCells(s)
          PROVE  a \in Cells(s) /\ bytes[a - s.guest_address] = Image[s.offset + (a - s.guest_address)]
      <3>1. a \in s.guest_address .. s.guest_address + s.memory_size - 1
            /\ a - s.guest_address \in 0 .. s.file_size - 1
        <4> HIDE DEF s
        <4> QED
          BY <1>4, <2>3 DEF FileCells
      <3> QED
        BY <1>2, <3>1, MemoryCells, ZenonT(40)
    <2> HIDE DEF bytes
    <2>4. ASSUME NEW a \in Cells(s)
          PROVE  contents'[a] = IF a \in FileCells(s)
                                THEN Image[s.offset + (a - s.guest_address)] ELSE 0
      <3>1. a \in Address
        BY <1>2, CellsOnPages, ZenonT(40)
      <3>2. ~Written(next)
        BY <1>1, <1>3 DEF Written
      <3>3. contents[a] = 0
        BY <1>1, <1>2, <3>2, Zenon DEF LoaderInv, ContentsOK, Succeeding
      <3> QED
        BY <1>5, <1>7, <2>3, <3>1, <3>3, ZenonT(40)
    <2>5. \A a \in Address : a \in Cells(s) \/ contents'[a] = contents[a]
      BY <1>5, <1>7, <2>3, ZenonT(40)
    <2> QED
      BY <1>1, <1>2, <1>5, <2>1, <2>2, <2>4, <2>5, WritePassPreserves, Zenon
  <1> QED
    BY <1>5, <1>6, <1>7, Zenon

LEMMA ZeroTailPreserves ==
    ASSUME LoaderInv, ZeroTail
    PROVE  LoaderInv'
  <1> DEFINE s == planned[next]
             tail == s.memory_size - s.file_size
             start == s.guest_address + s.file_size
             bytes == [k \in 0 .. tail - 1 |-> 0]
  <1>1. /\ pc = "zero" /\ WriteBytes(start, tail, bytes)
        /\ UNCHANGED <<planned, ranges, calls, placed, before, leaked>>
    BY Zenon DEF ZeroTail, Segment
  <1>2. next \in DOMAIN planned /\ planned \in Seq(LoadedSegments) /\ SegmentOK(s)
    BY <1>1, Zenon DEF LoaderInv, LedgerOK, PlannedOK, Busy
  <1>3. /\ next \in Nat /\ Len(planned) \in Nat /\ next \in 1 .. Len(planned)
        /\ DOMAIN planned = 1 .. Len(planned)
    BY <1>2, SMTT(40)
  <1>4. /\ s.guest_address \in Nat /\ s.file_size \in Nat /\ s.memory_size \in Nat
        /\ s.file_size <= s.memory_size
    BY <1>2, Zenon DEF SegmentOK, LoadedSegments
  <1>5. start \in Nat /\ tail \in Nat
    <2> HIDE DEF s
    <2> QED
      BY <1>4
  <1>6. /\ MemoryInv' /\ FreeCellsAreZero' /\ page_state' = page_state
        /\ \/ /\ result' = TRUE
              /\ \A a \in Address : contents'[a] = IF a \in start .. start + tail - 1
                                                   THEN bytes[a - start] ELSE contents[a]
           \/ result' = FALSE /\ contents' = contents
    <2>1. \A k \in 0 .. tail - 1 : bytes[k] \in Byte
      BY ByteAssumption, Zenon
    <2> HIDE DEF bytes, start, tail
    <2> QED
      BY <1>1, <1>5, <2>1, WriteEffect, Zenon DEF LoaderInv
  <1>7. CASE result' = FALSE
    <2>1. Fail("WriteFailed")
      BY <1>7 DEF ZeroTail
    <2> QED
      BY <1>1, <1>6, <1>7, <2>1, FailPreserves, ZenonT(40)
  <1>8. CASE result' = TRUE
    <2>1. /\ error' = error
          /\ IF next < Len(planned) THEN next' = next + 1 /\ pc' = "write"
                                    ELSE next' = 1 /\ pc' = "protect"
      BY <1>8, Zenon DEF ZeroTail, Advance
    <2>2. next' \in DOMAIN planned /\ pc' \in {"write", "protect"}
      BY <1>3, <2>1, SMTT(40)
    <2>3. \A i \in DOMAIN planned : (Written(i)' <=> i = next \/ Written(i)) /\ ~Protected(i)'
      <3>1. CASE next < Len(planned)
        BY <1>1, <1>3, <2>1, <3>1, SMTT(40) DEF Written, Protected
      <3>2. CASE ~(next < Len(planned))
        BY <1>1, <1>3, <2>1, <3>2, SMTT(40) DEF Written, Protected
      <3> QED
        BY <3>1, <3>2, Zenon
    <2>4. ASSUME NEW a \in Address, a \in start .. start + tail - 1
          PROVE  a \in Cells(s) /\ a \notin FileCells(s) /\ bytes[a - start] = 0
      <3>1. /\ a \in s.guest_address .. s.guest_address + s.memory_size - 1
            /\ a \notin FileCells(s) /\ a - start \in 0 .. tail - 1
        <4> HIDE DEF s
        <4> QED
          BY <1>4, <2>4 DEF FileCells
      <3> QED
        BY <1>2, <3>1, MemoryCells, ZenonT(40)
    <2> HIDE DEF bytes, start, tail
    <2>5. ASSUME NEW a \in Cells(s)
          PROVE  contents'[a] = IF a \in FileCells(s)
                                THEN Image[s.offset + (a - s.guest_address)] ELSE 0
      <3>1. a \in Address
        BY <1>2, CellsOnPages, Zenon
      <3>2. Written(next)
        BY <1>1, <1>3 DEF Written
      <3>3. contents[a] = IF a \in FileCells(s)
                          THEN Image[s.offset + (a - s.guest_address)] ELSE 0
        BY <1>1, <1>2, <3>2, Zenon DEF LoaderInv, ContentsOK, Succeeding
      <3> QED
        BY <1>6, <1>8, <2>4, <3>1, <3>3, ZenonT(40)
    <2>6. \A a \in Address : a \in Cells(s) \/ contents'[a] = contents[a]
      BY <1>6, <1>8, <2>4, ZenonT(40)
    <2> QED
      BY <1>1, <1>2, <1>6, <2>1, <2>2, <2>3, <2>5, <2>6, WritePassPreserves, ZenonT(40)
  <1> QED
    BY <1>6, <1>7, <1>8, ZenonT(40)

LEMMA ProtectSegmentPreserves ==
    ASSUME LoaderInv, ProtectSegment
    PROVE  LoaderInv'
  <1> DEFINE s == planned[next]
  <1>1. /\ pc = "protect" /\ Protect(s.mapping_start, MappingSize(s), s.permissions)
        /\ UNCHANGED <<planned, ranges, calls, placed, before, leaked>>
    BY Zenon DEF ProtectSegment, Segment
  <1>2. /\ next \in DOMAIN planned /\ planned \in Seq(LoadedSegments) /\ ranges \in Seq(Nat)
        /\ Len(ranges) = Len(planned) /\ \A k \in DOMAIN ranges : ranges[k] = k
        /\ error = "None" /\ leaked = {} /\ SegmentOK(s)
    BY <1>1, Zenon DEF LoaderInv, LedgerOK, PlannedOK, Busy
  <1>3. /\ next \in Nat /\ Len(planned) \in Nat /\ next \in 1 .. Len(planned)
        /\ DOMAIN planned = 1 .. Len(planned)
    BY <1>2
  <1>4. /\ MemoryInv' /\ FreeCellsAreZero' /\ contents' = contents
        /\ \/ result' = TRUE /\ SetPageState(Pages(s), encode_page_state(s.permissions))
           \/ result' = FALSE /\ page_state' = page_state
    <2>1. s.permissions \in Permissions
      BY <1>2, Zenon DEF SegmentOK, LoadedSegments
    <2> QED
      BY <1>1, <2>1, SetProtectionEffect, Zenon DEF LoaderInv, Pages
  <1>5. CASE result' = FALSE
    <2>1. Fail("ProtectFailed")
      BY <1>5, Zenon DEF ProtectSegment
    <2> QED
      BY <1>1, <1>4, <1>5, <2>1, FailPreserves, ZenonT(40)
  <1>6. CASE result' = TRUE
    <2>1. /\ error' = error
          /\ IF next < Len(planned) THEN next' = next + 1 /\ pc' = "protect"
                                    ELSE next' = 1 /\ pc' = "returned"
      BY <1>6, Zenon DEF ProtectSegment, Advance
    <2>2. pc' \in {"protect", "returned"} /\ next' \in DOMAIN planned
      BY <1>3, <2>1
    <2>3. \A p \in Page : p \in Pages(s) \/ page_state'[p] = page_state[p]
      BY <1>4, <1>6, Zenon DEF SetPageState
    <2>4. /\ PlannedOK' /\ BeforeOK' /\ Elsewhere'
          /\ \A j \in DOMAIN planned : j # next =>
                \A p \in Pages(planned[j]) : page_state'[p] = page_state[p]
      BY <1>1, <1>2, <1>4, <2>3, OneSegmentChanges, ZenonT(40)
    <2>5. LedgerOK'
      BY <1>1, <1>2, <2>1, <2>2, SMTT(40) DEF LedgerOK, Failed, Busy
    <2>6. ASSUME NEW j \in DOMAIN planned
          PROVE  /\ Written(j) /\ Written(j)'
                 /\ Protected(j)' => j = next \/ Protected(j)
      BY <1>1, <1>3, <2>1, SMTT(40) DEF Written, Protected
    <2>7. ASSUME NEW j \in DOMAIN planned, Protected(j)', NEW p \in Pages(planned[j])
          PROVE  page_state'[p] = encode_page_state(planned[j].permissions)
      <3>1. p \in Page
        BY Zenon DEF Pages, PagesOf
      <3>2. CASE j = next
        BY <1>4, <1>6, <2>7, <3>1, <3>2, Zenon DEF SetPageState
      <3>3. CASE j # next
        BY <1>1, <2>4, <2>6, <2>7, <3>3, Zenon DEF LoaderInv, ContentsOK, Succeeding
      <3> QED
        BY <3>2, <3>3
    <2>8. ASSUME NEW j \in DOMAIN planned, NEW a \in Cells(planned[j])
          PROVE  contents'[a] = IF a \in FileCells(planned[j])
                                THEN Image[planned[j].offset + (a - planned[j].guest_address)]
                                ELSE 0
      BY <1>1, <1>4, <2>6, <2>8, ZenonT(40) DEF LoaderInv, ContentsOK, Succeeding
    <2>9. ContentsOK'
      BY <1>1, <2>6, <2>7, <2>8, ZenonT(40)
      DEF ContentsOK, Cells, FileCells, Pages, MappingSize, PagesOf
    <2>10. PlacementAccepted'
      BY <1>1, <2>1, Zenon DEF LoaderInv, PlacementAccepted
    <2> QED
      BY <1>1, <1>4, <2>2, <2>4, <2>5, <2>9, <2>10, ZenonT(40) DEF LoaderInv
  <1> QED
    BY <1>4, <1>5, <1>6, Zenon

\* rollback(): the last range is unmapped, or its pages are noted.
LEMMA RollbackPreserves ==
    ASSUME LoaderInv, Rollback
    PROVE  LoaderInv'
  <1>1. pc = "rollback" /\ UNCHANGED <<planned, next, error, calls, placed, before>>
    BY Zenon DEF Rollback
  <1>2. /\ next \in DOMAIN planned /\ planned \in Seq(LoadedSegments) /\ ranges \in Seq(Nat)
        /\ Len(ranges) <= Len(planned) /\ \A k \in DOMAIN ranges : ranges[k] = k
        /\ error # "None" /\ leaked \in SUBSET Page
    BY <1>1, Zenon DEF LoaderInv, LedgerOK, PlannedOK, Busy
  <1>3. PlacementAccepted'
    BY <1>1 DEF LoaderInv, PlacementAccepted
  <1>4. CASE ranges = <<>>
    <2>1. pc' = "returned" /\ UNCHANGED <<memVars, ranges, leaked>>
      BY <1>4, Zenon DEF Rollback
    <2>2. MemoryInv' /\ FreeCellsAreZero'
      BY <2>1, Zenon
      DEF LoaderInv, MemoryInv, TypeOK, FastmemAgrees, UnmappedPagesAreZero, page_is_mapped,
                  FreeCellsAreZero, memVars
    <2>3. PlannedOK' /\ BeforeOK' /\ Elsewhere'
      BY <1>1, <1>2, <2>1, OneSegmentChanges, ZenonT(40) DEF memVars
    <2>4. LedgerOK'
      BY <1>1, <1>2, <1>4, <2>1, ZenonT(40) DEF LoaderInv, LedgerOK, Failed, Busy, memVars
    <2>5. ContentsOK'
      BY <1>1, <1>2, <2>1, Zenon DEF ContentsOK, Succeeding
    <2> QED
      BY <1>1, <1>2, <1>3, <2>1, <2>2, <2>3, <2>4, <2>5, ZenonT(40) DEF LoaderInv
  <1>5. CASE ranges # <<>>
    <2> DEFINE n == Len(ranges)
               s == planned[n]
    <2>1. n \in 1 .. Len(planned) /\ ranges[n] = n /\ n \in DOMAIN planned
      BY <1>2, <1>5
    <2>2. /\ Unmap(s.mapping_start, MappingSize(s))
          /\ leaked' = IF result' THEN leaked ELSE leaked \cup Pages(s)
          /\ ranges' = SubSeq(ranges, 1, Len(ranges) - 1) /\ pc' = pc
      BY <1>5, <2>1, Zenon DEF Rollback
    <2>3. /\ MemoryInv' /\ FreeCellsAreZero'
          /\ \A a \in Address : contents'[a] = contents[a] \/ page_index(a) \in Pages(s)
          /\ \/ result' = TRUE /\ SetPageState(Pages(s), Unmapped)
             \/ result' = FALSE /\ page_state' = page_state
      BY <2>2, UnmapEffect, Zenon DEF LoaderInv, Pages
    <2>4. \A p \in Page : p \in Pages(s) \/ page_state'[p] = page_state[p]
      BY <2>3, Zenon DEF SetPageState
    <2>5. /\ PlannedOK' /\ BeforeOK' /\ Elsewhere'
          /\ \A j \in DOMAIN planned : j # n =>
                \A p \in Pages(planned[j]) : page_state'[p] = page_state[p]
      BY <1>1, <2>1, <2>3, <2>4, OneSegmentChanges, ZenonT(40)
    <2>6. /\ ranges' \in Seq(Nat) /\ Len(ranges') = n - 1
          /\ \A k \in DOMAIN ranges' : ranges'[k] = k
      <3>1. /\ n \in Nat /\ Len(ranges) = n /\ n >= 1 /\ DOMAIN ranges = 1 .. n
            /\ ranges' = SubSeq(ranges, 1, n - 1)
        BY <1>2, <2>1, <2>2, SMTT(40)
      <3> HIDE DEF n
      <3> QED
        BY <1>2, <3>1, SMTT(40)
    <2>7. ASSUME NEW i \in DOMAIN planned, i > Len(ranges'), NEW p \in Pages(planned[i]), p \notin leaked'
          PROVE  page_state'[p] = Unmapped
      <3>1. p \in Page
        BY Zenon DEF Pages, PagesOf
      <3>2. CASE i = n
        BY <2>2, <2>3, <2>7, <3>1, <3>2, ZenonT(40) DEF SetPageState
      <3>3. CASE i # n
        <4>1. i > Len(ranges) /\ p \notin leaked
          BY <1>2, <2>1, <2>2, <2>6, <2>7, <3>3, SMTT(40)
        <4>2. page_state[p] = Unmapped
          BY <1>1, <2>7, <4>1, ZenonT(40) DEF LoaderInv, LedgerOK, Failed
        <4> QED
          BY <2>5, <2>7, <3>3, <4>2, ZenonT(40)
      <3> QED
        BY <3>2, <3>3, ZenonT(40)
    <2>8. LedgerOK'
      <3>1. Len(ranges') <= Len(planned)
        BY <1>2, <2>1, <2>6, SMTT(40)
      <3> QED
        BY <1>1, <1>2, <2>2, <2>6, <2>7, <3>1, ZenonT(40)
        DEF LedgerOK, Failed, Busy, Pages, MappingSize, PagesOf
    <2>9. ContentsOK'
      BY <1>1, <2>2, Zenon DEF ContentsOK, Succeeding
    <2>10. leaked' \in SUBSET Page
      <3>1. Pages(s) \subseteq Page
        BY Zenon DEF Pages, PagesOf
      <3> QED
        BY <1>2, <2>2, <3>1, Zenon
    <2> QED
      BY <1>1, <1>3, <2>2, <2>3, <2>5, <2>8, <2>9, <2>10, ZenonT(40) DEF LoaderInv
  <1> QED
    BY <1>4, <1>5, Zenon

(***************************************************************************)
(* The segments of a plan.                                                 *)
(***************************************************************************)

\* Nth enumerates a set of indices.
LEMMA NthMember ==
    ASSUME NEW n \in Nat, NEW S \in SUBSET (1 .. n), NEW i \in 1 .. Cardinality(S)
    PROVE  Nth(S, i) \in S /\ Cardinality({j \in S : j <= Nth(S, i)}) = i
  <1> DEFINE Upto(m) == {j \in S : j <= m}
             M == {m \in 0 .. n : Cardinality(Upto(m)) >= i}
  <1>1. IsFiniteSet(S) /\ Cardinality(S) \in Nat
    <2>1. IsFiniteSet(1 .. n)
      BY FS_Interval
    <2>2. IsFiniteSet(S)
      BY <2>1, FS_Subset, Zenon
    <2> QED
      BY <2>2, FS_CardinalityType, Zenon
  <1>2. ASSUME NEW m PROVE IsFiniteSet(Upto(m)) /\ Cardinality(Upto(m)) \in Nat
    <2>1. IsFiniteSet(Upto(m))
      BY <1>1, FS_Subset, Zenon
    <2> QED
      BY <2>1, FS_CardinalityType, Zenon
  <1>3. \A j \in S : j \in Nat /\ 1 <= j /\ j <= n
    OBVIOUS
  <1>4. Upto(n) = S /\ Upto(0) = {}
    <2>1. \A j \in S : j <= n /\ ~(j <= 0)
      BY <1>3
    <2> QED
      BY <2>1, Zenon
  <1>5. ASSUME NEW m \in 1 .. n
        PROVE  /\ m \notin S => Upto(m) = Upto(m - 1)
               /\ m \in S => Upto(m) = Upto(m - 1) \cup {m} /\ m \notin Upto(m - 1)
    <2>1. \A j \in S : j <= m <=> j <= m - 1 \/ j = m
      BY <1>3, <1>5, SMTT(40)
    <2>2. ~(m <= m - 1)
      BY <1>5, SMTT(40)
    <2> QED
      BY <2>1, <2>2, Zenon
  <1>6. Cardinality(Upto(n)) >= i /\ Cardinality(Upto(0)) = 0
    BY <1>1, <1>4, FS_EmptySet, SMTT(40)
  <1> HIDE DEF Upto
  <1>7. n \in M /\ 0 \notin M
    BY <1>6
  <1>8. PICK m \in M : \A k \in M : m <= k
    <2>1. M \in SUBSET Nat /\ M # {}
      BY <1>7
    <2> HIDE DEF M
    <2> QED
      BY <2>1, LeastNatural, Zenon
  <1>9. m \in 1 .. n /\ m - 1 \in 0 .. n /\ m - 1 \notin M
    <2>1. m \in 0 .. n /\ m # 0
      BY <1>7, Zenon
    <2>2. ~(m <= m - 1)
      BY <2>1, SMTT(40)
    <2> HIDE DEF M
    <2> QED
      BY <1>8, <2>1, <2>2, SMTT(40)
  <1>10. Cardinality(Upto(m - 1)) < i /\ Cardinality(Upto(m)) >= i
    BY <1>2, <1>8, <1>9, SMTT(40)
  <1>11. m \in S
    BY <1>2, <1>5, <1>9, <1>10, Zenon
  <1>12. Cardinality(Upto(m)) = Cardinality(Upto(m - 1)) + 1
    BY <1>2, <1>5, <1>9, <1>11, FS_AddElement, Zenon
  <1>13. Cardinality(Upto(m)) = i
    BY <1>2, <1>10, <1>12, SMTT(40)
  <1> QED
    BY <1>11, <1>13, Zenon DEF Nth, Upto

\* What the contract of a plan says of its types.
LEMMA PlanTypes ==
    ASSUME NEW plan \in Plans
    PROVE  /\ plan.segments \in Seq(PlanSegments)
           /\ plan.dynamic_segment \in Seq(PlanDynamicSegments)
           /\ plan.relro_segments \in Seq(PlanRelroSegments)
           /\ plan.minimum_page \in Nat /\ plan.maximum_page_end \in Nat
           /\ plan.required_load_bias_alignment \in Nat \ {0}
           /\ plan.minimum_page < plan.maximum_page_end
           /\ plan.minimum_page % PageSize = 0
           /\ plan.maximum_page_end <= AddressSpaceSize
           /\ AddressSpaceSize \in Nat
  <1>1. WellFormed(plan)
    BY PlansAssumption, Zenon
  <1>2. AddressSpaceSize \in Nat
    BY NumPagesAssumption, PageSizeAssumption, SMTT(40) DEF AddressSpaceSize
  <1> QED
    BY <1>1, <1>2, Zenon DEF WellFormed, LoadPlans, BiasAlignmentFitsPages

\* A segment of a plan, and one that takes up memory.
LEMMA PlanSegment ==
    ASSUME NEW plan \in Plans, NEW k \in DOMAIN plan.segments
    PROVE  plan.segments[k] \in PlanSegments /\ SegmentWellFormed(plan, plan.segments[k])
  <1>1. plan.segments[k] \in PlanSegments
    BY PlanTypes
  <1>2. SegmentWellFormed(plan, plan.segments[k])
    BY PlansAssumption, Zenon DEF WellFormed
  <1> QED
    BY <1>1, <1>2, SMTT(40)

LEMMA SegmentFacts ==
    ASSUME NEW plan, NEW s \in PlanSegments, SegmentWellFormed(plan, s), s.memory_size # 0
    PROVE  /\ s.offset \in Nat /\ s.virtual_address \in Nat /\ s.file_size \in Nat
           /\ s.memory_size \in Nat /\ s.permissions \in Permissions
           /\ s.mapping_start \in Nat /\ s.mapping_end \in Nat
           /\ s.file_size <= s.memory_size /\ valid_permissions(s.permissions)
           /\ s.mapping_start <= s.virtual_address
           /\ s.virtual_address + s.memory_size <= s.mapping_end
           /\ plan.minimum_page <= s.mapping_start /\ s.mapping_end <= plan.maximum_page_end
  <1>1. /\ s.offset \in Nat /\ s.virtual_address \in Nat /\ s.file_size \in Nat
        /\ s.memory_size \in Nat /\ s.permissions \in Permissions
        /\ s.mapping_start \in Nat /\ s.mapping_end \in Nat
    BY Zenon DEF PlanSegments
  <1>2. valid_permissions(s.permissions)
    BY Zenon DEF SegmentWellFormed, decodable_flags, valid_permissions
  <1> QED
    BY <1>1, <1>2, Zenon DEF SegmentWellFormed

\* A bias the preflight accepts moves pages to pages, and not past the end.
LEMMA BiasFacts ==
    ASSUME NEW plan \in Plans, NEW base \in Nat \cup {NoBase}, bias_error(plan, base) = "None"
    PROVE  /\ load_bias(plan, base) \in Nat
           /\ load_bias(plan, base) % PageSize = 0
           /\ plan.maximum_page_end + load_bias(plan, base) <= AddressSpaceSize
  <1>1. CASE plan.type # "Dynamic"
    <2>1. load_bias(plan, base) = 0
      BY <1>1, Zenon DEF load_bias
    <2>2. 0 % PageSize = 0
      BY PageSizeAssumption, SmallRemainder, SMTT(40)
    <2> QED
      BY <2>1, <2>2, PlanTypes, SMTT(40)
  <1>2. CASE plan.type = "Dynamic"
    <2>1. /\ base # NoBase /\ base % PageSize = 0 /\ ~(base < plan.minimum_page)
          /\ ~(plan.maximum_page_end > AddressSpaceSize - load_bias(plan, base))
          /\ load_bias(plan, base) = base - plan.minimum_page
      BY <1>2, Zenon DEF bias_error, load_bias
    <2>2. base \in Nat
      BY <2>1, Zenon
    <2>3. (base - plan.minimum_page) % PageSize = 0
      BY <2>1, <2>2, PlanTypes, PageSizeAssumption, SumOfMultiples, SMTT(40)
    <2> QED
      BY <2>1, <2>2, <2>3, PlanTypes, SMTT(40)
  <1> QED
    BY <1>1, <1>2, Zenon

\* Pages of a range that a bias moved come from pages of the range.
LEMMA BiasedPages ==
    ASSUME NEW start \in Nat, NEW size \in Nat, NEW bias \in Nat, bias % PageSize = 0,
           NEW p \in PagesOf(start + bias, size)
    PROVE  p - (bias \div PageSize) \in PagesOf(start, size)
  <1> DEFINE b == bias \div PageSize
             q == start \div PageSize
             d == (start + bias) \div PageSize
             r == start % PageSize
             t == (start + bias) % PageSize
  <1>1. PageSize \in Nat \ {0} /\ NumPages \in Nat \ {0}
    BY PageSizeAssumption, NumPagesAssumption, Zenon
  <1>2. start + bias \in Nat
    OBVIOUS
  <1>3. /\ b \in Nat /\ bias = b * PageSize
        /\ q \in Nat /\ start = q * PageSize + r /\ r \in 0 .. PageSize - 1
        /\ d \in Nat /\ start + bias = d * PageSize + t /\ t \in 0 .. PageSize - 1
    <2>1. b \in Nat /\ bias = b * PageSize
      BY <1>1, Division
    <2>2. q \in Nat /\ start = q * PageSize + r /\ r \in 0 .. PageSize - 1
      <3>1. start \in Int
        OBVIOUS
      <3> QED
        BY <1>1, <3>1, Division, Zenon
    <2>3. d \in Nat /\ start + bias = d * PageSize + t /\ t \in 0 .. PageSize - 1
      <3>1. start + bias \in Int
        OBVIOUS
      <3> QED
        BY <1>1, <1>2, <3>1, Division, Zenon
    <2> QED
      BY <2>1, <2>2, <2>3, Zenon
  <1>4. /\ p \in Page /\ p >= d /\ p * PageSize < start + bias + size
    BY Zenon DEF PagesOf, page_index
  <1>5. p \in Nat
    BY <1>1, <1>4 DEF Page
  <1> HIDE DEF b, q, d, r, t
  <1>6. d = q + b
    <2>1. d \in Int /\ q + b \in Int
      BY <1>3, SMTT(40)
    <2>2. d * PageSize - (q + b) * PageSize = r - t
      BY <1>1, <1>3, SMTT(40)
    <2>3. d * PageSize - (q + b) * PageSize < PageSize /\ (q + b) * PageSize - d * PageSize < PageSize
      BY <1>1, <1>3, <2>2, SMTT(40)
    <2> QED
      BY <1>1, <2>1, <2>3, CloseMultiples, Zenon
  <1>7. p - b >= q /\ p - b \in Page
    BY <1>1, <1>3, <1>4, <1>5, <1>6, SMTT(40) DEF Page
  <1>8. (p - b) * PageSize < start + size
    BY <1>1, <1>3, <1>4, <1>5, SMTT(40)
  <1> QED
    BY <1>7, <1>8, Zenon DEF PagesOf, page_index, b, q

\* planned_segments lists the segments that take up memory, each where the bias
\* puts it, apart from each other.
LEMMA PlannedSegments ==
    ASSUME NEW plan \in Plans, NEW base \in Nat \cup {NoBase}, bias_error(plan, base) = "None"
    PROVE  LET segments == planned_segments(plan, load_bias(plan, base)) IN
           /\ segments \in Seq(LoadedSegments) /\ 1 \in DOMAIN segments
           /\ \A i \in DOMAIN segments : SegmentOK(segments[i])
           /\ \A i, j \in DOMAIN segments :
                 i # j => Pages(segments[i]) \cap Pages(segments[j]) = {}
  <1> DEFINE bias == load_bias(plan, base)
             occupied == {k \in DOMAIN plan.segments : plan.segments[k].memory_size # 0}
             segments == planned_segments(plan, bias)
             n == Cardinality(occupied)
             source(i) == plan.segments[Nth(occupied, i)]
  <1>1. /\ bias \in Nat /\ bias % PageSize = 0 /\ plan.maximum_page_end + bias <= AddressSpaceSize
        /\ AddressSpaceSize \in Nat /\ plan.maximum_page_end \in Nat
    BY BiasFacts, PlanTypes, Zenon
  <1>2. plan.segments \in Seq(PlanSegments) /\ WellFormed(plan)
    BY PlanTypes, PlansAssumption, Zenon
  <1>3. Len(plan.segments) \in Nat /\ occupied \in SUBSET (1 .. Len(plan.segments))
    BY <1>2
  <1>4. n \in Nat /\ n # 0
    <2>1. IsFiniteSet(1 .. Len(plan.segments))
      BY <1>3, FS_Interval
    <2>2. IsFiniteSet(occupied)
      BY <1>3, <2>1, FS_Subset, Zenon
    <2>3. occupied # {}
      BY <1>2, Zenon DEF WellFormed
    <2> HIDE DEF occupied
    <2> QED
      BY <2>2, <2>3, FS_CardinalityType, FS_EmptySet, Zenon
  <1>5. segments = [i \in 1 .. n |-> Biased(source(i), bias)]
    BY Zenon DEF planned_segments
  <1>6. ASSUME NEW i \in 1 .. n
        PROVE  Nth(occupied, i) \in occupied /\ Cardinality({j \in occupied : j <= Nth(occupied, i)}) = i
    <2> HIDE DEF occupied
    <2> QED
      BY <1>3, <1>6, NthMember, Zenon
  <1>7. ASSUME NEW i \in 1 .. n
        PROVE  /\ source(i) \in PlanSegments /\ SegmentWellFormed(plan, source(i))
               /\ source(i).memory_size # 0
               /\ \A k \in 0 .. source(i).file_size - 1 : Image[source(i).offset + k] \in Byte
    <2> DEFINE k == Nth(occupied, i)
    <2>1. k \in DOMAIN plan.segments /\ plan.segments[k].memory_size # 0
      BY <1>6, Zenon
    <2> HIDE DEF k
    <2>2. plan.segments[k] \in PlanSegments /\ SegmentWellFormed(plan, plan.segments[k])
      BY <2>1, PlanSegment, Zenon
    <2>3. \A o \in 0 .. plan.segments[k].file_size - 1 : Image[plan.segments[k].offset + o] \in Byte
      BY <2>1, ImageAssumption, Zenon
    <2> QED
      BY <2>1, <2>2, <2>3, Zenon DEF k
  <1> HIDE DEF bias, source, segments
  <1>8. ASSUME NEW i \in 1 .. n
        PROVE  SegmentOK(segments[i])
    <2> DEFINE x == source(i)
               y == Biased(x, bias)
    <2>1. segments[i] = y
      BY <1>5, Zenon
    <2>2. /\ x \in PlanSegments /\ SegmentWellFormed(plan, x) /\ x.memory_size # 0
          /\ \A k \in 0 .. x.file_size - 1 : Image[x.offset + k] \in Byte
      BY <1>7, Zenon
    <2> HIDE DEF x
    <2>3. /\ x.offset \in Nat /\ x.virtual_address \in Nat /\ x.file_size \in Nat
          /\ x.memory_size \in Nat /\ x.permissions \in Permissions
          /\ x.mapping_start \in Nat /\ x.mapping_end \in Nat
          /\ x.file_size <= x.memory_size /\ valid_permissions(x.permissions)
          /\ x.mapping_start <= x.virtual_address
          /\ x.virtual_address + x.memory_size <= x.mapping_end
          /\ x.mapping_end <= plan.maximum_page_end
      BY <2>2, SegmentFacts, ZenonT(40)
    <2>4. /\ y.guest_address = x.virtual_address + bias
          /\ y.mapping_start = x.mapping_start + bias /\ y.mapping_end = x.mapping_end + bias
          /\ y.offset = x.offset /\ y.file_size = x.file_size
          /\ y.memory_size = x.memory_size /\ y.permissions = x.permissions
      BY Zenon DEF Biased
    <2>5. y \in LoadedSegments
      <3>1. /\ x.virtual_address + bias \in Nat /\ x.mapping_start + bias \in Nat
            /\ x.mapping_end + bias \in Nat
        BY <1>1, <2>3, SMTT(40)
      <3> QED
        BY <2>3, <3>1, Zenon DEF Biased, LoadedSegments
    <2>6. /\ x.mapping_start + bias <= x.virtual_address + bias
          /\ (x.virtual_address + bias) + x.memory_size <= x.mapping_end + bias
          /\ x.mapping_end + bias <= AddressSpaceSize
      BY <1>1, <2>3, SMTT(40)
    <2> HIDE DEF y
    <2>7. SegmentOK(y)
      BY <2>2, <2>3, <2>4, <2>5, <2>6, Zenon DEF SegmentOK
    <2> QED
      BY <2>1, <2>7, Zenon
  <1>9. ASSUME NEW i \in 1 .. n, NEW j \in 1 .. n, i # j
        PROVE  Pages(segments[i]) \cap Pages(segments[j]) = {}
    <2> SUFFICES ASSUME NEW p \in Pages(segments[i]), p \in Pages(segments[j])
                 PROVE  FALSE
      BY Zenon
    <2>1. ASSUME NEW k \in 1 .. n, p \in Pages(segments[k])
          PROVE  p - (bias \div PageSize) \in SegmentPages(source(k))
      <3>1. /\ source(k).mapping_start \in Nat /\ source(k).mapping_end \in Nat
            /\ source(k).memory_size # 0 /\ source(k).mapping_start <= source(k).mapping_end
        <4>1. /\ source(k) \in PlanSegments /\ SegmentWellFormed(plan, source(k))
              /\ source(k).memory_size # 0
          BY <1>7, Zenon
        <4>2. /\ source(k).mapping_start \in Nat /\ source(k).virtual_address \in Nat
              /\ source(k).memory_size \in Nat /\ source(k).mapping_end \in Nat
              /\ source(k).mapping_start <= source(k).virtual_address
              /\ source(k).virtual_address + source(k).memory_size <= source(k).mapping_end
          BY <4>1, SegmentFacts, Zenon
        <4> QED
          BY <4>1, <4>2, SMTT(40)
      <3>2. source(k).mapping_end - source(k).mapping_start \in Nat
        BY <3>1
      <3>3. /\ segments[k].mapping_start = source(k).mapping_start + bias
            /\ MappingSize(segments[k]) = source(k).mapping_end - source(k).mapping_start
        <4>1. segments[k] = Biased(source(k), bias)
          BY <1>5, ZenonT(40)
        <4>2. /\ segments[k].mapping_start = source(k).mapping_start + bias
              /\ segments[k].mapping_end = source(k).mapping_end + bias
          BY <4>1, SMTT(40) DEF Biased
        <4>3. (source(k).mapping_end + bias) - (source(k).mapping_start + bias)
                = source(k).mapping_end - source(k).mapping_start
          BY <1>1, <3>1, SMTT(40)
        <4> QED
          BY <4>2, <4>3, Zenon DEF MappingSize
      <3>4. p \in PagesOf(source(k).mapping_start + bias,
                          source(k).mapping_end - source(k).mapping_start)
        BY <2>1, <3>3, Zenon DEF Pages
      <3> QED
        BY <1>1, <3>1, <3>2, <3>4, BiasedPages, ZenonT(40) DEF SegmentPages, RangePages
    <2>2. Nth(occupied, i) # Nth(occupied, j)
      BY <1>6, <1>9, Zenon
    <2>3. SegmentPages(source(i)) \cap SegmentPages(source(j)) = {}
      <3>1. Nth(occupied, i) \in DOMAIN plan.segments /\ Nth(occupied, j) \in DOMAIN plan.segments
        BY <1>6, ZenonT(40)
      <3> QED
        BY <1>2, <2>2, <3>1, Zenon DEF WellFormed, SegmentsDisjoint, source
    <2> QED
      BY <2>1, <2>3, Zenon
  <1>10. segments \in Seq(LoadedSegments) /\ DOMAIN segments = 1 .. n
    BY <1>4, <1>5, <1>8, SMTT(40) DEF SegmentOK
  <1>11. 1 \in 1 .. n
    <2> HIDE DEF n
    <2> QED
      BY <1>4
  <1> QED
    BY <1>8, <1>9, <1>10, <1>11, ZenonT(40) DEF segments, bias

(***************************************************************************)
(* The start of a call.                                                    *)
(***************************************************************************)
LEMMA PreflightPassed ==
    ASSUME NEW plan, NEW entry, NEW base, preflight_error(plan, entry, base) = "None"
    PROVE  /\ bias_error(plan, base) = "None"
           /\ LET segments == planned_segments(plan, load_bias(plan, base)) IN
              \A i \in DOMAIN segments : \A p \in Pages(segments[i]) : ~page_is_mapped(p)
  BY Zenon DEF preflight_error

\* A memory no call has changed yet.
LEMMA NothingChanged ==
    ASSUME MemoryInv, before' = [page_state |-> page_state', contents |-> contents'], MemoryInv'
    PROVE  BeforeOK' /\ Elsewhere'
  <1>1. before'.page_state = page_state' /\ before'.contents = contents'
    BY Zenon
  <1>2. \A p \in Page : page_state'[p] = Unmapped \/ Mapped \in page_state'[p]
    BY DEF MemoryInv, TypeOK, encode_page_state
  <1> QED
    BY <1>1, <1>2, Zenon DEF BeforeOK, Elsewhere

LEMMA BeginPreserves ==
    ASSUME LoaderInv, NEW plan \in Plans, NEW entry \in Entries, NEW base \in Nat \cup {NoBase},
           NEW from_placement \in BOOLEAN, Begin(plan, entry, base, from_placement),
           from_placement =>
               preflight_error(plan, entry, base) \in {"None", "EntryAddressOverflow"}
    PROVE  LoaderInv'
  <1>1. /\ calls' = calls + 1 /\ calls < MaxCalls /\ placed' = from_placement
        /\ before' = [page_state |-> page_state, contents |-> contents]
        /\ ranges' = <<>> /\ next' = 1 /\ leaked' = {} /\ UNCHANGED memVars
    BY Zenon DEF Begin
  <1>2. UNCHANGED <<page_state, host, contents, torn, result>>
    BY <1>1, Zenon DEF memVars
  <1>3. MemoryInv' /\ FreeCellsAreZero'
    BY <1>2, Zenon
    DEF LoaderInv, MemoryInv, TypeOK, FastmemAgrees, UnmappedPagesAreZero, page_is_mapped,
                FreeCellsAreZero
  <1>4. BeforeOK' /\ Elsewhere'
    BY <1>1, <1>2, <1>3, NothingChanged, Zenon DEF LoaderInv
  <1>5. leaked' \in SUBSET Page /\ calls' \in 0 .. MaxCalls
    BY <1>1, MaxCallsAssumption, SMTT(40) DEF LoaderInv
  <1>6. /\ ranges' \in Seq(Nat) /\ Len(ranges') = 0 /\ DOMAIN ranges' = {}
    BY <1>1
  <1>7. CASE preflight_error(plan, entry, base) # "None"
    <2>1. pc' = "returned" /\ error' = preflight_error(plan, entry, base) /\ planned' = <<>>
      BY <1>7, Zenon DEF Begin, Return
    <2>2. DOMAIN planned' = {} /\ Len(planned') = 0 /\ planned' \in Seq(LoadedSegments)
      BY <2>1
    <2>3. PlannedOK' /\ ContentsOK'
      BY <2>2, Zenon DEF PlannedOK, ContentsOK
    <2>4. LedgerOK'
      BY <1>1, <1>6, <1>7, <2>1, <2>2, SMTT(40) DEF LedgerOK, Busy
    <2>5. PlacementAccepted'
      BY <1>1, <1>7, <2>1, Zenon DEF PlacementAccepted
    <2> QED
      BY <1>3, <1>4, <1>5, <2>1, <2>3, <2>4, <2>5, Zenon DEF LoaderInv
  <1>8. CASE preflight_error(plan, entry, base) = "None"
    <2>1. /\ pc' = "map" /\ error' = "None"
          /\ planned' = planned_segments(plan, load_bias(plan, base))
      BY <1>8, Zenon DEF Begin, Return
    <2>2. /\ bias_error(plan, base) = "None"
          /\ \A i \in DOMAIN planned' : \A p \in Pages(planned'[i]) : ~page_is_mapped(p)
      BY <1>8, <2>1, PreflightPassed, Zenon
    <2>3. /\ planned' \in Seq(LoadedSegments) /\ 1 \in DOMAIN planned'
          /\ \A i \in DOMAIN planned' : SegmentOK(planned'[i])
          /\ \A i, j \in DOMAIN planned' :
                i # j => Pages(planned'[i]) \cap Pages(planned'[j]) = {}
      BY <2>1, <2>2, PlannedSegments, Zenon
    <2>4. ASSUME NEW i \in DOMAIN planned', NEW p \in Pages(planned'[i])
          PROVE  page_state[p] = Unmapped
      <3>1. p \in Page /\ ~page_is_mapped(p)
        BY <2>2, <2>4, Zenon DEF Pages, PagesOf
      <3> QED
        BY <3>1, SMTT(40) DEF LoaderInv, MemoryInv, TypeOK, encode_page_state, page_is_mapped
    <2>5. PlannedOK'
      <3>1. \A i \in DOMAIN planned' : SegmentOK(planned[i])'
        BY <2>3, Zenon DEF SegmentOK
      <3>2. \A i \in DOMAIN planned' : Pages(planned[i])' = Pages(planned'[i])
        BY Zenon DEF Pages, MappingSize, PagesOf
      <3> QED
        BY <1>1, <2>3, <2>4, <3>1, <3>2, Zenon DEF PlannedOK
    <2>6. ContentsOK'
      <3>1. ASSUME NEW i \in DOMAIN planned', NEW a \in Cells(planned'[i])
            PROVE  contents'[a] = 0
        <4>1. a \in Address /\ page_index(a) \in Pages(planned'[i])
          BY <2>3, <3>1, CellsOnPages, Zenon
        <4> QED
          BY <1>2, <2>2, <4>1, Zenon DEF LoaderInv, FreeCellsAreZero
      <3>2. \A i \in DOMAIN planned' : ~Written(i)' /\ ~Protected(i)'
        BY <2>1, Zenon DEF Written, Protected
      <3> QED
        BY <3>1, <3>2, Zenon DEF ContentsOK, Cells
    <2>7. LedgerOK'
      <3>1. Len(ranges') <= Len(planned') /\ Len(ranges') = next' - 1
        BY <1>1, <1>6, <2>3, SMTT(40)
      <3>2. \A i \in DOMAIN planned' : Pages(planned[i])' = Pages(planned'[i])
        BY Zenon DEF Pages, MappingSize, PagesOf
      <3> QED
        BY <1>1, <1>2, <1>6, <2>1, <2>3, <2>4, <3>1, <3>2, ZenonT(40) DEF LedgerOK, Busy, Failed
    <2>8. PlacementAccepted'
      BY <2>1, Zenon DEF PlacementAccepted
    <2> QED
      BY <1>3, <1>4, <1>5, <2>1, <2>5, <2>6, <2>7, <2>8, ZenonT(40) DEF LoaderInv
  <1> QED
    BY <1>7, <1>8, Zenon

LEMMA ClientPreserves ==
    ASSUME LoaderInv, Client
    PROVE  LoaderInv'
  <1>1. /\ calls < MaxCalls /\ calls' = calls + 1 /\ pc' = "idle"
        /\ planned' = <<>> /\ ranges' = <<>> /\ next' = 1 /\ error' = "None"
        /\ placed' = FALSE /\ leaked' = {}
        /\ before' = [page_state |-> page_state', contents |-> contents']
    BY Zenon DEF Client
  <1>2. MemoryInv' /\ FreeCellsAreZero'
    <2>1. PICK p \in Page :
             \/ Map(p * PageSize, PageSize, {Read, Write})
             \/ \E b \in Byte : WriteBytes(p * PageSize, PageSize, [k \in 0 .. PageSize - 1 |-> b])
             \/ Unmap(p * PageSize, PageSize)
      BY Zenon DEF Client
    <2>2. {Read, Write} \in Permissions /\ p * PageSize \in Nat /\ PageSize \in Nat
      BY NumPagesAssumption, PageSizeAssumption, SMTT(40) DEF Permissions, Page
    <2>3. ASSUME NEW b \in Byte, WriteBytes(p * PageSize, PageSize, [k \in 0 .. PageSize - 1 |-> b])
          PROVE  MemoryInv' /\ FreeCellsAreZero'
      <3> DEFINE bytes == [k \in 0 .. PageSize - 1 |-> b]
      <3>1. \A k \in 0 .. PageSize - 1 : bytes[k] \in Byte
        BY Zenon
      <3>2. WriteBytes(p * PageSize, PageSize, bytes)
        BY <2>3, Zenon
      <3> HIDE DEF bytes
      <3> QED
        BY <2>2, <3>1, <3>2, WriteEffect, Zenon DEF LoaderInv
    <2> QED
      BY <2>1, <2>2, <2>3, SetProtectionEffect, UnmapEffect, Zenon DEF LoaderInv
  <1>3. BeforeOK' /\ Elsewhere'
    BY <1>1, <1>2, NothingChanged, ZenonT(40) DEF LoaderInv
  <1>4. DOMAIN planned' = {} /\ Len(planned') = 0 /\ planned' \in Seq(LoadedSegments)
        /\ ranges' \in Seq(Nat) /\ Len(ranges') = 0 /\ DOMAIN ranges' = {}
    BY <1>1, SMTT(40)
  <1>5. PlannedOK' /\ ContentsOK' /\ LedgerOK' /\ PlacementAccepted'
    BY <1>1, <1>4, SMTT(40) DEF PlannedOK, ContentsOK, LedgerOK, Busy, Failed, PlacementAccepted
  <1>6. leaked' \in SUBSET Page /\ calls' \in 0 .. MaxCalls
    BY <1>1, MaxCallsAssumption, SMTT(40) DEF LoaderInv
  <1> QED
    BY <1>1, <1>2, <1>3, <1>5, <1>6, Zenon DEF LoaderInv

LEMMA InitLoaderInv == LoaderInit => LoaderInv
  <1> SUFFICES ASSUME LoaderInit
               PROVE  LoaderInv
    OBVIOUS
  <1> USE DEF LoaderInit
  <1>1. MemoryInv
    BY InitMemoryInv, Zenon
  <1>2. FreeCellsAreZero
    BY Zenon DEF Init, FreeCellsAreZero
  <1>3. before.page_state = page_state /\ before.contents = contents
    BY Zenon
  <1>4. BeforeOK /\ Elsewhere
    BY <1>3, Zenon DEF Init, BeforeOK, Elsewhere
  <1>5. DOMAIN planned = {} /\ Len(planned) = 0 /\ planned \in Seq(LoadedSegments)
        /\ ranges \in Seq(Nat) /\ Len(ranges) = 0 /\ DOMAIN ranges = {}
    BY SMTT(40)
  <1>6. PlannedOK /\ ContentsOK /\ LedgerOK /\ PlacementAccepted
    BY <1>5 DEF PlannedOK, ContentsOK, LedgerOK, Busy, Failed, PlacementAccepted
  <1> QED
    BY <1>1, <1>2, <1>4, <1>6, MaxCallsAssumption, SMTT(40) DEF LoaderInv

(***************************************************************************)
(* Placement.                                                              *)
(***************************************************************************)

\* What the search returns is a suitable base.
LEMMA FoundRange ==
    ASSUME NEW length, NEW begin, NEW end, NEW alignment, NEW offset, NEW found,
           found = find_free_guest_range(length, begin, end, alignment, offset),
           found.error = "None"
    PROVE  /\ found.base \in Address /\ found.base >= begin /\ found.base + length <= end
           /\ found.base % alignment = offset
           /\ \A p \in PagesOf(found.base, length) : ~page_is_mapped(p)
  <1> DEFINE suitable == {a \in Address :
                             /\ a >= begin /\ a + length <= end
                             /\ a % alignment = offset
                             /\ \A p \in PagesOf(a, length) : ~page_is_mapped(p)}
  <1>1. suitable # {} /\ found.base = First(suitable)
    BY Zenon DEF find_free_guest_range
  <1>2. suitable \in SUBSET Nat
    BY NumPagesAssumption, PageSizeAssumption, SMTT(40) DEF Address, AddressSpaceSize
  <1>3. First(suitable) \in suitable
    <2> HIDE DEF suitable
    <2> QED
      BY <1>1, <1>2, LeastNatural, Zenon DEF First
  <1> QED
    BY <1>1, <1>3, Zenon

\* Later addresses lie on later pages.
LEMMA PageOrder ==
    ASSUME NEW x \in Nat, NEW y \in Nat, x <= y
    PROVE  x \div PageSize <= y \div PageSize
  <1> DEFINE p == x \div PageSize
             q == y \div PageSize
  <1>1. PageSize \in Nat \ {0} /\ x \in Int /\ y \in Int
    BY PageSizeAssumption
  <1>2. /\ p \in Nat /\ x = p * PageSize + (x % PageSize) /\ x % PageSize \in 0 .. PageSize - 1
        /\ q \in Nat /\ y = q * PageSize + (y % PageSize) /\ y % PageSize \in 0 .. PageSize - 1
    BY <1>1, Division, Zenon
  <1> HIDE DEF p, q
  <1>3. p * PageSize < q * PageSize + PageSize
    BY <1>1, <1>2, SMTT(40)
  <1>4. ~(p >= q + 1)
    <2> SUFFICES ASSUME p - q - 1 \in Nat
                 PROVE  FALSE
      BY <1>2, SMTT(40)
    <2>1. (p - q - 1) * PageSize >= 0
      BY <1>1
    <2> QED
      BY <1>1, <1>2, <1>3, <2>1, SMTT(40)
  <1> QED
    BY <1>2, <1>4, SMTT(40) DEF p, q

\* The part of a range is on pages of the range.
LEMMA PagesOfPart ==
    ASSUME NEW x \in Nat, NEW n \in Nat, NEW y \in Nat, NEW m \in Nat,
           x <= y, y + m <= x + n, NEW p \in PagesOf(y, m)
    PROVE  p \in PagesOf(x, n)
  <1>1. p \in Page /\ p >= y \div PageSize /\ p * PageSize < y + m
    BY Zenon DEF PagesOf, page_index
  <1>2. p \in Nat /\ x \div PageSize \in Nat /\ y \div PageSize \in Nat /\ p * PageSize \in Nat
    <2>1. PageSize \in Nat \ {0} /\ NumPages \in Nat \ {0} /\ x \in Int /\ y \in Int
      BY PageSizeAssumption, NumPagesAssumption, SMTT(40)
    <2>2. x \div PageSize \in Nat /\ y \div PageSize \in Nat
      BY <2>1, Division, Zenon
    <2>3. p \in Nat
      BY <1>1, <2>1 DEF Page
    <2> QED
      BY <2>1, <2>2, <2>3, SMTT(40)
  <1>3. x \div PageSize <= y \div PageSize
    BY PageOrder, Zenon
  <1>4. p >= x \div PageSize /\ p * PageSize < x + n
    <2> DEFINE i == x \div PageSize
               j == y \div PageSize
               c == p * PageSize
    <2> HIDE DEF i, j, c
    <2>1. i \in Nat /\ j \in Nat /\ c \in Nat /\ p >= j /\ c < y + m /\ i <= j
      BY <1>1, <1>2, <1>3, ZenonT(40) DEF i, j, c
    <2>2. p >= i /\ c < x + n
      BY <1>2, <2>1, SMTT(40)
    <2> QED
      BY <2>2, Zenon DEF i, c
  <1> QED
    BY <1>1, <1>4, ZenonT(40) DEF PagesOf, page_index

\* The base placement returns has a bias that load_elf32 accepts.
LEMMA PlacementBias ==
    ASSUME NEW plan \in Plans, NEW window \in Windows,
           place_elf32_dynamic(plan, window).error = "None"
    PROVE  LET base == place_elf32_dynamic(plan, window).base IN
           /\ base \in Nat /\ plan.type = "Dynamic"
           /\ bias_error(plan, base) = "None"
           /\ \A p \in PagesOf(base, plan.maximum_page_end - plan.minimum_page) : ~page_is_mapped(p)
  <1> DEFINE base == place_elf32_dynamic(plan, window).base
             span == plan.maximum_page_end - plan.minimum_page
             required == plan.required_load_bias_alignment
             alignment == IF PageSize > required THEN PageSize ELSE required
             begin == IF window[1] > plan.minimum_page THEN window[1] ELSE plan.minimum_page
             offset == plan.minimum_page % alignment
             search == find_free_guest_range(span, begin, window[2], alignment, offset)
  <1>1. /\ window[2] <= AddressSpaceSize /\ plan.type = "Dynamic" /\ alignment % PageSize = 0
        /\ search.error = "None" /\ base = search.base
    <2>1. window[2] \in Nat /\ AddressSpaceSize \in Nat
      BY InputsAssumption, PlanTypes, Zenon
    <2>2. ~(window[2] > AddressSpaceSize) /\ plan.type = "Dynamic" /\ alignment % PageSize = 0
          /\ place_elf32_dynamic(plan, window) = search
      BY ZenonT(40) DEF place_elf32_dynamic
    <2>3. \A x, y \in Nat : ~(x > y) => x <= y
      OBVIOUS
    <2> QED
      BY <2>1, <2>2, <2>3, Zenon
  <1>2. /\ base \in Address /\ base >= begin /\ base + span <= window[2]
        /\ base % alignment = offset
        /\ \A p \in PagesOf(base, span) : ~page_is_mapped(p)
    <2> HIDE DEF base, span, alignment, begin, offset
    <2> DEFINE end == window[2]
    <2>1. search = find_free_guest_range(span, begin, end, alignment, offset) /\ search.error = "None"
      BY <1>1, Zenon
    <2> HIDE DEF search, end
    <2>2. /\ search.base \in Address /\ search.base >= begin
          /\ search.base + span <= end /\ search.base % alignment = offset
          /\ \A p \in PagesOf(search.base, span) : ~page_is_mapped(p)
      BY ONLY <2>1, FoundRange, SMTT(40)
    <2> QED
      BY <1>1, <2>2, Zenon DEF end
  <1>3. /\ plan.minimum_page \in Nat /\ plan.maximum_page_end \in Nat
        /\ required \in Nat \ {0} /\ plan.minimum_page % PageSize = 0
        /\ plan.minimum_page < plan.maximum_page_end
        /\ AddressSpaceSize \in Nat /\ window[1] \in Nat /\ window[2] \in Nat
        /\ PageSize \in Nat \ {0}
        /\ PageSize % required = 0 \/ required % PageSize = 0
    BY PlanTypes, InputsAssumption, PageSizeAssumption, PlansAssumption, ZenonT(40)
       DEF WellFormed, BiasAlignmentFitsPages
  <1>4. base \in Nat /\ base >= plan.minimum_page /\ alignment \in Nat \ {0}
    BY <1>2, <1>3, SMTT(40) DEF Address
  <1> HIDE DEF base, search
  <1>5. base - plan.minimum_page \in Int /\ (base - plan.minimum_page) % alignment = 0
    <2>1. base \in Int /\ plan.minimum_page \in Int
      BY <1>3, <1>4, SMTT(40)
    <2> HIDE DEF alignment
    <2> QED
      BY <1>2, <1>4, <2>1, CongruentDifference, SMTT(40)
  <1>6. (base - plan.minimum_page) % PageSize = 0
    <2> HIDE DEF alignment
    <2> QED
      BY <1>1, <1>3, <1>4, <1>5, DivisorOfMultiple, ZenonT(40)
  <1>7. base % PageSize = 0
    <2>1. base - plan.minimum_page + plan.minimum_page = base
      BY <1>3, <1>4, SMTT(40)
    <2>2. (base - plan.minimum_page + plan.minimum_page) % PageSize = 0
      BY <1>3, <1>5, <1>6, SumOfMultiples, SMTT(40)
    <2> QED
      BY <2>1, <2>2, Zenon
  <1>8. required > 1 => (base - plan.minimum_page) % required = 0
    <2>1. CASE PageSize > required
      <3>1. PageSize % required = 0
        <4>1. required % PageSize = required
          BY <1>3, <2>1, SmallRemainder, SMTT(40)
        <4> QED
          BY <1>3, <4>1, Zenon
      <3> QED
        BY <1>3, <1>5, <1>6, <3>1, DivisorOfMultiple, ZenonT(40)
    <2>2. CASE ~(PageSize > required)
      BY <1>5, <2>2, ZenonT(40)
    <2> QED
      BY <2>1, <2>2, Zenon
  <1>9. plan.maximum_page_end <= AddressSpaceSize - (base - plan.minimum_page)
    <2> DEFINE first == plan.minimum_page
               last == plan.maximum_page_end
               end == window[2]
    <2>1. /\ first \in Nat /\ last \in Nat /\ end \in Nat /\ base \in Nat
          /\ AddressSpaceSize \in Nat
          /\ base + (last - first) <= end /\ end <= AddressSpaceSize
      BY <1>1, <1>2, <1>3, <1>4, Zenon
    <2> HIDE DEF first, last, end
    <2>2. last <= AddressSpaceSize - (base - first)
      BY <2>1
    <2> QED
      BY <2>2, Zenon DEF first, last
  <1>10. bias_error(plan, base) = "None"
    <2>1. base # NoBase /\ ~(base < plan.minimum_page)
          /\ ~(plan.maximum_page_end > AddressSpaceSize - (base - plan.minimum_page))
      BY <1>3, <1>4, <1>9, SMTT(40) DEF NoBase
    <2>2. load_bias(plan, base) = base - plan.minimum_page
      BY <1>1, Zenon DEF load_bias
    <2> QED
      BY <1>1, <1>7, <1>8, <2>1, <2>2, ZenonT(40) DEF bias_error
  <1> QED
    BY <1>1, <1>2, <1>4, <1>10, ZenonT(40) DEF base

\* No address check fails after a bias that is in order.
LEMMA BiasedAddressesFit ==
    ASSUME NEW plan \in Plans, NEW base \in Nat \cup {NoBase}, bias_error(plan, base) = "None"
    PROVE  LET bias == load_bias(plan, base)
               segments == planned_segments(plan, bias)
           IN
           /\ \A i \in DOMAIN plan.dynamic_segment :
                 LET d == plan.dynamic_segment[i] IN
                 ~Overflows(d.virtual_address + bias, 0, d.virtual_address + bias + d.memory_size)
           /\ \A i \in DOMAIN plan.relro_segments :
                 LET r == plan.relro_segments[i] IN
                 ~Overflows(r.virtual_address + bias, r.mapping_start + bias, r.mapping_end + bias)
           /\ \A i \in DOMAIN segments :
                 ~Overflows(segments[i].guest_address, segments[i].mapping_start,
                            segments[i].mapping_end)
  <1> DEFINE bias == load_bias(plan, base)
             segments == planned_segments(plan, bias)
  <1>1. /\ bias \in Nat /\ plan.maximum_page_end + bias <= AddressSpaceSize
        /\ AddressSpaceSize \in Nat \ {0} /\ plan.maximum_page_end \in Nat
    BY BiasFacts, PlanTypes, NumPagesAssumption, PageSizeAssumption, SMTT(40) DEF AddressSpaceSize
  <1>2. WellFormed(plan)
    BY PlansAssumption, Zenon
  <1>3. \A i \in DOMAIN segments : SegmentOK(segments[i])
    BY PlannedSegments, Zenon
  <1> HIDE DEF bias, segments
  <1>4. ASSUME NEW i \in DOMAIN plan.dynamic_segment
        PROVE  LET d == plan.dynamic_segment[i] IN
               ~Overflows(d.virtual_address + bias, 0, d.virtual_address + bias + d.memory_size)
    <2> DEFINE d == plan.dynamic_segment[i]
    <2>1. d \in PlanDynamicSegments
      BY PlanTypes, SMTT(40)
    <2>2. PICK k \in DOMAIN plan.segments :
             LET s == plan.segments[k] IN
             /\ s.memory_size # 0 /\ d.memory_size # 0
             /\ d.virtual_address + d.memory_size <= s.virtual_address + s.memory_size
      BY <1>2, Zenon DEF WellFormed, DynamicBacked
    <2> DEFINE s == plan.segments[k]
    <2>3. s \in PlanSegments /\ SegmentWellFormed(plan, s) /\ s.memory_size # 0
      BY <2>2, PlanSegment, Zenon
    <2> HIDE DEF d, s
    <2>4. /\ s.virtual_address \in Nat /\ s.memory_size \in Nat /\ s.mapping_end \in Nat
          /\ d.virtual_address \in Nat /\ d.memory_size \in Nat /\ d.memory_size # 0
          /\ d.virtual_address + d.memory_size <= s.virtual_address + s.memory_size
          /\ s.virtual_address + s.memory_size <= s.mapping_end
          /\ s.mapping_end <= plan.maximum_page_end
      <3>1. d.virtual_address \in Nat /\ d.memory_size \in Nat
        BY <2>1, Zenon DEF PlanDynamicSegments
      <3>2. /\ d.memory_size # 0
            /\ d.virtual_address + d.memory_size <= s.virtual_address + s.memory_size
        BY <2>2, Zenon DEF s
      <3> QED
        BY <2>3, <3>1, <3>2, SegmentFacts, Zenon
    <2>5. ~Overflows(d.virtual_address + bias, 0, d.virtual_address + bias + d.memory_size)
      BY <1>1, <2>4, SMTT(40) DEF Overflows
    <2> QED
      BY <2>5, Zenon DEF d
  <1>5. ASSUME NEW i \in DOMAIN plan.relro_segments
        PROVE  LET r == plan.relro_segments[i] IN
               ~Overflows(r.virtual_address + bias, r.mapping_start + bias, r.mapping_end + bias)
    <2> DEFINE r == plan.relro_segments[i]
    <2>1. r \in PlanRelroSegments
      BY PlanTypes
    <2>2. /\ r.mapping_start <= r.virtual_address /\ r.virtual_address < r.mapping_end
          /\ r.mapping_end <= plan.maximum_page_end
      BY <1>2, Zenon DEF WellFormed, RelroBacked
    <2> HIDE DEF r
    <2> QED
      BY <1>1, <2>1, <2>2, SMTT(40) DEF Overflows, PlanRelroSegments, r
  <1>6. ASSUME NEW i \in DOMAIN segments
        PROVE  ~Overflows(segments[i].guest_address, segments[i].mapping_start,
                          segments[i].mapping_end)
    <2> DEFINE s == segments[i]
    <2>1. SegmentOK(s)
      BY <1>3, Zenon
    <2> HIDE DEF s
    <2>2. /\ s.mapping_start \in Nat /\ s.guest_address \in Nat /\ s.mapping_end \in Nat
          /\ s.memory_size \in Nat /\ s.memory_size # 0
          /\ s.mapping_start <= s.guest_address /\ s.mapping_end <= AddressSpaceSize
          /\ s.guest_address + s.memory_size <= s.mapping_end
      BY <2>1, Zenon DEF SegmentOK, LoadedSegments
    <2>3. ~Overflows(s.guest_address, s.mapping_start, s.mapping_end)
      BY <1>1, <2>2, SMTT(40) DEF Overflows
    <2> QED
      BY <2>3, Zenon DEF s
  <1> QED
    BY <1>4, <1>5, <1>6, ZenonT(40) DEF segments, bias

\* The preflight of a placed base finds nothing wrong but perhaps the entry.
LEMMA PlacementPreflight ==
    ASSUME NEW plan \in Plans, NEW entry \in Entries, NEW window \in Windows,
           place_elf32_dynamic(plan, window).error = "None"
    PROVE  LET base == place_elf32_dynamic(plan, window).base IN
           preflight_error(plan, entry, base) \in {"None", "EntryAddressOverflow"}
  <1> DEFINE base == place_elf32_dynamic(plan, window).base
             bias == load_bias(plan, base)
             segments == planned_segments(plan, bias)
             span == plan.maximum_page_end - plan.minimum_page
  <1>1. /\ base \in Nat /\ plan.type = "Dynamic" /\ bias_error(plan, base) = "None"
        /\ \A p \in PagesOf(base, span) : ~page_is_mapped(p)
    BY PlacementBias, Zenon
  <1> HIDE DEF base
  <1>2. /\ plan.minimum_page \in Nat /\ plan.maximum_page_end \in Nat
        /\ plan.minimum_page < plan.maximum_page_end /\ bias = base - plan.minimum_page
    BY <1>1, PlanTypes, ZenonT(40) DEF load_bias
  <1>3. ASSUME NEW i \in DOMAIN segments, NEW p \in Pages(segments[i])
        PROVE  ~page_is_mapped(p)
    <2>1. SegmentOK(segments[i])
      BY <1>1, PlannedSegments, Zenon
    <2>2. \E k \in DOMAIN plan.segments :
             plan.segments[k].memory_size # 0 /\ segments[i] = Biased(plan.segments[k], bias)
      <3> DEFINE occupied == {k \in DOMAIN plan.segments : plan.segments[k].memory_size # 0}
      <3>1. i \in 1 .. Cardinality(occupied)
            /\ segments[i] = Biased(plan.segments[Nth(occupied, i)], bias)
        BY ZenonT(40) DEF planned_segments
      <3>2. Len(plan.segments) \in Nat /\ occupied \in SUBSET (1 .. Len(plan.segments))
        <4>1. plan.segments \in Seq(PlanSegments)
          BY PlanTypes, Zenon
        <4> QED
          BY <4>1
      <3>3. Nth(occupied, i) \in occupied
        <4> HIDE DEF occupied, segments
        <4> QED
          BY <3>1, <3>2, NthMember, Zenon
      <3> QED
        BY <3>1, <3>3, ZenonT(40)
    <2>3. PICK k \in DOMAIN plan.segments :
             plan.segments[k].memory_size # 0 /\ segments[i] = Biased(plan.segments[k], bias)
      BY <2>2, Zenon
    <2> DEFINE s == plan.segments[k]
    <2>4. s \in PlanSegments /\ SegmentWellFormed(plan, s) /\ s.memory_size # 0
      BY <2>3, PlanSegment, ZenonT(40)
    <2> HIDE DEF segments, s
    <2>5. /\ s.mapping_start \in Nat /\ s.mapping_end \in Nat
          /\ plan.minimum_page <= s.mapping_start /\ s.mapping_end <= plan.maximum_page_end
          /\ s.mapping_start <= s.mapping_end
      <3>1. /\ s.mapping_start \in Nat /\ s.virtual_address \in Nat /\ s.memory_size \in Nat
            /\ s.mapping_end \in Nat /\ s.mapping_start <= s.virtual_address
            /\ s.virtual_address + s.memory_size <= s.mapping_end
            /\ plan.minimum_page <= s.mapping_start /\ s.mapping_end <= plan.maximum_page_end
        BY <2>4, SegmentFacts, ZenonT(40)
      <3> QED
        BY <3>1
    <2>6. /\ segments[i].mapping_start = s.mapping_start + bias
          /\ segments[i].mapping_end = s.mapping_end + bias
      <3>1. segments[i] = Biased(s, bias)
        BY <2>3, ZenonT(40) DEF s
      <3>2. /\ Biased(s, bias).mapping_start = s.mapping_start + bias
            /\ Biased(s, bias).mapping_end = s.mapping_end + bias
        BY Zenon DEF Biased
      <3> QED
        BY <3>1, <3>2, Zenon
    <2> DEFINE y == segments[i].mapping_start
               m == MappingSize(segments[i])
    <2>7. /\ y \in Nat /\ m \in Nat /\ base <= y /\ y + m <= base + span /\ span \in Nat
      <3> DEFINE lo == s.mapping_start
                 hi == s.mapping_end
                 first == plan.minimum_page
                 last == plan.maximum_page_end
      <3>1. /\ base \in Nat /\ first \in Nat /\ last \in Nat /\ first < last
            /\ bias = base - first /\ span = last - first
            /\ lo \in Nat /\ hi \in Nat /\ first <= lo /\ hi <= last /\ lo <= hi
        BY <1>1, <1>2, <2>5, ZenonT(40)
      <3>2. y = lo + bias /\ m = (hi + bias) - (lo + bias)
        BY <2>6, Zenon DEF MappingSize
      <3> HIDE DEF lo, hi, first, last, y, m, span, bias
      <3> QED
        BY <3>1, <3>2
    <2>8. p \in PagesOf(y, m)
      BY <1>3, Zenon DEF Pages
    <2> HIDE DEF y, m, span
    <2>9. p \in PagesOf(base, span)
      BY <1>1, <2>7, <2>8, PagesOfPart, ZenonT(40)
    <2> QED
      BY <1>1, <2>9, ZenonT(40)
  <1>4. preflight_error(plan, entry, base) \in {"None", "EntryAddressOverflow"}
    BY <1>1, <1>3, BiasedAddressesFit, ZenonT(40) DEF preflight_error
  <1> QED
    BY <1>4, Zenon DEF base

(***************************************************************************)
(* The theorems.                                                           *)
(***************************************************************************)
LEMMA NextLoaderInv == LoaderInv /\ [LoaderNext]_vars => LoaderInv'
  <1> SUFFICES ASSUME LoaderInv, [LoaderNext]_vars
               PROVE  LoaderInv'
    BY Zenon
  <1>1. CASE BeginAtBase
    <2>1. PICK plan \in Plans, entry \in Entries, base \in Bases \cup {NoBase} :
             Begin(plan, entry, base, FALSE)
      BY <1>1, Zenon DEF BeginAtBase
    <2>2. base \in Nat \cup {NoBase}
      BY InputsAssumption, Zenon
    <2> QED
      BY <2>1, <2>2, BeginPreserves, Zenon
  <1>2. CASE BeginPlaced
    <2>1. PICK plan \in Plans, entry \in Entries, window \in Windows :
             /\ place_elf32_dynamic(plan, window).error = "None"
             /\ Begin(plan, entry, place_elf32_dynamic(plan, window).base, TRUE)
      BY <1>2, Zenon DEF BeginPlaced
    <2> DEFINE base == place_elf32_dynamic(plan, window).base
    <2>2. base \in Nat /\ preflight_error(plan, entry, base) \in {"None", "EntryAddressOverflow"}
      BY <2>1, PlacementBias, PlacementPreflight, ZenonT(40)
    <2>3. Begin(plan, entry, base, TRUE)
      BY <2>1, Zenon
    <2> HIDE DEF base
    <2> QED
      BY <2>2, <2>3, BeginPreserves, ZenonT(40)
  <1>3. CASE LoadStep
    BY <1>3, MapSegmentPreserves, WriteFilePreserves, ZeroTailPreserves,
       ProtectSegmentPreserves,
       RollbackPreserves, ZenonT(40) DEF LoadStep
  <1>4. CASE UNCHANGED vars
    <2>1. UNCHANGED <<page_state, host, contents, torn, result, pc, planned, next, ranges, error,
                      calls, placed, before, leaked>>
      BY <1>4, Zenon DEF vars, memVars, loadVars
    <2>2. MemoryInv' /\ FreeCellsAreZero'
      BY <2>1, Zenon DEF LoaderInv, MemoryInv, TypeOK, FastmemAgrees, UnmappedPagesAreZero,
                  page_is_mapped, FreeCellsAreZero
    <2>3. PlannedOK' /\ BeforeOK' /\ Elsewhere'
      <3>1. PlannedOK' /\ BeforeOK'
        BY <2>1, PlannedKept, ZenonT(40) DEF LoaderInv
      <3>2. Elsewhere'
        BY <2>1, Zenon DEF LoaderInv, Elsewhere, Owned, Pages, MappingSize, PagesOf
      <3> QED
        BY <3>1, <3>2, SMTT(40)
    <2>4. LedgerOK'
      BY <2>1, Zenon DEF LoaderInv, LedgerOK, Busy, Failed, Pages, MappingSize, PagesOf
    <2>5. ContentsOK' /\ PlacementAccepted'
      <3>1. /\ Succeeding' = Succeeding
            /\ \A i : Written(i)' = Written(i) /\ Protected(i)' = Protected(i)
        BY <2>1, Zenon DEF Succeeding, Written, Protected
      <3>2. ContentsOK'
        BY <2>1, <3>1, Zenon
        DEF LoaderInv, ContentsOK, Cells, FileCells, Pages, MappingSize, PagesOf
      <3>3. PlacementAccepted'
        BY <2>1, ZenonT(40) DEF LoaderInv, PlacementAccepted
      <3> QED
        BY <3>2, <3>3, SMTT(40)
    <2> QED
      BY <2>1, <2>2, <2>3, <2>4, <2>5, ZenonT(40) DEF LoaderInv
  <1> QED
    BY <1>1, <1>2, <1>3, <1>4, ClientPreserves, SMTT(40) DEF LoaderNext

LEMMA LoaderInvHolds == LoaderSpec => []LoaderInv
  BY InitLoaderInv, NextLoaderInv, PTL DEF LoaderSpec

\* The state of a load has its type: every range that rollback() will unmap is
\* one of a planned segment.
THEOREM LoaderTypeCorrect == LoaderSpec => []LoaderTypeOK
  <1>1. LoaderInv => LoaderTypeOK
    <2> SUFFICES ASSUME LoaderInv
                 PROVE  \A k \in DOMAIN ranges : ranges[k] \in DOMAIN planned
      BY Zenon DEF LoaderInv, MemoryInv, LoaderTypeOK, LedgerOK
    <2>1. /\ ranges \in Seq(Nat) /\ planned \in Seq(LoadedSegments)
          /\ Len(ranges) <= Len(planned) /\ \A k \in DOMAIN ranges : ranges[k] = k
      BY Zenon DEF LoaderInv, LedgerOK, PlannedOK
    <2> QED
      BY <2>1, SMTT(40)
  <1> QED
    BY <1>1, LoaderInvHolds, PTL

\* A load that succeeds leaves exactly the image, with its permissions and with
\* zeros around it, for every plan that meets the contract (load_elf32).
THEOREM LoadIsExact == LoaderSpec => []LoadedExactly
  <1>1. LoaderInv => LoadedExactly
    BY Zenon
    DEF LoaderInv, ContentsOK, Succeeding, LoadedExactly, Written, Protected, Cells, FileCells
  <1> QED
    BY <1>1, LoaderInvHolds, PTL

\* A load that fails gives every page back but those whose unmap failed: the
\* rollback lambda of load_elf32.
THEOREM FailedLoadUndone == LoaderSpec => []FailedLoadRestores
  <1>1. LoaderInv => FailedLoadRestores
    <2> SUFFICES ASSUME LoaderInv, pc = "returned", error # "None", NEW p \in Page \ leaked
                 PROVE  page_state[p] = before.page_state[p]
      BY Zenon DEF FailedLoadRestores
    <2>1. CASE ~Owned(p)
      BY <2>1, Zenon DEF LoaderInv, Elsewhere
    <2>2. CASE Owned(p)
      <3>1. PICK i \in DOMAIN planned : p \in Pages(planned[i])
        BY <2>2, Zenon DEF Owned
      <3>2. planned \in Seq(LoadedSegments) /\ ranges = <<>> /\ before.page_state[p] = Unmapped
        BY <3>1, ZenonT(40) DEF LoaderInv, PlannedOK, LedgerOK
      <3>3. i > Len(ranges)
        BY <3>1, <3>2, SMTT(40)
      <3> QED
        BY <3>1, <3>2, <3>3, Zenon DEF LoaderInv, LedgerOK, Failed
    <2> QED
      BY <2>1, <2>2, Zenon
  <1> QED
    BY <1>1, LoaderInvHolds, PTL

\* No step of load_elf32, its rollback included, changes a page that was mapped
\* when the call began.
THEOREM LoadLeavesOthers == LoaderSpec => []OthersUntouched
  <1>1. LoaderInv => OthersUntouched
    <2> SUFFICES ASSUME LoaderInv, NEW p \in Page, Mapped \in before.page_state[p]
                 PROVE  /\ page_state[p] = before.page_state[p]
                        /\ \A a \in p * PageSize .. (p + 1) * PageSize - 1 :
                              contents[a] = before.contents[a]
      BY Zenon DEF OthersUntouched
    <2>1. ~Owned(p)
      BY ZenonT(40) DEF LoaderInv, PlannedOK, Owned, Unmapped
    <2>2. ASSUME NEW a \in p * PageSize .. (p + 1) * PageSize - 1
          PROVE  a \in Address /\ page_index(a) = p
      <3>1. PageSize \in Nat \ {0} /\ NumPages \in Nat \ {0} /\ p \in Nat /\ p + 1 <= NumPages
        BY PageSizeAssumption, NumPagesAssumption, SMTT(40) DEF Page
      <3>2. a \in Nat /\ p * PageSize <= a /\ a < p * PageSize + PageSize /\ a \in Int
        BY <3>1, SMTT(40)
      <3>3. a < NumPages * PageSize
        <4>1. (NumPages - (p + 1)) * PageSize >= 0
          BY <3>1, SMTT(40)
        <4> QED
          BY <3>1, <3>2, <4>1, SMTT(40)
      <3> DEFINE q == a \div PageSize
      <3>4. q \in Nat /\ a = q * PageSize + (a % PageSize) /\ a % PageSize \in 0 .. PageSize - 1
        BY <3>1, <3>2, Division, ZenonT(40)
      <3> HIDE DEF q
      <3>5. q * PageSize - p * PageSize < PageSize /\ p * PageSize - q * PageSize < PageSize
        BY <3>1, <3>2, <3>4, SMTT(40)
      <3>6. q = p
        BY <3>1, <3>4, <3>5, CloseMultiples, SMTT(40)
      <3> QED
        BY <3>1, <3>2, <3>3, <3>6, SMTT(40) DEF q, page_index, Address, AddressSpaceSize
    <2> QED
      BY <2>1, <2>2, Zenon DEF LoaderInv, Elsewhere
  <1> QED
    BY <1>1, LoaderInvHolds, PTL

\* Whatever place_elf32_dynamic returns, load_elf32 accepts as a base.
THEOREM PlacementIsAccepted == LoaderSpec => []PlacementAccepted
  <1>1. LoaderInv => PlacementAccepted
    BY Zenon DEF LoaderInv
  <1> QED
    BY <1>1, LoaderInvHolds, PTL

(***************************************************************************)
(* Arithmetic of the search: the candidates are the numbers that leave one *)
(* remainder, and the loop skips none of them.                             *)
(***************************************************************************)

\* The next number with the same remainder is a whole divisor away.
LEMMA NextCongruent ==
    ASSUME NEW m \in Nat \ {0}, NEW x \in Int, NEW y \in Int, x % m = y % m, y < x
    PROVE  y + m <= x
  <1> DEFINE q == (x - y) \div m
  <1>1. (x - y) % m = 0
    BY CongruentDifference, Zenon
  <1>2. q \in Int /\ x - y = q * m
    BY <1>1, Division
  <1> HIDE DEF q
  <1>3. q - 1 \in Nat
    <2> SUFFICES ASSUME -q \in Nat
                 PROVE  FALSE
      BY <1>2
    <2>1. (-q) * m >= 0
      OBVIOUS
    <2> QED
      BY <1>2, <2>1
  <1>4. (q - 1) * m >= 0
    BY <1>3, SMTT(40)
  <1> QED
    BY <1>2, <1>4, SMTT(40)

\* The first number from b on that leaves the remainder r.
LEMMA FirstCongruent ==
    ASSUME NEW m \in Nat \ {0}, NEW b \in Nat, NEW r \in 0 .. m - 1, NEW d \in 0 .. m - 1,
           (b % m) + d = r \/ (b % m) + d = r + m
    PROVE  /\ (b + d) % m = r
           /\ \A a \in Int : b <= a /\ a % m = r => b + d <= a
  <1> DEFINE q == b \div m
             s == b % m
  <1>1. q \in Int /\ s \in 0 .. m - 1 /\ b = q * m + s
    BY Division, SMTT(40)
  <1> HIDE DEF q
  <1>2. s + d = r \/ s + d = r + m
    BY Zenon
  <1> HIDE DEF s
  <1>3. (b + d) % m = r
    <2>1. CASE s + d = r
      <3>1. b + d = q * m + r
        BY <1>1, <1>2, <2>1, SMTT(40)
      <3> QED
        BY <1>1, <3>1, Remainder, Zenon
    <2>2. CASE s + d = r + m
      <3>1. b + d = (q + 1) * m + r /\ q + 1 \in Int
        BY <1>1, <1>2, <2>2
      <3> QED
        BY <3>1, Remainder, Zenon
    <2> QED
      BY <1>2, <2>1, <2>2, Zenon
  <1>4. ASSUME NEW a \in Int, b <= a, a % m = r, a < b + d
        PROVE  FALSE
    <2>1. b + d \in Int
      OBVIOUS
    <2>2. a + m <= b + d
      BY <1>3, <1>4, <2>1, NextCongruent, Zenon
    <2> QED
      BY <1>2, <1>4, <2>2, SMTT(40)
  <1>5. \A a \in Int : b <= a /\ a % m = r => ~(a < b + d)
    BY <1>4, Zenon
  <1>6. \A a \in Int : ~(a < b + d) => b + d <= a
    BY <1>2, SMTT(40)
  <1> QED
    BY <1>2, <1>3, <1>5, <1>6, Zenon

\* A number on the stride of a page-aligned search is page-aligned.
LEMMA StrideKeepsPages ==
    ASSUME NEW p \in Nat \ {0}, NEW m \in Nat \ {0}, m % p = 0,
           NEW c \in Int, (c % m) % p = 0
    PROVE  c % p = 0
  <1> DEFINE q == c \div m
             r == c % m
             x == q * m
  <1>1. q \in Int /\ r \in Int /\ c = x + r
    BY Division
  <1> HIDE DEF q
  <1>2. x % m = 0 /\ x \in Int
    BY <1>1, Multiple
  <1>3. r % p = 0
    BY SMTT(40)
  <1> HIDE DEF x, r
  <1>4. x % p = 0
    BY <1>2, DivisorOfMultiple, ZenonT(40)
  <1> QED
    BY <1>1, <1>2, <1>3, <1>4, SumOfMultiples, ZenonT(40)

(***************************************************************************)
(* find_free_guest_range, module GuestVaAllocator.                         *)
(***************************************************************************)

\* While the loop runs its candidate is on the stride, and no address below it
\* would do.
SearchInv ==
    /\ options \in Options
    /\ vpc \in {"check", "search", "done"}
    /\ vpc = "search" =>
          /\ options_error = "None"
          /\ candidate \in options.begin .. AddressSpaceSize
          /\ candidate % options.alignment = alignment_offset
          /\ \A a \in Address : a < candidate => ~Suitable(a)
    /\ vpc = "done" => answer.address \in Address
    /\ FirstFit

\* The types of the arguments.
LEMMA SearchArguments ==
    ASSUME options \in Options
    PROVE  /\ options.length \in Nat /\ options.end \in Nat /\ options.alignment \in Nat
           /\ options.begin \in Nat /\ options.begin \in Address
           /\ options.offset \in Nat
           /\ AddressSpaceSize \in Nat /\ 0 \in Address
  <1>1. AddressSpaceSize \in Nat /\ AddressSpaceSize > 0
    BY NumPagesAssumption, PageSizeAssumption DEF AddressSpaceSize
  <1>2. /\ options.length \in Lengths /\ options.begin \in Begins /\ options.end \in Ends
        /\ options.alignment \in Alignments /\ options.offset \in Offsets
    BY DEF Options
  <1>3. /\ options.length \in Nat /\ options.begin \in Address /\ options.end \in Nat
        /\ options.alignment \in Nat /\ options.offset \in Nat
    BY <1>2, ArgumentsAssumption, ZenonT(40)
  <1> QED
    BY <1>1, <1>3 DEF Address

\* What validate_options accepts.
LEMMA ValidArguments ==
    ASSUME options \in Options, Valid
    PROVE  /\ options.length \in Nat \ {0} /\ options.alignment \in Nat \ {0}
           /\ options.begin < options.end /\ options.end <= AddressSpaceSize
           /\ options.alignment % PageSize = 0 /\ alignment_offset % PageSize = 0
           /\ alignment_offset \in 0 .. options.alignment - 1
  <1>1. /\ options.length # 0 /\ options.alignment # 0
        /\ ~(options.begin >= options.end) /\ ~(options.end > AddressSpaceSize)
        /\ options.alignment % PageSize = 0 /\ alignment_offset % PageSize = 0
    BY SearchArguments, ZenonT(40) DEF Valid, InvalidRange, InvalidAlignment
  <1>2. options.alignment \in Nat \ {0} /\ options.offset \in Int
    BY <1>1, SearchArguments, SMTT(40)
  <1>3. alignment_offset \in 0 .. options.alignment - 1
    BY <1>2, Division, ZenonT(40) DEF alignment_offset
  <1> QED
    BY <1>1, <1>2, <1>3, SearchArguments, SMTT(40)

\* An address a caller would accept is on the stride from any earlier candidate.
LEMMA SuitableFacts ==
    ASSUME options \in Options, Valid, NEW a \in Address, Suitable(a)
    PROVE  /\ a \in Nat /\ options.begin <= a /\ a + options.length <= options.end
           /\ a < AddressSpaceSize
           /\ a % options.alignment = alignment_offset
           /\ Free(a, options.length)
  <1>1. a \in Nat /\ a < AddressSpaceSize
    BY SearchArguments, SMTT(40) DEF Address
  <1> QED
    BY <1>1, SearchArguments, Zenon DEF Suitable

\* The arguments and the memory do not change during a call.
LEMMA SameRequest ==
    ASSUME UNCHANGED <<options, mapped>>
    PROVE  /\ Options' = Options
           /\ Valid' <=> Valid
           /\ \A a : Suitable(a)' <=> Suitable(a)
           /\ options_error' = options_error
           /\ alignment_offset' = alignment_offset
  BY Zenon DEF Valid, Suitable, options_error, alignment_offset,
     InvalidRange, InvalidAlignment, delta, Free, Options

\* The two ways to return, and what each has to show.
LEMMA ReturnsFirstFit ==
    ASSUME UNCHANGED <<options, mapped>>, options \in Options,
           NEW e, NEW address \in Address, SearchReturns(e, address),
           \/ /\ Valid /\ e = "None" /\ Suitable(address)
              /\ address % PageSize = 0
              /\ \A a \in Address : a < address => ~Suitable(a)
           \/ /\ Valid /\ e = "NoSpace" /\ \A a \in Address : ~Suitable(a)
           \/ ~Valid /\ e # "None"
    PROVE  SearchInv'
  <1>1. vpc' = "done" /\ answer'.error = e /\ answer'.address = address
    BY DEF SearchReturns
  <1>2. FirstFit'
    BY <1>1, SameRequest, SearchArguments, Zenon DEF FirstFit
  <1> QED
    BY <1>1, <1>2, SameRequest, SMTT(40) DEF SearchInv

\* The first candidate is the lowest number of the window on the stride.
LEMMA CheckOptionsStep ==
    ASSUME SearchInv, CheckOptions
    PROVE  SearchInv'
  <1> DEFINE m == options.alignment
             b == options.begin
             r == alignment_offset
             d == delta
  <1>1. /\ vpc = "check" /\ UNCHANGED <<options, mapped>>
        /\ options \in Options
        /\ \/ options_error # "None" /\ SearchReturns(options_error, 0)
           \/ /\ options_error = "None"
              /\ candidate' = b + d /\ vpc' = "search" /\ UNCHANGED answer
    BY Zenon DEF CheckOptions, SearchInv
  <1>2. ASSUME Valid
        PROVE  /\ d \in 0 .. m - 1 /\ (b + d) % m = r /\ b \in Nat
               /\ \A a \in Int : b <= a /\ a % m = r => b + d <= a
    <2>1. m \in Nat \ {0} /\ r \in 0 .. m - 1 /\ b \in Nat
      BY <1>1, <1>2, ValidArguments, SearchArguments, Zenon
    <2>2. d = IF b % m <= r THEN r - (b % m) ELSE m - ((b % m) - r)
      BY Zenon DEF delta
    <2>3. b \in Int /\ b % m \in 0 .. m - 1
      <3>1. b \in Int
        BY <2>1, SMTT(40)
      <3> QED
        BY <2>1, <3>1, Division, ZenonT(40)
    <2> HIDE DEF m, b, r, d
    <2>4. d \in 0 .. m - 1 /\ ((b % m) + d = r \/ (b % m) + d = r + m)
      BY <2>1, <2>2, <2>3, SMTT(40)
    <2> QED
      BY <2>1, <2>4, FirstCongruent, ZenonT(40)
  <1>3. CASE options_error # "None" /\ SearchReturns(options_error, 0)
    <2>1. CASE ~Valid
      BY <1>1, <1>3, <2>1, SearchArguments, ReturnsFirstFit, ZenonT(40)
    <2>2. CASE Valid
      <3>1. options_error = "NoSpace" /\ d > AddressSpaceSize - b
        <4>1. ~(options.length > AddressSpaceSize)
          <5>1. /\ options.length \in Nat /\ AddressSpaceSize \in Nat
                /\ options.length <= AddressSpaceSize
            BY <1>1, <2>2, SearchArguments, Zenon DEF Valid
          <5> QED
            BY <5>1
        <4> QED
          BY <1>3, <2>2, <4>1, Zenon DEF options_error, Valid
      <3>2. ASSUME NEW a \in Address, Suitable(a)
            PROVE  FALSE
        <4>1. a \in Int /\ b <= a /\ a % m = r /\ a < AddressSpaceSize
          BY <1>1, <2>2, <3>2, SuitableFacts, SMTT(40)
        <4>2. b + d <= a
          BY <1>2, <2>2, <4>1, ZenonT(40)
        <4>3. AddressSpaceSize \in Nat /\ d \in Int /\ b \in Nat
          BY <1>1, <1>2, <2>2, SearchArguments, SMTT(40)
        <4> HIDE DEF b, d, m, r
        <4> QED
          BY <3>1, <4>1, <4>2, <4>3, SMTT(40)
      <3> QED
        BY <1>1, <1>3, <2>2, <3>1, <3>2, SearchArguments, ReturnsFirstFit, ZenonT(40)
    <2> QED
      BY <2>1, <2>2, Zenon
  <1>4. CASE /\ options_error = "None"
             /\ candidate' = b + d /\ vpc' = "search" /\ UNCHANGED answer
    <2>1. Valid /\ ~(d > AddressSpaceSize - b)
      BY <1>1, <1>4, SearchArguments, SMTT(40) DEF options_error, Valid
    <2>2. candidate' \in b .. AddressSpaceSize /\ candidate' % m = r
      <3>1. AddressSpaceSize \in Nat
        BY <1>1, SearchArguments, Zenon
      <3> HIDE DEF b, d, m, r
      <3> QED
        BY <1>2, <1>4, <2>1, <3>1, SMTT(40)
    <2>3. ASSUME NEW a \in Address, a < candidate', Suitable(a)
          PROVE  FALSE
      <3>1. a \in Int /\ b <= a /\ a % m = r
        BY <1>1, <2>1, <2>3, SuitableFacts, SMTT(40)
      <3>2. b + d <= a
        BY <1>2, <2>1, <3>1, ZenonT(40)
      <3>3. d \in Int /\ b \in Nat
        BY <1>2, <2>1, SMTT(40)
      <3> HIDE DEF b, d, m, r
      <3> QED
        BY <1>4, <2>3, <3>1, <3>2, <3>3, SMTT(40)
    <2>4. FirstFit'
      BY <1>4, SMTT(40) DEF FirstFit
    <2>5. /\ options' \in Options' /\ vpc' = "search" /\ options_error' = "None"
          /\ candidate' \in options'.begin .. AddressSpaceSize
          /\ candidate' % options'.alignment = alignment_offset'
      BY <1>1, <1>4, <2>2, SameRequest, Zenon
    <2>6. \A a \in Address : a < candidate' => ~Suitable(a)'
      BY <1>1, <2>3, SameRequest, Zenon
    <2> QED
      BY <2>4, <2>5, <2>6, Zenon DEF SearchInv
  <1> QED
    BY <1>1, <1>3, <1>4, Zenon

\* The next candidate is the next number on the stride, so none is skipped; and
\* past the room, or past the last stride, there is none.
LEMMA ProbeStep ==
    ASSUME SearchInv, Probe
    PROVE  SearchInv'
  <1> DEFINE m == options.alignment
             n == options.length
             r == alignment_offset
             room == OutOfRoom
             free == Free(candidate, n)
  <1>1. /\ vpc = "search" /\ UNCHANGED <<options, mapped>>
        /\ options \in Options /\ options_error = "None"
        /\ candidate \in options.begin .. AddressSpaceSize
        /\ candidate % m = r
        /\ \A a \in Address : a < candidate => ~Suitable(a)
    BY Zenon DEF Probe, SearchInv
  <1>2. Valid
    BY <1>1, SearchArguments, SMTT(40) DEF options_error, Valid
  <1>3. /\ candidate \in Nat /\ options.begin <= candidate /\ candidate <= AddressSpaceSize
        /\ m \in Nat \ {0} /\ n \in Nat \ {0} /\ options.end \in Nat
        /\ options.end <= AddressSpaceSize /\ AddressSpaceSize \in Nat
        /\ AddressSpaceSize = AddressSpaceSize
    BY <1>1, <1>2, SearchArguments, ValidArguments, SMTT(40)
  <1>4. ASSUME NEW a \in Address, Suitable(a)
        PROVE  /\ a \in Nat /\ candidate <= a /\ a + n <= options.end /\ a < AddressSpaceSize
               /\ a = candidate \/ candidate + m <= a
               /\ Free(a, n)
    <2>1. /\ a \in Nat /\ a + n <= options.end /\ a < AddressSpaceSize
          /\ a % m = r /\ Free(a, n)
      BY <1>1, <1>2, <1>4, SuitableFacts, ZenonT(40)
    <2>2. ~(a < candidate)
      BY <1>1, <1>4, ZenonT(40)
    <2>3. ASSUME candidate < a
          PROVE  candidate + m <= a
      <3>1. a \in Int /\ candidate \in Int /\ a % m = candidate % m
        BY <1>1, <1>3, <2>1, SMTT(40)
      <3> QED
        BY <1>3, <2>3, <3>1, NextCongruent, ZenonT(40)
    <2> HIDE DEF m, n, r
    <2> QED
      BY <1>3, <2>1, <2>2, <2>3, SMTT(40)
  <1>5. CASE (room \/ (~free /\ LastStride)) /\ SearchReturns("NoSpace", 0)
    <2>1. ASSUME NEW a \in Address, Suitable(a)
          PROVE  FALSE
      <3>1. /\ a \in Nat /\ candidate <= a /\ a + n <= options.end /\ a < AddressSpaceSize
            /\ a = candidate \/ candidate + m <= a
            /\ Free(a, n)
        BY <1>4, <2>1, ZenonT(40)
      <3>2. CASE room
        BY <1>3, <3>1, <3>2, SMTT(40) DEF OutOfRoom
      <3>3. CASE ~free /\ LastStride
        <4>1. a # candidate /\ m > AddressSpaceSize - candidate
          BY <1>3, <3>1, <3>3, Zenon DEF LastStride
        <4> QED
          BY <1>3, <3>1, <4>1, SMTT(40)
      <3> QED
        BY <1>5, <3>2, <3>3, Zenon
    <2> QED
      BY <1>1, <1>2, <1>5, <2>1, SearchArguments, ReturnsFirstFit, ZenonT(40)
  <1>6. CASE ~room /\ free /\ SearchReturns("None", candidate)
    <2>1. candidate + n <= options.end /\ candidate \in Address
      BY <1>3, <1>6, SMTT(40) DEF OutOfRoom, Address
    <2>2. Suitable(candidate)
      BY <1>1, <1>3, <1>6, <2>1, SMTT(40) DEF Suitable
    <2>3. candidate % PageSize = 0
      <3>1. m % PageSize = 0 /\ (candidate % m) % PageSize = 0
        BY <1>1, <1>2, ValidArguments, ZenonT(40)
      <3>2. candidate \in Int
        BY <1>3, SMTT(40)
      <3> QED
        BY <1>3, <3>1, <3>2, PageSizeAssumption, StrideKeepsPages, ZenonT(40)
    <2> QED
      BY <1>1, <1>2, <1>6, <2>1, <2>2, <2>3, ReturnsFirstFit, ZenonT(40)
  <1>7. CASE /\ ~free /\ ~LastStride
             /\ candidate' = candidate + m /\ UNCHANGED <<vpc, answer>>
    <2>1. candidate' \in options.begin .. AddressSpaceSize
      BY <1>1, <1>3, <1>7, SearchArguments, SMTT(40) DEF LastStride
    <2>2. candidate' % m = r
      <3>1. candidate' = candidate + 1 * m /\ candidate' \in Int /\ candidate \in Int /\ 1 \in Int
        BY <1>3, <1>7, SMTT(40)
      <3>2. candidate' % m = candidate % m
        BY <1>3, <3>1, SameRemainder, ZenonT(40)
      <3> QED
        BY <1>1, <3>2, Zenon
    <2>3. ASSUME NEW a \in Address, a < candidate', Suitable(a)
          PROVE  FALSE
      <3>1. a \in Nat /\ (a = candidate \/ candidate + m <= a) /\ Free(a, n)
        BY <1>4, <2>3, Zenon
      <3>2. candidate + m <= a
        BY <1>7, <3>1, ZenonT(40)
      <3> HIDE DEF m
      <3> QED
        BY <1>3, <1>7, <2>3, <3>1, <3>2, SMTT(40)
    <2>4. FirstFit'
      BY <1>1, <1>7, SMTT(40) DEF FirstFit
    <2>5. /\ options' \in Options' /\ vpc' = "search" /\ options_error' = "None"
          /\ candidate' \in options'.begin .. AddressSpaceSize
          /\ candidate' % options'.alignment = alignment_offset'
      BY <1>1, <1>7, <2>1, <2>2, SameRequest, ZenonT(40)
    <2>6. \A a \in Address : a < candidate' => ~Suitable(a)'
      BY <1>1, <2>3, SameRequest, ZenonT(40)
    <2> QED
      BY <2>4, <2>5, <2>6, ZenonT(40) DEF SearchInv
  <1> QED
    BY <1>5, <1>6, <1>7, ZenonT(40) DEF Probe

\* The invariant of the search.
LEMMA SearchInvHolds == SearchSpec => []SearchInv
  <1>1. SearchInit => SearchInv
    BY DEF SearchInit, SearchInv, FirstFit
  <1>2. SearchInv /\ [SearchNext]_searchVars => SearchInv'
    <2> SUFFICES ASSUME SearchInv, [SearchNext]_searchVars
                 PROVE  SearchInv'
      BY Zenon
    <2>1. CASE UNCHANGED searchVars
      <3>1. UNCHANGED <<options, mapped, vpc, candidate, answer>>
        BY <2>1, Zenon DEF searchVars
      <3>2. FirstFit'
        BY <3>1, SameRequest, ZenonT(40) DEF SearchInv, FirstFit
      <3> QED
        BY <3>1, <3>2, SameRequest, SMTT(40) DEF SearchInv
    <2> QED
      BY <2>1, CheckOptionsStep, ProbeStep, ZenonT(40) DEF SearchNext
  <1> QED
    BY <1>1, <1>2, PTL DEF SearchSpec

\* find_free_guest_range returns the lowest free range that fits, and NoSpace only
\* when there is none: for every memory and every length, window, alignment and
\* offset, although the loop looks at one address of every stride.
THEOREM SearchIsFirstFit == SearchSpec => []FirstFit
  <1>1. SearchInv => FirstFit
    BY DEF SearchInv
  <1> QED
    BY <1>1, SearchInvHolds, PTL

\* What the search answers for valid arguments is what place_elf32_dynamic is
\* modelled to get from it.
AnswersPlacement ==
    vpc = "done" /\ Valid /\ mapped = {p \in Page : page_is_mapped(p)} =>
        LET placement == find_free_guest_range(options.length, options.begin, options.end,
                                               options.alignment, alignment_offset)
        IN  /\ answer.error = placement.error
            /\ placement.error = "None" => answer.address = placement.base

\* find_free_guest_range and the loader's placement agree: the loop of one and the
\* lowest suitable address of the other are the same address, for every memory.
THEOREM SearchServesPlacement == SearchSpec => []AnswersPlacement
  <1>1. SearchInv => AnswersPlacement
    <2> SUFFICES ASSUME SearchInv, vpc = "done", Valid,
                        mapped = {p \in Page : page_is_mapped(p)}
                 PROVE  AnswersPlacement
      BY Zenon DEF AnswersPlacement
    <2> DEFINE S == {a \in Address : Suitable(a)}
               placement == find_free_guest_range(options.length, options.begin, options.end,
                                                  options.alignment, alignment_offset)
    <2>1. FirstFit
      BY Zenon DEF SearchInv
    <2>2. placement = IF S = {} THEN [error |-> "NoSpace", base |-> NoBase]
                                ELSE [error |-> "None", base |-> First(S)]
      <3>1. \A a \in Address : Suitable(a) <=>
               /\ a >= options.begin /\ a + options.length <= options.end
               /\ a % options.alignment = alignment_offset
               /\ \A p \in PagesOf(a, options.length) : ~page_is_mapped(p)
        BY DEF Suitable, Free, PagesOf
      <3> QED
        BY <3>1, ZenonT(40) DEF find_free_guest_range
    <2>3. CASE /\ answer.error = "None" /\ Suitable(answer.address)
               /\ \A a \in Address : a < answer.address => ~Suitable(a)
      <3>1. answer.address \in S /\ S \subseteq Int
        BY <2>3, SMTT(40) DEF SearchInv, Address
      <3>2. \A a \in S : answer.address <= a
        BY <2>3, <3>1, SMTT(40)
      <3>3. First(S) \in S /\ First(S) <= answer.address
        <4> HIDE DEF S
        <4>1. \E i \in S : \A j \in S : i <= j
          BY <3>1, <3>2, Zenon
        <4>2. First(S) \in S /\ \A j \in S : First(S) <= j
          BY <4>1, ZenonT(40) DEF First
        <4> QED
          BY <3>1, <4>2, Zenon
      <3>4. First(S) = answer.address /\ S # {}
        <4> HIDE DEF S
        <4>1. /\ First(S) \in Int /\ answer.address \in Int
              /\ answer.address <= First(S) /\ First(S) <= answer.address
          BY <3>1, <3>2, <3>3, Zenon
        <4>2. S # {}
          BY <3>1, Zenon
        <4> QED
          BY <4>1, <4>2, SMTT(40)
      <3> HIDE DEF S
      <3>5. placement.error = "None" /\ placement.base = First(S)
        BY <2>2, <3>4, SMTT(40)
      <3> QED
        BY <2>3, <3>4, <3>5, ZenonT(40) DEF AnswersPlacement
    <2>4. CASE answer.error = "NoSpace" /\ \A a \in Address : ~Suitable(a)
      <3>1. S = {}
        BY <2>4, ZenonT(40)
      <3> HIDE DEF S
      <3>2. placement.error = "NoSpace"
        <4>1. placement = [error |-> "NoSpace", base |-> NoBase]
          BY <2>2, <3>1, Zenon
        <4> HIDE DEF placement
        <4> QED
          BY <4>1, Zenon
      <3> QED
        BY <2>4, <3>2, Zenon DEF AnswersPlacement
    <2> QED
      BY <2>1, <2>3, <2>4, SearchArguments, ZenonT(40) DEF FirstFit, SearchInv
  <1> QED
    BY <1>1, SearchInvHolds, PTL

=============================================================================
