---------------------------- MODULE AddressSpace ----------------------------
(***************************************************************************)
(* The 32-bit guest address space, scaled to NumPages pages of PageSize    *)
(* cells: AddressSpaceSize stands for 2^32 (MappedGuestMemory's            *)
(* kAddressSpaceSize) and the last page is the one that ends there.  The   *)
(* code computes ends and sums in 64 bits, so no sum below wraps.          *)
(***************************************************************************)
EXTENDS Integers

CONSTANTS
    NumPages,   \* pages of the guest address space
    PageSize    \* cells in a page

ASSUME NumPagesAssumption == NumPages \in Nat \ {0}
ASSUME PageSizeAssumption == PageSize \in Nat \ {0}

AddressSpaceSize == NumPages * PageSize
Page    == 0 .. NumPages - 1
Address == 0 .. AddressSpaceSize - 1

page_index(a) == a \div PageSize

\* The pages a range of cells touches.
PagesOf(address, length) ==
    {p \in Page : p >= page_index(address) /\ p * PageSize < address + length}

\* MemoryPermission, a set of flags.
Read    == "read"
Write   == "write"
Execute == "execute"
Permissions == SUBSET {Read, Write, Execute}

=============================================================================
