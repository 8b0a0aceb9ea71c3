----------------------------- MODULE Elf32Bytes -----------------------------
(***************************************************************************)
(* What the readers of a loaded object's tables see of guest memory, and   *)
(* the arithmetic they share (elf/internal/elf32_bytes.h).                 *)
(*                                                                         *)
(* A cell is two bytes, so every table entry keeps its size; only a byte   *)
(* of a string takes a whole cell.  A memory m has the set of readable     *)
(* pages and, for each kind of entry, a partial function from the address  *)
(* of an entry to what decoding it gives.  Readable memory where no entry  *)
(* was put is zero.  Sizes and offsets are in cells.                       *)
(***************************************************************************)
EXTENDS AddressSpace, Sequences

WordSize    == 2
SymbolSize  == 8
RelSize     == 4
DynSize     == 4
VersymSize  == 1
VerneedSize == 8
VernauxSize == 8
VerdefSize  == 10
VerdauxSize == 4

None == "None"

range_fits(address, size) == address + size <= AddressSpaceSize

checked_add_guest_address(base, offset) == base + offset < AddressSpaceSize

\* GuestMemory::read of at least one cell.
CanRead(m, address, size) ==
    /\ range_fits(address, size)
    /\ page_index(address) .. page_index(address + size - 1) \subseteq m.readable

\* Mutant: only the first cell of the range is probed.
readable_rangeFirstCell(m, address, size) == size = 0 \/ CanRead(m, address, 1)

readable_range(m, address, size) == size = 0 \/ CanRead(m, address, size)

Decoded(view, address, zero) == IF address \in DOMAIN view THEN view[address] ELSE zero

Word(m, address)  == Decoded(m.word, address, 0)

Least(S) == CHOOSE i \in S : \A j \in S : i <= j

=============================================================================
