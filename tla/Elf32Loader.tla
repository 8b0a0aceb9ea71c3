---------------------------- MODULE Elf32Loader ----------------------------
(***************************************************************************)
(* load_elf32 (elf/loading/elf32_loader.cpp) over MappedGuestMemory, with  *)
(* the dynamic placement that chooses its base                             *)
(* (elf/loading/elf32_dynamic_placement.cpp).                              *)
(*                                                                         *)
(* Begin is everything that happens before the first change to memory; the *)
(* passes over the planned segments then take one step per call they make  *)
(* on the memory, and a failing call turns to Rollback, which unmaps in    *)
(* reverse order and ignores what unmap returns.  Between calls a client   *)
(* maps, fills and unmaps pages of its own.                                *)
(*                                                                         *)
(* The plan is any member of Plans, a set of plans with the property that  *)
(* module Elf32LoadPlan establishes of plan_elf32_load.                    *)
(***************************************************************************)
EXTENDS GuestMemory, Elf32Plan

CONSTANTS
    Plans,      \* plans plan_elf32_load may produce
    Entries,    \* values of e_entry
    Bases,      \* values of options.dynamic_base
    Windows,    \* placement windows <<search_begin, search_end_exclusive>>
    Image,      \* the image: file offset -> byte
    MaxCalls    \* bound on loads and client operations

ASSUME PlansAssumption == \A p \in Plans : WellFormed(p)
ASSUME InputsAssumption ==
    Entries \subseteq Nat /\ Bases \subseteq Nat /\ Windows \subseteq Nat \X Nat
ASSUME MaxCallsAssumption == MaxCalls \in Nat

\* Planning refuses a segment whose file bytes are not in the image.
ASSUME ImageAssumption ==
    \A p \in Plans : \A i \in DOMAIN p.segments :
        \A k \in 0 .. p.segments[i].file_size - 1 :
            Image[p.segments[i].offset + k] \in Byte

NoBase == -1    \* the empty optional

VARIABLES
    pc,         \* "idle", "map", "write", "zero", "protect", "rollback", "returned"
    planned,    \* planned_segments
    next,       \* index in planned of the segment the current pass is at
    ranges,     \* mapped_ranges, as indices in planned
    error,      \* Elf32LoadError of the call
    calls,      \* loads and client operations so far
    placed,     \* whether the base came from place_elf32_dynamic
    before,     \* observer: page_state and contents when the call began
    leaked      \* observer: pages whose rollback unmap failed

loadVars == <<pc, planned, next, ranges, error, calls, placed, before,
              leaked>>
vars == <<memVars, loadVars>>

MappingSize(s) == s.mapping_end - s.mapping_start
Pages(s) == PagesOf(s.mapping_start, MappingSize(s))

(***************************************************************************)
(* place_elf32_dynamic; the search is the one GuestVaAllocator describes.  *)
(***************************************************************************)
find_free_guest_range(length, begin, end, alignment, offset) ==
    LET suitable == {a \in Address :
                        /\ a >= begin /\ a + length <= end
                        /\ a % alignment = offset
                        /\ \A p \in PagesOf(a, length) : ~page_is_mapped(p)}
    IN  IF suitable = {} THEN [error |-> "NoSpace", base |-> NoBase]
                         ELSE [error |-> "None", base |-> First(suitable)]

\* Mutant: the search ignores the alignment the plan requires of the bias.
place_on_any_page(plan, window) ==
    IF \/ window[2] > AddressSpaceSize \/ window[1] >= window[2]
       \/ plan.type # "Dynamic" \/ plan.minimum_page >= window[2]
    THEN [error |-> "NoSpace", base |-> NoBase]
    ELSE find_free_guest_range(
            plan.maximum_page_end - plan.minimum_page,
            IF window[1] > plan.minimum_page THEN window[1] ELSE plan.minimum_page,
            window[2], PageSize, 0)

place_elf32_dynamic(plan, window) ==
    LET span == plan.maximum_page_end - plan.minimum_page
        alignment == IF PageSize > plan.required_load_bias_alignment
                     THEN PageSize ELSE plan.required_load_bias_alignment
        effective_begin == IF window[1] > plan.minimum_page
                           THEN window[1] ELSE plan.minimum_page
        Failure(e) == [error |-> e, base |-> NoBase]
    IN  IF window[2] > AddressSpaceSize \/ window[1] >= window[2]
        THEN Failure("InvalidSearchWindow")
        ELSE IF plan.type # "Dynamic" THEN Failure("NotDynamic")
        ELSE IF effective_begin >= window[2] THEN Failure("NoSpace")
        ELSE IF alignment > AddressSpaceSize \/ alignment % PageSize # 0
        THEN Failure("AddressOverflow")
        ELSE find_free_guest_range(span, effective_begin, window[2], alignment,
                                   plan.minimum_page % alignment)

(***************************************************************************)
(* The checks that precede the first mapping, in the code's order.         *)
(***************************************************************************)
load_bias(plan, base) ==
    IF plan.type = "Dynamic" THEN base - plan.minimum_page ELSE 0

bias_error(plan, base) ==
    IF plan.type # "Dynamic" THEN "None"
    ELSE IF base = NoBase THEN "DynamicBaseRequired"
    ELSE IF base % PageSize # 0 THEN "DynamicBaseUnaligned"
    ELSE IF base < plan.minimum_page THEN "LoadBiasOverflow"
    ELSE IF plan.maximum_page_end > AddressSpaceSize - load_bias(plan, base)
         THEN "LoadBiasOverflow"
    ELSE IF /\ plan.required_load_bias_alignment > 1
            /\ load_bias(plan, base) % plan.required_load_bias_alignment # 0
         THEN "DynamicBaseUnaligned"
    ELSE "None"

\* A PlannedSegment.
Biased(s, bias) ==
    [guest_address |-> s.virtual_address + bias,
     mapping_start |-> s.mapping_start + bias,
     mapping_end   |-> s.mapping_end + bias,
     offset        |-> s.offset,
     file_size     |-> s.file_size,
     memory_size   |-> s.memory_size,
     permissions   |-> s.permissions]

\* The segments that take up memory, in the plan's order.
planned_segments(plan, bias) ==
    LET occupied == {k \in DOMAIN plan.segments : plan.segments[k].memory_size # 0} IN
    [i \in 1 .. Cardinality(occupied) |-> Biased(plan.segments[Nth(occupied, i)], bias)]

\* The shape of the three range checks after biasing.
Overflows(guest_address, mapping_start, end) ==
    \/ guest_address >= AddressSpaceSize
    \/ mapping_start >= AddressSpaceSize
    \/ end > AddressSpaceSize

preflight_error(plan, entry, base) ==
    LET bias == load_bias(plan, base)
        segments == planned_segments(plan, bias)
    IN
    IF bias_error(plan, base) # "None" THEN bias_error(plan, base)
    ELSE IF entry # 0 /\ entry + bias >= AddressSpaceSize
         THEN "EntryAddressOverflow"
    ELSE IF \E i \in DOMAIN plan.dynamic_segment :
               LET d == plan.dynamic_segment[i] IN
               Overflows(d.virtual_address + bias, 0,
                         d.virtual_address + bias + d.memory_size)
         THEN "DynamicSegmentAddressOverflow"
    ELSE IF \E i \in DOMAIN plan.relro_segments :
               LET r == plan.relro_segments[i] IN
               Overflows(r.virtual_address + bias, r.mapping_start + bias,
                         r.mapping_end + bias)
         THEN "RelroSegmentAddressOverflow"
    ELSE IF \E i \in DOMAIN segments :
               Overflows(segments[i].guest_address, segments[i].mapping_start,
                         segments[i].mapping_end)
         THEN "SegmentAddressOverflow"
    ELSE IF \E i \in DOMAIN segments :
               \E p \in Pages(segments[i]) : page_is_mapped(p)
         THEN "AddressConflict"
    ELSE "None"

Return(e) == pc' = "returned" /\ error' = e

\* A call with a base of the caller's, or with the one placement found.
Begin(plan, entry, base, from_placement) ==
    /\ pc \in {"idle", "returned"}
    /\ calls < MaxCalls /\ calls' = calls + 1
    /\ placed' = from_placement
    /\ before' = [page_state |-> page_state, contents |-> contents]
    /\ ranges' = <<>> /\ next' = 1 /\ leaked' = {}
    /\ \/ /\ preflight_error(plan, entry, base) # "None"
          /\ Return(preflight_error(plan, entry, base))
          /\ planned' = <<>>
       \/ /\ preflight_error(plan, entry, base) = "None"
          /\ planned' = planned_segments(plan, load_bias(plan, base))
          /\ pc' = "map" /\ error' = "None"
    /\ UNCHANGED memVars

BeginAtBase ==
    \E plan \in Plans, entry \in Entries, base \in Bases \cup {NoBase} :
        Begin(plan, entry, base, FALSE)

BeginPlaced ==
    \E plan \in Plans, entry \in Entries, window \in Windows :
        LET placement == place_elf32_dynamic(plan, window) IN
        /\ placement.error = "None"
        /\ Begin(plan, entry, placement.base, TRUE)

(***************************************************************************)
(* The passes over planned_segments.                                       *)
(***************************************************************************)
Segment == planned[next]

\* To the next segment of this pass, or to the first one of the next pass.
Advance(pass, following) ==
    /\ IF next < Len(planned) THEN next' = next + 1 /\ pc' = pass
                              ELSE next' = 1 /\ pc' = following
    /\ UNCHANGED error

\* Mutant: an error path returns without calling rollback().
FailWithoutRollback(e) == pc' = "returned" /\ error' = e /\ UNCHANGED next

Fail(e) == pc' = "rollback" /\ error' = e /\ UNCHANGED next

MapSegment ==
    /\ pc = "map"
    /\ Map(Segment.mapping_start, MappingSize(Segment), {Read, Write})
    /\ IF result'
       THEN ranges' = Append(ranges, next) /\ Advance("map", "write")
       ELSE Fail("MapFailed") /\ UNCHANGED ranges
    /\ UNCHANGED <<planned, calls, placed, before, leaked>>

\* Mutant: the file bytes go to the start of the mapping.
WriteFileAtPage ==
    /\ pc = "write"
    /\ WriteBytes(Segment.mapping_start, Segment.file_size,
                  [k \in 0 .. Segment.file_size - 1 |-> Image[Segment.offset + k]])
    /\ IF result' THEN pc' = "zero" /\ UNCHANGED <<next, error>>
                  ELSE Fail("WriteFailed")
    /\ UNCHANGED <<planned, ranges, calls, placed, before, leaked>>

WriteFile ==
    /\ pc = "write"
    /\ WriteBytes(Segment.guest_address, Segment.file_size,
                  [k \in 0 .. Segment.file_size - 1 |-> Image[Segment.offset + k]])
    /\ IF result' THEN pc' = "zero" /\ UNCHANGED <<next, error>>
                  ELSE Fail("WriteFailed")
    /\ UNCHANGED <<planned, ranges, calls, placed, before, leaked>>

\* Mutant: the tail is memory_size long.
ZeroTailTooLong ==
    /\ pc = "zero"
    /\ WriteBytes(Segment.guest_address + Segment.file_size, Segment.memory_size,
                  [k \in 0 .. Segment.memory_size - 1 |-> 0])
    /\ IF result' THEN Advance("write", "protect") ELSE Fail("WriteFailed")
    /\ UNCHANGED <<planned, ranges, calls, placed, before, leaked>>

\* The tail past the file bytes; the 4096-byte chunks are one write here.
ZeroTail ==
    LET tail == Segment.memory_size - Segment.file_size IN
    /\ pc = "zero"
    /\ WriteBytes(Segment.guest_address + Segment.file_size, tail,
                  [k \in 0 .. tail - 1 |-> 0])
    /\ IF result' THEN Advance("write", "protect") ELSE Fail("WriteFailed")
    /\ UNCHANGED <<planned, ranges, calls, placed, before, leaked>>

ProtectSegment ==
    /\ pc = "protect"
    /\ Protect(Segment.mapping_start, MappingSize(Segment), Segment.permissions)
    /\ IF result' THEN Advance("protect", "returned") ELSE Fail("ProtectFailed")
    /\ UNCHANGED <<planned, ranges, calls, placed, before, leaked>>

\* rollback(): the result of unmap is discarded.
Rollback ==
    /\ pc = "rollback"
    /\ \/ /\ ranges = <<>>
          /\ pc' = "returned"
          /\ UNCHANGED <<memVars, ranges, leaked>>
       \/ /\ ranges # <<>>
          /\ LET s == planned[ranges[Len(ranges)]] IN
                /\ Unmap(s.mapping_start, MappingSize(s))
                /\ leaked' = IF result' THEN leaked ELSE leaked \cup Pages(s)
          /\ ranges' = SubSeq(ranges, 1, Len(ranges) - 1)
          /\ UNCHANGED pc
    /\ UNCHANGED <<planned, next, error, calls, placed, before>>

(***************************************************************************)
(* The memory's other users, between calls.                                *)
(***************************************************************************)
Client ==
    /\ pc \in {"idle", "returned"}
    /\ calls < MaxCalls /\ calls' = calls + 1
    /\ \E p \in Page :
          \/ Map(p * PageSize, PageSize, {Read, Write})
          \/ \E b \in Byte : WriteBytes(p * PageSize, PageSize, [k \in 0 .. PageSize - 1 |-> b])
          \/ Unmap(p * PageSize, PageSize)
    /\ pc' = "idle"
    /\ planned' = <<>> /\ ranges' = <<>> /\ next' = 1 /\ error' = "None"
    /\ placed' = FALSE /\ leaked' = {}
    /\ before' = [page_state |-> page_state', contents |-> contents']

LoaderInit ==
    /\ Init
    /\ pc = "idle" /\ planned = <<>> /\ next = 1 /\ ranges = <<>>
    /\ error = "None" /\ calls = 0 /\ placed = FALSE /\ leaked = {}
    /\ before = [page_state |-> page_state, contents |-> contents]

LoadStep == MapSegment \/ WriteFile \/ ZeroTail \/ ProtectSegment \/ Rollback

LoaderNext == BeginAtBase \/ BeginPlaced \/ LoadStep \/ Client

LoaderSpec == LoaderInit /\ [][LoaderNext]_vars

(***************************************************************************)
(* Properties.                                                             *)
(***************************************************************************)
Busy == pc \notin {"idle", "returned"}

\* The loader's variables have their types.
LoaderTypeOK ==
    /\ TypeOK
    /\ pc \in {"idle", "map", "write", "zero", "protect", "rollback", "returned"}
    /\ Busy => next \in DOMAIN planned
    /\ \A k \in DOMAIN ranges : ranges[k] \in DOMAIN planned
    /\ leaked \in SUBSET Page
    /\ calls \in 0 .. MaxCalls

\* A load that returns success leaves exactly the image in memory: every
\* segment's pages have the segment's permissions, its file bytes are at
\* their biased addresses, and everything else on its pages is zero, the
\* slack around the segment included, whatever the pages held before.
LoadedExactly ==
    pc = "returned" /\ error = "None" =>
        \A i \in DOMAIN planned :
            LET s == planned[i] IN
            /\ \A p \in Pages(s) :
                  page_state[p] = encode_page_state(s.permissions)
            /\ \A a \in s.mapping_start .. s.mapping_end - 1 :
                  contents[a] =
                      IF a \in s.guest_address .. s.guest_address + s.file_size - 1
                      THEN Image[s.offset + (a - s.guest_address)] ELSE 0

\* A load that fails has given back every page it mapped, except those whose
\* unmap failed too, which rollback does not report.
FailedLoadRestores ==
    pc = "returned" /\ error # "None" =>
        \A p \in Page \ leaked : page_state[p] = before.page_state[p]

\* No step of a load changes the state or a byte of a page that was mapped
\* when the call began: neither a pass nor a rollback reaches over the edge
\* of a segment.
OthersUntouched ==
    \A p \in Page :
        Mapped \in before.page_state[p] =>
            /\ page_state[p] = before.page_state[p]
            /\ \A a \in p * PageSize .. (p + 1) * PageSize - 1 :
                  contents[a] = before.contents[a]

\* A base that placement found is one load_elf32 accepts: the two agree on
\* the window, the bias alignment, the upper end and the free pages.
PlacementAccepted ==
    placed => error \notin
        {"DynamicBaseRequired", "DynamicBaseUnaligned", "LoadBiasOverflow",
         "DynamicSegmentAddressOverflow", "RelroSegmentAddressOverflow",
         "SegmentAddressOverflow", "AddressConflict"}

=============================================================================
