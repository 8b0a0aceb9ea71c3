----------------------------- MODULE Elf32Plan -----------------------------
(***************************************************************************)
(* Elf32LoadPlan (elf/elf32_load_plan.h), the value plan_elf32_load hands  *)
(* to the loader and to dynamic placement, and what its consumers may      *)
(* assume of it.  Module Elf32LoadPlan checks that planning only ever      *)
(* produces a WellFormed plan; module Elf32Loader relies on it.            *)
(***************************************************************************)
EXTENDS AddressSpace, Sequences, FiniteSets

align_down(value, alignment) == value - (value % alignment)

\* align_up's output; it reports failure when the output passes 2^32.
align_up(value, alignment) ==
    IF value % alignment = 0 THEN value
                             ELSE value + (alignment - (value % alignment))

align_up_fails(value, alignment) == align_up(value, alignment) > AddressSpaceSize

\* One bit is set: no odd number but 1 divides it.
is_power_of_two(value) ==
    value # 0 /\ \A d \in 1 .. value : value % d = 0 => d = 1 \/ d % 2 = 0

\* decode_permissions: W and X need R, and W and X together are refused.
decodable_flags(flags) ==
    ~ \/ Read \notin flags /\ (Write \in flags \/ Execute \in flags)
      \/ Write \in flags /\ Execute \in flags

MappingStart(vaddr) == align_down(vaddr, PageSize)
MappingEnd(vaddr, memsz) == align_up(vaddr + memsz, PageSize)

\* The pages of a planned mapping, and of a segment that takes up memory.
RangePages(start, end) == PagesOf(start, end - start)
SegmentPages(s) ==
    IF s.memory_size = 0 THEN {} ELSE RangePages(s.mapping_start, s.mapping_end)

First(S) == CHOOSE i \in S : \A j \in S : i <= j

\* The i-th member, in increasing order, of a finite set of numbers.
Nth(S, i) == CHOOSE k \in S : Cardinality({j \in S : j <= k}) = i

NoDynamic == <<>>      \* the empty optional; else a sequence of one segment

(***************************************************************************)
(* The plan.                                                               *)
(***************************************************************************)
PlanSegments ==
    [offset : Nat, virtual_address : Nat, file_size : Nat, memory_size : Nat,
     permissions : Permissions, alignment : Nat, mapping_start : Nat, mapping_end : Nat]

PlanDynamicSegments ==
    [offset : Nat, virtual_address : Nat, file_size : Nat, memory_size : Nat]

PlanRelroSegments ==
    [virtual_address : Nat, memory_size : Nat, mapping_start : Nat, mapping_end : Nat]

LoadPlans ==
    [type : {"Dynamic", "Executable"}, segments : Seq(PlanSegments),
     dynamic_segment : Seq(PlanDynamicSegments), relro_segments : Seq(PlanRelroSegments),
     minimum_page : Nat, maximum_page_end : Nat, required_load_bias_alignment : Nat]

(***************************************************************************)
(* The contract of a plan.                                                 *)
(***************************************************************************)
SegmentWellFormed(plan, s) ==
    /\ s.file_size <= s.memory_size
    /\ decodable_flags(s.permissions)
    /\ s.memory_size # 0 =>
          /\ s.mapping_start % PageSize = 0 /\ s.mapping_end % PageSize = 0
          /\ s.mapping_start <= s.virtual_address
          /\ s.virtual_address + s.memory_size <= s.mapping_end
          /\ plan.minimum_page <= s.mapping_start
          /\ s.mapping_end <= plan.maximum_page_end

\* No page belongs to two segments, so final permissions never conflict.
SegmentsDisjoint(plan) ==
    \A i, j \in DOMAIN plan.segments :
        i # j => SegmentPages(plan.segments[i])
                    \cap SegmentPages(plan.segments[j]) = {}

\* PT_DYNAMIC lies in one readable segment, at the place its file bytes load.
DynamicBacked(plan) ==
    \A d \in {plan.dynamic_segment[i] : i \in DOMAIN plan.dynamic_segment} :
        \E i \in DOMAIN plan.segments :
            LET s == plan.segments[i] IN
            /\ Read \in s.permissions
            /\ s.memory_size # 0 /\ d.memory_size # 0
            /\ s.virtual_address <= d.virtual_address
            /\ d.virtual_address + d.memory_size
                  <= s.virtual_address + s.memory_size
            /\ d.file_size # 0 =>
                  d.virtual_address - d.offset = s.virtual_address - s.offset

\* Every page RELRO will seal is a page of a readable segment, and RELRO ends
\* where the segments do or before.
RelroBacked(plan) ==
    \A r \in {plan.relro_segments[i] : i \in DOMAIN plan.relro_segments} :
        /\ r.mapping_start <= r.virtual_address /\ r.virtual_address < r.mapping_end
        /\ r.mapping_end <= plan.maximum_page_end
        /\ \A p \in RangePages(r.mapping_start, r.mapping_end) :
              \E i \in DOMAIN plan.segments :
                  /\ p \in SegmentPages(plan.segments[i])
                  /\ Read \in plan.segments[i].permissions

\* The bias alignment and the page size are powers of two: the larger is a
\* multiple of the smaller.
BiasAlignmentFitsPages(plan) ==
    LET alignment == plan.required_load_bias_alignment IN
    /\ alignment # 0
    /\ PageSize % alignment = 0 \/ alignment % PageSize = 0

\* A bias that is a multiple of the required alignment keeps every segment's
\* address congruent to its file offset.
BiasKeepsCongruence(plan) ==
    \A i \in DOMAIN plan.segments :
        LET s == plan.segments[i] IN
        s.alignment > 1 =>
            /\ plan.required_load_bias_alignment % s.alignment = 0
            /\ s.virtual_address % s.alignment = s.offset % s.alignment

WellFormed(plan) ==
    /\ plan \in LoadPlans
    /\ \A i \in DOMAIN plan.segments : SegmentWellFormed(plan, plan.segments[i])
    /\ plan.minimum_page < plan.maximum_page_end
    /\ plan.minimum_page % PageSize = 0
    /\ plan.maximum_page_end <= AddressSpaceSize
    /\ \E i \in DOMAIN plan.segments : plan.segments[i].memory_size # 0
    /\ SegmentsDisjoint(plan)
    /\ DynamicBacked(plan)
    /\ RelroBacked(plan)
    /\ BiasAlignmentFitsPages(plan)
    /\ BiasKeepsCongruence(plan)

=============================================================================
