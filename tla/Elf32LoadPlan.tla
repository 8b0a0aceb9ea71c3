--------------------------- MODULE Elf32LoadPlan ---------------------------
(***************************************************************************)
(* plan_elf32_load (elf/loading/elf32_load_plan.cpp): the validation of an *)
(* ELF32 image that precedes any change to guest memory.                   *)
(*                                                                         *)
(* One behaviour is one call.  The program headers are read one per step,  *)
(* in table order, each an arbitrary member of the header sets; Finish is  *)
(* everything after the table.  The fixed-offset checks of the ELF header  *)
(* are one step whose outcome is the first check the image fails.  e_entry *)
(* is copied to the plan unread and is left to Elf32Loader.                *)
(***************************************************************************)
EXTENDS Elf32Plan

CONSTANTS
    ImageSize,       \* image.size()
    MaxHeaders,      \* bound on program_header_count
    LoadHeaders,     \* PT_LOAD headers an image may hold
    DynamicHeaders,  \* PT_DYNAMIC headers
    RelroHeaders     \* PT_GNU_RELRO headers

\* The fields of a program header that planning reads: unsigned words, and the
\* flags the ELF names.
ASSUME HeadersAssumption ==
    /\ ImageSize \in Nat /\ MaxHeaders \in Nat
    /\ LoadHeaders \subseteq
          [offset : Nat, virtual_address : Nat, file_size : Nat, memory_size : Nat,
           permissions : Permissions, alignment : Nat]
    /\ DynamicHeaders \subseteq PlanDynamicSegments
    /\ RelroHeaders \subseteq [virtual_address : Nat, memory_size : Nat]

\* MappedGuestMemory's page size divides 2^32.
ASSUME PageSizeIsPowerOfTwo == is_power_of_two(PageSize)

VARIABLES
    pc,     \* "header", "table" or "done"
    read,   \* program headers read so far
    plan,   \* the plan under construction
    error   \* Elf32LoadError returned

vars == <<pc, read, plan, error>>

HeaderErrors ==
    {"TruncatedHeader", "BadMagic", "UnsupportedClass", "UnsupportedEndian",
     "UnsupportedIdentVersion", "UnsupportedElfVersion", "UnsupportedType",
     "UnsupportedMachine", "InvalidHeaderSize", "InvalidProgramHeaderSize",
     "ProgramHeaderTableOutOfBounds"}

EmptyPlan(type) ==
    [type |-> type, segments |-> <<>>, dynamic_segment |-> NoDynamic,
     relro_segments |-> <<>>, minimum_page |-> AddressSpaceSize,
     maximum_page_end |-> 0, required_load_bias_alignment |-> 1]

Return(e) == pc' = "done" /\ error' = e

Init ==
    /\ pc = "header"
    /\ read = 0
    /\ plan = EmptyPlan("Dynamic")
    /\ error = "None"

CheckHeader ==
    /\ pc = "header"
    /\ \/ /\ \E e \in HeaderErrors : Return(e)
          /\ UNCHANGED plan
       \/ /\ \E type \in {"Dynamic", "Executable"} : plan' = EmptyPlan(type)
          /\ pc' = "table"
          /\ UNCHANGED error
    /\ UNCHANGED read

(***************************************************************************)
(* One program header.                                                     *)
(***************************************************************************)
dynamic_error(d) ==
    IF plan.dynamic_segment # NoDynamic THEN "MultipleDynamicSegments"
    ELSE IF d.memory_size = 0 THEN "DynamicSegmentEmpty"
    ELSE IF d.file_size > d.memory_size THEN "DynamicSegmentFileszExceedsMemsz"
    ELSE IF d.offset + d.file_size > ImageSize THEN "DynamicSegmentFileOutOfBounds"
    ELSE IF d.virtual_address + d.memory_size > AddressSpaceSize
         THEN "DynamicSegmentAddressOverflow"
    ELSE "None"

DynamicPlan(d) == [plan EXCEPT !.dynamic_segment = <<d>>]

relro_error(r) ==
    IF r.memory_size = 0 THEN "RelroSegmentEmpty"
    ELSE IF \/ r.virtual_address + r.memory_size > AddressSpaceSize
            \/ align_up_fails(r.virtual_address + r.memory_size, PageSize)
         THEN "RelroSegmentAddressOverflow"
    ELSE "None"

RelroPlan(r) ==
    [plan EXCEPT !.relro_segments = Append(@,
        [virtual_address |-> r.virtual_address,
         memory_size     |-> r.memory_size,
         mapping_start   |-> MappingStart(r.virtual_address),
         mapping_end     |-> MappingEnd(r.virtual_address, r.memory_size)])]

load_error(s) ==
    IF s.file_size > s.memory_size THEN "SegmentFileszExceedsMemsz"
    ELSE IF s.offset + s.file_size > ImageSize THEN "SegmentFileOutOfBounds"
    ELSE IF s.virtual_address + s.memory_size > AddressSpaceSize
         THEN "SegmentAddressOverflow"
    ELSE IF /\ s.alignment > 1
            /\ \/ ~is_power_of_two(s.alignment)
               \/ s.virtual_address % s.alignment # s.offset % s.alignment
         THEN "SegmentAlignmentInvalid"
    ELSE IF ~decodable_flags(s.permissions) THEN "UnsupportedSegmentPermissions"
    ELSE IF /\ s.memory_size # 0
            /\ align_up_fails(s.virtual_address + s.memory_size, PageSize)
         THEN "SegmentAddressOverflow"
    ELSE "None"

Greater(a, b) == IF a > b THEN a ELSE b
Lesser(a, b)  == IF a < b THEN a ELSE b

LoadPlan(s) ==
    LET occupied == s.memory_size # 0
        start == IF occupied THEN MappingStart(s.virtual_address) ELSE 0
        end == IF occupied THEN MappingEnd(s.virtual_address, s.memory_size) ELSE 0
        bounds ==
            [plan EXCEPT
                !.minimum_page = IF occupied THEN Lesser(@, start) ELSE @,
                !.maximum_page_end = IF occupied THEN Greater(@, end) ELSE @,
                !.required_load_bias_alignment =
                    IF s.alignment > 1 THEN Greater(@, s.alignment) ELSE @]
    IN  [bounds EXCEPT !.segments = Append(@,
            [offset          |-> s.offset,
             virtual_address |-> s.virtual_address,
             file_size       |-> s.file_size,
             memory_size     |-> s.memory_size,
             permissions     |-> s.permissions,
             alignment       |-> s.alignment,
             mapping_start   |-> start,
             mapping_end     |-> end])]

\* The loop body's common shape: an error returns, else the plan grows.
Accept(e, grown) ==
    /\ pc = "table" /\ read < MaxHeaders
    /\ read' = read + 1
    /\ \/ e # "None" /\ Return(e) /\ UNCHANGED plan
       \/ e = "None" /\ plan' = grown /\ UNCHANGED <<pc, error>>

ReadDynamic == \E d \in DynamicHeaders : Accept(dynamic_error(d), DynamicPlan(d))
ReadRelro   == \E r \in RelroHeaders : Accept(relro_error(r), RelroPlan(r))
ReadLoad    == \E s \in LoadHeaders : Accept(load_error(s), LoadPlan(s))
ReadOther   == Accept("None", plan)

(***************************************************************************)
(* After the table.                                                        *)
(***************************************************************************)
Occupied == {i \in DOMAIN plan.segments : plan.segments[i].memory_size # 0}

\* The segments whose memory contains PT_DYNAMIC, and of those the readable
\* ones; the code takes the first of each in table order.
Containing(d) ==
    {i \in Occupied :
        /\ d.virtual_address >= plan.segments[i].virtual_address
        /\ d.virtual_address + d.memory_size
              <= plan.segments[i].virtual_address + plan.segments[i].memory_size}

ReadableAmong(S) == {i \in S : Read \in plan.segments[i].permissions}

FileMappingMismatch(d, s) ==
    LET load_delta == d.virtual_address - s.virtual_address IN
    /\ d.file_size # 0
    /\ \/ load_delta > s.file_size
       \/ d.file_size > s.file_size - load_delta
       \/ s.offset + load_delta # d.offset

contained_error(d) ==
    IF Containing(d) = {} THEN "DynamicSegmentOutsideLoad"
    ELSE IF ReadableAmong(Containing(d)) = {} THEN "DynamicSegmentNotReadable"
    ELSE IF FileMappingMismatch(d,
                plan.segments[First(ReadableAmong(Containing(d)))])
         THEN "DynamicSegmentFileMappingMismatch"
    ELSE "None"

\* order, sorted by mapping_start: only neighbours in it are compared.  The
\* sort is not stable, so equal starts may come in either order.
Orders ==
    {order \in [1 .. Cardinality(Occupied) -> Occupied] :
        /\ \A i \in Occupied : \E k \in DOMAIN order : order[k] = i
        /\ \A k \in DOMAIN order :
              k # 1 => plan.segments[order[k - 1]].mapping_start
                          <= plan.segments[order[k]].mapping_start}

\* Mutant: overlap is judged by bytes, not by pages.
NeighbourBytesOverlap(order) ==
    \E k \in DOMAIN order :
        /\ k # 1
        /\ plan.segments[order[k]].virtual_address
              < plan.segments[order[k - 1]].virtual_address
                  + plan.segments[order[k - 1]].memory_size

NeighboursOverlap(order) ==
    \E k \in DOMAIN order :
        /\ k # 1
        /\ plan.segments[order[k]].mapping_start
              < plan.segments[order[k - 1]].mapping_end

\* The RELRO pages, in the order the loops visit them, up to the first error.
PageHolders(p) == {i \in Occupied : p \in SegmentPages(plan.segments[i])}

relro_page_error(p) ==
    IF PageHolders(p) = {} THEN "RelroSegmentOutsideLoad"
    ELSE IF Read \notin plan.segments[First(PageHolders(p))].permissions
         THEN "RelroSegmentNotReadable"
    ELSE "None"

BadRelroPages(r) ==
    {p \in RangePages(r.mapping_start, r.mapping_end) :
        relro_page_error(p) # "None"}

BadRelros ==
    {i \in DOMAIN plan.relro_segments : BadRelroPages(plan.relro_segments[i]) # {}}

finish_error(order) ==
    IF plan.segments = <<>> \/ plan.minimum_page = AddressSpaceSize
    THEN "NoLoadSegments"
    ELSE IF /\ plan.dynamic_segment # NoDynamic
            /\ contained_error(plan.dynamic_segment[1]) # "None"
         THEN contained_error(plan.dynamic_segment[1])
    ELSE IF NeighboursOverlap(order) THEN "SegmentPageOverlap"
    ELSE IF BadRelros # {}
         THEN relro_page_error(First(BadRelroPages(
                  plan.relro_segments[First(BadRelros)])))
    ELSE "None"

Finish ==
    /\ pc = "table"
    /\ \E order \in Orders : Return(finish_error(order))
    /\ UNCHANGED <<plan, read>>

Next ==
    \/ CheckHeader
    \/ ReadDynamic \/ ReadRelro \/ ReadLoad \/ ReadOther
    \/ Finish

Spec == Init /\ [][Next]_vars

(***************************************************************************)
(* Properties.                                                             *)
(***************************************************************************)

\* The plan is well typed at every point of its construction, and the header
\* count stays within its bound.
TypeOK ==
    /\ pc \in {"header", "table", "done"}
    /\ read \in 0 .. MaxHeaders
    /\ plan.type \in {"Dynamic", "Executable"}
    /\ plan.minimum_page \in 0 .. AddressSpaceSize
    /\ plan.maximum_page_end \in 0 .. AddressSpaceSize
    /\ Len(plan.segments) + Len(plan.relro_segments)
          + Len(plan.dynamic_segment) <= read

\* The loader takes no byte from beyond the image.
FileBytesInImage ==
    \A i \in DOMAIN plan.segments :
        plan.segments[i].offset + plan.segments[i].file_size <= ImageSize

\* A plan that is accepted is one the loader can carry out: see WellFormed, and
\* every file byte it asks for is in the image.  The neighbour comparison has to
\* find every overlap, the first readable container has to be the right one, and
\* the largest alignment has to cover the others (plan_elf32_load).
AcceptedPlanIsWellFormed ==
    pc = "done" /\ error = "None" => WellFormed(plan) /\ FileBytesInImage

=============================================================================
