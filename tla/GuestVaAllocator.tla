-------------------------- MODULE GuestVaAllocator --------------------------
(***************************************************************************)
(* find_free_guest_range (memory/guest_va_allocator.cpp): the bounded      *)
(* low-to-high search for a free, page-aligned range whose start is        *)
(* congruent to alignment_offset modulo alignment.                         *)
(*                                                                         *)
(* One behaviour is one call: the arguments and the pages that are mapped  *)
(* are chosen at first, CheckOptions is everything before the loop and     *)
(* Probe one iteration of it.                                              *)
(***************************************************************************)
EXTENDS AddressSpace

CONSTANTS
    Lengths,    \* requested lengths a call may pass
    Begins,     \* values of options.begin, addresses
    Ends,       \* values of options.end_exclusive
    Alignments, \* values of options.alignment
    Offsets     \* values of options.alignment_offset

ASSUME ArgumentsAssumption ==
    /\ Lengths \subseteq Nat /\ Ends \subseteq Nat
    /\ Alignments \subseteq Nat /\ Offsets \subseteq Nat
    /\ Begins \subseteq Address

VARIABLES
    mapped,     \* the pages is_mapped answers true for
    options,    \* the call's arguments
    vpc,         \* "check", "search" or "done"
    candidate,  \* the address the loop looks at
    answer      \* the result: an error and, on success, an address

searchVars == <<mapped, options, vpc, candidate, answer>>

Errors == {"None", "InvalidRange", "SizeOverflow", "InvalidAlignment", "NoSpace"}

Options == [length : Lengths, begin : Begins, end : Ends,
            alignment : Alignments, offset : Offsets]

alignment_offset == options.offset % options.alignment

\* Mutant: the wrapped remainder forgets the offset.
delta_no_offset ==
    LET rem == options.begin % options.alignment IN
    IF rem <= alignment_offset THEN alignment_offset - rem
                               ELSE options.alignment - rem

\* The distance from begin to the first congruent address.
delta ==
    LET rem == options.begin % options.alignment IN
    IF rem <= alignment_offset THEN alignment_offset - rem
                               ELSE options.alignment - (rem - alignment_offset)

Free(address, length) ==
    \A p \in PagesOf(address, length) : p \notin mapped

SearchReturns(error, address) ==
    /\ vpc' = "done"
    /\ answer' = [error |-> error, address |-> address]

SearchInit ==
    /\ mapped \in SUBSET Page
    /\ options \in Options
    /\ vpc = "check"
    /\ candidate = 0
    /\ answer = [error |-> "None", address |-> 0]

InvalidRange ==
    \/ options.length = 0
    \/ options.length % PageSize # 0
    \/ options.end > AddressSpaceSize
    \/ options.begin >= options.end

InvalidAlignment ==
    \/ options.alignment = 0
    \/ options.alignment > AddressSpaceSize
    \/ options.alignment % PageSize # 0
    \/ alignment_offset % PageSize # 0

\* The checks before the loop, in the code's order.
options_error ==
    IF InvalidRange THEN "InvalidRange"
    ELSE IF options.length > AddressSpaceSize THEN "SizeOverflow"
    ELSE IF InvalidAlignment THEN "InvalidAlignment"
    ELSE IF delta > AddressSpaceSize - options.begin THEN "NoSpace"
    ELSE "None"

CheckOptions ==
    /\ vpc = "check"
    /\ \/ /\ options_error # "None"
          /\ SearchReturns(options_error, 0)
          /\ UNCHANGED candidate
       \/ /\ options_error = "None"
          /\ candidate' = options.begin + delta
          /\ vpc' = "search"
          /\ UNCHANGED answer
    /\ UNCHANGED <<mapped, options>>

OutOfRoom ==
    \/ candidate >= options.end
    \/ candidate > AddressSpaceSize - options.length
    \/ options.length > options.end - candidate

LastStride == options.alignment > AddressSpaceSize - candidate

\* Mutant: the candidate is a 32-bit counter that wraps.
ProbeWraps ==
    /\ vpc = "search"
    /\ \/ /\ OutOfRoom
          /\ SearchReturns("NoSpace", 0)
          /\ UNCHANGED candidate
       \/ /\ ~OutOfRoom
          /\ Free(candidate, options.length)
          /\ SearchReturns("None", candidate)
          /\ UNCHANGED candidate
       \/ /\ ~OutOfRoom
          /\ ~Free(candidate, options.length)
          /\ candidate' = (candidate + options.alignment) % AddressSpaceSize
          /\ UNCHANGED <<vpc, answer>>
    /\ UNCHANGED <<mapped, options>>

Probe ==
    /\ vpc = "search"
    /\ \/ /\ OutOfRoom \/ (~Free(candidate, options.length) /\ LastStride)
          /\ SearchReturns("NoSpace", 0)
          /\ UNCHANGED candidate
       \/ /\ ~OutOfRoom
          /\ Free(candidate, options.length)
          /\ SearchReturns("None", candidate)
          /\ UNCHANGED candidate
       \/ /\ ~OutOfRoom
          /\ ~Free(candidate, options.length)
          /\ ~LastStride
          /\ candidate' = candidate + options.alignment
          /\ UNCHANGED <<vpc, answer>>
    /\ UNCHANGED <<mapped, options>>

SearchNext == CheckOptions \/ Probe

\* The call is an ordinary function: once entered it runs on.
SearchSpec == SearchInit /\ [][SearchNext]_searchVars /\ WF_searchVars(SearchNext)

(***************************************************************************)
(* What the search promises, stated without its arithmetic.                *)
(***************************************************************************)
Valid == ~InvalidRange /\ options.length <= AddressSpaceSize /\ ~InvalidAlignment

\* The addresses the caller would accept.
Suitable(a) ==
    /\ a >= options.begin
    /\ a + options.length <= options.end
    /\ a % options.alignment = alignment_offset
    /\ Free(a, options.length)

\* Every variable has its type.
SearchTypeOK ==
    /\ mapped \in SUBSET Page
    /\ options \in Options
    /\ vpc \in {"check", "search", "done"}
    /\ candidate \in 0 .. AddressSpaceSize
    /\ answer \in [error : Errors, address : Address]

\* First fit: a call with valid arguments that returns an address returns the
\* lowest one the caller would accept, and NoSpace means there is none; every
\* address the delta and the stride skip is unsuitable.  A call with invalid
\* arguments reports no address, and the address of a valid one is page-aligned,
\* so map() accepts it.
FirstFit ==
    vpc = "done" =>
        \/ /\ Valid /\ answer.error = "None"
           /\ Suitable(answer.address)
           /\ answer.address % PageSize = 0
           /\ \A a \in Address : a < answer.address => ~Suitable(a)
        \/ /\ Valid /\ answer.error = "NoSpace"
           /\ \A a \in Address : ~Suitable(a)
        \/ ~Valid /\ answer.error # "None"

\* The loop ends, whatever the alignment and the window.
Termination == <>(vpc = "done")

=============================================================================
