------------------------------ MODULE GuestRun ------------------------------
(***************************************************************************)
(* What execute_a32_with_services promises: one machine that runs guest    *)
(* instructions under one budget, in which an SVC is an instruction that a *)
(* host service carries out.  That the CPU is entered anew after every     *)
(* service does not show.                                                  *)
(***************************************************************************)
EXTENDS Integers

CONSTANTS PC, Value, NoStop, Budgets, Ceilings

VARIABLES
    state,      \* "idle", "running", or the A32ServiceDispatchError of the run
    regs,       \* registers, as [pc, r0]
    thumb,      \* instruction set
    budget,     \* instructions the caller allows in total
    ceiling,    \* services the caller allows
    stop,       \* the PC to stop before
    executed,   \* instructions executed
    handled     \* services handled

vars == <<state, regs, thumb, budget, ceiling, stop, executed, handled>>

Init == state = "idle"

Start ==
    /\ state # "running"
    /\ state' = "running"
    /\ regs' \in [pc : PC, r0 : Value]
    /\ thumb' \in BOOLEAN
    /\ budget' \in Budgets
    /\ ceiling' \in Ceilings
    /\ stop' \in PC \cup {NoStop}
    /\ executed' = 0
    /\ handled' = 0

MayRun == state = "running" /\ executed < budget /\ regs.pc # stop

\* One instruction; it counts whether it completes or not.
Instruction ==
    /\ MayRun
    /\ executed' = executed + 1
    /\ regs' \in [pc : PC, r0 : Value]
    /\ thumb' \in BOOLEAN
    /\ \/ UNCHANGED <<state, handled>>
       \/ /\ handled < ceiling
          /\ handled' = handled + 1
          /\ UNCHANGED state
       \/ /\ state' \in {"MemoryFault", "CpuException"}
          /\ UNCHANGED handled
       \/ /\ IF handled < ceiling
             THEN state' \in {"ServiceUnhandled", "ServiceFailed"}
             ELSE state' = "ServiceLimitExceeded"
          /\ UNCHANGED handled
    /\ UNCHANGED <<budget, ceiling, stop>>

\* The stop PC is reached, or the budget is spent.
Finish ==
    /\ state = "running"
    /\ ~MayRun
    /\ state' = IF regs.pc = stop \/ stop = NoStop THEN "None"
                ELSE "InstructionLimitExceeded"
    /\ UNCHANGED <<regs, thumb, budget, ceiling, stop, executed, handled>>

Next == Start \/ Instruction \/ Finish

Spec == Init /\ [][Next]_vars

=============================================================================
