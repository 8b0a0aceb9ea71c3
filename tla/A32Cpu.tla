------------------------------- MODULE A32Cpu -------------------------------
(***************************************************************************)
(* cpu::execute (cpu/dynarmic_cpu.cpp): a bounded slice of guest execution *)
(* in a fresh Jit.  The guest program is arbitrary: a step may go to any   *)
(* PC in either instruction set, trap with any SVC, touch memory that      *)
(* refuses the access, or raise an exception.  Of the registers the PC and *)
(* one other are kept, of the CPSR the T bit.                              *)
(*                                                                         *)
(* Environment is constructed by each call, so its flags start clear.      *)
(***************************************************************************)
EXTENDS Integers

CONSTANTS
    PC,         \* logical guest PCs
    Value,      \* values of r0
    Immediates, \* SVC numbers
    NoStop,     \* the absent stop_pc
    NoSvc       \* the absent svc_immediate

ASSUME NoStopAssumption == NoStop \notin PC
ASSUME NoSvcAssumption == NoSvc \notin Immediates

VARIABLES
    regs,       \* jit.Regs(), as [pc, r0]
    thumb,      \* CPSR.T
    count,      \* request.instruction_count
    stop,       \* request.stop_pc
    executed,   \* instructions executed in this slice
    raised,     \* environment.exception_raised()
    fault,      \* environment.memory_fault()
    svc         \* environment.svc_immediate()

cpuVars == <<regs, thumb, count, stop, executed, raised, fault, svc>>

Regs == [pc : PC, r0 : Value]

\* A call of execute: registers, instruction set or initial CPSR, budget.
Execute(r, t, n, s) ==
    /\ regs' = r /\ thumb' = t
    /\ count' = n /\ stop' = s
    /\ executed' = 0
    /\ raised' = FALSE /\ fault' = FALSE /\ svc' = NoSvc

stop_pc_reached == ~raised /\ ~fault /\ stop # NoStop /\ regs.pc = stop

\* The condition of the loop, and its body with one outcome of jit.Step().
LoopCondition == executed < count /\ ~stop_pc_reached /\ ~raised /\ ~fault

\* Mutant: instructions are not counted.
JitStepUncounted(r, t, e, f, s) ==
    /\ LoopCondition
    /\ regs' = r /\ thumb' = t
    /\ raised' = (e \/ s # NoSvc) /\ fault' = f /\ svc' = s
    /\ UNCHANGED <<executed, count, stop>>

JitStep(r, t, e, f, s) ==
    /\ LoopCondition
    /\ regs' = r /\ thumb' = t
    /\ raised' = (e \/ s # NoSvc) /\ fault' = f /\ svc' = s
    /\ executed' = executed + 1
    /\ UNCHANGED <<count, stop>>

\* Fetches, loads and stores that GuestMemory refuses set memory_fault; an
\* instruction the engine cannot run, or an architectural exception, and CallSVC
\* set exception_raised.  A fault may come with an exception.
Outcomes ==
    {o \in BOOLEAN \X BOOLEAN \X (Immediates \cup {NoSvc}) :
        o[3] # NoSvc => ~o[1] /\ ~o[2]}

CpuTypeOK ==
    /\ regs \in Regs /\ thumb \in BOOLEAN
    /\ count \in Nat /\ executed \in 0 .. count
    /\ stop \in PC \cup {NoStop}
    /\ raised \in BOOLEAN /\ fault \in BOOLEAN
    /\ svc \in Immediates \cup {NoSvc}

=============================================================================
