---------------------- MODULE A32ServiceDispatchProofs ----------------------
(***************************************************************************)
(* Proofs about what runs guest code on A32Cpu.                            *)
(*                                                                         *)
(* A32ServiceDispatch, for every set of PCs, values and SVC numbers, every *)
(* registry, budget and ceiling, any guest and any service, and, in the    *)
(* last section, the constructors of Elf32Lifecycle.                       *)
(*                                                                         *)
(* The invariant of dispatch is the accounting of its loop.  While a call  *)
(* runs, the instructions reported so far and those that remain add up to  *)
(* the caller's budget and the CPU was entered with what remained; an      *)
(* instruction that raised or faulted was not at stop_pc, nothing in the   *)
(* result says yet how the run ends, and a trap being served did not fault.*)
(***************************************************************************)
EXTENDS A32ServiceDispatch, Elf32Lifecycle, TLAPS

Results ==
    [error : Errors, regs : Regs, thumb : BOOLEAN, instructions : Nat, handled : Nat,
     stop_pc_reached : BOOLEAN, failing_svc : Immediates \cup {NoSvc}]

FullTypeOK ==
    /\ TypeOK
    /\ result \in Results
    /\ saved \in [regs : Regs, thumb : BOOLEAN]
    /\ budget \in Nat
    /\ runs \in Nat

\* A call that is running.
Accounts ==
    dpc # "idle" =>
        /\ runs > 0
        /\ result.instructions + remaining = budget
        /\ result.error = "None" /\ result.failing_svc = NoSvc /\ ~result.stop_pc_reached

\* The slice it is in, and the instruction that has ended it.
InSlice ==
    dpc = "slice" =>
        /\ count = remaining
        /\ svc # NoSvc => raised
        /\ raised \/ fault => executed > 0 /\ saved.regs.pc # stop

\* The trap that its service has not settled, and the one it is settling.
InTrap ==
    /\ dpc = "trap" => result.instructions > 0 /\ saved.regs.pc # stop
    /\ dpc \in {"trap", "serviced"} => svc # NoSvc /\ ~fault

DispatchInv == FullTypeOK /\ Accounts /\ InSlice /\ InTrap /\ ResultIsFaithful

LEMMA InitDispatchInv == Init => DispatchInv
  <1> SUFFICES ASSUME Init
               PROVE  DispatchInv
    BY Zenon
  <1> USE DEF Init
  <1>1. FullTypeOK
    <2>1. CpuTypeOK
      <3>1. /\ thumb \in BOOLEAN /\ raised \in BOOLEAN /\ fault \in BOOLEAN
            /\ regs \in Regs /\ stop \in PC \cup {NoStop} /\ svc \in Immediates \cup {NoSvc}
        BY Zenon
      <3>2. count \in Nat /\ executed \in 0 .. count
        OBVIOUS
      <3> QED
        BY <3>1, <3>2, Zenon DEF CpuTypeOK
    <2>2. result \in Results
      BY Zenon DEF Results, Errors
    <2>3. saved \in [regs : Regs, thumb : BOOLEAN]
      BY Zenon DEF Snapshot
    <2>4. TypeOK
      <3>1. instruction_set \in BOOLEAN
        BY Zenon
      <3> QED
        BY <2>1, <2>2, <3>1 DEF TypeOK, Results
    <2> QED
      BY <2>1, <2>2, <2>3, <2>4, Zenon DEF FullTypeOK
  <1>2. Accounts /\ InSlice /\ InTrap /\ ResultIsFaithful
    BY Zenon DEF Accounts, InSlice, InTrap, ResultIsFaithful
  <1> QED
    BY <1>1, <1>2, Zenon DEF DispatchInv

\* A run begins.
LEMMA StartPreserves ==
    ASSUME DispatchInv, NEW r \in Regs, NEW iset \in BOOLEAN, NEW t \in BOOLEAN,
           NEW n \in Budgets, NEW m \in Ceilings, NEW s \in PC \cup {NoStop},
           Start(r, iset, t, n, m, s)
    PROVE  DispatchInv'
  <1> USE DEF DispatchInv, Start, Execute
  <1>1. n \in Nat /\ m \in Nat
    BY BudgetsAssumption, Zenon
  <1>2. FullTypeOK'
    <2>1. CpuTypeOK'
      <3>1. /\ (thumb \in BOOLEAN /\ raised \in BOOLEAN /\ fault \in BOOLEAN)'
            /\ (regs \in Regs /\ stop \in PC \cup {NoStop} /\ svc \in Immediates \cup {NoSvc})'
        BY Zenon
      <3>2. (count \in Nat /\ executed \in 0 .. count)'
        BY <1>1
      <3> QED
        BY <3>1, <3>2, Zenon DEF CpuTypeOK
    <2>2. result' \in Results
      BY Zenon DEF Results, Errors
    <2>3. TypeOK'
      BY <1>1, <2>1 DEF TypeOK, Errors
    <2> QED
      BY <1>1, <2>1, <2>2, <2>3 DEF FullTypeOK
  <1>3. Accounts' /\ InSlice' /\ InTrap' /\ ResultIsFaithful'
    BY <1>1 DEF Accounts, InSlice, InTrap, ResultIsFaithful, FullTypeOK
  <1> QED
    BY <1>2, <1>3, Zenon

\* What a step of the engine can do to the environment's flags.
LEMMA OutcomeType == Outcomes \subseteq BOOLEAN \X BOOLEAN \X (Immediates \cup {NoSvc})
  BY Zenon DEF Outcomes

\* An instruction is executed: it was not at stop_pc.
LEMMA RunPreserves ==
    ASSUME DispatchInv, Run
    PROVE  DispatchInv'
  <1> USE DEF DispatchInv
  <1>1. PICK r \in Regs, t \in BOOLEAN, o \in Outcomes : JitStep(r, t, o[1], o[2], o[3])
    BY Zenon DEF Run
  <1>2. o[1] \in BOOLEAN /\ o[2] \in BOOLEAN /\ o[3] \in Immediates \cup {NoSvc}
    BY OutcomeType, Zenon
  <1>3. /\ dpc = "slice" /\ dpc' = "slice" /\ saved' = [regs |-> regs, thumb |-> thumb]
        /\ UNCHANGED <<remaining, ceiling, instruction_set, result, registry, runs, budget>>
    BY Zenon DEF Run, Snapshot
  <1>4. /\ executed < count /\ ~stop_pc_reached /\ ~raised /\ ~fault
        /\ regs' = r /\ thumb' = t /\ executed' = executed + 1
        /\ raised' = (o[1] \/ o[3] # NoSvc) /\ fault' = o[2] /\ svc' = o[3]
        /\ UNCHANGED <<count, stop>>
    BY <1>1, Zenon DEF JitStep, LoopCondition
  <1>5. raised' \in BOOLEAN /\ fault' \in BOOLEAN
    BY <1>2, <1>4, Zenon
  <1>6. FullTypeOK'
    BY <1>2, <1>3, <1>4, <1>5 DEF FullTypeOK, TypeOK, CpuTypeOK
  <1>7. regs.pc # stop
    BY <1>4, NoStopAssumption, SMTT(40) DEF stop_pc_reached, FullTypeOK, TypeOK, CpuTypeOK, Regs
  <1>8. Accounts' /\ InTrap' /\ ResultIsFaithful'
    BY <1>3, Zenon DEF Accounts, InTrap, ResultIsFaithful
  <1>9. InSlice'
    <2>1. executed' > 0 /\ saved'.regs.pc # stop' /\ count' = remaining'
      BY <1>3, <1>4, <1>7 DEF InSlice, FullTypeOK, TypeOK, CpuTypeOK
    <2>2. svc' # NoSvc => raised'
      BY <1>4, Zenon
    <2> QED
      BY <2>1, <2>2, Zenon DEF InSlice
  <1> QED
    BY <1>6, <1>8, <1>9, Zenon

\* cpu::execute returns: what it leaves in the result, and how the call goes on.
LEMMA SliceEndsFacts ==
    ASSUME DispatchInv, SliceEnds
    PROVE  /\ dpc = "slice" /\ ~LoopCondition /\ remaining' = remaining - executed
           /\ UNCHANGED <<regs, thumb, count, stop, executed, raised, fault, svc, ceiling,
                          instruction_set, registry, runs, budget, saved>>
           /\ result' \in Results
           /\ result'.instructions = result.instructions + executed
           /\ result'.handled = result.handled
           /\ result'.regs = regs /\ result'.thumb = thumb
           /\ result'.stop_pc_reached = stop_pc_reached
           /\ result'.failing_svc = NoSvc
           /\ \/ fault /\ dpc' = "idle" /\ result'.error = "MemoryFault"
              \/ ~fault /\ svc # NoSvc /\ dpc' = "trap" /\ result'.error = "None"
              \/ ~fault /\ raised /\ svc = NoSvc /\ dpc' = "idle" /\ result'.error = "CpuException"
              \/ /\ ~fault /\ ~raised /\ stop_pc_reached /\ dpc' = "idle"
                 /\ result'.error = "None"
              \/ /\ ~fault /\ ~raised /\ ~stop_pc_reached /\ stop # NoStop /\ dpc' = "idle"
                 /\ result'.error = "InstructionLimitExceeded"
              \/ /\ ~fault /\ ~raised /\ ~stop_pc_reached /\ stop = NoStop /\ dpc' = "idle"
                 /\ result'.error = "None"
  <1> DEFINE res == [result EXCEPT !.instructions = @ + executed, !.regs = regs,
                                   !.thumb = thumb, !.stop_pc_reached = stop_pc_reached]
             error(e) == [res EXCEPT !.error = e]
  <1>1. /\ dpc = "slice" /\ ~LoopCondition /\ remaining' = remaining - executed
        /\ UNCHANGED <<regs, thumb, count, stop, executed, raised, fault, svc, ceiling,
                       instruction_set, registry, runs, budget, saved>>
    BY Zenon DEF SliceEnds, cpuVars
  <1>2. /\ result \in Results /\ regs \in Regs /\ thumb \in BOOLEAN /\ executed \in Nat
        /\ stop_pc_reached \in BOOLEAN
    BY DEF DispatchInv, FullTypeOK, TypeOK, CpuTypeOK, stop_pc_reached
  <1>3. result.instructions + executed \in Nat
    BY <1>2 DEF Results
  <1>4. ~(executed > remaining) /\ result.error = "None" /\ result.failing_svc = NoSvc
    BY <1>1 DEF DispatchInv, Accounts, InSlice, FullTypeOK, TypeOK, CpuTypeOK
  <1>5. /\ res \in Results
        /\ res.error = "None" /\ res.handled = result.handled
        /\ res.failing_svc = NoSvc
        /\ res.regs = regs /\ res.thumb = thumb
        /\ res.stop_pc_reached = stop_pc_reached
        /\ res.instructions = result.instructions + executed
    BY <1>2, <1>3, <1>4, Zenon DEF Results
  <1>6. \/ fault /\ dpc' = "idle" /\ result' = error("MemoryFault")
        \/ ~fault /\ svc # NoSvc /\ dpc' = "trap" /\ result' = res
        \/ ~fault /\ raised /\ svc = NoSvc /\ dpc' = "idle" /\ result' = error("CpuException")
        \/ ~fault /\ ~raised /\ stop_pc_reached /\ dpc' = "idle" /\ result' = res
        \/ /\ ~fault /\ ~raised /\ ~stop_pc_reached /\ stop # NoStop /\ dpc' = "idle"
           /\ result' = error("InstructionLimitExceeded")
        \/ ~fault /\ ~raised /\ ~stop_pc_reached /\ stop = NoStop /\ dpc' = "idle" /\ result' = res
    BY <1>4, Zenon DEF SliceEnds, Return
  <1> HIDE DEF res
  <1>7. ASSUME NEW e \in Errors
        PROVE  /\ error(e) \in Results
               /\ error(e).error = e /\ error(e).handled = result.handled
               /\ error(e).failing_svc = NoSvc
               /\ error(e).regs = regs /\ error(e).thumb = thumb
               /\ error(e).stop_pc_reached = stop_pc_reached
               /\ error(e).instructions = result.instructions + executed
    BY <1>5, Zenon DEF Results
  <1>8. {"MemoryFault", "CpuException", "InstructionLimitExceeded"} \subseteq Errors
    BY Zenon DEF Errors
  <1> HIDE DEF error
  <1>9. /\ result' \in Results
        /\ result'.instructions = result.instructions + executed
        /\ result'.handled = result.handled
        /\ result'.regs = regs /\ result'.thumb = thumb
        /\ result'.stop_pc_reached = stop_pc_reached
        /\ result'.failing_svc = NoSvc
    <2>1. result' = res \/ \E e \in Errors : result' = error(e)
      BY <1>6, <1>8, Zenon
    <2> QED
      BY <1>5, <1>7, <2>1, Zenon
  <1> QED
    BY <1>1, <1>5, <1>6, <1>7, <1>8, <1>9, Zenon

LEMMA SliceEndsPreserves ==
    ASSUME DispatchInv, SliceEnds
    PROVE  DispatchInv'
  <1> USE DEF DispatchInv
  <1>1. /\ dpc = "slice" /\ ~LoopCondition /\ remaining' = remaining - executed
        /\ UNCHANGED <<regs, thumb, count, stop, executed, raised, fault, svc, ceiling,
                       instruction_set, registry, runs, budget, saved>>
        /\ result' \in Results
        /\ result'.instructions = result.instructions + executed
        /\ result'.handled = result.handled
        /\ result'.regs = regs
        /\ result'.stop_pc_reached = stop_pc_reached
        /\ result'.failing_svc = NoSvc
        /\ dpc' \in {"idle", "trap"}
    BY SliceEndsFacts, Zenon
  <1>2. /\ executed <= count /\ count = remaining /\ remaining \in Nat /\ executed \in Nat
        /\ result.instructions + remaining = budget /\ result.instructions \in Nat
        /\ result.handled \in 0 .. ceiling /\ ceiling \in Nat /\ budget \in Nat
        /\ runs > 0
    BY <1>1 DEF Accounts, InSlice, FullTypeOK, TypeOK, CpuTypeOK, Results
  <1>3. FullTypeOK'
    <2>1. CpuTypeOK' /\ (saved \in [regs : Regs, thumb : BOOLEAN])'
      BY <1>1, Zenon DEF FullTypeOK, TypeOK, CpuTypeOK
    <2>2. (instruction_set \in BOOLEAN)'
      BY <1>1, Zenon DEF FullTypeOK, TypeOK
    <2>3. remaining' \in Nat /\ result'.instructions \in 0 .. budget
      BY <1>1, <1>2
    <2>4. TypeOK'
      BY <1>1, <1>2, <2>1, <2>2, <2>3, Zenon DEF TypeOK, Results
    <2> QED
      BY <1>1, <2>1, <2>4, Zenon DEF FullTypeOK
  <1>4. ASSUME dpc' = "trap"
        PROVE  svc # NoSvc /\ ~fault /\ result'.error = "None" /\ raised
    BY <1>1, <1>4, SliceEndsFacts, Zenon DEF InSlice
  <1>5. Accounts'
    <2>1. result'.instructions + remaining' = budget' /\ runs' > 0
      BY <1>1, <1>2
    <2>2. dpc' = "trap" => ~stop_pc_reached
      BY <1>4, Zenon DEF stop_pc_reached
    <2>3. dpc' = "trap" => ~result'.stop_pc_reached
      BY <1>1, <2>2, Zenon
    <2> QED
      BY <1>1, <1>4, <2>1, <2>3, Zenon DEF Accounts
  <1>6. InSlice' /\ InTrap'
    BY <1>1, <1>2, <1>4, SMTT(40) DEF InSlice, InTrap
  <1>7. ResultIsFaithful'
    <2>1. ~fault /\ ~raised /\ ~stop_pc_reached => result'.instructions = budget
      BY <1>1, <1>2 DEF LoopCondition
    <2> QED
      BY <1>1, <2>1, SliceEndsFacts, Zenon DEF ResultIsFaithful, stop_pc_reached
  <1> QED
    BY <1>3, <1>5, <1>6, <1>7, Zenon

\* What the calls that end or go on after a trap have in common: the CPU and the
\* accounts are left alone.
LEMMA AfterTrap ==
    ASSUME DispatchInv, dpc \in {"trap", "serviced"}, dpc' \in {"idle", "serviced"},
           UNCHANGED <<regs, thumb, count, stop, executed, raised, fault, svc, remaining,
                       ceiling, instruction_set, registry, runs, budget, saved>>,
           result' \in Results, result'.handled \in 0 .. ceiling,
           result'.instructions = result.instructions,
           dpc' = "serviced" => /\ result'.error = "None" /\ result'.failing_svc = NoSvc
                                /\ ~result'.stop_pc_reached,
           ResultIsFaithful'
    PROVE  DispatchInv'
  <1> USE DEF DispatchInv
  <1>1. CpuTypeOK' /\ (saved \in [regs : Regs, thumb : BOOLEAN])' /\ (instruction_set \in BOOLEAN)'
    BY Zenon DEF FullTypeOK, TypeOK, CpuTypeOK
  <1>2. (remaining \in Nat /\ ceiling \in Nat /\ budget \in Nat /\ runs \in Nat)'
    BY Zenon DEF FullTypeOK, TypeOK
  <1>3. result'.instructions \in 0 .. budget
    BY Zenon DEF FullTypeOK, TypeOK
  <1>4. TypeOK'
    BY <1>1, <1>2, <1>3, Zenon DEF TypeOK, Results
  <1>5. FullTypeOK'
    BY <1>1, <1>2, <1>4, Zenon DEF FullTypeOK
  <1>6. Accounts' /\ InSlice' /\ InTrap'
    BY Zenon DEF Accounts, InSlice, InTrap
  <1> QED
    BY <1>5, <1>6, Zenon

\* A trap that is refused, by the ceiling or for want of a service.
LEMMA RefuseFacts ==
    ASSUME DispatchInv, NEW e \in {"ServiceLimitExceeded", "ServiceUnhandled", "ServiceFailed"},
           Refuse(e)
    PROVE  /\ dpc' = "idle"
           /\ UNCHANGED <<regs, thumb, count, stop, executed, raised, fault, svc, remaining,
                          ceiling, instruction_set, registry, runs, budget, saved>>
           /\ result' \in Results /\ result'.error = e /\ result'.failing_svc = svc
           /\ result'.regs = result.regs /\ result'.thumb = result.thumb
           /\ result'.instructions = result.instructions /\ result'.handled = result.handled
           /\ result'.stop_pc_reached = result.stop_pc_reached
  <1>1. /\ dpc' = "idle" /\ result' = [result EXCEPT !.error = e, !.failing_svc = svc]
        /\ UNCHANGED <<regs, thumb, count, stop, executed, raised, fault, svc, remaining,
                       ceiling, instruction_set, registry, runs, budget, saved>>
    BY Zenon DEF Refuse, Return, cpuVars
  <1>2. result \in Results /\ e \in Errors /\ svc \in Immediates \cup {NoSvc}
    BY Zenon DEF DispatchInv, FullTypeOK, TypeOK, CpuTypeOK, Errors
  <1>3. /\ result' \in Results /\ result'.error = e /\ result'.failing_svc = svc
        /\ result'.regs = result.regs /\ result'.thumb = result.thumb
        /\ result'.instructions = result.instructions /\ result'.handled = result.handled
        /\ result'.stop_pc_reached = result.stop_pc_reached
    BY <1>1, <1>2, Zenon DEF Results
  <1> QED
    BY <1>1, <1>3, Zenon

LEMMA RefusePreserves ==
    ASSUME DispatchInv, dpc = "trap",
           NEW e \in {"ServiceLimitExceeded", "ServiceUnhandled", "ServiceFailed"}, Refuse(e)
    PROVE  DispatchInv'
  <1>1. svc # NoSvc /\ ~fault /\ ~result.stop_pc_reached
    BY Zenon DEF DispatchInv, InTrap, Accounts
  <1>2. ResultIsFaithful'
    <2>1. /\ e # "None" /\ e # "MemoryFault" /\ e # "CpuException"
          /\ e # "InstructionLimitExceeded"
      BY Zenon
    <2>2. /\ result'.error = e /\ result'.failing_svc = svc /\ ~result'.stop_pc_reached
          /\ UNCHANGED <<fault, raised, svc>>
      BY <1>1, RefuseFacts, Zenon
    <2> QED
      BY <1>1, <2>1, <2>2, Zenon DEF ResultIsFaithful
  <1>3. result.handled \in 0 .. ceiling
    BY Zenon DEF DispatchInv, FullTypeOK, TypeOK
  <1> QED
    BY <1>2, <1>3, RefuseFacts, AfterTrap, Zenon

\* A child is called: it leaves its registers and CPSR, and its answer.
LEMMA ServiceFacts ==
    ASSUME DispatchInv, NEW r \in Regs, NEW t \in BOOLEAN,
           NEW d \in {"Handled", "Unhandled", "Failed"}, Service(r, t, d)
    PROVE  /\ dpc = "trap" /\ result.handled < ceiling
           /\ UNCHANGED <<regs, thumb, count, stop, executed, raised, fault, svc, remaining,
                          ceiling, instruction_set, registry, runs, budget, saved>>
           /\ result' \in Results /\ result'.regs = r /\ result'.thumb = t
           /\ result'.instructions = result.instructions
           /\ result'.stop_pc_reached = result.stop_pc_reached
           /\ \/ /\ dpc' = "serviced" /\ result'.handled = result.handled + 1
                 /\ result'.error = result.error /\ result'.failing_svc = result.failing_svc
              \/ /\ dpc' = "idle" /\ result'.handled = result.handled
                 /\ result'.error \in {"ServiceUnhandled", "ServiceFailed"}
                 /\ result'.failing_svc = svc
  <1> DEFINE res == [result EXCEPT !.regs = r, !.thumb = t]
             e == IF d = "Unhandled" THEN "ServiceUnhandled" ELSE "ServiceFailed"
  <1>1. /\ dpc = "trap" /\ result.handled < ceiling
        /\ UNCHANGED <<regs, thumb, count, stop, executed, raised, fault, svc, remaining,
                       ceiling, instruction_set, registry, runs, budget, saved>>
    BY Zenon DEF Service, cpuVars
  <1>2. result \in Results /\ svc \in Immediates \cup {NoSvc}
    BY Zenon DEF DispatchInv, FullTypeOK, TypeOK, CpuTypeOK
  <1>3. /\ res \in Results /\ res.handled = result.handled
        /\ res.regs = r /\ res.thumb = t
        /\ res.instructions = result.instructions /\ res.error = result.error
        /\ res.failing_svc = result.failing_svc
        /\ res.stop_pc_reached = result.stop_pc_reached
    BY <1>2, Zenon DEF Results
  <1>4. CASE d = "Handled"
    <2>1. dpc' = "serviced" /\ result' = [res EXCEPT !.handled = @ + 1]
      BY <1>4, Zenon DEF Service
    <2> HIDE DEF res
    <2>2. res.handled + 1 \in Nat
      BY <1>3 DEF Results
    <2>3. /\ result' \in Results /\ result'.handled = res.handled + 1
          /\ result'.regs = r /\ result'.thumb = t
          /\ result'.instructions = res.instructions /\ result'.error = res.error
          /\ result'.failing_svc = res.failing_svc
          /\ result'.stop_pc_reached = res.stop_pc_reached
      BY <1>3, <2>1, <2>2, Zenon DEF Results
    <2> QED
      BY <1>1, <1>3, <2>1, <2>3, Zenon
  <1>5. CASE d # "Handled"
    <2>1. dpc' = "idle" /\ result' = [res EXCEPT !.failing_svc = svc, !.error = e]
      BY <1>5, Zenon DEF Service, Return
    <2>2. e \in Errors /\ e \in {"ServiceUnhandled", "ServiceFailed"}
      BY Zenon DEF Errors
    <2> HIDE DEF e, res
    <2>3. /\ result' \in Results /\ result'.handled = res.handled
          /\ result'.regs = r /\ result'.thumb = t
          /\ result'.instructions = res.instructions /\ result'.error = e
          /\ result'.failing_svc = svc
          /\ result'.stop_pc_reached = res.stop_pc_reached
      BY <1>2, <1>3, <2>1, <2>2, Zenon DEF Results
    <2> QED
      BY <1>1, <1>3, <2>1, <2>2, <2>3, Zenon
  <1> QED
    BY <1>4, <1>5, Zenon

LEMMA ServicePreserves ==
    ASSUME DispatchInv, NEW r \in Regs, NEW t \in BOOLEAN,
           NEW d \in {"Handled", "Unhandled", "Failed"}, Service(r, t, d)
    PROVE  DispatchInv'
  <1>1. dpc = "trap"
    BY ServiceFacts, Zenon
  <1>2. /\ result.error = "None" /\ result.failing_svc = NoSvc /\ ~result.stop_pc_reached
        /\ svc # NoSvc /\ ~fault
        /\ result.handled \in 0 .. ceiling /\ ceiling \in Nat
    BY <1>1, Zenon DEF DispatchInv, Accounts, InTrap, FullTypeOK, TypeOK
  <1>3. ~result'.stop_pc_reached
    BY <1>2, ServiceFacts, Zenon
  <1>4. ResultIsFaithful'
    BY <1>2, <1>3, ServiceFacts, Zenon DEF ResultIsFaithful
  <1>5. result'.handled \in 0 .. ceiling
    BY <1>2, ServiceFacts, SMTT(40)
  <1> QED
    BY <1>2, <1>3, <1>4, <1>5, ServiceFacts, AfterTrap, Zenon

\* After a handled service: the call ends, at stop_pc or without budget, or the
\* CPU is entered again.
LEMMA ContinueFacts ==
    ASSUME DispatchInv, Continue
    PROVE  /\ dpc = "serviced"
           /\ UNCHANGED <<stop, remaining, ceiling, instruction_set, registry, runs, budget, saved>>
           /\ result' \in Results /\ result'.handled = result.handled
           /\ result'.instructions = result.instructions
           /\ result'.failing_svc = result.failing_svc
           /\ result'.regs = result.regs /\ result'.thumb = result.thumb
           /\ \/ /\ dpc' = "idle" /\ stop # NoStop /\ result.regs.pc = stop
                 /\ result'.stop_pc_reached /\ result'.error = result.error
                 /\ UNCHANGED <<regs, thumb, count, executed, raised, fault, svc>>
              \/ /\ dpc' = "idle" /\ ~(stop # NoStop /\ result.regs.pc = stop) /\ remaining = 0
                 /\ result'.error = IF stop # NoStop THEN "InstructionLimitExceeded" ELSE "None"
                 /\ result'.stop_pc_reached = result.stop_pc_reached
                 /\ UNCHANGED <<regs, thumb, count, executed, raised, fault, svc>>
              \/ /\ dpc' = "slice" /\ result' = result
                 /\ Execute(result.regs, result.thumb, remaining, stop)
  <1>1. /\ dpc = "serviced"
        /\ UNCHANGED <<remaining, ceiling, instruction_set, registry, runs, budget, saved>>
    BY Zenon DEF Continue
  <1>2. result \in Results
    BY Zenon DEF DispatchInv, FullTypeOK
  <1>3. CASE stop # NoStop /\ result.regs.pc = stop
    <2>1. /\ dpc' = "idle" /\ result' = [result EXCEPT !.stop_pc_reached = TRUE]
          /\ UNCHANGED <<regs, thumb, count, stop, executed, raised, fault, svc>>
      BY <1>3, Zenon DEF Continue, Return, cpuVars
    <2>2. /\ result' \in Results /\ result'.handled = result.handled
          /\ result'.instructions = result.instructions /\ result'.error = result.error
          /\ result'.failing_svc = result.failing_svc /\ result'.stop_pc_reached
          /\ result'.regs = result.regs /\ result'.thumb = result.thumb
      BY <1>2, <2>1, Zenon DEF Results
    <2> QED
      BY <1>1, <1>3, <2>1, <2>2, Zenon
  <1>4. CASE ~(stop # NoStop /\ result.regs.pc = stop) /\ remaining = 0
    <2> DEFINE e == IF stop # NoStop THEN "InstructionLimitExceeded" ELSE "None"
    <2>1. /\ dpc' = "idle" /\ result' = [result EXCEPT !.error = e]
          /\ UNCHANGED <<regs, thumb, count, stop, executed, raised, fault, svc>>
      BY <1>4, Zenon DEF Continue, Return, cpuVars
    <2>2. e \in Errors
      BY Zenon DEF Errors
    <2>3. /\ result' \in Results /\ result'.handled = result.handled
          /\ result'.instructions = result.instructions /\ result'.error = e
          /\ result'.failing_svc = result.failing_svc
          /\ result'.stop_pc_reached = result.stop_pc_reached
          /\ result'.regs = result.regs /\ result'.thumb = result.thumb
      BY <1>2, <2>1, <2>2, Zenon DEF Results
    <2> QED
      BY <1>1, <1>4, <2>1, <2>3, Zenon
  <1>5. CASE ~(stop # NoStop /\ result.regs.pc = stop) /\ remaining # 0
    BY <1>1, <1>2, <1>5, Zenon DEF Continue, Execute
  <1> QED
    BY <1>3, <1>4, <1>5, Zenon

LEMMA ContinuePreserves ==
    ASSUME DispatchInv, Continue
    PROVE  DispatchInv'
  <1> USE DEF DispatchInv
  <1>1. dpc = "serviced"
    BY ContinueFacts, Zenon
  <1>2. /\ result \in Results /\ result.handled \in 0 .. ceiling
        /\ remaining \in Nat /\ budget \in Nat
        /\ result.error = "None" /\ result.failing_svc = NoSvc /\ ~result.stop_pc_reached
        /\ result.instructions + remaining = budget /\ result.instructions \in Nat
        /\ svc # NoSvc /\ ~fault
    BY <1>1, Zenon DEF FullTypeOK, TypeOK, Accounts, InTrap, Results
  <1>3. CASE dpc' = "idle"
    <2>1. remaining = 0 => result.instructions = budget
      BY <1>2, SMTT(40)
    <2>2. ResultIsFaithful'
      BY <1>2, <1>3, <2>1, ContinueFacts, Zenon DEF ResultIsFaithful
    <2> QED
      BY <1>2, <1>3, <2>2, ContinueFacts, AfterTrap, Zenon
  <1>4. CASE dpc' = "slice"
    <2>1. /\ result' = result /\ Execute(result.regs, result.thumb, remaining, stop)
          /\ UNCHANGED <<remaining, ceiling, instruction_set, registry, runs, budget, saved>>
      BY <1>4, ContinueFacts, Zenon
    <2>2. (/\ thumb \in BOOLEAN /\ raised \in BOOLEAN /\ fault \in BOOLEAN
           /\ regs \in Regs /\ stop \in PC \cup {NoStop} /\ svc \in Immediates \cup {NoSvc})'
      <3>1. result.regs \in Regs /\ result.thumb \in BOOLEAN /\ stop \in PC \cup {NoStop}
        BY <1>2, Zenon DEF Results, FullTypeOK, TypeOK, CpuTypeOK
      <3> QED
        BY <2>1, <3>1, Zenon DEF Execute
    <2>3. (count \in Nat /\ executed \in 0 .. count)'
      BY <1>2, <2>1 DEF Execute
    <2>4. CpuTypeOK'
      BY <2>2, <2>3, Zenon DEF CpuTypeOK
    <2>5. FullTypeOK'
      BY <1>4, <2>1, <2>4, Zenon DEF FullTypeOK, TypeOK
    <2>6. Accounts' /\ InTrap' /\ ResultIsFaithful'
      BY <1>1, <1>4, <2>1, Zenon DEF Accounts, InTrap, ResultIsFaithful
    <2>7. ~raised' /\ ~fault' /\ svc' = NoSvc /\ count' = remaining'
      BY <2>1, Zenon DEF Execute
    <2>8. InSlice'
      BY <2>7, Zenon DEF InSlice
    <2> QED
      BY <2>5, <2>6, <2>8, Zenon
  <1> QED
    BY <1>3, <1>4, ContinueFacts, Zenon

(***************************************************************************)
(* The invariant.                                                          *)
(***************************************************************************)
LEMMA NextDispatchInv == DispatchInv /\ [Next]_vars => DispatchInv'
  <1> SUFFICES ASSUME DispatchInv, [Next]_vars
               PROVE  DispatchInv'
    BY Zenon
  <1>1. CASE ServiceLimit
    BY <1>1, RefusePreserves, Zenon DEF ServiceLimit
  <1>2. CASE NoService
    <2> DEFINE e == IF registry_match(svc) = "Unhandled" THEN "ServiceUnhandled"
                    ELSE "ServiceFailed"
    <2>1. e \in {"ServiceLimitExceeded", "ServiceUnhandled", "ServiceFailed"}
      BY Zenon
    <2>2. dpc = "trap" /\ Refuse(e)
      BY <1>2, Zenon DEF NoService
    <2> HIDE DEF e
    <2> QED
      BY <2>1, <2>2, RefusePreserves, Zenon
  <1>3. ASSUME NEW r \in Regs, NEW t \in BOOLEAN,
               NEW d \in {"Handled", "Unhandled", "Failed"}, Service(r, t, d)
        PROVE  DispatchInv'
    BY <1>3, ServicePreserves, Zenon
  <1>4. CASE Dispatch
    BY <1>1, <1>2, <1>3, <1>4, RunPreserves, SliceEndsPreserves, ContinuePreserves, Zenon
       DEF Dispatch
  <1>5. CASE UNCHANGED vars
    BY <1>5 DEF vars, cpuVars, dispatchVars, DispatchInv, FullTypeOK, TypeOK, CpuTypeOK,
                Accounts, InSlice, InTrap, ResultIsFaithful
  <1> QED
    BY <1>4, <1>5, StartPreserves, Zenon DEF Next

\* Every behaviour keeps the accounts.
LEMMA DispatchInvHolds == Spec => []DispatchInv
  BY InitDispatchInv, NextDispatchInv, PTL DEF Spec

\* The dispatcher's state is always of its type: in particular neither the
\* instructions nor the services a result reports exceed what the caller of
\* execute_a32_with_services allowed, and remaining_instructions never underflows.
THEOREM DispatchTypeCorrect == Spec => []TypeOK
  <1>1. DispatchInv => TypeOK
    BY Zenon DEF DispatchInv, FullTypeOK
  <1> QED
    BY <1>1, DispatchInvHolds, PTL

\* What execute_a32_with_services says of a finished run is so, for any guest,
\* any services and any budget.
THEOREM ResultsAreFaithful == Spec => []ResultIsFaithful
  <1>1. DispatchInv => ResultIsFaithful
    BY Zenon DEF DispatchInv
  <1> QED
    BY <1>1, DispatchInvHolds, PTL

(***************************************************************************)
(* The refinement: each step of the dispatcher is a step of the machine or *)
(* none.                                                                   *)
(***************************************************************************)

\* A run begins on the machine too.
LEMMA StartSimulated ==
    ASSUME DispatchInv, NEW r \in Regs, NEW iset \in BOOLEAN, NEW t \in BOOLEAN,
           NEW n \in Budgets, NEW m \in Ceilings, NEW s \in PC \cup {NoStop},
           Start(r, iset, t, n, m, s)
    PROVE  Machine!Start
  <1> USE DEF Start, Execute
  <1>1. dpc = "idle" /\ dpc' = "slice" /\ runs' # 0
    BY SMTT(40) DEF DispatchInv, FullTypeOK
  <1>2. result.error # "running"
    BY Zenon DEF DispatchInv, FullTypeOK, TypeOK, Errors
  <1>3. ~Unsettled'
    BY Zenon DEF Unsettled
  <1>4. result'.instructions = 0 /\ result'.handled = 0 /\ executed' = 0 /\ regs' \in Regs
        /\ stop' \in PC \cup {NoStop} /\ budget' \in Budgets /\ ceiling' \in Ceilings
    BY Zenon
  <1>5. thumb' \in BOOLEAN
    BY Zenon
  <1> QED
    BY <1>1, <1>2, <1>3, <1>4, <1>5, SMTT(40) DEF Machine!Start, Regs

\* An instruction of a slice is one of the machine, unless it raised or faulted:
\* then it counts when the dispatcher has settled what it was.
LEMMA RunSimulated ==
    ASSUME DispatchInv, DispatchInv', Run
    PROVE  [Machine!Next]_(Machine!vars)
  <1>1. PICK r \in Regs, t \in BOOLEAN, o \in Outcomes : JitStep(r, t, o[1], o[2], o[3])
    BY Zenon DEF Run
  <1>2. /\ dpc = "slice" /\ dpc' = "slice" /\ saved' = [regs |-> regs, thumb |-> thumb]
        /\ UNCHANGED <<remaining, ceiling, result, runs, budget>>
    BY Zenon DEF Run, Snapshot
  <1>3. /\ executed < count /\ ~stop_pc_reached /\ ~raised /\ ~fault
        /\ regs' = r /\ thumb' = t /\ executed' = executed + 1
        /\ UNCHANGED <<count, stop>>
    BY <1>1, Zenon DEF JitStep, LoopCondition
  <1>4. ~Unsettled
    BY <1>2, <1>3, Zenon DEF Unsettled
  <1>5. regs.pc # stop
    BY <1>3, NoStopAssumption, Zenon
       DEF stop_pc_reached, DispatchInv, FullTypeOK, TypeOK, CpuTypeOK, Regs
  <1>6. /\ result.instructions \in Nat /\ executed \in Nat /\ budget \in Nat
        /\ result.instructions + executed < budget
    BY <1>2, <1>3, SMTT(40)
       DEF DispatchInv, FullTypeOK, TypeOK, CpuTypeOK, Results, Accounts, InSlice
  <1>7. CASE Unsettled'
    BY <1>2, <1>3, <1>4, <1>6, <1>7, SMTT(40) DEF Machine!vars
  <1>8. CASE ~Unsettled'
    <2>1. regs' \in [pc : PC, r0 : Value] /\ thumb' \in BOOLEAN
      BY <1>3, Zenon DEF Regs
    <2> QED
      BY <1>2, <1>3, <1>4, <1>5, <1>6, <1>8, <2>1, SMTT(40)
         DEF Machine!Next, Machine!Instruction, Machine!MayRun
  <1> QED
    BY <1>7, <1>8, Zenon

\* The instruction that ended a slice counts once the dispatcher has settled it.
LEMMA Settled ==
    ASSUME DispatchInv, DispatchInv', Unsettled, dpc' \in {"idle", "serviced"},
           UNCHANGED <<stop, ceiling, runs, budget>>,
           result'.instructions = result.instructions + (IF dpc = "slice" THEN executed ELSE 0),
           \/ dpc' = "serviced" /\ result.handled < ceiling /\ result'.handled = result.handled + 1
           \/ /\ dpc' = "idle" /\ result'.handled = result.handled
              /\ \/ result'.error \in {"MemoryFault", "CpuException"}
                 \/ /\ result.handled < ceiling
                    /\ result'.error \in {"ServiceUnhandled", "ServiceFailed"}
                 \/ ~(result.handled < ceiling) /\ result'.error = "ServiceLimitExceeded"
    PROVE  Machine!Instruction
  <1>1. dpc \in {"slice", "trap"} /\ ~Unsettled' /\ dpc' # "slice" /\ dpc # "idle"
    BY Zenon DEF Unsettled
  <1>2. runs' # 0
    BY <1>1, SMTT(40) DEF DispatchInv, FullTypeOK, Accounts
  <1>3. saved.regs.pc # stop
    BY Zenon DEF Unsettled, DispatchInv, InSlice, InTrap
  <1>4. /\ result.instructions \in Nat /\ executed \in Nat /\ budget \in Nat
        /\ result.instructions + (IF dpc = "slice" THEN executed ELSE 0) <= budget
    BY <1>1 DEF DispatchInv, FullTypeOK, TypeOK, CpuTypeOK, Accounts, InSlice
  <1>5. result'.regs \in [pc : PC, r0 : Value] /\ result'.thumb \in BOOLEAN
    BY Zenon DEF DispatchInv, FullTypeOK, Results, Regs
  <1>6. Machine!MayRun
    BY <1>1, <1>3, <1>4, SMTT(40) DEF Machine!MayRun
  <1> QED
    BY <1>1, <1>2, <1>4, <1>5, <1>6 DEF Machine!Instruction

\* The machine finishes where the call does: at the stop PC, or without budget.
LEMMA Finished ==
    ASSUME DispatchInv, ~Unsettled, dpc \in {"slice", "serviced"}, dpc' = "idle",
           UNCHANGED <<stop, ceiling, runs, budget>>,
           result'.handled = result.handled,
           result'.instructions = result.instructions + (IF dpc = "slice" THEN executed ELSE 0),
           result'.regs = IF dpc = "slice" THEN regs ELSE result.regs,
           result'.thumb = IF dpc = "slice" THEN thumb ELSE result.thumb,
           result'.regs.pc = stop \/ result'.instructions = budget,
           result'.error = IF result'.regs.pc = stop \/ stop = NoStop THEN "None"
                           ELSE "InstructionLimitExceeded"
    PROVE  Machine!Finish
  <1>1. ~Unsettled' /\ dpc' # "slice" /\ dpc # "idle"
    BY Zenon DEF Unsettled
  <1>2. runs' # 0
    BY <1>1, SMTT(40) DEF DispatchInv, FullTypeOK, Accounts
  <1>3. result.instructions \in Nat /\ executed \in Nat /\ budget \in Nat
    BY SMTT(40) DEF DispatchInv, FullTypeOK, TypeOK, CpuTypeOK
  <1> QED
    BY <1>1, <1>2, <1>3, SMTT(40) DEF Machine!Finish, Machine!MayRun

LEMMA SliceEndsSimulated ==
    ASSUME DispatchInv, DispatchInv', SliceEnds
    PROVE  [Machine!Next]_(Machine!vars)
  <1>1. /\ dpc = "slice" /\ UNCHANGED <<regs, thumb, stop, executed, raised, fault, ceiling,
                                        runs, budget, saved>>
        /\ result'.instructions = result.instructions + executed
        /\ result'.handled = result.handled /\ result'.regs = regs /\ result'.thumb = thumb
    BY SliceEndsFacts, Zenon
  <1>2. CASE dpc' = "idle" /\ (raised \/ fault)
    <2>1. Unsettled /\ result'.error \in {"MemoryFault", "CpuException"}
      BY <1>1, <1>2, SliceEndsFacts, Zenon DEF Unsettled
    <2> QED
      BY <1>1, <1>2, <2>1, Settled, Zenon DEF Machine!Next
  <1>3. CASE dpc' = "trap"
    <2>1. Unsettled /\ Unsettled' /\ dpc' # "slice" /\ dpc' # "idle"
      BY <1>1, <1>3, SliceEndsFacts, Zenon DEF Unsettled, DispatchInv, InSlice
    <2>2. result.instructions \in Nat /\ executed \in Nat
      BY SMTT(40) DEF DispatchInv, FullTypeOK, TypeOK, CpuTypeOK
    <2> QED
      BY <1>1, <2>1, <2>2, SMTT(40) DEF Machine!vars
  <1>4. CASE dpc' = "idle" /\ ~raised /\ ~fault
    <2>1. ~Unsettled
      BY <1>1, <1>4, Zenon DEF Unsettled
    <2>2. stop_pc_reached <=> regs.pc = stop
      BY <1>4, NoStopAssumption, Zenon
      DEF stop_pc_reached, DispatchInv, FullTypeOK, TypeOK, CpuTypeOK, Regs
    <2>3. regs.pc = stop \/ result.instructions + executed = budget
      <3>1. regs.pc = stop \/ ~(executed < count)
        BY <1>4, <2>2, SliceEndsFacts, Zenon DEF LoopCondition
      <3> QED
        BY <1>1, <3>1, SMTT(40) DEF DispatchInv, FullTypeOK, TypeOK, CpuTypeOK, Accounts, InSlice
    <2>4. svc = NoSvc
      BY <1>1, <1>4, Zenon DEF DispatchInv, InSlice
    <2>5. result'.error = IF regs.pc = stop \/ stop = NoStop THEN "None"
                          ELSE "InstructionLimitExceeded"
      BY <1>4, <2>2, <2>4, SliceEndsFacts, Zenon
    <2> QED
      BY <1>1, <1>4, <2>1, <2>3, <2>5, Finished, Zenon DEF Machine!Next
  <1> QED
    BY <1>2, <1>3, <1>4, SliceEndsFacts, Zenon

LEMMA RefuseSimulated ==
    ASSUME DispatchInv, DispatchInv', dpc = "trap",
           NEW e \in {"ServiceLimitExceeded", "ServiceUnhandled", "ServiceFailed"}, Refuse(e),
           (e = "ServiceLimitExceeded") <=> ~(result.handled < ceiling)
    PROVE  Machine!Next
  <1>1. Unsettled /\ result.instructions \in Nat
    BY DEF Unsettled, DispatchInv, FullTypeOK, TypeOK
  <1> QED
    BY <1>1, RefuseFacts, Settled, SMTT(40) DEF Machine!Next

LEMMA ServiceSimulated ==
    ASSUME DispatchInv, DispatchInv', NEW r \in Regs, NEW t \in BOOLEAN,
           NEW d \in {"Handled", "Unhandled", "Failed"}, Service(r, t, d)
    PROVE  Machine!Next
  <1>1. dpc = "trap"
    BY ServiceFacts, Zenon
  <1>2. Unsettled /\ result.instructions \in Nat
    BY <1>1, SMTT(40) DEF Unsettled, DispatchInv, FullTypeOK, TypeOK
  <1>3. result'.instructions = result.instructions + (IF dpc = "slice" THEN executed ELSE 0)
    BY <1>1, <1>2, ServiceFacts
  <1>4. /\ dpc' \in {"idle", "serviced"} /\ UNCHANGED <<stop, ceiling, runs, budget>>
        /\ result.handled < ceiling
        /\ \/ dpc' = "serviced" /\ result'.handled = result.handled + 1
           \/ /\ dpc' = "idle" /\ result'.handled = result.handled
              /\ result'.error \in {"ServiceUnhandled", "ServiceFailed"}
    BY ServiceFacts, Zenon
  <1>5. Machine!Instruction
    BY <1>2, <1>3, <1>4, Settled, Zenon
  <1> QED
    BY <1>5, Zenon DEF Machine!Next

LEMMA ContinueSimulated ==
    ASSUME DispatchInv, DispatchInv', Continue
    PROVE  [Machine!Next]_(Machine!vars)
  <1>1. /\ dpc = "serviced" /\ UNCHANGED <<stop, remaining, ceiling, runs, budget>>
        /\ result'.handled = result.handled /\ result'.instructions = result.instructions
        /\ result'.regs = result.regs /\ result'.thumb = result.thumb
    BY ContinueFacts, Zenon
  <1>2. ~Unsettled /\ result.instructions \in Nat /\ remaining \in Nat
        /\ result.instructions + remaining = budget /\ result.error = "None"
    BY <1>1, SMTT(40) DEF Unsettled, DispatchInv, FullTypeOK, TypeOK, Accounts
  <1>3. CASE dpc' = "idle"
    <2>1. result'.regs.pc = stop \/ result'.instructions = budget
      BY <1>1, <1>2, <1>3, ContinueFacts, SMTT(40)
    <2>2. stop = NoStop => result.regs.pc # stop
      BY NoStopAssumption, Zenon DEF DispatchInv, FullTypeOK, TypeOK, Regs
    <2>3. result'.error = IF result'.regs.pc = stop \/ stop = NoStop THEN "None"
                          ELSE "InstructionLimitExceeded"
      BY <1>1, <1>2, <1>3, <2>2, ContinueFacts, Zenon
    <2> QED
      BY <1>1, <1>2, <1>3, <2>1, <2>3, Finished, SMTT(40) DEF Machine!Next
  <1>4. CASE dpc' = "slice"
    <2>1. /\ regs' = result.regs /\ thumb' = result.thumb /\ executed' = 0
          /\ ~raised' /\ ~fault'
      BY <1>4, ContinueFacts, Zenon DEF Execute
    <2>2. ~Unsettled'
      BY <1>4, <2>1, Zenon DEF Unsettled
    <2> QED
      BY <1>1, <1>2, <1>4, <2>1, <2>2, Zenon DEF Machine!vars
  <1> QED
    BY <1>3, <1>4, ContinueFacts, Zenon

\* Every step of the dispatcher is a step of the machine, or none.
LEMMA StepSimulated == DispatchInv /\ DispatchInv' /\ [Next]_vars => [Machine!Next]_(Machine!vars)
  <1> SUFFICES ASSUME DispatchInv, DispatchInv', [Next]_vars
               PROVE  [Machine!Next]_(Machine!vars)
    BY Zenon
  <1>1. CASE ServiceLimit
    <2>1. ~(result.handled < ceiling)
      BY <1>1 DEF ServiceLimit, DispatchInv, FullTypeOK, TypeOK
    <2> QED
      BY <1>1, <2>1, RefuseSimulated, Zenon DEF ServiceLimit
  <1>2. CASE NoService
    <2> DEFINE e == IF registry_match(svc) = "Unhandled" THEN "ServiceUnhandled"
                    ELSE "ServiceFailed"
    <2>1. /\ e \in {"ServiceLimitExceeded", "ServiceUnhandled", "ServiceFailed"}
          /\ e # "ServiceLimitExceeded"
      BY Zenon
    <2>2. dpc = "trap" /\ Refuse(e) /\ result.handled < ceiling
      BY <1>2, Zenon DEF NoService
    <2> HIDE DEF e
    <2> QED
      BY <2>1, <2>2, RefuseSimulated, Zenon
  <1>3. ASSUME NEW r \in Regs, NEW t \in BOOLEAN,
               NEW d \in {"Handled", "Unhandled", "Failed"}, Service(r, t, d)
        PROVE  Machine!Next
    BY <1>3, ServiceSimulated, Zenon
  <1>4. CASE Dispatch
    BY <1>1, <1>2, <1>3, <1>4, RunSimulated, SliceEndsSimulated, ContinueSimulated, Zenon
       DEF Dispatch
  <1>5. ASSUME NEW r \in Regs, NEW iset \in BOOLEAN, NEW t \in BOOLEAN,
               NEW n \in Budgets, NEW m \in Ceilings, NEW s \in PC \cup {NoStop},
               Start(r, iset, t, n, m, s)
        PROVE  Machine!Next
    BY <1>5, StartSimulated, SMTT(40) DEF Machine!Next
  <1>6. CASE UNCHANGED vars
    BY <1>6, Zenon DEF vars, cpuVars, dispatchVars, Machine!vars, Unsettled
  <1> QED
    BY <1>4, <1>5, <1>6, Zenon DEF Next

\* execute_a32_with_services, which enters the CPU anew after every service, is
\* one machine under one budget, whatever the guest, the services, the budget and
\* the ceiling: no instruction is lost or repeated at a re-entry, and the call
\* ends where and how the machine would.
THEOREM DispatchRefinesMachine == Spec => RunsAsOneMachine
  <1>1. Init => Machine!Init
    BY Zenon DEF Init, Machine!Init
  <1> QED
    BY <1>1, DispatchInvHolds, StepSimulated, PTL DEF Spec, RunsAsOneMachine, Machine!Spec

(***************************************************************************)
(* The other client of the CPU: the constructors of Elf32Lifecycle, for    *)
(* any dependency graphs, any arrays, any options and any guest code.      *)
(***************************************************************************)

\* One constructor more is entered than has returned while a call runs, and
\* after a call that failed; no error is recorded before the end.
EnteredOnce ==
    /\ completed \in Nat /\ began \in Seq(Nat)
    /\ lpc \notin {"call", "done"} => Len(began) = completed
    /\ lpc = "call" => Len(began) = completed + 1
    /\ lpc # "done" => execution.error = "None"

LifecycleInv == EnteredOnce /\ ExecutedPrefix

Failures == {"MemoryFault", "CpuException", "InstructionLimitExceeded"}

\* Planning, whose steps leave the execution alone, and a plan that fails.
LEMMA PlanningPreserves ==
    ASSUME LifecycleInv, lpc \in {"idle", "visit"},
           UNCHANGED <<cpuVars, completed, execution, began>>,
           \/ lpc' \in {"visit", "planned"}
           \/ lpc' = "done" /\ plan'.error # "None"
    PROVE  LifecycleInv'
  <1>1. Len(began) = completed /\ execution.error = "None"
    BY Zenon DEF LifecycleInv, EnteredOnce
  <1>2. fault' = fault /\ completed' = completed /\ execution' = execution /\ began' = began
    BY Zenon DEF cpuVars
  <1>3. lpc' # "call" /\ (lpc' = "done" => plan'.error # "None")
    BY Zenon
  <1>4. EnteredOnce'
    BY <1>1, <1>2, <1>3, Zenon DEF EnteredOnce, LifecycleInv
  <1>5. ExecutedPrefix'
    BY <1>1, <1>2, <1>3, Zenon DEF ExecutedPrefix, LifecycleInv
  <1> QED
    BY <1>4, <1>5, Zenon DEF LifecycleInv

LEMMA PlanFailsPreserves ==
    ASSUME LifecycleInv, lpc = "visit", NEW e, NEW o, e # "None", PlanFails(e, o)
    PROVE  LifecycleInv'
  <1>1. plan'.error = e
    BY Zenon DEF PlanFails
  <1> QED
    BY <1>1, PlanningPreserves, Zenon DEF PlanFails, cpuVars

LEMMA PlanPreserves ==
    ASSUME LifecycleInv, NEW r, NEW o, Plan(r, o)
    PROVE  LifecycleInv'
  <1>1. CASE o.max_objects = 0 \/ r \notin DOMAIN graph
    <2>1. lpc' = "done" /\ plan'.error # "None"
      BY <1>1 DEF Plan
    <2> QED
      BY <2>1, PlanningPreserves, Zenon DEF Plan, cpuVars
  <1>2. CASE ~(o.max_objects = 0 \/ r \notin DOMAIN graph)
    BY <1>2, PlanningPreserves, Zenon DEF Plan, cpuVars
  <1> QED
    BY <1>1, <1>2, Zenon

LEMMA EnterPreserves ==
    ASSUME LifecycleInv, Enter
    PROVE  LifecycleInv'
  <1>1. ASSUME UNCHANGED <<cpuVars, completed, execution, began>>, lpc' = lpc
        PROVE  LifecycleInv'
    BY <1>1, PlanningPreserves, Zenon DEF Enter
  <1> QED
    BY <1>1, PlanFailsPreserves, Zenon DEF Enter, cpuVars

LEMMA EdgePreserves ==
    ASSUME LifecycleInv, Edge
    PROVE  LifecycleInv'
  <1>1. ASSUME UNCHANGED <<cpuVars, completed, execution, began>>, lpc' = lpc
        PROVE  LifecycleInv'
    BY <1>1, PlanningPreserves, Zenon DEF Edge
  <1> QED
    BY <1>1, PlanFailsPreserves, Zenon DEF Edge, cpuVars

LEMMA ContributePreserves ==
    ASSUME LifecycleInv, Contribute
    PROVE  LifecycleInv'
  <1>1. ASSUME UNCHANGED <<cpuVars, completed, execution, began>>, lpc' = lpc
        PROVE  LifecycleInv'
    BY <1>1, PlanningPreserves, Zenon DEF Contribute
  <1>2. ASSUME NEW error
        PROVE  (IF error = "TooManyEntries" THEN "EntryLimitExceeded" ELSE "DecodeFailed")
                  # "None"
    BY Zenon
  <1> QED
    BY <1>1, <1>2, PlanFailsPreserves, Zenon
    DEF Contribute, cpuVars

LEMMA ExecuteCallsPreserves ==
    ASSUME LifecycleInv, NEW o, ExecuteCalls(o)
    PROVE  LifecycleInv'
  <1>1. Len(began) = completed /\ execution.error = "None" /\ lpc = "planned"
    BY Zenon DEF LifecycleInv, EnteredOnce, ExecuteCalls
  <1>2. fault' = fault /\ completed' = completed /\ began' = began
    BY Zenon DEF ExecuteCalls, cpuVars
  <1>3. \/ lpc' = "next" /\ execution' = execution
        \/ lpc' = "done" /\ execution'.error = "InvalidOptions"
    BY DEF ExecuteCalls
  <1>4. EnteredOnce'
    BY <1>1, <1>2, <1>3, Zenon DEF EnteredOnce, LifecycleInv
  <1>5. ExecutedPrefix'
    BY <1>1, <1>2, <1>3, Zenon DEF ExecutedPrefix, LifecycleInv
  <1> QED
    BY <1>4, <1>5, Zenon DEF LifecycleInv

\* The constructor entered is the one after those that returned.
LEMMA BeginCallPreserves ==
    ASSUME LifecycleInv, BeginCall
    PROVE  LifecycleInv'
  <1> DEFINE function == calls[completed + 1].function
  <1>1. /\ Len(began) = completed /\ execution.error = "None" /\ lpc = "next"
        /\ completed \in Nat /\ began \in Seq(Nat) /\ \A k \in DOMAIN began : began[k] = k
    BY Zenon DEF LifecycleInv, EnteredOnce, BeginCall, ExecutedPrefix
  <1>2. completed' = completed
    BY Zenon DEF BeginCall
  <1>3. CASE BadFunction(function)
    <2>1. /\ lpc' = "done" /\ execution'.error = "InvalidFunctionAddress"
          /\ began' = began
      BY <1>3 DEF BeginCall
    <2>2. EnteredOnce'
      BY <1>1, <1>2, <2>1, Zenon DEF EnteredOnce
    <2>3. ExecutedPrefix'
      BY <1>1, <1>2, <2>1, Zenon DEF ExecutedPrefix
    <2> QED
      BY <2>2, <2>3, Zenon DEF LifecycleInv
  <1>4. CASE ~BadFunction(function)
    <2>1. /\ lpc' = "call" /\ execution' = execution
          /\ began' = Append(began, completed + 1)
      BY <1>4, Zenon DEF BeginCall
    <2>2. /\ began' \in Seq(Nat) /\ Len(began') = completed + 1
          /\ \A k \in DOMAIN began' : began'[k] = k
      BY <1>1, <2>1, SMTT(40)
    <2>3. EnteredOnce'
      BY <1>1, <1>2, <2>1, <2>2, Zenon DEF EnteredOnce
    <2>4. ExecutedPrefix'
      BY <1>1, <1>2, <2>1, <2>2, SMTT(40) DEF ExecutedPrefix
    <2> QED
      BY <2>3, <2>4, Zenon DEF LifecycleInv
  <1> QED
    BY <1>3, <1>4, ZenonT(40)

LEMMA RunConstructorPreserves ==
    ASSUME LifecycleInv, RunConstructor
    PROVE  LifecycleInv'
  <1>1. lpc = "call" /\ execution.error = "None"
    BY Zenon DEF LifecycleInv, EnteredOnce, RunConstructor
  <1>2. /\ completed' = completed /\ began' = began /\ execution' = execution
        /\ lpc' = lpc
    BY Zenon DEF RunConstructor, lifecycleVars
  <1>3. EnteredOnce'
    BY <1>2, ZenonT(40) DEF EnteredOnce, LifecycleInv
  <1>4. ExecutedPrefix'
    BY <1>1, <1>2, Zenon DEF ExecutedPrefix, LifecycleInv
  <1> QED
    BY <1>3, <1>4, Zenon DEF LifecycleInv

\* A constructor that ends another way than at the return PC ends the run.
LEMMA EndCallPreserves ==
    ASSUME LifecycleInv, EndCall
    PROVE  LifecycleInv'
  <1> DEFINE error == ExecutionError
  <1>1. /\ Len(began) = completed + 1 /\ execution.error = "None" /\ lpc = "call"
        /\ completed \in Nat /\ began \in Seq(Nat) /\ \A k \in DOMAIN began : began[k] = k
    BY Zenon DEF LifecycleInv, EnteredOnce, EndCall, ExecutedPrefix
  <1>2. began' = began /\ fault' = fault
    BY Zenon DEF EndCall, cpuVars
  <1>3. CASE error = "None"
    <2>1. lpc' = "next" /\ completed' = completed + 1 /\ execution' = execution
      BY <1>3, Zenon DEF EndCall
    <2>2. EnteredOnce'
      BY <1>1, <1>2, <2>1, SMTT(40) DEF EnteredOnce
    <2>3. ExecutedPrefix'
      BY <1>1, <1>2, <2>1, Zenon DEF ExecutedPrefix
    <2> QED
      BY <2>2, <2>3, Zenon DEF LifecycleInv
  <1>4. CASE error # "None"
    <2>1. /\ lpc' = "done" /\ completed' = completed
          /\ execution'.error = error /\ execution'.failing_call = completed + 1
      BY <1>4 DEF EndCall
    <2>2. error \in Failures /\ (error = "MemoryFault" <=> fault)
      BY <1>4, Zenon DEF ExecutionError, Failures
    <2> HIDE DEF error
    <2>3. EnteredOnce'
      BY <1>1, <1>2, <2>1, Zenon DEF EnteredOnce
    <2>4. ExecutedPrefix'
      BY <1>1, <1>2, <1>4, <2>1, <2>2, SMTT(40) DEF ExecutedPrefix, Failures
    <2> QED
      BY <2>3, <2>4, Zenon DEF LifecycleInv
  <1> QED
    BY <1>3, <1>4, Zenon

LEMMA AllCalledPreserves ==
    ASSUME LifecycleInv, AllCalled
    PROVE  LifecycleInv'
  <1>1. Len(began) = completed /\ lpc = "next" /\ execution.error = "None"
    BY Zenon DEF LifecycleInv, EnteredOnce, AllCalled
  <1>2. /\ fault' = fault /\ completed' = completed /\ execution' = execution
        /\ began' = began /\ calls' = calls /\ lpc' = "done" /\ completed = Len(calls)
    BY Zenon DEF AllCalled, cpuVars
  <1>3. EnteredOnce'
    BY <1>1, <1>2, Zenon DEF EnteredOnce, LifecycleInv
  <1>4. ExecutedPrefix'
    BY <1>1, <1>2, Zenon DEF ExecutedPrefix, LifecycleInv
  <1> QED
    BY <1>3, <1>4, Zenon DEF LifecycleInv

LEMMA LifecycleInvHolds == LifecycleSpec => []LifecycleInv
  <1>1. LifecycleInit => LifecycleInv
    BY DEF LifecycleInit, LifecycleInv, EnteredOnce, ExecutedPrefix
  <1>2. LifecycleInv /\ [LifecycleNext]_(allVars) => LifecycleInv'
    <2> SUFFICES ASSUME LifecycleInv, [LifecycleNext]_(allVars)
                 PROVE  LifecycleInv'
      BY Zenon
    <2>1. ASSUME Planned PROVE LifecycleInv'
      BY <2>1, PlanningPreserves, Zenon DEF Planned, cpuVars
    <2>2. ASSUME Step PROVE LifecycleInv'
      BY <2>1, <2>2, EnterPreserves, EdgePreserves, ContributePreserves, BeginCallPreserves,
         RunConstructorPreserves, EndCallPreserves, AllCalledPreserves, ZenonT(40)
      DEF Step
    <2>3. ASSUME UNCHANGED allVars PROVE LifecycleInv'
      BY <2>3, Zenon DEF allVars, cpuVars, lifecycleVars, LifecycleInv,
         EnteredOnce, ExecutedPrefix
    <2> QED
      BY <2>2, <2>3, PlanPreserves, ExecuteCallsPreserves, Zenon DEF LifecycleNext
  <1> QED
    BY <1>1, <1>2, PTL DEF LifecycleSpec

\* execute_elf32_init_calls enters the planned constructors in order, each once,
\* stops at the first that does not return, and says which one and how it ended,
\* whatever the graph, the arrays, the options and the guest code.
THEOREM ConstructorsRunInOrder == LifecycleSpec => []ExecutedPrefix
  <1>1. LifecycleInv => ExecutedPrefix
    BY Zenon DEF LifecycleInv
  <1> QED
    BY <1>1, LifecycleInvHolds, PTL

=============================================================================
