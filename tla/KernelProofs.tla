---------------------------- MODULE KernelProofs ----------------------------
(***************************************************************************)
(* The theorems about Kernel, for every number of processes and CPUs and   *)
(* every choice of signals and programs; at the end, that fork(), exit()   *)
(* and wait() implement ProcLife: the refinement behind ImplementsLife,    *)
(* step by step.                                                           *)
(***************************************************************************)
EXTENDS KernelSteps, FiniteSets, FiniteSetTheorems

(* Zenon is tried for a minute on each leaf; a leaf that needs arithmetic or many *)
(* function updates cites the SMT solver. *)
USE ZenonT(60)

LEMMA InitTypes == Init => TypeOK
<1> SUFFICES ASSUME Init PROVE TypeOK
  OBVIOUS
<1>1. initproc \in Procs /\ 0 \in 0..(TickMod - 1) /\ NULL = 0
  BY ProcAssumption, CpuIds, SMTT(60) DEF NULL
<1>2. ProcTypes
  BY <1>1, SMTT(60) DEF Init, ProcTypes, States
<1>3. SigTypes
  BY DEF Init, SigTypes, Dispositions
<1>4. ArgTypes /\ PcTypes
  BY <1>1, SMTT(60) DEF Init, ArgTypes, PcTypes, PCs, LockedPCs, WakePCs
<1>5. ThreadTypes
  BY <1>1, SMTT(60) DEF Init, ThreadTypes
<1>6. GlobalTypes
  BY <1>1 DEF Init, GlobalTypes
<1> QED
  BY <1>2, <1>3, <1>4, <1>5, <1>6 DEF TypeOK

LEMMA InitCoherent == Init => Coherent
<1> SUFFICES ASSUME Init PROVE Coherent
  OBVIOUS
<1>1. initproc \in Procs /\ NULL \notin Procs
  BY CpuIds
<1>2. /\ \A p \in Procs : /\ pc[p] \in {"forkret", "exit_ret"} /\ stk[p] = <<>>
                          /\ parent[p] = NULL /\ chan[p] = NULL
                          /\ state[p] = IF p = initproc THEN "RUNNABLE" ELSE "UNUSED"
      /\ \A c \in CPUs : cpu[c] = NULL
      /\ ptlock = NoCPU
  BY DEF Init
<1>3. "forkret" \notin CalledPCs /\ "exit_ret" \notin CalledPCs
  BY DEF CalledPCs
<1>4. ThreadInv
  <2>1. \A p \in Procs : StackOK(pc[p], stk[p])
    BY <1>2, <1>3, EmptyOK
  <2> QED
    BY <1>2, <2>1 DEF ThreadInv
<1>5. CpuInv
  BY <1>2, CpuIds DEF CpuInv, LockHandover, WakePCs
<1>6. \A p \in Procs : Base(p) \notin ForkPCs \cup KillPCs
  BY <1>2 DEF Base, BaseOf, ForkPCs, KillPCs
<1>7. ForkInv /\ KillInv
  BY <1>6 DEF ForkInv, KillInv
<1>8. ChanInv
  BY <1>2 DEF ChanInv, ChanOf
<1>9. FamilyInv
  BY <1>1, <1>2 DEF FamilyInv, FamilyTree, Live
<1> QED
  BY <1>4, <1>5, <1>7, <1>8, <1>9 DEF Coherent

(* The types first, then the rest, whose lemmas use the types of the next   *)
(* state.                                                                   *)
LEMMA StepTypes ==
  ASSUME IInv, Next
  PROVE  TypeOK'
<1>1. ASSUME NEW c \in CPUs, KernelStep(c) PROVE TypeOK'
  BY <1>1, SchedTypes, ForkTypes, ExitTypes, SleepTypes, PsigTypes, KillTypes, TrapTypes
    DEF KernelStep
<1>2. CASE Frozen
  BY <1>2 DEF Frozen, vars, procVars, sigVars, argVars, thrVars, tickVars, IInv,
    TypeOK,
    ProcTypes, SigTypes, ArgTypes, PcTypes, ThreadTypes, GlobalTypes
<1> QED
  BY <1>1, <1>2, SchedulerTypes, UserTypes, IntrTypes, IdleTypes DEF Next

LEMMA StepCoherent ==
  ASSUME IInv, Next, TypeOK'
  PROVE  Coherent'
<1>1. ASSUME NEW c \in CPUs, KernelStep(c) PROVE Coherent'
  BY <1>1, SchedCoherent, ForkCoherent, ExitCoherent, SleepCoherent, PsigCoherent,
    KillCoherent, TrapCoherent DEF KernelStep
<1>2. CASE Frozen
  BY <1>2, SameOK DEF Frozen, vars, cohVars, procVars, argVars, thrVars, IInv
<1> QED
  BY <1>1, <1>2, SchedulerCoherent, UserCoherent, IntrCoherent, IdleCoherent DEF Next

LEMMA StutterInv ==
  ASSUME IInv, UNCHANGED vars
  PROVE  IInv'
<1>1. TypeOK'
  BY DEF vars, procVars, sigVars, argVars, thrVars, tickVars, IInv, TypeOK,
    ProcTypes, SigTypes, ArgTypes, PcTypes, ThreadTypes, GlobalTypes
<1>2. Coherent'
  BY SameOK DEF vars, cohVars, procVars, argVars, thrVars, IInv
<1> QED
  BY <1>1, <1>2 DEF IInv

(* IInv is an invariant of the kernel. *)
THEOREM Invariance == Spec => []IInv
<1>1. Init => IInv
  BY InitTypes, InitCoherent DEF IInv
<1>2. IInv /\ [Next]_vars => IInv'
  BY StepTypes, StepCoherent, StutterInv DEF IInv
<1> QED
  BY <1>1, <1>2, PTL DEF Spec

-----------------------------------------------------------------------------
(* The fields of struct proc, the threads and the locks always hold values  *)
(* of their types; no mask blocks SIGKILL, SIGSTOP or SIGCONT.              *)
THEOREM TypeCorrect == Spec => []TypeOK
<1>1. IInv => TypeOK
  BY DEF IInv
<1> QED
  BY <1>1, Invariance, PTL

(* sched() and scheduler(): no kernel stack is in use on two CPUs, and a    *)
(* process that has given up the CPU is still on it only under ptable.lock. *)
THEOREM StackExclusion == Spec => []KernelStackExclusive
<1>1. IInv => KernelStackExclusive
  BY DEF IInv, Coherent, CpuInv, LockHandover, KernelStackExclusive, LockedPCs
<1> QED
  BY <1>1, Invariance, PTL

(* exit() and wait(): every process and zombie but init has a parent that   *)
(* has not exited.                                                          *)
THEOREM Family == Spec => []FamilyTree
<1>1. IInv => FamilyTree
  BY DEF IInv, Coherent, FamilyInv
<1> QED
  BY <1>1, Invariance, PTL

(* exit(), wait(), kill() and sleep(): nobody sleeps in wait() who has a    *)
(* zombie to collect, has been killed or has no child.                      *)
THEOREM NoLostChild == Spec => []NoMissedChild
<1>1. IInv => NoMissedChild
  BY DEF IInv, Coherent, FamilyInv, NoMissedChild
<1> QED
  BY <1>1, Invariance, PTL

-----------------------------------------------------------------------------
(* Only allocproc() and wait() write a pid: the one hands out nextpid, the  *)
(* other clears the slot.                                                   *)
PidStep ==
  \/ UNCHANGED pid
  \/ \E np \in Procs : pid' = [pid EXCEPT ![np] = nextpid]
  \/ \E q \in Procs : pid' = [pid EXCEPT ![q] = 0]

LEMMA PidSteps ==
  ASSUME Next
  PROVE  PidStep
<1>1. ASSUME NEW c \in CPUs, SchedStep(c) \/ \E q \in Procs : scheduler(c, q) PROVE PidStep
  BY <1>1 DEF PidStep, SchedStep, yield, yield_ret, sched, forkret, scheduler,
    panic, procVars
<1>2. ASSUME NEW c \in CPUs, ForkStep(c) PROVE PidStep
  BY <1>2 DEF PidStep, ForkStep, allocproc, fork_fail, allocproc_kstack, fork_copy,
    fork_run, procVars
<1>3. ASSUME NEW c \in CPUs, ExitStep(c) PROVE PidStep
  <2>1. CASE wait(c)
    BY <2>1 DEF PidStep, wait, children
  <2> QED
    BY <1>3, <2>1 DEF PidStep, ExitStep, exit, sys_kill, exec, panic, procVars
<1>4. ASSUME NEW c \in CPUs, SleepStep(c) PROVE PidStep
  BY <1>4 DEF PidStep, SleepStep, sys_sleep, sleep_loop, sleep_sig, sleep, sleep_wake,
    sleep_reacquire, sleep_end, panic, procVars
<1>5. ASSUME NEW c \in CPUs, PsigStep(c) PROVE PidStep
  BY <1>5 DEF PidStep, PsigStep, psig, term, psig_term, psig_core, psig_core_ret,
    psig_stop,
    psig_stop_ret, psig_user, jmptohandler, procVars
<1>6. ASSUME NEW c \in CPUs, KillStep(c) PROVE PidStep
  BY <1>6 DEF PidStep, KillStep, Kill, Kill_scan, Kill_post, Kill_kill, signal,
    sys_sigmask, procVars
<1>7. ASSUME NEW c \in CPUs, TrapStep(c) \/ UserStep(c)
             \/ \E dev \in {"intr_timer", "intr_device"} : trap_intr(c, dev)
      PROVE PidStep
  BY <1>7 DEF PidStep, TrapStep, trap_sysret, trap_killcheck, trap_tick,
    trap_intr_killed,
    trap_intr_sig, trap_intr_ret, UserStep, trap_syscall, sigreturn, trap_fault, trap_overrun,
    fault, trap_intr, panic, procVars
<1>8. ASSUME idle_tick \/ Frozen PROVE PidStep
  BY <1>8 DEF PidStep, idle_tick, Frozen, vars, procVars
<1> QED
  BY <1>1, <1>2, <1>3, <1>4, <1>5, <1>6, <1>7, <1>8 DEF Next, KernelStep

(* allocproc(): no two slots ever have the same pid, whatever forks fail    *)
(* and however slots are reused.                                            *)
THEOREM PidsUnique == Spec => []UniquePids
<1>1. Init => UniquePids
  BY SMTT(60) DEF Init, UniquePids
<1>2. IInv /\ UniquePids /\ [Next]_vars => UniquePids'
  <2> SUFFICES ASSUME IInv, UniquePids, [Next]_vars PROVE UniquePids'
    OBVIOUS
  <2>1. PidStep
    BY PidSteps DEF PidStep, vars, procVars
  <2>2. nextpid \in Nat /\ pid \in [Procs -> 0..(nextpid - 1)]
    BY DEF IInv, TypeOK, ProcTypes
  <2> QED
    BY <2>1, <2>2, SMTT(60) DEF PidStep, UniquePids
<1> QED
  BY <1>1, <1>2, Invariance, PTL DEF Spec

-----------------------------------------------------------------------------
(* What the table knows of a stopped process: it is on no CPU, has no       *)
(* channel, and is neither a free slot nor a zombie.                        *)
LEMMA Stopped ==
  ASSUME IInv, NEW p \in Procs, state[p] = "SLEEPING", pc[p] = "stop_wake"
  PROVE  chan[p] = NULL /\ \A c \in CPUs : cpu[c] # p
<1>1. chan[p] = NULL
  BY DEF IInv, Coherent, ChanInv, ChanOf
<1>2. \A c \in CPUs : cpu[c] # p
  BY OffCpu DEF SchedPCs
<1> QED
  BY <1>1, <1>2

LEMMA ResumedSteps ==
  ASSUME IInv, NEW p \in Procs, Next
  PROVE  Resumed(p)
<1> SUFFICES ASSUME state[p] = "SLEEPING", pc[p] = "stop_wake", state'[p] # "SLEEPING"
             PROVE  \/ killed'[p]
                    \/ \E c \in CPUs : /\ At(c, "Kill_post")
                                       /\ lp[cpu[c]] = p
                                       /\ tsig[cpu[c]] = SIGCONT
  BY DEF Resumed
<1>0. /\ chan[p] = NULL /\ (\A c \in CPUs : cpu[c] # p)
      /\ state \in [Procs -> States] /\ killed \in [Procs -> BOOLEAN]
      /\ lp \in [Procs -> Procs \cup {NULL}]
      /\ initproc # NULL /\ TicksChan # NULL
  BY Stopped, ProcAssumption, SMTT(60) DEF IInv, TypeOK, ProcTypes, ArgTypes, initproc, NULL,
    TicksChan
<1>9. ASSUME NEW v, kill(v) PROVE killed'[p]
  BY <1>0, <1>9 DEF kill
<1>1. ASSUME NEW c \in CPUs, SchedStep(c) \/ \E q \in Procs : scheduler(c, q) PROVE FALSE
  BY <1>0, <1>1 DEF SchedStep, yield, yield_ret, sched, forkret, scheduler, panic,
    procVars
<1>2. ASSUME NEW c \in CPUs, ForkStep(c) PROVE FALSE
  <2>1. CASE allocproc(c)
    BY <1>0, <2>1 DEF allocproc, procVars
  <2>2. CASE ~allocproc(c)
    <3>1. cpu[c] # NULL /\ pc[cpu[c]] \in ForkPCs
      BY <1>2, <2>2 DEF ForkStep, fork_fail, allocproc_kstack, fork_copy, fork_run,
        At, ForkPCs
    <3>2. state[lp[cpu[c]]] = "EMBRYO"
      BY <3>1, ForkSlot
    <3> QED
      BY <1>0, <1>2, <2>2, <3>2 DEF ForkStep, fork_fail, allocproc_kstack,
        fork_copy, fork_run
  <2> QED
    BY <2>1, <2>2
<1>3. ASSUME NEW c \in CPUs, ExitStep(c) PROVE killed'[p]
  <2>1. CASE exit(c) /\ panic("init_exiting")
    BY <2>1 DEF panic, procVars
  <2>2. CASE exit(c) /\ ~panic("init_exiting")
    <3>1. /\ cpu[c] # NULL /\ pc[cpu[c]] = "exit" /\ cpu[c] # initproc
          /\ state' = [wake_init(wakeup1(state, parent[cpu[c]]), cpu[c]) EXCEPT ![cpu[c]] = "ZOMBIE"]
      BY <2>2 DEF exit, At
    <3>2. cpu[c] \in Procs /\ state[cpu[c]] = "RUNNING"
      BY <3>1, Running DEF SchedPCs
    <3>3. parent[cpu[c]] # NULL
      BY <3>1, <3>2 DEF IInv, Coherent, FamilyInv, FamilyTree, Live
    <3> QED
      BY <1>0, <3>1, <3>3 DEF wake_init, wakeup1
  <2>3. CASE wait(c)
    BY <1>0, <2>3 DEF wait, children
  <2>4. CASE sys_kill(c)
    BY <1>9, <2>4 DEF sys_kill
  <2>5. CASE exec(c)
    BY <2>5 DEF exec, procVars
  <2> QED
    BY <1>3, <2>1, <2>2, <2>3, <2>4, <2>5 DEF ExitStep
<1>4. ASSUME NEW c \in CPUs, SleepStep(c) PROVE FALSE
  BY <1>0, <1>4 DEF SleepStep, sys_sleep, sleep_loop, sleep_sig, sleep, sleep_wake,
    sleep_reacquire, sleep_end, panic, procVars
<1>5. ASSUME NEW c \in CPUs, PsigStep(c) PROVE killed'[p]
  <2>1. CASE term(c)
    BY <1>9, <2>1 DEF term
  <2> QED
    BY <1>0, <1>5, <2>1 DEF PsigStep, psig, psig_term, psig_core, psig_core_ret,
      psig_stop, stop,
      psig_stop_ret, psig_user, jmptohandler, procVars
<1>6. ASSUME NEW c \in CPUs, KillStep(c)
      PROVE  killed'[p] \/ (At(c, "Kill_post") /\ lp[cpu[c]] = p /\ tsig[cpu[c]] = SIGCONT)
  <2>1. CASE Kill_kill(c)
    BY <1>9, <2>1 DEF Kill_kill
  <2>2. CASE Kill_post(c)
    BY <1>0, <2>2 DEF Kill_post
  <2> QED
    BY <1>6, <2>1, <2>2 DEF KillStep, Kill, Kill_scan, signal, sys_sigmask, procVars
<1>7. ASSUME NEW c \in CPUs, TrapStep(c) \/ UserStep(c)
             \/ \E dev \in {"intr_timer", "intr_device"} : trap_intr(c, dev)
      PROVE FALSE
  BY <1>0, <1>7 DEF TrapStep, trap_sysret, trap_killcheck, trap_tick, ticktock,
    wakeup1,
    trap_intr_killed, trap_intr_sig, trap_intr_ret, UserStep, trap_syscall, sigreturn, trap_fault,
    trap_overrun, fault, trap_intr, panic, procVars
<1>8. ASSUME idle_tick \/ Frozen PROVE FALSE
  BY <1>0, <1>8 DEF idle_tick, ticktock, wakeup1, Frozen, vars, procVars
<1> QED
  BY <1>1, <1>2, <1>3, <1>4, <1>5, <1>6, <1>7, <1>8 DEF Next, KernelStep

(* stop(): a stopped process is resumed by kill() or by a posted SIGCONT    *)
(* and by nothing else, on any number of CPUs.                              *)
THEOREM StopsHold == Spec => StopHolds
<1>1. IInv /\ [Next]_vars => [\A p \in Procs : Resumed(p)]_vars
  BY ResumedSteps
<1> QED
  BY <1>1, Invariance, PTL DEF Spec, StopHolds

-----------------------------------------------------------------------------
StopPCs == {"stop_sched", "stop_wake"}

(* A step that leaves a stopped process and its masks alone. *)
KeepsStopped(p) ==
  pc'[p] \in StopPCs => pc[p] \in StopPCs /\ isig'[p] = isig[p] /\ sigblocked'[p] = sigblocked[p]

LEMMA KeptStop ==
  ASSUME StopInv, \A p \in Procs : KeepsStopped(p)
  PROVE  StopInv'
BY DEF StopInv, KeepsStopped, StopPCs

(* The running process goes to a point m outside stop(). *)
LEMMA MoveStopped ==
  ASSUME IInv, StopInv, NEW p \in Procs, NEW m, m \notin StopPCs, pc' = [pc EXCEPT ![p] = m],
         \A q \in Procs \ {p} : isig'[q] = isig[q] /\ sigblocked'[q] = sigblocked[q]
  PROVE  StopInv'
<1>1. pc \in [Procs -> PCs]
  BY DEF IInv, TypeOK, PcTypes
<1> QED
  BY <1>1, KeptStop DEF KeepsStopped

LEMMA StopStep ==
  ASSUME IInv, StopInv, Next
  PROVE  StopInv'
<1>0. /\ pc \in [Procs -> PCs] /\ isig \in [Procs -> Signals \cup {0}]
      /\ sigblocked \in [Procs -> SUBSET ((1..31) \ {SIGKILL, SIGSTOP, SIGCONT})]
      /\ stk \in [Procs -> Seq(Caller)] /\ \A c \in CPUs : cpu[c] # NULL => cpu[c] \in Procs
  BY MyProc DEF IInv, TypeOK, PcTypes, ThreadTypes, SigTypes
<1>a. ASSUME UNCHANGED <<pc, isig, sigblocked>> PROVE StopInv'
  BY <1>a, KeptStop DEF KeepsStopped
<1>b. ASSUME NEW c \in CPUs, cpu[c] # NULL, NEW m, m \notin StopPCs, Goto(c, m),
             \A q \in Procs \ {cpu[c]} : isig'[q] = isig[q] /\ sigblocked'[q] = sigblocked[q]
      PROVE  StopInv'
  BY <1>0, <1>b, MoveStopped DEF Goto
<1>c. ASSUME NEW c \in CPUs, cpu[c] # NULL, pc[cpu[c]] \in CalledPCs, Return(c), UNCHANGED sigblocked
      PROVE  StopInv'
  <2>1. StackOK(pc[cpu[c]], stk[cpu[c]]) /\ stk[cpu[c]] \in Seq(Caller)
    BY <1>c, Running
  <2>2. Head(stk[cpu[c]])[1] \notin LockedPCs
    BY <1>c, <2>1, PopOK
  <2>3. Head(stk[cpu[c]])[1] \notin StopPCs
    BY <2>2 DEF StopPCs, LockedPCs, SchedPCs, WakePCs
  <2> QED
    BY <1>0, <1>c, <2>3, MoveStopped DEF Return
<1>d. ASSUME NEW msg, panic(msg) PROVE StopInv'
  BY <1>a, <1>d DEF panic, thrVars, sigVars
<1>1. ASSUME NEW c \in CPUs, SchedStep(c) \/ \E q \in Procs : scheduler(c, q) PROVE StopInv'
  <2>1. CASE sched(c) /\ ~panic("sched_locks")
    <3>1. /\ cpu[c] # NULL /\ UNCHANGED <<isig, sigblocked>>
          /\ \E r \in AfterSched : pc[cpu[c]] = r[1] /\ Goto(c, r[2])
      BY <2>1 DEF sched, thrVars, sigVars
    <3>2. \A r \in AfterSched : r[2] \in StopPCs => r[1] \in StopPCs
      BY SMTT(60) DEF AfterSched, StopPCs
    <3>3. \A q \in Procs : KeepsStopped(q)
      BY <1>0, <3>1, <3>2 DEF KeepsStopped, Goto
    <3> QED
      BY <3>3, KeptStop
  <2>2. CASE yield(c) \/ yield_ret(c) \/ forkret(c)
    <3>1. /\ cpu[c] # NULL /\ UNCHANGED <<isig, sigblocked>>
          /\ \E m \in {"yield_sched", "intr_killed2", "user"} : Goto(c, m)
      BY <2>2 DEF yield, yield_ret, forkret, At, thrVars, sigVars
    <3> QED
      BY <1>b, <3>1 DEF StopPCs
  <2>3. CASE \E q \in Procs : scheduler(c, q)
    BY <1>a, <2>3 DEF scheduler, thrVars, sigVars
  <2> QED
    BY <1>1, <1>d, <2>1, <2>2, <2>3 DEF SchedStep
<1>2. ASSUME NEW c \in CPUs, ForkStep(c) PROVE StopInv'
  <2>1. CASE allocproc(c) \/ fork_fail(c) \/ fork_run(c)
    <3>1. /\ cpu[c] # NULL /\ UNCHANGED <<isig, sigblocked>>
          /\ \E m \in {"fork_kstack", "sysret"} : Goto(c, m)
      BY <2>1 DEF allocproc, fork_fail, fork_run, At, thrVars, sigVars
    <3> QED
      BY <1>b, <3>1 DEF StopPCs
  <2>2. CASE allocproc_kstack(c)
    <3>1. /\ UNCHANGED <<isig, sigblocked>>
          /\ pc' = [pc EXCEPT ![lp[cpu[c]]] = "forkret", ![cpu[c]] = "fork_copy"]
      BY <2>2 DEF allocproc_kstack, thrVars
    <3>2. \A q \in Procs : pc'[q] = pc[q] \/ pc'[q] \notin StopPCs
      BY <1>0, <3>1 DEF StopPCs
    <3> QED
      BY <3>1, <3>2, KeptStop DEF KeepsStopped
  <2>3. CASE fork_copy(c)
    <3>0. cpu[c] # NULL /\ pc[cpu[c]] = "fork_copy"
      BY <2>3 DEF fork_copy, At
    <3>1. lp[cpu[c]] # cpu[c] /\ pc[lp[cpu[c]]] = "forkret" /\ lp[cpu[c]] \in Procs
      BY <3>0, ForkSlot DEF ForkPCs
    <3>2. /\ UNCHANGED isig /\ pc' = [pc EXCEPT ![cpu[c]] = "fork_run"]
          /\ sigblocked' = [sigblocked EXCEPT ![lp[cpu[c]]] = sigblocked[cpu[c]]]
      BY <2>3 DEF fork_copy, Goto, thrVars
    <3>3. \A q \in Procs : KeepsStopped(q)
      BY <1>0, <3>0, <3>1, <3>2 DEF KeepsStopped, StopPCs
    <3> QED
      BY <3>3, KeptStop
  <2> QED
    BY <1>2, <2>1, <2>2, <2>3 DEF ForkStep
<1>3. ASSUME NEW c \in CPUs, ExitStep(c) PROVE StopInv'
  <2>1. CASE (exit(c) /\ ~panic("init_exiting")) \/ sys_kill(c) \/ exec(c)
    <3>1. /\ cpu[c] # NULL /\ UNCHANGED <<isig, sigblocked>>
          /\ \E m \in {"exit_sched", "sysret"} : Goto(c, m)
      BY <2>1 DEF exit, sys_kill, exec, At, thrVars, sigVars
    <3> QED
      BY <1>b, <3>1 DEF StopPCs
  <2>2. CASE wait(c)
    <3>1. /\ cpu[c] # NULL /\ UNCHANGED isig /\ \E m \in {"sysret", "wait_sched"} : Goto(c, m)
          /\ sigblocked' = sigblocked \/ \E r : sigblocked' = [sigblocked EXCEPT ![r] = {}]
      BY <2>2 DEF wait, At, thrVars
    <3>2. \A q \in Procs : pc'[q] \in StopPCs => pc'[q] = pc[q]
      BY <1>0, <3>1 DEF Goto, StopPCs
    <3>3. \A q \in Procs : sigblocked'[q] \subseteq sigblocked[q]
      BY <1>0, <3>1
    <3> QED
      BY <3>1, <3>2, <3>3 DEF StopInv, StopPCs
  <2> QED
    BY <1>3, <1>d, <2>1, <2>2 DEF ExitStep
<1>4. ASSUME NEW c \in CPUs, SleepStep(c) PROVE StopInv'
  <2>1. CASE sleep_sig(c)
    <3>1. /\ cpu[c] # NULL /\ UNCHANGED sigblocked
          /\ \E m \in {"psig", "sleep_sleep", "sleep_end"} : Goto(c, m)
          /\ isig' = isig \/ isig' = [isig EXCEPT ![cpu[c]] = 0]
      BY <2>1 DEF sleep_sig, CallPsig, At, sigVars
    <3> QED
      BY <1>0, <1>b, <3>1 DEF StopPCs
  <2>2. CASE ~sleep_sig(c) /\ ~panic("acquire")
    <3>1. /\ cpu[c] # NULL /\ UNCHANGED <<isig, sigblocked>>
          /\ \E m \in {"sleep_loop", "sleep_sig", "sysret", "sleep_over", "sleep_sched",
                       "sleep_reacquire"} : Goto(c, m)
      BY <1>4, <2>2 DEF SleepStep, sys_sleep, sleep_loop, sleep, sleep_wake, sleep_reacquire, sleep_end,
        At, thrVars, sigVars
    <3> QED
      BY <1>b, <3>1 DEF StopPCs
  <2> QED
    BY <1>d, <2>1, <2>2
<1>5. ASSUME NEW c \in CPUs, PsigStep(c) PROVE StopInv'
  <2>0. cpu[c] # NULL
    BY <1>5 DEF PsigStep, psig, term, psig_term, psig_core, psig_core_ret, psig_stop, psig_stop_ret,
      psig_user, jmptohandler, At
  <2>1. CASE psig_stop(c) /\ ~Goto(c, "psig_user")
    <3>1. PICK s \in {SIGSTOP} \cup Default(cpu[c]) : stop(c, s, sigpending'[cpu[c]]) /\ UNCHANGED sigblocked
      <4>. PICK s, S : /\ stop(c, s, S) /\ s \in {SIGSTOP} \cup Default(cpu[c])
        BY <2>1 DEF psig_stop
      <4>1. sigpending \in [Procs -> SUBSET Signals]
        BY DEF IInv, TypeOK, SigTypes
      <4>2. S = sigpending'[cpu[c]]
        BY <1>0, <2>0, <4>1 DEF stop
      <4> QED
        BY <2>1, <4>2 DEF psig_stop
    <3>2. /\ pc' = [pc EXCEPT ![cpu[c]] = "stop_sched"] /\ isig' = [isig EXCEPT ![cpu[c]] = s]
          /\ cpu[c] \in Procs
      BY <1>0, <2>0, <3>1 DEF stop, Goto
    <3>3. \A q \in Procs : q # cpu[c] => pc'[q] = pc[q] /\ isig'[q] = isig[q]
      BY <1>0, <3>2
    <3>4. isig'[cpu[c]] = s /\ (s = SIGSTOP \/ s \notin sigblocked'[cpu[c]])
      BY <1>0, <3>1, <3>2 DEF Default
    <3> QED
      BY <3>1, <3>3, <3>4 DEF StopInv
  <2>2. CASE psig_user(c) /\ Return(c)
    BY <1>c, <2>0, <2>2 DEF psig_user, At, CalledPCs
  <2>3. CASE ~(psig_stop(c) /\ ~Goto(c, "psig_user")) /\ ~(psig_user(c) /\ Return(c))
    <3>1. /\ UNCHANGED sigblocked
          /\ \E m \in {"term", "psig_core", "term_ret", "core_ret", "core", "psig_stop", "psig_user",
                       "jmptohandler", "user"} : Goto(c, m)
          /\ isig' = isig \/ \E s : isig' = [isig EXCEPT ![cpu[c]] = s]
      <4>1. CASE psig(c) \/ term(c) \/ psig_term(c)
        BY <4>1 DEF psig, term, psig_term, thrVars, sigVars
      <4>2. CASE psig_core(c) \/ psig_core_ret(c) \/ psig_stop_ret(c)
        BY <4>2 DEF psig_core, psig_core_ret, psig_stop_ret, thrVars, sigVars
      <4>3. CASE psig_stop(c)
        BY <2>3, <4>3 DEF psig_stop, stop
      <4>4. CASE psig_user(c) \/ jmptohandler(c)
        BY <2>3, <4>4 DEF psig_user, jmptohandler, sigVars
      <4> QED
        BY <1>5, <4>1, <4>2, <4>3, <4>4 DEF PsigStep
    <3> QED
      BY <1>0, <1>b, <2>0, <3>1 DEF StopPCs
  <2> QED
    BY <2>1, <2>2, <2>3
<1>6. ASSUME NEW c \in CPUs, KillStep(c) PROVE StopInv'
  <2>1. CASE Kill(c) \/ Kill_scan(c) \/ Kill_post(c) \/ Kill_kill(c) \/ signal(c)
    <3>1. /\ cpu[c] # NULL /\ UNCHANGED <<isig, sigblocked>>
          /\ \E m \in {"Kill_scan", "Kill_post", "Kill_kill", "sysret"} : Goto(c, m)
      BY <2>1 DEF Kill, Kill_scan, Kill_post, Kill_kill, Kill_next, signal, At, thrVars, sigVars
    <3> QED
      BY <1>b, <3>1 DEF StopPCs
  <2>2. CASE sys_sigmask(c)
    <3>1. /\ cpu[c] # NULL /\ UNCHANGED isig /\ Goto(c, "sysret")
          /\ sigblocked' = sigblocked \/ \E S : sigblocked' = [sigblocked EXCEPT ![cpu[c]] = S]
      BY <2>2 DEF sys_sigmask, sigsetmask, At, thrVars
    <3> QED
      BY <1>0, <1>b, <3>1 DEF StopPCs
  <2> QED
    BY <1>6, <2>1, <2>2 DEF KillStep
<1>7. ASSUME NEW c \in CPUs, TrapStep(c) PROVE StopInv'
  <2>1. CASE trap_intr_ret(c)
    BY <1>c, <2>1 DEF trap_intr_ret, At, CalledPCs, sigVars
  <2>2. CASE trap_sysret(c) \/ trap_intr_sig(c)
    <3>1. /\ cpu[c] # NULL /\ UNCHANGED sigblocked
          /\ \E m \in {"psig", "killcheck", "intr_ret"} : Goto(c, m)
          /\ isig' = isig \/ isig' = [isig EXCEPT ![cpu[c]] = 0]
      BY <2>2 DEF trap_sysret, trap_intr_sig, CallPsig, At, sigVars
    <3> QED
      BY <1>0, <1>b, <3>1 DEF StopPCs
  <2>3. CASE trap_killcheck(c) \/ (trap_tick(c) /\ ~panic("acquire")) \/ trap_intr_killed(c)
    <3>0. \A r \in AfterKilled : r[2] \in {"yield", "intr_killed2", "intr_sig"}
      BY SMTT(60) DEF AfterKilled
    <3>1. /\ cpu[c] # NULL /\ UNCHANGED <<isig, sigblocked>>
          /\ \E m \in {"exit", "user", "intr_timer", "yield", "intr_killed2", "intr_sig"} : Goto(c, m)
      BY <2>3, <3>0 DEF trap_killcheck, trap_tick, trap_intr_killed, At, thrVars, sigVars
    <3> QED
      BY <1>b, <3>1 DEF StopPCs
  <2> QED
    BY <1>7, <1>d, <2>1, <2>2, <2>3 DEF TrapStep
<1>8. ASSUME NEW c \in CPUs, UserStep(c) PROVE StopInv'
  <2>1. /\ UNCHANGED <<isig, sigblocked>> /\ cpu[c] # NULL
        /\ pc' = pc \/ \E m \in SysCalls \cup {"intr_device"} : Goto(c, m)
    BY <1>8 DEF UserStep, trap_syscall, sigreturn, trap_fault, trap_overrun, fault, At, SysCalls,
      thrVars, sigVars
  <2>2. \A m \in SysCalls \cup {"intr_device"} : m \notin StopPCs
    BY DEF SysCalls, StopPCs
  <2> QED
    BY <1>a, <1>b, <2>1, <2>2
<1>9. ASSUME NEW c \in CPUs, NEW dev \in {"intr_timer", "intr_device"}, trap_intr(c, dev)
      PROVE  StopInv'
  <2>. DEFINE m == IF dev = "intr_timer" /\ c = 0 THEN "tick" ELSE dev
  <2>1. /\ cpu[c] # NULL /\ UNCHANGED sigblocked /\ Goto(c, m) /\ isig' = [isig EXCEPT ![cpu[c]] = 0]
    BY <1>9 DEF trap_intr, Interrupt, sigVars
  <2>2. m \notin StopPCs
    BY DEF StopPCs
  <2>. HIDE DEF m
  <2> QED
    BY <1>0, <1>b, <2>1, <2>2
<1>10. CASE idle_tick \/ Frozen
  BY <1>10, <1>a DEF idle_tick, Frozen, vars, thrVars, sigVars
<1> QED
  BY <1>1, <1>2, <1>3, <1>4, <1>5, <1>6, <1>7, <1>8, <1>9, <1>10 DEF Next, KernelStep

(* What PendingKept allows a step to do to the pending signals of p. *)
Kept(p) ==
  \A s \in sigpending[p] \ sigpending'[p] :
    \/ state'[p] \in {"UNUSED", "EMBRYO"}
    \/ /\ pc[p] \in {"term_ret", "core_ret", "psig_stop", "stop_wake", "psig_user"}
       /\ s \notin sigblocked[p] \/ s \in userdefed[p] \/ s = SIGSTOP

LEMMA KeptAll ==
  ASSUME \A p \in Procs : sigpending[p] \subseteq sigpending'[p]
  PROVE  \A p \in Procs : Kept(p)
BY DEF Kept

(* psig() at m takes signals out of D from the pending ones of its process. *)
LEMMA KeptPsig ==
  ASSUME IInv, NEW c \in CPUs, cpu[c] # NULL,
         pc[cpu[c]] \in {"term_ret", "core_ret", "psig_stop", "stop_wake", "psig_user"},
         NEW D, sigpending' = [sigpending EXCEPT ![cpu[c]] = @ \ D],
         \A s \in D : s \notin sigblocked[cpu[c]] \/ s \in userdefed[cpu[c]] \/ s = SIGSTOP
  PROVE  \A p \in Procs : Kept(p)
<1>1. sigpending \in [Procs -> SUBSET Signals]
  BY DEF IInv, TypeOK, SigTypes
<1>2. \A p \in Procs : p # cpu[c] => sigpending'[p] = sigpending[p]
  BY <1>1
<1>3. cpu[c] \in Procs => sigpending[cpu[c]] \ sigpending'[cpu[c]] \subseteq D
  BY <1>1
<1> QED
  BY <1>2, <1>3 DEF Kept

LEMMA KeptSteps ==
  ASSUME IInv, StopInv, Next
  PROVE  \A p \in Procs : Kept(p)
<1>0. sigpending \in [Procs -> SUBSET Signals] /\ state \in [Procs -> States]
  BY DEF IInv, TypeOK, SigTypes, ProcTypes
<1>a. ASSUME UNCHANGED sigpending PROVE \A p \in Procs : Kept(p)
  BY <1>a, KeptAll
<1>1. ASSUME NEW c \in CPUs, SchedStep(c) \/ \E q \in Procs : scheduler(c, q)
      PROVE  \A p \in Procs : Kept(p)
  BY <1>1, <1>a DEF SchedStep, sched, yield, yield_ret, forkret, scheduler, panic, sigVars
<1>2. ASSUME NEW c \in CPUs, ForkStep(c) PROVE \A p \in Procs : Kept(p)
  <2>1. CASE allocproc_kstack(c)
    <3>1. cpu[c] # NULL /\ pc[cpu[c]] = "fork_kstack"
      BY <2>1 DEF allocproc_kstack, At
    <3>2. state[lp[cpu[c]]] = "EMBRYO"
      BY <3>1, ForkSlot DEF ForkPCs
    <3>3. state' = state /\ sigpending' = [sigpending EXCEPT ![lp[cpu[c]]] = {}]
      BY <2>1 DEF allocproc_kstack
    <3>4. \A p \in Procs : p # lp[cpu[c]] => sigpending'[p] = sigpending[p]
      BY <1>0, <3>3
    <3> QED
      BY <3>2, <3>3, <3>4 DEF Kept
  <2>2. CASE ~allocproc_kstack(c)
    BY <1>2, <1>a, <2>2 DEF ForkStep, allocproc, fork_fail, fork_copy, fork_run, sigVars
  <2> QED
    BY <2>1, <2>2
<1>3. ASSUME NEW c \in CPUs, ExitStep(c) PROVE \A p \in Procs : Kept(p)
  <2>1. CASE wait(c)
    <3>1. \/ sigpending' = sigpending
          \/ \E q \in Procs : /\ sigpending' = [sigpending EXCEPT ![q] = {}]
                              /\ state' = [state EXCEPT ![q] = "UNUSED"]
      BY <2>1 DEF wait, children
    <3>2. ASSUME NEW q \in Procs, sigpending' = [sigpending EXCEPT ![q] = {}],
                 state' = [state EXCEPT ![q] = "UNUSED"]
          PROVE  \A p \in Procs : Kept(p)
      <4>1. state'[q] = "UNUSED" /\ \A p \in Procs : p # q => sigpending'[p] = sigpending[p]
        BY <1>0, <3>2
      <4> QED
        BY <4>1 DEF Kept
    <3> QED
      BY <1>a, <3>1, <3>2
  <2>2. CASE ~wait(c)
    BY <1>3, <1>a, <2>2 DEF ExitStep, exit, sys_kill, exec, panic, sigVars
  <2> QED
    BY <2>1, <2>2
<1>4. ASSUME NEW c \in CPUs, SleepStep(c) PROVE \A p \in Procs : Kept(p)
  BY <1>4, <1>a DEF SleepStep, sys_sleep, sleep_loop, sleep_sig, sleep, sleep_wake, sleep_reacquire,
    sleep_end, panic, sigVars
<1>5. ASSUME NEW c \in CPUs, PsigStep(c) PROVE \A p \in Procs : Kept(p)
  <2>. DEFINE D == Default(cpu[c])
              Drops(E) == sigpending' = [sigpending EXCEPT ![cpu[c]] = @ \ E]
  <2>0. \A s \in D : s \notin sigblocked[cpu[c]]
    BY DEF Default
  <2>1. CASE psig(c) \/ term(c) \/ psig_core(c) \/ jmptohandler(c)
    BY <1>a, <2>1 DEF psig, term, psig_core, jmptohandler, sigVars
  <2>2. CASE psig_term(c)
    <3>1. cpu[c] # NULL /\ pc[cpu[c]] = "term_ret" /\ Drops(D \cap From(termsig, isig[cpu[c]]))
      BY <2>2 DEF psig_term, At
    <3> QED
      BY <2>0, <3>1, KeptPsig
  <2>3. CASE psig_core_ret(c)
    <3>1. cpu[c] # NULL /\ pc[cpu[c]] = "core_ret" /\ Drops(D \cap From(coresig, isig[cpu[c]]))
      BY <2>3 DEF psig_core_ret, At
    <3> QED
      BY <2>0, <3>1, KeptPsig
  <2>4. CASE psig_stop(c)
    <3>0. cpu[c] # NULL /\ pc[cpu[c]] = "psig_stop"
      BY <2>4 DEF psig_stop, At
    <3>. DEFINE stops == D \cap Elems(stopsig)
                cancelled == {s \in stops : SIGCONT \in D /\ First(stops, s)}
                R == (D \cap {SIGCHLD}) \cup cancelled \cup {s \in {SIGCONT} : cancelled # {}}
    <3>1. \/ sigpending' = [sigpending EXCEPT ![cpu[c]] = sigpending[cpu[c]]]
          \/ sigpending' = [sigpending EXCEPT ![cpu[c]] = sigpending[cpu[c]] \ R]
          \/ sigpending' = [sigpending EXCEPT ![cpu[c]] = (sigpending[cpu[c]] \ R) \ (D \cap {SIGCONT})]
      BY <2>4 DEF psig_stop, stop
    <3>2. R \subseteq D
      OBVIOUS
    <3>. HIDE DEF R
    <3>3. \/ sigpending' = sigpending
          \/ Drops(R)
          \/ Drops(R \cup (D \cap {SIGCONT}))
      <4>1. (sigpending[cpu[c]] \ R) \ (D \cap {SIGCONT}) = sigpending[cpu[c]] \ (R \cup (D \cap {SIGCONT}))
        OBVIOUS
      <4> QED
        BY <1>0, <3>1, <4>1
    <3>4. CASE Drops(R)
      BY <2>0, <3>0, <3>2, <3>4, KeptPsig
    <3>5. CASE Drops(R \cup (D \cap {SIGCONT}))
      BY <2>0, <3>0, <3>2, <3>5, KeptPsig
    <3> QED
      BY <1>a, <3>3, <3>4, <3>5
  <2>5. CASE psig_stop_ret(c)
    <3>0. cpu[c] # NULL /\ pc[cpu[c]] = "stop_wake"
      BY <2>5 DEF psig_stop_ret, At
    <3>1. PICK E : Drops({isig[cpu[c]]} \cup (D \cap E))
      BY <2>5 DEF psig_stop_ret
    <3>2. cpu[c] \in Procs
      BY <3>0, MyProc DEF IInv
    <3>3. isig[cpu[c]] = SIGSTOP \/ isig[cpu[c]] \notin sigblocked[cpu[c]]
      BY <3>0, <3>2 DEF StopInv
    <3>4. \A s \in {isig[cpu[c]]} \cup (D \cap E) : s \notin sigblocked[cpu[c]] \/ s = SIGSTOP
      BY <2>0, <3>3
    <3> QED
      BY <3>0, <3>1, <3>4, KeptPsig
  <2>6. CASE psig_user(c)
    <3>1. /\ cpu[c] # NULL /\ pc[cpu[c]] = "psig_user"
          /\ sigpending' = sigpending \/ \E i \in userdefed[cpu[c]] : Drops({i})
      BY <2>6 DEF psig_user, At
    <3>2. ASSUME NEW i \in userdefed[cpu[c]], Drops({i}) PROVE \A p \in Procs : Kept(p)
      <4>. DEFINE E == {i}
      <4>1. Drops(E) /\ \A s \in E : s \in userdefed[cpu[c]]
        BY <3>2
      <4>. HIDE DEF E
      <4> QED
        BY <3>1, <4>1, KeptPsig
    <3> QED
      BY <1>a, <3>1, <3>2
  <2> QED
    BY <1>5, <2>1, <2>2, <2>3, <2>4, <2>5, <2>6 DEF PsigStep
<1>6. ASSUME NEW c \in CPUs, KillStep(c) PROVE \A p \in Procs : Kept(p)
  <2>1. CASE Kill_post(c)
    <3>1. sigpending' = sigpending \/ \E q, E : sigpending' = [sigpending EXCEPT ![q] = @ \cup E]
      <4>1. \A q, s : post(q, s) = sigpending[q] \cup {t \in {s} : disposition[q][t] # "IGN"}
        BY DEF post
      <4> QED
        BY <2>1, <4>1 DEF Kill_post
    <3>2. \A p \in Procs : sigpending[p] \subseteq sigpending'[p]
      BY <1>0, <3>1
    <3> QED
      BY <3>2, KeptAll
  <2>2. CASE ~Kill_post(c)
    BY <1>6, <1>a, <2>2 DEF KillStep, Kill, Kill_scan, Kill_kill, signal, sys_sigmask, sigVars
  <2> QED
    BY <2>1, <2>2
<1>7. ASSUME NEW c \in CPUs, TrapStep(c) PROVE \A p \in Procs : Kept(p)
  BY <1>7, <1>a DEF TrapStep, trap_sysret, trap_killcheck, trap_tick, trap_intr_killed, trap_intr_sig,
    trap_intr_ret, panic, sigVars
<1>8. ASSUME NEW c \in CPUs, UserStep(c) PROVE \A p \in Procs : Kept(p)
  BY <1>8, <1>a DEF UserStep, trap_syscall, sigreturn, trap_fault, trap_overrun, fault, sigVars
<1>9. ASSUME NEW c \in CPUs, NEW dev \in {"intr_timer", "intr_device"}, trap_intr(c, dev)
      PROVE  \A p \in Procs : Kept(p)
  BY <1>9, <1>a DEF trap_intr, Interrupt, sigVars
<1>10. CASE idle_tick \/ Frozen
  BY <1>10, <1>a DEF idle_tick, Frozen, vars, sigVars
<1> QED
  BY <1>1, <1>2, <1>3, <1>4, <1>5, <1>6, <1>7, <1>8, <1>9, <1>10 DEF Next, KernelStep

(* psig(), Kill(), wait(), allocproc(): a pending signal goes only when its *)
(* own process acts on it, and then it is not a blocked one without handler *)
(* except SIGSTOP, or with its slot; for every number of CPUs and processes.*)
THEOREM SignalsKept == Spec => PendingKept
<1>1. Init => StopInv
  BY DEF Init, StopInv
<1>2. IInv /\ StopInv /\ [Next]_vars => StopInv'
  <2>1. ASSUME StopInv, UNCHANGED vars PROVE StopInv'
    BY <2>1 DEF StopInv, vars, thrVars, sigVars
  <2> QED
    BY <2>1, StopStep
<1>3. IInv /\ StopInv /\ [Next]_vars => [\A p \in Procs : Kept(p)]_vars
  BY KeptSteps
<1> QED
  BY <1>1, <1>2, <1>3, Invariance, PTL DEF Spec, PendingKept, Kept

-----------------------------------------------------------------------------
(* The step leaves sys_sleep() of p alone: if its thread is in that code    *)
(* after it, it was there before, and if it sleeps on &ticks, it did.       *)
Aside(p) ==
  /\ Base(p)' \in SleepPCs => Base(p)' = Base(p) /\ ticks0'[p] = ticks0[p]
  /\ state'[p] = "SLEEPING" /\ chan'[p] = TicksChan =>
       state[p] = "SLEEPING" /\ chan[p] = TicksChan /\ ticks0'[p] = ticks0[p]

LEMMA AsideOK ==
  ASSUME TickInv, UNCHANGED tickVars, \A p \in Procs : Aside(p),
         \A p \in Procs, c \in CPUs : cpu[c] = p /\ tickslock = c => cpu'[c] = p
  PROVE  TickInv'
<1>1. /\ ticks' = ticks /\ tickslock' = tickslock
  BY DEF tickVars
<1>2. \A p \in Procs : ticks0'[p] = ticks0[p] => (Early(p)' <=> Early(p))
  BY <1>1 DEF Early
<1>3. \A p \in Procs : Base(p)' \in SleepPCs => \E c \in CPUs : cpu'[c] = p /\ tickslock' = c
  BY <1>1 DEF TickInv, Aside
<1>4. \A p \in Procs : Base(p)' \in {"sleep_sig", "sleep_sleep"} => Early(p)'
  <2> SUFFICES ASSUME NEW p \in Procs, Base(p)' \in {"sleep_sig", "sleep_sleep"} PROVE Early(p)'
    OBVIOUS
  <2>1. Base(p)' \in SleepPCs
    BY DEF SleepPCs
  <2>2. Base(p)' = Base(p) /\ ticks0'[p] = ticks0[p]
    BY <2>1 DEF Aside
  <2> QED
    BY <1>2, <2>2 DEF TickInv
<1>5. NoOverdueSleeper'
  <2> SUFFICES ASSUME NEW p \in Procs, state'[p] = "SLEEPING", chan'[p] = TicksChan
               PROVE  Early(p)'
    BY DEF NoOverdueSleeper, Early
  <2>1. state[p] = "SLEEPING" /\ chan[p] = TicksChan /\ ticks0'[p] = ticks0[p]
    BY DEF Aside
  <2>2. Early(p)
    BY <2>1 DEF TickInv, NoOverdueSleeper, Early
  <2> QED
    BY <1>2, <2>1, <2>2
<1> QED
  BY <1>3, <1>4, <1>5 DEF TickInv

(* The table and the callers of the threads as a step that runs p leaves    *)
(* them to sys_sleep(): nobody else is put to sleep or moved.               *)
Undisturbed(p) ==
  /\ \A q \in Procs \ {p} : /\ pc'[q] = pc[q] /\ stk'[q] = stk[q] /\ ticks0'[q] = ticks0[q]
                            /\ chan'[q] = chan[q]
                            /\ state'[q] = "SLEEPING" => state[q] = "SLEEPING"
  /\ state'[p] = "SLEEPING" => chan'[p] # TicksChan

LEMMA OthersAside ==
  ASSUME NEW p, Undisturbed(p), NEW q \in Procs \ {p}
  PROVE  Aside(q)
BY DEF Undisturbed, Aside, Base, BaseOf

LEMMA MoveAside ==
  ASSUME NEW p \in Procs, Undisturbed(p), pc'[p] \notin SleepPCs,
         (stk'[p] = stk[p] /\ ticks0'[p] = ticks0[p]) \/ stk'[p] = <<>>
  PROVE  \A q \in Procs : Aside(q)
<1>1. Aside(p)
  BY DEF Aside, Undisturbed, Base, BaseOf
<1> QED
  BY <1>1, OthersAside

LEMMA PushAside ==
  ASSUME IInv, NEW p \in Procs, Undisturbed(p), NEW l, NEW i, pc'[p] \in CalledPCs,
         StackOK(l, stk[p]), l \notin LockedPCs, l = pc[p] \/ l \notin SleepPCs,
         stk'[p] = <<<<l, i>>>> \o stk[p], ticks0'[p] = ticks0[p]
  PROVE  \A q \in Procs : Aside(q)
<1>1. stk[p] \in Seq(Caller)
  BY DEF IInv, TypeOK, ThreadTypes
<1>2. BaseOf(pc'[p], <<<<l, i>>>> \o stk[p]) = BaseOf(l, stk[p])
  BY <1>1, PushOK
<1>3. Base(p)' = BaseOf(l, stk[p])
  BY <1>2 DEF Base
<1>4. BaseOf(l, stk[p]) \in SleepPCs => BaseOf(l, stk[p]) = Base(p)
  BY DEF Base, BaseOf
<1>5. Aside(p)
  BY <1>3, <1>4 DEF Aside, Undisturbed
<1> QED
  BY <1>5, OthersAside

LEMMA PopAside ==
  ASSUME IInv, NEW p \in Procs, Undisturbed(p), pc[p] \in CalledPCs,
         pc'[p] = Head(stk[p])[1], stk'[p] = Tail(stk[p]), ticks0'[p] = ticks0[p]
  PROVE  \A q \in Procs : Aside(q)
<1>1. stk[p] \in Seq(Caller) /\ StackOK(pc[p], stk[p])
  BY DEF IInv, TypeOK, ThreadTypes, Coherent, ThreadInv
<1>2. BaseOf(Head(stk[p])[1], Tail(stk[p])) = BaseOf(pc[p], stk[p])
  BY <1>1, PopOK
<1>3. Aside(p)
  BY <1>2 DEF Aside, Base, Undisturbed
<1> QED
  BY <1>3, OthersAside

(* The steps of CPU c outside sys_sleep() and the clock. *)
LEMMA NotSleeping ==
  ASSUME IInv, NEW c \in CPUs, cpu[c] # NULL, pc[cpu[c]] \notin SchedPCs
  PROVE  /\ cpu[c] \in Procs /\ state[cpu[c]] = "RUNNING"
         /\ state \in [Procs -> States] /\ pc \in [Procs -> PCs]
         /\ stk \in [Procs -> Seq(Caller)] /\ chan \in [Procs -> Procs \cup {NULL, TicksChan}]
         /\ ticks0 \in [Procs -> 0..(TickMod - 1)]
         /\ TicksChan # NULL /\ TicksChan \notin Procs
<1>1. TicksChan # NULL /\ TicksChan \notin Procs
  BY ProcAssumption, SMTT(60) DEF TicksChan, NULL, Procs
<1> QED
  BY <1>1, Running DEF IInv, TypeOK, ProcTypes, PcTypes, ThreadTypes

LEMMA PsigAside ==
  ASSUME IInv, NEW c \in CPUs, PsigStep(c)
  PROVE  \A q \in Procs : Aside(q)
<1>0. cpu[c] # NULL /\ pc[cpu[c]] \notin SchedPCs
  BY DEF PsigStep, psig, term, psig_term, psig_core, psig_core_ret, psig_stop, psig_stop_ret,
    psig_user, jmptohandler, At, SchedPCs
<1>1. PICK p \in Procs : p = cpu[c]
  BY <1>0, NotSleeping
<1>2. /\ state[p] = "RUNNING" /\ state \in [Procs -> States] /\ pc \in [Procs -> PCs]
      /\ stk \in [Procs -> Seq(Caller)] /\ ticks0 \in [Procs -> 0..(TickMod - 1)]
      /\ chan[p] = ChanOf(pc[p], p) /\ TicksChan # NULL
  BY <1>0, <1>1, NotSleeping, Running
<1>3. CASE psig(c) \/ psig_term(c) \/ psig_core(c) \/ psig_core_ret(c) \/ psig_stop_ret(c)
  <2>1. /\ pc' = [pc EXCEPT ![p] = pc'[p]]
        /\ pc'[p] \in {"term", "psig_core", "core", "psig_stop", "psig_user"}
        /\ UNCHANGED <<state, chan, stk, ticks0>>
    BY <1>1, <1>2, <1>3 DEF psig, psig_term, psig_core, psig_core_ret, psig_stop_ret, Goto,
      procVars
  <2> QED
    BY <1>2, <2>1, MoveAside DEF Undisturbed, SleepPCs
<1>4. CASE term(c)
  <2>1. /\ \E m \in {"term_ret", "core_ret"} : pc' = [pc EXCEPT ![p] = m]
        /\ UNCHANGED <<chan, stk, ticks0>>
        /\ \A q \in Procs : state'[q] = "SLEEPING" => state[q] = "SLEEPING"
    BY <1>1, <1>2, <1>4 DEF term, Goto, kill, thrVars
  <2> QED
    BY <1>2, <2>1, MoveAside DEF Undisturbed, SleepPCs
<1>5. CASE psig_stop(c)
  <2>1. /\ \E m \in {"stop_sched", "psig_user"} : pc' = [pc EXCEPT ![p] = m]
        /\ UNCHANGED <<chan, stk, ticks0>> /\ pc[p] = "psig_stop"
        /\ \A q \in Procs \ {p} : state'[q] = state[q]
    BY <1>1, <1>2, <1>5 DEF psig_stop, stop, Goto, At
  <2>2. chan[p] = NULL
    BY <1>2, <2>1 DEF ChanOf
  <2> QED
    BY <1>2, <2>1, <2>2, MoveAside DEF Undisturbed, SleepPCs
<1>6. CASE psig_user(c) /\ Return(c)
  <2>1. /\ pc' = [pc EXCEPT ![p] = Head(stk[p])[1]] /\ stk' = [stk EXCEPT ![p] = Tail(stk[p])]
        /\ UNCHANGED <<state, chan, ticks0>> /\ pc[p] \in CalledPCs
    BY <1>1, <1>6 DEF psig_user, Return, At, CalledPCs, procVars
  <2> QED
    BY <1>2, <2>1, PopAside DEF Undisturbed
<1>7. CASE psig_user(c) /\ ~Return(c)
  <2>1. /\ pc' = [pc EXCEPT ![p] = "jmptohandler"] /\ UNCHANGED <<state, chan, stk, ticks0>>
    BY <1>1, <1>7 DEF psig_user, Goto, procVars
  <2> QED
    BY <1>2, <2>1, MoveAside DEF Undisturbed, SleepPCs
<1>8. CASE jmptohandler(c)
  <2>1. /\ pc' = [pc EXCEPT ![p] = "user"] /\ stk' = [stk EXCEPT ![p] = <<>>]
        /\ ticks0' = [ticks0 EXCEPT ![p] = 0] /\ UNCHANGED <<state, chan>>
    BY <1>1, <1>8 DEF jmptohandler, Goto, procVars
  <2> QED
    BY <1>2, <2>1, MoveAside DEF Undisturbed, SleepPCs
<1> QED
  BY <1>3, <1>4, <1>5, <1>6, <1>7, <1>8 DEF PsigStep

LEMMA PanicAside ==
  ASSUME NEW msg, panic(msg)
  PROVE  \A q \in Procs : Aside(q)
BY DEF panic, procVars, thrVars, Aside, Base, BaseOf

LEMMA SchedAside ==
  ASSUME IInv, NEW c \in CPUs, yield(c) \/ yield_ret(c) \/ forkret(c)
  PROVE  \A q \in Procs : Aside(q)
<1>0. cpu[c] # NULL /\ pc[cpu[c]] \notin SchedPCs
  BY DEF yield, yield_ret, forkret, At, SchedPCs
<1>1. PICK p \in Procs : p = cpu[c]
  BY <1>0, NotSleeping
<1>2. /\ state[p] = "RUNNING" /\ state \in [Procs -> States] /\ pc \in [Procs -> PCs]
      /\ stk \in [Procs -> Seq(Caller)] /\ chan \in [Procs -> Procs \cup {NULL, TicksChan}]
      /\ ticks0 \in [Procs -> 0..(TickMod - 1)]
      /\ StackOK(pc[p], stk[p]) /\ TicksChan # NULL /\ TicksChan \notin Procs
  BY <1>0, <1>1, NotSleeping, Running
<1>3. /\ \E m \in {"yield_sched", "intr_killed2", "user"} : pc' = [pc EXCEPT ![p] = m]
      /\ UNCHANGED <<chan, stk, ticks0>>
      /\ state' = state \/ state' = [state EXCEPT ![p] = "RUNNABLE"]
  BY <1>1 DEF yield, yield_ret, forkret, Goto, procVars, thrVars
<1> QED
  BY <1>2, <1>3, MoveAside DEF Undisturbed, SleepPCs

LEMMA ForkAside ==
  ASSUME IInv, NEW c \in CPUs, ForkStep(c), IInv'
  PROVE  \A q \in Procs : Aside(q)
<1>0. cpu[c] # NULL /\ pc[cpu[c]] \notin SchedPCs
  BY DEF ForkStep, allocproc, fork_fail, allocproc_kstack, fork_copy, fork_run, At, SchedPCs
<1>1. PICK p \in Procs : p = cpu[c]
  BY <1>0, NotSleeping
<1>2. /\ state[p] = "RUNNING" /\ state \in [Procs -> States] /\ pc \in [Procs -> PCs]
      /\ stk \in [Procs -> Seq(Caller)] /\ chan \in [Procs -> Procs \cup {NULL, TicksChan}]
      /\ ticks0 \in [Procs -> 0..(TickMod - 1)]
      /\ StackOK(pc[p], stk[p]) /\ TicksChan # NULL /\ TicksChan \notin Procs
  BY <1>0, <1>1, NotSleeping, Running
<1>3. CASE allocproc_kstack(c)
  <2>0. pc[cpu[c]] \in ForkPCs
    BY <1>3 DEF allocproc_kstack, At, ForkPCs
  <2>1. PICK np \in Procs : np = lp[p] /\ np # p /\ state[np] = "EMBRYO"
    BY <1>0, <1>1, <2>0, ForkSlot
  <2>2. /\ pc' = [pc EXCEPT ![np] = "forkret", ![p] = "fork_copy"]
        /\ UNCHANGED <<state, chan, stk, ticks0>>
    BY <1>1, <1>3, <2>1 DEF allocproc_kstack, thrVars
  <2>3. \A q \in Procs : pc'[q] = pc[q] \/ pc'[q] \in {"forkret", "fork_copy"}
    BY <1>2, <2>2
  <2> QED
    BY <2>2, <2>3 DEF Aside, Base, BaseOf, SleepPCs
<1>4. CASE ~allocproc_kstack(c)
  <2>1. /\ \E m \in {"fork_kstack", "sysret", "fork_run"} : pc' = [pc EXCEPT ![p] = m]
        /\ UNCHANGED <<chan, stk, ticks0>>
    BY <1>1, <1>4 DEF ForkStep, allocproc, fork_fail, fork_copy, fork_run, Goto, procVars, thrVars
  <2>2. state' = state \/ \E r, v : v # "SLEEPING" /\ state' = [state EXCEPT ![r] = v]
    BY <1>4 DEF ForkStep, allocproc, fork_fail, fork_copy, fork_run, procVars
  <2>3. \A q \in Procs : state'[q] = "SLEEPING" => state[q] = "SLEEPING"
    BY <1>2, <2>2
  <2> QED
    BY <1>2, <2>1, <2>3, MoveAside DEF Undisturbed, SleepPCs
<1> QED
  BY <1>3, <1>4

LEMMA ExitAside ==
  ASSUME IInv, NEW c \in CPUs, ExitStep(c)
  PROVE  \A q \in Procs : Aside(q)
<1>0. cpu[c] # NULL /\ pc[cpu[c]] \notin SchedPCs
  BY DEF ExitStep, exit, wait, sys_kill, exec, At, SchedPCs
<1>1. PICK p \in Procs : p = cpu[c]
  BY <1>0, NotSleeping
<1>2. /\ state[p] = "RUNNING" /\ state \in [Procs -> States] /\ pc \in [Procs -> PCs]
      /\ stk \in [Procs -> Seq(Caller)] /\ chan \in [Procs -> Procs \cup {NULL, TicksChan}]
      /\ ticks0 \in [Procs -> 0..(TickMod - 1)]
      /\ StackOK(pc[p], stk[p]) /\ TicksChan # NULL /\ TicksChan \notin Procs
  BY <1>0, <1>1, NotSleeping, Running
<1>3. CASE exit(c) /\ panic("init_exiting")
  BY <1>3, PanicAside
<1>4. CASE exit(c) /\ ~panic("init_exiting")
  <2>1. /\ pc' = [pc EXCEPT ![p] = "exit_sched"] /\ stk' = [stk EXCEPT ![p] = <<>>]
        /\ UNCHANGED <<chan, ticks0>>
        /\ state' = [wake_init(wakeup1(state, parent[p]), p) EXCEPT ![p] = "ZOMBIE"]
    BY <1>1, <1>4 DEF exit, Goto
  <2>2. \A q \in Procs : state'[q] = "SLEEPING" => state[q] = "SLEEPING"
    BY <1>2, <2>1 DEF wake_init, wakeup1
  <2> QED
    BY <1>2, <2>1, <2>2, MoveAside DEF Undisturbed, SleepPCs
<1>5. CASE wait(c)
  <2>1. /\ \E m \in {"sysret", "wait_sched"} : pc' = [pc EXCEPT ![p] = m]
        /\ \E h \in {NULL, p} : chan' = [chan EXCEPT ![p] = h]
        /\ UNCHANGED <<stk, ticks0>>
    BY <1>1, <1>5 DEF wait, Goto, thrVars
  <2>2. \/ state' = state
        \/ \E q \in Procs : state' = [state EXCEPT ![q] = "UNUSED"]
        \/ state' = [state EXCEPT ![p] = "SLEEPING"]
    BY <1>1, <1>5 DEF wait, children
  <2>3. \A q \in Procs \ {p} : /\ chan'[q] = chan[q]
                               /\ state'[q] = "SLEEPING" => state[q] = "SLEEPING"
    BY <1>2, <2>1, <2>2
  <2>4. chan'[p] # TicksChan
    BY <1>2, <2>1
  <2> QED
    BY <1>2, <2>1, <2>3, <2>4, MoveAside DEF Undisturbed, SleepPCs
<1>6. CASE sys_kill(c)
  <2>1. /\ pc' = [pc EXCEPT ![p] = "sysret"] /\ UNCHANGED <<chan, stk, ticks0>>
        /\ \A q \in Procs : state'[q] = "SLEEPING" => state[q] = "SLEEPING"
    BY <1>1, <1>2, <1>6 DEF sys_kill, Goto, kill, thrVars
  <2> QED
    BY <1>2, <2>1, MoveAside DEF Undisturbed, SleepPCs
<1>7. CASE exec(c)
  <2>1. /\ pc' = [pc EXCEPT ![p] = "sysret"] /\ UNCHANGED <<state, chan, stk, ticks0>>
    BY <1>1, <1>7 DEF exec, Goto, procVars, thrVars
  <2> QED
    BY <1>2, <2>1, MoveAside DEF Undisturbed, SleepPCs
<1> QED
  BY <1>3, <1>4, <1>5, <1>6, <1>7 DEF ExitStep

LEMMA KillAside ==
  ASSUME IInv, NEW c \in CPUs, KillStep(c)
  PROVE  \A q \in Procs : Aside(q)
<1>0. cpu[c] # NULL /\ pc[cpu[c]] \notin SchedPCs
  BY DEF KillStep, Kill, Kill_scan, Kill_post, Kill_kill, signal, sys_sigmask, At, SchedPCs
<1>1. PICK p \in Procs : p = cpu[c]
  BY <1>0, NotSleeping
<1>2. /\ state[p] = "RUNNING" /\ state \in [Procs -> States] /\ pc \in [Procs -> PCs]
      /\ stk \in [Procs -> Seq(Caller)] /\ chan \in [Procs -> Procs \cup {NULL, TicksChan}]
      /\ ticks0 \in [Procs -> 0..(TickMod - 1)]
      /\ StackOK(pc[p], stk[p]) /\ TicksChan # NULL /\ TicksChan \notin Procs
  BY <1>0, <1>1, NotSleeping, Running
<1>3. /\ \E m \in {"sysret", "Kill_scan", "Kill_post", "Kill_kill"} : pc' = [pc EXCEPT ![p] = m]
      /\ UNCHANGED <<chan, stk, ticks0>>
  <2>1. CASE Kill(c)
    BY <1>1, <2>1 DEF Kill, Goto, procVars, thrVars
  <2>2. CASE Kill_scan(c) \/ Kill_post(c) \/ Kill_kill(c)
    BY <1>1, <2>2 DEF Kill_scan, Kill_post, Kill_kill, Kill_next, Goto, procVars, thrVars
  <2>3. CASE signal(c) \/ sys_sigmask(c)
    BY <1>1, <2>3 DEF signal, sys_sigmask, Goto, procVars, thrVars
  <2> QED
    BY <2>1, <2>2, <2>3 DEF KillStep
<1>4. \A q \in Procs : state'[q] = "SLEEPING" => state[q] = "SLEEPING"
  <2>1. CASE Kill_kill(c)
    BY <1>2, <2>1 DEF Kill_kill, kill
  <2>2. CASE Kill_post(c)
    BY <1>2, <2>2 DEF Kill_post
  <2> QED
    BY <2>1, <2>2 DEF KillStep, Kill, Kill_scan, signal, sys_sigmask, procVars
<1> QED
  BY <1>2, <1>3, <1>4, MoveAside DEF Undisturbed, SleepPCs

LEMMA TrapAside ==
  ASSUME IInv, NEW c \in CPUs, TrapStep(c), ~trap_tick(c)
  PROVE  \A q \in Procs : Aside(q)
<1>0. cpu[c] # NULL /\ pc[cpu[c]] \notin SchedPCs
  BY DEF TrapStep, trap_sysret, trap_killcheck, trap_intr_killed, trap_intr_sig, trap_intr_ret,
    At, SchedPCs
<1>1. PICK p \in Procs : p = cpu[c]
  BY <1>0, NotSleeping
<1>2. /\ state[p] = "RUNNING" /\ state \in [Procs -> States] /\ pc \in [Procs -> PCs]
      /\ stk \in [Procs -> Seq(Caller)] /\ chan \in [Procs -> Procs \cup {NULL, TicksChan}]
      /\ ticks0 \in [Procs -> 0..(TickMod - 1)]
      /\ StackOK(pc[p], stk[p]) /\ TicksChan # NULL /\ TicksChan \notin Procs
  BY <1>0, <1>1, NotSleeping, Running
<1>3. CASE trap_sysret(c) \/ trap_intr_sig(c)
  <2>1. /\ UNCHANGED <<state, chan, ticks0>> /\ pc[p] \in {"sysret", "intr_sig"}
    BY <1>1, <1>3 DEF trap_sysret, trap_intr_sig, At, procVars
  <2>2. PICK l \in {"killcheck", "intr_ret"} :
          /\ l = IF pc[p] = "sysret" THEN "killcheck" ELSE "intr_ret"
          /\ CallPsig(c, l) \/ (Goto(c, l) /\ UNCHANGED stk)
    BY <1>1, <1>3 DEF trap_sysret, trap_intr_sig, At
  <2>3. CASE Goto(c, l) /\ UNCHANGED stk
    <3>1. pc' = [pc EXCEPT ![p] = l]
      BY <1>1, <2>3 DEF Goto
    <3> QED
      BY <1>2, <2>1, <2>3, <3>1, MoveAside DEF Undisturbed, SleepPCs
  <2>4. CASE CallPsig(c, l)
    <3>1. /\ pc' = [pc EXCEPT ![p] = "psig"]
          /\ stk' = [stk EXCEPT ![p] = <<<<l, isig[p]>>>> \o stk[p]]
      BY <1>1, <2>4 DEF CallPsig, Goto
    <3>2. l \notin SleepPCs /\ l \notin LockedPCs /\ (l \in CalledPCs <=> pc[p] \in CalledPCs)
      BY <2>1, <2>2 DEF SleepPCs, LockedPCs, SchedPCs, WakePCs, CalledPCs
    <3>3. StackOK(l, stk[p])
      BY <1>2, <3>2, MoveOK
    <3>4. /\ Undisturbed(p) /\ pc'[p] \in CalledPCs
          /\ stk'[p] = <<<<l, isig[p]>>>> \o stk[p] /\ ticks0'[p] = ticks0[p]
      BY <1>2, <2>1, <3>1 DEF Undisturbed, CalledPCs
    <3> QED
      BY <3>2, <3>3, <3>4, PushAside
  <2> QED
    BY <2>2, <2>3, <2>4
<1>4. CASE trap_killcheck(c) \/ trap_intr_killed(c)
  <2>1. /\ UNCHANGED <<state, chan, ticks0>>
        /\ \E m \in {"exit", "user", "yield", "intr_killed2", "intr_sig"} : pc' = [pc EXCEPT ![p] = m]
        /\ stk' = stk \/ stk' = [stk EXCEPT ![p] = <<>>]
    <3>1. CASE trap_killcheck(c)
      BY <1>1, <3>1 DEF trap_killcheck, Goto, procVars, thrVars
    <3>2. CASE trap_intr_killed(c)
      <4>1. \A r \in AfterKilled : r[2] \in {"yield", "intr_killed2", "intr_sig"}
        BY SMTT(60) DEF AfterKilled
      <4> QED
        BY <1>1, <3>2, <4>1 DEF trap_intr_killed, Goto, procVars
    <3> QED
      BY <1>4, <3>1, <3>2
  <2> QED
    BY <1>2, <2>1, MoveAside DEF Undisturbed, SleepPCs
<1>5. CASE trap_intr_ret(c)
  <2>1. /\ pc' = [pc EXCEPT ![p] = Head(stk[p])[1]] /\ stk' = [stk EXCEPT ![p] = Tail(stk[p])]
        /\ UNCHANGED <<state, chan, ticks0>> /\ pc[p] \in CalledPCs
    BY <1>1, <1>5 DEF trap_intr_ret, Return, At, CalledPCs, procVars
  <2> QED
    BY <1>2, <2>1, PopAside DEF Undisturbed
<1> QED
  BY <1>3, <1>4, <1>5 DEF TrapStep

LEMMA UserAside ==
  ASSUME IInv, NEW c \in CPUs, UserStep(c)
  PROVE  \A q \in Procs : Aside(q)
<1>0. cpu[c] # NULL /\ pc[cpu[c]] \notin SchedPCs
  BY DEF UserStep, trap_syscall, sigreturn, trap_fault, trap_overrun, At, SchedPCs
<1>1. PICK p \in Procs : p = cpu[c]
  BY <1>0, NotSleeping
<1>2. /\ state[p] = "RUNNING" /\ state \in [Procs -> States] /\ pc \in [Procs -> PCs]
      /\ stk \in [Procs -> Seq(Caller)] /\ chan \in [Procs -> Procs \cup {NULL, TicksChan}]
      /\ ticks0 \in [Procs -> 0..(TickMod - 1)]
      /\ StackOK(pc[p], stk[p]) /\ TicksChan # NULL /\ TicksChan \notin Procs
  BY <1>0, <1>1, NotSleeping, Running
<1>3. CASE sigreturn(c) \/ \E op \in SysCalls : trap_syscall(c, op)
  <2>1. /\ UNCHANGED <<state, chan, ticks0, stk>>
        /\ pc[p] = "user"
        /\ pc' = pc \/ \E m \in SysCalls : pc' = [pc EXCEPT ![p] = m]
    BY <1>1, <1>3 DEF sigreturn, trap_syscall, At, Goto, SysCalls, procVars, thrVars
  <2>2. "user" \notin SleepPCs /\ \A m \in SysCalls : m \notin SleepPCs
    BY DEF SleepPCs, SysCalls
  <2> QED
    BY <1>2, <2>1, <2>2, MoveAside DEF Undisturbed
<1>4. CASE trap_fault(c) \/ trap_overrun(c)
  <2>1. /\ UNCHANGED <<state, chan, ticks0>>
        /\ pc' = [pc EXCEPT ![p] = "intr_device"] /\ stk' = [stk EXCEPT ![p] = <<<<"user", 0>>>>]
    BY <1>1, <1>4 DEF trap_fault, trap_overrun, fault, Goto
  <2>2. Undisturbed(p) /\ stk'[p] = <<<<"user", 0>>>>
    BY <1>2, <2>1 DEF Undisturbed
  <2>3. <<<<"user", 0>>>> # <<>> /\ <<<<"user", 0>>>>[Len(<<<<"user", 0>>>>)][1] = "user"
    BY SMTT(60)
  <2>4. Base(p)' = "user"
    BY <2>2, <2>3 DEF Base, BaseOf
  <2>5. Aside(p)
    BY <2>2, <2>4 DEF Aside, Undisturbed, SleepPCs
  <2> QED
    BY <2>2, <2>5, OthersAside
<1> QED
  BY <1>3, <1>4 DEF UserStep

LEMMA IntrAside ==
  ASSUME IInv, NEW c \in CPUs, NEW dev \in {"intr_timer", "intr_device"}, trap_intr(c, dev)
  PROVE  \A q \in Procs : Aside(q)
<1>00. cpu[c] # NULL /\ (pc[cpu[c]] = "user" \/ ptlock # c)
  BY DEF trap_intr, Interrupt
<1>01. pc[cpu[c]] \notin LockedPCs
  BY <1>00, Running DEF LockedPCs, SchedPCs, WakePCs
<1>0. cpu[c] # NULL /\ pc[cpu[c]] \notin SchedPCs
  BY <1>00, <1>01 DEF LockedPCs
<1>1. PICK p \in Procs : p = cpu[c]
  BY <1>0, NotSleeping
<1>2. /\ state[p] = "RUNNING" /\ state \in [Procs -> States] /\ pc \in [Procs -> PCs]
      /\ stk \in [Procs -> Seq(Caller)] /\ chan \in [Procs -> Procs \cup {NULL, TicksChan}]
      /\ ticks0 \in [Procs -> 0..(TickMod - 1)]
      /\ StackOK(pc[p], stk[p]) /\ TicksChan # NULL /\ TicksChan \notin Procs
  BY <1>0, <1>1, NotSleeping, Running
<1>. DEFINE m == IF dev = "intr_timer" /\ c = 0 THEN "tick" ELSE dev
<1>3. /\ pc' = [pc EXCEPT ![p] = m]
      /\ stk' = [stk EXCEPT ![p] = <<<<pc[p], isig[p]>>>> \o stk[p]]
      /\ UNCHANGED <<state, chan, ticks0>>
  BY <1>1 DEF trap_intr, Interrupt, Goto, procVars
<1>5. m \in {"tick", "intr_timer", "intr_device"}
  OBVIOUS
<1>. HIDE DEF m
<1>4. /\ Undisturbed(p) /\ pc'[p] \in CalledPCs /\ ticks0'[p] = ticks0[p]
      /\ stk'[p] = <<<<pc[p], isig[p]>>>> \o stk[p]
  BY <1>2, <1>3, <1>5 DEF Undisturbed, CalledPCs
<1> QED
  BY <1>01, <1>1, <1>2, <1>4, PushAside

(* A step of sys_sleep() in p, on CPU c: nobody else is in that code.       *)
LEMMA OwnSleep ==
  ASSUME TickInv, NEW c \in CPUs, NEW p \in Procs, p = cpu[c], UNCHANGED <<cpu, ticks>>,
         \A q \in Procs \ {p} : /\ pc'[q] = pc[q] /\ stk'[q] = stk[q] /\ ticks0'[q] = ticks0[q]
                               /\ chan'[q] = chan[q] /\ state'[q] = state[q]
                               /\ Base(q) \notin SleepPCs,
         Base(p)' \in SleepPCs => tickslock' = c,
         Base(p)' \in {"sleep_sig", "sleep_sleep"} => Early(p)',
         state'[p] = "SLEEPING" /\ chan'[p] = TicksChan => Early(p)'
  PROVE  TickInv'
<1>1. \A q \in Procs \ {p} : Base(q)' \notin SleepPCs
  BY DEF Base, BaseOf
<1>2. \A q \in Procs : Base(q)' \in SleepPCs => \E d \in CPUs : cpu'[d] = q /\ tickslock' = d
  BY <1>1
<1>3. \A q \in Procs : Base(q)' \in {"sleep_sig", "sleep_sleep"} => Early(q)'
  BY <1>1 DEF SleepPCs
<1>4. NoOverdueSleeper'
  <2> SUFFICES ASSUME NEW q \in Procs, state'[q] = "SLEEPING", chan'[q] = TicksChan
               PROVE  Early(q)'
    BY DEF NoOverdueSleeper, Early
  <2>1. CASE q # p
    BY <2>1 DEF TickInv, NoOverdueSleeper, Early
  <2> QED
    BY <2>1
<1> QED
  BY <1>2, <1>3, <1>4 DEF TickInv

LEMMA InSleep ==
  ASSUME IInv, TickInv, NEW c \in CPUs, cpu[c] # NULL, pc[cpu[c]] \in SleepPCs
  PROVE  /\ tickslock = c /\ stk[cpu[c]] = <<>> /\ Base(cpu[c]) = pc[cpu[c]]
         /\ \A q \in Procs : q # cpu[c] => Base(q) \notin SleepPCs
<1>1. pc[cpu[c]] \notin CalledPCs
  BY DEF SleepPCs, CalledPCs
<1>2. cpu[c] \in Procs /\ stk[cpu[c]] = <<>> /\ \A d \in CPUs : d # c => cpu[d] # cpu[c]
  BY <1>1, Running DEF StackOK
<1>3. Base(cpu[c]) = pc[cpu[c]]
  BY <1>2 DEF Base, BaseOf
<1>4. tickslock = c
  BY <1>2, <1>3 DEF TickInv
<1>5. \A q \in Procs : q # cpu[c] => Base(q) \notin SleepPCs
  BY <1>4 DEF TickInv
<1> QED
  BY <1>2, <1>3, <1>4, <1>5

(* While nobody holds tickslock, nobody is in that code. *)
LEMMA NoneInSleep ==
  ASSUME TickInv, tickslock = NoCPU
  PROVE  \A q \in Procs : Base(q) \notin SleepPCs
BY CpuIds DEF TickInv

LEMMA SleepTicking ==
  ASSUME IInv, TickInv, NEW c \in CPUs, SleepStep(c)
  PROVE  TickInv'
<1>0. cpu[c] # NULL /\ pc[cpu[c]] \notin SchedPCs
  BY DEF SleepStep, sys_sleep, sleep_loop, sleep_sig, sleep, sleep_wake, sleep_reacquire,
    sleep_end, At, SchedPCs
<1>1. PICK p \in Procs : p = cpu[c]
  BY <1>0, NotSleeping
<1>2. /\ state[p] = "RUNNING" /\ state \in [Procs -> States] /\ pc \in [Procs -> PCs]
      /\ stk \in [Procs -> Seq(Caller)] /\ chan \in [Procs -> Procs \cup {NULL, TicksChan}]
      /\ ticks0 \in [Procs -> 0..(TickMod - 1)]
      /\ StackOK(pc[p], stk[p]) /\ TicksChan # NULL /\ TicksChan \notin Procs
  BY <1>0, <1>1, NotSleeping, Running
<1>3. CASE sys_sleep(c) /\ panic("acquire")
  BY <1>3, PanicAside, AsideOK DEF panic
<1>4. CASE (sys_sleep(c) /\ ~panic("acquire")) \/ sleep_reacquire(c)
  <2>1. /\ tickslock = NoCPU /\ tickslock' = c /\ pc[p] \in {"sleep", "sleep_reacquire"}
        /\ pc' = [pc EXCEPT ![p] = "sleep_loop"] /\ UNCHANGED <<state, chan, stk, cpu, ticks>>
        /\ ticks0' = ticks0 \/ ticks0' = [ticks0 EXCEPT ![p] = ticks]
    BY <1>1, <1>4 DEF sys_sleep, sleep_reacquire, At, Goto, procVars, thrVars
  <2>2. stk[p] = <<>>
    BY <1>2, <2>1 DEF StackOK, CalledPCs
  <2>3. Base(p)' = "sleep_loop"
    BY <1>2, <2>1, <2>2 DEF Base, BaseOf
  <2>4. \A q \in Procs : Base(q) \notin SleepPCs
    BY <2>1, NoneInSleep
  <2>5. \A q \in Procs \ {p} : pc'[q] = pc[q] /\ ticks0'[q] = ticks0[q]
    BY <1>2, <2>1
  <2> QED
    BY <1>1, <1>2, <2>1, <2>3, <2>4, <2>5, OwnSleep
<1>5. CASE sleep_loop(c)
  <2>1. pc[cpu[c]] = "sleep_loop"
    BY <1>5 DEF sleep_loop, At
  <2>2. /\ tickslock = c /\ stk[p] = <<>> /\ \A q \in Procs \ {p} : Base(q) \notin SleepPCs
    BY <1>0, <1>1, <2>1, InSleep DEF SleepPCs
  <2>3. /\ UNCHANGED <<state, chan, stk, cpu, ticks>>
        /\ \/ /\ pc' = [pc EXCEPT ![p] = "sleep_sig"] /\ UNCHANGED <<tickslock, ticks0>> /\ Early(p)
           \/ pc' = [pc EXCEPT ![p] = "sysret"] /\ ticks0' = [ticks0 EXCEPT ![p] = 0]
           \/ pc' = [pc EXCEPT ![p] = "sleep_over"] /\ UNCHANGED <<tickslock, ticks0>>
    BY <1>1, <1>5 DEF sleep_loop, Goto, Early, procVars
  <2>4. Base(p)' = pc'[p]
    BY <2>2, <2>3 DEF Base, BaseOf
  <2>5. \A q \in Procs \ {p} : pc'[q] = pc[q] /\ ticks0'[q] = ticks0[q]
    BY <1>2, <2>3
  <2>6. /\ Base(p)' \in SleepPCs => tickslock' = c
        /\ Base(p)' \in {"sleep_sig", "sleep_sleep"} => Early(p)'
    BY <1>2, <2>2, <2>3, <2>4 DEF SleepPCs, Early
  <2> QED
    BY <1>1, <1>2, <2>2, <2>3, <2>5, <2>6, OwnSleep
<1>6. CASE sleep_sig(c)
  <2>. DEFINE next == IF pc[p] = "sleep_sig" THEN "sleep_sleep" ELSE "sleep_end"
  <2>1. /\ pc[p] \in {"sleep_sig", "sleep_over"} /\ UNCHANGED <<state, chan, cpu, ticks, tickslock, ticks0>>
        /\ \/ pc' = [pc EXCEPT ![p] = next] /\ UNCHANGED stk
           \/ /\ pc' = [pc EXCEPT ![p] = "psig"]
              /\ stk' = [stk EXCEPT ![p] = <<<<next, isig[p]>>>> \o stk[p]]
    BY <1>0, <1>1, <1>6 DEF sleep_sig, CallPsig, Goto, At, procVars, tickVars
  <2>2. /\ tickslock = c /\ stk[p] = <<>> /\ (\A q \in Procs \ {p} : Base(q) \notin SleepPCs)
        /\ Base(p) = pc[p]
    BY <1>0, <1>1, <2>1, InSleep DEF SleepPCs
  <2>3. next \in {"sleep_sleep", "sleep_end"} /\ (next = "sleep_sleep" => pc[p] = "sleep_sig")
    OBVIOUS
  <2>. HIDE DEF next
  <2>4. Base(p)' = next
    <3>1. CASE pc' = [pc EXCEPT ![p] = next] /\ UNCHANGED stk
      BY <1>2, <2>2, <3>1 DEF Base, BaseOf
    <3>2. CASE /\ pc' = [pc EXCEPT ![p] = "psig"]
               /\ stk' = [stk EXCEPT ![p] = <<<<next, isig[p]>>>> \o stk[p]]
      <4>1. "psig" \in CalledPCs /\ next \notin CalledPCs /\ next \notin LockedPCs
        BY <2>3 DEF CalledPCs, LockedPCs, SchedPCs, WakePCs
      <4>2. StackOK(next, stk[p]) /\ BaseOf(next, stk[p]) = next
        BY <2>2, <4>1, EmptyOK
      <4>3. stk[p] \in Seq(Caller)
        BY <1>2
      <4>4. BaseOf("psig", <<<<next, isig[p]>>>> \o stk[p]) = BaseOf(next, stk[p])
        BY <4>1, <4>2, <4>3, PushOK
      <4> QED
        BY <1>2, <3>2, <4>2, <4>4 DEF Base
    <3> QED
      BY <2>1, <3>1, <3>2
  <2>5. \A q \in Procs \ {p} : pc'[q] = pc[q] /\ stk'[q] = stk[q]
    BY <1>2, <2>1
  <2>6. Base(p)' \in {"sleep_sig", "sleep_sleep"} => Early(p)'
    BY <2>1, <2>2, <2>3, <2>4 DEF TickInv, Early
  <2> QED
    BY <1>1, <1>2, <2>1, <2>2, <2>5, <2>6, OwnSleep
<1>7. CASE sleep(c)
  <2>1. /\ pc[p] = "sleep_sleep" /\ UNCHANGED <<stk, cpu, ticks, ticks0>>
        /\ chan' = [chan EXCEPT ![p] = TicksChan] /\ state' = [state EXCEPT ![p] = "SLEEPING"]
        /\ pc' = [pc EXCEPT ![p] = "sleep_sched"]
    BY <1>1, <1>7 DEF sleep, At, Goto, thrVars
  <2>2. /\ stk[p] = <<>> /\ (\A q \in Procs \ {p} : Base(q) \notin SleepPCs)
        /\ Base(p) = pc[p]
    BY <1>0, <1>1, <2>1, InSleep DEF SleepPCs
  <2>3. Early(p)' /\ Base(p)' = "sleep_sched"
    BY <1>2, <2>1, <2>2 DEF TickInv, Early, Base, BaseOf
  <2>5. \A q \in Procs \ {p} : pc'[q] = pc[q] /\ chan'[q] = chan[q] /\ state'[q] = state[q]
    BY <1>2, <2>1
  <2> QED
    BY <1>1, <1>2, <2>1, <2>2, <2>3, <2>5, OwnSleep DEF SleepPCs
<1>8. CASE sleep_wake(c)
  <2>1. /\ pc' = [pc EXCEPT ![p] = "sleep_reacquire"] /\ UNCHANGED <<state, stk, ticks0, cpu, tickVars>>
        /\ chan' = [chan EXCEPT ![p] = NULL]
    BY <1>1, <1>8 DEF sleep_wake, Goto, thrVars
  <2>2. \A q \in Procs : Aside(q)
    BY <1>2, <2>1, MoveAside DEF Undisturbed, SleepPCs
  <2> QED
    BY <2>1, <2>2, AsideOK
<1>9. CASE sleep_end(c)
  <2>1. /\ pc[p] = "sleep_end" /\ UNCHANGED <<state, chan, stk, cpu, ticks>>
        /\ ticks0' = [ticks0 EXCEPT ![p] = 0] /\ pc' = [pc EXCEPT ![p] = "sysret"]
    BY <1>1, <1>9 DEF sleep_end, At, Goto, procVars
  <2>2. stk[p] = <<>> /\ (\A q \in Procs \ {p} : Base(q) \notin SleepPCs)
    BY <1>0, <1>1, <2>1, InSleep DEF SleepPCs
  <2>3. Base(p)' = "sysret"
    BY <1>2, <2>1, <2>2 DEF Base, BaseOf
  <2>5. \A q \in Procs \ {p} : pc'[q] = pc[q] /\ ticks0'[q] = ticks0[q]
    BY <1>2, <2>1
  <2> QED
    BY <1>1, <1>2, <2>1, <2>2, <2>3, <2>5, OwnSleep DEF SleepPCs
<1> QED
  BY <1>3, <1>4, <1>5, <1>6, <1>7, <1>8, <1>9 DEF SleepStep

(* The clock: ticks moves while nobody is in sys_sleep() with tickslock,    *)
(* and wakes everybody who sleeps on it.                                    *)
LEMMA ClockTicking ==
  ASSUME TickInv, ticktock, UNCHANGED <<chan, stk, tickslock>>,
         \A q \in Procs : pc'[q] = pc[q] \/ pc'[q] \notin SleepPCs
  PROVE  TickInv'
<1>1. \A q \in Procs : Base(q) \notin SleepPCs
  BY NoneInSleep DEF ticktock
<1>2. \A q \in Procs : Base(q)' \notin SleepPCs
  BY <1>1 DEF Base, BaseOf
<1>3. \A q \in Procs : ~(state'[q] = "SLEEPING" /\ chan'[q] = TicksChan)
  BY DEF ticktock, wakeup1
<1> QED
  BY <1>2, <1>3 DEF TickInv, NoOverdueSleeper, SleepPCs

LEMMA SchedTicking ==
  ASSUME IInv, TickInv, NEW c \in CPUs, sched(c) \/ \E q \in Procs : scheduler(c, q)
  PROVE  TickInv'
<1>1. CASE sched(c) /\ panic("sched_locks")
  BY <1>1, PanicAside, AsideOK DEF panic
<1>2. CASE sched(c) /\ ~panic("sched_locks")
  <2>1. /\ tickslock # c /\ cpu' = [cpu EXCEPT ![c] = NULL] /\ UNCHANGED <<state, chan, stk, ticks0, tickVars>>
        /\ \E r \in AfterSched : Goto(c, r[2])
    BY <1>2 DEF sched, procVars, thrVars
  <2>2. \A r \in AfterSched : r[2] \notin SleepPCs
    BY SMTT(60) DEF AfterSched, SleepPCs
  <2>3. pc \in [Procs -> PCs] /\ cpu \in [CPUs -> Procs \cup {NULL}]
    BY DEF IInv, TypeOK, PcTypes, GlobalTypes
  <2>4. \A q \in Procs : pc'[q] = pc[q] \/ pc'[q] \notin SleepPCs
    BY <2>1, <2>2, <2>3 DEF Goto
  <2>5. \A q \in Procs : Aside(q)
    BY <2>1, <2>4 DEF Aside, Base, BaseOf
  <2>6. \A q \in Procs, d \in CPUs : cpu[d] = q /\ tickslock = d => cpu'[d] = q
    BY <2>1, <2>3
  <2> QED
    BY <2>1, <2>5, <2>6, AsideOK
<1>3. ASSUME NEW r \in Procs, scheduler(c, r) PROVE TickInv'
  <2>1. /\ cpu[c] = NULL /\ cpu' = [cpu EXCEPT ![c] = r] /\ UNCHANGED <<pc, chan, stk, ticks0, tickVars>>
        /\ state' = [state EXCEPT ![r] = "RUNNING"]
    BY <1>3 DEF scheduler, thrVars
  <2>3. state \in [Procs -> States] /\ cpu \in [CPUs -> Procs \cup {NULL}] /\ NULL \notin Procs
    BY CpuIds DEF IInv, TypeOK, ProcTypes, GlobalTypes
  <2>5. \A q \in Procs : Aside(q)
    BY <2>1, <2>3 DEF Aside, Base, BaseOf
  <2>6. \A q \in Procs, d \in CPUs : cpu[d] = q /\ tickslock = d => cpu'[d] = q
    BY <2>1, <2>3
  <2> QED
    BY <2>1, <2>5, <2>6, AsideOK
<1> QED
  BY <1>1, <1>2, <1>3

LEMMA StepTicking ==
  ASSUME IInv, IInv', TickInv, Next
  PROVE  TickInv'
<1>1. ASSUME NEW c \in CPUs, UNCHANGED <<cpu, tickVars>>, \A q \in Procs : Aside(q) PROVE TickInv'
  BY <1>1, AsideOK
<1>2. ASSUME NEW c \in CPUs, SchedStep(c) \/ \E q \in Procs : scheduler(c, q) PROVE TickInv'
  <2>1. CASE yield(c) \/ yield_ret(c) \/ forkret(c)
    BY <1>1, <2>1, SchedAside DEF yield, yield_ret, forkret
  <2> QED
    BY <1>2, <2>1, SchedTicking DEF SchedStep
<1>3. ASSUME NEW c \in CPUs, ForkStep(c) PROVE TickInv'
  <2>1. UNCHANGED <<cpu, tickVars>>
    BY <1>3 DEF ForkStep, allocproc, fork_fail, allocproc_kstack, fork_copy, fork_run
  <2> QED
    BY <1>1, <1>3, <2>1, ForkAside
<1>4. ASSUME NEW c \in CPUs, ExitStep(c) PROVE TickInv'
  <2>1. UNCHANGED <<cpu, tickVars>>
    BY <1>4 DEF ExitStep, exit, wait, sys_kill, exec, panic
  <2> QED
    BY <1>1, <1>4, <2>1, ExitAside
<1>5. ASSUME NEW c \in CPUs, PsigStep(c) PROVE TickInv'
  <2>1. UNCHANGED <<cpu, tickVars>>
    BY <1>5 DEF PsigStep, psig, term, psig_term, psig_core, psig_core_ret, psig_stop, psig_stop_ret,
      psig_user, jmptohandler
  <2> QED
    BY <1>1, <1>5, <2>1, PsigAside
<1>6. ASSUME NEW c \in CPUs, KillStep(c) PROVE TickInv'
  <2>1. UNCHANGED <<cpu, tickVars>>
    BY <1>6 DEF KillStep, Kill, Kill_scan, Kill_post, Kill_kill, signal, sys_sigmask
  <2> QED
    BY <1>1, <1>6, <2>1, KillAside
<1>7. ASSUME NEW c \in CPUs, TrapStep(c) PROVE TickInv'
  <2>1. CASE trap_tick(c) /\ panic("acquire")
    BY <2>1, PanicAside, AsideOK DEF panic
  <2>2. CASE trap_tick(c) /\ ~panic("acquire")
    <3>1. ticktock /\ UNCHANGED <<chan, stk, tickslock>> /\ Goto(c, "intr_timer")
      BY <2>2 DEF trap_tick, thrVars
    <3>2. pc \in [Procs -> PCs]
      BY DEF IInv, TypeOK, PcTypes
    <3>3. \A q \in Procs : pc'[q] = pc[q] \/ pc'[q] \notin SleepPCs
      BY <3>1, <3>2 DEF Goto, SleepPCs
    <3> QED
      BY <3>1, <3>3, ClockTicking
  <2>3. CASE ~trap_tick(c)
    <3>1. UNCHANGED <<cpu, tickVars>>
      BY <1>7, <2>3 DEF TrapStep, trap_sysret, trap_killcheck, trap_intr_killed, trap_intr_sig,
        trap_intr_ret
    <3> QED
      BY <1>1, <1>7, <2>3, <3>1, TrapAside
  <2> QED
    BY <2>1, <2>2, <2>3
<1>8. ASSUME NEW c \in CPUs, UserStep(c) PROVE TickInv'
  <2>1. UNCHANGED <<cpu, tickVars>>
    BY <1>8 DEF UserStep, trap_syscall, sigreturn, trap_fault, trap_overrun, fault
  <2> QED
    BY <1>1, <1>8, <2>1, UserAside
<1>9. ASSUME NEW c \in CPUs, NEW dev \in {"intr_timer", "intr_device"}, trap_intr(c, dev)
      PROVE  TickInv'
  <2>1. UNCHANGED <<cpu, tickVars>>
    BY <1>9 DEF trap_intr
  <2> QED
    BY <1>1, <1>9, <2>1, IntrAside
<1>10. CASE idle_tick
  BY <1>10, ClockTicking DEF idle_tick, thrVars
<1>11. CASE Frozen
  BY <1>11, AsideOK DEF Frozen, vars, procVars, thrVars, tickVars, Aside, Base, BaseOf
<1> QED
  BY <1>2, <1>3, <1>4, <1>5, <1>6, <1>7, <1>8, <1>9, <1>10, <1>11, SleepTicking
    DEF Next, KernelStep

(* sys_sleep(), sleep(), wakeup() and the clock: whoever sleeps on &ticks    *)
(* has checked the current value of ticks and has time left.                *)
THEOREM NoLateSleeper == Spec => []NoOverdueSleeper
<1>1. Init => TickInv
  <2> SUFFICES ASSUME Init PROVE TickInv
    OBVIOUS
  <2>1. \A p \in Procs : Base(p) \in {"forkret", "exit_ret"} /\ state[p] # "SLEEPING"
    BY DEF Init, Base, BaseOf
  <2> QED
    BY <2>1 DEF TickInv, NoOverdueSleeper, SleepPCs
<1>2. IInv /\ IInv' /\ TickInv /\ [Next]_vars => TickInv'
  <2>1. ASSUME TickInv, UNCHANGED vars PROVE TickInv'
    BY <2>1, AsideOK DEF vars, procVars, thrVars, tickVars, Aside, Base, BaseOf
  <2> QED
    BY <2>1, StepTicking
<1>3. TickInv => NoOverdueSleeper
  BY DEF TickInv
<1> QED
  BY <1>1, <1>2, <1>3, Invariance, PTL DEF Spec

-----------------------------------------------------------------------------
(* fork(), exit() and wait() implement ProcLife. *)

(* On top of IInv.  A slot in use has a pid, which is the slot's alone, and *)
(* init has pid 1; the processes about to call allocproc() find a pid for   *)
(* each of them within the bound.                                           *)
Forkers == {p \in Procs : Base(p) = "fork"}

LifeInv ==
  /\ UniquePids
  /\ pid[initproc] = 1
  /\ \A p \in Procs : state[p] # "UNUSED" => pid[p] # 0
  /\ nextpid + Cardinality(Forkers) <= MaxPid + NPROC + 1

-----------------------------------------------------------------------------
(* The parents by pid, from the pids, states and parents of the table.      *)
LiveStates == {"SLEEPING", "RUNNABLE", "RUNNING"}
HeldStates == LiveStates \cup {"ZOMBIE"}
Held(p) == state[p] \in HeldStates

HolderIn(pd, st, v) ==
  {p \in Procs : /\ pd[p] = v
                 /\ st[p] \in {"SLEEPING", "RUNNABLE", "RUNNING"} \/ st[p] = "ZOMBIE"}
ParIn(pd, st, pr, v) ==
  IF \E p \in HolderIn(pd, st, v) : pr[p] # NULL
  THEN pd[pr[CHOOSE p \in HolderIn(pd, st, v) : TRUE]] ELSE 0

Pids == 1..(MaxPid + NPROC)

(* What LifeInv and IInv say of the table, for this state and the next. *)
TableOK(pd, st, pr) ==
  /\ \A p \in Procs : st[p] \in HeldStates => pd[p] \in Pids
  /\ \A p, q \in Procs : st[p] \in HeldStates /\ pd[p] = pd[q] => p = q
  /\ \A p \in Procs : st[p] \in HeldStates /\ pr[p] # NULL =>
       pr[p] \in Procs /\ st[pr[p]] \in LiveStates

LEMMA ParHeld ==
  ASSUME NEW pd, NEW st, NEW pr, TableOK(pd, st, pr), NEW p \in Procs, st[p] \in HeldStates
  PROVE  ParIn(pd, st, pr, pd[p]) = IF pr[p] # NULL THEN pd[pr[p]] ELSE 0
<1>1. HolderIn(pd, st, pd[p]) = {p}
  <2>1. \A q \in Procs : pd[p] = pd[q] => p = q
    BY DEF TableOK
  <2> QED
    BY <2>1 DEF HolderIn, HeldStates, LiveStates
<1>2. ASSUME NEW S, S = {p} PROVE (CHOOSE q \in S : TRUE) = p
  BY <1>2
<1>3. (CHOOSE q \in HolderIn(pd, st, pd[p]) : TRUE) = p
  BY <1>1, <1>2
<1>4. CASE pr[p] # NULL
  BY <1>1, <1>3, <1>4 DEF ParIn
<1>5. CASE pr[p] = NULL
  BY <1>1, <1>5 DEF ParIn
<1> QED
  BY <1>4, <1>5

LEMMA ParNow ==
  ASSUME TableOK(pid, state, parent), NEW p \in Procs, state[p] \in HeldStates
  PROVE  ParIn(pid, state, parent, pid[p]) = IF parent[p] # NULL THEN pid[parent[p]] ELSE 0
BY ParHeld

LEMMA ParNext ==
  ASSUME TableOK(pid', state', parent'), NEW p \in Procs, state'[p] \in HeldStates
  PROVE  ParIn(pid', state', parent', pid'[p]) = IF parent'[p] # NULL THEN pid'[parent'[p]] ELSE 0
BY ParHeld

LEMMA ParFree ==
  ASSUME NEW pd, NEW st, NEW pr, NEW v, \A p \in Procs : st[p] \in HeldStates => pd[p] # v
  PROVE  ParIn(pd, st, pr, v) = 0
BY DEF ParIn, HolderIn, HeldStates, LiveStates

(* The state of ProcLife. *)
Alive == {pid[p] : p \in {q \in Procs : Live(q)}}
Zombie == {pid[p] : p \in {q \in Procs : state[q] = "ZOMBIE"}}
Par == [v \in Pids |-> ParIn(pid, state, parent, v)]
ParMap == [v \in 1..(MaxPid + NPROC) |->
             IF \E p \in Holder(v) : parent[p] # NULL
             THEN pid[parent[CHOOSE p \in Holder(v) : TRUE]] ELSE 0]

LEMMA ParIsMap == Par = ParMap /\ Par' = ParMap'
BY DEF Par, ParMap, ParIn, Pids, Holder, HolderIn, Live

LEMMA ProcsFinite == IsFiniteSet(Procs) /\ Cardinality(Procs) = NPROC
<1>1. NPROC \in Int /\ 1 \in Int /\ NPROC - 1 + 1 = NPROC /\ ~(1 > NPROC)
  BY ProcAssumption, SMTT(60)
<1> QED
  BY <1>1, FS_Interval DEF Procs

LEMMA TableIsOK ==
  ASSUME IInv, LifeInv
  PROVE  TableOK(pid, state, parent) /\ 0 \notin Pids /\ 1 \in Pids
<1>1. /\ state \in [Procs -> States] /\ nextpid \in Nat /\ pid \in [Procs -> 0..(nextpid - 1)]
      /\ parent \in [Procs -> Procs \cup {NULL}]
  BY DEF IInv, TypeOK, ProcTypes
<1>2. Forkers \in SUBSET Procs /\ IsFiniteSet(Procs)
  BY ProcsFinite DEF Forkers
<1>3. Cardinality(Forkers) \in Nat
  BY <1>2, FS_Subset, FS_CardinalityType
<1>4. \A p \in Procs : pid[p] # 0 => pid[p] \in Pids
  BY <1>1, <1>3, ProcAssumption, SMTT(60) DEF LifeInv, Pids
<1>5. \A p \in Procs : state[p] \in HeldStates => pid[p] # 0
  BY DEF LifeInv, HeldStates, LiveStates
<1>6. \A p \in Procs : state[p] \in HeldStates /\ parent[p] # NULL =>
        parent[p] \in Procs /\ state[parent[p]] \in LiveStates
  BY <1>1 DEF IInv, Coherent, FamilyInv, FamilyTree, Live, HeldStates, LiveStates
<1>7. 0 \notin Pids /\ 1 \in Pids
  BY ProcAssumption, SMTT(60) DEF Pids
<1> QED
  BY <1>4, <1>5, <1>6, <1>7 DEF TableOK, LifeInv, UniquePids

-----------------------------------------------------------------------------
(* What a step does to the table: nothing that ProcLife sees, ... *)
QuietTable ==
  \A q \in Procs : /\ state'[q] \in LiveStates <=> state[q] \in LiveStates
                   /\ state'[q] = "ZOMBIE" <=> state[q] = "ZOMBIE"
                   /\ Held(q) => pid'[q] = pid[q] /\ parent'[q] = parent[q]

PidsKept ==
  /\ UNCHANGED <<pid, nextpid>>
  /\ \A q \in Procs : state'[q] # "UNUSED" => state[q] # "UNUSED"

(* ... a slot np handed out by allocproc(), ... *)
AllocTable(np) ==
  /\ state[np] = "UNUSED"
  /\ state' = [state EXCEPT ![np] = "EMBRYO"]
  /\ pid' = [pid EXCEPT ![np] = nextpid]
  /\ nextpid' = nextpid + 1
  /\ UNCHANGED parent

(* ... the end of a fork() of p, which has filled in the slot np, ... *)
ForkTable(p, np) ==
  /\ state[p] \in LiveStates /\ state[np] = "EMBRYO" /\ parent[np] = p
  /\ state' = [state EXCEPT ![np] = "RUNNABLE"]
  /\ UNCHANGED <<pid, nextpid, parent>>

(* ... the exit of p, ... *)
ExitTable(p) ==
  /\ p # initproc /\ state[p] \in LiveStates /\ state'[p] = "ZOMBIE"
  /\ \A q \in Procs \ {p} : /\ state'[q] \in LiveStates <=> state[q] \in LiveStates
                            /\ state'[q] = "ZOMBIE" <=> state[q] = "ZOMBIE"
  /\ parent' = adopt(p)
  /\ PidsKept

(* ... or a wait() in p that collects q. *)
WaitTable(p, q) ==
  /\ state[p] \in LiveStates /\ state[q] = "ZOMBIE" /\ parent[q] = p
  /\ state' = [state EXCEPT ![q] = "UNUSED"]
  /\ pid' = [pid EXCEPT ![q] = 0]
  /\ parent' = [parent EXCEPT ![q] = NULL]
  /\ UNCHANGED nextpid

TableStep ==
  \/ QuietTable /\ PidsKept
  \/ \E np \in Procs : AllocTable(np)
  \/ \E p, np \in Procs : ForkTable(p, np)
  \/ \E p \in Procs : ExitTable(p)
  \/ \E p, q \in Procs : WaitTable(p, q)

(* Each of them is a step of ProcLife, or none. *)
LEMMA QuietLife ==
  ASSUME TableOK(pid, state, parent), QuietTable, state' \in [Procs -> States],
         TableOK(pid', state', parent')
  PROVE  UNCHANGED <<Alive, Zombie, Par>>
<1>1. \A q \in Procs : state'[q] \in HeldStates <=> state[q] \in HeldStates
  BY DEF QuietTable, HeldStates
<1>2. \A q \in Procs : state[q] \in HeldStates => pid'[q] = pid[q] /\ parent'[q] = parent[q]
  BY DEF QuietTable, Held
<1>3. Alive' = Alive
  <2>1. \A q \in Procs : state[q] \in LiveStates => pid'[q] = pid[q]
    BY <1>2 DEF HeldStates
  <2>2. \A q \in Procs : state'[q] \in LiveStates <=> state[q] \in LiveStates
    BY DEF QuietTable
  <2> QED
    BY <2>1, <2>2 DEF Alive, Live, LiveStates
<1>4. Zombie' = Zombie
  <2>1. \A q \in Procs : state[q] = "ZOMBIE" => pid'[q] = pid[q]
    BY <1>2 DEF HeldStates
  <2>2. \A q \in Procs : state'[q] = "ZOMBIE" <=> state[q] = "ZOMBIE"
    BY DEF QuietTable
  <2> QED
    BY <2>1, <2>2 DEF Zombie
<1>5. ASSUME NEW v \in Pids
      PROVE  ParIn(pid', state', parent', v) = ParIn(pid, state, parent, v)
  <2>1. CASE \A p \in Procs : state[p] \in HeldStates => pid[p] # v
    <3>1. \A p \in Procs : state'[p] \in HeldStates => pid'[p] # v
      BY <1>1, <1>2, <2>1
    <3>2. ParIn(pid, state, parent, v) = 0
      BY <2>1, ParFree
    <3>3. ParIn(pid', state', parent', v) = 0
      BY <3>1, ParFree
    <3> QED
      BY <3>2, <3>3
  <2>2. ASSUME NEW p \in Procs, state[p] \in HeldStates, pid[p] = v
        PROVE  ParIn(pid', state', parent', v) = ParIn(pid, state, parent, v)
    <3>1. /\ state'[p] \in HeldStates /\ pid'[p] = v /\ parent'[p] = parent[p]
      BY <1>1, <1>2, <2>2
    <3>2. ParIn(pid, state, parent, pid[p]) = IF parent[p] # NULL THEN pid[parent[p]] ELSE 0
      BY <2>2, ParNow
    <3>3. ParIn(pid', state', parent', pid'[p]) = IF parent'[p] # NULL THEN pid'[parent'[p]] ELSE 0
      BY <3>1, ParNext
    <3>4. parent[p] # NULL => pid'[parent[p]] = pid[parent[p]]
      BY <1>2, <2>2 DEF TableOK, HeldStates
    <3> QED
      BY <2>2, <3>1, <3>2, <3>3, <3>4
  <2> QED
    BY <2>1, <2>2
<1> QED
  BY <1>3, <1>4, <1>5 DEF Par

LEMMA ForkLife ==
  ASSUME TableOK(pid, state, parent), state \in [Procs -> States],
         TableOK(pid', state', parent'), NEW p \in Procs, NEW np \in Procs, ForkTable(p, np)
  PROVE  /\ pid[p] \in Pids /\ pid[np] \in Pids
         /\ pid[p] \in Alive /\ pid[np] \notin Alive \cup Zombie
         /\ Alive' = Alive \cup {pid[np]} /\ UNCHANGED Zombie
         /\ Par' = [Par EXCEPT ![pid[np]] = pid[p]]
<1>1. /\ state' = [state EXCEPT ![np] = "RUNNABLE"] /\ UNCHANGED <<pid, parent>>
      /\ state[p] \in LiveStates /\ state[np] = "EMBRYO" /\ parent[np] = p
  BY DEF ForkTable
<1>2. /\ state'[np] = "RUNNABLE" /\ \A q \in Procs : q # np => state'[q] = state[q]
  BY <1>1
<1>3. state'[np] \in HeldStates /\ state'[np] \in LiveStates /\ state[np] \notin HeldStates
  BY <1>1, <1>2 DEF HeldStates, LiveStates
<1>4. pid[p] \in Pids /\ pid[np] \in Pids
  BY <1>1, <1>3 DEF TableOK, HeldStates
<1>5. \A q \in Procs : q # np => pid[q] # pid[np]
  BY <1>1, <1>3 DEF TableOK
<1>6. pid[p] \in Alive /\ pid[np] \notin Alive \cup Zombie
  BY <1>1, <1>5, <1>3 DEF Alive, Zombie, Live, LiveStates
<1>7. Alive' = Alive \cup {pid[np]}
  BY <1>1, <1>2 DEF Alive, Live
<1>8. Zombie' = Zombie
  BY <1>1, <1>2 DEF Zombie
<1>9. ASSUME NEW v \in Pids, v # pid[np]
      PROVE  ParIn(pid', state', parent', v) = ParIn(pid, state, parent, v)
  <2>1. CASE \A q \in Procs : state[q] \in HeldStates => pid[q] # v
    <3>1. \A q \in Procs : state'[q] \in HeldStates => pid'[q] # v
      BY <1>1, <1>2, <1>9, <2>1
    <3>2. ParIn(pid, state, parent, v) = 0
      BY <2>1, ParFree
    <3>3. ParIn(pid', state', parent', v) = 0
      BY <3>1, ParFree
    <3> QED
      BY <3>2, <3>3
  <2>2. ASSUME NEW q \in Procs, state[q] \in HeldStates, pid[q] = v
        PROVE  ParIn(pid', state', parent', v) = ParIn(pid, state, parent, v)
    <3>1. state'[q] \in HeldStates /\ pid'[q] = v /\ parent' = parent /\ pid' = pid
      BY <1>1, <1>2, <1>9, <2>2
    <3>2. ParIn(pid, state, parent, pid[q]) = IF parent[q] # NULL THEN pid[parent[q]] ELSE 0
      BY <2>2, ParNow
    <3>3. ParIn(pid', state', parent', pid'[q]) = IF parent'[q] # NULL THEN pid'[parent'[q]] ELSE 0
      BY <3>1, ParNext
    <3> QED
      BY <2>2, <3>1, <3>2, <3>3
  <2> QED
    BY <2>1, <2>2
<1>10. ParIn(pid', state', parent', pid[np]) = pid[p]
  <2>1. ParIn(pid', state', parent', pid'[np]) = IF parent'[np] # NULL THEN pid'[parent'[np]] ELSE 0
    BY <1>3, ParNext
  <2> QED
    BY <1>1, <2>1, CpuIds
<1>11. Par' = [Par EXCEPT ![pid[np]] = pid[p]]
  BY <1>4, <1>9, <1>10 DEF Par
<1> QED
  BY <1>4, <1>6, <1>7, <1>8, <1>11

LEMMA ExitLife ==
  ASSUME TableOK(pid, state, parent), TableOK(pid', state', parent'), 0 \notin Pids,
         pid[initproc] = 1, state[initproc] \in LiveStates, parent[initproc] = NULL,
         parent \in [Procs -> Procs \cup {NULL}],
         NEW p \in Procs, ExitTable(p)
  PROVE  /\ pid[p] \in Pids /\ pid[p] \in Alive \ {1}
         /\ Alive' = Alive \ {pid[p]} /\ Zombie' = Zombie \cup {pid[p]}
         /\ Par' = [w \in Pids |-> IF Par[w] = pid[p] THEN 1 ELSE Par[w]]
<1>1. /\ p # initproc /\ state[p] \in LiveStates /\ state'[p] = "ZOMBIE"
      /\ \A q \in Procs : q # p => /\ state'[q] \in LiveStates <=> state[q] \in LiveStates
                                   /\ state'[q] = "ZOMBIE" <=> state[q] = "ZOMBIE"
      /\ parent' = adopt(p) /\ pid' = pid /\ initproc \in Procs
  BY CpuIds DEF ExitTable, PidsKept
<1>2. \A q \in Procs : state'[q] \in HeldStates <=> state[q] \in HeldStates
  <2>1. state'[p] \in HeldStates /\ state[p] \in HeldStates
    BY <1>1 DEF HeldStates
  <2>2. ASSUME NEW q \in Procs, q # p PROVE state'[q] \in HeldStates <=> state[q] \in HeldStates
    BY <1>1, <2>2 DEF HeldStates
  <2> QED
    BY <2>1, <2>2
<1>3. pid[p] \in Pids /\ \A q \in Procs : q # p => pid[q] # pid[p]
  BY <1>1 DEF TableOK, HeldStates
<1>4. pid[p] \in Alive \ {1}
  BY <1>1, <1>3 DEF Alive, Live, LiveStates
<1>5. state'[p] \notin LiveStates /\ state[p] # "ZOMBIE"
  BY <1>1 DEF LiveStates
<1>6. Alive' = Alive \ {pid[p]}
  <2>1. \A q \in Procs : state'[q] \in LiveStates <=> state[q] \in LiveStates /\ q # p
    BY <1>1, <1>5
  <2> QED
    BY <1>1, <1>3, <2>1 DEF Alive, Live, LiveStates
<1>7. Zombie' = Zombie \cup {pid[p]}
  <2>1. \A q \in Procs : state'[q] = "ZOMBIE" <=> state[q] = "ZOMBIE" \/ q = p
    BY <1>1, <1>5
  <2> QED
    BY <1>1, <2>1 DEF Zombie
<1>8. ASSUME NEW v \in Pids
      PROVE  ParIn(pid', state', parent', v) =
               IF ParIn(pid, state, parent, v) = pid[p] THEN 1 ELSE ParIn(pid, state, parent, v)
  <2>1. CASE \A q \in Procs : state[q] \in HeldStates => pid[q] # v
    <3>1. \A q \in Procs : state'[q] \in HeldStates => pid'[q] # v
      BY <1>1, <1>2, <2>1
    <3>2. ParIn(pid, state, parent, v) = 0
      BY <2>1, ParFree
    <3>3. ParIn(pid', state', parent', v) = 0
      BY <3>1, ParFree
    <3> QED
      BY <1>3, <3>2, <3>3
  <2>2. ASSUME NEW q \in Procs, state[q] \in HeldStates, pid[q] = v
        PROVE  ParIn(pid', state', parent', v) =
                 IF ParIn(pid, state, parent, v) = pid[p] THEN 1 ELSE ParIn(pid, state, parent, v)
    <3>1. state'[q] \in HeldStates
      BY <1>2, <2>2
    <3>2. ParIn(pid, state, parent, pid[q]) = IF parent[q] # NULL THEN pid[parent[q]] ELSE 0
      BY <2>2, ParNow
    <3>3. ParIn(pid', state', parent', pid'[q]) = IF parent'[q] # NULL THEN pid'[parent'[q]] ELSE 0
      BY <3>1, ParNext
    <3>4. parent'[q] = IF parent[q] = p THEN initproc ELSE parent[q]
      BY <1>1 DEF adopt
    <3>5. CASE parent[q] = p
      BY <1>1, <2>2, <3>2, <3>3, <3>4, <3>5, CpuIds
    <3>6. CASE parent[q] # p /\ parent[q] # NULL
      BY <1>1, <1>3, <2>2, <3>2, <3>3, <3>4, <3>6
    <3>7. CASE parent[q] = NULL
      BY <1>1, <1>3, <2>2, <3>2, <3>3, <3>4, <3>7, CpuIds
    <3> QED
      BY <3>5, <3>6, <3>7
  <2> QED
    BY <2>1, <2>2
<1>9. Par' = [w \in Pids |-> IF Par[w] = pid[p] THEN 1 ELSE Par[w]]
  BY <1>8 DEF Par
<1> QED
  BY <1>3, <1>4, <1>6, <1>7, <1>9

LEMMA WaitLife ==
  ASSUME TableOK(pid, state, parent), TableOK(pid', state', parent'), 0 \notin Pids,
         state \in [Procs -> States], parent \in [Procs -> Procs \cup {NULL}],
         pid \in [Procs -> Nat], NEW p \in Procs, NEW q \in Procs, WaitTable(p, q)
  PROVE  /\ pid[p] \in Pids /\ pid[q] \in Pids
         /\ pid[p] \in Alive /\ pid[q] \in Zombie /\ Par[pid[q]] = pid[p]
         /\ Zombie' = Zombie \ {pid[q]} /\ UNCHANGED Alive
         /\ Par' = [Par EXCEPT ![pid[q]] = 0]
<1>1. /\ state[p] \in LiveStates /\ state[q] = "ZOMBIE" /\ parent[q] = p
      /\ state' = [state EXCEPT ![q] = "UNUSED"] /\ pid' = [pid EXCEPT ![q] = 0]
      /\ parent' = [parent EXCEPT ![q] = NULL]
  BY DEF WaitTable
<1>2. /\ state'[q] = "UNUSED" /\ pid'[q] = 0
      /\ \A r \in Procs : r # q => state'[r] = state[r] /\ pid'[r] = pid[r] /\ parent'[r] = parent[r]
  BY <1>1
<1>3. /\ state[q] \in HeldStates /\ state[q] \notin LiveStates /\ state[p] \in HeldStates
      /\ "UNUSED" \notin HeldStates /\ "UNUSED" \notin LiveStates
  BY <1>1 DEF HeldStates, LiveStates
<1>4. pid[p] \in Pids /\ pid[q] \in Pids /\ \A r \in Procs : r # q => pid[r] # pid[q]
  BY <1>3 DEF TableOK
<1>5. pid[p] \in Alive /\ pid[q] \in Zombie
  BY <1>1 DEF Alive, Zombie, Live, LiveStates
<1>6. Par[pid[q]] = pid[p]
  <2>1. ParIn(pid, state, parent, pid[q]) = IF parent[q] # NULL THEN pid[parent[q]] ELSE 0
    BY <1>3, ParNow
  <2> QED
    BY <1>1, <1>4, <2>1, CpuIds DEF Par
<1>7. Zombie' = Zombie \ {pid[q]}
  BY <1>2, <1>4 DEF Zombie
<1>8. Alive' = Alive
  BY <1>2, <1>3 DEF Alive, Live, LiveStates
<1>9. ASSUME NEW v \in Pids, v # pid[q]
      PROVE  ParIn(pid', state', parent', v) = ParIn(pid, state, parent, v)
  <2>1. CASE \A r \in Procs : state[r] \in HeldStates => pid[r] # v
    <3>1. \A r \in Procs : state'[r] \in HeldStates => pid'[r] # v
      BY <1>2, <1>3, <2>1
    <3>2. ParIn(pid, state, parent, v) = 0
      BY <2>1, ParFree
    <3>3. ParIn(pid', state', parent', v) = 0
      BY <3>1, ParFree
    <3> QED
      BY <3>2, <3>3
  <2>2. ASSUME NEW r \in Procs, state[r] \in HeldStates, pid[r] = v
        PROVE  ParIn(pid', state', parent', v) = ParIn(pid, state, parent, v)
    <3>0. r # q
      BY <1>9, <2>2
    <3>1. state'[r] \in HeldStates /\ pid'[r] = v /\ parent'[r] = parent[r]
      BY <1>2, <2>2, <3>0
    <3>2. ParIn(pid, state, parent, pid[r]) = IF parent[r] # NULL THEN pid[parent[r]] ELSE 0
      BY <2>2, ParNow
    <3>3. ParIn(pid', state', parent', pid'[r]) = IF parent'[r] # NULL THEN pid'[parent'[r]] ELSE 0
      BY <3>1, ParNext
    <3>4. parent[r] # NULL => parent[r] \in Procs /\ parent[r] # q
      BY <1>3, <2>2 DEF TableOK
    <3> QED
      BY <1>2, <2>2, <3>1, <3>2, <3>3, <3>4
  <2> QED
    BY <2>1, <2>2
<1>10. ParIn(pid', state', parent', pid[q]) = 0
  <2>1. \A r \in Procs : state'[r] \in HeldStates => pid'[r] # pid[q]
    BY <1>2, <1>3, <1>4
  <2> QED
    BY <2>1, ParFree
<1>11. Par' = [Par EXCEPT ![pid[q]] = 0]
  BY <1>4, <1>9, <1>10 DEF Par
<1> QED
  BY <1>4, <1>5, <1>6, <1>7, <1>8, <1>11

-----------------------------------------------------------------------------
(* A step that only lets living processes go from one state to another. *)
LEMMA LivingMove ==
  ASSUME UNCHANGED <<pid, nextpid, parent>>,
         \A q \in Procs : state'[q] = state[q] \/ (state[q] \in LiveStates /\ state'[q] \in LiveStates)
  PROVE  TableStep
<1>1. "ZOMBIE" \notin LiveStates /\ "UNUSED" \notin LiveStates
  BY DEF LiveStates
<1>2. QuietTable
  BY <1>1 DEF QuietTable
<1>3. PidsKept
  BY <1>1 DEF PidsKept
<1> QED
  BY <1>2, <1>3 DEF TableStep

LEMMA SameTable ==
  ASSUME UNCHANGED <<state, pid, nextpid, parent>>
  PROVE  TableStep
BY LivingMove

(* The same for the process on CPU c, for wakeup1() and for kill(). *)
LEMMA OwnMove ==
  ASSUME IInv, NEW c \in CPUs, cpu[c] # NULL, pc[cpu[c]] \notin SchedPCs, NEW t \in LiveStates,
         state' = [state EXCEPT ![cpu[c]] = t], UNCHANGED <<pid, nextpid, parent>>
  PROVE  TableStep
<1>1. cpu[c] \in Procs /\ state[cpu[c]] = "RUNNING" /\ state \in [Procs -> States]
  BY Running DEF IInv, TypeOK, ProcTypes
<1>2. \A q \in Procs : state'[q] = IF q = cpu[c] THEN t ELSE state[q]
  BY <1>1
<1>3. "RUNNING" \in LiveStates
  BY DEF LiveStates
<1> QED
  BY <1>1, <1>2, <1>3, LivingMove

LEMMA WakeMove ==
  ASSUME NEW ch, state' = wakeup1(state, ch), UNCHANGED <<pid, nextpid, parent>>
  PROVE  TableStep
<1>1. \A q \in Procs : state'[q] = state[q] \/ (state[q] \in LiveStates /\ state'[q] \in LiveStates)
  BY DEF wakeup1, LiveStates
<1> QED
  BY <1>1, LivingMove

LEMMA KilledMove ==
  ASSUME IInv, NEW v, kill(v), UNCHANGED <<pid, nextpid, parent>>
  PROVE  TableStep
<1>1. state \in [Procs -> States]
  BY DEF IInv, TypeOK, ProcTypes
<1>2. \A q \in Procs : state'[q] = state[q] \/ (state[q] = "SLEEPING" /\ state'[q] = "RUNNABLE")
  BY <1>1 DEF kill
<1>3. "SLEEPING" \in LiveStates /\ "RUNNABLE" \in LiveStates
  BY DEF LiveStates
<1> QED
  BY <1>2, <1>3, LivingMove

LEMMA ForkTables ==
  ASSUME IInv, NEW c \in CPUs, ForkStep(c)
  PROVE  TableStep
<1>0. state \in [Procs -> States] /\ parent \in [Procs -> Procs \cup {NULL}]
  BY DEF IInv, TypeOK, ProcTypes
<1>1. CASE allocproc(c)
  <2>1. \/ UNCHANGED <<state, pid, nextpid, parent>>
        \/ \E np \in Procs : AllocTable(np)
    BY <1>1 DEF allocproc, AllocTable, First, procVars
  <2> QED
    BY <2>1, SameTable DEF TableStep
<1>2. CASE ~allocproc(c)
  <2>1. cpu[c] # NULL /\ pc[cpu[c]] \in ForkPCs /\ pc[cpu[c]] \notin SchedPCs
    BY <1>2 DEF ForkStep, fork_fail, allocproc_kstack, fork_copy, fork_run, At, ForkPCs, SchedPCs
  <2>2. PICK p \in Procs : p = cpu[c]
    BY <2>1, ForkSlot
  <2>3. PICK np \in Procs : np = lp[p]
    BY <2>1, <2>2, ForkSlot
  <2>4. state[np] = "EMBRYO" /\ parent[np] = (IF pc[p] = "fork_run" THEN p ELSE NULL)
    BY <2>1, <2>2, <2>3, ForkSlot
  <2>5. state[p] = "RUNNING"
    BY <2>1, <2>2, Running
  <2>6. CASE fork_fail(c)
    <3>1. state' = [state EXCEPT ![np] = "UNUSED"] /\ UNCHANGED <<pid, nextpid, parent>>
      BY <2>2, <2>3, <2>6 DEF fork_fail
    <3>2. /\ state'[np] = "UNUSED" /\ \A q \in Procs : q # np => state'[q] = state[q]
      BY <1>0, <3>1
    <3>3. QuietTable
      BY <2>4, <3>1, <3>2 DEF QuietTable, LiveStates
    <3>4. PidsKept
      BY <3>1, <3>2 DEF PidsKept
    <3> QED
      BY <3>3, <3>4 DEF TableStep
  <2>7. CASE allocproc_kstack(c)
    BY <2>7, SameTable DEF allocproc_kstack
  <2>8. CASE fork_copy(c)
    <3>1. parent' = [parent EXCEPT ![np] = p] /\ UNCHANGED <<state, pid, nextpid>>
      BY <2>2, <2>3, <2>8 DEF fork_copy
    <3>2. \A q \in Procs : q # np => parent'[q] = parent[q]
      BY <1>0, <3>1
    <3>3. ~Held(np)
      BY <2>4 DEF Held, HeldStates, LiveStates
    <3>4. QuietTable /\ PidsKept
      BY <3>1, <3>2, <3>3 DEF QuietTable, PidsKept
    <3> QED
      BY <3>4 DEF TableStep
  <2>9. CASE fork_run(c)
    <3>1. /\ state' = [state EXCEPT ![np] = "RUNNABLE"] /\ UNCHANGED <<pid, nextpid, parent>>
          /\ pc[p] = "fork_run"
      BY <2>2, <2>3, <2>9 DEF fork_run, At
    <3>2. ForkTable(p, np)
      BY <2>4, <2>5, <3>1 DEF ForkTable, LiveStates
    <3> QED
      BY <3>2 DEF TableStep
  <2> QED
    BY <1>2, <2>6, <2>7, <2>8, <2>9 DEF ForkStep
<1> QED
  BY <1>1, <1>2

LEMMA ExitTables ==
  ASSUME IInv, NEW c \in CPUs, ExitStep(c)
  PROVE  TableStep
<1>0. state \in [Procs -> States]
  BY DEF IInv, TypeOK, ProcTypes
<1>1. CASE exit(c) /\ ~panic("init_exiting")
  <2>1. cpu[c] # NULL /\ pc[cpu[c]] = "exit"
    BY <1>1 DEF exit, At
  <2>2. PICK p \in Procs : p = cpu[c] /\ state[p] = "RUNNING"
    BY <2>1, Running DEF SchedPCs
  <2>3. /\ p # initproc /\ parent' = adopt(p) /\ UNCHANGED <<pid, nextpid>>
        /\ state' = [wake_init(wakeup1(state, parent[p]), p) EXCEPT ![p] = "ZOMBIE"]
    BY <1>1, <2>2 DEF exit
  <2>4. state'[p] = "ZOMBIE"
    BY <2>3 DEF wake_init, wakeup1
  <2>5. \A q \in Procs : q # p => state'[q] = state[q] \/ (state[q] = "SLEEPING" /\ state'[q] = "RUNNABLE")
    BY <2>3 DEF wake_init, wakeup1
  <2>6. \A q \in Procs \ {p} : /\ state'[q] \in LiveStates <=> state[q] \in LiveStates
                               /\ state'[q] = "ZOMBIE" <=> state[q] = "ZOMBIE"
    BY <2>5 DEF LiveStates
  <2>7. PidsKept
    BY <2>2, <2>3, <2>5 DEF PidsKept
  <2>8. ExitTable(p)
    BY <2>2, <2>3, <2>4, <2>6, <2>7 DEF ExitTable, LiveStates
  <2> QED
    BY <2>8 DEF TableStep
<1>2. CASE wait(c)
  <2>1. cpu[c] # NULL /\ pc[cpu[c]] \notin SchedPCs
    BY <1>2 DEF wait, At, SchedPCs
  <2>2. PICK p \in Procs : p = cpu[c] /\ state[p] = "RUNNING"
    BY <2>1, Running
  <2>3. \/ \E q \in Procs : /\ state[q] = "ZOMBIE" /\ parent[q] = p
                            /\ state' = [state EXCEPT ![q] = "UNUSED"]
                            /\ pid' = [pid EXCEPT ![q] = 0]
                            /\ parent' = [parent EXCEPT ![q] = NULL]
                            /\ UNCHANGED nextpid
        \/ UNCHANGED <<state, pid, nextpid, parent>>
        \/ state' = [state EXCEPT ![cpu[c]] = "SLEEPING"] /\ UNCHANGED <<pid, nextpid, parent>>
    BY <1>2, <2>2 DEF wait, children
  <2>4. ASSUME NEW q \in Procs, state[q] = "ZOMBIE", parent[q] = p,
               state' = [state EXCEPT ![q] = "UNUSED"], pid' = [pid EXCEPT ![q] = 0],
               parent' = [parent EXCEPT ![q] = NULL], UNCHANGED nextpid
        PROVE  TableStep
    BY <2>2, <2>4 DEF TableStep, WaitTable, LiveStates
  <2>5. "SLEEPING" \in LiveStates
    BY DEF LiveStates
  <2> QED
    BY <2>1, <2>3, <2>4, <2>5, SameTable, OwnMove
<1>3. CASE sys_kill(c)
  BY <1>3, KilledMove DEF sys_kill
<1>4. CASE exec(c) \/ panic("init_exiting")
  BY <1>4, SameTable DEF exec, panic, procVars
<1> QED
  BY <1>1, <1>2, <1>3, <1>4 DEF ExitStep

LEMMA TableSteps ==
  ASSUME IInv, Next
  PROVE  TableStep
<1>0. state \in [Procs -> States] /\ \A t \in {"SLEEPING", "RUNNABLE", "RUNNING"} : t \in LiveStates
  BY DEF IInv, TypeOK, ProcTypes, LiveStates
<1>1. ASSUME NEW c \in CPUs, NEW q \in Procs, scheduler(c, q) PROVE TableStep
  <2>1. /\ state[q] = "RUNNABLE" /\ state' = [state EXCEPT ![q] = "RUNNING"]
        /\ UNCHANGED <<pid, nextpid, parent>>
    BY <1>1 DEF scheduler
  <2>2. \A r \in Procs : state'[r] = IF r = q THEN "RUNNING" ELSE state[r]
    BY <1>0, <2>1
  <2> QED
    BY <1>0, <2>1, <2>2, LivingMove
<1>2. ASSUME NEW c \in CPUs, SchedStep(c) PROVE TableStep
  <2>1. CASE yield(c)
    <3>1. /\ cpu[c] # NULL /\ pc[cpu[c]] \notin SchedPCs /\ UNCHANGED <<pid, nextpid, parent>>
          /\ state' = [state EXCEPT ![cpu[c]] = "RUNNABLE"]
      BY <2>1 DEF yield, At, SchedPCs
    <3> QED
      BY <1>0, <3>1, OwnMove
  <2>2. CASE ~yield(c)
    BY <1>2, <2>2, SameTable DEF SchedStep, yield_ret, sched, forkret, panic, procVars
  <2> QED
    BY <2>1, <2>2
<1>4. ASSUME NEW c \in CPUs, SleepStep(c) PROVE TableStep
  <2>1. CASE sleep(c)
    <3>1. /\ cpu[c] # NULL /\ pc[cpu[c]] \notin SchedPCs /\ UNCHANGED <<pid, nextpid, parent>>
          /\ state' = [state EXCEPT ![cpu[c]] = "SLEEPING"]
      BY <2>1 DEF sleep, At, SchedPCs
    <3> QED
      BY <1>0, <3>1, OwnMove
  <2>2. CASE ~sleep(c)
    BY <1>4, <2>2, SameTable DEF SleepStep, sys_sleep, sleep_loop, sleep_sig, sleep_wake,
      sleep_reacquire, sleep_end, panic, procVars
  <2> QED
    BY <2>1, <2>2
<1>5. ASSUME NEW c \in CPUs, PsigStep(c) PROVE TableStep
  <2>1. CASE term(c)
    BY <2>1, KilledMove DEF term
  <2>2. CASE psig_stop(c)
    <3>1. /\ cpu[c] # NULL /\ pc[cpu[c]] \notin SchedPCs /\ UNCHANGED <<pid, nextpid, parent>>
          /\ UNCHANGED state \/ state' = [state EXCEPT ![cpu[c]] = "SLEEPING"]
      BY <2>2 DEF psig_stop, stop, At, SchedPCs
    <3> QED
      BY <1>0, <3>1, OwnMove, SameTable
  <2>3. CASE ~term(c) /\ ~psig_stop(c)
    BY <1>5, <2>3, SameTable DEF PsigStep, psig, psig_term, psig_core, psig_core_ret,
      psig_stop_ret, psig_user, jmptohandler, procVars
  <2> QED
    BY <2>1, <2>2, <2>3
<1>6. ASSUME NEW c \in CPUs, KillStep(c) PROVE TableStep
  <2>1. CASE Kill_kill(c)
    BY <2>1, KilledMove DEF Kill_kill
  <2>2. CASE Kill_post(c)
    <3>1. /\ UNCHANGED <<pid, nextpid, parent>>
          /\ \/ UNCHANGED state
             \/ \E q : state' = [state EXCEPT ![q] = IF @ = "SLEEPING" THEN "RUNNABLE" ELSE @]
      BY <2>2 DEF Kill_post
    <3>2. \A q \in Procs : state'[q] = state[q] \/ (state[q] = "SLEEPING" /\ state'[q] = "RUNNABLE")
      BY <1>0, <3>1
    <3> QED
      BY <1>0, <3>1, <3>2, LivingMove
  <2>3. CASE ~Kill_kill(c) /\ ~Kill_post(c)
    BY <1>6, <2>3, SameTable DEF KillStep, Kill, Kill_scan, signal, sys_sigmask, procVars
  <2> QED
    BY <2>1, <2>2, <2>3
<1>7. ASSUME NEW c \in CPUs, TrapStep(c) PROVE TableStep
  <2>1. CASE trap_tick(c) /\ ~panic("acquire")
    BY <2>1, WakeMove DEF trap_tick, ticktock
  <2>2. CASE ~trap_tick(c) \/ panic("acquire")
    BY <1>7, <2>2, SameTable DEF TrapStep, trap_sysret, trap_killcheck, trap_intr_killed,
      trap_intr_sig, trap_intr_ret, panic, procVars
  <2> QED
    BY <2>1, <2>2
<1>8. ASSUME NEW c \in CPUs, UserStep(c) \/ \E dev \in {"intr_timer", "intr_device"} : trap_intr(c, dev)
      PROVE  TableStep
  BY <1>8, SameTable DEF UserStep, trap_syscall, sigreturn, trap_fault, trap_overrun, fault,
    trap_intr, procVars
<1>9. CASE idle_tick
  BY <1>9, WakeMove DEF idle_tick, ticktock
<1>10. CASE Frozen
  BY <1>10, SameTable DEF Frozen, vars, procVars
<1> QED
  BY <1>1, <1>2, <1>4, <1>5, <1>6, <1>7, <1>8, <1>9, <1>10, ForkTables, ExitTables DEF Next, KernelStep

-----------------------------------------------------------------------------
(* Who comes to allocproc(): no step but a system call takes a thread there, *)
(* and an interrupt or a signal on the way to it leaves it so.               *)
NoForker(p) == Base(p)' = "fork" => Base(p) = "fork"

LEMMA SameBase ==
  ASSUME NEW p \in Procs, pc'[p] = pc[p], stk'[p] = stk[p]
  PROVE  NoForker(p)
BY DEF NoForker, Base, BaseOf

(* The thread of p moves to the point m, with the callers it has, or none. *)
LEMMA MoveBase ==
  ASSUME NEW p \in Procs, NEW m, m # "fork", pc' = [pc EXCEPT ![p] = m], pc \in [Procs -> PCs],
         \/ stk' = stk
         \/ stk \in [Procs -> Seq(Caller)] /\ stk' = [stk EXCEPT ![p] = <<>>]
  PROVE  \A q \in Procs : NoForker(q)
<1>1. pc'[p] = m /\ \A q \in Procs : q # p => pc'[q] = pc[q] /\ stk'[q] = stk[q]
  OBVIOUS
<1>2. stk'[p] = stk[p] \/ stk'[p] = <<>>
  OBVIOUS
<1>3. NoForker(p)
  BY <1>1, <1>2 DEF NoForker, Base, BaseOf
<1> QED
  BY <1>1, <1>3, SameBase

(* A call, or an interrupt. *)
LEMMA PushBase ==
  ASSUME IInv, NEW p \in Procs, NEW m \in CalledPCs, NEW l, NEW i,
         l = pc[p] \/ (l # "fork" /\ stk[p] = <<>>) \/ (l # "fork" /\ l \in CalledPCs /\ pc[p] \in CalledPCs),
         l \notin LockedPCs, pc[p] \notin LockedPCs,
         pc' = [pc EXCEPT ![p] = m], stk' = [stk EXCEPT ![p] = <<<<l, i>>>> \o @]
  PROVE  \A q \in Procs : NoForker(q)
<1>1. /\ pc \in [Procs -> PCs] /\ stk \in [Procs -> Seq(Caller)] /\ StackOK(pc[p], stk[p])
      /\ stk[p] \in Seq(Caller)
  BY DEF IInv, TypeOK, PcTypes, ThreadTypes, Coherent, ThreadInv
<1>2. /\ pc'[p] = m /\ stk'[p] = <<<<l, i>>>> \o stk[p]
      /\ \A q \in Procs : q # p => pc'[q] = pc[q] /\ stk'[q] = stk[q]
  BY <1>1
<1>3. Base(p)' = BaseOf(m, <<<<l, i>>>> \o stk[p])
  BY <1>2 DEF Base
<1>4. CASE stk[p] # <<>>
  <2>1. BaseOf(l, stk[p]) = Base(p) /\ BaseOf(pc[p], stk[p]) = Base(p)
    BY <1>4 DEF Base, BaseOf
  <2>2. pc[p] \in CalledPCs
    BY <1>1, <1>4 DEF StackOK
  <2>3. StackOK(l, stk[p])
    BY <1>1, <1>4, <2>2 DEF StackOK
  <2>4. BaseOf(m, <<<<l, i>>>> \o stk[p]) = BaseOf(l, stk[p])
    BY <1>1, <2>3, PushOK
  <2> QED
    BY <1>2, <1>3, <2>1, <2>4, SameBase DEF NoForker
<1>5. CASE stk[p] = <<>>
  <2>1. BaseOf(m, <<<<l, i>>>> \o stk[p]) = l
    BY <1>5, SMTT(60) DEF BaseOf
  <2>2. pc[p] = Base(p) /\ pc[p] \notin CalledPCs
    BY <1>1, <1>5 DEF Base, BaseOf, StackOK
  <2> QED
    BY <1>2, <1>3, <2>1, <2>2, SameBase DEF NoForker
<1> QED
  BY <1>4, <1>5

(* A return. *)
LEMMA PopBase ==
  ASSUME IInv, NEW c \in CPUs, cpu[c] # NULL, pc[cpu[c]] \in CalledPCs, Return(c)
  PROVE  \A q \in Procs : NoForker(q)
<1>1. PICK p \in Procs : p = cpu[c]
  BY MyProc DEF IInv
<1>2. /\ pc \in [Procs -> PCs] /\ stk \in [Procs -> Seq(Caller)] /\ StackOK(pc[p], stk[p])
      /\ stk[p] \in Seq(Caller)
  BY DEF IInv, TypeOK, PcTypes, ThreadTypes, Coherent, ThreadInv
<1>3. /\ pc'[p] = Head(stk[p])[1] /\ stk'[p] = Tail(stk[p])
      /\ \A q \in Procs : q # p => pc'[q] = pc[q] /\ stk'[q] = stk[q]
  BY <1>1, <1>2 DEF Return
<1>4. BaseOf(Head(stk[p])[1], Tail(stk[p])) = BaseOf(pc[p], stk[p])
  BY <1>1, <1>2, PopOK
<1>5. Base(p)' = Base(p)
  BY <1>3, <1>4 DEF Base
<1> QED
  BY <1>3, <1>5, SameBase DEF NoForker

LEMMA ForkerSteps ==
  ASSUME IInv, Next
  PROVE  (\A q \in Procs : NoForker(q)) \/ (nextpid <= MaxPid /\ nextpid' = nextpid)
<1> DEFINE None == \A q \in Procs : NoForker(q)
<1>0. /\ pc \in [Procs -> PCs] /\ stk \in [Procs -> Seq(Caller)]
      /\ \A c \in CPUs : cpu[c] # NULL => cpu[c] \in Procs
  BY MyProc DEF IInv, TypeOK, PcTypes, ThreadTypes
<1>a. ASSUME UNCHANGED <<pc, stk>> PROVE None
  BY <1>a, SameBase
<1>b. ASSUME NEW c \in CPUs, cpu[c] # NULL, NEW m, m # "fork", Goto(c, m),
             stk' = stk \/ stk' = [stk EXCEPT ![cpu[c]] = <<>>]
      PROVE  None
  BY <1>0, <1>b, MoveBase DEF Goto
<1>c. ASSUME NEW c \in CPUs, cpu[c] # NULL, pc[cpu[c]] \in {"sysret", "sleep_sig", "sleep_over", "intr_sig"},
             NEW l \in {"killcheck", "sleep_sleep", "sleep_end", "intr_ret"}, CallPsig(c, l),
             pc[cpu[c]] = "intr_sig" <=> l = "intr_ret"
      PROVE  None
  <2>1. PICK p \in Procs : p = cpu[c]
    BY <1>0, <1>c
  <2>2. pc' = [pc EXCEPT ![p] = "psig"] /\ stk' = [stk EXCEPT ![p] = <<<<l, isig[p]>>>> \o @]
    BY <1>c, <2>1 DEF CallPsig, Goto
  <2>3. /\ "psig" \in CalledPCs /\ l # "fork" /\ l \notin LockedPCs /\ pc[p] \notin LockedPCs
        /\ pc[p] \in CalledPCs <=> pc[p] = "intr_sig"
        /\ pc[p] = "intr_sig" => l \in CalledPCs
    BY <1>c, <2>1 DEF CalledPCs, LockedPCs, SchedPCs, WakePCs
  <2>4. pc[p] \notin CalledPCs => stk[p] = <<>>
    BY DEF IInv, Coherent, ThreadInv, StackOK
  <2> QED
    BY <2>2, <2>3, <2>4, PushBase
<1>d. ASSUME NEW msg, panic(msg) PROVE None
  BY <1>a, <1>d DEF panic, thrVars
<1>1. ASSUME NEW c \in CPUs, SchedStep(c) \/ \E q \in Procs : scheduler(c, q) PROVE None
  <2>0. \A r \in AfterSched : r[2] # "fork"
    BY SMTT(60) DEF AfterSched
  <2>1. CASE SchedStep(c) /\ ~panic("sched_locks")
    <3>1. cpu[c] # NULL /\ stk' = stk /\ \E m : m # "fork" /\ Goto(c, m)
      BY <2>0, <2>1 DEF SchedStep, sched, yield, yield_ret, forkret, At, thrVars
    <3> QED
      BY <1>b, <3>1
  <2>2. CASE \E q \in Procs : scheduler(c, q)
    BY <1>a, <2>2 DEF scheduler, thrVars
  <2> QED
    BY <1>1, <1>d, <2>1, <2>2
<1>2. ASSUME NEW c \in CPUs, ForkStep(c) PROVE None
  <2>1. CASE allocproc_kstack(c)
    <3>1. stk' = stk /\ \A q \in Procs : pc'[q] = pc[q] \/ pc'[q] \in {"forkret", "fork_copy"}
      BY <1>0, <2>1 DEF allocproc_kstack, thrVars
    <3> QED
      BY <3>1 DEF NoForker, Base, BaseOf
  <2>2. CASE ~allocproc_kstack(c)
    <3>1. /\ cpu[c] # NULL /\ stk' = stk
          /\ \E m \in {"fork_kstack", "sysret", "fork_run"} : Goto(c, m)
      BY <1>2, <2>2 DEF ForkStep, allocproc, fork_fail, fork_copy, fork_run, At, thrVars
    <3> QED
      BY <1>b, <3>1
  <2> QED
    BY <2>1, <2>2
<1>3. ASSUME NEW c \in CPUs, ExitStep(c) PROVE None
  <2>1. CASE ~panic("init_exiting")
    <3>1. /\ cpu[c] # NULL
          /\ stk' = stk \/ stk' = [stk EXCEPT ![cpu[c]] = <<>>]
          /\ \E m \in {"exit_sched", "sysret", "wait_sched"} : Goto(c, m)
      BY <1>3, <2>1 DEF ExitStep, exit, wait, sys_kill, exec, At, thrVars
    <3> QED
      BY <1>b, <3>1
  <2> QED
    BY <1>d, <2>1
<1>4. ASSUME NEW c \in CPUs, SleepStep(c) PROVE None
  <2>1. CASE sleep_sig(c)
    <3>1. /\ cpu[c] # NULL /\ pc[cpu[c]] \in {"sleep_sig", "sleep_over"}
          /\ \E l \in {"sleep_sleep", "sleep_end"} : CallPsig(c, l) \/ (Goto(c, l) /\ stk' = stk)
      BY <2>1 DEF sleep_sig, At
    <3> QED
      BY <1>b, <1>c, <3>1
  <2>2. CASE ~sleep_sig(c) /\ ~panic("acquire")
    <3>1. /\ cpu[c] # NULL /\ stk' = stk
          /\ \E m \in {"sleep_loop", "sleep_sig", "sysret", "sleep_over", "sleep_sched",
                       "sleep_reacquire"} : Goto(c, m)
      BY <1>4, <2>2 DEF SleepStep, sys_sleep, sleep_loop, sleep, sleep_wake, sleep_reacquire,
        sleep_end, At, thrVars
    <3> QED
      BY <1>b, <3>1
  <2> QED
    BY <1>d, <2>1, <2>2
<1>5. ASSUME NEW c \in CPUs, PsigStep(c) PROVE None
  <2>1. CASE psig_user(c) /\ Return(c)
    BY <2>1, PopBase DEF psig_user, At, CalledPCs
  <2>2. CASE ~(psig_user(c) /\ Return(c))
    <3>1. /\ cpu[c] # NULL
          /\ stk' = stk \/ stk' = [stk EXCEPT ![cpu[c]] = <<>>]
          /\ \E m \in {"term", "psig_core", "term_ret", "core_ret", "core", "psig_stop", "psig_user",
                       "stop_sched", "jmptohandler", "user"} : Goto(c, m)
      <4>1. CASE psig(c) \/ term(c) \/ psig_term(c)
        BY <4>1 DEF psig, term, psig_term, At, thrVars
      <4>2. CASE psig_core(c) \/ psig_core_ret(c) \/ psig_stop_ret(c)
        BY <4>2 DEF psig_core, psig_core_ret, psig_stop_ret, At
      <4>3. CASE psig_stop(c)
        BY <4>3 DEF psig_stop, stop, At
      <4>4. CASE psig_user(c) \/ jmptohandler(c)
        BY <2>2, <4>4 DEF psig_user, jmptohandler, At
      <4> QED
        BY <1>5, <4>1, <4>2, <4>3, <4>4 DEF PsigStep
    <3> QED
      BY <1>b, <3>1
  <2> QED
    BY <2>1, <2>2
<1>6. ASSUME NEW c \in CPUs, KillStep(c) PROVE None
  <2>1. /\ cpu[c] # NULL /\ stk' = stk
        /\ \E m \in {"Kill_scan", "Kill_post", "Kill_kill", "sysret"} : Goto(c, m)
    <3>1. CASE Kill(c) \/ Kill_scan(c) \/ Kill_post(c) \/ Kill_kill(c)
      BY <3>1 DEF Kill, Kill_scan, Kill_post, Kill_kill, Kill_next, At, thrVars
    <3>2. CASE signal(c) \/ sys_sigmask(c)
      BY <3>2 DEF signal, sys_sigmask, At, thrVars
    <3> QED
      BY <1>6, <3>1, <3>2 DEF KillStep
  <2> QED
    BY <1>b, <2>1
<1>7. ASSUME NEW c \in CPUs, TrapStep(c) PROVE None
  <2>1. CASE trap_intr_ret(c)
    BY <2>1, PopBase DEF trap_intr_ret, At, CalledPCs
  <2>2. CASE trap_sysret(c)
    BY <1>b, <1>c, <2>2 DEF trap_sysret, At
  <2>3. CASE trap_intr_sig(c)
    BY <1>b, <1>c, <2>3 DEF trap_intr_sig, At
  <2>4. CASE trap_killcheck(c) \/ (trap_tick(c) /\ ~panic("acquire"))
    <3>1. /\ cpu[c] # NULL /\ stk' = stk /\ \E m \in {"exit", "user", "intr_timer"} : Goto(c, m)
      BY <2>4 DEF trap_killcheck, trap_tick, At, thrVars
    <3> QED
      BY <1>b, <3>1
  <2>5. CASE trap_intr_killed(c)
    <3>0. \A r \in AfterKilled : r[2] # "fork"
      BY SMTT(60) DEF AfterKilled
    <3>1. /\ cpu[c] # NULL
          /\ stk' = stk \/ stk' = [stk EXCEPT ![cpu[c]] = <<>>]
          /\ \E m : m # "fork" /\ Goto(c, m)
      BY <2>5, <3>0 DEF trap_intr_killed, At
    <3> QED
      BY <1>b, <3>1
  <2> QED
    BY <1>7, <1>d, <2>1, <2>2, <2>3, <2>4, <2>5 DEF TrapStep
<1>8. ASSUME NEW c \in CPUs, UserStep(c) PROVE None \/ (nextpid <= MaxPid /\ nextpid' = nextpid)
  <2>1. CASE \E op \in SysCalls : trap_syscall(c, op)
    <3>1. /\ cpu[c] # NULL /\ stk' = stk /\ nextpid' = nextpid
          /\ nextpid <= MaxPid \/ \E m : m # "fork" /\ Goto(c, m)
      BY <2>1 DEF trap_syscall, At, thrVars, procVars
    <3> QED
      BY <1>b, <3>1
  <2>2. CASE sigreturn(c)
    <3>1. cpu[c] # NULL /\ stk' = stk /\ (pc' = pc \/ Goto(c, "exit"))
      BY <2>2 DEF sigreturn, At, thrVars
    <3> QED
      BY <1>a, <1>b, <3>1
  <2>3. CASE trap_fault(c) \/ trap_overrun(c)
    <3>1. PICK p \in Procs : /\ p = cpu[c] /\ pc' = [pc EXCEPT ![p] = "intr_device"]
                             /\ stk' = [stk EXCEPT ![p] = <<<<"user", 0>>>>]
      BY <1>0, <2>3 DEF trap_fault, trap_overrun, fault, At, Goto
    <3>2. \A q \in Procs : q # p => pc'[q] = pc[q] /\ stk'[q] = stk[q]
      BY <1>0, <3>1
    <3>3. Base(p)' = BaseOf("intr_device", <<<<"user", 0>>>>)
      BY <1>0, <3>1 DEF Base
    <3>4. BaseOf("intr_device", <<<<"user", 0>>>>) = "user"
      BY SMTT(60) DEF BaseOf
    <3> QED
      BY <3>2, <3>3, <3>4, SameBase DEF NoForker
  <2> QED
    BY <1>8, <2>1, <2>2, <2>3 DEF UserStep
<1>9. ASSUME NEW c \in CPUs, NEW dev \in {"intr_timer", "intr_device"}, trap_intr(c, dev) PROVE None
  <2>. DEFINE m == IF dev = "intr_timer" /\ c = 0 THEN "tick" ELSE dev
  <2>1. cpu[c] # NULL /\ (pc[cpu[c]] = "user" \/ ptlock # c)
    BY <1>9 DEF trap_intr, Interrupt
  <2>2. PICK p \in Procs : p = cpu[c] /\ pc[p] \notin LockedPCs
    BY <2>1, Running DEF LockedPCs, SchedPCs, WakePCs
  <2>3. pc' = [pc EXCEPT ![p] = m] /\ stk' = [stk EXCEPT ![p] = <<<<pc[p], isig[p]>>>> \o @]
    BY <1>9, <2>2 DEF trap_intr, Interrupt, Goto
  <2>4. m \in CalledPCs
    BY DEF CalledPCs
  <2>. HIDE DEF m
  <2> QED
    BY <2>2, <2>3, <2>4, PushBase
<1>10. CASE idle_tick \/ Frozen
  BY <1>10, <1>a DEF idle_tick, Frozen, vars, thrVars
<1> QED
  BY <1>1, <1>2, <1>3, <1>4, <1>5, <1>6, <1>7, <1>8, <1>9, <1>10 DEF Next, KernelStep

(* nextpid moves only when a process at its fork() has called allocproc(). *)
LEMMA NextPid ==
  ASSUME IInv, Next
  PROVE  \/ nextpid' = nextpid
         \/ nextpid' = nextpid + 1 /\ \E p \in Procs : Base(p) = "fork" /\ Base(p)' # "fork"
<1>1. ASSUME NEW c \in CPUs, allocproc(c)
      PROVE  \/ nextpid' = nextpid
             \/ nextpid' = nextpid + 1 /\ \E p \in Procs : Base(p) = "fork" /\ Base(p)' # "fork"
  <2>1. cpu[c] # NULL /\ pc[cpu[c]] = "fork"
    BY <1>1 DEF allocproc, At
  <2>2. PICK p \in Procs : p = cpu[c]
    BY <2>1, MyProc DEF IInv
  <2>3. StackOK(pc[p], stk[p]) /\ pc \in [Procs -> PCs]
    BY DEF IInv, TypeOK, PcTypes, Coherent, ThreadInv
  <2>4. stk[p] = <<>>
    BY <2>1, <2>2, <2>3 DEF StackOK, CalledPCs
  <2>5. /\ stk' = stk
        /\ \/ nextpid' = nextpid
           \/ nextpid' = nextpid + 1 /\ pc' = [pc EXCEPT ![p] = "fork_kstack"]
    BY <1>1, <2>2 DEF allocproc, Goto, thrVars, procVars
  <2>6. ASSUME pc' = [pc EXCEPT ![p] = "fork_kstack"] PROVE Base(p) = "fork" /\ Base(p)' # "fork"
    BY <2>1, <2>2, <2>3, <2>4, <2>5, <2>6 DEF Base, BaseOf
  <2> QED
    BY <2>5, <2>6
<1>2. ASSUME ~(\E c \in CPUs : allocproc(c)) PROVE nextpid' = nextpid
  <2>1. ASSUME NEW c \in CPUs, SchedStep(c) \/ ForkStep(c) \/ ExitStep(c) PROVE nextpid' = nextpid
    BY <1>2, <2>1 DEF SchedStep, yield, yield_ret, sched, forkret, ForkStep, fork_fail,
      allocproc_kstack, fork_copy, fork_run, ExitStep, exit, wait, sys_kill, exec, panic, procVars
  <2>2. ASSUME NEW c \in CPUs, SleepStep(c) \/ PsigStep(c) PROVE nextpid' = nextpid
    BY <2>2 DEF SleepStep, sys_sleep, sleep_loop, sleep_sig, sleep, sleep_wake, sleep_reacquire,
      sleep_end, PsigStep, psig, term, psig_term, psig_core, psig_core_ret, psig_stop,
      psig_stop_ret, psig_user, jmptohandler, panic, procVars
  <2>3. ASSUME NEW c \in CPUs, KillStep(c) \/ TrapStep(c) PROVE nextpid' = nextpid
    BY <2>3 DEF KillStep, Kill, Kill_scan, Kill_post, Kill_kill, signal, sys_sigmask, TrapStep,
      trap_sysret, trap_killcheck, trap_tick, trap_intr_killed, trap_intr_sig, trap_intr_ret,
      panic, procVars
  <2>4. ASSUME NEW c \in CPUs,
               \/ UserStep(c) \/ \E q \in Procs : scheduler(c, q)
               \/ \E dev \in {"intr_timer", "intr_device"} : trap_intr(c, dev)
        PROVE  nextpid' = nextpid
    BY <2>4 DEF UserStep, trap_syscall, sigreturn, trap_fault, trap_overrun, fault, trap_intr,
      scheduler, procVars
  <2>5. CASE idle_tick \/ Frozen
    BY <2>5 DEF idle_tick, Frozen, vars, procVars
  <2> QED
    BY <2>1, <2>2, <2>3, <2>4, <2>5 DEF Next, KernelStep
<1> QED
  BY <1>1, <1>2

LEMMA PidsBounded ==
  ASSUME IInv, IInv', LifeInv, Next
  PROVE  nextpid' + Cardinality(Forkers') <= MaxPid + NPROC + 1
<1>0. /\ nextpid \in Nat /\ nextpid' \in Nat
      /\ nextpid + Cardinality(Forkers) <= MaxPid + NPROC + 1
  BY DEF IInv, TypeOK, ProcTypes, LifeInv
<1>1. /\ Forkers \subseteq Procs /\ Forkers' \subseteq Procs
  BY DEF Forkers
<1>2. /\ IsFiniteSet(Forkers) /\ IsFiniteSet(Forkers')
      /\ Cardinality(Forkers) \in Nat /\ Cardinality(Forkers') \in Nat
      /\ Cardinality(Forkers') <= NPROC
  BY <1>1, ProcsFinite, FS_Subset, FS_CardinalityType
<1>3. CASE nextpid <= MaxPid /\ nextpid' = nextpid
  BY <1>0, <1>2, <1>3, ProcAssumption, SMTT(60)
<1>4. CASE \A q \in Procs : NoForker(q)
  <2>1. Forkers' \subseteq Forkers
    BY <1>4 DEF Forkers, NoForker
  <2>2. CASE nextpid' = nextpid
    <3>1. Cardinality(Forkers') <= Cardinality(Forkers)
      BY <1>2, <2>1, FS_Subset
    <3> QED
      BY <1>0, <1>2, <2>2, <3>1, ProcAssumption, SMTT(60)
  <2>3. ASSUME nextpid' = nextpid + 1, NEW p \in Procs, Base(p) = "fork", Base(p)' # "fork"
        PROVE  nextpid' + Cardinality(Forkers') <= MaxPid + NPROC + 1
    <3>1. p \in Forkers /\ Forkers' \subseteq Forkers \ {p}
      BY <2>1, <2>3 DEF Forkers
    <3>2. IsFiniteSet(Forkers \ {p}) /\ Cardinality(Forkers \ {p}) = Cardinality(Forkers) - 1
      BY <1>2, <3>1, FS_RemoveElement
    <3>3. Cardinality(Forkers') <= Cardinality(Forkers \ {p})
      BY <3>1, <3>2, FS_Subset
    <3> QED
      BY <1>0, <1>2, <2>3, <3>2, <3>3, ProcAssumption, SMTT(60)
  <2> QED
    BY <2>2, <2>3, NextPid
<1> QED
  BY <1>3, <1>4, ForkerSteps

-----------------------------------------------------------------------------
LEMMA AllocQuiet ==
  ASSUME state \in [Procs -> States], pid \in [Procs -> Nat], NEW np \in Procs, AllocTable(np)
  PROVE  QuietTable
<1>1. /\ state[np] = "UNUSED" /\ state'[np] = "EMBRYO" /\ parent' = parent
      /\ \A q \in Procs : q # np => state'[q] = state[q] /\ pid'[q] = pid[q]
  BY DEF AllocTable
<1>2. ~Held(np) /\ state[np] \notin LiveStates /\ state'[np] \notin LiveStates
  BY <1>1 DEF Held, HeldStates, LiveStates
<1> QED
  BY <1>1, <1>2 DEF QuietTable

LEMMA InitLife == Init => LifeInv
<1> SUFFICES ASSUME Init PROVE LifeInv
  OBVIOUS
<1>1. UniquePids /\ pid[initproc] = 1 /\ \A p \in Procs : state[p] # "UNUSED" => pid[p] # 0
  BY CpuIds, SMTT(60) DEF Init, UniquePids
<1>2. Forkers = {}
  BY DEF Init, Forkers, Base, BaseOf
<1>3. nextpid = 2 /\ Cardinality({}) = 0
  BY FS_EmptySet DEF Init
<1>4. nextpid + Cardinality(Forkers) <= MaxPid + NPROC + 1
  BY <1>2, <1>3, ProcAssumption, SMTT(60)
<1> QED
  BY <1>1, <1>4 DEF LifeInv

LEMMA StepLife ==
  ASSUME IInv, IInv', LifeInv, Next
  PROVE  LifeInv'
<1>1. TableStep /\ PidStep
  BY TableSteps, PidSteps
<1>2. /\ nextpid \in Nat /\ pid \in [Procs -> 0..(nextpid - 1)] /\ state \in [Procs -> States]
      /\ state[initproc] \in LiveStates /\ initproc \in Procs
  BY CpuIds DEF IInv, TypeOK, ProcTypes, Coherent, FamilyInv, Live, LiveStates
<1>3. UniquePids'
  BY <1>1, <1>2, SMTT(60) DEF PidStep, UniquePids, LifeInv
<1>4. 1 \in Nat /\ nextpid # 0 /\ pid[initproc] = 1
  BY <1>2, SMTT(60) DEF LifeInv
<1>5. pid'[initproc] = 1 /\ \A p \in Procs : state'[p] # "UNUSED" => pid'[p] # 0
  <2>1. CASE PidsKept
    BY <1>4, <2>1 DEF PidsKept, LifeInv
  <2>2. ASSUME NEW np \in Procs, AllocTable(np)
        PROVE  pid'[initproc] = 1 /\ \A p \in Procs : state'[p] # "UNUSED" => pid'[p] # 0
    <3>1. np # initproc
      BY <1>2, <2>2 DEF AllocTable, LiveStates
    <3>2. /\ pid'[np] = nextpid
          /\ \A q \in Procs : q # np => state'[q] = state[q] /\ pid'[q] = pid[q]
      BY <1>2, <2>2 DEF AllocTable
    <3> QED
      BY <1>2, <1>4, <3>1, <3>2 DEF LifeInv
  <2>3. ASSUME NEW p \in Procs, NEW np \in Procs, ForkTable(p, np)
        PROVE  pid'[initproc] = 1 /\ \A q \in Procs : state'[q] # "UNUSED" => pid'[q] # 0
    <3>1. /\ pid' = pid /\ state[np] = "EMBRYO"
          /\ \A q \in Procs : q # np => state'[q] = state[q]
      BY <1>2, <2>3 DEF ForkTable
    <3> QED
      BY <1>4, <3>1 DEF LifeInv
  <2>4. ASSUME NEW p \in Procs, NEW q \in Procs, WaitTable(p, q)
        PROVE  pid'[initproc] = 1 /\ \A r \in Procs : state'[r] # "UNUSED" => pid'[r] # 0
    <3>1. q # initproc
      BY <1>2, <2>4 DEF WaitTable, LiveStates
    <3>2. /\ state'[q] = "UNUSED"
          /\ \A r \in Procs : r # q => state'[r] = state[r] /\ pid'[r] = pid[r]
      BY <1>2, <2>4 DEF WaitTable
    <3> QED
      BY <1>2, <1>4, <3>1, <3>2 DEF LifeInv
  <2> QED
    BY <1>1, <2>1, <2>2, <2>3, <2>4 DEF TableStep, ExitTable
<1>6. nextpid' + Cardinality(Forkers') <= MaxPid + NPROC + 1
  BY PidsBounded
<1> QED
  BY <1>3, <1>5, <1>6 DEF LifeInv

LEMMA LifeStep ==
  ASSUME IInv, IInv', LifeInv, LifeInv', Next
  PROVE  Life!Next \/ UNCHANGED <<Alive, Zombie, Par>>
<1>1. TableOK(pid, state, parent) /\ 0 \notin Pids
  BY TableIsOK
<1>2. TableOK(pid', state', parent')
  <2>1. /\ nextpid' \in Nat /\ pid' \in [Procs -> 0..(nextpid' - 1)]
        /\ parent' \in [Procs -> Procs \cup {NULL}]
    BY DEF IInv, TypeOK, ProcTypes
  <2>2. Cardinality(Forkers') \in Nat
    <3>1. Forkers' \subseteq Procs
      BY DEF Forkers
    <3> QED
      BY <3>1, ProcsFinite, FS_Subset, FS_CardinalityType
  <2>3. \A p \in Procs : pid'[p] # 0 => pid'[p] \in Pids
    BY <2>1, <2>2, ProcAssumption, SMTT(60) DEF LifeInv, Pids
  <2>4. \A p \in Procs : state'[p] \in HeldStates => pid'[p] # 0
    BY DEF LifeInv, HeldStates, LiveStates
  <2>5. \A p \in Procs : state'[p] \in HeldStates /\ parent'[p] # NULL =>
          parent'[p] \in Procs /\ state'[parent'[p]] \in LiveStates
    BY <2>1 DEF IInv, Coherent, FamilyInv, FamilyTree, Live, HeldStates, LiveStates
  <2> QED
    BY <2>3, <2>4, <2>5 DEF TableOK, LifeInv, UniquePids
<1>3. /\ state \in [Procs -> States] /\ state' \in [Procs -> States]
      /\ parent \in [Procs -> Procs \cup {NULL}] /\ nextpid \in Nat
      /\ pid \in [Procs -> 0..(nextpid - 1)]
      /\ state[initproc] \in LiveStates /\ parent[initproc] = NULL /\ pid[initproc] = 1
  BY DEF IInv, TypeOK, ProcTypes, Coherent, FamilyInv, Live, LiveStates, LifeInv
<1>4. pid \in [Procs -> Nat]
  BY <1>3, SMTT(60)
<1>5. CASE QuietTable
  BY <1>1, <1>2, <1>3, <1>5, QuietLife
<1>6. ASSUME NEW p \in Procs, NEW np \in Procs, ForkTable(p, np) PROVE Life!Next
  <2>1. /\ pid[p] \in Pids /\ pid[np] \in Pids
        /\ pid[p] \in Alive /\ pid[np] \notin Alive \cup Zombie
        /\ Alive' = Alive \cup {pid[np]} /\ Zombie' = Zombie
        /\ Par' = [Par EXCEPT ![pid[np]] = pid[p]]
    BY <1>1, <1>2, <1>3, <1>6, ForkLife
  <2>2. PICK v \in Pids, w \in Pids : v = pid[p] /\ w = pid[np]
    BY <2>1
  <2>3. /\ v \in Alive /\ w \notin Alive \cup Zombie
        /\ Alive' = Alive \cup {w} /\ Zombie' = Zombie /\ ParMap' = [ParMap EXCEPT ![w] = v]
    BY <2>1, <2>2, ParIsMap
  <2>4. Life!Fork(v, w)
    BY <2>3 DEF Life!Fork, Alive, Zombie, ParMap
  <2> QED
    BY <2>4 DEF Life!Next, Pids
<1>7. ASSUME NEW p \in Procs, ExitTable(p) PROVE Life!Next
  <2>1. /\ pid[p] \in Pids /\ pid[p] \in Alive \ {1}
        /\ Alive' = Alive \ {pid[p]} /\ Zombie' = Zombie \cup {pid[p]}
        /\ Par' = [w \in Pids |-> IF Par[w] = pid[p] THEN 1 ELSE Par[w]]
    BY <1>1, <1>2, <1>3, <1>7, ExitLife
  <2>2. PICK v \in Pids : v = pid[p]
    BY <2>1
  <2>3. /\ v \in Alive \ {1} /\ Alive' = Alive \ {v} /\ Zombie' = Zombie \cup {v}
        /\ ParMap' = [w \in Pids |-> IF ParMap[w] = v THEN 1 ELSE ParMap[w]]
    BY <2>1, <2>2, ParIsMap
  <2>4. Life!Exit(v)
    BY <2>3 DEF Life!Exit, Alive, Zombie, ParMap, Pids
  <2> QED
    BY <2>4 DEF Life!Next, Pids
<1>8. ASSUME NEW p \in Procs, NEW q \in Procs, WaitTable(p, q) PROVE Life!Next
  <2>1. /\ pid[p] \in Pids /\ pid[q] \in Pids
        /\ pid[p] \in Alive /\ pid[q] \in Zombie /\ Par[pid[q]] = pid[p]
        /\ Zombie' = Zombie \ {pid[q]} /\ Alive' = Alive
        /\ Par' = [Par EXCEPT ![pid[q]] = 0]
    BY <1>1, <1>2, <1>3, <1>4, <1>8, WaitLife
  <2>2. PICK v \in Pids, w \in Pids : v = pid[p] /\ w = pid[q]
    BY <2>1
  <2>3. /\ v \in Alive /\ w \in Zombie /\ ParMap[w] = v
        /\ Zombie' = Zombie \ {w} /\ Alive' = Alive /\ ParMap' = [ParMap EXCEPT ![w] = 0]
    BY <2>1, <2>2, ParIsMap
  <2>4. Life!Wait(v, w)
    BY <2>3 DEF Life!Wait, Alive, Zombie, ParMap
  <2> QED
    BY <2>4 DEF Life!Next, Pids
<1>9. ASSUME NEW np \in Procs, AllocTable(np) PROVE QuietTable
  BY <1>3, <1>4, <1>9, AllocQuiet
<1> QED
  BY <1>5, <1>6, <1>7, <1>8, <1>9, TableSteps DEF TableStep

(* fork(), exit() and wait(), as allocproc(), the scheduler, signals and    *)
(* interrupts interleave them on any number of CPUs, implement ProcLife: a  *)
(* fork appears when its child can run, the orphans of a process pass to    *)
(* init as it dies, and a zombie is collected once, by its living parent.   *)
THEOREM LifeRefinement == Spec => ImplementsLife
<1>1. Init => Life!Init
  <2> SUFFICES ASSUME Init PROVE Life!Init
    OBVIOUS
  <2>1. \A p \in Procs : /\ state[p] = (IF p = initproc THEN "RUNNABLE" ELSE "UNUSED")
                         /\ pid[p] = (IF p = initproc THEN 1 ELSE 0)
                         /\ parent[p] = NULL
    BY DEF Init
  <2>2. Alive = {1}
    BY <2>1, CpuIds DEF Alive, Live
  <2>3. Zombie = {}
    BY <2>1 DEF Zombie
  <2>4. \A v : \A p \in Holder(v) : parent[p] = NULL
    BY <2>1 DEF Holder
  <2>5. ParMap = [v \in 1..(MaxPid + NPROC) |-> 0]
    BY <2>4 DEF ParMap
  <2> QED
    BY <2>2, <2>3, <2>5 DEF Life!Init, Alive, Zombie, ParMap
<1>2. LifeInv /\ UNCHANGED vars => LifeInv'
  BY DEF LifeInv, UniquePids, Forkers, Base, BaseOf, vars, procVars, thrVars
<1>3. IInv /\ IInv' /\ LifeInv /\ [Next]_vars => LifeInv'
  BY <1>2, StepLife
<1>4. UNCHANGED vars => UNCHANGED <<Alive, Zombie, ParMap>>
  <2> SUFFICES ASSUME UNCHANGED vars PROVE UNCHANGED <<Alive, Zombie, ParMap>>
    OBVIOUS
  <2>1. state' = state /\ pid' = pid /\ parent' = parent
    BY DEF vars, procVars
  <2>2. Alive' = Alive /\ Zombie' = Zombie
    BY <2>1 DEF Alive, Zombie, Live
  <2>3. Par' = Par
    BY <2>1 DEF Par
  <2> QED
    BY <2>2, <2>3, ParIsMap
<1>5. IInv /\ IInv' /\ LifeInv /\ LifeInv' /\ [Next]_vars => Life!Next \/ UNCHANGED <<Alive, Zombie, ParMap>>
  BY <1>4, LifeStep, ParIsMap
<1>6. IInv /\ IInv' /\ LifeInv /\ LifeInv' /\ [Next]_vars => [Life!Next]_(Life!lifeVars)
  BY <1>5 DEF Alive, Zombie, ParMap, Life!lifeVars
<1> QED
  BY <1>1, <1>3, <1>6, InitLife, Invariance, PTL DEF Spec, ImplementsLife, Life!Spec

=============================================================================
