---------------------------- MODULE KernelSteps ----------------------------
(***************************************************************************)
(* Every step of the kernel keeps Coherent: first the steps that are local  *)
(* in the sense of KernelTypes; then those that hand over a CPU, fill or    *)
(* free a slot of the table or change the family tree, scheduler(),         *)
(* sched(), fork(), exit() and wait().                                      *)
(***************************************************************************)
EXTENDS KernelTypes

(* Zenon is tried for a minute on each leaf; a leaf that needs arithmetic or many *)
(* function updates cites the SMT solver. *)
USE ZenonT(60)

(* What Coherent is about. *)
cohVars == <<state, parent, chan, killed, pc, stk, lp, tsig, cpu, ptlock>>

LEMMA SameOK ==
  ASSUME Coherent, UNCHANGED cohVars
  PROVE  Coherent'
<1>1. /\ state' = state /\ parent' = parent /\ chan' = chan /\ killed' = killed
      /\ pc' = pc /\ stk' = stk /\ lp' = lp /\ tsig' = tsig /\ cpu' = cpu /\ ptlock' = ptlock
  BY DEF cohVars
<1>2. \A p \in Procs : Base(p)' = Base(p) /\ Live(p)' = Live(p)
  BY <1>1 DEF Base, BaseOf, Live
<1>3. ThreadInv' /\ CpuInv' /\ ChanInv'
  BY <1>1 DEF Coherent, ThreadInv, CpuInv, LockHandover, ChanInv
<1>4. ForkInv' /\ KillInv'
  BY <1>1, <1>2 DEF Coherent, ForkInv, KillInv
<1>5. FamilyInv'
  BY <1>1 DEF Coherent, FamilyInv, FamilyTree, Live
<1> QED
  BY <1>3, <1>4, <1>5 DEF Coherent

LEMMA PanicOK ==
  ASSUME IInv, NEW msg, panic(msg)
  PROVE  Coherent'
BY SameOK DEF panic, cohVars, IInv, procVars, argVars, thrVars

(* kill() and wakeup1(), called by the running process p. *)
LEMMA KillWakes ==
  ASSUME TypeOK, NEW v, NEW p \in Procs, state[p] = "RUNNING", kill(v)
  PROVE  WakesOthers(p) /\ state'[p] = state[p]
<1>1. state \in [Procs -> States] /\ killed \in [Procs -> BOOLEAN]
  BY DEF TypeOK, ProcTypes
<1>2. CASE UNCHANGED <<killed, state>>
  BY <1>2 DEF WakesOthers
<1>3. CASE \E q \in Procs :
             /\ killed' = [killed EXCEPT ![q] = TRUE]
             /\ state' = [state EXCEPT ![q] = IF @ = "SLEEPING" THEN "RUNNABLE" ELSE @]
  BY <1>1, <1>3 DEF WakesOthers
<1> QED
  BY <1>2, <1>3 DEF kill

LEMMA WakeupWakes ==
  ASSUME TypeOK, NEW ch, NEW p \in Procs, state[p] = "RUNNING",
         state' = wakeup1(state, ch), UNCHANGED killed
  PROVE  WakesOthers(p) /\ state'[p] = state[p]
BY DEF WakesOthers, wakeup1

(* Kill() goes on to the next slot or returns. *)
LEMMA NextKill ==
  ASSUME IInv, NEW c \in CPUs, cpu[c] # NULL, pc[cpu[c]] \in KillPCs,
         NEW all \in BOOLEAN, Kill_next(c, all)
  PROVE  /\ \A q \in Procs \ {cpu[c]} : lp'[q] = lp[q] /\ tsig'[q] = tsig[q]
         /\ \/ Goto(c, "sysret")
            \/ Goto(c, "Kill_scan") /\ lp'[cpu[c]] \in Procs /\ tsig'[cpu[c]] \in Signals
<1> DEFINE p == cpu[c]
           more == all /\ lp[p] < NPROC
<1>1. p \in Procs /\ lp[p] \in Procs /\ tsig[p] \in Signals
  BY KillArgs, MyProc DEF IInv
<1>2. /\ lp' = [lp EXCEPT ![p] = IF more THEN @ + 1 ELSE NULL]
      /\ tsig' = [tsig EXCEPT ![p] = IF more THEN @ ELSE 0]
      /\ Goto(c, IF more THEN "Kill_scan" ELSE "sysret")
  BY DEF Kill_next
<1>3. /\ lp \in [Procs -> Procs \cup {NULL}] /\ tsig \in [Procs -> Signals \cup {0}]
  BY DEF IInv, TypeOK, ArgTypes
<1>4. CASE more
  <2>1. lp[p] + 1 \in Procs
    BY <1>1, <1>4, NextSlot
  <2>2. lp'[p] = lp[p] + 1 /\ tsig'[p] = tsig[p]
    BY <1>1, <1>2, <1>3, <1>4
  <2> QED
    BY <1>1, <1>2, <1>3, <1>4, <2>1, <2>2
<1>5. CASE ~more
  BY <1>2, <1>3, <1>5
<1> QED
  BY <1>4, <1>5

-----------------------------------------------------------------------------
(* The groups of steps of Kernel, one lemma each. *)

(* sys_sleep() and sleep(). *)
LEMMA SleepCoherent ==
  ASSUME IInv, NEW c \in CPUs, SleepStep(c), TypeOK'
  PROVE  Coherent'
<1>1. CASE sys_sleep(c) /\ panic("acquire")
  BY <1>1, PanicOK
<1>2. CASE sys_sleep(c) /\ ~panic("acquire")
  <2>0. cpu[c] # NULL /\ pc[cpu[c]] \in {"sleep"}
    BY <1>2 DEF sys_sleep, At, At
  <2>1. Quiet(c) /\ UNCHANGED <<stk, lp, tsig>>
    BY <1>2, <2>0 DEF sys_sleep, At, Quiet, WakesOthers, Ordinary, SchedPCs, procVars, argVars,
      thrVars
  <2>2. /\ pc[cpu[c]] \in {"sleep"}
        /\ \E m \in {"sleep_loop"} : Goto(c, m)
        /\ ptlock' = ptlock
    BY <1>2, <2>0 DEF sys_sleep, At
  <2>3. ptlock = c <=> pc[cpu[c]] \in LockedPCs
    BY <2>0, Running
  <2>4. ASSUME NEW m \in {"sleep_loop"}, Goto(c, m), ptlock' = ptlock
       PROVE  Coherent'
    <3>1. LocksFor(c, m)
      BY <2>2, <2>3, <2>4 DEF LocksFor, LockedPCs, SchedPCs, WakePCs
    <3>2. /\ Ordinary(m) /\ m \notin ForkPCs \cup KillPCs
          /\ m \in CalledPCs <=> pc[cpu[c]] \in CalledPCs
      BY <2>2 DEF SchedPCs, WakePCs, LockedPCs, CalledPCs, ForkPCs, KillPCs, Ordinary
    <3> QED
      BY <2>1, <2>4, <3>1, <3>2, QuietMove
  <2> QED
    BY <2>2, <2>4
<1>3. CASE sleep_loop(c)
  <2>0. cpu[c] # NULL /\ pc[cpu[c]] \in {"sleep_loop"}
    BY <1>3 DEF sleep_loop, At
  <2>1. Quiet(c) /\ UNCHANGED <<stk, lp, tsig>>
    BY <1>3, <2>0 DEF sleep_loop, Quiet, WakesOthers, Ordinary, SchedPCs, procVars, argVars,
      thrVars
  <2>2. /\ pc[cpu[c]] \in {"sleep_loop"}
        /\ \E m \in {"sleep_sig", "sysret", "sleep_over"} : Goto(c, m)
        /\ ptlock' = ptlock
    BY <1>3, <2>0 DEF sleep_loop
  <2>3. ptlock = c <=> pc[cpu[c]] \in LockedPCs
    BY <2>0, Running
  <2>4. ASSUME NEW m \in {"sleep_sig", "sysret", "sleep_over"}, Goto(c, m), ptlock' = ptlock
       PROVE  Coherent'
    <3>1. LocksFor(c, m)
      BY <2>2, <2>3, <2>4 DEF LocksFor, LockedPCs, SchedPCs, WakePCs
    <3>2. /\ Ordinary(m) /\ m \notin ForkPCs \cup KillPCs
          /\ m \in CalledPCs <=> pc[cpu[c]] \in CalledPCs
      BY <2>2 DEF SchedPCs, WakePCs, LockedPCs, CalledPCs, ForkPCs, KillPCs, Ordinary
    <3> QED
      BY <2>1, <2>4, <3>1, <3>2, QuietMove
  <2> QED
    BY <2>2, <2>4
<1>4. CASE sleep_sig(c) /\ At(c, "sleep_sig")
  <2>1. /\ Quiet(c) /\ UNCHANGED <<lp, tsig, ptlock>>
        /\ pc[cpu[c]] = "sleep_sig" /\ cpu[c] \in Procs
        /\ stk \in [Procs -> Seq(Caller)]
    BY <1>4, MyProc DEF IInv, TypeOK, ThreadTypes, sleep_sig, CallPsig, At, Quiet,
      WakesOthers,
      Ordinary, SchedPCs, procVars, argVars
  <2>2. ptlock # c
    BY <2>1, Running DEF Quiet, LockedPCs, SchedPCs, WakePCs
  <2>3. CASE CallPsig(c, "sleep_sleep")
    <3>1. stk'[cpu[c]] = <<<<"sleep_sleep", isig[cpu[c]]>>>> \o stk[cpu[c]] /\ Goto(c, "psig")
      BY <2>1, <2>3 DEF CallPsig
    <3>2. /\ "psig" \in CalledPCs
          /\ "psig" \notin LockedPCs /\ "sleep_sleep" \notin LockedPCs
             /\ "sleep_sig" \notin LockedPCs
          /\ "sleep_sleep" \in CalledPCs <=> "sleep_sig" \in CalledPCs
          /\ "sleep_sleep" \notin ForkPCs \cup KillPCs
      BY DEF SchedPCs, WakePCs, LockedPCs, CalledPCs, ForkPCs, KillPCs, Ordinary
    <3> QED
      BY <2>1, <3>1, <3>2, QuietPush
  <2>4. CASE Goto(c, "sleep_sleep") /\ UNCHANGED stk
    <3>1. LocksFor(c, "sleep_sleep")
      BY <2>1, <2>2 DEF LocksFor, LockedPCs, SchedPCs, WakePCs
    <3>2. /\ Ordinary("sleep_sleep") /\ "sleep_sleep" \notin ForkPCs \cup KillPCs
          /\ "sleep_sleep" \in CalledPCs <=> "sleep_sig" \in CalledPCs
      BY DEF SchedPCs, WakePCs, LockedPCs, CalledPCs, ForkPCs, KillPCs, Ordinary
    <3> QED
      BY <2>1, <2>4, <3>1, <3>2, QuietMove
  <2> QED
    BY <1>4, <2>1, <2>3, <2>4 DEF sleep_sig, At
<1>5. CASE sleep_sig(c) /\ ~At(c, "sleep_sig")
  <2>1. /\ Quiet(c) /\ UNCHANGED <<lp, tsig, ptlock>>
        /\ pc[cpu[c]] = "sleep_over" /\ cpu[c] \in Procs
        /\ stk \in [Procs -> Seq(Caller)]
    BY <1>5, MyProc DEF IInv, TypeOK, ThreadTypes, sleep_sig, CallPsig, At, Quiet,
      WakesOthers,
      Ordinary, SchedPCs, procVars, argVars
  <2>2. ptlock # c
    BY <2>1, Running DEF Quiet, LockedPCs, SchedPCs, WakePCs
  <2>3. CASE CallPsig(c, "sleep_end")
    <3>1. stk'[cpu[c]] = <<<<"sleep_end", isig[cpu[c]]>>>> \o stk[cpu[c]] /\ Goto(c, "psig")
      BY <2>1, <2>3 DEF CallPsig
    <3>2. /\ "psig" \in CalledPCs
          /\ "psig" \notin LockedPCs /\ "sleep_end" \notin LockedPCs
             /\ "sleep_over" \notin LockedPCs
          /\ "sleep_end" \in CalledPCs <=> "sleep_over" \in CalledPCs
          /\ "sleep_end" \notin ForkPCs \cup KillPCs
      BY DEF SchedPCs, WakePCs, LockedPCs, CalledPCs, ForkPCs, KillPCs, Ordinary
    <3> QED
      BY <2>1, <3>1, <3>2, QuietPush
  <2>4. CASE Goto(c, "sleep_end") /\ UNCHANGED stk
    <3>1. LocksFor(c, "sleep_end")
      BY <2>1, <2>2 DEF LocksFor, LockedPCs, SchedPCs, WakePCs
    <3>2. /\ Ordinary("sleep_end") /\ "sleep_end" \notin ForkPCs \cup KillPCs
          /\ "sleep_end" \in CalledPCs <=> "sleep_over" \in CalledPCs
      BY DEF SchedPCs, WakePCs, LockedPCs, CalledPCs, ForkPCs, KillPCs, Ordinary
    <3> QED
      BY <2>1, <2>4, <3>1, <3>2, QuietMove
  <2> QED
    BY <1>5, <2>1, <2>3, <2>4 DEF sleep_sig, At
<1>6. CASE sleep(c)
  <2>1. cpu[c] # NULL /\ pc[cpu[c]] = "sleep_sleep"
    BY <1>6 DEF sleep, At
  <2>2. /\ cpu[c] \in Procs /\ StackOK("sleep_sleep", stk[cpu[c]])
           /\ chan[cpu[c]] = ChanOf("sleep_sleep", cpu[c])
        /\ pc \in [Procs -> PCs] /\ chan \in [Procs -> Procs \cup {NULL, TicksChan}]
        /\ state \in [Procs -> States]
    BY <2>1, Running DEF IInv, TypeOK, ProcTypes, PcTypes
  <2>3. /\ StackOK("sleep_sched", stk[cpu[c]])
        /\ BaseOf("sleep_sched", stk[cpu[c]]) \in {Base(cpu[c]), "sleep_sched"}
    <3>1. "sleep_sleep" \in CalledPCs <=> "sleep_sched" \in CalledPCs
      BY DEF CalledPCs
    <3> QED
      BY <2>1, <2>2, <3>1, MoveOK, SMTT(60) DEF Base
  <2>4. UNCHANGED <<stk, lp, tsig, killed, parent, cpu>>
    BY <1>6 DEF sleep, procVars, argVars, thrVars
  <2>5. MovesThread(cpu[c], "sleep_sched")
    BY <1>6, <2>1, <2>2, <2>3, <2>4 DEF sleep, MovesThread, Goto, ChanOf, procVars
  <2>6. WakesOthers(cpu[c]) /\ NewState(cpu[c], "sleep_sched")
    BY <1>6, <2>1, <2>2, <2>4, Running DEF sleep, WakesOthers, NewState, SchedPCs, procVars
  <2>7. LocksFor(c, "sleep_sched") /\ WaitsFor(cpu[c], "sleep_sched")
    BY <1>6, <2>1, <2>2, Running DEF sleep, LocksFor, WaitsFor, LockedPCs, SchedPCs,
      WakePCs
  <2>8. KeepsCall(cpu[c], "sleep_sched")
    BY <2>3, <2>4 DEF KeepsCall, ForkPCs, KillPCs
  <2> QED
    BY <2>1, <2>4, <2>5, <2>6, <2>7, <2>8, LocalOK DEF LocalStep, SchedPCs
<1>7. CASE sleep_wake(c)
  <2>1. cpu[c] # NULL /\ pc[cpu[c]] = "sleep_wake"
    BY <1>7 DEF sleep_wake, At
  <2>2. /\ cpu[c] \in Procs /\ StackOK("sleep_wake", stk[cpu[c]])
           /\ chan[cpu[c]] = ChanOf("sleep_wake", cpu[c])
        /\ pc \in [Procs -> PCs] /\ chan \in [Procs -> Procs \cup {NULL, TicksChan}]
        /\ state \in [Procs -> States]
    BY <2>1, Running DEF IInv, TypeOK, ProcTypes, PcTypes
  <2>3. /\ StackOK("sleep_reacquire", stk[cpu[c]])
        /\ BaseOf("sleep_reacquire", stk[cpu[c]]) \in {Base(cpu[c]), "sleep_reacquire"}
    <3>1. "sleep_wake" \in CalledPCs <=> "sleep_reacquire" \in CalledPCs
      BY DEF CalledPCs
    <3> QED
      BY <2>1, <2>2, <3>1, MoveOK, SMTT(60) DEF Base
  <2>4. UNCHANGED <<stk, lp, tsig, killed, parent, cpu>>
    BY <1>7 DEF sleep_wake, procVars, argVars, thrVars
  <2>5. MovesThread(cpu[c], "sleep_reacquire")
    BY <1>7, <2>1, <2>2, <2>3, <2>4 DEF sleep_wake, MovesThread, Goto, ChanOf, procVars
  <2>6. WakesOthers(cpu[c]) /\ NewState(cpu[c], "sleep_reacquire")
    BY <1>7, <2>1, <2>2, <2>4, Running DEF sleep_wake, WakesOthers, NewState, SchedPCs, procVars
  <2>7. LocksFor(c, "sleep_reacquire") /\ WaitsFor(cpu[c], "sleep_reacquire")
    BY <1>7, <2>1, <2>2, Running DEF sleep_wake, LocksFor, WaitsFor, LockedPCs, SchedPCs, WakePCs
  <2>8. KeepsCall(cpu[c], "sleep_reacquire")
    BY <2>3, <2>4 DEF KeepsCall, ForkPCs, KillPCs
  <2> QED
    BY <2>1, <2>4, <2>5, <2>6, <2>7, <2>8, LocalOK DEF LocalStep, SchedPCs
<1>8. CASE sleep_reacquire(c)
  <2>0. cpu[c] # NULL /\ pc[cpu[c]] \in {"sleep_reacquire"}
    BY <1>8 DEF sleep_reacquire, At
  <2>1. Quiet(c) /\ UNCHANGED <<stk, lp, tsig>>
    BY <1>8, <2>0 DEF sleep_reacquire, Quiet, WakesOthers, Ordinary, SchedPCs, procVars,
      argVars, thrVars
  <2>2. /\ pc[cpu[c]] \in {"sleep_reacquire"}
        /\ \E m \in {"sleep_loop"} : Goto(c, m)
        /\ ptlock' = ptlock
    BY <1>8, <2>0 DEF sleep_reacquire
  <2>3. ptlock = c <=> pc[cpu[c]] \in LockedPCs
    BY <2>0, Running
  <2>4. ASSUME NEW m \in {"sleep_loop"}, Goto(c, m), ptlock' = ptlock
       PROVE  Coherent'
    <3>1. LocksFor(c, m)
      BY <2>2, <2>3, <2>4 DEF LocksFor, LockedPCs, SchedPCs, WakePCs
    <3>2. /\ Ordinary(m) /\ m \notin ForkPCs \cup KillPCs
          /\ m \in CalledPCs <=> pc[cpu[c]] \in CalledPCs
      BY <2>2 DEF SchedPCs, WakePCs, LockedPCs, CalledPCs, ForkPCs, KillPCs, Ordinary
    <3> QED
      BY <2>1, <2>4, <3>1, <3>2, QuietMove
  <2> QED
    BY <2>2, <2>4
<1>9. CASE sleep_end(c)
  <2>0. cpu[c] # NULL /\ pc[cpu[c]] \in {"sleep_end"}
    BY <1>9 DEF sleep_end, At
  <2>1. Quiet(c) /\ UNCHANGED <<stk, lp, tsig>>
    BY <1>9, <2>0 DEF sleep_end, Quiet, WakesOthers, Ordinary, SchedPCs, procVars, argVars,
      thrVars
  <2>2. /\ pc[cpu[c]] \in {"sleep_end"}
        /\ \E m \in {"sysret"} : Goto(c, m)
        /\ ptlock' = ptlock
    BY <1>9, <2>0 DEF sleep_end
  <2>3. ptlock = c <=> pc[cpu[c]] \in LockedPCs
    BY <2>0, Running
  <2>4. ASSUME NEW m \in {"sysret"}, Goto(c, m), ptlock' = ptlock
       PROVE  Coherent'
    <3>1. LocksFor(c, m)
      BY <2>2, <2>3, <2>4 DEF LocksFor, LockedPCs, SchedPCs, WakePCs
    <3>2. /\ Ordinary(m) /\ m \notin ForkPCs \cup KillPCs
          /\ m \in CalledPCs <=> pc[cpu[c]] \in CalledPCs
      BY <2>2 DEF SchedPCs, WakePCs, LockedPCs, CalledPCs, ForkPCs, KillPCs, Ordinary
    <3> QED
      BY <2>1, <2>4, <3>1, <3>2, QuietMove
  <2> QED
    BY <2>2, <2>4
<1> QED
  BY <1>1, <1>2, <1>3, <1>4, <1>5, <1>6, <1>7, <1>8, <1>9 DEF SleepStep

(* psig(). *)
LEMMA PsigCoherent ==
  ASSUME IInv, NEW c \in CPUs, PsigStep(c), TypeOK'
  PROVE  Coherent'
<1>1. CASE psig(c)
  <2>0. cpu[c] # NULL /\ pc[cpu[c]] \in {"psig"}
    BY <1>1 DEF psig, At
  <2>1. Quiet(c) /\ UNCHANGED <<stk, lp, tsig>>
    BY <1>1, <2>0 DEF psig, Quiet, WakesOthers, Ordinary, SchedPCs, procVars, argVars, thrVars
  <2>2. /\ pc[cpu[c]] \in {"psig"}
        /\ \/ (\E m \in {"term"} : Goto(c, m)) /\ ptlock' = ptlock
           \/ (\E m \in {"psig_core"} : Goto(c, m)) /\ ptlock = NoCPU /\ ptlock' = c
    BY <1>1, <2>0 DEF psig
  <2>3. ptlock = c <=> pc[cpu[c]] \in LockedPCs
    BY <2>0, Running
  <2>4. ASSUME NEW m \in {"term"}, Goto(c, m), ptlock' = ptlock
       PROVE  Coherent'
    <3>1. LocksFor(c, m)
      BY <2>2, <2>3, <2>4 DEF LocksFor, LockedPCs, SchedPCs, WakePCs
    <3>2. /\ Ordinary(m) /\ m \notin ForkPCs \cup KillPCs
          /\ m \in CalledPCs <=> pc[cpu[c]] \in CalledPCs
      BY <2>2 DEF SchedPCs, WakePCs, LockedPCs, CalledPCs, ForkPCs, KillPCs, Ordinary
    <3> QED
      BY <2>1, <2>4, <3>1, <3>2, QuietMove
  <2>5. ASSUME NEW m \in {"psig_core"}, Goto(c, m), ptlock = NoCPU /\ ptlock' = c
       PROVE  Coherent'
    <3>1. LocksFor(c, m)
      BY <2>2, <2>3, <2>5 DEF LocksFor, LockedPCs, SchedPCs, WakePCs
    <3>2. /\ Ordinary(m) /\ m \notin ForkPCs \cup KillPCs
          /\ m \in CalledPCs <=> pc[cpu[c]] \in CalledPCs
      BY <2>2 DEF SchedPCs, WakePCs, LockedPCs, CalledPCs, ForkPCs, KillPCs, Ordinary
    <3> QED
      BY <2>1, <2>5, <3>1, <3>2, QuietMove
  <2> QED
    BY <2>2, <2>4, <2>5
<1>2. CASE term(c)
  <2>0. cpu[c] # NULL /\ pc[cpu[c]] \in {"term", "core"}
    BY <1>2 DEF term, At
  <2>9. WakesOthers(cpu[c]) /\ state'[cpu[c]] = state[cpu[c]]
    <3>1. cpu[c] \in Procs /\ state[cpu[c]] = "RUNNING"
      BY <2>0, Running DEF SchedPCs
    <3> QED
      BY <1>2, <3>1, KillWakes DEF term, IInv
  <2>1. Quiet(c) /\ UNCHANGED <<stk, lp, tsig>>
    BY <1>2, <2>0, <2>9 DEF term, Quiet, Ordinary, SchedPCs, argVars, thrVars
  <2>2. /\ pc[cpu[c]] \in {"term", "core"}
        /\ \E m \in {"term_ret", "core_ret"} : Goto(c, m)
        /\ ptlock' = ptlock
    BY <1>2, <2>0 DEF term
  <2>3. ptlock = c <=> pc[cpu[c]] \in LockedPCs
    BY <2>0, Running
  <2>4. ASSUME NEW m \in {"term_ret", "core_ret"}, Goto(c, m), ptlock' = ptlock
       PROVE  Coherent'
    <3>1. LocksFor(c, m)
      BY <2>2, <2>3, <2>4 DEF LocksFor, LockedPCs, SchedPCs, WakePCs
    <3>2. /\ Ordinary(m) /\ m \notin ForkPCs \cup KillPCs
          /\ m \in CalledPCs <=> pc[cpu[c]] \in CalledPCs
      BY <2>2 DEF SchedPCs, WakePCs, LockedPCs, CalledPCs, ForkPCs, KillPCs, Ordinary
    <3> QED
      BY <2>1, <2>4, <3>1, <3>2, QuietMove
  <2> QED
    BY <2>2, <2>4
<1>3. CASE psig_term(c)
  <2>0. cpu[c] # NULL /\ pc[cpu[c]] \in {"term_ret"}
    BY <1>3 DEF psig_term, At
  <2>1. Quiet(c) /\ UNCHANGED <<stk, lp, tsig>>
    BY <1>3, <2>0 DEF psig_term, Quiet, WakesOthers, Ordinary, SchedPCs, procVars, argVars,
      thrVars
  <2>2. /\ pc[cpu[c]] \in {"term_ret"}
        /\ \E m \in {"psig_core"} : Goto(c, m)
        /\ ptlock = NoCPU /\ ptlock' = c
    BY <1>3, <2>0 DEF psig_term
  <2>3. ptlock = c <=> pc[cpu[c]] \in LockedPCs
    BY <2>0, Running
  <2>4. ASSUME NEW m \in {"psig_core"}, Goto(c, m), ptlock = NoCPU /\ ptlock' = c
       PROVE  Coherent'
    <3>1. LocksFor(c, m)
      BY <2>2, <2>3, <2>4 DEF LocksFor, LockedPCs, SchedPCs, WakePCs
    <3>2. /\ Ordinary(m) /\ m \notin ForkPCs \cup KillPCs
          /\ m \in CalledPCs <=> pc[cpu[c]] \in CalledPCs
      BY <2>2 DEF SchedPCs, WakePCs, LockedPCs, CalledPCs, ForkPCs, KillPCs, Ordinary
    <3> QED
      BY <2>1, <2>4, <3>1, <3>2, QuietMove
  <2> QED
    BY <2>2, <2>4
<1>4. CASE psig_core(c)
  <2>0. cpu[c] # NULL /\ pc[cpu[c]] \in {"psig_core"}
    BY <1>4 DEF psig_core, At
  <2>1. Quiet(c) /\ UNCHANGED <<stk, lp, tsig>>
    BY <1>4, <2>0 DEF psig_core, Quiet, WakesOthers, Ordinary, SchedPCs, procVars, argVars,
      thrVars
  <2>2. /\ pc[cpu[c]] \in {"psig_core"}
        /\ \/ (\E m \in {"core"} : Goto(c, m)) /\ ptlock' = NoCPU
           \/ (\E m \in {"psig_stop"} : Goto(c, m)) /\ ptlock' = ptlock
    BY <1>4, <2>0 DEF psig_core
  <2>3. ptlock = c <=> pc[cpu[c]] \in LockedPCs
    BY <2>0, Running
  <2>4. ASSUME NEW m \in {"core"}, Goto(c, m), ptlock' = NoCPU
       PROVE  Coherent'
    <3>1. LocksFor(c, m)
      BY <2>2, <2>3, <2>4 DEF LocksFor, LockedPCs, SchedPCs, WakePCs
    <3>2. /\ Ordinary(m) /\ m \notin ForkPCs \cup KillPCs
          /\ m \in CalledPCs <=> pc[cpu[c]] \in CalledPCs
      BY <2>2 DEF SchedPCs, WakePCs, LockedPCs, CalledPCs, ForkPCs, KillPCs, Ordinary
    <3> QED
      BY <2>1, <2>4, <3>1, <3>2, QuietMove
  <2>5. ASSUME NEW m \in {"psig_stop"}, Goto(c, m), ptlock' = ptlock
       PROVE  Coherent'
    <3>1. LocksFor(c, m)
      BY <2>2, <2>3, <2>5 DEF LocksFor, LockedPCs, SchedPCs, WakePCs
    <3>2. /\ Ordinary(m) /\ m \notin ForkPCs \cup KillPCs
          /\ m \in CalledPCs <=> pc[cpu[c]] \in CalledPCs
      BY <2>2 DEF SchedPCs, WakePCs, LockedPCs, CalledPCs, ForkPCs, KillPCs, Ordinary
    <3> QED
      BY <2>1, <2>5, <3>1, <3>2, QuietMove
  <2> QED
    BY <2>2, <2>4, <2>5
<1>5. CASE psig_core_ret(c)
  <2>0. cpu[c] # NULL /\ pc[cpu[c]] \in {"core_ret"}
    BY <1>5 DEF psig_core_ret, At
  <2>1. Quiet(c) /\ UNCHANGED <<stk, lp, tsig>>
    BY <1>5, <2>0 DEF psig_core_ret, Quiet, WakesOthers, Ordinary, SchedPCs, procVars, argVars,
      thrVars
  <2>2. /\ pc[cpu[c]] \in {"core_ret"}
        /\ \E m \in {"psig_stop"} : Goto(c, m)
        /\ ptlock = NoCPU /\ ptlock' = c
    BY <1>5, <2>0 DEF psig_core_ret
  <2>3. ptlock = c <=> pc[cpu[c]] \in LockedPCs
    BY <2>0, Running
  <2>4. ASSUME NEW m \in {"psig_stop"}, Goto(c, m), ptlock = NoCPU /\ ptlock' = c
       PROVE  Coherent'
    <3>1. LocksFor(c, m)
      BY <2>2, <2>3, <2>4 DEF LocksFor, LockedPCs, SchedPCs, WakePCs
    <3>2. /\ Ordinary(m) /\ m \notin ForkPCs \cup KillPCs
          /\ m \in CalledPCs <=> pc[cpu[c]] \in CalledPCs
      BY <2>2 DEF SchedPCs, WakePCs, LockedPCs, CalledPCs, ForkPCs, KillPCs, Ordinary
    <3> QED
      BY <2>1, <2>4, <3>1, <3>2, QuietMove
  <2> QED
    BY <2>2, <2>4
<1>6. CASE psig_stop(c) /\ \E s, S : stop(c, s, S)
  <2>1. cpu[c] # NULL /\ pc[cpu[c]] = "psig_stop"
    BY <1>6 DEF psig_stop, stop, At
  <2>2. /\ cpu[c] \in Procs /\ StackOK("psig_stop", stk[cpu[c]])
           /\ chan[cpu[c]] = ChanOf("psig_stop", cpu[c])
        /\ pc \in [Procs -> PCs] /\ chan \in [Procs -> Procs \cup {NULL, TicksChan}]
        /\ state \in [Procs -> States]
    BY <2>1, Running DEF IInv, TypeOK, ProcTypes, PcTypes
  <2>3. /\ StackOK("stop_sched", stk[cpu[c]])
        /\ BaseOf("stop_sched", stk[cpu[c]]) \in {Base(cpu[c]), "stop_sched"}
    <3>1. "psig_stop" \in CalledPCs <=> "stop_sched" \in CalledPCs
      BY DEF CalledPCs
    <3> QED
      BY <2>1, <2>2, <3>1, MoveOK, SMTT(60) DEF Base
  <2>4. UNCHANGED <<stk, lp, tsig, killed, parent, cpu>>
    BY <1>6 DEF psig_stop, stop, procVars, argVars, thrVars
  <2>5. MovesThread(cpu[c], "stop_sched")
    BY <1>6, <2>1, <2>2, <2>3, <2>4 DEF psig_stop, stop, MovesThread, Goto, ChanOf,
      procVars
  <2>6. WakesOthers(cpu[c]) /\ NewState(cpu[c], "stop_sched")
    <3>1. state' = [state EXCEPT ![cpu[c]] = "SLEEPING"]
      BY <1>6 DEF stop
    <3> QED
      BY <2>2, <2>4, <3>1 DEF WakesOthers, NewState, SchedPCs
  <2>7. LocksFor(c, "stop_sched") /\ WaitsFor(cpu[c], "stop_sched")
    BY <1>6, <2>1, <2>2, Running DEF psig_stop, stop, LocksFor, WaitsFor, LockedPCs,
      SchedPCs,
      WakePCs
  <2>8. KeepsCall(cpu[c], "stop_sched")
    BY <2>3, <2>4 DEF KeepsCall, ForkPCs, KillPCs
  <2> QED
    BY <2>1, <2>4, <2>5, <2>6, <2>7, <2>8, LocalOK DEF LocalStep, SchedPCs
<1>7. CASE psig_stop(c) /\ Goto(c, "psig_user") /\ UNCHANGED state
  <2>0. cpu[c] # NULL /\ pc[cpu[c]] \in {"psig_stop"}
    BY <1>7 DEF psig_stop, At
  <2>1. Quiet(c) /\ UNCHANGED <<stk, lp, tsig>>
    BY <1>7, <2>0 DEF psig_stop, Quiet, WakesOthers, Ordinary, SchedPCs, procVars,
      argVars,
      thrVars
  <2>2. /\ pc[cpu[c]] \in {"psig_stop"}
        /\ \E m \in {"psig_user"} : Goto(c, m)
        /\ ptlock' = ptlock
    BY <1>7, <2>0 DEF psig_stop
  <2>3. ptlock = c <=> pc[cpu[c]] \in LockedPCs
    BY <2>0, Running
  <2>4. ASSUME NEW m \in {"psig_user"}, Goto(c, m), ptlock' = ptlock
       PROVE  Coherent'
    <3>1. LocksFor(c, m)
      BY <2>2, <2>3, <2>4 DEF LocksFor, LockedPCs, SchedPCs, WakePCs
    <3>2. /\ Ordinary(m) /\ m \notin ForkPCs \cup KillPCs
          /\ m \in CalledPCs <=> pc[cpu[c]] \in CalledPCs
      BY <2>2 DEF SchedPCs, WakePCs, LockedPCs, CalledPCs, ForkPCs, KillPCs, Ordinary
    <3> QED
      BY <2>1, <2>4, <3>1, <3>2, QuietMove
  <2> QED
    BY <2>2, <2>4
<1>8. CASE psig_stop_ret(c)
  <2>0. cpu[c] # NULL /\ pc[cpu[c]] \in {"stop_wake"}
    BY <1>8 DEF psig_stop_ret, At
  <2>1. Quiet(c) /\ UNCHANGED <<stk, lp, tsig>>
    BY <1>8, <2>0 DEF psig_stop_ret, Quiet, WakesOthers, Ordinary, SchedPCs, procVars, argVars,
      thrVars
  <2>2. /\ pc[cpu[c]] \in {"stop_wake"}
        /\ \E m \in {"psig_user"} : Goto(c, m)
        /\ ptlock' = ptlock
    BY <1>8, <2>0 DEF psig_stop_ret
  <2>3. ptlock = c <=> pc[cpu[c]] \in LockedPCs
    BY <2>0, Running
  <2>4. ASSUME NEW m \in {"psig_user"}, Goto(c, m), ptlock' = ptlock
       PROVE  Coherent'
    <3>1. LocksFor(c, m)
      BY <2>2, <2>3, <2>4 DEF LocksFor, LockedPCs, SchedPCs, WakePCs
    <3>2. /\ Ordinary(m) /\ m \notin ForkPCs \cup KillPCs
          /\ m \in CalledPCs <=> pc[cpu[c]] \in CalledPCs
      BY <2>2 DEF SchedPCs, WakePCs, LockedPCs, CalledPCs, ForkPCs, KillPCs, Ordinary
    <3> QED
      BY <2>1, <2>4, <3>1, <3>2, QuietMove
  <2> QED
    BY <2>2, <2>4
<1>9. CASE psig_user(c) /\ Return(c)
  <2>1. Quiet(c) /\ UNCHANGED <<lp, tsig>> /\ pc[cpu[c]] = "psig_user" /\ ptlock' = NoCPU
    <3>1. cpu[c] \in Procs /\ stk \in [Procs -> Seq(Caller)]
      BY <1>9, MyProc DEF psig_user, At, IInv, TypeOK, ThreadTypes
    <3> QED
      BY <1>9, <3>1 DEF psig_user, Return, At, Quiet, WakesOthers, Ordinary,
        SchedPCs, procVars,
        argVars
  <2>2. "psig_user" \in CalledPCs /\ "psig_user" \in LockedPCs
    BY DEF CalledPCs, LockedPCs
  <2>3. ptlock = c
    BY <2>1, <2>2, Running DEF Quiet
  <2> QED
    BY <1>9, <2>1, <2>2, <2>3, QuietPop
<1>10. CASE psig_user(c) /\ Goto(c, "jmptohandler") /\ UNCHANGED stk
  <2>0. cpu[c] # NULL /\ pc[cpu[c]] \in {"psig_user"}
    BY <1>10 DEF psig_user, At
  <2>1. Quiet(c) /\ UNCHANGED <<stk, lp, tsig>>
    BY <1>10, <2>0 DEF psig_user, Quiet, WakesOthers, Ordinary, SchedPCs, procVars,
      argVars,
      thrVars
  <2>2. /\ pc[cpu[c]] \in {"psig_user"}
        /\ \E m \in {"jmptohandler"} : Goto(c, m)
        /\ ptlock' = NoCPU
    BY <1>10, <2>0 DEF psig_user
  <2>3. ptlock = c <=> pc[cpu[c]] \in LockedPCs
    BY <2>0, Running
  <2>4. ASSUME NEW m \in {"jmptohandler"}, Goto(c, m), ptlock' = NoCPU
       PROVE  Coherent'
    <3>1. LocksFor(c, m)
      BY <2>2, <2>3, <2>4 DEF LocksFor, LockedPCs, SchedPCs, WakePCs
    <3>2. /\ Ordinary(m) /\ m \notin ForkPCs \cup KillPCs
          /\ m \in CalledPCs <=> pc[cpu[c]] \in CalledPCs
      BY <2>2 DEF SchedPCs, WakePCs, LockedPCs, CalledPCs, ForkPCs, KillPCs, Ordinary
    <3> QED
      BY <2>1, <2>4, <3>1, <3>2, QuietMove
  <2> QED
    BY <2>2, <2>4
<1>11. CASE jmptohandler(c)
  <2>0. /\ cpu[c] \in Procs /\ stk \in [Procs -> Seq(Caller)]
        /\ killed \in [Procs -> BOOLEAN] /\ lp \in [Procs -> Procs \cup {NULL}]
        /\ tsig \in [Procs -> Signals \cup {0}]
    BY <1>11, MyProc DEF jmptohandler, At, IInv, TypeOK, ProcTypes, ThreadTypes,
      ArgTypes
  <2>1. Quiet(c) /\ pc[cpu[c]] \in {"jmptohandler"} /\ Goto(c, "user") /\ UNCHANGED ptlock
    BY <1>11, <2>0 DEF jmptohandler, At, Quiet, WakesOthers, Ordinary, SchedPCs, procVars, argVars
  <2>2. cpu[c] \in Procs /\ stk'[cpu[c]] = <<>> /\ ptlock # c
    BY <1>11, <2>1, Running DEF jmptohandler, IInv, TypeOK, ThreadTypes, Quiet,
      LockedPCs, SchedPCs, WakePCs
  <2>3. StackOK("user", <<>>) /\ BaseOf("user", <<>>) = "user"
    BY EmptyOK DEF CalledPCs
  <2>4. KeepsCall(cpu[c], "user")
    BY <2>2, <2>3 DEF KeepsCall, ForkPCs, KillPCs
  <2>5. LocksFor(c, "user") /\ Ordinary("user")
    BY <2>1, <2>2 DEF LocksFor, Ordinary, LockedPCs, SchedPCs, WakePCs
  <2> QED
    BY <2>1, <2>2, <2>3, <2>4, <2>5, QuietLocal, LocalOK
<1> QED
  BY <1>1, <1>2, <1>3, <1>4, <1>5, <1>6, <1>7, <1>8, <1>9, <1>10, <1>11 DEF PsigStep,
    psig_stop, psig_user

(* A step of Kill(), which holds no lock between its critical sections. *)
KillGoes(c, m) ==
  LET p == cpu[c]
  IN  /\ m \in KillPCs \cup {"sysret"}
      /\ Goto(c, m)
      /\ \A q \in Procs \ {p} : lp'[q] = lp[q] /\ tsig'[q] = tsig[q]
      /\ m \in KillPCs => lp'[p] \in Procs /\ tsig'[p] \in Signals

LEMMA KillMove ==
  ASSUME IInv, NEW c \in CPUs, cpu[c] # NULL, TypeOK',
         pc[cpu[c]] \in KillPCs \cup {"Kill", "raise"},
         NEW m, KillGoes(c, m),
         UNCHANGED <<parent, chan, cpu, stk, ptlock>>,
         WakesOthers(cpu[c]), state'[cpu[c]] = state[cpu[c]]
  PROVE  Coherent'
<1>1. m \in KillPCs \cup {"sysret"} /\ Goto(c, m)
  BY DEF KillGoes
<1>2. Quiet(c)
  BY DEF Quiet, KillGoes, Ordinary, KillPCs, SchedPCs
<1>3. /\ Ordinary(m) /\ m \notin ForkPCs /\ m \notin CalledPCs /\ m \notin LockedPCs
      /\ pc[cpu[c]] \notin CalledPCs /\ pc[cpu[c]] \notin LockedPCs
  BY <1>1 DEF SchedPCs, WakePCs, LockedPCs, CalledPCs, ForkPCs, KillPCs, Ordinary
<1>4. LocksFor(c, m)
  BY <1>3, Running DEF LocksFor
<1> QED
  BY <1>1, <1>2, <1>3, <1>4, QuietMove DEF KillGoes

LEMMA KillNextGoes ==
  ASSUME IInv, NEW c \in CPUs, cpu[c] # NULL, pc[cpu[c]] \in KillPCs,
         NEW all \in BOOLEAN, Kill_next(c, all)
  PROVE  \E m : KillGoes(c, m)
BY NextKill, SMTT(60) DEF KillGoes, KillPCs

LEMMA KillStays ==
  ASSUME IInv, NEW c \in CPUs, cpu[c] # NULL, pc[cpu[c]] \in KillPCs,
         NEW m \in KillPCs, Goto(c, m), UNCHANGED argVars
  PROVE  KillGoes(c, m)
<1>1. cpu[c] \in Procs
  BY MyProc DEF IInv
<1> QED
  BY <1>1, KillArgs DEF KillGoes, argVars

(* Kill(), raise(), signal() and the masks. *)
LEMMA KillCoherent ==
  ASSUME IInv, NEW c \in CPUs, KillStep(c), TypeOK'
  PROVE  Coherent'
<1>1. CASE Kill(c)
  <2>1. /\ cpu[c] # NULL /\ pc[cpu[c]] \in {"Kill", "raise"}
        /\ UNCHANGED <<state, killed, parent, chan, cpu, stk, ptlock>>
    BY <1>1 DEF Kill, At, procVars, thrVars
  <2>2. cpu[c] \in Procs /\ lp \in [Procs -> Procs \cup {NULL}]
        /\ tsig \in [Procs -> Signals \cup {0}]
    BY <2>1, MyProc DEF IInv, TypeOK, ArgTypes
  <2>3. \E m : KillGoes(c, m)
    <3>1. CASE Goto(c, "sysret") /\ UNCHANGED argVars
      BY <3>1, SMTT(60) DEF KillGoes, argVars, KillPCs
    <3>2. ASSUME NEW sig \in Signals, lp' = [lp EXCEPT ![cpu[c]] = 1],
                 tsig' = [tsig EXCEPT ![cpu[c]] = sig], Goto(c, "Kill_scan")
          PROVE  KillGoes(c, "Kill_scan")
      <4>1. 1 \in Procs
        BY CpuIds DEF initproc
      <4> QED
        BY <2>2, <3>2, <4>1 DEF KillGoes, KillPCs
    <3> QED
      BY <1>1, <3>1, <3>2 DEF Kill
  <2>4. WakesOthers(cpu[c])
    BY <2>1 DEF WakesOthers
  <2> QED
    BY <2>1, <2>3, <2>4, KillMove
<1>2. CASE Kill_scan(c)
  <2>1. /\ cpu[c] # NULL /\ pc[cpu[c]] = "Kill_scan" /\ pc[cpu[c]] \in KillPCs
        /\ UNCHANGED <<parent, chan, cpu, stk, ptlock>>
    BY <1>2 DEF Kill_scan, At, KillPCs, procVars, thrVars
  <2>2. cpu[c] \in Procs /\ state[cpu[c]] = "RUNNING"
    BY <2>1, Running DEF SchedPCs
  <2>3. WakesOthers(cpu[c]) /\ state'[cpu[c]] = state[cpu[c]]
    BY <1>2 DEF Kill_scan, WakesOthers, procVars
  <2>4. \E m : KillGoes(c, m)
    <3>1. CASE \E all \in BOOLEAN : Kill_next(c, all)
      BY <2>1, <3>1, KillNextGoes
    <3>2. CASE Goto(c, "Kill_post") /\ UNCHANGED argVars
      BY <2>1, <3>2, KillStays DEF KillPCs
    <3> QED
      BY <1>2, <3>1, <3>2 DEF Kill_scan
  <2> QED
    BY <2>1, <2>3, <2>4, KillMove
<1>3. CASE Kill_post(c)
  <2>1. /\ cpu[c] # NULL /\ pc[cpu[c]] = "Kill_post" /\ pc[cpu[c]] \in KillPCs
        /\ UNCHANGED <<parent, chan, cpu, stk, ptlock>>
    BY <1>3 DEF Kill_post, At, KillPCs, procVars, thrVars
  <2>2. cpu[c] \in Procs /\ state[cpu[c]] = "RUNNING"
    BY <2>1, Running DEF SchedPCs
  <2>3. WakesOthers(cpu[c]) /\ state'[cpu[c]] = state[cpu[c]]
    <3>1. CASE UNCHANGED state
      BY <1>3, <3>1 DEF Kill_post, WakesOthers
    <3>2. CASE \E q \in Procs : state' = [state EXCEPT ![q] = IF @ = "SLEEPING" THEN "RUNNABLE" ELSE @]
      <4>1. state \in [Procs -> States] /\ UNCHANGED killed
        BY <1>3 DEF Kill_post, IInv, TypeOK, ProcTypes
      <4> QED
        BY <2>2, <3>2, <4>1 DEF WakesOthers
    <3>3. lp[cpu[c]] \in Procs
      BY <2>1, <2>2, KillArgs
    <3> QED
      BY <1>3, <3>1, <3>2, <3>3 DEF Kill_post
  <2>4. \E m : KillGoes(c, m)
    <3>1. CASE \E all \in BOOLEAN : Kill_next(c, all)
      BY <2>1, <3>1, KillNextGoes
    <3>2. CASE Goto(c, "Kill_kill") /\ UNCHANGED argVars
      BY <2>1, <3>2, KillStays DEF KillPCs
    <3> QED
      BY <1>3, <3>1, <3>2 DEF Kill_post
  <2> QED
    BY <2>1, <2>3, <2>4, KillMove
<1>4. CASE Kill_kill(c)
  <2>1. /\ cpu[c] # NULL /\ pc[cpu[c]] = "Kill_kill" /\ pc[cpu[c]] \in KillPCs
        /\ UNCHANGED <<parent, chan, cpu, stk, ptlock>>
    BY <1>4 DEF Kill_kill, At, KillPCs, procVars, thrVars
  <2>2. cpu[c] \in Procs /\ state[cpu[c]] = "RUNNING"
    BY <2>1, Running DEF SchedPCs
  <2>3. WakesOthers(cpu[c]) /\ state'[cpu[c]] = state[cpu[c]]
    BY <1>4, <2>2, KillWakes DEF Kill_kill, IInv
  <2>4. \E m : KillGoes(c, m)
    BY <1>4, <2>1, KillNextGoes DEF Kill_kill
  <2> QED
    BY <2>1, <2>3, <2>4, KillMove
<1>5. CASE signal(c)
  <2>0. cpu[c] # NULL /\ pc[cpu[c]] \in {"signal"}
    BY <1>5 DEF signal, At
  <2>1. Quiet(c) /\ UNCHANGED <<stk, lp, tsig>>
    BY <1>5, <2>0 DEF signal, Quiet, WakesOthers, Ordinary, SchedPCs, procVars, argVars, thrVars
  <2>2. /\ pc[cpu[c]] \in {"signal"}
        /\ \E m \in {"sysret"} : Goto(c, m)
        /\ ptlock' = ptlock
    BY <1>5, <2>0 DEF signal
  <2>3. ptlock = c <=> pc[cpu[c]] \in LockedPCs
    BY <2>0, Running
  <2>4. ASSUME NEW m \in {"sysret"}, Goto(c, m), ptlock' = ptlock
       PROVE  Coherent'
    <3>1. LocksFor(c, m)
      BY <2>2, <2>3, <2>4 DEF LocksFor, LockedPCs, SchedPCs, WakePCs
    <3>2. /\ Ordinary(m) /\ m \notin ForkPCs \cup KillPCs
          /\ m \in CalledPCs <=> pc[cpu[c]] \in CalledPCs
      BY <2>2 DEF SchedPCs, WakePCs, LockedPCs, CalledPCs, ForkPCs, KillPCs, Ordinary
    <3> QED
      BY <2>1, <2>4, <3>1, <3>2, QuietMove
  <2> QED
    BY <2>2, <2>4
<1>6. CASE sys_sigmask(c)
  <2>0. cpu[c] # NULL /\ pc[cpu[c]] \in {"sigsetmask", "sigblock", "sigunblock"}
    BY <1>6 DEF sys_sigmask, At, At
  <2>1. Quiet(c) /\ UNCHANGED <<stk, lp, tsig>>
    BY <1>6, <2>0 DEF sys_sigmask, At, Quiet, WakesOthers, Ordinary, SchedPCs, procVars,
      argVars, thrVars
  <2>2. /\ pc[cpu[c]] \in {"sigsetmask", "sigblock", "sigunblock"}
        /\ \E m \in {"sysret"} : Goto(c, m)
        /\ ptlock' = ptlock
    BY <1>6, <2>0 DEF sys_sigmask, At
  <2>3. ptlock = c <=> pc[cpu[c]] \in LockedPCs
    BY <2>0, Running
  <2>4. ASSUME NEW m \in {"sysret"}, Goto(c, m), ptlock' = ptlock
       PROVE  Coherent'
    <3>1. LocksFor(c, m)
      BY <2>2, <2>3, <2>4 DEF LocksFor, LockedPCs, SchedPCs, WakePCs
    <3>2. /\ Ordinary(m) /\ m \notin ForkPCs \cup KillPCs
          /\ m \in CalledPCs <=> pc[cpu[c]] \in CalledPCs
      BY <2>2 DEF SchedPCs, WakePCs, LockedPCs, CalledPCs, ForkPCs, KillPCs, Ordinary
    <3> QED
      BY <2>1, <2>4, <3>1, <3>2, QuietMove
  <2> QED
    BY <2>2, <2>4
<1> QED
  BY <1>1, <1>2, <1>3, <1>4, <1>5, <1>6 DEF KillStep

(* trap() around system calls and interrupts. *)
LEMMA TrapCoherent ==
  ASSUME IInv, NEW c \in CPUs, TrapStep(c), TypeOK'
  PROVE  Coherent'
<1>1. CASE trap_sysret(c)
  <2>1. /\ Quiet(c) /\ UNCHANGED <<lp, tsig, ptlock>>
        /\ pc[cpu[c]] = "sysret" /\ cpu[c] \in Procs
        /\ stk \in [Procs -> Seq(Caller)]
    BY <1>1, MyProc DEF IInv, TypeOK, ThreadTypes, trap_sysret, CallPsig, At, Quiet,
      WakesOthers,
      Ordinary, SchedPCs, procVars, argVars
  <2>2. ptlock # c
    BY <2>1, Running DEF Quiet, LockedPCs, SchedPCs, WakePCs
  <2>3. CASE CallPsig(c, "killcheck")
    <3>1. stk'[cpu[c]] = <<<<"killcheck", isig[cpu[c]]>>>> \o stk[cpu[c]] /\ Goto(c, "psig")
      BY <2>1, <2>3 DEF CallPsig
    <3>2. /\ "psig" \in CalledPCs
          /\ "psig" \notin LockedPCs /\ "killcheck" \notin LockedPCs /\ "sysret" \notin LockedPCs
          /\ "killcheck" \in CalledPCs <=> "sysret" \in CalledPCs
          /\ "killcheck" \notin ForkPCs \cup KillPCs
      BY DEF SchedPCs, WakePCs, LockedPCs, CalledPCs, ForkPCs, KillPCs, Ordinary
    <3> QED
      BY <2>1, <3>1, <3>2, QuietPush
  <2>4. CASE Goto(c, "killcheck") /\ UNCHANGED stk
    <3>1. LocksFor(c, "killcheck")
      BY <2>1, <2>2 DEF LocksFor, LockedPCs, SchedPCs, WakePCs
    <3>2. /\ Ordinary("killcheck") /\ "killcheck" \notin ForkPCs \cup KillPCs
          /\ "killcheck" \in CalledPCs <=> "sysret" \in CalledPCs
      BY DEF SchedPCs, WakePCs, LockedPCs, CalledPCs, ForkPCs, KillPCs, Ordinary
    <3> QED
      BY <2>1, <2>4, <3>1, <3>2, QuietMove
  <2> QED
    BY <1>1, <2>1, <2>3, <2>4 DEF trap_sysret, At
<1>2. CASE trap_killcheck(c)
  <2>0. cpu[c] # NULL /\ pc[cpu[c]] \in {"killcheck"}
    BY <1>2 DEF trap_killcheck, At
  <2>1. Quiet(c) /\ UNCHANGED <<stk, lp, tsig>>
    BY <1>2, <2>0 DEF trap_killcheck, Quiet, WakesOthers, Ordinary, SchedPCs, procVars, argVars,
      thrVars
  <2>2. /\ pc[cpu[c]] \in {"killcheck"}
        /\ \E m \in {"exit", "user"} : Goto(c, m)
        /\ ptlock' = ptlock
    BY <1>2, <2>0 DEF trap_killcheck
  <2>3. ptlock = c <=> pc[cpu[c]] \in LockedPCs
    BY <2>0, Running
  <2>4. ASSUME NEW m \in {"exit", "user"}, Goto(c, m), ptlock' = ptlock
       PROVE  Coherent'
    <3>1. LocksFor(c, m)
      BY <2>2, <2>3, <2>4 DEF LocksFor, LockedPCs, SchedPCs, WakePCs
    <3>2. /\ Ordinary(m) /\ m \notin ForkPCs \cup KillPCs
          /\ m \in CalledPCs <=> pc[cpu[c]] \in CalledPCs
      BY <2>2 DEF SchedPCs, WakePCs, LockedPCs, CalledPCs, ForkPCs, KillPCs, Ordinary
    <3> QED
      BY <2>1, <2>4, <3>1, <3>2, QuietMove
  <2> QED
    BY <2>2, <2>4
<1>3. CASE trap_tick(c) /\ panic("acquire")
  BY <1>3, PanicOK
<1>4. CASE trap_tick(c) /\ ~panic("acquire")
  <2>0. cpu[c] # NULL /\ pc[cpu[c]] \in {"tick"}
    BY <1>4 DEF trap_tick, At, At, ticktock
  <2>9. WakesOthers(cpu[c]) /\ state'[cpu[c]] = state[cpu[c]]
    <3>1. cpu[c] \in Procs /\ state[cpu[c]] = "RUNNING"
      BY <2>0, Running DEF SchedPCs
    <3> QED
      BY <1>4, <3>1, WakeupWakes DEF trap_tick, IInv, ticktock
  <2>1. Quiet(c) /\ UNCHANGED <<stk, lp, tsig>>
    BY <1>4, <2>0, <2>9 DEF trap_tick, At, ticktock, Quiet, Ordinary, SchedPCs, argVars, thrVars
  <2>2. /\ pc[cpu[c]] \in {"tick"}
        /\ \E m \in {"intr_timer"} : Goto(c, m)
        /\ ptlock' = ptlock
    BY <1>4, <2>0 DEF trap_tick, At, ticktock
  <2>3. ptlock = c <=> pc[cpu[c]] \in LockedPCs
    BY <2>0, Running
  <2>4. ASSUME NEW m \in {"intr_timer"}, Goto(c, m), ptlock' = ptlock
       PROVE  Coherent'
    <3>1. LocksFor(c, m)
      BY <2>2, <2>3, <2>4 DEF LocksFor, LockedPCs, SchedPCs, WakePCs
    <3>2. /\ Ordinary(m) /\ m \notin ForkPCs \cup KillPCs
          /\ m \in CalledPCs <=> pc[cpu[c]] \in CalledPCs
      BY <2>2 DEF SchedPCs, WakePCs, LockedPCs, CalledPCs, ForkPCs, KillPCs, Ordinary
    <3> QED
      BY <2>1, <2>4, <3>1, <3>2, QuietMove
  <2> QED
    BY <2>2, <2>4
<1>5. CASE trap_intr_killed(c) /\ doomed(cpu[c])
  <2>0. /\ cpu[c] \in Procs /\ stk \in [Procs -> Seq(Caller)]
        /\ killed \in [Procs -> BOOLEAN] /\ lp \in [Procs -> Procs \cup {NULL}]
        /\ tsig \in [Procs -> Signals \cup {0}]
    BY <1>5, MyProc DEF trap_intr_killed, At, IInv, TypeOK, ProcTypes, ThreadTypes,
      ArgTypes
  <2>1. Quiet(c) /\ pc[cpu[c]] \in {"intr_timer", "intr_device", "intr_killed2"}
        /\ Goto(c, "exit") /\ UNCHANGED ptlock
    BY <1>5, <2>0 DEF trap_intr_killed, At, Quiet, WakesOthers, Ordinary, SchedPCs, procVars,
      argVars
  <2>2. cpu[c] \in Procs /\ stk'[cpu[c]] = <<>> /\ ptlock # c
    BY <1>5, <2>1, Running DEF trap_intr_killed, IInv, TypeOK, ThreadTypes, Quiet,
      LockedPCs, SchedPCs, WakePCs
  <2>3. StackOK("exit", <<>>) /\ BaseOf("exit", <<>>) = "exit"
    BY EmptyOK DEF CalledPCs
  <2>4. KeepsCall(cpu[c], "exit")
    BY <2>2, <2>3 DEF KeepsCall, ForkPCs, KillPCs
  <2>5. LocksFor(c, "exit") /\ Ordinary("exit")
    BY <2>1, <2>2 DEF LocksFor, Ordinary, LockedPCs, SchedPCs, WakePCs
  <2> QED
    BY <2>1, <2>2, <2>3, <2>4, <2>5, QuietLocal, LocalOK
<1>6. CASE trap_intr_killed(c) /\ ~doomed(cpu[c])
  <2>0. cpu[c] # NULL /\ pc[cpu[c]] \in {"intr_timer", "intr_device", "intr_killed2"}
    BY <1>6 DEF trap_intr_killed, At, AfterKilled
  <2>1. Quiet(c) /\ UNCHANGED <<stk, lp, tsig>>
    BY <1>6, <2>0 DEF trap_intr_killed, AfterKilled, Quiet, WakesOthers, Ordinary, SchedPCs,
      procVars, argVars, thrVars
  <2>2. /\ pc[cpu[c]] \in {"intr_timer", "intr_device", "intr_killed2"}
        /\ \E m \in {"yield", "intr_killed2", "intr_sig"} : Goto(c, m)
        /\ ptlock' = ptlock
    BY <1>6, <2>0, SMTT(60) DEF trap_intr_killed, AfterKilled
  <2>3. ptlock = c <=> pc[cpu[c]] \in LockedPCs
    BY <2>0, Running
  <2>4. ASSUME NEW m \in {"yield", "intr_killed2", "intr_sig"}, Goto(c, m), ptlock' = ptlock
       PROVE  Coherent'
    <3>1. LocksFor(c, m)
      BY <2>2, <2>3, <2>4 DEF LocksFor, LockedPCs, SchedPCs, WakePCs
    <3>2. /\ Ordinary(m) /\ m \notin ForkPCs \cup KillPCs
          /\ m \in CalledPCs <=> pc[cpu[c]] \in CalledPCs
      BY <2>2 DEF SchedPCs, WakePCs, LockedPCs, CalledPCs, ForkPCs, KillPCs, Ordinary
    <3> QED
      BY <2>1, <2>4, <3>1, <3>2, QuietMove
  <2> QED
    BY <2>2, <2>4
<1>7. CASE trap_intr_sig(c)
  <2>1. /\ Quiet(c) /\ UNCHANGED <<lp, tsig, ptlock>>
        /\ pc[cpu[c]] = "intr_sig" /\ cpu[c] \in Procs
        /\ stk \in [Procs -> Seq(Caller)]
    BY <1>7, MyProc DEF IInv, TypeOK, ThreadTypes, trap_intr_sig, CallPsig, At, Quiet,
      WakesOthers,
      Ordinary, SchedPCs, procVars, argVars
  <2>2. ptlock # c
    BY <2>1, Running DEF Quiet, LockedPCs, SchedPCs, WakePCs
  <2>3. CASE CallPsig(c, "intr_ret")
    <3>1. stk'[cpu[c]] = <<<<"intr_ret", isig[cpu[c]]>>>> \o stk[cpu[c]] /\ Goto(c, "psig")
      BY <2>1, <2>3 DEF CallPsig
    <3>2. /\ "psig" \in CalledPCs
          /\ "psig" \notin LockedPCs /\ "intr_ret" \notin LockedPCs /\ "intr_sig" \notin LockedPCs
          /\ "intr_ret" \in CalledPCs <=> "intr_sig" \in CalledPCs
          /\ "intr_ret" \notin ForkPCs \cup KillPCs
      BY DEF SchedPCs, WakePCs, LockedPCs, CalledPCs, ForkPCs, KillPCs, Ordinary
    <3> QED
      BY <2>1, <3>1, <3>2, QuietPush
  <2>4. CASE Goto(c, "intr_ret") /\ UNCHANGED stk
    <3>1. LocksFor(c, "intr_ret")
      BY <2>1, <2>2 DEF LocksFor, LockedPCs, SchedPCs, WakePCs
    <3>2. /\ Ordinary("intr_ret") /\ "intr_ret" \notin ForkPCs \cup KillPCs
          /\ "intr_ret" \in CalledPCs <=> "intr_sig" \in CalledPCs
      BY DEF SchedPCs, WakePCs, LockedPCs, CalledPCs, ForkPCs, KillPCs, Ordinary
    <3> QED
      BY <2>1, <2>4, <3>1, <3>2, QuietMove
  <2> QED
    BY <1>7, <2>1, <2>3, <2>4 DEF trap_intr_sig, At
<1>8. CASE trap_intr_ret(c)
  <2>1. Quiet(c) /\ UNCHANGED <<lp, tsig, ptlock>> /\ pc[cpu[c]] = "intr_ret"
    <3>1. cpu[c] \in Procs /\ stk \in [Procs -> Seq(Caller)]
      BY <1>8, MyProc DEF trap_intr_ret, At, IInv, TypeOK, ThreadTypes
    <3> QED
      BY <1>8, <3>1 DEF trap_intr_ret, Return, At, Quiet, WakesOthers, Ordinary, SchedPCs,
        procVars, argVars
  <2>2. "intr_ret" \in CalledPCs /\ "intr_ret" \notin LockedPCs
    BY DEF CalledPCs, LockedPCs, SchedPCs, WakePCs
  <2>3. ptlock # c
    BY <2>1, <2>2, Running DEF Quiet
  <2> QED
    BY <1>8, <2>1, <2>2, <2>3, QuietPop DEF trap_intr_ret
<1> QED
  BY <1>1, <1>2, <1>3, <1>4, <1>5, <1>6, <1>7, <1>8 DEF TrapStep

(* Steps out of user code. *)
LEMMA UserCoherent ==
  ASSUME IInv, NEW c \in CPUs, UserStep(c), TypeOK'
  PROVE  Coherent'
<1>1. ASSUME NEW op \in SysCalls, trap_syscall(c, op)
     PROVE  Coherent'
  <2>1. Quiet(c) /\ UNCHANGED <<stk, lp, tsig, ptlock>> /\ pc[cpu[c]] = "user"
    BY <1>1 DEF trap_syscall, At, Quiet, WakesOthers, Ordinary, SchedPCs, procVars, argVars,
      thrVars
  <2>2. ptlock # c
    BY <2>1, Running DEF Quiet, LockedPCs, SchedPCs, WakePCs
  <2>3. PICK m \in SysCalls : Goto(c, m)
    BY <1>1 DEF trap_syscall, SysCalls
  <2>4. /\ Ordinary(m) /\ m \notin ForkPCs \cup KillPCs
        /\ m \notin CalledPCs /\ "user" \notin CalledPCs /\ m \notin LockedPCs
    BY DEF SysCalls, SchedPCs, WakePCs, LockedPCs, CalledPCs, ForkPCs, KillPCs, Ordinary
  <2>5. LocksFor(c, m)
    BY <2>1, <2>2, <2>4 DEF LocksFor
  <2> QED
    BY <2>1, <2>3, <2>4, <2>5, QuietMove
<1>2. CASE sigreturn(c) /\ UNCHANGED pc
  <2>1. UNCHANGED cohVars
    BY <1>2 DEF sigreturn, cohVars, procVars, argVars, thrVars
  <2> QED
    BY <2>1, SameOK DEF IInv
<1>3. CASE sigreturn(c) /\ Goto(c, "exit")
  <2>0. cpu[c] # NULL /\ pc[cpu[c]] \in {"user"}
    BY <1>3 DEF sigreturn, At
  <2>1. Quiet(c) /\ UNCHANGED <<stk, lp, tsig>>
    BY <1>3, <2>0 DEF sigreturn, Quiet, WakesOthers, Ordinary, SchedPCs, procVars, argVars,
      thrVars
  <2>2. /\ pc[cpu[c]] \in {"user"}
        /\ \E m \in {"exit"} : Goto(c, m)
        /\ ptlock' = ptlock
    BY <1>3, <2>0 DEF sigreturn
  <2>3. ptlock = c <=> pc[cpu[c]] \in LockedPCs
    BY <2>0, Running
  <2>4. ASSUME NEW m \in {"exit"}, Goto(c, m), ptlock' = ptlock
       PROVE  Coherent'
    <3>1. LocksFor(c, m)
      BY <2>2, <2>3, <2>4 DEF LocksFor, LockedPCs, SchedPCs, WakePCs
    <3>2. /\ Ordinary(m) /\ m \notin ForkPCs \cup KillPCs
          /\ m \in CalledPCs <=> pc[cpu[c]] \in CalledPCs
      BY <2>2 DEF SchedPCs, WakePCs, LockedPCs, CalledPCs, ForkPCs, KillPCs, Ordinary
    <3> QED
      BY <2>1, <2>4, <3>1, <3>2, QuietMove
  <2> QED
    BY <2>2, <2>4
<1>4. CASE trap_fault(c)
  <2>0. /\ cpu[c] \in Procs /\ stk \in [Procs -> Seq(Caller)]
        /\ killed \in [Procs -> BOOLEAN] /\ lp \in [Procs -> Procs \cup {NULL}]
        /\ tsig \in [Procs -> Signals \cup {0}]
    BY <1>4, MyProc DEF trap_fault, fault, At, IInv, TypeOK, ProcTypes, ThreadTypes,
      ArgTypes
  <2>1. Quiet(c) /\ pc[cpu[c]] \in {"user"} /\ Goto(c, "intr_device") /\ UNCHANGED ptlock
    BY <1>4, <2>0 DEF trap_fault, fault, At, Quiet, WakesOthers, Ordinary, SchedPCs,
      procVars, argVars
  <2>2. cpu[c] \in Procs /\ stk'[cpu[c]] = <<<<"user", 0>>>> /\ ptlock # c
    BY <1>4, <2>1, Running DEF trap_fault, fault, IInv, TypeOK, ThreadTypes, Quiet,
      LockedPCs, SchedPCs, WakePCs
  <2>3. StackOK("intr_device", <<<<"user", 0>>>>)
        /\ BaseOf("intr_device", <<<<"user", 0>>>>) = "user"
    BY SMTT(60) DEF StackOK, BaseOf, CalledPCs, LockedPCs, SchedPCs, WakePCs
  <2>4. KeepsCall(cpu[c], "intr_device")
    BY <2>2, <2>3 DEF KeepsCall, ForkPCs, KillPCs
  <2>5. LocksFor(c, "intr_device") /\ Ordinary("intr_device")
    BY <2>1, <2>2 DEF LocksFor, Ordinary, LockedPCs, SchedPCs, WakePCs
  <2> QED
    BY <2>1, <2>2, <2>3, <2>4, <2>5, QuietLocal, LocalOK
<1>5. CASE trap_overrun(c)
  <2>0. /\ cpu[c] \in Procs /\ stk \in [Procs -> Seq(Caller)]
        /\ killed \in [Procs -> BOOLEAN] /\ lp \in [Procs -> Procs \cup {NULL}]
        /\ tsig \in [Procs -> Signals \cup {0}]
    BY <1>5, MyProc DEF trap_overrun, fault, At, IInv, TypeOK, ProcTypes,
      ThreadTypes, ArgTypes
  <2>1. Quiet(c) /\ pc[cpu[c]] \in {"user"} /\ Goto(c, "intr_device") /\ UNCHANGED ptlock
    BY <1>5, <2>0 DEF trap_overrun, fault, At, Quiet, WakesOthers, Ordinary, SchedPCs,
      procVars, argVars
  <2>2. cpu[c] \in Procs /\ stk'[cpu[c]] = <<<<"user", 0>>>> /\ ptlock # c
    BY <1>5, <2>1, Running DEF trap_overrun, fault, IInv, TypeOK, ThreadTypes, Quiet,
      LockedPCs, SchedPCs, WakePCs
  <2>3. StackOK("intr_device", <<<<"user", 0>>>>)
        /\ BaseOf("intr_device", <<<<"user", 0>>>>) = "user"
    BY SMTT(60) DEF StackOK, BaseOf, CalledPCs, LockedPCs, SchedPCs, WakePCs
  <2>4. KeepsCall(cpu[c], "intr_device")
    BY <2>2, <2>3 DEF KeepsCall, ForkPCs, KillPCs
  <2>5. LocksFor(c, "intr_device") /\ Ordinary("intr_device")
    BY <2>1, <2>2 DEF LocksFor, Ordinary, LockedPCs, SchedPCs, WakePCs
  <2> QED
    BY <2>1, <2>2, <2>3, <2>4, <2>5, QuietLocal, LocalOK
<1> QED
  BY <1>1, <1>2, <1>3, <1>4, <1>5 DEF UserStep, sigreturn

(* An interrupt. *)
LEMMA IntrCoherent ==
  ASSUME IInv, NEW c \in CPUs, NEW dev \in {"intr_timer", "intr_device"}, trap_intr(c, dev), TypeOK'
  PROVE  Coherent'
<1>1. cpu[c] # NULL /\ (pc[cpu[c]] = "user" \/ ptlock # c)
  BY DEF trap_intr, Interrupt
<1>2. cpu[c] \in Procs /\ stk \in [Procs -> Seq(Caller)] /\ pc[cpu[c]] \notin LockedPCs
  BY <1>1, Running, MyProc DEF IInv, TypeOK, ThreadTypes, LockedPCs, SchedPCs, WakePCs
<1>3. Quiet(c) /\ UNCHANGED <<lp, tsig, ptlock>>
  BY <1>1, <1>2 DEF trap_intr, Interrupt, Quiet, WakesOthers, Ordinary, LockedPCs,
    WakePCs,
    procVars, argVars
<1>4. PICK m \in {"tick", "intr_timer", "intr_device"} : Goto(c, m)
  BY DEF trap_intr, Interrupt
<1>5. stk'[cpu[c]] = <<<<pc[cpu[c]], isig[cpu[c]]>>>> \o stk[cpu[c]]
  BY <1>2 DEF trap_intr, Interrupt
<1>6. m \in CalledPCs /\ m \notin LockedPCs
  BY DEF CalledPCs, LockedPCs, SchedPCs, WakePCs
<1> QED
  BY <1>1, <1>2, <1>3, <1>4, <1>5, <1>6, QuietPush

-----------------------------------------------------------------------------
(* A process that is not RUNNING is on a CPU only if that CPU holds         *)
(* ptable.lock.                                                             *)
LEMMA OffCpu ==
  ASSUME IInv, NEW c \in CPUs, NEW q \in Procs, state[q] # "RUNNING", cpu[c] = q
  PROVE  ptlock = c /\ pc[q] \in SchedPCs
<1>1. cpu[c] # NULL
  BY CpuIds
<1> QED
  BY <1>1 DEF IInv, Coherent, CpuInv, LockHandover, LockedPCs

(* scheduler() finds a process whose thread is where sched() left it.       *)
LEMMA SchedulerCoherent ==
  ASSUME IInv, NEW c \in CPUs, NEW q \in Procs, scheduler(c, q), TypeOK'
  PROVE  Coherent'
<1>1. /\ cpu[c] = NULL /\ ptlock = NoCPU /\ state[q] = "RUNNABLE"
      /\ state' = [state EXCEPT ![q] = "RUNNING"] /\ cpu' = [cpu EXCEPT ![c] = q] /\ ptlock' = c
      /\ UNCHANGED <<parent, chan, killed, pc, stk, lp, tsig>>
  BY DEF scheduler, argVars, thrVars
<1>2. /\ state \in [Procs -> States] /\ cpu \in [CPUs -> Procs \cup {NULL}]
      /\ parent \in [Procs -> Procs \cup {NULL}]
  BY DEF IInv, TypeOK, ProcTypes, GlobalTypes
<1>3. \A d \in CPUs : cpu[d] # q
  BY <1>1, OffCpu, CpuIds
<1>4. pc[q] \in WakePCs
  BY <1>1, <1>3 DEF IInv, Coherent, CpuInv
<1>5. \A r \in Procs : Live(r)' <=> Live(r)
  BY <1>1, <1>2 DEF Live
<1>6. ThreadInv'
  BY <1>1, <1>2 DEF IInv, Coherent, ThreadInv
<1>7. CpuInv'
  <2>1. LockHandover'
    BY <1>1, <1>2, <1>3, <1>4, CpuIds DEF IInv, Coherent, CpuInv, LockHandover,
      LockedPCs
  <2>2. \A d, e \in CPUs : cpu'[d] = cpu'[e] /\ cpu'[d] # NULL => d = e
    BY <1>1, <1>2, <1>3 DEF IInv, Coherent, CpuInv
  <2>3. \A d \in CPUs : cpu'[d] # NULL =>
          /\ state'[cpu'[d]] \notin {"UNUSED", "EMBRYO"}
          /\ state'[cpu'[d]] = "RUNNING" <=> pc'[cpu'[d]] \notin SchedPCs
    <3> TAKE d \in CPUs
    <3>1. CASE d = c
      BY <1>1, <1>2, <1>4, <3>1 DEF WakePCs, SchedPCs
    <3>2. CASE d # c
      BY <1>1, <1>2, <1>3, <3>2, SMTT(60) DEF IInv, Coherent, CpuInv
    <3> QED
      BY <3>1, <3>2
  <2>4. \A r \in Procs : state'[r] = "RUNNING" => \E d \in CPUs : cpu'[d] = r
    <3> SUFFICES ASSUME NEW r \in Procs, state'[r] = "RUNNING"
                 PROVE  \E d \in CPUs : cpu'[d] = r
      OBVIOUS
    <3>1. CASE r = q
      BY <1>1, <1>2, <3>1
    <3>2. CASE r # q
      <4>1. PICK d \in CPUs : cpu[d] = r
        BY <1>1, <1>2, <3>2 DEF IInv, Coherent, CpuInv
      <4>2. d # c
        BY <1>1, <4>1, CpuIds
      <4> QED
        BY <1>1, <1>2, <4>1, <4>2
    <3> QED
      BY <3>1, <3>2
  <2>5. \A r \in Procs : state'[r] \in {"RUNNABLE", "SLEEPING"} =>
          pc'[r] \in WakePCs \/ \E d \in CPUs : cpu'[d] = r
    <3> SUFFICES ASSUME NEW r \in Procs, state'[r] \in {"RUNNABLE", "SLEEPING"},
                        pc[r] \notin WakePCs
                 PROVE  \E d \in CPUs : cpu'[d] = r
      BY <1>1
    <3>1. PICK d \in CPUs : cpu[d] = r
      BY <1>1, <1>2 DEF IInv, Coherent, CpuInv
    <3>2. d # c
      BY <1>1, <3>1, CpuIds
    <3> QED
      BY <1>1, <1>2, <3>1, <3>2
  <2> QED
    BY <2>1, <2>2, <2>3, <2>4, <2>5 DEF CpuInv
<1>8. \A r \in Procs : Base(r)' = Base(r)
  BY <1>1 DEF Base, BaseOf
<1>9. ForkInv' /\ KillInv'
  BY <1>1, <1>2, <1>8, SMTT(60) DEF IInv, Coherent, ForkInv, KillInv
<1>10. ChanInv'
  BY <1>1 DEF IInv, Coherent, ChanInv
<1>11. FamilyInv'
  <2>1. FamilyInv
    BY DEF IInv, Coherent
  <2>2. Live(initproc)' /\ FamilyTree'
    BY <1>1, <1>2, <1>5, <2>1, CpuIds DEF FamilyInv, FamilyTree
  <2> QED
    BY <1>1, <1>2, <2>1, <2>2 DEF FamilyInv
<1> QED
  BY <1>6, <1>7, <1>9, <1>10, <1>11 DEF Coherent

(* sched() leaves the CPU with the state of the process already changed.    *)
LEMMA SchedCoherent1 ==
  ASSUME IInv, NEW c \in CPUs, sched(c), TypeOK'
  PROVE  Coherent'
<1> DEFINE p == cpu[c]
<1>1. CASE panic("sched_locks")
  BY <1>1, PanicOK
<1>2. CASE ~panic("sched_locks")
  <2>1. /\ p # NULL /\ pc[p] \in SchedPCs
        /\ cpu' = [cpu EXCEPT ![c] = NULL] /\ ptlock' = NoCPU
        /\ UNCHANGED <<state, parent, chan, killed, stk, lp, tsig>>
    BY <1>2 DEF sched, procVars, argVars, thrVars
  <2>2. PICK r \in AfterSched : pc[p] = r[1] /\ Goto(c, r[2])
    BY <1>2 DEF sched
  <2> DEFINE m == r[2]
  <2>3. /\ p \in Procs /\ cpu \in [CPUs -> Procs \cup {NULL}] /\ pc \in [Procs -> PCs]
        /\ ptlock = c /\ StackOK(pc[p], stk[p]) /\ chan[p] = ChanOf(pc[p], p)
        /\ \A d \in CPUs : d # c => cpu[d] # p
    BY <2>1, Running DEF IInv, TypeOK, PcTypes, GlobalTypes, LockedPCs
  <2>4. /\ m \in WakePCs
        /\ m \in CalledPCs <=> pc[p] \in CalledPCs
        /\ ChanOf(m, p) = ChanOf(pc[p], p)
        /\ pc[p] \notin ForkPCs \cup KillPCs /\ m \notin ForkPCs \cup KillPCs
        /\ m \in {"wait_sched", "wait_wake"} => pc[p] \in {"wait_sched", "wait_wake"}
        /\ pc[p] \in {"exit_sched", "exit_ret", "forkret"} => m = "exit_ret"
    BY <2>1, <2>2, SMTT(60) DEF AfterSched, WakePCs, CalledPCs, ChanOf, ForkPCs, KillPCs, SchedPCs
  <2>5. pc'[p] = m /\ \A q \in Procs \ {p} : pc'[q] = pc[q]
    BY <2>2, <2>3 DEF Goto
  <2>6. state[p] \notin {"RUNNING", "UNUSED", "EMBRYO"}
    BY <2>1 DEF IInv, Coherent, CpuInv
  <2> HIDE DEF p, m
  <2>7. /\ StackOK(m, stk[p])
        /\ BaseOf(m, stk[p]) = Base(p) \/ BaseOf(m, stk[p]) \notin ForkPCs \cup KillPCs
    BY <2>3, <2>4, MoveOK, SMTT(60) DEF Base
  <2>8. ThreadInv'
    <3>1. \A q \in Procs : StackOK(pc[q], stk[q])'
      BY <2>1, <2>5, <2>7 DEF IInv, Coherent, ThreadInv
    <3>2. \A q \in Procs : state'[q] \in {"UNUSED", "EMBRYO", "ZOMBIE"} =>
            pc'[q] \in {"exit_sched", "exit_ret", "forkret"}
      BY <2>1, <2>3, <2>4, <2>5 DEF IInv, Coherent, ThreadInv
    <3> QED
      BY <3>1, <3>2 DEF ThreadInv
  <2>9. CpuInv'
    <3>1. \A d \in CPUs : d # c /\ cpu[d] # NULL => cpu[d] \in Procs \ {p} /\ cpu'[d] = cpu[d]
      BY <2>1, <2>3
    <3>2. LockHandover'
      <4> SUFFICES ASSUME NEW d \in CPUs
                   PROVE  ~(cpu'[d] # NULL /\ pc'[cpu'[d]] \in LockedPCs)
        BY <2>1, CpuIds DEF LockHandover
      <4>1. CASE d = c
        BY <2>1, <2>3, <4>1
      <4>2. CASE d # c
        <5>1. ~(cpu[d] # NULL /\ pc[cpu[d]] \in LockedPCs)
          BY <2>3, <4>2 DEF IInv, Coherent, CpuInv, LockHandover
        <5>2. cpu'[d] = cpu[d]
          BY <2>1, <2>3, <4>2
        <5> QED
          BY <2>5, <3>1, <4>2, <5>1, <5>2
      <4> QED
        BY <4>1, <4>2
    <3>3. \A d, e \in CPUs : cpu'[d] = cpu'[e] /\ cpu'[d] # NULL => d = e
      BY <2>1, <2>3 DEF IInv, Coherent, CpuInv
    <3>4. \A d \in CPUs : cpu'[d] # NULL =>
            /\ state'[cpu'[d]] \notin {"UNUSED", "EMBRYO"}
            /\ state'[cpu'[d]] = "RUNNING" <=> pc'[cpu'[d]] \notin SchedPCs
      <4> SUFFICES ASSUME NEW d \in CPUs, cpu'[d] # NULL
                   PROVE  /\ state[cpu[d]] \notin {"UNUSED", "EMBRYO"}
                          /\ state[cpu[d]] = "RUNNING" <=> pc[cpu[d]] \notin SchedPCs
                          /\ pc'[cpu[d]] = pc[cpu[d]] /\ cpu'[d] = cpu[d]
        BY <2>1
      <4>1. d # c /\ cpu[d] # NULL
        BY <2>1, <2>3
      <4> QED
        BY <2>5, <3>1, <4>1 DEF IInv, Coherent, CpuInv
    <3>5. \A q \in Procs : state'[q] = "RUNNING" => \E d \in CPUs : cpu'[d] = q
      <4> SUFFICES ASSUME NEW q \in Procs, state[q] = "RUNNING"
                   PROVE  \E d \in CPUs : cpu'[d] = q
        BY <2>1
      <4>1. PICK d \in CPUs : cpu[d] = q
        BY DEF IInv, Coherent, CpuInv
      <4> QED
        BY <2>1, <2>3, <2>6, <4>1 DEF p
    <3>6. \A q \in Procs : state'[q] \in {"RUNNABLE", "SLEEPING"} =>
            pc'[q] \in WakePCs \/ \E d \in CPUs : cpu'[d] = q
      <4> SUFFICES ASSUME NEW q \in Procs, q # p, state[q] \in {"RUNNABLE", "SLEEPING"},
                          pc[q] \notin WakePCs
                   PROVE  \E d \in CPUs : cpu'[d] = q
        BY <2>1, <2>4, <2>5
      <4>1. PICK d \in CPUs : cpu[d] = q
        BY DEF IInv, Coherent, CpuInv
      <4> QED
        BY <2>1, <2>3, <4>1 DEF p
    <3> QED
      BY <3>2, <3>3, <3>4, <3>5, <3>6 DEF CpuInv
  <2>10. \A q \in Procs : Base(q)' = Base(q) \/ Base(q)' \notin ForkPCs \cup KillPCs
    BY <2>1, <2>5, <2>7 DEF Base, BaseOf
  <2>11. ForkInv'
    <3>1. \A q \in Procs : Base(q)' \in ForkPCs => Base(q)' = Base(q)
      BY <2>10
    <3>2. \A q \in Procs : Base(q) \in ForkPCs => lp[q] \in Procs /\ pc'[lp[q]] = pc[lp[q]]
      BY <2>5, <2>6 DEF IInv, Coherent, ForkInv
    <3> QED
      BY <2>1, <3>1, <3>2, SMTT(60) DEF IInv, Coherent, ForkInv
  <2>12. KillInv'
    BY <2>1, <2>10 DEF IInv, Coherent, KillInv
  <2>13. ChanInv'
    BY <2>1, <2>3, <2>4, <2>5 DEF IInv, Coherent, ChanInv
  <2>14. FamilyInv'
    <3>1. Live(initproc)' /\ FamilyTree'
      BY <2>1 DEF IInv, Coherent, FamilyInv, FamilyTree, Live
    <3>2. \A q \in Procs : pc'[q] \in {"wait_sched", "wait_wake"} =>
            pc[q] \in {"wait_sched", "wait_wake"}
      BY <2>4, <2>5
    <3> QED
      BY <2>1, <3>1, <3>2 DEF IInv, Coherent, FamilyInv
  <2> QED
    BY <2>8, <2>9, <2>11, <2>12, <2>13, <2>14 DEF Coherent
<1> QED
  BY <1>1, <1>2

(* yield(), sched() and forkret(). *)
LEMMA SchedCoherent ==
  ASSUME IInv, NEW c \in CPUs, SchedStep(c), TypeOK'
  PROVE  Coherent'
<1>1. CASE yield(c)
  <2>1. cpu[c] # NULL /\ pc[cpu[c]] = "yield"
    BY <1>1 DEF yield, At
  <2>2. /\ cpu[c] \in Procs /\ StackOK("yield", stk[cpu[c]])
           /\ chan[cpu[c]] = ChanOf("yield", cpu[c])
        /\ pc \in [Procs -> PCs] /\ chan \in [Procs -> Procs \cup {NULL, TicksChan}]
        /\ state \in [Procs -> States]
    BY <2>1, Running DEF IInv, TypeOK, ProcTypes, PcTypes
  <2>3. /\ StackOK("yield_sched", stk[cpu[c]])
        /\ BaseOf("yield_sched", stk[cpu[c]]) \in {Base(cpu[c]), "yield_sched"}
    <3>1. "yield" \in CalledPCs <=> "yield_sched" \in CalledPCs
      BY DEF CalledPCs
    <3> QED
      BY <2>1, <2>2, <3>1, MoveOK, SMTT(60) DEF Base
  <2>4. UNCHANGED <<stk, lp, tsig, killed, parent, cpu>>
    BY <1>1 DEF yield, procVars, argVars, thrVars
  <2>5. MovesThread(cpu[c], "yield_sched")
    BY <1>1, <2>1, <2>2, <2>3, <2>4 DEF yield, MovesThread, Goto, ChanOf, procVars
  <2>6. WakesOthers(cpu[c]) /\ NewState(cpu[c], "yield_sched")
    BY <1>1, <2>1, <2>2, <2>4, Running DEF yield, WakesOthers, NewState, SchedPCs,
      procVars
  <2>7. LocksFor(c, "yield_sched") /\ WaitsFor(cpu[c], "yield_sched")
    BY <1>1, <2>1, <2>2, Running DEF yield, LocksFor, WaitsFor, LockedPCs, SchedPCs,
      WakePCs
  <2>8. KeepsCall(cpu[c], "yield_sched")
    BY <2>3, <2>4 DEF KeepsCall, ForkPCs, KillPCs
  <2> QED
    BY <2>1, <2>4, <2>5, <2>6, <2>7, <2>8, LocalOK DEF LocalStep, SchedPCs
<1>2. CASE yield_ret(c)
  <2>0. cpu[c] # NULL /\ pc[cpu[c]] \in {"yield_ret"}
    BY <1>2 DEF yield_ret, At
  <2>1. Quiet(c) /\ UNCHANGED <<stk, lp, tsig>>
    BY <1>2, <2>0 DEF yield_ret, Quiet, WakesOthers, Ordinary, SchedPCs, procVars, argVars,
      thrVars
  <2>2. /\ pc[cpu[c]] \in {"yield_ret"}
        /\ \E m \in {"intr_killed2"} : Goto(c, m)
        /\ ptlock' = NoCPU
    BY <1>2, <2>0 DEF yield_ret
  <2>3. ptlock = c <=> pc[cpu[c]] \in LockedPCs
    BY <2>0, Running
  <2>4. ASSUME NEW m \in {"intr_killed2"}, Goto(c, m), ptlock' = NoCPU
       PROVE  Coherent'
    <3>1. LocksFor(c, m)
      BY <2>2, <2>3, <2>4 DEF LocksFor, LockedPCs, SchedPCs, WakePCs
    <3>2. /\ Ordinary(m) /\ m \notin ForkPCs \cup KillPCs
          /\ m \in CalledPCs <=> pc[cpu[c]] \in CalledPCs
      BY <2>2 DEF SchedPCs, WakePCs, LockedPCs, CalledPCs, ForkPCs, KillPCs, Ordinary
    <3> QED
      BY <2>1, <2>4, <3>1, <3>2, QuietMove
  <2> QED
    BY <2>2, <2>4
<1>3. CASE sched(c)
  BY <1>3, SchedCoherent1
<1>4. CASE forkret(c)
  <2>0. cpu[c] # NULL /\ pc[cpu[c]] \in {"forkret"}
    BY <1>4 DEF forkret, At
  <2>1. Quiet(c) /\ UNCHANGED <<stk, lp, tsig>>
    BY <1>4, <2>0 DEF forkret, Quiet, WakesOthers, Ordinary, SchedPCs, procVars, argVars, thrVars
  <2>2. /\ pc[cpu[c]] \in {"forkret"}
        /\ \E m \in {"user"} : Goto(c, m)
        /\ ptlock' = NoCPU
    BY <1>4, <2>0 DEF forkret
  <2>3. ptlock = c <=> pc[cpu[c]] \in LockedPCs
    BY <2>0, Running
  <2>4. ASSUME NEW m \in {"user"}, Goto(c, m), ptlock' = NoCPU
       PROVE  Coherent'
    <3>1. LocksFor(c, m)
      BY <2>2, <2>3, <2>4 DEF LocksFor, LockedPCs, SchedPCs, WakePCs
    <3>2. /\ Ordinary(m) /\ m \notin ForkPCs \cup KillPCs
          /\ m \in CalledPCs <=> pc[cpu[c]] \in CalledPCs
      BY <2>2 DEF SchedPCs, WakePCs, LockedPCs, CalledPCs, ForkPCs, KillPCs, Ordinary
    <3> QED
      BY <2>1, <2>4, <3>1, <3>2, QuietMove
  <2> QED
    BY <2>2, <2>4
<1> QED
  BY <1>1, <1>2, <1>3, <1>4 DEF SchedStep

-----------------------------------------------------------------------------
(* fork() works on a slot np that is not yet a process: the parent goes     *)
(* from one point of fork() to the next, and only np changes in the table.  *)
SlotStep(c, m, np) ==
  LET p == cpu[c]
  IN  /\ p # NULL /\ np \in Procs
      /\ pc[p] \in ForkPCs \cup {"fork"} /\ m \in ForkPCs \cup {"sysret"}
      /\ state[np] \in {"UNUSED", "EMBRYO"}
      /\ UNCHANGED <<cpu, ptlock, stk, chan, killed, tsig>>
      /\ pc'[p] = m
      /\ \A q \in Procs \ {p} : lp'[q] = lp[q]
      /\ \A q \in Procs \ {p, np} : pc'[q] = pc[q]
      /\ \A q \in Procs \ {np} : state'[q] = state[q] /\ parent'[q] = parent[q]
      /\ pc'[np] \in {pc[np], "forkret"}
      /\ \/ state'[np] = "UNUSED" /\ parent'[np] = NULL
         \/ state'[np] = "EMBRYO"
         \/ state'[np] = "RUNNABLE" /\ pc'[np] = "forkret" /\ parent'[np] = p
      /\ parent'[np] = parent[np] \/ (parent[np] = NULL /\ parent'[np] = p)
      /\ \A q \in Procs \ {p} : Base(q) \in ForkPCs => lp[q] # np
      /\ m \in ForkPCs =>
           /\ lp'[p] = np /\ state'[np] = "EMBRYO"
           /\ m # "fork_kstack" => pc'[np] = "forkret"
           /\ parent'[np] = IF m = "fork_run" THEN p ELSE NULL

LEMMA SlotOK ==
  ASSUME IInv, NEW c \in CPUs, NEW m, NEW np, SlotStep(c, m, np), TypeOK'
  PROVE  Coherent'
<1> DEFINE p == cpu[c]
<1>1. /\ p # NULL /\ np \in Procs
      /\ pc[p] \in ForkPCs \cup {"fork"} /\ m \in ForkPCs \cup {"sysret"}
      /\ state[np] \in {"UNUSED", "EMBRYO"}
      /\ cpu' = cpu /\ ptlock' = ptlock /\ stk' = stk /\ chan' = chan /\ killed' = killed
      /\ tsig' = tsig
      /\ pc'[p] = m
  BY DEF SlotStep
<1>2. /\ \A q \in Procs \ {p} : lp'[q] = lp[q]
      /\ \A q \in Procs \ {p, np} : pc'[q] = pc[q]
      /\ \A q \in Procs \ {np} : state'[q] = state[q] /\ parent'[q] = parent[q]
      /\ pc'[np] \in {pc[np], "forkret"}
  BY DEF SlotStep
<1>3. /\ \/ state'[np] = "UNUSED" /\ parent'[np] = NULL
         \/ state'[np] = "EMBRYO"
         \/ state'[np] = "RUNNABLE" /\ pc'[np] = "forkret" /\ parent'[np] = p
      /\ parent'[np] = parent[np] \/ (parent[np] = NULL /\ parent'[np] = p)
  BY DEF SlotStep
<1>4. /\ \A q \in Procs \ {p} : Base(q) \in ForkPCs => lp[q] # np
      /\ m \in ForkPCs =>
           /\ lp'[p] = np /\ state'[np] = "EMBRYO"
           /\ m # "fork_kstack" => pc'[np] = "forkret"
           /\ parent'[np] = IF m = "fork_run" THEN p ELSE NULL
  BY DEF SlotStep
<1>5. /\ pc[p] \notin CalledPCs \cup LockedPCs \cup SchedPCs
      /\ m \notin CalledPCs \cup LockedPCs \cup SchedPCs \cup KillPCs
      /\ m \notin {"wait_sched", "wait_wake"} /\ ChanOf(m, p) = ChanOf(pc[p], p)
  BY <1>1 DEF ForkPCs, CalledPCs, LockedPCs, SchedPCs, WakePCs, KillPCs, ChanOf
<1>6. /\ p \in Procs /\ state[p] = "RUNNING" /\ ptlock # c /\ stk[p] = <<>>
      /\ \A d \in CPUs : d # c => cpu[d] # p
  BY <1>1, <1>5, Running DEF StackOK
<1>7. /\ p # np
      /\ \A d \in CPUs : cpu[d] # np
      /\ pc[np] \in {"exit_sched", "exit_ret", "forkret"}
      /\ pc'[np] \in {"exit_sched", "exit_ret", "forkret"}
  BY <1>1, <1>2, <1>6, CpuIds DEF IInv, Coherent, CpuInv, ThreadInv
<1>8. pc'[np] # pc[np] => ChanOf(pc[np], np) = NULL /\ ChanOf("forkret", np) = NULL
  BY <1>7 DEF ChanOf
<1>9. stk[np] = <<>> /\ StackOK(pc'[np], <<>>) /\ StackOK(m, <<>>)
  <2>1. pc[np] \notin CalledPCs /\ pc'[np] \notin CalledPCs
    BY <1>7 DEF CalledPCs
  <2>2. StackOK(pc[np], stk[np])
    BY <1>1 DEF IInv, Coherent, ThreadInv
  <2> QED
    BY <1>5, <2>1, <2>2, EmptyOK DEF StackOK
<1>10. \A q \in Procs : Live(q) => Live(q)'
  BY <1>1, <1>2 DEF Live
<1>11. state'[p] = "RUNNING"
  BY <1>2, <1>6, <1>7
<1> HIDE DEF p
<1>12. ThreadInv'
  <2>1. \A q \in Procs : StackOK(pc[q], stk[q])'
    <3> SUFFICES ASSUME NEW q \in Procs PROVE StackOK(pc'[q], stk[q])
      BY <1>1
    <3>1. CASE q \in {p, np}
      BY <1>1, <1>6, <1>9, <3>1
    <3>2. CASE q \notin {p, np}
      BY <1>2, <3>2 DEF IInv, Coherent, ThreadInv
    <3> QED
      BY <3>1, <3>2
  <2>2. \A q \in Procs : state'[q] \in {"UNUSED", "EMBRYO", "ZOMBIE"} =>
          pc'[q] \in {"exit_sched", "exit_ret", "forkret"}
    BY <1>2, <1>7, <1>11 DEF IInv, Coherent, ThreadInv
  <2> QED
    BY <2>1, <2>2 DEF ThreadInv
<1>13. CpuInv'
  <2>1. \A d \in CPUs : d # c /\ cpu[d] # NULL =>
          cpu[d] \in Procs \ {p, np} /\ pc'[cpu[d]] = pc[cpu[d]] /\ state'[cpu[d]] = state[cpu[d]]
    BY <1>2, <1>6, <1>7, MyProc DEF IInv
  <2>2. LockHandover'
    <3> SUFFICES ASSUME NEW d \in CPUs
                 PROVE  ptlock = d <=> cpu[d] # NULL /\ pc'[cpu[d]] \in LockedPCs
      BY <1>1 DEF LockHandover
    <3>1. CASE d = c
      BY <1>1, <1>5, <1>6, <3>1 DEF p
    <3>2. CASE d # c
      BY <2>1, <3>2 DEF IInv, Coherent, CpuInv, LockHandover
    <3> QED
      BY <3>1, <3>2
  <2>3. \A d, e \in CPUs : cpu'[d] = cpu'[e] /\ cpu'[d] # NULL => d = e
    BY <1>1 DEF IInv, Coherent, CpuInv
  <2>4. \A d \in CPUs : cpu'[d] # NULL =>
          /\ state'[cpu'[d]] \notin {"UNUSED", "EMBRYO"}
          /\ state'[cpu'[d]] = "RUNNING" <=> pc'[cpu'[d]] \notin SchedPCs
    <3> SUFFICES ASSUME NEW d \in CPUs, cpu[d] # NULL
                 PROVE  /\ state'[cpu[d]] \notin {"UNUSED", "EMBRYO"}
                        /\ state'[cpu[d]] = "RUNNING" <=> pc'[cpu[d]] \notin SchedPCs
      BY <1>1
    <3>1. CASE d = c
      BY <1>1, <1>5, <1>11, <3>1 DEF p
    <3>2. CASE d # c
      BY <2>1, <3>2 DEF IInv, Coherent, CpuInv
    <3> QED
      BY <3>1, <3>2
  <2>5. \A q \in Procs : state'[q] = "RUNNING" => \E d \in CPUs : cpu'[d] = q
    BY <1>1, <1>2, <1>3 DEF IInv, Coherent, CpuInv
  <2>6. \A q \in Procs : state'[q] \in {"RUNNABLE", "SLEEPING"} =>
          pc'[q] \in WakePCs \/ \E d \in CPUs : cpu'[d] = q
    <3> SUFFICES ASSUME NEW q \in Procs, state'[q] \in {"RUNNABLE", "SLEEPING"}
                 PROVE  pc'[q] \in WakePCs \/ \E d \in CPUs : cpu[d] = q
      BY <1>1
    <3>1. CASE q = np
      BY <1>3, <3>1 DEF WakePCs
    <3>2. CASE q # np
      BY <1>2, <1>11, <3>2 DEF IInv, Coherent, CpuInv
    <3> QED
      BY <3>1, <3>2
  <2> QED
    BY <2>2, <2>3, <2>4, <2>5, <2>6 DEF CpuInv
<1>14. /\ \A q \in Procs : q = p => Base(q)' = m
       /\ \A q \in Procs : q = np => Base(q) \notin ForkPCs \cup KillPCs
                                   /\ Base(q)' \notin ForkPCs \cup KillPCs
       /\ \A q \in Procs \ {p, np} : Base(q)' = Base(q)
  BY <1>1, <1>2, <1>6, <1>7, <1>9 DEF Base, BaseOf, ForkPCs, KillPCs
<1>15. ForkInv'
  <2> SUFFICES ASSUME NEW q \in Procs, Base(q)' \in ForkPCs
               PROVE  /\ lp'[q] \in Procs
                      /\ state'[lp'[q]] = "EMBRYO"
                      /\ Base(q)' # "fork_kstack" => pc'[lp'[q]] = "forkret"
                      /\ parent'[lp'[q]] = IF Base(q)' = "fork_run" THEN q ELSE NULL
                      /\ \A r \in Procs : Base(r)' \in ForkPCs /\ lp'[r] = lp'[q] => r = q
    BY DEF ForkInv
  <2>0. \A r \in Procs \ {p} : Base(r)' \in ForkPCs =>
          Base(r) = Base(r)' /\ lp'[r] = lp[r] /\ lp[r] # np
    BY <1>2, <1>4, <1>14
  <2>1. CASE q = p
    BY <1>1, <1>4, <1>14, <2>0, <2>1
  <2>2. CASE q # p
    <3>1. /\ Base(q) = Base(q)' /\ lp'[q] = lp[q] /\ lp[q] # np
      BY <2>0, <2>2
    <3>2. /\ lp[q] \in Procs /\ state[lp[q]] = "EMBRYO"
          /\ Base(q) # "fork_kstack" => pc[lp[q]] = "forkret"
          /\ parent[lp[q]] = IF Base(q) = "fork_run" THEN q ELSE NULL
          /\ \A r \in Procs : Base(r) \in ForkPCs /\ lp[r] = lp[q] => r = q
      BY <3>1 DEF IInv, Coherent, ForkInv
    <3>3. lp[q] # p
      BY <1>6, <3>2
    <3>4. \A r \in Procs : Base(r)' \in ForkPCs /\ lp'[r] = lp'[q] => r = q
      BY <1>4, <1>14, <2>0, <3>1, <3>2
    <3> QED
      BY <1>2, <3>1, <3>2, <3>3, <3>4
  <2> QED
    BY <2>1, <2>2
<1>16. KillInv'
  BY <1>1, <1>2, <1>5, <1>14 DEF IInv, Coherent, KillInv
<1>17. ChanInv'
  <2> SUFFICES ASSUME NEW q \in Procs PROVE chan[q] = ChanOf(pc'[q], q)
    BY <1>1 DEF ChanInv
  <2>1. chan[q] = ChanOf(pc[q], q)
    BY DEF IInv, Coherent, ChanInv
  <2> QED
    BY <1>1, <1>2, <1>5, <1>8, <2>1
<1>18. FamilyInv'
  <2>0. FamilyInv /\ parent \in [Procs -> Procs \cup {NULL}]
    BY DEF IInv, Coherent, TypeOK, ProcTypes
  <2>1. initproc \in Procs /\ initproc # np
    BY <1>1, <2>0, CpuIds DEF FamilyInv, Live
  <2>2. Live(initproc)' /\ parent'[initproc] = NULL
    BY <1>2, <1>10, <2>0, <2>1 DEF FamilyInv
  <2>3. FamilyTree'
    <3> SUFFICES ASSUME NEW q \in Procs \ {initproc}, Live(q)' \/ state'[q] = "ZOMBIE"
                 PROVE  parent'[q] # NULL /\ Live(parent[q])'
      BY DEF FamilyTree
    <3>1. CASE q = np
      <4>1. parent'[q] = p
        BY <1>3, <3>1 DEF Live
      <4> QED
        BY <1>1, <1>11, <4>1 DEF Live, p
    <3>2. CASE q # np
      <4>1. parent'[q] = parent[q] /\ (Live(q) \/ state[q] = "ZOMBIE")
        BY <1>2, <3>2 DEF Live
      <4>2. parent[q] # NULL /\ Live(parent[q])
        BY <2>0, <4>1 DEF FamilyInv, FamilyTree
      <4>3. parent[q] \in Procs /\ parent[q] # np
        BY <1>1, <2>0, <4>2 DEF Live
      <4>4. state'[parent[q]] = state[parent[q]]
        BY <1>2, <4>3
      <4> QED
        BY <4>1, <4>2, <4>4 DEF Live
    <3> QED
      BY <3>1, <3>2
  <2>4. \A q \in Procs : parent'[q] # q
    BY <1>2, <1>3, <1>7, <2>0, SMTT(60) DEF FamilyInv
  <2>5. \A q \in Procs : state'[q] = "UNUSED" => parent'[q] = NULL
    BY <1>2, <1>3, <2>0 DEF FamilyInv
  <2>6. \A q \in Procs : state'[q] = "SLEEPING" /\ pc'[q] \in {"wait_sched", "wait_wake"} =>
          /\ ~killed'[q]
          /\ \E r \in Procs : parent'[r] = q
          /\ \A r \in Procs : parent'[r] = q => state'[r] # "ZOMBIE"
    <3> SUFFICES ASSUME NEW q \in Procs, state'[q] = "SLEEPING",
                        pc'[q] \in {"wait_sched", "wait_wake"}
                 PROVE  /\ ~killed[q]
                        /\ \E r \in Procs : parent'[r] = q
                        /\ \A r \in Procs : parent'[r] = q => state'[r] # "ZOMBIE"
      BY <1>1
    <3>1. q # p /\ q # np /\ state[q] = "SLEEPING" /\ pc[q] \in {"wait_sched", "wait_wake"}
      BY <1>2, <1>3, <1>11
    <3>2. /\ ~killed[q]
          /\ \E r \in Procs : parent[r] = q
          /\ \A r \in Procs : parent[r] = q => state[r] # "ZOMBIE"
      BY <2>0, <3>1 DEF FamilyInv
    <3>3. PICK r \in Procs : parent[r] = q
      BY <3>2
    <3>4. parent'[r] = q
      BY <1>2, <1>3, <3>3, CpuIds
    <3> QED
      BY <1>2, <1>3, <3>1, <3>2, <3>4
  <2> QED
    BY <2>2, <2>3, <2>4, <2>5, <2>6 DEF FamilyInv
<1> QED
  BY <1>12, <1>13, <1>15, <1>16, <1>17, <1>18 DEF Coherent

(* What fork() knows of its slot. *)
LEMMA ForkSlot ==
  ASSUME IInv, NEW c \in CPUs, cpu[c] # NULL, pc[cpu[c]] \in ForkPCs
  PROVE  LET p == cpu[c]
         IN  /\ p \in Procs /\ lp[p] \in Procs /\ lp[p] # p
             /\ state[lp[p]] = "EMBRYO"
             /\ pc[p] # "fork_kstack" => pc[lp[p]] = "forkret"
             /\ parent[lp[p]] = IF pc[p] = "fork_run" THEN p ELSE NULL
             /\ \A q \in Procs \ {p} : Base(q) \in ForkPCs => lp[q] # lp[p]
<1>1. pc[cpu[c]] \notin CalledPCs /\ pc[cpu[c]] \notin SchedPCs
  BY DEF ForkPCs, CalledPCs, SchedPCs
<1>2. cpu[c] \in Procs /\ state[cpu[c]] = "RUNNING" /\ Base(cpu[c]) = pc[cpu[c]]
  BY <1>1, Running DEF StackOK, Base, BaseOf
<1> QED
  BY <1>2 DEF IInv, Coherent, ForkInv

(* fork() and allocproc(). *)
LEMMA ForkCoherent ==
  ASSUME IInv, NEW c \in CPUs, ForkStep(c), TypeOK'
  PROVE  Coherent'
<1>0. /\ state \in [Procs -> States] /\ pc \in [Procs -> PCs]
      /\ lp \in [Procs -> Procs \cup {NULL}] /\ parent \in [Procs -> Procs \cup {NULL}]
  BY DEF IInv, TypeOK, ProcTypes, PcTypes, ArgTypes
<1>1. CASE allocproc(c) /\ Goto(c, "sysret") /\ UNCHANGED <<procVars, argVars>>
  <2>1. Quiet(c) /\ UNCHANGED <<stk, lp, tsig, ptlock>> /\ pc[cpu[c]] = "fork" /\ ptlock = NoCPU
    BY <1>1 DEF allocproc, At, Quiet, WakesOthers, Ordinary, SchedPCs, procVars,
      argVars, thrVars
  <2>2. LocksFor(c, "sysret")
    BY <2>1, CpuIds DEF LocksFor, LockedPCs, SchedPCs, WakePCs
  <2>3. /\ Ordinary("sysret") /\ "sysret" \notin ForkPCs \cup KillPCs
        /\ "sysret" \notin CalledPCs /\ "fork" \notin CalledPCs
    BY DEF SchedPCs, WakePCs, LockedPCs, CalledPCs, ForkPCs, KillPCs, Ordinary
  <2> QED
    BY <1>1, <2>1, <2>2, <2>3, QuietMove
<1>2. CASE allocproc(c) /\ ~(Goto(c, "sysret") /\ UNCHANGED <<procVars, argVars>>)
  <2>1. PICK np \in Procs :
          /\ state[np] = "UNUSED"
          /\ state' = [state EXCEPT ![np] = "EMBRYO"]
          /\ lp' = [lp EXCEPT ![cpu[c]] = np]
          /\ Goto(c, "fork_kstack")
          /\ UNCHANGED <<parent, chan, killed, tsig>>
    BY <1>2 DEF allocproc
  <2>2. /\ cpu[c] # NULL /\ pc[cpu[c]] = "fork" /\ UNCHANGED <<cpu, ptlock, stk>>
    BY <1>2 DEF allocproc, At, thrVars
  <2>3. cpu[c] \in Procs /\ state[cpu[c]] = "RUNNING"
    BY <2>2, Running DEF SchedPCs
  <2>4. parent[np] = NULL /\ \A q \in Procs : Base(q) \in ForkPCs => lp[q] # np
    BY <2>1 DEF IInv, Coherent, ForkInv, FamilyInv
  <2>5. SlotStep(c, "fork_kstack", np)
    BY <1>0, <2>1, <2>2, <2>3, <2>4 DEF SlotStep, Goto, ForkPCs
  <2> QED
    BY <2>5, SlotOK
<1>3. CASE fork_fail(c)
  <2>1. cpu[c] # NULL /\ pc[cpu[c]] \in {"fork_kstack", "fork_copy"} /\ pc[cpu[c]] \in ForkPCs
    BY <1>3 DEF fork_fail, At, ForkPCs
  <2>2. /\ cpu[c] \in Procs /\ lp[cpu[c]] \in Procs /\ lp[cpu[c]] # cpu[c]
        /\ state[lp[cpu[c]]] = "EMBRYO"
        /\ pc[cpu[c]] # "fork_kstack" => pc[lp[cpu[c]]] = "forkret"
        /\ parent[lp[cpu[c]]] = IF pc[cpu[c]] = "fork_run" THEN cpu[c] ELSE NULL
        /\ \A q \in Procs \ {cpu[c]} : Base(q) \in ForkPCs => lp[q] # lp[cpu[c]]
    BY <2>1, ForkSlot
  <2>3. UNCHANGED <<cpu, ptlock, stk, chan, killed, tsig>>
    BY <1>3 DEF fork_fail, argVars, thrVars
  <2>4. SlotStep(c, "sysret", lp[cpu[c]])
    BY <1>0, <1>3, <2>1, <2>2, <2>3 DEF fork_fail, SlotStep, Goto, ForkPCs, argVars
  <2> QED
    BY <2>4, SlotOK
<1>4. CASE allocproc_kstack(c)
  <2>1. cpu[c] # NULL /\ pc[cpu[c]] \in {"fork_kstack"} /\ pc[cpu[c]] \in ForkPCs
    BY <1>4 DEF allocproc_kstack, At, ForkPCs
  <2>2. /\ cpu[c] \in Procs /\ lp[cpu[c]] \in Procs /\ lp[cpu[c]] # cpu[c]
        /\ state[lp[cpu[c]]] = "EMBRYO"
        /\ pc[cpu[c]] # "fork_kstack" => pc[lp[cpu[c]]] = "forkret"
        /\ parent[lp[cpu[c]]] = IF pc[cpu[c]] = "fork_run" THEN cpu[c] ELSE NULL
        /\ \A q \in Procs \ {cpu[c]} : Base(q) \in ForkPCs => lp[q] # lp[cpu[c]]
    BY <2>1, ForkSlot
  <2>3. UNCHANGED <<cpu, ptlock, stk, chan, killed, tsig>>
    BY <1>4 DEF allocproc_kstack, argVars, thrVars
  <2>4. SlotStep(c, "fork_copy", lp[cpu[c]])
    BY <1>0, <1>4, <2>1, <2>2, <2>3 DEF allocproc_kstack, SlotStep, Goto, ForkPCs,
      argVars
  <2> QED
    BY <2>4, SlotOK
<1>5. CASE fork_copy(c)
  <2>1. cpu[c] # NULL /\ pc[cpu[c]] \in {"fork_copy"} /\ pc[cpu[c]] \in ForkPCs
    BY <1>5 DEF fork_copy, At, ForkPCs
  <2>2. /\ cpu[c] \in Procs /\ lp[cpu[c]] \in Procs /\ lp[cpu[c]] # cpu[c]
        /\ state[lp[cpu[c]]] = "EMBRYO"
        /\ pc[cpu[c]] # "fork_kstack" => pc[lp[cpu[c]]] = "forkret"
        /\ parent[lp[cpu[c]]] = IF pc[cpu[c]] = "fork_run" THEN cpu[c] ELSE NULL
        /\ \A q \in Procs \ {cpu[c]} : Base(q) \in ForkPCs => lp[q] # lp[cpu[c]]
    BY <2>1, ForkSlot
  <2>3. UNCHANGED <<cpu, ptlock, stk, chan, killed, tsig>>
    BY <1>5 DEF fork_copy, argVars, thrVars
  <2>4. SlotStep(c, "fork_run", lp[cpu[c]])
    BY <1>0, <1>5, <2>1, <2>2, <2>3 DEF fork_copy, SlotStep, Goto, ForkPCs, argVars
  <2> QED
    BY <2>4, SlotOK
<1>6. CASE fork_run(c)
  <2>1. cpu[c] # NULL /\ pc[cpu[c]] \in {"fork_run"} /\ pc[cpu[c]] \in ForkPCs
    BY <1>6 DEF fork_run, At, ForkPCs
  <2>2. /\ cpu[c] \in Procs /\ lp[cpu[c]] \in Procs /\ lp[cpu[c]] # cpu[c]
        /\ state[lp[cpu[c]]] = "EMBRYO"
        /\ pc[cpu[c]] # "fork_kstack" => pc[lp[cpu[c]]] = "forkret"
        /\ parent[lp[cpu[c]]] = IF pc[cpu[c]] = "fork_run" THEN cpu[c] ELSE NULL
        /\ \A q \in Procs \ {cpu[c]} : Base(q) \in ForkPCs => lp[q] # lp[cpu[c]]
    BY <2>1, ForkSlot
  <2>3. UNCHANGED <<cpu, ptlock, stk, chan, killed, tsig>>
    BY <1>6 DEF fork_run, argVars, thrVars
  <2>4. SlotStep(c, "sysret", lp[cpu[c]])
    BY <1>0, <1>6, <2>1, <2>2, <2>3 DEF fork_run, SlotStep, Goto, ForkPCs, argVars
  <2> QED
    BY <2>4, SlotOK
<1> QED
  BY <1>1, <1>2, <1>3, <1>4, <1>5, <1>6 DEF ForkStep

-----------------------------------------------------------------------------
(* exit(): the children go to init, the parent is woken, and init is if it  *)
(* gets a zombie.                                                           *)
LEMMA ExitOK ==
  ASSUME IInv, NEW c \in CPUs, exit(c), TypeOK'
  PROVE  Coherent'
<1> DEFINE p == cpu[c]
<1>1. CASE panic("init_exiting")
  BY <1>1, PanicOK
<1>2. CASE ~panic("init_exiting")
  <2>1. /\ p # NULL /\ pc[p] = "exit" /\ p # initproc /\ ptlock = NoCPU /\ ptlock' = c
        /\ parent' = adopt(p)
        /\ state' = [wake_init(wakeup1(state, parent[p]), p) EXCEPT ![p] = "ZOMBIE"]
        /\ stk' = [stk EXCEPT ![p] = <<>>] /\ pc' = [pc EXCEPT ![p] = "exit_sched"]
        /\ UNCHANGED <<chan, killed, lp, tsig, cpu>>
    BY <1>2 DEF exit, At, Goto, argVars
  <2>2. /\ pc \in [Procs -> PCs] /\ stk \in [Procs -> Seq(Caller)]
        /\ parent \in [Procs -> Procs \cup {NULL}]
    BY DEF IInv, TypeOK, ProcTypes, PcTypes, ThreadTypes
  <2>3. /\ p \in Procs /\ state[p] = "RUNNING" /\ chan[p] = ChanOf("exit", p)
        /\ \A d \in CPUs : d # c => cpu[d] # p
    BY <2>1, Running DEF SchedPCs
  <2>4. /\ pc'[p] = "exit_sched" /\ stk'[p] = <<>>
        /\ \A q \in Procs \ {p} : pc'[q] = pc[q] /\ stk'[q] = stk[q]
    BY <2>1, <2>2, <2>3
  <2>5. \A q \in Procs : parent'[q] = IF parent[q] = p THEN initproc ELSE parent[q]
    BY <2>1 DEF adopt
  <2> HIDE DEF p
  <2>6. /\ state'[p] = "ZOMBIE"
        /\ \A q \in Procs \ {p} :
             /\ state'[q] = state[q] \/ (state[q] = "SLEEPING" /\ state'[q] = "RUNNABLE")
             /\ state'[q] = "SLEEPING" => chan[q] # parent[p]
             /\ state'[q] = "SLEEPING" /\ chan[q] = initproc =>
                  ~\E x \in Procs : parent[x] = p /\ state[x] = "ZOMBIE"
    <3>1. CASE \E x \in Procs : parent[x] = p /\ state[x] = "ZOMBIE"
      BY <2>1, <2>3, <3>1 DEF wake_init, wakeup1
    <3>2. CASE ~\E x \in Procs : parent[x] = p /\ state[x] = "ZOMBIE"
      BY <2>1, <2>3, <3>2 DEF wake_init, wakeup1
    <3> QED
      BY <3>1, <3>2
  <2>7. \A q \in Procs \ {p} :
          /\ \A s \in {"UNUSED", "EMBRYO", "RUNNING", "ZOMBIE"} : state'[q] = s <=> state[q] = s
          /\ Live(q)' <=> Live(q)
    BY <2>6 DEF Live
  <2>8. ThreadInv'
    <3>1. StackOK("exit_sched", <<>>)
      BY EmptyOK DEF CalledPCs
    <3>2. \A q \in Procs : StackOK(pc[q], stk[q])'
      BY <2>4, <3>1 DEF IInv, Coherent, ThreadInv
    <3>3. \A q \in Procs : state'[q] \in {"UNUSED", "EMBRYO", "ZOMBIE"} =>
            pc'[q] \in {"exit_sched", "exit_ret", "forkret"}
      BY <2>4, <2>7 DEF IInv, Coherent, ThreadInv
    <3> QED
      BY <3>2, <3>3 DEF ThreadInv
  <2>9. CpuInv'
    <3>1. \A d \in CPUs : d # c /\ cpu[d] # NULL => cpu[d] \in Procs \ {p}
      BY <2>3, MyProc DEF IInv
    <3>2. LockHandover'
      <4> SUFFICES ASSUME NEW d \in CPUs
                   PROVE  c = d <=> cpu[d] # NULL /\ pc'[cpu[d]] \in LockedPCs
        BY <2>1 DEF LockHandover
      <4>1. CASE d = c
        BY <2>1, <2>4, <4>1 DEF LockedPCs, SchedPCs, p
      <4>2. CASE d # c
        <5>1. ~(cpu[d] # NULL /\ pc[cpu[d]] \in LockedPCs)
          BY <2>1, CpuIds DEF IInv, Coherent, CpuInv, LockHandover
        <5> QED
          BY <2>4, <3>1, <4>2, <5>1
      <4> QED
        BY <4>1, <4>2
    <3>3. \A d, e \in CPUs : cpu'[d] = cpu'[e] /\ cpu'[d] # NULL => d = e
      BY <2>1 DEF IInv, Coherent, CpuInv
    <3>4. \A d \in CPUs : cpu'[d] # NULL =>
            /\ state'[cpu'[d]] \notin {"UNUSED", "EMBRYO"}
            /\ state'[cpu'[d]] = "RUNNING" <=> pc'[cpu'[d]] \notin SchedPCs
      <4> SUFFICES ASSUME NEW d \in CPUs, cpu[d] # NULL
                   PROVE  /\ state'[cpu[d]] \notin {"UNUSED", "EMBRYO"}
                          /\ state'[cpu[d]] = "RUNNING" <=> pc'[cpu[d]] \notin SchedPCs
        BY <2>1
      <4>1. CASE d = c
        BY <2>4, <2>6, <4>1 DEF SchedPCs, p
      <4>2. CASE d # c
        <5>1. /\ state[cpu[d]] \notin {"UNUSED", "EMBRYO"}
              /\ state[cpu[d]] = "RUNNING" <=> pc[cpu[d]] \notin SchedPCs
          BY DEF IInv, Coherent, CpuInv
        <5> QED
          BY <2>4, <2>7, <3>1, <4>2, <5>1
      <4> QED
        BY <4>1, <4>2
    <3>5. \A q \in Procs : state'[q] = "RUNNING" => \E d \in CPUs : cpu'[d] = q
      BY <2>1, <2>6, <2>7 DEF IInv, Coherent, CpuInv
    <3>6. \A q \in Procs : state'[q] \in {"RUNNABLE", "SLEEPING"} =>
            pc'[q] \in WakePCs \/ \E d \in CPUs : cpu'[d] = q
      <4> SUFFICES ASSUME NEW q \in Procs, state'[q] \in {"RUNNABLE", "SLEEPING"}
                   PROVE  pc'[q] \in WakePCs \/ \E d \in CPUs : cpu[d] = q
        BY <2>1
      <4>1. q # p /\ state[q] \in {"RUNNABLE", "SLEEPING"}
        BY <2>6
      <4> QED
        BY <2>4, <4>1 DEF IInv, Coherent, CpuInv
    <3> QED
      BY <3>2, <3>3, <3>4, <3>5, <3>6 DEF CpuInv
  <2>10. /\ \A q \in Procs : q = p => Base(q)' = "exit_sched"
         /\ \A q \in Procs \ {p} : Base(q)' = Base(q)
    BY <2>4 DEF Base, BaseOf
  <2>11. ForkInv'
    <3> SUFFICES ASSUME NEW q \in Procs, Base(q)' \in ForkPCs
                 PROVE  /\ lp'[q] \in Procs
                        /\ state'[lp'[q]] = "EMBRYO"
                        /\ Base(q)' # "fork_kstack" => pc'[lp'[q]] = "forkret"
                        /\ parent'[lp'[q]] = IF Base(q)' = "fork_run" THEN q ELSE NULL
                        /\ \A r \in Procs : Base(r)' \in ForkPCs /\ lp'[r] = lp'[q] => r = q
      BY DEF ForkInv
    <3>1. \A r \in Procs : Base(r)' \in ForkPCs => r # p /\ Base(r)' = Base(r)
      BY <2>10 DEF ForkPCs
    <3>2. /\ lp[q] \in Procs /\ state[lp[q]] = "EMBRYO"
          /\ Base(q) # "fork_kstack" => pc[lp[q]] = "forkret"
          /\ parent[lp[q]] = IF Base(q) = "fork_run" THEN q ELSE NULL
          /\ \A r \in Procs : Base(r) \in ForkPCs /\ lp[r] = lp[q] => r = q
      BY <3>1 DEF IInv, Coherent, ForkInv
    <3>3. lp[q] # p /\ parent[lp[q]] # p
      BY <2>3, <3>1, <3>2, CpuIds
    <3> QED
      BY <2>1, <2>4, <2>5, <2>7, <3>1, <3>2, <3>3, SMTT(60)
  <2>12. KillInv'
    BY <2>1, <2>10 DEF IInv, Coherent, KillInv, KillPCs
  <2>13. ChanInv'
    BY <2>1, <2>3, <2>4 DEF IInv, Coherent, ChanInv, ChanOf
  <2>14. FamilyInv'
    <3>0. FamilyInv /\ initproc \in Procs /\ p # NULL
      BY <2>1, CpuIds DEF IInv, Coherent
    <3>1. Live(initproc)' /\ parent'[initproc] = NULL
      BY <2>1, <2>5, <2>7, <3>0 DEF FamilyInv
    <3>2. FamilyTree'
      <4> SUFFICES ASSUME NEW q \in Procs \ {initproc}, Live(q)' \/ state'[q] = "ZOMBIE"
                   PROVE  parent'[q] # NULL /\ Live(parent[q])'
        BY DEF FamilyTree
      <4>1. Live(q) \/ state[q] = "ZOMBIE"
        BY <2>3, <2>7 DEF Live
      <4>2. parent[q] # NULL /\ Live(parent[q]) /\ parent[q] \in Procs
        BY <2>2, <3>0, <4>1 DEF FamilyInv, FamilyTree
      <4>3. CASE parent[q] = p
        <5>1. parent'[q] = initproc
          BY <2>5, <4>3
        <5> QED
          BY <3>1, <5>1, CpuIds DEF Live
      <4>4. CASE parent[q] # p
        <5>1. parent'[q] = parent[q]
              /\ (Live(parent[q])' <=> state'[parent[q]] \in {"SLEEPING", "RUNNABLE", "RUNNING"})
          BY <2>5, <4>4 DEF Live
        <5>2. state'[parent[q]] \in {"SLEEPING", "RUNNABLE", "RUNNING"}
          BY <2>6, <4>2, <4>4 DEF Live
        <5> QED
          BY <4>2, <5>1, <5>2
      <4> QED
        BY <4>3, <4>4
    <3>3. \A q \in Procs : parent'[q] # q
      BY <2>5, <3>0, SMTT(60) DEF FamilyInv
    <3>4. \A q \in Procs : state'[q] = "UNUSED" => parent'[q] = NULL
      BY <2>5, <2>6, <2>7, <3>0, SMTT(60) DEF FamilyInv
    <3>5. \A q \in Procs : state'[q] = "SLEEPING" /\ pc'[q] \in {"wait_sched", "wait_wake"} =>
            /\ ~killed'[q]
            /\ \E r \in Procs : parent'[r] = q
            /\ \A r \in Procs : parent'[r] = q => state'[r] # "ZOMBIE"
      <4> SUFFICES ASSUME NEW q \in Procs, state'[q] = "SLEEPING",
                          pc'[q] \in {"wait_sched", "wait_wake"}
                   PROVE  /\ ~killed[q]
                          /\ \E r \in Procs : parent'[r] = q
                          /\ \A r \in Procs : parent'[r] = q => state'[r] # "ZOMBIE"
        BY <2>1
      <4>1. q # p /\ state[q] = "SLEEPING" /\ pc[q] \in {"wait_sched", "wait_wake"}
        BY <2>4, <2>6
      <4>2. /\ ~killed[q]
            /\ \E r \in Procs : parent[r] = q
            /\ \A r \in Procs : parent[r] = q => state[r] # "ZOMBIE"
        BY <3>0, <4>1 DEF FamilyInv
      <4>3. chan[q] = q
        BY <4>1 DEF IInv, Coherent, ChanInv, ChanOf
      <4>4. \E r \in Procs : parent'[r] = q
        BY <2>5, <4>1, <4>2
      <4>5. ASSUME NEW r \in Procs, parent'[r] = q, state'[r] = "ZOMBIE" PROVE FALSE
        <5>1. CASE r = p
          <6>1. parent[p] # p
            BY <2>3, <3>0 DEF FamilyInv
          <6> QED
            BY <2>3, <2>5, <2>6, <4>1, <4>3, <4>5, <5>1, <6>1
        <5>2. CASE r # p /\ parent[r] = p
          BY <2>5, <2>6, <2>7, <4>1, <4>3, <4>5, <5>2
        <5>3. CASE r # p /\ parent[r] # p
          BY <2>5, <2>7, <4>2, <4>5, <5>3
        <5> QED
          BY <5>1, <5>2, <5>3
      <4> QED
        BY <4>2, <4>4, <4>5
    <3> QED
      BY <3>1, <3>2, <3>3, <3>4, <3>5 DEF FamilyInv
  <2> QED
    BY <2>8, <2>9, <2>11, <2>12, <2>13, <2>14 DEF Coherent
<1> QED
  BY <1>1, <1>2

-----------------------------------------------------------------------------
(* wait() reaps a zombie child q of p, which no CPU runs any more. *)
LEMMA ReapOK ==
  ASSUME IInv, NEW c \in CPUs, cpu[c] # NULL, NEW q \in Procs, TypeOK',
         (pc[cpu[c]] = "wait" /\ ptlock = NoCPU) \/ pc[cpu[c]] = "wait_wake",
         parent[q] = cpu[c], state[q] = "ZOMBIE",
         parent' = [parent EXCEPT ![q] = NULL], killed' = [killed EXCEPT ![q] = FALSE],
         state' = [state EXCEPT ![q] = "UNUSED"], chan' = [chan EXCEPT ![cpu[c]] = NULL],
         ptlock' = NoCPU, Goto(c, "sysret"), UNCHANGED <<stk, lp, tsig, cpu>>
  PROVE  Coherent'
<1> DEFINE p == cpu[c]
<1>1. /\ state \in [Procs -> States] /\ pc \in [Procs -> PCs]
      /\ parent \in [Procs -> Procs \cup {NULL}] /\ killed \in [Procs -> BOOLEAN]
      /\ chan \in [Procs -> Procs \cup {NULL, TicksChan}]
  BY DEF IInv, TypeOK, ProcTypes, PcTypes
<1>2. /\ pc[p] \notin CalledPCs \cup SchedPCs \cup ForkPCs \cup KillPCs
      /\ "sysret" \notin CalledPCs \cup SchedPCs \cup ForkPCs \cup KillPCs \cup LockedPCs
  BY DEF CalledPCs, SchedPCs, ForkPCs, KillPCs, LockedPCs, WakePCs
<1>3. /\ p \in Procs /\ state[p] = "RUNNING" /\ StackOK(pc[p], stk[p])
      /\ \A d \in CPUs : d # c => cpu[d] # p
  BY <1>2, Running
<1>4. ptlock \in {NoCPU, c}
  BY Running DEF LockedPCs, WakePCs
<1>5. q # p /\ \A d \in CPUs : cpu[d] # q
  <2>1. q # p
    BY <1>3
  <2>2. \A d \in CPUs : cpu[d] = q => ptlock = d
    BY OffCpu
  <2> QED
    BY <1>4, <2>1, <2>2, CpuIds
<1>6. pc'[p] = "sysret" /\ \A r \in Procs \ {p} : pc'[r] = pc[r]
  BY <1>1, <1>3 DEF Goto
<1>7. /\ state'[q] = "UNUSED" /\ parent'[q] = NULL
      /\ \A r \in Procs \ {q} : state'[r] = state[r] /\ parent'[r] = parent[r]
         /\ killed'[r] = killed[r]
  BY <1>1
<1>8. chan'[p] = NULL /\ \A r \in Procs \ {p} : chan'[r] = chan[r]
  BY <1>1, <1>3
<1>9. StackOK("sysret", stk[p]) /\ stk[p] = <<>>
  BY <1>2, <1>3, MoveOK, SMTT(60)
<1> HIDE DEF p
<1>10. ThreadInv'
  <2>1. \A r \in Procs : StackOK(pc[r], stk[r])'
    BY <1>6, <1>9 DEF IInv, Coherent, ThreadInv
  <2>2. \A r \in Procs : state'[r] \in {"UNUSED", "EMBRYO", "ZOMBIE"} =>
          pc'[r] \in {"exit_sched", "exit_ret", "forkret"}
    BY <1>3, <1>5, <1>6, <1>7, SMTT(60) DEF IInv, Coherent, ThreadInv
  <2> QED
    BY <2>1, <2>2 DEF ThreadInv
<1>11. CpuInv'
  <2>1. \A d \in CPUs : d # c /\ cpu[d] # NULL => cpu[d] \in Procs \ {p, q}
    BY <1>3, <1>5, MyProc DEF IInv
  <2>2. LockHandover'
    <3> SUFFICES ASSUME NEW d \in CPUs
                 PROVE  ~(cpu[d] # NULL /\ pc'[cpu[d]] \in LockedPCs)
      BY CpuIds DEF LockHandover
    <3>1. CASE d = c
      BY <1>2, <1>6, <3>1 DEF p
    <3>2. CASE d # c
      <4>1. ~(cpu[d] # NULL /\ pc[cpu[d]] \in LockedPCs)
        BY <1>4, <3>2, CpuIds, SMTT(60) DEF IInv, Coherent, CpuInv, LockHandover
      <4> QED
        BY <1>6, <2>1, <3>2, <4>1
    <3> QED
      BY <3>1, <3>2
  <2>3. \A d, e \in CPUs : cpu'[d] = cpu'[e] /\ cpu'[d] # NULL => d = e
    BY DEF IInv, Coherent, CpuInv
  <2>4. \A d \in CPUs : cpu'[d] # NULL =>
          /\ state'[cpu'[d]] \notin {"UNUSED", "EMBRYO"}
          /\ state'[cpu'[d]] = "RUNNING" <=> pc'[cpu'[d]] \notin SchedPCs
    <3> SUFFICES ASSUME NEW d \in CPUs, cpu[d] # NULL
                 PROVE  /\ state'[cpu[d]] \notin {"UNUSED", "EMBRYO"}
                        /\ state'[cpu[d]] = "RUNNING" <=> pc'[cpu[d]] \notin SchedPCs
      OBVIOUS
    <3>1. CASE d = c
      BY <1>2, <1>3, <1>5, <1>6, <1>7, <3>1 DEF p
    <3>2. CASE d # c
      <4>1. /\ state[cpu[d]] \notin {"UNUSED", "EMBRYO"}
            /\ state[cpu[d]] = "RUNNING" <=> pc[cpu[d]] \notin SchedPCs
        BY DEF IInv, Coherent, CpuInv
      <4> QED
        BY <1>6, <1>7, <2>1, <3>2, <4>1
    <3> QED
      BY <3>1, <3>2
  <2>5. \A r \in Procs : state'[r] = "RUNNING" => \E d \in CPUs : cpu'[d] = r
    BY <1>7 DEF IInv, Coherent, CpuInv
  <2>6. \A r \in Procs : state'[r] \in {"RUNNABLE", "SLEEPING"} =>
          pc'[r] \in WakePCs \/ \E d \in CPUs : cpu'[d] = r
    BY <1>3, <1>5, <1>6, <1>7 DEF IInv, Coherent, CpuInv
  <2> QED
    BY <2>2, <2>3, <2>4, <2>5, <2>6 DEF CpuInv
<1>12. /\ \A r \in Procs : r = p => Base(r)' = "sysret"
       /\ \A r \in Procs \ {p} : Base(r)' = Base(r)
  BY <1>6, <1>9 DEF Base, BaseOf
<1>13. ForkInv'
  <2>1. \A r \in Procs : Base(r)' \in ForkPCs => r # p /\ Base(r)' = Base(r)
    BY <1>2, <1>12
  <2>2. \A r \in Procs : Base(r) \in ForkPCs => lp[r] \in Procs \ {p, q}
    BY <1>3 DEF IInv, Coherent, ForkInv
  <2> QED
    BY <1>6, <1>7, <2>1, <2>2, SMTT(60) DEF IInv, Coherent, ForkInv
<1>14. KillInv'
  BY <1>2, <1>12 DEF IInv, Coherent, KillInv
<1>15. ChanInv'
  BY <1>6, <1>8 DEF IInv, Coherent, ChanInv, ChanOf
<1>16. FamilyInv'
  <2>0. FamilyInv /\ initproc \in Procs /\ initproc # q
    BY CpuIds DEF IInv, Coherent, FamilyInv, Live
  <2>1. Live(initproc)' /\ parent'[initproc] = NULL
    BY <1>7, <2>0 DEF FamilyInv, Live
  <2>2. FamilyTree'
    <3> SUFFICES ASSUME NEW r \in Procs \ {initproc}, Live(r)' \/ state'[r] = "ZOMBIE"
                 PROVE  parent'[r] # NULL /\ Live(parent[r])'
      BY DEF FamilyTree
    <3>1. r # q /\ (Live(r) \/ state[r] = "ZOMBIE") /\ parent'[r] = parent[r]
      BY <1>7 DEF Live
    <3>2. parent[r] # NULL /\ Live(parent[r]) /\ parent[r] \in Procs
      BY <1>1, <2>0, <3>1 DEF FamilyInv, FamilyTree
    <3>3. state'[parent[r]] = state[parent[r]]
      BY <1>7, <3>2 DEF Live
    <3> QED
      BY <3>1, <3>2, <3>3 DEF Live
  <2>3. \A r \in Procs : parent'[r] # r /\ (state'[r] = "UNUSED" => parent'[r] = NULL)
    BY <1>7, <2>0, CpuIds, SMTT(60) DEF FamilyInv
  <2>4. \A r \in Procs : state'[r] = "SLEEPING" /\ pc'[r] \in {"wait_sched", "wait_wake"} =>
          /\ ~killed'[r]
          /\ \E x \in Procs : parent'[x] = r
          /\ \A x \in Procs : parent'[x] = r => state'[x] # "ZOMBIE"
    <3> SUFFICES ASSUME NEW r \in Procs, state'[r] = "SLEEPING",
                        pc'[r] \in {"wait_sched", "wait_wake"}
                 PROVE  /\ ~killed'[r]
                        /\ \E x \in Procs : parent'[x] = r
                        /\ \A x \in Procs : parent'[x] = r => state'[x] # "ZOMBIE"
      OBVIOUS
    <3>1. r # p /\ r # q /\ state[r] = "SLEEPING" /\ pc[r] \in {"wait_sched", "wait_wake"}
      BY <1>3, <1>5, <1>6, <1>7
    <3>2. /\ ~killed[r]
          /\ \E x \in Procs : parent[x] = r
          /\ \A x \in Procs : parent[x] = r => state[x] # "ZOMBIE"
      BY <2>0, <3>1 DEF FamilyInv
    <3>3. parent[q] # r
      BY <3>1 DEF p
    <3> QED
      BY <1>7, <3>1, <3>2, <3>3
  <2> QED
    BY <2>1, <2>2, <2>3, <2>4 DEF FamilyInv
<1> QED
  BY <1>10, <1>11, <1>13, <1>14, <1>15, <1>16 DEF Coherent

(* exit(), wait(), kill() and exec(). *)
LEMMA ExitCoherent ==
  ASSUME IInv, NEW c \in CPUs, ExitStep(c), TypeOK'
  PROVE  Coherent'
<1>1. CASE exit(c)
  BY <1>1, ExitOK
<1>2. CASE wait(c)
  <2>2. /\ cpu[c] # NULL
        /\ (pc[cpu[c]] = "wait" /\ ptlock = NoCPU) \/ pc[cpu[c]] = "wait_wake"
    BY <1>2 DEF wait, At
  <2>3. /\ cpu[c] \in Procs /\ state[cpu[c]] = "RUNNING" /\ StackOK(pc[cpu[c]], stk[cpu[c]])
        /\ ptlock \in {NoCPU, c} /\ NoCPU # c
        /\ pc \in [Procs -> PCs] /\ chan \in [Procs -> Procs \cup {NULL, TicksChan}]
        /\ state \in [Procs -> States]
    BY <2>2, Running, CpuIds DEF SchedPCs, LockedPCs, WakePCs, IInv, TypeOK,
      ProcTypes,
      PcTypes
  <2>4. UNCHANGED <<stk, lp, tsig, cpu>>
    BY <1>2 DEF wait, argVars, thrVars
  <2>5. CASE \E q \in Procs :
               /\ parent[q] = cpu[c] /\ state[q] = "ZOMBIE"
               /\ parent' = [parent EXCEPT ![q] = NULL]
               /\ killed' = [killed EXCEPT ![q] = FALSE]
               /\ state' = [state EXCEPT ![q] = "UNUSED"]
               /\ chan' = [chan EXCEPT ![cpu[c]] = NULL]
               /\ ptlock' = NoCPU
               /\ Goto(c, "sysret")
    BY <2>2, <2>4, <2>5, ReapOK
  <2>6. CASE /\ chan' = [chan EXCEPT ![cpu[c]] = NULL]
            /\ ptlock' = NoCPU
            /\ Goto(c, "sysret")
            /\ UNCHANGED <<state, parent, killed>>
    <3>1. /\ StackOK("sysret", stk[cpu[c]]) /\ BaseOf("sysret", stk[cpu[c]]) = "sysret"
      <4>1. "sysret" \notin CalledPCs /\ pc[cpu[c]] \notin CalledPCs
        BY <2>2 DEF CalledPCs
      <4> QED
        BY <2>3, <4>1, MoveOK
    <3>2. MovesThread(cpu[c], "sysret")
      BY <2>2, <2>3, <2>4, <2>6, <3>1 DEF MovesThread, Goto, ChanOf
    <3>3. WakesOthers(cpu[c]) /\ NewState(cpu[c], "sysret")
      BY <2>3, <2>4, <2>6 DEF WakesOthers, NewState, SchedPCs
    <3>4. LocksFor(c, "sysret")
      BY <2>3, <2>6 DEF LocksFor, LockedPCs, SchedPCs, WakePCs
    <3>5. WaitsFor(cpu[c], "sysret")
      BY <2>6 DEF WaitsFor
    <3>6. KeepsCall(cpu[c], "sysret")
      BY <2>4, <3>1 DEF KeepsCall, ForkPCs, KillPCs
    <3> QED
      BY <2>2, <2>4, <3>2, <3>3, <3>4, <3>5, <3>6, LocalOK DEF LocalStep, SchedPCs
  <2>7. CASE /\ \A q \in Procs : parent[q] = cpu[c] => state[q] # "ZOMBIE"
            /\ \E q \in Procs : parent[q] = cpu[c]
            /\ ~killed[cpu[c]]
            /\ chan' = [chan EXCEPT ![cpu[c]] = cpu[c]]
            /\ state' = [state EXCEPT ![cpu[c]] = "SLEEPING"]
            /\ ptlock' = c
            /\ Goto(c, "wait_sched")
            /\ UNCHANGED <<parent, killed>>
    <3>1. /\ StackOK("wait_sched", stk[cpu[c]])
             /\ BaseOf("wait_sched", stk[cpu[c]]) = "wait_sched"
      <4>1. "wait_sched" \notin CalledPCs /\ pc[cpu[c]] \notin CalledPCs
        BY <2>2 DEF CalledPCs
      <4> QED
        BY <2>3, <4>1, MoveOK
    <3>2. MovesThread(cpu[c], "wait_sched")
      BY <2>2, <2>3, <2>4, <2>7, <3>1 DEF MovesThread, Goto, ChanOf
    <3>3. WakesOthers(cpu[c]) /\ NewState(cpu[c], "wait_sched")
      BY <2>3, <2>4, <2>7 DEF WakesOthers, NewState, SchedPCs
    <3>4. LocksFor(c, "wait_sched")
      BY <2>3, <2>7 DEF LocksFor, LockedPCs, SchedPCs, WakePCs
    <3>5. WaitsFor(cpu[c], "wait_sched")
      BY <2>7 DEF WaitsFor
    <3>6. KeepsCall(cpu[c], "wait_sched")
      BY <2>4, <3>1 DEF KeepsCall, ForkPCs, KillPCs
    <3> QED
      BY <2>2, <2>4, <3>2, <3>3, <3>4, <3>5, <3>6, LocalOK DEF LocalStep, SchedPCs
  <2> QED
    BY <1>2, <2>5, <2>6, <2>7 DEF wait, children
<1>3. CASE sys_kill(c)
  <2>0. cpu[c] # NULL /\ pc[cpu[c]] \in {"kill"}
    BY <1>3 DEF sys_kill, At
  <2>9. WakesOthers(cpu[c]) /\ state'[cpu[c]] = state[cpu[c]]
    <3>1. cpu[c] \in Procs /\ state[cpu[c]] = "RUNNING"
      BY <2>0, Running DEF SchedPCs
    <3> QED
      BY <1>3, <3>1, KillWakes DEF sys_kill, IInv
  <2>1. Quiet(c) /\ UNCHANGED <<stk, lp, tsig>>
    BY <1>3, <2>0, <2>9 DEF sys_kill, Quiet, Ordinary, SchedPCs, argVars, thrVars
  <2>2. /\ pc[cpu[c]] \in {"kill"}
        /\ \E m \in {"sysret"} : Goto(c, m)
        /\ ptlock' = ptlock
    BY <1>3, <2>0 DEF sys_kill
  <2>3. ptlock = c <=> pc[cpu[c]] \in LockedPCs
    BY <2>0, Running
  <2>4. ASSUME NEW m \in {"sysret"}, Goto(c, m), ptlock' = ptlock
       PROVE  Coherent'
    <3>1. LocksFor(c, m)
      BY <2>2, <2>3, <2>4 DEF LocksFor, LockedPCs, SchedPCs, WakePCs
    <3>2. /\ Ordinary(m) /\ m \notin ForkPCs \cup KillPCs
          /\ m \in CalledPCs <=> pc[cpu[c]] \in CalledPCs
      BY <2>2 DEF SchedPCs, WakePCs, LockedPCs, CalledPCs, ForkPCs, KillPCs, Ordinary
    <3> QED
      BY <2>1, <2>4, <3>1, <3>2, QuietMove
  <2> QED
    BY <2>2, <2>4
<1>4. CASE exec(c)
  <2>0. cpu[c] # NULL /\ pc[cpu[c]] \in {"exec"}
    BY <1>4 DEF exec, At
  <2>1. Quiet(c) /\ UNCHANGED <<stk, lp, tsig>>
    BY <1>4, <2>0 DEF exec, Quiet, WakesOthers, Ordinary, SchedPCs, procVars,
      argVars, thrVars
  <2>2. /\ pc[cpu[c]] \in {"exec"}
        /\ \E m \in {"sysret"} : Goto(c, m)
        /\ ptlock' = ptlock
    BY <1>4, <2>0 DEF exec
  <2>3. ptlock = c <=> pc[cpu[c]] \in LockedPCs
    BY <2>0, Running
  <2>4. ASSUME NEW m \in {"sysret"}, Goto(c, m), ptlock' = ptlock
       PROVE  Coherent'
    <3>1. LocksFor(c, m)
      BY <2>2, <2>3, <2>4 DEF LocksFor, LockedPCs, SchedPCs, WakePCs
    <3>2. /\ Ordinary(m) /\ m \notin ForkPCs \cup KillPCs
          /\ m \in CalledPCs <=> pc[cpu[c]] \in CalledPCs
      BY <2>2 DEF SchedPCs, WakePCs, LockedPCs, CalledPCs, ForkPCs, KillPCs, Ordinary
    <3> QED
      BY <2>1, <2>4, <3>1, <3>2, QuietMove
  <2> QED
    BY <2>2, <2>4
<1> QED
  BY <1>1, <1>2, <1>3, <1>4 DEF ExitStep

(* The clock while CPU 0 is between two processes. *)
LEMMA IdleCoherent ==
  ASSUME IInv, idle_tick, TypeOK'
  PROVE  Coherent'
<1>1. UNCHANGED <<parent, chan, killed, pc, stk, lp, tsig, cpu, ptlock>>
  BY DEF idle_tick, argVars, thrVars
<1>2. \A q \in Procs : state'[q] = state[q] \/ (state[q] = "SLEEPING" /\ state'[q] = "RUNNABLE")
  BY DEF idle_tick, ticktock, wakeup1
<1>3. \A q \in Procs : /\ Base(q)' = Base(q)
                       /\ \A s \in {"UNUSED", "EMBRYO", "RUNNING", "ZOMBIE"} : state'[q] = s <=> state[q] = s
                       /\ Live(q)' <=> Live(q)
  BY <1>1, <1>2 DEF Live, Base, BaseOf
<1>4. ThreadInv'
  BY <1>1, <1>3 DEF IInv, Coherent, ThreadInv
<1>5. CpuInv'
  <2>1. LockHandover'
    BY <1>1 DEF IInv, Coherent, CpuInv, LockHandover
  <2>2. \A d \in CPUs : cpu[d] # NULL =>
          /\ state'[cpu[d]] \notin {"UNUSED", "EMBRYO"}
          /\ state'[cpu[d]] = "RUNNING" <=> pc[cpu[d]] \notin SchedPCs
    BY <1>3, MyProc DEF IInv, Coherent, CpuInv
  <2>3. \A q \in Procs : state'[q] \in {"RUNNABLE", "SLEEPING"} =>
          pc[q] \in WakePCs \/ \E d \in CPUs : cpu[d] = q
    BY <1>2 DEF IInv, Coherent, CpuInv
  <2> QED
    BY <1>1, <1>3, <2>1, <2>2, <2>3 DEF IInv, Coherent, CpuInv
<1>6. ForkInv' /\ KillInv' /\ ChanInv'
  BY <1>1, <1>3, SMTT(60) DEF IInv, Coherent, ForkInv, KillInv, ChanInv
<1>7. FamilyInv'
  <2>0. FamilyInv /\ parent \in [Procs -> Procs \cup {NULL}]
    BY DEF IInv, Coherent, TypeOK, ProcTypes
  <2>1. Live(initproc)' /\ FamilyTree'
    BY <1>1, <1>3, <2>0, CpuIds, SMTT(60) DEF FamilyInv, FamilyTree
  <2>2. \A q \in Procs : state'[q] = "SLEEPING" => state[q] = "SLEEPING"
    BY <1>2
  <2> QED
    BY <1>1, <1>3, <2>0, <2>1, <2>2, SMTT(60) DEF FamilyInv
<1> QED
  BY <1>4, <1>5, <1>6, <1>7 DEF Coherent
=============================================================================
