---------------------------- MODULE KernelTypes -----------------------------
(***************************************************************************)
(* The stacks of kernel threads stay in order through calls, returns and   *)
(* interrupts. Most steps of the kernel move one thread and touch other    *)
(* processes only by waking them: such a step, LocalStep, keeps Coherent.  *)
(* Then: every step from a state with IInv keeps TypeOK, one lemma per     *)
(* group of actions of Kernel; under an action, one step per variable it   *)
(* writes.                                                                 *)
(***************************************************************************)
EXTENDS KernelInv, TLAPS

(* Zenon is tried for a minute on each leaf; a leaf that needs arithmetic or many *)
(* function updates cites the SMT solver. *)
USE ZenonT(60)

LEMMA LenZero ==
  ASSUME NEW S, NEW s \in Seq(S)
  PROVE  s = <<>> <=> Len(s) = 0
BY SMTT(60)

(* A call from point l, and an interrupt at point l, keep the stack in      *)
(* order and the system call in progress (CallPsig, Interrupt).             *)
LEMMA PushOK ==
  ASSUME NEW l, NEW m \in CalledPCs, NEW i, NEW s \in Seq(Caller), StackOK(l, s),
         l \notin LockedPCs
  PROVE  /\ StackOK(m, <<<<l, i>>>> \o s)
         /\ BaseOf(m, <<<<l, i>>>> \o s) = BaseOf(l, s)
<1> DEFINE t == <<<<l, i>>>> \o s
<1>1. /\ Len(t) = Len(s) + 1
      /\ t[1] = <<l, i>>
      /\ \A k \in 1..Len(s) : t[k + 1] = s[k]
      /\ Len(s) \in Nat
  BY SMTT(60)
<1>2. t # <<>>
  BY <1>1, SMTT(60)
<1>3. s = <<>> <=> Len(s) = 0
  BY LenZero
<1>4. \A k \in 1..Len(t) : /\ t[k][1] \in CalledPCs <=> k < Len(t)
                           /\ t[k][1] \notin LockedPCs
  <2> TAKE k \in 1..Len(t)
  <2>1. CASE k = 1
    BY <1>1, <1>3, <2>1, SMTT(60) DEF StackOK
  <2>2. CASE k # 1
    <3>1. k - 1 \in 1..Len(s) /\ k = (k - 1) + 1
      BY <1>1, <2>2, SMTT(60)
    <3>2. t[k] = s[k - 1]
      BY <1>1, <3>1
    <3> QED
      BY <1>1, <3>1, <3>2, SMTT(60) DEF StackOK
  <2> QED
    BY <2>1, <2>2
<1>5. BaseOf(m, t) = BaseOf(l, s)
  <2>1. CASE s = <<>>
    BY <1>1, <1>2, <1>3, <2>1, SMTT(60) DEF BaseOf
  <2>2. CASE s # <<>>
    <3>1. Len(s) \in 1..Len(s)
      BY <1>1, <1>3, <2>2, SMTT(60)
    <3> QED
      BY <1>1, <1>2, <2>2, <3>1 DEF BaseOf
  <2> QED
    BY <2>1, <2>2
<1> HIDE DEF t
<1>6. StackOK(m, t)
  BY <1>2, <1>4 DEF StackOK
<1> QED
  BY <1>5, <1>6 DEF t

(* Returning to the caller does too (Return). *)
LEMMA PopOK ==
  ASSUME NEW l \in CalledPCs, NEW s \in Seq(Caller), StackOK(l, s)
  PROVE  /\ s # <<>>
         /\ Head(s) \in Caller
         /\ Tail(s) \in Seq(Caller)
         /\ StackOK(Head(s)[1], Tail(s))
         /\ Head(s)[1] \notin LockedPCs
         /\ BaseOf(Head(s)[1], Tail(s)) = BaseOf(l, s)
<1>1. s # <<>>
  BY DEF StackOK
<1>2. /\ Head(s) \in Caller /\ Tail(s) \in Seq(Caller)
      /\ Head(s) = s[1]
      /\ Len(Tail(s)) = Len(s) - 1
      /\ \A k \in 1..Len(Tail(s)) : Tail(s)[k] = s[k + 1]
      /\ Len(s) \in Nat \ {0}
  BY <1>1, SMTT(60)
<1>3. Tail(s) = <<>> <=> Len(s) = 1
  <2>1. \A t \in Seq(Caller) : t = <<>> <=> Len(t) = 0
    BY LenZero
  <2>2. Tail(s) = <<>> <=> Len(Tail(s)) = 0
    BY <1>2, <2>1
  <2>3. Len(s) - 1 = 0 <=> Len(s) = 1
    BY <1>2, SMTT(60)
  <2> QED
    BY <1>2, <2>2, <2>3
<1>4. Tail(s) = <<>> <=> Head(s)[1] \notin CalledPCs
  BY <1>2, <1>3, SMTT(60) DEF StackOK
<1>5. \A k \in 1..Len(Tail(s)) : /\ Tail(s)[k][1] \in CalledPCs <=> k < Len(Tail(s))
                                 /\ Tail(s)[k][1] \notin LockedPCs
  BY <1>2, SMTT(60) DEF StackOK
<1>6. BaseOf(Head(s)[1], Tail(s)) = BaseOf(l, s)
  <2>1. CASE Len(s) = 1
    BY <1>1, <1>2, <1>3, <2>1 DEF BaseOf
  <2>2. CASE Len(s) # 1
    <3>1. Len(s) - 1 \in 1..Len(Tail(s)) /\ (Len(s) - 1) + 1 = Len(s)
      BY <1>2, <2>2, SMTT(60)
    <3> QED
      BY <1>1, <1>2, <1>3, <2>2, <3>1 DEF BaseOf
  <2> QED
    BY <2>1, <2>2
<1>7. Head(s)[1] \notin LockedPCs
  BY <1>2, SMTT(60) DEF StackOK
<1> QED
  BY <1>1, <1>2, <1>4, <1>5, <1>6, <1>7 DEF StackOK

(* A step within called code, and a step outside it. *)
LEMMA MoveOK ==
  ASSUME NEW l, NEW m, NEW s, StackOK(l, s), l \in CalledPCs <=> m \in CalledPCs
  PROVE  /\ StackOK(m, s)
         /\ l \in CalledPCs => BaseOf(m, s) = BaseOf(l, s)
         /\ l \notin CalledPCs => s = <<>> /\ BaseOf(m, s) = m /\ BaseOf(l, s) = l
BY DEF StackOK, BaseOf

LEMMA EmptyOK ==
  ASSUME NEW l, l \notin CalledPCs
  PROVE  StackOK(l, <<>>) /\ BaseOf(l, <<>>) = l
BY SMTT(60) DEF StackOK, BaseOf

-----------------------------------------------------------------------------
(* The process a CPU runs is one of the table. *)
LEMMA MyProc ==
  ASSUME TypeOK, NEW c \in CPUs, cpu[c] # NULL
  PROVE  cpu[c] \in Procs
BY DEF TypeOK, GlobalTypes

(* What calls, returns and the search of Kill() leave is of its type. *)
LEMMA PushType ==
  ASSUME NEW l \in PCs, NEW i \in Signals \cup {0}, NEW s \in Seq(Caller)
  PROVE  <<<<l, i>>>> \o s \in Seq(Caller)
<1>1. <<l, i>> \in Caller
  BY DEF Caller
<1> QED
  BY <1>1, SMTT(60)

LEMMA UserCaller == <<<<"user", 0>>>> \in Seq(Caller)
<1>1. <<"user", 0>> \in Caller
  BY DEF Caller, PCs
<1> QED
  BY <1>1, SMTT(60)

LEMMA NextSlot ==
  ASSUME NEW i \in Procs \cup {NULL}, i < NPROC
  PROVE  i + 1 \in Procs
BY ProcAssumption, SMTT(60) DEF Procs, NULL

LEMMA PopType ==
  ASSUME IInv, NEW p \in Procs, pc[p] \in CalledPCs
  PROVE  /\ Head(stk[p])[1] \in PCs
         /\ Head(stk[p])[2] \in Signals \cup {0}
         /\ Tail(stk[p]) \in Seq(Caller)
<1>1. StackOK(pc[p], stk[p]) /\ stk[p] \in Seq(Caller)
  BY DEF IInv, Coherent, ThreadInv, TypeOK, ThreadTypes
<1>2. Head(stk[p]) \in Caller /\ Tail(stk[p]) \in Seq(Caller)
  BY <1>1, PopOK
<1> QED
  BY <1>2 DEF Caller

LEMMA KillArgs ==
  ASSUME IInv, NEW p \in Procs, pc[p] \in KillPCs
  PROVE  tsig[p] \in Signals /\ lp[p] \in Procs
<1>1. StackOK(pc[p], stk[p]) /\ pc[p] \notin CalledPCs
  BY DEF IInv, Coherent, ThreadInv, KillPCs, CalledPCs
<1>2. Base(p) = pc[p]
  BY <1>1 DEF StackOK, Base, BaseOf
<1> QED
  BY <1>2 DEF IInv, Coherent, KillInv

-----------------------------------------------------------------------------
(* Other processes than p may be woken, and killed if they do not sleep on. *)
WakesOthers(p) ==
  \A q \in Procs \ {p} :
    /\ state'[q] = state[q] \/ (state[q] = "SLEEPING" /\ state'[q] = "RUNNABLE")
    /\ killed'[q] = killed[q] \/ state'[q] # "SLEEPING"

(* The thread of p goes to point m; the rest of the table stays. *)
MovesThread(p, m) ==
  /\ pc' = [pc EXCEPT ![p] = m]
  /\ UNCHANGED parent
  /\ \A q \in Procs \ {p} : /\ stk'[q] = stk[q] /\ lp'[q] = lp[q]
                            /\ tsig'[q] = tsig[q] /\ chan'[q] = chan[q]
  /\ chan'[p] = ChanOf(m, p)
  /\ StackOK(m, stk'[p])

(* p keeps running, or it is about to leave the CPU. *)
NewState(p, m) ==
  /\ m \in SchedPCs => state'[p] \in {"RUNNABLE", "SLEEPING"}
  /\ m \notin SchedPCs => state'[p] = "RUNNING"

(* CPU c holds ptable.lock at m exactly if m is a point where it is held. *)
LocksFor(c, m) ==
  /\ m \in LockedPCs => ptlock \in {c, NoCPU} /\ ptlock' = c
  /\ m \notin LockedPCs => ptlock' = IF ptlock = c THEN NoCPU ELSE ptlock

(* A fork() or Kill() in progress keeps its locals. *)
KeepsCall(p, m) ==
  LET b == BaseOf(m, stk'[p])
  IN  \/ b = Base(p) /\ lp'[p] = lp[p] /\ tsig'[p] = tsig[p]
      \/ /\ b \notin ForkPCs
         /\ b \in KillPCs => lp'[p] \in Procs /\ tsig'[p] \in Signals

(* What wait() has seen before it sleeps. *)
WaitsFor(p, m) ==
  m \in {"wait_sched", "wait_wake"} =>
    /\ ~killed'[p]
    /\ \E q \in Procs : parent[q] = p
    /\ \A q \in Procs : parent[q] = p => state[q] # "ZOMBIE"

LocalStep(c, m) ==
  LET p == cpu[c]
  IN  /\ p # NULL
      /\ pc[p] \notin SchedPCs
      /\ UNCHANGED cpu
      /\ WakesOthers(p) /\ MovesThread(p, m) /\ NewState(p, m)
      /\ LocksFor(c, m) /\ KeepsCall(p, m) /\ WaitsFor(p, m)

(* What a CPU knows of the process it runs. *)
LEMMA Running ==
  ASSUME IInv, NEW c \in CPUs, cpu[c] # NULL
  PROVE  /\ cpu[c] \in Procs
         /\ pc[cpu[c]] \notin SchedPCs => state[cpu[c]] = "RUNNING"
         /\ \A d \in CPUs : d # c => cpu[d] # cpu[c]
         /\ ptlock = c <=> pc[cpu[c]] \in LockedPCs
         /\ chan[cpu[c]] = ChanOf(pc[cpu[c]], cpu[c])
         /\ StackOK(pc[cpu[c]], stk[cpu[c]])
         /\ stk[cpu[c]] \in Seq(Caller)
<1>1. cpu[c] \in Procs
  BY MyProc DEF IInv
<1>2. /\ pc[cpu[c]] \notin SchedPCs => state[cpu[c]] = "RUNNING"
      /\ \A d \in CPUs : d # c => cpu[d] # cpu[c]
      /\ ptlock = c <=> pc[cpu[c]] \in LockedPCs
  BY <1>1 DEF IInv, Coherent, CpuInv, LockHandover
<1>3. /\ chan[cpu[c]] = ChanOf(pc[cpu[c]], cpu[c])
      /\ StackOK(pc[cpu[c]], stk[cpu[c]])
      /\ stk[cpu[c]] \in Seq(Caller)
  BY <1>1 DEF IInv, Coherent, ChanInv, ThreadInv, TypeOK, ThreadTypes
<1> QED
  BY <1>1, <1>2, <1>3

LEMMA CpuIds ==
  /\ NoCPU \notin CPUs
  /\ NULL \notin Procs
  /\ initproc \in Procs
BY ProcAssumption, SMTT(60) DEF CPUs, NoCPU, NULL, Procs, initproc

LEMMA LocalOK ==
  ASSUME IInv, NEW c \in CPUs, NEW m, LocalStep(c, m), TypeOK'
  PROVE  Coherent'
<1> DEFINE p == cpu[c]
<1>1. /\ p # NULL /\ pc[p] \notin SchedPCs /\ cpu' = cpu
      /\ WakesOthers(p) /\ MovesThread(p, m) /\ NewState(p, m)
      /\ LocksFor(c, m) /\ KeepsCall(p, m) /\ WaitsFor(p, m)
  BY DEF LocalStep
<1>2. /\ p \in Procs /\ state[p] = "RUNNING"
      /\ \A d \in CPUs : d # c => cpu[d] # p
      /\ ptlock = c <=> pc[p] \in LockedPCs
  BY <1>1, Running
<1>3. pc'[p] = m /\ \A q \in Procs \ {p} : pc'[q] = pc[q]
  BY <1>1, <1>2 DEF IInv, TypeOK, PcTypes, MovesThread
<1>4. \A q \in Procs : /\ Live(q)' <=> Live(q)
                       /\ \A s \in {"UNUSED", "EMBRYO", "ZOMBIE"} : state'[q] = s <=> state[q] = s
                       /\ q # p => (state'[q] = "RUNNING" <=> state[q] = "RUNNING")
  BY <1>1, <1>2 DEF WakesOthers, NewState, Live
<1> HIDE DEF p
<1>5. ThreadInv'
  <2>1. \A q \in Procs : StackOK(pc[q], stk[q])'
    BY <1>1, <1>3 DEF MovesThread, IInv, Coherent, ThreadInv
  <2>2. \A q \in Procs : state'[q] \in {"UNUSED", "EMBRYO", "ZOMBIE"} =>
          pc'[q] \in {"exit_sched", "exit_ret", "forkret"}
    BY <1>2, <1>3, <1>4 DEF IInv, Coherent, ThreadInv
  <2> QED
    BY <2>1, <2>2 DEF ThreadInv
<1>6. CpuInv'
  <2> USE <1>1, <1>2, <1>3 DEF IInv, Coherent, CpuInv
  <2>1. LockHandover'
    <3> SUFFICES ASSUME NEW d \in CPUs
                 PROVE  ptlock' = d <=> cpu[d] # NULL /\ pc'[cpu[d]] \in LockedPCs
      BY DEF LockHandover
    <3>1. CASE d = c
      BY <3>1, CpuIds, SMTT(60) DEF LocksFor, p
    <3>2. CASE d # c
      <4>1. cpu[d] # NULL => cpu[d] \in Procs \ {p}
        BY <3>2, MyProc
      <4>2. ptlock = d <=> cpu[d] # NULL /\ pc'[cpu[d]] \in LockedPCs
        BY <4>1 DEF LockHandover
      <4> QED
        BY <3>2, <4>2, CpuIds, SMTT(60) DEF LocksFor
    <3> QED
      BY <3>1, <3>2
  <2>2. \A d, e \in CPUs : cpu[d] = cpu[e] /\ cpu[d] # NULL => d = e
    OBVIOUS
  <2>3. \A d \in CPUs : cpu[d] # NULL =>
          /\ state'[cpu[d]] \notin {"UNUSED", "EMBRYO"}
          /\ state'[cpu[d]] = "RUNNING" <=> pc'[cpu[d]] \notin SchedPCs
    <3> SUFFICES ASSUME NEW d \in CPUs, cpu[d] # NULL
                 PROVE  /\ state'[cpu[d]] \notin {"UNUSED", "EMBRYO"}
                        /\ state'[cpu[d]] = "RUNNING" <=> pc'[cpu[d]] \notin SchedPCs
      OBVIOUS
    <3>1. cpu[d] \in Procs
      BY MyProc
    <3>2. CASE cpu[d] = p
      BY <3>2 DEF NewState
    <3>3. CASE cpu[d] # p
      BY <1>4, <3>1, <3>3
    <3> QED
      BY <3>2, <3>3
  <2>4. \A q \in Procs : state'[q] = "RUNNING" => \E d \in CPUs : cpu[d] = q
    BY <1>4 DEF p
  <2>5. \A q \in Procs : state'[q] \in {"RUNNABLE", "SLEEPING"} =>
          pc'[q] \in WakePCs \/ \E d \in CPUs : cpu[d] = q
    <3> SUFFICES ASSUME NEW q \in Procs, q # p, state'[q] \in {"RUNNABLE", "SLEEPING"}
                 PROVE  pc'[q] \in WakePCs \/ \E d \in CPUs : cpu[d] = q
      BY DEF p
    <3>1. state[q] \in {"RUNNABLE", "SLEEPING"}
      BY DEF WakesOthers
    <3> QED
      BY <3>1
  <2> QED
    BY <2>1, <2>2, <2>3, <2>4, <2>5
<1>7. \A q \in Procs \ {p} : Base(q)' = Base(q) /\ lp'[q] = lp[q] /\ tsig'[q] = tsig[q]
  BY <1>1, <1>3 DEF MovesThread, Base, BaseOf
<1>8. \A q \in Procs : q = p => Base(q)' = BaseOf(m, stk'[q])
  BY <1>3 DEF Base
<1>9. ForkInv'
  <2>1. \A q \in Procs : Base(q)' \in ForkPCs => Base(q)' = Base(q) /\ lp'[q] = lp[q]
    BY <1>1, <1>7, <1>8 DEF KeepsCall
  <2> SUFFICES ASSUME NEW q \in Procs, Base(q)' \in ForkPCs
               PROVE  /\ lp'[q] \in Procs
                      /\ state'[lp'[q]] = "EMBRYO"
                      /\ Base(q)' # "fork_kstack" => pc'[lp'[q]] = "forkret"
                      /\ parent'[lp'[q]] = IF Base(q)' = "fork_run" THEN q ELSE NULL
                      /\ \A r \in Procs : Base(r)' \in ForkPCs /\ lp'[r] = lp'[q] => r = q
    BY DEF ForkInv
  <2>2. /\ Base(q) \in ForkPCs /\ Base(q)' = Base(q) /\ lp'[q] = lp[q]
        /\ lp[q] \in Procs /\ state[lp[q]] = "EMBRYO"
        /\ Base(q) # "fork_kstack" => pc[lp[q]] = "forkret"
        /\ parent[lp[q]] = IF Base(q) = "fork_run" THEN q ELSE NULL
        /\ \A r \in Procs : Base(r) \in ForkPCs /\ lp[r] = lp[q] => r = q
    BY <2>1 DEF IInv, Coherent, ForkInv
  <2>3. state'[lp[q]] = "EMBRYO" /\ pc'[lp[q]] = pc[lp[q]] /\ parent' = parent
    BY <1>1, <1>2, <1>3, <1>4, <2>2 DEF MovesThread
  <2> QED
    BY <2>1, <2>2, <2>3
<1>10. KillInv'
  BY <1>1, <1>7, <1>8 DEF KeepsCall, KillInv, IInv, Coherent
<1>11. ChanInv'
  BY <1>1, <1>3 DEF MovesThread, ChanInv, IInv, Coherent
<1>12. FamilyInv'
  <2>0. parent' = parent /\ FamilyInv
    BY <1>1 DEF MovesThread, IInv, Coherent
  <2>1. Live(initproc)' /\ parent'[initproc] = NULL
    BY <1>4, <2>0, CpuIds DEF FamilyInv
  <2>2. FamilyTree'
    BY <1>4, <2>0, CpuIds, SMTT(60) DEF FamilyInv, FamilyTree, IInv, TypeOK, ProcTypes
  <2>3. \A q \in Procs : parent'[q] # q /\ (state'[q] = "UNUSED" => parent'[q] = NULL)
    BY <1>4, <2>0 DEF FamilyInv
  <2>4. \A q \in Procs : state'[q] = "SLEEPING" /\ pc'[q] \in {"wait_sched", "wait_wake"} =>
          /\ ~killed'[q]
          /\ \E r \in Procs : parent'[r] = q
          /\ \A r \in Procs : parent'[r] = q => state'[r] # "ZOMBIE"
    <3> SUFFICES ASSUME NEW q \in Procs, state'[q] = "SLEEPING",
                        pc'[q] \in {"wait_sched", "wait_wake"}
                 PROVE  /\ ~killed'[q]
                        /\ \E r \in Procs : parent[r] = q
                        /\ \A r \in Procs : parent[r] = q => state[r] # "ZOMBIE"
      BY <1>4, <2>0
    <3>1. CASE q = p
      BY <1>1, <1>3, <3>1 DEF WaitsFor
    <3>2. CASE q # p
      <4>1. state[q] = "SLEEPING" /\ killed'[q] = killed[q] /\ pc'[q] = pc[q]
        BY <1>1, <1>3, <3>2 DEF WakesOthers
      <4> QED
        BY <2>0, <4>1 DEF FamilyInv
    <3> QED
      BY <3>1, <3>2
  <2> QED
    BY <2>1, <2>2, <2>3, <2>4 DEF FamilyInv
<1> QED
  BY <1>5, <1>6, <1>9, <1>10, <1>11, <1>12 DEF Coherent

-----------------------------------------------------------------------------
(* Local steps at the points that are not in sleep() or about to leave the  *)
(* CPU, by what they do to the stack.                                       *)
Ordinary(l) == l \notin SchedPCs /\ l \notin {"wait_wake", "sleep_wake"}

Quiet(c) ==
  LET p == cpu[c]
  IN  /\ p # NULL
      /\ Ordinary(pc[p])
      /\ UNCHANGED <<parent, chan, cpu>>
      /\ WakesOthers(p) /\ state'[p] = state[p]
      /\ \A q \in Procs \ {p} : stk'[q] = stk[q] /\ lp'[q] = lp[q] /\ tsig'[q] = tsig[q]

LEMMA QuietLocal ==
  ASSUME IInv, NEW c \in CPUs, NEW m, Quiet(c), Goto(c, m), Ordinary(m),
         LocksFor(c, m), StackOK(m, stk'[cpu[c]]), KeepsCall(cpu[c], m)
  PROVE  LocalStep(c, m)
<1> DEFINE p == cpu[c]
<1>1. /\ p \in Procs /\ state[p] = "RUNNING" /\ chan[p] = ChanOf(pc[p], p)
  BY Running DEF Quiet, Ordinary
<1>2. ChanOf(pc[p], p) = NULL /\ ChanOf(m, p) = NULL
  BY DEF Quiet, Ordinary, ChanOf, SchedPCs
<1>3. MovesThread(p, m)
  BY <1>1, <1>2 DEF Quiet, MovesThread, Goto
<1>4. NewState(p, m) /\ WaitsFor(p, m)
  BY <1>1 DEF Quiet, NewState, WaitsFor, Ordinary, SchedPCs
<1> QED
  BY <1>3, <1>4 DEF LocalStep, Quiet, Ordinary

(* The thread stays in the function it is in, or returns from the system    *)
(* call code to trap().                                                     *)
LEMMA QuietMove ==
  ASSUME IInv, NEW c \in CPUs, NEW m, Quiet(c), Goto(c, m), Ordinary(m), TypeOK',
         LocksFor(c, m), stk'[cpu[c]] = stk[cpu[c]],
         m \in CalledPCs <=> pc[cpu[c]] \in CalledPCs,
         m \in CalledPCs => lp'[cpu[c]] = lp[cpu[c]] /\ tsig'[cpu[c]] = tsig[cpu[c]],
         m \notin ForkPCs,
         m \in KillPCs => lp'[cpu[c]] \in Procs /\ tsig'[cpu[c]] \in Signals
  PROVE  Coherent'
<1> DEFINE p == cpu[c]
<1>1. p \in Procs /\ StackOK(pc[p], stk[p])
  BY Running DEF Quiet
<1>2. /\ StackOK(m, stk[p])
      /\ m \in CalledPCs => BaseOf(m, stk[p]) = Base(p)
      /\ m \notin CalledPCs => BaseOf(m, stk[p]) = m
  BY <1>1, MoveOK DEF Base
<1>3. KeepsCall(p, m)
  BY <1>2 DEF KeepsCall
<1> QED
  BY <1>2, <1>3, QuietLocal, LocalOK

(* A call of psig() that will return to point l, or an interrupt at l. *)
LEMMA QuietPush ==
  ASSUME IInv, NEW c \in CPUs, NEW m \in CalledPCs, NEW l, NEW i, Quiet(c), Goto(c, m), TypeOK',
         m \notin LockedPCs, l \notin LockedPCs, pc[cpu[c]] \notin LockedPCs, UNCHANGED ptlock,
         stk'[cpu[c]] = <<<<l, i>>>> \o stk[cpu[c]],
         l \in CalledPCs <=> pc[cpu[c]] \in CalledPCs,
         l = pc[cpu[c]] \/ l \in CalledPCs \/ l \notin ForkPCs \cup KillPCs,
         UNCHANGED <<lp, tsig>>
  PROVE  Coherent'
<1> DEFINE p == cpu[c]
<1>1. p \in Procs /\ StackOK(pc[p], stk[p]) /\ stk[p] \in Seq(Caller) /\ ptlock # c
  BY Running DEF Quiet
<1>2. /\ StackOK(l, stk[p])
      /\ l \in CalledPCs => BaseOf(l, stk[p]) = Base(p)
      /\ l \notin CalledPCs => BaseOf(l, stk[p]) = l /\ Base(p) = pc[p]
  BY <1>1, MoveOK DEF Base
<1>3. StackOK(m, stk'[p]) /\ BaseOf(m, stk'[p]) = BaseOf(l, stk[p])
  BY <1>1, <1>2, PushOK, SMTT(60)
<1>4. KeepsCall(p, m)
  BY <1>2, <1>3 DEF KeepsCall
<1>5. LocksFor(c, m) /\ Ordinary(m)
  BY <1>1 DEF LocksFor, Ordinary, LockedPCs, WakePCs
<1> QED
  BY <1>3, <1>4, <1>5, QuietLocal, LocalOK

(* A return to the caller, which releases ptable.lock if it was held. *)
LEMMA QuietPop ==
  ASSUME IInv, NEW c \in CPUs, Quiet(c), Return(c), TypeOK', pc[cpu[c]] \in CalledPCs,
         ptlock' = IF ptlock = c THEN NoCPU ELSE ptlock,
         UNCHANGED <<lp, tsig>>
  PROVE  Coherent'
<1> DEFINE p == cpu[c]
           m == Head(stk[p])[1]
<1>1. p \in Procs /\ StackOK(pc[p], stk[p]) /\ stk[p] \in Seq(Caller)
  BY Running DEF Quiet
<1>2. /\ StackOK(m, Tail(stk[p])) /\ m \notin LockedPCs
      /\ BaseOf(m, Tail(stk[p])) = Base(p)
  BY <1>1, PopOK DEF Base
<1>3. stk'[p] = Tail(stk[p]) /\ Goto(c, m)
  BY <1>1 DEF Return, Goto, IInv, TypeOK, ThreadTypes
<1>4. LocksFor(c, m) /\ Ordinary(m)
  BY <1>2 DEF LocksFor, Ordinary, LockedPCs, WakePCs
<1>5. KeepsCall(p, m)
  BY <1>2, <1>3 DEF KeepsCall
<1> HIDE DEF m
<1> QED
  BY <1>2, <1>3, <1>4, <1>5, QuietLocal, LocalOK

-----------------------------------------------------------------------------
(* Every step keeps TypeOK. *)

LEMMA SchedTypes ==
  ASSUME IInv, NEW c \in CPUs, SchedStep(c)
  PROVE  TypeOK'
<1> TypeOK
  BY DEF IInv
<1>1. CASE yield(c)
  <2>1. cpu[c] # NULL /\ cpu[c] \in Procs
    BY <1>1, MyProc DEF yield, At
  <2>2. state' \in [Procs -> States]
    BY <1>1, <2>1 DEF TypeOK, ProcTypes, yield, Goto, States, procVars
  <2>3. pc' \in [Procs -> PCs]
    BY <1>1, <2>1
    DEF TypeOK, PcTypes, yield, Goto, PCs, LockedPCs, SchedPCs, WakePCs, SysCalls
  <2>4. ptlock' \in CPUs \cup {NoCPU}
    BY <1>1, <2>1 DEF TypeOK, GlobalTypes, yield, Goto
  <2> QED
    BY <1>1, <2>2, <2>3, <2>4
    DEF TypeOK, ProcTypes, SigTypes, ArgTypes, PcTypes, ThreadTypes, GlobalTypes, yield,
        Goto,
        procVars, sigVars, argVars, thrVars, tickVars
<1>2. CASE yield_ret(c)
  <2>1. cpu[c] # NULL /\ cpu[c] \in Procs
    BY <1>2, MyProc DEF yield_ret, At
  <2>2. pc' \in [Procs -> PCs]
    BY <1>2, <2>1
    DEF TypeOK, PcTypes, yield_ret, Goto, PCs, LockedPCs, SchedPCs, WakePCs, SysCalls
  <2>3. ptlock' \in CPUs \cup {NoCPU}
    BY <1>2, <2>1 DEF TypeOK, GlobalTypes, yield_ret, Goto
  <2> QED
    BY <1>2, <2>2, <2>3
    DEF TypeOK, ProcTypes, SigTypes, ArgTypes, PcTypes, ThreadTypes, GlobalTypes, yield_ret,
        Goto,
        procVars, sigVars, argVars, thrVars, tickVars
<1>3. CASE sched(c)
  <2>1. cpu[c] # NULL /\ cpu[c] \in Procs
    BY <1>3, MyProc DEF sched, At
  <2>2. pc' \in [Procs -> PCs]
    BY <1>3, <2>1, SMTT(60)
    DEF TypeOK, PcTypes, sched, Goto, panic, AfterSched, PCs, LockedPCs, SchedPCs, WakePCs,
        SysCalls
  <2>3. cpu' \in [CPUs -> Procs \cup {NULL}]
    BY <1>3, <2>1 DEF TypeOK, GlobalTypes, sched, Goto, panic, AfterSched
  <2>4. ptlock' \in CPUs \cup {NoCPU}
    BY <1>3, <2>1 DEF TypeOK, GlobalTypes, sched, Goto, panic, AfterSched
  <2>5. panicked' \in {"no", "sched_locks", "acquire", "init_exiting"}
    BY <1>3, <2>1 DEF TypeOK, GlobalTypes, sched, Goto, panic, AfterSched
  <2> QED
    BY <1>3, <2>2, <2>3, <2>4, <2>5, SMTT(60)
    DEF TypeOK, ProcTypes, SigTypes, ArgTypes, PcTypes, ThreadTypes, GlobalTypes, sched,
        Goto, panic, AfterSched,
        procVars, sigVars, argVars, thrVars, tickVars
<1>4. CASE forkret(c)
  <2>1. cpu[c] # NULL /\ cpu[c] \in Procs
    BY <1>4, MyProc DEF forkret, At
  <2>2. pc' \in [Procs -> PCs]
    BY <1>4, <2>1
    DEF TypeOK, PcTypes, forkret, Goto, PCs, LockedPCs, SchedPCs, WakePCs, SysCalls
  <2>3. ptlock' \in CPUs \cup {NoCPU}
    BY <1>4, <2>1 DEF TypeOK, GlobalTypes, forkret, Goto
  <2> QED
    BY <1>4, <2>2, <2>3
    DEF TypeOK, ProcTypes, SigTypes, ArgTypes, PcTypes, ThreadTypes, GlobalTypes, forkret,
        Goto,
        procVars, sigVars, argVars, thrVars, tickVars
<1> QED
  BY <1>1, <1>2, <1>3, <1>4 DEF SchedStep

LEMMA ForkTypes ==
  ASSUME IInv, NEW c \in CPUs, ForkStep(c)
  PROVE  TypeOK'
<1> TypeOK
  BY DEF IInv
<1>1. CASE allocproc(c)
  <2>1. cpu[c] # NULL /\ cpu[c] \in Procs
    BY <1>1, MyProc DEF allocproc, At
  <2>2. state' \in [Procs -> States]
    <3>1. state' = state \/ \E np \in Procs : state' = [state EXCEPT ![np] = "EMBRYO"]
      BY <1>1 DEF allocproc, procVars
    <3>2. state \in [Procs -> States] /\ "EMBRYO" \in States
      BY DEF TypeOK, ProcTypes, States
    <3> QED
      BY <3>1, <3>2
  <2>3. nextpid' \in Nat
    <3>1. \/ UNCHANGED <<pid, nextpid>>
          \/ \E np \in Procs : pid' = [pid EXCEPT ![np] = nextpid] /\ nextpid' = nextpid + 1
      BY <1>1 DEF allocproc, procVars
    <3> QED
      BY <3>1, SMTT(60) DEF TypeOK, ProcTypes
  <2>4. pid' \in [Procs -> 0..(nextpid' - 1)]
    <3>1. \/ UNCHANGED <<pid, nextpid>>
          \/ \E np \in Procs : pid' = [pid EXCEPT ![np] = nextpid] /\ nextpid' = nextpid + 1
      BY <1>1 DEF allocproc, procVars
    <3>2. CASE UNCHANGED <<pid, nextpid>>
      BY <3>2 DEF TypeOK, ProcTypes
    <3>3. ASSUME NEW np \in Procs, pid' = [pid EXCEPT ![np] = nextpid], nextpid' = nextpid + 1
          PROVE  pid' \in [Procs -> 0..(nextpid' - 1)]
      BY <3>3, SMTT(60) DEF TypeOK, ProcTypes
    <3> QED
      BY <3>1, <3>2, <3>3
  <2>5. pc' \in [Procs -> PCs]
    BY <1>1, <2>1
    DEF TypeOK, PcTypes, allocproc, Goto, PCs, LockedPCs, SchedPCs, WakePCs, SysCalls
  <2>6. lp' \in [Procs -> Procs \cup {NULL}]
    BY <1>1, <2>1 DEF TypeOK, ArgTypes, allocproc, Goto, argVars
  <2> QED
    BY <1>1, <2>2, <2>3, <2>4, <2>5, <2>6
    DEF TypeOK, ProcTypes, SigTypes, ArgTypes, PcTypes, ThreadTypes, GlobalTypes, allocproc,
        Goto,
        procVars, sigVars, argVars, thrVars, tickVars
<1>2. CASE fork_fail(c)
  <2>1. cpu[c] # NULL /\ cpu[c] \in Procs
    BY <1>2, MyProc DEF fork_fail, At
  <2>2. state' \in [Procs -> States]
    BY <1>2, <2>1 DEF TypeOK, ProcTypes, fork_fail, Goto, States, procVars
  <2>3. pc' \in [Procs -> PCs]
    BY <1>2, <2>1
    DEF TypeOK, PcTypes, fork_fail, Goto, PCs, LockedPCs, SchedPCs, WakePCs, SysCalls
  <2>4. lp' \in [Procs -> Procs \cup {NULL}]
    BY <1>2, <2>1 DEF TypeOK, ArgTypes, fork_fail, Goto, argVars
  <2> QED
    BY <1>2, <2>2, <2>3, <2>4
    DEF TypeOK, ProcTypes, SigTypes, ArgTypes, PcTypes, ThreadTypes, GlobalTypes, fork_fail,
        Goto,
        procVars, sigVars, argVars, thrVars, tickVars
<1>3. CASE allocproc_kstack(c)
  <2>1. cpu[c] # NULL /\ cpu[c] \in Procs
    BY <1>3, MyProc DEF allocproc_kstack, At
  <2>2. tf' \in [Procs -> BOOLEAN]
    BY <1>3, <2>1 DEF TypeOK, ProcTypes, allocproc_kstack, procVars
  <2>3. sigpending' \in [Procs -> SUBSET Signals]
    BY <1>3, <2>1 DEF TypeOK, SigTypes, allocproc_kstack, sigVars
  <2>4. pc' \in [Procs -> PCs]
    BY <1>3, <2>1
    DEF TypeOK, PcTypes, allocproc_kstack, PCs, LockedPCs, SchedPCs, WakePCs, SysCalls
  <2> QED
    BY <1>3, <2>2, <2>3, <2>4
    DEF TypeOK, ProcTypes, SigTypes, ArgTypes, PcTypes, ThreadTypes, GlobalTypes,
        allocproc_kstack,
        procVars, sigVars, argVars, thrVars, tickVars
<1>4. CASE fork_copy(c)
  <2>1. cpu[c] # NULL /\ cpu[c] \in Procs
    BY <1>4, MyProc DEF fork_copy, At
  <2>2. parent' \in [Procs -> Procs \cup {NULL}]
    BY <1>4, <2>1 DEF TypeOK, ProcTypes, fork_copy, Goto, procVars
  <2>3. tf' \in [Procs -> BOOLEAN]
    BY <1>4, <2>1 DEF TypeOK, ProcTypes, fork_copy, Goto, procVars
  <2>4. sigblocked' \in [Procs -> SUBSET ((1..31) \ {SIGKILL, SIGSTOP, SIGCONT})]
    BY <1>4, <2>1 DEF TypeOK, SigTypes, fork_copy, Goto, sigVars
  <2>5. userdefed' \in [Procs -> SUBSET (Signals \ {SIGKILL, SIGSTOP})]
    BY <1>4, <2>1 DEF TypeOK, SigTypes, fork_copy, Goto, sigVars
  <2>6. disposition' \in [Procs -> [Signals -> Dispositions]]
    BY <1>4, <2>1 DEF TypeOK, SigTypes, fork_copy, Goto, sigVars
  <2>7. pc' \in [Procs -> PCs]
    BY <1>4, <2>1
    DEF TypeOK, PcTypes, fork_copy, Goto, PCs, LockedPCs, SchedPCs, WakePCs, SysCalls
  <2>8. frames' \in [Procs -> Seq(Frame)]
    BY <1>4, <2>1 DEF TypeOK, ThreadTypes, fork_copy, Goto, Frame
  <2> QED
    BY <1>4, <2>2, <2>3, <2>4, <2>5, <2>6, <2>7, <2>8
    DEF TypeOK, ProcTypes, SigTypes, ArgTypes, PcTypes, ThreadTypes, GlobalTypes, fork_copy,
        Goto,
        procVars, sigVars, argVars, thrVars, tickVars
<1>5. CASE fork_run(c)
  <2>1. cpu[c] # NULL /\ cpu[c] \in Procs
    BY <1>5, MyProc DEF fork_run, At
  <2>2. state' \in [Procs -> States]
    BY <1>5, <2>1 DEF TypeOK, ProcTypes, fork_run, Goto, States, procVars
  <2>3. pc' \in [Procs -> PCs]
    BY <1>5, <2>1
    DEF TypeOK, PcTypes, fork_run, Goto, PCs, LockedPCs, SchedPCs, WakePCs, SysCalls
  <2>4. lp' \in [Procs -> Procs \cup {NULL}]
    BY <1>5, <2>1 DEF TypeOK, ArgTypes, fork_run, Goto, argVars
  <2> QED
    BY <1>5, <2>2, <2>3, <2>4
    DEF TypeOK, ProcTypes, SigTypes, ArgTypes, PcTypes, ThreadTypes, GlobalTypes, fork_run,
        Goto,
        procVars, sigVars, argVars, thrVars, tickVars
<1> QED
  BY <1>1, <1>2, <1>3, <1>4, <1>5 DEF ForkStep

LEMMA ExitTypes ==
  ASSUME IInv, NEW c \in CPUs, ExitStep(c)
  PROVE  TypeOK'
<1> TypeOK
  BY DEF IInv
<1>1. CASE exit(c)
  <2>1. cpu[c] # NULL /\ cpu[c] \in Procs
    BY <1>1, MyProc DEF exit, At
  <2>2. state' \in [Procs -> States]
    BY <1>1, <2>1
    DEF TypeOK, ProcTypes, exit, Goto, panic, wakeup1, wake_init, adopt, States, procVars
  <2>3. parent' \in [Procs -> Procs \cup {NULL}]
    BY <1>1, ProcAssumption, SMTT(60)
    DEF TypeOK, ProcTypes, exit, adopt, panic, initproc, Procs, procVars
  <2>4. pc' \in [Procs -> PCs]
    BY <1>1, <2>1
    DEF TypeOK, PcTypes, exit, Goto, panic, wakeup1, wake_init, adopt, PCs, LockedPCs,
        SchedPCs, WakePCs, SysCalls
  <2>5. stk' \in [Procs -> Seq(Caller)]
    <3>1. stk' = stk \/ stk' = [stk EXCEPT ![cpu[c]] = <<>>]
      BY <1>1 DEF exit, panic, thrVars
    <3>2. stk \in [Procs -> Seq(Caller)] /\ <<>> \in Seq(Caller)
      BY SMTT(60) DEF TypeOK, ThreadTypes
    <3> QED
      BY <2>1, <3>1, <3>2
  <2>6. intr' \in [Procs -> BOOLEAN]
    BY <1>1, <2>1
    DEF TypeOK, ThreadTypes, exit, Goto, panic, wakeup1, wake_init, adopt, thrVars
  <2>7. ptlock' \in CPUs \cup {NoCPU}
    BY <1>1, <2>1 DEF TypeOK, GlobalTypes, exit, Goto, panic, wakeup1, wake_init, adopt
  <2>8. panicked' \in {"no", "sched_locks", "acquire", "init_exiting"}
    BY <1>1, <2>1 DEF TypeOK, GlobalTypes, exit, Goto, panic, wakeup1, wake_init, adopt
  <2> QED
    BY <1>1, <2>2, <2>3, <2>4, <2>5, <2>6, <2>7, <2>8
    DEF TypeOK, ProcTypes, SigTypes, ArgTypes, PcTypes, ThreadTypes, GlobalTypes, exit,
        Goto, panic, wakeup1, wake_init, adopt,
        procVars, sigVars, argVars, thrVars, tickVars
<1>2. CASE wait(c)
  <2>1. cpu[c] # NULL /\ cpu[c] \in Procs
    BY <1>2, MyProc DEF wait, At
  <2>2. state' \in [Procs -> States]
    BY <1>2, <2>1 DEF TypeOK, ProcTypes, wait, Goto, children, States, procVars
  <2>3. pid' \in [Procs -> 0..(nextpid' - 1)]
    <3>1. nextpid' = nextpid /\ (pid' = pid \/ \E q1 \in Procs : pid' = [pid EXCEPT ![q1] = 0])
      BY <1>2 DEF wait, children, procVars
    <3>2. 0 \in 0..(nextpid - 1)
      BY <2>1, SMTT(60) DEF TypeOK, ProcTypes
    <3> QED
      BY <3>1, <3>2 DEF TypeOK, ProcTypes
  <2>4. parent' \in [Procs -> Procs \cup {NULL}]
    <3>1. parent' = parent \/ \E q1 \in Procs : parent' = [parent EXCEPT ![q1] = NULL]
      BY <1>2 DEF wait, children, procVars
    <3> QED
      BY <3>1 DEF TypeOK, ProcTypes
  <2>5. chan' \in [Procs -> Procs \cup {NULL, TicksChan}]
    <3>1. \E v \in {NULL, cpu[c]} : chan' = [chan EXCEPT ![cpu[c]] = v]
      BY <1>2 DEF wait, procVars
    <3> QED
      BY <2>1, <3>1 DEF TypeOK, ProcTypes
  <2>6. killed' \in [Procs -> BOOLEAN]
    <3>1. killed' = killed \/ \E q1 \in Procs : killed' = [killed EXCEPT ![q1] = FALSE]
      BY <1>2 DEF wait, children, procVars
    <3> QED
      BY <3>1 DEF TypeOK, ProcTypes
  <2>7. tf' \in [Procs -> BOOLEAN]
    BY <1>2, <2>1 DEF TypeOK, ProcTypes, wait, Goto, children, procVars
  <2>8. sigpending' \in [Procs -> SUBSET Signals]
    BY <1>2, <2>1 DEF TypeOK, SigTypes, wait, Goto, children, sigVars
  <2>9. sigblocked' \in [Procs -> SUBSET ((1..31) \ {SIGKILL, SIGSTOP, SIGCONT})]
    BY <1>2, <2>1 DEF TypeOK, SigTypes, wait, Goto, children, sigVars
  <2>10. userdefed' \in [Procs -> SUBSET (Signals \ {SIGKILL, SIGSTOP})]
    BY <1>2, <2>1 DEF TypeOK, SigTypes, wait, Goto, children, sigVars
  <2>11. pc' \in [Procs -> PCs]
    BY <1>2, <2>1
    DEF TypeOK, PcTypes, wait, Goto, children, PCs, LockedPCs, SchedPCs, WakePCs, SysCalls
  <2>12. frames' \in [Procs -> Seq(Frame)]
    <3>1. frames' = frames \/ \E q1 \in Procs : frames' = [frames EXCEPT ![q1] = <<>>]
      BY <1>2 DEF wait, children
    <3>2. frames \in [Procs -> Seq(Frame)] /\ <<>> \in Seq(Frame)
      BY SMTT(60) DEF TypeOK, ThreadTypes
    <3> QED
      BY <3>1, <3>2
  <2>13. ptlock' \in CPUs \cup {NoCPU}
    BY <1>2, <2>1 DEF TypeOK, GlobalTypes, wait, Goto, children
  <2> QED
    BY <1>2, <2>2, <2>3, <2>4, <2>5, <2>6, <2>7, <2>8, <2>9, <2>10, <2>11, <2>12, <2>13
    DEF TypeOK, ProcTypes, SigTypes, ArgTypes, PcTypes, ThreadTypes, GlobalTypes, wait,
        Goto, children,
        procVars, sigVars, argVars, thrVars, tickVars
<1>3. CASE sys_kill(c)
  <2>1. cpu[c] # NULL /\ cpu[c] \in Procs
    BY <1>3, MyProc DEF sys_kill, At
  <2>2. state' \in [Procs -> States]
    BY <1>3, <2>1 DEF TypeOK, ProcTypes, sys_kill, Goto, kill, States, procVars
  <2>3. killed' \in [Procs -> BOOLEAN]
    BY <1>3, <2>1 DEF TypeOK, ProcTypes, sys_kill, Goto, kill, procVars
  <2>4. pc' \in [Procs -> PCs]
    BY <1>3, <2>1
    DEF TypeOK, PcTypes, sys_kill, Goto, kill, PCs, LockedPCs, SchedPCs, WakePCs, SysCalls
  <2> QED
    BY <1>3, <2>2, <2>3, <2>4
    DEF TypeOK, ProcTypes, SigTypes, ArgTypes, PcTypes, ThreadTypes, GlobalTypes, sys_kill,
        Goto, kill,
        procVars, sigVars, argVars, thrVars, tickVars
<1>4. CASE exec(c)
  <2>1. cpu[c] # NULL /\ cpu[c] \in Procs
    BY <1>4, MyProc DEF exec, At
  <2>2. disposition' \in [Procs -> [Signals -> Dispositions]]
    <3> DEFINE d == [s \in Signals |-> IF disposition[cpu[c]][s] = "IGN" THEN "IGN" ELSE
        "DFL"]
    <3>1. d \in [Signals -> Dispositions]
      BY DEF Dispositions
    <3>2. disposition' = [disposition EXCEPT ![cpu[c]] = d] \/ disposition' = disposition
      BY <1>4, <2>1 DEF exec, TypeOK, SigTypes, sigVars
    <3> HIDE DEF d
    <3> QED
      BY <2>1, <3>1, <3>2 DEF TypeOK, SigTypes
  <2>3. pc' \in [Procs -> PCs]
    BY <1>4, <2>1
    DEF TypeOK, PcTypes, exec, Goto, PCs, LockedPCs, SchedPCs, WakePCs, SysCalls
  <2>4. frames' \in [Procs -> Seq(Frame)]
    <3>1. frames' = frames \/ frames' = [frames EXCEPT ![cpu[c]] = <<>>]
      BY <1>4 DEF exec
    <3>2. frames \in [Procs -> Seq(Frame)] /\ <<>> \in Seq(Frame)
      BY SMTT(60) DEF TypeOK, ThreadTypes
    <3> QED
      BY <2>1, <3>1, <3>2
  <2> QED
    BY <1>4, <2>2, <2>3, <2>4
    DEF TypeOK, ProcTypes, SigTypes, ArgTypes, PcTypes, ThreadTypes, GlobalTypes, exec,
        Goto,
        procVars, sigVars, argVars, thrVars, tickVars
<1> QED
  BY <1>1, <1>2, <1>3, <1>4 DEF ExitStep

LEMMA SleepTypes ==
  ASSUME IInv, NEW c \in CPUs, SleepStep(c)
  PROVE  TypeOK'
<1> TypeOK
  BY DEF IInv
<1>1. CASE sys_sleep(c)
  <2>1. cpu[c] # NULL /\ cpu[c] \in Procs
    BY <1>1, MyProc DEF sys_sleep, At
  <2>2. pc' \in [Procs -> PCs]
    BY <1>1, <2>1
    DEF TypeOK, PcTypes, sys_sleep, Goto, panic, PCs, LockedPCs, SchedPCs, WakePCs, SysCalls
  <2>3. ticks0' \in [Procs -> 0..(TickMod - 1)]
    BY <1>1, <2>1, ProcAssumption
    DEF TypeOK, ThreadTypes, sys_sleep, panic, GlobalTypes, thrVars
  <2>4. tickslock' \in CPUs \cup {NoCPU}
    BY <1>1, <2>1 DEF TypeOK, GlobalTypes, sys_sleep, Goto, panic, tickVars
  <2>5. panicked' \in {"no", "sched_locks", "acquire", "init_exiting"}
    BY <1>1, <2>1 DEF TypeOK, GlobalTypes, sys_sleep, Goto, panic
  <2> QED
    BY <1>1, <2>2, <2>3, <2>4, <2>5
    DEF TypeOK, ProcTypes, SigTypes, ArgTypes, PcTypes, ThreadTypes, GlobalTypes, sys_sleep,
        Goto, panic,
        procVars, sigVars, argVars, thrVars, tickVars
<1>2. CASE sleep_loop(c)
  <2>1. cpu[c] # NULL /\ cpu[c] \in Procs
    BY <1>2, MyProc DEF sleep_loop, At
  <2>2. pc' \in [Procs -> PCs]
    BY <1>2, <2>1
    DEF TypeOK, PcTypes, sleep_loop, Goto, PCs, LockedPCs, SchedPCs, WakePCs, SysCalls
  <2>3. ticks0' \in [Procs -> 0..(TickMod - 1)]
    <3>1. ticks0' = ticks0 \/ ticks0' = [ticks0 EXCEPT ![cpu[c]] = 0]
      BY <1>2 DEF sleep_loop, thrVars
    <3>2. ticks0 \in [Procs -> 0..(TickMod - 1)] /\ 0 \in 0..(TickMod - 1)
      BY ProcAssumption, SMTT(60) DEF TypeOK, ThreadTypes
    <3> QED
      BY <2>1, <3>1, <3>2
  <2>4. tickslock' \in CPUs \cup {NoCPU}
    BY <1>2, <2>1 DEF TypeOK, GlobalTypes, sleep_loop, Goto, tickVars
  <2> QED
    BY <1>2, <2>2, <2>3, <2>4
    DEF TypeOK, ProcTypes, SigTypes, ArgTypes, PcTypes, ThreadTypes, GlobalTypes,
        sleep_loop, Goto,
        procVars, sigVars, argVars, thrVars, tickVars
<1>3. CASE sleep_sig(c)
  <2>1. cpu[c] # NULL /\ cpu[c] \in Procs
    BY <1>3, MyProc DEF sleep_sig, At
  <2>2. pc' \in [Procs -> PCs]
    <3>1. \E l \in {"sleep_sleep", "sleep_end", "psig"} : Goto(c, l)
      BY <1>3 DEF sleep_sig, CallPsig
    <3> QED
      BY <2>1, <3>1 DEF TypeOK, PcTypes, Goto, PCs
  <2>3. stk' \in [Procs -> Seq(Caller)]
    <3>1. /\ <<<<"sleep_sleep", isig[cpu[c]]>>>> \o stk[cpu[c]] \in Seq(Caller)
          /\ <<<<"sleep_end", isig[cpu[c]]>>>> \o stk[cpu[c]] \in Seq(Caller)
      BY <2>1, PushType DEF TypeOK, ThreadTypes, PCs
    <3> QED
      BY <1>3, <2>1, <3>1 DEF TypeOK, ThreadTypes, sleep_sig, CallPsig, thrVars
  <2>4. isig' \in [Procs -> Signals \cup {0}]
    BY <1>3, <2>1 DEF TypeOK, ThreadTypes, sleep_sig, Goto, CallPsig, thrVars
  <2> QED
    BY <1>3, <2>2, <2>3, <2>4
    DEF TypeOK, ProcTypes, SigTypes, ArgTypes, PcTypes, ThreadTypes, GlobalTypes, sleep_sig,
        Goto, CallPsig,
        procVars, sigVars, argVars, thrVars, tickVars
<1>4. CASE sleep(c)
  <2>1. cpu[c] # NULL /\ cpu[c] \in Procs
    BY <1>4, MyProc DEF sleep, At
  <2>2. state' \in [Procs -> States]
    BY <1>4, <2>1 DEF TypeOK, ProcTypes, sleep, Goto, States, procVars
  <2>3. chan' \in [Procs -> Procs \cup {NULL, TicksChan}]
    BY <1>4, <2>1 DEF TypeOK, ProcTypes, sleep, Goto, procVars
  <2>4. pc' \in [Procs -> PCs]
    BY <1>4, <2>1
    DEF TypeOK, PcTypes, sleep, Goto, PCs, LockedPCs, SchedPCs, WakePCs, SysCalls
  <2>5. ptlock' \in CPUs \cup {NoCPU}
    BY <1>4, <2>1 DEF TypeOK, GlobalTypes, sleep, Goto
  <2>6. tickslock' \in CPUs \cup {NoCPU}
    BY <1>4, <2>1 DEF TypeOK, GlobalTypes, sleep, Goto, tickVars
  <2> QED
    BY <1>4, <2>2, <2>3, <2>4, <2>5, <2>6
    DEF TypeOK, ProcTypes, SigTypes, ArgTypes, PcTypes, ThreadTypes, GlobalTypes, sleep,
        Goto,
        procVars, sigVars, argVars, thrVars, tickVars
<1>5. CASE sleep_wake(c)
  <2>1. cpu[c] # NULL /\ cpu[c] \in Procs
    BY <1>5, MyProc DEF sleep_wake, At
  <2>2. chan' \in [Procs -> Procs \cup {NULL, TicksChan}]
    BY <1>5, <2>1 DEF TypeOK, ProcTypes, sleep_wake, Goto, procVars
  <2>3. pc' \in [Procs -> PCs]
    BY <1>5, <2>1
    DEF TypeOK, PcTypes, sleep_wake, Goto, PCs, LockedPCs, SchedPCs, WakePCs, SysCalls
  <2>4. ptlock' \in CPUs \cup {NoCPU}
    BY <1>5, <2>1 DEF TypeOK, GlobalTypes, sleep_wake, Goto
  <2> QED
    BY <1>5, <2>2, <2>3, <2>4
    DEF TypeOK, ProcTypes, SigTypes, ArgTypes, PcTypes, ThreadTypes, GlobalTypes,
        sleep_wake, Goto,
        procVars, sigVars, argVars, thrVars, tickVars
<1>6. CASE sleep_reacquire(c)
  <2>1. cpu[c] # NULL /\ cpu[c] \in Procs
    BY <1>6, MyProc DEF sleep_reacquire, At
  <2>2. pc' \in [Procs -> PCs]
    BY <1>6, <2>1
    DEF TypeOK, PcTypes, sleep_reacquire, Goto, PCs, LockedPCs, SchedPCs, WakePCs, SysCalls
  <2>3. tickslock' \in CPUs \cup {NoCPU}
    BY <1>6, <2>1 DEF TypeOK, GlobalTypes, sleep_reacquire, Goto, tickVars
  <2> QED
    BY <1>6, <2>2, <2>3
    DEF TypeOK, ProcTypes, SigTypes, ArgTypes, PcTypes, ThreadTypes, GlobalTypes,
        sleep_reacquire, Goto,
        procVars, sigVars, argVars, thrVars, tickVars
<1>7. CASE sleep_end(c)
  <2>1. cpu[c] # NULL /\ cpu[c] \in Procs
    BY <1>7, MyProc DEF sleep_end, At
  <2>2. pc' \in [Procs -> PCs]
    BY <1>7, <2>1
    DEF TypeOK, PcTypes, sleep_end, Goto, PCs, LockedPCs, SchedPCs, WakePCs, SysCalls
  <2>3. ticks0' \in [Procs -> 0..(TickMod - 1)]
    BY <1>7, <2>1, ProcAssumption, SMTT(60) DEF TypeOK, ThreadTypes, sleep_end, thrVars
  <2>4. tickslock' \in CPUs \cup {NoCPU}
    BY <1>7 DEF sleep_end, tickVars
  <2> QED
    BY <1>7, <2>2, <2>3, <2>4
    DEF TypeOK, ProcTypes, SigTypes, ArgTypes, PcTypes, ThreadTypes, GlobalTypes, sleep_end,
        Goto,
        procVars, sigVars, argVars, thrVars, tickVars
<1> QED
  BY <1>1, <1>2, <1>3, <1>4, <1>5, <1>6, <1>7 DEF SleepStep

LEMMA PsigTypes ==
  ASSUME IInv, NEW c \in CPUs, PsigStep(c)
  PROVE  TypeOK'
<1> TypeOK
  BY DEF IInv
<1>1. CASE psig(c)
  <2>1. cpu[c] # NULL /\ cpu[c] \in Procs
    BY <1>1, MyProc DEF psig, At
  <2>2. pc' \in [Procs -> PCs]
    BY <1>1, <2>1
    DEF TypeOK, PcTypes, psig, Goto, PCs, LockedPCs, SchedPCs, WakePCs, SysCalls
  <2>3. isig' \in [Procs -> Signals \cup {0}]
    BY <1>1, <2>1 DEF TypeOK, ThreadTypes, psig, Goto, thrVars
  <2>4. ptlock' \in CPUs \cup {NoCPU}
    BY <1>1 DEF TypeOK, GlobalTypes, psig
  <2> QED
    BY <1>1, <2>2, <2>3, <2>4
    DEF TypeOK, ProcTypes, SigTypes, ArgTypes, PcTypes, ThreadTypes, GlobalTypes, psig,
        Goto,
        procVars, sigVars, argVars, thrVars, tickVars
<1>2. CASE term(c)
  <2>1. cpu[c] # NULL /\ cpu[c] \in Procs
    BY <1>2, MyProc DEF term, At
  <2>2. state' \in [Procs -> States]
    BY <1>2, <2>1 DEF TypeOK, ProcTypes, term, Goto, kill, States, procVars
  <2>3. killed' \in [Procs -> BOOLEAN]
    BY <1>2, <2>1 DEF TypeOK, ProcTypes, term, Goto, kill, procVars
  <2>4. pc' \in [Procs -> PCs]
    BY <1>2, <2>1
    DEF TypeOK, PcTypes, term, Goto, kill, PCs, LockedPCs, SchedPCs, WakePCs, SysCalls
  <2> QED
    BY <1>2, <2>2, <2>3, <2>4
    DEF TypeOK, ProcTypes, SigTypes, ArgTypes, PcTypes, ThreadTypes, GlobalTypes, term,
        Goto, kill,
        procVars, sigVars, argVars, thrVars, tickVars
<1>3. CASE psig_term(c)
  <2>1. cpu[c] # NULL /\ cpu[c] \in Procs
    BY <1>3, MyProc DEF psig_term, At
  <2>2. sigpending' \in [Procs -> SUBSET Signals]
    BY <1>3, <2>1 DEF TypeOK, SigTypes, psig_term, Goto, sigVars
  <2>3. pc' \in [Procs -> PCs]
    BY <1>3, <2>1
    DEF TypeOK, PcTypes, psig_term, Goto, PCs, LockedPCs, SchedPCs, WakePCs, SysCalls
  <2>4. isig' \in [Procs -> Signals \cup {0}]
    BY <1>3, <2>1 DEF TypeOK, ThreadTypes, psig_term, Goto, thrVars
  <2>5. ptlock' \in CPUs \cup {NoCPU}
    BY <1>3, <2>1 DEF TypeOK, GlobalTypes, psig_term, Goto
  <2> QED
    BY <1>3, <2>2, <2>3, <2>4, <2>5
    DEF TypeOK, ProcTypes, SigTypes, ArgTypes, PcTypes, ThreadTypes, GlobalTypes, psig_term,
        Goto,
        procVars, sigVars, argVars, thrVars, tickVars
<1>4. CASE psig_core(c)
  <2>1. cpu[c] # NULL /\ cpu[c] \in Procs
    BY <1>4, MyProc DEF psig_core, At
  <2>2. pc' \in [Procs -> PCs]
    BY <1>4, <2>1
    DEF TypeOK, PcTypes, psig_core, Goto, PCs, LockedPCs, SchedPCs, WakePCs, SysCalls
  <2>3. isig' \in [Procs -> Signals \cup {0}]
    BY <1>4, <2>1 DEF TypeOK, ThreadTypes, psig_core, Goto, thrVars
  <2>4. ptlock' \in CPUs \cup {NoCPU}
    BY <1>4, <2>1 DEF TypeOK, GlobalTypes, psig_core, Goto
  <2> QED
    BY <1>4, <2>2, <2>3, <2>4
    DEF TypeOK, ProcTypes, SigTypes, ArgTypes, PcTypes, ThreadTypes, GlobalTypes, psig_core,
        Goto,
        procVars, sigVars, argVars, thrVars, tickVars
<1>5. CASE psig_core_ret(c)
  <2>1. cpu[c] # NULL /\ cpu[c] \in Procs
    BY <1>5, MyProc DEF psig_core_ret, At
  <2>2. sigpending' \in [Procs -> SUBSET Signals]
    BY <1>5, <2>1 DEF TypeOK, SigTypes, psig_core_ret, Goto, sigVars
  <2>3. pc' \in [Procs -> PCs]
    BY <1>5, <2>1
    DEF TypeOK, PcTypes, psig_core_ret, Goto, PCs, LockedPCs, SchedPCs, WakePCs, SysCalls
  <2>4. isig' \in [Procs -> Signals \cup {0}]
    BY <1>5, <2>1 DEF TypeOK, ThreadTypes, psig_core_ret, Goto, thrVars
  <2>5. ptlock' \in CPUs \cup {NoCPU}
    BY <1>5, <2>1 DEF TypeOK, GlobalTypes, psig_core_ret, Goto
  <2> QED
    BY <1>5, <2>2, <2>3, <2>4, <2>5
    DEF TypeOK, ProcTypes, SigTypes, ArgTypes, PcTypes, ThreadTypes, GlobalTypes,
        psig_core_ret, Goto,
        procVars, sigVars, argVars, thrVars, tickVars
<1>6. CASE psig_stop(c)
  <2>1. cpu[c] # NULL /\ cpu[c] \in Procs
    BY <1>6, MyProc DEF psig_stop, At
  <2>2. state' \in [Procs -> States]
    BY <1>6, <2>1 DEF TypeOK, ProcTypes, psig_stop, Goto, stop, States, procVars
  <2>3. sigpending' \in [Procs -> SUBSET Signals]
    <3>1. \E S \in SUBSET sigpending[cpu[c]] : sigpending' = [sigpending EXCEPT ![cpu[c]] = S]
      BY <1>6 DEF psig_stop, stop, sigVars
    <3> QED
      BY <2>1, <3>1, SMTT(60) DEF TypeOK, SigTypes
  <2>4. pc' \in [Procs -> PCs]
    BY <1>6, <2>1
    DEF TypeOK, PcTypes, psig_stop, Goto, stop, PCs, LockedPCs, SchedPCs, WakePCs, SysCalls
  <2>5. isig' \in [Procs -> Signals \cup {0}]
    <3>1. isig' = isig \/ \E s \in sigpending[cpu[c]] : isig' = [isig EXCEPT ![cpu[c]] = s]
      BY <1>6 DEF psig_stop, stop, Default, thrVars
    <3>2. sigpending[cpu[c]] \subseteq Signals /\ isig \in [Procs -> Signals \cup {0}]
      BY <2>1 DEF TypeOK, SigTypes, ThreadTypes
    <3> QED
      BY <2>1, <3>1, <3>2
  <2> QED
    BY <1>6, <2>2, <2>3, <2>4, <2>5
    DEF TypeOK, ProcTypes, SigTypes, ArgTypes, PcTypes, ThreadTypes, GlobalTypes, psig_stop,
        Goto, stop,
        procVars, sigVars, argVars, thrVars, tickVars
<1>7. CASE psig_stop_ret(c)
  <2>1. cpu[c] # NULL /\ cpu[c] \in Procs
    BY <1>7, MyProc DEF psig_stop_ret, At
  <2>2. sigpending' \in [Procs -> SUBSET Signals]
    BY <1>7, <2>1 DEF TypeOK, SigTypes, psig_stop_ret, Goto, sigVars
  <2>3. pc' \in [Procs -> PCs]
    BY <1>7, <2>1
    DEF TypeOK, PcTypes, psig_stop_ret, Goto, PCs, LockedPCs, SchedPCs, WakePCs, SysCalls
  <2>4. isig' \in [Procs -> Signals \cup {0}]
    BY <1>7, <2>1 DEF TypeOK, ThreadTypes, psig_stop_ret, Goto, thrVars
  <2> QED
    BY <1>7, <2>2, <2>3, <2>4
    DEF TypeOK, ProcTypes, SigTypes, ArgTypes, PcTypes, ThreadTypes, GlobalTypes,
        psig_stop_ret, Goto,
        procVars, sigVars, argVars, thrVars, tickVars
<1>8. CASE psig_user(c)
  <2>1. cpu[c] # NULL /\ cpu[c] \in Procs
    BY <1>8, MyProc DEF psig_user, At
  <2>2. /\ Head(stk[cpu[c]])[1] \in PCs /\ Head(stk[cpu[c]])[2] \in Signals \cup {0}
       /\ Tail(stk[cpu[c]]) \in Seq(Caller)
    BY <1>8, <2>1, PopType DEF psig_user, At, CalledPCs
  <2>3. sigpending' \in [Procs -> SUBSET Signals]
    <3>1. sigpending' = sigpending \/ \E i : sigpending' = [sigpending EXCEPT ![cpu[c]] = @ \ {i}]
      BY <1>8 DEF psig_user, sigVars
    <3> QED
      BY <2>1, <3>1, SMTT(60) DEF TypeOK, SigTypes
  <2>4. pc' \in [Procs -> PCs]
    <3>1. pc' = [pc EXCEPT ![cpu[c]] = Head(stk[cpu[c]])[1]] \/ Goto(c, "jmptohandler")
      BY <1>8 DEF psig_user, Return
    <3> QED
      BY <2>1, <2>2, <3>1 DEF TypeOK, PcTypes, Goto, PCs
  <2>5. stk' \in [Procs -> Seq(Caller)]
    <3>1. stk' = [stk EXCEPT ![cpu[c]] = Tail(stk[cpu[c]])] \/ stk' = stk
      BY <1>8 DEF psig_user, Return, thrVars
    <3> QED
      BY <2>1, <2>2, <3>1 DEF TypeOK, ThreadTypes
  <2>6. isig' \in [Procs -> Signals \cup {0}]
    <3>1. isig' = [isig EXCEPT ![cpu[c]] = Head(stk[cpu[c]])[2]] \/ isig' = isig
      BY <1>8 DEF psig_user, Return, thrVars
    <3> QED
      BY <2>1, <2>2, <3>1 DEF TypeOK, ThreadTypes
  <2>7. frames' \in [Procs -> Seq(Frame)]
    <3> DEFINE f(i) == <<[sig |-> i, ret |-> addr_sigreturn[cpu[c]]]>> \o frames[cpu[c]]
    <3>1. \/ frames' = frames
          \/ \E i \in userdefed[cpu[c]] : frames' = [frames EXCEPT ![cpu[c]] = f(i)]
      BY <1>8 DEF psig_user
    <3>2. \A i \in userdefed[cpu[c]] : [sig |-> i, ret |-> addr_sigreturn[cpu[c]]] \in Frame
      BY <2>1 DEF TypeOK, SigTypes, Frame
    <3>3. frames \in [Procs -> Seq(Frame)]
      BY DEF TypeOK, ThreadTypes
    <3>4. \A i \in userdefed[cpu[c]] : f(i) \in Seq(Frame)
      BY <2>1, <3>2, <3>3, SMTT(60)
    <3> HIDE DEF f
    <3> QED
      BY <2>1, <3>1, <3>3, <3>4
  <2>8. ptlock' \in CPUs \cup {NoCPU}
    BY <1>8, <2>1 DEF TypeOK, GlobalTypes, psig_user, Goto, Return
  <2> QED
    BY <1>8, <2>3, <2>4, <2>5, <2>6, <2>7, <2>8
    DEF TypeOK, ProcTypes, SigTypes, ArgTypes, PcTypes, ThreadTypes, GlobalTypes, psig_user,
        Goto, Return,
        procVars, sigVars, argVars, thrVars, tickVars
<1>9. CASE jmptohandler(c)
  <2>1. cpu[c] # NULL /\ cpu[c] \in Procs
    BY <1>9, MyProc DEF jmptohandler, At
  <2>2. lp' \in [Procs -> Procs \cup {NULL}]
    BY <1>9, <2>1 DEF TypeOK, ArgTypes, jmptohandler, Goto, argVars
  <2>3. tpid' \in [Procs -> Int]
    BY <1>9, <2>1, SMTT(60) DEF TypeOK, ArgTypes, jmptohandler, Goto, argVars
  <2>4. tsig' \in [Procs -> Signals \cup {0}]
    BY <1>9, <2>1 DEF TypeOK, ArgTypes, jmptohandler, Goto, argVars
  <2>5. pc' \in [Procs -> PCs]
    BY <1>9, <2>1
    DEF TypeOK, PcTypes, jmptohandler, Goto, PCs, LockedPCs, SchedPCs, WakePCs, SysCalls
  <2>6. stk' \in [Procs -> Seq(Caller)]
    BY <1>9, <2>1, SMTT(60) DEF TypeOK, ThreadTypes, jmptohandler, Goto, Caller, thrVars
  <2>7. intr' \in [Procs -> BOOLEAN]
    BY <1>9, <2>1 DEF TypeOK, ThreadTypes, jmptohandler, Goto, thrVars
  <2>8. isig' \in [Procs -> Signals \cup {0}]
    BY <1>9, <2>1 DEF TypeOK, ThreadTypes, jmptohandler, Goto, thrVars
  <2>9. ticks0' \in [Procs -> 0..(TickMod - 1)]
    BY <1>9, <2>1, ProcAssumption, SMTT(60) DEF TypeOK, ThreadTypes, jmptohandler, thrVars
  <2> QED
    BY <1>9, <2>2, <2>3, <2>4, <2>5, <2>6, <2>7, <2>8, <2>9
    DEF TypeOK, ProcTypes, SigTypes, ArgTypes, PcTypes, ThreadTypes, GlobalTypes,
        jmptohandler, Goto,
        procVars, sigVars, argVars, thrVars, tickVars
<1> QED
  BY <1>1, <1>2, <1>3, <1>4, <1>5, <1>6, <1>7, <1>8, <1>9 DEF PsigStep

LEMMA KillTypes ==
  ASSUME IInv, NEW c \in CPUs, KillStep(c)
  PROVE  TypeOK'
<1> TypeOK
  BY DEF IInv
<1>1. CASE Kill(c)
  <2>1. cpu[c] # NULL /\ cpu[c] \in Procs
    BY <1>1, MyProc DEF Kill, At
  <2>2. lp' \in [Procs -> Procs \cup {NULL}]
    <3>1. lp' = lp \/ lp' = [lp EXCEPT ![cpu[c]] = 1]
      BY <1>1 DEF Kill, argVars
    <3>2. 1 \in Procs
      BY ProcAssumption, SMTT(60) DEF Procs
    <3> QED
      BY <2>1, <3>1, <3>2 DEF TypeOK, ArgTypes
  <2>3. tpid' \in [Procs -> Int]
    BY <1>1, <2>1, ProcAssumption, SMTT(60) DEF TypeOK, ArgTypes, ProcTypes, Kill, argVars
  <2>4. tsig' \in [Procs -> Signals \cup {0}]
    BY <1>1, <2>1 DEF TypeOK, ArgTypes, Kill, argVars
  <2>5. pc' \in [Procs -> PCs]
    BY <1>1, <2>1
    DEF TypeOK, PcTypes, Kill, Goto, PCs, LockedPCs, SchedPCs, WakePCs, SysCalls
  <2> QED
    BY <1>1, <2>2, <2>3, <2>4, <2>5
    DEF TypeOK, ProcTypes, SigTypes, ArgTypes, PcTypes, ThreadTypes, GlobalTypes, Kill,
        Goto,
        procVars, sigVars, argVars, thrVars, tickVars
<1>2. CASE Kill_scan(c)
  <2>1. cpu[c] # NULL /\ cpu[c] \in Procs
    BY <1>2, MyProc DEF Kill_scan, At
  <2>2. lp' \in [Procs -> Procs \cup {NULL}]
    <3>1. lp' = lp \/ \E i \in {NULL, lp[cpu[c]] + 1} : /\ i # NULL => lp[cpu[c]] < NPROC
                                                      /\ lp' = [lp EXCEPT ![cpu[c]] = i]
      BY <1>2 DEF Kill_scan, Kill_next, argVars
    <3> QED
      BY <2>1, <3>1, NextSlot, SMTT(60) DEF TypeOK, ArgTypes
  <2>3. tpid' \in [Procs -> Int]
    <3>1. tpid' = tpid \/ tpid' = [tpid EXCEPT ![cpu[c]] = 0]
      BY <1>2, <2>1 DEF Kill_scan, Kill_next, TypeOK, ArgTypes, argVars
    <3> QED
      BY <2>1, <3>1, SMTT(60) DEF TypeOK, ArgTypes
  <2>4. tsig' \in [Procs -> Signals \cup {0}]
    <3>1. tsig' = tsig \/ tsig' = [tsig EXCEPT ![cpu[c]] = 0]
      BY <1>2, <2>1 DEF Kill_scan, Kill_next, TypeOK, ArgTypes, argVars
    <3> QED
      BY <2>1, <3>1 DEF TypeOK, ArgTypes
  <2>5. pc' \in [Procs -> PCs]
    BY <1>2, <2>1, SMTT(60)
    DEF TypeOK, PcTypes, Kill_scan, Goto, Kill_next, PCs, LockedPCs, SchedPCs, WakePCs,
        SysCalls
  <2> QED
    BY <1>2, <2>2, <2>3, <2>4, <2>5
    DEF TypeOK, ProcTypes, SigTypes, ArgTypes, PcTypes, ThreadTypes, GlobalTypes, Kill_scan,
        Goto, Kill_next,
        procVars, sigVars, argVars, thrVars, tickVars
<1>3. CASE Kill_post(c)
  <2>1. cpu[c] # NULL /\ cpu[c] \in Procs
    BY <1>3, MyProc DEF Kill_post, At
  <2>2. state' \in [Procs -> States]
    <3>1. state' = state \/ state' = [state EXCEPT ![lp[cpu[c]]] = IF @ = "SLEEPING" THEN "RUNNABLE" ELSE @]
      BY <1>3 DEF Kill_post, procVars
    <3>2. state \in [Procs -> States] /\ "RUNNABLE" \in States
      BY DEF TypeOK, ProcTypes, States
    <3> QED
      BY <3>1, <3>2
  <2>3. sigpending' \in [Procs -> SUBSET Signals]
    <3>1. tsig[cpu[c]] \in Signals
      BY <1>3, <2>1, KillArgs DEF Kill_post, At, KillPCs, sigVars
    <3>2. \/ sigpending' = sigpending
          \/ \E S \in SUBSET {tsig[cpu[c]]} :
               sigpending' = [sigpending EXCEPT ![lp[cpu[c]]] = @ \cup S]
          \/ sigpending' = [sigpending EXCEPT ![lp[cpu[c]]] = post(lp[cpu[c]], tsig[cpu[c]])]
      BY <1>3 DEF Kill_post, sigVars
    <3>3. sigpending \in [Procs -> SUBSET Signals]
      BY DEF TypeOK, SigTypes
    <3>4. lp[cpu[c]] \in Procs => post(lp[cpu[c]], tsig[cpu[c]]) \in SUBSET Signals
      BY <3>1, <3>3 DEF post
    <3> QED
      BY <3>1, <3>2, <3>3, <3>4, SMTT(60)
  <2>4. lp' \in [Procs -> Procs \cup {NULL}]
    <3>1. lp' = lp \/ \E i \in {NULL, lp[cpu[c]] + 1} : /\ i # NULL => lp[cpu[c]] < NPROC
                                                      /\ lp' = [lp EXCEPT ![cpu[c]] = i]
      BY <1>3 DEF Kill_post, Kill_next, argVars
    <3> QED
      BY <2>1, <3>1, NextSlot, SMTT(60) DEF TypeOK, ArgTypes
  <2>5. tpid' \in [Procs -> Int]
    <3>1. tpid' = tpid \/ tpid' = [tpid EXCEPT ![cpu[c]] = 0]
      BY <1>3, <2>1 DEF Kill_post, Kill_next, TypeOK, ArgTypes, argVars
    <3> QED
      BY <2>1, <3>1, SMTT(60) DEF TypeOK, ArgTypes
  <2>6. tsig' \in [Procs -> Signals \cup {0}]
    <3>1. tsig' = tsig \/ tsig' = [tsig EXCEPT ![cpu[c]] = 0]
      BY <1>3, <2>1 DEF Kill_post, Kill_next, TypeOK, ArgTypes, argVars
    <3> QED
      BY <2>1, <3>1 DEF TypeOK, ArgTypes
  <2>7. pc' \in [Procs -> PCs]
    BY <1>3, <2>1
    DEF TypeOK, PcTypes, Kill_post, Goto, Kill_next, post, PCs, LockedPCs, SchedPCs,
        WakePCs, SysCalls
  <2> QED
    BY <1>3, <2>2, <2>3, <2>4, <2>5, <2>6, <2>7
    DEF TypeOK, ProcTypes, SigTypes, ArgTypes, PcTypes, ThreadTypes, GlobalTypes, Kill_post,
        Goto, Kill_next, post,
        procVars, sigVars, argVars, thrVars, tickVars
<1>4. CASE Kill_kill(c)
  <2>1. cpu[c] # NULL /\ cpu[c] \in Procs
    BY <1>4, MyProc DEF Kill_kill, At
  <2>2. state' \in [Procs -> States]
    BY <1>4, <2>1 DEF TypeOK, ProcTypes, Kill_kill, Goto, Kill_next, kill, States,
      procVars
  <2>3. killed' \in [Procs -> BOOLEAN]
    BY <1>4, <2>1 DEF TypeOK, ProcTypes, Kill_kill, Goto, Kill_next, kill, procVars
  <2>4. lp' \in [Procs -> Procs \cup {NULL}]
    <3>1. lp' = lp \/ \E i \in {NULL, lp[cpu[c]] + 1} : /\ i # NULL => lp[cpu[c]] < NPROC
                                                      /\ lp' = [lp EXCEPT ![cpu[c]] = i]
      BY <1>4 DEF Kill_kill, Kill_next, argVars
    <3> QED
      BY <2>1, <3>1, NextSlot, SMTT(60) DEF TypeOK, ArgTypes
  <2>5. tpid' \in [Procs -> Int]
    <3>1. tpid' = tpid \/ tpid' = [tpid EXCEPT ![cpu[c]] = 0]
      BY <1>4, <2>1 DEF Kill_kill, Kill_next, TypeOK, ArgTypes, argVars
    <3> QED
      BY <2>1, <3>1, SMTT(60) DEF TypeOK, ArgTypes
  <2>6. tsig' \in [Procs -> Signals \cup {0}]
    <3>1. tsig' = tsig \/ tsig' = [tsig EXCEPT ![cpu[c]] = 0]
      BY <1>4, <2>1 DEF Kill_kill, Kill_next, TypeOK, ArgTypes, argVars
    <3> QED
      BY <2>1, <3>1 DEF TypeOK, ArgTypes
  <2>7. pc' \in [Procs -> PCs]
    BY <1>4, <2>1
    DEF TypeOK, PcTypes, Kill_kill, Goto, Kill_next, kill, PCs, LockedPCs, SchedPCs,
        WakePCs, SysCalls
  <2> QED
    BY <1>4, <2>2, <2>3, <2>4, <2>5, <2>6, <2>7
    DEF TypeOK, ProcTypes, SigTypes, ArgTypes, PcTypes, ThreadTypes, GlobalTypes, Kill_kill,
        Goto, Kill_next, kill,
        procVars, sigVars, argVars, thrVars, tickVars
<1>5. CASE signal(c)
  <2>1. cpu[c] # NULL /\ cpu[c] \in Procs
    BY <1>5, MyProc DEF signal, At
  <2>2. userdefed' \in [Procs -> SUBSET (Signals \ {SIGKILL, SIGSTOP})]
    BY <1>5, <2>1, SMTT(60) DEF TypeOK, SigTypes, signal, Goto, sigVars
  <2>3. disposition' \in [Procs -> [Signals -> Dispositions]]
    BY <1>5, <2>1, SMTT(60) DEF TypeOK, SigTypes, signal, Goto, sigVars
  <2>4. addr_sigreturn' \in [Procs -> BOOLEAN]
    BY <1>5, <2>1 DEF TypeOK, SigTypes, signal, Goto, sigVars
  <2>5. pc' \in [Procs -> PCs]
    BY <1>5, <2>1
    DEF TypeOK, PcTypes, signal, Goto, PCs, LockedPCs, SchedPCs, WakePCs, SysCalls
  <2> QED
    BY <1>5, <2>2, <2>3, <2>4, <2>5
    DEF TypeOK, ProcTypes, SigTypes, ArgTypes, PcTypes, ThreadTypes, GlobalTypes, signal,
        Goto,
        procVars, sigVars, argVars, thrVars, tickVars
<1>6. CASE sys_sigmask(c)
  <2>1. cpu[c] # NULL /\ cpu[c] \in Procs
    BY <1>6, MyProc DEF sys_sigmask, At
  <2>2. sigblocked' \in [Procs -> SUBSET ((1..31) \ {SIGKILL, SIGSTOP, SIGCONT})]
    <3>1. ASSUME NEW m \in SUBSET (0..31), sigsetmask(cpu[c], m)
          PROVE  sigblocked' \in [Procs -> SUBSET ((1..31) \ {SIGKILL, SIGSTOP, SIGCONT})]
      BY <2>1, <3>1, SMTT(60) DEF TypeOK, SigTypes, sigsetmask
    <3>2. \A s \in Signals : sigblocked[cpu[c]] \cup {s} \in SUBSET (0..31)
      BY <2>1, ProcAssumption, SMTT(60) DEF TypeOK, SigTypes
    <3>3. \A s \in Signals : sigblocked[cpu[c]] \ {s} \in SUBSET (0..31)
      BY <2>1, SMTT(60) DEF TypeOK, SigTypes
    <3> QED
      BY <1>6, <3>1, <3>2, <3>3, ProcAssumption DEF TypeOK, SigTypes, sys_sigmask,
        sigVars
  <2>3. pc' \in [Procs -> PCs]
    BY <1>6, <2>1
    DEF TypeOK, PcTypes, sys_sigmask, Goto, sigsetmask, PCs, LockedPCs, SchedPCs, WakePCs,
        SysCalls
  <2> QED
    BY <1>6, <2>2, <2>3
    DEF TypeOK, ProcTypes, SigTypes, ArgTypes, PcTypes, ThreadTypes, GlobalTypes,
        sys_sigmask, Goto, sigsetmask,
        procVars, sigVars, argVars, thrVars, tickVars
<1> QED
  BY <1>1, <1>2, <1>3, <1>4, <1>5, <1>6 DEF KillStep

LEMMA TrapTypes ==
  ASSUME IInv, NEW c \in CPUs, TrapStep(c)
  PROVE  TypeOK'
<1> TypeOK
  BY DEF IInv
<1>1. CASE trap_sysret(c)
  <2>1. cpu[c] # NULL /\ cpu[c] \in Procs
    BY <1>1, MyProc DEF trap_sysret, At
  <2>2. pc' \in [Procs -> PCs]
    BY <1>1, <2>1
    DEF TypeOK, PcTypes, trap_sysret, Goto, CallPsig, PCs, LockedPCs, SchedPCs, WakePCs,
        SysCalls
  <2>3. stk' \in [Procs -> Seq(Caller)]
    <3>1. <<<<"killcheck", isig[cpu[c]]>>>> \o stk[cpu[c]] \in Seq(Caller)
      BY <2>1, PushType DEF TypeOK, ThreadTypes, PCs
    <3> QED
      BY <1>1, <2>1, <3>1 DEF TypeOK, ThreadTypes, trap_sysret, CallPsig, thrVars
  <2>4. isig' \in [Procs -> Signals \cup {0}]
    BY <1>1, <2>1 DEF TypeOK, ThreadTypes, trap_sysret, Goto, CallPsig, thrVars
  <2> QED
    BY <1>1, <2>2, <2>3, <2>4
    DEF TypeOK, ProcTypes, SigTypes, ArgTypes, PcTypes, ThreadTypes, GlobalTypes,
        trap_sysret, Goto, CallPsig,
        procVars, sigVars, argVars, thrVars, tickVars
<1>2. CASE trap_killcheck(c)
  <2>1. cpu[c] # NULL /\ cpu[c] \in Procs
    BY <1>2, MyProc DEF trap_killcheck, At
  <2>2. pc' \in [Procs -> PCs]
    BY <1>2, <2>1
    DEF TypeOK, PcTypes, trap_killcheck, Goto, PCs, LockedPCs, SchedPCs, WakePCs, SysCalls
  <2> QED
    BY <1>2, <2>2
    DEF TypeOK, ProcTypes, SigTypes, ArgTypes, PcTypes, ThreadTypes, GlobalTypes,
        trap_killcheck, Goto,
        procVars, sigVars, argVars, thrVars, tickVars
<1>3. CASE trap_tick(c)
  <2>1. cpu[c] # NULL /\ cpu[c] \in Procs
    BY <1>3, MyProc DEF trap_tick, At
  <2>2. state' \in [Procs -> States]
    BY <1>3, <2>1, SMTT(60)
    DEF TypeOK, ProcTypes, trap_tick, Goto, panic, ticktock, wakeup1, States, procVars
  <2>3. pc' \in [Procs -> PCs]
    BY <1>3, <2>1
    DEF TypeOK, PcTypes, trap_tick, Goto, panic, ticktock, wakeup1, PCs, LockedPCs,
        SchedPCs, WakePCs, SysCalls
  <2>4. ticks' \in 0..(TickMod - 1)
    BY <1>3, ProcAssumption, SMTT(60) DEF TypeOK, GlobalTypes, trap_tick, ticktock, panic,
      tickVars
  <2>5. panicked' \in {"no", "sched_locks", "acquire", "init_exiting"}
    BY <1>3, <2>1 DEF TypeOK, GlobalTypes, trap_tick, Goto, panic, ticktock, wakeup1
  <2> QED
    BY <1>3, <2>2, <2>3, <2>4, <2>5, SMTT(60)
    DEF TypeOK, ProcTypes, SigTypes, ArgTypes, PcTypes, ThreadTypes, GlobalTypes, trap_tick,
        Goto, panic, ticktock, wakeup1,
        procVars, sigVars, argVars, thrVars, tickVars
<1>4. CASE trap_intr_killed(c)
  <2>1. cpu[c] # NULL /\ cpu[c] \in Procs
    BY <1>4, MyProc DEF trap_intr_killed, At
  <2>2. pc' \in [Procs -> PCs]
    BY <1>4, <2>1, SMTT(60)
    DEF TypeOK, PcTypes, trap_intr_killed, Goto, AfterKilled, PCs, LockedPCs, SchedPCs,
        WakePCs, SysCalls
  <2>3. stk' \in [Procs -> Seq(Caller)]
    <3>1. stk' = stk \/ stk' = [stk EXCEPT ![cpu[c]] = <<>>]
      BY <1>4 DEF trap_intr_killed, thrVars
    <3>2. stk \in [Procs -> Seq(Caller)] /\ <<>> \in Seq(Caller)
      BY SMTT(60) DEF TypeOK, ThreadTypes
    <3> QED
      BY <2>1, <3>1, <3>2
  <2> QED
    BY <1>4, <2>2, <2>3
    DEF TypeOK, ProcTypes, SigTypes, ArgTypes, PcTypes, ThreadTypes, GlobalTypes,
        trap_intr_killed, Goto, AfterKilled,
        procVars, sigVars, argVars, thrVars, tickVars
<1>5. CASE trap_intr_sig(c)
  <2>1. cpu[c] # NULL /\ cpu[c] \in Procs
    BY <1>5, MyProc DEF trap_intr_sig, At
  <2>2. pc' \in [Procs -> PCs]
    BY <1>5, <2>1
    DEF TypeOK, PcTypes, trap_intr_sig, Goto, CallPsig, PCs, LockedPCs, SchedPCs, WakePCs,
        SysCalls
  <2>3. stk' \in [Procs -> Seq(Caller)]
    <3>1. <<<<"intr_ret", isig[cpu[c]]>>>> \o stk[cpu[c]] \in Seq(Caller)
      BY <2>1, PushType DEF TypeOK, ThreadTypes, PCs
    <3> QED
      BY <1>5, <2>1, <3>1 DEF TypeOK, ThreadTypes, trap_intr_sig, CallPsig, thrVars
  <2>4. isig' \in [Procs -> Signals \cup {0}]
    BY <1>5, <2>1 DEF TypeOK, ThreadTypes, trap_intr_sig, Goto, CallPsig, thrVars
  <2> QED
    BY <1>5, <2>2, <2>3, <2>4
    DEF TypeOK, ProcTypes, SigTypes, ArgTypes, PcTypes, ThreadTypes, GlobalTypes,
        trap_intr_sig, Goto, CallPsig,
        procVars, sigVars, argVars, thrVars, tickVars
<1>6. CASE trap_intr_ret(c)
  <2>1. cpu[c] # NULL /\ cpu[c] \in Procs
    BY <1>6, MyProc DEF trap_intr_ret, At
  <2>2. /\ Head(stk[cpu[c]])[1] \in PCs /\ Head(stk[cpu[c]])[2] \in Signals \cup {0}
       /\ Tail(stk[cpu[c]]) \in Seq(Caller)
    BY <1>6, <2>1, PopType DEF trap_intr_ret, At, CalledPCs
  <2>3. pc' \in [Procs -> PCs]
    <3>1. pc' = [pc EXCEPT ![cpu[c]] = Head(stk[cpu[c]])[1]]
      BY <1>6 DEF trap_intr_ret, Return
    <3> QED
      BY <2>1, <2>2, <3>1 DEF TypeOK, PcTypes
  <2>4. stk' \in [Procs -> Seq(Caller)]
    <3>1. stk' = [stk EXCEPT ![cpu[c]] = Tail(stk[cpu[c]])]
      BY <1>6 DEF trap_intr_ret, Return, thrVars
    <3> QED
      BY <2>1, <2>2, <3>1 DEF TypeOK, ThreadTypes
  <2>5. isig' \in [Procs -> Signals \cup {0}]
    <3>1. isig' = [isig EXCEPT ![cpu[c]] = Head(stk[cpu[c]])[2]]
      BY <1>6 DEF trap_intr_ret, Return, thrVars
    <3> QED
      BY <2>1, <2>2, <3>1 DEF TypeOK, ThreadTypes
  <2>6. intr' \in [Procs -> BOOLEAN]
    BY <1>6, <2>1 DEF TypeOK, ThreadTypes, trap_intr_ret, Return, thrVars
  <2> QED
    BY <1>6, <2>3, <2>4, <2>5, <2>6
    DEF TypeOK, ProcTypes, SigTypes, ArgTypes, PcTypes, ThreadTypes, GlobalTypes,
        trap_intr_ret, Return,
        procVars, sigVars, argVars, thrVars, tickVars
<1> QED
  BY <1>1, <1>2, <1>3, <1>4, <1>5, <1>6 DEF TrapStep

LEMMA UserTypes ==
  ASSUME IInv, NEW c \in CPUs, UserStep(c)
  PROVE  TypeOK'
<1> TypeOK
  BY DEF IInv
<1>1. ASSUME NEW op \in SysCalls, trap_syscall(c, op)
      PROVE  TypeOK'
  <2>1. cpu[c] # NULL /\ cpu[c] \in Procs
    BY <1>1, MyProc DEF trap_syscall, At
  <2>2. pc' \in [Procs -> PCs]
    BY <1>1, <2>1, SMTT(60)
    DEF TypeOK, PcTypes, trap_syscall, Goto, PCs, LockedPCs, SchedPCs, WakePCs, SysCalls
  <2> QED
    BY <1>1, <2>2
    DEF TypeOK, ProcTypes, SigTypes, ArgTypes, PcTypes, ThreadTypes, GlobalTypes,
        trap_syscall, Goto,
        procVars, sigVars, argVars, thrVars, tickVars
<1>2. CASE sigreturn(c)
  <2>1. cpu[c] # NULL /\ cpu[c] \in Procs
    BY <1>2, MyProc DEF sigreturn, At
  <2>2. pc' \in [Procs -> PCs]
    BY <1>2, <2>1
    DEF TypeOK, PcTypes, sigreturn, Goto, PCs, LockedPCs, SchedPCs, WakePCs, SysCalls
  <2>3. frames' \in [Procs -> Seq(Frame)]
    <3>1. frames' = frames \/ (frames[cpu[c]] # <<>>
          /\ frames' = [frames EXCEPT ![cpu[c]] = Tail(@)])
      BY <1>2 DEF sigreturn
    <3>2. frames[cpu[c]] # <<>> => Tail(frames[cpu[c]]) \in Seq(Frame)
      BY <2>1, SMTT(60) DEF TypeOK, ThreadTypes
    <3> QED
      BY <2>1, <3>1, <3>2 DEF TypeOK, ThreadTypes
  <2> QED
    BY <1>2, <2>2, <2>3
    DEF TypeOK, ProcTypes, SigTypes, ArgTypes, PcTypes, ThreadTypes, GlobalTypes, sigreturn,
        Goto,
        procVars, sigVars, argVars, thrVars, tickVars
<1>3. CASE trap_fault(c)
  <2>1. cpu[c] # NULL /\ cpu[c] \in Procs
    BY <1>3, MyProc DEF trap_fault, At, fault
  <2>2. killed' \in [Procs -> BOOLEAN]
    BY <1>3, <2>1 DEF TypeOK, ProcTypes, trap_fault, fault, Goto, procVars
  <2>3. pc' \in [Procs -> PCs]
    BY <1>3, <2>1
    DEF TypeOK, PcTypes, trap_fault, fault, Goto, PCs, LockedPCs, SchedPCs, WakePCs,
        SysCalls
  <2>4. stk' \in [Procs -> Seq(Caller)]
    <3>1. <<<<"user", 0>>>> \in Seq(Caller)
      BY UserCaller
    <3> QED
      BY <1>3, <2>1, <3>1 DEF TypeOK, ThreadTypes, trap_fault, fault, thrVars
  <2>5. intr' \in [Procs -> BOOLEAN]
    BY <1>3, <2>1 DEF TypeOK, ThreadTypes, trap_fault, fault, Goto, thrVars
  <2> QED
    BY <1>3, <2>2, <2>3, <2>4, <2>5
    DEF TypeOK, ProcTypes, SigTypes, ArgTypes, PcTypes, ThreadTypes, GlobalTypes,
        trap_fault, fault, Goto,
        procVars, sigVars, argVars, thrVars, tickVars
<1>4. CASE trap_overrun(c)
  <2>1. cpu[c] # NULL /\ cpu[c] \in Procs
    BY <1>4, MyProc DEF trap_overrun, At, fault
  <2>2. killed' \in [Procs -> BOOLEAN]
    BY <1>4, <2>1 DEF TypeOK, ProcTypes, trap_overrun, fault, Goto, procVars
  <2>3. pc' \in [Procs -> PCs]
    BY <1>4, <2>1
    DEF TypeOK, PcTypes, trap_overrun, fault, Goto, PCs, LockedPCs, SchedPCs, WakePCs,
        SysCalls
  <2>4. stk' \in [Procs -> Seq(Caller)]
    <3>1. <<<<"user", 0>>>> \in Seq(Caller)
      BY UserCaller
    <3> QED
      BY <1>4, <2>1, <3>1 DEF TypeOK, ThreadTypes, trap_overrun, fault, thrVars
  <2>5. intr' \in [Procs -> BOOLEAN]
    BY <1>4, <2>1 DEF TypeOK, ThreadTypes, trap_overrun, fault, Goto, thrVars
  <2> QED
    BY <1>4, <2>2, <2>3, <2>4, <2>5
    DEF TypeOK, ProcTypes, SigTypes, ArgTypes, PcTypes, ThreadTypes, GlobalTypes,
        trap_overrun, fault, Goto,
        procVars, sigVars, argVars, thrVars, tickVars
<1> QED
  BY <1>1, <1>2, <1>3, <1>4 DEF UserStep

LEMMA SchedulerTypes ==
  ASSUME IInv, NEW c \in CPUs, NEW q \in Procs, scheduler(c, q)
  PROVE  TypeOK'
<1> TypeOK
  BY DEF IInv
<1>1. state' \in [Procs -> States]
  BY DEF TypeOK, ProcTypes, scheduler, States, procVars
<1>2. cpu' \in [CPUs -> Procs \cup {NULL}]
  BY DEF TypeOK, GlobalTypes, scheduler
<1>3. ptlock' \in CPUs \cup {NoCPU}
  BY DEF TypeOK, GlobalTypes, scheduler
<1> QED
  BY <1>1, <1>2, <1>3
  DEF TypeOK, ProcTypes, SigTypes, ArgTypes, PcTypes, ThreadTypes, GlobalTypes, scheduler,
      procVars, sigVars, argVars, thrVars, tickVars

LEMMA IntrTypes ==
  ASSUME IInv, NEW c \in CPUs, NEW dev \in {"intr_timer", "intr_device"}, trap_intr(c, dev)
  PROVE  TypeOK'
<1> TypeOK
  BY DEF IInv
<1>1. cpu[c] # NULL /\ cpu[c] \in Procs
  BY MyProc DEF trap_intr, At, Interrupt
<1>2. pc' \in [Procs -> PCs]
  BY <1>1
  DEF TypeOK, PcTypes, trap_intr, Interrupt, Goto, PCs, LockedPCs, SchedPCs, WakePCs,
      SysCalls
<1>3. stk' \in [Procs -> Seq(Caller)]
  <2>1. <<<<pc[cpu[c]], isig[cpu[c]]>>>> \o stk[cpu[c]] \in Seq(Caller)
    BY <1>1, PushType DEF TypeOK, ThreadTypes, PcTypes
  <2> QED
    BY <1>1, <2>1 DEF TypeOK, ThreadTypes, trap_intr, Interrupt, thrVars
<1>4. isig' \in [Procs -> Signals \cup {0}]
  BY <1>1 DEF TypeOK, ThreadTypes, trap_intr, Interrupt, Goto, thrVars
<1>5. intr' \in [Procs -> BOOLEAN]
  BY <1>1 DEF TypeOK, ThreadTypes, trap_intr, Interrupt, Goto, thrVars
<1> QED
  BY <1>2, <1>3, <1>4, <1>5
  DEF TypeOK, ProcTypes, SigTypes, ArgTypes, PcTypes, ThreadTypes, GlobalTypes, trap_intr,
      Interrupt, Goto,
      procVars, sigVars, argVars, thrVars, tickVars

LEMMA IdleTypes ==
  ASSUME IInv, idle_tick
  PROVE  TypeOK'
<1> TypeOK
  BY DEF IInv
<1>1. state' \in [Procs -> States]
  BY DEF TypeOK, ProcTypes, idle_tick, ticktock, wakeup1, States, procVars
<1>2. ticks' \in 0..(TickMod - 1)
  BY ProcAssumption, SMTT(60) DEF TypeOK, GlobalTypes, idle_tick, ticktock, tickVars
<1> QED
  BY <1>1, <1>2
  DEF TypeOK, ProcTypes, SigTypes, ArgTypes, PcTypes, ThreadTypes, GlobalTypes, idle_tick,
      ticktock, wakeup1,
      procVars, sigVars, argVars, thrVars, tickVars

=============================================================================
