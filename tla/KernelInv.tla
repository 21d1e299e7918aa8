------------------------------ MODULE KernelInv ------------------------------
(***************************************************************************)
(* The inductive invariant behind the safety properties of Kernel.          *)
(***************************************************************************)
EXTENDS Kernel

(* Points in code that was called from another point of the same thread:    *)
(* psig() and the handling of an interrupt.                                 *)
CalledPCs ==
  {"psig", "term", "term_ret", "core", "core_ret", "psig_core", "psig_stop",
   "stop_sched", "stop_wake", "psig_user", "jmptohandler",
   "tick", "intr_timer", "intr_device", "intr_killed2", "intr_sig", "intr_ret",
   "yield", "yield_sched", "yield_ret"}

(* A thread at point l with the callers s: all but the outermost are in     *)
(* called code, and none holds ptable.lock.                                 *)
StackOK(l, s) ==
  /\ s = <<>> <=> l \notin CalledPCs
  /\ \A k \in 1..Len(s) : s[k][1] \in CalledPCs <=> k < Len(s)
  /\ \A k \in 1..Len(s) : s[k][1] \notin LockedPCs

(* The outermost point: where the system call, or the user code, is. *)
BaseOf(l, s) == IF s = <<>> THEN l ELSE s[Len(s)][1]
Base(p) == BaseOf(pc[p], stk[p])

ThreadInv ==
  /\ \A p \in Procs : StackOK(pc[p], stk[p])
  /\ \A p \in Procs : state[p] \in {"UNUSED", "EMBRYO", "ZOMBIE"} =>
       pc[p] \in {"exit_sched", "exit_ret", "forkret"}

(* ptable.lock and the CPUs: who holds the lock, who is on a CPU, and where *)
(* the threads that are on none will resume.                                *)
CpuInv ==
  /\ LockHandover
  /\ \A c, d \in CPUs : cpu[c] = cpu[d] /\ cpu[c] # NULL => c = d
  /\ \A c \in CPUs : cpu[c] # NULL =>
       /\ state[cpu[c]] \notin {"UNUSED", "EMBRYO"}
       /\ state[cpu[c]] = "RUNNING" <=> pc[cpu[c]] \notin SchedPCs
  /\ \A p \in Procs : state[p] = "RUNNING" => \E c \in CPUs : cpu[c] = p
  /\ \A p \in Procs : state[p] \in {"RUNNABLE", "SLEEPING"} =>
       pc[p] \in WakePCs \/ \E c \in CPUs : cpu[c] = p

(* The slot a fork() in progress has allocated is its own. *)
ForkPCs == {"fork_kstack", "fork_copy", "fork_run"}
ForkInv ==
  \A p \in Procs : Base(p) \in ForkPCs =>
    /\ lp[p] \in Procs
    /\ state[lp[p]] = "EMBRYO"
    /\ Base(p) # "fork_kstack" => pc[lp[p]] = "forkret"
    /\ parent[lp[p]] = IF Base(p) = "fork_run" THEN p ELSE NULL
    /\ \A q \in Procs : Base(q) \in ForkPCs /\ lp[q] = lp[p] => q = p

(* The search of a Kill() in progress is at a slot, with a signal to post. *)
KillPCs == {"Kill_scan", "Kill_post", "Kill_kill"}
KillInv ==
  \A p \in Procs : Base(p) \in KillPCs => lp[p] \in Procs /\ tsig[p] \in Signals

(* The channel of a thread at point l, in sleep() called by wait() or by    *)
(* sys_sleep(); everywhere else, stop() included, there is none.            *)
ChanOf(l, p) == IF l \in {"wait_sched", "wait_wake"} THEN p
                ELSE IF l \in {"sleep_sched", "sleep_wake"} THEN TicksChan ELSE NULL

ChanInv == \A p \in Procs : chan[p] = ChanOf(pc[p], p)

(* Parents; and who sleeps in wait() has something to wait for. *)
FamilyInv ==
  /\ Live(initproc) /\ parent[initproc] = NULL
  /\ FamilyTree
  /\ \A p \in Procs : parent[p] # p
  /\ \A p \in Procs : state[p] = "UNUSED" => parent[p] = NULL
  /\ \A p \in Procs : state[p] = "SLEEPING" /\ pc[p] \in {"wait_sched", "wait_wake"} =>
       /\ ~killed[p]
       /\ \E q \in Procs : parent[q] = p
       /\ \A q \in Procs : parent[q] = p => state[q] # "ZOMBIE"

Coherent == ThreadInv /\ CpuInv /\ ForkInv /\ KillInv /\ ChanInv /\ FamilyInv

IInv == TypeOK /\ Coherent

-----------------------------------------------------------------------------
(* On top of IInv: the clock.  From its test of ticks to sleep(), sys_sleep() *)
(* stays on its CPU and keeps tickslock, psig() on the way included.        *)
SleepPCs == {"sleep_loop", "sleep_sig", "sleep_sleep", "sleep_over", "sleep_end"}

Early(p) == (ticks - ticks0[p]) % TickMod < SleepTicks

TickInv ==
  /\ \A p \in Procs : Base(p) \in SleepPCs => \E c \in CPUs : cpu[c] = p /\ tickslock = c
  /\ \A p \in Procs : Base(p) \in {"sleep_sig", "sleep_sleep"} => Early(p)
  /\ NoOverdueSleeper

(* The signal a process is stopped by is not blocked, or it is SIGSTOP. *)
StopInv ==
  \A p \in Procs : pc[p] \in {"stop_sched", "stop_wake"} =>
    isig[p] = SIGSTOP \/ isig[p] \notin sigblocked[p]
=============================================================================
