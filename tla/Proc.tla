-------------------------------- MODULE Proc --------------------------------
(***************************************************************************)
(* The process table of xv6 with signals: struct proc, the scheduler, and   *)
(* fork, exit, wait, kill, sleep and wakeup (proc.c), with ptable.lock      *)
(* explicit.                                                                *)
(*                                                                          *)
(* Kernel code is executed by a CPU c on behalf of the process cpu[c]       *)
(* (myproc()); pc[p] is the point its kernel thread has reached, "user"     *)
(* while it runs user code.  One action is one stretch of code between two  *)
(* points where another CPU or an interrupt can get in.  A critical section *)
(* that ends with a release() is one step that needs ptable.lock free; one  *)
(* that ends in sched() keeps the lock, which the swtch() hands over.       *)
(*                                                                          *)
(* A definition that comes just before another one with the same            *)
(* parameters, and whose name extends the other's, is a plausible mistake   *)
(* in that code; it is used only to see that the properties notice it.      *)
(***************************************************************************)
EXTENDS Integers, Sequences

CONSTANTS NPROC,      \* slots of the process table
          NCPU,       \* processors
          Signals,    \* the signal numbers programs use, out of 1..22
          MaxPid,     \* bound: fork is called only while nextpid <= MaxPid
          MaxFrames,  \* signal frames that fit on a user stack
          TickMod,    \* the range of the uint ticks (2^32 in the code)
          SleepTicks, \* the argument of sleep()
          UserOps,    \* UserOps[p]: what the program in slot p does, system
                      \*   calls and "fault"
          KillPids,   \* pid arguments of kill() and Kill()
          Masks,      \* arguments of sigsetmask()
          IntrPCs     \* points of a thread at which interrupts arrive

SIGKILL == 9
SIGCHLD == 17
SIGCONT == 18
SIGSTOP == 19

SysCalls == {"fork", "exit", "wait", "kill", "sleep", "exec", "Kill", "raise",
             "signal", "sigsetmask", "sigblock", "sigunblock"}

Procs == 1..NPROC

ASSUME ProcAssumption ==
  /\ NPROC \in Nat \ {0}
  /\ NCPU \in Nat \ {0}
  /\ Signals \subseteq 1..22
  /\ MaxPid \in Nat /\ MaxFrames \in Nat /\ SleepTicks \in Nat
  /\ TickMod \in Nat \ {0}
  /\ KillPids \subseteq Int
  /\ Masks \subseteq SUBSET (0..31)

ASSUME UserAssumption == UserOps \in [Procs -> SUBSET (SysCalls \cup {"fault"})]

CPUs == 0..(NCPU - 1)
NULL == 0                  \* a null struct proc *, or a null channel
NoCPU == -1                \* nobody holds the lock
initproc == 1
TicksChan == NPROC + 1     \* &ticks; the channel of wait() is the process itself

States == {"UNUSED", "EMBRYO", "SLEEPING", "RUNNABLE", "RUNNING", "ZOMBIE"}
Dispositions == {"DFL", "IGN", "USERDEF"}

(* Points at which a thread holds ptable.lock and is about to call swtch(), *)
(* and the points at which it comes back, still holding the lock.           *)
SchedPCs == {"yield_sched", "exit_sched", "wait_sched", "sleep_sched", "stop_sched"}
WakePCs == {"forkret", "yield_ret", "exit_ret", "wait_wake", "sleep_wake", "stop_wake"}
AfterSched == {<<"yield_sched", "yield_ret">>, <<"exit_sched", "exit_ret">>,
               <<"wait_sched", "wait_wake">>, <<"sleep_sched", "sleep_wake">>,
               <<"stop_sched", "stop_wake">>}

VARIABLES
  (* struct proc *)
  state, pid, parent, chan, killed,
  tf,               \* tf[p]: p->tf points to a frame with user segments
  sigpending, sigblocked, userdefed,
  disposition,      \* allinfo[].disposition
  addr_sigreturn,   \* whether it is non-null
  (* the kernel thread of each process: its point, its stack, its locals *)
  pc,
  stk,              \* callers to return to: <<point, isig>>
  intr,             \* in an interrupt handler: interrupts stay off
  lp,               \* np of fork, p of Kill
  tpid, tsig,       \* arguments of Kill
  isig,             \* the signal psig is at
  ticks0,           \* local of sys_sleep
  frames,           \* signal frames on the user stack, newest first
  (* globals *)
  nextpid, cpu,     \* cpu[c] is c->proc
  ptlock,           \* the CPU that holds ptable.lock
  tickslock, ticks,
  panicked          \* the argument of panic(), "no" before

procVars == <<state, pid, parent, chan, killed, tf, nextpid>>
sigVars == <<sigpending, sigblocked, userdefed, disposition, addr_sigreturn>>
argVars == <<lp, tpid, tsig>>
thrVars == <<stk, intr, isig, ticks0>>
tickVars == <<tickslock, ticks>>
vars == <<procVars, sigVars, argVars, thrVars, pc, frames, cpu, ptlock, tickVars, panicked>>

-----------------------------------------------------------------------------
(* CPU c executes at point l of the process it runs. *)
At(c, l) == /\ panicked = "no"
            /\ cpu[c] # NULL
            /\ pc[cpu[c]] = l

Goto(c, l) == pc' = [pc EXCEPT ![cpu[c]] = l]

(* i is the element of S that a loop in increasing order finds first. *)
First(S, i) == i \in S /\ \A j \in S : i <= j

(* panic(): the machine stops. *)
panic(msg) ==
  /\ panicked' = msg
  /\ UNCHANGED <<procVars, sigVars, argVars, thrVars, pc, frames, cpu, ptlock, tickVars>>

(* The table after wakeup1(ch), from the states st. *)
wakeup1_all(st, ch) ==
  [q \in Procs |-> IF st[q] = "SLEEPING" THEN "RUNNABLE" ELSE st[q]]

wakeup1_none(st, ch) == st

wakeup1(st, ch) ==
  [q \in Procs |-> IF st[q] = "SLEEPING" /\ chan[q] = ch THEN "RUNNABLE" ELSE st[q]]

(* kill(v), a critical section: the first slot with that pid, used or not. *)
kill(v) ==
  LET found == {q \in Procs : pid[q] = v}
  IN  \/ \E q \in found :
           /\ First(found, q)
           /\ killed' = [killed EXCEPT ![q] = TRUE]
           /\ state' = [state EXCEPT ![q] = IF @ = "SLEEPING" THEN "RUNNABLE" ELSE @]
      \/ found = {} /\ UNCHANGED <<killed, state>>

-----------------------------------------------------------------------------
(* scheduler(): an idle CPU switches to a RUNNABLE process, which resumes   *)
(* in sched() or forkret() with the lock the scheduler took.                *)
scheduler(c, q) ==
  /\ panicked = "no"
  /\ cpu[c] = NULL
  /\ ptlock = NoCPU
  /\ state[q] = "RUNNABLE"
  /\ state' = [state EXCEPT ![q] = "RUNNING"]
  /\ cpu' = [cpu EXCEPT ![c] = q]
  /\ ptlock' = c
  /\ UNCHANGED <<pid, parent, chan, killed, tf, nextpid, sigVars, argVars,
                 thrVars, pc, frames, tickVars, panicked>>

(* sched(): back to the scheduler, which releases the lock.  ncli is one    *)
(* when ptable.lock is the only spinlock the CPU holds.                     *)
sched(c) ==
  /\ panicked = "no"
  /\ cpu[c] # NULL
  /\ pc[cpu[c]] \in SchedPCs
  /\ \/ tickslock = c /\ panic("sched_locks")
     \/ /\ tickslock # c
        /\ cpu' = [cpu EXCEPT ![c] = NULL]
        /\ ptlock' = NoCPU
        /\ \E r \in AfterSched : pc[cpu[c]] = r[1] /\ Goto(c, r[2])
        /\ UNCHANGED <<procVars, sigVars, argVars, thrVars, frames, tickVars, panicked>>

(* yield(), up to its call of sched(). *)
yield_unlocked(c) ==
  /\ At(c, "yield")
  /\ ptlock = NoCPU
  /\ state' = [state EXCEPT ![cpu[c]] = "RUNNABLE"]
  /\ Goto(c, "yield_sched")
  /\ UNCHANGED <<pid, parent, chan, killed, tf, nextpid, sigVars, argVars,
                 thrVars, frames, cpu, ptlock, tickVars, panicked>>

yield(c) ==
  /\ At(c, "yield")
  /\ ptlock = NoCPU
  /\ ptlock' = c
  /\ state' = [state EXCEPT ![cpu[c]] = "RUNNABLE"]
  /\ Goto(c, "yield_sched")
  /\ UNCHANGED <<pid, parent, chan, killed, tf, nextpid, sigVars, argVars,
                 thrVars, frames, cpu, tickVars, panicked>>

(* yield() after sched(), back in trap(). *)
yield_ret(c) ==
  /\ At(c, "yield_ret")
  /\ ptlock' = NoCPU
  /\ Goto(c, "intr_killed2")
  /\ UNCHANGED <<procVars, sigVars, argVars, thrVars, frames, cpu, tickVars, panicked>>

(* forkret(): a new process releases the lock and returns to user space.    *)
forkret(c) ==
  /\ At(c, "forkret")
  /\ ptlock' = NoCPU
  /\ Goto(c, "user")
  /\ UNCHANGED <<procVars, sigVars, argVars, thrVars, frames, cpu, tickVars, panicked>>

-----------------------------------------------------------------------------
(* fork() *)

(* allocproc(), its critical section. *)
allocproc(c) ==
  LET p == cpu[c]
      free == {q \in Procs : state[q] = "UNUSED"}
  IN  /\ At(c, "fork")
      /\ ptlock = NoCPU
      /\ \/ \E np \in free :
              /\ First(free, np)
              /\ state' = [state EXCEPT ![np] = "EMBRYO"]
              /\ pid' = [pid EXCEPT ![np] = nextpid]
              /\ nextpid' = nextpid + 1
              /\ lp' = [lp EXCEPT ![p] = np]
              /\ Goto(c, "fork_kstack")
              /\ UNCHANGED <<parent, chan, killed, tf, tpid, tsig>>
         \/ /\ free = {}
            /\ Goto(c, "sysret")
            /\ UNCHANGED <<procVars, argVars>>
      /\ UNCHANGED <<sigVars, thrVars, frames, cpu, ptlock, tickVars, panicked>>

(* No memory for the kernel stack or the page table: the slot is given back *)
(* without the lock, with its pid.                                          *)
fork_fail_pid(c) ==
  /\ At(c, "fork_kstack") \/ At(c, "fork_copy")
  /\ state' = [state EXCEPT ![lp[cpu[c]]] = "UNUSED"]
  /\ pid' = [pid EXCEPT ![lp[cpu[c]]] = 0]
  /\ nextpid' = nextpid - 1
  /\ lp' = [lp EXCEPT ![cpu[c]] = NULL]
  /\ Goto(c, "sysret")
  /\ UNCHANGED <<parent, chan, killed, tf, sigVars, tpid, tsig, thrVars, frames,
                 cpu, ptlock, tickVars, panicked>>

fork_fail(c) ==
  /\ At(c, "fork_kstack") \/ At(c, "fork_copy")
  /\ state' = [state EXCEPT ![lp[cpu[c]]] = "UNUSED"]
  /\ lp' = [lp EXCEPT ![cpu[c]] = NULL]
  /\ Goto(c, "sysret")
  /\ UNCHANGED <<pid, parent, chan, killed, tf, nextpid, sigVars, tpid, tsig,
                 thrVars, frames, cpu, ptlock, tickVars, panicked>>

(* allocproc(), the rest: a kernel stack whose thread starts in forkret.    *)
(* killed is left as it is.                                                 *)
allocproc_kstack(c) ==
  LET np == lp[cpu[c]]
  IN  /\ At(c, "fork_kstack")
      /\ tf' = [tf EXCEPT ![np] = FALSE]
      /\ sigpending' = [sigpending EXCEPT ![np] = {}]
      /\ pc' = [pc EXCEPT ![np] = "forkret", ![cpu[c]] = "fork_copy"]
      /\ UNCHANGED <<state, pid, parent, chan, killed, nextpid, sigblocked,
                     userdefed, disposition, addr_sigreturn, argVars, thrVars,
                     frames, cpu, ptlock, tickVars, panicked>>

(* fork() fills the child in; the user stack is copied with its signal      *)
(* frames, addr_sigreturn is not copied.                                    *)
fork_copy(c) ==
  LET p == cpu[c]
      np == lp[p]
  IN  /\ At(c, "fork_copy")
      /\ parent' = [parent EXCEPT ![np] = p]
      /\ tf' = [tf EXCEPT ![np] = TRUE]
      /\ sigblocked' = [sigblocked EXCEPT ![np] = sigblocked[p]]
      /\ userdefed' = [userdefed EXCEPT ![np] = userdefed[p]]
      /\ disposition' = [disposition EXCEPT ![np] = disposition[p]]
      /\ frames' = [frames EXCEPT ![np] = frames[p]]
      /\ Goto(c, "fork_run")
      /\ UNCHANGED <<state, pid, chan, killed, nextpid, sigpending,
                     addr_sigreturn, argVars, thrVars, cpu, ptlock, tickVars, panicked>>

fork_run(c) ==
  LET p == cpu[c]
  IN  /\ At(c, "fork_run")
      /\ ptlock = NoCPU
      /\ state' = [state EXCEPT ![lp[p]] = "RUNNABLE"]
      /\ lp' = [lp EXCEPT ![p] = NULL]
      /\ Goto(c, "sysret")
      /\ UNCHANGED <<pid, parent, chan, killed, tf, nextpid, sigVars, tpid, tsig,
                     thrVars, frames, cpu, ptlock, tickVars, panicked>>

-----------------------------------------------------------------------------
(* exit() and wait() *)

(* exit() passes the children of p to init ... *)
adopt_none(p) == parent

adopt(p) == [q \in Procs |-> IF parent[q] = p THEN initproc ELSE parent[q]]

(* ... and wakes init if one of them is a zombie. *)
wake_init_never(st, p) == st

wake_init(st, p) ==
  IF \E q \in Procs : parent[q] = p /\ state[q] = "ZOMBIE" THEN wakeup1(st, initproc) ELSE st

(* exit(), up to its call of sched().  The parent is woken first.  The      *)
(* thread's stack is dead from here on.                                     *)
exit(c) ==
  LET p == cpu[c]
  IN  /\ At(c, "exit")
      /\ \/ p = initproc /\ panic("init_exiting")
         \/ /\ p # initproc
            /\ ptlock = NoCPU
            /\ ptlock' = c
            /\ parent' = adopt(p)
            /\ state' = [wake_init(wakeup1(state, parent[p]), p) EXCEPT ![p] = "ZOMBIE"]
            /\ stk' = [stk EXCEPT ![p] = <<>>]
            /\ intr' = [intr EXCEPT ![p] = FALSE]
            /\ Goto(c, "exit_sched")
            /\ UNCHANGED <<pid, chan, killed, tf, nextpid, sigVars, argVars,
                           isig, ticks0, frames, cpu, tickVars, panicked>>

(* The processes wait() in p looks at. *)
children(p) == {q \in Procs : parent[q] = p}

(* One pass of wait() over the table: reap the first zombie child, give up, *)
(* or sleep on curproc.  The lock is taken on entry and is still held when  *)
(* the process comes back from sleep(), which resets chan first.            *)
wait(c) ==
  LET p == cpu[c]
      kids == children(p)
      zombies == {q \in kids : state[q] = "ZOMBIE"}
  IN  /\ \/ At(c, "wait") /\ ptlock = NoCPU
         \/ At(c, "wait_wake")
      /\ \/ \E q \in zombies :
              /\ First(zombies, q)
              /\ pid' = [pid EXCEPT ![q] = 0]
              /\ parent' = [parent EXCEPT ![q] = NULL]
              /\ killed' = [killed EXCEPT ![q] = FALSE]
              /\ tf' = [tf EXCEPT ![q] = FALSE]
              /\ sigblocked' = [sigblocked EXCEPT ![q] = {}]
              /\ sigpending' = [sigpending EXCEPT ![q] = {}]
              /\ userdefed' = [userdefed EXCEPT ![q] = {}]
              /\ state' = [state EXCEPT ![q] = "UNUSED"]
              /\ frames' = [frames EXCEPT ![q] = <<>>]
              /\ chan' = [chan EXCEPT ![p] = NULL]
              /\ ptlock' = NoCPU
              /\ Goto(c, "sysret")
         \/ /\ zombies = {}
            /\ kids = {} \/ killed[p]
            /\ chan' = [chan EXCEPT ![p] = NULL]
            /\ ptlock' = NoCPU
            /\ Goto(c, "sysret")
            /\ UNCHANGED <<state, pid, parent, killed, tf, sigblocked, sigpending, userdefed,
                           frames>>
         \/ /\ zombies = {}
            /\ kids # {} /\ ~killed[p]
            /\ chan' = [chan EXCEPT ![p] = p]
            /\ state' = [state EXCEPT ![p] = "SLEEPING"]
            /\ ptlock' = c
            /\ Goto(c, "wait_sched")
            /\ UNCHANGED <<pid, parent, killed, tf, sigblocked, sigpending, userdefed,
                           frames>>
      /\ UNCHANGED <<nextpid, disposition, addr_sigreturn, argVars, thrVars,
                     cpu, tickVars, panicked>>

(* sys_kill() *)
sys_kill(c) ==
  /\ At(c, "kill")
  /\ ptlock = NoCPU
  /\ \E v \in KillPids : kill(v)
  /\ Goto(c, "sysret")
  /\ UNCHANGED <<pid, parent, chan, tf, nextpid, sigVars, argVars, thrVars, frames,
                 cpu, ptlock, tickVars, panicked>>
=============================================================================
