------------------------------- MODULE Kernel -------------------------------
(***************************************************************************)
(* The kernel as its processes and its interrupts drive it: trap() around   *)
(* every system call and interrupt (trap.c), sleep() (sys_sleep), exec()    *)
(* and the clock, over the process table of Proc and the signals of Signal. *)
(***************************************************************************)
EXTENDS Signal

-----------------------------------------------------------------------------
(* System calls *)

(* trap() on the way in: a killed process exits; otherwise the user's       *)
(* choice is dispatched.                                                    *)
trap_syscall(c, op) ==
  LET p == cpu[c]
  IN  /\ At(c, "user")
      /\ Len(frames[p]) <= MaxFrames
      /\ op \in UserOps[p]
      /\ op = "fork" => nextpid <= MaxPid
      /\ \/ killed[p] /\ Goto(c, "exit")
         \/ ~killed[p] /\ Goto(c, op)
      /\ UNCHANGED <<procVars, sigVars, argVars, thrVars, frames, cpu, ptlock, tickVars, panicked>>

(* trap() after the system call: signals first. *)
trap_sysret(c) ==
  /\ At(c, "sysret")
  /\ \/ issig(cpu[c]) /\ CallPsig(c, "killcheck")
     \/ ~issig(cpu[c]) /\ Goto(c, "killcheck") /\ UNCHANGED <<stk, isig>>
  /\ UNCHANGED <<procVars, sigVars, argVars, intr, ticks0, frames, cpu, ptlock, tickVars, panicked>>

trap_killcheck(c) ==
  /\ At(c, "killcheck")
  /\ \/ killed[cpu[c]] /\ Goto(c, "exit")
     \/ ~killed[cpu[c]] /\ Goto(c, "user")
  /\ UNCHANGED <<procVars, sigVars, argVars, thrVars, frames, cpu, ptlock, tickVars, panicked>>

(* The handler returns into sigreturn(), if the frame names it, and the     *)
(* system call goes straight back to the interrupted context.               *)
sigreturn(c) ==
  LET p == cpu[c]
  IN  /\ At(c, "user")
      /\ frames[p] # <<>>
      /\ Len(frames[p]) <= MaxFrames
      /\ Head(frames[p]).ret
      /\ \/ killed[p] /\ Goto(c, "exit") /\ UNCHANGED frames
         \/ ~killed[p] /\ frames' = [frames EXCEPT ![p] = Tail(@)] /\ UNCHANGED pc
      /\ UNCHANGED <<procVars, sigVars, argVars, thrVars, cpu, ptlock, tickVars, panicked>>

(* exec(): a new image with an empty stack; dispositions other than IGN     *)
(* become DFL, userdefed and sigpending stay.  Or it fails.                 *)
exec(c) ==
  LET p == cpu[c]
  IN  /\ At(c, "exec")
      /\ \/ /\ disposition' = [disposition EXCEPT
                 ![p] = [s \in Signals |-> IF @[s] = "IGN" THEN "IGN" ELSE "DFL"]]
            /\ frames' = [frames EXCEPT ![p] = <<>>]
         \/ UNCHANGED <<disposition, frames>>
      /\ Goto(c, "sysret")
      /\ UNCHANGED <<procVars, sigpending, sigblocked, userdefed, addr_sigreturn,
                     argVars, thrVars, cpu, ptlock, tickVars, panicked>>

-----------------------------------------------------------------------------
(* sys_sleep(SleepTicks), which calls psig() with tickslock held *)

sys_sleep(c) ==
  /\ At(c, "sleep")
  /\ \/ tickslock = c /\ panic("acquire")
     \/ /\ tickslock = NoCPU
        /\ tickslock' = c
        /\ ticks0' = [ticks0 EXCEPT ![cpu[c]] = ticks]
        /\ Goto(c, "sleep_loop")
        /\ UNCHANGED <<procVars, sigVars, argVars, stk, intr, isig, frames, cpu, ptlock,
                       ticks, panicked>>

(* The loop condition, and the check of killed. *)
sleep_loop(c) ==
  LET p == cpu[c]
      asleep == (ticks - ticks0[p]) % TickMod < SleepTicks
  IN  /\ At(c, "sleep_loop")
      /\ \/ asleep /\ ~killed[p] /\ Goto(c, "sleep_sig") /\ UNCHANGED <<tickslock, ticks0>>
         \/ /\ asleep /\ killed[p]
            /\ tickslock' = NoCPU
            /\ ticks0' = [ticks0 EXCEPT ![p] = 0]
            /\ Goto(c, "sysret")
         \/ ~asleep /\ Goto(c, "sleep_over") /\ UNCHANGED <<tickslock, ticks0>>
      /\ UNCHANGED <<procVars, sigVars, argVars, stk, intr, isig, frames, cpu, ptlock, ticks, panicked>>

(* The two tests of issig(), in the loop and after it. *)
sleep_sig_unlocked(c) ==
  /\ At(c, "sleep_sig") \/ At(c, "sleep_over")
  /\ LET next == IF At(c, "sleep_sig") THEN "sleep_sleep" ELSE "sleep_end"
     IN  \/ issig(cpu[c]) /\ CallPsig(c, next)
         \/ ~issig(cpu[c]) /\ Goto(c, next) /\ UNCHANGED <<stk, isig>>
  /\ tickslock' = NoCPU
  /\ UNCHANGED <<procVars, sigVars, argVars, intr, ticks0, frames, cpu, ptlock, ticks, panicked>>

sleep_sig(c) ==
  /\ At(c, "sleep_sig") \/ At(c, "sleep_over")
  /\ LET next == IF At(c, "sleep_sig") THEN "sleep_sleep" ELSE "sleep_end"
     IN  \/ issig(cpu[c]) /\ CallPsig(c, next)
         \/ ~issig(cpu[c]) /\ Goto(c, next) /\ UNCHANGED <<stk, isig>>
  /\ UNCHANGED <<procVars, sigVars, argVars, intr, ticks0, frames, cpu, ptlock, tickVars, panicked>>

(* sleep(&ticks, &tickslock), up to sched(): ptable.lock is taken before    *)
(* tickslock is released.                                                   *)
sleep(c) ==
  LET p == cpu[c]
  IN  /\ At(c, "sleep_sleep")
      /\ ptlock = NoCPU
      /\ ptlock' = c
      /\ tickslock' = NoCPU
      /\ chan' = [chan EXCEPT ![p] = TicksChan]
      /\ state' = [state EXCEPT ![p] = "SLEEPING"]
      /\ Goto(c, "sleep_sched")
      /\ UNCHANGED <<pid, parent, killed, tf, nextpid, sigVars, argVars, thrVars,
                     frames, cpu, ticks, panicked>>

(* sleep(), after sched(): tidy up and release ptable.lock ... *)
sleep_wake(c) ==
  /\ At(c, "sleep_wake")
  /\ chan' = [chan EXCEPT ![cpu[c]] = NULL]
  /\ ptlock' = NoCPU
  /\ Goto(c, "sleep_reacquire")
  /\ UNCHANGED <<state, pid, parent, killed, tf, nextpid, sigVars, argVars, thrVars,
                 frames, cpu, tickVars, panicked>>

(* ... then reacquire the original lock. *)
sleep_reacquire(c) ==
  /\ At(c, "sleep_reacquire")
  /\ tickslock = NoCPU
  /\ tickslock' = c
  /\ Goto(c, "sleep_loop")
  /\ UNCHANGED <<procVars, sigVars, argVars, thrVars, frames, cpu, ptlock, ticks, panicked>>

sleep_end(c) ==
  /\ At(c, "sleep_end")
  /\ tickslock' = NoCPU
  /\ ticks0' = [ticks0 EXCEPT ![cpu[c]] = 0]
  /\ Goto(c, "sysret")
  /\ UNCHANGED <<procVars, sigVars, argVars, stk, intr, isig, frames, cpu, ptlock, ticks, panicked>>

-----------------------------------------------------------------------------
(* Interrupts *)

(* The clock: ticks++ and wakeup(&ticks) under tickslock. *)
ticktock ==
  /\ tickslock = NoCPU
  /\ ptlock = NoCPU
  /\ ticks' = (ticks + 1) % TickMod
  /\ state' = wakeup1(state, TicksChan)

(* An interrupt on CPU c takes the running thread out of user code, or out  *)
(* of kernel code that runs with interrupts on: no spinlock is held and no  *)
(* other interrupt is being handled.                                        *)
Interrupt(c, l) ==
  LET p == cpu[c]
  IN  /\ panicked = "no"
      /\ p # NULL
      /\ pc[p] \in IntrPCs
      /\ pc[p] = "user" => Len(frames[p]) <= MaxFrames
      /\ pc[p] # "user" => ~intr[p] /\ ptlock # c /\ tickslock # c
      /\ stk' = [stk EXCEPT ![p] = <<<<pc[p], isig[p]>>>> \o @]
      /\ isig' = [isig EXCEPT ![p] = 0]
      /\ intr' = [intr EXCEPT ![p] = TRUE]
      /\ Goto(c, l)

(* The timer: CPU 0 counts the tick first.  Other devices only interrupt.   *)
trap_intr(c, dev) ==
  /\ Interrupt(c, IF dev = "intr_timer" /\ c = 0 THEN "tick" ELSE dev)
  /\ UNCHANGED <<procVars, sigVars, argVars, ticks0, frames, cpu, ptlock, tickVars, panicked>>

(* A fault in user code; overrunning the user stack leads to one. *)
fault(c) ==
  LET p == cpu[c]
  IN  /\ killed' = [killed EXCEPT ![p] = TRUE]
      /\ stk' = [stk EXCEPT ![p] = <<<<"user", 0>>>>]
      /\ intr' = [intr EXCEPT ![p] = TRUE]
      /\ Goto(c, "intr_device")
      /\ UNCHANGED <<state, pid, parent, chan, tf, nextpid, sigVars, argVars, isig,
                     ticks0, frames, cpu, ptlock, tickVars, panicked>>

trap_fault(c) == At(c, "user") /\ "fault" \in UserOps[cpu[c]] /\ fault(c)
trap_overrun(c) == At(c, "user") /\ Len(frames[cpu[c]]) > MaxFrames /\ fault(c)

trap_tick(c) ==
  /\ At(c, "tick")
  /\ \/ tickslock = c /\ panic("acquire")
     \/ /\ ticktock
        /\ Goto(c, "intr_timer")
        /\ UNCHANGED <<pid, parent, chan, killed, tf, nextpid, sigVars, argVars, thrVars,
                       frames, cpu, ptlock, tickslock, panicked>>

(* The same interrupt while CPU 0 is in scheduler(), between two processes. *)
idle_tick ==
  /\ panicked = "no"
  /\ cpu[0] = NULL
  /\ ticktock
  /\ UNCHANGED <<pid, parent, chan, killed, tf, nextpid, sigVars, argVars, thrVars, pc,
                 frames, cpu, ptlock, tickslock, panicked>>

(* A process that was interrupted in user code and has been killed. *)
doomed_never(p) == FALSE

doomed(p) == killed[p] /\ Head(stk[p])[1] = "user"

(* The two checks of killed, before and after the yield of a timer          *)
(* interrupt.                                                               *)
AfterKilled == {<<"intr_timer", "yield">>, <<"intr_device", "intr_killed2">>,
                <<"intr_killed2", "intr_sig">>}

trap_intr_killed(c) ==
  LET p == cpu[c]
  IN  /\ At(c, "intr_timer") \/ At(c, "intr_device") \/ At(c, "intr_killed2")
      /\ \/ doomed(p) /\ Goto(c, "exit") /\ stk' = [stk EXCEPT ![p] = <<>>]
         \/ /\ ~doomed(p)
            /\ \E r \in AfterKilled : pc[p] = r[1] /\ Goto(c, r[2])
            /\ UNCHANGED stk
      /\ UNCHANGED <<procVars, sigVars, argVars, intr, isig, ticks0, frames, cpu, ptlock,
                     tickVars, panicked>>

(* Signals, also when the interrupt came in kernel code. *)
trap_intr_sig(c) ==
  /\ At(c, "intr_sig")
  /\ \/ issig(cpu[c]) /\ CallPsig(c, "intr_ret")
     \/ ~issig(cpu[c]) /\ Goto(c, "intr_ret") /\ UNCHANGED <<stk, isig>>
  /\ UNCHANGED <<procVars, sigVars, argVars, intr, ticks0, frames, cpu, ptlock, tickVars, panicked>>

trap_intr_ret(c) ==
  /\ At(c, "intr_ret")
  /\ Return(c)
  /\ intr' = [intr EXCEPT ![cpu[c]] = FALSE]
  /\ UNCHANGED <<procVars, sigVars, argVars, ticks0, frames, cpu, ptlock, tickVars, panicked>>

-----------------------------------------------------------------------------
(* userinit() has made the first process; the CPUs are in scheduler(). *)
Init ==
  /\ state = [p \in Procs |-> IF p = initproc THEN "RUNNABLE" ELSE "UNUSED"]
  /\ pid = [p \in Procs |-> IF p = initproc THEN 1 ELSE 0]
  /\ parent = [p \in Procs |-> NULL]
  /\ chan = [p \in Procs |-> NULL]
  /\ killed = [p \in Procs |-> FALSE]
  /\ tf = [p \in Procs |-> p = initproc]
  /\ sigpending = [p \in Procs |-> {}]
  /\ sigblocked = [p \in Procs |-> {}]
  /\ userdefed = [p \in Procs |-> {}]
  /\ disposition = [p \in Procs |-> [s \in Signals |-> "DFL"]]
  /\ addr_sigreturn = [p \in Procs |-> FALSE]
  /\ pc = [p \in Procs |-> IF p = initproc THEN "forkret" ELSE "exit_ret"]
  /\ stk = [p \in Procs |-> <<>>]
  /\ intr = [p \in Procs |-> FALSE]
  /\ lp = [p \in Procs |-> NULL]
  /\ tpid = [p \in Procs |-> 0]
  /\ tsig = [p \in Procs |-> 0]
  /\ isig = [p \in Procs |-> 0]
  /\ ticks0 = [p \in Procs |-> 0]
  /\ frames = [p \in Procs |-> <<>>]
  /\ nextpid = 2
  /\ cpu = [c \in CPUs |-> NULL]
  /\ ptlock = NoCPU
  /\ tickslock = NoCPU
  /\ ticks = 0
  /\ panicked = "no"

(* Steps of user code, of trap() and of the system calls on CPU c. *)
UserStep(c) ==
  \/ \E op \in SysCalls : trap_syscall(c, op)
  \/ sigreturn(c)
  \/ trap_fault(c) \/ trap_overrun(c)

SchedStep(c) == yield(c) \/ yield_ret(c) \/ sched(c) \/ forkret(c)

ForkStep(c) ==
  \/ allocproc(c) \/ fork_fail(c) \/ allocproc_kstack(c) \/ fork_copy(c) \/ fork_run(c)

ExitStep(c) == exit(c) \/ wait(c) \/ sys_kill(c) \/ exec(c)

SleepStep(c) ==
  \/ sys_sleep(c) \/ sleep_loop(c) \/ sleep_sig(c) \/ sleep(c) \/ sleep_wake(c)
  \/ sleep_reacquire(c) \/ sleep_end(c)

PsigStep(c) ==
  \/ psig(c) \/ term(c) \/ psig_term(c) \/ psig_core(c) \/ psig_core_ret(c)
  \/ psig_stop(c) \/ psig_stop_ret(c) \/ psig_user(c) \/ jmptohandler(c)

KillStep(c) ==
  \/ Kill(c) \/ Kill_scan(c) \/ Kill_post(c) \/ Kill_kill(c)
  \/ signal(c) \/ sys_sigmask(c)

TrapStep(c) ==
  \/ trap_sysret(c) \/ trap_killcheck(c) \/ trap_tick(c) \/ trap_intr_killed(c)
  \/ trap_intr_sig(c) \/ trap_intr_ret(c)

KernelStep(c) ==
  \/ SchedStep(c) \/ ForkStep(c) \/ ExitStep(c) \/ SleepStep(c)
  \/ PsigStep(c) \/ KillStep(c) \/ TrapStep(c)

(* panic() loops for ever. *)
Frozen == panicked # "no" /\ UNCHANGED vars

Next ==
  \/ \E c \in CPUs : \/ \E q \in Procs : scheduler(c, q)
                     \/ UserStep(c) \/ KernelStep(c)
                     \/ \E dev \in {"intr_timer", "intr_device"} : trap_intr(c, dev)
  \/ idle_tick
  \/ Frozen

Spec == Init /\ [][Next]_vars

(* A CPU keeps executing kernel code; a timer interrupt that comes while    *)
(* interrupts are off stays latched until they are on, so user code is      *)
(* interrupted sooner or later; between two interrupts a process gets on    *)
(* with the kernel code it is in; a handler entered on a full stack faults; *)
(* and scheduler(), which goes round the whole table, does not pass over a  *)
(* RUNNABLE process for ever.                                               *)
Fairness ==
  /\ \A c \in CPUs : /\ WF_vars(KernelStep(c))
                     /\ SF_vars(At(c, "user") /\ trap_intr(c, "intr_timer"))
                     /\ WF_vars(trap_overrun(c))
  /\ \A q \in Procs : /\ SF_vars(\E c \in CPUs : scheduler(c, q))
                      /\ SF_vars(~intr[q] /\ \E c \in CPUs : cpu[c] = q /\ KernelStep(c))

FairSpec == Spec /\ Fairness

-----------------------------------------------------------------------------
LockedPCs == SchedPCs \cup WakePCs \cup {"psig_core", "psig_stop", "psig_user"}
PCs == LockedPCs \cup SysCalls \cup
       {"user", "sysret", "killcheck", "fork_kstack", "fork_copy", "fork_run",
        "sleep_loop", "sleep_sig", "sleep_sleep", "sleep_reacquire", "sleep_over", "sleep_end",
        "psig", "term", "term_ret", "core", "core_ret", "jmptohandler",
        "Kill_scan", "Kill_post", "Kill_kill",
        "tick", "intr_timer", "intr_device", "intr_killed2", "intr_sig", "intr_ret", "yield"}

(* A signal frame on a user stack: the signal, and whether the handler can  *)
(* return through it.                                                       *)
Frame == [sig : Signals, ret : BOOLEAN]

(* Callers of a thread: the point to return to, and the isig there. *)
Caller == PCs \X (Signals \cup {0})

ProcTypes ==
  /\ state \in [Procs -> States]
  /\ nextpid \in Nat
  /\ pid \in [Procs -> 0..(nextpid - 1)]
  /\ parent \in [Procs -> Procs \cup {NULL}]
  /\ chan \in [Procs -> Procs \cup {NULL, TicksChan}]
  /\ killed \in [Procs -> BOOLEAN]
  /\ tf \in [Procs -> BOOLEAN]
SigTypes ==
  /\ sigpending \in [Procs -> SUBSET Signals]
  /\ sigblocked \in [Procs -> SUBSET ((1..31) \ {SIGKILL, SIGSTOP, SIGCONT})]
  /\ userdefed \in [Procs -> SUBSET (Signals \ {SIGKILL, SIGSTOP})]
  /\ disposition \in [Procs -> [Signals -> Dispositions]]
  /\ addr_sigreturn \in [Procs -> BOOLEAN]
ArgTypes ==
  /\ lp \in [Procs -> Procs \cup {NULL}]
  /\ tpid \in [Procs -> Int]
  /\ tsig \in [Procs -> Signals \cup {0}]
PcTypes == pc \in [Procs -> PCs]
ThreadTypes ==
  /\ stk \in [Procs -> Seq(Caller)]
  /\ intr \in [Procs -> BOOLEAN]
  /\ isig \in [Procs -> Signals \cup {0}]
  /\ ticks0 \in [Procs -> 0..(TickMod - 1)]
  /\ frames \in [Procs -> Seq(Frame)]
GlobalTypes ==
  /\ cpu \in [CPUs -> Procs \cup {NULL}]
  /\ ptlock \in CPUs \cup {NoCPU}
  /\ tickslock \in CPUs \cup {NoCPU}
  /\ ticks \in 0..(TickMod - 1)
  /\ panicked \in {"no", "sched_locks", "acquire", "init_exiting"}

(* The fields of struct proc, the threads and the locks hold values of      *)
(* their types: a pid is one that allocproc() has handed out, and no mask   *)
(* holds SIGKILL, SIGSTOP or SIGCONT.                                       *)
TypeOK == ProcTypes /\ SigTypes /\ ArgTypes /\ PcTypes /\ ThreadTypes
          /\ GlobalTypes

-----------------------------------------------------------------------------
Live(p) == state[p] \in {"SLEEPING", "RUNNABLE", "RUNNING"}

(* Claims of the repository's comments and documentation that the code does *)
(* not keep; each has a configuration that shows how it fails.              *)

(* "i is the signal number that is pending": psig() runs the handler of a   *)
(* pending signal that is not blocked.                                      *)
HandlerOfPending ==
  [][\A p \in Procs : pc[p] = "psig_user" /\ pc'[p] = "jmptohandler" =>
       Head(frames'[p]).sig \in sigpending[p] \ sigblocked[p]]_vars

(* Kill() "sends signal sig to process with id pid": the process it posts a *)
(* signal to has the pid it looked for.                                     *)
KillHitsTarget ==
  [][\A c \in CPUs : LET q == lp[cpu[c]] IN
       At(c, "Kill_post") /\ tpid[cpu[c]] # -1 /\ pc'[cpu[c]] = "sysret" /\ Live(q)
         /\ sigpending'[q] # sigpending[q] => pid[q] = tpid[cpu[c]]]_vars

(* "Must hold only ptable.lock": sched() and acquire() never panic.         *)
OnlyPtableLock == panicked \notin {"sched_locks", "acquire"}

(* exit() "Does not return": no handler is entered out of an exit().        *)
ExitIsFinal ==
  \A p \in Procs : pc[p] = "jmptohandler" =>
    \A k \in 1..Len(stk[p]) : stk[p][k][1] # "exit"

-----------------------------------------------------------------------------
(* ptable.lock is held across swtch(): a CPU holds it exactly from the      *)
(* point where its process has changed state to the point where the next    *)
(* process to run lets it go.                                               *)
LockHandover ==
  \A c \in CPUs : ptlock = c <=> cpu[c] # NULL /\ pc[cpu[c]] \in LockedPCs

(* No kernel stack is used by two CPUs, and a process that others may run   *)
(* or reap (it is not RUNNING) is still on a CPU only while that CPU holds  *)
(* ptable.lock: the reason why sched() insists on the lock.                 *)
KernelStackExclusive ==
  /\ \A c, d \in CPUs : cpu[c] = cpu[d] /\ cpu[c] # NULL => c = d
  /\ \A c \in CPUs : cpu[c] # NULL => state[cpu[c]] = "RUNNING" \/ ptlock = c
  /\ \A p \in Procs : state[p] = "RUNNING" => \E c \in CPUs : cpu[c] = p

(* No wakeup is lost between exit() and wait(): a process asleep in wait()  *)
(* has a child to wait for, no zombie to collect, and has not been killed.  *)
NoMissedChild ==
  \A p \in Procs : state[p] = "SLEEPING" /\ pc[p] = "wait_wake" =>
    /\ ~killed[p]
    /\ \E q \in Procs : parent[q] = p
    /\ \A q \in Procs : parent[q] = p => state[q] # "ZOMBIE"

(* exit() and wait() keep the family together: the parent of a process or   *)
(* a zombie is a process that has not exited, so every zombie can be        *)
(* collected.                                                               *)
FamilyTree ==
  \A p \in Procs \ {initproc} : Live(p) \/ state[p] = "ZOMBIE" =>
    parent[p] # NULL /\ Live(parent[p])

(* A pid names at most one process, so kill() and Kill() cannot hit two:    *)
(* fork failures and reuse of slots included.                               *)
UniquePids ==
  \A p, q \in Procs : pid[p] = pid[q] /\ pid[p] # 0 => p = q

(* sleep() and the clock lose no wakeup: who sleeps on &ticks checked the   *)
(* current value of ticks and has time left.                                *)
NoOverdueSleeper ==
  \A p \in Procs : state[p] = "SLEEPING" /\ chan[p] = TicksChan =>
    (ticks - ticks0[p]) % TickMod < SleepTicks

(* stop() sleeps on no channel: wakeup() never resumes a stopped process,   *)
(* only kill() and a SIGCONT posted by Kill() do.                           *)
Resumed(p) ==
  state[p] = "SLEEPING" /\ pc[p] = "stop_wake" /\ state'[p] # "SLEEPING" =>
    \/ killed'[p]
    \/ \E c \in CPUs : At(c, "Kill_post") /\ lp[cpu[c]] = p /\ tsig[cpu[c]] = SIGCONT

StopHolds == [][\A p \in Procs : Resumed(p)]_vars

(* A posted signal is never lost to another process's Kill(), to exec() or  *)
(* to a change of disposition: it goes when its own process acts on it in   *)
(* psig(), which leaves a blocked signal without handler alone unless it is *)
(* SIGSTOP, or when the slot is recycled.                                   *)
PendingKept ==
  [][\A p \in Procs : \A s \in sigpending[p] \ sigpending'[p] :
       \/ state'[p] \in {"UNUSED", "EMBRYO"}
       \/ /\ pc[p] \in {"term_ret", "core_ret", "psig_stop", "stop_wake", "psig_user"}
          /\ s \notin sigblocked[p] \/ s \in userdefed[p] \/ s = SIGSTOP]_vars

(* A killed process comes to its exit(), asleep or running, in user code, a *)
(* handler or a system call, unless psig() finds a stop signal after the    *)
(* kill(): stop() sleeps until SIGCONT or another kill().  init is refused  *)
(* by Kill() and its exit() is a panic.                                     *)
InStop(p) == state[p] = "SLEEPING" /\ pc[p] = "stop_wake"

KilledExits ==
  \A p \in Procs \ {initproc} :
    killed[p] /\ Live(p) ~> ~Live(p) \/ InStop(p) \/ panicked # "no"

(* wait() returns when there is a zombie to collect. *)
WaitReturns ==
  LET InWait(p) == Live(p) /\ pc[p] \in {"wait", "wait_sched", "wait_wake"}
  IN  \A p \in Procs : InWait(p) /\ (\E q \in Procs : parent[q] = p /\ state[q] = "ZOMBIE") ~>
        ~InWait(p) \/ panicked # "no"

(* What the process table promises in terms of pids: ProcLife, with a       *)
(* process alive from the end of its fork() to its exit().                  *)
Holder(v) == {p \in Procs : pid[p] = v /\ (Live(p) \/ state[p] = "ZOMBIE")}

Life == INSTANCE ProcLife WITH
  Pids <- 1..(MaxPid + NPROC),
  alive <- {pid[p] : p \in {q \in Procs : Live(q)}},
  zombie <- {pid[p] : p \in {q \in Procs : state[q] = "ZOMBIE"}},
  par <- [v \in 1..(MaxPid + NPROC) |->
            IF \E p \in Holder(v) : parent[p] # NULL
            THEN pid[parent[CHOOSE p \in Holder(v) : TRUE]] ELSE 0]

(* fork(), exit() and wait() implement ProcLife: only a living parent       *)
(* collects a zombie, only once, and the orphans of a process go to init    *)
(* in the same step as it dies.                                             *)
ImplementsLife == Life!Spec
=============================================================================
