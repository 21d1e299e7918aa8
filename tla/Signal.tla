------------------------------- MODULE Signal -------------------------------
(***************************************************************************)
(* Signals (signal.c, syssignal.c): posting with Kill, the dispositions and *)
(* masks, and psig, which acts on the pending signals of the running        *)
(* process.  A bit mask is the set of its bit numbers.                      *)
(***************************************************************************)
EXTENDS Proc

stopsig == <<19, 20, 21, 22>>
coresig == <<3, 6, 4, 8, 11>>
termsig == <<1, 2, 13, 14, 15, 10, 12>>

(* The elements of the array seq, and those from s on. *)
Elems(seq) == {seq[k] : k \in 1..Len(seq)}
From(seq, s) == {seq[k] : k \in {k \in 1..Len(seq) : \E j \in 1..k : seq[j] = s}}

(* s is the first element of the array seq that is in S. *)
FirstIn(seq, S, s) == s \in S \cap Elems(seq) /\ S \cap Elems(seq) \subseteq From(seq, s)

issig(p) == sigpending[p] \ sigblocked[p] # {}

(* Pending, not blocked, and with the default disposition. *)
Default(p) == {s \in sigpending[p] \ sigblocked[p] : disposition[p][s] = "DFL"}

(* psig(p) is called, to return to point l. *)
CallPsig(c, l) ==
  LET p == cpu[c]
  IN  /\ stk' = [stk EXCEPT ![p] = <<<<l, isig[p]>>>> \o @]
      /\ isig' = [isig EXCEPT ![p] = 0]
      /\ Goto(c, "psig")

(* The running thread returns to its caller. *)
Return(c) ==
  LET p == cpu[c]
  IN  /\ pc' = [pc EXCEPT ![p] = Head(stk[p])[1]]
      /\ isig' = [isig EXCEPT ![p] = Head(stk[p])[2]]
      /\ stk' = [stk EXCEPT ![p] = Tail(@)]

-----------------------------------------------------------------------------
(* psig() *)

(* The loop over termsig: term() releases the lock to call kill(). *)
psig(c) ==
  LET p == cpu[c]
  IN  /\ At(c, "psig")
      /\ ptlock = NoCPU
      /\ \/ \E s \in Signals :
              /\ FirstIn(termsig, Default(p), s)
              /\ isig' = [isig EXCEPT ![p] = s]
              /\ Goto(c, "term")
              /\ UNCHANGED ptlock
         \/ /\ Default(p) \cap Elems(termsig) = {}
            /\ ptlock' = c
            /\ Goto(c, "psig_core")
            /\ UNCHANGED isig
      /\ UNCHANGED <<procVars, sigVars, argVars, stk, intr, ticks0, frames, cpu, tickVars, panicked>>

(* term() and core(): kill(p->pid), between the release and the acquire. *)
term(c) ==
  /\ At(c, "term") \/ At(c, "core")
  /\ ptlock = NoCPU
  /\ kill(pid[cpu[c]])
  /\ Goto(c, IF pc[cpu[c]] = "term" THEN "term_ret" ELSE "core_ret")
  /\ UNCHANGED <<pid, parent, chan, tf, nextpid, sigVars, argVars, thrVars, frames,
                 cpu, ptlock, tickVars, panicked>>

(* The rest of the loop over termsig, from the signal term() was called for. *)
psig_term(c) ==
  LET p == cpu[c]
  IN  /\ At(c, "term_ret")
      /\ ptlock = NoCPU
      /\ ptlock' = c
      /\ sigpending' = [sigpending EXCEPT
                          ![p] = @ \ (Default(p) \cap From(termsig, isig[p]))]
      /\ isig' = [isig EXCEPT ![p] = 0]
      /\ Goto(c, "psig_core")
      /\ UNCHANGED <<procVars, sigblocked, userdefed, disposition, addr_sigreturn,
                     argVars, stk, intr, ticks0, frames, cpu, tickVars, panicked>>

(* The loop over coresig, until core() is called. *)
psig_core(c) ==
  LET p == cpu[c]
  IN  /\ At(c, "psig_core")
      /\ \/ \E s \in Signals :
              /\ FirstIn(coresig, Default(p), s)
              /\ isig' = [isig EXCEPT ![p] = s]
              /\ ptlock' = NoCPU
              /\ Goto(c, "core")
         \/ /\ Default(p) \cap Elems(coresig) = {}
            /\ Goto(c, "psig_stop")
            /\ UNCHANGED <<isig, ptlock>>
      /\ UNCHANGED <<procVars, sigVars, argVars, stk, intr, ticks0, frames, cpu, tickVars, panicked>>

psig_core_ret(c) ==
  LET p == cpu[c]
  IN  /\ At(c, "core_ret")
      /\ ptlock = NoCPU
      /\ ptlock' = c
      /\ sigpending' = [sigpending EXCEPT
                          ![p] = @ \ (Default(p) \cap From(coresig, isig[p]))]
      /\ isig' = [isig EXCEPT ![p] = 0]
      /\ Goto(c, "psig_stop")
      /\ UNCHANGED <<procVars, sigblocked, userdefed, disposition, addr_sigreturn,
                     argVars, stk, intr, ticks0, frames, cpu, tickVars, panicked>>

(* stop(), for the signal s and with the pending signals left in S, up to   *)
(* sched(): the process sleeps on no channel.                               *)
stop(c, s, S) ==
  LET p == cpu[c]
  IN  /\ state' = [state EXCEPT ![p] = "SLEEPING"]
      /\ sigpending' = [sigpending EXCEPT ![p] = S]
      /\ isig' = [isig EXCEPT ![p] = s]
      /\ Goto(c, "stop_sched")

(* SIGSTOP, whatever the mask; then SIGCHLD, then the loop over stopsig, in *)
(* which a pending SIGCONT cancels the first stop signal, and SIGCONT.      *)
(* stop() is called at most once; it is the last thing these steps do.      *)
psig_stop(c) ==
  LET p == cpu[c]
      stops == Default(p) \cap Elems(stopsig)
      cancelled == {s \in stops : SIGCONT \in Default(p) /\ First(stops, s)}
      rest == sigpending[p] \ ((Default(p) \cap {SIGCHLD}) \cup cancelled
                               \cup {s \in {SIGCONT} : cancelled # {}})
  IN  /\ At(c, "psig_stop")
      /\ \/ SIGSTOP \in sigpending[p] /\ stop(c, SIGSTOP, sigpending[p])
         \/ /\ SIGSTOP \notin sigpending[p]
            /\ \E s \in stops \ cancelled : First(stops \ cancelled, s) /\ stop(c, s, rest)
         \/ /\ SIGSTOP \notin sigpending[p]
            /\ stops \ cancelled = {}
            /\ sigpending' = [sigpending EXCEPT ![p] = rest \ (Default(p) \cap {SIGCONT})]
            /\ Goto(c, "psig_user")
            /\ UNCHANGED <<state, isig>>
      /\ UNCHANGED <<pid, parent, chan, killed, tf, nextpid, sigblocked, userdefed,
                     disposition, addr_sigreturn, argVars, stk, intr, ticks0,
                     frames, cpu, ptlock, tickVars, panicked>>

(* The process comes back from stop(): the signal that stopped it goes, and *)
(* with stopcalled set the loop only discards the later stop signals.       *)
psig_stop_ret(c) ==
  LET p == cpu[c]
      later == From(stopsig, isig[p]) \cup {SIGCONT}
      chld == {s \in {SIGCHLD} : isig[p] = SIGSTOP}
  IN  /\ At(c, "stop_wake")
      /\ sigpending' = [sigpending EXCEPT
                          ![p] = @ \ ({isig[p]} \cup (Default(p) \cap (later \cup chld)))]
      /\ isig' = [isig EXCEPT ![p] = 0]
      /\ Goto(c, "psig_user")
      /\ UNCHANGED <<procVars, sigblocked, userdefed, disposition, addr_sigreturn,
                     argVars, stk, intr, ticks0, frames, cpu, ptlock, tickVars, panicked>>

(* No handler is installed: return.  Otherwise a frame for the lowest       *)
(* signal with a handler goes on the user stack.                            *)
psig_user(c) ==
  LET p == cpu[c]
  IN  /\ At(c, "psig_user")
      /\ ptlock' = NoCPU
      /\ \/ userdefed[p] = {} /\ Return(c) /\ UNCHANGED <<frames, sigpending>>
         \/ \E i \in userdefed[p] :
              /\ First(userdefed[p], i)
              /\ frames' = [frames EXCEPT
                              ![p] = <<[sig |-> i, ret |-> addr_sigreturn[p]]>> \o @]
              /\ sigpending' = [sigpending EXCEPT ![p] = @ \ {i}]
              /\ Goto(c, "jmptohandler")
              /\ UNCHANGED <<stk, isig>>
      /\ UNCHANGED <<procVars, sigblocked, userdefed, disposition, addr_sigreturn,
                     argVars, intr, ticks0, cpu, tickVars, panicked>>

(* jmptohandler(): iret to the handler; the kernel stack and whatever was   *)
(* in progress on it are gone.                                              *)
jmptohandler(c) ==
  LET p == cpu[c]
  IN  /\ At(c, "jmptohandler")
      /\ Goto(c, "user")
      /\ stk' = [stk EXCEPT ![p] = <<>>]
      /\ intr' = [intr EXCEPT ![p] = FALSE]
      /\ isig' = [isig EXCEPT ![p] = 0]
      /\ ticks0' = [ticks0 EXCEPT ![p] = 0]
      /\ lp' = [lp EXCEPT ![p] = NULL]
      /\ tpid' = [tpid EXCEPT ![p] = 0]
      /\ tsig' = [tsig EXCEPT ![p] = 0]
      /\ UNCHANGED <<procVars, sigVars, frames, cpu, ptlock, tickVars, panicked>>

-----------------------------------------------------------------------------
(* Kill() and raise() *)

(* The checks before the search.  raise() is Kill() of the own pid; Kill()  *)
(* refuses pid 1, 0 and anything below -1.                                  *)
Kill(c) ==
  LET p == cpu[c]
  IN  /\ At(c, "Kill") \/ At(c, "raise")
      /\ \E v \in (IF pc[p] = "raise" THEN {pid[p]} ELSE KillPids), sig \in Signals :
           \/ /\ v \in {0, 1} \/ v < -1
              /\ Goto(c, "sysret")
              /\ UNCHANGED argVars
           \/ /\ v = -1 \/ v > 1
              /\ lp' = [lp EXCEPT ![p] = 1]
              /\ tpid' = [tpid EXCEPT ![p] = v]
              /\ tsig' = [tsig EXCEPT ![p] = sig]
              /\ Goto(c, "Kill_scan")
      /\ UNCHANGED <<procVars, sigVars, thrVars, frames, cpu, ptlock, tickVars, panicked>>

(* Kill() is done with slot lp: "continue" if it was called for all, else return. *)
Kill_next(c, all) ==
  LET p == cpu[c]
      more == all /\ lp[p] < NPROC
  IN  /\ lp' = [lp EXCEPT ![p] = IF more THEN @ + 1 ELSE NULL]
      /\ tpid' = [tpid EXCEPT ![p] = IF more THEN @ ELSE 0]
      /\ tsig' = [tsig EXCEPT ![p] = IF more THEN @ ELSE 0]
      /\ Goto(c, IF more THEN "Kill_scan" ELSE "sysret")

(* One slot of the search, without the lock: the pid, then the privilege    *)
(* level in p->tf, which is junk in a slot whose kernel stack is not filled *)
(* in or is freed.                                                          *)
Kill_scan(c) ==
  LET p == cpu[c]
      q == lp[p]
      match == pid[q] # 1 /\ (tpid[p] = -1 \/ pid[q] = tpid[p])
  IN  /\ At(c, "Kill_scan")
      /\ \/ ~match /\ Kill_next(c, TRUE)
         \/ match /\ ~tf[q] /\ Kill_next(c, tpid[p] = -1)
         \/ match /\ Goto(c, "Kill_post") /\ UNCHANGED argVars
      /\ UNCHANGED <<procVars, sigVars, thrVars, frames, cpu, ptlock, tickVars, panicked>>

(* The signals pending in slot q after sig is posted. *)
post_over(q, sig) == {s \in {sig} : disposition[q][s] # "IGN"}

post(q, sig) == sigpending[q] \cup {s \in {sig} : disposition[q][s] # "IGN"}

(* The critical section of Kill() on slot lp. *)
Kill_post(c) ==
  LET p == cpu[c]
      q == lp[p]
      sig == tsig[p]
  IN  /\ At(c, "Kill_post")
      /\ ptlock = NoCPU
      /\ \/ /\ sig = SIGKILL
            /\ Goto(c, "Kill_kill")
            /\ UNCHANGED <<state, sigpending, argVars>>
         \/ /\ sig = SIGCHLD /\ disposition[q][sig] = "DFL"
            /\ Kill_next(c, tpid[p] = -1)
            /\ UNCHANGED <<state, sigpending>>
         \/ /\ sig = SIGCONT
            /\ state' = [state EXCEPT ![q] = IF @ = "SLEEPING" THEN "RUNNABLE" ELSE @]
            /\ sigpending' = [sigpending EXCEPT
                 ![q] = @ \cup {s \in {sig} : disposition[q][s] \notin {"DFL", "IGN"}}]
            /\ Kill_next(c, tpid[p] = -1)
         \/ /\ sig \notin {SIGKILL, SIGCONT}
            /\ sig # SIGCHLD \/ disposition[q][sig] # "DFL"
            /\ sigpending' = [sigpending EXCEPT ![q] = post(q, sig)]
            /\ Kill_next(c, tpid[p] = -1)
            /\ UNCHANGED state
      /\ UNCHANGED <<pid, parent, chan, killed, tf, nextpid, sigblocked, userdefed,
                     disposition, addr_sigreturn, thrVars, frames, cpu, ptlock,
                     tickVars, panicked>>

(* SIGKILL: kill(p->pid), with the pid the slot has now. *)
Kill_kill(c) ==
  /\ At(c, "Kill_kill")
  /\ ptlock = NoCPU
  /\ kill(pid[lp[cpu[c]]])
  /\ Kill_next(c, tpid[cpu[c]] = -1)
  /\ UNCHANGED <<pid, parent, chan, tf, nextpid, sigVars, thrVars, frames, cpu,
                 ptlock, tickVars, panicked>>

-----------------------------------------------------------------------------
(* signal(): addr_sigreturn is null after SIG_IGN and SIG_DFL. *)
signal(c) ==
  LET p == cpu[c]
  IN  /\ At(c, "signal")
      /\ ptlock = NoCPU
      /\ \E s \in Signals \ {SIGKILL, SIGSTOP}, d \in Dispositions :
           /\ disposition' = [disposition EXCEPT ![p][s] = d]
           /\ userdefed' = [userdefed EXCEPT
                ![p] = IF d = "USERDEF" THEN @ \cup {s}
                       ELSE IF disposition[p][s] = "USERDEF" THEN @ \ {s} ELSE @]
           /\ addr_sigreturn' = [addr_sigreturn EXCEPT ![p] = (d = "USERDEF")]
      /\ Goto(c, "sysret")
      /\ UNCHANGED <<procVars, sigpending, sigblocked, argVars, thrVars, frames, cpu,
                     ptlock, tickVars, panicked>>

(* sigsetmask(): a mask with SIGKILL, SIGSTOP, SIGCONT or bit 0 is refused. *)
sigsetmask_cont(p, mask) ==
  sigblocked' = [sigblocked EXCEPT
    ![p] = IF mask \cap {0, SIGKILL, SIGSTOP} = {} THEN mask ELSE @]

sigsetmask(p, mask) ==
  sigblocked' = [sigblocked EXCEPT
    ![p] = IF mask \cap {0, SIGKILL, SIGSTOP, SIGCONT} = {} THEN mask ELSE @]

(* The system calls on the mask.  Only the process itself writes its mask,  *)
(* so the two critical sections of sigblock and sigunblock are one step.    *)
sys_sigmask(c) ==
  LET p == cpu[c]
  IN  /\ ptlock = NoCPU
      /\ \/ At(c, "sigsetmask") /\ \E mask \in Masks : sigsetmask(p, mask)
         \/ /\ At(c, "sigblock")
            /\ \E s \in Signals : IF s \in {SIGKILL, SIGSTOP, SIGCONT}
                                  THEN UNCHANGED sigblocked
                                  ELSE sigsetmask(p, sigblocked[p] \cup {s})
         \/ /\ At(c, "sigunblock")
            /\ \E s \in Signals : IF s \in {SIGKILL, SIGSTOP}
                                  THEN UNCHANGED sigblocked
                                  ELSE sigsetmask(p, sigblocked[p] \ {s})
      /\ Goto(c, "sysret")
      /\ UNCHANGED <<procVars, sigpending, userdefed, disposition, addr_sigreturn,
                     argVars, thrVars, frames, cpu, ptlock, tickVars, panicked>>
=============================================================================
