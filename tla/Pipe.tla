-------------------------------- MODULE Pipe --------------------------------
(***************************************************************************)
(* Pipes (pipe.c): a ring of PIPESIZE bytes in a page of its own, counters *)
(* that run freely modulo UintMod, two ends that are closed once each.     *)
(* One step is a stretch that holds p->lock, but kill() does not take that *)
(* lock, so a process can be killed between the test of killed and the     *)
(* call of sleep().                                                        *)
(***************************************************************************)
EXTENDS Integers, Sequences, FiniteSetsExt

CONSTANTS Procs,
          Pipes,       \* pages that kalloc() may return for a pipe
          PIPESIZE,
          UintMod      \* a multiple of PIPESIZE, 2^32 in the code

VARIABLES pipe,        \* pipe -> its struct pipe
          pc,          \* process -> point reached in the kernel, "user" outside
          killed,
          cur,         \* process -> pipe it works on, 0 for none
          buf,         \* process -> bytes read, or left to write
          ret          \* process -> result of its last call

NoPipe == [readopen |-> FALSE, writeopen |-> FALSE, nread |-> 0, nwrite |-> 0,
           data |-> [i \in 0..PIPESIZE - 1 |-> 0]]
NewPipe == [NoPipe EXCEPT !.readopen = TRUE, !.writeopen = TRUE]
Allocated(q) == pipe[q].readopen \/ pipe[q].writeopen

(* A process between its last test and sleep() still holds p->lock. *)
Unlocked(q) == \A p \in Procs : pc[p] \in {"piperead_empty", "pipewrite_full"} => cur[p] # q

(* wakeup(&p->nread) and wakeup(&p->nwrite). *)
Wakeup(q, l, to) == [p \in Procs |-> IF pc[p] = l /\ cur[p] = q THEN to ELSE pc[p]]
WakeReaders(q) == Wakeup(q, "piperead_sleep", "piperead")
WakeWriters(q) == Wakeup(q, "pipewrite_sleep", "pipewrite")

Returns(p, woken, r) == /\ pc' = [woken EXCEPT ![p] = "user"]
                        /\ ret' = [ret EXCEPT ![p] = r]

(* How far the counter from can run before it equals to. *)
Gap(from, to) == CHOOSE k \in 0..UintMod - 1 : (from + k) % UintMod = to % UintMod
room_whole(r) == Gap(r.nwrite, r.nread + UintMod - 1)

room(r) == Gap(r.nwrite, r.nread + PIPESIZE)

avail(r) == Gap(r.nread, r.nwrite)

(* The loop of pipewrite() up to the point where it must sleep or return. *)
put(r, bytes) ==
  LET n == Min({room(r), Len(bytes)})
  IN  [r EXCEPT !.nwrite = (@ + n) % UintMod,
                !.data = [i \in DOMAIN @ |->
                            IF \E k \in 1..n : (r.nwrite + k - 1) % PIPESIZE = i
                            THEN bytes[CHOOSE k \in 1..n : (r.nwrite + k - 1) % PIPESIZE = i]
                            ELSE @[i]]]

pipewrite(p) ==
  LET q == cur[p]
      n == Min({room(pipe[q]), Len(buf[p])})
  IN  /\ pc[p] = "pipewrite" /\ Unlocked(q)
      /\ pipe' = [pipe EXCEPT ![q] = put(@, buf[p])]
      /\ buf' = [buf EXCEPT ![p] = SubSeq(@, n + 1, Len(@))]
      /\ \/ /\ n = Len(buf[p])
            /\ Returns(p, WakeReaders(q), 0)
         \/ /\ n < Len(buf[p])
            /\ ~pipe[q].readopen \/ killed[p]
            /\ Returns(p, pc, -1)
         \/ /\ n < Len(buf[p])
            /\ pipe[q].readopen /\ ~killed[p]
            /\ pc' = [WakeReaders(q) EXCEPT ![p] = "pipewrite_full"]
            /\ UNCHANGED ret
      /\ UNCHANGED <<cur, killed>>

(* piperead() of at most max bytes. *)
piperead(p, max) ==
  LET q == cur[p]
      n == Min({avail(pipe[q]), max})
  IN  /\ pc[p] = "piperead" /\ Unlocked(q)
      /\ \/ /\ avail(pipe[q]) = 0 /\ pipe[q].writeopen /\ killed[p]
            /\ Returns(p, pc, -1)
            /\ UNCHANGED <<pipe, buf>>
         \/ /\ avail(pipe[q]) = 0 /\ pipe[q].writeopen /\ ~killed[p]
            /\ pc' = [pc EXCEPT ![p] = "piperead_empty"]
            /\ UNCHANGED <<pipe, buf, ret>>
         \/ /\ avail(pipe[q]) # 0 \/ ~pipe[q].writeopen
            /\ buf' = [buf EXCEPT ![p] = [k \in 1..n |-> pipe[q].data[(pipe[q].nread + k - 1) % PIPESIZE]]]
            /\ pipe' = [pipe EXCEPT ![q].nread = (@ + n) % UintMod]
            /\ Returns(p, WakeWriters(q), n)
      /\ UNCHANGED <<cur, killed>>

(* sleep(): lets go of p->lock. *)
pipe_sleep(p) ==
  /\ \/ pc[p] = "piperead_empty" /\ pc' = [pc EXCEPT ![p] = "piperead_sleep"]
     \/ pc[p] = "pipewrite_full" /\ pc' = [pc EXCEPT ![p] = "pipewrite_sleep"]
  /\ UNCHANGED <<pipe, killed, cur, buf, ret>>

(* Out of sleep(), woken by kill() or by a signal. *)
Roused(p) == IF pc[p] = "piperead_sleep" THEN "piperead"
             ELSE IF pc[p] = "pipewrite_sleep" THEN "pipewrite" ELSE pc[p]
rouse(p, kill) ==
  /\ kill \/ Roused(p) # pc[p]
  /\ killed' = [killed EXCEPT ![p] = @ \/ kill]
  /\ pc' = [pc EXCEPT ![p] = Roused(p)]
  /\ UNCHANGED <<pipe, cur, buf, ret>>

(* pipeclose() by p of one end; wakes the other one, frees the page with   *)
(* the last.                                                               *)
CloseEnd(r, writable) == IF writable THEN [r EXCEPT !.writeopen = FALSE]
                         ELSE [r EXCEPT !.readopen = FALSE]

pipeclose_quiet(p, q, writable, to) ==
  /\ Unlocked(q)
  /\ LET r == CloseEnd(pipe[q], writable)
     IN  pipe' = [pipe EXCEPT ![q] = IF r.readopen \/ r.writeopen THEN r ELSE NoPipe]
  /\ pc' = [pc EXCEPT ![p] = to]
  /\ UNCHANGED <<killed, cur, buf, ret>>

pipeclose(p, q, writable, to) ==
  /\ Unlocked(q)
  /\ LET r == CloseEnd(pipe[q], writable)
     IN  pipe' = [pipe EXCEPT ![q] = IF r.readopen \/ r.writeopen THEN r ELSE NoPipe]
  /\ pc' = [IF writable THEN WakeReaders(q) ELSE WakeWriters(q) EXCEPT ![p] = to]
  /\ UNCHANGED <<killed, cur, buf, ret>>
=============================================================================
