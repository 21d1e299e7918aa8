-------------------------------- MODULE Log --------------------------------
(***************************************************************************)
(* The log of the file system (log.c) over a disk that writes one block at *)
(* a time and may stop at any point.  The buffer cache is its promise: a   *)
(* block has one cached copy, read from disk when needed, that is not      *)
(* thrown away while it is dirty or held.                                  *)
(***************************************************************************)
EXTENDS Integers, Sequences, FiniteSets

CONSTANTS Procs, Blocks, Data,
          NoBlock,      \* no buffer
          LOGSIZE,      \* entries of the header
          size,         \* log.size: blocks of the log on disk, header included
          MAXOPBLOCKS,  \* what begin_op() sets aside for an operation
          OPBLOCKS      \* distinct blocks that an operation really writes

ASSUME LogAssumption ==
  /\ IsFiniteSet(Procs) /\ NoBlock \notin Blocks
  /\ LOGSIZE \in Nat /\ size \in Nat /\ MAXOPBLOCKS \in Nat /\ OPBLOCKS \in Nat
  /\ 0 < MAXOPBLOCKS /\ MAXOPBLOCKS <= LOGSIZE
  /\ size <= LOGSIZE + 1
  /\ OPBLOCKS + (LOGSIZE + 1 - size) < MAXOPBLOCKS

VARIABLES disk,        \* home location of every block
          dlog,        \* blocks of the log on disk
          dhead,       \* header block of the log on disk
          cache,       \* contents of the cached copy of every block
          dirty,       \* blocks whose copy has B_DIRTY
          lh,          \* log.lh
          outstanding, \* log.outstanding
          committing,  \* log.committing
          pc, held,    \* per process: point reached, block whose buffer it holds
          wrote,       \* per process: blocks its operation has logged
          phase, tail, \* point in commit() or recover_from_log(), loop counter
          panicked

diskVars == <<disk, dlog, dhead>>
logVars == <<lh, outstanding, committing>>
opVars == <<held, wrote>>
vars == <<diskVars, cache, dirty, logVars, pc, opVars, phase, tail, panicked>>

Elems(s) == {s[i] : i \in 1..Len(s)}
Slots == 1..LOGSIZE
Goto(p, point) == pc' = [pc EXCEPT ![p] = point]
Running == phase \in {"none", "write_log", "write_head", "install", "clear"}

(* wakeup(&log) *)
Woken == [p \in Procs |-> IF pc[p] = "sleep" THEN "begin_op" ELSE pc[p]]

(* An empty log and a file system, as mkfs leaves them. *)
Init == /\ disk \in [Blocks -> Data]
        /\ \E d \in Data : dlog = [i \in Slots |-> d]
        /\ dhead = <<>>
        /\ cache = disk
        /\ dirty = {}
        /\ lh = <<>> /\ outstanding = 0 /\ committing = FALSE
        /\ pc = [p \in Procs |-> "idle"]
        /\ held = [p \in Procs |-> NoBlock]
        /\ wrote = [p \in Procs |-> {}]
        /\ phase = "none" /\ tail = 1
        /\ panicked = FALSE

(* begin_op(): one turn of its loop. *)
NoRoom_unreserved == committing

NoRoom == \/ committing
          \/ Len(lh) + (outstanding + 1) * MAXOPBLOCKS > LOGSIZE

begin_op(p) ==
  /\ Running
  /\ pc[p] \in {"idle", "begin_op"}
  /\ \/ NoRoom /\ Goto(p, "sleep") /\ UNCHANGED <<outstanding, wrote>>
     \/ /\ ~NoRoom
        /\ outstanding' = outstanding + 1
        /\ wrote' = [wrote EXCEPT ![p] = {}]
        /\ Goto(p, "op")
  /\ UNCHANGED <<diskVars, cache, dirty, lh, committing, held, phase, tail, panicked>>

(* A signal, SIGCONT for instance, makes a sleeping process runnable. *)
spurious(p) ==
  /\ pc[p] = "sleep"
  /\ Goto(p, "begin_op")
  /\ UNCHANGED <<diskVars, cache, dirty, logVars, opVars, phase, tail, panicked>>

(* The operation reads a block and changes it in the cache. *)
modify(p, b, v) ==
  /\ pc[p] = "op"
  /\ \A q \in Procs : held[q] # b
  /\ Cardinality(wrote[p] \cup {b}) <= OPBLOCKS
  /\ cache' = [cache EXCEPT ![b] = v]
  /\ held' = [held EXCEPT ![p] = b]
  /\ Goto(p, "log_write")
  /\ UNCHANGED <<diskVars, dirty, logVars, wrote, phase, tail, panicked>>

(* log_write(), before it takes the lock. *)
log_write(p) ==
  /\ pc[p] = "log_write"
  /\ \/ /\ Len(lh) >= LOGSIZE \/ Len(lh) >= size - 1 \/ outstanding < 1
        /\ panicked' = TRUE
        /\ UNCHANGED pc
     \/ /\ Len(lh) < LOGSIZE /\ Len(lh) < size - 1 /\ outstanding >= 1
        /\ Goto(p, "log_append")
        /\ UNCHANGED panicked
  /\ UNCHANGED <<diskVars, cache, dirty, logVars, opVars, phase, tail>>

(* log_write() with the lock, and brelse(). *)
absorb(h, b) == IF b \in Elems(h) THEN h ELSE Append(h, b)

log_append_unpinned(p) ==
  /\ pc[p] = "log_append"
  /\ lh' = absorb(lh, held[p])
  /\ wrote' = [wrote EXCEPT ![p] = @ \cup {held[p]}]
  /\ held' = [held EXCEPT ![p] = NoBlock]
  /\ Goto(p, "op")
  /\ UNCHANGED <<diskVars, cache, dirty, outstanding, committing, phase, tail, panicked>>

log_append(p) ==
  /\ pc[p] = "log_append"
  /\ lh' = absorb(lh, held[p])
  /\ dirty' = dirty \cup {held[p]}
  /\ wrote' = [wrote EXCEPT ![p] = @ \cup {held[p]}]
  /\ held' = [held EXCEPT ![p] = NoBlock]
  /\ Goto(p, "op")
  /\ UNCHANGED <<diskVars, cache, outstanding, committing, phase, tail, panicked>>

(* bget() recycles the buffer of a block. *)
evict(b) ==
  /\ b \notin dirty
  /\ \A q \in Procs : held[q] # b
  /\ cache' = [cache EXCEPT ![b] = disk[b]]
  /\ UNCHANGED <<diskVars, dirty, logVars, pc, opVars, phase, tail, panicked>>

(* end_op() up to commit(): the last operation out commits, any other one *)
(* makes room.                                                            *)
end_op_quiet(p) ==
  /\ pc[p] = "op"
  /\ outstanding' = outstanding - 1
  /\ \/ committing /\ panicked' = TRUE /\ UNCHANGED <<committing, pc, phase, tail>>
     \/ /\ ~committing /\ outstanding' = 0
        /\ committing' = TRUE
        /\ Goto(p, "commit")
        /\ phase' = (IF lh = <<>> THEN "none" ELSE "write_log")
        /\ tail' = 1
        /\ UNCHANGED panicked
     \/ /\ ~committing /\ outstanding' # 0
        /\ Goto(p, "idle")
        /\ UNCHANGED <<committing, phase, tail, panicked>>
  /\ UNCHANGED <<diskVars, cache, dirty, lh, opVars>>

end_op(p) ==
  /\ pc[p] = "op"
  /\ outstanding' = outstanding - 1
  /\ \/ committing /\ panicked' = TRUE /\ UNCHANGED <<committing, pc, phase, tail>>
     \/ /\ ~committing /\ outstanding' = 0
        /\ committing' = TRUE
        /\ Goto(p, "commit")
        /\ phase' = (IF lh = <<>> THEN "none" ELSE "write_log")
        /\ tail' = 1
        /\ UNCHANGED panicked
     \/ /\ ~committing /\ outstanding' # 0
        /\ pc' = [Woken EXCEPT ![p] = "idle"]
        /\ UNCHANGED <<committing, phase, tail, panicked>>
  /\ UNCHANGED <<diskVars, cache, dirty, lh, opVars>>

(* write_log(): one block of the cache to the log. *)
write_log ==
  /\ phase = "write_log"
  /\ dlog' = [dlog EXCEPT ![tail] = cache[lh[tail]]]
  /\ \/ tail < Len(lh) /\ tail' = tail + 1 /\ UNCHANGED phase
     \/ tail = Len(lh) /\ tail' = 1 /\ phase' = "write_head"
  /\ UNCHANGED <<disk, dhead, cache, dirty, logVars, pc, opVars, panicked>>

(* write_head(): the commit. *)
write_head ==
  /\ phase = "write_head"
  /\ dhead' = lh
  /\ phase' = "install"
  /\ UNCHANGED <<disk, dlog, cache, dirty, logVars, pc, opVars, tail, panicked>>

(* install_trans(): one block of the log to its home, which cleans it. *)
MoreToInstall_short == tail < Len(lh)

MoreToInstall == tail <= Len(lh)

install_trans ==
  /\ phase \in {"install", "reinstall"}
  /\ \/ /\ MoreToInstall
        /\ disk' = [disk EXCEPT ![lh[tail]] = dlog[tail]]
        /\ cache' = [cache EXCEPT ![lh[tail]] = dlog[tail]]
        /\ dirty' = dirty \ {lh[tail]}
        /\ tail' = tail + 1
        /\ UNCHANGED phase
     \/ /\ ~MoreToInstall
        /\ phase' = (IF phase = "install" THEN "clear" ELSE "reclear")
        /\ tail' = 1
        /\ UNCHANGED <<disk, cache, dirty>>
  /\ UNCHANGED <<dlog, dhead, logVars, pc, opVars, panicked>>

(* log.lh.n = 0; write_head(). *)
clear ==
  /\ phase \in {"clear", "reclear"}
  /\ lh' = <<>>
  /\ dhead' = <<>>
  /\ phase' = "none"
  /\ UNCHANGED <<disk, dlog, cache, dirty, outstanding, committing, pc, opVars, tail, panicked>>

(* The end of end_op(), after commit(). *)
end_commit(p) ==
  /\ pc[p] = "commit"
  /\ phase = "none"
  /\ committing' = FALSE
  /\ pc' = [Woken EXCEPT ![p] = "idle"]
  /\ UNCHANGED <<diskVars, cache, dirty, lh, outstanding, opVars, phase, tail, panicked>>

(* The machine stops and starts again: the disk is all that is left. *)
crash ==
  /\ cache' = disk
  /\ dirty' = {}
  /\ lh' = <<>> /\ outstanding' = 0 /\ committing' = FALSE
  /\ pc' = [p \in Procs |-> "idle"]
  /\ held' = [p \in Procs |-> NoBlock]
  /\ wrote' = [p \in Procs |-> {}]
  /\ phase' = "read_head" /\ tail' = 1
  /\ panicked' = FALSE
  /\ UNCHANGED diskVars

(* initlog(), recover_from_log(): read_head(), then install_trans(). *)
read_head ==
  /\ phase = "read_head"
  /\ lh' = dhead
  /\ phase' = "reinstall"
  /\ UNCHANGED <<diskVars, cache, dirty, outstanding, committing, pc, opVars, tail, panicked>>

Next == \/ /\ ~panicked
           /\ \/ \E p \in Procs : \/ begin_op(p) \/ spurious(p) \/ log_write(p)
                                  \/ log_append(p) \/ end_op(p) \/ end_commit(p)
                                  \/ \E b \in Blocks, v \in Data : modify(p, b, v)
              \/ \E b \in Blocks : evict(b)
              \/ write_log \/ write_head \/ install_trans \/ clear \/ read_head
        \/ crash

Spec == Init /\ [][Next]_vars

---------------------------------------------------------------------------
(* What recovery would read: the blocks a committed header names come from *)
(* the log, the others from their home location.                           *)
InLog(b) == b \in Elems(dhead)
LogSlot(h, b) == CHOOSE i \in 1..Len(h) : h[i] = b
Recovered == [b \in Blocks |-> IF InLog(b) THEN dlog[LogSlot(dhead, b)] ELSE disk[b]]

Active == {p \in Procs : pc[p] \in {"op", "log_write", "log_append"}}

Atomic == INSTANCE AtomicDisk
            WITH stable <- Recovered,
                 view <- IF Running THEN cache ELSE Recovered,
                 active <- Active

(* Whatever the interleaving of operations, block writes and crashes, a    *)
(* crash leaves the disk as it was at the last commit, and a commit takes  *)
(* all the blocks of its operations at once and of no unfinished one       *)
(* (commit(), install_trans(), recover_from_log()).                        *)
AllOrNothing == Atomic!AtomicSpec

(* An operation that was last out returns from end_op() when everything    *)
(* written so far would survive a crash: while the log is idle, what the   *)
(* cache shows is what recovery would bring back.                          *)
DurableWhenIdle ==
  phase = "none" /\ outstanding = 0 /\ ~committing => Recovered = cache

(* A process asleep in begin_op() has somebody to wait for: a commit is in *)
(* progress, or operations are active that hold the room it needs.         *)
NoMissedLogWakeup == (\E p \in Procs : pc[p] = "sleep") => NoRoom /\ (committing \/ Active # {})

(* With operations that keep to their number of blocks, log_write() never  *)
(* finds the log full and end_op() never finds a commit in progress.       *)
NoLogPanic == ~panicked
=============================================================================
