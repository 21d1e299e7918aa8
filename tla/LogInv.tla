------------------------------- MODULE LogInv -------------------------------
(***************************************************************************)
(* The inductive invariant of Log: what is on disk and in the cache at     *)
(* every point of commit() and recovery, and how much of the log the       *)
(* operations under way may still fill.                                    *)
(***************************************************************************)
EXTENDS Log

Points == {"idle", "begin_op", "sleep", "op", "log_write", "log_append", "commit"}
Committing == {"write_log", "write_head", "install", "clear"}
Recovering == {"read_head", "reinstall", "reclear"}

LogTypeOK ==
  /\ disk \in [Blocks -> Data] /\ dlog \in [Slots -> Data] /\ dhead \in Seq(Blocks)
  /\ cache \in [Blocks -> Data] /\ dirty \subseteq Blocks
  /\ lh \in Seq(Blocks) /\ outstanding \in Nat /\ committing \in BOOLEAN
  /\ pc \in [Procs -> Points]
  /\ held \in [Procs -> Blocks \cup {NoBlock}]
  /\ wrote \in [Procs -> SUBSET Blocks]
  /\ phase \in {"none"} \cup Committing \cup Recovering
  /\ tail \in Nat \ {0} /\ panicked \in BOOLEAN

(* Who is where: operations, the one process in commit(), recovery. *)
OpInv ==
  /\ outstanding = Cardinality(Active)
  /\ \A p \in Procs : held[p] # NoBlock <=> pc[p] \in {"log_write", "log_append"}
  /\ \A p, q \in Procs : held[p] = held[q] => p = q \/ held[p] = NoBlock
  /\ \A p \in Procs : pc[p] = "commit" => committing
  /\ \A p, q \in Procs : pc[p] = "commit" /\ pc[q] = "commit" => p = q
  /\ committing => Active = {}
  /\ phase \in Committing => committing
  /\ phase \in Recovering => ~committing /\ \A p \in Procs : pc[p] = "idle"
  /\ phase = "none" /\ Active = {} => lh = <<>>

(* The entries of the header that operations under way account for. *)
EntriesOf(ops, w) == {x \in ops \X (1..OPBLOCKS) : x[2] <= Cardinality(w[x[1]])}
Entries == EntriesOf(Active, wrote)

(* begin_op()'s reservations: what is in the header beyond the operations' *)
(* own entries leaves each of them MAXOPBLOCKS.                            *)
SpaceInv ==
  /\ \A p \in Active : /\ IsFiniteSet(wrote[p]) /\ wrote[p] \subseteq Elems(lh)
                       /\ Cardinality(wrote[p]) <= OPBLOCKS
  /\ \A p \in Active : held[p] # NoBlock => Cardinality(wrote[p] \cup {held[p]}) <= OPBLOCKS
  /\ Len(lh) + outstanding * MAXOPBLOCKS <= LOGSIZE + Cardinality(Entries)
  /\ Len(lh) <= LOGSIZE /\ Len(dhead) <= LOGSIZE

Distinct(h) == \A i, j \in 1..Len(h) : h[i] = h[j] => i = j

(* A copy that is not pinned in the cache and in nobody's hands is the      *)
(* block on disk; what is pinned is in the header and not installed yet.    *)
CacheInv ==
  /\ Distinct(lh) /\ Distinct(dhead)
  /\ \A b \in Blocks : b \in dirty \/ cache[b] = disk[b] \/ \E p \in Procs : held[p] = b
  /\ dirty \subseteq Elems(lh)
  /\ phase = "install" => \A b \in dirty : \E i \in tail..Len(lh) : lh[i] = b
  /\ phase \in {"clear"} \cup Recovering => dirty = {}

(* How far commit() and recovery are. *)
DiskInv ==
  /\ phase \in {"none", "write_log", "write_head"} => dhead = <<>>
  /\ phase \in {"install", "clear", "reinstall", "reclear"} => dhead = lh
  /\ phase \in {"write_head", "read_head"} => tail = 1
  /\ phase = "write_log" => tail <= Len(lh)
  /\ phase = "write_log" => \A i \in 1..tail - 1 : dlog[i] = cache[lh[i]]
  /\ phase \in {"write_head", "install"} => \A i \in 1..Len(lh) : dlog[i] = cache[lh[i]]
  /\ phase \in {"install", "reinstall"} => /\ tail <= Len(lh) + 1
                                           /\ \A i \in 1..tail - 1 : disk[lh[i]] = dlog[i]
  /\ phase \in {"clear", "reclear"} => \A i \in 1..Len(lh) : disk[lh[i]] = dlog[i]

(* A sleeper has somebody to wait for, and the log has not overrun. *)
WaitInv == NoMissedLogWakeup /\ NoLogPanic

LInv == LogTypeOK /\ OpInv /\ SpaceInv /\ CacheInv /\ DiskInv /\ WaitInv
=============================================================================
