------------------------------ MODULE LogProofs ------------------------------
(***************************************************************************)
(* The log is correct for any number of processes and blocks and any sizes *)
(* that satisfy LogAssumption: LInv is an invariant of Log, and so the log *)
(* implements AtomicDisk.                                                  *)
(***************************************************************************)
EXTENDS LogInv, FiniteSetTheorems, TLAPS

(* Arithmetic of the reservations: each of o operations leaves m - n. *)
LEMMA Spare ==
  ASSUME NEW o \in Nat \ {0}, NEW m \in Nat, NEW n \in Nat, n <= m
  PROVE  o * n + m <= o * m + n
<1>1. (o - 1) * (m - n) >= 0
  BY SMT
<1>2. (o - 1) * (m - n) = o * m - o * n - m + n
  BY SMT
<1>. QED  BY <1>1, <1>2, SMT

LEMMA ActiveFinite ==
  /\ IsFiniteSet(Active) /\ Cardinality(Active) \in Nat
  /\ Cardinality(Active) = 0 <=> Active = {}
<1>1. Active \in SUBSET Procs
  BY Zenon DEF Active
<1>. QED  BY <1>1, FS_Subset, FS_CardinalityType, FS_EmptySet, LogAssumption, Zenon

(* The entries of the operations under way are at most OPBLOCKS for each. *)
LEMMA EntriesBound ==
  ASSUME LogTypeOK, OpInv
  PROVE  /\ IsFiniteSet(Entries) /\ Cardinality(Entries) \in Nat
         /\ Cardinality(Entries) <= outstanding * OPBLOCKS
<1>1. IsFiniteSet(1..OPBLOCKS) /\ Cardinality(1..OPBLOCKS) = OPBLOCKS
  BY FS_Interval, LogAssumption, SMT
<1>2. /\ IsFiniteSet(Active \X (1..OPBLOCKS))
      /\ Cardinality(Active \X (1..OPBLOCKS)) = outstanding * OPBLOCKS
  <2>1. IsFiniteSet(Active) /\ Cardinality(Active) = outstanding
    BY ActiveFinite, Zenon DEF OpInv
  <2>. QED  BY <1>1, <2>1, FS_Product, Zenon
<1>3. Entries \in SUBSET (Active \X (1..OPBLOCKS))
  BY Zenon DEF Entries, EntriesOf
<1>. QED  BY <1>2, <1>3, FS_Subset, FS_CardinalityType, Zenon

(* An operation under way finds room for one more entry. *)
LEMMA HasSpace ==
  ASSUME LogTypeOK, OpInv, SpaceInv, NEW p \in Active
  PROVE  outstanding >= 1 /\ Len(lh) < size - 1 /\ Len(lh) < LOGSIZE
<1>1. outstanding \in Nat \ {0}
  BY ActiveFinite, Zenon DEF OpInv, LogTypeOK
<1>2. outstanding * OPBLOCKS + MAXOPBLOCKS <= outstanding * MAXOPBLOCKS + OPBLOCKS
  BY <1>1, Spare, LogAssumption
<1>3. Len(lh) + outstanding * MAXOPBLOCKS <= LOGSIZE + outstanding * OPBLOCKS
  BY <1>1, EntriesBound, LogAssumption DEF SpaceInv, LogTypeOK
<1>4. /\ outstanding * OPBLOCKS \in Nat /\ outstanding * MAXOPBLOCKS \in Nat
      /\ Len(lh) \in Nat
  BY <1>1, LogAssumption DEF LogTypeOK
<1>. QED  BY <1>1, <1>2, <1>3, <1>4, LogAssumption

-----------------------------------------------------------------------------
LEMMA InitLInv == Init => LInv
<1>. SUFFICES ASSUME Init PROVE LInv
  BY Zenon
<1>1. Active = {}
  BY Zenon DEF Init, Active
<1>2. Entries = {}
  BY <1>1, Zenon DEF Entries, EntriesOf
<1>3. LogTypeOK
  <2>1. disk \in [Blocks -> Data] /\ dlog \in [Slots -> Data] /\ cache \in [Blocks -> Data]
    BY Zenon DEF Init
  <2>2. dhead \in Seq(Blocks) /\ lh \in Seq(Blocks) /\ outstanding \in Nat /\ tail \in Nat \ {0}
    BY DEF Init
  <2>3. pc \in [Procs -> Points] /\ held \in [Procs -> Blocks \cup {NoBlock}]
    BY Zenon DEF Init, Points
  <2>. QED  BY <2>1, <2>2, <2>3, Zenon DEF Init, LogTypeOK
<1>4. OpInv
  BY <1>1, FS_EmptySet, Zenon DEF Init, OpInv, Committing, Recovering
<1>5. SpaceInv
  BY <1>1, <1>2, FS_EmptySet, LogAssumption DEF Init, SpaceInv
<1>6. CacheInv
  BY DEF Init, CacheInv, Distinct, Recovering
<1>7. DiskInv
  BY Zenon DEF Init, DiskInv
<1>8. WaitInv
  BY Zenon DEF Init, WaitInv, NoMissedLogWakeup, NoLogPanic
<1>. QED  BY <1>3, <1>4, <1>5, <1>6, <1>7, <1>8, Zenon DEF LInv

(* An operation is under way only while the log is quiet. *)
LEMMA QuietWhenActive ==
  ASSUME LogTypeOK, OpInv, NEW p \in Active
  PROVE  p \in Procs /\ phase = "none" /\ ~committing /\ Running
BY Zenon DEF LogTypeOK, OpInv, Active, Committing, Recovering, Running

(* The points of the operations move: p enters, stays in or leaves them. *)
LEMMA ActiveMoves ==
  ASSUME LogTypeOK, NEW p \in Procs, NEW point \in Points, Goto(p, point)
  PROVE  /\ pc' \in [Procs -> Points]
         /\ point \in {"op", "log_write", "log_append"} => Active' = Active \cup {p}
         /\ point \notin {"op", "log_write", "log_append"} => Active' = Active \ {p}
BY Zenon DEF LogTypeOK, Goto, Active, Points

LEMMA BeginOp ==
  ASSUME LInv, NEW p \in Procs, begin_op(p)
  PROVE  LInv'
<1>. USE DEF LInv
<1>1. LogTypeOK'
  <2>1. pc' \in [Procs -> Points] /\ outstanding' \in Nat
    BY ActiveMoves DEF begin_op, LogTypeOK, Points
  <2>2. wrote' \in [Procs -> SUBSET Blocks]
    BY Zenon DEF begin_op, LogTypeOK
  <2>. QED  BY <2>1, <2>2, Zenon DEF begin_op, LogTypeOK, Slots, Committing, Recovering, Points, diskVars
<1>2. CASE NoRoom /\ Goto(p, "sleep") /\ UNCHANGED <<outstanding, wrote>>
  <2>1. Active' = Active
    BY <1>2, ActiveMoves, Zenon DEF begin_op, Points, Active
  <2>2. Entries' = Entries
    BY <2>1, <1>2, Zenon DEF Entries, EntriesOf
  <2>3. OpInv'
    BY <1>2, <2>1 DEF begin_op, OpInv, LogTypeOK, Goto, diskVars, Running, Recovering, Committing
  <2>4. SpaceInv'
    BY <1>2, <2>1, <2>2, Zenon DEF begin_op, SpaceInv, diskVars
  <2>5. CacheInv' /\ DiskInv'
    BY DEF begin_op, CacheInv, DiskInv, diskVars
  <2>6. WaitInv'
    <3>1. committing \/ Active # {}
      <4>. SUFFICES ASSUME ~committing, Active = {} PROVE FALSE
        BY Zenon
      <4>1. lh = <<>> /\ outstanding = 0
        BY ActiveFinite, Zenon DEF OpInv, begin_op, Running, Committing
      <4>. QED  BY <4>1, <1>2, LogAssumption DEF NoRoom
    <3>2. NoRoom'
      BY <1>2, Zenon DEF NoRoom, begin_op
    <3>. QED  BY <3>1, <3>2, <2>1, Zenon DEF WaitInv, NoMissedLogWakeup, NoLogPanic, begin_op
  <2>. QED  BY <1>1, <2>3, <2>4, <2>5, <2>6, Zenon
<1>3. CASE /\ ~NoRoom /\ outstanding' = outstanding + 1
           /\ wrote' = [wrote EXCEPT ![p] = {}] /\ Goto(p, "op")
  <2>1. p \notin Active /\ Active' = Active \cup {p}
    BY <1>3, ActiveMoves, Zenon DEF begin_op, Points, Active
  <2>2. Cardinality(Active') = Cardinality(Active) + 1
    BY <2>1, ActiveFinite, FS_AddElement, Zenon
  <2>3. OpInv'
    BY <1>3, <2>1, <2>2, Zenon DEF begin_op, OpInv, LogTypeOK, Goto, diskVars, Running, Recovering,
       Committing, NoRoom
  <2>4. Entries' = Entries
    BY <1>3, <2>1, FS_EmptySet DEF Entries, EntriesOf, LogTypeOK
  <2>5. SpaceInv'
    <3>1. \A q \in Active' : /\ IsFiniteSet(wrote'[q]) /\ wrote'[q] \subseteq Elems(lh)'
                             /\ Cardinality(wrote'[q]) <= OPBLOCKS
      BY <1>3, <2>1, FS_EmptySet, LogAssumption DEF begin_op, SpaceInv, LogTypeOK, Active
    <3>2. \A q \in Active' : held'[q] # NoBlock => Cardinality(wrote'[q] \cup {held'[q]}) <= OPBLOCKS
      BY <1>3, <2>1, Zenon DEF begin_op, SpaceInv, OpInv, LogTypeOK, Active
    <3>3. Len(lh)' + outstanding' * MAXOPBLOCKS <= LOGSIZE + Cardinality(Entries')
      BY <1>3, <2>4, EntriesBound, LogAssumption DEF begin_op, NoRoom, LogTypeOK
    <3>. QED  BY <3>1, <3>2, <3>3, Zenon DEF SpaceInv, begin_op, diskVars
  <2>6. CacheInv' /\ DiskInv'
    BY DEF begin_op, CacheInv, DiskInv, diskVars
  <2>7. WaitInv'
    <3>1. ~\E q \in Procs : pc[q] = "sleep"
      BY <1>3, Zenon DEF WaitInv, NoMissedLogWakeup
    <3>. QED  BY <3>1, <1>3, Zenon DEF WaitInv, NoMissedLogWakeup, NoLogPanic, begin_op, Goto, LogTypeOK
  <2>. QED  BY <1>1, <2>3, <2>5, <2>6, <2>7, Zenon
<1>. QED  BY <1>2, <1>3, Zenon DEF begin_op

LEMMA Spurious ==
  ASSUME LInv, NEW p \in Procs, spurious(p)
  PROVE  LInv'
<1>. USE DEF LInv
<1>1. pc' \in [Procs -> Points] /\ Active' = Active
  BY ActiveMoves, Zenon DEF spurious, Points, Active
<1>2. Entries' = Entries
  BY <1>1, Zenon DEF Entries, EntriesOf, spurious, opVars
<1>3. LogTypeOK'
  BY <1>1, Zenon DEF spurious, LogTypeOK, Slots, Committing, Recovering, Points, diskVars, logVars, opVars
<1>4. OpInv'
  BY <1>1 DEF spurious, OpInv, LogTypeOK, Goto, logVars, opVars, Recovering, Committing
<1>5. SpaceInv'
  BY <1>1, <1>2, Zenon DEF spurious, SpaceInv, diskVars, logVars, opVars
<1>6. CacheInv' /\ DiskInv'
  BY DEF spurious, CacheInv, DiskInv, diskVars, logVars, opVars
<1>7. WaitInv'
  BY <1>1, Zenon DEF spurious, WaitInv, NoMissedLogWakeup, NoLogPanic, NoRoom, Goto, LogTypeOK, logVars
<1>. QED  BY <1>3, <1>4, <1>5, <1>6, <1>7, Zenon

LEMMA Modify ==
  ASSUME LInv, NEW p \in Procs, NEW b \in Blocks, NEW v \in Data, modify(p, b, v)
  PROVE  LInv'
<1>. USE DEF LInv
<1>0. p \in Active
  BY Zenon DEF modify, Active
<1>1. pc' \in [Procs -> Points] /\ Active' = Active
  BY <1>0, ActiveMoves, Zenon DEF modify, Points
<1>2. Entries' = Entries
  BY <1>1, Zenon DEF Entries, EntriesOf, modify
<1>3. LogTypeOK'
  BY <1>1, Zenon DEF modify, LogTypeOK, Slots, Committing, Recovering, Points, diskVars, logVars
<1>4. held[p] = NoBlock /\ b # NoBlock /\ phase = "none" /\ ~committing
  BY <1>0, QuietWhenActive, LogAssumption, Zenon DEF modify, OpInv
<1>5. OpInv'
  BY <1>0, <1>1, <1>4 DEF modify, OpInv, LogTypeOK, Goto, logVars, Recovering, Committing
<1>6. SpaceInv'
  BY <1>1, <1>2, Zenon DEF modify, SpaceInv, LogTypeOK, Active, diskVars, logVars
<1>7. CacheInv'
  <2>1. \A c \in Blocks : c \in dirty' \/ cache'[c] = disk'[c] \/ \E q \in Procs : held'[q] = c
    BY <1>4, LogAssumption DEF modify, CacheInv, LogTypeOK, diskVars
  <2>. QED  BY <1>4, <2>1, Zenon DEF modify, CacheInv, Recovering, diskVars, logVars
<1>8. DiskInv'
  BY <1>4, Zenon DEF modify, DiskInv, diskVars, logVars
<1>9. WaitInv'
  BY <1>0, <1>1, Zenon DEF modify, WaitInv, NoMissedLogWakeup, NoLogPanic, NoRoom, Goto, LogTypeOK, logVars
<1>. QED  BY <1>3, <1>5, <1>6, <1>7, <1>8, <1>9, Zenon

LEMMA LogWrite ==
  ASSUME LInv, NEW p \in Procs, log_write(p)
  PROVE  LInv'
<1>. USE DEF LInv
<1>0. p \in Active
  BY Zenon DEF log_write, Active
<1>1. Goto(p, "log_append") /\ UNCHANGED panicked
  <2>1. outstanding >= 1 /\ Len(lh) < size - 1 /\ Len(lh) < LOGSIZE
    BY <1>0, HasSpace, Zenon
  <2>2. Len(lh) \in Nat /\ outstanding \in Nat
    BY DEF LogTypeOK
  <2>. QED  BY <2>1, <2>2, LogAssumption DEF log_write
<1>2. pc' \in [Procs -> Points] /\ Active' = Active
  BY <1>0, <1>1, ActiveMoves, Zenon DEF Points
<1>3. Entries' = Entries
  BY <1>2, Zenon DEF Entries, EntriesOf, log_write, opVars
<1>4. LogTypeOK'
  BY <1>1, <1>2, Zenon DEF log_write, LogTypeOK, Slots, Committing, Recovering, Points, diskVars,
     logVars, opVars
<1>5. OpInv'
  BY <1>0, <1>1, <1>2, QuietWhenActive, SMTT(30) DEF log_write, OpInv, LogTypeOK, Goto, logVars, opVars,
     Recovering, Committing
<1>6. SpaceInv'
  BY <1>2, <1>3, Zenon DEF log_write, SpaceInv, diskVars, logVars, opVars
<1>7. CacheInv' /\ DiskInv'
  BY DEF log_write, CacheInv, DiskInv, diskVars, logVars, opVars
<1>8. WaitInv'
  BY <1>1, <1>2, Zenon DEF log_write, WaitInv, NoMissedLogWakeup, NoLogPanic, NoRoom, Goto, LogTypeOK,
     logVars
<1>. QED  BY <1>4, <1>5, <1>6, <1>7, <1>8, Zenon

LEMMA Absorb ==
  ASSUME NEW h \in Seq(Blocks), Distinct(h), NEW b \in Blocks
  PROVE  /\ absorb(h, b) \in Seq(Blocks) /\ Distinct(absorb(h, b))
         /\ Elems(absorb(h, b)) = Elems(h) \cup {b}
         /\ Len(absorb(h, b)) = IF b \in Elems(h) THEN Len(h) ELSE Len(h) + 1
BY DEF absorb, Elems, Distinct

LEMMA LogAppend ==
  ASSUME LInv, NEW p \in Procs, log_append(p)
  PROVE  LInv'
<1>. USE DEF LInv
<1>0. p \in Active
  BY Zenon DEF log_append, Active
<1>1. pc' \in [Procs -> Points] /\ Active' = Active
  BY <1>0, ActiveMoves DEF log_append, Points
<1>2. held[p] \in Blocks /\ phase = "none" /\ ~committing
  BY <1>0, QuietWhenActive, Zenon DEF log_append, OpInv, LogTypeOK
<1>3. /\ lh' \in Seq(Blocks) /\ Distinct(lh)' /\ Elems(lh)' = Elems(lh) \cup {held[p]}
      /\ Len(lh)' = IF held[p] \in Elems(lh) THEN Len(lh) ELSE Len(lh) + 1
  BY <1>2, Absorb, Zenon DEF log_append, CacheInv, LogTypeOK
<1>4. LogTypeOK'
  BY <1>1, <1>2, <1>3, Zenon DEF log_append, LogTypeOK, Slots, Committing, Recovering, Points, diskVars
<1>5. OpInv'
  BY <1>0, <1>1, <1>2, SMTT(30) DEF log_append, OpInv, LogTypeOK, Goto, Recovering, Committing
<1>6. /\ IsFiniteSet(wrote[p]) /\ Cardinality(wrote[p]) \in Nat
      /\ wrote'[p] = wrote[p] \cup {held[p]} /\ IsFiniteSet(wrote'[p])
      /\ Cardinality(wrote'[p]) <= OPBLOCKS
      /\ Cardinality(wrote'[p]) = IF held[p] \in wrote[p] THEN Cardinality(wrote[p])
                                  ELSE Cardinality(wrote[p]) + 1
  BY <1>0, <1>2, FS_AddElement, FS_CardinalityType, LogAssumption, Zenon
  DEF log_append, SpaceInv, LogTypeOK
<1>7. Cardinality(Entries') = IF held[p] \in wrote[p] THEN Cardinality(Entries)
                              ELSE Cardinality(Entries) + 1
  <2>1. CASE held[p] \in wrote[p]
    <3>1. wrote' = wrote
      BY <2>1, <1>6 DEF log_append, LogTypeOK
    <3>. QED  BY <3>1, <2>1, <1>1, Zenon DEF Entries
  <2>2. CASE held[p] \notin wrote[p]
    <3>. DEFINE x == <<p, Cardinality(wrote[p]) + 1>>
    <3>1. x \notin Entries
      BY <1>6 DEF Entries, EntriesOf
    <3>2. Entries' = Entries \cup {x}
      BY <1>0, <1>1, <1>6, <2>2 DEF Entries, EntriesOf, log_append, LogTypeOK
    <3>. HIDE DEF x
    <3>. QED  BY <3>1, <3>2, <2>2, EntriesBound, FS_AddElement, Zenon
  <2>. QED  BY <2>1, <2>2, Zenon
<1>8. SpaceInv'
  <2>1. \A q \in Active' : /\ IsFiniteSet(wrote'[q]) /\ wrote'[q] \subseteq Elems(lh)'
                           /\ Cardinality(wrote'[q]) <= OPBLOCKS
    BY <1>1, <1>3, <1>6 DEF log_append, SpaceInv, LogTypeOK, Active
  <2>2. \A q \in Active' : held'[q] # NoBlock => Cardinality(wrote'[q] \cup {held'[q]}) <= OPBLOCKS
    BY <1>1, Zenon DEF log_append, SpaceInv, LogTypeOK, Active
  <2>3. held[p] \in wrote[p] => held[p] \in Elems(lh)
    BY <1>0, Zenon DEF SpaceInv
  <2>4. Len(lh)' + outstanding' * MAXOPBLOCKS <= LOGSIZE + Cardinality(Entries')
    <3>1. outstanding * MAXOPBLOCKS \in Nat /\ Len(lh) \in Nat /\ outstanding' = outstanding
      BY LogAssumption DEF LogTypeOK, log_append
    <3>. QED  BY <3>1, <2>3, <1>3, <1>7, EntriesBound, LogAssumption, SMTT(30) DEF SpaceInv
  <2>5. Len(lh)' <= LOGSIZE
    BY <1>0, <1>3, HasSpace, LogAssumption, SMTT(30) DEF LogTypeOK
  <2>. QED  BY <2>1, <2>2, <2>4, <2>5, Zenon DEF SpaceInv, log_append, diskVars
<1>9. CacheInv'
  <2>1. \A c \in Blocks : c \in dirty' \/ cache'[c] = disk'[c] \/ \E q \in Procs : held'[q] = c
    BY <1>2, Zenon DEF log_append, CacheInv, LogTypeOK, diskVars
  <2>. QED  BY <1>2, <1>3, <2>1, SMTT(30) DEF log_append, CacheInv, Recovering, diskVars
<1>10. DiskInv'
  BY <1>2, Zenon DEF log_append, DiskInv, diskVars
<1>11. WaitInv'
  <2>1. NoRoom => NoRoom'
    <3>1. (outstanding + 1) * MAXOPBLOCKS \in Nat /\ Len(lh) \in Nat
      BY LogAssumption DEF LogTypeOK
    <3>2. Len(lh)' >= Len(lh) /\ Len(lh)' \in Nat
      BY <3>1, <1>3
    <3>3. outstanding' = outstanding /\ committing' = committing
      BY DEF log_append
    <3>. QED  BY <3>1, <3>2, <3>3, LogAssumption DEF NoRoom
  <2>. QED  BY <1>0, <1>1, <2>1, Zenon DEF log_append, WaitInv, NoMissedLogWakeup, NoLogPanic, Goto, LogTypeOK
<1>. QED  BY <1>4, <1>5, <1>8, <1>9, <1>10, <1>11, Zenon

LEMMA Evict ==
  ASSUME LInv, NEW b \in Blocks, evict(b)
  PROVE  LInv' /\ cache' = cache
<1>. USE DEF LInv
<1>1. cache' = cache
  BY SMTT(30) DEF evict, CacheInv, LogTypeOK
<1>2. UNCHANGED vars
  BY <1>1, Zenon DEF evict, vars, diskVars, logVars, opVars
<1>3. Active' = Active
  BY <1>2, Zenon DEF vars, Active
<1>4. LogTypeOK' /\ CacheInv' /\ DiskInv'
  BY <1>2, SMTT(30) DEF vars, diskVars, logVars, opVars, LogTypeOK, CacheInv, DiskInv
<1>5. OpInv' /\ SpaceInv' /\ WaitInv'
  BY <1>2, <1>3 DEF vars, diskVars, logVars, opVars, OpInv, SpaceInv, Entries, WaitInv,
     NoMissedLogWakeup, NoLogPanic, NoRoom
<1>. QED  BY <1>1, <1>4, <1>5, Zenon

(* wakeup(&log) sends the sleepers back to the loop of begin_op(). *)
LEMMA WokenMoves ==
  ASSUME LogTypeOK, NEW p \in Procs, pc' = [Woken EXCEPT ![p] = "idle"]
  PROVE  /\ pc' \in [Procs -> Points]
         /\ pc'[p] = "idle"
         /\ \A q \in Procs : q # p => \/ pc[q] # "sleep" /\ pc'[q] = pc[q]
                                      \/ pc[q] = "sleep" /\ pc'[q] = "begin_op"
         /\ Active' = Active \ {p}
         /\ \A q \in Procs : pc'[q] # "sleep"
<1>1. Woken \in [Procs -> Points]
  BY Zenon DEF Woken, LogTypeOK, Points
<1>2. pc' \in [Procs -> Points]
  BY <1>1, Zenon DEF Points
<1>3. /\ pc'[p] = "idle"
      /\ \A q \in Procs : q # p => pc'[q] = Woken[q]
  BY <1>1, Zenon
<1>4. \A q \in Procs : \/ pc[q] # "sleep" /\ Woken[q] = pc[q]
                       \/ pc[q] = "sleep" /\ Woken[q] = "begin_op"
  BY Zenon DEF Woken
<1>5. \A q \in Procs : q # p => \/ pc[q] # "sleep" /\ pc'[q] = pc[q]
                                \/ pc[q] = "sleep" /\ pc'[q] = "begin_op"
  BY <1>3, <1>4, Zenon
<1>6. Active' = Active \ {p}
  BY <1>3, <1>5 DEF Active
<1>. QED  BY <1>2, <1>3, <1>5, <1>6

(* The last operation out, or another one. *)
LEMMA EndOp ==
  ASSUME LInv, NEW p \in Procs, end_op(p)
  PROVE  LInv'
<1>. USE DEF LInv
<1>0. p \in Active
  BY Zenon DEF end_op, Active
<1>1. phase = "none" /\ ~committing /\ outstanding' = outstanding - 1
  BY <1>0, QuietWhenActive, Zenon DEF end_op
<1>2. /\ panicked' = panicked /\ lh' = lh
      /\ \/ /\ outstanding' = 0 /\ committing' /\ Goto(p, "commit") /\ tail' = 1
            /\ phase' = IF lh = <<>> THEN "none" ELSE "write_log"
         \/ /\ outstanding' # 0 /\ pc' = [Woken EXCEPT ![p] = "idle"]
            /\ ~committing' /\ phase' = "none" /\ tail' = tail
  BY <1>1 DEF end_op
<1>3. /\ pc' \in [Procs -> Points] /\ Active' = Active \ {p}
      /\ \A q \in Procs : q # p => \/ pc'[q] = pc[q]
                                   \/ pc[q] = "sleep" /\ pc'[q] = "begin_op"
      /\ pc'[p] = IF outstanding' = 0 THEN "commit" ELSE "idle"
  <2>1. CASE outstanding' = 0
    BY <1>2, <2>1, ActiveMoves DEF Points, Goto, LogTypeOK
  <2>2. CASE outstanding' # 0
    BY <1>2, <2>2, WokenMoves, Zenon
  <2>. QED  BY <2>1, <2>2, Zenon
<1>4. outstanding' = Cardinality(Active') /\ outstanding' \in Nat
  <2>1. /\ IsFiniteSet(Active \ {p})
        /\ Cardinality(Active \ {p}) = Cardinality(Active) - 1
    BY <1>0, ActiveFinite, FS_RemoveElement, Zenon
  <2>2. Cardinality(Active \ {p}) \in Nat
    BY <2>1, FS_CardinalityType, Zenon
  <2>. QED  BY <1>1, <1>3, <2>1, <2>2, Zenon DEF OpInv
<1>5. outstanding' = 0 <=> Active' = {}
  <2>1. IsFiniteSet(Active \ {p})
    BY ActiveFinite, FS_RemoveElement, Zenon
  <2>. QED  BY <1>3, <1>4, <2>1, FS_EmptySet, Zenon
<1>6. LogTypeOK'
  <2>1. phase' \in {"none"} \cup Committing \cup Recovering /\ tail' \in Nat \ {0}
    BY <1>2 DEF Committing, LogTypeOK
  <2>2. committing' \in BOOLEAN
    BY Zenon DEF end_op, LogTypeOK
  <2>. QED  BY <1>2, <1>3, <1>4, <2>1, <2>2, SMTT(30) DEF end_op, LogTypeOK, Slots, Points, Committing,
            Recovering, diskVars, opVars
<1>7. OpInv'
  <2>1. held[p] = NoBlock /\ pc[p] = "op" /\ \A q \in Procs : pc[q] # "commit"
    BY <1>1, Zenon DEF OpInv, end_op
  <2>2. committing' <=> outstanding' = 0
    BY <1>2, Zenon
  <2>3. phase' \in {"none", "write_log"} /\ (phase' = "write_log" => committing')
    BY <1>2, Zenon
  <2>4. phase' = "none" /\ Active' = {} => lh' = <<>>
    BY <1>2, <1>5, Zenon
  <2>5. held' = held
    BY Zenon DEF end_op, opVars
  <2>6. \A q \in Procs : held'[q] # NoBlock <=> pc'[q] \in {"log_write", "log_append"}
    BY <1>3, <2>1, <2>5, Zenon DEF OpInv
  <2>7. \A q \in Procs : pc'[q] = "commit" => q = p /\ committing'
    BY <1>3, <2>1, <2>2, Zenon
  <2>. QED  BY <1>4, <1>5, <2>2, <2>3, <2>4, <2>5, <2>6, <2>7, SMTT(30) DEF OpInv, Recovering, Committing
<1>8. SpaceInv'
  <2>. DEFINE n == Cardinality(wrote[p])
              mine == {p} \X (1..n)
  <2>1. n \in Nat /\ n <= OPBLOCKS
    BY <1>0, FS_CardinalityType, Zenon DEF SpaceInv
  <2>2. IsFiniteSet(mine) /\ Cardinality(mine) = n
    <3>1. IsFiniteSet(1..n) /\ Cardinality(1..n) = n
      BY <2>1, FS_Interval, SMT
    <3>2. IsFiniteSet({p}) /\ Cardinality({p}) = 1
      BY FS_Singleton, Zenon
    <3>3. IsFiniteSet(mine) /\ Cardinality(mine) = Cardinality({p}) * Cardinality(1..n)
      BY <3>1, <3>2, FS_Product, Zenon
    <3>. QED  BY <2>1, <3>1, <3>2, <3>3
  <2>3. Entries' = Entries \ mine
    BY <1>0, <1>3, <2>1 DEF Entries, EntriesOf, end_op, opVars, LogTypeOK
  <2>. HIDE DEF mine
  <2>4. /\ Cardinality(Entries') = Cardinality(Entries) - Cardinality(Entries \cap mine)
        /\ Cardinality(Entries \cap mine) <= n
        /\ Cardinality(Entries \cap mine) \in Nat
    BY <2>2, <2>3, EntriesBound, FS_Difference, FS_Intersection, FS_CardinalityType, Zenon
  <2>. HIDE DEF n
  <2>5. outstanding' * MAXOPBLOCKS = outstanding * MAXOPBLOCKS - MAXOPBLOCKS
    BY <1>1, <1>4, LogAssumption, SMTT(30) DEF LogTypeOK
  <2>6. Len(lh)' + outstanding' * MAXOPBLOCKS <= LOGSIZE + Cardinality(Entries')
    <3>1. outstanding * MAXOPBLOCKS \in Nat /\ Len(lh) \in Nat /\ lh' = lh
      BY LogAssumption DEF LogTypeOK, end_op
    <3>. QED  BY <3>1, <2>1, <2>4, <2>5, EntriesBound, LogAssumption, SMTT(30) DEF SpaceInv
  <2>. QED  BY <1>3, <2>6, Zenon DEF SpaceInv, end_op, diskVars, opVars
<1>9. CacheInv'
  BY <1>1, <1>2, Zenon DEF CacheInv, end_op, diskVars, opVars, Recovering
<1>10. DiskInv'
  <2>1. phase' = "none" \/ (phase' = "write_log" /\ tail' = 1 /\ lh # <<>>)
    BY <1>2, Zenon
  <2>. QED  BY <1>1, <2>1 DEF DiskInv, end_op, diskVars, LogTypeOK
<1>11. WaitInv'
  <2>1. CASE outstanding' = 0
    BY <1>2, <2>1, Zenon DEF WaitInv, NoMissedLogWakeup, NoLogPanic, NoRoom
  <2>2. CASE outstanding' # 0
    BY <1>2, <2>2, WokenMoves, Zenon DEF WaitInv, NoMissedLogWakeup, NoLogPanic
  <2>. QED  BY <2>1, <2>2, Zenon
<1>. QED  BY <1>6, <1>7, <1>8, <1>9, <1>10, <1>11, Zenon

LEMMA EndCommit ==
  ASSUME LInv, NEW p \in Procs, end_commit(p)
  PROVE  LInv'
<1>. USE DEF LInv
<1>1. /\ pc' \in [Procs -> Points] /\ Active' = Active \ {p}
      /\ \A q \in Procs : q # p => \/ pc'[q] = pc[q]
                                   \/ pc[q] = "sleep" /\ pc'[q] = "begin_op"
      /\ pc'[p] = "idle"
      /\ \A q \in Procs : pc'[q] # "sleep"
  BY WokenMoves, Zenon DEF end_commit
<1>2. Active' = Active /\ Active = {} /\ committing
  BY <1>1, Zenon DEF end_commit, OpInv
<1>3. Entries' = Entries
  BY <1>2, Zenon DEF Entries, end_commit, opVars
<1>4. LogTypeOK'
  BY <1>1, Zenon DEF end_commit, LogTypeOK, Slots, Committing, Recovering, diskVars, opVars, Points
<1>5. OpInv'
  <2>1. \A q \in Procs : pc'[q] # "commit"
    BY <1>1, SMTT(30) DEF end_commit, OpInv
  <2>2. held' = held /\ \A q \in Procs : held'[q] # NoBlock <=> pc'[q] \in {"log_write", "log_append"}
    BY <1>1, Zenon DEF OpInv, end_commit, opVars
  <2>. QED  BY <1>2, <2>1, <2>2, Zenon DEF end_commit, OpInv, Recovering, Committing
<1>6. SpaceInv' /\ CacheInv' /\ DiskInv'
  BY <1>2, <1>3, Zenon DEF end_commit, SpaceInv, CacheInv, DiskInv, diskVars, opVars
<1>7. WaitInv'
  BY <1>1, Zenon DEF end_commit, WaitInv, NoMissedLogWakeup, NoLogPanic
<1>. QED  BY <1>4, <1>5, <1>6, <1>7, Zenon

-----------------------------------------------------------------------------
(* The steps of commit() and of recovery, which leave the operations alone. *)

LEMMA OpsAlone ==
  ASSUME UNCHANGED <<pc, opVars>>
  PROVE  Active' = Active /\ Entries' = Entries
BY Zenon DEF Active, Entries, opVars

LEMMA NobodyActive ==
  ASSUME LogTypeOK, OpInv, committing \/ phase \in Recovering
  PROVE  /\ Active = {} /\ outstanding = 0
         /\ Entries = {} /\ Cardinality(Entries) = 0
<1>1. Active = {}
  BY Zenon DEF OpInv, Active
<1>2. Entries = {}
  BY <1>1, Zenon DEF Entries, EntriesOf
<1>. QED  BY <1>1, <1>2, FS_EmptySet, Zenon DEF OpInv

LEMMA WriteLog ==
  ASSUME LInv, write_log
  PROVE  LInv'
<1>. USE DEF LInv
<1>1. /\ tail \in 1..Len(lh) /\ tail \in Slots /\ lh[tail] \in Blocks
      /\ Len(lh) \in Nat /\ Len(lh) <= LOGSIZE
  BY LogAssumption, SMTT(30) DEF write_log, DiskInv, SpaceInv, LogTypeOK, Slots
<1>2. phase = "write_log" /\ phase' \in {"write_log", "write_head"} /\ tail' \in Nat \ {0}
  BY SMTT(30) DEF write_log, LogTypeOK
<1>3. LogTypeOK'
  <2>1. dlog' \in [Slots -> Data]
    BY <1>1, Zenon DEF write_log, LogTypeOK
  <2>. QED  BY <1>2, <2>1, Zenon DEF write_log, LogTypeOK, Slots, Points, Committing, Recovering, logVars, opVars
<1>4. OpInv'
  BY <1>2, OpsAlone, Zenon DEF write_log, OpInv, Committing, Recovering, logVars, opVars
<1>5. SpaceInv'
  BY OpsAlone, Zenon DEF write_log, SpaceInv, logVars, opVars
<1>6. CacheInv'
  BY <1>2, Zenon DEF write_log, CacheInv, Recovering, logVars, opVars
<1>7. DiskInv'
  <2>1. \A i \in 1..tail : dlog'[i] = cache[lh[i]]
    BY <1>1, <1>2, SMTT(30) DEF write_log, DiskInv, LogTypeOK, Slots
  <2>2. /\ dhead' = <<>> /\ lh' = lh /\ cache' = cache /\ disk' = disk
    BY <1>2, Zenon DEF write_log, DiskInv, logVars
  <2>3. CASE tail < Len(lh)
    <3>1. phase' = "write_log" /\ tail' = tail + 1
      BY <1>2, <2>3 DEF write_log, LogTypeOK
    <3>2. tail' <= Len(lh) /\ tail' - 1 = tail
      BY <1>1, <2>3, <3>1, SMTT(30)
    <3>. QED  BY <2>1, <2>2, <3>1, <3>2, Zenon DEF DiskInv
  <2>4. CASE tail = Len(lh)
    <3>1. phase' = "write_head" /\ tail' = 1
      BY <1>1, <2>4 DEF write_log
    <3>. QED  BY <2>1, <2>2, <2>4, <3>1, Zenon DEF DiskInv
  <2>. QED  BY <2>3, <2>4, Zenon DEF write_log
<1>8. WaitInv'
  BY OpsAlone, Zenon DEF write_log, WaitInv, NoMissedLogWakeup, NoLogPanic, NoRoom, logVars
<1>. QED  BY <1>3, <1>4, <1>5, <1>6, <1>7, <1>8, Zenon

LEMMA WriteHead ==
  ASSUME LInv, write_head
  PROVE  LInv'
<1>. USE DEF LInv
<1>1. phase = "write_head" /\ phase' = "install" /\ tail' = 1 /\ tail = 1
  BY Zenon DEF write_head, DiskInv
<1>2. LogTypeOK'
  BY <1>1, Zenon DEF write_head, LogTypeOK, Slots, Points, Committing, Recovering, logVars, opVars
<1>3. OpInv'
  BY <1>1, OpsAlone, Zenon DEF write_head, OpInv, Committing, Recovering, logVars, opVars
<1>4. SpaceInv'
  BY OpsAlone, Zenon DEF write_head, SpaceInv, logVars, opVars
<1>5. CacheInv'
  BY <1>1, Zenon DEF write_head, CacheInv, Recovering, logVars, opVars, Elems
<1>6. DiskInv'
  BY <1>1 DEF write_head, DiskInv, LogTypeOK, logVars
<1>7. WaitInv'
  BY OpsAlone, Zenon DEF write_head, WaitInv, NoMissedLogWakeup, NoLogPanic, NoRoom, logVars
<1>. QED  BY <1>2, <1>3, <1>4, <1>5, <1>6, <1>7, Zenon

(* install_trans() copies one block to its home ... *)
LEMMA InstallOne ==
  ASSUME LInv, install_trans, MoreToInstall
  PROVE  LInv'
<1>. USE DEF LInv
<1>0. /\ disk' = [disk EXCEPT ![lh[tail]] = dlog[tail]]
      /\ cache' = [cache EXCEPT ![lh[tail]] = dlog[tail]]
      /\ dirty' = dirty \ {lh[tail]}
      /\ tail' = tail + 1
      /\ phase \in {"install", "reinstall"} /\ phase' = phase
      /\ UNCHANGED <<dlog, dhead, lh, outstanding, committing, pc, held, wrote, panicked>>
  BY Zenon DEF install_trans, logVars, opVars
<1>1. /\ tail \in 1..Len(lh) /\ tail \in Slots /\ lh[tail] \in Blocks /\ dlog[tail] \in Data
      /\ Len(lh) \in Nat
  BY <1>0, LogAssumption, SMTT(30) DEF MoreToInstall, SpaceInv, LogTypeOK, Slots
<1>2. LogTypeOK'
  <2>1. disk' \in [Blocks -> Data] /\ cache' \in [Blocks -> Data]
    BY <1>0, <1>1, Zenon DEF LogTypeOK
  <2>2. tail' \in Nat \ {0}
    BY <1>0, <1>1, SMTT(30)
  <2>. QED  BY <1>0, <2>1, <2>2, Zenon DEF LogTypeOK, Slots, Points, Committing, Recovering
<1>3. OpInv'
  BY <1>0, OpsAlone, Zenon DEF OpInv, Committing, Recovering, opVars
<1>4. SpaceInv'
  BY <1>0, OpsAlone, Zenon DEF SpaceInv, opVars
<1>5. \A i \in 1..Len(lh) : i # tail => lh[i] # lh[tail]
  BY <1>1, Zenon DEF CacheInv, Distinct
<1>6. CacheInv'
  <2>1. \A b \in Blocks : b \in dirty' \/ cache'[b] = disk'[b] \/ \E q \in Procs : held'[q] = b
    BY <1>0, <1>1, Zenon DEF CacheInv, LogTypeOK
  <2>2. phase' = "install" => \A b \in dirty' : \E i \in tail'..Len(lh') : lh'[i] = b
    <3>. SUFFICES ASSUME phase = "install", NEW b \in dirty, b # lh[tail]
                  PROVE  \E i \in tail + 1..Len(lh) : lh[i] = b
      BY <1>0, Zenon
    <3>1. PICK i \in tail..Len(lh) : lh[i] = b
      BY Zenon DEF CacheInv
    <3>. QED  BY <1>1, <3>1
  <2>. QED  BY <1>0, <2>1, <2>2, Zenon DEF CacheInv, Recovering
<1>7. DiskInv'
  <2>1. \A i \in 1..tail : disk'[lh[i]] = dlog[i]
    <3>. SUFFICES ASSUME NEW i \in 1..tail PROVE disk'[lh[i]] = dlog[i]
      BY Zenon
    <3>1. i \in 1..Len(lh) /\ lh[i] \in Blocks
      BY <1>1 DEF LogTypeOK
    <3>2. CASE i = tail
      BY <1>0, <1>1, <3>2, Zenon DEF LogTypeOK
    <3>3. CASE i # tail
      <4>1. i \in 1..tail - 1 /\ lh[i] # lh[tail]
        BY <1>1, <1>5, <3>1, <3>3, SMTT(30)
      <4>. QED  BY <1>0, <1>1, <3>1, <4>1, Zenon DEF DiskInv, LogTypeOK
    <3>. QED  BY <3>2, <3>3, Zenon
  <2>2. phase = "install" => \A i \in 1..Len(lh) : dlog[i] = cache'[lh[i]]
    <3>. SUFFICES ASSUME phase = "install", NEW i \in 1..Len(lh) PROVE dlog[i] = cache'[lh[i]]
      BY Zenon
    <3>1. lh[i] \in Blocks /\ dlog[i] = cache[lh[i]]
      BY DEF DiskInv, LogTypeOK
    <3>. QED  BY <1>0, <1>1, <1>5, <3>1, Zenon DEF LogTypeOK
  <2>3. tail' <= Len(lh) + 1 /\ tail' - 1 = tail
    BY <1>0, <1>1
  <2>. QED  BY <1>0, <2>1, <2>2, <2>3, SMTT(30) DEF DiskInv
<1>8. WaitInv'
  BY <1>0, OpsAlone, Zenon DEF WaitInv, NoMissedLogWakeup, NoLogPanic, NoRoom, opVars
<1>. QED  BY <1>2, <1>3, <1>4, <1>6, <1>7, <1>8, Zenon

(* ... until all of them are there. *)
LEMMA InstallDone ==
  ASSUME LInv, install_trans, ~MoreToInstall
  PROVE  LInv'
<1>. USE DEF LInv
<1>0. /\ phase \in {"install", "reinstall"} /\ tail' = 1
      /\ phase' = IF phase = "install" THEN "clear" ELSE "reclear"
      /\ UNCHANGED <<disk, dlog, dhead, cache, dirty, lh, outstanding, committing, pc, held,
                     wrote, panicked>>
  BY Zenon DEF install_trans, logVars, opVars
<1>1. tail = Len(lh) + 1 /\ Len(lh) \in Nat
  BY <1>0, SMTT(30) DEF MoreToInstall, DiskInv, LogTypeOK
<1>2. LogTypeOK'
  BY <1>0, SMTT(30) DEF LogTypeOK, Slots, Points, Committing, Recovering
<1>3. OpInv'
  BY <1>0, OpsAlone, Zenon DEF OpInv, Committing, Recovering, opVars
<1>4. SpaceInv'
  BY <1>0, OpsAlone, Zenon DEF SpaceInv, opVars
<1>5. dirty = {}
  <2>1. \A i \in tail..Len(lh) : FALSE
    BY <1>1
  <2>2. CASE phase = "install"
    BY <2>1, <2>2, Zenon DEF CacheInv
  <2>3. CASE phase = "reinstall"
    BY <2>3, Zenon DEF CacheInv, Recovering
  <2>. QED  BY <1>0, <2>2, <2>3, Zenon
<1>6. CacheInv'
  BY <1>0, <1>5, Zenon DEF CacheInv, Recovering
<1>7. DiskInv'
  BY <1>0, <1>1 DEF DiskInv
<1>8. WaitInv'
  BY <1>0, OpsAlone, Zenon DEF WaitInv, NoMissedLogWakeup, NoLogPanic, NoRoom, opVars
<1>. QED  BY <1>2, <1>3, <1>4, <1>6, <1>7, <1>8, Zenon

LEMMA Clear ==
  ASSUME LInv, clear
  PROVE  LInv'
<1>. USE DEF LInv
<1>0. /\ phase \in {"clear", "reclear"} /\ phase' = "none" /\ lh' = <<>> /\ dhead' = <<>>
      /\ UNCHANGED <<disk, dlog, cache, dirty, outstanding, committing, pc, held, wrote, tail, panicked>>
  BY Zenon DEF clear, opVars
<1>1. /\ Active = {} /\ outstanding = 0 /\ Entries = {} /\ Cardinality(Entries) = 0
      /\ Active' = Active /\ Entries' = Entries
      /\ dirty = {}
  BY <1>0, NobodyActive, OpsAlone, Zenon DEF OpInv, CacheInv, Committing, Recovering, opVars
<1>2. LogTypeOK'
  BY <1>0, SMTT(30) DEF LogTypeOK, Slots, Points, Committing, Recovering
<1>3. OpInv'
  BY <1>0, <1>1, Zenon DEF OpInv, Committing, Recovering
<1>4. SpaceInv'
  <2>1. /\ outstanding' * MAXOPBLOCKS = 0 /\ LOGSIZE \in Nat
        /\ Len(lh') = 0 /\ Len(dhead') = 0 /\ Cardinality(Entries') = 0
    BY <1>0, <1>1, LogAssumption
  <2>2. /\ Len(lh') + outstanding' * MAXOPBLOCKS <= LOGSIZE + Cardinality(Entries')
        /\ Len(lh') <= LOGSIZE /\ Len(dhead') <= LOGSIZE
    BY ONLY <2>1, SMTT(30)
  <2>. QED  BY <1>1, <2>2, Zenon DEF SpaceInv
<1>5. CacheInv'
  BY <1>0, <1>1, SMTT(30) DEF CacheInv, Distinct, Recovering
<1>6. DiskInv'
  BY <1>0, Zenon DEF DiskInv
<1>7. WaitInv'
  <2>1. CASE phase = "clear"
    BY <1>0, <2>1, Zenon DEF WaitInv, NoMissedLogWakeup, NoLogPanic, NoRoom, OpInv, Committing
  <2>2. CASE phase = "reclear"
    BY <1>0, <2>2, Zenon DEF WaitInv, NoMissedLogWakeup, NoLogPanic, OpInv, Recovering
  <2>. QED  BY <1>0, <2>1, <2>2, Zenon
<1>. QED  BY <1>2, <1>3, <1>4, <1>5, <1>6, <1>7, Zenon

LEMMA CrashStep ==
  ASSUME LInv, crash
  PROVE  LInv'
<1>. USE DEF LInv
<1>1. Active' = {}
  BY Zenon DEF crash, Active
<1>2. Entries' = {}
  BY <1>1, Zenon DEF Entries, EntriesOf
<1>3. LogTypeOK'
  <2>1. pc' \in [Procs -> Points] /\ held' \in [Procs -> Blocks \cup {NoBlock}]
    BY Zenon DEF crash, Points
  <2>2. wrote' \in [Procs -> SUBSET Blocks] /\ lh' \in Seq(Blocks) /\ tail' \in Nat \ {0}
    BY SMTT(30) DEF crash
  <2>. QED  BY <2>1, <2>2, Zenon DEF crash, LogTypeOK, Slots, Points, Committing, Recovering, diskVars
<1>4. OpInv'
  BY <1>1, FS_EmptySet, Zenon DEF crash, OpInv, Committing, Recovering
<1>5. SpaceInv'
  <2>1. Cardinality(Entries') = 0
    BY <1>2, FS_EmptySet, Zenon
  <2>2. /\ outstanding' * MAXOPBLOCKS = 0 /\ LOGSIZE \in Nat
        /\ Len(lh') = 0 /\ dhead' = dhead
    BY LogAssumption DEF crash, diskVars
  <2>3. /\ Len(lh') + outstanding' * MAXOPBLOCKS <= LOGSIZE + Cardinality(Entries')
        /\ Len(lh') <= LOGSIZE
    BY ONLY <2>1, <2>2
  <2>4. Len(dhead') <= LOGSIZE
    BY <2>2, Zenon DEF SpaceInv
  <2>. QED  BY <1>1, <2>3, <2>4, Zenon DEF SpaceInv
<1>6. CacheInv'
  BY SMTT(30) DEF crash, CacheInv, Distinct, Recovering, diskVars
<1>7. DiskInv'
  BY Zenon DEF crash, DiskInv
<1>8. WaitInv'
  BY Zenon DEF crash, WaitInv, NoMissedLogWakeup, NoLogPanic
<1>. QED  BY <1>3, <1>4, <1>5, <1>6, <1>7, <1>8, Zenon

LEMMA ReadHead ==
  ASSUME LInv, read_head
  PROVE  LInv'
<1>. USE DEF LInv
<1>0. /\ phase = "read_head" /\ phase' = "reinstall" /\ lh' = dhead /\ tail = 1
      /\ UNCHANGED <<disk, dlog, dhead, cache, dirty, outstanding, committing, pc, held, wrote,
                     tail, panicked>>
  BY Zenon DEF read_head, DiskInv, diskVars, opVars
<1>1. /\ Active = {} /\ outstanding = 0 /\ Entries = {} /\ Cardinality(Entries) = 0
      /\ Active' = Active /\ Entries' = Entries
      /\ dirty = {}
  BY <1>0, NobodyActive, OpsAlone, Zenon DEF CacheInv, Recovering, opVars
<1>2. LogTypeOK'
  BY <1>0, Zenon DEF LogTypeOK, Slots, Points, Committing, Recovering
<1>3. OpInv'
  BY <1>0, <1>1, Zenon DEF OpInv, Committing, Recovering
<1>4. SpaceInv'
  BY <1>0, <1>1, LogAssumption, SMTT(30) DEF SpaceInv, LogTypeOK
<1>5. CacheInv'
  BY <1>0, <1>1, Zenon DEF CacheInv, Recovering
<1>6. DiskInv'
  BY <1>0 DEF DiskInv, LogTypeOK
<1>7. WaitInv'
  BY <1>0, Zenon DEF WaitInv, NoMissedLogWakeup, NoLogPanic, OpInv, Recovering
<1>. QED  BY <1>2, <1>3, <1>4, <1>5, <1>6, <1>7, Zenon

LEMMA Stutter ==
  ASSUME LInv, UNCHANGED vars
  PROVE  LInv'
<1>1. UNCHANGED <<disk, dlog, dhead, cache, dirty, lh, outstanding, committing, pc, held, wrote,
                  phase, tail, panicked>>
  BY Zenon DEF vars, diskVars, logVars, opVars
<1>2. Active' = Active /\ Entries' = Entries
  BY <1>1, OpsAlone, Zenon DEF opVars
<1>3. LogTypeOK' /\ CacheInv' /\ DiskInv'
  BY <1>1, SMTT(30) DEF LInv, LogTypeOK, CacheInv, DiskInv
<1>4. OpInv' /\ SpaceInv' /\ WaitInv'
  BY <1>1, <1>2, Zenon DEF LInv, OpInv, SpaceInv, WaitInv, NoMissedLogWakeup, NoLogPanic, NoRoom
<1>. QED  BY <1>3, <1>4, Zenon DEF LInv

LEMMA NextLInv == LInv /\ [Next]_vars => LInv'
<1>. SUFFICES ASSUME LInv, [Next]_vars PROVE LInv'
  BY Zenon
<1>1. ASSUME NEW p \in Procs, begin_op(p) PROVE LInv'
  BY <1>1, BeginOp, Zenon
<1>2. ASSUME NEW p \in Procs, spurious(p) PROVE LInv'
  BY <1>2, Spurious, Zenon
<1>3. ASSUME NEW p \in Procs, NEW b \in Blocks, NEW v \in Data, modify(p, b, v) PROVE LInv'
  BY <1>3, Modify, Zenon
<1>4. ASSUME NEW p \in Procs, log_write(p) PROVE LInv'
  BY <1>4, LogWrite, Zenon
<1>5. ASSUME NEW p \in Procs, log_append(p) PROVE LInv'
  BY <1>5, LogAppend, Zenon
<1>6. ASSUME NEW p \in Procs, end_op(p) PROVE LInv'
  BY <1>6, EndOp, Zenon
<1>7. ASSUME NEW p \in Procs, end_commit(p) PROVE LInv'
  BY <1>7, EndCommit, Zenon
<1>8. ASSUME NEW b \in Blocks, evict(b) PROVE LInv'
  BY <1>8, Evict, Zenon
<1>9. CASE install_trans
  BY <1>9, InstallOne, InstallDone, Zenon
<1>10. CASE write_log \/ write_head \/ clear \/ read_head \/ crash
  BY <1>10, WriteLog, WriteHead, Clear, ReadHead, CrashStep, Zenon
<1>11. CASE UNCHANGED vars
  BY <1>11, Stutter, Zenon
<1>. QED  BY <1>1, <1>2, <1>3, <1>4, <1>5, <1>6, <1>7, <1>8, <1>9, <1>10, <1>11, Zenon DEF Next

(* The inductive invariant of the log (log.c) holds throughout. *)
THEOREM LogInvariance == Spec => []LInv
BY InitLInv, NextLInv, PTL DEF Spec

(* A process that sleeps in begin_op() has somebody to wait for, whatever  *)
(* the interleaving of operations, wakeups, commits and crashes.           *)
THEOREM LogNoMissedWakeup == Spec => []NoMissedLogWakeup
<1>1. LInv => NoMissedLogWakeup
  BY Zenon DEF LInv, WaitInv
<1>. QED  BY <1>1, LogInvariance, PTL

(* The panics of log_write() and end_op() are never reached: the blocks    *)
(* that begin_op() sets aside suffice.                                     *)
THEOREM LogNeverPanics == Spec => []NoLogPanic
<1>1. LInv => NoLogPanic
  BY Zenon DEF LInv, WaitInv
<1>. QED  BY <1>1, LogInvariance, PTL

(* While no operation and no commit is under way, recovery would bring     *)
(* back what the cache shows.                                              *)
THEOREM LogDurable == Spec => []DurableWhenIdle
<1>1. LInv => DurableWhenIdle
  <2>. SUFFICES ASSUME LInv, phase = "none", outstanding = 0, ~committing
                PROVE  Recovered = cache
    BY Zenon DEF DurableWhenIdle
  <2>. USE DEF LInv
  <2>1. Active = {}
    BY ActiveFinite, Zenon DEF OpInv
  <2>2. lh = <<>> /\ dhead = <<>> /\ \A p \in Procs : held[p] = NoBlock
    BY <2>1, Zenon DEF OpInv, DiskInv, Active
  <2>3. dirty = {} /\ \A b \in Blocks : cache[b] = disk[b]
    BY <2>2, LogAssumption DEF CacheInv, Elems
  <2>4. \A b \in Blocks : ~InLog(b)
    BY <2>2 DEF InLog, Elems
  <2>. QED  BY <2>3, <2>4, Zenon DEF Recovered, LogTypeOK
<1>. QED  BY <1>1, LogInvariance, PTL

-----------------------------------------------------------------------------
(* Refinement: every step of the log is a step of AtomicDisk, or none.     *)

View == IF Running THEN cache ELSE Recovered
AbsStep == [Atomic!AbsNext]_(Atomic!absVars)

LEMMA SameAbs ==
  ASSUME Recovered' = Recovered, View' = View, Active' = Active
  PROVE  AbsStep
BY Zenon DEF AbsStep, Atomic!absVars, View

LEMMA SameDisk ==
  ASSUME UNCHANGED diskVars
  PROVE  Recovered' = Recovered
BY Zenon DEF diskVars, Recovered, InLog

LEMMA RunningView ==
  ASSUME Running, Running', cache' = cache
  PROVE  View' = View
BY Zenon DEF View

(* A block that a header names is in one slot of it. *)
LEMMA SlotOf ==
  ASSUME NEW h \in Seq(Blocks), NEW b \in Elems(h)
  PROVE  LogSlot(h, b) \in 1..Len(h) /\ h[LogSlot(h, b)] = b
<1>1. \E i \in 1..Len(h) : h[i] = b
  BY Zenon DEF Elems
<1>. QED  BY <1>1, Zenon DEF LogSlot

(* What recovery reads while the header on disk is empty, and once it is   *)
(* the one in memory.                                                      *)
LEMMA RecoveredEmpty ==
  ASSUME LogTypeOK, dhead = <<>>
  PROVE  Recovered = disk
<1>1. \A b \in Blocks : ~InLog(b)
  BY SMTT(30) DEF InLog, Elems
<1>. QED  BY <1>1, Zenon DEF Recovered, LogTypeOK

(* Between operations the blocks outside the header are clean. *)
LEMMA CleanOutside ==
  ASSUME LInv, Active = {}, NEW b \in Blocks, b \notin Elems(lh)
  PROVE  cache[b] = disk[b]
<1>1. \A p \in Procs : held[p] = NoBlock
  BY Zenon DEF LInv, OpInv, Active
<1>. QED  BY <1>1, LogAssumption, Zenon DEF LInv, CacheInv

LEMMA AbsWriteHead ==
  ASSUME LInv, write_head
  PROVE  AbsStep
<1>. USE DEF LInv
<1>1. /\ phase = "write_head" /\ phase' = "install" /\ Active = {} /\ Active' = Active
      /\ dhead' = lh /\ UNCHANGED <<disk, dlog, cache, lh>>
  BY OpsAlone, Zenon DEF write_head, OpInv, Committing, logVars, opVars
<1>2. \A b \in Blocks : (IF InLog(b)' THEN dlog'[LogSlot(dhead', b)] ELSE disk'[b]) = cache[b]
  <2>. SUFFICES ASSUME NEW b \in Blocks
                PROVE  (IF b \in Elems(lh) THEN dlog[LogSlot(lh, b)] ELSE disk[b]) = cache[b]
    BY <1>1, Zenon DEF InLog
  <2>1. CASE b \in Elems(lh)
    <3>1. LogSlot(lh, b) \in 1..Len(lh) /\ lh[LogSlot(lh, b)] = b
      BY <2>1, SlotOf, Zenon DEF LogTypeOK
    <3>2. \A i \in 1..Len(lh) : dlog[i] = cache[lh[i]]
      BY <1>1, Zenon DEF DiskInv
    <3>3. dlog[LogSlot(lh, b)] = cache[b]
      BY <3>1, <3>2, Zenon
    <3>. QED  BY <2>1, <3>3, Zenon
  <2>2. CASE b \notin Elems(lh)
    BY <1>1, <2>2, CleanOutside, Zenon
  <2>. QED  BY <2>1, <2>2, Zenon
<1>3. Recovered' = cache
  BY <1>2, Zenon DEF Recovered, LogTypeOK
<1>. QED  BY <1>1, <1>3, Zenon DEF AbsStep, Atomic!AbsNext, Atomic!Commit, Running

LEMMA AbsInstall ==
  ASSUME LInv, install_trans
  PROVE  AbsStep
<1>. USE DEF LInv
<1>1. /\ phase \in {"install", "reinstall"} /\ dhead = lh /\ Active' = Active
      /\ UNCHANGED <<dlog, dhead, lh>>
  BY OpsAlone, Zenon DEF install_trans, DiskInv, logVars, opVars
<1>2. CASE MoreToInstall
  <2>1. /\ disk' = [disk EXCEPT ![lh[tail]] = dlog[tail]]
        /\ cache' = [cache EXCEPT ![lh[tail]] = dlog[tail]]
        /\ phase' = phase
    BY <1>2, Zenon DEF install_trans
  <2>2. tail \in 1..Len(lh) /\ lh[tail] \in Blocks /\ lh[tail] \in Elems(lh)
    BY <1>2, SMTT(30) DEF MoreToInstall, LogTypeOK, Elems
  <2>3. \A b \in Blocks : b \notin Elems(lh) => disk'[b] = disk[b]
    BY <2>1, <2>2, Zenon DEF LogTypeOK
  <2>4. Recovered' = Recovered
    BY <1>1, <2>3, Zenon DEF Recovered, InLog
  <2>5. CASE phase = "install"
    <3>1. dlog[tail] = cache[lh[tail]]
      BY <2>2, <2>5, Zenon DEF DiskInv
    <3>2. cache' = cache
      BY <2>1, <2>2, <3>1, Zenon DEF LogTypeOK
    <3>. QED  BY <1>1, <2>1, <2>4, <2>5, <3>2, RunningView, SameAbs, Zenon DEF Running
  <2>6. CASE phase = "reinstall"
    <3>1. ~Running /\ ~Running'
      BY <2>1, <2>6, Zenon DEF Running
    <3>2. View' = View
      BY <3>1, <2>4, Zenon DEF View
    <3>. QED  BY <1>1, <2>4, <3>2, SameAbs, Zenon
  <2>. QED  BY <1>1, <2>5, <2>6, Zenon
<1>3. CASE ~MoreToInstall
  <2>1. /\ UNCHANGED <<disk, cache>>
        /\ phase' = IF phase = "install" THEN "clear" ELSE "reclear"
    BY <1>3, Zenon DEF install_trans
  <2>2. Recovered' = Recovered
    BY <1>1, <2>1, SameDisk, Zenon DEF diskVars
  <2>3. View' = View
    BY <1>1, <2>1, <2>2, Zenon DEF View, Running
  <2>. QED  BY <1>1, <2>2, <2>3, SameAbs, Zenon
<1>. QED  BY <1>2, <1>3, Zenon

LEMMA AbsClear ==
  ASSUME LInv, LInv', clear
  PROVE  AbsStep
<1>. USE DEF LInv
<1>1. /\ phase \in {"clear", "reclear"} /\ phase' = "none" /\ dhead = lh /\ dhead' = <<>>
      /\ UNCHANGED <<disk, cache>> /\ Active' = Active /\ Active = {}
  BY OpsAlone, NobodyActive, Zenon DEF clear, DiskInv, OpInv, Committing, Recovering, opVars
<1>2. Recovered = disk
  <2>1. \A b \in Blocks : InLog(b) => dlog[LogSlot(dhead, b)] = disk[b]
    <3>. SUFFICES ASSUME NEW b \in Elems(lh) PROVE dlog[LogSlot(lh, b)] = disk[b]
      BY <1>1, Zenon DEF InLog
    <3>1. LogSlot(lh, b) \in 1..Len(lh) /\ lh[LogSlot(lh, b)] = b
      BY SlotOf, Zenon DEF LogTypeOK
    <3>2. \A i \in 1..Len(lh) : disk[lh[i]] = dlog[i]
      BY <1>1, Zenon DEF DiskInv
    <3>. QED  BY <3>1, <3>2, Zenon
  <2>. QED  BY <2>1, Zenon DEF Recovered, LogTypeOK
<1>3. Recovered' = disk
  <2>1. \A b \in Blocks : ~InLog(b)'
    BY <1>1 DEF InLog, Elems
  <2>. QED  BY <1>1, <2>1, Zenon DEF Recovered, LogTypeOK
<1>4. View' = View
  <2>1. CASE phase = "clear"
    BY <1>1, <2>1, RunningView, Zenon DEF Running
  <2>2. CASE phase = "reclear"
    <3>1. \A b \in Blocks : cache[b] = disk[b]
      <4>1. dirty = {} /\ \A p \in Procs : held[p] = NoBlock
        BY <1>1, <2>2, Zenon DEF CacheInv, OpInv, Active, Recovering
      <4>2. \A b \in Blocks : b # NoBlock
        BY LogAssumption, Zenon
      <4>3. \A b \in Blocks : b \in dirty \/ cache[b] = disk[b] \/ \E p \in Procs : held[p] = b
        BY Zenon DEF CacheInv
      <4>. QED  BY <4>1, <4>2, <4>3, Zenon
    <3>2. cache = disk
      BY <3>1 DEF LogTypeOK
    <3>. QED  BY <1>1, <1>2, <2>2, <3>2, Zenon DEF View, Running
  <2>. QED  BY <1>1, <2>1, <2>2, Zenon
<1>. QED  BY <1>1, <1>2, <1>3, <1>4, SameAbs, Zenon

(* The steps of the operations. *)
LEMMA AbsOperation ==
  ASSUME LInv, NEW p \in Procs, UNCHANGED diskVars
  PROVE  /\ begin_op(p) => AbsStep
         /\ end_op(p) => AbsStep
         /\ \A b \in Blocks, v \in Data : modify(p, b, v) => AbsStep
         /\ spurious(p) \/ log_write(p) \/ log_append(p) \/ end_commit(p) => AbsStep
<1>. USE DEF LInv
<1>0. Recovered' = Recovered
  BY SameDisk, Zenon
<1>1. ASSUME begin_op(p) PROVE AbsStep
  <2>1. Running /\ Running' /\ cache' = cache /\ p \notin Active
    BY <1>1, Zenon DEF begin_op, Running, Active
  <2>2. View' = View
    BY <2>1, RunningView, Zenon
  <2>3. CASE Goto(p, "sleep")
    BY <1>0, <2>1, <2>2, <2>3, ActiveMoves, SameAbs, Zenon DEF Points
  <2>4. CASE Goto(p, "op")
    <3>1. Active' = Active \cup {p}
      BY <2>4, ActiveMoves, Zenon DEF Points
    <3>. QED  BY <1>0, <2>2, <3>1, Zenon DEF AbsStep, Atomic!AbsNext, Atomic!Begin, View
  <2>. QED  BY <1>1, <2>3, <2>4, Zenon DEF begin_op
<1>2. ASSUME end_op(p) PROVE AbsStep
  <2>0. p \in Active
    BY <1>2, Zenon DEF end_op, Active
  <2>1. phase = "none" /\ ~committing
    BY <2>0, QuietWhenActive, Zenon
  <2>2. Running /\ Running' /\ cache' = cache
    BY <1>2, <2>1, Zenon DEF end_op, Running
  <2>3. Active' = Active \ {p}
    <3>1. CASE Goto(p, "commit")
      BY <3>1, ActiveMoves, Zenon DEF Points
    <3>2. CASE pc' = [Woken EXCEPT ![p] = "idle"]
      BY <3>2, WokenMoves, Zenon
    <3>. QED  BY <1>2, <2>1, <3>1, <3>2, Zenon DEF end_op
  <2>4. View' = View
    BY <2>2, RunningView, Zenon
  <2>. QED  BY <1>0, <2>0, <2>3, <2>4, Zenon DEF AbsStep, Atomic!AbsNext, Atomic!End, View
<1>3. ASSUME NEW b \in Blocks, NEW v \in Data, modify(p, b, v) PROVE AbsStep
  <2>0. p \in Active
    BY <1>3, Zenon DEF modify, Active
  <2>1. Running /\ Running'
    BY <1>3, <2>0, QuietWhenActive, Zenon DEF modify, Running
  <2>2. Active' = Active
    BY <1>3, <2>0, ActiveMoves DEF modify, Points
  <2>3. View' = [View EXCEPT ![b] = v]
    BY <1>3, <2>1, Zenon DEF modify, View
  <2>. QED  BY <1>0, <2>0, <2>2, <2>3, Zenon DEF AbsStep, Atomic!AbsNext, Atomic!Update, View
<1>4. ASSUME spurious(p) \/ log_write(p) \/ log_append(p) \/ end_commit(p) PROVE AbsStep
  <2>1. phase' = phase /\ cache' = cache
    BY <1>4, Zenon DEF spurious, log_write, log_append, end_commit
  <2>2. View' = View
    BY <1>0, <2>1, Zenon DEF View, Running
  <2>3. Active' = Active
    <3>1. CASE spurious(p)
      BY <3>1, ActiveMoves, Zenon DEF spurious, Active, Points
    <3>2. CASE log_write(p)
      BY <3>2, ActiveMoves, Zenon DEF log_write, Active, Points
    <3>3. CASE log_append(p)
      BY <3>3, ActiveMoves, Zenon DEF log_append, Active, Points
    <3>4. CASE end_commit(p)
      BY <3>4, WokenMoves, Zenon DEF end_commit, Active
    <3>. QED  BY <1>4, <3>1, <3>2, <3>3, <3>4, Zenon
  <2>. QED  BY <1>0, <2>2, <2>3, SameAbs, Zenon
<1>. QED  BY <1>1, <1>2, <1>3, <1>4, Zenon

LEMMA AbsNextStep == LInv /\ LInv' /\ [Next]_vars => AbsStep
<1>. SUFFICES ASSUME LInv, LInv', [Next]_vars PROVE AbsStep
  BY Zenon
<1>1. ASSUME NEW p \in Procs,
             \/ begin_op(p) \/ spurious(p) \/ log_write(p) \/ log_append(p)
             \/ end_op(p) \/ end_commit(p)
             \/ \E b \in Blocks, v \in Data : modify(p, b, v)
      PROVE  AbsStep
  <2>1. UNCHANGED diskVars
    BY <1>1, Zenon DEF begin_op, spurious, log_write, log_append, end_op, end_commit, modify
  <2>. QED  BY <1>1, <2>1, AbsOperation, Zenon
<1>2. ASSUME NEW b \in Blocks, evict(b) PROVE AbsStep
  <2>1. UNCHANGED diskVars /\ phase' = phase /\ pc' = pc /\ cache' = cache
    BY <1>2, Evict, Zenon DEF evict
  <2>2. Recovered' = Recovered
    BY <2>1, SameDisk, Zenon
  <2>. QED  BY <2>1, <2>2, SameAbs, Zenon DEF View, Running, Active
<1>3. CASE write_log
  <2>1. /\ phase = "write_log" /\ phase' \in {"write_log", "write_head"}
        /\ dhead = <<>> /\ UNCHANGED <<disk, dhead, cache, pc>>
    BY <1>3, Zenon DEF write_log, LInv, DiskInv
  <2>2. Recovered = disk /\ (Recovered = disk)'
    <3>1. \A b \in Blocks : ~InLog(b) /\ ~InLog(b)'
      BY <2>1 DEF InLog, Elems
    <3>. QED  BY <2>1, <3>1, Zenon DEF Recovered, LInv, LogTypeOK
  <2>3. View' = View
    BY <2>1, RunningView, Zenon DEF Running
  <2>. QED  BY <2>1, <2>2, <2>3, SameAbs, Zenon DEF Active
<1>4. CASE write_head
  BY <1>4, AbsWriteHead, Zenon
<1>5. CASE install_trans
  BY <1>5, AbsInstall, Zenon
<1>6. CASE clear
  BY <1>6, AbsClear, Zenon
<1>7. CASE read_head
  <2>1. UNCHANGED diskVars /\ phase = "read_head" /\ phase' = "reinstall" /\ pc' = pc
    BY <1>7, Zenon DEF read_head
  <2>2. Recovered' = Recovered
    BY <2>1, SameDisk, Zenon
  <2>. QED  BY <2>1, <2>2, SameAbs, Zenon DEF View, Running, Active
<1>8. CASE crash
  <2>1. UNCHANGED diskVars /\ phase' = "read_head" /\ Active' = {}
    BY <1>8, Zenon DEF crash, Active
  <2>2. Recovered' = Recovered
    BY <2>1, SameDisk, Zenon
  <2>3. ~Running'
    BY <2>1, Zenon DEF Running
  <2>. QED  BY <2>1, <2>2, <2>3, Zenon DEF AbsStep, Atomic!AbsNext, Atomic!Crash
<1>9. CASE UNCHANGED vars
  <2>1. UNCHANGED <<diskVars, cache, phase, pc>>
    BY <1>9, Zenon DEF vars
  <2>2. Recovered' = Recovered
    BY <2>1, SameDisk, Zenon
  <2>. QED  BY <2>1, <2>2, SameAbs, Zenon DEF View, Running, Active
<1>. QED  BY <1>1, <1>2, <1>3, <1>4, <1>5, <1>6, <1>7, <1>8, <1>9, Zenon DEF Next

(* The log makes the disk atomic: whatever the interleaving of operations, *)
(* block writes, evictions, crashes and recoveries (also crashes during a  *)
(* recovery), a crash brings back the state of the last commit, and a      *)
(* commit takes all the blocks of the finished operations and no others.   *)
THEOREM LogImplementsAtomicDisk == Spec => AllOrNothing
<1>1. Init => Atomic!AbsInit
  <2>. SUFFICES ASSUME Init PROVE Atomic!AbsInit
    BY Zenon
  <2>1. LogTypeOK /\ dhead = <<>> /\ Running /\ cache = disk
    BY InitLInv, Zenon DEF Init, LInv, Running
  <2>2. Recovered = disk
    BY <2>1, RecoveredEmpty, Zenon
  <2>3. Active = {}
    BY Zenon DEF Init, Active
  <2>. QED  BY <2>1, <2>2, <2>3, Zenon DEF Atomic!AbsInit, LogTypeOK
<1>2. LInv /\ LInv' /\ [Next]_vars => [Atomic!AbsNext]_(Atomic!absVars)
  BY AbsNextStep, Zenon DEF AbsStep
<1>. QED  BY <1>1, <1>2, LogInvariance, PTL DEF Spec, AllOrNothing, Atomic!AtomicSpec
=============================================================================
