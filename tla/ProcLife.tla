------------------------------ MODULE ProcLife ------------------------------
(***************************************************************************)
(* What fork, exit and wait promise, one step each and in terms of pids     *)
(* only: a process lives, becomes a zombie, and is collected by its parent; *)
(* the children of a process that exits are passed to init, pid 1.          *)
(***************************************************************************)
EXTENDS Naturals

CONSTANT Pids

VARIABLES alive, zombie,   \* sets of pids
          par              \* the pid of the parent, 0 if there is none

lifeVars == <<alive, zombie, par>>

Init ==
  /\ alive = {1}
  /\ zombie = {}
  /\ par = [v \in Pids |-> 0]

(* fork() in v has made the process w. *)
Fork(v, w) ==
  /\ v \in alive
  /\ w \notin alive \cup zombie
  /\ alive' = alive \cup {w}
  /\ par' = [par EXCEPT ![w] = v]
  /\ UNCHANGED zombie

Exit(v) ==
  /\ v \in alive \ {1}
  /\ alive' = alive \ {v}
  /\ zombie' = zombie \cup {v}
  /\ par' = [w \in Pids |-> IF par[w] = v THEN 1 ELSE par[w]]

(* wait() in v collects w. *)
Wait(v, w) ==
  /\ v \in alive
  /\ w \in zombie
  /\ par[w] = v
  /\ zombie' = zombie \ {w}
  /\ par' = [par EXCEPT ![w] = 0]
  /\ UNCHANGED alive

Next == \/ \E v, w \in Pids : Fork(v, w) \/ Wait(v, w)
        \/ \E v \in Pids : Exit(v)

Spec == Init /\ [][Next]_lifeVars
=============================================================================
