----------------------------- MODULE AtomicDisk -----------------------------
(***************************************************************************)
(* What log.c promises to the file system: operations run against a view   *)
(* of the blocks; now and then, when no operation is active, the whole     *)
(* view becomes stable in one step; a crash takes the view back to what is *)
(* stable.                                                                 *)
(***************************************************************************)
CONSTANTS Procs, Blocks, Data
VARIABLES stable,    \* block -> contents after a crash
          view,      \* block -> contents an operation reads
          active     \* the processes inside an operation

absVars == <<stable, view, active>>

AbsInit == /\ stable \in [Blocks -> Data]
           /\ view = stable
           /\ active = {}

Begin(p) == /\ active' = active \cup {p}
            /\ UNCHANGED <<stable, view>>

Update(b, v) == /\ active # {}
                /\ view' = [view EXCEPT ![b] = v]
                /\ UNCHANGED <<stable, active>>

End(p) == /\ p \in active
          /\ active' = active \ {p}
          /\ UNCHANGED <<stable, view>>

Commit == /\ active = {}
          /\ stable' = view
          /\ UNCHANGED <<view, active>>

Crash == /\ view' = stable
         /\ active' = {}
         /\ UNCHANGED stable

AbsNext == \/ \E p \in Procs : Begin(p) \/ End(p)
           \/ \E b \in Blocks, v \in Data : Update(b, v)
           \/ Commit
           \/ Crash

AtomicSpec == AbsInit /\ [][AbsNext]_absVars
=============================================================================
