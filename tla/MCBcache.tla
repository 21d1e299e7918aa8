------------------------------ MODULE MCBcache ------------------------------
(* Who reads with a block locked, and which, in the model-checked instance of Bcache. *)
EXTENDS BcacheInv, TLC

CONSTANTS p1, p2, in1, in2, k1, k2, k3

\* Two processes, either of which may read a second block.
TwoEach == (p1 :> NoProc) @@ (p2 :> NoProc) @@ (in1 :> p1) @@ (in2 :> p2)

\* k1 is in the place of a log or an indirect block, k2 and k3 of what is read with it.
LogFirst == {<<k1, k2>>, <<k1, k3>>}
=============================================================================
