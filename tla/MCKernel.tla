------------------------------ MODULE MCKernel ------------------------------
(* Values for the constants of Kernel. *)
EXTENDS KernelInv

(* Points at which interrupts arrive. *)
UserOnly == {"user"}
UserAndExit == {"user", "exit"}
UserAndFork == {"user", "fork_copy"}
UserForkAndExit == {"user", "fork_kstack", "fork_copy", "fork_run", "exit"}

PidsAndAll == {-1} \cup 2..MaxPid

(* The program of init, and the program of every other process. *)
Programs(init, others) == [p \in Procs |-> IF p = initproc THEN init ELSE others]

FamilyOps == Programs({"fork", "exit", "wait", "kill"}, {"fork", "exit", "wait", "kill", "fault"})
SignalOps == Programs({"fork", "Kill", "wait"},
                      {"fork", "Kill", "raise", "sigblock", "sigunblock", "signal", "sleep",
                       "wait", "exit"})
HandlerOps == Programs({"fork", "Kill"}, {"signal", "exec", "sigsetmask"})
SleepOps == Programs({"fork", "Kill"}, {"sleep", "signal"})
(* init sends signals, slot 2 takes them, slot 3 is its child or its sibling. *)
LiveOps == <<{"fork", "Kill"}, {"signal", "sleep", "fork", "wait"}, {"exit"}>>
WrongTargetOps == Programs({"fork", "wait"}, {"exit", "Kill"})
ExitOps == Programs({"fork", "Kill"}, {"signal", "exit"})
=============================================================================
