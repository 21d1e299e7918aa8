------------------------------- MODULE Shell -------------------------------
(***************************************************************************)
(* The shell (sh.c): lines, parsed by Parse and run by runcmd() over the   *)
(* system calls of File.  A process is the list of calls its program has   *)
(* still to make; runcmd() of a command is the list that its case of the   *)
(* switch makes.  fork(), wait() and exit() are taken at their word:       *)
(* Kernel models them in full.                                             *)
(***************************************************************************)
EXTENDS File, Parse

CONSTANTS Script,       \* the lines typed
          Prog,         \* program -> the calls it makes
          Input,        \* contents of the file "in"
          BUFSIZE,      \* buffer of cat
          MaxSignals    \* bound on the calls of kill() and the SIGCONTs

VARIABLES todo,         \* process -> calls left
          parent,
          kills, conts

countVars == <<kills, conts>>
shellVars == <<todo, parent, countVars>>
vars == <<pipe, pc, killed, cur, buf, ret, fileVars, shellVars>>

initproc == 1
sh == 2
Slots == {p \in Procs : pc[p] = "unused"}

---------------------------------------------------------------------------
(* Calls.  A fork carries what its child does. *)
Exit == [op |-> "exit"]
Wait == [op |-> "wait"]
Close(fd) == [op |-> "close", fd |-> fd]
Dup(fd) == [op |-> "dup", fd |-> fd]
Open(ip, write) == [op |-> "open", ip |-> ip, write |-> write]
Pipe(left, right) == [op |-> "pipe", left |-> left, right |-> right]
Fork(child) == [op |-> "fork", child |-> child]
Run(cmd) == [op |-> "run", cmd |-> cmd]

(* The case PIPE of runcmd(), once pipe() has returned p0 and p1. *)
PipeCalls_open(p0, p1, left, right) ==
  <<Fork(<<Close(1), Dup(p1), Close(p0), Close(p1), Run(left)>>),
    Fork(<<Close(0), Dup(p0), Close(p0), Run(right)>>),
    Close(p0), Close(p1), Wait, Wait, Exit>>

PipeCalls(p0, p1, left, right) ==
  <<Fork(<<Close(1), Dup(p1), Close(p0), Close(p1), Run(left)>>),
    Fork(<<Close(0), Dup(p0), Close(p0), Close(p1), Run(right)>>),
    Close(p0), Close(p1), Wait, Wait, Exit>>

(* runcmd(), with the program that exec() runs. *)
runcmd(cmd) ==
  CASE cmd.type = "EXEC" -> IF cmd.argv # <<>> /\ cmd.argv[1] \in DOMAIN Prog
                            THEN Prog[cmd.argv[1]] \o <<Exit>> ELSE <<Exit>>
    [] cmd.type = "REDIR" -> <<Close(cmd.fd), Open(cmd.file, cmd.fd = 1), Run(cmd.cmd)>>
    [] cmd.type = "LIST" -> <<Fork(<<Run(cmd.left)>>), Wait, Run(cmd.right)>>
    [] cmd.type = "PIPE" -> <<Pipe(cmd.left, cmd.right)>>
    [] cmd.type = "BACK" -> <<Fork(<<Run(cmd.cmd)>>), Exit>>
    [] cmd = panic -> <<Exit>>

(* runcmd() never returns: what it makes of its command is all that is left. *)
Settle(calls) == IF calls # <<>> /\ Head(calls).op = "run" THEN runcmd(Head(calls).cmd) ELSE calls

(* main() after it has made sure of three descriptors: each line is parsed *)
(* and run by a child.                                                     *)
Typed == FoldLeft(LAMBDA calls, line : calls \o <<Fork(<<Run(parsecmd(line))>>), Wait>>, <<>>, Script)
         \o <<Exit>>

(* init has opened the console and started the shell. *)
Init ==
  /\ pipe = [q \in Pipes |-> NoPipe]
  /\ pc = [p \in Procs |-> IF p \in {initproc, sh} THEN "user" ELSE "unused"]
  /\ killed = [p \in Procs |-> FALSE]
  /\ cur = [p \in Procs |-> 0]
  /\ buf = [p \in Procs |-> <<>>]
  /\ ret = [p \in Procs |-> 0]
  /\ file = [f \in Files |-> IF f = 1 THEN [NoFile EXCEPT !.ref = 6, !.type = "FD_INODE", !.ip = "console",
                                                           !.readable = TRUE, !.writable = TRUE]
                             ELSE NoFile]
  /\ ofile = [p \in Procs |-> [fd \in Fds |-> IF p \in {initproc, sh} /\ fd < 3 THEN 1 ELSE 0]]
  /\ closing = [p \in Procs |-> <<>>]
  /\ ff = [p \in Procs |-> NoFile]
  /\ half = [p \in Procs |-> <<>>]
  /\ store = [ip \in Inodes |-> IF ip = "in" THEN Input ELSE <<>>]
  /\ todo = [p \in Procs |-> IF p = sh THEN <<[op |-> "three"]>> \o Typed ELSE <<>>]
  /\ parent = [p \in Procs |-> IF p = sh THEN initproc ELSE 0]
  /\ kills = 0 /\ conts = 0

---------------------------------------------------------------------------
(* One call of process p, and what its program makes of the result. *)
User(p, op) == pc[p] = "user" /\ todo[p] # <<>> /\ Head(todo[p]).op = op /\ ~killed[p]
Then(p, calls) == todo' = [todo EXCEPT ![p] = Settle(calls)]
Rest(p) == Tail(todo[p])

sh_three(p) ==
  /\ User(p, "three")
  /\ sys_open(p, "console", TRUE, TRUE)
  /\ Then(p, IF ret'[p] >= 3 THEN <<Close(ret'[p])>> \o Rest(p)
             ELSE IF ret'[p] >= 0 THEN todo[p] ELSE Rest(p))
  /\ UNCHANGED <<parent, countVars>>

sh_open(p) ==
  /\ User(p, "open")
  /\ sys_open(p, Head(todo[p]).ip, ~Head(todo[p]).write, Head(todo[p]).write)
  /\ Then(p, IF ret'[p] < 0 THEN <<Exit>> ELSE Rest(p))
  /\ UNCHANGED <<parent, countVars>>

sh_close(p) ==
  /\ User(p, "close")
  /\ sys_close(p, Head(todo[p]).fd)
  /\ Then(p, Rest(p))
  /\ UNCHANGED <<parent, countVars>>

sh_dup(p) ==
  /\ User(p, "dup")
  /\ sys_dup(p, Head(todo[p]).fd)
  /\ Then(p, Rest(p))
  /\ UNCHANGED <<parent, countVars>>

sh_pipe(p) ==
  /\ User(p, "pipe")
  /\ pc' = [pc EXCEPT ![p] = "pipealloc"]
  /\ Then(p, <<[Head(todo[p]) EXCEPT !.op = "piped"]>>)
  /\ UNCHANGED <<pipeVars, ret, fileVars, parent, countVars>>

sh_piped(p) ==
  /\ User(p, "piped")
  /\ Then(p, IF ret[p] < 0 THEN <<Exit>>
             ELSE PipeCalls(ret[p] \div NOFILE, ret[p] % NOFILE, Head(todo[p]).left, Head(todo[p]).right))
  /\ UNCHANGED <<pc, pipeVars, ret, fileVars, parent, countVars>>

(* fork1(): with no slot left, the shell gives up. *)
sh_fork(p) ==
  /\ User(p, "fork")
  /\ \/ /\ Slots = {}
        /\ Then(p, <<Exit>>)
        /\ UNCHANGED <<pc, file, ofile, parent>>
     \/ /\ Slots # {}
        /\ LET np == Min(Slots)
           IN  /\ fork_files(p, np)
               /\ pc' = [pc EXCEPT ![np] = "user"]
               /\ todo' = [todo EXCEPT ![p] = Settle(Rest(p)), ![np] = Settle(Head(todo[p]).child)]
               /\ parent' = [parent EXCEPT ![np] = p]
  /\ UNCHANGED <<pipeVars, ret, closing, ff, half, store, countVars>>

(* wait(): of one zombie, or of nobody. *)
Reap(q) == /\ pc' = [pc EXCEPT ![q] = "unused"]
           /\ parent' = [parent EXCEPT ![q] = 0]
           /\ killed' = [killed EXCEPT ![q] = FALSE]
           /\ ret' = [ret EXCEPT ![q] = 0]
           /\ cur' = [cur EXCEPT ![q] = 0]
           /\ buf' = [buf EXCEPT ![q] = <<>>]

sh_wait(p) ==
  /\ User(p, "wait")
  /\ \/ \E q \in Procs : parent[q] = p /\ pc[q] = "zombie" /\ Reap(q)
     \/ /\ \A q \in Procs : parent[q] # p
        /\ UNCHANGED <<pc, parent, killed, ret, cur, buf>>
  /\ Then(p, Rest(p))
  /\ UNCHANGED <<pipe, fileVars, countVars>>

init_wait ==
  /\ \E q \in Procs : parent[q] = initproc /\ pc[q] = "zombie" /\ Reap(q)
  /\ UNCHANGED <<pipe, fileVars, todo, countVars>>

(* cat(0) *)
cat_read(p) ==
  /\ User(p, "cat") \/ User(p, "again")
  /\ \/ Head(todo[p]).op = "again" /\ ret[p] < 0 /\ Then(p, <<Exit>>) /\ UNCHANGED <<pc, pipeVars, ret, fileVars>>
     \/ /\ Head(todo[p]).op = "cat" \/ ret[p] >= 0
        /\ sys_read(p, 0, BUFSIZE)
        /\ Then(p, <<[op |-> "got"]>>)
  /\ UNCHANGED <<parent, countVars>>

cat_write(p) ==
  /\ User(p, "got")
  /\ \/ ret[p] <= 0 /\ Then(p, <<Exit>>) /\ UNCHANGED <<pc, pipeVars, ret, fileVars>>
     \/ ret[p] > 0 /\ sys_write(p, 1) /\ Then(p, <<[op |-> "again"]>>)
  /\ UNCHANGED <<parent, countVars>>

(* exit(): closes what is open, hands its children to init. *)
exit(p) ==
  LET open == Fds \ FreeFds(p)
  IN  /\ pc[p] = "user" /\ todo[p] # <<>> /\ Head(todo[p]).op = "exit"
      /\ \/ open # {} /\ sys_close(p, Min(open)) /\ UNCHANGED <<todo, parent>>
         \/ /\ open = {}
            /\ pc' = [pc EXCEPT ![p] = "zombie"]
            /\ parent' = [q \in Procs |-> IF parent[q] = p THEN initproc ELSE parent[q]]
            /\ Then(p, <<>>)
            /\ UNCHANGED <<pipeVars, ret, fileVars>>
      /\ UNCHANGED countVars

(* trap(): a killed process exits on its way to or from user mode. *)
trap_killed(p) ==
  /\ pc[p] = "user" /\ killed[p] /\ todo[p] # <<>> /\ todo[p] # <<Exit>>
  /\ Then(p, <<Exit>>)
  /\ UNCHANGED <<pc, pipeVars, ret, fileVars, parent, countVars>>

(* kill() of a process, and SIGCONT to a sleeping one. *)
kill(p) ==
  /\ kills + conts < MaxSignals /\ pc[p] \notin {"unused", "zombie"} /\ p \notin {initproc, sh} /\ ~killed[p]
  /\ kills' = kills + 1
  /\ rouse(p, TRUE)
  /\ UNCHANGED <<fileVars, todo, parent, conts>>

sigcont(p) ==
  /\ kills + conts < MaxSignals
  /\ conts' = conts + 1
  /\ rouse(p, FALSE)
  /\ UNCHANGED <<fileVars, todo, parent, kills>>

Kernel(p) == \/ pipe_undo(p) \/ fileclose_pipe(p) \/ pipealloc_file(p) \/ pipealloc_page(p) \/ filewrite(p, 1)
             \/ (pipewrite(p) \/ piperead(p, BUFSIZE) \/ pipe_sleep(p)) /\ UNCHANGED fileVars

Step(p) == \/ Kernel(p) /\ UNCHANGED shellVars
           \/ sh_three(p) \/ sh_open(p) \/ sh_close(p) \/ sh_dup(p) \/ sh_pipe(p) \/ sh_piped(p)
           \/ sh_fork(p) \/ sh_wait(p) \/ cat_read(p) \/ cat_write(p) \/ exit(p) \/ trap_killed(p)

Next == \/ \E p \in Procs : Step(p) \/ kill(p) \/ sigcont(p)
        \/ init_wait

Spec == Init /\ [][Next]_vars
FairSpec == Spec /\ WF_vars(init_wait) /\ \A p \in Procs : WF_vars(Step(p))

---------------------------------------------------------------------------
Held(f) == {<<p, fd>> \in Procs \X Fds : ofile[p][fd] = f}
Owed(f, lists) == {<<p, i>> \in Procs \X (1..2) : i <= Len(lists[p]) /\ lists[p][i] = f}

(* A file's reference count is the number of descriptors, of calls of      *)
(* fileclose() on their way and of half-made pipes that name it: the count *)
(* of fork(), dup(), close(), exit() and every error path of pipe().       *)
RefsMatch == \A f \in Files :
  file[f].ref = Cardinality(Held(f)) + Cardinality(Owed(f, closing)) + Cardinality(Owed(f, half))

EndHeld(q, writable) ==
  \/ \E f \in Files : file[f].ref > 0 /\ file[f].type = "FD_PIPE" /\ file[f].pipe = q
                       /\ file[f].writable = writable
  \/ \E p \in Procs : pc[p] = "pipeclose" /\ ff[p].pipe = q /\ ff[p].writable = writable

(* An end of a pipe is open exactly while an open file, or a fileclose()   *)
(* on its way to pipeclose(), stands for it; so nobody reads or writes a   *)
(* page that has been freed, and end of file comes with the last writer.   *)
PipeEndsMatch == \A q \in Pipes : /\ pipe[q].readopen <=> EndHeld(q, FALSE)
                                 /\ pipe[q].writeopen <=> EndHeld(q, TRUE)

(* Nobody sleeps on a pipe for something that has happened: a writer sleeps *)
(* on a full pipe that has a reader, a reader on a pipe that has a writer   *)
(* and is empty.  A writer killed with the pipe full returns without waking *)
(* the readers, so the last part is promised only while nobody was killed.  *)
NoLostPipeWakeup == \A p \in Procs :
  /\ pc[p] = "pipewrite_sleep" => room(pipe[cur[p]]) = 0 /\ pipe[cur[p]].readopen
  /\ pc[p] = "piperead_sleep" => /\ pipe[cur[p]].writeopen
                                 /\ kills = 0 => avail(pipe[cur[p]]) = 0

(* What comes out of a pipeline is the beginning of what went in, byte for  *)
(* byte, whoever is killed and whichever call fails.                        *)
EndToEnd == IsPrefix(store["out"], Input)

(* Every command ends: the last close of each end reaches the other one, no *)
(* process, file or page is left over (runcmd()'s close()s, exit()).        *)
Finishes == <>[](/\ \A p \in Procs \ {initproc} : pc[p] = "unused"
                 /\ \A f \in Files \ {1} : file[f].ref = 0
                 /\ \A q \in Pipes : ~Allocated(q))
=============================================================================
