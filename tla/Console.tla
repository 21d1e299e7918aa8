------------------------------ MODULE Console ------------------------------
(***************************************************************************)
(* Console input (console.c): a ring of INPUT_BUF characters with three    *)
(* counters that run freely modulo UintMod, filled and edited by the       *)
(* interrupt of keyboard or serial port and emptied by consoleread().  One *)
(* step is a stretch that holds cons.lock; kill() does not take that lock. *)
(* Echo and the screen are left out.                                       *)
(***************************************************************************)
EXTENDS Integers, Sequences

CONSTANTS Procs,
          Letters,     \* ordinary characters
          INPUT_BUF,
          UintMod,     \* a multiple of INPUT_BUF, 2^32 in the code
          Sizes        \* what readers ask for

VARIABLES buf, r, w, e,  \* struct input
          pc,            \* process -> point in consoleread(), "user" outside
          left,          \* process -> n of consoleread()
          got,           \* process -> characters stored at dst
          killed

input == <<buf, r, w, e>>
vars == <<input, pc, left, got, killed>>

(* '\n' and ^D finish a line; '\r' arrives as '\n'. *)
Newline == "newline"
CtrlD == "^D"
Chars == Letters \cup {Newline, CtrlD}
Keys == Letters \cup {"\r", Newline, CtrlD, "^P", "^U", "^H", "none"}

(* The counter i moved by k. *)
Plus(i, k) == (i + k) % UintMod
(* How far the counter j is ahead of i. *)
Ahead(i, j) == CHOOSE k \in 0..UintMod - 1 : Plus(i, k) = j
At(i) == buf[i % INPUT_BUF]
From(i, n) == [k \in 1..n |-> At(Plus(i, k - 1))]

Init == /\ buf \in [0..INPUT_BUF - 1 -> {Newline}]
        /\ r = 0 /\ w = 0 /\ e = 0
        /\ pc = [p \in Procs |-> "user"]
        /\ left = [p \in Procs |-> 0]
        /\ got = [p \in Procs |-> <<>>]
        /\ killed = [p \in Procs |-> FALSE]

(* A process between its last test and sleep() still holds cons.lock. *)
Unlocked == \A p \in Procs : pc[p] # "consoleread_empty"

(* wakeup(&input.r) *)
Woken == [p \in Procs |-> IF pc[p] = "consoleread_sleep" THEN "consoleread" ELSE pc[p]]

(* ^U: e goes back to the last newline, not beyond w. *)
kill_line == LET k == CHOOSE k \in 0..Ahead(w, e) :
                        /\ k = Ahead(w, e) \/ At(Plus(e, UintMod - k - 1)) = Newline
                        /\ \A i \in 0..k - 1 : At(Plus(e, UintMod - i - 1)) # Newline
             IN  e' = Plus(e, UintMod - k)

(* The end of the line, or of the room for it. *)
commits(c) == c \in {Newline, CtrlD} \/ Plus(e, 1) = Plus(r, INPUT_BUF)

(* Without the wakeup when ^D ends the line. *)
commit_quiet(c) == /\ w' = Plus(e, 1)
                   /\ pc' = IF c = CtrlD THEN pc ELSE Woken

commit(c) == w' = Plus(e, 1) /\ pc' = Woken

(* One turn of the loop of consoleintr(). *)
consoleintr(key) ==
  /\ Unlocked
  /\ \/ key \in {"^P", "none"} /\ UNCHANGED <<input, pc>>
     \/ key = "^U" /\ kill_line /\ UNCHANGED <<buf, r, w, pc>>
     \/ /\ key = "^H" /\ e # w
        /\ e' = Plus(e, UintMod - 1) /\ UNCHANGED <<buf, r, w, pc>>
     \/ LET c == IF key = "\r" THEN Newline ELSE key
        IN  /\ c \in Chars /\ Ahead(r, e) < INPUT_BUF
            /\ buf' = [buf EXCEPT ![e % INPUT_BUF] = c]
            /\ e' = Plus(e, 1)
            /\ IF commits(c) THEN commit(c) ELSE UNCHANGED <<w, pc>>
            /\ UNCHANGED r
  /\ UNCHANGED <<left, got, killed>>

sys_read(p, n) == /\ pc[p] = "user" /\ ~killed[p]
                  /\ pc' = [pc EXCEPT ![p] = "consoleread"]
                  /\ left' = [left EXCEPT ![p] = n]
                  /\ got' = [got EXCEPT ![p] = <<>>]
                  /\ UNCHANGED <<input, killed>>

(* ^D is left for the next call when this one has something to return. *)
save_eof_never(p, k) == FALSE
save_eof(p, k) == got[p] # <<>> \/ k > 1

Returns(p) == pc' = [pc EXCEPT ![p] = "user"]

(* consoleread() from the test of r and w to the return or to sleep().     *)
consoleread(p) ==
  LET avail == Ahead(r, w)
      ends(k) == At(Plus(r, k - 1)) \in {Newline, CtrlD}
      k == CHOOSE k \in 0..avail : /\ k = avail \/ k = left[p] \/ (k > 0 /\ ends(k))
                                   /\ \A i \in 1..k - 1 : ~ends(i)
                                   /\ k <= left[p]
                                   /\ k = 0 => avail = 0
      eof == k > 0 /\ At(Plus(r, k - 1)) = CtrlD
      taken == IF eof /\ save_eof(p, k) THEN k - 1 ELSE k
      stored == IF eof THEN k - 1 ELSE k
      more == k < left[p] /\ (k = 0 \/ ~ends(k))
  IN  /\ pc[p] = "consoleread" /\ Unlocked
      /\ r' = Plus(r, taken)
      /\ got' = [got EXCEPT ![p] = @ \o From(r, stored)]
      /\ left' = [left EXCEPT ![p] = IF more THEN @ - k ELSE 0]
      /\ IF more /\ ~killed[p] THEN pc' = [pc EXCEPT ![p] = "consoleread_empty"] ELSE Returns(p)
      /\ UNCHANGED <<buf, w, e, killed>>

(* sleep(): lets go of cons.lock. *)
sleep(p) == /\ pc[p] = "consoleread_empty"
            /\ pc' = [pc EXCEPT ![p] = "consoleread_sleep"]
            /\ UNCHANGED <<input, left, got, killed>>

(* kill(), or SIGCONT: a sleeper is made to run. *)
rouse(p, kill) == /\ kill \/ pc[p] = "consoleread_sleep"
                  /\ killed' = [killed EXCEPT ![p] = @ \/ kill]
                  /\ pc' = [pc EXCEPT ![p] = IF @ = "consoleread_sleep" THEN "consoleread" ELSE @]
                  /\ UNCHANGED <<input, left, got>>

Next == \/ \E key \in Keys : consoleintr(key)
        \/ \E p \in Procs : \/ \E n \in Sizes : sys_read(p, n)
                            \/ consoleread(p)
                            \/ sleep(p)
                            \/ \E kill \in BOOLEAN : rouse(p, kill)
Spec == Init /\ [][Next]_vars
-----------------------------------------------------------------------------
(* The ring is a line being edited and a queue of finished input: no       *)
(* interleaving of interrupts and readers, and no wrap of the counters,    *)
(* loses, repeats or reorders a character, erases one that is finished,    *)
(* hands a reader more than one line, or swallows an end of file behind    *)
(* data.                                                                   *)
Queue == From(r, Ahead(r, w))
Edit == From(w, Ahead(w, e))
Console == INSTANCE Lines WITH Readers <- Procs, Ends <- {Newline, CtrlD}, Eof <- CtrlD,
                               N <- INPUT_BUF, queue <- Queue, edit <- Edit
ImplementsLines == Console!Spec

(* No reader sleeps while there is finished input: consoleintr() wakes     *)
(* them whenever it moves w, and under the lock that they hold from their  *)
(* test of r and w on to sleep().  And the ring is never full with nothing *)
(* to read, where typing would be ignored for ever.                        *)
NoLostInputWakeup ==
  /\ \A p \in Procs : pc[p] = "consoleread_sleep" => r = w
  /\ Ahead(r, e) = INPUT_BUF => w = e
=============================================================================
