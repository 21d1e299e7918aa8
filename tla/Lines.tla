------------------------------- MODULE Lines -------------------------------
(***************************************************************************)
(* What the console promises its readers: a line that can be edited until  *)
(* it is finished, a queue of finished input, every character of it handed *)
(* to one reader, in order, and no read beyond the end of a line.          *)
(***************************************************************************)
EXTENDS Integers, Sequences

CONSTANTS Readers, Chars,
          Ends,        \* characters that finish a line
          Eof,         \* the one of them that is not delivered
          N            \* characters the console can hold

VARIABLES queue,       \* finished input that no reader has taken
          edit,        \* line being edited
          got          \* reader -> characters of its call

Type(c) == /\ Len(queue) + Len(edit) < N
           /\ IF c \in Ends \/ Len(queue) + Len(edit) + 1 = N
              THEN queue' = queue \o Append(edit, c) /\ edit' = <<>>
              ELSE edit' = Append(edit, c) /\ UNCHANGED queue
           /\ UNCHANGED got

Erase == \E k \in 0..Len(edit) : edit' = SubSeq(edit, 1, k) /\ UNCHANGED <<queue, got>>

(* Reader p takes k characters, none of them after the end of a line. *)
Take(p) == \E k \in 1..Len(queue) :
             /\ \A i \in 1..k - 1 : queue[i] \notin Ends
             /\ queue' = SubSeq(queue, k + 1, Len(queue))
             /\ got' = [got EXCEPT ![p] = @ \o IF queue[k] = Eof THEN SubSeq(queue, 1, k - 1)
                                               ELSE SubSeq(queue, 1, k)]
             /\ queue[k] = Eof => k = 1 /\ got[p] = <<>>
             /\ UNCHANGED edit

Call(p) == got' = [got EXCEPT ![p] = <<>>] /\ UNCHANGED <<queue, edit>>

Init == queue = <<>> /\ edit = <<>> /\ got = [p \in Readers |-> <<>>]
Next == \/ \E c \in Chars : Type(c)
        \/ Erase
        \/ \E p \in Readers : Take(p) \/ Call(p)
Spec == Init /\ [][Next]_<<queue, edit, got>>
=============================================================================
