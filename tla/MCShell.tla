------------------------------ MODULE MCShell ------------------------------
(* Values for the constants of Shell. *)
EXTENDS Shell

None == execcmd(<<>>)

(* cat, cat without standard input, and a program whose calls fail: a bad   *)
(* descriptor, no children, no descriptor left.                             *)
Programs == [argv \in {"cat", "deaf", "leak"} |->
               CASE argv = "cat" -> <<[op |-> "cat"]>>
                 [] argv = "deaf" -> <<Close(0), [op |-> "cat"]>>
                 [] argv = "leak" -> <<Close(4), Dup(4), Wait, Dup(0), Pipe(None, None)>>]

TwoLines == << <<"cat", "<", "in", "|", "cat", ">", "out">>, <<"deaf", "&", ";", "leak">> >>

FourBytes == <<1, 2, 3, 4>>

(* Every line of up to MaxTokens tokens. *)
MaxTokens == 5
LinesUpTo(n) == UNION {[1..k -> {"word", "<", "|", "&", ";", "(", ")"}] : k \in 0..n}
ASSUME ParserAssumption == ParsesLanguage(LinesUpTo(MaxTokens))
=============================================================================
