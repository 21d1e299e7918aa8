------------------------------- MODULE Parse -------------------------------
(***************************************************************************)
(* The shell's parser (sh.c), a recursive descent over the tokens of a     *)
(* line.  gettoken() and peek() skip white space and cut words out of the  *)
(* buffer; here a line is the sequence of its tokens, and what ps points   *)
(* to is the sequence of those that are left.  A result carries the        *)
(* command and the tokens after it; panic() of the shell ends the parse.   *)
(***************************************************************************)
EXTENDS Integers, Sequences, SequencesExt, FiniteSetsExt

CONSTANT MAXARGS

redirections == {"<", ">", ">>"}
symbols == redirections \cup {"|", "&", ";", "(", ")"}

execcmd(argv) == [type |-> "EXEC", argv |-> argv]
redircmd(subcmd, file, fd) == [type |-> "REDIR", cmd |-> subcmd, file |-> file, fd |-> fd]
pipecmd(left, right) == [type |-> "PIPE", left |-> left, right |-> right]
listcmd(left, right) == [type |-> "LIST", left |-> left, right |-> right]
backcmd(subcmd) == [type |-> "BACK", cmd |-> subcmd]

panic == [type |-> "panic"]
Result(cmd, s) == [ok |-> TRUE, cmd |-> cmd, s |-> s]
Refused == [ok |-> FALSE, cmd |-> panic, s |-> <<>>]
AndThen(r, F(_, _)) == IF r.ok THEN F(r.cmd, r.s) ELSE Refused

peek(s, toks) == s # <<>> /\ Head(s) \in toks
(* gettoken(), where the token has been looked at already. *)
gettoken(s) == Tail(s)

RECURSIVE parseline(_), parsepipe(_), parseback(_, _), parseredirs(_, _), parseargs(_, _, _)

(* The redirections in front of s are put on the list. *)
parseredirs(redirs, s) ==
  IF ~peek(s, redirections) THEN Result(redirs, s)
  ELSE IF gettoken(s) = <<>> \/ peek(gettoken(s), symbols) THEN Refused
  ELSE parseredirs(Append(redirs, [file |-> s[2], fd |-> IF s[1] = "<" THEN 0 ELSE 1]),
                   gettoken(gettoken(s)))

(* Each redirection is wrapped around those before it. *)
Redirected(cmd, redirs) == FoldLeft(LAMBDA c, r : redircmd(c, r.file, r.fd), cmd, redirs)

(* The loop of parseexec(). *)
parseargs(argv, redirs, s) ==
  IF s = <<>> \/ peek(s, {"|", ")", "&", ";"}) THEN Result(Redirected(execcmd(argv), redirs), s)
  ELSE IF Head(s) \in symbols \/ Len(argv) + 1 >= MAXARGS THEN Refused
  ELSE AndThen(parseredirs(redirs, gettoken(s)), LAMBDA rs, rest : parseargs(Append(argv, Head(s)), rs, rest))

parseblock(s) ==
  AndThen(parseline(gettoken(s)), LAMBDA cmd, rest :
    IF ~peek(rest, {")"}) THEN Refused
    ELSE AndThen(parseredirs(<<>>, gettoken(rest)), LAMBDA rs, after : Result(Redirected(cmd, rs), after)))

parseexec(s) ==
  IF peek(s, {"("}) THEN parseblock(s)
  ELSE AndThen(parseredirs(<<>>, s), LAMBDA rs, rest : parseargs(<<>>, rs, rest))

parsepipe(s) ==
  AndThen(parseexec(s), LAMBDA cmd, rest :
    IF ~peek(rest, {"|"}) THEN Result(cmd, rest)
    ELSE AndThen(parsepipe(gettoken(rest)), LAMBDA right, after : Result(pipecmd(cmd, right), after)))

(* The loop of parseline(). *)
parseback(cmd, s) == IF peek(s, {"&"}) THEN parseback(backcmd(cmd), gettoken(s)) ELSE Result(cmd, s)

parseline(s) ==
  AndThen(AndThen(parsepipe(s), parseback), LAMBDA cmd, rest :
    IF ~peek(rest, {";"}) THEN Result(cmd, rest)
    ELSE AndThen(parseline(gettoken(rest)), LAMBDA right, after : Result(listcmd(cmd, right), after)))

parsecmd(s) == LET r == parseline(s) IN IF r.ok /\ r.s = <<>> THEN r.cmd ELSE panic
-----------------------------------------------------------------------------
(* The language without a parser: a line is cut at its first operator      *)
(* outside parentheses, the loosest first.                                 *)
Depth(s, i) == Cardinality({j \in 1..i : s[j] = "("}) - Cardinality({j \in 1..i : s[j] = ")"})
Balanced(s) == Depth(s, Len(s)) = 0 /\ \A i \in DOMAIN s : Depth(s, i) >= 0
Top(s, t) == {i \in DOMAIN s : s[i] = t /\ Depth(s, i - 1) = 0}
Before(s, i) == SubSeq(s, 1, i - 1)
Beyond(s, i) == SubSeq(s, i + 1, Len(s))
Both(F(_, _), left, right) == IF panic \in {left, right} THEN panic ELSE F(left, right)

(* Words and redirections: what follows a redirection is its file. *)
IsOp(s, i) == i \in DOMAIN s /\ s[i] \in redirections
Picked(s, P(_)) == SelectSeq([i \in DOMAIN s |-> i], P)
Argv(s) == LET words == Picked(s, LAMBDA i : ~IsOp(s, i) /\ ~IsOp(s, i - 1))
           IN  [k \in DOMAIN words |-> s[words[k]]]
Redirs(s) == LET ops == Picked(s, LAMBDA i : IsOp(s, i))
             IN  [k \in DOMAIN ops |-> [file |-> s[ops[k] + 1], fd |-> IF s[ops[k]] = "<" THEN 0 ELSE 1]]
Plain(s) == \A i \in DOMAIN s : IF IsOp(s, i) THEN i < Len(s) /\ ~IsOp(s, i + 1)
                                ELSE s[i] \notin symbols

RECURSIVE Meaning(_)
Meaning(s) ==
  LET cut(t) == Min(Top(s, t))
      split(F(_, _), t) == Both(F, Meaning(Before(s, cut(t))), Meaning(Beyond(s, cut(t))))
      close == Min({i \in DOMAIN s : Depth(s, i) = 0})
  IN  IF ~Balanced(s) THEN panic
      ELSE IF Top(s, ";") # {} THEN split(listcmd, ";")
      ELSE IF s # <<>> /\ Last(s) = "&"
           THEN LET cmd == Meaning(Front(s)) IN IF cmd = panic THEN panic ELSE backcmd(cmd)
      ELSE IF Top(s, "&") # {} THEN panic
      ELSE IF Top(s, "|") # {} THEN split(pipecmd, "|")
      ELSE IF peek(s, {"("})
           THEN LET body == Meaning(SubSeq(s, 2, close - 1))  redirs == Beyond(s, close)
                IN  IF body = panic \/ ~Plain(redirs) \/ Argv(redirs) # <<>> THEN panic
                    ELSE Redirected(body, Redirs(redirs))
      ELSE IF ~Plain(s) \/ Len(Argv(s)) >= MAXARGS THEN panic
      ELSE Redirected(execcmd(Argv(s)), Redirs(s))

(* The command the parser builds is the one the line means: ; binds loosest, *)
(* then &, then |, parentheses group, redirections stay with their command,  *)
(* and a line that is not in the language is refused as a whole.             *)
ParsesLanguage(lines) == \A s \in lines : parsecmd(s) = Meaning(s)
=============================================================================
