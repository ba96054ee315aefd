----------------------------- MODULE ShellParser -----------------------------
(***************************************************************************)
(* The recursive-descent parser of user/sh.c, and the grammar it stands    *)
(* for, given by splitting a line at its operators.                        *)
(*                                                                         *)
(* A line is a sequence of tokens: the operators, "+" for >>, and words.   *)
(* A position is an index into it, and a word of a command is its          *)
(* position.  A command is a tuple whose first component is its type.      *)
(***************************************************************************)
EXTENDS Integers, Sequences, FiniteSets, SequencesExt

CONSTANT MAXARGS        \* sh.c

symbols == {"<", "|", ">", "+", "&", ";", "(", ")"}

\* What gettoken() returns at s: an operator, "a" for a word, or the end.
gettoken(line, s) ==
    IF s > Len(line) THEN "end" ELSE IF line[s] \in symbols THEN line[s] ELSE "a"

peek(line, s, toks) == gettoken(line, s) \in toks

execcmd(argv) == <<"EXEC", argv>>
redircmd(cmd, word, mode, fd) == <<"REDIR", cmd, word, mode, fd>>
pipecmd(left, right) == <<"PIPE", left, right>>
listcmd(left, right) == <<"LIST", left, right>>
backcmd(cmd) == <<"BACK", cmd>>

\* panic() ends the process that parses.
Panic == [s |-> 0, cmd |-> <<"panic">>]
panicked(r) == r.s = 0

\* What a redirection operator opens, and as which descriptor.
redirect(cmd, tok, word) ==
    CASE tok = "<" -> redircmd(cmd, word, "RDONLY", 0)
      [] tok = ">" -> redircmd(cmd, word, "WRONLY|CREATE|TRUNC", 1)
      [] tok = "+" -> redircmd(cmd, word, "WRONLY|CREATE", 1)

RECURSIVE parseredirs(_, _, _)
parseredirs(line, s, cmd) ==
    IF ~peek(line, s, {"<", ">", "+"}) THEN [s |-> s, cmd |-> cmd]
    ELSE IF ~peek(line, s + 1, {"a"}) THEN Panic
    ELSE parseredirs(line, s + 2, redirect(cmd, gettoken(line, s), s + 1))

\* The word is appended to the command that the redirections ret wrap.
RECURSIVE addarg(_, _)
addarg(ret, word) ==
    IF ret[1] = "EXEC" THEN execcmd(Append(ret[2], word))
    ELSE [ret EXCEPT ![2] = addarg(@, word)]

\* The loop of parseexec(): r is what it has, argc the number of words.
RECURSIVE parseargs(_, _, _)
parseargs(line, r, argc) ==
    IF panicked(r) \/ peek(line, r.s, {"|", ")", "&", ";", "end"}) THEN r
    ELSE IF ~peek(line, r.s, {"a"}) \/ argc + 1 >= MAXARGS THEN Panic
    ELSE parseargs(line, parseredirs(line, r.s + 1, addarg(r.cmd, r.s)), argc + 1)

\* The functions that call each other: parse[f, s] is what f returns at s.
parseblock(line, s, parse) ==
    LET r == parse["parseline", s + 1]
    IN  IF panicked(r) \/ ~peek(line, r.s, {")"}) THEN Panic ELSE parseredirs(line, r.s + 1, r.cmd)

parseexec(line, s, parse) ==
    IF peek(line, s, {"("}) THEN parseblock(line, s, parse)
    ELSE parseargs(line, parseredirs(line, s, execcmd(<<>>)), 0)

combined(r, cmd) == IF panicked(r) THEN Panic ELSE [s |-> r.s, cmd |-> cmd]

pipeAfter_Left(line, l, parse) ==
    LET r == parse["parsepipe", l.s + 1] IN
    IF panicked(l) \/ ~peek(line, l.s, {"|"}) THEN l
    ELSE IF r.cmd[1] = "PIPE" THEN [r EXCEPT !.cmd = pipecmd(pipecmd(l.cmd, r.cmd[2]), r.cmd[3])]
    ELSE combined(r, pipecmd(l.cmd, r.cmd))

pipeAfter(line, l, parse) ==
    LET r == parse["parsepipe", l.s + 1] IN
    IF panicked(l) \/ ~peek(line, l.s, {"|"}) THEN l ELSE combined(r, pipecmd(l.cmd, r.cmd))

parsepipe(line, s, parse) == pipeAfter(line, parseexec(line, s, parse), parse)

RECURSIVE background(_, _)
background(line, r) ==
    IF panicked(r) \/ ~peek(line, r.s, {"&"}) THEN r
    ELSE background(line, [s |-> r.s + 1, cmd |-> backcmd(r.cmd)])

listAfter(line, l, parse) ==
    LET r == parse["parseline", l.s + 1] IN
    IF panicked(l) \/ ~peek(line, l.s, {";"}) THEN l ELSE combined(r, listcmd(l.cmd, r.cmd))

parseline(line, s, parse) ==
    listAfter(line, background(line, parse["parsepipe", s]), parse)

parser(line) ==
    LET parse[f \in {"parseline", "parsepipe"}, s \in 1 .. Len(line) + 1] ==
            IF f = "parseline" THEN parseline(line, s, parse) ELSE parsepipe(line, s, parse)
    IN  parse["parseline", 1]

\* Input left over is an error.
parsecmd(line) ==
    LET r == parser(line) IN IF panicked(r) \/ r.s <= Len(line) THEN Panic.cmd ELSE r.cmd

(***************************************************************************)
(* The grammar.                                                            *)
(***************************************************************************)
tokens(line) == [i \in DOMAIN line |-> [tok |-> gettoken(line, i), word |-> i]]

depth(ts, k) == Cardinality({i \in 1 .. k : ts[i].tok = "("})
                - Cardinality({i \in 1 .. k : ts[i].tok = ")"})

\* Where an operator is outside of all parentheses.
topLevel(ts, op) == {k \in DOMAIN ts : ts[k].tok = op /\ depth(ts, k) = 0}

first(S) == CHOOSE k \in S : \A j \in S : k <= j

pair(type, l, r) == IF <<"panic">> \in {l, r} THEN <<"panic">> ELSE <<type, l, r>>

\* Words and redirections after cmd, which takes words if it is a simple command.
Simple(ts, cmd) ==
    LET redirs == {i \in DOMAIN ts : ts[i].tok \in {"<", ">", "+"}}
        args == {i \in DOMAIN ts : i \notin redirs /\ i - 1 \notin redirs}
        words(i) == Len(SelectSeq([j \in 1 .. i |-> j \in args], LAMBDA b : b))
        argv == [n \in 1 .. Cardinality(args) |->
                    ts[CHOOSE i \in args : words(i) = n].word]
        ok == /\ \A i \in redirs : i + 1 \in DOMAIN ts /\ ts[i + 1].tok = "a"
              /\ \A i \in args : ts[i].tok = "a" /\ cmd[1] = "EXEC"
              /\ Cardinality(args) < MAXARGS
        base == IF cmd = <<"EXEC">> THEN execcmd(argv) ELSE cmd
    IN  IF ok THEN FoldLeft(LAMBDA c, i : IF i \in redirs THEN redirect(c, ts[i].tok, ts[i + 1].word) ELSE c,
                            base, [i \in DOMAIN ts |-> i])
        ELSE <<"panic">>

RECURSIVE Line(_)

Command(ts) ==
    LET close == {k \in DOMAIN ts : ts[k].tok = ")" /\ depth(ts, k) = 0}
        k == first(close)
        inner == Line(SubSeq(ts, 2, k - 1))
    IN  IF ts = <<>> \/ Head(ts).tok # "(" THEN Simple(ts, <<"EXEC">>)
        ELSE IF close = {} THEN <<"panic">>
        ELSE IF inner = <<"panic">> \/ \E i \in k + 1 .. Len(ts) : ts[i].tok \in {"(", ")"} THEN <<"panic">>
        ELSE Simple(SubSeq(ts, k + 1, Len(ts)), <<"BLOCK", inner>>)

\* A block takes no words: Simple() was given it as it stands.
RECURSIVE unblock(_)
unblock(c) ==
    CASE c[1] = "BLOCK" -> c[2]
      [] c[1] = "REDIR" -> [c EXCEPT ![2] = unblock(@)]
      [] OTHER -> c

RECURSIVE Pipeline(_)
Pipeline(ts) ==
    LET bars == topLevel(ts, "|") k == first(bars)
    IN  IF bars = {} THEN unblock(Command(ts))
        ELSE pair("PIPE", unblock(Command(SubSeq(ts, 1, k - 1))), Pipeline(SubSeq(ts, k + 1, Len(ts))))

RECURSIVE Job(_)
Job(ts) ==
    IF ts # <<>> /\ Last(ts).tok = "&"
    THEN LET c == Job(Front(ts)) IN IF c = <<"panic">> THEN c ELSE backcmd(c)
    ELSE Pipeline(ts)

Line(ts) ==
    LET ends == topLevel(ts, ";") k == first(ends)
    IN  IF ends = {} THEN Job(ts)
        ELSE pair("LIST", Job(SubSeq(ts, 1, k - 1)), Line(SubSeq(ts, k + 1, Len(ts))))

(***************************************************************************)
(* Properties of the parser, for a set of lines.                           *)
(***************************************************************************)

\* parsecmd() returns the command the grammar gives, and panics exactly on the
\* lines that have none.
ParsesGrammar(lines) == \A line \in lines : parsecmd(line) = Line(tokens(line))

==============================================================================
