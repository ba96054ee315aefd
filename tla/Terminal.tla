------------------------------- MODULE Terminal -------------------------------
(* What the console promises of its input: lines, and the line being edited. *)
EXTENDS Integers, Sequences

CONSTANTS Size, Enter, EOF, Erase, Kill, Letters

VARIABLES lines, edit

TerminalInit == lines = <<>> /\ edit = <<>>

\* A character, unless there is no room; it ends the line if it is the last there
\* is room for.
Typed(c) ==
    /\ Len(lines) + Len(edit) < Size
    /\ IF c \in {Enter, EOF} \/ Len(lines) + Len(edit) + 1 = Size
       THEN lines' = lines \o Append(edit, c) /\ edit' = <<>>
       ELSE edit' = Append(edit, c) /\ UNCHANGED lines

Erased == edit # <<>> /\ edit' = SubSeq(edit, 1, Len(edit) - 1) /\ UNCHANGED lines
Killed == edit' = <<>> /\ UNCHANGED lines

\* A reader gets characters of lines only, in order.
Read == lines # <<>> /\ lines' = Tail(lines) /\ UNCHANGED edit

TerminalNext == Erased \/ Killed \/ Read \/ \E c \in Letters \cup {Enter, EOF} : Typed(c)

TerminalSpec == TerminalInit /\ [][TerminalNext]_<<lines, edit>>
==============================================================================
