------------------------------- MODULE MCShell -------------------------------
(* The shell with five process slots and pipes of two bytes. *)
EXTENDS Shell

MCLines == {
    <<"w", "|", "r">>,
    <<"(", "x", "|", "x", ")", "|", "x", "|", "r">>,
    <<"(", "w", ";", "w", ")", "|", "r">>,
    <<"w", ">", "f", "&">>,
    <<"r", "<", "f", ">", "f">>,
    <<"cd", "f">>,
    <<"x", "|">>,
    <<>> }

MCAllLines == UNION {[1 .. k -> symbols \cup {"a"}] : k \in 0 .. 5}
==============================================================================
