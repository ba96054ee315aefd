------------------------------ MODULE MCConsole ------------------------------
EXTENDS Console

User(harts, p, q, keys, timers, victims) ==
    [harts |-> harts, calls |-> [x \in Procs |-> IF x = "p" THEN p ELSE q],
     keys |-> keys, timers |-> timers, victims |-> victims]

MCUsers == {
    User({"h0"}, {<<"read", 2>>}, {}, {"a", Enter, EOF}, {}, {}),
    User({"h0"}, {<<"read", 1>>}, {}, {"a", Erase, Kill}, {}, {"p"}),
    User({"h0"}, {<<"write", 2>>}, {<<"write", 1>>}, {}, {}, {}),
    User({"h0"}, {<<"pause", 2>>}, {<<"pause", 1>>}, {}, {"h0"}, {"p"}),
    User(Harts, {<<"pause", 1>>}, {}, {}, Harts, {}),
    User(Harts, {<<"write", 1>>}, {}, {"a"}, {}, {}) }
==============================================================================
