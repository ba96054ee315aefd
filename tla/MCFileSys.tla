------------------------------ MODULE MCFileSys ------------------------------
(* Two processes and a disk of eight blocks of two units.  On it is one file, *)
(* short, or so long that one block is left; or three, with no inode left.    *)
EXTENDS FileSys

file(name, n) == <<<<name>>, [k \in 1 .. n |-> <<k>>]>>

MCImages == {<<file("f", 1)>>, <<file("f", 5)>>, <<file("f", 1), file("h", 1), file("k", 1)>>}

d == <<"/", "d">>
dd == <<"/", "d", "/", ".", ".">>
f == <<"f">>
g == <<"d", "/", "/", "g">>

MCCalls == {
    <<"mkdir", d>>, <<"unlink", d>>, <<"chdir", d>>, <<"chdir", f>>, <<"unlink", f>>, <<"unlink", <<"/">>>>,
    <<"link", f, g>>, <<"open", g, "create">>, <<"open", f, "trunc">>, <<"open", dd, "r">>, <<"mknod", g>>,
    <<"write", <<<<1>>, <<2>>, Fault>>>>, <<"read", 2>>, <<"close">>}
==============================================================================
