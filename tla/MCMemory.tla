------------------------------ MODULE MCMemory ------------------------------
(* Two process slots, pages of two bytes, page tables of two levels with three entries. *)
EXTENDS Memory

MCPages == 1 .. 17
MCIncrements == {5, -5}

Code == [vaddr |-> 0, memsz |-> 1, filesz |-> 1, perm |-> {"X"}, read |-> "ok"]
Data(read) == [vaddr |-> 1, memsz |-> 2, filesz |-> 1, perm |-> {"W"}, read |-> read]

MCImages == {<<Code>>, <<Code, Data("ok")>>, <<Code, Data("short")>>, <<Code, Data("bad")>>}

\* States that differ only in which physical pages are used for what are the same.
Shape ==
    <<[p \in Procs |->
        LET T == proc[p].table IN
        [state |-> proc[p].state, parent |-> proc[p].parent, sz |-> proc[p].sz, nodes |-> DOMAIN T.node,
         leaf |-> [v \in DOMAIN T.leaf \ {TRAMPOLINE} |-> <<T.leaf[v].flags, mem.data[T.leaf[v].pa]>>]]],
      Cardinality(mem.free), PagesInv>>
==============================================================================
