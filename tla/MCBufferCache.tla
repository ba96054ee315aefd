---------------------------- MODULE MCBufferCache ----------------------------
(***************************************************************************)
(* The disk for TLC: two processes of two buffers each, p1 with q1 and p2  *)
(* with q2, in a cache of two.                                             *)
(***************************************************************************)
EXTENDS BufferCache, TLC

CONSTANTS p1, p2, q1, q2

MCouter == p1 :> NoProc @@ p2 :> NoProc @@ q1 :> p1 @@ q2 :> p2

\* A block of the log and its home, or an indirect block and the bitmap.
MCNested == {<<2, 3>>}

==============================================================================
