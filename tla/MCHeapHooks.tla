---------------------------- MODULE MCHeapHooks ----------------------------
(* Tables of 10 words, so frames 0 to 9 are mapped to themselves; 0 and 1 are *)
(* reserved, 2 and 3 hold tables, 4 the directory.                           *)
EXTENDS HeapHooks

MCReserved == {{0, 1}}
MCJunk == { Zero, [frame |-> 9, flags |-> 3], [frame |-> 5, flags |-> 2] }
=============================================================================
