------------------------------- MODULE MCHeap -------------------------------
(* A heap of three pages of 32 bytes with headers of 3 bytes: a page takes    *)
(* three small chunks, or two larger ones, or a large one takes two pages.   *)
EXTENDS Heap
=============================================================================
