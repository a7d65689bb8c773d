------------------------------ MODULE MCFloppy ------------------------------
(* A disk of three tracks with two sides of two sectors; two tries and       *)
(* waits of two sleeps.                                                      *)
EXTENDS Floppy

MCRequests == {0, 5, 10}
=============================================================================
