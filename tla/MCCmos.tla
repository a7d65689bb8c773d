------------------------------- MODULE MCCmos -------------------------------
(* The turn of the century, second by second, so that every field changes;   *)
(* only a drive A, only a drive B; a counter that wraps after five ticks.   *)
EXTENDS Cmos

MCInstants ==
    << <<59, 59, 23, 31, 12, 99, 19>>,
       <<0, 0, 0, 1, 1, 0, 20>>,
       <<1, 0, 0, 1, 1, 0, 20>> >>

MCDriveTypes == {4, 64}
=============================================================================
