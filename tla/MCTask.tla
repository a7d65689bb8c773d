------------------------------- MODULE MCTask -------------------------------
(* Tables of ten entries for eighteen frames, of which the eight behind the   *)
(* first table may be missing; the kernel and the heap above them; blocks of  *)
(* half a page, and the files exec may be given: executables linked within    *)
(* physical memory, of one and of two blocks, and of four that are longer     *)
(* than their first frame; executables linked above physical memory, of one   *)
(* block and of two; a relocatable object (which has no program header:       *)
(* address 0, one byte), and files that are not executables.                  *)
EXTENDS Task, TLC

MCReserved == {{0, 1}, {0, 1} \cup 10 .. 17}
MCJunk == { Zero, [frame |-> 9, flags |-> 3], [frame |-> 5, flags |-> 2] }

Header == [flags |-> "FS_FILE", mag |-> ELFMAG, class |-> 1, data |-> 1,
           machine |-> 3, version |-> 1, type |-> 2, entry |-> 12]
Image(vpage, m, n) == [vpage |-> vpage, mem |-> m, blocks |-> n]

MCFiles ==
    LET small == Header @@ Image(12, 1, 1)
    IN  { small, Header @@ Image(12, 2, 2), Header @@ Image(12, 4, 4),
          Header @@ Image(22, 1, 1), Header @@ Image(22, 2, 2),
          [Header EXCEPT !.type = 1, !.entry = 0] @@ Image(0, 0, 5),
          [small EXCEPT !.flags = "FS_INVALID"], [small EXCEPT !.flags = "FS_DIR"],
          [small EXCEPT !.mag = <<35, "!", "/", "b">>], [small EXCEPT !.class = 2],
          [small EXCEPT !.data = 2], [small EXCEPT !.machine = 62],
          [small EXCEPT !.version = 0], [small EXCEPT !.type = 0] }
=============================================================================
