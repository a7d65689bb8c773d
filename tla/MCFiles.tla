------------------------------ MODULE MCFiles ------------------------------
(* The contents of src/initrd.tar and, with fewer clusters, of              *)
(* src/floppy_with_testing_files.img.  Sectors have 4 bytes, so that FAT     *)
(* entries lie across sectors; each volume has an empty file as well.        *)
EXTENDS Files

T(name, size, dir) == [name |-> name, size |-> size, dir |-> dir]

MCArchives == {
    << T(<<<<"hello">>, <<>>>>, 0, TRUE),
       T(<<<<"hello">>, <<"hello.txt">>>>, 25, FALSE),
       T(<<<<"hello">>, <<"directory">>, <<"text.txt">>>>, 32, FALSE),
       T(<<<<"hello">>, <<"directory">>, <<>>>>, 0, TRUE),
       T(<<<<"New Directory">>, <<>>>>, 0, TRUE),
       T(<<<<"empty.txt">>>>, 0, FALSE) >>,
    << T(<<<<"hello.txt">>>>, 17, FALSE),
       T(<<<<"hello">>, <<>>>>, 0, TRUE),
       T(<<<<"hello">>, <<"text.txt">>>>, 16, FALSE) >> }

MCDos == "hello.txt" :> "HELLO   TXT" @@ "text.txt" :> "TEXT    TXT"
            @@ "hello" :> "HELLO      " @@ "directory" :> "DIRECTOR   "
            @@ "empty.txt" :> "EMPTY   TXT"

D(name, dir, cluster) ==
    [name |-> name, dir |-> dir, cluster |-> cluster,
     size |-> IF cluster = 0 THEN 0 ELSE 1]

(* A file of up to three clusters in any order, a short one, a directory of  *)
(* one cluster with a file in it.                                            *)
Chains ==
    { <<2, 3, 4>>, <<4, 2, 3>>, <<5, 3, 2>>, <<7>> }

MCDisk(c, end) ==
    LET used == ToSet(c)
        small == Min((2 .. 9) \ used)
        dir == Min((2 .. 9) \ (used \cup {small}))
        sub == Min((2 .. 9) \ (used \cup {small, dir}))
    IN  [root |-> << <<D("TEXT    TXT", FALSE, c[1]), D("DIRECTOR   ", TRUE, dir)>>,
                     <<D("HELLO   TXT", FALSE, small), D("HELLO      ", TRUE, dir),
                       D("EMPTY   TXT", FALSE, 0)>> >>,
         dirs |-> dir :> <<D("HELLO   TXT", FALSE, sub)>>,
         next |-> [n \in 2 .. 9 |->
                    IF \E i \in 1 .. Len(c) - 1 : c[i] = n
                    THEN c[1 + CHOOSE i \in 1 .. Len(c) - 1 : c[i] = n]
                    ELSE IF n \in used \cup {small, dir, sub} THEN end ELSE 0]]

MCDisks == { MCDisk(c, 4087 + c[1] - 1) : c \in Chains }

MCTyped == {
    << <<>> >>, << <<"hello">> >>, << <<"hello.txt">> >>, << <<"text.txt">> >>,
    << <<"directory">> >>, << <<"directory">>, <<"text.txt">> >>,
    << <<"empty.txt">> >>, << <<"a", "shift", ">">>, <<"empty.txt">> >>,
    << <<"hello">>, <<>> >>, << <<"hello">>, <<"hello.txt">> >>,
    << <<"hello">>, <<"directory">>, <<"text.txt">> >>,
    << <<"a", "shift", ">">>, <<"hello">> >>,
    << <<"a", "shift", ">">>, <<"text.txt">> >>,
    << <<"a", "shift", ">">>, <<"hello.txt">> >>,
    << <<"a", "shift", ">">>, <<"directory">>, <<"hello.txt">> >>,
    << <<"x", "shift", ">">>, <<"hello">> >>,
    << <<"b", "shift", ">">>, <<"hello">> >> }

(* 7, 12, 1b, -1, 999, and a blank before 5. *)
MCDumped == { <<55>>, <<49, 50>>, <<49, 98>>, <<45, 49>>, <<57, 57, 57>>, <<32, 53>> }
=============================================================================
