------------------------------ MODULE Ramdisk ------------------------------
(***************************************************************************)
(* The ramdisk driver, Fs/ramdisk.c: a tar archive in memory, read at the  *)
(* addresses of its headers.  Opening a file strips the slash behind the   *)
(* names of directories, in the archive itself.  Paths and file records    *)
(* are those of module Fat12; what a read copies is named by its address.   *)
(***************************************************************************)
EXTENDS Fat12

CONSTANTS
    TarBlock,      \* bytes of a block of the archive (512)
    initrdAddr,    \* where the boot loader put it
    Archives       \* sequences of [name, size, dir]

ASSUME RamdiskAssumption == TarBlock \in Nat \ {0} /\ initrdAddr \in Nat

VARIABLE archive   \* the headers, by their addresses

(* The format: a header of one block and the data in whole blocks. *)
Behind(tape) ==
    LET at[i \in 0 .. Len(tape)] ==
            IF i = 0 THEN initrdAddr
            ELSE at[i - 1] + TarBlock
                   + ((tape[i].size + TarBlock - 1) \div TarBlock) * TarBlock
    IN  at

HeadersAt(tape) == [i \in DOMAIN tape |-> Behind(tape)[i - 1]]

Loaded(tape) ==
    [a \in Range(HeadersAt(tape)) |->
        tape[CHOOSE i \in DOMAIN tape : HeadersAt(tape)[i] = a]]

-----------------------------------------------------------------------------
(* The walk along the headers *)

Following(a) ==
    a + ((archive[a].size \div TarBlock) + 1) * TarBlock
      + (IF archive[a].size % TarBlock # 0 THEN TarBlock ELSE 0)

(* The headers from the first one on, up to a block without a name. *)
Headers ==
    LET passed[i \in 0 .. Cardinality(DOMAIN archive)] ==
            IF i = 0 THEN {initrdAddr}
            ELSE LET before == passed[i - 1]
                 IN  before \cup ({ Following(a) : a \in before } \cap DOMAIN archive)
    IN  passed[Cardinality(DOMAIN archive)]

(* Variant: a directory of the root counts as a subdirectory. *)
check_subdir_slash(name) == Len(name) > 1

check_subdir(name) == Len(name) > 2 \/ (Len(name) = 2 /\ name[2] # <<>>)

check_dir(name) ==
    IF Len(name) > 1 /\ Last(name) = <<>> THEN Front(name) ELSE name

(* An archive somebody packed: nothing is nameless but what is behind the   *)
(* slash of a directory, no name is there twice, and what lies in a         *)
(* directory has the one of the root it is in packed as well.               *)
Packed(tape) ==
    /\ tape \in Seq([name : Seq(Seq(STRING)), size : Nat, dir : BOOLEAN]) /\ tape # <<>>
    /\ \A i \in DOMAIN tape :
         LET name == tape[i].name
         IN  /\ name # <<>>
             /\ \A j \in DOMAIN name : Len(name[j]) = 1 \/ (name[j] = <<>> /\ 1 < j /\ j = Len(name))
             /\ check_subdir(name) =>
                  \E k \in DOMAIN tape : tape[k].dir /\ check_dir(tape[k].name) = <<name[1]>>
             /\ \A k \in DOMAIN tape : check_dir(tape[k].name) = check_dir(name) => k = i

ASSUME TapeAssumption == \A tape \in Archives : Packed(tape)

(* The search looks at headers in order, strips those it compares, and      *)
(* stops at the first whose name is the one asked for.                      *)
Search(compared, name) ==
    LET hits == { a \in compared : check_dir(archive[a].name) = name }
        at == Min(hits)
        seen == IF hits = {} THEN compared ELSE { a \in compared : a <= at }
    IN  [archive |-> [a \in DOMAIN archive |->
                        IF a \in seen
                        THEN [archive[a] EXCEPT !.name = check_dir(@)]
                        ELSE archive[a]],
         file |-> IF hits = {} THEN Invalid
                  ELSE [flags |-> IF archive[at].dir THEN FS_DIR ELSE FS_FILE,
                        at |-> at + TarBlock, position |-> at + TarBlock,
                        length |-> archive[at].size, eof |-> 0, deviceID |-> "none"]]

fsysRdOpenRootDirectory(part) ==
    Search({ a \in Headers : ~ check_subdir(archive[a].name) }, <<part>>)

fsysRdOpenSubDir(filepath) == Search(Headers, filepath)

(* FileName+1: the path without its first character. *)
Rest(path) ==
    IF path[1] = <<>> THEN Tail(path) ELSE <<Tail(path[1])>> \o Tail(path)

(* What the open returns, and the archive it leaves behind.  The subdirectory *)
(* search is for the whole path, so its repetition changes nothing.         *)
fsysRdOpen(path) ==
    LET root == fsysRdOpenRootDirectory(IF Len(path) = 1 THEN path[1] ELSE path[2])
        rest == fsysRdOpenSubDir(Rest(path))
    IN  IF Len(path) <= 2 \/ root.file.flags # FS_DIR THEN root
        ELSE [file |-> rest.file,
              archive |-> [a \in DOMAIN archive |->
                  IF rest.archive[a] # archive[a] THEN rest.archive[a]
                  ELSE root.archive[a]]]

-----------------------------------------------------------------------------
(* fsysRdRead, with the length of one block that every caller passes *)

(* strcat is called with '\0', the null pointer, for its second string: it  *)
(* adds the text at address 0 behind the block's text.                      *)
AtZero == "at address 0"

(* Variant: the address is not moved on. *)
fsysRdRead_stays(file) ==
    [block |-> file.at, added |-> {AtZero},
     file |-> IF file.at + TarBlock >= file.position + file.length
              THEN [file EXCEPT !.eof = 1] ELSE file]

fsysRdRead(file) ==
    LET next == file.at + TarBlock
    IN  [block |-> file.at, added |-> {AtZero},
         file |-> IF next >= file.position + file.length
                  THEN [file EXCEPT !.eof = 1] ELSE [file EXCEPT !.at = next]]
=============================================================================
