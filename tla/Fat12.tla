------------------------------- MODULE Fat12 -------------------------------
(***************************************************************************)
(* The FAT12 driver, Fs/fat12.c, over a disk that does not change.  A read *)
(* of the floppy driver (module Floppy) that fails is not noticed: without *)
(* a drive, or when the seek fails, it comes back as address 0, and in all *)
(* other cases as the DMA buffer with what an earlier read left there.     *)
(* What lies there is taken for the sector.  A late transfer that spoils   *)
(* the buffer of the next read counts as a failure of that read.  What a   *)
(* read copies is named by the number of its sector.                       *)
(*                                                                         *)
(* A path is the sequence of the parts between its slashes, each a sequence*)
(* of tokens: <<"a", ":">>, <<"file.txt">>, or <<>> where nothing is left.  *)
(***************************************************************************)
EXTENDS Integers, Sequences, SequencesExt

CONSTANTS
    SectorSize,    \* bytes of a sector (512)
    FatSectors,    \* sectors of one copy of the FAT (9)
    DataStart,     \* the sector of cluster 2 (33)
    DirReads,      \* sectors fsysFatOpenSubDir reads of a directory (14)
    Dos,           \* ToDosFileName of each file name
    Disks          \* the contents of the disk: [root, next, dirs]

ASSUME Fat12Assumption ==
    /\ SectorSize \in Nat \ {0} /\ FatSectors \in Nat \ {0}
    /\ (SectorSize * FatSectors) % 3 = 0
    /\ DataStart \in Nat \ {0, 1} /\ DirReads \in Nat \ {0}

Entries == [name : STRING, dir : BOOLEAN, cluster : Nat, size : Nat]

(* A disk somebody formatted and wrote: every FAT entry lies in the FAT and *)
(* is free, the end of a file or a cluster; a name is in the root directory *)
(* once; a file with contents has a first cluster.                          *)
FatWritten(d) ==
    \A c \in DOMAIN d.next :
         /\ c \in Nat /\ 1 < c /\ c < 4088
         /\ d.next[c] \in Nat /\ d.next[c] < 4096
         /\ d.next[c] \in DOMAIN d.next \/ d.next[c] = 0 \/ 4088 <= d.next[c]
         /\ c + (c \div 2) + 1 < SectorSize * FatSectors

EntriesWritten(d) ==
    /\ d.root \in Seq(Seq(Entries))
    /\ \A c \in DOMAIN d.dirs : d.dirs[c] \in Seq(Entries)
    /\ \A s \in DOMAIN d.root : \A i \in DOMAIN d.root[s] :
         LET e == d.root[s][i]
         IN  /\ ~ e.dir /\ e.size > 0 => e.cluster \in DOMAIN d.next
             /\ \A t \in DOMAIN d.root : \A j \in DOMAIN d.root[t] :
                   d.root[t][j].name = e.name => t = s /\ j = i

Written(d) == FatWritten(d) /\ EntriesWritten(d)

ASSUME DiskAssumption == \A d \in Disks : Written(d)

VARIABLE disk

FS_FILE == 0
FS_DIR == 1
FS_INVALID == 2

(* A file that is not open; nothing of it is used but the flags.            *)
Invalid == [flags |-> FS_INVALID, at |-> 0, position |-> 0, length |-> 0, eof |-> 0,
            deviceID |-> "none"]

-----------------------------------------------------------------------------
(* The disk.  root holds the sectors of the root directory, dirs those of   *)
(* the clusters that are directories, next the FAT.  The FAT packs two      *)
(* entries of 12 bits into three bytes.                                     *)

Clusters == DOMAIN disk.next

(* Entry 0 holds the media descriptor. *)
FatEntry(n) ==
    CASE n \in Clusters -> disk.next[n]
      [] n = 0 -> 4080
      [] OTHER -> 0

FatByte(i) ==
    LET k == 2 * (i \div 3)
    IN  CASE i % 3 = 0 -> FatEntry(k) % 256
          [] i % 3 = 1 -> (FatEntry(k) \div 256) + 16 * (FatEntry(k + 1) % 16)
          [] i % 3 = 2 -> FatEntry(k + 1) \div 16

(* Both copies of the FAT lie behind the boot sector; a cluster behind the  *)
(* end of the disk has its entry in the second one.                         *)
SectorByte(s, i) ==
    FatByte((((s - 1) % FatSectors) * SectorSize) + i)

-----------------------------------------------------------------------------
(* fsysFatRead *)

PhysSector(cluster) == (DataStart - 1) + (cluster - 1)

(* The two sectors are copied behind one another into the array FAT. *)
FatArray(sector, i) ==
    IF i < SectorSize
    THEN SectorByte(sector, i) ELSE SectorByte(sector + 1, i - SectorSize)

(* Variant: only the first of the two sectors is read. *)
NextCluster_one_sector(c) ==
    LET offset == c + (c \div 2)
        at == offset % SectorSize
        low == SectorByte(1 + offset \div SectorSize, at)
        high == IF at + 1 < SectorSize
                THEN SectorByte(1 + offset \div SectorSize, at + 1) ELSE 0
        word == low + 256 * high
    IN  IF c % 2 = 1 THEN word \div 16 ELSE word % 4096

NextCluster(c) ==
    LET offset == c + (c \div 2)
        sector == 1 + (offset \div SectorSize)
        at == offset % SectorSize
        word == FatArray(sector, at) + 256 * FatArray(sector, at + 1)
    IN  IF c % 2 = 1 THEN word \div 16 ELSE word % 4096

GoesOn(file, next) ==
    IF next >= 4088 \/ next = 0
    THEN [file EXCEPT !.eof = 1] ELSE [file EXCEPT !.at = next]

(* The sector copied, nothing added to it, and the file after the read.     *)
fsysFatRead(file) ==
    [block |-> PhysSector(file.at), added |-> {},
     file |-> GoesOn(file, NextCluster(file.at))]

(* What is copied when the sector was not read; in sector 0 no file lies.   *)
Unread == 0

(* A read of the sector, of the FAT or of both fails: what is copied is     *)
(* something else, or where the file goes on is anything; Elsewhere is a    *)
(* cluster behind the end of the disk.                                      *)
Elsewhere == 4002

fsysFatReadFails(file) ==
    { [block |-> block, added |-> {}, file |-> GoesOn(file, next)] :
        block \in {PhysSector(file.at), Unread},
        next \in Clusters \cup {0, 4088, Elsewhere} }

-----------------------------------------------------------------------------
(* fsysFatOpen *)

ToDosFileName(part) ==
    IF Len(part) = 1 /\ part[1] \in DOMAIN Dos THEN Dos[part[1]] ELSE ""

Found(entry) ==
    [flags |-> IF entry.dir THEN FS_DIR ELSE FS_FILE, at |-> entry.cluster,
     position |-> 0, length |-> entry.size, eof |-> 0, deviceID |-> "none"]

(* The first entry with the name, in the order of the directory's sectors. *)
FirstNamed(sectors, part) ==
    LET hits(s) == { i \in DOMAIN sectors[s] : sectors[s][i].name = ToDosFileName(part) }
        in == { s \in DOMAIN sectors : hits(s) # {} }
        first == Min(in)
    IN  IF in = {} THEN Invalid ELSE Found(sectors[first][Min(hits(first))])

(* What is taken for a sector of a directory that was not read: one of some *)
(* directory, read earlier, or no entries at all.                           *)
Leftovers == {<<>>} \cup ToSet(disk.root) \cup Range(disk.dirs)

(* The root directory as a search reads it, with at most one sector that    *)
(* was not read.                                                            *)
RootWithout(s) == { [disk.root EXCEPT ![s] = left] : left \in Leftovers }

RootReads == {disk.root} \cup UNION { RootWithout(s) : s \in DOMAIN disk.root }

fsysFatDirectory(part, root) == FirstNamed(root, part)

(* The directory's sectors as fsysFatRead brings them; behind the last one  *)
(* it stays where it is.                                                    *)
Walk(cluster) ==
    LET at[i \in 1 .. DirReads] ==
            IF i = 1 THEN [at |-> cluster, eof |-> 0]
            ELSE fsysFatRead(at[i - 1]).file
    IN  [i \in 1 .. DirReads |-> at[i].at]

EntriesIn(cluster) ==
    IF cluster \in DOMAIN disk.dirs THEN disk.dirs[cluster] ELSE <<>>

(* The local `file' it reads through is not initialised, and the directory  *)
(* kFile is not used: the walk starts anywhere.                             *)
fsysFatOpenSubDir(kFile, part) ==
    { FirstNamed([i \in 1 .. DirReads |-> EntriesIn(Walk(c)[i])], part) :
        c \in Clusters }

(* The results an open may have.  A file ends the walk along the path, what *)
(* follows its name is not looked at.                                       *)
fsysFatOpen(path, root) ==
    LET opened[i \in 0 .. Len(path) - 2] ==
            IF i = 0 THEN {fsysFatDirectory(path[2], root)}
            ELSE UNION { IF f.flags = FS_DIR THEN fsysFatOpenSubDir(f, path[i + 2]) ELSE {f} :
                           f \in opened[i - 1] }
    IN  IF Len(path) = 1 THEN {fsysFatDirectory(path[1], root)}
        ELSE opened[Len(path) - 2]
=============================================================================
