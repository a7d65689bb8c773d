------------------------------- MODULE Files -------------------------------
(***************************************************************************)
(* The virtual file system, Fs/vfs.c, with its two file systems, and the   *)
(* commands cat, cd and floppydump of the shell, Shell/seashell.c.  The    *)
(* user types a path, reads a file block by block, and types the next path;*)
(* the current path and the ramdisk keep what earlier commands left in     *)
(* them.  Some reads of the floppy fail.                                   *)
(***************************************************************************)
EXTENDS Ramdisk, Stdio

CONSTANTS
    Typed,       \* the paths users type
    Dumped,      \* what users type for the sector to dump
    DiskSectors, \* sectors of the disk (2880)
    MaxFailures, \* bound: reads of the floppy that fail
    MaxParts,    \* bound: parts of the current path
    MaxPrinted   \* bound: blocks remembered, no file has more

(* No file is longer than MaxPrinted: from a cluster of the disk, rank more *)
(* of the file follow.                                                      *)
ASSUME FilesAssumption ==
    /\ DiskSectors \in 0 .. LONG_MAX
    /\ MaxFailures \in Nat /\ MaxParts \in Nat \ {0, 1} /\ MaxPrinted \in Nat \ {0}
    /\ \A tape \in Archives : \A i \in DOMAIN tape : tape[i].size <= MaxPrinted * TarBlock
    /\ \A d \in Disks : \E rank \in [DOMAIN d.next -> 0 .. MaxPrinted - 1] :
         \A c \in DOMAIN d.next :
            d.next[c] \in DOMAIN d.next => rank[d.next[c]] < rank[c]
    /\ Dumped \subseteq Seq(Nat)
    /\ {"x", ":", "none"} \subseteq STRING

VARIABLES
    _FileSystems,    \* the file system of each device letter
    currPath,
    command,         \* what the shell does
    path,            \* the last path given to cat
    sectornumbuf,    \* what was typed for the sector floppydump shows
    file,            \* the file cat reads
    printed,         \* the blocks printed
    added,           \* what cat shows besides them
    failures,        \* reads that may still fail
    spoiled          \* one of this command's did

vars == <<disk, archive, _FileSystems, currPath, command, path, sectornumbuf, file,
          printed, added, failures, spoiled>>

Letters == {"a", "b", "x"}

(* kmain mounts the floppy if there is one, and the ramdisk. *)
Init ==
    /\ disk \in Disks
    /\ \E tape \in Archives : archive = Loaded(tape)
    /\ \E floppy \in BOOLEAN :
          _FileSystems = [d \in Letters |-> CASE d = "x" -> "RAMDISK"
                                              [] d = "a" /\ floppy -> "FAT12"
                                              [] OTHER -> "none"]
    /\ currPath = << <<"x", ":">>, <<>> >>
    /\ command = "prompt" /\ path = << <<>> >> /\ file = Invalid
    /\ printed = <<>> /\ added = {} /\ sectornumbuf = <<>>
    /\ failures = MaxFailures /\ spoiled = FALSE

-----------------------------------------------------------------------------
(* Fs/vfs.c *)

(* The device: the letter in front of a colon, or the caller's. *)
Prefixed(fname) == Len(fname[1]) >= 2 /\ fname[1][2] = ":"

Device(fname, device) == IF Prefixed(fname) THEN fname[1][1] ELSE device

Unprefixed(fname) ==
    IF Prefixed(fname) THEN <<SubSeq(fname[1], 3, Len(fname[1]))>> \o Tail(fname)
    ELSE fname

(* What an open may return, and the ramdisk it leaves behind; root is what  *)
(* is read of the floppy's root directory.                                  *)
volOpenFile(fname, device, root) ==
    LET d == Device(fname, device)
        name == Unprefixed(fname)
        on(f) == [f EXCEPT !.deviceID = d]
    IN  CASE _FileSystems[d] = "FAT12" ->
               { [file |-> on(f), archive |-> archive] : f \in fsysFatOpen(name, root) }
          [] _FileSystems[d] = "RAMDISK" ->
               LET open == fsysRdOpen(name)
               IN  { [file |-> on(open.file), archive |-> open.archive] }
          [] OTHER -> { [file |-> Invalid, archive |-> archive] }

volReadFile(f) ==
    IF _FileSystems[f.deviceID] = "FAT12" THEN fsysFatRead(f) ELSE fsysRdRead(f)

volCloseFile(f) == [f EXCEPT !.flags = FS_INVALID]

-----------------------------------------------------------------------------
(* Shell/seashell.c *)

(* The shell looks for a > in the third place.  Names of files and          *)
(* directories are at least three characters long; behind a shorter line    *)
(* the code would test what an earlier command left in the buffer.          *)
Absolute(typed) == Len(typed[1]) >= 3 /\ typed[1][3] = ">"

(* In front of the > is the letter of a volume and its shift.               *)
ASSUME TypedAssumption ==
    \A typed \in Typed :
       /\ typed \in Seq(Seq(STRING)) /\ typed # <<>>
       /\ Absolute(typed) => ~ Prefixed(typed) /\ typed[1][1] \in Letters

strcat(p, q) == Front(p) \o <<Last(p) \o q[1]>> \o Tail(q)

FullPath(typed) == IF Absolute(typed) THEN typed ELSE strcat(currPath, typed)

CurrentDevice == currPath[1][1]

(* A command that returns leaves nothing of its local variables. *)
Forget ==
    /\ path' = << <<>> >> /\ file' = Invalid
    /\ printed' = <<>> /\ added' = {} /\ spoiled' = FALSE

(* What an open reads of the root directory; at most one sector is not read.*)
RootsRead(fname) ==
    IF failures = 0 \/ _FileSystems[Device(fname, CurrentDevice)] # "FAT12"
    THEN {disk.root} ELSE RootReads

(* A leftover that is what should have been read spoils nothing.            *)
Counted(root) ==
    failures' = IF root = disk.root THEN failures ELSE failures - 1

cmd_read_file ==
    /\ command = "prompt"
    /\ \E typed \in Typed : \E root \in RootsRead(FullPath(typed)) :
       \E open \in volOpenFile(FullPath(typed), CurrentDevice, root) :
          /\ Counted(root) /\ spoiled' = (failures' # failures)
          /\ path' = FullPath(typed)
          /\ archive' = open.archive
          /\ file' = open.file
          /\ command' = IF open.file.flags = FS_FILE THEN "cat" ELSE "prompt"
    /\ printed' = <<>> /\ added' = {}
    /\ UNCHANGED <<disk, _FileSystems, currPath, sectornumbuf>>

(* Nothing ends the text in the array but a zero in the block: a block full *)
(* of text goes on with what lies on the stack behind it.  Behind the end   *)
(* of a file the archive holds zeros, the disk anything.                    *)
OnTheStack == "on the stack"

BehindTheBlock ==
    IF /\ _FileSystems[file.deviceID] # "FAT12"
       /\ file.at + TarBlock > file.position + file.length
    THEN {{}} ELSE {{}, {OnTheStack}}

(* The next block, after a key from the second one on; behind the last one  *)
(* the file is closed.                                                      *)
Prints(read) ==
    /\ command = "cat"
    /\ printed' = IF Len(printed) = MaxPrinted THEN printed
                  ELSE Append(printed, read.block)
    /\ \E behind \in BehindTheBlock : added' = added \cup read.added \cup behind
    /\ IF read.file.eof = 1
       THEN command' = "prompt" /\ file' = volCloseFile(read.file)
       ELSE command' = "cat" /\ file' = read.file
    /\ UNCHANGED <<disk, archive, _FileSystems, currPath, path, sectornumbuf>>

ReadOn == Prints(volReadFile(file)) /\ UNCHANGED <<failures, spoiled>>

ReadFails ==
    /\ failures > 0 /\ command = "cat" /\ _FileSystems[file.deviceID] = "FAT12"
    /\ \E read \in fsysFatReadFails(file) : Prints(read)
    /\ failures' = failures - 1 /\ spoiled' = TRUE

(* What floppydump gets: the sector, or the buffer as an earlier read left  *)
(* it.  A number that is not on the disk is one of a sector that is on no   *)
(* track (-1: sector 0 of track 0), and its read fails.                     *)
SectorRead(sectornum) ==
    /\ sectornum \in 0 .. (DiskSectors - 1)
    /\ printed' = <<sectornum>> /\ spoiled' = FALSE /\ UNCHANGED failures

SectorUnread(sectornum) ==
    /\ printed' = <<Unread>> /\ spoiled' = TRUE
    /\ IF sectornum \in 0 .. (DiskSectors - 1)
       THEN failures > 0 /\ failures' = failures - 1 ELSE UNCHANGED failures

(* floppydump prints it in four pages, with a key after each.               *)
cmd_read_sect ==
    /\ command = "prompt" /\ _FileSystems["a"] = "FAT12"
    /\ \E typed \in Dumped :
         /\ sectornumbuf' = typed
         /\ SectorRead(atoi(typed)) \/ SectorUnread(atoi(typed))
    /\ command' = "dump" /\ path' = << <<>> >> /\ file' = Invalid /\ added' = {}
    /\ UNCHANGED <<disk, archive, _FileSystems, currPath>>

(* It prints an error only where there is no drive, or when the seek fails. *)
cmd_read_sect_fails ==
    /\ command = "prompt"
    /\ \/ _FileSystems["a"] = "none" /\ UNCHANGED failures
       \/ _FileSystems["a"] = "FAT12" /\ failures > 0 /\ failures' = failures - 1
    /\ Forget
    /\ UNCHANGED <<disk, archive, _FileSystems, currPath, command, sectornumbuf>>

DumpEnds ==
    /\ command = "dump" /\ command' = "prompt"
    /\ sectornumbuf' = <<>> /\ Forget
    /\ UNCHANGED <<disk, archive, _FileSystems, currPath, failures>>

(* Variant: the second strcat is missing. *)
cmd_change_dir_no_slash ==
    /\ command = "prompt"
    /\ \E typed \in Typed : \E root \in RootsRead(FullPath(typed)) :
       \E open \in volOpenFile(FullPath(typed), CurrentDevice, root) :
          /\ Counted(root)
          /\ archive' = open.archive
          /\ currPath' = IF open.file.flags = FS_DIR
                         THEN FullPath(typed) ELSE currPath
    /\ Len(currPath') <= MaxParts /\ Forget
    /\ UNCHANGED <<disk, _FileSystems, command, sectornumbuf>>

(* Variant: anything that opens becomes the current directory. *)
cmd_change_dir_any ==
    /\ command = "prompt"
    /\ \E typed \in Typed : \E root \in RootsRead(FullPath(typed)) :
       \E open \in volOpenFile(FullPath(typed), CurrentDevice, root) :
          /\ Counted(root)
          /\ archive' = open.archive
          /\ currPath' = IF open.file.flags # FS_INVALID
                         THEN Append(FullPath(typed), <<>>) ELSE currPath
    /\ Len(currPath') <= MaxParts /\ Forget
    /\ UNCHANGED <<disk, _FileSystems, command, sectornumbuf>>

cmd_change_dir ==
    /\ command = "prompt"
    /\ \E typed \in Typed : \E root \in RootsRead(FullPath(typed)) :
       \E open \in volOpenFile(FullPath(typed), CurrentDevice, root) :
          /\ Counted(root)
          /\ archive' = open.archive
          /\ currPath' = IF open.file.flags = FS_DIR
                         THEN Append(FullPath(typed), <<>>) ELSE currPath
    /\ Len(currPath') <= MaxParts /\ Forget
    /\ UNCHANGED <<disk, _FileSystems, command, sectornumbuf>>

Next ==
    \/ cmd_read_file \/ ReadOn \/ ReadFails
    \/ cmd_read_sect \/ cmd_read_sect_fails \/ DumpEnds
    \/ cmd_change_dir

(* The reader presses a key when the shell asks for one. *)
Spec == Init /\ [][Next]_vars /\ WF_vars(ReadOn) /\ WF_vars(DumpEnds)

-----------------------------------------------------------------------------
(* What is on the volumes *)

ClustersFrom(c) ==
    LET from[x \in Clusters] ==
            IF disk.next[x] \in Clusters THEN <<x>> \o from[disk.next[x]] ELSE <<x>>
    IN  from[c]

(* The entry a sequence of names leads to, or none. *)
FatEntries(names) ==
    LET under[i \in DOMAIN names] ==
            { e \in IF i = 1 THEN UNION { ToSet(s) : s \in ToSet(disk.root) }
                    ELSE UNION { ToSet(EntriesIn(c)) :
                                   c \in UNION { ToSet(ClustersFrom(d.cluster)) :
                                                   d \in { d \in under[i - 1] : d.dir } } } :
                e.name = ToDosFileName(names[i]) }
    IN  under[Len(names)]

TapeHeaders(names) == { a \in DOMAIN archive : check_dir(archive[a].name) = names }

(* The contents of the file, or the directory, that has these names. *)
FilesAt(fs, names) ==
    IF fs = "FAT12"
    THEN { [i \in DOMAIN ClustersFrom(e.cluster) |->
              DataStart - 2 + ClustersFrom(e.cluster)[i]] :
             e \in { e \in FatEntries(names) : ~ e.dir } }
    ELSE { [i \in 1 .. ((archive[a].size + TarBlock - 1) \div TarBlock) |->
              a + i * TarBlock] :
             a \in { a \in TapeHeaders(names) : ~ archive[a].dir } }

IsDirectory(names) == \E a \in TapeHeaders(names) : archive[a].dir

-----------------------------------------------------------------------------
(* Properties *)

TypeOK ==
    /\ command \in {"prompt", "cat", "dump"}
    /\ failures \in 0 .. MaxFailures /\ spoiled \in BOOLEAN
    /\ file.flags \in {FS_FILE, FS_DIR, FS_INVALID}
    /\ currPath \in Seq(Seq(STRING)) /\ Last(currPath) = <<>>
    /\ Len(currPath) \in 2 .. MaxParts
    /\ \A i \in DOMAIN printed : printed[i] \in Nat
    /\ added \subseteq {AtZero, OnTheStack}

(* The walk into subdirectories of FAT12 is left out: its result is         *)
(* arbitrary.  So is an empty file, of which every volume prints a block    *)
(* that is not its own.                                                     *)
Covered(device, p) ==
    /\ _FileSystems[device] = "FAT12" => Len(p) = 2
    /\ file.length > 0

Decimal(digits) ==
    LET value[i \in 0 .. Len(digits)] ==
            IF i = 0 THEN 0 ELSE 10 * value[i - 1] + (digits[i] - 48)
    IN  value[Len(digits)]

(* The blocks cat prints of a file are those of the file: its clusters in   *)
(* the order of the FAT, its blocks on the tape, from the first to the last *)
(* and no other block, whatever was opened before and whichever read of an  *)
(* earlier command failed.  Between them cat shows text that is not the     *)
(* file's; from a ramdisk file that fits a block it is only the text at     *)
(* address 0.  floppydump prints the sector whose number was typed, when    *)
(* its read did not fail.                                                   *)
PrintsTheFile ==
    /\ command # "dump" /\ printed # <<>> /\ ~ spoiled /\ Covered(file.deviceID, path) =>
         \E n \in 2 .. Len(path) :
         \E content \in FilesAt(_FileSystems[file.deviceID], SubSeq(path, 2, n)) :
            /\ IsPrefix(printed, content)
            /\ command = "prompt" => printed = content
    /\ OnTheStack \in added /\ file.length < TarBlock
         => _FileSystems[file.deviceID] = "FAT12"
    /\ command = "dump" /\ ~ spoiled /\ (\A i \in DOMAIN sectornumbuf : isdigit(sectornumbuf[i]))
         => printed = <<Decimal(sectornumbuf)>>

(* Only a cat leaves its path behind. *)
Refuses ==
    /\ command = "prompt" /\ command' = "prompt" /\ ~ spoiled'
    /\ path' # << <<>> >>

Named(p, device) ==
    IF _FileSystems[device] \notin {"FAT12", "RAMDISK"} \/ Len(p) < 2 THEN {}
    ELSE FilesAt(_FileSystems[device], Tail(p))

(* A file that is there is found, also after other paths were opened and    *)
(* the archive's names were changed.  Named with a > instead of the drive   *)
(* and colon, it is found in the root directory only.                       *)
FindsWhatIsThere ==
    [][Refuses /\ (Prefixed(path') \/ Len(path') = 2)
         => Named(path', CurrentDevice) = {}]_vars

DosDirectories ==
    { e.name : e \in { e \in UNION { ToSet(s) : s \in ToSet(disk.root) \cup Range(disk.dirs) } :
                         e.dir } }

(* The current path never names a file, nor what is on no volume: it is a   *)
(* root, or names a directory of the ramdisk, or, once a volume was typed,  *)
(* its last name is that of a directory of the floppy.  It does not follow  *)
(* that it is a directory of the volume whose letter it begins with: cd     *)
(* looks on the volume of the old path and takes over the letter typed.     *)
CurrentIsDirectory ==
    LET names == Front(Tail(currPath))
    IN  \/ names = <<>> \/ IsDirectory(names)
        \/ /\ ~ Prefixed(currPath) /\ _FileSystems["a"] = "FAT12"
           /\ ToDosFileName(Last(names)) \in DosDirectories

(* Reading a file comes to its end, also an empty one, which on the floppy  *)
(* is read as a chain that leaves the disk, and one with reads that failed  *)
(* and that goes on anywhere.                                               *)
EveryFileEnds == command # "prompt" ~> command = "prompt"

(* fat12.c:147, "Locate a file or folder in subdir": a file in a directory  *)
(* of the floppy is found.                                                  *)
FindsInSubdirectory ==
    [][Refuses /\ _FileSystems[CurrentDevice] = "FAT12" => Named(path', CurrentDevice) = {}]_vars
=============================================================================
