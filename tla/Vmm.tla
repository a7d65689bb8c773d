-------------------------------- MODULE Vmm --------------------------------
(***************************************************************************)
(* The virtual memory manager, Kernel/vmm.c, over physical memory.         *)
(*                                                                         *)
(* Page directories and page tables are frames of words, and the code      *)
(* reaches them at their physical address, which works only where that     *)
(* address is mapped to itself; anywhere else the access is a page fault   *)
(* and the machine stops.  The calls nest, so each operation maps a        *)
(* machine [mem, used, stopped] to the machine it leaves.                  *)
(*                                                                         *)
(* The frames come from pmm.c: the lowest free one, 0 when none is free.   *)
(* Addresses are counted in pages.                                         *)
(***************************************************************************)
EXTENDS Integers, FiniteSets, FiniteSetsExt

CONSTANTS
    Entries,      \* words in a table or directory (1024)
    FrameCount,   \* frames of physical memory
    Reserved,     \* sets of frames the boot may keep out of the pool
    DirBlocks,    \* frames taken for the directory (3)
    KernelIndex,  \* directory entry of 0xC0000000
    Junk          \* what a free frame's words may hold when the kernel starts

Frame == 0 .. (FrameCount - 1)
Word == [frame : 0 .. (Entries * Entries - 1), flags : Nat]
Zero == [frame |-> 0, flags |-> 0]

ASSUME VmmAssumption ==
    /\ Entries \in Nat \ {0}
    /\ FrameCount \in 1 .. (Entries * Entries)
    /\ \A marked \in Reserved : marked \subseteq Frame /\ 0 \in marked
    /\ DirBlocks \in Nat \ {0} /\ KernelIndex \in 1 .. (Entries - 1)
    /\ Junk \subseteq Word

VARIABLES
    mem,             \* frame -> its words
    used,            \* frames marked in the frame bitmap
    stopped,         \* a page fault ended in kernel_panic
    cur_directory    \* the frame of _cur_directory, 0 before vmm_initialize

vmmVars == <<mem, used, stopped, cur_directory>>

Machine == [mem |-> mem, used |-> used, stopped |-> stopped]
Becomes(m) == mem' = m.mem /\ used' = m.used /\ stopped' = m.stopped

VmmInit ==
    /\ \E w \in Junk : mem = [f \in Frame |-> [i \in 0 .. (Entries - 1) |-> w]]
    /\ used \in Reserved
    /\ stopped = FALSE
    /\ cur_directory = 0

-----------------------------------------------------------------------------
(* Words and translation *)

I86_PTE_PRESENT == 1
I86_PTE_WRITABLE == 2

Present(w) == w.flags % 2 = 1

FreeFrames(m) == Frame \ m.used

Pde(m, page) == m.mem[cur_directory][page \div Entries]
Pte(m, page) == m.mem[Pde(m, page).frame][page % Entries]

Mapped(m, page) ==
    /\ Present(Pde(m, page)) /\ Pde(m, page).frame \in Frame
    /\ Present(Pte(m, page))

(* A physical address is usable as a pointer. *)
Reachable(m, f) == Mapped(m, f) /\ Pte(m, f).frame = f

Stop(m) == [m EXCEPT !.stopped = TRUE]

-----------------------------------------------------------------------------
(* vmm_initialize: the identity map of the first table, the same frames     *)
(* again at 0xC0000000, and the directory with both.                        *)

(* Variant: the loop misses the last page. *)
TableOfShort(flags) ==
    [i \in 0 .. (Entries - 1) |->
        IF i = Entries - 1 THEN Zero ELSE [frame |-> i, flags |-> flags]]

TableOf(flags) == [i \in 0 .. (Entries - 1) |-> [frame |-> i, flags |-> flags]]

vmm_initialize ==
    LET first  == Min(Frame \ used)
        second == Min(Frame \ (used \cup {first}))
        free   == Frame \ (used \cup {first, second})
        dirs   == { f \in free : f .. (f + DirBlocks - 1) \subseteq free }
        dir    == Min(dirs)
    IN  /\ cur_directory = 0
        /\ Cardinality(Frame \ used) > 2 /\ dirs # {}
        /\ used' = used \cup {first, second} \cup dir .. (dir + DirBlocks - 1)
        /\ mem' = [mem EXCEPT
                ![first] = TableOf(I86_PTE_PRESENT),
                ![second] = TableOf(I86_PTE_PRESENT),
                ![dir] = [i \in 0 .. (Entries - 1) |->
                            CASE i = 0 -> [frame |-> second, flags |-> 3]
                              [] i = KernelIndex -> [frame |-> first, flags |-> 3]
                              [] OTHER -> Zero]]
        /\ cur_directory' = dir
        /\ UNCHANGED stopped

-----------------------------------------------------------------------------
(* vmm_createPageTable, vmm_mapPhysicalAddr *)

Store(m, f, i, w) ==
    IF Reachable(m, f) THEN [m EXCEPT !.mem[f][i] = w] ELSE Stop(m)

(* memset(entry, 0, 4096), where the entry is the frame's address plus the  *)
(* flags: the first `flags' bytes stay and as many behind the frame go.  A  *)
(* word is 4 bytes, and what a word says of a frame is in its low bytes.    *)
Shift(flags) == (flags + 3) \div 4

ClearWords(words, from, to) ==
    [i \in 0 .. (Entries - 1) |-> IF i \in from .. to THEN Zero ELSE words[i]]

ClearTable(m, f, flags) ==
    LET cleared == [m EXCEPT !.mem[f] = ClearWords(@, Shift(flags), Entries - 1)]
    IN  IF ~ Reachable(m, f) THEN Stop(m)
        ELSE IF f + 1 \notin Frame \/ ~ Reachable(cleared, f + 1) THEN Stop(cleared)
        ELSE [cleared EXCEPT !.mem[f + 1] = ClearWords(@, 0, Shift(flags) - 1)]

(* The new table is mapped to itself last.  A table the code could clear    *)
(* lies where a table exists already, so this never creates another one.    *)
vmm_createPageTable(m, page, flags) ==
    IF Pde(m, page) # Zero \/ FreeFrames(m) = {} THEN m
    ELSE LET block   == Min(FreeFrames(m))
             word    == [frame |-> block, flags |-> flags]
             entered == [m EXCEPT !.used = @ \cup {block},
                                  !.mem[cur_directory][page \div Entries] = word]
             cleared == ClearTable(entered, block, flags)
         IN  IF cleared.stopped THEN cleared
             ELSE Store(cleared, Pde(cleared, block).frame, block % Entries, word)

(* The result of vmm_createPageTable is ignored: without a frame for the    *)
(* table the directory entry is still 0, and so is the table's address.     *)
vmm_mapPhysicalAddr(m, page, f, flags) ==
    LET t == vmm_createPageTable(m, page, flags)
    IN  IF t.stopped THEN t
        ELSE Store(t, Pde(t, page).frame, page % Entries,
                   [frame |-> f, flags |-> flags])

-----------------------------------------------------------------------------
(* vmm_unmapPhysicalAddr: the whole table goes, its frame is returned. *)

(* Variant: the directory keeps its entry. *)
vmm_unmapPhysicalAddr_kept(m, page) ==
    [m EXCEPT !.used = @ \ {Pde(m, page).frame}]

vmm_unmapPhysicalAddr(m, page) ==
    IF Pde(m, page) = Zero THEN m
    ELSE [m EXCEPT !.used = @ \ {Pde(m, page).frame},
                   !.mem[cur_directory][page \div Entries] = Zero]
=============================================================================
