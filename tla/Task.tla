-------------------------------- MODULE Task --------------------------------
(***************************************************************************)
(* `exec': createProcess and executeProcess (Kernel/task.c) with the ELF    *)
(* check (Kernel/elf32.c), on the address space the kernel and its heap     *)
(* live in.  The program is loaded into that address space, and             *)
(* executeProcess leaves for user mode and never comes back, so nothing     *)
(* follows it.                                                              *)
(*                                                                          *)
(* A file is a number of blocks; every word of block k is Data(k).          *)
(* Addresses of the program are counted in pages, its size in memory and    *)
(* its file in blocks.                                                      *)
(***************************************************************************)
EXTENDS HeapHooks

CONSTANTS
    BlocksPerPage,  \* 8: blocks of 512 bytes
    Files           \* what the path given to exec may name

ASSUME TaskAssumption ==
    /\ BlocksPerPage \in Nat \ {0} /\ Entries % BlocksPerPage = 0
    /\ \A p \in Files : /\ p.vpage \in Nat /\ p.mem \in Nat
                        /\ p.blocks \in 1 .. (Entries * Entries - 1)

VARIABLE user     \* <<>> in the shell, else the process started

taskVars == <<mem, used, stopped, cur_directory, granted, user>>

I86_PTE_USER == 4
Flags == I86_PTE_PRESENT + I86_PTE_WRITABLE + I86_PTE_USER

WordsPerBlock == Entries \div BlocksPerPage
Data(k) == [frame |-> k + 1, flags |-> k]

-----------------------------------------------------------------------------
(* elf_check_header, elf_check_support *)

ELFMAG == <<127, "E", "L", "F">>
ELFCLASS32 == 1
ELFDATA2LSB == 1
EM_386 == 3
EV_CURRENT == 1
ET_REL == 1
ET_EXEC == 2

elf_check_header(h) == h.mag = ELFMAG

(* Variant: the target machine is not looked at. *)
elf_check_support_any_machine(h) ==
    /\ elf_check_header(h)
    /\ h.class = ELFCLASS32 /\ h.data = ELFDATA2LSB
    /\ h.version = EV_CURRENT /\ h.type \in {ET_REL, ET_EXEC}

elf_check_support(h) ==
    /\ elf_check_header(h)
    /\ h.class = ELFCLASS32 /\ h.data = ELFDATA2LSB
    /\ h.machine = EM_386
    /\ h.version = EV_CURRENT /\ h.type \in {ET_REL, ET_EXEC}

-----------------------------------------------------------------------------
(* Loading the image *)

(* pmm_alloc_block; its NULL, frame 0, is used like any other. *)
Taken(m) == IF FreeFrames(m) = {} THEN 0 ELSE Min(FreeFrames(m))
Taking(m) == [m EXCEPT !.used = @ \cup {Taken(m)}]

(* The kernel writes w into words a to b of the page, wherever that page is *)
(* mapped; what lies behind the last frame is lost.                         *)
Write(m, page, a, b, w) ==
    IF m.stopped THEN m
    ELSE IF ~ Mapped(m, page) THEN Stop(m)
    ELSE IF Pte(m, page).frame \notin Frame THEN m
    ELSE [m EXCEPT !.mem[Pte(m, page).frame] =
             [i \in 0 .. (Entries - 1) |-> IF i \in a .. b THEN w ELSE @[i]]]

(* volReadFile: block k of the file, to the address of block `to'. *)
volReadFile(m, to, k) ==
    LET a == (to % BlocksPerPage) * WordsPerBlock
    IN  Write(m, to \div BlocksPerPage, a, a + WordsPerBlock - 1, Data(k))

(* volReadFile in a loop: n blocks of the file from block k on, to a page.  *)
Reading(m, page, k, n) ==
    LET turn[i \in 0 .. n] ==
            IF i = 0 THEN m
            ELSE volReadFile(turn[i - 1], page * BlocksPerPage + i - 1, k + i - 1)
    IN  turn[n]

Map(m, page, f) == IF m.stopped THEN m ELSE vmm_mapPhysicalAddr(m, page, f, Flags)

ImageSize(p) == p.vpage * BlocksPerPage + p.mem

(* Blocks read before the first page is mapped: the loop is bounded by the  *)
(* end of the image, not by the page it reads into.                         *)
FirstBlocks(p) == Min({p.blocks, ImageSize(p) + 1})

LoadFirst(m, p) ==
    LET memory  == Taken(m)
        cleared == Write(Taking(m), memory, 0, Entries - 1, Zero)
    IN  Map(Reading(cleared, memory, 0, FirstBlocks(p)), p.vpage, memory)

(* Blocks of the i-th page behind the first. *)
BlockOfPage(p, i) == FirstBlocks(p) + (i - 1) * BlocksPerPage
BlocksOfPage(p, i) ==
    BlockOfPage(p, i) .. (Min({p.blocks, BlockOfPage(p, i) + BlocksPerPage}) - 1)

(* Variant: i is not advanced. *)
LoadPage_same(p, m, i) ==
    Map(Reading(Taking(m), Taken(m), BlockOfPage(p, i), Cardinality(BlocksOfPage(p, i))),
        p.vpage + 1, Taken(m))

LoadPage(p, m, i) ==
    Map(Reading(Taking(m), Taken(m), BlockOfPage(p, i), Cardinality(BlocksOfPage(p, i))),
        p.vpage + i, Taken(m))

MorePages(p) == (p.blocks - FirstBlocks(p) + BlocksPerPage - 1) \div BlocksPerPage

(* p_vaddr is added to the end of the image, which holds it already. *)
StackPage(p) == (p.vpage * BlocksPerPage + ImageSize(p)) \div BlocksPerPage + 1

createProcess(p) ==
    LET loaded[i \in 0 .. MorePages(p)] ==
            IF i = 0 THEN LoadFirst(Machine, p) ELSE LoadPage(p, loaded[i - 1], i)
        image == loaded[MorePages(p)]
    IN  Map(Taking(image), StackPage(p), Taken(image))

-----------------------------------------------------------------------------

Opens(p) == p.flags = "FS_FILE"

(* The process leaves with eip = e_entry + p_vaddr; the stack pointer that  *)
(* goes with it is 0, not initialStack.                                     *)
executeProcess(p) == <<p, p.entry + p.vpage>>

(* cmd_exec.  Without a process, proc->id is invalid and executeProcess     *)
(* returns.                                                                 *)
cmd_exec(p) ==
    /\ Running /\ user = <<>>
    /\ Opens(p) /\ elf_check_support(p)
    /\ Becomes(createProcess(p))
    /\ user' = IF createProcess(p).stopped THEN <<>> ELSE executeProcess(p)
    /\ UNCHANGED <<cur_directory, granted>>

cmd_exec_fails(p) ==
    /\ Running /\ user = <<>>
    /\ ~ (Opens(p) /\ elf_check_support(p))
    /\ UNCHANGED taskVars

KernelStep == user = <<>> /\ Next /\ UNCHANGED user

TaskInit == Init /\ user = <<>>

TaskNext ==
    \/ KernelStep
    \/ \E p \in Files : cmd_exec(p)
    \/ \E p \in Files : cmd_exec_fails(p)

TaskSpec == TaskInit /\ [][TaskNext]_taskVars

-----------------------------------------------------------------------------
(* Properties *)

TaskTypeOK ==
    /\ TypeOK
    /\ user = <<>> \/ \E p \in Files : user = executeProcess(p)

(* Every block read before the mapping fits the frame it is read into. *)
FitsFirstFrame(p) == FirstBlocks(p) <= BlocksPerPage

(* A program whose first blocks fit their frame is loaded around the tables *)
(* and the heap, also when a frame for its image, its stack or a table was  *)
(* missing: what TablesAreSound says of the address space still holds.      *)
TablesStaySound ==
    user = <<>> \/ FitsFirstFrame(user[1]) => TablesAreSound

(* So does what KernelStaysMapped says of the kernel, unless the program is *)
(* one for the first table's pages.                                         *)
KernelKeepsItsMap ==
    user = <<>> \/ (FitsFirstFrame(user[1]) /\ user[1].vpage >= Entries)
        => KernelStaysMapped

FrameOf(page) == Pte(Machine, page).frame

HoldsBlock(page, part, k) ==
    \A i \in 0 .. (WordsPerBlock - 1) :
        mem[FrameOf(page)][part * WordsPerBlock + i] = Data(k)

(* A process is started from an ELF file the kernel supports.  If its first *)
(* blocks fit one frame and frames did not run out, its pages and its stack *)
(* map frames of their own, which the pool had; the pages hold the file in  *)
(* order, but for the one at the stack's address, which the stack replaces: *)
(* of a program that is linked at 0 and goes on behind its first page, the  *)
(* second.  The rest of the first page is zero, and every other page maps   *)
(* what it mapped.                                                          *)
ProgramIsLoaded ==
    [][\A p \in Files : user = <<>> /\ user' = executeProcess(p) =>
         LET next  == { i \in 1 .. MorePages(p) : p.vpage + i # StackPage(p) }
             pages == {p.vpage, StackPage(p)} \cup { p.vpage + i : i \in next }
         IN  /\ p.mag = ELFMAG /\ p.machine = EM_386 /\ p.type \in {ET_REL, ET_EXEC}
             /\ FitsFirstFrame(p) /\ used' # Frame =>
                  /\ \A page \in pages :
                        Mapped(Machine, page)' /\ FrameOf(page)' \notin used \cup TableFrames'
                  /\ \A page, other \in pages :
                        page # other => FrameOf(page)' # FrameOf(other)'
                  /\ \A k \in 0 .. (FirstBlocks(p) - 1) : HoldsBlock(p.vpage, k, k)'
                  /\ \A i \in (FirstBlocks(p) * WordsPerBlock) .. (Entries - 1) :
                        (mem[FrameOf(p.vpage)][i] = Zero)'
                  /\ \A i \in next : \A k \in BlocksOfPage(p, i) :
                        HoldsBlock(p.vpage + i, (k - FirstBlocks(p)) % BlocksPerPage, k)'
                  /\ \A page \in (0 .. (Entries * Entries - 1)) \ pages :
                        Mapped(Machine, page) =>
                           Mapped(Machine, page)' /\ FrameOf(page)' = FrameOf(page)]_taskVars
=============================================================================
