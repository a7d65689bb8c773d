# SeaStar OS in TLA+

SeaStar OS is a small 32-bit x86 kernel: a frame allocator, paging, a kernel
heap, a keyboard and a floppy driver, a FAT12 and a ramdisk file system, and a
shell that runs in the kernel's only thread. These modules model the parts that
keep state, TLC checks them on small machines, and TLAPS proves, for machines of
every size, the claims about the frame allocator, the kernel's address space, the
kernel heap, the floppy driver, the keyboard's driver and line editor with its
screen, the file commands, the timer and the clock. Paths below are relative to `src/`.

`PROJECT.json` maps each definition to the lines it stands for, and lists the
runs, the mutants (one plausible bug per checked property, which the run
detects), the hazards and the theorems.

## 1. The system

One thread runs `kmain` (`Kernel/main.c`) and then `SeaShell`. Everything
concurrent is an interrupt handler (keyboard, floppy, timer) or the device
behind it. Nothing is persisted: the floppy and the ramdisk are only read. So
the hard behaviours are interrupts between two steps of the shell or of a
driver, timeouts, long sequences of allocations and frees, sizes and counts at
their limits, and errors that a caller does not look at.

| Component | State | Operations | What makes it correct |
|---|---|---|---|
| Frame allocator, `Kernel/pmm.c` | a bitmap behind the kernel image, a counter of used blocks | init, (de)init region, alloc/free of a block, alloc of a run | a frame has one owner; the kernel, its stack, the DMA buffer and the bitmap have none; the count is exact |
| Boot, `Kernel/main.c` | the boot loader's map | one region per available entry, two reservations, `vmm_initialize` | the same, from any map |
| Page tables, `Kernel/vmm*.c` | directory and tables in frames | initialize, create a table, map, unmap | kernel mappings stay; a table is never a heap page |
| Heap hooks, `Kernel/liballoc_hook.c` | none | find, map and unmap runs of pages | a grant is new memory; a free takes back its own pages only |
| Kernel heap, `Kernel/liballoc.c` | majors and minors, linked by addresses; best bet; byte counts | `kmalloc`, `krealloc`, `kfree` | chunks never meet headers or each other; lists, counts and best bet agree; empty majors go back |
| Keyboard, `Drivers/keyboard` | one slot, four modifier flags | interrupt handler, get/discard key | keys in order; modifiers follow the keys |
| Shell, `Shell/seashell.c` | line, current path, one process slot | line editor, `cat`, `cd`, `floppydump`, `time`, `elf32` | a key is used once; `cat` prints the file; the current path is a directory |
| Floppy driver, `Drivers/floppy` | interrupt flag, current drive | install, read sector (seek, command, wait) | the sector asked for comes back; every wait ends; nothing is left over |
| VFS, FAT12, ramdisk, `Fs/` | mounts; a file's cluster or address; names in the archive | open, read, close | a file that is there is found, and its blocks come in order |
| DMA controllers, `Arch/x86/Hal/dma.c` | address and count registers, flip-flop, masks | program channel 2 for a read | a transfer goes to the buffer and has its length |
| Timer, `Arch/x86/Hal/pit.c`, `Hal.c` | tick counter | interrupt, `sleep` | a sleep lasts as long as it was asked for |
| CMOS clock, `Arch/x86/Hal/rtc.c` | six global fields | `read_rtc` | the time is one the clock showed |
| Tasks, ELF32, `Kernel/task.c`, `elf32.c` | one process slot | `createProcess`, `executeProcess` | image and stack are mapped on frames of their own, what was mapped stays |
| Display, `Kernel/KernelDisplay.c` | video memory, cursor | put a character, scroll, move the cursor | the screen shows what the line is |
| PIC, GDT, IDT, TSS, system calls | tables | set up once | constants |
| `Lib/` | none | numbers, strings, formatting | pure |

How they meet: `kmain` brings up the frame allocator, then paging (which takes
frames from it), then the devices and the mounts; the heap calls the hooks, the
hooks call the page tables and the frame allocator, with interrupts off; the
shell polls the keyboard's slot, which the interrupt handler fills; the shell
calls the VFS, which calls FAT12 (which calls the floppy driver) or the ramdisk.

## 2. Modules

| Module | Models | Built on |
|---|---|---|
| `Pmm` | `Kernel/pmm.c`: bitmap, 32-bit counter, searches, region loops | |
| `FramePool` | abstract specification: what a frame allocator promises | |
| `PmmBoot` | `kmain` up to paging, then blocks that come and go | `Pmm`; implements `FramePool` |
| `PmmBootPC` | assumptions about memory maps and kernel image; the maps whose blocks can be counted (`TidyMaps`) | `PmmBoot` |
| `Lemmas` | facts about naturals, linked lists, sums and loops that the proofs share | TLAPS |
| `PmmBootProofs` | theorems about frame allocator and boot | `PmmBootPC`, `Lemmas` |
| `HeapProofs` | theorems about the heap: where things lie, and what is counted | `Heap`, `Lemmas` |
| `SpaceProofs` | theorems about the page tables, the hooks and `exec` | `Task`, `Lemmas` |
| `FloppyProofs` | theorems about the floppy driver | `Floppy`, `Lemmas` |
| `ConsoleProofs` | theorems about keyboard driver, line editor and screen | `Terminal`, `Lemmas` |
| `FilesProofs` | theorems about `cat`, `cd`, `floppydump` and the file systems under them | `Files`, `Lemmas` |
| `CmosProofs` | theorems about `sleep` and `read_rtc` | `Cmos`, `Lemmas` |
| `Vmm` | `Kernel/vmm.c`, `vmm_pte.c`, `vmm_pde.c`: memory as frames of words, address translation | |
| `HeapHooks` | `Kernel/liballoc_hook.c` | `Vmm` |
| `Task` | `Kernel/task.c`, `elf32.c` and the shell's `elf32` on the address space of the heap | `HeapHooks` |
| `Liballoc` | `Kernel/liballoc.c`: headers at byte addresses | |
| `Heap` | one holder using the heap over hooks that keep `Include/liballoc.h`'s promises | `Liballoc` |
| `Keyboard` | the handler, slot, modifiers, LED answers, and the keyboard itself (external) | |
| `Console` | `getch` and `get_cmd` with interrupts between their steps | `Keyboard` |
| `Display` | the text screen of `Kernel/KernelDisplay.c` | |
| `Terminal` | the line editor with its echo and prompt | `Console`, `Display` |
| `Timer` | tick counter and `sleep` | |
| `Cmos` | `read_rtc` and `is_fdd_present` beside the running clock (external) | `Timer` |
| `Dma` | `Arch/x86/Hal/dma.c` and `dma_init_floppydisk` | |
| `Fdc` | the floppy controller (external) as the driver uses it | `Dma` |
| `Floppy` | `Drivers/floppy/floppy_driver.c` | `Fdc` |
| `Fat12`, `Ramdisk` | `Fs/fat12.c`, `Fs/ramdisk.c` | each other, by EXTENDS |
| `Stdio` | `atoi` and `strtol` of `Lib/stdio.c` | |
| `Files` | `Fs/vfs.c`, `cat`, `cd` and `floppydump`, with reads that fail | `Ramdisk`, `Stdio` |
| `MC*` | small instances for TLC | |

Definitions keep the names of the C functions. A definition that starts with
the name of another one and a suffix, introduced by "Variant:", is a mutant and
is used by no specification.

How state and actions correspond:

* **Pmm/PmmBoot.** `memory_map` is the set of positions whose bit is 1;
  `used_blocks` is the counter modulo `UintMod`. Both region loops run one
  block too far (`blocks >= 0`) and so do `RegionBlocks`. `mmap_test` cuts the
  masked word to a byte, so bits above the low byte read as free. The searches
  of the code run over `MaxBlocks` *words* where bits were meant; the model
  follows `ScanWords` of them. Both return the lowest match, so cutting the scan
  short changes nothing when a match lies in front of the cut: `DirectoryRun`
  proves that for the directory, `FreeCountHonestHolds` for blocks. The
  probe of a run starts at `word * 32 + (1 << j)`; where that lies outside the
  modelled memory, `far` chooses what is there. `phase` is `kmain`'s program
  counter. `holders` is a history variable. `kmain` ignores the result of
  `vmm_initialize`: `VmmGivesUp` goes on.
* **Vmm/HeapHooks.** A frame holds `Entries` words; a word is a frame number and
  flag bits. The kernel writes physical addresses through the current mapping,
  so an access to a frame that is not mapped is a page fault and stops the
  machine (`stopped`). Each hook is one step, since `liballoc_lock` is `cli`.
  `HasRoom` is a bound: behind the last page `find_free_contiguous_pages` would
  look on at address 0, which takes a heap of 768 MB.
* **Task.** A block of a file is a number, and every word it fills carries that
  number, so that the property can say which block lies where. `createProcess`
  is one step: interrupt handlers touch none of its state. Frames and tables come
  from the same machine the heap's hooks use; a missing frame is frame 0, used
  like any other, as the code does. A process that was started never comes back
  to the shell, so `user` stays.
* **Liballoc/Heap.** Headers are records at addresses; `users` is what callers
  hold. The alignment byte, the gaps a chunk may go into and the
  search order are kept. `krealloc` is two steps when it grows: the `kmalloc`,
  then the `kfree` of the old block (which the code does even if the `kmalloc`
  failed).
* **Keyboard/Console.** The wire holds scan codes not yet taken by the handler;
  one run of the handler is a step (interrupts are off in it); the shell's poll,
  discard, use and sleep are four steps. A scan code behind the end of the
  table gives any key of `OutOfTable`.
* **Display/Terminal.** The screen is video memory and a cursor; `kernelPutc` is
  a function of both, the out-of-range positions included. Between two lines the
  shell prints an answer and a prompt of one row each. `start` and `plain` are
  history: where the line begins on the screen, and whether it was only edited in
  ways the screen can follow.
* **Timer/Cmos.** `TickMod` is the range of the counter. Each register of the
  clock is read in a step of its own, and the clock may raise its update flag,
  change and lower it between any two; while the flag is up a register shows its
  old or its new value. The clock shows 24 hours (of a 12-hour clock
  `read_rtc` keeps the highest bit, `HourFromBcd`). The loop of `sleep` looks at the
  counter more often than it ticks, which `_i86_pit_irq_c` states as its guard. A
  unit of `sleep` is a tick, 10 ms as `Hal.c` starts the timer, although the comment
  above it says milliseconds.
* **Floppy.** Every command to the controller, every wait, sleep and return is a
  step, so that controller and handler can run anywhere between. `prompt`,
  chosen in `Init`, says whether this machine's controller ends its commands
  within a wait.
* **Dma/Fdc.** The state of the two controllers is a record that each function of
  `dma.c` maps to the next one, down to the bit written: what is meant to mask
  channel 2 opens it, and the flip-flop that is reset is that of the other
  controller, so that halves stay in step only because every write comes in
  pairs. `dma_init_floppydisk` closes channel 4, through which channel 2 reaches
  memory, until its last call; a late read of the controller may run before, in
  or after that, also between it and the `dma_set_read` that opens channel 2 once
  more (`DmaMode`). A sector reaches `buffer` only if the registers point there.
* **Files.** A path is the sequence of its parts between slashes; a part is a
  sequence of tokens, so that a drive letter, a colon, the shifted `>` and a
  name can be told apart. The sector numbers, FAT entries that lie across
  sectors, and header addresses on the tape are computed as the code computes
  them. The ramdisk's `check_dir` rewrites names in the archive, so `archive`
  is a variable. A read of the floppy that fails gives the caller what an earlier one
  left in the buffer, or what lies at address 0, and the callers do not see the
  difference: `RootReads` is what a search may take for the root directory, `Unread` the
  sector `cat` or `floppydump` shows instead. `floppydump` prints an error only without a
  drive or when the seek fails. What `cat` shows besides the blocks of its file is
  `added`: `strcat` with a null pointer adds the text at address 0
  (`Fs/ramdisk.c:251`), and a block full of text goes on with what lies behind it.

## 3. Runs

Every run takes about a minute or less on two workers. Passing runs:

| Run | Instance | Shows |
|---|---|---|
| `pmm_boot` | 18 blocks, words of 8 and bytes of 4 bits, 6 memory maps, 3 of them too small for the tables or the directory, 2 contents of uninitialised memory; 20 602 states | `NeverTwice`, `ProtectedNeverHandedOut`, `FreeCountIsHonest`, and `IsFramePool` (implements `FramePool`, also when `vmm_initialize` gives up half way) |
| `heap` | 3 pages of 32 bytes, 3-byte headers, sizes 2, 7 and 54, 3 holders; 21 525 states | `UsersAreSeparate`, `UsersHaveHeaders`, `ListsAreSound`, `CountsAreExact`, `BestBetIsLive`, `EmptyMajorsGoBack`, `GrowsOnlyWhenFull` |
| `heap_hooks` | tables of 10 words, 18 frames or the first 10 of them, runs of up to 3 pages, 4 runs, then one of 14 files for `elf32`; 99 912 states | `TablesStaySound`, `KernelKeepsItsMap`, `GrantIsFresh`, `ProgramIsLoaded` |
| `console` | 6 keys, 3 presses, lines of 3; 1.6 million states | `KeysInOrder`, `NoStuckModifier` |
| `console_patient` | 6 keys, 4 presses, typist waits, lines of 4 on a screen of 3 rows of 2; 106 694 states | `PatientLosesNothing`, `EveryKeyArrives`, `ScreenShowsLine` |
| `floppy` | 3 tracks, 2 heads, 2 sectors, 2 tries, waits of 2 sleeps; 329 039 states | `SeekFindsTrack`, `TransfersFillTheBuffer`, `NothingLeftOver`, `WaitsForItsCommand`, `ReadsSucceed`, `CallsReturn` |
| `clock` | 3 instants around the turn of the century, BCD or binary, a counter that wraps after 5 ticks; 152 830 states | `TimeWasShown`, `SleepLasts`, `CallsReturn` |
| `files` | `initrd.tar` and a variant of it, 4 disks after `floppy_with_testing_files.img`, 15 typed paths, at most one read that fails; 22 138 states | `PrintsTheFile`, `CurrentIsDirectory`, `FindsWhatIsThere`, `EveryFileEnds` |

Each also checks a type invariant.

Runs in which the code does not do what its own comment says, each a finding in
`PROJECT.json`:

| Run | Property | What happens |
|---|---|---|
| `pmm_big_bitmap` | `ProtectedNeverHandedOut` | from about 128 MB on the bitmap takes more than one block, and only the off-by-one of the reservation loop reserves the first: a block of the bitmap is handed out |
| `hooks_free_unmaps_its_pages` | `FreeUnmapsItsPages` | `vmm_unmapPhysicalAddr` drops the whole table, so freeing one run unmaps the others in it |
| `console_characters` | `OnlyCharactersInLine` | a key code is cut to its low byte before it is tested for a character: shift and control put control characters into the line (a typist with a letter, shift, control and alt, none behind the table) |
| `files_subdirectory` | `FindsInSubdirectory` | `check_subdir` reads the directory through an uninitialised local, and a file that is there is not found |

### Why the bounds are enough

* `pmm_boot`: the low memory, a hole, the kernel and the bitmap's block each
  have frames of their own; words, bytes and blocks have different sizes, so an
  index computed with the wrong one differs; all orders of allocating and
  freeing the few frames left are explored. The theorems drop these bounds.
* `heap`: a page holds three small chunks or two larger ones, 54 needs two
  pages, so every kind of gap (front, between, end), growth behind existing
  majors, and exhaustion occur; three holders reach every position in a list
  (first, middle, last).
* `heap_hooks`: with 18 frames the heap fills its first table, a run crosses into
  a second one, and the frame for it lies where the kernel cannot reach it. With
  10, all of them reachable, frames run out while a page, a table, an image or a
  stack is being made. Four runs share a table and take it from each other. The
  files for `elf32` have one, two, four and five blocks with two blocks to a page, so
  that images end inside the first page, fill it and overrun it; they are linked at
  0, inside physical memory and above it.
* `console`: `MaxTyped` = 3 presses already give overwritten slots, both
  shifts, an LED command in progress, a full line and, with four in the patient
  run, caps lock on, used, off. Releases are not bounded separately, since a key
  can only be released after a press.
* `console_patient`: a prompt of one column in rows of two lets the second
  character wrap, the third start a row, and every answer scroll; `plain` ends at a
  backspace over the beginning of a row, which four presses reach.
* `clock`: every field changes at the turn of the century, and a reading may see
  up to two updates; a sleep of 2 and one of 3 in a counter of 5 end before, at
  and behind the wrap.
* `floppy`: two tries separate "first", "last" and "failed"; two sleeps separate
  an interrupt in time, at the limit and late. Requests on three tracks and
  both sides. Statuses are bounded by the four of a reset.
* `files`: sectors of four bytes put FAT entries across two sectors; chains go
  forwards and backwards; `MaxParts` bounds the current path, which a user can
  lengthen for ever with empty parts; `MaxPrinted` is one more block than any
  file has. One failure (`MaxFailures` = 1) reaches every sector an open or a read may
  ask for; with two failures and two of the disks the run ends as well, after 86 844
  states. Were reads to fail for ever, `cat` need not end: where it goes on is
  then anything, each time. Sector numbers typed are numbers, a negative one, letters and
  one behind the disk.

### Fairness

* `Console`: weak fairness of the handler (interrupts are taken: they are off
  only inside handlers) and of the shell, the only thread. None for the typist.
* `Floppy`: weak fairness of the driver always. Of the controller and the
  interrupt only if the controller is `prompt`. Claims that need an answer from
  the device (`ReadsSucceed`) are made for prompt ones; that every call returns
  (`CallsReturn`) is claimed for all.
* `Cmos`: weak fairness of the shell's thread, of the timer's interrupt and of the
  end of an update. The clock goes through a few instants, so it lets two
  readings agree in the end; the real one needs a second for an update, thousands
  of readings.
* `Files`: weak fairness of `ReadOn` and `DumpEnds`: the reader presses a key when
  `cat` or `floppydump` asks for one. Nobody has to type a command.

`CHECK_DEADLOCK FALSE` stands in two places: in `Task` and `HeapHooks`, where a
page fault or a started process is the end of the shell, and in `Console`, where a typist who has used up
`MaxTyped` presses leaves the shell spinning, which is not a step of the model.

## 4. Proofs

Every theorem holds for all values of the constants that satisfy the assumptions
named with it; TLC evaluates these assumptions in the runs. No theorem assumes
anything else about the system, except where a hypothesis is named below.

| Module | Theorems, and the property of a run they state | For every |
|---|---|---|
| `PmmBootProofs` | `TypeCorrect` (`TypeOK`), `NeverTwiceHolds` (`NeverTwice`), `ProtectedHolds` (`ProtectedNeverHandedOut`), `PoolRefined` (`IsFramePool`), `FreeCountHonestHolds` (`FreeCountIsHonest`) | memory size, word, byte, block and kernel size, content of uninitialised memory, maps in `PCMaps`, for the last one in `TidyMaps` |
| `HeapProofs` | `HeapTypeOK`, `HeapUsersSeparate`, `HeapUsersHaveHeaders`, `HeapListsSound`, `HeapBestBetLive`, `HeapCountsExact`, `HeapGivesBack` (`EmptyMajorsGoBack`), `HeapGrowsWhenFull` (`GrowsOnlyWhenFull`) | header size, alignment, page size, window, set of sizes asked for, number of holders |
| `SpaceProofs` | `TaskTypeCorrect` (`TaskTypeOK`), `TablesStaySoundHolds` (`TablesStaySound`), `KernelKeepsItsMapHolds` (`KernelKeepsItsMap`), `GrantIsFreshHolds` (`GrantIsFresh`), `ProgramIsLoadedHolds` (`ProgramIsLoaded`) | size of tables and memory, what the boot keeps out of the pool, place of kernel and heap, content of free frames, set of files |
| `FloppyProofs` | `FloppyTypeOK`, `FloppyLeavesNothing` (`NothingLeftOver`), `FloppyWaits` (`WaitsForItsCommand`), `FloppySeeks` (`SeekFindsTrack`), `FloppyTransfers` (`TransfersFillTheBuffer`) | tracks and sectors of a disk with two sides, number of tries and sleeps, sectors asked for |
| `ConsoleProofs` | `ConsoleTypeOK`, `KeysComeInOrder` (`KeysInOrder`), `NoModifierSticks` (`NoStuckModifier`) | set of keys, number of presses, length of the line, patient typist or not, memory behind the table |
| `ConsoleProofs` | `PatientIsHeard` (`PatientLosesNothing`) | the same, of a typist who is patient and has one shift key (`OneShiftKey`) |
| `ConsoleProofs` | `TerminalIsConsole` (the terminal implements the console), `ScreenIsHonest` (`ScreenShowsLine`) | the same, and rows and columns of the screen, prompt and answers of one row |
| `FilesProofs` | `FilesType` (`TypeOK`), `CatPrintsTheFile` (`PrintsTheFile`), `CdStaysInTheTree` (`CurrentIsDirectory`), `OpenFindsTheFile` (`FindsWhatIsThere`) | disks and archives that are well formed, layout of the disk, paths and sector numbers typed, number of reads that fail |
| `CmosProofs` | `CmosTypeOK`, `SleepLastsHolds` (`SleepLasts`), `TimeWasShownHolds` (`TimeWasShown`) | range of the tick counter, pauses, sequence of instants, drive types |

### Frame allocator and boot

They speak of `PCSpec`, which is `Spec` of `PmmBoot` on the memory maps in `PCMaps`.

**Assumptions.** `PmmAssumption`, `GarbageAssumption` and `BootAssumption` give
the constants their types; `PCMapsAssumption` says that `PCMaps` are some of the
maps. `LowMemoryAssumption` and `KernelAssumption` (`PmmBootPC`) state what the
boot silently relies on: a map of `PCMaps` begins with available memory at 0 that
is large enough for tables and directory (what the other maps lead to, when
`vmm_initialize` gives up, is model-checked only), and the kernel lies above that,
starts and ends on page boundaries (`linker.ld` aligns its sections), and is
followed by a bitmap that fits in one block. Without the last, `pmm_big_bitmap`
shows the claim to be false.

**Argument.** `NeverTwice` is not inductive. A single block comes from
`mmap_find_first_free`, whose result is clear by definition (`FirstFree`), and a
clear frame has no holder by `NeverTwice` itself. The directory is different:
`mmap_find_first_free_s` probes at `1 << j` instead of `j`, counts positions that
need not be adjacent, and hence may return a run with used blocks in it. It
does not at boot, because of where it is called: `LowInv` says that after the
reservations and the two page tables exactly the bottom of memory is used and
everything up to `Room` is free; `DirectoryRun` shows that the search then
settles, at the latest, at `FirstProbe`, the first bit of the next word, where
`1 << 0` and `0` probe nearly the same place, and that the whole run is free.
`ReservedInv` keeps what is reserved marked and unheld; `ProtectedReserved` and
`KernelFacts` show that the reserved blocks contain the kernel and, through the
off-by-one of the loop, the bitmap. `NoneHeld` before the pool opens makes the
region loops harmless: they clear marks only while nobody holds anything;
`EntryInv` ties the position in the map to the phase, so that `LowInv` speaks of the
time after the first entry. `IInv` is the conjunction; there is one lemma per
action (`StartPmmStep` ... `UseSteps`).

**Refinement.** `PoolRefined` goes step by step: the last reservation is the
pool's `Open`, a block or the directory's run a `Take`, a free a `Return`, all else
a stutter. The pool's count is the unsigned difference the code computes; `FreeInv`
says that it does not wrap when everything held comes back (`ReturnBlock`).

**The count.** `FreeCountHonestHolds` is about the maps in `TidyMaps`: the regions
`kmain` adds share no block, lie in the part of the bitmap that is modelled, and the kernel
lies in one of them. (A block in two regions is counted twice, and a block of the
kernel outside of all of them is subtracted without having been added.) The memset of
`pmm_init` also leaves blocks clear that are in no region, and the search may return one.
So the counter is not the number of clear blocks of the installed memory. What holds is a
conservation (`CountInv`): the counter, plus the held blocks from outside the regions, is
the number of clear blocks inside them. Taking a block from outside lowers the counter and
raises the second term. Hence a counter above zero leaves a clear block in a region, and
the search, which takes the lowest clear one, finds it or one before it. What it finds is in
a region, or in a hole between two of them, in the half of its blocks that the memset left
clear: `ClearInv` says that the blocks the memset marked (`MemsetMarks`) stay marked and
unheld unless a region was added over them. `ScanInv` says that the loop over the map has
looked at exactly the entries that count. The hypothesis
`ScanBits < UintMod` says that the counter can hold the number of blocks.

### Address space

**Assumptions.** `VmmAssumption`, `HookAssumption` and `TaskAssumption`: types, the heap
behind the kernel in the directory, a page of whole blocks, files of at least one
block. The theorems have hypotheses of their own. `MemoryBelowKernel`: memory ends
below the kernel's addresses, 3 GB. `ProgramsApart`: every file `exec` may find is
linked below the kernel, and either in the first table's pages or where no table of
its own shows an address that a frame has, as programs linked at 0x08048000 are on a
machine of up to 128 MB. Behind a program linked inside memory the kernel can
reach frames through the program's table, which was never cleared whole.
The instance of `heap_hooks` meets the first, and holds programs that are apart and
programs that are not.

**Argument.** `TablesAreSound` speaks of tables, but a table is a frame, and whether a
step can reach it depends on what all other tables map. `SpaceInv` says it of the whole
directory. `DirectorySound`: the directory `d` and the two tables of the boot, `lo` and
`hi`, never go back to the pool, entries share no table, and no entry but the first
covers an address of physical memory. So a frame the kernel reaches at its own address
is reached through `lo` (`MappedIsLow`), and it reaches no other. Frames in use that hold
no table are `Plain`. `HeapIsPlain` and `LowIsPlain` say that pages of the heap map plain
frames only, and pages of a program at 0 too. The clearing of a new table runs one word
or two into the next frame; `Fixed` keeps out of the pool the frames *below* `d`, `lo` and
`hi` as well, which `InitializeStep` finds marked, since each of the three was the lowest
that would do. The first words of a new table keep what the frame held
before; in a table of the heap that would be a page, but for the reason that
`find_free_contiguous_pages` takes the first run: it starts at the first page of a
table, or at a page of a table that is there (`Ready`), so the one word that is not cleared
is the one that is written next. `GrowStep` is what `vmm_mapPhysicalAddr` does when it
makes a table, `GrownKeeps` and `StoredKeeps` that it keeps the directory sound.

The loops of the hooks and of the loader are recursive functions of the machine.
`LoopExists` and `LoopKeeps` (`Lemmas`) give their values and carry an invariant
along them (`TurnsKeep`, `UnmapsKeep`, `ReadingKeeps`, `ProcessKeeps`). While a program is
loaded the first table's pages may change (`Loading`), and a frame it took is plain until it
is mapped (`Holding`), also when it is frame 0 because none was left.

For `GrantIsFresh` the loop's invariant is `Fresh`: the pages so far map frames of their own
that the pool had when the hook was called. A later page may make a new table and clear the
first word of the frame behind it. That the frame is no table of the heap takes an account of
where the pool's holes are, which `KernelInv` carries. `HeapSmall`: the heap has one table;
its pages are mapped in order and each takes a frame above the frames before it, so with
the last page of this table all the frames it can show are in use, and a second table would lie
where the kernel cannot clear it. `Guarded`: the frame before each table is in use, so no new
table is made there. `MapEffect` sums up what mapping one page then does: that page gets the
frame, and every other page keeps its own.

For `ProgramIsLoaded` the same is said of every step of `createProcess`. The page at the stack's address is left
out: a program linked at 0 that goes on behind its first page has its second page there, and the
stack replaces it (`Kernel/task.c:132`). `Loaded`: the pages so
far map frames of their own that the pool had (`OfProgram`), and every other page is unchanged.
All frames below such a frame are in use, because the pool gives out the lowest, so the memset
for a later table, which is made in a frame above, does not reach it. The loader reads a block
through the frame's physical address. This reaches the frame (`Shown`, `FrameShown`) unless the
program itself has replaced the page at that address. It can do so only when it is linked
inside the first table's pages. A second page is read, when the first blocks fit their frame,
only of a program linked at 0 (`MoreAtZero`: otherwise `createProcess` counts the address into
the size, and blocks that fit are the whole file), and then the pages it has replaced are those
whose numbers are frames in use, and the next frame is another (`Imaged`). What is left is one
lemma for each thing the loader does: `FillLoads` and `ReadingLoads` for the memset and the
blocks, `MapLoads` for the page, `LoadFirstLoads` and `LoadPageLoads` for the two kinds of
page, `ProcessLoads` for the loop, `ExecLoads` for the whole.

### Heap

**Assumptions.** `LiballocAssumption` and `HeapAssumption`: sizes are positive, the
rest are naturals. So the claims hold for every layout of the headers, the real
one included.

**Argument.** Headers refer to each other by address, so the invariant speaks of
the two tables as a whole. `HeapInv` says: the tables are finite and typed; every
chunk lies in its major, behind the major's header, and ends before the next one
begins (`Chunked`); the chunks of a major are linked in the order of their
addresses (`ChunksLinked`) and the majors in some order (`MajorsLinked`: a major
returned by the hook may lie below the last one); majors lie in granted runs of
pages of their own (`OwnRuns`); what callers hold are the chunks (`Held`). What
`kmalloc` and `kfree` do to the tables is one insertion into a gap (`ChunkAdded`,
which every way of `kmalloc` to find a gap is shown to be, `FitsPlaces` and the lemmas
before it), one removal (`ChunkRemoved`), a major more (`MajorAdded`), one
less (`MajorUnlinked`).

A walk along a list is a recursive function. What it returns is proved in `Lemmas`, by
induction with a set in the place of a predicate (`SetInduction`, from the library's
fact that finite sets are well-founded by inclusion): for a list linked in the order of
some number, the function exists (`ChainExists`), and the sequence it gives holds every
element once and in order (`ChainLists`). `SoundLists` reads `ListsAreSound` off that.

`CountInv` adds that usage, totals and pages are sums over the tables (`SumPlus`,
`SumMinus`: a sum follows an insertion or removal). The sums give `EmptyMajorsGoBack`
(a major that counts as unused has no chunk) and `HeapGrowsWhenFull`: no gap is wider
than the free bytes of its major (`GapWithinFree`), so the majors `kmalloc` skips
have no room, and the restart at the front reaches those before the best bet.

### Floppy driver

**Assumptions.** `FloppyAssumption` and `FdcAssumption` give types and say that a disk
has two sides (`lba2chs` has the 2 in its text) and that what is asked for is on it.

**Argument.** `DmaInv` holds with any controller: the flip-flop is at the low half between
two functions, channel 4 is closed while address and count are written, and channel 2 is
open only with both written whole, or when there is nothing that could use it (`NoReader`); so
a read that outlived its wait finds the old or the new registers, and `FloppyTransfers` follows.
`NoReader` is for the late read that ends between `dma_unmask_all` and the last `dma_set_read`: the
channel it used up and closed is opened again, but its seven result bytes are not fetched, so the
controller does not take the read command that follows, and the next one programs the registers
first. `PromptInv`, for a controller
that is `prompt`, says for each place of the driver what the controller still owes:
`Running` the command this wait is for, `Done` with it, or `Clean`. A wait that cannot
run out (`timer < WaitLimit`) then ends with its own command's interrupt.

### Keyboard and line editor

**Assumptions.** `KeyboardAssumption` and `ConsoleAssumption`, types. `NoModifierSticks`
has a hypothesis, `NoLookalikes`: if there is an F12, whose code lies behind the
table, the memory found there does not look like a shift or control key.

**Argument.** `Settled` says of the bytes on the wire: with nobody holding a key of a
flag, every press of one is followed by a release of one, and so is a flag that is set.
A press or release only appends, and the handler takes the first byte and moves
its effect into the flag (`ReadingSettles`). For the order of keys, `OrderInv` gives a place
among the keys typed to each key got, to the one the shell holds, the one in the slot
and those on the wire, in increasing order: the handler may overwrite the slot and the
shell may empty it after it was overwritten, which skips a place and never repeats one.

**A patient typist.** `PatientIsHeard` needs `OneShiftKey`: with two shift keys the release of
one clears the flag the other still holds, and memory behind the table that looks like
the shift key would let a reply to the LED command clear the flag. `PatientInv` says that the shell has all
keys but at most the last, and where that one is: nowhere, since it was used (`Idle`), its
press or its release on the wire (`Pressed`, `Released`), `InSlot`, or `InHand`. Each place
says whether the driver's shift and caps lock agree with the typist's: they differ only by
the key that is on the wire. Caps lock is where it matters: the flag is set with its
press and lags `caps_on` by that one key. `Told` numbers the keys the shell got, and says
that it is all of them but those without a name.

**The screen.** Positions are numbers that go on above the screen, as the code's unsigned
row does, and `PutInside` says that a character advances the cursor by one cell, up to
scrolling, wherever a row ends. `Fit` is what holds after any keys: behind the cursor
everything is blank, although a backspace over the beginning of a row may leave the cursor
behind the end of a row, or above the screen. While the line is `plain` the cursor is
inside (`Tidy`), and prompt and line end one behind the other at the cursor
(`ScreenInv`). A new line begins `plain` because an answer and a prompt put a `Fit` screen in
order. `TerminalAssumption`: prompt and answers are visible text of less than a row.

### Files

**Assumptions.** They say that disk and archive are well formed, as something wrote them.
`DiskAssumption`: every entry of the FAT is free, an end mark or a cluster of the disk,
and lies in the FAT; no name is twice in the root directory; a file with contents has a
first cluster. `TapeAssumption`: names are complete, each is there once, and what lies in a
directory has the directory packed as well. `FilesAssumption` bounds the length of files, and
says that no chain of clusters runs in a circle (`rank` falls along it). `TypedAssumption`: a
path with `>` in the third place has no colon in the second. Nothing is assumed about the
paths otherwise, nor about which sectors can be read.

**Argument.** `FilesInv` relates what is open to what is on the disk, and rests on three facts.
First, what `fsysFatRead` takes for the next cluster is the FAT's entry (`NextClusterIs`): its
12 bits are put together from the two bytes the code picks, by the parity of the cluster, from
an array of two sectors, and the shift or mask undoes the packing (`TwelveBits`, `FatBytes`).
So the reads follow the chain, and the chain is finite because `rank` falls. Second, the walk
over the archive visits exactly the headers: a file's size rounded up as the code does it is the
distance to the next one. Third, `archive` changes under the walks, since opening a path strips the
slash of names it compares, but it is always one of the archives with some names stripped
(`Stripped`), stripping twice is stripping once, and so every search compares with the same
names as the first. `CatInv` then says, of a `cat` that met no bad sector: the file opened is the one
the path names, k of its blocks are printed, and `file` stands at the next one.
`AddedInv` says of what `cat` adds to the
file that nothing of it comes from the stack when a file of the ramdisk is shorter than a block.
`CurrentIsDirectory` is inductive with the types (`Typing`), since `cd` only stores a path it
could open, and a directory stays one when its name is stripped. Once a letter was typed the
claim is about the last name: `cd` looks on the volume of the old path and stores the letter
of the new one, and a directory of the floppy has its name in capitals, eight and three. For `floppydump`, `AtoiIs` says that
digits are read as the number they show, as long as that is a sector.

### Timer and clock

**Assumptions.** `TimerAssumption` and `CmosAssumption`, types; for the clock
`ClockAssumption`: it shows 24 hours, and within a minute no field returns to a value
it left. `TimeWasShownHolds` has the hypothesis `[]ShortCall`: no call of `read_rtc`
lasts a minute of the clock (else two readings a minute apart could agree on a
second the clock never showed with that minute).

**Argument.** `SleepInv`: while a thread sleeps, the ticks it has seen and the
ticks between the counter and its deadline add up to at most the argument, and, if
the deadline did not wrap, to at least it. `Deadline` is the arithmetic of
`sleep`: cutting the sum to the counter's range leaves it `n` ahead, or behind `n`,
which is what `DeadlineWrapped` tells apart. `TickKeeps` shows that the counter
itself never wraps under a sleep that is not over: the deadline is still ahead of it.
`ReadInv`: between the last reading and this one there was a moment without an update
under way; each register of the last one is from that moment or earlier, each of this
one from it on. Registers that agree are then those of the moment (`AgreedMoment`),
because a field does not come back to what it left.

### Only model-checked

* Liveness (`EveryKeyArrives`, `EveryFileEnds`, `CallsReturn`, `ReadsSucceed`): fairness
  and ENABLED are beyond the prover.
* The findings, which are counterexamples.

## 5. What is not modelled

* `Kernel/pmm.c`: `pmm_free_blocks` (no caller). Freeing a block nobody holds
  (`pmm_free_block` does not check) is a precondition, and the kernel's callers
  keep it.
* `Kernel/vmm.c`: `vmm_createAdressSpace`, `vmm_mapKernelSpace`,
  `vmm_alloc_page`, `vmm_free_page` (no callers); in `Kernel/task.c` `mapKernelSpace`
  (no caller) and the thread functions that are only declared. What a program does
  in user mode, and with it the system calls.
* Keyboard self test, enable, disable, reset (no callers). Of the shifted keys only
  letters. The prefixes `0xE0` and `0xE1` (`Drivers/keyboard/keyboard_driver.c:220`) set a
  variable that nothing reads. `Fs/vfs.c`: unmount and `volReadDir` (no callers).
* `Fat12`: the boot sector's values are constants. The result of a walk into a
  subdirectory is arbitrary, as the uninitialised file makes it, except in the
  finding; so that its reads may fail makes no difference.
* What a late floppy controller does to the sector another read brings: in `Floppy` the buffer
  may then hold the wrong one, in `Files` this is a read that fails. `SeekFindsTrack`,
  `NothingLeftOver`, `WaitsForItsCommand` and `ReadsSucceed` are about controllers that answer
  within a wait; after a wait that timed out they fail.
* In `Files`, that text put behind a full block is written past the array of
  `cmd_read_file`, and that `kernelPrintf` takes the text of a file for a format.
* `Arch/x86/Hal/dma.c`: the page register, `dma_set_write`, `dma_unmask_channel` (no
  callers). `pit.c`: the writes that set the rate.
* PIC, GDT, IDT, TSS: constant port writes and tables, no state to relate.
* `kernelPrintf`'s formatting, colours, `ls`, `help`, `cls`, `halt`; of `Lib/` the loops
  over bytes.
* The other exceptions: they end as a page fault does. A panic stops the models;
  the code turns interrupts off for it, and on again with the first character it
  prints (`Kernel/KernelDisplay.c:22`).
* What a store through a null page table, or an image written to frame 0 because no frame
  was left, destroys in frame 0. Of function keys, F12 is a key `Keyboard` allows and no
  run has: what it does depends on the memory behind the table.
* Memory behind a full line (`Shell/seashell.c:76`) and behind the 32 bytes
  `kernelPrintf` has for a string (`Kernel/KernelDisplay.c:196`).

Behaviour seen while modelling that no run is spent on:

* `pmm_init` fills the bitmap with `0x0f` (`Kernel/pmm.c:84`), so half the
  blocks are free until the regions and reservations overwrite them; both region loops
  go one block too far (`Kernel/pmm.c:91`, `:103`). Blocks of a hole of the map that the
  memset left free stay free, although `Kernel/pmm.c:84` wants them in use; they are
  handed out like memory. `FreeCountIsHonest` says which these may be.
* `krealloc` frees the old block when the new one cannot be had
  (`Kernel/liballoc.c:824`); the best bet is not always the roomiest major; the size
  of a request is added to without an overflow check.
* The frames of pages that were freed are never returned to the frame
  allocator; a grant may hold an unmapped page when no frame was left for its table.
* The heap never gets a second table: by the time the first is full the frames that are
  left lie above 4 MB, where `vmm_createPageTable` writes to an address that is not mapped
  (`Kernel/vmm.c:146`). `HeapSmall`, a part of the invariant in `SpaceProofs`, states it.
* The clearing of a new page table starts at the directory entry, flags
  included (`Kernel/vmm.c:146`).
* The release of alt is not handled; an acknowledgement read outside the table
  as a shift key clears the shift flag. `ConsolePatient.cfg` therefore takes
  harmless values for what lies behind the table.
* Backspace at the beginning of a row of the screen leaves the last character of
  the row above and puts the cursor behind it (`Shell/seashell.c:57`); what is typed
  next appears a row further down. A key without a visible character is in the line
  all the same, and backspace takes a cell for it: caps lock and backspace, repeated, erase the
  prompt and climb to the first row, where the unsigned row wraps
  (`Shell/seashell.c:50`, `Kernel/KernelDisplay.c:74`, `:128`). `Display` counts those rows
  below zero, and puts what is written there outside the screen.
* `floppydisk_seek` and `floppydisk_calibrate` do not look at the result of the
  wait; a read that timed out returns the buffer of the read before; an interrupt
  that comes in the last sleep counts as a timeout.
* The DMA page register is never written, so the buffer has to lie below 64 KB.
* `cd` stores a path although the volume it was checked on is another one's
  (`Shell/seashell.c:172`); a path with `>` below the root is not found on the
  ramdisk (`Fs/ramdisk.c:214`); shorter lines leave the third character of the
  line before to be tested.
* An empty file on the floppy has cluster 0, whose FAT entry is no end mark: `cat`
  prints one sector, goes on behind the end of the disk, and stops there.
* `atoi` takes letters for digits ("1b" is 21). `floppydump` of "-1", which is sector 0 of
  the first track, or of a number behind the disk gives the controller a sector that is on no
  track, and shows the buffer as the read before left it.
* `createProcess` reads as many blocks into its first frame as the image's end
  *address* has (`Kernel/task.c:108`), so that a file of more than eight blocks runs
  over the frames behind it; `FitsFirstFrame` is the case the properties are about.
  It adds the image's address twice for the entry point and for the stack, whose
  pointer it then does not load (`:100`, `:132`, `:172`). A relocatable object has no
  program header and is loaded at address 0.
* A deadline of `sleep` behind the counter's wrap is met at once
  (`Arch/x86/Hal/Hal.c:128`).

## 6. Plan

Order, most important first; a dozen runs and forty properties are kept, so new
ones replace those whose question is answered by a stronger one.

1. Done: frame allocator and boot, with proofs; heap; hooks, page tables and
   tasks; console and terminal; floppy and DMA; clock and timer; file systems with
   reads that fail.
2. Proofs: done for every safety property of a passing run.
3. Abstract specifications: a catalogue of files that `Files` implements; a
   queue with losses that `Console` implements; a page grant service that
   `HeapHooks` implements and `Heap` uses.
4. Pure functions against reference definitions: `ToDosFileName`, `strtol`.
