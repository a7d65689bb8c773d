------------------------------- MODULE PmmBoot -------------------------------
(***************************************************************************)
(* The physical memory manager as kmain (Kernel/main.c) brings it up and   *)
(* the kernel then uses it: pmm_init, one pmm_init_region for each entry   *)
(* of the boot loader's map that is available memory, the reservation of   *)
(* the kernel and of the low memory, the three allocations of              *)
(* vmm_initialize (Kernel/vmm.c), and from then on single blocks that come *)
(* and go.  kmain is sequential: `phase' is its program counter.           *)
(***************************************************************************)
EXTENDS Pmm, Sequences

CONSTANTS
    MemoryMaps,   \* the maps a boot loader may pass: sequences of entries
    MaxRegions,   \* entries kmain looks at (10)
    KernelBase,   \* 0x100000
    KernelSize,   \* from KernelBase to the linker's symbol `end'
    LowSize,      \* 0x10000, the stack and floppy DMA memory
    DirBlocks     \* blocks vmm_initialize asks for as page directory (3)

Entry == [type : Nat, base : Nat, length : Nat]

ASSUME BootAssumption ==
    /\ MaxRegions \in Nat
    /\ \A m \in MemoryMaps : m \in [1 .. MaxRegions -> Entry]
    /\ KernelBase \in Nat /\ KernelSize \in Nat /\ LowSize \in Nat
    /\ DirBlocks \in Nat

VARIABLES phase, memmap, entry

bootVars == <<phase, memmap, entry>>
vars == <<memory_map, used_blocks, holders, phase, memmap, entry>>

Phases == {"pmm_init", "regions", "kernel", "low", "table", "table2", "dir", "up"}

(* The symbol `end' of the kernel image, where kmain puts the bitmap. *)
Bitmap == KernelBase + KernelSize

TypeOK ==
    /\ PmmTypeOK
    /\ phase \in Phases
    /\ memmap \in MemoryMaps
    /\ entry \in Nat

Init ==
    /\ PmmInit
    /\ phase = "pmm_init"
    /\ memmap \in MemoryMaps
    /\ entry = 1

StartPmm ==
    /\ phase = "pmm_init" /\ phase' = "regions"
    /\ pmm_init
    /\ UNCHANGED <<memmap, entry>>

(* The loop over the entries stops at a reserved type above 4, and at a     *)
(* second or later entry that starts at 0.                                  *)
EndOfMap ==
    entry <= MaxRegions =>
        \/ memmap[entry].type > 4
        \/ entry > 1 /\ memmap[entry].base = 0

AddRegion ==
    /\ phase = "regions" /\ ~ EndOfMap
    /\ memmap[entry].type = 1
    /\ pmm_init_region(memmap[entry].base, memmap[entry].length)
    /\ entry' = entry + 1
    /\ UNCHANGED <<phase, memmap>>

SkipRegion ==
    /\ phase = "regions" /\ ~ EndOfMap
    /\ memmap[entry].type # 1
    /\ entry' = entry + 1
    /\ UNCHANGED <<pmmVars, phase, memmap>>

EndRegions ==
    /\ phase = "regions" /\ EndOfMap
    /\ phase' = "kernel"
    /\ UNCHANGED <<pmmVars, memmap, entry>>

ReserveKernel ==
    /\ phase = "kernel" /\ phase' = "low"
    /\ pmm_deinit_region(KernelBase, KernelSize)
    /\ UNCHANGED <<memmap, entry>>

ReserveLow ==
    /\ phase = "low" /\ phase' = "table"
    /\ pmm_deinit_region(0, LowSize)
    /\ UNCHANGED <<memmap, entry>>

(* vmm_initialize takes two page tables and the directory; kmain ignores    *)
(* its result and goes on when one of them fails.                           *)
AllocTable ==
    /\ \/ phase = "table" /\ phase' = "table2"
       \/ phase = "table2" /\ phase' = "dir"
    /\ \E frame \in Bit : pmm_alloc_block(frame)
    /\ UNCHANGED <<memmap, entry>>

AllocDirectory ==
    /\ phase = "dir" /\ phase' = "up"
    /\ \E frame \in Bit, far \in BOOLEAN : pmm_alloc_blocks(DirBlocks, far, frame)
    /\ UNCHANGED <<memmap, entry>>

VmmGivesUp ==
    /\ \/ phase \in {"table", "table2"} /\ pmm_alloc_block_fails
       \/ phase = "dir" /\ \E far \in BOOLEAN : pmm_alloc_blocks_fails(DirBlocks, far)
    /\ phase' = "up"
    /\ UNCHANGED <<memmap, entry>>

AllocBlock ==
    /\ phase = "up"
    /\ \E frame \in Bit : pmm_alloc_block(frame)
    /\ UNCHANGED bootVars

AllocBlockFails ==
    /\ phase = "up"
    /\ pmm_alloc_block_fails
    /\ UNCHANGED bootVars

FreeBlock ==
    /\ phase = "up"
    /\ \E frame \in Bit : pmm_free_block(frame)
    /\ UNCHANGED bootVars

BootNext ==
    \/ StartPmm \/ AddRegion \/ SkipRegion \/ EndRegions
    \/ ReserveKernel \/ ReserveLow
    \/ AllocTable \/ AllocDirectory \/ VmmGivesUp

Next == BootNext \/ AllocBlock \/ AllocBlockFails \/ FreeBlock

Spec == Init /\ [][Next]_vars

-----------------------------------------------------------------------------
(* Properties *)

LowFrames == RegionBlocks(0, LowSize)
KernelFrames ==
    (KernelBase \div BlockSize) .. ((KernelBase + KernelSize - 1) \div BlockSize)
(* The frames that hold the bytes pmm_init writes. *)
BitmapFrames ==
    (Bitmap \div BlockSize) ..
        ((Bitmap + (MaxBlocks \div ByteBits) - 1) \div BlockSize)

Protected == LowFrames \cup KernelFrames \cup BitmapFrames

Held == { b \in Bit : holders[b] > 0 }

(* No frame is in two live allocations, and each live frame stays marked    *)
(* used: the page tables, the directory (found by the doubtful search of    *)
(* mmap_find_first_free_s) and later single blocks never share a frame,     *)
(* whatever the order of frees.                                             *)
NeverTwice == \A b \in Held : holders[b] = 1 /\ b \in memory_map

(* Nobody is handed the low memory (stack and floppy DMA buffer), the       *)
(* kernel image, or the bitmap behind the image, which only the off-by-one  *)
(* of pmm_deinit_region's loop reserves.                                    *)
ProtectedNeverHandedOut == Held \cap Protected = {}

(* The frames of the map's available entries, as pmm_init_region counts     *)
(* frames.                                                                  *)
Available ==
    UNION { RegionBlocks(memmap[i].base, memmap[i].length) :
              i \in { k \in 1 .. MaxRegions :
                        /\ memmap[k].type = 1
                        /\ \A j \in 2 .. k : memmap[j].base # 0
                        /\ \A j \in 1 .. k : memmap[j].type <= 4 } }

(* When the counter says that blocks are left, the search finds one, and    *)
(* not beyond the highest frame of the regions: the scan that runs 32 times *)
(* too far never gets to what lies behind the bitmap.  The frame is one of  *)
(* a region, or of a hole between two: there the memset of pmm_init marked  *)
(* only half of the frames, the other half is handed out like memory.       *)
FreeCountIsHonest ==
    phase = "up" /\ pmm_get_free_block_count > 0
        => LET found == mmap_find_first_free
           IN  /\ found \in 0 .. Max(Available)
               /\ found \in Available \/ found \notin MemsetMarks

PoolOpen == phase \in {"table", "table2", "dir", "up"}

Pool == INSTANCE FramePool WITH
    Reserved <- Protected \cap Bit,
    open <- PoolOpen,
    left <- IF PoolOpen THEN pmm_get_free_block_count ELSE 0,
    held <- Held

(* From the end of the reservations on, the manager is a pool of frames:    *)
(* each allocation takes frames nobody holds and nothing reserved, and the  *)
(* count of free blocks moves by exactly the frames taken or returned.      *)
IsFramePool == Pool!PoolSpec
=============================================================================
