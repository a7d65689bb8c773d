-------------------------------- MODULE Pmm --------------------------------
(***************************************************************************)
(* The physical memory manager, Kernel/pmm.c.                              *)
(*                                                                         *)
(* One bit of memory_map per block (frame) of BlockSize bytes, kept in     *)
(* words of WordBits bits, and a counter of the blocks in use.  The set    *)
(* memory_map holds the positions of the bits that are 1 ("used").  The    *)
(* search of the code runs over MaxBlocks WORDS where MaxBlocks BITS were  *)
(* meant, so the positions go far beyond the bitmap: what lies there is    *)
(* whatever the memory behind the bitmap holds.                            *)
(*                                                                         *)
(* `holders' is a history variable: how many live allocations each frame   *)
(* belongs to.  The code keeps no such table.                              *)
(***************************************************************************)
EXTENDS Integers, FiniteSets, FiniteSetsExt

CONSTANTS
    MaxBlocks,   \* _pmm_max_blocks, from the memory size of the boot loader
    WordBits,    \* bits in a word of the bitmap (32)
    ByteBits,    \* bits in a byte (8)
    BlockSize,   \* bytes in a block (4096)
    UintMod,     \* 2^32, the modulus of the counters
    ScanWords,   \* words a search is followed for; the code visits MaxBlocks
    MaxRun,      \* the largest number of blocks asked for at once
    Garbage      \* possible contents of the bitmap's memory before pmm_init

ASSUME PmmAssumption ==
    /\ MaxBlocks \in Nat \ {0} /\ WordBits \in Nat \ {0}
    /\ ByteBits \in 1 .. WordBits /\ BlockSize \in Nat \ {0}
    /\ UintMod \in Nat /\ UintMod > MaxBlocks
    /\ ScanWords \in 1 .. MaxBlocks /\ MaxRun \in Nat
    /\ ScanWords * WordBits >= MaxBlocks

ScanBits == ScanWords * WordBits       \* positions the searches visit
Bit == 0 .. (ScanBits - 1 + MaxRun)    \* positions any operation touches
NoFrame == -1

ASSUME GarbageAssumption == Garbage \subseteq SUBSET Bit

VARIABLES memory_map, used_blocks, holders

pmmVars == <<memory_map, used_blocks, holders>>

u32(x) == x % UintMod

PmmTypeOK ==
    /\ memory_map \subseteq Bit
    /\ used_blocks \in 0 .. (UintMod - 1)
    /\ holders \in [Bit -> Nat]

(* Memory before kmain: the static counter is 0, nobody holds anything.    *)
PmmInit ==
    /\ memory_map \in Garbage
    /\ used_blocks = 0
    /\ holders = [b \in Bit |-> 0]

-----------------------------------------------------------------------------
(* Helpers *)

pmm_get_free_block_count == u32(MaxBlocks - used_blocks)

(* The test returns the masked word as a uint8_t: a set bit above the low   *)
(* byte of its word is cut off and reads as free.                           *)
mmap_test(b) == b \in memory_map /\ b % WordBits < ByteBits

ClearBits == { b \in 0 .. (ScanBits - 1) : b \notin memory_map }

(* The lowest clear bit of the scanned words. *)
mmap_find_first_free == IF ClearBits = {} THEN NoFrame ELSE Min(ClearBits)

(* The probe of a run starts at `word * 32 + (1 << j)', not at `+ j'.  For  *)
(* most j it lands outside every position modelled; `far' is what the       *)
(* memory found there says.                                                 *)
ProbeStart(b) ==
    (b \div WordBits) * WordBits
        + (IF b % WordBits = 0 THEN 1 ELSE 2 ^ (b % WordBits))

ProbeClear(b, c, far) ==
    IF ProbeStart(b) + c \in Bit THEN ~ mmap_test(ProbeStart(b) + c) ELSE ~ far

(* The first clear bit whose probe meets `size' clear positions, not        *)
(* necessarily adjacent ones, among size + 1.                               *)
ProbedFrames(size, far) ==
    { b \in ClearBits :
        Cardinality({ c \in 0 .. size : ProbeClear(b, c, far) }) >= size }

mmap_find_first_free_s(size, far) ==
    IF size = 0 THEN NoFrame
    ELSE IF size = 1 THEN mmap_find_first_free
    ELSE IF ProbedFrames(size, far) = {} THEN NoFrame
    ELSE Min(ProbedFrames(size, far))

Run(first, size) == first .. (first + size - 1)

(* The blocks both region loops visit: `for (; blocks >= 0; blocks--)'.     *)
RegionBlocks(base, size) ==
    (base \div BlockSize) .. ((base \div BlockSize) + (size \div BlockSize))

(* Variant: the loop stops at `blocks > 0'. *)
RegionBlocksExact(base, size) ==
    (base \div BlockSize) .. ((base \div BlockSize) + (size \div BlockSize) - 1)

RegionCount(size) == (size \div BlockSize) + 1

-----------------------------------------------------------------------------
(* Operations.  The argument `frame' is the result of an allocation.       *)

(* Variant: the number of blocks is taken for a number of bytes. *)
MemsetBitsLong == 0 .. (MaxBlocks * ByteBits - 1)

(* memset with 0x0f: the low half of each whole byte becomes 1, the high   *)
(* half 0, and what is behind the last whole byte keeps its contents.       *)
MemsetBits == 0 .. ((MaxBlocks \div ByteBits) * ByteBits - 1)

MemsetMarks == { b \in MemsetBits : b % ByteBits < ByteBits \div 2 }

pmm_init ==
    /\ used_blocks' = MaxBlocks
    /\ memory_map' = (memory_map \ MemsetBits) \cup MemsetMarks
    /\ UNCHANGED holders

pmm_init_region(base, size) ==
    /\ memory_map' = (memory_map \ RegionBlocks(base, size)) \cup {0}
    /\ used_blocks' = u32(used_blocks - RegionCount(size))
    /\ UNCHANGED holders

(* Variant: the reservation stops short of the block the size ends in. *)
pmm_deinit_region_exact(base, size) ==
    /\ memory_map' = memory_map \cup RegionBlocksExact(base, size)
    /\ used_blocks' = u32(used_blocks + RegionCount(size) - 1)
    /\ UNCHANGED holders

(* Variant: the counter is not moved. *)
pmm_deinit_region_uncounted(base, size) ==
    /\ memory_map' = memory_map \cup RegionBlocks(base, size)
    /\ UNCHANGED <<used_blocks, holders>>

pmm_deinit_region(base, size) ==
    /\ memory_map' = memory_map \cup RegionBlocks(base, size)
    /\ used_blocks' = u32(used_blocks + RegionCount(size))
    /\ UNCHANGED holders

pmm_alloc_block(frame) ==
    /\ pmm_get_free_block_count > 0
    /\ frame = mmap_find_first_free /\ frame # NoFrame
    /\ memory_map' = memory_map \cup {frame}
    /\ used_blocks' = u32(used_blocks + 1)
    /\ holders' = [holders EXCEPT ![frame] = @ + 1]

(* The allocation returns 0: the counter says so, or the search does. *)
pmm_alloc_block_fails ==
    /\ pmm_get_free_block_count > 0 => mmap_find_first_free = NoFrame
    /\ UNCHANGED pmmVars

(* Variant: only the first block of the run is marked. *)
pmm_alloc_blocks_first_only(size, far, frame) ==
    /\ pmm_get_free_block_count >= size
    /\ frame = mmap_find_first_free_s(size, far) /\ frame # NoFrame
    /\ memory_map' = memory_map \cup {frame}
    /\ used_blocks' = u32(used_blocks + size)
    /\ holders' = [b \in Bit |-> holders[b]
                                 + IF b \in Run(frame, size) THEN 1 ELSE 0]

pmm_alloc_blocks(size, far, frame) ==
    /\ pmm_get_free_block_count >= size
    /\ frame = mmap_find_first_free_s(size, far) /\ frame # NoFrame
    /\ memory_map' = memory_map \cup Run(frame, size)
    /\ used_blocks' = u32(used_blocks + size)
    /\ holders' = [b \in Bit |-> holders[b]
                                 + IF b \in Run(frame, size) THEN 1 ELSE 0]

pmm_alloc_blocks_fails(size, far) ==
    /\ pmm_get_free_block_count >= size
            => mmap_find_first_free_s(size, far) = NoFrame
    /\ UNCHANGED pmmVars

(* Variant: the counter moves the wrong way. *)
pmm_free_block_miscounted(frame) ==
    /\ holders[frame] > 0
    /\ memory_map' = memory_map \ {frame}
    /\ used_blocks' = u32(used_blocks + 1)
    /\ holders' = [holders EXCEPT ![frame] = @ - 1]

(* Called with a block the caller holds (the code does not check it). *)
pmm_free_block(frame) ==
    /\ holders[frame] > 0
    /\ memory_map' = memory_map \ {frame}
    /\ used_blocks' = u32(used_blocks - 1)
    /\ holders' = [holders EXCEPT ![frame] = @ - 1]
=============================================================================
