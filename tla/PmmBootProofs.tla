---------------------------- MODULE PmmBootProofs ----------------------------
(***************************************************************************)
(* Proofs about the boot and the use of the physical memory manager, for   *)
(* every machine that satisfies the assumptions of PmmBootPC.              *)
(***************************************************************************)
EXTENDS PmmBootPC, Lemmas

-----------------------------------------------------------------------------
(* The inductive invariant *)

NoneHeld == \A b \in Bit : holders[b] = 0

(* Up to bit n the bitmap is in use, from there to Room it is free. *)
LowUsed(n) ==
    /\ 0 .. n \subseteq memory_map
    /\ \A b \in (n + 1) .. Room : b \notin memory_map

Reserved ==
    (IF phase \in {"pmm_init", "regions", "kernel"}
       THEN {} ELSE RegionBlocks(KernelBase, KernelSize))
    \cup (IF PoolOpen THEN LowFrames ELSE {})

ReservedInv == Reserved \subseteq memory_map \ Held

LowInv ==
    /\ (phase = "regions" => entry > 1) /\ phase \in {"regions", "kernel", "low"}
         => \A b \in 1 .. Room : b \notin memory_map
    /\ phase = "table" => LowUsed(LowTop)
    /\ phase = "table2" => LowUsed(LowTop + 1)
    /\ phase = "dir" => LowUsed(LowTop + 2)

EntryInv ==
    /\ entry >= 1 /\ (phase = "pmm_init" => entry = 1)
    /\ memmap \in PCMaps

IInv ==
    /\ TypeOK
    /\ EntryInv
    /\ ~ PoolOpen => NoneHeld
    /\ NeverTwice
    /\ ReservedInv
    /\ LowInv

-----------------------------------------------------------------------------
(* Lemmas *)

LEMMA ConstantsType ==
    /\ MaxBlocks \in Nat \ {0} /\ WordBits \in Nat \ {0} /\ ByteBits \in Nat \ {0}
    /\ BlockSize \in Nat \ {0} /\ UintMod \in Nat \ {0} /\ MaxRun \in Nat
    /\ KernelBase \in Nat /\ KernelSize \in Nat /\ LowSize \in Nat
    /\ ScanBits \in Nat /\ LowTop \in Nat /\ FirstProbe \in Nat /\ Room \in Nat
    /\ DirBlocks \in Nat /\ MaxRegions \in Nat
    /\ Bit = 0 .. (ScanBits - 1 + MaxRun)
<1>1. LowTop \in Nat /\ (LowTop + 3) \div WordBits \in Nat
  BY DivModType, PmmAssumption, BootAssumption DEF LowTop
<1> QED
  BY <1>1, PmmAssumption, BootAssumption DEF ScanBits, FirstProbe, Room, Bit

(* The two page tables and every word the directory search may settle in    *)
(* lie below Room, and Room lies inside the scanned part of the bitmap.      *)
LEMMA RoomFacts ==
    /\ LowTop + 3 < FirstProbe /\ FirstProbe + DirBlocks = Room
    /\ Room < ScanBits /\ FirstProbe % WordBits = 0
    /\ (FirstProbe \div WordBits) * WordBits = FirstProbe
    /\ 2 <= DirBlocks /\ DirBlocks <= MaxRun
<1> DEFINE q == (LowTop + 3) \div WordBits
<1>1. q \in Nat /\ LowTop + 3 = q * WordBits + ((LowTop + 3) % WordBits)
      /\ (LowTop + 3) % WordBits < WordBits
  <2> DEFINE n == LowTop + 3
  <2>1. n \in Nat /\ WordBits \in Nat \ {0}
    BY ConstantsType
  <2>2. /\ n \div WordBits \in Nat /\ n = (n \div WordBits) * WordBits + (n % WordBits)
        /\ n % WordBits < WordBits
    <3> HIDE DEF n
    <3> QED
      BY <2>1, DivModType
  <2> QED
    BY <2>2
<1>2. FirstProbe = (q + 1) * WordBits /\ (q + 1) * WordBits = q * WordBits + WordBits
  BY <1>1, ConstantsType DEF FirstProbe
<1>3. LowTop + 3 < FirstProbe
  BY <1>1, <1>2, ConstantsType
<1>4. ((q + 1) * WordBits + 0) \div WordBits = q + 1
      /\ ((q + 1) * WordBits + 0) % WordBits = 0
  <2>1. q + 1 \in Nat /\ 0 \in 0 .. (WordBits - 1)
    BY <1>1, ConstantsType
  <2> QED
    BY <2>1, DivExact, ConstantsType
<1>5. FirstProbe + 0 = FirstProbe
  BY ConstantsType
<1> QED
  BY <1>2, <1>3, <1>4, <1>5, ConstantsType, LowMemoryAssumption DEF Room

LEMMA BlockDiv == \A n \in Nat : n \div BlockSize \in Nat
<1>1. BlockSize \in Nat \ {0}
  BY ConstantsType
<1> QED
  BY <1>1, DivModType

(* The reservation of the kernel covers the image, the bitmap behind it and *)
(* no frame of the low room.                                                *)
LEMMA KernelFacts ==
    /\ KernelFrames \cup BitmapFrames \subseteq RegionBlocks(KernelBase, KernelSize)
    /\ RegionBlocks(KernelBase, KernelSize) \subseteq Bit \ (0 .. Room)
<1> DEFINE kb == KernelBase \div BlockSize
           ks == KernelSize \div BlockSize
           nb == MaxBlocks \div ByteBits
<1>1. /\ kb \in Nat /\ KernelBase = kb * BlockSize
      /\ ks \in Nat /\ KernelSize = ks * BlockSize
  <2>1. /\ kb \in Nat /\ KernelBase = kb * BlockSize + (KernelBase % BlockSize)
        /\ ks \in Nat /\ KernelSize = ks * BlockSize + (KernelSize % BlockSize)
    <3>1. KernelBase \in Nat /\ KernelSize \in Nat /\ BlockSize \in Nat \ {0}
      BY ConstantsType
    <3> QED
      BY <3>1, DivModType
  <2> QED
    BY <2>1, KernelAssumption, ConstantsType
<1>2. nb \in 1 .. BlockSize
  BY KernelAssumption
<1>3. ks >= 1
  BY <1>1, KernelAssumption, ConstantsType
<1>4. KernelBase + KernelSize = (kb + ks) * BlockSize
  BY <1>1, ConstantsType
<1>5. Bitmap \div BlockSize = kb + ks
      /\ (Bitmap + nb - 1) \div BlockSize = kb + ks
  <2>1. 0 \in 0 .. (BlockSize - 1) /\ nb - 1 \in 0 .. (BlockSize - 1)
    BY <1>2, ConstantsType
  <2>2. ((kb + ks) * BlockSize + 0) \div BlockSize = kb + ks
        /\ ((kb + ks) * BlockSize + (nb - 1)) \div BlockSize = kb + ks
    <3>1. kb + ks \in Nat
      BY <1>1
    <3> QED
      BY <3>1, <2>1, DivExact, ConstantsType
  <2>3. Bitmap + 0 = Bitmap /\ Bitmap + nb - 1 = Bitmap + (nb - 1)
    BY <1>2, ConstantsType DEF Bitmap
  <2> QED
    BY <2>2, <2>3, <1>4 DEF Bitmap
<1>6. (Bitmap - 1) \div BlockSize = kb + ks - 1
  <2>1. kb + ks - 1 \in Nat /\ BlockSize - 1 \in 0 .. (BlockSize - 1)
    BY <1>1, <1>3, ConstantsType
  <2>2. ((kb + ks - 1) * BlockSize + (BlockSize - 1)) \div BlockSize = kb + ks - 1
    BY <2>1, DivExact, ConstantsType
  <2>3. (kb + ks - 1) * BlockSize + (BlockSize - 1) = Bitmap - 1
    BY <1>1, <1>4, ConstantsType DEF Bitmap
  <2> QED
    BY <2>2, <2>3
<1>7. RegionBlocks(KernelBase, KernelSize) = kb .. (kb + ks)
  BY DEF RegionBlocks
<1>8. KernelFrames \cup BitmapFrames \subseteq kb .. (kb + ks)
  BY <1>1, <1>5, <1>6, ConstantsType DEF KernelFrames, BitmapFrames, Bitmap
<1>9. kb > Room /\ kb + ks <= ScanBits - 1 + MaxRun
  BY KernelAssumption, <1>1, ConstantsType
<1> QED
  BY <1>1, <1>7, <1>8, <1>9, ConstantsType

LEMMA LowFramesRange == LowFrames = 0 .. LowTop
<1>1. 0 \div BlockSize = 0
  <2>1. (0 * BlockSize + 0) \div BlockSize = 0
    BY DivExact, ConstantsType
  <2> QED
    BY <2>1, ConstantsType
<1> QED
  BY <1>1, ConstantsType DEF LowFrames, RegionBlocks, LowTop

(* What must not be handed out lies in what the boot reserved. *)
LEMMA ProtectedReserved ==
    PoolOpen => Protected \subseteq Reserved
  BY KernelFacts DEF Protected, Reserved, PoolOpen

(* A frame the search finds is clear, and below it every bit is set. *)
LEMMA FirstFree ==
    ASSUME mmap_find_first_free # NoFrame
    PROVE  /\ mmap_find_first_free \in Bit \ memory_map
           /\ \A b \in ClearBits : mmap_find_first_free <= b
<1>1. ClearBits # {} /\ ClearBits \in SUBSET Nat
  BY ConstantsType DEF mmap_find_first_free, ClearBits
<1>2. mmap_find_first_free = Min(ClearBits)
  BY <1>1 DEF mmap_find_first_free
<1>3. Min(ClearBits) \in ClearBits /\ \A b \in ClearBits : Min(ClearBits) <= b
  BY <1>1, MinOfNaturals
<1>4. ClearBits \subseteq Bit \ memory_map
  BY ConstantsType DEF ClearBits
<1> QED
  BY <1>2, <1>3, <1>4

(* While the low memory is in use exactly up to n, the next block is n + 1. *)
LEMMA FirstFreeLow ==
    ASSUME NEW n \in Nat, n < Room, LowUsed(n)
    PROVE  mmap_find_first_free = n + 1
<1>1. n + 1 \in ClearBits
  BY ConstantsType, RoomFacts DEF LowUsed, ClearBits
<1>2. \A b \in ClearBits : n + 1 <= b
  BY ConstantsType DEF LowUsed, ClearBits
<1>3. mmap_find_first_free = Min(ClearBits) /\ ClearBits \in SUBSET Nat
  BY <1>1, ConstantsType DEF mmap_find_first_free, ClearBits
<1>4. Min(ClearBits) \in ClearBits /\ Min(ClearBits) <= n + 1
  BY <1>1, <1>3, MinOfNaturals
<1> QED
  BY <1>2, <1>3, <1>4, ConstantsType DEF ClearBits

(* The directory search looks at the wrong bits, but it settles at the      *)
(* latest on the first word behind the page tables, and every run that      *)
(* starts up to there is free.                                              *)
LEMMA DirectoryRun ==
    ASSUME LowUsed(LowTop + 2), NEW far \in BOOLEAN, NEW frame \in Bit,
           frame = mmap_find_first_free_s(DirBlocks, far)
    PROVE  Run(frame, DirBlocks) \subseteq (LowTop + 3) .. (Room - 1)
<1> DEFINE clear == { c \in 0 .. DirBlocks : ProbeClear(FirstProbe, c, far) }
           probed == ProbedFrames(DirBlocks, far)
<1>1. FirstProbe \in ClearBits
  BY ConstantsType, RoomFacts DEF LowUsed, ClearBits
<1>2. ProbeStart(FirstProbe) = FirstProbe + 1
  BY RoomFacts DEF ProbeStart
<1>3. 0 .. (DirBlocks - 1) \subseteq clear
  <2> SUFFICES ASSUME NEW c \in 0 .. (DirBlocks - 1) PROVE ProbeClear(FirstProbe, c, far)
    BY ConstantsType
  <2>1. FirstProbe + 1 + c \in (LowTop + 3) .. Room
    BY RoomFacts, ConstantsType
  <2>2. FirstProbe + 1 + c \in Bit /\ FirstProbe + 1 + c \notin memory_map
    BY <2>1, ConstantsType, RoomFacts DEF LowUsed
  <2> QED
    BY <1>2, <2>2 DEF ProbeClear, mmap_test
<1>4. Cardinality(clear) >= DirBlocks
  <2>1. IsFiniteSet(0 .. (DirBlocks - 1)) /\ Cardinality(0 .. (DirBlocks - 1)) = DirBlocks
    BY FS_Interval, ConstantsType, RoomFacts
  <2>2. IsFiniteSet(0 .. DirBlocks) /\ clear \in SUBSET (0 .. DirBlocks)
    BY FS_Interval, ConstantsType
  <2>3. IsFiniteSet(clear)
    BY <2>2, FS_Subset
  <2>4. Cardinality(0 .. (DirBlocks - 1)) <= Cardinality(clear)
    <3> HIDE DEF clear
    <3> QED
      BY <1>3, <2>3, FS_Subset
  <2>5. Cardinality(clear) \in Nat
    BY <2>3, FS_CardinalityType
  <2> QED
    BY <2>1, <2>4, <2>5, ConstantsType
<1>5. FirstProbe \in probed
  BY <1>1, <1>4 DEF ProbedFrames
<1>6. probed \subseteq ClearBits /\ probed \in SUBSET Nat
  BY ConstantsType DEF ProbedFrames, ClearBits
<1>7. Min(probed) \in probed /\ Min(probed) <= FirstProbe
  <2> HIDE DEF probed
  <2> QED
    BY <1>5, <1>6, MinOfNaturals
<1>8. frame = Min(probed)
  BY <1>5, RoomFacts, ConstantsType DEF mmap_find_first_free_s
<1>9. frame \in ClearBits /\ frame <= FirstProbe
  BY <1>6, <1>7, <1>8
<1>10. frame >= LowTop + 3
  BY <1>9, ConstantsType DEF LowUsed, ClearBits
<1> QED
  BY <1>9, <1>10, RoomFacts, ConstantsType DEF Run, ClearBits

-----------------------------------------------------------------------------
(* Preservation by the operations that allocate and free one block *)

LEMMA U32Type == \A x \in Int : u32(x) \in 0 .. (UintMod - 1)
  BY ConstantsType DEF u32

(* A block that is handed out was free, and so not reserved and not held. *)
LEMMA AllocBlockStep ==
    ASSUME TypeOK, NeverTwice, NEW R \in SUBSET (memory_map \ Held),
           NEW frame \in Bit, pmm_alloc_block(frame)
    PROVE  /\ PmmTypeOK' /\ NeverTwice' /\ R \subseteq (memory_map \ Held)'
<1>1. frame \in Bit \ memory_map
  BY FirstFree DEF pmm_alloc_block
<1>2. holders[frame] = 0
  BY <1>1 DEF NeverTwice, Held, TypeOK, PmmTypeOK
<1>3. PmmTypeOK'
  <2>1. used_blocks' \in 0 .. (UintMod - 1)
    BY U32Type, ConstantsType DEF TypeOK, PmmTypeOK, pmm_alloc_block
  <2>2. memory_map' \subseteq Bit /\ holders' \in [Bit -> Nat]
    BY DEF TypeOK, PmmTypeOK, pmm_alloc_block
  <2> QED
    BY <2>1, <2>2 DEF PmmTypeOK
<1>4. NeverTwice'
  BY <1>2 DEF NeverTwice, Held, TypeOK, PmmTypeOK, pmm_alloc_block
<1>5. R \subseteq (memory_map \ Held)'
  BY <1>1 DEF Held, TypeOK, PmmTypeOK, pmm_alloc_block
<1> QED
  BY <1>3, <1>4, <1>5

(* A block that comes back clears its own bit only. *)
LEMMA FreeBlockStep ==
    ASSUME TypeOK, NeverTwice, NEW R \in SUBSET (memory_map \ Held),
           NEW frame \in Bit, pmm_free_block(frame)
    PROVE  /\ PmmTypeOK' /\ NeverTwice' /\ R \subseteq (memory_map \ Held)'
<1>1. frame \in Held /\ holders[frame] = 1
  BY DEF NeverTwice, Held, pmm_free_block
<1>2. PmmTypeOK'
  <2>1. used_blocks' \in 0 .. (UintMod - 1)
    BY U32Type, ConstantsType DEF TypeOK, PmmTypeOK, pmm_free_block
  <2>2. memory_map' \subseteq Bit /\ holders' \in [Bit -> Nat]
    BY <1>1 DEF TypeOK, PmmTypeOK, pmm_free_block
  <2> QED
    BY <2>1, <2>2 DEF PmmTypeOK
<1>3. NeverTwice'
  BY <1>1 DEF NeverTwice, Held, TypeOK, PmmTypeOK, pmm_free_block
<1>4. R \subseteq (memory_map \ Held)'
  BY <1>1 DEF Held, TypeOK, PmmTypeOK, pmm_free_block
<1> QED
  BY <1>2, <1>3, <1>4

-----------------------------------------------------------------------------
(* Preservation by each step of kmain *)

LEMMA InitInv == Init /\ memmap \in PCMaps => IInv
<1> SUFFICES ASSUME Init, memmap \in PCMaps PROVE IInv
  OBVIOUS
<1>1. PmmTypeOK
  BY ConstantsType, GarbageAssumption DEF Init, PmmInit, PmmTypeOK
<1>2. NoneHeld /\ Held = {}
  BY DEF Init, PmmInit, NoneHeld, Held
<1> QED
  BY <1>1, <1>2 DEF Init, IInv, TypeOK, Phases, NeverTwice, ReservedInv, Reserved,
     LowInv, PoolOpen, EntryInv

(* Before the pool opens nobody holds a frame. *)
LEMMA ClosedPool ==
    ASSUME NoneHeld, UNCHANGED holders, TypeOK
    PROVE  NoneHeld' /\ Held' = {} /\ NeverTwice'
  BY DEF NoneHeld, Held, NeverTwice, TypeOK, PmmTypeOK

LEMMA MemsetBitsType == MemsetBits \subseteq Bit /\ MemsetMarks \subseteq Bit
<1>1. /\ MaxBlocks \div ByteBits \in Nat
      /\ MaxBlocks = (MaxBlocks \div ByteBits) * ByteBits + (MaxBlocks % ByteBits)
      /\ MaxBlocks % ByteBits >= 0
  <2>1. MaxBlocks \in Nat /\ ByteBits \in Nat \ {0}
    BY ConstantsType
  <2> QED
    BY <2>1, DivModType
<1>2. (MaxBlocks \div ByteBits) * ByteBits <= ScanBits
  BY <1>1, PmmAssumption, ConstantsType DEF ScanBits
<1>3. MemsetBits \subseteq Bit
  BY <1>1, <1>2, ConstantsType DEF MemsetBits
<1> QED
  BY <1>3 DEF MemsetMarks

LEMMA StartPmmStep == IInv /\ StartPmm => IInv'
<1> SUFFICES ASSUME IInv, StartPmm PROVE IInv'
  OBVIOUS
<1>1. NoneHeld' /\ NeverTwice'
  BY ClosedPool DEF IInv, StartPmm, pmm_init, PoolOpen
<1>2. PmmTypeOK'
  <2>1. memory_map' \subseteq Bit
    BY MemsetBitsType DEF StartPmm, pmm_init, IInv, TypeOK, PmmTypeOK
  <2>2. used_blocks' \in 0 .. (UintMod - 1)
    BY PmmAssumption DEF StartPmm, pmm_init
  <2> QED
    BY <2>1, <2>2 DEF StartPmm, pmm_init, IInv, TypeOK, PmmTypeOK
<1>3. TypeOK'
  BY <1>2 DEF StartPmm, IInv, TypeOK, Phases
<1>4. ReservedInv'
  BY DEF StartPmm, ReservedInv, Reserved, PoolOpen
<1>5. EntryInv' /\ LowInv'
  BY DEF StartPmm, LowInv, LowUsed, IInv, EntryInv
<1> QED
  BY <1>1, <1>3, <1>4, <1>5 DEF IInv

(* The first entry of the map is the low memory: it clears the low room,    *)
(* and no later entry marks anything but block 0.                           *)
LEMMA AddRegionStep == IInv /\ AddRegion => IInv'
<1> SUFFICES ASSUME IInv, AddRegion PROVE IInv'
  OBVIOUS
<1> DEFINE base == memmap[entry].base
           length == memmap[entry].length
<1>0. /\ pmm_init_region(base, length) /\ phase = "regions"
      /\ entry' = entry + 1 /\ UNCHANGED <<phase, memmap>>
  BY DEF AddRegion
<1>1. NoneHeld' /\ NeverTwice'
  BY <1>0, ClosedPool DEF IInv, pmm_init_region, PoolOpen
<1>2. PmmTypeOK'
  <2>1. memory_map' \subseteq Bit
    <3>1. 0 \in Bit
      BY ConstantsType, RoomFacts
    <3> QED
      BY <1>0, <3>1 DEF pmm_init_region, IInv, TypeOK, PmmTypeOK
  <2>2. RegionCount(length) \in Int
    <3>1. entry \in 1 .. MaxRegions
      BY ConstantsType DEF IInv, TypeOK, AddRegion, EndOfMap, EntryInv
    <3>2. length \in Nat
      BY <3>1, BootAssumption DEF IInv, TypeOK, Entry
    <3> QED
      BY <3>2, BlockDiv DEF RegionCount
  <2>3. used_blocks' \in 0 .. (UintMod - 1)
    BY <1>0, <2>2, U32Type, ConstantsType DEF pmm_init_region, IInv, TypeOK, PmmTypeOK
  <2> QED
    BY <1>0, <2>1, <2>3 DEF pmm_init_region, IInv, TypeOK, PmmTypeOK
<1>3. TypeOK'
  BY <1>0, <1>2 DEF IInv, TypeOK, Phases
<1>4. ReservedInv'
  BY <1>0 DEF ReservedInv, Reserved, PoolOpen
<1>5. ASSUME NEW b \in 1 .. Room PROVE b \notin memory_map'
  <2>1. CASE entry = 1
    <3>1. base = 0 /\ length \div BlockSize >= Room /\ length \in Nat
      BY <2>1, LowMemoryAssumption, BootAssumption DEF IInv, TypeOK, EntryInv, Entry
    <3>2. 0 \div BlockSize = 0
      <4>1. (0 * BlockSize + 0) \div BlockSize = 0
        BY DivExact, ConstantsType
      <4> QED
        BY <4>1, ConstantsType
    <3>3. b \in RegionBlocks(base, length) /\ b # 0
      <4>1. length \div BlockSize \in Nat
        BY <3>1, BlockDiv
      <4> QED
        BY <3>1, <3>2, <4>1, ConstantsType DEF RegionBlocks
    <3> QED
      BY <1>0, <3>3 DEF pmm_init_region
  <2>2. CASE entry # 1
    <3>1. b \notin memory_map
      BY <2>2, <1>0 DEF IInv, TypeOK, LowInv, EntryInv
    <3> QED
      BY <1>0, <3>1, ConstantsType DEF pmm_init_region
  <2> QED
    BY <2>1, <2>2
<1>6. EntryInv' /\ LowInv'
  BY <1>0, <1>5 DEF LowInv, IInv, TypeOK, EntryInv
<1> QED
  BY <1>1, <1>3, <1>4, <1>6 DEF IInv

LEMMA SkipAndEndSteps == IInv /\ (SkipRegion \/ EndRegions) => IInv'
<1> SUFFICES ASSUME IInv, SkipRegion \/ EndRegions PROVE IInv'
  OBVIOUS
<1>0. UNCHANGED <<memory_map, used_blocks, holders, memmap>> /\ phase = "regions"
  BY DEF SkipRegion, EndRegions, pmmVars
<1>1. NoneHeld' /\ NeverTwice'
  BY <1>0, ClosedPool DEF IInv, PoolOpen
<1>2. entry > 1
  BY LowMemoryAssumption DEF IInv, TypeOK, SkipRegion, EndRegions, EndOfMap, EntryInv
<1>3. TypeOK' /\ EntryInv'
  BY <1>0 DEF IInv, TypeOK, PmmTypeOK, Phases, SkipRegion, EndRegions, EntryInv
<1>4. ReservedInv'
  BY DEF ReservedInv, Reserved, PoolOpen, SkipRegion, EndRegions
<1>5. LowInv'
  BY <1>0, <1>2 DEF LowInv, IInv, SkipRegion, EndRegions
<1> QED
  BY <1>1, <1>3, <1>4, <1>5 DEF IInv

(* Reserving a region marks its frames and keeps the rest of the bitmap. *)
LEMMA DeinitRegionType ==
    ASSUME TypeOK, NEW base \in Nat, NEW size \in Nat,
           RegionBlocks(base, size) \subseteq Bit, pmm_deinit_region(base, size)
    PROVE  PmmTypeOK'
<1>1. RegionCount(size) \in Int
  BY BlockDiv DEF RegionCount
<1>2. used_blocks' \in 0 .. (UintMod - 1)
  BY <1>1, U32Type, ConstantsType DEF pmm_deinit_region, TypeOK, PmmTypeOK
<1> QED
  BY <1>2 DEF pmm_deinit_region, TypeOK, PmmTypeOK

LEMMA ReserveKernelStep == IInv /\ ReserveKernel => IInv'
<1> SUFFICES ASSUME IInv, ReserveKernel PROVE IInv'
  OBVIOUS
<1>0. /\ pmm_deinit_region(KernelBase, KernelSize)
      /\ phase = "kernel" /\ phase' = "low" /\ UNCHANGED <<memmap, entry, holders>>
  BY DEF ReserveKernel, pmm_deinit_region
<1>1. NoneHeld' /\ NeverTwice' /\ Held' = {}
  BY <1>0, ClosedPool DEF IInv, PoolOpen
<1>2. PmmTypeOK'
  BY <1>0, DeinitRegionType, KernelFacts, ConstantsType DEF IInv
<1>3. TypeOK' /\ EntryInv'
  BY <1>0, <1>2 DEF IInv, TypeOK, Phases, EntryInv
<1>4. ReservedInv'
  BY <1>0, <1>1 DEF ReservedInv, Reserved, PoolOpen, pmm_deinit_region
<1>5. LowInv'
  <2>1. \A b \in 1 .. Room : b \notin memory_map
    BY <1>0 DEF IInv, LowInv
  <2>2. \A b \in 1 .. Room : b \notin memory_map'
    BY <1>0, <2>1, KernelFacts, ConstantsType DEF pmm_deinit_region
  <2> QED
    BY <1>0, <2>2 DEF LowInv
<1> QED
  BY <1>1, <1>3, <1>4, <1>5 DEF IInv

LEMMA ReserveLowStep == IInv /\ ReserveLow => IInv'
<1> SUFFICES ASSUME IInv, ReserveLow PROVE IInv'
  OBVIOUS
<1>0. /\ pmm_deinit_region(0, LowSize) /\ memory_map' = memory_map \cup LowFrames
      /\ phase = "low" /\ phase' = "table" /\ UNCHANGED <<memmap, entry, holders>>
  BY DEF ReserveLow, pmm_deinit_region, LowFrames
<1>1. NoneHeld' /\ NeverTwice' /\ Held' = {}
  BY <1>0, ClosedPool DEF IInv, PoolOpen
<1>2. PmmTypeOK'
  <2>1. RegionBlocks(0, LowSize) \subseteq Bit
    BY LowFramesRange, RoomFacts, ConstantsType DEF LowFrames
  <2> QED
    BY <1>0, <2>1, DeinitRegionType, ConstantsType DEF IInv
<1>3. TypeOK' /\ EntryInv'
  BY <1>0, <1>2 DEF IInv, TypeOK, Phases, EntryInv
<1>4. ReservedInv'
  <2>1. RegionBlocks(KernelBase, KernelSize) \subseteq memory_map
    BY <1>0 DEF IInv, ReservedInv, Reserved
  <2> QED
    BY <1>0, <1>1, <2>1 DEF ReservedInv, Reserved
<1>5. LowUsed(LowTop)'
  <2>1. \A b \in 1 .. Room : b \notin memory_map
    BY <1>0 DEF IInv, LowInv
  <2> QED
    BY <1>0, <2>1, LowFramesRange, ConstantsType DEF LowUsed
<1>6. LowInv'
  BY <1>0, <1>5 DEF LowInv
<1> QED
  BY <1>1, <1>3, <1>4, <1>6 DEF IInv

(* A page table takes the lowest frame of the low room. *)
LEMMA AllocTableStep == IInv /\ AllocTable => IInv'
<1> SUFFICES ASSUME IInv, AllocTable PROVE IInv'
  OBVIOUS
<1>1. PICK frame \in Bit : pmm_alloc_block(frame)
  BY DEF AllocTable
<1>2. /\ PoolOpen /\ PoolOpen' /\ UNCHANGED <<memmap, entry>> /\ phase' \in Phases
      /\ phase' # "pmm_init" /\ Reserved' = Reserved
  BY DEF AllocTable, PoolOpen, Phases, Reserved
<1>3. PmmTypeOK' /\ NeverTwice' /\ Reserved \subseteq (memory_map \ Held)'
  BY <1>1, AllocBlockStep DEF IInv, ReservedInv
<1>4. ReservedInv'
  BY <1>2, <1>3 DEF ReservedInv
<1>5. TypeOK' /\ EntryInv'
  BY <1>2, <1>3 DEF IInv, TypeOK, EntryInv
<1>6. ASSUME NEW n \in Nat, n + 1 < Room, LowUsed(n) PROVE LowUsed(n + 1)'
  <2>1. frame = n + 1
    BY <1>1, <1>6, FirstFreeLow, ConstantsType DEF pmm_alloc_block
  <2>2. memory_map' = memory_map \cup {n + 1}
    BY <1>1, <2>1 DEF pmm_alloc_block
  <2> QED
    BY <1>6, <2>2, ConstantsType DEF LowUsed
<1>7. LowInv'
  <2>1. CASE phase = "table" /\ phase' = "table2"
    BY <1>6, <2>1, RoomFacts, ConstantsType DEF IInv, LowInv
  <2>2. CASE phase = "table2" /\ phase' = "dir"
    <3>1. LowUsed(LowTop + 1) /\ LowTop + 1 \in Nat /\ LowTop + 1 + 1 < Room
      BY <2>2, RoomFacts, ConstantsType DEF IInv, LowInv
    <3>2. LowUsed(LowTop + 1 + 1)'
      BY <1>6, <3>1
    <3>3. LowTop + 1 + 1 = LowTop + 2
      BY ConstantsType
    <3> QED
      BY <2>2, <3>2, <3>3 DEF LowInv
  <2> QED
    BY <2>1, <2>2 DEF AllocTable
<1> QED
  BY <1>2, <1>3, <1>4, <1>5, <1>7 DEF IInv

(* The directory takes a run of the low room that nobody holds. *)
LEMMA AllocDirectoryStep == IInv /\ AllocDirectory => IInv'
<1> SUFFICES ASSUME IInv, AllocDirectory PROVE IInv'
  OBVIOUS
<1>1. PICK frame \in Bit, far \in BOOLEAN : pmm_alloc_blocks(DirBlocks, far, frame)
  BY DEF AllocDirectory
<1>2. /\ PoolOpen' /\ UNCHANGED <<memmap, entry>>
      /\ phase = "dir" /\ phase' = "up" /\ Reserved' = Reserved
  BY DEF AllocDirectory, PoolOpen, Reserved
<1> DEFINE run == Run(frame, DirBlocks)
<1>3. LowUsed(LowTop + 2)
  BY <1>2 DEF IInv, LowInv
<1>4. run \subseteq (LowTop + 3) .. (Room - 1)
  BY <1>1, <1>3, DirectoryRun DEF pmm_alloc_blocks
<1>5. run \subseteq Bit /\ run \cap memory_map = {}
  BY <1>3, <1>4, RoomFacts, ConstantsType DEF LowUsed
<1>6. /\ memory_map' = memory_map \cup run
      /\ holders' = [b \in Bit |-> holders[b] + IF b \in run THEN 1 ELSE 0]
      /\ used_blocks' = u32(used_blocks + DirBlocks)
  BY <1>1 DEF pmm_alloc_blocks
<1> HIDE DEF run
<1>7. \A b \in run : holders[b] = 0
  BY <1>5 DEF IInv, NeverTwice, Held, TypeOK, PmmTypeOK
<1>8. PmmTypeOK'
  <2>1. used_blocks' \in 0 .. (UintMod - 1)
    BY <1>6, U32Type, ConstantsType DEF IInv, TypeOK, PmmTypeOK
  <2>2. memory_map' \subseteq Bit /\ holders' \in [Bit -> Nat]
    BY <1>5, <1>6 DEF IInv, TypeOK, PmmTypeOK
  <2> QED
    BY <2>1, <2>2 DEF PmmTypeOK
<1>9. TypeOK' /\ EntryInv'
  BY <1>2, <1>8 DEF IInv, TypeOK, EntryInv, Phases
<1>10. NeverTwice'
  BY <1>5, <1>6, <1>7 DEF IInv, NeverTwice, Held, TypeOK, PmmTypeOK
<1>11. ReservedInv'
  BY <1>2, <1>5, <1>6 DEF IInv, ReservedInv, Held, TypeOK, PmmTypeOK
<1>12. LowInv'
  BY <1>2 DEF LowInv
<1> QED
  BY <1>2, <1>9, <1>10, <1>11, <1>12 DEF IInv

(* Nothing but the phase moves when vmm_initialize gives up or an           *)
(* allocation fails.                                                        *)
LEMMA FailingSteps == IInv /\ (VmmGivesUp \/ AllocBlockFails) => IInv'
<1> SUFFICES ASSUME IInv, VmmGivesUp \/ AllocBlockFails PROVE IInv'
  OBVIOUS
<1>1. /\ UNCHANGED <<memory_map, used_blocks, holders, memmap, entry>>
      /\ PoolOpen /\ phase' = "up"
  BY DEF VmmGivesUp, AllocBlockFails, pmm_alloc_block_fails, pmm_alloc_blocks_fails,
     pmmVars, bootVars, PoolOpen
<1>2. Reserved' = Reserved /\ Held' = Held
  BY <1>1 DEF Reserved, PoolOpen, Held
<1> QED
  BY <1>1, <1>2 DEF IInv, TypeOK, PmmTypeOK, Phases, EntryInv, NeverTwice, ReservedInv,
     LowInv, PoolOpen

LEMMA UseSteps == IInv /\ (AllocBlock \/ FreeBlock) => IInv'
<1> SUFFICES ASSUME IInv, AllocBlock \/ FreeBlock PROVE IInv'
  OBVIOUS
<1>1. PICK frame \in Bit : pmm_alloc_block(frame) \/ pmm_free_block(frame)
  BY DEF AllocBlock, FreeBlock
<1>2. phase = "up" /\ phase' = "up" /\ UNCHANGED <<memmap, entry>>
  BY DEF AllocBlock, FreeBlock, bootVars
<1>3. PmmTypeOK' /\ NeverTwice' /\ Reserved \subseteq (memory_map \ Held)'
  BY <1>1, AllocBlockStep, FreeBlockStep DEF IInv, ReservedInv
<1>4. Reserved' = Reserved
  BY <1>2 DEF Reserved, PoolOpen
<1> QED
  BY <1>2, <1>3, <1>4 DEF IInv, TypeOK, EntryInv, ReservedInv, LowInv, PoolOpen, Phases

-----------------------------------------------------------------------------
(* Theorems *)

(* The strengthened invariant holds in every reachable state: before the    *)
(* pool opens nobody holds a frame, what kmain reserved stays marked and    *)
(* unheld, and while vmm_initialize runs the low memory is in use exactly   *)
(* up to the last frame taken.                                              *)
THEOREM InductiveInvariant == PCSpec => []IInv
<1>1. IInv /\ [Next]_vars => IInv'
  <2> SUFFICES ASSUME IInv, [Next]_vars PROVE IInv'
    OBVIOUS
  <2>1. CASE BootNext
    BY <2>1, StartPmmStep, AddRegionStep, SkipAndEndSteps, ReserveKernelStep,
       ReserveLowStep, AllocTableStep, AllocDirectoryStep, FailingSteps DEF BootNext
  <2>2. CASE AllocBlock \/ FreeBlock
    BY <2>2, UseSteps
  <2>3. CASE AllocBlockFails
    BY <2>3, FailingSteps
  <2>4. CASE UNCHANGED vars
    <3>1. UNCHANGED <<memory_map, used_blocks, holders, phase, memmap, entry>>
      BY <2>4 DEF vars
    <3>2. Held' = Held /\ Reserved' = Reserved /\ PoolOpen' = PoolOpen
      BY <3>1 DEF Held, Reserved, PoolOpen
    <3> QED
      BY <3>1, <3>2 DEF IInv, TypeOK, PmmTypeOK, EntryInv, NoneHeld, NeverTwice,
         ReservedInv, LowInv, LowUsed
  <2> QED
    BY <2>1, <2>2, <2>3, <2>4 DEF Next
<1> QED
  BY <1>1, InitInv, PTL DEF PCSpec

(* The bitmap, the 32-bit counter and the boot sequence keep their types:   *)
(* no operation marks a bit outside the scanned words.                      *)
THEOREM TypeCorrect == PCSpec => []TypeOK
<1>1. IInv => TypeOK
  BY DEF IInv
<1> QED
  BY <1>1, InductiveInvariant, PTL

(* No frame has two holders, and held frames stay marked: page tables, the  *)
(* directory and single blocks never overlap.                               *)
THEOREM NeverTwiceHolds == PCSpec => []NeverTwice
<1>1. IInv => NeverTwice
  BY DEF IInv
<1> QED
  BY <1>1, InductiveInvariant, PTL

(* The stack and DMA memory, the kernel image and the bitmap are never      *)
(* handed out.                                                              *)
THEOREM ProtectedHolds == PCSpec => []ProtectedNeverHandedOut
<1>1. IInv => ProtectedNeverHandedOut
  <2> SUFFICES ASSUME IInv PROVE Held \cap Protected = {}
    BY DEF ProtectedNeverHandedOut
  <2>1. CASE PoolOpen
    BY <2>1, ProtectedReserved DEF IInv, ReservedInv
  <2>2. CASE ~ PoolOpen
    BY <2>2 DEF IInv, NoneHeld, Held
  <2> QED
    BY <2>1, <2>2
<1> QED
  BY <1>1, InductiveInvariant, PTL

-----------------------------------------------------------------------------
(* The manager implements the pool of frames                               *)

Free == pmm_get_free_block_count

(* The counter of free blocks can be given back every frame that is held:  *)
(* it does not wrap.                                                       *)
FreeInv == PoolOpen => Free + Cardinality(Held) <= UintMod - 1

(* Moving used_blocks by k moves the count of free blocks by -k, as long as *)
(* the result is in range.                                                 *)
LEMMA FreeMoves ==
    ASSUME NEW used \in Int, NEW k \in Int,
           u32(MaxBlocks - used) - k \in 0 .. (UintMod - 1)
    PROVE  u32(MaxBlocks - u32(used + k)) = u32(MaxBlocks - used) - k
<1> DEFINE a == used + k
           b == MaxBlocks - used
<1>1. UintMod \in Nat \ {0} /\ a \in Int /\ b \in Int
  BY ConstantsType
<1>2. /\ a \div UintMod \in Int /\ a % UintMod \in 0 .. (UintMod - 1)
      /\ a = (a \div UintMod) * UintMod + (a % UintMod)
  <2> HIDE DEF a
  <2> QED
    BY <1>1, DivModType, Zenon
<1>3. /\ b \div UintMod \in Int /\ b % UintMod \in 0 .. (UintMod - 1)
      /\ b = (b \div UintMod) * UintMod + (b % UintMod)
  <2> HIDE DEF b
  <2> QED
    BY <1>1, DivModType, Zenon
<1>4. PICK qa \in Int, ra \in 0 .. (UintMod - 1) :
         qa = a \div UintMod /\ ra = a % UintMod /\ a = qa * UintMod + ra
  BY <1>2
<1>5. PICK qb \in Int, rb \in 0 .. (UintMod - 1) :
         qb = b \div UintMod /\ rb = b % UintMod /\ b = qb * UintMod + rb
  BY <1>3
<1>6. PICK r \in 0 .. (UintMod - 1) : r = rb - k
  BY <1>5 DEF u32
<1>7. MaxBlocks - ra = (qa + qb) * UintMod + r
  BY <1>1, <1>4, <1>5, <1>6, ConstantsType
<1>8. ((qa + qb) * UintMod + r) % UintMod = r
  <2>1. qa + qb \in Int
    OBVIOUS
  <2> QED
    BY <1>1, <2>1, ModExact, Zenon
<1> QED
  BY <1>4, <1>5, <1>6, <1>7, <1>8 DEF u32

(* The held blocks are finitely many blocks. *)
LEMMA HeldFinite == IsFiniteSet(Held) /\ Cardinality(Held) \in Nat /\ Held \subseteq Bit
<1>1. IsFiniteSet(Bit)
  BY FS_Interval, ConstantsType
<1> QED
  BY <1>1, FS_Subset, FS_CardinalityType DEF Held

(* The cardinality the abstract specification counts with is the same.     *)
LEMMA PoolCardinality == ASSUME NEW S PROVE Pool!Cardinality(S) = Cardinality(S)
  BY DEF Pool!Cardinality, Cardinality

LEMMA FreeType == ASSUME TypeOK PROVE Free \in 0 .. (UintMod - 1)
  BY U32Type, ConstantsType DEF TypeOK, PmmTypeOK, pmm_get_free_block_count, Free

(* Frames nobody holds are taken, and counted.                             *)
LEMMA TakeStep ==
    ASSUME IInv, IInv', FreeInv, PoolOpen, PoolOpen', NEW S \in SUBSET Bit,
           S \cap memory_map = {}, Held' = Held \cup S, Held' \ Held = S,
           Cardinality(S) <= Free,
           used_blocks' = u32(used_blocks + Cardinality(S))
    PROVE  FreeInv' /\ Pool!Take(Held' \ Held)
<1>1. IsFiniteSet(S) /\ Cardinality(S) \in Nat
  <2>1. IsFiniteSet(Bit)
    BY FS_Interval, ConstantsType
  <2> QED
    BY <2>1, FS_Subset, FS_CardinalityType
<1>2. Free \in 0 .. (UintMod - 1) /\ used_blocks \in Int
  BY FreeType DEF IInv, TypeOK, PmmTypeOK
<1>3. Free' = Free - Cardinality(S)
  <2>1. PICK n \in Nat : n = Cardinality(S)
    BY <1>1
  <2>2. u32(MaxBlocks - used_blocks) - n \in 0 .. (UintMod - 1)
    BY <1>2, <2>1, ConstantsType DEF Free, pmm_get_free_block_count
  <2>3. u32(MaxBlocks - u32(used_blocks + n)) = u32(MaxBlocks - used_blocks) - n
    BY <1>2, <2>2, FreeMoves
  <2>4. Free' = u32(MaxBlocks - used_blocks')
    BY DEF Free, pmm_get_free_block_count
  <2> QED
    BY <2>1, <2>3, <2>4 DEF Free, pmm_get_free_block_count
<1>4. S \cap (Held \cup (Protected \cap Bit)) = {}
  <2>1. S \cap Held = {}
    OBVIOUS
  <2>2. Protected \subseteq memory_map
    BY ProtectedReserved DEF IInv, ReservedInv
  <2> QED
    BY <2>1, <2>2
<1>5. Cardinality(Held') = Cardinality(Held) + Cardinality(S)
  <2>1. Held \cap S = {} /\ IsFiniteSet(Held) /\ Cardinality(Held) \in Nat
    BY <1>4, HeldFinite
  <2>2. /\ Cardinality(Held \cup S)
             = Cardinality(Held) + Cardinality(S) - Cardinality(Held \cap S)
        /\ Cardinality(Held \cap S) = 0
    BY <1>1, <2>1, FS_Union, FS_EmptySet
  <2> QED
    BY <1>1, <2>1, <2>2
<1>6. FreeInv'
  BY <1>1, <1>2, <1>3, <1>5, HeldFinite, ConstantsType DEF FreeInv
<1>7. Pool!Take(S)
  BY <1>3, <1>4, PoolCardinality DEF Pool!Take, Free
<1> QED
  BY <1>6, <1>7

(* A frame that is held is returned, and counted.                          *)
LEMMA ReturnStep ==
    ASSUME IInv, FreeInv, PoolOpen, PoolOpen', NEW frame \in Held,
           Held' = Held \ {frame}, used_blocks' = u32(used_blocks - 1)
    PROVE  FreeInv' /\ Pool!Return(frame)
<1>1. Free \in 0 .. (UintMod - 1) /\ used_blocks \in Int
  BY FreeType DEF IInv, TypeOK, PmmTypeOK
<1>2. Cardinality(Held') = Cardinality(Held) - 1 /\ Cardinality(Held) >= 1
      /\ Cardinality(Held) \in Nat
  <2>1. Cardinality(Held \ {frame}) = Cardinality(Held) - 1
        /\ Cardinality(Held) \in Nat /\ Cardinality(Held \ {frame}) \in Nat
    <3>1. IsFiniteSet(Held) /\ IsFiniteSet(Held \ {frame})
      BY HeldFinite, FS_Subset
    <3> QED
      BY <3>1, FS_RemoveElement, FS_CardinalityType
  <2> QED
    BY <2>1
<1>3. Free + 1 \in 0 .. (UintMod - 1)
  BY <1>1, <1>2, ConstantsType DEF FreeInv
<1>4. Free' = Free + 1
  <2>1. used_blocks' = u32(used_blocks + (-1)) /\ Free - (-1) = Free + 1
    <3>1. used_blocks - 1 = used_blocks + (-1)
      BY <1>1
    <3> QED
      BY <1>1, <3>1
  <2>2. u32(MaxBlocks - used_blocks) - (-1) \in 0 .. (UintMod - 1)
    BY <1>3, <2>1 DEF Free, pmm_get_free_block_count
  <2>3. u32(MaxBlocks - u32(used_blocks + (-1))) = u32(MaxBlocks - used_blocks) - (-1)
    <3>1. -1 \in Int
      OBVIOUS
    <3> QED
      BY <1>1, <2>2, <3>1, FreeMoves
  <2> QED
    BY <2>1, <2>3 DEF Free, pmm_get_free_block_count
<1>5. FreeInv'
  BY <1>1, <1>2, <1>4, ConstantsType DEF FreeInv
<1> QED
  BY <1>4, <1>5 DEF Pool!Return, Free

(* A block that is handed out is a Take of the pool ... *)
LEMMA TakeBlock ==
    ASSUME IInv, IInv', FreeInv, PoolOpen, PoolOpen', NEW frame \in Bit,
           pmm_alloc_block(frame)
    PROVE  FreeInv' /\ Pool!Take(Held' \ Held)
<1>1. frame \notin memory_map /\ Free > 0
  BY FirstFree DEF pmm_alloc_block, Free
<1>2. holders[frame] = 0
  BY <1>1 DEF IInv, NeverTwice, Held, TypeOK, PmmTypeOK
<1>3. Held' = Held \cup {frame} /\ Held' \ Held = {frame}
  BY <1>2 DEF IInv, Held, TypeOK, PmmTypeOK, pmm_alloc_block
<1>4. Cardinality({frame}) = 1
  BY FS_Singleton
<1>5. used_blocks' = u32(used_blocks + Cardinality({frame}))
  BY <1>4 DEF pmm_alloc_block
<1>6. Cardinality({frame}) <= Free
  BY <1>1, <1>4, FreeType DEF IInv
<1>7. {frame} \in SUBSET Bit /\ {frame} \cap memory_map = {}
  BY <1>1
<1> QED
  BY <1>3, <1>5, <1>6, <1>7, TakeStep

(* ... so is the directory's run of blocks ... *)
LEMMA TakeDirectory ==
    ASSUME IInv, IInv', FreeInv, AllocDirectory
    PROVE  FreeInv' /\ Pool!Take(Held' \ Held)
<1>1. PICK frame \in Bit, far \in BOOLEAN : pmm_alloc_blocks(DirBlocks, far, frame)
  BY DEF AllocDirectory
<1>2. PoolOpen /\ PoolOpen' /\ phase = "dir"
  BY DEF AllocDirectory, PoolOpen
<1> DEFINE run == Run(frame, DirBlocks)
<1>3. LowUsed(LowTop + 2)
  BY <1>2 DEF IInv, LowInv
<1>4. run \subseteq (LowTop + 3) .. (Room - 1)
  BY <1>1, <1>3, DirectoryRun DEF pmm_alloc_blocks
<1>5. run \subseteq Bit /\ run \cap memory_map = {}
  BY <1>3, <1>4, RoomFacts, ConstantsType DEF LowUsed
<1>6. Cardinality(run) = DirBlocks
  <2>1. frame \in Int /\ frame + DirBlocks - 1 \in Int /\ frame <= frame + DirBlocks - 1
    BY RoomFacts, ConstantsType
  <2>2. Cardinality(frame .. (frame + DirBlocks - 1)) = (frame + DirBlocks - 1) - frame + 1
    BY <2>1, FS_Interval
  <2> QED
    BY <2>2, ConstantsType DEF Run
<1>7. /\ holders' = [b \in Bit |-> holders[b] + IF b \in run THEN 1 ELSE 0]
      /\ used_blocks' = u32(used_blocks + Cardinality(run))
      /\ Cardinality(run) <= Free
  <2>1. Free >= DirBlocks => DirBlocks <= Free
    BY FreeType, ConstantsType DEF IInv
  <2> QED
    BY <1>1, <1>6, <2>1 DEF pmm_alloc_blocks, Free
<1> HIDE DEF run
<1>8. \A b \in run : holders[b] = 0
  BY <1>5 DEF IInv, NeverTwice, Held, TypeOK, PmmTypeOK
<1>9. Held' = Held \cup run /\ Held' \ Held = run
  BY <1>5, <1>7, <1>8 DEF IInv, Held, TypeOK, PmmTypeOK
<1> QED
  BY <1>2, <1>5, <1>7, <1>9, TakeStep

(* ... a free is a Return ... *)
LEMMA ReturnBlock ==
    ASSUME IInv, FreeInv, FreeBlock
    PROVE  FreeInv' /\ \E f \in Held : Pool!Return(f)
<1>1. PICK frame \in Bit : pmm_free_block(frame)
  BY DEF FreeBlock
<1>2. PoolOpen /\ PoolOpen'
  BY DEF FreeBlock, bootVars, PoolOpen
<1>3. frame \in Held /\ holders[frame] = 1
  BY <1>1 DEF IInv, NeverTwice, Held, pmm_free_block
<1>4. Held' = Held \ {frame} /\ used_blocks' = u32(used_blocks - 1)
  BY <1>1, <1>3 DEF IInv, Held, TypeOK, PmmTypeOK, pmm_free_block
<1> QED
  BY <1>2, <1>3, <1>4, ReturnStep

(* Until the reservations are done the pool is closed; the last of them     *)
(* opens it with whatever the counter says.                                *)
LEMMA BootIsSilent ==
    ASSUME IInv, IInv',
           StartPmm \/ AddRegion \/ SkipRegion \/ EndRegions \/ ReserveKernel
    PROVE  FreeInv' /\ UNCHANGED Pool!poolVars
<1>1. ~ PoolOpen /\ ~ PoolOpen'
  BY DEF StartPmm, AddRegion, SkipRegion, EndRegions, ReserveKernel, PoolOpen
<1>2. UNCHANGED holders
  BY DEF StartPmm, AddRegion, SkipRegion, EndRegions, ReserveKernel, pmm_init,
         pmm_init_region, pmm_deinit_region, pmmVars
<1>3. Held' = Held
  BY <1>2 DEF Held
<1>4. PoolOpen' = PoolOpen
  BY <1>1 DEF PoolOpen
<1>5. UNCHANGED Pool!poolVars
  BY <1>1, <1>3, <1>4 DEF Pool!poolVars
<1> QED
  BY <1>1, <1>5 DEF FreeInv

(* ... and the last reservation opens the pool. *)
LEMMA OpenStep ==
    ASSUME IInv, IInv', ReserveLow
    PROVE  FreeInv' /\ Pool!Open
<1>1. ~ PoolOpen /\ PoolOpen' /\ UNCHANGED holders
  BY DEF ReserveLow, PoolOpen, pmm_deinit_region
<1>2. Held = {} /\ Held' = {}
  BY <1>1 DEF IInv, NoneHeld, Held
<1>3. Free' \in 0 .. (UintMod - 1)
  <2>1. MaxBlocks - used_blocks' \in Int
    BY ConstantsType DEF IInv, TypeOK, PmmTypeOK
  <2>2. Free' = u32(MaxBlocks - used_blocks')
    BY DEF Free, pmm_get_free_block_count
  <2> QED
    BY <2>1, <2>2, U32Type
<1>4. FreeInv'
  BY <1>2, <1>3, FS_EmptySet, ConstantsType DEF FreeInv
<1> QED
  BY <1>1, <1>2, <1>3, <1>4 DEF Pool!Open, Free

(* A failed allocation is a stutter of the pool. *)
LEMMA FailuresAreSilent ==
    ASSUME FreeInv, VmmGivesUp \/ AllocBlockFails \/ UNCHANGED vars
    PROVE  FreeInv' /\ UNCHANGED Pool!poolVars
<1>1. UNCHANGED <<memory_map, used_blocks, holders>> /\ PoolOpen' = PoolOpen
  BY DEF VmmGivesUp, AllocBlockFails, pmm_alloc_block_fails, pmm_alloc_blocks_fails,
     pmmVars, bootVars, PoolOpen, vars
<1>2. Held' = Held /\ Free' = Free
  BY <1>1 DEF Held, Free, pmm_get_free_block_count
<1> QED
  BY <1>1, <1>2 DEF FreeInv, Pool!poolVars, Free

(* Every step of the boot and of its users is one of the pool, or a         *)
(* stutter.                                                                 *)
LEMMA PoolStep ==
    ASSUME IInv, IInv', FreeInv, [Next]_vars
    PROVE  FreeInv' /\ [Pool!PoolNext]_(Pool!poolVars)
<1>1. CASE StartPmm \/ AddRegion \/ SkipRegion \/ EndRegions \/ ReserveKernel
  BY <1>1, BootIsSilent
<1>2. CASE ReserveLow
  BY <1>2, OpenStep DEF Pool!PoolNext
<1>3. CASE AllocTable \/ AllocBlock
  <2>1. PICK frame \in Bit : pmm_alloc_block(frame)
    BY <1>3 DEF AllocTable, AllocBlock
  <2>2. PoolOpen /\ PoolOpen'
    BY <1>3 DEF AllocTable, AllocBlock, PoolOpen, bootVars
  <2> QED
    BY <2>1, <2>2, TakeBlock DEF Pool!PoolNext
<1>4. CASE AllocDirectory
  BY <1>4, TakeDirectory DEF Pool!PoolNext
<1>5. CASE FreeBlock
  BY <1>5, ReturnBlock DEF Pool!PoolNext
<1>6. CASE VmmGivesUp \/ AllocBlockFails \/ UNCHANGED vars
  BY <1>6, FailuresAreSilent
<1> QED
  BY <1>1, <1>2, <1>3, <1>4, <1>5, <1>6 DEF Next, BootNext

(* The code implements its abstract specification, FramePool: from the end  *)
(* of the reservations on, pmm_alloc_block and pmm_alloc_blocks take frames *)
(* that nobody holds and nothing reserves, pmm_free_block returns them, and *)
(* the free count, kept modulo 2^32, moves by exactly as many.              *)
THEOREM PoolRefined == PCSpec => IsFramePool
<1>1. ASSUME IInv, Init PROVE FreeInv /\ Pool!PoolInit
  <2>1. ~ PoolOpen /\ Held = {}
    BY <1>1 DEF Init, PmmInit, PoolOpen, Held
  <2> QED
    BY <2>1 DEF FreeInv, Pool!PoolInit
<1>2. IInv /\ IInv' /\ FreeInv /\ [Next]_vars
         => FreeInv' /\ [Pool!PoolNext]_(Pool!poolVars)
  BY PoolStep
<1> QED
  BY <1>1, <1>2, InductiveInvariant, PTL DEF PCSpec, IsFramePool, Pool!PoolSpec

-----------------------------------------------------------------------------
(* The count of free blocks                                                 *)

(* What pmm_init_region has added so far.                                   *)
Seen == UNION { BlocksOf(memmap, k) : k \in { k \in 1 .. (entry - 1) : memmap[k].type = 1 } }

KernelRegion == RegionBlocks(KernelBase, KernelSize)

(* The entries behind kmain were looked at, the loop ended where it should. *)
Scanned(k) == k <= MaxRegions /\ memmap[k].type <= 4 /\ (k > 1 => memmap[k].base # 0)
ScanInv ==
    /\ \A k \in 1 .. (entry - 1) : Scanned(k)
    /\ phase \notin {"pmm_init", "regions"} => EndOfMap

(* The counter counts the blocks of the regions that are not reserved, less *)
(* those that were taken in their stead from the holes of the map, where    *)
(* the memset of pmm_init left half of the bits clear.                      *)
CountInv ==
    /\ memmap \in TidyMaps
    /\ phase \in {"regions", "kernel"} =>
          Free = Cardinality(Seen) /\ memory_map \cap Seen \subseteq {0}
    /\ phase = "low" =>
          /\ Free = Cardinality(Seen \ KernelRegion)
          /\ memory_map \cap Seen \subseteq {0} \cup KernelRegion
          /\ KernelRegion \subseteq memory_map
    /\ PoolOpen => Free + Cardinality(Held \ Seen) = Cardinality(Seen \ memory_map)

(* The entries seen are some of those kmain adds; behind the loop, all.     *)
LEMMA SeenAdded ==
    ASSUME IInv, ScanInv
    PROVE  /\ { k \in 1 .. (entry - 1) : memmap[k].type = 1 } \subseteq Added(memmap)
           /\ phase \notin {"pmm_init", "regions"} =>
                 { k \in 1 .. (entry - 1) : memmap[k].type = 1 } = Added(memmap)
<1>1. entry \in Nat /\ entry >= 1 /\ MaxRegions \in Nat
  BY ConstantsType DEF IInv, TypeOK, EntryInv
<1>2. { k \in 1 .. (entry - 1) : memmap[k].type = 1 } \subseteq Added(memmap)
  BY <1>1 DEF ScanInv, Scanned, Added
<1>3. ASSUME EndOfMap, NEW k \in Added(memmap) PROVE k \in 1 .. (entry - 1)
  <2>1. k \in 1 .. MaxRegions
    BY DEF Added
  <2>2. ASSUME k >= entry PROVE FALSE
    <3>1. entry <= MaxRegions /\ entry \in 1 .. k
      BY <1>1, <2>1, <2>2
    <3>2. memmap[entry].type <= 4 /\ (entry > 1 => memmap[entry].base # 0)
      BY <1>1, <3>1 DEF Added
    <3>3. memmap[entry].type \in Nat
      <4>1. memmap[entry] \in Entry
        BY <1>1, <3>1, BootAssumption DEF IInv, TypeOK
      <4> QED
        BY <4>1 DEF Entry
    <3> QED
      BY <1>3, <3>1, <3>2, <3>3 DEF EndOfMap
  <2> QED
    BY <1>1, <2>1, <2>2
<1>4. EndOfMap => Added(memmap) \subseteq { k \in 1 .. (entry - 1) : memmap[k].type = 1 }
  BY <1>3 DEF Added
<1> QED
  BY <1>2, <1>4 DEF ScanInv

(* So what was seen is what kmain was told is available.                    *)
LEMMA SeenAvailable ==
    ASSUME IInv, ScanInv, phase \notin {"pmm_init", "regions"}
    PROVE  Seen = Available
<1>1. Available = UNION { RegionBlocks(memmap[k].base, memmap[k].length) :
                            k \in Added(memmap) }
  BY DEF Available, Added
<1> QED
  BY <1>1, SeenAdded DEF Seen, BlocksOf

(* Sets of blocks, their sizes and those of their parts.                    *)
LEMMA BlockSets ==
    ASSUME NEW S \in SUBSET (0 .. (ScanBits - 1))
    PROVE  /\ IsFiniteSet(S) /\ Cardinality(S) \in 0 .. ScanBits
           /\ S \subseteq Nat
<1>1. IsFiniteSet(0 .. (ScanBits - 1)) /\ Cardinality(0 .. (ScanBits - 1)) = ScanBits
  <2>1. ScanBits \in Nat /\ 0 \in Int /\ ScanBits - 1 \in Int /\ 0 <= ScanBits - 1
    BY ConstantsType, RoomFacts
  <2>2. Cardinality(0 .. (ScanBits - 1)) = (ScanBits - 1) - 0 + 1
    BY <2>1, FS_Interval
  <2> QED
    BY <2>1, <2>2, FS_Interval
<1>2. IsFiniteSet(S) /\ Cardinality(S) <= Cardinality(0 .. (ScanBits - 1))
  BY <1>1, FS_Subset
<1>3. Cardinality(S) \in Nat
  BY <1>2, FS_CardinalityType
<1> QED
  BY <1>1, <1>2, <1>3, ConstantsType

(* What was added lies in the scanned bitmap: it is finite.                  *)
LEMMA SeenScanned ==
    ASSUME IInv, ScanInv, CountInv
    PROVE  Seen \subseteq 0 .. (ScanBits - 1)
  BY SeenAdded DEF CountInv, TidyMaps, Seen

(* A set without a part of it.                                              *)
LEMMA SplitCount ==
    ASSUME NEW S, IsFiniteSet(S), NEW T
    PROVE  /\ Cardinality(S) = Cardinality(S \ T) + Cardinality(S \cap T)
           /\ Cardinality(S \ T) \in Nat /\ Cardinality(S \cap T) \in Nat
           /\ IsFiniteSet(S \ T) /\ IsFiniteSet(S \cap T)
<1>1. IsFiniteSet(S \ T) /\ IsFiniteSet(S \cap T)
  BY FS_Subset
<1>2. (S \ T) \cup (S \cap T) = S /\ (S \ T) \cap (S \cap T) = {}
  OBVIOUS
<1>3. Cardinality((S \ T) \cup (S \cap T))
         = Cardinality(S \ T) + Cardinality(S \cap T) - Cardinality((S \ T) \cap (S \cap T))
  BY <1>1, FS_Union
<1>4. Cardinality(S \ T) \in Nat /\ Cardinality(S \cap T) \in Nat
  BY <1>1, FS_CardinalityType
<1>5. Cardinality((S \ T) \cap (S \cap T)) = 0
  BY <1>2, FS_EmptySet
<1>6. Cardinality(S) = Cardinality(S \ T) + Cardinality(S \cap T) - 0
  BY <1>2, <1>3, <1>5
<1> QED
  BY <1>1, <1>4, <1>6

(* Moving used_blocks moves the count the other way.                        *)
LEMMA FreeBy ==
    ASSUME TypeOK, NEW k \in Int, Free - k \in 0 .. (UintMod - 1),
           used_blocks' = u32(used_blocks + k)
    PROVE  Free' = Free - k
<1>1. used_blocks \in Int
  BY ConstantsType DEF TypeOK, PmmTypeOK
<1>2. u32(MaxBlocks - u32(used_blocks + k)) = u32(MaxBlocks - used_blocks) - k
  BY <1>1, FreeMoves DEF Free, pmm_get_free_block_count
<1>3. Free' = u32(MaxBlocks - used_blocks')
  BY DEF Free, pmm_get_free_block_count
<1> QED
  BY <1>2, <1>3 DEF Free, pmm_get_free_block_count

(* The blocks of a region and the number its call counts.                   *)
LEMMA RegionSize ==
    ASSUME NEW base \in Nat, NEW size \in Nat
    PROVE  /\ Cardinality(RegionBlocks(base, size)) = RegionCount(size)
           /\ RegionCount(size) \in Nat \ {0}
<1>1. base \div BlockSize \in Nat /\ size \div BlockSize \in Nat
  BY BlockDiv
<1> DEFINE a == base \div BlockSize
           n == size \div BlockSize
<1>2. Cardinality(a .. (a + n)) = (a + n) - a + 1
  <2>1. a \in Int /\ a + n \in Int /\ a <= a + n
    BY <1>1
  <2> QED
    BY <2>1, FS_Interval
<1> QED
  BY <1>1, <1>2 DEF RegionBlocks, RegionCount

(* An empty counter for an empty pool.                                      *)
LEMMA StartCounts ==
    ASSUME IInv, ScanInv, CountInv, StartPmm PROVE ScanInv' /\ CountInv'
<1>1. entry' = entry /\ entry = 1 /\ memmap' = memmap /\ phase' = "regions"
  BY DEF StartPmm, IInv, EntryInv
<1>2. Seen' = {}
  BY <1>1 DEF Seen
<1>3. Free' = 0
  <2>1. Free' = u32(MaxBlocks - used_blocks') /\ used_blocks' = MaxBlocks
    BY DEF Free, pmm_get_free_block_count, StartPmm, pmm_init
  <2>2. (0 * UintMod + 0) % UintMod = 0
    BY ModExact, ConstantsType
  <2> QED
    BY <2>1, <2>2, ConstantsType DEF u32
<1>4. ScanInv'
  BY <1>1 DEF ScanInv
<1> QED
  BY <1>1, <1>2, <1>3, <1>4, FS_EmptySet DEF CountInv, PoolOpen

(* A region adds its blocks to the counter, none of which was counted, and *)
(* to the pool, except block 0.                                             *)
LEMMA RegionCounts ==
    ASSUME IInv, ScanInv, CountInv, AddRegion, ScanBits < UintMod
    PROVE  ScanInv' /\ CountInv'
<1>1. /\ phase = "regions" /\ phase' = phase /\ memmap' = memmap /\ entry' = entry + 1
      /\ ~ EndOfMap /\ memmap[entry].type = 1
  BY DEF AddRegion
<1>2. entry \in 1 .. MaxRegions /\ memmap[entry].type <= 4
      /\ (entry > 1 => memmap[entry].base # 0)
  BY <1>1, ConstantsType DEF EndOfMap, IInv, TypeOK, EntryInv
<1>3. memmap[entry].base \in Nat /\ memmap[entry].length \in Nat
  <2>1. memmap[entry] \in Entry
    BY <1>2, BootAssumption DEF IInv, TypeOK
  <2> QED
    BY <2>1 DEF Entry
<1>4. \A k \in 1 .. (entry' - 1) : k \in 1 .. (entry - 1) \/ k = entry
  BY <1>1, <1>2
<1>5. ScanInv'
  BY <1>1, <1>2, <1>4 DEF ScanInv, Scanned
<1> DEFINE R == BlocksOf(memmap, entry)
<1>6. Seen' = Seen \cup R
  <2>1. { k \in 1 .. (entry' - 1) : memmap'[k].type = 1 }
           = { k \in 1 .. (entry - 1) : memmap[k].type = 1 } \cup {entry}
    BY <1>1, <1>2
  <2>2. \A k : BlocksOf(memmap', k) = BlocksOf(memmap, k)
    BY <1>1
  <2> QED
    BY <2>1, <2>2 DEF Seen
<1>7. Seen \cap R = {} /\ R \subseteq 0 .. (ScanBits - 1)
  <2>1. entry \in Added(memmap) /\ { k \in 1 .. (entry - 1) : memmap[k].type = 1 } \subseteq Added(memmap)
    <3>1. \A k \in 1 .. entry : memmap[k].type <= 4 /\ (k > 1 => memmap[k].base # 0)
      BY <1>2 DEF ScanInv, Scanned
    <3> QED
      BY <1>1, <1>2, <3>1, SeenAdded DEF Added
  <2>2. \A j, k \in Added(memmap) : j # k => BlocksOf(memmap, j) \cap BlocksOf(memmap, k) = {}
    BY DEF CountInv, TidyMaps
  <2>3. R \subseteq 0 .. (ScanBits - 1)
    BY <2>1 DEF CountInv, TidyMaps
  <2>4. \A k \in 1 .. (entry - 1) : k # entry
    BY <1>2
  <2>5. ASSUME NEW k \in { k \in 1 .. (entry - 1) : memmap[k].type = 1 }
        PROVE  BlocksOf(memmap, k) \cap R = {}
    BY <2>1, <2>2, <2>4
  <2> QED
    BY <2>3, <2>5 DEF Seen
<1>8. Cardinality(R) = RegionCount(memmap[entry].length) /\ Cardinality(R) \in Nat
  BY <1>3, RegionSize DEF BlocksOf
<1>9. Seen \subseteq 0 .. (ScanBits - 1) /\ Seen' \subseteq 0 .. (ScanBits - 1)
  BY <1>6, <1>7, SeenScanned
<1>10. Cardinality(Seen') = Cardinality(Seen) + Cardinality(R)
  <2>1. IsFiniteSet(Seen) /\ IsFiniteSet(R) /\ Cardinality(Seen) \in Nat
    BY <1>7, <1>9, BlockSets
  <2>2. Cardinality(Seen \cup R)
           = Cardinality(Seen) + Cardinality(R) - Cardinality(Seen \cap R)
    BY <2>1, FS_Union
  <2>3. Cardinality(Seen \cap R) = 0
    BY <1>7, FS_EmptySet
  <2> QED
    BY <1>6, <1>8, <2>1, <2>2, <2>3
<1>11. Free' = Cardinality(Seen')
  <2>1. Free = Cardinality(Seen) /\ Cardinality(Seen) \in Nat
    BY <1>1, <1>9, BlockSets DEF CountInv
  <2>2. Cardinality(Seen') \in 0 .. (UintMod - 1)
    <3>1. Cardinality(Seen') \in 0 .. ScanBits
      BY <1>9, BlockSets
    <3> QED
      BY <3>1, ConstantsType
  <2> DEFINE k == - RegionCount(memmap[entry].length)
  <2>3. k \in Int /\ Free - k = Cardinality(Seen')
    BY <1>8, <1>10, <2>1
  <2>4. used_blocks' = u32(used_blocks + k)
    <3>1. used_blocks \in Int
      BY ConstantsType DEF IInv, TypeOK, PmmTypeOK
    <3>2. used_blocks - RegionCount(memmap[entry].length) = used_blocks + k
      BY <1>8, <3>1
    <3> QED
      BY <3>2 DEF AddRegion, pmm_init_region
  <2> HIDE DEF k
  <2> QED
    BY <2>2, <2>3, <2>4, FreeBy DEF IInv
<1>12. memory_map' \cap Seen' \subseteq {0}
  BY <1>1, <1>6 DEF AddRegion, pmm_init_region, CountInv, BlocksOf
<1> QED
  BY <1>1, <1>5, <1>11, <1>12 DEF CountInv, PoolOpen

LEMMA SkipCounts ==
    ASSUME IInv, ScanInv, CountInv, SkipRegion \/ EndRegions
    PROVE  ScanInv' /\ CountInv'
<1>1. /\ phase = "regions" /\ phase' \in {"regions", "kernel"} /\ memmap' = memmap
      /\ UNCHANGED <<memory_map, used_blocks, holders>>
  BY DEF SkipRegion, EndRegions, pmmVars
<1>2. Free' = Free
  BY <1>1 DEF Free, pmm_get_free_block_count
<1>3. CASE SkipRegion
  <2>1. entry' = entry + 1 /\ ~ EndOfMap /\ memmap[entry].type # 1 /\ phase' = "regions"
    BY <1>3 DEF SkipRegion
  <2>2. entry \in 1 .. MaxRegions /\ memmap[entry].type <= 4
        /\ (entry > 1 => memmap[entry].base # 0)
    <3>1. entry \in 1 .. MaxRegions
      BY <2>1, ConstantsType DEF EndOfMap, IInv, TypeOK, EntryInv
    <3>2. memmap[entry].type \in Nat
      <4>1. memmap[entry] \in Entry
        BY <3>1, BootAssumption DEF IInv, TypeOK
      <4> QED
        BY <4>1 DEF Entry
    <3> QED
      BY <2>1, <3>1, <3>2 DEF EndOfMap
  <2>3. \A k \in 1 .. (entry' - 1) : k \in 1 .. (entry - 1) \/ k = entry
    BY <2>1, <2>2
  <2>4. ScanInv'
    BY <1>1, <2>1, <2>2, <2>3 DEF ScanInv, Scanned
  <2>5. { k \in 1 .. (entry' - 1) : memmap'[k].type = 1 }
           = { k \in 1 .. (entry - 1) : memmap[k].type = 1 }
    BY <1>1, <2>1, <2>2
  <2>6. Seen' = Seen
    <3>1. \A k : BlocksOf(memmap', k) = BlocksOf(memmap, k)
      BY <1>1
    <3> QED
      BY <2>5, <3>1 DEF Seen
  <2> QED
    BY <1>1, <1>2, <2>1, <2>4, <2>6 DEF CountInv, PoolOpen
<1>4. CASE EndRegions
  <2>1. entry' = entry /\ EndOfMap /\ phase' = "kernel"
    BY <1>4 DEF EndRegions
  <2>2. ScanInv' /\ Seen' = Seen
    BY <1>1, <2>1 DEF ScanInv, Scanned, EndOfMap, Seen
  <2> QED
    BY <1>1, <1>2, <2>1, <2>2 DEF CountInv, PoolOpen
<1> QED
  BY <1>3, <1>4

(* Behind the loop the entries seen do not change any more.                 *)
LEMMA SeenStays ==
    ASSUME ScanInv, phase \notin {"pmm_init", "regions"},
           phase' \notin {"pmm_init", "regions"}, UNCHANGED <<memmap, entry>>
    PROVE  ScanInv' /\ Seen' = Seen
BY DEF ScanInv, Scanned, EndOfMap, Seen

(* What is reserved is counted out of the regions it lies in.               *)
LEMMA ReserveBy ==
    ASSUME IInv, NEW S, NEW R, IsFiniteSet(S), R \subseteq S, IsFiniteSet(R),
           Free = Cardinality(S), Cardinality(S) < UintMod,
           used_blocks' = u32(used_blocks + Cardinality(R))
    PROVE  Free' = Cardinality(S \ R)
<1>1. Cardinality(S) = Cardinality(S \ R) + Cardinality(S \cap R)
      /\ Cardinality(S \ R) \in Nat /\ Cardinality(S \cap R) \in Nat /\ S \cap R = R
  BY SplitCount
<1>2. PICK k \in Nat : k = Cardinality(R)
  BY <1>1
<1>3. PICK n \in Nat : n = Cardinality(S \ R)
  BY <1>1
<1>4. Cardinality(S) = n + k
  BY <1>1, <1>2, <1>3
<1>5. Free - k = n /\ Free - k \in 0 .. (UintMod - 1)
  BY <1>2, <1>3, <1>4, ConstantsType
<1> QED
  BY <1>2, <1>3, <1>5, FreeBy DEF IInv

(* The kernel lies in one region of a tidy map.                              *)
LEMMA KernelCounts ==
    ASSUME IInv, ScanInv, CountInv, ReserveKernel, ScanBits < UintMod
    PROVE  ScanInv' /\ CountInv'
<1>1. /\ phase = "kernel" /\ phase' = "low" /\ UNCHANGED <<memmap, entry>>
      /\ memory_map' = memory_map \cup KernelRegion
      /\ used_blocks' = u32(used_blocks + RegionCount(KernelSize))
  BY DEF ReserveKernel, pmm_deinit_region, KernelRegion
<1>2. ScanInv' /\ Seen' = Seen
  BY <1>1, SeenStays
<1>3. Seen \subseteq 0 .. (ScanBits - 1)
  BY SeenScanned
<1>4. KernelRegion \subseteq Seen
  <2>1. \E k \in Added(memmap) : KernelRegion \subseteq BlocksOf(memmap, k)
    BY DEF CountInv, TidyMaps, KernelRegion
  <2> QED
    BY <1>1, <2>1, SeenAdded DEF Seen
<1>5. Cardinality(KernelRegion) = RegionCount(KernelSize) /\ IsFiniteSet(KernelRegion)
  BY <1>3, <1>4, RegionSize, BlockSets, ConstantsType DEF KernelRegion
<1>6. IsFiniteSet(Seen) /\ Cardinality(Seen) < UintMod
  BY <1>3, BlockSets, ConstantsType
<1>7. Free = Cardinality(Seen) /\ memory_map \cap Seen \subseteq {0}
  BY <1>1 DEF CountInv
<1>8. Free' = Cardinality(Seen \ KernelRegion)
  BY <1>1, <1>4, <1>5, <1>6, <1>7, ReserveBy
<1> QED
  BY <1>1, <1>2, <1>7, <1>8 DEF CountInv, PoolOpen, KernelRegion

(* The blocks below 1 MB and the stack that are added again are taken out of *)
(* the pool and out of the count.                                           *)
LEMMA LowCounts ==
    ASSUME IInv, ScanInv, CountInv, ReserveLow, ScanBits < UintMod
    PROVE  ScanInv' /\ CountInv'
<1>1. /\ phase = "low" /\ phase' = "table" /\ UNCHANGED <<memmap, entry, holders>>
      /\ memory_map' = memory_map \cup LowFrames
      /\ used_blocks' = u32(used_blocks + RegionCount(LowSize))
  BY DEF ReserveLow, pmm_deinit_region, LowFrames
<1>2. ScanInv' /\ Seen' = Seen
  BY <1>1, SeenStays
<1>3. Seen \subseteq 0 .. (ScanBits - 1)
  BY SeenScanned
<1>4. LowFrames = 0 .. LowTop /\ LowTop < Room
  BY LowFramesRange, RoomFacts, ConstantsType
<1>5. 0 .. Room \subseteq Seen
  <2>1. 1 \in 1 .. MaxRegions /\ memmap[1].type = 1 /\ memmap[1].base = 0
        /\ memmap[1].length \div BlockSize >= Room
    BY LowMemoryAssumption, ConstantsType DEF IInv, EntryInv
  <2>2. memmap[1].length \div BlockSize \in Nat
    <3>1. memmap[1] \in Entry
      BY <2>1, BootAssumption DEF IInv, TypeOK
    <3> QED
      BY <3>1, BlockDiv DEF Entry
  <2>3. 1 \in Added(memmap)
    <3>1. \A j \in 2 .. 1 : memmap[j].base # 0
      OBVIOUS
    <3>2. \A j \in 1 .. 1 : j = 1
      OBVIOUS
    <3> QED
      BY <2>1, <3>1, <3>2 DEF Added
  <2>4. 0 \div BlockSize = 0
    <3>1. (0 * BlockSize + 0) \div BlockSize = 0
      BY DivExact, ConstantsType
    <3> QED
      BY <3>1, ConstantsType
  <2>5. 0 .. Room \subseteq BlocksOf(memmap, 1)
    BY <2>1, <2>2, <2>4, ConstantsType DEF BlocksOf, RegionBlocks
  <2>6. 1 \in { k \in 1 .. (entry - 1) : memmap[k].type = 1 }
    BY <1>1, <2>3, SeenAdded
  <2>7. BlocksOf(memmap, 1) \subseteq Seen
    BY <2>6 DEF Seen
  <2> QED
    BY <2>5, <2>7
<1>6. KernelRegion \cap (0 .. Room) = {}
  BY KernelFacts DEF KernelRegion
<1>7. LowFrames \subseteq Seen \ KernelRegion
  BY <1>4, <1>5, <1>6, ConstantsType
<1>8. IsFiniteSet(LowFrames) /\ Cardinality(LowFrames) = RegionCount(LowSize)
  <2>1. IsFiniteSet(0 .. LowTop)
    BY FS_Interval, ConstantsType
  <2> QED
    BY <1>4, <2>1, RegionSize, ConstantsType DEF LowFrames
<1>9. IsFiniteSet(Seen \ KernelRegion) /\ Cardinality(Seen \ KernelRegion) < UintMod
  <2>1. Seen \ KernelRegion \subseteq 0 .. (ScanBits - 1)
    BY <1>3
  <2> QED
    BY <2>1, BlockSets, ConstantsType
<1>10. Free' = Cardinality((Seen \ KernelRegion) \ LowFrames)
  BY <1>1, <1>7, <1>8, <1>9, ReserveBy DEF CountInv
<1>11. (Seen \ KernelRegion) \ LowFrames = Seen' \ memory_map'
  BY <1>1, <1>2, <1>4, ConstantsType DEF CountInv
<1>12. Free' + Cardinality(Held' \ Seen') = Cardinality(Seen' \ memory_map')
  <2>1. Held' = {}
    BY <1>1 DEF IInv, NoneHeld, PoolOpen, Held
  <2>2. (Seen \ KernelRegion) \ LowFrames \subseteq 0 .. (ScanBits - 1)
    BY <1>3
  <2>3. Free' \in Nat
    BY <1>10, <2>2, BlockSets
  <2>4. Held' \ Seen' = {} /\ Cardinality(Held' \ Seen') = 0
    BY <2>1, FS_EmptySet
  <2> QED
    BY <1>10, <1>11, <2>3, <2>4
<1>13. memmap' \in TidyMaps
  BY <1>1 DEF CountInv
<1> QED
  BY <1>1, <1>2, <1>12, <1>13 DEF CountInv, PoolOpen

(* Blocks that are handed out come from the regions, and leave their count, *)
(* or from the holes.                                                       *)
LEMMA TakenCounts ==
    ASSUME IInv, ScanInv, CountInv, PoolOpen, PoolOpen', NEW S \in SUBSET Bit,
           UNCHANGED <<memmap, entry>>,
           S \cap memory_map = {}, S \cap Held = {},
           memory_map' = memory_map \cup S, Held' = Held \cup S,
           Free >= Cardinality(S), used_blocks' = u32(used_blocks + Cardinality(S))
    PROVE  ScanInv' /\ CountInv'
<1>1. /\ phase \notin {"pmm_init", "regions", "kernel", "low"}
      /\ phase' \notin {"pmm_init", "regions", "kernel", "low"}
  BY DEF PoolOpen
<1>2. ScanInv' /\ Seen' = Seen
  BY <1>1, SeenStays
<1>3. IsFiniteSet(S) /\ IsFiniteSet(Held) /\ IsFiniteSet(Seen)
  <2>1. IsFiniteSet(Bit)
    BY FS_Interval, ConstantsType
  <2> QED
    BY <2>1, SeenScanned, BlockSets, FS_Subset DEF Held
<1> DEFINE left == Seen \ memory_map
           left2 == Seen' \ memory_map'
           holes == Held \ Seen
           holes2 == Held' \ Seen'
<1>4. IsFiniteSet(left) /\ IsFiniteSet(holes2) /\ IsFiniteSet(holes)
  <2>1. IsFiniteSet(Held \cup S)
    BY <1>3, FS_Union
  <2> QED
    BY <1>2, <1>3, <2>1, FS_Subset
<1>5. left \ S = left2 /\ left \cap S = S \cap Seen
  BY <1>2
<1>6. holes2 \ S = holes /\ holes2 \cap S = S \ Seen
  BY <1>2
<1>7. PICK a \in Nat, b \in Nat : a = Cardinality(S \cap Seen) /\ b = Cardinality(S \ Seen)
                                  /\ Cardinality(S) = a + b
  <2>1. /\ Cardinality(S) = Cardinality(S \ Seen) + Cardinality(S \cap Seen)
        /\ Cardinality(S \ Seen) \in Nat /\ Cardinality(S \cap Seen) \in Nat
    BY <1>3, SplitCount
  <2>2. Cardinality(S) = Cardinality(S \cap Seen) + Cardinality(S \ Seen)
    BY <2>1
  <2> QED
    BY <2>1, <2>2
<1>8. PICK n \in Nat : n = Cardinality(left2) /\ Cardinality(left) = n + a
  <2> HIDE DEF left, left2
  <2>1. /\ Cardinality(left) = Cardinality(left \ S) + Cardinality(left \cap S)
        /\ Cardinality(left \ S) \in Nat
    BY <1>4, SplitCount
  <2>2. Cardinality(left) = Cardinality(left2) + a /\ Cardinality(left2) \in Nat
    BY <1>5, <1>7, <2>1
  <2> QED
    BY <2>2
<1>9. PICK h \in Nat : h = Cardinality(holes) /\ Cardinality(holes2) = h + b
  <2> HIDE DEF holes, holes2
  <2>1. /\ Cardinality(holes2) = Cardinality(holes2 \ S) + Cardinality(holes2 \cap S)
        /\ Cardinality(holes2 \ S) \in Nat
    BY <1>4, SplitCount
  <2>2. Cardinality(holes2) = Cardinality(holes) + b /\ Cardinality(holes) \in Nat
    BY <1>6, <1>7, <2>1
  <2> QED
    BY <2>2
<1>10. Free + h = n + a /\ Free \in 0 .. (UintMod - 1) /\ Free >= a + b
  BY <1>7, <1>8, <1>9, FreeType DEF CountInv, IInv
<1>11. Free' = Free - (a + b)
  <2>1. Free - (a + b) \in 0 .. (UintMod - 1) /\ a + b \in Int
    BY <1>10, ConstantsType
  <2> QED
    BY <1>7, <2>1, FreeBy DEF IInv
<1>12. Free' + Cardinality(holes2) = Cardinality(left2)
  <2> HIDE DEF left2, holes2
  <2> QED
    BY <1>8, <1>9, <1>10, <1>11, ConstantsType
<1> QED
  BY <1>1, <1>2, <1>12 DEF CountInv

(* A block that comes back is counted again.                                 *)
LEMMA FreedCounts ==
    ASSUME IInv, ScanInv, CountInv, PoolOpen, PoolOpen', NEW frame \in Held,
           UNCHANGED <<memmap, entry>>, ScanBits < UintMod,
           memory_map' = memory_map \ {frame}, Held' = Held \ {frame},
           used_blocks' = u32(used_blocks - 1)
    PROVE  ScanInv' /\ CountInv'
<1>1. /\ phase \notin {"pmm_init", "regions", "kernel", "low"}
      /\ phase' \notin {"pmm_init", "regions", "kernel", "low"}
  BY DEF PoolOpen
<1>2. ScanInv' /\ Seen' = Seen
  BY <1>1, SeenStays
<1>3. frame \in memory_map /\ used_blocks \in Int
  BY ConstantsType DEF IInv, NeverTwice, TypeOK, PmmTypeOK
<1>4. Seen \subseteq 0 .. (ScanBits - 1) /\ IsFiniteSet(Held) /\ IsFiniteSet(Held')
  <2>1. IsFiniteSet(Bit)
    BY FS_Interval, ConstantsType
  <2> QED
    BY <2>1, SeenScanned, FS_Subset DEF Held
<1> DEFINE left == Seen \ memory_map
           left2 == Seen' \ memory_map'
           holes == Held \ Seen
           holes2 == Held' \ Seen'
<1>5. /\ IsFiniteSet(left) /\ Cardinality(left) \in Nat
      /\ IsFiniteSet(left2) /\ Cardinality(left2) \in 0 .. ScanBits
  <2>1. left \subseteq 0 .. (ScanBits - 1) /\ left2 \subseteq 0 .. (ScanBits - 1)
    BY <1>2, <1>4
  <2> HIDE DEF left, left2
  <2> QED
    BY <2>1, BlockSets
<1>6. IsFiniteSet(holes) /\ IsFiniteSet(holes2)
      /\ Cardinality(holes) \in Nat /\ Cardinality(holes2) \in Nat
  BY <1>4, FS_Subset, FS_CardinalityType
<1>7. Free + Cardinality(holes) = Cardinality(left) /\ Free \in 0 .. (UintMod - 1)
  BY FreeType DEF CountInv, IInv
<1>8. /\ Cardinality(left2) - Cardinality(holes2)
           = Cardinality(left) - Cardinality(holes) + 1
  <2>1. CASE frame \in Seen
    <3>1. holes2 = holes /\ left2 \ {frame} = left /\ frame \in left2
      BY <1>2, <1>3, <2>1
    <3>2. Cardinality(left2 \ {frame}) = Cardinality(left2) - 1
      <4> HIDE DEF left2
      <4> QED
        BY <1>5, <3>1, FS_RemoveElement
    <3> HIDE DEF left, left2, holes, holes2
    <3>3. /\ Cardinality(left) \in Int /\ Cardinality(left2) \in Int
          /\ Cardinality(holes) \in Int /\ Cardinality(holes2) \in Int
      BY <1>5, <1>6
    <3> QED
      BY <3>1, <3>2, <3>3
  <2>2. CASE frame \notin Seen
    <3>1. left2 = left /\ holes \ {frame} = holes2 /\ frame \in holes
      BY <1>2, <2>2
    <3>2. Cardinality(holes \ {frame}) = Cardinality(holes) - 1
      <4> HIDE DEF holes
      <4> QED
        BY <1>6, <3>1, FS_RemoveElement
    <3> HIDE DEF left, left2, holes, holes2
    <3>3. /\ Cardinality(left) \in Int /\ Cardinality(left2) \in Int
          /\ Cardinality(holes) \in Int /\ Cardinality(holes2) \in Int
      BY <1>5, <1>6
    <3> QED
      BY <3>1, <3>2, <3>3
  <2> QED
    BY <2>1, <2>2
<1>9. Free + 1 + Cardinality(holes2) = Cardinality(left2)
  <2> HIDE DEF left, left2, holes, holes2
  <2> QED
    BY <1>5, <1>6, <1>7, <1>8, ConstantsType
<1>10. Free' = Free + 1
  <2>1. Free - (-1) = Free + 1 /\ used_blocks - 1 = used_blocks + (-1) /\ -1 \in Int
    BY <1>3, <1>7, ConstantsType
  <2>2. Free + 1 \in 0 .. (UintMod - 1)
    <3> HIDE DEF left, left2, holes, holes2
    <3> QED
      BY <1>5, <1>6, <1>7, <1>9, ConstantsType
  <2> QED
    BY <2>1, <2>2, FreeBy DEF IInv
<1> QED
  BY <1>1, <1>2, <1>9, <1>10 DEF CountInv

(* Every step keeps the count.                                              *)
LEMMA CountStep ==
    ASSUME IInv, IInv', ScanInv, CountInv, [Next]_vars, ScanBits < UintMod
    PROVE  ScanInv' /\ CountInv'
<1>1. CASE StartPmm \/ AddRegion \/ SkipRegion \/ EndRegions \/ ReserveKernel \/ ReserveLow
  BY <1>1, StartCounts, RegionCounts, SkipCounts, KernelCounts, LowCounts
<1>2. CASE AllocTable \/ AllocBlock
  <2>1. PICK frame \in Bit : pmm_alloc_block(frame)
    BY <1>2 DEF AllocTable, AllocBlock
  <2>2. PoolOpen /\ PoolOpen' /\ UNCHANGED <<memmap, entry>>
    BY <1>2 DEF AllocTable, AllocBlock, PoolOpen, bootVars
  <2>3. frame \notin memory_map /\ Free > 0 /\ Free \in Nat
    BY <2>1, FirstFree, FreeType, ConstantsType DEF pmm_alloc_block, Free, IInv
  <2>4. frame \notin Held /\ Held' = Held \cup {frame}
    BY <2>1, <2>3 DEF IInv, NeverTwice, Held, TypeOK, PmmTypeOK, pmm_alloc_block
  <2>5. Cardinality({frame}) = 1
    BY FS_Singleton
  <2>6. Free >= Cardinality({frame})
    BY <2>3, <2>5
  <2>7. used_blocks' = u32(used_blocks + Cardinality({frame}))
        /\ memory_map' = memory_map \cup {frame}
    BY <2>1, <2>5 DEF pmm_alloc_block
  <2>8. {frame} \cap memory_map = {} /\ {frame} \cap Held = {} /\ {frame} \in SUBSET Bit
    BY <2>3, <2>4
  <2> QED
    BY <2>2, <2>4, <2>6, <2>7, <2>8, TakenCounts
<1>3. CASE AllocDirectory
  <2>1. PICK frame \in Bit, far \in BOOLEAN : pmm_alloc_blocks(DirBlocks, far, frame)
    BY <1>3 DEF AllocDirectory
  <2>2. PoolOpen /\ PoolOpen' /\ phase = "dir" /\ UNCHANGED <<memmap, entry>>
    BY <1>3 DEF AllocDirectory, PoolOpen
  <2> DEFINE run == Run(frame, DirBlocks)
  <2>3. LowUsed(LowTop + 2)
    BY <2>2 DEF IInv, LowInv
  <2>4. run \subseteq (LowTop + 3) .. (Room - 1)
    BY <2>1, <2>3, DirectoryRun DEF pmm_alloc_blocks
  <2>5. run \in SUBSET Bit /\ run \cap memory_map = {}
    BY <2>3, <2>4, RoomFacts, ConstantsType DEF LowUsed
  <2>6. Cardinality(run) = DirBlocks
    <3>1. frame \in Int /\ frame + DirBlocks - 1 \in Int /\ frame <= frame + DirBlocks - 1
      BY RoomFacts, ConstantsType
    <3>2. Cardinality(frame .. (frame + DirBlocks - 1)) = (frame + DirBlocks - 1) - frame + 1
      BY <3>1, FS_Interval
    <3> QED
      BY <3>2, ConstantsType DEF Run
  <2>7. /\ holders' = [b \in Bit |-> holders[b] + IF b \in run THEN 1 ELSE 0]
        /\ memory_map' = memory_map \cup run
        /\ used_blocks' = u32(used_blocks + Cardinality(run))
        /\ Free >= Cardinality(run)
    BY <2>1, <2>6 DEF pmm_alloc_blocks, Free
  <2> HIDE DEF run
  <2>8. \A b \in run : holders[b] = 0
    BY <2>5 DEF IInv, NeverTwice, Held, TypeOK, PmmTypeOK
  <2>9. Held' = Held \cup run /\ run \cap Held = {}
    BY <2>5, <2>7, <2>8 DEF IInv, Held, TypeOK, PmmTypeOK
  <2> QED
    BY <2>2, <2>5, <2>7, <2>9, TakenCounts
<1>4. CASE FreeBlock
  <2>1. PICK frame \in Bit : pmm_free_block(frame)
    BY <1>4 DEF FreeBlock
  <2>2. PoolOpen /\ PoolOpen' /\ UNCHANGED <<memmap, entry>>
    BY <1>4 DEF FreeBlock, bootVars, PoolOpen
  <2>3. frame \in Held /\ holders[frame] = 1
    BY <2>1 DEF IInv, NeverTwice, Held, pmm_free_block
  <2>4. Held' = Held \ {frame} /\ used_blocks' = u32(used_blocks - 1)
        /\ memory_map' = memory_map \ {frame}
    BY <2>1, <2>3 DEF IInv, Held, TypeOK, PmmTypeOK, pmm_free_block
  <2> QED
    BY <2>2, <2>3, <2>4, FreedCounts
<1>5. CASE VmmGivesUp \/ AllocBlockFails \/ UNCHANGED vars
  <2>1. UNCHANGED <<memory_map, used_blocks, holders, memmap, entry>>
    BY <1>5 DEF VmmGivesUp, AllocBlockFails, pmm_alloc_block_fails,
       pmm_alloc_blocks_fails, pmmVars, bootVars, vars
  <2>2. (PoolOpen /\ PoolOpen') \/ phase' = phase
    BY <1>5 DEF VmmGivesUp, AllocBlockFails, bootVars, vars, PoolOpen
  <2>3. Held' = Held /\ Free' = Free /\ Seen' = Seen
    BY <2>1 DEF Held, Free, pmm_get_free_block_count, Seen
  <2>4. ScanInv'
    BY <2>1, <2>2 DEF ScanInv, Scanned, EndOfMap, PoolOpen
  <2> QED
    BY <2>1, <2>2, <2>3, <2>4 DEF CountInv, PoolOpen
<1> QED
  BY <1>1, <1>2, <1>3, <1>4, <1>5 DEF Next, BootNext

(* What the memset of pmm_init marked is free, or held, only where a region *)
(* was added.                                                               *)
ClearInv ==
    phase # "pmm_init" =>
        /\ MemsetMarks \subseteq memory_map \cup Seen
        /\ Held \cap MemsetMarks \subseteq Seen

LEMMA LowerPart ==
    ASSUME NEW m \in Nat, NEW n \in Nat, m <= n
    PROVE  1 .. (m - 1) \subseteq 1 .. (n - 1)
  OBVIOUS

(* The regions clear their blocks, the reservations set bits, blocks that   *)
(* are taken were clear and those given back were held.                     *)
LEMMA ClearStep ==
    ASSUME IInv, IInv', ScanInv, CountInv, ClearInv, [Next]_vars, ScanBits < UintMod
    PROVE  ClearInv'
<1>1. CASE StartPmm
  <2>1. Held' = {}
    BY <1>1, ClosedPool DEF IInv, StartPmm, pmm_init, PoolOpen
  <2> QED
    BY <1>1, <2>1 DEF StartPmm, pmm_init, ClearInv
<1>2. CASE AddRegion
  <2>1. /\ phase = "regions" /\ entry \in 1 .. MaxRegions /\ entry' = entry + 1
        /\ memmap' = memmap /\ memmap[entry].type = 1
    BY <1>2, ConstantsType DEF AddRegion, EndOfMap, IInv, TypeOK, EntryInv
  <2> DEFINE R == BlocksOf(memmap, entry)
  <2>2. memory_map' = (memory_map \ R) \cup {0} /\ holders' = holders
    BY <1>2 DEF AddRegion, pmm_init_region, BlocksOf
  <2>3. Seen \cup R \subseteq Seen'
    <3>1. { k \in 1 .. (entry' - 1) : memmap'[k].type = 1 }
             = { k \in 1 .. (entry - 1) : memmap[k].type = 1 } \cup {entry}
      BY <2>1
    <3>2. \A k : BlocksOf(memmap', k) = BlocksOf(memmap, k)
      BY <2>1
    <3> QED
      BY <3>1, <3>2 DEF Seen
  <2>4. Held' = Held
    BY <2>2 DEF Held
  <2> HIDE DEF R
  <2> QED
    BY <2>1, <2>2, <2>3, <2>4 DEF ClearInv
<1>3. CASE SkipRegion \/ EndRegions
  <2>1. /\ phase = "regions" /\ memmap' = memmap /\ UNCHANGED <<memory_map, holders>>
        /\ entry' = entry \/ entry' = entry + 1
    BY <1>3 DEF SkipRegion, EndRegions, pmmVars
  <2>2. Seen \subseteq Seen'
    <3>3. entry \in Nat
      BY DEF IInv, TypeOK
    <3>4. entry' \in Nat /\ entry <= entry'
      BY <2>1, <3>3
    <3>1. 1 .. (entry - 1) \subseteq 1 .. (entry' - 1)
      BY <3>3, <3>4, LowerPart
    <3>2. \A k : BlocksOf(memmap', k) = BlocksOf(memmap, k)
      BY <2>1
    <3> QED
      BY <2>1, <3>1, <3>2 DEF Seen
  <2>3. Held' = Held
    BY <2>1 DEF Held
  <2> QED
    BY <2>1, <2>2, <2>3 DEF ClearInv
<1>4. CASE ReserveKernel \/ ReserveLow
  <2>1. /\ phase # "pmm_init" /\ UNCHANGED <<memmap, entry, holders>>
        /\ memory_map \subseteq memory_map'
    BY <1>4 DEF ReserveKernel, ReserveLow, pmm_deinit_region
  <2>2. Held' = Held /\ Seen' = Seen
    BY <2>1 DEF Held, Seen
  <2> QED
    BY <2>1, <2>2 DEF ClearInv
<1>5. ASSUME phase # "pmm_init", UNCHANGED <<memmap, entry>>,
             NEW T, T \cap memory_map = {}, Held' = Held \cup T,
             memory_map' = memory_map \cup T
      PROVE  ClearInv'
  <2>1. Seen' = Seen
    BY <1>5 DEF Seen
  <2> QED
    BY <1>5, <2>1 DEF ClearInv
<1>6. CASE AllocTable \/ AllocBlock
  <2>1. PICK frame \in Bit : pmm_alloc_block(frame)
    BY <1>6 DEF AllocTable, AllocBlock
  <2>2. phase # "pmm_init" /\ UNCHANGED <<memmap, entry>>
    BY <1>6 DEF AllocTable, AllocBlock, bootVars
  <2>3. frame \notin memory_map
    BY <2>1, FirstFree DEF pmm_alloc_block
  <2>4. Held' = Held \cup {frame} /\ memory_map' = memory_map \cup {frame}
    BY <2>1, <2>3 DEF IInv, NeverTwice, Held, TypeOK, PmmTypeOK, pmm_alloc_block
  <2>5. {frame} \cap memory_map = {}
    BY <2>3
  <2> QED
    BY <1>5, <2>2, <2>4, <2>5
<1>7. CASE AllocDirectory
  <2>1. PICK frame \in Bit, far \in BOOLEAN : pmm_alloc_blocks(DirBlocks, far, frame)
    BY <1>7 DEF AllocDirectory
  <2>2. phase = "dir" /\ UNCHANGED <<memmap, entry>>
    BY <1>7 DEF AllocDirectory
  <2> DEFINE run == Run(frame, DirBlocks)
  <2>3. LowUsed(LowTop + 2)
    BY <2>2 DEF IInv, LowInv
  <2>4. run \subseteq (LowTop + 3) .. (Room - 1)
    BY <2>1, <2>3, DirectoryRun DEF pmm_alloc_blocks
  <2>5. run \in SUBSET Bit /\ run \cap memory_map = {}
    BY <2>3, <2>4, RoomFacts, ConstantsType DEF LowUsed
  <2>6. /\ holders' = [b \in Bit |-> holders[b] + IF b \in run THEN 1 ELSE 0]
        /\ memory_map' = memory_map \cup run
    BY <2>1 DEF pmm_alloc_blocks
  <2> HIDE DEF run
  <2>7. \A b \in run : holders[b] = 0
    BY <2>5 DEF IInv, NeverTwice, Held, TypeOK, PmmTypeOK
  <2>8. Held' = Held \cup run
    BY <2>5, <2>6, <2>7 DEF IInv, Held, TypeOK, PmmTypeOK
  <2> QED
    BY <1>5, <2>2, <2>5, <2>6, <2>8
<1>8. CASE FreeBlock
  <2>1. PICK frame \in Bit : pmm_free_block(frame)
    BY <1>8 DEF FreeBlock
  <2>2. phase # "pmm_init" /\ UNCHANGED <<memmap, entry>>
    BY <1>8 DEF FreeBlock, bootVars
  <2>3. frame \in Held /\ memory_map' = memory_map \ {frame}
    BY <2>1 DEF Held, pmm_free_block
  <2>4. Held' \subseteq Held
    BY <2>1, <2>3 DEF IInv, Held, TypeOK, PmmTypeOK, pmm_free_block
  <2>5. Seen' = Seen
    BY <2>2 DEF Seen
  <2> QED
    BY <2>2, <2>3, <2>4, <2>5 DEF ClearInv
<1>9. CASE VmmGivesUp \/ AllocBlockFails \/ UNCHANGED vars
  <2>1. UNCHANGED <<memory_map, holders, memmap, entry>>
    BY <1>9 DEF VmmGivesUp, AllocBlockFails, pmm_alloc_block_fails,
       pmm_alloc_blocks_fails, pmmVars, bootVars, vars
  <2>2. phase' # "pmm_init" => phase # "pmm_init"
    BY <1>9 DEF VmmGivesUp, AllocBlockFails, bootVars, vars
  <2>3. Held' = Held /\ Seen' = Seen
    BY <2>1 DEF Held, Seen
  <2> QED
    BY <2>1, <2>2, <2>3 DEF ClearInv
<1> QED
  BY <1>1, <1>2, <1>3, <1>4, <1>6, <1>7, <1>8, <1>9 DEF Next, BootNext

(* As long as the counter of pmm.c says that blocks are left the search     *)
(* finds one, and not beyond the highest block of the regions: it never     *)
(* runs behind the bitmap, where the scan that was meant for bits and goes  *)
(* over words would lead.  The block is one of a region, or one of those    *)
(* the memset of pmm_init left clear in a hole of the map.  The map must be *)
(* tidy: a block in two regions is counted twice.                           *)
THEOREM FreeCountHonestHolds ==
    ASSUME ScanBits < UintMod
    PROVE  PCSpec /\ memmap \in TidyMaps => []FreeCountIsHonest
<1>1. ASSUME Init, memmap \in TidyMaps PROVE ScanInv /\ CountInv /\ ClearInv
  <2>1. phase = "pmm_init" /\ entry = 1
    BY <1>1 DEF Init
  <2> QED
    BY <1>1, <2>1 DEF ScanInv, CountInv, ClearInv, PoolOpen
<1>2. IInv /\ IInv' /\ ScanInv /\ CountInv /\ ClearInv /\ [Next]_vars
        => ScanInv' /\ CountInv' /\ ClearInv'
  BY CountStep, ClearStep
<1>3. ASSUME IInv, ScanInv, CountInv, ClearInv PROVE FreeCountIsHonest
  <2> DEFINE found == mmap_find_first_free
  <2> SUFFICES ASSUME phase = "up", Free > 0
               PROVE  found \in 0 .. Max(Available) /\ (found \in Available \/ found \notin MemsetMarks)
    BY DEF FreeCountIsHonest, Free
  <2>1. Seen = Available /\ PoolOpen
    BY <1>3, SeenAvailable DEF PoolOpen
  <2>2. Seen \subseteq 0 .. (ScanBits - 1) /\ IsFiniteSet(Seen) /\ Seen \subseteq Int
    BY <1>3, SeenScanned, BlockSets
  <2>3. Seen \ memory_map # {}
    <3>1. Free + Cardinality(Held \ Seen) = Cardinality(Seen \ memory_map)
      BY <1>3, <2>1 DEF CountInv
    <3>2. Cardinality(Held \ Seen) \in Nat /\ Free \in Nat
      <4>1. IsFiniteSet(Held \ Seen)
        BY HeldFinite, FS_Subset
      <4> QED
        BY <1>3, <4>1, FS_CardinalityType, FreeType, ConstantsType DEF IInv
    <3> QED
      BY <3>1, <3>2, FS_EmptySet
  <2>4. PICK b \in Seen \ memory_map : TRUE
    BY <2>3
  <2>5. b \in ClearBits
    BY <2>2 DEF ClearBits
  <2>6. mmap_find_first_free = Min(ClearBits) /\ ClearBits \in SUBSET Nat
    BY <2>5, ConstantsType DEF mmap_find_first_free, ClearBits
  <2>7. mmap_find_first_free \in Nat /\ mmap_find_first_free <= b
    BY <2>5, <2>6, MinOfNaturals
  <2>8. Max(Seen) \in Int /\ b <= Max(Seen)
    BY <2>2, MaxOfFinite
  <2>9. found \notin memory_map
    BY <2>7, FirstFree, ConstantsType DEF NoFrame
  <2>10. found \in Available \/ found \notin MemsetMarks
    BY <1>3, <2>1, <2>9 DEF ClearInv
  <2> QED
    BY <2>1, <2>2, <2>7, <2>8, <2>10
<1> QED
  BY <1>1, <1>2, <1>3, InductiveInvariant, PTL DEF PCSpec
=============================================================================
