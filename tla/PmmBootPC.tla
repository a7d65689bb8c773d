------------------------------ MODULE PmmBootPC ------------------------------
(***************************************************************************)
(* What the boot of the physical memory manager silently relies on: the    *)
(* low memory of a PC comes first in the map and is large enough for the   *)
(* page tables and the directory, and the kernel lies above it, on whole   *)
(* pages (src/linker.ld aligns every section), followed by a bitmap that   *)
(* fits one block (up to 128 MB).                                          *)
(***************************************************************************)
EXTENDS PmmBoot

CONSTANT PCMaps    \* the maps with that much low memory

ASSUME PCMapsAssumption == PCMaps \subseteq MemoryMaps

(* The boot of a machine with enough low memory. *)
PCSpec == Init /\ memmap \in PCMaps /\ [][Next]_vars

LowTop == LowSize \div BlockSize

(* Where the directory search must succeed: bit 0 of the first word behind *)
(* the low reservation and the two page tables.                            *)
FirstProbe == ((LowTop + 3) \div WordBits + 1) * WordBits
Room == FirstProbe + DirBlocks

ASSUME LowMemoryAssumption ==
    /\ MaxRegions >= 1
    /\ \A m \in PCMaps :
          m[1].type = 1 /\ m[1].base = 0 /\ m[1].length \div BlockSize >= Room
    /\ Room < ScanBits
    /\ DirBlocks \in 2 .. MaxRun

ASSUME KernelAssumption ==
    /\ KernelBase % BlockSize = 0 /\ KernelSize % BlockSize = 0
    /\ KernelSize > 0
    /\ KernelBase \div BlockSize > Room
    /\ KernelBase \div BlockSize + KernelSize \div BlockSize \in Bit
    /\ MaxBlocks \div ByteBits \in 1 .. BlockSize

-----------------------------------------------------------------------------
(* The maps for which the count of free blocks means something: the regions *)
(* kmain adds share no block, as pmm_init_region counts them, with the one  *)
(* behind the last; they lie in the scanned part of the bitmap, and the     *)
(* kernel with its bitmap lies in one of them.                              *)

Added(m) ==
    { k \in 1 .. MaxRegions : /\ m[k].type = 1
                              /\ \A j \in 2 .. k : m[j].base # 0
                              /\ \A j \in 1 .. k : m[j].type <= 4 }

BlocksOf(m, k) == RegionBlocks(m[k].base, m[k].length)

TidyMaps ==
    { m \in PCMaps :
        /\ \A j, k \in Added(m) : j # k => BlocksOf(m, j) \cap BlocksOf(m, k) = {}
        /\ \A k \in Added(m) : BlocksOf(m, k) \subseteq 0 .. (ScanBits - 1)
        /\ \E k \in Added(m) : RegionBlocks(KernelBase, KernelSize) \subseteq BlocksOf(m, k) }
=============================================================================
