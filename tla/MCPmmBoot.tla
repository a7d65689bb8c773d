------------------------------ MODULE MCPmmBoot ------------------------------
(* A machine with blocks of 8 bytes, words of 8 and bytes of 4 bits: low     *)
(* memory in frames 0-12, a hole, the kernel and the bitmap in frames 15-16,  *)
(* the top of RAM at frame 20 or less.  The first free frame of a word's high *)
(* bits makes mmap_find_first_free_s probe outside the modelled memory.       *)
EXTENDS PmmBootPC

E(type, base, length) == [type |-> type, base |-> base, length |-> length]

MCPCMaps ==
    { <<E(1, 0, 100), E(2, 100, 20), E(1, 120, 40), E(5, 0, 0)>>,
      <<E(1, 0, 103), E(1, 120, 44), E(1, 0, 0), E(1, 240, 8)>>,
      <<E(1, 0, 96), E(3, 104, 8), E(1, 120, 32), E(2, 168, 8)>> }

(* Too little memory for a page table, for the second one, for the          *)
(* directory: vmm_initialize gives up and kmain goes on.                    *)
MCMemoryMaps ==
    MCPCMaps \cup
    { <<E(1, 0, low), E(1, 120, 8), E(5, 0, 0), E(5, 0, 0)>> : low \in {36, 44, 52} }

MCGarbage == { {}, Bit }

(* Every map with enough low memory is one the counter is right for.        *)
ASSUME MCTidy == TidyMaps = MCPCMaps
=============================================================================
