------------------------------ MODULE MCPmmBig ------------------------------
(* The blocks, words and bytes of MCPmmBoot with so much memory that the     *)
(* bitmap needs a second block.                                              *)
EXTENDS PmmBoot

E(type, base, length) == [type |-> type, base |-> base, length |-> length]

MCMemoryMaps == { <<E(1, 0, 100), E(2, 100, 20), E(1, 120, 56), E(5, 0, 0)>> }

MCGarbage == { {}, Bit }
=============================================================================
