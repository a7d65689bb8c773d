---------------------------- MODULE SpaceProofs ----------------------------
(***************************************************************************)
(* Proofs about Task, HeapHooks and Vmm: the kernel's address space stays  *)
(* sound whatever the heap takes and gives back and whatever program exec  *)
(* loads.                                                                  *)
(*                                                                         *)
(* d is the frame of the directory, lo the frame of the first table and hi *)
(* the frame of the kernel's table.                                        *)
(***************************************************************************)
EXTENDS Task, Lemmas

(* What the theorems assume of the machine: memory ends below the kernel's  *)
(* addresses, 0xC0000000.                                                   *)
MemoryBelowKernel == FrameCount <= KernelIndex * Entries

(* A page whose table is the first one or lies above physical memory.       *)
Apart(page) == page < Entries \/ FrameCount <= (page \div Entries) * Entries

(* What they assume of the programs: each is linked below the kernel, away  *)
(* from the tables that would show it physical memory.                      *)
ProgramsApart ==
    \A p \in Files :
        \A page \in (p.vpage .. (p.vpage + MorePages(p))) \cup {StackPage(p)} :
            page < KernelIndex * Entries /\ Apart(page)

-----------------------------------------------------------------------------
(* The invariant *)

Cell == 0 .. (Entries - 1)
MachineType == [mem : [Frame -> [Cell -> Word]], used : SUBSET Frame, stopped : BOOLEAN]

(* Frames that never go back to the pool: 0, the directory, the two tables  *)
(* of the boot, and the frame below each of the three, so that the memset   *)
(* for a new table never reaches them.                                      *)
Fixed(d, lo, hi) == {0, d, lo, hi} \cup { f \in Frame : f + 1 \in {d, lo, hi} }

InUse(m, d) == { i \in Cell : m.mem[d][i] # Zero }
TablesIn(m, d) == { m.mem[d][i].frame : i \in InUse(m, d) }

(* Frames in use that hold no table. *)
Plain(m, d) == m.used \ (TablesIn(m, d) \cup {d})

DirectorySound(m, d, lo, hi) ==
    /\ {d, lo, hi} \subseteq Frame /\ d # lo /\ d # hi /\ lo # hi /\ 0 \notin {d, lo, hi}
    /\ Fixed(d, lo, hi) \subseteq m.used
    /\ m.mem[d][0] = [frame |-> lo, flags |-> 3]
    /\ m.mem[d][KernelIndex] = [frame |-> hi, flags |-> 3]
    /\ \A i \in InUse(m, d) \ {0, KernelIndex} :
          Present(m.mem[d][i]) /\ m.mem[d][i].frame \in m.used \ Fixed(d, lo, hi)
    /\ \A i, j \in InUse(m, d) : m.mem[d][i].frame = m.mem[d][j].frame => i = j
    /\ \A i \in InUse(m, d) \ {0} : FrameCount <= i * Entries

(* The first table and the kernel's map every frame to itself. *)
LowIsIdentity(m, lo) ==
    \A i \in Cell : Present(m.mem[lo][i]) /\ m.mem[lo][i].frame = i
HighIsIdentity(m, hi) ==
    \A i \in Cell : m.mem[hi][i].frame = i

(* A program at address 0 replaces some of the first table's entries.       *)
LowIsPlain(m, d, lo) ==
    \A i \in Cell : m.mem[lo][i].frame = i \/ m.mem[lo][i].frame \in Plain(m, d)

(* No page of the heap maps a table. *)
HeapIsPlain(m, d) ==
    \A i \in InUse(m, d) : i >= HeapIndex =>
        \A j \in Cell : Present(m.mem[m.mem[d][i].frame][j])
                           => m.mem[m.mem[d][i].frame][j].frame \in Plain(m, d)

HeapTable(m, d) == m.mem[d][HeapIndex].frame

(* The heap never has a second table: it maps its pages in order, and each  *)
(* takes a frame above the frames of those before it, so that with the last *)
(* page of the first table the frames that table can show are used up.      *)
HeapSmall(m, d) ==
    /\ InUse(m, d) \subseteq {0, KernelIndex, HeapIndex}
    /\ HeapIndex \in InUse(m, d) =>
          /\ HeapTable(m, d) - 1 \in m.used
          /\ \A j \in Cell : Present(m.mem[HeapTable(m, d)][j]) => 0 .. j \subseteq m.used

(* The frame before a table is in use, so that the memset for a new table   *)
(* never runs into one.                                                     *)
Guarded(m, d) == \A i \in InUse(m, d) : m.mem[d][i].frame - 1 \in m.used

(* The machine in the shell, and while a program is loaded. *)
ShellSound(m, d, lo, hi) ==
    /\ DirectorySound(m, d, lo, hi) /\ HighIsIdentity(m, hi)
    /\ LowIsIdentity(m, lo) /\ HeapIsPlain(m, d)
LoadSound(m, d, lo, hi) ==
    /\ DirectorySound(m, d, lo, hi) /\ HighIsIdentity(m, hi)
    /\ LowIsPlain(m, d, lo) /\ HeapIsPlain(m, d)

RunsFit == \A run \in granted : run[2] \in 1 .. MaxPages /\ PagesOf(run) \subseteq HeapPage

(* What the kernel's own steps keep, *)
KernelInv ==
    /\ TypeOK /\ RunsFit
    /\ cur_directory = 0 => used \in Reserved /\ granted = {} /\ ~ stopped
    /\ Running => \E lo, hi \in Frame : ShellSound(Machine, cur_directory, lo, hi)
    /\ Running => HeapSmall(Machine, cur_directory)

(* and what is left of it when a program was loaded. *)
ProgramInv ==
    Running /\ FitsFirstFrame(user[1]) =>
        \E lo, hi \in Frame :
            /\ LoadSound(Machine, cur_directory, lo, hi)
            /\ user[1].vpage >= Entries => LowIsIdentity(Machine, lo)

SpaceInv ==
    /\ TaskTypeOK
    /\ user = <<>> => KernelInv
    /\ user # <<>> => ProgramInv

-----------------------------------------------------------------------------
(* Constants, words and machines *)

(* The sizes, indices and frames the constants give.                        *)
LEMMA Constants ==
    /\ Entries \in Nat \ {0} /\ FrameCount \in Nat \ {0} /\ FrameCount <= Entries * Entries
    /\ KernelIndex \in Cell \ {0} /\ HeapIndex \in Cell /\ KernelIndex < HeapIndex
    /\ 0 \in Cell /\ 0 \in Frame /\ \A marked \in Reserved : 0 \in marked /\ marked \subseteq Frame
    /\ Frame \subseteq Nat /\ Frame \subseteq 0 .. (Entries * Entries - 1)
<1>1. PICK q \in Nat : q = Entries * Entries
  BY VmmAssumption
<1>2. FrameCount \in 1 .. q
  BY <1>1, VmmAssumption
<1>3. Frame \subseteq 0 .. (q - 1) /\ FrameCount <= q
  BY <1>2 DEF Frame
<1> QED
  BY <1>1, <1>2, <1>3, VmmAssumption, HookAssumption DEF Cell, Frame

(* A word of the tables for a frame. *)
LEMMA WordType ==
    ASSUME NEW f \in Frame, NEW flags \in Nat
    PROVE  [frame |-> f, flags |-> flags] \in Word
BY Constants DEF Word

(* The cleared word is a word, and not present.                             *)
LEMMA ZeroType == Zero \in Word /\ ~ Present(Zero)
<1>1. PICK q \in Nat : q = Entries * Entries /\ q >= 1
  BY VmmAssumption
<1> QED
  BY <1>1 DEF Zero, Word, Present

(* The fields of a machine.                                                 *)
LEMMA MachineParts ==
    ASSUME NEW m \in MachineType
    PROVE  /\ m.mem \in [Frame -> [Cell -> Word]] /\ m.used \subseteq Frame /\ m.stopped \in BOOLEAN
           /\ FreeFrames(m) \subseteq Frame
BY DEF MachineType, FreeFrames

(* Storing words keeps the memory's type. *)
LEMMA PutType ==
    ASSUME NEW mm \in [Frame -> [Cell -> Word]], NEW f, NEW i, NEW w \in Word
    PROVE  [mm EXCEPT ![f][i] = w] \in [Frame -> [Cell -> Word]]
OBVIOUS

(* A fault leaves the machine typed.                                        *)
LEMMA StopType ==
    ASSUME NEW m \in MachineType
    PROVE  Stop(m) \in MachineType /\ Stop(m).stopped
BY DEF Stop, MachineType

(* So does storing a word in a table.                                       *)
LEMMA StoreType ==
    ASSUME NEW m \in MachineType, NEW f, NEW i, NEW w \in Word
    PROVE  Store(m, f, i, w) \in MachineType
<1>1. [m EXCEPT !.mem[f][i] = w] \in MachineType
  <2>1. [m.mem EXCEPT ![f][i] = w] \in [Frame -> [Cell -> Word]]
    BY PutType DEF MachineType
  <2> QED
    BY <2>1 DEF MachineType
<1> QED
  BY <1>1, StopType DEF Store

(* Cleared words are words.                                                 *)
LEMMA ClearWordsType ==
    ASSUME NEW words \in [Cell -> Word], NEW from, NEW to
    PROVE  ClearWords(words, from, to) \in [Cell -> Word]
BY ZeroType DEF ClearWords, Cell

(* The frame whose words were cleared. *)
LEMMA ClearFrameType ==
    ASSUME NEW m \in MachineType, NEW f \in Frame, NEW from, NEW to
    PROVE  [m EXCEPT !.mem[f] = ClearWords(@, from, to)] \in MachineType
<1>1. ClearWords(m.mem[f], from, to) \in [Cell -> Word]
  BY ClearWordsType, MachineParts
<1> QED
  BY <1>1 DEF MachineType

(* The memset for a table, with its overrun into the next frame.            *)
LEMMA ClearTableType ==
    ASSUME NEW m \in MachineType, NEW f \in Frame, NEW flags \in Nat
    PROVE  ClearTable(m, f, flags) \in MachineType
<1> DEFINE cleared == [m EXCEPT !.mem[f] = ClearWords(@, Shift(flags), Entries - 1)]
           both == [cleared EXCEPT !.mem[f + 1] = ClearWords(@, 0, Shift(flags) - 1)]
<1>1. cleared \in MachineType
  BY ClearFrameType
<1>2. f + 1 \in Frame => both \in MachineType
  <2> HIDE DEF cleared
  <2> QED
    BY <1>1, ClearFrameType
<1>3. ClearTable(m, f, flags) \in {Stop(m), Stop(cleared), both}
      /\ (f + 1 \notin Frame => ClearTable(m, f, flags) \in {Stop(m), Stop(cleared)})
  BY DEF ClearTable
<1> HIDE DEF cleared, both
<1> QED
  BY <1>1, <1>2, <1>3, StopType

(* The frame the allocator takes is free, and the first of them.            *)
LEMMA FirstFree ==
    ASSUME NEW m \in MachineType, FreeFrames(m) # {}
    PROVE  /\ Min(FreeFrames(m)) \in Frame \ m.used
           /\ \A f \in FreeFrames(m) : Min(FreeFrames(m)) <= f
<1>1. FreeFrames(m) \in SUBSET Nat
  BY Constants, MachineParts
<1> QED
  BY <1>1, MinOfNaturals DEF FreeFrames

(* vmm_createPageTable leaves the machine typed,                            *)
LEMMA CreateType ==
    ASSUME NEW m \in MachineType, NEW page, NEW flags \in Nat
    PROVE  vmm_createPageTable(m, page, flags) \in MachineType
<1> DEFINE block == Min(FreeFrames(m))
           word == [frame |-> block, flags |-> flags]
           entered == [m EXCEPT !.used = @ \cup {block},
                                !.mem[cur_directory][page \div Entries] = word]
           cleared == ClearTable(entered, block, flags)
<1> SUFFICES ASSUME FreeFrames(m) # {}
             PROVE  vmm_createPageTable(m, page, flags) \in MachineType
  BY DEF vmm_createPageTable
<1>1. block \in Frame
  BY FirstFree
<1>2. word \in Word
  BY <1>1, WordType
<1>3. entered \in MachineType
  <2> HIDE DEF word, block
  <2>1. [m.mem EXCEPT ![cur_directory][page \div Entries] = word] \in [Frame -> [Cell -> Word]]
    BY <1>2, PutType, MachineParts
  <2> QED
    BY <1>1, <2>1 DEF MachineType
<1>4. cleared \in MachineType
  <2> HIDE DEF entered, block
  <2> QED
    BY <1>1, <1>3, ClearTableType
<1>5. Store(cleared, Pde(cleared, block).frame, block % Entries, word) \in MachineType
  <2> HIDE DEF cleared, word, block
  <2> QED
    BY <1>2, <1>4, StoreType
<1>6. vmm_createPageTable(m, page, flags)
        \in {m, cleared, Store(cleared, Pde(cleared, block).frame, block % Entries, word)}
  BY DEF vmm_createPageTable
<1> HIDE DEF cleared, word, block
<1> QED
  BY <1>4, <1>5, <1>6

(* vmm_mapPhysicalAddr does,                                                *)
LEMMA MapAddrType ==
    ASSUME NEW m \in MachineType, NEW page, NEW f \in Frame, NEW flags \in Nat
    PROVE  vmm_mapPhysicalAddr(m, page, f, flags) \in MachineType
<1> DEFINE t == vmm_createPageTable(m, page, flags)
           w == [frame |-> f, flags |-> flags]
<1>1. t \in MachineType /\ w \in Word
  BY CreateType, WordType
<1>2. Store(t, Pde(t, page).frame, page % Entries, w) \in MachineType
  <2> HIDE DEF t, w
  <2> QED
    BY <1>1, StoreType
<1>3. vmm_mapPhysicalAddr(m, page, f, flags) \in {t, Store(t, Pde(t, page).frame, page % Entries, w)}
  BY DEF vmm_mapPhysicalAddr
<1> HIDE DEF t, w
<1> QED
  BY <1>1, <1>2, <1>3

(* and vmm_unmapPhysicalAddr.                                               *)
LEMMA UnmapType ==
    ASSUME NEW m \in MachineType, NEW page
    PROVE  vmm_unmapPhysicalAddr(m, page) \in MachineType
<1>1. [m.mem EXCEPT ![cur_directory][page \div Entries] = Zero] \in [Frame -> [Cell -> Word]]
  BY ZeroType, PutType, MachineParts
<1> QED
  BY <1>1 DEF vmm_unmapPhysicalAddr, MachineType


-----------------------------------------------------------------------------
(* What vmm_mapPhysicalAddr does to a sound directory *)

(* It stores one word in a table that exists, *)
Stored(m, n, x, j, w) ==
    n.used = m.used /\ n.mem = [m.mem EXCEPT ![x][j] = w]

(* or it takes the frame b, which the first table maps to itself, for a new *)
(* table and stores the word there.  The first words of that frame keep     *)
(* what they held.                                                          *)
Grown(m, n, d, lo, b, i, j, w) ==
    LET word == [frame |-> b, flags |-> w.flags]
    IN  /\ b \in Frame \ m.used /\ b \in Cell /\ n.used = m.used \cup {b}
        /\ n.mem[d] = [m.mem[d] EXCEPT ![i] = word]
        /\ n.mem[lo] = [m.mem[lo] EXCEPT ![b] = word] /\ m.mem[lo][b].frame = b
        /\ \A y \in Cell : y = j \/ y >= Shift(w.flags) =>
              n.mem[b][y] = IF y = j THEN w ELSE Zero
        /\ \A x \in Frame \ {d, lo, b}, y \in Cell : n.mem[x][y] \in {m.mem[x][y], Zero}
        /\ \A x \in Frame \ {d, lo, b}, y \in Cell :
              y >= Shift(w.flags) => n.mem[x][y] = m.mem[x][y]
        /\ \A x \in Frame \ {d, lo, b} : x # b + 1 => n.mem[x] = m.mem[x]

(* The page's place in the tables. *)
LEMMA PagePlace ==
    ASSUME NEW page \in 0 .. (Entries * Entries - 1)
    PROVE  page \div Entries \in Cell /\ page % Entries \in Cell
           /\ page = (page \div Entries) * Entries + (page % Entries)
<1>1. Entries \in Nat \ {0} /\ page \in Nat
  BY Constants
<1>2. /\ page \div Entries \in Nat /\ page % Entries \in 0 .. (Entries - 1)
      /\ page = (page \div Entries) * Entries + (page % Entries)
  BY <1>1, DivModNat
<1>3. page \div Entries < Entries
  <2>1. PICK a \in Nat, r \in Nat : a = page \div Entries /\ r = page % Entries
    BY <1>2
  <2>2. SUFFICES ASSUME Entries <= a PROVE FALSE
    BY <1>1, <2>1
  <2>3. Entries * Entries <= a * Entries
    BY <1>1, <2>1, <2>2, MulMono
  <2>4. PICK e \in Nat : e = Entries * Entries
    BY <1>1
  <2>5. PICK ae \in Nat : ae = a * Entries
    BY <1>1, <2>1
  <2> QED
    BY <1>2, <2>1, <2>3, <2>4, <2>5
<1> QED
  BY <1>1, <1>2, <1>3 DEF Cell

(* No table but the first can map the frame f to itself. *)
Unseen(m, d, f) ==
    \A i \in Cell \ {0} : i * Entries <= f => ~ Present(m.mem[d][i])

(* A frame that is mapped at its own address lies in the first table's.     *)
LEMMA MappedIsLow ==
    ASSUME NEW m \in MachineType, NEW f \in Frame, Mapped(m, f), Unseen(m, cur_directory, f)
    PROVE  f \in Cell /\ f \div Entries = 0 /\ f % Entries = f
<1>1. f \in 0 .. (Entries * Entries - 1) /\ f \in Nat /\ Entries \in Nat \ {0}
  BY Constants
<1>2. f \div Entries \in Cell /\ f % Entries \in Cell
      /\ f = (f \div Entries) * Entries + (f % Entries)
  BY <1>1, PagePlace
<1>3. Present(m.mem[cur_directory][f \div Entries])
  BY DEF Mapped, Pde
<1>4. f \div Entries = 0
  <2>1. PICK a \in Cell, r \in Cell : a = f \div Entries /\ r = f % Entries
    BY <1>2
  <2>2. PICK ae \in Int : ae = a * Entries
    BY <1>1, <2>1 DEF Cell
  <2>3. ae <= f
    BY <1>1, <1>2, <2>1, <2>2 DEF Cell
  <2> QED
    BY <1>3, <2>1, <2>2, <2>3 DEF Unseen
<1>5. f \in Cell /\ f % Entries = f
  BY <1>1, <1>2, <1>4
<1> QED
  BY <1>4, <1>5

(* The call on a sound directory, for a page away from physical memory.     *)
Callable(m, lo, hi, page, f, flags) ==
    /\ m \in MachineType /\ cur_directory \in Frame
    /\ DirectorySound(m, cur_directory, lo, hi)
    /\ page \in 0 .. (Entries * Entries - 1) /\ Apart(page)
    /\ f \in Frame /\ flags \in {3, 7}

(* A page that may be mapped lies within the directory's reach.             *)
LEMMA PageHere ==
    ASSUME NEW m, NEW lo, NEW hi, NEW page, NEW f, NEW flags, Callable(m, lo, hi, page, f, flags)
    PROVE  /\ page \div Entries \in Cell /\ page % Entries \in Cell
           /\ page \div Entries # 0 => FrameCount <= (page \div Entries) * Entries
<1>1. page \in 0 .. (Entries * Entries - 1) /\ Entries \in Nat \ {0} /\ Apart(page)
  BY Constants DEF Callable
<1>2. page \div Entries \in Cell /\ page % Entries \in Cell
      /\ page = (page \div Entries) * Entries + (page % Entries)
  BY <1>1, PagePlace
<1>3. page < Entries => page \div Entries = 0
  BY <1>1
<1> QED
  BY <1>1, <1>2, <1>3 DEF Apart

(* Mapping a page stores one word, after growing a table if it has none.    *)
LEMMA GrowStep ==
    ASSUME NEW m, NEW lo, NEW hi, NEW page, NEW f, NEW flags, Callable(m, lo, hi, page, f, flags),
           Pde(m, page) = Zero, FreeFrames(m) # {}, ~ m.stopped,
           ~ vmm_mapPhysicalAddr(m, page, f, flags).stopped
    PROVE  Grown(m, vmm_mapPhysicalAddr(m, page, f, flags), cur_directory, lo,
                 Min(FreeFrames(m)), page \div Entries, page % Entries,
                 [frame |-> f, flags |-> flags])
<1> PICK d : d = cur_directory
  OBVIOUS
<1>0. /\ m \in MachineType /\ d \in Frame /\ DirectorySound(m, d, lo, hi)
      /\ f \in Frame /\ flags \in {3, 7}
  BY DEF Callable
<1>1. PICK i \in Cell, j \in Cell : i = page \div Entries /\ j = page % Entries
  BY PageHere
<1>2. PICK b \in Frame : b = Min(FreeFrames(m)) /\ b \notin m.used
  BY <1>0, FirstFree
<1>3. PICK word \in Word : word = [frame |-> b, flags |-> flags] /\ word # Zero
  <2>1. flags \in Nat /\ flags # 0
    BY <1>0
  <2>2. [frame |-> b, flags |-> flags] \in Word
    BY <2>1, WordType
  <2>3. [frame |-> b, flags |-> flags] # Zero
    BY <2>1 DEF Zero
  <2> QED
    BY <2>2, <2>3
<1>4. PICK w \in Word : w = [frame |-> f, flags |-> flags]
  BY <1>0, WordType
<1>5. m.mem[d][i] = Zero
  BY <1>1 DEF Pde
<1>6. /\ {d, lo, hi} \subseteq Frame /\ d # lo /\ 0 \notin {d, lo, hi}
      /\ m.mem[d][0] = [frame |-> lo, flags |-> 3]
      /\ b \notin {0, d, lo, hi} /\ b + 1 \notin {d, lo, hi}
  <2>1. Fixed(d, lo, hi) \subseteq m.used
    BY <1>0 DEF DirectorySound
  <2>2. b \notin Fixed(d, lo, hi)
    BY <1>2, <2>1
  <2> QED
    BY <1>0, <1>2, <2>2 DEF DirectorySound, Fixed
<1>7. i # 0 /\ FrameCount <= i * Entries
  <2>1. i # 0
    BY <1>5, <1>6 DEF Zero
  <2> QED
    BY <1>1, <2>1, PageHere
<1> DEFINE entered == [m EXCEPT !.used = @ \cup {b}, !.mem[d][i] = word]
           cleared == [entered EXCEPT !.mem[b] = ClearWords(@, Shift(flags), Entries - 1)]
           both == [cleared EXCEPT !.mem[b + 1] = ClearWords(@, 0, Shift(flags) - 1)]
           t == ClearTable(entered, b, flags)
           own == [both EXCEPT !.mem[lo][b] = word]
           n == vmm_mapPhysicalAddr(m, page, f, flags)
<1>8. entered \in MachineType
  <2>1. [m.mem EXCEPT ![d][i] = word] \in [Frame -> [Cell -> Word]]
    BY <1>0, PutType, MachineParts
  <2> QED
    BY <1>0, <2>1 DEF MachineType
<1>9. vmm_createPageTable(m, page, flags)
        = IF t.stopped THEN t ELSE Store(t, Pde(t, b).frame, b % Entries, word)
  BY <1>1, <1>2, <1>3 DEF vmm_createPageTable
<1>10. /\ ~ t.stopped
       /\ n = LET c == Store(t, Pde(t, b).frame, b % Entries, word)
              IN  IF c.stopped THEN c ELSE Store(c, Pde(c, page).frame, j, w)
  <2>1. t.stopped => n = t
    BY <1>9 DEF vmm_mapPhysicalAddr
  <2> HIDE DEF t
  <2>2. ~ t.stopped
    BY <2>1
  <2> QED
    BY <1>1, <1>4, <1>9, <2>2 DEF vmm_mapPhysicalAddr
<1>11. Reachable(entered, b) /\ b + 1 \in Frame /\ t = both
  <2>1. Stop(entered).stopped /\ Stop(cleared).stopped
    <3>1. cleared \in MachineType
      <4> HIDE DEF entered
      <4> QED
        BY <1>8, ClearFrameType
    <3> HIDE DEF cleared, entered
    <3> QED
      BY <1>8, <3>1, StopType
  <2>2. t \in {Stop(entered), Stop(cleared)}
        \/ (Reachable(entered, b) /\ b + 1 \in Frame /\ t = both)
    BY DEF ClearTable
  <2> HIDE DEF t, both, cleared, entered
  <2> QED
    BY <1>10, <2>1, <2>2
<1>12. b \in Cell /\ b \div Entries = 0 /\ b % Entries = b
  <2>1. Unseen(entered, d, b)
    <3> SUFFICES ASSUME NEW k \in Cell \ {0}, k * Entries <= b
                 PROVE  ~ Present(entered.mem[d][k])
      BY DEF Unseen
    <3>1. PICK ke \in Int : ke = k * Entries
      BY Constants DEF Cell
    <3>2. ke < FrameCount
      BY <3>1, Constants DEF Frame
    <3>3. k # i
      <4>1. PICK ie \in Int : ie = i * Entries
        BY Constants DEF Cell
      <4> QED
        BY <1>7, <3>1, <3>2, <4>1, Constants
    <3>4. m.mem[d][k] = Zero
      <4>1. k \in InUse(m, d) \ {0} => FrameCount <= k * Entries
        BY <1>0 DEF DirectorySound
      <4> QED
        BY <3>1, <3>2, <4>1, Constants DEF InUse
    <3>5. entered.mem[d][k] = m.mem[d][k]
      BY <1>0, <3>3, MachineParts DEF MachineType
    <3> QED
      BY <3>4, <3>5, ZeroType
  <2> HIDE DEF entered
  <2>2. Mapped(entered, b)
    BY <1>11 DEF Reachable
  <2> QED
    BY <1>8, <2>1, <2>2, MappedIsLow
<1>13. PICK mm \in [Frame -> [Cell -> Word]] : mm = m.mem
  BY <1>0, MachineParts
<1>14. Shift(flags) \in 1 .. 2
  BY <1>0 DEF Shift
<1> DEFINE m1 == [mm EXCEPT ![d][i] = word]
           m2 == [m1 EXCEPT ![b] = ClearWords(m1[b], Shift(flags), Entries - 1)]
           m3 == [m2 EXCEPT ![b + 1] = ClearWords(m2[b + 1], 0, Shift(flags) - 1)]
           m4 == [m3 EXCEPT ![lo][b] = word]
           m5 == [m4 EXCEPT ![b][j] = w]
<1>15. both.mem = m3 /\ both.used = m.used \cup {b}
  BY <1>0, <1>13 DEF MachineType
<1>16. m1 \in [Frame -> [Cell -> Word]]
  BY <1>13, PutType
<1>17. m2 \in [Frame -> [Cell -> Word]]
  <2>1. ClearWords(m1[b], Shift(flags), Entries - 1) \in [Cell -> Word]
    <3> HIDE DEF m1
    <3> QED
      BY <1>16, ClearWordsType
  <2> HIDE DEF m1
  <2> QED
    BY <1>16, <2>1
<1>18. m3 \in [Frame -> [Cell -> Word]]
  <2>1. ClearWords(m2[b + 1], 0, Shift(flags) - 1) \in [Cell -> Word]
    <3> HIDE DEF m2
    <3> QED
      BY <1>11, <1>17, ClearWordsType
  <2> HIDE DEF m2
  <2> QED
    BY <1>17, <2>1
<1>19. m4 \in [Frame -> [Cell -> Word]]
  <2> HIDE DEF m3
  <2> QED
    BY <1>18, PutType
<1>20. m3[d] = [mm[d] EXCEPT ![i] = word] /\ m3[lo] = mm[lo]
  BY <1>0, <1>6, <1>11, <1>13
<1>21. Pde(both, b).frame = lo
  <2>1. both.mem[d][0] = [frame |-> lo, flags |-> 3]
    <3> HIDE DEF both, m3
    <3> QED
      BY <1>6, <1>7, <1>13, <1>15, <1>20, Constants
  <2> HIDE DEF both
  <2> QED
    BY <1>12, <2>1 DEF Pde
<1>22. n.stopped = FALSE /\ n = Store(own, Pde(own, page).frame, j, w)
  <2>1. Store(both, lo, b, word) \in {own, Stop(both)}
    BY DEF Store
  <2>2. Stop(both).stopped
    BY DEF Stop
  <2>3. n = LET c == Store(both, lo, b, word)
            IN  IF c.stopped THEN c ELSE Store(c, Pde(c, page).frame, j, w)
    <3> HIDE DEF t, both, n
    <3> QED
      BY <1>10, <1>11, <1>12, <1>21
  <2>4. n \in MachineType
    BY <1>0, MapAddrType
  <2>5. n.stopped = FALSE
    <3>1. n.stopped \in BOOLEAN
      <4> HIDE DEF n
      <4> QED
        BY <2>4, MachineParts
    <3> QED
      BY <3>1
  <2> HIDE DEF both, own, n
  <2> QED
    BY <2>1, <2>2, <2>3, <2>5
<1>23. own \in MachineType /\ own.mem = m4 /\ own.used = m.used \cup {b}
  <2>1. both \in MachineType
    <3>1. t \in MachineType
      <4> HIDE DEF entered
      <4> QED
        BY <1>0, <1>2, <1>8, ClearTableType
    <3> QED
      BY <1>11, <3>1
  <2> HIDE DEF both, m3
  <2>2. [both.mem EXCEPT ![lo][b] = word] \in [Frame -> [Cell -> Word]]
    BY <2>1, PutType, MachineParts
  <2> QED
    BY <1>15, <2>1, <2>2 DEF MachineType
<1>24. m4[d] = [mm[d] EXCEPT ![i] = word] /\ m4[lo] = [mm[lo] EXCEPT ![b] = word]
  <2> HIDE DEF m3
  <2> QED
    BY <1>6, <1>18, <1>20
<1>25. Pde(own, page).frame = b
  <2>1. own.mem[d][i] = word
    <3> HIDE DEF own, m4
    <3> QED
      BY <1>0, <1>13, <1>23, <1>24
  <2> HIDE DEF own
  <2> QED
    BY <1>1, <1>3, <2>1 DEF Pde
<1>26. n.mem = m5 /\ n.used = m.used \cup {b}
  <2>1. n \in {[own EXCEPT !.mem[b][j] = w], Stop(own)} /\ Stop(own).stopped
    <3> HIDE DEF own, n
    <3>1. n = Store(own, b, j, w)
      BY <1>22, <1>25
    <3> QED
      BY <3>1 DEF Store, Stop
  <2>2. n = [own EXCEPT !.mem[b][j] = w]
    <3> HIDE DEF own, n
    <3> QED
      BY <1>22, <2>1
  <2> HIDE DEF own, n, m4
  <2> QED
    BY <1>23, <2>2 DEF MachineType
<1>27. m5[d] = [mm[d] EXCEPT ![i] = word] /\ m5[lo] = [mm[lo] EXCEPT ![b] = word]
  <2> HIDE DEF m4
  <2> QED
    BY <1>6, <1>19, <1>24
<1>28. \A y \in Cell : y = j \/ y >= Shift(flags) => m5[b][y] = IF y = j THEN w ELSE Zero
  <2> TAKE y \in Cell
  <2>1. m5[b] = [m4[b] EXCEPT ![j] = w]
    <3> HIDE DEF m4
    <3> QED
      BY <1>19
  <2>2. m4[b] = m3[b]
    <3> HIDE DEF m3
    <3> QED
      BY <1>6, <1>18
  <2>3. m3[b] = m2[b]
    <3>1. b + 1 # b
      BY Constants
    <3> HIDE DEF m2
    <3> QED
      BY <1>17, <3>1
  <2>4. m2[b] = ClearWords(m1[b], Shift(flags), Entries - 1)
    <3> HIDE DEF m1
    <3> QED
      BY <1>16
  <2>5. y >= Shift(flags) => m2[b][y] = Zero
    <3> HIDE DEF m1, m2
    <3> QED
      BY <1>14, <2>4, Constants DEF ClearWords, Cell
  <2>6. m2[b] \in [Cell -> Word]
    <3> HIDE DEF m2
    <3> QED
      BY <1>17
  <2> HIDE DEF m1, m2, m3, m4, m5
  <2> QED
    BY <2>1, <2>2, <2>3, <2>5, <2>6
<1>29. ASSUME NEW x \in Frame \ {d, lo, b}
       PROVE  /\ \A y \in Cell : m5[x][y] \in {mm[x][y], Zero}
              /\ \A y \in Cell : y >= Shift(flags) => m5[x][y] = mm[x][y]
              /\ x # b + 1 => m5[x] = mm[x]
  <2>1. m5[x] = m3[x]
    <3>1. m5[x] = m4[x]
      <4> HIDE DEF m4
      <4> QED
        BY <1>19
    <3>2. m4[x] = m3[x]
      <4> HIDE DEF m3
      <4> QED
        BY <1>18
    <3> QED
      BY <3>1, <3>2
  <2>2. m2[x] = mm[x]
    <3>1. m2[x] = m1[x]
      <4> HIDE DEF m1
      <4> QED
        BY <1>16
    <3>2. m1[x] = mm[x]
      BY <1>13
    <3> QED
      BY <3>1, <3>2
  <2>3. CASE x # b + 1
    <3>1. m3[x] = m2[x]
      <4> HIDE DEF m2
      <4> QED
        BY <1>17, <2>3
    <3> HIDE DEF m2, m3, m5
    <3> QED
      BY <2>1, <2>2, <2>3, <3>1
  <2>4. CASE x = b + 1
    <3>1. m3[x] = ClearWords(m2[x], 0, Shift(flags) - 1)
      <4> HIDE DEF m2
      <4> QED
        BY <1>17, <2>4
    <3>2. \A y \in Cell : ClearWords(m2[x], 0, Shift(flags) - 1)[y] \in {m2[x][y], Zero}
      <4> HIDE DEF m2
      <4> QED
        BY DEF ClearWords, Cell
    <3>3. \A y \in Cell : y >= Shift(flags) =>
             ClearWords(m2[x], 0, Shift(flags) - 1)[y] = m2[x][y]
      <4> HIDE DEF m2
      <4> QED
        BY <1>14, Constants DEF ClearWords, Cell
    <3> HIDE DEF m2, m3, m5
    <3> QED
      BY <2>1, <2>2, <2>4, <3>1, <3>2, <3>3
  <2> QED
    BY <2>3, <2>4
<1>30. w.flags = flags
  BY <1>4
<1>31. m.mem[lo][b].frame = b
  <2>1. /\ entered.mem[d][0] = [frame |-> lo, flags |-> 3]
        /\ entered.mem[lo] = m.mem[lo]
    <3>1. entered.mem = m1
      BY <1>0, <1>13 DEF MachineType
    <3>2. m1[d] = [mm[d] EXCEPT ![i] = word] /\ m1[lo] = mm[lo]
      BY <1>0, <1>6, <1>13
    <3> HIDE DEF entered, m1
    <3> QED
      BY <1>6, <1>7, <1>13, <3>1, <3>2, Constants
  <2> HIDE DEF entered
  <2> QED
    BY <1>11, <1>12, <2>1 DEF Reachable, Pte, Pde
<1> HIDE DEF m5, n
<1>32. Grown(m, n, d, lo, b, i, j, w)
  BY <1>2, <1>3, <1>12, <1>13, <1>26, <1>27, <1>28, <1>29, <1>30, <1>31 DEF Grown
<1> QED
  BY <1>1, <1>2, <1>4, <1>32 DEF n

(* A call that does not stop the machine does one of three things: the page *)
(* has a table, no frame is left for one (the word goes to frame 0), or a   *)
(* table is made.                                                           *)
LEMMA MapOutcome ==
    ASSUME NEW m, NEW lo, NEW hi, NEW page, NEW f, NEW flags, NEW w, NEW i, NEW j,
           Callable(m, lo, hi, page, f, flags), w = [frame |-> f, flags |-> flags],
           i = page \div Entries, j = page % Entries, ~ m.stopped,
           NEW n, n = vmm_mapPhysicalAddr(m, page, f, flags), ~ n.stopped
    PROVE  \/ Pde(m, page) # Zero /\ Stored(m, n, Pde(m, page).frame, j, w)
           \/ Pde(m, page) = Zero /\ FreeFrames(m) = {} /\ Stored(m, n, 0, j, w)
           \/ /\ Pde(m, page) = Zero /\ FreeFrames(m) # {}
              /\ Grown(m, n, cur_directory, lo, Min(FreeFrames(m)), i, j, w)
<1>1. ASSUME NEW x, n = Store(m, x, j, w)
      PROVE  Stored(m, n, x, j, w)
  <2>1. n = Stop(m) \/ n = [m EXCEPT !.mem[x][j] = w]
    BY <1>1 DEF Store
  <2>2. Stop(m).stopped
    BY StopType DEF Callable
  <2>3. n = [m EXCEPT !.mem[x][j] = w]
    BY <2>1, <2>2
  <2> QED
    BY <2>3 DEF Stored, MachineType, Callable
<1>2. CASE Pde(m, page) # Zero \/ FreeFrames(m) = {}
  <2>1. vmm_createPageTable(m, page, flags) = m
    BY <1>2 DEF vmm_createPageTable
  <2>2. n = Store(m, Pde(m, page).frame, j, w)
    BY <2>1 DEF vmm_mapPhysicalAddr
  <2>3. Pde(m, page) = Zero => Pde(m, page).frame = 0
    BY DEF Zero
  <2> QED
    BY <1>1, <1>2, <2>2, <2>3
<1>3. CASE Pde(m, page) = Zero /\ FreeFrames(m) # {}
  BY <1>3, GrowStep
<1> QED
  BY <1>2, <1>3

-----------------------------------------------------------------------------
(* The invariant over one call *)

(* The frames of a sound directory: the tables are in use, and apart from   *)
(* the first two none of them is fixed.                                     *)
LEMMA TableFacts ==
    ASSUME NEW m, NEW d, NEW lo, NEW hi, DirectorySound(m, d, lo, hi), NEW i \in InUse(m, d)
    PROVE  /\ m.mem[d][i].frame \in m.used /\ m.mem[d][i].frame \notin {0, d}
           /\ i # 0 => m.mem[d][i].frame # lo
           /\ i # KernelIndex => m.mem[d][i].frame # hi
<1>1. {0, KernelIndex} \subseteq InUse(m, d)
  BY Constants DEF DirectorySound, InUse, Zero
<1>2. m.mem[d][0].frame = lo /\ m.mem[d][KernelIndex].frame = hi
  BY DEF DirectorySound
<1>3. lo \in m.used /\ hi \in m.used /\ lo \notin {0, d} /\ hi \notin {0, d}
  BY DEF DirectorySound, Fixed
<1>4. i \notin {0, KernelIndex} => m.mem[d][i].frame \in m.used \ {0, d}
  BY DEF DirectorySound, Fixed
<1>5. \A k, l \in InUse(m, d) : m.mem[d][k].frame = m.mem[d][l].frame => k = l
  BY DEF DirectorySound
<1> QED
  BY <1>1, <1>2, <1>3, <1>4, <1>5

(* A directory that reads the same, with the same frames or more in use. *)
LEMMA DirectoryKept ==
    ASSUME NEW m, NEW n, NEW d, NEW lo, NEW hi, DirectorySound(m, d, lo, hi),
           n.mem[d] = m.mem[d], m.used \subseteq n.used
    PROVE  /\ DirectorySound(n, d, lo, hi)
           /\ InUse(n, d) = InUse(m, d) /\ TablesIn(n, d) = TablesIn(m, d)
           /\ Plain(m, d) \subseteq Plain(n, d)
<1>1. InUse(n, d) = InUse(m, d) /\ TablesIn(n, d) = TablesIn(m, d)
  BY DEF InUse, TablesIn
<1>2. DirectorySound(n, d, lo, hi)
  BY <1>1 DEF DirectorySound
<1> QED
  BY <1>1, <1>2 DEF Plain

(* A word for a plain frame, stored outside the directory and the kernel's  *)
(* table.                                                                   *)
StoresPlain(m, n, d, lo, hi, x, j, w) ==
    /\ m \in MachineType /\ n \in MachineType /\ LoadSound(m, d, lo, hi)
    /\ x \notin {d, hi} /\ j \in Cell /\ w \in Word /\ w.frame \in Plain(m, d)
    /\ Stored(m, n, x, j, w)

(* Storing a word for a plain frame in a table keeps the tables sound.      *)
LEMMA StoredKeeps ==
    ASSUME NEW m, NEW n, NEW d, NEW lo, NEW hi, NEW x, NEW j, NEW w,
           StoresPlain(m, n, d, lo, hi, x, j, w)
    PROVE  /\ LoadSound(n, d, lo, hi) /\ n.mem[d] = m.mem[d]
           /\ Plain(m, d) \subseteq Plain(n, d)
           /\ LowIsIdentity(m, lo) /\ x # lo => LowIsIdentity(n, lo)
<1>0. /\ m \in MachineType /\ n \in MachineType /\ LoadSound(m, d, lo, hi)
      /\ x \notin {d, hi} /\ j \in Cell /\ w \in Word /\ w.frame \in Plain(m, d)
      /\ Stored(m, n, x, j, w)
  BY DEF StoresPlain
<1>1. /\ DirectorySound(m, d, lo, hi) /\ HighIsIdentity(m, hi)
      /\ LowIsPlain(m, d, lo) /\ HeapIsPlain(m, d)
  BY <1>0 DEF LoadSound
<1>2. PICK mm \in [Frame -> [Cell -> Word]] : mm = m.mem
  BY <1>0, MachineParts
<1>3. n.mem = [mm EXCEPT ![x][j] = w] /\ n.used = m.used
  BY <1>0, <1>2 DEF Stored
<1>4. /\ \A y \in Frame : y # x => n.mem[y] = m.mem[y]
      /\ \A y \in Frame, k \in Cell : n.mem[y][k] = m.mem[y][k] \/ n.mem[y][k] = w
  BY <1>0, <1>2, <1>3
<1>5. {d, lo, hi} \subseteq Frame
  BY <1>1 DEF DirectorySound
<1>6. n.mem[d] = m.mem[d] /\ n.mem[hi] = m.mem[hi]
  BY <1>0, <1>4, <1>5
<1>7. /\ DirectorySound(n, d, lo, hi)
      /\ InUse(n, d) = InUse(m, d) /\ TablesIn(n, d) = TablesIn(m, d)
      /\ Plain(m, d) \subseteq Plain(n, d)
  BY <1>1, <1>3, <1>6, DirectoryKept
<1>8. HighIsIdentity(n, hi)
  BY <1>1, <1>6 DEF HighIsIdentity
<1>9. LowIsPlain(n, d, lo)
  BY <1>0, <1>1, <1>4, <1>5, <1>7 DEF LowIsPlain
<1>10. HeapIsPlain(n, d)
  <2> SUFFICES ASSUME NEW i \in InUse(n, d), i >= HeapIndex, NEW k \in Cell,
                      Present(n.mem[n.mem[d][i].frame][k])
               PROVE  n.mem[n.mem[d][i].frame][k].frame \in Plain(n, d)
    BY DEF HeapIsPlain
  <2>1. PICK y \in Frame : y = m.mem[d][i].frame
    <3>1. i \in InUse(m, d) /\ m.used \subseteq Frame
      BY <1>0, <1>7, MachineParts
    <3> QED
      BY <1>1, <3>1, TableFacts
  <2>2. Present(m.mem[y][k]) => m.mem[y][k].frame \in Plain(m, d)
    BY <1>1, <1>7, <2>1 DEF HeapIsPlain
  <2>3. n.mem[d][i].frame = y
    BY <1>6, <2>1
  <2> QED
    BY <1>0, <1>4, <1>7, <2>2, <2>3
<1>11. LowIsIdentity(m, lo) /\ x # lo => LowIsIdentity(n, lo)
  BY <1>0, <1>4, <1>5 DEF LowIsIdentity
<1> QED
  BY <1>6, <1>7, <1>8, <1>9, <1>10, <1>11 DEF LoadSound

(* So does the frame that becomes a new table.                              *)
LEMMA GrownKeeps ==
    ASSUME NEW m \in MachineType, NEW n \in MachineType, NEW d, NEW lo, NEW hi,
           LoadSound(m, d, lo, hi), NEW b, NEW i \in Cell, NEW j \in Cell, NEW w \in Word,
           m.mem[d][i] = Zero, FrameCount <= i * Entries, w.flags \in {3, 7},
           i >= HeapIndex => j = 0 /\ w.flags = 3,
           w.frame \in Plain(m, d), Grown(m, n, d, lo, b, i, j, w)
    PROVE  /\ LoadSound(n, d, lo, hi) /\ n.mem[d][i] # Zero
           /\ Plain(m, d) \subseteq Plain(n, d)
           /\ LowIsIdentity(m, lo) => LowIsIdentity(n, lo)
<1>1. /\ DirectorySound(m, d, lo, hi) /\ HighIsIdentity(m, hi)
      /\ LowIsPlain(m, d, lo) /\ HeapIsPlain(m, d)
  BY DEF LoadSound
<1>2. PICK word : word = [frame |-> b, flags |-> w.flags]
  OBVIOUS
<1>3. /\ b \in Frame \ m.used /\ b \in Cell /\ n.used = m.used \cup {b}
      /\ n.mem[d] = [m.mem[d] EXCEPT ![i] = word]
      /\ n.mem[lo] = [m.mem[lo] EXCEPT ![b] = word]
      /\ \A y \in Cell : y = j \/ y >= Shift(w.flags) =>
            n.mem[b][y] = IF y = j THEN w ELSE Zero
      /\ \A x \in Frame \ {d, lo, b}, y \in Cell : n.mem[x][y] \in {m.mem[x][y], Zero}
      /\ \A x \in Frame \ {d, lo, b} : x # b + 1 => n.mem[x] = m.mem[x]
  BY <1>2 DEF Grown
<1>4. word # Zero /\ Present(word) /\ word.frame = b
  BY <1>2 DEF Zero, Present
<1>5. /\ {d, lo, hi} \subseteq Frame /\ d # lo /\ d # hi /\ lo # hi
      /\ b \notin Fixed(d, lo, hi) /\ b \notin {0, d, lo, hi} /\ b + 1 # hi
      /\ Fixed(d, lo, hi) \subseteq m.used
  BY <1>1, <1>3 DEF DirectorySound, Fixed
<1>6. i \notin {0, KernelIndex}
  BY <1>1 DEF DirectorySound, Zero
<1>7. /\ m.mem[d] \in [Cell -> Word] /\ m.mem[lo] \in [Cell -> Word] /\ m.used \subseteq Frame
  BY <1>5, MachineParts
<1>8. \A k \in Cell : n.mem[d][k] = IF k = i THEN word ELSE m.mem[d][k]
  BY <1>3, <1>7
<1>9. InUse(n, d) = InUse(m, d) \cup {i} /\ i \notin InUse(m, d)
  BY <1>4, <1>8 DEF InUse
<1>10. TablesIn(n, d) = TablesIn(m, d) \cup {b}
  BY <1>4, <1>8, <1>9 DEF TablesIn, InUse
<1>11. Plain(m, d) \subseteq Plain(n, d)
  BY <1>3, <1>10 DEF Plain
<1>12. \A k \in InUse(m, d) : /\ n.mem[d][k] = m.mem[d][k] /\ k # i
                              /\ m.mem[d][k].frame \in m.used /\ m.mem[d][k].frame \notin {0, d}
                              /\ k # 0 => m.mem[d][k].frame # lo
  BY <1>1, <1>8, <1>9, TableFacts DEF InUse
<1>13. DirectorySound(n, d, lo, hi)
  <2>1. Fixed(d, lo, hi) \subseteq n.used
    BY <1>3, <1>5
  <2>2. n.mem[d][0] = [frame |-> lo, flags |-> 3]
        /\ n.mem[d][KernelIndex] = [frame |-> hi, flags |-> 3]
    BY <1>1, <1>6, <1>8, Constants DEF DirectorySound
  <2>3. \A k \in InUse(n, d) \ {0, KernelIndex} :
           Present(n.mem[d][k]) /\ n.mem[d][k].frame \in n.used \ Fixed(d, lo, hi)
    <3> TAKE k \in InUse(n, d) \ {0, KernelIndex}
    <3>1. CASE k = i
      BY <1>3, <1>4, <1>5, <1>8, <3>1
    <3>2. CASE k # i
      <4>1. k \in InUse(m, d) \ {0, KernelIndex}
        BY <1>9, <3>2
      <4>2. Present(m.mem[d][k]) /\ m.mem[d][k].frame \in m.used \ Fixed(d, lo, hi)
        BY <1>1, <4>1 DEF DirectorySound
      <4> QED
        BY <1>3, <1>12, <4>1, <4>2
    <3> QED
      BY <3>1, <3>2
  <2>4. \A k, l \in InUse(n, d) : n.mem[d][k].frame = n.mem[d][l].frame => k = l
    <3>1. \A k, l \in InUse(m, d) : m.mem[d][k].frame = m.mem[d][l].frame => k = l
      BY <1>1 DEF DirectorySound
    <3>2. n.mem[d][i].frame = b
      BY <1>4, <1>8
    <3> QED
      BY <1>3, <1>9, <1>12, <3>1, <3>2
  <2>5. \A k \in InUse(n, d) \ {0} : FrameCount <= k * Entries
    BY <1>1, <1>9 DEF DirectorySound
  <2>6. 0 \notin {d, lo, hi}
    BY <1>1 DEF DirectorySound
  <2> QED
    BY <1>5, <2>1, <2>2, <2>3, <2>4, <2>5, <2>6 DEF DirectorySound
<1>14. HighIsIdentity(n, hi)
  <2>1. n.mem[hi] = m.mem[hi]
    BY <1>3, <1>5
  <2> QED
    BY <1>1, <2>1 DEF HighIsIdentity
<1>15. \A k \in Cell : n.mem[lo][k] = IF k = b THEN word ELSE m.mem[lo][k]
  BY <1>3, <1>7
<1>16. LowIsPlain(n, d, lo)
  BY <1>1, <1>4, <1>11, <1>15 DEF LowIsPlain
<1>17. LowIsIdentity(m, lo) => LowIsIdentity(n, lo)
  BY <1>4, <1>15 DEF LowIsIdentity
<1>18. HeapIsPlain(n, d)
  <2> SUFFICES ASSUME NEW k \in InUse(n, d), k >= HeapIndex, NEW y \in Cell,
                      Present(n.mem[n.mem[d][k].frame][y])
               PROVE  n.mem[n.mem[d][k].frame][y].frame \in Plain(n, d)
    BY DEF HeapIsPlain
  <2>1. CASE k = i
    <3>1. n.mem[d][k].frame = b
      BY <1>4, <1>8, <2>1
    <3>2. j = 0 /\ Shift(w.flags) = 1
      BY <2>1 DEF Shift
    <3>3. n.mem[b][y] = w \/ n.mem[b][y] = Zero
      BY <1>3, <3>2, Constants DEF Cell
    <3> QED
      BY <1>11, <3>1, <3>3, ZeroType
  <2>2. CASE k # i
    <3>1. k \in InUse(m, d) /\ k # 0
      BY <1>9, <2>2, Constants DEF Cell
    <3>2. PICK x \in Frame \ {d, lo, b} : x = m.mem[d][k].frame /\ n.mem[d][k].frame = x
      BY <1>3, <1>7, <1>12, <3>1
    <3>3. Present(m.mem[x][y]) => m.mem[x][y].frame \in Plain(m, d)
      BY <1>1, <3>1, <3>2 DEF HeapIsPlain
    <3>4. n.mem[x][y] \in {m.mem[x][y], Zero}
      BY <1>3
    <3> QED
      BY <1>11, <3>2, <3>3, <3>4, ZeroType
  <2> QED
    BY <2>1, <2>2
<1> QED
  BY <1>4, <1>8, <1>11, <1>13, <1>14, <1>16, <1>17, <1>18 DEF LoadSound

(* A word maps a frame that holds no table, and a table for the heap is     *)
(* made for its first page.                                                 *)
Harmless(m, page, f, flags) ==
    /\ f \in Plain(m, cur_directory) /\ page \div Entries # KernelIndex
    /\ page \div Entries >= HeapIndex =>
          flags = 3 /\ (Pde(m, page) = Zero => FreeFrames(m) = {} \/ page % Entries = 0)

(* What mapping one page keeps. *)
LEMMA MapKeeps ==
    ASSUME NEW m, NEW lo, NEW hi, NEW page, NEW f, NEW flags, NEW n,
           Callable(m, lo, hi, page, f, flags), Harmless(m, page, f, flags),
           LoadSound(m, cur_directory, lo, hi), ~ m.stopped,
           n = vmm_mapPhysicalAddr(m, page, f, flags), ~ n.stopped
    PROVE  /\ LoadSound(n, cur_directory, lo, hi)
           /\ Plain(m, cur_directory) \subseteq Plain(n, cur_directory)
           /\ Pde(n, page) # Zero \/ FreeFrames(n) = {}
           /\ LowIsIdentity(m, lo) /\ page >= Entries => LowIsIdentity(n, lo)
<1> PICK d : d = cur_directory
  OBVIOUS
<1>0. /\ m \in MachineType /\ d \in Frame /\ DirectorySound(m, d, lo, hi)
      /\ page \in 0 .. (Entries * Entries - 1) /\ f \in Frame /\ flags \in {3, 7}
      /\ LoadSound(m, d, lo, hi)
  BY DEF Callable
<1>1. PICK i \in Cell, j \in Cell : /\ i = page \div Entries /\ j = page % Entries
                                    /\ i # 0 => FrameCount <= i * Entries
  BY PageHere
<1>2. n \in MachineType
  <2>1. flags \in Nat
    BY <1>0
  <2> QED
    BY <1>0, <2>1, MapAddrType
<1>3. PICK w \in Word : w = [frame |-> f, flags |-> flags]
  BY <1>0, WordType
<1>4. /\ f \in Plain(m, d) /\ i # KernelIndex
      /\ i >= HeapIndex => flags = 3 /\ (m.mem[d][i] = Zero => FreeFrames(m) = {} \/ j = 0)
  BY <1>1 DEF Harmless, Pde
<1>5. page >= Entries => i # 0
  <2>1. page = i * Entries + j
    BY <1>0, <1>1, PagePlace
  <2> QED
    BY <1>1, <2>1, Constants DEF Cell
<1>6. m.mem[d][i] = Pde(m, page) /\ n.mem[d][i] = Pde(n, page)
  BY <1>1 DEF Pde
<1>7. \/ m.mem[d][i] # Zero /\ Stored(m, n, m.mem[d][i].frame, j, w)
      \/ m.mem[d][i] = Zero /\ FreeFrames(m) = {} /\ Stored(m, n, 0, j, w)
      \/ /\ m.mem[d][i] = Zero /\ FreeFrames(m) # {}
         /\ Grown(m, n, d, lo, Min(FreeFrames(m)), i, j, w)
  BY <1>1, <1>3, <1>6, MapOutcome
<1>8. CASE m.mem[d][i] # Zero
  <2>1. PICK x : x = m.mem[d][i].frame
    OBVIOUS
  <2>2. Stored(m, n, x, j, w)
    BY <1>7, <1>8, <2>1
  <2>3. i \in InUse(m, d)
    BY <1>8 DEF InUse
  <2>4. x \notin {d, hi} /\ (i # 0 => x # lo)
    BY <1>0, <1>4, <2>1, <2>3, TableFacts
  <2>5. /\ LoadSound(n, d, lo, hi) /\ n.mem[d] = m.mem[d]
        /\ Plain(m, d) \subseteq Plain(n, d)
        /\ LowIsIdentity(m, lo) /\ x # lo => LowIsIdentity(n, lo)
    <3>1. w.frame \in Plain(m, d)
      BY <1>3, <1>4
    <3>2. StoresPlain(m, n, d, lo, hi, x, j, w)
      BY <1>0, <1>1, <1>2, <1>3, <2>2, <2>4, <3>1 DEF StoresPlain
    <3> QED
      BY ONLY <3>2, StoredKeeps
  <2> QED
    BY <1>5, <1>6, <1>8, <2>4, <2>5
<1>9. CASE m.mem[d][i] = Zero /\ FreeFrames(m) = {}
  <2>1. Stored(m, n, 0, j, w)
    BY <1>7, <1>9
  <2>2. 0 \notin {d, hi} /\ 0 # lo
    BY <1>0 DEF DirectorySound
  <2>3. /\ LoadSound(n, d, lo, hi)
        /\ Plain(m, d) \subseteq Plain(n, d)
        /\ LowIsIdentity(m, lo) => LowIsIdentity(n, lo)
    <3>1. w.frame \in Plain(m, d)
      BY <1>3, <1>4
    <3>2. StoresPlain(m, n, d, lo, hi, 0, j, w)
      BY <1>0, <1>1, <1>2, <1>3, <2>1, <2>2, <3>1 DEF StoresPlain
    <3> QED
      BY ONLY <2>2, <3>2, StoredKeeps
  <2>4. FreeFrames(n) = {}
    BY <1>9, <2>1 DEF Stored, FreeFrames
  <2> QED
    BY <2>3, <2>4
<1>10. CASE m.mem[d][i] = Zero /\ FreeFrames(m) # {}
  <2>1. Grown(m, n, d, lo, Min(FreeFrames(m)), i, j, w)
    BY <1>7, <1>10
  <2>2. i # 0
    BY <1>0, <1>10 DEF DirectorySound, Zero
  <2>3. w.frame \in Plain(m, d) /\ w.flags \in {3, 7} /\ (i >= HeapIndex => j = 0 /\ w.flags = 3)
    BY <1>0, <1>3, <1>4, <1>10
  <2>4. /\ LoadSound(n, d, lo, hi) /\ n.mem[d][i] # Zero
        /\ Plain(m, d) \subseteq Plain(n, d)
        /\ LowIsIdentity(m, lo) => LowIsIdentity(n, lo)
    BY <1>0, <1>1, <1>2, <1>10, <2>1, <2>2, <2>3, GrownKeeps
  <2> QED
    BY <1>6, <2>4
<1> QED
  BY <1>8, <1>9, <1>10

PageSpace == 0 .. (Entries * Entries - 1)

(* The word behind a mapped page and the table it lies in. *)
WordOf(m, d, q, k, l, x) ==
    /\ k \in Cell /\ l \in Cell /\ x \in Frame
    /\ k = q \div Entries /\ l = q % Entries /\ q = k * Entries + l
    /\ k \in InUse(m, d) /\ x = m.mem[d][k].frame
    /\ Present(m.mem[d][k]) /\ Present(m.mem[x][l]) /\ Pte(m, q) = m.mem[x][l]
    /\ x \in m.used \ {0, d} /\ x \in TablesIn(m, d)

LEMMA MappedWord ==
    ASSUME NEW m \in MachineType, NEW lo, NEW hi, DirectorySound(m, cur_directory, lo, hi),
           NEW q \in PageSpace, Mapped(m, q)
    PROVE  \E k, l, x : WordOf(m, cur_directory, q, k, l, x)
<1> PICK d : d = cur_directory
  OBVIOUS
<1>1. PICK k \in Cell, l \in Cell : k = q \div Entries /\ l = q % Entries /\ q = k * Entries + l
  BY PagePlace DEF PageSpace
<1>2. PICK x : x = m.mem[d][k].frame
  OBVIOUS
<1>3. /\ Present(m.mem[d][k]) /\ x \in Frame /\ Present(m.mem[x][l])
      /\ Pte(m, q) = m.mem[x][l]
  BY <1>1, <1>2 DEF Mapped, Pde, Pte
<1>4. k \in InUse(m, d)
  BY <1>3, ZeroType DEF InUse
<1>5. x \in m.used \ {0, d}
  <2>1. m.mem[d][k].frame \in m.used /\ m.mem[d][k].frame \notin {0, d}
    BY ONLY <1>4, DirectorySound(m, cur_directory, lo, hi), d = cur_directory, TableFacts
  <2> QED
    BY <1>2, <2>1
<1>6. x \in TablesIn(m, d)
  BY <1>2, <1>4 DEF TablesIn
<1> QED
  BY <1>1, <1>2, <1>3, <1>4, <1>5, <1>6 DEF WordOf

(* The page maps in n what it maps in m. *)
Same(m, n, q) == Mapped(n, q) /\ Pte(n, q).frame = Pte(m, q).frame

(* It does when its word and its table's still say so. *)
LEMMA WordMapped ==
    ASSUME NEW m, NEW q, NEW k, NEW l, NEW x, WordOf(m, cur_directory, q, k, l, x),
           NEW n, n.mem[cur_directory][k] = m.mem[cur_directory][k],
           Present(n.mem[x][l]), n.mem[x][l].frame = m.mem[x][l].frame
    PROVE  Same(m, n, q)
<1>1. /\ k = q \div Entries /\ l = q % Entries /\ x \in Frame
      /\ x = m.mem[cur_directory][k].frame /\ Present(m.mem[cur_directory][k])
      /\ Pte(m, q) = m.mem[x][l]
  BY DEF WordOf
<1>2. Pde(n, q) = m.mem[cur_directory][k] /\ Pte(n, q) = n.mem[x][l]
  BY <1>1 DEF Pde, Pte
<1> QED
  BY <1>1, <1>2 DEF Same, Mapped

(* Mapping a page gives it the frame, leaves every other page its own, and  *)
(* does not touch a frame that holds no table, if those below it are taken. *)
LEMMA MapEffect ==
    ASSUME NEW m, NEW lo, NEW hi, NEW page, NEW f, NEW flags,
           Callable(m, lo, hi, page, f, flags), Guarded(m, cur_directory), ~ m.stopped,
           NEW n, n = vmm_mapPhysicalAddr(m, page, f, flags), ~ n.stopped, FreeFrames(n) # {}
    PROVE  /\ m.used \subseteq n.used
           /\ Mapped(n, page) /\ Pte(n, page).frame = f
           /\ \A q \in PageSpace : q # page /\ Mapped(m, q) => Same(m, n, q)
           /\ \A y \in Plain(m, cur_directory) : 0 .. y \subseteq m.used => n.mem[y] = m.mem[y]
           /\ Guarded(n, cur_directory)
<1> PICK d : d = cur_directory
  OBVIOUS
<1>0. /\ m \in MachineType /\ d \in Frame /\ DirectorySound(m, d, lo, hi)
      /\ page \in 0 .. (Entries * Entries - 1) /\ f \in Frame /\ flags \in {3, 7}
  BY DEF Callable
<1>1. PICK i \in Cell, j \in Cell :
         i = page \div Entries /\ j = page % Entries /\ page = i * Entries + j
  BY <1>0, PagePlace
<1>2. PICK w \in Word : w = [frame |-> f, flags |-> flags]
  BY <1>0, WordType
<1>3. w.frame = f /\ w.flags = flags /\ Present(w)
  BY <1>0, <1>2 DEF Present
<1>4. /\ m.mem \in [Frame -> [Cell -> Word]] /\ m.used \subseteq Frame
      /\ Pde(m, page) = m.mem[d][i] /\ Frame \subseteq Nat
  BY <1>0, <1>1, MachineParts, Constants DEF Pde
<1>5. \/ m.mem[d][i] # Zero /\ Stored(m, n, m.mem[d][i].frame, j, w)
      \/ m.mem[d][i] = Zero /\ FreeFrames(m) = {} /\ Stored(m, n, 0, j, w)
      \/ /\ m.mem[d][i] = Zero /\ FreeFrames(m) # {}
         /\ Grown(m, n, d, lo, Min(FreeFrames(m)), i, j, w)
  BY <1>1, <1>2, <1>4, MapOutcome
<1>6. CASE m.mem[d][i] # Zero
  <2>1. PICK x : x = m.mem[d][i].frame
    OBVIOUS
  <2>2. i \in InUse(m, d)
    BY <1>6 DEF InUse
  <2>3. x \in Frame /\ x # d /\ Present(m.mem[d][i]) /\ x \in TablesIn(m, d)
    <3>1. x \in m.used /\ x # d
      BY <1>0, <2>1, <2>2, TableFacts
    <3>2. Present(m.mem[d][i])
      <4>1. CASE i \in {0, KernelIndex}
        BY <1>0, <4>1 DEF DirectorySound, Present
      <4> QED
        BY <1>0, <2>2, <4>1 DEF DirectorySound
    <3> QED
      BY <1>4, <2>1, <2>2, <3>1, <3>2 DEF TablesIn
  <2>4. Stored(m, n, x, j, w)
    BY <1>5, <1>6, <2>1
  <2>5. n.used = m.used /\ n.mem = [m.mem EXCEPT ![x][j] = w]
    BY <2>4 DEF Stored
  <2>6. /\ n.mem[d] = m.mem[d] /\ n.mem[x][j] = w
        /\ \A y \in Frame, l \in Cell : y # x \/ l # j => n.mem[y][l] = m.mem[y][l]
        /\ \A y \in Frame : y # x => n.mem[y] = m.mem[y]
    BY <1>0, <1>1, <1>4, <2>3, <2>5
  <2>7. Mapped(n, page) /\ Pte(n, page).frame = f
    BY <1>1, <1>3, <2>1, <2>3, <2>6 DEF Mapped, Pde, Pte
  <2>8. ASSUME NEW q \in PageSpace, q # page, Mapped(m, q) PROVE Same(m, n, q)
    <3>1. PICK k, l, y : WordOf(m, d, q, k, l, y)
      BY <1>0, <2>8, MappedWord
    <3>2. y = x => l # j
      <4>1. y = x => k = i
        BY <1>0, <2>1, <2>2, <3>1 DEF WordOf, DirectorySound
      <4> QED
        BY <1>1, <2>8, <3>1, <4>1 DEF WordOf
    <3>3. n.mem[y][l] = m.mem[y][l] /\ n.mem[d][k] = m.mem[d][k]
      BY <2>6, <3>1, <3>2 DEF WordOf
    <3>4. Present(m.mem[y][l])
      BY <3>1 DEF WordOf
    <3> QED
      BY <3>1, <3>3, <3>4, WordMapped
  <2>9. \A y \in Plain(m, d) : n.mem[y] = m.mem[y]
    BY <1>4, <2>3, <2>6 DEF Plain
  <2>10. Guarded(n, d)
    BY <2>5, <2>6 DEF Guarded, InUse
  <2> QED
    BY <2>5, <2>7, <2>8, <2>9, <2>10
<1>7. CASE m.mem[d][i] = Zero
  <2>1. FreeFrames(m) # {}
    BY <1>5, <1>7 DEF Stored, FreeFrames
  <2>2. PICK b : b = Min(FreeFrames(m)) /\ Grown(m, n, d, lo, b, i, j, w)
    BY <1>5, <1>7, <2>1
  <2>3. PICK word \in Word : word = [frame |-> b, flags |-> flags] /\ word.frame = b /\ Present(word)
    <3>1. b \in Frame
      BY <2>2 DEF Grown
    <3>2. [frame |-> b, flags |-> flags] \in Word
      BY <1>0, <3>1, WordType
    <3>3. Present([frame |-> b, flags |-> flags])
      BY <1>0 DEF Present
    <3> QED
      BY <3>2, <3>3
  <2>4. /\ b \in Frame \ m.used /\ b \in Cell /\ n.used = m.used \cup {b}
        /\ n.mem[d] = [m.mem[d] EXCEPT ![i] = word]
        /\ n.mem[lo] = [m.mem[lo] EXCEPT ![b] = word] /\ m.mem[lo][b].frame = b
        /\ n.mem[b][j] = w
        /\ \A x \in Frame \ {d, lo, b} : x # b + 1 => n.mem[x] = m.mem[x]
    BY <1>3, <2>2, <2>3 DEF Grown
  <2>5. {d, lo} \subseteq Frame /\ d # lo /\ 0 \in m.used /\ {d, lo} \subseteq TablesIn(m, d) \cup {d}
    <3>1. 0 \in InUse(m, d) /\ m.mem[d][0].frame = lo
      BY <1>0, Constants DEF DirectorySound, InUse, Zero
    <3> QED
      BY <1>0, <3>1 DEF DirectorySound, Fixed, TablesIn
  <2>6. /\ \A k \in Cell : n.mem[d][k] = IF k = i THEN word ELSE m.mem[d][k]
        /\ \A k \in Cell : n.mem[lo][k] = IF k = b THEN word ELSE m.mem[lo][k]
    BY <1>4, <2>4, <2>5
  <2>7. Mapped(n, page) /\ Pte(n, page).frame = f
    <3>1. Pde(n, page) = word
      BY <1>1, <2>6 DEF Pde
    <3>2. Pte(n, page) = w
      BY <1>1, <2>3, <2>4, <3>1 DEF Pte
    <3>3. word.frame \in Frame
      BY <2>3, <2>4
    <3> QED
      BY <1>3, <2>3, <3>1, <3>2, <3>3 DEF Mapped
  <2>8. ASSUME NEW q \in PageSpace, q # page, Mapped(m, q) PROVE Same(m, n, q)
    <3>1. PICK k, l, y : WordOf(m, d, q, k, l, y)
      BY <1>0, <2>8, MappedWord
    <3>2. /\ k \in Cell /\ l \in Cell /\ k \in InUse(m, d) /\ y = m.mem[d][k].frame
          /\ Present(m.mem[d][k]) /\ Present(m.mem[y][l])
          /\ y \in Frame /\ y \in m.used /\ y # d
      BY <3>1 DEF WordOf
    <3>3. /\ k # i /\ n.mem[d][k] = m.mem[d][k]
          /\ y \notin {d, b} /\ y # b + 1
      <4>1. y - 1 \in m.used
        BY <3>2 DEF Guarded
      <4>2. y # b /\ y # b + 1
        <5>1. y \in Nat /\ b \in Nat /\ b \notin m.used
          BY <1>4, <2>4, <3>2
        <5> QED
          BY ONLY <3>2, <4>1, <5>1
      <4>3. k # i
        BY ONLY <1>7, <3>2, ZeroType
      <4> QED
        BY <2>6, <3>2, <4>2, <4>3
    <3>4. Present(n.mem[y][l]) /\ n.mem[y][l].frame = m.mem[y][l].frame
      <4>1. CASE y = lo
        <5>1. n.mem[lo][l] = IF l = b THEN word ELSE m.mem[lo][l]
          BY <2>6, <3>2
        <5>2. CASE l = b
          BY ONLY <2>3, <2>4, <4>1, <5>1, <5>2
        <5>3. CASE l # b
          BY ONLY <3>2, <4>1, <5>1, <5>3
        <5> QED
          BY <5>2, <5>3
      <4>2. CASE y # lo
        BY <2>4, <3>2, <3>3, <4>2
      <4> QED
        BY <4>1, <4>2
    <3> QED
      BY <3>1, <3>3, <3>4, WordMapped
  <2>9. ASSUME NEW y \in Plain(m, d), 0 .. y \subseteq m.used PROVE n.mem[y] = m.mem[y]
    <3>1. y \in Frame \ {d, lo, b} /\ y \in Nat /\ b \in Nat
      BY <1>4, <2>4, <2>5 DEF Plain
    <3>2. y # b + 1
      BY <2>4, <2>9, <3>1
    <3> QED
      BY <2>4, <3>1, <3>2
  <2>10. ASSUME NEW k \in InUse(n, d) PROVE n.mem[d][k].frame - 1 \in n.used
    <3>1. CASE k = i
      <4>1. b \in Nat \ {0} /\ b - 1 \in Frame
        BY <1>4, <2>4, <2>5, Constants DEF Frame
      <4>2. b - 1 \notin FreeFrames(m)
        BY <1>0, <2>1, <2>2, <4>1, FirstFree
      <4> QED
        BY <1>1, <2>3, <2>4, <2>6, <3>1, <4>1, <4>2 DEF FreeFrames
    <3>2. CASE k # i
      <4>1. k \in InUse(m, d) /\ n.mem[d][k] = m.mem[d][k]
        BY <2>6, <3>2 DEF InUse
      <4> QED
        BY <2>4, <4>1 DEF Guarded
    <3> QED
      BY <3>1, <3>2
  <2> QED
    BY <2>4, <2>7, <2>8, <2>9, <2>10 DEF Guarded
<1> QED
  BY <1>6, <1>7

-----------------------------------------------------------------------------
(* Pages of the heap *)

(* Pages next to each other share a table unless one starts a table. *)
LEMMA PageBefore ==
    ASSUME NEW page \in Nat, page % Entries # 0
    PROVE  page - 1 \in Nat /\ (page - 1) \div Entries = page \div Entries
<1>1. Entries \in Nat \ {0}
  BY Constants
<1>2. PICK a \in Nat, r \in 0 .. (Entries - 1) :
         page = a * Entries + r /\ a = page \div Entries /\ r = page % Entries
  BY <1>1, DivModNat
<1>3. r - 1 \in 0 .. (Entries - 1)
  BY <1>1, <1>2
<1>4. (a * Entries + (r - 1)) \div Entries = a
  BY <1>1, <1>3, DivExact
<1>5. PICK x \in Nat : x = a * Entries
  BY <1>1
<1>6. page - 1 = a * Entries + (r - 1) /\ page - 1 \in Nat
  <2>1. page = x + r /\ r # 0 /\ r \in Nat
    <3>1. page = x + r /\ r # 0
      BY ONLY <1>2, <1>5, page % Entries # 0
    <3>2. r \in Nat
      BY ONLY r \in 0 .. (Entries - 1), <1>1
    <3> QED
      BY <3>1, <3>2
  <2>2. page - 1 = x + (r - 1) /\ page - 1 \in Nat
    BY ONLY <2>1, x \in Nat
  <2> QED
    BY ONLY <1>5, <2>2
<1> QED
  BY <1>2, <1>4, <1>6

(* Pages of the heap lie above the kernel and above physical memory.        *)
LEMMA HeapPageFacts ==
    ASSUME MemoryBelowKernel, NEW page \in HeapPage
    PROVE  /\ page \in 0 .. (Entries * Entries - 1) /\ Apart(page)
           /\ page \div Entries \in Cell /\ page \div Entries >= HeapIndex
           /\ page \div Entries # KernelIndex
<1>1. /\ Entries \in Nat \ {0} /\ HeapIndex \in Nat /\ KernelIndex \in Nat
      /\ KernelIndex < HeapIndex
  BY Constants DEF Cell
<1>2. PICK q \in Nat, h \in Nat, k \in Nat :
         q = Entries * Entries /\ h = HeapIndex * Entries /\ k = KernelIndex * Entries
  BY <1>1
<1>3. page \in h .. (q - 1)
  BY <1>2 DEF HeapPage, HEAP_START
<1>4. page \in 0 .. (Entries * Entries - 1)
  BY <1>2, <1>3
<1>5. PICK a \in Cell, r \in Cell :
         a = page \div Entries /\ r = page % Entries /\ page = a * Entries + r
  BY <1>4, PagePlace
<1>6. a >= HeapIndex
  <2> SUFFICES ASSUME a + 1 <= HeapIndex PROVE FALSE
    BY <1>1, <1>5 DEF Cell
  <2>1. (a + 1) * Entries <= h
    BY <1>1, <1>2, <1>5, MulMono DEF Cell
  <2>2. PICK x \in Nat : x = a * Entries
    BY <1>1, <1>5 DEF Cell
  <2>3. (a + 1) * Entries = x + Entries
    BY <1>1, <1>5, <2>2 DEF Cell
  <2> QED
    BY <1>1, <1>3, <1>5, <2>1, <2>2, <2>3 DEF Cell
<1>7. Apart(page)
  <2>1. k <= a * Entries
    BY <1>1, <1>2, <1>5, <1>6, MulMono DEF Cell
  <2>2. PICK x \in Nat : x = a * Entries
    BY <1>1, <1>5 DEF Cell
  <2>3. FrameCount <= x
    BY <1>2, <2>1, <2>2, Constants DEF MemoryBelowKernel
  <2> QED
    BY <1>5, <2>2, <2>3 DEF Apart
<1> QED
  BY <1>1, <1>4, <1>5, <1>6, <1>7

(* The next page of the heap to be mapped starts a table, or its table is   *)
(* there; only without a frame for a table neither is the case.             *)
Ready(m, page) == FreeFrames(m) = {} \/ Pde(m, page) # Zero \/ page % Entries = 0

(* The first run of n free pages, and the page before it. *)
LEMMA FirstRun ==
    ASSUME NEW n \in Nat \ {0}, HasRoom(n)
    PROVE  LET first == find_free_contiguous_pages(n)
           IN  /\ first \in HeapPage
               /\ \A q \in first .. (first + n - 1) : q \in HeapPage /\ PageFree(q)
               /\ first = HEAP_START \/ (first - 1 \in HeapPage /\ ~ PageFree(first - 1))
               /\ Ready(Machine, first)
<1> PICK first : first = find_free_contiguous_pages(n)
  OBVIOUS
<1>1. PICK h \in Nat : h = HEAP_START /\ h = HeapIndex * Entries /\ h % Entries = 0
  <2>1. HeapIndex \in Nat /\ Entries \in Nat \ {0}
    BY Constants DEF Cell
  <2>2. (HeapIndex * Entries + 0) % Entries = 0
    BY <2>1, DivExact
  <2>3. PICK h \in Nat : h = HeapIndex * Entries
    BY <2>1
  <2> QED
    BY <2>2, <2>3 DEF HEAP_START
<1>2. HeapPage \subseteq Nat
  BY <1>1 DEF HeapPage
<1>3. FreeRuns(n) \in SUBSET Nat /\ FreeRuns(n) # {}
  BY <1>2 DEF FreeRuns, HasRoom
<1>4. first \in FreeRuns(n) /\ \A p \in FreeRuns(n) : first <= p
  BY <1>3, MinOfNaturals DEF find_free_contiguous_pages
<1>5. first \in HeapPage /\ \A q \in first .. (first + n - 1) : q \in HeapPage /\ PageFree(q)
  BY <1>4 DEF FreeRuns
<1>6. ASSUME first # h PROVE first - 1 \in HeapPage /\ ~ PageFree(first - 1)
  <2>1. first \in Nat
    BY <1>2, <1>5
  <2>2. first - 1 \in HeapPage
    <3>1. PICK q \in Int : q = Entries * Entries - 1
      BY Constants
    <3>2. HeapPage = h .. q
      BY <1>1, <3>1 DEF HeapPage
    <3> QED
      BY <1>5, <1>6, <2>1, <3>1, <3>2
  <2>3. ASSUME PageFree(first - 1) PROVE FALSE
    <3>1. ASSUME NEW q \in (first - 1) .. (first - 1 + n - 1) PROVE q \in HeapPage /\ PageFree(q)
      <4>1. q = first - 1 \/ q \in first .. (first + n - 1)
        BY <2>1
      <4> QED
        BY <1>5, <2>2, <2>3, <4>1
    <3>2. first - 1 \in FreeRuns(n)
      BY <2>2, <3>1 DEF FreeRuns
    <3> QED
      BY <1>4, <2>1, <3>2
  <2> QED
    BY <2>2, <2>3
<1>7. ASSUME Pde(Machine, first) = Zero, first % Entries # 0 PROVE FALSE
  <2>1. first \in Nat
    BY <1>2, <1>5
  <2>2. (first - 1) \div Entries = first \div Entries
    BY <1>7, <2>1, PageBefore
  <2>3. PageFree(first - 1)
    BY <1>7, <2>2 DEF PageFree, Pde
  <2> QED
    BY <1>1, <1>6, <1>7, <2>3
<1> QED
  BY <1>1, <1>5, <1>6, <1>7 DEF Ready

(* The page is the heap's first, or the one before it is mapped. *)
InOrder(m, page) ==
    \/ FreeFrames(m) = {}
    \/ page = HEAP_START
    \/ page - 1 \in HeapPage /\ Mapped(m, page - 1)

(* The frames before the three tables are in use.                           *)
LEMMA SmallIsGuarded ==
    ASSUME NEW m, NEW d, NEW lo, NEW hi, DirectorySound(m, d, lo, hi), HeapSmall(m, d)
    PROVE  Guarded(m, d)
<1> SUFFICES ASSUME NEW i \in InUse(m, d) PROVE m.mem[d][i].frame - 1 \in m.used
  BY DEF Guarded
<1>1. \A f \in {lo, hi} : f \in Frame /\ f # 0
  BY DEF DirectorySound
<1>2. \A f \in {lo, hi} : f - 1 \in Frame /\ (f - 1) + 1 = f
  BY <1>1, Constants DEF Frame
<1>3. \A f \in {lo, hi} : f - 1 \in m.used
  BY <1>2 DEF DirectorySound, Fixed
<1>4. m.mem[d][0].frame = lo /\ m.mem[d][KernelIndex].frame = hi
  BY DEF DirectorySound
<1> QED
  BY <1>3, <1>4 DEF HeapSmall, HeapTable

(* The pages before one in order have used up as many frames.               *)
LEMMA PageInOrder ==
    ASSUME MemoryBelowKernel, NEW m \in MachineType, NEW lo, NEW hi,
           DirectorySound(m, cur_directory, lo, hi), HeapSmall(m, cur_directory),
           NEW page \in HeapPage, InOrder(m, page), FreeFrames(m) # {}
    PROVE  /\ \A y \in Cell : y < page % Entries => y \in m.used
           /\ page \div Entries = HeapIndex \/ Cell \subseteq m.used
<1>0. Entries \in Nat \ {0} /\ HeapIndex \in Nat /\ page \in Nat /\ page \in PageSpace
  BY HeapPageFacts, Constants DEF Cell, PageSpace
<1>1. CASE page = HEAP_START
  <2>1. (HeapIndex * Entries + 0) \div Entries = HeapIndex /\ (HeapIndex * Entries + 0) % Entries = 0
    BY <1>0, DivExact
  <2>2. PICK h \in Nat : h = HeapIndex * Entries
    BY <1>0
  <2>3. page \div Entries = HeapIndex /\ page % Entries = 0
    BY <1>1, <2>1, <2>2 DEF HEAP_START
  <2> QED
    BY <2>3 DEF Cell
<1>2. CASE page - 1 \in HeapPage /\ Mapped(m, page - 1)
  <2>1. PICK q \in PageSpace : q = page - 1 /\ q \in HeapPage /\ Mapped(m, q)
    BY <1>2, HeapPageFacts DEF PageSpace
  <2>2. PICK k, l, x : WordOf(m, cur_directory, q, k, l, x)
    BY <2>1, MappedWord
  <2>3. /\ k \in Cell /\ l \in Cell /\ k = q \div Entries /\ q = k * Entries + l
        /\ k \in InUse(m, cur_directory) /\ x = m.mem[cur_directory][k].frame
        /\ Present(m.mem[x][l])
    BY <2>2 DEF WordOf
  <2>4. k = HeapIndex
    <3>1. k >= HeapIndex
      BY <2>1, <2>3, HeapPageFacts
    <3>2. k \in {0, KernelIndex, HeapIndex}
      BY <2>3 DEF HeapSmall
    <3> QED
      BY <3>1, <3>2, Constants DEF Cell
  <2>5. 0 .. l \subseteq m.used
    BY <2>3, <2>4 DEF HeapSmall, HeapTable
  <2>6. PICK a \in Cell, r \in Cell :
           a = page \div Entries /\ r = page % Entries /\ page = a * Entries + r
    BY <1>0, PagePlace DEF PageSpace
  <2>7. PICK ae \in Nat, ke \in Nat : ae = a * Entries /\ ke = k * Entries
    BY <1>0, <2>3, <2>6 DEF Cell
  <2>8. CASE r # 0
    <3>1. a = k
      BY <1>0, <2>1, <2>3, <2>6, <2>8, PageBefore
    <3>2. l = r - 1
      <4>1. page = ae + r /\ q = ke + l /\ ae = ke /\ q = page - 1
        BY <2>1, <2>3, <2>6, <2>7, <3>1
      <4>2. r \in Int /\ l \in Int
        BY <1>0, <2>3, <2>6 DEF Cell
      <4> QED
        BY ONLY <1>0, <2>7, <4>1, <4>2
    <3>3. \A y \in Cell : y < r => y \in 0 .. l
      BY <1>0, <2>6, <3>2 DEF Cell
    <3> QED
      BY <2>4, <2>5, <2>6, <3>1, <3>3
  <2>9. CASE r = 0
    <3>1. a # 0 /\ a - 1 \in Nat
      BY <1>0, <2>1, <2>6, <2>7, <2>9, HeapPageFacts DEF Cell, HeapPage
    <3>2. ((a - 1) * Entries + (Entries - 1)) % Entries = Entries - 1
      BY <1>0, <3>1, DivExact
    <3>3. (a - 1) * Entries = ae - Entries
      BY <1>0, <2>6, <2>7 DEF Cell
    <3>4. q = (a - 1) * Entries + (Entries - 1)
      BY <1>0, <2>1, <2>6, <2>7, <2>9, <3>3
    <3>5. l = Entries - 1
      BY <2>2, <3>2, <3>4 DEF WordOf
    <3>6. Cell \subseteq m.used
      BY <2>5, <3>5 DEF Cell
    <3> QED
      BY <3>6
  <2> QED
    BY <2>8, <2>9
<1> QED
  BY <1>1, <1>2 DEF InOrder

(* The loop of the hook begins in order.                                    *)
LEMMA FirstInOrder ==
    ASSUME MemoryBelowKernel, NEW n \in Nat \ {0}, HasRoom(n), Machine \in MachineType,
           NEW lo, NEW hi, DirectorySound(Machine, cur_directory, lo, hi)
    PROVE  InOrder(Machine, find_free_contiguous_pages(n))
<1> PICK first : first = find_free_contiguous_pages(n)
  OBVIOUS
<1>1. first = HEAP_START \/ (first - 1 \in HeapPage /\ ~ PageFree(first - 1))
  BY FirstRun
<1>2. ASSUME first - 1 \in HeapPage, ~ PageFree(first - 1) PROVE Mapped(Machine, first - 1)
  <2>1. PICK i \in Cell : i = (first - 1) \div Entries
    BY <1>2, HeapPageFacts
  <2>2. i \in InUse(Machine, cur_directory) /\ i \notin {0, KernelIndex}
    BY <1>2, <2>1, HeapPageFacts, Constants DEF PageFree, Pde, InUse, Cell
  <2>3. Present(Machine.mem[cur_directory][i])
        /\ Machine.mem[cur_directory][i].frame \in Machine.used
    BY <2>2 DEF DirectorySound
  <2> QED
    BY <1>2, <2>1, <2>3, MachineParts DEF PageFree, Mapped, Pde
<1> QED
  BY <1>1, <1>2 DEF InOrder

-----------------------------------------------------------------------------
(* Taking a frame *)

(* Taking a free frame keeps the tables sound; the frame holds none.        *)
LEMMA TakeKeeps ==
    ASSUME NEW m \in MachineType, NEW d, NEW lo, NEW hi, LoadSound(m, d, lo, hi),
           NEW f \in Frame, f \notin m.used \/ f = 0,
           NEW n, n = [m EXCEPT !.used = @ \cup {f}]
    PROVE  /\ n \in MachineType /\ n.mem = m.mem /\ n.used = m.used \cup {f}
           /\ n.stopped = m.stopped
           /\ LoadSound(n, d, lo, hi) /\ f \in Plain(n, d)
           /\ Plain(m, d) \subseteq Plain(n, d)
           /\ LowIsIdentity(m, lo) => LowIsIdentity(n, lo)
<1>1. /\ DirectorySound(m, d, lo, hi) /\ HighIsIdentity(m, hi)
      /\ LowIsPlain(m, d, lo) /\ HeapIsPlain(m, d)
  BY DEF LoadSound
<1>2. n \in MachineType /\ n.mem = m.mem /\ n.used = m.used \cup {f} /\ n.stopped = m.stopped
  BY DEF MachineType
<1>3. /\ DirectorySound(n, d, lo, hi)
      /\ InUse(n, d) = InUse(m, d) /\ TablesIn(n, d) = TablesIn(m, d)
      /\ Plain(m, d) \subseteq Plain(n, d)
  <2>1. n.mem[d] = m.mem[d] /\ m.used \subseteq n.used
    BY ONLY <1>2
  <2> QED
    BY ONLY <1>1, <2>1, DirectoryKept
<1>4. f \in Plain(n, d)
  <2>1. f \notin TablesIn(m, d)
    <3> SUFFICES ASSUME NEW i \in InUse(m, d), f = m.mem[d][i].frame PROVE FALSE
      BY DEF TablesIn
    <3>1. f \in m.used /\ f # 0
      BY <1>1, TableFacts
    <3> QED
      BY <3>1
  <2>2. f # d
    BY <1>1 DEF DirectorySound, Fixed
  <2> QED
    BY <1>2, <1>3, <2>1, <2>2 DEF Plain
<1>5. HighIsIdentity(n, hi) /\ LowIsPlain(n, d, lo) /\ HeapIsPlain(n, d)
  BY <1>1, <1>2, <1>3 DEF HighIsIdentity, LowIsPlain, HeapIsPlain
<1>6. LowIsIdentity(m, lo) => LowIsIdentity(n, lo)
  BY <1>2 DEF LowIsIdentity
<1> QED
  BY <1>2, <1>3, <1>4, <1>5, <1>6 DEF LoadSound

-----------------------------------------------------------------------------
(* The loop of liballoc_alloc *)

(* The step of the hook leaves the machine typed.                           *)
LEMMA MapNextType ==
    ASSUME NEW m \in MachineType, FreeFrames(m) # {}, NEW page
    PROVE  MapNext(m, page) \in MachineType
<1>1. PICK p \in Frame : p = Min(FreeFrames(m))
  BY FirstFree
<1>2. [m EXCEPT !.used = @ \cup {p}] \in MachineType
  BY DEF MachineType
<1>3. I86_PTE_PRESENT + I86_PTE_WRITABLE = 3
  BY DEF I86_PTE_PRESENT, I86_PTE_WRITABLE
<1> QED
  BY <1>1, <1>2, <1>3, MapAddrType DEF MapNext

Turn(m, page) == IF m.stopped \/ FreeFrames(m) = {} THEN m ELSE MapNext(m, page)

IsTurns(f, first, n) ==
    f = [i \in 0 .. n |->
            IF i = 0 THEN Machine ELSE Turn(f[i - 1], first + i - 1)]

(* The machines of the hook's loop.                                         *)
LEMMA Turns ==
    ASSUME Machine \in MachineType, NEW first, NEW n \in Nat
    PROVE  LET turn == AfterTurns(first, n)
           IN  /\ turn \in [0 .. n -> MachineType] /\ turn[0] = Machine
               /\ \A i \in 1 .. n : turn[i] = Turn(turn[i - 1], first + i - 1)
<1>1. ASSUME NEW m \in MachineType, NEW page PROVE Turn(m, page) \in MachineType
  BY MapNextType DEF Turn
<1> DEFINE g == [x \in MachineType \X (1 .. n) |-> Turn(x[1], first + x[2] - 1)]
<1>2. g \in [MachineType \X (1 .. n) -> MachineType]
  BY <1>1
<1>3. PICK h \in [0 .. n -> MachineType] :
         h[0] = Machine /\ \A i \in 1 .. n : h[i] = g[<<h[i - 1], i>>]
  <2> HIDE DEF g
  <2>1. LoopBody(MachineType, Machine, n, g)
    BY <1>2 DEF LoopBody
  <2>2. PICK h : Loop(h, MachineType, Machine, n, g)
    BY <2>1, LoopExists
  <2> QED
    BY <2>2 DEF Loop
<1>4. IsTurns(h, first, n)
  <2>1. ASSUME NEW i \in 1 .. n PROVE h[i] = Turn(h[i - 1], first + i - 1)
    <3>1. h[i - 1] \in MachineType /\ h[i] = g[<<h[i - 1], i>>]
      <4> HIDE DEF g
      <4> QED
        BY <1>3
    <3>2. g[<<h[i - 1], i>>] = Turn(h[i - 1], first + i - 1)
      BY <3>1
    <3> HIDE DEF g
    <3> QED
      BY <3>1, <3>2
  <2>2. h = [i \in 0 .. n |-> h[i]]
    OBVIOUS
  <2>3. \A i \in 0 .. n : h[i] = IF i = 0 THEN Machine ELSE Turn(h[i - 1], first + i - 1)
    <3> HIDE DEF g
    <3> QED
      BY <1>3, <2>1
  <2> HIDE DEF g
  <2> QED
    BY <2>2, <2>3 DEF IsTurns
<1> DEFINE f == CHOOSE f : IsTurns(f, first, n)
<1>5. IsTurns(f, first, n)
  BY <1>4, Zenon
<1>6. AfterTurns(first, n) = f
  BY Zenon DEF AfterTurns, IsTurns, Turn
<1> HIDE DEF f, g
<1>7. f[0] = Machine /\ \A i \in 1 .. n : f[i] = Turn(f[i - 1], first + i - 1)
  BY <1>5 DEF IsTurns
<1>8. \A i \in 0 .. n : f[i] \in MachineType
  <2> DEFINE S == [i \in 0 .. n |-> MachineType]
  <2>1. f[0] \in S[0] /\ \A i \in 1 .. n : f[i - 1] \in S[i - 1] => f[i] \in S[i]
    BY <1>1, <1>7
  <2>2. \A i \in 0 .. n : f[i] \in S[i]
    <3> HIDE DEF S
    <3> QED
      BY <2>1, LoopKeeps
  <2> QED
    BY <2>2
<1>9. f \in [0 .. n -> MachineType]
  BY <1>5, <1>8 DEF IsTurns
<1> QED
  BY <1>6, <1>7, <1>9


(* What the shell adds to loading: the first table is the identity.         *)
LEMMA ShellParts ==
    ASSUME NEW m, NEW d, NEW lo, NEW hi
    PROVE  ShellSound(m, d, lo, hi) <=> LoadSound(m, d, lo, hi) /\ LowIsIdentity(m, lo)
BY DEF ShellSound, LoadSound, LowIsIdentity, LowIsPlain

(* One turn keeps the kernel's address space sound. *)
LEMMA TurnKeeps ==
    ASSUME MemoryBelowKernel, NEW m \in MachineType, NEW lo, NEW hi, NEW page \in HeapPage,
           ShellSound(m, cur_directory, lo, hi), Ready(m, page), ~ m.stopped,
           NEW n, n = Turn(m, page), ~ n.stopped
    PROVE  ShellSound(n, cur_directory, lo, hi) /\ Ready(n, page + 1)
<1> PICK d : d = cur_directory
  OBVIOUS
<1>1. LoadSound(m, d, lo, hi) /\ LowIsIdentity(m, lo)
  BY ShellParts
<1>2. CASE FreeFrames(m) = {}
  BY <1>2 DEF Turn, Ready
<1>3. CASE FreeFrames(m) # {}
  <2>1. PICK p \in Frame \ m.used : p = Min(FreeFrames(m))
    BY <1>3, FirstFree
  <2>2. PICK t : t = [m EXCEPT !.used = @ \cup {p}]
    OBVIOUS
  <2>3. /\ t \in MachineType /\ t.mem = m.mem /\ t.used = m.used \cup {p} /\ t.stopped = m.stopped
        /\ LoadSound(t, d, lo, hi) /\ p \in Plain(t, d)
        /\ LowIsIdentity(m, lo) => LowIsIdentity(t, lo)
    BY ONLY <1>1, <2>1, <2>2, m \in MachineType, TakeKeeps
  <2>4. n = vmm_mapPhysicalAddr(t, page, p, 3)
    BY <1>3, <2>1, <2>2 DEF Turn, MapNext, I86_PTE_PRESENT, I86_PTE_WRITABLE
  <2>5. Callable(t, lo, hi, page, p, 3)
    <3>1. page \in 0 .. (Entries * Entries - 1) /\ Apart(page)
      BY HeapPageFacts
    <3>2. DirectorySound(t, d, lo, hi) /\ d \in Frame
      BY <2>3 DEF LoadSound, DirectorySound
    <3> QED
      BY <2>1, <2>3, <3>1, <3>2 DEF Callable
  <2>6. Harmless(t, page, p, 3)
    <3>1. page \div Entries # KernelIndex
      BY HeapPageFacts
    <3>2. Pde(t, page) = Pde(m, page)
      BY <2>3 DEF Pde
    <3>3. FreeFrames(t) = {} \/ Pde(t, page) # Zero \/ page % Entries = 0
      BY <1>3, <3>2 DEF Ready
    <3> QED
      BY <2>3, <3>1, <3>3 DEF Harmless
  <2>7. /\ LoadSound(n, cur_directory, lo, hi)
        /\ Pde(n, page) # Zero \/ FreeFrames(n) = {}
        /\ LowIsIdentity(t, lo) /\ page >= Entries => LowIsIdentity(n, lo)
    <3>1. LoadSound(t, cur_directory, lo, hi) /\ ~ t.stopped
      BY <2>3
    <3> QED
      BY ONLY <2>4, <2>5, <2>6, <3>1, ~ n.stopped, MapKeeps
  <2>8. page \in Nat /\ page >= Entries
    <3>1. /\ Entries \in Nat \ {0} /\ page \in 0 .. (Entries * Entries - 1)
          /\ page \div Entries \in Cell /\ page \div Entries >= HeapIndex /\ HeapIndex > 0
      BY HeapPageFacts, Constants DEF Cell
    <3>2. page < Entries => page \div Entries = 0
      BY <3>1
    <3> QED
      BY <3>1, <3>2, Constants DEF Cell
  <2>9. Ready(n, page + 1)
    <3>1. CASE (page + 1) % Entries # 0
      <4>1. (page + 1) \div Entries = page \div Entries
        <5>1. page + 1 \in Nat /\ (page + 1) - 1 = page
          BY <2>8
        <5> QED
          BY <3>1, <5>1, PageBefore
      <4> QED
        BY <2>7, <4>1 DEF Ready, Pde
    <3> QED
      BY <3>1 DEF Ready
  <2> QED
    BY <1>1, <2>3, <2>7, <2>8, <2>9, ShellParts
<1> QED
  BY <1>2, <1>3

(* Words changed outside the directory and the heap's table. *)
LEMMA SmallKept ==
    ASSUME NEW m, NEW n, NEW d, HeapSmall(m, d), m.used \subseteq n.used, n.mem[d] = m.mem[d],
           HeapIndex \in InUse(m, d) => n.mem[HeapTable(m, d)] = m.mem[HeapTable(m, d)]
    PROVE  HeapSmall(n, d)
<1>1. InUse(n, d) = InUse(m, d) /\ HeapTable(n, d) = HeapTable(m, d)
  BY DEF InUse, HeapTable
<1> QED
  BY <1>1 DEF HeapSmall

(* A turn of the hook's loop keeps the heap to its one table.               *)
LEMMA TurnSmall ==
    ASSUME MemoryBelowKernel, NEW m \in MachineType, NEW lo, NEW hi, NEW page \in HeapPage,
           ShellSound(m, cur_directory, lo, hi), HeapSmall(m, cur_directory), InOrder(m, page),
           ~ m.stopped, NEW n, n = Turn(m, page), ~ n.stopped
    PROVE  HeapSmall(n, cur_directory) /\ InOrder(n, page + 1)
<1> PICK d : d = cur_directory
  OBVIOUS
<1>0. /\ DirectorySound(m, d, lo, hi) /\ d \in Frame /\ Entries \in Nat \ {0}
      /\ page \in PageSpace /\ page \in Nat /\ page + 1 - 1 = page
      /\ page \div Entries \in Cell /\ page \div Entries >= HeapIndex
  BY HeapPageFacts, Constants DEF ShellSound, DirectorySound, PageSpace
<1>1. CASE FreeFrames(m) = {}
  BY <1>1 DEF Turn, InOrder
<1>2. CASE FreeFrames(m) # {}
  <2>1. PICK p \in Frame \ m.used : p = Min(FreeFrames(m)) /\ \A y \in FreeFrames(m) : p <= y
    BY <1>2, FirstFree
  <2>2. PICK t : t = [m EXCEPT !.used = @ \cup {p}]
    OBVIOUS
  <2>3. /\ t \in MachineType /\ t.mem = m.mem /\ t.used = m.used \cup {p} /\ ~ t.stopped
        /\ DirectorySound(t, d, lo, hi)
    <3>1. LoadSound(m, d, lo, hi)
      BY ShellParts
    <3>2. /\ t \in MachineType /\ t.mem = m.mem /\ t.used = m.used \cup {p}
          /\ t.stopped = m.stopped /\ LoadSound(t, d, lo, hi)
      BY ONLY <2>1, <2>2, <3>1, m \in MachineType, TakeKeeps
    <3> QED
      BY <3>2 DEF LoadSound
  <2>4. n = vmm_mapPhysicalAddr(t, page, p, 3)
    BY <1>2, <2>1, <2>2 DEF Turn, MapNext, I86_PTE_PRESENT, I86_PTE_WRITABLE
  <2>5. Callable(t, lo, hi, page, p, 3)
    BY <1>0, <2>1, <2>3, HeapPageFacts DEF Callable, PageSpace
  <2>6. PICK i \in Cell, j \in Cell : i = page \div Entries /\ j = page % Entries /\ i >= HeapIndex
    BY <1>0, PagePlace DEF PageSpace
  <2>7. PICK w : w \in Word /\ w = [frame |-> p, flags |-> 3] /\ w.flags = 3
    <3>1. [frame |-> p, flags |-> 3] \in Word
      BY <2>1, WordType
    <3> QED
      BY <3>1
  <2>8. /\ \A y \in Cell : y < j => y \in m.used
        /\ i = HeapIndex \/ Cell \subseteq m.used
    BY <1>0, <1>2, <2>6, PageInOrder
  <2>9. 0 .. j \subseteq t.used
    <3>1. p >= j \/ p \notin Cell
      BY <2>1, <2>6, <2>8, Constants DEF Cell
    <3>2. p >= j /\ p \in Nat /\ j \in Nat
      BY <1>0, <2>1, <2>6, <3>1, Constants DEF Cell
    <3>3. ASSUME NEW y \in 0 .. j PROVE y \in t.used
      <4>1. y \in Frame
        BY <2>1, <3>2, Constants DEF Frame
      <4>2. y < p => y \notin FreeFrames(m)
        BY <2>1, <3>2
      <4> QED
        BY <2>3, <3>2, <4>1, <4>2 DEF FreeFrames
    <3> QED
      BY <3>3
  <2>10. HeapSmall(t, d)
    <3>1. t.mem[d] = m.mem[d] /\ m.used \subseteq t.used
          /\ t.mem[HeapTable(m, d)] = m.mem[HeapTable(m, d)]
      BY <2>3
    <3> QED
      BY <3>1, SmallKept
  <2>11. InOrder(n, page + 1)
    <3>1. Guarded(t, cur_directory) /\ ~ t.stopped
      BY <2>3, <2>10, SmallIsGuarded
    <3>2. FreeFrames(n) # {} => Mapped(n, page)
      BY ONLY <2>4, <2>5, <3>1, ~ n.stopped, MapEffect
    <3> QED
      BY <1>0, <3>2 DEF InOrder
  <2>12. /\ Pde(t, page) = t.mem[d][i] /\ t.mem \in [Frame -> [Cell -> Word]] /\ Frame \subseteq Nat
         /\ \A k \in InUse(t, d) : t.mem[d][k].frame \in Frame \ {0, d}
    <3>1. t.used \subseteq Frame
      BY <2>3, MachineParts
    <3> QED
      BY <2>3, <2>6, <3>1, TableFacts, MachineParts, Constants DEF Pde
  <2>13. CASE t.mem[d][i] # Zero /\ Stored(t, n, t.mem[d][i].frame, j, w)
    <3>1. i \in InUse(t, d)
      BY <2>13 DEF InUse
    <3>2. i = HeapIndex
      BY <2>6, <2>10, <3>1, Constants DEF HeapSmall, Cell
    <3>3. PICK x \in Frame \ {d} : x = t.mem[d][i].frame /\ x = HeapTable(t, d)
      BY <2>12, <3>1, <3>2 DEF HeapTable
    <3>4. /\ n.used = t.used /\ n.mem[d] = t.mem[d]
          /\ \A y \in Cell : y # j => n.mem[x][y] = t.mem[x][y]
      BY <1>0, <2>12, <2>13, <3>3 DEF Stored
    <3>5. InUse(n, d) = InUse(t, d) /\ HeapTable(n, d) = x
      BY <3>3, <3>4 DEF InUse, HeapTable
    <3>6. HeapSmall(n, d)
      BY <2>9, <2>10, <3>1, <3>2, <3>3, <3>4, <3>5 DEF HeapSmall
    <3> QED
      BY <2>11, <3>6
  <2>14. CASE FreeFrames(t) = {} /\ Stored(t, n, 0, j, w)
    <3>1. n.used = t.used /\ \A y \in Frame : y # 0 => n.mem[y] = t.mem[y]
      BY <2>12, <2>14 DEF Stored
    <3>2. d # 0
      BY <1>0 DEF DirectorySound
    <3>3. HeapIndex \in InUse(t, d) => n.mem[HeapTable(t, d)] = t.mem[HeapTable(t, d)]
      BY <2>12, <3>1 DEF HeapTable
    <3>4. HeapSmall(n, d)
      BY <1>0, <2>10, <3>1, <3>2, <3>3, SmallKept
    <3> QED
      BY <2>11, <3>4
  <2>15. CASE t.mem[d][i] = Zero /\ FreeFrames(t) # {}
              /\ Grown(t, n, d, lo, Min(FreeFrames(t)), i, j, w)
    <3>1. PICK b \in Frame \ t.used : b = Min(FreeFrames(t)) /\ \A y \in FreeFrames(t) : b <= y
      BY <2>3, <2>15, FirstFree
    <3>2. PICK word : word = [frame |-> b, flags |-> 3]
      OBVIOUS
    <3>3. /\ b \in Cell /\ n.used = t.used \cup {b}
          /\ n.mem[d] = [t.mem[d] EXCEPT ![i] = word]
          /\ \A y \in Cell : y >= 1 => n.mem[b][y] = IF y = j THEN w ELSE Zero
      <4>1. Shift(3) = 1
        BY DEF Shift
      <4> QED
        BY <2>7, <2>15, <3>1, <3>2, <4>1 DEF Grown
    <3>4. i = HeapIndex
      BY <2>3, <2>8, <3>1, <3>3
    <3>5. \A k \in Cell : n.mem[d][k] = IF k = i THEN word ELSE t.mem[d][k]
      BY <1>0, <2>12, <3>3
    <3>6. InUse(n, d) \subseteq {0, KernelIndex, HeapIndex}
      BY <2>10, <3>4, <3>5 DEF HeapSmall, InUse
    <3>7. HeapTable(n, d) = b
      BY <2>6, <3>2, <3>4, <3>5 DEF HeapTable
    <3>8. b - 1 \in n.used
      <4>1. 0 \in t.used
        BY <2>3 DEF DirectorySound, Fixed
      <4>2. b \in Nat \ {0} /\ b - 1 \in Frame
        BY <3>1, <4>1, Constants DEF Frame
      <4>3. b - 1 \notin FreeFrames(t)
        BY <3>1, <4>2
      <4> QED
        BY <3>3, <4>2, <4>3 DEF FreeFrames
    <3>9. ASSUME NEW y \in Cell, Present(n.mem[b][y]) PROVE 0 .. y \subseteq n.used
      <4>1. 0 \in n.used
        BY <2>3, <3>3 DEF DirectorySound, Fixed
      <4>2. CASE y = 0
        BY <4>1, <4>2
      <4>3. CASE y # 0
        <5>1. y >= 1
          BY <4>3, Constants DEF Cell
        <5>2. y = j
          BY <3>3, <3>9, <5>1, ZeroType
        <5> QED
          BY <2>9, <3>3, <5>2
      <4> QED
        BY <4>2, <4>3
    <3>10. HeapSmall(n, d)
      BY <3>6, <3>7, <3>8, <3>9 DEF HeapSmall
    <3> QED
      BY <2>11, <3>10
  <2> QED
    BY <2>3, <2>4, <2>5, <2>6, <2>7, <2>12, <2>13, <2>14, <2>15, MapOutcome
<1> QED
  BY <1>1, <1>2

(* So does the loop. *)
LEMMA TurnsKeep ==
    ASSUME MemoryBelowKernel, Machine \in MachineType, ~ stopped, NEW lo, NEW hi,
           ShellSound(Machine, cur_directory, lo, hi), HeapSmall(Machine, cur_directory),
           NEW n \in Nat \ {0}, HasRoom(n)
    PROVE  LET turn == AfterTurns(find_free_contiguous_pages(n), n)
           IN  \A i \in 0 .. n :
                  \/ turn[i].stopped
                  \/ /\ ShellSound(turn[i], cur_directory, lo, hi)
                     /\ HeapSmall(turn[i], cur_directory)
<1> PICK first : first = find_free_contiguous_pages(n)
  OBVIOUS
<1> PICK turn : turn = AfterTurns(first, n)
  OBVIOUS
<1>1. /\ turn \in [0 .. n -> MachineType] /\ turn[0] = Machine
      /\ \A i \in 1 .. n : turn[i] = Turn(turn[i - 1], first + i - 1)
  BY Turns
<1>2. /\ first \in HeapPage
      /\ \A q \in first .. (first + n - 1) : q \in HeapPage /\ PageFree(q)
      /\ Ready(Machine, first) /\ InOrder(Machine, first)
  BY FirstRun, FirstInOrder DEF ShellSound
<1>3. first \in Nat
  BY <1>2, HeapPageFacts
<1> DEFINE Good(m, i) ==
               \/ m.stopped
               \/ /\ ShellSound(m, cur_directory, lo, hi) /\ Ready(m, first + i)
                  /\ HeapSmall(m, cur_directory) /\ InOrder(m, first + i)
           S == [i \in 0 .. n |-> { m \in MachineType : Good(m, i) }]
<1>4. turn[0] \in S[0]
  <2>1. Ready(Machine, first + 0) /\ InOrder(Machine, first + 0)
    BY <1>2, <1>3
  <2> QED
    BY <1>1, <2>1
<1>5. ASSUME NEW i \in 1 .. n, turn[i - 1] \in S[i - 1] PROVE turn[i] \in S[i]
  <2>1. PICK m \in MachineType : m = turn[i - 1] /\ Good(m, i - 1)
    BY <1>5
  <2>2. PICK t \in MachineType : t = turn[i] /\ t = Turn(m, first + i - 1)
    BY <1>1, <2>1
  <2>3. first + i - 1 \in HeapPage
    BY <1>2, <1>3
  <2>4. CASE m.stopped
    BY <2>2, <2>4 DEF Turn
  <2>5. CASE ~ m.stopped /\ ~ t.stopped
    <3>1. PICK page \in HeapPage : /\ page = first + i - 1 /\ page = first + (i - 1)
                                   /\ page + 1 = first + i
      BY <1>3, <2>3
    <3>2. ShellSound(t, cur_directory, lo, hi) /\ Ready(t, page + 1)
      BY <2>1, <2>2, <2>5, <3>1, TurnKeeps
    <3>3. HeapSmall(t, cur_directory) /\ InOrder(t, page + 1)
      BY <2>1, <2>2, <2>5, <3>1, TurnSmall
    <3> QED
      BY <2>2, <3>1, <3>2, <3>3
  <2> QED
    BY <2>2, <2>4, <2>5
<1>6. \A i \in 0 .. n : turn[i] \in S[i]
  <2> HIDE DEF S
  <2> QED
    BY <1>4, <1>5, LoopKeeps
<1> QED
  BY <1>6

-----------------------------------------------------------------------------
(* liballoc_free *)

(* Taking a table of the heap out of the directory. *)
LEMMA UnmapKeeps ==
    ASSUME MemoryBelowKernel, NEW m \in MachineType, NEW lo, NEW hi, NEW page \in HeapPage,
           ShellSound(m, cur_directory, lo, hi),
           NEW n, n = vmm_unmapPhysicalAddr(m, page)
    PROVE  n.stopped = m.stopped /\ ShellSound(n, cur_directory, lo, hi)
<1> PICK d : d = cur_directory
  OBVIOUS
<1>1. /\ DirectorySound(m, d, lo, hi) /\ HighIsIdentity(m, hi)
      /\ LowIsIdentity(m, lo) /\ HeapIsPlain(m, d)
  BY DEF ShellSound
<1>2. PICK i \in Cell : i = page \div Entries /\ i \notin {0, KernelIndex}
  BY HeapPageFacts, Constants DEF Cell
<1>3. m.mem[d][i] = Pde(m, page)
  BY <1>2 DEF Pde
<1>4. CASE m.mem[d][i] = Zero
  BY <1>3, <1>4 DEF vmm_unmapPhysicalAddr
<1>5. CASE m.mem[d][i] # Zero
  <2>1. PICK T : T = m.mem[d][i].frame
    OBVIOUS
  <2>2. {d, lo, hi} \subseteq Frame /\ d # lo /\ d # hi
    BY <1>1 DEF DirectorySound
  <2>3. /\ n.stopped = m.stopped /\ n.used = m.used \ {T}
        /\ n.mem = [m.mem EXCEPT ![d][i] = Zero]
    BY <1>2, <1>3, <1>5, <2>1 DEF vmm_unmapPhysicalAddr, MachineType
  <2>4. PICK mm \in [Frame -> [Cell -> Word]] : mm = m.mem
    BY MachineParts
  <2>5. /\ \A x \in Frame : x # d => n.mem[x] = m.mem[x]
        /\ \A k \in Cell : n.mem[d][k] = IF k = i THEN Zero ELSE m.mem[d][k]
    BY <2>2, <2>3, <2>4
  <2>6. InUse(n, d) = InUse(m, d) \ {i} /\ i \in InUse(m, d)
    BY <1>5, <2>5 DEF InUse
  <2>7. \A k \in InUse(n, d) : n.mem[d][k] = m.mem[d][k] /\ m.mem[d][k].frame # T
    <3>1. \A k, l \in InUse(m, d) : m.mem[d][k].frame = m.mem[d][l].frame => k = l
      BY <1>1 DEF DirectorySound
    <3>2. InUse(m, d) \subseteq Cell
      BY DEF InUse
    <3> QED
      BY <2>1, <2>5, <2>6, <3>1, <3>2
  <2>8. T \notin Fixed(d, lo, hi)
    BY <1>1, <1>2, <2>1, <2>6 DEF DirectorySound
  <2>9. DirectorySound(n, d, lo, hi)
    <3>1. Fixed(d, lo, hi) \subseteq n.used
      BY <1>1, <2>3, <2>8 DEF DirectorySound
    <3>2. n.mem[d][0] = [frame |-> lo, flags |-> 3]
          /\ n.mem[d][KernelIndex] = [frame |-> hi, flags |-> 3]
      BY <1>1, <1>2, <2>5, Constants DEF DirectorySound
    <3>3. \A k \in InUse(n, d) \ {0, KernelIndex} :
             Present(n.mem[d][k]) /\ n.mem[d][k].frame \in n.used \ Fixed(d, lo, hi)
      <4> TAKE k \in InUse(n, d) \ {0, KernelIndex}
      <4>1. Present(m.mem[d][k]) /\ m.mem[d][k].frame \in m.used \ Fixed(d, lo, hi)
        BY <1>1, <2>6 DEF DirectorySound
      <4> QED
        BY <2>3, <2>7, <4>1
    <3>4. \A k, l \in InUse(n, d) : n.mem[d][k].frame = n.mem[d][l].frame => k = l
      BY <1>1, <2>6, <2>7 DEF DirectorySound
    <3>5. \A k \in InUse(n, d) \ {0} : FrameCount <= k * Entries
      BY <1>1, <2>6 DEF DirectorySound
    <3> QED
      BY <1>1, <3>1, <3>2, <3>3, <3>4, <3>5 DEF DirectorySound
  <2>10. Plain(m, d) \subseteq Plain(n, d)
    <3>1. TablesIn(n, d) \subseteq TablesIn(m, d)
      BY <2>6, <2>7 DEF TablesIn
    <3>2. T \in TablesIn(m, d)
      BY <2>1, <2>6 DEF TablesIn
    <3> QED
      BY <2>3, <3>1, <3>2 DEF Plain
  <2>11. HighIsIdentity(n, hi) /\ LowIsIdentity(n, lo)
    BY <1>1, <2>2, <2>5 DEF HighIsIdentity, LowIsIdentity
  <2>12. HeapIsPlain(n, d)
    <3> SUFFICES ASSUME NEW k \in InUse(n, d), k >= HeapIndex, NEW y \in Cell,
                        Present(n.mem[n.mem[d][k].frame][y])
                 PROVE  n.mem[n.mem[d][k].frame][y].frame \in Plain(n, d)
      BY DEF HeapIsPlain
    <3>1. k \in InUse(m, d)
      BY <2>6
    <3>2. PICK x \in Frame \ {d} : x = m.mem[d][k].frame /\ n.mem[d][k].frame = x
      BY <1>1, <2>7, <3>1, TableFacts, MachineParts
    <3>3. n.mem[x] = m.mem[x]
      BY <2>5
    <3>4. Present(m.mem[x][y]) => m.mem[x][y].frame \in Plain(m, d)
      BY <1>1, <3>1, <3>2 DEF HeapIsPlain
    <3> QED
      BY <2>10, <3>2, <3>3, <3>4
  <2> QED
    BY <2>3, <2>9, <2>11, <2>12 DEF ShellSound
<1> QED
  BY <1>4, <1>5

(* Unmapping a page of the heap takes its only table away.                  *)
LEMMA UnmapSmall ==
    ASSUME MemoryBelowKernel, NEW m \in MachineType, NEW page \in HeapPage, cur_directory \in Frame,
           HeapSmall(m, cur_directory), NEW n, n = vmm_unmapPhysicalAddr(m, page)
    PROVE  HeapSmall(n, cur_directory)
<1> PICK d : d = cur_directory
  OBVIOUS
<1>1. PICK i \in Cell : i = page \div Entries /\ i >= HeapIndex /\ Pde(m, page) = m.mem[d][i]
  BY HeapPageFacts DEF Pde
<1>2. CASE m.mem[d][i] = Zero
  BY <1>1, <1>2 DEF vmm_unmapPhysicalAddr
<1>3. CASE m.mem[d][i] # Zero
  <2>1. i = HeapIndex
    BY <1>1, <1>3, Constants DEF HeapSmall, InUse, Cell
  <2>2. \A k \in Cell : n.mem[d][k] = IF k = i THEN Zero ELSE m.mem[d][k]
    <3>1. n.mem = [m.mem EXCEPT ![d][i] = Zero]
      BY <1>1, <1>3 DEF vmm_unmapPhysicalAddr, MachineType
    <3>2. PICK mm \in [Frame -> [Cell -> Word]] : mm = m.mem
      BY MachineParts
    <3> QED
      BY <3>1, <3>2
  <2>3. InUse(n, d) = InUse(m, d) \ {HeapIndex}
    BY <2>1, <2>2 DEF InUse
  <2> QED
    BY <2>3 DEF HeapSmall
<1> QED
  BY <1>2, <1>3

IsUnmaps(f, first, n) ==
    f = [i \in 0 .. n |->
            IF i = 0 THEN Machine ELSE vmm_unmapPhysicalAddr(f[i - 1], first + i - 1)]

(* The machines of the freeing hook's loop.                                 *)
LEMMA Unmaps ==
    ASSUME Machine \in MachineType, NEW first, NEW n \in Nat
    PROVE  \E turn \in [0 .. n -> MachineType] :
              /\ turn[0] = Machine /\ AfterUnmaps(first, n) = turn[n]
              /\ \A i \in 1 .. n : turn[i] = vmm_unmapPhysicalAddr(turn[i - 1], first + i - 1)
<1> DEFINE g == [x \in MachineType \X (1 .. n) |-> vmm_unmapPhysicalAddr(x[1], first + x[2] - 1)]
<1>1. g \in [MachineType \X (1 .. n) -> MachineType]
  BY UnmapType
<1>2. PICK h \in [0 .. n -> MachineType] :
         h[0] = Machine /\ \A i \in 1 .. n : h[i] = g[<<h[i - 1], i>>]
  <2> HIDE DEF g
  <2>1. LoopBody(MachineType, Machine, n, g)
    BY <1>1 DEF LoopBody
  <2>2. PICK h : Loop(h, MachineType, Machine, n, g)
    BY <2>1, LoopExists
  <2> QED
    BY <2>2 DEF Loop
<1>3. IsUnmaps(h, first, n)
  <2>1. ASSUME NEW i \in 1 .. n PROVE h[i] = vmm_unmapPhysicalAddr(h[i - 1], first + i - 1)
    <3>1. h[i - 1] \in MachineType /\ h[i] = g[<<h[i - 1], i>>]
      <4> HIDE DEF g
      <4> QED
        BY <1>2
    <3>2. g[<<h[i - 1], i>>] = vmm_unmapPhysicalAddr(h[i - 1], first + i - 1)
      BY <3>1
    <3> HIDE DEF g
    <3> QED
      BY <3>1, <3>2
  <2>2. h = [i \in 0 .. n |-> h[i]]
    OBVIOUS
  <2>3. \A i \in 0 .. n :
           h[i] = IF i = 0 THEN Machine ELSE vmm_unmapPhysicalAddr(h[i - 1], first + i - 1)
    <3> HIDE DEF g
    <3> QED
      BY <1>2, <2>1
  <2> HIDE DEF g
  <2> QED
    BY <2>2, <2>3 DEF IsUnmaps
<1> DEFINE f == CHOOSE f : IsUnmaps(f, first, n)
<1>4. IsUnmaps(f, first, n)
  BY <1>3, Zenon
<1>5. AfterUnmaps(first, n) = f[n]
  BY Zenon DEF AfterUnmaps, IsUnmaps
<1> HIDE DEF f, g
<1>6. /\ f[0] = Machine
      /\ \A i \in 1 .. n : f[i] = vmm_unmapPhysicalAddr(f[i - 1], first + i - 1)
  BY <1>4 DEF IsUnmaps
<1>7. \A i \in 0 .. n : f[i] \in MachineType
  <2> DEFINE S == [i \in 0 .. n |-> MachineType]
  <2>1. f[0] \in S[0] /\ \A i \in 1 .. n : f[i - 1] \in S[i - 1] => f[i] \in S[i]
    BY <1>6, UnmapType
  <2>2. \A i \in 0 .. n : f[i] \in S[i]
    <3> HIDE DEF S
    <3> QED
      BY <2>1, LoopKeeps
  <2> QED
    BY <2>2
<1>8. f \in [0 .. n -> MachineType]
  BY <1>4, <1>7 DEF IsUnmaps
<1> QED
  BY <1>5, <1>6, <1>8

(* The freeing hook keeps the tables sound.                                 *)
LEMMA UnmapsKeep ==
    ASSUME MemoryBelowKernel, Machine \in MachineType, ~ stopped, NEW lo, NEW hi,
           ShellSound(Machine, cur_directory, lo, hi), HeapSmall(Machine, cur_directory),
           cur_directory \in Frame, NEW first, NEW n \in Nat, first \in Int,
           \A q \in first .. (first + n - 1) : q \in HeapPage
    PROVE  /\ ShellSound(AfterUnmaps(first, n), cur_directory, lo, hi)
           /\ HeapSmall(AfterUnmaps(first, n), cur_directory)
<1>1. PICK turn \in [0 .. n -> MachineType] :
         /\ turn[0] = Machine /\ AfterUnmaps(first, n) = turn[n]
         /\ \A i \in 1 .. n : turn[i] = vmm_unmapPhysicalAddr(turn[i - 1], first + i - 1)
  BY Unmaps
<1> DEFINE S == [i \in 0 .. n |-> { m \in MachineType : /\ ShellSound(m, cur_directory, lo, hi)
                                                       /\ HeapSmall(m, cur_directory) }]
<1>2. turn[0] \in S[0]
  BY <1>1
<1>3. ASSUME NEW i \in 1 .. n, turn[i - 1] \in S[i - 1] PROVE turn[i] \in S[i]
  <2>1. PICK m \in MachineType : /\ m = turn[i - 1] /\ ShellSound(m, cur_directory, lo, hi)
                                 /\ HeapSmall(m, cur_directory)
    BY <1>3
  <2>2. PICK page \in HeapPage : page = first + i - 1
    OBVIOUS
  <2>3. turn[i] = vmm_unmapPhysicalAddr(m, page) /\ turn[i] \in MachineType
    BY <1>1, <2>1, <2>2
  <2>4. ShellSound(turn[i], cur_directory, lo, hi) /\ HeapSmall(turn[i], cur_directory)
    BY <2>1, <2>3, UnmapKeeps, UnmapSmall
  <2> QED
    BY <2>3, <2>4
<1>4. \A i \in 0 .. n : turn[i] \in S[i]
  <2> HIDE DEF S
  <2> QED
    BY <1>2, <1>3, LoopKeeps
<1> QED
  BY <1>1, <1>4


-----------------------------------------------------------------------------
(* The steps of the kernel *)

(* The variables hold a machine.                                            *)
LEMMA TypedMachine ==
    TypeOK <=> /\ Machine \in MachineType /\ cur_directory \in Frame
               /\ granted \subseteq HeapPage \X (1 .. MaxPages)
<1>1. /\ Machine.mem = mem /\ Machine.used = used /\ Machine.stopped = stopped
      /\ Machine = [mem |-> mem, used |-> used, stopped |-> stopped]
  BY DEF Machine
<1> QED
  BY <1>1 DEF TypeOK, MachineType, Cell

(* A step that becomes m leaves m in the variables.                         *)
LEMMA BecomesMachine ==
    ASSUME NEW m \in MachineType, Becomes(m)
    PROVE  Machine' = m /\ stopped' = m.stopped
BY DEF Becomes, Machine, MachineType

(* vmm_initialize makes a sound address space. *)
LEMMA InitializeStep ==
    ASSUME MemoryBelowKernel, KernelInv, Initialize
    PROVE  KernelInv'
<1>0. /\ cur_directory = 0 /\ used \in Reserved /\ granted = {} /\ ~ stopped
      /\ Machine \in MachineType
  BY TypedMachine DEF KernelInv, Initialize, vmm_initialize
<1> DEFINE first == Min(Frame \ used)
           second == Min(Frame \ (used \cup {first}))
           free == Frame \ (used \cup {first, second})
           dirs == { f \in free : f .. (f + DirBlocks - 1) \subseteq free }
           dir == Min(dirs)
<1>1. /\ Cardinality(Frame \ used) > 2 /\ dirs # {}
      /\ used' = used \cup {first, second} \cup dir .. (dir + DirBlocks - 1)
      /\ mem' = [mem EXCEPT
              ![first] = TableOf(I86_PTE_PRESENT),
              ![second] = TableOf(I86_PTE_PRESENT),
              ![dir] = [i \in 0 .. (Entries - 1) |->
                          CASE i = 0 -> [frame |-> second, flags |-> 3]
                            [] i = KernelIndex -> [frame |-> first, flags |-> 3]
                            [] OTHER -> Zero]]
      /\ cur_directory' = dir
      /\ stopped' = stopped /\ granted' = granted
  BY DEF Initialize, vmm_initialize
<1>2. Frame \subseteq Nat /\ 0 \in used /\ used \subseteq Frame /\ DirBlocks \in Nat \ {0}
  BY <1>0, Constants, VmmAssumption
<1>3. Frame \ used # {} /\ Frame \ (used \cup {first}) # {}
  <2>1. Cardinality({}) = 0 /\ Cardinality({first}) = 1
    BY FS_EmptySet, FS_Singleton
  <2>2. Frame \ used # {}
    BY <1>1, <2>1
  <2>3. Frame \ used # {first}
    BY <1>1, <2>1
  <2>4. first \in Frame \ used
    <3>1. Frame \ used \in SUBSET Nat
      BY <1>2
    <3> QED
      BY <2>2, <3>1, MinOfNaturals
  <2> HIDE DEF first
  <2> QED
    BY <2>2, <2>3, <2>4
<1>4. PICK hi \in Frame : /\ hi = first /\ hi \notin used
                          /\ \A f \in Frame \ used : hi <= f
  <2>1. Frame \ used \in SUBSET Nat
    BY <1>2
  <2> QED
    BY <1>3, <2>1, MinOfNaturals
<1>5. PICK lo \in Frame : /\ lo = second /\ lo \notin used \cup {hi}
                          /\ \A f \in Frame \ (used \cup {hi}) : lo <= f
  <2>1. Frame \ (used \cup {hi}) \in SUBSET Nat /\ Frame \ (used \cup {hi}) # {}
    BY <1>2, <1>3, <1>4
  <2>2. second = Min(Frame \ (used \cup {hi}))
    BY <1>4
  <2> HIDE DEF second
  <2> QED
    BY <2>1, <2>2, MinOfNaturals
<1>6. PICK rest : rest = Frame \ (used \cup {hi, lo}) /\ rest = free
  BY <1>4, <1>5
<1>7. PICK runs : runs = dirs /\ runs = { f \in rest : f .. (f + DirBlocks - 1) \subseteq rest }
  BY <1>6
<1>8. PICK d \in rest : /\ d = dir /\ d .. (d + DirBlocks - 1) \subseteq rest
                        /\ \A f \in runs : d <= f
  <2>1. runs \in SUBSET Nat /\ runs # {}
    BY <1>1, <1>2, <1>6, <1>7
  <2>2. dir = Min(runs)
    BY <1>7
  <2> HIDE DEF dir
  <2>3. dir \in runs /\ \A f \in runs : dir <= f
    BY <2>1, <2>2, MinOfNaturals
  <2> QED
    BY <1>7, <2>3
<1>9. PICK run : run = d .. (d + DirBlocks - 1) /\ d \in run /\ run \subseteq rest
  <2>1. d \in Nat
    BY <1>2, <1>6
  <2>2. d \in d .. (d + DirBlocks - 1)
    BY ONLY <1>2, <2>1
  <2> QED
    BY ONLY <1>8, <2>2
<1> PICK mm \in [Frame -> [Cell -> Word]] : mm = mem
  BY <1>0, MachineParts DEF Machine
<1> DEFINE words == [i \in Cell |-> CASE i = 0 -> [frame |-> lo, flags |-> 3]
                                      [] i = KernelIndex -> [frame |-> hi, flags |-> 3]
                                      [] OTHER -> Zero]
<1>10. /\ mem' = [mm EXCEPT ![hi] = TableOf(1), ![lo] = TableOf(1), ![d] = words]
       /\ used' = used \cup {hi, lo} \cup run
       /\ cur_directory' = d /\ stopped' = stopped /\ granted' = granted
  BY <1>1, <1>4, <1>5, <1>8, <1>9 DEF I86_PTE_PRESENT, Cell
<1>11. d \in Frame /\ d \notin used /\ d # hi /\ d # lo /\ lo # hi /\ 0 \notin {d, lo, hi}
  BY <1>2, <1>4, <1>5, <1>6
<1>12. TableOf(1) \in [Cell -> Word]
       /\ \A i \in Cell : TableOf(1)[i].frame = i /\ Present(TableOf(1)[i])
  <2>1. ASSUME NEW i \in Cell PROVE [frame |-> i, flags |-> 1] \in Word
    <3>1. PICK q \in Nat : q = Entries * Entries /\ Entries <= q
      <4>1. Entries \in Nat \ {0}
        BY Constants
      <4>2. 1 * Entries <= Entries * Entries
        BY <4>1, MulMono
      <4> QED
        BY <4>1, <4>2
    <3>2. Entries \in Nat \ {0} /\ i \in 0 .. (Entries - 1)
      BY Constants DEF Cell
    <3>3. i \in 0 .. (q - 1)
      BY ONLY <3>1, <3>2
    <3> QED
      BY <3>1, <3>3 DEF Word
  <2> QED
    BY <2>1 DEF TableOf, Cell, Present
<1>13. /\ words \in [Cell -> Word]
       /\ words[0] = [frame |-> lo, flags |-> 3]
       /\ words[KernelIndex] = [frame |-> hi, flags |-> 3]
       /\ \A i \in Cell \ {0, KernelIndex} : words[i] = Zero
  <2>1. [frame |-> lo, flags |-> 3] \in Word /\ [frame |-> hi, flags |-> 3] \in Word
    BY WordType
  <2> QED
    BY <2>1, ZeroType, Constants
<1> HIDE DEF words, first, second, free, dirs, dir
<1>14. /\ mem' \in [Frame -> [Cell -> Word]]
       /\ mem'[hi] = TableOf(1) /\ mem'[lo] = TableOf(1) /\ mem'[d] = words
  BY <1>10, <1>11, <1>12, <1>13
<1> PICK M : M = Machine'
  OBVIOUS
<1>15. M.mem = mem' /\ M.used = used' /\ M = [mem |-> mem', used |-> used', stopped |-> stopped']
  BY DEF Machine
<1>16. M \in MachineType
  <2>1. used' \subseteq Frame /\ stopped' \in BOOLEAN
    BY <1>0, <1>2, <1>6, <1>9, <1>10, MachineParts DEF Machine, MachineType
  <2> QED
    BY <1>14, <1>15, <2>1 DEF MachineType
<1>17. Fixed(d, lo, hi) \subseteq M.used
  <2> SUFFICES ASSUME NEW f \in Frame, f + 1 \in {d, lo, hi} PROVE f \in used \cup {hi, lo} \cup run
    BY <1>2, <1>9, <1>10, <1>15 DEF Fixed
  <2>1. f \in Nat
    BY <1>2
  <2>2. CASE f + 1 = hi
    BY <1>2, <1>4, <2>1, <2>2
  <2>3. CASE f + 1 = lo
    BY <1>2, <1>4, <1>5, <2>1, <2>3
  <2>4. CASE f + 1 = d
    <3> SUFFICES ASSUME f \in rest PROVE FALSE
      BY <1>6
    <3>1. f .. (f + DirBlocks - 1) \subseteq {f} \cup run
      BY <1>2, <1>9, <2>1, <2>4
    <3>2. f \in runs
      BY <1>7, <1>9, <3>1
    <3> QED
      BY <1>8, <2>1, <2>4, <3>2
  <2> QED
    BY <2>2, <2>3, <2>4
<1>18. InUse(M, d) \subseteq {0, KernelIndex}
  BY <1>13, <1>14, <1>15 DEF InUse
<1>19. DirectorySound(M, d, lo, hi)
  <2>1. \A i \in InUse(M, d) \ {0} : FrameCount <= i * Entries
    BY <1>18 DEF MemoryBelowKernel
  <2>2. M.mem[d][0] = [frame |-> lo, flags |-> 3]
        /\ M.mem[d][KernelIndex] = [frame |-> hi, flags |-> 3]
    BY <1>13, <1>14, <1>15
  <2>3. \A i, j \in InUse(M, d) : M.mem[d][i].frame = M.mem[d][j].frame => i = j
    BY <1>11, <1>18, <2>2
  <2> QED
    BY <1>11, <1>17, <1>18, <2>1, <2>2, <2>3 DEF DirectorySound
<1>20. HighIsIdentity(M, hi) /\ LowIsIdentity(M, lo)
  BY <1>12, <1>14, <1>15 DEF HighIsIdentity, LowIsIdentity
<1>21. HeapIsPlain(M, d)
  <2>1. \A i \in InUse(M, d) : ~ (i >= HeapIndex)
    BY <1>18, Constants DEF Cell
  <2> QED
    BY <2>1 DEF HeapIsPlain
<1>22. ShellSound(Machine', cur_directory', lo, hi)
  BY <1>10, <1>19, <1>20, <1>21 DEF ShellSound
<1>23. HeapSmall(Machine', cur_directory')
  <2>1. HeapIndex \notin {0, KernelIndex}
    BY Constants DEF Cell
  <2> QED
    BY <1>10, <1>18, <2>1 DEF HeapSmall
<1>24. TypeOK'
  <2>1. granted' \subseteq HeapPage \X (1 .. MaxPages)
    BY <1>0, <1>10
  <2>2. Machine' \in MachineType /\ cur_directory' \in Frame
    BY <1>10, <1>11, <1>16
  <2>3. Machine'.mem = mem' /\ Machine'.used = used' /\ Machine'.stopped = stopped'
    BY DEF Machine
  <2> QED
    BY <2>1, <2>2, <2>3 DEF TypeOK, MachineType, Cell
<1>25. RunsFit'
  BY <1>0, <1>10 DEF RunsFit
<1>26. cur_directory' # 0
  BY <1>10, <1>11
<1> QED
  BY <1>22, <1>23, <1>24, <1>25, <1>26 DEF KernelInv


(* liballoc_alloc keeps the invariant, whether or not frames ran out,       *)
LEMMA AllocStep ==
    ASSUME MemoryBelowKernel, KernelInv, NEW n \in 1 .. MaxPages,
           liballoc_alloc(n) \/ liballoc_alloc_fails(n)
    PROVE  KernelInv'
<1> PICK first : first = find_free_contiguous_pages(n)
  OBVIOUS
<1> PICK turn : turn = AfterTurns(first, n)
  OBVIOUS
<1>1. /\ Running /\ HasRoom(n) /\ Becomes(turn[n]) /\ cur_directory' = cur_directory
      /\ granted' = granted \/ granted' = granted \cup {<<first, n>>}
  BY DEF liballoc_alloc, liballoc_alloc_fails
<1>2. /\ Machine \in MachineType /\ cur_directory \in Frame /\ cur_directory # 0 /\ ~ stopped
      /\ granted \subseteq HeapPage \X (1 .. MaxPages) /\ RunsFit
  BY <1>1, TypedMachine DEF KernelInv, Running
<1>3. n \in Nat \ {0}
  BY HookAssumption
<1>4. PICK lo \in Frame, hi \in Frame :
         ShellSound(Machine, cur_directory, lo, hi) /\ HeapSmall(Machine, cur_directory)
  BY <1>1 DEF KernelInv
<1>5. PICK m \in MachineType :
         /\ m = turn[n]
         /\ \/ m.stopped
            \/ ShellSound(m, cur_directory, lo, hi) /\ HeapSmall(m, cur_directory)
  <2>1. turn \in [0 .. n -> MachineType]
    BY <1>2, <1>3, Turns
  <2>2. \A i \in 0 .. n :
           \/ turn[i].stopped
           \/ ShellSound(turn[i], cur_directory, lo, hi) /\ HeapSmall(turn[i], cur_directory)
    BY <1>1, <1>2, <1>3, <1>4, TurnsKeep
  <2> QED
    BY <1>3, <2>1, <2>2
<1>6. Machine' = m /\ stopped' = m.stopped
  BY <1>1, <1>5, BecomesMachine
<1>7. first \in HeapPage /\ \A q \in first .. (first + n - 1) : q \in HeapPage
  BY <1>1, <1>3, FirstRun
<1>8. TypeOK'
  <2>1. granted' \subseteq HeapPage \X (1 .. MaxPages)
    BY <1>1, <1>2, <1>7
  <2>2. Machine'.mem = mem' /\ Machine'.used = used' /\ Machine'.stopped = stopped'
    BY DEF Machine
  <2> QED
    BY <1>1, <1>2, <1>5, <1>6, <2>1, <2>2 DEF TypeOK, MachineType, Cell
<1>9. RunsFit'
  BY <1>1, <1>2, <1>7 DEF RunsFit, PagesOf
<1>10. Running' => /\ ShellSound(Machine', cur_directory', lo, hi)
                   /\ HeapSmall(Machine', cur_directory')
  BY <1>1, <1>5, <1>6 DEF Running
<1> QED
  BY <1>1, <1>2, <1>8, <1>9, <1>10 DEF KernelInv

(* and liballoc_free does.                                                  *)
LEMMA FreeStep ==
    ASSUME MemoryBelowKernel, KernelInv, NEW run \in granted, liballoc_free(run)
    PROVE  KernelInv'
<1> PICK m : m = AfterUnmaps(run[1], run[2])
  OBVIOUS
<1>1. /\ Running /\ Becomes(m) /\ cur_directory' = cur_directory
      /\ granted' \subseteq granted
  BY DEF liballoc_free
<1>2. /\ Machine \in MachineType /\ cur_directory \in Frame /\ cur_directory # 0 /\ ~ stopped
      /\ granted \subseteq HeapPage \X (1 .. MaxPages) /\ RunsFit
  BY <1>1, TypedMachine DEF KernelInv, Running
<1>3. PICK first \in HeapPage, n \in 1 .. MaxPages : first = run[1] /\ n = run[2]
  BY <1>2
<1>4. n \in Nat /\ first \in Int
  BY HookAssumption, Constants DEF HeapPage, HEAP_START, Cell
<1>5. \A q \in first .. (first + n - 1) : q \in HeapPage
  BY <1>2, <1>3 DEF RunsFit, PagesOf
<1>6. PICK lo \in Frame, hi \in Frame :
         ShellSound(Machine, cur_directory, lo, hi) /\ HeapSmall(Machine, cur_directory)
  BY <1>1 DEF KernelInv
<1>7. m \in MachineType
  <2>1. PICK turn \in [0 .. n -> MachineType] : AfterUnmaps(first, n) = turn[n]
    BY <1>2, <1>4, Unmaps
  <2> QED
    BY <1>3, <1>4, <2>1
<1>8. ShellSound(m, cur_directory, lo, hi) /\ HeapSmall(m, cur_directory)
  BY <1>2, <1>3, <1>4, <1>5, <1>6, UnmapsKeep
<1>9. Machine' = m /\ stopped' = m.stopped
  BY <1>1, <1>7, BecomesMachine
<1>10. TypeOK'
  <2>1. granted' \subseteq HeapPage \X (1 .. MaxPages)
    BY <1>1, <1>2
  <2>2. Machine'.mem = mem' /\ Machine'.used = used' /\ Machine'.stopped = stopped'
    BY DEF Machine
  <2> QED
    BY <1>1, <1>2, <1>7, <1>9, <2>1, <2>2 DEF TypeOK, MachineType, Cell
<1>11. RunsFit'
  BY <1>1, <1>2 DEF RunsFit, PagesOf
<1>12. ShellSound(Machine', cur_directory', lo, hi) /\ HeapSmall(Machine', cur_directory')
  BY <1>1, <1>8, <1>9
<1> QED
  BY <1>1, <1>2, <1>10, <1>11, <1>12 DEF KernelInv

(* The invariant holds before the boot.                                     *)
LEMMA KernelInit == Init => KernelInv
<1> SUFFICES ASSUME Init PROVE KernelInv
  OBVIOUS
<1>1. TypeOK
  <2>1. PICK w \in Word : mem = [f \in Frame |-> [i \in 0 .. (Entries - 1) |-> w]]
    BY VmmAssumption DEF Init, VmmInit
  <2>2. mem \in [Frame -> [0 .. (Entries - 1) -> Word]]
    BY <2>1
  <2>3. used \subseteq Frame /\ stopped = FALSE /\ cur_directory \in Frame /\ granted = {}
    BY Constants DEF Init, VmmInit
  <2> QED
    BY <2>2, <2>3 DEF TypeOK
<1> QED
  BY <1>1 DEF KernelInv, Init, VmmInit, RunsFit, Running

(* Every step of the kernel's own keeps it.                                 *)
LEMMA KernelNext ==
    ASSUME MemoryBelowKernel, KernelInv, Next
    PROVE  KernelInv'
<1>1. CASE Initialize
  BY <1>1, InitializeStep
<1>2. ASSUME NEW n \in 1 .. MaxPages, liballoc_alloc(n) \/ liballoc_alloc_fails(n)
      PROVE  KernelInv'
  BY <1>2, AllocStep
<1>3. ASSUME NEW run \in granted, liballoc_free(run) PROVE KernelInv'
  BY <1>3, FreeStep
<1> QED
  BY <1>1, <1>2, <1>3 DEF Next

-----------------------------------------------------------------------------
(* What a grant maps *)

(* The first k pages from first on are mapped, each to a frame of its own   *)
(* that the pool had when the hook was called.                              *)
Fresh(m, first, k) ==
    /\ used \subseteq m.used
    /\ \A q \in first .. (first + k - 1) : Mapped(m, q) /\ Pte(m, q).frame \in m.used \ used
    /\ \A q, o \in first .. (first + k - 1) : q # o => Pte(m, q).frame # Pte(m, o).frame

(* One turn maps one more page, and the pages before it keep their frames.  *)
LEMMA TurnFresh ==
    ASSUME MemoryBelowKernel, NEW m \in MachineType, NEW lo, NEW hi, ~ m.stopped,
           ShellSound(m, cur_directory, lo, hi), HeapSmall(m, cur_directory),
           NEW first \in Nat, NEW k \in Nat,
           \A q \in first .. (first + k) : q \in HeapPage, Fresh(m, first, k),
           NEW n, n = Turn(m, first + k), ~ n.stopped, FreeFrames(n) # {}
    PROVE  Fresh(n, first, k + 1)
<1>1. PICK page \in HeapPage : page = first + k
  <2>1. first + k \in first .. (first + k)
    OBVIOUS
  <2> QED
    BY <2>1
<1>2. FreeFrames(m) # {}
  BY DEF Turn
<1>3. PICK p \in Frame \ m.used : p = Min(FreeFrames(m))
  BY <1>2, FirstFree
<1>4. LoadSound(m, cur_directory, lo, hi)
  BY ShellParts
<1>5. PICK t : t = [m EXCEPT !.used = @ \cup {p}]
  OBVIOUS
<1>6. /\ t \in MachineType /\ t.mem = m.mem /\ t.used = m.used \cup {p} /\ ~ t.stopped
      /\ DirectorySound(t, cur_directory, lo, hi)
  <2>1. /\ t \in MachineType /\ t.mem = m.mem /\ t.used = m.used \cup {p} /\ t.stopped = m.stopped
        /\ LoadSound(t, cur_directory, lo, hi)
    BY ONLY <1>3, <1>4, <1>5, m \in MachineType, TakeKeeps
  <2> QED
    BY <2>1 DEF LoadSound
<1>7. n = vmm_mapPhysicalAddr(t, page, p, 3)
  BY <1>1, <1>2, <1>3, <1>5 DEF Turn, MapNext, I86_PTE_PRESENT, I86_PTE_WRITABLE
<1>8. /\ t.used \subseteq n.used
      /\ Mapped(n, page) /\ Pte(n, page).frame = p
      /\ \A q \in PageSpace : q # page /\ Mapped(t, q) => Same(t, n, q)
  <2>1. Callable(t, lo, hi, page, p, 3)
    BY <1>3, <1>6, HeapPageFacts DEF Callable, DirectorySound
  <2>2. Guarded(t, cur_directory)
    <3>1. HeapSmall(t, cur_directory)
      BY <1>6, SmallKept
    <3> QED
      BY <1>6, <3>1, SmallIsGuarded
  <2> QED
    BY ONLY <1>6, <1>7, <2>1, <2>2, ~ n.stopped, FreeFrames(n) # {}, MapEffect
<1>9. ASSUME NEW q \in first .. (first + k - 1)
      PROVE  Mapped(n, q) /\ Pte(n, q).frame = Pte(m, q).frame
  <2>1. q \in PageSpace /\ q # page
    BY <1>1, HeapPageFacts DEF PageSpace
  <2>2. Mapped(m, q)
    BY DEF Fresh
  <2>3. Mapped(t, q) /\ Pte(t, q) = Pte(m, q)
    BY <1>6, <2>2 DEF Mapped, Pde, Pte
  <2> QED
    BY <1>8, <2>1, <2>3 DEF Same
<1>10. \A q \in first .. (first + (k + 1) - 1) : q = page \/ q \in first .. (first + k - 1)
  BY <1>1
<1>11. used \subseteq m.used /\ m.used \subseteq n.used /\ p \in n.used \ m.used
  BY <1>3, <1>6, <1>8 DEF Fresh
<1>12. ASSUME NEW q \in first .. (first + k - 1)
       PROVE  Pte(n, q).frame \in m.used \ used
  BY <1>9 DEF Fresh
<1>13. ASSUME NEW q \in first .. (first + (k + 1) - 1)
       PROVE  Mapped(n, q) /\ Pte(n, q).frame \in n.used \ used
  BY <1>8, <1>9, <1>10, <1>11, <1>12
<1>14. ASSUME NEW q \in first .. (first + (k + 1) - 1), NEW o \in first .. (first + (k + 1) - 1),
              q # o
       PROVE  Pte(n, q).frame # Pte(n, o).frame
  <2>1. CASE q = page
    BY <1>8, <1>10, <1>11, <1>12, <1>14, <2>1
  <2>2. CASE o = page
    BY <1>8, <1>10, <1>11, <1>12, <1>14, <2>2
  <2>3. CASE q \in first .. (first + k - 1) /\ o \in first .. (first + k - 1)
    BY <1>9, <1>14, <2>3 DEF Fresh
  <2> QED
    BY <1>10, <2>1, <2>2, <2>3
<1> QED
  BY <1>11, <1>13, <1>14 DEF Fresh

(* After the loop, unless a fault stopped it or it took the last frame.     *)
LEMMA TurnsFresh ==
    ASSUME MemoryBelowKernel, Machine \in MachineType, ~ stopped, NEW lo, NEW hi,
           ShellSound(Machine, cur_directory, lo, hi), HeapSmall(Machine, cur_directory),
           NEW n \in Nat \ {0}, HasRoom(n)
    PROVE  LET first == find_free_contiguous_pages(n)
               turn  == AfterTurns(first, n)
           IN  turn[n].stopped \/ FreeFrames(turn[n]) = {} \/ Fresh(turn[n], first, n)
<1> PICK first : first = find_free_contiguous_pages(n)
  OBVIOUS
<1> PICK turn : turn = AfterTurns(first, n)
  OBVIOUS
<1>1. /\ turn \in [0 .. n -> MachineType] /\ turn[0] = Machine
      /\ \A i \in 1 .. n : turn[i] = Turn(turn[i - 1], first + i - 1)
  BY Turns
<1>2. first \in HeapPage /\ \A q \in first .. (first + n - 1) : q \in HeapPage
  BY FirstRun
<1>3. first \in Nat
  BY <1>2, HeapPageFacts
<1>4. \A i \in 0 .. n :
         \/ turn[i].stopped
         \/ ShellSound(turn[i], cur_directory, lo, hi) /\ HeapSmall(turn[i], cur_directory)
  BY TurnsKeep
<1> DEFINE Good(m, i) == m.stopped \/ FreeFrames(m) = {} \/ Fresh(m, first, i)
           S == [i \in 0 .. n |-> { m \in MachineType : Good(m, i) }]
<1>5. turn[0] \in S[0]
  <2>1. Machine.used = used /\ first .. (first + 0 - 1) = {}
    BY <1>3 DEF Machine
  <2>2. Fresh(Machine, first, 0)
    BY <2>1 DEF Fresh
  <2> QED
    BY <1>1, <2>2
<1>6. ASSUME NEW i \in 1 .. n, turn[i - 1] \in S[i - 1] PROVE turn[i] \in S[i]
  <2>1. PICK k \in Nat : k = i - 1 /\ k + 1 = i /\ k \in 0 .. n
    OBVIOUS
  <2>2. PICK m \in MachineType : m = turn[k] /\ Good(m, k)
    BY <1>6, <2>1
  <2>3. PICK t \in MachineType : t = turn[i] /\ t = Turn(m, first + k)
    <3>1. first + i - 1 = first + k
      BY <1>3, <2>1
    <3> QED
      BY <1>1, <2>1, <2>2, <3>1
  <2>4. \A q \in first .. (first + k) : q \in HeapPage
    BY <1>2, <1>3, <2>1
  <2>5. CASE m.stopped \/ FreeFrames(m) = {}
    BY <2>2, <2>3, <2>5 DEF Turn
  <2>6. CASE ~ m.stopped /\ FreeFrames(m) # {} /\ ~ t.stopped /\ FreeFrames(t) # {}
    <3>1. /\ ShellSound(m, cur_directory, lo, hi) /\ HeapSmall(m, cur_directory)
          /\ Fresh(m, first, k)
      BY <1>4, <2>1, <2>2, <2>6
    <3>2. Fresh(t, first, k + 1)
      BY <1>3, <2>1, <2>3, <2>4, <2>6, <3>1, TurnFresh
    <3> QED
      BY <2>1, <2>3, <3>2
  <2> QED
    BY <2>3, <2>5, <2>6
<1>7. \A i \in 0 .. n : turn[i] \in S[i]
  <2> HIDE DEF S
  <2> QED
    BY <1>5, <1>6, LoopKeeps
<1> QED
  BY <1>7

-----------------------------------------------------------------------------
(* What the properties say follows *)

(* Sound directories are what TablesAreSound says,                          *)
LEMMA SoundTables ==
    ASSUME NEW m, NEW d, NEW lo, NEW hi, m = Machine, d = cur_directory,
           TypeOK, MemoryBelowKernel, DirectorySound(m, d, lo, hi), HeapIsPlain(m, d)
    PROVE  TablesAreSound
<1>1. Directory = m.mem[d] /\ Tables = InUse(m, d) /\ TableFrames = TablesIn(m, d)
  BY DEF Directory, Tables, TableFrames, InUse, TablesIn, Machine, Cell
<1>2. m.used = used
  BY DEF Machine
<1>3. TableFrames \cup {cur_directory} \subseteq used
  <2>1. \A i \in InUse(m, d) : m.mem[d][i].frame \in m.used
    BY TableFacts
  <2>2. d \in m.used
    BY DEF DirectorySound, Fixed
  <2> QED
    BY <1>1, <1>2, <2>1, <2>2 DEF TablesIn
<1>4. Cardinality(TableFrames) = Cardinality(Tables)
  <2>1. PICK S : S = InUse(m, d)
    OBVIOUS
  <2>2. PICK T : T = TablesIn(m, d)
    OBVIOUS
  <2>3. IsFiniteSet(S)
    <3>1. IsFiniteSet(Cell) /\ S \subseteq Cell
      BY <2>1, Constants, FS_Interval DEF InUse, Cell
    <3> QED
      BY <3>1, FS_Subset
  <2> DEFINE f == [i \in S |-> m.mem[d][i].frame]
  <2>4. f \in Bijection(S, T)
    <3>1. f \in [S -> T] /\ \A t \in T : \E i \in S : f[i] = t
      BY <2>1, <2>2 DEF TablesIn
    <3>2. \A i, j \in S : f[i] = f[j] => i = j
      BY <2>1 DEF DirectorySound
    <3> HIDE DEF f
    <3> QED
      BY <3>1, <3>2 DEF Bijection, Injection, IsInjective, Surjection
  <2>5. ExistsBijection(S, T)
    <3> HIDE DEF f
    <3> QED
      BY <2>4 DEF ExistsBijection
  <2> QED
    BY <1>1, <2>1, <2>2, <2>3, <2>5, FS_Bijection
<1>5. ASSUME NEW page \in HeapPage, Mapped(Machine, page)
      PROVE  Pte(Machine, page).frame \notin TableFrames \cup {cur_directory}
  <2>1. PICK i \in Cell, j \in Cell :
           i = page \div Entries /\ j = page % Entries /\ i >= HeapIndex
    BY HeapPageFacts, PagePlace
  <2>2. Present(m.mem[d][i]) /\ Present(m.mem[m.mem[d][i].frame][j])
        /\ Pte(Machine, page) = m.mem[m.mem[d][i].frame][j]
    BY <1>5, <2>1 DEF Mapped, Pde, Pte
  <2>3. i \in InUse(m, d)
    BY <2>2, ZeroType DEF InUse
  <2>4. Pte(Machine, page).frame \in Plain(m, d)
    BY <2>1, <2>2, <2>3 DEF HeapIsPlain
  <2> QED
    BY <1>1, <2>4 DEF Plain
<1> QED
  BY <1>3, <1>4, <1>5 DEF TablesAreSound

(* and identity tables what KernelStaysMapped says.                         *)
LEMMA MappedKernel ==
    ASSUME NEW m, NEW d, NEW lo, NEW hi, m = Machine, d = cur_directory,
           TypeOK, DirectorySound(m, d, lo, hi),
           LowIsIdentity(m, lo), HighIsIdentity(m, hi)
    PROVE  KernelStaysMapped
<1>1. /\ {lo, hi} \subseteq Frame
      /\ m.mem[d][0] = [frame |-> lo, flags |-> 3]
      /\ m.mem[d][KernelIndex] = [frame |-> hi, flags |-> 3]
  BY DEF DirectorySound
<1>2. Entries \in Nat \ {0} /\ Frame \subseteq Nat
  BY Constants
<1>3. ASSUME NEW f \in Frame, f < Entries PROVE Reachable(Machine, f)
  <2>1. f \in Cell /\ f \div Entries = 0 /\ f % Entries = f
    BY <1>2, <1>3 DEF Cell
  <2>2. Pde(m, f) = [frame |-> lo, flags |-> 3] /\ Pte(m, f) = m.mem[lo][f]
    BY <1>1, <2>1 DEF Pde, Pte
  <2>3. Present([frame |-> lo, flags |-> 3])
    BY DEF Present
  <2>4. Present(m.mem[lo][f]) /\ m.mem[lo][f].frame = f
    BY <2>1 DEF LowIsIdentity
  <2> QED
    BY <1>1, <2>2, <2>3, <2>4 DEF Reachable, Mapped
<1>4. ASSUME NEW i \in Cell PROVE Pte(Machine, KernelIndex * Entries + i).frame = i
  <2>1. (KernelIndex * Entries + i) \div Entries = KernelIndex
        /\ (KernelIndex * Entries + i) % Entries = i
    BY <1>2, DivExact, Constants DEF Cell
  <2>2. Pte(m, KernelIndex * Entries + i) = m.mem[hi][i]
    BY <1>1, <2>1 DEF Pde, Pte
  <2> QED
    BY <2>2 DEF HighIsIdentity
<1> QED
  BY <1>3, <1>4 DEF KernelStaysMapped, Cell


-----------------------------------------------------------------------------
(* Files *)

(* The numbers the loader computes from a file. *)
LEMMA FileFacts ==
    ASSUME NEW p \in Files
    PROVE  /\ p.vpage \in Nat /\ p.blocks \in Nat
           /\ FirstBlocks(p) \in Nat \ {0} /\ FirstBlocks(p) <= p.blocks
           /\ MorePages(p) \in Nat
           /\ StackPage(p) \in Nat /\ p.vpage <= StackPage(p) /\ p.vpage < StackPage(p)
<1>1. PICK q \in Nat : q = Entries * Entries
  BY Constants
<1>2. /\ BlocksPerPage \in Nat \ {0} /\ p.vpage \in Nat /\ p.mem \in Nat
      /\ p.blocks \in Nat /\ p.blocks >= 1
  BY <1>1, TaskAssumption
<1>3. PICK v \in Nat : v = p.vpage * BlocksPerPage
  BY <1>2
<1>4. ImageSize(p) = v + p.mem
  BY <1>2, <1>3 DEF ImageSize
<1>5. FirstBlocks(p) \in {p.blocks, v + p.mem + 1} /\ FirstBlocks(p) <= p.blocks
  <2>1. {p.blocks, v + p.mem + 1} \in SUBSET Nat
    BY <1>2
  <2> QED
    BY <1>4, <2>1, MinOfNaturals DEF FirstBlocks
<1>6. FirstBlocks(p) \in Nat \ {0}
  BY <1>2, <1>5
<1>7. MorePages(p) \in Nat
  <2>1. PICK x \in Nat : x = p.blocks - FirstBlocks(p) + BlocksPerPage - 1
    BY <1>2, <1>5, <1>6
  <2> QED
    BY <1>2, <2>1, DivModNat DEF MorePages
<1>8. PICK s \in Nat : s = v + (v + p.mem)
  BY <1>2
<1>9. PICK k \in Nat, r \in Nat :
         k = s \div BlocksPerPage /\ r < BlocksPerPage /\ s = k * BlocksPerPage + r
  <2>1. /\ s \div BlocksPerPage \in Nat /\ s % BlocksPerPage \in 0 .. (BlocksPerPage - 1)
        /\ s = (s \div BlocksPerPage) * BlocksPerPage + (s % BlocksPerPage)
    BY <1>2, DivModNat
  <2>2. s % BlocksPerPage \in Nat /\ s % BlocksPerPage < BlocksPerPage
    BY ONLY <1>2, <2>1
  <2> QED
    BY <2>1, <2>2
<1>10. StackPage(p) = k + 1
  BY <1>3, <1>4, <1>8, <1>9 DEF StackPage
<1>11. p.vpage <= k
  <2> SUFFICES ASSUME k + 1 <= p.vpage PROVE FALSE
    BY <1>2
  <2>1. (k + 1) * BlocksPerPage <= v
    BY <1>2, <1>3, MulMono
  <2>2. PICK x \in Nat : x = k * BlocksPerPage
    BY <1>2
  <2>3. (k + 1) * BlocksPerPage = x + BlocksPerPage
    BY <1>2, <2>2
  <2> QED
    BY <1>2, <1>8, <1>9, <2>1, <2>2, <2>3
<1> QED
  BY <1>2, <1>5, <1>6, <1>7, <1>10, <1>11

(* A page of the image takes no more blocks than fit it, none from behind   *)
(* the end of the file.                                                     *)
LEMMA BlocksFacts ==
    ASSUME NEW p \in Files, NEW i \in Nat \ {0}
    PROVE  /\ BlockOfPage(p, i) \in Nat
           /\ Cardinality(BlocksOfPage(p, i)) \in 0 .. BlocksPerPage
           /\ Cardinality(BlocksOfPage(p, i)) # 0
                => BlockOfPage(p, i) + Cardinality(BlocksOfPage(p, i)) <= p.blocks
<1>1. BlocksPerPage \in Nat \ {0} /\ p.blocks \in Nat /\ FirstBlocks(p) \in Nat
  BY TaskAssumption, FileFacts
<1>2. PICK b \in Nat : b = BlockOfPage(p, i)
  <2>1. PICK x \in Nat : x = (i - 1) * BlocksPerPage
    BY <1>1
  <2> QED
    BY <1>1, <2>1 DEF BlockOfPage
<1>3. PICK e \in Nat : /\ e = Min({p.blocks, b + BlocksPerPage})
                       /\ e <= p.blocks /\ e <= b + BlocksPerPage
  <2>1. {p.blocks, b + BlocksPerPage} \in SUBSET Nat
    BY <1>1
  <2> QED
    BY <2>1, MinOfNaturals
<1>4. BlocksOfPage(p, i) = b .. (e - 1)
  BY <1>2, <1>3 DEF BlocksOfPage
<1>5. Cardinality(b .. (e - 1)) = IF b > e - 1 THEN 0 ELSE e - 1 - b + 1
  BY FS_Interval
<1> QED
  BY <1>1, <1>2, <1>3, <1>4, <1>5

(* The words of a file are words.                                           *)
LEMMA DataType ==
    ASSUME NEW p \in Files, NEW k \in Nat, k < p.blocks
    PROVE  Data(k) \in Word
<1>1. PICK q \in Nat : q = Entries * Entries
  BY Constants
<1>2. p.blocks \in 1 .. (q - 1)
  BY <1>1, TaskAssumption
<1>3. k + 1 \in 0 .. (q - 1)
  BY <1>2
<1> QED
  BY <1>1, <1>3 DEF Data, Word

-----------------------------------------------------------------------------
(* The loader's steps and their types *)

(* A frame the loader takes was free, or is frame 0 when none was.          *)
LEMMA TakenType ==
    ASSUME NEW m \in MachineType
    PROVE  /\ Taken(m) \in Frame /\ (Taken(m) \notin m.used \/ Taken(m) = 0)
           /\ Taking(m) \in MachineType /\ Taking(m).stopped = m.stopped
<1>1. Taken(m) \in Frame /\ (Taken(m) \notin m.used \/ Taken(m) = 0)
  BY FirstFree, Constants DEF Taken
<1> QED
  BY <1>1 DEF Taking, MachineType

(* A write of the kernel's leaves the machine typed,                        *)
LEMMA WriteType ==
    ASSUME NEW m \in MachineType, NEW page, NEW a, NEW b, NEW w \in Word
    PROVE  Write(m, page, a, b, w) \in MachineType
<1> PICK f : f = Pte(m, page).frame
  OBVIOUS
<1> DEFINE words == [i \in 0 .. (Entries - 1) |-> IF i \in a .. b THEN w ELSE m.mem[f][i]]
<1>1. f \in Frame => [m EXCEPT !.mem[f] = words] \in MachineType
  <2>1. f \in Frame => words \in [Cell -> Word]
    <3> SUFFICES ASSUME f \in Frame PROVE words \in [Cell -> Word]
      OBVIOUS
    <3>1. m.mem[f] \in [Cell -> Word]
      BY MachineParts
    <3> QED
      BY <3>1 DEF Cell
  <2> HIDE DEF words
  <2> QED
    BY <2>1 DEF MachineType
<1>2. Write(m, page, a, b, w) \in {m, Stop(m)}
      \/ (f \in Frame /\ Write(m, page, a, b, w) = [m EXCEPT !.mem[f] = words])
  BY DEF Write
<1> HIDE DEF words
<1> QED
  BY <1>1, <1>2, StopType

(* and the loader's mapping does.                                           *)
LEMMA MapType ==
    ASSUME NEW m \in MachineType, NEW page, NEW f \in Frame
    PROVE  Map(m, page, f) \in MachineType
<1>1. Flags = 7
  BY DEF Flags, I86_PTE_PRESENT, I86_PTE_WRITABLE, I86_PTE_USER
<1> QED
  BY <1>1, MapAddrType DEF Map

IsReads(f, m, page, k, n) ==
    f = [i \in 0 .. n |->
            IF i = 0 THEN m
            ELSE volReadFile(f[i - 1], page * BlocksPerPage + i - 1, k + i - 1)]

ReadTurns(turn, m, page, k, n) ==
    /\ turn \in [0 .. n -> MachineType] /\ turn[0] = m /\ Reading(m, page, k, n) = turn[n]
    /\ \A i \in 1 .. n :
          turn[i] = volReadFile(turn[i - 1], page * BlocksPerPage + i - 1, k + i - 1)

(* The reads of n blocks that lie within the file. *)
LEMMA Reads ==
    ASSUME NEW p \in Files, NEW m \in MachineType, NEW page, NEW k \in Nat, NEW n \in Nat,
           n # 0 => k + n <= p.blocks
    PROVE  \E turn : ReadTurns(turn, m, page, k, n)
<1>0. p.blocks \in Nat
  BY FileFacts
<1>1. ASSUME NEW t \in MachineType, NEW i \in 1 .. n, NEW to
      PROVE  volReadFile(t, to, k + i - 1) \in MachineType
  <2>1. k + i - 1 \in Nat /\ k + i - 1 < p.blocks
    BY <1>0
  <2>2. Data(k + i - 1) \in Word
    BY <2>1, DataType
  <2> QED
    BY <2>2, WriteType DEF volReadFile
<1> DEFINE g == [x \in MachineType \X (1 .. n) |->
                   volReadFile(x[1], page * BlocksPerPage + x[2] - 1, k + x[2] - 1)]
<1>2. g \in [MachineType \X (1 .. n) -> MachineType]
  BY <1>1
<1>3. PICK h \in [0 .. n -> MachineType] :
         h[0] = m /\ \A i \in 1 .. n : h[i] = g[<<h[i - 1], i>>]
  <2> HIDE DEF g
  <2>1. LoopBody(MachineType, m, n, g)
    BY <1>2 DEF LoopBody
  <2>2. PICK h : Loop(h, MachineType, m, n, g)
    BY <2>1, LoopExists
  <2> QED
    BY <2>2 DEF Loop
<1>4. IsReads(h, m, page, k, n)
  <2>1. ASSUME NEW i \in 1 .. n
        PROVE  h[i] = volReadFile(h[i - 1], page * BlocksPerPage + i - 1, k + i - 1)
    <3>1. h[i - 1] \in MachineType /\ h[i] = g[<<h[i - 1], i>>]
      <4> HIDE DEF g
      <4> QED
        BY <1>3
    <3>2. g[<<h[i - 1], i>>] = volReadFile(h[i - 1], page * BlocksPerPage + i - 1, k + i - 1)
      BY <3>1
    <3> HIDE DEF g
    <3> QED
      BY <3>1, <3>2
  <2>2. h = [i \in 0 .. n |-> h[i]]
    OBVIOUS
  <2>3. \A i \in 0 .. n :
           h[i] = IF i = 0 THEN m
                  ELSE volReadFile(h[i - 1], page * BlocksPerPage + i - 1, k + i - 1)
    <3> HIDE DEF g
    <3> QED
      BY <1>3, <2>1
  <2> HIDE DEF g
  <2> QED
    BY <2>2, <2>3 DEF IsReads
<1> DEFINE f == CHOOSE f : IsReads(f, m, page, k, n)
<1>5. IsReads(f, m, page, k, n)
  BY <1>4, Zenon
<1>6. Reading(m, page, k, n) = f[n]
  BY Zenon DEF Reading, IsReads
<1> HIDE DEF f, g
<1>7. /\ f[0] = m
      /\ \A i \in 1 .. n :
            f[i] = volReadFile(f[i - 1], page * BlocksPerPage + i - 1, k + i - 1)
  BY <1>5 DEF IsReads
<1>8. \A i \in 0 .. n : f[i] \in MachineType
  <2> DEFINE S == [i \in 0 .. n |-> MachineType]
  <2>1. f[0] \in S[0] /\ \A i \in 1 .. n : f[i - 1] \in S[i - 1] => f[i] \in S[i]
    <3>1. ASSUME NEW i \in 1 .. n, f[i - 1] \in MachineType PROVE f[i] \in MachineType
      <4>1. PICK t \in MachineType : t = f[i - 1]
        BY <3>1
      <4>2. f[i] = volReadFile(t, page * BlocksPerPage + i - 1, k + i - 1)
        BY <1>7, <4>1
      <4> QED
        BY <1>1, <4>2
    <3>2. \A i \in 1 .. n : i \in 0 .. n /\ i - 1 \in 0 .. n
      OBVIOUS
    <3> QED
      BY <1>7, <3>1, <3>2
  <2>2. \A i \in 0 .. n : f[i] \in S[i]
    <3> HIDE DEF S
    <3> QED
      BY <2>1, LoopKeeps
  <2> QED
    BY <2>2
<1>9. f \in [0 .. n -> MachineType]
  BY <1>5, <1>8 DEF IsReads
<1> QED
  BY <1>6, <1>7, <1>9 DEF ReadTurns

(* Reading blocks leaves the machine typed,                                 *)
LEMMA ReadingType ==
    ASSUME NEW p \in Files, NEW m \in MachineType, NEW page, NEW k \in Nat, NEW n \in Nat,
           n # 0 => k + n <= p.blocks
    PROVE  Reading(m, page, k, n) \in MachineType
<1>1. PICK turn : ReadTurns(turn, m, page, k, n)
  BY Reads
<1> QED
  BY <1>1 DEF ReadTurns

(* so does loading the first page,                                          *)
LEMMA LoadFirstType ==
    ASSUME NEW p \in Files, NEW m \in MachineType
    PROVE  LoadFirst(m, p) \in MachineType
<1> DEFINE c == Taken(m)
           cleared == Write(Taking(m), c, 0, Entries - 1, Zero)
           read == Reading(cleared, c, 0, FirstBlocks(p))
<1>1. c \in Frame /\ cleared \in MachineType
  BY TakenType, WriteType, ZeroType
<1>2. read \in MachineType
  <2>1. FirstBlocks(p) \in Nat /\ 0 + FirstBlocks(p) <= p.blocks
    BY FileFacts
  <2> HIDE DEF cleared, c
  <2> QED
    BY <1>1, <2>1, ReadingType
<1>3. LoadFirst(m, p) = Map(read, p.vpage, c)
  BY DEF LoadFirst
<1> HIDE DEF read, c
<1> QED
  BY <1>1, <1>2, <1>3, MapType

(* and a page behind it.                                                    *)
LEMMA LoadPageType ==
    ASSUME NEW p \in Files, NEW m \in MachineType, NEW i \in Nat \ {0}
    PROVE  LoadPage(p, m, i) \in MachineType
<1> DEFINE c == Taken(m)
           k == BlockOfPage(p, i)
           n == Cardinality(BlocksOfPage(p, i))
           read == Reading(Taking(m), c, k, n)
<1>1. c \in Frame /\ Taking(m) \in MachineType
  BY TakenType
<1>2. read \in MachineType
  <2>1. BlocksPerPage \in Nat
    BY TaskAssumption
  <2>2. k \in Nat /\ n \in Nat /\ (n # 0 => k + n <= p.blocks)
    BY <2>1, BlocksFacts
  <2> HIDE DEF k, n, c
  <2> QED
    BY <1>1, <2>2, ReadingType
<1>3. LoadPage(p, m, i) = Map(read, p.vpage + i, c)
  BY DEF LoadPage
<1> HIDE DEF read, c
<1> QED
  BY <1>1, <1>2, <1>3, MapType

IsLoads(f, p) ==
    f = [i \in 0 .. MorePages(p) |->
            IF i = 0 THEN LoadFirst(Machine, p) ELSE LoadPage(p, f[i - 1], i)]

(* The machines of createProcess's loop.                                    *)
LEMMA Loads ==
    ASSUME Machine \in MachineType, NEW p \in Files
    PROVE  \E turn \in [0 .. MorePages(p) -> MachineType] :
              /\ turn[0] = LoadFirst(Machine, p)
              /\ \A i \in 1 .. MorePages(p) : turn[i] = LoadPage(p, turn[i - 1], i)
              /\ createProcess(p) = Map(Taking(turn[MorePages(p)]), StackPage(p),
                                        Taken(turn[MorePages(p)]))
<1>0. PICK n \in Nat : n = MorePages(p)
  BY FileFacts
<1> PICK base \in MachineType : base = LoadFirst(Machine, p)
  BY LoadFirstType
<1> DEFINE g == [x \in MachineType \X (1 .. n) |-> LoadPage(p, x[1], x[2])]
<1>1. \A i \in 1 .. n : i \in Nat \ {0}
  BY <1>0
<1>2. g \in [MachineType \X (1 .. n) -> MachineType]
  BY <1>1, LoadPageType
<1>3. PICK h \in [0 .. n -> MachineType] :
         h[0] = base /\ \A i \in 1 .. n : h[i] = g[<<h[i - 1], i>>]
  <2> HIDE DEF g
  <2>1. LoopBody(MachineType, base, n, g)
    BY <1>2 DEF LoopBody
  <2>2. PICK h : Loop(h, MachineType, base, n, g)
    BY <2>1, LoopExists
  <2> QED
    BY <2>2 DEF Loop
<1>4. IsLoads(h, p)
  <2>1. ASSUME NEW i \in 1 .. n PROVE h[i] = LoadPage(p, h[i - 1], i)
    <3>1. h[i - 1] \in MachineType /\ h[i] = g[<<h[i - 1], i>>]
      <4> HIDE DEF g
      <4> QED
        BY <1>3
    <3>2. g[<<h[i - 1], i>>] = LoadPage(p, h[i - 1], i)
      BY <3>1
    <3> HIDE DEF g
    <3> QED
      BY <3>1, <3>2
  <2>2. h = [i \in 0 .. n |-> h[i]]
    OBVIOUS
  <2>3. \A i \in 0 .. n : h[i] = IF i = 0 THEN base ELSE LoadPage(p, h[i - 1], i)
    <3> HIDE DEF g
    <3> QED
      BY <1>3, <2>1
  <2> HIDE DEF g
  <2> QED
    BY <1>0, <2>2, <2>3 DEF IsLoads
<1> DEFINE f == CHOOSE f : IsLoads(f, p)
<1>5. IsLoads(f, p)
  BY <1>4, Zenon
<1>6. createProcess(p) = Map(Taking(f[MorePages(p)]), StackPage(p), Taken(f[MorePages(p)]))
  BY Zenon DEF createProcess, IsLoads
<1> HIDE DEF f, g
<1>7. f[0] = base /\ \A i \in 1 .. n : f[i] = LoadPage(p, f[i - 1], i)
  BY <1>0, <1>5 DEF IsLoads
<1>8. \A i \in 0 .. n : f[i] \in MachineType
  <2> DEFINE S == [i \in 0 .. n |-> MachineType]
  <2>1. f[0] \in S[0] /\ \A i \in 1 .. n : f[i - 1] \in S[i - 1] => f[i] \in S[i]
    BY <1>1, <1>7, LoadPageType
  <2>2. \A i \in 0 .. n : f[i] \in S[i]
    <3> HIDE DEF S
    <3> QED
      BY <2>1, LoopKeeps
  <2> QED
    BY <2>2
<1>9. f \in [0 .. n -> MachineType]
  BY <1>0, <1>5, <1>8 DEF IsLoads
<1> QED
  BY <1>0, <1>6, <1>7, <1>9

(* createProcess leaves the machine typed.                                  *)
LEMMA ProcessType ==
    ASSUME Machine \in MachineType, NEW p \in Files
    PROVE  createProcess(p) \in MachineType
<1>1. PICK turn \in [0 .. MorePages(p) -> MachineType] :
         createProcess(p) = Map(Taking(turn[MorePages(p)]), StackPage(p),
                                Taken(turn[MorePages(p)]))
  BY Loads
<1>2. turn[MorePages(p)] \in MachineType
  BY <1>1, FileFacts
<1> QED
  BY <1>1, <1>2, TakenType, MapType


-----------------------------------------------------------------------------
(* The loader keeps the address space *)

(* Beyond the first table no table shows physical memory.                   *)
LEMMA FramesUnseen ==
    ASSUME NEW m, NEW d, NEW lo, NEW hi, DirectorySound(m, d, lo, hi), NEW f \in Frame
    PROVE  Unseen(m, d, f)
<1> SUFFICES ASSUME NEW i \in Cell \ {0}, i * Entries <= f PROVE ~ Present(m.mem[d][i])
  BY DEF Unseen
<1>1. PICK ie \in Int : ie = i * Entries
  BY Constants DEF Cell
<1>2. ie < FrameCount
  BY <1>1, Constants DEF Frame
<1>3. i \in InUse(m, d) \ {0} => FrameCount <= ie
  BY <1>1 DEF DirectorySound
<1>4. m.mem[d][i] = Zero
  BY <1>2, <1>3, Constants DEF InUse
<1> QED
  BY <1>4, ZeroType

(* Writing to a plain frame, at the frame's own address, reaches a plain    *)
(* frame.                                                                   *)
LEMMA WriteKeeps ==
    ASSUME NEW m \in MachineType, NEW lo, NEW hi, LoadSound(m, cur_directory, lo, hi),
           NEW c \in Frame, c \in Plain(m, cur_directory), NEW a, NEW b, NEW w \in Word,
           NEW n, n = Write(m, c, a, b, w), ~ n.stopped
    PROVE  /\ ~ m.stopped /\ LoadSound(n, cur_directory, lo, hi)
           /\ Plain(m, cur_directory) \subseteq Plain(n, cur_directory)
           /\ LowIsIdentity(m, lo) => LowIsIdentity(n, lo)
<1> PICK d : d = cur_directory
  OBVIOUS
<1>1. /\ DirectorySound(m, d, lo, hi) /\ HighIsIdentity(m, hi)
      /\ LowIsPlain(m, d, lo) /\ HeapIsPlain(m, d)
  BY DEF LoadSound
<1>2. ~ m.stopped /\ Mapped(m, c)
  <2>1. m.stopped => n = m
    BY DEF Write
  <2>2. ~ m.stopped /\ ~ Mapped(m, c) => n = Stop(m)
    BY DEF Write
  <2> QED
    BY <2>1, <2>2, StopType
<1>3. PICK g : g = Pte(m, c).frame
  OBVIOUS
<1>4. g \in Plain(m, d)
  <2>1. c \in Cell /\ c \div Entries = 0 /\ c % Entries = c
    BY <1>1, <1>2, FramesUnseen, MappedIsLow
  <2>2. Pte(m, c) = m.mem[lo][c]
    <3>1. m.mem[d][0] = [frame |-> lo, flags |-> 3]
      BY <1>1 DEF DirectorySound
    <3> QED
      BY <2>1, <3>1 DEF Pte, Pde
  <2> QED
    BY <1>1, <1>3, <2>1, <2>2 DEF LowIsPlain
<1>5. /\ n.used = m.used
      /\ \A x \in Frame : x # g => n.mem[x] = m.mem[x]
  <2>1. CASE g \notin Frame
    BY <1>2, <1>3, <2>1 DEF Write
  <2>2. CASE g \in Frame
    <3> DEFINE words == [i \in 0 .. (Entries - 1) |-> IF i \in a .. b THEN w ELSE m.mem[g][i]]
    <3>1. n = [m EXCEPT !.mem[g] = words]
      BY <1>2, <1>3, <2>2 DEF Write
    <3> HIDE DEF words
    <3> QED
      BY <3>1 DEF MachineType
  <2> QED
    BY <2>1, <2>2
<1>6. /\ {d, lo, hi} \subseteq Frame \ {g}
      /\ \A i \in InUse(m, d) : m.mem[d][i].frame \in Frame \ {g}
  <2>1. \A i \in InUse(m, d) : m.mem[d][i].frame \in m.used /\ m.mem[d][i].frame \in TablesIn(m, d)
    BY <1>1, TableFacts DEF TablesIn
  <2>2. {0, KernelIndex} \subseteq InUse(m, d)
    BY <1>1, Constants DEF DirectorySound, InUse, Zero
  <2>3. m.mem[d][0].frame = lo /\ m.mem[d][KernelIndex].frame = hi
    BY <1>1 DEF DirectorySound
  <2>4. d \in Frame /\ m.used \subseteq Frame
    BY <1>1, MachineParts DEF DirectorySound
  <2> QED
    BY <1>4, <2>1, <2>2, <2>3, <2>4 DEF Plain
<1>7. n.mem[d] = m.mem[d] /\ n.mem[lo] = m.mem[lo] /\ n.mem[hi] = m.mem[hi]
  BY <1>5, <1>6
<1>8. /\ DirectorySound(n, d, lo, hi)
      /\ InUse(n, d) = InUse(m, d) /\ TablesIn(n, d) = TablesIn(m, d)
      /\ Plain(m, d) \subseteq Plain(n, d)
  <2>1. n.mem[d] = m.mem[d] /\ m.used \subseteq n.used
    BY <1>5, <1>7
  <2> QED
    BY ONLY <1>1, <2>1, DirectoryKept
<1>9. HighIsIdentity(n, hi) /\ LowIsPlain(n, d, lo)
  BY <1>1, <1>7, <1>8 DEF HighIsIdentity, LowIsPlain
<1>10. LowIsIdentity(m, lo) => LowIsIdentity(n, lo)
  BY <1>7 DEF LowIsIdentity
<1>11. HeapIsPlain(n, d)
  <2> SUFFICES ASSUME NEW k \in InUse(n, d), k >= HeapIndex, NEW y \in Cell,
                      Present(n.mem[n.mem[d][k].frame][y])
               PROVE  n.mem[n.mem[d][k].frame][y].frame \in Plain(n, d)
    BY DEF HeapIsPlain
  <2>1. PICK x \in Frame \ {g} : x = m.mem[d][k].frame /\ n.mem[d][k].frame = x
    BY <1>6, <1>7, <1>8
  <2>2. n.mem[x] = m.mem[x] /\ k \in InUse(m, d)
    BY <1>5, <1>8
  <2>3. Present(m.mem[x][y]) => m.mem[x][y].frame \in Plain(m, d)
    BY <1>1, <2>1, <2>2 DEF HeapIsPlain
  <2> QED
    BY <1>8, <2>1, <2>2, <2>3
<1> QED
  BY <1>2, <1>8, <1>9, <1>10, <1>11 DEF LoadSound

(* The machine while p is loaded; low pages may be remapped only by a       *)
(* program linked there.                                                    *)
Loading(m, lo, hi, p) ==
    /\ LoadSound(m, cur_directory, lo, hi)
    /\ p.vpage >= Entries => LowIsIdentity(m, lo)

(* The frame c taken for a page of p. *)
Holding(m, lo, hi, p, c) == Loading(m, lo, hi, p) /\ c \in Plain(m, cur_directory)

(* The frame taken for a page is plain, and the tables stay sound.          *)
LEMMA TakingKeeps ==
    ASSUME NEW m \in MachineType, NEW lo, NEW hi, NEW p, Loading(m, lo, hi, p)
    PROVE  Holding(Taking(m), lo, hi, p, Taken(m))
<1> PICK d : d = cur_directory
  OBVIOUS
<1>1. PICK f \in Frame : f = Taken(m) /\ (f \notin m.used \/ f = 0)
  BY TakenType
<1>2. PICK n : n = Taking(m) /\ n = [m EXCEPT !.used = @ \cup {f}]
  BY <1>1 DEF Taking
<1>3. LoadSound(m, d, lo, hi)
  BY DEF Loading
<1>4. LoadSound(n, d, lo, hi) /\ f \in Plain(n, d) /\ (LowIsIdentity(m, lo) => LowIsIdentity(n, lo))
  BY ONLY <1>1, <1>2, <1>3, m \in MachineType, TakeKeeps
<1> QED
  BY <1>1, <1>2, <1>4 DEF Holding, Loading

(* The blocks read into one frame. *)
LEMMA ReadingKeeps ==
    ASSUME NEW p \in Files, NEW m \in MachineType, NEW lo, NEW hi, NEW c \in Frame,
           NEW k \in Nat, NEW n \in Nat, n # 0 => k + n <= p.blocks, n <= BlocksPerPage,
           m.stopped \/ Holding(m, lo, hi, p, c)
    PROVE  Reading(m, c, k, n).stopped \/ Holding(Reading(m, c, k, n), lo, hi, p, c)
<1>0. BlocksPerPage \in Nat \ {0} /\ c \in Nat /\ p.blocks \in Nat
  BY TaskAssumption, FileFacts, Constants
<1>1. PICK turn : ReadTurns(turn, m, c, k, n)
  BY Reads
<1>2. /\ turn \in [0 .. n -> MachineType] /\ turn[0] = m /\ Reading(m, c, k, n) = turn[n]
      /\ \A i \in 1 .. n :
            turn[i] = volReadFile(turn[i - 1], c * BlocksPerPage + i - 1, k + i - 1)
  BY <1>1 DEF ReadTurns
<1> DEFINE S == [i \in 0 .. n |-> { t \in MachineType : t.stopped \/ Holding(t, lo, hi, p, c) }]
<1>3. turn[0] \in S[0]
  BY <1>2
<1>4. ASSUME NEW i \in 1 .. n, turn[i - 1] \in S[i - 1] PROVE turn[i] \in S[i]
  <2>1. PICK t \in MachineType : t = turn[i - 1] /\ (t.stopped \/ Holding(t, lo, hi, p, c))
    BY <1>4
  <2>2. PICK u \in MachineType :
           u = turn[i] /\ u = volReadFile(t, c * BlocksPerPage + i - 1, k + i - 1)
    BY <1>2, <2>1
  <2>3. PICK r \in 0 .. (BlocksPerPage - 1) : r = i - 1
    BY <1>0
  <2>4. (c * BlocksPerPage + i - 1) \div BlocksPerPage = c
    <3>1. (c * BlocksPerPage + r) \div BlocksPerPage = c
      BY <1>0, DivExact
    <3>2. PICK x \in Int : x = c * BlocksPerPage
      BY <1>0
    <3>3. x + i - 1 = x + r
      BY <2>3
    <3> QED
      BY <3>1, <3>2, <3>3
  <2>5. PICK a, b : u = Write(t, c, a, b, Data(k + i - 1))
    BY <2>2, <2>4 DEF volReadFile
  <2>6. Data(k + i - 1) \in Word
    <3>1. k + i - 1 \in Nat /\ k + i - 1 < p.blocks
      BY <1>0
    <3> QED
      BY <3>1, DataType
  <2>7. CASE u.stopped
    BY <2>2, <2>7
  <2>8. CASE ~ u.stopped
    <3>1. ~ t.stopped
      BY <2>5, <2>8 DEF Write
    <3>2. LoadSound(t, cur_directory, lo, hi) /\ c \in Plain(t, cur_directory)
      BY <2>1, <3>1 DEF Holding, Loading
    <3>3. /\ LoadSound(u, cur_directory, lo, hi)
          /\ Plain(t, cur_directory) \subseteq Plain(u, cur_directory)
          /\ LowIsIdentity(t, lo) => LowIsIdentity(u, lo)
      BY <2>5, <2>6, <2>8, <3>2, WriteKeeps
    <3>4. Holding(u, lo, hi, p, c)
      BY <2>1, <3>1, <3>2, <3>3 DEF Holding, Loading
    <3> QED
      BY <2>2, <3>4
  <2> QED
    BY <2>7, <2>8
<1>5. \A i \in 0 .. n : turn[i] \in S[i]
  <2> HIDE DEF S
  <2> QED
    BY <1>3, <1>4, LoopKeeps
<1> QED
  BY <1>2, <1>5

(* A page of a program that is linked apart from physical memory. *)
ProgramPage(p, page) ==
    page \in Nat /\ p.vpage <= page /\ page < KernelIndex * Entries /\ Apart(page)

(* Such a page lies within the directory's reach and below the kernel.      *)
LEMMA ProgramPageFacts ==
    ASSUME NEW p \in Files, NEW page, ProgramPage(p, page)
    PROVE  /\ page \in 0 .. (Entries * Entries - 1)
           /\ page \div Entries < KernelIndex
<1>1. Entries \in Nat \ {0} /\ KernelIndex \in Nat /\ KernelIndex <= Entries - 1 /\ page \in Nat
  BY Constants DEF Cell, ProgramPage
<1>2. PICK q \in Nat, k \in Nat : q = Entries * Entries /\ k = KernelIndex * Entries
  BY <1>1
<1>3. page < k /\ k <= q
  <2>1. KernelIndex * Entries <= Entries * Entries
    BY <1>1, MulMono
  <2> QED
    BY <1>2, <2>1 DEF ProgramPage
<1>4. page \in 0 .. (q - 1)
  BY <1>1, <1>3
<1>5. PICK a \in Nat, r \in Nat : a = page \div Entries /\ page = a * Entries + r
  <2>1. /\ page \div Entries \in Nat /\ page % Entries \in 0 .. (Entries - 1)
        /\ page = (page \div Entries) * Entries + (page % Entries)
    BY <1>1, DivModNat
  <2>2. page % Entries \in Nat
    BY ONLY <1>1, <2>1
  <2> QED
    BY <2>1, <2>2
<1>6. a < KernelIndex
  <2> SUFFICES ASSUME KernelIndex <= a PROVE FALSE
    BY <1>1
  <2>1. k <= a * Entries
    BY <1>1, <1>2, MulMono
  <2>2. PICK x \in Nat : x = a * Entries
    BY <1>1
  <2> QED
    BY <1>3, <1>5, <2>1, <2>2
<1> QED
  BY <1>2, <1>4, <1>5, <1>6

(* The page may be mapped to a frame that holds no table. *)
LEMMA ProgramCallable ==
    ASSUME NEW p \in Files, NEW m \in MachineType, NEW lo, NEW hi, NEW page, NEW c \in Frame,
           ProgramPage(p, page), LoadSound(m, cur_directory, lo, hi), c \in Plain(m, cur_directory)
    PROVE  Callable(m, lo, hi, page, c, 7) /\ Harmless(m, page, c, 7)
<1>1. page \in 0 .. (Entries * Entries - 1) /\ page \div Entries < KernelIndex /\ page \in Nat
  BY ProgramPageFacts DEF ProgramPage
<1>2. Callable(m, lo, hi, page, c, 7)
  <2>1. DirectorySound(m, cur_directory, lo, hi) /\ cur_directory \in Frame
    BY DEF LoadSound, DirectorySound
  <2> QED
    BY <1>1, <2>1 DEF Callable, ProgramPage
<1>3. Harmless(m, page, c, 7)
  <2>1. page \div Entries \in Int /\ KernelIndex \in Int /\ HeapIndex \in Int
        /\ KernelIndex < HeapIndex
    BY <1>1, Constants, PagePlace DEF Cell
  <2>2. page \div Entries # KernelIndex /\ ~ (page \div Entries >= HeapIndex)
    BY <1>1, <2>1
  <2> QED
    BY <2>2 DEF Harmless
<1> QED
  BY <1>2, <1>3

(* What Map does on a machine that runs. *)
LEMMA MapRuns ==
    ASSUME NEW m, NEW page, NEW c, NEW n, n = Map(m, page, c), ~ n.stopped
    PROVE  ~ m.stopped /\ n = vmm_mapPhysicalAddr(m, page, c, 7)
<1>1. Flags = 7
  BY DEF Flags, I86_PTE_PRESENT, I86_PTE_WRITABLE, I86_PTE_USER
<1>2. ~ m.stopped
  BY DEF Map
<1> QED
  BY <1>1, <1>2 DEF Map

(* Mapping one of its pages. *)
LEMMA ProgramMapKeeps ==
    ASSUME NEW p \in Files, NEW m \in MachineType, NEW lo, NEW hi, NEW page, NEW c \in Frame,
           ProgramPage(p, page), m.stopped \/ Holding(m, lo, hi, p, c),
           NEW n, n = Map(m, page, c)
    PROVE  n.stopped \/ Loading(n, lo, hi, p)
<1> SUFFICES ASSUME ~ n.stopped PROVE Loading(n, lo, hi, p)
  OBVIOUS
<1>1. ~ m.stopped /\ n = vmm_mapPhysicalAddr(m, page, c, 7)
  BY MapRuns
<1>2. LoadSound(m, cur_directory, lo, hi) /\ c \in Plain(m, cur_directory)
      /\ (p.vpage >= Entries => LowIsIdentity(m, lo))
  BY <1>1 DEF Holding, Loading
<1>3. Callable(m, lo, hi, page, c, 7) /\ Harmless(m, page, c, 7)
  BY <1>2, ProgramCallable
<1>4. /\ LoadSound(n, cur_directory, lo, hi)
      /\ LowIsIdentity(m, lo) /\ page >= Entries => LowIsIdentity(n, lo)
  BY ONLY <1>1, <1>2, <1>3, ~ n.stopped, MapKeeps
<1>5. p.vpage >= Entries => page >= Entries
  BY FileFacts, Constants DEF ProgramPage
<1> QED
  BY <1>2, <1>4, <1>5 DEF Loading

(* Zeroing a frame and reading n blocks into it. *)
LEMMA FillKeeps ==
    ASSUME NEW p \in Files, NEW m \in MachineType, NEW lo, NEW hi, NEW c \in Frame,
           m.stopped \/ Holding(m, lo, hi, p, c), NEW a, NEW b, NEW w \in Word,
           NEW n, n = Write(m, c, a, b, w)
    PROVE  n \in MachineType /\ (n.stopped \/ Holding(n, lo, hi, p, c))
<1>1. n \in MachineType
  BY WriteType
<1> SUFFICES ASSUME ~ n.stopped PROVE Holding(n, lo, hi, p, c)
  BY <1>1
<1>2. ~ m.stopped
  BY DEF Write
<1>3. LoadSound(m, cur_directory, lo, hi) /\ c \in Plain(m, cur_directory)
  BY <1>2 DEF Holding, Loading
<1>4. /\ LoadSound(n, cur_directory, lo, hi)
      /\ Plain(m, cur_directory) \subseteq Plain(n, cur_directory)
      /\ LowIsIdentity(m, lo) => LowIsIdentity(n, lo)
  BY <1>3, WriteKeeps
<1> QED
  BY <1>2, <1>3, <1>4 DEF Holding, Loading

(* A frame taken for the program; a stopped machine stays stopped. *)
LEMMA TakingStep ==
    ASSUME NEW m \in MachineType, NEW lo, NEW hi, NEW p, m.stopped \/ Loading(m, lo, hi, p),
           NEW n, n = Taking(m), NEW c, c = Taken(m)
    PROVE  n \in MachineType /\ c \in Frame /\ (n.stopped \/ Holding(n, lo, hi, p, c))
<1>1. n \in MachineType /\ c \in Frame /\ n.stopped = m.stopped
  BY TakenType
<1>2. ~ m.stopped => Holding(n, lo, hi, p, c)
  BY TakingKeeps
<1> QED
  BY <1>1, <1>2

(* Loading the first page keeps the tables sound, if its blocks fit a frame, *)
LEMMA LoadFirstKeeps ==
    ASSUME NEW p \in Files, FitsFirstFrame(p), ProgramPage(p, p.vpage),
           NEW m \in MachineType, NEW lo, NEW hi, m.stopped \/ Loading(m, lo, hi, p)
    PROVE  LoadFirst(m, p).stopped \/ Loading(LoadFirst(m, p), lo, hi, p)
<1> PICK c : c = Taken(m)
  OBVIOUS
<1> PICK t : t = Taking(m)
  OBVIOUS
<1> PICK z : z = Write(t, c, 0, Entries - 1, Zero)
  OBVIOUS
<1> PICK k : k = FirstBlocks(p)
  OBVIOUS
<1> PICK r : r = Reading(z, c, 0, k)
  OBVIOUS
<1>1. t \in MachineType /\ c \in Frame /\ (t.stopped \/ Holding(t, lo, hi, p, c))
  BY TakingStep
<1>2. z \in MachineType /\ (z.stopped \/ Holding(z, lo, hi, p, c))
  BY <1>1, ZeroType, FillKeeps
<1>3. k \in Nat /\ 0 + k <= p.blocks /\ k <= BlocksPerPage
  BY FileFacts DEF FitsFirstFrame
<1>4. r \in MachineType
  BY <1>1, <1>2, <1>3, ReadingType
<1>5. r.stopped \/ Holding(r, lo, hi, p, c)
  BY <1>1, <1>2, <1>3, ReadingKeeps
<1>6. LoadFirst(m, p) = Map(r, p.vpage, c)
  BY DEF LoadFirst
<1> QED
  BY <1>1, <1>4, <1>5, <1>6, ProgramMapKeeps

(* and loading one behind it does.                                          *)
LEMMA LoadPageKeeps ==
    ASSUME NEW p \in Files, NEW i \in Nat \ {0}, ProgramPage(p, p.vpage + i),
           NEW m \in MachineType, NEW lo, NEW hi, m.stopped \/ Loading(m, lo, hi, p)
    PROVE  LoadPage(p, m, i).stopped \/ Loading(LoadPage(p, m, i), lo, hi, p)
<1> PICK c : c = Taken(m)
  OBVIOUS
<1> PICK t : t = Taking(m)
  OBVIOUS
<1> PICK k : k = BlockOfPage(p, i)
  OBVIOUS
<1> PICK n : n = Cardinality(BlocksOfPage(p, i))
  OBVIOUS
<1> PICK r : r = Reading(t, c, k, n)
  OBVIOUS
<1>1. t \in MachineType /\ c \in Frame /\ (t.stopped \/ Holding(t, lo, hi, p, c))
  BY TakingStep
<1>2. k \in Nat /\ n \in Nat /\ n <= BlocksPerPage /\ (n # 0 => k + n <= p.blocks)
  BY BlocksFacts, TaskAssumption
<1>3. r \in MachineType
  BY <1>1, <1>2, ReadingType
<1>4. r.stopped \/ Holding(r, lo, hi, p, c)
  BY <1>1, <1>2, ReadingKeeps
<1>5. LoadPage(p, m, i) = Map(r, p.vpage + i, c)
  BY DEF LoadPage
<1> QED
  BY <1>1, <1>3, <1>4, <1>5, ProgramMapKeeps

(* The pages of a program that is loaded apart from physical memory. *)
LEMMA PagesOfProgram ==
    ASSUME ProgramsApart, NEW p \in Files
    PROVE  /\ ProgramPage(p, p.vpage) /\ ProgramPage(p, StackPage(p))
           /\ \A i \in 1 .. MorePages(p) : ProgramPage(p, p.vpage + i)
<1>1. p.vpage \in Nat /\ MorePages(p) \in Nat /\ StackPage(p) \in Nat /\ p.vpage <= StackPage(p)
  BY FileFacts
<1>2. \A page \in (p.vpage .. (p.vpage + MorePages(p))) \cup {StackPage(p)} :
          page < KernelIndex * Entries /\ Apart(page)
  BY DEF ProgramsApart
<1>3. \A i \in 0 .. MorePages(p) :
         p.vpage + i \in p.vpage .. (p.vpage + MorePages(p)) /\ p.vpage + i \in Nat
         /\ p.vpage <= p.vpage + i
  BY <1>1
<1>4. p.vpage + 0 = p.vpage /\ 0 \in 0 .. MorePages(p) /\ 1 .. MorePages(p) \subseteq 0 .. MorePages(p)
  BY <1>1
<1> QED
  BY <1>1, <1>2, <1>3, <1>4 DEF ProgramPage

(* createProcess keeps the tables sound, or stops the machine.              *)
LEMMA ProcessKeeps ==
    ASSUME ProgramsApart, Machine \in MachineType, NEW p \in Files, FitsFirstFrame(p),
           NEW lo, NEW hi, Loading(Machine, lo, hi, p)
    PROVE  createProcess(p).stopped \/ Loading(createProcess(p), lo, hi, p)
<1>1. PICK n \in Nat : n = MorePages(p)
  BY FileFacts
<1>2. PICK turn \in [0 .. n -> MachineType] :
         /\ turn[0] = LoadFirst(Machine, p)
         /\ \A i \in 1 .. n : turn[i] = LoadPage(p, turn[i - 1], i)
         /\ createProcess(p) = Map(Taking(turn[n]), StackPage(p), Taken(turn[n]))
  BY <1>1, Loads
<1>3. ProgramPage(p, p.vpage) /\ ProgramPage(p, StackPage(p))
      /\ \A i \in 1 .. n : ProgramPage(p, p.vpage + i)
  BY <1>1, PagesOfProgram
<1> DEFINE S == [i \in 0 .. n |-> { t \in MachineType : t.stopped \/ Loading(t, lo, hi, p) }]
<1>4. turn[0] \in S[0]
  BY <1>2, <1>3, LoadFirstKeeps
<1>5. ASSUME NEW i \in 1 .. n, turn[i - 1] \in S[i - 1] PROVE turn[i] \in S[i]
  <2>1. PICK t \in MachineType : t = turn[i - 1] /\ (t.stopped \/ Loading(t, lo, hi, p))
    BY <1>5
  <2>2. PICK u \in MachineType : u = turn[i] /\ u = LoadPage(p, t, i)
    BY <1>2, <2>1
  <2>3. u.stopped \/ Loading(u, lo, hi, p)
    BY <1>3, <2>1, <2>2, LoadPageKeeps
  <2> QED
    BY <2>2, <2>3
<1>6. \A i \in 0 .. n : turn[i] \in S[i]
  <2> HIDE DEF S
  <2> QED
    BY <1>4, <1>5, LoopKeeps
<1>7. PICK t \in MachineType : t = turn[n] /\ (t.stopped \/ Loading(t, lo, hi, p))
  BY <1>6
<1>8. PICK x \in MachineType, c \in Frame :
         x = Taking(t) /\ c = Taken(t) /\ (x.stopped \/ Holding(x, lo, hi, p, c))
  BY <1>7, TakingStep
<1>9. createProcess(p) = Map(x, StackPage(p), c)
  BY <1>2, <1>7, <1>8
<1> QED
  BY <1>3, <1>8, <1>9, ProgramMapKeeps

-----------------------------------------------------------------------------
(* Every step *)

(* cmd_exec keeps the invariant.                                            *)
LEMMA ExecStep ==
    ASSUME ProgramsApart, SpaceInv, NEW p \in Files, cmd_exec(p)
    PROVE  SpaceInv'
<1> PICK n : n = createProcess(p)
  OBVIOUS
<1>1. /\ Running /\ user = <<>> /\ Becomes(n)
      /\ user' = (IF n.stopped THEN <<>> ELSE executeProcess(p))
      /\ cur_directory' = cur_directory /\ granted' = granted
  BY DEF cmd_exec
<1>2. KernelInv /\ TypeOK
  BY <1>1 DEF SpaceInv, KernelInv
<1>3. Machine \in MachineType /\ cur_directory \in Frame
  BY <1>2, TypedMachine
<1>4. n \in MachineType
  BY <1>3, ProcessType
<1>5. Machine' = n /\ stopped' = n.stopped
  BY <1>1, <1>4, BecomesMachine
<1>6. TypeOK'
  <2>1. Machine'.mem = mem' /\ Machine'.used = used' /\ Machine'.stopped = stopped'
    BY DEF Machine
  <2> QED
    BY <1>1, <1>2, <1>4, <1>5, <2>1 DEF TypeOK, MachineType, Cell
<1>7. executeProcess(p) # <<>> /\ executeProcess(p)[1] = p
  BY DEF executeProcess
<1>8. CASE n.stopped
  <2>1. user' = <<>> /\ ~ Running'
    BY <1>1, <1>5, <1>8 DEF Running
  <2>2. cur_directory' # 0 /\ RunsFit'
    BY <1>1, <1>2 DEF Running, KernelInv, RunsFit
  <2> QED
    BY <1>6, <2>1, <2>2 DEF SpaceInv, TaskTypeOK, KernelInv
<1>9. CASE ~ n.stopped
  <2>1. user' = executeProcess(p)
    BY <1>1, <1>9
  <2>2. FitsFirstFrame(p) => \E lo, hi \in Frame : Loading(n, lo, hi, p)
    <3> SUFFICES ASSUME FitsFirstFrame(p) PROVE \E lo, hi \in Frame : Loading(n, lo, hi, p)
      OBVIOUS
    <3>1. PICK lo \in Frame, hi \in Frame : ShellSound(Machine, cur_directory, lo, hi)
      BY <1>1, <1>2 DEF KernelInv
    <3>2. LoadSound(Machine, cur_directory, lo, hi) /\ LowIsIdentity(Machine, lo)
      BY <3>1, ShellParts
    <3>3. Loading(Machine, lo, hi, p)
      BY <3>2 DEF Loading
    <3> QED
      BY <1>3, <1>9, <3>3, ProcessKeeps
  <2>3. ProgramInv'
    <3> SUFFICES ASSUME FitsFirstFrame(p)
                 PROVE  \E lo, hi \in Frame : /\ LoadSound(Machine', cur_directory', lo, hi)
                                              /\ p.vpage >= Entries => LowIsIdentity(Machine', lo)
      BY <1>7, <2>1 DEF ProgramInv
    <3> QED
      BY <1>1, <1>5, <2>2 DEF Loading
  <2>4. TaskTypeOK'
    BY <1>6, <2>1 DEF TaskTypeOK
  <2> QED
    BY <1>7, <2>1, <2>3, <2>4 DEF SpaceInv
<1> QED
  BY <1>8, <1>9

(* The invariant holds initially,                                           *)
LEMMA SpaceInit == TaskInit => SpaceInv
<1>1. TaskInit => KernelInv /\ user = <<>>
  BY KernelInit DEF TaskInit
<1> QED
  BY <1>1 DEF SpaceInv, TaskTypeOK, KernelInv

(* and every step keeps it.                                                 *)
LEMMA SpaceNext ==
    ASSUME MemoryBelowKernel, ProgramsApart, SpaceInv, [TaskNext]_taskVars
    PROVE  SpaceInv'
<1>1. ASSUME KernelStep PROVE SpaceInv'
  <2>1. KernelInv'
    BY <1>1, KernelNext DEF KernelStep, SpaceInv
  <2>2. user' = <<>>
    BY <1>1 DEF KernelStep
  <2> QED
    BY <2>1, <2>2 DEF SpaceInv, TaskTypeOK, KernelInv
<1>2. ASSUME NEW p \in Files, cmd_exec(p) PROVE SpaceInv'
  BY <1>2, ExecStep
<1>3. ASSUME UNCHANGED taskVars PROVE SpaceInv'
  <2>1. /\ mem' = mem /\ used' = used /\ stopped' = stopped
        /\ cur_directory' = cur_directory /\ granted' = granted /\ user' = user
    BY <1>3 DEF taskVars
  <2>2. Machine' = Machine /\ Running' = Running
    BY <2>1 DEF Machine, Running
  <2>3. TypeOK' = TypeOK /\ RunsFit' = RunsFit
    BY <2>1 DEF TypeOK, RunsFit
  <2>4. KernelInv' = KernelInv
    BY <2>1, <2>2, <2>3 DEF KernelInv
  <2>5. ProgramInv' = ProgramInv
    BY <2>1, <2>2 DEF ProgramInv
  <2>6. TaskTypeOK' = TaskTypeOK
    BY <2>1, <2>3 DEF TaskTypeOK
  <2> QED
    BY <2>1, <2>4, <2>5, <2>6 DEF SpaceInv
<1> QED
  BY <1>1, <1>2, <1>3 DEF TaskNext, cmd_exec_fails

(* The invariant is more than TablesStaySound says. *)
LEMMA TablesFollow ==
    ASSUME MemoryBelowKernel, SpaceInv
    PROVE  TablesStaySound
<1> SUFFICES ASSUME user = <<>> \/ FitsFirstFrame(user[1]), Running
             PROVE  TablesAreSound
  BY DEF TablesStaySound, TablesAreSound
<1>1. TypeOK
  BY DEF SpaceInv, TaskTypeOK
<1>2. PICK lo \in Frame, hi \in Frame : LoadSound(Machine, cur_directory, lo, hi)
  BY ShellParts DEF SpaceInv, KernelInv, ProgramInv
<1> QED
  BY <1>1, <1>2, SoundTables DEF LoadSound

(* What a grant is made of, said of one step. *)
GrantedFresh(run) ==
    /\ \A page \in PagesOf(run) :
          /\ ~ Mapped(Machine, page)
          /\ Mapped(Machine, page)'
          /\ Pte(Machine, page).frame' \notin used \cup TableFrames'
    /\ \A page, other \in PagesOf(run) :
          page # other => Pte(Machine, page).frame' # Pte(Machine, other).frame'

LEMMA AllocGrants ==
    ASSUME MemoryBelowKernel, KernelInv, user' = <<>>,
           TablesStaySound', NEW n \in 1 .. MaxPages, liballoc_alloc(n),
           NEW run \in granted' \ granted, used' # Frame
    PROVE  GrantedFresh(run)
<1> PICK first : first = find_free_contiguous_pages(n)
  OBVIOUS
<1> PICK turn : turn = AfterTurns(first, n)
  OBVIOUS
<1>1. /\ Running /\ HasRoom(n) /\ Becomes(turn[n]) /\ cur_directory' = cur_directory
      /\ granted' = IF turn[n].stopped THEN granted ELSE granted \cup {<<first, n>>}
  BY DEF liballoc_alloc
<1>2. ~ turn[n].stopped /\ run = <<first, n>>
  BY <1>1
<1>3. Machine \in MachineType /\ cur_directory # 0 /\ ~ stopped
  BY <1>1, TypedMachine DEF KernelInv, Running
<1>4. n \in Nat \ {0}
  BY HookAssumption
<1>5. PICK lo \in Frame, hi \in Frame :
         ShellSound(Machine, cur_directory, lo, hi) /\ HeapSmall(Machine, cur_directory)
  BY <1>1 DEF KernelInv
<1>6. PICK m \in MachineType : m = turn[n]
  <2>1. turn \in [0 .. n -> MachineType]
    BY <1>3, <1>4, Turns
  <2> QED
    BY <1>4, <2>1
<1>7. Machine' = m /\ stopped' = m.stopped
  BY <1>1, <1>6, BecomesMachine
<1>8. m.used = used' /\ m.used \subseteq Frame
  BY <1>1, <1>6, MachineParts DEF Becomes
<1>9. Fresh(m, first, n)
  <2>1. FreeFrames(m) # {}
    BY <1>8 DEF FreeFrames
  <2>2. turn[n].stopped \/ FreeFrames(turn[n]) = {} \/ Fresh(turn[n], first, n)
    BY <1>1, <1>3, <1>4, <1>5, TurnsFresh
  <2> QED
    BY <1>2, <1>6, <2>1, <2>2
<1>10. PagesOf(run) = first .. (first + n - 1)
  BY <1>2 DEF PagesOf
<1>11. \A q \in PagesOf(run) : q \in HeapPage /\ PageFree(q)
  BY <1>1, <1>4, <1>10, FirstRun
<1>12. \A q : (Mapped(Machine, q)' <=> Mapped(m, q)) /\ Pte(Machine, q)' = Pte(m, q)
  BY <1>1, <1>7 DEF Mapped, Pde, Pte
<1>13. \A q \in PagesOf(run) : Mapped(m, q) /\ Pte(m, q).frame \notin used
  BY <1>9, <1>10 DEF Fresh
<1>14. ASSUME NEW q \in PagesOf(run) PROVE ~ Mapped(Machine, q)
  BY <1>11, ZeroType DEF PageFree, Mapped
<1>15. ASSUME NEW q \in PagesOf(run) PROVE Pte(Machine, q).frame' \notin TableFrames'
  <2>1. TablesAreSound'
    BY DEF TablesStaySound
  <2>2. Running'
    BY <1>1, <1>2, <1>6, <1>7 DEF Running
  <2>3. run \in granted' /\ q \in HeapPage /\ Mapped(Machine, q)'
    BY <1>11, <1>12, <1>13
  <2> QED
    BY <2>1, <2>2, <2>3 DEF TablesAreSound
<1>16. ASSUME NEW q \in PagesOf(run), NEW o \in PagesOf(run), q # o
       PROVE  Pte(Machine, q).frame' # Pte(Machine, o).frame'
  <2>1. Pte(m, q).frame # Pte(m, o).frame
    BY <1>9, <1>10, <1>16 DEF Fresh
  <2> QED
    BY <1>12, <2>1
<1> QED
  BY <1>12, <1>13, <1>14, <1>15, <1>16 DEF GrantedFresh

-----------------------------------------------------------------------------
(* What the loader leaves *)

(* A frame the pool had when the loader began, which holds no table.  The   *)
(* frames below it are in use, so that no memset for a table reaches it.    *)
OfProgram(m, f) ==
    f \in Plain(m, cur_directory) \ used /\ 0 .. f \subseteq m.used

(* The pages of S map frames of their own, every other page what it mapped. *)
Loaded(m, lo, hi, p, S) ==
    /\ ~ m.stopped /\ Loading(m, lo, hi, p) /\ Guarded(m, cur_directory) /\ used \subseteq m.used
    /\ \A q \in S : Mapped(m, q) /\ OfProgram(m, Pte(m, q).frame)
    /\ \A q, o \in S : q # o => Pte(m, q).frame # Pte(m, o).frame
    /\ \A q \in PageSpace \ S : Mapped(Machine, q) => Same(Machine, m, q)

(* The frame for the next page: none of S has it, and if the kernel can     *)
(* write at its address, it writes to this frame.                           *)
Own(m, S, c) == OfProgram(m, c) /\ \A q \in S : Pte(m, q).frame # c
Shown(m, c) == Mapped(m, c) => Pte(m, c).frame = c

Words(m, q) == m.mem[Pte(m, q).frame]

(* Loading begins with no page. *)
LEMMA NoneLoaded ==
    ASSUME NEW lo, NEW hi, NEW p, ~ stopped, Loading(Machine, lo, hi, p),
           Guarded(Machine, cur_directory)
    PROVE  Loaded(Machine, lo, hi, p, {})
<1>1. Machine.used = used /\ Machine.stopped = stopped
  BY DEF Machine
<1> QED
  BY <1>1 DEF Loaded, Same

(* When tables and the rest of the address space stay, so does what is      *)
(* loaded.                                                                  *)
LEMMA LoadedKept ==
    ASSUME NEW m, NEW lo, NEW hi, NEW p, NEW S \in SUBSET PageSpace, NEW c,
           Loaded(m, lo, hi, p, S), Own(m, S, c),
           NEW n, ~ n.stopped, Loading(n, lo, hi, p), Guarded(n, cur_directory),
           m.used \subseteq n.used, Plain(m, cur_directory) \subseteq Plain(n, cur_directory),
           \A q \in PageSpace : Mapped(m, q) => Same(m, n, q)
    PROVE  Loaded(n, lo, hi, p, S) /\ Own(n, S, c)
<1>1. \A f : OfProgram(m, f) => OfProgram(n, f)
  BY DEF OfProgram
<1>2. \A q \in S : Mapped(n, q) /\ Pte(n, q).frame = Pte(m, q).frame
  BY DEF Loaded, Same
<1>3. \A q \in PageSpace \ S : Mapped(Machine, q) => Same(Machine, n, q)
  BY DEF Loaded, Same
<1>4. Own(n, S, c)
  BY <1>1, <1>2 DEF Own
<1>5. /\ \A q \in S : Mapped(n, q) /\ OfProgram(n, Pte(n, q).frame)
      /\ \A q, o \in S : q # o => Pte(n, q).frame # Pte(n, o).frame
  BY <1>1, <1>2 DEF Loaded
<1> QED
  BY <1>3, <1>4, <1>5 DEF Loaded

(* Taking a frame gives the program one of its own. *)
LEMMA TakeLoads ==
    ASSUME NEW m \in MachineType, NEW lo, NEW hi, NEW p, NEW S,
           Loaded(m, lo, hi, p, S), FreeFrames(m) # {},
           NEW t, t = Taking(m), NEW c, c = Taken(m)
    PROVE  /\ t \in MachineType /\ c \in Frame /\ Loaded(t, lo, hi, p, S) /\ Own(t, S, c)
           /\ t.mem = m.mem /\ c \notin m.used /\ 0 .. c \subseteq t.used /\ m.used \subseteq t.used
<1> PICK d : d = cur_directory
  OBVIOUS
<1>1. c \in Frame \ m.used /\ \A f \in FreeFrames(m) : c <= f
  BY FirstFree DEF Taken
<1>2. t = [m EXCEPT !.used = @ \cup {c}]
  BY DEF Taking
<1>3. LoadSound(m, d, lo, hi) /\ used \subseteq m.used
  BY DEF Loaded, Loading
<1>4. /\ t \in MachineType /\ t.mem = m.mem /\ t.used = m.used \cup {c}
      /\ t.stopped = m.stopped
      /\ LoadSound(t, d, lo, hi) /\ c \in Plain(t, d)
      /\ Plain(m, d) \subseteq Plain(t, d)
      /\ LowIsIdentity(m, lo) => LowIsIdentity(t, lo)
  BY ONLY <1>1, <1>2, <1>3, m \in MachineType, TakeKeeps
<1>5. 0 .. c \subseteq t.used
  <2>1. c \in Nat /\ \A y \in 0 .. c : y \in Frame
    BY <1>1, Constants DEF Frame
  <2>2. ASSUME NEW y \in 0 .. c, y \notin t.used PROVE FALSE
    BY <1>1, <1>4, <2>1, <2>2 DEF FreeFrames
  <2> QED
    BY <2>2
<1>6. \A q : (Mapped(t, q) <=> Mapped(m, q)) /\ Pte(t, q) = Pte(m, q)
  BY <1>4 DEF Mapped, Pde, Pte
<1>7. Loading(t, lo, hi, p) /\ Guarded(t, d)
  <2>1. Loading(t, lo, hi, p)
    BY <1>4 DEF Loaded, Loading
  <2> QED
    BY <1>4, <2>1 DEF Loaded, Guarded, InUse
<1>8. \A f : OfProgram(m, f) => OfProgram(t, f) /\ f # c
  BY <1>1, <1>4 DEF OfProgram, Plain
<1>9. Own(t, S, c)
  BY <1>1, <1>3, <1>4, <1>5, <1>6, <1>8 DEF Own, OfProgram, Loaded
<1>10. Loaded(t, lo, hi, p, S)
  <2>1. ~ t.stopped /\ used \subseteq t.used
    BY <1>4 DEF Loaded
  <2>2. \A q \in S : Mapped(t, q) /\ OfProgram(t, Pte(t, q).frame)
    BY <1>6, <1>8 DEF Loaded
  <2>3. \A q, o \in S : q # o => Pte(t, q).frame # Pte(t, o).frame
    BY <1>6 DEF Loaded
  <2>4. \A q \in PageSpace \ S : Mapped(Machine, q) => Same(Machine, t, q)
    BY <1>6 DEF Loaded, Same
  <2> QED
    BY <1>7, <2>1, <2>2, <2>3, <2>4 DEF Loaded
<1> QED
  BY <1>1, <1>4, <1>5, <1>9, <1>10

(* A page the program did not take shows the frame at its own address.      *)
LEMMA FrameShown ==
    ASSUME NEW m \in MachineType, NEW lo, NEW hi, NEW p, NEW S, Loaded(m, lo, hi, p, S),
           Machine \in MachineType, DirectorySound(Machine, cur_directory, lo, hi),
           LowIsIdentity(Machine, lo), NEW c \in Frame, c \notin S
    PROVE  Shown(m, c)
<1> SUFFICES ASSUME Mapped(m, c) PROVE Pte(m, c).frame = c
  BY DEF Shown
<1>1. c \in Cell /\ c \div Entries = 0 /\ c % Entries = c
  BY FramesUnseen, MappedIsLow DEF Loaded, Loading, LoadSound
<1>2. Pde(Machine, c) = [frame |-> lo, flags |-> 3] /\ Pte(Machine, c) = Machine.mem[lo][c]
      /\ lo \in Frame
  BY <1>1 DEF DirectorySound, Pde, Pte
<1>3. Mapped(Machine, c) /\ Pte(Machine, c).frame = c
  BY <1>1, <1>2 DEF LowIsIdentity, Mapped, Present
<1>4. c \in PageSpace \ S
  BY Constants DEF PageSpace
<1> QED
  BY <1>3, <1>4 DEF Loaded, Same

(* Words of a frame that holds no table change no page's mapping. *)
LEMMA PlainChange ==
    ASSUME NEW m \in MachineType, NEW lo, NEW hi, DirectorySound(m, cur_directory, lo, hi),
           NEW c, c \in Plain(m, cur_directory),
           NEW n, \A x \in Frame : x # c => n.mem[x] = m.mem[x]
    PROVE  /\ n.mem[cur_directory] = m.mem[cur_directory]
           /\ \A q \in PageSpace : Mapped(m, q) => Same(m, n, q)
<1> PICK d : d = cur_directory
  OBVIOUS
<1>1. n.mem[d] = m.mem[d]
  BY DEF DirectorySound, Plain
<1>2. ASSUME NEW q \in PageSpace, Mapped(m, q) PROVE Same(m, n, q)
  <2>1. PICK k, l, x : WordOf(m, d, q, k, l, x)
    BY <1>2, MappedWord
  <2>2. n.mem[x] = m.mem[x] /\ Present(m.mem[x][l])
    BY <2>1 DEF WordOf, Plain
  <2> QED
    BY <1>1, <2>1, <2>2, WordMapped
<1> QED
  BY <1>1, <1>2

(* A write at the frame's address goes to the frame, and to it only.        *)
LEMMA FillLoads ==
    ASSUME NEW p \in Files, NEW m \in MachineType, NEW lo, NEW hi, NEW S \in SUBSET PageSpace,
           NEW c \in Frame, Loaded(m, lo, hi, p, S), Own(m, S, c), Shown(m, c),
           NEW a, NEW b, NEW w \in Word, NEW n, n = Write(m, c, a, b, w), ~ n.stopped
    PROVE  /\ n \in MachineType /\ Loaded(n, lo, hi, p, S) /\ Own(n, S, c) /\ Shown(n, c)
           /\ n.used = m.used
           /\ n.mem[c] = [i \in Cell |-> IF i \in a .. b THEN w ELSE m.mem[c][i]]
           /\ \A q \in S : Words(n, q) = Words(m, q)
<1> PICK d : d = cur_directory
  OBVIOUS
<1>1. LoadSound(m, d, lo, hi) /\ c \in Plain(m, d) /\ DirectorySound(m, d, lo, hi) /\ ~ m.stopped
  BY DEF Loaded, Loading, Own, OfProgram, LoadSound
<1>2. n \in MachineType
  BY WriteType
<1>3. /\ LoadSound(n, d, lo, hi) /\ Plain(m, d) \subseteq Plain(n, d)
      /\ LowIsIdentity(m, lo) => LowIsIdentity(n, lo)
  BY <1>1, WriteKeeps
<1>4. Mapped(m, c) /\ Pte(m, c).frame = c
  <2>1. ~ Mapped(m, c) => n = Stop(m)
    BY <1>1 DEF Write
  <2> QED
    BY <2>1, StopType DEF Shown
<1> DEFINE words == [i \in Cell |-> IF i \in a .. b THEN w ELSE m.mem[c][i]]
<1>5. n = [m EXCEPT !.mem[c] = words]
  BY <1>1, <1>4 DEF Write, Cell
<1>6. n.used = m.used /\ n.mem[c] = words /\ \A x \in Frame : x # c => n.mem[x] = m.mem[x]
  <2> HIDE DEF words
  <2> QED
    BY <1>5 DEF MachineType
<1> HIDE DEF words
<1>7. n.mem[d] = m.mem[d] /\ \A q \in PageSpace : Mapped(m, q) => Same(m, n, q)
  BY <1>1, <1>6, PlainChange
<1>8. Guarded(n, d) /\ Loading(n, lo, hi, p)
  <2>1. Guarded(n, d)
    BY <1>6, <1>7 DEF Loaded, Guarded, InUse
  <2> QED
    BY <1>3, <2>1 DEF Loaded, Loading
<1>9. Loaded(n, lo, hi, p, S) /\ Own(n, S, c)
  BY <1>3, <1>6, <1>7, <1>8, LoadedKept
<1>10. Shown(n, c)
  <2>1. c \in PageSpace
    BY Constants DEF PageSpace
  <2> QED
    BY <1>4, <1>7, <2>1 DEF Same, Shown
<1>11. ASSUME NEW q \in S PROVE Words(n, q) = Words(m, q)
  <2>1. Pte(n, q).frame = Pte(m, q).frame
    BY <1>7 DEF Loaded, Same
  <2>2. Pte(m, q).frame \in Frame /\ Pte(m, q).frame # c
    BY MachineParts DEF Loaded, OfProgram, Plain, Own
  <2> QED
    BY <1>6, <2>1, <2>2 DEF Words
<1> QED
  BY <1>2, <1>6, <1>9, <1>10, <1>11 DEF words

(* Block `part' of a page's words is block k of the file.                   *)
BlockAt(words, part, k) ==
    \A i \in 0 .. (WordsPerBlock - 1) : words[part * WordsPerBlock + i] = Data(k)

(* A page is a number of blocks.                                            *)
LEMMA BlockFacts ==
    /\ BlocksPerPage \in Nat \ {0} /\ WordsPerBlock \in Nat
    /\ Entries = BlocksPerPage * WordsPerBlock
    /\ \A part \in 0 .. (BlocksPerPage - 1), i \in 0 .. (WordsPerBlock - 1) :
          part * WordsPerBlock + i \in Cell
<1>1. BlocksPerPage \in Nat \ {0} /\ Entries \in Nat \ {0} /\ Entries % BlocksPerPage = 0
  BY TaskAssumption, Constants
<1>2. PICK w \in Nat : w = WordsPerBlock
  BY <1>1, DivModNat DEF WordsPerBlock
<1>3. Entries = w * BlocksPerPage
  BY <1>1, <1>2, DivModNat DEF WordsPerBlock
<1>4. ASSUME NEW part \in 0 .. (BlocksPerPage - 1), NEW i \in 0 .. (w - 1)
      PROVE  part * w + i \in Cell
  <2>1. part \in Nat /\ part <= BlocksPerPage - 1 /\ i \in Nat /\ i <= w - 1
    BY <1>1, <1>2
  <2>2. part * w <= (BlocksPerPage - 1) * w
    BY <1>1, <1>2, <2>1, MulMono
  <2>3. (BlocksPerPage - 1) * w = w * BlocksPerPage - w
    BY <1>1, <1>2
  <2>4. PICK x \in Nat : x = part * w
    BY <1>2, <2>1
  <2>5. x <= Entries - w
    BY <1>3, <2>2, <2>3, <2>4
  <2> QED
    BY <1>1, <1>2, <2>1, <2>4, <2>5 DEF Cell
<1> QED
  BY <1>1, <1>2, <1>3, <1>4

(* The page read into holds the first i blocks, and behind them what it     *)
(* held.                                                                    *)
Read(m, t, lo, hi, p, S, c, k, i) ==
    /\ Loaded(t, lo, hi, p, S) /\ Own(t, S, c) /\ Shown(t, c) /\ t.used = m.used
    /\ \A q \in S : Words(t, q) = Words(m, q)
    /\ \A part \in 0 .. (i - 1) : BlockAt(t.mem[c], part, k + part)
    /\ \A x \in Cell : i * WordsPerBlock <= x => t.mem[c][x] = m.mem[c][x]

LEMMA ReadStep ==
    ASSUME NEW p \in Files, NEW m, NEW lo, NEW hi, NEW S \in SUBSET PageSpace,
           NEW c \in Frame, NEW k \in Nat, NEW i \in 0 .. (BlocksPerPage - 1),
           k + i < p.blocks, NEW t \in MachineType, Read(m, t, lo, hi, p, S, c, k, i),
           NEW u, u = volReadFile(t, c * BlocksPerPage + i, k + i), ~ u.stopped
    PROVE  Read(m, u, lo, hi, p, S, c, k, i + 1)
<1>0. /\ BlocksPerPage \in Nat \ {0} /\ WordsPerBlock \in Nat /\ c \in Nat /\ i \in Nat
      /\ \A part \in 0 .. (BlocksPerPage - 1), x \in 0 .. (WordsPerBlock - 1) :
            part * WordsPerBlock + x \in Cell
  <2>1. c \in Nat
    BY Constants
  <2>2. BlocksPerPage \in Nat \ {0}
    BY BlockFacts
  <2>3. i \in Nat
    BY <2>2
  <2> QED
    BY ONLY <2>1, <2>2, <2>3, BlockFacts
<1> PICK wpb \in Nat : wpb = WordsPerBlock
  BY <1>0
<1>1. PICK a \in Nat : a = i * wpb /\ (i + 1) * wpb = a + wpb
  BY <1>0
<1>2. u = Write(t, c, a, a + wpb - 1, Data(k + i))
  <2>1. (c * BlocksPerPage + i) \div BlocksPerPage = c /\ (c * BlocksPerPage + i) % BlocksPerPage = i
    BY <1>0, DivExact
  <2> QED
    BY <1>1, <2>1 DEF volReadFile
<1>3. Data(k + i) \in Word
  BY <1>0, DataType
<1>4. /\ Loaded(t, lo, hi, p, S) /\ Own(t, S, c) /\ Shown(t, c) /\ t.used = m.used
      /\ \A q \in S : Words(t, q) = Words(m, q)
      /\ \A part \in 0 .. (i - 1) : BlockAt(t.mem[c], part, k + part)
      /\ \A x \in Cell : a <= x => t.mem[c][x] = m.mem[c][x]
  BY <1>1 DEF Read
<1>5. /\ Loaded(u, lo, hi, p, S) /\ Own(u, S, c) /\ Shown(u, c) /\ u.used = t.used
      /\ u.mem[c] = [x \in Cell |-> IF x \in a .. (a + wpb - 1) THEN Data(k + i) ELSE t.mem[c][x]]
      /\ \A q \in S : Words(u, q) = Words(t, q)
  BY <1>2, <1>3, <1>4, FillLoads
<1>6. \A x \in Cell : u.mem[c][x] = IF x \in a .. (a + wpb - 1) THEN Data(k + i) ELSE t.mem[c][x]
  BY <1>5
<1>7. Cell \subseteq Nat
  BY DEF Cell
<1>8. ASSUME NEW part \in 0 .. ((i + 1) - 1) PROVE BlockAt(u.mem[c], part, k + part)
  <2> SUFFICES ASSUME NEW x \in 0 .. (wpb - 1)
               PROVE  u.mem[c][part * wpb + x] = Data(k + part)
    BY DEF BlockAt
  <2>1. PICK y \in Cell : y = part * wpb + x
    BY <1>0
  <2>2. CASE part = i
    <3>1. y \in a .. (a + wpb - 1)
      BY <1>1, <2>1, <2>2
    <3> QED
      BY <1>6, <2>1, <2>2, <3>1
  <2>3. CASE part # i
    <3>1. part \in 0 .. (i - 1) /\ part + 1 <= i
      BY <1>0, <2>3
    <3>2. (part + 1) * wpb <= a
      BY <1>0, <1>1, <3>1, MulMono
    <3>3. PICK z \in Nat : z = part * wpb /\ (part + 1) * wpb = z + wpb
      BY <1>0, <3>1
    <3>4. y \notin a .. (a + wpb - 1)
      BY <1>1, <2>1, <3>2, <3>3
    <3>5. t.mem[c][y] = Data(k + part)
      BY <1>4, <2>1, <3>1 DEF BlockAt
    <3> QED
      BY <1>6, <2>1, <3>4, <3>5
  <2> QED
    BY <2>2, <2>3
<1>9. ASSUME NEW x \in Cell, (i + 1) * wpb <= x PROVE u.mem[c][x] = m.mem[c][x]
  <2>1. x \notin a .. (a + wpb - 1) /\ a <= x
    BY <1>1, <1>7, <1>9
  <2> QED
    BY <1>4, <1>6, <2>1
<1> QED
  BY <1>4, <1>5, <1>8, <1>9 DEF Read

(* Reading keeps the pool, and a machine that stopped stays so.             *)
LEMMA ReadingStays ==
    ASSUME NEW p \in Files, NEW m \in MachineType, NEW page, NEW k \in Nat, NEW n \in Nat,
           n # 0 => k + n <= p.blocks
    PROVE  /\ Reading(m, page, k, n).used = m.used
           /\ m.stopped => Reading(m, page, k, n).stopped
<1>1. PICK turn : ReadTurns(turn, m, page, k, n)
  BY Reads
<1>2. /\ turn \in [0 .. n -> MachineType] /\ turn[0] = m /\ Reading(m, page, k, n) = turn[n]
      /\ \A i \in 1 .. n :
            turn[i] = volReadFile(turn[i - 1], page * BlocksPerPage + i - 1, k + i - 1)
  BY <1>1 DEF ReadTurns
<1> DEFINE S == [i \in 0 .. n |->
                   { t \in MachineType : t.used = m.used /\ (m.stopped => t.stopped) }]
<1>3. turn[0] \in S[0]
  BY <1>2
<1>4. ASSUME NEW i \in 1 .. n, turn[i - 1] \in S[i - 1] PROVE turn[i] \in S[i]
  <2>1. PICK t \in MachineType :
           t = turn[i - 1] /\ t.used = m.used /\ (m.stopped => t.stopped)
    BY <1>4
  <2>2. PICK u \in MachineType : /\ u = turn[i]
                                 /\ u = volReadFile(t, page * BlocksPerPage + i - 1, k + i - 1)
    BY <1>2, <2>1
  <2>3. PICK x, a, b, w : u = Write(t, x, a, b, w)
    BY <2>2 DEF volReadFile
  <2>4. u.used = t.used /\ (t.stopped => u.stopped)
    BY <2>3 DEF Write, Stop, MachineType
  <2> QED
    BY <2>1, <2>2, <2>4
<1>5. \A i \in 0 .. n : turn[i] \in S[i]
  <2> HIDE DEF S
  <2> QED
    BY <1>3, <1>4, LoopKeeps
<1> QED
  BY <1>2, <1>5

(* The blocks read into one page.                                           *)
LEMMA ReadingLoads ==
    ASSUME NEW p \in Files, NEW m \in MachineType, NEW lo, NEW hi, NEW S \in SUBSET PageSpace,
           NEW c \in Frame, NEW k \in Nat, NEW n \in Nat, n # 0 => k + n <= p.blocks,
           n <= BlocksPerPage, Loaded(m, lo, hi, p, S), Own(m, S, c), Shown(m, c),
           NEW r, r = Reading(m, c, k, n), ~ r.stopped
    PROVE  Read(m, r, lo, hi, p, S, c, k, n)
<1>0. BlocksPerPage \in Nat \ {0} /\ WordsPerBlock \in Nat /\ p.blocks \in Nat /\ c \in Nat
  BY BlockFacts, FileFacts, Constants
<1>1. PICK turn : ReadTurns(turn, m, c, k, n)
  BY Reads
<1>2. /\ turn \in [0 .. n -> MachineType] /\ turn[0] = m /\ r = turn[n]
      /\ \A i \in 1 .. n :
            turn[i] = volReadFile(turn[i - 1], c * BlocksPerPage + i - 1, k + i - 1)
  BY <1>1 DEF ReadTurns
<1> DEFINE S0 == [i \in 0 .. n |->
                   { t \in MachineType : t.stopped \/ Read(m, t, lo, hi, p, S, c, k, i) }]
<1>3. turn[0] \in S0[0]
  <2>1. Read(m, m, lo, hi, p, S, c, k, 0)
    BY DEF Read
  <2> QED
    BY <1>2, <2>1
<1>4. ASSUME NEW i \in 1 .. n, turn[i - 1] \in S0[i - 1] PROVE turn[i] \in S0[i]
  <2>1. PICK j \in 0 .. (BlocksPerPage - 1) : j = i - 1 /\ j + 1 = i /\ j \in 0 .. n
    BY <1>0
  <2>2. PICK t \in MachineType :
           t = turn[j] /\ (t.stopped \/ Read(m, t, lo, hi, p, S, c, k, j))
    BY <1>4, <2>1
  <2>3. PICK u \in MachineType :
           u = turn[i] /\ u = volReadFile(t, c * BlocksPerPage + j, k + j)
    <3>1. c * BlocksPerPage + i - 1 = c * BlocksPerPage + j /\ k + i - 1 = k + j
      <4>1. PICK x \in Nat : x = c * BlocksPerPage
        BY <1>0
      <4> QED
        BY <2>1, <4>1
    <3> QED
      BY <1>2, <2>1, <2>2, <3>1
  <2>4. CASE u.stopped
    BY <2>3, <2>4
  <2>5. CASE ~ u.stopped
    <3>1. ~ t.stopped
      BY <2>3, <2>5 DEF volReadFile, Write
    <3>2. k + j < p.blocks
      BY <1>0, <2>1
    <3>3. Read(m, u, lo, hi, p, S, c, k, j + 1)
      BY <2>2, <2>3, <2>5, <3>1, <3>2, ReadStep
    <3> QED
      BY <2>1, <2>3, <3>3
  <2> QED
    BY <2>4, <2>5
<1>5. \A i \in 0 .. n : turn[i] \in S0[i]
  <2> HIDE DEF S0
  <2> QED
    BY <1>3, <1>4, LoopKeeps
<1> QED
  BY <1>2, <1>5

(* The page now holds what the frame held, the others what they did.        *)
Placed(m, n, S, page, c) ==
    /\ \A q \in S \ {page} : Words(n, q) = Words(m, q)
    /\ Words(n, page) = m.mem[c]

(* Mapping the frame at a page of the program loads that page too.          *)
LEMMA MapLoads ==
    ASSUME NEW p \in Files, NEW m \in MachineType, NEW lo, NEW hi, NEW S \in SUBSET PageSpace,
           NEW c \in Frame, Loaded(m, lo, hi, p, S), Own(m, S, c),
           NEW page, ProgramPage(p, page),
           NEW n, n = Map(m, page, c), ~ n.stopped, FreeFrames(n) # {}
    PROVE  /\ n \in MachineType /\ Loaded(n, lo, hi, p, S \cup {page})
           /\ Placed(m, n, S, page, c)
<1> PICK d : d = cur_directory
  OBVIOUS
<1>1. ~ m.stopped /\ n = vmm_mapPhysicalAddr(m, page, c, 7) /\ n \in MachineType
  BY MapRuns, MapType
<1>2. LoadSound(m, d, lo, hi) /\ c \in Plain(m, d) /\ Guarded(m, d)
  BY DEF Loaded, Loading, Own, OfProgram
<1>3. Callable(m, lo, hi, page, c, 7) /\ Harmless(m, page, c, 7)
  BY <1>2, ProgramCallable
<1>4. Plain(m, d) \subseteq Plain(n, d)
  BY ONLY d = cur_directory, <1>1, <1>2, <1>3, ~ n.stopped, MapKeeps
<1>5. /\ m.used \subseteq n.used
      /\ Mapped(n, page) /\ Pte(n, page).frame = c
      /\ \A q \in PageSpace : q # page /\ Mapped(m, q) => Same(m, n, q)
      /\ \A y \in Plain(m, d) : 0 .. y \subseteq m.used => n.mem[y] = m.mem[y]
      /\ Guarded(n, d)
  BY ONLY d = cur_directory, <1>1, <1>2, <1>3, ~ n.stopped, FreeFrames(n) # {}, MapEffect
<1>6. Loading(n, lo, hi, p)
  <2>1. m.stopped \/ Holding(m, lo, hi, p, c)
    BY <1>2 DEF Holding, Loaded
  <2> QED
    BY <2>1, ProgramMapKeeps
<1>7. \A f : OfProgram(m, f) => OfProgram(n, f) /\ n.mem[f] = m.mem[f]
  BY <1>4, <1>5 DEF OfProgram
<1>8. ASSUME NEW q \in S \ {page}
      PROVE  /\ Mapped(n, q) /\ Pte(n, q).frame = Pte(m, q).frame
             /\ OfProgram(n, Pte(n, q).frame) /\ Words(n, q) = Words(m, q)
  <2>1. Mapped(m, q) /\ OfProgram(m, Pte(m, q).frame)
    BY DEF Loaded
  <2>2. Same(m, n, q)
    BY <1>5, <2>1
  <2> QED
    BY <1>7, <2>1, <2>2 DEF Same, Words
<1>9. OfProgram(n, c) /\ Words(n, page) = m.mem[c]
  BY <1>5, <1>7 DEF Own, Words
<1>10. \A q \in S \cup {page} : Mapped(n, q) /\ OfProgram(n, Pte(n, q).frame)
  <2>1. \A q \in S \cup {page} : q = page \/ q \in S \ {page}
    OBVIOUS
  <2> QED
    BY <1>5, <1>8, <1>9, <2>1
<1>11. ASSUME NEW q \in S \cup {page}, NEW o \in S \cup {page}, q # o
       PROVE  Pte(n, q).frame # Pte(n, o).frame
  <2>1. \A z \in S \ {page} : Pte(n, z).frame # c
    BY <1>8 DEF Own
  <2>2. CASE q = page
    BY <1>5, <1>11, <2>1, <2>2
  <2>3. CASE o = page
    BY <1>5, <1>11, <2>1, <2>3
  <2>4. CASE q # page /\ o # page
    BY <1>8, <1>11, <2>4 DEF Loaded
  <2> QED
    BY <2>2, <2>3, <2>4
<1>12. \A q \in PageSpace \ (S \cup {page}) : Mapped(Machine, q) => Same(Machine, n, q)
  BY <1>5 DEF Loaded, Same
<1>13. Loaded(n, lo, hi, p, S \cup {page})
  <2>1. used \subseteq n.used
    BY <1>5 DEF Loaded
  <2> QED
    BY <1>5, <1>6, <1>10, <1>11, <1>12, <2>1 DEF Loaded
<1> QED
  BY <1>1, <1>8, <1>9, <1>13 DEF Placed

(* Mapping gives no frame back, and a machine that stopped stays so.        *)
LEMMA MapStays ==
    ASSUME NEW m \in MachineType, NEW page, NEW c
    PROVE  /\ m.used \subseteq Map(m, page, c).used
           /\ m.stopped => Map(m, page, c).stopped
<1> SUFFICES ASSUME ~ m.stopped
             PROVE  m.used \subseteq vmm_mapPhysicalAddr(m, page, c, Flags).used
  BY DEF Map
<1>1. \A u, f, i, w : Store(u, f, i, w).used = u.used \/ u \notin MachineType
  <2> SUFFICES ASSUME NEW u \in MachineType, NEW f, NEW i, NEW w
               PROVE  Store(u, f, i, w).used = u.used
    OBVIOUS
  <2> QED
    BY DEF Store, Stop, MachineType
<1> DEFINE block == Min(FreeFrames(m))
           word == [frame |-> block, flags |-> Flags]
           entered == [m EXCEPT !.used = @ \cup {block},
                                !.mem[cur_directory][page \div Entries] = word]
           cleared == ClearTable(entered, block, Flags)
           t == vmm_createPageTable(m, page, Flags)
<1>2. t \in MachineType /\ m.used \subseteq t.used
  <2>1. Flags \in Nat
    BY DEF Flags, I86_PTE_PRESENT, I86_PTE_WRITABLE, I86_PTE_USER
  <2>2. t \in MachineType
    BY <2>1, CreateType
  <2>3. CASE Pde(m, page) # Zero \/ FreeFrames(m) = {}
    BY <2>2, <2>3 DEF vmm_createPageTable
  <2>4. CASE Pde(m, page) = Zero /\ FreeFrames(m) # {}
    <3>1. block \in Frame
      BY <2>4, FirstFree
    <3>2. word \in Word
      BY <2>1, <3>1, WordType
    <3>3. entered \in MachineType /\ entered.used = m.used \cup {block}
      <4> HIDE DEF word, block
      <4>1. [m.mem EXCEPT ![cur_directory][page \div Entries] = word] \in [Frame -> [Cell -> Word]]
        BY <3>2, PutType, MachineParts
      <4> QED
        BY <3>1, <4>1 DEF MachineType
    <3>4. cleared \in MachineType /\ cleared.used = entered.used
      <4> HIDE DEF entered, block
      <4>1. cleared \in MachineType
        BY <2>1, <3>1, <3>3, ClearTableType
      <4> QED
        BY <3>3, <4>1 DEF ClearTable, Stop, MachineType
    <3>5. t = cleared \/ t = Store(cleared, Pde(cleared, block).frame, block % Entries, word)
      BY <2>4 DEF vmm_createPageTable
    <3> HIDE DEF t, cleared, entered, block, word
    <3> QED
      BY <1>1, <2>2, <3>3, <3>4, <3>5
  <2> QED
    BY <2>2, <2>3, <2>4
<1>3. \/ vmm_mapPhysicalAddr(m, page, c, Flags) = t
      \/ vmm_mapPhysicalAddr(m, page, c, Flags)
           = Store(t, Pde(t, page).frame, page % Entries, [frame |-> c, flags |-> Flags])
  BY DEF vmm_mapPhysicalAddr
<1> HIDE DEF t
<1> QED
  BY <1>1, <1>2, <1>3

(* What page i of the image holds: the first its blocks and zeroes behind   *)
(* them, the others the blocks that follow.                                 *)
ImagePage(p, i, words) ==
    /\ i = 0 =>
          /\ \A k \in 0 .. (FirstBlocks(p) - 1) : BlockAt(words, k, k)
          /\ \A x \in (FirstBlocks(p) * WordsPerBlock) .. (Entries - 1) : words[x] = Zero
    /\ i # 0 =>
          \A k \in BlocksOfPage(p, i) : BlockAt(words, (k - FirstBlocks(p)) % BlocksPerPage, k)

(* The image up to page i.  A second page is loaded only at address 0, and  *)
(* then the frames at the addresses of the pages loaded are in use: the     *)
(* next page is not read through one of them.                               *)
Imaged(m, lo, hi, p, i) ==
    /\ Loaded(m, lo, hi, p, p.vpage .. (p.vpage + i))
    /\ \A j \in 0 .. i : ImagePage(p, j, Words(m, p.vpage + j))
    /\ MorePages(p) # 0 => 0 .. i \subseteq m.used

(* If the first blocks fit their frame and more follow, they are linked at  *)
(* address 0.                                                               *)
LEMMA MoreAtZero ==
    ASSUME NEW p \in Files, FitsFirstFrame(p), MorePages(p) # 0
    PROVE  p.vpage = 0
<1>1. /\ BlocksPerPage \in Nat \ {0} /\ p.vpage \in Nat /\ p.mem \in Nat /\ p.blocks \in Nat
      /\ FirstBlocks(p) <= BlocksPerPage
  BY TaskAssumption, FileFacts DEF FitsFirstFrame
<1>2. PICK v \in Nat : v = p.vpage * BlocksPerPage
  BY <1>1
<1>3. FirstBlocks(p) \in {p.blocks, v + p.mem + 1}
  <2>1. {p.blocks, v + p.mem + 1} \in SUBSET Nat
    BY <1>1
  <2> QED
    BY <1>2, <2>1, MinOfNaturals DEF FirstBlocks, ImageSize
<1>4. FirstBlocks(p) # p.blocks
  <2> SUFFICES ASSUME FirstBlocks(p) = p.blocks PROVE FALSE
    OBVIOUS
  <2>1. MorePages(p) = (BlocksPerPage - 1) \div BlocksPerPage
    BY <1>1 DEF MorePages
  <2>2. (0 * BlocksPerPage + (BlocksPerPage - 1)) \div BlocksPerPage = 0
    BY <1>1, DivExact
  <2>3. 0 * BlocksPerPage + (BlocksPerPage - 1) = BlocksPerPage - 1
    BY <1>1
  <2> QED
    BY <2>1, <2>2, <2>3
<1>5. v + p.mem + 1 <= BlocksPerPage
  BY <1>1, <1>3, <1>4
<1> SUFFICES ASSUME p.vpage # 0 PROVE FALSE
  OBVIOUS
<1>6. 1 * BlocksPerPage <= v
  BY <1>1, <1>2, MulMono
<1> QED
  BY <1>1, <1>2, <1>5, <1>6

(* Loading the first page, *)
LEMMA LoadFirstLoads ==
    ASSUME NEW p \in Files, FitsFirstFrame(p), ProgramPage(p, p.vpage),
           Machine \in MachineType, ~ stopped, NEW lo, NEW hi,
           ShellSound(Machine, cur_directory, lo, hi), Guarded(Machine, cur_directory),
           NEW n, n = LoadFirst(Machine, p), ~ n.stopped, FreeFrames(n) # {}
    PROVE  Imaged(n, lo, hi, p, 0)
<1> PICK c : c = Taken(Machine)
  OBVIOUS
<1> PICK t : t = Taking(Machine)
  OBVIOUS
<1> PICK z : z = Write(t, c, 0, Entries - 1, Zero)
  OBVIOUS
<1> PICK k : k = FirstBlocks(p)
  OBVIOUS
<1> PICK r : r = Reading(z, c, 0, k)
  OBVIOUS
<1>0. n = Map(r, p.vpage, c)
  BY DEF LoadFirst
<1>1. /\ DirectorySound(Machine, cur_directory, lo, hi) /\ LowIsIdentity(Machine, lo)
      /\ Loaded(Machine, lo, hi, p, {})
  <2>1. DirectorySound(Machine, cur_directory, lo, hi) /\ LowIsIdentity(Machine, lo)
    BY DEF ShellSound
  <2>2. Loading(Machine, lo, hi, p)
    BY <2>1, ShellParts DEF Loading
  <2> QED
    BY <2>1, <2>2, NoneLoaded
<1>2. t \in MachineType /\ c \in Frame /\ z \in MachineType
  BY TakenType, ZeroType, WriteType
<1>3. k \in Nat /\ 0 + k <= p.blocks /\ k <= BlocksPerPage
  BY FileFacts DEF FitsFirstFrame
<1>4. r \in MachineType /\ r.used = z.used /\ (z.stopped => r.stopped)
  BY <1>2, <1>3, ReadingType, ReadingStays
<1>5. ~ r.stopped /\ r.used \subseteq n.used
  BY <1>0, <1>4, MapStays
<1>6. ~ z.stopped /\ z.used = t.used /\ Machine.used \subseteq t.used
  <2>1. z.used = t.used
    BY <1>2 DEF Write, Stop, MachineType
  <2>2. Machine.used \subseteq t.used
    BY <1>2 DEF Taking, MachineType
  <2> QED
    BY <1>4, <1>5, <2>1, <2>2
<1>7. FreeFrames(Machine) # {}
  BY <1>4, <1>5, <1>6 DEF FreeFrames
<1>8. /\ Loaded(t, lo, hi, p, {}) /\ Own(t, {}, c) /\ c \notin Machine.used
      /\ 0 .. c \subseteq t.used
  BY <1>1, <1>7, TakeLoads
<1>9. Shown(t, c)
  BY <1>1, <1>2, <1>8, FrameShown
<1>10. /\ Loaded(z, lo, hi, p, {}) /\ Own(z, {}, c) /\ Shown(z, c)
       /\ z.mem[c] = [i \in Cell |-> IF i \in 0 .. (Entries - 1) THEN Zero ELSE t.mem[c][i]]
  BY <1>2, <1>6, <1>8, <1>9, ZeroType, FillLoads
<1>11. \A x \in Cell : z.mem[c][x] = Zero
  BY <1>10 DEF Cell
<1>12. Read(z, r, lo, hi, p, {}, c, 0, k)
  BY <1>2, <1>3, <1>5, <1>10, ReadingLoads
<1>13. /\ Loaded(r, lo, hi, p, {}) /\ Own(r, {}, c)
       /\ \A part \in 0 .. (k - 1) : BlockAt(r.mem[c], part, 0 + part)
       /\ \A x \in Cell : k * WordsPerBlock <= x => r.mem[c][x] = z.mem[c][x]
  BY <1>12 DEF Read
<1>14. Loaded(n, lo, hi, p, {} \cup {p.vpage}) /\ Words(n, p.vpage) = r.mem[c]
  <2>1. /\ r \in MachineType /\ c \in Frame
        /\ Loaded(r, lo, hi, p, {}) /\ Own(r, {}, c) /\ {} \in SUBSET PageSpace
    BY <1>2, <1>4, <1>13
  <2> QED
    <3>1. Loaded(n, lo, hi, p, {} \cup {p.vpage}) /\ Placed(r, n, {}, p.vpage, c)
      BY ONLY <1>0, <2>1, p \in Files, ProgramPage(p, p.vpage), ~ n.stopped,
              FreeFrames(n) # {}, MapLoads
    <3> QED
      BY <3>1 DEF Placed
<1>15. ImagePage(p, 0, Words(n, p.vpage))
  <2>1. \A i \in 0 .. (k - 1) : BlockAt(Words(n, p.vpage), i, i)
    <3>1. \A i \in 0 .. (k - 1) : 0 + i = i
      BY <1>3
    <3> QED
      BY <1>13, <1>14, <3>1
  <2>2. ASSUME NEW x \in (k * WordsPerBlock) .. (Entries - 1) PROVE Words(n, p.vpage)[x] = Zero
    <3>1. PICK y \in Nat : y = k * WordsPerBlock
      BY <1>3, BlockFacts
    <3>2. x \in Cell /\ k * WordsPerBlock <= x
      BY <3>1, Constants DEF Cell
    <3> QED
      BY <1>11, <1>13, <1>14, <3>2
  <2> QED
    BY <2>1, <2>2 DEF ImagePage
<1>16. p.vpage \in Nat /\ p.vpage .. (p.vpage + 0) = {} \cup {p.vpage} /\ p.vpage + 0 = p.vpage
  BY FileFacts
<1>17. 0 .. 0 \subseteq n.used
  BY <1>2, <1>4, <1>5, <1>6, <1>8, Constants
<1>18. \A x \in 0 .. 0 : p.vpage + x = p.vpage /\ x = 0
  BY <1>16
<1>19. /\ Loaded(n, lo, hi, p, p.vpage .. (p.vpage + 0))
       /\ \A x \in 0 .. 0 : ImagePage(p, x, Words(n, p.vpage + x))
  BY <1>14, <1>15, <1>16, <1>18
<1> QED
  BY <1>17, <1>19 DEF Imaged

(* The blocks of a page behind the first lie in it in order.                *)
LEMMA BlockParts ==
    ASSUME NEW p \in Files, NEW i \in Nat \ {0}, NEW x \in BlocksOfPage(p, i)
    PROVE  \E part \in 0 .. (Cardinality(BlocksOfPage(p, i)) - 1) :
              x = BlockOfPage(p, i) + part /\ (x - FirstBlocks(p)) % BlocksPerPage = part
<1>1. BlocksPerPage \in Nat \ {0} /\ p.blocks \in Nat /\ FirstBlocks(p) \in Nat
  BY TaskAssumption, FileFacts
<1>2. PICK w \in Nat, f \in Nat : w = (i - 1) * BlocksPerPage /\ f = FirstBlocks(p)
  <2>1. i - 1 \in Nat
    OBVIOUS
  <2>2. (i - 1) * BlocksPerPage \in Nat
    BY ONLY <1>1, <2>1
  <2> QED
    BY <1>1, <2>2
<1>3. PICK k \in Nat : k = BlockOfPage(p, i) /\ k = f + w
  BY <1>2 DEF BlockOfPage
<1>4. PICK e \in Nat : e = Min({p.blocks, k + BlocksPerPage}) /\ e <= k + BlocksPerPage
  <2>1. {p.blocks, k + BlocksPerPage} \in SUBSET Nat
    BY <1>1
  <2> QED
    BY <2>1, MinOfNaturals
<1>5. BlocksOfPage(p, i) = k .. (e - 1)
  BY <1>3, <1>4 DEF BlocksOfPage
<1>6. x \in k .. (e - 1)
  BY <1>5
<1>7. Cardinality(k .. (e - 1)) = e - k
  <2>1. k \in Int /\ e - 1 \in Int /\ ~ k > e - 1
    BY <1>6
  <2>2. Cardinality(k .. (e - 1)) = IF k > e - 1 THEN 0 ELSE e - 1 - k + 1
    BY ONLY <2>1, FS_Interval
  <2>3. e - 1 - k + 1 = e - k
    BY ONLY k \in Nat, e \in Nat
  <2> QED
    BY ONLY <2>1, <2>2, <2>3
<1>8. PICK part \in 0 .. (e - k - 1) : x = k + part
  <2>1. x - k \in 0 .. (e - k - 1) /\ x = k + (x - k)
    BY ONLY <1>6, k \in Nat, e \in Nat
  <2> QED
    BY <2>1
<1>9. part \in 0 .. (BlocksPerPage - 1) /\ part \in Nat
  BY ONLY <1>1, <1>4, k \in Nat, e \in Nat, part \in 0 .. (e - k - 1)
<1>10. ((i - 1) * BlocksPerPage + part) % BlocksPerPage = part
  <2>1. i - 1 \in Nat
    OBVIOUS
  <2> QED
    BY ONLY <1>1, <1>9, <2>1, DivExact
<1>11. x - f = (i - 1) * BlocksPerPage + part
  <2>1. x = f + w + part
    BY ONLY <1>3, <1>8
  <2>2. x - f = w + part
    BY ONLY <2>1, <1>9, f \in Nat, w \in Nat
  <2> QED
    BY <1>2, <2>2
<1> QED
  BY <1>2, <1>3, <1>5, <1>7, <1>8, <1>10, <1>11

(* then one behind it,                                                      *)
LEMMA LoadPageLoads ==
    ASSUME NEW p \in Files, FitsFirstFrame(p), NEW j \in Nat, NEW i, i = j + 1,
           i \in 1 .. MorePages(p), ProgramPage(p, p.vpage + i),
           Machine \in MachineType, ~ stopped, NEW lo, NEW hi,
           ShellSound(Machine, cur_directory, lo, hi),
           NEW m \in MachineType, FreeFrames(m) = {} \/ m.stopped \/ Imaged(m, lo, hi, p, j),
           NEW n, n = LoadPage(p, m, i), ~ n.stopped, FreeFrames(n) # {}
    PROVE  Imaged(n, lo, hi, p, i)
<1> PICK c : c = Taken(m)
  OBVIOUS
<1> PICK t : t = Taking(m)
  OBVIOUS
<1> PICK k : k = BlockOfPage(p, i)
  OBVIOUS
<1> PICK b : b = Cardinality(BlocksOfPage(p, i))
  OBVIOUS
<1> PICK r : r = Reading(t, c, k, b)
  OBVIOUS
<1> PICK page : page = p.vpage + i
  OBVIOUS
<1> PICK S : S = p.vpage .. (p.vpage + j)
  OBVIOUS
<1>0. n = Map(r, page, c)
  BY DEF LoadPage
<1>1. DirectorySound(Machine, cur_directory, lo, hi) /\ LowIsIdentity(Machine, lo)
  BY DEF ShellSound
<1>2. t \in MachineType /\ c \in Frame /\ t.stopped = m.stopped
  BY TakenType
<1>3. /\ BlocksPerPage \in Nat \ {0} /\ i \in Nat \ {0}
      /\ k \in Nat /\ b \in Nat /\ b <= BlocksPerPage /\ (b # 0 => k + b <= p.blocks)
  BY BlocksFacts, TaskAssumption
<1>4. r \in MachineType /\ r.used = t.used /\ (t.stopped => r.stopped)
  BY <1>2, <1>3, ReadingType, ReadingStays
<1>5. ~ r.stopped /\ r.used \subseteq n.used
  BY <1>0, <1>4, MapStays
<1>6. m.used \subseteq t.used
  BY <1>2 DEF Taking, MachineType
<1>7. ~ m.stopped /\ FreeFrames(m) # {} /\ Imaged(m, lo, hi, p, j)
  BY <1>2, <1>4, <1>5, <1>6 DEF FreeFrames
<1>8. p.vpage = 0 /\ MorePages(p) # 0 /\ p.vpage \in Nat
  BY MoreAtZero, FileFacts
<1>9. /\ Loaded(m, lo, hi, p, S) /\ 0 .. j \subseteq m.used /\ S = 0 .. j
      /\ \A x \in 0 .. j : ImagePage(p, x, Words(m, p.vpage + x))
  BY <1>7, <1>8 DEF Imaged
<1>10. /\ Loaded(t, lo, hi, p, S) /\ Own(t, S, c) /\ c \notin m.used
       /\ t.mem = m.mem /\ 0 .. c \subseteq t.used
  BY <1>7, <1>9, TakeLoads
<1>11. S \in SUBSET PageSpace
  <2>1. page \in 0 .. (Entries * Entries - 1)
    BY ProgramPageFacts
  <2>2. PICK e \in Nat : e = Entries * Entries
    BY Constants
  <2> QED
    BY <1>8, <1>9, <2>1, <2>2 DEF PageSpace
<1>12. Shown(t, c)
  BY <1>1, <1>2, <1>9, <1>10, FrameShown
<1>13. Read(t, r, lo, hi, p, S, c, k, b)
  BY <1>2, <1>3, <1>5, <1>10, <1>11, <1>12, ReadingLoads
<1>14. /\ Loaded(r, lo, hi, p, S) /\ Own(r, S, c)
       /\ \A q \in S : Words(r, q) = Words(t, q)
       /\ \A part \in 0 .. (b - 1) : BlockAt(r.mem[c], part, k + part)
  BY <1>13 DEF Read
<1>15. /\ Loaded(n, lo, hi, p, S \cup {page})
       /\ \A q \in S \ {page} : Words(n, q) = Words(r, q)
       /\ Words(n, page) = r.mem[c]
  <2>1. /\ r \in MachineType /\ c \in Frame
        /\ Loaded(r, lo, hi, p, S) /\ Own(r, S, c) /\ ProgramPage(p, page)
    BY <1>2, <1>4, <1>14
  <2>2. Loaded(n, lo, hi, p, S \cup {page}) /\ Placed(r, n, S, page, c)
    BY ONLY <1>0, <1>11, <2>1, p \in Files, ~ n.stopped, FreeFrames(n) # {}, MapLoads
  <2> QED
    BY <2>2 DEF Placed
<1>16. S \cup {page} = p.vpage .. (p.vpage + i) /\ page \notin S
  BY <1>8, <1>9
<1>17. ASSUME NEW x \in 0 .. j PROVE ImagePage(p, x, Words(n, p.vpage + x))
  <2>1. PICK q \in S : q = p.vpage + x
    BY <1>8, <1>9
  <2>2. Words(t, q) = Words(m, q)
    BY <1>10 DEF Words, Pte, Pde
  <2> QED
    BY <1>9, <1>14, <1>15, <1>16, <2>1, <2>2
<1>18. ImagePage(p, i, Words(n, page))
  <2> SUFFICES ASSUME NEW x \in BlocksOfPage(p, i)
               PROVE  BlockAt(Words(n, page), (x - FirstBlocks(p)) % BlocksPerPage, x)
    BY <1>3 DEF ImagePage
  <2>1. PICK part \in 0 .. (b - 1) : x = k + part /\ (x - FirstBlocks(p)) % BlocksPerPage = part
    BY <1>3, BlockParts
  <2> QED
    BY <1>14, <1>15, <2>1
<1>19. 0 .. i \subseteq n.used
  <2>1. c \in Nat /\ c \notin 0 .. j
    BY <1>2, <1>9, <1>10, Constants
  <2>2. i <= c
    BY <2>1
  <2>3. 0 .. i \subseteq 0 .. c
    BY <1>3, <2>1, <2>2
  <2> QED
    BY <1>4, <1>5, <1>10, <2>3
<1>20. ASSUME NEW x \in 0 .. i PROVE ImagePage(p, x, Words(n, p.vpage + x))
  <2>1. x \in 0 .. j \/ x = i
    OBVIOUS
  <2> QED
    BY <1>17, <1>18, <2>1
<1> QED
  BY <1>15, <1>16, <1>19, <1>20 DEF Imaged

(* and at last the stack: createProcess loads the image and maps a stack,   *)
(* each page to a frame of its own.                                         *)
LEMMA ProcessLoads ==
    ASSUME ProgramsApart, NEW p \in Files, FitsFirstFrame(p),
           Machine \in MachineType, ~ stopped, NEW lo, NEW hi,
           ShellSound(Machine, cur_directory, lo, hi), Guarded(Machine, cur_directory),
           NEW n, n = createProcess(p), ~ n.stopped, FreeFrames(n) # {}
    PROVE  /\ Loaded(n, lo, hi, p, (p.vpage .. (p.vpage + MorePages(p))) \cup {StackPage(p)})
           /\ \A i \in 0 .. MorePages(p) :
                 p.vpage + i # StackPage(p) => ImagePage(p, i, Words(n, p.vpage + i))
<1>1. PICK last \in Nat : last = MorePages(p)
  BY FileFacts
<1>2. PICK turn \in [0 .. last -> MachineType] :
         /\ turn[0] = LoadFirst(Machine, p)
         /\ \A i \in 1 .. last : turn[i] = LoadPage(p, turn[i - 1], i)
         /\ n = Map(Taking(turn[last]), StackPage(p), Taken(turn[last]))
  BY <1>1, Loads
<1>3. ProgramPage(p, p.vpage) /\ ProgramPage(p, StackPage(p))
      /\ \A i \in 1 .. last : ProgramPage(p, p.vpage + i)
  BY <1>1, PagesOfProgram
<1> DEFINE Good(m, i) == FreeFrames(m) = {} \/ m.stopped \/ Imaged(m, lo, hi, p, i)
           G == [i \in 0 .. last |-> { m \in MachineType : Good(m, i) }]
<1>4. turn[0] \in G[0]
  <2>1. PICK u \in MachineType : u = turn[0] /\ u = LoadFirst(Machine, p)
    BY <1>2
  <2>2. Good(u, 0)
    BY <1>3, <2>1, LoadFirstLoads
  <2> QED
    BY <2>1, <2>2
<1>5. ASSUME NEW i \in 1 .. last, turn[i - 1] \in G[i - 1] PROVE turn[i] \in G[i]
  <2>1. PICK j \in Nat : j = i - 1 /\ i = j + 1 /\ j \in 0 .. last
    OBVIOUS
  <2>2. PICK m \in MachineType : m = turn[j] /\ Good(m, j)
    BY <1>5, <2>1
  <2>3. PICK u \in MachineType : u = turn[i] /\ u = LoadPage(p, m, i)
    BY <1>2, <2>1, <2>2
  <2>4. Good(u, i)
    <3>1. i \in 1 .. MorePages(p) /\ ProgramPage(p, p.vpage + i)
      BY <1>1, <1>3
    <3> QED
      BY <2>1, <2>2, <2>3, <3>1, LoadPageLoads
  <2> QED
    BY <2>3, <2>4
<1>6. \A i \in 0 .. last : turn[i] \in G[i]
  <2> HIDE DEF G
  <2> QED
    BY <1>4, <1>5, LoopKeeps
<1>7. PICK m \in MachineType : m = turn[last] /\ Good(m, last)
  BY <1>6
<1> PICK c : c = Taken(m)
  OBVIOUS
<1> PICK t : t = Taking(m)
  OBVIOUS
<1> PICK S : S = p.vpage .. (p.vpage + last)
  OBVIOUS
<1>8. t \in MachineType /\ c \in Frame /\ t.stopped = m.stopped /\ m.used \subseteq t.used
  BY TakenType DEF Taking, MachineType
<1>9. n = Map(t, StackPage(p), c)
  BY <1>2, <1>7
<1>10. ~ m.stopped /\ FreeFrames(m) # {}
  BY <1>8, <1>9, MapStays DEF FreeFrames
<1>11. Imaged(m, lo, hi, p, last)
  BY <1>7, <1>10
<1>12. Loaded(m, lo, hi, p, S) /\ \A i \in 0 .. last : ImagePage(p, i, Words(m, p.vpage + i))
  BY <1>11 DEF Imaged
<1>13. Loaded(t, lo, hi, p, S) /\ Own(t, S, c) /\ t.mem = m.mem
  BY <1>10, <1>12, TakeLoads
<1>14. p.vpage \in Nat /\ S \in SUBSET PageSpace
  <2>1. p.vpage \in Nat
    BY FileFacts
  <2>2. ASSUME NEW q \in S PROVE q \in PageSpace
    <3>1. PICK i \in 0 .. last : q = p.vpage + i
      <4>1. q - p.vpage \in 0 .. last /\ q = p.vpage + (q - p.vpage)
        BY <1>1, <2>1
      <4> QED
        BY <4>1
    <3>2. ProgramPage(p, q)
      <4>1. i = 0 => q = p.vpage
        BY <2>1, <3>1
      <4>2. i # 0 => i \in 1 .. last
        OBVIOUS
      <4> QED
        BY <1>3, <3>1, <4>1, <4>2
    <3> QED
      BY <3>2, ProgramPageFacts DEF PageSpace
  <2> QED
    BY <2>1, <2>2
<1>15. /\ Loaded(n, lo, hi, p, S \cup {StackPage(p)})
       /\ \A q \in S \ {StackPage(p)} : Words(n, q) = Words(t, q)
  <2>1. Loaded(t, lo, hi, p, S) /\ Own(t, S, c) /\ ProgramPage(p, StackPage(p))
    BY <1>3, <1>13
  <2> QED
    <3>1. Loaded(n, lo, hi, p, S \cup {StackPage(p)}) /\ Placed(t, n, S, StackPage(p), c)
      BY ONLY <1>8, <1>9, <1>14, <2>1, p \in Files, ~ n.stopped, FreeFrames(n) # {}, MapLoads
    <3> QED
      BY <3>1 DEF Placed
<1>16. ASSUME NEW i \in 0 .. last, p.vpage + i # StackPage(p)
       PROVE  ImagePage(p, i, Words(n, p.vpage + i))
  <2>1. PICK q \in S \ {StackPage(p)} : q = p.vpage + i
    BY <1>1, <1>14, <1>16
  <2>2. Words(t, q) = Words(m, q)
    BY <1>13 DEF Words, Pte, Pde
  <2> QED
    BY <1>12, <1>15, <2>1, <2>2
<1> QED
  BY <1>1, <1>15, <1>16

(* What ProgramIsLoaded says of the step that starts p. *)
Started(p) ==
    LET next  == { i \in 1 .. MorePages(p) : p.vpage + i # StackPage(p) }
        pages == {p.vpage, StackPage(p)} \cup { p.vpage + i : i \in next }
    IN  /\ p.mag = ELFMAG /\ p.machine = EM_386 /\ p.type \in {ET_REL, ET_EXEC}
        /\ FitsFirstFrame(p) /\ used' # Frame =>
             /\ \A page \in pages :
                   Mapped(Machine, page)' /\ FrameOf(page)' \notin used \cup TableFrames'
             /\ \A page, other \in pages :
                   page # other => FrameOf(page)' # FrameOf(other)'
             /\ \A k \in 0 .. (FirstBlocks(p) - 1) : HoldsBlock(p.vpage, k, k)'
             /\ \A i \in (FirstBlocks(p) * WordsPerBlock) .. (Entries - 1) :
                   (mem[FrameOf(p.vpage)][i] = Zero)'
             /\ \A i \in next : \A k \in BlocksOfPage(p, i) :
                   HoldsBlock(p.vpage + i, (k - FirstBlocks(p)) % BlocksPerPage, k)'
             /\ \A page \in (0 .. (Entries * Entries - 1)) \ pages :
                   Mapped(Machine, page) =>
                      Mapped(Machine, page)' /\ FrameOf(page)' = FrameOf(page)

(* cmd_exec starts p as that says. *)
LEMMA ExecLoads ==
    ASSUME ProgramsApart, SpaceInv, NEW p \in Files, cmd_exec(p),
           user' = executeProcess(p)
    PROVE  Started(p)
<1> PICK n : n = createProcess(p)
  OBVIOUS
<1>1. /\ Running /\ user = <<>> /\ elf_check_support(p) /\ Becomes(n)
      /\ user' = (IF n.stopped THEN <<>> ELSE executeProcess(p))
      /\ cur_directory' = cur_directory
  BY DEF cmd_exec
<1>2. p.mag = ELFMAG /\ p.machine = EM_386 /\ p.type \in {ET_REL, ET_EXEC}
  BY <1>1 DEF elf_check_support, elf_check_header
<1>3. ~ n.stopped
  BY <1>1 DEF executeProcess
<1> SUFFICES ASSUME FitsFirstFrame(p), used' # Frame PROVE Started(p)
  BY <1>2 DEF Started
<1>4. KernelInv /\ Machine \in MachineType /\ ~ stopped
  BY <1>1, TypedMachine DEF SpaceInv, KernelInv, Running
<1>5. PICK lo \in Frame, hi \in Frame : /\ ShellSound(Machine, cur_directory, lo, hi)
                                        /\ Guarded(Machine, cur_directory)
  <2>1. PICK lo \in Frame, hi \in Frame : ShellSound(Machine, cur_directory, lo, hi)
    BY <1>1, <1>4 DEF KernelInv
  <2>2. HeapSmall(Machine, cur_directory)
    BY <1>1, <1>4 DEF KernelInv
  <2> QED
    BY <2>1, <2>2, SmallIsGuarded DEF ShellSound
<1>6. n \in MachineType
  BY <1>4, ProcessType
<1>7. Machine' = n /\ mem' = n.mem /\ n.used = used'
  BY <1>1, <1>6, BecomesMachine DEF Becomes
<1>8. FreeFrames(n) # {}
  BY <1>6, <1>7, MachineParts DEF FreeFrames
<1> PICK S : S = (p.vpage .. (p.vpage + MorePages(p))) \cup {StackPage(p)}
  OBVIOUS
<1>9. /\ Loaded(n, lo, hi, p, S)
      /\ \A i \in 0 .. MorePages(p) :
            p.vpage + i # StackPage(p) => ImagePage(p, i, Words(n, p.vpage + i))
  BY <1>3, <1>4, <1>5, <1>8, ProcessLoads
<1>10. \A q : /\ (Mapped(Machine, q)' <=> Mapped(n, q)) /\ FrameOf(q)' = Pte(n, q).frame
              /\ FrameOf(q) = Pte(Machine, q).frame
  BY <1>1, <1>7 DEF Mapped, Pde, Pte, FrameOf
<1>11. TableFrames' = TablesIn(n, cur_directory)
  <2>1. Directory' = n.mem[cur_directory]
    BY <1>1, <1>7 DEF Directory
  <2> QED
    BY <2>1 DEF TableFrames, Tables, TablesIn, InUse, Cell
<1>12. \A q, part, k : BlockAt(Words(n, q), part, k) => HoldsBlock(q, part, k)'
  BY <1>7, <1>10 DEF BlockAt, Words, HoldsBlock
<1> DEFINE next == { i \in 1 .. MorePages(p) : p.vpage + i # StackPage(p) }
           pages == {p.vpage, StackPage(p)} \cup { p.vpage + i : i \in next }
<1>13. p.vpage \in Nat /\ MorePages(p) \in Nat /\ p.vpage # StackPage(p)
  BY FileFacts
<1>14. pages = S
  <2>1. ASSUME NEW q \in S, q # p.vpage, q # StackPage(p) PROVE q \in pages
    <3>1. q - p.vpage \in 1 .. MorePages(p) /\ q = p.vpage + (q - p.vpage)
      BY <1>13, <2>1
    <3> QED
      BY <2>1, <3>1
  <2>2. \A q \in S : q \in pages
    BY <2>1
  <2>3. p.vpage \in S /\ \A i \in 1 .. MorePages(p) : p.vpage + i \in S
    BY <1>13
  <2> QED
    BY <2>2, <2>3
<1>15. \A page \in S : Mapped(Machine, page)' /\ FrameOf(page)' \notin used \cup TableFrames'
  BY <1>9, <1>10, <1>11 DEF Loaded, OfProgram, Plain
<1>16. \A page, other \in S : page # other => FrameOf(page)' # FrameOf(other)'
  BY <1>9, <1>10 DEF Loaded
<1>17. ImagePage(p, 0, Words(n, p.vpage))
  <2>1. 0 \in 0 .. MorePages(p) /\ p.vpage + 0 = p.vpage
    BY <1>13
  <2> QED
    BY <1>9, <1>13, <2>1
<1>18. \A k \in 0 .. (FirstBlocks(p) - 1) : HoldsBlock(p.vpage, k, k)'
  BY <1>12, <1>17 DEF ImagePage
<1>19. \A i \in (FirstBlocks(p) * WordsPerBlock) .. (Entries - 1) :
          (mem[FrameOf(p.vpage)][i] = Zero)'
  BY <1>7, <1>10, <1>17 DEF ImagePage, Words
<1>20. \A i \in next : \A k \in BlocksOfPage(p, i) :
          HoldsBlock(p.vpage + i, (k - FirstBlocks(p)) % BlocksPerPage, k)'
  <2> TAKE i \in next
  <2>1. i \in 0 .. MorePages(p) /\ i # 0 /\ p.vpage + i # StackPage(p)
    OBVIOUS
  <2>2. ImagePage(p, i, Words(n, p.vpage + i))
    BY <1>9, <2>1
  <2> QED
    BY <1>12, <2>1, <2>2 DEF ImagePage
<1>21. \A page \in (0 .. (Entries * Entries - 1)) \ S :
          Mapped(Machine, page) => Mapped(Machine, page)' /\ FrameOf(page)' = FrameOf(page)
  BY <1>9, <1>10 DEF Loaded, Same, PageSpace
<1> QED
  BY <1>2, <1>14, <1>15, <1>16, <1>18, <1>19, <1>20, <1>21 DEF Started

-----------------------------------------------------------------------------
(* The theorems *)

(* On a machine whose memory ends below the kernel, with programs linked    *)
(* apart from physical memory, the invariant holds in every state: the boot *)
(* tables stay where they are, no table or directory goes back to the pool, *)
(* and neither the heap nor the loader ever writes to one of them.          *)
THEOREM SpaceInvariant ==
    ASSUME MemoryBelowKernel, ProgramsApart
    PROVE  TaskSpec => []SpaceInv
<1>1. TaskInit => SpaceInv
  BY SpaceInit
<1>2. SpaceInv /\ [TaskNext]_taskVars => SpaceInv'
  BY SpaceNext
<1> QED
  BY <1>1, <1>2, PTL DEF TaskSpec

(* Memory, pool, directory and runs keep their types, and the process in    *)
(* user mode is one that cmd_exec started.                                  *)
THEOREM TaskTypeCorrect ==
    ASSUME MemoryBelowKernel, ProgramsApart
    PROVE  TaskSpec => []TaskTypeOK
<1>1. SpaceInv => TaskTypeOK
  BY DEF SpaceInv
<1> QED
  BY <1>1, SpaceInvariant, PTL

(* Directory and tables keep frames of their own, in use, which no page of  *)
(* the heap maps: in the shell always, and behind exec for every program    *)
(* whose first blocks fit a frame, also when frames ran out while it was    *)
(* loaded.                                                                  *)
THEOREM TablesStaySoundHolds ==
    ASSUME MemoryBelowKernel, ProgramsApart
    PROVE  TaskSpec => []TablesStaySound
<1>1. SpaceInv => TablesStaySound
  BY TablesFollow
<1> QED
  BY <1>1, SpaceInvariant, PTL

(* Every frame of the first table stays reachable at its own address and    *)
(* the kernel's pages keep mapping the frames of the boot, in the shell and *)
(* behind exec of a program linked above the first table whose first blocks *)
(* fit a frame.                                                             *)
THEOREM KernelKeepsItsMapHolds ==
    ASSUME MemoryBelowKernel, ProgramsApart
    PROVE  TaskSpec => []KernelKeepsItsMap
<1>1. SpaceInv => KernelKeepsItsMap
  <2> SUFFICES ASSUME SpaceInv, Running,
                      user = <<>> \/ (FitsFirstFrame(user[1]) /\ user[1].vpage >= Entries)
               PROVE  KernelStaysMapped
    BY DEF KernelKeepsItsMap, KernelStaysMapped
  <2>1. TypeOK
    BY DEF SpaceInv, TaskTypeOK
  <2>2. PICK lo \in Frame, hi \in Frame : /\ LoadSound(Machine, cur_directory, lo, hi)
                                          /\ LowIsIdentity(Machine, lo)
    BY ShellParts DEF SpaceInv, KernelInv, ProgramInv
  <2> QED
    BY <2>1, <2>2, MappedKernel DEF LoadSound
<1> QED
  BY <1>1, SpaceInvariant, PTL

(* Every run liballoc_alloc returns, unless it took the last frame, is of   *)
(* pages that were not mapped and now map frames of their own, new from the *)
(* pool and none of them a table's.  The memset for a second table of the   *)
(* heap might reach the first word of the table before, but the heap never  *)
(* gets that far (HeapSmall).                                               *)
THEOREM GrantIsFreshHolds ==
    ASSUME MemoryBelowKernel, ProgramsApart
    PROVE  TaskSpec => GrantIsFresh
<1> DEFINE Good == \A run \in granted' \ granted : used' # Frame => GrantedFresh(run)
<1>1. SpaceInv => TablesStaySound
  BY TablesFollow
<1>2. SpaceInv /\ TablesStaySound' /\ [TaskNext]_taskVars => [Good]_vars
  <2> SUFFICES ASSUME SpaceInv, TablesStaySound', [TaskNext]_taskVars,
                      NEW run \in granted' \ granted, used' # Frame
               PROVE  GrantedFresh(run)
    OBVIOUS
  <2>1. PICK n \in 1 .. MaxPages : liballoc_alloc(n) /\ user = <<>> /\ user' = <<>>
    BY DEF TaskNext, KernelStep, cmd_exec, cmd_exec_fails, taskVars, Next, Initialize,
           liballoc_alloc_fails, liballoc_free
  <2> QED
    BY <2>1, AllocGrants DEF SpaceInv
<1>3. GrantIsFresh <=> [][Good]_vars
  BY DEF GrantIsFresh, GrantedFresh
<1> HIDE DEF Good
<1> QED
  BY <1>1, <1>2, <1>3, SpaceInvariant, PTL DEF TaskSpec

(* Every process started comes from an ELF file the kernel supports, and if *)
(* its first blocks fit one frame and frames did not run out, its pages and *)
(* its stack map frames of their own, which the pool had and no table       *)
(* holds; the pages hold the file in order, but for the one at the address  *)
(* of the stack, which replaces it; the rest of the first is zero, and      *)
(* every other page maps what it mapped.                                    *)
THEOREM ProgramIsLoadedHolds ==
    ASSUME MemoryBelowKernel, ProgramsApart
    PROVE  TaskSpec => ProgramIsLoaded
<1> DEFINE Good == \A p \in Files : user = <<>> /\ user' = executeProcess(p) => Started(p)
<1>1. SpaceInv /\ [TaskNext]_taskVars => [Good]_taskVars
  <2> SUFFICES ASSUME SpaceInv, TaskNext, NEW p \in Files,
                      user = <<>>, user' = executeProcess(p)
               PROVE  Started(p)
    OBVIOUS
  <2>1. user' # <<>>
    BY DEF executeProcess
  <2>2. PICK q \in Files : cmd_exec(q)
    BY <2>1 DEF TaskNext, KernelStep, cmd_exec_fails, taskVars
  <2>3. user' = executeProcess(q)
    BY <2>1, <2>2 DEF cmd_exec
  <2>4. q = p
    BY <2>3 DEF executeProcess
  <2> QED
    BY <2>2, <2>4, ExecLoads
<1>2. ProgramIsLoaded <=> [][Good]_taskVars
  BY DEF ProgramIsLoaded, Started
<1> HIDE DEF Good
<1> QED
  BY <1>1, <1>2, SpaceInvariant, PTL DEF TaskSpec
=============================================================================
