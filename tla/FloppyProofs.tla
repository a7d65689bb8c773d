---------------------------- MODULE FloppyProofs ----------------------------
(***************************************************************************)
(* Proofs about the floppy driver, for every disk with two sides, every    *)
(* number of tries and sleeps, and every set of sectors asked for.         *)
(***************************************************************************)
EXTENDS Floppy, Lemmas

-----------------------------------------------------------------------------
(* The inductive invariant *)

Answers == {"reset", "calibrated", "sought", "results"}

(* The driver waits for the command whose answer it looks at in r, or is    *)
(* about to look.                                                          *)
At(r) == pc = r \/ (pc \in {"wait", "clear"} /\ return = r)

Installing == pc \in {"boot", "calibrate"} \/ At("reset") \/ At("calibrated")

ControlInv ==
    /\ pc \in {"wait", "clear"} => return \in Answers
    /\ At("calibrated") \/ At("sought") => attempt < Attempts
    /\ ~ Installing /\ pc # "idle" => wanted \in Requests

(* Channel 2 is open only for a transfer of the whole buffer, and is closed *)
(* by it; while the registers are written, channel 4 is closed.  A late     *)
(* read that ends before the last dma_set_read has the used-up channel      *)
(* opened again, but its result bytes keep the next read from beginning, so *)
(* that there is none to carry anything.                                    *)
Programmed ==
    /\ dma.address = Spread(DMA_BUFFER)
    /\ dma.count = Spread(511)

NoReader ==
    /\ busy.op # "read"
    /\ pc \in {"mode", "read"} => busy = Idle /\ unread > 0

DmaInv ==
    /\ dma.flip = 0
    /\ pc = "open" => Programmed /\ 4 \notin dma.open
    /\ FDC_DMA_CHANNEL \in dma.open \/ pc = "mode" => Programmed \/ NoReader
    /\ Installing => FDC_DMA_CHANNEL \notin dma.open

(* With a prompt controller: what its next answer is, ...                  *)
CommandOf(r) ==
    CASE r = "reset" -> [op |-> "reset"]
      [] r = "calibrated" -> [op |-> "calibrate"]
      [] r = "sought" -> [op |-> "seek", cyl |-> lba2chs(wanted).track]
      [] OTHER -> [op |-> "read", track |-> lba2chs(wanted).track,
                   head |-> lba2chs(wanted).head, sector |-> lba2chs(wanted).sector]

OnTrack == head_cyl = lba2chs(wanted).track

Running(r) ==
    /\ busy = CommandOf(r) /\ ~ irq_line /\ _FloppyDiskIRQ = 0
    /\ statuses = 0 /\ unread = 0
    /\ r = "results" => OnTrack

(* ... what it leaves when the command is done, ...                        *)
Done(r) ==
    /\ busy = Idle
    /\ statuses = CASE r = "reset" -> 4 [] r = "results" -> 0 [] OTHER -> 1
    /\ unread = IF r = "results" THEN 7 ELSE 0
    /\ r = "calibrated" => head_cyl = 0
    /\ r \in {"sought", "results"} => OnTrack

(* ... and that it owes nothing between two commands. *)
Clean ==
    /\ busy = Idle /\ ~ irq_line /\ _FloppyDiskIRQ = 0
    /\ statuses = 0 /\ unread = 0

PromptInv ==
    prompt =>
        /\ pc \in {"boot", "idle"} => Clean /\ ~ motor
        /\ pc \in {"calibrate", "seek", "dma", "open", "mode", "read"} => Clean
        /\ pc = "seek" \/ At("sought") => attempt = 0
        /\ pc \in {"dma", "open", "mode", "read"} => OnTrack
        /\ pc = "wait" => \/ Running(return)
                          \/ Done(return) /\ _FloppyDiskIRQ \in {0, 1}
                                          /\ (irq_line <=> _FloppyDiskIRQ = 0)
        /\ pc = "clear" => Done(return) /\ ~ irq_line /\ _FloppyDiskIRQ = 1
        /\ pc \in {"wait", "clear"} => timer < WaitLimit
        /\ pc \in Answers => Done(pc) /\ ~ irq_line /\ _FloppyDiskIRQ = 0 /\ in_time

IInv == TypeOK /\ ControlInv /\ DmaInv /\ PromptInv

-----------------------------------------------------------------------------
(* Geometry *)

(* The address a logical block is turned into is one of the disk. *)
LEMMA ChsType ==
    ASSUME NEW lba \in Requests
    PROVE  /\ lba2chs(lba).track \in Cylinders
           /\ lba2chs(lba).head \in 0 .. (Heads - 1)
           /\ lba2chs(lba).sector \in 1 .. SectorsPerTrack
<1> DEFINE n == SectorsPerTrack
           q == lba \div (n * 2)
           r == lba % (n * 2)
<1>1. /\ n \in Nat \ {0} /\ n * 2 \in Nat \ {0} /\ n * 2 = n + n
      /\ Tracks \in Nat \ {0} /\ Heads = 2
  BY FdcAssumption, FloppyAssumption
<1>2. lba \in Nat /\ lba < Tracks * 2 * n /\ Tracks * 2 * n = Tracks * (n * 2)
  BY <1>1, FloppyAssumption DEF Sectors
<1>3. q \in Nat /\ r \in 0 .. (n * 2 - 1) /\ lba = q * (n * 2) + r
  <2>1. lba \in Nat /\ n * 2 \in Nat \ {0}
    BY <1>1, <1>2
  <2> HIDE DEF n
  <2> QED
    BY <2>1, DivModNat, Zenon
<1>4. q < Tracks
  <2>1. SUFFICES ASSUME Tracks <= q PROVE FALSE
    BY <1>1, <1>3
  <2> HIDE DEF q, r
  <2>2. Tracks * (n * 2) <= q * (n * 2)
    BY <1>1, <1>3, <2>1, MulMono
  <2>3. q * (n * 2) \in Nat
    BY <1>1, <1>3
  <2> QED
    BY <1>1, <1>2, <1>3, <2>2, <2>3
<1>5. r \div n \in 0 .. 1
  <2> HIDE DEF r
  <2>1. r \div n \in Nat /\ r % n \in 0 .. (n - 1) /\ r = (r \div n) * n + (r % n)
    <3>1. r \in Nat /\ n \in Nat \ {0}
      BY <1>1, <1>3
    <3> HIDE DEF n
    <3> QED
      BY <3>1, DivModNat, Zenon
  <2>2. SUFFICES ASSUME 2 <= r \div n PROVE FALSE
    BY <2>1
  <2>3. 2 * n <= (r \div n) * n
    <3>1. r \div n \in Int /\ 2 \in Int /\ n \in Nat
      BY <1>1, <2>1
    <3> QED
      BY <2>2, <3>1, MulMono
  <2> QED
    BY <1>1, <1>3, <2>1, <2>3
<1>6. lba % n \in 0 .. (n - 1)
  BY <1>1, <1>2, DivModType
<1> QED
  BY <1>1, <1>3, <1>4, <1>5, <1>6 DEF lba2chs, Cylinders

(* What a read of such an address brings is a sector of the disk. *)
LEMMA SectorAtType ==
    ASSUME NEW track \in Cylinders, NEW head \in 0 .. (Heads - 1),
           NEW sector \in 1 .. SectorsPerTrack
    PROVE  SectorAt(track, head, sector) \in Sectors
<1> DEFINE n == SectorsPerTrack
           k == track * Heads + head
<1>1. /\ n \in Nat \ {0} /\ Tracks \in Nat \ {0} /\ Heads = 2
      /\ k \in Nat /\ k <= Tracks * Heads - 1 /\ Tracks * Heads \in Nat
  BY FdcAssumption, FloppyAssumption DEF Cylinders
<1>2. k * n <= (Tracks * Heads - 1) * n /\ k * n \in Nat
  <2> HIDE DEF k
  <2> QED
    BY <1>1, MulMono
<1>3. (Tracks * Heads - 1) * n = Tracks * Heads * n - n
  BY <1>1
<1> HIDE DEF k
<1>4. Tracks * Heads * n \in Nat
  BY <1>1
<1> QED
  BY <1>1, <1>2, <1>3, <1>4 DEF SectorAt, Sectors, k

-----------------------------------------------------------------------------
(* The DMA controllers *)

LEMMA SpreadType ==
    ASSUME NEW n \in Nat
    PROVE  Spread(n) \in [{0, 1} -> Byte]
<1>1. n % 256 \in 0 .. 255 /\ n \div 256 \in Nat /\ (n \div 256) % 256 \in 0 .. 255
  OBVIOUS
<1> QED
  BY <1>1 DEF Spread, Low, High, Byte

LEMMA ValueType ==
    ASSUME NEW bytes \in [{0, 1} -> Byte]
    PROVE  Value(bytes) \in Nat
<1>1. PICK low \in 0 .. 255, high \in 0 .. 255 : low = bytes[0] /\ high = bytes[1]
  BY DEF Byte
<1>2. low + 256 * high \in Nat
  OBVIOUS
<1> QED
  BY <1>1, <1>2 DEF Value

(* The channels of the two DMA controllers. *)
LEMMA Channels == ChannelsOf(0) = {0, 1, 2, 3} /\ ChannelsOf(1) = {4, 5, 6, 7}
  BY DEF ChannelsOf, ControllerOf

(* What the code means to mask, channel 2, it opens. *)
LEMMA MaskChannel ==
    ASSUME NEW d \in DmaState
    PROVE  /\ dma_mask_channel(d, 2) \in DmaState
           /\ dma_mask_channel(d, 2).open = d.open \cup {2}
           /\ dma_mask_channel(d, 2).flip = d.flip
           /\ dma_mask_channel(d, 2).address = d.address
           /\ dma_mask_channel(d, 2).count = d.count
<1>1. dma_mask_channel(d, 2) = [d EXCEPT !.open = @ \cup {2}]
  BY DEF dma_mask_channel
<1> QED
  BY <1>1 DEF DmaState

(* Masking every channel of controller 1 leaves the rest. *)
LEMMA ResetController ==
    ASSUME NEW d \in DmaState
    PROVE  /\ dma_reset(d, 1) \in DmaState
           /\ dma_reset(d, 1).open = d.open \ {4, 5, 6, 7}
           /\ dma_reset(d, 1).flip = d.flip
<1>1. dma_reset(d, 1) = [d EXCEPT !.open = @ \ ChannelsOf(1), !.flip = @]
  BY DEF dma_reset
<1> QED
  BY <1>1, Channels DEF DmaState

(* The flip-flop that is reset is the other controller's. *)
LEMMA ResetFlipFlop ==
    ASSUME NEW d \in DmaState
    PROVE  dma_reset_flipflop(d, 1) = d
<1>1. dma_reset_flipflop(d, 1) = [d EXCEPT !.flip = @]
  BY DEF dma_reset_flipflop
<1> QED
  BY <1>1 DEF DmaState

(* What is meant to mask a channel opens all four, and touches no register. *)
LEMMA UnmaskAll ==
    ASSUME NEW d \in DmaState, NEW c \in {0, 1}
    PROVE  /\ dma_unmask_all(d, c) \in DmaState
           /\ dma_unmask_all(d, c).open = d.open \cup ChannelsOf(c)
           /\ dma_unmask_all(d, c).flip = d.flip
           /\ dma_unmask_all(d, c).address = d.address
           /\ dma_unmask_all(d, c).count = d.count
  BY DEF dma_unmask_all, DmaState, ChannelsOf

(* The last call programs the mode and opens every channel of controller 0. *)
LEMMA SetRead ==
    ASSUME NEW d \in DmaState
    PROVE  /\ dma_set_read(d, FDC_DMA_CHANNEL) \in DmaState
           /\ dma_set_read(d, FDC_DMA_CHANNEL).open = d.open \cup {0, 1, 2, 3}
           /\ dma_set_read(d, FDC_DMA_CHANNEL).flip = d.flip
           /\ dma_set_read(d, FDC_DMA_CHANNEL).address = d.address
           /\ dma_set_read(d, FDC_DMA_CHANNEL).count = d.count
<1> DEFINE m == dma_mask_channel(d, 2)
           t == [m EXCEPT !.mode = TRUE]
<1>1. /\ m \in DmaState /\ m.open = d.open \cup {2} /\ m.flip = d.flip
      /\ m.address = d.address /\ m.count = d.count
  BY MaskChannel
<1>2. dma_set_read(d, FDC_DMA_CHANNEL) = dma_unmask_all(t, 0)
  BY DEF dma_set_read, dma_set_mode, FDC_DMA_CHANNEL, ControllerOf
<1>3. /\ t \in DmaState /\ t.open = m.open /\ t.flip = m.flip
      /\ t.address = m.address /\ t.count = m.count
  <2> HIDE DEF m
  <2> QED
    BY <1>1 DEF DmaState
<1> HIDE DEF t, m
<1>4. /\ dma_unmask_all(t, 0) \in DmaState
      /\ dma_unmask_all(t, 0).open = t.open \cup {0, 1, 2, 3}
      /\ dma_unmask_all(t, 0).flip = t.flip
      /\ dma_unmask_all(t, 0).address = t.address
      /\ dma_unmask_all(t, 0).count = t.count
  BY <1>3, Channels, UnmaskAll
<1> QED
  BY <1>1, <1>2, <1>3, <1>4

(* Two bytes go into a register low byte first when the flip-flop is clear, *)
(* and leave it clear.                                                      *)
LEMMA WriteAddress ==
    ASSUME NEW d \in DmaState, d.flip = 0, NEW low \in Byte, NEW high \in Byte
    PROVE  /\ dma_set_address(d, low, high) \in DmaState
           /\ dma_set_address(d, low, high).flip = 0
           /\ dma_set_address(d, low, high).open = d.open
           /\ dma_set_address(d, low, high).count = d.count
           /\ dma_set_address(d, low, high).address =
                 [i \in {0, 1} |-> IF i = 0 THEN low ELSE high]
<1> DEFINE first == OutAddress(d, low)
<1>1. /\ first \in DmaState /\ first.flip = 1 /\ first.open = d.open
      /\ first.count = d.count /\ first.address = [d.address EXCEPT ![0] = low]
  <2>1. PICK f \in [{0, 1} -> Byte] : f = [d.address EXCEPT ![0] = low]
    BY DEF DmaState
  <2>2. first = [d EXCEPT !.address = f, !.flip = 1]
    BY <2>1 DEF OutAddress
  <2> QED
    BY <2>1, <2>2 DEF DmaState
<1> HIDE DEF first
<1> DEFINE second == OutAddress(first, high)
<1>2. /\ second \in DmaState /\ second.flip = 0 /\ second.open = d.open
      /\ second.count = d.count /\ second.address = [first.address EXCEPT ![1] = high]
  <2>1. PICK f \in [{0, 1} -> Byte] : f = [first.address EXCEPT ![1] = high]
    BY <1>1 DEF DmaState
  <2>2. second = [first EXCEPT !.address = f, !.flip = 0]
    BY <1>1, <2>1 DEF OutAddress
  <2> QED
    BY <1>1, <2>1, <2>2 DEF DmaState
<1> HIDE DEF second
<1>3. second.address = [i \in {0, 1} |-> IF i = 0 THEN low ELSE high]
  <2>1. d.address \in [{0, 1} -> Byte]
    BY DEF DmaState
  <2> QED
    BY <1>1, <1>2, <2>1
<1>4. dma_set_address(d, low, high) = second
  BY DEF dma_set_address, first, second
<1> QED
  BY <1>2, <1>3, <1>4

(* Both halves of the count are written, since the flip-flop was at the low *)
(* one.                                                                     *)
LEMMA WriteCount ==
    ASSUME NEW d \in DmaState, d.flip = 0, NEW low \in Byte, NEW high \in Byte
    PROVE  /\ dma_set_count(d, low, high) \in DmaState
           /\ dma_set_count(d, low, high).flip = 0
           /\ dma_set_count(d, low, high).open = d.open
           /\ dma_set_count(d, low, high).address = d.address
           /\ dma_set_count(d, low, high).count =
                 [i \in {0, 1} |-> IF i = 0 THEN low ELSE high]
<1> DEFINE first == OutCount(d, low)
<1>1. /\ first \in DmaState /\ first.flip = 1 /\ first.open = d.open
      /\ first.address = d.address /\ first.count = [d.count EXCEPT ![0] = low]
  <2>1. PICK f \in [{0, 1} -> Byte] : f = [d.count EXCEPT ![0] = low]
    BY DEF DmaState
  <2>2. first = [d EXCEPT !.count = f, !.flip = 1]
    BY <2>1 DEF OutCount
  <2> QED
    BY <2>1, <2>2 DEF DmaState
<1> HIDE DEF first
<1> DEFINE second == OutCount(first, high)
<1>2. /\ second \in DmaState /\ second.flip = 0 /\ second.open = d.open
      /\ second.address = d.address /\ second.count = [first.count EXCEPT ![1] = high]
  <2>1. PICK f \in [{0, 1} -> Byte] : f = [first.count EXCEPT ![1] = high]
    BY <1>1 DEF DmaState
  <2>2. second = [first EXCEPT !.count = f, !.flip = 0]
    BY <1>1, <2>1 DEF OutCount
  <2> QED
    BY <1>1, <2>1, <2>2 DEF DmaState
<1> HIDE DEF second
<1>3. second.count = [i \in {0, 1} |-> IF i = 0 THEN low ELSE high]
  <2>1. d.count \in [{0, 1} -> Byte]
    BY DEF DmaState
  <2> QED
    BY <1>1, <1>2, <2>1
<1>4. dma_set_count(d, low, high) = second
  BY DEF dma_set_count, first, second
<1> QED
  BY <1>2, <1>3, <1>4

(* Writing an address and a count for channel 2 leaves the flip-flop where  *)
(* it was, although nothing resets it, and channel 4 closed.               *)
LEMMA ProgramDma ==
    ASSUME NEW d \in DmaState, d.flip = 0, NEW address \in {0, 32768},
           NEW e, e = dma_init_floppydisk(d, address, 512)
    PROVE  /\ e \in DmaState /\ e.flip = 0
           /\ e.address = Spread(address) /\ e.count = Spread(511)
           /\ 4 \notin e.open
<1> DEFINE closed == dma_reset(d, 1)
           begun == dma_mask_channel(closed, 2)
           addressed == dma_set_address(begun, Low(address), High(address))
           counted == dma_set_count(addressed, Low(511), High(511))
<1>1. closed \in DmaState /\ closed.flip = 0 /\ 4 \notin closed.open
  BY ResetController
<1>2. begun \in DmaState /\ begun.flip = 0 /\ 4 \notin begun.open
  <2> HIDE DEF closed
  <2> QED
    BY <1>1, MaskChannel
<1>3. /\ Low(address) \in Byte /\ High(address) \in Byte
      /\ Low(511) \in Byte /\ High(511) \in Byte
  BY DEF Low, High, Byte
<1>4. /\ addressed \in DmaState /\ addressed.flip = 0 /\ 4 \notin addressed.open
      /\ addressed.address = Spread(address)
  <2> HIDE DEF begun
  <2> QED
    BY <1>2, <1>3, WriteAddress DEF Spread
<1>5. /\ counted \in DmaState /\ counted.flip = 0 /\ 4 \notin counted.open
      /\ counted.address = Spread(address) /\ counted.count = Spread(511)
  <2> HIDE DEF addressed
  <2> QED
    BY <1>3, <1>4, WriteCount DEF Spread
<1>6. e = dma_set_read(counted, FDC_DMA_CHANNEL)
  <2>1. dma_reset_flipflop(begun, 1) = begun /\ dma_reset_flipflop(addressed, 1) = addressed
    <3> HIDE DEF begun, addressed
    <3> QED
      BY <1>2, <1>4, ResetFlipFlop
  <2>2. Sane(address, 512) /\ 512 - 1 = 511
    BY DEF Sane
  <2> HIDE DEF closed, begun, addressed
  <2>3. e = dma_set_read(dma_set_count(addressed, Low(512 - 1), High(512 - 1)), FDC_DMA_CHANNEL)
    BY <2>1, <2>2 DEF dma_init_floppydisk, closed, begun, addressed, FDC_DMA_CHANNEL
  <2> QED
    BY <2>2, <2>3
<1> HIDE DEF counted
<1> QED
  BY <1>5, <1>6, SetRead

(* The last calls open channels and move nothing. *)
LEMMA OpenDma ==
    ASSUME NEW d \in DmaState,
           NEW e \in {dma_unmask_all(d, 1), dma_set_read(d, FDC_DMA_CHANNEL)}
    PROVE  /\ e \in DmaState /\ e.flip = d.flip
           /\ e.address = d.address /\ e.count = d.count
  BY UnmaskAll, SetRead

(* A transfer closes its channel. *)
LEMMA CarriedDma ==
    ASSUME NEW d \in DmaState
    PROVE  /\ Carried(d) \in DmaState /\ Carried(d).flip = d.flip
           /\ Carried(d).open = d.open \ {FDC_DMA_CHANNEL}
<1> DEFINE sum == Value(d.address) + Value(d.count) + 1
<1>1. sum \in Nat
  <2>1. Value(d.address) \in Nat /\ Value(d.count) \in Nat
    BY ValueType DEF DmaState
  <2> QED
    BY <2>1
<1>2. Spread(sum) \in [{0, 1} -> Byte] /\ Spread(65535) \in [{0, 1} -> Byte]
  <2> HIDE DEF sum
  <2> QED
    BY <1>1, SpreadType
<1>3. PICK a \in [{0, 1} -> Byte], c \in [{0, 1} -> Byte] :
         a = Spread(sum) /\ c = Spread(65535)
  <2> HIDE DEF sum
  <2> QED
    BY <1>2
<1>4. Carried(d) = [d EXCEPT !.open = @ \ {FDC_DMA_CHANNEL}, !.address = a, !.count = c]
  BY <1>3 DEF Carried
<1> QED
  BY <1>4 DEF DmaState

(* A register holds what was spread into it. *)
LEMMA ValueOfSpread ==
    ASSUME NEW n \in {0, 511, 32768}
    PROVE  Value(Spread(n)) = n
  BY DEF Value, Spread, Low, High

-----------------------------------------------------------------------------
(* Every action preserves the invariant *)

(* A step of the driver outside of its DMA code. *)
LEMMA DmaKept ==
    ASSUME DmaInv, UNCHANGED <<dma, installed>>, pc' \notin {"open", "mode", "read"},
           NoReader => busy'.op # "read", Installing' => Installing
    PROVE  DmaInv'
  BY DEF DmaInv, Programmed, NoReader, DMA_BUFFER

LEMMA InitIInv == Init => IInv
<1> SUFFICES ASSUME Init PROVE IInv
  OBVIOUS
<1>1. dma \in DmaState /\ dma.flip = 0 /\ dma.open = {4}
  BY DEF Init, FdcInit, DmaBoot, DmaState, Byte
<1>2. TypeOK
  BY <1>1, FloppyAssumption
     DEF Init, FdcInit, TypeOK, Commands, Labels, Cylinders
<1>3. ControlInv
  BY DEF Init, ControlInv, Installing, At
<1>4. DmaInv
  BY <1>1 DEF Init, DmaInv, Installing, FDC_DMA_CHANNEL
<1>5. PromptInv
  BY DEF Init, FdcInit, PromptInv, Clean, At, Answers
<1> QED
  BY <1>2, <1>3, <1>4, <1>5 DEF IInv

(* The command of a wait is done, or a late one is. *)
LEMMA ControllerIInv == IInv /\ Controller => IInv'
<1> SUFFICES ASSUME IInv, Controller PROVE IInv'
  OBVIOUS
<1> USE DEF IInv
<1>1. TypeOK'
  <2>1. head_cyl' \in Cylinders
    BY FdcAssumption DEF TypeOK, Controller, FdcDone, Commands, Cylinders, Idle
  <2>2. statuses' \in 0 .. 4 /\ unread' \in 0 .. 7 /\ busy' \in Commands
    BY DEF Controller, FdcDone, Commands
  <2>3. dma' \in DmaState
    BY CarriedDma DEF TypeOK, Controller, FdcDone
  <2>4. buffer' \in Sectors \cup {NoSector}
    <3>1. CASE busy.op = "read"
      <4>1. /\ busy.track \in Cylinders /\ busy.head \in 0 .. (Heads - 1)
            /\ busy.sector \in 1 .. SectorsPerTrack
        BY <3>1 DEF TypeOK, Commands, Idle
      <4>2. SectorAt(busy.track, busy.head, busy.sector) \in Sectors
        BY <4>1, SectorAtType
      <4> QED
        BY <4>2 DEF TypeOK, Controller, FdcDone
    <3>2. CASE busy.op # "read"
      BY <3>2 DEF TypeOK, Controller, FdcDone, Transfers
    <3> QED
      BY <3>1, <3>2
  <2> QED
    BY <2>1, <2>2, <2>3, <2>4 DEF TypeOK, Controller, driverVars
<1>2. ControlInv'
  BY DEF ControlInv, Controller, driverVars, At, Installing
<1>3. DmaInv'
  <2>1. CASE Transfers
    <3>1. dma' = Carried(dma) /\ FDC_DMA_CHANNEL \in dma.open /\ 4 \in dma.open
      BY <2>1 DEF Controller, FdcDone, Transfers, Carries
    <3>2. dma'.flip = 0 /\ FDC_DMA_CHANNEL \notin dma'.open /\ pc # "open"
      BY <3>1, CarriedDma DEF TypeOK, DmaInv
    <3>3. NoReader'
      BY <2>1 DEF Controller, FdcDone, Transfers, NoReader, Idle
    <3> QED
      BY <3>2, <3>3 DEF DmaInv, Controller, driverVars
  <2>2. CASE ~ Transfers
    BY <2>2 DEF DmaInv, Programmed, NoReader, DMA_BUFFER, Controller, FdcDone,
                driverVars, Installing, At, Idle
  <2> QED
    BY <2>1, <2>2
<1>4. PromptInv'
  <2> SUFFICES ASSUME prompt PROVE PromptInv'
    BY DEF PromptInv, Controller
  <2>1. busy # Idle
    BY DEF Controller, FdcDone
  <2>2. pc = "wait" /\ Running(return) /\ return \in Answers
    BY <2>1 DEF PromptInv, Clean, Done, TypeOK, Labels, Answers, ControlInv
  <2>3. Done(return)'
    BY <2>2 DEF Controller, FdcDone, Running, CommandOf, OnTrack, Done, Answers,
                driverVars
  <2>4. irq_line' /\ _FloppyDiskIRQ' = 0
    BY <2>2 DEF Controller, FdcDone, Running
  <2>5. pc' = "wait" /\ return' = return /\ timer' = timer /\ attempt' = attempt
    BY <2>2 DEF Controller, driverVars
  <2> QED
    BY <2>2, <2>3, <2>4, <2>5 DEF PromptInv, At, Answers
<1> QED
  BY <1>1, <1>2, <1>3, <1>4

(* An interrupt, late or in time, leaves the invariant. *)
LEMMA InterruptIInv == IInv /\ i86_floppy_irq_c => IInv'
<1> SUFFICES ASSUME IInv, i86_floppy_irq_c PROVE IInv'
  OBVIOUS
<1> USE DEF IInv, i86_floppy_irq_c, driverVars
<1>1. TypeOK'
  BY DEF TypeOK
<1>2. ControlInv'
  BY DEF ControlInv, At, Installing
<1>3. DmaInv'
  BY DEF DmaInv, Programmed, NoReader, DMA_BUFFER, Installing, At
<1>4. PromptInv'
  <2> SUFFICES ASSUME prompt PROVE PromptInv'
    BY DEF PromptInv
  <2>1. pc = "wait" /\ Done(return) /\ return \in Answers
    BY DEF PromptInv, Clean, Running, TypeOK, Labels, Answers, ControlInv
  <2>2. Done(return)'
    BY <2>1 DEF Done, OnTrack
  <2> QED
    BY <2>1, <2>2 DEF PromptInv, At, Answers
<1> QED
  BY <1>1, <1>2, <1>3, <1>4

(* Sleeping wakes before the limit when the controller is prompt. *)
LEMMA SleepIInv == IInv /\ Sleep /\ UNCHANGED <<dma, prompt>> => IInv'
<1> SUFFICES ASSUME IInv, Sleep, UNCHANGED <<dma, prompt>> PROVE IInv'
  OBVIOUS
<1> USE DEF IInv, Sleep, fdcVars
<1>1. TypeOK'
  BY FloppyAssumption DEF TypeOK, Labels
<1>2. ControlInv'
  BY DEF ControlInv, At, Installing, Answers, TypeOK
<1>3. DmaInv'
  BY DmaKept DEF TypeOK, Labels, ControlInv, Answers, Installing, At, NoReader,
                 Give, Accepts
<1>4. PromptInv'
  <2> SUFFICES ASSUME prompt PROVE PromptInv'
    BY DEF PromptInv
  <2>1. Running(return) \/ (Done(return) /\ irq_line)
    BY DEF PromptInv
  <2>2. busy # Idle \/ irq_line
    BY <2>1 DEF Running, CommandOf, Idle, ControlInv, Answers
  <2>3. timer + 1 < WaitLimit
    BY <2>2, FloppyAssumption DEF TypeOK
  <2>4. Running(return)' <=> Running(return)
    BY DEF Running, CommandOf, OnTrack
  <2>5. Done(return)' <=> Done(return)
    BY DEF Done, OnTrack
  <2> QED
    BY <2>3, <2>4, <2>5 DEF PromptInv, At, Answers
<1> QED
  BY <1>1, <1>2, <1>3, <1>4

(* A wait ends for the interrupt, in time when the controller is prompt. *)
LEMMA WaitEndsIInv == IInv /\ WaitEnds /\ UNCHANGED <<dma, prompt>> => IInv'
<1> SUFFICES ASSUME IInv, WaitEnds, UNCHANGED <<dma, prompt>> PROVE IInv'
  OBVIOUS
<1> USE DEF IInv, WaitEnds, fdcVars
<1>1. TypeOK'
  BY DEF TypeOK, Labels
<1>2. ControlInv'
  BY DEF ControlInv, At, Installing, Answers, TypeOK
<1>3. DmaInv'
  BY DmaKept DEF TypeOK, Labels, ControlInv, Answers, Installing, At, NoReader,
                 Give, Accepts
<1>4. PromptInv'
  <2> SUFFICES ASSUME prompt PROVE PromptInv'
    BY DEF PromptInv
  <2>1. _FloppyDiskIRQ = 1 /\ timer < WaitLimit
    BY FloppyAssumption DEF PromptInv, TypeOK
  <2>2. Done(return) /\ ~ irq_line
    BY <2>1 DEF PromptInv, Running, TypeOK
  <2>3. Done(return)'
    BY <2>2 DEF Done, OnTrack
  <2> QED
    BY <2>1, <2>2, <2>3 DEF PromptInv, At, Answers
<1> QED
  BY <1>1, <1>2, <1>3, <1>4

(* Clearing the flag leaves nothing for the next wait. *)
LEMMA WaitReturnsIInv == IInv /\ WaitReturns /\ UNCHANGED <<dma, prompt>> => IInv'
<1> SUFFICES ASSUME IInv, WaitReturns, UNCHANGED <<dma, prompt>> PROVE IInv'
  OBVIOUS
<1> USE DEF IInv, WaitReturns, fdcVars
<1>1. TypeOK'
  BY DEF TypeOK, Labels
<1>2. ControlInv'
  BY DEF ControlInv, At, Installing, Answers, TypeOK
<1>3. DmaInv'
  BY DmaKept DEF TypeOK, Labels, ControlInv, Answers, Installing, At, NoReader,
                 Give, Accepts
<1>4. PromptInv'
  <2> SUFFICES ASSUME prompt PROVE PromptInv'
    BY DEF PromptInv
  <2>1. Done(return) /\ ~ irq_line /\ timer < WaitLimit /\ return \in Answers
    BY DEF PromptInv, ControlInv
  <2>2. Done(return)' /\ pc' = return'
    BY <2>1 DEF Done, OnTrack
  <2> QED
    BY <2>1, <2>2 DEF PromptInv, At, Answers
<1> QED
  BY <1>1, <1>2, <1>3, <1>4

LEMMA InstallIInv == IInv /\ Install /\ UNCHANGED <<dma, prompt>> => IInv'
<1> SUFFICES ASSUME IInv, Install, UNCHANGED <<dma, prompt>> PROVE IInv'
  OBVIOUS
<1> USE DEF IInv, Install, WaitFor
<1>1. TypeOK'
  BY FloppyAssumption DEF TypeOK, Labels, Commands
<1>2. ControlInv'
  BY DEF ControlInv, At, Installing, Answers, TypeOK
<1>3. DmaInv'
  BY DmaKept DEF TypeOK, Labels, ControlInv, Answers, Installing, At, NoReader,
                 Give, Accepts
<1>4. PromptInv'
  <2> SUFFICES ASSUME prompt PROVE PromptInv'
    BY DEF PromptInv
  <2>1. Running(return)'
    BY DEF PromptInv, Running, CommandOf, OnTrack, Clean, Idle
  <2> QED
    BY <2>1, FloppyAssumption DEF PromptInv, At, Answers
<1> QED
  BY <1>1, <1>2, <1>3, <1>4

LEMMA ResetTimesOutIInv == IInv /\ ResetTimesOut /\ UNCHANGED <<dma, prompt>> => IInv'
<1> SUFFICES ASSUME IInv, ResetTimesOut, UNCHANGED <<dma, prompt>> PROVE IInv'
  OBVIOUS
<1> USE DEF IInv, ResetTimesOut, fdcVars
<1>1. TypeOK'
  BY DEF TypeOK, Labels
<1>2. ControlInv'
  BY DEF ControlInv, At, Installing, Answers, TypeOK
<1>3. DmaInv'
  BY DmaKept DEF TypeOK, Labels, ControlInv, Answers, Installing, At, NoReader,
                 Give, Accepts
<1>4. PromptInv'
  <2> SUFFICES ASSUME prompt PROVE PromptInv'
    BY DEF PromptInv
  <2> QED
    BY DEF PromptInv, TypeOK, Labels, ControlInv, At, Answers
<1> QED
  BY <1>1, <1>2, <1>3, <1>4

(* Four senses take the four statuses of a reset. *)
LEMMA ResetGoesOnIInv == IInv /\ ResetGoesOn /\ UNCHANGED <<dma, prompt>> => IInv'
<1> SUFFICES ASSUME IInv, ResetGoesOn, UNCHANGED <<dma, prompt>> PROVE IInv'
  OBVIOUS
<1> USE DEF IInv, ResetGoesOn, AfterSenses, Accepts, control_motor
<1>1. TypeOK'
  BY FloppyAssumption DEF TypeOK, Labels
<1>2. ControlInv'
  BY DEF ControlInv, At, Installing, Answers, TypeOK
<1>3. DmaInv'
  BY DmaKept DEF TypeOK, Labels, ControlInv, Answers, Installing, At, NoReader,
                 Give, Accepts
<1>4. PromptInv'
  <2> SUFFICES ASSUME prompt PROVE PromptInv'
    BY DEF PromptInv
  <2> QED
    BY DEF PromptInv, TypeOK, Labels, ControlInv, At, Answers, Clean, Done, Idle
<1> QED
  BY <1>1, <1>2, <1>3, <1>4

LEMMA CalibrateIInv == IInv /\ Calibrate /\ UNCHANGED <<dma, prompt>> => IInv'
<1> SUFFICES ASSUME IInv, Calibrate, UNCHANGED <<dma, prompt>> PROVE IInv'
  OBVIOUS
<1> USE DEF IInv, Calibrate, WaitFor, Give
<1>1. TypeOK'
  BY FloppyAssumption DEF TypeOK, Labels, Commands
<1>2. ControlInv'
  BY DEF ControlInv, At, Installing, Answers, TypeOK
<1>3. DmaInv'
  BY DmaKept DEF TypeOK, Labels, ControlInv, Answers, Installing, At, NoReader,
                 Give, Accepts
<1>4. PromptInv'
  <2> SUFFICES ASSUME prompt PROVE PromptInv'
    BY DEF PromptInv
  <2>1. Running(return)'
    BY DEF PromptInv, Running, CommandOf, OnTrack, Clean, Idle, Accepts
  <2> QED
    BY <2>1, FloppyAssumption DEF PromptInv, At, Answers
<1> QED
  BY <1>1, <1>2, <1>3, <1>4

(* One status is left of a calibration, so the cylinder sensed is the heads'. *)
LEMMA CalibratedIInv == IInv /\ Calibrated /\ UNCHANGED <<dma, prompt>> => IInv'
<1> SUFFICES ASSUME IInv, Calibrated, UNCHANGED <<dma, prompt>> PROVE IInv'
  OBVIOUS
<1> USE DEF IInv, Calibrated, AfterSenses, Accepts, control_motor
<1>1. TypeOK'
  BY FloppyAssumption DEF TypeOK, Labels, ControlInv, At
<1>2. ControlInv'
  BY DEF ControlInv, At, Installing, Answers, TypeOK
<1>3. DmaInv'
  BY DEF DmaInv, NoReader, Installing, At
<1>4. PromptInv'
  <2> SUFFICES ASSUME prompt PROVE PromptInv'
    BY DEF PromptInv
  <2>1. Done("calibrated") /\ ~ irq_line /\ _FloppyDiskIRQ = 0
    BY DEF PromptInv, Answers
  <2>2. Sensed = {0}
    BY <2>1 DEF Done, Sensed, Idle
  <2>3. pc' = "idle" /\ motor' = FALSE
    BY <2>2
  <2>4. Clean'
    BY <2>1 DEF Done, Clean, Idle
  <2> QED
    BY <2>3, <2>4 DEF PromptInv, At, Answers
<1> QED
  BY <1>1, <1>2, <1>3, <1>4

LEMMA CalibrationFailsIInv == IInv /\ CalibrationFails /\ UNCHANGED <<dma, prompt>> => IInv'
<1> SUFFICES ASSUME IInv, CalibrationFails, UNCHANGED <<dma, prompt>> PROVE IInv'
  OBVIOUS
<1> USE DEF IInv, CalibrationFails, control_motor
<1>1. TypeOK'
  BY DEF TypeOK, Labels
<1>2. ControlInv'
  BY DEF ControlInv, At, Installing, Answers, TypeOK
<1>3. DmaInv'
  BY DEF DmaInv, NoReader, Installing, At
<1>4. PromptInv'
  <2> SUFFICES ASSUME prompt PROVE PromptInv'
    BY DEF PromptInv
  <2> QED
    BY DEF PromptInv, TypeOK, Labels, ControlInv, At, Answers, Clean
<1> QED
  BY <1>1, <1>2, <1>3, <1>4

LEMMA SeekIInv == IInv /\ Seek /\ UNCHANGED <<dma, prompt>> => IInv'
<1> SUFFICES ASSUME IInv, Seek, UNCHANGED <<dma, prompt>> PROVE IInv'
  OBVIOUS
<1> USE DEF IInv, Seek, WaitFor, Give
<1>0. /\ lba2chs(wanted).track \in Cylinders
      /\ lba2chs(wanted).head \in 0 .. (Heads - 1)
      /\ lba2chs(wanted).sector \in 1 .. SectorsPerTrack
  BY ChsType DEF ControlInv, Installing, At
<1>1. TypeOK'
  BY <1>0, FloppyAssumption DEF TypeOK, Labels, Commands
<1>2. ControlInv'
  BY DEF ControlInv, At, Installing, Answers, TypeOK
<1>3. DmaInv'
  BY DmaKept DEF TypeOK, Labels, ControlInv, Answers, Installing, At, NoReader,
                 Give, Accepts
<1>4. PromptInv'
  <2> SUFFICES ASSUME prompt PROVE PromptInv'
    BY DEF PromptInv
  <2>1. Running(return)'
    BY DEF PromptInv, Running, CommandOf, OnTrack, Clean, Idle, Accepts
  <2> QED
    BY <2>1, FloppyAssumption DEF PromptInv, At, Answers
<1> QED
  BY <1>1, <1>2, <1>3, <1>4

(* The cylinder sensed after a seek is the heads', too. *)
LEMMA SoughtIInv == IInv /\ Sought /\ UNCHANGED <<dma, prompt>> => IInv'
<1> SUFFICES ASSUME IInv, Sought, UNCHANGED <<dma, prompt>> PROVE IInv'
  OBVIOUS
<1> USE DEF IInv, Sought, AfterSenses, Accepts
<1>1. TypeOK'
  BY FloppyAssumption DEF TypeOK, Labels, ControlInv, At
<1>2. ControlInv'
  BY DEF ControlInv, At, Installing, Answers, TypeOK
<1>3. DmaInv'
  BY DmaKept DEF TypeOK, Labels, ControlInv, Answers, Installing, At, NoReader,
                 Give, Accepts
<1>4. PromptInv'
  <2> SUFFICES ASSUME prompt PROVE PromptInv'
    BY DEF PromptInv
  <2>1. Done("sought") /\ ~ irq_line /\ _FloppyDiskIRQ = 0
    BY DEF PromptInv, Answers
  <2>2. Sensed = {head_cyl} /\ OnTrack
    BY <2>1 DEF Done, Sensed, Idle
  <2>3. pc' = "dma"
    BY <2>2 DEF OnTrack
  <2>4. Clean' /\ OnTrack'
    BY <2>1, <2>2 DEF Done, Clean, Idle, OnTrack
  <2> QED
    BY <2>3, <2>4 DEF PromptInv, At, Answers
<1> QED
  BY <1>1, <1>2, <1>3, <1>4

(* With a prompt controller the first seek succeeds. *)
LEMMA SeekFailsIInv == IInv /\ SeekFails /\ UNCHANGED <<dma, prompt>> => IInv'
<1> SUFFICES ASSUME IInv, SeekFails, UNCHANGED <<dma, prompt>> PROVE IInv'
  OBVIOUS
<1> USE DEF IInv, SeekFails, fdcVars
<1>1. TypeOK'
  BY DEF TypeOK, Labels
<1>2. ControlInv'
  BY DEF ControlInv, At, Installing, Answers, TypeOK
<1>3. DmaInv'
  BY DmaKept DEF TypeOK, Labels, ControlInv, Answers, Installing, At, NoReader,
                 Give, Accepts
<1>4. PromptInv'
  <2> SUFFICES ASSUME prompt PROVE PromptInv'
    BY DEF PromptInv
  <2> QED
    BY FloppyAssumption DEF PromptInv, TypeOK, Labels, ControlInv, At, Answers
<1> QED
  BY <1>1, <1>2, <1>3, <1>4

LEMMA ReadIInv == IInv /\ Read /\ UNCHANGED <<dma, prompt>> => IInv'
<1> SUFFICES ASSUME IInv, Read, UNCHANGED <<dma, prompt>> PROVE IInv'
  OBVIOUS
<1> USE DEF IInv, Read, WaitFor, Give
<1>0. /\ lba2chs(wanted).track \in Cylinders
      /\ lba2chs(wanted).head \in 0 .. (Heads - 1)
      /\ lba2chs(wanted).sector \in 1 .. SectorsPerTrack
  BY ChsType DEF ControlInv, Installing, At
<1>1. TypeOK'
  BY <1>0, FloppyAssumption DEF TypeOK, Labels, Commands
<1>2. ControlInv'
  BY DEF ControlInv, At, Installing, Answers, TypeOK
<1>3. DmaInv'
  BY DmaKept DEF TypeOK, Labels, ControlInv, Answers, Installing, At, NoReader,
                 Give, Accepts
<1>4. PromptInv'
  <2> SUFFICES ASSUME prompt PROVE PromptInv'
    BY DEF PromptInv
  <2>1. Running(return)'
    BY DEF PromptInv, Running, CommandOf, OnTrack, Clean, Idle, Accepts
  <2> QED
    BY <2>1, FloppyAssumption DEF PromptInv, At, Answers
<1> QED
  BY <1>1, <1>2, <1>3, <1>4

LEMMA ResultsIInv == IInv /\ Results /\ UNCHANGED <<dma, prompt>> => IInv'
<1> SUFFICES ASSUME IInv, Results, UNCHANGED <<dma, prompt>> PROVE IInv'
  OBVIOUS
<1> USE DEF IInv, Results, control_motor
<1>1. TypeOK'
  BY DEF TypeOK, Labels
<1>2. ControlInv'
  BY DEF ControlInv, At, Installing, Answers, TypeOK
<1>3. DmaInv'
  BY DmaKept DEF TypeOK, Labels, ControlInv, Answers, Installing, At, NoReader,
                 Give, Accepts
<1>4. PromptInv'
  <2> SUFFICES ASSUME prompt PROVE PromptInv'
    BY DEF PromptInv
  <2> QED
    BY DEF PromptInv, TypeOK, Labels, ControlInv, At, Answers, Clean, Done, Idle
<1> QED
  BY <1>1, <1>2, <1>3, <1>4

(* The controller may carry the sector over at any moment of the call. *)
LEMMA ReadSectorIInv == IInv /\ ReadSector => IInv'
<1> SUFFICES ASSUME IInv, ReadSector PROVE IInv'
  OBVIOUS
<1> USE DEF IInv, ReadSector, control_motor
<1>1. TypeOK'
  BY FloppyAssumption DEF TypeOK, Labels
<1>2. ControlInv'
  BY DEF ControlInv, At, Installing, Answers, TypeOK
<1>3. DmaInv'
  BY DmaKept DEF TypeOK, Labels, ControlInv, Answers, Installing, At, NoReader,
                 Give, Accepts
<1>4. PromptInv'
  <2> SUFFICES ASSUME prompt PROVE PromptInv'
    BY DEF PromptInv
  <2> QED
    BY DEF PromptInv, TypeOK, Labels, ControlInv, At, Answers, Clean
<1> QED
  BY <1>1, <1>2, <1>3, <1>4

(* The registers are written while channel 4 is closed. *)
LEMMA DmaInitIInv == IInv /\ DmaInit /\ UNCHANGED prompt => IInv'
<1> SUFFICES ASSUME IInv, DmaInit, UNCHANGED prompt PROVE IInv'
  OBVIOUS
<1> USE DEF IInv, DmaInit, fdcVars
<1>0. /\ dma' \in DmaState /\ dma'.flip = 0 /\ 4 \notin dma'.open
      /\ dma'.address = Spread(DMA_BUFFER) /\ dma'.count = Spread(511)
  <2>1. dma \in DmaState /\ dma.flip = 0 /\ DMA_BUFFER \in {0, 32768}
    BY DEF TypeOK, DmaInv, DMA_BUFFER
  <2> QED
    BY <2>1, ProgramDma
<1>1. TypeOK'
  BY <1>0 DEF TypeOK, Labels
<1>2. ControlInv'
  BY DEF ControlInv, At, Installing
<1>3. DmaInv'
  BY <1>0 DEF DmaInv, Programmed, NoReader, DMA_BUFFER, Installing, At
<1>4. PromptInv'
  BY DEF PromptInv, At, Answers, Clean, OnTrack
<1> QED
  BY <1>1, <1>2, <1>3, <1>4

(* The registers are complete before channel 4 opens. *)
LEMMA DmaOpenIInv == IInv /\ DmaOpen /\ UNCHANGED prompt => IInv'
<1> SUFFICES ASSUME IInv, DmaOpen, UNCHANGED prompt PROVE IInv'
  OBVIOUS
<1> USE DEF IInv, DmaOpen, fdcVars
<1>0. /\ dma' \in DmaState /\ dma'.flip = dma.flip
      /\ dma'.address = dma.address /\ dma'.count = dma.count
  <2>1. dma \in DmaState
    BY DEF TypeOK
  <2> QED
    BY <2>1, OpenDma
<1>1. TypeOK'
  BY <1>0 DEF TypeOK, Labels
<1>2. ControlInv'
  BY DEF ControlInv, At, Installing
<1>3. DmaInv'
  BY <1>0 DEF DmaInv, Programmed, NoReader, DMA_BUFFER, Installing, At
<1>4. PromptInv'
  BY DEF PromptInv, At, Answers, Clean, OnTrack
<1> QED
  BY <1>1, <1>2, <1>3, <1>4

(* The registers may have been used up before channel 2 opens again. *)
LEMMA DmaModeIInv == IInv /\ DmaMode /\ UNCHANGED prompt => IInv'
<1> SUFFICES ASSUME IInv, DmaMode, UNCHANGED prompt PROVE IInv'
  OBVIOUS
<1> USE DEF IInv, DmaMode, fdcVars
<1>0. /\ dma' \in DmaState /\ dma'.flip = dma.flip
      /\ dma'.address = dma.address /\ dma'.count = dma.count
  <2>1. dma \in DmaState
    BY DEF TypeOK
  <2> QED
    BY <2>1, OpenDma
<1>1. TypeOK'
  BY <1>0 DEF TypeOK, Labels
<1>2. ControlInv'
  BY DEF ControlInv, At, Installing
<1>3. DmaInv'
  BY <1>0 DEF DmaInv, Programmed, NoReader, DMA_BUFFER, Installing, At
<1>4. PromptInv'
  BY DEF PromptInv, At, Answers, Clean, OnTrack
<1> QED
  BY <1>1, <1>2, <1>3, <1>4

LEMMA NextIInv == IInv /\ [Next]_vars => IInv'
<1> SUFFICES ASSUME IInv, [Next]_vars PROVE IInv'
  OBVIOUS
<1>1. CASE Controller
  BY <1>1, ControllerIInv
<1>2. CASE i86_floppy_irq_c
  BY <1>2, InterruptIInv
<1>3. CASE Driver
  <2>1. CASE DmaInit
    BY <1>3, <2>1, DmaInitIInv DEF Driver
  <2>2. CASE DmaOpen
    BY <1>3, <2>2, DmaOpenIInv DEF Driver
  <2>3. CASE DmaMode
    BY <1>3, <2>3, DmaModeIInv DEF Driver
  <2>4. CASE /\ \/ Sleep \/ WaitEnds \/ WaitReturns
                \/ Install \/ ResetTimesOut \/ ResetGoesOn
                \/ Calibrate \/ Calibrated \/ CalibrationFails
                \/ Seek \/ Sought \/ SeekFails \/ Read \/ Results
             /\ UNCHANGED <<dma, prompt>>
    BY <2>4, SleepIInv, WaitEndsIInv, WaitReturnsIInv, InstallIInv,
       ResetTimesOutIInv, ResetGoesOnIInv, CalibrateIInv, CalibratedIInv,
       CalibrationFailsIInv, SeekIInv, SoughtIInv, SeekFailsIInv, ReadIInv,
       ResultsIInv, Zenon
  <2> QED
    BY <1>3, <2>1, <2>2, <2>3, <2>4 DEF Driver
<1>4. CASE ReadSector
  BY <1>4, ReadSectorIInv
<1>5. CASE UNCHANGED vars
  BY <1>5 DEF vars, IInv, TypeOK, ControlInv, DmaInv, PromptInv, Installing, At,
              Programmed, NoReader, DMA_BUFFER, Running, Done, Clean, CommandOf, OnTrack
<1> QED
  BY <1>1, <1>2, <1>3, <1>4, <1>5 DEF Next

-----------------------------------------------------------------------------
(* What follows from the invariant *)

(* The invariant holds in every state, for every machine and every caller. *)
THEOREM FloppyInvariant == Spec => []IInv
  BY InitIInv, NextIInv, PTL DEF Spec

(* Every variable keeps its type: floppydisk_read_sector never leaves the   *)
(* driver or the controller in a state of no meaning.                       *)
THEOREM FloppyTypeOK == Spec => []TypeOK
<1>1. IInv => TypeOK
  BY DEF IInv
<1> QED
  BY <1>1, FloppyInvariant, PTL

(* When no call runs, a prompt controller owes nothing and the motor is     *)
(* off: each command's interrupt, statuses and result bytes were taken by   *)
(* the wait and the senses after it (floppydisk_wait_for_irq,               *)
(* floppydisk_check_int, floppydisk_read_sector_imp).                       *)
THEOREM FloppyLeavesNothing == Spec => []NothingLeftOver
<1>1. IInv => NothingLeftOver
  BY DEF IInv, PromptInv, Clean, NothingLeftOver
<1> QED
  BY <1>1, FloppyInvariant, PTL

(* A wait that is over found the interrupt of the command before it: the    *)
(* flag of floppydisk_wait_for_irq is never an older one.                   *)
THEOREM FloppyWaits == Spec => []WaitsForItsCommand
<1>1. IInv => WaitsForItsCommand
  BY DEF IInv, PromptInv, Done, WaitsForItsCommand
<1> QED
  BY <1>1, FloppyInvariant, PTL

(* With a controller that answers in time, a seek that reports success      *)
(* found its track, and so did a calibration: the cylinder                  *)
(* floppydisk_check_int reads is the heads'.                                *)
THEOREM FloppySeeks == Spec => SeekFindsTrack
<1>1. ASSUME IInv, prompt, Sought, pc' = "dma" PROVE head_cyl = lba2chs(wanted).track
  BY <1>1 DEF IInv, PromptInv, Sought, Done, OnTrack, Answers
<1>2. ASSUME IInv, prompt, Calibrated, pc' = "idle" PROVE head_cyl = 0
  BY <1>2 DEF IInv, PromptInv, Calibrated, Done, Answers
<1>3. IInv => [/\ prompt /\ Sought /\ pc' = "dma" => head_cyl = lba2chs(wanted).track
               /\ prompt /\ Calibrated /\ pc' = "idle" => head_cyl = 0]_vars
  BY <1>1, <1>2
<1> QED
  BY <1>3, FloppyInvariant, PTL DEF SeekFindsTrack

(* Whatever is carried to memory fills the buffer and nothing else, with a  *)
(* controller that is as late as it likes: while a read runs, channel 2 is  *)
(* open only between dma_init_floppydisk and the next transfer.             *)
THEOREM FloppyTransfers == Spec => TransfersFillTheBuffer
<1>1. ASSUME IInv, Transfers
      PROVE  Value(dma.address) = DMA_BUFFER /\ Value(dma.count) = 511
  <2>1. dma.address = Spread(DMA_BUFFER) /\ dma.count = Spread(511)
    BY <1>1 DEF IInv, DmaInv, Programmed, NoReader, Transfers, Carries
  <2>2. DMA_BUFFER \in {0, 511, 32768}
    BY DEF DMA_BUFFER
  <2> QED
    BY <2>1, <2>2, ValueOfSpread
<1>2. IInv => [Transfers /\ busy' = Idle =>
                  Value(dma.address) = DMA_BUFFER /\ Value(dma.count) = 511]_vars
  BY <1>1
<1> QED
  BY <1>2, FloppyInvariant, PTL DEF TransfersFillTheBuffer
=============================================================================
