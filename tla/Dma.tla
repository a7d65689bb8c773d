-------------------------------- MODULE Dma --------------------------------
(***************************************************************************)
(* The two DMA controllers as dma.c of Arch/x86/Hal programs them for the   *)
(* floppy drive's channel 2.  A controller's state is a record:             *)
(*   open     the channels that are not masked; channel 4 connects          *)
(*            controller 0, the drive's, to the processor's bus             *)
(*   flip     of controller 0: 1 if the next byte of an address or count    *)
(*            is the high one                                               *)
(*   address, count    the two bytes of channel 2's registers, low first    *)
(*   mode     channel 2 carries from the drive to memory                    *)
(* The page register, which holds the third byte of the address, is never   *)
(* written and stays at the 0 the boot loader's reads left.                 *)
(***************************************************************************)
EXTENDS Integers

Byte == 0 .. 255
DmaState == [open : SUBSET (0 .. 7), flip : {0, 1}, address : [{0, 1} -> Byte],
             count : [{0, 1} -> Byte], mode : BOOLEAN]

(* As the boot loader's last read left it. *)
DmaBoot == [open |-> {4}, flip |-> 0, address |-> [i \in {0, 1} |-> 0],
            count |-> [i \in {0, 1} |-> 255], mode |-> TRUE]

Value(bytes) == bytes[0] + 256 * bytes[1]
Low(n) == n % 256
High(n) == (n \div 256) % 256

ControllerOf(chan) == IF chan < 4 THEN 0 ELSE 1
ChannelsOf(c) == { chan \in 0 .. 7 : ControllerOf(chan) = c }

(* The mask register takes a channel in bits 0 and 1 and whether to mask it *)
(* in bit 2; the code writes a bit per channel instead.                     *)
dma_mask_channel(d, chan) ==
    LET value == IF chan <= 4 THEN 2 ^ (chan - 1) ELSE 2 ^ (chan - 5)
        named == (IF chan <= 4 THEN 0 ELSE 4) + (value % 4)
    IN  [d EXCEPT !.open = IF (value \div 4) % 2 = 1 THEN @ \ {named} ELSE @ \cup {named}]

dma_unmask_all(d, c) == [d EXCEPT !.open = @ \cup ChannelsOf(c)]

(* Master clear: every channel is masked, the flip-flop starts again. *)
dma_reset(d, c) ==
    [d EXCEPT !.open = @ \ ChannelsOf(c), !.flip = IF c = 0 THEN 0 ELSE @]

dma_reset_flipflop(d, c) == [d EXCEPT !.flip = IF c = 0 THEN 0 ELSE @]

OutAddress(d, byte) == [d EXCEPT !.address[d.flip] = byte, !.flip = 1 - @]
OutCount(d, byte) == [d EXCEPT !.count[d.flip] = byte, !.flip = 1 - @]

dma_set_address(d, low, high) == OutAddress(OutAddress(d, low), high)

(* Variant: only the low byte is written. *)
dma_set_count_low(d, low, high) == OutCount(d, low)

dma_set_count(d, low, high) == OutCount(OutCount(d, low), high)

dma_set_mode(d, chan, towards_memory) ==
    dma_unmask_all([dma_mask_channel(d, chan) EXCEPT !.mode = towards_memory],
                   ControllerOf(chan))

dma_set_read(d, chan) == dma_set_mode(d, chan, TRUE)

-----------------------------------------------------------------------------
(* dma_init_floppydisk of the floppy driver, up to its last call, which     *)
(* opens controller 1 again.                                                *)

FDC_DMA_CHANNEL == 2

(* The buffer is below 16 MB and does not cross a boundary of 64 KB. *)
Sane(buffer, length) ==
    /\ buffer < 2 ^ 24 /\ length - 1 < 65536
    /\ (buffer % 65536) + length - 1 < 65536

dma_init_floppydisk(d, buffer, length) ==
    LET begun     == dma_mask_channel(dma_reset(d, 1), FDC_DMA_CHANNEL)
        addressed == dma_set_address(dma_reset_flipflop(begun, 1), Low(buffer), High(buffer))
        counted   == dma_set_count(dma_reset_flipflop(addressed, 1),
                                   Low(length - 1), High(length - 1))
    IN  IF Sane(buffer, length) THEN dma_set_read(counted, FDC_DMA_CHANNEL) ELSE d

-----------------------------------------------------------------------------
(* The hardware: a channel carries count + 1 bytes and is then masked. *)

Carries(d) == {FDC_DMA_CHANNEL, 4} \subseteq d.open /\ d.mode

Spread(n) == [i \in {0, 1} |-> IF i = 0 THEN Low(n) ELSE High(n)]

Carried(d) ==
    [d EXCEPT !.open = @ \ {FDC_DMA_CHANNEL},
              !.address = Spread(Value(d.address) + Value(d.count) + 1),
              !.count = Spread(65535)]
=============================================================================
