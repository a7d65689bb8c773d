-------------------------------- MODULE Fdc --------------------------------
(***************************************************************************)
(* The floppy disk controller and its drive, external hardware, as far as  *)
(* Drivers/floppy/floppy_driver.c tells its answers apart: a command runs  *)
(* for a while, raises IRQ 6, and leaves an interrupt status to sense and, *)
(* for a read, seven result bytes.                                         *)
(***************************************************************************)
EXTENDS Dma

CONSTANTS
    Tracks, Heads,     \* cylinders and sides of the disk (80 and 2)
    SectorsPerTrack    \* FLOPPY_SECTORS_PER_TRACK (18)

ASSUME FdcAssumption ==
    /\ Tracks \in Nat \ {0} /\ Heads \in Nat \ {0}
    /\ SectorsPerTrack \in Nat \ {0}

VARIABLES
    busy,        \* the command being executed
    head_cyl,    \* the cylinder the heads are over
    statuses,    \* interrupt statuses nobody sensed yet
    unread,      \* bytes of a read's result nobody fetched
    motor,       \* the drive's motor is on
    irq_line,    \* IRQ 6 is raised and not taken
    buffer,      \* the sector in the DMA buffer, as an LBA; NoSector at first
    dma          \* the DMA controllers

fdcVars == <<busy, head_cyl, statuses, unread, motor, irq_line, buffer>>

Cylinders == 0 .. (Tracks - 1)
NoSector == -1
Sectors == 0 .. (Tracks * Heads * SectorsPerTrack - 1)
Idle == [op |-> "none"]

FdcInit ==
    /\ busy = Idle /\ head_cyl \in Cylinders
    /\ statuses = 0 /\ unread = 0
    /\ motor = FALSE /\ irq_line = FALSE /\ buffer = NoSector
    /\ dma = DmaBoot

SectorAt(track, head, sector) ==
    (track * Heads + head) * SectorsPerTrack + sector - 1

(* A read of the track the heads are over is carried to memory, unless the  *)
(* motor (and with it the drive's own DMA gate) is off or the channel is    *)
(* closed.                                                                  *)
Transfers == busy.op = "read" /\ busy.track = head_cyl /\ motor /\ Carries(dma)

(* The command finishes; `address' is the one its result is looked for.     *)
FdcDone(address) ==
    /\ busy # Idle
    /\ busy' = Idle /\ irq_line' = TRUE
    /\ statuses' = CASE busy.op = "reset" -> 4
                     [] busy.op = "read" -> 0
                     [] OTHER -> 1
    /\ unread' = IF busy.op = "read" THEN 7 ELSE 0
    /\ head_cyl' = CASE busy.op = "calibrate" -> 0
                     [] busy.op = "seek" -> busy.cyl
                     [] OTHER -> head_cyl
    /\ dma' = IF Transfers THEN Carried(dma) ELSE dma
    /\ buffer' = IF Transfers /\ Value(dma.address) = address
                 THEN SectorAt(busy.track, busy.head, busy.sector) ELSE buffer
    /\ UNCHANGED motor

(* While result bytes wait, or a read runs, the controller takes no         *)
(* command and what is sent to it is lost.  During a seek it may be.        *)
Accepts == unread = 0 /\ busy.op # "read"

Give(cmd) ==
    \/ Accepts /\ busy' = cmd
    \/ busy # Idle /\ UNCHANGED busy
    \/ unread > 0 /\ UNCHANGED busy

(* The cylinder floppydisk_check_int reads back, after its command or what  *)
(* stands in its way: a status, nothing to sense, leftover result bytes, or *)
(* a controller that is not ready, which floppydisk_read_data reports as 0. *)
Sensed ==
    IF busy.op = "read" THEN {0}
    ELSE IF unread > 0 THEN Cylinders
    ELSE IF statuses > 0 THEN {head_cyl}
    ELSE Cylinders

AfterSenses(n) ==
    /\ statuses' = IF Accepts /\ statuses > n THEN statuses - n
                   ELSE IF Accepts THEN 0 ELSE statuses
    /\ unread' = IF unread > 2 * n THEN unread - 2 * n ELSE 0
=============================================================================
