------------------------------- MODULE Floppy -------------------------------
(***************************************************************************)
(* The floppy driver, Drivers/floppy/floppy_driver.c, between its callers  *)
(* and the controller.  The driver is sequential; it sends a command,      *)
(* waits for IRQ 6 with a timeout, and goes on whether it came or not.     *)
(* The handler of IRQ 6 and the controller run between any two steps.      *)
(***************************************************************************)
EXTENDS Fdc, FiniteSets

CONSTANTS
    Attempts,     \* tries of a calibration or seek (10)
    WaitLimit,    \* sleeps a wait is content with (10)
    Requests      \* sectors the callers read

(* lba2chs is written for a disk with two sides. *)
ASSUME FloppyAssumption ==
    /\ Attempts \in Nat \ {0} /\ WaitLimit \in Nat \ {0}
    /\ Requests \subseteq Sectors /\ Heads = 2

VARIABLES
    pc,               \* where the driver is
    return,           \* where floppydisk_wait_for_irq returns to
    timer, in_time,   \* its local, and its result
    attempt,          \* the loop variable of a calibration or seek
    wanted,           \* the sector of the read, as an LBA
    answer,           \* what the last read returned: a sector or None
    installed,        \* kmain saw floppydisk_install succeed
    _FloppyDiskIRQ,
    prompt            \* this controller ends every command well within a wait

driverVars == <<pc, return, timer, in_time, attempt, wanted, answer, installed>>
vars == <<busy, head_cyl, statuses, unread, motor, irq_line, buffer,
          pc, return, timer, in_time, attempt, wanted, answer, installed,
          _FloppyDiskIRQ, prompt, dma>>

None == -2

Init ==
    /\ FdcInit
    /\ pc = "boot" /\ return = "boot" /\ timer = 0 /\ in_time = TRUE
    /\ attempt = 0 /\ wanted = NoSector /\ answer = None /\ installed = FALSE
    /\ _FloppyDiskIRQ = 0
    /\ prompt \in BOOLEAN

(* kmain sets the buffer after the installation; until then it is 0. *)
DMA_BUFFER == IF installed THEN 32768 ELSE 0

-----------------------------------------------------------------------------
(* The controller and the interrupt *)

Controller == FdcDone(DMA_BUFFER) /\ UNCHANGED <<driverVars, _FloppyDiskIRQ, prompt>>

i86_floppy_irq_c ==
    /\ irq_line /\ irq_line' = FALSE
    /\ _FloppyDiskIRQ' = 1
    /\ UNCHANGED <<busy, head_cyl, statuses, unread, motor, buffer, driverVars,
                   prompt, dma>>

-----------------------------------------------------------------------------
(* floppydisk_wait_for_irq *)

WaitFor(label) ==
    /\ pc' = "wait" /\ return' = label /\ timer' = 0
    /\ UNCHANGED <<in_time, _FloppyDiskIRQ>>

(* sleep(20); with a prompt controller the interrupt comes first. *)
Sleep ==
    /\ pc = "wait" /\ _FloppyDiskIRQ = 0 /\ timer <= WaitLimit
    /\ prompt /\ timer + 2 > WaitLimit => busy = Idle /\ ~ irq_line
    /\ timer' = timer + 1
    /\ UNCHANGED <<fdcVars, pc, return, in_time, attempt, wanted, answer,
                   installed, _FloppyDiskIRQ>>

(* Variant: the wait has no timeout. *)
WaitEnds_interrupt_only ==
    /\ pc = "wait" /\ _FloppyDiskIRQ = 1
    /\ pc' = "clear"
    /\ UNCHANGED <<fdcVars, return, timer, in_time, attempt, wanted, answer,
                   installed, _FloppyDiskIRQ>>

WaitEnds ==
    /\ pc = "wait" /\ (_FloppyDiskIRQ = 1 \/ timer > WaitLimit)
    /\ pc' = "clear"
    /\ UNCHANGED <<fdcVars, return, timer, in_time, attempt, wanted, answer,
                   installed, _FloppyDiskIRQ>>

(* Variant: the flag is left as it is. *)
WaitReturns_uncleared ==
    /\ pc = "clear" /\ pc' = return
    /\ in_time' = (timer < WaitLimit)
    /\ UNCHANGED <<fdcVars, return, timer, attempt, wanted, answer, installed,
                   _FloppyDiskIRQ>>

WaitReturns ==
    /\ pc = "clear" /\ pc' = return
    /\ _FloppyDiskIRQ' = 0
    /\ in_time' = (timer < WaitLimit)
    /\ UNCHANGED <<fdcVars, return, timer, attempt, wanted, answer, installed>>

(* floppydisk_control_motor, for the one drive kmain selects.               *)
control_motor(on) == motor' = on

-----------------------------------------------------------------------------
(* Installation: floppydisk_install, floppydisk_reset, floppydisk_calibrate *)

(* kmain installs the driver when the CMOS knows of a drive; without one    *)
(* nothing here runs.  Disabling and enabling the controller resets it and  *)
(* stops the motor.                                                         *)
Install ==
    /\ pc = "boot"
    /\ busy' = [op |-> "reset"]
    /\ unread' = 0 /\ statuses' = 0 /\ motor' = FALSE
    /\ WaitFor("reset")
    /\ UNCHANGED <<head_cyl, irq_line, buffer, attempt, wanted, answer, installed>>

ResetTimesOut ==
    /\ pc = "reset" /\ ~ in_time
    /\ pc' = "idle"
    /\ UNCHANGED <<fdcVars, return, timer, in_time, attempt, wanted, answer,
                   installed, _FloppyDiskIRQ>>

(* Four senses, the drive's data, and the start of the calibration. *)
ResetGoesOn ==
    /\ pc = "reset" /\ in_time
    /\ AfterSenses(4)
    /\ control_motor(TRUE) /\ attempt' = 0
    /\ pc' = "calibrate"
    /\ UNCHANGED <<busy, head_cyl, irq_line, buffer, return, timer, in_time,
                   wanted, answer, installed, _FloppyDiskIRQ>>

Calibrate ==
    /\ pc = "calibrate" /\ attempt < Attempts
    /\ Give([op |-> "calibrate"])
    /\ WaitFor("calibrated")
    /\ UNCHANGED <<head_cyl, statuses, unread, motor, irq_line, buffer,
                   attempt, wanted, answer, installed>>

Calibrated ==
    /\ pc = "calibrated"
    /\ AfterSenses(1)
    /\ \E cyl \in Sensed :
          IF cyl = 0
          THEN /\ pc' = "idle" /\ control_motor(FALSE) /\ installed' = TRUE
               /\ UNCHANGED attempt
          ELSE /\ pc' = "calibrate" /\ attempt' = attempt + 1
               /\ UNCHANGED <<motor, installed>>
    /\ UNCHANGED <<busy, head_cyl, irq_line, buffer, return, timer, in_time,
                   wanted, answer, _FloppyDiskIRQ>>

(* The result of the calibration is not looked at. *)
CalibrationFails ==
    /\ pc = "calibrate" /\ attempt = Attempts
    /\ pc' = "idle" /\ control_motor(FALSE) /\ installed' = TRUE
    /\ UNCHANGED <<busy, head_cyl, statuses, unread, irq_line, buffer, return,
                   timer, in_time, attempt, wanted, answer, _FloppyDiskIRQ>>

-----------------------------------------------------------------------------
(* floppydisk_read_sector *)

(* Variant: the sectors of a track are counted from 0. *)
lba2chs_zero(lba) ==
    [head   |-> (lba % (SectorsPerTrack * 2)) \div SectorsPerTrack,
     track  |-> lba \div (SectorsPerTrack * 2),
     sector |-> lba % SectorsPerTrack]

lba2chs(lba) ==
    [head   |-> (lba % (SectorsPerTrack * 2)) \div SectorsPerTrack,
     track  |-> lba \div (SectorsPerTrack * 2),
     sector |-> (lba % SectorsPerTrack) + 1]

ReadSector ==
    /\ pc = "idle" /\ pc' = "seek"
    /\ wanted' \in Requests
    /\ control_motor(TRUE) /\ attempt' = 0 /\ answer' = None
    /\ UNCHANGED <<busy, head_cyl, statuses, unread, irq_line, buffer, return,
                   timer, in_time, installed, _FloppyDiskIRQ, prompt, dma>>

Seek ==
    /\ pc = "seek" /\ attempt < Attempts
    /\ Give([op |-> "seek", cyl |-> lba2chs(wanted).track])
    /\ WaitFor("sought")
    /\ UNCHANGED <<head_cyl, statuses, unread, motor, irq_line, buffer,
                   attempt, wanted, answer, installed>>

Sought ==
    /\ pc = "sought"
    /\ AfterSenses(1)
    /\ \E cyl \in Sensed :
          IF cyl = lba2chs(wanted).track
          THEN pc' = "dma" /\ UNCHANGED attempt
          ELSE pc' = "seek" /\ attempt' = attempt + 1
    /\ UNCHANGED <<busy, head_cyl, motor, irq_line, buffer, return, timer,
                   in_time, wanted, answer, installed, _FloppyDiskIRQ>>

(* The motor stays on. *)
SeekFails ==
    /\ pc = "seek" /\ attempt = Attempts
    /\ pc' = "idle"
    /\ UNCHANGED <<fdcVars, return, timer, in_time, attempt, wanted, answer,
                   installed, _FloppyDiskIRQ>>

(* floppydisk_read_sector_imp: dma_init_floppydisk, in two steps for what   *)
(* the controller may do while channel 4 is closed, and dma_set_read, which *)
(* opens channel 2 once more.                                               *)
DmaInit ==
    /\ pc = "dma" /\ pc' = "open"
    /\ dma' = dma_init_floppydisk(dma, DMA_BUFFER, 512)
    /\ UNCHANGED <<fdcVars, return, timer, in_time, attempt, wanted, answer,
                   installed, _FloppyDiskIRQ>>

DmaOpen ==
    /\ pc = "open" /\ pc' = "mode"
    /\ dma' = dma_unmask_all(dma, 1)
    /\ UNCHANGED <<fdcVars, return, timer, in_time, attempt, wanted, answer,
                   installed, _FloppyDiskIRQ>>

DmaMode ==
    /\ pc = "mode" /\ pc' = "read"
    /\ dma' = dma_set_read(dma, FDC_DMA_CHANNEL)
    /\ UNCHANGED <<fdcVars, return, timer, in_time, attempt, wanted, answer,
                   installed, _FloppyDiskIRQ>>

Read ==
    /\ pc = "read"
    /\ LET chs == lba2chs(wanted)
       IN  Give([op |-> "read", track |-> chs.track, head |-> chs.head,
                 sector |-> chs.sector])
    /\ WaitFor("results")
    /\ UNCHANGED <<head_cyl, statuses, unread, motor, irq_line, buffer,
                   attempt, wanted, answer, installed>>

(* Seven result bytes, one more sense, the motor off, and the buffer is     *)
(* the answer.  It is address 0, an error to the callers, unless kmain set  *)
(* it after the installation.                                               *)
Results ==
    /\ pc = "results" /\ pc' = "idle"
    /\ unread' = 0
    /\ statuses' = IF busy.op = "read" THEN statuses ELSE 0
    /\ control_motor(FALSE)
    /\ answer' = IF installed THEN buffer ELSE None
    /\ UNCHANGED <<busy, head_cyl, irq_line, buffer, return, timer, in_time,
                   attempt, wanted, installed, _FloppyDiskIRQ>>

Driver ==
    /\ \/ DmaInit \/ DmaOpen \/ DmaMode
       \/ /\ \/ Sleep \/ WaitEnds \/ WaitReturns
             \/ Install \/ ResetTimesOut \/ ResetGoesOn
             \/ Calibrate \/ Calibrated \/ CalibrationFails
             \/ Seek \/ Sought \/ SeekFails \/ Read \/ Results
          /\ UNCHANGED dma
    /\ UNCHANGED prompt

Next == Controller \/ i86_floppy_irq_c \/ Driver \/ ReadSector

(* The clock ticks and the driver, the only thread, runs; the controller of *)
(* a prompt machine finishes and its interrupts are taken.  A controller    *)
(* that is not prompt may never answer.                                     *)
Spec ==
    /\ Init /\ [][Next]_vars /\ WF_vars(Driver)
    /\ WF_vars(prompt /\ Controller) /\ WF_vars(prompt /\ i86_floppy_irq_c)

-----------------------------------------------------------------------------
(* Properties *)

Commands ==
    { Idle, [op |-> "reset"], [op |-> "calibrate"] }
        \cup [op : {"seek"}, cyl : Cylinders]
        \cup [op : {"read"}, track : Cylinders, head : 0 .. (Heads - 1),
              sector : 1 .. SectorsPerTrack]

Labels == {"boot", "idle", "wait", "clear", "reset", "calibrate", "calibrated",
           "seek", "sought", "dma", "open", "mode", "read", "results"}

TypeOK ==
    /\ busy \in Commands /\ head_cyl \in Cylinders
    /\ statuses \in 0 .. 4 /\ unread \in 0 .. 7
    /\ buffer \in Sectors \cup {NoSector}
    /\ pc \in Labels /\ return \in Labels
    /\ timer \in 0 .. (WaitLimit + 1) /\ attempt \in 0 .. Attempts
    /\ wanted \in Requests \cup {NoSector}
    /\ answer \in Sectors \cup {NoSector, None}
    /\ _FloppyDiskIRQ \in 0 .. 1 /\ dma \in DmaState

(* A prompt controller.  The heads are over the track when a read is begun, *)
(* and over cylinder 0 when a calibration ends: no interrupt of an earlier  *)
(* command ends the wait, so the cylinder that is sensed is the answer.     *)
SeekFindsTrack ==
    [][/\ prompt /\ Sought /\ pc' = "dma" => head_cyl = lba2chs(wanted).track
       /\ prompt /\ Calibrated /\ pc' = "idle" => head_cyl = 0]_vars

(* However late the controller answers, and whichever earlier read it is    *)
(* still busy with, what it carries to memory fills the 512 bytes of the    *)
(* buffer and no byte outside them.  A late read may use up what was        *)
(* programmed for the next one; then that one carries nothing, also where   *)
(* dma_set_read has opened the used-up channel again.                       *)
TransfersFillTheBuffer ==
    [][Transfers /\ busy' = Idle =>
         Value(dma.address) = DMA_BUFFER /\ Value(dma.count) = 511]_vars

(* Between two calls the controller owes nothing: no command runs, no       *)
(* interrupt, status or result byte is left for the next wait to take for   *)
(* its own, and the motor is off.                                           *)
NothingLeftOver ==
    prompt /\ pc = "idle" =>
        /\ busy = Idle /\ ~ irq_line /\ _FloppyDiskIRQ = 0
        /\ statuses = 0 /\ unread = 0 /\ ~ motor

(* A wait ends for the command before it, and not for an older interrupt.   *)
WaitsForItsCommand == prompt /\ pc = "clear" => busy = Idle

(* A read brings its sector: no leftover of the installation or of an       *)
(* earlier read makes a seek or a wait fail or the buffer hold another one. *)
ReadsSucceed ==
    \A s \in Requests : prompt /\ pc = "seek" /\ wanted = s ~> answer = s

(* Even a controller that never answers, or answers late, holds up neither  *)
(* the boot nor a read for ever.                                            *)
CallsReturn == pc # "idle" ~> pc = "idle"
=============================================================================
