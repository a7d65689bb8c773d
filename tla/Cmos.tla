-------------------------------- MODULE Cmos --------------------------------
(***************************************************************************)
(* Who reads the CMOS: read_rtc (Arch/x86/Hal/rtc.c) for the shell's       *)
(* `time', and is_fdd_present (floppy_driver.c), which sleeps between      *)
(* naming a register and reading it.  The clock runs on beside them: it    *)
(* raises its update flag, changes its registers, and lowers the flag.     *)
(* read_rtc reads seven registers, each by two port accesses, until two    *)
(* readings in a row agree.                                                *)
(***************************************************************************)
EXTENDS Timer, Sequences

CONSTANTS
    Instants,     \* the moments the clock goes through, as seven numbers:
                  \* second, minute, hour, day, month, year, century
    DriveTypes,   \* what register 0x10 may hold on a machine
    KeyPause,     \* sleep(10) of get_cmd
    DrivePause    \* sleep(100) of is_fdd_present

Fields == 1 .. 7

ASSUME CmosAssumption ==
    /\ Instants \in Seq([Fields -> 0 .. 99]) /\ Len(Instants) > 0
    /\ DriveTypes \subseteq 0 .. 255
    /\ KeyPause \in Nat /\ DrivePause \in Nat

(* The clock counts 24 hours, and within a minute none of its fields comes  *)
(* back to a value it left.                                                 *)
ASSUME ClockAssumption ==
    /\ \A t \in DOMAIN Instants : Instants[t][3] \in 0 .. 23
    /\ \A t, u, w \in DOMAIN Instants, i \in Fields :
          t <= u /\ u <= w /\ w < t + 60 /\ Instants[t][i] = Instants[w][i]
             => Instants[u][i] = Instants[t][i]

VARIABLES
    now, updating,     \* the clock: its position in Instants, its update flag
    binary, drives,    \* status register B, bit 2; register 0x10
    index,             \* the register port 0x70 selected
    pc,                \* where the shell's thread is
    reading, last,     \* registers read in this turn, and in the one before
    called,            \* history: `now' when read_rtc was called
    time               \* what read_rtc returned, until it is printed

clockVars == <<now, updating, binary, drives>>
readVars == <<reading, last, called, time>>
vars == <<timerVars, clockVars, index, pc, readVars>>

Init ==
    /\ TimerInit
    /\ now = 1 /\ updating = FALSE /\ binary \in BOOLEAN /\ drives \in DriveTypes
    /\ index = 0 /\ pc = "shell"
    /\ reading = <<>> /\ last = <<>> /\ called = 1
    /\ time = <<>>

-----------------------------------------------------------------------------
(* The clock, external *)

BeginUpdate ==
    /\ ~ updating /\ now < Len(Instants)
    /\ updating' = TRUE
    /\ UNCHANGED <<timerVars, now, binary, drives, index, pc, readVars>>

EndUpdate ==
    /\ updating /\ updating' = FALSE /\ now' = now + 1
    /\ UNCHANGED <<timerVars, binary, drives, index, pc, readVars>>

Bcd(n) == (n \div 10) * 16 + (n % 10)
Register(t, i) == IF binary THEN Instants[t][i] ELSE Bcd(Instants[t][i])

(* During an update a register is its old or its new value. *)
Shows(i) == { Register(t, i) : t \in IF updating THEN {now, now + 1} ELSE {now} }

Tick == _i86_pit_irq_c(pc \in {"pause", "drive"})
        /\ UNCHANGED <<clockVars, index, pc, readVars>>

-----------------------------------------------------------------------------
(* read_rtc *)

RegisterNumber == <<0, 2, 4, 7, 8, 9, 50>>

ReadRtc ==
    /\ pc = "shell" /\ pc' = "flag"
    /\ called' = now
    /\ UNCHANGED <<timerVars, clockVars, index, reading, last, time>>

(* Variant: the flag is not looked at. *)
NoUpdate_unchecked ==
    /\ pc = "flag" /\ pc' = "read"
    /\ index' = 10 /\ reading' = <<>>
    /\ UNCHANGED <<timerVars, clockVars, last, called, time>>

(* while (get_update_in_progress_flag()) finds the flag low. *)
NoUpdate ==
    /\ pc = "flag" /\ ~ updating /\ pc' = "read"
    /\ index' = 10 /\ reading' = <<>>
    /\ UNCHANGED <<timerVars, clockVars, last, called, time>>

get_RTC_reg ==
    /\ pc = "read" /\ Len(reading) < 7
    /\ LET i == Len(reading) + 1
       IN  /\ index' = RegisterNumber[i]
           /\ \E v \in Shows(i) : reading' = Append(reading, v)
    /\ UNCHANGED <<timerVars, clockVars, pc, last, called, time>>

Agrees == last # <<>> /\ \A i \in Fields : last[i] = reading[i]

ReadAgain ==
    /\ pc = "read" /\ Len(reading) = 7 /\ ~ Agrees
    /\ last' = reading /\ reading' = <<>>
    /\ pc' = "flag"
    /\ UNCHANGED <<timerVars, clockVars, index, called, time>>

FromBcd(v) == (v % 16) + (v \div 16) * 10

(* The hour keeps its highest bit, the afternoon of a 12-hour clock. *)
HourFromBcd(v) == (v % 16) + ((v % 128) \div 16) * 10 + (v \div 128) * 128

Convert(r) ==
    IF binary
    THEN [hour |-> r[3], minute |-> r[2], second |-> r[1], day |-> r[4],
          month |-> r[5], year |-> r[6] + r[7] * 100]
    ELSE [hour |-> HourFromBcd(r[3]), minute |-> FromBcd(r[2]),
          second |-> FromBcd(r[1]), day |-> FromBcd(r[4]),
          month |-> FromBcd(r[5]), year |-> FromBcd(r[6]) + FromBcd(r[7]) * 100]

(* Two readings agree; status register B says how to read the numbers. *)
ReadRtcReturns ==
    /\ pc = "read" /\ Len(reading) = 7 /\ Agrees
    /\ index' = 11
    /\ time' = Convert(reading)
    /\ reading' = <<>> /\ last' = <<>> /\ pc' = "print"
    /\ UNCHANGED <<timerVars, clockVars, called>>

(* The command is done with its result and its locals are gone. *)
PrintTimeAndDate ==
    /\ pc = "print" /\ pc' = "shell"
    /\ time' = <<>> /\ called' = 1
    /\ UNCHANGED <<timerVars, clockVars, index, reading, last>>

-----------------------------------------------------------------------------
(* is_fdd_present, and the pause of get_cmd between two keys *)

IsFddPresent ==
    /\ pc = "shell" /\ pc' = "drive"
    /\ index' = 16
    /\ sleep(DrivePause)
    /\ UNCHANGED <<clockVars, readVars>>

(* The high half of what the selected register holds is drive A: without    *)
(* one the caller gives up, with one it goes on to the floppy controller.   *)
IsFddPresentReturns ==
    /\ pc = "drive" /\ Wake
    /\ \E v \in IF index = 16 THEN {drives} ELSE 0 .. 255 :
          pc' = IF v \div 16 = 0 THEN "shell" ELSE "floppy"
    /\ UNCHANGED <<clockVars, index, readVars>>

(* Module Floppy. *)
FloppyDone ==
    /\ pc = "floppy" /\ pc' = "shell"
    /\ UNCHANGED <<timerVars, clockVars, index, readVars>>

Pause ==
    /\ pc = "shell" /\ pc' = "pause"
    /\ sleep(KeyPause)
    /\ UNCHANGED <<clockVars, index, readVars>>

PauseEnds ==
    /\ pc = "pause" /\ Wake /\ pc' = "shell"
    /\ UNCHANGED <<clockVars, index, readVars>>

Call == ReadRtc \/ IsFddPresent \/ Pause

Thread ==
    \/ NoUpdate \/ get_RTC_reg \/ ReadAgain \/ ReadRtcReturns
    \/ PrintTimeAndDate \/ IsFddPresentReturns \/ FloppyDone \/ PauseEnds

Next == BeginUpdate \/ EndUpdate \/ Tick \/ Call \/ Thread

(* The thread runs, the timer ticks, an update ends.  Nobody has to call. *)
Spec ==
    /\ Init /\ [][Next]_vars
    /\ WF_vars(Thread) /\ WF_vars(Tick) /\ WF_vars(EndUpdate)

-----------------------------------------------------------------------------
(* Properties *)

TimeOf(t) ==
    [second |-> t[1], minute |-> t[2], hour |-> t[3], day |-> t[4],
     month |-> t[5], year |-> t[6] + t[7] * 100]

TypeOK ==
    /\ _pit_ticks \in 0 .. (TickMod - 1) /\ ticks \in 0 .. (TickMod - 1)
    /\ ms \in {0, KeyPause, DrivePause} /\ slept \in 0 .. TickMod
    /\ now \in 1 .. Len(Instants) /\ updating \in BOOLEAN /\ called \in 1 .. now
    /\ pc \in {"shell", "flag", "read", "print", "drive", "floppy", "pause"}
    /\ reading \in Seq(0 .. 255) /\ Len(reading) <= 7
    /\ last \in Seq(0 .. 255) /\ Len(last) \in {0, 7}

(* The time returned is one the clock showed during the call, whole: no     *)
(* field from before an update beside one from after it, however the        *)
(* updates fall between the fourteen and more register reads.               *)
TimeWasShown ==
    [][ReadRtcReturns => \E t \in called .. now : time' = TimeOf(Instants[t])]_vars

(* A sleep lasts as many ticks as it was asked for, neither more nor, unless *)
(* its deadline lies behind the wrap of the counter, less.                  *)
SleepLasts ==
    [][Wake => slept <= ms /\ (slept < ms => DeadlineWrapped)]_vars

(* Every call returns: the readings agree in the end, a deadline is met on  *)
(* either side of the counter's wrap.                                       *)
CallsReturn == pc # "shell" ~> pc = "shell"
=============================================================================
