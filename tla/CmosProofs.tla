----------------------------- MODULE CmosProofs -----------------------------
(***************************************************************************)
(* A sleep lasts as long as it was asked for, for every range of the tick  *)
(* counter and every length of the two pauses; and the time read_rtc       *)
(* returns is one the clock showed during the call, for every sequence of  *)
(* instants, as long as no call takes a minute.                            *)
(***************************************************************************)
EXTENDS Cmos, Lemmas

Sleeping == pc \in {"pause", "drive"}

(* While the thread sleeps, the ticks seen and the ticks to come add up to   *)
(* at most what was asked for, and to exactly that if the deadline did not   *)
(* wrap.                                                                    *)
SleepInv ==
    /\ _pit_ticks \in 0 .. (TickMod - 1) /\ ticks \in 0 .. (TickMod - 1)
    /\ ms \in Nat /\ slept \in Nat
    /\ ~ Sleeping => ticks = 0 /\ ms = 0 /\ slept = 0
    /\ slept <= ms
    /\ ticks > _pit_ticks => slept + (ticks - _pit_ticks) <= ms
    /\ Sleeping /\ ticks >= ms => slept + (ticks - _pit_ticks) >= ms

(* Cutting a number to the counter's range leaves it alone, or takes off at *)
(* least the whole range.                                                  *)
LEMMA Cut ==
    ASSUME NEW a \in Nat
    PROVE  /\ a % TickMod \in 0 .. (TickMod - 1)
           /\ a % TickMod = a \/ a % TickMod <= a - TickMod
<1> USE TimerAssumption
<1>1. /\ a \div TickMod \in Nat /\ a % TickMod \in 0 .. (TickMod - 1)
      /\ a = (a \div TickMod) * TickMod + (a % TickMod)
  <2>1. a \in Int /\ a >= 0 /\ TickMod \in Nat \ {0}
    OBVIOUS
  <2>2. /\ a \div TickMod \in Int /\ a % TickMod \in 0 .. (TickMod - 1)
        /\ a = (a \div TickMod) * TickMod + (a % TickMod)
        /\ a >= 0 => a \div TickMod \in Nat
    BY <2>1, DivModType, Zenon
  <2> QED
    BY <2>1, <2>2
<1>2. CASE a \div TickMod = 0
  BY <1>1, <1>2
<1>3. CASE a \div TickMod >= 1
  <2>1. (a \div TickMod) * TickMod >= TickMod
    BY <1>1, <1>3
  <2> QED
    BY <1>1, <2>1
<1> QED
  BY <1>1, <1>2, <1>3

(* The deadline n ticks after p is n ahead of p, or wrapped and behind n.   *)
LEMMA Deadline ==
    ASSUME NEW n \in Nat, NEW p \in 0 .. (TickMod - 1),
           NEW t, t = (n + p) % TickMod
    PROVE  /\ t \in 0 .. (TickMod - 1)
           /\ t > p => 0 + (t - p) <= n
           /\ t >= n => 0 + (t - p) >= n
<1>1. PICK a \in Nat : a = n + p
  BY TimerAssumption
<1>2. /\ a % TickMod \in 0 .. (TickMod - 1)
      /\ a % TickMod = a \/ a % TickMod <= a - TickMod
  BY Cut, Zenon
<1>3. t = a % TickMod
  BY <1>1
<1> QED
  BY <1>1, <1>2, <1>3, TimerAssumption

(* sleep starts the invariant, whatever the counter stands at. *)
LEMMA SleepStarts ==
    ASSUME NEW n \in Nat
    PROVE  SleepInv /\ Sleeping' /\ sleep(n) => SleepInv'
<1> SUFFICES ASSUME SleepInv, Sleeping',
                    ticks' = (n + _pit_ticks) % TickMod,
                    ms' = n, slept' = 0, _pit_ticks' = _pit_ticks
             PROVE  SleepInv'
  BY DEF sleep
<1>1. _pit_ticks \in 0 .. (TickMod - 1)
  BY DEF SleepInv
<1>2. /\ ticks' \in 0 .. (TickMod - 1)
      /\ ticks' > _pit_ticks => 0 + (ticks' - _pit_ticks) <= n
      /\ ticks' >= n => 0 + (ticks' - _pit_ticks) >= n
  BY <1>1, Deadline
<1> QED
  BY <1>1, <1>2 DEF SleepInv

(* A tick that comes while the thread sleeps does not wrap the counter.     *)
LEMMA TickKeeps ==
    ASSUME SleepInv, Tick
    PROVE  SleepInv'
<1>1. /\ Sleeping' = Sleeping /\ ticks' = ticks /\ ms' = ms
      /\ _pit_ticks' = (_pit_ticks + 1) % TickMod
      /\ Sleeping => ticks > _pit_ticks
      /\ slept' = IF Sleeping /\ slept < TickMod THEN slept + 1 ELSE slept
  BY DEF Tick, Sleeping, _i86_pit_irq_c, SleepOver, SleepInv
<1>2. _pit_ticks' \in 0 .. (TickMod - 1)
  BY <1>1, Cut DEF SleepInv
<1>3. CASE Sleeping
  <2>1. _pit_ticks' = _pit_ticks + 1
    BY <1>1, <1>3, Cut, TimerAssumption DEF SleepInv
  <2> QED
    BY <1>1, <1>2, <1>3, <2>1, TimerAssumption DEF SleepInv
<1>4. CASE ~ Sleeping
  BY <1>1, <1>2, <1>4, TimerAssumption DEF SleepInv
<1> QED
  BY <1>3, <1>4

(* A sleep that ends leaves nothing behind. *)
LEMMA WakeEnds ==
    ASSUME SleepInv, Wake, ~ Sleeping'
    PROVE  SleepInv'
BY TimerAssumption DEF SleepInv, Wake, Sleeping

(* The sleep invariant holds of every clock, machine and pause. *)
LEMMA SleepInvariant == Spec => []SleepInv
<1>1. Init => SleepInv
  BY TimerAssumption DEF Init, TimerInit, SleepInv, Sleeping
<1>2. SleepInv /\ [Next]_vars => SleepInv'
  <2> SUFFICES ASSUME SleepInv, [Next]_vars PROVE SleepInv'
    OBVIOUS
  <2>1. ASSUME UNCHANGED timerVars, Sleeping' = Sleeping PROVE SleepInv'
    BY <2>1 DEF SleepInv, timerVars
  <2>2. CASE BeginUpdate \/ EndUpdate
    BY <2>1, <2>2 DEF BeginUpdate, EndUpdate, Sleeping
  <2>3. CASE Tick
    BY <2>3, TickKeeps
  <2>4. CASE ReadRtc \/ NoUpdate \/ get_RTC_reg \/ ReadAgain
    BY <2>1, <2>4 DEF ReadRtc, NoUpdate, get_RTC_reg, ReadAgain, Sleeping
  <2>5. CASE ReadRtcReturns \/ PrintTimeAndDate \/ FloppyDone
    BY <2>1, <2>5 DEF ReadRtcReturns, PrintTimeAndDate, FloppyDone, Sleeping
  <2>6. CASE IsFddPresent \/ Pause
    BY <2>6, SleepStarts, CmosAssumption DEF IsFddPresent, Pause, Sleeping
  <2>7. CASE IsFddPresentReturns \/ PauseEnds
    BY <2>7, WakeEnds DEF IsFddPresentReturns, PauseEnds, Sleeping
  <2>8. CASE UNCHANGED vars
    BY <2>1, <2>8 DEF vars, Sleeping
  <2> QED
    BY <2>2, <2>3, <2>4, <2>5, <2>6, <2>7, <2>8 DEF Next, Call, Thread
<1> QED
  BY <1>1, <1>2, PTL DEF Spec

(* sleep never lasts longer than it was asked for, and shorter only if its  *)
(* deadline lies behind the wrap of the tick counter.                      *)
THEOREM SleepLastsHolds == Spec => SleepLasts
<1>1. SleepInv /\ [Next]_vars => [Wake => slept <= ms /\ (slept < ms => DeadlineWrapped)]_vars
  <2> SUFFICES ASSUME SleepInv, Wake PROVE slept <= ms /\ (slept < ms => DeadlineWrapped)
    OBVIOUS
  <2>1. ASSUME slept < ms PROVE ticks < ms
    <3>1. Sleeping
      BY <2>1 DEF SleepInv
    <3> QED
      BY <2>1, <3>1, TimerAssumption DEF SleepInv, Wake, SleepOver
  <2> QED
    BY <2>1 DEF SleepInv, DeadlineWrapped
<1> QED
  BY <1>1, SleepInvariant, PTL DEF Spec, SleepLasts

-----------------------------------------------------------------------------
(* What a reading shows                                                    *)

(* The last moment whose registers may be read. *)
Latest == IF updating THEN now + 1 ELSE now

(* Each register of a reading is from a moment of a range.                 *)
ReadIn(r, from, to) ==
    \A i \in 1 .. Len(r) : \E t \in from .. to : r[i] = Register(t, i)

(* There is a moment b between the two readings: no update was under way    *)
(* then, the reading before is from b or earlier, and this one from b on.   *)
ReadInv ==
    /\ pc \notin {"flag", "read"} => last = <<>>
    /\ pc = "flag" => ReadIn(last, called, Latest)
    /\ pc = "read" => \E b \in called .. now :
                         ReadIn(last, called, b) /\ ReadIn(reading, b, Latest)

ClockInv ==
    /\ TypeOK
    /\ binary \in BOOLEAN
    /\ updating => now < Len(Instants)
    /\ ReadInv

(* Every moment of the clock is seven numbers of two digits. *)
LEMMA InstantType ==
    /\ Len(Instants) \in Nat \ {0} /\ DOMAIN Instants = 1 .. Len(Instants)
    /\ \A t \in 1 .. Len(Instants) : Instants[t] \in [Fields -> 0 .. 99]
    /\ \A t \in 1 .. Len(Instants), i \in Fields : Instants[t][i] \in 0 .. 99
<1> DEFINE T == [Fields -> 0 .. 99]
<1>1. Instants \in Seq(T) /\ Len(Instants) > 0
  BY CmosAssumption
<1> HIDE DEF T
<1>2. Len(Instants) \in Nat \ {0} /\ DOMAIN Instants = 1 .. Len(Instants)
  BY <1>1
<1>3. \A t \in 1 .. Len(Instants) : Instants[t] \in T
  BY <1>1, <1>2
<1> USE DEF T
<1>4. \A t \in 1 .. Len(Instants), i \in Fields : Instants[t][i] \in 0 .. 99
  BY <1>3
<1> QED
  BY <1>2, <1>3, <1>4

LEMMA InstantLength == Len(Instants) \in Nat \ {0}
  BY InstantType

(* Two decimal digits in a byte, and back. *)
LEMMA BcdFacts ==
    ASSUME NEW n \in 0 .. 99
    PROVE  /\ Bcd(n) \in 0 .. 255 /\ FromBcd(Bcd(n)) = n
           /\ n <= 23 => HourFromBcd(Bcd(n)) = n
<1>1. PICK q \in 0 .. 9, r \in 0 .. 9 : n = q * 10 + r /\ q = n \div 10 /\ r = n % 10
  OBVIOUS
<1>2. Bcd(n) = q * 16 + r
  BY <1>1 DEF Bcd
<1>3. /\ (q * 16 + r) % 16 = r /\ (q * 16 + r) \div 16 = q
      /\ (q * 16 + r) \in 0 .. 255
  OBVIOUS
<1>4. FromBcd(Bcd(n)) = n
  BY <1>1, <1>2, <1>3 DEF FromBcd
<1>5. ASSUME n <= 23 PROVE HourFromBcd(Bcd(n)) = n
  <2>1. q <= 2
    BY <1>1, <1>5
  <2>2. (q * 16 + r) % 128 = q * 16 + r /\ (q * 16 + r) \div 128 = 0
    BY <2>1
  <2> QED
    BY <1>1, <1>2, <1>3, <2>2 DEF HourFromBcd
<1> QED
  BY <1>2, <1>3, <1>4, <1>5

(* A register tells the moments apart that its field tells apart. *)
LEMMA RegisterFacts ==
    ASSUME binary \in BOOLEAN, NEW t \in 1 .. Len(Instants), NEW u \in 1 .. Len(Instants),
           NEW i \in Fields
    PROVE  /\ Register(t, i) \in 0 .. 255
           /\ Register(t, i) = Register(u, i) <=> Instants[t][i] = Instants[u][i]
<1>1. PICK a \in 0 .. 99, b \in 0 .. 99 : a = Instants[t][i] /\ b = Instants[u][i]
  BY InstantType
<1>2. /\ Bcd(a) \in 0 .. 255 /\ FromBcd(Bcd(a)) = a
      /\ Bcd(b) \in 0 .. 255 /\ FromBcd(Bcd(b)) = b
  BY BcdFacts
<1> QED
  BY <1>1, <1>2 DEF Register

(* A wider range of moments. *)
LEMMA ReadWider ==
    ASSUME NEW r, NEW from \in Nat, NEW to \in Nat, NEW early \in Nat, NEW late \in Nat,
           early <= from, to <= late, ReadIn(r, from, to)
    PROVE  ReadIn(r, early, late)
  BY DEF ReadIn

(* Nothing but `binary' matters to a register of a given moment. *)
LEMMA ReadKept ==
    ASSUME UNCHANGED binary, NEW r, NEW from, NEW to, ReadIn(r, from, to)
    PROVE  \A i \in 1 .. Len(r) : \E t \in from .. to : r[i] = Register(t, i)'
<1>1. \A t, i : Register(t, i)' = Register(t, i)
  BY DEF Register
<1> QED
  BY <1>1 DEF ReadIn

LEMMA InitClockInv == Init => ClockInv
<1> SUFFICES ASSUME Init PROVE ClockInv
  OBVIOUS
<1>1. reading \in Seq(0 .. 255) /\ Len(reading) = 0
      /\ last \in Seq(0 .. 255) /\ Len(last) = 0
  BY DEF Init
<1>2. 1 \in 1 .. Len(Instants)
  BY InstantLength
<1>3. /\ _pit_ticks \in 0 .. (TickMod - 1) /\ ticks \in 0 .. (TickMod - 1)
      /\ ms = 0 /\ slept \in 0 .. TickMod /\ called \in 1 .. now
  BY TimerAssumption DEF Init, TimerInit
<1>4. now \in 1 .. Len(Instants) /\ updating \in BOOLEAN /\ pc = "shell"
  BY <1>2 DEF Init
<1>5. TypeOK
  BY <1>1, <1>3, <1>4 DEF TypeOK
<1> QED
  BY <1>5 DEF Init, ClockInv, ReadInv

(* The clock moves. *)
LEMMA UpdateStep == ClockInv /\ (BeginUpdate \/ EndUpdate) => ClockInv'
<1> SUFFICES ASSUME ClockInv, BeginUpdate \/ EndUpdate PROVE ClockInv'
  OBVIOUS
<1>1. /\ UNCHANGED <<timerVars, binary, drives, index, pc, readVars>>
      /\ now' \in 1 .. Len(Instants) /\ updating' \in BOOLEAN /\ now <= now'
      /\ Latest \in Nat /\ Latest' \in Nat /\ Latest <= Latest'
      /\ updating' => now' < Len(Instants)
  <2>1. CASE BeginUpdate
    BY <2>1, InstantLength DEF BeginUpdate, ClockInv, TypeOK, Latest
  <2>2. CASE EndUpdate
    <3>1. PICK len \in Nat : len = Len(Instants)
      BY InstantLength
    <3>2. now \in 1 .. len /\ now < len /\ now' = now + 1 /\ updating /\ ~ updating'
      BY <2>2, <3>1 DEF EndUpdate, ClockInv, TypeOK
    <3>3. Latest = now + 1 /\ Latest' = now + 1
      BY <3>2 DEF Latest
    <3>4. /\ now' \in 1 .. len /\ now <= now'
          /\ Latest \in Nat /\ Latest' \in Nat /\ Latest <= Latest'
      BY <3>2, <3>3
    <3>5. UNCHANGED <<timerVars, binary, drives, index, pc, readVars>>
      BY <2>2 DEF EndUpdate
    <3>6. updating' = FALSE
      BY <2>2 DEF EndUpdate
    <3>7. now' \in 1 .. Len(Instants) /\ updating' \in BOOLEAN
          /\ (updating' => now' < Len(Instants))
      BY <3>1, <3>4, <3>6
    <3> QED
      BY <3>4, <3>5, <3>7
  <2> QED
    BY <2>1, <2>2
<1>2. TypeOK'
  BY <1>1, InstantLength DEF ClockInv, TypeOK, timerVars, readVars
<1>3. called \in Nat /\ now \in Nat /\ called' = called /\ last' = last /\ reading' = reading
      /\ pc' = pc /\ binary' = binary
  BY <1>1, InstantLength DEF ClockInv, TypeOK, readVars
<1>4. ASSUME pc = "flag" PROVE ReadIn(last, called, Latest)'
  <2>1. ReadIn(last, called, Latest')
    BY <1>1, <1>3, <1>4, ReadWider DEF ClockInv, ReadInv
  <2>2. \A i \in 1 .. Len(last) : \E t \in called .. Latest' : last[i] = Register(t, i)'
    BY <1>3, <2>1, ReadKept
  <2> QED
    BY <1>3, <2>2 DEF ReadIn
<1>5. ASSUME pc = "read"
      PROVE  \E b \in called .. now' : ReadIn(last, called, b)' /\ ReadIn(reading, b, Latest)'
  <2>1. PICK b \in called .. now : ReadIn(last, called, b) /\ ReadIn(reading, b, Latest)
    BY <1>5 DEF ClockInv, ReadInv
  <2>2. b \in Nat /\ b \in called .. now'
    BY <1>1, <1>3
  <2>3. ReadIn(reading, b, Latest')
    BY <1>1, <2>1, <2>2, ReadWider
  <2>4. \A i \in 1 .. Len(reading) : \E t \in b .. Latest' : reading[i] = Register(t, i)'
    BY <1>3, <2>3, ReadKept
  <2>5. \A i \in 1 .. Len(last) : \E t \in called .. b : last[i] = Register(t, i)'
    BY <1>3, <2>1, ReadKept
  <2> QED
    BY <1>3, <2>2, <2>4, <2>5 DEF ReadIn
<1>6. ReadInv'
  BY <1>3, <1>4, <1>5 DEF ReadInv, ClockInv
<1> QED
  BY <1>1, <1>2, <1>6 DEF ClockInv

(* The thread moves and the clock stands still. *)
LEMMA ReadRtcSteps ==
    ClockInv /\ (ReadRtc \/ NoUpdate \/ get_RTC_reg \/ ReadAgain) => ClockInv'
<1> SUFFICES ASSUME ClockInv, ReadRtc \/ NoUpdate \/ get_RTC_reg \/ ReadAgain
             PROVE  ClockInv'
  OBVIOUS
<1>1. UNCHANGED <<timerVars, clockVars>>
  BY DEF ReadRtc, NoUpdate, get_RTC_reg, ReadAgain
<1>2. now \in Nat /\ called \in Nat /\ called <= now /\ Latest \in Nat /\ now <= Latest
      /\ Latest <= Len(Instants)
  BY InstantLength DEF ClockInv, TypeOK, Latest
<1>3. Latest' = Latest /\ binary' = binary
  BY <1>1 DEF Latest, clockVars
<1>4. CASE ReadRtc
  <2>1. ReadInv'
    BY <1>4 DEF ReadRtc, ClockInv, ReadInv, ReadIn
  <2> QED
    BY <1>1, <1>2, <1>4, <2>1 DEF ReadRtc, ClockInv, TypeOK, timerVars, clockVars
<1>5. CASE NoUpdate
  <2>1. reading' = <<>> /\ reading' \in Seq(0 .. 255) /\ Len(reading') = 0
    BY <1>5 DEF NoUpdate
  <2>2. ReadIn(last, called, now) /\ now \in called .. now
    BY <1>2, <1>5 DEF NoUpdate, ClockInv, ReadInv, Latest
  <2>3. \A i \in 1 .. Len(last) : \E t \in called .. now : last[i] = Register(t, i)'
    BY <1>3, <2>2, ReadKept
  <2>4. ReadInv'
    BY <1>1, <1>5, <2>1, <2>2, <2>3 DEF NoUpdate, ReadInv, ReadIn, clockVars
  <2> QED
    BY <1>1, <1>5, <2>1, <2>4 DEF NoUpdate, ClockInv, TypeOK, timerVars, clockVars
<1>6. CASE get_RTC_reg
  <2>0. reading \in Seq(0 .. 255) /\ Len(reading) < 7
    BY <1>6 DEF get_RTC_reg, ClockInv, TypeOK
  <2>2. PICK n \in Fields : n = Len(reading) + 1
    <3>1. Len(reading) \in Nat
      BY <2>0
    <3> QED
      BY <2>0, <3>1 DEF Fields
  <2>1. PICK t \in now .. Latest : reading' = Append(reading, Register(t, n))
    BY <1>2, <1>6, <2>2 DEF get_RTC_reg, Shows, Latest
  <2>3. Register(t, n) \in 0 .. 255
    <3>1. t \in 1 .. Len(Instants)
      BY <1>2 DEF ClockInv, TypeOK
    <3> QED
      BY <2>2, <3>1, RegisterFacts DEF ClockInv
  <2>4. reading' \in Seq(0 .. 255) /\ Len(reading') = n /\ n <= 7
    BY <2>0, <2>1, <2>2, <2>3 DEF Fields
  <2>5. TypeOK'
    BY <1>1, <1>6, <2>4 DEF get_RTC_reg, ClockInv, TypeOK, timerVars, clockVars
  <2>6. PICK b \in called .. now : ReadIn(last, called, b) /\ ReadIn(reading, b, Latest)
    BY <1>6 DEF get_RTC_reg, ClockInv, ReadInv
  <2>7. \A i \in 1 .. Len(last) : \E u \in called .. b : last[i] = Register(u, i)'
    BY <1>3, <2>6, ReadKept
  <2>8. ASSUME NEW i \in 1 .. n
        PROVE  \E u \in b .. Latest : reading'[i] = Register(u, i)'
    <3>1. CASE i = n
      <4>1. reading'[i] = Register(t, n)
        BY <2>0, <2>1, <2>2, <3>1
      <4>2. Register(t, n)' = Register(t, n)
        BY <1>3, <2>1 DEF Register
      <4> QED
        BY <1>2, <3>1, <4>1, <4>2
    <3>2. CASE i # n
      <4>1. reading'[i] = reading[i] /\ i \in 1 .. Len(reading)
        BY <2>0, <2>1, <2>2, <3>2
      <4>2. \E u \in b .. Latest : reading[i] = Register(u, i)'
        BY <1>3, <2>6, <4>1, ReadKept
      <4> QED
        BY <4>1, <4>2
    <3> QED
      BY <3>1, <3>2
  <2>9. ReadInv'
    BY <1>1, <1>3, <1>6, <2>4, <2>7, <2>8 DEF get_RTC_reg, ReadInv, ReadIn, clockVars
  <2> QED
    BY <1>1, <2>5, <2>9 DEF ClockInv, clockVars
<1>7. CASE ReadAgain
  <2>1. /\ reading' = <<>> /\ reading' \in Seq(0 .. 255) /\ Len(reading') = 0
        /\ last' = reading /\ pc = "read" /\ pc' = "flag"
    BY <1>7 DEF ReadAgain
  <2>2. PICK b \in called .. now : ReadIn(reading, b, Latest)
    BY <2>1 DEF ClockInv, ReadInv
  <2>3. ReadIn(reading, called, Latest)
    BY <1>2, <2>2 DEF ReadIn
  <2>4. \A i \in 1 .. Len(reading) : \E t \in called .. Latest : reading[i] = Register(t, i)'
    BY <1>3, <2>3, ReadKept
  <2>5. ReadInv'
    BY <1>3, <1>7, <2>1, <2>4 DEF ReadAgain, ReadInv, ReadIn
  <2> QED
    BY <1>1, <1>7, <2>1, <2>5 DEF ReadAgain, ClockInv, TypeOK, timerVars, clockVars
<1> QED
  BY <1>4, <1>5, <1>6, <1>7

(* Steps that read no register of the clock leave the readings alone. *)
LEMMA OtherSteps ==
    ASSUME ClockInv,
           \/ Tick \/ IsFddPresent \/ Pause
           \/ ReadRtcReturns \/ PrintTimeAndDate \/ IsFddPresentReturns
           \/ FloppyDone \/ PauseEnds \/ UNCHANGED vars
    PROVE  ClockInv'
<1>1. UNCHANGED clockVars
  BY DEF Tick, IsFddPresent, Pause, ReadRtcReturns, PrintTimeAndDate,
         IsFddPresentReturns, FloppyDone, PauseEnds, vars
<1>2. /\ _pit_ticks' \in 0 .. (TickMod - 1) /\ ticks' \in 0 .. (TickMod - 1)
      /\ ms' \in {0, KeyPause, DrivePause} /\ slept' \in 0 .. TickMod
  <2>1. CASE Tick
    <3>1. PICK n \in Nat : n = _pit_ticks + 1
      BY TimerAssumption DEF ClockInv, TypeOK
    <3>2. n % TickMod \in 0 .. (TickMod - 1)
      BY Cut
    <3> QED
      BY <2>1, <3>1, <3>2, TimerAssumption DEF Tick, _i86_pit_irq_c, ClockInv, TypeOK
  <2>2. CASE IsFddPresent \/ Pause
    <3>1. PICK n \in {KeyPause, DrivePause} : sleep(n)
      BY <2>2 DEF IsFddPresent, Pause
    <3>2. PICK m \in Nat : m = n + _pit_ticks
      BY TimerAssumption, CmosAssumption DEF ClockInv, TypeOK
    <3>3. m % TickMod \in 0 .. (TickMod - 1)
      BY Cut
    <3> QED
      BY <3>1, <3>2, <3>3, TimerAssumption DEF sleep, ClockInv, TypeOK
  <2>3. CASE IsFddPresentReturns \/ PauseEnds
    BY <2>3, TimerAssumption DEF IsFddPresentReturns, PauseEnds, Wake, ClockInv, TypeOK
  <2>4. CASE ReadRtcReturns \/ PrintTimeAndDate \/ FloppyDone \/ UNCHANGED vars
    BY <2>4 DEF ReadRtcReturns, PrintTimeAndDate, FloppyDone, vars, timerVars,
                ClockInv, TypeOK
  <2> QED
    BY <2>1, <2>2, <2>3, <2>4
<1>3. CASE UNCHANGED <<pc, reading, last, called>>
  <2>1. ReadInv'
    <3>1. Latest' = Latest /\ now' = now /\ binary' = binary
      BY <1>1 DEF Latest, clockVars
    <3>2. \A t, i : Register(t, i)' = Register(t, i)
      BY <3>1 DEF Register
    <3> QED
      BY <1>3, <3>1, <3>2 DEF ClockInv, ReadInv, ReadIn
  <2> QED
    BY <1>1, <1>2, <1>3, <2>1 DEF ClockInv, TypeOK, clockVars
<1>4. CASE ~ UNCHANGED <<pc, reading, last, called>>
  <2>1. /\ pc' \in {"shell", "print", "drive", "floppy", "pause"} /\ last' = <<>>
        /\ reading' \in {reading, <<>>} /\ called' \in {called, 1}
    <3>1. CASE Tick \/ UNCHANGED vars
      BY <1>4, <3>1 DEF Tick, vars, readVars
    <3>2. CASE IsFddPresent \/ Pause
      BY <3>2 DEF IsFddPresent, Pause, readVars, ClockInv, ReadInv
    <3>3. CASE IsFddPresentReturns \/ PauseEnds \/ FloppyDone
      BY <3>3 DEF IsFddPresentReturns, PauseEnds, FloppyDone, readVars, ClockInv, ReadInv
    <3>4. CASE ReadRtcReturns
      BY <3>4 DEF ReadRtcReturns
    <3>5. CASE PrintTimeAndDate
      BY <3>5 DEF PrintTimeAndDate, ClockInv, ReadInv
    <3> QED
      BY <3>1, <3>2, <3>3, <3>4, <3>5
  <2>2. /\ reading' \in Seq(0 .. 255) /\ Len(reading') <= 7
        /\ last' \in Seq(0 .. 255) /\ Len(last') \in {0, 7}
    <3>1. CASE reading' = reading
      BY <2>1, <3>1 DEF ClockInv, TypeOK
    <3>2. CASE reading' = <<>>
      BY <2>1, <3>2
    <3> QED
      BY <2>1, <3>1, <3>2
  <2>3. now' \in 1 .. Len(Instants) /\ called' \in 1 .. now'
    BY <1>1, <2>1, InstantLength DEF clockVars, ClockInv, TypeOK
  <2>4. ReadInv'
    BY <2>1 DEF ReadInv
  <2> QED
    BY <1>1, <1>2, <2>1, <2>2, <2>3, <2>4 DEF ClockInv, TypeOK, clockVars
<1> QED
  BY <1>3, <1>4

(* The readings agree with what the clock showed, for every sequence of     *)
(* instants.                                                                *)
LEMMA ClockInvariant == Spec => []ClockInv
<1>1. ClockInv /\ [Next]_vars => ClockInv'
  BY UpdateStep, ReadRtcSteps, OtherSteps DEF Next, Call, Thread
<1> QED
  BY <1>1, InitClockInv, PTL DEF Spec

(* Every number the clock, the timer and read_rtc hold keeps its width. *)
THEOREM CmosTypeOK == Spec => []TypeOK
<1>1. ClockInv => TypeOK
  BY DEF ClockInv
<1> QED
  BY <1>1, ClockInvariant, PTL

(* The call has taken less than a minute so far, an update included. *)
ShortCall == pc = "read" => now < called + 59

(* What agrees in two readings is what the clock showed between them.       *)
LEMMA AgreedMoment ==
    ASSUME ClockInv, ShortCall, ReadRtcReturns
    PROVE  \E b \in called .. now : time' = TimeOf(Instants[b])
<1>1. pc = "read" /\ Len(reading) = 7 /\ last # <<>> /\ \A i \in Fields : last[i] = reading[i]
  BY DEF ReadRtcReturns, Agrees
<1>2. PICK b \in called .. now : ReadIn(last, called, b) /\ ReadIn(reading, b, Latest)
  BY <1>1 DEF ClockInv, ReadInv
<1>3. Len(last) = 7
  BY <1>1 DEF ClockInv, TypeOK
<1>4. /\ called \in 1 .. Len(Instants) /\ b \in 1 .. Len(Instants)
      /\ Latest \in 1 .. Len(Instants) /\ Latest < called + 60
  BY <1>1, InstantLength DEF ClockInv, TypeOK, Latest, ShortCall
<1>5. ASSUME NEW i \in Fields PROVE reading[i] = Register(b, i)
  <2>1. PICK t \in called .. b, w \in b .. Latest :
           last[i] = Register(t, i) /\ reading[i] = Register(w, i)
    BY <1>1, <1>2, <1>3 DEF ReadIn, Fields
  <2>2. t \in 1 .. Len(Instants) /\ w \in 1 .. Len(Instants)
        /\ t <= b /\ b <= w /\ w < t + 60
    BY <1>4, InstantLength
  <2>3. Instants[t][i] = Instants[w][i]
    BY <1>1, <2>1, <2>2, RegisterFacts DEF ClockInv
  <2>4. Instants[b][i] = Instants[t][i]
    BY <1>4, <2>2, <2>3, ClockAssumption, InstantType
  <2>5. Register(b, i) = Register(t, i)
    BY <1>4, <2>2, <2>4, RegisterFacts DEF ClockInv
  <2> QED
    BY <1>1, <2>1, <2>5
<1>6. Convert(reading) = TimeOf(Instants[b])
  <2> DEFINE m == Instants[b]
  <2>1. \A i \in Fields : m[i] \in 0 .. 99
    BY <1>4, InstantType
  <2>2. m[3] <= 23
    <3>1. b \in DOMAIN Instants
      BY <1>4, InstantType
    <3>2. m[3] \in 0 .. 23
      BY <3>1, ClockAssumption
    <3> QED
      BY <3>2
  <2>3. CASE binary
    <3>1. \A i \in Fields : reading[i] = m[i]
      BY <1>5, <2>3 DEF Register
    <3> QED
      BY <2>3, <3>1 DEF Convert, TimeOf, Fields
  <2>4. CASE ~ binary
    <3>1. \A i \in Fields : reading[i] = Bcd(m[i])
      BY <1>5, <2>4 DEF Register
    <3>2. /\ \A i \in Fields : FromBcd(reading[i]) = m[i]
          /\ HourFromBcd(reading[3]) = m[3]
      <4> HIDE DEF m
      <4>1. ASSUME NEW i \in Fields PROVE FromBcd(reading[i]) = m[i]
        <5>1. FromBcd(Bcd(m[i])) = m[i]
          BY <2>1, BcdFacts
        <5> QED
          BY <3>1, <5>1
      <4>2. 3 \in Fields
        BY DEF Fields
      <4>3. HourFromBcd(Bcd(m[3])) = m[3]
        BY <2>1, <2>2, <4>2, BcdFacts
      <4> QED
        BY <3>1, <4>1, <4>2, <4>3
    <3> HIDE DEF m
    <3>3. Convert(reading) = TimeOf(m)
      BY <2>4, <3>2 DEF Convert, TimeOf, Fields
    <3> QED
      BY <3>3 DEF m
  <2> QED
    BY <2>3, <2>4
<1> QED
  BY <1>6 DEF ReadRtcReturns

(* The time read_rtc returns is one the clock showed during the call, as    *)
(* long as no call takes a minute: the moment between the two readings that *)
(* agree, however many updates fall into either of them.                    *)
THEOREM TimeWasShownHolds == Spec /\ []ShortCall => TimeWasShown
<1>1. ClockInv /\ ShortCall =>
         [ReadRtcReturns => \E t \in called .. now : time' = TimeOf(Instants[t])]_vars
  BY AgreedMoment
<1> QED
  BY <1>1, ClockInvariant, PTL DEF TimeWasShown
=============================================================================
