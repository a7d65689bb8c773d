------------------------------ MODULE Console ------------------------------
(***************************************************************************)
(* The shell's line editor, getch and get_cmd of Shell/seashell.c, reading *)
(* the keyboard driver while interrupts come in between any two of its     *)
(* steps.                                                                  *)
(***************************************************************************)
EXTENDS Keyboard

CONSTANTS
    LineSize,   \* n of get_cmd
    Patient     \* the typist waits until the last key was handled

ASSUME ConsoleAssumption == LineSize \in Nat \ {0} /\ Patient \in BOOLEAN

VARIABLES
    pc,      \* where the shell is
    key,     \* the local of get_cmd
    buf,     \* the line so far; i is its length
    got      \* history: what getch returned, as it was used

vars == <<wire, down, typed, caps_on, _scancode, _shift, _ctrl, _alt, _capslock,
          _kkeyboard_resend_response, pc, key, buf, got>>
shellVars == <<pc, key, buf, got>>

Init ==
    /\ KeyboardInit
    /\ pc = "poll" /\ key = "UNKNOWN" /\ buf = <<>> /\ got = <<>>

(* The shell spins in getch and there is nothing on the way to it. *)
Quiet == pc = "poll" /\ wire = <<>> /\ kkeyboard_get_last_key = {"UNKNOWN"}

PressKey ==
    /\ Patient => Quiet
    /\ \E k \in Keys : Press(k)
    /\ UNCHANGED shellVars

ReleaseKey ==
    /\ Patient => Quiet
    /\ \E k \in Keys : Release(k)
    /\ UNCHANGED shellVars

Irq == i86_keyboard_irq_c /\ UNCHANGED shellVars

(* getch: spin until the slot holds a key, then empty the slot. *)
getch_poll ==
    /\ pc = "poll"
    /\ \E k \in kkeyboard_get_last_key \ {"UNKNOWN"} : key' = k
    /\ pc' = "discard"
    /\ UNCHANGED <<keyboardVars, driverVars, buf, got>>

(* Variant: the slot keeps its key. *)
getch_discard_kept ==
    /\ pc = "discard" /\ pc' = "use"
    /\ UNCHANGED <<keyboardVars, driverVars, key, buf, got>>

getch_discard ==
    /\ pc = "discard" /\ pc' = "use"
    /\ _scancode' = INVALID
    /\ UNCHANGED <<keyboardVars, _shift, _ctrl, _alt, _capslock,
                   _kkeyboard_resend_response, key, buf, got>>

(* What get_cmd does to the line with a key that is not Return. *)
Edited ==
    IF key # "BACKSPACE" THEN Append(buf, kkeyboard_key_to_ascii(key))
    ELSE IF buf = <<>> THEN buf
    ELSE Front(buf)

(* Variant: the line has no end. *)
Kept_unbounded == Edited

(* A full line ends get_cmd like Return, and the next one starts empty. *)
Kept == IF Len(Edited) = LineSize THEN <<>> ELSE Edited

(* Return, or a full line, ends get_cmd; the shell runs the command and     *)
(* asks for the next one.                                                   *)
get_cmd ==
    /\ pc = "use"
    /\ got' = Append(got, kkeyboard_key_to_ascii(key))
    /\ IF key = "RETURN" THEN buf' = <<>> /\ pc' = "poll"
       ELSE buf' = Kept /\ pc' = "sleep"
    /\ UNCHANGED <<keyboardVars, driverVars, key>>

sleep ==
    /\ pc = "sleep" /\ pc' = "poll"
    /\ UNCHANGED <<keyboardVars, driverVars, key, buf, got>>

Shell == getch_poll \/ getch_discard \/ get_cmd \/ sleep

Next == PressKey \/ ReleaseKey \/ Irq \/ Shell

(* Interrupts are taken, and the shell, the only thread, runs.  Nothing     *)
(* makes the typist type.                                                   *)
Spec == Init /\ [][Next]_vars /\ WF_vars(Irq) /\ WF_vars(Shell)

-----------------------------------------------------------------------------
(* Properties *)

TypeOK ==
    /\ wire \in Seq([code : Keys \cup ErrorCodes, break : BOOLEAN])
    /\ down \subseteq Keys
    /\ _scancode \in Keys \cup {INVALID}
    /\ {_shift, _ctrl, _alt, _capslock, _kkeyboard_resend_response} \subseteq {0, 1}
    /\ pc \in {"poll", "discard", "use", "sleep"}
    /\ key \in InTable
    /\ Len(buf) < LineSize

(* Keys get lost, but the shell never sees one twice, one that was not      *)
(* pressed, or two in the wrong order, whatever interrupts come between     *)
(* reading the slot and emptying it: each key it got has a place of its own *)
(* among the keys typed, behind those of the keys before it.  For a key     *)
(* whose code lies behind the table, it got what was found there.           *)
KeysInOrder ==
    \E place \in [DOMAIN got -> DOMAIN typed] :
        /\ \A i, j \in DOMAIN got : i < j => place[i] < place[j]
        /\ \A i \in DOMAIN got : got[i].key \in Lookup(typed[place[i]].key)

(* No order of presses, releases and interrupts leaves shift or control on  *)
(* with nobody holding them: both shift keys share one flag.                *)
NoStuckModifier ==
    wire = <<>> =>
        /\ _shift = 1 => down \cap Shifts # {}
        /\ _ctrl = 1 => "LCTRL" \in down

(* A patient typist's keys all reach the shell, in the order he typed them  *)
(* and in the case he meant: the state the shift and caps lock flags have   *)
(* when a key is used is that of the moment it was pressed.                 *)
PatientLosesNothing ==
    Quiet =>
        \E place \in [DOMAIN got -> DOMAIN typed] :
            /\ \A i, j \in DOMAIN got : i < j => place[i] < place[j]
            /\ \A i \in DOMAIN got : got[i] = typed[place[i]]
            /\ Range(place) = { j \in DOMAIN typed : typed[j].key # "UNKNOWN" }

(* ... and do so without another key: the shell never waits beside a key.   *)
EveryKeyArrives ==
    \A n \in 1 .. MaxTyped :
        Len(typed) = n ~> Len(got) >= Len(SelectSeq(typed, LAMBDA t : t.key # "UNKNOWN"))

(* keyboard_driver.c:430, "scancode is not a valid ascii char": a key that  *)
(* has no character puts none into the line.                                *)
OnlyCharactersInLine ==
    \A i \in DOMAIN buf : buf[i].key \notin Shifts \cup {"LCTRL", "LALT", "CAPSLOCK"}
=============================================================================
