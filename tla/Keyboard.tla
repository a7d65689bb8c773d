------------------------------ MODULE Keyboard ------------------------------
(***************************************************************************)
(* The keyboard driver, Drivers/keyboard/keyboard_driver.c, and the        *)
(* keyboard itself, which is external.  The keyboard queues bytes and      *)
(* raises IRQ 1 while the controller's output buffer is full; the handler  *)
(* reads one byte per interrupt.  Between the interrupt and the reader     *)
(* there is a single slot, _scancode.                                      *)
(*                                                                         *)
(* A byte is a scan code and the break bit.  A scan code is named by the   *)
(* key the table _kkeyboard_scancode_std has for it; the table ends at     *)
(* 0x52, so the codes in Beyond (F12, and what is left of an error byte    *)
(* when the break bit is taken off) read whatever lies behind it.          *)
(*                                                                         *)
(* The prefixes 0xE0 and 0xE1 are left out: the handler only sets a        *)
(* variable that nothing reads, and takes the byte behind them as it is.   *)
(***************************************************************************)
EXTENDS Integers, FiniteSets, Sequences, SequencesExt

CONSTANTS
    Keys,        \* keys the typist uses
    OutOfTable,  \* keys that memory behind the table may look like
    MaxTyped     \* presses (and repeats) the typist makes

Letters == {"A", "B"}
Shifts == {"LSHIFT", "RSHIFT"}
(* Replies of the keyboard to a command: 0xFA and 0xFE. *)
ErrorCodes == {"ACK", "RESEND"}
Beyond == {"F12"} \cup ErrorCodes
InTable == Letters \cup Shifts
    \cup {"LCTRL", "LALT", "CAPSLOCK", "RETURN", "BACKSPACE", "UNKNOWN"}

ASSUME KeyboardAssumption ==
    /\ Keys \subseteq InTable \cup {"F12"}
    /\ OutOfTable \subseteq InTable
    /\ MaxTyped \in Nat

VARIABLES
    wire,                       \* bytes the keyboard sent and nobody read
    down,                       \* keys held down
    typed,                      \* history: keys pressed, with the case meant
    caps_on,                    \* what the typist takes the caps lock for
    _scancode,                  \* the slot; INVALID when empty
    _shift, _ctrl, _alt, _capslock,
    _kkeyboard_resend_response

keyboardVars == <<wire, down, typed, caps_on>>
driverVars == <<_scancode, _shift, _ctrl, _alt, _capslock,
                _kkeyboard_resend_response>>

INVALID == "INVALID_SCANCODE"
Byte(code, break) == [code |-> code, break |-> break]

KeyboardInit ==
    /\ wire = <<>> /\ down = {} /\ typed = <<>> /\ caps_on = FALSE
    /\ _scancode = INVALID
    /\ _shift = 0 /\ _ctrl = 0 /\ _alt = 0 /\ _capslock = 0
    /\ _kkeyboard_resend_response = 0

-----------------------------------------------------------------------------
(* The typist and the keyboard *)

Meant(k) ==
    [key |-> k,
     upper |-> k \in Letters /\ (caps_on \/ down \cap Shifts # {})]

(* A key goes down, or repeats while it is down. *)
Press(k) ==
    /\ Len(typed) < MaxTyped
    /\ down' = down \cup {k}
    /\ typed' = Append(typed, Meant(k))
    /\ caps_on' = IF k = "CAPSLOCK" THEN ~ caps_on ELSE caps_on
    /\ wire' = Append(wire, Byte(k, FALSE))
    /\ UNCHANGED driverVars

Release(k) ==
    /\ k \in down
    /\ down' = down \ {k}
    /\ wire' = Append(wire, Byte(k, TRUE))
    /\ UNCHANGED <<typed, caps_on, driverVars>>

-----------------------------------------------------------------------------
(* The driver *)

(* The keys the table may give for a code. *)
Lookup(code) == IF code \in Beyond THEN OutOfTable ELSE {code}

(* kkeyboard_set_leds sends two bytes; the keyboard answers each with an    *)
(* acknowledgement, or asks for it again.                                   *)
LedReplies == { <<Byte(r, TRUE), Byte("ACK", TRUE)>> : r \in ErrorCodes }

Answer(key, rest) ==
    IF key = "CAPSLOCK" THEN \E r \in LedReplies : wire' = rest \o r
    ELSE wire' = rest

(* Variant: only the left shift key is watched on release. *)
Break_left_only(key) ==
    /\ _ctrl' = IF key = "LCTRL" THEN 0 ELSE _ctrl
    /\ _shift' = IF key = "LSHIFT" THEN 0 ELSE _shift
    /\ UNCHANGED <<_scancode, _alt, _capslock>>

Break(key) ==
    /\ _ctrl' = IF key = "LCTRL" THEN 0 ELSE _ctrl
    /\ _shift' = IF key \in Shifts THEN 0 ELSE _shift
    /\ UNCHANGED <<_scancode, _alt, _capslock>>

(* Variant: a repeated caps lock is not a new press. *)
Make_caps_once(code, key) ==
    /\ _scancode' = code
    /\ _ctrl' = IF key = "LCTRL" THEN 1 ELSE _ctrl
    /\ _shift' = IF key \in Shifts THEN 1 ELSE _shift
    /\ _alt' = IF key = "LALT" THEN 1 ELSE _alt
    /\ _capslock' = IF key = "CAPSLOCK" THEN 1 ELSE _capslock

Make(code, key) ==
    /\ _scancode' = code
    /\ _ctrl' = IF key = "LCTRL" THEN 1 ELSE _ctrl
    /\ _shift' = IF key \in Shifts THEN 1 ELSE _shift
    /\ _alt' = IF key = "LALT" THEN 1 ELSE _alt
    /\ _capslock' = IF key = "CAPSLOCK" THEN 1 - _capslock ELSE _capslock

(* Variant: the byte stays until the slot is empty. *)
i86_keyboard_irq_c_waits ==
    /\ wire # <<>> /\ _scancode = INVALID
    /\ \E key \in Lookup(Head(wire).code) :
          IF Head(wire).break
          THEN Break(key) /\ wire' = Tail(wire)
          ELSE Make(Head(wire).code, key) /\ Answer(key, Tail(wire))
    /\ UNCHANGED <<down, typed, caps_on, _kkeyboard_resend_response>>

(* One interrupt.  The test for error bytes comes after the break bit was   *)
(* taken off the code, which no error code survives, so nothing sets        *)
(* _kkeyboard_resend_response.                                              *)
i86_keyboard_irq_c ==
    /\ wire # <<>>
    /\ \E key \in Lookup(Head(wire).code) :
          IF Head(wire).break
          THEN Break(key) /\ wire' = Tail(wire)
          ELSE Make(Head(wire).code, key) /\ Answer(key, Tail(wire))
    /\ UNCHANGED <<down, typed, caps_on, _kkeyboard_resend_response>>

(* The key in the slot, "UNKNOWN" when it is empty: a set, since the table  *)
(* may be read past its end.                                                *)
kkeyboard_get_last_key == IF _scancode = INVALID THEN {"UNKNOWN"} ELSE Lookup(_scancode)

(* The low byte of a key code is taken for the character: it is one for     *)
(* every key but F12's like (0x4000, tab, is 0), control keys included.     *)
kkeyboard_key_to_ascii(key) ==
    [key |-> key,
     upper |-> key \in Letters /\ (_shift = 1 \/ _capslock = 1)]
=============================================================================
