--------------------------- MODULE ConsoleProofs ---------------------------
(***************************************************************************)
(* The line editor never takes a key twice or out of order, no flag of the *)
(* keyboard driver stays set with nobody holding its key, and a typist who *)
(* waits for each key is heard: for every set of keys, every number of     *)
(* presses and every length of the line.  The screen shows the line: for   *)
(* every number of rows and columns.                                       *)
(***************************************************************************)
EXTENDS Terminal, Lemmas

Bytes == [code : Keys \cup ErrorCodes, break : BOOLEAN]
Characters == [key : InTable, upper : BOOLEAN]

(* The types of the variables with what their use needs: only a keyboard's  *)
(* replies are in the wire beside the keys, and they look like releases.    *)
TypeInv ==
    /\ wire \in Seq(Bytes)
    /\ \A j \in DOMAIN wire : ~ wire[j].break => wire[j].code \in Keys
    /\ down \in SUBSET Keys
    /\ typed \in Seq([key : Keys, upper : BOOLEAN])
    /\ caps_on \in BOOLEAN
    /\ _scancode \in Keys \cup {INVALID}
    /\ _shift \in {0, 1} /\ _ctrl \in {0, 1} /\ _alt \in {0, 1} /\ _capslock \in {0, 1}
    /\ _kkeyboard_resend_response \in {0, 1}
    /\ pc \in {"poll", "discard", "use", "sleep"}
    /\ key \in InTable
    /\ buf \in Seq(Characters) /\ Len(buf) < LineSize
    /\ got \in Seq(Characters)

-----------------------------------------------------------------------------
(* What the steps do to the wire *)

(* The wire grows by the byte b. *)
Sends(b) ==
    /\ Len(wire') = Len(wire) + 1
    /\ \A j \in 1 .. Len(wire) : wire'[j] = wire[j]
    /\ wire'[Len(wire) + 1] = b

(* The wire loses its first byte, and grows by replies. *)
Reads ==
    /\ Len(wire) > 0 /\ Len(wire') >= Len(wire) - 1
    /\ \A j \in 1 .. (Len(wire) - 1) : wire'[j] = wire[j + 1]
    /\ \A j \in Len(wire) .. Len(wire') : wire'[j].break /\ wire'[j].code \in ErrorCodes

(* A byte of a key goes to the end of the wire. *)
LEMMA Sending ==
    ASSUME TypeInv, NEW k \in Keys, NEW b \in BOOLEAN, wire' = Append(wire, Byte(k, b))
    PROVE  /\ Sends(Byte(k, b)) /\ wire' \in Seq(Bytes)
           /\ \A j \in DOMAIN wire' : ~ wire'[j].break => wire'[j].code \in Keys
<1>1. Byte(k, b) \in Bytes /\ Byte(k, b).code = k
  BY DEF Byte, Bytes
<1>2. Sends(Byte(k, b)) /\ wire' \in Seq(Bytes)
  BY <1>1 DEF TypeInv, Sends
<1>3. ASSUME NEW j \in DOMAIN wire', ~ wire'[j].break PROVE wire'[j].code \in Keys
  <2>1. j \in 1 .. (Len(wire) + 1)
    BY <1>2 DEF Sends
  <2>2. CASE j \in 1 .. Len(wire)
    BY <1>2, <1>3, <2>2 DEF Sends, TypeInv
  <2>3. CASE j = Len(wire) + 1
    BY <1>1, <1>2, <2>3 DEF Sends
  <2> QED
    BY <2>1, <2>2, <2>3 DEF TypeInv
<1> QED
  BY <1>2, <1>3

(* Two elements more at the end of a sequence. *)
LEMMA TwoMore ==
    ASSUME NEW S, NEW a \in Seq(S), NEW x \in S, NEW y \in S, NEW b, b = a \o <<x, y>>
    PROVE  /\ b \in Seq(S) /\ Len(b) = Len(a) + 2
           /\ \A j \in 1 .. Len(a) : b[j] = a[j]
           /\ b[Len(a) + 1] = x /\ b[Len(a) + 2] = y
<1> DEFINE p == <<x, y>>
<1>1. p \in Seq(S) /\ Len(p) = 2 /\ p[1] = x /\ p[2] = y
  OBVIOUS
<1> HIDE DEF p
<1>2. /\ a \o p \in Seq(S)
      /\ Len(a \o p) = Len(a) + Len(p)
      /\ \A i \in 1 .. Len(a) + Len(p) :
            (a \o p)[i] = IF i <= Len(a) THEN a[i] ELSE p[i - Len(a)]
  BY <1>1, ConcatProperties
<1>3. PICK n \in Nat : n = Len(a)
  OBVIOUS
<1>4. \A j \in 1 .. n : (a \o p)[j] = a[j]
  BY <1>1, <1>2, <1>3
<1>5. (a \o p)[n + 1] = x /\ (a \o p)[n + 2] = y
  BY <1>1, <1>2, <1>3
<1> QED
  BY <1>1, <1>2, <1>3, <1>4, <1>5 DEF p

(* An interrupt reads one byte; setting the leds brings two replies. *)
LEMMA Reading ==
    ASSUME TypeInv, wire # <<>>, NEW k, wire' = Tail(wire) \/ Answer(k, Tail(wire))
    PROVE  /\ Reads /\ wire' \in Seq(Bytes)
           /\ \A j \in DOMAIN wire' : ~ wire'[j].break => wire'[j].code \in Keys
<1>1. /\ Tail(wire) \in Seq(Bytes) /\ Len(Tail(wire)) = Len(wire) - 1 /\ Len(wire) > 0
      /\ Len(wire) \in Nat
      /\ \A j \in 1 .. (Len(wire) - 1) : Tail(wire)[j] = wire[j + 1]
  BY DEF TypeInv
<1>2. Reads /\ wire' \in Seq(Bytes)
  <2>1. CASE wire' = Tail(wire)
    BY <1>1, <2>1 DEF Reads
  <2>2. ASSUME NEW r \in LedReplies, wire' = Tail(wire) \o r
        PROVE  Reads /\ wire' \in Seq(Bytes)
    <3>1. PICK c \in ErrorCodes : r = <<Byte(c, TRUE), Byte("ACK", TRUE)>>
      BY DEF LedReplies
    <3>2. Byte(c, TRUE) \in Bytes /\ Byte("ACK", TRUE) \in Bytes
      BY DEF Byte, Bytes, ErrorCodes
    <3>3. /\ wire' \in Seq(Bytes) /\ Len(wire') = Len(Tail(wire)) + 2
          /\ \A j \in 1 .. Len(Tail(wire)) : wire'[j] = Tail(wire)[j]
          /\ wire'[Len(Tail(wire)) + 1] = Byte(c, TRUE)
          /\ wire'[Len(Tail(wire)) + 2] = Byte("ACK", TRUE)
      <4>1. wire' = Tail(wire) \o <<Byte(c, TRUE), Byte("ACK", TRUE)>>
        BY <2>2, <3>1
      <4>2. PICK t \in Seq(Bytes) : t = Tail(wire)
        BY <1>1
      <4>0. PICK w : w = wire'
        OBVIOUS
      <4>3. PICK x \in Bytes, y \in Bytes : x = Byte(c, TRUE) /\ y = Byte("ACK", TRUE)
        BY <3>2
      <4>4. w = t \o <<x, y>>
        BY <4>0, <4>1, <4>2, <4>3
      <4>5. /\ w \in Seq(Bytes) /\ Len(w) = Len(t) + 2
            /\ \A j \in 1 .. Len(t) : w[j] = t[j]
            /\ w[Len(t) + 1] = x /\ w[Len(t) + 2] = y
        BY <4>4, TwoMore
      <4> QED
        BY <4>0, <4>2, <4>3, <4>5
    <3>4. \A i \in ErrorCodes : Byte(i, TRUE).break /\ Byte(i, TRUE).code \in ErrorCodes
      BY DEF Byte
    <3>5. /\ wire' \in Seq(Bytes) /\ Len(wire') = Len(wire) + 1
          /\ \A j \in 1 .. (Len(wire) - 1) : wire'[j] = wire[j + 1]
          /\ wire'[Len(wire)].break /\ wire'[Len(wire)].code \in ErrorCodes
          /\ wire'[Len(wire) + 1].break /\ wire'[Len(wire) + 1].code \in ErrorCodes
      <4>1. Len(Tail(wire)) + 1 = Len(wire) /\ Len(Tail(wire)) + 2 = Len(wire) + 1
        BY <1>1
      <4>2. "ACK" \in ErrorCodes
        BY DEF ErrorCodes
      <4> QED
        BY <1>1, <3>1, <3>3, <3>4, <4>1, <4>2
    <3>6. \A j \in Len(wire) .. Len(wire') : j = Len(wire) \/ j = Len(wire) + 1
      <4>1. PICK n \in Nat : n = Len(wire)
        BY <1>1
      <4>2. Len(wire') = n + 1
        BY <3>5, <4>1
      <4> QED
        BY <4>1, <4>2
    <3>7. ASSUME NEW j \in Len(wire) .. Len(wire')
          PROVE  wire'[j].break /\ wire'[j].code \in ErrorCodes
      BY <3>5, <3>6
    <3>8. Len(wire') >= Len(wire) - 1
      <4>1. PICK n \in Nat : n = Len(wire)
        BY <1>1
      <4>2. Len(wire') = n + 1
        BY <3>5, <4>1
      <4> QED
        BY <4>1, <4>2
    <3> QED
      BY <1>1, <3>5, <3>7, <3>8 DEF Reads
  <2> QED
    BY <2>1, <2>2 DEF Answer
<1>3. ASSUME NEW j \in DOMAIN wire', ~ wire'[j].break PROVE wire'[j].code \in Keys
  <2>1. j \in 1 .. (Len(wire) - 1) /\ wire'[j] = wire[j + 1]
    BY <1>1, <1>2, <1>3 DEF Reads
  <2> QED
    BY <1>1, <1>3, <2>1 DEF TypeInv
<1> QED
  BY <1>2, <1>3

-----------------------------------------------------------------------------
(* The types *)

(* A code the driver looks up names a key of the table. *)
LEMMA LookedUp ==
    ASSUME NEW c \in Keys, NEW k \in Lookup(c)
    PROVE  k \in InTable
BY KeyboardAssumption DEF Lookup, Beyond, InTable

(* What getch takes is what the table gives for the key in the slot. *)
LEMMA Polled ==
    ASSUME TypeInv, NEW k \in kkeyboard_get_last_key \ {"UNKNOWN"}
    PROVE  _scancode \in Keys /\ _scancode # INVALID /\ k \in Lookup(_scancode)
BY DEF TypeInv, kkeyboard_get_last_key

(* A key becomes a character that remembers its key. *)
LEMMA CharacterOf ==
    ASSUME NEW k \in InTable
    PROVE  kkeyboard_key_to_ascii(k) \in Characters /\ kkeyboard_key_to_ascii(k).key = k
BY DEF kkeyboard_key_to_ascii, Characters

(* The line never fills its array. *)
LEMMA KeptType ==
    ASSUME TypeInv
    PROVE  Kept \in Seq(Characters) /\ Len(Kept) < LineSize
<1>1. Edited \in Seq(Characters) /\ Len(Edited) <= LineSize
  <2>1. PICK c \in Characters : c = kkeyboard_key_to_ascii(key)
    BY CharacterOf DEF TypeInv
  <2>2. buf \in Seq(Characters) /\ Len(buf) < LineSize /\ LineSize \in Nat
    BY ConsoleAssumption DEF TypeInv
  <2>3. Append(buf, c) \in Seq(Characters) /\ Len(Append(buf, c)) = Len(buf) + 1
    BY <2>2
  <2>4. ASSUME buf # <<>> PROVE Front(buf) \in Seq(Characters) /\ Len(Front(buf)) <= Len(buf)
    BY <2>2, <2>4 DEF Front
  <2>5. Len(buf) + 1 <= LineSize /\ Len(buf) <= LineSize
    <3>1. Len(buf) \in Nat
      BY <2>2
    <3> QED
      BY <2>2, <3>1
  <2>6. CASE key # "BACKSPACE"
    BY <2>1, <2>3, <2>5, <2>6 DEF Edited
  <2>7. CASE key = "BACKSPACE" /\ buf = <<>>
    BY <2>2, <2>5, <2>7 DEF Edited
  <2>8. CASE key = "BACKSPACE" /\ buf # <<>>
    <3>1. Edited = Front(buf)
      BY <2>8 DEF Edited
    <3>2. Len(Front(buf)) \in Nat /\ Len(buf) \in Nat
      BY <2>2, <2>4, <2>8
    <3> QED
      BY <2>2, <2>4, <2>5, <2>8, <3>1, <3>2
  <2> QED
    BY <2>6, <2>7, <2>8
<1> HIDE DEF Edited
<1>2. PICK n \in Nat : n = Len(Edited)
  BY <1>1
<1> QED
  BY <1>1, <1>2, ConsoleAssumption DEF Kept

LEMMA InitTypeInv ==
    ASSUME Init
    PROVE  TypeInv
<1>1. LineSize \in Nat /\ 0 < LineSize
  BY ConsoleAssumption
<1>2. \A S : <<>> \in Seq(S) /\ Len(<<>>) = 0 /\ DOMAIN <<>> = {}
  OBVIOUS
<1>3. wire = <<>> /\ typed = <<>> /\ buf = <<>> /\ got = <<>>
  BY DEF Init, KeyboardInit
<1>4. /\ wire \in Seq(Bytes) /\ DOMAIN wire = {}
      /\ typed \in Seq([key : Keys, upper : BOOLEAN])
      /\ buf \in Seq(Characters) /\ Len(buf) < LineSize
      /\ got \in Seq(Characters)
  BY <1>1, <1>2, <1>3
<1> QED
  BY <1>4 DEF Init, KeyboardInit, TypeInv, INVALID, InTable

LEMMA PressTypeInv ==
    ASSUME TypeInv, PressKey
    PROVE  TypeInv'
<1>1. PICK k \in Keys : Press(k) /\ UNCHANGED shellVars
  BY DEF PressKey
<1>2. /\ wire' \in Seq(Bytes)
      /\ \A j \in DOMAIN wire' : ~ wire'[j].break => wire'[j].code \in Keys
  BY <1>1, Sending DEF Press
<1>3. Meant(k) \in [key : Keys, upper : BOOLEAN]
  BY DEF Meant, TypeInv
<1>4. typed' \in Seq([key : Keys, upper : BOOLEAN])
  <2>1. typed' = Append(typed, Meant(k))
    BY <1>1 DEF Press
  <2> QED
    BY <1>3, <2>1 DEF TypeInv
<1>5. down' \in SUBSET Keys /\ caps_on' \in BOOLEAN
  BY <1>1 DEF Press, TypeInv
<1>6. UNCHANGED <<driverVars, shellVars>>
  BY <1>1 DEF Press
<1> QED
  BY <1>2, <1>4, <1>5, <1>6 DEF TypeInv, driverVars, shellVars

LEMMA ReleaseTypeInv ==
    ASSUME TypeInv, ReleaseKey
    PROVE  TypeInv'
<1>1. PICK k \in Keys : Release(k) /\ UNCHANGED shellVars
  BY DEF ReleaseKey
<1>2. /\ wire' \in Seq(Bytes)
      /\ \A j \in DOMAIN wire' : ~ wire'[j].break => wire'[j].code \in Keys
  BY <1>1, Sending DEF Release
<1>3. down' \in SUBSET Keys
  BY <1>1 DEF Release, TypeInv
<1>4. UNCHANGED <<typed, caps_on, driverVars, shellVars>>
  BY <1>1 DEF Release
<1> QED
  BY <1>2, <1>3, <1>4 DEF TypeInv, driverVars, shellVars

(* What one interrupt does, beside the wire: a release or a press of k. *)
LEMMA IrqSplit ==
    ASSUME TypeInv, Irq
    PROVE  /\ wire # <<>> /\ Reads /\ wire' \in Seq(Bytes)
           /\ \A j \in DOMAIN wire' : ~ wire'[j].break => wire'[j].code \in Keys
           /\ UNCHANGED <<down, typed, caps_on, _kkeyboard_resend_response, shellVars>>
           /\ \E k \in Lookup(wire[1].code) :
                 \/ wire[1].break /\ Break(k)
                 \/ ~ wire[1].break /\ Make(wire[1].code, k)
<1>1. wire # <<>> /\ Head(wire) = wire[1]
  BY DEF Irq, i86_keyboard_irq_c, TypeInv
<1>2. PICK k \in Lookup(wire[1].code) :
          IF wire[1].break
          THEN Break(k) /\ wire' = Tail(wire)
          ELSE Make(wire[1].code, k) /\ Answer(k, Tail(wire))
  BY <1>1 DEF Irq, i86_keyboard_irq_c
<1>3. wire' = Tail(wire) \/ Answer(k, Tail(wire))
  BY <1>2
<1>4. /\ Reads /\ wire' \in Seq(Bytes)
      /\ \A j \in DOMAIN wire' : ~ wire'[j].break => wire'[j].code \in Keys
  BY <1>1, <1>3, Reading
<1>5. UNCHANGED <<down, typed, caps_on, _kkeyboard_resend_response, shellVars>>
  BY DEF Irq, i86_keyboard_irq_c
<1> QED
  BY <1>1, <1>2, <1>4, <1>5

(* The handler leaves only keys, and the keyboard's replies, in the wire. *)
LEMMA IrqTypeInv ==
    ASSUME TypeInv, Irq
    PROVE  TypeInv'
<1>1. /\ wire # <<>> /\ wire' \in Seq(Bytes)
      /\ \A j \in DOMAIN wire' : ~ wire'[j].break => wire'[j].code \in Keys
      /\ UNCHANGED <<down, typed, caps_on, _kkeyboard_resend_response, shellVars>>
  BY IrqSplit
<1>2. PICK k \in Lookup(wire[1].code) :
         \/ wire[1].break /\ Break(k)
         \/ ~ wire[1].break /\ Make(wire[1].code, k)
  BY IrqSplit
<1>3. ~ wire[1].break => wire[1].code \in Keys
  <2>1. 1 \in DOMAIN wire
    BY <1>1 DEF TypeInv
  <2> QED
    BY <2>1 DEF TypeInv
<1>4. /\ _scancode' \in Keys \cup {INVALID} /\ _shift' \in {0, 1} /\ _ctrl' \in {0, 1}
      /\ _alt' \in {0, 1} /\ _capslock' \in {0, 1}
  BY <1>2, <1>3 DEF Break, Make, TypeInv
<1> QED
  BY <1>1, <1>4 DEF TypeInv, shellVars

LEMMA ShellTypeInv ==
    ASSUME TypeInv, Shell
    PROVE  TypeInv'
<1>1. CASE getch_poll
  <2>1. PICK k \in kkeyboard_get_last_key \ {"UNKNOWN"} : key' = k
    BY <1>1 DEF getch_poll
  <2>2. key' \in InTable
    BY <2>1, Polled, LookedUp
  <2>3. pc' = "discard" /\ UNCHANGED <<keyboardVars, driverVars, buf, got>>
    BY <1>1 DEF getch_poll
  <2> QED
    BY <2>2, <2>3 DEF TypeInv, keyboardVars, driverVars
<1>2. CASE getch_discard
  BY <1>2 DEF getch_discard, TypeInv, keyboardVars
<1>3. CASE get_cmd
  <2>1. got' \in Seq(Characters)
    <3>1. PICK c \in Characters : c = kkeyboard_key_to_ascii(key)
      BY CharacterOf DEF TypeInv
    <3>2. got' = Append(got, c)
      BY <1>3, <3>1 DEF get_cmd
    <3> QED
      BY <3>2 DEF TypeInv
  <2>2. buf' \in Seq(Characters) /\ Len(buf') < LineSize
    <3>1. CASE buf' = <<>>
      <4>1. LineSize \in Nat /\ 0 < LineSize
        BY ConsoleAssumption
      <4> QED
        BY <3>1, <4>1
    <3>2. CASE buf' = Kept
      BY <3>2, KeptType
    <3> QED
      BY <1>3, <3>1, <3>2 DEF get_cmd
  <2>3. pc' \in {"poll", "sleep"} /\ UNCHANGED <<keyboardVars, driverVars, key>>
    BY <1>3 DEF get_cmd
  <2> QED
    BY <2>1, <2>2, <2>3 DEF TypeInv, keyboardVars, driverVars
<1>4. CASE sleep
  BY <1>4 DEF sleep, TypeInv, keyboardVars, driverVars
<1> QED
  BY <1>1, <1>2, <1>3, <1>4 DEF Shell

LEMMA NextTypeInv ==
    ASSUME TypeInv, [Next]_vars
    PROVE  TypeInv'
<1>1. CASE UNCHANGED vars
  BY <1>1 DEF TypeInv, vars
<1> QED
  BY <1>1, PressTypeInv, ReleaseTypeInv, IrqTypeInv, ShellTypeInv DEF Next

(* The line stays shorter than its buffer, the slot holds a key or nothing, *)
(* and every key the shell takes is one of the table: TypeOK, always.       *)
THEOREM ConsoleTypeOK == Spec => []TypeOK
<1>1. ASSUME TypeInv PROVE TypeOK
  BY <1>1 DEF TypeInv, TypeOK, Bytes
<1>2. Init => TypeInv
  BY InitTypeInv
<1>3. TypeInv /\ [Next]_vars => TypeInv'
  BY NextTypeInv
<1> QED
  BY <1>1, <1>2, <1>3, PTL DEF Spec

-----------------------------------------------------------------------------
(* Modifiers *)

(* The byte is a press, or a release, of a key of S. *)
Makes(byte, S) == ~ byte.break /\ byte.code \in S
Breaks(byte, S) == byte.break /\ byte.code \in S

(* Memory behind the table does not look like a shift or control key. *)
NoLookalikes == "F12" \in Keys => OutOfTable \cap (Shifts \cup {"LCTRL"}) = {}

(* With no key of S among those held, whatever sets their flag f is         *)
(* followed by what clears it: a press still in the wire q by a release     *)
(* behind it, the flag by a release anywhere in q.                          *)
Settled(q, held, S, f) ==
    held \cap S = {} =>
        /\ \A i \in 1 .. Len(q) : Makes(q[i], S) =>
              \E j \in (i + 1) .. Len(q) : Breaks(q[j], S)
        /\ f = 1 => \E j \in 1 .. Len(q) : Breaks(q[j], S)

FlagInv ==
    /\ Settled(wire, down, Shifts, _shift)
    /\ Settled(wire, down, {"LCTRL"}, _ctrl)

(* A byte that is sent keeps a flag settled: a press leaves its key down,   *)
(* and the release that lifts the last key is behind everything else.       *)
LEMMA SendingSettles ==
    ASSUME TypeInv, NEW S, NEW f, Settled(wire, down, S, f),
           NEW k, NEW b \in BOOLEAN, Sends(Byte(k, b)),
           down' = IF b THEN down \ {k} ELSE down \cup {k}
    PROVE  Settled(wire', down', S, f)
<1> SUFFICES ASSUME down' \cap S = {}
             PROVE  /\ \A i \in 1 .. Len(wire') : Makes(wire'[i], S) =>
                          \E j \in (i + 1) .. Len(wire') : Breaks(wire'[j], S)
                    /\ f = 1 => \E j \in 1 .. Len(wire') : Breaks(wire'[j], S)
  BY DEF Settled
<1>1. PICK n \in Nat : n = Len(wire)
  BY DEF TypeInv
<1>2. Len(wire') = n + 1 /\ \A j \in 1 .. n : wire'[j] = wire[j]
  BY <1>1 DEF Sends
<1>3. wire'[n + 1].break = b /\ wire'[n + 1].code = k
  BY <1>1 DEF Sends, Byte
<1>4. ~ Makes(wire'[n + 1], S)
  <2>1. ~ b => k \notin S
    OBVIOUS
  <2> QED
    BY <1>3, <2>1 DEF Makes
<1>5. CASE b /\ k \in S
  <2>1. Breaks(wire'[n + 1], S)
    BY <1>3, <1>5 DEF Breaks
  <2> QED
    BY <1>1, <1>2, <1>4, <2>1
<1>6. CASE ~ (b /\ k \in S)
  <2>1. down \cap S = {}
    BY <1>6
  <2>2. /\ \A i \in 1 .. n : Makes(wire[i], S) =>
              \E j \in (i + 1) .. n : Breaks(wire[j], S)
        /\ f = 1 => \E j \in 1 .. n : Breaks(wire[j], S)
    BY <1>1, <2>1 DEF Settled
  <2>3. ASSUME NEW i \in 1 .. (n + 1), Makes(wire'[i], S)
        PROVE  \E j \in (i + 1) .. (n + 1) : Breaks(wire'[j], S)
    <3>1. i \in 1 .. n /\ Makes(wire[i], S)
      BY <1>2, <1>4, <2>3
    <3>2. PICK j \in (i + 1) .. n : Breaks(wire[j], S)
      BY <2>2, <3>1
    <3>3. j \in 1 .. n /\ j \in (i + 1) .. (n + 1)
      BY <3>1, <3>2
    <3> QED
      BY <1>2, <3>2, <3>3
  <2>4. ASSUME f = 1 PROVE \E j \in 1 .. (n + 1) : Breaks(wire'[j], S)
    <3>1. PICK j \in 1 .. n : Breaks(wire[j], S)
      BY <2>2, <2>4
    <3> QED
      BY <1>2, <3>1
  <2> QED
    BY <1>2, <2>3, <2>4
<1> QED
  BY <1>5, <1>6

(* A byte that is read moves its effect from the wire into the flag. *)
LEMMA ReadingSettles ==
    ASSUME TypeInv, NEW S, NEW f, Settled(wire, down, S, f),
           Reads, wire' \in Seq(Bytes), NEW g,
           g = 1 => (f = 1 /\ ~ Breaks(wire[1], S)) \/ Makes(wire[1], S)
    PROVE  Settled(wire', down, S, g)
<1> SUFFICES ASSUME down \cap S = {}
             PROVE  /\ \A i \in 1 .. Len(wire') : Makes(wire'[i], S) =>
                          \E j \in (i + 1) .. Len(wire') : Breaks(wire'[j], S)
                    /\ g = 1 => \E j \in 1 .. Len(wire') : Breaks(wire'[j], S)
  BY DEF Settled
<1>1. PICK n \in Nat : n = Len(wire)
  BY DEF TypeInv
<1>2. PICK m \in Nat : m = Len(wire')
  OBVIOUS
<1>3. n > 0 /\ m >= n - 1 /\ \A j \in 1 .. (n - 1) : wire'[j] = wire[j + 1]
  BY <1>1, <1>2 DEF Reads
<1>4. /\ \A i \in 1 .. n : Makes(wire[i], S) =>
              \E j \in (i + 1) .. n : Breaks(wire[j], S)
      /\ f = 1 => \E j \in 1 .. n : Breaks(wire[j], S)
  BY <1>1 DEF Settled
<1>5. ASSUME NEW i \in 1 .. m, Makes(wire'[i], S)
      PROVE  \E j \in (i + 1) .. m : Breaks(wire'[j], S)
  <2>1. i \in 1 .. (n - 1)
    <3>1. \A j \in n .. m : ~ Makes(wire'[j], S)
      BY <1>1, <1>2 DEF Reads, Makes
    <3> QED
      BY <1>3, <1>5, <3>1
  <2>2. i + 1 \in 1 .. n /\ Makes(wire[i + 1], S)
    BY <1>3, <1>5, <2>1
  <2>3. PICK j \in (i + 2) .. n : Breaks(wire[j], S)
    BY <1>4, <2>2
  <2>4. j - 1 \in 1 .. (n - 1) /\ j - 1 \in (i + 1) .. m /\ (j - 1) + 1 = j
    BY <1>3, <2>1, <2>3
  <2>5. Breaks(wire'[j - 1], S)
    BY <1>3, <2>3, <2>4
  <2> QED
    BY <2>4, <2>5
<1>6. ASSUME g = 1 PROVE \E j \in 1 .. m : Breaks(wire'[j], S)
  <2>1. PICK j \in 2 .. n : Breaks(wire[j], S)
    <3>1. CASE f = 1 /\ ~ Breaks(wire[1], S)
      <4>1. PICK j \in 1 .. n : Breaks(wire[j], S)
        BY <1>4, <3>1
      <4>2. j # 1
        BY <3>1, <4>1
      <4> QED
        BY <4>1, <4>2
    <3>2. CASE Makes(wire[1], S)
      BY <1>3, <1>4, <3>2
    <3> QED
      BY <1>6, <3>1, <3>2
  <2>2. j - 1 \in 1 .. (n - 1) /\ j - 1 \in 1 .. m /\ (j - 1) + 1 = j
    BY <1>3, <2>1
  <2>3. Breaks(wire'[j - 1], S)
    BY <1>3, <2>1, <2>2
  <2> QED
    BY <2>2, <2>3
<1> QED
  BY <1>2, <1>5, <1>6

(* No step sets a flag without its key's release to follow. *)
LEMMA NextFlagInv ==
    ASSUME NoLookalikes, TypeInv, FlagInv, [Next]_vars
    PROVE  FlagInv'
<1>1. CASE PressKey
  <2>1. PICK k \in Keys : Press(k)
    BY <1>1 DEF PressKey
  <2>2. /\ Sends(Byte(k, FALSE))
        /\ down' = IF FALSE THEN down \ {k} ELSE down \cup {k}
        /\ _shift' = _shift /\ _ctrl' = _ctrl
    BY <2>1, Sending DEF Press, driverVars
  <2>3. \A S, f : Settled(wire, down, S, f) => Settled(wire', down', S, f)
    BY <2>2, SendingSettles
  <2> QED
    BY <2>2, <2>3 DEF FlagInv
<1>2. CASE ReleaseKey
  <2>1. PICK k \in Keys : Release(k)
    BY <1>2 DEF ReleaseKey
  <2>2. /\ Sends(Byte(k, TRUE))
        /\ down' = IF TRUE THEN down \ {k} ELSE down \cup {k}
        /\ _shift' = _shift /\ _ctrl' = _ctrl
    BY <2>1, Sending DEF Release, driverVars
  <2>3. \A S, f : Settled(wire, down, S, f) => Settled(wire', down', S, f)
    BY <2>2, SendingSettles
  <2> QED
    BY <2>2, <2>3 DEF FlagInv
<1>3. CASE Irq
  <2>1. PICK k \in Lookup(wire[1].code) :
           \/ wire[1].break /\ Break(k)
           \/ ~ wire[1].break /\ Make(wire[1].code, k)
    BY <1>3, IrqSplit
  <2>2. Reads /\ wire' \in Seq(Bytes) /\ down' = down
    BY <1>3, IrqSplit
  <2>3. ~ wire[1].break => wire[1].code \in Keys
    BY <2>2 DEF TypeInv, Reads
  <2>4. wire[1].code \in Shifts \cup {"LCTRL"} => k = wire[1].code
    BY <2>1 DEF Lookup, Beyond, Shifts, ErrorCodes
  <2>5. ~ wire[1].break /\ k \in Shifts \cup {"LCTRL"} => k = wire[1].code
    BY <2>1, <2>3, KeyboardAssumption
       DEF Lookup, Beyond, Shifts, ErrorCodes, InTable, Letters, NoLookalikes
  <2>6. _shift' = 1 => (_shift = 1 /\ ~ Breaks(wire[1], Shifts)) \/ Makes(wire[1], Shifts)
    BY <2>1, <2>4, <2>5 DEF Break, Make, Breaks, Makes, Shifts
  <2>7. _ctrl' = 1 => (_ctrl = 1 /\ ~ Breaks(wire[1], {"LCTRL"})) \/ Makes(wire[1], {"LCTRL"})
    BY <2>1, <2>4, <2>5 DEF Break, Make, Breaks, Makes
  <2>8. Settled(wire', down, Shifts, _shift')
    <3>1. PICK f, g : f = _shift /\ g = _shift'
      OBVIOUS
    <3>2. g = 1 => (f = 1 /\ ~ Breaks(wire[1], Shifts)) \/ Makes(wire[1], Shifts)
      BY <2>6, <3>1
    <3>3. Settled(wire, down, Shifts, f)
      BY <3>1 DEF FlagInv
    <3> QED
      BY <2>2, <3>1, <3>2, <3>3, ReadingSettles
  <2>9. Settled(wire', down, {"LCTRL"}, _ctrl')
    <3>1. PICK f, g : f = _ctrl /\ g = _ctrl'
      OBVIOUS
    <3>2. g = 1 => (f = 1 /\ ~ Breaks(wire[1], {"LCTRL"})) \/ Makes(wire[1], {"LCTRL"})
      BY <2>7, <3>1
    <3>3. Settled(wire, down, {"LCTRL"}, f)
      BY <3>1 DEF FlagInv
    <3> QED
      BY <2>2, <3>1, <3>2, <3>3, ReadingSettles
  <2> QED
    BY <2>2, <2>8, <2>9 DEF FlagInv
<1>4. CASE Shell \/ UNCHANGED vars
  <2>1. UNCHANGED <<wire, down, _shift, _ctrl>>
    BY <1>4 DEF Shell, getch_poll, getch_discard, get_cmd, sleep, keyboardVars,
       driverVars, vars
  <2> QED
    BY <2>1 DEF FlagInv
<1> QED
  BY <1>1, <1>2, <1>3, <1>4 DEF Next

(* In every order of presses, releases and interrupts: when the driver has  *)
(* read all bytes and its shift or control flag is set, one of that flag's  *)
(* keys is down.                                                            *)
THEOREM NoModifierSticks ==
    ASSUME NoLookalikes
    PROVE  Spec => []NoStuckModifier
<1>1. Init => FlagInv
  BY DEF Init, KeyboardInit, FlagInv, Settled
<1>2. ASSUME TypeInv, FlagInv PROVE NoStuckModifier
  <2> SUFFICES ASSUME wire = <<>>
               PROVE  /\ _shift = 1 => down \cap Shifts # {}
                      /\ _ctrl = 1 => "LCTRL" \in down
    BY DEF NoStuckModifier
  <2>1. 1 .. Len(wire) = {}
    OBVIOUS
  <2> QED
    BY <1>2, <2>1 DEF FlagInv, Settled
<1>3. Init => TypeInv
  BY InitTypeInv
<1>4. TypeInv /\ [Next]_vars => TypeInv'
  BY NextTypeInv
<1>5. TypeInv /\ FlagInv /\ [Next]_vars => FlagInv'
  BY NextFlagInv
<1> QED
  BY <1>1, <1>2, <1>3, <1>4, <1>5, PTL DEF Spec

-----------------------------------------------------------------------------
(* Order *)

Holding == pc \in {"discard", "use"}

(* The keys the shell got are those typed at the places place, one behind   *)
(* the other and none behind h; the one it holds was typed at h.  A key     *)
(* whose code lies behind the table is what was found there.                *)
Taken(place, h) ==
    /\ place \in [1 .. Len(got) -> 1 .. Len(typed)]
    /\ \A i, j \in 1 .. Len(got) : i < j => place[i] < place[j]
    /\ \A i \in 1 .. Len(got) :
          got[i].key \in Lookup(typed[place[i]].key) /\ place[i] <= h /\ (Holding => place[i] < h)
    /\ h \in 0 .. Len(typed)
    /\ Holding => h > 0 /\ key \in Lookup(typed[h].key)

(* The key in the slot was typed at s; it is another one than the shell     *)
(* holds, unless the shell is about to empty the slot.                      *)
Slotted(h, s) ==
    /\ s \in 0 .. Len(typed) /\ h <= s
    /\ _scancode # INVALID =>
          s > 0 /\ _scancode = typed[s].key /\ (pc # "discard" => h < s)

(* The presses in the wire were typed at the places w, behind s. *)
Coming(s, w) ==
    /\ w \in [1 .. Len(wire) -> 0 .. Len(typed)]
    /\ \A j \in 1 .. Len(wire) : ~ wire[j].break =>
          s < w[j] /\ wire[j].code = typed[w[j]].key
    /\ \A i, j \in 1 .. Len(wire) :
          i < j /\ ~ wire[i].break /\ ~ wire[j].break => w[i] < w[j]

OrderInv ==
    \E place, w : \E h, s \in Nat : Taken(place, h) /\ Slotted(h, s) /\ Coming(s, w)

(* Typing another key leaves the places of the keys before it. *)
LEMMA TypedGrows ==
    ASSUME TypeInv, NEW k, typed' = Append(typed, k)
    PROVE  /\ Len(typed) \in Nat /\ Len(typed') = Len(typed) + 1
           /\ \A i \in 1 .. Len(typed) : typed'[i] = typed[i]
           /\ typed'[Len(typed) + 1] = k
BY DEF TypeInv

(* A new press has the last place of all. *)
LEMMA PressOrder ==
    ASSUME TypeInv, OrderInv, PressKey
    PROVE  OrderInv'
<1>1. PICK k \in Keys : Press(k) /\ UNCHANGED shellVars
  BY DEF PressKey
<1>2. PICK place, w : \E h, s \in Nat : Taken(place, h) /\ Slotted(h, s) /\ Coming(s, w)
  BY DEF OrderInv
<1>3. PICK h \in Nat, s \in Nat : Taken(place, h) /\ Slotted(h, s) /\ Coming(s, w)
  BY <1>2
<1>4. PICK m \in Nat, n \in Nat : m = Len(typed) /\ n = Len(wire)
  BY DEF TypeInv
<1>5. /\ Len(typed') = m + 1 /\ \A i \in 1 .. m : typed'[i] = typed[i]
      /\ typed'[m + 1].key = k
  <2>1. typed' = Append(typed, Meant(k)) /\ Meant(k).key = k
    BY <1>1 DEF Press, Meant
  <2> QED
    BY <1>4, <2>1, TypedGrows
<1>6. /\ Len(wire') = n + 1 /\ \A j \in 1 .. n : wire'[j] = wire[j]
      /\ wire'[n + 1].break = FALSE /\ wire'[n + 1].code = k
  BY <1>1, <1>4, Sending DEF Press, Sends, Byte
<1>7. UNCHANGED <<_scancode, pc, key, got>>
  BY <1>1 DEF Press, driverVars, shellVars
<1>8. Taken(place, h)' /\ Slotted(h, s)'
  <2>1. 1 .. m \subseteq 1 .. (m + 1) /\ 0 .. m \subseteq 0 .. (m + 1)
    OBVIOUS
  <2>2. place \in [1 .. Len(got) -> 1 .. m] /\ h \in 0 .. m /\ s \in 0 .. m
    BY <1>3, <1>4 DEF Taken, Slotted
  <2>3. place \in [1 .. Len(got) -> 1 .. (m + 1)] /\ h \in 0 .. (m + 1) /\ s \in 0 .. (m + 1)
    BY <2>1, <2>2
  <2>4. /\ \A i \in 1 .. Len(got) : typed'[place[i]] = typed[place[i]]
        /\ h > 0 => typed'[h] = typed[h]
        /\ s > 0 => typed'[s] = typed[s]
    BY <1>5, <2>2
  <2>5. Taken(place, h)'
    BY <1>3, <1>5, <1>7, <2>3, <2>4 DEF Taken, Holding
  <2>6. Slotted(h, s)'
    BY <1>3, <1>5, <1>7, <2>3, <2>4 DEF Slotted
  <2> QED
    BY <2>5, <2>6
<1> DEFINE v == [j \in 1 .. (n + 1) |-> IF j <= n THEN w[j] ELSE m + 1]
<1>9. Coming(s, v)'
  <2>1. /\ w \in [1 .. n -> 0 .. m] /\ s \in 0 .. m
        /\ \A j \in 1 .. n : ~ wire[j].break => s < w[j] /\ wire[j].code = typed[w[j]].key
        /\ \A i, j \in 1 .. n :
              i < j /\ ~ wire[i].break /\ ~ wire[j].break => w[i] < w[j]
    BY <1>3, <1>4 DEF Coming, Slotted
  <2>2. /\ \A j \in 1 .. n : v[j] = w[j] /\ w[j] \in 0 .. m
        /\ v[n + 1] = m + 1
    BY <2>1
  <2>3. v \in [1 .. (n + 1) -> 0 .. (m + 1)]
    <3>1. ASSUME NEW j \in 1 .. (n + 1)
          PROVE  (IF j <= n THEN w[j] ELSE m + 1) \in 0 .. (m + 1)
      <4>1. CASE j <= n
        BY <2>1, <4>1
      <4> QED
        BY <4>1
    <3> QED
      BY <3>1
  <2> HIDE DEF v
  <2>4. ASSUME NEW j \in 1 .. (n + 1), ~ wire'[j].break
        PROVE  s < v[j] /\ wire'[j].code = typed'[v[j]].key
    <3>1. CASE j \in 1 .. n
      <4>1. s < w[j] /\ w[j] \in 1 .. m /\ wire[j].code = typed[w[j]].key
        BY <1>6, <2>1, <2>2, <2>4, <3>1
      <4> QED
        BY <1>5, <1>6, <2>2, <3>1, <4>1
    <3>2. CASE j = n + 1
      BY <1>5, <1>6, <2>1, <2>2, <3>2
    <3> QED
      BY <3>1, <3>2
  <2>5. ASSUME NEW i \in 1 .. (n + 1), NEW j \in 1 .. (n + 1),
               i < j, ~ wire'[i].break, ~ wire'[j].break
        PROVE  v[i] < v[j]
    <3>1. i \in 1 .. n /\ v[i] = w[i] /\ w[i] \in 0 .. m
      BY <2>2, <2>5
    <3>2. CASE j \in 1 .. n
      BY <1>6, <2>1, <2>2, <2>5, <3>1, <3>2
    <3>3. CASE j = n + 1
      BY <2>2, <3>1, <3>3
    <3> QED
      BY <3>2, <3>3
  <2> QED
    BY <1>5, <1>6, <2>3, <2>4, <2>5 DEF Coming
<1> QED
  BY <1>8, <1>9 DEF OrderInv

(* A release has no place. *)
LEMMA ReleaseOrder ==
    ASSUME TypeInv, OrderInv, ReleaseKey
    PROVE  OrderInv'
<1>1. PICK k \in Keys : Release(k) /\ UNCHANGED shellVars
  BY DEF ReleaseKey
<1>2. PICK place, w : \E h, s \in Nat : Taken(place, h) /\ Slotted(h, s) /\ Coming(s, w)
  BY DEF OrderInv
<1>3. PICK h \in Nat, s \in Nat : Taken(place, h) /\ Slotted(h, s) /\ Coming(s, w)
  BY <1>2
<1>4. PICK m \in Nat, n \in Nat : m = Len(typed) /\ n = Len(wire)
  BY DEF TypeInv
<1>5. /\ Len(wire') = n + 1 /\ \A j \in 1 .. n : wire'[j] = wire[j]
      /\ wire'[n + 1].break
  BY <1>1, <1>4, Sending DEF Release, Sends, Byte
<1>6. UNCHANGED <<typed, _scancode, pc, key, got>>
  BY <1>1 DEF Release, driverVars, shellVars
<1>7. Taken(place, h)' /\ Slotted(h, s)'
  BY <1>3, <1>6 DEF Taken, Slotted, Holding
<1> DEFINE v == [j \in 1 .. (n + 1) |-> IF j <= n THEN w[j] ELSE 0]
<1>8. Coming(s, v)'
  <2>1. /\ w \in [1 .. n -> 0 .. m]
        /\ \A j \in 1 .. n : ~ wire[j].break => s < w[j] /\ wire[j].code = typed[w[j]].key
        /\ \A i, j \in 1 .. n :
              i < j /\ ~ wire[i].break /\ ~ wire[j].break => w[i] < w[j]
    BY <1>3, <1>4 DEF Coming
  <2>2. \A j \in 1 .. n : v[j] = w[j] /\ w[j] \in 0 .. m
    BY <2>1
  <2>3. v \in [1 .. (n + 1) -> 0 .. m]
    <3>1. \A j \in 1 .. (n + 1) : (IF j <= n THEN w[j] ELSE 0) \in 0 .. m
      BY <2>1
    <3> QED
      BY <3>1
  <2> HIDE DEF v
  <2>4. \A j \in 1 .. (n + 1) : ~ wire'[j].break => j \in 1 .. n /\ wire'[j] = wire[j]
    BY <1>5
  <2> QED
    BY <1>4, <1>5, <1>6, <2>1, <2>2, <2>3, <2>4 DEF Coming
<1> QED
  BY <1>7, <1>8 DEF OrderInv

(* The place of the press the handler reads becomes that of the slot. *)
LEMMA IrqOrder ==
    ASSUME TypeInv, OrderInv, Irq
    PROVE  OrderInv'
<1>1. PICK place, w : \E h, s \in Nat : Taken(place, h) /\ Slotted(h, s) /\ Coming(s, w)
  BY DEF OrderInv
<1>2. PICK h \in Nat, s \in Nat : Taken(place, h) /\ Slotted(h, s) /\ Coming(s, w)
  BY <1>1
<1>3. Reads /\ wire' \in Seq(Bytes) /\ UNCHANGED <<typed, pc, key, got>>
  BY IrqSplit DEF shellVars
<1>4. PICK m \in Nat, n \in Nat, l \in Nat : m = Len(typed) /\ n = Len(wire) /\ l = Len(wire')
  BY <1>3 DEF TypeInv
<1>5. /\ n > 0 /\ l >= n - 1
      /\ \A j \in 1 .. (n - 1) : wire'[j] = wire[j + 1]
      /\ \A j \in n .. l : wire'[j].break
  BY <1>3, <1>4 DEF Reads
<1> DEFINE v == [j \in 1 .. l |-> IF j < n THEN w[j + 1] ELSE 0]
<1>6. /\ w \in [1 .. n -> 0 .. m]
      /\ \A j \in 1 .. n : ~ wire[j].break => s < w[j] /\ wire[j].code = typed[w[j]].key
      /\ \A i, j \in 1 .. n :
            i < j /\ ~ wire[i].break /\ ~ wire[j].break => w[i] < w[j]
  BY <1>2, <1>4 DEF Coming
<1>7. \A j \in 1 .. (n - 1) : v[j] = w[j + 1] /\ j + 1 \in 1 .. n /\ w[j + 1] \in 0 .. m
  BY <1>5, <1>6
<1>8. v \in [1 .. l -> 0 .. m]
  <2>1. \A j \in 1 .. l : (IF j < n THEN w[j + 1] ELSE 0) \in 0 .. m
    BY <1>5, <1>6
  <2> QED
    BY <2>1
<1> HIDE DEF v
<1>9. \A j \in 1 .. l : ~ wire'[j].break => j \in 1 .. (n - 1) /\ ~ wire[j + 1].break
  BY <1>5
<1>10. \A i, j \in 1 .. l : i < j /\ ~ wire'[i].break /\ ~ wire'[j].break => v[i] < v[j]
  <2> SUFFICES ASSUME NEW i \in 1 .. l, NEW j \in 1 .. l, i < j,
                      ~ wire'[i].break, ~ wire'[j].break
               PROVE  v[i] < v[j]
    OBVIOUS
  <2>1. /\ i + 1 \in 1 .. n /\ j + 1 \in 1 .. n /\ i + 1 < j + 1
        /\ ~ wire[i + 1].break /\ ~ wire[j + 1].break
        /\ v[i] = w[i + 1] /\ v[j] = w[j + 1]
    BY <1>7, <1>9
  <2> QED
    BY <1>6, <2>1
<1>11. \A j \in 1 .. l : ~ wire'[j].break =>
          /\ s < v[j] /\ wire'[j].code = typed[v[j]].key
          /\ ~ wire[1].break => w[1] < v[j]
  <2> SUFFICES ASSUME NEW j \in 1 .. l, ~ wire'[j].break
               PROVE  /\ s < v[j] /\ wire'[j].code = typed[v[j]].key
                      /\ ~ wire[1].break => w[1] < v[j]
    OBVIOUS
  <2>1. /\ j + 1 \in 1 .. n /\ 1 \in 1 .. n /\ 1 < j + 1 /\ ~ wire[j + 1].break
        /\ v[j] = w[j + 1] /\ wire'[j] = wire[j + 1]
    BY <1>5, <1>7, <1>9
  <2> QED
    BY <1>6, <2>1
<1>12. CASE wire[1].break
  <2>1. _scancode' = _scancode
    BY <1>12, IrqSplit DEF Break
  <2>2. Taken(place, h)' /\ Slotted(h, s)'
    BY <1>2, <1>3, <2>1 DEF Taken, Slotted, Holding
  <2>3. Coming(s, v)'
    BY <1>3, <1>4, <1>8, <1>10, <1>11 DEF Coming
  <2> QED
    BY <2>2, <2>3 DEF OrderInv
<1>13. CASE ~ wire[1].break
  <2>1. _scancode' = wire[1].code
    BY <1>13, IrqSplit DEF Make
  <2>2. s < w[1] /\ wire[1].code = typed[w[1]].key /\ w[1] \in 0 .. m
    BY <1>5, <1>6, <1>13
  <2>3. h <= s /\ h < w[1]
    BY <1>2, <2>2 DEF Slotted
  <2>4. Taken(place, h)'
    BY <1>2, <1>3 DEF Taken, Holding
  <2>5. Slotted(h, w[1])'
    BY <1>3, <1>4, <2>1, <2>2, <2>3 DEF Slotted
  <2>6. Coming(w[1], v)'
    BY <1>3, <1>4, <1>8, <1>10, <1>11, <1>13 DEF Coming
  <2>7. w[1] \in Nat
    BY <2>2
  <2> QED
    BY <2>4, <2>5, <2>6, <2>7 DEF OrderInv
<1> QED
  BY <1>12, <1>13

(* The place of the slot becomes that of the key the shell holds, and then  *)
(* that of the last key it got.                                             *)
LEMMA ShellOrder ==
    ASSUME TypeInv, OrderInv, Shell
    PROVE  OrderInv'
<1>1. PICK place, w : \E h, s \in Nat : Taken(place, h) /\ Slotted(h, s) /\ Coming(s, w)
  BY DEF OrderInv
<1>2. PICK h \in Nat, s \in Nat : Taken(place, h) /\ Slotted(h, s) /\ Coming(s, w)
  BY <1>1
<1>3. UNCHANGED <<wire, typed>>
  BY DEF Shell, getch_poll, getch_discard, get_cmd, sleep, keyboardVars
<1>4. Coming(s, w)'
  BY <1>2, <1>3 DEF Coming
<1>5. CASE getch_poll
  <2>1. PICK k \in kkeyboard_get_last_key \ {"UNKNOWN"} : key' = k
    BY <1>5 DEF getch_poll
  <2>2. _scancode \in Keys /\ _scancode # INVALID /\ k \in Lookup(_scancode)
    BY <2>1, Polled
  <2>3. key' \in Lookup(_scancode)
    BY <2>1, <2>2
  <2>4. /\ pc = "poll" /\ pc' = "discard" /\ got' = got /\ _scancode' = _scancode
    BY <1>5 DEF getch_poll, driverVars
  <2>5. s > 0 /\ h < s /\ _scancode = typed[s].key /\ s \in 0 .. Len(typed)
    BY <1>2, <2>2, <2>4 DEF Slotted
  <2>6. Taken(place, s)'
    <3>1. /\ place \in [1 .. Len(got) -> 1 .. Len(typed)]
          /\ \A i, j \in 1 .. Len(got) : i < j => place[i] < place[j]
          /\ \A i \in 1 .. Len(got) : got[i].key \in Lookup(typed[place[i]].key) /\ place[i] <= h
      BY <1>2 DEF Taken
    <3>2. \A i \in 1 .. Len(got) : place[i] \in Nat
      BY <3>1
    <3>3. \A i \in 1 .. Len(got) : place[i] < s /\ place[i] <= s
      BY <2>5, <3>1, <3>2
    <3> QED
      BY <1>3, <2>3, <2>4, <2>5, <3>1, <3>3 DEF Taken, Holding
  <2>7. Slotted(s, s)'
    BY <1>3, <2>4, <2>5 DEF Slotted
  <2> QED
    BY <1>4, <2>6, <2>7 DEF OrderInv
<1>6. CASE getch_discard
  <2>1. pc = "discard" /\ pc' = "use" /\ _scancode' = INVALID /\ UNCHANGED <<key, got>>
    BY <1>6 DEF getch_discard
  <2>2. Taken(place, h)'
    BY <1>2, <1>3, <2>1 DEF Taken, Holding
  <2>3. Slotted(h, s)'
    BY <1>2, <1>3, <2>1 DEF Slotted
  <2> QED
    BY <1>4, <2>2, <2>3 DEF OrderInv
<1>7. CASE get_cmd
  <2>1. pc = "use" /\ pc' \in {"poll", "sleep"} /\ _scancode' = _scancode
    BY <1>7 DEF get_cmd, driverVars
  <2>2. PICK n \in Nat : n = Len(got)
    BY DEF TypeInv
  <2>3. /\ Len(got') = n + 1 /\ \A i \in 1 .. n : got'[i] = got[i]
        /\ got'[n + 1].key = key
    <3>1. PICK c \in Characters : c = kkeyboard_key_to_ascii(key) /\ c.key = key
      BY CharacterOf DEF TypeInv
    <3>2. got' = Append(got, c) /\ got \in Seq(Characters)
      BY <1>7, <3>1 DEF get_cmd, TypeInv
    <3> QED
      BY <2>2, <3>1, <3>2
  <2>4. /\ place \in [1 .. n -> 1 .. Len(typed)]
        /\ \A i, j \in 1 .. n : i < j => place[i] < place[j]
        /\ \A i \in 1 .. n : got[i].key \in Lookup(typed[place[i]].key) /\ place[i] < h
        /\ h \in 1 .. Len(typed) /\ key \in Lookup(typed[h].key)
    BY <1>2, <2>1, <2>2 DEF Taken, Holding
  <2> DEFINE longer == [i \in 1 .. (n + 1) |-> IF i <= n THEN place[i] ELSE h]
  <2>5. (\A i \in 1 .. n : longer[i] = place[i]) /\ longer[n + 1] = h
    OBVIOUS
  <2>6. longer \in [1 .. (n + 1) -> 1 .. Len(typed)]
    BY <2>4
  <2> HIDE DEF longer
  <2>7. ASSUME NEW i \in 1 .. (n + 1), NEW j \in 1 .. (n + 1), i < j
        PROVE  longer[i] < longer[j]
    <3>1. i \in 1 .. n /\ longer[i] = place[i] /\ place[i] < h
      BY <2>4, <2>5, <2>7
    <3>2. CASE j \in 1 .. n
      BY <2>4, <2>5, <2>7, <3>1, <3>2
    <3>3. CASE j = n + 1
      BY <2>5, <3>1, <3>3
    <3> QED
      BY <3>2, <3>3
  <2>8. ASSUME NEW i \in 1 .. (n + 1)
        PROVE  got'[i].key \in Lookup(typed[longer[i]].key) /\ longer[i] <= h
    <3>1. CASE i \in 1 .. n
      <4>1. longer[i] = place[i] /\ place[i] < h /\ place[i] \in Int
        BY <2>4, <2>5, <3>1
      <4> QED
        BY <2>3, <2>4, <3>1, <4>1
    <3>2. CASE i = n + 1
      BY <2>3, <2>4, <2>5, <3>2
    <3> QED
      BY <3>1, <3>2
  <2>9. Taken(longer, h)'
    BY <1>3, <2>1, <2>3, <2>4, <2>6, <2>7, <2>8 DEF Taken, Holding
  <2>10. Slotted(h, s)'
    BY <1>2, <1>3, <2>1 DEF Slotted
  <2> QED
    BY <1>4, <2>9, <2>10 DEF OrderInv
<1>8. CASE sleep
  <2>1. pc = "sleep" /\ pc' = "poll" /\ UNCHANGED <<_scancode, key, got>>
    BY <1>8 DEF sleep, driverVars
  <2>2. Taken(place, h)' /\ Slotted(h, s)'
    BY <1>2, <1>3, <2>1 DEF Taken, Slotted, Holding
  <2> QED
    BY <1>4, <2>2 DEF OrderInv
<1> QED
  BY <1>5, <1>6, <1>7, <1>8 DEF Shell

LEMMA InitOrder ==
    ASSUME Init
    PROVE  OrderInv
<1>1. wire = <<>> /\ typed = <<>> /\ got = <<>> /\ _scancode = INVALID /\ pc = "poll"
  BY DEF Init, KeyboardInit
<1>2. 1 .. Len(wire) = {} /\ 1 .. Len(got) = {} /\ Len(typed) = 0
  BY <1>1
<1>3. Taken(<<>>, 0) /\ Slotted(0, 0) /\ Coming(0, <<>>)
  BY <1>1, <1>2 DEF Taken, Slotted, Coming, Holding
<1> QED
  BY <1>3 DEF OrderInv

(* Whatever interrupts come between reading the slot and emptying it: the   *)
(* keys the shell took are keys that were typed, in that order, each once.  *)
THEOREM KeysComeInOrder == Spec => []KeysInOrder
<1>1. ASSUME TypeInv, OrderInv PROVE KeysInOrder
  <2>1. PICK place, h : Taken(place, h)
    BY <1>1 DEF OrderInv
  <2>2. DOMAIN got = 1 .. Len(got) /\ DOMAIN typed = 1 .. Len(typed)
    BY <1>1 DEF TypeInv
  <2> QED
    BY <2>1, <2>2 DEF Taken, KeysInOrder
<1>2. Init => TypeInv /\ OrderInv
  BY InitTypeInv, InitOrder
<1>3. TypeInv /\ OrderInv /\ [Next]_vars => TypeInv' /\ OrderInv'
  <2>1. ASSUME OrderInv, UNCHANGED vars PROVE OrderInv'
    <3>1. UNCHANGED <<wire, typed, _scancode, pc, key, got>>
      BY <2>1 DEF vars
    <3>2. PICK place, w : \E h, s \in Nat : Taken(place, h) /\ Slotted(h, s) /\ Coming(s, w)
      BY <2>1 DEF OrderInv
    <3>3. PICK h \in Nat, s \in Nat : Taken(place, h) /\ Slotted(h, s) /\ Coming(s, w)
      BY <3>2
    <3>4. Taken(place, h)' /\ Slotted(h, s)' /\ Coming(s, w)'
      BY <3>1, <3>3 DEF Taken, Slotted, Coming, Holding
    <3> QED
      BY <3>4 DEF OrderInv
  <2> QED
    BY <2>1, NextTypeInv, PressOrder, ReleaseOrder, IrqOrder, ShellOrder DEF Next
<1> QED
  BY <1>1, <1>2, <1>3, PTL DEF Spec

-----------------------------------------------------------------------------
(* A patient typist *)

(* He has one shift key and none behind the table, and memory there, which  *)
(* the keyboard's replies are looked up in, does not look like his.         *)
OneShiftKey ==
    /\ Patient /\ ~ (Shifts \subseteq Keys) /\ "F12" \notin Keys
    /\ OutOfTable \cap Shifts = {}

(* The shell got the first m of the keys typed, but those without a name.   *)
Told(place, m) ==
    /\ m \in 0 .. Len(typed)
    /\ place \in [1 .. Len(got) -> 1 .. m]
    /\ \A i, j \in 1 .. Len(got) : i < j => place[i] < place[j]
    /\ \A i \in 1 .. Len(got) : got[i] = typed[place[i]]
    /\ \A j \in 1 .. m :
          typed[j].key # "UNKNOWN" <=> \E i \in 1 .. Len(got) : place[i] = j

Replies == \A j \in 1 .. Len(wire) : wire[j].break /\ wire[j].code \in ErrorCodes
Empty == _scancode \in {INVALID, "UNKNOWN"}
ShiftAgrees == _shift = 1 <=> down \cap Shifts # {}
CapsAgrees == _capslock = 1 <=> caps_on

(* Where the last key may be, the first m being with the shell: nowhere,    *)
Idle(m) ==
    /\ m = Len(typed) /\ Replies /\ ShiftAgrees /\ CapsAgrees /\ Empty
    /\ pc \in {"poll", "sleep"}

(* its press or its release on the wire,                                    *)
Pressed(m) ==
    /\ m + 1 = Len(typed) /\ Empty /\ pc = "poll"
    /\ \E k \in Keys :
          /\ wire = <<Byte(k, FALSE)>> /\ typed[m + 1] = Meant(k)
          /\ _capslock = 1 <=> (caps_on # (k = "CAPSLOCK"))
          /\ IF k \in Shifts THEN k \in down ELSE ShiftAgrees

Released(m) ==
    /\ m = Len(typed) /\ Empty /\ pc = "poll" /\ CapsAgrees
    /\ \E k \in Keys \ down : wire = <<Byte(k, TRUE)>> /\ (k \notin Shifts => ShiftAgrees)

(* in the slot,                                                             *)
InSlot(m) ==
    /\ m + 1 = Len(typed) /\ Replies /\ ShiftAgrees /\ CapsAgrees
    /\ ~ Empty /\ typed[m + 1] = Meant(_scancode)
    /\ pc = "poll" \/ (pc = "discard" /\ key = _scancode)

(* or in the shell's hands.                                                 *)
InHand(m) ==
    /\ m + 1 = Len(typed) /\ Replies /\ ShiftAgrees /\ CapsAgrees /\ Empty
    /\ typed[m + 1] = Meant(key) /\ key # "UNKNOWN"
    /\ pc = "use"

Somewhere(m) == Idle(m) \/ Pressed(m) \/ Released(m) \/ InSlot(m) \/ InHand(m)

PatientInv == \E m \in Nat : Somewhere(m) /\ \E place : Told(place, m)

(* An empty slot gives the shell nothing; a full one gives it its key.      *)
LEMMA SlotGives ==
    ASSUME OneShiftKey, TypeInv
    PROVE  /\ Empty => kkeyboard_get_last_key = {"UNKNOWN"}
           /\ ~ Empty => kkeyboard_get_last_key = {_scancode}
           /\ \A k \in Keys : Lookup(k) = {k}
<1>1. \A k \in Keys \cup {"UNKNOWN"} : k \notin Beyond
  BY KeyboardAssumption DEF OneShiftKey, Beyond, ErrorCodes, InTable, Letters, Shifts
<1>2. _scancode \in Keys \cup {INVALID}
  BY DEF TypeInv
<1> QED
  BY <1>1, <1>2 DEF Empty, kkeyboard_get_last_key, Lookup

(* While everything rests the last key is nowhere.                          *)
LEMMA QuietIsIdle ==
    ASSUME OneShiftKey, TypeInv, NEW m, Somewhere(m), Quiet
    PROVE  Idle(m) /\ wire = <<>>
<1>1. Empty
  BY SlotGives DEF Quiet, Empty
<1>2. ASSUME NEW k, NEW b, wire = <<Byte(k, b)>> PROVE FALSE
  BY <1>2 DEF Quiet
<1> QED
  BY <1>1, <1>2 DEF Somewhere, Pressed, Released, InSlot, InHand, Quiet

(* Another key typed does not change what the shell got.                    *)
LEMMA ToldStays ==
    ASSUME TypeInv, NEW place, NEW m, Told(place, m), UNCHANGED got,
           \/ UNCHANGED typed
           \/ \E t \in [key : Keys, upper : BOOLEAN] : typed' = Append(typed, t)
    PROVE  Told(place, m)'
<1>1. /\ m \in 0 .. Len(typed') /\ Len(typed) \in Nat
      /\ \A j \in 1 .. Len(typed) : typed'[j] = typed[j]
  BY DEF TypeInv, Told
<1>2. \A j \in 1 .. m : typed'[j] = typed[j]
  BY <1>1 DEF Told
<1> QED
  BY <1>1, <1>2 DEF Told

(* A key without a name need not be told.                                   *)
LEMMA ToldNothing ==
    ASSUME NEW place, NEW m, Told(place, m), m + 1 = Len(typed),
           typed[m + 1].key = "UNKNOWN"
    PROVE  Told(place, m + 1)
<1>1. m \in Nat /\ \A j \in 1 .. (m + 1) : j \in 1 .. m \/ j = m + 1
  BY DEF Told
<1>2. \A i \in 1 .. Len(got) : place[i] \in 1 .. m /\ place[i] # m + 1
  BY <1>1 DEF Told
<1>3. place \in [1 .. Len(got) -> 1 .. (m + 1)]
  BY <1>1, <1>2 DEF Told
<1>4. \A j \in 1 .. (m + 1) :
         typed[j].key # "UNKNOWN" <=> \E i \in 1 .. Len(got) : place[i] = j
  <2> TAKE j \in 1 .. (m + 1)
  <2>1. CASE j \in 1 .. m
    BY <2>1 DEF Told
  <2>2. CASE j = m + 1
    BY <1>2, <2>2
  <2> QED
    BY <1>1, <2>1, <2>2
<1>5. m + 1 \in 0 .. Len(typed)
  BY <1>1
<1> QED
  BY <1>3, <1>4, <1>5 DEF Told

(* The last key becomes the last the shell got.                             *)
LEMMA ToldOne ==
    ASSUME TypeInv, NEW place, NEW m, Told(place, m), m + 1 = Len(typed),
           typed[m + 1].key # "UNKNOWN", typed[m + 1] \in Characters,
           got' = Append(got, typed[m + 1]), UNCHANGED typed
    PROVE  \E longer : Told(longer, m + 1)'
<1>1. PICK n \in Nat : n = Len(got)
  BY DEF TypeInv
<1>2. /\ Len(got') = n + 1 /\ \A i \in 1 .. n : got'[i] = got[i]
      /\ got'[n + 1] = typed[m + 1]
  <2>1. got \in Seq(Characters)
    BY DEF TypeInv
  <2> QED
    BY <1>1, <2>1
<1>3. m \in Nat /\ place \in [1 .. n -> 1 .. m]
  BY <1>1 DEF Told
<1> DEFINE longer == [i \in 1 .. (n + 1) |-> IF i <= n THEN place[i] ELSE m + 1]
<1>4. (\A i \in 1 .. n : longer[i] = place[i]) /\ longer[n + 1] = m + 1
  OBVIOUS
<1>5. longer \in [1 .. (n + 1) -> 1 .. (m + 1)]
  BY <1>3
<1> HIDE DEF longer
<1>6. \A i \in 1 .. (n + 1) : i \in 1 .. n \/ i = n + 1
  OBVIOUS
<1>7. ASSUME NEW i \in 1 .. (n + 1), NEW j \in 1 .. (n + 1), i < j
      PROVE  longer[i] < longer[j]
  <2>1. i \in 1 .. n /\ place[i] \in 1 .. m /\ longer[i] = place[i]
    BY <1>3, <1>4, <1>7
  <2>2. CASE j \in 1 .. n
    BY <1>1, <1>4, <1>7, <2>1, <2>2 DEF Told
  <2>3. CASE j = n + 1
    BY <1>3, <1>4, <2>1, <2>3
  <2> QED
    BY <1>6, <2>2, <2>3
<1>8. \A i \in 1 .. (n + 1) : got'[i] = typed[longer[i]]
  BY <1>1, <1>2, <1>4, <1>6 DEF Told
<1>9. ASSUME NEW j \in 1 .. (m + 1)
      PROVE  typed[j].key # "UNKNOWN" <=> \E i \in 1 .. (n + 1) : longer[i] = j
  <2>1. CASE j = m + 1
    BY <1>4, <2>1
  <2>2. CASE j \in 1 .. m
    <3>1. typed[j].key # "UNKNOWN" <=> \E i \in 1 .. n : place[i] = j
      BY <1>1, <2>2 DEF Told
    <3>2. j # longer[n + 1]
      BY <1>3, <1>4, <2>2
    <3>3. \A i \in 1 .. n : i \in 1 .. (n + 1)
      OBVIOUS
    <3>4. (\E i \in 1 .. n : place[i] = j) <=> \E i \in 1 .. (n + 1) : longer[i] = j
      BY <1>4, <1>6, <3>2, <3>3
    <3> QED
      BY <3>1, <3>4
  <2> QED
    BY <1>3, <2>1, <2>2
<1>10. Told(longer, m + 1)'
  <2>1. m + 1 \in 0 .. Len(typed')
    BY <1>3
  <2>2. \A i, j \in 1 .. (n + 1) : i < j => longer[i] < longer[j]
    BY <1>7
  <2> QED
    BY <1>2, <1>5, <1>8, <1>9, <2>1, <2>2 DEF Told
<1> QED
  BY <1>10

(* The typist acts only when everything rests.                              *)
LEMMA TypistPatient ==
    ASSUME OneShiftKey, TypeInv, PatientInv, PressKey \/ ReleaseKey
    PROVE  PatientInv'
<1>1. PICK m \in Nat : Somewhere(m) /\ \E place : Told(place, m)
  BY DEF PatientInv
<1> PICK place : Told(place, m)
  BY <1>1
<1>2. Idle(m) /\ wire = <<>> /\ pc = "poll"
  BY <1>1, QuietIsIdle DEF PressKey, ReleaseKey, OneShiftKey, Quiet
<1>3. CASE PressKey
  <2>1. PICK k \in Keys : Press(k) /\ UNCHANGED shellVars
    BY <1>3 DEF PressKey
  <2>2. /\ Meant(k) \in [key : Keys, upper : BOOLEAN] /\ typed' = Append(typed, Meant(k))
        /\ UNCHANGED got
    BY <2>1 DEF Press, Meant, TypeInv, shellVars
  <2>3. Told(place, m)'
    BY <1>1, <2>2, ToldStays
  <2>4. m + 1 = Len(typed') /\ typed'[m + 1] = Meant(k)
    BY <1>2, <2>2 DEF Idle, TypeInv
  <2>5. wire' = <<Byte(k, FALSE)>>
    BY <1>2, <2>1 DEF Press
  <2>6. (down \cup {k}) \cap Shifts # {} <=> (down \cap Shifts # {} \/ k \in Shifts)
    OBVIOUS
  <2>7. k \in Letters => k \notin Shifts /\ k # "CAPSLOCK"
    BY DEF Letters, Shifts
  <2>8. /\ down' = down \cup {k} /\ caps_on' = IF k = "CAPSLOCK" THEN ~ caps_on ELSE caps_on
        /\ UNCHANGED <<driverVars, pc>>
    BY <2>1 DEF Press, shellVars
  <2>9. Meant(k)' = Meant(k)
    BY <2>6, <2>7, <2>8 DEF Meant
  <2>10. Pressed(m)'
    BY <1>2, <2>4, <2>5, <2>6, <2>8, <2>9
       DEF Pressed, Idle, Empty, driverVars, ShiftAgrees, CapsAgrees, TypeInv
  <2> QED
    BY <2>3, <2>10 DEF PatientInv, Somewhere
<1>4. CASE ReleaseKey
  <2>1. PICK k \in Keys : Release(k) /\ UNCHANGED shellVars
    BY <1>4 DEF ReleaseKey
  <2>2. Told(place, m)'
    BY <1>1, <2>1, ToldStays DEF Release, shellVars
  <2>3. wire' = <<Byte(k, TRUE)>>
    BY <1>2, <2>1 DEF Release
  <2>4. /\ down' = down \ {k} /\ UNCHANGED <<typed, caps_on, driverVars, pc>>
    BY <2>1 DEF Release, shellVars
  <2>5. k \notin Shifts => down' \cap Shifts = down \cap Shifts
    BY <2>4
  <2>6. Released(m)'
    BY <1>2, <2>3, <2>4, <2>5
       DEF Released, Idle, Empty, driverVars, ShiftAgrees, CapsAgrees
  <2> QED
    BY <2>2, <2>6 DEF PatientInv, Somewhere
<1> QED
  BY <1>3, <1>4

(* An interrupt with nothing but replies on the wire changes no flag.       *)
LEMMA ReplyRead ==
    ASSUME OneShiftKey, TypeInv, Irq, Replies
    PROVE  Replies' /\ UNCHANGED <<_shift, _capslock, _scancode>>
<1>1. PICK k \in Lookup(wire[1].code) :
         \/ wire[1].break /\ Break(k)
         \/ ~ wire[1].break /\ Make(wire[1].code, k)
  BY IrqSplit
<1>2. wire # <<>> /\ Reads /\ wire' \in Seq(Bytes)
  BY IrqSplit
<1>3. PICK n \in Nat, l \in Nat : n = Len(wire) /\ l = Len(wire')
  BY <1>2 DEF TypeInv
<1>4. wire[1].break /\ wire[1].code \in ErrorCodes
  BY <1>2, <1>3 DEF Replies, Reads
<1>5. k \notin Shifts
  BY <1>1, <1>4 DEF Lookup, Beyond, OneShiftKey
<1>6. ASSUME NEW j \in 1 .. l PROVE wire'[j].break /\ wire'[j].code \in ErrorCodes
  <2>1. CASE j < n
    <3>1. wire'[j] = wire[j + 1] /\ j + 1 \in 1 .. n
      BY <1>2, <1>3, <2>1 DEF Reads
    <3> QED
      BY <1>3, <3>1 DEF Replies
  <2>2. CASE j >= n
    BY <1>2, <1>3, <2>2 DEF Reads
  <2> QED
    BY <2>1, <2>2
<1> QED
  BY <1>1, <1>3, <1>4, <1>5, <1>6 DEF Break, Replies

(* The interrupt of a single byte: what is left are replies, and the flags  *)
(* follow the key.                                                          *)
LEMMA KeyRead ==
    ASSUME OneShiftKey, TypeInv, Irq, NEW k \in Keys, NEW b \in BOOLEAN,
           wire = <<Byte(k, b)>>
    PROVE  Replies' /\ IF b THEN Break(k) ELSE Make(k, k)
<1>1. PICK c \in Lookup(wire[1].code) :
         \/ wire[1].break /\ Break(c)
         \/ ~ wire[1].break /\ Make(wire[1].code, c)
  BY IrqSplit
<1>2. wire[1].code = k /\ wire[1].break = b /\ Len(wire) = 1
  BY DEF Byte
<1>3. c = k
  BY <1>1, <1>2, SlotGives
<1>4. \A j \in 1 .. Len(wire') : wire'[j].break /\ wire'[j].code \in ErrorCodes
  BY <1>2, IrqSplit DEF Reads
<1> QED
  BY <1>1, <1>2, <1>3, <1>4 DEF Replies

LEMMA IrqPatient ==
    ASSUME OneShiftKey, TypeInv, TypeInv', PatientInv, Irq
    PROVE  PatientInv'
<1>1. PICK m \in Nat : Somewhere(m) /\ \E place : Told(place, m)
  BY DEF PatientInv
<1> PICK place : Told(place, m)
  BY <1>1
<1>2. UNCHANGED <<down, typed, caps_on, pc, key, got>>
  BY IrqSplit DEF shellVars
<1>3. Told(place, m)'
  BY <1>1, <1>2, ToldStays
<1>4. \A k : Meant(k)' = Meant(k)
  BY <1>2 DEF Meant
<1>5. CASE Idle(m) \/ InSlot(m) \/ InHand(m)
  <2>1. Replies' /\ UNCHANGED <<_shift, _capslock, _scancode>>
    BY <1>5, ReplyRead DEF Idle, InSlot, InHand
  <2>2. (ShiftAgrees' <=> ShiftAgrees) /\ (CapsAgrees' <=> CapsAgrees) /\ (Empty' <=> Empty)
    BY <1>2, <2>1 DEF ShiftAgrees, CapsAgrees, Empty
  <2>3. Somewhere(m)'
    <3>1. CASE Idle(m)
      BY <1>2, <2>1, <2>2, <3>1 DEF Somewhere, Idle
    <3>2. CASE InSlot(m)
      BY <1>2, <1>4, <2>1, <2>2, <3>2 DEF Somewhere, InSlot
    <3>3. CASE InHand(m)
      BY <1>2, <1>4, <2>1, <2>2, <3>3 DEF Somewhere, InHand
    <3> QED
      BY <1>5, <3>1, <3>2, <3>3
  <2> QED
    BY <1>3, <2>3 DEF PatientInv
<1>6. CASE Pressed(m)
  <2>1. PICK k \in Keys :
          /\ wire = <<Byte(k, FALSE)>> /\ typed[m + 1] = Meant(k)
          /\ _capslock = 1 <=> (caps_on # (k = "CAPSLOCK"))
          /\ IF k \in Shifts THEN k \in down ELSE ShiftAgrees
    BY <1>6 DEF Pressed
  <2>2. Replies' /\ Make(k, k)
    BY <2>1, KeyRead
  <2>3. CapsAgrees'
    <3>1. _capslock' = IF k = "CAPSLOCK" THEN 1 - _capslock ELSE _capslock
      BY <2>2 DEF Make
    <3>2. _capslock \in {0, 1} /\ caps_on \in BOOLEAN
      BY DEF TypeInv
    <3>3. _capslock' = 1 <=> (_capslock = 1) # (k = "CAPSLOCK")
      BY <3>1, <3>2
    <3> QED
      BY <1>2, <2>1, <3>2, <3>3 DEF CapsAgrees
  <2>4. ShiftAgrees'
    BY <1>2, <2>1, <2>2 DEF ShiftAgrees, Make
  <2>5. _scancode' = k /\ k # INVALID
    BY <2>2, KeyboardAssumption
       DEF Make, INVALID, InTable, Letters, Shifts
  <2>6. CASE k = "UNKNOWN"
    <3>1. Told(place, m + 1)'
      <4>1. typed'[m + 1].key = "UNKNOWN" /\ m + 1 = Len(typed')
        BY <1>2, <1>6, <2>1, <2>6 DEF Meant, Pressed
      <4>2. Told(place, m + 1)
        BY <1>1, <1>2, <4>1, ToldNothing
      <4> QED
        BY <1>2, <4>2 DEF Told
    <3>2. Idle(m + 1)'
      BY <1>2, <1>6, <2>2, <2>3, <2>4, <2>5, <2>6 DEF Idle, Empty, Pressed
    <3> QED
      BY <3>1, <3>2 DEF PatientInv, Somewhere
  <2>7. CASE k # "UNKNOWN"
    <3>1. ~ Empty'
      BY <2>5, <2>7 DEF Empty
    <3>2. InSlot(m)'
      BY <1>2, <1>4, <1>6, <2>1, <2>2, <2>3, <2>4, <2>5, <3>1 DEF InSlot, Pressed
    <3> QED
      BY <1>3, <3>2 DEF PatientInv, Somewhere
  <2> QED
    BY <2>6, <2>7
<1>7. CASE Released(m)
  <2>1. PICK k \in Keys \ down :
          wire = <<Byte(k, TRUE)>> /\ (k \notin Shifts => ShiftAgrees)
    BY <1>7 DEF Released
  <2>2. Replies' /\ Break(k)
    BY <2>1, KeyRead
  <2>3. ShiftAgrees'
    <3>1. CASE k \in Shifts
      <4>1. down \cap Shifts = {}
        BY <2>1, <3>1 DEF OneShiftKey, Shifts, TypeInv
      <4> QED
        BY <1>2, <2>2, <3>1, <4>1 DEF ShiftAgrees, Break
    <3>2. CASE k \notin Shifts
      BY <1>2, <2>1, <2>2, <3>2 DEF ShiftAgrees, Break
    <3> QED
      BY <3>1, <3>2
  <2>4. CapsAgrees' /\ Empty'
    BY <1>2, <1>7, <2>2 DEF Released, CapsAgrees, Empty, Break
  <2>5. Idle(m)'
    BY <1>2, <1>7, <2>2, <2>3, <2>4 DEF Idle, Released
  <2> QED
    BY <1>3, <2>5 DEF PatientInv, Somewhere
<1> QED
  BY <1>1, <1>5, <1>6, <1>7 DEF Somewhere

(* The shell takes the key from the slot and uses it before anything else   *)
(* happens.                                                                 *)
LEMMA ShellPatient ==
    ASSUME OneShiftKey, TypeInv, PatientInv, Shell
    PROVE  PatientInv'
<1>1. PICK m \in Nat : Somewhere(m) /\ \E place : Told(place, m)
  BY DEF PatientInv
<1> PICK place : Told(place, m)
  BY <1>1
<1>2. UNCHANGED <<keyboardVars, _shift, _ctrl, _alt, _capslock>>
  BY DEF Shell, getch_poll, getch_discard, get_cmd, sleep, driverVars
<1>3. /\ UNCHANGED <<wire, down, typed, caps_on>> /\ (Replies' <=> Replies)
      /\ (ShiftAgrees' <=> ShiftAgrees) /\ (CapsAgrees' <=> CapsAgrees)
      /\ \A k : Meant(k)' = Meant(k)
  BY <1>2 DEF keyboardVars, Replies, ShiftAgrees, CapsAgrees, Meant
<1>4. CASE getch_poll
  <2>1. ~ Empty /\ key' = _scancode /\ pc = "poll" /\ pc' = "discard"
        /\ UNCHANGED <<got, _scancode>>
    BY <1>4, SlotGives DEF getch_poll, driverVars
  <2>2. InSlot(m)
    BY <1>1, <2>1 DEF Somewhere, Idle, Pressed, Released, InHand
  <2>3. InSlot(m)'
    BY <1>3, <2>1, <2>2 DEF InSlot, Empty
  <2>4. Told(place, m)'
    BY <1>1, <1>3, <2>1, ToldStays
  <2> QED
    BY <2>3, <2>4 DEF PatientInv, Somewhere
<1>5. CASE getch_discard
  <2>1. pc = "discard" /\ pc' = "use" /\ _scancode' = INVALID /\ UNCHANGED <<key, got>>
    BY <1>5 DEF getch_discard
  <2>2. InSlot(m) /\ key = _scancode
    BY <1>1, <2>1 DEF Somewhere, Idle, Pressed, Released, InHand, InSlot
  <2>3. InHand(m)'
    BY <1>3, <2>1, <2>2 DEF InSlot, InHand, Empty
  <2>4. Told(place, m)'
    BY <1>1, <1>3, <2>1, ToldStays
  <2> QED
    BY <2>3, <2>4 DEF PatientInv, Somewhere
<1>6. CASE get_cmd
  <2>1. /\ pc = "use" /\ pc' \in {"poll", "sleep"} /\ UNCHANGED _scancode
        /\ got' = Append(got, kkeyboard_key_to_ascii(key))
    BY <1>6 DEF get_cmd, driverVars
  <2>2. InHand(m)
    BY <1>1, <2>1 DEF Somewhere, Idle, Pressed, Released, InSlot
  <2>3. kkeyboard_key_to_ascii(key) = typed[m + 1]
    BY <2>2 DEF InHand, Meant, kkeyboard_key_to_ascii, ShiftAgrees, CapsAgrees
  <2>4. typed[m + 1] \in Characters /\ typed[m + 1].key = key
    BY <2>2, <2>3, CharacterOf DEF TypeInv
  <2>5. \E longer : Told(longer, m + 1)'
    BY <1>1, <1>3, <2>1, <2>2, <2>3, <2>4, ToldOne DEF InHand
  <2>6. Idle(m + 1)'
    BY <1>3, <2>1, <2>2 DEF Idle, InHand, Empty
  <2> QED
    BY <2>5, <2>6 DEF PatientInv, Somewhere
<1>7. CASE sleep
  <2>1. pc = "sleep" /\ pc' = "poll" /\ UNCHANGED <<_scancode, key, got>>
    BY <1>7 DEF sleep, driverVars
  <2>2. Idle(m)
    BY <1>1, <2>1 DEF Somewhere, Pressed, Released, InSlot, InHand
  <2>3. Idle(m)'
    BY <1>3, <2>1, <2>2 DEF Idle, Empty
  <2>4. Told(place, m)'
    BY <1>1, <1>3, <2>1, ToldStays
  <2> QED
    BY <2>3, <2>4 DEF PatientInv, Somewhere
<1> QED
  BY <1>4, <1>5, <1>6, <1>7 DEF Shell

(* A typist with one shift key who waits for each key: the shell gets every *)
(* key he typed, in order, once, in the case he meant.                      *)
THEOREM PatientIsHeard ==
    ASSUME OneShiftKey
    PROVE  Spec => []PatientLosesNothing
<1>1. Init => TypeInv
  BY InitTypeInv
<1>2. TypeInv /\ [Next]_vars => TypeInv'
  BY NextTypeInv
<1>3. ASSUME Init PROVE PatientInv
  <2>1. /\ wire = <<>> /\ typed = <<>> /\ got = <<>> /\ _scancode = INVALID /\ pc = "poll"
        /\ down = {} /\ ~ caps_on /\ _shift = 0 /\ _capslock = 0
    BY <1>3 DEF Init, KeyboardInit
  <2>2. 1 .. Len(wire) = {} /\ 1 .. Len(got) = {} /\ Len(typed) = 0 /\ 1 .. 0 = {}
    BY <2>1
  <2>3. Told(<<>>, 0)
    BY <2>1, <2>2 DEF Told
  <2>4. Idle(0)
    BY <2>1, <2>2 DEF Idle, Replies, ShiftAgrees, CapsAgrees, Empty
  <2> QED
    BY <2>3, <2>4 DEF PatientInv, Somewhere
<1>4. ASSUME TypeInv, TypeInv', PatientInv, [Next]_vars PROVE PatientInv'
  <2>1. ASSUME UNCHANGED vars PROVE PatientInv'
    <3>1. PICK m \in Nat : Somewhere(m) /\ \E place : Told(place, m)
      BY <1>4 DEF PatientInv
    <3> PICK place : Told(place, m)
      BY <3>1
    <3>2. Told(place, m)'
      BY <2>1, <3>1 DEF Told, vars
    <3>3. Somewhere(m)'
      BY <2>1, <3>1 DEF vars, Somewhere, Idle, Pressed, Released, InSlot, InHand, Replies,
         ShiftAgrees, CapsAgrees, Empty, Meant
    <3> QED
      BY <3>2, <3>3 DEF PatientInv
  <2> QED
    BY <1>4, <2>1, TypistPatient, IrqPatient, ShellPatient DEF Next
<1>5. ASSUME TypeInv, PatientInv PROVE PatientLosesNothing
  <2> SUFFICES ASSUME Quiet
               PROVE  \E place \in [DOMAIN got -> DOMAIN typed] :
                         /\ \A i, j \in DOMAIN got : i < j => place[i] < place[j]
                         /\ \A i \in DOMAIN got : got[i] = typed[place[i]]
                         /\ Range(place) = { j \in DOMAIN typed : typed[j].key # "UNKNOWN" }
    BY DEF PatientLosesNothing
  <2>1. PICK m \in Nat : Somewhere(m) /\ \E place : Told(place, m)
    BY <1>5 DEF PatientInv
  <2> PICK place : Told(place, m)
    BY <2>1
  <2>2. m = Len(typed)
    BY <1>5, <2>1, QuietIsIdle DEF Idle
  <2>3. DOMAIN got = 1 .. Len(got) /\ DOMAIN typed = 1 .. m
    BY <1>5, <2>2 DEF TypeInv
  <2>4. place \in [DOMAIN got -> DOMAIN typed]
    BY <2>1, <2>3 DEF Told
  <2>5. Range(place) = { j \in DOMAIN typed : typed[j].key # "UNKNOWN" }
    <3>1. \A j \in 1 .. m : typed[j].key # "UNKNOWN" <=> \E i \in 1 .. Len(got) : place[i] = j
      BY <2>1 DEF Told
    <3>2. Range(place) = { place[i] : i \in 1 .. Len(got) }
      BY <2>3, <2>4 DEF Range
    <3>3. \A i \in 1 .. Len(got) : place[i] \in 1 .. m
      BY <2>3, <2>4
    <3> QED
      BY <2>3, <3>1, <3>2, <3>3
  <2> QED
    BY <2>1, <2>3, <2>4, <2>5 DEF Told
<1> QED
  BY <1>1, <1>2, <1>3, <1>4, <1>5, PTL DEF Spec

-----------------------------------------------------------------------------
(* The screen                                                               *)

Glyphs == Character \cup Characters \cup {Blank}
Screens == [cells : [Cells -> Glyphs], x : Nat, y : Int]
Screen(a, x, y) == [cells |-> a, x |-> x, y |-> y]

(* What the video memory holds when c was put, and when it was scrolled.    *)
Written(s, c) ==
    IF Cursor(s) + 1 \in Cells THEN [s.cells EXCEPT ![Cursor(s) + 1] = c] ELSE s.cells
Up(a) == [i \in Cells |-> IF i + Columns \in Cells THEN a[i + Columns] ELSE Blank]

(* Where a position ends that kernelPutc wraps and scrolls.                 *)
Placed(a, x, y) == scroll(Wrapped(Screen(a, x, y)))

(* The cells in front of row y, and all of them.                            *)
RowStart(y) == y * Columns
Total == Rows * Columns

LEMMA RowFacts ==
    /\ Columns \in Nat /\ Columns > 1 /\ Rows \in Nat /\ Rows > 0
    /\ Total \in Nat /\ Cells = 1 .. Total /\ RowStart(Rows - 1) = Total - Columns
    /\ \A y \in Int :
          /\ RowStart(y) \in Int
          /\ RowStart(y + 1) = RowStart(y) + Columns
          /\ RowStart(y - 1) = RowStart(y) - Columns
          /\ y >= 0 => RowStart(y) >= 0
          /\ y < 0 => RowStart(y) <= - Columns
          /\ y < -1 => RowStart(y) <= - 2 * Columns
          /\ y <= Rows - 1 => RowStart(y) <= Total - Columns
          /\ y <= Rows - 2 => RowStart(y) <= Total - 2 * Columns
<1>1. Columns \in Nat /\ Columns > 1 /\ Rows \in Nat /\ Rows > 0
  BY DisplayAssumption, TerminalAssumption
<1>2. Total \in Nat /\ Cells = 1 .. Total /\ RowStart(Rows - 1) = Total - Columns
  BY <1>1 DEF Total, Cells, RowStart
<1>3. ASSUME NEW y \in Int
      PROVE  /\ RowStart(y) \in Int
             /\ RowStart(y + 1) = RowStart(y) + Columns
             /\ RowStart(y - 1) = RowStart(y) - Columns
             /\ y >= 0 => RowStart(y) >= 0
             /\ y < 0 => RowStart(y) <= - Columns
             /\ y < -1 => RowStart(y) <= - 2 * Columns
             /\ y <= Rows - 1 => RowStart(y) <= Total - Columns
             /\ y <= Rows - 2 => RowStart(y) <= Total - 2 * Columns
  <2>1. /\ (y + 1) * Columns = y * Columns + Columns
        /\ (y - 1) * Columns = y * Columns - Columns
        /\ (Rows - 1) * Columns = Rows * Columns - Columns
        /\ (Rows - 2) * Columns = Rows * Columns - 2 * Columns
        /\ 0 * Columns = 0 /\ (-1) * Columns = - Columns /\ (-2) * Columns = - 2 * Columns
        /\ y * Columns \in Int
    BY <1>1
  <2>2. ASSUME NEW a \in Int, NEW b \in Int, a <= b PROVE a * Columns <= b * Columns
    BY <1>1, <2>2
  <2>3. y >= 0 => y * Columns >= 0
    BY <2>1, <2>2
  <2>4. y < 0 => y * Columns <= - Columns
    BY <2>1, <2>2
  <2>5. y < -1 => y * Columns <= - 2 * Columns
    BY <2>1, <2>2
  <2>6. y <= Rows - 1 => y * Columns <= (Rows - 1) * Columns
    BY <1>1, <2>2
  <2>7. y <= Rows - 2 => y * Columns <= (Rows - 2) * Columns
    BY <1>1, <2>2
  <2> QED
    BY <2>1, <2>3, <2>4, <2>5, <2>6, <2>7 DEF RowStart, Total
<1> QED
  BY <1>1, <1>2, <1>3

LEMMA CursorIs ==
    ASSUME NEW s, NEW x, NEW y, s.x = x, s.y = y
    PROVE  Cursor(s) = RowStart(y) + x
BY DEF Cursor, RowStart

(* A full row goes on in the next one, and below the last row everything    *)
(* moves up.                                                                *)
LEMMA PlacedAt ==
    ASSUME NEW a, NEW x \in Nat, NEW y \in Int
    PROVE  Placed(a, x, y) =
             LET col == IF x >= Columns THEN 0 ELSE x
                 row == IF x >= Columns THEN y + 1 ELSE y
             IN  IF row \in 0 .. (Rows - 1) THEN Screen(a, col, row)
                 ELSE Screen(Up(a), col, Rows - 1)
<1> DEFINE col == IF x >= Columns THEN 0 ELSE x
           row == IF x >= Columns THEN y + 1 ELSE y
<1>1. Wrapped(Screen(a, x, y)) = Screen(a, col, row)
  BY DEF Wrapped, Screen
<1>2. Screen(a, col, row).y = row /\ Screen(a, col, row).cells = a
  BY DEF Screen
<1> HIDE DEF col, row
<1>3. scroll(Screen(a, col, row)) = IF row \in 0 .. (Rows - 1) THEN Screen(a, col, row)
                                    ELSE Screen(Up(a), col, Rows - 1)
  <2>1. PICK t : t = Screen(a, col, row)
    OBVIOUS
  <2>2. t.y = row /\ t.cells = a
    BY <1>2, <2>1
  <2>3. CASE row \in 0 .. (Rows - 1)
    BY <2>1, <2>2, <2>3 DEF scroll
  <2>4. CASE row \notin 0 .. (Rows - 1)
    <3>1. t.x = col
      BY <2>1 DEF Screen
    <3> QED
      BY <2>1, <2>2, <2>4, <3>1 DEF scroll, Screen, Up
  <2> QED
    BY <2>3, <2>4
<1> QED
  BY <1>1, <1>3 DEF Placed, col, row

LEMMA ScreenOf ==
    ASSUME NEW s \in Screens
    PROVE  /\ s = Screen(s.cells, s.x, s.y)
           /\ s.cells \in [Cells -> Glyphs] /\ s.x \in Nat /\ s.y \in Int
BY DEF Screens, Screen

(* What kernelPutc does with a character that shows, a newline, and one it  *)
(* has no case for.                                                         *)
LEMMA PutcShown ==
    ASSUME NEW s \in Screens, NEW c, Shown(c), c.key # "BACK"
    PROVE  kernelPutc(s, c) = Placed(Written(s, c), s.x + 1, s.y)
<1>1. c.key \notin {"TAB", "CR", "NEWLINE"}
  BY DEF Shown
<1>2. Moved(s, c) = s
  BY <1>1 DEF Moved
<1>3. Put(s, c) = Screen(Written(s, c), s.x + 1, s.y)
  BY ScreenOf DEF Put, Screen, Written, Screens
<1> QED
  BY <1>2, <1>3 DEF kernelPutc, Placed

LEMMA PutcNewline ==
    ASSUME NEW s \in Screens
    PROVE  kernelPutc(s, Char("NEWLINE")) = Placed(s.cells, 0, s.y + 1)
<1>1. Char("NEWLINE").key = "NEWLINE" /\ ~ Shown(Char("NEWLINE"))
  BY DEF Char, Shown
<1>2. Moved(s, Char("NEWLINE")) = Screen(s.cells, 0, s.y + 1)
  BY <1>1, ScreenOf DEF Moved, Screens, Screen
<1> QED
  BY <1>1, <1>2 DEF kernelPutc, Placed, Put

LEMMA PutcHidden ==
    ASSUME NEW s \in Screens, NEW c, c.key \in Invisible
    PROVE  kernelPutc(s, c) = Placed(s.cells, s.x, s.y)
<1>1. ~ Shown(c) /\ c.key \notin {"TAB", "CR", "NEWLINE", "BACK"}
  BY DEF Shown, Invisible
<1>2. Moved(s, c) = s
  BY <1>1 DEF Moved
<1> QED
  BY <1>1, <1>2, ScreenOf DEF kernelPutc, Placed, Put

(* The types of what is written and moved.                                  *)
LEMMA WrittenType ==
    ASSUME NEW s \in Screens, NEW c \in Glyphs
    PROVE  Written(s, c) \in [Cells -> Glyphs]
BY ScreenOf DEF Written

LEMMA UpType ==
    ASSUME NEW a \in [Cells -> Glyphs]
    PROVE  Up(a) \in [Cells -> Glyphs]
BY DEF Up, Glyphs

LEMMA ScreenParts ==
    ASSUME NEW a \in [Cells -> Glyphs], NEW x \in Nat, NEW y \in Int,
           NEW t, t = Screen(a, x, y)
    PROVE  /\ t \in Screens /\ t.cells = a /\ t.x = x /\ t.y = y
           /\ Cursor(t) = RowStart(y) + x
<1>1. t \in Screens
  BY DEF Screen, Screens
<1>2. t.cells = a /\ t.x = x /\ t.y = y
  BY DEF Screen
<1> QED
  BY <1>1, <1>2, CursorIs

(* The three ways of PlacedAt.                                              *)
LEMMA PlacedInRow ==
    ASSUME NEW a, NEW x \in Nat, NEW y \in 0 .. (Rows - 1), x < Columns
    PROVE  Placed(a, x, y) = Screen(a, x, y)
<1>1. ~ (x >= Columns) /\ y \in Int
  BY RowFacts
<1> QED
  BY <1>1, PlacedAt

LEMMA PlacedBelow ==
    ASSUME NEW a, NEW x \in Nat, NEW y \in Int, x >= Columns, y + 1 \in 0 .. (Rows - 1)
    PROVE  Placed(a, x, y) = Screen(a, 0, y + 1)
BY PlacedAt

LEMMA PlacedScrolled ==
    ASSUME NEW a, NEW x \in Nat, NEW y \in Int,
           \/ x < Columns /\ y \notin 0 .. (Rows - 1)
           \/ x >= Columns /\ y + 1 \notin 0 .. (Rows - 1)
    PROVE  Placed(a, x, y) = Screen(Up(a), IF x >= Columns THEN 0 ELSE x, Rows - 1)
<1>1. x < Columns <=> ~ (x >= Columns)
  BY RowFacts
<1> QED
  BY <1>1, PlacedAt

LEMMA GoneTo ==
    ASSUME NEW a, NEW c \in Nat, NEW r \in Int, NEW x, NEW y
    PROVE  kernelGotoXY(Screen(a, c, r), x, y) =
             Screen(a, IF c <= Columns THEN x ELSE c, IF r \in 0 .. Rows THEN y ELSE r)
BY DEF kernelGotoXY, Screen

(* Behind the first l cells nothing is shown.                               *)
Bare(a, l) == \A i \in Cells : i > l => a[i] = Blank

(* Where the cursor may be at all.  A backspace over the beginning of a row *)
(* may leave it behind the end of a row, a character put there below itself *)
(* at the beginning of the next, and some of them above the screen.         *)
Fit(s) ==
    /\ s \in Screens /\ s.x <= Columns /\ s.y <= Rows - 1
    /\ s.x = Columns => s.y <= Rows - 2
    /\ Bare(s.cells, Cursor(s) + IF s.x = 0 THEN 1 ELSE 0)

(* A character put inside the screen: the cursor advances by one cell, when *)
(* everything moved up by d cells.                                          *)
LEMMA PutInside ==
    ASSUME NEW s \in Screens, NEW c \in Glyphs, Shown(c), c.key # "BACK",
           s.x < Columns, s.y \in 0 .. (Rows - 1),
           NEW t, t = kernelPutc(s, c)
    PROVE  \E d \in {0, Columns} :
              /\ t \in Screens /\ t.x < Columns /\ t.y \in 0 .. (Rows - 1)
              /\ Cursor(t) = Cursor(s) + 1 - d
              /\ s.x + 1 < Columns => d = 0 /\ t.x = s.x + 1 /\ t.y = s.y
              /\ \A p \in Cells : t.cells[p] =
                    IF p + d \notin Cells THEN Blank
                    ELSE IF p + d = Cursor(s) + 1 THEN c ELSE s.cells[p + d]
<1>1. PICK x \in Nat, y \in Int : x = s.x /\ y = s.y
  BY ScreenOf
<1>2. PICK w \in [Cells -> Glyphs] : w = Written(s, c)
  BY WrittenType
<1>3. t = Placed(w, x + 1, y)
  BY <1>1, <1>2, PutcShown
<1>4. PICK r \in Int, l \in Int : r = RowStart(y) /\ l = r + x
  <2>1. RowStart(y) \in Int
    BY RowFacts
  <2>2. PICK r \in Int : r = RowStart(y)
    BY <2>1
  <2>3. r + x \in Int
    OBVIOUS
  <2> QED
    BY <2>2, <2>3
<1>5. /\ Columns \in Nat /\ Columns > 1 /\ Rows \in Nat /\ Rows > 0
      /\ y \in 0 .. (Rows - 1) /\ x < Columns /\ r >= 0 /\ r <= Total - Columns
      /\ Total \in Nat /\ Cells = 1 .. Total
  <2>1. Columns \in Nat /\ Columns > 1 /\ Rows \in Nat /\ Rows > 0
        /\ Total \in Nat /\ Cells = 1 .. Total
    BY RowFacts
  <2>2. y \in 0 .. (Rows - 1) /\ x < Columns
    BY <1>1
  <2>3. (y >= 0 => r >= 0) /\ (y <= Rows - 1 => r <= Total - Columns)
    BY <1>4, RowFacts
  <2>4. y >= 0 /\ y <= Rows - 1
    BY <2>1, <2>2
  <2> QED
    BY <2>1, <2>2, <2>3, <2>4
<1>6. RowStart(y + 1) = r + Columns /\ RowStart(Rows - 1) = Total - Columns
  BY <1>4, RowFacts
<1>7. Cursor(s) = l /\ l + 1 \in Cells /\ s.cells \in [Cells -> Glyphs]
  <2>1. Cursor(s) = l
    BY <1>1, <1>4, CursorIs
  <2> QED
    BY <1>4, <1>5, <2>1, ScreenOf
<1>8. \A p \in Cells : w[p] = IF p = l + 1 THEN c ELSE s.cells[p]
  BY <1>2, <1>7 DEF Written
<1>9. \A p \in Cells : p + 0 \in Cells /\ p + 0 = p
  BY <1>5
<1>10. CASE x + 1 < Columns
  <2>1. t = Screen(w, x + 1, y)
    BY <1>3, <1>5, <1>10, PlacedInRow
  <2>2. t \in Screens /\ t.cells = w /\ t.x = x + 1 /\ t.y = y
        /\ Cursor(t) = RowStart(y) + (x + 1)
    BY <2>1, ScreenParts
  <2>3. Cursor(t) = l + 1 - 0
    BY <1>4, <2>2
  <2> QED
    BY <1>1, <1>5, <1>7, <1>8, <1>9, <1>10, <2>2, <2>3
<1>11. CASE x + 1 >= Columns /\ y + 1 <= Rows - 1
  <2>1. t = Screen(w, 0, y + 1) /\ y + 1 \in 0 .. (Rows - 1)
    BY <1>3, <1>5, <1>11, PlacedBelow
  <2>2. t \in Screens /\ t.cells = w /\ t.x = 0 /\ t.y = y + 1
        /\ Cursor(t) = RowStart(y + 1) + 0
    <3>1. PICK next \in Int : next = y + 1
      BY <2>1
    <3>2. t = Screen(w, 0, next)
      BY <2>1, <3>1
    <3>3. t \in Screens /\ t.cells = w /\ t.x = 0 /\ t.y = next
          /\ Cursor(t) = RowStart(next) + 0
      BY <3>2, ScreenParts
    <3> QED
      BY <3>1, <3>3
  <2>3. Cursor(t) = l + 1 - 0 /\ ~ (x + 1 < Columns)
    <3>1. x + 1 = Columns
      BY <1>5, <1>11
    <3>2. Cursor(t) = r + Columns
      BY <1>5, <1>6, <2>2
    <3>3. ~ (x + 1 < Columns)
      BY <1>5, <1>11
    <3>4. l + 1 - 0 = r + (x + 1)
      BY <1>4
    <3> QED
      BY <3>1, <3>2, <3>3, <3>4
  <2>4. \A p \in Cells : t.cells[p] =
           IF p + 0 \notin Cells THEN Blank
           ELSE IF p + 0 = Cursor(s) + 1 THEN c ELSE s.cells[p + 0]
    BY <1>7, <1>8, <1>9, <2>2
  <2>5. t.x < Columns /\ t.y \in 0 .. (Rows - 1)
    BY <1>5, <2>1, <2>2
  <2> QED
    BY <1>1, <1>7, <2>2, <2>3, <2>4, <2>5
<1>12. CASE x + 1 >= Columns /\ ~ (y + 1 <= Rows - 1)
  <2>1. t = Screen(Up(w), 0, Rows - 1) /\ Rows - 1 \in 0 .. (Rows - 1)
    BY <1>3, <1>5, <1>12, PlacedScrolled
  <2>2. Up(w) \in [Cells -> Glyphs]
    BY UpType
  <2>3. t \in Screens /\ t.cells = Up(w) /\ t.x = 0 /\ t.y = Rows - 1
        /\ Cursor(t) = RowStart(Rows - 1) + 0
    <3>1. PICK u \in [Cells -> Glyphs], last \in Int : u = Up(w) /\ last = Rows - 1
      BY <1>5, <2>2
    <3>2. t = Screen(u, 0, last)
      BY <2>1, <3>1
    <3>3. t \in Screens /\ t.cells = u /\ t.x = 0 /\ t.y = last
          /\ Cursor(t) = RowStart(last) + 0
      BY <3>2, ScreenParts
    <3> QED
      BY <3>1, <3>3
  <2>4. Cursor(t) = l + 1 - Columns /\ ~ (x + 1 < Columns)
    <3>1. y = Rows - 1 /\ x + 1 = Columns
      BY <1>5, <1>12
    <3> QED
      BY <1>4, <1>5, <1>6, <2>3, <3>1
  <2>5. \A p \in Cells : t.cells[p] = IF p + Columns \in Cells THEN w[p + Columns] ELSE Blank
    BY <2>3 DEF Up
  <2>6. \A p \in Cells : t.cells[p] =
           IF p + Columns \notin Cells THEN Blank
           ELSE IF p + Columns = Cursor(s) + 1 THEN c ELSE s.cells[p + Columns]
    BY <1>7, <1>8, <2>5
  <2>7. t.x < Columns /\ t.y \in 0 .. (Rows - 1)
    BY <1>5, <2>1, <2>3
  <2> QED
    BY <1>1, <1>7, <2>3, <2>4, <2>6, <2>7
<1> QED
  BY <1>5, <1>10, <1>11, <1>12

(* With the cursor above the screen nothing is shown on it.                 *)
LEMMA AboveIsBare ==
    ASSUME NEW s, Fit(s), s.y < 0
    PROVE  /\ Bare(s.cells, 0) /\ Cursor(s) <= s.x - Columns
           /\ s.y < -1 => Cursor(s) <= s.x - 2 * Columns
<1>1. s.x \in Nat /\ s.y \in Int /\ s.x <= Columns
  BY ScreenOf DEF Fit
<1>2. PICK y \in Int, r \in Int : y = s.y /\ r = RowStart(y)
  BY <1>1, RowFacts
<1>3. Columns \in Nat /\ Columns > 1 /\ r <= - Columns
  BY <1>2, RowFacts
<1>4. s.y < -1 => r <= - 2 * Columns
  BY <1>2, RowFacts
<1>5. Cursor(s) = r + s.x
  BY <1>2, CursorIs
<1>6. \A i \in Cells : i > 0 /\ i \in Int
  BY RowFacts
<1>7. Cursor(s) + (IF s.x = 0 THEN 1 ELSE 0) <= 0
  BY <1>1, <1>3, <1>5
<1>8. Bare(s.cells, 0)
  BY <1>1, <1>3, <1>5, <1>6, <1>7 DEF Fit, Bare
<1> QED
  BY <1>1, <1>3, <1>4, <1>5, <1>8

(* A bare screen stays bare when it is scrolled.                            *)
LEMMA UpBare ==
    ASSUME NEW a, Bare(a, 0)
    PROVE  Bare(Up(a), 0)
<1>1. \A i \in Cells : i > 0
  BY RowFacts
<1> QED
  BY <1>1 DEF Bare, Up

(* A screen with nothing on it is fit, wherever its cursor is.              *)
LEMMA BareFits ==
    ASSUME NEW a \in [Cells -> Glyphs], Bare(a, 0), NEW x \in Nat, NEW y \in Int,
           x <= Columns, y <= Rows - 1, x = Columns => y <= Rows - 2
    PROVE  Fit(Screen(a, x, y))
<1>1. PICK t : t = Screen(a, x, y)
  OBVIOUS
<1>2. t \in Screens /\ t.cells = a /\ t.x = x /\ t.y = y
  BY <1>1, ScreenParts
<1>3. \A i \in Cells : a[i] = Blank
  <2>1. \A i \in Cells : i > 0
    BY RowFacts
  <2> QED
    BY <2>1 DEF Bare
<1> QED
  BY <1>1, <1>2, <1>3 DEF Fit, Bare

(* Where kernelPutc leaves a cursor with nothing behind it, the next row of *)
(* a full one included.                                                     *)
LEMMA PlacedFits ==
    ASSUME NEW a \in [Cells -> Glyphs], NEW x \in Nat, NEW y \in Int, y <= Rows - 1,
           NEW k \in Int, Bare(a, k),
           \/ x <= Columns /\ k = RowStart(y) + x + (IF x = 0 THEN 1 ELSE 0)
           \/ x = Columns + 1 /\ y <= Rows - 2 /\ k = RowStart(y) + x
    PROVE  Fit(Placed(a, x, y))
<1>1. PICK r \in Int : r = RowStart(y)
  BY RowFacts
<1>2. /\ Columns \in Nat /\ Columns > 1 /\ Rows \in Nat /\ Rows > 0
      /\ Total \in Nat /\ Cells = 1 .. Total
  BY RowFacts
<1>3. /\ RowStart(y + 1) = r + Columns /\ RowStart(Rows - 1) = Total - Columns
      /\ y < 0 => r <= - Columns
      /\ y < -1 => r <= - 2 * Columns
  BY <1>1, RowFacts
<1>4. x <= Columns + 1 /\ k <= r + x + 1 /\ (x > 0 => k = r + x)
      /\ k = r + x + (IF x = 0 THEN 1 ELSE 0)
  BY <1>1, <1>2
<1>5. CASE x < Columns /\ y >= 0
  <2>1. y \in 0 .. (Rows - 1)
    BY <1>2, <1>5
  <2>2. PICK t : t = Placed(a, x, y)
    OBVIOUS
  <2>3. t = Screen(a, x, y)
    BY <1>5, <2>1, <2>2, PlacedInRow
  <2>4. t \in Screens /\ t.cells = a /\ t.x = x /\ t.y = y /\ Cursor(t) = RowStart(y) + x
    BY <2>3, ScreenParts
  <2>5. Cursor(t) + (IF x = 0 THEN 1 ELSE 0) = k
    BY <1>1, <1>4, <2>4
  <2> QED
    BY <1>2, <1>5, <2>2, <2>4, <2>5 DEF Fit
<1>6. CASE x >= Columns /\ y >= -1 /\ y <= Rows - 2
  <2>1. PICK n \in Int : n = y + 1 /\ n \in 0 .. (Rows - 1)
    BY <1>2, <1>6
  <2>2. PICK t : t = Placed(a, x, y)
    OBVIOUS
  <2>3. t = Screen(a, 0, n)
    BY <1>6, <2>1, <2>2, PlacedBelow
  <2>4. t \in Screens /\ t.cells = a /\ t.x = 0 /\ t.y = n /\ Cursor(t) = RowStart(n) + 0
    BY <2>3, ScreenParts
  <2>5. Cursor(t) + 1 >= k
    BY <1>2, <1>3, <1>4, <1>6, <2>1, <2>4
  <2>6. Cursor(t) + 1 \in Int /\ \A i \in Cells : i \in Int
    BY <1>2, <1>3, <2>1, <2>4
  <2>7. Bare(a, Cursor(t) + 1)
    BY <2>5, <2>6 DEF Bare
  <2> QED
    BY <1>2, <2>1, <2>2, <2>4, <2>7 DEF Fit
<1>7. CASE \/ x < Columns /\ y < 0
           \/ x >= Columns /\ y < -1
  <2>1. k <= 0
    BY <1>2, <1>3, <1>4, <1>7
  <2>2. \A i \in Cells : i \in Int /\ i > 0
    BY <1>2
  <2>3. Bare(a, 0)
    BY <2>1, <2>2 DEF Bare
  <2>4. PICK col \in Nat : col = (IF x >= Columns THEN 0 ELSE x) /\ col < Columns
    BY <1>2, <1>7
  <2>5. Placed(a, x, y) = Screen(Up(a), col, Rows - 1)
    <3>1. \/ x < Columns /\ y \notin 0 .. (Rows - 1)
          \/ x >= Columns /\ y + 1 \notin 0 .. (Rows - 1)
      BY <1>2, <1>7
    <3> QED
      BY <2>4, <3>1, PlacedScrolled
  <2>6. PICK u \in [Cells -> Glyphs], last \in Int : u = Up(a) /\ last = Rows - 1 /\ Bare(u, 0)
    BY <1>2, <2>3, UpType, UpBare
  <2>7. Fit(Screen(u, col, last))
    BY <1>2, <2>4, <2>6, BareFits
  <2> QED
    BY <2>5, <2>6, <2>7
<1>8. CASE x >= Columns /\ y = Rows - 1
  <2>1. Placed(a, x, y) = Screen(Up(a), 0, Rows - 1)
    <3>1. x >= Columns /\ y + 1 \notin 0 .. (Rows - 1)
      BY <1>2, <1>8
    <3> QED
      BY <3>1, PlacedScrolled
  <2>2. PICK u \in [Cells -> Glyphs], last \in Int : u = Up(a) /\ last = Rows - 1
    BY <1>2, UpType
  <2> PICK t : t = Screen(u, 0, last)
    OBVIOUS
  <2>3. t \in Screens /\ t.cells = u /\ t.x = 0 /\ t.y = last /\ Cursor(t) = RowStart(last) + 0
    BY <2>2, ScreenParts
  <2>4. Cursor(t) = Total - Columns
    BY <1>2, <1>3, <2>2, <2>3
  <2>5. \A i \in Cells : i > Cursor(t) + 1 => i + Columns \notin Cells
    BY <1>2, <2>4
  <2>6. Bare(u, Cursor(t) + 1)
    BY <2>2, <2>5 DEF Bare, Up
  <2>7. last <= Rows - 1 /\ 0 <= Columns /\ 0 # Columns
    BY <1>2, <2>2
  <2> QED
    BY <2>1, <2>2, <2>3, <2>6, <2>7 DEF Fit
<1>9. (x < Columns \/ x >= Columns) /\ (y >= 0 \/ y = -1 \/ y < -1)
      /\ (y <= Rows - 2 \/ y = Rows - 1)
  BY <1>2
<1> QED
  BY <1>2, <1>5, <1>6, <1>7, <1>8, <1>9

(* A key on a fit screen leaves it fit.                                     *)
LEMMA EchoFits ==
    ASSUME NEW s, Fit(s), NEW c \in Glyphs, c.key # "BACK", Shown(c) \/ c.key \in Invisible
    PROVE  Fit(kernelPutc(s, c))
<1>1. PICK x \in Nat, y \in Int, r \in Int : x = s.x /\ y = s.y /\ r = RowStart(y)
  <2>1. s.x \in Nat /\ s.y \in Int
    BY ScreenOf DEF Fit
  <2> QED
    BY <2>1, RowFacts
<1>2. /\ s \in Screens /\ x <= Columns /\ y <= Rows - 1 /\ (x = Columns => y <= Rows - 2)
      /\ Bare(s.cells, Cursor(s) + IF x = 0 THEN 1 ELSE 0)
  BY <1>1 DEF Fit
<1>3. Cursor(s) = r + x /\ Columns \in Nat /\ Rows \in Nat /\ \A i \in Cells : i \in Int
  <2>1. Cursor(s) = r + x
    BY <1>1, CursorIs
  <2>2. Columns \in Nat /\ Rows \in Nat /\ Total \in Nat /\ Cells = 1 .. Total
    BY RowFacts
  <2> QED
    BY <2>1, <2>2
<1>4. CASE Shown(c)
  <2>1. PICK w \in [Cells -> Glyphs] : w = Written(s, c)
    BY <1>2, WrittenType
  <2>2. kernelPutc(s, c) = Placed(w, x + 1, y)
    BY <1>1, <1>2, <1>4, <2>1, PutcShown
  <2>3. Bare(w, r + (x + 1))
    <3>1. ASSUME NEW i \in Cells, i > r + (x + 1) PROVE w[i] = Blank
      <4>1. i # Cursor(s) + 1 /\ i > Cursor(s) + IF x = 0 THEN 1 ELSE 0
        BY <1>3, <3>1
      <4>2. s.cells[i] = Blank
        BY <1>2, <4>1 DEF Bare
      <4> QED
        BY <1>2, <2>1, <4>1, <4>2, ScreenOf DEF Written
    <3> QED
      BY <3>1 DEF Bare
  <2>4. PICK n \in Nat, k \in Int : n = x + 1 /\ k = r + n /\ n > 0
    OBVIOUS
  <2>5. \/ n <= Columns /\ k = RowStart(y) + n + (IF n = 0 THEN 1 ELSE 0)
        \/ n = Columns + 1 /\ y <= Rows - 2 /\ k = RowStart(y) + n
    <3>1. n <= Columns \/ (n = Columns + 1 /\ x = Columns)
      BY <1>2, <1>3, <2>4
    <3> QED
      BY <1>1, <1>2, <2>4, <3>1
  <2> QED
    BY <1>2, <2>1, <2>2, <2>3, <2>4, <2>5, PlacedFits
<1>5. CASE c.key \in Invisible
  <2>1. kernelPutc(s, c) = Placed(s.cells, x, y)
    BY <1>1, <1>2, <1>5, PutcHidden
  <2>2. PICK a \in [Cells -> Glyphs] : a = s.cells
    BY <1>2, ScreenOf
  <2>3. PICK k \in Int : k = r + x + IF x = 0 THEN 1 ELSE 0
    OBVIOUS
  <2> QED
    BY <1>1, <1>2, <1>3, <2>1, <2>2, <2>3, PlacedFits
<1> QED
  BY <1>4, <1>5

(* A backspace: one column back, or behind the end of the row above, and a  *)
(* blank in the cell that is left.  Above the screen nothing is shown.      *)
LEMMA TakenBackGoes ==
    ASSUME NEW s, Fit(s), NEW x \in Nat, x = s.x, NEW y \in Int, y = s.y
    PROVE  \E b \in [Cells -> Glyphs] :
              /\ TakenBack(s) = IF x > 0 THEN Screen(b, x - 1, y) ELSE Screen(b, Columns, y - 1)
              /\ y < 0 => Bare(b, 0)
              /\ y >= 0 => \A p \in Cells :
                    b[p] = IF p = Cursor(s) + (IF x > 0 THEN 0 ELSE 1) THEN Blank
                           ELSE s.cells[p]
<1>1. PICK r \in Int : r = RowStart(y)
  BY RowFacts
<1>2. /\ s \in Screens /\ x <= Columns /\ y <= Rows - 1 /\ (x = Columns => y <= Rows - 2)
      /\ Bare(s.cells, Cursor(s) + IF x = 0 THEN 1 ELSE 0)
  BY DEF Fit
<1>3. Columns \in Nat /\ Columns > 1 /\ Rows \in Nat /\ Rows > 0 /\ (y < 0 => r <= - Columns)
  BY <1>1, RowFacts
<1>4. Cursor(s) = r + x /\ \A i \in Cells : i \in Int /\ i > 0
  <2>1. Cursor(s) = r + x
    BY <1>1, CursorIs
  <2>2. Total \in Nat /\ Cells = 1 .. Total
    BY RowFacts
  <2> QED
    BY <2>1, <2>2
<1>5. PICK a \in [Cells -> Glyphs] : a = s.cells
  BY <1>2, ScreenOf
<1>6. s = Screen(a, x, y)
  BY <1>2, <1>5, ScreenOf
<1>7. Blank \in Glyphs /\ Shown(Blank) /\ Blank.key # "BACK"
  BY DEF Glyphs, Blank, Char, Shown, Invisible
<1>8. ASSUME NEW c \in Nat, c < Columns, c \in {x - 1, x},
             NEW u, u = kernelPutc(Screen(a, c, y), Blank)
      PROVE  \E b \in [Cells -> Glyphs], n \in Nat, m \in Int :
                /\ u = Screen(b, n, m) /\ n <= Columns /\ m \in 0 .. Rows
                /\ y < 0 => Bare(b, 0)
                /\ y >= 0 /\ (c = x - 1 \/ x + 1 < Columns) =>
                     \A p \in Cells : b[p] = IF p = r + c + 1 THEN Blank ELSE a[p]
  <2>1. PICK v : v = Screen(a, c, y)
    OBVIOUS
  <2>2. v \in Screens /\ v.cells = a /\ v.x = c /\ v.y = y /\ Cursor(v) = r + c
    BY <1>1, <2>1, ScreenParts
  <2>3. PICK w \in [Cells -> Glyphs] : w = Written(v, Blank)
    BY <1>7, <2>2, WrittenType
  <2>4. PICK q \in Nat : q = c + 1 /\ q <= Columns /\ u = Placed(w, q, y)
    <3>1. u = Placed(w, c + 1, y)
      BY <1>7, <1>8, <2>1, <2>2, <2>3, PutcShown
    <3> QED
      BY <1>3, <1>8, <3>1
  <2>5. \A p \in Cells : w[p] = IF p = r + c + 1 THEN Blank ELSE a[p]
    <3>1. Blank \in Glyphs
      BY <1>7
    <3> QED
      BY <2>2, <2>3 DEF Written
  <2>6. Up(w) \in [Cells -> Glyphs]
    BY UpType
  <2>7. y < 0 => Bare(w, 0)
    <3>1. ASSUME y < 0, NEW p \in Cells, p > 0 PROVE w[p] = Blank
      <4>1. Cursor(s) + (IF x = 0 THEN 1 ELSE 0) <= 0
        BY <1>2, <1>3, <1>4, <3>1
      <4>2. p > Cursor(s) + (IF x = 0 THEN 1 ELSE 0)
        BY <1>3, <1>4, <3>1, <4>1
      <4>3. a[p] = Blank
        BY <1>2, <1>5, <4>2 DEF Bare
      <4> QED
        BY <2>5, <4>3
    <3> QED
      BY <3>1 DEF Bare
  <2>8. Bare(w, 0) => Bare(Up(w), 0)
    BY UpBare
  <2>9. CASE y >= 0 /\ q < Columns
    <3>1. y \in 0 .. (Rows - 1)
      BY <1>2, <1>3, <2>9
    <3>2. u = Screen(w, q, y)
      BY <2>4, <2>9, <3>1, PlacedInRow
    <3>3. y \in 0 .. Rows /\ ~ (y < 0)
      BY <1>3, <2>9, <3>1
    <3> QED
      BY <2>4, <2>5, <3>2, <3>3
  <2>10. CASE y >= -1 /\ y <= Rows - 2 /\ q = Columns
    <3>1. PICK n \in Int : n = y + 1 /\ n \in 0 .. (Rows - 1) /\ n \in 0 .. Rows
      BY <1>3, <2>10
    <3>2. u = Screen(w, 0, n)
      BY <1>3, <2>4, <2>10, <3>1, PlacedBelow
    <3>3. 0 <= Columns
      BY <1>3
    <3> QED
      BY <2>5, <2>7, <3>1, <3>2, <3>3
  <2>11. CASE \/ y < 0 /\ q < Columns
              \/ y < -1 /\ q = Columns
              \/ y = Rows - 1 /\ q = Columns
    <3>1. u = Screen(Up(w), IF q >= Columns THEN 0 ELSE q, Rows - 1)
      <4>1. \/ q < Columns /\ y \notin 0 .. (Rows - 1)
            \/ q >= Columns /\ y + 1 \notin 0 .. (Rows - 1)
        BY <1>3, <2>11
      <4> QED
        BY <2>4, <4>1, PlacedScrolled
    <3>2. PICK n \in Nat, m \in Int :
             /\ n = (IF q >= Columns THEN 0 ELSE q) /\ n <= Columns
             /\ m = Rows - 1 /\ m \in 0 .. Rows
      BY <1>3, <2>4
    <3>3. y >= 0 => y = Rows - 1 /\ q = Columns
      BY <1>3, <2>11
    <3>4. y >= 0 => ~ (c = x - 1) /\ ~ (x + 1 < Columns)
      BY <1>2, <1>3, <1>8, <2>4, <3>3
    <3>5. y < 0 => Bare(Up(w), 0)
      BY <2>7, <2>8
    <3> QED
      BY <2>6, <3>1, <3>2, <3>4, <3>5
  <2> QED
    BY <1>2, <1>3, <2>4, <2>9, <2>10, <2>11
<1>9. CASE x > 0
  <2>1. PICK c \in Nat : c = x - 1 /\ c < Columns /\ c <= Columns
    BY <1>2, <1>3, <1>9
  <2>2. kernelGotoXY(s, x - 1, y) = Screen(a, c, y)
    <3>1. kernelGotoXY(Screen(a, x, y), c, y) =
             Screen(a, IF x <= Columns THEN c ELSE x, IF y \in 0 .. Rows THEN y ELSE y)
      BY GoneTo
    <3> QED
      BY <1>2, <1>6, <2>1, <3>1
  <2>3. PICK u : u = kernelPutc(Screen(a, c, y), Blank)
    OBVIOUS
  <2>4. PICK b \in [Cells -> Glyphs], n \in Nat, m \in Int :
           /\ u = Screen(b, n, m) /\ n <= Columns /\ m \in 0 .. Rows
           /\ y < 0 => Bare(b, 0)
           /\ y >= 0 => \A p \in Cells : b[p] = IF p = r + c + 1 THEN Blank ELSE a[p]
    BY <1>8, <2>1, <2>3
  <2>5. kernelGotoXY(u, c, y) = Screen(b, c, y)
    BY <2>4, GoneTo
  <2>6. TakenBack(s) = Screen(b, x - 1, y)
    BY <1>9, <2>1, <2>2, <2>3, <2>5 DEF TakenBack
  <2>7. r + c + 1 = Cursor(s) + 0
    BY <1>4, <2>1
  <2> QED
    BY <1>5, <1>9, <2>4, <2>6, <2>7
<1>10. CASE x = 0
  <2>1. x < Columns /\ x + 1 < Columns
    BY <1>3, <1>10
  <2>2. PICK u : u = kernelPutc(Screen(a, x, y), Blank)
    OBVIOUS
  <2>3. PICK b \in [Cells -> Glyphs], n \in Nat, m \in Int :
           /\ u = Screen(b, n, m) /\ n <= Columns /\ m \in 0 .. Rows
           /\ y < 0 => Bare(b, 0)
           /\ y >= 0 => \A p \in Cells : b[p] = IF p = r + x + 1 THEN Blank ELSE a[p]
    BY <1>8, <2>1, <2>2
  <2>4. kernelGotoXY(u, Columns, y - 1) = Screen(b, Columns, y - 1)
    BY <2>3, GoneTo
  <2>5. TakenBack(s) = Screen(b, Columns, y - 1)
    <3>1. ~ (s.x > 0) /\ s.y - 1 = y - 1
      BY <1>10
    <3> QED
      BY <1>6, <2>2, <2>4, <3>1 DEF TakenBack
  <2>6. r + x + 1 = Cursor(s) + 1
    BY <1>4
  <2> QED
    BY <1>5, <1>10, <2>3, <2>5, <2>6
<1> QED
  BY <1>9, <1>10

LEMMA BackFits ==
    ASSUME NEW s, Fit(s)
    PROVE  Fit(TakenBack(s))
<1>1. PICK x \in Nat, y \in Int, r \in Int : x = s.x /\ y = s.y /\ r = RowStart(y)
  <2>1. s.x \in Nat /\ s.y \in Int
    BY ScreenOf DEF Fit
  <2> QED
    BY <2>1, RowFacts
<1>2. /\ s \in Screens /\ x <= Columns /\ y <= Rows - 1 /\ (x = Columns => y <= Rows - 2)
      /\ Bare(s.cells, Cursor(s) + IF x = 0 THEN 1 ELSE 0)
  BY <1>1 DEF Fit
<1>3. /\ Columns \in Nat /\ Columns > 1 /\ Rows \in Nat /\ Rows > 0
      /\ Total \in Nat /\ Cells = 1 .. Total /\ RowStart(y - 1) = r - Columns
  BY <1>1, RowFacts
<1>4. Cursor(s) = r + x
  BY <1>1, CursorIs
<1>5. PICK b \in [Cells -> Glyphs] :
         /\ TakenBack(s) = IF x > 0 THEN Screen(b, x - 1, y) ELSE Screen(b, Columns, y - 1)
         /\ y < 0 => Bare(b, 0)
         /\ y >= 0 => \A p \in Cells :
               b[p] = IF p = Cursor(s) + (IF x > 0 THEN 0 ELSE 1) THEN Blank ELSE s.cells[p]
  BY <1>1, TakenBackGoes
<1>6. PICK col, row, t :
         /\ col \in Nat /\ row \in Int
         /\ col = (IF x > 0 THEN x - 1 ELSE Columns) /\ row = (IF x > 0 THEN y ELSE y - 1)
         /\ t = Screen(b, col, row) /\ t = TakenBack(s)
  <2>1. CASE x > 0
    BY <1>5, <2>1
  <2>2. CASE ~ (x > 0)
    BY <1>3, <1>5, <2>2
  <2> QED
    BY <2>1, <2>2
<1>7. t \in Screens /\ t.cells = b /\ t.x = col /\ t.y = row /\ Cursor(t) = RowStart(row) + col
  BY <1>6, ScreenParts
<1>8. Cursor(t) = (IF x > 0 THEN r + x - 1 ELSE r)
  BY <1>1, <1>3, <1>6, <1>7
<1>9. col <= Columns /\ row <= Rows - 1 /\ (col = Columns => row <= Rows - 2)
  BY <1>2, <1>3, <1>6
<1>10. ASSUME NEW p \in Cells, p > Cursor(t) PROVE b[p] = Blank
  <2>1. CASE y < 0
    BY <1>3, <1>5, <2>1 DEF Bare
  <2>2. CASE y >= 0
    <3>1. \/ p = Cursor(s) + (IF x > 0 THEN 0 ELSE 1)
          \/ p > Cursor(s) + (IF x = 0 THEN 1 ELSE 0)
      BY <1>3, <1>4, <1>8, <1>10
    <3> QED
      BY <1>2, <1>5, <2>2, <3>1 DEF Bare
  <2> QED
    BY <2>1, <2>2
<1>11. ASSUME NEW p \in Cells, p > Cursor(t) + (IF col = 0 THEN 1 ELSE 0) PROVE b[p] = Blank
  <2>1. p > Cursor(t)
    BY <1>3, <1>8, <1>11
  <2> QED
    BY <1>10, <2>1
<1> QED
  BY <1>6, <1>7, <1>9, <1>11 DEF Fit, Bare

(* The cursor on the screen, with nothing behind it.                        *)
Tidy(s) ==
    /\ s \in Screens /\ s.x < Columns /\ s.y \in 0 .. (Rows - 1)
    /\ Bare(s.cells, Cursor(s))

LEMMA TidyFits ==
    ASSUME NEW s, Tidy(s)
    PROVE  Fit(s)
<1>1. PICK x \in Nat, y \in Int : x = s.x /\ y = s.y
  BY ScreenOf DEF Tidy
<1>2. Cursor(s) = RowStart(y) + x /\ RowStart(y) \in Int /\ Columns \in Nat /\ Rows \in Nat
  <2>1. Cursor(s) = RowStart(y) + x
    BY <1>1, CursorIs
  <2>2. RowStart(y) \in Int /\ Columns \in Nat /\ Rows \in Nat
    BY RowFacts
  <2> QED
    BY <2>1, <2>2
<1>3. s \in Screens /\ x < Columns /\ y \in 0 .. (Rows - 1)
  BY <1>1 DEF Tidy
<1>4. x <= Columns /\ x # Columns /\ y <= Rows - 1
  BY <1>2, <1>3
<1>5. Total \in Nat /\ Cells = 1 .. Total
  BY RowFacts
<1>6. ASSUME NEW p \in Cells, p > Cursor(s) + (IF x = 0 THEN 1 ELSE 0) PROVE s.cells[p] = Blank
  <2>1. p > Cursor(s)
    BY <1>2, <1>5, <1>6
  <2> QED
    BY <2>1 DEF Tidy, Bare
<1> QED
  BY <1>1, <1>3, <1>4, <1>6 DEF Fit, Bare

(* A newline leads to the beginning of an empty row.                        *)
LEMMA NewlineTidy ==
    ASSUME NEW s, Fit(s), NEW t, t = kernelPutc(s, Char("NEWLINE"))
    PROVE  Tidy(t) /\ t.x = 0
<1>1. PICK x \in Nat, y \in Int, r \in Int : x = s.x /\ y = s.y /\ r = RowStart(y)
  <2>1. s.x \in Nat /\ s.y \in Int
    BY ScreenOf DEF Fit
  <2> QED
    BY <2>1, RowFacts
<1>2. /\ s \in Screens /\ x <= Columns /\ y <= Rows - 1 /\ (x = Columns => y <= Rows - 2)
      /\ Bare(s.cells, Cursor(s) + IF x = 0 THEN 1 ELSE 0)
  BY <1>1 DEF Fit
<1>3. /\ Columns \in Nat /\ Columns > 1 /\ Rows \in Nat /\ Rows > 0
      /\ Total \in Nat /\ Cells = 1 .. Total /\ RowStart(y + 1) = r + Columns
      /\ RowStart(Rows - 1) = Total - Columns /\ (y < -1 => r <= - 2 * Columns)
  BY <1>1, RowFacts
<1>4. Cursor(s) = r + x
  BY <1>1, CursorIs
<1>5. PICK a \in [Cells -> Glyphs], n \in Int : a = s.cells /\ n = y + 1
  BY <1>2, ScreenOf
<1>6. t = Placed(a, 0, n)
  BY <1>1, <1>2, <1>5, PutcNewline
<1>7. 0 < Columns
  BY <1>3
<1>8. ASSUME NEW p \in Cells, p > r + Columns PROVE a[p] = Blank
  <2>1. p > Cursor(s) + IF x = 0 THEN 1 ELSE 0
    BY <1>2, <1>3, <1>4, <1>8
  <2> QED
    BY <1>2, <1>5, <2>1 DEF Bare
<1>9. CASE n \in 0 .. (Rows - 1)
  <2>1. t = Screen(a, 0, n)
    BY <1>6, <1>7, <1>9, PlacedInRow
  <2>2. t \in Screens /\ t.cells = a /\ t.x = 0 /\ t.y = n /\ Cursor(t) = RowStart(n) + 0
    BY <2>1, ScreenParts
  <2>3. Cursor(t) = r + Columns
    BY <1>3, <1>5, <2>2
  <2> QED
    BY <1>7, <1>8, <1>9, <2>2, <2>3 DEF Tidy, Bare
<1>10. CASE n \notin 0 .. (Rows - 1)
  <2>1. t = Screen(Up(a), 0, Rows - 1)
    BY <1>3, <1>6, <1>7, <1>10, PlacedScrolled
  <2>2. PICK u \in [Cells -> Glyphs], last \in Int :
           u = Up(a) /\ last = Rows - 1 /\ last \in 0 .. (Rows - 1)
    BY <1>3, UpType
  <2>3. t = Screen(u, 0, last)
    BY <2>1, <2>2
  <2>4. t \in Screens /\ t.cells = u /\ t.x = 0 /\ t.y = last /\ Cursor(t) = RowStart(last) + 0
    BY <2>3, ScreenParts
  <2>5. Cursor(t) = Total - Columns
    BY <1>3, <2>2, <2>4
  <2>6. ASSUME NEW p \in Cells, p > Total - Columns PROVE u[p] = Blank
    <3>1. p + Columns \notin Cells
      BY <1>3, <2>6
    <3> QED
      BY <2>2, <3>1 DEF Up
  <2> QED
    BY <1>7, <2>2, <2>4, <2>5, <2>6 DEF Tidy, Bare
<1> QED
  BY <1>9, <1>10

(* A text behind the cursor, on the part of the row that is left.           *)
Stands(s, text, n) ==
    \A i \in 1 .. n : Cursor(s) - n + i > 0 => s.cells[Cursor(s) - n + i] = text[i]

LEMMA TextGlyphs ==
    ASSUME NEW text \in {Prompt, Reply}
    PROVE  /\ Len(text) \in Nat /\ Len(text) > 0 /\ Len(text) < Columns
           /\ DOMAIN text = 1 .. Len(text)
           /\ \A i \in 1 .. Len(text) :
                 text[i] \in Glyphs /\ Shown(text[i]) /\ text[i].key # "BACK"
<1>1. text \in Seq(Character) /\ Len(text) \in 1 .. (Columns - 1)
      /\ \A i \in DOMAIN text : Shown(text[i]) /\ text[i].key # "BACK"
  BY TerminalAssumption
<1>2. \A i \in 1 .. Len(text) : text[i] \in Character
  BY <1>1
<1>3. \A i \in 1 .. Len(text) : text[i] \in Glyphs
  BY <1>2 DEF Glyphs
<1>4. Columns \in Nat
  BY RowFacts
<1> QED
  BY <1>1, <1>3, <1>4

(* One character more of a text that fits into the row.                     *)
LEMMA OneMore ==
    ASSUME NEW v, Tidy(v), NEW text \in {Prompt, Reply}, NEW i \in 1 .. Len(text),
           v.x = i - 1, Stands(v, text, i - 1),
           NEW u, u = kernelPutc(v, text[i])
    PROVE  Tidy(u) /\ u.x = i /\ Stands(u, text, i)
<1>1. PICK n \in Nat, j \in Nat, c \in Glyphs :
         /\ n = Len(text) /\ n < Columns /\ i \in 1 .. n /\ i = j + 1 /\ c = text[i]
         /\ Shown(c) /\ c.key # "BACK"
  <2>1. PICK n \in Nat : n = Len(text) /\ n < Columns /\ i \in 1 .. n
    BY TextGlyphs
  <2>2. i - 1 \in Nat /\ i = (i - 1) + 1
    BY <2>1
  <2> QED
    BY <2>1, <2>2, TextGlyphs
<1>2. v.x = j /\ Stands(v, text, j)
  <2>1. i - 1 = j
    BY <1>1
  <2> QED
    BY <2>1
<1>3. /\ v \in Screens /\ v.x < Columns /\ v.y \in 0 .. (Rows - 1)
      /\ Bare(v.cells, Cursor(v))
  BY DEF Tidy
<1>4. PICK d \in {0, Columns} :
         /\ u \in Screens /\ u.x < Columns /\ u.y \in 0 .. (Rows - 1)
         /\ Cursor(u) = Cursor(v) + 1 - d
         /\ v.x + 1 < Columns => d = 0 /\ u.x = v.x + 1 /\ u.y = v.y
         /\ \A p \in Cells : u.cells[p] =
               IF p + d \notin Cells THEN Blank
               ELSE IF p + d = Cursor(v) + 1 THEN c ELSE v.cells[p + d]
  BY <1>1, <1>3, PutInside
<1>5. Columns \in Nat /\ Rows \in Nat /\ Total \in Nat /\ Cells = 1 .. Total
  BY RowFacts
<1>6. d = 0 /\ u.x = i
  BY <1>1, <1>2, <1>4, <1>5
<1>7. PICK l \in Int : l = Cursor(v) /\ Cursor(u) = l + 1 /\ l >= 0 /\ l + 1 \in Cells
  <2>1. PICK y \in Int, r \in Int : y = v.y /\ r = RowStart(y)
    <3>1. v.y \in Int
      BY <1>3, ScreenOf
    <3> QED
      BY <3>1, RowFacts
  <2>2. Cursor(v) = r + j
    BY <1>2, <2>1, CursorIs
  <2>3. r >= 0 /\ r <= Total - Columns
    <3>1. y >= 0 /\ y <= Rows - 1
      BY <1>3, <1>5, <2>1
    <3> QED
      BY <2>1, <3>1, RowFacts
  <2>4. r + j >= 0 /\ r + j + 1 \in Cells
    BY <1>1, <1>5, <2>3
  <2> QED
    BY <1>4, <1>6, <2>2, <2>4
<1>8. \A p \in Cells : u.cells[p] = IF p = l + 1 THEN c ELSE v.cells[p]
  <2>1. \A p \in Cells : p + 0 = p
    BY <1>5
  <2> QED
    BY <1>4, <1>6, <1>7, <2>1
<1>9. ASSUME NEW p \in Cells, p > l + 1 PROVE u.cells[p] = Blank
  <2>1. p > l /\ p # l + 1
    BY <1>5, <1>9
  <2> QED
    BY <1>3, <1>7, <1>8, <2>1 DEF Bare
<1>10. ASSUME NEW k \in 1 .. i, (l + 1) - i + k > 0 PROVE u.cells[(l + 1) - i + k] = text[k]
  <2>1. (l + 1) - i + k = l - j + k
    BY <1>1
  <2>2. CASE k = i
    <3>1. (l + 1) - i + k = l + 1
      BY <1>1, <2>2
    <3> QED
      BY <1>1, <1>7, <1>8, <2>2, <3>1
  <2>3. CASE k # i
    <3>1. k \in 1 .. j /\ l - j + k > 0 /\ l - j + k < l + 1
      BY <1>1, <1>10, <2>1, <2>3
    <3>2. l - j + k \in Cells /\ l - j + k # l + 1
      BY <1>5, <1>7, <3>1
    <3>3. v.cells[l - j + k] = text[k]
      BY <1>2, <1>7, <3>1 DEF Stands
    <3> QED
      BY <1>8, <2>1, <3>2, <3>3
  <2> QED
    BY <2>2, <2>3
<1> QED
  BY <1>4, <1>6, <1>7, <1>9, <1>10 DEF Tidy, Bare, Stands

(* The screens kernelPuts goes through.                                     *)
IsPuts(h, s, str) ==
    h = [i \in 0 .. Len(str) |-> IF i = 0 THEN s ELSE kernelPutc(h[i - 1], str[i])]

(* The prompt, or an answer, starts a row, with the cursor behind it.       *)
LEMMA LineTidy ==
    ASSUME NEW s, Fit(s), NEW text \in {Prompt, Reply}, NEW t, t = Line(s, text)
    PROVE  Tidy(t) /\ t.x = Len(text) /\ Stands(t, text, Len(text))
<1>1. PICK base : base = kernelPutc(s, Char("NEWLINE")) /\ Tidy(base) /\ base.x = 0
  BY NewlineTidy
<1>2. PICK n \in Nat : n = Len(text)
  BY TextGlyphs
<1> DEFINE Good(i) == { v \in Screens : Tidy(v) /\ v.x = i /\ Stands(v, text, i) }
           T == UNION { Good(i) : i \in 0 .. n }
           step(p) == kernelPutc(p[1], text[p[2]])
           g == [p \in T \X (1 .. n) |-> IF step(p) \in T THEN step(p) ELSE base]
<1>3. base \in Good(0) /\ base \in T
  <2>1. base \in Screens /\ Stands(base, text, 0)
    BY <1>1 DEF Tidy, Stands
  <2>2. base \in Good(0)
    BY <1>1, <2>1
  <2> HIDE DEF Good
  <2> QED
    BY <2>2
<1>4. g \in [T \X (1 .. n) -> T]
  <2> HIDE DEF step, T
  <2> QED
    BY <1>3
<1>5. PICK h : Loop(h, T, base, n, g)
  <2> HIDE DEF g, T
  <2>1. LoopBody(T, base, n, g)
    BY <1>3, <1>4 DEF LoopBody
  <2> QED
    BY <2>1, LoopExists
<1>6. /\ h \in [0 .. n -> T] /\ h[0] = base
      /\ \A i \in 1 .. n : h[i] = g[<<h[i - 1], i>>]
  <2> HIDE DEF g, T
  <2> QED
    BY <1>5 DEF Loop
<1>7. ASSUME NEW i \in 1 .. n, h[i - 1] \in Good(i - 1)
      PROVE  h[i] \in Good(i) /\ h[i] = kernelPutc(h[i - 1], text[i])
  <2>1. PICK v, u : v = h[i - 1] /\ u = kernelPutc(v, text[i])
    OBVIOUS
  <2>2. v \in T /\ i - 1 \in 0 .. n
    BY <1>6, <2>1
  <2>3. Tidy(u) /\ u.x = i /\ Stands(u, text, i)
    BY <1>2, <1>7, <2>1, OneMore
  <2>4. u \in Good(i) /\ u \in T
    <3>1. u \in Good(i)
      BY <2>3 DEF Tidy
    <3> HIDE DEF Good
    <3> QED
      BY <3>1
  <2>5. step(<<v, i>>) = u
    BY <2>1
  <2>6. g[<<v, i>>] = u
    <3> HIDE DEF step, T
    <3> QED
      BY <2>2, <2>4, <2>5
  <2> HIDE DEF g, Good, T
  <2> QED
    BY <1>6, <2>1, <2>4, <2>6
<1>8. \A i \in 0 .. n : h[i] \in Good(i)
  <2> DEFINE S == [i \in 0 .. n |-> Good(i)]
  <2>1. h[0] \in S[0] /\ \A i \in 1 .. n : h[i - 1] \in S[i - 1] => h[i] \in S[i]
    <3> HIDE DEF Good, g, T
    <3> QED
      BY <1>3, <1>6, <1>7
  <2>2. \A i \in 0 .. n : h[i] \in S[i]
    <3> HIDE DEF S
    <3> QED
      BY <2>1, LoopKeeps
  <2> HIDE DEF Good, g, T
  <2> QED
    BY <2>2
<1>9. IsPuts(h, base, text)
  <2>1. h = [i \in 0 .. n |-> h[i]]
    <3> HIDE DEF g, T
    <3> QED
      BY <1>6
  <2>2. \A i \in 0 .. n : h[i] = IF i = 0 THEN base ELSE kernelPutc(h[i - 1], text[i])
    <3> HIDE DEF Good, g, T
    <3>1. ASSUME NEW i \in 1 .. n PROVE h[i] = kernelPutc(h[i - 1], text[i])
      <4>1. i - 1 \in 0 .. n
        BY <1>2
      <4> QED
        BY <1>7, <1>8, <4>1
    <3> QED
      BY <1>6, <3>1
  <2> HIDE DEF Good, g, T
  <2> QED
    BY <1>2, <2>1, <2>2 DEF IsPuts
<1> DEFINE f == CHOOSE f : IsPuts(f, base, text)
<1>10. IsPuts(f, base, text)
  BY <1>9, Zenon
<1>11. t = f[n]
  <2>1. t = kernelPuts(base, text)
    BY <1>1 DEF Line
  <2>2. kernelPuts(base, text) = f[Len(text)]
    BY Zenon DEF kernelPuts, IsPuts
  <2> HIDE DEF f
  <2> QED
    BY <1>2, <2>1, <2>2
<1> HIDE DEF f, g, Good, T
<1>12. f[0] = base /\ \A i \in 1 .. n : f[i] = kernelPutc(f[i - 1], text[i])
  BY <1>2, <1>10 DEF IsPuts
<1>13. h[0] = base /\ \A i \in 1 .. n : h[i] = kernelPutc(h[i - 1], text[i])
  BY <1>2, <1>9 DEF IsPuts
<1>14. \A i \in 0 .. n : f[i] \in {h[i]}
  <2> DEFINE S == [i \in 0 .. n |-> {h[i]}]
  <2>1. f[0] \in S[0] /\ \A i \in 1 .. n : f[i - 1] \in S[i - 1] => f[i] \in S[i]
    BY <1>12, <1>13
  <2>2. \A i \in 0 .. n : f[i] \in S[i]
    <3> HIDE DEF S
    <3> QED
      BY <2>1, LoopKeeps
  <2> QED
    BY <2>2
<1>15. t \in Good(n)
  BY <1>8, <1>11, <1>14
<1> QED
  BY <1>2, <1>15 DEF Good

(* A text whose last character is in cell k, as far as it is on the screen. *)
Ends(s, text, k) ==
    \A i \in 1 .. Len(text) : k - Len(text) + i > 0 => s.cells[k - Len(text) + i] = text[i]

LEMMA CursorInside ==
    ASSUME NEW s, Tidy(s)
    PROVE  /\ Cursor(s) \in Int /\ Cursor(s) >= 0 /\ Cursor(s) < Total
           /\ Total \in Nat /\ Cells = 1 .. Total /\ Columns \in Nat /\ Columns > 1
<1>1. PICK x \in Nat, y \in Int, r \in Int : x = s.x /\ y = s.y /\ r = RowStart(y)
  <2>1. s.x \in Nat /\ s.y \in Int
    BY ScreenOf DEF Tidy
  <2> QED
    BY <2>1, RowFacts
<1>2. Cursor(s) = r + x
  BY <1>1, CursorIs
<1>3. /\ Total \in Nat /\ Cells = 1 .. Total /\ Columns \in Nat /\ Columns > 1 /\ Rows \in Nat
      /\ y >= 0 => r >= 0
      /\ y <= Rows - 1 => r <= Total - Columns
  BY <1>1, RowFacts
<1>4. x < Columns /\ y >= 0 /\ y <= Rows - 1
  BY <1>1, <1>3 DEF Tidy
<1> QED
  BY <1>2, <1>3, <1>4

(* The line grows by the character that is echoed, scrolling or not.        *)
Grows(grown, line, c) == grown = Append(line, c)

LEMMA EchoKeeps ==
    ASSUME NEW s, Tidy(s), NEW c \in Characters, Shown(c), c.key # "BACK",
           NEW t, t = kernelPutc(s, c),
           NEW line \in Seq(Characters), Ends(s, line, Cursor(s)),
           NEW head, Len(head) \in Nat, Ends(s, head, Cursor(s) - Len(line)),
           NEW grown, Grows(grown, line, c)
    PROVE  /\ Tidy(t) /\ Ends(t, grown, Cursor(t)) /\ Ends(t, head, Cursor(t) - Len(grown))
           /\ Len(grown) = Len(line) + 1 /\ Cursor(t) \in Int
<1>1. PICK l \in Int : /\ l = Cursor(s) /\ l >= 0 /\ l < Total
                       /\ Total \in Nat /\ Cells = 1 .. Total /\ Columns \in Nat
  BY CursorInside
<1>2. c \in Glyphs /\ s \in Screens /\ s.x < Columns /\ s.y \in 0 .. (Rows - 1)
      /\ Bare(s.cells, l)
  BY <1>1 DEF Tidy, Glyphs
<1>3. PICK d \in {0, Columns} :
         /\ t \in Screens /\ t.x < Columns /\ t.y \in 0 .. (Rows - 1)
         /\ Cursor(t) = l + 1 - d
         /\ \A p \in Cells : t.cells[p] =
               IF p + d \notin Cells THEN Blank
               ELSE IF p + d = l + 1 THEN c ELSE s.cells[p + d]
  <2>1. \E d \in {0, Columns} :
           /\ t \in Screens /\ t.x < Columns /\ t.y \in 0 .. (Rows - 1)
           /\ Cursor(t) = Cursor(s) + 1 - d
           /\ \A p \in Cells : t.cells[p] =
                 IF p + d \notin Cells THEN Blank
                 ELSE IF p + d = Cursor(s) + 1 THEN c ELSE s.cells[p + d]
    BY <1>2, PutInside
  <2> QED
    BY <1>1, <2>1
<1>4. PICK n \in Nat, m \in Nat : n = Len(line) /\ m = Len(head)
  OBVIOUS
<1>5. d \in Nat
  BY <1>1
<1>6. /\ Len(grown) = n + 1 /\ grown[n + 1] = c
      /\ \A i \in 1 .. n : grown[i] = line[i]
  BY <1>4 DEF Grows
<1>7. ASSUME NEW p \in Cells, p > l + 1 - d PROVE t.cells[p] = Blank
  <2>1. CASE p + d \in Cells
    <3>1. p + d > l /\ p + d # l + 1
      BY <1>1, <1>5, <1>7
    <3>2. s.cells[p + d] = Blank
      BY <1>2, <2>1, <3>1 DEF Bare
    <3> QED
      BY <1>3, <2>1, <3>1, <3>2
  <2>2. CASE p + d \notin Cells
    BY <1>3, <2>2
  <2> QED
    BY <2>1, <2>2
<1>8. ASSUME NEW p \in Int, p > 0, p + d <= l
      PROVE  t.cells[p] = s.cells[p + d]
  <2>1. p \in Cells /\ p + d \in Cells /\ p + d # l + 1
    BY <1>1, <1>5, <1>8
  <2> QED
    BY <1>3, <2>1
<1>9. ASSUME NEW i \in 1 .. (n + 1), (l + 1 - d) - (n + 1) + i > 0
      PROVE  t.cells[(l + 1 - d) - (n + 1) + i] = grown[i]
  <2>1. PICK p \in Int : p = (l + 1 - d) - (n + 1) + i
    BY <1>5
  <2>2. p > 0 /\ p + d = l - n + i
    BY <1>5, <1>9, <2>1
  <2>3. CASE i = n + 1
    <3>1. p + d = l + 1 /\ p \in Cells /\ p + d \in Cells
      BY <1>1, <1>5, <2>2, <2>3
    <3> QED
      BY <1>3, <1>6, <2>1, <2>3, <3>1
  <2>4. CASE i # n + 1
    <3>1. i \in 1 .. n /\ p + d <= l /\ l - n + i > 0
      BY <1>5, <2>2, <2>4
    <3>2. s.cells[l - n + i] = line[i]
      BY <1>1, <1>4, <3>1 DEF Ends
    <3> QED
      BY <1>6, <1>8, <2>1, <2>2, <3>1, <3>2
  <2> QED
    BY <2>3, <2>4
<1>10. ASSUME NEW i \in 1 .. m, (l + 1 - d) - (n + 1) - m + i > 0
       PROVE  t.cells[(l + 1 - d) - (n + 1) - m + i] = head[i]
  <2>1. PICK p \in Int : p = (l + 1 - d) - (n + 1) - m + i
    BY <1>5
  <2>2. p > 0 /\ p + d = l - n - m + i /\ p + d <= l /\ l - n - m + i > 0
    BY <1>5, <1>10, <2>1
  <2>3. s.cells[l - n - m + i] = head[i]
    BY <1>1, <1>4, <2>2 DEF Ends
  <2> QED
    BY <1>8, <2>1, <2>2, <2>3
<1> QED
  BY <1>3, <1>4, <1>5, <1>6, <1>7, <1>9, <1>10 DEF Tidy, Bare, Ends

(* ... and loses its last character when that is taken back.                *)
LEMMA BackKeeps ==
    ASSUME NEW s, Tidy(s), s.x > 0, NEW t, t = TakenBack(s),
           NEW line \in Seq(Characters), line # <<>>, Ends(s, line, Cursor(s)),
           NEW head, Len(head) \in Nat, Ends(s, head, Cursor(s) - Len(line)),
           NEW less, less = Front(line)
    PROVE  /\ Tidy(t) /\ Ends(t, less, Cursor(t)) /\ Ends(t, head, Cursor(t) - Len(less))
           /\ Len(less) = Len(line) - 1 /\ Cursor(t) = Cursor(s) - 1
<1>1. PICK l \in Int : /\ l = Cursor(s) /\ l >= 0 /\ l < Total
                       /\ Total \in Nat /\ Cells = 1 .. Total /\ Columns \in Nat
  BY CursorInside
<1>2. PICK x \in Nat, y \in Int : x = s.x /\ y = s.y
  BY ScreenOf DEF Tidy
<1>3. PICK r \in Int : r = RowStart(y) /\ l = r + x
  <2>1. RowStart(y) \in Int
    BY RowFacts
  <2>2. l = RowStart(y) + x
    BY <1>1, <1>2, CursorIs
  <2> QED
    BY <2>1, <2>2
<1>4. x > 0 /\ x < Columns /\ y \in 0 .. (Rows - 1) /\ y >= 0 /\ Bare(s.cells, l)
  <2>1. Rows \in Nat
    BY RowFacts
  <2> QED
    BY <1>1, <1>2, <2>1 DEF Tidy
<1>5. PICK b \in [Cells -> Glyphs] :
         /\ t = Screen(b, x - 1, y)
         /\ \A p \in Cells : b[p] = IF p = l + 0 THEN Blank ELSE s.cells[p]
  BY <1>1, <1>2, <1>4, TidyFits, TakenBackGoes
<1>6. PICK q \in Nat : q = x - 1 /\ q < Columns
  BY <1>1, <1>4
<1>7. t = Screen(b, q, y)
  BY <1>5, <1>6
<1>8. t \in Screens /\ t.cells = b /\ t.x = q /\ t.y = y /\ Cursor(t) = RowStart(y) + q
  BY <1>7, ScreenParts
<1>9. Cursor(t) = l - 1
  BY <1>3, <1>6, <1>8
<1>10. PICK n \in Nat, m \in Nat : n + 1 = Len(line) /\ m = Len(head)
  <2>1. Len(line) \in Nat /\ Len(line) # 0
    OBVIOUS
  <2>2. Len(line) - 1 \in Nat /\ (Len(line) - 1) + 1 = Len(line)
    BY <2>1
  <2> QED
    BY <2>2
<1>11. Len(less) = n /\ \A i \in 1 .. n : less[i] = line[i]
  BY <1>10 DEF Front
<1>12. ASSUME NEW p \in Cells, p > l - 1 PROVE b[p] = Blank
  <2>1. p = l + 0 \/ p > l
    BY <1>1, <1>12
  <2> QED
    BY <1>4, <1>5, <2>1 DEF Bare
<1>13. ASSUME NEW p \in Int, p > 0, p < l PROVE b[p] = s.cells[p]
  <2>1. p \in Cells /\ p # l + 0
    BY <1>1, <1>13
  <2> QED
    BY <1>5, <2>1
<1>14. ASSUME NEW i \in 1 .. n, (l - 1) - n + i > 0 PROVE b[(l - 1) - n + i] = less[i]
  <2>1. PICK p \in Int : p = (l - 1) - n + i
    OBVIOUS
  <2>2. p > 0 /\ p < l /\ p = l - (n + 1) + i /\ i \in 1 .. (n + 1)
    BY <1>14, <2>1
  <2>3. s.cells[p] = line[i]
    BY <1>1, <1>10, <2>2 DEF Ends
  <2> QED
    BY <1>11, <1>13, <2>1, <2>2, <2>3
<1>15. ASSUME NEW i \in 1 .. m, (l - 1) - n - m + i > 0 PROVE b[(l - 1) - n - m + i] = head[i]
  <2>1. PICK p \in Int : p = (l - 1) - n - m + i
    OBVIOUS
  <2>2. p > 0 /\ p < l /\ p = l - (n + 1) - m + i
    BY <1>15, <2>1
  <2>3. s.cells[p] = head[i]
    BY <1>1, <1>10, <2>2 DEF Ends
  <2> QED
    BY <1>13, <2>1, <2>2, <2>3
<1> QED
  BY <1>1, <1>4, <1>6, <1>8, <1>9, <1>10, <1>11, <1>12, <1>14, <1>15 DEF Tidy, Bare, Ends

(* The inductive invariant: wherever the cursor went, what is behind it is  *)
(* blank; and while a line is plain, the prompt, the line and the cursor    *)
(* stand one behind the other.                                              *)
ScreenInv ==
    /\ Fit(screen) /\ plain \in BOOLEAN
    /\ plain => /\ Tidy(screen)
                /\ Cursor(screen) = start + Len(buf) /\ start \in Int
                /\ Ends(screen, buf, Cursor(screen))
                /\ Ends(screen, Prompt, Cursor(screen) - Len(buf))

LEMMA InitScreen ==
    ASSUME TerminalInit
    PROVE  ScreenInv
<1>1. PICK y \in 0 .. (Rows - 1) : screen = Line(Cleared(0, y), Prompt)
  BY DEF TerminalInit
<1>2. PICK a \in [Cells -> Glyphs], z \in Int, none \in Nat :
         /\ a = [i \in Cells |-> Blank] /\ Bare(a, 0)
         /\ z = y /\ z <= Rows - 1 /\ none = 0 /\ none < Columns /\ none <= Columns
  <2>1. Blank \in Glyphs
    BY DEF Glyphs
  <2>2. y \in Int /\ y <= Rows - 1 /\ 0 < Columns /\ 0 <= Columns
    BY RowFacts
  <2>3. Bare([i \in Cells |-> Blank], 0)
    BY DEF Bare
  <2> QED
    BY <2>1, <2>2, <2>3
<1>3. Fit(Screen(a, none, z))
  <2>1. none = Columns => z <= Rows - 2
    BY <1>2, RowFacts
  <2> QED
    BY <1>2, <2>1, BareFits
<1>4. Fit(Cleared(0, y))
  BY <1>2, <1>3 DEF Cleared, Screen
<1>5. Tidy(screen) /\ Stands(screen, Prompt, Len(Prompt))
  BY <1>1, <1>4, LineTidy
<1>6. buf = <<>> /\ start = Cursor(screen) /\ plain = TRUE
  BY DEF TerminalInit, Init
<1>7. Len(buf) = 0 /\ Len(Prompt) \in Nat
  BY <1>6, TextGlyphs
<1>8. PICK l \in Int : l = Cursor(screen) /\ l - 0 = l /\ l = start + 0
  BY <1>5, <1>6, CursorInside
<1>9. Ends(screen, Prompt, l) /\ Ends(screen, buf, l)
  BY <1>5, <1>7, <1>8 DEF Stands, Ends
<1> QED
  BY <1>5, <1>6, <1>7, <1>8, <1>9, TidyFits DEF ScreenInv

(* An answer and a prompt start afresh.                                     *)
LEMMA AnsweredScreen ==
    ASSUME NEW s, Fit(s), Answered(s), buf' = <<>>
    PROVE  ScreenInv'
<1>1. PICK u, t : u = Line(s, Reply) /\ t = Line(u, Prompt)
  OBVIOUS
<1>2. screen' = t /\ start' = Cursor(t) /\ plain' = TRUE
  BY <1>1 DEF Answered, Prompted
<1>3. Fit(u)
  BY <1>1, LineTidy, TidyFits
<1>4. Tidy(t) /\ Stands(t, Prompt, Len(Prompt))
  BY <1>1, <1>3, LineTidy
<1>5. Len(buf') = 0 /\ Len(Prompt) \in Nat
  BY TextGlyphs
<1>6. PICK l \in Int : l = Cursor(t) /\ l - 0 = l /\ l + 0 = l
  BY <1>4, CursorInside
<1>7. Ends(t, Prompt, l) /\ Ends(t, buf', l)
  BY <1>4, <1>5, <1>6 DEF Stands, Ends
<1>8. PICK b : b = buf' /\ Len(b) = 0 /\ Ends(t, b, l)
  BY <1>5, <1>7
<1>9. Fit(t)
  BY <1>4, TidyFits
<1>10. Cursor(t) = start' + Len(buf') /\ start' \in Int /\ Cursor(t) - Len(buf') = l
  BY <1>2, <1>5, <1>6
<1> QED
  BY <1>2, <1>4, <1>6, <1>7, <1>9, <1>10 DEF ScreenInv

(* A key that goes into the line, or takes its last character back.         *)
LEMMA EchoScreen ==
    ASSUME TypeInv, ScreenInv, Echo, key # "RETURN", buf' = Edited
    PROVE  ScreenInv'
<1>1. PICK c \in Characters : c = kkeyboard_key_to_ascii(key) /\ c.key \in InTable
  BY CharacterOf DEF TypeInv
<1>2. c.key \notin {"BACK", "TAB", "CR", "NEWLINE"} /\ (Shown(c) \/ c.key \in Invisible)
  BY <1>1 DEF InTable, Letters, Shifts, Shown
<1> PICK s : s = screen
  OBVIOUS
<1>3. PICK line \in Seq(Characters) : line = buf
  BY DEF TypeInv
<1>4. Fit(s) /\ plain \in BOOLEAN
  BY <1>3 DEF ScreenInv
<1>5. Len(Prompt) \in Nat
  BY TextGlyphs
<1>6. PICK st : st = start
  OBVIOUS
<1>7. plain => /\ Tidy(s) /\ Cursor(s) = st + Len(line) /\ st \in Int
               /\ Ends(s, line, Cursor(s)) /\ Ends(s, Prompt, Cursor(s) - Len(line))
  BY <1>3, <1>6 DEF ScreenInv
<1>8. CASE key # "BACKSPACE"
  <2>1. PICK t, grown : t = kernelPutc(s, c) /\ grown = Append(line, c)
    OBVIOUS
  <2>2. /\ screen' = t /\ buf' = grown /\ plain' = (plain /\ Shown(c))
        /\ start' = IF Shown(c) THEN st - (Cursor(s) + 1 - Cursor(t)) ELSE st
    BY <1>1, <1>3, <1>6, <1>8, <2>1 DEF Echo, Edited
  <2>3. Fit(t)
    <3>1. c \in Glyphs /\ c.key # "BACK"
      BY <1>2 DEF Glyphs
    <3> QED
      BY <1>2, <1>4, <2>1, <3>1, EchoFits
  <2>4. ASSUME plain, Shown(c)
        PROVE  /\ Tidy(t) /\ Ends(t, grown, Cursor(t)) /\ Ends(t, Prompt, Cursor(t) - Len(grown))
               /\ Len(grown) = Len(line) + 1 /\ Cursor(t) \in Int
    <3>1. c.key # "BACK"
      BY <1>2
    <3>2. /\ Tidy(s) /\ Ends(s, line, Cursor(s))
          /\ Ends(s, Prompt, Cursor(s) - Len(line))
      BY <1>7, <2>4
    <3>3. Grows(grown, line, c)
      BY <2>1 DEF Grows
    <3>4. t = kernelPutc(s, c)
      BY <2>1
    <3> QED
      BY <1>5, <2>4, <3>1, <3>2, <3>3, <3>4, EchoKeeps
  <2>5. ASSUME plain, Shown(c)
        PROVE  Cursor(t) = start' + Len(grown) /\ start' \in Int
    <3>1. PICK n \in Nat, p \in Int, q \in Int :
             n = Len(line) /\ p = st /\ q = Cursor(t) /\ Cursor(s) = p + n
      BY <1>7, <2>4, <2>5
    <3>2. start' = p - ((p + n) + 1 - q) /\ Len(grown) = n + 1
      BY <2>2, <2>4, <2>5, <3>1
    <3> QED
      BY <3>1, <3>2
  <2>6. plain' \in BOOLEAN /\ (plain' => plain /\ Shown(c))
    BY <1>4, <2>2
  <2> QED
    BY <2>2, <2>3, <2>4, <2>5, <2>6 DEF ScreenInv
<1>9. CASE key = "BACKSPACE" /\ line = <<>>
  <2>1. screen' = screen /\ start' = start /\ buf' = buf /\ (plain' = plain)
    BY <1>3, <1>4, <1>9 DEF Echo, Edited
  <2> QED
    BY <2>1 DEF ScreenInv
<1>10. CASE key = "BACKSPACE" /\ line # <<>>
  <2>1. PICK t, less : t = TakenBack(s) /\ less = Front(line)
    OBVIOUS
  <2>2. /\ screen' = t /\ buf' = less /\ start' = st
        /\ plain' \in BOOLEAN /\ (plain' => plain /\ s.x > 0)
    BY <1>3, <1>4, <1>6, <1>10, <2>1 DEF Echo, Edited
  <2>3. Fit(t)
    BY <1>4, <2>1, BackFits
  <2>4. ASSUME plain, s.x > 0
        PROVE  /\ Tidy(t) /\ Ends(t, less, Cursor(t)) /\ Ends(t, Prompt, Cursor(t) - Len(less))
               /\ Len(less) = Len(line) - 1 /\ Cursor(t) = Cursor(s) - 1
    BY <1>5, <1>7, <1>10, <2>1, <2>4, BackKeeps
  <2>5. ASSUME plain, s.x > 0
        PROVE  Cursor(t) = st + Len(less) /\ st \in Int
    <3>1. PICK n \in Nat, p \in Int : n = Len(line) /\ p = st /\ Cursor(s) = p + n
      BY <1>7, <2>5
    <3> QED
      BY <2>4, <2>5, <3>1
  <2> QED
    BY <2>2, <2>3, <2>4, <2>5 DEF ScreenInv
<1> QED
  BY <1>8, <1>9, <1>10

LEMMA NextScreen ==
    ASSUME TypeInv, ScreenInv, [TerminalNext]_terminalVars
    PROVE  ScreenInv'
<1>1. ASSUME UNCHANGED <<buf, screen, start, plain>> PROVE ScreenInv'
  BY <1>1 DEF ScreenInv
<1>2. CASE UNCHANGED terminalVars
  BY <1>1, <1>2 DEF terminalVars, vars
<1>3. CASE TypistUnseen \/ IrqUnseen
  BY <1>1, <1>3 DEF TypistUnseen, IrqUnseen, PressKey, ReleaseKey, Irq, shellVars
<1>4. CASE (getch_poll \/ getch_discard \/ sleep) /\ UNCHANGED <<screen, start, plain>>
  BY <1>1, <1>4 DEF getch_poll, getch_discard, sleep
<1>5. CASE get_cmd_shown
  <2>1. Fit(screen)
    BY DEF ScreenInv
  <2>2. CASE key = "RETURN"
    <3>1. Answered(screen) /\ buf' = <<>>
      BY <1>5, <2>2 DEF get_cmd_shown, get_cmd
    <3> QED
      BY <2>1, <3>1, AnsweredScreen
  <2>3. CASE key # "RETURN" /\ Len(Edited) = LineSize
    <3>1. PICK c \in Glyphs : c = kkeyboard_key_to_ascii(key) /\ c.key \in InTable
      BY CharacterOf DEF TypeInv, Glyphs
    <3> PICK s : s = kernelPutc(screen, c)
      OBVIOUS
    <3>2. c.key # "BACK" /\ (Shown(c) \/ c.key \in Invisible)
      BY <3>1 DEF InTable, Letters, Shifts, Shown
    <3>3. Fit(s)
      BY <2>1, <3>1, <3>2, EchoFits
    <3>4. Answered(s) /\ buf' = <<>>
      BY <1>5, <2>3, <3>1 DEF get_cmd_shown, get_cmd, Kept
    <3> QED
      BY <3>3, <3>4, AnsweredScreen
  <2>4. CASE key # "RETURN" /\ Len(Edited) # LineSize
    <3>1. Echo /\ buf' = Edited
      BY <1>5, <2>4 DEF get_cmd_shown, get_cmd, Kept
    <3> QED
      BY <2>4, <3>1, EchoScreen
  <2> QED
    BY <2>2, <2>3, <2>4
<1> QED
  BY <1>2, <1>3, <1>4, <1>5 DEF TerminalNext, ShellShown

(* A console with a screen does what the console alone does: what holds of  *)
(* the console holds of it.                                                 *)
THEOREM TerminalIsConsole == TerminalSpec => Spec
<1>1. TerminalInit => Init
  BY DEF TerminalInit
<1>2. [TerminalNext]_terminalVars => [Next]_vars
  BY DEF TerminalNext, TypistUnseen, IrqUnseen, ShellShown, get_cmd_shown, Next, Shell, Irq,
     terminalVars
<1> QED
  BY <1>1, <1>2, PTL DEF TerminalSpec, Spec

(* The screen shows the prompt and the line that will be the command, with  *)
(* the cursor behind it and blanks to the end of the screen, for every size *)
(* of the screen, every prompt that fits into a row and every line.         *)
THEOREM ScreenIsHonest == TerminalSpec => []ScreenShowsLine
<1>1. TerminalInit => TypeInv /\ ScreenInv
  BY InitTypeInv, InitScreen DEF TerminalInit
<1>2. TypeInv /\ ScreenInv /\ [TerminalNext]_terminalVars => TypeInv' /\ ScreenInv'
  <2>1. [TerminalNext]_terminalVars => [Next]_vars
    BY DEF TerminalNext, TypistUnseen, IrqUnseen, ShellShown, get_cmd_shown, Next, Shell, Irq,
       terminalVars
  <2> QED
    BY <2>1, NextTypeInv, NextScreen
<1>3. ASSUME TypeInv, ScreenInv PROVE ScreenShowsLine
  <2> SUFFICES ASSUME plain PROVE ScreenShowsLine
    BY DEF ScreenShowsLine
  <2>1. PICK l \in Int : l = Cursor(screen)
    BY <1>3, CursorInside DEF ScreenInv
  <2>2. Bare(screen.cells, l) /\ l = start + Len(buf)
        /\ Ends(screen, buf, l) /\ Ends(screen, Prompt, l - Len(buf))
    BY <1>3, <2>1 DEF ScreenInv, Tidy
  <2>3. PICK head \in Seq(Glyphs), line \in Seq(Glyphs) : head = Prompt /\ line = buf
    <3>1. Prompt \in Seq(Character) /\ buf \in Seq(Characters)
      BY <1>3, TerminalAssumption DEF TypeInv
    <3>2. Prompt \in Seq(Glyphs)
      BY <3>1 DEF Glyphs
    <3>3. buf \in Seq(Glyphs)
      BY <3>1 DEF Glyphs
    <3> QED
      BY <3>2, <3>3
  <2>4. PICK m \in Nat, n \in Nat : m = Len(head) /\ n = Len(line)
    OBVIOUS
  <2>5. PICK text : text = head \o line
    OBVIOUS
  <2>6. /\ text \in Seq(Glyphs) /\ Len(text) = m + n /\ DOMAIN text = 1 .. (m + n)
        /\ \A i \in 1 .. (m + n) : text[i] = IF i <= m THEN head[i] ELSE line[i - m]
    BY <2>4, <2>5, ConcatProperties
  <2>7. ASSUME NEW i \in 1 .. (m + n), l - (m + n) + i > 0
        PROVE  screen.cells[l - (m + n) + i] = text[i]
    <3>1. CASE i <= m
      <4>1. i \in 1 .. m /\ (l - n) - m + i = l - (m + n) + i
        BY <3>1
      <4>2. screen.cells[(l - n) - m + i] = head[i]
        BY <2>2, <2>3, <2>4, <2>7, <4>1 DEF Ends
      <4> QED
        BY <2>6, <3>1, <4>1, <4>2
    <3>2. CASE ~ (i <= m)
      <4>1. i - m \in 1 .. n /\ l - n + (i - m) = l - (m + n) + i
        BY <3>2
      <4>2. screen.cells[l - n + (i - m)] = line[i - m]
        BY <2>2, <2>3, <2>4, <2>7, <4>1 DEF Ends
      <4> QED
        BY <2>6, <3>2, <4>1, <4>2
    <3> QED
      BY <3>1, <3>2
  <2>8. Prompt \o buf = text
    BY <2>3, <2>5
  <2>9. \A i \in Cells : i > l => screen.cells[i] = Blank
    BY <2>2 DEF Bare
  <2> QED
    BY <2>1, <2>2, <2>6, <2>7, <2>8, <2>9 DEF ScreenShowsLine
<1> QED
  BY <1>1, <1>2, <1>3, PTL DEF TerminalSpec
=============================================================================
