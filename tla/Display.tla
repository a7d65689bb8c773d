------------------------------- MODULE Display -------------------------------
(***************************************************************************)
(* The text screen of Kernel/KernelDisplay.c: the video memory, cells, and *)
(* the position of the cursor.  Colours are left out.  A character is what *)
(* kkeyboard_key_to_ascii makes of a key, or Char of a name.               *)
(*                                                                         *)
(* The code counts rows without a sign: what is above the screen here, a   *)
(* negative y, is far below it there.                                      *)
(***************************************************************************)
EXTENDS Integers, Sequences

CONSTANTS Columns, Rows    \* 80, 25

ASSUME DisplayAssumption == Columns \in Nat \ {0} /\ Rows \in Nat \ {0}

Char(name) == [key |-> name, upper |-> FALSE]
Blank == Char("SPACE")

(* Characters below the space that kernelPutc has no case for: the low      *)
(* bytes 1 to 6 of these keys.                                              *)
Invisible == {"CAPSLOCK", "LSHIFT", "LCTRL", "LALT", "RSHIFT"}
Shown(c) == c.key \notin Invisible \cup {"TAB", "CR", "NEWLINE"}

Character == [key : STRING, upper : BOOLEAN]
Cells == 1 .. (Rows * Columns)

(* After kernelClrScr and kernelGotoXY: video memory, and the cursor. *)
Cleared(x, y) == [cells |-> [i \in Cells |-> Blank], x |-> x, y |-> y]

Cursor(s) == s.y * Columns + s.x

(* Variant: the last row keeps what it showed. *)
scroll_uncleared(s) ==
    IF s.y \in 0 .. (Rows - 1) THEN s
    ELSE [cells |-> [i \in Cells |-> IF i + Columns \in Cells THEN s.cells[i + Columns]
                                     ELSE s.cells[i]],
          x |-> s.x, y |-> Rows - 1]

scroll(s) ==
    IF s.y \in 0 .. (Rows - 1) THEN s
    ELSE [cells |-> [i \in Cells |-> IF i + Columns \in Cells THEN s.cells[i + Columns]
                                     ELSE Blank],
          x |-> s.x, y |-> Rows - 1]

(* The position is taken unless the one before is off the screen. *)
kernelGotoXY(s, x, y) ==
    [cells |-> s.cells, x |-> IF s.x <= Columns THEN x ELSE s.x,
     y |-> IF s.y \in 0 .. Rows THEN y ELSE s.y]

Moved(s, c) ==
    CASE c.key = "BACK" /\ s.x > 0 -> [s EXCEPT !.x = @ - 1]
      [] c.key = "TAB" -> [s EXCEPT !.x = ((@ + 8) \div 8) * 8]
      [] c.key = "CR" -> [s EXCEPT !.x = 0]
      [] c.key = "NEWLINE" -> [s EXCEPT !.x = 0, !.y = @ + 1]
      [] OTHER -> s

(* Off the screen the character goes into the memory around it. *)
Put(s, c) ==
    IF ~ Shown(c) THEN s
    ELSE [s EXCEPT !.cells = IF Cursor(s) + 1 \in Cells THEN [@ EXCEPT ![Cursor(s) + 1] = c]
                             ELSE @,
                   !.x = @ + 1]

Wrapped(s) == IF s.x >= Columns THEN [s EXCEPT !.x = 0, !.y = @ + 1] ELSE s

kernelPutc(s, c) == scroll(Wrapped(Put(Moved(s, c), c)))

(* The screen after each character of the text. *)
kernelPuts(s, str) ==
    LET after[i \in 0 .. Len(str)] == IF i = 0 THEN s ELSE kernelPutc(after[i - 1], str[i])
    IN  after[Len(str)]
=============================================================================
