----------------------------- MODULE MCConsole -----------------------------
(* A typist with a letter, both shift keys, control, the caps lock and the   *)
(* backspace, or one with a shift, control and alt key; lines of three       *)
(* characters.                                                               *)
EXTENDS Console

MCAllKeys == {"A", "LSHIFT", "RSHIFT", "LCTRL", "CAPSLOCK", "BACKSPACE"}
MCAltKeys == {"A", "LSHIFT", "LCTRL", "LALT"}
MCOutOfTable == {"UNKNOWN", "LSHIFT", "B"}
=============================================================================
