----------------------------- MODULE MCTerminal -----------------------------
(* A screen of three rows of two columns, a prompt of one: the second        *)
(* character of a line wraps, and every answer scrolls.                      *)
EXTENDS Terminal

MCKeys == {"A", "LSHIFT", "CAPSLOCK", "UNKNOWN", "RETURN", "BACKSPACE"}
MCHarmless == {"UNKNOWN"}
MCPrompt == <<Char("PROMPT")>>
MCReply == <<Char("ANSWER")>>
=============================================================================
