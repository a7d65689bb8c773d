------------------------------ MODULE Terminal ------------------------------
(***************************************************************************)
(* The line editor of module Console with its echo: get_cmd prints each    *)
(* character, takes it back on backspace, and the shell prints an answer   *)
(* and a prompt between two lines.                                         *)
(***************************************************************************)
EXTENDS Console, Display

CONSTANTS
    Prompt,   \* the text of cmd() behind its newline
    Reply     \* what a command prints, behind a newline: `Unknown command'

ASSUME TerminalAssumption ==
    \A text \in {Prompt, Reply} :
        /\ text \in Seq(Character) /\ Len(text) \in 1 .. (Columns - 1)
        /\ \A i \in DOMAIN text : Shown(text[i]) /\ text[i].key # "BACK"

VARIABLES
    screen,
    start,    \* history: where the line starts, counted along with scrolling
    plain     \* history: every key of the line showed one character, and no
              \* backspace went back over the beginning of a row

terminalVars == <<vars, screen, start, plain>>

Line(s, text) == kernelPuts(kernelPutc(s, Char("NEWLINE")), text)

(* cmd() *)
Prompted(s) ==
    /\ screen' = Line(s, Prompt)
    /\ start' = Cursor(Line(s, Prompt))
    /\ plain' = TRUE

TerminalInit ==
    /\ Init
    /\ \E y \in 0 .. (Rows - 1) : screen = Line(Cleared(0, y), Prompt)
    /\ start = Cursor(screen) /\ plain = TRUE

(* Variant: the cursor stays behind the blank. *)
TakenBack_stays(s) ==
    IF s.x > 0 THEN kernelPutc(kernelGotoXY(s, s.x - 1, s.y), Blank)
    ELSE kernelGotoXY(kernelPutc(s, Blank), Columns, s.y - 1)

(* Backspace: one column back, a blank, and back again.  At the beginning   *)
(* of a row the blank goes where the cursor is, and the cursor behind the   *)
(* end of the row above.                                                    *)
TakenBack(s) ==
    IF s.x > 0 THEN kernelGotoXY(kernelPutc(kernelGotoXY(s, s.x - 1, s.y), Blank),
                                 s.x - 1, s.y)
    ELSE kernelGotoXY(kernelPutc(s, Blank), Columns, s.y - 1)

(* The line goes on: the key takes a character back or is echoed. *)
Echo ==
    LET c == kkeyboard_key_to_ascii(key)
    IN  IF key = "BACKSPACE"
        THEN /\ screen' = IF buf = <<>> THEN screen ELSE TakenBack(screen)
             /\ plain' = (plain /\ (buf = <<>> \/ screen.x > 0))
             /\ UNCHANGED start
        ELSE /\ screen' = kernelPutc(screen, c)
             /\ plain' = (plain /\ Shown(c))
             /\ start' = IF Shown(c) THEN start - (Cursor(screen) + 1 - Cursor(screen'))
                         ELSE start

(* run_cmd answers a line that ended, and cmd() asks for the next one. *)
Answered(s) == Prompted(Line(s, Reply))

get_cmd_shown ==
    /\ get_cmd
    /\ CASE key = "RETURN" -> Answered(screen)
         [] key # "RETURN" /\ Len(Edited) = LineSize ->
               Answered(kernelPutc(screen, kkeyboard_key_to_ascii(key)))
         [] OTHER -> Echo

IrqUnseen == Irq /\ UNCHANGED <<screen, start, plain>>

ShellShown ==
    \/ get_cmd_shown
    \/ (getch_poll \/ getch_discard \/ sleep) /\ UNCHANGED <<screen, start, plain>>

TypistUnseen == (PressKey \/ ReleaseKey) /\ UNCHANGED <<screen, start, plain>>

TerminalNext == TypistUnseen \/ IrqUnseen \/ ShellShown

(* Fair as the console is: the screen holds nobody up. *)
TerminalSpec ==
    /\ TerminalInit /\ [][TerminalNext]_terminalVars
    /\ WF_vars(Irq) /\ WF_vars(Shell)

-----------------------------------------------------------------------------
(* Properties *)

(* What is on the screen is what the command will be: behind the prompt     *)
(* stands the line, then the cursor, then blanks to the end of the screen,  *)
(* whatever was typed and taken back and however the line wrapped and the   *)
(* screen scrolled.  A backspace over the beginning of a row breaks this    *)
(* for the rest of the line, as do keys without a visible character.        *)
ScreenShowsLine ==
    plain =>
        LET text == Prompt \o buf
            place(i) == Cursor(screen) - Len(text) + i    \* if it is on the screen still
        IN  /\ Cursor(screen) = start + Len(buf)
            /\ \A i \in DOMAIN text : place(i) > 0 => screen.cells[place(i)] = text[i]
            /\ \A i \in Cells : i > Cursor(screen) => screen.cells[i] = Blank
=============================================================================
