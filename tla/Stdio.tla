------------------------------- MODULE Stdio -------------------------------
(***************************************************************************)
(* atoi, that is strtol in base 10, of Lib/stdio.c.  A string is the       *)
(* sequence of its characters' codes.  A letter counts as a digit.         *)
(***************************************************************************)
EXTENDS Integers, Sequences, SequencesExt

isspace(c) == c = 32 \/ c \in 9 .. 13
isdigit(c) == c \in 48 .. 57
isupper(c) == c \in 65 .. 90
isalpha(c) == isupper(c) \/ c \in 97 .. 122

LONG_MAX == 2147483647
LONG_MIN == -2147483647 - 1

DigitOf(c) ==
    CASE isdigit(c) -> c - 48
      [] isupper(c) -> c - 55
      [] OTHER -> c - 87

(* The string from the first character that is not a space. *)
BehindSpaces(s) ==
    LET kept == { i \in DOMAIN s : ~ isspace(s[i]) }
    IN  IF kept = {} THEN <<>> ELSE SubSeq(s, Min(kept), Len(s))

Number(s) ==
    LET ends == { i \in DOMAIN s : ~ isdigit(s[i]) /\ ~ isalpha(s[i]) }
    IN  IF ends = {} THEN s ELSE SubSeq(s, 1, Min(ends) - 1)

(* The value with one more digit, -1 once it does not fit: cutoff and       *)
(* cutlim are the quotient and remainder of the largest value.              *)
Accumulate(acc, c, cutlim) ==
    IF acc < 0 \/ acc > 214748364 \/ (acc = 214748364 /\ DigitOf(c) > cutlim)
    THEN -1 ELSE acc * 10 + DigitOf(c)

Value(num, cutlim) ==
    LET acc[i \in 0 .. Len(num)] ==
            IF i = 0 THEN 0 ELSE Accumulate(acc[i - 1], num[i], cutlim)
    IN  acc[Len(num)]

strtol(nptr) ==
    LET s    == BehindSpaces(nptr)
        neg  == s # <<>> /\ s[1] = 45
        rest == IF s # <<>> /\ s[1] \in {43, 45} THEN Tail(s) ELSE s
        val  == Value(Number(rest), IF neg THEN 8 ELSE 7)
    IN  CASE val < 0 -> IF neg THEN LONG_MIN ELSE LONG_MAX
          [] neg -> - val
          [] OTHER -> val

atoi(str) == strtol(str)
=============================================================================
