------------------------------ MODULE Formatter ------------------------------
(***************************************************************************)
(* The two printf functions of the HAL, which share nothing but their      *)
(* purpose: alt_printf, for programs, and alt_log_private_printf, for the  *)
(* debug log, a scanner with three states.  Characters are strings of      *)
(* length one; an argument is a machine word, which a conversion takes as  *)
(* a number, a character or a pointer.                                     *)
(***************************************************************************)
EXTENDS Integers, Sequences

CONSTANTS
  Digits,     \* hexadecimal digits in a machine word (8)
  Char,       \* [word -> character], what %c prints
  Text        \* [word -> sequence of characters], what %s prints

Word == 16 ^ Digits
HEX == <<"0", "1", "2", "3", "4", "5", "6", "7", "8", "9", "a", "b", "c", "d", "e", "f">>
Hex(d) == HEX[d + 1]
Decimal == {HEX[i] : i \in 1 .. 10}
Number(c) == (CHOOSE i \in 1 .. 10 : HEX[i] = c) - 1

ASSUME FormatterAssumption ==
  /\ Digits \in Nat \ {0}
  /\ Char \in [0 .. Word - 1 -> STRING]
  /\ DOMAIN Text = 0 .. Word - 1 /\ \A v \in 0 .. Word - 1 : Text[v] \in Seq(STRING)

(* What powers are; the provers know of ^ only what is said of it.         *)
ASSUME RadixAssumption ==
  \A base \in {8, 10, 16}, n \in 0 .. 2 * Digits - 1 :
    base ^ n \in Nat \ {0} /\ base ^ (n + 1) = base * base ^ n

Blank == " "
Repeat(c, n) == [i \in 1 .. (IF n > 0 THEN n ELSE 0) |-> c]     \* alt_log_repchar

-----------------------------------------------------------------------------
(* alt_printf's %x: the first digit that is not zero is looked for from    *)
(* the top, then all from there are printed; zero has no such digit.       *)
(* (Mutant: it is looked for below the top.)                               *)
Digit(v, k) == (v \div 16 ^ k) % 16

HexDigits(v, top) ==
  LET first == CHOOSE k \in 0 .. top : Digit(v, k) # 0 /\ \A j \in k + 1 .. top : Digit(v, j) = 0
  IN  [i \in 1 .. first + 1 |-> Hex(Digit(v, first + 1 - i))]

PrintHexShort(v) == IF v % 16 ^ (Digits - 1) = 0 THEN <<"0">> ELSE HexDigits(v, Digits - 2)
PrintHex(v) == IF v = 0 THEN <<"0">> ELSE HexDigits(v, Digits - 1)

(* alt_printf: a conversion it does not know is swallowed, without its     *)
(* argument; a percent sign at the end ends it.                            *)
Piece(c, v) == CASE c = "%" -> <<"%">>
                 [] c = "c" -> <<Char[v]>>
                 [] c = "x" -> PrintHex(v)
                 [] c = "s" -> Text[v]
                 [] OTHER   -> <<>>
Takes(c) == IF c \in {"c", "x", "s"} THEN 1 ELSE 0

FmtChar(s, c, args) ==
  IF ~s.escape
  THEN IF c = "%" THEN [s EXCEPT !.escape = TRUE] ELSE [s EXCEPT !.out = Append(@, c)]
  ELSE [escape |-> FALSE, out |-> s.out \o Piece(c, args[s.arg]), arg |-> s.arg + Takes(c)]

alt_printf(fmt, args) ==
  LET s[i \in 0 .. Len(fmt)] == IF i = 0 THEN [escape |-> FALSE, out |-> <<>>, arg |-> 1]
                                ELSE FmtChar(s[i - 1], fmt[i], args)
  IN  s[Len(fmt)].out

-----------------------------------------------------------------------------
(* alt_log_private_printf, label doIntegerPrint.  The loops count the      *)
(* digits and print them from the highest place value down.  A sign takes  *)
(* one of the places of the width, before leading zeros and behind leading *)
(* blanks.  (Mutant: the sign takes none.)                                 *)
Magnitude(v, signed) == IF signed /\ v >= Word \div 2 THEN Word - v ELSE v
Negative(v, signed) == signed /\ v >= Word \div 2

Places(v, base) == CHOOSE n \in 1 .. 2 * Digits : base ^ n > v /\ (n > 1 => base ^ (n - 1) <= v)
Numeral(v, base) ==
  LET n == Places(v, base) IN [i \in 1 .. n |-> Hex((v \div base ^ (n - i)) % base)]

PrintIntegerWide(v, f) ==
  LET m == Magnitude(v, f.signed)
      sign == IF Negative(v, f.signed) THEN <<"-">> ELSE <<>>
      pad == f.before - Places(m, f.base)
  IN  IF f.zero THEN sign \o Repeat("0", pad) \o Numeral(m, f.base)
      ELSE Repeat(Blank, pad) \o sign \o Numeral(m, f.base)

PrintInteger(v, f) ==
  LET m == Magnitude(v, f.signed)
      sign == IF Negative(v, f.signed) THEN <<"-">> ELSE <<>>
      pad == f.before - Places(m, f.base) - Len(sign)
  IN  IF f.zero THEN sign \o Repeat("0", pad) \o Numeral(m, f.base)
      ELSE Repeat(Blank, pad) \o sign \o Numeral(m, f.base)

(* The letter that ends a conversion.  Any other ends it too, and prints   *)
(* nothing.  (%X differs from %x in its capitals only and is left out.)    *)
Conversion(c, v, f) ==
  CASE c \in {"d", "i"} -> PrintInteger(v, f)
    [] c = "u" -> PrintInteger(v, [f EXCEPT !.signed = FALSE])
    [] c = "o" -> PrintInteger(v, [f EXCEPT !.signed = FALSE, !.base = 8])
    [] c = "x" -> PrintInteger(v, [f EXCEPT !.signed = FALSE, !.base = 16])
    [] c = "c" -> Append(Repeat(Blank, f.before - 1), Char[v])
    [] c = "s" -> Repeat(Blank, f.before - Len(Text[v])) \o Text[v]
    [] OTHER   -> <<>>
Consumes(c) == IF c \in {"d", "i", "u", "o", "x", "c", "s"} THEN 1 ELSE 0

Fresh == [zero |-> FALSE, signed |-> TRUE, base |-> 10, before |-> -1, after |-> -1]

(* One character of the format in the states pfState_otherFmtChar,         *)
(* pfState_firstFmtChar and pfState_chars.                                 *)
OtherFmtChar(s, c, args) ==
  LET f == s.f IN
  CASE c = "." -> [s EXCEPT !.f.after = 0]
    [] c = "l" -> s
    [] c \in Decimal /\ f.after < 0 ->
         [s EXCEPT !.f.before = (IF f.before < 0 THEN 0 ELSE 10 * f.before) + Number(c)]
    [] c \in Decimal /\ f.after >= 0 -> [s EXCEPT !.f.after = 10 * @ + Number(c)]
    [] OTHER -> [s EXCEPT !.state = "chars",
                          !.out = @ \o Conversion(c, args[s.arg], f),
                          !.arg = @ + Consumes(c)]

FirstFmtChar(s, c, args) ==
  LET t == [s EXCEPT !.state = "otherFmtChar"] IN
  CASE c = "0" -> [t EXCEPT !.f.zero = TRUE]
    [] c = "%" -> [s EXCEPT !.state = "chars", !.out = Append(@, c)]
    [] OTHER   -> OtherFmtChar(t, c, args)

Chars(s, c) ==
  IF c = "%" THEN [s EXCEPT !.state = "firstFmtChar", !.f = Fresh]
  ELSE [s EXCEPT !.out = Append(@, c)]

LogChar(s, c, args) == CASE s.state = "chars"        -> Chars(s, c)
                         [] s.state = "firstFmtChar" -> FirstFmtChar(s, c, args)
                         [] s.state = "otherFmtChar" -> OtherFmtChar(s, c, args)

alt_log_private_printf(fmt, args) ==
  LET s[i \in 0 .. Len(fmt)] ==
        IF i = 0 THEN [state |-> "chars", f |-> Fresh, out |-> <<>>, arg |-> 1]
        ELSE LogChar(s[i - 1], fmt[i], args)
  IN  s[Len(fmt)].out

-----------------------------------------------------------------------------
(* alt_log_write: the text that is echoed to the log.  The buffer holds    *)
(* echo + 2 characters; the last character of what is echoed makes way for *)
(* the end of the line.  (Mutant: the end is put behind it.)               *)
EchoBehind(text, echo) ==
  LET length == IF echo > Len(text) THEN Len(text) ELSE echo
  IN  IF length < 2 THEN <<>> ELSE SubSeq(text, 1, length) \o <<"\n", "\r", "NUL">>

Echo(text, echo) ==
  LET length == IF echo > Len(text) THEN Len(text) ELSE echo
      kept == [i \in 1 .. length - 1 |-> IF text[i] = "^D" THEN "D" ELSE text[i]]
  IN  IF length < 2 THEN <<>> ELSE kept \o <<"\n", "\r", "NUL">>
-----------------------------------------------------------------------------
(* What a numeral stands for, blanks and sign apart.                       *)
Value(out, base) ==
  LET read[i \in 0 .. Len(out)] ==
        IF i = 0 THEN 0
        ELSE IF out[i] \in {Blank, "-"} THEN read[i - 1]
        ELSE read[i - 1] * base + (CHOOSE d \in 0 .. 15 : Hex(d) = out[i])
  IN  read[Len(out)]

(* What the log prints for an integer reads back as that integer, for      *)
(* every conversion, with and without leading zeros, the smallest negative *)
(* number included; and it is as wide as the format asks, or as its digits *)
(* and sign need (alt_log_printf.c:127-297).                               *)
IntegerReadsBack(v, letter, zero, width) ==
  LET fmt == <<"%">> \o (IF zero THEN <<"0">> ELSE <<>>)
               \o (IF width > 0 THEN Numeral(width, 10) ELSE <<>>) \o <<letter>>
      out == alt_log_private_printf(fmt, <<v>>)
      base == CASE letter = "o" -> 8 [] letter = "x" -> 16 [] OTHER -> 10
      minus == letter = "d" /\ v >= Word \div 2
      magnitude == IF minus THEN Word - v ELSE v
      least == Len(Numeral(magnitude, base)) + (IF minus THEN 1 ELSE 0)
  IN  /\ Value(out, base) = magnitude
      /\ (\E i \in 1 .. Len(out) : out[i] = "-") <=> minus
      /\ Len(out) = IF width > least THEN width ELSE least

(* Formats both functions know all of. *)
Common(fmt) ==
  LET escape[i \in 0 .. Len(fmt)] == IF i = 0 THEN FALSE ELSE fmt[i] = "%" /\ ~escape[i - 1]
  IN  \A i \in 1 .. Len(fmt) : escape[i - 1] => fmt[i] \in {"%", "c", "x", "s"}

(* A format that both functions know all of prints the same through either *)
(* (alt_printf.c:49-127, alt_log_printf.c:114-341): literal text, escaped  *)
(* percent signs, the order in which arguments are taken, numbers without  *)
(* leading zeros, and a percent sign at the end.                           *)
PrintfsAgree(fmt, args) ==
  Common(fmt) => alt_printf(fmt, args) = alt_log_private_printf(fmt, args)

(* The echo of a write fits alt_log_write_buf[ALT_LOG_WRITE_ECHO_LEN + 2], *)
(* ends in NUL, and holds no Ctrl-D (alt_log_printf.c:440-462).            *)
EchoFits(text, echo) ==
  LET out == Echo(text, echo)
  IN  /\ Len(out) <= echo + 2
      /\ out # <<>> => out[Len(out)] = "NUL"
      /\ \A i \in 1 .. Len(out) : out[i] # "^D"
=============================================================================
