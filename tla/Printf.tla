-------------------------------- MODULE Printf --------------------------------
(***************************************************************************)
(* The two small printf functions of the HAL, run one after the other on   *)
(* the same format and arguments: alt_log_private_printf (alt_log_printf.c)*)
(* and alt_printf (alt_printf.c), the latter with the buffer it writes     *)
(* through when the processor has no device (alt_putcharbuf.c).  A word    *)
(* has Bits bits, 32 in the code; a character is a string of one.          *)
(***************************************************************************)
EXTENDS Integers, Sequences, SequencesExt

CONSTANTS Bits,               \* a multiple of 4
          Inputs,             \* what is printed: sequences of parts, below
          Semihosting,        \* ALT_SEMIHOSTING
          ALT_PUTBUF_SIZE,
          ShortWrites         \* whether write() may take less than it is given

PrintfAssumption ==
  /\ Bits \in Nat /\ Bits > 0 /\ Bits % 4 = 0
  /\ ALT_PUTBUF_SIZE \in Nat \ {0}

VARIABLES input, log, alt, buf, stdout
vars == <<input, log, alt, buf, stdout>>

Decimal == <<"0", "1", "2", "3", "4", "5", "6", "7", "8", "9">>
Digit(d, upper) ==
  IF d <= 9 THEN Decimal[d + 1]
  ELSE (IF upper THEN <<"A", "B", "C", "D", "E", "F">>
        ELSE <<"a", "b", "c", "d", "e", "f">>)[d - 9]
IsDecimal(c) == c \in ToSet(Decimal)
Value(c) == SelectInSeq(Decimal, LAMBDA x : x = c) - 1

\* What is printed: the format, and the arguments of those that take one: a
\* number is the v of its part, a string or a character its s.
Format == FlattenSeq([i \in 1 .. Len(input) |-> input[i].text])
Arguments == SelectSeq(input, LAMBDA d : d.takes)

Init == /\ input \in Inputs
        /\ log = [w |-> 1, state |-> "chars", args |-> Arguments, out |-> <<>>]
        /\ alt = [w |-> 1, args |-> Arguments, pending |-> <<>>]
        /\ buf = <<>> /\ stdout = <<>>
LogOver == log.w > Len(Format)
C == Format[log.w]

\* Of alt_log_private_printf: the characters put out for a number.
Repeated(c, r) == [i \in 1 .. r |-> c]
RECURSIVE Place(_, _, _, _)
Place(vShrink, p, digitCount, base) ==
  IF vShrink \div base > 0
  THEN Place(vShrink \div base, (p * base) % 2 ^ Bits, digitCount + 1, base)
  ELSE [p |-> p, digitCount |-> digitCount]
RECURSIVE Digits(_, _, _)
Digits(v, p, f) ==
  IF p = 0 THEN <<>>
  ELSE <<Digit(v \div p, f.upper)>> \o Digits(v % p, p \div f.base, f)
NumberSignUncounted(arg, f) ==
  LET sign == f.signed /\ arg >= 2 ^ (Bits - 1)
      v == IF sign THEN (2 ^ Bits - arg) % 2 ^ Bits ELSE arg
      place == Place(v, 1, 1, f.base)
      pad == f.before - place.digitCount
      minus == IF sign THEN <<"-">> ELSE <<>>
  IN  (IF f.zero THEN minus \o Repeated("0", pad)
       ELSE Repeated(" ", pad) \o minus) \o Digits(v, place.p, f)
Number(arg, f) ==
  LET sign == f.signed /\ arg >= 2 ^ (Bits - 1)
      v == IF sign THEN (2 ^ Bits - arg) % 2 ^ Bits ELSE arg
      place == Place(v, 1, 1, f.base)
      pad == f.before - place.digitCount - (IF sign THEN 1 ELSE 0)
      minus == IF sign THEN <<"-">> ELSE <<>>
  IN  (IF f.zero THEN minus \o Repeated("0", pad)
       ELSE Repeated(" ", pad) \o minus) \o Digits(v, place.p, f)

\* Its three states.
Unformatted == [zero |-> FALSE, base |-> 10, signed |-> TRUE, upper |-> FALSE,
                before |-> -1, after |-> -1]
Advance(s) == [log EXCEPT !.w = @ + 1, !.state = s]
LogChars ==
  /\ ~ LogOver /\ log.state = "chars"
  /\ log' = IF C = "%" THEN [w |-> log.w + 1, state |-> "first", f |-> Unformatted,
                             args |-> log.args, out |-> log.out]
            ELSE [Advance("chars") EXCEPT !.out = Append(@, C)]
  /\ UNCHANGED <<input, alt, buf, stdout>>
LogFirst ==
  /\ ~ LogOver /\ log.state = "first"
  /\ log' = CASE C = "0" -> [Advance("other") EXCEPT !.f.zero = TRUE]
              [] C = "%" -> [Advance("chars") EXCEPT !.out = Append(@, "%")]
              [] OTHER -> [log EXCEPT !.state = "other"]
  /\ UNCHANGED <<input, alt, buf, stdout>>
LogWidth ==
  /\ ~ LogOver /\ log.state = "other" /\ (IsDecimal(C) \/ C \in {".", "l"})
  /\ log' = CASE C = "." -> [Advance("other") EXCEPT !.f.after = 0]
              [] C = "l" -> Advance("other")
              [] IsDecimal(C) /\ log.f.after >= 0 ->
                   [Advance("other") EXCEPT !.f.after = @ * 10 + Value(C)]
              [] OTHER ->
                   [Advance("other") EXCEPT !.f.before =
                      IF @ < 0 THEN Value(C) ELSE @ * 10 + Value(C)]
  /\ UNCHANGED <<input, alt, buf, stdout>>
Integer(c, f) == CASE c \in {"d", "i"} -> f
                   [] c = "u" -> [f EXCEPT !.signed = FALSE]
                   [] c = "o" -> [f EXCEPT !.signed = FALSE, !.base = 8]
                   [] c = "x" -> [f EXCEPT !.signed = FALSE, !.base = 16]
                   [] c = "X" -> [f EXCEPT !.signed = FALSE, !.base = 16, !.upper = TRUE]
LogLetter ==
  LET arg == Head(log.args)
      text == CASE C \in {"d", "i", "u", "o", "x", "X"} -> Number(arg.v, Integer(C, log.f))
                [] C = "c" -> Repeated(" ", log.f.before - 1) \o arg.s
                [] C = "s" -> Repeated(" ", log.f.before - Len(arg.s)) \o arg.s
      takes == C \in {"d", "i", "u", "o", "x", "X", "c", "s"}
  IN  /\ ~ LogOver /\ log.state = "other" /\ ~ (IsDecimal(C) \/ C \in {".", "l"})
      /\ log' = IF takes THEN [Advance("chars") EXCEPT !.args = Tail(@), !.out = @ \o text]
                ELSE Advance("chars")
      /\ UNCHANGED <<input, alt, buf, stdout>>

\* Of alt_printf: the digits of %x.
RECURSIVE FirstShift(_, _)
FirstShift(v, digit_shift) ==
  IF (v \div 2 ^ digit_shift) % 16 # 0 THEN digit_shift
  ELSE FirstShift(v, digit_shift - 4)
Hex(v) ==
  LET first == FirstShift(v, Bits - 4) \div 4
  IN  IF v = 0 THEN <<"0">>
      ELSE [i \in 1 .. first + 1 |-> Digit((v \div 2 ^ (4 * (first + 1 - i))) % 16, FALSE)]
AltOver == alt.w > Len(Format)
A == Format[alt.w]
AltChar ==
  /\ LogOver /\ ~ AltOver /\ alt.pending = <<>> /\ A # "%"
  /\ alt' = [alt EXCEPT !.w = @ + 1, !.pending = <<A>>]
  /\ UNCHANGED <<input, log, buf, stdout>>
AltFormat ==
  LET c == Format[alt.w + 1]
      arg == Head(alt.args)
      text == CASE c = "%" -> <<"%">>
                [] c = "c" -> arg.s
                [] c = "x" -> Hex(arg.v)
                [] c = "s" -> arg.s
                [] OTHER -> <<>>
  IN  /\ LogOver /\ ~ AltOver /\ alt.pending = <<>> /\ A = "%" /\ alt.w < Len(Format)
      /\ alt' = [w |-> alt.w + 2, pending |-> text,
                 args |-> IF c \in {"c", "x", "s"} THEN Tail(alt.args) ELSE alt.args]
      /\ UNCHANGED <<input, log, buf, stdout>>
AltBreak == \* a % with nothing after it
  /\ LogOver /\ alt.pending = <<>> /\ alt.w = Len(Format) /\ A = "%"
  /\ alt' = [alt EXCEPT !.w = @ + 1]
  /\ UNCHANGED <<input, log, buf, stdout>>

\* alt_putchar, or else alt_putcharbuf and alt_putbufflush of what is in the buffer.
Flush(b) == \E n \in IF ShortWrites THEN 0 .. Len(b) ELSE {Len(b)} :
              /\ stdout' = stdout \o SubSeq(b, 1, n)
              /\ buf' = <<>>
alt_putchar(c) == stdout' = Append(stdout, c) /\ UNCHANGED buf
AltPut ==
  LET filled == Append(buf, Head(alt.pending))
  IN  /\ alt.pending # <<>>
      /\ alt' = [alt EXCEPT !.pending = Tail(@)]
      /\ IF ~ Semihosting THEN alt_putchar(Head(alt.pending))
         ELSE IF Len(filled) >= ALT_PUTBUF_SIZE THEN Flush(filled)
         ELSE buf' = filled /\ UNCHANGED stdout
      /\ UNCHANGED <<input, log>>
AltFlush == /\ LogOver /\ AltOver /\ alt.pending = <<>> /\ buf # <<>>
            /\ Flush(buf)
            /\ UNCHANGED <<input, log, alt>>
Over == LogOver /\ AltOver /\ alt.pending = <<>> /\ buf = <<>>
Return == Over /\ UNCHANGED vars

Next == \/ LogChars \/ LogFirst \/ LogWidth \/ LogLetter
        \/ AltChar \/ AltFormat \/ AltBreak \/ AltPut \/ AltFlush \/ Return
Spec == Init /\ [][Next]_vars
-----------------------------------------------------------------------------
TypeOK == /\ log.state \in {"chars", "first", "other"}
          /\ log.w \in 1 .. Len(Format) + 1 /\ alt.w \in 1 .. Len(Format) + 1
          /\ Len(buf) < ALT_PUTBUF_SIZE

\* What a conversion is to print, by its text's flags: the numeral of the
\* value in its base without leading zeros, behind its sign, filled up to the
\* width on the left.
Least(P(_), n) == CHOOSE k \in 1 .. n : P(k) /\ \A j \in 1 .. k - 1 : ~ P(j)
Numeral(v, base, upper) ==
  LET Fits(n) == v < base ^ n
      n == Least(Fits, Bits)
  IN  [i \in 1 .. n |-> Digit((v \div base ^ (n - i)) % base, upper)]
Filled(seq, width) == Repeated(" ", width - Len(seq)) \o seq
NumberOf(d) ==
  LET c == Last(d.text)
      base == CASE c \in {"d", "i", "u"} -> 10 [] c = "o" -> 8 [] OTHER -> 16
      negative == c \in {"d", "i"} /\ d.v >= 2 ^ (Bits - 1)
      minus == IF negative THEN <<"-">> ELSE <<>>
      numeral == Numeral(IF negative THEN 2 ^ Bits - d.v ELSE d.v, base, c = "X")
  IN  IF d.zero
      THEN minus \o Repeated("0", d.width - Len(minus) - Len(numeral)) \o numeral
      ELSE Filled(minus \o numeral, d.width)
Meaning(d) == CASE d.text[1] # "%" -> d.text
                [] d.text = <<"%">> -> <<>>
                [] d.text = <<"%", "%">> -> <<"%">>
                [] Last(d.text) \in {"c", "s"} -> Filled(d.s, d.width)
                [] OTHER -> NumberOf(d)

\* alt_log_private_printf prints each of a format's parts as it is meant, at
\* the limits of its words too, and takes each argument for its own part.
PrintsAsMeant == LogOver =>
  /\ log.out = FlattenSeq([i \in 1 .. Len(input) |-> Meaning(input[i])])
  /\ log.args = <<>>

\* On formats with nothing but what alt_printf supports (alt_printf.c:35) the
\* two functions print the same, through the buffer too.
Supported == {<<"%", "x">>, <<"%", "s">>, <<"%", "c">>, <<"%", "%">>}
BothAgree ==
  Over /\ (\A i \in 1 .. Len(input) :
             input[i].text \in Supported \/ input[i].text[1] # "%")
    => stdout = log.out

\* alt_putcharbuf.c:70 says of alt_putbufflush: "Dumps all the chars in the
\* buffer to STDOUT".
DumpsAll == [][buf # <<>> /\ buf' = <<>> =>
                 Len(stdout') >= Len(stdout) + Len(buf)]_vars
=============================================================================
