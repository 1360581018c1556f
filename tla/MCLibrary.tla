----------------------------- MODULE MCLibrary -----------------------------
(***************************************************************************)
(* What the library does for a program that reads, writes and prints: the  *)
(* table of open files (module Files) and the two printf functions.  They  *)
(* share no variable, so that a behaviour is one of one of them, chosen at *)
(* the start: the other stays as it is.                                    *)
(***************************************************************************)
EXTENDS Files, TLC

CONSTANTS null, uart, other, fs
VARIABLES part, input, log, alt, buf, stdout

printing == <<input, log, alt, buf, stdout>>
everything == <<vars, part, printing>>
Off(x) == x = 0

\* A JTAG UART, with the functions of its driver, a second device with a
\* driver for everything, and a file system mounted below /dev.
All == {null, uart, other, fs}
Mounted == {fs}
Names == (null :> <<"dev", "null">>) @@ (uart :> <<"dev", "jtag_uart_0">>)
           @@ (other :> <<"dev", "other">>) @@ (fs :> <<"dev">>)
Drivers == (null :> {"write"})
             @@ (uart :> JtagUartCan)
             @@ (other :> Functions) @@ (fs :> Functions)
Uart == Names[uart]
Other == Names[other]
Opens == {Uart, Other, <<"dev", "file">>, <<"none">>}
Writing == {"O_RDWR"}
NoFlags == {}

\* Words of 8 bits, and formats of two parts, the last of which may be a single
\* percent sign: every conversion, with and without a width, at the limits of
\* signed and unsigned words.
Limits == {0, 1, 7, 8, 9, 10, 15, 16, 99, 100, 127, 128, 129, 246, 255}
FormatPart(text, zero, width, takes, vs, ss) ==
  {[text |-> text, zero |-> zero, width |-> width, takes |-> takes, v |-> v, s |-> s] :
     v \in vs, s \in ss}
Verbatim(text) == FormatPart(text, FALSE, 0, FALSE, {0}, {<<>>})
Numeric(text, zero, width) == FormatPart(text, zero, width, TRUE, Limits, {<<>>})
Text(text, width, ss) == FormatPart(text, FALSE, width, TRUE, {0}, ss)
Parts ==
  UNION {Verbatim(<<"a">>), Verbatim(<<"%", "%">>),
         Text(<<"%", "c">>, 0, {<<"z">>}), Text(<<"%", "2", "c">>, 2, {<<"z">>}),
         Text(<<"%", "s">>, 0, {<<>>, <<"a", "b", "c">>}),
         Text(<<"%", "1", "0", "s">>, 10, {<<>>, <<"a", "b", "c">>}),
         Numeric(<<"%", "d">>, FALSE, 0), Numeric(<<"%", "0", "4", "d">>, TRUE, 4),
         Numeric(<<"%", "4", ".", "1", "i">>, FALSE, 4),
         Numeric(<<"%", "l", "u">>, FALSE, 0), Numeric(<<"%", "o">>, FALSE, 0),
         Numeric(<<"%", "x">>, FALSE, 0), Numeric(<<"%", "0", "2", "X">>, TRUE, 2)}
Formats == INSTANCE Printf WITH
           Bits <- 8, Inputs <- Parts \X (Parts \cup Verbatim(<<"%">>)),
           Semihosting <- TRUE, ALT_PUTBUF_SIZE <- 4, ShortWrites <- FALSE
ASSUME Formats!PrintfAssumption
-----------------------------------------------------------------------------
NoPrinting == Off(input) /\ Off(log) /\ Off(alt) /\ Off(buf) /\ Off(stdout)
MCInit == /\ Init
          /\ \/ part = "files" /\ NoPrinting
             \/ part = "printf" /\ Formats!Init
MCNext == /\ \/ part = "files" /\ Next /\ UNCHANGED printing
             \/ part = "printf" /\ Formats!Next /\ UNCHANGED vars
          /\ UNCHANGED part
MCSpec == MCInit /\ [][MCNext]_everything
-----------------------------------------------------------------------------
\* Both printf functions print what the format means.
PrintsRight == part = "printf" =>
                 Formats!TypeOK /\ Formats!PrintsAsMeant /\ Formats!BothAgree
=============================================================================
