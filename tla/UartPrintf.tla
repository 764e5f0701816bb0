----------------------------- MODULE UartPrintf -----------------------------
(***************************************************************************)
(* UART_Printf and USARTItoa (src/main/uart_usb.c), through which every    *)
(* line of the log goes (usb_log, inc/uart_usb.h:22).                      *)
(*                                                                         *)
(* A format is a sequence of characters and conversions.  A conversion has *)
(* its flag 0, the digits of its width, and its letter; an l before the    *)
(* letter changes nothing where int and long have the same width, and is   *)
(* left out.  In the output a digit is its value, and every other          *)
(* character, or the whole text of a %s, a negative number.                *)
(***************************************************************************)
EXTENDS Integers, Sequences, SequencesExt

CONSTANT Word   \* 2^32, the numbers a uint32_t can hold

ASSUME WordAssumption == Word \in Nat \ {0}

Sign == -1
Blank == -2
MaxField == 20   \* the size of s

\* The digits of v, lowest first, as the loop produces them.
Digits(v, radix) ==
    LET digits[n \in 0..v] == IF n < radix THEN <<n>> ELSE <<n % radix>> \o digits[n \div radix]
    IN  digits[v]

\* Mutant: the sign is lost.
USARTItoaUnsigned(val, radix, len) ==
    LET r == IF radix < 0 THEN -radix ELSE radix
        v == (IF val < 0 THEN -val ELSE val) % Word
        width == IF len < 0 THEN -len ELSE len
        s == Digits(v, r)
        padding == [x \in 1..(width - Len(s)) |-> IF len < 0 THEN 0 ELSE Blank]
    IN  IF width > MaxField THEN <<>> ELSE Reverse(s \o padding)

\* USARTItoa: a negative radix prints a sign, a negative length pads with 0.
USARTItoa(val, radix, len) ==
    LET negative == radix < 0 /\ val < 0
        r == IF radix < 0 THEN -radix ELSE radix
        v == (IF negative THEN -val ELSE val) % Word
        width == IF len < 0 THEN -len ELSE len
        s == Digits(v, r) \o (IF negative THEN <<Sign>> ELSE <<>>)
        padding == [x \in 1..(width - Len(s)) |-> IF len < 0 THEN 0 ELSE Blank]
    IN  IF width > MaxField THEN <<>> ELSE Reverse(s \o padding)

\* The letters of conversions; a z stands for those that are not known.
Conversions == {"s", "c", "d", "u", "x", "X", "z"}

\* The arguments are taken as an int.
Numbers == -(Word \div 2)..(Word \div 2 - 1)

Character(c) == [letter |-> "", char |-> c]
Conversion(zero, width, letter) == [letter |-> letter, zero |-> zero, width |-> width]

\* The width: w += w * 10 + d for every digit, so that two digits give 11
\* times the first and not 10 times.
Field(zero, digits) ==
    LET w[x \in 0..Len(digits)] == IF x = 0 THEN 0 ELSE w[x - 1] + w[x - 1] * 10 + digits[x]
    IN  IF zero THEN -w[Len(digits)] ELSE w[Len(digits)]

\* The radix of a letter; 0 ends the line.
Radix(letter) ==
    CASE letter = "u" -> 10
      [] letter = "d" -> -10
      [] letter \in {"x", "X"} -> 16
      [] letter = "b" -> 2
      [] OTHER -> 0

\* UART_Printf: what is written of each part of the format, and whether the
\* line ends there.  A number passed to %u or %x counts modulo Word.
UART_Printf(format, args) ==
    LET Put(s, part) ==
            IF s.ended THEN s
            ELSE IF part.letter = "" THEN [s EXCEPT !.out = Append(@, part.char)]
            ELSE IF part.letter \in {"s", "c"}
                 THEN [s EXCEPT !.out = Append(@, args[s.taken + 1]), !.taken = @ + 1]
            ELSE IF Radix(part.letter) = 0 THEN [s EXCEPT !.ended = TRUE]
            ELSE [s EXCEPT !.out = @ \o USARTItoa(args[s.taken + 1], Radix(part.letter),
                                                  Field(part.zero, part.width)),
                           !.taken = @ + 1]
        put[x \in 0..Len(format)] ==
            IF x = 0 THEN [out |-> <<>>, taken |-> 0, ended |-> FALSE] ELSE Put(put[x - 1], format[x])
    IN  put[Len(format)]
=============================================================================
