----------------------------- MODULE PrintFormat -----------------------------
(***************************************************************************)
(* The welcome program's print functions (print.c), from what they are     *)
(* called with to the characters they send.  A character is its code; a    *)
(* string is the sequence of its characters.  INT_MIN is no argument of    *)
(* %d: its negation overflows.                                             *)
(***************************************************************************)
EXTENDS Integers, SequencesExt

\* The codes of '%', '-', '0' and of the letters of the specifiers
Percent == 37
Minus   == 45
Digit0  == 48
Code(c) == CASE c = "c" -> 99 [] c = "d" -> 100 [] c = "p" -> 112
             [] c = "s" -> 115 [] c = "x" -> 120
IsDigit(ch) == ch \in Digit0 .. Digit0 + 9
HexChar(n) == IF n < 10 THEN Digit0 + n ELSE 97 + n - 10

\* Digits of n, the last one first; none for 0
LastFirst(n, base) ==
    LET d[m \in Nat] == IF m = 0 THEN <<>> ELSE <<m % base>> \o d[m \div base]
    IN  d[n]

Zeros(n) == [k \in 1 .. n |-> 0]

\* Both conversions: digits, zeros up to the width, the sign, all reversed
Padded(n, base, min_len) ==
    LET digits == IF n = 0 THEN <<0>> ELSE LastFirst(n, base)
    IN  digits \o Zeros(Max({0, min_len - Len(digits)}))

my_itoa(n, min_len) ==
    LET s == Padded(IF n < 0 THEN -n ELSE n, 10, min_len)
    IN  Reverse([k \in 1 .. Len(s) |-> Digit0 + s[k]]
                \o (IF n < 0 THEN <<Minus>> ELSE <<>>))

my_uitoa_hex(n, min_len) ==
    LET s == Padded(n, 16, min_len) IN Reverse([k \in 1 .. Len(s) |-> HexChar(s[k])])

\* The width behind a '%' at i, and where the specifier is
Specifier(format, i) ==
    LET first == IF format[i + 1] = Digit0 THEN i + 2 ELSE i + 1
        at    == CHOOSE k \in first .. Len(format) :
                    /\ ~IsDigit(format[k])
                    /\ \A j \in first .. k - 1 : IsDigit(format[j])
    IN  [at |-> at,
         min_len |-> FoldLeft(LAMBDA w, ch : 10 * w + (ch - Digit0), 0,
                              SubSeq(format, first, at - 1))]

\* What a specifier sends for its argument
Conversion(ch, min_len, arg) ==
    CASE ch = Code("d") -> my_itoa(arg, min_len)
      [] ch = Code("x") -> my_uitoa_hex(arg, min_len)
      [] ch = Code("p") -> <<Digit0, Code("x")>> \o my_uitoa_hex(arg, 16)
      [] ch = Code("c") -> <<arg>>
      [] ch = Code("s") -> arg

Converts(ch) == \E c \in {"c", "d", "p", "s", "x"} : ch = Code(c)

\* One round of my_printf's loop, at position i with the arguments from a on:
\* what it sends and where it goes on.  An unknown specifier sends the rest of
\* the format, and the loop goes on in it.
Round(format, i, args, a) ==
    LET round(s, next, arg) == [text |-> s, i |-> next, a |-> arg]
    IN  IF format[i] # Percent THEN round(<<format[i]>>, i + 1, a)
        ELSE LET sp == Specifier(format, i)
                 ch == format[sp.at]
             IN  IF Converts(ch)
                 THEN round(Conversion(ch, sp.min_len, args[a]), sp.at + 1, a + 1)
                 ELSE round(<<Percent>> \o (IF ch = Percent THEN <<>>
                                            ELSE SubSeq(format, sp.at, Len(format))),
                            sp.at + 1, a)
=============================================================================
