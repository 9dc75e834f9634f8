------------------------------- MODULE Scalars -------------------------------
(***************************************************************************)
(* Arithmetic and text of the values a compiled program computes with, as  *)
(* the processor and the C runtime define them: the reference meaning of   *)
(* the typed VIR and the machine that runs the native code share it.       *)
(*                                                                         *)
(* An int32 is an integer in -IntHalf .. IntHalf - 1 that wraps around     *)
(* (IntHalf stands for 2^31).  A floating-point number is counted in       *)
(* halves: n stands for n/2.  A string is a sequence of character codes.   *)
(***************************************************************************)
EXTENDS Integers, SequencesExt

CONSTANT IntHalf
ASSUME IntHalfAssumption == IntHalf \in Nat \ {0}

Wrap(n) == ((n + IntHalf) % (2 * IntHalf)) - IntHalf

Magnitude(n) == IF n < 0 THEN -n ELSE n

(* Division rounding toward zero.                                          *)
Quotient(a, b) ==
  LET q == Magnitude(a) \div Magnitude(b)
  IN  IF (a < 0) = (b < 0) THEN q ELSE -q

(* idiv raises an exception on a zero divisor and on a quotient that does  *)
(* not fit.                                                                *)
Divides(a, b) == b # 0 /\ Quotient(a, b) < IntHalf

FloatOp(op, a, b) ==
  CASE op = "+" -> a + b
    [] op = "-" -> a - b
    [] op = "*" -> (a * b) \div 2
    [] op = "/" -> Quotient(2 * a, b)

Truncated(h) == LET n == Quotient(h, 2) IN IF n \in -IntHalf .. IntHalf - 1 THEN n ELSE -IntHalf
Floored(h) == 2 * (h \div 2)
Ceiled(h) == 2 * ((h + 1) \div 2)
NearestEven(h) == IF h % 4 = 3 THEN h + 1 ELSE IF h % 4 = 1 THEN h - 1 ELSE h

-----------------------------------------------------------------------------
Zero == 48
Minus == 45
Dot == 46
TextTrue == <<116, 114, 117, 101>>
TextFalse == <<102, 97, 108, 115, 101>>

(* The decimal digits of a natural number.                                 *)
Digits(n) ==
  IF n < 10 THEN <<Zero + n>>
  ELSE IF n < 100 THEN <<Zero + n \div 10, Zero + (n % 10)>>
  ELSE <<Zero + n \div 100, Zero + ((n \div 10) % 10), Zero + (n % 10)>>

Signed(n, digits) == IF n < 0 THEN <<Minus>> \o digits ELSE digits

(* printf with %d, and with %.15g                                          *)
IntText(n) == Signed(n, Digits(Magnitude(n)))
FloatText(h) ==
  Signed(h, Digits(Magnitude(h) \div 2) \o
            (IF h % 2 = 1 THEN <<Dot, Zero + 5>> ELSE << >>))

IsDigit(c) == c \in Zero .. Zero + 9

(* The value of the longest run of digits that starts at position i.       *)
DigitsEnd(s, i) == Max({j \in i - 1 .. Len(s) : \A k \in i .. j : IsDigit(s[k])})
NaturalAt(s, i) ==
  FoldLeft(LAMBDA n, c : 10 * n + (c - Zero), 0, SubSeq(s, i, DigitsEnd(s, i)))

(* strtol in base 10, and strtod for numbers of halves.                    *)
Negative(s) == s # << >> /\ s[1] = Minus
NumberStart(s) == IF Negative(s) THEN 2 ELSE 1
ParsedInt(s) ==
  LET n == NaturalAt(s, NumberStart(s)) IN Wrap(IF Negative(s) THEN -n ELSE n)
ParsedFloat(s) ==
  LET i == NumberStart(s)
      dot == DigitsEnd(s, i) + 1
      half == dot < Len(s) /\ s[dot] = Dot /\ s[dot + 1] = Zero + 5
      h == 2 * NaturalAt(s, i) + (IF half THEN 1 ELSE 0)
  IN  IF Negative(s) THEN -h ELSE h
=============================================================================
