------------------------------ MODULE Numbers ------------------------------
(***************************************************************************)
(* A number literal on its way through the compiler: the token, the value  *)
(* that parseFactor takes from it and the text that irPrintOperand and     *)
(* irPrintGlobal make of the value.                                        *)
(*                                                                         *)
(* The literal is typed in digit by digit, as the pattern of TOKEN_NUMBER  *)
(* allows.  A double is a number of Mantissa significant bits; the widths  *)
(* of int, long and double are parameters.  Numbers are counted in a unit  *)
(* of which every literal and every double that is met is a multiple.      *)
(***************************************************************************)
EXTENDS Integers, Sequences

CONSTANTS
  Digits,       \* the digits literals are made of
  MaxWhole,     \* bound: digits before the point
  MaxFraction,  \* bound: digits after it
  Decimals,     \* digits that %f prints after the point
  IntMax,       \* the largest number of an i32
  LongMax,      \* the largest number of a long
  Mantissa      \* the significant bits of a double

ASSUME DigitsAssumption == Digits \subseteq 0 .. 9
ASSUME BoundsAssumption == MaxWhole \in Nat /\ MaxFraction \in Nat
ASSUME FormatAssumption == Decimals \in 0 .. MaxFraction
ASSUME WidthsAssumption == IntMax \in Nat /\ LongMax \in Nat /\ IntMax < LongMax
ASSUME MantissaAssumption == Mantissa \in Nat \ {0}

VARIABLES
  whole,        \* the digits before the point
  point,        \* there is a point
  fraction      \* the digits after it

NoNumber == whole = <<>> /\ point = FALSE /\ fraction = <<>>

WholeDigit ==
  /\ ~point /\ Len(whole) < MaxWhole
  /\ \E d \in Digits : whole' = Append(whole, d)
  /\ UNCHANGED <<point, fraction>>

Point ==
  /\ ~point
  /\ point' = TRUE
  /\ UNCHANGED <<whole, fraction>>

FractionDigit ==
  /\ point /\ Len(fraction) < MaxFraction
  /\ \E d \in Digits : fraction' = Append(fraction, d)
  /\ UNCHANGED <<whole, point>>

NumberCharacter == WholeDigit \/ Point \/ FractionDigit

\* [0-9]*\.[0-9]+|[0-9]+
NumberToken == IF point THEN fraction # <<>> ELSE whole # <<>>

-----------------------------------------------------------------------------
(* parser.c *)

Abs(n) == IF n < 0 THEN -n ELSE n

\* The number that digits in a base stand for.
Number(ds, base) ==
  LET upto[i \in 0 .. Len(ds)] == IF i = 0 THEN 0 ELSE upto[i - 1] * base + ds[i]
  IN  upto[Len(ds)]

\* The place of the highest bit of a number.
HighestBit(n) == CHOOSE i \in 0 .. 30 : n \div 2 ^ i = 1

\* So many units are 1: the last decimal of a literal and the last bit of the
\* double of the smallest one are whole numbers of units.
Unit == 5 ^ MaxFraction * 2 ^ (HighestBit(10 ^ MaxFraction) + Mantissa)

\* The number that is written with a point, in units.
Decimal(ws, fs) ==
  Number(ws, 10) * Unit + Number(fs, 10) * (Unit \div 10 ^ Len(fs))

\* The distance from n down to the next number with so many significant bits,
\* where n is one of them: a power of two times what a unit has of fives.
Spacing(n, bits) ==
  5 ^ MaxFraction * 2 ^ (HighestBit(n \div 5 ^ MaxFraction) - bits + 1)

\* The numbers of a grid that are nearest to n.
NearestOn(grid, n) ==
  LET below == (n \div grid) * grid
      above == below + grid
  IN  {m \in {below, above} :
         Abs(m - n) <= Abs(below - n) /\ Abs(m - n) <= Abs(above - n)}

\* The nearest number with so many significant bits; of two, the even one.
Nearest(n, bits) ==
  IF n = 0 THEN 0
  ELSE LET grid == Spacing(n, bits)
           near == NearestOn(grid, n)
       IN  CHOOSE m \in near : \A k \in near : k = m \/ (m \div grid) % 2 = 0

\* Mutant: base 0, where a leading 0 means that the number is octal.
strtol_AnyBase(ds) ==
  LET n == Number(ds, IF ds[1] = 0 THEN 8 ELSE 10)
  IN  IF n > LongMax THEN LongMax ELSE n

\* A number beyond the range is the largest of it; errno is not looked at.
strtol(ds) ==
  LET n == Number(ds, 10) IN IF n > LongMax THEN LongMax ELSE n

\* Mutant: strtof, which keeps fewer bits.
strtod_Single(ws, fs) == Nearest(Decimal(ws, fs), Mantissa - 3)

\* The nearest double.
strtod(ws, fs) == Nearest(Decimal(ws, fs), Mantissa)

\* A literal with a point is a float, any other an integer.
parseFactor ==
  IF point THEN [kind |-> "float", value |-> strtod(whole, fraction)]
  ELSE [kind |-> "int", value |-> strtol(whole)]

-----------------------------------------------------------------------------
(* ir_printer.c *)

\* The last place that %f prints.
Place == Unit \div 10 ^ Decimals

\* %f prints the nearest number with so many decimals.  Where a half goes is
\* left to the C library.
PrintedFloats(value) == NearestOn(Place, value)

\* The numbers that a literal may be printed as: %ld prints all of a long.
irPrintOperand(literal) ==
  CASE literal.kind = "int" -> {literal.value * Unit}
    [] literal.kind = "float" -> PrintedFloats(literal.value)

-----------------------------------------------------------------------------
(* Properties *)

\* The literal is made of digits, and is parsed and printed as a number.
NumberTypeOK ==
  /\ whole \in Seq(Digits) /\ Len(whole) <= MaxWhole
  /\ point \in BOOLEAN
  /\ fraction \in Seq(Digits) /\ Len(fraction) <= MaxFraction
  /\ NumberToken => parseFactor.value \in Nat /\ irPrintOperand(parseFactor) # {}

\* LLVM reads a double from the text.
LlvmDouble(n) == Nearest(n, Mantissa)

\* The number that is written.
Meant == Decimal(whole, fraction)

\* An integer of the type int is printed as it was written, with zeros in front
\* or not; one that the type does not have, which nothing in the compiler
\* refuses, is never printed as one that it has.
IntegersPrinted ==
  NumberToken /\ ~point =>
    IF Meant <= IntMax * Unit THEN irPrintOperand(parseFactor) = {Meant}
    ELSE \A n \in irPrintOperand(parseFactor) : n > IntMax * Unit

\* A float with no more decimals than %f prints is, in the program, the double
\* nearest to what is written, however many digits it has before the point: if
\* doubles lie closer together than decimals the text is the literal again, and
\* if not it is closer to the double than half of their distance, although it
\* is another number than the literal.  Further decimals are lost: what is
\* printed is off by up to half of the last decimal and half of the distance of
\* doubles.  There is always a number to print (NumberTypeOK).
FloatsSurvive ==
  /\ NumberTypeOK
  /\ NumberToken /\ point =>
       \A n \in irPrintOperand(parseFactor) :
         IF Meant = 0 THEN n = 0
         ELSE /\ 2 * Abs(n - Meant) <= Place + Spacing(Meant, Mantissa)
              /\ Len(fraction) <= Decimals =>
                   /\ LlvmDouble(n) = Nearest(Meant, Mantissa)
                   /\ Spacing(Meant, Mantissa) < Place => n = Meant
=============================================================================
