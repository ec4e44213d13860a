----------------------------- MODULE MCLiterals -----------------------------
(***************************************************************************)
(* Bounded instance of Literals.                                           *)
(***************************************************************************)
EXTENDS Literals

\* The letters are those that escapes decode, and the digits and letters that
\* hexadecimal codes are made of; four elements hold a backslash and the code
\* of another character.
SomeCharacters == {"n", "t", "0", "5", "C", "control", "newline", Backslash, Quote}

\* The digits next to a carry and to a half, and 8, which no octal number has.
\* %f prints one decimal here and six in the compiler, a long has 11 bits here
\* and 63 there, the mantissa of a double 7 here and 53 there: doubles lie
\* closer together than printed decimals below 8 and further apart above, in
\* the compiler below and above 2^33.
SomeDigits == {0, 4, 5, 8, 9}
=============================================================================
