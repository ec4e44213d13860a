--------------------------- MODULE StringLiterals ---------------------------
(***************************************************************************)
(* A string literal on its way through the compiler.  Three functions look *)
(* into it: semanticStringLiteralDecodedLength for its type,               *)
(* irBuilderUnquoteString for its storage, and irPrintEscapedString, whose *)
(* text an LLVM reader has to understand.  parseCharLiteralValue does for  *)
(* a character literal what irBuilderUnquoteString does for a string.      *)
(*                                                                         *)
(* The literal is typed in element by element, a character or a backslash  *)
(* and a character, as the pattern of TOKEN_STRING allows.  A character    *)
(* stands for itself, or is called by a name; "control" is any other one   *)
(* below 32 or above 126, whose code has the digits 1F here.               *)
(***************************************************************************)
EXTENDS Naturals, Sequences, FiniteSets

LOCAL INSTANCE SequencesExt

CONSTANTS
  Characters,   \* the characters literals are made of
  MaxElements   \* bound: elements of a literal

Backslash == "backslash"
Quote == "quote"
Zero == "zero"

ASSUME CharactersAssumption == {Backslash, Quote} \subseteq Characters /\ Zero \notin Characters
ASSUME MaxElementsAssumption == MaxElements \in Nat

VARIABLE literal      \* the elements so far

NoString == literal = <<>>

\* [^"\\]
Plain ==
  \E c \in Characters \ {Backslash, Quote} :
    literal' = Append(literal, [escaped |-> FALSE, char |-> c])

\* \\.
Escape ==
  \E c \in Characters : literal' = Append(literal, [escaped |-> TRUE, char |-> c])

StringElement == Len(literal) < MaxElements /\ (Plain \/ Escape)

\* The value of the token, with its quotes.
StringToken ==
  <<Quote>>
  \o FlattenSeq([k \in DOMAIN literal |->
       IF literal[k].escaped THEN <<Backslash, literal[k].char>> ELSE <<literal[k].char>>])
  \o <<Quote>>

-----------------------------------------------------------------------------
(* semantic.c *)

\* Mutant: an escape is counted as two characters.
DecodedLength_NoEscapes(value) ==
  Len(value) - 2

\* A quote at either end is not counted; a backslash takes the character
\* after it along, unless that is a quote.
semanticStringLiteralDecodedLength(value) ==
  LET n == Len(value)
      from[i \in 1 .. n + 1] ==
        IF i > n THEN 0
        ELSE IF value[i] = Quote /\ i \in {1, n} THEN from[i + 1]
        ELSE IF value[i] = Backslash /\ i < n /\ value[i + 1] # Quote THEN 1 + from[i + 2]
        ELSE 1 + from[i + 1]
  IN  from[1]

-----------------------------------------------------------------------------
(* ir_builder_utils.c *)

decodeEscapedChar(c) ==
  CASE c = "n" -> "newline"
    [] c = "t" -> "tab"
    [] c = "0" -> Zero
    [] OTHER -> c

\* The characters between the quotes, escapes decoded.
Decoded(value) ==
  LET n == Len(value)
      from[i \in 2 .. n + 1] ==
        IF i >= n THEN <<>>
        ELSE IF value[i] = Backslash /\ i + 1 < n
          THEN <<decodeEscapedChar(value[i + 1])>> \o from[i + 2]
        ELSE <<value[i]>> \o from[i + 1]
  IN  from[2]

\* A string of C ends at its first zero (strlen, irCopyString).
CString(s) ==
  LET zeros == {i \in DOMAIN s : s[i] = Zero}
  IN  IF zeros = {} THEN s
      ELSE SubSeq(s, 1, (CHOOSE i \in zeros : \A j \in zeros : i <= j) - 1)

irBuilderUnquoteString(value) == CString(Decoded(value))

irBuilderStringLiteralLength(value) == Len(irBuilderUnquoteString(value))

\* parser.c, for the element between the quotes of a character literal.
parseCharLiteralValue(element) ==
  IF ~element.escaped THEN element.char
  ELSE CASE element.char = "0" -> Zero
         [] element.char = "n" -> "newline"
         [] element.char = "t" -> "tab"
         [] OTHER -> element.char

-----------------------------------------------------------------------------
(* ir_printer.c *)

Hex(a, b) == <<Backslash, a, b>>

\* Mutant: a backslash is printed as it is.
PrintEscapedString_Backslash(s) ==
  FlattenSeq([i \in DOMAIN s |->
    CASE s[i] = Quote -> Hex("2", "2")
      [] s[i] = "newline" -> Hex("0", "A")
      [] s[i] = "tab" -> Hex("0", "9")
      [] s[i] = "control" -> Hex("1", "F")
      [] OTHER -> <<s[i]>>])

irPrintEscapedString(s) ==
  FlattenSeq([i \in DOMAIN s |->
    CASE s[i] = Backslash -> Hex("5", "C")
      [] s[i] = Quote -> Hex("2", "2")
      [] s[i] = "newline" -> Hex("0", "A")
      [] s[i] = "tab" -> Hex("0", "9")
      [] s[i] = "control" -> Hex("1", "F")
      [] OTHER -> <<s[i]>>])

\* The storage of the literal, as irPrintGlobal prints it: its array type
\* and its text up to the closing quote.
StorageSize == irBuilderStringLiteralLength(StringToken) + 1
StorageText == irPrintEscapedString(irBuilderUnquoteString(StringToken)) \o Hex("0", "0")

-----------------------------------------------------------------------------
(* The LLVM reader (external): a backslash and two hexadecimal digits are  *)
(* a byte, a backslash alone is itself, a quote ends the text.             *)

ByteOf ==
  LET pairs == {<<"5", "C">>, <<"2", "2">>, <<"0", "A">>, <<"0", "9">>, <<"1", "F">>, <<"0", "0">>}
  IN  [p \in pairs |-> CASE p = <<"5", "C">> -> Backslash
                        [] p = <<"2", "2">> -> Quote
                        [] p = <<"0", "A">> -> "newline"
                        [] p = <<"0", "9">> -> "tab"
                        [] p = <<"1", "F">> -> "control"
                        [] p = <<"0", "0">> -> Zero]

ReadBack(text) ==
  LET n == Len(text)
      from[i \in 1 .. n + 1] ==
        IF i > n THEN <<>>
        ELSE IF text[i] = Quote THEN <<>>
        ELSE IF text[i] = Backslash /\ i + 2 <= n /\ <<text[i + 1], text[i + 2]>> \in DOMAIN ByteOf
          THEN <<ByteOf[<<text[i + 1], text[i + 2]>>]>> \o from[i + 3]
        ELSE <<text[i]>> \o from[i + 1]
  IN  from[1]

-----------------------------------------------------------------------------
(* Properties *)

\* The literal is made of elements of the pattern.
StringTypeOK ==
  /\ literal \in Seq([escaped : BOOLEAN, char : Characters])
  /\ \A k \in DOMAIN literal : literal[k].char \in {Backslash, Quote} => literal[k].escaped

\* What the literal means, element by element.
Meaning ==
  [k \in DOMAIN literal |->
     IF literal[k].escaped /\ literal[k].char \in {"n", "t", "0"}
     THEN CASE literal[k].char = "n" -> "newline"
            [] literal[k].char = "t" -> "tab"
            [] literal[k].char = "0" -> Zero
     ELSE literal[k].char]

\* Unquoting, escaping and the two lengths fit together: LLVM reads from the
\* printed constant the meaning of the literal up to its first zero, and a
\* terminator, in as many bytes as the type of the constant says.  The parser
\* decodes an element to the same meaning when it is a character literal.
TextReadsBack ==
  /\ StringTypeOK
  /\ \A k \in DOMAIN literal : parseCharLiteralValue(literal[k]) = Meaning[k]
  /\ ReadBack(StorageText) = CString(Meaning) \o <<Zero>>
  /\ Len(ReadBack(StorageText)) = StorageSize

\* The semantic pass and the builder compute the size from the same token with
\* different loops: they differ by the escaped quotes, which the first counts
\* twice, and by what stands from the first zero on, which the second drops.
SizesDifferAsExplained ==
  LET quotes == {k \in DOMAIN literal : literal[k].escaped /\ literal[k].char = Quote}
      dropped == Len(Meaning) - Len(CString(Meaning))
  IN  semanticStringLiteralDecodedLength(StringToken)
        = irBuilderStringLiteralLength(StringToken) + Cardinality(quotes) + dropped
=============================================================================
