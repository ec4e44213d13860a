------------------------------- MODULE Lexer -------------------------------
(***************************************************************************)
(* lexer.c: lexerScan turns the input into tokens, one round of its outer  *)
(* loop per step.  At each cursor the patterns of the table "types" are    *)
(* tried in order and the first that matches gives the token; regexec      *)
(* returns the longest match of that pattern.                              *)
(*                                                                         *)
(* A character stands for the class of characters the patterns tell apart: *)
(* "i" and "f" are letters that spell the keyword "if", "w" is any other   *)
(* letter or underscore, "1" a digit, "n" a line break, "s" a space or     *)
(* tab, "q" a double quote, "a" an apostrophe, "b" a backslash, and "x"    *)
(* what no pattern begins with.                                            *)
(*                                                                         *)
(* Of the rows of the table the model keeps those of numbers, comments,    *)
(* strings, character literals, identifiers and white space, "if" for the  *)
(* keywords, types, "true" and "false", and of the operators == >= > -= -> *)
(* = - and /.  The others are left out: <= and <, != and !, += and +, &&   *)
(* and & stand in the table as >= and > do, the longer one first; || and   *)
(* :: have no row of one character to be taken for; and * and the brackets *)
(* and separators share their first character with no other row.           *)
(***************************************************************************)
EXTENDS Naturals, Sequences, FiniteSetsExt, SequencesExt

CONSTANTS
  Chars,        \* the character classes inputs are made of
  MaxLength     \* bound on the length of an input

ASSUME MaxLengthAssumption == MaxLength \in Nat

VARIABLES
  input,        \* lexer->input
  cursor,       \* lexer->cursor, as the number of characters before it
  line, column, \* lexer->line, lexer->column
  tokens,       \* lexer->tokens
  status        \* "reading", "scanning", "done", or "exited" after exit(1)

vars == <<input, cursor, line, column, tokens, status>>

-----------------------------------------------------------------------------
(* The patterns, as the lengths they match at position i of s *)

WordChar == {"i", "f", "w", "1"}
Letters  == {"i", "f", "w"}

\* Every character of s from i over length n is in C.
AllIn(s, i, n, C) == \A k \in i .. i + n - 1 : s[k] \in C

Lengths(s, i) == 1 .. Len(s) - i + 1

\* [0-9]*\.[0-9]+ or [0-9]+
NumberLengths(s, i) ==
  {n \in Lengths(s, i) :
     \/ AllIn(s, i, n, {"1"})
     \/ \E d \in 0 .. n - 2 : /\ AllIn(s, i, d, {"1"}) /\ s[i + d] = "."
                              /\ AllIn(s, i + d + 1, n - d - 1, {"1"})}

\* A keyword or type name and a word boundary, \b.
KeywordLengths(s, i) ==
  {n \in Lengths(s, i) :
     /\ SubSeq(s, i, i + n - 1) = <<"i", "f">>
     /\ i + n > Len(s) \/ s[i + n] \notin WordChar}

\* Mutant: a comment takes the line break and what follows with it.
CommentOverLines(s, i) ==
  {n \in Lengths(s, i) : n >= 2 /\ AllIn(s, i, 2, {"/"})}

\* //[^\n]*
CommentLengths(s, i) ==
  {n \in Lengths(s, i) : n >= 2 /\ AllIn(s, i, 2, {"/"})
                           /\ AllIn(s, i + 2, n - 2, Chars \ {"n"})}

\* A position of the text between two delimiters, where a backslash takes the
\* next character with it: k is reached by characters and pairs from i on.
Between(s, i, n, delimiter) ==
  \E escapes \in SUBSET (i .. i + n - 1) :
    /\ \A k \in escapes : s[k] = "b" /\ k + 1 < i + n /\ k + 1 \notin escapes
    /\ \A k \in i .. i + n - 1 :
         k \notin escapes /\ k - 1 \notin escapes => s[k] \notin {delimiter, "b"}

\* "([^"\\]|\\.)*"
StringLengths(s, i) ==
  {n \in Lengths(s, i) : n >= 2 /\ s[i] = "q" /\ s[i + n - 1] = "q"
                           /\ Between(s, i + 1, n - 2, "q")}

\* '([^'\\]|\\.)': one character, or one escape.
CharLengths(s, i) ==
  {n \in Lengths(s, i) :
     /\ n \in {3, 4} /\ s[i] = "a" /\ s[i + n - 1] = "a"
     /\ n = 4 => s[i + 1] = "b"
     /\ n = 3 => s[i + 1] \notin {"a", "b"}}

\* The operators, each spelled as its pattern.
Ops == [EQ_EQ |-> <<"=", "=">>, GT_EQ |-> <<">", "=">>, GT |-> <<">">>,
        MINUS_ASSIGN |-> <<"-", "=">>, ARROW |-> <<"-", ">">>, ASSIGN |-> <<"=">>,
        MINUS |-> <<"-">>, SLASH |-> <<"/">>]

OpLengths(s, i, op) == {n \in Lengths(s, i) : SubSeq(s, i, i + n - 1) = op}

IdentifierLengths(s, i) ==
  {n \in Lengths(s, i) : s[i] \in Letters /\ AllIn(s, i, n, WordChar)}

\* Mutant: the pattern may match nothing ("*" for "+").
WhitespaceOrNothing(s, i) == {0} \cup {n \in Lengths(s, i) : AllIn(s, i, n, {"s", "n"})}

WhitespaceLengths(s, i) == {n \in Lengths(s, i) : AllIn(s, i, n, {"s", "n"})}

\* Mutant: the pattern of "-" stands before those of "-=" and "->".
TypesMinusFirst ==
  <<"NUMBER", "COMMENT", "KW_IF", "STRING", "CHAR_LITERAL", "EQ_EQ", "GT_EQ", "GT", "MINUS",
    "MINUS_ASSIGN", "ARROW", "ASSIGN", "IDENTIFIER", "SLASH", "WHITESPACE">>

\* The order of the table types.
Types ==
  <<"NUMBER", "COMMENT", "KW_IF", "STRING", "CHAR_LITERAL", "EQ_EQ", "GT_EQ", "GT",
    "MINUS_ASSIGN", "ARROW", "ASSIGN", "IDENTIFIER", "MINUS", "SLASH", "WHITESPACE">>

\* The lengths the pattern of a row of the table matches at i.
Pattern(type, s, i) ==
  CASE type = "NUMBER"       -> NumberLengths(s, i)
    [] type = "COMMENT"      -> CommentLengths(s, i)
    [] type = "KW_IF"        -> KeywordLengths(s, i)
    [] type = "STRING"       -> StringLengths(s, i)
    [] type = "CHAR_LITERAL" -> CharLengths(s, i)
    [] type = "IDENTIFIER"   -> IdentifierLengths(s, i)
    [] type = "WHITESPACE"   -> WhitespaceLengths(s, i)
    [] type \in DOMAIN Ops   -> OpLengths(s, i, Ops[type])

\* The rows of the table that match, by their place in it.
Matching(s, i) == {t \in DOMAIN Types : Pattern(Types[t], s, i) # {}}

\* The token found at i: the first pattern that matches, its longest match.
Found(s, i) ==
  LET type == Types[Min(Matching(s, i))]
  IN  [type |-> type, length |-> Max(Pattern(type, s, i))]

-----------------------------------------------------------------------------
Init ==
  /\ input = <<>>
  /\ cursor = 0
  /\ line = 1 /\ column = 1
  /\ tokens = <<>>
  /\ status = "reading"

\* readFileToString, tokenizeString and lexerInit: any text.
Read ==
  /\ status = "reading"
  /\ \E n \in 0 .. MaxLength : input' \in [1 .. n -> Chars]
  /\ status' = "scanning"
  /\ UNCHANGED <<cursor, line, column, tokens>>

\* Mutant: the line is advanced but the column goes on.
PositionAfterKeepingColumn(l, c, text) ==
  [line   |-> l + Cardinality({k \in DOMAIN text : text[k] = "n"}),
   column |-> c + Len(text)]

\* What the loop over the matched characters makes of line and column: a line
\* break starts a new line at column 1.
PositionAfter(l, c, text) ==
  LET breaks == {k \in DOMAIN text : text[k] = "n"}
  IN  [line   |-> l + Cardinality(breaks),
       column |-> IF breaks = {} THEN c + Len(text) ELSE Len(text) - Max(breaks) + 1]

Token(type, at, length) ==
  [type |-> type, at |-> at, length |-> length, line |-> line, column |-> column]

\* One token, or one stretch of whitespace or comment, which is dropped.
Scan ==
  /\ status = "scanning" /\ cursor < Len(input)
  /\ Matching(input, cursor + 1) # {}
  /\ \E found \in {Found(input, cursor + 1)} :
       \E next \in {PositionAfter(line, column,
                                  SubSeq(input, cursor + 1, cursor + found.length))} :
         /\ tokens' = IF found.type \in {"WHITESPACE", "COMMENT"} THEN tokens
                      ELSE Append(tokens, Token(found.type, cursor + 1, found.length))
         /\ line' = next.line
         /\ column' = next.column
         /\ cursor' = cursor + found.length
  /\ UNCHANGED <<input, status>>

\* "Unrecognized token"
Exit ==
  /\ status = "scanning" /\ cursor < Len(input)
  /\ Matching(input, cursor + 1) = {}
  /\ status' = "exited"
  /\ UNCHANGED <<input, cursor, line, column, tokens>>

\* The end of the input is a token too.
Finish ==
  /\ status = "scanning" /\ cursor = Len(input)
  /\ tokens' = Append(tokens, Token("EOF", cursor + 1, 0))
  /\ status' = "done"
  /\ UNCHANGED <<input, cursor, line, column>>

Over == status \in {"done", "exited"} /\ UNCHANGED vars

Next == Read \/ Scan \/ Exit \/ Finish \/ Over

\* The scanner runs by itself: a step that can be taken is taken.
Spec == Init /\ [][Next]_vars /\ WF_vars(Read \/ Scan \/ Exit \/ Finish)

-----------------------------------------------------------------------------
TypeOK ==
  /\ input \in Seq(Chars)
  /\ cursor \in 0 .. Len(input)
  /\ line \in Nat \ {0} /\ column \in Nat \ {0}
  /\ tokens \in Seq([type : ToSet(Types) \cup {"EOF"}, at : Nat, length : Nat,
                     line : Nat \ {0}, column : Nat \ {0}])
  /\ status \in {"reading", "scanning", "done", "exited"}

Covered == UNION {t.at .. t.at + t.length - 1 : t \in ToSet(tokens)}

\* Character k is white space, or in a comment that starts outside a token.
Dropped(k) ==
  \/ input[k] \in {"s", "n"}
  \/ \E j \in 1 .. k : /\ j < Len(input) /\ input[j] = "/" /\ input[j + 1] = "/"
                        /\ \A m \in j .. k : input[m] # "n" /\ m \notin Covered

\* The tokens are the input, in order and without overlap, but for white space
\* and comments: no pattern of the table swallows the start of what follows.
NothingLost ==
  /\ \A i, j \in DOMAIN tokens :
       i < j => tokens[i].at + tokens[i].length <= tokens[j].at
  /\ \A k \in 1 .. cursor : k \in Covered \/ Dropped(k)

\* The order of the table types is right: the first pattern that matches is
\* one that matches longest ("->" is no minus, "iff" no keyword), and a
\* keyword is never taken for an identifier.
LongestMatch ==
  \A t \in ToSet(tokens) : t.type # "EOF" =>
    /\ \A type \in ToSet(Types) : \A n \in Pattern(type, input, t.at) : n <= t.length
    /\ t.type = "IDENTIFIER" => KeywordLengths(input, t.at) = {}

\* The line and column of every token are those of its first character, also
\* after strings and comments that hold line breaks: every later error
\* message of parser and semantic analysis takes its position from here.  The
\* variables have their types: no cursor is past the end of the input.
PositionsTrue ==
  /\ TypeOK
  /\ \A t \in ToSet(tokens) :
       LET breaks == {k \in 1 .. t.at - 1 : input[k] = "n"}
       IN  /\ t.line = 1 + Cardinality(breaks)
           /\ t.column = t.at - Max({0} \cup breaks)

\* Scanning ends on every input: no pattern of the table matches the empty
\* string, so each round of the loop moves the cursor.
ScanningEnds == <>(status \in {"done", "exited"})
=============================================================================
