------------------------------ MODULE MCLexer ------------------------------
(***************************************************************************)
(* Bounded instance of Lexer: every input up to MaxLength characters.      *)
(***************************************************************************)
EXTENDS Lexer

AllChars == {"i", "f", "w", "1", ".", "/", "=", "-", ">", "s", "n", "q", "a", "b", "x"}
=============================================================================
