------------------------------ MODULE MCParser ------------------------------
(***************************************************************************)
(* Bounded instance of Parser: short lists of all tokens, and long ones of *)
(* statements inside a function, where recovery has something to skip.     *)
(***************************************************************************)
EXTENDS Parser

AnyTokens == [prefix |-> <<>>, tokens |-> AllTokens, max |-> 7]

InFunction ==
  [prefix |-> <<"func", "id", "(", ")", "->", "type", "LBRACE">>,
   tokens |-> {"id", "if", "else", "while", "for", "ret", "(", ")", "LBRACE", "RBRACE",
               "SEMICOLON"},
   max    |-> 14]

SomeInputs == {AnyTokens, InFunction}
=============================================================================
