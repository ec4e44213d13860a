------------------------------- MODULE Parser -------------------------------
(***************************************************************************)
(* parser.c: recursive descent with panic-mode recovery.  Every function   *)
(* of the parser is a sequence of steps, chosen by the current token when  *)
(* the function (or the next round of one of its loops) is entered; the C  *)
(* call stack is the stack of the steps that are left.  A step is          *)
(*                                                                         *)
(*   a token      parserExpect: consume it, or report and go on            *)
(*   "need_t"     report and return when the token is not t                *)
(*   "next"       parserAdvance                                            *)
(*   "panic?"     return when is_panic                                     *)
(*   "fail"       parserSyntaxError                                        *)
(*   "close"      the end of parseBlock                                    *)
(*   "sync"       parserSynchronizeStatement when is_panic                 *)
(*   "resync"     parserSynchronizeTopLevel when is_panic                  *)
(*   "yes", "no"  the expression parsed last is or is not an assignable    *)
(*                target                                                   *)
(*   otherwise    a function, or a loop of one, to enter                   *)
(*                                                                         *)
(* The nodes of the tree are left out, and tokens that the parser treats   *)
(* alike are one: "type" is a named type, "lit" a literal, "op" an         *)
(* operator that is only binary, "!" one that is only prefix, "+=" also    *)
(* "-=".  The token list is chosen as the parser goes: ahead holds the     *)
(* current token and the one after it, all that the parser ever looks at.  *)
(***************************************************************************)
EXTENDS Naturals, Sequences, SequencesExt

\* The kinds of token lists: what they begin with, the tokens they go on with,
\* and a bound on the number of tokens before EOF.
CONSTANT Inputs

AllTokens == {"func", "extern", "id", "::", "->", "type", "Array", "lit",
              "if", "else", "while", "for", "ret", "break",
              "=", "+=", "op", "!", "-", "*", "<", ">",
              "(", ")", "[", "]", "LBRACE", "RBRACE", "COMMA", "SEMICOLON"}

ASSUME InputsAssumption ==
  \A i \in Inputs : /\ i.prefix \in Seq(AllTokens)
                    /\ i.tokens \subseteq AllTokens
                    /\ i.max \in Nat /\ Len(i.prefix) <= i.max

VARIABLES
  input,        \* the kind of token list
  ahead,        \* parser->current and its successor
  consumed,     \* the number of tokens before parser->current
  is_panic,     \* parser->is_panic
  errors,       \* parser->errors: the position of each
  stack,        \* steps left to each function that is running
  assignable,   \* isAssignableTarget of the expression parsed last
  nesting       \* auxiliary: the brackets consumed that are still open

vars == <<input, ahead, consumed, is_panic, errors, stack, assignable, nesting>>

current == ahead[1]
AtEnd == current = "EOF"

\* isDeclarationStart
DeclarationStart == ahead = <<"id", "::">>

TypeTokens == {"*", "Array", "type", "id"}
AssignTokens == {"=", "+="}
BinaryTokens == {"op", "-", "*", "<", ">"}
PrefixTokens == {"!", "-", "*"}

-----------------------------------------------------------------------------
(* The functions of the parser *)

When(condition, steps) == IF condition THEN steps ELSE <<>>

ParseProgram == When(~AtEnd, <<"TopLevel", "resync", "Program">>)

ParseTopLevel ==
  CASE current = "func"   -> <<"Function">>
    [] current = "extern" -> <<"ExternFunction">>
    [] DeclarationStart   -> <<"Assign", "panic?", "SEMICOLON">>
    [] OTHER              -> <<"fail">>

Signature == <<"need_id", "(", "panic?", "Parameters", "panic?", ")", "panic?",
               "->", "panic?", "Type", "panic?">>

ParseFunction       == <<"next">> \o Signature \o <<"Block">>
ParseExternFunction == <<"next", "func", "panic?">> \o Signature \o <<"SEMICOLON">>

ParseParameters    == When(current # ")", <<"Parameter", "panic?", "MoreParameters">>)
ParseMoreParameters ==
  When(current = "COMMA", <<"next", "Parameter", "panic?", "MoreParameters">>)
ParseParameter     == <<"need_id", "::", "panic?", "Type">>

ParseBlock      == <<"need_LBRACE", "Statements", "close">>
ParseStatements ==
  When(~AtEnd /\ current # "RBRACE", <<"Statement", "sync", "Statements">>)

ParseStatement ==
  CASE current = "if"    -> <<"If">>
    [] current = "while" -> <<"While">>
    [] current = "for"   -> <<"For">>
    [] current = "func"  -> <<"Function">>
    [] OTHER             -> <<"LoopControl", "panic?", "SEMICOLON">>

ParseIf == <<"next", "(", "panic?", "Logical", "panic?", ")", "panic?", "Block", "Else">>
ParseElse == When(current = "else", <<"next", "ElseBranch">>)
ParseElseBranch == IF current = "if" THEN <<"If">> ELSE <<"Block">>

ParseWhile == <<"next", "(", "panic?", "Logical", "panic?", ")", "panic?", "Block">>

ParseFor ==
  <<"next", "(", "panic?", "ForInit", "panic?", "SEMICOLON", "panic?", "ForCondition",
    "panic?", "SEMICOLON", "panic?", "ForUpdate", "panic?", ")", "panic?", "Block">>

\* parseLoopControl and parseReturn
ParseLoopControl ==
  CASE current = "break" -> <<"next">>
    [] current = "ret"   -> <<"next", "ReturnValue">>
    [] OTHER             -> <<"Assign">>

ParseAssign ==
  IF DeclarationStart THEN <<"next", "::", "panic?", "Type", "panic?", "Initializer">>
                      ELSE <<"Logical", "panic?", "AssignValue">>

ParseAssignValue ==
  CASE current \notin AssignTokens -> <<>>
    [] current \in AssignTokens /\ assignable -> <<"next", "Logical">>
    [] OTHER -> <<"fail">>

\* parseLogical down to parseTerm: every level loops on its own operators and
\* none looks at is_panic, so together they loop on all of them.
ParseLogical  == <<"Negation", "Operators">>

\* Mutant: the operator is not consumed.
OperatorsWithoutAdvance == When(current \in BinaryTokens, <<"Negation", "no", "Operators">>)

ParseOperators == When(current \in BinaryTokens, <<"next", "Negation", "no", "Operators">>)

ParseNegation ==
  IF current \in PrefixTokens
  THEN <<"next", "Negation", IF current = "*" THEN "yes" ELSE "no">>
  ELSE <<"Factor">>

\* Mutant: a group need not be closed.
FactorOpenGroup ==
  CASE current = "lit" -> <<"next", "no">>
    [] current = "LBRACE" -> <<"ArrayLiteral">>
    [] current = "id"  -> <<"next", "yes", "Postfix">>
    [] current = "("   -> <<"next", "Logical">>
    [] OTHER           -> <<"fail">>

ParseFactor ==
  CASE current = "lit" -> <<"next", "no">>
    [] current = "LBRACE" -> <<"ArrayLiteral">>
    [] current = "id"  -> <<"next", "yes", "Postfix">>
    [] current = "("   -> <<"next", "Logical", "panic?", ")">>
    [] OTHER           -> <<"fail">>

\* The loop over calls and indexes after an identifier.  Indexing keeps what
\* the base was, a call makes it a value for good.
ParsePostfix ==
  CASE current = "(" -> <<"next", "Call">>
    [] current = "[" -> <<"next", "Logical", "panic?", "]", "yes", "Postfix">>
    [] OTHER         -> <<>>

ParseCall ==
  IF current = ")" THEN <<")", "CalledPostfix">>
                   ELSE <<"Logical", "panic?", "MoreArguments">>
ParseMoreArguments ==
  IF current = "COMMA" THEN <<"next", "Logical", "panic?", "MoreArguments">>
                   ELSE <<")", "CalledPostfix">>

ParseCalledPostfix ==
  CASE current = "(" -> <<"next", "Call">>
    [] current = "[" -> <<"next", "Logical", "panic?", "]", "CalledPostfix">>
    [] OTHER         -> <<"no">>

ParseType ==
  CASE current \notin TypeTokens -> <<"fail">>
    [] current = "*"             -> <<"*", "panic?", "Type">>
    [] current = "Array"         -> <<"next", "ArrayElement">>
    [] OTHER                     -> <<"next", "ArraySuffixes">>

ParseArrayElement ==
  IF current = "<" THEN <<"next", "Type", "panic?", ">", "ArraySuffixes">>
                   ELSE <<"ArraySuffixes">>

\* wrapArrayTypes
ParseArraySuffixes == When(current = "[", <<"next", "ArraySize", "]", "ArraySuffixes">>)

ParseArrayLiteral == <<"LBRACE", "Elements">>
ParseElements ==
  IF current = "RBRACE" THEN <<"RBRACE", "no">>
                        ELSE <<"Logical", "panic?", "MoreElements">>
ParseMoreElements ==
  IF current \in {"COMMA", "SEMICOLON"} THEN <<"next", "Element">>
                                        ELSE <<"RBRACE", "no">>
ParseElement ==
  IF current = "RBRACE" \/ AtEnd THEN <<"RBRACE", "no">>
                                 ELSE <<"Logical", "panic?", "MoreElements">>

\* The steps of the function, or round of a loop, that is entered.
StepsOf(f) ==
  CASE f = "Program"        -> ParseProgram
    [] f = "TopLevel"       -> ParseTopLevel
    [] f = "Function"       -> ParseFunction
    [] f = "ExternFunction" -> ParseExternFunction
    [] f = "Parameters"     -> ParseParameters
    [] f = "MoreParameters" -> ParseMoreParameters
    [] f = "Parameter"      -> ParseParameter
    [] f = "Block"          -> ParseBlock
    [] f = "Statements"     -> ParseStatements
    [] f = "Statement"      -> ParseStatement
    [] f = "If"             -> ParseIf
    [] f = "Else"           -> ParseElse
    [] f = "ElseBranch"     -> ParseElseBranch
    [] f = "While"          -> ParseWhile
    [] f = "For"            -> ParseFor
    [] f = "ForInit"        -> When(current # "SEMICOLON", <<"Assign">>)
    [] f = "ForCondition"   -> When(current # "SEMICOLON", <<"Logical">>)
    [] f = "ForUpdate"      -> When(current # ")", <<"Assign">>)
    [] f = "LoopControl"    -> ParseLoopControl
    [] f = "ReturnValue"    -> When(current # "SEMICOLON", <<"Logical">>)
    [] f = "Assign"         -> ParseAssign
    [] f = "Initializer"    -> When(current = "=", <<"next", "Logical">>)
    [] f = "AssignValue"    -> ParseAssignValue
    [] f = "Logical"        -> ParseLogical
    [] f = "Operators"      -> ParseOperators
    [] f = "Negation"       -> ParseNegation
    [] f = "Factor"         -> ParseFactor
    [] f = "Postfix"        -> ParsePostfix
    [] f = "Call"           -> ParseCall
    [] f = "MoreArguments"  -> ParseMoreArguments
    [] f = "CalledPostfix"  -> ParseCalledPostfix
    [] f = "Type"           -> ParseType
    [] f = "ArrayElement"   -> ParseArrayElement
    [] f = "ArraySuffixes"  -> ParseArraySuffixes
    [] f = "ArraySize"      -> When(current # "]", <<"Logical">>)
    [] f = "ArrayLiteral"   -> ParseArrayLiteral
    [] f = "Elements"       -> ParseElements
    [] f = "MoreElements"   -> ParseMoreElements
    [] f = "Element"        -> ParseElement

Functions == {"Program", "TopLevel", "Function", "ExternFunction", "Parameters",
  "MoreParameters", "Parameter", "Block", "Statements", "Statement", "If", "Else",
  "ElseBranch", "While", "For", "ForInit", "ForCondition", "ForUpdate", "LoopControl",
  "ReturnValue", "Assign", "Initializer", "AssignValue", "Logical", "Operators",
  "Negation", "Factor", "Postfix", "Call", "MoreArguments", "CalledPostfix", "Type",
  "ArrayElement", "ArraySuffixes", "ArraySize", "ArrayLiteral", "Elements",
  "MoreElements", "Element"}

Step == Functions \cup AllTokens
          \cup {"need_id", "need_LBRACE", "next", "panic?", "fail", "close", "sync",
                "resync", "yes", "no"}

-----------------------------------------------------------------------------
(* The token list *)

\* The tokens that may stand at position k, after token t.
Following(k, t) ==
  CASE k <= Len(input.prefix) -> {input.prefix[k]}
    [] k > Len(input.prefix) /\ k <= input.max /\ t # "EOF" -> input.tokens \cup {"EOF"}
    [] OTHER -> {"EOF"}

Opening == [x \in {")", "]", "RBRACE"} |->
              CASE x = ")" -> "(" [] x = "]" -> "[" [] x = "RBRACE" -> "LBRACE"]

\* The open brackets after token t; one that closes nothing stays.
Nested(t) ==
  CASE t \in DOMAIN Opening /\ nesting # <<>> /\ Last(nesting) = Opening[t] -> Front(nesting)
    [] t \in {"(", "[", "LBRACE"} -> Append(nesting, t)
    [] t \in DOMAIN Opening /\ (nesting = <<>> \/ Last(nesting) # Opening[t])
         -> Append(nesting, t)
    [] OTHER -> nesting

\* parserAdvance.  The brackets are followed up to the first error only.
Advance ==
  /\ consumed' = consumed + 1
  /\ \E t \in Following(consumed + 3, ahead[2]) : ahead' = <<ahead[2], t>>
  /\ nesting' = IF errors = <<>> THEN Nested(current) ELSE <<>>

Stay == UNCHANGED <<ahead, consumed, nesting>>

\* parserSyntaxError: at the current token, unless panicking already.
SyntaxError ==
  /\ errors' = IF is_panic THEN errors ELSE Append(errors, consumed + 1)
  /\ is_panic' = TRUE

NoError == UNCHANGED <<errors, is_panic>>

-----------------------------------------------------------------------------
(* The steps *)

Init ==
  /\ input \in Inputs
  /\ \E t \in Following(1, "none") : \E u \in Following(2, t) : ahead = <<t, u>>
  /\ consumed = 0
  /\ is_panic = FALSE
  /\ errors = <<>>
  /\ stack = <<<<"Program">>>>
  /\ assignable = FALSE
  /\ nesting = <<>>

step == Head(Last(stack))

\* The step is done; a function with no steps left has returned.
Rest == IF Len(Last(stack)) = 1 THEN Front(stack)
                                ELSE [stack EXCEPT ![Len(stack)] = Tail(@)]

Continue == stack' = Rest
Return   == stack' = Front(stack)

Enter ==
  /\ step \in Functions
  /\ stack' = IF StepsOf(step) = <<>> THEN Rest ELSE Append(Rest, StepsOf(step))
  /\ Stay /\ NoError /\ UNCHANGED assignable

\* parserExpect
Expect ==
  /\ step \in AllTokens
  /\ IF current = step THEN Advance /\ NoError ELSE Stay /\ SyntaxError
  /\ Continue
  /\ UNCHANGED assignable

Need ==
  \E t \in {"id", "LBRACE"} :
    /\ step = (IF t = "id" THEN "need_id" ELSE "need_LBRACE")
    /\ IF current = t THEN Advance /\ NoError /\ Continue
                      ELSE Stay /\ SyntaxError /\ Return
    /\ UNCHANGED assignable

TakeToken ==
  /\ step = "next"
  /\ Advance /\ Continue
  /\ NoError /\ UNCHANGED assignable

CheckPanic ==
  /\ step = "panic?"
  /\ IF is_panic THEN Return ELSE Continue
  /\ Stay /\ NoError /\ UNCHANGED assignable

Fail ==
  /\ step = "fail"
  /\ SyntaxError /\ Continue
  /\ Stay /\ UNCHANGED assignable

\* The end of parseBlock: a block that is not closed ends the panic it causes.
CloseBlock ==
  /\ step = "close"
  /\ \/ current = "RBRACE" /\ Advance /\ NoError
     \/ /\ current # "RBRACE" /\ Stay
        /\ errors' = IF is_panic THEN errors ELSE Append(errors, consumed + 1)
        /\ is_panic' = FALSE
  /\ Continue
  /\ UNCHANGED assignable

\* Mutant: the semicolon is left.
SynchronizeBeforeSemicolon(stop) ==
  /\ IF AtEnd \/ stop \/ current = "SEMICOLON" THEN Stay ELSE Advance
  /\ IF AtEnd \/ stop \/ current = "SEMICOLON" THEN Continue /\ is_panic' = FALSE
                                                ELSE UNCHANGED <<stack, is_panic>>
  /\ UNCHANGED <<errors, assignable>>

\* A round of the loop of a synchronizing function: skip a token, or stop at
\* a token of the caller's choice, or behind a semicolon.
Synchronize(stop) ==
  /\ IF AtEnd \/ stop THEN Stay ELSE Advance
  /\ IF AtEnd \/ stop \/ current = "SEMICOLON" THEN Continue /\ is_panic' = FALSE
                                                ELSE UNCHANGED <<stack, is_panic>>
  /\ UNCHANGED <<errors, assignable>>

SynchronizeStatement == step = "sync" /\ is_panic /\ Synchronize(current = "RBRACE")

\* parserIsTopLevelRestart
TopLevelRestart == current \in {"func", "extern"} \/ DeclarationStart

\* Mutant: parseTopLevel skips tokens after an error but stays in panic.
SynchronizeTopLevelPanicking ==
  /\ step = "resync" /\ is_panic
  /\ IF AtEnd \/ TopLevelRestart THEN Stay ELSE Advance
  /\ IF AtEnd \/ TopLevelRestart \/ current = "SEMICOLON" THEN Continue
                                                          ELSE UNCHANGED stack
  /\ UNCHANGED <<errors, is_panic, assignable>>

SynchronizeTopLevel == step = "resync" /\ is_panic /\ Synchronize(TopLevelRestart)

NothingToSynchronize ==
  /\ step \in {"sync", "resync"} /\ ~is_panic
  /\ Continue
  /\ Stay /\ NoError /\ UNCHANGED assignable

JudgeTarget ==
  /\ step \in {"yes", "no"}
  /\ assignable' = (step = "yes")
  /\ Continue
  /\ Stay /\ NoError

ParserStep ==
  /\ stack # <<>>
  /\ UNCHANGED input
  /\ \/ Enter \/ Expect \/ Need \/ TakeToken \/ CheckPanic \/ Fail \/ CloseBlock
     \/ SynchronizeStatement \/ SynchronizeTopLevel \/ NothingToSynchronize \/ JudgeTarget

Done == stack = <<>> /\ UNCHANGED vars

Next == ParserStep \/ Done

\* The parser runs by itself: it takes the step it is at.
Spec == Init /\ [][Next]_vars /\ WF_vars(ParserStep)

-----------------------------------------------------------------------------

\* The variables have their types, and no token after EOF is consumed.
TypeOK ==
  /\ input \in Inputs
  /\ ahead \in Seq(AllTokens \cup {"EOF"}) /\ Len(ahead) = 2
  /\ consumed \in 0 .. input.max
  /\ is_panic \in BOOLEAN
  /\ errors \in Seq(Nat)
  /\ stack \in Seq(Seq(Step))
  /\ assignable \in BOOLEAN

\* parserParseProgram returns on every token list: each round of its loops,
\* of the two synchronizing loops included, consumes a token or leaves.
ParsingEnds == <>(stack = <<>>)

\* No panic outlives the declaration it arose in: parseTopLevel starts every
\* declaration able to report errors, and parsing ends without a panic.  No
\* token after the end of input is consumed on the way (TypeOK).
DeclarationsStartCalm ==
  /\ TypeOK
  /\ stack = <<>> \/ Last(stack) = <<"Program">> => ~is_panic

\* Every error is further on than the one before it: recovery always gets
\* past the token it stumbled over, and no token is reported twice.  (The end
\* of input is reported once for every block that it leaves open.)
NoErrorTwice ==
  \A i \in 1 .. Len(errors) - 1 :
    errors[i] < errors[i + 1] \/ (AtEnd /\ errors[i] = consumed + 1)

\* A program without syntax errors was read to its end and has all of its
\* brackets closed in the order they were opened.
AcceptedIsNested ==
  stack = <<>> => AtEnd /\ (errors = <<>> => nesting = <<>>)
=============================================================================
