---------------------------- MODULE ParserProofs ----------------------------
(***************************************************************************)
(* Proofs about Parser, for token lists of every kind and length: panics   *)
(* end before the next declaration, no token is consumed after the end of  *)
(* input, recovery never reports the same token twice, and the brackets of *)
(* a program that is accepted are closed in the order they were opened.    *)
(***************************************************************************)
EXTENDS Parser, SequenceTheorems, TLAPS

-----------------------------------------------------------------------------
(* The steps of the functions *)

\* The frames of parserParseProgram and of a block, step by step.
P3 == <<"TopLevel", "resync", "Program">>
P2 == <<"resync", "Program">>
P1 == <<"Program">>
S3 == <<"Statement", "sync", "Statements">>
S2 == <<"sync", "Statements">>
S1 == <<"Statements">>
B3 == <<"need_LBRACE", "Statements", "close">>
B2 == <<"Statements", "close">>
B1 == <<"close">>

\* Steps that other functions take.
PlainStep ==
  Step \ {"Program", "TopLevel", "resync", "Statement", "sync", "Statements", "close"}

\* Steps that are first in the steps of their function, and that are only chosen
\* when there is a token to consume.
FirstStep == {"next", "Function", "ExternFunction", "If", "While", "For"}

\* What is chosen for a function.
LEMMA StepsUnfold ==
  /\ StepsOf("Program") = ParseProgram
  /\ StepsOf("TopLevel") = ParseTopLevel
  /\ StepsOf("Function") = ParseFunction
  /\ StepsOf("ExternFunction") = ParseExternFunction
  /\ StepsOf("Parameters") = ParseParameters
  /\ StepsOf("MoreParameters") = ParseMoreParameters
  /\ StepsOf("Parameter") = ParseParameter
  /\ StepsOf("Block") = ParseBlock
  /\ StepsOf("Statements") = ParseStatements
  /\ StepsOf("Statement") = ParseStatement
  /\ StepsOf("If") = ParseIf
  /\ StepsOf("Else") = ParseElse
  /\ StepsOf("ElseBranch") = ParseElseBranch
  /\ StepsOf("While") = ParseWhile
  /\ StepsOf("For") = ParseFor
  /\ StepsOf("ForInit") = When(current # "SEMICOLON", <<"Assign">>)
  /\ StepsOf("ForCondition") = When(current # "SEMICOLON", <<"Logical">>)
  /\ StepsOf("ForUpdate") = When(current # ")", <<"Assign">>)
  /\ StepsOf("LoopControl") = ParseLoopControl
  /\ StepsOf("ReturnValue") = When(current # "SEMICOLON", <<"Logical">>)
  /\ StepsOf("Assign") = ParseAssign
  /\ StepsOf("Initializer") = When(current = "=", <<"next", "Logical">>)
  /\ StepsOf("AssignValue") = ParseAssignValue
  /\ StepsOf("Logical") = ParseLogical
  /\ StepsOf("Operators") = ParseOperators
  /\ StepsOf("Negation") = ParseNegation
  /\ StepsOf("Factor") = ParseFactor
  /\ StepsOf("Postfix") = ParsePostfix
  /\ StepsOf("Call") = ParseCall
  /\ StepsOf("MoreArguments") = ParseMoreArguments
  /\ StepsOf("CalledPostfix") = ParseCalledPostfix
  /\ StepsOf("Type") = ParseType
  /\ StepsOf("ArrayElement") = ParseArrayElement
  /\ StepsOf("ArraySuffixes") = ParseArraySuffixes
  /\ StepsOf("ArraySize") = When(current # "]", <<"Logical">>)
  /\ StepsOf("ArrayLiteral") = ParseArrayLiteral
  /\ StepsOf("Elements") = ParseElements
  /\ StepsOf("MoreElements") = ParseMoreElements
  /\ StepsOf("Element") = ParseElement
BY DEF StepsOf


\* The steps of a function other than those of programs and blocks.
PlainSteps(s) ==
  /\ s \in Seq(PlainStep)
  /\ \A i \in 2 .. Len(s) : s[i] \notin FirstStep
  /\ s # <<>> /\ s[1] \in FirstStep => ~AtEnd

\* No steps are plain steps.
LEMMA PlainNone == PlainSteps(<<>>)
BY EmptySeq DEF PlainSteps

\* A first step, and the steps that may come after it.
MayBegin(a) == a \in PlainStep /\ (a \in FirstStep => ~AtEnd)
MayFollow == PlainStep \ FirstStep

\* Short sequences of steps are plain when their elements are.
LEMMA PlainShort ==
  ASSUME NEW a, MayBegin(a)
  PROVE  /\ PlainSteps(<<a>>)
         /\ \A b \in MayFollow : PlainSteps(<<a, b>>)
         /\ \A b, c \in MayFollow : PlainSteps(<<a, b, c>>)
         /\ \A b, c, d \in MayFollow : PlainSteps(<<a, b, c, d>>)
         /\ \A b, c, d, e \in MayFollow : PlainSteps(<<a, b, c, d, e>>)
         /\ \A b, c, d, e, f \in MayFollow : PlainSteps(<<a, b, c, d, e, f>>)
<1> USE DEF MayBegin, MayFollow, PlainSteps
<1>1. PlainSteps(<<a>>)
  OBVIOUS
<1>2. \A b \in MayFollow : PlainSteps(<<a, b>>)
  OBVIOUS
<1>3. \A b, c \in MayFollow : PlainSteps(<<a, b, c>>)
  OBVIOUS
<1>4. \A b, c, d \in MayFollow : PlainSteps(<<a, b, c, d>>)
  OBVIOUS
<1>5. \A b, c, d, e \in MayFollow : PlainSteps(<<a, b, c, d, e>>)
  OBVIOUS
<1>6. \A b, c, d, e, f \in MayFollow : PlainSteps(<<a, b, c, d, e, f>>)
  OBVIOUS
<1> QED
  BY <1>1, <1>2, <1>3, <1>4, <1>5, <1>6

\* The steps that may begin a function whatever the token is, and those that may follow.
LEMMA PlainStepSets ==
  /\ \A a \in Step \ {"Program", "TopLevel", "resync", "Statement", "sync", "Statements",
                      "close", "next", "Function", "ExternFunction", "If", "While", "For"} :
        MayBegin(a) /\ a \in MayFollow
  /\ \A a \in FirstStep : ~AtEnd => MayBegin(a)
BY DEF MayBegin, MayFollow, PlainStep, FirstStep, Step, Functions

\* The long ones.
LEMMA PlainLong ==
  ~AtEnd => /\ PlainSteps(ParseFunction) /\ PlainSteps(ParseExternFunction)
            /\ PlainSteps(ParseIf) /\ PlainSteps(ParseWhile) /\ PlainSteps(ParseFor)
<1> SUFFICES ASSUME ~AtEnd
             PROVE  /\ PlainSteps(ParseFunction) /\ PlainSteps(ParseExternFunction)
                    /\ PlainSteps(ParseIf) /\ PlainSteps(ParseWhile) /\ PlainSteps(ParseFor)
  OBVIOUS
<1> USE DEF PlainSteps, PlainStep, FirstStep, Step, AllTokens, Functions
<1>1. PlainSteps(ParseFunction)
  BY DEF ParseFunction, Signature
<1>2. PlainSteps(ParseExternFunction)
  BY DEF ParseExternFunction, Signature
<1>3. PlainSteps(ParseIf)
  BY DEF ParseIf
<1>4. PlainSteps(ParseWhile)
  BY DEF ParseWhile
<1>5. PlainSteps(ParseFor)
  BY DEF ParseFor
<1> HIDE DEF PlainSteps
<1> QED
  BY <1>1, <1>2, <1>3, <1>4, <1>5

\* Every function but those of programs and blocks has plain steps.
LEMMA PlainFunctions ==
  ASSUME NEW f \in Functions \ {"Program", "Block", "Statements"},
         f \in FirstStep => ~AtEnd
  PROVE  PlainSteps(StepsOf(f))
<1>1. CASE f = "TopLevel"
  <2>1. PlainSteps(ParseTopLevel)
    BY PlainNone, PlainShort, PlainStepSets
       DEF ParseTopLevel, DeclarationStart, current, Step, Functions, AllTokens, AtEnd, FirstStep
  <2> QED  BY <1>1, <2>1, StepsUnfold
<1>2. CASE f = "Function"
  BY <1>2, StepsUnfold, PlainLong DEF FirstStep
<1>3. CASE f = "ExternFunction"
  BY <1>3, StepsUnfold, PlainLong DEF FirstStep
<1>4. CASE f = "Parameters"
  <2>1. PlainSteps(ParseParameters)
    BY PlainNone, PlainShort, PlainStepSets
       DEF ParseParameters, When, Step, Functions, AllTokens, AtEnd, FirstStep
  <2> QED  BY <1>4, <2>1, StepsUnfold
<1>5. CASE f = "MoreParameters"
  <2>1. PlainSteps(ParseMoreParameters)
    BY PlainNone, PlainShort, PlainStepSets
       DEF ParseMoreParameters, When, Step, Functions, AllTokens, AtEnd, FirstStep
  <2> QED  BY <1>5, <2>1, StepsUnfold
<1>6. CASE f = "Parameter"
  <2>1. PlainSteps(ParseParameter)
    BY PlainNone, PlainShort, PlainStepSets
       DEF ParseParameter, Step, Functions, AllTokens, AtEnd, FirstStep
  <2> QED  BY <1>6, <2>1, StepsUnfold
<1>7. CASE f = "Statement"
  <2>1. PlainSteps(ParseStatement)
    BY PlainNone, PlainShort, PlainStepSets
       DEF ParseStatement, Step, Functions, AllTokens, AtEnd, FirstStep
  <2> QED  BY <1>7, <2>1, StepsUnfold
<1>8. CASE f = "If"
  BY <1>8, StepsUnfold, PlainLong DEF FirstStep
<1>9. CASE f = "Else"
  <2>1. PlainSteps(ParseElse)
    BY PlainNone, PlainShort, PlainStepSets
       DEF ParseElse, When, Step, Functions, AllTokens, AtEnd, FirstStep
  <2> QED  BY <1>9, <2>1, StepsUnfold
<1>10. CASE f = "ElseBranch"
  <2>1. PlainSteps(ParseElseBranch)
    BY PlainNone, PlainShort, PlainStepSets
       DEF ParseElseBranch, Step, Functions, AllTokens, AtEnd, FirstStep
  <2> QED  BY <1>10, <2>1, StepsUnfold
<1>11. CASE f = "While"
  BY <1>11, StepsUnfold, PlainLong DEF FirstStep
<1>12. CASE f = "For"
  BY <1>12, StepsUnfold, PlainLong DEF FirstStep
<1>13. CASE f = "ForInit"
  <2>1. PlainSteps(When(current # "SEMICOLON", <<"Assign">>))
    BY PlainNone, PlainShort, PlainStepSets
       DEF When, Step, Functions, AllTokens, AtEnd, FirstStep
  <2> QED  BY <1>13, <2>1, StepsUnfold
<1>14. CASE f = "ForCondition"
  <2>1. PlainSteps(When(current # "SEMICOLON", <<"Logical">>))
    BY PlainNone, PlainShort, PlainStepSets
       DEF When, Step, Functions, AllTokens, AtEnd, FirstStep
  <2> QED  BY <1>14, <2>1, StepsUnfold
<1>15. CASE f = "ForUpdate"
  <2>1. PlainSteps(When(current # ")", <<"Assign">>))
    BY PlainNone, PlainShort, PlainStepSets
       DEF When, Step, Functions, AllTokens, AtEnd, FirstStep
  <2> QED  BY <1>15, <2>1, StepsUnfold
<1>16. CASE f = "LoopControl"
  <2>1. PlainSteps(ParseLoopControl)
    BY PlainNone, PlainShort, PlainStepSets
       DEF ParseLoopControl, Step, Functions, AllTokens, AtEnd, FirstStep
  <2> QED  BY <1>16, <2>1, StepsUnfold
<1>17. CASE f = "ReturnValue"
  <2>1. PlainSteps(When(current # "SEMICOLON", <<"Logical">>))
    BY PlainNone, PlainShort, PlainStepSets
       DEF When, Step, Functions, AllTokens, AtEnd, FirstStep
  <2> QED  BY <1>17, <2>1, StepsUnfold
<1>18. CASE f = "Assign"
  <2>1. PlainSteps(ParseAssign)
    <3>1. DeclarationStart => ~AtEnd
      BY DEF DeclarationStart, AtEnd, current
    <3>2. PlainSteps(<<"Logical", "panic?", "AssignValue">>)
      BY PlainShort, PlainStepSets DEF Step, Functions
    <3>3. ~AtEnd => MayBegin("next")
      BY PlainStepSets DEF FirstStep
    <3>4. {"::", "panic?", "Type", "Initializer"} \subseteq MayFollow
      BY PlainStepSets DEF Step, Functions, AllTokens
    <3>5. ~AtEnd => PlainSteps(<<"next", "::", "panic?", "Type", "panic?", "Initializer">>)
      BY <3>3, <3>4, PlainShort
    <3> QED  BY <3>1, <3>2, <3>5 DEF ParseAssign
  <2> QED  BY <1>18, <2>1, StepsUnfold
<1>19. CASE f = "Initializer"
  <2>1. PlainSteps(When(current = "=", <<"next", "Logical">>))
    BY PlainNone, PlainShort, PlainStepSets
       DEF When, Step, Functions, AllTokens, AtEnd, FirstStep
  <2> QED  BY <1>19, <2>1, StepsUnfold
<1>20. CASE f = "AssignValue"
  <2>1. PlainSteps(ParseAssignValue)
    BY PlainNone, PlainShort, PlainStepSets
       DEF ParseAssignValue, AssignTokens, Step, Functions, AllTokens, AtEnd, FirstStep
  <2> QED  BY <1>20, <2>1, StepsUnfold
<1>21. CASE f = "Logical"
  <2>1. PlainSteps(ParseLogical)
    BY PlainNone, PlainShort, PlainStepSets
       DEF ParseLogical, Step, Functions, AllTokens, AtEnd, FirstStep
  <2> QED  BY <1>21, <2>1, StepsUnfold
<1>22. CASE f = "Operators"
  <2>1. PlainSteps(ParseOperators)
    BY PlainNone, PlainShort, PlainStepSets
       DEF ParseOperators, When, BinaryTokens, Step, Functions, AllTokens, AtEnd, FirstStep
  <2> QED  BY <1>22, <2>1, StepsUnfold
<1>23. CASE f = "Negation"
  <2>1. PlainSteps(ParseNegation)
    BY PlainNone, PlainShort, PlainStepSets
       DEF ParseNegation, PrefixTokens, Step, Functions, AllTokens, AtEnd, FirstStep
  <2> QED  BY <1>23, <2>1, StepsUnfold
<1>24. CASE f = "Factor"
  <2>1. PlainSteps(ParseFactor)
    BY PlainNone, PlainShort, PlainStepSets
       DEF ParseFactor, Step, Functions, AllTokens, AtEnd, FirstStep
  <2> QED  BY <1>24, <2>1, StepsUnfold
<1>25. CASE f = "Postfix"
  <2>1. PlainSteps(ParsePostfix)
    BY PlainNone, PlainShort, PlainStepSets
       DEF ParsePostfix, Step, Functions, AllTokens, AtEnd, FirstStep
  <2> QED  BY <1>25, <2>1, StepsUnfold
<1>26. CASE f = "Call"
  <2>1. PlainSteps(ParseCall)
    BY PlainNone, PlainShort, PlainStepSets
       DEF ParseCall, Step, Functions, AllTokens, AtEnd, FirstStep
  <2> QED  BY <1>26, <2>1, StepsUnfold
<1>27. CASE f = "MoreArguments"
  <2>1. PlainSteps(ParseMoreArguments)
    BY PlainNone, PlainShort, PlainStepSets
       DEF ParseMoreArguments, Step, Functions, AllTokens, AtEnd, FirstStep
  <2> QED  BY <1>27, <2>1, StepsUnfold
<1>28. CASE f = "CalledPostfix"
  <2>1. PlainSteps(ParseCalledPostfix)
    BY PlainNone, PlainShort, PlainStepSets
       DEF ParseCalledPostfix, Step, Functions, AllTokens, AtEnd, FirstStep
  <2> QED  BY <1>28, <2>1, StepsUnfold
<1>29. CASE f = "Type"
  <2>1. PlainSteps(ParseType)
    BY PlainNone, PlainShort, PlainStepSets
       DEF ParseType, TypeTokens, Step, Functions, AllTokens, AtEnd, FirstStep
  <2> QED  BY <1>29, <2>1, StepsUnfold
<1>30. CASE f = "ArrayElement"
  <2>1. PlainSteps(ParseArrayElement)
    BY PlainNone, PlainShort, PlainStepSets
       DEF ParseArrayElement, Step, Functions, AllTokens, AtEnd, FirstStep
  <2> QED  BY <1>30, <2>1, StepsUnfold
<1>31. CASE f = "ArraySuffixes"
  <2>1. PlainSteps(ParseArraySuffixes)
    BY PlainNone, PlainShort, PlainStepSets
       DEF ParseArraySuffixes, When, Step, Functions, AllTokens, AtEnd, FirstStep
  <2> QED  BY <1>31, <2>1, StepsUnfold
<1>32. CASE f = "ArraySize"
  <2>1. PlainSteps(When(current # "]", <<"Logical">>))
    BY PlainNone, PlainShort, PlainStepSets
       DEF When, Step, Functions, AllTokens, AtEnd, FirstStep
  <2> QED  BY <1>32, <2>1, StepsUnfold
<1>33. CASE f = "ArrayLiteral"
  <2>1. PlainSteps(ParseArrayLiteral)
    BY PlainNone, PlainShort, PlainStepSets
       DEF ParseArrayLiteral, Step, Functions, AllTokens, AtEnd, FirstStep
  <2> QED  BY <1>33, <2>1, StepsUnfold
<1>34. CASE f = "Elements"
  <2>1. PlainSteps(ParseElements)
    BY PlainNone, PlainShort, PlainStepSets
       DEF ParseElements, Step, Functions, AllTokens, AtEnd, FirstStep
  <2> QED  BY <1>34, <2>1, StepsUnfold
<1>35. CASE f = "MoreElements"
  <2>1. PlainSteps(ParseMoreElements)
    BY PlainNone, PlainShort, PlainStepSets
       DEF ParseMoreElements, Step, Functions, AllTokens, AtEnd, FirstStep
  <2> QED  BY <1>35, <2>1, StepsUnfold
<1>36. CASE f = "Element"
  <2>1. PlainSteps(ParseElement)
    BY PlainNone, PlainShort, PlainStepSets
       DEF ParseElement, Step, Functions, AllTokens, AtEnd, FirstStep
  <2> QED  BY <1>36, <2>1, StepsUnfold
<1> QED
  BY <1>1, <1>2, <1>3, <1>4, <1>5, <1>6, <1>7, <1>8, <1>9, <1>10, <1>11, <1>12, <1>13, <1>14,
     <1>15, <1>16, <1>17, <1>18, <1>19, <1>20, <1>21, <1>22, <1>23, <1>24, <1>25, <1>26,
     <1>27, <1>28, <1>29, <1>30, <1>31, <1>32, <1>33, <1>34, <1>35, <1>36 DEF Functions

-----------------------------------------------------------------------------
(* The shape of the stack *)

ProgramFrames   == {P1, P2, P3}
StatementFrames == {S1, S2, S3}
BlockFrames     == {B1, B2, B3}
PlainFrames     == Seq(PlainStep) \ {<<>>}

\* What is under what: the program at the bottom, waiting to resynchronize while
\* anything else runs; the statements of a block on the end of the block.
Shape(st) ==
  /\ st \in Seq(Seq(Step))
  /\ Len(st) >= 1 => st[1] \in ProgramFrames
  /\ Len(st) >= 2 => st[1] = P2
  /\ \A k \in 2 .. Len(st) : st[k] \in PlainFrames \cup StatementFrames \cup BlockFrames
  /\ \A k \in 2 .. Len(st) : st[k] \in StatementFrames => st[k - 1] = B1
  /\ \A k \in 2 .. Len(st) : st[k - 1] = B1 => st[k] \in StatementFrames

\* Steps that need a token are only at the very top.
NoFirst(st) ==
  \A k \in 1 .. Len(st) : \A i \in 1 .. Len(st[k]) : st[k][i] \notin FirstStep
FirstOnTop(st) ==
  \A k \in 1 .. Len(st) : \A i \in 1 .. Len(st[k]) :
    st[k][i] \in FirstStep => k = Len(st) /\ i = 1

\* The frames, step by step.
LEMMA FrameFacts ==
  /\ P1 \in Seq(Step) /\ Len(P1) = 1 /\ Head(P1) = "Program"
  /\ P2 \in Seq(Step) /\ Len(P2) = 2 /\ Head(P2) = "resync" /\ Tail(P2) = P1
  /\ P3 \in Seq(Step) /\ Len(P3) = 3 /\ Head(P3) = "TopLevel" /\ Tail(P3) = P2
  /\ S1 \in Seq(Step) /\ Len(S1) = 1 /\ Head(S1) = "Statements"
  /\ S2 \in Seq(Step) /\ Len(S2) = 2 /\ Head(S2) = "sync" /\ Tail(S2) = S1
  /\ S3 \in Seq(Step) /\ Len(S3) = 3 /\ Head(S3) = "Statement" /\ Tail(S3) = S2
  /\ B1 \in Seq(Step) /\ Len(B1) = 1 /\ Head(B1) = "close"
  /\ B2 \in Seq(Step) /\ Len(B2) = 2 /\ Head(B2) = "Statements" /\ Tail(B2) = B1
  /\ B3 \in Seq(Step) /\ Len(B3) = 3 /\ Head(B3) = "need_LBRACE" /\ Tail(B3) = B2
BY DEF P1, P2, P3, S1, S2, S3, B1, B2, B3, Step, Functions

\* Their sizes and first steps only.
LEMMA FrameSizes ==
  /\ Len(P1) = 1 /\ Len(P2) = 2 /\ Len(P3) = 3
  /\ Len(S1) = 1 /\ Len(S2) = 2 /\ Len(S3) = 3
  /\ Len(B1) = 1 /\ Len(B2) = 2 /\ Len(B3) = 3
BY FrameFacts

\* Those with one step.
LEMMA SingleFrames ==
  ASSUME NEW f \in ProgramFrames \cup StatementFrames \cup BlockFrames, Len(f) = 1
  PROVE  f \in {P1, S1, B1}
BY FrameSizes DEF ProgramFrames, StatementFrames, BlockFrames

\* The three kinds are disjoint.
LEMMA KindsDisjoint ==
  /\ ProgramFrames \cap StatementFrames = {}
  /\ ProgramFrames \cap BlockFrames = {}
  /\ StatementFrames \cap BlockFrames = {}
BY FrameFacts DEF ProgramFrames, StatementFrames, BlockFrames

\* Plain frames begin with a plain step, and what is left of one is one.
LEMMA PlainFrameFacts ==
  ASSUME NEW f \in PlainFrames
  PROVE  /\ f \in Seq(Step) /\ Len(f) \in Nat /\ Len(f) >= 1
         /\ Head(f) \in PlainStep /\ Head(f) = f[1]
         /\ Len(f) # 1 => Tail(f) \in PlainFrames
<1>1. f \in Seq(PlainStep) /\ f # <<>>
  BY DEF PlainFrames
<1>2. Len(f) \in Nat /\ Len(f) >= 1 /\ Head(f) = f[1] /\ Head(f) \in PlainStep
  BY <1>1
<1>3. Tail(f) \in Seq(PlainStep) /\ (Len(f) # 1 => Tail(f) # <<>>)
  <2>1. Tail(f) \in Seq(PlainStep) /\ Len(Tail(f)) = Len(f) - 1
    BY <1>1, HeadTailProperties
  <2>2. Len(f) # 1 => Len(Tail(f)) # 0
    BY <1>2, <2>1
  <2> QED  BY <2>1, <2>2, EmptySeq
<1>4. f \in Seq(Step)
  BY <1>1, SeqMonotonic DEF PlainStep
<1> QED
  BY <1>2, <1>3, <1>4 DEF PlainFrames

\* The special steps are not plain.
LEMMA NotPlain ==
  {"Program", "TopLevel", "resync", "Statement", "sync", "Statements", "close"}
    \cap PlainStep = {}
BY DEF PlainStep

\* What is on top of the stack.
LEMMA Top ==
  ASSUME NEW st, Shape(st), st # <<>>
  PROVE  /\ Len(st) \in Nat /\ Len(st) >= 1
         /\ Last(st) = st[Len(st)]
         /\ Last(st) \in ProgramFrames \cup PlainFrames \cup StatementFrames \cup BlockFrames
         /\ Last(st) \in ProgramFrames => Len(st) = 1
         /\ Len(st) = 1 => Last(st) \in ProgramFrames
         /\ Last(st) \in Seq(Step) /\ Last(st) # <<>>
         /\ Len(Last(st)) \in Nat /\ Len(Last(st)) >= 1
<1>1. Len(st) \in Nat /\ Len(st) >= 1 /\ Last(st) = st[Len(st)]
  BY DEF Shape, Last
<1>2. Len(st) = 1 => Last(st) \in ProgramFrames
  BY <1>1 DEF Shape
<1>3. Len(st) # 1 => Last(st) \in PlainFrames \cup StatementFrames \cup BlockFrames
  <2> PICK n : n = Len(st)
    OBVIOUS
  <2>1. \A k \in 2 .. n : st[k] \in PlainFrames \cup StatementFrames \cup BlockFrames
    BY DEF Shape
  <2>2. n \in Nat /\ n >= 1
    BY <1>1
  <2>3. n # 1 => n \in 2 .. n
    BY <2>2
  <2> QED  BY <1>1, <2>1, <2>3
<1>4. Last(st) \in ProgramFrames \cup StatementFrames \cup BlockFrames
        => /\ Last(st) \in Seq(Step) /\ Len(Last(st)) \in {1, 2, 3}
  BY FrameFacts DEF ProgramFrames, StatementFrames, BlockFrames
<1>5. Last(st) \in PlainFrames
        => /\ Last(st) \in Seq(Step) /\ Len(Last(st)) \in Nat /\ Len(Last(st)) >= 1
  BY PlainFrameFacts
<1>6. Last(st) \in Seq(Step) /\ Len(Last(st)) \in Nat /\ Len(Last(st)) >= 1
  BY <1>2, <1>3, <1>4, <1>5
<1>7. Last(st) # <<>>
  BY <1>6
<1>8. Last(st) \in ProgramFrames => Last(st) \notin PlainFrames \cup StatementFrames \cup BlockFrames
  BY FrameFacts, PlainFrameFacts, NotPlain DEF ProgramFrames, StatementFrames, BlockFrames
<1> QED
  BY <1>1, <1>2, <1>3, <1>6, <1>7, <1>8

\* The frame on top, by the step it is at.
LEMMA TopByStep ==
  ASSUME Shape(stack), stack # <<>>
  PROVE  /\ step \in Step
         /\ step = "Program" <=> Last(stack) = P1
         /\ step = "resync" <=> Last(stack) = P2
         /\ step = "TopLevel" <=> Last(stack) = P3
         /\ step = "Statements" <=> Last(stack) \in {S1, B2}
         /\ step = "sync" <=> Last(stack) = S2
         /\ step = "Statement" <=> Last(stack) = S3
         /\ step = "close" <=> Last(stack) = B1
         /\ step \in PlainStep <=> Last(stack) \in PlainFrames \cup {B3}
<1>1. Last(stack) \in ProgramFrames \cup PlainFrames \cup StatementFrames \cup BlockFrames
  BY Top
<1>2. CASE Last(stack) \in PlainFrames
  <2>1. step \in PlainStep
    BY <1>2, PlainFrameFacts DEF step
  <2>2. step \in Step
    BY <2>1 DEF PlainStep
  <2>3. \A f \in {P1, P2, P3, S1, S2, S3, B1, B2} : f # Last(stack)
    BY <2>1, FrameFacts, NotPlain DEF step
  <2> QED  BY <1>2, <2>1, <2>2, <2>3, NotPlain
<1>3. CASE Last(stack) \notin PlainFrames
  <2>1. "need_LBRACE" \in PlainStep
    BY DEF PlainStep, Step
  <2>2. Last(stack) \in {P1, P2, P3, S1, S2, S3, B1, B2, B3}
    BY <1>1, <1>3 DEF ProgramFrames, StatementFrames, BlockFrames
  <2>3. step \in Step
    BY <2>2, FrameFacts DEF step, Step, Functions
  <2> QED  BY <1>3, <2>1, <2>2, <2>3, FrameFacts, NotPlain DEF step
<1> QED
  BY <1>2, <1>3

\* What is left of the stack when a step is done.
LEMMA RestFacts ==
  ASSUME Shape(stack), stack # <<>>
  PROVE  /\ Rest \in Seq(Seq(Step))
         /\ Len(Rest) = IF Len(Last(stack)) = 1 THEN Len(stack) - 1 ELSE Len(stack)
         /\ \A k \in 1 .. Len(stack) - 1 : Rest[k] = stack[k]
         /\ Len(Last(stack)) # 1 => Rest[Len(stack)] = Tail(Last(stack))
<1> PICK n : n = Len(stack)
  OBVIOUS
<1>1. /\ n \in Nat /\ n >= 1 /\ Last(stack) = stack[n] /\ stack \in Seq(Seq(Step))
      /\ Last(stack) \in Seq(Step) /\ Last(stack) # <<>>
  BY Top DEF Shape
<1>2. CASE Len(Last(stack)) = 1
  <2>1. Rest = SubSeq(stack, 1, n - 1)
    BY <1>2 DEF Rest, Front
  <2>2. /\ Rest \in Seq(Seq(Step)) /\ Len(Rest) = n - 1
        /\ \A k \in 1 .. n - 1 : Rest[k] = stack[k]
    BY <1>1, <2>1
  <2> QED  BY <1>2, <2>2
<1>3. CASE Len(Last(stack)) # 1
  <2>1. Tail(stack[n]) \in Seq(Step)
    BY <1>1, HeadTailProperties
  <2>2. Rest = [stack EXCEPT ![n] = Tail(stack[n])]
    BY <1>3, <1>1 DEF Rest
  <2>3. /\ Rest \in Seq(Seq(Step)) /\ Len(Rest) = n
        /\ \A k \in 1 .. n - 1 : Rest[k] = stack[k]
        /\ Rest[n] = Tail(stack[n])
    BY <1>1, <2>1, <2>2, ExceptSeq
  <2> QED  BY <1>1, <1>3, <2>3
<1> QED
  BY <1>2, <1>3

\* A program that runs nothing.
LEMMA OneFrame ==
  ASSUME NEW st \in Seq(Seq(Step)), Len(st) = 1, st[1] \in ProgramFrames
  PROVE  Shape(st)
BY DEF Shape

\* The steps left after one is done: what remains has the shape, and by the
\* step that was done, what is on top.
LEMMA RestShape ==
  ASSUME Shape(stack), stack # <<>>
  PROVE  /\ Shape(Rest)
         /\ step \notin {"Program", "TopLevel", "resync"} => Len(Rest) >= 1 /\ Rest[1] = P2
         /\ step = "TopLevel" => Len(Rest) = 1 /\ Rest[1] = P2
         /\ step = "resync" => Len(Rest) = 1 /\ Rest[1] = P1
         /\ step = "Program" => Len(Rest) = 0
         /\ step = "Statements" => Len(Rest) >= 1 /\ Rest[Len(Rest)] = B1
         /\ Len(Rest) >= 1 /\ Rest[Len(Rest)] = B1 => step = "Statements"
<1> PICK n : n = Len(stack)
  OBVIOUS
<1> PICK f : f = Last(stack)
  OBVIOUS
<1> PICK r : r = Rest
  OBVIOUS
<1>1. /\ n \in Nat /\ n >= 1 /\ f = stack[n]
      /\ f \in ProgramFrames \cup PlainFrames \cup StatementFrames \cup BlockFrames
      /\ f \in ProgramFrames <=> n = 1
      /\ Len(f) \in Nat /\ Len(f) >= 1
  BY Top
<1>2. /\ r \in Seq(Seq(Step)) /\ Len(r) = IF Len(f) = 1 THEN n - 1 ELSE n
      /\ \A k \in 1 .. n - 1 : r[k] = stack[k]
      /\ Len(f) # 1 => r[n] = Tail(f)
  BY RestFacts
<1>3. /\ n >= 2 => stack[1] = P2
      /\ \A k \in 2 .. n : stack[k] \in PlainFrames \cup StatementFrames \cup BlockFrames
      /\ \A k \in 2 .. n : stack[k] \in StatementFrames => stack[k - 1] = B1
      /\ \A k \in 2 .. n : stack[k - 1] = B1 => stack[k] \in StatementFrames
  BY DEF Shape
<1>4. CASE n = 1
  <2>1. f \in {P1, P2, P3} /\ f = stack[1]
    BY <1>1, <1>4 DEF ProgramFrames
  <2>2. CASE f = P1
    <3>1. Len(r) = 0 /\ step = "Program"
      BY <1>2, <1>4, <2>2, FrameFacts, TopByStep
    <3>2. Shape(r)
      BY <1>2, <3>1 DEF Shape
    <3> QED  BY <3>1, <3>2
  <2>3. CASE f = P2
    <3>1. Len(r) = 1 /\ step = "resync" /\ r[1] = P1
      <4>1. step = "resync" /\ Len(f) = 2 /\ Tail(f) = P1
        BY <2>3, FrameFacts, TopByStep
      <4>2. Len(f) # 1
        BY <4>1
      <4>3. r[n] = Tail(f)
        BY <1>2, <4>2
      <4>4. Len(r) = n
        BY <1>2, <4>2
      <4> QED  BY <1>4, <4>1, <4>3, <4>4
    <3>2. Shape(r)
      BY <1>2, <3>1, OneFrame DEF ProgramFrames
    <3>3. P1 # B1
      BY FrameFacts
    <3> QED  BY <3>1, <3>2, <3>3
  <2>4. CASE f = P3
    <3>1. Len(r) = 1 /\ step = "TopLevel" /\ r[1] = P2
      <4>1. step = "TopLevel" /\ Len(f) = 3 /\ Tail(f) = P2
        BY <2>4, FrameFacts, TopByStep
      <4>2. Len(f) # 1
        BY <4>1
      <4>3. r[n] = Tail(f)
        BY <1>2, <4>2
      <4>4. Len(r) = n
        BY <1>2, <4>2
      <4> QED  BY <1>4, <4>1, <4>3, <4>4
    <3>2. Shape(r)
      BY <1>2, <3>1, OneFrame DEF ProgramFrames
    <3>3. P2 # B1
      BY FrameFacts
    <3> QED  BY <3>1, <3>2, <3>3
  <2> QED  BY <2>1, <2>2, <2>3, <2>4
<1>5. CASE n # 1 /\ Len(f) = 1
  <2>1. n >= 2 /\ Len(r) = n - 1
    BY <1>1, <1>2, <1>5
  <2>2. Shape(r)
    <3>1. \A k \in 1 .. n - 1 : r[k] = stack[k]
      BY <1>2
    <3>2. r[1] = P2
      BY <2>1, <1>3, <3>1
    <3>3. \A k \in 2 .. n - 1 : r[k] \in PlainFrames \cup StatementFrames \cup BlockFrames
      BY <1>3, <3>1, <1>1
    <3>4. \A k \in 2 .. n - 1 : r[k] = stack[k] /\ r[k - 1] = stack[k - 1]
      BY <3>1, <1>1
    <3>5. /\ \A k \in 2 .. n - 1 : r[k] \in StatementFrames => r[k - 1] = B1
          /\ \A k \in 2 .. n - 1 : r[k - 1] = B1 => r[k] \in StatementFrames
      BY <1>3, <3>4, <1>1
    <3> QED  BY <1>2, <2>1, <3>2, <3>3, <3>5 DEF Shape, ProgramFrames
  <2>3. Len(r) >= 1 /\ r[1] = P2
    BY <2>1, <1>2, <1>3
  <2>4. f \in {S1, B1} \cup PlainFrames
    <3>1. f \notin ProgramFrames
      BY <1>1, <1>5
    <3>2. f \in PlainFrames \cup {P1, S1, B1}
      BY <1>1, <1>5, SingleFrames
    <3>3. P1 \in ProgramFrames
      BY DEF ProgramFrames
    <3> QED  BY <3>1, <3>2, <3>3
  <2>5. f = S1 <=> step = "Statements"
    BY <1>5, TopByStep, FrameFacts
  <2>6. r[n - 1] = stack[n - 1]
    BY <2>1, <1>2
  <2>7. /\ f \in StatementFrames => r[n - 1] = B1
        /\ r[n - 1] = B1 => f \in StatementFrames
    <3>1. n \in 2 .. n
      BY <2>1, <1>1
    <3> QED  BY <1>3, <3>1, <2>6, <1>1
  <2>8. S1 \in StatementFrames
    BY DEF StatementFrames
  <2>9. f \in StatementFrames => f = S1
    <3>1. f \in StatementFrames => f \in {P1, S1, B1}
      BY <1>5, SingleFrames
    <3> QED  BY <3>1, KindsDisjoint DEF ProgramFrames, BlockFrames
  <2>10. step \notin {"Program", "TopLevel", "resync"}
    BY <1>1, <1>5, TopByStep DEF ProgramFrames
  <2> QED  BY <2>1, <2>2, <2>3, <2>5, <2>7, <2>8, <2>9, <2>10
<1>6. CASE n # 1 /\ Len(f) # 1
  <2>1. n >= 2 /\ Len(r) = n /\ r[n] = Tail(f)
    BY <1>1, <1>2, <1>6
  <2>2. f \in PlainFrames \cup {S2, S3, B2, B3}
    BY <1>1, <1>6, FrameFacts DEF ProgramFrames, StatementFrames, BlockFrames
  <2>3. /\ f \in PlainFrames => r[n] \in PlainFrames
        /\ f = S2 => r[n] = S1
        /\ f = S3 => r[n] = S2
        /\ f = B2 => r[n] = B1
        /\ f = B3 => r[n] = B2
    BY <2>1, <1>6, PlainFrameFacts, FrameFacts
  <2>4. \A g \in PlainFrames : g \notin StatementFrames /\ g \notin {B1, B2}
    BY PlainFrameFacts, FrameFacts, NotPlain DEF StatementFrames
  <2>5. {B1, B2, B3} \cap StatementFrames = {}
    BY FrameFacts DEF StatementFrames
  <2>6. /\ r[n] \in PlainFrames \cup StatementFrames \cup BlockFrames
        /\ r[n] \in StatementFrames <=> f \in StatementFrames
    BY <2>2, <2>3, <2>4, <2>5 DEF StatementFrames, BlockFrames
  <2>7. r[n] = B1 <=> step = "Statements"
    <3>1. step = "Statements" <=> f = B2
      BY TopByStep, <1>6, FrameFacts
    <3>2. B1 \notin {S1, S2, B2}
      BY FrameFacts
    <3> QED  BY <2>2, <2>3, <2>4, <3>1, <3>2
  <2>8. Shape(r)
    <3>1. \A k \in 2 .. n : k # n => r[k] = stack[k] /\ r[k - 1] = stack[k - 1]
      <4> SUFFICES ASSUME NEW k \in 2 .. n, k # n
                   PROVE  r[k] = stack[k] /\ r[k - 1] = stack[k - 1]
        OBVIOUS
      <4>1. k \in 1 .. n - 1 /\ k - 1 \in 1 .. n - 1
        BY <1>1
      <4> QED  BY <1>2, <4>1
    <3>2. r[1] = P2 /\ r[n - 1] = stack[n - 1]
      BY <2>1, <1>2, <1>3
    <3>3. \A k \in 2 .. n : r[k] \in PlainFrames \cup StatementFrames \cup BlockFrames
      BY <1>3, <3>1, <2>6, <1>1
    <3>4. \A k \in 2 .. n : r[k] \in StatementFrames => r[k - 1] = B1
      BY <1>3, <3>1, <3>2, <2>6, <1>1, <2>1
    <3>5. \A k \in 2 .. n : r[k - 1] = B1 => r[k] \in StatementFrames
      BY <1>3, <3>1, <3>2, <2>6, <1>1, <2>1
    <3> QED  BY <1>2, <2>1, <3>2, <3>3, <3>4, <3>5 DEF Shape, ProgramFrames
  <2>9. step \notin {"Program", "TopLevel", "resync"}
    BY <1>1, <1>6, TopByStep DEF ProgramFrames
  <2>10. Len(r) >= 1 /\ r[1] = P2
    BY <2>1, <1>2, <1>3
  <2> QED  BY <2>1, <2>7, <2>8, <2>9, <2>10
<1> QED
  BY <1>4, <1>5, <1>6

\* A function that returns early is a plain one, or a block that is not there.
LEMMA FrontShape ==
  ASSUME Shape(stack), stack # <<>>, step \in PlainStep
  PROVE  /\ Shape(Front(stack)) /\ Front(stack) \in Seq(Seq(Step))
         /\ Len(Front(stack)) = Len(stack) - 1
         /\ \A k \in 1 .. Len(stack) - 1 : Front(stack)[k] = stack[k]
         /\ Len(Front(stack)) >= 1 /\ Front(stack)[1] = P2
         /\ Front(stack)[Len(Front(stack))] # B1
<1> PICK n : n = Len(stack)
  OBVIOUS
<1> PICK f : f = Last(stack)
  OBVIOUS
<1> PICK r : r = Front(stack)
  OBVIOUS
<1>1. /\ n \in Nat /\ n >= 1 /\ f = stack[n] /\ stack \in Seq(Seq(Step))
      /\ f \in ProgramFrames <=> n = 1
  BY Top DEF Shape
<1>2. f \in PlainFrames \cup {B3}
  BY TopByStep
<1>3. f \notin ProgramFrames /\ f \notin StatementFrames
  <2>1. \A g \in PlainFrames : g \notin ProgramFrames /\ g \notin StatementFrames
    BY PlainFrameFacts, FrameFacts, NotPlain DEF ProgramFrames, StatementFrames
  <2>2. B3 \in BlockFrames
    BY DEF BlockFrames
  <2> QED  BY <1>2, <2>1, <2>2, KindsDisjoint
<1>4. n >= 2
  BY <1>1, <1>3
<1>5. /\ r \in Seq(Seq(Step)) /\ Len(r) = n - 1
      /\ \A k \in 1 .. n - 1 : r[k] = stack[k]
  <2>1. r = SubSeq(stack, 1, n - 1)
    BY DEF Front
  <2> QED  BY <1>1, <2>1
<1>6. /\ stack[1] = P2
      /\ \A k \in 2 .. n : stack[k] \in PlainFrames \cup StatementFrames \cup BlockFrames
      /\ \A k \in 2 .. n : stack[k] \in StatementFrames => stack[k - 1] = B1
      /\ \A k \in 2 .. n : stack[k - 1] = B1 => stack[k] \in StatementFrames
  BY <1>4 DEF Shape
<1>7. r[1] = P2
  BY <1>4, <1>5, <1>6
<1>8. Shape(r)
  <2>1. \A k \in 2 .. n - 1 : r[k] \in PlainFrames \cup StatementFrames \cup BlockFrames
    BY <1>5, <1>6, <1>1
  <2>2. \A k \in 2 .. n - 1 : r[k] = stack[k] /\ r[k - 1] = stack[k - 1]
    BY <1>5, <1>1
  <2>3. /\ \A k \in 2 .. n - 1 : r[k] \in StatementFrames => r[k - 1] = B1
        /\ \A k \in 2 .. n - 1 : r[k - 1] = B1 => r[k] \in StatementFrames
    BY <1>6, <2>2, <1>1
  <2> QED  BY <1>1, <1>4, <1>5, <1>7, <2>1, <2>3 DEF Shape, ProgramFrames
<1>9. r[n - 1] # B1
  <2>1. n \in 2 .. n /\ r[n - 1] = stack[n - 1]
    BY <1>1, <1>4, <1>5
  <2> QED  BY <1>1, <1>3, <1>6, <2>1
<1> QED
  BY <1>1, <1>4, <1>5, <1>7, <1>8, <1>9

\* Entering a function.
LEMMA PushShape ==
  ASSUME NEW st, Shape(st), Len(st) >= 1, st[1] = P2,
         NEW f \in PlainFrames \cup {B3, S3},
         f = S3 <=> st[Len(st)] = B1
  PROVE  /\ Shape(Append(st, f))
         /\ Len(Append(st, f)) = Len(st) + 1
         /\ Last(Append(st, f)) = f
         /\ \A k \in 1 .. Len(st) : Append(st, f)[k] = st[k]
         /\ Append(st, f)[Len(st) + 1] = f
<1> PICK n : n = Len(st)
  OBVIOUS
<1> PICK r : r = Append(st, f)
  OBVIOUS
<1>1. st \in Seq(Seq(Step)) /\ n \in Nat /\ n >= 1
  BY DEF Shape
<1>2. f \in Seq(Step)
  BY PlainFrameFacts, FrameFacts
<1>3. /\ r \in Seq(Seq(Step)) /\ Len(r) = n + 1
      /\ \A k \in 1 .. n : r[k] = st[k]
      /\ r[n + 1] = f
  BY <1>1, <1>2, AppendProperties
<1>4. Last(r) = f
  BY <1>3 DEF Last
<1>5. /\ \A k \in 2 .. n : st[k] \in PlainFrames \cup StatementFrames \cup BlockFrames
      /\ \A k \in 2 .. n : st[k] \in StatementFrames => st[k - 1] = B1
      /\ \A k \in 2 .. n : st[k - 1] = B1 => st[k] \in StatementFrames
  BY DEF Shape
<1>6. /\ f \in PlainFrames \cup StatementFrames \cup BlockFrames
      /\ f \in StatementFrames <=> f = S3
  <2>1. \A g \in PlainFrames : g \notin StatementFrames
    BY PlainFrameFacts, FrameFacts, NotPlain DEF StatementFrames
  <2>2. B3 \in BlockFrames /\ S3 \in StatementFrames
    BY DEF BlockFrames, StatementFrames
  <2> QED  BY <2>1, <2>2, KindsDisjoint
<1>7. Shape(r)
  <2>1. \A k \in 2 .. n : r[k] = st[k] /\ r[k - 1] = st[k - 1]
    BY <1>1, <1>3
  <2>2. r[n + 1 - 1] = st[n] /\ r[1] = P2
    BY <1>1, <1>3
  <2>3. \A k \in 2 .. n + 1 : k # n + 1 => k \in 2 .. n
    BY <1>1
  <2>4. \A k \in 2 .. n + 1 : r[k] \in PlainFrames \cup StatementFrames \cup BlockFrames
    BY <1>3, <1>5, <1>6, <2>1, <2>3
  <2>5. \A k \in 2 .. n + 1 : r[k] \in StatementFrames => r[k - 1] = B1
    BY <1>3, <1>5, <1>6, <2>1, <2>2, <2>3
  <2>6. \A k \in 2 .. n + 1 : r[k - 1] = B1 => r[k] \in StatementFrames
    BY <1>3, <1>5, <1>6, <2>1, <2>2, <2>3
  <2> QED  BY <1>1, <1>3, <2>2, <2>4, <2>5, <2>6 DEF Shape, ProgramFrames
<1> QED
  BY <1>3, <1>4, <1>7

\* Once a step is done, or a function has returned, no step that needs a token is left.
LEMMA RestNoFirst ==
  ASSUME Shape(stack), stack # <<>>, FirstOnTop(stack)
  PROVE  NoFirst(Rest)
<1> PICK n : n = Len(stack)
  OBVIOUS
<1>1. /\ n \in Nat /\ n >= 1 /\ Last(stack) = stack[n]
      /\ Last(stack) \in Seq(Step) /\ Last(stack) # <<>>
      /\ Len(Last(stack)) \in Nat
  BY Top
<1>2. \A k \in 1 .. n : \A i \in 1 .. Len(stack[k]) : stack[k][i] \in FirstStep => k = n /\ i = 1
  BY DEF FirstOnTop
<1>3. \A k \in 1 .. n - 1 : \A i \in 1 .. Len(Rest[k]) : Rest[k][i] \notin FirstStep
  <2>1. \A k \in 1 .. n - 1 : Rest[k] = stack[k] /\ k \in 1 .. n /\ k # n
    BY <1>1, RestFacts
  <2> QED  BY <1>2, <2>1
<1>4. CASE Len(Last(stack)) = 1
  <2>1. Len(Rest) = n - 1
    BY <1>4, RestFacts
  <2> QED  BY <1>3, <2>1 DEF NoFirst
<1>5. CASE Len(Last(stack)) # 1
  <2>1. Len(Rest) = n /\ Rest[n] = Tail(stack[n])
    BY <1>1, <1>5, RestFacts
  <2>2. /\ Len(Rest[n]) = Len(stack[n]) - 1
        /\ \A i \in 1 .. Len(stack[n]) - 1 : Rest[n][i] = stack[n][i + 1]
    BY <1>1, <2>1, HeadTailProperties
  <2>3. \A i \in 1 .. Len(Rest[n]) : Rest[n][i] \notin FirstStep
    <3> SUFFICES ASSUME NEW i \in 1 .. Len(Rest[n])
                 PROVE  Rest[n][i] \notin FirstStep
      OBVIOUS
    <3>1. i + 1 \in 1 .. Len(stack[n]) /\ i + 1 # 1 /\ Rest[n][i] = stack[n][i + 1]
      BY <1>1, <2>2
    <3>2. n \in 1 .. n
      BY <1>1
    <3> QED  BY <1>2, <3>1, <3>2
  <2>4. \A k \in 1 .. n : k = n \/ k \in 1 .. n - 1
    BY <1>1
  <2> QED  BY <1>3, <2>1, <2>3, <2>4 DEF NoFirst
<1> QED
  BY <1>4, <1>5

-----------------------------------------------------------------------------
(* The invariant *)

\* The tokens ahead are within the input.
TokensInv ==
  /\ ahead[1] # "EOF" => consumed + 1 <= input.max
  /\ ahead[2] # "EOF" => consumed + 2 <= input.max

\* The stack has its shape, and steps that need a token have one.
StackInv ==
  /\ Shape(stack)
  /\ FirstOnTop(stack)
  /\ stack # <<>> /\ step \in FirstStep => ~AtEnd

\* A block ends at a closing brace or at the end of input, the program at the
\* end of input.
EndsInv ==
  /\ stack # <<>> /\ Last(stack) = B1 => AtEnd \/ current = "RBRACE"
  /\ stack = <<>> => AtEnd

\* There is no panic before a declaration or at the end.
CalmInv == (stack # <<>> => Last(stack) \in {P1, P3}) => ~is_panic

\* The parser is on its way from the token it resumed at.
Resuming ==
  \/ current = "RBRACE" /\ Last(stack) \in {S1, B1}
  \/ step \in {"Program", "TopLevel"} /\ TopLevelRestart
  \/ step = "Assign" /\ DeclarationStart
  \/ step \in {"Function", "ExternFunction", "next"}

\* The last error is behind, or it is being recovered from.
ErrorsInv ==
  /\ \A i \in 1 .. Len(errors) : errors[i] <= consumed + 1
  /\ NoErrorTwice
  /\ errors # <<>> /\ Last(errors) = consumed + 1
       => is_panic \/ AtEnd \/ (stack # <<>> /\ Resuming)

ParserInv == TypeOK /\ TokensInv /\ StackInv /\ EndsInv /\ CalmInv /\ ErrorsInv

-----------------------------------------------------------------------------
(* The steps *)

\* Tokens are consumed one at a time, and never the end of input.
LEMMA Moves ==
  ASSUME StackInv, ParserStep
  PROVE  Stay \/ (Advance /\ ~AtEnd)
<1>1. stack # <<>>
  BY DEF ParserStep
<1>2. CASE Enter \/ CheckPanic \/ Fail \/ NothingToSynchronize \/ JudgeTarget
  BY <1>2 DEF Enter, CheckPanic, Fail, NothingToSynchronize, JudgeTarget
<1>3. CASE Expect
  <2>1. "EOF" \notin AllTokens
    BY DEF AllTokens
  <2> QED  BY <1>3, <2>1 DEF Expect, AtEnd
<1>4. CASE Need
  BY <1>4 DEF Need, AtEnd
<1>5. CASE TakeToken
  BY <1>1, <1>5 DEF TakeToken, StackInv, FirstStep
<1>6. CASE CloseBlock
  BY <1>6 DEF CloseBlock, AtEnd
<1>7. CASE SynchronizeStatement
  BY <1>7 DEF SynchronizeStatement, Synchronize
<1>8. CASE SynchronizeTopLevel
  BY <1>8 DEF SynchronizeTopLevel, Synchronize
<1> QED
  BY <1>2, <1>3, <1>4, <1>5, <1>6, <1>7, <1>8 DEF ParserStep

\* What follows is a token of the input.
LEMMA FollowingIsToken ==
  ASSUME input \in Inputs, NEW k \in Nat \ {0}, NEW t, NEW u \in Following(k, t)
  PROVE  u \in AllTokens \cup {"EOF"} /\ (u # "EOF" => k <= input.max)
<1>1. /\ input.prefix \in Seq(AllTokens) /\ input.tokens \subseteq AllTokens
      /\ input.max \in Nat /\ Len(input.prefix) <= input.max /\ Len(input.prefix) \in Nat
  BY InputsAssumption
<1>2. CASE k <= Len(input.prefix)
  BY <1>1, <1>2 DEF Following
<1>3. CASE k > Len(input.prefix)
  BY <1>1, <1>3 DEF Following
<1> QED
  BY <1>1, <1>2, <1>3

\* The tokens ahead keep within the input.
LEMMA TokensStep ==
  ASSUME TypeOK, TokensInv, input' = input, Stay \/ (Advance /\ ~AtEnd)
  PROVE  /\ ahead' \in Seq(AllTokens \cup {"EOF"}) /\ Len(ahead') = 2
         /\ consumed' \in 0 .. input'.max
         /\ TokensInv'
<1>1. /\ ahead \in Seq(AllTokens \cup {"EOF"}) /\ Len(ahead) = 2
      /\ consumed \in 0 .. input.max /\ input \in Inputs
  BY DEF TypeOK
<1>2. input.max \in Nat
  BY <1>1, InputsAssumption
<1>3. CASE Stay
  BY <1>1, <1>3 DEF Stay, TokensInv
<1>4. CASE Advance /\ ~AtEnd
  <2>1. consumed + 1 <= input.max
    BY <1>4 DEF TokensInv, AtEnd, current
  <2>2. PICK t \in Following(consumed + 3, ahead[2]) : ahead' = <<ahead[2], t>>
    BY <1>4 DEF Advance
  <2>3. t \in AllTokens \cup {"EOF"} /\ (t # "EOF" => consumed + 3 <= input.max)
    <3>1. consumed + 3 \in Nat \ {0}
      BY <1>1, <1>2
    <3> QED  BY <1>1, <3>1, FollowingIsToken
  <2>4. consumed' = consumed + 1
    BY <1>4 DEF Advance
  <2>5. ahead[2] \in AllTokens \cup {"EOF"}
    <3>1. Len(ahead) = 2
      BY <1>1
    <3>2. 2 \in 1 .. Len(ahead)
      BY <3>1
    <3> QED  BY <1>1, <3>2, ElementOfSeq
  <2> QED  BY <1>1, <1>2, <2>1, <2>2, <2>3, <2>4, <2>5 DEF TokensInv
<1> QED
  BY <1>3, <1>4

\* How a step leaves the stack.
LEMMA Outcomes ==
  ASSUME StackInv, ParserStep
  PROVE  \/ Enter
         \/ stack' = Rest /\ step \notin Functions
         \/ stack' = Front(stack) /\ step \in PlainStep \ Functions
         \/ UNCHANGED stack /\ step \in {"sync", "resync"} /\ is_panic /\ is_panic'
<1>1. {"next", "need_id", "need_LBRACE", "panic?", "fail", "close", "sync", "resync", "yes", "no"}
        \cap Functions = {}
  BY DEF Functions
<1>2. AllTokens \cap Functions = {}
  BY DEF Functions, AllTokens
<1>3. {"need_id", "need_LBRACE", "panic?"} \subseteq PlainStep
  BY DEF PlainStep, Step
<1>4. CASE Enter
  BY <1>4
<1>5. CASE Expect
  BY <1>2, <1>5 DEF Expect, Continue
<1>6. CASE Need
  BY <1>1, <1>3, <1>6 DEF Need, Continue, Return
<1>7. CASE TakeToken \/ Fail \/ CloseBlock \/ NothingToSynchronize \/ JudgeTarget
  BY <1>1, <1>7 DEF TakeToken, Fail, CloseBlock, NothingToSynchronize, JudgeTarget, Continue
<1>8. CASE CheckPanic
  BY <1>1, <1>3, <1>8 DEF CheckPanic, Continue, Return
<1>9. CASE SynchronizeStatement
  BY <1>1, <1>9 DEF SynchronizeStatement, Synchronize, Continue
<1>10. CASE SynchronizeTopLevel
  BY <1>1, <1>10 DEF SynchronizeTopLevel, Synchronize, Continue
<1> QED
  BY <1>4, <1>5, <1>6, <1>7, <1>8, <1>9, <1>10 DEF ParserStep

\* A stack without steps that need a token.
LEMMA Rested ==
  ASSUME NEW st, Shape(st), NoFirst(st), stack' = st,
         Len(st) >= 1 /\ st[Len(st)] = B1 => AtEnd' \/ current' = "RBRACE",
         Len(st) = 0 => AtEnd'
  PROVE  (StackInv /\ EndsInv)'
<1>1. st \in Seq(Seq(Step)) /\ Len(st) \in Nat
  BY DEF Shape
<1>2. FirstOnTop(st)
  BY DEF FirstOnTop, NoFirst
<1>3. CASE st = <<>>
  BY <1>1, <1>2, <1>3 DEF StackInv, EndsInv
<1>4. CASE st # <<>>
  <2>1. Len(st) >= 1 /\ Last(st) = st[Len(st)] /\ Last(st) \in Seq(Step) /\ Last(st) # <<>>
    BY <1>4, Top
  <2>2. Head(Last(st)) = st[Len(st)][1] /\ 1 \in 1 .. Len(st[Len(st)]) /\ Len(st) \in 1 .. Len(st)
    BY <1>1, <2>1
  <2>3. step' \notin FirstStep
    BY <2>2 DEF step, NoFirst
  <2>4. EndsInv'
    BY <1>4, <2>1 DEF EndsInv
  <2> QED  BY <1>2, <2>3, <2>4 DEF StackInv
<1> QED
  BY <1>3, <1>4

\* A function that was entered, and what its steps need.
LEMMA Pushed ==
  ASSUME NEW st, Shape(st), NoFirst(st), Len(st) >= 1, st[1] = P2,
         NEW f \in PlainFrames \cup {B3, S3},
         f = S3 <=> st[Len(st)] = B1,
         f \in PlainFrames => PlainSteps(f),
         stack' = Append(st, f), ahead' = ahead
  PROVE  (StackInv /\ EndsInv)'
<1> PICK n : n = Len(st)
  OBVIOUS
<1> PICK r : r = Append(st, f)
  OBVIOUS
<1>1. n \in Nat /\ n >= 1
  BY DEF Shape
<1>2. /\ Shape(r) /\ Len(r) = n + 1 /\ Last(r) = f
      /\ \A k \in 1 .. n : r[k] = st[k]
      /\ r[n + 1] = f
  BY PushShape
<1>3. f \in Seq(Step) /\ f # <<>> /\ Len(f) \in Nat /\ Len(f) >= 1 /\ Head(f) = f[1]
  <2>1. f \in Seq(Step) /\ Len(f) \in Nat /\ Len(f) >= 1
    BY PlainFrameFacts, FrameFacts
  <2> QED  BY <2>1
<1>4. /\ \A i \in 2 .. Len(f) : f[i] \notin FirstStep
      /\ f[1] \in FirstStep => ~AtEnd
  <2>1. CASE f \in PlainFrames
    BY <2>1, <1>3 DEF PlainSteps
  <2>2. CASE f = B3
    BY <2>2 DEF B3, FirstStep
  <2>3. CASE f = S3
    BY <2>3 DEF S3, FirstStep
  <2> QED  BY <2>1, <2>2, <2>3
<1>5. FirstOnTop(r)
  <2> SUFFICES ASSUME NEW k \in 1 .. n + 1, NEW i \in 1 .. Len(r[k]), r[k][i] \in FirstStep
               PROVE  k = n + 1 /\ i = 1
    BY <1>2 DEF FirstOnTop
  <2>1. CASE k \in 1 .. n
    BY <1>2, <2>1 DEF NoFirst
  <2>2. CASE k = n + 1
    BY <1>2, <1>3, <1>4, <2>2
  <2> QED  BY <1>1, <2>1, <2>2
<1>6. f # B1
  BY PlainFrameFacts, FrameFacts, NotPlain
<1>7. r # <<>>
  BY <1>1, <1>2
<1>8. StackInv'
  <2>1. Shape(stack') /\ FirstOnTop(stack')
    BY <1>2, <1>5
  <2>2. step' = f[1] /\ AtEnd' = AtEnd
    BY <1>2, <1>3 DEF step, AtEnd, current
  <2> QED  BY <1>4, <2>1, <2>2 DEF StackInv
<1>9. EndsInv'
  BY <1>2, <1>6, <1>7 DEF EndsInv
<1> QED
  BY <1>8, <1>9

\* The stack keeps its shape when a function is entered.
LEMMA EnterStack ==
  ASSUME StackInv, stack # <<>>, Enter
  PROVE  (StackInv /\ EndsInv)'
<1>1. Shape(stack) /\ FirstOnTop(stack) /\ (step \in FirstStep => ~AtEnd)
  BY DEF StackInv
<1>2. step \in Functions /\ ahead' = ahead
  BY DEF Enter, Stay
<1>3. AtEnd' = AtEnd /\ current' = current
  BY <1>2 DEF AtEnd, current
<1>4. Shape(Rest) /\ NoFirst(Rest)
  BY <1>1, RestShape, RestNoFirst
<1>5. /\ StepsOf(step) = <<>> => stack' = Rest
      /\ StepsOf(step) # <<>> => stack' = Append(Rest, StepsOf(step))
  BY DEF Enter
<1>6. Rest \in Seq(Seq(Step)) /\ Len(Rest) \in Nat
  BY <1>4 DEF Shape
<1>7. CASE step = "Program"
  <2>1. StepsOf(step) = IF ~AtEnd THEN P3 ELSE <<>>
    BY <1>7, StepsUnfold DEF ParseProgram, When, P3
  <2>2. Rest = <<>>
    BY <1>1, <1>6, <1>7, RestShape
  <2>3. CASE AtEnd
    <3>1. stack' = Rest /\ Len(Rest) = 0
      BY <1>5, <2>1, <2>2, <2>3
    <3> QED  BY <1>3, <1>4, <2>3, <3>1, Rested
  <2>4. CASE ~AtEnd
    <3>1. P3 # <<>> /\ P3 \in Seq(Step)
      BY DEF P3, Step, Functions
    <3>2. stack' = <<P3>>
      BY <1>5, <2>1, <2>2, <2>4, <3>1
    <3>3. Shape(<<P3>>)
      <4>1. <<P3>> \in Seq(Seq(Step)) /\ Len(<<P3>>) = 1 /\ <<P3>>[1] = P3
        BY <3>1
      <4> QED  BY <4>1, OneFrame DEF ProgramFrames
    <3>4. NoFirst(<<P3>>)
      BY DEF NoFirst, P3, FirstStep
    <3>5. P3 # B1
      BY FrameFacts
    <3> QED  BY <3>2, <3>3, <3>4, <3>5, Rested
  <2> QED  BY <2>3, <2>4
<1>8. CASE step = "Statements"
  <2>1. StepsOf(step) = IF ~AtEnd /\ current # "RBRACE" THEN S3 ELSE <<>>
    BY <1>8, StepsUnfold DEF ParseStatements, When, S3
  <2>2. Len(Rest) >= 1 /\ Rest[1] = P2 /\ Rest[Len(Rest)] = B1
    BY <1>1, <1>8, RestShape
  <2>3. CASE ~AtEnd /\ current # "RBRACE"
    <3>1. S3 # <<>> /\ S3 \notin PlainFrames
      BY FrameFacts, PlainFrameFacts, NotPlain
    <3>2. stack' = Append(Rest, S3)
      BY <1>5, <2>1, <2>3, <3>1
    <3> QED  BY <1>2, <1>4, <2>2, <3>1, <3>2, Pushed
  <2>4. CASE AtEnd \/ current = "RBRACE"
    <3>1. stack' = Rest
      BY <1>5, <2>1, <2>4
    <3> QED  BY <1>3, <1>4, <2>2, <2>4, <3>1, Rested
  <2> QED  BY <2>3, <2>4
<1>9. CASE step \notin {"Program", "Statements"}
  <2>1. Len(Rest) >= 1 /\ Rest[1] = P2 /\ Rest[Len(Rest)] # B1
    <3>1. step # "resync"
      BY <1>2 DEF Functions
    <3>2. Len(Rest) >= 1 /\ Rest[1] = P2
      BY <1>1, <1>9, <3>1, RestShape
    <3> QED  BY <1>1, <1>9, <3>2, RestShape
  <2>2. CASE step = "Block"
    <3>1. StepsOf(step) = B3 /\ B3 # <<>>
      BY <2>2, StepsUnfold, FrameFacts DEF ParseBlock, B3
    <3>2. stack' = Append(Rest, B3)
      BY <1>5, <3>1
    <3>3. B3 # S3
      BY FrameFacts
    <3>4. B3 \in PlainFrames => PlainSteps(B3)
      <4>1. B3[2] = "Statements" /\ 2 \in 1 .. Len(B3)
        BY DEF B3
      <4>2. B3 \notin Seq(PlainStep)
        BY <4>1, ElementOfSeq, NotPlain
      <4> QED  BY <4>2 DEF PlainFrames
    <3> QED  BY <1>2, <1>4, <2>1, <3>2, <3>3, <3>4, Pushed
  <2>3. CASE step # "Block"
    <3>1. PlainSteps(StepsOf(step))
      BY <1>1, <1>2, <1>9, <2>3, PlainFunctions
    <3>2. CASE StepsOf(step) = <<>>
      <4>1. stack' = Rest
        BY <1>5, <3>2
      <4> QED  BY <1>4, <2>1, <4>1, Rested
    <3>3. CASE StepsOf(step) # <<>>
      <4>1. StepsOf(step) \in PlainFrames
        BY <3>1, <3>3 DEF PlainSteps, PlainFrames
      <4>2. StepsOf(step) # S3
        BY <4>1, FrameFacts, PlainFrameFacts, NotPlain
      <4>3. stack' = Append(Rest, StepsOf(step))
        BY <1>5, <3>3
      <4> QED  BY <1>2, <1>4, <2>1, <3>1, <4>1, <4>2, <4>3, Pushed
    <3> QED  BY <3>2, <3>3
  <2> QED  BY <2>2, <2>3
<1> QED
  BY <1>7, <1>8, <1>9

\* The stack keeps its shape.
LEMMA StackStep ==
  ASSUME StackInv, EndsInv, ParserStep
  PROVE  (StackInv /\ EndsInv)'
<1>1. Shape(stack) /\ FirstOnTop(stack) /\ stack # <<>>
  BY DEF StackInv, ParserStep
<1>2. CASE Enter
  BY <1>1, <1>2, EnterStack
<1>3. CASE stack' = Rest /\ step \notin Functions
  <2>1. {"Program", "TopLevel", "Statements"} \subseteq Functions
    BY DEF Functions
  <2>2. Shape(Rest) /\ NoFirst(Rest)
    BY <1>1, RestShape, RestNoFirst
  <2>3. Len(Rest) \in Nat
    BY <2>2 DEF Shape
  <2>4. Len(Rest) >= 1
    BY <1>1, <1>3, <2>1, <2>3, RestShape
  <2>5. Rest[Len(Rest)] # B1
    BY <1>1, <1>3, <2>1, <2>4, RestShape
  <2> QED  BY <1>3, <2>2, <2>3, <2>4, <2>5, Rested
<1>4. CASE stack' = Front(stack) /\ step \in PlainStep \ Functions
  <2> PICK r : r = Front(stack)
    OBVIOUS
  <2>1. /\ Shape(r) /\ Len(r) >= 1 /\ r[Len(r)] # B1 /\ Len(r) = Len(stack) - 1
        /\ \A k \in 1 .. Len(stack) - 1 : r[k] = stack[k]
    BY <1>1, <1>4, FrontShape
  <2>2. NoFirst(r)
    <3> PICK n : n = Len(stack)
      OBVIOUS
    <3>1. n \in Nat
      BY <1>1 DEF Shape
    <3>2. \A k \in 1 .. n - 1 : r[k] = stack[k] /\ k \in 1 .. n /\ k # n
      BY <2>1, <3>1
    <3>3. \A k \in 1 .. n : \A i \in 1 .. Len(stack[k]) : stack[k][i] \in FirstStep => k = n
      BY <1>1 DEF FirstOnTop
    <3> QED  BY <2>1, <3>2, <3>3 DEF NoFirst
  <2>3. Len(r) # 0
    BY <2>1
  <2> QED  BY <1>4, <2>1, <2>2, <2>3, Rested
<1>5. CASE UNCHANGED stack /\ step \in {"sync", "resync"} /\ is_panic /\ is_panic'
  <2>1. Last(stack) # B1
    BY <1>1, <1>5, FrameFacts DEF step
  <2>2. step' = step /\ step \notin FirstStep
    BY <1>5 DEF step, FirstStep
  <2>3. StackInv'
    BY <1>1, <1>5, <2>2 DEF StackInv
  <2>4. EndsInv'
    BY <1>1, <1>5, <2>1 DEF EndsInv
  <2> QED  BY <2>3, <2>4
<1> QED
  BY <1>2, <1>3, <1>4, <1>5, Outcomes

\* While a declaration is parsed, the program waits under it.
LEMMA InsideDeclaration ==
  ASSUME StackInv, EndsInv, ParserStep, step \notin {"Program", "resync"}
  PROVE  stack' # <<>> /\ Last(stack') \notin {P1, P3}
<1>1. Shape(stack) /\ stack # <<>>
  BY DEF StackInv, ParserStep
<1>2. Shape(stack')
  BY StackStep DEF StackInv
<1>3. stack' \in Seq(Seq(Step)) /\ Len(stack') \in Nat
  BY <1>2 DEF Shape
<1>4. Len(Rest) >= 1 /\ Rest[1] = P2 /\ Len(Rest) \in Nat /\ Rest \in Seq(Seq(Step))
  BY <1>1, RestShape DEF Shape
<1>5. Len(stack') >= 1 /\ stack'[1] = P2
  <2>1. CASE Enter
    <3>1. stack' = Rest \/ stack' = Append(Rest, StepsOf(step))
      BY <2>1 DEF Enter
    <3>2. CASE stack' = Append(Rest, StepsOf(step))
      BY <1>4, <3>2
    <3> QED  BY <1>4, <3>1, <3>2
  <2>2. CASE stack' = Rest
    BY <1>4, <2>2
  <2>3. CASE stack' = Front(stack) /\ step \in PlainStep
    BY <1>1, <2>3, FrontShape
  <2>4. CASE UNCHANGED stack /\ step = "sync"
    <3>1. Last(stack) = S2
      BY <1>1, <2>4, TopByStep
    <3>2. S2 \notin ProgramFrames
      BY FrameFacts DEF ProgramFrames
    <3> PICK n : n = Len(stack)
      OBVIOUS
    <3>3. n \in Nat /\ n >= 1 /\ n # 1
      BY <1>1, <3>1, <3>2, Top
    <3>4. n >= 2
      BY <3>3
    <3> QED  BY <1>1, <2>4, <3>4 DEF Shape
  <2> QED  BY <2>1, <2>2, <2>3, <2>4, Outcomes
<1>6. stack' # <<>>
  BY <1>3, <1>5
<1>7. Last(stack') \in ProgramFrames => Last(stack') = P2
  BY <1>2, <1>5, <1>6, Top
<1>8. P2 \notin {P1, P3} /\ {P1, P3} \subseteq ProgramFrames
  BY FrameFacts DEF ProgramFrames
<1> QED
  BY <1>6, <1>7, <1>8

\* No panic outlives its declaration.
LEMMA CalmStep ==
  ASSUME TypeOK, StackInv, EndsInv, CalmInv, ParserStep
  PROVE  CalmInv'
<1>1. Shape(stack) /\ stack # <<>>
  BY DEF StackInv, ParserStep
<1>2. CASE step \notin {"Program", "resync"}
  BY <1>2, InsideDeclaration DEF CalmInv
<1>3. CASE step = "Program"
  <2>1. Enter
    <3>1. step \in Functions /\ step \notin PlainStep
      BY <1>3, NotPlain DEF Functions
    <3> QED  BY <1>3, <3>1, Outcomes
  <2>2. Last(stack) = P1
    BY <1>1, <1>3, TopByStep
  <2>3. ~is_panic
    BY <2>2 DEF CalmInv
  <2> QED  BY <2>1, <2>3 DEF CalmInv, Enter, NoError
<1>4. CASE step = "resync"
  <2>1. Last(stack) = P2 /\ P2 \notin {P1, P3}
    BY <1>1, <1>4, TopByStep, FrameFacts
  <2>2. SynchronizeTopLevel \/ NothingToSynchronize
    <3>1. step \notin Functions \cup AllTokens
      BY <1>4 DEF Functions, AllTokens
    <3> QED
      BY <1>4, <3>1 DEF ParserStep, Enter, Expect, Need, TakeToken, CheckPanic, Fail,
         CloseBlock,
                        SynchronizeStatement, JudgeTarget
  <2>3. CASE SynchronizeTopLevel
    <3>1. is_panic' = FALSE \/ UNCHANGED stack
      BY <2>3 DEF SynchronizeTopLevel, Synchronize
    <3> QED  BY <1>1, <2>1, <3>1 DEF CalmInv
  <2>4. CASE NothingToSynchronize
    BY <2>4 DEF NothingToSynchronize, NoError, CalmInv
  <2> QED  BY <2>2, <2>3, <2>4
<1> QED
  BY <1>2, <1>3, <1>4

\* Consuming a token leaves the last error behind.
LEMMA ErrorsForward ==
  ASSUME TypeOK, ErrorsInv, errors' = errors, Advance, ~AtEnd
  PROVE  ErrorsInv'
<1>1. /\ errors \in Seq(Nat) /\ consumed \in Nat /\ consumed' = consumed + 1
      /\ Len(errors) \in Nat
  BY InputsAssumption DEF TypeOK, Advance
<1>2. \A i \in 1 .. Len(errors) : errors[i] \in Nat /\ errors[i] <= consumed + 1
  BY <1>1 DEF ErrorsInv
<1>3. \A i \in 1 .. Len(errors) - 1 : errors[i] < errors[i + 1]
  BY DEF ErrorsInv, NoErrorTwice
<1>4. NoErrorTwice'
  BY <1>3 DEF NoErrorTwice
<1>5. \A i \in 1 .. Len(errors) : errors[i] <= consumed' + 1 /\ errors[i] # consumed' + 1
  BY <1>1, <1>2
<1>6. errors # <<>> => Last(errors) # consumed' + 1
  <2> SUFFICES ASSUME errors # <<>>
               PROVE  Last(errors) # consumed' + 1
    OBVIOUS
  <2>1. Last(errors) = errors[Len(errors)] /\ Len(errors) \in 1 .. Len(errors)
    BY <1>1 DEF Last
  <2> QED  BY <1>5, <2>1
<1> QED
  BY <1>4, <1>5, <1>6 DEF ErrorsInv

\* No error is added and no token consumed.
LEMMA ErrorsKept ==
  ASSUME ErrorsInv, errors' = errors, Stay,
         errors # <<>> /\ Last(errors) = consumed + 1
           => is_panic' \/ AtEnd \/ (stack' # <<>> /\ Resuming')
  PROVE  ErrorsInv'
<1>1. ahead' = ahead /\ consumed' = consumed
  BY DEF Stay
<1>2. AtEnd' = AtEnd
  BY <1>1 DEF AtEnd, current
<1>3. NoErrorTwice'
  BY <1>1, <1>2 DEF ErrorsInv, NoErrorTwice
<1>4. \A i \in 1 .. Len(errors') : errors'[i] <= consumed' + 1
  BY <1>1 DEF ErrorsInv
<1>5. (errors # <<>> /\ Last(errors) = consumed + 1
         => is_panic \/ AtEnd \/ (stack # <<>> /\ Resuming))'
  BY <1>1, <1>2
<1> QED
  BY <1>3, <1>4, <1>5 DEF ErrorsInv

\* An error is added at the current token.
LEMMA ErrorReported ==
  ASSUME TypeOK, ErrorsInv, errors' = Append(errors, consumed + 1), Stay,
         errors # <<>> /\ Last(errors) = consumed + 1 => AtEnd,
         is_panic' \/ AtEnd
  PROVE  ErrorsInv'
<1>1. ahead' = ahead /\ consumed' = consumed
  BY DEF Stay
<1>2. AtEnd' = AtEnd
  BY <1>1 DEF AtEnd, current
<1> PICK n : n = Len(errors)
  OBVIOUS
<1>3. errors \in Seq(Nat) /\ consumed \in Nat /\ n \in Nat
  BY InputsAssumption DEF TypeOK
<1>4. /\ Len(errors') = n + 1 /\ errors'[n + 1] = consumed + 1
      /\ \A i \in 1 .. n : errors'[i] = errors[i]
  BY <1>3
<1>5. \A i \in 1 .. n : errors[i] \in Nat /\ errors[i] <= consumed + 1
  BY <1>3 DEF ErrorsInv
<1>6. \A i \in 1 .. n + 1 : errors'[i] <= consumed + 1
  BY <1>3, <1>4, <1>5
<1>7. n # 0 => errors[n] < consumed + 1 \/ (AtEnd /\ errors[n] = consumed + 1)
  <2> SUFFICES ASSUME n # 0
               PROVE  errors[n] < consumed + 1 \/ (AtEnd /\ errors[n] = consumed + 1)
    OBVIOUS
  <2>1. errors # <<>> /\ Last(errors) = errors[n] /\ n \in 1 .. n
    BY <1>3 DEF Last
  <2> QED  BY <1>3, <1>5, <2>1
<1>8. \A i \in 1 .. n : errors'[i] < errors'[i + 1] \/ (AtEnd /\ errors'[i] = consumed + 1)
  <2> SUFFICES ASSUME NEW i \in 1 .. n
               PROVE  errors'[i] < errors'[i + 1] \/ (AtEnd /\ errors'[i] = consumed + 1)
    OBVIOUS
  <2>1. CASE i = n
    BY <1>3, <1>4, <1>7, <2>1
  <2>2. CASE i # n
    <3>1. i \in 1 .. n - 1 /\ i + 1 \in 1 .. n
      BY <1>3, <2>2
    <3>2. errors[i] < errors[i + 1] \/ (AtEnd /\ errors[i] = consumed + 1)
      BY <3>1 DEF ErrorsInv, NoErrorTwice
    <3> QED  BY <1>4, <3>1, <3>2
  <2> QED  BY <2>1, <2>2
<1>9. NoErrorTwice'
  BY <1>1, <1>2, <1>3, <1>4, <1>8 DEF NoErrorTwice
<1> QED
  BY <1>1, <1>2, <1>4, <1>6, <1>9 DEF ErrorsInv

\* A panic begins at a token that has not been reported.
LEMMA ErrorsSyntax ==
  ASSUME TypeOK, ErrorsInv, SyntaxError, Stay, ~Resuming
  PROVE  ErrorsInv'
<1>1. is_panic'
  BY DEF SyntaxError
<1>2. CASE is_panic
  <2>1. errors' = errors
    BY <1>2 DEF SyntaxError
  <2> QED  BY <1>1, <2>1, ErrorsKept
<1>3. CASE ~is_panic
  <2>1. errors' = Append(errors, consumed + 1)
    BY <1>3 DEF SyntaxError
  <2>2. errors # <<>> /\ Last(errors) = consumed + 1 => AtEnd
    BY <1>3 DEF ErrorsInv
  <2> QED  BY <1>1, <2>1, <2>2, ErrorReported
<1> QED
  BY <1>2, <1>3

\* Resuming goes on to the step that consumes the token.
LEMMA EnterResuming ==
  ASSUME StackInv, EndsInv, stack # <<>>, Enter, Resuming, ~AtEnd
  PROVE  stack' # <<>> /\ Resuming'
<1>1. Shape(stack)
  BY DEF StackInv
<1>2. step \in Functions /\ ahead' = ahead
  BY DEF Enter, Stay
<1>3. /\ current' = current /\ TopLevelRestart' = TopLevelRestart
      /\ DeclarationStart' = DeclarationStart
  BY <1>2 DEF current, TopLevelRestart, DeclarationStart
<1>4. /\ StepsOf(step) = <<>> => stack' = Rest
      /\ StepsOf(step) # <<>> => stack' = Append(Rest, StepsOf(step))
  BY DEF Enter
<1>5. Rest \in Seq(Seq(Step))
  BY <1>1, RestFacts
<1>6. ASSUME StepsOf(step) \in Seq(Step), StepsOf(step) # <<>>
      PROVE  stack' # <<>> /\ step' = StepsOf(step)[1]
  <2> PICK f : f = StepsOf(step)
    OBVIOUS
  <2>1. stack' = Append(Rest, f) /\ f \in Seq(Step) /\ f # <<>>
    BY <1>4, <1>6
  <2>2. Len(stack') = Len(Rest) + 1 /\ stack'[Len(Rest) + 1] = f /\ Len(Rest) \in Nat
    BY <1>5, <2>1
  <2>3. stack' # <<>> /\ Last(stack') = f
    BY <1>5, <2>1, <2>2 DEF Last
  <2>4. Head(f) = f[1]
    BY <2>1
  <2> QED  BY <2>3, <2>4 DEF step
<1>7. CASE current = "RBRACE" /\ Last(stack) \in {S1, B1}
  <2>1. step # "close"
    BY <1>2 DEF Functions
  <2>2. step = "Statements"
    BY <1>1, <1>7, <2>1, TopByStep
  <2>3. StepsOf(step) = <<>>
    BY <1>7, <2>2, StepsUnfold DEF ParseStatements, When
  <2>4. stack' = Rest
    BY <1>4, <2>3
  <2>5. Len(Rest) >= 1 /\ Rest[Len(Rest)] = B1 /\ Len(Rest) \in Nat
    BY <1>1, <1>5, <2>2, RestShape
  <2>6. Rest # <<>> /\ Last(Rest) = B1
    BY <1>5, <2>5 DEF Last
  <2> QED  BY <1>3, <1>7, <2>4, <2>6 DEF Resuming
<1>8. CASE step = "Program" /\ TopLevelRestart
  <2>1. StepsOf(step) = P3
    BY <1>8, StepsUnfold DEF ParseProgram, When, P3
  <2>2. P3 \in Seq(Step) /\ P3 # <<>> /\ P3[1] = "TopLevel"
    BY DEF P3, Step, Functions
  <2>3. stack' # <<>> /\ step' = "TopLevel"
    BY <1>6, <2>1, <2>2
  <2> QED  BY <1>3, <1>8, <2>3 DEF Resuming
<1>9. CASE step = "TopLevel" /\ TopLevelRestart
  <2>1. StepsOf(step) = ParseTopLevel
    BY <1>9, StepsUnfold
  <2>2. CASE current = "func"
    <3>1. StepsOf(step) = <<"Function">>
      <4>1. ~DeclarationStart
        BY <2>2 DEF DeclarationStart, current
      <4> QED  BY <2>1, <2>2, <4>1 DEF ParseTopLevel
    <3>2. /\ StepsOf(step) \in Seq(Step) /\ StepsOf(step) # <<>>
          /\ StepsOf(step)[1] = "Function"
      BY <3>1 DEF Step, Functions
    <3>3. stack' # <<>> /\ step' = "Function"
      BY <1>6, <3>2
    <3> QED  BY <3>3 DEF Resuming
  <2>3. CASE current = "extern"
    <3>1. StepsOf(step) = <<"ExternFunction">>
      <4>1. ~DeclarationStart
        BY <2>3 DEF DeclarationStart, current
      <4> QED  BY <2>1, <2>3, <4>1 DEF ParseTopLevel
    <3>2. /\ StepsOf(step) \in Seq(Step) /\ StepsOf(step) # <<>>
          /\ StepsOf(step)[1] = "ExternFunction"
      BY <3>1 DEF Step, Functions
    <3>3. stack' # <<>> /\ step' = "ExternFunction"
      BY <1>6, <3>2
    <3> QED  BY <3>3 DEF Resuming
  <2>4. CASE DeclarationStart
    <3>1. StepsOf(step) = <<"Assign", "panic?", "SEMICOLON">>
      BY <2>1, <2>4 DEF ParseTopLevel, DeclarationStart, current
    <3>2. /\ StepsOf(step) \in Seq(Step) /\ StepsOf(step) # <<>>
          /\ StepsOf(step)[1] = "Assign"
      BY <3>1 DEF Step, Functions, AllTokens
    <3>3. stack' # <<>> /\ step' = "Assign"
      BY <1>6, <3>2
    <3> QED  BY <1>3, <2>4, <3>3 DEF Resuming
  <2> QED  BY <1>9, <2>2, <2>3, <2>4 DEF TopLevelRestart
<1>10. CASE step = "Assign" /\ DeclarationStart
  <2>1. StepsOf(step) = <<"next", "::", "panic?", "Type", "panic?", "Initializer">>
    BY <1>10, StepsUnfold DEF ParseAssign
  <2>2. StepsOf(step) \in Seq(Step) /\ StepsOf(step) # <<>> /\ StepsOf(step)[1] = "next"
    BY <2>1 DEF Step, Functions, AllTokens
  <2>3. stack' # <<>> /\ step' = "next"
    BY <1>6, <2>2
  <2> QED  BY <2>3 DEF Resuming
<1>11. CASE step \in {"Function", "ExternFunction"}
  <2>1. StepsOf(step) \in {ParseFunction, ParseExternFunction}
    BY <1>11, StepsUnfold
  <2>2. /\ ParseFunction \in Seq(Step) /\ ParseFunction # <<>> /\ ParseFunction[1] = "next"
        /\ ParseExternFunction \in Seq(Step) /\ ParseExternFunction # <<>>
        /\ ParseExternFunction[1] = "next"
    BY DEF ParseFunction, ParseExternFunction, Signature, Step, Functions, AllTokens
  <2>3. stack' # <<>> /\ step' = "next"
    BY <1>6, <2>1, <2>2
  <2> QED  BY <2>3 DEF Resuming
<1>12. step # "next"
  BY <1>2 DEF Functions
<1> QED
  BY <1>7, <1>8, <1>9, <1>10, <1>11, <1>12 DEF Resuming

\* Errors are reported in the order of their tokens, and no token twice.
LEMMA ErrorsStep ==
  ASSUME TypeOK, StackInv, EndsInv, ErrorsInv, ParserStep
  PROVE  ErrorsInv'
<1>1. Shape(stack) /\ stack # <<>>
  BY DEF StackInv, ParserStep
<1>2. ASSUME NoError, Advance, ~AtEnd
      PROVE  ErrorsInv'
  BY <1>2, ErrorsForward DEF NoError
<1>3. ASSUME step \notin {"Program", "TopLevel", "Assign", "Function", "ExternFunction", "next",
                          "Statements", "close"}
      PROVE  ~Resuming
  BY <1>1, <1>3, TopByStep DEF Resuming
<1>4. ASSUME NoError, Stay, ~Resuming
      PROVE  ErrorsInv'
  <2>1. errors # <<>> /\ Last(errors) = consumed + 1 => is_panic \/ AtEnd
    BY <1>4 DEF ErrorsInv
  <2>2. is_panic' = is_panic /\ errors' = errors
    BY <1>4 DEF NoError
  <2> QED  BY <1>4, <2>1, <2>2, ErrorsKept
<1>5. "EOF" \notin AllTokens \cup {"id", "LBRACE", "RBRACE"}
  BY DEF AllTokens
<1>6. CASE Enter
  <2>1. is_panic' = is_panic /\ errors' = errors /\ Stay
    BY <1>6 DEF Enter, NoError
  <2>2. errors # <<>> /\ Last(errors) = consumed + 1
          => is_panic \/ AtEnd \/ (stack' # <<>> /\ Resuming')
    BY <1>1, <1>6, EnterResuming DEF ErrorsInv
  <2> QED  BY <2>1, <2>2, ErrorsKept
<1>7. CASE Expect
  <2>1. step \in AllTokens
    BY <1>7 DEF Expect
  <2>2. CASE current = step
    BY <1>2, <1>5, <1>7, <2>1, <2>2 DEF Expect, AtEnd
  <2>3. CASE current # step
    <3>1. ~Resuming
      BY <1>3, <2>1 DEF AllTokens
    <3>2. Stay /\ SyntaxError
      BY <1>7, <2>3 DEF Expect
    <3> QED  BY <3>1, <3>2, ErrorsSyntax
  <2> QED  BY <2>2, <2>3
<1>8. CASE Need
  <2>1. PICK t \in {"id", "LBRACE"} :
          /\ step = (IF t = "id" THEN "need_id" ELSE "need_LBRACE")
          /\ IF current = t THEN Advance /\ NoError /\ Continue
                            ELSE Stay /\ SyntaxError /\ Return
    BY <1>8 DEF Need
  <2>2. CASE current = t
    BY <1>2, <1>5, <2>1, <2>2 DEF AtEnd
  <2>3. CASE current # t
    <3>1. ~Resuming
      BY <1>3, <2>1
    <3> QED  BY <2>1, <2>3, <3>1, ErrorsSyntax
  <2> QED  BY <2>2, <2>3
<1>9. CASE TakeToken
  <2>1. ~AtEnd
    BY <1>1, <1>9 DEF TakeToken, StackInv, FirstStep
  <2> QED  BY <1>2, <1>9, <2>1 DEF TakeToken
<1>10. CASE CheckPanic \/ NothingToSynchronize \/ JudgeTarget
  <2>1. step \in {"panic?", "sync", "resync", "yes", "no"} /\ NoError /\ Stay
    BY <1>10 DEF CheckPanic, NothingToSynchronize, JudgeTarget
  <2>2. ~Resuming
    BY <1>3, <2>1
  <2> QED  BY <1>4, <2>1, <2>2
<1>11. CASE Fail
  <2>1. step = "fail" /\ SyntaxError /\ Stay
    BY <1>11 DEF Fail
  <2>2. ~Resuming
    BY <1>3, <2>1
  <2> QED  BY <2>1, <2>2, ErrorsSyntax
<1>12. CASE CloseBlock
  <2>1. CASE current = "RBRACE"
    BY <1>2, <1>5, <1>12, <2>1 DEF CloseBlock, AtEnd
  <2>2. CASE current # "RBRACE"
    <3>1. Last(stack) = B1
      BY <1>1, <1>12, TopByStep DEF CloseBlock
    <3>2. AtEnd
      BY <1>1, <2>2, <3>1 DEF EndsInv
    <3>3. Stay /\ (errors' = errors \/ errors' = Append(errors, consumed + 1))
      BY <1>12, <2>2 DEF CloseBlock
    <3> QED  BY <3>2, <3>3, ErrorsKept, ErrorReported
  <2> QED  BY <2>1, <2>2
<1>13. CASE SynchronizeStatement
  <2>1. step = "sync" /\ errors' = errors
    BY <1>13 DEF SynchronizeStatement, Synchronize
  <2>2. CASE AtEnd
    BY <1>13, <2>1, <2>2, ErrorsKept DEF SynchronizeStatement, Synchronize
  <2>3. CASE ~AtEnd /\ current = "RBRACE"
    <3>1. Stay /\ stack' = Rest
      BY <1>13, <2>3 DEF SynchronizeStatement, Synchronize, Continue
    <3>2. current' = current
      BY <3>1 DEF Stay, current
    <3>3. Rest # <<>> /\ Last(Rest) = S1
      <4> PICK n : n = Len(stack)
        OBVIOUS
      <4>1. n \in Nat /\ n >= 1 /\ Last(stack) = S2
        BY <1>1, <2>1, Top, TopByStep
      <4>2. Len(Last(stack)) # 1 /\ Tail(Last(stack)) = S1
        BY <4>1, FrameFacts
      <4>3. Rest \in Seq(Seq(Step)) /\ Len(Rest) = n /\ Rest[n] = S1
        BY <1>1, <4>2, RestFacts
      <4> QED  BY <4>1, <4>3 DEF Last
    <3>4. stack' # <<>> /\ Resuming'
      BY <2>3, <3>1, <3>2, <3>3 DEF Resuming
    <3> QED  BY <2>1, <3>1, <3>4, ErrorsKept
  <2>4. CASE ~AtEnd /\ current # "RBRACE"
    BY <2>1, <1>13, <2>4, ErrorsForward DEF SynchronizeStatement, Synchronize
  <2> QED  BY <2>2, <2>3, <2>4
<1>14. CASE SynchronizeTopLevel
  <2>1. step = "resync" /\ errors' = errors
    BY <1>14 DEF SynchronizeTopLevel, Synchronize
  <2>2. CASE AtEnd
    BY <1>14, <2>1, <2>2, ErrorsKept DEF SynchronizeTopLevel, Synchronize
  <2>3. CASE ~AtEnd /\ TopLevelRestart
    <3>1. Stay /\ stack' = Rest
      BY <1>14, <2>3 DEF SynchronizeTopLevel, Synchronize, Continue
    <3>2. TopLevelRestart'
      BY <2>3, <3>1 DEF Stay, current, TopLevelRestart, DeclarationStart
    <3>3. Len(Rest) = 1 /\ Rest[1] = P1
      BY <1>1, <2>1, RestShape
    <3>4. Rest # <<>> /\ Last(Rest) = P1
      BY <3>3 DEF Last
    <3>5. step' = "Program"
      BY <3>1, <3>4, FrameFacts DEF step
    <3>6. stack' # <<>> /\ Resuming'
      BY <3>1, <3>2, <3>4, <3>5 DEF Resuming
    <3> QED  BY <2>1, <3>1, <3>6, ErrorsKept
  <2>4. CASE ~AtEnd /\ ~TopLevelRestart
    BY <2>1, <1>14, <2>4, ErrorsForward DEF SynchronizeTopLevel, Synchronize
  <2> QED  BY <2>2, <2>3, <2>4
<1> QED
  BY <1>6, <1>7, <1>8, <1>9, <1>10, <1>11, <1>12, <1>13, <1>14 DEF ParserStep

-----------------------------------------------------------------------------
(* The theorems *)

\* The stack holds steps, whatever a step does to it, and the other variables
\* have their types.
LEMMA TypeStep ==
  ASSUME TypeOK, TokensInv, StackInv, EndsInv, ParserStep
  PROVE  (TypeOK /\ TokensInv)'
<1>1. input' = input /\ input \in Inputs
  BY DEF ParserStep, TypeOK
<1>2. Stay \/ (Advance /\ ~AtEnd)
  BY Moves
<1>3. /\ ahead' \in Seq(AllTokens \cup {"EOF"}) /\ Len(ahead') = 2
      /\ consumed' \in 0 .. input'.max
      /\ TokensInv'
  BY <1>1, <1>2, TokensStep
<1>4. stack' \in Seq(Seq(Step))
  BY StackStep DEF StackInv, Shape
<1>5. consumed + 1 \in Nat
  BY <1>1, InputsAssumption DEF TypeOK
<1>6. errors' \in Seq(Nat)
  <2>1. errors \in Seq(Nat)
    BY DEF TypeOK
  <2>2. errors' = errors \/ errors' = Append(errors, consumed + 1)
    BY DEF ParserStep, Enter, Expect, Need, TakeToken, CheckPanic, Fail, CloseBlock,
           SynchronizeStatement, SynchronizeTopLevel, Synchronize, NothingToSynchronize,
           JudgeTarget, NoError, SyntaxError
  <2> QED  BY <1>5, <2>1, <2>2
<1>7. is_panic' \in BOOLEAN
  <2>1. is_panic \in BOOLEAN
    BY DEF TypeOK
  <2>2. is_panic' = is_panic \/ is_panic' = TRUE \/ is_panic' = FALSE
    BY DEF ParserStep, Enter, Expect, Need, TakeToken, CheckPanic, Fail, CloseBlock,
           SynchronizeStatement, SynchronizeTopLevel, Synchronize, NothingToSynchronize,
           JudgeTarget, NoError, SyntaxError
  <2> QED  BY <2>1, <2>2
<1>8. assignable' \in BOOLEAN
  <2>1. assignable \in BOOLEAN
    BY DEF TypeOK
  <2>2. assignable' = assignable \/ assignable' = (step = "yes")
    BY DEF ParserStep, Enter, Expect, Need, TakeToken, CheckPanic, Fail, CloseBlock,
           SynchronizeStatement, SynchronizeTopLevel, Synchronize, NothingToSynchronize,
           JudgeTarget
  <2> QED  BY <2>1, <2>2
<1> QED
  BY <1>1, <1>3, <1>4, <1>6, <1>7, <1>8 DEF TypeOK

\* The invariant holds of parserParseProgram's first state.
LEMMA InitInv == Init => ParserInv
<1> SUFFICES ASSUME Init
             PROVE  ParserInv
  OBVIOUS
<1>1. /\ input \in Inputs /\ consumed = 0 /\ is_panic = FALSE /\ errors = <<>>
      /\ stack = <<P1>> /\ assignable = FALSE
  BY DEF Init, P1
<1>2. PICK t \in Following(1, "none") : \E u \in Following(2, t) : ahead = <<t, u>>
  BY DEF Init
<1>3. PICK u \in Following(2, t) : ahead = <<t, u>>
  BY <1>2
<1>4. /\ t \in AllTokens \cup {"EOF"} /\ (t # "EOF" => 1 <= input.max)
      /\ u \in AllTokens \cup {"EOF"} /\ (u # "EOF" => 2 <= input.max)
  BY <1>1, FollowingIsToken
<1>5. input.max \in Nat
  BY <1>1, InputsAssumption
<1>6. P1 \in Seq(Step) /\ P1 # <<>> /\ Len(P1) = 1 /\ P1[1] = "Program" /\ P1 # B1 /\ P1 # P3
  BY DEF P1, B1, P3, Step, Functions
<1>7. stack \in Seq(Seq(Step)) /\ Len(stack) = 1 /\ stack[1] = P1 /\ stack # <<>>
  BY <1>1, <1>6
<1>8. Last(stack) = P1 /\ step = "Program"
  BY <1>6, <1>7 DEF Last, step
<1>9. TypeOK
  <2>1. ahead \in Seq(AllTokens \cup {"EOF"}) /\ Len(ahead) = 2
    BY <1>3, <1>4
  <2>2. consumed \in 0 .. input.max /\ errors \in Seq(Nat)
    BY <1>1, <1>5
  <2>3. is_panic \in BOOLEAN /\ assignable \in BOOLEAN
    BY <1>1
  <2> QED  BY <1>1, <1>7, <2>1, <2>2, <2>3 DEF TypeOK
<1>10. TokensInv
  BY <1>1, <1>3, <1>4, <1>5 DEF TokensInv
<1>11. StackInv
  <2>1. Shape(stack)
    BY <1>7, OneFrame DEF ProgramFrames
  <2>2. FirstOnTop(stack)
    BY <1>6, <1>7 DEF FirstOnTop, FirstStep
  <2> QED  BY <1>8, <2>1, <2>2 DEF StackInv, FirstStep
<1>12. EndsInv
  BY <1>6, <1>7, <1>8 DEF EndsInv
<1>13. CalmInv
  BY <1>1 DEF CalmInv
<1>14. ErrorsInv
  BY <1>1 DEF ErrorsInv, NoErrorTwice
<1> QED
  BY <1>9, <1>10, <1>11, <1>12, <1>13, <1>14 DEF ParserInv

\* Every step keeps the invariant.
LEMMA NextInv == ParserInv /\ [Next]_vars => ParserInv'
<1> SUFFICES ASSUME ParserInv, [Next]_vars
             PROVE  ParserInv'
  OBVIOUS
<1>1. CASE ParserStep
  BY <1>1, TypeStep, StackStep, CalmStep, ErrorsStep DEF ParserInv
<1>2. CASE UNCHANGED vars
  BY <1>2 DEF ParserInv, vars, TypeOK, TokensInv, StackInv, EndsInv, CalmInv, ErrorsInv,
              NoErrorTwice, Resuming, TopLevelRestart, DeclarationStart, AtEnd, current, step
<1> QED
  BY <1>1, <1>2 DEF Next, Done

\* The invariant holds throughout the parse of every token list: the shape of
\* the call stack, the tokens ahead, and where the last error may be.
THEOREM ParserInvariant == Spec => []ParserInv
BY InitInv, NextInv, PTL DEF Spec

\* parseTopLevel starts every declaration without a panic, parsing ends without
\* one, and no token after the end of input is consumed, whatever the tokens are.
THEOREM DeclarationsAlwaysCalm == Spec => []DeclarationsStartCalm
<1>1. ParserInv => DeclarationsStartCalm
  BY DEF ParserInv, CalmInv, DeclarationsStartCalm, P1
<1> QED
  BY <1>1, ParserInvariant, PTL

\* parserSyntaxError reports tokens in order and none twice, whatever the
\* tokens are; the end of input may be reported for every block left open.
THEOREM ErrorsAlwaysMoveOn == Spec => []NoErrorTwice
<1>1. ParserInv => NoErrorTwice
  BY DEF ParserInv, ErrorsInv
<1> QED
  BY <1>1, ParserInvariant, PTL

-----------------------------------------------------------------------------
(* Brackets: the frames on the stack owe the brackets that are still open *)

Openers == {"(", "[", "LBRACE"}
Closers == {")", "]", "RBRACE"}

\* nest holds the brackets among owed, which also has a place for every frame
\* that owes none; rank counts them.
Ranks(rank, owed, nest) ==
  /\ rank \in [0 .. Len(owed) -> 0 .. Len(nest)]
  /\ rank[0] = 0 /\ rank[Len(owed)] = Len(nest)
  /\ \A j, k \in 0 .. Len(owed) : j <= k => rank[j] <= rank[k]
  /\ \A k \in 1 .. Len(owed) :
       IF owed[k] = "none" THEN rank[k] = rank[k - 1]
                           ELSE rank[k] = rank[k - 1] + 1 /\ nest[rank[k]] = owed[k]

Owes(owed, nest) == \E rank : Ranks(rank, owed, nest)

OwedSeq == Seq(Openers \cup {"none"})

\* Nothing is owed on an empty stack.
LEMMA OwesNothing ==
  /\ \A nest \in Seq(AllTokens) : Owes(<<>>, nest) => nest = <<>>
  /\ Owes(<<>>, <<>>)
<1>1. ASSUME NEW nest \in Seq(AllTokens), Owes(<<>>, nest)
      PROVE  nest = <<>>
  <2>1. PICK rank : Ranks(rank, <<>>, nest)
    BY <1>1 DEF Owes
  <2>2. Len(nest) = 0
    BY <2>1 DEF Ranks
  <2> QED  BY <2>2
<1>2. Ranks([k \in 0 .. 0 |-> 0], <<>>, <<>>)
  BY DEF Ranks
<1> QED
  BY <1>1, <1>2 DEF Owes

\* A frame is pushed.
LEMMA OwesPush ==
  ASSUME NEW owed \in OwedSeq, NEW nest \in Seq(AllTokens), Owes(owed, nest)
  PROVE  /\ Owes(Append(owed, "none"), nest)
         /\ \A b \in Openers : Owes(Append(owed, b), Append(nest, b))
<1> PICK n : n = Len(owed)
  OBVIOUS
<1> PICK m : m = Len(nest)
  OBVIOUS
<1>1. PICK rank : Ranks(rank, owed, nest)
  BY DEF Owes
<1>2. n \in Nat /\ m \in Nat
  BY DEF OwedSeq
<1>3. /\ rank \in [0 .. n -> 0 .. m] /\ rank[0] = 0 /\ rank[n] = m
      /\ \A j, k \in 0 .. n : j <= k => rank[j] <= rank[k]
      /\ \A k \in 1 .. n :
           IF owed[k] = "none" THEN rank[k] = rank[k - 1]
                               ELSE rank[k] = rank[k - 1] + 1 /\ nest[rank[k]] = owed[k]
  BY <1>1 DEF Ranks
<1>4. Owes(Append(owed, "none"), nest)
  <2> PICK o : o = Append(owed, "none")
    OBVIOUS
  <2> PICK r : r = [k \in 0 .. n + 1 |-> IF k = n + 1 THEN m ELSE rank[k]]
    OBVIOUS
  <2>1. /\ o \in OwedSeq /\ Len(o) = n + 1 /\ o[n + 1] = "none"
        /\ \A k \in 1 .. n : o[k] = owed[k]
    BY <1>2 DEF OwedSeq
  <2>2. r[n + 1] = m /\ \A k \in 0 .. n : r[k] = rank[k] /\ rank[k] \in 0 .. m
    BY <1>2, <1>3
  <2>3. r \in [0 .. n + 1 -> 0 .. m]
    BY <1>2, <1>3
  <2>4. \A j, k \in 0 .. n + 1 : j <= k => r[j] <= r[k]
    BY <1>2, <1>3, <2>2
  <2>5. \A k \in 1 .. n + 1 :
          IF o[k] = "none" THEN r[k] = r[k - 1]
                           ELSE r[k] = r[k - 1] + 1 /\ nest[r[k]] = o[k]
    <3> SUFFICES ASSUME NEW k \in 1 .. n + 1
                 PROVE  IF o[k] = "none" THEN r[k] = r[k - 1]
                                         ELSE r[k] = r[k - 1] + 1 /\ nest[r[k]] = o[k]
      OBVIOUS
    <3>1. CASE k = n + 1
      BY <1>2, <1>3, <2>1, <2>2, <3>1
    <3>2. CASE k # n + 1
      <4>1. k \in 1 .. n /\ k \in 0 .. n /\ k - 1 \in 0 .. n
        BY <1>2, <3>2
      <4>2. r[k] = rank[k] /\ r[k - 1] = rank[k - 1] /\ o[k] = owed[k]
        BY <2>1, <2>2, <4>1
      <4> QED  BY <1>3, <4>1, <4>2
    <3> QED  BY <3>1, <3>2
  <2>6. r[0] = 0
    BY <1>2, <1>3, <2>2
  <2>7. Ranks(r, o, nest)
    BY <2>1, <2>2, <2>3, <2>4, <2>5, <2>6 DEF Ranks
  <2> QED  BY <2>7 DEF Owes
<1>5. ASSUME NEW b \in Openers
      PROVE  Owes(Append(owed, b), Append(nest, b))
  <2> PICK o : o = Append(owed, b)
    OBVIOUS
  <2> PICK t : t = Append(nest, b)
    OBVIOUS
  <2> PICK r : r = [k \in 0 .. n + 1 |-> IF k = n + 1 THEN m + 1 ELSE rank[k]]
    OBVIOUS
  <2>1. /\ Len(o) = n + 1 /\ o[n + 1] = b
        /\ \A k \in 1 .. n : o[k] = owed[k]
    BY <1>2 DEF OwedSeq
  <2>2. r[n + 1] = m + 1 /\ \A k \in 0 .. n : r[k] = rank[k] /\ rank[k] \in 0 .. m
    BY <1>2, <1>3
  <2>3. /\ Len(t) = m + 1 /\ t[m + 1] = b
        /\ \A k \in 1 .. m : t[k] = nest[k]
    <3>1. b \in AllTokens
      BY DEF Openers, AllTokens
    <3> QED  BY <1>2, <3>1
  <2>4. r \in [0 .. n + 1 -> 0 .. m + 1]
    BY <1>2, <1>3
  <2>5. \A j, k \in 0 .. n + 1 : j <= k => r[j] <= r[k]
    BY <1>2, <1>3, <2>2
  <2>6. b # "none"
    BY DEF Openers
  <2>7. \A k \in 1 .. n + 1 :
          IF o[k] = "none" THEN r[k] = r[k - 1]
                           ELSE r[k] = r[k - 1] + 1 /\ t[r[k]] = o[k]
    <3> SUFFICES ASSUME NEW k \in 1 .. n + 1
                 PROVE  IF o[k] = "none" THEN r[k] = r[k - 1]
                                         ELSE r[k] = r[k - 1] + 1 /\ t[r[k]] = o[k]
      OBVIOUS
    <3>1. CASE k = n + 1
      <4>1. r[k] = m + 1 /\ r[k - 1] = m
        BY <1>2, <1>3, <2>2, <3>1
      <4> QED  BY <2>1, <2>3, <2>6, <3>1, <4>1
    <3>2. CASE k # n + 1
      <4>1. k \in 1 .. n /\ k \in 0 .. n /\ k - 1 \in 0 .. n
        BY <1>2, <3>2
      <4>2. r[k] = rank[k] /\ r[k - 1] = rank[k - 1] /\ o[k] = owed[k]
        BY <2>1, <2>2, <4>1
      <4>3. rank[k] \in 0 .. m /\ rank[k - 1] \in 0 .. m
        BY <2>2, <4>1
      <4>4. rank[k] = rank[k - 1] + 1 => rank[k] \in 1 .. m
        BY <1>2, <4>3
      <4> QED  BY <1>3, <2>3, <4>1, <4>2, <4>4
    <3> QED  BY <3>1, <3>2
  <2>8. r[0] = 0
    BY <1>2, <1>3, <2>2
  <2>9. Ranks(r, o, t)
    BY <2>1, <2>2, <2>3, <2>4, <2>5, <2>7, <2>8 DEF Ranks
  <2> QED  BY <2>9 DEF Owes
<1> QED
  BY <1>4, <1>5

\* The frame on top is taken away.
LEMMA OwesPop ==
  ASSUME NEW owed \in OwedSeq, NEW nest \in Seq(AllTokens)
  PROVE  /\ Owes(Append(owed, "none"), nest) => Owes(owed, nest)
         /\ \A b \in Openers :
              Owes(Append(owed, b), nest)
                => nest # <<>> /\ Last(nest) = b /\ Owes(owed, Front(nest))
<1> PICK n : n = Len(owed)
  OBVIOUS
<1> PICK m : m = Len(nest)
  OBVIOUS
<1>1. n \in Nat /\ m \in Nat
  BY DEF OwedSeq
<1>2. ASSUME NEW b \in Openers \cup {"none"}, NEW rank, Ranks(rank, Append(owed, b), nest),
             NEW t \in Seq(AllTokens),
             rank[n] = Len(t), \A i \in 1 .. Len(t) : t[i] = nest[i]
      PROVE  Owes(owed, t)
  <2> PICK o : o = Append(owed, b)
    OBVIOUS
  <2>1. /\ Len(o) = n + 1
        /\ \A k \in 1 .. n : o[k] = owed[k]
    BY <1>1 DEF OwedSeq
  <2>2. /\ rank \in [0 .. n + 1 -> 0 .. m] /\ rank[0] = 0
        /\ \A j, k \in 0 .. n + 1 : j <= k => rank[j] <= rank[k]
        /\ \A k \in 1 .. n + 1 :
             IF o[k] = "none" THEN rank[k] = rank[k - 1]
                              ELSE rank[k] = rank[k - 1] + 1 /\ nest[rank[k]] = o[k]
    BY <1>2, <2>1 DEF Ranks
  <2> PICK r : r = [k \in 0 .. n |-> rank[k]]
    OBVIOUS
  <2>3. \A k \in 0 .. n : r[k] = rank[k] /\ rank[k] \in 0 .. m /\ rank[k] <= rank[n]
    BY <1>1, <2>2
  <2>4. Len(t) \in Nat
    OBVIOUS
  <2>5. \A k \in 0 .. n : rank[k] \in 0 .. Len(t)
    BY <1>1, <1>2, <2>3, <2>4
  <2>6. r \in [0 .. n -> 0 .. Len(t)]
    BY <2>3, <2>5
  <2>7. \A j, k \in 0 .. n : j <= k => r[j] <= r[k]
    BY <1>1, <2>2, <2>3
  <2>8. \A k \in 1 .. n :
          IF owed[k] = "none" THEN r[k] = r[k - 1]
                              ELSE r[k] = r[k - 1] + 1 /\ t[r[k]] = owed[k]
    <3> SUFFICES ASSUME NEW k \in 1 .. n
                 PROVE  IF owed[k] = "none" THEN r[k] = r[k - 1]
                                            ELSE r[k] = r[k - 1] + 1 /\ t[r[k]] = owed[k]
      OBVIOUS
    <3>1. k \in 1 .. n + 1 /\ k \in 0 .. n /\ k - 1 \in 0 .. n
      BY <1>1
    <3>2. r[k] = rank[k] /\ r[k - 1] = rank[k - 1] /\ o[k] = owed[k]
      BY <2>1, <2>3, <3>1
    <3>3. rank[k] \in 0 .. Len(t) /\ rank[k - 1] \in 0 .. Len(t)
      BY <2>5, <3>1
    <3>4. rank[k] = rank[k - 1] + 1 => rank[k] \in 1 .. Len(t)
      BY <2>4, <3>3
    <3> QED  BY <1>2, <2>2, <3>1, <3>2, <3>4
  <2>9. r[0] = 0 /\ r[n] = Len(t)
    BY <1>1, <1>2, <2>2, <2>3
  <2>10. Ranks(r, owed, t)
    BY <2>6, <2>7, <2>8, <2>9 DEF Ranks
  <2> QED  BY <2>10 DEF Owes
<1>3. ASSUME Owes(Append(owed, "none"), nest)
      PROVE  Owes(owed, nest)
  <2>1. PICK rank : Ranks(rank, Append(owed, "none"), nest)
    BY <1>3 DEF Owes
  <2>2. Len(Append(owed, "none")) = n + 1 /\ Append(owed, "none")[n + 1] = "none"
    BY <1>1 DEF OwedSeq
  <2>3. rank[n + 1] = m /\ rank[n + 1] = rank[n + 1 - 1]
    BY <1>1, <2>1, <2>2 DEF Ranks
  <2>4. rank[n] = Len(nest)
    BY <1>1, <2>3
  <2> QED  BY <1>2, <2>1, <2>4
<1>4. ASSUME NEW b \in Openers, Owes(Append(owed, b), nest)
      PROVE  nest # <<>> /\ Last(nest) = b /\ Owes(owed, Front(nest))
  <2>1. PICK rank : Ranks(rank, Append(owed, b), nest)
    BY <1>4 DEF Owes
  <2>2. Len(Append(owed, b)) = n + 1 /\ Append(owed, b)[n + 1] = b /\ b # "none"
    BY <1>1 DEF OwedSeq, Openers
  <2>3. rank[n + 1] = m /\ rank[n + 1] = rank[n + 1 - 1] + 1 /\ nest[rank[n + 1]] = b
    BY <1>1, <2>1, <2>2 DEF Ranks
  <2>4. n \in 0 .. n + 1
    BY <1>1
  <2>5. rank[n] \in 0 .. m
    BY <2>1, <2>2, <2>4 DEF Ranks
  <2>6. m = rank[n] + 1 /\ nest[m] = b
    BY <1>1, <2>3
  <2>7. m >= 1 /\ rank[n] = m - 1
    BY <1>1, <2>5, <2>6
  <2>8. nest # <<>> /\ Last(nest) = b
    <3>1. Last(nest) = nest[m]
      BY DEF Last
    <3>2. Len(nest) # 0
      BY <1>1, <2>7
    <3>3. nest # <<>>
      BY <3>2, EmptySeq
    <3> QED  BY <2>6, <3>1, <3>3
  <2>9. Front(nest) = SubSeq(nest, 1, m - 1)
    BY DEF Front
  <2>10. /\ Front(nest) \in Seq(AllTokens) /\ Len(Front(nest)) = m - 1
         /\ \A i \in 1 .. m - 1 : Front(nest)[i] = nest[i]
    <3>1. \A i \in 1 .. m - 1 : nest[i] \in AllTokens
      BY <1>1, <2>7
    <3>2. m - 1 \in Nat
      BY <1>1, <2>7
    <3> QED  BY <2>9, <3>1, <3>2, SubSeqProperties
  <2>11. Owes(owed, Front(nest))
    BY <1>2, <2>1, <2>7, <2>10
  <2> QED  BY <2>8, <2>11
<1> QED
  BY <1>3, <1>4

\* Steps that consume an opening bracket, and steps that consume the closing one
\* themselves or through the function they enter.
OpenSteps  == Openers \cup {"need_LBRACE"}
CloseSteps == Closers \cup {"close", "Call", "MoreArguments", "Elements", "MoreElements", "Element"}
Neutral(a) == a \notin OpenSteps /\ a \notin CloseSteps

OpenedBy(a) == IF a = "need_LBRACE" THEN "LBRACE" ELSE a
ClosedBy(a) ==
  IF a \in {")", "Call", "MoreArguments"} THEN "(" ELSE IF a = "]" THEN "[" ELSE "LBRACE"

\* The steps left to a function open one bracket and close it, or close one that
\* is open, or do neither.
Bracketed(f) ==
  /\ \A i, j \in 1 .. Len(f) : f[i] \in OpenSteps /\ f[j] \in OpenSteps => i = j
  /\ \A i, j \in 1 .. Len(f) : f[i] \in CloseSteps /\ f[j] \in CloseSteps => i = j
  /\ \A i, j \in 1 .. Len(f) :
       f[i] \in OpenSteps /\ f[j] \in CloseSteps => i < j /\ OpenedBy(f[i]) = ClosedBy(f[j])
  /\ \A i \in 1 .. Len(f) : f[i] \in OpenSteps => \E j \in 1 .. Len(f) : f[j] \in CloseSteps

\* The bracket that the function owes.
Owed(f) ==
  IF (\E j \in 1 .. Len(f) : f[j] \in CloseSteps) /\ (\A i \in 1 .. Len(f) : f[i] \notin OpenSteps)
  THEN ClosedBy(f[CHOOSE j \in 1 .. Len(f) : f[j] \in CloseSteps])
  ELSE "none"

\* Opening and closing steps are not the same.
LEMMA StepKinds ==
  /\ OpenSteps \cap CloseSteps = {}
  /\ \A a : ClosedBy(a) \in Openers
  /\ \A a \in OpenSteps : OpenedBy(a) \in Openers
  /\ "none" \notin Openers
BY DEF OpenSteps, CloseSteps, Openers, Closers, ClosedBy, OpenedBy

\* What a function owes is a bracket.
LEMMA OwedType == \A f : Owed(f) \in Openers \cup {"none"}
BY StepKinds DEF Owed

\* What is owed, when a closing step is known.
LEMMA OwedIs ==
  ASSUME NEW f, Bracketed(f), NEW j \in 1 .. Len(f), f[j] \in CloseSteps
  PROVE  Owed(f) = IF \A i \in 1 .. Len(f) : f[i] \notin OpenSteps THEN ClosedBy(f[j]) ELSE "none"
<1>1. (CHOOSE k \in 1 .. Len(f) : f[k] \in CloseSteps) = j
  <2>1. \A k \in 1 .. Len(f) : f[k] \in CloseSteps => k = j
    BY DEF Bracketed
  <2> QED  BY <2>1
<1> QED
  BY <1>1 DEF Owed

\* What is left owes what the whole owed, unless its first step was a bracket.
LEMMA OwedTail ==
  ASSUME NEW f \in Seq(Step), f # <<>>, Bracketed(f)
  PROVE  /\ Bracketed(Tail(f))
         /\ Neutral(Head(f)) => Owed(Tail(f)) = Owed(f)
         /\ Head(f) \in OpenSteps => /\ Owed(f) = "none" /\ Len(f) # 1
                                     /\ Owed(Tail(f)) = OpenedBy(Head(f))
         /\ Head(f) \in CloseSteps => Owed(f) = ClosedBy(Head(f)) /\ Owed(Tail(f)) = "none"
<1> PICK n : n = Len(f)
  OBVIOUS
<1> PICK g : g = Tail(f)
  OBVIOUS
<1>1. /\ n \in Nat /\ n >= 1 /\ Head(f) = f[1] /\ Len(g) = n - 1
      /\ \A i \in 1 .. n - 1 : g[i] = f[i + 1]
  BY HeadTailProperties
<1>2. \A i \in 1 .. n - 1 : i + 1 \in 1 .. n /\ g[i] = f[i + 1]
  BY <1>1
<1>3. \A i \in 1 .. n : i # 1 => i - 1 \in 1 .. n - 1 /\ g[i - 1] = f[i]
  <2> SUFFICES ASSUME NEW i \in 1 .. n, i # 1
               PROVE  i - 1 \in 1 .. n - 1 /\ g[i - 1] = f[i]
    OBVIOUS
  <2>1. i - 1 \in 1 .. n - 1 /\ i - 1 + 1 = i
    BY <1>1
  <2> QED  BY <1>2, <2>1
<1>4. /\ \A i, j \in 1 .. n : f[i] \in OpenSteps /\ f[j] \in OpenSteps => i = j
      /\ \A i, j \in 1 .. n : f[i] \in CloseSteps /\ f[j] \in CloseSteps => i = j
      /\ \A i, j \in 1 .. n :
           f[i] \in OpenSteps /\ f[j] \in CloseSteps => i < j /\ OpenedBy(f[i]) = ClosedBy(f[j])
      /\ \A i \in 1 .. n : f[i] \in OpenSteps => \E j \in 1 .. n : f[j] \in CloseSteps
  BY DEF Bracketed
<1>5. Bracketed(g)
  <2>1. \A i, j \in 1 .. n - 1 : g[i] \in OpenSteps /\ g[j] \in OpenSteps => i = j
    <3> SUFFICES ASSUME NEW i \in 1 .. n - 1, NEW j \in 1 .. n - 1,
                        g[i] \in OpenSteps, g[j] \in OpenSteps
                 PROVE  i = j
      OBVIOUS
    <3>1. i + 1 = j + 1
      BY <1>2, <1>4
    <3> QED  BY <1>1, <3>1
  <2>2. \A i, j \in 1 .. n - 1 : g[i] \in CloseSteps /\ g[j] \in CloseSteps => i = j
    <3> SUFFICES ASSUME NEW i \in 1 .. n - 1, NEW j \in 1 .. n - 1,
                        g[i] \in CloseSteps, g[j] \in CloseSteps
                 PROVE  i = j
      OBVIOUS
    <3>1. i + 1 = j + 1
      BY <1>2, <1>4
    <3> QED  BY <1>1, <3>1
  <2>3. \A i, j \in 1 .. n - 1 :
          g[i] \in OpenSteps /\ g[j] \in CloseSteps => i < j /\ OpenedBy(g[i]) = ClosedBy(g[j])
    <3> SUFFICES ASSUME NEW i \in 1 .. n - 1, NEW j \in 1 .. n - 1,
                        g[i] \in OpenSteps, g[j] \in CloseSteps
                 PROVE  i < j /\ OpenedBy(g[i]) = ClosedBy(g[j])
      OBVIOUS
    <3>1. i + 1 < j + 1 /\ OpenedBy(g[i]) = ClosedBy(g[j])
      BY <1>2, <1>4
    <3> QED  BY <1>1, <3>1
  <2>4. \A i \in 1 .. n - 1 : g[i] \in OpenSteps => \E j \in 1 .. n - 1 : g[j] \in CloseSteps
    <3> SUFFICES ASSUME NEW i \in 1 .. n - 1, g[i] \in OpenSteps
                 PROVE  \E j \in 1 .. n - 1 : g[j] \in CloseSteps
      OBVIOUS
    <3>1. i + 1 \in 1 .. n /\ f[i + 1] \in OpenSteps
      BY <1>2
    <3>2. PICK j \in 1 .. n : f[j] \in CloseSteps
      BY <1>4, <3>1
    <3>3. i + 1 < j
      BY <1>4, <3>1, <3>2
    <3>4. j # 1
      BY <1>1, <3>3
    <3> QED  BY <1>3, <3>2, <3>4
  <2> QED  BY <1>1, <2>1, <2>2, <2>3, <2>4 DEF Bracketed
<1>6. CASE Neutral(Head(f))
  <2>1. f[1] \notin OpenSteps /\ f[1] \notin CloseSteps
    BY <1>1, <1>6 DEF Neutral
  <2>2. (\A i \in 1 .. n : f[i] \notin OpenSteps) <=> (\A i \in 1 .. n - 1 : g[i] \notin OpenSteps)
    BY <1>2, <1>3, <2>1
  <2>3. CASE \E j \in 1 .. n : f[j] \in CloseSteps
    <3>1. PICK j \in 1 .. n : f[j] \in CloseSteps
      BY <2>3
    <3>2. j # 1
      BY <2>1, <3>1
    <3>3. j - 1 \in 1 .. n - 1 /\ g[j - 1] = f[j]
      BY <1>3, <3>2
    <3>4. Owed(f) = IF \A i \in 1 .. n : f[i] \notin OpenSteps THEN ClosedBy(f[j]) ELSE "none"
      BY <3>1, OwedIs
    <3>5. Owed(g) = IF \A i \in 1 .. n - 1 : g[i] \notin OpenSteps THEN ClosedBy(g[j - 1]) ELSE "none"
      BY <1>1, <1>5, <3>1, <3>3, OwedIs
    <3>6. Owed(g) = Owed(f)
      BY <2>2, <3>3, <3>4, <3>5
    <3> QED  BY <1>5, <1>6, <3>6, StepKinds DEF Neutral
  <2>4. CASE ~ \E j \in 1 .. n : f[j] \in CloseSteps
    <3>1. ~ \E j \in 1 .. n - 1 : g[j] \in CloseSteps
      BY <1>2, <2>4
    <3>2. Owed(f) = "none" /\ Owed(g) = "none"
      BY <1>1, <2>4, <3>1 DEF Owed
    <3> QED  BY <1>5, <1>6, <3>2, StepKinds DEF Neutral
  <2> QED  BY <2>3, <2>4
<1>7. CASE Head(f) \in OpenSteps
  <2>1. 1 \in 1 .. n /\ f[1] \in OpenSteps
    BY <1>1, <1>7
  <2>2. PICK j \in 1 .. n : f[j] \in CloseSteps
    BY <1>4, <2>1
  <2>3. 1 < j /\ OpenedBy(f[1]) = ClosedBy(f[j])
    BY <1>4, <2>1, <2>2
  <2>4. j # 1 /\ n # 1
    BY <1>1, <2>3
  <2>5. j - 1 \in 1 .. n - 1 /\ g[j - 1] = f[j]
    BY <1>3, <2>4
  <2>6. \A i \in 1 .. n - 1 : g[i] \notin OpenSteps
    <3> SUFFICES ASSUME NEW i \in 1 .. n - 1, g[i] \in OpenSteps
                 PROVE  FALSE
      OBVIOUS
    <3>1. i + 1 = 1
      BY <1>2, <1>4, <2>1
    <3> QED  BY <1>1, <3>1
  <2>7. Owed(g) = ClosedBy(g[j - 1])
    BY <1>1, <1>5, <2>2, <2>5, <2>6, OwedIs
  <2>8. Owed(f) = "none"
    BY <2>1 DEF Owed
  <2>9. Owed(g) = OpenedBy(Head(f))
    BY <1>1, <2>3, <2>5, <2>7
  <2>10. ~Neutral(Head(f)) /\ Head(f) \notin CloseSteps
    BY <1>7, StepKinds DEF Neutral
  <2> QED  BY <1>5, <2>4, <2>8, <2>9, <2>10
<1>8. CASE Head(f) \in CloseSteps
  <2>1. 1 \in 1 .. n /\ f[1] \in CloseSteps
    BY <1>1, <1>8
  <2>2. \A i \in 1 .. n : f[i] \notin OpenSteps
    <3> SUFFICES ASSUME NEW i \in 1 .. n, f[i] \in OpenSteps
                 PROVE  FALSE
      OBVIOUS
    <3>1. i < 1
      BY <1>4, <2>1
    <3> QED  BY <1>1, <3>1
  <2>3. Owed(f) = ClosedBy(Head(f))
    BY <1>1, <2>1, <2>2, OwedIs
  <2>4. \A i \in 1 .. n - 1 : g[i] \notin CloseSteps
    <3> SUFFICES ASSUME NEW i \in 1 .. n - 1, g[i] \in CloseSteps
                 PROVE  FALSE
      OBVIOUS
    <3>1. i + 1 = 1
      BY <1>2, <1>4, <2>1
    <3> QED  BY <1>1, <3>1
  <2>5. Owed(g) = "none"
    BY <1>1, <2>4 DEF Owed
  <2>6. ~Neutral(Head(f)) /\ Head(f) \notin OpenSteps
    BY <1>8, StepKinds DEF Neutral
  <2> QED  BY <1>5, <2>3, <2>5, <2>6
<1> QED
  BY <1>6, <1>7, <1>8 DEF Neutral

\* The steps a function is entered with, and what they owe.
Frame(f, b) == f \in Seq(Step) /\ f # <<>> /\ Bracketed(f) /\ Owed(f) = b

\* Steps without brackets.
LEMMA FrameWithout ==
  ASSUME NEW f \in Seq(Step), f # <<>>, \A k \in 1 .. Len(f) : Neutral(f[k])
  PROVE  Frame(f, "none")
BY DEF Frame, Bracketed, Owed, Neutral

\* Steps with a closing one.
LEMMA FrameClosing ==
  ASSUME NEW f \in Seq(Step), f # <<>>, NEW j \in 1 .. Len(f), f[j] \in CloseSteps,
         \A k \in 1 .. Len(f) : k # j => Neutral(f[k])
  PROVE  Frame(f, ClosedBy(f[j]))
<1>1. \A k \in 1 .. Len(f) : f[k] \notin OpenSteps
  BY StepKinds DEF Neutral
<1>2. Bracketed(f)
  BY <1>1 DEF Bracketed, Neutral
<1> QED
  BY <1>1, <1>2, OwedIs DEF Frame

\* Steps with a pair of brackets.
LEMMA FramePaired ==
  ASSUME NEW f \in Seq(Step), f # <<>>, NEW i \in 1 .. Len(f), NEW j \in 1 .. Len(f),
         f[i] \in OpenSteps, f[j] \in CloseSteps, i < j, OpenedBy(f[i]) = ClosedBy(f[j]),
         \A k \in 1 .. Len(f) : k # i /\ k # j => Neutral(f[k])
  PROVE  Frame(f, "none")
<1>1. /\ \A k \in 1 .. Len(f) : f[k] \in OpenSteps => k = i
      /\ \A k \in 1 .. Len(f) : f[k] \in CloseSteps => k = j
  BY StepKinds DEF Neutral
<1>2. Bracketed(f)
  BY <1>1 DEF Bracketed
<1> QED
  BY <1>2, OwedIs DEF Frame

NeutralStep == {a \in Step : Neutral(a)}

\* Short sequences of steps that are no brackets.
LEMMA NeutralShort ==
  /\ \A a \in NeutralStep : Frame(<<a>>, "none")
  /\ \A a, b \in NeutralStep : Frame(<<a, b>>, "none")
  /\ \A a, b, c \in NeutralStep : Frame(<<a, b, c>>, "none")
  /\ \A a, b, c, d \in NeutralStep : Frame(<<a, b, c, d>>, "none")
  /\ \A a, b, c, d, e \in NeutralStep : Frame(<<a, b, c, d, e>>, "none")
  /\ \A a, b, c, d, e, f \in NeutralStep : Frame(<<a, b, c, d, e, f>>, "none")
<1>1. \A a \in NeutralStep : Frame(<<a>>, "none")
  <2> SUFFICES ASSUME NEW a \in NeutralStep
               PROVE  Frame(<<a>>, "none")
    OBVIOUS
  <2> PICK s : s = <<a>>
    OBVIOUS
  <2>1. s \in Seq(Step) /\ s # <<>> /\ \A k \in 1 .. Len(s) : Neutral(s[k])
    BY DEF NeutralStep
  <2> QED  BY <2>1, FrameWithout
<1>2. \A a, b \in NeutralStep : Frame(<<a, b>>, "none")
  <2> SUFFICES ASSUME NEW a \in NeutralStep, NEW b \in NeutralStep
               PROVE  Frame(<<a, b>>, "none")
    OBVIOUS
  <2> PICK s : s = <<a, b>>
    OBVIOUS
  <2>1. s \in Seq(Step) /\ s # <<>> /\ \A k \in 1 .. Len(s) : Neutral(s[k])
    BY DEF NeutralStep
  <2> QED  BY <2>1, FrameWithout
<1>3. \A a, b, c \in NeutralStep : Frame(<<a, b, c>>, "none")
  <2> SUFFICES ASSUME NEW a \in NeutralStep, NEW b \in NeutralStep, NEW c \in NeutralStep
               PROVE  Frame(<<a, b, c>>, "none")
    OBVIOUS
  <2> PICK s : s = <<a, b, c>>
    OBVIOUS
  <2>1. s \in Seq(Step) /\ s # <<>> /\ \A k \in 1 .. Len(s) : Neutral(s[k])
    BY DEF NeutralStep
  <2> QED  BY <2>1, FrameWithout
<1>4. \A a, b, c, d \in NeutralStep : Frame(<<a, b, c, d>>, "none")
  <2> SUFFICES ASSUME NEW a \in NeutralStep, NEW b \in NeutralStep, NEW c \in NeutralStep, NEW d \in NeutralStep
               PROVE  Frame(<<a, b, c, d>>, "none")
    OBVIOUS
  <2> PICK s : s = <<a, b, c, d>>
    OBVIOUS
  <2>1. s \in Seq(Step) /\ s # <<>> /\ \A k \in 1 .. Len(s) : Neutral(s[k])
    BY DEF NeutralStep
  <2> QED  BY <2>1, FrameWithout
<1>5. \A a, b, c, d, e \in NeutralStep : Frame(<<a, b, c, d, e>>, "none")
  <2> SUFFICES ASSUME NEW a \in NeutralStep, NEW b \in NeutralStep, NEW c \in NeutralStep, NEW d \in NeutralStep, NEW e \in NeutralStep
               PROVE  Frame(<<a, b, c, d, e>>, "none")
    OBVIOUS
  <2> PICK s : s = <<a, b, c, d, e>>
    OBVIOUS
  <2>1. s \in Seq(Step) /\ s # <<>> /\ \A k \in 1 .. Len(s) : Neutral(s[k])
    BY DEF NeutralStep
  <2> QED  BY <2>1, FrameWithout
<1>6. \A a, b, c, d, e, f \in NeutralStep : Frame(<<a, b, c, d, e, f>>, "none")
  <2> SUFFICES ASSUME NEW a \in NeutralStep, NEW b \in NeutralStep, NEW c \in NeutralStep, NEW d \in NeutralStep, NEW e \in NeutralStep, NEW f \in NeutralStep
               PROVE  Frame(<<a, b, c, d, e, f>>, "none")
    OBVIOUS
  <2> PICK s : s = <<a, b, c, d, e, f>>
    OBVIOUS
  <2>1. s \in Seq(Step) /\ s # <<>> /\ \A k \in 1 .. Len(s) : Neutral(s[k])
    BY DEF NeutralStep
  <2> QED  BY <2>1, FrameWithout
<1> QED
  BY <1>1, <1>2, <1>3, <1>4, <1>5, <1>6

\* Steps that are no brackets.
LEMMA NeutralSteps ==
  {"*", "::", ">", "ArrayElement", "ArrayLiteral", "ArraySuffixes", "Assign",
   "AssignValue", "Block", "ElseBranch", "ExternFunction", "Factor", "For", "Function",
   "If", "Initializer", "Logical", "LoopControl", "MoreParameters", "Negation",
   "Operators", "Parameter", "Postfix", "Program", "ReturnValue", "SEMICOLON",
   "Statement", "Statements", "TopLevel", "Type", "While", "fail", "need_id", "next",
   "no", "panic?", "resync", "sync", "yes"}
    \subseteq NeutralStep
BY DEF NeutralStep, Neutral, OpenSteps, CloseSteps, Openers, Closers, Step, Functions, AllTokens

\* Steps without a bracket.
LEMMA FramesWithout ==
  /\ Frame(<<"TopLevel", "resync", "Program">>, "none")
  /\ Frame(<<"Function">>, "none")
  /\ Frame(<<"ExternFunction">>, "none")
  /\ Frame(<<"Assign", "panic?", "SEMICOLON">>, "none")
  /\ Frame(<<"fail">>, "none")
  /\ Frame(<<"Parameter", "panic?", "MoreParameters">>, "none")
  /\ Frame(<<"next", "Parameter", "panic?", "MoreParameters">>, "none")
  /\ Frame(<<"need_id", "::", "panic?", "Type">>, "none")
  /\ Frame(<<"Statement", "sync", "Statements">>, "none")
  /\ Frame(<<"If">>, "none")
  /\ Frame(<<"While">>, "none")
  /\ Frame(<<"For">>, "none")
  /\ Frame(<<"LoopControl", "panic?", "SEMICOLON">>, "none")
  /\ Frame(<<"next", "ElseBranch">>, "none")
  /\ Frame(<<"Block">>, "none")
  /\ Frame(<<"next">>, "none")
  /\ Frame(<<"next", "ReturnValue">>, "none")
  /\ Frame(<<"Assign">>, "none")
  /\ Frame(<<"Logical">>, "none")
  /\ Frame(<<"next", "::", "panic?", "Type", "panic?", "Initializer">>, "none")
  /\ Frame(<<"Logical", "panic?", "AssignValue">>, "none")
  /\ Frame(<<"next", "Logical">>, "none")
  /\ Frame(<<"Negation", "Operators">>, "none")
  /\ Frame(<<"next", "Negation", "no", "Operators">>, "none")
  /\ Frame(<<"next", "Negation", "yes">>, "none")
  /\ Frame(<<"next", "Negation", "no">>, "none")
  /\ Frame(<<"Factor">>, "none")
  /\ Frame(<<"next", "no">>, "none")
  /\ Frame(<<"ArrayLiteral">>, "none")
  /\ Frame(<<"next", "yes", "Postfix">>, "none")
  /\ Frame(<<"no">>, "none")
  /\ Frame(<<"*", "panic?", "Type">>, "none")
  /\ Frame(<<"next", "ArrayElement">>, "none")
  /\ Frame(<<"next", "ArraySuffixes">>, "none")
  /\ Frame(<<"next", "Type", "panic?", ">", "ArraySuffixes">>, "none")
  /\ Frame(<<"ArraySuffixes">>, "none")
<1>1. Frame(<<"TopLevel", "resync", "Program">>, "none")
  BY NeutralShort, NeutralSteps
<1>2. Frame(<<"Function">>, "none")
  BY NeutralShort, NeutralSteps
<1>3. Frame(<<"ExternFunction">>, "none")
  BY NeutralShort, NeutralSteps
<1>4. Frame(<<"Assign", "panic?", "SEMICOLON">>, "none")
  BY NeutralShort, NeutralSteps
<1>5. Frame(<<"fail">>, "none")
  BY NeutralShort, NeutralSteps
<1>6. Frame(<<"Parameter", "panic?", "MoreParameters">>, "none")
  BY NeutralShort, NeutralSteps
<1>7. Frame(<<"next", "Parameter", "panic?", "MoreParameters">>, "none")
  BY NeutralShort, NeutralSteps
<1>8. Frame(<<"need_id", "::", "panic?", "Type">>, "none")
  BY NeutralShort, NeutralSteps
<1>9. Frame(<<"Statement", "sync", "Statements">>, "none")
  BY NeutralShort, NeutralSteps
<1>10. Frame(<<"If">>, "none")
  BY NeutralShort, NeutralSteps
<1>11. Frame(<<"While">>, "none")
  BY NeutralShort, NeutralSteps
<1>12. Frame(<<"For">>, "none")
  BY NeutralShort, NeutralSteps
<1>13. Frame(<<"LoopControl", "panic?", "SEMICOLON">>, "none")
  BY NeutralShort, NeutralSteps
<1>14. Frame(<<"next", "ElseBranch">>, "none")
  BY NeutralShort, NeutralSteps
<1>15. Frame(<<"Block">>, "none")
  BY NeutralShort, NeutralSteps
<1>16. Frame(<<"next">>, "none")
  BY NeutralShort, NeutralSteps
<1>17. Frame(<<"next", "ReturnValue">>, "none")
  BY NeutralShort, NeutralSteps
<1>18. Frame(<<"Assign">>, "none")
  BY NeutralShort, NeutralSteps
<1>19. Frame(<<"Logical">>, "none")
  BY NeutralShort, NeutralSteps
<1>20. Frame(<<"next", "::", "panic?", "Type", "panic?", "Initializer">>, "none")
  BY NeutralShort, NeutralSteps
<1>21. Frame(<<"Logical", "panic?", "AssignValue">>, "none")
  BY NeutralShort, NeutralSteps
<1>22. Frame(<<"next", "Logical">>, "none")
  BY NeutralShort, NeutralSteps
<1>23. Frame(<<"Negation", "Operators">>, "none")
  BY NeutralShort, NeutralSteps
<1>24. Frame(<<"next", "Negation", "no", "Operators">>, "none")
  BY NeutralShort, NeutralSteps
<1>25. Frame(<<"next", "Negation", "yes">>, "none")
  BY NeutralShort, NeutralSteps
<1>26. Frame(<<"next", "Negation", "no">>, "none")
  BY NeutralShort, NeutralSteps
<1>27. Frame(<<"Factor">>, "none")
  BY NeutralShort, NeutralSteps
<1>28. Frame(<<"next", "no">>, "none")
  BY NeutralShort, NeutralSteps
<1>29. Frame(<<"ArrayLiteral">>, "none")
  BY NeutralShort, NeutralSteps
<1>30. Frame(<<"next", "yes", "Postfix">>, "none")
  BY NeutralShort, NeutralSteps
<1>31. Frame(<<"no">>, "none")
  BY NeutralShort, NeutralSteps
<1>32. Frame(<<"*", "panic?", "Type">>, "none")
  BY NeutralShort, NeutralSteps
<1>33. Frame(<<"next", "ArrayElement">>, "none")
  BY NeutralShort, NeutralSteps
<1>34. Frame(<<"next", "ArraySuffixes">>, "none")
  BY NeutralShort, NeutralSteps
<1>35. Frame(<<"next", "Type", "panic?", ">", "ArraySuffixes">>, "none")
  BY NeutralShort, NeutralSteps
<1>36. Frame(<<"ArraySuffixes">>, "none")
  BY NeutralShort, NeutralSteps
<1> QED
  BY <1>1, <1>2, <1>3, <1>4, <1>5, <1>6, <1>7, <1>8, <1>9, <1>10, <1>11, <1>12, <1>13, <1>14,
     <1>15, <1>16, <1>17, <1>18, <1>19, <1>20, <1>21, <1>22, <1>23, <1>24, <1>25, <1>26,
     <1>27, <1>28, <1>29, <1>30, <1>31, <1>32, <1>33, <1>34, <1>35, <1>36

\* Steps that close a bracket that is open.
LEMMA FramesClosing ==
  /\ Frame(<<"next", "Logical", "panic?", ")">>, "(")
  /\ Frame(<<"next", "Call">>, "(")
  /\ Frame(<<"next", "Logical", "panic?", "]", "yes", "Postfix">>, "[")
  /\ Frame(<<")", "CalledPostfix">>, "(")
  /\ Frame(<<"Logical", "panic?", "MoreArguments">>, "(")
  /\ Frame(<<"next", "Logical", "panic?", "MoreArguments">>, "(")
  /\ Frame(<<"next", "Logical", "panic?", "]", "CalledPostfix">>, "[")
  /\ Frame(<<"next", "ArraySize", "]", "ArraySuffixes">>, "[")
  /\ Frame(<<"RBRACE", "no">>, "LBRACE")
  /\ Frame(<<"Logical", "panic?", "MoreElements">>, "LBRACE")
  /\ Frame(<<"next", "Element">>, "LBRACE")
<1>1. Frame(<<"next", "Logical", "panic?", ")">>, "(")
  <2> PICK f : f = <<"next", "Logical", "panic?", ")">>
    OBVIOUS
  <2>1. /\ f \in Seq(Step) /\ f # <<>> /\ 4 \in 1 .. Len(f)
        /\ f[4] \in CloseSteps /\ ClosedBy(f[4]) = "("
        /\ \A k \in 1 .. Len(f) : k # 4 => Neutral(f[k])
    BY DEF Neutral, OpenSteps, CloseSteps, Openers, Closers, Step, Functions, AllTokens,
       ClosedBy
  <2> QED  BY <2>1, FrameClosing
<1>2. Frame(<<"next", "Call">>, "(")
  <2> PICK f : f = <<"next", "Call">>
    OBVIOUS
  <2>1. /\ f \in Seq(Step) /\ f # <<>> /\ 2 \in 1 .. Len(f)
        /\ f[2] \in CloseSteps /\ ClosedBy(f[2]) = "("
        /\ \A k \in 1 .. Len(f) : k # 2 => Neutral(f[k])
    BY DEF Neutral, OpenSteps, CloseSteps, Openers, Closers, Step, Functions, AllTokens,
       ClosedBy
  <2> QED  BY <2>1, FrameClosing
<1>3. Frame(<<"next", "Logical", "panic?", "]", "yes", "Postfix">>, "[")
  <2> PICK f : f = <<"next", "Logical", "panic?", "]", "yes", "Postfix">>
    OBVIOUS
  <2>1. /\ f \in Seq(Step) /\ f # <<>> /\ 4 \in 1 .. Len(f)
        /\ f[4] \in CloseSteps /\ ClosedBy(f[4]) = "["
        /\ \A k \in 1 .. Len(f) : k # 4 => Neutral(f[k])
    BY DEF Neutral, OpenSteps, CloseSteps, Openers, Closers, Step, Functions, AllTokens,
       ClosedBy
  <2> QED  BY <2>1, FrameClosing
<1>4. Frame(<<")", "CalledPostfix">>, "(")
  <2> PICK f : f = <<")", "CalledPostfix">>
    OBVIOUS
  <2>1. /\ f \in Seq(Step) /\ f # <<>> /\ 1 \in 1 .. Len(f)
        /\ f[1] \in CloseSteps /\ ClosedBy(f[1]) = "("
        /\ \A k \in 1 .. Len(f) : k # 1 => Neutral(f[k])
    BY DEF Neutral, OpenSteps, CloseSteps, Openers, Closers, Step, Functions, AllTokens,
       ClosedBy
  <2> QED  BY <2>1, FrameClosing
<1>5. Frame(<<"Logical", "panic?", "MoreArguments">>, "(")
  <2> PICK f : f = <<"Logical", "panic?", "MoreArguments">>
    OBVIOUS
  <2>1. /\ f \in Seq(Step) /\ f # <<>> /\ 3 \in 1 .. Len(f)
        /\ f[3] \in CloseSteps /\ ClosedBy(f[3]) = "("
        /\ \A k \in 1 .. Len(f) : k # 3 => Neutral(f[k])
    BY DEF Neutral, OpenSteps, CloseSteps, Openers, Closers, Step, Functions, AllTokens,
       ClosedBy
  <2> QED  BY <2>1, FrameClosing
<1>6. Frame(<<"next", "Logical", "panic?", "MoreArguments">>, "(")
  <2> PICK f : f = <<"next", "Logical", "panic?", "MoreArguments">>
    OBVIOUS
  <2>1. /\ f \in Seq(Step) /\ f # <<>> /\ 4 \in 1 .. Len(f)
        /\ f[4] \in CloseSteps /\ ClosedBy(f[4]) = "("
        /\ \A k \in 1 .. Len(f) : k # 4 => Neutral(f[k])
    BY DEF Neutral, OpenSteps, CloseSteps, Openers, Closers, Step, Functions, AllTokens,
       ClosedBy
  <2> QED  BY <2>1, FrameClosing
<1>7. Frame(<<"next", "Logical", "panic?", "]", "CalledPostfix">>, "[")
  <2> PICK f : f = <<"next", "Logical", "panic?", "]", "CalledPostfix">>
    OBVIOUS
  <2>1. /\ f \in Seq(Step) /\ f # <<>> /\ 4 \in 1 .. Len(f)
        /\ f[4] \in CloseSteps /\ ClosedBy(f[4]) = "["
        /\ \A k \in 1 .. Len(f) : k # 4 => Neutral(f[k])
    BY DEF Neutral, OpenSteps, CloseSteps, Openers, Closers, Step, Functions, AllTokens,
       ClosedBy
  <2> QED  BY <2>1, FrameClosing
<1>8. Frame(<<"next", "ArraySize", "]", "ArraySuffixes">>, "[")
  <2> PICK f : f = <<"next", "ArraySize", "]", "ArraySuffixes">>
    OBVIOUS
  <2>1. /\ f \in Seq(Step) /\ f # <<>> /\ 3 \in 1 .. Len(f)
        /\ f[3] \in CloseSteps /\ ClosedBy(f[3]) = "["
        /\ \A k \in 1 .. Len(f) : k # 3 => Neutral(f[k])
    BY DEF Neutral, OpenSteps, CloseSteps, Openers, Closers, Step, Functions, AllTokens,
       ClosedBy
  <2> QED  BY <2>1, FrameClosing
<1>9. Frame(<<"RBRACE", "no">>, "LBRACE")
  <2> PICK f : f = <<"RBRACE", "no">>
    OBVIOUS
  <2>1. /\ f \in Seq(Step) /\ f # <<>> /\ 1 \in 1 .. Len(f)
        /\ f[1] \in CloseSteps /\ ClosedBy(f[1]) = "LBRACE"
        /\ \A k \in 1 .. Len(f) : k # 1 => Neutral(f[k])
    BY DEF Neutral, OpenSteps, CloseSteps, Openers, Closers, Step, Functions, AllTokens,
       ClosedBy
  <2> QED  BY <2>1, FrameClosing
<1>10. Frame(<<"Logical", "panic?", "MoreElements">>, "LBRACE")
  <2> PICK f : f = <<"Logical", "panic?", "MoreElements">>
    OBVIOUS
  <2>1. /\ f \in Seq(Step) /\ f # <<>> /\ 3 \in 1 .. Len(f)
        /\ f[3] \in CloseSteps /\ ClosedBy(f[3]) = "LBRACE"
        /\ \A k \in 1 .. Len(f) : k # 3 => Neutral(f[k])
    BY DEF Neutral, OpenSteps, CloseSteps, Openers, Closers, Step, Functions, AllTokens,
       ClosedBy
  <2> QED  BY <2>1, FrameClosing
<1>11. Frame(<<"next", "Element">>, "LBRACE")
  <2> PICK f : f = <<"next", "Element">>
    OBVIOUS
  <2>1. /\ f \in Seq(Step) /\ f # <<>> /\ 2 \in 1 .. Len(f)
        /\ f[2] \in CloseSteps /\ ClosedBy(f[2]) = "LBRACE"
        /\ \A k \in 1 .. Len(f) : k # 2 => Neutral(f[k])
    BY DEF Neutral, OpenSteps, CloseSteps, Openers, Closers, Step, Functions, AllTokens,
       ClosedBy
  <2> QED  BY <2>1, FrameClosing
<1> QED
  BY <1>1, <1>2, <1>3, <1>4, <1>5, <1>6, <1>7, <1>8, <1>9, <1>10, <1>11

\* Steps that open a bracket and close it.
LEMMA FramesPaired ==
  /\ Frame(<<"need_LBRACE", "Statements", "close">>, "none")
  /\ Frame(<<"LBRACE", "Elements">>, "none")
<1>1. Frame(<<"need_LBRACE", "Statements", "close">>, "none")
  <2> PICK f : f = <<"need_LBRACE", "Statements", "close">>
    OBVIOUS
  <2> PICK i : i = 1
    OBVIOUS
  <2> PICK j : j = 3
    OBVIOUS
  <2>1. /\ f \in Seq(Step) /\ f # <<>> /\ i < j /\ i \in 1 .. Len(f) /\ j \in 1 .. Len(f)
        /\ f[i] \in OpenSteps /\ f[j] \in CloseSteps /\ OpenedBy(f[i]) = ClosedBy(f[j])
        /\ \A k \in 1 .. Len(f) : k # i /\ k # j => Neutral(f[k])
    BY DEF Neutral, OpenSteps, CloseSteps, Openers, Closers, Step, Functions, AllTokens,
       ClosedBy, OpenedBy
  <2> QED  BY <2>1, FramePaired
<1>2. Frame(<<"LBRACE", "Elements">>, "none")
  <2> PICK f : f = <<"LBRACE", "Elements">>
    OBVIOUS
  <2> PICK i : i = 1
    OBVIOUS
  <2> PICK j : j = 2
    OBVIOUS
  <2>1. /\ f \in Seq(Step) /\ f # <<>> /\ i < j /\ i \in 1 .. Len(f) /\ j \in 1 .. Len(f)
        /\ f[i] \in OpenSteps /\ f[j] \in CloseSteps /\ OpenedBy(f[i]) = ClosedBy(f[j])
        /\ \A k \in 1 .. Len(f) : k # i /\ k # j => Neutral(f[k])
    BY DEF Neutral, OpenSteps, CloseSteps, Openers, Closers, Step, Functions, AllTokens,
       ClosedBy, OpenedBy
  <2> QED  BY <2>1, FramePaired
<1> QED
  BY <1>1, <1>2

\* The steps of the long functions: one pair of parentheses.
LEMMA FramesLong ==
  /\ Frame(ParseFunction, "none") /\ ParseFunction[1] = "next"
  /\ Frame(ParseExternFunction, "none") /\ ParseExternFunction[1] = "next"
  /\ Frame(ParseIf, "none") /\ ParseIf[1] = "next"
  /\ Frame(ParseWhile, "none") /\ ParseWhile[1] = "next"
  /\ Frame(ParseFor, "none") /\ ParseFor[1] = "next"
<1>1. Frame(ParseFunction, "none") /\ ParseFunction[1] = "next"
  <2> PICK i : i = 3
    OBVIOUS
  <2> PICK j : j = 7
    OBVIOUS
  <2> PICK f : f = ParseFunction
    OBVIOUS
  <2>1. /\ f \in Seq(Step) /\ f # <<>> /\ f[1] = "next"
        /\ i < j /\ i \in 1 .. Len(f) /\ j \in 1 .. Len(f)
    BY DEF ParseFunction, Signature, Step, Functions, AllTokens
  <2>2. /\ f[i] \in OpenSteps /\ f[j] \in CloseSteps /\ OpenedBy(f[i]) = ClosedBy(f[j])
        /\ \A k \in 1 .. Len(f) : k # i /\ k # j => Neutral(f[k])
    BY DEF ParseFunction, Signature, Neutral, OpenSteps, CloseSteps, Openers, Closers,
       ClosedBy, OpenedBy
  <2> QED  BY <2>1, <2>2, FramePaired
<1>2. Frame(ParseExternFunction, "none") /\ ParseExternFunction[1] = "next"
  <2> PICK i : i = 5
    OBVIOUS
  <2> PICK j : j = 9
    OBVIOUS
  <2> PICK f : f = ParseExternFunction
    OBVIOUS
  <2>1. /\ f \in Seq(Step) /\ f # <<>> /\ f[1] = "next"
        /\ i < j /\ i \in 1 .. Len(f) /\ j \in 1 .. Len(f)
    BY DEF ParseExternFunction, Signature, Step, Functions, AllTokens
  <2>2. /\ f[i] \in OpenSteps /\ f[j] \in CloseSteps /\ OpenedBy(f[i]) = ClosedBy(f[j])
        /\ \A k \in 1 .. Len(f) : k # i /\ k # j => Neutral(f[k])
    BY DEF ParseExternFunction, Signature, Neutral, OpenSteps, CloseSteps, Openers, Closers,
       ClosedBy, OpenedBy
  <2> QED  BY <2>1, <2>2, FramePaired
<1>3. Frame(ParseIf, "none") /\ ParseIf[1] = "next"
  <2> PICK i : i = 2
    OBVIOUS
  <2> PICK j : j = 6
    OBVIOUS
  <2> PICK f : f = ParseIf
    OBVIOUS
  <2>1. /\ f \in Seq(Step) /\ f # <<>> /\ f[1] = "next"
        /\ i < j /\ i \in 1 .. Len(f) /\ j \in 1 .. Len(f)
    BY DEF ParseIf, Step, Functions, AllTokens
  <2>2. /\ f[i] \in OpenSteps /\ f[j] \in CloseSteps /\ OpenedBy(f[i]) = ClosedBy(f[j])
        /\ \A k \in 1 .. Len(f) : k # i /\ k # j => Neutral(f[k])
    BY DEF ParseIf, Neutral, OpenSteps, CloseSteps, Openers, Closers, ClosedBy, OpenedBy
  <2> QED  BY <2>1, <2>2, FramePaired
<1>4. Frame(ParseWhile, "none") /\ ParseWhile[1] = "next"
  <2> PICK i : i = 2
    OBVIOUS
  <2> PICK j : j = 6
    OBVIOUS
  <2> PICK f : f = ParseWhile
    OBVIOUS
  <2>1. /\ f \in Seq(Step) /\ f # <<>> /\ f[1] = "next"
        /\ i < j /\ i \in 1 .. Len(f) /\ j \in 1 .. Len(f)
    BY DEF ParseWhile, Step, Functions, AllTokens
  <2>2. /\ f[i] \in OpenSteps /\ f[j] \in CloseSteps /\ OpenedBy(f[i]) = ClosedBy(f[j])
        /\ \A k \in 1 .. Len(f) : k # i /\ k # j => Neutral(f[k])
    BY DEF ParseWhile, Neutral, OpenSteps, CloseSteps, Openers, Closers, ClosedBy, OpenedBy
  <2> QED  BY <2>1, <2>2, FramePaired
<1>5. Frame(ParseFor, "none") /\ ParseFor[1] = "next"
  <2> PICK i : i = 2
    OBVIOUS
  <2> PICK j : j = 14
    OBVIOUS
  <2> PICK f : f = ParseFor
    OBVIOUS
  <2>1. /\ f \in Seq(Step) /\ f # <<>> /\ f[1] = "next"
        /\ i < j /\ i \in 1 .. Len(f) /\ j \in 1 .. Len(f)
    BY DEF ParseFor, Step, Functions, AllTokens
  <2>2. /\ f[i] \in OpenSteps /\ f[j] \in CloseSteps /\ OpenedBy(f[i]) = ClosedBy(f[j])
        /\ \A k \in 1 .. Len(f) : k # i /\ k # j => Neutral(f[k])
    BY DEF ParseFor, Neutral, OpenSteps, CloseSteps, Openers, Closers, ClosedBy, OpenedBy
  <2> QED  BY <2>1, <2>2, FramePaired
<1> QED
  BY <1>1, <1>2, <1>3, <1>4, <1>5

\* What entering F does to the brackets owed: its steps owe what F owes, or the
\* bracket that the first of them is about to consume.
Entered(F, s) ==
  /\ s = <<>> => F \notin CloseSteps
  /\ s # <<>> =>
       /\ Frame(s, IF s[1] = "next" /\ current \in Openers THEN current
                   ELSE IF F \in CloseSteps THEN ClosedBy(F) ELSE "none")
       /\ s[1] = "next" /\ current \in Openers => F \notin CloseSteps
       /\ s[1] \in FirstStep => current \notin Closers
       /\ s[1] \in FirstStep \ {"next"} => current \notin Openers

\* The ways to enter a function that closes no bracket.
LEMMA EnteredNeutral ==
  ASSUME NEW F, F \notin CloseSteps
  PROVE  /\ Entered(F, <<>>)
         /\ \A s : Frame(s, "none") /\ s[1] \notin FirstStep => Entered(F, s)
         /\ \A s : Frame(s, "none") /\ current \notin Openers \cup Closers => Entered(F, s)
         /\ \A s : Frame(s, current) /\ current \in Openers /\ s[1] = "next" => Entered(F, s)
<1>1. Entered(F, <<>>)
  BY DEF Entered
<1>2. ASSUME NEW s, Frame(s, "none"), s[1] \notin FirstStep
      PROVE  Entered(F, s)
  BY <1>2 DEF Entered, FirstStep, Frame
<1>3. ASSUME NEW s, Frame(s, "none"), current \notin Openers \cup Closers
      PROVE  Entered(F, s)
  BY <1>3 DEF Entered, Frame
<1>4. ASSUME NEW s, Frame(s, current), current \in Openers, s[1] = "next"
      PROVE  Entered(F, s)
  <2>1. current \notin Closers
    BY <1>4 DEF Openers, Closers
  <2> QED  BY <1>4, <2>1 DEF Entered, Frame
<1> QED
  BY <1>1, <1>2, <1>3, <1>4

\* The ways to enter a function that closes one.
LEMMA EnteredClosing ==
  ASSUME NEW F, F \in CloseSteps
  PROVE  /\ \A s : Frame(s, ClosedBy(F)) /\ s[1] \notin FirstStep => Entered(F, s)
         /\ \A s : Frame(s, ClosedBy(F)) /\ current \notin Openers \cup Closers => Entered(F, s)
<1>1. ASSUME NEW s, Frame(s, ClosedBy(F)), s[1] \notin FirstStep
      PROVE  Entered(F, s)
  BY <1>1 DEF Entered, FirstStep, Frame
<1>2. ASSUME NEW s, Frame(s, ClosedBy(F)), current \notin Openers \cup Closers
      PROVE  Entered(F, s)
  BY <1>2 DEF Entered, Frame
<1> QED
  BY <1>1, <1>2

\* Every function is entered in one of these ways.
LEMMA EnterFrames ==
  ASSUME NEW F \in Functions, F \in FirstStep => current \notin Openers \cup Closers
  PROVE  Entered(F, StepsOf(F))
<1>1. DeclarationStart => current = "id"
  BY DEF DeclarationStart, current
<1>2. CASE F = "Program"
  <2>1. F \notin CloseSteps
    BY <1>2 DEF CloseSteps, Closers
  <2>2. CASE ~AtEnd
    <3>1. StepsOf(F) = <<"TopLevel", "resync", "Program">>
      BY <1>1, <1>2, <2>2, StepsUnfold DEF ParseProgram, When
    <3>2. Frame(<<"TopLevel", "resync", "Program">>, "none")
      BY FramesWithout
    <3>3. <<"TopLevel", "resync", "Program">>[1] \notin FirstStep
      BY DEF FirstStep
    <3> QED  BY <2>1, <3>1, <3>2, <3>3, EnteredNeutral
  <2>3. CASE AtEnd
    <3>1. StepsOf(F) = <<>>
      BY <1>2, <2>3, StepsUnfold DEF ParseProgram, When
    <3> QED  BY <2>1, <3>1, EnteredNeutral
  <2> QED  BY <2>2, <2>3
<1>3. CASE F = "TopLevel"
  <2>1. F \notin CloseSteps
    BY <1>3 DEF CloseSteps, Closers
  <2>2. CASE current = "func"
    <3>1. StepsOf(F) = <<"Function">>
      BY <1>1, <1>3, <2>2, StepsUnfold DEF ParseTopLevel
    <3>2. Frame(<<"Function">>, "none")
      BY FramesWithout
    <3>3. current \notin Openers \cup Closers
      BY <1>1, <2>2 DEF Openers, Closers, AssignTokens, BinaryTokens, PrefixTokens, TypeTokens
    <3> QED  BY <2>1, <3>1, <3>2, <3>3, EnteredNeutral
  <2>3. CASE current = "extern"
    <3>1. StepsOf(F) = <<"ExternFunction">>
      BY <1>1, <1>3, <2>3, StepsUnfold DEF ParseTopLevel
    <3>2. Frame(<<"ExternFunction">>, "none")
      BY FramesWithout
    <3>3. current \notin Openers \cup Closers
      BY <1>1, <2>3 DEF Openers, Closers, AssignTokens, BinaryTokens, PrefixTokens, TypeTokens
    <3> QED  BY <2>1, <3>1, <3>2, <3>3, EnteredNeutral
  <2>4. CASE DeclarationStart
    <3>1. StepsOf(F) = <<"Assign", "panic?", "SEMICOLON">>
      BY <1>1, <1>3, <2>4, StepsUnfold DEF ParseTopLevel
    <3>2. Frame(<<"Assign", "panic?", "SEMICOLON">>, "none")
      BY FramesWithout
    <3>3. <<"Assign", "panic?", "SEMICOLON">>[1] \notin FirstStep
      BY DEF FirstStep
    <3> QED  BY <2>1, <3>1, <3>2, <3>3, EnteredNeutral
  <2>5. CASE current \notin {"func", "extern"} /\ ~DeclarationStart
    <3>1. StepsOf(F) = <<"fail">>
      BY <1>1, <1>3, <2>5, StepsUnfold DEF ParseTopLevel
    <3>2. Frame(<<"fail">>, "none")
      BY FramesWithout
    <3>3. <<"fail">>[1] \notin FirstStep
      BY DEF FirstStep
    <3> QED  BY <2>1, <3>1, <3>2, <3>3, EnteredNeutral
  <2> QED  BY <2>2, <2>3, <2>4, <2>5
<1>4. CASE F = "Function"
  <2>1. F \notin CloseSteps /\ current \notin Openers \cup Closers
    BY <1>4 DEF CloseSteps, Closers, FirstStep
  <2> QED  BY <1>4, <2>1, StepsUnfold, FramesLong, EnteredNeutral
<1>5. CASE F = "ExternFunction"
  <2>1. F \notin CloseSteps /\ current \notin Openers \cup Closers
    BY <1>5 DEF CloseSteps, Closers, FirstStep
  <2> QED  BY <1>5, <2>1, StepsUnfold, FramesLong, EnteredNeutral
<1>6. CASE F = "Parameters"
  <2>1. F \notin CloseSteps
    BY <1>6 DEF CloseSteps, Closers
  <2>2. CASE current # ")"
    <3>1. StepsOf(F) = <<"Parameter", "panic?", "MoreParameters">>
      BY <1>1, <1>6, <2>2, StepsUnfold DEF ParseParameters, When
    <3>2. Frame(<<"Parameter", "panic?", "MoreParameters">>, "none")
      BY FramesWithout
    <3>3. <<"Parameter", "panic?", "MoreParameters">>[1] \notin FirstStep
      BY DEF FirstStep
    <3> QED  BY <2>1, <3>1, <3>2, <3>3, EnteredNeutral
  <2>3. CASE current = ")"
    <3>1. StepsOf(F) = <<>>
      BY <1>6, <2>3, StepsUnfold DEF ParseParameters, When
    <3> QED  BY <2>1, <3>1, EnteredNeutral
  <2> QED  BY <2>2, <2>3
<1>7. CASE F = "MoreParameters"
  <2>1. F \notin CloseSteps
    BY <1>7 DEF CloseSteps, Closers
  <2>2. CASE current = "COMMA"
    <3>1. StepsOf(F) = <<"next", "Parameter", "panic?", "MoreParameters">>
      BY <1>1, <1>7, <2>2, StepsUnfold DEF ParseMoreParameters, When
    <3>2. Frame(<<"next", "Parameter", "panic?", "MoreParameters">>, "none")
      BY FramesWithout
    <3>3. current \notin Openers \cup Closers
      BY <1>1, <2>2 DEF Openers, Closers, AssignTokens, BinaryTokens, PrefixTokens, TypeTokens
    <3> QED  BY <2>1, <3>1, <3>2, <3>3, EnteredNeutral
  <2>3. CASE current # "COMMA"
    <3>1. StepsOf(F) = <<>>
      BY <1>7, <2>3, StepsUnfold DEF ParseMoreParameters, When
    <3> QED  BY <2>1, <3>1, EnteredNeutral
  <2> QED  BY <2>2, <2>3
<1>8. CASE F = "Parameter"
  <2>1. F \notin CloseSteps
    BY <1>8 DEF CloseSteps, Closers
  <2>2. StepsOf(F) = <<"need_id", "::", "panic?", "Type">>
    BY <1>1, <1>8, StepsUnfold DEF ParseParameter
  <2>3. Frame(<<"need_id", "::", "panic?", "Type">>, "none")
    BY FramesWithout
  <2>4. <<"need_id", "::", "panic?", "Type">>[1] \notin FirstStep
    BY DEF FirstStep
  <2> QED  BY <2>1, <2>2, <2>3, <2>4, EnteredNeutral
<1>9. CASE F = "Block"
  <2>1. F \notin CloseSteps
    BY <1>9 DEF CloseSteps, Closers
  <2>2. StepsOf(F) = <<"need_LBRACE", "Statements", "close">>
    BY <1>1, <1>9, StepsUnfold DEF ParseBlock
  <2>3. Frame(<<"need_LBRACE", "Statements", "close">>, "none")
    BY FramesPaired
  <2>4. <<"need_LBRACE", "Statements", "close">>[1] \notin FirstStep
    BY DEF FirstStep
  <2> QED  BY <2>1, <2>2, <2>3, <2>4, EnteredNeutral
<1>10. CASE F = "Statements"
  <2>1. F \notin CloseSteps
    BY <1>10 DEF CloseSteps, Closers
  <2>2. CASE ~AtEnd /\ current # "RBRACE"
    <3>1. StepsOf(F) = <<"Statement", "sync", "Statements">>
      BY <1>1, <1>10, <2>2, StepsUnfold DEF ParseStatements, When
    <3>2. Frame(<<"Statement", "sync", "Statements">>, "none")
      BY FramesWithout
    <3>3. <<"Statement", "sync", "Statements">>[1] \notin FirstStep
      BY DEF FirstStep
    <3> QED  BY <2>1, <3>1, <3>2, <3>3, EnteredNeutral
  <2>3. CASE AtEnd \/ current = "RBRACE"
    <3>1. StepsOf(F) = <<>>
      BY <1>10, <2>3, StepsUnfold DEF ParseStatements, When
    <3> QED  BY <2>1, <3>1, EnteredNeutral
  <2> QED  BY <2>2, <2>3
<1>11. CASE F = "Statement"
  <2>1. F \notin CloseSteps
    BY <1>11 DEF CloseSteps, Closers
  <2>2. CASE current = "if"
    <3>1. StepsOf(F) = <<"If">>
      BY <1>1, <1>11, <2>2, StepsUnfold DEF ParseStatement
    <3>2. Frame(<<"If">>, "none")
      BY FramesWithout
    <3>3. current \notin Openers \cup Closers
      BY <1>1, <2>2 DEF Openers, Closers, AssignTokens, BinaryTokens, PrefixTokens, TypeTokens
    <3> QED  BY <2>1, <3>1, <3>2, <3>3, EnteredNeutral
  <2>3. CASE current = "while"
    <3>1. StepsOf(F) = <<"While">>
      BY <1>1, <1>11, <2>3, StepsUnfold DEF ParseStatement
    <3>2. Frame(<<"While">>, "none")
      BY FramesWithout
    <3>3. current \notin Openers \cup Closers
      BY <1>1, <2>3 DEF Openers, Closers, AssignTokens, BinaryTokens, PrefixTokens, TypeTokens
    <3> QED  BY <2>1, <3>1, <3>2, <3>3, EnteredNeutral
  <2>4. CASE current = "for"
    <3>1. StepsOf(F) = <<"For">>
      BY <1>1, <1>11, <2>4, StepsUnfold DEF ParseStatement
    <3>2. Frame(<<"For">>, "none")
      BY FramesWithout
    <3>3. current \notin Openers \cup Closers
      BY <1>1, <2>4 DEF Openers, Closers, AssignTokens, BinaryTokens, PrefixTokens, TypeTokens
    <3> QED  BY <2>1, <3>1, <3>2, <3>3, EnteredNeutral
  <2>5. CASE current = "func"
    <3>1. StepsOf(F) = <<"Function">>
      BY <1>1, <1>11, <2>5, StepsUnfold DEF ParseStatement
    <3>2. Frame(<<"Function">>, "none")
      BY FramesWithout
    <3>3. current \notin Openers \cup Closers
      BY <1>1, <2>5 DEF Openers, Closers, AssignTokens, BinaryTokens, PrefixTokens, TypeTokens
    <3> QED  BY <2>1, <3>1, <3>2, <3>3, EnteredNeutral
  <2>6. CASE current \notin {"if", "while", "for", "func"}
    <3>1. StepsOf(F) = <<"LoopControl", "panic?", "SEMICOLON">>
      BY <1>1, <1>11, <2>6, StepsUnfold DEF ParseStatement
    <3>2. Frame(<<"LoopControl", "panic?", "SEMICOLON">>, "none")
      BY FramesWithout
    <3>3. <<"LoopControl", "panic?", "SEMICOLON">>[1] \notin FirstStep
      BY DEF FirstStep
    <3> QED  BY <2>1, <3>1, <3>2, <3>3, EnteredNeutral
  <2> QED  BY <2>2, <2>3, <2>4, <2>5, <2>6
<1>12. CASE F = "If"
  <2>1. F \notin CloseSteps /\ current \notin Openers \cup Closers
    BY <1>12 DEF CloseSteps, Closers, FirstStep
  <2> QED  BY <1>12, <2>1, StepsUnfold, FramesLong, EnteredNeutral
<1>13. CASE F = "Else"
  <2>1. F \notin CloseSteps
    BY <1>13 DEF CloseSteps, Closers
  <2>2. CASE current = "else"
    <3>1. StepsOf(F) = <<"next", "ElseBranch">>
      BY <1>1, <1>13, <2>2, StepsUnfold DEF ParseElse, When
    <3>2. Frame(<<"next", "ElseBranch">>, "none")
      BY FramesWithout
    <3>3. current \notin Openers \cup Closers
      BY <1>1, <2>2 DEF Openers, Closers, AssignTokens, BinaryTokens, PrefixTokens, TypeTokens
    <3> QED  BY <2>1, <3>1, <3>2, <3>3, EnteredNeutral
  <2>3. CASE current # "else"
    <3>1. StepsOf(F) = <<>>
      BY <1>13, <2>3, StepsUnfold DEF ParseElse, When
    <3> QED  BY <2>1, <3>1, EnteredNeutral
  <2> QED  BY <2>2, <2>3
<1>14. CASE F = "ElseBranch"
  <2>1. F \notin CloseSteps
    BY <1>14 DEF CloseSteps, Closers
  <2>2. CASE current = "if"
    <3>1. StepsOf(F) = <<"If">>
      BY <1>1, <1>14, <2>2, StepsUnfold DEF ParseElseBranch
    <3>2. Frame(<<"If">>, "none")
      BY FramesWithout
    <3>3. current \notin Openers \cup Closers
      BY <1>1, <2>2 DEF Openers, Closers, AssignTokens, BinaryTokens, PrefixTokens, TypeTokens
    <3> QED  BY <2>1, <3>1, <3>2, <3>3, EnteredNeutral
  <2>3. CASE current # "if"
    <3>1. StepsOf(F) = <<"Block">>
      BY <1>1, <1>14, <2>3, StepsUnfold DEF ParseElseBranch
    <3>2. Frame(<<"Block">>, "none")
      BY FramesWithout
    <3>3. <<"Block">>[1] \notin FirstStep
      BY DEF FirstStep
    <3> QED  BY <2>1, <3>1, <3>2, <3>3, EnteredNeutral
  <2> QED  BY <2>2, <2>3
<1>15. CASE F = "While"
  <2>1. F \notin CloseSteps /\ current \notin Openers \cup Closers
    BY <1>15 DEF CloseSteps, Closers, FirstStep
  <2> QED  BY <1>15, <2>1, StepsUnfold, FramesLong, EnteredNeutral
<1>16. CASE F = "For"
  <2>1. F \notin CloseSteps /\ current \notin Openers \cup Closers
    BY <1>16 DEF CloseSteps, Closers, FirstStep
  <2> QED  BY <1>16, <2>1, StepsUnfold, FramesLong, EnteredNeutral
<1>17. CASE F = "ForInit"
  <2>1. F \notin CloseSteps
    BY <1>17 DEF CloseSteps, Closers
  <2>2. CASE current # "SEMICOLON"
    <3>1. StepsOf(F) = <<"Assign">>
      BY <1>1, <1>17, <2>2, StepsUnfold DEF When
    <3>2. Frame(<<"Assign">>, "none")
      BY FramesWithout
    <3>3. <<"Assign">>[1] \notin FirstStep
      BY DEF FirstStep
    <3> QED  BY <2>1, <3>1, <3>2, <3>3, EnteredNeutral
  <2>3. CASE current = "SEMICOLON"
    <3>1. StepsOf(F) = <<>>
      BY <1>17, <2>3, StepsUnfold DEF When
    <3> QED  BY <2>1, <3>1, EnteredNeutral
  <2> QED  BY <2>2, <2>3
<1>18. CASE F = "ForCondition"
  <2>1. F \notin CloseSteps
    BY <1>18 DEF CloseSteps, Closers
  <2>2. CASE current # "SEMICOLON"
    <3>1. StepsOf(F) = <<"Logical">>
      BY <1>1, <1>18, <2>2, StepsUnfold DEF When
    <3>2. Frame(<<"Logical">>, "none")
      BY FramesWithout
    <3>3. <<"Logical">>[1] \notin FirstStep
      BY DEF FirstStep
    <3> QED  BY <2>1, <3>1, <3>2, <3>3, EnteredNeutral
  <2>3. CASE current = "SEMICOLON"
    <3>1. StepsOf(F) = <<>>
      BY <1>18, <2>3, StepsUnfold DEF When
    <3> QED  BY <2>1, <3>1, EnteredNeutral
  <2> QED  BY <2>2, <2>3
<1>19. CASE F = "ForUpdate"
  <2>1. F \notin CloseSteps
    BY <1>19 DEF CloseSteps, Closers
  <2>2. CASE current # ")"
    <3>1. StepsOf(F) = <<"Assign">>
      BY <1>1, <1>19, <2>2, StepsUnfold DEF When
    <3>2. Frame(<<"Assign">>, "none")
      BY FramesWithout
    <3>3. <<"Assign">>[1] \notin FirstStep
      BY DEF FirstStep
    <3> QED  BY <2>1, <3>1, <3>2, <3>3, EnteredNeutral
  <2>3. CASE current = ")"
    <3>1. StepsOf(F) = <<>>
      BY <1>19, <2>3, StepsUnfold DEF When
    <3> QED  BY <2>1, <3>1, EnteredNeutral
  <2> QED  BY <2>2, <2>3
<1>20. CASE F = "LoopControl"
  <2>1. F \notin CloseSteps
    BY <1>20 DEF CloseSteps, Closers
  <2>2. CASE current = "break"
    <3>1. StepsOf(F) = <<"next">>
      BY <1>1, <1>20, <2>2, StepsUnfold DEF ParseLoopControl
    <3>2. Frame(<<"next">>, "none")
      BY FramesWithout
    <3>3. current \notin Openers \cup Closers
      BY <1>1, <2>2 DEF Openers, Closers, AssignTokens, BinaryTokens, PrefixTokens, TypeTokens
    <3> QED  BY <2>1, <3>1, <3>2, <3>3, EnteredNeutral
  <2>3. CASE current = "ret"
    <3>1. StepsOf(F) = <<"next", "ReturnValue">>
      BY <1>1, <1>20, <2>3, StepsUnfold DEF ParseLoopControl
    <3>2. Frame(<<"next", "ReturnValue">>, "none")
      BY FramesWithout
    <3>3. current \notin Openers \cup Closers
      BY <1>1, <2>3 DEF Openers, Closers, AssignTokens, BinaryTokens, PrefixTokens, TypeTokens
    <3> QED  BY <2>1, <3>1, <3>2, <3>3, EnteredNeutral
  <2>4. CASE current \notin {"break", "ret"}
    <3>1. StepsOf(F) = <<"Assign">>
      BY <1>1, <1>20, <2>4, StepsUnfold DEF ParseLoopControl
    <3>2. Frame(<<"Assign">>, "none")
      BY FramesWithout
    <3>3. <<"Assign">>[1] \notin FirstStep
      BY DEF FirstStep
    <3> QED  BY <2>1, <3>1, <3>2, <3>3, EnteredNeutral
  <2> QED  BY <2>2, <2>3, <2>4
<1>21. CASE F = "ReturnValue"
  <2>1. F \notin CloseSteps
    BY <1>21 DEF CloseSteps, Closers
  <2>2. CASE current # "SEMICOLON"
    <3>1. StepsOf(F) = <<"Logical">>
      BY <1>1, <1>21, <2>2, StepsUnfold DEF When
    <3>2. Frame(<<"Logical">>, "none")
      BY FramesWithout
    <3>3. <<"Logical">>[1] \notin FirstStep
      BY DEF FirstStep
    <3> QED  BY <2>1, <3>1, <3>2, <3>3, EnteredNeutral
  <2>3. CASE current = "SEMICOLON"
    <3>1. StepsOf(F) = <<>>
      BY <1>21, <2>3, StepsUnfold DEF When
    <3> QED  BY <2>1, <3>1, EnteredNeutral
  <2> QED  BY <2>2, <2>3
<1>22. CASE F = "Assign"
  <2>1. F \notin CloseSteps
    BY <1>22 DEF CloseSteps, Closers
  <2>2. CASE DeclarationStart
    <3>1. StepsOf(F) = <<"next", "::", "panic?", "Type", "panic?", "Initializer">>
      BY <1>1, <1>22, <2>2, StepsUnfold DEF ParseAssign
    <3>2. Frame(<<"next", "::", "panic?", "Type", "panic?", "Initializer">>, "none")
      BY FramesWithout
    <3>3. current \notin Openers \cup Closers
      BY <1>1, <2>2 DEF Openers, Closers, AssignTokens, BinaryTokens, PrefixTokens, TypeTokens
    <3> QED  BY <2>1, <3>1, <3>2, <3>3, EnteredNeutral
  <2>3. CASE ~DeclarationStart
    <3>1. StepsOf(F) = <<"Logical", "panic?", "AssignValue">>
      BY <1>1, <1>22, <2>3, StepsUnfold DEF ParseAssign
    <3>2. Frame(<<"Logical", "panic?", "AssignValue">>, "none")
      BY FramesWithout
    <3>3. <<"Logical", "panic?", "AssignValue">>[1] \notin FirstStep
      BY DEF FirstStep
    <3> QED  BY <2>1, <3>1, <3>2, <3>3, EnteredNeutral
  <2> QED  BY <2>2, <2>3
<1>23. CASE F = "Initializer"
  <2>1. F \notin CloseSteps
    BY <1>23 DEF CloseSteps, Closers
  <2>2. CASE current = "="
    <3>1. StepsOf(F) = <<"next", "Logical">>
      BY <1>1, <1>23, <2>2, StepsUnfold DEF When
    <3>2. Frame(<<"next", "Logical">>, "none")
      BY FramesWithout
    <3>3. current \notin Openers \cup Closers
      BY <1>1, <2>2 DEF Openers, Closers, AssignTokens, BinaryTokens, PrefixTokens, TypeTokens
    <3> QED  BY <2>1, <3>1, <3>2, <3>3, EnteredNeutral
  <2>3. CASE current # "="
    <3>1. StepsOf(F) = <<>>
      BY <1>23, <2>3, StepsUnfold DEF When
    <3> QED  BY <2>1, <3>1, EnteredNeutral
  <2> QED  BY <2>2, <2>3
<1>24. CASE F = "AssignValue"
  <2>1. F \notin CloseSteps
    BY <1>24 DEF CloseSteps, Closers
  <2>2. CASE current \notin AssignTokens
    <3>1. StepsOf(F) = <<>>
      BY <1>24, <2>2, StepsUnfold DEF ParseAssignValue
    <3> QED  BY <2>1, <3>1, EnteredNeutral
  <2>3. CASE current \in AssignTokens /\ assignable
    <3>1. StepsOf(F) = <<"next", "Logical">>
      BY <1>1, <1>24, <2>3, StepsUnfold DEF ParseAssignValue
    <3>2. Frame(<<"next", "Logical">>, "none")
      BY FramesWithout
    <3>3. current \notin Openers \cup Closers
      BY <1>1, <2>3 DEF Openers, Closers, AssignTokens, BinaryTokens, PrefixTokens, TypeTokens
    <3> QED  BY <2>1, <3>1, <3>2, <3>3, EnteredNeutral
  <2>4. CASE current \in AssignTokens /\ ~assignable
    <3>1. StepsOf(F) = <<"fail">>
      BY <1>1, <1>24, <2>4, StepsUnfold DEF ParseAssignValue
    <3>2. Frame(<<"fail">>, "none")
      BY FramesWithout
    <3>3. <<"fail">>[1] \notin FirstStep
      BY DEF FirstStep
    <3> QED  BY <2>1, <3>1, <3>2, <3>3, EnteredNeutral
  <2> QED  BY <2>2, <2>3, <2>4
<1>25. CASE F = "Logical"
  <2>1. F \notin CloseSteps
    BY <1>25 DEF CloseSteps, Closers
  <2>2. StepsOf(F) = <<"Negation", "Operators">>
    BY <1>1, <1>25, StepsUnfold DEF ParseLogical
  <2>3. Frame(<<"Negation", "Operators">>, "none")
    BY FramesWithout
  <2>4. <<"Negation", "Operators">>[1] \notin FirstStep
    BY DEF FirstStep
  <2> QED  BY <2>1, <2>2, <2>3, <2>4, EnteredNeutral
<1>26. CASE F = "Operators"
  <2>1. F \notin CloseSteps
    BY <1>26 DEF CloseSteps, Closers
  <2>2. CASE current \in BinaryTokens
    <3>1. StepsOf(F) = <<"next", "Negation", "no", "Operators">>
      BY <1>1, <1>26, <2>2, StepsUnfold DEF ParseOperators, When
    <3>2. Frame(<<"next", "Negation", "no", "Operators">>, "none")
      BY FramesWithout
    <3>3. current \notin Openers \cup Closers
      BY <1>1, <2>2 DEF Openers, Closers, AssignTokens, BinaryTokens, PrefixTokens, TypeTokens
    <3> QED  BY <2>1, <3>1, <3>2, <3>3, EnteredNeutral
  <2>3. CASE current \notin BinaryTokens
    <3>1. StepsOf(F) = <<>>
      BY <1>26, <2>3, StepsUnfold DEF ParseOperators, When
    <3> QED  BY <2>1, <3>1, EnteredNeutral
  <2> QED  BY <2>2, <2>3
<1>27. CASE F = "Negation"
  <2>1. F \notin CloseSteps
    BY <1>27 DEF CloseSteps, Closers
  <2>2. CASE current = "*"
    <3>1. StepsOf(F) = <<"next", "Negation", "yes">>
      BY <1>1, <1>27, <2>2, StepsUnfold DEF ParseNegation, PrefixTokens
    <3>2. Frame(<<"next", "Negation", "yes">>, "none")
      BY FramesWithout
    <3>3. current \notin Openers \cup Closers
      BY <1>1, <2>2 DEF Openers, Closers, AssignTokens, BinaryTokens, PrefixTokens, TypeTokens
    <3> QED  BY <2>1, <3>1, <3>2, <3>3, EnteredNeutral
  <2>3. CASE current \in PrefixTokens /\ current # "*"
    <3>1. StepsOf(F) = <<"next", "Negation", "no">>
      BY <1>1, <1>27, <2>3, StepsUnfold DEF ParseNegation, PrefixTokens
    <3>2. Frame(<<"next", "Negation", "no">>, "none")
      BY FramesWithout
    <3>3. current \notin Openers \cup Closers
      BY <1>1, <2>3 DEF Openers, Closers, AssignTokens, BinaryTokens, PrefixTokens, TypeTokens
    <3> QED  BY <2>1, <3>1, <3>2, <3>3, EnteredNeutral
  <2>4. CASE current \notin PrefixTokens
    <3>1. StepsOf(F) = <<"Factor">>
      BY <1>1, <1>27, <2>4, StepsUnfold DEF ParseNegation, PrefixTokens
    <3>2. Frame(<<"Factor">>, "none")
      BY FramesWithout
    <3>3. <<"Factor">>[1] \notin FirstStep
      BY DEF FirstStep
    <3> QED  BY <2>1, <3>1, <3>2, <3>3, EnteredNeutral
  <2> QED  BY <2>2, <2>3, <2>4 DEF PrefixTokens, TypeTokens
<1>28. CASE F = "Factor"
  <2>1. F \notin CloseSteps
    BY <1>28 DEF CloseSteps, Closers
  <2>2. CASE current = "lit"
    <3>1. StepsOf(F) = <<"next", "no">>
      BY <1>1, <1>28, <2>2, StepsUnfold DEF ParseFactor
    <3>2. Frame(<<"next", "no">>, "none")
      BY FramesWithout
    <3>3. current \notin Openers \cup Closers
      BY <1>1, <2>2 DEF Openers, Closers, AssignTokens, BinaryTokens, PrefixTokens, TypeTokens
    <3> QED  BY <2>1, <3>1, <3>2, <3>3, EnteredNeutral
  <2>3. CASE current = "LBRACE"
    <3>1. StepsOf(F) = <<"ArrayLiteral">>
      BY <1>1, <1>28, <2>3, StepsUnfold DEF ParseFactor
    <3>2. Frame(<<"ArrayLiteral">>, "none")
      BY FramesWithout
    <3>3. <<"ArrayLiteral">>[1] \notin FirstStep
      BY DEF FirstStep
    <3> QED  BY <2>1, <3>1, <3>2, <3>3, EnteredNeutral
  <2>4. CASE current = "id"
    <3>1. StepsOf(F) = <<"next", "yes", "Postfix">>
      BY <1>1, <1>28, <2>4, StepsUnfold DEF ParseFactor
    <3>2. Frame(<<"next", "yes", "Postfix">>, "none")
      BY FramesWithout
    <3>3. current \notin Openers \cup Closers
      BY <1>1, <2>4 DEF Openers, Closers, AssignTokens, BinaryTokens, PrefixTokens, TypeTokens
    <3> QED  BY <2>1, <3>1, <3>2, <3>3, EnteredNeutral
  <2>5. CASE current = "("
    <3>1. StepsOf(F) = <<"next", "Logical", "panic?", ")">>
      BY <1>1, <1>28, <2>5, StepsUnfold DEF ParseFactor
    <3>2. Frame(<<"next", "Logical", "panic?", ")">>, "(")
      BY FramesClosing
    <3>3. current = "(" /\ current \in Openers /\ <<"next", "Logical", "panic?", ")">>[1] = "next"
      BY <2>5 DEF Openers
    <3> QED  BY <2>1, <3>1, <3>2, <3>3, EnteredNeutral
  <2>6. CASE current \notin {"lit", "LBRACE", "id", "("}
    <3>1. StepsOf(F) = <<"fail">>
      BY <1>1, <1>28, <2>6, StepsUnfold DEF ParseFactor
    <3>2. Frame(<<"fail">>, "none")
      BY FramesWithout
    <3>3. <<"fail">>[1] \notin FirstStep
      BY DEF FirstStep
    <3> QED  BY <2>1, <3>1, <3>2, <3>3, EnteredNeutral
  <2> QED  BY <2>2, <2>3, <2>4, <2>5, <2>6
<1>29. CASE F = "Postfix"
  <2>1. F \notin CloseSteps
    BY <1>29 DEF CloseSteps, Closers
  <2>2. CASE current = "("
    <3>1. StepsOf(F) = <<"next", "Call">>
      BY <1>1, <1>29, <2>2, StepsUnfold DEF ParsePostfix
    <3>2. Frame(<<"next", "Call">>, "(")
      BY FramesClosing
    <3>3. current = "(" /\ current \in Openers /\ <<"next", "Call">>[1] = "next"
      BY <2>2 DEF Openers
    <3> QED  BY <2>1, <3>1, <3>2, <3>3, EnteredNeutral
  <2>3. CASE current = "["
    <3>1. StepsOf(F) = <<"next", "Logical", "panic?", "]", "yes", "Postfix">>
      BY <1>1, <1>29, <2>3, StepsUnfold DEF ParsePostfix
    <3>2. Frame(<<"next", "Logical", "panic?", "]", "yes", "Postfix">>, "[")
      BY FramesClosing
    <3>3. current = "[" /\ current \in Openers /\ <<"next", "Logical", "panic?", "]", "yes", "Postfix">>[1] = "next"
      BY <2>3 DEF Openers
    <3> QED  BY <2>1, <3>1, <3>2, <3>3, EnteredNeutral
  <2>4. CASE current \notin {"(", "["}
    <3>1. StepsOf(F) = <<>>
      BY <1>29, <2>4, StepsUnfold DEF ParsePostfix
    <3> QED  BY <2>1, <3>1, EnteredNeutral
  <2> QED  BY <2>2, <2>3, <2>4
<1>30. CASE F = "Call"
  <2>1. F \in CloseSteps /\ ClosedBy(F) = "("
    BY <1>30 DEF CloseSteps, Closers, ClosedBy
  <2>2. CASE current = ")"
    <3>1. StepsOf(F) = <<")", "CalledPostfix">>
      BY <1>1, <1>30, <2>2, StepsUnfold DEF ParseCall
    <3>2. Frame(<<")", "CalledPostfix">>, "(")
      BY FramesClosing
    <3>3. <<")", "CalledPostfix">>[1] \notin FirstStep
      BY DEF FirstStep
    <3> QED  BY <2>1, <3>1, <3>2, <3>3, EnteredClosing
  <2>3. CASE current # ")"
    <3>1. StepsOf(F) = <<"Logical", "panic?", "MoreArguments">>
      BY <1>1, <1>30, <2>3, StepsUnfold DEF ParseCall
    <3>2. Frame(<<"Logical", "panic?", "MoreArguments">>, "(")
      BY FramesClosing
    <3>3. <<"Logical", "panic?", "MoreArguments">>[1] \notin FirstStep
      BY DEF FirstStep
    <3> QED  BY <2>1, <3>1, <3>2, <3>3, EnteredClosing
  <2> QED  BY <2>2, <2>3
<1>31. CASE F = "MoreArguments"
  <2>1. F \in CloseSteps /\ ClosedBy(F) = "("
    BY <1>31 DEF CloseSteps, Closers, ClosedBy
  <2>2. CASE current = "COMMA"
    <3>1. StepsOf(F) = <<"next", "Logical", "panic?", "MoreArguments">>
      BY <1>1, <1>31, <2>2, StepsUnfold DEF ParseMoreArguments
    <3>2. Frame(<<"next", "Logical", "panic?", "MoreArguments">>, "(")
      BY FramesClosing
    <3>3. current \notin Openers \cup Closers
      BY <1>1, <2>2 DEF Openers, Closers, AssignTokens, BinaryTokens, PrefixTokens, TypeTokens
    <3> QED  BY <2>1, <3>1, <3>2, <3>3, EnteredClosing
  <2>3. CASE current # "COMMA"
    <3>1. StepsOf(F) = <<")", "CalledPostfix">>
      BY <1>1, <1>31, <2>3, StepsUnfold DEF ParseMoreArguments
    <3>2. Frame(<<")", "CalledPostfix">>, "(")
      BY FramesClosing
    <3>3. <<")", "CalledPostfix">>[1] \notin FirstStep
      BY DEF FirstStep
    <3> QED  BY <2>1, <3>1, <3>2, <3>3, EnteredClosing
  <2> QED  BY <2>2, <2>3
<1>32. CASE F = "CalledPostfix"
  <2>1. F \notin CloseSteps
    BY <1>32 DEF CloseSteps, Closers
  <2>2. CASE current = "("
    <3>1. StepsOf(F) = <<"next", "Call">>
      BY <1>1, <1>32, <2>2, StepsUnfold DEF ParseCalledPostfix
    <3>2. Frame(<<"next", "Call">>, "(")
      BY FramesClosing
    <3>3. current = "(" /\ current \in Openers /\ <<"next", "Call">>[1] = "next"
      BY <2>2 DEF Openers
    <3> QED  BY <2>1, <3>1, <3>2, <3>3, EnteredNeutral
  <2>3. CASE current = "["
    <3>1. StepsOf(F) = <<"next", "Logical", "panic?", "]", "CalledPostfix">>
      BY <1>1, <1>32, <2>3, StepsUnfold DEF ParseCalledPostfix
    <3>2. Frame(<<"next", "Logical", "panic?", "]", "CalledPostfix">>, "[")
      BY FramesClosing
    <3>3. current = "[" /\ current \in Openers /\ <<"next", "Logical", "panic?", "]", "CalledPostfix">>[1] = "next"
      BY <2>3 DEF Openers
    <3> QED  BY <2>1, <3>1, <3>2, <3>3, EnteredNeutral
  <2>4. CASE current \notin {"(", "["}
    <3>1. StepsOf(F) = <<"no">>
      BY <1>1, <1>32, <2>4, StepsUnfold DEF ParseCalledPostfix
    <3>2. Frame(<<"no">>, "none")
      BY FramesWithout
    <3>3. <<"no">>[1] \notin FirstStep
      BY DEF FirstStep
    <3> QED  BY <2>1, <3>1, <3>2, <3>3, EnteredNeutral
  <2> QED  BY <2>2, <2>3, <2>4
<1>33. CASE F = "Type"
  <2>1. F \notin CloseSteps
    BY <1>33 DEF CloseSteps, Closers
  <2>2. CASE current \notin TypeTokens
    <3>1. StepsOf(F) = <<"fail">>
      BY <1>1, <1>33, <2>2, StepsUnfold DEF ParseType, TypeTokens
    <3>2. Frame(<<"fail">>, "none")
      BY FramesWithout
    <3>3. <<"fail">>[1] \notin FirstStep
      BY DEF FirstStep
    <3> QED  BY <2>1, <3>1, <3>2, <3>3, EnteredNeutral
  <2>3. CASE current = "*"
    <3>1. StepsOf(F) = <<"*", "panic?", "Type">>
      BY <1>1, <1>33, <2>3, StepsUnfold DEF ParseType, TypeTokens
    <3>2. Frame(<<"*", "panic?", "Type">>, "none")
      BY FramesWithout
    <3>3. <<"*", "panic?", "Type">>[1] \notin FirstStep
      BY DEF FirstStep
    <3> QED  BY <2>1, <3>1, <3>2, <3>3, EnteredNeutral
  <2>4. CASE current = "Array"
    <3>1. StepsOf(F) = <<"next", "ArrayElement">>
      BY <1>1, <1>33, <2>4, StepsUnfold DEF ParseType, TypeTokens
    <3>2. Frame(<<"next", "ArrayElement">>, "none")
      BY FramesWithout
    <3>3. current \notin Openers \cup Closers
      BY <1>1, <2>4 DEF Openers, Closers, AssignTokens, BinaryTokens, PrefixTokens, TypeTokens
    <3> QED  BY <2>1, <3>1, <3>2, <3>3, EnteredNeutral
  <2>5. CASE current \in TypeTokens \ {"*", "Array"}
    <3>1. StepsOf(F) = <<"next", "ArraySuffixes">>
      BY <1>1, <1>33, <2>5, StepsUnfold DEF ParseType, TypeTokens
    <3>2. Frame(<<"next", "ArraySuffixes">>, "none")
      BY FramesWithout
    <3>3. current \notin Openers \cup Closers
      BY <1>1, <2>5 DEF Openers, Closers, AssignTokens, BinaryTokens, PrefixTokens, TypeTokens
    <3> QED  BY <2>1, <3>1, <3>2, <3>3, EnteredNeutral
  <2> QED  BY <2>2, <2>3, <2>4, <2>5 DEF PrefixTokens, TypeTokens
<1>34. CASE F = "ArrayElement"
  <2>1. F \notin CloseSteps
    BY <1>34 DEF CloseSteps, Closers
  <2>2. CASE current = "<"
    <3>1. StepsOf(F) = <<"next", "Type", "panic?", ">", "ArraySuffixes">>
      BY <1>1, <1>34, <2>2, StepsUnfold DEF ParseArrayElement
    <3>2. Frame(<<"next", "Type", "panic?", ">", "ArraySuffixes">>, "none")
      BY FramesWithout
    <3>3. current \notin Openers \cup Closers
      BY <1>1, <2>2 DEF Openers, Closers, AssignTokens, BinaryTokens, PrefixTokens, TypeTokens
    <3> QED  BY <2>1, <3>1, <3>2, <3>3, EnteredNeutral
  <2>3. CASE current # "<"
    <3>1. StepsOf(F) = <<"ArraySuffixes">>
      BY <1>1, <1>34, <2>3, StepsUnfold DEF ParseArrayElement
    <3>2. Frame(<<"ArraySuffixes">>, "none")
      BY FramesWithout
    <3>3. <<"ArraySuffixes">>[1] \notin FirstStep
      BY DEF FirstStep
    <3> QED  BY <2>1, <3>1, <3>2, <3>3, EnteredNeutral
  <2> QED  BY <2>2, <2>3
<1>35. CASE F = "ArraySuffixes"
  <2>1. F \notin CloseSteps
    BY <1>35 DEF CloseSteps, Closers
  <2>2. CASE current = "["
    <3>1. StepsOf(F) = <<"next", "ArraySize", "]", "ArraySuffixes">>
      BY <1>1, <1>35, <2>2, StepsUnfold DEF ParseArraySuffixes, When
    <3>2. Frame(<<"next", "ArraySize", "]", "ArraySuffixes">>, "[")
      BY FramesClosing
    <3>3. current = "[" /\ current \in Openers /\ <<"next", "ArraySize", "]", "ArraySuffixes">>[1] = "next"
      BY <2>2 DEF Openers
    <3> QED  BY <2>1, <3>1, <3>2, <3>3, EnteredNeutral
  <2>3. CASE current # "["
    <3>1. StepsOf(F) = <<>>
      BY <1>35, <2>3, StepsUnfold DEF ParseArraySuffixes, When
    <3> QED  BY <2>1, <3>1, EnteredNeutral
  <2> QED  BY <2>2, <2>3
<1>36. CASE F = "ArraySize"
  <2>1. F \notin CloseSteps
    BY <1>36 DEF CloseSteps, Closers
  <2>2. CASE current # "]"
    <3>1. StepsOf(F) = <<"Logical">>
      BY <1>1, <1>36, <2>2, StepsUnfold DEF When
    <3>2. Frame(<<"Logical">>, "none")
      BY FramesWithout
    <3>3. <<"Logical">>[1] \notin FirstStep
      BY DEF FirstStep
    <3> QED  BY <2>1, <3>1, <3>2, <3>3, EnteredNeutral
  <2>3. CASE current = "]"
    <3>1. StepsOf(F) = <<>>
      BY <1>36, <2>3, StepsUnfold DEF When
    <3> QED  BY <2>1, <3>1, EnteredNeutral
  <2> QED  BY <2>2, <2>3
<1>37. CASE F = "ArrayLiteral"
  <2>1. F \notin CloseSteps
    BY <1>37 DEF CloseSteps, Closers
  <2>2. StepsOf(F) = <<"LBRACE", "Elements">>
    BY <1>1, <1>37, StepsUnfold DEF ParseArrayLiteral
  <2>3. Frame(<<"LBRACE", "Elements">>, "none")
    BY FramesPaired
  <2>4. <<"LBRACE", "Elements">>[1] \notin FirstStep
    BY DEF FirstStep
  <2> QED  BY <2>1, <2>2, <2>3, <2>4, EnteredNeutral
<1>38. CASE F = "Elements"
  <2>1. F \in CloseSteps /\ ClosedBy(F) = "LBRACE"
    BY <1>38 DEF CloseSteps, Closers, ClosedBy
  <2>2. CASE current = "RBRACE"
    <3>1. StepsOf(F) = <<"RBRACE", "no">>
      BY <1>1, <1>38, <2>2, StepsUnfold DEF ParseElements
    <3>2. Frame(<<"RBRACE", "no">>, "LBRACE")
      BY FramesClosing
    <3>3. <<"RBRACE", "no">>[1] \notin FirstStep
      BY DEF FirstStep
    <3> QED  BY <2>1, <3>1, <3>2, <3>3, EnteredClosing
  <2>3. CASE current # "RBRACE"
    <3>1. StepsOf(F) = <<"Logical", "panic?", "MoreElements">>
      BY <1>1, <1>38, <2>3, StepsUnfold DEF ParseElements
    <3>2. Frame(<<"Logical", "panic?", "MoreElements">>, "LBRACE")
      BY FramesClosing
    <3>3. <<"Logical", "panic?", "MoreElements">>[1] \notin FirstStep
      BY DEF FirstStep
    <3> QED  BY <2>1, <3>1, <3>2, <3>3, EnteredClosing
  <2> QED  BY <2>2, <2>3
<1>39. CASE F = "MoreElements"
  <2>1. F \in CloseSteps /\ ClosedBy(F) = "LBRACE"
    BY <1>39 DEF CloseSteps, Closers, ClosedBy
  <2>2. CASE current \in {"COMMA", "SEMICOLON"}
    <3>1. StepsOf(F) = <<"next", "Element">>
      BY <1>1, <1>39, <2>2, StepsUnfold DEF ParseMoreElements
    <3>2. Frame(<<"next", "Element">>, "LBRACE")
      BY FramesClosing
    <3>3. current \notin Openers \cup Closers
      BY <1>1, <2>2 DEF Openers, Closers, AssignTokens, BinaryTokens, PrefixTokens, TypeTokens
    <3> QED  BY <2>1, <3>1, <3>2, <3>3, EnteredClosing
  <2>3. CASE current \notin {"COMMA", "SEMICOLON"}
    <3>1. StepsOf(F) = <<"RBRACE", "no">>
      BY <1>1, <1>39, <2>3, StepsUnfold DEF ParseMoreElements
    <3>2. Frame(<<"RBRACE", "no">>, "LBRACE")
      BY FramesClosing
    <3>3. <<"RBRACE", "no">>[1] \notin FirstStep
      BY DEF FirstStep
    <3> QED  BY <2>1, <3>1, <3>2, <3>3, EnteredClosing
  <2> QED  BY <2>2, <2>3
<1>40. CASE F = "Element"
  <2>1. F \in CloseSteps /\ ClosedBy(F) = "LBRACE"
    BY <1>40 DEF CloseSteps, Closers, ClosedBy
  <2>2. CASE current = "RBRACE" \/ AtEnd
    <3>1. StepsOf(F) = <<"RBRACE", "no">>
      BY <1>1, <1>40, <2>2, StepsUnfold DEF ParseElement
    <3>2. Frame(<<"RBRACE", "no">>, "LBRACE")
      BY FramesClosing
    <3>3. <<"RBRACE", "no">>[1] \notin FirstStep
      BY DEF FirstStep
    <3> QED  BY <2>1, <3>1, <3>2, <3>3, EnteredClosing
  <2>3. CASE current # "RBRACE" /\ ~AtEnd
    <3>1. StepsOf(F) = <<"Logical", "panic?", "MoreElements">>
      BY <1>1, <1>40, <2>3, StepsUnfold DEF ParseElement
    <3>2. Frame(<<"Logical", "panic?", "MoreElements">>, "LBRACE")
      BY FramesClosing
    <3>3. <<"Logical", "panic?", "MoreElements">>[1] \notin FirstStep
      BY DEF FirstStep
    <3> QED  BY <2>1, <3>1, <3>2, <3>3, EnteredClosing
  <2> QED  BY <2>2, <2>3
<1> QED
  BY <1>2, <1>3, <1>4, <1>5, <1>6, <1>7, <1>8, <1>9, <1>10, <1>11, <1>12, <1>13, <1>14, <1>15,
     <1>16, <1>17, <1>18, <1>19, <1>20, <1>21, <1>22, <1>23, <1>24, <1>25, <1>26, <1>27,
     <1>28, <1>29, <1>30, <1>31, <1>32, <1>33, <1>34, <1>35, <1>36, <1>37, <1>38, <1>39, <1>40
     DEF Functions

\* The brackets owed by the frames of a stack.
OwedOf(st) == [k \in 1 .. Len(st) |-> Owed(st[k])]

\* They are a sequence, and the frame on top owes its last element.
LEMMA OwedOfLast ==
  ASSUME NEW st \in Seq(Seq(Step)), st # <<>>
  PROVE  /\ OwedOf(st) \in OwedSeq /\ OwedOf(Front(st)) \in OwedSeq
         /\ OwedOf(st) = Append(OwedOf(Front(st)), Owed(Last(st)))
<1> PICK n : n = Len(st)
  OBVIOUS
<1> PICK r : r = Front(st)
  OBVIOUS
<1>1. n \in Nat /\ n >= 1 /\ Last(st) = st[n]
  BY DEF Last
<1>2. /\ r \in Seq(Seq(Step)) /\ Len(r) = n - 1
      /\ \A k \in 1 .. n - 1 : r[k] = st[k]
  <2>1. r = SubSeq(st, 1, n - 1)
    BY DEF Front
  <2> QED  BY <1>1, <2>1
<1>3. \A t \in Seq(Seq(Step)) : OwedOf(t) \in OwedSeq /\ Len(OwedOf(t)) = Len(t)
  <2> SUFFICES ASSUME NEW t \in Seq(Seq(Step))
               PROVE  OwedOf(t) \in OwedSeq /\ Len(OwedOf(t)) = Len(t)
    OBVIOUS
  <2>1. \A k \in 1 .. Len(t) : Owed(t[k]) \in Openers \cup {"none"}
    BY OwedType
  <2>2. Len(t) \in Nat
    OBVIOUS
  <2> QED  BY <2>1, <2>2 DEF OwedOf, OwedSeq
<1>4. OwedOf(r) \in OwedSeq /\ Len(OwedOf(r)) = n - 1 /\ OwedOf(st) \in OwedSeq /\ Len(OwedOf(st)) = n
  BY <1>2, <1>3
<1>5. \A k \in 1 .. n - 1 : OwedOf(r)[k] = OwedOf(st)[k]
  BY <1>1, <1>2 DEF OwedOf
<1>6. OwedOf(st)[n] = Owed(Last(st))
  BY <1>1 DEF OwedOf
<1>7. OwedOf(st) = Append(OwedOf(r), Owed(Last(st)))
  <2> PICK p : p = OwedOf(st)
    OBVIOUS
  <2> PICK q : q = OwedOf(r)
    OBVIOUS
  <2> PICK b : b = Owed(Last(st))
    OBVIOUS
  <2>1. /\ p \in OwedSeq /\ q \in OwedSeq /\ b \in Openers \cup {"none"} /\ Len(p) = n
        /\ Len(q) = n - 1 /\ p[n] = b /\ \A k \in 1 .. n - 1 : q[k] = p[k]
    BY <1>4, <1>5, <1>6, OwedType
  <2>2. /\ Append(q, b) \in Seq(Openers \cup {"none"}) /\ Len(Append(q, b)) = n
        /\ Append(q, b)[n] = b /\ \A k \in 1 .. n - 1 : Append(q, b)[k] = q[k]
    BY <1>1, <2>1 DEF OwedSeq
  <2>3. \A k \in 1 .. n : p[k] = Append(q, b)[k]
    BY <1>1, <2>1, <2>2
  <2>4. p = Append(q, b)
    BY <2>1, <2>2, <2>3, SeqEqual DEF OwedSeq
  <2> QED  BY <2>4
<1> QED
  BY <1>4, <1>7

\* A frame that is pushed.
LEMMA FrontLastOfAppend ==
  ASSUME NEW st \in Seq(Seq(Step)), NEW f \in Seq(Step)
  PROVE  /\ Append(st, f) \in Seq(Seq(Step)) /\ Append(st, f) # <<>>
         /\ Front(Append(st, f)) = st /\ Last(Append(st, f)) = f
<1> PICK n : n = Len(st)
  OBVIOUS
<1> PICK r : r = Append(st, f)
  OBVIOUS
<1>1. /\ n \in Nat /\ r \in Seq(Seq(Step)) /\ Len(r) = n + 1 /\ r[n + 1] = f
      /\ \A k \in 1 .. n : r[k] = st[k]
  BY AppendProperties
<1>2. r # <<>> /\ Last(r) = f
  BY <1>1 DEF Last
<1>3. Front(r) = SubSeq(r, 1, n)
  <2>1. Len(r) - 1 = n
    BY <1>1
  <2> QED  BY <2>1 DEF Front
<1>4. Front(r) \in Seq(Seq(Step)) /\ Len(Front(r)) = n /\ \A k \in 1 .. n : Front(r)[k] = r[k]
  BY <1>1, <1>3
<1>5. Front(r) = st
  BY <1>1, <1>4, SeqEqual
<1> QED
  BY <1>1, <1>2, <1>5

\* What the stack owes when a step is done.
LEMMA OwedOfRest ==
  ASSUME Shape(stack), stack # <<>>
  PROVE  /\ OwedOf(Front(stack)) \in OwedSeq /\ OwedOf(Rest) \in OwedSeq
         /\ OwedOf(stack) = Append(OwedOf(Front(stack)), Owed(Last(stack)))
         /\ Len(Last(stack)) = 1 => OwedOf(Rest) = OwedOf(Front(stack))
         /\ Len(Last(stack)) # 1
              => OwedOf(Rest) = Append(OwedOf(Front(stack)), Owed(Tail(Last(stack))))
<1> PICK n : n = Len(stack)
  OBVIOUS
<1>1. stack \in Seq(Seq(Step)) /\ n \in Nat /\ n >= 1
  BY Top DEF Shape
<1>2. /\ OwedOf(Front(stack)) \in OwedSeq
      /\ OwedOf(stack) = Append(OwedOf(Front(stack)), Owed(Last(stack)))
  BY <1>1, OwedOfLast
<1>3. CASE Len(Last(stack)) = 1
  <2>1. Rest = Front(stack)
    BY <1>3 DEF Rest
  <2> QED  BY <1>2, <1>3, <2>1
<1>4. CASE Len(Last(stack)) # 1
  <2>1. /\ Rest \in Seq(Seq(Step)) /\ Len(Rest) = n /\ Rest[n] = Tail(Last(stack))
        /\ \A k \in 1 .. n - 1 : Rest[k] = stack[k]
    BY <1>4, RestFacts
  <2>2. Rest # <<>> /\ Last(Rest) = Tail(Last(stack))
    BY <1>1, <2>1 DEF Last
  <2>3. Front(Rest) = Front(stack)
    <3> PICK p : p = SubSeq(Rest, 1, n - 1)
      OBVIOUS
    <3> PICK q : q = SubSeq(stack, 1, n - 1)
      OBVIOUS
    <3>1. p \in Seq(Seq(Step)) /\ Len(p) = n - 1 /\ \A k \in 1 .. n - 1 : p[k] = Rest[k]
      BY <1>1, <2>1
    <3>2. q \in Seq(Seq(Step)) /\ Len(q) = n - 1 /\ \A k \in 1 .. n - 1 : q[k] = stack[k]
      BY <1>1
    <3>3. p = q
      BY <2>1, <3>1, <3>2, SeqEqual
    <3> QED  BY <2>1, <3>3 DEF Front
  <2>4. OwedOf(Rest) = Append(OwedOf(Front(stack)), Owed(Tail(Last(stack)))) /\ OwedOf(Rest) \in OwedSeq
    BY <2>1, <2>2, <2>3, OwedOfLast
  <2> QED  BY <1>2, <1>4, <2>4
<1> QED
  BY <1>3, <1>4

\* No steps owe nothing.
LEMMA OwedEmpty == \A f : Len(f) = 0 => Owed(f) = "none"
BY DEF Owed

\* What the brackets become when a step is done.
LEMMA RestNest ==
  ASSUME Shape(stack), stack # <<>>, Bracketed(Last(stack)), NEW nest \in Seq(AllTokens)
  PROVE  /\ Neutral(step) /\ Owes(OwedOf(stack), nest) => Owes(OwedOf(Rest), nest)
         /\ step \in OpenSteps /\ Owes(OwedOf(stack), nest)
              => Owes(OwedOf(Rest), Append(nest, OpenedBy(step)))
         /\ step \in CloseSteps /\ Owes(OwedOf(stack), nest)
              => nest # <<>> /\ Last(nest) = ClosedBy(step) /\ Owes(OwedOf(Rest), Front(nest))
         /\ Neutral(step) /\ Owed(Last(stack)) \in Openers /\ Owes(OwedOf(Front(stack)), nest)
              => Owes(OwedOf(Rest), Append(nest, Owed(Last(stack))))
<1> PICK f : f = Last(stack)
  OBVIOUS
<1> PICK base : base = OwedOf(Front(stack))
  OBVIOUS
<1>1. f \in Seq(Step) /\ f # <<>> /\ Len(f) \in Nat /\ step = Head(f)
  BY Top DEF step
<1>2. /\ base \in OwedSeq /\ OwedOf(stack) = Append(base, Owed(f))
      /\ Len(f) = 1 => OwedOf(Rest) = base
      /\ Len(f) # 1 => OwedOf(Rest) = Append(base, Owed(Tail(f)))
  BY OwedOfRest
<1>3. /\ Neutral(step) => Owed(Tail(f)) = Owed(f)
      /\ step \in OpenSteps => Owed(f) = "none" /\ Len(f) # 1 /\ Owed(Tail(f)) = OpenedBy(step)
      /\ step \in CloseSteps => Owed(f) = ClosedBy(step) /\ Owed(Tail(f)) = "none"
  BY <1>1, OwedTail
<1>4. Len(f) = 1 => Owed(Tail(f)) = "none"
  <2>1. Len(Tail(f)) = Len(f) - 1
    BY <1>1, HeadTailProperties
  <2>2. Len(f) = 1 => Len(Tail(f)) = 0
    BY <2>1
  <2> QED  BY <2>2, OwedEmpty
<1>5. ASSUME Neutral(step), Owes(OwedOf(stack), nest)
      PROVE  Owes(OwedOf(Rest), nest)
  <2>1. CASE Len(f) = 1
    <3>1. Owed(f) = "none"
      BY <1>3, <1>4, <1>5, <2>1
    <3> QED  BY <1>2, <1>5, <2>1, <3>1, OwesPop
  <2>2. CASE Len(f) # 1
    <3>1. OwedOf(Rest) = OwedOf(stack)
      BY <1>2, <1>3, <1>5, <2>2
    <3> QED  BY <1>5, <3>1
  <2> QED  BY <2>1, <2>2
<1>6. ASSUME step \in OpenSteps, Owes(OwedOf(stack), nest)
      PROVE  Owes(OwedOf(Rest), Append(nest, OpenedBy(step)))
  <2>1. Owes(base, nest) /\ OpenedBy(step) \in Openers
    BY <1>2, <1>3, <1>6, OwesPop, StepKinds
  <2> QED  BY <1>2, <1>3, <1>6, <2>1, OwesPush
<1>7. ASSUME step \in CloseSteps, Owes(OwedOf(stack), nest)
      PROVE  nest # <<>> /\ Last(nest) = ClosedBy(step) /\ Owes(OwedOf(Rest), Front(nest))
  <2>1. nest # <<>> /\ Last(nest) = ClosedBy(step) /\ Owes(base, Front(nest))
    BY <1>2, <1>3, <1>7, OwesPop, StepKinds
  <2>2. Front(nest) \in Seq(AllTokens)
    <3>1. Front(nest) = SubSeq(nest, 1, Len(nest) - 1)
      BY DEF Front
    <3> QED  BY <2>1, <3>1
  <2> QED  BY <1>2, <1>3, <1>7, <2>1, <2>2, OwesPush
<1>8. ASSUME Neutral(step), Owed(f) \in Openers, Owes(base, nest)
      PROVE  Owes(OwedOf(Rest), Append(nest, Owed(f)))
  <2>1. Len(f) # 1
    BY <1>3, <1>4, <1>8, StepKinds
  <2> QED  BY <1>2, <1>3, <1>8, <2>1, OwesPush
<1> QED
  BY <1>5, <1>6, <1>7, <1>8
-----------------------------------------------------------------------------
(* The invariant of the brackets *)

AllBracketed(st) == \A k \in 1 .. Len(st) : Bracketed(st[k])

\* The step taken next consumes an opening bracket that was chosen by looking at it.
AboutToOpen == stack # <<>> /\ step = "next" /\ current \in Openers

\* A step that consumes whatever token there is was chosen for a token that is no
\* closing bracket; when it is an opening one, the steps after it close it.
ChosenInv ==
  stack # <<>> /\ step \in FirstStep =>
    /\ current \notin Closers
    /\ step # "next" => current \notin Openers
    /\ step = "next" /\ current \in Openers => Owed(Last(stack)) = current

\* While there is no error, the open brackets are those that the frames owe.
OwedInv ==
  errors = <<>> =>
    /\ ~is_panic
    /\ AboutToOpen => Owes(OwedOf(Front(stack)), nesting)
    /\ ~AboutToOpen => Owes(OwedOf(stack), nesting)

NestInv ==
  /\ nesting \in Seq(AllTokens)
  /\ AllBracketed(stack)
  /\ ChosenInv
  /\ OwedInv

\* What becomes of the open brackets when a token is consumed.
LEMMA NestedFacts ==
  ASSUME nesting \in Seq(AllTokens), NEW t \in AllTokens
  PROVE  /\ Nested(t) \in Seq(AllTokens)
         /\ t \in Openers => Nested(t) = Append(nesting, t)
         /\ t \in Closers /\ nesting # <<>> /\ Last(nesting) = ClosedBy(t)
              => Nested(t) = Front(nesting)
         /\ t \notin Openers \cup Closers => Nested(t) = nesting
<1>1. DOMAIN Opening = Closers /\ \A x \in Closers : Opening[x] = ClosedBy(x)
  BY DEF Opening, Closers, ClosedBy
<1>2. nesting # <<>> => Front(nesting) \in Seq(AllTokens)
  <2>1. Front(nesting) = SubSeq(nesting, 1, Len(nesting) - 1)
    BY DEF Front
  <2> QED  BY <2>1
<1>3. Append(nesting, t) \in Seq(AllTokens)
  OBVIOUS
<1>4. Openers \cap Closers = {}
  BY DEF Openers, Closers
<1>5. CASE t \in Openers
  <2>1. Nested(t) = Append(nesting, t)
    BY <1>1, <1>4, <1>5 DEF Nested, Openers
  <2> QED  BY <1>3, <1>4, <1>5, <2>1
<1>6. CASE t \in Closers /\ nesting # <<>> /\ Last(nesting) = ClosedBy(t)
  <2>1. t \in DOMAIN Opening /\ Last(nesting) = Opening[t] /\ t \notin {"(", "[", "LBRACE"}
    BY <1>1, <1>4, <1>6 DEF Openers
  <2>2. Nested(t) = Front(nesting)
    BY <1>6, <2>1 DEF Nested
  <2> QED  BY <1>2, <1>4, <1>6, <2>2
<1>7. CASE t \in Closers /\ ~(nesting # <<>> /\ Last(nesting) = ClosedBy(t))
  <2>1. t \in DOMAIN Opening /\ Opening[t] = ClosedBy(t) /\ t \notin {"(", "[", "LBRACE"}
    BY <1>1, <1>4, <1>7 DEF Openers
  <2>2. Nested(t) = Append(nesting, t)
    BY <1>7, <2>1 DEF Nested
  <2> QED  BY <1>3, <1>4, <1>7, <2>2
<1>8. CASE t \notin Openers \cup Closers
  <2>1. Nested(t) = nesting
    BY <1>1, <1>8 DEF Nested, Openers
  <2> QED  BY <1>8, <2>1
<1> QED
  BY <1>5, <1>6, <1>7, <1>8

\* The frames left when a step is done, or a function has returned.
LEMMA BracketedRest ==
  ASSUME Shape(stack), stack # <<>>, AllBracketed(stack)
  PROVE  AllBracketed(Rest) /\ AllBracketed(Front(stack)) /\ Bracketed(Last(stack))
<1> PICK n : n = Len(stack)
  OBVIOUS
<1>1. /\ n \in Nat /\ n >= 1 /\ Last(stack) = stack[n] /\ stack \in Seq(Seq(Step))
      /\ Last(stack) \in Seq(Step) /\ Last(stack) # <<>>
  BY Top DEF Shape
<1>2. \A k \in 1 .. n : Bracketed(stack[k])
  BY DEF AllBracketed
<1>3. n \in 1 .. n /\ Bracketed(Last(stack))
  BY <1>1, <1>2
<1>4. \A k \in 1 .. n - 1 : k \in 1 .. n
  BY <1>1
<1>5. Len(Front(stack)) = n - 1 /\ \A k \in 1 .. n - 1 : Front(stack)[k] = stack[k]
  <2>1. Front(stack) = SubSeq(stack, 1, n - 1)
    BY DEF Front
  <2> QED  BY <1>1, <2>1
<1>6. AllBracketed(Front(stack))
  BY <1>2, <1>4, <1>5 DEF AllBracketed
<1>7. CASE Len(Last(stack)) = 1
  BY <1>3, <1>6, <1>7 DEF Rest
<1>8. CASE Len(Last(stack)) # 1
  <2>1. /\ Len(Rest) = n /\ Rest[n] = Tail(Last(stack))
        /\ \A k \in 1 .. n - 1 : Rest[k] = stack[k]
    BY <1>8, RestFacts
  <2>2. Bracketed(Tail(Last(stack)))
    BY <1>1, <1>3, OwedTail
  <2>3. \A k \in 1 .. n : k = n \/ k \in 1 .. n - 1
    BY <1>1
  <2>4. \A k \in 1 .. n : Bracketed(Rest[k])
    BY <1>2, <1>4, <2>1, <2>2, <2>3
  <2> QED  BY <1>3, <1>6, <2>1, <2>4 DEF AllBracketed
<1> QED
  BY <1>7, <1>8

\* The steps of a parse without errors.
LEMMA QuietStep ==
  ASSUME errors \in Seq(Nat), consumed \in Nat, errors = <<>> => ~is_panic,
         ParserStep, errors' = <<>>
  PROVE  /\ errors = <<>> /\ ~is_panic /\ ~is_panic'
         /\ \/ Enter
            \/ stack' = Rest /\ Stay /\ step \in {"panic?", "sync", "resync", "yes", "no"}
            \/ stack' = Rest /\ Advance
               /\ \/ step \in AllTokens /\ current = step
                  \/ step = "need_id" /\ current = "id"
                  \/ step = "need_LBRACE" /\ current = "LBRACE"
                  \/ step = "close" /\ current = "RBRACE"
                  \/ step = "next"
<1>1. \A k \in Nat : Append(errors, k) # <<>>
  <2> SUFFICES ASSUME NEW k \in Nat
               PROVE  Append(errors, k) # <<>>
    OBVIOUS
  <2>1. Len(Append(errors, k)) = Len(errors) + 1 /\ Len(errors) \in Nat
    OBVIOUS
  <2>2. Len(Append(errors, k)) # 0
    BY <2>1
  <2> QED  BY <2>2
<1>2. consumed + 1 \in Nat
  OBVIOUS
<1>3. Append(errors, consumed + 1) # <<>>
  BY <1>1, <1>2
<1>4. errors' \in {errors, Append(errors, consumed + 1)}
  BY DEF ParserStep, Enter, Expect, Need, TakeToken, CheckPanic, Fail, CloseBlock,
         SynchronizeStatement, SynchronizeTopLevel, Synchronize, NothingToSynchronize,
         JudgeTarget, SyntaxError, NoError
<1>5. errors = <<>> /\ ~is_panic
  BY <1>3, <1>4
<1>6. ~SyntaxError
  BY <1>3, <1>5 DEF SyntaxError
<1>7. NoError => ~is_panic'
  BY <1>5 DEF NoError
<1>8. CASE Enter
  BY <1>5, <1>7, <1>8 DEF Enter
<1>9. CASE Expect
  BY <1>5, <1>6, <1>7, <1>9 DEF Expect, Continue
<1>10. CASE Need
  BY <1>5, <1>6, <1>7, <1>10 DEF Need, Continue
<1>11. CASE TakeToken
  BY <1>5, <1>7, <1>11 DEF TakeToken, Continue
<1>12. CASE CheckPanic
  BY <1>5, <1>7, <1>12 DEF CheckPanic, Continue
<1>13. CASE Fail
  BY <1>6, <1>13 DEF Fail
<1>14. CASE CloseBlock
  BY <1>3, <1>5, <1>7, <1>14 DEF CloseBlock, Continue
<1>15. CASE SynchronizeStatement \/ SynchronizeTopLevel
  BY <1>5, <1>15 DEF SynchronizeStatement, SynchronizeTopLevel
<1>16. CASE NothingToSynchronize \/ JudgeTarget
  BY <1>5, <1>7, <1>16 DEF NothingToSynchronize, JudgeTarget, Continue
<1> QED
  BY <1>8, <1>9, <1>10, <1>11, <1>12, <1>13, <1>14, <1>15, <1>16 DEF ParserStep

\* A stack without steps that need a token does not begin with one.
LEMMA TopNotFirst ==
  ASSUME NEW st, Shape(st), NoFirst(st), st # <<>>
  PROVE  Head(Last(st)) \notin FirstStep
<1>1. /\ Len(st) \in Nat /\ Len(st) >= 1 /\ Last(st) = st[Len(st)]
      /\ Last(st) \in Seq(Step) /\ Last(st) # <<>>
  BY Top
<1>2. Head(Last(st)) = st[Len(st)][1] /\ 1 \in 1 .. Len(st[Len(st)]) /\ Len(st) \in 1 .. Len(st)
  BY <1>1
<1> QED
  BY <1>2 DEF NoFirst

\* After a step that enters no function, the next one was not chosen by a token.
LEMMA StepNotFirst ==
  ASSUME StackInv, ParserStep, ~Enter, stack' # <<>>
  PROVE  step' \notin FirstStep
<1>1. Shape(stack) /\ FirstOnTop(stack) /\ stack # <<>>
  BY DEF StackInv, ParserStep
<1>2. CASE stack' = Rest
  <2>1. Shape(Rest) /\ NoFirst(Rest)
    BY <1>1, RestShape, RestNoFirst
  <2> QED  BY <1>2, <2>1, TopNotFirst DEF step
<1>3. CASE stack' = Front(stack) /\ step \in PlainStep \ Functions
  <2> PICK r : r = Front(stack)
    OBVIOUS
  <2>1. /\ Shape(r) /\ Len(r) = Len(stack) - 1
        /\ \A k \in 1 .. Len(stack) - 1 : r[k] = stack[k]
    BY <1>1, <1>3, FrontShape
  <2>2. NoFirst(r)
    <3> PICK n : n = Len(stack)
      OBVIOUS
    <3>1. n \in Nat
      BY <1>1 DEF Shape
    <3>2. \A k \in 1 .. n - 1 : r[k] = stack[k] /\ k \in 1 .. n /\ k # n
      BY <2>1, <3>1
    <3>3. \A k \in 1 .. n : \A i \in 1 .. Len(stack[k]) : stack[k][i] \in FirstStep => k = n
      BY <1>1 DEF FirstOnTop
    <3> QED  BY <2>1, <3>2, <3>3 DEF NoFirst
  <2> QED  BY <1>3, <2>1, <2>2, TopNotFirst DEF step
<1>4. CASE UNCHANGED stack /\ step \in {"sync", "resync"}
  BY <1>4 DEF step, FirstStep
<1> QED
  BY <1>2, <1>3, <1>4, Outcomes

\* A sequence is its front and its last element.
LEMMA FrontThenLast ==
  ASSUME NEW nest \in Seq(AllTokens), nest # <<>>
  PROVE  Front(nest) \in Seq(AllTokens) /\ Append(Front(nest), Last(nest)) = nest
<1> PICK n : n = Len(nest)
  OBVIOUS
<1>1. n \in Nat /\ n >= 1 /\ Last(nest) = nest[n] /\ nest[n] \in AllTokens
  BY DEF Last
<1>2. Front(nest) = SubSeq(nest, 1, n - 1)
  BY DEF Front
<1>3. /\ Front(nest) \in Seq(AllTokens) /\ Len(Front(nest)) = n - 1
      /\ \A k \in 1 .. n - 1 : Front(nest)[k] = nest[k]
  BY <1>1, <1>2
<1> PICK r : r = Append(Front(nest), Last(nest))
  OBVIOUS
<1>4. /\ r \in Seq(AllTokens) /\ Len(r) = n /\ r[n] = nest[n]
      /\ \A k \in 1 .. n - 1 : r[k] = Front(nest)[k]
  BY <1>1, <1>3
<1>5. \A k \in 1 .. n : r[k] = nest[k]
  <2>1. \A k \in 1 .. n : k = n \/ k \in 1 .. n - 1
    BY <1>1
  <2> QED  BY <1>3, <1>4, <2>1
<1>6. r = nest
  BY <1>4, <1>5, SeqEqual
<1> QED
  BY <1>3, <1>6

\* The brackets after a step that enters no function.
LEMMA TokenNest ==
  ASSUME Shape(stack), stack # <<>>, NestInv, errors = <<>>, current \in AllTokens, Advance,
         \/ step \in AllTokens /\ current = step
         \/ step = "need_id" /\ current = "id"
         \/ step = "need_LBRACE" /\ current = "LBRACE"
         \/ step = "close" /\ current = "RBRACE"
         \/ step = "next"
  PROVE  Owes(OwedOf(Rest), nesting')
<1>1. nesting \in Seq(AllTokens) /\ Bracketed(Last(stack)) /\ nesting' = Nested(current)
  BY BracketedRest DEF NestInv, Advance
<1>2. /\ AboutToOpen => Owes(OwedOf(Front(stack)), nesting)
      /\ ~AboutToOpen => Owes(OwedOf(stack), nesting)
  BY DEF NestInv, OwedInv
<1>3. step = "next" => current \notin Closers /\ (current \in Openers => Owed(Last(stack)) = current)
  BY DEF NestInv, ChosenInv, FirstStep
<1>4. "next" \notin AllTokens
  BY DEF AllTokens
<1>5. /\ Neutral("next") /\ Neutral("need_id")
      /\ \A a \in AllTokens : a \notin Openers \cup Closers => Neutral(a)
      /\ "id" \notin Openers \cup Closers
  BY DEF Neutral, OpenSteps, CloseSteps, Openers, Closers, AllTokens
<1>6. CASE AboutToOpen
  <2>1. step = "next" /\ current \in Openers /\ Owed(Last(stack)) = current
    BY <1>3, <1>6 DEF AboutToOpen
  <2>2. Owes(OwedOf(Rest), Append(nesting, current))
    BY <1>1, <1>2, <1>5, <1>6, <2>1, RestNest
  <2> QED  BY <1>1, <2>1, <2>2, NestedFacts
<1>7. CASE ~AboutToOpen
  <2>1. CASE step \in OpenSteps
    <3>1. current = OpenedBy(step) /\ current \in Openers
      BY <2>1 DEF OpenedBy, OpenSteps, Openers, AllTokens
    <3>2. Owes(OwedOf(Rest), Append(nesting, current))
      BY <1>1, <1>2, <1>7, <2>1, <3>1, RestNest
    <3> QED  BY <1>1, <3>1, <3>2, NestedFacts
  <2>2. CASE step \in CloseSteps
    <3>1. current \in Closers /\ ClosedBy(current) = ClosedBy(step)
      BY <2>2 DEF ClosedBy, CloseSteps, Closers, AllTokens
    <3>2. nesting # <<>> /\ Last(nesting) = ClosedBy(step) /\ Owes(OwedOf(Rest), Front(nesting))
      BY <1>1, <1>2, <1>7, <2>2, RestNest
    <3> QED  BY <1>1, <3>1, <3>2, NestedFacts
  <2>3. CASE Neutral(step)
    <3>1. current \notin Openers \cup Closers
      <4>1. CASE step = "next"
        BY <1>3, <1>7, <4>1 DEF AboutToOpen
      <4>2. CASE step # "next"
        <5>1. step \in AllTokens => step \notin Openers \cup Closers
          BY <2>3 DEF Neutral, OpenSteps, CloseSteps
        <5>2. step \notin {"need_LBRACE", "close"}
          BY <2>3 DEF Neutral, OpenSteps, CloseSteps
        <5> QED  BY <1>5, <4>2, <5>1, <5>2
      <4> QED  BY <4>1, <4>2
    <3>2. Owes(OwedOf(Rest), nesting)
      BY <1>1, <1>2, <1>7, <2>3, RestNest
    <3> QED  BY <1>1, <3>1, <3>2, NestedFacts
  <2> QED  BY <2>1, <2>2, <2>3 DEF Neutral
<1> QED
  BY <1>6, <1>7

\* The brackets after a function was entered.
LEMMA EnterNest ==
  ASSUME StackInv, stack # <<>>, NestInv, Enter
  PROVE  NestInv'
<1> PICK s : s = StepsOf(step)
  OBVIOUS
<1>1. Shape(stack) /\ FirstOnTop(stack)
  BY DEF StackInv
<1>2. /\ step \in Functions /\ ahead' = ahead /\ nesting' = nesting /\ errors' = errors
      /\ s = <<>> => stack' = Rest
      /\ s # <<>> => stack' = Append(Rest, s)
  BY DEF Enter, Stay, NoError
<1>3. current' = current
  BY <1>2 DEF current
<1>4. /\ nesting \in Seq(AllTokens) /\ AllBracketed(Rest) /\ Bracketed(Last(stack))
  BY <1>1, BracketedRest DEF NestInv
<1>5. Entered(step, s)
  <2>1. step # "next"
    BY <1>2 DEF Functions
  <2>2. step \in FirstStep => current \notin Openers \cup Closers
    BY <2>1 DEF NestInv, ChosenInv
  <2> QED  BY <1>2, <2>2, EnterFrames
<1>6. step \notin OpenSteps /\ step # "next"
  BY <1>2 DEF Functions, OpenSteps, Openers
<1>7. errors = <<>> => Owes(OwedOf(stack), nesting)
  BY <1>6 DEF NestInv, OwedInv, AboutToOpen
<1>8. errors = <<>> => ~is_panic'
  BY DEF NestInv, OwedInv, Enter, NoError
<1>9. /\ step \notin CloseSteps => (errors = <<>> => Owes(OwedOf(Rest), nesting))
      /\ step \in CloseSteps =>
           (errors = <<>> => /\ nesting # <<>> /\ Last(nesting) = ClosedBy(step)
                             /\ Owes(OwedOf(Rest), Front(nesting)))
  BY <1>1, <1>4, <1>6, <1>7, RestNest DEF Neutral
<1>10. Shape(Rest) /\ NoFirst(Rest) /\ Rest \in Seq(Seq(Step))
  BY <1>1, RestShape, RestNoFirst DEF Shape
<1>11. CASE s = <<>>
  <2>1. stack' # <<>> => step' \notin FirstStep
    BY <1>2, <1>10, <1>11, TopNotFirst DEF step
  <2>2. ChosenInv' /\ ~AboutToOpen'
    BY <2>1 DEF ChosenInv, AboutToOpen, FirstStep
  <2>3. errors' = <<>> => Owes(OwedOf(stack'), nesting')
    BY <1>2, <1>5, <1>9, <1>11 DEF Entered
  <2>4. OwedInv'
    BY <1>2, <1>8, <2>2, <2>3 DEF OwedInv
  <2> QED  BY <1>2, <1>4, <1>11, <2>2, <2>4 DEF NestInv
<1>12. CASE s # <<>>
  <2> PICK b : b = Owed(s)
    OBVIOUS
  <2>1. /\ s \in Seq(Step) /\ Bracketed(s)
        /\ b = IF s[1] = "next" /\ current \in Openers THEN current
               ELSE IF step \in CloseSteps THEN ClosedBy(step) ELSE "none"
        /\ s[1] = "next" /\ current \in Openers => step \notin CloseSteps
        /\ s[1] \in FirstStep => current \notin Closers
        /\ s[1] \in FirstStep \ {"next"} => current \notin Openers
    BY <1>5, <1>12 DEF Entered, Frame
  <2>2. /\ stack' \in Seq(Seq(Step)) /\ stack' # <<>> /\ Front(stack') = Rest /\ Last(stack') = s
    BY <1>2, <1>10, <1>12, <2>1, FrontLastOfAppend
  <2>3. step' = s[1]
    BY <1>12, <2>1, <2>2 DEF step
  <2>4. ChosenInv'
    <3>1. step' \in FirstStep => /\ current' \notin Closers
                                 /\ step' # "next" => current' \notin Openers
                                 /\ step' = "next" /\ current' \in Openers => Owed(s) = current'
      BY <1>3, <2>1, <2>3
    <3> QED  BY <2>2, <3>1 DEF ChosenInv
  <2>5. AllBracketed(stack')
    <3> PICK n : n = Len(Rest)
      OBVIOUS
    <3> PICK r : r = Rest
      OBVIOUS
    <3>0. /\ n \in Nat /\ Len(Append(r, s)) = n + 1 /\ Append(r, s)[n + 1] = s
          /\ \A k \in 1 .. n : Append(r, s)[k] = r[k]
      BY <1>10, <2>1, AppendProperties
    <3>1. /\ n \in Nat /\ Len(stack') = n + 1 /\ stack'[n + 1] = s
          /\ \A k \in 1 .. n : stack'[k] = Rest[k]
      BY <1>2, <1>12, <3>0
    <3>2. \A k \in 1 .. n + 1 : k = n + 1 \/ k \in 1 .. n
      BY <3>1
    <3>3. \A k \in 1 .. n : Bracketed(Rest[k])
      BY <1>4 DEF AllBracketed
    <3>4. \A k \in 1 .. n + 1 : Bracketed(stack'[k])
      BY <2>1, <3>1, <3>2, <3>3
    <3> QED  BY <3>1, <3>4 DEF AllBracketed
  <2>6. AboutToOpen' <=> s[1] = "next" /\ current \in Openers
    BY <1>3, <2>2, <2>3 DEF AboutToOpen
  <2>7. OwedOf(stack') = Append(OwedOf(Rest), b) /\ OwedOf(Rest) \in OwedSeq
    BY <2>2, OwedOfLast
  <2>8. ASSUME errors = <<>>, s[1] = "next" /\ current \in Openers
        PROVE  Owes(OwedOf(Front(stack')), nesting')
    BY <1>2, <1>9, <2>1, <2>2, <2>8
  <2>9. ASSUME errors = <<>>, ~(s[1] = "next" /\ current \in Openers)
        PROVE  Owes(OwedOf(stack'), nesting')
    <3>1. CASE step \in CloseSteps
      <4>1. b = ClosedBy(step) /\ b \in Openers
        BY <2>1, <2>9, <3>1, StepKinds
      <4>2. nesting # <<>> /\ Last(nesting) = b /\ Owes(OwedOf(Rest), Front(nesting))
        BY <1>9, <2>9, <3>1, <4>1
      <4>3. Front(nesting) \in Seq(AllTokens) /\ Append(Front(nesting), Last(nesting)) = nesting
        BY <1>4, <4>2, FrontThenLast
      <4>4. Owes(Append(OwedOf(Rest), b), Append(Front(nesting), b))
        BY <2>7, <4>1, <4>2, <4>3, OwesPush
      <4> QED  BY <1>2, <2>7, <4>2, <4>3, <4>4
    <3>2. CASE step \notin CloseSteps
      <4>1. b = "none" /\ Owes(OwedOf(Rest), nesting)
        BY <1>9, <2>1, <2>9, <3>2
      <4> QED  BY <1>2, <1>4, <2>7, <4>1, OwesPush
    <3> QED  BY <3>1, <3>2
  <2>10. OwedInv'
    BY <1>2, <1>8, <2>6, <2>8, <2>9 DEF OwedInv
  <2> QED  BY <1>2, <1>4, <2>4, <2>5, <2>10 DEF NestInv
<1> QED
  BY <1>11, <1>12

\* The frames on the stack owe the brackets that are open, after every step.
LEMMA NestStep ==
  ASSUME ParserInv, NestInv, ParserStep
  PROVE  NestInv'
<1>1. /\ StackInv /\ Shape(stack) /\ FirstOnTop(stack) /\ stack # <<>>
      /\ errors \in Seq(Nat) /\ ahead \in Seq(AllTokens \cup {"EOF"}) /\ Len(ahead) = 2
  BY DEF ParserInv, StackInv, TypeOK, ParserStep
<1>2. consumed \in Nat
  <2>1. input.max \in Nat /\ consumed \in 0 .. input.max
    BY InputsAssumption DEF ParserInv, TypeOK
  <2> QED  BY <2>1
<1>3. Stay \/ (Advance /\ current \in AllTokens)
  <2>1. Stay \/ (Advance /\ ~AtEnd)
    BY <1>1, Moves
  <2>2. current \in AllTokens \cup {"EOF"}
    <3>1. 1 \in 1 .. Len(ahead)
      BY <1>1
    <3> QED  BY <1>1, <3>1, ElementOfSeq DEF current
  <2> QED  BY <2>1, <2>2 DEF AtEnd
<1>4. nesting' \in Seq(AllTokens)
  <2>1. nesting \in Seq(AllTokens)
    BY DEF NestInv
  <2>2. CASE Stay
    BY <2>1, <2>2 DEF Stay
  <2>3. CASE Advance /\ current \in AllTokens
    <3>1. nesting' = Nested(current) \/ nesting' = <<>>
      BY <2>3 DEF Advance
    <3>2. <<>> \in Seq(AllTokens)
      OBVIOUS
    <3> QED  BY <2>1, <2>3, <3>1, <3>2, NestedFacts
  <2> QED  BY <1>3, <2>2, <2>3
<1>5. AllBracketed(stack)
  BY DEF NestInv
<1>6. CASE Enter
  BY <1>1, <1>6, EnterNest
<1>7. CASE ~Enter
  <2>1. stack' \in {Rest, Front(stack)} \/ (stack' = stack /\ step \in {"sync", "resync"})
    BY <1>1, <1>7, Outcomes
  <2>2. AllBracketed(stack')
    BY <1>1, <1>5, <2>1, BracketedRest
  <2>3. stack' # <<>> => step' \notin FirstStep
    BY <1>1, <1>7, StepNotFirst
  <2>4. ChosenInv' /\ ~AboutToOpen'
    BY <2>3 DEF ChosenInv, AboutToOpen, FirstStep
  <2>5. ASSUME errors' = <<>>
        PROVE  ~is_panic' /\ Owes(OwedOf(stack'), nesting')
    <3>1. errors = <<>> => ~is_panic
      BY DEF NestInv, OwedInv
    <3>2. /\ errors = <<>> /\ ~is_panic'
          /\ \/ stack' = Rest /\ Stay /\ step \in {"panic?", "sync", "resync", "yes", "no"}
             \/ stack' = Rest /\ Advance
                /\ \/ step \in AllTokens /\ current = step
                   \/ step = "need_id" /\ current = "id"
                   \/ step = "need_LBRACE" /\ current = "LBRACE"
                   \/ step = "close" /\ current = "RBRACE"
                   \/ step = "next"
      BY <1>1, <1>2, <1>7, <2>5, <3>1, QuietStep
    <3>3. CASE stack' = Rest /\ Stay /\ step \in {"panic?", "sync", "resync", "yes", "no"}
      <4>1. Neutral(step) /\ step # "next"
        BY <3>3 DEF Neutral, OpenSteps, CloseSteps, Openers, Closers
      <4>2. Owes(OwedOf(stack), nesting) /\ nesting \in Seq(AllTokens)
        BY <3>2, <4>1 DEF NestInv, OwedInv, AboutToOpen
      <4>3. Bracketed(Last(stack))
        BY <1>1, <1>5, BracketedRest
      <4>4. Owes(OwedOf(Rest), nesting)
        BY <1>1, <4>1, <4>2, <4>3, RestNest
      <4> QED  BY <3>2, <3>3, <4>4 DEF Stay
    <3>4. CASE stack' = Rest /\ Advance
               /\ \/ step \in AllTokens /\ current = step
                  \/ step = "need_id" /\ current = "id"
                  \/ step = "need_LBRACE" /\ current = "LBRACE"
                  \/ step = "close" /\ current = "RBRACE"
                  \/ step = "next"
      <4>1. current \in AllTokens
        <5>1. ahead[1] \in AllTokens \cup {"EOF"}
          <6>1. 1 \in 1 .. Len(ahead)
            BY <1>1
          <6> QED  BY <1>1, <6>1, ElementOfSeq
        <5>2. current # "EOF"
          BY <1>1, <3>4 DEF AllTokens, StackInv, FirstStep, AtEnd
        <5> QED  BY <5>1, <5>2 DEF current
      <4> QED  BY <1>1, <3>2, <3>4, <4>1, TokenNest
    <3> QED  BY <3>2, <3>3, <3>4
  <2>6. OwedInv'
    BY <2>4, <2>5 DEF OwedInv
  <2> QED  BY <1>4, <2>2, <2>4, <2>6 DEF NestInv
<1> QED
  BY <1>6, <1>7

\* parserParseProgram begins with nothing owed and nothing open.
LEMMA NestInit == Init => NestInv
<1> SUFFICES ASSUME Init
             PROVE  NestInv
  OBVIOUS
<1>1. is_panic = FALSE /\ errors = <<>> /\ stack = <<P1>> /\ nesting = <<>>
  BY DEF Init, P1
<1>2. P1 \in Seq(Step) /\ P1 # <<>> /\ Len(P1) = 1 /\ P1[1] = "Program" /\ Frame(P1, "none")
  <2>1. P1 \in Seq(Step) /\ Len(P1) = 1 /\ P1[1] = "Program" /\ P1 # <<>>
    BY DEF P1, Step, Functions
  <2>2. Neutral("Program")
    BY DEF Neutral, OpenSteps, CloseSteps, Openers, Closers
  <2> QED  BY <2>1, <2>2, FrameWithout
<1>3. Bracketed(P1) /\ Owed(P1) = "none"
  BY <1>2 DEF Frame
<1>4. stack \in Seq(Seq(Step)) /\ stack # <<>> /\ Len(stack) = 1 /\ stack[1] = P1 /\ Last(stack) = P1
  BY <1>1, <1>2 DEF Last
<1>5. step \notin FirstStep /\ step # "next"
  BY <1>2, <1>4 DEF step, FirstStep
<1>6. AllBracketed(stack)
  BY <1>3, <1>4 DEF AllBracketed
<1>7. Owes(OwedOf(stack), nesting)
  <2>1. Front(stack) = <<>>
    BY <1>4 DEF Front
  <2>2. OwedOf(<<>>) = <<>>
    BY DEF OwedOf
  <2>3. OwedOf(stack) = Append(<<>>, "none")
    BY <1>3, <1>4, <2>1, <2>2, OwedOfLast
  <2>4. <<>> \in OwedSeq /\ <<>> \in Seq(AllTokens)
    BY DEF OwedSeq
  <2> QED  BY <1>1, <2>3, <2>4, OwesNothing, OwesPush
<1>8. ~is_panic
  BY <1>1
<1>9. nesting \in Seq(AllTokens)
  BY <1>1
<1> QED
  BY <1>5, <1>6, <1>7, <1>8, <1>9 DEF NestInv, ChosenInv, OwedInv, AboutToOpen

\* The invariant of the brackets, through every parse.
THEOREM NestInvariant == Spec => []NestInv
<1>1. ParserInv /\ NestInv /\ [Next]_vars => NestInv'
  <2> SUFFICES ASSUME ParserInv, NestInv, [Next]_vars
               PROVE  NestInv'
    OBVIOUS
  <2>1. CASE ParserStep
    BY <2>1, NestStep
  <2>2. CASE UNCHANGED vars
    BY <2>2 DEF vars, NestInv, ChosenInv, OwedInv, AboutToOpen, current, step
  <2> QED  BY <2>1, <2>2 DEF Next, Done
<1> QED
  BY <1>1, NestInit, ParserInvariant, PTL DEF Spec

\* A program that the parser accepts without an error was read to its end and has
\* its brackets closed in the order they were opened, whatever its length.
THEOREM AcceptedAlwaysNested == Spec => []AcceptedIsNested
<1>1. ParserInv /\ NestInv => AcceptedIsNested
  <2> SUFFICES ASSUME ParserInv, NestInv, stack = <<>>
               PROVE  AtEnd /\ (errors = <<>> => nesting = <<>>)
    BY DEF AcceptedIsNested
  <2>1. AtEnd
    BY DEF ParserInv, EndsInv
  <2>2. errors = <<>> => Owes(OwedOf(<<>>), nesting)
    BY DEF NestInv, OwedInv, AboutToOpen
  <2>3. OwedOf(<<>>) = <<>>
    BY DEF OwedOf
  <2>4. nesting \in Seq(AllTokens)
    BY DEF NestInv
  <2> QED  BY <2>1, <2>2, <2>3, <2>4, OwesNothing
<1> QED
  BY <1>1, ParserInvariant, NestInvariant, PTL
=============================================================================
