--------------------------- MODULE FlowValidation ---------------------------
(***************************************************************************)
(* The control-flow half of semantic.c's validation pass over one function *)
(* (validateFunction, validateBlock, validateNode): the flow state of each *)
(* block, the loop depth, the current function, and the errors about       *)
(* returns, unreachable code, break and continue.  Name and type checks    *)
(* of expressions are left to other modules.                               *)
(*                                                                         *)
(* The function is not fixed in advance: every step picks the next item    *)
(* the walk finds, so the behaviours cover every function of at most       *)
(* MaxItems items nested at most MaxDepth deep.                            *)
(***************************************************************************)
EXTENDS Statements, SequencesExt

CONSTANT MaxDepth     \* bound on the nesting of blocks

ASSUME MaxDepthAssumption == MaxDepth \in Nat

VARIABLES
  prog,         \* the items walked so far
  scopes,       \* the C call stack: one record per block being validated
  loop_depth,   \* ctx->loop_depth
  ret_void,     \* ctx->current_function->return_type is void
  errors,       \* result->errors: kind and item, in the order appended
  validated     \* the walk of the function is over

validationVars == <<prog, scopes, loop_depth, ret_void, errors, validated>>

\* FlowState
Flow == {"continues", "returns"}

ErrorKind == {"unreachable", "missing_return", "empty_return",
              "value_in_void", "break_outside", "continue_outside"}

\* A block being validated: what it belongs to, the flow of its statements so
\* far, the flow of the then branch when it is an else branch, and, for the
\* body of a nested function, the context validateFunction restores.
Block == [of : {"body", "then", "else", "while", "for", "func"},
          flow : Flow, then_flow : Flow, saved_void : BOOLEAN]

NewBlock(of) == [of |-> of, flow |-> "continues", then_flow |-> "continues",
                 saved_void |-> ret_void]

ValidationTypeOK ==
  /\ prog \in Seq(Item)
  /\ scopes \in Seq(Block)
  /\ loop_depth \in Nat
  /\ ret_void \in BOOLEAN
  /\ errors \in Seq(ErrorKind \X Nat)
  /\ validated \in BOOLEAN

ValidationInit ==
  /\ prog = <<>>
  /\ ret_void \in BOOLEAN
  /\ loop_depth = 0
  /\ scopes = <<NewBlock("body")>>
  /\ errors = <<>>
  /\ validated = FALSE

-----------------------------------------------------------------------------
Here == Len(prog) + 1           \* the position of the item being visited
Innermost == Last(scopes)

\* validateBlock: an item that follows a guaranteed return is reported, then
\* validated all the same.
Unreachable ==
  IF Innermost.flow = "returns" THEN <<<<"unreachable", Here>>>> ELSE <<>>

\* validateBlock keeps FLOW_RETURNS once reached, and takes the flow of its
\* latest statement otherwise.
WithFlow(block, flow) ==
  [block EXCEPT !.flow = IF @ = "returns" THEN @ ELSE flow]

\* The walk visits item e in the innermost block and appends errs to the list.
Visit(e, errs) ==
  /\ ~validated
  /\ prog' = Append(prog, e)
  /\ errors' = errors \o errs

Leaf(e, flow, errs) ==
  /\ Visit(e, Unreachable \o errs)
  /\ scopes' = [scopes EXCEPT ![Len(scopes)] = WithFlow(@, flow)]
  /\ UNCHANGED <<loop_depth, ret_void, validated>>

\* AST_VAR_DECL, AST_EXPR_STMT, AST_ASSIGN
ValidateExpression == \E op \in {"stmt", "pure"} : Leaf(Plain(op), "continues", <<>>)

\* AST_RETURN: an empty return needs a void function, a value a non-void one.
ValidateReturn ==
  \E value \in BOOLEAN :
    Leaf(Ret(value), "returns",
         CASE ~value /\ ~ret_void -> <<<<"empty_return", Here>>>>
           [] value /\ ret_void   -> <<<<"value_in_void", Here>>>>
           [] OTHER               -> <<>>)

\* Mutant: the loop depth is not looked at.
ValidateBreakAnywhere == Leaf(Plain("break"), "continues", <<>>)

\* AST_BREAK and AST_CONTINUE only look at the loop depth.
ValidateBreak ==
  Leaf(Plain("break"), "continues",
       IF loop_depth = 0 THEN <<<<"break_outside", Here>>>> ELSE <<>>)

ValidateContinue ==
  Leaf(Plain("continue"), "continues",
       IF loop_depth = 0 THEN <<<<"continue_outside", Here>>>> ELSE <<>>)

\* The walk enters the block of a compound statement.
Enter(e, of) ==
  /\ Visit(e, Unreachable)
  /\ scopes' = Append(scopes, NewBlock(of))

\* The walk leaves the innermost block and hands flow to the enclosing one.
Leave(e, flow, errs) ==
  /\ Visit(e, errs)
  /\ scopes' = [Front(scopes) EXCEPT ![Len(scopes) - 1] = WithFlow(@, flow)]

ValidateIf ==
  /\ Enter(Plain("if"), "then")
  /\ UNCHANGED <<loop_depth, ret_void, validated>>

ValidateElse ==
  /\ Innermost.of = "then"
  /\ Visit(Plain("else"), <<>>)
  /\ scopes' = [scopes EXCEPT ![Len(scopes)] =
                   [NewBlock("else") EXCEPT !.then_flow = Innermost.flow]]
  /\ UNCHANGED <<loop_depth, ret_void, validated>>

\* Mutant: one returning branch is enough.
ValidateEndIfEither ==
  /\ Innermost.of \in {"then", "else"}
  /\ Leave(Plain("endif"),
           IF /\ Innermost.of = "else"
              /\ "returns" \in {Innermost.then_flow, Innermost.flow}
           THEN "returns" ELSE "continues",
           <<>>)
  /\ UNCHANGED <<loop_depth, ret_void, validated>>

\* Without an else the if continues; with one it returns when both branches do.
ValidateEndIf ==
  /\ Innermost.of \in {"then", "else"}
  /\ Leave(Plain("endif"),
           IF /\ Innermost.of = "else"
              /\ Innermost.then_flow = "returns"
              /\ Innermost.flow = "returns"
           THEN "returns" ELSE "continues",
           <<>>)
  /\ UNCHANGED <<loop_depth, ret_void, validated>>

\* AST_WHILE and AST_FOR: a loop never counts as returning.
ValidateLoop ==
  /\ \/ Enter(Plain("while"), "while")
     \/ \E h \in ForHeaders : Enter(For(h), "for")
  /\ loop_depth' = loop_depth + 1
  /\ UNCHANGED <<ret_void, validated>>

\* Mutant: a loop whose body returns counts as returning.
ValidateEndLoopReturns ==
  /\ Innermost.of \in LoopOps
  /\ Leave(Plain(IF Innermost.of = "while" THEN "endwhile" ELSE "endfor"),
           Innermost.flow, <<>>)
  /\ loop_depth' = loop_depth - 1
  /\ UNCHANGED <<ret_void, validated>>

ValidateEndLoop ==
  /\ Innermost.of \in LoopOps
  /\ Leave(Plain(IF Innermost.of = "while" THEN "endwhile" ELSE "endfor"),
           "continues", <<>>)
  /\ loop_depth' = loop_depth - 1
  /\ UNCHANGED <<ret_void, validated>>

\* A nested AST_FUNC_DECL: validateFunction replaces the current function and
\* keeps the loop depth.
ValidateNestedFunction ==
  \E void \in BOOLEAN :
    /\ Enter(Func(void), "func")
    /\ ret_void' = void
    /\ UNCHANGED <<loop_depth, validated>>

MissingReturn(n) ==
  IF ~ret_void /\ Innermost.flow # "returns" THEN <<<<"missing_return", n>>>>
                                             ELSE <<>>

ValidateEndNestedFunction ==
  /\ Innermost.of = "func"
  /\ Leave(Plain("endfunc"), "continues", MissingReturn(Here))
  /\ ret_void' = Innermost.saved_void
  /\ UNCHANGED <<loop_depth, validated>>

\* The end of validateFunction for the function itself; item 0 stands for its
\* declaration, where the missing return is reported.
ValidateFunctionEnd ==
  /\ ~validated
  /\ Innermost.of = "body"
  /\ errors' = errors \o MissingReturn(0)
  /\ validated' = TRUE
  /\ UNCHANGED <<prog, scopes, loop_depth, ret_void>>

\* Bounds: the body stays within MaxDepth, and within MaxItems once every
\* block that is open has been closed.
WithinBounds ==
  /\ Len(scopes') <= MaxDepth + 1
  /\ Len(prog') + Len(scopes') <= MaxItems + 1

Validate ==
  /\ \/ ValidateExpression \/ ValidateReturn \/ ValidateBreak \/ ValidateContinue
     \/ ValidateIf \/ ValidateElse \/ ValidateEndIf
     \/ ValidateLoop \/ ValidateEndLoop
     \/ ValidateNestedFunction \/ ValidateEndNestedFunction
     \/ ValidateFunctionEnd
  /\ WithinBounds

Accepted == validated /\ errors = <<>>
=============================================================================
