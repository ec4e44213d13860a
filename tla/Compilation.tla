----------------------------- MODULE Compilation -----------------------------
(***************************************************************************)
(* A function body on its way through the compiler, and the run of the     *)
(* code that comes out: semantic validation (FlowValidation), lowering to  *)
(* basic blocks when validation reported nothing (Lowering), execution of  *)
(* the basic blocks.  Each phase starts when the one before it is over, as *)
(* in compileTokensToLlvmIr.                                               *)
(***************************************************************************)
EXTENDS FlowValidation, Lowering

VARIABLES
  block, index,   \* the next instruction to execute
  last,           \* the last observable step, see StructuredRun
  running         \* "idle", "running" or "returned"

runVars == <<block, index, last, running>>
vars == <<validationVars, loweringVars, runVars>>

Structure == INSTANCE StructuredRun
               WITH program <- IF running = "idle" THEN <<>> ELSE prog

Init ==
  /\ ValidationInit
  /\ LoweringInit
  /\ block = 1 /\ index = 1
  /\ last = Structure!Start
  /\ running = "idle"

\* irBuilderLowerBlockNode's loop: the next statement of the AST.  A nested
\* function is one node to it, whose body it never enters.
NextPosition ==
  IF cursor > 0 /\ prog[cursor].op = "func" THEN Close(prog, cursor) + 1
                                            ELSE cursor + 1

LowerNext ==
  /\ Accepted
  /\ NextPosition <= Len(prog)
  /\ Lower(NextPosition, prog[NextPosition])
  /\ UNCHANGED <<validationVars, runVars>>

LowerEnd ==
  /\ Accepted
  /\ NextPosition = Len(prog) + 1
  /\ LowerFunctionEnd
  /\ UNCHANGED <<validationVars, runVars>>

-----------------------------------------------------------------------------
(* Execution of the emitted blocks, as LLVM defines it: instructions in    *)
(* order, and a terminator leaves the block.                               *)

Start ==
  /\ outcome = "done" /\ running = "idle"
  /\ running' = "running"
  /\ UNCHANGED <<validationVars, loweringVars, block, index, last>>

Executing(ops) ==
  /\ running = "running"
  /\ index <= Len(code[block])
  /\ code[block][index].op \in ops
  /\ UNCHANGED <<validationVars, loweringVars>>

Instr == code[block][index]

ExecuteStatement ==
  /\ Executing({"stmt", "init", "update"})
  /\ last' = Structure!Label(Instr.op, Instr.src, FALSE)
  /\ index' = index + 1
  /\ UNCHANGED <<block, running>>

ExecuteBranch ==
  /\ Executing({"br"})
  /\ block' = Instr.then /\ index' = 1
  /\ UNCHANGED <<last, running>>

ExecuteCondition ==
  /\ Executing({"cond_br"})
  /\ \E out \in BOOLEAN :
       /\ last' = Structure!Label("cond", Instr.src, out)
       /\ block' = IF out THEN Instr.then ELSE Instr.else
  /\ index' = 1
  /\ UNCHANGED running

ExecuteReturn ==
  /\ Executing({"ret"})
  /\ last' = Structure!Label("ret", Instr.src, FALSE)
  /\ running' = "returned"
  /\ UNCHANGED <<block, index>>

\* The compiler is done with a rejected function, the machine with a run.
Finished ==
  /\ \/ validated /\ errors # <<>>
     \/ running = "returned"
  /\ UNCHANGED vars

Next ==
  \/ Validate /\ UNCHANGED <<loweringVars, runVars>>
  \/ LowerNext \/ LowerEnd
  \/ Start
  \/ ExecuteStatement \/ ExecuteBranch \/ ExecuteCondition \/ ExecuteReturn
  \/ Finished

Spec == Init /\ [][Next]_vars

-----------------------------------------------------------------------------
TypeOK == ValidationTypeOK /\ LoweringTypeOK

\* The blocks emitted for a function execute exactly the statements,
\* conditions and for clauses that the structure of its source calls for, in
\* that order: break and continue reach the right loop, a for runs its update
\* before its condition, code after a jump stays dead (ir_builder_stmt.c).
CompiledRunsAsWritten == Structure!AbsSpec

\* validateFunction's missing-return check is sound: the default return that
\* irBuilderLowerFunctionBody appends to an accepted function that returns a
\* value is never the one executed.
DefaultReturnUnused ==
  ~ret_void => last # Structure!Label("ret", 0, FALSE)

\* validateBlock reports as unreachable only statements that no execution of
\* the body gets to (bodies whose jumps all have a loop).
UnreachableNeverRuns ==
  LET kinds == {errors[i][1] : i \in DOMAIN errors}
  IN  validated /\ "unreachable" \in kinds
        /\ kinds \cap {"break_outside", "continue_outside"} = {}
      => \A i \in DOMAIN errors :
           errors[i][1] = "unreachable"
             => Structure!At(errors[i][2]) \notin Structure!Passed(prog)

\* A function without validation errors never makes the lowering of a break or
\* a continue fail for want of a loop target: ctx->loop_depth and the stack
\* builder->loop_targets agree although each pass keeps its own, and both stay
\* within their types (neither goes below zero).
JumpsHaveTargets == TypeOK /\ outcome # "no_loop_target"

\* validateNode reports exactly the break and continue statements that no loop
\* surrounds, although it counts loops instead of looking at them.  A loop around
\* the function that the statement is in counts too: validateFunction leaves
\* ctx->loop_depth as it is.
StrayJumpsReported ==
  validated =>
    {errors[i][2] : i \in {j \in DOMAIN errors : errors[j][1] \in {"break_outside", "continue_outside"}}}
      = {n \in DOMAIN prog :
           /\ prog[n].op \in {"break", "continue"}
           /\ \A m \in 1 .. n - 1 : prog[m].op \in LoopOps => Close(prog, m) < n}
=============================================================================
