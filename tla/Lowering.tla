------------------------------ MODULE Lowering ------------------------------
(***************************************************************************)
(* The lowering of one function body to basic blocks: ir_builder_stmt.c    *)
(* and irBuilderLowerFunctionBody.  The state is what the IRBuilder and    *)
(* the IRFunction hold (blocks, current block, loop targets); the C call   *)
(* stack of the recursive lowering functions is kept as a sequence of      *)
(* frames.  The straight-line code of one statement is one instruction     *)
(* labelled with the statement's position; what its expressions emit is    *)
(* left to other modules.                                                  *)
(***************************************************************************)
EXTENDS Statements, SequencesExt

CONSTANT MayFail    \* whether expressions may fail to lower

ASSUME MayFailAssumption == MayFail \in BOOLEAN

VARIABLES
  cursor,         \* position of the last statement visited
  block_count,    \* function->block_count; block ids are 1 .. block_count
  code,           \* the instructions of each block
  current_block,  \* builder->current_block
  loop_targets,   \* builder->loop_targets, innermost last
  frames,         \* lowering functions whose blocks are being lowered
  outcome         \* "lowering", "done", or why a lowering function returned
                  \* false, which makes irBuildModule free the module

loweringVars == <<cursor, block_count, code, current_block, loop_targets,
                  frames, outcome>>

BlockId == 1 .. block_count
Terminators == {"ret", "br", "cond_br"}

\* An instruction, the position of the statement it comes from (0 for code
\* of the builder's own) and, for a branch, the blocks it goes to.
Instruction == [op : {"stmt", "init", "update"} \cup Terminators,
                src : Nat, then : Nat, else : Nat]

Code(op, src)          == [op |-> op, src |-> src, then |-> 0, else |-> 0]
Br(target)             == [op |-> "br", src |-> 0, then |-> target, else |-> target]
CondBr(src, yes, no)   == [op |-> "cond_br", src |-> src, then |-> yes, else |-> no]

\* A frame holds the local variables its lowering function uses after the
\* block it is lowering: for an if the else and end blocks, for a loop the
\* block the body jumps to, the condition and end blocks.
Frame == [of : {"then", "else", "while", "for"}, src : Nat, update : BOOLEAN,
          next : Nat, cond : Nat, end : Nat]

LoopTarget == [break : Nat, continue : Nat]

LoweringTypeOK ==
  /\ cursor \in Nat
  /\ block_count \in Nat \ {0}
  /\ code \in [BlockId -> Seq(Instruction)]
  /\ current_block \in BlockId
  /\ loop_targets \in Seq(LoopTarget)
  /\ frames \in Seq(Frame)
  /\ outcome \in {"lowering", "done", "no_loop_target", "expression_failed"}

\* irBuilderLowerFunctionBody up to its first statement: the entry block.
\* loop_targets is empty because every push of an earlier function was popped.
LoweringInit ==
  /\ cursor = 0
  /\ block_count = 1
  /\ code = [b \in {1} |-> <<>>]
  /\ current_block = 1
  /\ loop_targets = <<>>
  /\ frames = <<>>
  /\ outcome = "lowering"

-----------------------------------------------------------------------------
(* Helpers of ir_builder_utils.c and ir_module.c *)

\* irBasicBlockAppendInstruction
Emit(c, b, i) == [c EXCEPT ![b] = Append(@, i)]

\* irBuilderCurrentBlockHasTerminator
HasTerminator(c, b) == c[b] # <<>> /\ Last(c[b]).op \in Terminators

\* "if (!irBuilderCurrentBlockHasTerminator(builder)) irBuilderEmitBranch(...)"
Goto(c, b, target) == IF HasTerminator(c, b) THEN c ELSE Emit(c, b, Br(target))

\* Mutant: the last block is created but not appended to the function.
WithBlocksButOne(c, k) ==
  [b \in 1 .. block_count + k - 1 |-> IF b \in DOMAIN c THEN c[b] ELSE <<>>]

\* irFunctionCreateBlock and irFunctionAppendBlock, k times: fresh empty blocks
\* numbered from block_count + 1.
WithBlocks(c, k) ==
  [b \in 1 .. block_count + k |-> IF b \in DOMAIN c THEN c[b] ELSE <<>>]

New(k) == block_count + k

InnermostFrame == Last(frames)

-----------------------------------------------------------------------------
(* Statements without a block of their own *)

\* irBuilderLowerVarDecl, irBuilderLowerAssign, irBuilderLowerExprStatement
LowerSimple(n) ==
  /\ code' = Emit(code, current_block, Code("stmt", n))
  /\ UNCHANGED <<block_count, current_block, loop_targets, frames, outcome>>

\* An expression statement that emits nothing, and a nested function
\* declaration (the default case of irBuilderLowerStatement).
LowerNothing ==
  UNCHANGED <<block_count, code, current_block, loop_targets, frames, outcome>>

LowerReturn(n) ==
  /\ code' = Emit(code, current_block, Code("ret", n))
  /\ UNCHANGED <<block_count, current_block, loop_targets, frames, outcome>>

\* irBuilderLowerBreakStatement and irBuilderLowerContinueStatement branch to
\* the innermost loop target; without one they return false.
LowerJump(op) ==
  /\ \/ /\ loop_targets # <<>>
        /\ code' = Emit(code, current_block, Br(Last(loop_targets)[op]))
        /\ UNCHANGED outcome
     \/ /\ loop_targets = <<>>
        /\ outcome' = "no_loop_target"
        /\ UNCHANGED code
  /\ UNCHANGED <<block_count, current_block, loop_targets, frames>>

-----------------------------------------------------------------------------
(* if: then, else and end blocks *)

LowerIf(n) ==
  /\ block_count' = block_count + 3
  /\ code' = Emit(WithBlocks(code, 3), current_block, CondBr(n, New(1), New(2)))
  /\ current_block' = New(1)
  /\ frames' = Append(frames, [of |-> "then", src |-> n, update |-> FALSE,
                               next |-> New(2), cond |-> New(3), end |-> New(3)])
  /\ UNCHANGED <<loop_targets, outcome>>

LowerElse ==
  /\ frames # <<>> /\ InnermostFrame.of = "then"
  /\ code' = Goto(code, current_block, InnermostFrame.end)
  /\ current_block' = InnermostFrame.next
  /\ frames' = [frames EXCEPT ![Len(frames)].of = "else"]
  /\ UNCHANGED <<block_count, loop_targets, outcome>>

\* Mutant: a missing else leaves its block empty.
LowerEndIfWithoutElse ==
  /\ frames # <<>> /\ InnermostFrame.of \in {"then", "else"}
  /\ code' = Goto(code, current_block, InnermostFrame.end)
  /\ current_block' = InnermostFrame.end
  /\ frames' = Front(frames)
  /\ UNCHANGED <<block_count, loop_targets, outcome>>

\* The end of the if.  When there is no else, its empty block still gets the
\* jump to the end block.
LowerEndIf ==
  /\ frames # <<>> /\ InnermostFrame.of \in {"then", "else"}
  /\ LET closed == Goto(code, current_block, InnermostFrame.end)
     IN  code' = IF InnermostFrame.of = "else" THEN closed
                 ELSE Goto(closed, InnermostFrame.next, InnermostFrame.end)
  /\ current_block' = InnermostFrame.end
  /\ frames' = Front(frames)
  /\ UNCHANGED <<block_count, loop_targets, outcome>>

-----------------------------------------------------------------------------
(* while: cond, body and end blocks *)

LowerWhile(n) ==
  /\ block_count' = block_count + 3
  /\ code' = Emit(Goto(WithBlocks(code, 3), current_block, New(1)),
                  New(1), CondBr(n, New(2), New(3)))
  /\ current_block' = New(2)
  /\ loop_targets' = Append(loop_targets, [break |-> New(3), continue |-> New(1)])
  /\ frames' = Append(frames, [of |-> "while", src |-> n, update |-> FALSE,
                               next |-> New(1), cond |-> New(1), end |-> New(3)])
  /\ UNCHANGED outcome

\* Mutant: irBuilderPopLoopTarget is not called.
LowerEndWhileWithoutPop ==
  /\ frames # <<>> /\ InnermostFrame.of = "while"
  /\ code' = Goto(code, current_block, InnermostFrame.next)
  /\ current_block' = InnermostFrame.end
  /\ frames' = Front(frames)
  /\ UNCHANGED <<block_count, loop_targets, outcome>>

LowerEndWhile ==
  /\ frames # <<>> /\ InnermostFrame.of = "while"
  /\ code' = Goto(code, current_block, InnermostFrame.next)
  /\ current_block' = InnermostFrame.end
  /\ loop_targets' = Front(loop_targets)
  /\ frames' = Front(frames)
  /\ UNCHANGED <<block_count, outcome>>

\* Mutants of LowerFor: continue skips the update; the condition leaves the
\* loop for a block that was never created.
LowerForContinueToCond(n, h) ==
  LET init   == IF h.init THEN Emit(code, current_block, Code("init", n)) ELSE code
      jumped == Goto(WithBlocks(init, 4), current_block, New(1))
  IN  /\ block_count' = block_count + 4
      /\ code' = Emit(jumped, New(1), IF h.cond THEN CondBr(n, New(2), New(4))
                                                ELSE Br(New(2)))
      /\ current_block' = New(2)
      /\ loop_targets' = Append(loop_targets, [break |-> New(4), continue |-> New(1)])
      /\ frames' = Append(frames, [of |-> "for", src |-> n, update |-> h.update,
                                   next |-> New(3), cond |-> New(1), end |-> New(4)])
      /\ UNCHANGED outcome

LowerForExitMissing(n, h) ==
  LET init   == IF h.init THEN Emit(code, current_block, Code("init", n)) ELSE code
      jumped == Goto(WithBlocks(init, 4), current_block, New(1))
  IN  /\ block_count' = block_count + 4
      /\ code' = Emit(jumped, New(1), IF h.cond THEN CondBr(n, New(2), New(5))
                                                ELSE Br(New(2)))
      /\ current_block' = New(2)
      /\ loop_targets' = Append(loop_targets, [break |-> New(4), continue |-> New(3)])
      /\ frames' = Append(frames, [of |-> "for", src |-> n, update |-> h.update,
                                   next |-> New(3), cond |-> New(1), end |-> New(4)])
      /\ UNCHANGED outcome

(* for: init in the current block, then cond, body, update and end blocks *)

LowerFor(n, h) ==
  LET init   == IF h.init THEN Emit(code, current_block, Code("init", n)) ELSE code
      jumped == Goto(WithBlocks(init, 4), current_block, New(1))
  IN  /\ block_count' = block_count + 4
      /\ code' = Emit(jumped, New(1), IF h.cond THEN CondBr(n, New(2), New(4))
                                                ELSE Br(New(2)))
      /\ current_block' = New(2)
      /\ loop_targets' = Append(loop_targets, [break |-> New(4), continue |-> New(3)])
      /\ frames' = Append(frames, [of |-> "for", src |-> n, update |-> h.update,
                                   next |-> New(3), cond |-> New(1), end |-> New(4)])
      /\ UNCHANGED outcome

LowerEndFor ==
  /\ frames # <<>> /\ InnermostFrame.of = "for"
  /\ LET f       == InnermostFrame
         closed  == Goto(code, current_block, f.next)
         updated == IF f.update THEN Emit(closed, f.next, Code("update", f.src))
                                ELSE closed
     IN  code' = Goto(updated, f.next, f.cond)
  /\ current_block' = InnermostFrame.end
  /\ loop_targets' = Front(loop_targets)
  /\ frames' = Front(frames)
  /\ UNCHANGED <<block_count, outcome>>

-----------------------------------------------------------------------------
\* irBuilderLowerStatement, and the return of the lowering functions it calls.
LowerItem(n, e) ==
  \/ e.op = "stmt"             /\ LowerSimple(n)
  \/ e.op \in {"pure", "func"} /\ LowerNothing
  \/ e.op = "ret"              /\ LowerReturn(n)
  \/ e.op \in {"break", "continue"} /\ LowerJump(e.op)
  \/ e.op = "if"       /\ LowerIf(n)
  \/ e.op = "else"     /\ LowerElse
  \/ e.op = "endif"    /\ LowerEndIf
  \/ e.op = "while"    /\ LowerWhile(n)
  \/ e.op = "endwhile" /\ LowerEndWhile
  \/ e.op = "for"      /\ LowerFor(n, e.header)
  \/ e.op = "endfor"   /\ LowerEndFor

\* An expression of the statement cannot be lowered and the whole build fails
\* (only an expression statement goes on without its value).
LowerFails(e) ==
  /\ MayFail
  /\ e.op \in {"stmt", "ret", "if", "while", "for", "endfor"}
  /\ outcome' = "expression_failed"
  /\ UNCHANGED <<block_count, code, current_block, loop_targets, frames>>

\* The lowering visits item e at position n.
Lower(n, e) ==
  /\ outcome = "lowering"
  /\ cursor' = n
  /\ LowerItem(n, e) \/ LowerFails(e)

\* Mutant: no default return.
LowerFunctionEndOpen ==
  /\ outcome = "lowering" /\ frames = <<>>
  /\ outcome' = "done"
  /\ UNCHANGED <<cursor, block_count, code, current_block, loop_targets, frames>>

\* The end of irBuilderLowerFunctionBody: the default return, position 0.
LowerFunctionEnd ==
  /\ outcome = "lowering" /\ frames = <<>>
  /\ code' = IF HasTerminator(code, current_block) THEN code
             ELSE Emit(code, current_block, Code("ret", 0))
  /\ outcome' = "done"
  /\ UNCHANGED <<cursor, block_count, current_block, loop_targets, frames>>

\* The module is complete, or was freed because a lowering function failed.
LoweringOver == outcome # "lowering" /\ UNCHANGED loweringVars

\* The lowering of any function body of at most MaxItems items, one visited
\* item after another.
LoweringNext ==
  \/ \E e \in Item : Lower(cursor + 1, e) /\ cursor' + Len(frames') <= MaxItems
  \/ LowerFunctionEnd
  \/ LoweringOver

LoweringSpec == LoweringInit /\ [][LoweringNext]_loweringVars

-----------------------------------------------------------------------------
\* Every br and conditional br names blocks of the function, whatever breaks
\* and continues were lowered before the blocks after the loop were filled:
\* no printed branch has a dangling bbN label.
BranchTargetsExist ==
  \A b \in BlockId : \A i \in DOMAIN code[b] :
    code[b][i].op \in {"br", "cond_br"} =>
      code[b][i].then \in BlockId /\ code[b][i].else \in BlockId

\* A finished function has no block that execution can run off: each lowering
\* function leaves every block it created ended by ret, br or conditional br,
\* the ones nothing jumps to included (an end block after two returns).
EveryBlockTerminated ==
  outcome = "done" => \A b \in BlockId : HasTerminator(code, b)

\* The lowering functions still on the stack owe a terminator to these blocks.
Owed(f) == CASE f.of \in {"then", "for"} -> {f.next, f.end}
             [] OTHER                    -> {f.end}

\* While lowering, a block without a terminator is the current one or one
\* that a caller still has to fill.
OpenBlocksOwed ==
  outcome = "lowering" =>
    \A b \in BlockId :
      \/ HasTerminator(code, b)
      \/ b = current_block
      \/ \E k \in DOMAIN frames : b \in Owed(frames[k])

\* The blocks the builder will jump to later exist already.
FramesInRange ==
  /\ \A k \in DOMAIN frames : {frames[k].next, frames[k].cond, frames[k].end} \subseteq BlockId
  /\ \A k \in DOMAIN loop_targets :
       {loop_targets[k].break, loop_targets[k].continue} \subseteq BlockId

\* The strengthening that makes the two properties above inductive.
LoweringInd == FramesInRange /\ OpenBlocksOwed

\* The places of the loops on a stack of frames.
LoopsOf(fs) == {k \in DOMAIN fs : fs[k].of \in LoopOps}

\* One loop target per loop being lowered, its targets those of the loop, the
\* outermost first: break and continue mean the innermost enclosing loop, however
\* ifs and loops are nested, and every push of irBuilderPushLoopTarget is popped.
LoopTargetsMatchLoops ==
  outcome = "lowering" =>
    /\ Len(loop_targets) = Cardinality(LoopsOf(frames))
    /\ \A k \in LoopsOf(frames) :
         loop_targets[Cardinality(LoopsOf(frames) \cap 1 .. k)]
           = [break |-> frames[k].end, continue |-> frames[k].next]
=============================================================================
