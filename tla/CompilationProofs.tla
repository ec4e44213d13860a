------------------------- MODULE CompilationProofs -------------------------
(***************************************************************************)
(* Proofs about Lowering and Compilation, for every function body, nesting *)
(* and bound.  First the lowering alone: the state is well typed, every    *)
(* branch has an existing target, and every block of a finished function   *)
(* ends with a terminator.  Then the two passes together: break and        *)
(* continue are reported exactly where no loop surrounds them, and a body  *)
(* without errors never leaves the lowering without a loop target.  Last   *)
(* the flow analysis: the default return of a function that must return a  *)
(* value is never executed, and no execution of a body gets to a statement *)
(* that is reported as unreachable.                                        *)
(***************************************************************************)
EXTENDS Compilation, SequenceTheorems, FiniteSetTheorems,
        NaturalsInduction, WellFoundedInduction, TLAPS

-----------------------------------------------------------------------------
(* What the helpers do to a map from block ids to instruction sequences.   *)

CodeMap(n) == [1 .. n -> Seq(Instruction)]

\* The targets an instruction names are blocks 1 .. n.
TargetsIn(i, n) ==
  i.op \in {"br", "cond_br"} => i.then \in 1 .. n /\ i.else \in 1 .. n

AllTargetsIn(c, n) ==
  \A b \in 1 .. n : \A i \in DOMAIN c[b] : TargetsIn(c[b][i], n)

\* Branches to blocks 1 .. m are instructions with their targets in range.
LEMMA BranchFacts ==
  ASSUME NEW m \in Nat, NEW src \in Nat, NEW t \in 1 .. m, NEW u \in 1 .. m
  PROVE  /\ Br(t) \in Instruction /\ TargetsIn(Br(t), m)
         /\ Br(t).op \in Terminators
         /\ CondBr(src, t, u) \in Instruction /\ TargetsIn(CondBr(src, t, u), m)
         /\ CondBr(src, t, u).op \in Terminators
BY DEF Br, CondBr, Instruction, Terminators, TargetsIn

\* Other instructions have no targets.
LEMMA CodeFacts ==
  ASSUME NEW m \in Nat, NEW src \in Nat, NEW op \in {"stmt", "init", "update", "ret"}
  PROVE  /\ Code(op, src) \in Instruction /\ TargetsIn(Code(op, src), m)
         /\ Code(op, src).op = op
BY DEF Code, Instruction, Terminators, TargetsIn

\* Emit appends to one block: it keeps the type, makes that block's terminator
\* status that of the new instruction, and leaves the other blocks alone.
LEMMA EmitProperties ==
  ASSUME NEW n \in Nat, NEW c \in CodeMap(n), NEW b \in 1 .. n,
         NEW i \in Instruction
  PROVE  /\ Emit(c, b, i) \in CodeMap(n)
         /\ HasTerminator(Emit(c, b, i), b) <=> i.op \in Terminators
         /\ \A x \in 1 .. n \ {b} :
              HasTerminator(Emit(c, b, i), x) <=> HasTerminator(c, x)
         /\ AllTargetsIn(c, n) /\ TargetsIn(i, n) => AllTargetsIn(Emit(c, b, i), n)
<1> DEFINE d == Emit(c, b, i)
<1>1. c[b] \in Seq(Instruction)
  BY DEF CodeMap
<1>2. /\ Append(c[b], i) \in Seq(Instruction)
      /\ Len(Append(c[b], i)) = Len(c[b]) + 1
      /\ Append(c[b], i)[Len(c[b]) + 1] = i
      /\ \A k \in 1 .. Len(c[b]) : Append(c[b], i)[k] = c[b][k]
  BY <1>1
<1>3. /\ d \in CodeMap(n)
      /\ d[b] = Append(c[b], i)
      /\ \A x \in 1 .. n \ {b} : d[x] = c[x]
  BY <1>2 DEF Emit, CodeMap
<1>4. HasTerminator(d, b) <=> i.op \in Terminators
  <2> HIDE DEF d
  <2>1. Len(c[b]) \in Nat /\ Len(d[b]) = Len(c[b]) + 1 /\ d[b][Len(c[b]) + 1] = i
    BY <1>1, <1>2, <1>3
  <2>2. d[b] # <<>>
    BY <2>1
  <2>3. Last(d[b]) = i
    BY <2>1 DEF Last
  <2> QED
    BY <2>2, <2>3 DEF HasTerminator
<1>5. \A x \in 1 .. n \ {b} : HasTerminator(d, x) <=> HasTerminator(c, x)
  BY <1>3 DEF HasTerminator
<1>6. ASSUME AllTargetsIn(c, n), TargetsIn(i, n)
      PROVE  AllTargetsIn(d, n)
  <2> SUFFICES ASSUME NEW x \in 1 .. n, NEW k \in DOMAIN d[x]
               PROVE  TargetsIn(d[x][k], n)
    BY DEF AllTargetsIn
  <2>1. CASE x # b
    BY <2>1, <1>3, <1>6 DEF AllTargetsIn
  <2>2. CASE x = b
    <3>1. k \in 1 .. Len(c[b]) + 1
      BY <2>2, <1>1, <1>2, <1>3
    <3>2. CASE k = Len(c[b]) + 1
      BY <3>2, <2>2, <1>2, <1>3, <1>6
    <3>3. CASE k \in 1 .. Len(c[b])
      BY <3>3, <2>2, <1>1, <1>2, <1>3, <1>6 DEF AllTargetsIn
    <3> QED
      BY <3>1, <3>2, <3>3, <1>1
  <2> QED
    BY <2>1, <2>2
<1> HIDE DEF d
<1> QED
  BY <1>3, <1>4, <1>5, <1>6 DEF d

\* Goto leaves its block terminated and every other block as it was.
LEMMA GotoProperties ==
  ASSUME NEW n \in Nat, NEW c \in CodeMap(n), NEW b \in 1 .. n, NEW t \in 1 .. n
  PROVE  /\ Goto(c, b, t) \in CodeMap(n)
         /\ HasTerminator(Goto(c, b, t), b)
         /\ \A x \in 1 .. n \ {b} :
              HasTerminator(Goto(c, b, t), x) <=> HasTerminator(c, x)
         /\ AllTargetsIn(c, n) => AllTargetsIn(Goto(c, b, t), n)
<1>1. Br(t) \in Instruction /\ Br(t).op \in Terminators /\ TargetsIn(Br(t), n)
  BY BranchFacts
<1>2. CASE HasTerminator(c, b)
  BY <1>2 DEF Goto
<1>3. CASE ~HasTerminator(c, b)
  BY <1>3, <1>1, EmitProperties DEF Goto
<1> QED
  BY <1>2, <1>3

\* Fresh blocks are empty, old ones unchanged, and old targets stay in range.
LEMMA WithBlocksProperties ==
  ASSUME block_count \in Nat, NEW c \in CodeMap(block_count), NEW k \in Nat
  PROVE  /\ WithBlocks(c, k) \in CodeMap(block_count + k)
         /\ \A x \in 1 .. block_count :
              HasTerminator(WithBlocks(c, k), x) <=> HasTerminator(c, x)
         /\ AllTargetsIn(c, block_count) =>
              AllTargetsIn(WithBlocks(c, k), block_count + k)
<1> DEFINE d == WithBlocks(c, k)
<1>1. /\ DOMAIN c = 1 .. block_count
      /\ \A x \in 1 .. block_count : c[x] \in Seq(Instruction)
  BY DEF CodeMap
<1>2. /\ d \in CodeMap(block_count + k)
      /\ \A x \in 1 .. block_count : d[x] = c[x]
      /\ \A x \in 1 .. block_count + k : x \notin 1 .. block_count => d[x] = <<>>
  <2>1. <<>> \in Seq(Instruction)
    OBVIOUS
  <2>2. \A x \in 1 .. block_count : x \in 1 .. block_count + k
    OBVIOUS
  <2> QED
    BY <1>1, <2>1, <2>2 DEF WithBlocks, CodeMap
<1>3. \A x \in 1 .. block_count : HasTerminator(d, x) <=> HasTerminator(c, x)
  BY <1>2 DEF HasTerminator
<1>4. ASSUME AllTargetsIn(c, block_count)
      PROVE  AllTargetsIn(d, block_count + k)
  <2> SUFFICES ASSUME NEW x \in 1 .. block_count + k, NEW j \in DOMAIN d[x]
               PROVE  TargetsIn(d[x][j], block_count + k)
    BY DEF AllTargetsIn
  <2>1. x \in 1 .. block_count
    BY <1>2
  <2>2. TargetsIn(c[x][j], block_count)
    BY <2>1, <1>2, <1>4 DEF AllTargetsIn
  <2> QED
    BY <2>1, <2>2, <1>2 DEF TargetsIn
<1> HIDE DEF d
<1> QED
  BY <1>2, <1>3, <1>4 DEF d

\* What pushing on and popping from a stack does.
LEMMA PushProperties ==
  ASSUME NEW S, NEW s \in Seq(S), NEW x \in S
  PROVE  /\ Append(s, x) \in Seq(S)
         /\ DOMAIN Append(s, x) = 1 .. Len(s) + 1
         /\ Append(s, x)[Len(s) + 1] = x
         /\ \A k \in 1 .. Len(s) : Append(s, x)[k] = s[k]
OBVIOUS

\* Front drops the last element of a stack and keeps the others; Last is the
\* element dropped.
LEMMA PopProperties ==
  ASSUME NEW S, NEW s \in Seq(S)
  PROVE  /\ Front(s) \in Seq(S)
         /\ s # <<>> => Len(s) \in DOMAIN s /\ Last(s) = s[Len(s)] /\ Last(s) \in S
         /\ s # <<>> => DOMAIN Front(s) = 1 .. Len(s) - 1
         /\ s = <<>> => DOMAIN Front(s) = {}
         /\ \A k \in DOMAIN Front(s) : k \in DOMAIN s /\ Front(s)[k] = s[k]
<1>1. CASE s = <<>>
  <2>1. Front(s) = <<>>
    BY <1>1, SubSeqEmpty DEF Front
  <2>2. Front(s) \in Seq(S) /\ Len(Front(s)) = 0
    BY <2>1, EmptySeq
  <2>3. DOMAIN Front(s) = {}
    BY <2>2, LenProperties
  <2> QED
    BY <1>1, <2>2, <2>3
<1>2. CASE s # <<>>
  <2>1. Len(s) \in Nat \ {0}
    BY <1>2, EmptySeq
  <2>2. \A k \in 1 .. Len(s) - 1 : s[k] \in S
    BY <2>1
  <2>3. /\ Front(s) \in Seq(S)
        /\ Len(Front(s)) = Len(s) - 1
        /\ \A k \in 1 .. Len(s) - 1 : Front(s)[k] = s[k]
    <3> DEFINE m == Len(s) - 1
    <3>0. m \in Nat
      BY <2>1
    <3> HIDE DEF m
    <3>1. m \in Int /\ m - 1 + 1 = m /\ (~(1 <= m) => m = 0)
      BY <3>0
    <3>2. /\ SubSeq(s, 1, m) \in Seq(S)
          /\ Len(SubSeq(s, 1, m)) = IF 1 <= m THEN m - 1 + 1 ELSE 0
          /\ \A k \in 1 .. m - 1 + 1 : SubSeq(s, 1, m)[k] = s[1 + k - 1]
      <4>1. \A k \in 1 .. m : s[k] \in S
        BY <2>2 DEF m
      <4> QED
        BY <4>1, <3>1, SubSeqProperties
    <3>3. \A k \in 1 .. m : 1 + k - 1 = k
      BY <3>1
    <3> QED
      BY <3>1, <3>2, <3>3 DEF Front, m
  <2>4. DOMAIN Front(s) = 1 .. Len(s) - 1
    BY <2>3, LenProperties
  <2> QED
    BY <1>2, <2>1, <2>3, <2>4 DEF Last
<1> QED
  BY <1>1, <1>2

-----------------------------------------------------------------------------
(* The inductive invariant. *)

LoweringInv ==
  /\ LoweringTypeOK
  /\ BranchTargetsExist
  /\ LoweringInd
  /\ EveryBlockTerminated

\* The invariant, with the blocks read as a code map.
LEMMA InvFacts ==
  ASSUME LoweringInv
  PROVE  /\ block_count \in Nat \ {0} /\ current_block \in 1 .. block_count
         /\ code \in CodeMap(block_count) /\ AllTargetsIn(code, block_count)
         /\ loop_targets \in Seq(LoopTarget) /\ frames \in Seq(Frame)
BY DEF LoweringInv, LoweringTypeOK, BranchTargetsExist, BlockId, CodeMap,
       AllTargetsIn, TargetsIn

\* A step keeps the invariant when what it does to the blocks, the stacks and
\* the terminators does.
LEMMA StepKeepsInv ==
  ASSUME LoweringInv,
         cursor' \in Nat,
         outcome' \in {"lowering", "no_loop_target", "expression_failed"},
         block_count' \in Nat \ {0},
         code' \in CodeMap(block_count'),
         AllTargetsIn(code', block_count'),
         current_block' \in 1 .. block_count',
         loop_targets' \in Seq(LoopTarget),
         frames' \in Seq(Frame),
         FramesInRange',
         outcome' = "lowering" =>
           \A b \in 1 .. block_count' :
             \/ HasTerminator(code', b)
             \/ b = current_block'
             \/ \E k \in DOMAIN frames' : b \in Owed(frames'[k])
  PROVE  LoweringInv'
<1>1. LoweringTypeOK'
  BY DEF LoweringTypeOK, BlockId, CodeMap
<1>2. BranchTargetsExist'
  BY DEF BranchTargetsExist, BlockId, AllTargetsIn, TargetsIn
<1>3. OpenBlocksOwed'
  BY DEF OpenBlocksOwed, BlockId
<1>4. EveryBlockTerminated'
  BY DEF EveryBlockTerminated
<1> QED
  BY <1>1, <1>2, <1>3, <1>4 DEF LoweringInv, LoweringInd

-----------------------------------------------------------------------------
(* One lemma per kind of step. *)

\* The owed blocks of the invariant, while lowering.
LEMMA OwedFacts ==
  ASSUME LoweringInv, outcome = "lowering"
  PROVE  /\ \A b \in 1 .. block_count :
              \/ HasTerminator(code, b)
              \/ b = current_block
              \/ \E k \in DOMAIN frames : b \in Owed(frames[k])
         /\ FramesInRange
BY DEF LoweringInv, LoweringInd, OpenBlocksOwed, BlockId

\* A statement, return or jump appended to the current block.
LEMMA EmitStep ==
  ASSUME LoweringInv, outcome = "lowering", cursor' \in Nat,
         NEW i \in Instruction, TargetsIn(i, block_count),
         code' = Emit(code, current_block, i),
         UNCHANGED <<block_count, current_block, loop_targets, frames, outcome>>
  PROVE  LoweringInv'
<1>1. /\ code' \in CodeMap(block_count) /\ AllTargetsIn(code', block_count)
      /\ \A x \in 1 .. block_count \ {current_block} :
           HasTerminator(code', x) <=> HasTerminator(code, x)
  BY InvFacts, EmitProperties
<1>2. FramesInRange'
  BY OwedFacts DEF FramesInRange, BlockId
<1>3. \A b \in 1 .. block_count :
        \/ HasTerminator(code', b)
        \/ b = current_block
        \/ \E k \in DOMAIN frames : b \in Owed(frames[k])
  BY <1>1, OwedFacts
<1> QED
  BY <1>1, <1>2, <1>3, InvFacts, StepKeepsInv

\* A step that emits nothing, or one that fails.
LEMMA IdleStep ==
  ASSUME LoweringInv, outcome = "lowering", cursor' \in Nat,
         outcome' \in {"lowering", "no_loop_target", "expression_failed"},
         UNCHANGED <<block_count, code, current_block, loop_targets, frames>>
  PROVE  LoweringInv'
<1>1. FramesInRange'
  BY OwedFacts DEF FramesInRange, BlockId
<1>2. \A b \in 1 .. block_count :
        HasTerminator(code', b) <=> HasTerminator(code, b)
  OBVIOUS
<1> QED
  BY <1>1, <1>2, InvFacts, OwedFacts, StepKeepsInv

\* break and continue: the loop target they jump to is a block of the function,
\* or there is none and the lowering fails.
LEMMA JumpStep ==
  ASSUME LoweringInv, outcome = "lowering", cursor' \in Nat,
         NEW op \in {"break", "continue"}, LowerJump(op)
  PROVE  LoweringInv'
<1>1. CASE loop_targets = <<>>
  BY <1>1, IdleStep DEF LowerJump
<1>2. CASE loop_targets # <<>>
  <2> DEFINE t == Last(loop_targets)[op]
  <2>1. Len(loop_targets) \in DOMAIN loop_targets
        /\ Last(loop_targets) = loop_targets[Len(loop_targets)]
    BY <1>2, InvFacts, PopProperties
  <2>2. t \in 1 .. block_count
    BY <2>1, OwedFacts DEF FramesInRange, BlockId
  <2> HIDE DEF t
  <2>3. Br(t) \in Instruction /\ TargetsIn(Br(t), block_count)
    BY <2>2, InvFacts, BranchFacts
  <2>4. /\ code' = Emit(code, current_block, Br(t))
        /\ UNCHANGED <<block_count, current_block, loop_targets, frames, outcome>>
    BY <1>2 DEF LowerJump, t
  <2> QED
    BY <2>3, <2>4, EmitStep
<1> QED
  BY <1>1, <1>2

\* Pushing a loop target in range keeps the whole stack in range.
LEMMA TargetPushed ==
  ASSUME NEW m \in Nat, NEW n \in Nat, m <= n,
         NEW s \in Seq(LoopTarget), NEW t \in LoopTarget,
         \A j \in DOMAIN s : s[j].break \in 1 .. m /\ s[j].continue \in 1 .. m,
         t.break \in 1 .. n, t.continue \in 1 .. n
  PROVE  /\ Append(s, t) \in Seq(LoopTarget)
         /\ \A j \in DOMAIN Append(s, t) :
              Append(s, t)[j].break \in 1 .. n /\ Append(s, t)[j].continue \in 1 .. n
<1> DEFINE u == Append(s, t)
<1>1. /\ u \in Seq(LoopTarget)
      /\ DOMAIN u = 1 .. Len(s) + 1
      /\ u[Len(s) + 1] = t
      /\ \A j \in 1 .. Len(s) : u[j] = s[j]
      /\ DOMAIN s = 1 .. Len(s) /\ Len(s) \in Nat
  BY PushProperties, LenProperties
<1> HIDE DEF u
<1>2. ASSUME NEW j \in DOMAIN u
      PROVE  u[j].break \in 1 .. n /\ u[j].continue \in 1 .. n
  <2>1. CASE j = Len(s) + 1
    BY <2>1, <1>1
  <2>2. CASE j \in 1 .. Len(s)
    BY <2>2, <1>1
  <2> QED
    BY <2>1, <2>2, <1>1
<1> QED
  BY <1>1, <1>2 DEF u

\* The start of a compound statement: new blocks, a new frame, and for a loop a
\* new loop target.
LEMMA OpenStep ==
  ASSUME LoweringInv, outcome = "lowering", cursor' \in Nat, outcome' = "lowering",
         NEW k \in Nat, block_count' = block_count + k,
         code' \in CodeMap(block_count'), AllTargetsIn(code', block_count'),
         current_block' \in 1 .. block_count',
         NEW f \in Frame, {f.next, f.cond, f.end} \subseteq 1 .. block_count',
         frames' = Append(frames, f),
         \/ loop_targets' = loop_targets
         \/ \E t \in LoopTarget : /\ t.break \in 1 .. block_count'
                                  /\ t.continue \in 1 .. block_count'
                                  /\ loop_targets' = Append(loop_targets, t),
         HasTerminator(code', current_block),
         \A b \in 1 .. block_count \ {current_block} :
           HasTerminator(code, b) => HasTerminator(code', b),
         \A b \in 1 .. block_count' : b \notin 1 .. block_count =>
           HasTerminator(code', b) \/ b = current_block' \/ b \in Owed(f)
  PROVE  LoweringInv'
<1>1. /\ frames' \in Seq(Frame)
      /\ DOMAIN frames' = 1 .. Len(frames) + 1
      /\ frames'[Len(frames) + 1] = f
      /\ \A j \in 1 .. Len(frames) : frames'[j] = frames[j]
      /\ DOMAIN frames = 1 .. Len(frames) /\ Len(frames) \in Nat
  BY InvFacts, PushProperties
<1>2. block_count \in Nat /\ block_count' \in Nat \ {0}
      /\ \A b \in 1 .. block_count : b \in 1 .. block_count'
  BY InvFacts
<1>3. /\ loop_targets' \in Seq(LoopTarget)
      /\ \A j \in DOMAIN loop_targets' :
           /\ loop_targets'[j].break \in 1 .. block_count'
           /\ loop_targets'[j].continue \in 1 .. block_count'
  <2>1. /\ loop_targets \in Seq(LoopTarget)
        /\ \A j \in DOMAIN loop_targets :
             /\ loop_targets[j].break \in 1 .. block_count
             /\ loop_targets[j].continue \in 1 .. block_count
    BY InvFacts, OwedFacts DEF FramesInRange, BlockId
  <2>2. CASE loop_targets' = loop_targets
    BY <2>1, <2>2, <1>2
  <2>3. CASE loop_targets' # loop_targets
    <3>1. PICK t \in LoopTarget : /\ t.break \in 1 .. block_count'
                                  /\ t.continue \in 1 .. block_count'
                                  /\ loop_targets' = Append(loop_targets, t)
      BY <2>3
    <3>2. block_count <= block_count'
      BY <1>2
    <3> QED
      BY <3>1, <3>2, <2>1, <1>2, TargetPushed
  <2> QED
    BY <2>2, <2>3
<1>4. FramesInRange'
  <2>1. \A j \in DOMAIN frames' :
          {frames'[j].next, frames'[j].cond, frames'[j].end} \subseteq 1 .. block_count'
    <3> SUFFICES ASSUME NEW j \in 1 .. Len(frames) + 1
                 PROVE  {frames'[j].next, frames'[j].cond, frames'[j].end}
                          \subseteq 1 .. block_count'
      BY <1>1
    <3>1. CASE j = Len(frames) + 1
      BY <3>1, <1>1
    <3>2. CASE j \in 1 .. Len(frames)
      BY <3>2, <1>1, <1>2, OwedFacts DEF FramesInRange, BlockId
    <3> QED
      BY <3>1, <3>2, <1>1
  <2> QED
    BY <2>1, <1>3 DEF FramesInRange, BlockId
<1>5. \A b \in 1 .. block_count' :
        \/ HasTerminator(code', b)
        \/ b = current_block'
        \/ \E j \in DOMAIN frames' : b \in Owed(frames'[j])
  <2> SUFFICES ASSUME NEW b \in 1 .. block_count', ~HasTerminator(code', b),
                      b # current_block'
               PROVE  \E j \in DOMAIN frames' : b \in Owed(frames'[j])
    OBVIOUS
  <2>1. CASE b \in 1 .. block_count
    <3>1. PICK j \in DOMAIN frames : b \in Owed(frames[j])
      BY <2>1, OwedFacts
    <3> QED
      BY <3>1, <1>1
  <2>2. CASE b \notin 1 .. block_count
    BY <2>2, <1>1
  <2> QED
    BY <2>1, <2>2
<1> QED
  BY <1>1, <1>2, <1>3, <1>4, <1>5, StepKeepsInv

\* The end of a compound statement: the frame is popped, and the blocks it owed
\* a terminator to have one or become the current block.
LEMMA CloseStep ==
  ASSUME LoweringInv, outcome = "lowering", cursor' \in Nat, outcome' = "lowering",
         block_count' = block_count,
         code' \in CodeMap(block_count), AllTargetsIn(code', block_count),
         current_block' \in 1 .. block_count,
         frames # <<>>, frames' = Front(frames),
         loop_targets' \in {loop_targets, Front(loop_targets)},
         HasTerminator(code', current_block),
         \A b \in 1 .. block_count : HasTerminator(code, b) => HasTerminator(code', b),
         \A b \in Owed(Last(frames)) : HasTerminator(code', b) \/ b = current_block'
  PROVE  LoweringInv'
<1>1. /\ frames' \in Seq(Frame)
      /\ DOMAIN frames' = 1 .. Len(frames) - 1
      /\ \A j \in DOMAIN frames' : j \in DOMAIN frames /\ frames'[j] = frames[j]
      /\ DOMAIN frames = 1 .. Len(frames) /\ Len(frames) \in Nat
      /\ Last(frames) = frames[Len(frames)]
  BY InvFacts, PopProperties
<1>2. /\ loop_targets' \in Seq(LoopTarget)
      /\ \A j \in DOMAIN loop_targets' :
           j \in DOMAIN loop_targets /\ loop_targets'[j] = loop_targets[j]
  BY InvFacts, PopProperties
<1>3. FramesInRange'
  BY <1>1, <1>2, OwedFacts DEF FramesInRange, BlockId
<1>4. \A b \in 1 .. block_count :
        \/ HasTerminator(code', b)
        \/ b = current_block'
        \/ \E j \in DOMAIN frames' : b \in Owed(frames'[j])
  <2> SUFFICES ASSUME NEW b \in 1 .. block_count, ~HasTerminator(code', b),
                      b # current_block'
               PROVE  \E j \in DOMAIN frames' : b \in Owed(frames'[j])
    OBVIOUS
  <2>1. PICK j \in DOMAIN frames : b \in Owed(frames[j])
    BY OwedFacts
  <2>2. j # Len(frames)
    BY <2>1, <1>1
  <2> QED
    BY <2>1, <2>2, <1>1
<1> QED
  BY <1>1, <1>2, <1>3, <1>4, InvFacts, StepKeepsInv

-----------------------------------------------------------------------------
(* The compound statements. *)

\* irBuilderLowerIfStatement up to its then branch keeps the invariant: of the
\* three new blocks, one is current and the frame owes the other two.
LEMMA IfStep ==
  ASSUME LoweringInv, outcome = "lowering", NEW n \in Nat, cursor' = n, LowerIf(n)
  PROVE  LoweringInv'
<1> DEFINE N == block_count
           f == [of |-> "then", src |-> n, update |-> FALSE,
                 next |-> N + 2, cond |-> N + 3, end |-> N + 3]
           c == WithBlocks(code, 3)
           i == CondBr(n, N + 1, N + 2)
<1>1. N \in Nat /\ N + 3 \in Nat /\ current_block \in 1 .. N
      /\ current_block \in 1 .. N + 3 /\ N + 1 \in 1 .. N + 3
      /\ N + 2 \in 1 .. N + 3 /\ N + 3 \in 1 .. N + 3
      /\ N + 1 # current_block
  BY InvFacts
<1>2. /\ c \in CodeMap(N + 3) /\ AllTargetsIn(c, N + 3)
      /\ \A x \in 1 .. N : HasTerminator(c, x) <=> HasTerminator(code, x)
  BY InvFacts, WithBlocksProperties
<1>3. i \in Instruction /\ TargetsIn(i, N + 3) /\ i.op \in Terminators
  BY <1>1, BranchFacts
<1>4. /\ block_count' = N + 3 /\ code' = Emit(c, current_block, i)
      /\ current_block' = N + 1 /\ frames' = Append(frames, f)
      /\ loop_targets' = loop_targets /\ outcome' = "lowering"
  BY DEF LowerIf, New
<1> HIDE DEF c, i
<1>5. /\ code' \in CodeMap(N + 3) /\ AllTargetsIn(code', N + 3)
      /\ HasTerminator(code', current_block)
      /\ \A x \in 1 .. N + 3 \ {current_block} :
           HasTerminator(code', x) <=> HasTerminator(c, x)
  BY <1>1, <1>2, <1>3, <1>4, EmitProperties
<1>6. /\ f \in Frame /\ Owed(f) = {N + 2, N + 3}
      /\ {f.next, f.cond, f.end} \subseteq 1 .. N + 3
  BY <1>1 DEF Frame, Owed
<1> HIDE DEF f
<1>7. \A b \in 1 .. N \ {current_block} :
        HasTerminator(code, b) => HasTerminator(code', b)
  BY <1>1, <1>2, <1>5
<1>8. \A b \in 1 .. N + 3 : b \notin 1 .. N => b = N + 1 \/ b \in Owed(f)
  BY <1>1, <1>6
<1> QED
  BY <1>1, <1>4, <1>5, <1>6, <1>7, <1>8, OpenStep

\* irBuilderLowerWhileStatement up to its body keeps the invariant: the condition
\* block is terminated at once, the body is current, the end block is owed.
LEMMA WhileStep ==
  ASSUME LoweringInv, outcome = "lowering", NEW n \in Nat, cursor' = n, LowerWhile(n)
  PROVE  LoweringInv'
<1> DEFINE N == block_count
           f == [of |-> "while", src |-> n, update |-> FALSE,
                 next |-> N + 1, cond |-> N + 1, end |-> N + 3]
           t == [break |-> N + 3, continue |-> N + 1]
           c == WithBlocks(code, 3)
           d == Goto(c, current_block, N + 1)
           i == CondBr(n, N + 2, N + 3)
<1>1. N \in Nat /\ N + 3 \in Nat /\ current_block \in 1 .. N
      /\ current_block \in 1 .. N + 3 /\ N + 1 \in 1 .. N + 3
      /\ N + 2 \in 1 .. N + 3 /\ N + 3 \in 1 .. N + 3
      /\ N + 1 # current_block
  BY InvFacts
<1>2. /\ c \in CodeMap(N + 3) /\ AllTargetsIn(c, N + 3)
      /\ \A x \in 1 .. N : HasTerminator(c, x) <=> HasTerminator(code, x)
  BY InvFacts, WithBlocksProperties
<1>3. i \in Instruction /\ TargetsIn(i, N + 3) /\ i.op \in Terminators
  BY <1>1, BranchFacts
<1>4. /\ block_count' = N + 3 /\ code' = Emit(d, N + 1, i)
      /\ current_block' = N + 2 /\ frames' = Append(frames, f)
      /\ loop_targets' = Append(loop_targets, t) /\ outcome' = "lowering"
  BY DEF LowerWhile, New
<1> HIDE DEF c, i
<1>5. /\ d \in CodeMap(N + 3) /\ AllTargetsIn(d, N + 3)
      /\ HasTerminator(d, current_block)
      /\ \A x \in 1 .. N + 3 \ {current_block} :
           HasTerminator(d, x) <=> HasTerminator(c, x)
  BY <1>1, <1>2, GotoProperties
<1> HIDE DEF d
<1>6. /\ code' \in CodeMap(N + 3) /\ AllTargetsIn(code', N + 3)
      /\ HasTerminator(code', N + 1)
      /\ \A x \in 1 .. N + 3 \ {N + 1} :
           HasTerminator(code', x) <=> HasTerminator(d, x)
  BY <1>1, <1>3, <1>4, <1>5, EmitProperties
<1>7. /\ f \in Frame /\ Owed(f) = {N + 3}
      /\ {f.next, f.cond, f.end} \subseteq 1 .. N + 3
      /\ t \in LoopTarget /\ t.break \in 1 .. N + 3 /\ t.continue \in 1 .. N + 3
  BY <1>1 DEF Frame, Owed, LoopTarget
<1> HIDE DEF f, t
<1>8. /\ HasTerminator(code', current_block)
      /\ \A b \in 1 .. N \ {current_block} :
           HasTerminator(code, b) => HasTerminator(code', b)
  <2>1. \A b \in 1 .. N : b \in 1 .. N + 3 \ {N + 1}
    BY <1>1
  <2> QED
    BY <2>1, <1>1, <1>2, <1>5, <1>6
<1>9. \A b \in 1 .. N + 3 : b \notin 1 .. N =>
        HasTerminator(code', b) \/ b = N + 2 \/ b \in Owed(f)
  BY <1>1, <1>6, <1>7
<1> QED
  BY <1>1, <1>4, <1>6, <1>7, <1>8, <1>9, OpenStep

\* irBuilderLowerForStatement up to its body keeps the invariant: as for a while,
\* with the update block owed too.
LEMMA ForStep ==
  ASSUME LoweringInv, outcome = "lowering", NEW n \in Nat, cursor' = n,
         NEW h \in ForHeader, LowerFor(n, h)
  PROVE  LoweringInv'
<1> DEFINE N == block_count
           f == [of |-> "for", src |-> n, update |-> h.update,
                 next |-> N + 3, cond |-> N + 1, end |-> N + 4]
           t == [break |-> N + 4, continue |-> N + 3]
           a == IF h.init THEN Emit(code, current_block, Code("init", n)) ELSE code
           c == WithBlocks(a, 4)
           d == Goto(c, current_block, N + 1)
           i == IF h.cond THEN CondBr(n, N + 2, N + 4) ELSE Br(N + 2)
<1>1. N \in Nat /\ N + 4 \in Nat /\ current_block \in 1 .. N
      /\ current_block \in 1 .. N + 4 /\ N + 1 \in 1 .. N + 4
      /\ N + 2 \in 1 .. N + 4 /\ N + 3 \in 1 .. N + 4 /\ N + 4 \in 1 .. N + 4
      /\ N + 1 # current_block
  BY InvFacts
<1>2. /\ a \in CodeMap(N) /\ AllTargetsIn(a, N)
      /\ \A x \in 1 .. N \ {current_block} :
           HasTerminator(a, x) <=> HasTerminator(code, x)
  BY InvFacts, CodeFacts, EmitProperties
<1>3. /\ block_count' = N + 4 /\ code' = Emit(d, N + 1, i)
      /\ current_block' = N + 2 /\ frames' = Append(frames, f)
      /\ loop_targets' = Append(loop_targets, t) /\ outcome' = "lowering"
  BY DEF LowerFor, New
<1>4. i \in Instruction /\ TargetsIn(i, N + 4) /\ i.op \in Terminators
  BY <1>1, BranchFacts
<1> HIDE DEF a, i
<1>5. /\ c \in CodeMap(N + 4) /\ AllTargetsIn(c, N + 4)
      /\ \A x \in 1 .. N : HasTerminator(c, x) <=> HasTerminator(a, x)
  BY <1>1, <1>2, WithBlocksProperties
<1> HIDE DEF c
<1>6. /\ d \in CodeMap(N + 4) /\ AllTargetsIn(d, N + 4)
      /\ HasTerminator(d, current_block)
      /\ \A x \in 1 .. N + 4 \ {current_block} :
           HasTerminator(d, x) <=> HasTerminator(c, x)
  BY <1>1, <1>5, GotoProperties
<1> HIDE DEF d
<1>7. /\ code' \in CodeMap(N + 4) /\ AllTargetsIn(code', N + 4)
      /\ HasTerminator(code', N + 1)
      /\ \A x \in 1 .. N + 4 \ {N + 1} :
           HasTerminator(code', x) <=> HasTerminator(d, x)
  BY <1>1, <1>3, <1>4, <1>6, EmitProperties
<1>8. /\ f \in Frame /\ Owed(f) = {N + 3, N + 4}
      /\ {f.next, f.cond, f.end} \subseteq 1 .. N + 4
      /\ t \in LoopTarget /\ t.break \in 1 .. N + 4 /\ t.continue \in 1 .. N + 4
  BY <1>1 DEF Frame, Owed, LoopTarget, ForHeader
<1> HIDE DEF f, t
<1>9. /\ HasTerminator(code', current_block)
      /\ \A b \in 1 .. N \ {current_block} :
           HasTerminator(code, b) => HasTerminator(code', b)
  <2>1. \A b \in 1 .. N : b \in 1 .. N + 4 \ {N + 1}
    BY <1>1
  <2> QED
    BY <2>1, <1>1, <1>2, <1>5, <1>6, <1>7
<1>10. \A b \in 1 .. N + 4 : b \notin 1 .. N =>
        HasTerminator(code', b) \/ b = N + 2 \/ b \in Owed(f)
  BY <1>1, <1>7, <1>8
<1> QED
  BY <1>1, <1>3, <1>7, <1>8, <1>9, <1>10, OpenStep

\* The innermost frame, read out of the invariant.
LEMMA InnermostFacts ==
  ASSUME LoweringInv, outcome = "lowering", frames # <<>>
  PROVE  /\ InnermostFrame = frames[Len(frames)] /\ Len(frames) \in DOMAIN frames
         /\ InnermostFrame \in Frame /\ Last(frames) = InnermostFrame
         /\ InnermostFrame.next \in 1 .. block_count
         /\ InnermostFrame.cond \in 1 .. block_count
         /\ InnermostFrame.end \in 1 .. block_count
<1>1. /\ Last(frames) = frames[Len(frames)] /\ Len(frames) \in DOMAIN frames
      /\ Last(frames) \in Frame
  BY InvFacts, PopProperties
<1> QED
  BY <1>1, OwedFacts DEF InnermostFrame, FramesInRange, BlockId

\* Passing from the then branch to the else branch keeps the invariant: the else
\* block is no longer owed but current.
LEMMA ElseStep ==
  ASSUME LoweringInv, outcome = "lowering", cursor' \in Nat, LowerElse
  PROVE  LoweringInv'
<1> DEFINE f == InnermostFrame
           g == [f EXCEPT !.of = "else"]
<1>1. frames # <<>> /\ f.of = "then"
  BY DEF LowerElse
<1>2. /\ f = frames[Len(frames)] /\ Len(frames) \in DOMAIN frames /\ f \in Frame
      /\ f.next \in 1 .. block_count /\ f.end \in 1 .. block_count
  BY <1>1, InnermostFacts
<1>3. /\ code' = Goto(code, current_block, f.end)
      /\ current_block' = f.next
      /\ frames' = [frames EXCEPT ![Len(frames)] = g]
      /\ UNCHANGED <<block_count, loop_targets, outcome>>
  BY <1>2 DEF LowerElse
<1>4. /\ g \in Frame /\ g.next = f.next /\ g.cond = f.cond /\ g.end = f.end
      /\ Owed(f) = {f.next, f.end} /\ Owed(g) = {f.end}
  BY <1>1, <1>2 DEF Frame, Owed
<1> HIDE DEF f, g
<1>5. /\ code' \in CodeMap(block_count) /\ AllTargetsIn(code', block_count)
      /\ HasTerminator(code', current_block)
      /\ \A x \in 1 .. block_count \ {current_block} :
           HasTerminator(code', x) <=> HasTerminator(code, x)
  BY <1>2, <1>3, InvFacts, GotoProperties
<1>6. /\ frames' \in Seq(Frame) /\ DOMAIN frames' = DOMAIN frames
      /\ frames'[Len(frames)] = g
      /\ \A j \in DOMAIN frames : j # Len(frames) => frames'[j] = frames[j]
  BY <1>2, <1>3, <1>4, InvFacts
<1>7. FramesInRange'
  BY <1>2, <1>3, <1>4, <1>6, OwedFacts DEF FramesInRange, BlockId
<1>8. \A b \in 1 .. block_count :
        \/ HasTerminator(code', b)
        \/ b = f.next
        \/ \E j \in DOMAIN frames' : b \in Owed(frames'[j])
  <2> SUFFICES ASSUME NEW b \in 1 .. block_count, ~HasTerminator(code', b), b # f.next
               PROVE  \E j \in DOMAIN frames' : b \in Owed(frames'[j])
    OBVIOUS
  <2>1. PICK j \in DOMAIN frames : b \in Owed(frames[j])
    BY <1>5, OwedFacts
  <2> QED
    BY <2>1, <1>2, <1>4, <1>6
<1> QED
  BY <1>2, <1>3, <1>5, <1>6, <1>7, <1>8, InvFacts, StepKeepsInv

\* The end of an if keeps the invariant: the else block is terminated, with or
\* without an else branch, and the end block becomes current.
LEMMA EndIfStep ==
  ASSUME LoweringInv, outcome = "lowering", cursor' \in Nat, LowerEndIf
  PROVE  LoweringInv'
<1> DEFINE f == InnermostFrame
           c == Goto(code, current_block, f.end)
<1>1. /\ frames # <<>> /\ f.of \in {"then", "else"}
      /\ code' = IF f.of = "else" THEN c ELSE Goto(c, f.next, f.end)
      /\ current_block' = f.end /\ frames' = Front(frames)
      /\ UNCHANGED <<block_count, loop_targets, outcome>>
  BY DEF LowerEndIf
<1>2. /\ f \in Frame /\ Last(frames) = f
      /\ f.next \in 1 .. block_count /\ f.end \in 1 .. block_count
  BY <1>1, InnermostFacts
<1>3. Owed(f) = IF f.of = "then" THEN {f.next, f.end} ELSE {f.end}
  BY <1>1 DEF Owed
<1> HIDE DEF f
<1>4. /\ c \in CodeMap(block_count) /\ AllTargetsIn(c, block_count)
      /\ HasTerminator(c, current_block)
      /\ \A x \in 1 .. block_count : HasTerminator(code, x) => HasTerminator(c, x)
  BY <1>2, InvFacts, GotoProperties
<1> HIDE DEF c
<1>5. /\ code' \in CodeMap(block_count) /\ AllTargetsIn(code', block_count)
      /\ f.of = "then" => HasTerminator(code', f.next)
      /\ \A x \in 1 .. block_count : HasTerminator(c, x) => HasTerminator(code', x)
  <2>1. CASE f.of = "else"
    BY <2>1, <1>1, <1>4
  <2>2. CASE f.of = "then"
    <3>1. code' = Goto(c, f.next, f.end)
      BY <2>2, <1>1
    <3> QED
      BY <2>2, <3>1, <1>2, <1>4, InvFacts, GotoProperties
  <2> QED
    BY <2>1, <2>2, <1>1
<1>6. \A b \in Owed(f) : HasTerminator(code', b) \/ b = f.end
  BY <1>1, <1>3, <1>5
<1> QED
  BY <1>1, <1>2, <1>4, <1>5, <1>6, InvFacts, CloseStep

\* The end of a while keeps the invariant: its end block becomes current.
LEMMA EndWhileStep ==
  ASSUME LoweringInv, outcome = "lowering", cursor' \in Nat, LowerEndWhile
  PROVE  LoweringInv'
<1> DEFINE f == InnermostFrame
<1>1. /\ frames # <<>> /\ f.of = "while"
      /\ code' = Goto(code, current_block, f.next)
      /\ current_block' = f.end /\ frames' = Front(frames)
      /\ loop_targets' = Front(loop_targets)
      /\ UNCHANGED <<block_count, outcome>>
  BY DEF LowerEndWhile
<1>2. /\ Last(frames) = f
      /\ f.next \in 1 .. block_count /\ f.end \in 1 .. block_count
  BY <1>1, InnermostFacts
<1>3. Owed(f) = {f.end}
  BY <1>1 DEF Owed
<1> HIDE DEF f
<1>4. /\ code' \in CodeMap(block_count) /\ AllTargetsIn(code', block_count)
      /\ HasTerminator(code', current_block)
      /\ \A x \in 1 .. block_count : HasTerminator(code, x) => HasTerminator(code', x)
  BY <1>1, <1>2, InvFacts, GotoProperties
<1> QED
  BY <1>1, <1>2, <1>3, <1>4, CloseStep

\* The end of a for keeps the invariant: its update block is terminated and its
\* end block becomes current.
LEMMA EndForStep ==
  ASSUME LoweringInv, outcome = "lowering", cursor' \in Nat, LowerEndFor
  PROVE  LoweringInv'
<1> DEFINE f == InnermostFrame
           c == Goto(code, current_block, f.next)
           d == IF f.update THEN Emit(c, f.next, Code("update", f.src)) ELSE c
<1>1. /\ frames # <<>> /\ f.of = "for"
      /\ code' = Goto(d, f.next, f.cond)
      /\ current_block' = f.end /\ frames' = Front(frames)
      /\ loop_targets' = Front(loop_targets)
      /\ UNCHANGED <<block_count, outcome>>
  BY DEF LowerEndFor
<1>2. /\ f \in Frame /\ Last(frames) = f
      /\ f.next \in 1 .. block_count /\ f.end \in 1 .. block_count
      /\ f.cond \in 1 .. block_count
  BY <1>1, InnermostFacts
<1>3. Owed(f) = {f.next, f.end} /\ f.src \in Nat
  BY <1>1, <1>2 DEF Owed, Frame
<1> HIDE DEF f
<1>4. /\ c \in CodeMap(block_count) /\ AllTargetsIn(c, block_count)
      /\ HasTerminator(c, current_block)
      /\ \A x \in 1 .. block_count : HasTerminator(code, x) => HasTerminator(c, x)
  BY <1>2, InvFacts, GotoProperties
<1> HIDE DEF c
<1>5. /\ d \in CodeMap(block_count) /\ AllTargetsIn(d, block_count)
      /\ \A x \in 1 .. block_count \ {f.next} :
           HasTerminator(c, x) => HasTerminator(d, x)
  <2>1. CASE ~f.update
    BY <2>1, <1>4
  <2>2. CASE f.update
    <3> DEFINE i == Code("update", f.src)
    <3>1. d = Emit(c, f.next, i)
      BY <2>2
    <3>2. i \in Instruction /\ TargetsIn(i, block_count)
      BY <1>3, InvFacts, CodeFacts
    <3> HIDE DEF i, d
    <3> QED
      BY <3>1, <3>2, <1>2, <1>4, InvFacts, EmitProperties
  <2> QED
    BY <2>1, <2>2
<1> HIDE DEF d
<1>6. /\ code' \in CodeMap(block_count) /\ AllTargetsIn(code', block_count)
      /\ HasTerminator(code', f.next)
      /\ \A x \in 1 .. block_count \ {f.next} :
           HasTerminator(d, x) => HasTerminator(code', x)
  BY <1>1, <1>2, <1>5, InvFacts, GotoProperties
<1>7. /\ HasTerminator(code', current_block)
      /\ \A x \in 1 .. block_count : HasTerminator(code, x) => HasTerminator(code', x)
  BY <1>4, <1>5, <1>6, InvFacts
<1>8. \A b \in Owed(f) : HasTerminator(code', b) \/ b = f.end
  BY <1>3, <1>6
<1> QED
  BY <1>1, <1>2, <1>6, <1>7, <1>8, CloseStep

\* The default return terminates the last open block of the function.
LEMMA FunctionEndStep ==
  ASSUME LoweringInv, LowerFunctionEnd
  PROVE  LoweringInv'
<1>1. /\ outcome = "lowering" /\ frames = <<>> /\ outcome' = "done"
      /\ UNCHANGED <<cursor, block_count, current_block, loop_targets, frames>>
  BY DEF LowerFunctionEnd
<1>2. Code("ret", 0) \in Instruction /\ TargetsIn(Code("ret", 0), block_count)
      /\ Code("ret", 0).op \in Terminators
  BY InvFacts, CodeFacts DEF Terminators
<1>3. /\ code' \in CodeMap(block_count) /\ AllTargetsIn(code', block_count)
      /\ HasTerminator(code', current_block)
      /\ \A x \in 1 .. block_count : HasTerminator(code, x) => HasTerminator(code', x)
  BY <1>2, InvFacts, EmitProperties DEF LowerFunctionEnd
<1>4. \A b \in 1 .. block_count : HasTerminator(code, b) \/ b = current_block
  <2>1. DOMAIN frames = {}
    BY <1>1, EmptySeq, LenProperties
  <2> QED
    BY <1>1, <2>1, OwedFacts
<1>5. LoweringTypeOK'
  BY <1>1, <1>3 DEF LoweringInv, LoweringTypeOK, BlockId, CodeMap
<1>6. BranchTargetsExist'
  BY <1>1, <1>3 DEF BranchTargetsExist, BlockId, AllTargetsIn, TargetsIn
<1>7. LoweringInd'
  BY <1>1, OwedFacts DEF LoweringInd, FramesInRange, OpenBlocksOwed, BlockId
<1>8. EveryBlockTerminated'
  BY <1>1, <1>3, <1>4 DEF EveryBlockTerminated, BlockId
<1> QED
  BY <1>5, <1>6, <1>7, <1>8 DEF LoweringInv

-----------------------------------------------------------------------------
(* The theorems. *)

\* irBuilderLowerFunctionBody starts with one empty block, the current one.
LEMMA InitEstablishesInv == LoweringInit => LoweringInv
<1> SUFFICES ASSUME LoweringInit PROVE LoweringInv
  OBVIOUS
<1> USE DEF LoweringInit
<1>1. <<>> \in Seq(Instruction) /\ <<>> \in Seq(LoopTarget) /\ <<>> \in Seq(Frame)
      /\ DOMAIN <<>> = {} /\ BlockId = {1} /\ code[1] = <<>>
  BY DEF BlockId
<1>2. LoweringTypeOK
  BY <1>1 DEF LoweringTypeOK
<1>3. BranchTargetsExist
  BY <1>1 DEF BranchTargetsExist
<1>4. LoweringInd
  BY <1>1 DEF LoweringInd, FramesInRange, OpenBlocksOwed
<1>5. EveryBlockTerminated
  BY DEF EveryBlockTerminated
<1> QED
  BY <1>2, <1>3, <1>4, <1>5 DEF LoweringInv

\* Visiting any item of a body keeps the invariant, one case per lowering
\* function that irBuilderLowerStatement dispatches to.
LEMMA ItemStep ==
  ASSUME LoweringInv, NEW n \in Nat, NEW e \in Item, Lower(n, e)
  PROVE  LoweringInv'
<1>1. outcome = "lowering" /\ cursor' = n
  BY DEF Lower
<1>2. LowerItem(n, e) \/ LowerFails(e)
  BY DEF Lower
<1>3. CASE LowerFails(e)
  BY <1>1, <1>3, IdleStep DEF LowerFails
<1>4. CASE LowerSimple(n)
  <2>1. Code("stmt", n) \in Instruction /\ TargetsIn(Code("stmt", n), block_count)
    BY <1>1, InvFacts, CodeFacts
  <2> QED
    BY <1>1, <1>4, <2>1, EmitStep DEF LowerSimple
<1>5. CASE LowerNothing
  BY <1>1, <1>5, IdleStep DEF LowerNothing
<1>6. CASE LowerReturn(n)
  <2>1. Code("ret", n) \in Instruction /\ TargetsIn(Code("ret", n), block_count)
    BY <1>1, InvFacts, CodeFacts
  <2> QED
    BY <1>1, <1>6, <2>1, EmitStep DEF LowerReturn
<1>7. CASE e.op \in {"break", "continue"} /\ LowerJump(e.op)
  BY <1>1, <1>7, JumpStep
<1>8. CASE LowerIf(n)
  BY <1>1, <1>8, IfStep
<1>9. CASE LowerElse
  BY <1>1, <1>9, ElseStep
<1>10. CASE LowerEndIf
  BY <1>1, <1>10, EndIfStep
<1>11. CASE LowerWhile(n)
  BY <1>1, <1>11, WhileStep
<1>12. CASE LowerEndWhile
  BY <1>1, <1>12, EndWhileStep
<1>13. CASE e.op = "for" /\ LowerFor(n, e.header)
  <2>1. PICK h \in ForHeaders : e = For(h)
    BY <1>13 DEF Item, SimpleItem, OpenItem, CloseOps, Plain, Ret, Func
  <2>2. e.header \in ForHeader
    BY <2>1, ForHeadersAssumption DEF For
  <2> QED
    BY <1>1, <1>13, <2>2, ForStep
<1>14. CASE LowerEndFor
  BY <1>1, <1>14, EndForStep
<1> QED
  BY <1>2, <1>3, <1>4, <1>5, <1>6, <1>7, <1>8, <1>9, <1>10, <1>11, <1>12,
     <1>13, <1>14 DEF LowerItem

\* Every step of the lowering, of whichever statement, keeps the invariant.
LEMMA NextKeepsInv == LoweringInv /\ [LoweringNext]_loweringVars => LoweringInv'
<1> SUFFICES ASSUME LoweringInv, [LoweringNext]_loweringVars
             PROVE  LoweringInv'
  OBVIOUS
<1>1. ASSUME NEW e \in Item, Lower(cursor + 1, e)
      PROVE  LoweringInv'
  BY <1>1, ItemStep DEF LoweringInv, LoweringTypeOK
<1>2. CASE LowerFunctionEnd
  BY <1>2, FunctionEndStep
<1>3. CASE UNCHANGED loweringVars
  BY <1>3 DEF loweringVars, LoweringInv, LoweringTypeOK, BranchTargetsExist,
     LoweringInd, FramesInRange, OpenBlocksOwed, EveryBlockTerminated, BlockId,
     HasTerminator
<1> QED
  BY <1>1, <1>2, <1>3 DEF LoweringNext, LoweringOver

\* The invariant holds throughout the lowering of every function body.
THEOREM LoweringInvariant == LoweringSpec => []LoweringInv
BY InitEstablishesInv, NextKeepsInv, PTL DEF LoweringSpec

\* The lowering state is well typed: in particular builder->current_block is
\* always a block of the function.
THEOREM LoweringTyped == LoweringSpec => []LoweringTypeOK
<1>1. LoweringInv => LoweringTypeOK
  BY DEF LoweringInv
<1> QED
  BY <1>1, LoweringInvariant, PTL

\* No br or conditional br emitted by ir_builder_stmt.c names a block that the
\* function does not have, for every body and every order of jumps and blocks.
THEOREM NoDanglingBranch == LoweringSpec => []BranchTargetsExist
<1>1. LoweringInv => BranchTargetsExist
  BY DEF LoweringInv
<1> QED
  BY <1>1, LoweringInvariant, PTL

\* A block without a terminator is the current one or one a lowering function
\* on the call stack still has to fill, and every pending target exists.
THEOREM OpenBlocksAccountedFor == LoweringSpec => []LoweringInd
<1>1. LoweringInv => LoweringInd
  BY DEF LoweringInv
<1> QED
  BY <1>1, LoweringInvariant, PTL

\* When irBuilderLowerFunctionBody returns, every basic block of the function
\* ends with a terminator, as LLVM requires of the printed module.
THEOREM FinishedFunctionTerminated == LoweringSpec => []EveryBlockTerminated
<1>1. LoweringInv => EveryBlockTerminated
  BY DEF LoweringInv
<1> QED
  BY <1>1, LoweringInvariant, PTL

-----------------------------------------------------------------------------
(* The stack of loop targets. *)

Matches(fs, ts) ==
  /\ Len(ts) = Cardinality(LoopsOf(fs))
  /\ \A k \in LoopsOf(fs) :
       ts[Cardinality(LoopsOf(fs) \cap 1 .. k)]
         = [break |-> fs[k].end, continue |-> fs[k].next]

\* Positions of a sequence are finitely many.
LEMMA PositionsFinite ==
  ASSUME NEW n \in Int, NEW S, S \subseteq 1 .. n
  PROVE  IsFiniteSet(S)
<1>1. IsFiniteSet(1 .. n)
  BY FS_Interval
<1> QED
  BY <1>1, FS_Subset

\* The place of a loop target is one of the stack.
LEMMA RankRange ==
  ASSUME NEW fs \in Seq(Frame), NEW k \in LoopsOf(fs)
  PROVE  /\ IsFiniteSet(LoopsOf(fs)) /\ Cardinality(LoopsOf(fs)) \in Nat
         /\ Cardinality(LoopsOf(fs) \cap 1 .. k) \in 1 .. Cardinality(LoopsOf(fs))
<1>1. LoopsOf(fs) \subseteq 1 .. Len(fs) /\ Len(fs) \in Nat
  BY DEF LoopsOf
<1>2. IsFiniteSet(LoopsOf(fs))
  BY <1>1, PositionsFinite
<1>3. /\ IsFiniteSet(LoopsOf(fs) \cap 1 .. k)
      /\ Cardinality(LoopsOf(fs) \cap 1 .. k) <= Cardinality(LoopsOf(fs))
  BY <1>2, FS_Subset
<1>4. k \in LoopsOf(fs) \cap 1 .. k
  BY <1>1
<1>5. Cardinality(LoopsOf(fs) \cap 1 .. k) # 0
  BY <1>3, <1>4, FS_EmptySet
<1> QED
  BY <1>2, <1>3, <1>5, FS_CardinalityType

\* A loop is pushed together with its target.
LEMMA MatchPushLoop ==
  ASSUME NEW fs \in Seq(Frame), NEW ts \in Seq(LoopTarget), Matches(fs, ts),
         NEW f \in Frame, f.of \in LoopOps
  PROVE  Matches(Append(fs, f), Append(ts, [break |-> f.end, continue |-> f.next]))
<1> DEFINE gs == Append(fs, f)
           t == [break |-> f.end, continue |-> f.next]
           N == Len(fs) + 1
<1>1. t \in LoopTarget
  BY DEF Frame, LoopTarget
<1>2. /\ gs \in Seq(Frame) /\ DOMAIN gs = 1 .. N /\ DOMAIN fs = 1 .. Len(fs) /\ Len(fs) \in Nat
      /\ gs[N] = f /\ \A k \in 1 .. Len(fs) : gs[k] = fs[k]
  OBVIOUS
<1>3. LoopsOf(gs) = LoopsOf(fs) \cup {N} /\ N \notin LoopsOf(fs) /\ LoopsOf(fs) \subseteq 1 .. Len(fs)
  BY <1>2 DEF LoopsOf
<1>4. IsFiniteSet(LoopsOf(fs))
  BY <1>2, <1>3, PositionsFinite
<1>5. Cardinality(LoopsOf(gs)) = Cardinality(LoopsOf(fs)) + 1 /\ Cardinality(LoopsOf(fs)) \in Nat
  BY <1>3, <1>4, FS_AddElement, FS_CardinalityType
<1>6. LoopsOf(gs) \cap 1 .. N = LoopsOf(gs)
  BY <1>2, <1>3
<1>7. \A k \in LoopsOf(fs) : LoopsOf(gs) \cap 1 .. k = LoopsOf(fs) \cap 1 .. k
  BY <1>2, <1>3
<1>8. /\ Len(Append(ts, t)) = Len(ts) + 1 /\ Append(ts, t)[Len(ts) + 1] = t
      /\ \A k \in 1 .. Len(ts) : Append(ts, t)[k] = ts[k]
  BY <1>1
<1> HIDE DEF gs, t, N
<1>9. ASSUME NEW k \in LoopsOf(gs)
      PROVE  Append(ts, t)[Cardinality(LoopsOf(gs) \cap 1 .. k)]
               = [break |-> gs[k].end, continue |-> gs[k].next]
  <2>1. CASE k = N
    BY <2>1, <1>2, <1>5, <1>6, <1>8 DEF Matches, t
  <2>2. CASE k \in LoopsOf(fs)
    BY <2>2, <1>2, <1>3, <1>7, <1>8, RankRange DEF Matches
  <2> QED
    BY <2>1, <2>2, <1>3
<1> QED
  BY <1>5, <1>8, <1>9 DEF Matches, gs, t

\* An if is pushed without one.
LEMMA MatchPushIf ==
  ASSUME NEW fs \in Seq(Frame), NEW ts, Matches(fs, ts), NEW f \in Frame, f.of \notin LoopOps
  PROVE  Matches(Append(fs, f), ts)
<1> DEFINE gs == Append(fs, f)
           N == Len(fs) + 1
<1>1. /\ DOMAIN gs = 1 .. N /\ DOMAIN fs = 1 .. Len(fs) /\ Len(fs) \in Nat
      /\ gs[N] = f /\ \A k \in 1 .. Len(fs) : gs[k] = fs[k]
  OBVIOUS
<1>2. LoopsOf(gs) = LoopsOf(fs) /\ LoopsOf(fs) \subseteq 1 .. Len(fs)
  BY <1>1 DEF LoopsOf
<1> HIDE DEF gs, N
<1> QED
  BY <1>1, <1>2 DEF Matches, gs

\* A loop is popped together with its target.
LEMMA MatchPopLoop ==
  ASSUME NEW fs \in Seq(Frame), fs # <<>>, NEW ts \in Seq(LoopTarget), Matches(fs, ts),
         Last(fs).of \in LoopOps
  PROVE  Matches(Front(fs), Front(ts))
<1> DEFINE gs == Front(fs)
           N == Len(fs)
<1>1. /\ N \in Nat \ {0} /\ DOMAIN fs = 1 .. N /\ Last(fs) = fs[N]
      /\ gs \in Seq(Frame) /\ DOMAIN gs = 1 .. N - 1 /\ \A k \in 1 .. N - 1 : gs[k] = fs[k]
  BY PopProperties, EmptySeq
<1> HIDE DEF gs, N
<1>2. /\ LoopsOf(fs) = LoopsOf(gs) \cup {N} /\ N \notin LoopsOf(gs)
      /\ LoopsOf(gs) \subseteq 1 .. N - 1
  BY <1>1 DEF LoopsOf
<1>3. IsFiniteSet(LoopsOf(gs))
  <2>1. N - 1 \in Int
    BY <1>1
  <2> QED
    BY <1>2, <2>1, PositionsFinite
<1>4. Cardinality(LoopsOf(fs)) = Cardinality(LoopsOf(gs)) + 1 /\ Cardinality(LoopsOf(gs)) \in Nat
  BY <1>2, <1>3, FS_AddElement, FS_CardinalityType
<1>5. \A k \in LoopsOf(gs) : LoopsOf(fs) \cap 1 .. k = LoopsOf(gs) \cap 1 .. k
  BY <1>1, <1>2
<1>6. Len(ts) = Cardinality(LoopsOf(gs)) + 1 /\ ts # <<>>
  BY <1>4, EmptySeq DEF Matches
<1>7. /\ Front(ts) \in Seq(LoopTarget) /\ DOMAIN Front(ts) = 1 .. Len(ts) - 1
      /\ \A k \in 1 .. Len(ts) - 1 : Front(ts)[k] = ts[k]
  BY <1>6, PopProperties
<1>8. Len(Front(ts)) = Cardinality(LoopsOf(gs))
  BY <1>4, <1>6, <1>7
<1>9. ASSUME NEW k \in LoopsOf(gs)
      PROVE  Front(ts)[Cardinality(LoopsOf(gs) \cap 1 .. k)]
               = [break |-> gs[k].end, continue |-> gs[k].next]
  <2>1. Cardinality(LoopsOf(gs) \cap 1 .. k) \in 1 .. Len(ts) - 1
    BY <1>1, <1>4, <1>6, RankRange
  <2> QED
    BY <2>1, <1>1, <1>2, <1>5, <1>7 DEF Matches
<1> QED
  BY <1>8, <1>9 DEF Matches, gs

\* An if is popped alone.
LEMMA MatchPopIf ==
  ASSUME NEW fs \in Seq(Frame), fs # <<>>, NEW ts, Matches(fs, ts), Last(fs).of \notin LoopOps
  PROVE  Matches(Front(fs), ts)
<1> DEFINE gs == Front(fs)
           N == Len(fs)
<1>1. /\ N \in Nat \ {0} /\ DOMAIN fs = 1 .. N /\ Last(fs) = fs[N]
      /\ DOMAIN gs = 1 .. N - 1 /\ \A k \in 1 .. N - 1 : gs[k] = fs[k]
  BY PopProperties, EmptySeq
<1> HIDE DEF gs, N
<1>2. LoopsOf(gs) = LoopsOf(fs) /\ LoopsOf(fs) \subseteq 1 .. N - 1
  BY <1>1 DEF LoopsOf
<1> QED
  BY <1>1, <1>2 DEF Matches, gs

\* Every lowering function pushes as many targets as loops, and pops what it
\* pushed.
LEMMA ItemKeepsTargets ==
  ASSUME LoweringInv, LoopTargetsMatchLoops, NEW n \in Nat, NEW e \in Item, Lower(n, e)
  PROVE  LoopTargetsMatchLoops'
<1>1. /\ outcome = "lowering" /\ Matches(frames, loop_targets)
      /\ loop_targets \in Seq(LoopTarget) /\ frames \in Seq(Frame)
      /\ block_count \in Nat
  BY InvFacts DEF Lower, LoopTargetsMatchLoops, Matches
<1> SUFFICES ASSUME outcome' = "lowering" PROVE Matches(frames', loop_targets')
  BY DEF LoopTargetsMatchLoops, Matches, LoopsOf
<1>2. LowerItem(n, e)
  BY DEF Lower, LowerFails
<1>3. CASE LowerSimple(n) \/ LowerNothing \/ LowerReturn(n) \/ LowerJump(e.op)
  BY <1>1, <1>3 DEF LowerSimple, LowerNothing, LowerReturn, LowerJump
<1>4. CASE LowerIf(n)
  <2> DEFINE f == [of |-> "then", src |-> n, update |-> FALSE,
                   next |-> New(2), cond |-> New(3), end |-> New(3)]
  <2>1. f \in Frame /\ f.of \notin LoopOps
    BY <1>1 DEF Frame, New, LoopOps
  <2>2. frames' = Append(frames, f) /\ loop_targets' = loop_targets
    BY <1>4 DEF LowerIf
  <2> HIDE DEF f
  <2> QED
    BY <1>1, <2>1, <2>2, MatchPushIf
<1>5. CASE LowerElse
  <2> DEFINE N == Len(frames)
  <2>1. N \in DOMAIN frames /\ frames[N].of = "then" /\ frames \in Seq(Frame)
    BY <1>1, <1>5, PopProperties DEF LowerElse, InnermostFrame
  <2>2. /\ loop_targets' = loop_targets /\ DOMAIN frames' = DOMAIN frames
        /\ \A k \in DOMAIN frames \ {N} : frames'[k] = frames[k]
        /\ frames'[N].of = "else"
    <3>1. frames[N] \in Frame
      BY <2>1
    <3> QED
      BY <1>5, <2>1, <3>1 DEF LowerElse, Frame
  <2>3. /\ LoopsOf(frames') = LoopsOf(frames)
        /\ \A k \in LoopsOf(frames) : frames'[k] = frames[k]
    BY <2>1, <2>2 DEF LoopsOf, LoopOps
  <2> QED
    BY <1>1, <2>2, <2>3 DEF Matches
<1>6. CASE LowerEndIf
  <2>1. Last(frames).of \notin LoopOps /\ frames # <<>>
    BY <1>6 DEF LowerEndIf, InnermostFrame, LoopOps
  <2> QED
    BY <1>1, <1>6, <2>1, MatchPopIf DEF LowerEndIf
<1>7. CASE LowerWhile(n)
  <2> DEFINE f == [of |-> "while", src |-> n, update |-> FALSE,
                   next |-> New(1), cond |-> New(1), end |-> New(3)]
  <2>1. f \in Frame /\ f.of \in LoopOps /\ f.end = New(3) /\ f.next = New(1)
    BY <1>1 DEF Frame, New, LoopOps
  <2>2. /\ frames' = Append(frames, f)
        /\ loop_targets' = Append(loop_targets, [break |-> New(3), continue |-> New(1)])
    BY <1>7 DEF LowerWhile
  <2> HIDE DEF f
  <2> QED
    BY <1>1, <2>1, <2>2, MatchPushLoop
<1>8. CASE LowerEndWhile \/ LowerEndFor
  <2>1. Last(frames).of \in LoopOps /\ frames # <<>>
    BY <1>8 DEF LowerEndWhile, LowerEndFor, InnermostFrame, LoopOps
  <2> QED
    BY <1>1, <1>8, <2>1, MatchPopLoop DEF LowerEndWhile, LowerEndFor
<1>9. CASE e.op = "for" /\ LowerFor(n, e.header)
  <2>1. PICK h \in ForHeaders : e = For(h)
    BY <1>9 DEF Item, SimpleItem, OpenItem, CloseOps, Plain, Ret, Func
  <2> DEFINE f == [of |-> "for", src |-> n, update |-> e.header.update,
                   next |-> New(3), cond |-> New(1), end |-> New(4)]
  <2>2. e.header.update \in BOOLEAN
    BY <2>1, ForHeadersAssumption DEF For, ForHeader
  <2>3. f \in Frame /\ f.of \in LoopOps /\ f.end = New(4) /\ f.next = New(3)
    BY <1>1, <2>2 DEF Frame, New, LoopOps
  <2>4. /\ frames' = Append(frames, f)
        /\ loop_targets' = Append(loop_targets, [break |-> New(4), continue |-> New(3)])
    BY <1>9 DEF LowerFor
  <2> HIDE DEF f
  <2> QED
    BY <1>1, <2>3, <2>4, MatchPushLoop
<1> QED
  BY <1>2, <1>3, <1>4, <1>5, <1>6, <1>7, <1>8, <1>9 DEF LowerItem

\* break and continue of a body being lowered always mean the innermost loop
\* around them: the targets that irBuilderPushLoopTarget and
\* irBuilderPopLoopTarget keep are those of the loops on the call stack.
THEOREM LoopTargetsAlwaysMatch == LoweringSpec => []LoopTargetsMatchLoops
<1>1. LoweringInit => LoopTargetsMatchLoops
  <2> SUFFICES ASSUME LoweringInit PROVE Len(<<>>) = Cardinality({})
    <3>1. LoopsOf(<<>>) = {}
      BY DEF LoopsOf
    <3> QED
      BY <3>1 DEF LoweringInit, LoopTargetsMatchLoops
  <2> QED
    BY FS_EmptySet
<1>2. LoweringInv /\ LoopTargetsMatchLoops /\ [LoweringNext]_loweringVars
        => LoopTargetsMatchLoops'
  <2> SUFFICES ASSUME LoweringInv, LoopTargetsMatchLoops, [LoweringNext]_loweringVars
               PROVE  LoopTargetsMatchLoops'
    OBVIOUS
  <2>1. ASSUME NEW e \in Item, Lower(cursor + 1, e)
        PROVE  LoopTargetsMatchLoops'
    BY <2>1, ItemKeepsTargets DEF LoweringInv, LoweringTypeOK
  <2>2. CASE LowerFunctionEnd
    BY <2>2 DEF LowerFunctionEnd, LoopTargetsMatchLoops
  <2>3. CASE UNCHANGED loweringVars
    BY <2>3 DEF loweringVars, LoopTargetsMatchLoops, LoopsOf
  <2> QED
    BY <2>1, <2>2, <2>3 DEF LoweringNext, LoweringOver
<1> QED
  BY <1>1, <1>2, LoweringInvariant, PTL DEF LoweringSpec

-----------------------------------------------------------------------------
(* Depth and Close *)

\* A set of naturals that is not empty has a least element.
LEMMA LeastExists ==
  ASSUME NEW S \in SUBSET Nat, S # {}
  PROVE  /\ Min(S) \in S
         /\ \A y \in S : Min(S) <= y
<1> DEFINE R == OpToRel(<, Nat)
<1>1. IsWellFoundedOn(R, Nat)
  BY NatLessThanWellFounded
<1>2. \A x, y \in Nat : <<x, y>> \in R <=> x < y
  BY DEF OpToRel
<1> HIDE DEF R
<1>3. PICK x \in S : \A y \in S : ~(<<y, x>> \in R)
  BY <1>1, WFMin
<1>4. ASSUME NEW y \in S PROVE x <= y
  <2>1. x \in Nat /\ y \in Nat /\ ~(<<y, x>> \in R)
    BY <1>3
  <2>2. ~(y < x)
    BY <1>2, <2>1
  <2> QED
    BY <2>1, <2>2
<1> QED
  BY <1>4 DEF Min

\* A body's depth changes by one where a compound statement opens or closes.
LEMMA DepthNext ==
  ASSUME NEW p, NEW n \in Nat \ {0}
  PROVE  /\ Depth(p, n) \in Int
         /\ Depth(p, 1) = 0
         /\ p[n].op \in OpenOps => Depth(p, n + 1) = Depth(p, n) + 1
         /\ p[n].op \in CloseOps => Depth(p, n + 1) = Depth(p, n) - 1
         /\ p[n].op \notin OpenOps \cup CloseOps => Depth(p, n + 1) = Depth(p, n)
<1> DEFINE O(k) == {m \in 1 .. k - 1 : p[m].op \in OpenOps}
           C(k) == {m \in 1 .. k - 1 : p[m].op \in CloseOps}
<1>1. \A k \in Nat \ {0} : /\ IsFiniteSet(O(k)) /\ Cardinality(O(k)) \in Nat
                           /\ IsFiniteSet(C(k)) /\ Cardinality(C(k)) \in Nat
  <2> SUFFICES ASSUME NEW k \in Nat \ {0}
               PROVE  /\ IsFiniteSet(O(k)) /\ Cardinality(O(k)) \in Nat
                      /\ IsFiniteSet(C(k)) /\ Cardinality(C(k)) \in Nat
    OBVIOUS
  <2>1. k - 1 \in Int /\ O(k) \subseteq 1 .. k - 1 /\ C(k) \subseteq 1 .. k - 1
    OBVIOUS
  <2>2. IsFiniteSet(O(k)) /\ IsFiniteSet(C(k))
    BY <2>1, PositionsFinite
  <2> QED
    BY <2>2, FS_CardinalityType
<1>2. \A k : Depth(p, k) = Cardinality(O(k)) - Cardinality(C(k))
  BY DEF Depth
<1>3. (n + 1) - 1 = n /\ 1 .. n = (1 .. n - 1) \cup {n} /\ n \notin 1 .. n - 1
  OBVIOUS
<1>4. /\ p[n].op \in OpenOps => O(n + 1) = O(n) \cup {n} /\ n \notin O(n)
      /\ p[n].op \notin OpenOps => O(n + 1) = O(n)
      /\ p[n].op \in CloseOps => C(n + 1) = C(n) \cup {n} /\ n \notin C(n)
      /\ p[n].op \notin CloseOps => C(n + 1) = C(n)
  BY <1>3
<1>5. O(1) = {} /\ C(1) = {}
  OBVIOUS
<1>6. OpenOps \cap CloseOps = {}
  BY DEF OpenOps, CloseOps
<1> HIDE DEF O, C
<1>7. /\ p[n].op \in OpenOps => Cardinality(O(n + 1)) = Cardinality(O(n)) + 1
      /\ p[n].op \notin OpenOps => Cardinality(O(n + 1)) = Cardinality(O(n))
      /\ p[n].op \in CloseOps => Cardinality(C(n + 1)) = Cardinality(C(n)) + 1
      /\ p[n].op \notin CloseOps => Cardinality(C(n + 1)) = Cardinality(C(n))
  BY <1>1, <1>4, FS_AddElement
<1>8. Depth(p, 1) = 0
  BY <1>2, <1>5, FS_EmptySet
<1>9. Depth(p, n) \in Int
  BY <1>1, <1>2
<1> QED
  BY <1>1, <1>2, <1>6, <1>7, <1>8, <1>9

\* Depth only looks at what comes before.
LEMMA DepthPrefix ==
  ASSUME NEW p, NEW q, NEW n, \A m \in 1 .. n - 1 : q[m] = p[m]
  PROVE  Depth(q, n) = Depth(p, n)
<1>1. /\ {m \in 1 .. n - 1 : q[m].op \in OpenOps} = {m \in 1 .. n - 1 : p[m].op \in OpenOps}
      /\ {m \in 1 .. n - 1 : q[m].op \in CloseOps} = {m \in 1 .. n - 1 : p[m].op \in CloseOps}
  OBVIOUS
<1> QED
  BY <1>1 DEF Depth

\* Position n is inside the compound statement that m opens.
Inside(p, m, n) ==
  /\ m \in 1 .. n - 1
  /\ p[m].op \in OpenOps
  /\ \A j \in m + 1 .. n : Depth(p, j) > Depth(p, m)

\* What position n + 1 is inside of.
LEMMA InsideNext ==
  ASSUME NEW p, NEW n \in Nat \ {0}, NEW m
  PROVE  Inside(p, m, n + 1) <=>
           \/ m = n /\ p[n].op \in OpenOps
           \/ Inside(p, m, n) /\ Depth(p, n + 1) > Depth(p, m)
<1>1. CASE m = n
  <2>1. m \in 1 .. (n + 1) - 1 /\ m + 1 .. n + 1 = {n + 1} /\ m \notin 1 .. n - 1
    BY <1>1
  <2>2. p[n].op \in OpenOps => Depth(p, n + 1) > Depth(p, n)
    BY DepthNext
  <2> QED
    BY <1>1, <2>1, <2>2 DEF Inside
<1>2. CASE m # n
  <2>1. m \in 1 .. (n + 1) - 1 <=> m \in 1 .. n - 1
    BY <1>2
  <2> SUFFICES ASSUME m \in 1 .. n - 1
               PROVE  Inside(p, m, n + 1) <=> Inside(p, m, n) /\ Depth(p, n + 1) > Depth(p, m)
    BY <1>2, <2>1 DEF Inside
  <2>2. m + 1 .. n + 1 = (m + 1 .. n) \cup {n + 1}
    OBVIOUS
  <2> QED
    BY <2>1, <2>2 DEF Inside
<1> QED
  BY <1>1, <1>2

\* The statement that m opens is closed before n exactly when n is not inside
\* it, provided it is closed at all: the end of the body is not deeper than m.
LEMMA CloseBefore ==
  ASSUME NEW p \in Seq(Item), NEW m \in DOMAIN p, p[m].op \in OpenOps,
         Depth(p, Len(p) + 1) <= Depth(p, m)
  PROVE  /\ Close(p, m) \in m + 1 .. Len(p)
         /\ p[Close(p, m)].op \in CloseOps
         /\ Depth(p, Close(p, m) + 1) = Depth(p, m)
         /\ \A j \in m + 1 .. Close(p, m) : Depth(p, j) > Depth(p, m)
         /\ \A n \in m + 1 .. Len(p) + 1 : Inside(p, m, n) <=> ~(Close(p, m) < n)
<1> DEFINE D(k) == Depth(p, k)
           S == {c \in m + 1 .. Len(p) : p[c].op \in CloseOps /\ D(c) = D(m) + 1}
           L == Len(p)
<1>1. m \in 1 .. L /\ L \in Nat /\ m \in Nat \ {0}
  OBVIOUS
<1>2. \A k \in 1 .. L + 1 : D(k) \in Int
  BY <1>1, DepthNext
<1>3. D(m + 1) = D(m) + 1
  BY <1>1, DepthNext
<1>4. \A c \in S : D(c + 1) = D(m)
  BY <1>1, <1>2, DepthNext
<1> HIDE DEF D, L
<1>5. ASSUME NEW n \in m + 1 .. L + 1, D(n) <= D(m)
      PROVE  \E c \in S : /\ c < n
                          /\ \A j \in m + 1 .. c : D(j) > D(m)
  <2> DEFINE T == {j \in m + 1 .. n : D(j) <= D(m)}
  <2>1. T \subseteq Nat /\ n \in T
    BY <1>1, <1>5
  <2>2. PICK j \in T : \A i \in T : j <= i
    <3> HIDE DEF T
    <3> QED
      BY <2>1, LeastExists
  <2>3. j # m + 1
    BY <1>1, <1>2, <1>3, <2>2
  <2>4. j - 1 \in m + 1 .. n /\ j - 1 < j /\ j - 1 \in 1 .. L /\ j - 1 \in Nat \ {0} /\ (j - 1) + 1 = j
    BY <1>1, <2>2, <2>3
  <2>5. \A i \in m + 1 .. j - 1 : D(i) > D(m)
    BY <1>1, <1>2, <2>2
  <2>6. /\ p[j - 1].op \in OpenOps => D(j) = D(j - 1) + 1
        /\ p[j - 1].op \in CloseOps => D(j) = D(j - 1) - 1
        /\ p[j - 1].op \notin OpenOps \cup CloseOps => D(j) = D(j - 1)
    BY <2>4, DepthNext DEF D
  <2>7. D(j - 1) \in Int /\ D(m) \in Int /\ D(j) \in Int /\ D(j) <= D(m) /\ D(j - 1) > D(m)
    BY <1>1, <1>2, <2>2, <2>4, <2>5
  <2>8. p[j - 1].op \in CloseOps /\ D(j - 1) = D(m) + 1
    BY <2>6, <2>7
  <2>9. j - 1 \in S /\ j - 1 < n
    BY <1>1, <2>2, <2>4, <2>8 DEF L
  <2> QED
    BY <2>5, <2>9
<1>6. S \subseteq Nat /\ S # {}
  <2>1. L + 1 \in m + 1 .. L + 1 /\ D(L + 1) <= D(m)
    BY <1>1 DEF L, D
  <2> QED
    BY <1>1, <1>5, <2>1 DEF L
<1>7. Close(p, m) = Min(S)
  BY DEF Close, D
<1>8. Close(p, m) \in S /\ \A c \in S : Close(p, m) <= c
  <2> HIDE DEF S
  <2> QED
    BY <1>6, <1>7, LeastExists
<1>9. \A j \in m + 1 .. Close(p, m) : D(j) > D(m)
  <2> SUFFICES ASSUME NEW j \in m + 1 .. Close(p, m), ~(D(j) > D(m)) PROVE FALSE
    OBVIOUS
  <2>1. j \in m + 1 .. L + 1 /\ D(j) <= D(m)
    BY <1>1, <1>2, <1>8 DEF L
  <2>2. PICK c \in S : c < j
    BY <1>5, <2>1
  <2> QED
    BY <1>1, <1>6, <1>8, <2>2
<1>10. ASSUME NEW n \in m + 1 .. L + 1
       PROVE  Inside(p, m, n) <=> ~(Close(p, m) < n)
  <2>1. m \in 1 .. n - 1
    BY <1>1
  <2>2. ASSUME ~(Close(p, m) < n) PROVE Inside(p, m, n)
    <3>1. \A j \in m + 1 .. n : j \in m + 1 .. Close(p, m)
      BY <1>1, <1>6, <1>8, <2>2
    <3> QED
      BY <1>9, <2>1, <3>1 DEF Inside, D
  <2>3. ASSUME Close(p, m) < n, Inside(p, m, n) PROVE FALSE
    <3>1. Close(p, m) + 1 \in m + 1 .. n
      BY <1>1, <1>6, <1>8, <2>3
    <3>2. D(Close(p, m) + 1) = D(m) /\ D(m) \in Int
      BY <1>1, <1>2, <1>4, <1>8
    <3> QED
      BY <2>3, <3>1, <3>2 DEF Inside, D
  <2> QED
    BY <2>2, <2>3
<1> QED
  BY <1>4, <1>8, <1>9, <1>10 DEF L, D

-----------------------------------------------------------------------------
(* The validation pass: what one more item changes *)

Jumps == {"break", "continue"}
JumpErrors == {"break_outside", "continue_outside"}

\* The items that the errors about jumps are about.
Strays(es) == {es[i][2] : i \in {j \in DOMAIN es : es[j][1] \in JumpErrors}}

\* The jumps of a body that no loop surrounds.
StrayJumps(p) ==
  {n \in DOMAIN p :
     /\ p[n].op \in Jumps
     /\ \A m \in 1 .. n - 1 : p[m].op \in LoopOps => ~Inside(p, m, n)}

\* Errors are appended.
LEMMA StraysAppended ==
  ASSUME NEW S, NEW es \in Seq(S), NEW fs \in Seq(S)
  PROVE  Strays(es \o fs) = Strays(es) \cup Strays(fs)
<1>1. /\ Len(es) \in Nat /\ Len(fs) \in Nat
      /\ DOMAIN es = 1 .. Len(es) /\ DOMAIN fs = 1 .. Len(fs)
      /\ DOMAIN (es \o fs) = 1 .. Len(es) + Len(fs)
      /\ \A i \in 1 .. Len(es) : (es \o fs)[i] = es[i]
      /\ \A i \in 1 .. Len(fs) : (es \o fs)[Len(es) + i] = fs[i]
  OBVIOUS
<1> DEFINE gs == es \o fs
<1> HIDE DEF gs
<1>2. ASSUME NEW x \in Strays(gs) PROVE x \in Strays(es) \cup Strays(fs)
  <2>1. PICK i \in DOMAIN gs : gs[i][1] \in JumpErrors /\ x = gs[i][2]
    BY DEF Strays
  <2>2. CASE i \in 1 .. Len(es)
    BY <1>1, <2>1, <2>2 DEF Strays, gs
  <2>3. CASE i \notin 1 .. Len(es)
    <3>1. i - Len(es) \in 1 .. Len(fs) /\ i = Len(es) + (i - Len(es))
      BY <1>1, <2>1, <2>3 DEF gs
    <3>2. fs[i - Len(es)] = gs[i]
      BY <1>1, <3>1 DEF gs
    <3> QED
      BY <1>1, <2>1, <3>1, <3>2 DEF Strays
  <2> QED
    BY <2>2, <2>3
<1>3. ASSUME NEW x \in Strays(es) PROVE x \in Strays(gs)
  <2>1. PICK i \in DOMAIN es : es[i][1] \in JumpErrors /\ x = es[i][2]
    BY <1>3 DEF Strays
  <2>2. i \in DOMAIN gs /\ gs[i] = es[i]
    BY <1>1 DEF gs
  <2> QED
    BY <2>1, <2>2 DEF Strays
<1>4. ASSUME NEW x \in Strays(fs) PROVE x \in Strays(gs)
  <2>1. PICK i \in DOMAIN fs : fs[i][1] \in JumpErrors /\ x = fs[i][2]
    BY <1>4 DEF Strays
  <2>2. Len(es) + i \in DOMAIN gs /\ gs[Len(es) + i] = fs[i]
    BY <1>1 DEF gs
  <2> QED
    BY <2>1, <2>2 DEF Strays
<1> QED
  BY <1>2, <1>3, <1>4 DEF gs

\* The errors that are appended at a time.
LEMMA StraysOfOne ==
  /\ Strays(<<>>) = {}
  /\ \A k, n : /\ k \in JumpErrors => Strays(<<<<k, n>>>>) = {n}
               /\ k \notin JumpErrors => Strays(<<<<k, n>>>>) = {}
<1>1. ASSUME NEW k, NEW n PROVE DOMAIN <<<<k, n>>>> = {1} /\ <<<<k, n>>>>[1] = <<k, n>>
  OBVIOUS
<1> QED
  BY <1>1 DEF Strays

\* The structure of the items walked, when item e is one more.
LEMMA ItemAppended ==
  ASSUME prog \in Seq(Item), NEW e \in Item, prog' = Append(prog, e), NEW L, L = Len(prog)
  PROVE  /\ L \in Nat /\ prog' \in Seq(Item) /\ Len(prog') = L + 1
         /\ \A n \in 1 .. L + 1 : Depth(prog', n) = Depth(prog, n)
         /\ Depth(prog, L + 1) \in Int
         /\ e.op \in OpenOps => Depth(prog', L + 2) = Depth(prog, L + 1) + 1
         /\ e.op \in CloseOps => Depth(prog', L + 2) = Depth(prog, L + 1) - 1
         /\ e.op \notin OpenOps \cup CloseOps => Depth(prog', L + 2) = Depth(prog, L + 1)
         /\ \A n \in 1 .. L + 1 : \A m : Inside(prog', m, n) <=> Inside(prog, m, n)
         /\ \A m : Inside(prog', m, L + 2) <=>
              \/ m = L + 1 /\ e.op \in OpenOps
              \/ Inside(prog, m, L + 1) /\ Depth(prog', L + 2) > Depth(prog, m)
         /\ \A m \in 1 .. L : prog'[m] = prog[m]
         /\ prog'[L + 1] = e
<1>1. /\ L \in Nat /\ prog' \in Seq(Item) /\ Len(prog') = L + 1
      /\ \A n \in 1 .. L : prog'[n] = prog[n]
      /\ prog'[L + 1] = e
  BY AppendProperties
<1>2. ASSUME NEW n \in 1 .. L + 1 PROVE Depth(prog', n) = Depth(prog, n)
  <2>1. \A m \in 1 .. n - 1 : prog'[m] = prog[m]
    BY <1>1
  <2> QED
    BY <2>1, DepthPrefix
<1>3. /\ Depth(prog, L + 1) \in Int
      /\ e.op \in OpenOps => Depth(prog', L + 2) = Depth(prog, L + 1) + 1
      /\ e.op \in CloseOps => Depth(prog', L + 2) = Depth(prog, L + 1) - 1
      /\ e.op \notin OpenOps \cup CloseOps => Depth(prog', L + 2) = Depth(prog, L + 1)
  <2>1. L + 1 \in Nat \ {0} /\ L + 1 \in 1 .. L + 1 /\ (L + 1) + 1 = L + 2
    BY <1>1
  <2>2. Depth(prog', L + 1) = Depth(prog, L + 1)
    BY <1>2, <2>1
  <2>3. /\ Depth(prog', L + 1) \in Int
        /\ prog'[L + 1].op \in OpenOps => Depth(prog', L + 2) = Depth(prog', L + 1) + 1
        /\ prog'[L + 1].op \in CloseOps => Depth(prog', L + 2) = Depth(prog', L + 1) - 1
        /\ prog'[L + 1].op \notin OpenOps \cup CloseOps => Depth(prog', L + 2) = Depth(prog', L + 1)
    BY <2>1, DepthNext
  <2> QED
    BY <1>1, <2>2, <2>3
<1>4. ASSUME NEW n \in 1 .. L + 1, NEW m PROVE Inside(prog', m, n) <=> Inside(prog, m, n)
  <2> SUFFICES ASSUME m \in 1 .. n - 1 PROVE Inside(prog', m, n) <=> Inside(prog, m, n)
    BY DEF Inside
  <2>1. m \in 1 .. L /\ m \in 1 .. L + 1
    BY <1>1
  <2>2. prog'[m] = prog[m] /\ Depth(prog', m) = Depth(prog, m)
    BY <1>1, <1>2, <2>1
  <2>3. \A j \in m + 1 .. n : j \in 1 .. L + 1
    BY <1>1, <2>1
  <2> QED
    BY <1>2, <2>2, <2>3 DEF Inside
<1>5. ASSUME NEW m
      PROVE  Inside(prog', m, L + 2) <=> \/ m = L + 1 /\ e.op \in OpenOps
                                         \/ Inside(prog, m, L + 1) /\ Depth(prog', L + 2) > Depth(prog, m)
  <2>1. L + 1 \in Nat \ {0} /\ (L + 1) + 1 = L + 2 /\ L + 1 \in 1 .. L + 1
    BY <1>1
  <2>2. Inside(prog', m, L + 2) <=> \/ m = L + 1 /\ e.op \in OpenOps
                                    \/ Inside(prog', m, L + 1) /\ Depth(prog', L + 2) > Depth(prog', m)
    BY <1>1, <2>1, InsideNext
  <2>3. Inside(prog', m, L + 1) <=> Inside(prog, m, L + 1)
    BY <1>4, <2>1
  <2>4. Inside(prog, m, L + 1) => Depth(prog', m) = Depth(prog, m)
    BY <1>1, <1>2 DEF Inside
  <2> QED
    BY <2>2, <2>3, <2>4
<1> QED
  BY <1>1, <1>2, <1>3, <1>4, <1>5

\* A jump that is appended is stray when no loop is open.
LEMMA JumpAppended ==
  ASSUME prog \in Seq(Item), NEW e \in Item, prog' = Append(prog, e)
  PROVE  StrayJumps(prog') = StrayJumps(prog) \cup
           IF /\ e.op \in Jumps
              /\ \A m : Inside(prog, m, Len(prog) + 1) => prog[m].op \notin LoopOps
           THEN {Len(prog) + 1} ELSE {}
<1>b. PICK L : L = Len(prog)
  OBVIOUS
<1>1. /\ L \in Nat /\ prog' \in Seq(Item) /\ Len(prog') = L + 1
      /\ \A n \in 1 .. L + 1 : \A m : Inside(prog', m, n) <=> Inside(prog, m, n)
      /\ \A m \in 1 .. L : prog'[m] = prog[m]
      /\ prog'[L + 1] = e
  BY <1>b, ItemAppended
<1>2. DOMAIN prog' = 1 .. L + 1 /\ DOMAIN prog = 1 .. L
  BY <1>1, <1>b
<1>3. ASSUME NEW n \in 1 .. L PROVE n \in StrayJumps(prog') <=> n \in StrayJumps(prog)
  <2>1. prog'[n] = prog[n] /\ n \in 1 .. L + 1 /\ \A m \in 1 .. n - 1 : m \in 1 .. L
    BY <1>1
  <2> QED
    BY <1>1, <1>2, <2>1 DEF StrayJumps
<1>4. L + 1 \in StrayJumps(prog') <=> /\ e.op \in Jumps
                                  /\ \A m : Inside(prog, m, L + 1) => prog[m].op \notin LoopOps
  <2>1. L + 1 \in 1 .. L + 1 /\ (L + 1) - 1 = L
    BY <1>1
  <2>2. \A m : Inside(prog, m, L + 1) => m \in 1 .. L
    BY <2>1 DEF Inside
  <2>3. (\A m \in 1 .. L : prog'[m].op \in LoopOps => ~Inside(prog', m, L + 1))
          <=> (\A m : Inside(prog, m, L + 1) => prog[m].op \notin LoopOps)
    BY <1>1, <2>1, <2>2
  <2> QED
    BY <1>1, <1>2, <2>1, <2>3 DEF StrayJumps
<1>5. StrayJumps(prog') \subseteq 1 .. L + 1 /\ StrayJumps(prog) \subseteq 1 .. L
  BY <1>2 DEF StrayJumps
<1>6. L + 1 \notin 1 .. L /\ \A n \in 1 .. L + 1 : n \in 1 .. L \/ n = L + 1
  BY <1>1
<1> QED
  BY <1>b, <1>3, <1>4, <1>5, <1>6


\* The loops of a stack are finitely many.
LEMMA LoopsFinite ==
  ASSUME NEW S, NEW s \in Seq(S)
  PROVE  /\ LoopsOf(s) \subseteq 1 .. Len(s)
         /\ IsFiniteSet(LoopsOf(s)) /\ Cardinality(LoopsOf(s)) \in Nat
         /\ Cardinality(LoopsOf(s)) = 0 <=> LoopsOf(s) = {}
<1>1. LoopsOf(s) \subseteq 1 .. Len(s) /\ Len(s) \in Int
  BY DEF LoopsOf
<1>2. IsFiniteSet(LoopsOf(s))
  BY <1>1, PositionsFinite
<1> QED
  BY <1>1, <1>2, FS_CardinalityType, FS_EmptySet

\* How many loops a stack t has that is a stack s without its last block.
LEMMA LoopsOfOneLess ==
  ASSUME NEW S, NEW s \in Seq(S), NEW t \in Seq(S), Len(s) = Len(t) + 1,
         \A k \in 1 .. Len(t) : t[k].of \in LoopOps <=> s[k].of \in LoopOps
  PROVE  /\ s[Len(s)].of \in LoopOps => Cardinality(LoopsOf(s)) = Cardinality(LoopsOf(t)) + 1
         /\ s[Len(s)].of \notin LoopOps => Cardinality(LoopsOf(s)) = Cardinality(LoopsOf(t))
<1>1. Len(t) \in Nat /\ DOMAIN t = 1 .. Len(t) /\ DOMAIN s = 1 .. Len(t) + 1
  OBVIOUS
<1>2. /\ s[Len(s)].of \in LoopOps => LoopsOf(s) = LoopsOf(t) \cup {Len(s)}
      /\ s[Len(s)].of \notin LoopOps => LoopsOf(s) = LoopsOf(t)
      /\ Len(s) \notin LoopsOf(t)
  BY <1>1 DEF LoopsOf
<1> QED
  BY <1>2, LoopsFinite, FS_AddElement

\* The call stack of validateBlock stands for the structure of the items seen:
\* one block per statement that is open, a loop's exactly for a loop.
ScopesMatch ==
  /\ scopes # <<>>
  /\ Depth(prog, Len(prog) + 1) = Len(scopes) - 1
  /\ \A k \in DOMAIN scopes : scopes[k].of = "body" <=> k = 1
  /\ \A k \in LoopsOf(scopes) :
       \E m : /\ Inside(prog, m, Len(prog) + 1)
              /\ prog[m].op \in LoopOps
              /\ Depth(prog, m) = k - 2
  /\ \A m : Inside(prog, m, Len(prog) + 1) /\ prog[m].op \in LoopOps =>
       /\ Depth(prog, m) + 2 \in DOMAIN scopes
       /\ scopes[Depth(prog, m) + 2].of \in LoopOps

\* No statement is closed that was not opened.
DepthsNatural == \A n \in 1 .. Len(prog) + 1 : Depth(prog, n) >= 0

\* The inductive invariant of the validation pass.
ValidationInv ==
  /\ ValidationTypeOK
  /\ ScopesMatch
  /\ DepthsNatural
  /\ loop_depth = Cardinality(LoopsOf(scopes))
  /\ Strays(errors) = StrayJumps(prog)
  /\ validated => Len(scopes) = 1

\* ctx->loop_depth is zero exactly where no loop is open.
LEMMA NoLoopOpen ==
  ASSUME ValidationInv
  PROVE  loop_depth = 0 <=> \A m : Inside(prog, m, Len(prog) + 1) => prog[m].op \notin LoopOps
<1>1. scopes \in Seq(Block)
  BY DEF ValidationInv, ValidationTypeOK
<1>2. loop_depth = 0 <=> LoopsOf(scopes) = {}
  BY <1>1, LoopsFinite DEF ValidationInv
<1>3. ASSUME NEW m, Inside(prog, m, Len(prog) + 1), prog[m].op \in LoopOps
      PROVE  LoopsOf(scopes) # {}
  BY <1>3 DEF ValidationInv, ScopesMatch, LoopsOf
<1>4. ASSUME NEW k \in LoopsOf(scopes)
      PROVE  \E m : Inside(prog, m, Len(prog) + 1) /\ prog[m].op \in LoopOps
  BY DEF ValidationInv, ScopesMatch
<1> QED
  BY <1>2, <1>3, <1>4

\* The errors of a visit, when a jump is reported exactly at loop depth 0.
LEMMA VisitReports ==
  ASSUME ValidationInv, NEW e \in Item, prog' = Append(prog, e),
         NEW errs \in Seq(ErrorKind \X Nat), errors' = errors \o errs,
         Strays(errs) = IF e.op \in Jumps /\ loop_depth = 0 THEN {Len(prog) + 1} ELSE {}
  PROVE  /\ Strays(errors') = StrayJumps(prog')
         /\ errors' \in Seq(ErrorKind \X Nat)
         /\ prog' \in Seq(Item)
<1>1. prog \in Seq(Item) /\ errors \in Seq(ErrorKind \X Nat)
  BY DEF ValidationInv, ValidationTypeOK
<1>2. Strays(errors') = Strays(errors) \cup Strays(errs)
  BY <1>1, StraysAppended
<1>3. errors' \in Seq(ErrorKind \X Nat) /\ prog' \in Seq(Item)
  BY <1>1, ConcatProperties, AppendProperties
<1>4. StrayJumps(prog') = StrayJumps(prog) \cup
        IF e.op \in Jumps /\ loop_depth = 0 THEN {Len(prog) + 1} ELSE {}
  BY <1>1, JumpAppended, NoLoopOpen
<1> QED
  BY <1>2, <1>3, <1>4 DEF ValidationInv

\* An item in the innermost block: a leaf, or the else of an if.
LEMMA SameBlockStep ==
  ASSUME ValidationInv, NEW e \in Item, prog' = Append(prog, e),
         e.op \notin OpenOps \cup CloseOps,
         scopes' \in Seq(Block), Len(scopes') = Len(scopes),
         \A k \in 1 .. Len(scopes) :
           /\ scopes'[k].of \in LoopOps <=> scopes[k].of \in LoopOps
           /\ scopes'[k].of = "body" <=> scopes[k].of = "body"
  PROVE  ScopesMatch' /\ Cardinality(LoopsOf(scopes')) = Cardinality(LoopsOf(scopes))
<1>a. PICK L : L = Len(prog)
  OBVIOUS
<1>1. prog \in Seq(Item) /\ scopes \in Seq(Block) /\ ScopesMatch
  BY DEF ValidationInv, ValidationTypeOK
<1>2. /\ L \in Nat /\ Len(prog') = L + 1 /\ \A m \in 1 .. L : prog'[m] = prog[m]
      /\ prog'[L + 1] = e
  BY <1>1, <1>a, AppendProperties
<1>3. /\ \A n \in 1 .. L + 1 : Depth(prog', n) = Depth(prog, n)
      /\ Depth(prog', L + 2) = Depth(prog, L + 1)
      /\ \A m : Inside(prog', m, L + 2) <=>
           \/ m = L + 1 /\ e.op \in OpenOps
           \/ Inside(prog, m, L + 1) /\ Depth(prog', L + 2) > Depth(prog, m)
  BY <1>1, <1>a, ItemAppended
<1>4. \A m : Inside(prog, m, L + 1) => m \in 1 .. L /\ m \in 1 .. L + 1
                                        /\ Depth(prog, L + 1) > Depth(prog, m)
  BY <1>2 DEF Inside
<1>5. \A m : Inside(prog', m, L + 2) <=> Inside(prog, m, L + 1)
  BY <1>3, <1>4
<1>6. \A m : Inside(prog, m, L + 1) => prog'[m] = prog[m] /\ Depth(prog', m) = Depth(prog, m)
  BY <1>2, <1>3, <1>4
<1>7. DOMAIN scopes' = DOMAIN scopes /\ DOMAIN scopes = 1 .. Len(scopes) /\ Len(scopes) \in Nat
  BY <1>1
<1>8. LoopsOf(scopes') = LoopsOf(scopes)
  BY <1>7 DEF LoopsOf
<1>9. scopes' # <<>> /\ Len(prog') + 1 = L + 2
  BY <1>1, <1>2, EmptySeq DEF ScopesMatch
<1>10. Depth(prog', L + 2) = Len(scopes') - 1
  BY <1>1, <1>a, <1>3 DEF ScopesMatch
<1>11. \A k \in DOMAIN scopes' : scopes'[k].of = "body" <=> k = 1
  BY <1>1, <1>7 DEF ScopesMatch
<1>12. \A k \in LoopsOf(scopes') :
         \E m : Inside(prog', m, L + 2) /\ prog'[m].op \in LoopOps /\ Depth(prog', m) = k - 2
  BY <1>1, <1>a, <1>5, <1>6, <1>8 DEF ScopesMatch
<1>13. \A m : Inside(prog', m, L + 2) /\ prog'[m].op \in LoopOps =>
         /\ Depth(prog', m) + 2 \in DOMAIN scopes'
         /\ scopes'[Depth(prog', m) + 2].of \in LoopOps
  BY <1>1, <1>a, <1>5, <1>6, <1>7 DEF ScopesMatch
<1> QED
  BY <1>8, <1>9, <1>10, <1>11, <1>12, <1>13 DEF ScopesMatch

\* An item that opens a block.
LEMMA OpenBlockStep ==
  ASSUME ValidationInv, NEW e \in Item, prog' = Append(prog, e), e.op \in OpenOps,
         NEW b \in Block, scopes' = Append(scopes, b),
         b.of # "body", b.of \in LoopOps <=> e.op \in LoopOps
  PROVE  /\ ScopesMatch' /\ scopes' \in Seq(Block)
         /\ Cardinality(LoopsOf(scopes'))
              = IF e.op \in LoopOps THEN Cardinality(LoopsOf(scopes)) + 1
                ELSE Cardinality(LoopsOf(scopes))
<1>a. PICK L : L = Len(prog)
  OBVIOUS
<1>b. PICK N : N = Len(scopes)
  OBVIOUS
<1>1. prog \in Seq(Item) /\ scopes \in Seq(Block) /\ ScopesMatch
  BY DEF ValidationInv, ValidationTypeOK
<1>2. /\ L \in Nat /\ Len(prog') = L + 1 /\ \A m \in 1 .. L : prog'[m] = prog[m]
      /\ prog'[L + 1] = e
  BY <1>1, <1>a, AppendProperties
<1>3. /\ \A n \in 1 .. L + 1 : Depth(prog', n) = Depth(prog, n)
      /\ Depth(prog', L + 2) = Depth(prog, L + 1) + 1
      /\ Depth(prog, L + 1) \in Int
      /\ \A m : Inside(prog', m, L + 2) <=>
           \/ m = L + 1 /\ e.op \in OpenOps
           \/ Inside(prog, m, L + 1) /\ Depth(prog', L + 2) > Depth(prog, m)
  BY <1>1, <1>a, ItemAppended
<1>4. /\ scopes' \in Seq(Block) /\ DOMAIN scopes' = 1 .. N + 1 /\ N \in Nat /\ Len(scopes') = N + 1
      /\ DOMAIN scopes = 1 .. N /\ \A k \in 1 .. N : scopes'[k] = scopes[k]
      /\ scopes'[N + 1] = b
  BY <1>1, <1>b, AppendProperties
<1>5. \A m : Inside(prog, m, L + 1) =>
        /\ m \in 1 .. L /\ m \in 1 .. L + 1 /\ m \in Nat \ {0}
        /\ Depth(prog, L + 1) > Depth(prog, m)
  BY <1>2 DEF Inside
<1>6. \A m : Inside(prog, m, L + 1) => /\ prog'[m] = prog[m]
                                       /\ Depth(prog', m) = Depth(prog, m)
                                       /\ Depth(prog, m) \in Int
  BY <1>2, <1>3, <1>5, DepthNext
<1>7. \A m : Inside(prog', m, L + 2) <=> m = L + 1 \/ Inside(prog, m, L + 1)
  BY <1>3, <1>5, <1>6
<1>8. Depth(prog, L + 1) = N - 1 /\ Depth(prog', L + 1) = N - 1 /\ N # 0
  <2>1. L + 1 \in 1 .. L + 1
    BY <1>2
  <2> QED
    BY <1>1, <1>a, <1>b, <1>3, <2>1, EmptySeq DEF ScopesMatch
<1>9. Depth(prog', L + 2) = Len(scopes') - 1
  BY <1>3, <1>4, <1>8
<1>10. \A k \in DOMAIN scopes' : scopes'[k].of = "body" <=> k = 1
  BY <1>1, <1>4, <1>8 DEF ScopesMatch
<1>11. \A k \in LoopsOf(scopes') :
         \E m : Inside(prog', m, L + 2) /\ prog'[m].op \in LoopOps /\ Depth(prog', m) = k - 2
  <2> SUFFICES ASSUME NEW k \in LoopsOf(scopes')
               PROVE  \E m : /\ Inside(prog', m, L + 2)
                             /\ prog'[m].op \in LoopOps /\ Depth(prog', m) = k - 2
    OBVIOUS
  <2>1. CASE k = N + 1
    <3>1. e.op \in LoopOps /\ Depth(prog', L + 1) = k - 2
      BY <1>4, <1>8, <2>1 DEF LoopsOf
    <3> QED
      BY <1>2, <1>7, <3>1
  <2>2. CASE k # N + 1
    <3>1. k \in LoopsOf(scopes)
      BY <1>4, <2>2 DEF LoopsOf
    <3>2. PICK m : /\ Inside(prog, m, L + 1) /\ prog[m].op \in LoopOps /\ Depth(prog, m) = k - 2
      BY <1>1, <1>a, <3>1 DEF ScopesMatch
    <3> QED
      BY <1>6, <1>7, <3>2
  <2> QED
    BY <2>1, <2>2
<1>12. ASSUME NEW m, Inside(prog', m, L + 2), prog'[m].op \in LoopOps
       PROVE  /\ Depth(prog', m) + 2 \in DOMAIN scopes'
              /\ scopes'[Depth(prog', m) + 2].of \in LoopOps
  <2>1. CASE m = L + 1
    <3>1. Depth(prog', m) + 2 = N + 1 /\ e.op \in LoopOps
      BY <1>2, <1>4, <1>8, <1>12, <2>1
    <3> QED
      BY <1>4, <3>1
  <2>2. CASE Inside(prog, m, L + 1)
    <3>1. Depth(prog, m) + 2 \in DOMAIN scopes /\ scopes[Depth(prog, m) + 2].of \in LoopOps
      BY <1>1, <1>a, <1>6, <1>12, <2>2 DEF ScopesMatch
    <3> QED
      BY <1>4, <1>6, <2>2, <3>1
  <2> QED
    BY <1>7, <1>12, <2>1, <2>2
<1>13. Cardinality(LoopsOf(scopes'))
         = IF e.op \in LoopOps THEN Cardinality(LoopsOf(scopes)) + 1 ELSE Cardinality(LoopsOf(scopes))
  <2>1. /\ scopes'[Len(scopes')].of \in LoopOps <=> e.op \in LoopOps
        /\ \A k \in 1 .. Len(scopes) : scopes[k].of \in LoopOps <=> scopes'[k].of \in LoopOps
        /\ Len(scopes') = Len(scopes) + 1
    BY <1>b, <1>4
  <2> QED
    BY <1>1, <1>4, <2>1, LoopsOfOneLess
<1>14. scopes' # <<>> /\ Len(prog') + 1 = L + 2
  BY <1>2, <1>4, EmptySeq
<1> QED
  BY <1>4, <1>9, <1>10, <1>11, <1>12, <1>13, <1>14 DEF ScopesMatch

\* An item that closes a block.
LEMMA CloseBlockStep ==
  ASSUME ValidationInv, NEW e \in Item, prog' = Append(prog, e), e.op \in CloseOps,
         Last(scopes).of # "body", scopes' \in Seq(Block), Len(scopes') = Len(scopes) - 1,
         \A k \in 1 .. Len(scopes) - 1 : scopes'[k].of = scopes[k].of
  PROVE  /\ ScopesMatch'
         /\ Cardinality(LoopsOf(scopes))
              = IF Last(scopes).of \in LoopOps THEN Cardinality(LoopsOf(scopes')) + 1
                ELSE Cardinality(LoopsOf(scopes'))
<1>a. PICK L : L = Len(prog)
  OBVIOUS
<1>b. PICK N : N = Len(scopes)
  OBVIOUS
<1>1. prog \in Seq(Item) /\ scopes \in Seq(Block) /\ ScopesMatch
  BY DEF ValidationInv, ValidationTypeOK
<1>2. /\ L \in Nat /\ Len(prog') = L + 1 /\ \A m \in 1 .. L : prog'[m] = prog[m]
  BY <1>1, <1>a, AppendProperties
<1>3. /\ \A n \in 1 .. L + 1 : Depth(prog', n) = Depth(prog, n)
      /\ Depth(prog', L + 2) = Depth(prog, L + 1) - 1
      /\ Depth(prog, L + 1) \in Int
      /\ \A m : Inside(prog', m, L + 2) <=>
           \/ m = L + 1 /\ e.op \in OpenOps
           \/ Inside(prog, m, L + 1) /\ Depth(prog', L + 2) > Depth(prog, m)
  BY <1>1, <1>a, ItemAppended
<1>4. /\ N \in Nat \ {0} /\ DOMAIN scopes = 1 .. N /\ Last(scopes) = scopes[N]
      /\ DOMAIN scopes' = 1 .. N - 1 /\ N # 1
  <2>1. N \in Nat /\ DOMAIN scopes = 1 .. N /\ scopes # <<>>
    BY <1>1, <1>b DEF ScopesMatch
  <2>2. N # 0
    BY <1>1, <1>b, <2>1, EmptySeq
  <2>3. Last(scopes) = scopes[N]
    BY <1>1, <1>b, <2>1, PopProperties
  <2>4. N # 1
    BY <1>1, <2>1, <2>3 DEF ScopesMatch
  <2>5. DOMAIN scopes' = 1 .. N - 1
    BY <1>b, <2>1, <2>2
  <2> QED
    BY <2>1, <2>2, <2>3, <2>4, <2>5
<1>5. e.op \notin OpenOps
  BY DEF OpenOps, CloseOps
<1>6. \A m : Inside(prog, m, L + 1) => /\ m \in 1 .. L /\ m \in 1 .. L + 1 /\ m \in Nat \ {0}
  BY <1>2 DEF Inside
<1>7. \A m : Inside(prog, m, L + 1) => /\ prog'[m] = prog[m]
                                       /\ Depth(prog', m) = Depth(prog, m)
                                       /\ Depth(prog, m) \in Int
  BY <1>2, <1>3, <1>6, DepthNext
<1>8. Depth(prog, L + 1) = N - 1 /\ Depth(prog', L + 2) = N - 2
  BY <1>1, <1>a, <1>b, <1>3, <1>4 DEF ScopesMatch
<1>9. \A m : Inside(prog', m, L + 2) <=> Inside(prog, m, L + 1) /\ Depth(prog, m) < N - 2
  BY <1>3, <1>4, <1>5, <1>7, <1>8
<1>10. LoopsOf(scopes') = {k \in LoopsOf(scopes) : k < N}
  BY <1>b, <1>4 DEF LoopsOf
<1>11. ASSUME NEW k \in DOMAIN scopes' PROVE scopes'[k].of = "body" <=> k = 1
  <2>1. k \in 1 .. Len(scopes) - 1 /\ k \in DOMAIN scopes
    BY <1>b, <1>4
  <2> QED
    BY <1>1, <2>1 DEF ScopesMatch
<1>12. ASSUME NEW k \in LoopsOf(scopes')
       PROVE  \E m : Inside(prog', m, L + 2) /\ prog'[m].op \in LoopOps /\ Depth(prog', m) = k - 2
  <2>1. k \in LoopsOf(scopes) /\ k < N /\ k \in Nat
    BY <1>4, <1>10 DEF LoopsOf
  <2>2. PICK m : Inside(prog, m, L + 1) /\ prog[m].op \in LoopOps /\ Depth(prog, m) = k - 2
    BY <1>1, <1>a, <2>1 DEF ScopesMatch
  <2>3. Depth(prog, m) < N - 2
    BY <1>4, <2>1, <2>2
  <2> QED
    BY <1>7, <1>9, <2>2, <2>3
<1>13. ASSUME NEW m, Inside(prog', m, L + 2), prog'[m].op \in LoopOps
       PROVE  /\ Depth(prog', m) + 2 \in DOMAIN scopes'
              /\ scopes'[Depth(prog', m) + 2].of \in LoopOps
  <2>1. Inside(prog, m, L + 1) /\ Depth(prog, m) < N - 2 /\ prog[m].op \in LoopOps
    BY <1>7, <1>9, <1>13
  <2>2. Depth(prog, m) + 2 \in DOMAIN scopes /\ scopes[Depth(prog, m) + 2].of \in LoopOps
    BY <1>1, <1>a, <2>1 DEF ScopesMatch
  <2>3. Depth(prog', m) = Depth(prog, m) /\ Depth(prog, m) \in Int
    BY <1>7, <2>1
  <2>4. Depth(prog, m) + 2 \in 1 .. N - 1
    BY <1>4, <2>1, <2>2, <2>3
  <2> QED
    BY <1>b, <1>4, <2>2, <2>3, <2>4
<1>14. /\ Last(scopes).of \in LoopOps =>
            Cardinality(LoopsOf(scopes)) = Cardinality(LoopsOf(scopes')) + 1
       /\ Last(scopes).of \notin LoopOps =>
            Cardinality(LoopsOf(scopes)) = Cardinality(LoopsOf(scopes'))
  <2>1. Len(scopes) = Len(scopes') + 1 /\ Len(scopes') = Len(scopes) - 1
    BY <1>b, <1>4
  <2>2. \A k \in 1 .. Len(scopes') : scopes'[k].of \in LoopOps <=> scopes[k].of \in LoopOps
    BY <2>1
  <2> QED
    BY <1>1, <1>b, <1>4, <2>1, <2>2, LoopsOfOneLess
<1>15. scopes' # <<>> /\ Len(prog') + 1 = L + 2 /\ Depth(prog', L + 2) = Len(scopes') - 1
  BY <1>b, <1>2, <1>4, <1>8, EmptySeq
<1> QED
  BY <1>11, <1>12, <1>13, <1>14, <1>15 DEF ScopesMatch


-----------------------------------------------------------------------------
(* The steps of the validation pass *)

Errors == Seq(ErrorKind \X Nat)

\* Lists of one error, and of none.
LEMMA OneError ==
  ASSUME NEW k \in ErrorKind, NEW n \in Nat
  PROVE  <<>> \in Errors /\ <<<<k, n>>>> \in Errors
BY DEF Errors

\* The innermost block, and what is reported of an item that follows a return.
LEMMA VisitFacts ==
  ASSUME ValidationInv
  PROVE  /\ prog \in Seq(Item) /\ Here \in Nat /\ Here = Len(prog) + 1
         /\ scopes \in Seq(Block) /\ Len(scopes) \in Nat \ {0} /\ DOMAIN scopes = 1 .. Len(scopes)
         /\ Innermost = scopes[Len(scopes)] /\ Innermost \in Block
         /\ Unreachable \in Errors /\ Strays(Unreachable) = {}
<1>1. /\ prog \in Seq(Item) /\ Here \in Nat /\ Here = Len(prog) + 1
      /\ scopes \in Seq(Block) /\ DOMAIN scopes = 1 .. Len(scopes) /\ Len(scopes) \in Nat
  BY DEF ValidationInv, ValidationTypeOK, Here
<1>2. Len(scopes) # 0
  BY <1>1, EmptySeq DEF ValidationInv, ScopesMatch
<1>3. Innermost = scopes[Len(scopes)] /\ Innermost \in Block
  BY <1>1, PopProperties DEF ValidationInv, ScopesMatch, Innermost
<1>4. /\ "unreachable" \in ErrorKind /\ "unreachable" \notin JumpErrors
  BY DEF ErrorKind, JumpErrors
<1>5. Unreachable \in Errors /\ Strays(Unreachable) = {}
  BY <1>1, <1>4, OneError, StraysOfOne DEF Unreachable
<1> QED
  BY <1>1, <1>2, <1>3, <1>5

\* The items of a function body.
LEMMA Items ==
  /\ \A op \in {"stmt", "pure", "break", "continue", "if", "while", "else",
                "endif", "endwhile", "endfor", "endfunc"} : Plain(op) \in Item /\ Plain(op).op = op
  /\ \A v \in BOOLEAN : Ret(v) \in Item /\ Ret(v).op = "ret"
  /\ \A v \in BOOLEAN : Func(v) \in Item /\ Func(v).op = "func"
  /\ \A h \in ForHeaders : For(h) \in Item /\ For(h).op = "for"
<1>1. \A op \in {"stmt", "pure", "break", "continue", "if", "while", "else",
                 "endif", "endwhile", "endfor", "endfunc"} : Plain(op) \in Item
  BY DEF Item, SimpleItem, OpenItem, CloseOps
<1>2. /\ \A v \in BOOLEAN : Ret(v) \in Item
      /\ \A v \in BOOLEAN : Func(v) \in Item
      /\ \A h \in ForHeaders : For(h) \in Item
  BY DEF Item, SimpleItem, OpenItem
<1>3. /\ \A op : Plain(op).op = op
      /\ \A v : Ret(v).op = "ret" /\ Func(v).op = "func" /\ For(v).op = "for"
  BY DEF Plain, Ret, Func, For
<1> QED
  BY <1>1, <1>2, <1>3

\* The depth is that of the call stack, so it stays a natural number.
LEMMA DepthsKept ==
  ASSUME ValidationInv, NEW e \in Item, prog' = Append(prog, e), ScopesMatch', scopes' \in Seq(Block)
  PROVE  DepthsNatural'
<1>a. PICK L : L = Len(prog)
  OBVIOUS
<1>1. prog \in Seq(Item)
  BY DEF ValidationInv, ValidationTypeOK
<1>2. /\ L \in Nat /\ Len(prog') = L + 1
      /\ \A n \in 1 .. L + 1 : Depth(prog', n) = Depth(prog, n)
  BY <1>1, <1>a, ItemAppended
<1>3. Depth(prog', L + 2) = Len(scopes') - 1 /\ Len(scopes') \in Nat /\ Len(scopes') # 0
  <2>1. Depth(prog', Len(prog') + 1) = Len(scopes') - 1 /\ scopes' # <<>>
    BY DEF ScopesMatch
  <2>2. Len(prog') + 1 = L + 2
    BY <1>2
  <2> QED
    BY <2>1, <2>2, EmptySeq
<1>4. ASSUME NEW n \in 1 .. Len(prog') + 1 PROVE Depth(prog', n) >= 0
  <2>1. n \in 1 .. L + 1 \/ n = L + 2
    BY <1>2
  <2>2. CASE n \in 1 .. L + 1
    BY <1>a, <1>2, <2>2 DEF ValidationInv, DepthsNatural
  <2> QED
    BY <1>3, <2>1, <2>2
<1> QED
  BY <1>4 DEF DepthsNatural

\* validateNode of a statement without a block.
LEMMA LeafStep ==
  ASSUME ValidationInv, NEW e \in Item, e.op \notin OpenOps \cup CloseOps,
         NEW flow \in Flow, NEW errs \in Errors, Leaf(e, flow, errs),
         Strays(errs) = IF e.op \in Jumps /\ loop_depth = 0 THEN {Len(prog) + 1} ELSE {}
  PROVE  ValidationInv'
<1> DEFINE N == Len(scopes)
           b == WithFlow(scopes[N], flow)
<1>1. /\ ~validated /\ prog' = Append(prog, e) /\ errors' = errors \o (Unreachable \o errs)
      /\ scopes' = [scopes EXCEPT ![N] = b]
      /\ UNCHANGED <<loop_depth, ret_void, validated>>
  BY DEF Leaf, Visit
<1>2. /\ Unreachable \o errs \in Errors
      /\ Strays(Unreachable \o errs) = Strays(errs)
  <2>1. Unreachable \in Errors /\ Strays(Unreachable) = {}
    BY VisitFacts
  <2>2. Unreachable \o errs \in Errors
    BY <2>1, ConcatProperties DEF Errors
  <2>3. Strays(Unreachable \o errs) = Strays(Unreachable) \cup Strays(errs)
    <3>1. Unreachable \in Seq(ErrorKind \X Nat) /\ errs \in Seq(ErrorKind \X Nat)
      BY <2>1 DEF Errors
    <3> QED
      BY <3>1, StraysAppended
  <2> QED
    BY <2>1, <2>2, <2>3
<1>3. /\ Strays(errors') = StrayJumps(prog')
      /\ errors' \in Errors /\ prog' \in Seq(Item)
  BY <1>1, <1>2, VisitReports DEF Errors
<1>4. scopes[N] \in Block /\ N \in DOMAIN scopes /\ DOMAIN scopes = 1 .. N
  BY VisitFacts
<1>5. b \in Block /\ b.of = scopes[N].of
  BY <1>4 DEF WithFlow, Block, Flow
<1>6. /\ scopes' \in Seq(Block) /\ Len(scopes') = N
      /\ \A k \in 1 .. N : scopes'[k].of = scopes[k].of
  <2>1. scopes \in Seq(Block)
    BY VisitFacts
  <2> HIDE DEF b
  <2>2. scopes' \in Seq(Block) /\ Len(scopes') = N
    BY <1>1, <1>4, <1>5, <2>1
  <2>3. scopes'[N] = b /\ \A k \in 1 .. N : k # N => scopes'[k] = scopes[k]
    BY <1>1, <1>4, <2>1
  <2> QED
    BY <1>5, <2>2, <2>3
<1>7. ScopesMatch' /\ Cardinality(LoopsOf(scopes')) = Cardinality(LoopsOf(scopes))
  BY <1>1, <1>6, SameBlockStep
<1>8. ValidationTypeOK'
  BY <1>1, <1>3, <1>6 DEF ValidationInv, ValidationTypeOK, Errors
<1>9. DepthsNatural'
  BY <1>1, <1>6, <1>7, DepthsKept
<1> QED
  BY <1>1, <1>3, <1>7, <1>8, <1>9 DEF ValidationInv

\* The else of an if.
LEMMA ElseBlockStep ==
  ASSUME ValidationInv, ValidateElse
  PROVE  ValidationInv'
<1> DEFINE N == Len(scopes)
           e == Plain("else")
           b == [NewBlock("else") EXCEPT !.then_flow = Innermost.flow]
<1>1. /\ ~validated /\ prog' = Append(prog, e) /\ errors' = errors \o <<>>
      /\ scopes' = [scopes EXCEPT ![N] = b] /\ Innermost.of = "then"
      /\ UNCHANGED <<loop_depth, ret_void, validated>>
  BY DEF ValidateElse, Visit
<1>2. e \in Item /\ e.op \notin OpenOps \cup CloseOps /\ e.op \notin Jumps
  BY Items DEF OpenOps, CloseOps, Jumps
<1>3. <<>> \in Errors /\ Strays(<<>>) = {}
  BY StraysOfOne DEF Errors
<1>4. /\ Strays(errors') = StrayJumps(prog')
      /\ errors' \in Errors /\ prog' \in Seq(Item)
  <2> HIDE DEF e
  <2> QED
    BY <1>1, <1>2, <1>3, VisitReports DEF Errors
<1>5. /\ scopes \in Seq(Block) /\ Innermost \in Block /\ Innermost = scopes[N]
      /\ N \in DOMAIN scopes /\ DOMAIN scopes = 1 .. N
  BY VisitFacts
<1>6. b \in Block /\ b.of = "else"
  <2>1. NewBlock("else") \in Block
    BY DEF NewBlock, Block, Flow, ValidationInv, ValidationTypeOK
  <2>2. Innermost.flow \in Flow
    BY <1>5 DEF Block
  <2> QED
    BY <2>1, <2>2 DEF Block, NewBlock
<1>7. /\ scopes' \in Seq(Block) /\ Len(scopes') = N
      /\ \A k \in 1 .. N : /\ scopes'[k].of \in LoopOps <=> scopes[k].of \in LoopOps
                           /\ scopes'[k].of = "body" <=> scopes[k].of = "body"
  <2>1. "then" \notin LoopOps /\ "else" \notin LoopOps
    BY DEF LoopOps
  <2> HIDE DEF b
  <2> QED
    BY <1>1, <1>5, <1>6, <2>1
<1>8. ScopesMatch' /\ Cardinality(LoopsOf(scopes')) = Cardinality(LoopsOf(scopes))
  <2> HIDE DEF e
  <2> QED
    BY <1>1, <1>2, <1>7, SameBlockStep
<1>9. ValidationTypeOK'
  BY <1>1, <1>4, <1>7 DEF ValidationInv, ValidationTypeOK, Errors
<1>10. DepthsNatural'
  <2> HIDE DEF e
  <2> QED
    BY <1>1, <1>2, <1>7, <1>8, DepthsKept
<1> QED
  BY <1>1, <1>4, <1>8, <1>9, <1>10 DEF ValidationInv

\* validateNode enters the block of a statement.
LEMMA EnterStep ==
  ASSUME ValidationInv, NEW e \in Item, e.op \in OpenOps, NEW of, Enter(e, of),
         of \in {"then", "while", "for", "func"}, of \in LoopOps <=> e.op \in LoopOps,
         loop_depth' = IF e.op \in LoopOps THEN loop_depth + 1 ELSE loop_depth,
         ret_void' \in BOOLEAN, validated' = validated
  PROVE  ValidationInv'
<1> DEFINE b == NewBlock(of)
<1>1. /\ ~validated /\ prog' = Append(prog, e) /\ errors' = errors \o Unreachable
      /\ scopes' = Append(scopes, b)
  BY DEF Enter, Visit
<1>2. e.op \notin Jumps
  BY DEF OpenOps, Jumps
<1>3. Unreachable \in Errors /\ Strays(Unreachable) = {}
  BY VisitFacts
<1>4. /\ Strays(errors') = StrayJumps(prog')
      /\ errors' \in Errors /\ prog' \in Seq(Item)
  BY <1>1, <1>2, <1>3, VisitReports DEF Errors
<1>5. b \in Block /\ b.of = of
  BY DEF NewBlock, Block, Flow, ValidationInv, ValidationTypeOK
<1> HIDE DEF b
<1>6. /\ ScopesMatch' /\ scopes' \in Seq(Block)
      /\ Cardinality(LoopsOf(scopes'))
           = IF e.op \in LoopOps THEN Cardinality(LoopsOf(scopes)) + 1
             ELSE Cardinality(LoopsOf(scopes))
  BY <1>1, <1>5, OpenBlockStep
<1>7. ValidationTypeOK'
  BY <1>1, <1>4, <1>6 DEF ValidationInv, ValidationTypeOK, Errors
<1>8. DepthsNatural'
  BY <1>1, <1>6, DepthsKept
<1> QED
  BY <1>1, <1>4, <1>6, <1>7, <1>8 DEF ValidationInv

\* validateNode leaves the block of a statement.
LEMMA LeaveStep ==
  ASSUME ValidationInv, NEW e \in Item, e.op \in CloseOps,
         NEW flow \in Flow, NEW errs \in Errors, Strays(errs) = {}, Leave(e, flow, errs),
         Innermost.of # "body",
         loop_depth' = IF Innermost.of \in LoopOps THEN loop_depth - 1 ELSE loop_depth,
         ret_void' \in BOOLEAN, validated' = validated
  PROVE  ValidationInv'
<1>a. PICK N : N = Len(scopes)
  OBVIOUS
<1>b. PICK b : b = WithFlow(Front(scopes)[N - 1], flow)
  OBVIOUS
<1>1. /\ ~validated /\ prog' = Append(prog, e) /\ errors' = errors \o errs
      /\ scopes' = [Front(scopes) EXCEPT ![N - 1] = b]
  BY <1>a, <1>b DEF Leave, Visit
<1>2. e.op \notin Jumps
  BY DEF CloseOps, Jumps
<1>3. /\ Strays(errors') = StrayJumps(prog')
      /\ errors' \in Errors /\ prog' \in Seq(Item)
  BY <1>1, <1>2, VisitReports DEF Errors
<1>4. /\ scopes \in Seq(Block) /\ N \in Nat \ {0} /\ DOMAIN scopes = 1 .. N
      /\ Innermost = scopes[N] /\ Innermost = Last(scopes)
  <2>1. Innermost = Last(scopes)
    BY DEF Innermost
  <2> QED
    BY <1>a, <2>1, VisitFacts
<1>5. N # 1
  <2>1. \A k \in DOMAIN scopes : scopes[k].of = "body" <=> k = 1
    BY DEF ValidationInv, ScopesMatch
  <2>2. N \in DOMAIN scopes /\ scopes[N].of # "body"
    BY <1>4
  <2> QED
    BY <2>1, <2>2
<1>6. /\ Front(scopes) \in Seq(Block) /\ DOMAIN Front(scopes) = 1 .. N - 1
      /\ \A k \in 1 .. N - 1 : Front(scopes)[k] = scopes[k]
  <2>1. scopes # <<>>
    BY DEF ValidationInv, ScopesMatch
  <2> QED
    BY <1>a, <1>4, <2>1, PopProperties
<1>7. Front(scopes)[N - 1] \in Block /\ N - 1 \in 1 .. N - 1
  BY <1>4, <1>5, <1>6
<1>8. b \in Block /\ b.of = scopes[N - 1].of
  BY <1>b, <1>6, <1>7 DEF WithFlow, Block, Flow
<1>9. /\ scopes' \in Seq(Block) /\ Len(scopes') = N - 1
      /\ \A k \in 1 .. N - 1 : scopes'[k].of = scopes[k].of
  BY <1>1, <1>4, <1>6, <1>7, <1>8
<1>10. /\ ScopesMatch'
       /\ Cardinality(LoopsOf(scopes))
            = IF Innermost.of \in LoopOps THEN Cardinality(LoopsOf(scopes')) + 1
              ELSE Cardinality(LoopsOf(scopes'))
  BY <1>a, <1>1, <1>4, <1>9, CloseBlockStep
<1>11. Cardinality(LoopsOf(scopes')) \in Nat
  BY <1>9, LoopsFinite
<1>12. loop_depth' = Cardinality(LoopsOf(scopes'))
  BY <1>10, <1>11 DEF ValidationInv
<1>13. ValidationTypeOK'
  BY <1>1, <1>3, <1>9, <1>11, <1>12 DEF ValidationInv, ValidationTypeOK, Errors
<1>14. DepthsNatural'
  BY <1>1, <1>9, <1>10, DepthsKept
<1> QED
  BY <1>1, <1>3, <1>10, <1>12, <1>13, <1>14 DEF ValidationInv


\* The missing return that a function's end may report.
LEMMA MissingReturnFacts ==
  ASSUME NEW n \in Nat
  PROVE  MissingReturn(n) \in Errors /\ Strays(MissingReturn(n)) = {}
<1>1. "missing_return" \in ErrorKind /\ "missing_return" \notin JumpErrors
  BY DEF ErrorKind, JumpErrors
<1> QED
  BY <1>1, OneError, StraysOfOne DEF MissingReturn

\* A jump is reported at loop depth 0.
LEMMA JumpReport ==
  ASSUME ValidationInv, NEW k \in JumpErrors, NEW op \in Jumps
  PROVE  LET errs == IF loop_depth = 0 THEN <<<<k, Here>>>> ELSE <<>>
         IN  /\ errs \in Errors
             /\ Strays(errs) = IF Plain(op).op \in Jumps /\ loop_depth = 0
                               THEN {Len(prog) + 1} ELSE {}
<1>1. Here \in Nat /\ Here = Len(prog) + 1
  BY VisitFacts
<1>2. k \in ErrorKind /\ Plain(op).op \in Jumps
  BY DEF JumpErrors, ErrorKind, Plain
<1>3. <<<<k, Here>>>> \in Errors /\ <<>> \in Errors
  BY <1>1, <1>2, OneError
<1> QED
  BY <1>1, <1>2, <1>3, StraysOfOne

\* The walk of validateFunction keeps its invariant, statement by statement.
LEMMA ValidateStep == ASSUME ValidationInv, Validate PROVE ValidationInv'
<1>0. <<>> \in Errors /\ Strays(<<>>) = {} /\ "continues" \in Flow /\ "returns" \in Flow
  BY StraysOfOne DEF Errors, Flow
<1>1. CASE ValidateExpression
  <2>1. PICK op \in {"stmt", "pure"} : Leaf(Plain(op), "continues", <<>>)
    BY <1>1 DEF ValidateExpression
  <2>2. Plain(op) \in Item /\ Plain(op).op \notin OpenOps \cup CloseOps /\ Plain(op).op \notin Jumps
    BY Items DEF OpenOps, CloseOps, Jumps
  <2> QED
    BY <1>0, <2>1, <2>2, LeafStep
<1>2. CASE ValidateReturn
  <2>1. PICK value \in BOOLEAN :
          Leaf(Ret(value), "returns",
               CASE ~value /\ ~ret_void -> <<<<"empty_return", Here>>>>
                 [] value /\ ret_void   -> <<<<"value_in_void", Here>>>>
                 [] OTHER               -> <<>>)
    BY <1>2 DEF ValidateReturn
  <2>2. Here \in Nat
    BY VisitFacts
  <2>3. /\ "empty_return" \in ErrorKind /\ "empty_return" \notin JumpErrors
        /\ "value_in_void" \in ErrorKind /\ "value_in_void" \notin JumpErrors
    BY DEF ErrorKind, JumpErrors
  <2>4. PICK errs : errs = CASE ~value /\ ~ret_void -> <<<<"empty_return", Here>>>>
                             [] value /\ ret_void   -> <<<<"value_in_void", Here>>>>
                             [] OTHER               -> <<>>
    OBVIOUS
  <2>5. errs \in {<<<<"empty_return", Here>>>>, <<<<"value_in_void", Here>>>>, <<>>}
    BY <2>4
  <2>6. errs \in Errors /\ Strays(errs) = {}
    BY <1>0, <2>2, <2>3, <2>5, OneError, StraysOfOne
  <2>7. Ret(value) \in Item /\ Ret(value).op \notin OpenOps \cup CloseOps /\ Ret(value).op \notin Jumps
    BY Items DEF OpenOps, CloseOps, Jumps
  <2>8. Leaf(Ret(value), "returns", errs)
    BY <2>1, <2>4
  <2> QED
    BY <1>0, <2>6, <2>7, <2>8, LeafStep
<1>3. CASE ValidateBreak
  <2> DEFINE errs == IF loop_depth = 0 THEN <<<<"break_outside", Here>>>> ELSE <<>>
  <2>1. Plain("break") \in Item /\ Plain("break").op \notin OpenOps \cup CloseOps
    BY Items DEF OpenOps, CloseOps
  <2>2. /\ errs \in Errors
        /\ Strays(errs) = IF Plain("break").op \in Jumps /\ loop_depth = 0
                          THEN {Len(prog) + 1} ELSE {}
    BY JumpReport DEF JumpErrors, Jumps
  <2>3. Leaf(Plain("break"), "continues", errs)
    BY <1>3 DEF ValidateBreak
  <2> HIDE DEF errs
  <2> QED
    BY <1>0, <2>1, <2>2, <2>3, LeafStep
<1>4. CASE ValidateContinue
  <2> DEFINE errs == IF loop_depth = 0 THEN <<<<"continue_outside", Here>>>> ELSE <<>>
  <2>1. Plain("continue") \in Item /\ Plain("continue").op \notin OpenOps \cup CloseOps
    BY Items DEF OpenOps, CloseOps
  <2>2. /\ errs \in Errors
        /\ Strays(errs) = IF Plain("continue").op \in Jumps /\ loop_depth = 0
                          THEN {Len(prog) + 1} ELSE {}
    BY JumpReport DEF JumpErrors, Jumps
  <2>3. Leaf(Plain("continue"), "continues", errs)
    BY <1>4 DEF ValidateContinue
  <2> HIDE DEF errs
  <2> QED
    BY <1>0, <2>1, <2>2, <2>3, LeafStep
<1>5. CASE ValidateIf
  <2>1. /\ Enter(Plain("if"), "then") /\ UNCHANGED <<loop_depth, ret_void, validated>>
    BY <1>5 DEF ValidateIf
  <2>2. /\ Plain("if") \in Item /\ Plain("if").op \in OpenOps
        /\ "then" \notin LoopOps /\ Plain("if").op \notin LoopOps
    BY Items DEF OpenOps, LoopOps
  <2>3. ret_void' \in BOOLEAN
    BY <2>1 DEF ValidationInv, ValidationTypeOK
  <2> QED
    BY <2>1, <2>2, <2>3, EnterStep
<1>6. CASE ValidateElse
  BY <1>6, ElseBlockStep
<1>7. CASE ValidateEndIf
  <2>1. PICK flow \in Flow : Leave(Plain("endif"), flow, <<>>)
    BY <1>0, <1>7 DEF ValidateEndIf
  <2>2. /\ Innermost.of \notin LoopOps /\ Innermost.of # "body"
        /\ UNCHANGED <<loop_depth, ret_void, validated>>
    BY <1>7 DEF ValidateEndIf, LoopOps
  <2>3. Plain("endif") \in Item /\ Plain("endif").op \in CloseOps
    BY Items DEF CloseOps
  <2>4. ret_void' \in BOOLEAN
    BY <2>2 DEF ValidationInv, ValidationTypeOK
  <2> QED
    BY <1>0, <2>1, <2>2, <2>3, <2>4, LeaveStep
<1>8. CASE ValidateLoop
  <2>1. PICK e \in Item, of \in LoopOps : e.op = of /\ Enter(e, of)
    <3>1. CASE Enter(Plain("while"), "while")
      BY <3>1, Items DEF LoopOps
    <3>2. ASSUME NEW h \in ForHeaders, Enter(For(h), "for")
          PROVE  \E e \in Item, of \in LoopOps : e.op = of /\ Enter(e, of)
      BY <3>2, Items DEF LoopOps
    <3> QED
      BY <1>8, <3>1, <3>2 DEF ValidateLoop
  <2>2. loop_depth' = loop_depth + 1 /\ UNCHANGED <<ret_void, validated>>
    BY <1>8 DEF ValidateLoop
  <2>3. e.op \in OpenOps /\ e.op \in LoopOps /\ of \in {"then", "while", "for", "func"}
    BY <2>1 DEF OpenOps, LoopOps
  <2>4. ret_void' \in BOOLEAN
    BY <2>2 DEF ValidationInv, ValidationTypeOK
  <2> QED
    BY <2>1, <2>2, <2>3, <2>4, EnterStep
<1>9. CASE ValidateEndLoop
  <2>1. PICK op \in {"endwhile", "endfor"} : Leave(Plain(op), "continues", <<>>)
    BY <1>9 DEF ValidateEndLoop
  <2>2. /\ Innermost.of \in LoopOps /\ Innermost.of # "body"
        /\ loop_depth' = loop_depth - 1 /\ UNCHANGED <<ret_void, validated>>
    BY <1>9 DEF ValidateEndLoop, LoopOps
  <2>3. Plain(op) \in Item /\ Plain(op).op \in CloseOps
    BY Items DEF CloseOps
  <2>4. ret_void' \in BOOLEAN
    BY <2>2 DEF ValidationInv, ValidationTypeOK
  <2> QED
    BY <1>0, <2>1, <2>2, <2>3, <2>4, LeaveStep
<1>10. CASE ValidateNestedFunction
  <2>1. PICK void \in BOOLEAN : /\ Enter(Func(void), "func") /\ ret_void' = void
                                /\ UNCHANGED <<loop_depth, validated>>
    BY <1>10 DEF ValidateNestedFunction
  <2>2. /\ Func(void) \in Item /\ Func(void).op \in OpenOps
        /\ "func" \notin LoopOps /\ Func(void).op \notin LoopOps
    BY Items DEF OpenOps, LoopOps
  <2>3. ret_void' \in BOOLEAN
    BY <2>1
  <2> QED
    BY <2>1, <2>2, <2>3, EnterStep
<1>11. CASE ValidateEndNestedFunction
  <2>1. /\ Leave(Plain("endfunc"), "continues", MissingReturn(Here))
        /\ Innermost.of = "func" /\ ret_void' = Innermost.saved_void
        /\ UNCHANGED <<loop_depth, validated>>
    BY <1>11 DEF ValidateEndNestedFunction
  <2>2. Innermost.of \notin LoopOps
    BY <2>1 DEF LoopOps
  <2>3. MissingReturn(Here) \in Errors /\ Strays(MissingReturn(Here)) = {}
    BY VisitFacts, MissingReturnFacts
  <2>4. Plain("endfunc") \in Item /\ Plain("endfunc").op \in CloseOps
    BY Items DEF CloseOps
  <2>5. ret_void' \in BOOLEAN
    BY <2>1, VisitFacts DEF Block
  <2> QED
    BY <1>0, <2>1, <2>2, <2>3, <2>4, <2>5, LeaveStep
<1>12. CASE ValidateFunctionEnd
  <2>1. /\ Innermost.of = "body" /\ errors' = errors \o MissingReturn(0) /\ validated' = TRUE
        /\ UNCHANGED <<prog, scopes, loop_depth, ret_void>>
    BY <1>12 DEF ValidateFunctionEnd
  <2>2. MissingReturn(0) \in Errors /\ Strays(MissingReturn(0)) = {} /\ errors \in Errors
    BY MissingReturnFacts DEF ValidationInv, ValidationTypeOK, Errors
  <2>3. errors' \in Errors /\ Strays(errors') = Strays(errors)
    <3>1. errors \in Seq(ErrorKind \X Nat) /\ MissingReturn(0) \in Seq(ErrorKind \X Nat)
      BY <2>2 DEF Errors
    <3>2. Strays(errors \o MissingReturn(0)) = Strays(errors) \cup Strays(MissingReturn(0))
      BY <3>1, StraysAppended
    <3>3. errors' \in Errors
      BY <2>1, <3>1, ConcatProperties DEF Errors
    <3> QED
      BY <2>1, <2>2, <3>2, <3>3
  <2>4. Len(scopes) = 1
    <3>1. \A k \in DOMAIN scopes : scopes[k].of = "body" <=> k = 1
      BY DEF ValidationInv, ScopesMatch
    <3>2. Len(scopes) \in DOMAIN scopes /\ Innermost = scopes[Len(scopes)]
      BY VisitFacts
    <3> QED
      BY <2>1, <3>1, <3>2
  <2>5. ValidationTypeOK'
    BY <2>1, <2>3 DEF ValidationInv, ValidationTypeOK, Errors
  <2>6. ScopesMatch'
    BY <2>1 DEF ValidationInv, ScopesMatch, LoopsOf
  <2>7. loop_depth' = Cardinality(LoopsOf(scopes'))
    BY <2>1 DEF ValidationInv
  <2>8. Strays(errors') = StrayJumps(prog')
    BY <2>1, <2>3 DEF ValidationInv
  <2>9. DepthsNatural'
    BY <2>1 DEF ValidationInv, DepthsNatural
  <2> QED
    BY <2>1, <2>4, <2>5, <2>6, <2>7, <2>8, <2>9 DEF ValidationInv
<1> QED
  BY <1>1, <1>2, <1>3, <1>4, <1>5, <1>6, <1>7, <1>8, <1>9, <1>10, <1>11, <1>12 DEF Validate

\* Nothing has been walked at first.
LEMMA ValidationStarts == ValidationInit => ValidationInv
<1> SUFFICES ASSUME ValidationInit PROVE ValidationInv
  OBVIOUS
<1>1. /\ prog = <<>> /\ errors = <<>> /\ loop_depth = 0 /\ validated = FALSE
      /\ scopes = <<NewBlock("body")>> /\ ret_void \in BOOLEAN
  BY DEF ValidationInit
<1>2. NewBlock("body") \in Block /\ NewBlock("body").of = "body"
  BY <1>1 DEF NewBlock, Block, Flow
<1>3. /\ scopes \in Seq(Block) /\ Len(scopes) = 1 /\ DOMAIN scopes = {1} /\ scopes # <<>>
      /\ scopes[1] = NewBlock("body")
  <2> DEFINE b == NewBlock("body")
  <2>1. scopes = <<b>>
    BY <1>1
  <2> HIDE DEF b
  <2> QED
    BY <1>2, <2>1 DEF b
<1>4. ValidationTypeOK
  <2>1. <<>> \in Seq(Item) /\ <<>> \in Seq(ErrorKind \X Nat)
    BY EmptySeq
  <2> QED
    BY <1>1, <1>3, <2>1 DEF ValidationTypeOK
<1>5. LoopsOf(scopes) = {}
  BY <1>2, <1>3 DEF LoopsOf, LoopOps
<1>6. Len(prog) + 1 = 1 /\ Depth(prog, 1) = 0 /\ \A m : ~Inside(prog, m, 1)
  <2>1. Depth(prog, 1) = 0
    BY DepthNext
  <2> QED
    BY <1>1, <2>1 DEF Inside
<1>7. ScopesMatch
  <2>1. \A k \in DOMAIN scopes : scopes[k].of = "body" <=> k = 1
    BY <1>2, <1>3
  <2>2. Len(prog) + 1 = 1 /\ Depth(prog, Len(prog) + 1) = Len(scopes) - 1
    BY <1>3, <1>6
  <2> QED
    BY <1>3, <1>5, <1>6, <2>1, <2>2 DEF ScopesMatch
<1>8. Strays(errors) = StrayJumps(prog)
  <2>1. DOMAIN prog = {}
    BY <1>1
  <2> QED
    BY <1>1, <2>1, StraysOfOne DEF StrayJumps
<1>9. DepthsNatural
  BY <1>6 DEF DepthsNatural
<1> QED
  BY <1>1, <1>3, <1>4, <1>5, <1>7, <1>8, <1>9, FS_EmptySet DEF ValidationInv


-----------------------------------------------------------------------------
(* The lowering of a body that was accepted *)

\* The call stack of the lowering stands for the structure of the body around
\* the next statement: as deep, with the frame of a loop for every loop.
FramesMatch ==
  outcome = "lowering" =>
    /\ cursor \in 0 .. Len(prog)
    /\ NextPosition \in 1 .. Len(prog) + 1
    /\ Len(frames) = Depth(prog, NextPosition)
    /\ \A m : Inside(prog, m, NextPosition) /\ prog[m].op \in LoopOps =>
         /\ Depth(prog, m) + 1 \in DOMAIN frames
         /\ frames[Depth(prog, m) + 1].of \in LoopOps

\* The inductive invariant of the two passes.
CompilationInv ==
  /\ ValidationInv
  /\ LoweringInv
  /\ LoopTargetsMatchLoops
  /\ FramesMatch
  /\ ~validated => cursor = 0 /\ frames = <<>>
  /\ outcome # "no_loop_target"

\* At the end of the walk every statement is closed.
LEMMA ClosedAtEnd ==
  ASSUME ValidationInv, validated, NEW m \in DOMAIN prog, prog[m].op \in OpenOps
  PROVE  /\ Close(prog, m) \in m + 1 .. Len(prog)
         /\ Depth(prog, Close(prog, m) + 1) = Depth(prog, m)
         /\ \A j \in m + 1 .. Close(prog, m) : Depth(prog, j) > Depth(prog, m)
         /\ \A n \in m + 1 .. Len(prog) + 1 : Inside(prog, m, n) <=> ~(Close(prog, m) < n)
<1>1. prog \in Seq(Item) /\ Len(prog) \in Nat /\ m \in 1 .. Len(prog)
  BY DEF ValidationInv, ValidationTypeOK
<1>2. Depth(prog, Len(prog) + 1) = 0
  <2>1. Len(scopes) = 1
    BY DEF ValidationInv
  <2>2. Depth(prog, Len(prog) + 1) = Len(scopes) - 1
    BY DEF ValidationInv, ScopesMatch
  <2> QED
    BY <2>1, <2>2
<1>3. Depth(prog, m) >= 0
  BY <1>1 DEF ValidationInv, DepthsNatural
<1> QED
  BY <1>1, <1>2, <1>3, CloseBefore

\* The errors about jumps are those of the source.
LEMMA InvariantReports == ValidationInv => StrayJumpsReported
<1> SUFFICES ASSUME ValidationInv, validated PROVE Strays(errors) =
      {n \in DOMAIN prog :
         /\ prog[n].op \in {"break", "continue"}
         /\ \A m \in 1 .. n - 1 : prog[m].op \in LoopOps => Close(prog, m) < n}
  BY DEF StrayJumpsReported, Strays, JumpErrors
<1>1. DOMAIN prog = 1 .. Len(prog) /\ Len(prog) \in Nat
  BY DEF ValidationInv, ValidationTypeOK
<1>2. ASSUME NEW n \in DOMAIN prog, NEW m \in 1 .. n - 1, prog[m].op \in LoopOps
      PROVE  ~Inside(prog, m, n) <=> Close(prog, m) < n
  <2>1. m \in DOMAIN prog /\ n \in m + 1 .. Len(prog) + 1
    BY <1>1
  <2>2. prog[m].op \in OpenOps
    BY <1>2 DEF OpenOps, LoopOps
  <2> QED
    BY <2>1, <2>2, ClosedAtEnd
<1> QED
  BY <1>2 DEF ValidationInv, StrayJumps, Jumps

\* The lowering finds a loop target for every jump it gets to.
LEMMA JumpHasTarget ==
  ASSUME CompilationInv, Accepted, outcome = "lowering",
         NextPosition <= Len(prog), prog[NextPosition].op \in Jumps
  PROVE  loop_targets # <<>>
<1>a. PICK q : q = NextPosition
  OBVIOUS
<1>1. /\ ValidationInv /\ validated /\ errors = <<>>
  BY DEF CompilationInv, Accepted
<1>2. DOMAIN prog = 1 .. Len(prog) /\ Len(prog) \in Nat
  BY <1>1 DEF ValidationInv, ValidationTypeOK
<1>3. q \in 1 .. Len(prog) + 1 /\ q <= Len(prog)
  BY <1>a DEF CompilationInv, FramesMatch
<1>4. q \in DOMAIN prog
  BY <1>2, <1>3
<1>5. q \notin StrayJumps(prog)
  BY <1>1, StraysOfOne DEF ValidationInv
<1>6. PICK m \in 1 .. q - 1 : prog[m].op \in LoopOps /\ Inside(prog, m, q)
  BY <1>a, <1>4, <1>5 DEF StrayJumps
<1>7. Depth(prog, m) + 1 \in LoopsOf(frames)
  BY <1>a, <1>6 DEF CompilationInv, FramesMatch, LoopsOf
<1>8. frames \in Seq(Frame) /\ loop_targets \in Seq(LoopTarget)
  BY DEF CompilationInv, LoweringInv, LoweringTypeOK
<1>9. Cardinality(LoopsOf(frames)) # 0
  BY <1>7, <1>8, LoopsFinite
<1>10. Len(loop_targets) = Cardinality(LoopsOf(frames))
  BY DEF CompilationInv, LoopTargetsMatchLoops
<1> QED
  BY <1>8, <1>9, <1>10, EmptySeq

\* Where the lowering goes from the statement at q.
LEMMA NextOf ==
  ASSUME ValidationInv, validated, NEW q \in DOMAIN prog, prog' = prog, cursor' = q
  PROVE  /\ prog[q].op # "func" => NextPosition' = q + 1
         /\ prog[q].op = "func" =>
              /\ NextPosition' \in q + 2 .. Len(prog) + 1
              /\ Depth(prog, NextPosition') = Depth(prog, q)
              /\ \A m : Inside(prog, m, NextPosition') => Inside(prog, m, q)
<1>1. DOMAIN prog = 1 .. Len(prog) /\ Len(prog) \in Nat /\ q \in 1 .. Len(prog)
  BY DEF ValidationInv, ValidationTypeOK
<1>2. NextPosition' = IF prog[q].op = "func" THEN Close(prog, q) + 1 ELSE q + 1
  BY <1>1 DEF NextPosition
<1>3. ASSUME prog[q].op = "func"
      PROVE  /\ NextPosition' \in q + 2 .. Len(prog) + 1
             /\ Depth(prog, NextPosition') = Depth(prog, q)
             /\ \A m : Inside(prog, m, NextPosition') => Inside(prog, m, q)
  <2>a. PICK c : c = Close(prog, q)
    OBVIOUS
  <2>1. /\ c \in q + 1 .. Len(prog)
        /\ Depth(prog, c + 1) = Depth(prog, q)
        /\ \A j \in q + 1 .. c : Depth(prog, j) > Depth(prog, q)
    <3>1. prog[q].op \in OpenOps
      BY <1>3 DEF OpenOps
    <3> QED
      BY <2>a, <3>1, ClosedAtEnd
  <2>2. NextPosition' = c + 1
    BY <1>2, <1>3, <2>a
  <2>3. ASSUME NEW m, Inside(prog, m, c + 1) PROVE Inside(prog, m, q)
    <3>1. /\ m \in 1 .. c /\ prog[m].op \in OpenOps
          /\ \A j \in m + 1 .. c + 1 : Depth(prog, j) > Depth(prog, m)
      BY <1>1, <2>1, <2>3 DEF Inside
    <3>2. Depth(prog, c + 1) > Depth(prog, m) /\ Depth(prog, m) \in Int /\ Depth(prog, q) \in Int
      BY <1>1, <2>1, <3>1, DepthNext
    <3>3. m # q /\ m \notin q + 1 .. c
      BY <2>1, <3>2
    <3>4. m \in 1 .. q - 1 /\ \A j \in m + 1 .. q : j \in m + 1 .. c + 1
      BY <1>1, <2>1, <3>1, <3>3
    <3> QED
      BY <3>1, <3>4 DEF Inside
  <2> QED
    BY <1>1, <2>1, <2>2, <2>3
<1> QED
  BY <1>2, <1>3

\* The call stack of the lowering follows the structure of the body.
LEMMA FramesStep ==
  ASSUME CompilationInv, Accepted, NEW q, q = NextPosition, q <= Len(prog),
         NEW e, e = prog[q], Lower(q, e), prog' = prog
  PROVE  FramesMatch'
<1>1. ValidationInv /\ validated /\ outcome = "lowering" /\ cursor' = q
  BY DEF CompilationInv, Accepted, Lower
<1>2. prog \in Seq(Item) /\ DOMAIN prog = 1 .. Len(prog) /\ Len(prog) \in Nat
  BY <1>1 DEF ValidationInv, ValidationTypeOK
<1>3. /\ q \in 1 .. Len(prog) /\ q \in DOMAIN prog /\ q \in Nat \ {0}
      /\ Len(frames) = Depth(prog, q)
      /\ \A m : Inside(prog, m, q) /\ prog[m].op \in LoopOps =>
           /\ Depth(prog, m) + 1 \in DOMAIN frames
           /\ frames[Depth(prog, m) + 1].of \in LoopOps
  <2>1. FramesMatch
    BY DEF CompilationInv
  <2> QED
    BY <1>1, <1>2, <2>1 DEF FramesMatch
<1>4. frames \in Seq(Frame) /\ Len(frames) \in Nat /\ DOMAIN frames = 1 .. Len(frames)
  BY DEF CompilationInv, LoweringInv, LoweringTypeOK
<1>5. /\ e.op # "func" => NextPosition' = q + 1
      /\ e.op = "func" =>
           /\ NextPosition' \in q + 2 .. Len(prog) + 1
           /\ Depth(prog, NextPosition') = Depth(prog, q)
           /\ \A m : Inside(prog, m, NextPosition') => Inside(prog, m, q)
  BY <1>1, <1>3, NextOf
<1>6. /\ Depth(prog, q) \in Int
      /\ e.op \in OpenOps => Depth(prog, q + 1) = Depth(prog, q) + 1
      /\ e.op \in CloseOps => Depth(prog, q + 1) = Depth(prog, q) - 1
      /\ e.op \notin OpenOps \cup CloseOps => Depth(prog, q + 1) = Depth(prog, q)
  BY <1>3, DepthNext
<1>7. \A m : Inside(prog, m, q + 1) <=>
              \/ m = q /\ e.op \in OpenOps
              \/ Inside(prog, m, q) /\ Depth(prog, q + 1) > Depth(prog, m)
  BY <1>3, InsideNext
<1>8. cursor' \in 0 .. Len(prog) /\ q + 1 \in 1 .. Len(prog) + 1
  BY <1>1, <1>2, <1>3
<1> SUFFICES ASSUME outcome' = "lowering" PROVE FramesMatch'
  BY DEF FramesMatch
<1>9. LowerItem(q, e)
  BY DEF Lower, LowerFails
<1>10. CASE e.op = "func" /\ LowerNothing
  <2>1. frames' = frames /\ NextPosition' \in 1 .. Len(prog) + 1
    BY <1>2, <1>3, <1>5, <1>10 DEF LowerNothing
  <2> QED
    BY <1>3, <1>5, <1>8, <1>10, <2>1 DEF FramesMatch
<1>11. CASE e.op \in {"stmt", "pure", "ret", "break", "continue", "else"}
  <2>1. e.op \notin OpenOps \cup CloseOps /\ e.op # "func"
    BY <1>11 DEF OpenOps, CloseOps
  <2>2. DOMAIN frames' = DOMAIN frames /\ Len(frames') = Len(frames)
        /\ \A k \in DOMAIN frames : frames[k].of \in LoopOps => frames'[k].of \in LoopOps
    <3>1. CASE LowerElse
      <4> DEFINE N == Len(frames)
      <4>1. N \in DOMAIN frames /\ frames[N].of = "then" /\ frames[N] \in Frame
        <5>1. frames # <<>> /\ InnermostFrame.of = "then"
          BY <3>1 DEF LowerElse
        <5>2. LoweringInv
          BY DEF CompilationInv
        <5>3. InnermostFrame = frames[Len(frames)] /\ Len(frames) \in DOMAIN frames
              /\ InnermostFrame \in Frame
          BY <1>1, <5>1, <5>2, InnermostFacts
        <5> QED
          BY <5>1, <5>3
      <4>2. frames' = [frames EXCEPT ![N].of = "else"]
        BY <3>1 DEF LowerElse
      <4> HIDE DEF N
      <4>3. /\ DOMAIN frames' = DOMAIN frames /\ Len(frames') = Len(frames)
            /\ \A k \in DOMAIN frames : k # N => frames'[k] = frames[k]
        BY <1>4, <4>1, <4>2
      <4>4. "then" \notin LoopOps
        BY DEF LoopOps
      <4> QED
        BY <1>4, <4>1, <4>3, <4>4
    <3>2. CASE frames' = frames
      BY <3>2
    <3> QED
      BY <1>9, <1>11, <3>1, <3>2 DEF LowerItem, LowerSimple, LowerNothing, LowerReturn,
         LowerJump
  <2> QED
    BY <1>3, <1>5, <1>6, <1>7, <1>8, <2>1, <2>2 DEF FramesMatch
<1>12. CASE e.op \in {"if", "while", "for"}
  <2>1. e.op \in OpenOps /\ e.op # "func"
    BY <1>12 DEF OpenOps
  <2>2. PICK f \in Frame : frames' = Append(frames, f) /\ (e.op \in LoopOps => f.of \in LoopOps)
    <3>0. /\ New(1) \in Nat /\ New(2) \in Nat /\ New(3) \in Nat /\ New(4) \in Nat
          /\ q \in Nat
      <4>1. LoweringInv
        BY DEF CompilationInv
      <4>2. block_count \in Nat
        BY <4>1 DEF LoweringInv, LoweringTypeOK
      <4> QED
        BY <1>3, <4>2 DEF New
    <3>1. CASE e.op = "if" /\ LowerIf(q)
      <4>1. e.op \notin LoopOps
        BY <3>1 DEF LoopOps
      <4>2. frames' = Append(frames, [of |-> "then", src |-> q, update |-> FALSE,
                                      next |-> New(2), cond |-> New(3), end |-> New(3)])
        BY <3>1 DEF LowerIf
      <4> QED
        BY <3>0, <4>1, <4>2 DEF Frame
    <3>2. CASE e.op = "while" /\ LowerWhile(q)
      <4>1. "while" \in LoopOps
        BY DEF LoopOps
      <4>a. PICK f : f = [of |-> "while", src |-> q, update |-> FALSE,
                          next |-> New(1), cond |-> New(1), end |-> New(3)]
        OBVIOUS
      <4>2. frames' = Append(frames, f)
        BY <3>2, <4>a DEF LowerWhile
      <4>3. f \in Frame /\ f.of = "while"
        BY <3>0, <4>a DEF Frame
      <4> QED
        BY <4>1, <4>2, <4>3
    <3>3. CASE e.op = "for" /\ LowerFor(q, e.header)
      <4>1. e \in Item
        BY <1>2, <1>3
      <4>2. PICK h \in ForHeaders : e = For(h)
        BY <3>3, <4>1 DEF Item, SimpleItem, OpenItem, CloseOps, Plain, Ret, Func
      <4>3. e.header.update \in BOOLEAN
        BY <4>2, ForHeadersAssumption DEF For, ForHeader
      <4>4. frames' = Append(frames, [of |-> "for", src |-> q, update |-> e.header.update,
                                      next |-> New(3), cond |-> New(1), end |-> New(4)])
        BY <3>3 DEF LowerFor
      <4> QED
        BY <3>0, <4>3, <4>4 DEF Frame, LoopOps
    <3> QED
      BY <1>9, <1>12, <3>1, <3>2, <3>3 DEF LowerItem
  <2>3. /\ DOMAIN frames' = 1 .. Len(frames) + 1 /\ frames'[Len(frames) + 1] = f
        /\ Len(frames') = Len(frames) + 1
        /\ \A k \in 1 .. Len(frames) : frames'[k] = frames[k]
    BY <1>4, <2>2, PushProperties
  <2>4. NextPosition' = q + 1 /\ Depth(prog, q + 1) = Depth(prog, q) + 1
    BY <1>5, <1>6, <2>1
  <2>5. ASSUME NEW m, Inside(prog, m, q + 1), prog[m].op \in LoopOps
        PROVE  /\ Depth(prog, m) + 1 \in DOMAIN frames'
               /\ frames'[Depth(prog, m) + 1].of \in LoopOps
    <3>1. CASE m = q
      BY <1>3, <1>4, <2>2, <2>3, <2>5, <3>1
    <3>2. CASE Inside(prog, m, q)
      BY <1>3, <1>4, <2>3, <2>5, <3>2
    <3> QED
      BY <1>7, <2>5, <3>1, <3>2
  <2> QED
    BY <1>3, <1>4, <1>8, <2>3, <2>4, <2>5 DEF FramesMatch
<1>13. CASE e.op \in {"endif", "endwhile", "endfor"}
  <2>1. e.op \in CloseOps /\ e.op \notin OpenOps /\ e.op # "func"
    BY <1>13 DEF OpenOps, CloseOps
  <2>2. frames # <<>> /\ frames' = Front(frames)
    BY <1>9, <1>13 DEF LowerItem, LowerEndIf, LowerEndWhile, LowerEndFor
  <2>3. /\ DOMAIN frames' = 1 .. Len(frames) - 1 /\ Len(frames') = Len(frames) - 1
        /\ \A k \in 1 .. Len(frames) - 1 : frames'[k] = frames[k]
    <3>1. Len(frames) # 0
      BY <1>4, <2>2, EmptySeq
    <3>2. Front(frames) \in Seq(Frame)
      BY <1>4, PopProperties
    <3>3. /\ DOMAIN Front(frames) = 1 .. Len(frames) - 1
          /\ \A k \in DOMAIN Front(frames) : Front(frames)[k] = frames[k]
      BY <1>4, <2>2, PopProperties
    <3>4. Len(Front(frames)) \in Nat /\ DOMAIN Front(frames) = 1 .. Len(Front(frames))
      BY <3>2, LenProperties
    <3>5. Len(Front(frames)) = Len(frames) - 1
      <4>1. PICK a, b : a = Len(Front(frames)) /\ b = Len(frames)
        OBVIOUS
      <4>2. a \in Nat /\ b \in Nat /\ b # 0 /\ 1 .. a = 1 .. b - 1
        BY <1>4, <3>1, <3>3, <3>4, <4>1
      <4>3. ~(a < b - 1) /\ ~(b - 1 < a)
        <5>1. a + 1 \notin 1 .. a /\ b \notin 1 .. b - 1
          BY <4>2
        <5>2. (a < b - 1 => a + 1 \in 1 .. b - 1) /\ (b - 1 < a => b \in 1 .. a)
          BY <4>2
        <5> QED
          BY <4>2, <5>1, <5>2
      <4> QED
        BY <4>1, <4>2, <4>3
    <3> QED
      BY <2>2, <3>3, <3>5
  <2>4. NextPosition' = q + 1 /\ Depth(prog, q + 1) = Depth(prog, q) - 1
    BY <1>5, <1>6, <2>1
  <2>5. ASSUME NEW m, Inside(prog, m, q + 1), prog[m].op \in LoopOps
        PROVE  /\ Depth(prog, m) + 1 \in DOMAIN frames'
               /\ frames'[Depth(prog, m) + 1].of \in LoopOps
    <3>1. Inside(prog, m, q) /\ Depth(prog, q + 1) > Depth(prog, m)
      BY <1>7, <2>1, <2>5
    <3>2. Depth(prog, m) + 1 \in 1 .. Len(frames) /\ frames[Depth(prog, m) + 1].of \in LoopOps
      BY <1>3, <1>4, <2>5, <3>1
    <3>3. Depth(prog, m) \in Int
      <4>1. m \in Nat \ {0}
        BY <1>3, <3>1 DEF Inside
      <4> QED
        BY <4>1, DepthNext
    <3> QED
      BY <1>3, <1>4, <2>3, <2>4, <3>1, <3>2, <3>3
  <2> QED
    BY <1>3, <1>4, <1>8, <2>3, <2>4, <2>5 DEF FramesMatch
<1> QED
  BY <1>9, <1>10, <1>11, <1>12, <1>13 DEF LowerItem

-----------------------------------------------------------------------------
(* The two passes together *)

\* The validation is over when the body is lowered.
LEMMA ValidationKept == ASSUME ValidationInv, UNCHANGED validationVars PROVE ValidationInv'
<1>1. /\ prog' = prog /\ scopes' = scopes /\ loop_depth' = loop_depth
      /\ ret_void' = ret_void /\ errors' = errors /\ validated' = validated
  BY DEF validationVars
<1>2. ValidationTypeOK'
  BY <1>1 DEF ValidationInv, ValidationTypeOK
<1>3. ScopesMatch' /\ DepthsNatural'
  BY <1>1 DEF ValidationInv, ScopesMatch, DepthsNatural, LoopsOf
<1>4. loop_depth' = Cardinality(LoopsOf(scopes')) /\ Strays(errors') = StrayJumps(prog')
  BY <1>1 DEF ValidationInv
<1>5. validated' => Len(scopes') = 1
  BY <1>1 DEF ValidationInv
<1> QED
  BY <1>2, <1>3, <1>4, <1>5 DEF ValidationInv

\* Nothing is lowered when the body is validated or run.
LEMMA LoweringKept ==
  ASSUME LoweringInv, LoopTargetsMatchLoops, UNCHANGED loweringVars
  PROVE  LoweringInv' /\ LoopTargetsMatchLoops'
<1>1. LoweringInv'
  BY NextKeepsInv
<1>2. LoopTargetsMatchLoops'
  BY DEF loweringVars, LoopTargetsMatchLoops, LoopsOf
<1> QED
  BY <1>1, <1>2

\* Lowering a statement keeps the invariant.
LEMMA LowerNextStep == ASSUME CompilationInv, LowerNext PROVE CompilationInv'
<1>a. PICK q, e : q = NextPosition /\ e = prog[q]
  OBVIOUS
<1>1. /\ Accepted /\ q <= Len(prog) /\ Lower(q, e)
      /\ UNCHANGED validationVars
  BY <1>a DEF LowerNext
<1>2. prog' = prog /\ validated' = validated /\ validated
  BY <1>1 DEF validationVars, Accepted
<1>3. ValidationInv /\ LoweringInv /\ LoopTargetsMatchLoops /\ FramesMatch
  BY DEF CompilationInv
<1>4. outcome = "lowering"
  BY <1>1 DEF Lower
<1>5. q \in Nat /\ q \in DOMAIN prog
  <2>1. Len(prog) \in Nat /\ DOMAIN prog = 1 .. Len(prog)
    BY <1>3 DEF ValidationInv, ValidationTypeOK
  <2>2. q \in 1 .. Len(prog) + 1
    BY <1>a, <1>3, <1>4 DEF FramesMatch
  <2> QED
    BY <1>1, <2>1, <2>2
<1>6. e \in Item
  BY <1>a, <1>3, <1>5 DEF ValidationInv, ValidationTypeOK
<1>7. LoweringInv'
  BY <1>1, <1>3, <1>5, <1>6, ItemStep
<1>8. LoopTargetsMatchLoops'
  BY <1>1, <1>3, <1>5, <1>6, ItemKeepsTargets
<1>9. FramesMatch'
  BY <1>a, <1>1, <1>2, FramesStep
<1>10. ValidationInv'
  BY <1>1, <1>3, ValidationKept
<1>11. outcome' # "no_loop_target"
  <2>1. ASSUME outcome' = "no_loop_target" PROVE FALSE
    <3>1. LowerJump(e.op) /\ e.op \in Jumps /\ loop_targets = <<>>
      BY <1>1, <1>4, <2>1 DEF Lower, LowerFails, LowerItem, LowerSimple, LowerNothing,
         LowerReturn,
         LowerJump, LowerIf, LowerElse, LowerEndIf, LowerWhile, LowerEndWhile, LowerFor, LowerEndFor, Jumps
    <3>2. loop_targets # <<>>
      BY <1>a, <1>1, <1>4, <3>1, JumpHasTarget
    <3> QED
      BY <3>1, <3>2
  <2> QED
    BY <2>1
<1> QED
  BY <1>2, <1>7, <1>8, <1>9, <1>10, <1>11 DEF CompilationInv

\* The end of the function keeps it.
LEMMA LowerEndStep == ASSUME CompilationInv, LowerEnd PROVE CompilationInv'
<1>1. LowerFunctionEnd /\ UNCHANGED validationVars /\ Accepted
  BY DEF LowerEnd
<1>2. outcome' = "done"
  BY <1>1 DEF LowerFunctionEnd
<1>3. ValidationInv /\ LoweringInv
  BY DEF CompilationInv
<1>4. ValidationInv' /\ LoweringInv'
  BY <1>1, <1>3, FunctionEndStep, ValidationKept
<1>5. LoopTargetsMatchLoops' /\ FramesMatch'
  BY <1>2 DEF LoopTargetsMatchLoops, FramesMatch
<1>6. validated'
  BY <1>1 DEF validationVars, Accepted
<1> QED
  BY <1>2, <1>4, <1>5, <1>6 DEF CompilationInv

\* The validation pass keeps it: the lowering has not started.
LEMMA ValidationPassStep ==
  ASSUME CompilationInv, Validate, UNCHANGED loweringVars PROVE CompilationInv'
<1>1. ~validated
  BY DEF Validate, ValidateExpression, ValidateReturn, ValidateBreak, ValidateContinue,
     ValidateIf,
     ValidateElse, ValidateEndIf, ValidateLoop, ValidateEndLoop, ValidateNestedFunction,
     ValidateEndNestedFunction, ValidateFunctionEnd, Leaf, Enter, Leave, Visit
<1>2. ValidationInv /\ LoweringInv /\ LoopTargetsMatchLoops
  BY DEF CompilationInv
<1>3. ValidationInv'
  BY <1>2, ValidateStep
<1>4. cursor = 0 /\ frames = <<>> /\ cursor' = 0 /\ frames' = <<>> /\ outcome' # "no_loop_target"
  BY <1>1 DEF CompilationInv, loweringVars
<1>5. LoweringInv' /\ LoopTargetsMatchLoops'
  BY <1>2, LoweringKept
<1>6. FramesMatch'
  <2>1. Len(prog') \in Nat
    BY <1>3 DEF ValidationInv, ValidationTypeOK
  <2>2. NextPosition' = 1
    BY <1>4 DEF NextPosition
  <2>3. Depth(prog', 1) = 0
    BY DepthNext
  <2>4. \A m : ~Inside(prog', m, 1)
    BY DEF Inside
  <2> QED
    BY <1>4, <2>1, <2>2, <2>3, <2>4 DEF FramesMatch
<1> QED
  BY <1>3, <1>4, <1>5, <1>6 DEF CompilationInv

\* The run of the compiled code changes nothing of the two passes.
LEMMA RunStep ==
  ASSUME CompilationInv, UNCHANGED <<validationVars, loweringVars>> PROVE CompilationInv'
<1>1. ValidationInv /\ LoweringInv /\ LoopTargetsMatchLoops
  BY DEF CompilationInv
<1>2. ValidationInv' /\ LoweringInv' /\ LoopTargetsMatchLoops'
  BY <1>1, ValidationKept, LoweringKept
<1>3. /\ prog' = prog /\ validated' = validated
      /\ cursor' = cursor /\ frames' = frames /\ outcome' = outcome
  BY DEF validationVars, loweringVars
<1>4. FramesMatch'
  BY <1>3 DEF CompilationInv, FramesMatch, NextPosition
<1> QED
  BY <1>2, <1>3, <1>4 DEF CompilationInv

\* Every step keeps the invariant.
LEMMA CompilationStep == CompilationInv /\ [Next]_vars => CompilationInv'
<1> SUFFICES ASSUME CompilationInv, [Next]_vars PROVE CompilationInv'
  OBVIOUS
<1>1. CASE Validate /\ UNCHANGED <<loweringVars, runVars>>
  BY <1>1, ValidationPassStep
<1>2. CASE LowerNext
  BY <1>2, LowerNextStep
<1>3. CASE LowerEnd
  BY <1>3, LowerEndStep
<1>4. CASE \/ Start \/ ExecuteStatement \/ ExecuteBranch \/ ExecuteCondition \/ ExecuteReturn
           \/ Finished \/ UNCHANGED vars
  <2>1. UNCHANGED <<validationVars, loweringVars>>
    BY <1>4 DEF Start, ExecuteStatement, ExecuteBranch, ExecuteCondition, ExecuteReturn,
       Finished, Executing, vars
  <2> QED
    BY <2>1, RunStep
<1> QED
  BY <1>1, <1>2, <1>3, <1>4 DEF Next

\* Neither pass has started at first.
LEMMA CompilationStarts == Init => CompilationInv
<1> SUFFICES ASSUME Init PROVE CompilationInv
  OBVIOUS
<1>1. ValidationInit /\ LoweringInit
  BY DEF Init
<1>2. ValidationInv /\ LoweringInv
  BY <1>1, ValidationStarts, InitEstablishesInv
<1>3. /\ cursor = 0 /\ frames = <<>> /\ loop_targets = <<>> /\ outcome = "lowering"
  BY <1>1 DEF LoweringInit
<1>4. LoopTargetsMatchLoops
  <2>1. LoopsOf(frames) = {} /\ Len(loop_targets) = 0
    BY <1>3 DEF LoopsOf
  <2> QED
    BY <2>1, FS_EmptySet DEF LoopTargetsMatchLoops
<1>5. FramesMatch
  <2>1. NextPosition = 1 /\ Len(frames) = 0
    BY <1>3 DEF NextPosition
  <2>2. Depth(prog, 1) = 0 /\ \A m : ~Inside(prog, m, 1)
    BY DepthNext DEF Inside
  <2>3. Len(prog) \in Nat
    BY <1>2 DEF ValidationInv, ValidationTypeOK
  <2> QED
    BY <1>3, <2>1, <2>2, <2>3 DEF FramesMatch
<1> QED
  BY <1>2, <1>3, <1>4, <1>5 DEF CompilationInv

\* Throughout a compilation and the run that follows it, the stacks that
\* validateBlock and the lowering functions keep stand for the same structure.
THEOREM CompilationInvariant == Spec => []CompilationInv
<1> QED
  BY CompilationStarts, CompilationStep, PTL DEF Spec

\* irBuilderLowerBreakStatement and irBuilderLowerContinueStatement find a loop
\* target whenever validateProgram reported nothing, for function bodies of
\* every size and nesting, nested functions included.
THEOREM JumpsAlwaysHaveTargets == Spec => []JumpsHaveTargets
<1>1. CompilationInv => JumpsHaveTargets
  BY DEF CompilationInv, ValidationInv, LoweringInv, JumpsHaveTargets, TypeOK
<1> QED
  BY <1>1, CompilationInvariant, PTL

\* validateNode reports the break and continue statements that no loop
\* surrounds and no other, for function bodies of every size and nesting.
THEOREM StrayJumpsAlwaysReported == Spec => []StrayJumpsReported
<1>1. CompilationInv => StrayJumpsReported
  BY InvariantReports DEF CompilationInv
<1> QED
  BY <1>1, CompilationInvariant, PTL

-----------------------------------------------------------------------------
(* The history of the validation: its call stack before every item of the  *)
(* body.  The lowering walks the same body later and never sees this stack. *)

LeafOps == {"stmt", "pure", "ret", "break", "continue"}

\* What a block that is left gives to the block around it.
ResultOf(b) ==
  IF b.of = "else" /\ b.then_flow = "returns" /\ b.flow = "returns"
  THEN "returns" ELSE "continues"

\* The blocks that an item closes.
ClosedBy(op) ==
  CASE op = "endif"    -> {"then", "else"}
    [] op = "endwhile" -> {"while"}
    [] op = "endfor"   -> {"for"}
    [] op = "endfunc"  -> {"func"}

\* s and t are the same up to block k.
Alike(s, t, k) == \A i \in 1 .. k : t[i] = s[i]

WalkLeaf(s, e, t) ==
  /\ e.op \in LeafOps /\ Len(t) = Len(s) /\ Alike(s, t, Len(s) - 1)
  /\ t[Len(s)].of = s[Len(s)].of /\ t[Len(s)].then_flow = s[Len(s)].then_flow
  /\ t[Len(s)].flow = IF e.op = "ret" THEN "returns" ELSE s[Len(s)].flow

WalkElse(s, e, t) ==
  /\ e.op = "else" /\ Len(t) = Len(s) /\ Alike(s, t, Len(s) - 1)
  /\ s[Len(s)].of = "then" /\ t[Len(s)].of = "else"
  /\ t[Len(s)].flow = "continues" /\ t[Len(s)].then_flow = s[Len(s)].flow

WalkOpen(s, e, t) ==
  /\ e.op \in OpenOps /\ Len(t) = Len(s) + 1 /\ Alike(s, t, Len(s))
  /\ t[Len(t)].of = IF e.op = "if" THEN "then" ELSE e.op
  /\ t[Len(t)].flow = "continues"

WalkClose(s, e, t) ==
  /\ e.op \in CloseOps /\ Len(t) = Len(s) - 1 /\ Len(t) # 0 /\ Alike(s, t, Len(t) - 1)
  /\ s[Len(s)].of \in ClosedBy(e.op)
  /\ t[Len(t)].of = s[Len(t)].of /\ t[Len(t)].then_flow = s[Len(t)].then_flow
  /\ t[Len(t)].flow = IF s[Len(t)].flow = "returns" THEN "returns" ELSE ResultOf(s[Len(s)])

\* The call stack of validateBlock before and after item e.
Walk(s, e, t) ==
  WalkLeaf(s, e, t) \/ WalkElse(s, e, t) \/ WalkOpen(s, e, t) \/ WalkClose(s, e, t)

\* H has the call stack before every item of p, and sc after the last.
History(H, p, sc) ==
  /\ \A n \in 1 .. Len(p) + 1 : H[n] \in Seq(Block) /\ Len(H[n]) = Depth(p, n) + 1 /\ Len(H[n]) # 0
  /\ H[1][1].of = "body" /\ H[1][1].flow = "continues"
  /\ H[Len(p) + 1] = sc
  /\ \A n \in 1 .. Len(p) : Walk(H[n], p[n], H[n + 1])

\* The statements that follow a guaranteed return in their block.
Following(H, p) ==
  {n \in 1 .. Len(p) : p[n].op \notin CloseOps \cup {"else"} /\ H[n][Len(H[n])].flow = "returns"}

\* The items that are reported as unreachable.
Reported(es) == {es[i][2] : i \in {j \in DOMAIN es : es[j][1] = "unreachable"}}

\* The invariant about the history.
HistoryInv ==
  /\ \E H : History(H, prog, scopes) /\ Following(H, prog) = Reported(errors)
  /\ validated => ret_void \/ errors # <<>> \/ scopes[Len(scopes)].flow = "returns"

\* Errors are appended.
LEMMA ReportedAppended ==
  ASSUME NEW S, NEW es \in Seq(S), NEW fs \in Seq(S)
  PROVE  Reported(es \o fs) = Reported(es) \cup Reported(fs)
<1>1. /\ Len(es) \in Nat /\ Len(fs) \in Nat
      /\ DOMAIN es = 1 .. Len(es) /\ DOMAIN fs = 1 .. Len(fs)
      /\ DOMAIN (es \o fs) = 1 .. Len(es) + Len(fs)
      /\ \A i \in 1 .. Len(es) : (es \o fs)[i] = es[i]
      /\ \A i \in 1 .. Len(fs) : (es \o fs)[Len(es) + i] = fs[i]
  OBVIOUS
<1> DEFINE gs == es \o fs
<1> HIDE DEF gs
<1>2. ASSUME NEW x \in Reported(gs) PROVE x \in Reported(es) \cup Reported(fs)
  <2>1. PICK i \in DOMAIN gs : gs[i][1] = "unreachable" /\ x = gs[i][2]
    BY DEF Reported
  <2>2. CASE i \in 1 .. Len(es)
    BY <1>1, <2>1, <2>2 DEF Reported, gs
  <2>3. CASE i \notin 1 .. Len(es)
    <3>1. i - Len(es) \in 1 .. Len(fs) /\ i = Len(es) + (i - Len(es))
      BY <1>1, <2>1, <2>3 DEF gs
    <3>2. fs[i - Len(es)] = gs[i]
      BY <1>1, <3>1 DEF gs
    <3> QED
      BY <1>1, <2>1, <3>1, <3>2 DEF Reported
  <2> QED
    BY <2>2, <2>3
<1>3. ASSUME NEW x \in Reported(es) PROVE x \in Reported(gs)
  <2>1. PICK i \in DOMAIN es : es[i][1] = "unreachable" /\ x = es[i][2]
    BY <1>3 DEF Reported
  <2>2. i \in DOMAIN gs /\ gs[i] = es[i]
    BY <1>1 DEF gs
  <2> QED
    BY <2>1, <2>2 DEF Reported
<1>4. ASSUME NEW x \in Reported(fs) PROVE x \in Reported(gs)
  <2>1. PICK i \in DOMAIN fs : fs[i][1] = "unreachable" /\ x = fs[i][2]
    BY <1>4 DEF Reported
  <2>2. Len(es) + i \in DOMAIN gs /\ gs[Len(es) + i] = fs[i]
    BY <1>1 DEF gs
  <2> QED
    BY <2>1, <2>2 DEF Reported
<1> QED
  BY <1>2, <1>3, <1>4 DEF gs

\* The errors that are appended at a time.
LEMMA ReportedOfOne ==
  /\ Reported(<<>>) = {}
  /\ \A k, n : /\ k = "unreachable" => Reported(<<<<k, n>>>>) = {n}
               /\ k # "unreachable" => Reported(<<<<k, n>>>>) = {}
<1>1. ASSUME NEW k, NEW n PROVE DOMAIN <<<<k, n>>>> = {1} /\ <<<<k, n>>>>[1] = <<k, n>>
  OBVIOUS
<1> QED
  BY <1>1 DEF Reported

\* The history grows by the stack after the item.
LEMMA HistoryGrows ==
  ASSUME ValidationInv, ValidationInv', HistoryInv,
         NEW e \in Item, prog' = Append(prog, e), Walk(scopes, e, scopes'),
         NEW errs \in Errors, errors' = errors \o errs,
         Reported(errs) = IF /\ e.op \notin CloseOps \cup {"else"}
                             /\ scopes[Len(scopes)].flow = "returns"
                          THEN {Len(prog) + 1} ELSE {}
  PROVE  \E H : History(H, prog', scopes') /\ Following(H, prog') = Reported(errors')
<1>a. PICK L : L = Len(prog)
  OBVIOUS
<1>1. /\ prog \in Seq(Item) /\ errors \in Seq(ErrorKind \X Nat) /\ errs \in Seq(ErrorKind \X Nat)
  BY DEF ValidationInv, ValidationTypeOK, Errors
<1>2. PICK H : History(H, prog, scopes) /\ Following(H, prog) = Reported(errors)
  BY DEF HistoryInv
<1>3. /\ L \in Nat /\ Len(prog') = L + 1
      /\ \A n \in 1 .. L + 1 : Depth(prog', n) = Depth(prog, n)
      /\ \A m \in 1 .. L : prog'[m] = prog[m]
      /\ prog'[L + 1] = e
  BY <1>a, <1>1, ItemAppended
<1>4. /\ scopes' \in Seq(Block) /\ Depth(prog', L + 2) = Len(scopes') - 1 /\ Len(scopes') # 0
      /\ Len(scopes') \in Nat
  <2>1. scopes' \in Seq(Block) /\ scopes' # <<>> /\ Depth(prog', Len(prog') + 1) = Len(scopes') - 1
    BY DEF ValidationInv, ValidationTypeOK, ScopesMatch
  <2>2. Len(prog') + 1 = L + 2
    BY <1>3
  <2> QED
    BY <2>1, <2>2, EmptySeq
<1>5. PICK G : G = [n \in 1 .. L + 2 |-> IF n = L + 2 THEN scopes' ELSE H[n]]
  OBVIOUS
<1>6. G[L + 2] = scopes' /\ \A n \in 1 .. L + 1 : G[n] = H[n]
  BY <1>3, <1>5
<1>7. ASSUME NEW n \in 1 .. Len(prog') + 1
      PROVE  G[n] \in Seq(Block) /\ Len(G[n]) = Depth(prog', n) + 1 /\ Len(G[n]) # 0
  <2>1. n = L + 2 \/ n \in 1 .. L + 1
    BY <1>3
  <2>2. CASE n = L + 2
    BY <1>4, <1>6, <2>2
  <2>3. CASE n \in 1 .. L + 1
    BY <1>a, <1>2, <1>3, <1>6, <2>3 DEF History
  <2> QED
    BY <2>1, <2>2, <2>3
<1>8. ASSUME NEW n \in 1 .. Len(prog') PROVE Walk(G[n], prog'[n], G[n + 1])
  <2>1. n = L + 1 \/ n \in 1 .. L
    BY <1>3
  <2>2. CASE n = L + 1
    <3>1. G[n] = scopes /\ G[n + 1] = scopes' /\ prog'[n] = e
      <4>1. L + 1 \in 1 .. L + 1 /\ (L + 1) + 1 = L + 2
        BY <1>3
      <4> QED
        BY <1>a, <1>2, <1>3, <1>6, <2>2, <4>1 DEF History
    <3> QED
      BY <3>1
  <2>3. CASE n \in 1 .. L
    <3>1. G[n] = H[n] /\ G[n + 1] = H[n + 1] /\ prog'[n] = prog[n]
      <4>1. n \in 1 .. L + 1 /\ n + 1 \in 1 .. L + 1
        BY <1>3, <2>3
      <4> QED
        BY <1>3, <1>6, <2>3, <4>1
    <3> QED
      BY <1>a, <1>2, <2>3, <3>1 DEF History
  <2> QED
    BY <2>1, <2>2, <2>3
<1>9. History(G, prog', scopes')
  <2>1. G[1] = H[1] /\ G[Len(prog') + 1] = scopes'
    <3>1. 1 \in 1 .. L + 1 /\ Len(prog') + 1 = L + 2
      BY <1>3
    <3> QED
      BY <1>6, <3>1
  <2> QED
    BY <1>2, <1>7, <1>8, <2>1 DEF History
<1>10. Following(G, prog') = Following(H, prog) \cup Reported(errs)
  <2>1. ASSUME NEW n \in 1 .. L PROVE n \in Following(G, prog') <=> n \in Following(H, prog)
    <3>1. G[n] = H[n] /\ prog'[n] = prog[n] /\ n \in 1 .. Len(prog')
      <4>1. n \in 1 .. L + 1
        BY <1>3
      <4> QED
        BY <1>3, <1>6, <4>1
    <3> QED
      BY <1>a, <3>1 DEF Following
  <2>2. L + 1 \in Following(G, prog') <=> L + 1 \in Reported(errs)
    <3>1. G[L + 1] = scopes /\ prog'[L + 1] = e /\ L + 1 \in 1 .. Len(prog')
      <4>1. L + 1 \in 1 .. L + 1
        BY <1>3
      <4> QED
        BY <1>a, <1>2, <1>3, <1>6, <4>1 DEF History
    <3> QED
      BY <1>a, <3>1 DEF Following
  <2>3. /\ Following(G, prog') \subseteq 1 .. L + 1 /\ Following(H, prog) \subseteq 1 .. L
        /\ Reported(errs) \subseteq {L + 1}
    BY <1>a, <1>3 DEF Following
  <2>4. L + 1 \notin 1 .. L /\ \A n \in 1 .. L + 1 : n \in 1 .. L \/ n = L + 1
    BY <1>3
  <2> QED
    BY <2>1, <2>2, <2>3, <2>4
<1>11. Reported(errors') = Reported(errors) \cup Reported(errs)
  BY <1>1, ReportedAppended
<1> QED
  BY <1>2, <1>9, <1>10, <1>11

\* What a statement that follows a return adds to the errors.
LEMMA ReportHere ==
  ASSUME ValidationInv
  PROVE  /\ Unreachable \in Errors
         /\ Reported(Unreachable)
              = IF scopes[Len(scopes)].flow = "returns" THEN {Len(prog) + 1} ELSE {}
<1>1. Unreachable \in Errors /\ Innermost = scopes[Len(scopes)] /\ Here = Len(prog) + 1
  BY VisitFacts
<1> QED
  BY <1>1, ReportedOfOne DEF Unreachable

\* validateNode of a statement without a block.
LEMMA LeafHistory ==
  ASSUME ValidationInv, ValidationInv', HistoryInv, NEW e \in Item, e.op \in LeafOps,
         NEW flow, flow = IF e.op = "ret" THEN "returns" ELSE "continues",
         NEW errs \in Errors, Reported(errs) = {}, Leaf(e, flow, errs)
  PROVE  HistoryInv'
<1>a. PICK N, b : N = Len(scopes) /\ b = WithFlow(scopes[Len(scopes)], flow)
  OBVIOUS
<1>1. /\ ~validated /\ ~validated' /\ prog' = Append(prog, e)
      /\ errors' = errors \o (Unreachable \o errs)
      /\ scopes' = [scopes EXCEPT ![N] = b]
  BY <1>a DEF Leaf, Visit
<1>2. /\ scopes \in Seq(Block) /\ N \in Nat \ {0} /\ DOMAIN scopes = 1 .. N /\ scopes[N] \in Block
  BY <1>a, VisitFacts
<1>3. /\ b.of = scopes[N].of /\ b.then_flow = scopes[N].then_flow
      /\ b.flow = IF e.op = "ret" THEN "returns" ELSE scopes[N].flow
      /\ b \in Block
  <2>1. scopes[N].flow \in {"continues", "returns"} /\ DOMAIN scopes[N] = {"of", "flow", "then_flow", "saved_void"}
    BY <1>2 DEF Block, Flow
  <2>2. b = [scopes[N] EXCEPT !.flow = IF scopes[N].flow = "returns" THEN scopes[N].flow ELSE flow]
    BY <1>a DEF WithFlow
  <2>3. flow \in Flow
    BY DEF Flow
  <2> QED
    BY <1>2, <2>1, <2>2, <2>3 DEF Block, Flow
<1>4. Len(scopes') = N /\ scopes'[N] = b /\ \A k \in 1 .. N - 1 : scopes'[k] = scopes[k]
  <2>1. scopes' \in Seq(Block) /\ Len(scopes') = N
    BY <1>1, <1>2, <1>3
  <2> QED
    BY <1>1, <1>2, <2>1
<1>5. Walk(scopes, e, scopes')
  BY <1>a, <1>3, <1>4 DEF Walk, WalkLeaf, Alike
<1>6. /\ Unreachable \o errs \in Errors
      /\ Reported(Unreachable \o errs) = Reported(Unreachable)
  <2>1. Unreachable \in Errors
    BY ReportHere
  <2>2. Unreachable \in Seq(ErrorKind \X Nat) /\ errs \in Seq(ErrorKind \X Nat)
    BY <2>1 DEF Errors
  <2>3. Reported(Unreachable \o errs) = Reported(Unreachable) \cup Reported(errs)
    BY <2>2, ReportedAppended
  <2>4. Unreachable \o errs \in Errors
    BY <2>2, ConcatProperties DEF Errors
  <2> QED
    BY <2>3, <2>4
<1>7. e.op \notin CloseOps \cup {"else"}
  BY DEF LeafOps, CloseOps
<1>8. \E H : History(H, prog', scopes') /\ Following(H, prog') = Reported(errors')
  <2>1. Reported(Unreachable \o errs)
          = IF /\ e.op \notin CloseOps \cup {"else"}
               /\ scopes[Len(scopes)].flow = "returns"
            THEN {Len(prog) + 1} ELSE {}
    BY <1>6, <1>7, ReportHere
  <2> QED
    BY <1>1, <1>5, <1>6, <2>1, HistoryGrows
<1> QED
  BY <1>1, <1>8 DEF HistoryInv

\* validateNode enters the block of a statement.
LEMMA EnterHistory ==
  ASSUME ValidationInv, ValidationInv', HistoryInv, NEW e \in Item, e.op \in OpenOps,
         NEW of, of = (IF e.op = "if" THEN "then" ELSE e.op), Enter(e, of), validated' = validated
  PROVE  HistoryInv'
<1>a. PICK N, b : N = Len(scopes) /\ b = NewBlock(of)
  OBVIOUS
<1>1. /\ ~validated /\ ~validated' /\ prog' = Append(prog, e) /\ errors' = errors \o Unreachable
      /\ scopes' = Append(scopes, b)
  BY <1>a DEF Enter, Visit
<1>2. b.of = of /\ b.flow = "continues"
  BY <1>a DEF NewBlock
<1>3. scopes \in Seq(Block) /\ N \in Nat
  BY <1>a, VisitFacts
<1>4. Len(scopes') = N + 1 /\ scopes'[N + 1] = b /\ \A k \in 1 .. N : scopes'[k] = scopes[k]
  BY <1>a, <1>1, <1>3
<1>5. Walk(scopes, e, scopes')
  BY <1>a, <1>2, <1>4 DEF Walk, WalkOpen, Alike
<1>6. e.op \notin CloseOps \cup {"else"}
  BY DEF OpenOps, CloseOps
<1>7. /\ Unreachable \in Errors
      /\ Reported(Unreachable)
          = IF /\ e.op \notin CloseOps \cup {"else"}
               /\ scopes[Len(scopes)].flow = "returns"
            THEN {Len(prog) + 1} ELSE {}
  BY <1>6, ReportHere
<1>8. \E H : History(H, prog', scopes') /\ Following(H, prog') = Reported(errors')
  BY <1>1, <1>5, <1>7, HistoryGrows
<1> QED
  BY <1>1, <1>8 DEF HistoryInv

\* validateNode comes to the else of an if.
LEMMA ElseHistory ==
  ASSUME ValidationInv, ValidationInv', HistoryInv, ValidateElse
  PROVE  HistoryInv'
<1>a. PICK N, e, b : /\ N = Len(scopes) /\ e = Plain("else")
                     /\ b = [NewBlock("else") EXCEPT !.then_flow = Innermost.flow]
  OBVIOUS
<1>1. /\ ~validated /\ ~validated' /\ prog' = Append(prog, e) /\ errors' = errors \o <<>>
      /\ scopes' = [scopes EXCEPT ![N] = b] /\ Innermost.of = "then"
  BY <1>a DEF ValidateElse, Visit
<1>2. e \in Item /\ e.op = "else"
  BY <1>a, Items
<1>3. /\ scopes \in Seq(Block) /\ N \in Nat \ {0} /\ DOMAIN scopes = 1 .. N /\ Innermost = scopes[N]
  BY <1>a, VisitFacts
<1>4. b.of = "else" /\ b.flow = "continues" /\ b.then_flow = scopes[N].flow
  BY <1>a, <1>3 DEF NewBlock
<1>5. Len(scopes') = N /\ scopes'[N] = b /\ \A k \in 1 .. N - 1 : scopes'[k] = scopes[k]
  <2>1. scopes' \in Seq(Block)
    BY DEF ValidationInv, ValidationTypeOK
  <2>2. DOMAIN scopes' = 1 .. N
    BY <1>1, <1>3
  <2>3. Len(scopes') = N
    BY <1>3, <2>1, <2>2, LenProperties
  <2> QED
    BY <1>1, <1>3, <2>3
<1>6. Walk(scopes, e, scopes')
  BY <1>a, <1>1, <1>2, <1>3, <1>4, <1>5 DEF Walk, WalkElse, Alike
<1>7. <<>> \in Errors /\ Reported(<<>>) = {}
  BY ReportedOfOne DEF Errors
<1>8. \E H : History(H, prog', scopes') /\ Following(H, prog') = Reported(errors')
  BY <1>1, <1>2, <1>6, <1>7, HistoryGrows
<1> QED
  BY <1>1, <1>8 DEF HistoryInv

\* validateNode leaves the block of a statement.
LEMMA LeaveHistory ==
  ASSUME ValidationInv, ValidationInv', HistoryInv, NEW e \in Item, e.op \in CloseOps,
         NEW flow, flow = ResultOf(Innermost), Innermost.of \in ClosedBy(e.op), Innermost.of # "body",
         NEW errs \in Errors, Reported(errs) = {}, Leave(e, flow, errs), validated' = validated
  PROVE  HistoryInv'
<1>a. PICK N, b : N = Len(scopes) /\ b = WithFlow(Front(scopes)[N - 1], flow)
  OBVIOUS
<1>1. /\ ~validated /\ ~validated' /\ prog' = Append(prog, e) /\ errors' = errors \o errs
      /\ scopes' = [Front(scopes) EXCEPT ![N - 1] = b]
  BY <1>a DEF Leave, Visit
<1>2. /\ scopes \in Seq(Block) /\ N \in Nat \ {0} /\ DOMAIN scopes = 1 .. N /\ Innermost = scopes[N]
  BY <1>a, VisitFacts
<1>3. N # 1
  <2>1. \A k \in DOMAIN scopes : scopes[k].of = "body" <=> k = 1
    BY DEF ValidationInv, ScopesMatch
  <2>2. N \in DOMAIN scopes
    BY <1>2
  <2> QED
    BY <1>2, <2>1, <2>2
<1>4. /\ Front(scopes) \in Seq(Block) /\ DOMAIN Front(scopes) = 1 .. N - 1
      /\ \A k \in 1 .. N - 1 : Front(scopes)[k] = scopes[k]
  <2>1. scopes # <<>>
    BY DEF ValidationInv, ScopesMatch
  <2> QED
    BY <1>a, <1>2, <2>1, PopProperties
<1>5. scopes[N - 1] \in Block /\ N - 1 \in 1 .. N - 1
  BY <1>2, <1>3
<1>6. /\ b.of = scopes[N - 1].of /\ b.then_flow = scopes[N - 1].then_flow
      /\ b.flow = IF scopes[N - 1].flow = "returns" THEN "returns" ELSE flow
  <2>1. b = [scopes[N - 1] EXCEPT !.flow = IF scopes[N - 1].flow = "returns" THEN scopes[N - 1].flow ELSE flow]
    BY <1>a, <1>4, <1>5 DEF WithFlow
  <2>2. DOMAIN scopes[N - 1] = {"of", "flow", "then_flow", "saved_void"}
    BY <1>5 DEF Block
  <2> QED
    BY <2>1, <2>2
<1>7. Len(scopes') = N - 1 /\ scopes'[N - 1] = b /\ \A k \in 1 .. (N - 1) - 1 : scopes'[k] = scopes[k]
  <2>1. scopes' \in Seq(Block)
    BY DEF ValidationInv, ValidationTypeOK
  <2>2. DOMAIN scopes' = 1 .. N - 1
    BY <1>1, <1>4
  <2>3. Len(scopes') = N - 1
    <3>1. N - 1 \in Nat
      BY <1>2
    <3> QED
      BY <2>1, <2>2, <3>1, LenProperties
  <2>4. scopes'[N - 1] = b
    BY <1>1, <1>4, <1>5
  <2>5. \A k \in 1 .. (N - 1) - 1 : k \in 1 .. N - 1 /\ k # N - 1
    BY <1>2
  <2>6. \A k \in 1 .. (N - 1) - 1 : scopes'[k] = scopes[k]
    BY <1>1, <1>4, <2>5
  <2> QED
    BY <2>3, <2>4, <2>6
<1>8. Walk(scopes, e, scopes')
  <2>1. N - 1 # 0
    BY <1>2, <1>3
  <2> QED
    BY <1>a, <1>2, <1>6, <1>7, <2>1 DEF Walk, WalkClose, Alike
<1>9. \E H : History(H, prog', scopes') /\ Following(H, prog') = Reported(errors')
  BY <1>1, <1>8, HistoryGrows
<1> QED
  BY <1>1, <1>9 DEF HistoryInv

\* The walk of validateFunction keeps the history, statement by statement.
LEMMA ValidateHistory ==
  ASSUME ValidationInv, HistoryInv, Validate
  PROVE  HistoryInv'
<1>a. ValidationInv'
  BY ValidateStep
<1>0. <<>> \in Errors /\ Reported(<<>>) = {}
  BY ReportedOfOne DEF Errors
<1>b. Here \in Nat
  BY VisitFacts
<1>1. CASE ValidateExpression
  <2>1. PICK op \in {"stmt", "pure"} : Leaf(Plain(op), "continues", <<>>)
    BY <1>1 DEF ValidateExpression
  <2>2. Plain(op) \in Item /\ Plain(op).op \in LeafOps /\ Plain(op).op # "ret"
    BY Items DEF LeafOps
  <2> QED
    BY <1>a, <1>0, <2>1, <2>2, LeafHistory
<1>2. CASE ValidateReturn
  <2>1. PICK value \in BOOLEAN :
          Leaf(Ret(value), "returns",
               CASE ~value /\ ~ret_void -> <<<<"empty_return", Here>>>>
                 [] value /\ ret_void   -> <<<<"value_in_void", Here>>>>
                 [] OTHER               -> <<>>)
    BY <1>2 DEF ValidateReturn
  <2>2. "empty_return" \in ErrorKind /\ "value_in_void" \in ErrorKind
    BY DEF ErrorKind
  <2>3. PICK errs : errs = CASE ~value /\ ~ret_void -> <<<<"empty_return", Here>>>>
                             [] value /\ ret_void   -> <<<<"value_in_void", Here>>>>
                             [] OTHER               -> <<>>
    OBVIOUS
  <2>4. errs \in {<<<<"empty_return", Here>>>>, <<<<"value_in_void", Here>>>>, <<>>}
    BY <2>3
  <2>5. errs \in Errors /\ Reported(errs) = {}
    <3>1. "empty_return" # "unreachable" /\ "value_in_void" # "unreachable"
      OBVIOUS
    <3>2. Reported(<<<<"empty_return", Here>>>>) = {} /\ Reported(<<<<"value_in_void", Here>>>>) = {}
      BY <3>1, ReportedOfOne
    <3>3. <<<<"empty_return", Here>>>> \in Errors /\ <<<<"value_in_void", Here>>>> \in Errors
      BY <1>b, <2>2, OneError
    <3> QED
      BY <1>0, <2>4, <3>2, <3>3
  <2>6. Ret(value) \in Item /\ Ret(value).op = "ret" /\ Ret(value).op \in LeafOps
    BY Items DEF LeafOps
  <2>7. Leaf(Ret(value), "returns", errs)
    BY <2>1, <2>3
  <2> QED
    BY <1>a, <2>5, <2>6, <2>7, LeafHistory
<1>3. CASE ValidateBreak \/ ValidateContinue
  <2>1. PICK op \in Jumps, k \in JumpErrors :
          Leaf(Plain(op), "continues", IF loop_depth = 0 THEN <<<<k, Here>>>> ELSE <<>>)
    BY <1>3 DEF ValidateBreak, ValidateContinue, Jumps, JumpErrors
  <2>2. Plain(op) \in Item /\ Plain(op).op \in LeafOps /\ Plain(op).op # "ret"
    BY Items DEF LeafOps, Jumps
  <2>3. PICK errs : errs = IF loop_depth = 0 THEN <<<<k, Here>>>> ELSE <<>>
    OBVIOUS
  <2>4. k \in ErrorKind /\ k # "unreachable"
    BY DEF JumpErrors, ErrorKind
  <2>5. errs \in Errors /\ Reported(errs) = {}
    BY <1>0, <1>b, <2>3, <2>4, OneError, ReportedOfOne
  <2>6. Leaf(Plain(op), "continues", errs)
    BY <2>1, <2>3
  <2> QED
    BY <1>a, <2>2, <2>5, <2>6, LeafHistory
<1>5. CASE ValidateIf
  <2>1. Enter(Plain("if"), "then") /\ validated' = validated
    BY <1>5 DEF ValidateIf
  <2>2. Plain("if") \in Item /\ Plain("if").op \in OpenOps /\ Plain("if").op = "if"
    BY Items DEF OpenOps
  <2> QED
    BY <1>a, <2>1, <2>2, EnterHistory
<1>6. CASE ValidateElse
  BY <1>a, <1>6, ElseHistory
<1>7. CASE ValidateEndIf
  <2>1. PICK flow : flow = IF /\ Innermost.of = "else"
                              /\ Innermost.then_flow = "returns"
                              /\ Innermost.flow = "returns"
                           THEN "returns" ELSE "continues"
    OBVIOUS
  <2>2. Leave(Plain("endif"), flow, <<>>) /\ Innermost.of \in {"then", "else"} /\ validated' = validated
    BY <1>7, <2>1 DEF ValidateEndIf
  <2>3. flow = ResultOf(Innermost)
    BY <2>1 DEF ResultOf
  <2>4. Plain("endif") \in Item /\ Plain("endif").op \in CloseOps /\ Plain("endif").op = "endif"
    BY Items DEF CloseOps
  <2>5. Innermost.of \in ClosedBy(Plain("endif").op) /\ Innermost.of # "body"
    BY <2>2, <2>4 DEF ClosedBy
  <2> QED
    BY <1>a, <1>0, <2>2, <2>3, <2>4, <2>5, LeaveHistory
<1>8. CASE ValidateLoop
  <2>1. PICK e \in Item, of \in LoopOps : e.op = of /\ Enter(e, of)
    <3>1. CASE Enter(Plain("while"), "while")
      BY <3>1, Items DEF LoopOps
    <3>2. ASSUME NEW h \in ForHeaders, Enter(For(h), "for")
          PROVE  \E e \in Item, of \in LoopOps : e.op = of /\ Enter(e, of)
      BY <3>2, Items DEF LoopOps
    <3> QED
      BY <1>8, <3>1, <3>2 DEF ValidateLoop
  <2>2. validated' = validated
    BY <1>8 DEF ValidateLoop
  <2>3. e.op \in OpenOps /\ e.op # "if"
    BY <2>1 DEF OpenOps, LoopOps
  <2> QED
    BY <1>a, <2>1, <2>2, <2>3, EnterHistory
<1>9. CASE ValidateEndLoop
  <2>1. /\ Leave(Plain(IF Innermost.of = "while" THEN "endwhile" ELSE "endfor"), "continues", <<>>)
        /\ Innermost.of \in LoopOps /\ validated' = validated
    BY <1>9 DEF ValidateEndLoop
  <2>2. PICK op : op = IF Innermost.of = "while" THEN "endwhile" ELSE "endfor"
    OBVIOUS
  <2>3. Plain(op) \in Item /\ Plain(op).op \in CloseOps /\ Plain(op).op = op
    BY <2>2, Items DEF CloseOps
  <2>4. Innermost.of \in ClosedBy(op) /\ Innermost.of # "body" /\ ResultOf(Innermost) = "continues"
    BY <2>1, <2>2 DEF ClosedBy, LoopOps, ResultOf
  <2>5. Leave(Plain(op), "continues", <<>>)
    BY <2>1, <2>2
  <2> QED
    BY <1>a, <1>0, <2>1, <2>3, <2>4, <2>5, LeaveHistory
<1>10. CASE ValidateNestedFunction
  <2>1. PICK void \in BOOLEAN : Enter(Func(void), "func") /\ validated' = validated
    BY <1>10 DEF ValidateNestedFunction
  <2>2. Func(void) \in Item /\ Func(void).op \in OpenOps /\ Func(void).op = "func"
    BY Items DEF OpenOps
  <2> QED
    BY <1>a, <2>1, <2>2, EnterHistory
<1>11. CASE ValidateEndNestedFunction
  <2>1. /\ Leave(Plain("endfunc"), "continues", MissingReturn(Here))
        /\ Innermost.of = "func" /\ validated' = validated
    BY <1>11 DEF ValidateEndNestedFunction
  <2>2. MissingReturn(Here) \in Errors
    BY <1>b, MissingReturnFacts
  <2>3. Reported(MissingReturn(Here)) = {}
    BY <1>0, ReportedOfOne DEF MissingReturn
  <2>4. Plain("endfunc") \in Item /\ Plain("endfunc").op \in CloseOps /\ Plain("endfunc").op = "endfunc"
    BY Items DEF CloseOps
  <2>5. Innermost.of \in ClosedBy(Plain("endfunc").op) /\ Innermost.of # "body" /\ ResultOf(Innermost) = "continues"
    BY <2>1, <2>4 DEF ClosedBy, ResultOf
  <2> QED
    BY <1>a, <2>1, <2>2, <2>3, <2>4, <2>5, LeaveHistory
<1>12. CASE ValidateFunctionEnd
  <2>1. /\ errors' = errors \o MissingReturn(0)
        /\ UNCHANGED <<prog, scopes, loop_depth, ret_void>>
    BY <1>12 DEF ValidateFunctionEnd
  <2>2. MissingReturn(0) \in Errors /\ errors \in Errors
    BY MissingReturnFacts DEF ValidationInv, ValidationTypeOK, Errors
  <2>3. Reported(MissingReturn(0)) = {}
    BY <1>0, ReportedOfOne DEF MissingReturn
  <2>4. Reported(errors') = Reported(errors)
    <3>1. errors \in Seq(ErrorKind \X Nat) /\ MissingReturn(0) \in Seq(ErrorKind \X Nat)
      BY <2>2 DEF Errors
    <3>2. Reported(errors \o MissingReturn(0)) = Reported(errors) \cup Reported(MissingReturn(0))
      BY <3>1, ReportedAppended
    <3> QED
      BY <2>1, <2>3, <3>2
  <2>5. ret_void \/ errors' # <<>> \/ scopes[Len(scopes)].flow = "returns"
    <3>1. Innermost = scopes[Len(scopes)]
      BY VisitFacts
    <3>2. CASE ~ret_void /\ Innermost.flow # "returns"
      <4>1. MissingReturn(0) = <<<<"missing_return", 0>>>>
        BY <3>2 DEF MissingReturn
      <4>2. Len(MissingReturn(0)) = 1
        BY <4>1
      <4>3. errors \in Seq(ErrorKind \X Nat) /\ MissingReturn(0) \in Seq(ErrorKind \X Nat)
        BY <2>2 DEF Errors
      <4>4. Len(errors') = Len(errors) + Len(MissingReturn(0)) /\ Len(errors) \in Nat
        BY <2>1, <4>3, ConcatProperties
      <4>5. Len(errors') # 0
        BY <4>2, <4>4
      <4> QED
        BY <4>5
    <3> QED
      BY <3>1, <3>2
  <2> QED
    BY <2>1, <2>4, <2>5 DEF HistoryInv
<1> QED
  BY <1>1, <1>2, <1>3, <1>5, <1>6, <1>7, <1>8, <1>9, <1>10, <1>11, <1>12 DEF Validate

\* The history of an empty body is the stack of one block.
LEMMA HistoryStarts == ValidationInit => HistoryInv
<1> SUFFICES ASSUME ValidationInit PROVE HistoryInv
  OBVIOUS
<1>1. /\ prog = <<>> /\ errors = <<>> /\ validated = FALSE
      /\ scopes = <<NewBlock("body")>> /\ ret_void \in BOOLEAN
  BY DEF ValidationInit
<1>2. PICK b : b = NewBlock("body")
  OBVIOUS
<1>3. b \in Block /\ b.of = "body" /\ b.flow = "continues"
  BY <1>1, <1>2 DEF NewBlock, Block, Flow
<1>4. scopes \in Seq(Block) /\ Len(scopes) = 1 /\ scopes[1] = b
  BY <1>1, <1>2, <1>3
<1>5. PICK H : H = [n \in {1} |-> scopes]
  OBVIOUS
<1>6. H[1] = scopes /\ Len(prog) = 0
  BY <1>1, <1>5
<1>7. Depth(prog, 1) = 0
  BY DepthNext
<1>8. \A n \in 1 .. Len(prog) + 1 : n = 1
  BY <1>6
<1>9. History(H, prog, scopes)
  <2>1. \A n \in 1 .. Len(prog) + 1 : H[n] \in Seq(Block) /\ Len(H[n]) = Depth(prog, n) + 1 /\ Len(H[n]) # 0
    <3>1. H[1] \in Seq(Block) /\ Len(H[1]) = Depth(prog, 1) + 1 /\ Len(H[1]) # 0
      <4>1. H[1] \in Seq(Block) /\ Len(H[1]) = 1
        BY <1>4, <1>6
      <4>2. Depth(prog, 1) + 1 = 1
        BY <1>7
      <4> QED
        BY <4>1, <4>2
    <3>2. ASSUME NEW n \in 1 .. Len(prog) + 1
          PROVE  H[n] \in Seq(Block) /\ Len(H[n]) = Depth(prog, n) + 1 /\ Len(H[n]) # 0
      <4>1. n = 1
        BY <1>8
      <4> QED
        BY <3>1, <4>1
    <3> QED
      BY <3>2
  <2>2. H[Len(prog) + 1] = scopes /\ 1 .. Len(prog) = {}
    BY <1>6
  <2> QED
    BY <1>3, <1>4, <1>6, <2>1, <2>2 DEF History
<1>10. Following(H, prog) = {} /\ Reported(errors) = {}
  BY <1>1, <1>6, ReportedOfOne DEF Following
<1> QED
  BY <1>1, <1>9, <1>10 DEF HistoryInv

-----------------------------------------------------------------------------
(* The history while a block stays open *)

\* Block k of stack s is still open in t, and the blocks around it are as they
\* were: the branch of an if goes from then to else, a return stays a return.
Kept(s, t, k) ==
  /\ Alike(s, t, k - 1)
  /\ \/ /\ t[k].of = s[k].of /\ t[k].then_flow = s[k].then_flow
        /\ s[k].flow = "returns" => t[k].flow = "returns"
     \/ s[k].of = "then" /\ t[k].of = "else"

LEMMA WalkKeeps ==
  ASSUME NEW s \in Seq(Block), NEW e, NEW t \in Seq(Block), Walk(s, e, t),
         NEW k \in Nat \ {0}, k <= Len(s), k <= Len(t)
  PROVE  Kept(s, t, k)
<1>1. Len(s) \in Nat /\ Len(t) \in Nat
  OBVIOUS
<1>2. ASSUME NEW L \in Nat, Alike(s, t, L - 1), k <= L, k # L PROVE Alike(s, t, k - 1) /\ t[k] = s[k]
  <2>1. k \in 1 .. L - 1 /\ \A i \in 1 .. k - 1 : i \in 1 .. L - 1
    BY <1>2
  <2> QED
    BY <1>2, <2>1 DEF Alike
<1>3. CASE WalkLeaf(s, e, t)
  <2>1. CASE k = Len(s)
    BY <1>3, <2>1 DEF WalkLeaf, Kept
  <2>2. CASE k # Len(s)
    <3>1. Alike(s, t, k - 1) /\ t[k] = s[k]
      BY <1>1, <1>2, <1>3, <2>2 DEF WalkLeaf
    <3> QED
      BY <3>1 DEF Kept
  <2> QED
    BY <2>1, <2>2
<1>4. CASE WalkElse(s, e, t)
  <2>1. CASE k = Len(s)
    BY <1>4, <2>1 DEF WalkElse, Kept
  <2>2. CASE k # Len(s)
    <3>1. Alike(s, t, k - 1) /\ t[k] = s[k]
      BY <1>1, <1>2, <1>4, <2>2 DEF WalkElse
    <3> QED
      BY <3>1 DEF Kept
  <2> QED
    BY <2>1, <2>2
<1>5. CASE WalkOpen(s, e, t)
  <2>1. Alike(s, t, Len(s)) /\ k \in 1 .. Len(s) /\ \A i \in 1 .. k - 1 : i \in 1 .. Len(s)
    BY <1>1, <1>5 DEF WalkOpen
  <2> QED
    BY <2>1 DEF Kept, Alike
<1>6. CASE WalkClose(s, e, t)
  <2>1. CASE k = Len(t)
    BY <1>6, <2>1 DEF WalkClose, Kept
  <2>2. CASE k # Len(t)
    <3>1. Alike(s, t, k - 1) /\ t[k] = s[k]
      BY <1>1, <1>2, <1>6, <2>2 DEF WalkClose
    <3> QED
      BY <3>1 DEF Kept
  <2> QED
    BY <2>1, <2>2
<1> QED
  BY <1>3, <1>4, <1>5, <1>6 DEF Walk

LEMMA KeptTwice ==
  ASSUME NEW r, NEW s, NEW t, NEW k \in Nat \ {0}, Kept(r, s, k), Kept(s, t, k)
  PROVE  Kept(r, t, k)
<1>1. Alike(r, t, k - 1)
  BY DEF Kept, Alike
<1>2. \/ /\ t[k].of = r[k].of /\ t[k].then_flow = r[k].then_flow
         /\ r[k].flow = "returns" => t[k].flow = "returns"
      \/ r[k].of = "then" /\ t[k].of = "else"
  <2>1. \/ /\ s[k].of = r[k].of /\ s[k].then_flow = r[k].then_flow
           /\ r[k].flow = "returns" => s[k].flow = "returns"
        \/ r[k].of = "then" /\ s[k].of = "else"
    BY DEF Kept
  <2>2. \/ /\ t[k].of = s[k].of /\ t[k].then_flow = s[k].then_flow
           /\ s[k].flow = "returns" => t[k].flow = "returns"
        \/ s[k].of = "then" /\ t[k].of = "else"
    BY DEF Kept
  <2>3. "then" # "else"
    OBVIOUS
  <2> QED
    BY <2>1, <2>2, <2>3
<1> QED
  BY <1>1, <1>2 DEF Kept

\* What holds of block k as long as it is open.
LEMMA HistoryKeeps ==
  ASSUME NEW p \in Seq(Item), NEW H, NEW sc, History(H, p, sc),
         NEW m \in 1 .. Len(p) + 1, NEW n \in m .. Len(p) + 1, NEW k \in Nat \ {0},
         \A j \in m .. n : k <= Len(H[j])
  PROVE  Kept(H[m], H[n], k)
<1> DEFINE S == {j \in m .. n : ~Kept(H[m], H[j], k)}
<1>0. Len(p) \in Nat /\ m \in Nat \ {0} /\ n \in Nat
  OBVIOUS
<1>1. m \notin S
  BY DEF Kept, Alike
<1> SUFFICES ASSUME S # {} PROVE FALSE
  <2>1. n \in m .. n
    BY <1>0
  <2> QED
    BY <2>1
<1>2. S \subseteq Nat
  BY <1>0
<1>3. PICK j \in S : \A i \in S : j <= i
  <2> HIDE DEF S
  <2> QED
    BY <1>2, LeastExists
<1>4. j \in m .. n /\ j # m
  BY <1>1, <1>3
<1>5. /\ j - 1 \in m .. n /\ j - 1 \in 1 .. Len(p) /\ (j - 1) + 1 = j /\ ~(j <= j - 1)
      /\ j - 1 \in 1 .. Len(p) + 1 /\ j \in 1 .. Len(p) + 1
  BY <1>0, <1>4
<1>6. j - 1 \notin S
  BY <1>3, <1>5
<1>7. Kept(H[m], H[j - 1], k)
  BY <1>5, <1>6
<1>8. /\ H[j - 1] \in Seq(Block) /\ H[j] \in Seq(Block) /\ Walk(H[j - 1], p[j - 1], H[j])
  BY <1>5 DEF History
<1>9. Kept(H[j - 1], H[j], k)
  BY <1>4, <1>5, <1>8, WalkKeeps
<1>10. Kept(H[m], H[j], k)
  BY <1>7, <1>9, KeptTwice
<1> QED
  BY <1>3, <1>10

\* The history of the compound statement from item q to item c, with L blocks
\* around it.
Spans(H, q, L, c) ==
  /\ L \in Nat \ {0} /\ c \in q + 1 .. Len(prog) /\ prog[c].op \in CloseOps
  /\ \A j \in q + 1 .. c : Len(H[j]) >= L + 1 /\ Alike(H[q], H[j], L) /\ Kept(H[q + 1], H[j], L + 1)
  /\ Len(H[c]) = L + 1 /\ Len(H[c + 1]) = L
  /\ H[q + 1][L + 1].of = (IF prog[q].op = "if" THEN "then" ELSE prog[q].op)
  /\ H[q + 1][L + 1].flow = "continues"
  /\ H[c][L + 1].of \in ClosedBy(prog[c].op)
  /\ Alike(H[q], H[c + 1], L - 1)
  /\ H[c + 1][L].of = H[q][L].of /\ H[c + 1][L].then_flow = H[q][L].then_flow
  /\ H[c + 1][L].flow = IF H[q][L].flow = "returns" THEN "returns" ELSE ResultOf(H[c][L + 1])

LEMMA CompoundHistory ==
  ASSUME ValidationInv, validated, NEW H, History(H, prog, scopes),
         NEW q \in DOMAIN prog, prog[q].op \in OpenOps,
         NEW L, L = Len(H[q]), NEW c, c = Close(prog, q)
  PROVE  Spans(H, q, L, c)
<1>1. prog \in Seq(Item) /\ Len(prog) \in Nat /\ q \in 1 .. Len(prog)
  BY DEF ValidationInv, ValidationTypeOK
<1>2. /\ c \in q + 1 .. Len(prog) /\ Depth(prog, c + 1) = Depth(prog, q)
      /\ \A j \in q + 1 .. c : Depth(prog, j) > Depth(prog, q)
  BY ClosedAtEnd
<1>3. \A j \in 1 .. Len(prog) + 1 : H[j] \in Seq(Block) /\ Len(H[j]) = Depth(prog, j) + 1 /\ Len(H[j]) # 0
  BY DEF History
<1>4. \A j \in 1 .. Len(prog) + 1 : Depth(prog, j) \in Int /\ Len(H[j]) \in Nat
  <2>1. ASSUME NEW j \in 1 .. Len(prog) + 1 PROVE Depth(prog, j) \in Int /\ Len(H[j]) \in Nat
    <3>1. j \in Nat \ {0}
      BY <1>1
    <3> QED
      BY <1>3, <3>1, DepthNext
  <2> QED
    BY <2>1
<1>5. /\ q \in 1 .. Len(prog) + 1 /\ c \in 1 .. Len(prog) + 1 /\ c + 1 \in 1 .. Len(prog) + 1
      /\ q + 1 \in 1 .. Len(prog) + 1 /\ c \in 1 .. Len(prog) /\ c \in DOMAIN prog
      /\ \A j \in q + 1 .. c : j \in 1 .. Len(prog) + 1 /\ j \in q + 1 .. Len(prog) + 1
      /\ c \in q + 1 .. c
  BY <1>1, <1>2
<1>6. L \in Nat \ {0} /\ Len(H[c + 1]) = L /\ \A j \in q + 1 .. c : Len(H[j]) >= L + 1
  <2>1. L \in Nat \ {0} /\ L = Depth(prog, q) + 1 /\ Depth(prog, q) \in Int
    BY <1>3, <1>4, <1>5
  <2>2. Len(H[c + 1]) = L
    BY <1>2, <1>3, <1>5, <2>1
  <2>3. ASSUME NEW j \in q + 1 .. c PROVE Len(H[j]) >= L + 1
    <3>1. j \in 1 .. Len(prog) + 1 /\ Depth(prog, j) > Depth(prog, q)
      BY <1>2, <1>5
    <3>2. Len(H[j]) = Depth(prog, j) + 1 /\ Depth(prog, j) \in Int
      BY <1>3, <1>4, <3>1
    <3> QED
      BY <2>1, <3>1, <3>2
  <2> QED
    BY <2>1, <2>2, <2>3
<1>7. Walk(H[q], prog[q], H[q + 1]) /\ Walk(H[c], prog[c], H[c + 1])
  BY <1>1, <1>5 DEF History
<1>8. WalkOpen(H[q], prog[q], H[q + 1])
  <2>1. prog[q].op \notin LeafOps /\ prog[q].op # "else" /\ prog[q].op \notin CloseOps
    BY DEF LeafOps, OpenOps, CloseOps
  <2> QED
    BY <1>7, <2>1 DEF Walk, WalkLeaf, WalkElse, WalkClose
<1>9. /\ Alike(H[q], H[q + 1], L) /\ Len(H[q + 1]) = L + 1
      /\ H[q + 1][L + 1].of = (IF prog[q].op = "if" THEN "then" ELSE prog[q].op)
      /\ H[q + 1][L + 1].flow = "continues"
  BY <1>8 DEF WalkOpen
<1>10. ASSUME NEW j \in q + 1 .. c PROVE Alike(H[q], H[j], L) /\ Kept(H[q + 1], H[j], L + 1)
  <2>1. \A i \in q + 1 .. j : L + 1 <= Len(H[i])
    <3>1. \A i \in q + 1 .. j : i \in q + 1 .. c /\ i \in 1 .. Len(prog) + 1
      BY <1>1, <1>2
    <3> QED
      BY <1>4, <1>6, <3>1
  <2>2. Kept(H[q + 1], H[j], L + 1)
    <3>1. L + 1 \in Nat \ {0}
      BY <1>6
    <3> QED
      BY <1>1, <1>5, <2>1, <3>1, HistoryKeeps
  <2>3. Alike(H[q + 1], H[j], L)
    <3>1. (L + 1) - 1 = L
      BY <1>6
    <3> QED
      BY <2>2, <3>1 DEF Kept
  <2> QED
    BY <1>9, <2>2, <2>3 DEF Alike
<1>11. Len(H[c]) >= L + 1 /\ Len(H[c]) \in Nat
  BY <1>4, <1>5, <1>6
<1>12. WalkClose(H[c], prog[c], H[c + 1])
  <2>1. ~WalkLeaf(H[c], prog[c], H[c + 1])
    BY <1>6, <1>11 DEF WalkLeaf
  <2>2. ~WalkElse(H[c], prog[c], H[c + 1])
    BY <1>6, <1>11 DEF WalkElse
  <2>3. ~WalkOpen(H[c], prog[c], H[c + 1])
    BY <1>6, <1>11 DEF WalkOpen
  <2> QED
    BY <1>7, <2>1, <2>2, <2>3 DEF Walk
<1>13. Len(H[c]) = L + 1
  BY <1>6, <1>11, <1>12 DEF WalkClose
<1>14. /\ Alike(H[c], H[c + 1], L - 1) /\ H[c][L + 1].of \in ClosedBy(prog[c].op)
       /\ prog[c].op \in CloseOps
       /\ H[c + 1][L].of = H[c][L].of /\ H[c + 1][L].then_flow = H[c][L].then_flow
       /\ H[c + 1][L].flow = IF H[c][L].flow = "returns" THEN "returns" ELSE ResultOf(H[c][L + 1])
  BY <1>6, <1>12, <1>13 DEF WalkClose
<1>15. Alike(H[q], H[c], L) /\ H[c][L] = H[q][L]
  <2>1. Alike(H[q], H[c], L)
    BY <1>5, <1>10
  <2>2. L \in 1 .. L
    BY <1>6
  <2> QED
    BY <2>1, <2>2 DEF Alike
<1>16. Alike(H[q], H[c + 1], L - 1)
  <2>1. \A i \in 1 .. L - 1 : i \in 1 .. L
    BY <1>6
  <2> QED
    BY <1>14, <1>15, <2>1 DEF Alike
<1> QED
  BY <1>2, <1>6, <1>9, <1>10, <1>13, <1>14, <1>15, <1>16 DEF Spans

\* A nested function leaves no trace in the stack around it.
LEMMA FunctionHistory ==
  ASSUME ValidationInv, validated, NEW H, History(H, prog, scopes),
         NEW q \in DOMAIN prog, prog[q].op = "func", NEW L, L = Len(H[q]), H[q][L].flow = "continues"
  PROVE  LET t == H[Close(prog, q) + 1]
         IN  /\ Len(t) = L /\ Alike(H[q], t, L - 1)
             /\ t[L].of = H[q][L].of /\ t[L].then_flow = H[q][L].then_flow
             /\ t[L].flow = "continues"
<1>1. PICK c : c = Close(prog, q)
  OBVIOUS
<1>2. prog[q].op \in OpenOps
  BY DEF OpenOps
<1>3. /\ Len(H[c + 1]) = L /\ Alike(H[q], H[c + 1], L - 1)
      /\ L \in Nat \ {0} /\ c \in q + 1 .. c
      /\ H[q + 1][L + 1].of = "func" /\ Kept(H[q + 1], H[c], L + 1)
      /\ H[c + 1][L].of = H[q][L].of /\ H[c + 1][L].then_flow = H[q][L].then_flow
      /\ H[c + 1][L].flow = IF H[q][L].flow = "returns" THEN "returns" ELSE ResultOf(H[c][L + 1])
  <2>1. Spans(H, q, L, c)
    BY <1>1, <1>2, CompoundHistory
  <2>2. c \in q + 1 .. c
    BY <2>1 DEF Spans
  <2> QED
    BY <2>1, <2>2 DEF Spans
<1>4. H[c][L + 1].of = "func"
  BY <1>3 DEF Kept
<1>5. H[c + 1][L].flow = "continues"
  BY <1>3, <1>4 DEF ResultOf
<1> QED
  BY <1>1, <1>3, <1>5

-----------------------------------------------------------------------------
(* The blocks that nothing has been written to yet *)

\* The code of d and c differs in the blocks of T only.
Untouched(c, d, n, T) == \A x \in 1 .. n : x \notin T => d[x] = c[x]

LEMMA EmitWrites ==
  ASSUME NEW n \in Nat, NEW c \in CodeMap(n), NEW b \in 1 .. n, NEW i \in Instruction
  PROVE  /\ Untouched(c, Emit(c, b, i), n, {b}) /\ Emit(c, b, i) \in CodeMap(n)
         /\ Emit(c, b, i)[b] = Append(c[b], i)
<1>1. c[b] \in Seq(Instruction) /\ DOMAIN c = 1 .. n
  BY DEF CodeMap
<1>2. Append(c[b], i) \in Seq(Instruction)
  BY <1>1
<1> QED
  BY <1>1, <1>2 DEF Emit, CodeMap, Untouched

LEMMA GotoWrites ==
  ASSUME NEW n \in Nat, NEW c \in CodeMap(n), NEW b \in 1 .. n, NEW t \in 1 .. n
  PROVE  Untouched(c, Goto(c, b, t), n, {b}) /\ Goto(c, b, t) \in CodeMap(n)
<1>1. Br(t) \in Instruction
  BY BranchFacts
<1>2. CASE HasTerminator(c, b)
  BY <1>2 DEF Goto, Untouched
<1>3. CASE ~HasTerminator(c, b)
  BY <1>1, <1>3, EmitWrites DEF Goto
<1> QED
  BY <1>2, <1>3

LEMMA BlocksWritten ==
  ASSUME block_count \in Nat, NEW c \in CodeMap(block_count), NEW k \in Nat
  PROVE  /\ Untouched(c, WithBlocks(c, k), block_count, {})
         /\ WithBlocks(c, k) \in CodeMap(block_count + k)
         /\ \A x \in 1 .. block_count + k : x \notin 1 .. block_count => WithBlocks(c, k)[x] = <<>>
<1>1. /\ DOMAIN c = 1 .. block_count
      /\ \A x \in 1 .. block_count : c[x] \in Seq(Instruction)
  BY DEF CodeMap
<1>2. <<>> \in Seq(Instruction)
  OBVIOUS
<1>3. \A x \in 1 .. block_count : x \in 1 .. block_count + k
  OBVIOUS
<1> QED
  BY <1>1, <1>2, <1>3 DEF WithBlocks, CodeMap, Untouched

\* The end blocks of the statements being lowered are empty, distinct, and not
\* among the blocks that are written to before they become current.
EndsEmpty ==
  outcome = "lowering" =>
    /\ \A k \in DOMAIN frames : code[frames[k].end] = <<>> /\ frames[k].end # current_block
    /\ \A j, k \in DOMAIN frames : j # k => frames[j].end # frames[k].end
    /\ \A j, k \in DOMAIN frames : frames[j].of \in {"then", "for"} => frames[j].next # frames[k].end

\* A step that opens no statement.
LEMMA EndsStay ==
  ASSUME LoweringInv, outcome = "lowering", EndsEmpty,
         NEW T, Untouched(code, code', block_count, T),
         \A k \in DOMAIN frames : frames[k].end \notin T,
         \A k \in DOMAIN frames' :
           /\ k \in DOMAIN frames /\ frames'[k].end = frames[k].end /\ frames'[k].next = frames[k].next
           /\ frames'[k].of \in {"then", "for"} => frames[k].of \in {"then", "for"}
           /\ frames[k].end # current_block'
  PROVE  EndsEmpty'
<1>1. \A k \in DOMAIN frames : frames[k].end \in 1 .. block_count
  BY OwedFacts DEF FramesInRange, BlockId
<1>2. \A k \in DOMAIN frames' : code'[frames'[k].end] = <<>> /\ frames'[k].end # current_block'
  BY <1>1 DEF EndsEmpty, Untouched
<1>3. /\ \A j, k \in DOMAIN frames' : j # k => frames'[j].end # frames'[k].end
      /\ \A j, k \in DOMAIN frames' : frames'[j].of \in {"then", "for"} => frames'[j].next # frames'[k].end
  BY DEF EndsEmpty
<1> QED
  BY <1>2, <1>3 DEF EndsEmpty

\* A step that opens a statement, with new blocks for it.
LEMMA EndsPushed ==
  ASSUME LoweringInv, outcome = "lowering", EndsEmpty,
         NEW T, Untouched(code, code', block_count, T),
         \A k \in DOMAIN frames : frames[k].end \notin T,
         NEW f \in Frame, frames' = Append(frames, f),
         f.end \notin 1 .. block_count, f.next \notin 1 .. block_count,
         current_block' \notin 1 .. block_count, f.next # f.end, current_block' # f.end,
         code'[f.end] = <<>>
  PROVE  EndsEmpty'
<1>1. \A k \in DOMAIN frames : /\ frames[k].end \in 1 .. block_count
                               /\ frames[k].next \in 1 .. block_count
  BY OwedFacts DEF FramesInRange, BlockId
<1>2. /\ DOMAIN frames' = 1 .. Len(frames) + 1
      /\ frames'[Len(frames) + 1] = f
      /\ \A j \in 1 .. Len(frames) : frames'[j] = frames[j]
      /\ DOMAIN frames = 1 .. Len(frames) /\ Len(frames) \in Nat
  BY InvFacts, PushProperties
<1>3. PICK L : L = Len(frames) + 1
  OBVIOUS
<1>4. \A k \in DOMAIN frames' : \/ k = L /\ frames'[k] = f
                                \/ k \in DOMAIN frames /\ k # L /\ frames'[k] = frames[k]
  BY <1>2, <1>3
<1>5. \A k \in DOMAIN frames : code'[frames[k].end] = <<>> /\ frames[k].end # current_block'
  BY <1>1 DEF EndsEmpty, Untouched
<1>6. \A k \in DOMAIN frames' : code'[frames'[k].end] = <<>> /\ frames'[k].end # current_block'
  BY <1>4, <1>5
<1>7. \A j, k \in DOMAIN frames' : j # k => frames'[j].end # frames'[k].end
  BY <1>1, <1>4 DEF EndsEmpty
<1>8. \A j, k \in DOMAIN frames' : frames'[j].of \in {"then", "for"} => frames'[j].next # frames'[k].end
  BY <1>1, <1>4 DEF EndsEmpty
<1> QED
  BY <1>6, <1>7, <1>8 DEF EndsEmpty

\* Two steps that write, one after the other.
LEMMA UntouchedTwice ==
  ASSUME NEW c, NEW d, NEW e, NEW n, NEW m, NEW S, NEW T, NEW R,
         1 .. n \subseteq 1 .. m, S \subseteq R, T \subseteq R,
         Untouched(c, d, n, S), Untouched(d, e, m, T)
  PROVE  Untouched(c, e, n, R)
BY DEF Untouched

\* Visiting an item leaves the end blocks empty.
LEMMA EndsStep ==
  ASSUME LoweringInv, EndsEmpty, NEW n \in Nat, NEW e \in Item, Lower(n, e)
  PROVE  EndsEmpty'
<1>a. PICK N, B : N = block_count /\ B = current_block
  OBVIOUS
<1>0. /\ outcome = "lowering" /\ N \in Nat \ {0} /\ B \in 1 .. N
      /\ code \in CodeMap(N) /\ frames \in Seq(Frame)
  BY <1>a, InvFacts DEF Lower
<1>1. \A k \in DOMAIN frames : frames[k].end \notin {B} /\ frames[k].end \notin {}
  BY <1>a, <1>0 DEF EndsEmpty
<1>2. ASSUME NEW i \in Instruction, code' = Emit(code, B, i),
             UNCHANGED <<current_block, frames>>
      PROVE  EndsEmpty'
  <2>1. Untouched(code, code', block_count, {B})
    BY <1>a, <1>0, <1>2, EmitWrites
  <2> QED
    BY <1>a, <1>0, <1>1, <1>2, <2>1, EndsStay
<1>3. ASSUME UNCHANGED <<code, current_block, frames>> PROVE EndsEmpty'
  <2>1. Untouched(code, code', block_count, {B})
    BY <1>3 DEF Untouched
  <2> QED
    BY <1>a, <1>0, <1>1, <1>3, <2>1, EndsStay
<1>4. CASE LowerFails(e)
  BY <1>4 DEF LowerFails, EndsEmpty
<1>5. CASE LowerSimple(n)
  <2>1. Code("stmt", n) \in Instruction
    BY <1>0, CodeFacts
  <2> QED
    BY <1>a, <1>2, <1>5, <2>1 DEF LowerSimple
<1>6. CASE LowerNothing
  BY <1>3, <1>6 DEF LowerNothing
<1>7. CASE LowerReturn(n)
  <2>1. Code("ret", n) \in Instruction
    BY <1>0, CodeFacts
  <2> QED
    BY <1>a, <1>2, <1>7, <2>1 DEF LowerReturn
<1>8. CASE e.op \in {"break", "continue"} /\ LowerJump(e.op)
  <2>1. CASE loop_targets = <<>>
    BY <1>8, <2>1 DEF LowerJump, EndsEmpty
  <2>2. CASE loop_targets # <<>>
    <3>a. PICK t : t = Last(loop_targets)[e.op]
      OBVIOUS
    <3>1. /\ Len(loop_targets) \in DOMAIN loop_targets
          /\ Last(loop_targets) = loop_targets[Len(loop_targets)]
      BY <2>2, InvFacts, PopProperties
    <3>2. t \in 1 .. N
      BY <1>a, <1>0, <1>8, <3>a, <3>1, OwedFacts DEF FramesInRange, BlockId
    <3>3. Br(t) \in Instruction
      BY <1>0, <3>2, BranchFacts
    <3> QED
      BY <1>a, <1>2, <1>8, <2>2, <3>a, <3>3 DEF LowerJump
  <2> QED
    BY <2>1, <2>2
<1>9. CASE LowerIf(n)
  <2> DEFINE f == [of |-> "then", src |-> n, update |-> FALSE,
                   next |-> N + 2, cond |-> N + 3, end |-> N + 3]
             c == WithBlocks(code, 3)
             i == CondBr(n, N + 1, N + 2)
  <2>1. N + 3 \in Nat /\ B \in 1 .. N + 3 /\ N + 1 \in 1 .. N + 3 /\ N + 2 \in 1 .. N + 3
    BY <1>0
  <2>2. /\ Untouched(code, c, N, {}) /\ c \in CodeMap(N + 3)
        /\ \A x \in 1 .. N + 3 : x \notin 1 .. N => c[x] = <<>>
    BY <1>a, <1>0, BlocksWritten
  <2>3. i \in Instruction
    BY <2>1, BranchFacts
  <2>4. /\ code' = Emit(c, B, i) /\ current_block' = N + 1 /\ frames' = Append(frames, f)
    BY <1>a, <1>9 DEF LowerIf, New
  <2>5. f \in Frame /\ f.next = N + 2 /\ f.end = N + 3
    BY <1>0 DEF Frame
  <2> HIDE DEF c, i, f
  <2>6. Untouched(c, code', N + 3, {B})
    BY <2>1, <2>2, <2>3, <2>4, EmitWrites
  <2>7. Untouched(code, code', N, {B})
    <3>1. 1 .. N \subseteq 1 .. N + 3
      BY <1>0
    <3> QED
      BY <2>2, <2>6, <3>1, UntouchedTwice
  <2>8. code'[N + 3] = <<>>
    <3>1. N + 3 \in 1 .. N + 3 /\ N + 3 \notin 1 .. N /\ N + 3 \notin {B}
      BY <1>0
    <3> QED
      BY <2>2, <2>6, <3>1 DEF Untouched
  <2>9. N + 3 \notin 1 .. N /\ N + 2 \notin 1 .. N /\ N + 1 \notin 1 .. N /\ N + 2 # N + 3 /\ N + 1 # N + 3
    BY <1>0
  <2> QED
    BY <1>a, <1>0, <1>1, <2>4, <2>5, <2>7, <2>8, <2>9, EndsPushed
<1>10. CASE LowerWhile(n)
  <2> DEFINE f == [of |-> "while", src |-> n, update |-> FALSE,
                   next |-> N + 1, cond |-> N + 1, end |-> N + 3]
             c == WithBlocks(code, 3)
             d == Goto(c, B, N + 1)
             i == CondBr(n, N + 2, N + 3)
  <2>1. N + 3 \in Nat /\ B \in 1 .. N + 3 /\ N + 1 \in 1 .. N + 3 /\ N + 2 \in 1 .. N + 3
        /\ N + 3 \in 1 .. N + 3 /\ 1 .. N \subseteq 1 .. N + 3
    BY <1>0
  <2>2. /\ Untouched(code, c, N, {}) /\ c \in CodeMap(N + 3)
        /\ \A x \in 1 .. N + 3 : x \notin 1 .. N => c[x] = <<>>
    BY <1>a, <1>0, BlocksWritten
  <2>3. i \in Instruction
    BY <2>1, BranchFacts
  <2>4. /\ code' = Emit(d, N + 1, i) /\ current_block' = N + 2 /\ frames' = Append(frames, f)
    BY <1>a, <1>10 DEF LowerWhile, New
  <2>5. f \in Frame /\ f.next = N + 1 /\ f.end = N + 3
    BY <1>0 DEF Frame
  <2> HIDE DEF c, i, f
  <2>6. Untouched(c, d, N + 3, {B}) /\ d \in CodeMap(N + 3)
    BY <2>1, <2>2, GotoWrites
  <2> HIDE DEF d
  <2>7. Untouched(d, code', N + 3, {N + 1})
    BY <2>1, <2>3, <2>4, <2>6, EmitWrites
  <2>8. Untouched(code, code', N, {B, N + 1})
    <3>1. Untouched(code, d, N, {B})
      BY <2>1, <2>2, <2>6, UntouchedTwice
    <3> QED
      BY <2>1, <2>7, <3>1, UntouchedTwice
  <2>9. code'[N + 3] = <<>>
    <3>1. N + 3 \notin 1 .. N /\ N + 3 \notin {B} /\ N + 3 \notin {N + 1}
      BY <1>0
    <3> QED
      BY <2>1, <2>2, <2>6, <2>7, <3>1 DEF Untouched
  <2>10. N + 3 \notin 1 .. N /\ N + 2 \notin 1 .. N /\ N + 1 \notin 1 .. N /\ N + 1 # N + 3 /\ N + 2 # N + 3
    BY <1>0
  <2>11. \A k \in DOMAIN frames : frames[k].end \notin {B, N + 1}
    BY <1>a, <1>0, <1>1, <2>10, OwedFacts DEF FramesInRange, BlockId
  <2> QED
    BY <1>a, <1>0, <2>4, <2>5, <2>8, <2>9, <2>10, <2>11, EndsPushed
<1>11. CASE e.op = "for" /\ LowerFor(n, e.header)
  <2>a. PICK h : h = e.header
    OBVIOUS
  <2>b. h \in ForHeader
    <3>1. PICK g \in ForHeaders : e = For(g)
      BY <1>11 DEF Item, SimpleItem, OpenItem, CloseOps, Plain, Ret, Func
    <3> QED
      BY <2>a, <3>1, ForHeadersAssumption DEF For
  <2> DEFINE f == [of |-> "for", src |-> n, update |-> h.update,
                   next |-> N + 3, cond |-> N + 1, end |-> N + 4]
             a == IF h.init THEN Emit(code, B, Code("init", n)) ELSE code
             c == WithBlocks(a, 4)
             d == Goto(c, B, N + 1)
             i == IF h.cond THEN CondBr(n, N + 2, N + 4) ELSE Br(N + 2)
  <2>1. N + 4 \in Nat /\ B \in 1 .. N + 4 /\ N + 1 \in 1 .. N + 4 /\ N + 2 \in 1 .. N + 4
        /\ N + 4 \in 1 .. N + 4 /\ 1 .. N \subseteq 1 .. N + 4 /\ N + 3 \in 1 .. N + 4
    BY <1>0
  <2>2. Untouched(code, a, N, {B}) /\ a \in CodeMap(N)
    <3>1. Code("init", n) \in Instruction
      BY <1>0, CodeFacts
    <3>2. Untouched(code, code, N, {B})
      BY DEF Untouched
    <3> QED
      BY <1>0, <3>1, <3>2, EmitWrites
  <2>3. i \in Instruction
    BY <2>1, BranchFacts
  <2>4. /\ code' = Emit(d, N + 1, i) /\ current_block' = N + 2 /\ frames' = Append(frames, f)
    BY <1>a, <1>11, <2>a DEF LowerFor, New
  <2>5. f \in Frame /\ f.next = N + 3 /\ f.end = N + 4
    BY <1>0, <2>b DEF Frame, ForHeader
  <2> HIDE DEF a, i, f
  <2>6. /\ Untouched(a, c, N, {}) /\ c \in CodeMap(N + 4)
        /\ \A x \in 1 .. N + 4 : x \notin 1 .. N => c[x] = <<>>
    BY <1>a, <1>0, <2>2, BlocksWritten
  <2> HIDE DEF c
  <2>7. Untouched(c, d, N + 4, {B}) /\ d \in CodeMap(N + 4)
    BY <2>1, <2>6, GotoWrites
  <2> HIDE DEF d
  <2>8. Untouched(d, code', N + 4, {N + 1})
    BY <2>1, <2>3, <2>4, <2>7, EmitWrites
  <2>9. Untouched(code, code', N, {B, N + 1})
    <3>1. Untouched(code, c, N, {B})
      BY <2>2, <2>6, UntouchedTwice
    <3>2. Untouched(code, d, N, {B})
      BY <2>1, <2>7, <3>1, UntouchedTwice
    <3> QED
      BY <2>1, <2>8, <3>2, UntouchedTwice
  <2>10. code'[N + 4] = <<>>
    <3>1. N + 4 \notin 1 .. N /\ N + 4 \notin {B} /\ N + 4 \notin {N + 1}
      BY <1>0
    <3> QED
      BY <2>1, <2>6, <2>7, <2>8, <3>1 DEF Untouched
  <2>11. N + 4 \notin 1 .. N /\ N + 3 \notin 1 .. N /\ N + 2 \notin 1 .. N /\ N + 1 \notin 1 .. N
         /\ N + 3 # N + 4 /\ N + 2 # N + 4
    BY <1>0
  <2>12. \A k \in DOMAIN frames : frames[k].end \notin {B, N + 1}
    BY <1>a, <1>0, <1>1, <2>11, OwedFacts DEF FramesInRange, BlockId
  <2> QED
    BY <1>a, <1>0, <2>4, <2>5, <2>9, <2>10, <2>11, <2>12, EndsPushed
<1>b. PICK f, K : f = InnermostFrame /\ K = Len(frames)
  OBVIOUS
<1>c. ASSUME frames # <<>>
      PROVE  /\ f \in Frame /\ f = frames[K] /\ K \in DOMAIN frames /\ K \in Nat \ {0}
             /\ f.next \in 1 .. N /\ f.end \in 1 .. N /\ f.cond \in 1 .. N
             /\ DOMAIN Front(frames) = 1 .. K - 1 /\ DOMAIN frames = 1 .. K
             /\ \A k \in DOMAIN Front(frames) : k \in DOMAIN frames /\ k # K /\ Front(frames)[k] = frames[k]
  <2>1. /\ f \in Frame /\ f = frames[K] /\ K \in DOMAIN frames
        /\ f.next \in 1 .. N /\ f.end \in 1 .. N /\ f.cond \in 1 .. N
    BY <1>a, <1>b, <1>0, <1>c, InnermostFacts
  <2>2. /\ DOMAIN Front(frames) = 1 .. K - 1
        /\ \A k \in DOMAIN Front(frames) : k \in DOMAIN frames /\ Front(frames)[k] = frames[k]
    BY <1>b, <1>0, <1>c, PopProperties
  <2>3. K \in Nat \ {0} /\ DOMAIN frames = 1 .. K
    BY <1>b, <1>0, <2>1
  <2>4. K \notin 1 .. K - 1
    BY <2>3
  <2> QED
    BY <2>1, <2>2, <2>3, <2>4
<1>d. ASSUME frames # <<>>, frames' = Front(frames), current_block' = f.end, NEW T,
             Untouched(code, code', N, T),
             \A k \in DOMAIN frames : frames[k].end \notin T
      PROVE  EndsEmpty'
  <2>1. \A k \in DOMAIN frames' : k \in DOMAIN frames /\ frames'[k] = frames[k] /\ frames[k].end # f.end
    BY <1>0, <1>c, <1>d DEF EndsEmpty
  <2> QED
    BY <1>a, <1>0, <1>d, <2>1, EndsStay
<1>12. CASE LowerElse
  <2>1. /\ frames # <<>> /\ f.of = "then" /\ code' = Goto(code, B, f.end) /\ current_block' = f.next
        /\ frames' = [frames EXCEPT ![K].of = "else"]
    BY <1>a, <1>b, <1>12 DEF LowerElse
  <2>2. Untouched(code, code', N, {B})
    BY <1>0, <1>c, <2>1, GotoWrites
  <2>3. \A k \in DOMAIN frames' :
           /\ k \in DOMAIN frames /\ frames'[k].end = frames[k].end /\ frames'[k].next = frames[k].next
           /\ frames'[k].of \in {"then", "for"} => frames[k].of \in {"then", "for"}
    <3>1. DOMAIN frames' = DOMAIN frames /\ \A k \in DOMAIN frames : k # K => frames'[k] = frames[k]
      BY <2>1
    <3>2. frames'[K] = [f EXCEPT !.of = "else"]
      BY <1>c, <2>1
    <3>3. frames'[K].end = f.end /\ frames'[K].next = f.next /\ frames'[K].of = "else"
      BY <1>c, <2>1, <3>2 DEF Frame
    <3> QED
      BY <1>c, <2>1, <3>1, <3>3
  <2>4. \A k \in DOMAIN frames : frames[k].end # f.next
    BY <1>0, <1>c, <2>1 DEF EndsEmpty
  <2> QED
    BY <1>a, <1>0, <1>1, <2>1, <2>2, <2>3, <2>4, EndsStay
<1>13. CASE LowerEndIf
  <2> DEFINE c == Goto(code, B, f.end)
  <2>1. /\ frames # <<>> /\ f.of \in {"then", "else"} /\ current_block' = f.end /\ frames' = Front(frames)
        /\ code' = IF f.of = "else" THEN c ELSE Goto(c, f.next, f.end)
    BY <1>a, <1>b, <1>13 DEF LowerEndIf
  <2>2. Untouched(code, c, N, {B}) /\ c \in CodeMap(N)
    BY <1>0, <1>c, <2>1, GotoWrites
  <2> HIDE DEF c
  <2>3. CASE f.of = "else"
    <3>1. Untouched(code, code', N, {B})
      BY <2>1, <2>2, <2>3
    <3> QED
      BY <1>1, <1>d, <2>1, <3>1
  <2>4. CASE f.of = "then"
    <3>1. code' = Goto(c, f.next, f.end)
      BY <2>1, <2>4
    <3>2. Untouched(c, code', N, {f.next})
      BY <1>0, <1>c, <2>1, <2>2, <3>1, GotoWrites
    <3>3. Untouched(code, code', N, {B, f.next})
      BY <2>2, <3>2, UntouchedTwice
    <3>4. \A k \in DOMAIN frames : frames[k].end \notin {B, f.next}
      BY <1>0, <1>1, <1>c, <2>1, <2>4 DEF EndsEmpty
    <3> QED
      BY <1>d, <2>1, <3>3, <3>4
  <2> QED
    BY <2>1, <2>3, <2>4
<1>14. CASE LowerEndWhile
  <2>1. /\ frames # <<>> /\ current_block' = f.end /\ frames' = Front(frames)
        /\ code' = Goto(code, B, f.next)
    BY <1>a, <1>b, <1>14 DEF LowerEndWhile
  <2>2. Untouched(code, code', N, {B})
    BY <1>0, <1>c, <2>1, GotoWrites
  <2> QED
    BY <1>1, <1>d, <2>1, <2>2
<1>15. CASE LowerEndFor
  <2> DEFINE c == Goto(code, B, f.next)
             d == IF f.update THEN Emit(c, f.next, Code("update", f.src)) ELSE c
  <2>1. /\ frames # <<>> /\ f.of = "for" /\ current_block' = f.end /\ frames' = Front(frames)
        /\ code' = Goto(d, f.next, f.cond)
    BY <1>a, <1>b, <1>15 DEF LowerEndFor
  <2>2. Untouched(code, c, N, {B}) /\ c \in CodeMap(N)
    BY <1>0, <1>c, <2>1, GotoWrites
  <2> HIDE DEF c
  <2>3. Untouched(c, d, N, {f.next}) /\ d \in CodeMap(N)
    <3>1. Code("update", f.src) \in Instruction
      BY <1>0, <1>c, <2>1, CodeFacts DEF Frame
    <3>2. Untouched(c, c, N, {f.next})
      BY DEF Untouched
    <3> QED
      BY <1>0, <1>c, <2>1, <2>2, <3>1, <3>2, EmitWrites
  <2> HIDE DEF d
  <2>4. Untouched(d, code', N, {f.next})
    BY <1>0, <1>c, <2>1, <2>3, GotoWrites
  <2>5. Untouched(code, code', N, {B, f.next})
    <3>1. Untouched(c, code', N, {f.next})
      BY <2>3, <2>4, UntouchedTwice
    <3> QED
      BY <2>2, <3>1, UntouchedTwice
  <2>6. \A k \in DOMAIN frames : frames[k].end \notin {B, f.next}
    BY <1>0, <1>1, <1>c, <2>1 DEF EndsEmpty
  <2> QED
    BY <1>d, <2>1, <2>5, <2>6
<1> QED
  BY <1>4, <1>5, <1>6, <1>7, <1>8, <1>9, <1>10, <1>11, <1>12, <1>13, <1>14, <1>15 DEF Lower, LowerItem

-----------------------------------------------------------------------------
(* The blocks that no execution gets to *)

\* Instruction i leads to no block of D and is not the default return.
Fine(i, D) ==
  /\ i.op \in {"br", "cond_br"} => i.then \notin D /\ i.else \notin D
  /\ ~(i.op = "ret" /\ i.src = 0)

\* From the blocks outside D no branch leads into D, and none of them holds the
\* default return.
Closed(c, n, D) == \A b \in 1 .. n : b \notin D => \A i \in DOMAIN c[b] : Fine(c[b][i], D)

LEMMA FineFacts ==
  ASSUME NEW D
  PROVE  /\ \A op \in {"stmt", "init", "update"} : \A n : Fine(Code(op, n), D)
         /\ \A n : n # 0 => Fine(Code("ret", n), D)
         /\ \A t : t \notin D => Fine(Br(t), D)
         /\ \A n, t, u : t \notin D /\ u \notin D => Fine(CondBr(n, t, u), D)
BY DEF Fine, Code, Br, CondBr

LEMMA ClosedEmit ==
  ASSUME NEW D, NEW n \in Nat, NEW c \in CodeMap(n), Closed(c, n, D), NEW b \in 1 .. n,
         NEW i \in Instruction, b \in D \/ Fine(i, D)
  PROVE  Closed(Emit(c, b, i), n, D)
<1> DEFINE d == Emit(c, b, i)
<1>1. Untouched(c, d, n, {b}) /\ d[b] = Append(c[b], i)
  BY EmitWrites
<1>2. c[b] \in Seq(Instruction)
  BY DEF CodeMap
<1>3. \A k \in DOMAIN d[b] : d[b][k] = i \/ (k \in DOMAIN c[b] /\ d[b][k] = c[b][k])
  BY <1>1, <1>2
<1> HIDE DEF d
<1>4. ASSUME NEW x \in 1 .. n, x \notin D, NEW k \in DOMAIN d[x] PROVE Fine(d[x][k], D)
  <2>1. CASE x = b
    BY <1>3, <1>4, <2>1 DEF Closed
  <2>2. CASE x # b
    BY <1>1, <1>4, <2>2 DEF Closed, Untouched
  <2> QED
    BY <2>1, <2>2
<1> QED
  BY <1>4 DEF Closed, d

LEMMA ClosedGoto ==
  ASSUME NEW D, NEW n \in Nat, NEW c \in CodeMap(n), Closed(c, n, D), NEW b \in 1 .. n,
         NEW t \in 1 .. n, HasTerminator(c, b) \/ b \in D \/ t \notin D
  PROVE  Closed(Goto(c, b, t), n, D)
<1>1. CASE HasTerminator(c, b)
  BY <1>1 DEF Goto
<1>2. CASE ~HasTerminator(c, b)
  <2>1. Br(t) \in Instruction
    BY BranchFacts
  <2>2. b \in D \/ Fine(Br(t), D)
    BY <1>2, FineFacts
  <2> QED
    BY <1>2, <2>1, <2>2, ClosedEmit DEF Goto
<1> QED
  BY <1>1, <1>2

LEMMA ClosedWithBlocks ==
  ASSUME block_count \in Nat, NEW c \in CodeMap(block_count), NEW k \in Nat,
         NEW D, Closed(c, block_count, D)
  PROVE  Closed(WithBlocks(c, k), block_count + k, D)
<1> DEFINE d == WithBlocks(c, k)
<1>1. /\ Untouched(c, d, block_count, {})
      /\ \A x \in 1 .. block_count + k : x \notin 1 .. block_count => d[x] = <<>>
  BY BlocksWritten
<1> HIDE DEF d
<1>2. ASSUME NEW x \in 1 .. block_count + k, x \notin D, NEW i \in DOMAIN d[x] PROVE Fine(d[x][i], D)
  <2>1. x \in 1 .. block_count
    BY <1>1
  <2>2. d[x] = c[x]
    BY <1>1, <2>1 DEF Untouched
  <2> QED
    BY <1>2, <2>1, <2>2 DEF Closed
<1> QED
  BY <1>2 DEF Closed, d

\* Nothing leads to a block that does not exist yet.
LEMMA ClosedMore ==
  ASSUME NEW D, NEW n \in Nat, NEW c \in CodeMap(n), AllTargetsIn(c, n), Closed(c, n, D),
         NEW x, x \notin 1 .. n
  PROVE  Closed(c, n, D \cup {x})
<1>1. ASSUME NEW b \in 1 .. n, b \notin D \cup {x}, NEW i \in DOMAIN c[b] PROVE Fine(c[b][i], D \cup {x})
  <2>1. Fine(c[b][i], D) /\ TargetsIn(c[b][i], n)
    BY <1>1 DEF Closed, AllTargetsIn
  <2> QED
    BY <2>1 DEF Fine, TargetsIn
<1> QED
  BY <1>1 DEF Closed

\* An empty block can be made reachable.
LEMMA ClosedLess ==
  ASSUME NEW D, NEW n \in Nat, NEW c, Closed(c, n, D), NEW x, c[x] = <<>>
  PROVE  Closed(c, n, D \ {x})
<1>1. ASSUME NEW b \in 1 .. n, b \notin D \ {x}, NEW i \in DOMAIN c[b] PROVE Fine(c[b][i], D \ {x})
  <2>1. b # x
    BY <1>1
  <2>2. Fine(c[b][i], D)
    BY <1>1, <2>1 DEF Closed
  <2> QED
    BY <2>2 DEF Fine
<1> QED
  BY <1>1 DEF Closed

\* break and continue lead out of D.
LiveTargets(ts, D) == \A j \in DOMAIN ts : ts[j].break \notin D /\ ts[j].continue \notin D

\* What holds of the stack s of the validation at the item the lowering is about
\* to visit and of the blocks D: the two call stacks have the same blocks, a
\* return has been met in the innermost one only, nothing leads into D, D holds
\* the end of an if as long as no branch of it reaches its end, and the current
\* block is in D or terminated when the statements so far return.
DeadBlocks(s, D) ==
  /\ s \in Seq(Block) /\ Len(s) = Len(frames) + 1
  /\ \A k \in DOMAIN frames : s[k + 1].of = frames[k].of
  /\ \A k \in 1 .. Len(frames) : s[k].flow = "continues"
  /\ D \subseteq 1 .. block_count /\ 1 \notin D
  /\ Closed(code, block_count, D) /\ LiveTargets(loop_targets, D)
  /\ \A k \in DOMAIN frames :
       /\ frames[k].of \in LoopOps => {frames[k].next, frames[k].cond, frames[k].end} \cap D = {}
       /\ frames[k].of = "then" => frames[k].end \in D
       /\ frames[k].of = "else" /\ s[k + 1].then_flow = "returns" => frames[k].end \in D
  /\ s[Len(s)].flow = "returns" => current_block \in D \/ HasTerminator(code, current_block)

\* The invariant: while an accepted body is lowered there is such a set of blocks.
DeadBlocksInv ==
  Accepted /\ outcome = "lowering" =>
    \E H, s, D : /\ History(H, prog, scopes) /\ Following(H, prog) = {}
                 /\ s = H[NextPosition] /\ DeadBlocks(s, D)

\* A step within a block.
LEMMA DeadWithin ==
  ASSUME LoweringInv, NEW s, NEW D, DeadBlocks(s, D), NEW t \in Seq(Block), NEW L, L = Len(s),
         Len(t) = L, Alike(s, t, L - 1), t[L].of = s[L].of, t[L].then_flow = s[L].then_flow,
         UNCHANGED <<frames, current_block, block_count, loop_targets>>,
         Closed(code', block_count, D),
         t[L].flow = "returns" => HasTerminator(code', current_block)
  PROVE  DeadBlocks(t, D)'
<1>1. /\ frames \in Seq(Frame) /\ DOMAIN frames = 1 .. Len(frames) /\ Len(frames) \in Nat
      /\ L = Len(frames) + 1
  BY InvFacts DEF DeadBlocks
<1>2. \A k \in 1 .. L : t[k].of = s[k].of /\ t[k].then_flow = s[k].then_flow
  <2>1. \A k \in 1 .. L : k = L \/ k \in 1 .. L - 1
    BY <1>1
  <2> QED
    BY <2>1 DEF Alike
<1>3. \A k \in 1 .. Len(frames) : t[k].flow = "continues"
  <2>1. \A k \in 1 .. Len(frames) : k \in 1 .. L - 1
    BY <1>1
  <2> QED
    BY <2>1 DEF Alike, DeadBlocks
<1>4. \A k \in DOMAIN frames : t[k + 1].of = s[k + 1].of /\ t[k + 1].then_flow = s[k + 1].then_flow
  <2>1. \A k \in DOMAIN frames : k + 1 \in 1 .. L
    BY <1>1
  <2> QED
    BY <1>2, <2>1
<1> QED
  BY <1>1, <1>3, <1>4 DEF DeadBlocks

\* A step into a block.
LEMMA DeadInto ==
  ASSUME LoweringInv, NEW s, NEW D, DeadBlocks(s, D), NEW t \in Seq(Block), NEW L, L = Len(s),
         s[L].flow = "continues", Len(t) = L + 1, Alike(s, t, L), t[L + 1].flow = "continues",
         NEW f \in Frame, frames' = Append(frames, f), t[L + 1].of = f.of, f.of # "else",
         block_count \in Nat, block_count' \in Nat, block_count <= block_count',
         NEW E, E \cap 1 .. block_count = D, E \subseteq 1 .. block_count',
         Closed(code', block_count', E), LiveTargets(loop_targets', E),
         f.of \in LoopOps => {f.next, f.cond, f.end} \cap E = {},
         f.of = "then" => f.end \in E,
         FramesInRange
  PROVE  DeadBlocks(t, E)'
<1>0. PICK K : K = Len(frames)
  OBVIOUS
<1>1. /\ frames \in Seq(Frame) /\ DOMAIN frames = 1 .. K /\ K \in Nat /\ L = K + 1
  BY <1>0, InvFacts DEF DeadBlocks
<1>2. /\ DOMAIN frames' = 1 .. K + 1 /\ Len(frames') = K + 1 /\ frames'[K + 1] = f
      /\ \A j \in 1 .. K : frames'[j] = frames[j]
  BY <1>0, <1>1, PushProperties
<1>3. \A k \in DOMAIN frames' : \/ k = K + 1 /\ frames'[k] = f /\ k + 1 = L + 1
                                \/ /\ k \in DOMAIN frames /\ frames'[k] = frames[k] /\ t[k + 1] = s[k + 1]
  <2>1. \A k \in 1 .. K : k + 1 \in 1 .. L
    BY <1>1
  <2> QED
    BY <1>1, <1>2, <2>1 DEF Alike
<1>4. \A k \in DOMAIN frames' : t[k + 1].of = frames'[k].of
  BY <1>3 DEF DeadBlocks
<1>5. \A k \in 1 .. Len(frames') : t[k].flow = "continues"
  <2>1. \A k \in 1 .. Len(frames') : k \in 1 .. L /\ (k = L \/ k \in 1 .. Len(frames))
    BY <1>0, <1>1, <1>2
  <2> QED
    BY <2>1 DEF Alike, DeadBlocks
<1>6. \A k \in DOMAIN frames : /\ frames[k].end \in 1 .. block_count
                               /\ frames[k].next \in 1 .. block_count
                               /\ frames[k].cond \in 1 .. block_count
  BY DEF FramesInRange, BlockId
<1>7. 1 \notin E
  <2>1. 1 \in 1 .. block_count
    BY InvFacts
  <2> QED
    BY <2>1 DEF DeadBlocks
<1>8. ASSUME NEW k \in DOMAIN frames'
      PROVE  /\ frames'[k].of \in LoopOps => {frames'[k].next, frames'[k].cond, frames'[k].end} \cap E = {}
             /\ frames'[k].of = "then" => frames'[k].end \in E
             /\ frames'[k].of = "else" /\ t[k + 1].then_flow = "returns" => frames'[k].end \in E
  <2>1. CASE frames'[k] = f
    BY <2>1
  <2>2. CASE k \in DOMAIN frames /\ frames'[k] = frames[k] /\ t[k + 1] = s[k + 1]
    BY <1>6, <2>2 DEF DeadBlocks
  <2> QED
    BY <1>3, <2>1, <2>2
<1> QED
  BY <1>1, <1>2, <1>4, <1>5, <1>7, <1>8 DEF DeadBlocks

\* A step out of a block.
LEMMA DeadOut ==
  ASSUME LoweringInv, NEW s, NEW D, DeadBlocks(s, D), NEW t \in Seq(Block), NEW K, K = Len(frames),
         frames # <<>>, frames' = Front(frames), block_count' = block_count,
         Len(t) = K, Alike(s, t, K - 1), t[K].of = s[K].of, t[K].then_flow = s[K].then_flow,
         NEW E, E \subseteq D, \A k \in DOMAIN frames : k # K /\ frames[k].end \in D => frames[k].end \in E,
         Closed(code', block_count, E), LiveTargets(loop_targets', E),
         t[K].flow = "returns" => current_block' \in E
  PROVE  DeadBlocks(t, E)'
<1>1. /\ frames \in Seq(Frame) /\ DOMAIN frames = 1 .. K /\ K \in Nat \ {0} /\ Len(s) = K + 1
  BY InvFacts, EmptySeq DEF DeadBlocks
<1>2. /\ DOMAIN frames' = 1 .. K - 1 /\ Len(frames') = K - 1
      /\ \A k \in DOMAIN frames' : k \in DOMAIN frames /\ k # K /\ frames'[k] = frames[k]
  <2>1. /\ DOMAIN frames' = 1 .. K - 1 /\ frames' \in Seq(Frame)
        /\ \A k \in DOMAIN frames' : k \in DOMAIN frames /\ frames'[k] = frames[k]
    BY <1>1, PopProperties
  <2>2. Len(frames') = K - 1
    BY <1>1, <2>1
  <2>3. K \notin 1 .. K - 1
    BY <1>1
  <2> QED
    BY <2>1, <2>2, <2>3
<1>3. \A k \in 1 .. K : t[k].of = s[k].of /\ t[k].then_flow = s[k].then_flow
  <2>1. \A k \in 1 .. K : k = K \/ k \in 1 .. K - 1
    BY <1>1
  <2> QED
    BY <2>1 DEF Alike
<1>4. \A k \in DOMAIN frames' : t[k + 1].of = s[k + 1].of /\ t[k + 1].then_flow = s[k + 1].then_flow
  <2>1. \A k \in DOMAIN frames' : k + 1 \in 1 .. K
    BY <1>1, <1>2
  <2> QED
    BY <1>3, <2>1
<1>5. \A k \in 1 .. Len(frames') : t[k].flow = "continues"
  <2>1. \A k \in 1 .. Len(frames') : k \in 1 .. K - 1 /\ k \in 1 .. K
    BY <1>1, <1>2
  <2> QED
    BY <2>1 DEF Alike, DeadBlocks
<1>6. ASSUME NEW k \in DOMAIN frames'
      PROVE  /\ t[k + 1].of = frames'[k].of
             /\ frames'[k].of \in LoopOps => {frames'[k].next, frames'[k].cond, frames'[k].end} \cap E = {}
             /\ frames'[k].of = "then" => frames'[k].end \in E
             /\ frames'[k].of = "else" /\ t[k + 1].then_flow = "returns" => frames'[k].end \in E
  <2>1. k \in DOMAIN frames /\ k # K /\ frames'[k] = frames[k]
    BY <1>2
  <2> QED
    BY <1>4, <2>1 DEF DeadBlocks
<1>7. E \subseteq 1 .. block_count /\ 1 \notin E /\ (K - 1) + 1 = K
  BY <1>1 DEF DeadBlocks
<1> QED
  BY <1>1, <1>2, <1>5, <1>6, <1>7 DEF DeadBlocks

\* What the lemmas about the items start from: the validation goes from stack s
\* to t over item e, and the lowering is at e.
Onto(s, e, t, D) ==
  /\ LoweringInv /\ EndsEmpty /\ outcome = "lowering" /\ e \in Item
  /\ DeadBlocks(s, D) /\ t \in Seq(Block) /\ Walk(s, e, t)
  /\ e.op \notin CloseOps \cup {"else"} => s[Len(s)].flow = "continues"

LEMMA OntoFacts ==
  ASSUME NEW s, NEW e, NEW t, NEW D, Onto(s, e, t, D)
  PROVE  /\ block_count \in Nat \ {0} /\ current_block \in 1 .. block_count
         /\ code \in CodeMap(block_count) /\ AllTargetsIn(code, block_count)
         /\ frames \in Seq(Frame) /\ loop_targets \in Seq(LoopTarget)
         /\ Len(frames) \in Nat /\ DOMAIN frames = 1 .. Len(frames)
         /\ Len(s) = Len(frames) + 1 /\ FramesInRange
         /\ D \subseteq 1 .. block_count /\ Closed(code, block_count, D) /\ LiveTargets(loop_targets, D)
         /\ e.op \in LeafOps => WalkLeaf(s, e, t) /\ s[Len(s)].flow = "continues"
         /\ e.op = "else" => WalkElse(s, e, t)
         /\ e.op \in OpenOps => WalkOpen(s, e, t) /\ s[Len(s)].flow = "continues"
         /\ e.op \in CloseOps => WalkClose(s, e, t)
<1>1. /\ block_count \in Nat \ {0} /\ current_block \in 1 .. block_count
      /\ code \in CodeMap(block_count) /\ AllTargetsIn(code, block_count)
      /\ frames \in Seq(Frame) /\ loop_targets \in Seq(LoopTarget)
  BY InvFacts DEF Onto
<1>2. Len(frames) \in Nat /\ DOMAIN frames = 1 .. Len(frames)
  BY <1>1
<1>3. FramesInRange
  BY OwedFacts DEF Onto
<1>4. /\ Len(s) = Len(frames) + 1
      /\ D \subseteq 1 .. block_count /\ Closed(code, block_count, D) /\ LiveTargets(loop_targets, D)
  BY DEF Onto, DeadBlocks
<1>5. /\ e.op \in LeafOps => e.op # "else" /\ e.op \notin OpenOps /\ e.op \notin CloseOps
      /\ e.op = "else" => e.op \notin OpenOps /\ e.op \notin CloseOps
      /\ e.op \in OpenOps => e.op \notin CloseOps
  BY DEF LeafOps, OpenOps, CloseOps
<1>6. /\ e.op \in LeafOps => WalkLeaf(s, e, t) /\ s[Len(s)].flow = "continues"
      /\ e.op = "else" => WalkElse(s, e, t)
      /\ e.op \in OpenOps => WalkOpen(s, e, t) /\ s[Len(s)].flow = "continues"
      /\ e.op \in CloseOps => WalkClose(s, e, t)
  BY <1>5 DEF Onto, Walk, WalkLeaf, WalkElse, WalkOpen, WalkClose
<1> QED
  BY <1>1, <1>2, <1>3, <1>4, <1>6

\* A statement without a block of its own.
LEMMA DeadLeaf ==
  ASSUME NEW s, NEW e, NEW t, NEW D, Onto(s, e, t, D), NEW n \in Nat \ {0}, e.op \in LeafOps,
         LowerItem(n, e), outcome' = "lowering"
  PROVE  DeadBlocks(t, D)'
<1>a. PICK N, B : N = block_count /\ B = current_block
  OBVIOUS
<1>0. /\ N \in Nat \ {0} /\ B \in 1 .. N /\ code \in CodeMap(N)
      /\ Closed(code, N, D) /\ LiveTargets(loop_targets, D) /\ loop_targets \in Seq(LoopTarget)
  BY <1>a, OntoFacts
<1>1. /\ LoweringInv /\ DeadBlocks(s, D) /\ t \in Seq(Block)
      /\ Len(t) = Len(s) /\ Alike(s, t, Len(s) - 1)
      /\ t[Len(s)].of = s[Len(s)].of /\ t[Len(s)].then_flow = s[Len(s)].then_flow
      /\ t[Len(s)].flow = IF e.op = "ret" THEN "returns" ELSE "continues"
  BY OntoFacts DEF Onto, WalkLeaf
<1>2. ASSUME UNCHANGED <<frames, current_block, block_count, loop_targets>>, Closed(code', N, D),
             e.op = "ret" => HasTerminator(code', B)
      PROVE  DeadBlocks(t, D)'
  BY <1>a, <1>1, <1>2, DeadWithin
<1>3. ASSUME UNCHANGED <<frames, current_block, block_count, loop_targets>>,
             NEW i \in Instruction, Fine(i, D), code' = Emit(code, B, i),
             e.op = "ret" => i.op \in Terminators
      PROVE  DeadBlocks(t, D)'
  <2>1. Closed(code', N, D)
    BY <1>0, <1>3, ClosedEmit
  <2>2. e.op = "ret" => HasTerminator(code', B)
    BY <1>0, <1>3, EmitProperties
  <2> QED
    BY <1>2, <1>3, <2>1, <2>2
<1>4. CASE e.op = "stmt"
  <2>1. LowerSimple(n)
    BY <1>4 DEF LowerItem
  <2>2. Code("stmt", n) \in Instruction /\ Fine(Code("stmt", n), D)
    BY <1>0, CodeFacts, FineFacts
  <2> QED
    BY <1>a, <1>3, <1>4, <2>1, <2>2 DEF LowerSimple
<1>5. CASE e.op = "pure"
  <2>1. LowerNothing
    BY <1>5 DEF LowerItem
  <2> QED
    BY <1>0, <1>2, <1>5, <2>1 DEF LowerNothing
<1>6. CASE e.op = "ret"
  <2>1. LowerReturn(n)
    BY <1>6 DEF LowerItem
  <2>2. Code("ret", n) \in Instruction /\ Fine(Code("ret", n), D) /\ Code("ret", n).op \in Terminators
    BY <1>0, CodeFacts, FineFacts DEF Terminators
  <2> QED
    BY <1>a, <1>3, <1>6, <2>1, <2>2 DEF LowerReturn
<1>7. CASE e.op \in {"break", "continue"}
  <2>1. LowerJump(e.op)
    BY <1>7 DEF LowerItem
  <2>2. loop_targets # <<>>
    BY <2>1 DEF LowerJump
  <2>a. PICK x : x = Last(loop_targets)[e.op]
    OBVIOUS
  <2>3. /\ Len(loop_targets) \in DOMAIN loop_targets
        /\ Last(loop_targets) = loop_targets[Len(loop_targets)]
    BY <1>0, <2>2, PopProperties
  <2>4. x \in 1 .. N /\ x \notin D
    <3>1. FramesInRange
      BY OntoFacts
    <3> QED
      BY <1>a, <1>0, <1>7, <2>a, <2>3, <3>1 DEF FramesInRange, BlockId, LiveTargets
  <2>5. Br(x) \in Instruction /\ Fine(Br(x), D)
    BY <1>0, <2>4, BranchFacts, FineFacts
  <2> QED
    BY <1>a, <1>3, <1>7, <2>1, <2>2, <2>a, <2>5 DEF LowerJump
<1> QED
  BY <1>4, <1>5, <1>6, <1>7 DEF LeafOps

\* The else of an if.
LEMMA DeadElse ==
  ASSUME NEW s, NEW e, NEW t, NEW D, Onto(s, e, t, D), e.op = "else", LowerElse
  PROVE  \E E : DeadBlocks(t, E)'
<1>a. PICK N, B, K, f : N = block_count /\ B = current_block /\ K = Len(frames) /\ f = InnermostFrame
  OBVIOUS
<1>0. /\ N \in Nat \ {0} /\ B \in 1 .. N /\ code \in CodeMap(N) /\ frames \in Seq(Frame)
      /\ DOMAIN frames = 1 .. K /\ K \in Nat /\ Len(s) = K + 1
      /\ D \subseteq 1 .. N /\ Closed(code, N, D) /\ LiveTargets(loop_targets, D)
      /\ LoweringInv /\ outcome = "lowering" /\ EndsEmpty /\ DeadBlocks(s, D) /\ t \in Seq(Block)
      /\ WalkElse(s, e, t)
  BY <1>a, OntoFacts DEF Onto
<1>1. /\ frames # <<>> /\ f.of = "then" /\ code' = Goto(code, B, f.end) /\ current_block' = f.next
      /\ frames' = [frames EXCEPT ![K].of = "else"]
      /\ UNCHANGED <<block_count, loop_targets, outcome>>
  BY <1>a DEF LowerElse
<1>2. /\ f \in Frame /\ f = frames[K] /\ K \in DOMAIN frames
      /\ f.next \in 1 .. N /\ f.end \in 1 .. N
  BY <1>a, <1>0, <1>1, InnermostFacts
<1>3. /\ DOMAIN frames' = 1 .. K /\ Len(frames') = K
      /\ \A k \in DOMAIN frames : k # K => frames'[k] = frames[k]
      /\ frames'[K].end = f.end /\ frames'[K].of = "else"
  <2>1. DOMAIN frames' = DOMAIN frames /\ \A k \in DOMAIN frames : k # K => frames'[k] = frames[k]
    BY <1>1
  <2>2. frames'[K] = [f EXCEPT !.of = "else"]
    BY <1>1, <1>2
  <2>3. frames'[K].end = f.end /\ frames'[K].of = "else"
    BY <1>2, <2>2 DEF Frame
  <2>4. Len(frames') = K
    BY <1>a, <1>0, <1>1
  <2> QED
    BY <1>0, <1>1, <2>1, <2>3, <2>4
<1>5. PICK E : E = IF s[K + 1].flow = "returns" THEN D ELSE D \ {f.end}
  OBVIOUS
<1>6. Closed(code, N, E) /\ (HasTerminator(code, B) \/ B \in E \/ f.end \notin E)
  <2>1. CASE s[K + 1].flow = "returns"
    BY <1>a, <1>0, <1>5, <2>1 DEF DeadBlocks
  <2>2. CASE s[K + 1].flow # "returns"
    <3>1. code[f.end] = <<>>
      BY <1>0, <1>2 DEF EndsEmpty
    <3> QED
      BY <1>0, <1>5, <2>2, <3>1, ClosedLess
  <2> QED
    BY <2>1, <2>2
<1>7. Closed(code', N, E)
  BY <1>0, <1>1, <1>2, <1>6, ClosedGoto
<1>8. /\ E \subseteq D /\ LiveTargets(loop_targets, E)
      /\ \A k \in DOMAIN frames : k # K /\ frames[k].end \in D => frames[k].end \in E
  BY <1>0, <1>2, <1>5 DEF EndsEmpty, LiveTargets
<1>9. /\ Len(t) = K + 1 /\ t[K + 1].of = "else" /\ t[K + 1].flow = "continues"
      /\ t[K + 1].then_flow = s[K + 1].flow /\ Alike(s, t, K)
  BY <1>0 DEF WalkElse
<1>10. ASSUME NEW k \in DOMAIN frames'
       PROVE  /\ t[k + 1].of = frames'[k].of
              /\ frames'[k].of \in LoopOps => {frames'[k].next, frames'[k].cond, frames'[k].end} \cap E = {}
              /\ frames'[k].of = "then" => frames'[k].end \in E
              /\ frames'[k].of = "else" /\ t[k + 1].then_flow = "returns" => frames'[k].end \in E
  <2>1. CASE k = K
    <3>1. f.end \in D
      BY <1>0, <1>1, <1>2 DEF DeadBlocks
    <3> QED
      BY <1>3, <1>5, <1>9, <2>1, <3>1 DEF LoopOps
  <2>2. CASE k # K
    <3>1. k \in DOMAIN frames /\ frames'[k] = frames[k] /\ k + 1 \in 1 .. K
      BY <1>0, <1>3, <2>2
    <3>2. t[k + 1] = s[k + 1]
      BY <1>9, <3>1 DEF Alike
    <3> QED
      BY <1>0, <1>8, <2>2, <3>1, <3>2 DEF DeadBlocks
  <2> QED
    BY <2>1, <2>2
<1>11. \A k \in 1 .. K : t[k].flow = "continues"
  BY <1>a, <1>0, <1>9 DEF Alike, DeadBlocks
<1>12. E \subseteq 1 .. block_count /\ 1 \notin E
  BY <1>a, <1>0, <1>8 DEF DeadBlocks
<1>13. DeadBlocks(t, E)'
  BY <1>a, <1>0, <1>1, <1>3, <1>7, <1>8, <1>9, <1>10, <1>11, <1>12 DEF DeadBlocks
<1> QED
  BY <1>13

\* The loop targets that are in range lead to no block that is created later.
LEMMA TargetsStayLive ==
  ASSUME NEW n, NEW D, NEW E, E \cap 1 .. n = D, NEW ts \in Seq(LoopTarget), LiveTargets(ts, D),
         \A j \in DOMAIN ts : {ts[j].break, ts[j].continue} \subseteq 1 .. n
  PROVE  /\ LiveTargets(ts, E)
         /\ \A x \in LoopTarget : x.break \notin E /\ x.continue \notin E => LiveTargets(Append(ts, x), E)
<1>1. LiveTargets(ts, E)
  BY DEF LiveTargets
<1>2. ASSUME NEW x \in LoopTarget, x.break \notin E, x.continue \notin E PROVE LiveTargets(Append(ts, x), E)
  <2>1. /\ DOMAIN Append(ts, x) = 1 .. Len(ts) + 1 /\ Append(ts, x)[Len(ts) + 1] = x
        /\ \A k \in 1 .. Len(ts) : Append(ts, x)[k] = ts[k]
        /\ DOMAIN ts = 1 .. Len(ts) /\ Len(ts) \in Nat
    BY PushProperties
  <2>2. PICK us : us = Append(ts, x)
    OBVIOUS
  <2>3. \A j \in DOMAIN us : us[j] = x \/ (j \in DOMAIN ts /\ us[j] = ts[j])
    BY <2>1, <2>2
  <2>4. LiveTargets(us, E)
    BY <1>1, <1>2, <2>3 DEF LiveTargets
  <2> QED
    BY <2>2, <2>4
<1> QED
  BY <1>1, <1>2

\* The statements with blocks.
LEMMA DeadOpen ==
  ASSUME NEW s, NEW e, NEW t, NEW D, Onto(s, e, t, D), NEW n \in Nat \ {0}, e.op \in {"if", "while", "for"},
         LowerItem(n, e), outcome' = "lowering"
  PROVE  \E E : DeadBlocks(t, E)'
<1>a. PICK N, B : N = block_count /\ B = current_block
  OBVIOUS
<1>b. e.op \in OpenOps
  BY DEF OpenOps
<1>0. /\ N \in Nat \ {0} /\ B \in 1 .. N /\ code \in CodeMap(N) /\ AllTargetsIn(code, N)
      /\ D \subseteq 1 .. N /\ Closed(code, N, D) /\ LiveTargets(loop_targets, D)
      /\ LoweringInv /\ DeadBlocks(s, D) /\ t \in Seq(Block) /\ FramesInRange
      /\ WalkOpen(s, e, t) /\ s[Len(s)].flow = "continues" /\ loop_targets \in Seq(LoopTarget)
      /\ e \in Item
  BY <1>a, <1>b, OntoFacts DEF Onto
<1>1. /\ Len(t) = Len(s) + 1 /\ Alike(s, t, Len(s)) /\ t[Len(s) + 1].flow = "continues"
      /\ t[Len(s) + 1].of = IF e.op = "if" THEN "then" ELSE e.op
  BY <1>0 DEF WalkOpen
<1>2. \A j \in DOMAIN loop_targets : {loop_targets[j].break, loop_targets[j].continue} \subseteq 1 .. N
  BY <1>a, <1>0 DEF FramesInRange, BlockId
<1>3. CASE e.op = "if"
  <2> DEFINE f == [of |-> "then", src |-> n, update |-> FALSE,
                   next |-> N + 2, cond |-> N + 3, end |-> N + 3]
             c == WithBlocks(code, 3)
             i == CondBr(n, N + 1, N + 2)
             E == D \cup {N + 3}
  <2>0. LowerIf(n)
    BY <1>3 DEF LowerItem
  <2>1. /\ N + 3 \in Nat /\ B \in 1 .. N + 3 /\ N + 1 \in 1 .. N + 3 /\ N + 2 \in 1 .. N + 3
        /\ N + 3 \notin 1 .. N /\ N + 1 \notin E /\ N + 2 \notin E /\ N <= N + 3
        /\ E \cap 1 .. N = D /\ E \subseteq 1 .. N + 3
    <3>1. /\ N + 3 \in Nat /\ B \in 1 .. N + 3 /\ N + 1 \in 1 .. N + 3 /\ N + 2 \in 1 .. N + 3
          /\ N + 3 \in 1 .. N + 3 /\ N + 1 \notin 1 .. N /\ N + 2 \notin 1 .. N /\ N + 3 \notin 1 .. N
          /\ N + 1 # N + 3 /\ N + 2 # N + 3 /\ N <= N + 3 /\ 1 .. N \subseteq 1 .. N + 3
      BY <1>0
    <3> QED
      BY <1>0, <3>1
  <2>2. Closed(code, N, E)
    BY <1>0, <2>1, ClosedMore
  <2>3. Closed(c, N + 3, E) /\ c \in CodeMap(N + 3)
    BY <1>a, <1>0, <2>2, ClosedWithBlocks, BlocksWritten
  <2>4. i \in Instruction /\ Fine(i, E)
    BY <2>1, BranchFacts, FineFacts
  <2>5. /\ block_count' = N + 3 /\ code' = Emit(c, B, i) /\ frames' = Append(frames, f)
        /\ loop_targets' = loop_targets
    BY <1>a, <2>0 DEF LowerIf, New
  <2>6. f \in Frame /\ f.of = "then" /\ f.end \in E
    BY <1>0 DEF Frame
  <2> HIDE DEF c, i, f, E
  <2>7. Closed(code', N + 3, E)
    BY <2>1, <2>3, <2>4, <2>5, ClosedEmit
  <2>8. LiveTargets(loop_targets', E)
    BY <1>0, <1>2, <2>1, <2>5, TargetsStayLive
  <2>9. f.of \notin LoopOps /\ f.of # "else" /\ t[Len(s) + 1].of = f.of
    BY <1>1, <1>3, <2>6 DEF LoopOps
  <2>10. DeadBlocks(t, E)'
    BY <1>a, <1>0, <1>1, <2>1, <2>5, <2>6, <2>7, <2>8, <2>9, DeadInto
  <2> QED
    BY <2>10
<1>4. CASE e.op = "while"
  <2> DEFINE f == [of |-> "while", src |-> n, update |-> FALSE,
                   next |-> N + 1, cond |-> N + 1, end |-> N + 3]
             x == [break |-> N + 3, continue |-> N + 1]
             c == WithBlocks(code, 3)
             d == Goto(c, B, N + 1)
             i == CondBr(n, N + 2, N + 3)
  <2>0. LowerWhile(n)
    BY <1>4 DEF LowerItem
  <2>1. /\ N + 3 \in Nat /\ B \in 1 .. N + 3 /\ N + 1 \in 1 .. N + 3 /\ N + 2 \in 1 .. N + 3
        /\ N + 3 \in 1 .. N + 3 /\ N + 1 \notin D /\ N + 2 \notin D /\ N + 3 \notin D
        /\ D \cap 1 .. N = D /\ D \subseteq 1 .. N + 3 /\ N <= N + 3
    <3>1. /\ N + 3 \in Nat /\ B \in 1 .. N + 3 /\ \A j \in 1 .. 3 : N + j \in 1 .. N + 3 /\ N + j \notin 1 .. N
          /\ N <= N + 3 /\ 1 .. N \subseteq 1 .. N + 3 /\ 1 \in 1 .. 3 /\ 2 \in 1 .. 3 /\ 3 \in 1 .. 3 /\ 3 \in 1 .. 3
      BY <1>0
    <3> QED
      BY <1>0, <3>1
  <2>3. Closed(c, N + 3, D) /\ c \in CodeMap(N + 3)
    BY <1>a, <1>0, ClosedWithBlocks, BlocksWritten
  <2>4. i \in Instruction /\ Fine(i, D)
    BY <2>1, BranchFacts, FineFacts
  <2>5. /\ block_count' = N + 3 /\ code' = Emit(d, N + 1, i) /\ frames' = Append(frames, f)
        /\ loop_targets' = Append(loop_targets, x)
    BY <1>a, <2>0 DEF LowerWhile, New
  <2>6. /\ f \in Frame /\ f.of = "while" /\ {f.next, f.cond, f.end} \cap D = {}
        /\ x \in LoopTarget /\ x.break \notin D /\ x.continue \notin D
    BY <1>0, <2>1 DEF Frame, LoopTarget
  <2> HIDE DEF c, i, f, x
  <2>7. Closed(d, N + 3, D) /\ d \in CodeMap(N + 3)
    BY <2>1, <2>3, ClosedGoto, GotoWrites
  <2> HIDE DEF d
  <2>8. Closed(code', N + 3, D)
    BY <2>1, <2>4, <2>5, <2>7, ClosedEmit
  <2>9. LiveTargets(loop_targets', D)
    BY <1>0, <1>2, <2>1, <2>5, <2>6, TargetsStayLive
  <2>10. f.of # "then" /\ f.of # "else" /\ t[Len(s) + 1].of = f.of
    BY <1>1, <1>4, <2>6
  <2>11. DeadBlocks(t, D)'
    BY <1>a, <1>0, <1>1, <2>1, <2>5, <2>6, <2>8, <2>9, <2>10, DeadInto
  <2> QED
    BY <2>11
<1>5. CASE e.op = "for"
  <2>a. PICK h : h = e.header
    OBVIOUS
  <2>b. h \in ForHeader
    <3>1. PICK g \in ForHeaders : e = For(g)
      BY <1>0, <1>5 DEF Item, SimpleItem, OpenItem, CloseOps, Plain, Ret, Func
    <3> QED
      BY <2>a, <3>1, ForHeadersAssumption DEF For
  <2> DEFINE f == [of |-> "for", src |-> n, update |-> h.update,
                   next |-> N + 3, cond |-> N + 1, end |-> N + 4]
             x == [break |-> N + 4, continue |-> N + 3]
             a == IF h.init THEN Emit(code, B, Code("init", n)) ELSE code
             c == WithBlocks(a, 4)
             d == Goto(c, B, N + 1)
             i == IF h.cond THEN CondBr(n, N + 2, N + 4) ELSE Br(N + 2)
  <2>0. LowerFor(n, h)
    BY <1>5, <2>a DEF LowerItem
  <2>1. /\ N + 4 \in Nat /\ B \in 1 .. N + 4 /\ N + 1 \in 1 .. N + 4 /\ N + 2 \in 1 .. N + 4
        /\ N + 3 \in 1 .. N + 4 /\ N + 4 \in 1 .. N + 4
        /\ N + 1 \notin D /\ N + 2 \notin D /\ N + 3 \notin D /\ N + 4 \notin D
        /\ D \cap 1 .. N = D /\ D \subseteq 1 .. N + 4 /\ N <= N + 4
    <3>1. /\ N + 4 \in Nat /\ B \in 1 .. N + 4 /\ \A j \in 1 .. 4 : N + j \in 1 .. N + 4 /\ N + j \notin 1 .. N
          /\ N <= N + 4 /\ 1 .. N \subseteq 1 .. N + 4 /\ 1 \in 1 .. 4 /\ 2 \in 1 .. 4 /\ 3 \in 1 .. 4 /\ 4 \in 1 .. 4
      BY <1>0
    <3> QED
      BY <1>0, <3>1
  <2>2. Closed(a, N, D) /\ a \in CodeMap(N)
    <3>1. Code("init", n) \in Instruction /\ Fine(Code("init", n), D)
      BY <1>0, CodeFacts, FineFacts
    <3> QED
      BY <1>0, <3>1, EmitWrites, ClosedEmit
  <2>4. i \in Instruction /\ Fine(i, D)
    BY <2>1, BranchFacts, FineFacts
  <2>5. /\ block_count' = N + 4 /\ code' = Emit(d, N + 1, i) /\ frames' = Append(frames, f)
        /\ loop_targets' = Append(loop_targets, x)
    BY <1>a, <2>0 DEF LowerFor, New
  <2>6. /\ f \in Frame /\ f.of = "for" /\ {f.next, f.cond, f.end} \cap D = {}
        /\ x \in LoopTarget /\ x.break \notin D /\ x.continue \notin D
    BY <1>0, <2>1, <2>b DEF Frame, LoopTarget, ForHeader
  <2> HIDE DEF a, i, f, x
  <2>3. Closed(c, N + 4, D) /\ c \in CodeMap(N + 4)
    BY <1>a, <1>0, <2>2, ClosedWithBlocks, BlocksWritten
  <2> HIDE DEF c
  <2>7. Closed(d, N + 4, D) /\ d \in CodeMap(N + 4)
    BY <2>1, <2>3, ClosedGoto, GotoWrites
  <2> HIDE DEF d
  <2>8. Closed(code', N + 4, D)
    BY <2>1, <2>4, <2>5, <2>7, ClosedEmit
  <2>9. LiveTargets(loop_targets', D)
    BY <1>0, <1>2, <2>1, <2>5, <2>6, TargetsStayLive
  <2>10. f.of # "then" /\ f.of # "else" /\ t[Len(s) + 1].of = f.of
    BY <1>1, <1>5, <2>6
  <2>11. DeadBlocks(t, D)'
    BY <1>a, <1>0, <1>1, <2>1, <2>5, <2>6, <2>8, <2>9, <2>10, DeadInto
  <2> QED
    BY <2>11
<1> QED
  BY <1>3, <1>4, <1>5

\* The ends of the statements with blocks.
LEMMA DeadClose ==
  ASSUME NEW s, NEW e, NEW t, NEW D, Onto(s, e, t, D), NEW n, e.op \in {"endif", "endwhile", "endfor"},
         LowerItem(n, e), outcome' = "lowering"
  PROVE  \E E : DeadBlocks(t, E)'
<1>a. PICK N, B, K, f : N = block_count /\ B = current_block /\ K = Len(frames) /\ f = InnermostFrame
  OBVIOUS
<1>b. e.op \in CloseOps
  BY DEF CloseOps
<1>0. /\ N \in Nat \ {0} /\ B \in 1 .. N /\ code \in CodeMap(N) /\ frames \in Seq(Frame)
      /\ DOMAIN frames = 1 .. K /\ K \in Nat /\ Len(s) = K + 1
      /\ D \subseteq 1 .. N /\ Closed(code, N, D) /\ LiveTargets(loop_targets, D)
      /\ LoweringInv /\ outcome = "lowering" /\ EndsEmpty /\ DeadBlocks(s, D) /\ t \in Seq(Block)
      /\ WalkClose(s, e, t) /\ loop_targets \in Seq(LoopTarget)
  BY <1>a, <1>b, OntoFacts DEF Onto
<1>c. frames # <<>>
  BY DEF LowerItem, LowerEndIf, LowerEndWhile, LowerEndFor
<1>1. /\ f \in Frame /\ f = frames[K] /\ K \in DOMAIN frames
      /\ f.next \in 1 .. N /\ f.end \in 1 .. N /\ f.cond \in 1 .. N /\ s[K + 1].of = f.of
  BY <1>a, <1>0, <1>c, InnermostFacts DEF DeadBlocks
<1>2. /\ Len(t) = K /\ Alike(s, t, K - 1) /\ t[K].of = s[K].of /\ t[K].then_flow = s[K].then_flow
      /\ t[K].flow = ResultOf(s[K + 1])
  <2>1. s[K].flow = "continues" /\ "continues" # "returns"
    BY <1>a, <1>0, <1>1 DEF DeadBlocks
  <2>2. Len(t) = K
    BY <1>0 DEF WalkClose
  <2> QED
    BY <1>0, <2>1, <2>2 DEF WalkClose
<1>3. ASSUME NEW E, E \subseteq D, \A k \in DOMAIN frames : k # K /\ frames[k].end \in D => frames[k].end \in E,
             frames' = Front(frames), block_count' = block_count,
             loop_targets' \in {loop_targets, Front(loop_targets)},
             Closed(code', N, E), ResultOf(s[K + 1]) = "returns" => current_block' \in E
      PROVE  DeadBlocks(t, E)'
  <2>1. LiveTargets(loop_targets', E)
    <3>1. \A j \in DOMAIN loop_targets' : j \in DOMAIN loop_targets /\ loop_targets'[j] = loop_targets[j]
      BY <1>0, <1>3, PopProperties
    <3> QED
      BY <1>0, <1>3, <3>1 DEF LiveTargets
  <2>2. Closed(code', block_count, E) /\ (t[K].flow = "returns" => current_block' \in E)
    BY <1>a, <1>2, <1>3
  <2>3. frames' = Front(frames) /\ block_count' = block_count
    BY <1>3
  <2>4. E \subseteq D /\ \A k \in DOMAIN frames : k # K /\ frames[k].end \in D => frames[k].end \in E
    BY <1>3
  <2>5. LoweringInv /\ DeadBlocks(s, D) /\ t \in Seq(Block) /\ K = Len(frames)
    BY <1>a, <1>0
  <2> QED
    BY <1>c, <1>2, <2>1, <2>2, <2>3, <2>4, <2>5, DeadOut
<1>4. CASE e.op = "endif"
  <2> DEFINE c == Goto(code, B, f.end)
  <2>1. /\ f.of \in {"then", "else"} /\ current_block' = f.end /\ frames' = Front(frames)
        /\ code' = IF f.of = "else" THEN c ELSE Goto(c, f.next, f.end)
        /\ block_count' = block_count /\ loop_targets' = loop_targets
    BY <1>a, <1>4 DEF LowerItem, LowerEndIf
  <2>2. PICK E : E = IF ResultOf(s[K + 1]) = "returns" THEN D ELSE D \ {f.end}
    OBVIOUS
  <2>3. ResultOf(s[K + 1]) = "returns" =>
          /\ f.of = "else" /\ s[K + 1].then_flow = "returns" /\ s[K + 1].flow = "returns"
    BY <1>1 DEF ResultOf
  <2>4. Closed(code, N, E) /\ (HasTerminator(code, B) \/ B \in E \/ f.end \notin E)
    <3>1. CASE ResultOf(s[K + 1]) = "returns"
      BY <1>a, <1>0, <2>2, <2>3, <3>1 DEF DeadBlocks
    <3>2. CASE ResultOf(s[K + 1]) # "returns"
      <4>1. code[f.end] = <<>>
        BY <1>0, <1>1 DEF EndsEmpty
      <4> QED
        BY <1>0, <2>2, <3>2, <4>1, ClosedLess
    <3> QED
      BY <3>1, <3>2
  <2>5. Closed(c, N, E) /\ c \in CodeMap(N)
    BY <1>0, <1>1, <2>4, ClosedGoto, GotoWrites
  <2> HIDE DEF c
  <2>6. Closed(code', N, E)
    <3>1. CASE f.of = "else"
      BY <2>1, <2>5, <3>1
    <3>2. CASE f.of = "then"
      <4>1. f.end \notin E
        BY <2>2, <2>3, <3>2
      <4>2. code' = Goto(c, f.next, f.end)
        BY <2>1, <3>2
      <4> QED
        BY <1>0, <1>1, <2>5, <4>1, <4>2, ClosedGoto
    <3> QED
      BY <2>1, <3>1, <3>2
  <2>7. /\ E \subseteq D
        /\ \A k \in DOMAIN frames : k # K /\ frames[k].end \in D => frames[k].end \in E
    BY <1>0, <1>1, <2>2 DEF EndsEmpty
  <2>8. ResultOf(s[K + 1]) = "returns" => current_block' \in E
    BY <1>0, <1>1, <2>1, <2>2, <2>3 DEF DeadBlocks
  <2> QED
    BY <1>3, <2>1, <2>6, <2>7, <2>8
<1>5. CASE e.op = "endwhile"
  <2>1. /\ f.of = "while" /\ current_block' = f.end /\ frames' = Front(frames)
        /\ code' = Goto(code, B, f.next) /\ block_count' = block_count /\ loop_targets' = Front(loop_targets)
    BY <1>a, <1>5 DEF LowerItem, LowerEndWhile
  <2>2. f.next \notin D
    BY <1>0, <1>1, <2>1 DEF DeadBlocks, LoopOps
  <2>3. Closed(code', N, D)
    BY <1>0, <1>1, <2>1, <2>2, ClosedGoto
  <2>4. ResultOf(s[K + 1]) # "returns"
    BY <1>1, <2>1 DEF ResultOf
  <2> QED
    BY <1>3, <2>1, <2>3, <2>4
<1>6. CASE e.op = "endfor"
  <2> DEFINE c == Goto(code, B, f.next)
             d == IF f.update THEN Emit(c, f.next, Code("update", f.src)) ELSE c
  <2>1. /\ f.of = "for" /\ current_block' = f.end /\ frames' = Front(frames)
        /\ code' = Goto(d, f.next, f.cond) /\ block_count' = block_count /\ loop_targets' = Front(loop_targets)
    BY <1>a, <1>6 DEF LowerItem, LowerEndFor
  <2>2. f.next \notin D /\ f.cond \notin D
    BY <1>0, <1>1, <2>1 DEF DeadBlocks, LoopOps
  <2>3. Closed(c, N, D) /\ c \in CodeMap(N)
    BY <1>0, <1>1, <2>2, ClosedGoto, GotoWrites
  <2> HIDE DEF c
  <2>4. Closed(d, N, D) /\ d \in CodeMap(N)
    <3>1. Code("update", f.src) \in Instruction /\ Fine(Code("update", f.src), D)
      BY <1>0, <1>1, CodeFacts, FineFacts DEF Frame
    <3> QED
      BY <1>0, <1>1, <2>3, <3>1, EmitWrites, ClosedEmit
  <2> HIDE DEF d
  <2>5. Closed(code', N, D)
    BY <1>0, <1>1, <2>1, <2>2, <2>4, ClosedGoto
  <2>6. ResultOf(s[K + 1]) # "returns"
    BY <1>1, <2>1 DEF ResultOf
  <2> QED
    BY <1>3, <2>1, <2>5, <2>6
<1> QED
  BY <1>4, <1>5, <1>6

\* The next item of the body is lowered.
LEMMA DeadStep ==
  ASSUME CompilationInv, EndsEmpty, DeadBlocksInv, LowerNext
  PROVE  DeadBlocksInv'
<1>a. PICK q, e : q = NextPosition /\ e = prog[q]
  OBVIOUS
<1>1. /\ Accepted /\ q <= Len(prog) /\ Lower(q, e) /\ UNCHANGED validationVars
  BY <1>a DEF LowerNext
<1>2. /\ validated /\ outcome = "lowering" /\ cursor' = q
      /\ prog' = prog /\ scopes' = scopes
      /\ ValidationInv /\ LoweringInv
  BY <1>1 DEF Accepted, Lower, validationVars, CompilationInv
<1> SUFFICES ASSUME outcome' = "lowering"
             PROVE  \E H, t, D : /\ History(H, prog, scopes) /\ Following(H, prog) = {}
                                 /\ t = H[NextPosition'] /\ DeadBlocks(t, D)'
  BY <1>2 DEF DeadBlocksInv
<1>3. PICK H, D : /\ History(H, prog, scopes) /\ Following(H, prog) = {}
                  /\ DeadBlocks(H[q], D)
  BY <1>a, <1>1, <1>2 DEF DeadBlocksInv
<1>4. prog \in Seq(Item) /\ Len(prog) \in Nat /\ DOMAIN prog = 1 .. Len(prog)
  BY <1>2 DEF ValidationInv, ValidationTypeOK
<1>5. q \in 1 .. Len(prog) /\ q \in DOMAIN prog /\ q \in Nat \ {0} /\ e \in Item
  <2>1. q \in 1 .. Len(prog) + 1
    BY <1>a, <1>2 DEF CompilationInv, FramesMatch
  <2> QED
    BY <1>a, <1>1, <1>4, <2>1
<1>6. PICK s, L : s = H[q] /\ L = Len(s)
  OBVIOUS
<1>7. e.op \notin CloseOps \cup {"else"} => s[L].flow = "continues"
  <2>1. q \notin Following(H, prog)
    BY <1>3
  <2>2. s \in Seq(Block) /\ Len(s) # 0
    <3>1. q \in 1 .. Len(prog) + 1
      BY <1>4, <1>5
    <3> QED
      BY <1>3, <1>6, <3>1 DEF History
  <2>3. s[L].flow \in {"continues", "returns"}
    <3>1. s[L] \in Block
      BY <1>6, <2>2
    <3> QED
      BY <3>1 DEF Block, Flow
  <2> QED
    BY <1>a, <1>5, <1>6, <2>1, <2>3 DEF Following
<1>8. LowerItem(q, e)
  BY <1>1 DEF Lower, LowerFails
<1>9. CASE e.op = "func"
  <2>1. PICK c, t : c = Close(prog, q) /\ t = H[c + 1]
    OBVIOUS
  <2>2. /\ c \in q + 1 .. Len(prog)
    BY <1>a, <1>2, <1>5, <1>9, <2>1, ClosedAtEnd DEF OpenOps
  <2>3. t \in Seq(Block)
    <3>1. c + 1 \in 1 .. Len(prog) + 1
      BY <1>4, <1>5, <2>2
    <3> QED
      BY <1>3, <2>1, <3>1 DEF History
  <2>4. e.op \notin CloseOps \cup {"else"}
    BY <1>9 DEF CloseOps
  <2>5. /\ Len(t) = L /\ Alike(s, t, L - 1)
        /\ t[L].of = s[L].of /\ t[L].then_flow = s[L].then_flow
        /\ t[L].flow = "continues"
    BY <1>a, <1>2, <1>3, <1>5, <1>6, <1>7, <1>9, <2>1, <2>4, FunctionHistory
  <2>6. LowerNothing
    BY <1>8, <1>9 DEF LowerItem
  <2>7. Closed(code', block_count, D)
    BY <1>3, <2>6 DEF DeadBlocks, LowerNothing
  <2>8. DeadBlocks(t, D)'
    BY <1>2, <1>3, <1>6, <2>3, <2>5, <2>6, <2>7, DeadWithin DEF LowerNothing
  <2>9. NextPosition' = c + 1
    BY <1>a, <1>2, <1>5, <1>9, <2>1 DEF NextPosition
  <2>10. H[NextPosition'] = t
    BY <2>1, <2>9
  <2> QED
    BY <1>3, <2>8, <2>10
<1>10. CASE e.op # "func"
  <2>1. PICK t : t = H[q + 1]
    OBVIOUS
  <2>2. Onto(s, e, t, D)
    <3>1. q + 1 \in 1 .. Len(prog) + 1
      BY <1>4, <1>5
    <3>2. t \in Seq(Block) /\ Walk(s, e, t)
      BY <1>a, <1>3, <1>5, <1>6, <2>1, <3>1 DEF History
    <3> QED
      BY <1>2, <1>3, <1>5, <1>6, <1>7, <3>2 DEF Onto
  <2>3. \E E : DeadBlocks(t, E)'
    <3>1. CASE e.op \in LeafOps
      BY <1>5, <1>8, <2>2, <3>1, DeadLeaf
    <3>2. CASE e.op = "else"
      <4>1. LowerElse
        BY <1>8, <3>2 DEF LowerItem
      <4> QED
        BY <2>2, <3>2, <4>1, DeadElse
    <3>3. CASE e.op \in {"if", "while", "for"}
      BY <1>5, <1>8, <2>2, <3>3, DeadOpen
    <3>4. CASE e.op \in {"endif", "endwhile", "endfor"}
      BY <1>8, <2>2, <3>4, DeadClose
    <3> QED
      BY <1>8, <1>10, <3>1, <3>2, <3>3, <3>4 DEF LowerItem, LeafOps
  <2>4. NextPosition' = q + 1
    BY <1>a, <1>2, <1>5, <1>10 DEF NextPosition
  <2>5. PICK E : DeadBlocks(t, E)'
    BY <2>3
  <2>6. H[NextPosition'] = t
    BY <2>1, <2>4
  <2> QED
    BY <1>3, <2>5, <2>6
<1> QED
  BY <1>9, <1>10

\* The lowering of an accepted body starts with no block in D.
LEMMA DeadStarts ==
  ASSUME ValidationInv, HistoryInv, Accepted, LoweringInit
  PROVE  DeadBlocksInv
<1>1. PICK H : History(H, prog, scopes) /\ Following(H, prog) = Reported(errors)
  BY DEF HistoryInv
<1>2. Following(H, prog) = {}
  BY <1>1, ReportedOfOne DEF Accepted
<1>3. /\ cursor = 0 /\ block_count = 1 /\ current_block = 1 /\ frames = <<>> /\ loop_targets = <<>>
      /\ code = [b \in {1} |-> <<>>]
  BY DEF LoweringInit
<1>4. NextPosition = 1
  BY <1>3 DEF NextPosition
<1>5. prog \in Seq(Item) /\ 1 \in 1 .. Len(prog) + 1
  BY DEF ValidationInv, ValidationTypeOK
<1>6. H[1] \in Seq(Block) /\ Len(H[1]) = 1 /\ H[1][1].flow = "continues"
  <2>1. H[1] \in Seq(Block) /\ Len(H[1]) = Depth(prog, 1) + 1 /\ H[1][1].flow = "continues"
    BY <1>1, <1>5 DEF History
  <2>2. Depth(prog, 1) = 0
    BY DepthNext
  <2> QED
    BY <2>1, <2>2
<1>7. Closed(code, block_count, {})
  <2>1. 1 .. block_count = {1} /\ DOMAIN code[1] = {}
    BY <1>3
  <2> QED
    BY <2>1 DEF Closed
<1>8. Len(frames) = 0 /\ DOMAIN frames = {} /\ DOMAIN loop_targets = {}
  BY <1>3
<1>9. DeadBlocks(H[1], {})
  BY <1>6, <1>7, <1>8 DEF DeadBlocks, LiveTargets
<1> QED
  BY <1>1, <1>2, <1>4, <1>9 DEF DeadBlocksInv

-----------------------------------------------------------------------------
(* The run *)

\* The run is outside the blocks D.
Outside(D) ==
  /\ 1 \notin D /\ Closed(code, block_count, D)
  /\ block \in 1 .. block_count /\ block \notin D /\ index \in Nat \ {0}

RunInv ==
  /\ outcome # "done" => running = "idle"
  /\ running = "idle" => block = 1 /\ index = 1 /\ last = Structure!Start
  /\ outcome = "done" /\ ~ret_void => \E D : Outside(D)
  /\ DefaultReturnUnused

\* The inductive invariant of the run.
ReturnInv ==
  /\ CompilationInv /\ HistoryInv /\ EndsEmpty /\ DeadBlocksInv
  /\ ~validated => LoweringInit
  /\ RunInv

\* The start of the run is not the default return.
LEMMA StartIsNoReturn ==
  /\ Structure!Start # Structure!Label("ret", 0, FALSE)
  /\ \A op, n, out : op # "ret" \/ n # 0 => Structure!Label(op, n, out) # Structure!Label("ret", 0, FALSE)
<1>1. \A op, n, out, op2, n2, out2 :
        Structure!Label(op, n, out) = Structure!Label(op2, n2, out2) => op = op2 /\ n = n2
  BY DEF Structure!Label
<1>2. Structure!Start = Structure!Label("start", 0, FALSE) /\ "start" # "ret"
  BY DEF Structure!Start
<1> QED
  BY <1>1, <1>2

\* The validation pass.
LEMMA ReturnValidated ==
  ASSUME ReturnInv, Validate, UNCHANGED <<loweringVars, runVars>>
  PROVE  ReturnInv'
<1>1. ~validated
  BY DEF Validate, ValidateExpression, ValidateReturn, ValidateBreak, ValidateContinue,
     ValidateIf,
     ValidateElse, ValidateEndIf, ValidateLoop, ValidateEndLoop, ValidateNestedFunction,
     ValidateEndNestedFunction, ValidateFunctionEnd, Leaf, Enter, Leave, Visit
<1>2. CompilationInv /\ HistoryInv /\ EndsEmpty /\ LoweringInit /\ RunInv /\ ValidationInv
  BY <1>1 DEF ReturnInv, CompilationInv
<1>3. CompilationInv'
  BY <1>2, ValidationPassStep
<1>4. HistoryInv' /\ ValidationInv'
  BY <1>2, <1>3, ValidateHistory DEF CompilationInv
<1>5. /\ cursor' = cursor /\ block_count' = block_count /\ code' = code /\ current_block' = current_block
      /\ loop_targets' = loop_targets /\ frames' = frames /\ outcome' = outcome
      /\ block' = block /\ index' = index /\ last' = last /\ running' = running
  BY DEF loweringVars, runVars
<1>6. LoweringInit'
  BY <1>2, <1>5 DEF LoweringInit
<1>7. EndsEmpty'
  BY <1>2, <1>5 DEF EndsEmpty
<1>8. DeadBlocksInv'
  <2>1. CASE Accepted'
    BY <1>4, <1>6, <2>1, DeadStarts, PTL
  <2>2. CASE ~Accepted'
    BY <2>2 DEF DeadBlocksInv
  <2> QED
    BY <2>1, <2>2
<1>9. RunInv'
  <2>1. outcome = "lowering"
    BY <1>2 DEF LoweringInit
  <2>2. running = "idle" /\ block = 1 /\ index = 1 /\ last = Structure!Start
    BY <1>2, <2>1 DEF RunInv
  <2>3. last' # Structure!Label("ret", 0, FALSE)
    BY <1>5, <2>2, StartIsNoReturn
  <2>4. last' = Structure!Start'
    BY <1>5, <2>2 DEF Structure!Start, Structure!Label
  <2>5. DefaultReturnUnused'
    BY <2>3 DEF DefaultReturnUnused, Structure!Label
  <2> QED
    BY <1>5, <2>1, <2>2, <2>4, <2>5 DEF RunInv
<1> QED
  BY <1>3, <1>4, <1>6, <1>7, <1>8, <1>9 DEF ReturnInv

\* The lowering of an item.
LEMMA ReturnLowered ==
  ASSUME ReturnInv, LowerNext
  PROVE  ReturnInv'
<1>a. PICK q, e : q = NextPosition /\ e = prog[q]
  OBVIOUS
<1>1. /\ Accepted /\ q <= Len(prog) /\ Lower(q, e) /\ UNCHANGED <<validationVars, runVars>>
  BY <1>a DEF LowerNext
<1>2. CompilationInv /\ HistoryInv /\ EndsEmpty /\ DeadBlocksInv /\ RunInv /\ LoweringInv /\ ValidationInv
  BY DEF ReturnInv, CompilationInv
<1>3. /\ validated' /\ prog' = prog /\ scopes' = scopes /\ errors' = errors /\ ret_void' = ret_void
      /\ validated' = validated
      /\ block' = block /\ index' = index /\ last' = last /\ running' = running
      /\ outcome = "lowering"
  BY <1>1 DEF validationVars, runVars, Accepted, Lower
<1>4. CompilationInv' /\ DeadBlocksInv'
  BY <1>2, LowerNextStep, DeadStep
<1>5. HistoryInv'
  BY <1>2, <1>3 DEF HistoryInv
<1>6. EndsEmpty'
  <2>1. prog \in Seq(Item) /\ Len(prog) \in Nat /\ DOMAIN prog = 1 .. Len(prog)
    BY <1>2 DEF ValidationInv, ValidationTypeOK
  <2>2. q \in 1 .. Len(prog) + 1
    BY <1>a, <1>2, <1>3 DEF CompilationInv, FramesMatch
  <2>3. q \in Nat /\ e \in Item
    BY <1>a, <1>1, <2>1, <2>2
  <2> QED
    BY <1>1, <1>2, <2>3, EndsStep
<1>7. outcome' # "done"
  BY <1>1, <1>3 DEF Lower, LowerFails, LowerItem, LowerSimple, LowerNothing, LowerReturn,
     LowerJump, LowerIf, LowerElse, LowerEndIf, LowerWhile, LowerEndWhile, LowerFor, LowerEndFor
<1>8. RunInv'
  <2>1. last' = Structure!Start' /\ running' = "idle" /\ block' = 1 /\ index' = 1
    BY <1>2, <1>3 DEF RunInv, Structure!Start, Structure!Label
  <2>2. DefaultReturnUnused'
    BY <1>2, <1>3 DEF RunInv, DefaultReturnUnused, Structure!Label
  <2> QED
    BY <1>7, <2>1, <2>2 DEF RunInv
<1> QED
  BY <1>3, <1>4, <1>5, <1>6, <1>8 DEF ReturnInv

\* The end of the lowering.
LEMMA ReturnEnded ==
  ASSUME ReturnInv, LowerEnd
  PROVE  ReturnInv'
<1>1. /\ Accepted /\ NextPosition = Len(prog) + 1 /\ LowerFunctionEnd /\ UNCHANGED <<validationVars, runVars>>
  BY DEF LowerEnd
<1>2. CompilationInv /\ HistoryInv /\ EndsEmpty /\ DeadBlocksInv /\ RunInv /\ LoweringInv /\ ValidationInv
  BY DEF ReturnInv, CompilationInv
<1>3. /\ validated /\ validated' /\ errors = <<>>
      /\ prog' = prog /\ scopes' = scopes /\ errors' = errors /\ ret_void' = ret_void /\ validated' = validated
      /\ block' = block /\ index' = index /\ last' = last /\ running' = running
      /\ outcome = "lowering" /\ outcome' = "done" /\ block_count' = block_count
      /\ code' = IF HasTerminator(code, current_block) THEN code
                 ELSE Emit(code, current_block, Code("ret", 0))
  BY <1>1 DEF validationVars, runVars, Accepted, LowerFunctionEnd
<1>4. CompilationInv'
  BY <1>2, LowerEndStep
<1>5. HistoryInv'
  BY <1>2, <1>3 DEF HistoryInv
<1>6. EndsEmpty' /\ DeadBlocksInv'
  BY <1>3 DEF EndsEmpty, DeadBlocksInv
<1>7. running = "idle" /\ block = 1 /\ index = 1 /\ last = Structure!Start
  BY <1>2, <1>3 DEF RunInv
<1>8. ASSUME ~ret_void PROVE \E D : Outside(D)'
  <2>1. PICK H, s, D : /\ History(H, prog, scopes) /\ s = H[NextPosition] /\ DeadBlocks(s, D)
    BY <1>1, <1>2, <1>3 DEF DeadBlocksInv
  <2>2. s = scopes
    BY <1>1, <2>1 DEF History
  <2>3. s[Len(s)].flow = "returns"
    BY <1>2, <1>3, <1>8, <2>2 DEF HistoryInv
  <2>4. /\ current_block \in D \/ HasTerminator(code, current_block)
        /\ Closed(code, block_count, D) /\ 1 \notin D
    BY <2>1, <2>3 DEF DeadBlocks
  <2>5. /\ code \in CodeMap(block_count) /\ current_block \in 1 .. block_count
        /\ block_count \in Nat \ {0}
    BY <1>2, InvFacts
  <2>6. Code("ret", 0) \in Instruction
    BY CodeFacts
  <2>7. Closed(code', block_count, D)
    <3>1. CASE HasTerminator(code, current_block)
      BY <1>3, <2>4, <3>1
    <3>2. CASE ~HasTerminator(code, current_block)
      BY <1>3, <2>4, <2>5, <2>6, <3>2, ClosedEmit
    <3> QED
      BY <3>1, <3>2
  <2>8. 1 \in 1 .. block_count
    BY <2>5
  <2>9. Outside(D)'
    BY <1>3, <1>7, <2>4, <2>7, <2>8 DEF Outside
  <2> QED
    BY <2>9
<1>9. RunInv'
  <2>1. last' = Structure!Start' /\ running' = "idle" /\ block' = 1 /\ index' = 1
    BY <1>3, <1>7 DEF Structure!Start, Structure!Label
  <2>2. DefaultReturnUnused'
    BY <1>2, <1>3 DEF RunInv, DefaultReturnUnused, Structure!Label
  <2> QED
    BY <1>3, <1>8, <2>1, <2>2 DEF RunInv
<1> QED
  BY <1>3, <1>4, <1>5, <1>6, <1>9 DEF ReturnInv

\* The instruction that is executed leads to no block of D.
LEMMA OutsideExecutes ==
  ASSUME LoweringInv, NEW D, Outside(D), NEW ops, Executing(ops)
  PROVE  /\ Fine(Instr, D) /\ Instr.op \in ops
         /\ Instr.op \in {"br", "cond_br"} => Instr.then \in 1 .. block_count /\ Instr.else \in 1 .. block_count
<1>1. code \in CodeMap(block_count) /\ AllTargetsIn(code, block_count) /\ block_count \in Nat
  BY InvFacts
<1>2. block \in 1 .. block_count /\ index \in Nat \ {0} /\ index <= Len(code[block])
  BY DEF Outside, Executing
<1>3. code[block] \in Seq(Instruction)
  BY <1>1, <1>2 DEF CodeMap
<1>4. index \in DOMAIN code[block]
  BY <1>2, <1>3
<1>5. Fine(code[block][index], D) /\ TargetsIn(code[block][index], block_count)
  BY <1>1, <1>2, <1>4 DEF Outside, Closed, AllTargetsIn
<1> QED
  BY <1>5 DEF Instr, Executing, TargetsIn

\* The run of the compiled code.
LEMMA ReturnRun ==
  ASSUME ReturnInv,
         \/ Start \/ ExecuteStatement \/ ExecuteBranch \/ ExecuteCondition \/ ExecuteReturn
         \/ Finished \/ UNCHANGED vars
  PROVE  ReturnInv'
<1>1. UNCHANGED <<validationVars, loweringVars>>
  BY DEF Start, ExecuteStatement, ExecuteBranch, ExecuteCondition, ExecuteReturn,
     Finished, Executing, vars
<1>2. CompilationInv /\ HistoryInv /\ EndsEmpty /\ DeadBlocksInv /\ RunInv /\ LoweringInv
      /\ (~validated => LoweringInit)
  BY DEF ReturnInv, CompilationInv
<1>3. /\ prog' = prog /\ scopes' = scopes /\ errors' = errors /\ ret_void' = ret_void /\ validated' = validated
      /\ cursor' = cursor /\ block_count' = block_count /\ code' = code /\ current_block' = current_block
      /\ loop_targets' = loop_targets /\ frames' = frames /\ outcome' = outcome
  BY <1>1 DEF validationVars, loweringVars
<1>4. CompilationInv'
  BY <1>1, <1>2, RunStep
<1>5. HistoryInv' /\ EndsEmpty' /\ (~validated' => LoweringInit')
  BY <1>2, <1>3 DEF HistoryInv, EndsEmpty, LoweringInit
<1>6. DeadBlocksInv'
  <2>1. ASSUME NEW s, NEW D, DeadBlocks(s, D) PROVE DeadBlocks(s, D)'
    BY <1>3, <2>1 DEF DeadBlocks, HasTerminator
  <2>2. NextPosition' = NextPosition
    BY <1>3 DEF NextPosition
  <2> QED
    BY <1>2, <1>3, <2>1, <2>2 DEF DeadBlocksInv, Accepted
<1> SUFFICES RunInv'
  BY <1>4, <1>5, <1>6 DEF ReturnInv
<1>7. ASSUME UNCHANGED <<block, index, last>>, running' \in {running, "running"},
             outcome # "done" => running' = running
      PROVE  RunInv'
  <2>1. DefaultReturnUnused'
    BY <1>2, <1>3, <1>7 DEF RunInv, DefaultReturnUnused, Structure!Label
  <2>2. running' = "idle" => block' = 1 /\ index' = 1 /\ last' = Structure!Start'
    BY <1>2, <1>7 DEF RunInv, Structure!Start, Structure!Label
  <2>3. ASSUME NEW D, Outside(D) PROVE Outside(D)'
    BY <1>3, <1>7, <2>3 DEF Outside
  <2> QED
    BY <1>2, <1>3, <1>7, <2>1, <2>2, <2>3 DEF RunInv
<1>8. CASE Start
  BY <1>7, <1>8 DEF Start
<1>9. CASE Finished \/ UNCHANGED vars
  BY <1>7, <1>9 DEF Finished, vars, runVars
<1>10. ASSUME NEW ops, Executing(ops), running' # "idle",
              \A D : Outside(D) /\ Fine(Instr, D) /\ Instr.op \in ops
                     /\ (Instr.op \in {"br", "cond_br"} =>
                           Instr.then \in 1 .. block_count /\ Instr.else \in 1 .. block_count)
                     => /\ block' \in 1 .. block_count /\ block' \notin D /\ index' \in Nat \ {0}
                        /\ last' = last \/ last' # Structure!Label("ret", 0, FALSE)
       PROVE  RunInv'
  <2>1. outcome = "done"
    BY <1>2, <1>10 DEF RunInv, Executing
  <2>2. CASE ret_void
    BY <1>3, <1>10, <2>1, <2>2 DEF RunInv, DefaultReturnUnused
  <2>3. CASE ~ret_void
    <3>1. PICK D : Outside(D)
      BY <1>2, <2>1, <2>3 DEF RunInv
    <3>2. /\ Fine(Instr, D) /\ Instr.op \in ops
          /\ Instr.op \in {"br", "cond_br"} => Instr.then \in 1 .. block_count /\ Instr.else \in 1 .. block_count
      BY <1>2, <1>10, <3>1, OutsideExecutes
    <3>3. /\ block' \in 1 .. block_count /\ block' \notin D /\ index' \in Nat \ {0}
          /\ last' = last \/ last' # Structure!Label("ret", 0, FALSE)
      BY <1>10, <3>1, <3>2
    <3>4. Outside(D)'
      BY <1>3, <3>1, <3>3 DEF Outside
    <3>5. last' # Structure!Label("ret", 0, FALSE)
      BY <1>2, <2>3, <3>3 DEF RunInv, DefaultReturnUnused
    <3>6. DefaultReturnUnused'
      BY <3>5 DEF DefaultReturnUnused, Structure!Label
    <3> QED
      BY <1>3, <1>10, <2>1, <3>4, <3>6 DEF RunInv
  <2> QED
    BY <2>2, <2>3
<1>11. CASE ExecuteStatement
  <2>1. /\ Executing({"stmt", "init", "update"}) /\ running' = running /\ running = "running"
        /\ block' = block /\ index' = index + 1 /\ last' = Structure!Label(Instr.op, Instr.src, FALSE)
    BY <1>11 DEF ExecuteStatement, Executing
  <2>2. ASSUME NEW D, Outside(D), Instr.op \in {"stmt", "init", "update"}
        PROVE  /\ block' \in 1 .. block_count /\ block' \notin D /\ index' \in Nat \ {0}
               /\ last' # Structure!Label("ret", 0, FALSE)
    <3>1. block' \in 1 .. block_count /\ block' \notin D /\ index' \in Nat \ {0}
      BY <2>1, <2>2 DEF Outside
    <3>2. Instr.op # "ret"
      BY <2>2
    <3> QED
      BY <2>1, <3>1, <3>2, StartIsNoReturn
  <2> QED
    BY <1>10, <2>1, <2>2
<1>12. CASE ExecuteBranch
  <2>1. /\ Executing({"br"}) /\ running' = running /\ running = "running" /\ last' = last
        /\ block' = Instr.then /\ index' = 1
    BY <1>12 DEF ExecuteBranch, Executing
  <2>2. \A D : Fine(Instr, D) /\ Instr.op = "br" => Instr.then \notin D
    BY DEF Fine
  <2> QED
    BY <1>10, <2>1, <2>2
<1>13. CASE ExecuteCondition
  <2>1. PICK out \in BOOLEAN : /\ last' = Structure!Label("cond", Instr.src, out)
                               /\ block' = IF out THEN Instr.then ELSE Instr.else
    BY <1>13 DEF ExecuteCondition
  <2>2. /\ Executing({"cond_br"}) /\ running' = running /\ running = "running" /\ index' = 1
    BY <1>13 DEF ExecuteCondition, Executing
  <2>3. \A D : Fine(Instr, D) /\ Instr.op = "cond_br" => Instr.then \notin D /\ Instr.else \notin D
    BY DEF Fine
  <2>4. last' # Structure!Label("ret", 0, FALSE)
    BY <2>1, StartIsNoReturn
  <2>5. block' \in {Instr.then, Instr.else}
    BY <2>1
  <2>6. ASSUME NEW D, Fine(Instr, D), Instr.op \in {"cond_br"},
               Instr.op \in {"br", "cond_br"} => Instr.then \in 1 .. block_count /\ Instr.else \in 1 .. block_count
        PROVE  /\ block' \in 1 .. block_count /\ block' \notin D /\ index' \in Nat \ {0}
               /\ last' # Structure!Label("ret", 0, FALSE)
    <3>1. Instr.then \in 1 .. block_count /\ Instr.else \in 1 .. block_count
      BY <2>6
    <3>2. Instr.then \notin D /\ Instr.else \notin D
      BY <2>3, <2>6
    <3>3. block' \in 1 .. block_count /\ block' \notin D
      BY <2>5, <3>1, <3>2
    <3>4. index' \in Nat \ {0}
      BY <2>2
    <3> QED
      BY <2>4, <3>3, <3>4
  <2>7. running' # "idle"
    BY <2>2
  <2> QED
    BY <1>10, <2>2, <2>6, <2>7, ZenonT(30)
<1>14. CASE ExecuteReturn
  <2>1. /\ Executing({"ret"}) /\ running' = "returned" /\ last' = Structure!Label("ret", Instr.src, FALSE)
        /\ block' = block /\ index' = index
    BY <1>14 DEF ExecuteReturn
  <2>2. ASSUME NEW D, Outside(D), Fine(Instr, D), Instr.op = "ret"
        PROVE  /\ block' \in 1 .. block_count /\ block' \notin D /\ index' \in Nat \ {0}
               /\ last' # Structure!Label("ret", 0, FALSE)
    BY <2>1, <2>2, StartIsNoReturn DEF Outside, Fine
  <2> QED
    BY <1>10, <2>1, <2>2
<1> QED
  BY <1>8, <1>9, <1>11, <1>12, <1>13, <1>14

\* Every step keeps the invariant.
LEMMA ReturnStep == ReturnInv /\ [Next]_vars => ReturnInv'
<1> SUFFICES ASSUME ReturnInv, [Next]_vars PROVE ReturnInv'
  OBVIOUS
<1>1. CASE Validate /\ UNCHANGED <<loweringVars, runVars>>
  BY <1>1, ReturnValidated
<1>2. CASE LowerNext
  BY <1>2, ReturnLowered
<1>3. CASE LowerEnd
  BY <1>3, ReturnEnded
<1>4. CASE \/ Start \/ ExecuteStatement \/ ExecuteBranch \/ ExecuteCondition \/ ExecuteReturn
           \/ Finished \/ UNCHANGED vars
  BY <1>4, ReturnRun
<1> QED
  BY <1>1, <1>2, <1>3, <1>4 DEF Next

\* Nothing has happened at first.
LEMMA ReturnStarts == Init => ReturnInv
<1> SUFFICES ASSUME Init PROVE ReturnInv
  OBVIOUS
<1>1. ValidationInit /\ LoweringInit /\ block = 1 /\ index = 1 /\ last = Structure!Start /\ running = "idle"
  BY DEF Init
<1>2. CompilationInv /\ HistoryInv
  BY <1>1, CompilationStarts, HistoryStarts
<1>3. frames = <<>> /\ outcome = "lowering" /\ validated = FALSE
  BY <1>1 DEF LoweringInit, ValidationInit
<1>4. EndsEmpty
  <2>1. DOMAIN frames = {}
    BY <1>3
  <2> QED
    BY <2>1 DEF EndsEmpty
<1>5. DeadBlocksInv
  BY <1>3 DEF DeadBlocksInv, Accepted
<1>6. RunInv
  BY <1>1, <1>3, StartIsNoReturn DEF RunInv, DefaultReturnUnused
<1> QED
  BY <1>1, <1>2, <1>4, <1>5, <1>6 DEF ReturnInv

\* Throughout a compilation and the run that follows it there is a set of blocks
\* that no execution enters, and the default return of a function that must
\* return a value is in it.
THEOREM ReturnInvariant == Spec => []ReturnInv
<1> QED
  BY ReturnStarts, ReturnStep, PTL DEF Spec

\* The return that irBuilderLowerFunctionBody appends to an accepted function
\* with a return type is never executed, for function bodies of every size and
\* nesting: the missing-return check of validateFunction is sound.
THEOREM DefaultReturnNeverRuns == Spec => []DefaultReturnUnused
<1>1. ReturnInv => DefaultReturnUnused
  BY DEF ReturnInv, RunInv
<1> QED
  BY <1>1, ReturnInvariant, PTL

-----------------------------------------------------------------------------
(* The control points that an execution passes *)

\* A set of control points that holds the first one and the ones that follow its
\* own holds every one that is passed.
LEMMA PassedClosed ==
  ASSUME NEW p, NEW P, P = Structure!Points(p), P \in Nat, NEW S, Structure!At(1) \in S,
         \A pt \in S : Structure!Onward(p, pt) \subseteq S
  PROVE  Structure!Passed(p) \subseteq S
<1> DEFINE A == {Structure!At(1)}
           G(T) == T \cup UNION {Structure!Onward(p, pt) : pt \in T}
           Rec(f, n) == f = [m \in 0 .. n |-> IF m = 0 THEN A ELSE G(f[m - 1])]
<1>1. \E f : Rec(f, P)
  <2> DEFINE B == {n \in 0 .. P : ~\E f : Rec(f, n)}
  <2> SUFFICES ASSUME B # {} PROVE FALSE
    <3>1. P \in 0 .. P
      OBVIOUS
    <3> HIDE DEF Rec
    <3> QED
      BY <3>1
  <2>1. PICK n \in B : \A j \in B : n <= j
    <3>1. B \subseteq Nat
      OBVIOUS
    <3> HIDE DEF B
    <3> QED
      BY <3>1, LeastExists
  <2>2. n \in 0 .. P /\ ~\E f : Rec(f, n)
    BY <2>1
  <2>3. CASE n = 0
    <3>1. PICK f : f = [m \in 0 .. n |-> A]
      OBVIOUS
    <3>2. \A m \in 0 .. n : m = 0
      BY <2>3
    <3>3. Rec(f, n)
      BY <3>1, <3>2
    <3> QED
      BY <2>2, <3>3
  <2>4. CASE n # 0
    <3>1. n - 1 \in 0 .. P /\ n \in Nat \ {0} /\ ~(n <= n - 1)
      BY <2>2, <2>4
    <3>2. n - 1 \notin B
      BY <2>1, <3>1
    <3>3. PICK f : Rec(f, n - 1)
      BY <3>1, <3>2
    <3>4. PICK g : g = [m \in 0 .. n |-> IF m = n THEN G(f[n - 1]) ELSE f[m]]
      OBVIOUS
    <3>5. ASSUME NEW m \in 0 .. n PROVE g[m] = IF m = 0 THEN A ELSE G(g[m - 1])
      <4> HIDE DEF G, A
      <4>1. CASE m = n
        <5>1. g[m] = G(f[n - 1]) /\ g[n - 1] = f[n - 1]
          BY <3>1, <3>4, <4>1
        <5> QED
          BY <3>1, <4>1, <5>1
      <4>2. CASE m # n
        <5>1. g[m] = f[m] /\ m \in 0 .. n - 1 /\ (m # 0 => m - 1 \in 0 .. n /\ m - 1 # n)
          BY <3>1, <3>4, <4>2
        <5>2. f[m] = IF m = 0 THEN A ELSE G(f[m - 1])
          BY <3>3, <5>1
        <5>3. m # 0 => g[m - 1] = f[m - 1]
          BY <3>4, <5>1
        <5> QED
          BY <5>1, <5>2, <5>3
      <4> QED
        BY <4>1, <4>2
    <3>6. Rec(g, n)
      <4> HIDE DEF G, A
      <4> QED
        BY <3>4, <3>5
    <3> QED
      BY <2>2, <3>6
  <2> QED
    BY <2>3, <2>4
<1>2. PICK W : W = CHOOSE f : Rec(f, P)
  OBVIOUS
<1>3. Rec(W, P)
  BY <1>1, <1>2
<1>4. Structure!Passed(p) = W[P]
  BY <1>2 DEF Structure!Passed
<1> HIDE DEF A
<1>5. \A m \in 0 .. P : W[m] = IF m = 0 THEN A ELSE G(W[m - 1])
  <2> HIDE DEF G
  <2> QED
    BY <1>3
<1>6. ASSUME NEW T, T \subseteq S PROVE G(T) \subseteq S
  BY <1>6
<1> HIDE DEF G
<1>7. ASSUME NEW m \in 0 .. P, m # 0, W[m - 1] \subseteq S PROVE W[m] \subseteq S
  BY <1>5, <1>6, <1>7
<1>8. W[0] \subseteq S
  <2>1. 0 \in 0 .. P
    OBVIOUS
  <2> QED
    BY <1>5, <2>1 DEF A
<1>9. W[P] \subseteq S
  <2> DEFINE B == {m \in 0 .. P : ~(W[m] \subseteq S)}
  <2> SUFFICES ASSUME B # {} PROVE FALSE
    <3>1. P \in 0 .. P
      OBVIOUS
    <3> QED
      BY <3>1
  <2>1. PICK n \in B : \A j \in B : n <= j
    <3>1. B \subseteq Nat
      OBVIOUS
    <3> HIDE DEF B
    <3> QED
      BY <3>1, LeastExists
  <2>2. n \in 0 .. P /\ n # 0
    BY <1>8, <2>1
  <2>3. n - 1 \in 0 .. P /\ ~(n <= n - 1)
    BY <2>2
  <2>4. W[n - 1] \subseteq S
    BY <2>1, <2>3
  <2>5. W[n] \subseteq S
    BY <1>7, <2>2, <2>4
  <2> QED
    BY <2>1, <2>5
<1> QED
  BY <1>4, <1>9

\* The point after one that is not observed, and the points after one that is.
LEMMA OnwardSilent ==
  ASSUME NEW p, NEW pt, NEW q \in Structure!Onward(p, pt), Structure!Seen(p, pt) = {}
  PROVE  q = Structure!Silent(p, pt)
BY DEF Structure!Onward

LEMMA OnwardSeen ==
  ASSUME NEW p, NEW pt, NEW q \in Structure!Onward(p, pt), NEW x, Structure!Seen(p, pt) = {x}
  PROVE  /\ x # "ret"
         /\ pt[2] # Len(p) + 1 =>
              \/ q = Structure!After(p, Structure!Label(x, pt[2], TRUE))
              \/ q = Structure!After(p, Structure!Label(x, pt[2], FALSE))
<1>1. PICK l \in Structure!Steps(p, pt) : l.op # "ret" /\ q = Structure!After(p, l)
  BY DEF Structure!Onward
<1>2. PICK item, outs : /\ outs = IF Structure!Seen(p, pt) = {"cond"} THEN BOOLEAN ELSE {FALSE}
                        /\ item = IF pt[2] = Len(p) + 1 THEN 0 ELSE pt[2]
  OBVIOUS
<1>3. Structure!Steps(p, pt) = {Structure!Label(op, item, out) : op \in Structure!Seen(p, pt), out \in outs}
  BY <1>2 DEF Structure!Steps
<1>4. PICK op \in Structure!Seen(p, pt), out \in outs : l = Structure!Label(op, item, out)
  BY <1>1, <1>3
<1>5. op = x /\ out \in BOOLEAN
  BY <1>2, <1>4
<1>6. l.op = op
  BY <1>4 DEF Structure!Label
<1>7. out = TRUE \/ out = FALSE
  BY <1>5
<1>8. CASE out = TRUE
  BY <1>1, <1>2, <1>4, <1>5, <1>6, <1>8
<1>9. CASE out = FALSE
  BY <1>1, <1>2, <1>4, <1>5, <1>6, <1>9
<1> QED
  BY <1>7, <1>8, <1>9

\* The items have one of these operations.
LEMMA OpsOfItems ==
  ASSUME NEW e \in Item
  PROVE  /\ e.op \in LeafOps \cup OpenOps \cup CloseOps \cup {"else"}
         /\ e.op = "for" => e.header \in ForHeader
BY ForHeadersAssumption
   DEF Item, SimpleItem, OpenItem, Plain, Ret, For, Func, LeafOps, OpenOps, CloseOps

\* The structure that the abstract specification sees is the one of Statements.
LEMMA SameStructure ==
  ASSUME NEW p, NEW n
  PROVE  /\ Structure!Close(p, n) = Close(p, n)
         /\ Structure!Open(p, n) = Open(p, n)
         /\ Structure!LoopOf(p, n) = LoopOf(p, n)
         /\ Structure!ElseOrEnd(p, n) = ElseOrEnd(p, n)
<1>1. \A S : Structure!Min(S) = Min(S) /\ Structure!Max(S) = Max(S)
  BY DEF Structure!Min, Structure!Max, Min, Max
<1>2. \A S : Structure!Cardinality(S) = Cardinality(S)
  BY DEF Structure!Cardinality, Structure!IsFiniteSet, Cardinality, IsFiniteSet
<1>3. /\ Structure!OpenOps = OpenOps /\ Structure!CloseOps = CloseOps /\ Structure!LoopOps = LoopOps
  BY DEF Structure!OpenOps, Structure!CloseOps, Structure!LoopOps, OpenOps, CloseOps, LoopOps
<1>4. \A m : Structure!Depth(p, m) = Depth(p, m)
  BY <1>2, <1>3 DEF Structure!Depth, Depth
<1>5. \A m : Structure!Close(p, m) = Close(p, m)
  BY <1>1, <1>3, <1>4 DEF Structure!Close, Close
<1>6. Structure!Open(p, n) = Open(p, n)
  BY <1>1, <1>3, <1>4 DEF Structure!Open, Open
<1>7. Structure!LoopOf(p, n) = LoopOf(p, n)
  BY <1>1, <1>3, <1>5 DEF Structure!LoopOf, LoopOf
<1>8. Structure!ElseOrEnd(p, n) = ElseOrEnd(p, n)
  <2> DEFINE T(c) == {m \in n + 1 .. c : p[m].op \in {"else", "endif"} /\ Depth(p, m) = Depth(p, n) + 1}
  <2>1. Structure!ElseOrEnd(p, n) = Structure!Min(T(Structure!Close(p, n)))
    BY <1>4 DEF Structure!ElseOrEnd
  <2>2. ElseOrEnd(p, n) = Min(T(Close(p, n)))
    BY DEF ElseOrEnd
  <2> HIDE DEF T
  <2> QED
    BY <1>1, <1>5, <2>1, <2>2
<1> QED
  BY <1>5, <1>6, <1>7, <1>8

\* The points after an item.
LEMMA OnwardItem ==
  ASSUME NEW p \in Seq(Item), NEW n \in 1 .. Len(p), NEW q \in Structure!Onward(p, Structure!At(n))
  PROVE  /\ p[n].op # "ret"
         /\ p[n].op \in {"stmt", "pure", "endif"} => q = Structure!At(n + 1)
         /\ p[n].op = "func" => q = Structure!At(Close(p, n) + 1)
         /\ p[n].op = "break" => q = Structure!At(Close(p, LoopOf(p, n)) + 1)
         /\ p[n].op = "continue" => q = Structure!At(Close(p, LoopOf(p, n)))
         /\ p[n].op = "else" => q = Structure!At(Close(p, Open(p, n)) + 1)
         /\ p[n].op = "endwhile" => q = Structure!At(Open(p, n))
         /\ p[n].op = "endfor" => q = Structure!UpdateOf(Open(p, n))
         /\ p[n].op = "for" => q = Structure!CondOf(n)
         /\ p[n].op = "if" => q \in {Structure!At(n + 1), Structure!At(ElseOrEnd(p, n) + 1)}
         /\ p[n].op = "while" => q \in {Structure!At(n + 1), Structure!At(Close(p, n) + 1)}
<1>a. PICK pt : pt = Structure!At(n)
  OBVIOUS
<1>b. n # Len(p) + 1 /\ p[n] \in Item /\ p[n].op # "start"
  <2>1. p[n] \in Item /\ n # Len(p) + 1
    OBVIOUS
  <2> QED
    BY <2>1, OpsOfItems DEF LeafOps, OpenOps, CloseOps
<1>1. pt[1] = "at" /\ pt[2] = n
  BY <1>a DEF Structure!At
<1>2. Structure!Seen(p, pt) = Structure!SeenAt(p[n])
  BY <1>b, <1>1 DEF Structure!Seen
<1>3. Structure!Silent(p, pt) = Structure!Skip(p, n)
  BY <1>1 DEF Structure!Silent
<1>4. CASE p[n].op \in {"pure", "endif", "func", "break", "continue", "else", "endwhile", "endfor"}
  <2>1. Structure!Seen(p, pt) = {}
    BY <1>2, <1>4 DEF Structure!SeenAt
  <2>2. q = Structure!Skip(p, n)
    BY <1>a, <1>3, <2>1, OnwardSilent
  <2> QED
    BY <1>4, <2>2, SameStructure DEF Structure!Skip
<1>5. CASE p[n].op \in {"stmt", "ret"}
  <2>1. Structure!Seen(p, pt) = {p[n].op}
    BY <1>2, <1>5 DEF Structure!SeenAt
  <2>2. /\ p[n].op # "ret"
        /\ \/ q = Structure!After(p, Structure!Label(p[n].op, n, TRUE))
           \/ q = Structure!After(p, Structure!Label(p[n].op, n, FALSE))
    <3>1. pt[2] = n /\ pt[2] # Len(p) + 1
      BY <1>b, <1>1
    <3>2. q \in Structure!Onward(p, pt)
      BY <1>a
    <3> QED
      BY <2>1, <3>1, <3>2, OnwardSeen
  <2> QED
    BY <1>5, <2>2 DEF Structure!After, Structure!Label
<1>6. CASE p[n].op \in {"if", "while"}
  <2>1. Structure!Seen(p, pt) = {"cond"}
    BY <1>2, <1>6 DEF Structure!SeenAt
  <2>2. \/ q = Structure!After(p, Structure!Label("cond", n, TRUE))
        \/ q = Structure!After(p, Structure!Label("cond", n, FALSE))
    <3>1. pt[2] = n /\ pt[2] # Len(p) + 1
      BY <1>b, <1>1
    <3>2. q \in Structure!Onward(p, pt)
      BY <1>a
    <3> QED
      BY <2>1, <3>1, <3>2, OnwardSeen
  <2> QED
    BY <1>6, <2>2, SameStructure DEF Structure!After, Structure!Label
<1>7. CASE p[n].op = "for"
  <2>1. CASE p[n].header.init
    <3>1. Structure!Seen(p, pt) = {"init"}
      BY <1>2, <1>7, <2>1 DEF Structure!SeenAt
    <3>2. \/ q = Structure!After(p, Structure!Label("init", n, TRUE))
          \/ q = Structure!After(p, Structure!Label("init", n, FALSE))
      <4>1. pt[2] = n /\ pt[2] # Len(p) + 1
        BY <1>b, <1>1
      <4>2. q \in Structure!Onward(p, pt)
        BY <1>a
      <4> QED
        BY <3>1, <4>1, <4>2, OnwardSeen
    <3> QED
      BY <1>7, <3>2 DEF Structure!After, Structure!Label
  <2>2. CASE ~p[n].header.init
    <3>1. Structure!Seen(p, pt) = {}
      BY <1>2, <1>7, <2>2 DEF Structure!SeenAt
    <3>2. q = Structure!Skip(p, n)
      BY <1>a, <1>3, <3>1, OnwardSilent
    <3> QED
      BY <1>7, <3>2 DEF Structure!Skip
  <2> QED
    BY <2>1, <2>2
<1> QED
  BY <1>b, <1>4, <1>5, <1>6, <1>7, OpsOfItems DEF LeafOps, OpenOps, CloseOps

\* The points after the clauses of a for, and after the end.
LEMMA OnwardClause ==
  ASSUME NEW p \in Seq(Item), NEW n \in 1 .. Len(p), p[n].op = "for"
  PROVE  /\ \A q \in Structure!Onward(p, Structure!CondOf(n)) :
              q \in {Structure!At(n + 1), Structure!At(Close(p, n) + 1)}
         /\ \A q \in Structure!Onward(p, Structure!UpdateOf(n)) : q = Structure!CondOf(n)
<1>1. n # Len(p) + 1
  OBVIOUS
<1>2. ASSUME NEW q \in Structure!Onward(p, Structure!CondOf(n))
      PROVE  q \in {Structure!At(n + 1), Structure!At(Close(p, n) + 1)}
  <2>a. PICK pt : pt = Structure!CondOf(n)
    OBVIOUS
  <2>1. pt[1] = "head" /\ pt[2] = n
    BY <2>a DEF Structure!CondOf
  <2>2. CASE p[n].header.cond
    <3>1. Structure!Seen(p, pt) = {"cond"}
      BY <2>1, <2>2 DEF Structure!Seen
    <3>2. \/ q = Structure!After(p, Structure!Label("cond", n, TRUE))
          \/ q = Structure!After(p, Structure!Label("cond", n, FALSE))
      <4>1. pt[2] = n /\ pt[2] # Len(p) + 1
        BY <1>1, <2>1
      <4>2. q \in Structure!Onward(p, pt)
        BY <1>2, <2>a
      <4> QED
        BY <3>1, <4>1, <4>2, OnwardSeen
    <3> QED
      BY <3>2, SameStructure DEF Structure!After, Structure!Label
  <2>3. CASE ~p[n].header.cond
    <3>1. Structure!Seen(p, pt) = {}
      BY <2>1, <2>3 DEF Structure!Seen
    <3>2. q = Structure!Silent(p, pt)
      BY <1>2, <2>a, <3>1, OnwardSilent
    <3> QED
      BY <2>1, <3>2 DEF Structure!Silent
  <2> QED
    BY <2>2, <2>3
<1>3. ASSUME NEW q \in Structure!Onward(p, Structure!UpdateOf(n))
      PROVE  q = Structure!CondOf(n)
  <2>a. PICK pt : pt = Structure!UpdateOf(n)
    OBVIOUS
  <2>1. pt[1] = "next" /\ pt[2] = n
    BY <2>a DEF Structure!UpdateOf
  <2>2. CASE p[n].header.update
    <3>1. Structure!Seen(p, pt) = {"update"}
      BY <2>1, <2>2 DEF Structure!Seen
    <3>2. \/ q = Structure!After(p, Structure!Label("update", n, TRUE))
          \/ q = Structure!After(p, Structure!Label("update", n, FALSE))
      <4>1. pt[2] = n /\ pt[2] # Len(p) + 1
        BY <1>1, <2>1
      <4>2. q \in Structure!Onward(p, pt)
        BY <1>3, <2>a
      <4> QED
        BY <3>1, <4>1, <4>2, OnwardSeen
    <3> QED
      BY <3>2, SameStructure DEF Structure!After, Structure!Label
  <2>3. CASE ~p[n].header.update
    <3>1. Structure!Seen(p, pt) = {}
      BY <2>1, <2>3 DEF Structure!Seen
    <3>2. q = Structure!Silent(p, pt)
      BY <1>3, <2>a, <3>1, OnwardSilent
    <3> QED
      BY <2>1, <3>2 DEF Structure!Silent
  <2> QED
    BY <2>2, <2>3
<1> QED
  BY <1>2, <1>3

LEMMA OnwardEnd ==
  ASSUME NEW p
  PROVE  Structure!Onward(p, Structure!At(Len(p) + 1)) = {}
<1>a. PICK pt : pt = Structure!At(Len(p) + 1)
  OBVIOUS
<1>1. pt[1] = "at" /\ pt[2] = Len(p) + 1
  BY <1>a DEF Structure!At
<1>2. Structure!Seen(p, pt) = {"ret"}
  BY <1>1 DEF Structure!Seen
<1> QED
  BY <1>a, <1>2, OnwardSeen

\* A set of numbers that does not go on for ever has a greatest one.
LEMMA GreatestExists ==
  ASSUME NEW N \in Nat, NEW S \in SUBSET (0 .. N), S # {}
  PROVE  /\ \E g \in S : \A y \in S : y <= g
         /\ \A g \in S : (\A y \in S : y <= g) => Max(S) = g
<1> DEFINE U == {u \in 0 .. N : \A y \in S : y <= u}
<1>1. N \in U /\ U \in SUBSET Nat
  OBVIOUS
<1>2. PICK g \in U : \A u \in U : g <= u
  <2> HIDE DEF U
  <2> QED
    BY <1>1, LeastExists
<1>3. g \in 0 .. N /\ \A y \in S : y <= g
  BY <1>2
<1>4. g \in S
  <2> SUFFICES ASSUME g \notin S PROVE FALSE
    OBVIOUS
  <2>1. PICK y \in S : TRUE
    OBVIOUS
  <2>2. \A z \in S : z \in 0 .. N /\ z <= g /\ z # g
    BY <1>3
  <2>3. g - 1 \in 0 .. N /\ ~(g <= g - 1)
    BY <1>3, <2>1, <2>2
  <2>4. \A z \in S : z <= g - 1
    BY <1>3, <2>2
  <2>5. g - 1 \in U
    BY <2>3, <2>4
  <2> QED
    BY <1>2, <2>3, <2>5
<1>5. ASSUME NEW h \in S, \A y \in S : y <= h PROVE Max(S) = h
  <2>1. \A z \in S : (\A y \in S : z >= y) => z = h
    <3>1. \A z \in S : z \in Nat
      OBVIOUS
    <3> QED
      BY <1>5, <3>1
  <2>2. \A y \in S : h >= y
    <3>1. \A z \in S : z \in Nat
      OBVIOUS
    <3> QED
      BY <1>5, <3>1
  <2> QED
    BY <2>1, <2>2 DEF Max
<1> QED
  BY <1>3, <1>4, <1>5

\* What the history says of an item.
LEMMA HistoryFacts ==
  ASSUME ValidationInv, NEW H, History(H, prog, scopes), NEW n \in 1 .. Len(prog) + 1
  PROVE  /\ Len(prog) \in Nat /\ DOMAIN prog = 1 .. Len(prog) /\ n \in Nat \ {0}
         /\ H[n] \in Seq(Block) /\ Len(H[n]) \in Nat \ {0}
         /\ Depth(prog, n) = Len(H[n]) - 1
         /\ n \in DOMAIN prog =>
              /\ prog[n] \in Item /\ n + 1 \in 1 .. Len(prog) + 1
              /\ H[n + 1] \in Seq(Block) /\ Len(H[n + 1]) \in Nat \ {0}
              /\ Walk(H[n], prog[n], H[n + 1])
              /\ prog[n].op \in LeafOps => WalkLeaf(H[n], prog[n], H[n + 1])
              /\ prog[n].op = "else" => WalkElse(H[n], prog[n], H[n + 1])
              /\ prog[n].op \in OpenOps => WalkOpen(H[n], prog[n], H[n + 1])
              /\ prog[n].op \in CloseOps => WalkClose(H[n], prog[n], H[n + 1])
<1>1. prog \in Seq(Item) /\ Len(prog) \in Nat /\ DOMAIN prog = 1 .. Len(prog) /\ n \in Nat \ {0}
  BY DEF ValidationInv, ValidationTypeOK
<1>2. \A j \in 1 .. Len(prog) + 1 : H[j] \in Seq(Block) /\ Len(H[j]) = Depth(prog, j) + 1 /\ Len(H[j]) # 0
  BY DEF History
<1>3. \A j \in 1 .. Len(prog) + 1 : Len(H[j]) \in Nat \ {0}
  BY <1>2
<1>4. Depth(prog, n) = Len(H[n]) - 1
  <2>1. Depth(prog, n) \in Int
    BY <1>1, DepthNext
  <2> QED
    BY <1>2, <1>3, <2>1
<1>5. ASSUME n \in DOMAIN prog
      PROVE  /\ prog[n] \in Item /\ n + 1 \in 1 .. Len(prog) + 1
             /\ Walk(H[n], prog[n], H[n + 1])
             /\ prog[n].op \in LeafOps => WalkLeaf(H[n], prog[n], H[n + 1])
             /\ prog[n].op = "else" => WalkElse(H[n], prog[n], H[n + 1])
             /\ prog[n].op \in OpenOps => WalkOpen(H[n], prog[n], H[n + 1])
             /\ prog[n].op \in CloseOps => WalkClose(H[n], prog[n], H[n + 1])
  <2>1. prog[n] \in Item /\ n + 1 \in 1 .. Len(prog) + 1 /\ Walk(H[n], prog[n], H[n + 1])
    BY <1>1, <1>5 DEF History
  <2>2. /\ LeafOps \cap OpenOps = {} /\ LeafOps \cap CloseOps = {} /\ OpenOps \cap CloseOps = {}
        /\ "else" \notin LeafOps \cup OpenOps \cup CloseOps
    BY DEF LeafOps, OpenOps, CloseOps
  <2> QED
    BY <2>1, <2>2 DEF Walk, WalkLeaf, WalkElse, WalkOpen, WalkClose
<1> QED
  BY <1>1, <1>2, <1>3, <1>4, <1>5

\* Open finds the statement that item n closes or continues.
LEMMA OpenFacts ==
  ASSUME ValidationInv, validated, NEW H, History(H, prog, scopes), NEW n \in DOMAIN prog,
         NEW L, L + 1 = Len(H[n]), L \in Nat \ {0}, NEW q, q = Open(prog, n)
  PROVE  /\ q \in DOMAIN prog /\ q < n /\ prog[q].op \in OpenOps /\ Len(H[q]) = L
         /\ Spans(H, q, L, Close(prog, q)) /\ n \in q + 1 .. Close(prog, q)
         /\ prog[n].op \in CloseOps => Close(prog, q) = n
<1>1. Len(prog) \in Nat /\ DOMAIN prog = 1 .. Len(prog) /\ n \in Nat \ {0} /\ n \in 1 .. Len(prog) + 1
  BY DEF ValidationInv, ValidationTypeOK
<1>2. \A j \in 1 .. n : /\ j \in 1 .. Len(prog) + 1 /\ j \in DOMAIN prog
                        /\ Len(H[j]) \in Nat \ {0} /\ Depth(prog, j) = Len(H[j]) - 1
  BY <1>1, HistoryFacts
<1> DEFINE S == {j \in 1 .. n : Len(H[j]) <= L}
<1>3. 1 \in S
  <2>1. Depth(prog, 1) = 0
    BY <1>1, DepthNext
  <2>2. 1 \in 1 .. n
    BY <1>1
  <2>3. Len(H[1]) \in Nat /\ Depth(prog, 1) = Len(H[1]) - 1
    BY <1>2, <2>2
  <2>4. Len(H[1]) <= L
    BY <2>1, <2>3
  <2> QED
    BY <2>2, <2>4
<1>4. PICK g \in S : \A y \in S : y <= g
  <2>1. S \in SUBSET (0 .. n) /\ S # {} /\ n \in Nat
    BY <1>1, <1>3
  <2> HIDE DEF S
  <2> QED
    BY <2>1, GreatestExists
<1>5. /\ g \in 1 .. n /\ Len(H[g]) <= L /\ g # n /\ g \in 1 .. n - 1 /\ g + 1 \in 1 .. n /\ g \in DOMAIN prog
      /\ g \in 1 .. Len(prog) + 1
  <2>1. g \in 1 .. n /\ Len(H[g]) <= L
    BY <1>4
  <2>2. g # n
    BY <1>1, <1>2, <2>1
  <2> QED
    BY <1>1, <2>1, <2>2
<1>6. \A j \in g + 1 .. n : Len(H[j]) >= L + 1 /\ j \in 1 .. n
  <2> SUFFICES ASSUME NEW j \in g + 1 .. n PROVE Len(H[j]) >= L + 1 /\ j \in 1 .. n
    OBVIOUS
  <2>1. j \in 1 .. n /\ ~(j <= g)
    BY <1>1, <1>5
  <2>2. j \notin S
    BY <1>4, <2>1
  <2>3. ~(Len(H[j]) <= L) /\ Len(H[j]) \in Nat
    BY <1>2, <2>1, <2>2
  <2> QED
    BY <2>1, <2>3
<1>7. prog[g].op \in OpenOps /\ Len(H[g]) = L
  <2>1. g + 1 \in g + 1 .. n
    BY <1>1, <1>5
  <2>2. Len(H[g + 1]) >= L + 1 /\ Len(H[g + 1]) \in Nat /\ Len(H[g]) \in Nat
    BY <1>2, <1>5, <1>6, <2>1
  <2>3. Walk(H[g], prog[g], H[g + 1])
    BY <1>5, HistoryFacts
  <2> QED
    BY <1>5, <2>2, <2>3 DEF Walk, WalkLeaf, WalkElse, WalkOpen, WalkClose
<1>8. q = g
  <2> DEFINE T == {m \in 1 .. n - 1 : prog[m].op \in OpenOps /\ Depth(prog, m) = Depth(prog, n) - 1}
  <2>1. q = Max(T)
    BY DEF Open
  <2>2. Depth(prog, n) = L /\ Depth(prog, g) = L - 1
    <3>1. n \in 1 .. n /\ g \in 1 .. n
      BY <1>1, <1>5
    <3>2. Depth(prog, n) = Len(H[n]) - 1 /\ Depth(prog, g) = Len(H[g]) - 1
      BY <1>2, <3>1
    <3> QED
      BY <1>7, <3>2
  <2>3. g \in T
    BY <1>5, <1>7, <2>2
  <2>4. \A m \in T : m <= g
    <3> SUFFICES ASSUME NEW m \in T PROVE m <= g
      OBVIOUS
    <3>1. m \in 1 .. n /\ Depth(prog, m) = L - 1
      BY <1>1, <2>2
    <3>2. Len(H[m]) <= L
      BY <1>2, <3>1
    <3> QED
      BY <1>4, <3>1, <3>2
  <2>5. T \in SUBSET (0 .. n) /\ n \in Nat
    BY <1>1
  <2> HIDE DEF T
  <2> QED
    BY <2>1, <2>3, <2>4, <2>5, GreatestExists
<1>9. PICK c : c = Close(prog, q)
  OBVIOUS
<1>10. Spans(H, q, L, c)
  BY <1>5, <1>7, <1>8, <1>9, CompoundHistory
<1>11. c \in q + 1 .. Len(prog) /\ Len(H[c + 1]) = L /\ \A j \in q + 1 .. c : Len(H[j]) >= L + 1
  BY <1>10 DEF Spans
<1>12. n \in q + 1 .. c
  <2>1. c + 1 \notin g + 1 .. n
    BY <1>6, <1>11
  <2> QED
    BY <1>1, <1>5, <1>8, <1>11, <2>1
<1>13. prog[n].op \in CloseOps => c = n
  <2> SUFFICES ASSUME prog[n].op \in CloseOps, c # n PROVE FALSE
    OBVIOUS
  <2>1. n + 1 \in q + 1 .. c
    BY <1>1, <1>5, <1>8, <1>11, <1>12
  <2>2. Len(H[n + 1]) >= L + 1
    BY <1>11, <2>1
  <2>3. WalkClose(H[n], prog[n], H[n + 1])
    BY <1>1, HistoryFacts
  <2> QED
    BY <2>2, <2>3 DEF WalkClose
<1> QED
  BY <1>1, <1>5, <1>7, <1>8, <1>9, <1>10, <1>12, <1>13

\* The first k blocks of stack s are no functions, and no return was met in them.
Good(s, k) == \A i \in 1 .. k : s[i].of # "func" /\ s[i].flow = "continues"

\* Before item n no block has returned; at the end of a loop its body may have.
LiveAt(H, n) ==
  /\ n \in 1 .. Len(prog) + 1
  /\ \/ Good(H[n], Len(H[n]))
     \/ n \in DOMAIN prog /\ prog[n].op \in {"endwhile", "endfor"} /\ Good(H[n], Len(H[n]) - 1)

LEMMA GoodAlike ==
  ASSUME NEW s, NEW t, NEW k \in Nat, NEW j \in Nat, j <= k, Alike(s, t, k)
  PROVE  Good(s, j) <=> Good(t, j)
<1>1. \A i \in 1 .. j : i \in 1 .. k
  OBVIOUS
<1> QED
  BY <1>1 DEF Good, Alike

LEMMA GoodMore ==
  ASSUME NEW s, NEW k \in Nat, Good(s, k), s[k + 1].of # "func", s[k + 1].flow = "continues"
  PROVE  Good(s, k + 1)
<1>1. \A i \in 1 .. k + 1 : i \in 1 .. k \/ i = k + 1
  OBVIOUS
<1> QED
  BY <1>1 DEF Good

LEMMA GoodLess ==
  ASSUME NEW s, NEW k \in Nat, NEW j \in Nat, j <= k, Good(s, k)
  PROVE  Good(s, j)
<1>1. \A i \in 1 .. j : i \in 1 .. k
  OBVIOUS
<1> QED
  BY <1>1 DEF Good

\* A stack whose blocks are those of a live one.
LEMMA LiveLike ==
  ASSUME NEW H, NEW n \in 1 .. Len(prog) + 1, NEW s, NEW k \in Nat, Len(H[n]) = k + 1, Good(s, k),
         Alike(s, H[n], k), H[n][k + 1].of # "func", H[n][k + 1].flow = "continues"
  PROVE  LiveAt(H, n)
<1>1. Good(H[n], k)
  BY GoodAlike
<1> QED
  BY <1>1, GoodMore DEF LiveAt

\* The statement after one without a block, and after the end of an if.
LEMMA LiveNext ==
  ASSUME ValidationInv, validated, NEW H, History(H, prog, scopes), NEW n \in DOMAIN prog, LiveAt(H, n),
         prog[n].op \in {"stmt", "pure", "endif"}
  PROVE  LiveAt(H, n + 1)
<1>1. Len(prog) \in Nat /\ n \in 1 .. Len(prog) /\ n \in 1 .. Len(prog) + 1 /\ n + 1 \in 1 .. Len(prog) + 1
  BY DEF ValidationInv, ValidationTypeOK
<1>2. Good(H[n], Len(H[n])) /\ Len(H[n]) \in Nat \ {0}
  BY <1>1, HistoryFacts DEF LiveAt
<1>3. H[n][Len(H[n])].of # "func" /\ H[n][Len(H[n])].flow = "continues"
  <2>1. Len(H[n]) \in 1 .. Len(H[n])
    BY <1>2
  <2> QED
    BY <1>2, <2>1 DEF Good
<1>4. CASE prog[n].op \in {"stmt", "pure"}
  <2>1. PICK k \in Nat : Len(H[n]) = k + 1
    <3>1. Len(H[n]) - 1 \in Nat /\ Len(H[n]) = (Len(H[n]) - 1) + 1
      BY <1>2
    <3> QED
      BY <3>1
  <2>2. WalkLeaf(H[n], prog[n], H[n + 1])
    BY <1>1, <1>4, HistoryFacts DEF LeafOps
  <2>3. /\ Len(H[n + 1]) = k + 1 /\ Alike(H[n], H[n + 1], k)
        /\ H[n + 1][k + 1].of # "func" /\ H[n + 1][k + 1].flow = "continues"
    <3>1. Len(H[n]) - 1 = k
      BY <2>1
    <3> QED
      BY <1>3, <1>4, <2>1, <2>2, <3>1 DEF WalkLeaf
  <2>4. Good(H[n], k)
    BY <1>2, <2>1, GoodLess
  <2> QED
    BY <1>1, <2>3, <2>4, LiveLike
<1>5. CASE prog[n].op = "endif"
  <2>1. WalkClose(H[n], prog[n], H[n + 1])
    BY <1>1, <1>5, HistoryFacts DEF CloseOps
  <2>2. PICK k \in Nat : Len(H[n + 1]) = k + 1 /\ Len(H[n]) = k + 2
    <3>1. Len(H[n + 1]) = Len(H[n]) - 1 /\ Len(H[n + 1]) # 0
      BY <2>1 DEF WalkClose
    <3>2. \A a \in Nat : a - 1 # 0 /\ a # 0 => a - 2 \in Nat /\ a - 1 = (a - 2) + 1 /\ a = (a - 2) + 2
      OBVIOUS
    <3>3. Len(H[n]) \in Nat /\ Len(H[n]) # 0 /\ Len(H[n]) - 1 # 0
      BY <1>2, <3>1
    <3> QED
      BY <3>1, <3>2, <3>3
  <2>3. H[n][k + 1].of # "func" /\ H[n][k + 1].flow = "continues"
    <3>1. k + 1 \in 1 .. Len(H[n])
      BY <2>2
    <3> QED
      BY <1>2, <3>1 DEF Good
  <2>4. /\ Alike(H[n], H[n + 1], k)
        /\ H[n + 1][k + 1].of # "func" /\ H[n + 1][k + 1].flow = "continues"
    <3>1. Len(H[n + 1]) - 1 = k
      BY <2>2
    <3>2. ResultOf(H[n][Len(H[n])]) = "continues"
      BY <1>3 DEF ResultOf
    <3>3. /\ Alike(H[n], H[n + 1], Len(H[n + 1]) - 1)
          /\ H[n + 1][Len(H[n + 1])].of = H[n][Len(H[n + 1])].of
          /\ H[n + 1][Len(H[n + 1])].flow
               = IF H[n][Len(H[n + 1])].flow = "returns" THEN "returns" ELSE ResultOf(H[n][Len(H[n])])
      BY <2>1 DEF WalkClose
    <3>4. Alike(H[n], H[n + 1], k)
      BY <3>1, <3>3
    <3>5. H[n + 1][k + 1].of # "func" /\ H[n + 1][k + 1].flow = "continues"
      BY <2>2, <2>3, <3>2, <3>3
    <3> QED
      BY <3>4, <3>5
  <2>5. Good(H[n], k)
    BY <1>2, <2>2, GoodLess
  <2> QED
    BY <1>1, <2>2, <2>4, <2>5, LiveLike
<1> QED
  BY <1>4, <1>5

\* The first statement of a block.
LEMMA LiveInto ==
  ASSUME ValidationInv, validated, NEW H, History(H, prog, scopes), NEW n \in DOMAIN prog,
         Good(H[n], Len(H[n])), prog[n].op \in {"if", "while", "for"}
  PROVE  LiveAt(H, n + 1)
<1>1. Len(prog) \in Nat /\ n \in 1 .. Len(prog) /\ n \in 1 .. Len(prog) + 1 /\ n + 1 \in 1 .. Len(prog) + 1
  BY DEF ValidationInv, ValidationTypeOK
<1>2. Len(H[n]) \in Nat
  BY <1>1, HistoryFacts
<1>3. WalkOpen(H[n], prog[n], H[n + 1])
  BY <1>1, HistoryFacts DEF OpenOps
<1>4. /\ Len(H[n + 1]) = Len(H[n]) + 1 /\ Alike(H[n], H[n + 1], Len(H[n]))
      /\ H[n + 1][Len(H[n]) + 1].of # "func" /\ H[n + 1][Len(H[n]) + 1].flow = "continues"
  BY <1>3 DEF WalkOpen
<1> QED
  BY <1>1, <1>2, <1>4, LiveLike

\* The statement after a compound one that does not return.
LEMMA LiveAfter ==
  ASSUME ValidationInv, validated, NEW H, History(H, prog, scopes), NEW q \in DOMAIN prog,
         NEW L, L = Len(H[q]), Good(H[q], L), NEW c, Spans(H, q, L, c),
         ResultOf(H[c][L + 1]) = "continues"
  PROVE  LiveAt(H, c + 1)
<1>1. /\ L \in Nat \ {0} /\ c \in q + 1 .. Len(prog) /\ Len(H[c + 1]) = L
      /\ Alike(H[q], H[c + 1], L - 1) /\ H[c + 1][L].of = H[q][L].of
      /\ H[c + 1][L].flow = IF H[q][L].flow = "returns" THEN "returns" ELSE "continues"
  BY DEF Spans
<1>2. c + 1 \in 1 .. Len(prog) + 1 /\ Len(prog) \in Nat
  BY <1>1 DEF ValidationInv, ValidationTypeOK
<1>3. PICK k \in Nat : L = k + 1 /\ L - 1 = k
  <2>1. L - 1 \in Nat /\ L = (L - 1) + 1
    BY <1>1
  <2> QED
    BY <2>1
<1>4. H[q][L].of # "func" /\ H[q][L].flow = "continues"
  <2>1. L \in 1 .. L
    BY <1>1
  <2> QED
    BY <2>1 DEF Good
<1>5. Good(H[q], k)
  BY <1>1, <1>3, GoodLess
<1>6. H[c + 1][k + 1].of # "func" /\ H[c + 1][k + 1].flow = "continues" /\ Len(H[c + 1]) = k + 1
  BY <1>1, <1>3, <1>4
<1>7. Alike(H[q], H[c + 1], k)
  BY <1>1, <1>3
<1> QED
  BY <1>2, <1>5, <1>6, <1>7, LiveLike

\* The end of a loop, and the statement after a loop or a nested function.
LEMMA LiveLoop ==
  ASSUME ValidationInv, validated, NEW H, History(H, prog, scopes), NEW q \in DOMAIN prog,
         prog[q].op \in {"while", "for", "func"}, Good(H[q], Len(H[q])), NEW c, c = Close(prog, q)
  PROVE  LiveAt(H, c + 1) /\ (prog[q].op \in LoopOps => LiveAt(H, c))
<1>a. PICK L : L = Len(H[q])
  OBVIOUS
<1>1. Spans(H, q, L, c)
  BY <1>a, CompoundHistory DEF OpenOps
<1>2. /\ L \in Nat \ {0} /\ c \in q + 1 .. Len(prog) /\ Len(H[c]) = L + 1 /\ prog[c].op \in CloseOps
      /\ H[c][L + 1].of \in ClosedBy(prog[c].op) /\ H[q + 1][L + 1].of = prog[q].op
      /\ \A j \in q + 1 .. c : Alike(H[q], H[j], L) /\ Kept(H[q + 1], H[j], L + 1)
  BY <1>1 DEF Spans
<1>3. c \in q + 1 .. c /\ c \in 1 .. Len(prog) + 1 /\ c \in DOMAIN prog
  <2>1. Len(prog) \in Nat /\ DOMAIN prog = 1 .. Len(prog)
    BY DEF ValidationInv, ValidationTypeOK
  <2> QED
    BY <1>2, <2>1
<1>4. H[c][L + 1].of = prog[q].op
  BY <1>2, <1>3 DEF Kept
<1>5. LiveAt(H, c + 1)
  <2>1. ResultOf(H[c][L + 1]) = "continues"
    BY <1>4 DEF ResultOf
  <2> QED
    BY <1>a, <1>1, <2>1, LiveAfter
<1>6. ASSUME prog[q].op \in LoopOps PROVE LiveAt(H, c)
  <2>1. prog[c].op \in {"endwhile", "endfor"}
    BY <1>2, <1>4, <1>6 DEF ClosedBy, CloseOps, LoopOps
  <2>2. Good(H[c], L)
    BY <1>a, <1>2, <1>3, GoodAlike
  <2>3. Len(H[c]) - 1 = L
    BY <1>2
  <2> QED
    BY <1>3, <2>1, <2>2, <2>3 DEF LiveAt
<1> QED
  BY <1>5, <1>6

\* The statements around an item that is live are live.
LEMMA LiveAround ==
  ASSUME ValidationInv, validated, NEW H, History(H, prog, scopes), NEW n \in DOMAIN prog, LiveAt(H, n),
         NEW q \in DOMAIN prog, NEW L, Spans(H, q, L, Close(prog, q)), L = Len(H[q]), n \in q + 1 .. Close(prog, q)
  PROVE  Good(H[q], L) /\ L \in Nat \ {0} /\ Alike(H[q], H[n], L) /\ L + 1 <= Len(H[n])
<1>1. L \in Nat \ {0} /\ Alike(H[q], H[n], L) /\ Len(H[n]) >= L + 1
  BY DEF Spans
<1>2. Len(H[n]) \in Nat \ {0} /\ Len(H[n]) - 1 \in Nat
  <2>1. n \in 1 .. Len(prog) + 1
    BY DEF LiveAt
  <2>2. Len(H[n]) \in Nat \ {0}
    BY <2>1, HistoryFacts
  <2> QED
    BY <2>2
<1>3. Good(H[n], Len(H[n]) - 1)
  <2>1. CASE Good(H[n], Len(H[n]))
    BY <1>2, <2>1, GoodLess
  <2> QED
    BY <2>1 DEF LiveAt
<1>4. L <= Len(H[n]) - 1 /\ L + 1 <= Len(H[n])
  BY <1>1, <1>2
<1>5. Good(H[n], L)
  BY <1>1, <1>2, <1>3, <1>4, GoodLess
<1> QED
  BY <1>1, <1>4, <1>5, GoodAlike

\* break and continue.
LEMMA LiveJump ==
  ASSUME ValidationInv, validated, NEW H, History(H, prog, scopes), NEW n \in DOMAIN prog, LiveAt(H, n),
         Strays(errors) = {}, prog[n].op \in {"break", "continue"}
  PROVE  LiveAt(H, Close(prog, LoopOf(prog, n)) + 1) /\ LiveAt(H, Close(prog, LoopOf(prog, n)))
<1>1. Len(prog) \in Nat /\ DOMAIN prog = 1 .. Len(prog) /\ n \in 1 .. Len(prog)
  BY DEF ValidationInv, ValidationTypeOK
<1> DEFINE S == {m \in 1 .. n - 1 : prog[m].op \in LoopOps /\ Close(prog, m) > n}
<1>2. n \notin StrayJumps(prog)
  BY DEF ValidationInv
<1>3. PICK m \in 1 .. n - 1 : prog[m].op \in LoopOps /\ Inside(prog, m, n)
  BY <1>2 DEF StrayJumps, Jumps
<1>4. m \in S
  <2>1. m \in DOMAIN prog /\ n \in m + 1 .. Len(prog) + 1 /\ prog[m].op \in OpenOps
    BY <1>1, <1>3 DEF OpenOps, LoopOps
  <2>2. /\ ~(Close(prog, m) < n) /\ Close(prog, m) \in m + 1 .. Len(prog)
    BY <1>3, <2>1, ClosedAtEnd
  <2>3. Close(prog, m) # n
    <3>1. prog[Close(prog, m)].op \in CloseOps
      BY <2>1, CompoundHistory DEF Spans
    <3> QED
      BY <3>1 DEF CloseOps
  <2> QED
    BY <1>1, <1>3, <2>2, <2>3
<1>5. PICK q \in S : LoopOf(prog, n) = q
  <2>1. LoopOf(prog, n) = Max(S)
    BY DEF LoopOf
  <2>2. S \in SUBSET (0 .. n) /\ n \in Nat /\ S # {}
    BY <1>1, <1>4
  <2> HIDE DEF S
  <2> QED
    BY <2>1, <2>2, GreatestExists
<1>6. PICK c : c = Close(prog, q)
  OBVIOUS
<1>7. q \in 1 .. n - 1 /\ prog[q].op \in LoopOps /\ c > n
  BY <1>5, <1>6
<1>8. q \in DOMAIN prog /\ prog[q].op \in OpenOps /\ prog[q].op \in {"while", "for", "func"}
  BY <1>1, <1>7 DEF LoopOps, OpenOps
<1>9. PICK L : L = Len(H[q]) /\ Spans(H, q, L, c)
  BY <1>6, <1>8, CompoundHistory
<1>10. n \in q + 1 .. c
  <2>1. c \in q + 1 .. Len(prog)
    BY <1>9 DEF Spans
  <2> QED
    BY <1>1, <1>7, <2>1
<1>11. Good(H[q], L)
  BY <1>6, <1>8, <1>9, <1>10, LiveAround
<1> QED
  BY <1>5, <1>6, <1>7, <1>8, <1>9, <1>11, LiveLoop

\* The end of a loop leads back to it.
LEMMA LiveBack ==
  ASSUME ValidationInv, validated, NEW H, History(H, prog, scopes), NEW n \in DOMAIN prog, LiveAt(H, n),
         prog[n].op \in {"endwhile", "endfor"}, NEW q, q = Open(prog, n)
  PROVE  /\ q \in DOMAIN prog /\ Good(H[q], Len(H[q])) /\ LiveAt(H, q)
         /\ prog[n].op = "endfor" => prog[q].op = "for"
<1>1. Len(prog) \in Nat /\ DOMAIN prog = 1 .. Len(prog) /\ n \in 1 .. Len(prog) + 1 /\ prog[n].op \in CloseOps
  BY DEF ValidationInv, ValidationTypeOK, CloseOps
<1>2. WalkClose(H[n], prog[n], H[n + 1]) /\ Len(H[n]) \in Nat /\ Len(H[n + 1]) \in Nat \ {0}
  BY <1>1, HistoryFacts
<1>3. PICK L : L = Len(H[n + 1])
  OBVIOUS
<1>4. L \in Nat \ {0} /\ L + 1 = Len(H[n])
  <2>1. Len(H[n + 1]) = Len(H[n]) - 1
    BY <1>2 DEF WalkClose
  <2> QED
    BY <1>2, <1>3, <2>1
<1>5. /\ q \in DOMAIN prog /\ prog[q].op \in OpenOps /\ Len(H[q]) = L
      /\ Spans(H, q, L, Close(prog, q)) /\ n \in q + 1 .. Close(prog, q)
      /\ Close(prog, q) = n
  BY <1>1, <1>4, OpenFacts
<1>6. Good(H[q], L)
  BY <1>5, LiveAround
<1>7. q \in 1 .. Len(prog) + 1
  BY <1>1, <1>5
<1>8. prog[n].op = "endfor" => prog[q].op = "for"
  <2>1. /\ Kept(H[q + 1], H[n], L + 1) /\ H[n][L + 1].of \in ClosedBy(prog[n].op)
        /\ H[q + 1][L + 1].of = IF prog[q].op = "if" THEN "then" ELSE prog[q].op
    BY <1>5 DEF Spans
  <2>2. prog[n].op = "endfor" => H[n][L + 1].of = "for"
    BY <2>1 DEF ClosedBy
  <2>3. prog[n].op = "endfor" => H[q + 1][L + 1].of = "for"
    BY <2>1, <2>2 DEF Kept
  <2> QED
    BY <2>1, <2>3
<1> QED
  BY <1>5, <1>6, <1>7, <1>8 DEF LiveAt

\* The end of a then branch that has an else branch.
LEMMA LiveElse ==
  ASSUME ValidationInv, validated, NEW H, History(H, prog, scopes), NEW n \in DOMAIN prog, LiveAt(H, n),
         prog[n].op = "else"
  PROVE  LiveAt(H, Close(prog, Open(prog, n)) + 1)
<1>1. Len(prog) \in Nat /\ DOMAIN prog = 1 .. Len(prog) /\ n \in 1 .. Len(prog) /\ n \in 1 .. Len(prog) + 1
  BY DEF ValidationInv, ValidationTypeOK
<1>2. WalkElse(H[n], prog[n], H[n + 1]) /\ Len(H[n]) \in Nat \ {0} /\ H[n] \in Seq(Block)
  BY <1>1, HistoryFacts
<1>3. Good(H[n], Len(H[n]))
  BY DEF LiveAt
<1>4. /\ H[n][Len(H[n])].of = "then" /\ H[n][Len(H[n])].flow = "continues"
      /\ H[n + 1][Len(H[n])].of = "else" /\ H[n + 1][Len(H[n])].then_flow = "continues"
      /\ Len(H[n + 1]) = Len(H[n])
  <2>1. Len(H[n]) \in 1 .. Len(H[n])
    BY <1>2
  <2>2. H[n][Len(H[n])].flow = "continues"
    BY <1>3, <2>1 DEF Good
  <2> QED
    BY <1>2, <2>2 DEF WalkElse
<1>5. Len(H[n]) # 1
  <2> SUFFICES ASSUME Len(H[n]) = 1 PROVE FALSE
    OBVIOUS
  <2>1. 1 \in 1 .. Len(prog) + 1 /\ n \in 1 .. Len(prog) + 1
    BY <1>1
  <2>2. \A j \in 1 .. n : 1 <= Len(H[j])
    <3>1. \A j \in 1 .. n : j \in 1 .. Len(prog) + 1
      BY <1>1
    <3>2. \A j \in 1 .. n : Len(H[j]) \in Nat \ {0}
      BY <3>1, HistoryFacts
    <3> QED
      BY <3>2
  <2>3. Kept(H[1], H[n], 1)
    <3>1. prog \in Seq(Item) /\ 1 \in Nat \ {0}
      BY DEF ValidationInv, ValidationTypeOK
    <3> QED
      BY <1>1, <2>1, <2>2, <3>1, HistoryKeeps
  <2>4. H[1][1].of = "body"
    BY DEF History
  <2> QED
    BY <1>4, <2>3, <2>4 DEF Kept
<1>6. PICK L \in Nat \ {0} : L + 1 = Len(H[n])
  <2>1. Len(H[n]) - 1 \in Nat \ {0} /\ (Len(H[n]) - 1) + 1 = Len(H[n])
    BY <1>2, <1>5
  <2> QED
    BY <2>1
<1>7. PICK q, c : q = Open(prog, n) /\ c = Close(prog, q)
  OBVIOUS
<1>8. /\ q \in DOMAIN prog /\ Len(H[q]) = L /\ Spans(H, q, L, c) /\ n \in q + 1 .. c
  BY <1>6, <1>7, OpenFacts
<1>9. Good(H[q], L)
  BY <1>7, <1>8, LiveAround
<1>10. c \in q + 1 .. Len(prog) /\ prog[c].op \in CloseOps /\ \A j \in q + 1 .. c : Len(H[j]) >= L + 1
  BY <1>8 DEF Spans
<1>11. n # c /\ n + 1 \in q + 1 .. c /\ c \in n + 1 .. Len(prog) + 1 /\ n + 1 \in 1 .. Len(prog) + 1
  <2>1. n # c
    BY <1>10 DEF CloseOps
  <2> QED
    BY <1>1, <1>8, <1>10, <2>1
<1>12. Kept(H[n + 1], H[c], L + 1)
  <2>1. \A j \in n + 1 .. c : j \in q + 1 .. c /\ j \in 1 .. Len(prog) + 1
    BY <1>1, <1>8, <1>10, <1>11
  <2>2. \A j \in n + 1 .. c : L + 1 <= Len(H[j])
    <3>1. \A j \in n + 1 .. c : Len(H[j]) >= L + 1 /\ Len(H[j]) \in Nat
      BY <1>10, <2>1, HistoryFacts
    <3> QED
      BY <3>1
  <2>3. prog \in Seq(Item) /\ L + 1 \in Nat \ {0}
    BY DEF ValidationInv, ValidationTypeOK
  <2> QED
    BY <1>11, <2>2, <2>3, HistoryKeeps
<1>13. ResultOf(H[c][L + 1]) = "continues"
  <2>1. H[n + 1][L + 1].of = "else" /\ H[n + 1][L + 1].then_flow = "continues"
    BY <1>4, <1>6
  <2>2. H[c][L + 1].then_flow = "continues"
    BY <1>12, <2>1 DEF Kept
  <2> QED
    BY <2>2 DEF ResultOf
<1>14. LiveAt(H, c + 1)
  BY <1>8, <1>9, <1>13, LiveAfter
<1> QED
  BY <1>7, <1>14

\* A then branch becomes an else branch at the else of its if only.
LEMMA WalkStays ==
  ASSUME NEW s, NEW e, NEW t, Walk(s, e, t), NEW k \in Nat \ {0}, Len(s) \in Nat, Len(t) \in Nat,
         k <= Len(s), k <= Len(t), ~(e.op = "else" /\ Len(s) = k)
  PROVE  t[k].of = s[k].of
<1>1. CASE WalkLeaf(s, e, t)
  <2>1. k \in 1 .. Len(s) - 1 \/ k = Len(s)
    OBVIOUS
  <2> QED
    BY <1>1, <2>1 DEF WalkLeaf, Alike
<1>2. CASE WalkElse(s, e, t)
  <2>1. k \in 1 .. Len(s) - 1
    BY <1>2 DEF WalkElse
  <2> QED
    BY <1>2, <2>1 DEF WalkElse, Alike
<1>3. CASE WalkOpen(s, e, t)
  <2>1. k \in 1 .. Len(s)
    OBVIOUS
  <2> QED
    BY <1>3, <2>1 DEF WalkOpen, Alike
<1>4. CASE WalkClose(s, e, t)
  <2>1. k \in 1 .. Len(t) - 1 \/ k = Len(t)
    OBVIOUS
  <2> QED
    BY <1>4, <2>1 DEF WalkClose, Alike
<1> QED
  BY <1>1, <1>2, <1>3, <1>4 DEF Walk

\* What is executed when the condition of an if is false.
LEMMA LiveSkip ==
  ASSUME ValidationInv, validated, NEW H, History(H, prog, scopes), NEW n \in DOMAIN prog,
         Good(H[n], Len(H[n])), prog[n].op = "if"
  PROVE  LiveAt(H, ElseOrEnd(prog, n) + 1)
<1>1. Len(prog) \in Nat /\ DOMAIN prog = 1 .. Len(prog) /\ n \in 1 .. Len(prog) /\ n \in 1 .. Len(prog) + 1
  BY DEF ValidationInv, ValidationTypeOK
<1>2. PICK L, c, x : L = Len(H[n]) /\ c = Close(prog, n) /\ x = ElseOrEnd(prog, n)
  OBVIOUS
<1>3. Spans(H, n, L, c)
  BY <1>2, CompoundHistory DEF OpenOps
<1>4. /\ L \in Nat \ {0} /\ c \in n + 1 .. Len(prog) /\ prog[c].op \in CloseOps
      /\ Len(H[c]) = L + 1 /\ H[n + 1][L + 1].of = "then"
      /\ H[c][L + 1].of \in ClosedBy(prog[c].op)
      /\ \A j \in n + 1 .. c : Alike(H[n], H[j], L) /\ Kept(H[n + 1], H[j], L + 1) /\ Len(H[j]) >= L + 1
  BY <1>3 DEF Spans
<1>5. \A j \in n + 1 .. c : /\ j \in DOMAIN prog /\ j \in 1 .. Len(prog) + 1 /\ Len(H[j]) \in Nat
                            /\ Depth(prog, j) = Len(H[j]) - 1
  <2>1. \A j \in n + 1 .. c : j \in DOMAIN prog /\ j \in 1 .. Len(prog) + 1
    BY <1>1, <1>4
  <2> QED
    BY <2>1, HistoryFacts
<1>6. Depth(prog, n) = L - 1
  BY <1>1, <1>2, HistoryFacts
<1> DEFINE T == {m \in n + 1 .. c : prog[m].op \in {"else", "endif"} /\ Depth(prog, m) = Depth(prog, n) + 1}
<1>7. c \in T
  <2>1. c \in n + 1 .. c
    BY <1>1, <1>4
  <2>2. Depth(prog, c) = Len(H[c]) - 1
    BY <1>5, <2>1
  <2>3. Depth(prog, c) = Depth(prog, n) + 1
    BY <1>4, <1>6, <2>2
  <2>4. H[c][L + 1].of \in {"then", "else"}
    BY <1>4, <2>1 DEF Kept
  <2>5. prog[c].op = "endif"
    BY <1>4, <2>4 DEF ClosedBy, CloseOps
  <2> QED
    BY <2>1, <2>3, <2>5
<1>8. x \in T /\ \A y \in T : x <= y
  <2>1. x = Min(T)
    BY <1>2 DEF ElseOrEnd
  <2>2. T \in SUBSET Nat
    BY <1>1
  <2> HIDE DEF T
  <2> QED
    BY <1>7, <2>1, <2>2, LeastExists
<1>9. /\ x \in n + 1 .. c /\ prog[x].op \in {"else", "endif"} /\ x \in DOMAIN prog
      /\ x \in 1 .. Len(prog) + 1 /\ x + 1 \in 1 .. Len(prog) + 1
  <2>1. x \in n + 1 .. c /\ prog[x].op \in {"else", "endif"}
    BY <1>8
  <2> QED
    BY <1>1, <1>5, <2>1
<1>10. Len(H[x]) = L + 1
  <2>1. Depth(prog, x) = Depth(prog, n) + 1
    BY <1>8
  <2>2. Depth(prog, x) = Len(H[x]) - 1 /\ Len(H[x]) \in Nat
    BY <1>5, <1>9
  <2> QED
    BY <1>4, <1>6, <2>1, <2>2
<1>11. H[x][L + 1].of = "then"
  <2> DEFINE B == {j \in n + 1 .. x : H[j][L + 1].of # "then"}
  <2> SUFFICES ASSUME B # {} PROVE FALSE
    <3>1. x \in n + 1 .. x
      BY <1>1, <1>4, <1>9
    <3> QED
      BY <3>1
  <2>1. PICK j \in B : \A i \in B : j <= i
    <3>1. B \in SUBSET Nat
      BY <1>1
    <3> HIDE DEF B
    <3> QED
      BY <3>1, LeastExists
  <2>2. j \in n + 1 .. x /\ j # n + 1 /\ H[j][L + 1].of # "then"
    BY <1>4, <2>1
  <2>3. PICK i : i = j - 1
    OBVIOUS
  <2>4. i + 1 = j /\ i \in n + 1 .. x /\ i \in n + 1 .. c /\ j \in n + 1 .. c /\ ~(j <= i) /\ ~(x <= i)
    BY <1>1, <1>4, <1>9, <2>2, <2>3
  <2>5. H[i][L + 1].of = "then"
    BY <2>1, <2>4
  <2>6. i \notin T
    BY <1>8, <2>4
  <2>7. ~(prog[i].op = "else" /\ Len(H[i]) = L + 1)
    <3> SUFFICES ASSUME prog[i].op = "else", Len(H[i]) = L + 1 PROVE FALSE
      OBVIOUS
    <3>1. Depth(prog, i) = Len(H[i]) - 1
      BY <1>5, <2>4
    <3>2. Depth(prog, i) = Depth(prog, n) + 1
      BY <1>4, <1>6, <3>1
    <3> QED
      BY <2>4, <2>6, <3>2
  <2>8. Walk(H[i], prog[i], H[j])
    <3>1. i \in DOMAIN prog /\ i \in 1 .. Len(prog) + 1
      BY <1>5, <2>4
    <3>2. Walk(H[i], prog[i], H[i + 1])
      BY <3>1, HistoryFacts
    <3> QED
      BY <2>4, <3>2
  <2>9. /\ Len(H[i]) \in Nat /\ Len(H[j]) \in Nat /\ Len(H[i]) >= L + 1 /\ Len(H[j]) >= L + 1
        /\ L + 1 \in Nat \ {0}
    <3>1. Len(H[i]) \in Nat /\ Len(H[j]) \in Nat
      BY <1>5, <2>4
    <3>2. Len(H[i]) >= L + 1 /\ Len(H[j]) >= L + 1
      BY <1>4, <2>4
    <3>3. L + 1 \in Nat \ {0}
      BY <1>4
    <3> QED
      BY <3>1, <3>2, <3>3
  <2>10. H[j][L + 1].of = H[i][L + 1].of
    <3>1. L + 1 <= Len(H[i]) /\ L + 1 <= Len(H[j])
      BY <2>9
    <3> QED
      BY <2>7, <2>8, <2>9, <3>1, WalkStays
  <2> QED
    BY <2>2, <2>5, <2>10
<1>12. Good(H[x], L) /\ Alike(H[n], H[x], L)
  <2>1. Alike(H[n], H[x], L)
    BY <1>4, <1>9
  <2>2. Good(H[n], L) /\ L \in Nat /\ L <= L
    BY <1>2, <1>4
  <2> QED
    BY <2>1, <2>2, GoodAlike
<1>13. CASE prog[x].op = "else"
  <2>1. WalkElse(H[x], prog[x], H[x + 1])
    BY <1>9, <1>13, HistoryFacts
  <2>2. /\ Len(H[x + 1]) = L + 1 /\ Alike(H[x], H[x + 1], L)
        /\ H[x + 1][L + 1].of # "func" /\ H[x + 1][L + 1].flow = "continues"
    <3>1. Len(H[x]) - 1 = L
      BY <1>4, <1>10
    <3> QED
      BY <1>10, <2>1, <3>1 DEF WalkElse
  <2> QED
    BY <1>2, <1>4, <1>9, <1>12, <2>2, LiveLike
<1>14. CASE prog[x].op = "endif"
  <2>1. WalkClose(H[x], prog[x], H[x + 1])
    BY <1>9, <1>14, HistoryFacts DEF CloseOps
  <2>2. Len(H[x + 1]) = L
    BY <1>4, <1>10, <2>1 DEF WalkClose
  <2>3. PICK k \in Nat : L = k + 1 /\ L - 1 = k
    <3>1. L - 1 \in Nat /\ L = (L - 1) + 1
      BY <1>4
    <3> QED
      BY <3>1
  <2>4. H[x][L].of # "func" /\ H[x][L].flow = "continues"
    <3>1. L \in 1 .. L
      BY <1>4
    <3> QED
      BY <1>12, <3>1 DEF Good
  <2>5. ResultOf(H[x][Len(H[x])]) = "continues"
    BY <1>10, <1>11 DEF ResultOf
  <2>6. /\ Alike(H[x], H[x + 1], Len(H[x + 1]) - 1)
        /\ H[x + 1][Len(H[x + 1])].of = H[x][Len(H[x + 1])].of
        /\ H[x + 1][Len(H[x + 1])].flow
             = IF H[x][Len(H[x + 1])].flow = "returns" THEN "returns" ELSE ResultOf(H[x][Len(H[x])])
    BY <2>1 DEF WalkClose
  <2>7. Alike(H[x], H[x + 1], k) /\ H[x + 1][k + 1].of # "func" /\ H[x + 1][k + 1].flow = "continues"
    BY <2>2, <2>3, <2>4, <2>5, <2>6
  <2>8. Good(H[x], k) /\ Len(H[x + 1]) = k + 1
    BY <1>4, <1>12, <2>2, <2>3, GoodLess
  <2> QED
    BY <1>2, <1>9, <2>7, <2>8, LiveLike
<1> QED
  BY <1>2, <1>9, <1>13, <1>14

\* The control points that the live items have.
Live(H) ==
  {Structure!At(n) : n \in {m \in 1 .. Len(prog) + 1 : LiveAt(H, m)}}
    \cup UNION {{Structure!CondOf(n), Structure!UpdateOf(n)} :
                  n \in {m \in DOMAIN prog : prog[m].op = "for" /\ Good(H[m], Len(H[m]))}}

LEMMA LiveMembers ==
  ASSUME NEW H
  PROVE  /\ \A n : LiveAt(H, n) <=> Structure!At(n) \in Live(H)
         /\ \A n \in DOMAIN prog : prog[n].op = "for" /\ Good(H[n], Len(H[n])) =>
              Structure!CondOf(n) \in Live(H) /\ Structure!UpdateOf(n) \in Live(H)
         /\ \A pt \in Live(H) :
              \/ \E n : LiveAt(H, n) /\ pt = Structure!At(n)
              \/ \E n \in DOMAIN prog : /\ prog[n].op = "for" /\ Good(H[n], Len(H[n]))
                                        /\ pt = Structure!CondOf(n) \/ pt = Structure!UpdateOf(n)
<1>1. \A m, n : /\ Structure!At(m) = Structure!At(n) => m = n
                /\ Structure!At(m) # Structure!CondOf(n) /\ Structure!At(m) # Structure!UpdateOf(n)
  BY DEF Structure!At, Structure!CondOf, Structure!UpdateOf
<1>2. \A n : LiveAt(H, n) => n \in 1 .. Len(prog) + 1
  BY DEF LiveAt
<1>3. \A pt \in Live(H) :
              \/ \E n : LiveAt(H, n) /\ pt = Structure!At(n)
              \/ \E n \in DOMAIN prog : /\ prog[n].op = "for" /\ Good(H[n], Len(H[n]))
                                        /\ pt = Structure!CondOf(n) \/ pt = Structure!UpdateOf(n)
  BY DEF Live
<1>4. ASSUME NEW n, LiveAt(H, n) PROVE Structure!At(n) \in Live(H)
  BY <1>2, <1>4 DEF Live
<1>5. ASSUME NEW n, Structure!At(n) \in Live(H) PROVE LiveAt(H, n)
  BY <1>1, <1>3, <1>5
<1>6. ASSUME NEW n \in DOMAIN prog, prog[n].op = "for", Good(H[n], Len(H[n]))
      PROVE  Structure!CondOf(n) \in Live(H) /\ Structure!UpdateOf(n) \in Live(H)
  BY <1>6 DEF Live
<1> QED
  BY <1>3, <1>4, <1>5, <1>6

\* An execution goes from live points to live points.
LEMMA LiveOnward ==
  ASSUME ValidationInv, validated, NEW H, History(H, prog, scopes), Strays(errors) = {},
         NEW pt \in Live(H), NEW r \in Structure!Onward(prog, pt)
  PROVE  r \in Live(H)
<1>1. prog \in Seq(Item) /\ Len(prog) \in Nat /\ DOMAIN prog = 1 .. Len(prog)
  BY DEF ValidationInv, ValidationTypeOK
<1>2. ASSUME NEW n, LiveAt(H, n), pt = Structure!At(n) PROVE r \in Live(H)
  <2>1. n \in 1 .. Len(prog) + 1
    BY <1>2 DEF LiveAt
  <2>2. n # Len(prog) + 1
    BY <1>2, OnwardEnd
  <2>3. n \in DOMAIN prog /\ n \in 1 .. Len(prog)
    BY <1>1, <2>1, <2>2
  <2>4. r \in Structure!Onward(prog, Structure!At(n))
    BY <1>2
  <2>5. prog[n].op \notin {"endwhile", "endfor"} => Good(H[n], Len(H[n]))
    BY <1>2 DEF LiveAt
  <2>6. CASE prog[n].op \in {"stmt", "pure", "endif"}
    <3>1. r = Structure!At(n + 1)
      BY <1>1, <2>3, <2>4, <2>6, OnwardItem
    <3>2. LiveAt(H, n + 1)
      BY <1>2, <2>3, <2>6, LiveNext
    <3> QED
      BY <3>1, <3>2, LiveMembers
  <2>7. CASE prog[n].op \in {"func", "while"}
    <3>1. r \in {Structure!At(n + 1), Structure!At(Close(prog, n) + 1)}
          /\ (prog[n].op = "func" => r = Structure!At(Close(prog, n) + 1))
      BY <1>1, <2>3, <2>4, <2>7, OnwardItem
    <3>2. LiveAt(H, Close(prog, n) + 1)
      BY <2>3, <2>5, <2>7, LiveLoop
    <3>3. prog[n].op = "while" => LiveAt(H, n + 1)
      BY <2>3, <2>5, <2>7, LiveInto
    <3> QED
      BY <2>7, <3>1, <3>2, <3>3, LiveMembers
  <2>8. CASE prog[n].op = "if"
    <3>1. r \in {Structure!At(n + 1), Structure!At(ElseOrEnd(prog, n) + 1)}
      BY <1>1, <2>3, <2>4, <2>8, OnwardItem
    <3>2. LiveAt(H, n + 1)
      BY <2>3, <2>5, <2>8, LiveInto
    <3>3. LiveAt(H, ElseOrEnd(prog, n) + 1)
      BY <2>3, <2>5, <2>8, LiveSkip
    <3> QED
      BY <3>1, <3>2, <3>3, LiveMembers
  <2>9. CASE prog[n].op = "for"
    <3>1. r = Structure!CondOf(n)
      BY <1>1, <2>3, <2>4, <2>9, OnwardItem
    <3> QED
      BY <2>3, <2>5, <2>9, <3>1, LiveMembers
  <2>10. CASE prog[n].op \in {"break", "continue"}
    <3>1. r \in {Structure!At(Close(prog, LoopOf(prog, n)) + 1), Structure!At(Close(prog, LoopOf(prog, n)))}
      BY <1>1, <2>3, <2>4, <2>10, OnwardItem
    <3>2. LiveAt(H, Close(prog, LoopOf(prog, n)) + 1) /\ LiveAt(H, Close(prog, LoopOf(prog, n)))
      BY <1>2, <2>3, <2>10, LiveJump
    <3> QED
      BY <3>1, <3>2, LiveMembers
  <2>11. CASE prog[n].op = "else"
    <3>1. r = Structure!At(Close(prog, Open(prog, n)) + 1)
      BY <1>1, <2>3, <2>4, <2>11, OnwardItem
    <3>2. LiveAt(H, Close(prog, Open(prog, n)) + 1)
      BY <1>2, <2>3, <2>11, LiveElse
    <3> QED
      BY <3>1, <3>2, LiveMembers
  <2>12. CASE prog[n].op \in {"endwhile", "endfor"}
    <3>1. PICK q : q = Open(prog, n)
      OBVIOUS
    <3>2. /\ prog[n].op = "endwhile" => r = Structure!At(q)
          /\ prog[n].op = "endfor" => r = Structure!UpdateOf(q)
      BY <1>1, <2>3, <2>4, <3>1, OnwardItem
    <3>3. /\ q \in DOMAIN prog /\ Good(H[q], Len(H[q])) /\ LiveAt(H, q)
          /\ prog[n].op = "endfor" => prog[q].op = "for"
      BY <1>2, <2>3, <2>12, <3>1, LiveBack
    <3> QED
      BY <2>12, <3>2, <3>3, LiveMembers
  <2>13. prog[n].op # "endfunc"
    <3> SUFFICES ASSUME prog[n].op = "endfunc" PROVE FALSE
      OBVIOUS
    <3>1. WalkClose(H[n], prog[n], H[n + 1]) /\ Len(H[n]) \in Nat \ {0}
      BY <2>1, <2>3, HistoryFacts DEF CloseOps
    <3>2. H[n][Len(H[n])].of = "func"
      BY <3>1 DEF WalkClose, ClosedBy
    <3>3. Len(H[n]) \in 1 .. Len(H[n])
      BY <3>1
    <3> QED
      BY <2>5, <3>2, <3>3 DEF Good
  <2>14. prog[n].op # "ret"
    BY <1>1, <2>3, <2>4, OnwardItem
  <2>15. prog[n].op \in LeafOps \cup OpenOps \cup CloseOps \cup {"else"}
    BY <1>1, <2>3, OpsOfItems
  <2> QED
    BY <2>6, <2>7, <2>8, <2>9, <2>10, <2>11, <2>12, <2>13, <2>14, <2>15 DEF LeafOps, OpenOps, CloseOps
<1>3. ASSUME NEW n \in DOMAIN prog, prog[n].op = "for", Good(H[n], Len(H[n])),
             pt = Structure!CondOf(n) \/ pt = Structure!UpdateOf(n)
      PROVE  r \in Live(H)
  <2>1. CASE pt = Structure!CondOf(n)
    <3>1. r \in {Structure!At(n + 1), Structure!At(Close(prog, n) + 1)}
      BY <1>1, <1>3, <2>1, OnwardClause
    <3>2. LiveAt(H, n + 1)
      BY <1>3, LiveInto
    <3>3. LiveAt(H, Close(prog, n) + 1)
      BY <1>3, LiveLoop
    <3> QED
      BY <3>1, <3>2, <3>3, LiveMembers
  <2>2. CASE pt = Structure!UpdateOf(n)
    <3>1. r = Structure!CondOf(n)
      BY <1>1, <1>3, <2>2, OnwardClause
    <3> QED
      BY <1>3, <3>1, LiveMembers
  <2> QED
    BY <1>3, <2>1, <2>2
<1> QED
  BY <1>2, <1>3, LiveMembers

\* No execution passes a statement that follows a return in its block.
LEMMA FollowingNotPassed ==
  ASSUME ValidationInv, validated, NEW H, History(H, prog, scopes), Strays(errors) = {},
         NEW n \in Following(H, prog)
  PROVE  Structure!At(n) \notin Structure!Passed(prog)
<1>1. Len(prog) \in Nat /\ 1 \in 1 .. Len(prog) + 1
  BY DEF ValidationInv, ValidationTypeOK
<1>2. LiveAt(H, 1)
  <2>1. Len(H[1]) \in Nat \ {0} /\ Depth(prog, 1) = Len(H[1]) - 1
    BY <1>1, HistoryFacts
  <2>2. Depth(prog, 1) = 0
    <3>1. 1 \in Nat \ {0}
      OBVIOUS
    <3> QED
      BY <3>1, DepthNext
  <2>3. Len(H[1]) = 1
    <3>1. \A a \in Nat : a - 1 = 0 => a = 1
      OBVIOUS
    <3> QED
      BY <2>1, <2>2, <3>1
  <2>4. H[1][1].of = "body" /\ H[1][1].flow = "continues"
    BY DEF History
  <2>5. Good(H[1], Len(H[1]))
    <3>1. \A i \in 1 .. 1 : i = 1
      OBVIOUS
    <3> QED
      BY <2>3, <2>4, <3>1 DEF Good
  <2> QED
    BY <1>1, <2>5 DEF LiveAt
<1>3. Structure!At(1) \in Live(H)
  BY <1>2, LiveMembers
<1>4. \A pt \in Live(H) : Structure!Onward(prog, pt) \subseteq Live(H)
  BY LiveOnward
<1>5. Structure!Points(prog) \in Nat
  BY <1>1 DEF Structure!Points
<1>6. Structure!Passed(prog) \subseteq Live(H)
  BY <1>3, <1>4, <1>5, PassedClosed
<1>7. ~LiveAt(H, n)
  <2>1. n \in 1 .. Len(prog) /\ prog[n].op \notin CloseOps /\ H[n][Len(H[n])].flow = "returns"
    BY DEF Following
  <2>2. n \in 1 .. Len(prog) + 1
    BY <1>1, <2>1
  <2>3. Len(H[n]) \in 1 .. Len(H[n])
    <3>1. Len(H[n]) \in Nat \ {0}
      BY <2>2, HistoryFacts
    <3> QED
      BY <3>1
  <2>4. ~Good(H[n], Len(H[n]))
    BY <2>1, <2>3 DEF Good
  <2> QED
    BY <2>1, <2>4 DEF LiveAt, CloseOps
<1> QED
  BY <1>6, <1>7, LiveMembers

\* In function bodies of every size and nesting, validateBlock reports as
\* unreachable only statements that no execution of the body gets to: a loop
\* never counts as returning, and an if only when both of its branches return.
THEOREM UnreachableIsNeverRun == Spec => []UnreachableNeverRuns
<1>1. ReturnInv => UnreachableNeverRuns
  <2> SUFFICES ASSUME ReturnInv, validated,
                      {errors[i][1] : i \in DOMAIN errors} \cap {"break_outside", "continue_outside"} = {},
                      NEW i \in DOMAIN errors, errors[i][1] = "unreachable"
               PROVE  Structure!At(errors[i][2]) \notin Structure!Passed(prog)
    BY DEF UnreachableNeverRuns
  <2>1. ValidationInv /\ HistoryInv
    BY DEF ReturnInv, CompilationInv
  <2>2. PICK H : History(H, prog, scopes) /\ Following(H, prog) = Reported(errors)
    BY <2>1 DEF HistoryInv
  <2>3. Strays(errors) = {}
    BY DEF Strays, JumpErrors
  <2>4. errors[i][2] \in Following(H, prog)
    BY <2>2 DEF Reported
  <2> QED
    BY <2>1, <2>2, <2>3, <2>4, FollowingNotPassed
<1> QED
  BY <1>1, ReturnInvariant, PTL
=============================================================================
