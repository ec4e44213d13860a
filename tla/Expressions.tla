---------------------------- MODULE Expressions ----------------------------
(***************************************************************************)
(* One statement and its expressions, as semantic.c checks them and as     *)
(* ir_builder_expr.c and ir_builder_stmt.c lower them.  Both walk the same *)
(* tree by recursion; here the tree is built bottom-up on a stack, and     *)
(* each step computes for a new node, from its children, what each of the  *)
(* recursive functions returns for it.  A statement at the end puts the    *)
(* two passes together.                                                    *)
(*                                                                         *)
(* Calls are numbered in the order the source evaluates them.              *)
(***************************************************************************)
EXTENDS Types

LOCAL INSTANCE SequencesExt

CONSTANTS
  Vars,         \* the variables in scope
  SemOf,        \* Vars -> SemType, their types for the semantic pass
  IrOf,         \* Vars -> IrType, and for the builder
  Funcs,        \* the functions of the module
  ParamsOf,     \* Funcs -> sequences of types as written
  ResultOf,     \* Funcs -> types as written
  Declared,     \* types as written in declarations
  StringSize,   \* length of the string literals, terminator included
  MaxNodes,     \* bound: nodes of a statement
  MaxCalls,     \* bound: calls among them
  MaxDepth      \* bound: finished operands that wait for their operator

\* Two types made from the same written one: the layers are of the same kinds
\* over the same base.  Where no type is beneath them, the builder's layers end
\* with an array (irBuilderTypeFromAst).
SameShape(ir, sem) ==
  /\ \A i \in DOMAIN ir.dims : i \in DOMAIN sem.dims /\ ir.dims[i].kind = sem.dims[i].kind
  /\ IF sem.base = "error"
     THEN ir.base = "none" /\ ir.dims # <<>>
     ELSE ir.base = sem.base /\ Len(ir.dims) = Len(sem.dims)

\* The sizes the semantic pass knows are those the builder knows.
SameSizes(ir, sem) ==
  \A i \in DOMAIN ir.dims : sem.dims[i] = Array(Unsized) \/ ir.dims[i] = sem.dims[i]

\* Nothing is said of the sizes: a literal that initializes a variable whose
\* outermost array is unsized replaces the declared sizes of the inner ones too
\* (irBuilderInferArrayTypeFromLiteral).
ASSUME VarsAssumption ==
  /\ SemOf \in [Vars -> SemType]
  /\ IrOf \in [Vars -> IrType]
  /\ \A x \in Vars : SameShape(IrOf[x], SemOf[x])

\* A function without result type ends the build when it is declared
\* (irBuilderPredeclareFunction).
ASSUME FuncsAssumption ==
  \A f \in Funcs : /\ ResultOf[f].base \in Bases \cup {"custom"}
                   /\ semanticTypeFromAst(ResultOf[f]) \in SemType
                   /\ irBuilderTypeFromAst(ResultOf[f]) # NoType

ASSUME StringSizeAssumption == StringSize \in Nat \ {0}

VARIABLES
  stack,        \* the nodes that wait for their parent
  nodes,        \* number of nodes so far
  calls,        \* number of calls so far
  out           \* what became of the statement

vars == <<stack, nodes, calls, out>>

-----------------------------------------------------------------------------
(* A node.  r and l are what irBuilderLowerRValue and irBuilderLowerLValue *)
(* make of it: the type of the value or of what the address points to      *)
(* (NoType when there is none), the calls they emit, and whether the       *)
(* instructions they emit are well typed.                                  *)

Nothing == [type |-> NoType, calls |-> <<>>, good |-> TRUE]
NoLit == [nest |-> -1, first |-> <<>>, width |-> <<>>, leaves |-> <<>>]

Leaf == [kind   |-> "value",   \* what the dispatches on node->type tell apart
         sem    |-> Error,     \* type by checkExpression and checkAssignmentTarget
         ok     |-> TRUE,      \* checkExpression reports no error
         okT    |-> FALSE,     \* nor does checkAssignmentTarget
         target |-> FALSE,     \* isAssignableTarget
         source |-> <<>>,      \* the calls it stands for
         r      |-> Nothing,
         l      |-> Nothing,
         resized |-> FALSE,    \* the builder replaced a size of its type
         notes  |-> {},        \* the unusual things it makes use of
         lit    |-> NoLit]     \* what an array literal is made of

\* What the semantic pass accepts although the builder cannot lower it.
Unsupported == {"undeclared", "value_call", "index", "loose_literal", "void", "no_type",
                "missing_element"}

\* What it accepts although the builder emits operands of other types.
Mistyped == {"narrowing", "array_shape", "array_value", "string_value", "array_compare",
             "compound", "void_type", "overlong"}

Notes == Unsupported \cup Mistyped \cup {"twice"}

\* An array literal has no value: it is only lowered as an initializer.
Used(e) == e.notes \cup (IF e.kind = "literal" THEN {"loose_literal"} ELSE {})

\* A call of a void function has none either, while a void that is loaded has.
Valued(e) == Used(e) \cup (IF Kind(e.sem) = "void" /\ e.kind = "call" THEN {"void"} ELSE {})

\* irPrintType writes void for a missing type too; what is beneath the layers of
\* a type has to be something else for the type to be one of the IR.
Typed(t) == t.base \notin {"void", "none", "error", "custom"}
Untyped(t) == IF Typed(t) THEN {} ELSE {"void_type"}

Value(t) == [Nothing EXCEPT !.type = t]
Loaded(t) == [Value(t) EXCEPT !.good = Typed(t)]

Literal(b) == [Leaf EXCEPT !.sem = Scalar(b), !.r = Value(Scalar(b))]

StringLiteral ==
  [Leaf EXCEPT !.kind = "string",
               !.sem = Over(Array(StringSize), Scalar("char")),
               !.r = Value(Over(Pointer, Scalar("char")))]

Identifier(x) ==
  [Leaf EXCEPT !.kind = "identifier", !.sem = SemOf[x], !.okT = TRUE, !.target = TRUE,
               !.r = Loaded(IrOf[x]), !.l = Loaded(IrOf[x]),
               !.resized = ~SameSizes(IrOf[x], SemOf[x]), !.notes = Untyped(SemOf[x])]

\* checkIdentifier reports a name that is not declared, checkAssignmentTarget
\* does not.
Undeclared ==
  [Leaf EXCEPT !.kind = "identifier", !.ok = FALSE, !.okT = TRUE, !.target = TRUE,
               !.notes = {"undeclared"}]

-----------------------------------------------------------------------------
(* Array accesses *)

checkArrayAccess(b, i) ==
  LET indexed == Kind(b.sem) \in {"array", "pointer"}
  IN  [sem |-> IF indexed THEN Element(b.sem) ELSE Error,
       ok  |-> b.ok /\ i.ok /\ indexed /\ Kind(i.sem) \in {"int", "error"}]

\* Mutant: the result keeps the type of the array.
LowerArrayAccess_NoStep(b, i) ==
  LET based == Kind(b.l.type) = "array" /\ ElementType(b.l.type) # NoType
      done == based /\ i.r.type # NoType
  IN  [type  |-> IF done THEN b.l.type ELSE NoType,
       calls |-> b.l.calls \o (IF based THEN i.r.calls ELSE <<>>),
       good  |-> b.l.good /\ (based => i.r.good) /\ (done => i.r.type = Scalar("int"))]

irBuilderLowerArrayAccess(b, i) ==
  LET based == Kind(b.l.type) = "array" /\ ElementType(b.l.type) # NoType
      done == based /\ i.r.type # NoType
  IN  [type  |-> IF done THEN Element(b.l.type) ELSE NoType,
       calls |-> b.l.calls \o (IF based THEN i.r.calls ELSE <<>>),
       good  |-> b.l.good /\ (based => i.r.good) /\ (done => i.r.type = Scalar("int"))]

\* An array of something that is no type: only pointers are between the two.
Elementless(t) == t.base = "error" /\ \A i \in 2 .. Len(t.dims) : t.dims[i] = Pointer

ArrayAccess(b, i) ==
  LET check == checkArrayAccess(b, i)
      lowered == irBuilderLowerArrayAccess(b, i)
  IN  [Leaf EXCEPT !.kind = "access", !.sem = check.sem, !.ok = check.ok, !.okT = check.ok,
                   !.target = b.target, !.source = b.source \o i.source,
                   !.r = lowered, !.l = lowered, !.resized = b.resized,
                   !.notes = Used(b) \cup Used(i)
                     \cup (IF Kind(b.sem) = "pointer" \/ b.kind = "call" THEN {"index"} ELSE {})
                     \cup (IF Kind(b.sem) = "array" /\ Elementless(b.sem)
                           THEN {"missing_element"} ELSE {})]

-----------------------------------------------------------------------------
(* Unary operators *)

isAddressableExpression(e) == e.kind \in {"identifier", "access"}

checkUnary(op, e) ==
  LET sem == CASE op = "address" /\ isAddressableExpression(e) ->
                    IF e.sem = Error THEN Error ELSE Over(Pointer, e.sem)
               [] op = "deref" /\ Kind(e.sem) = "pointer" -> Element(e.sem)
               [] op = "not" /\ Kind(e.sem) = "bool" -> Scalar("bool")
               [] op = "negate" /\ semanticTypeIsNumeric(e.sem) -> e.sem
               [] OTHER -> Error
  IN  [sem |-> sem,
       ok  |-> IF op = "address" THEN isAddressableExpression(e) /\ e.okT
               ELSE e.ok /\ CASE op = "deref" -> Kind(e.sem) = "pointer"
                              [] op = "not" -> Kind(e.sem) = "bool"
                              [] OTHER -> semanticTypeIsNumeric(e.sem)]

\* irBuilderLowerLValue of a dereference: the pointer is the address.
LowerDereference(e) ==
  [e.r EXCEPT !.type = IF Kind(@) = "pointer" THEN ElementType(@) ELSE NoType]

\* irBuilderLowerUnaryRValue, one operator each.
LowerAddress(e) == [e.l EXCEPT !.type = IF @ = NoType THEN @ ELSE Over(Pointer, @)]
LowerNot(e) ==
  [e.r EXCEPT !.type = Scalar("bool"), !.good = @ /\ e.r.type = Scalar("bool")]
LowerNegate(e) == [e.r EXCEPT !.good = @ /\ Kind(e.r.type) \in {"int", "float"}]

irBuilderLowerUnaryRValue(op, e) ==
  CASE op = "address" -> LowerAddress(e)
    [] op = "deref" -> LowerDereference(e)
    [] op = "not" -> IF e.r.type = NoType THEN e.r ELSE LowerNot(e)
    [] op = "negate" -> IF e.r.type = NoType THEN e.r ELSE LowerNegate(e)

Unary(op, e) ==
  LET check == checkUnary(op, e)
      deref == op = "deref"
  IN  [Leaf EXCEPT !.kind = IF deref THEN "deref" ELSE "value",
                   !.sem = check.sem, !.ok = check.ok,
                   !.okT = deref /\ e.ok /\ Kind(e.sem) \in {"pointer", "error"},
                   !.target = deref, !.source = e.source,
                   !.r = irBuilderLowerUnaryRValue(op, e),
                   !.l = IF deref THEN LowerDereference(e) ELSE Nothing,
                   !.resized = e.resized, !.notes = Used(e)]

-----------------------------------------------------------------------------
(* Binary operators: "add" is + and -, "mul" is * and /, "order" the four  *)
(* orderings, "equal" == and !=, "logic" && and ||, which evaluate both    *)
(* sides.                                                                  *)

BinaryOps == {"add", "mul", "order", "equal", "logic"}

checkPointerArithmetic(op, a, b) ==
  op = "add" /\ isNonVoidPointerType(a.sem) /\ b.sem = Scalar("int")

checkBinary(op, a, b) ==
  CASE op \in {"add", "mul"} ->
         IF \/ semanticTypeIsNumeric(a.sem) /\ a.sem = b.sem
            \/ checkPointerArithmetic(op, a, b)
         THEN a.sem ELSE Error
    [] op = "order" ->
         IF isOrderedComparableType(a.sem) /\ a.sem = b.sem THEN Scalar("bool") ELSE Error
    [] op = "equal" -> IF a.sem = b.sem THEN Scalar("bool") ELSE Error
    [] op = "logic" ->
         IF a.sem = Scalar("bool") /\ b.sem = Scalar("bool") THEN Scalar("bool") ELSE Error

\* The operands an instruction of the IR takes.
Takes(op, a, b) ==
  /\ a = b
  /\ CASE op \in {"add", "mul"} -> Kind(a) \in {"int", "float", "char", "bool"}
       [] op = "logic" -> Kind(a) = "bool"
       [] OTHER -> Kind(a) # "array"

irBuilderLowerBinaryRValue(op, a, b) ==
  LET both == a.r.type # NoType /\ b.r.type # NoType
      moved == op = "add" /\ Kind(a.r.type) = "pointer"
  IN  [type  |-> IF ~both THEN NoType
                 ELSE IF op \in {"add", "mul"} THEN a.r.type ELSE Scalar("bool"),
       calls |-> a.r.calls \o b.r.calls,
       good  |-> /\ a.r.good /\ b.r.good
                 /\ both => IF moved THEN b.r.type = Scalar("int")
                            ELSE Takes(op, a.r.type, b.r.type)]

\* The sizes of a type as the semantic pass has it may not be the builder's.
SizeOpen(t, resized) == HasUnsized(t) \/ (resized /\ HasArray(t))

Binary(op, a, b) ==
  LET sem == checkBinary(op, a, b)
  IN  [Leaf EXCEPT !.sem = sem, !.ok = a.ok /\ b.ok /\ sem # Error,
                   !.source = a.source \o b.source,
                   !.r = irBuilderLowerBinaryRValue(op, a, b), !.resized = a.resized,
                   !.notes = Valued(a) \cup Valued(b)
                     \cup (IF \/ Kind(a.sem) = "array"
                              \/ op = "equal" /\ SizeOpen(a.sem, a.resized \/ b.resized)
                           THEN {"array_compare"} ELSE {})]

-----------------------------------------------------------------------------
(* A value where a type is expected: an initializer, the right-hand side   *)
(* of an assignment, an argument.                                          *)

\* irBuilderDecayArrayToPointer
Decayed(t) == IF ElementType(t) = NoType THEN NoType ELSE Over(Pointer, Element(t))

\* Mutant: a value without address does not fall back to the value.
LowerForExpected_NoFallback(e, expected) ==
  IF Kind(expected) # "pointer" \/ e.kind = "string" THEN e.r
  ELSE [e.l EXCEPT !.type = IF Kind(@) = "array" THEN Decayed(@) ELSE NoType]

\* Mutant: the address is tried for every expected type.
LowerForExpected_Always(e, expected) ==
  IF Kind(expected) = "pointer" /\ Kind(e.l.type) = "array"
  THEN [e.l EXCEPT !.type = Decayed(@)]
  ELSE [e.r EXCEPT !.calls = e.l.calls \o @, !.good = e.l.good /\ @]

\* Every lowering of a value that may decay tries the address first and keeps
\* what that emitted.
irBuilderLowerValueForExpectedType(e, expected) ==
  IF Kind(expected) # "pointer" \/ e.kind = "string" THEN e.r
  ELSE IF Kind(e.l.type) = "array"
       THEN [e.l EXCEPT !.type = Decayed(@)]
       ELSE [e.r EXCEPT !.calls = e.l.calls \o @, !.good = e.l.good /\ @]

\* The check around it: an operand that failed silently is let through.
Passes(t, e) == e.ok /\ (e.sem = Error \/ semanticTypeIsCompatibleWithDecay(t, e.sem))

\* A type that is accepted for another one, where the builder changes nothing.
Coercion(t, a, resized) ==
  CASE Kind(t) = "char" /\ Kind(a) = "int" -> {"narrowing"}
    [] semanticTypeCanDecayToPointer(a, t) ->
         IF SizeOpen(Element(a), resized) THEN {"array_shape"} ELSE {}
    [] OTHER -> IF t # a \/ SizeOpen(a, resized) THEN {"array_shape"} ELSE {}

\* resized: a size of the place the value is for was replaced.
Passing(t, e, resized) ==
  Valued(e)
    \cup (IF e.sem = Error THEN {} ELSE Coercion(t, e.sem, resized \/ e.resized))
    \cup (IF e.kind = "string" /\ Kind(t) = "array" THEN {"string_value"} ELSE {})
    \cup (IF e.kind = "call" /\ semanticTypeCanDecayToPointer(e.sem, t) THEN {"array_value"} ELSE {})
    \cup (IF /\ Kind(t) = "pointer" /\ e.kind \in {"access", "deref"}
             /\ Kind(e.sem) # "array" /\ e.source # <<>>
          THEN {"twice"} ELSE {})

-----------------------------------------------------------------------------
(* Calls *)

SourceOf(args) == FlattenSeq([i \in DOMAIN args |-> args[i].source])
NotesOf(args) == UNION {Used(args[i]) : i \in DOMAIN args}

checkCall(f, args) ==
  /\ Len(args) = Len(ParamsOf[f])
  /\ \A i \in DOMAIN args : Passes(semanticTypeFromAst(ParamsOf[f][i]), args[i])

irBuilderLowerCallRValue(f, args, id) ==
  LET expected == [i \in DOMAIN args |-> irBuilderTypeFromAst(ParamsOf[f][i])]
      arg == [i \in DOMAIN args |-> irBuilderLowerValueForExpectedType(args[i], expected[i])]
      done == \A i \in DOMAIN args : arg[i].type # NoType
      reached == {i \in DOMAIN args : \A j \in 1 .. i - 1 : arg[j].type # NoType}
      result == irBuilderTypeFromAst(ResultOf[f])
  IN  [type  |-> IF done /\ result # Scalar("void") THEN result ELSE NoType,
       calls |-> FlattenSeq([i \in reached |-> arg[i].calls])
                   \o (IF done THEN <<id>> ELSE <<>>),
       good  |-> /\ \A i \in reached : arg[i].good
                 /\ done => /\ \A i \in DOMAIN args : arg[i].type = expected[i]
                            /\ Typed(result) \/ result = Scalar("void")]

Call(f, args, id) ==
  LET counted == Len(args) = Len(ParamsOf[f])
  IN  [Leaf EXCEPT !.kind = "call",
                   !.sem = IF counted THEN semanticTypeFromAst(ResultOf[f]) ELSE Error,
                   !.ok = checkCall(f, args), !.source = Append(SourceOf(args), id),
                   !.r = IF counted THEN irBuilderLowerCallRValue(f, args, id) ELSE Nothing,
                   !.notes = IF counted
                             THEN UNION {Passing(semanticTypeFromAst(ParamsOf[f][i]), args[i], FALSE) :
                                           i \in DOMAIN args}
                                  \cup (IF ResultOf[f].dims = <<>> THEN {} ELSE Untyped(ResultOf[f]))
                             ELSE NotesOf(args)]

\* A call whose callee is not a name: checkCall looks at neither the callee nor
\* the arguments, and nothing is emitted.
CallOfValue(callee, args, id) ==
  [Leaf EXCEPT !.kind = "call",
               !.source = Append(callee.source \o SourceOf(args), id),
               !.notes = callee.notes \cup NotesOf(args) \cup {"value_call"}]

-----------------------------------------------------------------------------
(* Array literals *)

LiteralElements(elems) == {elems[i] : i \in {j \in DOMAIN elems : elems[j].kind = "literal"}}

checkArrayLiteral(elems) ==
  \A i \in DOMAIN elems :
    elems[i].ok /\ (elems[i].sem = Error \/ elems[i].sem = elems[1].sem)

\* Nested literals are flattened; depth counts the braces around a leaf, first
\* the elements along the first ones, width the most elements at each depth.
Literals(elems) ==
  LET inner == {e.lit : e \in LiteralElements(elems)}
      nest == Max({-1} \cup {l.nest : l \in inner}) + 1
      Below(e) == [i \in DOMAIN e.lit.leaves |->
                     [e.lit.leaves[i] EXCEPT !.depth = @ + 1]]
      Own(e) == <<[depth |-> 1, kind |-> e.kind, sem |-> e.sem, r |-> e.r]>>
  IN  [nest   |-> nest,
       first  |-> <<Len(elems)>> \o (IF elems = <<>> THEN <<>> ELSE elems[1].lit.first),
       width  |-> <<Len(elems)>> \o
                    [d \in 1 .. nest |-> Max({0} \cup {l.width[d] :
                                               l \in {k \in inner : d \in DOMAIN k.width}})],
       leaves |-> FlattenSeq([i \in DOMAIN elems |->
                     IF elems[i].kind = "literal" THEN Below(elems[i]) ELSE Own(elems[i])])]

ArrayLiteral(elems) ==
  LET ok == checkArrayLiteral(elems)
  IN  [Leaf EXCEPT !.kind = "literal", !.ok = ok,
                   !.sem = Over(Array(Unsized), IF ok /\ elems # <<>> THEN elems[1].sem ELSE Error),
                   !.source = SourceOf(elems),
                   !.resized = \E i \in DOMAIN elems : elems[i].resized,
                   !.notes = UNION {IF elems[i].kind = "literal" THEN elems[i].notes
                                    ELSE Valued(elems[i]) : i \in DOMAIN elems},
                   !.lit = Literals(elems)]

-----------------------------------------------------------------------------
(* Building the tree *)

NoOut == [stmt |-> "none"]

Init ==
  /\ stack = <<>>
  /\ nodes = 0
  /\ calls = 0
  /\ out = NoOut

\* The last n nodes become the children of a new one.
Reduce(n, node) ==
  /\ out = NoOut
  /\ nodes < MaxNodes
  /\ Len(stack) - n < MaxDepth
  /\ stack' = Append(SubSeq(stack, 1, Len(stack) - n), node)
  /\ nodes' = nodes + 1
  /\ UNCHANGED out

Top(n) == SubSeq(stack, Len(stack) - n + 1, Len(stack))

\* An error once reported stays; only a call of a value forgets its callee's.
Viable(es) == \A i \in DOMAIN es : es[i].ok \/ es[i].okT

PushLeaf ==
  /\ \E e \in {Literal(b) : b \in Bases \ {"void"}} \cup {StringLiteral, Undeclared}
              \cup {Identifier(x) : x \in Vars} : Reduce(0, e)
  /\ UNCHANGED calls

PushAccess ==
  /\ Len(stack) >= 2
  /\ Viable(Top(2))
  /\ Top(2)[1].kind \in {"identifier", "access", "call"}
  /\ Reduce(2, ArrayAccess(Top(2)[1], Top(2)[2]))
  /\ UNCHANGED calls

PushUnary ==
  /\ Len(stack) >= 1
  /\ Viable(Top(1))
  /\ \E op \in {"address", "deref", "not", "negate"} : Reduce(1, Unary(op, Top(1)[1]))
  /\ UNCHANGED calls

PushBinary ==
  /\ Len(stack) >= 2
  /\ Viable(Top(2))
  /\ \E op \in BinaryOps : Reduce(2, Binary(op, Top(2)[1], Top(2)[2]))
  /\ UNCHANGED calls

PushCall ==
  /\ calls < MaxCalls
  /\ calls' = calls + 1
  /\ \E n \in 0 .. Len(stack), f \in Funcs :
       /\ Viable(Top(n))
       /\ Reduce(n, Call(f, Top(n), calls'))

PushCallOfValue ==
  /\ calls < MaxCalls
  /\ calls' = calls + 1
  /\ \E n \in 1 .. Len(stack) :
       /\ Top(n)[1].kind \in {"access", "call"}
       /\ Reduce(n, CallOfValue(Top(n)[1], Tail(Top(n)), calls'))

PushArrayLiteral ==
  /\ \E n \in 0 .. Len(stack) : Viable(Top(n)) /\ Reduce(n, ArrayLiteral(Top(n)))
  /\ UNCHANGED calls

-----------------------------------------------------------------------------
(* Statements *)

\* What the semantic pass and the builder make of a statement: accepted, no
\* error was reported; built, the builder went on; emitted, the calls in the
\* emitted code; target, the calls in the target of a compound assignment.
Outcome(stmt, accepted, built, good, source, emitted, notes) ==
  [stmt |-> stmt, accepted |-> accepted, built |-> built, good |-> good,
   source |-> source, emitted |-> emitted, target |-> <<>>, notes |-> notes]

Finish(n, outcome) ==
  /\ out = NoOut
  /\ Len(stack) = n
  /\ out' = outcome
  /\ stack' = <<>>
  /\ UNCHANGED <<nodes, calls>>

\* Every literal along the first ones replaces the size of its array; below the
\* last of them there has to be a type.
irBuilderInferArrayTypeFromLiteral(t, first) ==
  LET sized == {i \in DOMAIN t.dims : i <= Len(first) /\ \A j \in 1 .. i : t.dims[j].kind = "array"}
  IN  IF t.base = "none" /\ sized = DOMAIN t.dims THEN NoType
      ELSE [t EXCEPT !.dims = [i \in DOMAIN @ |-> IF i \in sized THEN Array(first[i]) ELSE @[i]]]

\* The type of the slot of a local variable.
SlotType(t, e) ==
  LET type == irBuilderTypeFromAst(t)
  IN  IF Kind(type) = "array" /\ Head(type.dims) = Array(Unsized)
      THEN IF e.kind = "literal"
           THEN irBuilderInferArrayTypeFromLiteral(type, e.lit.first)
           ELSE IF e.kind = "string" /\ Kind(Element(type)) = "char"
           THEN Over(Array(StringSize), Element(type))
           ELSE type
      ELSE type

\* irPrintType writes an array without size as one of no elements.
Room(layer) == IF layer.size = Unsized THEN 0 ELSE layer.size

\* The elements of a literal, one store each.
irBuilderStoreArrayLiteralElements(type, lit) ==
  LET leaves == lit.leaves
      arrays == \A d \in 1 .. lit.nest + 1 : d <= Len(type.dims) /\ type.dims[d].kind = "array"
      Slot(i) == Inner(type, leaves[i].depth)
  IN  [built   |-> arrays /\ \A i \in DOMAIN leaves : /\ Slot(i) # Scalar("none")
                                                     /\ leaves[i].r.type # NoType,
       emitted |-> FlattenSeq([i \in DOMAIN leaves |-> leaves[i].r.calls]),
       good    |-> /\ arrays
                   /\ \A i \in DOMAIN leaves : /\ leaves[i].r.good
                                               /\ leaves[i].r.type = Slot(i)
                   /\ \A d \in DOMAIN lit.width : lit.width[d] <= Room(type.dims[d])]

StoreValue(type, lowered) ==
  [built |-> lowered.type # NoType, emitted |-> lowered.calls,
   good |-> lowered.good /\ lowered.type = type]

LowerInitializer(type, e) ==
  CASE Kind(type) = "array" /\ e.kind = "literal" ->
         irBuilderStoreArrayLiteralElements(type, e.lit)
    [] Kind(type) = "array" /\ Kind(Element(type)) = "char" /\ e.kind = "string" ->
         [built |-> TRUE, emitted |-> <<>>, good |-> TRUE]
    [] OTHER -> StoreValue(type, irBuilderLowerValueForExpectedType(e, type))

\* What is unusual about a declared type.
TypeNotes(t) ==
  IF t.base = "custom" /\ ~HasArray(t) THEN {"no_type"} ELSE Untyped(t)

\* And about an initializer of that type.
InitializerNotes(t, e) ==
  LET sem == semanticTypeFromAst(t)
      leaves == e.lit.leaves
      slot == SlotType(t, e)
      Slot(i) == Inner(sem, leaves[i].depth)
  IN  IF e.kind = "literal" /\ Kind(sem) = "array"
      THEN e.notes
             \cup (IF \E d \in 1 .. e.lit.nest + 1 : d > Len(sem.dims) \/ sem.dims[d].kind # "array"
                   THEN {"loose_literal"}
                   ELSE IF slot = NoType THEN {"missing_element"}
                   ELSE IF \E d \in DOMAIN e.lit.width : e.lit.width[d] > Room(slot.dims[d])
                   THEN {"overlong"} ELSE {})
             \cup UNION {IF leaves[i].kind = "string"
                         THEN IF Kind(Slot(i)) = "array" THEN {"string_value"} ELSE {}
                         ELSE IF Kind(Slot(i)) = "pointer" /\ Kind(leaves[i].sem) = "array"
                         THEN {"array_shape"}
                         ELSE Coercion(Slot(i), leaves[i].sem, e.resized) :
                         i \in {j \in DOMAIN leaves : leaves[j].depth <= Len(sem.dims)}}
      ELSE IF e.kind = "string" /\ Kind(sem) = "array" /\ Kind(Element(sem)) = "char"
      THEN e.notes
      ELSE Passing(sem, e, FALSE)

\* A declaration without and with initializer.
VariableDeclaration ==
  \E t \in {d \in Declared : isTypeToken(d.base)} :
    \/ LET type == irBuilderTypeFromAst(t) IN
       Finish(0, Outcome("declaration", TRUE, type # NoType, type.base \in Bases \ {"void"},
                         <<>>, <<>>, TypeNotes(t)))
    \/ LET e == stack[1]
           type == SlotType(t, e)
           init == LowerInitializer(type, e)
       IN  Finish(1, Outcome("declaration", Passes(semanticTypeFromAst(t), e),
                             type # NoType /\ init.built,
                             type.base \in Bases \ {"void"} /\ init.good,
                             e.source, init.emitted, TypeNotes(t) \cup InitializerNotes(t, e)))

\* checkAssign, the same for the three operators.
checkAssign(target, e) ==
  /\ target.okT /\ e.ok
  /\ target.sem = Error \/ e.sem = Error \/ semanticTypeIsCompatibleWithDecay(target.sem, e.sem)

Assignment ==
  LET target == stack[1]
      e == stack[2]
      value == irBuilderLowerValueForExpectedType(e, target.l.type)
  IN  /\ Len(stack) = 2 /\ target.target
      /\ Finish(2, Outcome("assignment", checkAssign(target, e),
                           target.l.type # NoType /\ value.type # NoType,
                           target.l.good /\ value.good /\ value.type = target.l.type,
                           target.source \o e.source, target.l.calls \o value.calls,
                           target.notes \cup Passing(target.sem, e, target.resized)))

\* += and -=: the address is lowered once for the load and, after the value,
\* once more for the store.
CompoundAssignment ==
  LET target == stack[1]
      e == stack[2]
      outcome == Outcome("compound", checkAssign(target, e),
                         target.l.type # NoType /\ e.r.type # NoType,
                         target.l.good /\ e.r.good /\ Takes("add", target.l.type, e.r.type),
                         target.source \o e.source,
                         target.l.calls \o e.r.calls \o target.l.calls,
                         target.notes \cup Valued(e)
                           \cup (IF e.sem = Error THEN {}
                                 ELSE Coercion(target.sem, e.sem, target.resized \/ e.resized))
                           \cup (IF Kind(target.sem) \in {"pointer", "array"} THEN {"compound"} ELSE {}))
  IN  /\ Len(stack) = 2 /\ target.target
      /\ Finish(2, [outcome EXCEPT !.target = target.source])

\* The result of the lowering is not looked at.
ExpressionStatement ==
  LET e == stack[1] IN
  Finish(1, Outcome("expression", e.ok, TRUE, e.r.good, e.source, e.r.calls, Used(e)))

ReturnStatement ==
  \E f \in Funcs :
    LET e == stack[1]
        sem == semanticTypeFromAst(ResultOf[f])
    IN  Finish(1, Outcome("return",
                          e.ok /\ Kind(sem) # "void" /\ (e.sem = Error \/ sem = e.sem),
                          e.r.type # NoType, e.r.good /\ e.r.type = irBuilderTypeFromAst(ResultOf[f]),
                          e.source, e.r.calls,
                          Used(e) \cup (IF SizeOpen(sem, e.resized) THEN {"array_shape"} ELSE {})
                                  \cup (IF e.kind = "string" THEN {"string_value"} ELSE {})))

\* The condition of an if, a while or a for.
Condition ==
  LET e == stack[1] IN
  Finish(1, Outcome("condition", e.ok /\ (e.sem = Error \/ e.sem = Scalar("bool")),
                    e.r.type # NoType, e.r.good /\ e.r.type = Scalar("bool"),
                    e.source, e.r.calls, Used(e)))

\* The next statement of the block.
NextStatement ==
  /\ out # NoOut
  /\ stack' = <<>> /\ nodes' = 0 /\ calls' = 0 /\ out' = NoOut

Next ==
  \/ PushLeaf \/ PushAccess \/ PushUnary \/ PushBinary
  \/ PushCall \/ PushCallOfValue \/ PushArrayLiteral
  \/ VariableDeclaration \/ Assignment \/ CompoundAssignment
  \/ ExpressionStatement \/ ReturnStatement \/ Condition
  \/ NextStatement

Spec == Init /\ [][Next]_vars

-----------------------------------------------------------------------------
(* Properties *)

Kinds == {"value", "string", "identifier", "access", "deref", "call", "literal"}

Lowered == [type : IrType \cup {NoType}, calls : Seq(Nat), good : BOOLEAN]

LeafOfLiteral == [depth : Nat, kind : Kinds, sem : SemType, r : Lowered]

Node == [kind : Kinds, sem : SemType, ok : BOOLEAN, okT : BOOLEAN, target : BOOLEAN,
         source : Seq(Nat), r : Lowered, l : Lowered, resized : BOOLEAN,
         notes : SUBSET Notes,
         lit : [nest : Nat \cup {-1}, first : Seq(Nat), width : Seq(Nat),
                leaves : Seq(LeafOfLiteral)]]

Result == [stmt : {"declaration", "assignment", "compound", "expression", "return", "condition"},
           accepted : BOOLEAN, built : BOOLEAN, good : BOOLEAN,
           source : Seq(Nat), emitted : Seq(Nat), target : Seq(Nat),
           notes : SUBSET Notes]

\* Nodes and outcomes are records of the types the two passes work with.
TypeOK ==
  /\ stack \in Seq(Node)
  /\ nodes \in 0 .. MaxNodes
  /\ calls \in 0 .. MaxCalls
  /\ out \in Result \cup {NoOut}

Accepted == out # NoOut /\ out.accepted

\* The type ir of the builder is that of e.
Fits(ir, e) == SameShape(ir, e.sem) /\ (~e.resized => SameSizes(ir, e.sem))

\* The builder computes types on its own, from the declarations up.  Where the
\* semantic pass has no objection, a value or an address has the layers and the
\* base the semantic pass gives the expression, and the sizes too unless they
\* are those of a variable whose declared sizes the literal that initializes it
\* replaced; a string literal is an array to the one and a pointer to the other
\* (checkExpression, irBuilderLowerRValue, irBuilderLowerLValue,
\* irBuilderInferArrayTypeFromLiteral).
TypesAgree ==
  \A i \in DOMAIN stack :
    LET e == stack[i] IN
    /\ e.ok /\ e.r.type # NoType /\ e.kind # "string" => Fits(e.r.type, e)
    /\ (e.ok \/ e.okT) /\ e.l.type # NoType => Fits(e.l.type, e)

\* An accepted statement is lowered exactly when it uses none of the forms the
\* semantic pass lets through without the builder having a lowering for them:
\* indexing a pointer or the result of a call, calling something other than a
\* name, an array literal that does not initialize an array, the value of a call
\* of a void function, a type that does not exist, an element of an array of such
\* a type or a literal that gives its size, an undeclared name that is assigned
\* or whose address is taken (semanticAnalyze, irBuilderLowerStatement).
LoweredUnlessUnsupported ==
  Accepted /\ out.stmt # "expression" => (out.built <=> out.notes \cap Unsupported = {})

\* No call is lost, none is invented, and a call is emitted after one that
\* follows it in the source only when it is a repetition.  Two forms repeat
\* calls: a compound assignment runs those of its target again before it stores,
\* and so may store to another address than it loaded from; an element or a
\* dereference that is passed where a pointer is expected is lowered twice.  In
\* every other statement each call is emitted once and in its place
\* (irBuilderLowerCallRValue, irBuilderLowerAssign,
\* irBuilderLowerValueForExpectedType).
CallsAsWritten ==
  Accepted /\ out.notes \cap Unsupported = {} =>
    LET ran == out.emitted IN
    /\ ToSet(ran) = ToSet(out.source)
    /\ \A i, j \in DOMAIN ran :
         i < j /\ ran[i] > ran[j] => \E k \in 1 .. i : ran[k] = ran[j]
    /\ "twice" \notin out.notes => ran = out.source \o out.target

\* The operands of every emitted instruction have the types the instruction
\* needs, unless the statement stores an int in a char, moves or compares whole
\* arrays, or pointers to arrays, whose size is unknown or was replaced by an
\* initializer, moves strings as arrays or the array a call returns as a pointer,
\* uses a type with void or nothing beneath its layers, applies += or -= to a
\* pointer or an array, or writes more elements than an array has
\* (irBuilderEmitStore, irBuilderEmitBinary, irPrintInstruction).  An int is
\* stored in a char through a pointer as well, although semantic/README.md:221
\* lists "assignment through dereference with exact pointee type matching" among
\* the checks.  Both passes only ever make types that the language has (TypeOK).
WellTypedUnlessNoted ==
  /\ TypeOK
  /\ Accepted /\ out.built /\ out.notes \cap (Unsupported \cup Mistyped) = {} => out.good
=============================================================================
