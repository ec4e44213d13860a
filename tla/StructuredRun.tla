---------------------------- MODULE StructuredRun ----------------------------
(***************************************************************************)
(* What a function body means: the abstract specification of the lowering. *)
(* The body is executed by its structure (blocks, loops, break, continue,  *)
(* return), without basic blocks or branches, and the specification says   *)
(* which observable step may follow which.  An observable step is the      *)
(* execution of a statement, of a for clause, the evaluation of a          *)
(* condition with its outcome, or a return; conditions may come out either *)
(* way, since no value is modelled.                                        *)
(***************************************************************************)
EXTENDS Statements

VARIABLES
  program,    \* the items of the body; empty until it is loaded
  last        \* the last observable step

absVars == <<program, last>>

\* An observable step: what was executed, at which item, and for a condition
\* its outcome.  Item 0 is the end of the body.
Label(op, n, out) == [op |-> op, item |-> n, out |-> out]
Start == Label("start", 0, FALSE)

-----------------------------------------------------------------------------
(* Where execution goes.  A control point is the item about to be executed *)
(* ("at"), the condition of a for about to be evaluated ("head"), or the   *)
(* update of a for about to be executed ("next").                          *)

At(n)         == <<"at", n>>
CondOf(n)     == <<"head", n>>
UpdateOf(n)   == <<"next", n>>

\* The point an unobservable item at n hands over to.
Skip(p, n) ==
  CASE p[n].op \in {"pure", "endif"} -> At(n + 1)
    [] p[n].op = "func"     -> At(Close(p, n) + 1)
    [] p[n].op = "break"    -> At(Close(p, LoopOf(p, n)) + 1)
    [] p[n].op = "continue" -> At(Close(p, LoopOf(p, n)))
    [] p[n].op = "else"     -> At(Close(p, Open(p, n)) + 1)
    [] p[n].op = "endwhile" -> At(Open(p, n))
    [] p[n].op = "endfor"   -> UpdateOf(Open(p, n))
    [] p[n].op = "for"      -> CondOf(n)

\* What is observed of an item: a set of at most one name.
SeenAt(item) ==
  CASE item.op \in {"stmt", "ret"} -> {item.op}
    [] item.op \in {"if", "while"} -> {"cond"}
    [] item.op = "for"             -> IF item.header.init THEN {"init"} ELSE {}
    [] OTHER                       -> {}

\* And at a control point.
Seen(p, pt) ==
  LET n == pt[2]
  IN  CASE pt[1] = "head" -> IF p[n].header.cond THEN {"cond"} ELSE {}
        [] pt[1] = "next" -> IF p[n].header.update THEN {"update"} ELSE {}
        [] pt[1] = "at"   -> IF n = Len(p) + 1 THEN {"ret"} ELSE SeenAt(p[n])

\* The observable steps possible at a control point.
Steps(p, pt) ==
  LET item == IF pt[2] = Len(p) + 1 THEN 0 ELSE pt[2]
  IN  {Label(op, item, out) : op \in Seen(p, pt), out \in
         IF Seen(p, pt) = {"cond"} THEN BOOLEAN ELSE {FALSE}}

\* The control point after an observable step.
After(p, l) ==
  CASE l.op = "start"              -> At(1)
    [] l.op = "stmt"               -> At(l.item + 1)
    [] l.op \in {"init", "update"} -> CondOf(l.item)
    [] l.op = "cond"               ->
         IF l.out THEN At(l.item + 1)
         ELSE IF p[l.item].op = "if" THEN At(ElseOrEnd(p, l.item) + 1)
         ELSE At(Close(p, l.item) + 1)

\* The point after an unobservable control point.
Silent(p, pt) ==
  CASE pt[1] = "head" -> At(pt[2] + 1)
    [] pt[1] = "next" -> CondOf(pt[2])
    [] OTHER          -> Skip(p, pt[2])

Points(p) == 3 * (Len(p) + 1)

\* The observable steps reached from a control point.  "for (;;) {}" reaches
\* none: the search gives up after more moves than there are control points.
Reach(p, pt) ==
  LET Moved[m \in 0 .. Points(p)] ==
        IF m = 0 THEN pt
        ELSE LET q == Moved[m - 1] IN IF Seen(p, q) = {} THEN Silent(p, q) ELSE q
  IN  Steps(p, Moved[Points(p)])

\* The observable steps that may follow step l in body p.
Successors(p, l) == IF l.op = "ret" THEN {} ELSE Reach(p, After(p, l))

\* The control points one move further.
Onward(p, pt) ==
  IF Seen(p, pt) = {} THEN {Silent(p, pt)}
  ELSE {After(p, l) : l \in {s \in Steps(p, pt) : s.op # "ret"}}

\* Every control point some execution of p passes.
Passed(p) ==
  LET Within[m \in 0 .. Points(p)] ==
        IF m = 0 THEN {At(1)}
        ELSE LET points == Within[m - 1]
             IN  points \cup UNION {Onward(p, pt) : pt \in points}
  IN  Within[Points(p)]

-----------------------------------------------------------------------------
AbsInit == program = <<>> /\ last = Start

Load == program = <<>> /\ last = Start /\ last' = Start

Run ==
  /\ last' \in Successors(program, last)
  /\ UNCHANGED program

AbsNext == Load \/ Run

AbsSpec == AbsInit /\ [][AbsNext]_absVars
=============================================================================
