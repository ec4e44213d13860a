------------------------ MODULE NameResolutionProofs ------------------------
(***************************************************************************)
(* Proofs about NameResolution, for programs of every size, every nesting  *)
(* and every set of names: collection reports exactly the declarations     *)
(* that repeat a name of their block, validation binds every use to its    *)
(* lexical meaning, lowering fails only for the reasons BuildFailureEx-    *)
(* plained gives, and binds what BindingsAgree says.                       *)
(*                                                                         *)
(* The operators below take the program as an argument.  Where a walk is,  *)
(* is described by the items that are open there, outermost first (st),    *)
(* and by the position in the chain of scopes of the innermost scope of    *)
(* each of them (base).                                                    *)
(***************************************************************************)
EXTENDS NameResolution, FiniteSetTheorems, SequenceTheorems,
        NaturalsInduction, WellFoundedInduction, TLAPS

-----------------------------------------------------------------------------
(* The nesting of a program *)

DepthIn(p, n) ==
  Cardinality({m \in 1 .. n - 1 : p[m].op \in OpenOps})
    - Cardinality({m \in 1 .. n - 1 : p[m].op = "end"})

\* Position n is inside what item m opens.
Inside(p, m, n) ==
  /\ m \in 1 .. n - 1
  /\ p[m].op \in OpenOps
  /\ \A j \in m + 1 .. n : DepthIn(p, j) > DepthIn(p, m)

\* st are the items that position n is inside of, outermost first.
Chain(p, st, n) ==
  /\ st \in Seq(1 .. n - 1)
  /\ DepthIn(p, n) = Len(st)
  /\ \A k \in 1 .. Len(st) : Inside(p, st[k], n) /\ DepthIn(p, st[k]) = k - 1
  /\ \A m : Inside(p, m, n) => \E k \in 1 .. Len(st) : m = st[k]

\* q is the item whose block item m is in, 0 for the top level.
ParentIs(p, m, q) ==
  \/ q = 0 /\ DepthIn(p, m) = 0
  \/ Inside(p, q, m) /\ DepthIn(p, q) = DepthIn(p, m) - 1

\* The closing items close something, and every item stands where the grammar
\* allows it.
WellNested(p) ==
  /\ p \in Seq(Item)
  /\ \A n \in 1 .. Len(p) + 1 : \E st : Chain(p, st, n)
  /\ \A n \in DOMAIN p : p[n].op \in IF DepthIn(p, n) = 0 THEN TopOps ELSE BodyOps
  /\ \A n \in DOMAIN p : p[n].op \in UpdateOps => \E q : ParentIs(p, n, q) /\ p[q].op = "for"

\* Everything that was opened is closed.
Complete(p) == DepthIn(p, Len(p) + 1) = 0

\* h is the innermost item of the given kinds around item m.
AroundIs(p, m, ops, h) ==
  /\ Inside(p, h, m) /\ p[h].op \in ops
  /\ \A r : Inside(p, r, m) /\ p[r].op \in ops => r <= h

-----------------------------------------------------------------------------
(* What the items declare *)

DeclOps == {"global", "extern", "func", "decl"}

\* Items that declare the same name in the same block.
Twins(p, m, n) ==
  /\ p[m].op \in DeclOps /\ p[n].op \in DeclOps
  /\ p[m].name = p[n].name
  /\ \E q : ParentIs(p, m, q) /\ ParentIs(p, n, q)

Repeats(p, n) == \E m \in 1 .. n - 1 : Twins(p, m, n)

\* Item m declares x in the block of item q.
InBlock(p, m, x, q) ==
  p[m].op \in DeclOps /\ p[m].name = x /\ ParentIs(p, m, q)

SymbolOf(p, m) ==
  IF p[m].op \in {"func", "extern"} THEN Function(m) ELSE Variable(m)

\* Item m declares variable x.
Declares(p, m, x) ==
  \/ p[m].op \in {"global", "decl", "for"} /\ p[m].name = x
  \/ p[m].op = "func" /\ p[m].with = x

\* Item f is a function x of the top level.
IsFunction(p, f, x) ==
  /\ f \in DOMAIN p /\ DepthIn(p, f) = 0
  /\ p[f].op \in {"func", "extern"} /\ p[f].name = x

\* s is the first function x of the top level, Undeclared if there is none.
FunctionIs(p, x, s) ==
  \/ \E f : /\ IsFunction(p, f, x) /\ s = Function(f)
            /\ \A g : IsFunction(p, g, x) => f <= g
  \/ (\A f : ~IsFunction(p, f, x)) /\ s = Undeclared

-----------------------------------------------------------------------------
(* The walks *)

\* The item whose block is the kth of those around a position.
Outer(st, k) == IF k = 1 THEN 0 ELSE st[k - 1]

Width(ph, o) == ScopesOf[ph][o]

\* Where a walk is that has come to item n: what is open, and its scopes.
Frames(p, st, base, n, op, sc, ph) ==
  /\ Chain(p, st, n)
  /\ op \in Seq(OpenOps) /\ Len(op) = Len(st)
  /\ \A k \in 1 .. Len(st) : op[k] = p[st[k]].op
  /\ base \in Seq(Nat) /\ Len(base) = Len(st) + 1 /\ base[1] = 1
  /\ \A k \in 1 .. Len(st) : base[k + 1] = base[k] + Width(ph, op[k])
  /\ \A j, k \in 1 .. Len(base) : j <= k => base[j] <= base[k]
  /\ sc \in Seq(Scope) /\ Len(sc) = base[Len(base)]

\* Collection: the innermost scope of a block has its declarations so far.
Collected(p, st, base, n, sc) ==
  \A k \in 1 .. Len(st) + 1 : \A x \in Names :
    /\ \A m \in 1 .. n - 1 :
         InBlock(p, m, x, Outer(st, k)) => sc[base[k]][x] # Undeclared
    /\ sc[base[k]][x] # Undeclared =>
         \E m \in 1 .. n - 1 : InBlock(p, m, x, Outer(st, k)) /\ sc[base[k]][x] = SymbolOf(p, m)

\* Validation: scope i is the one that variable m is declared in.
InSlot(p, st, base, i, m) ==
  \/ \E k \in 1 .. Len(st) + 1 :
       /\ i = base[k] /\ p[m].op \in {"global", "decl"}
       /\ ParentIs(p, m, Outer(st, k))
  \/ \E k \in 1 .. Len(st) :
       m = st[k] /\ p[m].op \in {"func", "for"} /\ i = base[k + 1] - 1

Validated(p, st, base, n, sc) ==
  \A i \in 1 .. Len(sc) : \A x \in Names :
    /\ \A m \in 1 .. n - 1 :
         Declares(p, m, x) /\ InSlot(p, st, base, i, m) => sc[i][x] = Variable(m)
    /\ \/ i = 1 /\ FunctionIs(p, x, sc[i][x])
       \/ i # 1 /\ sc[i][x] = Undeclared
       \/ \E m \in 1 .. n - 1 :
            Declares(p, m, x) /\ InSlot(p, st, base, i, m) /\ sc[i][x] = Variable(m)

\* Variable m is declared as x before item n in a block around it.
InSight(p, n, x, m) ==
  /\ m \in 1 .. n - 1 /\ Declares(p, m, x)
  /\ \/ p[m].op = "global"
     \/ p[m].op = "decl" /\ \E q : ParentIs(p, m, q) /\ Inside(p, q, n)
     \/ p[m].op \in {"func", "for"} /\ Inside(p, m, n)

\* Item n is an update, and the body of its for declares variable m.
InBody(p, m, n) ==
  /\ p[n].op \in UpdateOps /\ p[m].op = "decl"
  /\ \E q : ParentIs(p, m, q) /\ ParentIs(p, n, q)

\* Variable m is visible as x at item n.
Visible(p, n, x, m) == InSight(p, n, x, m) /\ ~InBody(p, m, n)

\* The scopes that item n is checked in.
ScopesAt(p, n, sc) == IF p[n].op \in UpdateOps THEN Front(sc) ELSE sc

\* s is what x means at item n.
Means(p, n, x, s) ==
  \/ \E m : /\ Visible(p, n, x, m) /\ s = Variable(m)
            /\ \A v : Visible(p, n, x, v) => v <= m
  \/ (\A m : ~Visible(p, n, x, m)) /\ FunctionIs(p, x, s)

KindOf(e) == IF e.op \in CallOps THEN "function" ELSE "variable"

\* Validation has treated the use at item j as it should, if j is one.
BoundAt(p, j, sem, es) ==
  /\ UsedName(p[j]) = NoName => j \notin DOMAIN sem /\ <<"undeclared", j>> \notin es
  /\ UsedName(p[j]) # NoName =>
       \E s :
         /\ Means(p, j, UsedName(p[j]), s)
         /\ s.kind = KindOf(p[j]) =>
              j \in DOMAIN sem /\ sem[j] = s /\ <<"undeclared", j>> \notin es
         /\ s.kind # KindOf(p[j]) =>
              j \notin DOMAIN sem /\ (<<"undeclared", j>> \in es <=> p[j].op \notin WriteOps)

Bound(p, n, sem, es) ==
  \A j \in 1 .. n - 1 : BoundAt(p, j, sem, es)

\* Lowering: scope i is the one that variable m is declared in.
HomeOps == {"func", "for"}
InIrSlot(p, st, base, i, m) ==
  \/ i = 1 /\ p[m].op = "global"
  \/ \E k \in 1 .. Len(st) :
       /\ p[st[k]].op \in HomeOps /\ i = base[k + 1]
       /\ \/ m = st[k]
          \/ p[m].op = "decl" /\ AroundIs(p, m, HomeOps, st[k])

\* Only the outermost open item is a function, and the blocks of if and while
\* share the scope of the function or loop that is around them.
IrFrames(p, st, base) ==
  \A k \in 1 .. Len(st) :
    /\ p[st[k]].op = "func" <=> k = 1
    /\ \E h \in 1 .. k : /\ p[st[h]].op \in HomeOps /\ base[h + 1] = base[k + 1]
                         /\ \A r \in h + 1 .. k : p[st[r]].op = "block"

Lowered(p, st, base, n, sc) ==
  \A i \in 1 .. Len(sc) : \A x \in Names :
    /\ \A m \in DOMAIN p :
         (m < n \/ p[m].op = "global") /\ Declares(p, m, x) /\ InIrSlot(p, st, base, i, m)
           => sc[i][x] = Variable(m)
    /\ \/ i = 1 /\ FunctionIs(p, x, sc[i][x])
       \/ i # 1 /\ sc[i][x] = Undeclared
       \/ \E m \in DOMAIN p :
            /\ (m < n \/ p[m].op = "global")
            /\ Declares(p, m, x) /\ InIrSlot(p, st, base, i, m)
            /\ sc[i][x] = Variable(m)

\* Item n is in the body of a top-level function and in no nested one.
InTopFunction(p, n) == \E f : AroundIs(p, n, {"func"}, f) /\ DepthIn(p, f) = 0

\* The IR scope of item n has its name already.
RedeclaredAt(p, n) ==
  /\ p[n].op = "decl" /\ InTopFunction(p, n)
  /\ \E h : /\ AroundIs(p, n, HomeOps, h)
            /\ \/ Declares(p, h, p[n].name)
               \/ \E m \in h + 1 .. n - 1 :
                    /\ p[m].op = "decl" /\ p[m].name = p[n].name
                    /\ AroundIs(p, m, HomeOps, h)

\* Item m declares the variable that n uses in a block that has ended, in an IR
\* scope that has not.
LeftAt(p, m, n) ==
  /\ m \in 1 .. n - 1
  /\ p[m].op = "decl" /\ p[m].name = UsedName(p[n])
  /\ \E q : ParentIs(p, m, q) /\ p[q].op = "block" /\ ~Inside(p, q, n)
  /\ \E h : AroundIs(p, m, HomeOps, h) /\ Inside(p, h, n)

\* Item m declares the variable that n, an update, uses in the body of its for.
BodyLocalAt(p, m, n) == InBody(p, m, n) /\ p[m].name = UsedName(p[n])

\* s is what BindingsAgree allows lowering to find for item n.
Agrees(p, n, sem, s) ==
  IF p[n].op \in {"decl", "for"} /\ p[n].with = p[n].name THEN s = Variable(n)
  ELSE \/ n \in DOMAIN sem /\ s = sem[n]
       \/ n \notin DOMAIN sem /\ \E m \in n + 1 .. Len(p) :
            p[m].op = "global" /\ p[m].name = UsedName(p[n]) /\ s = Variable(m)
       \/ \E m \in 1 .. n - 1 : LeftAt(p, m, n) /\ s = Variable(m)
       \/ \E m \in 1 .. n - 1 : BodyLocalAt(p, m, n) /\ s = Variable(m)

IrBound(p, n, sem, ir) ==
  \A j \in 1 .. n - 1 :
    /\ ~RedeclaredAt(p, j)
    /\ UsedName(p[j]) # NoName /\ InTopFunction(p, j) =>
         j \in DOMAIN ir /\ Agrees(p, j, sem, ir[j])

-----------------------------------------------------------------------------
(* The inductive invariant *)

NoRepeats(p) == \A n \in DOMAIN p : ~Repeats(p, n)

\* The phases after collection, of the whole program.
Phases == {"collect", "validate", "lower", "rejected", "built", "failed"}

Typed ==
  /\ WellNested(program)
  /\ phase \in Phases
  /\ cursor \in 0 .. Len(program)
  /\ opened \in Seq(OpenOps)
  /\ scopes \in Seq(Scope) /\ scopes # <<>>
  /\ errors \subseteq ({"duplicate", "undeclared"} \X Nat)
  /\ DOMAIN sem_binding \subseteq 1 .. Len(program)
  /\ DOMAIN ir_binding \subseteq 1 .. Len(program)
  /\ phase # "collect" => Complete(program)
  /\ phase \notin {"collect", "validate", "rejected"} => errors = {}

\* The duplicates among the items collected so far are reported.
Duplicates ==
  \A n \in Nat : <<"duplicate", n>> \in errors <=> n \in DOMAIN program /\ Repeats(program, n)

CollectInv ==
  phase = "collect" =>
    /\ cursor = Len(program)
    /\ sem_binding = <<>> /\ ir_binding = <<>>
    /\ \A n \in Nat : <<"undeclared", n>> \notin errors
    /\ \E st, base : /\ Frames(program, st, base, Here, opened, scopes, "collect")
                     /\ Collected(program, st, base, Here, scopes)

ValidateInv ==
  phase = "validate" =>
    /\ \A n \in Nat : n \notin 1 .. cursor =>
         n \notin DOMAIN sem_binding /\ <<"undeclared", n>> \notin errors
    /\ \E st, base : /\ Frames(program, st, base, Here, opened, scopes, "validate")
                     /\ NoRepeats(program) => Validated(program, st, base, Here, scopes)
    /\ NoRepeats(program) => Bound(program, Here, sem_binding, errors)

ValidatedInv ==
  phase \notin {"collect", "validate"} /\ NoRepeats(program) =>
    Bound(program, Len(program) + 1, sem_binding, errors)

LowerInv ==
  phase = "lower" =>
    /\ \E st, base : /\ Frames(program, st, base, Here, opened, scopes, "lower")
                     /\ IrFrames(program, st, base)
                     /\ Lowered(program, st, base, Here, scopes)
    /\ IrBound(program, Here, sem_binding, ir_binding)

BuiltInv ==
  /\ phase = "built" => IrBound(program, Len(program) + 1, sem_binding, ir_binding)
  /\ phase = "failed" =>
       \E n \in DOMAIN program :
         \/ RedeclaredAt(program, n)
         \/ UsedName(program[n]) # NoName /\ InTopFunction(program, n) /\ n \notin DOMAIN sem_binding

Inv == Typed /\ Duplicates /\ CollectInv /\ ValidateInv /\ ValidatedInv /\ LowerInv /\ BuiltInv

-----------------------------------------------------------------------------
(* Lemmas *)

\* A set of naturals that is not empty has a least element.
LEMMA LeastElement ==
  ASSUME NEW S \in SUBSET Nat, S # {}
  PROVE  Min(S) \in S /\ \A y \in S : Min(S) <= y
<1> DEFINE R == OpToRel(<, Nat)
<1>1. IsWellFoundedOn(R, Nat)
  BY NatLessThanWellFounded
<1>2. \A x, y \in Nat : <<x, y>> \in R <=> x < y
  BY DEF OpToRel
<1> HIDE DEF R
<1>3. PICK x \in S : \A y \in S : ~(<<y, x>> \in R)
  BY <1>1, WFMin
<1>4. ASSUME NEW y \in S PROVE x <= y
  <2>1. x \in Nat /\ y \in Nat /\ ~(<<y, x>> \in R)
    BY <1>3
  <2>2. ~(y < x)
    BY <1>2, <2>1
  <2> QED
    BY <2>1, <2>2
<1> QED
  BY <1>4 DEF Min

\* A set of naturals up to n that is not empty has a greatest element.
LEMMA GreatestElement ==
  ASSUME NEW n \in Nat, NEW S \in SUBSET (0 .. n), S # {}
  PROVE  Max(S) \in S /\ \A y \in S : y <= Max(S)
<1> DEFINE T == {k \in 0 .. n : n - k \in S}
<1>1. \A y \in S : n - y \in T
  <2> SUFFICES ASSUME NEW y \in S PROVE n - y \in T
    OBVIOUS
  <2>1. y \in 0 .. n /\ n - (n - y) = y /\ n - y \in 0 .. n
    OBVIOUS
  <2> QED
    BY <2>1
<1>2. T \in SUBSET Nat /\ T # {}
  <2>1. PICK y : y \in S
    OBVIOUS
  <2>2. n - y \in T
    BY <1>1, <2>1
  <2> QED
    BY <2>2
<1>3. Min(T) \in T /\ \A y \in T : Min(T) <= y
  <2> HIDE DEF T
  <2> QED
    BY <1>2, LeastElement
<1>4. PICK g : g = n - Min(T)
  OBVIOUS
<1>5. g \in S /\ Min(T) \in 0 .. n
  BY <1>3, <1>4
<1>6. ASSUME NEW y \in S PROVE g >= y
  <2>1. Min(T) <= n - y /\ y \in 0 .. n
    BY <1>1, <1>3
  <2> QED
    BY <1>4, <1>5, <2>1
<1>7. \A y \in S : Max(S) \in S /\ Max(S) >= y
  BY <1>5, <1>6 DEF Max
<1>8. Max(S) \in S
  BY <1>7
<1>9. ASSUME NEW y \in S PROVE y <= Max(S)
  <2>1. Max(S) \in 0 .. n /\ y \in 0 .. n /\ Max(S) >= y
    BY <1>7, <1>8
  <2> QED
    BY <2>1
<1> QED
  BY <1>8, <1>9

\* Sets of positions are finite.
LEMMA PositionsFinite ==
  ASSUME NEW n \in Int, NEW S, S \subseteq 1 .. n
  PROVE  IsFiniteSet(S)
<1>1. IsFiniteSet(1 .. n)
  BY FS_Interval
<1> QED
  BY <1>1, FS_Subset

\* The depth changes by one where something is opened or closed.
LEMMA DepthNext ==
  ASSUME NEW p, NEW n \in Nat \ {0}
  PROVE  /\ DepthIn(p, n) \in Int
         /\ DepthIn(p, 1) = 0
         /\ p[n].op \in OpenOps => DepthIn(p, n + 1) = DepthIn(p, n) + 1
         /\ p[n].op = "end" => DepthIn(p, n + 1) = DepthIn(p, n) - 1
         /\ p[n].op \notin OpenOps \cup {"end"} => DepthIn(p, n + 1) = DepthIn(p, n)
<1> DEFINE O(k) == {m \in 1 .. k - 1 : p[m].op \in OpenOps}
           C(k) == {m \in 1 .. k - 1 : p[m].op = "end"}
<1>1. \A k \in Nat \ {0} : /\ IsFiniteSet(O(k)) /\ Cardinality(O(k)) \in Nat
                           /\ IsFiniteSet(C(k)) /\ Cardinality(C(k)) \in Nat
  <2> SUFFICES ASSUME NEW k \in Nat \ {0}
               PROVE  /\ IsFiniteSet(O(k)) /\ Cardinality(O(k)) \in Nat
                      /\ IsFiniteSet(C(k)) /\ Cardinality(C(k)) \in Nat
    OBVIOUS
  <2>1. k - 1 \in Int /\ O(k) \subseteq 1 .. k - 1 /\ C(k) \subseteq 1 .. k - 1
    OBVIOUS
  <2>2. IsFiniteSet(O(k)) /\ IsFiniteSet(C(k))
    BY <2>1, PositionsFinite
  <2> QED
    BY <2>2, FS_CardinalityType
<1>2. \A k : DepthIn(p, k) = Cardinality(O(k)) - Cardinality(C(k))
  BY DEF DepthIn
<1>3. (n + 1) - 1 = n /\ 1 .. n = (1 .. n - 1) \cup {n} /\ n \notin 1 .. n - 1
  OBVIOUS
<1>4. /\ p[n].op \in OpenOps => O(n + 1) = O(n) \cup {n} /\ n \notin O(n)
      /\ p[n].op \notin OpenOps => O(n + 1) = O(n)
      /\ p[n].op = "end" => C(n + 1) = C(n) \cup {n} /\ n \notin C(n)
      /\ p[n].op # "end" => C(n + 1) = C(n)
  BY <1>3
<1>5. O(1) = {} /\ C(1) = {}
  OBVIOUS
<1>6. "end" \notin OpenOps
  BY DEF OpenOps
<1> HIDE DEF O, C
<1>7. /\ p[n].op \in OpenOps => Cardinality(O(n + 1)) = Cardinality(O(n)) + 1
      /\ p[n].op \notin OpenOps => Cardinality(O(n + 1)) = Cardinality(O(n))
      /\ p[n].op = "end" => Cardinality(C(n + 1)) = Cardinality(C(n)) + 1
      /\ p[n].op # "end" => Cardinality(C(n + 1)) = Cardinality(C(n))
  BY <1>1, <1>4, FS_AddElement
<1>8. DepthIn(p, 1) = 0
  BY <1>2, <1>5, FS_EmptySet
<1>9. DepthIn(p, n) \in Int
  BY <1>1, <1>2
<1> QED
  BY <1>1, <1>2, <1>6, <1>7, <1>8, <1>9

\* Depth only looks at what comes before.
LEMMA DepthPrefix ==
  ASSUME NEW p, NEW q, NEW n, \A m \in 1 .. n - 1 : q[m] = p[m]
  PROVE  DepthIn(q, n) = DepthIn(p, n)
<1>1. /\ {m \in 1 .. n - 1 : q[m].op \in OpenOps} = {m \in 1 .. n - 1 : p[m].op \in OpenOps}
      /\ {m \in 1 .. n - 1 : q[m].op = "end"} = {m \in 1 .. n - 1 : p[m].op = "end"}
  OBVIOUS
<1> QED
  BY <1>1 DEF DepthIn

\* What position n + 1 is inside of.
LEMMA InsideNext ==
  ASSUME NEW p, NEW n \in Nat \ {0}, NEW m
  PROVE  Inside(p, m, n + 1) <=>
           \/ m = n /\ p[n].op \in OpenOps
           \/ Inside(p, m, n) /\ DepthIn(p, n + 1) > DepthIn(p, m)
<1>1. CASE m = n
  <2>1. m \in 1 .. (n + 1) - 1 /\ m + 1 .. n + 1 = {n + 1} /\ m \notin 1 .. n - 1
    BY <1>1
  <2>2. p[n].op \in OpenOps => DepthIn(p, n + 1) > DepthIn(p, n)
    BY DepthNext
  <2> QED
    BY <1>1, <2>1, <2>2 DEF Inside
<1>2. CASE m # n
  <2>1. m \in 1 .. (n + 1) - 1 <=> m \in 1 .. n - 1
    BY <1>2
  <2> SUFFICES ASSUME m \in 1 .. n - 1
               PROVE  Inside(p, m, n + 1) <=> Inside(p, m, n) /\ DepthIn(p, n + 1) > DepthIn(p, m)
    BY <1>2, <2>1 DEF Inside
  <2>2. m + 1 .. n + 1 = (m + 1 .. n) \cup {n + 1}
    OBVIOUS
  <2> QED
    BY <2>1, <2>2 DEF Inside
<1> QED
  BY <1>1, <1>2

\* The beginning of a sequence.
LEMMA Beginning ==
  ASSUME NEW S, NEW s \in Seq(S), NEW k \in 0 .. Len(s)
  PROVE  /\ SubSeq(s, 1, k) \in Seq(S) /\ Len(SubSeq(s, 1, k)) = k
         /\ \A i \in 1 .. k : SubSeq(s, 1, k)[i] = s[i]
OBVIOUS

\* All but the last element.
LEMMA FrontOf ==
  ASSUME NEW S, NEW s \in Seq(S), s # <<>>
  PROVE  /\ Front(s) \in Seq(S) /\ Len(s) \in Nat \ {0} /\ Len(Front(s)) = Len(s) - 1
         /\ \A i \in 1 .. Len(s) - 1 : Front(s)[i] = s[i]
<1>1. Len(s) \in Nat \ {0}
  OBVIOUS
<1>2. Len(s) - 1 \in 0 .. Len(s)
  BY <1>1
<1> QED
  BY <1>1, <1>2, Beginning DEF Front

\* Items further in come later.
LEMMA ChainIncreasing ==
  ASSUME NEW p, NEW n \in Nat \ {0}, NEW st, Chain(p, st, n),
         NEW j \in 1 .. Len(st), NEW k \in 1 .. Len(st), j < k
  PROVE  st[j] < st[k]
<1>1. /\ Inside(p, st[j], n) /\ DepthIn(p, st[j]) = j - 1
      /\ Inside(p, st[k], n) /\ DepthIn(p, st[k]) = k - 1
  BY DEF Chain
<1>2. Len(st) \in Nat /\ st[j] \in 1 .. n - 1 /\ st[k] \in 1 .. n - 1
  BY <1>1 DEF Chain, Inside
<1>3. CASE st[k] < st[j]
  <2>1. st[j] \in st[k] + 1 .. n
    BY <1>2, <1>3
  <2>2. DepthIn(p, st[j]) > DepthIn(p, st[k])
    BY <1>1, <2>1 DEF Inside
  <2> QED
    BY <1>1, <1>2, <2>2
<1>4. CASE st[k] = st[j]
  BY <1>1, <1>2, <1>4
<1> QED
  BY <1>2, <1>3, <1>4

\* The open items, one item further.
LEMMA ChainNext ==
  ASSUME NEW p, NEW n \in Nat \ {0}, NEW st, Chain(p, st, n)
  PROVE  /\ p[n].op \in OpenOps => Chain(p, Append(st, n), n + 1)
         /\ p[n].op = "end" /\ st # <<>> => Chain(p, Front(st), n + 1)
         /\ p[n].op \notin OpenOps \cup {"end"} => Chain(p, st, n + 1)
<1> DEFINE L == Len(st)
<1>1. /\ st \in Seq(1 .. n - 1) /\ L \in Nat /\ DepthIn(p, n) = L
      /\ \A k \in 1 .. L : Inside(p, st[k], n) /\ DepthIn(p, st[k]) = k - 1 /\ st[k] \in 1 .. n - 1
      /\ \A m : Inside(p, m, n) => \E k \in 1 .. L : m = st[k]
  BY DEF Chain
<1>2. /\ p[n].op \in OpenOps => DepthIn(p, n + 1) = L + 1
      /\ p[n].op = "end" => DepthIn(p, n + 1) = L - 1
      /\ p[n].op \notin OpenOps \cup {"end"} => DepthIn(p, n + 1) = L
  BY <1>1, DepthNext
<1>3. \A m : Inside(p, m, n + 1) <=>
               \/ m = n /\ p[n].op \in OpenOps
               \/ Inside(p, m, n) /\ DepthIn(p, n + 1) > DepthIn(p, m)
  BY InsideNext
<1>4. (n + 1) - 1 = n /\ n \in 1 .. n /\ 1 .. n - 1 \subseteq 1 .. n
  OBVIOUS
<1>5. st \in Seq(1 .. n)
  BY <1>1, <1>4, SeqMonotonic
<1>e. "end" \notin OpenOps
  BY DEF OpenOps
<1>6. ASSUME p[n].op \in OpenOps PROVE Chain(p, Append(st, n), n + 1)
  <2>1. PICK t : t = Append(st, n)
    OBVIOUS
  <2>2. /\ t \in Seq(1 .. n) /\ Len(t) = L + 1 /\ t[L + 1] = n
        /\ \A k \in 1 .. L : t[k] = st[k]
    BY <1>4, <1>5, <2>1, AppendProperties
  <2>3. ASSUME NEW k \in 1 .. L + 1 PROVE Inside(p, t[k], n + 1) /\ DepthIn(p, t[k]) = k - 1
    <3>1. CASE k = L + 1
      BY <1>1, <1>3, <1>6, <2>2, <3>1
    <3>2. CASE k # L + 1
      <4>1. k \in 1 .. L /\ DepthIn(p, st[k]) = k - 1 /\ Inside(p, st[k], n)
        BY <1>1, <3>2
      <4> QED
        BY <1>1, <1>2, <1>3, <1>6, <2>2, <4>1
    <3> QED
      BY <3>1, <3>2
  <2>4. ASSUME NEW m, Inside(p, m, n + 1) PROVE \E k \in 1 .. L + 1 : m = t[k]
    <3>1. CASE m = n
      BY <1>1, <2>2, <3>1, SMTT(30)
    <3>2. CASE m # n
      <4>1. PICK k \in 1 .. L : m = st[k]
        BY <1>1, <1>3, <2>4, <3>2
      <4>2. k \in 1 .. L + 1
        BY <1>1, <4>1
      <4> QED
        BY <2>2, <4>1, <4>2
    <3> QED
      BY <3>1, <3>2
  <2>5. Chain(p, t, n + 1)
    BY <1>2, <1>4, <1>6, <2>2, <2>3, <2>4 DEF Chain
  <2> QED
    BY <2>1, <2>5
<1>7. ASSUME p[n].op = "end", st # <<>> PROVE Chain(p, Front(st), n + 1)
  <2>1. PICK t : t = Front(st)
    OBVIOUS
  <2>2. L # 0
    BY <1>1, <1>7
  <2>3. /\ t \in Seq(1 .. n) /\ Len(t) = L - 1
        /\ \A k \in 1 .. L - 1 : t[k] = st[k]
    BY <1>5, <1>7, <2>1, FrontOf
  <2>4. ASSUME NEW k \in 1 .. L - 1 PROVE Inside(p, t[k], n + 1) /\ DepthIn(p, t[k]) = k - 1
    <3>1. k \in 1 .. L /\ DepthIn(p, st[k]) = k - 1 /\ Inside(p, st[k], n)
      BY <1>1
    <3> QED
      BY <1>1, <1>2, <1>3, <1>7, <2>3, <3>1
  <2>5. ASSUME NEW m, Inside(p, m, n + 1) PROVE \E k \in 1 .. L - 1 : m = t[k]
    <3>1. PICK k \in 1 .. L : m = st[k]
      BY <1>1, <1>3, <1>7, <2>5, <1>e
    <3>2. DepthIn(p, m) = k - 1 /\ DepthIn(p, n + 1) > DepthIn(p, m)
      BY <1>1, <1>3, <1>7, <2>5, <1>e, <3>1
    <3>3. k \in 1 .. L - 1
      BY <1>1, <1>2, <1>7, <3>2
    <3> QED
      BY <2>3, <3>1, <3>3
  <2>6. Chain(p, t, n + 1)
    <3>1. L - 1 = Len(t) /\ DepthIn(p, n + 1) = Len(t)
      BY <1>1, <1>2, <1>7, <2>3
    <3> QED
      BY <1>4, <2>3, <2>4, <2>5, <3>1 DEF Chain
  <2> QED
    BY <2>1, <2>6
<1>8. ASSUME p[n].op \notin OpenOps \cup {"end"} PROVE Chain(p, st, n + 1)
  <2>1. \A k \in 1 .. L : Inside(p, st[k], n + 1) /\ DepthIn(p, st[k]) = k - 1
    BY <1>1, <1>2, <1>3, <1>8
  <2>2. \A m : Inside(p, m, n + 1) => \E k \in 1 .. L : m = st[k]
    BY <1>1, <1>3, <1>8
  <2> QED
    BY <1>2, <1>4, <1>5, <1>8, <2>1, <2>2 DEF Chain
<1> QED
  BY <1>6, <1>7, <1>8

\* The innermost open item is the parent of the next one.
LEMMA ChainParent ==
  ASSUME NEW p, NEW n \in Nat \ {0}, NEW st, Chain(p, st, n), NEW q
  PROVE  ParentIs(p, n, q) <=> q = Outer(st, Len(st) + 1)
<1>1. /\ Len(st) \in Nat /\ DepthIn(p, n) = Len(st)
      /\ \A k \in 1 .. Len(st) : Inside(p, st[k], n) /\ DepthIn(p, st[k]) = k - 1
      /\ \A m : Inside(p, m, n) => \E k \in 1 .. Len(st) : m = st[k]
  BY DEF Chain
<1>2. CASE Len(st) = 0
  BY <1>1, <1>2 DEF ParentIs, Outer
<1>3. CASE Len(st) # 0
  <2>1. Len(st) \in 1 .. Len(st) /\ Outer(st, Len(st) + 1) = st[Len(st)]
    BY <1>1, <1>3 DEF Outer
  <2>2. ASSUME ParentIs(p, n, q) PROVE q = st[Len(st)]
    <3>1. Inside(p, q, n) /\ DepthIn(p, q) = DepthIn(p, n) - 1
      BY <1>1, <1>3, <2>2 DEF ParentIs
    <3>2. PICK k \in 1 .. Len(st) : q = st[k]
      BY <1>1, <3>1
    <3>3. k = Len(st)
      BY <1>1, <3>1, <3>2
    <3> QED
      BY <3>2, <3>3
  <2>3. ParentIs(p, n, st[Len(st)])
    BY <1>1, <2>1 DEF ParentIs
  <2> QED
    BY <2>1, <2>2, <2>3
<1> QED
  BY <1>2, <1>3

\* p2 has item e after those of p; for these nothing changes.
Longer(p, p2, e, L) ==
  /\ L = Len(p) /\ L \in Nat /\ p2 \in Seq(Item) /\ Len(p2) = L + 1
  /\ \A m \in 1 .. L : p2[m] = p[m]
  /\ p2[L + 1] = e
  /\ \A n \in 1 .. L + 1 : DepthIn(p2, n) = DepthIn(p, n)
  /\ \A n \in 1 .. L + 1 : \A m : Inside(p2, m, n) <=> Inside(p, m, n)
  /\ \A n \in 1 .. L + 1 : \A q : ParentIs(p2, n, q) <=> ParentIs(p, n, q)
  /\ \A n \in 1 .. L + 1 : \A st : Chain(p, st, n) => Chain(p2, st, n)
  /\ \A n \in 1 .. L : Repeats(p2, n) <=> Repeats(p, n)
  /\ \A m \in 1 .. L : \A x, q : InBlock(p2, m, x, q) <=> InBlock(p, m, x, q)
  /\ \A m \in 1 .. L : SymbolOf(p2, m) = SymbolOf(p, m)

\* One more item changes nothing for the items before it.
LEMMA ItemAppended ==
  ASSUME NEW p \in Seq(Item), NEW e \in Item
  PROVE  Longer(p, Append(p, e), e, Len(p))
<1> DEFINE L == Len(p)
<1> HIDE DEF L
<1>0. PICK p2 : p2 = Append(p, e)
  OBVIOUS
<1>1. /\ L \in Nat /\ p2 \in Seq(Item) /\ Len(p2) = L + 1
      /\ \A m \in 1 .. L : p2[m] = p[m]
      /\ p2[L + 1] = e
  BY <1>0, AppendProperties DEF L
<1>2. ASSUME NEW n \in 1 .. L + 1 PROVE DepthIn(p2, n) = DepthIn(p, n)
  <2>1. \A m \in 1 .. n - 1 : p2[m] = p[m]
    BY <1>1
  <2> QED
    BY <2>1, DepthPrefix
<1>3. ASSUME NEW n \in 1 .. L + 1, NEW m PROVE Inside(p2, m, n) <=> Inside(p, m, n)
  <2> SUFFICES ASSUME m \in 1 .. n - 1 PROVE Inside(p2, m, n) <=> Inside(p, m, n)
    BY DEF Inside
  <2>1. m \in 1 .. L /\ m \in 1 .. L + 1 /\ \A j \in m + 1 .. n : j \in 1 .. L + 1
    BY <1>1
  <2>2. p2[m] = p[m] /\ DepthIn(p2, m) = DepthIn(p, m)
    BY <1>1, <1>2, <2>1
  <2>3. \A j \in m + 1 .. n : DepthIn(p2, j) = DepthIn(p, j)
    BY <1>2, <2>1
  <2> QED
    BY <2>2, <2>3 DEF Inside
<1>4. ASSUME NEW n \in 1 .. L + 1, NEW m, Inside(p, m, n)
      PROVE  m \in 1 .. L /\ DepthIn(p2, m) = DepthIn(p, m)
  <2>1. m \in 1 .. L /\ m \in 1 .. L + 1
    BY <1>1, <1>4 DEF Inside
  <2> QED
    BY <1>2, <2>1
<1>5. ASSUME NEW n \in 1 .. L + 1, NEW q PROVE ParentIs(p2, n, q) <=> ParentIs(p, n, q)
  BY <1>2, <1>3, <1>4 DEF ParentIs
<1>6. ASSUME NEW n \in 1 .. L + 1, NEW st, Chain(p, st, n) PROVE Chain(p2, st, n)
  <2>1. \A k \in 1 .. Len(st) : Inside(p2, st[k], n) /\ DepthIn(p2, st[k]) = k - 1
    BY <1>3, <1>4, <1>6 DEF Chain
  <2> QED
    BY <1>2, <1>3, <1>6, <2>1 DEF Chain
<1>7. \A m \in 1 .. L : m \in 1 .. L + 1
  BY <1>1
<1>8. ASSUME NEW m \in 1 .. L, NEW x, NEW q PROVE InBlock(p2, m, x, q) <=> InBlock(p, m, x, q)
  BY <1>1, <1>5, <1>7 DEF InBlock
<1>9. ASSUME NEW n \in 1 .. L PROVE Repeats(p2, n) <=> Repeats(p, n)
  <2>1. \A m \in 1 .. n - 1 : m \in 1 .. L
    BY <1>1
  <2>2. ASSUME NEW m \in 1 .. n - 1 PROVE Twins(p2, m, n) <=> Twins(p, m, n)
    <3>1. m \in 1 .. L /\ p2[m] = p[m] /\ p2[n] = p[n]
      BY <1>1, <2>1
    <3>2. \A q : ParentIs(p2, m, q) <=> ParentIs(p, m, q)
      BY <1>5, <1>7, <3>1
    <3>3. \A q : ParentIs(p2, n, q) <=> ParentIs(p, n, q)
      BY <1>5, <1>7
    <3> QED
      BY <3>1, <3>2, <3>3 DEF Twins
  <2> QED
    BY <2>2 DEF Repeats
<1>10. ASSUME NEW m \in 1 .. L PROVE SymbolOf(p2, m) = SymbolOf(p, m)
  BY <1>1 DEF SymbolOf
<1> QED
  BY <1>0, <1>1, <1>2, <1>3, <1>5, <1>6, <1>8, <1>9, <1>10 DEF Longer, L

\* Items are appended where the grammar allows them.
LEMMA NestedAppended ==
  ASSUME NEW p, WellNested(p), NEW st, Chain(p, st, Len(p) + 1),
         NEW e \in Item, e.op \in IF st = <<>> THEN TopOps ELSE BodyOps,
         e.op \in UpdateOps => st # <<>> /\ p[st[Len(st)]].op = "for"
  PROVE  WellNested(Append(p, e))
<1>1. PICK p2 : p2 = Append(p, e)
  OBVIOUS
<1>2. PICK L : L = Len(p)
  OBVIOUS
<1>3. p \in Seq(Item)
  BY DEF WellNested
<1>4. /\ L \in Nat /\ p2 \in Seq(Item) /\ Len(p2) = L + 1
      /\ \A m \in 1 .. L : p2[m] = p[m]
      /\ p2[L + 1] = e
      /\ \A n \in 1 .. L + 1 : DepthIn(p2, n) = DepthIn(p, n)
      /\ \A n \in 1 .. L + 1 : \A t : Chain(p, t, n) => Chain(p2, t, n)
      /\ \A n \in 1 .. L + 1 : \A q : ParentIs(p2, n, q) <=> ParentIs(p, n, q)
  <2>1. Longer(p, p2, e, L)
    BY <1>1, <1>2, <1>3, ItemAppended
  <2> QED
    BY <2>1 DEF Longer
<1>5. /\ L + 1 \in Nat \ {0} /\ L + 1 \in 1 .. L + 1
      /\ Chain(p2, st, L + 1)
  <2>1. L + 1 \in Nat \ {0} /\ L + 1 \in 1 .. L + 1
    BY <1>4
  <2>2. Chain(p, st, L + 1)
    BY <1>2
  <2> QED
    BY <1>4, <2>1, <2>2
<1>6. "end" \notin TopOps
  BY DEF TopOps
<1>7. \E t : Chain(p2, t, (L + 1) + 1)
  <2>1. /\ p2[L + 1].op \in OpenOps => Chain(p2, Append(st, L + 1), (L + 1) + 1)
        /\ p2[L + 1].op = "end" /\ st # <<>> => Chain(p2, Front(st), (L + 1) + 1)
        /\ p2[L + 1].op \notin OpenOps \cup {"end"} => Chain(p2, st, (L + 1) + 1)
    BY <1>5, ChainNext
  <2>2. p2[L + 1].op = "end" => st # <<>>
    BY <1>4, <1>6
  <2> QED
    BY <2>1, <2>2, Zenon
<1>8. ASSUME NEW n \in 1 .. Len(p2) + 1 PROVE \E t : Chain(p2, t, n)
  <2>1. CASE n \in 1 .. L + 1
    BY <1>2, <1>4, <2>1 DEF WellNested
  <2>2. CASE n \notin 1 .. L + 1
    <3>1. n = (L + 1) + 1
      BY <1>4, <2>2
    <3> QED
      BY <1>7, <3>1
  <2> QED
    BY <2>1, <2>2
<1>9. ASSUME NEW n \in DOMAIN p2
      PROVE  p2[n].op \in IF DepthIn(p2, n) = 0 THEN TopOps ELSE BodyOps
  <2>1. n \in 1 .. L + 1 /\ DOMAIN p = 1 .. L
    BY <1>2, <1>3, <1>4
  <2>2. CASE n = L + 1
    <3>1. st \in Seq(1 .. (L + 1) - 1) /\ DepthIn(p2, n) = Len(st)
      BY <1>5, <2>2 DEF Chain
    <3>2. st = <<>> <=> DepthIn(p2, n) = 0
      BY <3>1
    <3> QED
      BY <1>4, <2>2, <3>2
  <2>3. CASE n # L + 1
    <3>1. n \in 1 .. L
      BY <1>4, <2>1, <2>3
    <3> QED
      BY <1>4, <2>1, <3>1 DEF WellNested
  <2> QED
    BY <2>2, <2>3
<1>10. ASSUME NEW n \in DOMAIN p2, p2[n].op \in UpdateOps
       PROVE  \E q : ParentIs(p2, n, q) /\ p2[q].op = "for"
  <2>1. n \in 1 .. L + 1 /\ DOMAIN p = 1 .. L
    BY <1>2, <1>3, <1>4
  <2>2. CASE n = L + 1
    <3>1. st # <<>> /\ p[st[Len(st)]].op = "for" /\ st \in Seq(1 .. (L + 1) - 1)
      BY <1>4, <1>5, <1>10, <2>2 DEF Chain
    <3>2. Len(st) \in 1 .. Len(st) /\ Len(st) + 1 # 1 /\ (Len(st) + 1) - 1 = Len(st)
      BY <3>1
    <3>3. st[Len(st)] \in 1 .. L
      BY <1>4, <3>1, <3>2
    <3>4. ParentIs(p2, n, st[Len(st)])
      BY <1>5, <2>2, <3>2, ChainParent DEF Outer
    <3> QED
      BY <1>4, <3>1, <3>3, <3>4
  <2>3. CASE n # L + 1
    <3>1. n \in 1 .. L
      BY <1>4, <2>1, <2>3
    <3>2. PICK q : ParentIs(p, n, q) /\ p[q].op = "for"
      BY <1>4, <1>10, <2>1, <3>1 DEF WellNested
    <3>3. DepthIn(p, n) # 0
      <4>1. p[n].op \in UpdateOps /\ n \in DOMAIN p
        BY <1>4, <1>10, <2>1, <3>1
      <4> QED
        BY <4>1 DEF WellNested, TopOps, UpdateOps
    <3>4. q \in 1 .. L
      <4>1. q \in 1 .. n - 1
        BY <3>2, <3>3 DEF ParentIs, Inside
      <4> QED
        BY <1>4, <3>1, <4>1
    <3> QED
      BY <1>4, <2>1, <3>2, <3>4
  <2> QED
    BY <2>2, <2>3
<1> QED
  BY <1>1, <1>4, <1>8, <1>9, <1>10 DEF WellNested

\* The kinds of items and where they stand.
LEMMA ItemFields ==
  ASSUME NEW e \in Item
  PROVE  /\ e.op \in TopOps \cup BodyOps
         /\ e.name \in Names \cup {NoName} /\ e.with \in Names \cup {NoName}
         /\ e.op \in {"global", "extern", "func", "decl"} \cup UseOps => e.name \in Names
         /\ e.op = "for" /\ e.name = NoName => e.with = NoName
         /\ e.op \notin {"func", "decl", "for"} => e.with = NoName
         /\ UsedName(e) \in Names \cup {NoName}
         /\ e.op \in UseOps => UsedName(e) = e.name
         /\ e.op \in {"decl", "for"} => UsedName(e) = e.with
         /\ e.op \notin UseOps \cup {"decl", "for"} => UsedName(e) = NoName
         /\ UsedName(e) # NoName => e.op \in UseOps \cup {"decl", "for"}
         /\ e.op \in {"global", "extern", "func", "block", "end"} => UsedName(e) = NoName
<1>1. /\ e.op \in TopOps \cup BodyOps
      /\ e.name \in Names \cup {NoName} /\ e.with \in Names \cup {NoName}
      /\ e.op \in {"global", "extern", "func", "decl"} \cup UseOps => e.name \in Names
      /\ e.op = "for" /\ e.name = NoName => e.with = NoName
      /\ e.op \notin {"func", "decl", "for"} => e.with = NoName
  BY WithNamesAssumption, NoNameAssumption DEF Item, TopOps, BodyOps, UseOps, ReadOps, WriteOps, CallOps
<1>2. /\ e.op \in UseOps => UsedName(e) = e.name
      /\ e.op \in {"decl", "for"} => UsedName(e) = e.with
      /\ e.op \notin UseOps \cup {"decl", "for"} => UsedName(e) = NoName
  <2>1. "decl" \notin UseOps /\ "for" \notin UseOps
    BY DEF UseOps, ReadOps, WriteOps, CallOps
  <2> QED
    BY <2>1 DEF UsedName
<1>3. \A o \in {"global", "extern", "func", "block", "end"} : o \notin UseOps \cup {"decl", "for"}
  BY DEF UseOps, ReadOps, WriteOps, CallOps
<1> QED
  BY <1>1, <1>2, <1>3

\* The item that closes what item n opens.
ClosesIn(p, n) ==
  Min({m \in n + 1 .. Len(p) : p[m].op = "end" /\ DepthIn(p, m) = DepthIn(p, n) + 1})

\* What item m opens is closed before n exactly when n is not inside
\* it, provided it is closed at all: the end of the program is not deeper than m.
LEMMA ClosedBefore ==
  ASSUME NEW p \in Seq(Item), NEW m \in DOMAIN p, p[m].op \in OpenOps,
         DepthIn(p, Len(p) + 1) <= DepthIn(p, m)
  PROVE  /\ ClosesIn(p, m) \in m + 1 .. Len(p)
         /\ p[ClosesIn(p, m)].op = "end"
         /\ DepthIn(p, ClosesIn(p, m) + 1) = DepthIn(p, m)
         /\ \A j \in m + 1 .. ClosesIn(p, m) : DepthIn(p, j) > DepthIn(p, m)
         /\ \A n \in m + 1 .. Len(p) + 1 : Inside(p, m, n) <=> ~(ClosesIn(p, m) < n)
<1> DEFINE D(k) == DepthIn(p, k)
           S == {c \in m + 1 .. Len(p) : p[c].op = "end" /\ D(c) = D(m) + 1}
           L == Len(p)
<1>1. m \in 1 .. L /\ L \in Nat /\ m \in Nat \ {0}
  OBVIOUS
<1>2. \A k \in 1 .. L + 1 : D(k) \in Int
  BY <1>1, DepthNext
<1>3. D(m + 1) = D(m) + 1
  BY <1>1, DepthNext
<1>4. \A c \in S : D(c + 1) = D(m)
  BY <1>1, <1>2, DepthNext
<1> HIDE DEF D, L
<1>5. ASSUME NEW n \in m + 1 .. L + 1, D(n) <= D(m)
      PROVE  \E c \in S : /\ c < n
                          /\ \A j \in m + 1 .. c : D(j) > D(m)
  <2> DEFINE T == {j \in m + 1 .. n : D(j) <= D(m)}
  <2>1. T \subseteq Nat /\ n \in T
    BY <1>1, <1>5
  <2>2. PICK j \in T : \A i \in T : j <= i
    <3> HIDE DEF T
    <3> QED
      BY <2>1, LeastElement
  <2>3. j # m + 1
    BY <1>1, <1>2, <1>3, <2>2
  <2>4. j - 1 \in m + 1 .. n /\ j - 1 < j /\ j - 1 \in 1 .. L /\ j - 1 \in Nat \ {0} /\ (j - 1) + 1 = j
    BY <1>1, <2>2, <2>3
  <2>5. \A i \in m + 1 .. j - 1 : D(i) > D(m)
    BY <1>1, <1>2, <2>2
  <2>6. /\ p[j - 1].op \in OpenOps => D(j) = D(j - 1) + 1
        /\ p[j - 1].op = "end" => D(j) = D(j - 1) - 1
        /\ p[j - 1].op \notin OpenOps \cup {"end"} => D(j) = D(j - 1)
    BY <2>4, DepthNext, ZenonT(40) DEF D
  <2>7. D(j - 1) \in Int /\ D(m) \in Int /\ D(j) \in Int /\ D(j) <= D(m) /\ D(j - 1) > D(m)
    BY <1>1, <1>2, <2>2, <2>4, <2>5
  <2>8. p[j - 1].op = "end" /\ D(j - 1) = D(m) + 1
    BY <2>6, <2>7
  <2>9. j - 1 \in S /\ j - 1 < n
    BY <1>1, <2>2, <2>4, <2>8 DEF L
  <2> QED
    BY <2>5, <2>9
<1>6. S \subseteq Nat /\ S # {}
  <2>1. L + 1 \in m + 1 .. L + 1 /\ D(L + 1) <= D(m)
    BY <1>1 DEF L, D
  <2> QED
    BY <1>1, <1>5, <2>1 DEF L
<1>7. ClosesIn(p, m) = Min(S)
  BY DEF ClosesIn, D
<1>8. ClosesIn(p, m) \in S /\ \A c \in S : ClosesIn(p, m) <= c
  <2> HIDE DEF S
  <2> QED
    BY <1>6, <1>7, LeastElement
<1>9. \A j \in m + 1 .. ClosesIn(p, m) : D(j) > D(m)
  <2> SUFFICES ASSUME NEW j \in m + 1 .. ClosesIn(p, m), ~(D(j) > D(m)) PROVE FALSE
    OBVIOUS
  <2>1. j \in m + 1 .. L + 1 /\ D(j) <= D(m)
    BY <1>1, <1>2, <1>8 DEF L
  <2>2. PICK c \in S : c < j
    BY <1>5, <2>1
  <2> QED
    BY <1>1, <1>6, <1>8, <2>2
<1>10. ASSUME NEW n \in m + 1 .. L + 1
       PROVE  Inside(p, m, n) <=> ~(ClosesIn(p, m) < n)
  <2>1. m \in 1 .. n - 1
    BY <1>1
  <2>2. ASSUME ~(ClosesIn(p, m) < n) PROVE Inside(p, m, n)
    <3>1. \A j \in m + 1 .. n : j \in m + 1 .. ClosesIn(p, m)
      BY <1>1, <1>6, <1>8, <2>2
    <3> QED
      BY <1>9, <2>1, <3>1 DEF Inside, D
  <2>3. ASSUME ClosesIn(p, m) < n, Inside(p, m, n) PROVE FALSE
    <3>1. ClosesIn(p, m) + 1 \in m + 1 .. n
      BY <1>1, <1>6, <1>8, <2>3
    <3>2. D(ClosesIn(p, m) + 1) = D(m) /\ D(m) \in Int
      BY <1>1, <1>2, <1>4, <1>8, SMTT(30)
    <3> QED
      BY <2>3, <3>1, <3>2 DEF Inside, D
  <2> QED
    BY <2>2, <2>3
<1> QED
  BY <1>4, <1>8, <1>9, <1>10 DEF L, D

\* In a whole program, everything is closed.
LEMMA OpenIsClosed ==
  ASSUME NEW p, WellNested(p), Complete(p), NEW m \in DOMAIN p, p[m].op \in OpenOps
  PROVE  /\ ClosesIn(p, m) \in m + 1 .. Len(p)
         /\ p[ClosesIn(p, m)].op = "end"
         /\ DepthIn(p, ClosesIn(p, m) + 1) = DepthIn(p, m)
         /\ \A j \in m + 1 .. ClosesIn(p, m) : DepthIn(p, j) > DepthIn(p, m)
         /\ \A n \in m + 1 .. Len(p) + 1 : Inside(p, m, n) <=> ~(ClosesIn(p, m) < n)
<1>1. p \in Seq(Item) /\ m \in 1 .. Len(p) + 1
  BY DEF WellNested
<1>2. PICK st : Chain(p, st, m)
  BY <1>1 DEF WellNested
<1>3. st \in Seq(1 .. m - 1) /\ DepthIn(p, m) = Len(st)
  BY <1>2 DEF Chain
<1>4. DepthIn(p, m) \in Nat
  BY <1>3
<1>5. DepthIn(p, Len(p) + 1) <= DepthIn(p, m)
  BY <1>4 DEF Complete
<1> QED
  BY <1>1, <1>5, ClosedBefore

\* Encloses in terms of depths.
LEMMA EnclosesIsInside ==
  ASSUME WellNested(program), Complete(program),
         NEW n \in DOMAIN program, program[n].op # "end", NEW m \in 1 .. n - 1
  PROVE  Encloses(m, n) <=> Inside(program, m, n)
<1>1. CASE program[m].op \notin OpenOps
  BY <1>1 DEF Encloses, Inside
<1>2. CASE program[m].op \in OpenOps
  <2>1. program \in Seq(Item) /\ Len(program) \in Nat /\ n \in 1 .. Len(program)
    BY DEF WellNested
  <2>2. m \in DOMAIN program /\ m \in Nat /\ n \in m + 1 .. Len(program) + 1 /\ m < n
    BY <2>1
  <2>3. Closes(m) = ClosesIn(program, m)
    BY DEF Closes, ClosesIn, Depth, DepthIn
  <2>4. /\ ClosesIn(program, m) \in m + 1 .. Len(program)
        /\ program[ClosesIn(program, m)].op = "end"
        /\ Inside(program, m, n) <=> ~(ClosesIn(program, m) < n)
    BY <1>2, <2>2, OpenIsClosed
  <2>5. n # ClosesIn(program, m)
    BY <2>4
  <2>6. n < ClosesIn(program, m) <=> ~(ClosesIn(program, m) < n)
    BY <2>1, <2>2, <2>4, <2>5
  <2> QED
    BY <1>2, <2>2, <2>3, <2>4, <2>6 DEF Encloses
<1> QED
  BY <1>1, <1>2

\* Every item has one parent.
LEMMA ParentExists ==
  ASSUME NEW p, WellNested(p), NEW n \in 1 .. Len(p) + 1
  PROVE  /\ \E q : ParentIs(p, n, q)
         /\ \A q, r : ParentIs(p, n, q) /\ ParentIs(p, n, r) => q = r
<1>1. PICK st : Chain(p, st, n)
  BY DEF WellNested
<1>2. n \in Nat \ {0}
  BY DEF WellNested
<1>3. \A q : ParentIs(p, n, q) <=> q = Outer(st, Len(st) + 1)
  BY <1>1, <1>2, ChainParent
<1> QED
  BY <1>3

\* Around in terms of depths.
LEMMA AroundIsInside ==
  ASSUME WellNested(program), Complete(program),
         NEW n \in DOMAIN program, program[n].op # "end", NEW ops \in SUBSET OpenOps
  PROVE  /\ \A h : AroundIs(program, n, ops, h) => Around(n, ops) = h
         /\ Around(n, ops) # 0 => AroundIs(program, n, ops, Around(n, ops))
         /\ Around(n, ops) \in 0 .. n - 1
         /\ \A r : Inside(program, r, n) /\ program[r].op \in ops => r <= Around(n, ops)
<1> DEFINE S == {m \in 1 .. n - 1 : program[m].op \in ops /\ Encloses(m, n)}
<1>1. n \in Nat \ {0} /\ n - 1 \in Nat
  BY DEF WellNested
<1>2. {0} \cup S \in SUBSET (0 .. n - 1) /\ {0} \cup S # {}
  BY <1>1
<1>3. Around(n, ops) = Max({0} \cup S)
  BY DEF Around
<1>4. \A m \in 1 .. n - 1 : Encloses(m, n) <=> Inside(program, m, n)
  BY EnclosesIsInside
<1>5. \A m : m \in S <=> program[m].op \in ops /\ Inside(program, m, n)
  <2>1. \A m : Inside(program, m, n) => m \in 1 .. n - 1
    BY DEF Inside
  <2> QED
    BY <1>4, <2>1
<1> HIDE DEF S
<1>6. /\ Around(n, ops) \in {0} \cup S
      /\ \A y \in {0} \cup S : y <= Around(n, ops)
  BY <1>1, <1>2, <1>3, GreatestElement
<1>7. ASSUME NEW h, AroundIs(program, n, ops, h) PROVE Around(n, ops) = h
  <2>1. h \in S /\ \A r \in S : r <= h
    BY <1>5, <1>7 DEF AroundIs
  <2>2. h <= Around(n, ops) /\ Around(n, ops) \in 0 .. n - 1 /\ h \in 1 .. n - 1
    BY <1>2, <1>6, <2>1, <1>5 DEF Inside
  <2>3. Around(n, ops) # 0
    BY <1>1, <2>2
  <2>4. Around(n, ops) <= h
    BY <1>6, <2>1, <2>3
  <2> QED
    BY <1>1, <2>2, <2>4
<1>8. ASSUME Around(n, ops) # 0 PROVE AroundIs(program, n, ops, Around(n, ops))
  BY <1>5, <1>6, <1>8 DEF AroundIs
<1> QED
  BY <1>2, <1>5, <1>6, <1>7, <1>8

\* Parent in terms of depths.
LEMMA ParentIsParent ==
  ASSUME WellNested(program), Complete(program),
         NEW n \in DOMAIN program, program[n].op # "end"
  PROVE  ParentIs(program, n, Parent(n))
<1>1. n \in 1 .. Len(program) + 1 /\ n \in Nat \ {0}
  BY DEF WellNested
<1>2. PICK st : Chain(program, st, n)
  BY <1>1 DEF WellNested
<1>3. /\ st \in Seq(1 .. n - 1) /\ Len(st) \in Nat
      /\ \A k \in 1 .. Len(st) : Inside(program, st[k], n)
      /\ \A m : Inside(program, m, n) => \E k \in 1 .. Len(st) : m = st[k]
  BY <1>2 DEF Chain
<1>4. \A m : Inside(program, m, n) => program[m].op \in OpenOps
  BY DEF Inside
<1>5. /\ \A h : AroundIs(program, n, OpenOps, h) => Parent(n) = h
      /\ Parent(n) # 0 => AroundIs(program, n, OpenOps, Parent(n))
  BY AroundIsInside DEF Parent
<1>6. CASE Len(st) = 0
  <2>1. Parent(n) = 0
    BY <1>3, <1>5, <1>6 DEF AroundIs
  <2>2. Outer(st, Len(st) + 1) = 0
    BY <1>6 DEF Outer
  <2> QED
    BY <1>1, <1>2, <2>1, <2>2, ChainParent
<1>7. CASE Len(st) # 0
  <2>1. Len(st) \in 1 .. Len(st) /\ Outer(st, Len(st) + 1) = st[Len(st)]
    BY <1>3, <1>7 DEF Outer
  <2>2. ASSUME NEW r, Inside(program, r, n) PROVE r <= st[Len(st)]
    <3>1. PICK k \in 1 .. Len(st) : r = st[k]
      BY <1>3, <2>2
    <3>2. st[k] \in Nat /\ st[Len(st)] \in Nat
      <4>1. \A i \in 1 .. Len(st) : st[i] \in 1 .. n - 1
        BY <1>3 DEF Inside
      <4>2. \A i \in 1 .. n - 1 : i \in Nat
        BY <1>1
      <4> QED
        BY <2>1, <3>1, <4>1, <4>2
    <3>3. CASE k = Len(st)
      BY <3>1, <3>2, <3>3
    <3>4. CASE k # Len(st)
      <4>1. st[k] < st[Len(st)]
        BY <1>1, <1>2, <1>3, <2>1, <3>4, ChainIncreasing
      <4> QED
        BY <3>1, <3>2, <4>1
    <3> QED
      BY <3>3, <3>4
  <2>3. AroundIs(program, n, OpenOps, st[Len(st)])
    BY <1>3, <1>4, <2>1, <2>2 DEF AroundIs
  <2>4. Parent(n) = Outer(st, Len(st) + 1)
    BY <1>5, <2>1, <2>3
  <2> QED
    BY <1>1, <1>2, <2>4, ChainParent
<1> QED
  BY <1>6, <1>7

-----------------------------------------------------------------------------
(* What one item changes about where a walk is *)

Walks == {"collect", "validate", "lower"}

\* How many scopes the walks enter.
LEMMA Widths ==
  /\ Width("collect", "func") = 2 /\ Width("collect", "block") = 1 /\ Width("collect", "for") = 1
  /\ Width("validate", "func") = 2 /\ Width("validate", "block") = 1 /\ Width("validate", "for") = 2
  /\ Width("lower", "func") = 1 /\ Width("lower", "block") = 0 /\ Width("lower", "for") = 1
  /\ \A ph \in Walks, o \in OpenOps : Width(ph, o) \in Nat
<1>1. /\ Width("collect", "func") = 2 /\ Width("collect", "block") = 1 /\ Width("collect", "for") = 1
      /\ Width("validate", "func") = 2 /\ Width("validate", "block") = 1 /\ Width("validate", "for") = 2
      /\ Width("lower", "func") = 1 /\ Width("lower", "block") = 0 /\ Width("lower", "for") = 1
  BY DEF Width, ScopesOf
<1> QED
  BY <1>1 DEF Walks, OpenOps

Fit(p, st, base, n, op, sc) ==
  /\ Len(st) \in Nat /\ Len(op) = Len(st) /\ Len(base) = Len(st) + 1
  /\ st \in Seq(1 .. n - 1) /\ op \in Seq(OpenOps) /\ base \in Seq(Nat) /\ sc \in Seq(Scope)
  /\ Len(sc) = base[Len(st) + 1] /\ Len(sc) \in Nat \ {0} /\ sc # <<>>
  /\ \A k \in 1 .. Len(st) + 1 : base[k] \in 1 .. Len(sc)
  /\ (st = <<>> <=> op = <<>>) /\ (st = <<>> <=> Len(st) = 0)
  /\ \A k \in 1 .. Len(st) : st[k] \in 1 .. n - 1 /\ op[k] = p[st[k]].op /\ op[k] \in OpenOps

\* The sequences of a walk fit together.
LEMMA FramesFit ==
  ASSUME NEW p, NEW n \in Nat \ {0}, NEW st, NEW base, NEW op, NEW sc, NEW ph,
         Frames(p, st, base, n, op, sc, ph)
  PROVE  Fit(p, st, base, n, op, sc)
<1>1. /\ st \in Seq(1 .. n - 1)
      /\ op \in Seq(OpenOps) /\ Len(op) = Len(st)
      /\ \A k \in 1 .. Len(st) : op[k] = p[st[k]].op
      /\ base \in Seq(Nat) /\ Len(base) = Len(st) + 1 /\ base[1] = 1
      /\ \A j, k \in 1 .. Len(base) : j <= k => base[j] <= base[k]
      /\ sc \in Seq(Scope) /\ Len(sc) = base[Len(base)]
  BY DEF Frames, Chain
<1>2. Len(st) \in Nat
  BY <1>1
<1>3. \A k \in 1 .. Len(st) + 1 : base[k] \in Nat /\ 1 <= base[k] /\ base[k] <= Len(sc)
  <2> SUFFICES ASSUME NEW k \in 1 .. Len(st) + 1
               PROVE  base[k] \in Nat /\ 1 <= base[k] /\ base[k] <= Len(sc)
    OBVIOUS
  <2>1. 1 \in 1 .. Len(base) /\ k \in 1 .. Len(base) /\ Len(base) \in 1 .. Len(base)
        /\ 1 <= k /\ k <= Len(base)
    BY <1>1, <1>2
  <2>2. base[1] <= base[k] /\ base[k] <= base[Len(base)]
    BY <1>1, <2>1
  <2>3. base[k] \in Nat
    BY <1>1, <2>1, ElementOfSeq
  <2> QED
    BY <1>1, <2>2, <2>3
<1>4. Len(sc) \in Nat \ {0} /\ sc # <<>>
  <2>1. Len(st) + 1 \in 1 .. Len(st) + 1 /\ Len(sc) \in Nat
    BY <1>1, <1>2
  <2>2. 1 <= Len(sc)
    BY <1>1, <1>3, <2>1
  <2> QED
    BY <1>1, <2>1, <2>2
<1>5. \A k \in 1 .. Len(st) + 1 : base[k] \in 1 .. Len(sc)
  BY <1>3, <1>4
<1>6. \A k \in 1 .. Len(st) : st[k] \in 1 .. n - 1 /\ op[k] \in OpenOps
  BY <1>1, ElementOfSeq
<1>7. (st = <<>> <=> Len(st) = 0) /\ (op = <<>> <=> Len(op) = 0)
  BY <1>1
<1> QED
  BY <1>1, <1>2, <1>4, <1>5, <1>6, <1>7 DEF Fit

\* An item is opened.
LEMMA FramesOpen ==
  ASSUME NEW p, NEW n \in Nat \ {0}, NEW st, NEW base, NEW op, NEW sc, NEW ph \in Walks,
         Frames(p, st, base, n, op, sc, ph), p[n].op \in OpenOps,
         NEW sc2 \in Seq(Scope), Len(sc2) = Len(sc) + Width(ph, p[n].op)
  PROVE  Frames(p, Append(st, n), Append(base, Len(sc2)), n + 1, Append(op, p[n].op), sc2, ph)
<1> DEFINE L == Len(st)
<1>0. /\ L \in Nat /\ Len(op) = L /\ Len(base) = L + 1
      /\ st \in Seq(1 .. n - 1) /\ op \in Seq(OpenOps) /\ base \in Seq(Nat)
      /\ Len(sc) = base[L + 1] /\ Len(sc) \in Nat \ {0}
      /\ \A k \in 1 .. L + 1 : base[k] \in 1 .. Len(sc)
      /\ \A k \in 1 .. L : op[k] = p[st[k]].op
  BY FramesFit DEF Fit
<1>1. /\ Chain(p, st, n) /\ base[1] = 1
      /\ \A k \in 1 .. L : base[k + 1] = base[k] + Width(ph, op[k])
      /\ \A j, k \in 1 .. Len(base) : j <= k => base[j] <= base[k]
  BY DEF Frames
<1> HIDE DEF L
<1>2. Width(ph, p[n].op) \in Nat
  BY Widths
<1>3. Chain(p, Append(st, n), n + 1)
  BY <1>1, ChainNext
<1>4. PICK t : t = Append(st, n)
  OBVIOUS
<1>5. PICK b : b = Append(base, Len(sc2))
  OBVIOUS
<1>6. PICK o : o = Append(op, p[n].op)
  OBVIOUS
<1>7. Len(t) = L + 1 /\ t[L + 1] = n /\ \A k \in 1 .. L : t[k] = st[k]
  BY <1>0, <1>4, AppendProperties DEF L
<1>8. Len(sc2) \in Nat /\ Len(sc2) = base[L + 1] + Width(ph, p[n].op)
  BY <1>0, <1>2
<1>9. /\ b \in Seq(Nat) /\ Len(b) = L + 2 /\ b[L + 2] = Len(sc2)
      /\ \A k \in 1 .. L + 1 : b[k] = base[k]
  <2>1. b \in Seq(Nat) /\ Len(b) = (L + 1) + 1 /\ b[(L + 1) + 1] = Len(sc2)
        /\ \A k \in 1 .. L + 1 : b[k] = base[k]
    BY <1>0, <1>5, <1>8, AppendProperties
  <2>2. (L + 1) + 1 = L + 2
    BY <1>0
  <2> QED
    BY <2>1, <2>2
<1>10. /\ o \in Seq(OpenOps) /\ Len(o) = L + 1 /\ o[L + 1] = p[n].op
       /\ \A k \in 1 .. L : o[k] = op[k]
  BY <1>0, <1>6, AppendProperties
<1>11. \A k \in 1 .. L + 1 : o[k] = p[t[k]].op
  <2> SUFFICES ASSUME NEW k \in 1 .. L + 1 PROVE o[k] = p[t[k]].op
    OBVIOUS
  <2>1. CASE k = L + 1
    BY <1>7, <1>10, <2>1
  <2>2. CASE k # L + 1
    <3>1. k \in 1 .. L
      BY <1>0, <2>2
    <3> QED
      BY <1>0, <1>7, <1>10, <3>1
  <2> QED
    BY <2>1, <2>2
<1>12. \A k \in 1 .. L + 1 : b[k + 1] = b[k] + Width(ph, o[k])
  <2> SUFFICES ASSUME NEW k \in 1 .. L + 1 PROVE b[k + 1] = b[k] + Width(ph, o[k])
    OBVIOUS
  <2>1. CASE k = L + 1
    <3>1. k + 1 = L + 2
      BY <1>0, <2>1
    <3> QED
      BY <1>8, <1>9, <1>10, <2>1, <3>1
  <2>2. CASE k # L + 1
    <3>1. k \in 1 .. L /\ k + 1 \in 1 .. L + 1
      BY <1>0, <2>2
    <3> QED
      BY <1>1, <1>9, <1>10, <3>1 DEF L
  <2> QED
    BY <2>1, <2>2
<1>13. ASSUME NEW j \in 1 .. L + 2, NEW k \in 1 .. L + 2, j <= k PROVE b[j] <= b[k]
  <2>1. base[L + 1] <= Len(sc2)
    BY <1>0, <1>2, <1>8
  <2>2. ASSUME NEW i \in 1 .. L + 1 PROVE b[i] <= Len(sc2) /\ b[i] \in Nat
    <3>1. base[i] \in Nat /\ base[i] <= Len(sc)
      BY <1>0
    <3> QED
      BY <1>0, <1>2, <1>9, <3>1
  <2>3. CASE k = L + 2
    <3>1. CASE j = L + 2
      BY <1>8, <1>9, <2>3, <3>1
    <3>2. CASE j # L + 2
      <4>1. j \in 1 .. L + 1
        BY <1>0, <3>2
      <4> QED
        BY <1>9, <2>2, <2>3, <4>1
    <3> QED
      BY <3>1, <3>2
  <2>4. CASE k # L + 2
    <3>1. j \in 1 .. L + 1 /\ k \in 1 .. L + 1
      BY <1>0, <1>13, <2>4, SMTT(30)
    <3> QED
      BY <1>0, <1>1, <1>9, <1>13, <3>1
  <2> QED
    BY <2>3, <2>4
<1>14. b[1] = 1 /\ L + 2 = Len(t) + 1 /\ Len(b) = Len(t) + 1
  <2>1. 1 \in 1 .. L + 1 /\ L + 2 = (L + 1) + 1
    BY <1>0
  <2> QED
    BY <1>1, <1>7, <1>9, <2>1
<1>15. Frames(p, t, b, n + 1, o, sc2, ph)
  BY <1>3, <1>4, <1>7, <1>9, <1>10, <1>11, <1>12, <1>13, <1>14 DEF Frames
<1> QED
  BY <1>4, <1>5, <1>6, <1>15

\* Chain sc2 is chain sc without the scopes of the innermost open item.
Leaves(st, base, sc, sc2) ==
  /\ sc2 \in Seq(Scope) /\ Len(sc2) = base[Len(st)] /\ Len(sc2) <= Len(sc)
  /\ \A i \in 1 .. Len(sc2) : sc2[i] = sc[i]

\* An item is closed.
LEMMA FramesClose ==
  ASSUME NEW p, NEW n \in Nat \ {0}, NEW st, NEW base, NEW op, NEW sc, NEW ph \in Walks,
         Frames(p, st, base, n, op, sc, ph), p[n].op = "end", st # <<>>,
         NEW sc2, sc2 = SubSeq(sc, 1, Len(sc) - Width(ph, Last(op)))
  PROVE  /\ Frames(p, Front(st), Front(base), n + 1, Front(op), sc2, ph)
         /\ Leaves(st, base, sc, sc2)
<1> DEFINE L == Len(st)
<1>0. /\ L \in Nat \ {0} /\ Len(op) = L /\ Len(base) = L + 1
      /\ st \in Seq(1 .. n - 1) /\ op \in Seq(OpenOps) /\ base \in Seq(Nat) /\ sc \in Seq(Scope)
      /\ Len(sc) = base[L + 1] /\ Len(sc) \in Nat \ {0}
      /\ \A k \in 1 .. L + 1 : base[k] \in 1 .. Len(sc)
      /\ \A k \in 1 .. L : op[k] = p[st[k]].op
  <2>1. /\ L \in Nat /\ Len(op) = L /\ Len(base) = L + 1
        /\ st \in Seq(1 .. n - 1) /\ op \in Seq(OpenOps) /\ base \in Seq(Nat) /\ sc \in Seq(Scope)
        /\ Len(sc) = base[L + 1] /\ Len(sc) \in Nat \ {0}
        /\ \A k \in 1 .. L + 1 : base[k] \in 1 .. Len(sc)
        /\ \A k \in 1 .. L : op[k] = p[st[k]].op
        /\ (st = <<>> <=> L = 0)
    BY FramesFit DEF Fit
  <2> HIDE DEF L
  <2> QED
    BY <2>1
<1>1. /\ Chain(p, st, n) /\ base[1] = 1
      /\ \A k \in 1 .. L : base[k + 1] = base[k] + Width(ph, op[k])
      /\ \A j, k \in 1 .. Len(base) : j <= k => base[j] <= base[k]
  BY DEF Frames
<1>2. Chain(p, Front(st), n + 1)
  BY <1>1, ChainNext
<1>3. L \in 1 .. L /\ Last(op) = op[L] /\ L \in 1 .. L + 1
  BY <1>0 DEF Last
<1>4. base[L + 1] = base[L] + Width(ph, op[L])
  BY <1>1, <1>3
<1>5. op[L] \in OpenOps
  BY <1>0, <1>3, ElementOfSeq
<1>6. Width(ph, op[L]) \in Nat
  BY <1>5, Widths
<1>7. base[L] \in 1 .. Len(sc) /\ Len(sc) - Width(ph, Last(op)) = base[L]
  <2>1. base[L] \in 1 .. Len(sc)
    BY <1>0, <1>3
  <2> QED
    BY <1>0, <1>3, <1>4, <1>6, <2>1
<1>8. base[L] \in 0 .. Len(sc)
  BY <1>0, <1>7
<1>9. /\ sc2 \in Seq(Scope) /\ Len(sc2) = base[L]
      /\ \A i \in 1 .. base[L] : sc2[i] = sc[i]
  BY <1>0, <1>7, <1>8, Beginning
<1>10. PICK t : t = Front(st)
  OBVIOUS
<1>11. PICK b : b = Front(base)
  OBVIOUS
<1>12. PICK o : o = Front(op)
  OBVIOUS
<1>13. Len(t) = L - 1 /\ \A k \in 1 .. L - 1 : t[k] = st[k]
  BY <1>0, <1>10, FrontOf
<1>14. o \in Seq(OpenOps) /\ Len(o) = L - 1 /\ \A k \in 1 .. L - 1 : o[k] = op[k]
  <2>1. op # <<>>
    BY <1>0
  <2> QED
    BY <1>0, <1>12, <2>1, FrontOf
<1>15. b \in Seq(Nat) /\ Len(b) = L /\ \A k \in 1 .. L : b[k] = base[k]
  <2>1. base # <<>> /\ Len(base) - 1 = L
    BY <1>0
  <2> QED
    BY <1>0, <1>11, <2>1, FrontOf
<1>16. \A k \in 1 .. L - 1 : k \in 1 .. L /\ k + 1 \in 1 .. L
  BY <1>0
<1>17. \A k \in 1 .. L - 1 : o[k] = p[t[k]].op
  BY <1>0, <1>13, <1>14, <1>16
<1>18. \A k \in 1 .. L - 1 : b[k + 1] = b[k] + Width(ph, o[k])
  BY <1>1, <1>14, <1>15, <1>16
<1>19. \A j, k \in 1 .. L : j <= k => b[j] <= b[k]
  <2>1. \A j \in 1 .. L : j \in 1 .. Len(base)
    BY <1>0
  <2> QED
    BY <1>1, <1>15, <2>1
<1>20. b[1] = 1 /\ Len(b) = Len(t) + 1 /\ b[Len(b)] = base[L]
  <2>1. 1 \in 1 .. L /\ (L - 1) + 1 = L
    BY <1>0
  <2> QED
    BY <1>1, <1>3, <1>13, <1>15, <2>1
<1>21. Frames(p, t, b, n + 1, o, sc2, ph)
  <2>1. Chain(p, t, n + 1)
    BY <1>2, <1>10
  <2> HIDE DEF L
  <2> QED
    BY <2>1, <1>9, <1>13, <1>14, <1>15, <1>17, <1>18, <1>19, <1>20 DEF Frames
<1>22. Len(sc2) <= Len(sc) /\ Len(sc2) = base[Len(st)]
  BY <1>0, <1>7, <1>9
<1>23. Leaves(st, base, sc, sc2)
  BY <1>9, <1>22 DEF Leaves
<1> QED
  BY <1>10, <1>11, <1>12, <1>21, <1>23

\* Nothing is opened or closed.
LEMMA FramesStay ==
  ASSUME NEW p, NEW n \in Nat \ {0}, NEW st, NEW base, NEW op, NEW sc, NEW ph,
         Frames(p, st, base, n, op, sc, ph), p[n].op \notin OpenOps \cup {"end"},
         NEW sc2 \in Seq(Scope), Len(sc2) = Len(sc)
  PROVE  Frames(p, st, base, n + 1, op, sc2, ph)
<1>1. Chain(p, st, n + 1)
  BY ChainNext DEF Frames
<1> QED
  BY <1>1 DEF Frames

\* The program grows.
LEMMA FramesLonger ==
  ASSUME NEW p \in Seq(Item), NEW e \in Item, NEW p2, NEW L, Longer(p, p2, e, L),
         NEW st, NEW base, NEW op, NEW sc, NEW ph,
         Frames(p, st, base, L + 1, op, sc, ph)
  PROVE  Frames(p2, st, base, L + 1, op, sc, ph)
<1>1. L \in Nat /\ L + 1 \in 1 .. L + 1 /\ L + 1 \in Nat \ {0}
  BY DEF Longer
<1>2. Chain(p, st, L + 1)
  BY DEF Frames
<1>3. Chain(p2, st, L + 1)
  BY <1>1, <1>2 DEF Longer
<1>4. \A k \in 1 .. Len(st) : st[k] \in 1 .. L
  <2>1. \A k \in 1 .. Len(st) : st[k] \in 1 .. (L + 1) - 1
    BY <1>1, FramesFit DEF Fit
  <2> QED
    BY <1>1, <2>1
<1>5. \A k \in 1 .. Len(st) : op[k] = p2[st[k]].op
  BY <1>4 DEF Frames, Longer
<1> QED
  BY <1>3, <1>5 DEF Frames

-----------------------------------------------------------------------------
(* Symbols and scopes *)

\* Symbols of different items or kinds differ.
LEMMA Symbols ==
  /\ Undeclared \in Symbol /\ Undeclared.kind = "none"
  /\ \A n \in Nat : Variable(n) \in Symbol /\ Function(n) \in Symbol
  /\ \A n : Variable(n).kind = "variable" /\ Function(n).kind = "function"
  /\ \A n : Variable(n).at = n /\ Function(n).at = n
  /\ \A n : Variable(n) # Undeclared /\ Function(n) # Undeclared
  /\ \A m, n : Variable(m) # Function(n)
  /\ \A m, n : Variable(m) = Variable(n) => m = n
  /\ \A m, n : Function(m) = Function(n) => m = n
<1>1. /\ Undeclared \in Symbol /\ Undeclared.kind = "none"
      /\ \A n \in Nat : Variable(n) \in Symbol /\ Function(n) \in Symbol
  BY DEF Undeclared, Symbol, Variable, Function
<1>2. \A n : /\ Variable(n).kind = "variable" /\ Function(n).kind = "function"
             /\ Variable(n).at = n /\ Function(n).at = n
  BY DEF Variable, Function
<1>3. "none" # "variable" /\ "none" # "function" /\ "variable" # "function"
  OBVIOUS
<1> QED
  BY <1>1, <1>2, <1>3

\* The symbol of an item.
LEMMA SymbolOfItem ==
  ASSUME NEW p, NEW m \in Nat
  PROVE  /\ SymbolOf(p, m) \in Symbol /\ SymbolOf(p, m) # Undeclared
         /\ p[m].op \in {"func", "extern"} => SymbolOf(p, m) = Function(m)
         /\ p[m].op \notin {"func", "extern"} => SymbolOf(p, m) = Variable(m)
BY Symbols DEF SymbolOf

\* scopeDeclare changes one name of the current scope.
LEMMA DeclareIn ==
  ASSUME NEW s \in Seq(Scope), s # <<>>, NEW x \in Names, NEW symbol \in Symbol
  PROVE  /\ Declare(s, x, symbol) \in Seq(Scope)
         /\ Len(Declare(s, x, symbol)) = Len(s)
         /\ \A i \in 1 .. Len(s) : \A y \in Names :
              /\ ~(i = Len(s) /\ y = x) => Declare(s, x, symbol)[i][y] = s[i][y]
              /\ i = Len(s) /\ y = x /\ s[i][y] = Undeclared => Declare(s, x, symbol)[i][y] = symbol
              /\ i = Len(s) /\ y = x /\ s[i][y] # Undeclared => Declare(s, x, symbol)[i][y] = s[i][y]
<1>1. Len(s) \in Nat \ {0} /\ DOMAIN s = 1 .. Len(s)
  OBVIOUS
<1>2. PICK v : v = IF s[Len(s)][x] = Undeclared THEN symbol ELSE s[Len(s)][x]
  OBVIOUS
<1>3. Len(s) \in 1 .. Len(s) /\ \A i \in 1 .. Len(s) : s[i] \in Scope
  BY <1>1, ElementOfSeq
<1>4. s[Len(s)] \in [Names -> Symbol] /\ v \in Symbol
  BY <1>2, <1>3 DEF Scope
<1>5. PICK t : t = [s[Len(s)] EXCEPT ![x] = v]
  OBVIOUS
<1>6. t \in [Names -> Symbol] /\ t[x] = v /\ \A y \in Names : y # x => t[y] = s[Len(s)][y]
  BY <1>4, <1>5
<1>7. Declare(s, x, symbol) = [s EXCEPT ![Len(s)] = t]
  BY <1>2, <1>5 DEF Declare
<1>8. PICK d : d = [s EXCEPT ![Len(s)] = t]
  OBVIOUS
<1>9. /\ d \in Seq(Scope) /\ Len(d) = Len(s) /\ d[Len(s)] = t
      /\ \A i \in 1 .. Len(s) : i # Len(s) => d[i] = s[i]
  <2>1. t \in Scope
    BY <1>6 DEF Scope
  <2>2. d \in Seq(Scope) /\ Len(d) = Len(s)
    BY <1>3, <1>8, <2>1, ExceptSeq
  <2>3. d[Len(s)] = t /\ \A i \in 1 .. Len(s) : i # Len(s) => d[i] = s[i]
    BY <1>1, <1>3, <1>8
  <2> QED
    BY <2>2, <2>3
<1>10. \A i \in 1 .. Len(s) : \A y \in Names :
         /\ ~(i = Len(s) /\ y = x) => d[i][y] = s[i][y]
         /\ i = Len(s) /\ y = x /\ s[i][y] = Undeclared => d[i][y] = symbol
         /\ i = Len(s) /\ y = x /\ s[i][y] # Undeclared => d[i][y] = s[i][y]
  BY <1>2, <1>6, <1>9
<1>11. Declare(s, x, symbol) = d
  BY <1>7, <1>8
<1> QED
  BY <1>9, <1>10, <1>11

\* Chain t is chain s with an empty scope entered; with a scope that holds x.
EntersEmpty(s, t) ==
  /\ t \in Seq(Scope) /\ Len(s) \in Nat /\ Len(t) = Len(s) + 1
  /\ \A i \in 1 .. Len(s) : t[i] = s[i]
  /\ \A y \in Names : t[Len(s) + 1][y] = Undeclared

EntersHeader(s, t, x, n) ==
  /\ t \in Seq(Scope) /\ Len(s) \in Nat /\ Len(t) = Len(s) + 1
  /\ \A i \in 1 .. Len(s) : t[i] = s[i]
  /\ \A y \in Names : y = x => t[Len(s) + 1][y] = Variable(n)
  /\ \A y \in Names : y # x => t[Len(s) + 1][y] = Undeclared

EntersBoth(s, t, x, n) ==
  /\ t \in Seq(Scope) /\ Len(s) \in Nat /\ Len(t) = Len(s) + 2
  /\ \A i \in 1 .. Len(s) : t[i] = s[i]
  /\ \A y \in Names : y = x => t[Len(s) + 1][y] = Variable(n)
  /\ \A y \in Names : y # x => t[Len(s) + 1][y] = Undeclared
  /\ \A y \in Names : t[Len(s) + 2][y] = Undeclared

\* An empty scope is entered.
LEMMA EmptyEntered ==
  ASSUME NEW s \in Seq(Scope)
  PROVE  EntersEmpty(s, Append(s, NewScope))
<1>1. NewScope \in Scope /\ \A y \in Names : NewScope[y] = Undeclared
  BY Symbols DEF NewScope, Scope
<1>2. /\ Append(s, NewScope) \in Seq(Scope)
      /\ Len(Append(s, NewScope)) = Len(s) + 1
      /\ \A i \in 1 .. Len(s) : Append(s, NewScope)[i] = s[i]
      /\ Append(s, NewScope)[Len(s) + 1] = NewScope
  BY <1>1, AppendProperties
<1>3. Len(s) \in Nat
  OBVIOUS
<1> QED
  BY <1>1, <1>2, <1>3 DEF EntersEmpty

\* The scope of a parameter or of the header of a for is entered.
LEMMA HeaderEntered ==
  ASSUME NEW s \in Seq(Scope), NEW n \in Nat, NEW x
  PROVE  EntersHeader(s, Push(s, x, n), x, n)
<1>1. PICK c : c = [y \in Names |-> IF y = x THEN Variable(n) ELSE Undeclared]
  OBVIOUS
<1>2. /\ c \in Scope
      /\ \A y \in Names : y = x => c[y] = Variable(n)
      /\ \A y \in Names : y # x => c[y] = Undeclared
  BY <1>1, Symbols DEF Scope
<1>3. Push(s, x, n) = Append(s, c)
  BY <1>1 DEF Push
<1>4. /\ Append(s, c) \in Seq(Scope) /\ Len(Append(s, c)) = Len(s) + 1
      /\ \A i \in 1 .. Len(s) : Append(s, c)[i] = s[i]
      /\ Append(s, c)[Len(s) + 1] = c
  BY <1>2, AppendProperties
<1>5. Len(s) \in Nat
  OBVIOUS
<1> QED
  BY <1>2, <1>3, <1>4, <1>5 DEF EntersHeader

\* A function, and a for while validating, enters two scopes.
LEMMA BothEntered ==
  ASSUME NEW s \in Seq(Scope), NEW n \in Nat, NEW x
  PROVE  EntersBoth(s, Append(Push(s, x, n), NewScope), x, n)
<1>1. PICK m : m = Push(s, x, n)
  OBVIOUS
<1>2. EntersHeader(s, m, x, n)
  BY <1>1, HeaderEntered
<1>3. m \in Seq(Scope)
  BY <1>2 DEF EntersHeader
<1>4. PICK t : t = Append(m, NewScope)
  OBVIOUS
<1>5. EntersEmpty(m, t)
  BY <1>3, <1>4, EmptyEntered
<1>6. Len(s) \in Nat /\ Len(m) = Len(s) + 1 /\ Len(t) = Len(s) + 2 /\ t \in Seq(Scope)
  BY <1>2, <1>5 DEF EntersHeader, EntersEmpty
<1>7. \A i \in 1 .. Len(s) + 1 : t[i] = m[i]
  BY <1>5, <1>6 DEF EntersEmpty
<1>8. \A i \in 1 .. Len(s) : i \in 1 .. Len(s) + 1
  BY <1>6
<1>9. \A i \in 1 .. Len(s) : t[i] = s[i]
  BY <1>2, <1>7, <1>8 DEF EntersHeader
<1>10. t[Len(s) + 1] = m[Len(s) + 1]
  BY <1>6, <1>7
<1>11. Len(m) + 1 = Len(s) + 2
  BY <1>6
<1>12. EntersBoth(s, t, x, n)
  BY <1>2, <1>5, <1>6, <1>9, <1>10, <1>11 DEF EntersHeader, EntersEmpty, EntersBoth
<1> QED
  BY <1>1, <1>4, <1>12

\* The levels of a walk have different blocks and, where every block has a
\* scope, different scopes.
LEMMA OuterDiffers ==
  ASSUME NEW p, NEW n \in Nat \ {0}, NEW st, Chain(p, st, n),
         NEW j \in 1 .. Len(st) + 1, NEW k \in 1 .. Len(st) + 1, Outer(st, j) = Outer(st, k)
  PROVE  j = k
<1>1. Len(st) \in Nat /\ \A i \in 1 .. Len(st) : st[i] \in 1 .. n - 1
  BY DEF Chain, Inside
<1>2. ASSUME NEW a \in 1 .. Len(st) + 1, NEW b \in 1 .. Len(st) + 1, a < b
      PROVE  Outer(st, a) < Outer(st, b)
  <2>1. b - 1 \in 1 .. Len(st) /\ b # 1 /\ Outer(st, b) = st[b - 1]
    BY <1>1, <1>2 DEF Outer
  <2>2. st[b - 1] \in Nat \ {0}
    BY <1>1, <2>1
  <2>3. CASE a = 1
    BY <2>1, <2>2, <2>3 DEF Outer
  <2>4. CASE a # 1
    <3>1. a - 1 \in 1 .. Len(st) /\ a - 1 < b - 1 /\ Outer(st, a) = st[a - 1]
      BY <1>1, <1>2, <2>4 DEF Outer
    <3> QED
      BY <2>1, <3>1, ChainIncreasing
  <2> QED
    BY <2>3, <2>4
<1>3. \A a \in 1 .. Len(st) + 1 : Outer(st, a) \in Nat
  <2> SUFFICES ASSUME NEW a \in 1 .. Len(st) + 1 PROVE Outer(st, a) \in Nat
    OBVIOUS
  <2>1. a = 1 \/ a - 1 \in 1 .. Len(st)
    BY <1>1
  <2> QED
    BY <1>1, <2>1 DEF Outer
<1>4. ~(j < k) /\ ~(k < j)
  BY <1>2, <1>3
<1> QED
  BY <1>1, <1>4

\* Deeper levels have later scopes.
LEMMA BaseStrict ==
  ASSUME NEW p, NEW n \in Nat \ {0}, NEW st, NEW base, NEW op, NEW sc,
         NEW ph \in {"collect", "validate"}, Frames(p, st, base, n, op, sc, ph),
         NEW j \in 1 .. Len(st) + 1, NEW k \in 1 .. Len(st) + 1, j < k
  PROVE  /\ base[j] < base[k]
         /\ ph = "validate" /\ op[k - 1] \in {"func", "for"} => base[j] < base[k] - 1
<1>1. /\ Len(st) \in Nat /\ Len(base) = Len(st) + 1
      /\ \A i \in 1 .. Len(st) + 1 : base[i] \in 1 .. Len(sc)
      /\ \A i \in 1 .. Len(st) : op[i] \in OpenOps
  <2>1. Fit(p, st, base, n, op, sc)
    BY FramesFit
  <2> QED
    BY <2>1 DEF Fit
<1>2. \A i \in 1 .. Len(st) + 1 : base[i] \in Nat
  BY <1>1
<1>3. k - 1 \in 1 .. Len(st) /\ k - 1 \in 1 .. Len(base) /\ j \in 1 .. Len(base) /\ j <= k - 1 /\ (k - 1) + 1 = k
  BY <1>1
<1>4. base[k] = base[k - 1] + Width(ph, op[k - 1]) /\ base[j] <= base[k - 1]
  BY <1>3 DEF Frames
<1>5. /\ Width(ph, op[k - 1]) \in Nat \ {0}
      /\ ph = "validate" /\ op[k - 1] \in {"func", "for"} => Width(ph, op[k - 1]) = 2
  <2>1. op[k - 1] \in OpenOps
    BY <1>1, <1>3
  <2>2. PICK o \in OpenOps : o = op[k - 1]
    BY <2>1
  <2>3. Width(ph, o) \in Nat \ {0} /\ (ph = "validate" /\ o \in {"func", "for"} => Width(ph, o) = 2)
    BY Widths DEF OpenOps
  <2> QED
    BY <2>2, <2>3
<1>6. base[k - 1] \in Nat /\ base[j] \in Nat
  BY <1>1, <1>2, <1>3
<1> QED
  BY <1>4, <1>5, <1>6

-----------------------------------------------------------------------------
(* What one item changes about the scopes of collection *)

\* The walk passes item n, which declares a name or none.
LEMMA CollectedPast ==
  ASSUME NEW p, NEW n \in Nat \ {0}, NEW st, NEW base, NEW op, NEW sc,
         Frames(p, st, base, n, op, sc, "collect"), Collected(p, st, base, n, sc),
         NEW sc2,
         \/ p[n].op \notin DeclOps /\ sc2 = sc
         \/ p[n].op \in DeclOps /\ p[n].name \in Names
            /\ sc2 = Declare(sc, p[n].name, SymbolOf(p, n))
  PROVE  /\ sc2 \in Seq(Scope) /\ Len(sc2) = Len(sc)
         /\ Collected(p, st, base, n + 1, sc2)
<1>1. Fit(p, st, base, n, op, sc)
  BY FramesFit
<1>2. /\ Len(st) \in Nat /\ sc \in Seq(Scope) /\ sc # <<>> /\ Len(sc) \in Nat \ {0}
      /\ Len(sc) = base[Len(st) + 1]
      /\ \A k \in 1 .. Len(st) + 1 : base[k] \in 1 .. Len(sc)
  BY <1>1 DEF Fit
<1>3. Chain(p, st, n)
  BY DEF Frames
<1>4. (n + 1) - 1 = n /\ 1 .. n = (1 .. n - 1) \cup {n}
  OBVIOUS
<1>5. ASSUME NEW k \in 1 .. Len(st) + 1, NEW x
      PROVE  InBlock(p, n, x, Outer(st, k)) <=>
               k = Len(st) + 1 /\ p[n].op \in DeclOps /\ p[n].name = x
  <2>1. ParentIs(p, n, Outer(st, k)) <=> Outer(st, k) = Outer(st, Len(st) + 1)
    BY <1>3, ChainParent
  <2>2. Len(st) + 1 \in 1 .. Len(st) + 1
    BY <1>2
  <2>3. Outer(st, k) = Outer(st, Len(st) + 1) => k = Len(st) + 1
    BY <1>3, <2>2, OuterDiffers
  <2> QED
    BY <2>1, <2>3 DEF InBlock
<1>6. CASE p[n].op \notin DeclOps /\ sc2 = sc
  <2>1. ASSUME NEW k \in 1 .. Len(st) + 1, NEW x \in Names
        PROVE  \A m \in 1 .. n : InBlock(p, m, x, Outer(st, k)) => m \in 1 .. n - 1
    BY <1>4, <1>5, <1>6
  <2>2. \A m \in 1 .. n - 1 : m \in 1 .. n
    OBVIOUS
  <2>3. Collected(p, st, base, n + 1, sc)
    BY <1>4, <2>1, <2>2 DEF Collected
  <2> QED
    BY <1>2, <1>6, <2>3
<1>7. CASE /\ p[n].op \in DeclOps /\ p[n].name \in Names
           /\ sc2 = Declare(sc, p[n].name, SymbolOf(p, n))
  <2>1. PICK z : z = p[n].name
    OBVIOUS
  <2>2. PICK sy : sy = SymbolOf(p, n)
    OBVIOUS
  <2>3. sy \in Symbol /\ sy # Undeclared
    BY <2>2, SymbolOfItem
  <2>4. /\ sc2 \in Seq(Scope) /\ Len(sc2) = Len(sc)
        /\ \A i \in 1 .. Len(sc) : \A y \in Names :
             /\ ~(i = Len(sc) /\ y = z) => sc2[i][y] = sc[i][y]
             /\ i = Len(sc) /\ y = z /\ sc[i][y] = Undeclared => sc2[i][y] = sy
             /\ i = Len(sc) /\ y = z /\ sc[i][y] # Undeclared => sc2[i][y] = sc[i][y]
    BY <1>2, <1>7, <2>1, <2>2, <2>3, DeclareIn, SMTT(30)
  <2>5. ASSUME NEW k \in 1 .. Len(st) + 1, NEW x \in Names
        PROVE  /\ \A m \in 1 .. n :
                    InBlock(p, m, x, Outer(st, k)) => sc2[base[k]][x] # Undeclared
               /\ sc2[base[k]][x] # Undeclared =>
                    \E m \in 1 .. n : /\ InBlock(p, m, x, Outer(st, k))
                                      /\ sc2[base[k]][x] = SymbolOf(p, m)
    <3>1. /\ \A m \in 1 .. n - 1 :
               InBlock(p, m, x, Outer(st, k)) => sc[base[k]][x] # Undeclared
          /\ sc[base[k]][x] # Undeclared =>
               \E m \in 1 .. n - 1 : /\ InBlock(p, m, x, Outer(st, k))
                                     /\ sc[base[k]][x] = SymbolOf(p, m)
      BY DEF Collected
    <3>2. base[k] \in 1 .. Len(sc)
      BY <1>2
    <3>3. CASE k = Len(st) + 1 /\ x = z
      <4>1. base[k] = Len(sc) /\ InBlock(p, n, x, Outer(st, k))
        BY <1>2, <1>5, <1>7, <2>1, <3>3
      <4>2. sc2[base[k]][x] = IF sc[base[k]][x] = Undeclared THEN sy ELSE sc[base[k]][x]
        BY <2>4, <3>2, <3>3, <4>1
      <4>3. sc2[base[k]][x] # Undeclared
        BY <2>3, <4>2
      <4>4. CASE sc[base[k]][x] = Undeclared
        BY <1>4, <2>2, <4>1, <4>2, <4>3, <4>4
      <4>5. CASE sc[base[k]][x] # Undeclared
        BY <1>4, <3>1, <4>2, <4>3, <4>5
      <4> QED
        BY <4>4, <4>5
    <3>4. CASE ~(k = Len(st) + 1 /\ x = z)
      <4>1. k # Len(st) + 1 => base[k] < Len(sc)
        <5>1. Len(st) + 1 \in 1 .. Len(st) + 1 /\ (k # Len(st) + 1 => k < Len(st) + 1)
          BY <1>2
        <5>2. k < Len(st) + 1 => base[k] < base[Len(st) + 1]
          BY <5>1, BaseStrict
        <5> QED
          BY <1>2, <5>1, <5>2
      <4>2. ~(base[k] = Len(sc) /\ x = z)
        BY <1>2, <3>2, <3>4, <4>1
      <4>3. sc2[base[k]][x] = sc[base[k]][x]
        BY <2>4, <3>2, <4>2
      <4>4. ~InBlock(p, n, x, Outer(st, k))
        BY <1>5, <2>1, <3>4
      <4> QED
        BY <1>4, <3>1, <4>3, <4>4
    <3> QED
      BY <3>3, <3>4
  <2>6. Collected(p, st, base, n + 1, sc2)
    BY <1>4, <2>5 DEF Collected
  <2> QED
    BY <2>4, <2>6
<1> QED
  BY <1>6, <1>7

\* A scope is entered below those that are there.
LEMMA CollectedOpen ==
  ASSUME NEW p, NEW n \in Nat \ {0}, NEW st, NEW base, NEW op, NEW sc,
         Frames(p, st, base, n, op, sc, "collect"),
         NEW sc1 \in Seq(Scope), Len(sc1) = Len(sc), Collected(p, st, base, n + 1, sc1),
         NEW sc2 \in Seq(Scope), Len(sc2) > Len(sc1),
         \A i \in 1 .. Len(sc1) : sc2[i] = sc1[i],
         \A x \in Names : sc2[Len(sc2)][x] = Undeclared
  PROVE  Collected(p, Append(st, n), Append(base, Len(sc2)), n + 1, sc2)
<1>1. Fit(p, st, base, n, op, sc)
  BY FramesFit
<1>2. PICK L : L = Len(st)
  OBVIOUS
<1>3. /\ L \in Nat /\ Len(sc) \in Nat \ {0} /\ st \in Seq(1 .. n - 1) /\ base \in Seq(Nat)
      /\ Len(base) = L + 1
      /\ \A k \in 1 .. L + 1 : base[k] \in 1 .. Len(sc)
  BY <1>1, <1>2 DEF Fit
<1>4. PICK t : t = Append(st, n)
  OBVIOUS
<1>5. PICK b : b = Append(base, Len(sc2))
  OBVIOUS
<1>6. Len(t) = L + 1 /\ t[L + 1] = n /\ \A k \in 1 .. L : t[k] = st[k]
  BY <1>2, <1>3, <1>4, AppendProperties
<1>7. b[(L + 1) + 1] = Len(sc2) /\ \A k \in 1 .. L + 1 : b[k] = base[k]
  <2>1. Len(sc2) \in Nat
    OBVIOUS
  <2> QED
    BY <1>3, <1>5, <2>1, AppendProperties
<1>8. ASSUME NEW k \in 1 .. Len(t) + 1, NEW x \in Names
      PROVE  /\ \A m \in 1 .. (n + 1) - 1 :
                  InBlock(p, m, x, Outer(t, k)) => sc2[b[k]][x] # Undeclared
             /\ sc2[b[k]][x] # Undeclared =>
                  \E m \in 1 .. (n + 1) - 1 : /\ InBlock(p, m, x, Outer(t, k))
                                              /\ sc2[b[k]][x] = SymbolOf(p, m)
  <2>1. CASE k = (L + 1) + 1
    <3>1. Outer(t, k) = n
      BY <1>3, <1>6, <2>1, SMTT(30) DEF Outer
    <3>2. sc2[b[k]][x] = Undeclared
      BY <1>7, <2>1
    <3>3. \A m \in 1 .. (n + 1) - 1 : ~ParentIs(p, m, n)
      BY DEF ParentIs, Inside
    <3> QED
      BY <3>1, <3>2, <3>3 DEF InBlock
  <2>2. CASE k # (L + 1) + 1
    <3>1. k \in 1 .. L + 1
      BY <1>3, <1>6, <2>2
    <3>2. Outer(t, k) = Outer(st, k)
      <4>1. k # 1 => k - 1 \in 1 .. L
        BY <1>3, <3>1
      <4> QED
        BY <1>6, <4>1 DEF Outer
    <3>3. b[k] = base[k] /\ base[k] \in 1 .. Len(sc1)
      BY <1>3, <1>7, <3>1
    <3>4. sc2[b[k]] = sc1[base[k]]
      BY <3>3
    <3>5. /\ \A m \in 1 .. (n + 1) - 1 :
               InBlock(p, m, x, Outer(st, k)) => sc1[base[k]][x] # Undeclared
          /\ sc1[base[k]][x] # Undeclared =>
               \E m \in 1 .. (n + 1) - 1 : /\ InBlock(p, m, x, Outer(st, k))
                                           /\ sc1[base[k]][x] = SymbolOf(p, m)
      BY <1>2, <3>1 DEF Collected
    <3> QED
      BY <3>2, <3>4, <3>5
  <2> QED
    BY <2>1, <2>2
<1>9. Collected(p, t, b, n + 1, sc2)
  BY <1>8 DEF Collected
<1> QED
  BY <1>4, <1>5, <1>9

\* Scopes are left.
LEMMA CollectedClose ==
  ASSUME NEW p, NEW n \in Nat \ {0}, NEW st, NEW base, NEW op, NEW sc,
         Frames(p, st, base, n, op, sc, "collect"), st # <<>>,
         Collected(p, st, base, n + 1, sc),
         NEW sc2 \in Seq(Scope), Len(sc2) = base[Len(st)],
         \A i \in 1 .. Len(sc2) : sc2[i] = sc[i]
  PROVE  Collected(p, Front(st), Front(base), n + 1, sc2)
<1>1. Fit(p, st, base, n, op, sc)
  BY FramesFit
<1>2. PICK L : L = Len(st)
  OBVIOUS
<1>3. /\ L \in Nat \ {0} /\ st \in Seq(1 .. n - 1) /\ base \in Seq(Nat)
      /\ Len(base) = L + 1 /\ base # <<>>
      /\ \A k \in 1 .. L + 1 : base[k] \in 1 .. Len(sc)
  <2>1. /\ L \in Nat /\ L # 0 /\ st \in Seq(1 .. n - 1) /\ base \in Seq(Nat)
        /\ Len(base) = L + 1
        /\ \A k \in 1 .. L + 1 : base[k] \in 1 .. Len(sc)
    BY <1>1, <1>2 DEF Fit
  <2>2. base # <<>>
    BY <2>1
  <2> QED
    BY <2>1, <2>2
<1>4. PICK t : t = Front(st)
  OBVIOUS
<1>5. PICK b : b = Front(base)
  OBVIOUS
<1>6. Len(t) = L - 1 /\ \A k \in 1 .. L - 1 : t[k] = st[k]
  BY <1>2, <1>3, <1>4, FrontOf
<1>7. \A k \in 1 .. L : b[k] = base[k]
  <2>1. \A k \in 1 .. Len(base) - 1 : b[k] = base[k]
    BY <1>3, <1>5, FrontOf
  <2>2. Len(base) - 1 = L
    BY <1>3
  <2> QED
    BY <2>1, <2>2
<1>8. ASSUME NEW k \in 1 .. Len(t) + 1, NEW x \in Names
      PROVE  /\ k \in 1 .. L + 1
             /\ Outer(t, k) = Outer(st, k)
             /\ sc2[b[k]] = sc[base[k]]
  <2>1. k \in 1 .. L /\ k \in 1 .. L + 1 /\ (k # 1 => k - 1 \in 1 .. L - 1)
    BY <1>3, <1>6
  <2>2. Outer(t, k) = Outer(st, k)
    BY <1>6, <2>1 DEF Outer
  <2>3. base[k] <= base[L]
    <3>1. k \in 1 .. Len(base) /\ L \in 1 .. Len(base) /\ k <= L
      BY <1>3, <2>1
    <3> QED
      BY <3>1 DEF Frames
  <2>4. base[k] \in 1 .. Len(sc2)
    <3>1. base[k] \in 1 .. Len(sc) /\ Len(sc2) = base[L]
      BY <1>2, <1>3, <2>1
    <3>2. base[k] \in Nat \ {0} /\ Len(sc2) \in Nat
      BY <3>1
    <3> QED
      BY <2>3, <3>1, <3>2
  <2> QED
    BY <1>7, <2>1, <2>2, <2>4
<1>9. Collected(p, t, b, n + 1, sc2)
  BY <1>2, <1>8 DEF Collected
<1> QED
  BY <1>4, <1>5, <1>9

\* The program grows.
LEMMA CollectedLonger ==
  ASSUME NEW p, NEW p2, NEW e, NEW L, Longer(p, p2, e, L),
         NEW st, NEW base, NEW sc, Collected(p, st, base, L + 1, sc)
  PROVE  Collected(p2, st, base, L + 1, sc)
<1>1. /\ L \in Nat /\ (L + 1) - 1 = L
      /\ \A m \in 1 .. L : \A x, q : InBlock(p2, m, x, q) <=> InBlock(p, m, x, q)
      /\ \A m \in 1 .. L : SymbolOf(p2, m) = SymbolOf(p, m)
  BY DEF Longer
<1> QED
  BY <1>1 DEF Collected

-----------------------------------------------------------------------------
(* Collection *)

\* What a walk does to the open items.
LEMMA OpenedIs ==
  ASSUME NEW e
  PROVE  /\ e.op \in OpenOps => Opened(e) = Append(opened, e.op)
         /\ e.op = "end" => Opened(e) = Front(opened)
         /\ e.op \notin OpenOps \cup {"end"} => Opened(e) = opened
<1>1. "end" \notin OpenOps
  BY DEF OpenOps
<1> QED
  BY <1>1 DEF Opened

\* The current scope has a name exactly when its declaration repeats it.
LEMMA DuplicateFound ==
  ASSUME NEW p, NEW n \in Nat \ {0}, NEW st, NEW base, NEW op, NEW sc,
         Frames(p, st, base, n, op, sc, "collect"), Collected(p, st, base, n, sc),
         p[n].op \in DeclOps, p[n].name \in Names
  PROVE  LookupCurrent(sc, p[n].name) # Undeclared <=> Repeats(p, n)
<1>1. Fit(p, st, base, n, op, sc)
  BY FramesFit
<1>2. Len(st) \in Nat /\ Len(sc) = base[Len(st) + 1] /\ Len(st) + 1 \in 1 .. Len(st) + 1
  BY <1>1 DEF Fit
<1>3. Chain(p, st, n)
  BY DEF Frames
<1>4. PICK q : q = Outer(st, Len(st) + 1)
  OBVIOUS
<1>5. \A r : ParentIs(p, n, r) <=> r = q
  BY <1>3, <1>4, ChainParent
<1>6. \A m : Twins(p, m, n) <=> InBlock(p, m, p[n].name, q)
  BY <1>5 DEF Twins, InBlock
<1>7. PICK v : v = sc[Len(sc)][p[n].name]
  OBVIOUS
<1>8. /\ \A m \in 1 .. n - 1 : InBlock(p, m, p[n].name, q) => v # Undeclared
      /\ v # Undeclared => \E m \in 1 .. n - 1 : InBlock(p, m, p[n].name, q)
  BY <1>2, <1>4, <1>7 DEF Collected
<1>9. LookupCurrent(sc, p[n].name) = v
  BY <1>7 DEF LookupCurrent, Last
<1> QED
  BY <1>6, <1>8, <1>9 DEF Repeats

\* The walk visits item n; sc1 are the scopes after its declaration, sc2 those
\* after it has opened or closed something.
LEMMA CollectedNext ==
  ASSUME NEW p, NEW n \in Nat \ {0}, NEW st, NEW base, NEW op, NEW sc, NEW sc1, NEW sc2, NEW op2,
         Frames(p, st, base, n, op, sc, "collect"),
         sc1 \in Seq(Scope), Len(sc1) = Len(sc), Collected(p, st, base, n + 1, sc1),
         p[n].op \in OpenOps => op2 = Append(op, p[n].op),
         p[n].op = "func" => \E x : sc2 = Append(Push(sc1, x, n), NewScope),
         p[n].op \in {"block", "for"} => sc2 = Append(sc1, NewScope),
         p[n].op = "end" => /\ op2 = Front(op) /\ st # <<>> /\ sc1 = sc
                            /\ sc2 = SubSeq(sc, 1, Len(sc) - Width("collect", Last(op))),
         p[n].op \notin OpenOps \cup {"end"} => op2 = op /\ sc2 = sc1
  PROVE  \E t, b : /\ Frames(p, t, b, n + 1, op2, sc2, "collect")
                   /\ Collected(p, t, b, n + 1, sc2)
<1>1. Len(sc) \in Nat \ {0} /\ "collect" \in Walks
  <2>1. Fit(p, st, base, n, op, sc)
    BY FramesFit
  <2> QED
    BY <2>1 DEF Fit, Walks
<1>2. CASE p[n].op \in OpenOps
  <2>1. /\ sc2 \in Seq(Scope) /\ Len(sc2) = Len(sc) + Width("collect", p[n].op)
        /\ Len(sc2) > Len(sc1)
        /\ \A i \in 1 .. Len(sc1) : sc2[i] = sc1[i]
        /\ \A x \in Names : sc2[Len(sc2)][x] = Undeclared
    <3>1. CASE p[n].op = "func"
      <4>1. PICK x : sc2 = Append(Push(sc1, x, n), NewScope)
        BY <3>1
      <4>5. EntersBoth(sc1, sc2, x, n)
        BY <4>1, BothEntered
      <4>2. /\ sc2 \in Seq(Scope) /\ Len(sc2) = Len(sc1) + 2
            /\ \A i \in 1 .. Len(sc1) : sc2[i] = sc1[i]
            /\ \A y \in Names : sc2[Len(sc1) + 2][y] = Undeclared
        BY <4>5 DEF EntersBoth
      <4>3. Width("collect", p[n].op) = 2
        BY <3>1, Widths
      <4>4. Len(sc2) > Len(sc1)
        BY <1>1, <4>2
      <4> QED
        BY <4>2, <4>3, <4>4
    <3>2. CASE p[n].op \in {"block", "for"}
      <4>1. sc2 = Append(sc1, NewScope)
        BY <3>2
      <4>5. EntersEmpty(sc1, sc2)
        BY <4>1, EmptyEntered
      <4>2. /\ sc2 \in Seq(Scope) /\ Len(sc2) = Len(sc1) + 1
            /\ \A i \in 1 .. Len(sc1) : sc2[i] = sc1[i]
            /\ \A x \in Names : sc2[Len(sc1) + 1][x] = Undeclared
        BY <4>5 DEF EntersEmpty
      <4>3. Width("collect", p[n].op) = 1
        BY <3>2, Widths
      <4>4. Len(sc2) > Len(sc1)
        BY <1>1, <4>2
      <4> QED
        BY <4>2, <4>3, <4>4
    <3> QED
      BY <1>2, <3>1, <3>2 DEF OpenOps
  <2>2. op2 = Append(op, p[n].op)
    BY <1>2
  <2>3. Frames(p, Append(st, n), Append(base, Len(sc2)), n + 1, Append(op, p[n].op), sc2, "collect")
    BY <1>1, <1>2, <2>1, FramesOpen
  <2>4. Collected(p, Append(st, n), Append(base, Len(sc2)), n + 1, sc2)
    BY <2>1, CollectedOpen
  <2> QED
    BY <2>2, <2>3, <2>4
<1>3. CASE p[n].op = "end"
  <2>1. /\ op2 = Front(op) /\ st # <<>> /\ sc1 = sc
        /\ sc2 = SubSeq(sc, 1, Len(sc) - Width("collect", Last(op)))
    BY <1>3
  <2>2. /\ Frames(p, Front(st), Front(base), n + 1, Front(op), sc2, "collect")
        /\ Leaves(st, base, sc, sc2)
    BY <1>1, <1>3, <2>1, FramesClose
  <2>4. /\ sc2 \in Seq(Scope) /\ Len(sc2) = base[Len(st)]
        /\ \A i \in 1 .. Len(sc2) : sc2[i] = sc[i]
    BY <2>2 DEF Leaves
  <2>5. Collected(p, st, base, n + 1, sc) /\ st # <<>>
    BY <2>1
  <2>3. Collected(p, Front(st), Front(base), n + 1, sc2)
    BY <2>4, <2>5, CollectedClose
  <2> QED
    BY <2>1, <2>2, <2>3
<1>4. CASE p[n].op \notin OpenOps \cup {"end"}
  <2>1. op2 = op /\ sc2 = sc1
    BY <1>4
  <2>2. Frames(p, st, base, n + 1, op, sc1, "collect")
    BY <1>4, FramesStay
  <2> QED
    BY <2>1, <2>2
<1> QED
  BY <1>2, <1>3, <1>4

\* Collection visits item e.
LEMMA CollectWalk ==
  ASSUME Inv, phase = "collect", NEW e \in Item, MayFollow(e),
         program' = Append(program, e), cursor' = Here, opened' = Opened(e),
         UNCHANGED <<phase, sem_binding, ir_binding>>,
         NEW sc1,
         \/ e.op \notin DeclOps /\ sc1 = scopes
         \/ e.op \in DeclOps /\ sc1 = Declare(scopes, e.name, SymbolOf(program', Here)),
         e.op = "func" => scopes' = Append(Push(sc1, e.with, Here), NewScope),
         e.op \in {"block", "for"} => scopes' = Append(sc1, NewScope),
         e.op = "end" => opened # <<>> /\ scopes' = Popped(sc1),
         e.op \notin OpenOps \cup {"end"} => scopes' = sc1,
         e.op \in DeclOps /\ LookupCurrent(scopes, e.name) # Undeclared =>
           errors' = errors \cup {<<"duplicate", Here>>},
         e.op \in DeclOps /\ LookupCurrent(scopes, e.name) = Undeclared => errors' = errors,
         e.op \notin DeclOps => errors' = errors
  PROVE  Inv'
<1>1. PICK L : L = Len(program)
  OBVIOUS
<1>2. PICK n : n = L + 1
  OBVIOUS
<1>3. /\ program \in Seq(Item) /\ L \in Nat /\ n \in Nat \ {0} /\ cursor = L /\ Here = n
      /\ n \in 1 .. n /\ DOMAIN program = 1 .. L /\ n - 1 = L
  <2>1. program \in Seq(Item) /\ cursor = Len(program)
    BY DEF Inv, Typed, CollectInv, WellNested
  <2>2. L \in Nat /\ DOMAIN program = 1 .. L /\ cursor = L
    BY <1>1, <2>1
  <2> QED
    BY <1>2, <2>1, <2>2 DEF Here
<1>4. PICK p2 : p2 = program'
  OBVIOUS
<1>5. Longer(program, p2, e, L)
  BY <1>1, <1>3, <1>4, ItemAppended
<1>6. p2 \in Seq(Item) /\ Len(p2) = n /\ p2[n] = e /\ DOMAIN p2 = 1 .. n
  BY <1>2, <1>5 DEF Longer
<1>7. PICK st, base : /\ Frames(program, st, base, n, opened, scopes, "collect")
                      /\ Collected(program, st, base, n, scopes)
  BY <1>3 DEF Inv, CollectInv
<1>8. /\ Frames(p2, st, base, n, opened, scopes, "collect")
      /\ Collected(p2, st, base, n, scopes)
  <2>1. /\ Frames(program, st, base, L + 1, opened, scopes, "collect")
        /\ Collected(program, st, base, L + 1, scopes)
    BY <1>2, <1>7
  <2>2. Frames(p2, st, base, L + 1, opened, scopes, "collect")
    BY <1>3, <1>5, <2>1, FramesLonger
  <2>3. Collected(p2, st, base, L + 1, scopes)
    BY <1>5, <2>1, CollectedLonger
  <2> QED
    BY <1>2, <2>2, <2>3
<1>9. Fit(p2, st, base, n, opened, scopes)
  BY <1>3, <1>8, FramesFit
<1>10. e.op \in DeclOps => e.name \in Names
  BY ItemFields DEF DeclOps
<1>11. /\ sc1 \in Seq(Scope) /\ Len(sc1) = Len(scopes) /\ Len(scopes) \in Nat \ {0}
       /\ Collected(p2, st, base, n + 1, sc1)
  <2>1. \/ p2[n].op \notin DeclOps /\ sc1 = scopes
        \/ /\ p2[n].op \in DeclOps /\ p2[n].name \in Names
           /\ sc1 = Declare(scopes, p2[n].name, SymbolOf(p2, n))
    BY <1>3, <1>4, <1>6, <1>10
  <2>2. Len(scopes) \in Nat \ {0}
    BY <1>9 DEF Fit
  <2>3. /\ sc1 \in Seq(Scope) /\ Len(sc1) = Len(scopes)
        /\ Collected(p2, st, base, n + 1, sc1)
    BY <1>3, <1>8, <2>1, CollectedPast
  <2> QED
    BY <2>2, <2>3
<1>12. "collect" \in Walks /\ "end" \notin OpenOps \cup DeclOps
  BY DEF Walks, OpenOps, DeclOps
<1>13. \E t, b : /\ Frames(p2, t, b, n + 1, opened', scopes', "collect")
                 /\ Collected(p2, t, b, n + 1, scopes')
  <2>1. p2[n].op \in OpenOps => opened' = Append(opened, p2[n].op)
    BY <1>6, OpenedIs
  <2>2. p2[n].op = "func" => \E x : scopes' = Append(Push(sc1, x, n), NewScope)
    BY <1>3, <1>6
  <2>3. p2[n].op \in {"block", "for"} => scopes' = Append(sc1, NewScope)
    BY <1>6
  <2>4. p2[n].op = "end" =>
          /\ opened' = Front(opened) /\ st # <<>> /\ sc1 = scopes
          /\ scopes' = SubSeq(scopes, 1, Len(scopes) - Width("collect", Last(opened)))
    BY <1>6, <1>9, <1>12, OpenedIs DEF Fit, Popped, Width
  <2>5. p2[n].op \notin OpenOps \cup {"end"} => opened' = opened /\ scopes' = sc1
    BY <1>6, OpenedIs
  <2> QED
    BY <1>3, <1>8, <1>11, <2>1, <2>2, <2>3, <2>4, <2>5, CollectedNext, ZenonT(60)
<1>14. PICK t, b : /\ Frames(p2, t, b, n + 1, opened', scopes', "collect")
                   /\ Collected(p2, t, b, n + 1, scopes')
  BY <1>13
<1>15. Fit(p2, t, b, n + 1, opened', scopes')
  <2>1. n + 1 \in Nat \ {0}
    BY <1>3
  <2> QED
    BY <1>14, <2>1, FramesFit
<1>16. WellNested(p2)
  <2>1. WellNested(program) /\ Chain(program, st, Len(program) + 1)
    BY <1>1, <1>2, <1>7 DEF Inv, Typed, Frames
  <2>2. e.op \in IF st = <<>> THEN TopOps ELSE BodyOps
    BY <1>9 DEF MayFollow, Fit
  <2>3. ASSUME e.op \in UpdateOps PROVE st # <<>> /\ program[st[Len(st)]].op = "for"
    <3>1. opened # <<>> /\ opened[Len(opened)] = "for"
      <4>1. e.op \notin TopOps
        BY <2>3 DEF TopOps, UpdateOps
      <4> QED
        BY <2>3, <4>1 DEF MayFollow, Last
    <3>2. st # <<>> /\ Len(st) \in 1 .. Len(st) /\ Len(opened) = Len(st)
      BY <1>9, <3>1 DEF Fit
    <3>3. opened[Len(st)] = program[st[Len(st)]].op
      BY <1>7, <3>2 DEF Frames
    <3> QED
      BY <3>1, <3>2, <3>3
  <2> QED
    BY <1>4, <2>1, <2>2, <2>3, NestedAppended
<1>17. errors \subseteq ({"duplicate", "undeclared"} \X Nat)
  BY DEF Inv, Typed
<1>18. e.op \in DeclOps => (LookupCurrent(scopes, e.name) # Undeclared <=> Repeats(p2, n))
  BY <1>3, <1>6, <1>8, <1>10, DuplicateFound
<1>19. /\ Repeats(p2, n) => errors' = errors \cup {<<"duplicate", n>>}
       /\ ~Repeats(p2, n) => errors' = errors
  <2>1. e.op \notin DeclOps => ~Repeats(p2, n)
    BY <1>6 DEF Repeats, Twins
  <2> QED
    BY <1>3, <1>18, <2>1
<1>20. Typed'
  <2>1. errors' \subseteq ({"duplicate", "undeclared"} \X Nat)
    BY <1>3, <1>17, <1>19
  <2>2. cursor' \in 0 .. Len(p2)
    BY <1>3, <1>6
  <2>3. sem_binding' = <<>> /\ ir_binding' = <<>> /\ phase' = "collect"
    BY DEF Inv, CollectInv
  <2>4. opened' \in Seq(OpenOps) /\ scopes' \in Seq(Scope) /\ scopes' # <<>>
    BY <1>15 DEF Fit
  <2>5. DOMAIN <<>> = {}
    OBVIOUS
  <2> QED
    BY <1>4, <1>16, <2>1, <2>2, <2>3, <2>4, <2>5 DEF Typed, Phases
<1>21. Duplicates'
  <2>1. ASSUME NEW j \in Nat
        PROVE  <<"duplicate", j>> \in errors' <=> j \in DOMAIN p2 /\ Repeats(p2, j)
    <3>1. <<"duplicate", j>> \in errors <=> j \in DOMAIN program /\ Repeats(program, j)
      BY DEF Inv, Duplicates
    <3>2. CASE j = n
      <4>1. <<"duplicate", j>> \notin errors /\ j \in DOMAIN p2
        BY <1>3, <1>6, <3>1, <3>2
      <4> QED
        BY <1>19, <3>2, <4>1
    <3>3. CASE j # n
      <4>1. <<"duplicate", j>> \in errors' <=> <<"duplicate", j>> \in errors
        BY <1>19, <3>3
      <4>2. j \in DOMAIN p2 <=> j \in DOMAIN program
        BY <1>3, <1>6, <3>3
      <4>3. j \in DOMAIN program => (Repeats(p2, j) <=> Repeats(program, j))
        BY <1>3, <1>5 DEF Longer
      <4> QED
        BY <3>1, <4>1, <4>2, <4>3
    <3> QED
      BY <3>2, <3>3
  <2> QED
    BY <1>4, <2>1 DEF Duplicates
<1>22. CollectInv'
  <2>1. \A j \in Nat : <<"undeclared", j>> \notin errors'
    <3>1. \A j \in Nat : <<"undeclared", j>> \notin errors
      BY DEF Inv, CollectInv
    <3>2. \A j \in Nat : <<"undeclared", j>> # <<"duplicate", n>>
      OBVIOUS
    <3> QED
      BY <1>19, <3>1, <3>2
  <2>2. sem_binding' = <<>> /\ ir_binding' = <<>>
    BY DEF Inv, CollectInv
  <2>3. cursor' = Len(p2) /\ cursor' + 1 = n + 1
    BY <1>3, <1>6
  <2> QED
    BY <1>4, <1>14, <2>1, <2>2, <2>3 DEF CollectInv, Here
<1>23. phase' = "collect"
  OBVIOUS
<1>24. ValidateInv' /\ ValidatedInv' /\ LowerInv' /\ BuiltInv'
  BY <1>23 DEF ValidateInv, ValidatedInv, LowerInv, BuiltInv
<1> QED
  BY <1>20, <1>21, <1>22, <1>24 DEF Inv

\* Each step of collection is such a visit.
LEMMA CollectStep ==
  ASSUME Inv, Collect
  PROVE  Inv'
<1>1. PICK e \in Item : CollectVariable(e) \/ CollectFunction(e) \/ CollectOther(e)
  BY DEF Collect
<1>2. cursor \in Nat /\ program \in Seq(Item)
  BY DEF Inv, Typed, WellNested
<1>3. \A s : CollectItem(e, s) =>
        /\ phase = "collect" /\ MayFollow(e) /\ program' = Append(program, e)
        /\ cursor' = Here /\ opened' = Opened(e) /\ scopes' = s
        /\ UNCHANGED <<phase, sem_binding, ir_binding>>
  BY DEF CollectItem
<1>4. program' = Append(program, e) /\ phase = "collect" => program'[Here] = e
  <2>1. phase = "collect" => cursor = Len(program)
    BY DEF Inv, CollectInv
  <2> QED
    BY <1>2, <2>1 DEF Here
<1>5. CASE CollectVariable(e)
  <2>1. /\ e.op \in {"global", "decl"}
        /\ CollectItem(e, Declare(scopes, e.name, Variable(Here)))
        /\ ReportDuplicate(e.name)
    BY <1>5 DEF CollectVariable
  <2>2. /\ phase = "collect" /\ MayFollow(e) /\ program' = Append(program, e)
        /\ cursor' = Here /\ opened' = Opened(e)
        /\ scopes' = Declare(scopes, e.name, Variable(Here))
        /\ UNCHANGED <<phase, sem_binding, ir_binding>>
    BY <1>3, <2>1
  <2>3. SymbolOf(program', Here) = Variable(Here)
    BY <1>4, <2>1, <2>2 DEF SymbolOf
  <2>4. e.op \in DeclOps /\ e.op \notin OpenOps \cup {"end"}
    BY <2>1 DEF DeclOps, OpenOps
  <2>5. /\ LookupCurrent(scopes, e.name) # Undeclared => errors' = errors \cup {<<"duplicate", Here>>}
        /\ LookupCurrent(scopes, e.name) = Undeclared => errors' = errors
    BY <2>1 DEF ReportDuplicate
  <2>6. PICK sc1 : sc1 = Declare(scopes, e.name, Variable(Here))
    OBVIOUS
  <2>7. /\ e.op \in DeclOps /\ sc1 = Declare(scopes, e.name, SymbolOf(program', Here))
        /\ e.op \notin OpenOps \cup {"end"} => scopes' = sc1
    BY <2>2, <2>3, <2>4, <2>6
  <2>8. /\ e.op = "func" => scopes' = Append(Push(sc1, e.with, Here), NewScope)
        /\ e.op \in {"block", "for"} => scopes' = Append(sc1, NewScope)
        /\ e.op = "end" => opened # <<>> /\ scopes' = Popped(sc1)
    BY <2>1
  <2> QED
    BY <2>2, <2>5, <2>7, <2>8, CollectWalk
<1>6. CASE CollectFunction(e)
  <2>1. PICK sc1 : sc1 = Declare(scopes, e.name, Function(Here))
    OBVIOUS
  <2>2. /\ e.op \in {"extern", "func"}
        /\ CollectItem(e, IF e.op = "extern" THEN sc1
                          ELSE Append(Push(sc1, e.with, Here), NewScope))
        /\ ReportDuplicate(e.name)
    BY <1>6, <2>1 DEF CollectFunction
  <2>3. /\ phase = "collect" /\ MayFollow(e) /\ program' = Append(program, e)
        /\ cursor' = Here /\ opened' = Opened(e)
        /\ scopes' = IF e.op = "extern" THEN sc1 ELSE Append(Push(sc1, e.with, Here), NewScope)
        /\ UNCHANGED <<phase, sem_binding, ir_binding>>
    BY <1>3, <2>2
  <2>4. SymbolOf(program', Here) = Function(Here)
    BY <1>4, <2>2, <2>3 DEF SymbolOf
  <2>5. /\ LookupCurrent(scopes, e.name) # Undeclared => errors' = errors \cup {<<"duplicate", Here>>}
        /\ LookupCurrent(scopes, e.name) = Undeclared => errors' = errors
    BY <2>2 DEF ReportDuplicate
  <2>6. e.op \in DeclOps /\ sc1 = Declare(scopes, e.name, SymbolOf(program', Here))
    BY <2>1, <2>2, <2>4 DEF DeclOps
  <2>7. /\ e.op = "func" => scopes' = Append(Push(sc1, e.with, Here), NewScope)
        /\ e.op \notin OpenOps \cup {"end"} => scopes' = sc1
        /\ e.op \in {"block", "for"} => scopes' = Append(sc1, NewScope)
        /\ e.op = "end" => opened # <<>> /\ scopes' = Popped(sc1)
    BY <2>2, <2>3 DEF OpenOps
  <2> QED
    BY <2>3, <2>5, <2>6, <2>7, CollectWalk
<1>7. CASE CollectOther(e)
  <2>1. PICK s : CollectItem(e, s)
    BY <1>7 DEF CollectOther
  <2>2. /\ phase = "collect" /\ MayFollow(e) /\ program' = Append(program, e)
        /\ cursor' = Here /\ opened' = Opened(e)
        /\ UNCHANGED <<phase, sem_binding, ir_binding>>
    BY <1>3, <2>1
  <2>3. /\ \/ e.op \in {"block", "for"} /\ scopes' = Append(scopes, NewScope)
           \/ e.op \in UseOps /\ scopes' = scopes
           \/ e.op = "end" /\ opened # <<>> /\ scopes' = Popped(scopes)
        /\ errors' = errors
    BY <1>3, <1>7 DEF CollectOther
  <2>4. e.op \notin DeclOps
    BY <2>3 DEF DeclOps, UseOps, ReadOps, WriteOps, CallOps
  <2>5. PICK sc1 : sc1 = scopes
    OBVIOUS
  <2>6. /\ e.op = "func" => scopes' = Append(Push(sc1, e.with, Here), NewScope)
        /\ e.op \in {"block", "for"} => scopes' = Append(sc1, NewScope)
        /\ e.op = "end" => opened # <<>> /\ scopes' = Popped(sc1)
        /\ e.op \notin OpenOps \cup {"end"} => scopes' = sc1
    BY <2>3, <2>5 DEF OpenOps, UseOps, ReadOps, WriteOps, CallOps
  <2> QED
    BY <2>2, <2>3, <2>4, <2>5, <2>6, CollectWalk
<1> QED
  BY <1>1, <1>5, <1>6, <1>7

\* Nothing is open before the first item.
LEMMA ChainStart ==
  ASSUME NEW p
  PROVE  Chain(p, <<>>, 1) /\ \A st : Chain(p, st, 1) => st = <<>>
<1>1. DepthIn(p, 1) = 0
  BY DepthNext
<1>2. \A m : ~Inside(p, m, 1)
  BY DEF Inside
<1>3. <<>> \in Seq(1 .. 1 - 1) /\ Len(<<>>) = 0
  OBVIOUS
<1>4. Chain(p, <<>>, 1)
  BY <1>1, <1>2, <1>3 DEF Chain
<1>5. ASSUME NEW st, Chain(p, st, 1) PROVE st = <<>>
  <2>1. st \in Seq(1 .. 1 - 1) /\ Len(st) = 0
    BY <1>1, <1>5 DEF Chain
  <2> QED
    BY <2>1
<1> QED
  BY <1>4, <1>5

\* A walk begins with one scope.
LEMMA FramesStart ==
  ASSUME NEW p, NEW s \in Scope, NEW ph
  PROVE  Frames(p, <<>>, <<1>>, 1, <<>>, <<s>>, ph)
<1>1. Chain(p, <<>>, 1)
  BY ChainStart
<1>2. <<>> \in Seq(OpenOps) /\ Len(<<>>) = 0
  OBVIOUS
<1>3. <<1>> \in Seq(Nat) /\ Len(<<1>>) = 1 /\ <<1>>[1] = 1
  OBVIOUS
<1>4. <<s>> \in Seq(Scope) /\ Len(<<s>>) = 1
  OBVIOUS
<1>5. 1 .. Len(<<>>) = {} /\ 1 .. Len(<<1>>) = {1}
  BY <1>2, <1>3
<1> QED
  BY <1>1, <1>2, <1>3, <1>4, <1>5 DEF Frames

\* The initial state satisfies the invariant.
LEMMA InitInv ==
  ASSUME Init
  PROVE  Inv
<1>1. NewScope \in Scope /\ \A y \in Names : NewScope[y] = Undeclared
  BY Symbols DEF NewScope, Scope
<1>2. /\ program = <<>> /\ phase = "collect" /\ cursor = 0 /\ opened = <<>>
      /\ scopes = <<NewScope>> /\ errors = {} /\ sem_binding = <<>> /\ ir_binding = <<>>
  BY DEF Init
<1>3. /\ program \in Seq(Item) /\ Len(program) = 0 /\ DOMAIN program = {}
      /\ opened \in Seq(OpenOps) /\ scopes \in Seq(Scope) /\ scopes # <<>> /\ scopes[1] = NewScope
      /\ DOMAIN sem_binding = {} /\ DOMAIN ir_binding = {} /\ Here = 1
  BY <1>1, <1>2 DEF Here
<1>4. WellNested(program)
  <2>1. \A n \in 1 .. Len(program) + 1 : n = 1
    BY <1>3
  <2> QED
    BY <1>3, <2>1, ChainStart DEF WellNested
<1>5. Typed
  BY <1>2, <1>3, <1>4 DEF Typed, Phases
<1>6. Duplicates
  BY <1>2, <1>3 DEF Duplicates
<1>7. Frames(program, <<>>, <<1>>, Here, opened, scopes, "collect")
  BY <1>1, <1>2, <1>3, FramesStart
<1>8. Collected(program, <<>>, <<1>>, Here, scopes)
  <2>1. Len(<<>>) + 1 = 1 /\ <<1>>[1] = 1 /\ 1 .. 1 = {1} /\ 1 .. 1 - 1 = {}
    OBVIOUS
  <2>2. \A x \in Names : scopes[1][x] = Undeclared
    BY <1>1, <1>3
  <2> QED
    BY <1>3, <2>1, <2>2 DEF Collected
<1>9. CollectInv
  BY <1>2, <1>3, <1>7, <1>8 DEF CollectInv
<1> QED
  BY <1>2, <1>5, <1>6, <1>9 DEF Inv, ValidateInv, ValidatedInv, LowerInv, BuiltInv

\* Without repeated declarations, a name has one declaration in a block.
LEMMA OneDeclaration ==
  ASSUME NEW p \in Seq(Item), NoRepeats(p), NEW x, NEW q,
         NEW m \in DOMAIN p, NEW k \in DOMAIN p, InBlock(p, m, x, q), InBlock(p, k, x, q)
  PROVE  m = k
<1>1. m \in Nat \ {0} /\ k \in Nat \ {0}
  OBVIOUS
<1>2. Twins(p, m, k) /\ Twins(p, k, m)
  BY DEF InBlock, Twins
<1>3. ~(m \in 1 .. k - 1) /\ ~(k \in 1 .. m - 1)
  BY <1>2 DEF NoRepeats, Repeats
<1> QED
  BY <1>1, <1>3

\* createValidationRoot leaves the functions of the top level.
LEMMA RootScope ==
  ASSUME NEW p \in Seq(Item), NoRepeats(p), NEW base, base[1] = 1, NEW sc,
         Collected(p, <<>>, base, Len(p) + 1, sc), NEW x \in Names
  PROVE  FunctionIs(p, x, IF sc[1][x].kind = "function" THEN sc[1][x] ELSE Undeclared)
<1>1. Len(p) \in Nat /\ DOMAIN p = 1 .. Len(p) /\ 1 .. (Len(p) + 1) - 1 = 1 .. Len(p)
  OBVIOUS
<1>2. PICK v : v = sc[1][x]
  OBVIOUS
<1>3. /\ \A m \in 1 .. (Len(p) + 1) - 1 : InBlock(p, m, x, 0) => v # Undeclared
      /\ v # Undeclared => \E m \in 1 .. (Len(p) + 1) - 1 : InBlock(p, m, x, 0) /\ v = SymbolOf(p, m)
  <2>1. 1 \in 1 .. Len(<<>>) + 1 /\ Outer(<<>>, 1) = 0
    BY DEF Outer
  <2> QED
    BY <1>2, <2>1 DEF Collected
<1>4. ASSUME NEW f, IsFunction(p, f, x)
      PROVE  f \in DOMAIN p /\ InBlock(p, f, x, 0) /\ v = Function(f)
  <2>1. f \in DOMAIN p /\ InBlock(p, f, x, 0) /\ p[f].op \in {"func", "extern"}
    BY <1>4 DEF IsFunction, InBlock, DeclOps, ParentIs
  <2>2. PICK m \in DOMAIN p : InBlock(p, m, x, 0) /\ v = SymbolOf(p, m)
    BY <1>1, <1>3, <2>1
  <2>3. m = f
    BY <2>1, <2>2, OneDeclaration
  <2> QED
    BY <2>1, <2>2, <2>3 DEF SymbolOf
<1>5. CASE v.kind = "function"
  <2>1. v # Undeclared
    BY <1>5, Symbols
  <2>2. PICK m \in DOMAIN p : InBlock(p, m, x, 0) /\ v = SymbolOf(p, m)
    BY <1>1, <1>3, <2>1
  <2>3. p[m].op \in {"func", "extern"} /\ v = Function(m)
    BY <1>5, <2>2, Symbols DEF SymbolOf
  <2>4. IsFunction(p, m, x)
    <3>1. DepthIn(p, m) = 0
      <4>1. ~Inside(p, 0, m)
        BY DEF Inside
      <4> QED
        BY <2>2, <4>1 DEF InBlock, ParentIs
    <3> QED
      BY <2>2, <2>3, <3>1 DEF IsFunction, InBlock
  <2>5. \A f : IsFunction(p, f, x) => f = m
    BY <1>4, <2>3, Symbols
  <2>6. m <= m
    BY <1>1, <2>2
  <2> QED
    BY <1>2, <1>5, <2>3, <2>4, <2>5, <2>6 DEF FunctionIs
<1>6. CASE v.kind # "function"
  <2>1. \A f : ~IsFunction(p, f, x)
    BY <1>4, <1>6, Symbols
  <2> QED
    BY <1>2, <1>6, <2>1 DEF FunctionIs
<1> QED
  BY <1>5, <1>6

\* Validation begins.
LEMMA CreateValidationRootStep ==
  ASSUME Inv, CreateValidationRoot
  PROVE  Inv'
<1>1. /\ phase = "collect" /\ opened = <<>> /\ phase' = "validate" /\ cursor' = 0
      /\ program' = program /\ opened' = opened /\ errors' = errors
      /\ sem_binding' = sem_binding /\ ir_binding' = ir_binding
  BY DEF CreateValidationRoot
<1>2. /\ program \in Seq(Item) /\ cursor = Len(program) /\ Len(program) \in Nat
      /\ sem_binding = <<>> /\ ir_binding = <<>> /\ WellNested(program)
      /\ \A n \in Nat : <<"undeclared", n>> \notin errors
      /\ Here = Len(program) + 1 /\ Here \in Nat \ {0}
  BY <1>1 DEF Inv, Typed, CollectInv, WellNested, Here
<1>3. PICK st, base : /\ Frames(program, st, base, Here, opened, scopes, "collect")
                      /\ Collected(program, st, base, Here, scopes)
  BY <1>1 DEF Inv, CollectInv
<1>4. Fit(program, st, base, Here, opened, scopes)
  BY <1>2, <1>3, FramesFit
<1>5. st = <<>> /\ base[1] = 1 /\ DepthIn(program, Here) = 0 /\ Len(scopes) \in Nat \ {0}
      /\ scopes \in Seq(Scope)
  <2>1. st = <<>> /\ Len(st) = 0 /\ Len(scopes) \in Nat \ {0} /\ scopes \in Seq(Scope)
    BY <1>1, <1>4 DEF Fit
  <2> QED
    BY <1>3, <2>1 DEF Frames, Chain
<1>6. Complete(program)
  BY <1>2, <1>5 DEF Complete
<1>7. PICK g : g = [x \in Names |-> IF scopes[1][x].kind = "function"
                                    THEN scopes[1][x] ELSE Undeclared]
  OBVIOUS
<1>8. scopes' = <<g>>
  BY <1>7 DEF CreateValidationRoot
<1>9. g \in Scope
  <2>1. scopes[1] \in [Names -> Symbol]
    BY <1>5 DEF Scope
  <2> QED
    BY <1>7, <2>1, Symbols DEF Scope
<1>10. scopes' \in Seq(Scope) /\ scopes' # <<>> /\ scopes'[1] = g /\ Len(scopes') = 1
  BY <1>8, <1>9
<1>11. Typed'
  BY <1>1, <1>2, <1>6, <1>10 DEF Typed, Inv, Phases
<1>12. Duplicates'
  BY <1>1 DEF Duplicates, Inv
<1>13. Frames(program, <<>>, <<1>>, 1, opened, scopes', "validate")
  BY <1>1, <1>8, <1>9, FramesStart
<1>14. ASSUME NoRepeats(program)
       PROVE  Validated(program, <<>>, <<1>>, 1, scopes')
  <2>1. Collected(program, <<>>, base, Len(program) + 1, scopes)
    BY <1>2, <1>3, <1>5
  <2>2. \A x \in Names : FunctionIs(program, x, g[x])
    BY <1>2, <1>5, <1>7, <1>14, <2>1, RootScope
  <2>3. 1 .. 1 - 1 = {} /\ \A i \in 1 .. Len(scopes') : i = 1
    BY <1>10
  <2> QED
    BY <1>10, <2>2, <2>3 DEF Validated
<1>15. ValidateInv'
  <2>1. cursor' + 1 = 1
    BY <1>1
  <2>2. Bound(program, 1, sem_binding, errors)
    BY DEF Bound
  <2>3. DOMAIN sem_binding = {}
    BY <1>2
  <2>4. \A n \in Nat : n \notin 1 .. cursor' =>
          n \notin DOMAIN sem_binding /\ <<"undeclared", n>> \notin errors
    BY <1>2, <2>3
  <2>5. Here' = 1
    BY <2>1 DEF Here
  <2> QED
    BY <1>1, <1>13, <1>14, <2>2, <2>4, <2>5 DEF ValidateInv
<1> QED
  BY <1>1, <1>11, <1>12, <1>15 DEF Inv, CollectInv, ValidatedInv, LowerInv, BuiltInv

-----------------------------------------------------------------------------
(* Validation *)

\* Item n itself is declared in the current scope, if it is a variable.
LEMMA SlotHere ==
  ASSUME NEW p, NEW n \in Nat \ {0}, NEW st, NEW base, NEW op, NEW sc,
         Frames(p, st, base, n, op, sc, "validate"), NEW i
  PROVE  InSlot(p, st, base, i, n) <=> i = Len(sc) /\ p[n].op \in {"global", "decl"}
<1>1. Fit(p, st, base, n, op, sc) /\ Chain(p, st, n)
  BY FramesFit DEF Frames
<1>2. /\ Len(st) \in Nat /\ Len(sc) = base[Len(st) + 1] /\ Len(st) + 1 \in 1 .. Len(st) + 1
      /\ \A k \in 1 .. Len(st) : st[k] # n
  BY <1>1 DEF Fit
<1>3. ParentIs(p, n, Outer(st, Len(st) + 1))
  BY <1>1, ChainParent
<1>4. ASSUME NEW k \in 1 .. Len(st) + 1, ParentIs(p, n, Outer(st, k))
      PROVE  k = Len(st) + 1
  <2>1. Outer(st, k) = Outer(st, Len(st) + 1)
    BY <1>1, <1>4, ChainParent
  <2> QED
    BY <1>1, <1>2, <2>1, OuterDiffers
<1> QED
  BY <1>2, <1>3, <1>4 DEF InSlot

\* A variable of the current scope is in the same block as item n.
LEMMA SlotTwins ==
  ASSUME NEW p, NEW n \in Nat \ {0}, NEW st, NEW base, NEW op, NEW sc,
         Frames(p, st, base, n, op, sc, "validate"),
         p[n].op \in {"global", "decl"},
         NEW m, Declares(p, m, p[n].name), InSlot(p, st, base, Len(sc), m)
  PROVE  Twins(p, m, n)
<1>1. Fit(p, st, base, n, op, sc) /\ Chain(p, st, n)
  BY FramesFit DEF Frames
<1>2. /\ Len(st) \in Nat /\ Len(sc) = base[Len(st) + 1] /\ Len(st) + 1 \in 1 .. Len(st) + 1
      /\ \A k \in 1 .. Len(st) + 1 : base[k] \in Nat
  BY <1>1 DEF Fit
<1>3. ParentIs(p, n, Outer(st, Len(st) + 1))
  BY <1>1, ChainParent
<1>4. ASSUME NEW k \in 1 .. Len(st) + 1, Len(sc) = base[k]
      PROVE  k = Len(st) + 1
  <2>1. CASE k < Len(st) + 1
    <3>1. base[k] < base[Len(st) + 1]
      BY <1>2, <2>1, BaseStrict
    <3> QED
      BY <1>2, <1>4, <3>1
  <2> QED
    BY <1>2, <2>1
<1>5. ASSUME NEW k \in 1 .. Len(st), Len(sc) = base[k + 1] - 1
      PROVE  FALSE
  <2>1. k + 1 \in 1 .. Len(st) + 1 /\ k + 1 <= Len(st) + 1
    BY <1>2
  <2>2. base[k + 1] \in 1 .. Len(sc)
    BY <1>1, <2>1 DEF Fit
  <2>3. Len(sc) \in Nat
    BY <1>1 DEF Fit
  <2> QED
    BY <1>5, <2>2, <2>3
<1>6. p[m].op \in {"global", "decl"} /\ ParentIs(p, m, Outer(st, Len(st) + 1))
  BY <1>4, <1>5 DEF InSlot
<1>7. p[m].name = p[n].name
  BY <1>6 DEF Declares
<1> QED
  BY <1>3, <1>6, <1>7 DEF Twins, DeclOps

\* The scopes after the declaration of item n.
LEMMA ValidatedPast ==
  ASSUME NEW p \in Seq(Item), NoRepeats(p), WellNested(p),
         NEW n \in DOMAIN p, NEW st, NEW base, NEW op, NEW sc,
         Frames(p, st, base, n, op, sc, "validate"), Validated(p, st, base, n, sc),
         NEW sc2,
         \/ p[n].op \notin {"global", "decl"} /\ sc2 = sc
         \/ p[n].op \in {"global", "decl"} /\ p[n].name \in Names
            /\ sc2 = Declare(sc, p[n].name, Variable(n))
  PROVE  Validated(p, st, base, n + 1, sc2)
<1>1. n \in Nat \ {0} /\ (n + 1) - 1 = n /\ DOMAIN p = 1 .. Len(p)
  OBVIOUS
<1>2. Fit(p, st, base, n, op, sc) /\ Chain(p, st, n)
  BY <1>1, FramesFit DEF Frames
<1>3. sc \in Seq(Scope) /\ sc # <<>> /\ Len(sc) \in Nat \ {0}
  BY <1>2 DEF Fit
<1>4. \A i : InSlot(p, st, base, i, n) <=> i = Len(sc) /\ p[n].op \in {"global", "decl"}
  BY <1>1, SlotHere
<1>5. \A m \in 1 .. (n + 1) - 1 : m \in 1 .. n - 1 \/ m = n
  BY <1>1
<1>6. \A m \in 1 .. n - 1 : m \in 1 .. (n + 1) - 1
  BY <1>1
<1>7. CASE p[n].op \notin {"global", "decl"} /\ sc2 = sc
  <2>1. \A i : ~InSlot(p, st, base, i, n)
    BY <1>4, <1>7
  <2> QED
    BY <1>5, <1>6, <1>7, <2>1 DEF Validated
<1>8. CASE p[n].op \in {"global", "decl"} /\ p[n].name \in Names
            /\ sc2 = Declare(sc, p[n].name, Variable(n))
  <2>1. PICK y : y = p[n].name
    OBVIOUS
  <2>2. Variable(n) \in Symbol /\ y \in Names
    BY <1>1, <1>8, <2>1, Symbols
  <2>3. /\ Len(sc2) = Len(sc)
        /\ \A i \in 1 .. Len(sc) : \A x \in Names :
             /\ ~(i = Len(sc) /\ x = y) => sc2[i][x] = sc[i][x]
             /\ i = Len(sc) /\ x = y /\ sc[i][x] = Undeclared => sc2[i][x] = Variable(n)
    BY <1>3, <1>8, <2>1, <2>2, DeclareIn
  <2>4. Declares(p, n, y) /\ \A x : Declares(p, n, x) => x = y
    BY <1>8, <2>1 DEF Declares
  <2>5. \A m \in 1 .. n - 1 : ~Twins(p, m, n)
    BY DEF NoRepeats, Repeats
  <2>6. \A m \in 1 .. n - 1 : ~(Declares(p, m, y) /\ InSlot(p, st, base, Len(sc), m))
    BY <1>1, <1>8, <2>1, <2>5, SlotTwins
  <2>7. sc[Len(sc)][y] = Undeclared
    <3>1. Len(sc) \in 1 .. Len(sc)
      BY <1>3
    <3>2. \/ Len(sc) = 1 /\ FunctionIs(p, y, sc[Len(sc)][y])
          \/ sc[Len(sc)][y] = Undeclared
      BY <2>2, <2>6, <3>1 DEF Validated
    <3>3. ASSUME Len(sc) = 1, NEW f, IsFunction(p, f, y)
          PROVE  FALSE
      <4>1. Len(st) = 0
        <5>1. Len(st) \in Nat /\ Len(sc) = base[Len(st) + 1] /\ base[1] = 1
          BY <1>2 DEF Fit, Frames
        <5>2. CASE Len(st) # 0
          <6>1. 1 \in 1 .. Len(st) + 1 /\ Len(st) + 1 \in 1 .. Len(st) + 1 /\ 1 < Len(st) + 1
            BY <5>1, <5>2
          <6>2. base[1] < base[Len(st) + 1]
            BY <1>1, <6>1, BaseStrict
          <6> QED
            BY <3>3, <5>1, <6>2
        <5> QED
          BY <5>2
      <4>2. DepthIn(p, n) = 0
        BY <1>2, <4>1 DEF Chain
      <4>3. InBlock(p, n, y, 0) /\ InBlock(p, f, y, 0) /\ f \in DOMAIN p
        BY <1>8, <2>1, <3>3, <4>2 DEF InBlock, IsFunction, ParentIs, DeclOps
      <4>4. n = f
        BY <4>3, OneDeclaration
      <4> QED
        BY <1>8, <3>3, <4>4 DEF IsFunction
    <3> QED
      BY <3>2, <3>3 DEF FunctionIs
  <2>8. ASSUME NEW i \in 1 .. Len(sc2), NEW x \in Names
        PROVE  /\ \A m \in 1 .. (n + 1) - 1 :
                    Declares(p, m, x) /\ InSlot(p, st, base, i, m) => sc2[i][x] = Variable(m)
               /\ \/ i = 1 /\ FunctionIs(p, x, sc2[i][x])
                  \/ i # 1 /\ sc2[i][x] = Undeclared
                  \/ \E m \in 1 .. (n + 1) - 1 :
                       Declares(p, m, x) /\ InSlot(p, st, base, i, m) /\ sc2[i][x] = Variable(m)
    <3>0. i \in 1 .. Len(sc)
      BY <2>3
    <3>1. CASE i = Len(sc) /\ x = y
      <4>1. sc2[i][x] = Variable(n)
        BY <2>3, <2>7, <3>0, <3>1
      <4>2. InSlot(p, st, base, i, n)
        BY <1>4, <1>8, <3>1
      <4>3. n \in 1 .. (n + 1) - 1
        BY <1>1
      <4> QED
        BY <1>5, <2>4, <2>6, <3>1, <4>1, <4>2, <4>3
    <3>2. CASE ~(i = Len(sc) /\ x = y)
      <4>1. sc2[i][x] = sc[i][x]
        BY <2>3, <3>0, <3>2
      <4>2. ~(Declares(p, n, x) /\ InSlot(p, st, base, i, n))
        BY <1>4, <2>4, <3>2
      <4> QED
        BY <1>5, <1>6, <3>0, <4>1, <4>2 DEF Validated
    <3> QED
      BY <3>1, <3>2
  <2> QED
    BY <2>8 DEF Validated
<1> QED
  BY <1>7, <1>8

\* The slots after item n has opened its scopes, the last of which is w.
LEMMA SlotOpened ==
  ASSUME NEW p, NEW n \in Nat \ {0}, NEW st, NEW base, NEW op, NEW sc,
         Frames(p, st, base, n, op, sc, "validate"), p[n].op \in OpenOps,
         NEW w \in Nat, w > Len(sc), p[n].op \in {"func", "for"} => w > Len(sc) + 1,
         NEW m \in 1 .. n, NEW i \in 1 .. w
  PROVE  InSlot(p, Append(st, n), Append(base, w), i, m) <=>
           \/ i <= Len(sc) /\ InSlot(p, st, base, i, m)
           \/ m = n /\ p[n].op \in {"func", "for"} /\ i = w - 1
<1>1. Fit(p, st, base, n, op, sc)
  BY FramesFit
<1>2. PICK L : L = Len(st)
  OBVIOUS
<1>3. /\ L \in Nat /\ Len(base) = L + 1 /\ st \in Seq(1 .. n - 1) /\ base \in Seq(Nat)
      /\ Len(sc) \in Nat /\ \A k \in 1 .. L + 1 : base[k] \in 1 .. Len(sc)
  BY <1>1, <1>2 DEF Fit
<1>4. PICK t : t = Append(st, n)
  OBVIOUS
<1>5. PICK b : b = Append(base, w)
  OBVIOUS
<1>6. Len(t) = L + 1 /\ (\A k \in 1 .. L : t[k] = st[k]) /\ t[L + 1] = n
  BY <1>2, <1>3, <1>4
<1>7. (\A k \in 1 .. L + 1 : b[k] = base[k]) /\ b[L + 2] = w
  <2>1. Len(base) + 1 = L + 2
    BY <1>3
  <2> QED
    BY <1>3, <1>5, <2>1
<1>8. \A k \in 1 .. L + 1 : Outer(t, k) = Outer(st, k)
  <2>1. \A k \in 1 .. L + 1 : k # 1 => k - 1 \in 1 .. L
    BY <1>3
  <2> QED
    BY <1>6, <2>1 DEF Outer
<1>9. Outer(t, L + 2) = n
  <2>1. L + 2 # 1 /\ (L + 2) - 1 = L + 1
    BY <1>3
  <2> QED
    BY <1>6, <2>1 DEF Outer
<1>10. ~ParentIs(p, m, n)
  BY DEF ParentIs, Inside
<1>11. \A k \in 1 .. Len(t) + 1 : k \in 1 .. L + 1 \/ k = L + 2
  BY <1>3, <1>6
<1>12. \A k \in 1 .. Len(t) : k \in 1 .. L \/ k = L + 1
  BY <1>3, <1>6
<1>13. \A k \in 1 .. L + 1 : k \in 1 .. Len(t) + 1
  BY <1>3, <1>6
<1>14. \A k \in 1 .. L : k \in 1 .. Len(t) /\ k + 1 \in 1 .. L + 1
  BY <1>3, <1>6
<1>15. (\E k \in 1 .. Len(t) + 1 :
          /\ i = b[k] /\ p[m].op \in {"global", "decl"}
          /\ ParentIs(p, m, Outer(t, k)))
       <=> (\E k \in 1 .. L + 1 :
              /\ i = base[k] /\ p[m].op \in {"global", "decl"}
              /\ ParentIs(p, m, Outer(st, k)))
  <2>1. ASSUME NEW k \in 1 .. Len(t) + 1, i = b[k], ParentIs(p, m, Outer(t, k))
        PROVE  k \in 1 .. L + 1 /\ i = base[k] /\ ParentIs(p, m, Outer(st, k))
    <3>1. k \in 1 .. L + 1
      BY <1>9, <1>10, <1>11, <2>1
    <3> QED
      BY <1>7, <1>8, <2>1, <3>1
  <2>2. ASSUME NEW k \in 1 .. L + 1, i = base[k], ParentIs(p, m, Outer(st, k))
        PROVE  k \in 1 .. Len(t) + 1 /\ i = b[k] /\ ParentIs(p, m, Outer(t, k))
    BY <1>7, <1>8, <1>13, <2>2
  <2> QED
    BY <2>1, <2>2
<1>16. L + 1 \in 1 .. Len(t) /\ (L + 1) + 1 = L + 2
  BY <1>3, <1>6
<1>17. (\E k \in 1 .. Len(t) : m = t[k] /\ p[m].op \in {"func", "for"} /\ i = b[k + 1] - 1)
       <=> \/ \E k \in 1 .. L : m = st[k] /\ p[m].op \in {"func", "for"} /\ i = base[k + 1] - 1
           \/ m = n /\ p[m].op \in {"func", "for"} /\ i = w - 1
  <2>1. ASSUME NEW k \in 1 .. Len(t), m = t[k], p[m].op \in {"func", "for"}, i = b[k + 1] - 1
        PROVE  \/ \E r \in 1 .. L : m = st[r] /\ p[m].op \in {"func", "for"} /\ i = base[r + 1] - 1
               \/ m = n /\ p[m].op \in {"func", "for"} /\ i = w - 1
    <3>1. CASE k \in 1 .. L
      BY <1>6, <1>7, <1>14, <2>1, <3>1
    <3>2. CASE k = L + 1
      BY <1>6, <1>7, <1>16, <2>1, <3>2
    <3> QED
      BY <1>12, <3>1, <3>2
  <2>2. ASSUME NEW k \in 1 .. L, m = st[k], i = base[k + 1] - 1
        PROVE  k \in 1 .. Len(t) /\ m = t[k] /\ i = b[k + 1] - 1
    BY <1>6, <1>7, <1>14, <2>2
  <2>3. ASSUME m = n, i = w - 1
        PROVE  m = t[L + 1] /\ i = b[(L + 1) + 1] - 1
    BY <1>6, <1>7, <1>16, <2>3
  <2> QED
    BY <1>16, <2>1, <2>2, <2>3
<1>18. InSlot(p, t, b, i, m) <=>
         \/ InSlot(p, st, base, i, m)
         \/ m = n /\ p[n].op \in {"func", "for"} /\ i = w - 1
  BY <1>2, <1>15, <1>17 DEF InSlot
<1>19. InSlot(p, st, base, i, m) => i <= Len(sc)
  <2>1. \A k \in 1 .. L + 1 : base[k] <= Len(sc) /\ base[k] - 1 <= Len(sc)
    BY <1>3
  <2> QED
    BY <1>2, <1>14, <2>1 DEF InSlot
<1> QED
  BY <1>4, <1>5, <1>18, <1>19

\* The slots after the innermost open item was closed.
LEMMA SlotClosed ==
  ASSUME NEW p, NEW n \in Nat \ {0}, NEW st, NEW base, NEW op, NEW sc,
         Frames(p, st, base, n, op, sc, "validate"), st # <<>>,
         NEW m, NEW i \in 1 .. base[Len(st)]
  PROVE  InSlot(p, Front(st), Front(base), i, m) <=> InSlot(p, st, base, i, m)
<1>1. Fit(p, st, base, n, op, sc)
  BY FramesFit
<1>2. PICK L : L = Len(st)
  OBVIOUS
<1>3. /\ L \in Nat \ {0} /\ Len(base) = L + 1 /\ st \in Seq(1 .. n - 1) /\ base \in Seq(Nat)
      /\ \A k \in 1 .. L : op[k] = p[st[k]].op
      /\ \A k \in 1 .. L + 1 : base[k] \in Nat
  BY <1>1, <1>2, SMTT(30) DEF Fit
<1>4. PICK t : t = Front(st)
  OBVIOUS
<1>5. PICK b : b = Front(base)
  OBVIOUS
<1>6. Len(t) = L - 1 /\ \A k \in 1 .. L - 1 : t[k] = st[k]
  BY <1>2, <1>3, <1>4, FrontOf
<1>7. \A k \in 1 .. L : b[k] = base[k]
  <2>1. base # <<>> /\ Len(base) - 1 = L
    BY <1>3
  <2> QED
    BY <1>3, <1>5, <2>1, FrontOf
<1>8. \A k \in 1 .. L : Outer(t, k) = Outer(st, k)
  <2>1. \A k \in 1 .. L : k # 1 => k - 1 \in 1 .. L - 1
    BY <1>3
  <2> QED
    BY <1>6, <2>1 DEF Outer
<1>9. base[L] < base[L + 1] /\ (op[L] \in {"func", "for"} => base[L] < base[L + 1] - 1)
  <2>1. L \in 1 .. Len(st) + 1 /\ L + 1 \in 1 .. Len(st) + 1 /\ L < L + 1 /\ (L + 1) - 1 = L
    BY <1>2, <1>3, SMTT(30)
  <2> QED
    BY <2>1, BaseStrict
<1>10. i <= base[L] /\ i # base[L + 1] /\ (op[L] \in {"func", "for"} => i # base[L + 1] - 1)
  BY <1>2, <1>3, <1>9
<1>11. 1 .. Len(t) + 1 = 1 .. L /\ 1 .. L \subseteq 1 .. L + 1
       /\ \A k \in 1 .. L + 1 : k \in 1 .. L \/ k = L + 1
  BY <1>3, <1>6
<1>12. 1 .. Len(t) = 1 .. L - 1 /\ (\A k \in 1 .. L - 1 : k \in 1 .. L /\ k + 1 \in 1 .. L)
       /\ \A k \in 1 .. L : k \in 1 .. L - 1 \/ k = L
  BY <1>3, <1>6
<1>13. (\E k \in 1 .. Len(t) + 1 :
          /\ i = b[k] /\ p[m].op \in {"global", "decl"}
          /\ ParentIs(p, m, Outer(t, k)))
       <=> (\E k \in 1 .. L + 1 :
              /\ i = base[k] /\ p[m].op \in {"global", "decl"}
              /\ ParentIs(p, m, Outer(st, k)))
  BY <1>7, <1>8, <1>10, <1>11
<1>14. (\E k \in 1 .. Len(t) : m = t[k] /\ p[m].op \in {"func", "for"} /\ i = b[k + 1] - 1)
       <=> (\E k \in 1 .. L : m = st[k] /\ p[m].op \in {"func", "for"} /\ i = base[k + 1] - 1)
  BY <1>3, <1>6, <1>7, <1>10, <1>12, ZenonT(40)
<1> QED
  BY <1>2, <1>4, <1>5, <1>13, <1>14 DEF InSlot

\* Something is opened.
LEMMA ValidatedOpen ==
  ASSUME NEW p, NEW n \in Nat \ {0}, NEW st, NEW base, NEW op, NEW sc,
         Frames(p, st, base, n, op, sc, "validate"), Validated(p, st, base, n + 1, sc),
         p[n].op \in OpenOps, NEW sc2,
         \/ p[n].op = "block" /\ EntersEmpty(sc, sc2)
         \/ p[n].op = "func" /\ EntersBoth(sc, sc2, p[n].with, n)
         \/ p[n].op = "for" /\ EntersBoth(sc, sc2, p[n].name, n)
  PROVE  Validated(p, Append(st, n), Append(base, Len(sc2)), n + 1, sc2)
<1>1. PICK w : w = Len(sc2)
  OBVIOUS
<1>2. /\ Len(sc) \in Nat \ {0} /\ w \in Nat /\ w > Len(sc) /\ (n + 1) - 1 = n
      /\ p[n].op = "block" => w = Len(sc) + 1
      /\ p[n].op \in {"func", "for"} => w = Len(sc) + 2
  <2>1. Len(sc) \in Nat \ {0}
    BY FramesFit DEF Fit
  <2>2. /\ p[n].op = "block" => w = Len(sc) + 1
        /\ p[n].op \in {"func", "for"} => w = Len(sc) + 2
    BY <1>1 DEF EntersEmpty, EntersBoth
  <2>3. p[n].op = "block" \/ p[n].op \in {"func", "for"}
    BY DEF OpenOps
  <2> QED
    BY <2>1, <2>2, <2>3
<1>3. \A m \in 1 .. n, i \in 1 .. w :
        InSlot(p, Append(st, n), Append(base, w), i, m) <=>
           \/ i <= Len(sc) /\ InSlot(p, st, base, i, m)
           \/ m = n /\ p[n].op \in {"func", "for"} /\ i = w - 1
  BY <1>2, SlotOpened
<1>4. \A i \in 1 .. Len(sc) : sc2[i] = sc[i]
  BY DEF EntersEmpty, EntersBoth
<1>5. \A x \in Names : sc2[w][x] = Undeclared
  BY <1>1, <1>2 DEF EntersEmpty, EntersBoth
<1>6. ASSUME p[n].op \in {"func", "for"}, NEW x \in Names
      PROVE  /\ Declares(p, n, x) => sc2[w - 1][x] = Variable(n)
             /\ ~Declares(p, n, x) => sc2[w - 1][x] = Undeclared
  <2>1. w - 1 = Len(sc) + 1
    BY <1>2, <1>6
  <2>2. CASE p[n].op = "func"
    <3>1. EntersBoth(sc, sc2, p[n].with, n) /\ (Declares(p, n, x) <=> x = p[n].with)
      BY <2>2 DEF Declares
    <3> QED
      BY <2>1, <3>1 DEF EntersBoth
  <2>3. CASE p[n].op = "for"
    <3>1. EntersBoth(sc, sc2, p[n].name, n) /\ (Declares(p, n, x) <=> x = p[n].name)
      BY <2>3 DEF Declares
    <3> QED
      BY <2>1, <3>1 DEF EntersBoth
  <2> QED
    BY <1>6, <2>2, <2>3
<1>7. ASSUME NEW i \in 1 .. w, NEW x \in Names
      PROVE  /\ \A m \in 1 .. n :
                  Declares(p, m, x) /\ InSlot(p, Append(st, n), Append(base, w), i, m) => sc2[i][x] = Variable(m)
             /\ \/ i = 1 /\ FunctionIs(p, x, sc2[i][x])
                \/ i # 1 /\ sc2[i][x] = Undeclared
                \/ \E m \in 1 .. n :
                     /\ Declares(p, m, x) /\ InSlot(p, Append(st, n), Append(base, w), i, m)
                     /\ sc2[i][x] = Variable(m)
  <2>1. CASE i <= Len(sc)
    <3>1. i \in 1 .. Len(sc) /\ ~(p[n].op \in {"func", "for"} /\ i = w - 1)
      BY <1>2, <2>1
    <3>2. \A m \in 1 .. n :
            InSlot(p, Append(st, n), Append(base, w), i, m) <=> InSlot(p, st, base, i, m)
      BY <1>3, <2>1, <3>1
    <3>3. /\ \A m \in 1 .. n : Declares(p, m, x) /\ InSlot(p, st, base, i, m) => sc[i][x] = Variable(m)
          /\ \/ i = 1 /\ FunctionIs(p, x, sc[i][x])
             \/ i # 1 /\ sc[i][x] = Undeclared
             \/ \E m \in 1 .. n : Declares(p, m, x) /\ InSlot(p, st, base, i, m) /\ sc[i][x] = Variable(m)
      BY <1>2, <3>1 DEF Validated
    <3> QED
      BY <1>4, <3>1, <3>2, <3>3
  <2>2. CASE i = w
    <3>1. ~(i <= Len(sc)) /\ i # w - 1 /\ i # 1
      BY <1>2, <2>2
    <3>2. \A m \in 1 .. n : ~InSlot(p, Append(st, n), Append(base, w), i, m)
      BY <1>3, <3>1
    <3> QED
      BY <1>5, <2>2, <3>1, <3>2
  <2>3. CASE p[n].op \in {"func", "for"} /\ i = w - 1 /\ ~(i <= Len(sc))
    <3>1. \A m \in 1 .. n : InSlot(p, Append(st, n), Append(base, w), i, m) <=> m = n
      BY <1>3, <2>3
    <3>2. n \in 1 .. n /\ i # 1
      BY <1>2, <2>3
    <3> QED
      BY <1>6, <2>3, <3>1, <3>2
  <2>4. \/ i <= Len(sc) \/ i = w
        \/ p[n].op \in {"func", "for"} /\ i = w - 1
    <3>1. CASE p[n].op = "block"
      BY <1>2, <3>1
    <3>2. CASE p[n].op \in {"func", "for"}
      BY <1>2, <3>2
    <3> QED
      BY <3>1, <3>2 DEF OpenOps
  <2> QED
    BY <2>1, <2>2, <2>3, <2>4
<1> QED
  BY <1>1, <1>2, <1>7 DEF Validated

\* Something is closed.
LEMMA ValidatedClose ==
  ASSUME NEW p, NEW n \in Nat \ {0}, NEW st, NEW base, NEW op, NEW sc,
         Frames(p, st, base, n, op, sc, "validate"), st # <<>>,
         Validated(p, st, base, n + 1, sc), NEW sc2, Leaves(st, base, sc, sc2)
  PROVE  Validated(p, Front(st), Front(base), n + 1, sc2)
<1>1. Len(sc2) = base[Len(st)] /\ Len(sc2) <= Len(sc) /\ sc2 \in Seq(Scope)
      /\ \A i \in 1 .. Len(sc2) : sc2[i] = sc[i]
  BY DEF Leaves
<1>2. Len(sc) \in Nat
  BY FramesFit DEF Fit
<1>3. \A i \in 1 .. Len(sc2) : i \in 1 .. Len(sc)
  BY <1>1, <1>2
<1>4. \A i \in 1 .. Len(sc2) : \A m :
        InSlot(p, Front(st), Front(base), i, m) <=> InSlot(p, st, base, i, m)
  BY <1>1, SlotClosed
<1> QED
  BY <1>1, <1>3, <1>4 DEF Validated

\* What is declared in the block of an open item comes after that item, and
\* before the next open one.
LEMMA LevelOrder ==
  ASSUME NEW p, NEW n \in Nat \ {0}, NEW st, Chain(p, st, n),
         NEW m \in 1 .. n - 1, NEW k \in 1 .. Len(st) + 1, ParentIs(p, m, Outer(st, k))
  PROVE  /\ k # 1 => k - 1 \in 1 .. Len(st) /\ st[k - 1] < m
         /\ k <= Len(st) /\ p[m].op \notin OpenOps => k \in 1 .. Len(st) /\ m < st[k]
<1>1. /\ Len(st) \in Nat /\ m \in Nat \ {0}
      /\ \A j \in 1 .. Len(st) : Inside(p, st[j], n) /\ DepthIn(p, st[j]) = j - 1
      /\ \A j \in 1 .. Len(st) : st[j] \in 1 .. n - 1
  BY DEF Chain, Inside
<1>2. ASSUME k # 1
      PROVE  k - 1 \in 1 .. Len(st) /\ st[k - 1] < m /\ DepthIn(p, m) = k - 1
  <2>1. k - 1 \in 1 .. Len(st) /\ Outer(st, k) = st[k - 1]
    BY <1>1, <1>2 DEF Outer
  <2>2. st[k - 1] # 0
    BY <1>1, <2>1
  <2>3. Inside(p, st[k - 1], m) /\ DepthIn(p, st[k - 1]) = DepthIn(p, m) - 1
    BY <2>1, <2>2 DEF ParentIs
  <2>4. DepthIn(p, st[k - 1]) = (k - 1) - 1 /\ DepthIn(p, m) \in Int
    BY <1>1, <2>1, DepthNext
  <2>5. st[k - 1] \in 1 .. m - 1
    BY <2>3 DEF Inside
  <2> QED
    BY <1>1, <2>1, <2>3, <2>4, <2>5
<1>3. ASSUME k = 1 PROVE DepthIn(p, m) = 0
  <2>1. Outer(st, k) = 0 /\ ~Inside(p, 0, m)
    BY <1>3 DEF Outer, Inside
  <2> QED
    BY <2>1 DEF ParentIs
<1>4. ASSUME k <= Len(st), p[m].op \notin OpenOps
      PROVE  k \in 1 .. Len(st) /\ m < st[k]
  <2>1. k \in 1 .. Len(st) /\ st[k] \in 1 .. n - 1
    BY <1>1, <1>4
  <2>2. DepthIn(p, m) = k - 1
    BY <1>2, <1>3
  <2>3. m # st[k]
    BY <1>1, <1>4, <2>1 DEF Inside
  <2>4. ASSUME st[k] < m PROVE FALSE
    <3>1. m \in st[k] + 1 .. n
      BY <1>1, <2>1, <2>4
    <3>2. DepthIn(p, m) > DepthIn(p, st[k]) /\ DepthIn(p, st[k]) = k - 1
      BY <1>1, <2>1, <3>1 DEF Inside
    <3> QED
      BY <2>1, <2>2, <3>2
  <2> QED
    BY <1>1, <2>1, <2>3, <2>4
<1> QED
  BY <1>2, <1>4

\* The items that are open, in order.
LEMMA ChainOrder ==
  ASSUME NEW p, NEW n \in Nat \ {0}, NEW st, Chain(p, st, n),
         NEW j \in 1 .. Len(st), NEW k \in 1 .. Len(st), j <= k
  PROVE  st[j] <= st[k] /\ (j < k => st[j] < st[k])
<1>1. st[j] \in Nat /\ st[k] \in Nat
  BY DEF Chain, Inside
<1>2. j < k => st[j] < st[k]
  BY ChainIncreasing
<1> QED
  BY <1>1, <1>2

\* A variable of an inner scope is declared after those of the outer ones.
LEMMA SlotOrder ==
  ASSUME NEW p, NEW n \in Nat \ {0}, NEW st, NEW base, NEW op, NEW sc,
         Frames(p, st, base, n, op, sc, "validate"),
         NEW u \in 1 .. n - 1, NEW m \in 1 .. n - 1, NEW h, NEW i,
         InSlot(p, st, base, h, u), InSlot(p, st, base, i, m), h < i
  PROVE  u < m
<1>1. Fit(p, st, base, n, op, sc) /\ Chain(p, st, n)
  BY FramesFit DEF Frames
<1>2. PICK L : L = Len(st)
  OBVIOUS
<1>3. /\ L \in Nat /\ \A k \in 1 .. L + 1 : base[k] \in Nat
      /\ \A k \in 1 .. L : st[k] \in Nat /\ op[k] = p[st[k]].op
  BY <1>1, <1>2, SMTT(30) DEF Fit
<1>4. \A j, k \in 1 .. L + 1 : j <= k => base[j] <= base[k]
  BY <1>1, <1>2 DEF Frames, Fit
<1>5. \A j, k \in 1 .. L : j <= k => st[j] <= st[k] /\ (j < k => st[j] < st[k])
  BY <1>1, <1>2, ChainOrder
<1>6. \A k \in 1 .. L : k \in 1 .. L + 1 /\ k + 1 \in 1 .. L + 1 /\ k < k + 1 /\ (k + 1) - 1 = k
  BY <1>3
<1>7. \A j \in 1 .. L + 1, k \in 1 .. L : j <= k /\ p[st[k]].op \in {"func", "for"} => base[j] < base[k + 1] - 1
  <2> SUFFICES ASSUME NEW j \in 1 .. L + 1, NEW k \in 1 .. L, j <= k, p[st[k]].op \in {"func", "for"}
               PROVE  base[j] < base[k + 1] - 1
    OBVIOUS
  <2>1. k + 1 \in 1 .. Len(st) + 1 /\ j \in 1 .. Len(st) + 1 /\ j < k + 1 /\ op[(k + 1) - 1] \in {"func", "for"}
    BY <1>2, <1>3
  <2> QED
    BY <2>1, BaseStrict
<1>8. ASSUME NEW c \in 1 .. n - 1, NEW k \in 1 .. L + 1, p[c].op \in {"global", "decl"},
             ParentIs(p, c, Outer(st, k))
      PROVE  /\ k # 1 => k - 1 \in 1 .. L /\ st[k - 1] < c
             /\ k <= L => k \in 1 .. L /\ c < st[k]
  <2>1. p[c].op \notin OpenOps
    BY <1>8 DEF OpenOps
  <2> QED
    BY <1>1, <1>2, <1>8, <2>1, LevelOrder
<1>9. u \in Nat /\ m \in Nat
  OBVIOUS
<1>10. ASSUME NEW j \in 1 .. L + 1, h = base[j], p[u].op \in {"global", "decl"}, ParentIs(p, u, Outer(st, j)),
              NEW k \in 1 .. L + 1, i = base[k], p[m].op \in {"global", "decl"}, ParentIs(p, m, Outer(st, k))
       PROVE  u < m
  <2>1. ~(k <= j)
    BY <1>3, <1>4, <1>10
  <2>2. k # 1 /\ j <= L /\ j <= k - 1
    BY <1>3, <2>1
  <2>3. u < st[j] /\ st[k - 1] < m /\ j \in 1 .. L /\ k - 1 \in 1 .. L
    BY <1>8, <1>10, <2>2
  <2>4. st[j] <= st[k - 1]
    BY <1>5, <2>2, <2>3
  <2> QED
    BY <1>3, <1>9, <2>3, <2>4
<1>11. ASSUME NEW j \in 1 .. L + 1, h = base[j], p[u].op \in {"global", "decl"}, ParentIs(p, u, Outer(st, j)),
              NEW k \in 1 .. L, m = st[k], i = base[k + 1] - 1
       PROVE  u < m
  <2>1. ~(k + 1 <= j)
    BY <1>3, <1>4, <1>6, <1>11
  <2>2. j <= L /\ j <= k
    BY <1>3, <2>1
  <2>3. u < st[j] /\ j \in 1 .. L
    BY <1>8, <1>11, <2>2
  <2>4. st[j] <= st[k]
    BY <1>5, <2>2, <2>3
  <2> QED
    BY <1>3, <1>9, <1>11, <2>3, <2>4
<1>12. ASSUME NEW j \in 1 .. L, u = st[j], p[u].op \in {"func", "for"}, h = base[j + 1] - 1,
              NEW k \in 1 .. L + 1, i = base[k], p[m].op \in {"global", "decl"}, ParentIs(p, m, Outer(st, k))
       PROVE  u < m
  <2>1. ASSUME k <= j PROVE FALSE
    <3>1. base[k] < base[j + 1] - 1
      BY <1>7, <1>12, <2>1
    <3> QED
      BY <1>3, <1>6, <1>12, <3>1
  <2>2. k # 1 /\ j <= k - 1
    BY <1>3, <2>1
  <2>3. st[k - 1] < m /\ k - 1 \in 1 .. L
    BY <1>8, <1>12, <2>2
  <2>4. st[j] <= st[k - 1]
    BY <1>5, <2>2, <2>3
  <2> QED
    BY <1>3, <1>9, <1>12, <2>3, <2>4
<1>13. ASSUME NEW j \in 1 .. L, u = st[j], h = base[j + 1] - 1,
              NEW k \in 1 .. L, m = st[k], i = base[k + 1] - 1
       PROVE  u < m
  <2>1. ~(k <= j)
    <3>1. k <= j => base[k + 1] <= base[j + 1]
      BY <1>3, <1>4, <1>6
    <3> QED
      BY <1>3, <1>6, <1>13, <3>1
  <2>2. j <= k /\ j < k
    BY <1>3, <2>1
  <2> QED
    BY <1>5, <1>13, <2>2
<1> QED
  BY <1>2, <1>10, <1>11, <1>12, <1>13 DEF InSlot

\* The variables declared in the blocks around item n are those of the scopes.
LEMMA InSightIsInSlot ==
  ASSUME NEW p, WellNested(p), NEW n \in DOMAIN p, NEW st, NEW base, NEW op, NEW sc,
         Frames(p, st, base, n, op, sc, "validate"), NEW x, NEW m
  PROVE  InSight(p, n, x, m) <=>
           /\ m \in 1 .. n - 1 /\ Declares(p, m, x)
           /\ \E i \in 1 .. Len(sc) : InSlot(p, st, base, i, m)
<1>1. p \in Seq(Item) /\ n \in Nat \ {0} /\ DOMAIN p = 1 .. Len(p) /\ n \in 1 .. Len(p) /\ Len(p) \in Nat
  BY DEF WellNested
<1>2. Fit(p, st, base, n, op, sc) /\ Chain(p, st, n) /\ base[1] = 1
  BY <1>1, FramesFit DEF Frames
<1>3. /\ Len(st) \in Nat /\ Len(sc) \in Nat \ {0} /\ \A k \in 1 .. Len(st) + 1 : base[k] \in 1 .. Len(sc)
      /\ \A k \in 1 .. Len(st) : st[k] \in 1 .. n - 1 /\ op[k] = p[st[k]].op
  BY <1>2 DEF Fit
<1>4. /\ \A q : Inside(p, q, n) => \E k \in 1 .. Len(st) : q = st[k]
      /\ \A k \in 1 .. Len(st) : Inside(p, st[k], n)
  BY <1>2 DEF Chain
<1>5. \A k \in 1 .. Len(st) : /\ k + 1 \in 1 .. Len(st) + 1 /\ k + 1 # 1 /\ (k + 1) - 1 = k
                              /\ 1 \in 1 .. Len(st) + 1 /\ 1 < k + 1
  BY <1>3
<1>6. 1 \in 1 .. Len(st) + 1 /\ 1 \in 1 .. Len(sc) /\ Outer(st, 1) = 0
  BY <1>3 DEF Outer
<1>7. ASSUME NEW j \in 1 .. n - 1
      PROVE  /\ p[j].op = "global" => DepthIn(p, j) = 0
             /\ p[j].op = "decl" => DepthIn(p, j) # 0
  <2>1. j \in DOMAIN p
    BY <1>1
  <2>2. p[j].op \in IF DepthIn(p, j) = 0 THEN TopOps ELSE BodyOps
    BY <2>1 DEF WellNested
  <2> QED
    BY <2>2 DEF TopOps, BodyOps
<1>8. ASSUME NEW k \in 1 .. Len(st), p[st[k]].op \in {"func", "for"}
      PROVE  base[k + 1] - 1 \in 1 .. Len(sc)
  <2>1. base[1] < base[k + 1]
    BY <1>1, <1>5, BaseStrict
  <2>2. base[k + 1] \in 1 .. Len(sc)
    BY <1>3, <1>5
  <2> QED
    BY <1>2, <1>3, <2>1, <2>2
<1>9. ASSUME InSight(p, n, x, m)
      PROVE  \E i \in 1 .. Len(sc) : InSlot(p, st, base, i, m)
  <2>0. m \in 1 .. n - 1
    BY <1>9 DEF InSight
  <2>1. CASE p[m].op = "global"
    <3>1. ParentIs(p, m, Outer(st, 1))
      BY <1>6, <1>7, <2>0, <2>1 DEF ParentIs
    <3>2. InSlot(p, st, base, 1, m)
      BY <1>2, <1>6, <2>1, <3>1 DEF InSlot
    <3> QED
      BY <1>6, <3>2
  <2>2. CASE p[m].op = "decl" /\ \E q : ParentIs(p, m, q) /\ Inside(p, q, n)
    <3>1. PICK k \in 1 .. Len(st) : ParentIs(p, m, st[k])
      BY <1>4, <2>2
    <3>2. Outer(st, k + 1) = st[k]
      BY <1>5, <3>1 DEF Outer
    <3>3. InSlot(p, st, base, base[k + 1], m) /\ base[k + 1] \in 1 .. Len(sc)
      BY <1>3, <1>5, <2>2, <3>1, <3>2 DEF InSlot
    <3> QED
      BY <3>3
  <2>3. CASE p[m].op \in {"func", "for"} /\ Inside(p, m, n)
    <3>1. PICK k \in 1 .. Len(st) : m = st[k]
      BY <1>4, <2>3
    <3>2. InSlot(p, st, base, base[k + 1] - 1, m)
      BY <2>3, <3>1 DEF InSlot
    <3> QED
      BY <1>8, <2>3, <3>1, <3>2
  <2> QED
    BY <1>9, <2>1, <2>2, <2>3 DEF InSight
<1>10. ASSUME m \in 1 .. n - 1, Declares(p, m, x), NEW i \in 1 .. Len(sc), InSlot(p, st, base, i, m)
       PROVE  InSight(p, n, x, m)
  <2>1. ASSUME NEW k \in 1 .. Len(st) + 1, p[m].op \in {"global", "decl"}, ParentIs(p, m, Outer(st, k))
        PROVE  InSight(p, n, x, m)
    <3>1. CASE p[m].op = "global"
      BY <1>10, <3>1 DEF InSight
    <3>2. CASE p[m].op = "decl"
      <4>1. k # 1
        <5>1. ~Inside(p, 0, m) /\ DepthIn(p, m) # 0
          BY <1>7, <1>10, <3>2 DEF Inside
        <5> QED
          BY <1>6, <2>1, <5>1 DEF ParentIs
      <4>2. k - 1 \in 1 .. Len(st) /\ Outer(st, k) = st[k - 1]
        BY <1>3, <4>1 DEF Outer
      <4> QED
        BY <1>4, <1>10, <2>1, <3>2, <4>2 DEF InSight
    <3> QED
      BY <2>1, <3>1, <3>2
  <2>2. ASSUME NEW k \in 1 .. Len(st), m = st[k], p[m].op \in {"func", "for"}
        PROVE  InSight(p, n, x, m)
    BY <1>4, <1>10, <2>2 DEF InSight
  <2> QED
    BY <1>10, <2>1, <2>2 DEF InSlot
<1>11. InSight(p, n, x, m) => m \in 1 .. n - 1 /\ Declares(p, m, x)
  BY DEF InSight
<1> QED
  BY <1>9, <1>10, <1>11

\* The scope of the body is the last, and has what the body declares.
LEMMA BodyIsLast ==
  ASSUME NEW p, WellNested(p), NEW n \in DOMAIN p, NEW st, NEW base, NEW op, NEW sc,
         Frames(p, st, base, n, op, sc, "validate"), p[n].op \in UpdateOps,
         NEW m \in 1 .. n - 1, NEW i \in 1 .. Len(sc), InSlot(p, st, base, i, m)
  PROVE  InBody(p, m, n) <=> i = Len(sc)
<1>1. n \in Nat \ {0} /\ DOMAIN p = 1 .. Len(p) /\ Len(p) \in Nat /\ m \in DOMAIN p
      /\ m \in 1 .. Len(p) + 1 /\ n \in 1 .. Len(p) + 1
  BY DEF WellNested
<1>2. Fit(p, st, base, n, op, sc) /\ Chain(p, st, n)
  BY <1>1, FramesFit DEF Frames
<1>3. PICK L : L = Len(st)
  OBVIOUS
<1>4. /\ L \in Nat /\ Len(sc) \in Nat \ {0} /\ Len(sc) = base[L + 1]
      /\ \A k \in 1 .. L + 1 : base[k] \in 1 .. Len(sc)
  BY <1>2, <1>3 DEF Fit
<1>5. DepthIn(p, n) # 0
  BY DEF WellNested, TopOps, UpdateOps
<1>6. L \in 1 .. L /\ L + 1 \in 1 .. L + 1 /\ L + 1 # 1 /\ (L + 1) - 1 = L
  <2>1. DepthIn(p, n) = L
    BY <1>2, <1>3 DEF Chain
  <2> QED
    BY <1>4, <1>5, <2>1
<1>7. Outer(st, L + 1) = st[L] /\ \A q : ParentIs(p, n, q) <=> q = Outer(st, L + 1)
  BY <1>1, <1>2, <1>3, <1>6, ChainParent DEF Outer
<1>8. ASSUME NEW k \in 1 .. L + 1, i = base[k], p[m].op \in {"global", "decl"},
             ParentIs(p, m, Outer(st, k))
      PROVE  InBody(p, m, n) <=> i = Len(sc)
  <2>1. ASSUME InBody(p, m, n) PROVE i = Len(sc)
    <3>1. PICK q : ParentIs(p, m, q) /\ ParentIs(p, n, q)
      BY <2>1 DEF InBody
    <3>2. q = Outer(st, k) /\ q = Outer(st, L + 1)
      BY <1>1, <1>7, <1>8, <3>1, ParentExists
    <3>3. k \in 1 .. Len(st) + 1 /\ L + 1 \in 1 .. Len(st) + 1 /\ Outer(st, k) = Outer(st, L + 1)
      BY <1>3, <1>6, <3>2
    <3>4. k = L + 1
      BY <1>1, <1>2, <3>3, OuterDiffers
    <3> QED
      BY <1>4, <1>8, <3>4
  <2>2. ASSUME i = Len(sc) PROVE InBody(p, m, n)
    <3>1. k = L + 1
      <4> SUFFICES ASSUME k < L + 1 PROVE FALSE
        BY <1>4
      <4>1. base[k] < base[L + 1]
        BY <1>1, <1>3, <1>6, BaseStrict
      <4> QED
        BY <1>4, <1>8, <2>2, <4>1
    <3>2. ParentIs(p, m, st[L]) /\ ParentIs(p, n, st[L])
      BY <1>7, <1>8, <3>1
    <3>3. p[m].op = "decl"
      <4>1. st[L] # 0
        BY <1>2, <1>3, <1>6 DEF Chain, Inside
      <4>2. st[L] \in 1 .. m - 1 /\ DepthIn(p, m) > DepthIn(p, st[L]) /\ DepthIn(p, st[L]) = L - 1
        <5>1. Inside(p, st[L], m)
          BY <3>2, <4>1 DEF ParentIs
        <5>2. m \in st[L] + 1 .. m
          BY <1>1, <5>1 DEF Inside
        <5> QED
          BY <1>2, <1>3, <1>6, <5>1, <5>2 DEF Inside, Chain
      <4>3. DepthIn(p, m) # 0
        BY <1>4, <1>6, <4>2
      <4> QED
        BY <1>1, <1>8, <4>3 DEF WellNested, BodyOps
    <3> QED
      BY <3>2, <3>3 DEF InBody
  <2> QED
    BY <2>1, <2>2
<1>9. ASSUME NEW k \in 1 .. L, m = st[k], p[m].op \in {"func", "for"}, i = base[k + 1] - 1
      PROVE  InBody(p, m, n) <=> i = Len(sc)
  <2>1. ~InBody(p, m, n)
    BY <1>9 DEF InBody
  <2>2. base[k + 1] \in 1 .. Len(sc)
    BY <1>4
  <2> QED
    BY <1>4, <1>9, <2>1, <2>2
<1> QED
  BY <1>3, <1>8, <1>9 DEF InSlot

\* The variables that are visible at item n are those of the scopes it is
\* checked in.
LEMMA VisibleIsInSlot ==
  ASSUME NEW p, WellNested(p), NEW n \in DOMAIN p, NEW st, NEW base, NEW op, NEW sc,
         Frames(p, st, base, n, op, sc, "validate"), NEW s, s = ScopesAt(p, n, sc), NEW x
  PROVE  /\ s \in Seq(Scope) /\ Len(s) \in Nat \ {0} /\ 1 .. Len(s) \subseteq 1 .. Len(sc)
         /\ \A i \in 1 .. Len(s) : s[i] = sc[i]
         /\ \A m : Visible(p, n, x, m) <=>
                     /\ m \in 1 .. n - 1 /\ Declares(p, m, x)
                     /\ \E i \in 1 .. Len(s) : InSlot(p, st, base, i, m)
<1>1. n \in Nat \ {0}
  BY DEF WellNested
<1>2. Fit(p, st, base, n, op, sc) /\ Chain(p, st, n) /\ base[1] = 1
  BY <1>1, FramesFit DEF Frames
<1>3. /\ sc \in Seq(Scope) /\ sc # <<>> /\ Len(sc) \in Nat \ {0}
      /\ Len(sc) = base[Len(st) + 1] /\ Len(st) \in Nat
  BY <1>2 DEF Fit
<1>4. \A m : InSight(p, n, x, m) <=>
               /\ m \in 1 .. n - 1 /\ Declares(p, m, x)
               /\ \E i \in 1 .. Len(sc) : InSlot(p, st, base, i, m)
  BY InSightIsInSlot
<1>5. CASE p[n].op \notin UpdateOps
  <2>1. s = sc
    BY <1>5 DEF ScopesAt
  <2>2. \A m : Visible(p, n, x, m) <=> InSight(p, n, x, m)
    BY <1>5 DEF Visible, InBody
  <2> QED
    BY <1>3, <1>4, <2>1, <2>2
<1>6. CASE p[n].op \in UpdateOps
  <2>1. Len(sc) > 1
    <3>1. DepthIn(p, n) # 0 /\ DepthIn(p, n) = Len(st)
      BY <1>2, <1>6 DEF WellNested, TopOps, UpdateOps, Chain
    <3>2. 1 \in 1 .. Len(st) + 1 /\ Len(st) + 1 \in 1 .. Len(st) + 1 /\ 1 < Len(st) + 1
      BY <1>3, <3>1
    <3>3. base[1] < base[Len(st) + 1]
      BY <1>1, <3>2, BaseStrict
    <3> QED
      BY <1>2, <1>3, <3>3
  <2>2. /\ s \in Seq(Scope) /\ Len(s) = Len(sc) - 1
        /\ \A i \in 1 .. Len(sc) - 1 : s[i] = sc[i]
    BY <1>3, <1>6, FrontOf DEF ScopesAt
  <2>3. Len(s) \in Nat \ {0} /\ \A i : i \in 1 .. Len(s) <=> i \in 1 .. Len(sc) /\ i # Len(sc)
    BY <1>3, <2>1, <2>2
  <2>4. ASSUME NEW m, m \in 1 .. n - 1, Declares(p, m, x)
        PROVE  Visible(p, n, x, m) <=> \E i \in 1 .. Len(s) : InSlot(p, st, base, i, m)
    <3>1. \A i \in 1 .. Len(sc) : InSlot(p, st, base, i, m) => (InBody(p, m, n) <=> i = Len(sc))
      BY <1>6, <2>4, BodyIsLast
    <3>2. InSight(p, n, x, m) <=> \E i \in 1 .. Len(sc) : InSlot(p, st, base, i, m)
      BY <1>4, <2>4
    <3> QED
      BY <2>3, <3>1, <3>2 DEF Visible
  <2>5. \A m : Visible(p, n, x, m) => m \in 1 .. n - 1 /\ Declares(p, m, x)
    BY DEF Visible, InSight
  <2> QED
    BY <2>2, <2>3, <2>4, <2>5
<1> QED
  BY <1>5, <1>6

\* What scopeLookup returns: the symbol of the last scope that has the name.
LEMMA LookupIs ==
  ASSUME NEW s \in Seq(Scope), NEW x
  PROVE  \/ /\ Lookup(s, x) = Undeclared
            /\ \A k \in 1 .. Len(s) : s[k][x] = Undeclared
         \/ \E j \in 1 .. Len(s) :
              /\ Lookup(s, x) = s[j][x] /\ s[j][x] # Undeclared
              /\ \A k \in 1 .. Len(s) : s[k][x] # Undeclared => k <= j
<1>1. PICK found : found = {k \in DOMAIN s : s[k][x] # Undeclared}
  OBVIOUS
<1>2. Len(s) \in Nat /\ DOMAIN s = 1 .. Len(s) /\ 1 .. Len(s) \subseteq 0 .. Len(s)
  OBVIOUS
<1>3. /\ found = {} => Lookup(s, x) = Undeclared
      /\ found # {} => Lookup(s, x) = s[Max(found)][x]
  BY <1>1 DEF Lookup
<1>4. CASE found = {}
  BY <1>1, <1>2, <1>3, <1>4
<1>5. CASE found # {}
  <2>1. found \in SUBSET (0 .. Len(s))
    BY <1>1, <1>2
  <2>2. Max(found) \in found /\ \A y \in found : y <= Max(found)
    BY <1>2, <1>5, <2>1, GreatestElement
  <2>3. PICK j : j = Max(found)
    OBVIOUS
  <2>4. j \in 1 .. Len(s) /\ s[j][x] # Undeclared /\ Lookup(s, x) = s[j][x]
    BY <1>1, <1>2, <1>3, <1>5, <2>2, <2>3
  <2>5. \A k \in 1 .. Len(s) : s[k][x] # Undeclared => k <= j
    BY <1>1, <1>2, <2>2, <2>3
  <2> QED
    BY <2>4, <2>5
<1> QED
  BY <1>4, <1>5

\* While validating, scopeLookup finds the lexical meaning of a name.
LEMMA LookupMeans ==
  ASSUME NEW p, WellNested(p), NEW n \in DOMAIN p, NEW st, NEW base, NEW op, NEW sc,
         Frames(p, st, base, n, op, sc, "validate"), Validated(p, st, base, n, sc), NEW x \in Names,
         NEW sa, sa = ScopesAt(p, n, sc)
  PROVE  Means(p, n, x, Lookup(sa, x))
<1>1. n \in Nat \ {0}
  BY DEF WellNested
<1>2. /\ sa \in Seq(Scope) /\ Len(sa) \in Nat \ {0} /\ 1 \in 1 .. Len(sa)
      /\ 1 .. Len(sa) \subseteq 1 .. Len(sc) /\ \A i \in 1 .. Len(sa) : sa[i] = sc[i]
  <2>1. /\ sa \in Seq(Scope) /\ Len(sa) \in Nat \ {0}
        /\ 1 .. Len(sa) \subseteq 1 .. Len(sc) /\ \A i \in 1 .. Len(sa) : sa[i] = sc[i]
    BY VisibleIsInSlot
  <2> QED
    BY <2>1
<1>3. \A m : Visible(p, n, x, m) <=>
               /\ m \in 1 .. n - 1 /\ Declares(p, m, x)
               /\ \E i \in 1 .. Len(sa) : InSlot(p, st, base, i, m)
  BY VisibleIsInSlot
<1>4. \A i \in 1 .. Len(sa) :
        /\ i \in 1 .. Len(sc)
        /\ \A m \in 1 .. n - 1 :
             Declares(p, m, x) /\ InSlot(p, st, base, i, m) => sa[i][x] = Variable(m)
        /\ \/ i = 1 /\ FunctionIs(p, x, sa[i][x])
           \/ i # 1 /\ sa[i][x] = Undeclared
           \/ \E m \in 1 .. n - 1 :
                Declares(p, m, x) /\ InSlot(p, st, base, i, m) /\ sa[i][x] = Variable(m)
  <2> SUFFICES ASSUME NEW i \in 1 .. Len(sa)
               PROVE  /\ i \in 1 .. Len(sc)
                      /\ \A m \in 1 .. n - 1 :
                           Declares(p, m, x) /\ InSlot(p, st, base, i, m) => sa[i][x] = Variable(m)
                      /\ \/ i = 1 /\ FunctionIs(p, x, sa[i][x])
                         \/ i # 1 /\ sa[i][x] = Undeclared
                         \/ \E m \in 1 .. n - 1 :
                              Declares(p, m, x) /\ InSlot(p, st, base, i, m) /\ sa[i][x] = Variable(m)
    OBVIOUS
  <2>1. i \in 1 .. Len(sc) /\ sa[i] = sc[i]
    BY <1>2
  <2> QED
    BY <2>1 DEF Validated
<1>5. ASSUME NEW m, Visible(p, n, x, m)
      PROVE  m \in 1 .. n - 1 /\ \E i \in 1 .. Len(sa) : InSlot(p, st, base, i, m) /\ sa[i][x] = Variable(m)
  BY <1>3, <1>4, <1>5
<1>6. CASE Lookup(sa, x) = Undeclared /\ \A k \in 1 .. Len(sa) : sa[k][x] = Undeclared
  <2>1. \A m : ~Visible(p, n, x, m)
    BY <1>5, <1>6, Symbols
  <2>2. FunctionIs(p, x, Undeclared)
    BY <1>2, <1>4, <1>6, Symbols
  <2> QED
    BY <1>6, <2>1, <2>2 DEF Means
<1>7. ASSUME NEW j \in 1 .. Len(sa), Lookup(sa, x) = sa[j][x], sa[j][x] # Undeclared,
             \A k \in 1 .. Len(sa) : sa[k][x] # Undeclared => k <= j
      PROVE  Means(p, n, x, Lookup(sa, x))
  <2>1. ASSUME NEW m \in 1 .. n - 1, Declares(p, m, x), InSlot(p, st, base, j, m), sa[j][x] = Variable(m)
        PROVE  Means(p, n, x, Lookup(sa, x))
    <3>1. Visible(p, n, x, m)
      BY <1>3, <1>7, <2>1
    <3>2. ASSUME NEW v, Visible(p, n, x, v) PROVE v <= m
      <4>1. v \in 1 .. n - 1
        BY <1>5, <3>2
      <4>2. PICK i \in 1 .. Len(sa) : InSlot(p, st, base, i, v) /\ sa[i][x] = Variable(v)
        BY <1>5, <3>2
      <4>3. i <= j
        BY <1>7, <4>2, Symbols
      <4>4. CASE i = j
        <5>1. v = m
          BY <2>1, <4>2, <4>4, Symbols
        <5> QED
          BY <4>1, <5>1
      <4>5. CASE i < j
        <5>1. v < m
          BY <1>1, <1>4, <1>7, <2>1, <4>1, <4>2, <4>5, SlotOrder
        <5> QED
          BY <4>1, <5>1
      <4> QED
        BY <1>2, <4>3, <4>4, <4>5
    <3> QED
      BY <1>7, <2>1, <3>1, <3>2 DEF Means
  <2>2. ASSUME j = 1, FunctionIs(p, x, sa[j][x]), NEW m, Visible(p, n, x, m)
        PROVE  Means(p, n, x, Lookup(sa, x))
    <3>1. PICK i \in 1 .. Len(sa) : InSlot(p, st, base, i, m) /\ sa[i][x] = Variable(m)
      BY <1>5, <2>2
    <3>2. i <= j
      BY <1>7, <3>1, Symbols
    <3>3. i = j
      BY <1>2, <2>2, <3>2
    <3>4. m \in 1 .. n - 1 /\ Declares(p, m, x)
      BY <1>3, <2>2
    <3> QED
      BY <2>1, <3>1, <3>3, <3>4
  <2>3. CASE j = 1 /\ FunctionIs(p, x, sa[j][x]) /\ \A m : ~Visible(p, n, x, m)
    BY <1>7, <2>3 DEF Means
  <2> QED
    BY <1>4, <1>7, <2>1, <2>2, <2>3
<1> QED
  BY <1>2, <1>6, <1>7, LookupIs

\* checkIdentifier, checkCall and checkAssignmentTarget record the use at n.
LEMMA UseBound ==
  ASSUME NEW p, NEW n \in Nat \ {0}, NEW sem, NEW es, NEW sem2, NEW es2, NEW x, NEW s,
         x = UsedName(p[n]), n \notin DOMAIN sem, <<"undeclared", n>> \notin es,
         x # NoName => Means(p, n, x, s),
         sem2 = IF x # NoName /\ s.kind = KindOf(p[n])
                THEN [j \in DOMAIN sem \cup {n} |-> IF j = n THEN s ELSE sem[j]] ELSE sem,
         es2 = IF x # NoName /\ s.kind # KindOf(p[n]) /\ p[n].op \notin WriteOps
               THEN es \cup {<<"undeclared", n>>} ELSE es,
         Bound(p, n, sem, es)
  PROVE  Bound(p, n + 1, sem2, es2)
<1>1. BoundAt(p, n, sem2, es2)
  <2>1. CASE x = NoName
    BY <2>1 DEF BoundAt
  <2>2. CASE x # NoName /\ s.kind = KindOf(p[n])
    <3>1. n \in DOMAIN sem2 /\ sem2[n] = s /\ es2 = es
      BY <2>2
    <3> QED
      BY <2>2, <3>1 DEF BoundAt
  <2>3. CASE x # NoName /\ s.kind # KindOf(p[n])
    <3>1. n \notin DOMAIN sem2 /\ (<<"undeclared", n>> \in es2 <=> p[n].op \notin WriteOps)
      BY <2>3
    <3> QED
      BY <2>3, <3>1 DEF BoundAt
  <2> QED
    BY <2>1, <2>2, <2>3
<1>2. ASSUME NEW j \in 1 .. n - 1 PROVE BoundAt(p, j, sem2, es2)
  <2>1. j # n /\ BoundAt(p, j, sem, es)
    BY DEF Bound
  <2>2. (j \in DOMAIN sem2 <=> j \in DOMAIN sem) /\ (j \in DOMAIN sem => sem2[j] = sem[j])
    BY <2>1
  <2>3. <<"undeclared", j>> \in es2 <=> <<"undeclared", j>> \in es
    BY <2>1
  <2> QED
    BY <2>1, <2>2, <2>3 DEF BoundAt
<1>3. \A j \in 1 .. (n + 1) - 1 : j \in 1 .. n - 1 \/ j = n
  OBVIOUS
<1> QED
  BY <1>1, <1>2, <1>3 DEF Bound

\* Validation visits item n: op and sc are what is open and the scopes before,
\* op2 and sc2 after, and sc1 the scopes after the declaration.
ValidateVisit(p, n, op, sc, sc1, op2, sc2) ==
  /\ \/ p[n].op \notin {"global", "decl"} /\ sc1 = sc
     \/ p[n].op \in {"global", "decl"} /\ p[n].name \in Names
        /\ sc1 = Declare(sc, p[n].name, Variable(n))
  /\ p[n].op \in OpenOps => op2 = Append(op, p[n].op)
  /\ p[n].op = "func" => sc2 = Append(Push(sc1, p[n].with, n), NewScope)
  /\ p[n].op = "for" => sc2 = Append(Push(sc1, p[n].name, n), NewScope)
  /\ p[n].op = "block" => sc2 = Append(sc1, NewScope)
  /\ p[n].op = "end" => /\ op2 = Front(op)
                        /\ sc2 = SubSeq(sc1, 1, Len(sc1) - Width("validate", Last(op)))
  /\ p[n].op \notin OpenOps \cup {"end"} => op2 = op /\ sc2 = sc1

\* The walk stays in step with the text of the program.
LEMMA ValidatedNext ==
  ASSUME NEW p, WellNested(p), NEW n \in DOMAIN p,
         NEW st, NEW base, NEW op, NEW sc, NEW sc1, NEW sc2, NEW op2,
         Frames(p, st, base, n, op, sc, "validate"),
         NoRepeats(p) => Validated(p, st, base, n, sc),
         ValidateVisit(p, n, op, sc, sc1, op2, sc2)
  PROVE  \E t, b : /\ Frames(p, t, b, n + 1, op2, sc2, "validate")
                   /\ NoRepeats(p) => Validated(p, t, b, n + 1, sc2)
<1> USE DEF ValidateVisit
<1>1. p \in Seq(Item) /\ n \in Nat \ {0} /\ "validate" \in Walks
  BY DEF WellNested, Walks
<1>2. sc \in Seq(Scope) /\ Len(sc) \in Nat \ {0} /\ sc # <<>> /\ Chain(p, st, n)
  <2>1. Fit(p, st, base, n, op, sc)
    BY <1>1, FramesFit
  <2>2. Chain(p, st, n)
    BY DEF Frames
  <2> QED
    BY <2>1, <2>2 DEF Fit
<1>3. sc1 \in Seq(Scope) /\ Len(sc1) = Len(sc)
  <2>1. CASE sc1 = sc
    BY <1>2, <2>1
  <2>2. CASE p[n].name \in Names /\ sc1 = Declare(sc, p[n].name, Variable(n))
    <3>1. Variable(n) \in Symbol
      BY <1>1, Symbols
    <3> QED
      BY <1>2, <2>2, <3>1, DeclareIn
  <2> QED
    BY <2>1, <2>2
<1>4. NoRepeats(p) => Validated(p, st, base, n + 1, sc1)
  BY <1>1, ValidatedPast
<1>5. CASE p[n].op \in OpenOps
  <2>1. sc1 = sc
    BY <1>5 DEF OpenOps
  <2>2. \/ p[n].op = "block" /\ EntersEmpty(sc, sc2)
        \/ p[n].op = "func" /\ EntersBoth(sc, sc2, p[n].with, n)
        \/ p[n].op = "for" /\ EntersBoth(sc, sc2, p[n].name, n)
    <3>1. p[n].op = "block" => EntersEmpty(sc, sc2)
      BY <1>2, <2>1, EmptyEntered
    <3>2. p[n].op = "func" => EntersBoth(sc, sc2, p[n].with, n)
      BY <1>1, <1>2, <2>1, BothEntered
    <3>3. p[n].op = "for" => EntersBoth(sc, sc2, p[n].name, n)
      BY <1>1, <1>2, <2>1, BothEntered
    <3> QED
      BY <1>5, <3>1, <3>2, <3>3 DEF OpenOps
  <2>3. sc2 \in Seq(Scope) /\ Len(sc2) = Len(sc) + Width("validate", p[n].op)
    <3>1. CASE p[n].op = "block"
      <4>1. EntersEmpty(sc, sc2) /\ Width("validate", p[n].op) = 1
        BY <2>2, <3>1, Widths
      <4> QED
        BY <4>1 DEF EntersEmpty
    <3>2. CASE p[n].op = "func"
      <4>1. EntersBoth(sc, sc2, p[n].with, n) /\ Width("validate", p[n].op) = 2
        BY <2>2, <3>2, Widths
      <4> QED
        BY <4>1 DEF EntersBoth
    <3>3. CASE p[n].op = "for"
      <4>1. EntersBoth(sc, sc2, p[n].name, n) /\ Width("validate", p[n].op) = 2
        BY <2>2, <3>3, Widths
      <4> QED
        BY <4>1 DEF EntersBoth
    <3> QED
      BY <1>5, <3>1, <3>2, <3>3 DEF OpenOps
  <2>4. Frames(p, Append(st, n), Append(base, Len(sc2)), n + 1, Append(op, p[n].op), sc2, "validate")
    BY <1>1, <1>5, <2>3, FramesOpen
  <2>5. NoRepeats(p) => Validated(p, Append(st, n), Append(base, Len(sc2)), n + 1, sc2)
    <3>1. NoRepeats(p) => Validated(p, st, base, n + 1, sc)
      BY <1>4, <2>1
    <3> QED
      BY <1>1, <1>5, <2>2, <3>1, ValidatedOpen
  <2>6. op2 = Append(op, p[n].op)
    BY <1>5
  <2> QED
    BY <2>4, <2>5, <2>6
<1>6. CASE p[n].op = "end"
  <2>1. /\ op2 = Front(op) /\ sc1 = sc
        /\ sc2 = SubSeq(sc, 1, Len(sc) - Width("validate", Last(op)))
    BY <1>6
  <2>2. st # <<>>
    <3>1. DepthIn(p, n) # 0
      <4>1. "end" \notin TopOps
        BY DEF TopOps
      <4> QED
        BY <1>6, <4>1 DEF WellNested
    <3> QED
      BY <1>2, <3>1 DEF Chain
  <2>3. /\ Frames(p, Front(st), Front(base), n + 1, Front(op), sc2, "validate")
        /\ Leaves(st, base, sc, sc2)
    BY <1>1, <1>6, <2>1, <2>2, FramesClose
  <2>4. NoRepeats(p) => Validated(p, st, base, n + 1, sc)
    BY <1>4, <2>1
  <2>5. NoRepeats(p) => Validated(p, Front(st), Front(base), n + 1, sc2)
    BY <1>1, <2>2, <2>3, <2>4, ValidatedClose
  <2> QED
    BY <2>1, <2>3, <2>5
<1>7. CASE p[n].op \notin OpenOps \cup {"end"}
  <2>1. op2 = op /\ sc2 = sc1
    BY <1>7
  <2>2. Frames(p, st, base, n + 1, op, sc1, "validate")
    BY <1>1, <1>3, <1>7, FramesStay
  <2> QED
    BY <1>4, <2>1, <2>2
<1> QED
  BY <1>5, <1>6, <1>7

\* A step of validation visits the next item.
LEMMA ValidateStep ==
  ASSUME Inv, Validate
  PROVE  Inv'
<1>1. PICK n : n = Here
  OBVIOUS
<1>2. PICK e : e = program[n]
  OBVIOUS
<1>3. /\ WellNested(program) /\ program \in Seq(Item) /\ cursor \in 0 .. Len(program)
      /\ n = cursor + 1 /\ n \in Nat \ {0} /\ n \in DOMAIN program /\ e \in Item
      /\ n \in 1 .. Len(program) /\ n - 1 = cursor
  <2>1. WellNested(program) /\ program \in Seq(Item) /\ cursor \in 0 .. Len(program) /\ n = cursor + 1
    BY <1>1 DEF Inv, Typed, WellNested, Here
  <2>2. n <= Len(program)
    BY <1>1 DEF Validate
  <2>3. n \in 1 .. Len(program) /\ n - 1 = cursor
    BY <2>1, <2>2
  <2> QED
    BY <1>2, <2>1, <2>3
<1>4. ValidateDeclaration(e) \/ ValidateUse(e) \/ ValidateFor(e) \/ ValidateScope(e)
  BY <1>1, <1>2 DEF Validate
<1>5. \E s : ValidateItem(s)
  BY <1>4 DEF ValidateDeclaration, ValidateUse, ValidateFor, ValidateScope
<1>6. /\ phase = "validate" /\ phase' = "validate" /\ cursor' = n /\ opened' = Opened(e)
      /\ program' = program /\ ir_binding' = ir_binding
  BY <1>1, <1>2, <1>5 DEF ValidateItem
<1>7. PICK st, base : /\ Frames(program, st, base, n, opened, scopes, "validate")
                      /\ NoRepeats(program) => Validated(program, st, base, n, scopes)
  BY <1>1, <1>6 DEF Inv, ValidateInv
<1>8. PICK sc1 : sc1 = IF e.op \in {"global", "decl"} THEN Declare(scopes, e.name, Variable(n)) ELSE scopes
  OBVIOUS
<1>9. /\ e.op \notin OpenOps \cup {"end"} => scopes' = sc1
      /\ e.op = "func" => scopes' = Append(Push(sc1, e.with, n), NewScope)
      /\ e.op = "for" => scopes' = Append(Push(sc1, e.name, n), NewScope)
      /\ e.op = "block" => scopes' = Append(sc1, NewScope)
      /\ e.op = "end" => scopes' = Popped(sc1)
  <2>1. CASE ValidateDeclaration(e)
    <3>1. e.op \in {"global", "decl"} /\ scopes' = sc1
      BY <1>1, <1>8, <2>1 DEF ValidateDeclaration, ValidateItem
    <3> QED
      BY <3>1
  <2>2. CASE ValidateUse(e)
    <3>1. e.op \in UseOps /\ scopes' = scopes
      BY <2>2 DEF ValidateUse, ValidateItem
    <3>2. e.op \notin OpenOps \cup {"end", "global", "decl"}
      BY <3>1 DEF OpenOps, UseOps, ReadOps, WriteOps, CallOps
    <3>3. scopes' = sc1
      BY <1>8, <3>1, <3>2
    <3> QED
      BY <3>2, <3>3 DEF OpenOps
  <2>4. CASE ValidateFor(e)
    <3>1. e.op = "for" /\ scopes' = Append(Push(scopes, e.name, n), NewScope)
      BY <1>1, <2>4 DEF ValidateFor, ValidateItem
    <3>2. sc1 = scopes
      BY <1>8, <3>1
    <3> QED
      BY <3>1, <3>2 DEF OpenOps
  <2>3. CASE ValidateScope(e)
    <3>1. \/ e.op = "func"   /\ scopes' = Append(Push(scopes, e.with, n), NewScope)
          \/ e.op = "block"  /\ scopes' = Append(scopes, NewScope)
          \/ e.op = "end"    /\ scopes' = Popped(scopes)
          \/ e.op = "extern" /\ scopes' = scopes
      BY <1>1, <2>3 DEF ValidateScope, ValidateItem
    <3>2. sc1 = scopes
      BY <1>8, <3>1
    <3> QED
      BY <3>1, <3>2 DEF OpenOps
  <2> QED
    BY <1>4, <2>1, <2>2, <2>3, <2>4
<1>10. \/ program[n].op \notin {"global", "decl"} /\ sc1 = scopes
       \/ program[n].op \in {"global", "decl"} /\ program[n].name \in Names
          /\ sc1 = Declare(scopes, program[n].name, Variable(n))
  BY <1>2, <1>3, <1>8, ItemFields
<1>11. ValidateVisit(program, n, opened, scopes, sc1, opened', scopes')
  <2>1. Popped(sc1) = SubSeq(sc1, 1, Len(sc1) - Width("validate", Last(opened)))
    BY <1>6 DEF Popped, Width
  <2>2. /\ e.op \in OpenOps => opened' = Append(opened, e.op)
        /\ e.op = "end" => opened' = Front(opened)
        /\ e.op \notin OpenOps \cup {"end"} => opened' = opened
    BY <1>6, OpenedIs
  <2>3. e.op = "end" => scopes' = SubSeq(sc1, 1, Len(sc1) - Width("validate", Last(opened)))
    <3>1. e.op = "end" => scopes' = Popped(sc1)
      BY <1>9
    <3> QED
      BY <2>1, <3>1, Zenon
  <2> QED
    BY <1>2, <1>9, <1>10, <2>2, <2>3, Zenon DEF ValidateVisit
<1>12. \E t, b : /\ Frames(program, t, b, n + 1, opened', scopes', "validate")
                 /\ NoRepeats(program) => Validated(program, t, b, n + 1, scopes')
  BY <1>3, <1>7, <1>11, ValidatedNext
<1>13. opened' \in Seq(OpenOps) /\ scopes' \in Seq(Scope) /\ scopes' # <<>>
  <2>1. PICK t, b : Frames(program, t, b, n + 1, opened', scopes', "validate")
    BY <1>12
  <2>2. n + 1 \in Nat \ {0}
    BY <1>3
  <2>3. Fit(program, t, b, n + 1, opened', scopes')
    BY <2>1, <2>2, FramesFit
  <2> QED
    BY <2>3 DEF Fit
<1>14. PICK x : x = UsedName(e)
  OBVIOUS
<1>15. PICK s : s = Lookup(CheckedIn(e), x)
  OBVIOUS
<1>16. /\ sem_binding' = IF x # NoName /\ s.kind = KindOf(program[n])
                         THEN [j \in DOMAIN sem_binding \cup {n} |-> IF j = n THEN s ELSE sem_binding[j]]
                         ELSE sem_binding
       /\ errors' = IF x # NoName /\ s.kind # KindOf(program[n]) /\ program[n].op \notin WriteOps
                    THEN errors \cup {<<"undeclared", n>>} ELSE errors
  <2>1. CASE ValidateDeclaration(e)
    <3>1. e.op \in {"global", "decl"} /\ CheckUse(e, e.with)
      BY <2>1 DEF ValidateDeclaration
    <3>2. x = e.with
      BY <1>3, <1>14, <3>1, ItemFields
    <3> QED
      BY <1>1, <1>2, <1>15, <3>1, <3>2 DEF CheckUse, KindOf
  <2>2. CASE ValidateUse(e)
    <3>1. e.op \in UseOps /\ CheckUse(e, e.name)
      BY <2>2 DEF ValidateUse
    <3>2. x = e.name
      BY <1>3, <1>14, <3>1, ItemFields
    <3> QED
      BY <1>1, <1>2, <1>15, <3>1, <3>2 DEF CheckUse, KindOf
  <2>4. CASE ValidateFor(e)
    <3>1. e.op = "for" /\ CheckUse(e, e.with)
      BY <2>4 DEF ValidateFor
    <3>2. x = e.with
      BY <1>3, <1>14, <3>1, ItemFields
    <3> QED
      BY <1>1, <1>2, <1>15, <3>1, <3>2 DEF CheckUse, KindOf
  <2>3. CASE ValidateScope(e)
    <3>1. e.op \in {"func", "block", "end", "extern"} /\ errors' = errors /\ sem_binding' = sem_binding
      BY <2>3 DEF ValidateScope
    <3>2. e.op \notin UseOps \cup {"decl", "for"}
      BY <3>1 DEF UseOps, ReadOps, WriteOps, CallOps
    <3>3. x = NoName
      BY <1>3, <1>14, <3>2, ItemFields
    <3> QED
      BY <3>1, <3>3
  <2> QED
    BY <1>4, <2>1, <2>2, <2>3, <2>4
<1>17. \A j \in Nat : j \notin 1 .. cursor => j \notin DOMAIN sem_binding /\ <<"undeclared", j>> \notin errors
  BY <1>6 DEF Inv, ValidateInv
<1>18. n \notin DOMAIN sem_binding /\ <<"undeclared", n>> \notin errors
  BY <1>3, <1>17
<1>19. ASSUME NoRepeats(program)
       PROVE  Bound(program, n + 1, sem_binding', errors')
  <2>1. Bound(program, n, sem_binding, errors)
    BY <1>1, <1>6, <1>19 DEF Inv, ValidateInv
  <2>2. x # NoName => x \in Names
    BY <1>3, <1>14, ItemFields
  <2>3. Validated(program, st, base, n, scopes)
    BY <1>7, <1>19
  <2>4. x # NoName => Means(program, n, x, s)
    <3>1. CheckedIn(e) = ScopesAt(program, n, scopes)
      BY <1>2 DEF CheckedIn, ScopesAt
    <3> QED
      BY <1>3, <1>7, <1>15, <2>2, <2>3, <3>1, LookupMeans
  <2>5. x = UsedName(program[n])
    BY <1>2, <1>14
  <2>6. PICK sem2 : sem2 = sem_binding'
    OBVIOUS
  <2>7. PICK es2 : es2 = errors'
    OBVIOUS
  <2>8. /\ sem2 = IF x # NoName /\ s.kind = KindOf(program[n])
                  THEN [j \in DOMAIN sem_binding \cup {n} |-> IF j = n THEN s ELSE sem_binding[j]]
                  ELSE sem_binding
        /\ es2 = IF x # NoName /\ s.kind # KindOf(program[n]) /\ program[n].op \notin WriteOps
                 THEN errors \cup {<<"undeclared", n>>} ELSE errors
    BY <1>16, <2>6, <2>7
  <2>9. Bound(program, n + 1, sem2, es2)
    BY <1>3, <1>18, <2>1, <2>4, <2>5, <2>8, UseBound
  <2> QED
    BY <2>6, <2>7, <2>9
<1>20. /\ DOMAIN sem_binding' \subseteq DOMAIN sem_binding \cup {n}
       /\ errors' \subseteq errors \cup {<<"undeclared", n>>}
       /\ errors \subseteq errors'
  BY <1>16
<1>21. Typed'
  <2>1. errors \subseteq ({"duplicate", "undeclared"} \X Nat) /\ DOMAIN sem_binding \subseteq 1 .. Len(program)
        /\ DOMAIN ir_binding \subseteq 1 .. Len(program) /\ Complete(program)
    BY <1>6 DEF Inv, Typed
  <2>2. errors' \subseteq ({"duplicate", "undeclared"} \X Nat) /\ DOMAIN sem_binding' \subseteq 1 .. Len(program)
    BY <1>3, <1>20, <2>1
  <2>3. cursor' \in 0 .. Len(program)
    BY <1>3, <1>6
  <2> QED
    BY <1>3, <1>6, <1>13, <2>1, <2>2, <2>3 DEF Typed, Phases
<1>22. Duplicates'
  <2>1. \A j \in Nat : <<"duplicate", j>> \in errors' <=> <<"duplicate", j>> \in errors
    BY <1>20
  <2> QED
    BY <1>6, <2>1 DEF Inv, Duplicates
<1>23. ValidateInv'
  <2>1. Here' = n + 1
    BY <1>6 DEF Here
  <2>2. ASSUME NEW j \in Nat, j \notin 1 .. cursor'
        PROVE  j \notin DOMAIN sem_binding' /\ <<"undeclared", j>> \notin errors'
    <3>1. j \notin 1 .. cursor /\ j # n
      BY <1>3, <1>6, <2>2
    <3>2. j \notin DOMAIN sem_binding /\ <<"undeclared", j>> \notin errors
      BY <1>17, <3>1
    <3>3. <<"undeclared", j>> # <<"undeclared", n>>
      BY <3>1
    <3> QED
      BY <1>20, <3>1, <3>2, <3>3
  <2> QED
    BY <1>6, <1>12, <1>19, <2>1, <2>2 DEF ValidateInv
<1> QED
  BY <1>6, <1>21, <1>22, <1>23 DEF Inv, CollectInv, ValidatedInv, LowerInv, BuiltInv

\* Compilation ends with errors.
LEMMA RejectStep ==
  ASSUME Inv, Reject
  PROVE  Inv'
<1>1. /\ phase = "validate" /\ cursor = Len(program) /\ phase' = "rejected"
      /\ program' = program /\ cursor' = cursor /\ opened' = opened /\ scopes' = scopes
      /\ errors' = errors /\ sem_binding' = sem_binding /\ ir_binding' = ir_binding
  BY DEF Reject
<1>2. Typed'
  BY <1>1 DEF Inv, Typed, Phases
<1>3. Duplicates'
  BY <1>1 DEF Inv, Duplicates
<1>4. NoRepeats(program) => Bound(program, Len(program) + 1, sem_binding, errors)
  BY <1>1 DEF Inv, ValidateInv, Here
<1>5. ValidatedInv'
  BY <1>1, <1>4 DEF ValidatedInv
<1> QED
  BY <1>1, <1>2, <1>3, <1>5 DEF Inv, CollectInv, ValidateInv, LowerInv, BuiltInv

-----------------------------------------------------------------------------
(* Lowering *)

\* The declarations of x at the top level, without repeated ones.
LEMMA TopDeclarations ==
  ASSUME NEW p, WellNested(p), NoRepeats(p), NEW x \in Names, NEW D,
         D = {n \in {m \in DOMAIN p : DepthIn(p, m) = 0} : p[n].op \in TopOps /\ p[n].name = x}
  PROVE  /\ ~(Cardinality(D) > 1)
         /\ D # {} => Min(D) \in D /\ \A n \in D : n = Min(D)
<1>1. p \in Seq(Item)
  BY DEF WellNested
<1>2. \A n \in D : n \in DOMAIN p /\ InBlock(p, n, x, 0)
  BY DEF InBlock, ParentIs, TopOps, DeclOps
<1>3. \A m, n \in D : m = n
  BY <1>1, <1>2, OneDeclaration
<1>4. CASE D = {}
  <2>1. Cardinality(D) = 0
    BY <1>4, FS_EmptySet
  <2> QED
    BY <1>4, <2>1
<1>5. CASE D # {}
  <2>1. PICK d : d \in D
    BY <1>5
  <2>2. D = {d}
    BY <1>3, <2>1
  <2>3. Cardinality(D) = 1
    BY <2>2, FS_Singleton
  <2>4. D \in SUBSET Nat
    BY <1>1
  <2>5. Min(D) \in D
    BY <1>5, <2>4, LeastElement
  <2> QED
    BY <1>3, <2>3, <2>5
<1> QED
  BY <1>4, <1>5

\* g is the global scope that the declarations D of the top level make.
GlobalScope(p, D, g) ==
  /\ \A x \in Names : D[x] = {n \in {m \in DOMAIN p : DepthIn(p, m) = 0} :
                                p[n].op \in TopOps /\ p[n].name = x}
  /\ g = [x \in Names |-> IF D[x] = {} THEN Undeclared
                          ELSE IF p[Min(D[x])].op = "global" THEN Variable(Min(D[x]))
                                                             ELSE Function(Min(D[x]))]

\* irBuilderPredeclareGlobal, -Function and -ExternFunction: all the names of
\* the top level.
LEMMA Predeclared ==
  ASSUME NEW p, WellNested(p), NoRepeats(p), NEW D, NEW g, GlobalScope(p, D, g)
  PROVE  g \in Scope /\ Lowered(p, <<>>, <<1>>, 1, <<g>>)
<1>1. p \in Seq(Item)
  BY DEF WellNested
<1>2. ASSUME NEW x \in Names
      PROVE  /\ D[x] = {} => g[x] = Undeclared
             /\ \A d \in D[x] : /\ d \in Nat /\ d \in DOMAIN p /\ DepthIn(p, d) = 0
                                /\ p[d].op \in TopOps /\ p[d].name = x
                                /\ p[d].op = "global" => g[x] = Variable(d)
                                /\ p[d].op # "global" => g[x] = Function(d)
             /\ \A c, d \in D[x] : c = d
  <2>1. D[x] = {n \in {m \in DOMAIN p : DepthIn(p, m) = 0} : p[n].op \in TopOps /\ p[n].name = x}
    BY DEF GlobalScope
  <2>2. D[x] # {} => Min(D[x]) \in D[x] /\ \A n \in D[x] : n = Min(D[x])
    BY <2>1, TopDeclarations
  <2>3. g[x] = IF D[x] = {} THEN Undeclared
               ELSE IF p[Min(D[x])].op = "global" THEN Variable(Min(D[x])) ELSE Function(Min(D[x]))
    BY DEF GlobalScope
  <2>4. \A d \in D[x] : d \in DOMAIN p /\ DepthIn(p, d) = 0 /\ p[d].op \in TopOps /\ p[d].name = x
    BY <2>1
  <2>5. \A d \in D[x] : /\ p[d].op = "global" => g[x] = Variable(d)
                        /\ p[d].op # "global" => g[x] = Function(d)
    BY <2>2, <2>3
  <2> QED
    BY <1>1, <2>2, <2>3, <2>4, <2>5
<1>3. g \in Scope
  <2>1. \A x \in Names : g[x] \in Symbol
    BY <1>2, Symbols
  <2>2. g = [x \in Names |-> g[x]]
    BY DEF GlobalScope
  <2> QED
    BY <2>1, <2>2 DEF Scope
<1>4. ASSUME NEW x \in Names
      PROVE  /\ \A m \in DOMAIN p :
                  (m < 1 \/ p[m].op = "global") /\ Declares(p, m, x) /\ InIrSlot(p, <<>>, <<1>>, 1, m)
                    => g[x] = Variable(m)
             /\ \/ FunctionIs(p, x, g[x])
                \/ \E m \in DOMAIN p :
                     /\ (m < 1 \/ p[m].op = "global")
                     /\ Declares(p, m, x) /\ InIrSlot(p, <<>>, <<1>>, 1, m)
                     /\ g[x] = Variable(m)
  <2>0. D[x] = {n \in {m \in DOMAIN p : DepthIn(p, m) = 0} : p[n].op \in TopOps /\ p[n].name = x}
    BY DEF GlobalScope
  <2>1. ASSUME NEW m \in DOMAIN p, p[m].op = "global", p[m].name = x
        PROVE  m \in D[x]
    <3>1. p[m].op \in IF DepthIn(p, m) = 0 THEN TopOps ELSE BodyOps
      BY DEF WellNested
    <3>2. DepthIn(p, m) = 0 /\ p[m].op \in TopOps
      BY <2>1, <3>1 DEF BodyOps, TopOps
    <3> QED
      BY <2>0, <2>1, <3>2
  <2>2. \A m \in DOMAIN p : ~(m < 1)
    BY <1>1
  <2>3. \A m \in DOMAIN p : p[m].op = "global" /\ Declares(p, m, x) => g[x] = Variable(m)
    BY <1>2, <2>1 DEF Declares
  <2>4. \A f : IsFunction(p, f, x) <=> f \in D[x] /\ p[f].op # "global"
    BY <2>0 DEF IsFunction, TopOps
  <2>5. CASE D[x] = {}
    BY <1>2, <2>2, <2>3, <2>4, <2>5 DEF FunctionIs
  <2>6. ASSUME NEW d \in D[x]
        PROVE  \/ FunctionIs(p, x, g[x])
               \/ \E m \in DOMAIN p :
                     /\ (m < 1 \/ p[m].op = "global")
                     /\ Declares(p, m, x) /\ InIrSlot(p, <<>>, <<1>>, 1, m)
                     /\ g[x] = Variable(m)
    <3>1. CASE p[d].op = "global"
      BY <1>2, <3>1 DEF Declares, InIrSlot
    <3>2. CASE p[d].op # "global"
      <4>1. IsFunction(p, d, x) /\ g[x] = Function(d) /\ d \in Nat /\ d <= d
        BY <1>2, <2>4, <3>2
      <4>2. \A f : IsFunction(p, f, x) => f = d
        BY <1>2, <2>4
      <4> QED
        BY <4>1, <4>2 DEF FunctionIs
    <3> QED
      BY <3>1, <3>2
  <2> QED
    BY <2>2, <2>3, <2>5, <2>6
<1>5. PICK s : s = <<g>>
  OBVIOUS
<1>6. \A i \in 1 .. Len(s) : i = 1 /\ s[i] = g
  BY <1>5
<1>7. Lowered(p, <<>>, <<1>>, 1, s)
  <2>1. ASSUME NEW i \in 1 .. Len(s), NEW x \in Names
        PROVE  /\ \A m \in DOMAIN p :
                    (m < 1 \/ p[m].op = "global") /\ Declares(p, m, x) /\ InIrSlot(p, <<>>, <<1>>, i, m)
                      => s[i][x] = Variable(m)
               /\ \/ i = 1 /\ FunctionIs(p, x, s[i][x])
                  \/ i # 1 /\ s[i][x] = Undeclared
                  \/ \E m \in DOMAIN p :
                       /\ (m < 1 \/ p[m].op = "global")
                       /\ Declares(p, m, x) /\ InIrSlot(p, <<>>, <<1>>, i, m)
                       /\ s[i][x] = Variable(m)
    <3>1. i = 1 /\ s[i] = g
      BY <1>6
    <3> QED
      BY <1>4, <3>1
  <2> QED
    BY <2>1 DEF Lowered
<1> QED
  BY <1>3, <1>5, <1>7

\* Lowering begins: a program without errors has no repeated declaration.
LEMMA PredeclareStep ==
  ASSUME Inv, Predeclare
  PROVE  Inv'
<1>0. PICK D : D = [x \in Names |-> {n \in {m \in DOMAIN program : DepthIn(program, m) = 0} :
                                      program[n].op \in TopOps /\ program[n].name = x}]
  OBVIOUS
<1>1. /\ phase = "validate" /\ cursor = Len(program) /\ errors = {} /\ cursor' = 0
      /\ program' = program /\ opened' = opened /\ errors' = errors
      /\ sem_binding' = sem_binding /\ ir_binding' = ir_binding
  BY DEF Predeclare
<1>2. WellNested(program) /\ Complete(program) /\ program \in Seq(Item) /\ Len(program) \in Nat
  BY <1>1 DEF Inv, Typed, WellNested
<1>3. NoRepeats(program)
  BY <1>1, <1>2 DEF Inv, Duplicates, NoRepeats
<1>4. \A n : Depth(n) = DepthIn(program, n)
  BY DEF Depth, DepthIn
<1>5. TopLevel = {m \in DOMAIN program : DepthIn(program, m) = 0}
  BY <1>4 DEF TopLevel
<1>6. phase' = IF \E x \in Names : Cardinality(D[x]) > 1 THEN "failed" ELSE "lower"
  BY <1>0, <1>5 DEF Predeclare
<1>7. phase' = "lower"
  <2>1. \A x \in Names : ~(Cardinality(D[x]) > 1)
    BY <1>0, <1>2, <1>3, TopDeclarations
  <2> QED
    BY <1>6, <2>1
<1>8. PICK g : g = [x \in Names |-> IF D[x] = {} THEN Undeclared
                              ELSE IF program[Min(D[x])].op = "global" THEN Variable(Min(D[x]))
                                                                 ELSE Function(Min(D[x]))]
  OBVIOUS
<1>9. scopes' = <<g>>
  BY <1>0, <1>5, <1>8 DEF Predeclare
<1>10. g \in Scope /\ Lowered(program, <<>>, <<1>>, 1, <<g>>)
  <2>1. GlobalScope(program, D, g)
    BY <1>0, <1>8 DEF GlobalScope
  <2> QED
    BY <1>2, <1>3, <2>1, Predeclared
<1>11. opened = <<>>
  <2>1. PICK st, base : Frames(program, st, base, Here, opened, scopes, "validate")
    BY <1>1 DEF Inv, ValidateInv
  <2>2. DepthIn(program, Here) = 0 /\ Here \in Nat \ {0}
    BY <1>1, <1>2 DEF Complete, Here
  <2>3. Len(st) = 0 /\ Len(opened) = Len(st) /\ opened \in Seq(OpenOps)
    BY <2>1, <2>2 DEF Frames, Chain
  <2> QED
    BY <2>3
<1>12. Frames(program, <<>>, <<1>>, 1, opened, scopes', "lower")
  BY <1>9, <1>10, <1>11, FramesStart
<1>13. IrFrames(program, <<>>, <<1>>)
  BY DEF IrFrames
<1>14. Here' = 1
  BY <1>1 DEF Here
<1>15. IrBound(program, 1, sem_binding, ir_binding)
  BY DEF IrBound
<1>16. LowerInv'
  BY <1>1, <1>7, <1>9, <1>10, <1>12, <1>13, <1>14, <1>15 DEF LowerInv
<1>17. Typed'
  <2>1. scopes' \in Seq(Scope) /\ scopes' # <<>> /\ cursor' \in 0 .. Len(program)
    BY <1>1, <1>2, <1>9, <1>10
  <2> QED
    BY <1>1, <1>2, <1>7, <2>1 DEF Inv, Typed, Phases
<1>18. Duplicates'
  BY <1>1 DEF Inv, Duplicates
<1>19. ValidatedInv'
  BY <1>1, <1>3 DEF Inv, ValidateInv, ValidatedInv, Here
<1> QED
  BY <1>7, <1>16, <1>17, <1>18, <1>19 DEF Inv, CollectInv, ValidateInv, BuiltInv

\* The functions and loops that are open have IR scopes of their own.
LEMMA IrBaseStrict ==
  ASSUME NEW p, NEW n \in Nat \ {0}, NEW st, NEW base, NEW op, NEW sc,
         Frames(p, st, base, n, op, sc, "lower"),
         NEW j \in 1 .. Len(st) + 1, NEW k \in 1 .. Len(st), j <= k, p[st[k]].op \in HomeOps
  PROVE  base[j] < base[k + 1]
<1>1. Fit(p, st, base, n, op, sc)
  BY FramesFit
<1>2. /\ Len(st) \in Nat /\ op[k] = p[st[k]].op
      /\ \A i \in 1 .. Len(st) + 1 : base[i] \in Nat
  BY <1>1 DEF Fit
<1>3. k \in 1 .. Len(st) + 1 /\ k \in 1 .. Len(base) /\ j \in 1 .. Len(base) /\ k + 1 \in 1 .. Len(st) + 1
  BY <1>1, <1>2 DEF Fit
<1>4. base[k + 1] = base[k] + Width("lower", op[k]) /\ base[j] <= base[k]
  BY <1>3 DEF Frames
<1>5. Width("lower", op[k]) = 1
  BY <1>2, Widths DEF HomeOps
<1> QED
  BY <1>2, <1>3, <1>4, <1>5

\* What is inside an item is inside it up to there.
LEMMA InsideShorter ==
  ASSUME NEW p, NEW n \in Nat \ {0}, NEW m, Inside(p, m, n), NEW v \in 1 .. n, m < v
  PROVE  Inside(p, m, v)
<1>1. m \in 1 .. n - 1 /\ p[m].op \in OpenOps /\ \A j \in m + 1 .. n : DepthIn(p, j) > DepthIn(p, m)
  BY DEF Inside
<1>2. m \in 1 .. v - 1 /\ \A j \in m + 1 .. v : j \in m + 1 .. n
  BY <1>1
<1> QED
  BY <1>1, <1>2 DEF Inside

\* What is around an item whose block is still open.
LEMMA ChainOf ==
  ASSUME NEW p, NEW n \in Nat \ {0}, NEW st, Chain(p, st, n),
         NEW k \in 1 .. Len(st), NEW v \in 1 .. n, ParentIs(p, v, st[k]), NEW r
  PROVE  Inside(p, r, v) <=> \E j \in 1 .. k : r = st[j]
<1>1. /\ Len(st) \in Nat
      /\ \A j \in 1 .. Len(st) : /\ Inside(p, st[j], n) /\ DepthIn(p, st[j]) = j - 1
                                 /\ st[j] \in 1 .. n - 1 /\ st[j] \in Nat
      /\ \A m : Inside(p, m, n) => \E j \in 1 .. Len(st) : m = st[j]
  <2>1. /\ Len(st) \in Nat
        /\ \A j \in 1 .. Len(st) : Inside(p, st[j], n) /\ DepthIn(p, st[j]) = j - 1
        /\ \A m : Inside(p, m, n) => \E j \in 1 .. Len(st) : m = st[j]
    BY DEF Chain
  <2>2. \A j \in 1 .. Len(st) : st[j] \in 1 .. n - 1 /\ st[j] \in Nat
    BY <2>1 DEF Inside
  <2> QED
    BY <2>1, <2>2
<1>2. PICK q : q = st[k]
  OBVIOUS
<1>3. q \in 1 .. n - 1 /\ q # 0 /\ Inside(p, q, n) /\ DepthIn(p, q) = k - 1
  BY <1>1, <1>2
<1>4. Inside(p, q, v) /\ DepthIn(p, q) = DepthIn(p, v) - 1
  BY <1>2, <1>3 DEF ParentIs
<1>5. v \in Nat \ {0} /\ DepthIn(p, v) = k /\ q < v /\ q \in Nat
  <2>1. DepthIn(p, v) \in Int
    BY DepthNext
  <2>2. q \in 1 .. v - 1
    BY <1>4 DEF Inside
  <2> QED
    BY <1>3, <1>4, <2>1, <2>2
<1>6. ASSUME NEW j \in 1 .. k, r = st[j] PROVE Inside(p, r, v)
  <2>1. j \in 1 .. Len(st) /\ j <= k
    BY <1>1
  <2>2. st[j] <= st[k]
    BY <2>1, ChainOrder
  <2>3. r < v
    <3>1. r \in Nat /\ r <= q
      BY <1>1, <1>2, <1>6, <2>1, <2>2
    <3> QED
      BY <1>5, <3>1
  <2> QED
    BY <1>1, <1>6, <2>1, <2>3, InsideShorter
<1>7. ASSUME Inside(p, r, v) PROVE \E j \in 1 .. k : r = st[j]
  <2>1. /\ r \in 1 .. v - 1 /\ p[r].op \in OpenOps
        /\ \A j \in r + 1 .. v : DepthIn(p, j) > DepthIn(p, r)
    BY <1>7 DEF Inside
  <2>2. r \in Nat \ {0} /\ DepthIn(p, r) \in Int
    BY <1>5, <2>1, DepthNext
  <2>3. CASE r = q
    BY <1>1, <1>2, <2>3
  <2>4. CASE q < r
    <3>1. r \in q + 1 .. v /\ v \in r + 1 .. v
      BY <1>5, <2>1, <2>2, <2>4
    <3>2. DepthIn(p, r) > k - 1 /\ k > DepthIn(p, r)
      BY <1>3, <1>4, <1>5, <2>1, <3>1 DEF Inside
    <3> QED
      BY <1>1, <2>2, <3>2
  <2>5. CASE r < q
    <3>1. q \in r + 1 .. v
      BY <1>5, <2>1, <2>2, <2>5
    <3>2. DepthIn(p, q) > DepthIn(p, r)
      BY <2>1, <3>1
    <3>3. ASSUME NEW i \in r + 1 .. n PROVE DepthIn(p, i) > DepthIn(p, r)
      <4>1. CASE i <= q
        <5>1. i \in r + 1 .. v
          BY <1>5, <2>2, <4>1
        <5> QED
          BY <2>1, <5>1
      <4>2. CASE q < i
        <5>1. i \in q + 1 .. n /\ i \in Nat \ {0}
          BY <1>5, <2>2, <4>2
        <5>2. DepthIn(p, i) > DepthIn(p, q) /\ DepthIn(p, i) \in Int
          BY <1>3, <5>1, DepthNext DEF Inside
        <5> QED
          BY <1>3, <2>2, <3>2, <5>2
      <4> QED
        BY <1>5, <2>2, <4>1, <4>2
    <3>4. r \in 1 .. n - 1
      BY <2>1
    <3>5. Inside(p, r, n)
      BY <2>1, <3>3, <3>4 DEF Inside
    <3>6. PICK j \in 1 .. Len(st) : r = st[j]
      BY <1>1, <3>5
    <3>7. ~(k <= j)
      <4>1. k <= j => st[k] <= st[j]
        BY ChainOrder
      <4>2. k <= j => q <= r
        BY <1>2, <3>6, <4>1
      <4> QED
        BY <1>5, <2>2, <2>5, <4>2
    <3>8. j \in 1 .. k
      BY <1>1, <3>7
    <3> QED
      BY <3>6, <3>8
  <2> QED
    BY <1>5, <2>2, <2>3, <2>4, <2>5
<1> QED
  BY <1>6, <1>7

\* The function or loop whose IR scope item v is declared in.
LEMMA HomeIs ==
  ASSUME NEW p, NEW n \in Nat \ {0}, NEW st, NEW base, NEW op, NEW sc,
         Frames(p, st, base, n, op, sc, "lower"), IrFrames(p, st, base),
         NEW k \in 1 .. Len(st), NEW v \in 1 .. n, ParentIs(p, v, st[k])
  PROVE  \E h \in 1 .. k : /\ p[st[h]].op \in HomeOps /\ base[h + 1] = base[k + 1]
                           /\ AroundIs(p, v, HomeOps, st[h])
<1>1. Fit(p, st, base, n, op, sc) /\ Chain(p, st, n)
  BY FramesFit DEF Frames
<1>2. Len(st) \in Nat /\ \A j \in 1 .. Len(st) : st[j] \in Nat
  BY <1>1 DEF Fit
<1>3. PICK h \in 1 .. k : /\ p[st[h]].op \in HomeOps /\ base[h + 1] = base[k + 1]
                          /\ \A r \in h + 1 .. k : p[st[r]].op = "block"
  BY DEF IrFrames
<1>4. \A r : Inside(p, r, v) <=> \E j \in 1 .. k : r = st[j]
  BY <1>1, ChainOf
<1>5. ASSUME NEW r, Inside(p, r, v), p[r].op \in HomeOps PROVE r <= st[h]
  <2>1. PICK j \in 1 .. k : r = st[j]
    BY <1>4, <1>5
  <2>2. ~(j \in h + 1 .. k)
    BY <1>3, <1>5, <2>1 DEF HomeOps
  <2>3. j <= h /\ j \in 1 .. Len(st) /\ h \in 1 .. Len(st)
    BY <1>2, <2>2
  <2> QED
    BY <1>1, <2>1, <2>3, ChainOrder
<1> QED
  BY <1>3, <1>4, <1>5 DEF AroundIs

\* It is the only one.
LEMMA AroundUnique ==
  ASSUME NEW p, NEW n \in Nat, NEW ops, NEW g, NEW h, AroundIs(p, n, ops, g), AroundIs(p, n, ops, h)
  PROVE  g = h
<1>1. g \in Nat /\ h \in Nat
  BY DEF AroundIs, Inside
<1>2. g <= h /\ h <= g
  BY DEF AroundIs
<1> QED
  BY <1>1, <1>2

\* Below the top level, the walk is in a function of the top level.
LEMMA InTop ==
  ASSUME NEW p, NEW n \in Nat \ {0}, NEW st, NEW base, NEW op, NEW sc,
         Frames(p, st, base, n, op, sc, "lower"), IrFrames(p, st, base), DepthIn(p, n) # 0
  PROVE  /\ Len(st) \in Nat \ {0} /\ InTopFunction(p, n)
         /\ \E h \in 1 .. Len(st) : /\ p[st[h]].op \in HomeOps /\ base[h + 1] = Len(sc)
                                    /\ AroundIs(p, n, HomeOps, st[h])
<1>1. Fit(p, st, base, n, op, sc) /\ Chain(p, st, n)
  BY FramesFit DEF Frames
<1>2. PICK L : L = Len(st)
  OBVIOUS
<1>3. L \in Nat \ {0} /\ Len(sc) = base[L + 1] /\ L \in 1 .. L /\ 1 \in 1 .. L
  <2>1. L \in Nat /\ L # 0 /\ Len(sc) = base[L + 1]
    BY <1>1, <1>2 DEF Fit, Chain
  <2> QED
    BY <2>1
<1>4. ParentIs(p, n, st[L])
  <2>1. Outer(st, L + 1) = st[L]
    BY <1>3 DEF Outer
  <2> QED
    BY <1>1, <1>2, <2>1, ChainParent
<1>5. n \in 1 .. n
  OBVIOUS
<1>6. PICK h \in 1 .. L : /\ p[st[h]].op \in HomeOps /\ base[h + 1] = base[L + 1]
                          /\ AroundIs(p, n, HomeOps, st[h])
  BY <1>2, <1>3, <1>4, <1>5, HomeIs
<1>7. InTopFunction(p, n)
  <2>1. Inside(p, st[1], n) /\ DepthIn(p, st[1]) = 0 /\ p[st[1]].op = "func" /\ st[1] \in Nat
    BY <1>1, <1>2, <1>3 DEF Chain, IrFrames, Inside
  <2>2. ASSUME NEW r, Inside(p, r, n), p[r].op \in {"func"} PROVE r <= st[1]
    <3>1. PICK j \in 1 .. L : r = st[j]
      BY <1>1, <1>2, <2>2 DEF Chain
    <3>2. j = 1
      BY <1>2, <2>2, <3>1 DEF IrFrames
    <3> QED
      BY <2>1, <3>1, <3>2
  <2> QED
    BY <2>1, <2>2 DEF InTopFunction, AroundIs
<1> QED
  BY <1>2, <1>3, <1>6, <1>7

\* An open item is open once, and an IR scope has one function or loop.
LEMMA IrSlotUnique ==
  ASSUME NEW p, NEW n \in Nat \ {0}, NEW st, NEW base, NEW op, NEW sc,
         Frames(p, st, base, n, op, sc, "lower"),
         NEW j \in 1 .. Len(st), NEW k \in 1 .. Len(st)
  PROVE  /\ st[j] = st[k] => j = k
         /\ p[st[j]].op \in HomeOps /\ p[st[k]].op \in HomeOps /\ base[j + 1] = base[k + 1] => j = k
<1>1. Fit(p, st, base, n, op, sc) /\ Chain(p, st, n)
  BY FramesFit DEF Frames
<1>2. /\ Len(st) \in Nat /\ (\A i \in 1 .. Len(st) : st[i] \in Nat)
      /\ \A i \in 1 .. Len(st) + 1 : base[i] \in Nat
  <2>1. \A i \in 1 .. Len(st) : st[i] \in 1 .. n - 1
    BY <1>1 DEF Fit
  <2>2. Len(st) \in Nat /\ \A i \in 1 .. Len(st) + 1 : base[i] \in 1 .. Len(sc)
    BY <1>1 DEF Fit
  <2> QED
    BY <2>1, <2>2
<1>3. ASSUME NEW a \in 1 .. Len(st), NEW b \in 1 .. Len(st), a < b
      PROVE  st[a] # st[b] /\ (p[st[b]].op \in HomeOps => base[a + 1] # base[b + 1])
  <2>1. st[a] < st[b]
    BY <1>1, <1>3, ChainIncreasing
  <2>2. a + 1 \in 1 .. Len(st) + 1 /\ a + 1 <= b /\ b + 1 \in 1 .. Len(st) + 1
    BY <1>2, <1>3
  <2>3. p[st[b]].op \in HomeOps => base[a + 1] < base[b + 1]
    BY <2>2, IrBaseStrict
  <2>4. st[a] \in Nat /\ st[b] \in Nat /\ base[a + 1] \in Nat /\ base[b + 1] \in Nat
    BY <1>2, <2>2
  <2> QED
    BY <2>1, <2>3, <2>4
<1>4. j = k \/ j < k \/ k < j
  BY <1>2
<1> QED
  BY <1>3, <1>4

\* Item n itself is declared in the current IR scope, if it is a local.
LEMMA IrSlotHere ==
  ASSUME NEW p, WellNested(p), NEW n \in DOMAIN p, NEW st, NEW base, NEW op, NEW sc,
         Frames(p, st, base, n, op, sc, "lower"), IrFrames(p, st, base), NEW i
  PROVE  /\ p[n].op = "decl" => (InIrSlot(p, st, base, i, n) <=> i = Len(sc))
         /\ p[n].op \notin {"decl", "global"} => ~InIrSlot(p, st, base, i, n)
<1>1. n \in Nat \ {0}
  BY DEF WellNested
<1>2. Fit(p, st, base, n, op, sc)
  BY <1>1, FramesFit
<1>3. \A k \in 1 .. Len(st) : st[k] # n
  BY <1>1, <1>2 DEF Fit
<1>4. ASSUME p[n].op = "decl"
      PROVE  InIrSlot(p, st, base, i, n) <=> i = Len(sc)
  <2>1. DepthIn(p, n) # 0
    BY <1>4 DEF WellNested, TopOps
  <2>2. PICK h \in 1 .. Len(st) : /\ p[st[h]].op \in HomeOps /\ base[h + 1] = Len(sc)
                                  /\ AroundIs(p, n, HomeOps, st[h])
    BY <1>1, <2>1, InTop
  <2>3. ASSUME NEW k \in 1 .. Len(st), AroundIs(p, n, HomeOps, st[k])
        PROVE  k = h
    <3>1. st[k] = st[h]
      BY <1>1, <2>2, <2>3, AroundUnique
    <3> QED
      BY <1>1, <3>1, IrSlotUnique
  <2> QED
    BY <1>3, <1>4, <2>2, <2>3 DEF InIrSlot
<1> QED
  BY <1>3, <1>4 DEF InIrSlot

\* The scopes after the declaration of item n.
LEMMA LoweredPast ==
  ASSUME NEW p, WellNested(p), NEW n \in DOMAIN p, NEW st, NEW base, NEW op, NEW sc,
         Frames(p, st, base, n, op, sc, "lower"), IrFrames(p, st, base),
         Lowered(p, st, base, n, sc), NEW sc2,
         \/ p[n].op # "decl" /\ sc2 = sc
         \/ p[n].op = "decl" /\ p[n].name \in Names
            /\ LookupCurrent(sc, p[n].name) = Undeclared /\ sc2 = Declare(sc, p[n].name, Variable(n))
  PROVE  Lowered(p, st, base, n + 1, sc2)
<1>1. n \in Nat \ {0} /\ p \in Seq(Item) /\ DOMAIN p \subseteq Nat
  BY DEF WellNested
<1>2. Fit(p, st, base, n, op, sc)
  BY <1>1, FramesFit
<1>3. sc \in Seq(Scope) /\ sc # <<>> /\ Len(sc) \in Nat \ {0}
  BY <1>2 DEF Fit
<1>4. \A i : /\ p[n].op = "decl" => (InIrSlot(p, st, base, i, n) <=> i = Len(sc))
             /\ p[n].op \notin {"decl", "global"} => ~InIrSlot(p, st, base, i, n)
  BY IrSlotHere
<1>5. \A m \in DOMAIN p : m < n + 1 <=> m < n \/ m = n
  BY <1>1
<1>6. CASE p[n].op # "decl" /\ sc2 = sc
  <2>1. \A m \in DOMAIN p : \A i :
          (m < n + 1 \/ p[m].op = "global") /\ InIrSlot(p, st, base, i, m)
            <=> (m < n \/ p[m].op = "global") /\ InIrSlot(p, st, base, i, m)
    BY <1>4, <1>5, <1>6
  <2> QED
    BY <1>6, <2>1 DEF Lowered
<1>7. CASE /\ p[n].op = "decl" /\ p[n].name \in Names
           /\ LookupCurrent(sc, p[n].name) = Undeclared /\ sc2 = Declare(sc, p[n].name, Variable(n))
  <2>1. PICK y : y = p[n].name
    OBVIOUS
  <2>2. Variable(n) \in Symbol /\ y \in Names /\ sc[Len(sc)][y] = Undeclared
    BY <1>1, <1>7, <2>1, Symbols DEF LookupCurrent, Last
  <2>3. /\ Len(sc2) = Len(sc)
        /\ \A i \in 1 .. Len(sc) : \A x \in Names :
             /\ ~(i = Len(sc) /\ x = y) => sc2[i][x] = sc[i][x]
             /\ i = Len(sc) /\ x = y /\ sc[i][x] = Undeclared => sc2[i][x] = Variable(n)
    BY <1>3, <1>7, <2>1, <2>2, DeclareIn
  <2>4. Declares(p, n, y) /\ \A x : Declares(p, n, x) => x = y
    BY <1>7, <2>1 DEF Declares
  <2>5. Len(sc) \in 1 .. Len(sc)
    BY <1>3
  <2>6. \A m \in DOMAIN p : ~(/\ m < n \/ p[m].op = "global"
                              /\ Declares(p, m, y) /\ InIrSlot(p, st, base, Len(sc), m))
    BY <2>2, <2>5, Symbols DEF Lowered
  <2>7. ASSUME NEW i \in 1 .. Len(sc2), NEW x \in Names
        PROVE  /\ \A m \in DOMAIN p :
                    (m < n + 1 \/ p[m].op = "global") /\ Declares(p, m, x) /\ InIrSlot(p, st, base, i, m)
                      => sc2[i][x] = Variable(m)
               /\ \/ i = 1 /\ FunctionIs(p, x, sc2[i][x])
                  \/ i # 1 /\ sc2[i][x] = Undeclared
                  \/ \E m \in DOMAIN p :
                       /\ (m < n + 1 \/ p[m].op = "global")
                       /\ Declares(p, m, x) /\ InIrSlot(p, st, base, i, m)
                       /\ sc2[i][x] = Variable(m)
    <3>0. i \in 1 .. Len(sc)
      BY <2>3
    <3>1. CASE i = Len(sc) /\ x = y
      <4>1. sc2[i][x] = Variable(n)
        BY <2>2, <2>3, <3>0, <3>1
      <4>2. InIrSlot(p, st, base, i, n)
        BY <1>4, <1>7, <3>1
      <4>3. n < n + 1
        BY <1>1
      <4> QED
        BY <1>5, <2>4, <2>6, <3>1, <4>1, <4>2, <4>3
    <3>2. CASE ~(i = Len(sc) /\ x = y)
      <4>1. sc2[i][x] = sc[i][x]
        BY <2>3, <3>0, <3>2
      <4>2. ~(Declares(p, n, x) /\ InIrSlot(p, st, base, i, n))
        BY <1>4, <1>7, <2>4, <3>2
      <4> QED
        BY <1>5, <3>0, <4>1, <4>2 DEF Lowered
    <3> QED
      BY <3>1, <3>2
  <2> QED
    BY <2>7 DEF Lowered
<1> QED
  BY <1>6, <1>7

\* The IR slots after item n was opened, with w scopes.
LEMMA IrSlotOpened ==
  ASSUME NEW p, NEW n \in Nat \ {0}, NEW st, NEW base, NEW op, NEW sc,
         Frames(p, st, base, n, op, sc, "lower"), p[n].op \in OpenOps,
         NEW w \in Nat, p[n].op \in HomeOps => w > Len(sc), p[n].op \notin HomeOps => w = Len(sc),
         NEW m \in Nat, m <= n \/ p[m].op = "global", NEW i \in 1 .. w
  PROVE  InIrSlot(p, Append(st, n), Append(base, w), i, m) <=>
           \/ i <= Len(sc) /\ InIrSlot(p, st, base, i, m)
           \/ m = n /\ p[n].op \in HomeOps /\ i = w
<1>1. Fit(p, st, base, n, op, sc)
  BY FramesFit
<1>2. PICK L : L = Len(st)
  OBVIOUS
<1>3. /\ L \in Nat /\ Len(base) = L + 1 /\ st \in Seq(1 .. n - 1) /\ base \in Seq(Nat)
      /\ Len(sc) \in Nat \ {0} /\ \A k \in 1 .. L + 1 : base[k] \in 1 .. Len(sc)
  BY <1>1, <1>2 DEF Fit
<1>4. PICK t : t = Append(st, n)
  OBVIOUS
<1>5. PICK b : b = Append(base, w)
  OBVIOUS
<1>6. Len(t) = L + 1 /\ (\A k \in 1 .. L : t[k] = st[k]) /\ t[L + 1] = n
  BY <1>2, <1>3, <1>4
<1>7. (\A k \in 1 .. L + 1 : b[k] = base[k]) /\ b[L + 2] = w
  <2>1. Len(base) + 1 = L + 2
    BY <1>3
  <2> QED
    BY <1>3, <1>5, <2>1
<1>8. \A k \in 1 .. Len(t) : k \in 1 .. L \/ k = L + 1
  BY <1>3, <1>6
<1>9. (\A k \in 1 .. L : k \in 1 .. Len(t) /\ k + 1 \in 1 .. L + 1) /\ L + 1 \in 1 .. Len(t)
      /\ (L + 1) + 1 = L + 2
  BY <1>3, <1>6
<1>10. ~(p[m].op = "decl" /\ AroundIs(p, m, HomeOps, n))
  BY DEF AroundIs, Inside
<1>11. ASSUME NEW k \in 1 .. Len(t), p[t[k]].op \in HomeOps, i = b[k + 1],
              \/ m = t[k]
              \/ p[m].op = "decl" /\ AroundIs(p, m, HomeOps, t[k])
       PROVE  \/ InIrSlot(p, st, base, i, m)
              \/ m = n /\ p[n].op \in HomeOps /\ i = w
  <2>1. CASE k \in 1 .. L
    <3>1. t[k] = st[k] /\ b[k + 1] = base[k + 1]
      BY <1>6, <1>7, <1>9, <2>1
    <3> QED
      BY <1>2, <1>11, <2>1, <3>1 DEF InIrSlot
  <2>2. CASE k = L + 1
    <3>1. t[k] = n /\ b[k + 1] = w
      BY <1>6, <1>7, <1>9, <2>2
    <3> QED
      BY <1>10, <1>11, <3>1
  <2> QED
    BY <1>8, <2>1, <2>2
<1>12. ASSUME NEW k \in 1 .. L, p[st[k]].op \in HomeOps, i = base[k + 1],
              \/ m = st[k]
              \/ p[m].op = "decl" /\ AroundIs(p, m, HomeOps, st[k])
       PROVE  InIrSlot(p, t, b, i, m) /\ i <= Len(sc)
  <2>1. t[k] = st[k] /\ b[k + 1] = base[k + 1] /\ k \in 1 .. Len(t)
    BY <1>6, <1>7, <1>9
  <2>2. i <= Len(sc)
    BY <1>3, <1>9, <1>12
  <2> QED
    BY <1>12, <2>1, <2>2 DEF InIrSlot
<1>13. ASSUME m = n, p[n].op \in HomeOps, i = w PROVE InIrSlot(p, t, b, i, m)
  BY <1>6, <1>7, <1>9, <1>13 DEF InIrSlot
<1>14. i = 1 => i <= Len(sc)
  BY <1>3
<1>15. InIrSlot(p, t, b, i, m) <=>
         \/ i <= Len(sc) /\ InIrSlot(p, st, base, i, m)
         \/ m = n /\ p[n].op \in HomeOps /\ i = w
  <2>1. ASSUME InIrSlot(p, t, b, i, m)
        PROVE  \/ InIrSlot(p, st, base, i, m)
               \/ m = n /\ p[n].op \in HomeOps /\ i = w
    <3>1. CASE i = 1 /\ p[m].op = "global"
      BY <3>1 DEF InIrSlot
    <3> QED
      BY <1>11, <2>1, <3>1 DEF InIrSlot
  <2>2. ASSUME InIrSlot(p, st, base, i, m)
        PROVE  i <= Len(sc) /\ InIrSlot(p, t, b, i, m)
    <3>1. CASE i = 1 /\ p[m].op = "global"
      BY <1>14, <3>1 DEF InIrSlot
    <3> QED
      BY <1>2, <1>12, <2>2, <3>1 DEF InIrSlot
  <2> QED
    BY <1>13, <2>1, <2>2
<1> QED
  BY <1>4, <1>5, <1>15

\* A function, block or for is opened.
LEMMA LoweredOpen ==
  ASSUME NEW p, WellNested(p), NEW n \in DOMAIN p, NEW st, NEW base, NEW op, NEW sc,
         Frames(p, st, base, n, op, sc, "lower"), Lowered(p, st, base, n + 1, sc),
         p[n].op \in OpenOps, NEW sc2,
         \/ p[n].op = "block" /\ sc2 = sc
         \/ p[n].op = "func" /\ EntersHeader(sc, sc2, p[n].with, n)
         \/ p[n].op = "for" /\ EntersHeader(sc, sc2, p[n].name, n)
  PROVE  Lowered(p, Append(st, n), Append(base, Len(sc2)), n + 1, sc2)
<1>1. n \in Nat \ {0} /\ p \in Seq(Item) /\ (\A m \in DOMAIN p : m \in Nat)
      /\ \A m \in DOMAIN p : m < n + 1 <=> m <= n
  BY DEF WellNested
<1>2. PICK w : w = Len(sc2)
  OBVIOUS
<1>3. /\ Len(sc) \in Nat \ {0} /\ w \in Nat
      /\ p[n].op \in HomeOps => w = Len(sc) + 1
      /\ p[n].op \notin HomeOps => w = Len(sc) /\ sc2 = sc
      /\ \A i \in 1 .. Len(sc) : sc2[i] = sc[i]
  <2>1. Len(sc) \in Nat \ {0}
    <3>1. Fit(p, st, base, n, op, sc)
      BY <1>1, FramesFit
    <3> QED
      BY <3>1 DEF Fit
  <2>2. CASE p[n].op = "block"
    BY <1>2, <2>1, <2>2 DEF HomeOps
  <2>3. CASE p[n].op = "func"
    BY <1>2, <2>1, <2>3 DEF HomeOps, EntersHeader
  <2>4. CASE p[n].op = "for"
    BY <1>2, <2>1, <2>4 DEF HomeOps, EntersHeader
  <2> QED
    BY <2>2, <2>3, <2>4 DEF OpenOps
<1>4. p[n].op \in HomeOps => w > Len(sc)
  BY <1>3
<1>5. \A m \in DOMAIN p, i \in 1 .. w :
        m < n + 1 \/ p[m].op = "global" =>
          (InIrSlot(p, Append(st, n), Append(base, w), i, m) <=>
             \/ i <= Len(sc) /\ InIrSlot(p, st, base, i, m)
             \/ m = n /\ p[n].op \in HomeOps /\ i = w)
  BY <1>1, <1>3, <1>4, IrSlotOpened
<1>6. ASSUME p[n].op \in HomeOps, NEW x \in Names
      PROVE  /\ Declares(p, n, x) => sc2[w][x] = Variable(n)
             /\ ~Declares(p, n, x) => sc2[w][x] = Undeclared
  <2>1. w = Len(sc) + 1
    BY <1>3, <1>6
  <2>2. CASE p[n].op = "func"
    <3>1. EntersHeader(sc, sc2, p[n].with, n) /\ (Declares(p, n, x) <=> x = p[n].with)
      BY <2>2 DEF Declares
    <3> QED
      BY <2>1, <3>1 DEF EntersHeader
  <2>3. CASE p[n].op = "for"
    <3>1. EntersHeader(sc, sc2, p[n].name, n) /\ (Declares(p, n, x) <=> x = p[n].name)
      BY <2>3 DEF Declares
    <3> QED
      BY <2>1, <3>1 DEF EntersHeader
  <2> QED
    BY <1>6, <2>2, <2>3 DEF HomeOps
<1>7. ASSUME NEW i \in 1 .. w, NEW x \in Names
      PROVE  /\ \A m \in DOMAIN p :
                  (m < n + 1 \/ p[m].op = "global") /\ Declares(p, m, x)
                    /\ InIrSlot(p, Append(st, n), Append(base, w), i, m)
                    => sc2[i][x] = Variable(m)
             /\ \/ i = 1 /\ FunctionIs(p, x, sc2[i][x])
                \/ i # 1 /\ sc2[i][x] = Undeclared
                \/ \E m \in DOMAIN p :
                     /\ (m < n + 1 \/ p[m].op = "global")
                     /\ Declares(p, m, x) /\ InIrSlot(p, Append(st, n), Append(base, w), i, m)
                     /\ sc2[i][x] = Variable(m)
  <2>1. CASE i <= Len(sc)
    <3>1. i \in 1 .. Len(sc) /\ ~(p[n].op \in HomeOps /\ i = w)
      BY <1>3, <2>1
    <3>2. \A m \in DOMAIN p : m < n + 1 \/ p[m].op = "global" =>
            (InIrSlot(p, Append(st, n), Append(base, w), i, m) <=> InIrSlot(p, st, base, i, m))
      BY <1>5, <2>1, <3>1
    <3>3. sc2[i] = sc[i]
      BY <1>3, <3>1
    <3>4. /\ \A m \in DOMAIN p :
               (m < n + 1 \/ p[m].op = "global") /\ Declares(p, m, x) /\ InIrSlot(p, st, base, i, m)
                 => sc[i][x] = Variable(m)
          /\ \/ i = 1 /\ FunctionIs(p, x, sc[i][x])
             \/ i # 1 /\ sc[i][x] = Undeclared
             \/ \E m \in DOMAIN p :
                  /\ (m < n + 1 \/ p[m].op = "global")
                  /\ Declares(p, m, x) /\ InIrSlot(p, st, base, i, m)
                  /\ sc[i][x] = Variable(m)
      BY <3>1 DEF Lowered
    <3> QED
      BY <3>2, <3>3, <3>4
  <2>2. CASE ~(i <= Len(sc))
    <3>1. p[n].op \in HomeOps /\ i = w /\ i # 1
      BY <1>3, <2>2
    <3>2. \A m \in DOMAIN p : m < n + 1 \/ p[m].op = "global" =>
            (InIrSlot(p, Append(st, n), Append(base, w), i, m) <=> m = n)
      BY <1>5, <2>2, <3>1
    <3>3. n < n + 1
      BY <1>1
    <3> QED
      BY <1>6, <3>1, <3>2, <3>3
  <2> QED
    BY <2>1, <2>2
<1> QED
  BY <1>2, <1>7 DEF Lowered

\* The IR slots after the innermost open item was closed.
LEMMA IrSlotClosed ==
  ASSUME NEW p, NEW n \in Nat \ {0}, NEW st, NEW base, NEW op, NEW sc,
         Frames(p, st, base, n, op, sc, "lower"), st # <<>>,
         NEW m, NEW i \in 1 .. base[Len(st)]
  PROVE  InIrSlot(p, Front(st), Front(base), i, m) <=> InIrSlot(p, st, base, i, m)
<1>1. Fit(p, st, base, n, op, sc)
  BY FramesFit
<1>2. PICK L : L = Len(st)
  OBVIOUS
<1>3. /\ L \in Nat \ {0} /\ Len(base) = L + 1 /\ st \in Seq(1 .. n - 1) /\ base \in Seq(Nat)
      /\ \A k \in 1 .. L + 1 : base[k] \in Nat
  BY <1>1, <1>2 DEF Fit
<1>4. PICK t : t = Front(st)
  OBVIOUS
<1>5. PICK b : b = Front(base)
  OBVIOUS
<1>6. Len(t) = L - 1 /\ \A k \in 1 .. L - 1 : t[k] = st[k]
  BY <1>2, <1>3, <1>4, FrontOf
<1>7. \A k \in 1 .. L : b[k] = base[k]
  <2>1. base # <<>> /\ Len(base) - 1 = L
    BY <1>3
  <2> QED
    BY <1>3, <1>5, <2>1, FrontOf
<1>8. 1 .. Len(t) = 1 .. L - 1 /\ (\A k \in 1 .. L - 1 : k \in 1 .. L /\ k + 1 \in 1 .. L)
       /\ \A k \in 1 .. L : k \in 1 .. L - 1 \/ k = L
  BY <1>3, <1>6
<1>9. p[st[L]].op \in HomeOps => i # base[L + 1]
  <2>1. L \in 1 .. Len(st) + 1 /\ L \in 1 .. Len(st) /\ L <= L /\ L \in 1 .. L + 1 /\ L + 1 \in 1 .. L + 1
    BY <1>2, <1>3
  <2>2. p[st[L]].op \in HomeOps => base[L] < base[L + 1]
    BY <2>1, IrBaseStrict
  <2>3. i <= base[L] /\ base[L] \in Nat /\ base[L + 1] \in Nat
    BY <1>2, <1>3, <2>1
  <2> QED
    BY <2>2, <2>3
<1>10. \A k \in 1 .. L - 1 : t[k] = st[k] /\ b[k + 1] = base[k + 1]
  BY <1>6, <1>7, <1>8
<1>11. (\E k \in 1 .. L - 1 :
          /\ p[t[k]].op \in HomeOps /\ i = b[k + 1]
          /\ \/ m = t[k]
             \/ p[m].op = "decl" /\ AroundIs(p, m, HomeOps, t[k]))
       <=> (\E k \in 1 .. L :
              /\ p[st[k]].op \in HomeOps /\ i = base[k + 1]
              /\ \/ m = st[k]
                 \/ p[m].op = "decl" /\ AroundIs(p, m, HomeOps, st[k]))
  BY <1>8, <1>9, <1>10
<1> QED
  BY <1>2, <1>4, <1>5, <1>8, <1>11 DEF InIrSlot

\* Something is closed.
LEMMA LoweredClose ==
  ASSUME NEW p, NEW n \in Nat \ {0}, NEW st, NEW base, NEW op, NEW sc,
         Frames(p, st, base, n, op, sc, "lower"), st # <<>>,
         Lowered(p, st, base, n + 1, sc), NEW sc2, Leaves(st, base, sc, sc2)
  PROVE  Lowered(p, Front(st), Front(base), n + 1, sc2)
<1>1. Len(sc2) = base[Len(st)] /\ Len(sc2) <= Len(sc) /\ sc2 \in Seq(Scope)
      /\ \A i \in 1 .. Len(sc2) : sc2[i] = sc[i]
  BY DEF Leaves
<1>2. Len(sc) \in Nat
  <2>1. Fit(p, st, base, n, op, sc)
    BY FramesFit
  <2> QED
    BY <2>1 DEF Fit
<1>3. \A i \in 1 .. Len(sc2) : i \in 1 .. Len(sc)
  BY <1>1, <1>2
<1>4. \A i \in 1 .. Len(sc2) : \A m :
        InIrSlot(p, Front(st), Front(base), i, m) <=> InIrSlot(p, st, base, i, m)
  BY <1>1, IrSlotClosed
<1> QED
  BY <1>1, <1>3, <1>4 DEF Lowered

\* Functions are opened at the top level only, blocks and loops below it.
LEMMA IrFramesOpen ==
  ASSUME NEW p, NEW n \in Nat \ {0}, NEW st, NEW base, NEW op, NEW sc,
         Frames(p, st, base, n, op, sc, "lower"), IrFrames(p, st, base),
         p[n].op \in OpenOps, p[n].op = "func" <=> st = <<>>,
         NEW w, p[n].op = "block" => w = Len(sc)
  PROVE  IrFrames(p, Append(st, n), Append(base, w))
<1>1. Fit(p, st, base, n, op, sc)
  BY FramesFit
<1>2. PICK L : L = Len(st)
  OBVIOUS
<1>3. /\ L \in Nat /\ Len(base) = L + 1 /\ st \in Seq(1 .. n - 1) /\ base \in Seq(Nat)
      /\ Len(sc) = base[L + 1] /\ (st = <<>> <=> L = 0)
  BY <1>1, <1>2 DEF Fit
<1>4. PICK t : t = Append(st, n)
  OBVIOUS
<1>5. PICK b : b = Append(base, w)
  OBVIOUS
<1>6. Len(t) = L + 1 /\ (\A k \in 1 .. L : t[k] = st[k]) /\ t[L + 1] = n
  BY <1>2, <1>3, <1>4
<1>7. (\A k \in 1 .. L + 1 : b[k] = base[k]) /\ b[L + 2] = w
  <2>1. Len(base) + 1 = L + 2 /\ \A k \in 1 .. L + 1 : k \in 1 .. Len(base)
    BY <1>3
  <2>2. \A k \in 1 .. Len(base) : b[k] = base[k]
    BY <1>3, <1>5
  <2>3. b[Len(base) + 1] = w
    BY <1>3, <1>5
  <2> QED
    BY <2>1, <2>2, <2>3
<1>8. \A k \in 1 .. Len(t) : k \in 1 .. L \/ k = L + 1
  BY <1>3, <1>6
<1>9. ASSUME NEW k \in 1 .. L
      PROVE  /\ p[t[k]].op = "func" <=> k = 1
             /\ \E h \in 1 .. k : /\ p[t[h]].op \in HomeOps /\ b[h + 1] = b[k + 1]
                                  /\ \A r \in h + 1 .. k : p[t[r]].op = "block"
  <2>0. k + 1 \in 1 .. L + 1
    BY <1>3
  <2>1. t[k] = st[k]
    BY <1>6
  <2>2. (p[st[k]].op = "func" <=> k = 1)
    BY <1>2 DEF IrFrames
  <2>3. PICK h \in 1 .. k : /\ p[st[h]].op \in HomeOps /\ base[h + 1] = base[k + 1]
                            /\ \A r \in h + 1 .. k : p[st[r]].op = "block"
    BY <1>2 DEF IrFrames
  <2>4. h \in 1 .. L /\ h + 1 \in 1 .. L + 1 /\ \A r \in h + 1 .. k : r \in 1 .. L
    BY <1>3
  <2> QED
    BY <1>6, <1>7, <2>0, <2>1, <2>2, <2>3, <2>4
<1>10. /\ p[t[L + 1]].op = "func" <=> L + 1 = 1
       /\ \E h \in 1 .. L + 1 : /\ p[t[h]].op \in HomeOps /\ b[h + 1] = b[(L + 1) + 1]
                                /\ \A r \in h + 1 .. L + 1 : p[t[r]].op = "block"
  <2>1. p[t[L + 1]].op = "func" <=> L + 1 = 1
    BY <1>3, <1>6
  <2>2. CASE p[n].op \in HomeOps
    <3>1. L + 1 \in 1 .. L + 1 /\ (L + 1) + 1 .. L + 1 = {}
      BY <1>3
    <3> QED
      BY <1>6, <2>1, <2>2, <3>1
  <2>3. CASE p[n].op \notin HomeOps
    <3>1. p[n].op = "block" /\ L \in 1 .. L /\ w = base[L + 1]
      BY <1>3, <2>3 DEF HomeOps, OpenOps
    <3>2. PICK h \in 1 .. L : /\ p[t[h]].op \in HomeOps /\ b[h + 1] = b[L + 1]
                              /\ \A r \in h + 1 .. L : p[t[r]].op = "block"
      BY <1>9, <3>1
    <3>3. b[L + 1] = w /\ b[(L + 1) + 1] = w
      <4>1. L + 1 \in 1 .. L + 1 /\ (L + 1) + 1 = L + 2
        BY <1>3
      <4> QED
        BY <1>7, <3>1, <4>1
    <3>4. \A r \in h + 1 .. L + 1 : r \in h + 1 .. L \/ r = L + 1
      BY <1>3
    <3>5. \A r \in h + 1 .. L + 1 : p[t[r]].op = "block"
      BY <1>6, <3>1, <3>2, <3>4
    <3>6. h \in 1 .. L + 1
      BY <1>3
    <3> QED
      BY <2>1, <3>2, <3>3, <3>5, <3>6
  <2> QED
    BY <2>2, <2>3
<1>11. ASSUME NEW k \in 1 .. Len(t)
       PROVE  /\ p[t[k]].op = "func" <=> k = 1
              /\ \E h \in 1 .. k : /\ p[t[h]].op \in HomeOps /\ b[h + 1] = b[k + 1]
                                   /\ \A r \in h + 1 .. k : p[t[r]].op = "block"
  <2>1. CASE k \in 1 .. L
    BY <1>9, <2>1
  <2>2. CASE k = L + 1
    BY <1>10, <2>2
  <2> QED
    BY <1>8, <2>1, <2>2
<1>12. IrFrames(p, t, b)
  BY <1>11 DEF IrFrames
<1> QED
  BY <1>4, <1>5, <1>12

\* The outer ones stay open.
LEMMA IrFramesClose ==
  ASSUME NEW p, NEW n \in Nat \ {0}, NEW st, NEW base, NEW op, NEW sc,
         Frames(p, st, base, n, op, sc, "lower"), IrFrames(p, st, base), st # <<>>
  PROVE  IrFrames(p, Front(st), Front(base))
<1>1. Fit(p, st, base, n, op, sc)
  BY FramesFit
<1>2. PICK L : L = Len(st)
  OBVIOUS
<1>3. L \in Nat \ {0} /\ Len(base) = L + 1 /\ st \in Seq(1 .. n - 1) /\ base \in Seq(Nat)
  BY <1>1, <1>2 DEF Fit
<1>4. PICK t : t = Front(st)
  OBVIOUS
<1>5. PICK b : b = Front(base)
  OBVIOUS
<1>6. Len(t) = L - 1 /\ \A k \in 1 .. L - 1 : t[k] = st[k]
  BY <1>2, <1>3, <1>4, FrontOf
<1>7. \A k \in 1 .. L : b[k] = base[k]
  <2>1. base # <<>> /\ Len(base) - 1 = L
    BY <1>3
  <2> QED
    BY <1>3, <1>5, <2>1, FrontOf
<1>8. ASSUME NEW k \in 1 .. Len(t)
      PROVE  /\ p[t[k]].op = "func" <=> k = 1
             /\ \E h \in 1 .. k : /\ p[t[h]].op \in HomeOps /\ b[h + 1] = b[k + 1]
                                  /\ \A r \in h + 1 .. k : p[t[r]].op = "block"
  <2>1. k \in 1 .. L /\ k \in 1 .. L - 1 /\ k + 1 \in 1 .. L
    BY <1>3, <1>6
  <2>2. (p[st[k]].op = "func" <=> k = 1)
    BY <1>2, <2>1 DEF IrFrames
  <2>3. PICK h \in 1 .. k : /\ p[st[h]].op \in HomeOps /\ base[h + 1] = base[k + 1]
                            /\ \A r \in h + 1 .. k : p[st[r]].op = "block"
    BY <1>2, <2>1 DEF IrFrames
  <2>4. h \in 1 .. L - 1 /\ h + 1 \in 1 .. L /\ \A r \in h + 1 .. k : r \in 1 .. L - 1
    BY <1>3, <2>1
  <2> QED
    BY <1>6, <1>7, <2>1, <2>2, <2>3, <2>4
<1> QED
  BY <1>4, <1>5, <1>8 DEF IrFrames

\* The item c closes what item n opens.
ClosedBy(p, n, c) ==
  /\ c \in n + 1 .. Len(p)
  /\ DepthIn(p, c + 1) = DepthIn(p, n)
  /\ \A j \in n + 1 .. c : DepthIn(p, j) > DepthIn(p, n) /\ Inside(p, n, j)

\* After a function that was passed over, the same items are open.
LEMMA ChainSkip ==
  ASSUME NEW p, WellNested(p), NEW n \in DOMAIN p, NEW c, ClosedBy(p, n, c),
         NEW st, Chain(p, st, n)
  PROVE  Chain(p, st, c + 1)
<1>1. n \in Nat \ {0} /\ c \in Nat /\ n < c /\ c + 1 \in Nat \ {0} /\ (c + 1) - 1 = c
  BY DEF WellNested, ClosedBy
<1>2. /\ st \in Seq(1 .. n - 1) /\ DepthIn(p, n) = Len(st)
      /\ \A k \in 1 .. Len(st) : Inside(p, st[k], n) /\ DepthIn(p, st[k]) = k - 1
      /\ \A m : Inside(p, m, n) => \E k \in 1 .. Len(st) : m = st[k]
  BY DEF Chain
<1>3. DepthIn(p, c + 1) = DepthIn(p, n) /\ \A j \in n + 1 .. c : DepthIn(p, j) > DepthIn(p, n)
  BY DEF ClosedBy
<1>4. \A j \in 1 .. c + 1 : DepthIn(p, j) \in Int
  BY DepthNext
<1>5. ASSUME NEW m, Inside(p, m, n) PROVE Inside(p, m, c + 1)
  <2>1. m \in 1 .. n - 1 /\ p[m].op \in OpenOps /\ \A j \in m + 1 .. n : DepthIn(p, j) > DepthIn(p, m)
    BY <1>5 DEF Inside
  <2>2. n \in m + 1 .. n /\ m \in 1 .. (c + 1) - 1 /\ m \in 1 .. c + 1 /\ n \in 1 .. c + 1
    BY <1>1, <2>1
  <2>3. DepthIn(p, n) > DepthIn(p, m)
    BY <2>1, <2>2
  <2>4. ASSUME NEW j \in m + 1 .. c + 1 PROVE DepthIn(p, j) > DepthIn(p, m)
    <3>1. j \in m + 1 .. n \/ j \in n + 1 .. c \/ j = c + 1
      BY <1>1, <2>1
    <3>2. j \in 1 .. c + 1
      BY <1>1, <2>1
    <3>3. CASE j \in n + 1 .. c
      <4>1. DepthIn(p, j) > DepthIn(p, n)
        BY <1>3, <3>3
      <4> QED
        BY <1>4, <2>2, <2>3, <3>2, <4>1
    <3> QED
      BY <1>3, <2>1, <2>3, <3>1, <3>3
  <2> QED
    BY <2>1, <2>2, <2>4 DEF Inside
<1>6. ASSUME NEW m, Inside(p, m, c + 1) PROVE Inside(p, m, n)
  <2>1. /\ m \in 1 .. (c + 1) - 1 /\ p[m].op \in OpenOps
        /\ \A j \in m + 1 .. c + 1 : DepthIn(p, j) > DepthIn(p, m)
    BY <1>6 DEF Inside
  <2>2. m \in 1 .. c /\ c + 1 \in m + 1 .. c + 1 /\ m \in 1 .. c + 1
    BY <1>1, <2>1
  <2>3. DepthIn(p, n) > DepthIn(p, m)
    BY <1>3, <2>1, <2>2
  <2>4. ~(m = n) /\ ~(m \in n + 1 .. c)
    <3>1. DepthIn(p, m) \in Int /\ DepthIn(p, n) \in Int
      BY <1>4, <1>1, <2>2
    <3> QED
      BY <1>3, <2>3, <3>1
  <2>5. m < n /\ n \in 1 .. c + 1
    BY <1>1, <2>2, <2>4
  <2> QED
    BY <1>1, <1>6, <2>5, InsideShorter
<1>7. st \in Seq(1 .. (c + 1) - 1)
  <2>1. 1 .. n - 1 \subseteq 1 .. (c + 1) - 1
    BY <1>1
  <2> QED
    BY <1>2, <2>1, SeqMonotonic
<1> QED
  BY <1>2, <1>3, <1>5, <1>6, <1>7 DEF Chain

\* No local of a nested function reaches the IR scopes.
LEMMA LoweredSkip ==
  ASSUME NEW p, WellNested(p), NEW n \in DOMAIN p, NEW st, NEW base, NEW op, NEW sc,
         Frames(p, st, base, n, op, sc, "lower"), Lowered(p, st, base, n, sc),
         p[n].op = "func", NEW c, ClosedBy(p, n, c)
  PROVE  /\ Frames(p, st, base, c + 1, op, sc, "lower")
         /\ Lowered(p, st, base, c + 1, sc)
<1>1. n \in Nat \ {0} /\ c \in Nat /\ n < c /\ \A m \in DOMAIN p : m \in Nat
  BY DEF WellNested, ClosedBy
<1>2. Fit(p, st, base, n, op, sc) /\ Chain(p, st, n)
  BY <1>1, FramesFit DEF Frames
<1>3. Frames(p, st, base, c + 1, op, sc, "lower")
  <2>1. Chain(p, st, c + 1)
    BY <1>2, ChainSkip
  <2> QED
    BY <2>1 DEF Frames
<1>4. \A k \in 1 .. Len(st) : st[k] \in Nat /\ st[k] < n
  BY <1>1, <1>2, SMTT(30) DEF Fit
<1>5. ASSUME NEW m \in DOMAIN p, m < c + 1, ~(m < n), p[m].op # "global", NEW i
      PROVE  ~InIrSlot(p, st, base, i, m)
  <2>1. \A k \in 1 .. Len(st) : m # st[k]
    BY <1>1, <1>4, <1>5
  <2>2. ASSUME p[m].op = "decl", NEW k \in 1 .. Len(st), AroundIs(p, m, HomeOps, st[k])
        PROVE  FALSE
    <3>1. m # n
      BY <2>2
    <3>2. m \in n + 1 .. c
      BY <1>1, <1>5, <3>1
    <3>3. Inside(p, n, m) /\ p[n].op \in HomeOps
      BY <3>2 DEF ClosedBy, HomeOps
    <3>4. n <= st[k]
      BY <2>2, <3>3 DEF AroundIs
    <3> QED
      BY <1>1, <1>4, <3>4
  <2> QED
    BY <1>5, <2>1, <2>2 DEF InIrSlot
<1>6. \A m \in DOMAIN p : m < n => m < c + 1
  BY <1>1
<1>7. \A m \in DOMAIN p : \A i :
        (m < c + 1 \/ p[m].op = "global") /\ InIrSlot(p, st, base, i, m)
          <=> (m < n \/ p[m].op = "global") /\ InIrSlot(p, st, base, i, m)
  BY <1>5, <1>6
<1>8. Lowered(p, st, base, c + 1, sc)
  BY <1>7 DEF Lowered
<1> QED
  BY <1>3, <1>8

\* What is in a nested function is not lowered.
LEMMA IrBoundSkip ==
  ASSUME NEW p, WellNested(p), NEW n \in DOMAIN p, NEW sem, NEW ir, IrBound(p, n, sem, ir),
         p[n].op = "func", DepthIn(p, n) # 0, NEW c, ClosedBy(p, n, c)
  PROVE  IrBound(p, c + 1, sem, ir)
<1>1. /\ n \in Nat \ {0} /\ c \in Nat /\ n < c /\ p[n] \in Item
      /\ DepthIn(p, n) \in Nat
  <2>1. n \in Nat \ {0} /\ c \in Nat /\ n < c /\ p[n] \in Item /\ n \in 1 .. Len(p) + 1
    BY DEF WellNested, ClosedBy
  <2>2. PICK st : Chain(p, st, n)
    BY <2>1 DEF WellNested
  <2>3. DepthIn(p, n) = Len(st) /\ st \in Seq(1 .. n - 1)
    BY <2>2 DEF Chain
  <2> QED
    BY <2>1, <2>3
<1>2. UsedName(p[n]) = NoName /\ ~RedeclaredAt(p, n)
  BY <1>1, ItemFields DEF RedeclaredAt
<1>3. ASSUME NEW j \in n + 1 .. c PROVE ~InTopFunction(p, j)
  <2> SUFFICES ASSUME NEW f, AroundIs(p, j, {"func"}, f), DepthIn(p, f) = 0 PROVE FALSE
    BY DEF InTopFunction
  <2>1. Inside(p, n, j) /\ p[n].op \in {"func"}
    BY DEF ClosedBy
  <2>2. n <= f /\ f \in 1 .. j - 1
    BY <2>1 DEF AroundIs, Inside
  <2>3. f = n \/ f \in n + 1 .. c
    BY <1>1, <2>2
  <2>4. f \in n + 1 .. c => DepthIn(p, f) > DepthIn(p, n)
    BY DEF ClosedBy
  <2> QED
    BY <1>1, <2>3, <2>4
<1>4. \A j \in 1 .. (c + 1) - 1 : j \in 1 .. n - 1 \/ j = n \/ j \in n + 1 .. c
  BY <1>1
<1>5. \A j \in n + 1 .. c : ~RedeclaredAt(p, j)
  BY <1>3 DEF RedeclaredAt
<1> QED
  BY <1>2, <1>3, <1>4, <1>5 DEF IrBound

-----------------------------------------------------------------------------
(* What lowering finds *)

\* A visible variable is in one of the IR scopes.
LEMMA VisibleIsInIrSlot ==
  ASSUME NEW p, WellNested(p), NEW n \in DOMAIN p, NEW st, NEW base, NEW op, NEW sc,
         Frames(p, st, base, n, op, sc, "lower"), IrFrames(p, st, base),
         NEW x, NEW m, Visible(p, n, x, m)
  PROVE  \E i \in 1 .. Len(sc) : InIrSlot(p, st, base, i, m)
<1>1. n \in Nat \ {0}
  BY DEF WellNested
<1>2. Fit(p, st, base, n, op, sc) /\ Chain(p, st, n)
  BY <1>1, FramesFit DEF Frames
<1>3. /\ Len(st) \in Nat /\ 1 \in 1 .. Len(sc)
      /\ \A k \in 1 .. Len(st) + 1 : base[k] \in 1 .. Len(sc)
  BY <1>2 DEF Fit
<1>4. \A q : Inside(p, q, n) => \E k \in 1 .. Len(st) : q = st[k]
  BY <1>2 DEF Chain
<1>5. \A k \in 1 .. Len(st) : base[k + 1] \in 1 .. Len(sc)
  BY <1>3
<1>6. m \in 1 .. n /\ m \in 1 .. n - 1
  BY <1>1 DEF Visible, InSight
<1>7. CASE p[m].op = "global"
  <2>1. InIrSlot(p, st, base, 1, m)
    BY <1>7 DEF InIrSlot
  <2> QED
    BY <1>3, <2>1
<1>8. CASE p[m].op = "decl" /\ \E q : ParentIs(p, m, q) /\ Inside(p, q, n)
  <2>1. PICK k \in 1 .. Len(st) : ParentIs(p, m, st[k])
    BY <1>4, <1>8
  <2>2. PICK h \in 1 .. k : /\ p[st[h]].op \in HomeOps /\ base[h + 1] = base[k + 1]
                            /\ AroundIs(p, m, HomeOps, st[h])
    BY <1>1, <1>6, <2>1, HomeIs
  <2>3. h \in 1 .. Len(st)
    BY <1>3, <2>1, <2>2
  <2>4. InIrSlot(p, st, base, base[h + 1], m)
    BY <1>8, <2>2, <2>3 DEF InIrSlot
  <2> QED
    BY <1>5, <2>3, <2>4
<1>9. CASE p[m].op \in {"func", "for"} /\ Inside(p, m, n)
  <2>1. PICK k \in 1 .. Len(st) : m = st[k]
    BY <1>4, <1>9
  <2>2. InIrSlot(p, st, base, base[k + 1], m)
    BY <1>9, <2>1 DEF InIrSlot, HomeOps
  <2> QED
    BY <1>5, <2>1, <2>2
<1> QED
  BY <1>7, <1>8, <1>9 DEF Visible, InSight

\* What is declared in an inner IR scope comes later.
LEMMA IrSlotOrder ==
  ASSUME NEW p, WellNested(p), NEW n \in DOMAIN p, NEW st, NEW base, NEW op, NEW sc,
         Frames(p, st, base, n, op, sc, "lower"),
         NEW u \in 1 .. n - 1, NEW m \in 1 .. n - 1, NEW h \in 1 .. Len(sc), NEW i \in 1 .. Len(sc),
         InIrSlot(p, st, base, h, u), InIrSlot(p, st, base, i, m), h < i
  PROVE  u < m
<1>1. n \in Nat \ {0} /\ p \in Seq(Item) /\ u \in DOMAIN p
  BY DEF WellNested
<1>2. Fit(p, st, base, n, op, sc) /\ Chain(p, st, n)
  BY <1>1, FramesFit DEF Frames
<1>3. /\ Len(st) \in Nat /\ \A k \in 1 .. Len(st) : st[k] \in 1 .. n - 1
  BY <1>2 DEF Fit
<1>4. i # 1
  <2>1. Len(sc) \in Nat
    BY <1>2 DEF Fit
  <2> QED
    BY <2>1
<1>5. PICK k \in 1 .. Len(st) : /\ p[st[k]].op \in HomeOps /\ i = base[k + 1]
                                /\ m = st[k] \/ AroundIs(p, m, HomeOps, st[k])
  BY <1>4 DEF InIrSlot
<1>6. st[k] <= m
  <2>1. m = st[k] \/ st[k] \in 1 .. m - 1
    BY <1>5 DEF AroundIs, Inside
  <2> QED
    BY <1>3, <2>1
<1>7. u < st[k]
  <2>1. CASE h = 1 /\ p[u].op = "global"
    <3>1. DepthIn(p, u) = 0
      BY <1>1, <2>1 DEF WellNested, BodyOps
    <3>2. ParentIs(p, u, Outer(st, 1)) /\ 1 \in 1 .. Len(st) + 1 /\ 1 <= Len(st)
      BY <1>3, <3>1 DEF ParentIs, Outer
    <3>3. 1 \in 1 .. Len(st) /\ u < st[1]
      BY <1>1, <1>2, <2>1, <3>2, LevelOrder DEF OpenOps
    <3>4. 1 <= k
      OBVIOUS
    <3>5. st[1] <= st[k]
      BY <1>1, <1>2, <3>3, <3>4, ChainOrder
    <3> QED
      BY <1>3, <3>3, <3>5
  <2>2. ASSUME NEW j \in 1 .. Len(st), p[st[j]].op \in HomeOps, h = base[j + 1]
        PROVE  j < k
    <3>1. \A a, b \in 1 .. Len(base) : a <= b => base[a] <= base[b]
      BY DEF Frames
    <3>2. j + 1 \in 1 .. Len(base) /\ k + 1 \in 1 .. Len(base) /\ Len(sc) \in Nat
      BY <1>2, <1>3 DEF Fit
    <3>3. k <= j => base[k + 1] <= base[j + 1]
      BY <1>3, <3>1, <3>2
    <3>4. ~(i <= h)
      BY <3>2
    <3> QED
      BY <1>3, <1>5, <2>2, <3>3, <3>4
  <2>3. ASSUME NEW j \in 1 .. Len(st), p[st[j]].op \in HomeOps, h = base[j + 1], u = st[j]
        PROVE  u < st[k]
    BY <1>1, <1>2, <2>2, <2>3, ChainIncreasing
  <2>4. ASSUME NEW j \in 1 .. Len(st), p[st[j]].op \in HomeOps, h = base[j + 1],
               p[u].op = "decl", AroundIs(p, u, HomeOps, st[j])
        PROVE  u < st[k]
    <3>1. st[j] < st[k]
      BY <1>1, <1>2, <2>2, <2>4, ChainIncreasing
    <3>2. ASSUME st[k] < u PROVE FALSE
      <4>1. Inside(p, st[k], n) /\ u \in 1 .. n
        BY <1>1, <1>2 DEF Chain
      <4>2. Inside(p, st[k], u)
        BY <1>1, <3>2, <4>1, InsideShorter
      <4>3. st[k] <= st[j]
        BY <1>5, <2>4, <4>2 DEF AroundIs
      <4> QED
        BY <1>3, <3>1, <4>3
    <3>3. u # st[k]
      BY <1>5, <2>4 DEF HomeOps
    <3> QED
      BY <1>3, <3>2, <3>3
  <2> QED
    BY <2>1, <2>3, <2>4 DEF InIrSlot
<1> QED
  BY <1>3, <1>6, <1>7

\* s is what irScopeLookup may find for the name x that item n uses.
IrFinds(p, n, x, s) ==
  \/ \E m : /\ Visible(p, n, x, m) /\ s = Variable(m)
            /\ \A v : Visible(p, n, x, v) => v <= m
  \/ \E m \in 1 .. n - 1 : LeftAt(p, m, n) /\ s = Variable(m)
  \/ \E m \in 1 .. n - 1 : BodyLocalAt(p, m, n) /\ s = Variable(m)
  \/ /\ \A v : ~Visible(p, n, x, v)
     /\ \E m \in n + 1 .. Len(p) : p[m].op = "global" /\ p[m].name = x /\ s = Variable(m)
  \/ (\A v : ~Visible(p, n, x, v)) /\ FunctionIs(p, x, s)

\* A variable of an IR scope that is not in sight is one that a block left.
LEMMA NotInSightIsLeft ==
  ASSUME NEW p, WellNested(p), NEW n \in DOMAIN p, NEW st, NEW base, NEW op, NEW sc,
         Frames(p, st, base, n, op, sc, "lower"), NEW i, NEW m \in 1 .. n - 1,
         InIrSlot(p, st, base, i, m), Declares(p, m, UsedName(p[n])),
         ~InSight(p, n, UsedName(p[n]), m)
  PROVE  LeftAt(p, m, n)
<1>1. n \in Nat \ {0} /\ p \in Seq(Item) /\ m \in DOMAIN p /\ m \in 1 .. Len(p) + 1 /\ m \in Nat \ {0}
  BY DEF WellNested
<1>2. Fit(p, st, base, n, op, sc) /\ Chain(p, st, n)
  BY <1>1, FramesFit DEF Frames
<1>3. \A k \in 1 .. Len(st) : Inside(p, st[k], n) /\ DepthIn(p, st[k]) = k - 1
  BY <1>2 DEF Chain
<1>4. p[m].op # "global"
  BY DEF InSight
<1>5. PICK k \in 1 .. Len(st) : /\ p[st[k]].op \in HomeOps
                                /\ \/ m = st[k]
                                   \/ p[m].op = "decl" /\ AroundIs(p, m, HomeOps, st[k])
  BY <1>4 DEF InIrSlot
<1>6. m # st[k]
  BY <1>3, <1>5 DEF InSight, HomeOps
<1>7. p[m].op = "decl" /\ AroundIs(p, m, HomeOps, st[k]) /\ Inside(p, st[k], m)
  BY <1>5, <1>6 DEF AroundIs
<1>8. PICK q : ParentIs(p, m, q)
  BY <1>1, ParentExists
<1>9. ~Inside(p, q, n)
  BY <1>7, <1>8 DEF InSight
<1>10. \A j \in 1 .. n : DepthIn(p, j) \in Int
  BY DepthNext
<1>11. st[k] \in 1 .. m - 1 /\ DepthIn(p, m) > DepthIn(p, st[k]) /\ DepthIn(p, st[k]) = k - 1
  <2>1. st[k] \in 1 .. m - 1 /\ \A j \in st[k] + 1 .. m : DepthIn(p, j) > DepthIn(p, st[k])
    BY <1>7 DEF Inside
  <2>2. m \in st[k] + 1 .. m
    BY <1>1, <2>1
  <2> QED
    BY <1>3, <2>1, <2>2
<1>12. Len(st) \in Nat /\ k \in Nat \ {0} /\ DepthIn(p, m) # 0
  <2>1. Len(st) \in Nat /\ DepthIn(p, m) \in Int
    BY <1>1, <1>2, <1>10 DEF Fit
  <2> QED
    BY <1>11, <2>1
<1>13. Inside(p, q, m) /\ DepthIn(p, q) = DepthIn(p, m) - 1
  BY <1>8, <1>12 DEF ParentIs
<1>14. q \in 1 .. m - 1 /\ p[q].op \in OpenOps
  BY <1>13 DEF Inside
<1>15. p[q].op = "block"
  <2> SUFFICES ASSUME p[q].op \in HomeOps PROVE FALSE
    BY <1>14 DEF OpenOps, HomeOps
  <2>1. q <= st[k]
    BY <1>7, <1>13 DEF AroundIs
  <2>2. q # st[k]
    BY <1>3, <1>9
  <2>3. q < st[k] /\ st[k] \in 1 .. m
    BY <1>1, <1>11, <1>14, <2>1, <2>2
  <2>4. Inside(p, q, st[k])
    BY <1>1, <1>13, <2>3, InsideShorter
  <2>5. DepthIn(p, st[k]) > DepthIn(p, q)
    <3>1. \A j \in q + 1 .. st[k] : DepthIn(p, j) > DepthIn(p, q)
      BY <2>4 DEF Inside
    <3>2. st[k] \in q + 1 .. st[k]
      BY <1>11, <1>14, <2>3
    <3> QED
      BY <3>1, <3>2
  <2>6. DepthIn(p, m) \in Int /\ DepthIn(p, st[k]) \in Int
    BY <1>1, <1>10, <1>11, <1>12
  <2> QED
    BY <1>11, <1>13, <2>5, <2>6
<1>16. p[m].name = UsedName(p[n])
  BY <1>7 DEF Declares
<1> QED
  BY <1>3, <1>7, <1>8, <1>9, <1>15, <1>16 DEF LeftAt

\* While lowering, irScopeLookup finds what is visible, what a block has left,
\* what the body of the for has if the use is its update, a later global, or no
\* variable.
LEMMA LookupFinds ==
  ASSUME NEW p, WellNested(p), NEW n \in DOMAIN p, NEW st, NEW base, NEW op, NEW sc,
         Frames(p, st, base, n, op, sc, "lower"), IrFrames(p, st, base),
         Lowered(p, st, base, n, sc), p[n].op # "global",
         NEW x \in Names, x = UsedName(p[n])
  PROVE  IrFinds(p, n, x, Lookup(sc, x))
<1>1. /\ n \in Nat \ {0} /\ DOMAIN p = 1 .. Len(p) /\ Len(p) \in Nat
  BY DEF WellNested
<1>2. Fit(p, st, base, n, op, sc)
  BY <1>1, FramesFit
<1>3. sc \in Seq(Scope) /\ Len(sc) \in Nat /\ 1 \in 1 .. Len(sc)
  BY <1>2 DEF Fit
<1>4. ASSUME NEW v, Visible(p, n, x, v)
      PROVE  \E i \in 1 .. Len(sc) : InIrSlot(p, st, base, i, v) /\ sc[i][x] = Variable(v)
  <2>1. PICK i \in 1 .. Len(sc) : InIrSlot(p, st, base, i, v)
    BY <1>4, VisibleIsInIrSlot
  <2>2. v \in DOMAIN p /\ v < n /\ Declares(p, v, x)
    BY <1>1, <1>4 DEF Visible, InSight
  <2>3. sc[i][x] = Variable(v)
    BY <2>1, <2>2 DEF Lowered
  <2> QED
    BY <2>1, <2>3
<1>5. CASE \A k \in 1 .. Len(sc) : sc[k][x] = Undeclared
  <2>1. \A v : ~Visible(p, n, x, v)
    BY <1>4, <1>5, Symbols
  <2>2. FunctionIs(p, x, sc[1][x]) \/ \E m \in DOMAIN p : sc[1][x] = Variable(m)
    BY <1>3 DEF Lowered
  <2>3. FunctionIs(p, x, Undeclared)
    BY <1>3, <1>5, <2>2, Symbols
  <2>4. Lookup(sc, x) = Undeclared
    BY <1>3, <1>5, LookupIs
  <2> QED
    BY <2>1, <2>3, <2>4 DEF IrFinds
<1>6. CASE ~(\A k \in 1 .. Len(sc) : sc[k][x] = Undeclared)
  <2>1. PICK i \in 1 .. Len(sc) : /\ Lookup(sc, x) = sc[i][x] /\ sc[i][x] # Undeclared
                                  /\ \A k \in 1 .. Len(sc) : sc[k][x] # Undeclared => k <= i
    BY <1>3, <1>6, LookupIs
  <2>2. \/ i = 1 /\ FunctionIs(p, x, sc[i][x])
        \/ \E m \in DOMAIN p : /\ (m < n \/ p[m].op = "global")
                               /\ Declares(p, m, x) /\ InIrSlot(p, st, base, i, m)
                               /\ sc[i][x] = Variable(m)
    BY <2>1 DEF Lowered
  <2>3. ASSUME i = 1, FunctionIs(p, x, sc[i][x]) PROVE IrFinds(p, n, x, Lookup(sc, x))
    <3>1. \A v : ~Visible(p, n, x, v)
      <4> SUFFICES ASSUME NEW v, Visible(p, n, x, v) PROVE FALSE
        OBVIOUS
      <4>1. PICK k \in 1 .. Len(sc) : sc[k][x] = Variable(v)
        BY <1>4
      <4>2. k <= i
        BY <2>1, <4>1, Symbols
      <4>3. k = i
        BY <1>3, <2>3, <4>2
      <4> QED
        BY <2>3, <4>1, <4>3, Symbols DEF FunctionIs
    <3> QED
      BY <2>1, <2>3, <3>1 DEF IrFinds
  <2>4. ASSUME NEW m \in DOMAIN p, m < n \/ p[m].op = "global",
               Declares(p, m, x), InIrSlot(p, st, base, i, m), sc[i][x] = Variable(m)
        PROVE  IrFinds(p, n, x, Lookup(sc, x))
    <3>1. m # n /\ (m \in 1 .. n - 1 \/ m \in n + 1 .. Len(p))
      BY <1>1, <2>4
    <3>2. ASSUME NEW v, Visible(p, n, x, v)
          PROVE  v = m \/ (v < m /\ m \in 1 .. n - 1)
      <4>1. PICK k \in 1 .. Len(sc) : InIrSlot(p, st, base, k, v) /\ sc[k][x] = Variable(v)
        BY <1>4, <3>2
      <4>2. k <= i /\ v \in 1 .. n - 1
        BY <2>1, <3>2, <4>1, Symbols DEF Visible, InSight
      <4>3. CASE k = i
        BY <2>4, <4>1, <4>3, Symbols
      <4>4. CASE k # i
        <5>1. k < i /\ i # 1
          BY <1>3, <4>2, <4>4
        <5>2. p[m].op # "global"
          <6> SUFFICES ASSUME p[m].op = "global" PROVE FALSE
            OBVIOUS
          <6>1. InIrSlot(p, st, base, 1, m) /\ sc[1][x] = Variable(m)
            BY <1>3, <2>4 DEF InIrSlot, Lowered
          <6>2. PICK j \in 1 .. Len(st) : m = st[j] \/ p[m].op = "decl"
            BY <2>4, <5>1 DEF InIrSlot
          <6>3. p[st[j]].op \in OpenOps
            BY <1>2, <6>2 DEF Fit
          <6> QED
            BY <6>2, <6>3 DEF OpenOps
        <5>3. m \in 1 .. n - 1
          BY <1>1, <2>4, <5>2
        <5>4. v < m
          BY <2>4, <4>1, <4>2, <5>1, <5>3, IrSlotOrder
        <5> QED
          BY <5>3, <5>4
      <4> QED
        BY <4>3, <4>4
    <3>3. CASE Visible(p, n, x, m)
      <4>1. \A v : Visible(p, n, x, v) => v <= m
        <5> SUFFICES ASSUME NEW v, Visible(p, n, x, v) PROVE v <= m
          OBVIOUS
        <5>1. v \in Nat /\ m \in Nat
          BY <1>1 DEF Visible, InSight
        <5> QED
          BY <3>2, <5>1
      <4> QED
        BY <2>1, <2>4, <3>3, <4>1 DEF IrFinds
    <3>4. CASE ~Visible(p, n, x, m) /\ m \in 1 .. n - 1
      <4>1. CASE ~InSight(p, n, x, m)
        <5>1. LeftAt(p, m, n)
          BY <2>4, <3>4, <4>1, NotInSightIsLeft
        <5> QED
          BY <2>1, <2>4, <3>4, <5>1 DEF IrFinds
      <4>2. CASE InBody(p, m, n)
        <5>1. BodyLocalAt(p, m, n)
          BY <2>4, <4>2 DEF BodyLocalAt, InBody, Declares
        <5> QED
          BY <2>1, <2>4, <3>4, <5>1 DEF IrFinds
      <4> QED
        BY <3>4, <4>1, <4>2 DEF Visible
    <3>5. CASE m \in n + 1 .. Len(p)
      <4>1. m \notin 1 .. n - 1 /\ ~(m < n)
        BY <1>1, <3>5
      <4>2. \A v : ~Visible(p, n, x, v)
        BY <3>2, <4>1 DEF Visible, InSight
      <4>3. p[m].op = "global" /\ p[m].name = x
        BY <2>4, <4>1 DEF Declares
      <4> QED
        BY <2>1, <2>4, <3>5, <4>2, <4>3 DEF IrFinds
    <3> QED
      BY <3>1, <3>3, <3>4, <3>5
  <2> QED
    BY <2>2, <2>3, <2>4
<1> QED
  BY <1>5, <1>6

\* After a declaration, a name that is another one finds what it found before.
LEMMA LookupDeclared ==
  ASSUME NEW s \in Seq(Scope), s # <<>>, NEW x \in Names, NEW symbol \in Symbol,
         symbol # Undeclared, LookupCurrent(s, x) = Undeclared
  PROVE  /\ Lookup(Declare(s, x, symbol), x) = symbol
         /\ \A y \in Names : y # x => Lookup(Declare(s, x, symbol), y) = Lookup(s, y)
<1>1. PICK d : d = Declare(s, x, symbol)
  OBVIOUS
<1>2. /\ d \in Seq(Scope) /\ Len(d) = Len(s)
      /\ \A i \in 1 .. Len(s) : \A y \in Names :
           /\ ~(i = Len(s) /\ y = x) => d[i][y] = s[i][y]
           /\ i = Len(s) /\ y = x /\ s[i][y] = Undeclared => d[i][y] = symbol
  BY <1>1, DeclareIn
<1>3. Len(s) \in 1 .. Len(s) /\ Len(s) \in Nat \ {0} /\ s[Len(s)][x] = Undeclared
  BY DEF LookupCurrent, Last
<1>4. Lookup(d, x) = symbol
  <2>1. d[Len(s)][x] = symbol
    BY <1>2, <1>3
  <2>2. PICK j \in 1 .. Len(d) : /\ Lookup(d, x) = d[j][x]
                                 /\ \A k \in 1 .. Len(d) : d[k][x] # Undeclared => k <= j
    BY <1>2, <1>3, <2>1, LookupIs
  <2>3. Len(s) <= j
    BY <1>2, <1>3, <2>1, <2>2
  <2>4. j = Len(s)
    BY <1>2, <1>3, <2>2, <2>3
  <2> QED
    BY <2>1, <2>2, <2>4
<1>5. ASSUME NEW y \in Names, y # x PROVE Lookup(d, y) = Lookup(s, y)
  <2>1. \A i \in 1 .. Len(s) : d[i][y] = s[i][y]
    BY <1>2, <1>5
  <2>2. \/ Lookup(s, y) = Undeclared /\ \A k \in 1 .. Len(s) : s[k][y] = Undeclared
        \/ \E j \in 1 .. Len(s) : /\ Lookup(s, y) = s[j][y] /\ s[j][y] # Undeclared
                                  /\ \A k \in 1 .. Len(s) : s[k][y] # Undeclared => k <= j
    BY LookupIs
  <2>3. \/ Lookup(d, y) = Undeclared /\ \A k \in 1 .. Len(s) : d[k][y] = Undeclared
        \/ \E j \in 1 .. Len(s) : /\ Lookup(d, y) = d[j][y] /\ d[j][y] # Undeclared
                                  /\ \A k \in 1 .. Len(s) : d[k][y] # Undeclared => k <= j
    BY <1>2, LookupIs
  <2>4. ASSUME NEW i \in 1 .. Len(s), NEW j \in 1 .. Len(s), i <= j, j <= i PROVE i = j
    BY <1>3, <2>4
  <2> QED
    BY <2>1, <2>2, <2>3, <2>4
<1> QED
  BY <1>1, <1>4, <1>5

\* In the scope of a header, the header's variable is found, and the others as
\* before.
LEMMA LookupPushed ==
  ASSUME NEW s \in Seq(Scope), NEW x \in Names, NEW n \in Nat \ {0}
  PROVE  /\ Lookup(Push(s, x, n), x) = Variable(n)
         /\ \A y \in Names : y # x => Lookup(Push(s, x, n), y) = Lookup(s, y)
<1>1. PICK d : d = Push(s, x, n)
  OBVIOUS
<1>2. /\ d \in Seq(Scope) /\ Len(s) \in Nat /\ Len(d) = Len(s) + 1
      /\ \A i \in 1 .. Len(s) : d[i] = s[i]
      /\ \A y \in Names : y = x => d[Len(s) + 1][y] = Variable(n)
      /\ \A y \in Names : y # x => d[Len(s) + 1][y] = Undeclared
  <2>1. EntersHeader(s, d, x, n)
    BY <1>1, HeaderEntered
  <2> QED
    BY <2>1 DEF EntersHeader
<1>3. Len(s) + 1 \in 1 .. Len(d) /\ \A i \in 1 .. Len(s) : i \in 1 .. Len(d)
  BY <1>2
<1>4. Variable(n) # Undeclared
  BY Symbols
<1>5. Lookup(d, x) = Variable(n)
  <2>1. d[Len(s) + 1][x] = Variable(n) /\ d[Len(s) + 1][x] # Undeclared
    BY <1>2, <1>4
  <2>2. PICK j \in 1 .. Len(d) : /\ Lookup(d, x) = d[j][x]
                                 /\ \A k \in 1 .. Len(d) : d[k][x] # Undeclared => k <= j
    BY <1>2, <1>3, <2>1, LookupIs
  <2>3. Len(s) + 1 <= j
    BY <1>3, <2>1, <2>2
  <2>4. j = Len(s) + 1
    BY <1>2, <2>2, <2>3
  <2> QED
    BY <2>1, <2>2, <2>4
<1>6. ASSUME NEW y \in Names, y # x PROVE Lookup(d, y) = Lookup(s, y)
  <2>1. \A i \in 1 .. Len(s) : d[i][y] = s[i][y]
    BY <1>2
  <2>2. \A i \in 1 .. Len(d) : d[i][y] # Undeclared => i \in 1 .. Len(s)
    <3> SUFFICES ASSUME NEW i \in 1 .. Len(d), d[i][y] # Undeclared PROVE i \in 1 .. Len(s)
      OBVIOUS
    <3>1. i # Len(s) + 1
      BY <1>2, <1>6
    <3> QED
      BY <1>2, <3>1
  <2>3. \/ Lookup(s, y) = Undeclared /\ \A k \in 1 .. Len(s) : s[k][y] = Undeclared
        \/ \E j \in 1 .. Len(s) : /\ Lookup(s, y) = s[j][y] /\ s[j][y] # Undeclared
                                  /\ \A k \in 1 .. Len(s) : s[k][y] # Undeclared => k <= j
    BY LookupIs
  <2>4. \/ Lookup(d, y) = Undeclared /\ \A k \in 1 .. Len(d) : d[k][y] = Undeclared
        \/ \E j \in 1 .. Len(d) : /\ Lookup(d, y) = d[j][y] /\ d[j][y] # Undeclared
                                  /\ \A k \in 1 .. Len(d) : d[k][y] # Undeclared => k <= j
    BY <1>2, LookupIs
  <2>5. ASSUME NEW i \in 1 .. Len(s), NEW j \in 1 .. Len(s), i <= j, j <= i PROVE i = j
    BY <1>2, <2>5
  <2> QED
    BY <1>3, <2>1, <2>2, <2>3, <2>4, <2>5
<1> QED
  BY <1>1, <1>5, <1>6

\* A variable that lowering finds is one that BindingsAgree allows, and it finds
\* one wherever validation did.
LEMMA UseAgrees ==
  ASSUME NEW p, WellNested(p), NEW sem, NEW es, Bound(p, Len(p) + 1, sem, es),
         NEW n \in DOMAIN p, p[n].op \notin CallOps,
         ~(p[n].op \in {"decl", "for"} /\ p[n].with = p[n].name),
         NEW x, x = UsedName(p[n]), x # NoName, NEW s, IrFinds(p, n, x, s)
  PROVE  /\ s.kind = "variable" => Agrees(p, n, sem, s)
         /\ s.kind # "variable" => n \notin DOMAIN sem
<1>1. n \in 1 .. (Len(p) + 1) - 1 /\ n \in Nat
  BY DEF WellNested
<1>2. KindOf(p[n]) = "variable"
  BY DEF KindOf
<1>3. PICK t : /\ Means(p, n, x, t)
               /\ t.kind = "variable" => n \in DOMAIN sem /\ sem[n] = t
               /\ t.kind # "variable" => n \notin DOMAIN sem
  BY <1>1, <1>2 DEF Bound, BoundAt
<1>4. \A f : FunctionIs(p, x, f) => f.kind # "variable"
  BY Symbols DEF FunctionIs
<1>5. CASE \E m : /\ Visible(p, n, x, m) /\ s = Variable(m)
                  /\ \A v : Visible(p, n, x, v) => v <= m
  <2>1. PICK m : /\ Visible(p, n, x, m) /\ s = Variable(m)
                 /\ \A v : Visible(p, n, x, v) => v <= m
    BY <1>5
  <2>2. PICK k : /\ Visible(p, n, x, k) /\ t = Variable(k)
                 /\ \A v : Visible(p, n, x, v) => v <= k
    BY <1>3, <2>1 DEF Means
  <2>3. m \in Nat /\ k \in Nat /\ m <= k /\ k <= m
    BY <1>1, <2>1, <2>2 DEF Visible, InSight
  <2>4. s = t
    BY <2>1, <2>2, <2>3
  <2> QED
    BY <1>3, <2>2, <2>4, Symbols DEF Agrees
<1>6. CASE \E m \in 1 .. n - 1 : LeftAt(p, m, n) /\ s = Variable(m)
  BY <1>6, Symbols DEF Agrees
<1>10. CASE \E m \in 1 .. n - 1 : BodyLocalAt(p, m, n) /\ s = Variable(m)
  BY <1>10, Symbols DEF Agrees
<1>7. ASSUME \A v : ~Visible(p, n, x, v) PROVE n \notin DOMAIN sem
  BY <1>3, <1>4, <1>7 DEF Means
<1>8. CASE /\ \A v : ~Visible(p, n, x, v)
           /\ \E m \in n + 1 .. Len(p) : p[m].op = "global" /\ p[m].name = x /\ s = Variable(m)
  <2>1. n \notin DOMAIN sem
    BY <1>7, <1>8
  <2> QED
    BY <1>8, <2>1 DEF Agrees
<1>9. CASE (\A v : ~Visible(p, n, x, v)) /\ FunctionIs(p, x, s)
  BY <1>4, <1>7, <1>9
<1> QED
  BY <1>5, <1>6, <1>8, <1>9, <1>10 DEF IrFinds

\* There is one first function of a name.
LEMMA FunctionUnique ==
  ASSUME NEW p, WellNested(p), NEW x, NEW s, NEW t, FunctionIs(p, x, s), FunctionIs(p, x, t)
  PROVE  s = t
<1>1. \A f : IsFunction(p, f, x) => f \in Nat
  BY DEF IsFunction, WellNested
<1>2. CASE \A f : ~IsFunction(p, f, x)
  BY <1>2 DEF FunctionIs
<1>3. CASE \E f : IsFunction(p, f, x)
  <2>1. PICK f : IsFunction(p, f, x) /\ s = Function(f) /\ \A g : IsFunction(p, g, x) => f <= g
    BY <1>3 DEF FunctionIs
  <2>2. PICK h : IsFunction(p, h, x) /\ t = Function(h) /\ \A g : IsFunction(p, g, x) => h <= g
    BY <1>3 DEF FunctionIs
  <2>3. f \in Nat /\ h \in Nat /\ f <= h /\ h <= f
    BY <1>1, <2>1, <2>2
  <2> QED
    BY <2>1, <2>2, <2>3
<1> QED
  BY <1>2, <1>3

\* A call finds, in the global scope, the function that validation found.
LEMMA CallAgrees ==
  ASSUME NEW p, WellNested(p), NoRepeats(p), NEW sem, Bound(p, Len(p) + 1, sem, {}),
         NEW n \in DOMAIN p, p[n].op \in CallOps, NEW st, NEW base, NEW op, NEW sc,
         Frames(p, st, base, n, op, sc, "lower"), Lowered(p, st, base, n, sc)
  PROVE  /\ n \in DOMAIN sem /\ sc[1][p[n].name] = sem[n]
         /\ sc[1][p[n].name] # Undeclared
<1>1. /\ n \in 1 .. (Len(p) + 1) - 1 /\ n \in Nat \ {0} /\ p \in Seq(Item) /\ p[n] \in Item
      /\ DOMAIN p \subseteq Nat
  BY DEF WellNested
<1>2. PICK x : x = p[n].name
  OBVIOUS
<1>3. /\ x \in Names /\ UsedName(p[n]) = x /\ x # NoName /\ KindOf(p[n]) = "function"
      /\ p[n].op \notin WriteOps
  <2>1. p[n].op \in UseOps /\ p[n].op \notin WriteOps
    BY DEF UseOps, WriteOps, CallOps
  <2> QED
    BY <1>1, <1>2, <2>1, ItemFields, NoNameAssumption DEF KindOf
<1>4. PICK t : /\ Means(p, n, x, t)
               /\ t.kind = "function" => n \in DOMAIN sem /\ sem[n] = t
               /\ t.kind # "function" => (<<"undeclared", n>> \in {} <=> p[n].op \notin WriteOps)
  BY <1>1, <1>3 DEF Bound, BoundAt
<1>5. t.kind = "function" /\ n \in DOMAIN sem /\ sem[n] = t
  <2>1. <<"undeclared", n>> \notin {}
    OBVIOUS
  <2>2. t.kind = "function"
    BY <1>3, <1>4, <2>1
  <2> QED
    BY <1>4, <2>2
<1>6. FunctionIs(p, x, t)
  BY <1>4, <1>5, Symbols DEF Means
<1>7. PICK f : IsFunction(p, f, x) /\ t = Function(f)
  BY <1>5, <1>6, Symbols DEF FunctionIs
<1>8. Fit(p, st, base, n, op, sc) /\ base[1] = 1
  BY <1>1, FramesFit DEF Frames
<1>9. /\ Len(st) \in Nat /\ 1 \in 1 .. Len(sc)
      /\ \A k \in 1 .. Len(st) + 1 : base[k] \in 1 .. Len(sc)
  <2>1. Fit(p, st, base, n, op, sc)
    BY <1>8
  <2>2. Len(st) \in Nat /\ Len(sc) \in Nat \ {0} /\ \A k \in 1 .. Len(st) + 1 : base[k] \in 1 .. Len(sc)
    BY <2>1, Zenon DEF Fit
  <2>3. ASSUME NEW L \in Nat \ {0} PROVE 1 \in 1 .. L
    OBVIOUS
  <2> QED
    BY <2>2, <2>3
<1>10. ASSUME NEW m \in DOMAIN p, Declares(p, m, x), InIrSlot(p, st, base, 1, m) PROVE FALSE
  <2>1. ASSUME NEW k \in 1 .. Len(st), p[st[k]].op \in HomeOps PROVE 1 # base[k + 1]
    <3>1. 1 \in 1 .. Len(st) + 1 /\ 1 <= k /\ k + 1 \in 1 .. Len(st) + 1
      BY <1>9
    <3>2. base[1] < base[k + 1]
      BY <1>1, <2>1, <3>1, IrBaseStrict
    <3> QED
      BY <1>8, <1>9, <3>1, <3>2
  <2>2. p[m].op = "global"
    BY <1>10, <2>1 DEF InIrSlot
  <2>3. DepthIn(p, m) = 0 /\ p[m].name = x
    BY <1>10, <2>2 DEF WellNested, BodyOps, Declares
  <2>4. InBlock(p, m, x, 0) /\ InBlock(p, f, x, 0) /\ f \in DOMAIN p
    BY <1>7, <2>2, <2>3 DEF InBlock, ParentIs, IsFunction, DeclOps
  <2>5. m = f
    BY <1>1, <2>4, OneDeclaration
  <2> QED
    BY <1>7, <2>2, <2>5 DEF IsFunction
<1>11. FunctionIs(p, x, sc[1][x])
  BY <1>3, <1>9, <1>10 DEF Lowered
<1>12. sc[1][x] = t
  BY <1>6, <1>11, FunctionUnique
<1> QED
  BY <1>2, <1>5, <1>7, <1>12, Symbols

\* irScopeDeclare refuses exactly the names that the IR scope has already.
LEMMA RefusedIsRedeclared ==
  ASSUME NEW p, WellNested(p), NEW n \in DOMAIN p, p[n].op = "decl",
         NEW st, NEW base, NEW op, NEW sc,
         Frames(p, st, base, n, op, sc, "lower"), IrFrames(p, st, base), Lowered(p, st, base, n, sc)
  PROVE  LookupCurrent(sc, p[n].name) # Undeclared <=> RedeclaredAt(p, n)
<1>1. /\ n \in Nat \ {0} /\ p \in Seq(Item) /\ p[n] \in Item /\ DepthIn(p, n) # 0
      /\ DOMAIN p = 1 .. Len(p) /\ Len(p) \in Nat /\ n \in 1 .. Len(p)
  BY DEF WellNested, TopOps
<1>2. PICK y : y = p[n].name
  OBVIOUS
<1>3. y \in Names
  BY <1>1, <1>2, ItemFields
<1>4. Fit(p, st, base, n, op, sc) /\ base[1] = 1
  BY <1>1, FramesFit DEF Frames
<1>5. /\ Len(st) \in Nat /\ Len(sc) \in Nat \ {0} /\ Len(sc) \in 1 .. Len(sc)
      /\ \A k \in 1 .. Len(st) : st[k] \in 1 .. n - 1
  BY <1>4 DEF Fit
<1>6. InTopFunction(p, n)
  BY <1>1, InTop
<1>7. PICK h \in 1 .. Len(st) : /\ p[st[h]].op \in HomeOps /\ base[h + 1] = Len(sc)
                                /\ AroundIs(p, n, HomeOps, st[h])
  BY <1>1, InTop
<1>8. Len(sc) # 1
  <2>1. 1 \in 1 .. Len(st) + 1 /\ 1 <= h
    BY <1>5
  <2>2. base[1] < base[h + 1]
    BY <1>1, <1>7, <2>1, IrBaseStrict
  <2>3. base[1] = 1 /\ base[h + 1] = Len(sc)
    BY <1>4, <1>7
  <2>4. PICK w : w = Len(sc)
    OBVIOUS
  <2>5. 1 < w
    BY <2>2, <2>3, <2>4
  <2>6. w # 1
    BY <2>5
  <2> QED
    BY <2>4, <2>6
<1>9. LookupCurrent(sc, y) = sc[Len(sc)][y]
  BY DEF LookupCurrent, Last
<1>10. ASSUME sc[Len(sc)][y] # Undeclared PROVE RedeclaredAt(p, n)
  <2>1. PICK m \in DOMAIN p : /\ m < n \/ p[m].op = "global"
                              /\ Declares(p, m, y) /\ InIrSlot(p, st, base, Len(sc), m)
    BY <1>3, <1>5, <1>8, <1>10 DEF Lowered
  <2>2. PICK k \in 1 .. Len(st) : /\ p[st[k]].op \in HomeOps /\ Len(sc) = base[k + 1]
                                  /\ \/ m = st[k]
                                     \/ p[m].op = "decl" /\ AroundIs(p, m, HomeOps, st[k])
    BY <1>8, <2>1 DEF InIrSlot
  <2>3. k = h
    BY <1>1, <1>7, <2>2, IrSlotUnique
  <2>4. CASE m = st[h]
    BY <1>2, <1>6, <1>7, <2>1, <2>4 DEF RedeclaredAt
  <2>5. CASE p[m].op = "decl" /\ AroundIs(p, m, HomeOps, st[h])
    <3>1. m < n /\ p[m].name = y
      BY <2>1, <2>5 DEF Declares
    <3>2. st[h] \in 1 .. m - 1
      BY <2>5 DEF AroundIs, Inside
    <3>3. m \in st[h] + 1 .. n - 1
      BY <1>1, <3>1, <3>2
    <3> QED
      BY <1>2, <1>6, <1>7, <2>5, <3>1, <3>3 DEF RedeclaredAt
  <2> QED
    BY <2>2, <2>3, <2>4, <2>5
<1>11. ASSUME RedeclaredAt(p, n) PROVE sc[Len(sc)][y] # Undeclared
  <2>1. PICK g : /\ AroundIs(p, n, HomeOps, g)
                 /\ \/ Declares(p, g, y)
                    \/ \E m \in g + 1 .. n - 1 :
                         p[m].op = "decl" /\ p[m].name = y /\ AroundIs(p, m, HomeOps, g)
    BY <1>2, <1>11 DEF RedeclaredAt
  <2>2. g = st[h]
    BY <1>1, <1>7, <2>1, AroundUnique
  <2>3. \E m \in DOMAIN p : m < n /\ Declares(p, m, y) /\ InIrSlot(p, st, base, Len(sc), m)
    <3>1. CASE Declares(p, g, y)
      <4>1. g \in DOMAIN p /\ g < n
        BY <1>1, <1>5, <2>2
      <4>2. InIrSlot(p, st, base, Len(sc), g)
        BY <1>7, <2>2 DEF InIrSlot
      <4> QED
        BY <3>1, <4>1, <4>2
    <3>2. ASSUME NEW m \in g + 1 .. n - 1,
                 p[m].op = "decl", p[m].name = y, AroundIs(p, m, HomeOps, g)
          PROVE  \E v \in DOMAIN p : v < n /\ Declares(p, v, y) /\ InIrSlot(p, st, base, Len(sc), v)
      <4>1. m \in DOMAIN p /\ m < n
        <5>1. g \in 1 .. n - 1
          BY <1>5, <2>2
        <5> QED
          BY <1>1, <5>1
      <4>2. InIrSlot(p, st, base, Len(sc), m) /\ Declares(p, m, y)
        BY <1>7, <2>2, <3>2 DEF InIrSlot, Declares
      <4> QED
        BY <4>1, <4>2
    <3> QED
      BY <2>1, <3>1, <3>2
  <2> QED
    BY <1>3, <1>5, <2>3, Symbols DEF Lowered
<1> QED
  BY <1>2, <1>9, <1>10, <1>11

-----------------------------------------------------------------------------
(* The steps of lowering *)

\* Lowering visits item n, other than a nested function: op and sc are what is
\* open and the scopes before, op2 and sc2 after, and sc1 the scopes after the
\* declaration.
LowerVisit(p, n, op, sc, sc1, op2, sc2) ==
  /\ \/ p[n].op # "decl" /\ sc1 = sc
     \/ p[n].op = "decl" /\ p[n].name \in Names
        /\ LookupCurrent(sc, p[n].name) = Undeclared /\ sc1 = Declare(sc, p[n].name, Variable(n))
  /\ p[n].op \in OpenOps => op2 = Append(op, p[n].op)
  /\ p[n].op = "func" => op = <<>> /\ sc2 = Push(sc1, p[n].with, n)
  /\ p[n].op = "for" => sc2 = Push(sc1, p[n].name, n)
  /\ p[n].op = "block" => sc2 = sc1
  /\ p[n].op = "end" => /\ op2 = Front(op)
                        /\ sc2 = SubSeq(sc1, 1, Len(sc1) - Width("lower", Last(op)))
  /\ p[n].op \notin OpenOps \cup {"end"} => op2 = op /\ sc2 = sc1

\* The walk stays in step with the text of the program.
LEMMA LoweredNext ==
  ASSUME NEW p, WellNested(p), NEW n \in DOMAIN p,
         NEW st, NEW base, NEW op, NEW sc, NEW sc1, NEW sc2, NEW op2,
         Frames(p, st, base, n, op, sc, "lower"), IrFrames(p, st, base),
         Lowered(p, st, base, n, sc), LowerVisit(p, n, op, sc, sc1, op2, sc2)
  PROVE  \E t, b : /\ Frames(p, t, b, n + 1, op2, sc2, "lower")
                   /\ IrFrames(p, t, b) /\ Lowered(p, t, b, n + 1, sc2)
<1>1. p \in Seq(Item) /\ n \in Nat \ {0} /\ "lower" \in Walks
  BY DEF WellNested, Walks
<1>2. /\ sc \in Seq(Scope) /\ Len(sc) \in Nat \ {0} /\ sc # <<>> /\ Chain(p, st, n)
      /\ (st = <<>> <=> op = <<>>)
  <2>1. Fit(p, st, base, n, op, sc)
    BY <1>1, FramesFit
  <2>2. Chain(p, st, n)
    BY DEF Frames
  <2> QED
    BY <2>1, <2>2 DEF Fit
<1>3. \/ p[n].op # "decl" /\ sc1 = sc
      \/ p[n].op = "decl" /\ p[n].name \in Names
         /\ LookupCurrent(sc, p[n].name) = Undeclared /\ sc1 = Declare(sc, p[n].name, Variable(n))
  BY DEF LowerVisit
<1>4. Lowered(p, st, base, n + 1, sc1)
  BY <1>3, LoweredPast
<1>5. sc1 \in Seq(Scope) /\ Len(sc1) = Len(sc)
  <2>1. CASE sc1 = sc
    BY <1>2, <2>1
  <2>2. CASE p[n].name \in Names /\ sc1 = Declare(sc, p[n].name, Variable(n))
    <3>1. Variable(n) \in Symbol
      BY <1>1, Symbols
    <3> QED
      BY <1>2, <2>2, <3>1, DeclareIn
  <2> QED
    BY <1>3, <2>1, <2>2
<1>6. CASE p[n].op \in OpenOps
  <2>1. sc1 = sc /\ Lowered(p, st, base, n + 1, sc)
    BY <1>3, <1>4, <1>6 DEF OpenOps
  <2>2. \/ p[n].op = "block" /\ sc2 = sc
        \/ p[n].op = "func" /\ EntersHeader(sc, sc2, p[n].with, n)
        \/ p[n].op = "for" /\ EntersHeader(sc, sc2, p[n].name, n)
    <3>1. p[n].op = "block" => sc2 = sc
      BY <2>1 DEF LowerVisit
    <3>2. p[n].op = "func" => EntersHeader(sc, sc2, p[n].with, n)
      BY <1>1, <1>2, <2>1, HeaderEntered DEF LowerVisit
    <3>3. p[n].op = "for" => EntersHeader(sc, sc2, p[n].name, n)
      BY <1>1, <1>2, <2>1, HeaderEntered DEF LowerVisit
    <3> QED
      BY <1>6, <3>1, <3>2, <3>3 DEF OpenOps
  <2>3. sc2 \in Seq(Scope) /\ Len(sc2) = Len(sc) + Width("lower", p[n].op)
    <3>1. CASE p[n].op = "block"
      <4>1. sc2 = sc /\ Width("lower", p[n].op) = 0
        BY <2>2, <3>1, Widths
      <4> QED
        BY <1>2, <4>1
    <3>2. CASE p[n].op = "func"
      <4>1. EntersHeader(sc, sc2, p[n].with, n) /\ Width("lower", p[n].op) = 1
        BY <2>2, <3>2, Widths
      <4> QED
        BY <4>1 DEF EntersHeader
    <3>3. CASE p[n].op = "for"
      <4>1. EntersHeader(sc, sc2, p[n].name, n) /\ Width("lower", p[n].op) = 1
        BY <2>2, <3>3, Widths
      <4> QED
        BY <4>1 DEF EntersHeader
    <3> QED
      BY <1>6, <3>1, <3>2, <3>3 DEF OpenOps
  <2>4. Frames(p, Append(st, n), Append(base, Len(sc2)), n + 1, Append(op, p[n].op), sc2, "lower")
    BY <1>1, <1>6, <2>3, FramesOpen
  <2>5. Lowered(p, Append(st, n), Append(base, Len(sc2)), n + 1, sc2)
    BY <1>6, <2>1, <2>2, LoweredOpen
  <2>6. p[n].op = "func" <=> st = <<>>
    <3>1. p[n].op = "func" => st = <<>>
      BY <1>2 DEF LowerVisit
    <3>2. ASSUME st = <<>> PROVE p[n].op = "func"
      <4>1. DepthIn(p, n) = 0
        BY <1>2, <3>2 DEF Chain
      <4>2. p[n].op \in TopOps
        BY <4>1 DEF WellNested
      <4> QED
        BY <1>6, <4>2 DEF TopOps, OpenOps
    <3> QED
      BY <3>1, <3>2
  <2>7. p[n].op = "block" => Len(sc2) = Len(sc)
    BY <2>2
  <2>8. IrFrames(p, Append(st, n), Append(base, Len(sc2)))
    BY <1>1, <1>6, <2>6, <2>7, IrFramesOpen
  <2>9. op2 = Append(op, p[n].op)
    BY <1>6 DEF LowerVisit
  <2> QED
    BY <2>4, <2>5, <2>8, <2>9
<1>7. CASE p[n].op = "end"
  <2>1. /\ op2 = Front(op) /\ sc1 = sc
        /\ sc2 = SubSeq(sc, 1, Len(sc) - Width("lower", Last(op)))
    BY <1>3, <1>7 DEF LowerVisit
  <2>2. st # <<>>
    <3>1. DepthIn(p, n) # 0
      <4>1. "end" \notin TopOps
        BY DEF TopOps
      <4> QED
        BY <1>7, <4>1 DEF WellNested
    <3> QED
      BY <1>2, <3>1 DEF Chain
  <2>3. /\ Frames(p, Front(st), Front(base), n + 1, Front(op), sc2, "lower")
        /\ Leaves(st, base, sc, sc2)
    BY <1>1, <1>7, <2>1, <2>2, FramesClose
  <2>4. Lowered(p, st, base, n + 1, sc)
    BY <1>4, <2>1
  <2>5. Lowered(p, Front(st), Front(base), n + 1, sc2)
    BY <1>1, <2>2, <2>3, <2>4, LoweredClose
  <2>6. IrFrames(p, Front(st), Front(base))
    BY <1>1, <2>2, IrFramesClose
  <2> QED
    BY <2>1, <2>3, <2>5, <2>6
<1>8. CASE p[n].op \notin OpenOps \cup {"end"}
  <2>1. op2 = op /\ sc2 = sc1
    BY <1>8 DEF LowerVisit
  <2>2. Frames(p, st, base, n + 1, op, sc1, "lower")
    BY <1>1, <1>5, <1>8, FramesStay
  <2> QED
    BY <1>4, <2>1, <2>2
<1> QED
  BY <1>6, <1>7, <1>8

\* Lowering has come to item n, with st and base around it.
Lowering(n, st, base) ==
  /\ phase = "lower" /\ errors = {} /\ n = Here /\ n \in DOMAIN program
  /\ WellNested(program) /\ Complete(program) /\ NoRepeats(program)
  /\ Frames(program, st, base, n, opened, scopes, "lower")
  /\ IrFrames(program, st, base) /\ Lowered(program, st, base, n, scopes)
  /\ IrBound(program, n, sem_binding, ir_binding)
  /\ Bound(program, Len(program) + 1, sem_binding, {})

\* Where lowering is, in a state of the invariant.
LEMMA LoweringAt ==
  ASSUME Inv, Lower
  PROVE  \E n, st, base : Lowering(n, st, base)
<1>1. phase = "lower" /\ Here <= Len(program)
  BY DEF Lower
<1>2. errors = {} /\ WellNested(program) /\ Complete(program) /\ cursor \in 0 .. Len(program)
  BY <1>1 DEF Inv, Typed
<1>3. program \in Seq(Item) /\ Here \in DOMAIN program /\ DOMAIN program \subseteq Nat
  <2>1. program \in Seq(Item) /\ DOMAIN program = 1 .. Len(program) /\ Len(program) \in Nat
    BY <1>2 DEF WellNested
  <2>2. Here \in 1 .. Len(program)
    BY <1>1, <1>2, <2>1 DEF Here
  <2> QED
    BY <2>1, <2>2
<1>4. NoRepeats(program)
  BY <1>2, <1>3 DEF Inv, Duplicates, NoRepeats
<1>5. Bound(program, Len(program) + 1, sem_binding, {})
  BY <1>1, <1>2, <1>4 DEF Inv, ValidatedInv
<1>6. PICK st, base : /\ Frames(program, st, base, Here, opened, scopes, "lower")
                      /\ IrFrames(program, st, base)
                      /\ Lowered(program, st, base, Here, scopes)
  BY <1>1 DEF Inv, LowerInv
<1>7. IrBound(program, Here, sem_binding, ir_binding)
  BY <1>1 DEF Inv, LowerInv
<1> QED
  BY <1>1, <1>2, <1>3, <1>4, <1>5, <1>6, <1>7 DEF Lowering

\* The bindings ir2 are those of ir and perhaps one of item n.
Extends(ir2, ir, n) ==
  /\ DOMAIN ir2 \subseteq DOMAIN ir \cup {n}
  /\ \A j \in DOMAIN ir : j # n => j \in DOMAIN ir2 /\ ir2[j] = ir[j]

\* A step of lowering that goes on to the next item.
LEMMA LowerWalk ==
  ASSUME Inv, NEW n, NEW st, NEW base, Lowering(n, st, base),
         phase' = "lower", cursor' = n, program' = program, errors' = errors,
         sem_binding' = sem_binding, NEW sc1,
         LowerVisit(program, n, opened, scopes, sc1, opened', scopes'),
         Extends(ir_binding', ir_binding, n),
         UsedName(program[n]) # NoName =>
           n \in DOMAIN ir_binding' /\ Agrees(program, n, sem_binding, ir_binding'[n])
  PROVE  Inv'
<1>1. /\ phase = "lower" /\ errors = {} /\ n = cursor + 1 /\ n \in DOMAIN program
      /\ WellNested(program) /\ Complete(program)
  BY DEF Lowering, Here
<1>2. n \in Nat \ {0} /\ n \in 1 .. Len(program) /\ Len(program) \in Nat /\ program \in Seq(Item)
  BY <1>1 DEF WellNested
<1>3. \E t, b : /\ Frames(program, t, b, n + 1, opened', scopes', "lower")
                /\ IrFrames(program, t, b) /\ Lowered(program, t, b, n + 1, scopes')
  BY LoweredNext DEF Lowering
<1>4. opened' \in Seq(OpenOps) /\ scopes' \in Seq(Scope) /\ scopes' # <<>>
  <2>1. PICK t, b : Frames(program, t, b, n + 1, opened', scopes', "lower")
    BY <1>3
  <2>2. n + 1 \in Nat \ {0}
    BY <1>2
  <2>3. Fit(program, t, b, n + 1, opened', scopes')
    BY <2>1, <2>2, FramesFit
  <2> QED
    BY <2>3 DEF Fit
<1>5. ~RedeclaredAt(program, n)
  <2>1. CASE program[n].op = "decl"
    <3>1. LookupCurrent(scopes, program[n].name) = Undeclared
      BY <2>1 DEF LowerVisit
    <3> QED
      BY <2>1, <3>1, RefusedIsRedeclared DEF Lowering
  <2>2. CASE program[n].op # "decl"
    BY <2>2 DEF RedeclaredAt
  <2> QED
    BY <2>1, <2>2
<1>6. PICK ir2 : ir2 = ir_binding'
  OBVIOUS
<1>7. IrBound(program, n + 1, sem_binding, ir2)
  <2>1. IrBound(program, n, sem_binding, ir_binding)
    BY DEF Lowering
  <2>2. ASSUME NEW j \in 1 .. (n + 1) - 1
        PROVE  /\ ~RedeclaredAt(program, j)
               /\ UsedName(program[j]) # NoName /\ InTopFunction(program, j) =>
                    j \in DOMAIN ir2 /\ Agrees(program, j, sem_binding, ir2[j])
    <3>1. CASE j = n
      BY <1>5, <1>6, <3>1
    <3>2. CASE j # n
      <4>1. j \in 1 .. n - 1
        BY <1>2, <3>2
      <4>2. /\ ~RedeclaredAt(program, j)
            /\ UsedName(program[j]) # NoName /\ InTopFunction(program, j) =>
                 j \in DOMAIN ir_binding /\ Agrees(program, j, sem_binding, ir_binding[j])
        BY <2>1, <4>1 DEF IrBound
      <4>3. j \in DOMAIN ir_binding => j \in DOMAIN ir2 /\ ir2[j] = ir_binding[j]
        BY <1>6, <3>2 DEF Extends
      <4> QED
        BY <4>2, <4>3
    <3> QED
      BY <3>1, <3>2
  <2> QED
    BY <2>2 DEF IrBound
<1>8. Here' = n + 1
  BY DEF Here
<1>9. LowerInv'
  BY <1>3, <1>6, <1>7, <1>8 DEF LowerInv
<1>10. Typed'
  <2>1. DOMAIN ir_binding' \subseteq 1 .. Len(program)
    <3>1. DOMAIN ir_binding \subseteq 1 .. Len(program)
      BY DEF Inv, Typed
    <3> QED
      BY <1>2, <3>1 DEF Extends
  <2>2. cursor' \in 0 .. Len(program)
    BY <1>2
  <2> QED
    BY <1>1, <1>4, <2>1, <2>2 DEF Inv, Typed, Phases
<1>11. Duplicates'
  BY DEF Inv, Duplicates
<1>12. ValidatedInv'
  BY <1>1 DEF Inv, ValidatedInv
<1> QED
  BY <1>9, <1>10, <1>11, <1>12 DEF Inv, CollectInv, ValidateInv, BuiltInv

\* A step at which lowering gives up.
LEMMA LowerStops ==
  ASSUME Inv, NEW n, NEW st, NEW base, Lowering(n, st, base),
         LowerFailed, program' = program, errors' = errors,
         sem_binding' = sem_binding, ir_binding' = ir_binding,
         \/ RedeclaredAt(program, n)
         \/ /\ UsedName(program[n]) # NoName /\ InTopFunction(program, n)
            /\ n \notin DOMAIN sem_binding
  PROVE  Inv'
<1>1. phase' = "failed" /\ cursor' = cursor /\ opened' = opened /\ scopes' = scopes
  BY DEF LowerFailed
<1>2. phase = "lower" /\ n \in DOMAIN program
  BY DEF Lowering
<1>3. Typed'
  BY <1>1, <1>2 DEF Inv, Typed, Phases
<1>4. Duplicates'
  BY DEF Inv, Duplicates
<1>5. ValidatedInv'
  BY <1>1, <1>2 DEF Inv, ValidatedInv
<1>6. BuiltInv'
  BY <1>1, <1>2 DEF BuiltInv
<1> QED
  BY <1>1, <1>3, <1>4, <1>5, <1>6 DEF Inv, CollectInv, ValidateInv, LowerInv

\* What irBuilderLowerIdentifier finds for a read, a write or an initializer.
LEMMA UseFound ==
  ASSUME NEW n, NEW st, NEW base, Lowering(n, st, base), UsedName(program[n]) # NoName,
         NEW sc1,
         \/ program[n].op \in ReadOps \cup WriteOps /\ sc1 = scopes
         \/ program[n].op = "for" /\ sc1 = Push(scopes, program[n].name, n)
         \/ /\ program[n].op = "decl" /\ LookupCurrent(scopes, program[n].name) = Undeclared
            /\ sc1 = Declare(scopes, program[n].name, Variable(n)),
         NEW s, s = Lookup(sc1, UsedName(program[n]))
  PROVE  /\ InTopFunction(program, n)
         /\ s.kind = "variable" => Agrees(program, n, sem_binding, s)
         /\ s.kind # "variable" => n \notin DOMAIN sem_binding
<1>1. /\ n \in DOMAIN program /\ WellNested(program)
      /\ Frames(program, st, base, n, opened, scopes, "lower")
      /\ IrFrames(program, st, base) /\ Lowered(program, st, base, n, scopes)
      /\ Bound(program, Len(program) + 1, sem_binding, {})
  BY DEF Lowering
<1>2. n \in Nat \ {0} /\ program[n] \in Item
  BY <1>1 DEF WellNested
<1>3. PICK x : x = UsedName(program[n])
  OBVIOUS
<1>4. x \in Names /\ x # NoName /\ s = Lookup(sc1, x)
  BY <1>2, <1>3, ItemFields
<1>5. InTopFunction(program, n)
  <2>1. DepthIn(program, n) # 0
    BY <1>1 DEF WellNested, TopOps, ReadOps, WriteOps
  <2> QED
    BY <1>1, <1>2, <2>1, InTop
<1>6. scopes \in Seq(Scope) /\ scopes # <<>>
  <2>1. Fit(program, st, base, n, opened, scopes)
    BY <1>1, <1>2, FramesFit
  <2> QED
    BY <2>1 DEF Fit
<1>7. CASE program[n].op \in {"decl", "for"}
  <2>1. PICK y : y = program[n].name
    OBVIOUS
  <2>2. x = program[n].with /\ y \in Names
    BY <1>2, <1>3, <1>4, <1>7, <2>1, ItemFields
  <2>3. Variable(n) \in Symbol /\ Variable(n) # Undeclared
    BY <1>2, Symbols
  <2>4. /\ x = y => s = Variable(n)
        /\ x # y => s = Lookup(scopes, x)
    <3>1. CASE program[n].op = "decl"
      <4>1. LookupCurrent(scopes, y) = Undeclared /\ sc1 = Declare(scopes, y, Variable(n))
        BY <2>1, <3>1 DEF ReadOps, WriteOps
      <4> QED
        BY <1>4, <1>6, <2>2, <2>3, <4>1, LookupDeclared
    <3>2. CASE program[n].op = "for"
      <4>1. sc1 = Push(scopes, y, n)
        BY <2>1, <3>2 DEF ReadOps, WriteOps
      <4> QED
        BY <1>2, <1>4, <1>6, <2>2, <4>1, LookupPushed
    <3> QED
      BY <1>7, <3>1, <3>2
  <2>5. CASE x = y
    <3>1. s = Variable(n) /\ program[n].with = program[n].name
      BY <2>1, <2>2, <2>4, <2>5
    <3> QED
      BY <1>5, <1>7, <3>1, Symbols DEF Agrees
  <2>6. CASE x # y
    <3>1. s = Lookup(scopes, x) /\ ~(program[n].with = program[n].name)
      BY <2>1, <2>2, <2>4, <2>6
    <3>2. program[n].op # "global" /\ program[n].op \notin CallOps
      BY <1>7 DEF CallOps
    <3>3. IrFinds(program, n, x, s)
      BY <1>1, <1>3, <1>4, <3>1, <3>2, LookupFinds
    <3> QED
      BY <1>1, <1>3, <1>4, <1>5, <3>1, <3>2, <3>3, UseAgrees
  <2> QED
    BY <2>5, <2>6
<1>8. CASE program[n].op \notin {"decl", "for"}
  <2>1. s = Lookup(scopes, x) /\ program[n].op \in ReadOps \cup WriteOps
    BY <1>4, <1>8
  <2>2. program[n].op # "global" /\ program[n].op \notin CallOps
    BY <2>1 DEF ReadOps, WriteOps, CallOps
  <2>3. IrFinds(program, n, x, s)
    BY <1>1, <1>3, <1>4, <2>1, <2>2, LookupFinds
  <2> QED
    BY <1>1, <1>3, <1>4, <1>5, <1>8, <2>2, <2>3, UseAgrees
<1> QED
  BY <1>7, <1>8

\* BindIr adds the binding of the item.
LEMMA BindIrExtends ==
  ASSUME NEW n, n = Here, NEW s, BindIr(s)
  PROVE  /\ Extends(ir_binding', ir_binding, n)
         /\ n \in DOMAIN ir_binding' /\ ir_binding'[n] = s
BY DEF BindIr, Extends

\* Without a binding, nothing changes.
LEMMA UnboundExtends ==
  ASSUME NEW n, ir_binding' = ir_binding
  PROVE  Extends(ir_binding', ir_binding, n)
BY DEF Extends

\* The initializer of a declaration or of a for, lowered with its variable known.
LEMMA LowerInitializerStep ==
  ASSUME Inv, NEW n, NEW st, NEW base, Lowering(n, st, base), NEW d,
         \/ program[n].op = "for" /\ d = Push(scopes, program[n].name, n)
         \/ /\ program[n].op = "decl" /\ LookupCurrent(scopes, program[n].name) = Undeclared
            /\ d = Declare(scopes, program[n].name, Variable(n)),
         LowerInitializer(program[n], d),
         program' = program, errors' = errors, sem_binding' = sem_binding
  PROVE  Inv'
<1>1. PICK e : e = program[n]
  OBVIOUS
<1>2. n = Here /\ e.op \in {"decl", "for"} /\ e \in Item /\ n \in DOMAIN program
  BY <1>1 DEF Lowering, WellNested
<1>3. UsedName(e) = e.with /\ (e.op = "decl" => e.name \in Names)
  BY <1>2, ItemFields
<1>4. \/ /\ e.with = NoName
         /\ LowerItem(n, d) /\ ir_binding' = ir_binding
      \/ /\ e.with # NoName
         /\ IF Lookup(d, e.with).kind = "variable"
            THEN LowerItem(n, d) /\ BindIr(Lookup(d, e.with))
            ELSE LowerFailed /\ ir_binding' = ir_binding
  BY <1>1, <1>2 DEF LowerInitializer
<1>5. ASSUME LowerItem(n, d)
      PROVE  /\ phase' = "lower" /\ cursor' = n
             /\ \E sc1 : LowerVisit(program, n, opened, scopes, sc1, opened', scopes')
  <2>1. phase' = "lower" /\ cursor' = n /\ opened' = Opened(e) /\ scopes' = d
    BY <1>1, <1>2, <1>5 DEF LowerItem
  <2>2. CASE e.op = "decl"
    <3>1. opened' = opened /\ e.op \notin OpenOps \cup {"end"}
      BY <2>1, <2>2, OpenedIs DEF OpenOps
    <3>2. LookupCurrent(scopes, e.name) = Undeclared /\ d = Declare(scopes, e.name, Variable(n))
      BY <1>1, <2>2
    <3>3. LowerVisit(program, n, opened, scopes, d, opened', scopes')
      BY <1>1, <1>3, <2>1, <2>2, <3>1, <3>2 DEF LowerVisit, OpenOps
    <3> QED
      BY <2>1, <3>3
  <2>3. CASE e.op = "for"
    <3>1. opened' = Append(opened, e.op) /\ e.op \in OpenOps
      BY <2>1, <2>3, OpenedIs DEF OpenOps
    <3>2. scopes' = Push(scopes, e.name, n)
      BY <1>1, <2>1, <2>3
    <3>3. LowerVisit(program, n, opened, scopes, scopes, opened', scopes')
      BY <1>1, <2>3, <3>1, <3>2 DEF LowerVisit
    <3> QED
      BY <2>1, <3>3
  <2> QED
    BY <1>2, <2>2, <2>3
<1>6. CASE e.with = NoName /\ LowerItem(n, d) /\ ir_binding' = ir_binding
  <2>1. UsedName(program[n]) = NoName
    BY <1>1, <1>3, <1>6
  <2>2. Extends(ir_binding', ir_binding, n)
    BY <1>6, UnboundExtends
  <2> QED
    BY <1>5, <1>6, <2>1, <2>2, LowerWalk
<1>7. CASE /\ e.with # NoName
           /\ IF Lookup(d, e.with).kind = "variable"
              THEN LowerItem(n, d) /\ BindIr(Lookup(d, e.with))
              ELSE LowerFailed /\ ir_binding' = ir_binding
  <2>1. PICK s : s = Lookup(d, e.with)
    OBVIOUS
  <2>2. UsedName(program[n]) # NoName /\ s = Lookup(d, UsedName(program[n]))
    BY <1>1, <1>3, <1>7, <2>1
  <2>3. /\ InTopFunction(program, n)
        /\ s.kind = "variable" => Agrees(program, n, sem_binding, s)
        /\ s.kind # "variable" => n \notin DOMAIN sem_binding
    BY <2>2, UseFound
  <2>4. CASE s.kind = "variable"
    <3>1. LowerItem(n, d) /\ BindIr(s)
      BY <1>7, <2>1, <2>4
    <3>2. /\ Extends(ir_binding', ir_binding, n)
          /\ n \in DOMAIN ir_binding' /\ ir_binding'[n] = s
      BY <1>2, <3>1, BindIrExtends
    <3>3. Agrees(program, n, sem_binding, ir_binding'[n])
      BY <2>3, <2>4, <3>2
    <3> QED
      BY <1>5, <3>1, <3>2, <3>3, LowerWalk
  <2>5. CASE s.kind # "variable"
    <3>1. LowerFailed /\ ir_binding' = ir_binding
      BY <1>7, <2>1, <2>5
    <3> QED
      BY <2>2, <2>3, <2>5, <3>1, LowerStops
  <2> QED
    BY <2>4, <2>5
<1> QED
  BY <1>4, <1>6, <1>7

\* irBuilderLowerVarDecl
LEMMA LowerVarDeclStep ==
  ASSUME Inv, NEW n, NEW st, NEW base, Lowering(n, st, base), LowerVarDecl(program[n]),
         program' = program, errors' = errors, sem_binding' = sem_binding
  PROVE  Inv'
<1>1. n = Here /\ program[n].op = "decl"
  BY DEF Lowering, LowerVarDecl
<1>2. PICK d : d = Declare(scopes, program[n].name, Variable(n))
  OBVIOUS
<1>3. CASE /\ LookupCurrent(scopes, program[n].name) # Undeclared
           /\ LowerFailed /\ ir_binding' = ir_binding
  <2>1. RedeclaredAt(program, n)
    BY <1>1, <1>3, RefusedIsRedeclared DEF Lowering
  <2> QED
    BY <1>3, <2>1, LowerStops
<1>4. CASE /\ LookupCurrent(scopes, program[n].name) = Undeclared
           /\ LowerInitializer(program[n], d)
  BY <1>1, <1>2, <1>4, LowerInitializerStep
<1> QED
  BY <1>1, <1>2, <1>3, <1>4 DEF LowerVarDecl

\* irBuilderLowerForStatement
LEMMA LowerForStep ==
  ASSUME Inv, NEW n, NEW st, NEW base, Lowering(n, st, base), LowerFor(program[n]),
         program' = program, errors' = errors, sem_binding' = sem_binding
  PROVE  Inv'
<1>1. n = Here /\ program[n].op = "for"
  BY DEF Lowering, LowerFor
<1>2. PICK d : d = Push(scopes, program[n].name, n)
  OBVIOUS
<1>3. LowerInitializer(program[n], d)
  BY <1>1, <1>2 DEF LowerFor
<1> QED
  BY <1>1, <1>2, <1>3, LowerInitializerStep

\* irBuilderLowerIdentifier
LEMMA LowerIdentifierStep ==
  ASSUME Inv, NEW n, NEW st, NEW base, Lowering(n, st, base), LowerIdentifier(program[n]),
         program' = program, errors' = errors, sem_binding' = sem_binding
  PROVE  Inv'
<1>1. PICK e : e = program[n]
  OBVIOUS
<1>2. n = Here /\ e.op \in ReadOps \cup WriteOps /\ e \in Item /\ n \in DOMAIN program
  BY <1>1 DEF Lowering, LowerIdentifier, WellNested
<1>3. e.name \in Names /\ UsedName(e) = e.name /\ e.name # NoName
  <2>1. e.op \in UseOps
    BY <1>2 DEF UseOps
  <2> QED
    BY <1>2, <2>1, ItemFields, NoNameAssumption
<1>4. PICK s : s = Lookup(scopes, e.name)
  OBVIOUS
<1>5. IF s.kind = "variable" THEN LowerItem(n, scopes) /\ BindIr(s)
                             ELSE LowerFailed /\ ir_binding' = ir_binding
  BY <1>1, <1>2, <1>4 DEF LowerIdentifier
<1>6. UsedName(program[n]) # NoName /\ s = Lookup(scopes, UsedName(program[n]))
  BY <1>1, <1>3, <1>4
<1>7. program[n].op \in ReadOps \cup WriteOps
  BY <1>1, <1>2
<1>8. /\ InTopFunction(program, n)
      /\ s.kind = "variable" => Agrees(program, n, sem_binding, s)
      /\ s.kind # "variable" => n \notin DOMAIN sem_binding
  BY <1>6, <1>7, UseFound
<1>9. CASE s.kind = "variable"
  <2>1. LowerItem(n, scopes) /\ BindIr(s)
    BY <1>5, <1>9
  <2>2. phase' = "lower" /\ cursor' = n /\ opened' = Opened(e) /\ scopes' = scopes
    BY <1>1, <1>2, <2>1 DEF LowerItem
  <2>3. opened' = opened
    BY <1>2, <2>2, OpenedIs DEF OpenOps, ReadOps, WriteOps
  <2>4. LowerVisit(program, n, opened, scopes, scopes, opened', scopes')
    BY <1>1, <1>2, <2>2, <2>3 DEF LowerVisit, OpenOps, ReadOps, WriteOps
  <2>5. /\ Extends(ir_binding', ir_binding, n)
        /\ n \in DOMAIN ir_binding' /\ ir_binding'[n] = s
    BY <1>2, <2>1, BindIrExtends
  <2>6. Agrees(program, n, sem_binding, ir_binding'[n])
    BY <1>8, <1>9, <2>5
  <2> QED
    BY <2>2, <2>4, <2>5, <2>6, LowerWalk
<1>10. CASE s.kind # "variable"
  <2>1. LowerFailed /\ ir_binding' = ir_binding
    BY <1>5, <1>10
  <2> QED
    BY <1>6, <1>8, <1>10, <2>1, LowerStops
<1> QED
  BY <1>9, <1>10

\* irBuilderLowerCallRValue
LEMMA LowerCallStep ==
  ASSUME Inv, NEW n, NEW st, NEW base, Lowering(n, st, base), LowerCall(program[n]),
         program' = program, errors' = errors, sem_binding' = sem_binding
  PROVE  Inv'
<1>1. PICK e : e = program[n]
  OBVIOUS
<1>2. n = Here /\ e.op \in CallOps /\ LowerItem(n, scopes)
  BY <1>1 DEF Lowering, LowerCall
<1>3. /\ n \in DOMAIN sem_binding /\ scopes[1][e.name] = sem_binding[n]
      /\ scopes[1][e.name] # Undeclared
  BY <1>1, <1>2, CallAgrees DEF Lowering
<1>4. BindIr(scopes[1][e.name])
  BY <1>1, <1>3 DEF LowerCall
<1>5. /\ Extends(ir_binding', ir_binding, n)
      /\ n \in DOMAIN ir_binding' /\ ir_binding'[n] = scopes[1][e.name]
  BY <1>2, <1>4, BindIrExtends
<1>6. Agrees(program, n, sem_binding, ir_binding'[n])
  BY <1>1, <1>2, <1>3, <1>5 DEF Agrees, CallOps
<1>7. phase' = "lower" /\ cursor' = n /\ opened' = Opened(e) /\ scopes' = scopes
  BY <1>1, <1>2 DEF LowerItem
<1>8. opened' = opened
  BY <1>2, <1>7, OpenedIs DEF OpenOps, CallOps
<1>9. LowerVisit(program, n, opened, scopes, scopes, opened', scopes')
  BY <1>1, <1>2, <1>7, <1>8 DEF LowerVisit, OpenOps, CallOps
<1> QED
  BY <1>5, <1>6, <1>7, <1>9, LowerWalk

\* A nested function is passed over.
LEMMA LowerPassStep ==
  ASSUME Inv, NEW n, NEW st, NEW base, Lowering(n, st, base),
         program[n].op = "func", opened # <<>>, cursor' = Closes(n),
         phase' = phase, opened' = opened, scopes' = scopes, ir_binding' = ir_binding,
         program' = program, errors' = errors, sem_binding' = sem_binding
  PROVE  Inv'
<1>1. /\ n \in DOMAIN program /\ WellNested(program) /\ Complete(program) /\ phase = "lower"
      /\ Frames(program, st, base, n, opened, scopes, "lower")
      /\ IrFrames(program, st, base) /\ Lowered(program, st, base, n, scopes)
      /\ IrBound(program, n, sem_binding, ir_binding)
  BY DEF Lowering
<1>2. PICK c : c = ClosesIn(program, n)
  OBVIOUS
<1>3. cursor' = c
  <2>1. Closes(n) = ClosesIn(program, n)
    BY DEF Closes, ClosesIn, Depth, DepthIn
  <2> QED
    BY <1>2, <2>1
<1>4. /\ c \in n + 1 .. Len(program) /\ DepthIn(program, c + 1) = DepthIn(program, n)
      /\ \A j \in n + 1 .. c : DepthIn(program, j) > DepthIn(program, n)
      /\ \A j \in n + 1 .. Len(program) + 1 : Inside(program, n, j) <=> ~(c < j)
  <2>1. program[n].op \in OpenOps
    BY DEF OpenOps
  <2> QED
    BY <1>1, <1>2, <2>1, OpenIsClosed
<1>5. n \in Nat \ {0} /\ Len(program) \in Nat /\ c \in Nat /\ c \in 0 .. Len(program)
  <2>1. n \in Nat \ {0} /\ Len(program) \in Nat
    BY <1>1 DEF WellNested
  <2> QED
    BY <1>4, <2>1
<1>6. ClosedBy(program, n, c)
  <2>1. \A j \in n + 1 .. c : j \in n + 1 .. Len(program) + 1 /\ ~(c < j)
    BY <1>4, <1>5
  <2> QED
    BY <1>4, <2>1 DEF ClosedBy
<1>7. DepthIn(program, n) # 0
  <2>1. Fit(program, st, base, n, opened, scopes) /\ Chain(program, st, n)
    BY <1>1, <1>5, FramesFit DEF Frames
  <2>2. Len(st) # 0
    BY <2>1 DEF Fit
  <2>3. DepthIn(program, n) = Len(st)
    BY <2>1 DEF Chain
  <2> QED
    BY <2>2, <2>3
<1>8. /\ Frames(program, st, base, c + 1, opened, scopes, "lower")
      /\ Lowered(program, st, base, c + 1, scopes)
  BY <1>1, <1>6, LoweredSkip
<1>9. IrBound(program, c + 1, sem_binding, ir_binding)
  BY <1>1, <1>6, <1>7, IrBoundSkip
<1>10. Here' = c + 1
  BY <1>3 DEF Here
<1>11. LowerInv'
  BY <1>1, <1>8, <1>9, <1>10 DEF LowerInv
<1>12. Typed'
  <2>1. cursor' \in 0 .. Len(program)
    BY <1>3, <1>5
  <2> QED
    BY <1>1, <2>1 DEF Inv, Typed
<1>13. Duplicates' /\ ValidatedInv'
  BY DEF Inv, Duplicates, ValidatedInv
<1> QED
  BY <1>1, <1>11, <1>12, <1>13 DEF Inv, CollectInv, ValidateInv, BuiltInv

\* irBuilderLowerFunctionBody, the ends, and the blocks that have no scope.
LEMMA LowerScopeStep ==
  ASSUME Inv, NEW n, NEW st, NEW base, Lowering(n, st, base), LowerScope(program[n]),
         program' = program, errors' = errors, sem_binding' = sem_binding
  PROVE  Inv'
<1>1. PICK e : e = program[n]
  OBVIOUS
<1>2. n = Here /\ phase = "lower" /\ e \in Item /\ ir_binding' = ir_binding
  BY <1>1 DEF Lowering, LowerScope, WellNested
<1>3. \/ e.op = "func" /\ opened = <<>> /\ LowerItem(n, Push(scopes, e.with, n))
      \/ /\ e.op = "func" /\ opened # <<>>
         /\ cursor' = Closes(n) /\ phase' = phase /\ opened' = opened /\ scopes' = scopes
      \/ e.op = "end" /\ LowerItem(n, Popped(scopes))
      \/ e.op \in {"block", "global", "extern"} /\ LowerItem(n, scopes)
  BY <1>1, <1>2 DEF LowerScope
<1>4. CASE /\ e.op = "func" /\ opened # <<>>
           /\ cursor' = Closes(n) /\ phase' = phase /\ opened' = opened /\ scopes' = scopes
  BY <1>1, <1>2, <1>4, LowerPassStep
<1>5. CASE \/ e.op = "func" /\ opened = <<>> /\ LowerItem(n, Push(scopes, e.with, n))
           \/ e.op = "end" /\ LowerItem(n, Popped(scopes))
           \/ e.op \in {"block", "global", "extern"} /\ LowerItem(n, scopes)
  <2>1. phase' = "lower" /\ cursor' = n /\ opened' = Opened(e)
    BY <1>1, <1>2, <1>5 DEF LowerItem
  <2>2. /\ e.op \in OpenOps => opened' = Append(opened, e.op)
        /\ e.op = "end" => opened' = Front(opened)
        /\ e.op \notin OpenOps \cup {"end"} => opened' = opened
    BY <2>1, OpenedIs
  <2>3. /\ e.op = "func" => opened = <<>> /\ scopes' = Push(scopes, e.with, n)
        /\ e.op = "end" => scopes' = Popped(scopes)
        /\ e.op \notin {"func", "end"} => scopes' = scopes
        /\ e.op \in {"func", "end", "block", "global", "extern"}
    BY <1>5 DEF LowerItem
  <2>4. Popped(scopes) = SubSeq(scopes, 1, Len(scopes) - Width("lower", Last(opened)))
    BY <1>2 DEF Popped, Width
  <2>5. e.op = "end" => scopes' = SubSeq(scopes, 1, Len(scopes) - Width("lower", Last(opened)))
    BY <2>3, <2>4, Zenon
  <2>6. e.op # "decl" /\ e.op # "for" /\ (e.op = "block" => scopes' = scopes)
    BY <2>3
  <2>7. e.op \notin OpenOps \cup {"end"} => opened' = opened /\ scopes' = scopes
    BY <2>2, <2>3 DEF OpenOps
  <2>8. e.op = "func" => opened = <<>> /\ scopes' = Push(scopes, e.with, n)
    BY <2>3
  <2>9. LowerVisit(program, n, opened, scopes, scopes, opened', scopes')
    BY <1>1, <2>2, <2>5, <2>6, <2>7, <2>8, Zenon DEF LowerVisit
  <2>10. UsedName(program[n]) = NoName
    <3>1. e.op \notin UseOps \cup {"decl", "for"}
      BY <2>3 DEF UseOps, ReadOps, WriteOps, CallOps
    <3> QED
      BY <1>1, <1>2, <3>1, ItemFields
  <2>11. Extends(ir_binding', ir_binding, n)
    BY <1>2, UnboundExtends
  <2> QED
    BY <2>1, <2>9, <2>10, <2>11, LowerWalk
<1> QED
  BY <1>3, <1>4, <1>5

\* A step of lowering.
LEMMA LowerStep ==
  ASSUME Inv, Lower
  PROVE  Inv'
<1>1. PICK n, st, base : Lowering(n, st, base)
  BY LoweringAt
<1>2. n = Here
  BY <1>1 DEF Lowering
<1>3. program' = program /\ errors' = errors /\ sem_binding' = sem_binding
  BY DEF Lower
<1>4. \/ LowerVarDecl(program[n]) \/ LowerFor(program[n]) \/ LowerIdentifier(program[n])
      \/ LowerCall(program[n]) \/ LowerScope(program[n])
  BY <1>2 DEF Lower
<1> QED
  BY <1>1, <1>3, <1>4, LowerVarDeclStep, LowerForStep, LowerIdentifierStep,
     LowerCallStep, LowerScopeStep

\* The module is built.
LEMMA BuildStep ==
  ASSUME Inv, Build
  PROVE  Inv'
<1>1. /\ phase = "lower" /\ cursor = Len(program) /\ phase' = "built"
      /\ program' = program /\ cursor' = cursor /\ opened' = opened /\ scopes' = scopes
      /\ errors' = errors /\ sem_binding' = sem_binding /\ ir_binding' = ir_binding
  BY DEF Build
<1>2. Typed'
  BY <1>1 DEF Inv, Typed, Phases
<1>3. Duplicates'
  BY <1>1 DEF Inv, Duplicates
<1>4. ValidatedInv'
  BY <1>1 DEF Inv, ValidatedInv
<1>5. IrBound(program, Len(program) + 1, sem_binding, ir_binding)
  BY <1>1 DEF Inv, LowerInv, Here
<1>6. BuiltInv'
  BY <1>1, <1>5 DEF BuiltInv
<1> QED
  BY <1>1, <1>2, <1>3, <1>4, <1>6 DEF Inv, CollectInv, ValidateInv, LowerInv

\* Steps that change nothing.
LEMMA StutterStep ==
  ASSUME Inv, UNCHANGED vars
  PROVE  Inv'
<1>1. /\ program' = program /\ phase' = phase /\ cursor' = cursor /\ opened' = opened
      /\ scopes' = scopes /\ errors' = errors
      /\ sem_binding' = sem_binding /\ ir_binding' = ir_binding
  BY DEF vars
<1>2. Here' = Here
  BY <1>1 DEF Here
<1>3. Typed' /\ Duplicates' /\ ValidatedInv' /\ BuiltInv'
  BY <1>1 DEF Inv, Typed, Duplicates, ValidatedInv, BuiltInv
<1>4. CollectInv'
  BY <1>1, <1>2 DEF Inv, CollectInv
<1>5. ValidateInv'
  BY <1>1, <1>2 DEF Inv, ValidateInv
<1>6. LowerInv'
  BY <1>1, <1>2 DEF Inv, LowerInv
<1> QED
  BY <1>3, <1>4, <1>5, <1>6 DEF Inv

\* The walks of semantic.c and of the IR builder keep their scopes in step with
\* the text of the program.
THEOREM NameResolutionInvariant == Spec => []Inv
<1>1. Init => Inv
  BY InitInv
<1>2. Inv /\ [Next]_vars => Inv'
  <2> SUFFICES ASSUME Inv, [Next]_vars PROVE Inv'
    OBVIOUS
  <2>1. CASE Next
    <3>1. CASE Finished
      BY <3>1, StutterStep DEF Finished
    <3> QED
      BY <2>1, <3>1, CollectStep, CreateValidationRootStep, ValidateStep, RejectStep,
         PredeclareStep, LowerStep, BuildStep DEF Next
  <2>2. CASE UNCHANGED vars
    BY <2>2, StutterStep
  <2> QED
    BY <2>1, <2>2
<1> QED
  BY <1>1, <1>2, PTL DEF Spec

-----------------------------------------------------------------------------
(* The properties *)

\* collectSymbols reports the declarations that repeat a name of their block.
LEMMA InvDuplicates ==
  ASSUME Inv
  PROVE  DuplicatesReported
<1> SUFFICES ASSUME phase # "collect"
             PROVE  Reported("duplicate") =
                      {n \in DOMAIN program :
                         /\ program[n].op \in {"global", "extern", "func", "decl"}
                         /\ \E m \in 1 .. n - 1 :
                              /\ program[m].op \in {"global", "extern", "func", "decl"}
                              /\ program[m].name = program[n].name /\ Parent(m) = Parent(n)}
  BY DEF DuplicatesReported
<1>1. WellNested(program) /\ Complete(program)
  BY DEF Inv, Typed
<1>2. DOMAIN program = 1 .. Len(program) /\ Len(program) \in Nat
  BY <1>1 DEF WellNested
<1>3. ASSUME NEW n \in DOMAIN program, program[n].op \in DeclOps, NEW q
      PROVE  ParentIs(program, n, q) <=> q = Parent(n)
  <2>1. program[n].op # "end" /\ n \in 1 .. Len(program) + 1
    BY <1>2, <1>3 DEF DeclOps
  <2>2. ParentIs(program, n, Parent(n))
    BY <1>1, <2>1, ParentIsParent
  <2> QED
    BY <1>1, <2>1, <2>2, ParentExists
<1>4. ASSUME NEW n \in DOMAIN program
      PROVE  <<"duplicate", n>> \in errors <=>
               /\ program[n].op \in DeclOps
               /\ \E m \in 1 .. n - 1 :
                    /\ program[m].op \in DeclOps
                    /\ program[m].name = program[n].name /\ Parent(m) = Parent(n)
  <2>1. n \in Nat /\ \A m \in 1 .. n - 1 : m \in DOMAIN program
    BY <1>2
  <2>2. <<"duplicate", n>> \in errors <=> Repeats(program, n)
    BY <2>1 DEF Inv, Duplicates
  <2>3. \A m \in 1 .. n - 1 :
          Twins(program, m, n) <=>
            /\ program[m].op \in DeclOps /\ program[n].op \in DeclOps
            /\ program[m].name = program[n].name /\ Parent(m) = Parent(n)
    BY <1>3, <2>1 DEF Twins
  <2> QED
    BY <2>2, <2>3 DEF Repeats
<1> QED
  BY <1>4 DEF Reported, DeclOps

\* BodyLocals in terms of depths.
LEMMA BodyLocalsAre ==
  ASSUME WellNested(program), Complete(program), NEW n \in DOMAIN program, program[n].op # "end",
         NEW m \in 1 .. n - 1
  PROVE  m \in BodyLocals(n) <=> BodyLocalAt(program, m, n)
<1>1. /\ n \in 1 .. Len(program) + 1 /\ m \in DOMAIN program /\ m \in 1 .. Len(program) + 1
  BY DEF WellNested
<1>2. \A q : ParentIs(program, n, q) <=> q = Parent(n)
  <2>1. ParentIs(program, n, Parent(n))
    BY ParentIsParent
  <2> QED
    BY <1>1, <2>1, ParentExists
<1>3. ASSUME program[m].op = "decl"
      PROVE  \A q : ParentIs(program, m, q) <=> q = Parent(m)
  <2>1. ParentIs(program, m, Parent(m))
    BY <1>1, <1>3, ParentIsParent
  <2> QED
    BY <1>1, <2>1, ParentExists
<1>4. program[m].op = "decl" =>
        ((\E q : ParentIs(program, m, q) /\ ParentIs(program, n, q)) <=> Parent(m) = Parent(n))
  BY <1>2, <1>3
<1> QED
  BY <1>4 DEF BodyLocals, BodyLocalAt, InBody

\* The reference definition of the meaning of a name.
LEMMA MeaningMeans ==
  ASSUME WellNested(program), Complete(program), NEW n \in DOMAIN program, program[n].op # "end",
         NEW x, x = UsedName(program[n]), NEW s, Means(program, n, x, s)
  PROVE  Meaning(n, x) = s
<1>1. /\ program \in Seq(Item) /\ DOMAIN program = 1 .. Len(program) /\ Len(program) \in Nat
      /\ n \in Nat \ {0} /\ n - 1 \in Nat /\ 1 .. n - 1 \subseteq 0 .. n - 1
      /\ 1 .. n - 1 \subseteq DOMAIN program
  BY DEF WellNested
<1>2. \A m : m \in VisibleAt(n, x) <=> Visible(program, n, x, m)
  <2>1. ASSUME NEW m \in 1 .. n - 1, Declares(program, m, x)
        PROVE  (CASE program[m].op = "global" -> TRUE
                  [] program[m].op = "decl"   -> Encloses(Parent(m), n) /\ m \notin BodyLocals(n)
                  [] OTHER                    -> Encloses(m, n))
               <=> Visible(program, n, x, m)
    <3>1. CASE program[m].op = "global"
      BY <2>1, <3>1 DEF Visible, InSight, InBody
    <3>2. CASE program[m].op = "decl"
      <4>1. m \in DOMAIN program /\ program[m].op # "end" /\ m \in 1 .. Len(program) + 1
        BY <1>1, <3>2
      <4>2. ParentIs(program, m, Parent(m))
        BY <4>1, ParentIsParent
      <4>3. \A q : ParentIs(program, m, q) => q = Parent(m)
        BY <4>1, <4>2, ParentExists
      <4>4. DepthIn(program, m) # 0
        BY <3>2, <4>1 DEF WellNested, TopOps
      <4>5. Parent(m) \in 1 .. m - 1
        BY <4>2, <4>4 DEF ParentIs, Inside
      <4>6. Parent(m) \in 1 .. n - 1
        BY <1>1, <4>5
      <4>7. Encloses(Parent(m), n) <=> Inside(program, Parent(m), n)
        BY <4>6, EnclosesIsInside
      <4>8. m \in BodyLocals(n) <=> InBody(program, m, n)
        <5>1. program[m].name = UsedName(program[n])
          BY <2>1, <3>2 DEF Declares
        <5> QED
          BY <5>1, BodyLocalsAre DEF BodyLocalAt
      <4>9. InSight(program, n, x, m) <=> Inside(program, Parent(m), n)
        BY <2>1, <3>2, <4>2, <4>3 DEF InSight
      <4> QED
        BY <3>2, <4>7, <4>8, <4>9 DEF Visible
    <3>3. CASE program[m].op \notin {"global", "decl"}
      <4>1. Encloses(m, n) <=> Inside(program, m, n)
        BY EnclosesIsInside
      <4>2. program[m].op \in {"func", "for"}
        BY <2>1, <3>3 DEF Declares
      <4> QED
        BY <2>1, <3>3, <4>1, <4>2 DEF Visible, InSight, InBody
    <3> QED
      BY <3>1, <3>2, <3>3
  <2>2. \A m : DeclaresVariable(m, x) <=> Declares(program, m, x)
    BY DEF DeclaresVariable, Declares
  <2>3. \A m : Visible(program, n, x, m) => m \in 1 .. n - 1 /\ Declares(program, m, x)
    BY DEF Visible, InSight
  <2> QED
    BY <2>1, <2>2, <2>3 DEF VisibleAt
<1>3. PICK V : V = VisibleAt(n, x)
  OBVIOUS
<1>4. V \in SUBSET (0 .. n - 1)
  <2>1. V \subseteq 1 .. n - 1
    BY <1>3 DEF VisibleAt
  <2> QED
    BY <1>1, <2>1
<1>5. PICK F : F = {m \in TopLevel : program[m].op \in {"func", "extern"} /\ program[m].name = x}
  OBVIOUS
<1>6. /\ V # {} => Meaning(n, x) = Variable(Max(V))
      /\ V = {} /\ F # {} => Meaning(n, x) = Function(Min(F))
      /\ V = {} /\ F = {} => Meaning(n, x) = Undeclared
  BY <1>3, <1>5 DEF Meaning
<1>7. ASSUME NEW m, Visible(program, n, x, m), s = Variable(m),
             \A v : Visible(program, n, x, v) => v <= m
      PROVE  Meaning(n, x) = s
  <2>1. m \in V /\ \A v \in V : v <= m
    BY <1>2, <1>3, <1>7
  <2>2. V # {} /\ Max(V) \in V /\ m <= Max(V)
    <3>1. V # {}
      BY <2>1
    <3>2. PICK w : w = n - 1
      OBVIOUS
    <3>3. w \in Nat /\ V \in SUBSET (0 .. w)
      BY <1>1, <1>4, <3>2
    <3>4. Max(V) \in V /\ \A y \in V : y <= Max(V)
      BY <3>1, <3>3, GreatestElement
    <3> QED
      BY <2>1, <3>1, <3>4
  <2>3. Max(V) <= m /\ m \in Nat /\ Max(V) \in Nat
    <3>1. \A v \in V : v \in Nat
      BY <1>1, <1>4
    <3> QED
      BY <2>1, <2>2, <3>1
  <2>4. Max(V) = m
    BY <2>2, <2>3
  <2> QED
    BY <1>6, <1>7, <2>2, <2>4
<1>8. ASSUME \A m : ~Visible(program, n, x, m), FunctionIs(program, x, s)
      PROVE  Meaning(n, x) = s
  <2>1. V = {}
    BY <1>2, <1>3, <1>8
  <2>2. \A f : f \in F <=> IsFunction(program, f, x)
    BY <1>5 DEF TopLevel, Depth, DepthIn, IsFunction
  <2>3. F \in SUBSET Nat
    BY <1>1, <1>5 DEF TopLevel
  <2>4. ASSUME NEW f, IsFunction(program, f, x), s = Function(f),
               \A g : IsFunction(program, g, x) => f <= g
        PROVE  Meaning(n, x) = s
    <3>1. f \in F /\ \A g \in F : f <= g
      BY <2>2, <2>4
    <3>2. F # {} /\ Min(F) \in F /\ Min(F) <= f
      BY <2>3, <3>1, LeastElement
    <3>3. f <= Min(F) /\ f \in Nat /\ Min(F) \in Nat
      BY <2>3, <3>1, <3>2
    <3>4. Min(F) = f
      BY <3>2, <3>3
    <3> QED
      BY <1>6, <2>1, <2>4, <3>2, <3>4
  <2>5. ASSUME \A f : ~IsFunction(program, f, x), s = Undeclared
        PROVE  Meaning(n, x) = s
    BY <1>6, <2>1, <2>2, <2>5
  <2> QED
    BY <1>8, <2>4, <2>5 DEF FunctionIs
<1> QED
  BY <1>7, <1>8 DEF Means

\* validateNode binds every use to its meaning.
LEMMA InvLexical ==
  ASSUME Inv
  PROVE  ValidationIsLexical
<1> SUFFICES ASSUME phase \notin {"collect", "validate"}, Reported("duplicate") = {}
             PROVE  /\ \A n \in Uses :
                         LET meaning == Meaning(n, UsedName(program[n]))
                         IN  IF meaning.kind = KindUsed(n)
                             THEN n \in DOMAIN sem_binding /\ sem_binding[n] = meaning
                             ELSE n \notin DOMAIN sem_binding
                    /\ Reported("undeclared") =
                         {n \in Uses \ DOMAIN sem_binding : program[n].op \notin WriteOps}
  BY DEF ValidationIsLexical
<1>1. WellNested(program) /\ Complete(program)
  BY DEF Inv, Typed
<1>2. program \in Seq(Item) /\ DOMAIN program = 1 .. (Len(program) + 1) - 1 /\ DOMAIN program \subseteq Nat
  BY <1>1 DEF WellNested
<1>3. NoRepeats(program)
  BY <1>2 DEF Inv, Duplicates, NoRepeats, Reported
<1>4. Bound(program, Len(program) + 1, sem_binding, errors)
  BY <1>3 DEF Inv, ValidatedInv
<1>5. \A n \in DOMAIN program : BoundAt(program, n, sem_binding, errors)
  BY <1>2, <1>4 DEF Bound
<1>6. ASSUME NEW n \in Uses
      PROVE  \E s : /\ Meaning(n, UsedName(program[n])) = s
                    /\ s.kind = KindUsed(n) =>
                         n \in DOMAIN sem_binding /\ sem_binding[n] = s /\ <<"undeclared", n>> \notin errors
                    /\ s.kind # KindUsed(n) =>
                         /\ n \notin DOMAIN sem_binding
                         /\ <<"undeclared", n>> \in errors <=> program[n].op \notin WriteOps
  <2>1. n \in DOMAIN program /\ UsedName(program[n]) # NoName /\ program[n] \in Item
    BY <1>2 DEF Uses
  <2>2. program[n].op # "end"
    BY <2>1, ItemFields
  <2>3. KindUsed(n) = KindOf(program[n])
    BY DEF KindUsed, KindOf
  <2>4. PICK s : /\ Means(program, n, UsedName(program[n]), s)
                 /\ s.kind = KindOf(program[n]) =>
                      n \in DOMAIN sem_binding /\ sem_binding[n] = s /\ <<"undeclared", n>> \notin errors
                 /\ s.kind # KindOf(program[n]) =>
                      /\ n \notin DOMAIN sem_binding
                      /\ <<"undeclared", n>> \in errors <=> program[n].op \notin WriteOps
    BY <1>5, <2>1 DEF BoundAt
  <2>5. Meaning(n, UsedName(program[n])) = s
    BY <1>1, <2>1, <2>2, <2>4, MeaningMeans
  <2> QED
    BY <2>3, <2>4, <2>5
<1>7. ASSUME NEW n \in DOMAIN program, n \notin Uses PROVE <<"undeclared", n>> \notin errors
  BY <1>5, <1>7 DEF BoundAt, Uses
<1>8. Uses \subseteq DOMAIN program
  BY DEF Uses
<1>9. Reported("undeclared") = {n \in Uses \ DOMAIN sem_binding : program[n].op \notin WriteOps}
  BY <1>6, <1>7, <1>8 DEF Reported
<1> QED
  BY <1>6, <1>9

\* Around in a function of the top level.
LEMMA AroundTopLevel ==
  ASSUME WellNested(program), Complete(program), NEW n \in DOMAIN program, program[n].op # "end"
  PROVE  Around(n, {"func"}) \in TopLevel <=> InTopFunction(program, n)
<1>1. /\ n \in Nat \ {0} /\ DOMAIN program = 1 .. Len(program) /\ Len(program) \in Nat
      /\ n \in 1 .. Len(program)
  BY DEF WellNested
<1>2. {"func"} \in SUBSET OpenOps
  BY DEF OpenOps
<1>3. /\ \A h : AroundIs(program, n, {"func"}, h) => Around(n, {"func"}) = h
      /\ Around(n, {"func"}) # 0 => AroundIs(program, n, {"func"}, Around(n, {"func"}))
      /\ Around(n, {"func"}) \in 0 .. n - 1
  BY <1>2, AroundIsInside
<1>4. \A m : m \in TopLevel <=> m \in DOMAIN program /\ DepthIn(program, m) = 0
  BY DEF TopLevel, Depth, DepthIn
<1>5. ASSUME Around(n, {"func"}) \in TopLevel PROVE InTopFunction(program, n)
  <2>1. Around(n, {"func"}) # 0 /\ DepthIn(program, Around(n, {"func"})) = 0
    BY <1>1, <1>4, <1>5
  <2> QED
    BY <1>3, <2>1 DEF InTopFunction
<1>6. ASSUME NEW f, AroundIs(program, n, {"func"}, f), DepthIn(program, f) = 0
      PROVE  Around(n, {"func"}) \in TopLevel
  <2>1. Around(n, {"func"}) = f /\ f \in 1 .. n - 1
    BY <1>3, <1>6 DEF AroundIs, Inside
  <2>2. f \in DOMAIN program
    BY <1>1, <2>1
  <2> QED
    BY <1>4, <1>6, <2>1, <2>2
<1> QED
  BY <1>5, <1>6 DEF InTopFunction

\* Redeclared in terms of depths.
LEMMA RedeclaredIs ==
  ASSUME WellNested(program), Complete(program)
  PROVE  Redeclared <=> \E n \in DOMAIN program : RedeclaredAt(program, n)
<1>1. DOMAIN program = 1 .. Len(program) /\ Len(program) \in Nat
  BY DEF WellNested
<1>2. ASSUME NEW n \in DOMAIN program
      PROVE  (/\ program[n].op = "decl" /\ Around(n, {"func"}) \in TopLevel
              /\ \/ DeclaresVariable(Around(n, {"func", "for"}), program[n].name)
                 \/ \E m \in Around(n, {"func", "for"}) + 1 .. n - 1 :
                      /\ program[m].op = "decl" /\ program[m].name = program[n].name
                      /\ Around(m, {"func", "for"}) = Around(n, {"func", "for"}))
             <=> RedeclaredAt(program, n)
  <2>1. CASE program[n].op = "decl"
    <3>1. program[n].op # "end" /\ HomeOps \in SUBSET OpenOps /\ HomeOps = {"func", "for"}
      BY <2>1 DEF HomeOps, OpenOps
    <3>2. Around(n, {"func"}) \in TopLevel <=> InTopFunction(program, n)
      BY <3>1, AroundTopLevel
    <3>3. PICK home : home = Around(n, HomeOps)
      OBVIOUS
    <3>4. /\ \A h : AroundIs(program, n, HomeOps, h) => home = h
          /\ home # 0 => AroundIs(program, n, HomeOps, home)
          /\ home \in 0 .. n - 1
          /\ \A r : Inside(program, r, n) /\ program[r].op \in HomeOps => r <= home
      BY <3>1, <3>3, AroundIsInside
    <3>5. InTopFunction(program, n) => home # 0
      <4> SUFFICES ASSUME NEW f, AroundIs(program, n, {"func"}, f) PROVE home # 0
        BY DEF InTopFunction
      <4>1. Inside(program, f, n) /\ program[f].op \in HomeOps /\ f \in 1 .. n - 1
        BY DEF AroundIs, Inside, HomeOps
      <4>2. f <= home
        BY <3>4, <4>1
      <4> QED
        BY <4>1, <4>2
    <3>6. ASSUME home # 0, NEW m \in home + 1 .. n - 1, program[m].op = "decl"
          PROVE  Around(m, HomeOps) = home <=> AroundIs(program, m, HomeOps, home)
      <4>1. m \in DOMAIN program
        BY <1>1, <3>4
      <4>2. /\ \A h : AroundIs(program, m, HomeOps, h) => Around(m, HomeOps) = h
            /\ Around(m, HomeOps) # 0 => AroundIs(program, m, HomeOps, Around(m, HomeOps))
        BY <3>1, <3>6, <4>1, AroundIsInside
      <4> QED
        BY <3>6, <4>2
    <3>7. DeclaresVariable(home, program[n].name) <=> Declares(program, home, program[n].name)
      BY DEF DeclaresVariable, Declares
    <3>8. RedeclaredAt(program, n) <=>
            /\ InTopFunction(program, n)
            /\ \/ Declares(program, home, program[n].name)
               \/ \E m \in home + 1 .. n - 1 :
                    /\ program[m].op = "decl" /\ program[m].name = program[n].name
                    /\ AroundIs(program, m, HomeOps, home)
      BY <2>1, <3>4, <3>5 DEF RedeclaredAt
    <3>9. home = Around(n, {"func", "for"})
      BY <3>1, <3>3
    <3>10. ASSUME InTopFunction(program, n)
           PROVE  (\E m \in home + 1 .. n - 1 :
                     /\ program[m].op = "decl" /\ program[m].name = program[n].name
                     /\ AroundIs(program, m, HomeOps, home))
                  <=> (\E m \in home + 1 .. n - 1 :
                         /\ program[m].op = "decl" /\ program[m].name = program[n].name
                         /\ Around(m, {"func", "for"}) = home)
      BY <3>1, <3>5, <3>6, <3>10
    <3> QED
      BY <2>1, <3>2, <3>7, <3>8, <3>9, <3>10
  <2>2. CASE program[n].op # "decl"
    BY <2>2 DEF RedeclaredAt
  <2> QED
    BY <2>1, <2>2
<1> QED
  BY <1>2 DEF Redeclared

\* The uses that are lowered, in terms of depths.
LEMMA LoweredUsesAre ==
  ASSUME WellNested(program), Complete(program), NEW n
  PROVE  n \in LoweredUses <=>
           n \in DOMAIN program /\ UsedName(program[n]) # NoName /\ InTopFunction(program, n)
<1>1. ASSUME n \in DOMAIN program, UsedName(program[n]) # NoName
      PROVE  Around(n, {"func"}) \in TopLevel <=> InTopFunction(program, n)
  <2>1. program[n] \in Item
    BY <1>1 DEF WellNested
  <2>2. program[n].op # "end"
    BY <1>1, <2>1, ItemFields
  <2> QED
    BY <1>1, <2>2, AroundTopLevel
<1> QED
  BY <1>1 DEF LoweredUses, Uses

\* irBuildModule fails for the reasons given, and for no other.
LEMMA InvFailures ==
  ASSUME Inv
  PROVE  BuildFailureExplained
<1>1. TypeOK
  BY DEF Inv, Typed, TypeOK, WellNested, Phases
<1>2. ASSUME phase \in {"built", "failed"} PROVE WellNested(program) /\ Complete(program)
  BY <1>2 DEF Inv, Typed
<1>3. ASSUME phase = "failed" PROVE Redeclared \/ ~(LoweredUses \subseteq DOMAIN sem_binding)
  <2>1. PICK n \in DOMAIN program :
          \/ RedeclaredAt(program, n)
          \/ UsedName(program[n]) # NoName /\ InTopFunction(program, n) /\ n \notin DOMAIN sem_binding
    BY <1>3 DEF Inv, BuiltInv
  <2> QED
    BY <1>2, <1>3, <2>1, RedeclaredIs, LoweredUsesAre
<1>4. ASSUME phase = "built" PROVE ~Redeclared
  <2>1. IrBound(program, Len(program) + 1, sem_binding, ir_binding)
    BY <1>4 DEF Inv, BuiltInv
  <2>2. DOMAIN program = 1 .. (Len(program) + 1) - 1
    BY <1>2, <1>4 DEF WellNested
  <2>3. \A n \in DOMAIN program : ~RedeclaredAt(program, n)
    BY <2>1, <2>2 DEF IrBound
  <2> QED
    BY <1>2, <1>4, <2>3, RedeclaredIs
<1> QED
  BY <1>1, <1>3, <1>4 DEF BuildFailureExplained

\* LeftBehind in terms of depths.
LEMMA LeftIsBehind ==
  ASSUME WellNested(program), Complete(program), NEW n \in DOMAIN program, program[n].op # "end",
         NEW m, LeftAt(program, m, n)
  PROVE  m \in LeftBehind(n)
<1>1. m \in 1 .. n - 1 /\ program[m].op = "decl" /\ program[m].name = UsedName(program[n])
  BY DEF LeftAt
<1>2. /\ m \in DOMAIN program /\ program[m].op # "end" /\ m \in 1 .. Len(program) + 1
      /\ n \in Nat \ {0} /\ m \in Nat \ {0}
  BY <1>1 DEF WellNested
<1>3. PICK q : ParentIs(program, m, q) /\ program[q].op = "block" /\ ~Inside(program, q, n)
  BY DEF LeftAt
<1>4. PICK h : AroundIs(program, m, HomeOps, h) /\ Inside(program, h, n)
  BY DEF LeftAt
<1>5. Parent(m) = q
  <2>1. ParentIs(program, m, Parent(m))
    BY <1>2, ParentIsParent
  <2> QED
    BY <1>2, <1>3, <2>1, ParentExists
<1>6. q \in 1 .. n - 1
  <2>1. DepthIn(program, m) # 0
    BY <1>1, <1>2 DEF WellNested, TopOps
  <2>2. q \in 1 .. m - 1
    BY <1>3, <2>1 DEF ParentIs, Inside
  <2> QED
    BY <1>1, <1>2, <2>2
<1>7. ~Encloses(q, n)
  BY <1>3, <1>6, EnclosesIsInside
<1>8. h \in 1 .. n - 1
  BY <1>4 DEF Inside
<1>9. Encloses(h, n)
  BY <1>4, <1>8, EnclosesIsInside
<1>10. Around(m, {"func", "for"}) = h
  <2>1. {"func", "for"} \in SUBSET OpenOps /\ HomeOps = {"func", "for"}
    BY DEF HomeOps, OpenOps
  <2> QED
    BY <1>2, <1>4, <2>1, AroundIsInside
<1> QED
  BY <1>1, <1>3, <1>5, <1>7, <1>9, <1>10 DEF LeftBehind

\* The code uses what was checked, but for the four cases.
LEMMA InvBindings ==
  ASSUME Inv
  PROVE  BindingsAgree
<1> SUFFICES ASSUME phase = "built", NEW n \in LoweredUses
             PROVE  ir_binding[n] \in
                      IF SelfInitialized(n) THEN {Variable(n)}
                      ELSE (IF n \in DOMAIN sem_binding THEN {sem_binding[n]}
                            ELSE {Variable(m) : m \in DeclaredLater(n)})
                             \cup {Variable(m) : m \in LeftBehind(n) \cup BodyLocals(n)}
  BY DEF BindingsAgree
<1>1. WellNested(program) /\ Complete(program)
  BY DEF Inv, Typed
<1>2. n \in DOMAIN program /\ UsedName(program[n]) # NoName /\ InTopFunction(program, n)
  BY <1>1, LoweredUsesAre
<1>3. program[n] \in Item /\ n \in 1 .. (Len(program) + 1) - 1
  BY <1>1, <1>2 DEF WellNested
<1>4. program[n].op # "end"
  BY <1>2, <1>3, ItemFields
<1>5. IrBound(program, Len(program) + 1, sem_binding, ir_binding)
  BY DEF Inv, BuiltInv
<1>6. Agrees(program, n, sem_binding, ir_binding[n])
  BY <1>2, <1>3, <1>5 DEF IrBound
<1>7. CASE SelfInitialized(n)
  BY <1>6, <1>7 DEF SelfInitialized, Agrees
<1>8. CASE ~SelfInitialized(n)
  <2>1. \/ n \in DOMAIN sem_binding /\ ir_binding[n] = sem_binding[n]
        \/ n \notin DOMAIN sem_binding /\ \E m \in n + 1 .. Len(program) :
             program[m].op = "global" /\ program[m].name = UsedName(program[n]) /\ ir_binding[n] = Variable(m)
        \/ \E m \in 1 .. n - 1 :
             (LeftAt(program, m, n) \/ BodyLocalAt(program, m, n)) /\ ir_binding[n] = Variable(m)
    BY <1>6, <1>8 DEF SelfInitialized, Agrees
  <2>2. ASSUME NEW m \in 1 .. n - 1, LeftAt(program, m, n) \/ BodyLocalAt(program, m, n),
               ir_binding[n] = Variable(m)
        PROVE  ir_binding[n] \in {Variable(k) : k \in LeftBehind(n) \cup BodyLocals(n)}
    <3>1. m \in LeftBehind(n) \cup BodyLocals(n)
      BY <1>1, <1>2, <1>4, <2>2, LeftIsBehind, BodyLocalsAre
    <3> QED
      BY <2>2, <3>1
  <2> QED
    BY <1>8, <2>1, <2>2 DEF DeclaredLater
<1> QED
  BY <1>7, <1>8

\* collectSymbols reports exactly the declarations that repeat a name of their
\* own block, in every program.
THEOREM DuplicatesAreReported == Spec => []DuplicatesReported
<1>1. Inv => DuplicatesReported
  BY InvDuplicates
<1> QED
  BY <1>1, NameResolutionInvariant, PTL

\* validateNode binds every use to its lexical meaning, in every program that
\* declares no name twice in a block.
THEOREM ValidationFollowsTheText == Spec => []ValidationIsLexical
<1>1. Inv => ValidationIsLexical
  BY InvLexical
<1> QED
  BY <1>1, NameResolutionInvariant, PTL

\* irBuildModule refuses the programs that declare a name twice in one IR scope
\* or assign to an unknown name, and no other that validation accepts.
THEOREM BuildFailuresAreExplained == Spec => []BuildFailureExplained
<1>1. Inv => BuildFailureExplained
  BY InvFailures
<1> QED
  BY <1>1, NameResolutionInvariant, PTL

\* The emitted code uses the declaration that validation found, but for the
\* four cases that BindingsAgree names.
THEOREM BindingsOfThePassesAgree == Spec => []BindingsAgree
<1>1. Inv => BindingsAgree
  BY InvBindings
<1> QED
  BY <1>1, NameResolutionInvariant, PTL

=============================================================================
