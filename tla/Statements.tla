----------------------------- MODULE Statements -----------------------------
(***************************************************************************)
(* The statements of a PocScript function body, as the recursive walks of  *)
(* the compiler visit them.  A body is a sequence of items in source       *)
(* order; a compound statement is an opening item, the items of its        *)
(* blocks, and a closing item:                                             *)
(*                                                                         *)
(*   if (c) { A } else { B }    if A else B endif    (no else: if A endif) *)
(*   while (c) { A }            while A endwhile                           *)
(*   for (i; c; u) { A }        for A endfor                               *)
(*   func g() { A }             func A endfunc                             *)
(*                                                                         *)
(* An "else if" is an else holding one if: every walk treats the two alike.*)
(* "stmt" is any declaration, assignment or expression statement that      *)
(* emits code, "pure" an expression statement that emits none ("1;").      *)
(***************************************************************************)
EXTENDS Naturals, Sequences, FiniteSets, FiniteSetsExt

CONSTANTS
  ForHeaders,     \* the headers a for may have, see ForHeader
  MaxItems        \* bound on the number of items of a body

\* Which of its three clauses a for statement has: each is NULL in the AST
\* when the source leaves it out.
ForHeader == [init : BOOLEAN, cond : BOOLEAN, update : BOOLEAN]

ASSUME ForHeadersAssumption == ForHeaders \subseteq ForHeader
ASSUME MaxItemsAssumption == MaxItems \in Nat

Plain(op)  == [op |-> op]
Ret(value) == [op |-> "ret", value |-> value]
For(h)     == [op |-> "for", header |-> h]
Func(void) == [op |-> "func", void |-> void]

\* Statements with no block of their own.
SimpleItem == {Plain(op) : op \in {"stmt", "pure", "break", "continue"}}
                \cup {Ret(v) : v \in BOOLEAN}

\* Items that open a compound statement.
OpenItem == {Plain(op) : op \in {"if", "while"}}
              \cup {For(h) : h \in ForHeaders} \cup {Func(v) : v \in BOOLEAN}

OpenOps  == {"if", "while", "for", "func"}
CloseOps == {"endif", "endwhile", "endfor", "endfunc"}
LoopOps  == {"while", "for"}

Item == SimpleItem \cup OpenItem
          \cup {Plain(op) : op \in CloseOps \cup {"else"}}

-----------------------------------------------------------------------------
(* The structure of a body p *)

Depth(p, n) ==
  Cardinality({m \in 1 .. n - 1 : p[m].op \in OpenOps})
    - Cardinality({m \in 1 .. n - 1 : p[m].op \in CloseOps})

\* The item that closes the compound statement opened at n.
Close(p, n) ==
  Min({m \in n + 1 .. Len(p) :
         p[m].op \in CloseOps /\ Depth(p, m) = Depth(p, n) + 1})

\* The item that opened the compound statement closed (or continued by an
\* else) at n.
Open(p, n) ==
  Max({m \in 1 .. n - 1 : p[m].op \in OpenOps /\ Depth(p, m) = Depth(p, n) - 1})

\* The position of the else of the if at n, or of its end.
ElseOrEnd(p, n) ==
  Min({m \in n + 1 .. Close(p, n) :
         p[m].op \in {"else", "endif"} /\ Depth(p, m) = Depth(p, n) + 1})

\* The innermost loop around item n.
LoopOf(p, n) ==
  Max({m \in 1 .. n - 1 : p[m].op \in LoopOps /\ Close(p, m) > n})
=============================================================================
