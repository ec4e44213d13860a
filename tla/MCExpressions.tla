--------------------------- MODULE MCExpressions ---------------------------
(***************************************************************************)
(* Bounded instance of Expressions: a variable of every shape the rules    *)
(* tell apart, functions that take and return scalars, pointers and        *)
(* arrays, and string literals of one character.                           *)
(***************************************************************************)
EXTENDS Expressions

T(dims, base) == [dims |-> dims, base |-> base]

VarTypes ==
  [n |-> T(<<>>, "int"),
   p |-> T(<<Pointer>>, "char"),
   s |-> T(<<Array(2)>>, "char"),
   u |-> T(<<Array(Unsized)>>, "int"),
   m |-> T(<<Array(2), Pointer>>, "int"),
   r |-> T(<<Array(Unsized), Array(3)>>, "int"),
   v |-> T(<<Pointer>>, "void"),
   a |-> T(<<Array(Unsized)>>, "error")]

VarNames == DOMAIN VarTypes

\* u was declared with a literal of two elements, r with {{1, 2}}; a is an Array
\* of nothing.
VarIrTypes ==
  [VarTypes EXCEPT !.u = T(<<Array(2)>>, "int"),
                   !.r = T(<<Array(1), Array(2)>>, "int"),
                   !.a = T(<<Array(Unsized)>>, "none")]

FuncNames == {"one", "row", "next", "put", "sum"}
FuncParams ==
  [one  |-> <<>>,
   row  |-> <<>>,
   next |-> <<T(<<Pointer>>, "int")>>,
   put  |-> <<T(<<>>, "char")>>,
   sum  |-> <<T(<<Array(Unsized)>>, "int"), T(<<>>, "int")>>]
FuncResults ==
  [one  |-> T(<<>>, "int"),
   row  |-> T(<<Array(3)>>, "int"),
   next |-> T(<<Pointer>>, "int"),
   put  |-> T(<<>>, "void"),
   sum  |-> T(<<Array(2), Array(Unsized)>>, "char")]

DeclaredTypes ==
  {T(<<>>, "int"), T(<<>>, "char"), T(<<>>, "void"), T(<<>>, "custom"),
   T(<<Array(2), Array(Unsized)>>, "custom"), T(<<Array(Unsized)>>, "custom"),
   T(<<Array(Unsized), Array(3)>>, "int"), T(<<Array(3)>>, "int"),
   T(<<Pointer>>, "int"), T(<<Pointer>>, "char"),
   T(<<Array(1), Array(Unsized)>>, "int"), T(<<Array(Computed)>>, "char"),
   T(<<Array(Unsized), Pointer>>, "int")}
=============================================================================
