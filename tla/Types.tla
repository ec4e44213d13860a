------------------------------- MODULE Types -------------------------------
(***************************************************************************)
(* The types of a PocScript program: as written (AstType), as the semantic *)
(* pass sees them (types.c) and as the IR builder sees them                *)
(* (irBuilderTypeFromAst).  A type is a stack of pointer and array layers  *)
(* over a base, outermost layer first, so that the element type of a type  *)
(* is its tail.                                                            *)
(***************************************************************************)
EXTENDS Integers, Sequences, FiniteSets

LOCAL INSTANCE SequencesExt

Unsized == -1      \* an array without size (has_array_size is false)
Computed == -2     \* as written only: the size is not an integer literal

Pointer == [kind |-> "pointer", size |-> Unsized]
Array(n) == [kind |-> "array", size |-> n]

Bases == {"int", "float", "char", "bool", "void"}
Layer == [kind : {"pointer"}, size : {Unsized}] \cup [kind : {"array"}, size : Nat \cup {Unsized}]

\* SemanticType; "error" is SEM_TYPE_ERROR.
SemType == [dims : Seq(Layer), base : Bases \cup {"error"}]

\* IRType; "none" is the missing element type of an array.
IrType == [dims : Seq(Layer), base : Bases \cup {"none"}]

\* A missing IRType: NULL, or an IRValue without value or address.
NoType == [dims |-> <<>>, base |-> "null"]

Scalar(b) == [dims |-> <<>>, base |-> b]
Kind(t) == IF t.dims = <<>> THEN t.base ELSE Head(t.dims).kind
Over(layer, t) == [t EXCEPT !.dims = <<layer>> \o @]
Element(t) == [t EXCEPT !.dims = Tail(@)]
Error == Scalar("error")

-----------------------------------------------------------------------------
(* Types as written.  Base "custom" is a name that is no type, and the     *)
(* element of a bare "Array".                                              *)

\* The names the parser takes for a type.
isTypeToken(base) == base \in Bases \cup {"custom"}

\* Array<T>[n] is parsed as an array of n unsized arrays of T: an unsized
\* array directly under an array with a size is skipped.
Skipped(dims, i) ==
  /\ i > 1
  /\ dims[i] = Array(Unsized)
  /\ dims[i - 1].kind = "array"
  /\ dims[i - 1].size # Unsized

Written(layer) == IF layer.size = Computed THEN Array(Unsized) ELSE layer

Collapse(dims) ==
  FlattenSeq([i \in DOMAIN dims |->
                IF Skipped(dims, i) THEN <<>> ELSE <<Written(dims[i])>>])

semanticTypeFromAst(t) ==
  [dims |-> Collapse(t.dims), base |-> IF t.base = "custom" THEN "error" ELSE t.base]

\* The layers down to the innermost array.
DownToArray(dims) ==
  {i \in DOMAIN dims : \E j \in DOMAIN dims : i <= j /\ dims[j].kind = "array"}

\* A pointer to nothing is nothing; an array of nothing is an array without
\* element type.
irBuilderTypeFromAst(t) ==
  LET dims == Collapse(t.dims)
      kept == DownToArray(dims)
  IN  IF t.base # "custom" THEN [dims |-> dims, base |-> t.base]
      ELSE IF kept = {} THEN NoType
      ELSE [dims |-> SubSeq(dims, 1, Cardinality(kept)), base |-> "none"]

\* element_type of an IRType: the array of nothing has none.
ElementType(t) == IF t.base = "none" /\ Len(t.dims) = 1 THEN NoType ELSE Element(t)

-----------------------------------------------------------------------------
(* types.c.  semanticTypeEquals is equality of types. *)

\* Mutant: the elements are not compared.
CanDecay_AnyElement(array, pointer) ==
  Kind(array) = "array" /\ Kind(pointer) = "pointer"

semanticTypeCanDecayToPointer(array, pointer) ==
  /\ Kind(array) = "array"
  /\ Kind(pointer) = "pointer"
  /\ Element(array) = Element(pointer)

\* The rules for one level of semanticTypeIsCompatibleWithDecay.
Accepts(expected, actual) ==
  \/ expected = actual
  \/ Kind(expected) = "char" /\ Kind(actual) = "int"
  \/ semanticTypeCanDecayToPointer(actual, expected)

Inner(t, n) == [t EXCEPT !.dims = SubSeq(@, n + 1, Len(@))]

\* The first n layers are arrays whose sizes, where both are known, agree.
SameArrays(expected, actual, n) ==
  \A i \in 1 .. n :
    /\ expected.dims[i].kind = "array"
    /\ actual.dims[i].kind = "array"
    /\ \/ expected.dims[i].size = actual.dims[i].size
       \/ Unsized \in {expected.dims[i].size, actual.dims[i].size}

\* The recursion through the elements of arrays ends at the first level whose
\* own rules accept.
semanticTypeIsCompatibleWithDecay(expected, actual) ==
  \E n \in 0 .. Len(expected.dims) :
    /\ n <= Len(actual.dims)
    /\ SameArrays(expected, actual, n)
    /\ Accepts(Inner(expected, n), Inner(actual, n))

semanticTypeIsNumeric(t) == Kind(t) \in {"int", "float"}
isOrderedComparableType(t) == Kind(t) \in {"int", "float", "char"}
isNonVoidPointerType(t) == Kind(t) = "pointer" /\ Kind(Element(t)) # "void"
HasArray(t) == \E i \in DOMAIN t.dims : t.dims[i].kind = "array"
HasUnsized(t) == \E i \in DOMAIN t.dims : t.dims[i] = Array(Unsized)
=============================================================================
