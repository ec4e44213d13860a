------------------------- MODULE ExpressionsProofs -------------------------
(***************************************************************************)
(* The semantic pass and the IR builder give an expression the same type,  *)
(* sizes of arrays that an initializer replaced aside, for expressions of  *)
(* every size and for all variables and functions whose types the two      *)
(* passes made from the same written ones.                                 *)
(***************************************************************************)
EXTENDS Expressions, FiniteSetTheorems, SequenceTheorems, TLAPS

-----------------------------------------------------------------------------
(* Types *)

\* The types a value or an address of the builder may have.
MaybeType == IrType \cup {NoType}

\* What is no type is no type of the builder.
LEMMA NoTypeIsNone == NoType \notin IrType /\ NoType.dims = <<>> /\ Kind(NoType) = "null"
BY DEF NoType, IrType, Bases, Kind

\* The builder's types, and those of the semantic pass.
LEMMA TypeFields ==
  /\ \A t \in IrType : t.dims \in Seq(Layer) /\ t.base \in Bases \cup {"none"}
                       /\ t = [dims |-> t.dims, base |-> t.base]
  /\ \A t \in SemType : t.dims \in Seq(Layer) /\ t.base \in Bases \cup {"error"}
                        /\ t = [dims |-> t.dims, base |-> t.base]
  /\ \A d \in Seq(Layer), b \in Bases \cup {"none"} : [dims |-> d, base |-> b] \in IrType
  /\ \A d \in Seq(Layer), b \in Bases \cup {"error"} : [dims |-> d, base |-> b] \in SemType
BY DEF IrType, SemType

\* Types without layers.
LEMMA Scalars ==
  /\ \A b \in Bases : /\ Scalar(b) \in IrType /\ Scalar(b) \in SemType
                      /\ SameShape(Scalar(b), Scalar(b)) /\ SameSizes(Scalar(b), Scalar(b))
  /\ Error \in SemType
<1>1. <<>> \in Seq(Layer) /\ Len(<<>>) = 0 /\ DOMAIN <<>> = {}
  OBVIOUS
<1>2. Error \in SemType
  BY <1>1, TypeFields DEF Scalar, Error
<1>3. ASSUME NEW b \in Bases
      PROVE  /\ Scalar(b) \in IrType /\ Scalar(b) \in SemType
             /\ SameShape(Scalar(b), Scalar(b)) /\ SameSizes(Scalar(b), Scalar(b))
  <2>1. Scalar(b).dims = <<>> /\ Scalar(b).base = b /\ b # "error"
    BY DEF Scalar, Bases
  <2>2. Scalar(b) \in IrType /\ Scalar(b) \in SemType
    BY <1>1, TypeFields DEF Scalar
  <2> QED  BY <1>1, <2>1, <2>2 DEF SameShape, SameSizes
<1> QED
  BY <1>2, <1>3

\* The outermost layer of a type.
LEMMA LayersOf ==
  ASSUME NEW t, t \in IrType \/ t \in SemType
  PROVE  /\ t.dims # <<>> => /\ Kind(t) = t.dims[1].kind /\ Kind(t) \in {"pointer", "array"}
                             /\ Len(t.dims) >= 1
         /\ t.dims = <<>> => Kind(t) = t.base /\ Kind(t) \notin {"pointer", "array"}
<1>1. t.dims \in Seq(Layer) /\ t.base \in Bases \cup {"none", "error"}
  BY TypeFields
<1>2. CASE t.dims # <<>>
  <2>1. Len(t.dims) >= 1 /\ Head(t.dims) = t.dims[1] /\ t.dims[1] \in Layer
    BY <1>1, <1>2
  <2>2. t.dims[1].kind \in {"pointer", "array"}
    BY <2>1 DEF Layer
  <2> QED  BY <1>2, <2>1, <2>2 DEF Kind
<1>3. CASE t.dims = <<>>
  BY <1>1, <1>3 DEF Kind, Bases
<1> QED
  BY <1>2, <1>3

\* The element of an array or a pointer.
LEMMA Elements ==
  ASSUME NEW t, t.dims # <<>>
  PROVE  /\ t \in IrType => Element(t) \in IrType
         /\ t \in SemType => Element(t) \in SemType
         /\ t \in IrType \/ t \in SemType =>
              /\ Element(t).base = t.base
              /\ Len(t.dims) \in Nat /\ Len(t.dims) >= 1
              /\ Len(Element(t).dims) = Len(t.dims) - 1
              /\ \A i \in 1 .. Len(t.dims) - 1 : Element(t).dims[i] = t.dims[i + 1]
<1> SUFFICES ASSUME t \in IrType \/ t \in SemType
             PROVE  /\ t \in IrType => Element(t) \in IrType
                    /\ t \in SemType => Element(t) \in SemType
                    /\ Element(t).base = t.base
                    /\ Len(t.dims) \in Nat /\ Len(t.dims) >= 1
                    /\ Len(Element(t).dims) = Len(t.dims) - 1
                    /\ \A i \in 1 .. Len(t.dims) - 1 : Element(t).dims[i] = t.dims[i + 1]
  OBVIOUS
<1>1. t.dims \in Seq(Layer) /\ t = [dims |-> t.dims, base |-> t.base]
  BY TypeFields
<1>2. Element(t) = [dims |-> Tail(t.dims), base |-> t.base]
  BY <1>1 DEF Element
<1>3. /\ Tail(t.dims) \in Seq(Layer) /\ Len(t.dims) \in Nat /\ Len(t.dims) >= 1
      /\ Len(Tail(t.dims)) = Len(t.dims) - 1
      /\ \A i \in 1 .. Len(t.dims) - 1 : Tail(t.dims)[i] = t.dims[i + 1]
  BY <1>1, HeadTailProperties
<1>4. Element(t).dims = Tail(t.dims) /\ Element(t).base = t.base
  BY <1>2
<1>5. t \in IrType => Element(t) \in IrType
  BY <1>2, <1>3, TypeFields
<1>6. t \in SemType => Element(t) \in SemType
  BY <1>2, <1>3, TypeFields
<1> QED
  BY <1>3, <1>4, <1>5, <1>6

\* A layer more.
LEMMA Overs ==
  ASSUME NEW t, NEW layer \in Layer
  PROVE  /\ t \in IrType => Over(layer, t) \in IrType
         /\ t \in SemType => Over(layer, t) \in SemType
         /\ t \in IrType \/ t \in SemType =>
              /\ Over(layer, t).base = t.base
              /\ Len(t.dims) \in Nat /\ Len(Over(layer, t).dims) = Len(t.dims) + 1
              /\ Over(layer, t).dims[1] = layer
              /\ \A i \in 1 .. Len(t.dims) : Over(layer, t).dims[i + 1] = t.dims[i]
              /\ Over(layer, t).dims # <<>>
<1> SUFFICES ASSUME t \in IrType \/ t \in SemType
             PROVE  /\ t \in IrType => Over(layer, t) \in IrType
                    /\ t \in SemType => Over(layer, t) \in SemType
                    /\ Over(layer, t).base = t.base
                    /\ Len(t.dims) \in Nat /\ Len(Over(layer, t).dims) = Len(t.dims) + 1
                    /\ Over(layer, t).dims[1] = layer
                    /\ \A i \in 1 .. Len(t.dims) : Over(layer, t).dims[i + 1] = t.dims[i]
                    /\ Over(layer, t).dims # <<>>
  OBVIOUS
<1> PICK d : d = t.dims
  OBVIOUS
<1>1. d \in Seq(Layer) /\ t = [dims |-> d, base |-> t.base]
  BY TypeFields
<1> PICK o : o = <<layer>> \o d
  OBVIOUS
<1>2. Over(layer, t) = [dims |-> o, base |-> t.base]
  <2>1. Over(layer, t) = [t EXCEPT !.dims = o]
    BY DEF Over
  <2>2. \A b, c : [[dims |-> d, base |-> b] EXCEPT !.dims = c] = [dims |-> c, base |-> b]
    OBVIOUS
  <2> QED  BY <1>1, <2>1, <2>2
<1>3. /\ o \in Seq(Layer) /\ Len(d) \in Nat /\ Len(o) = Len(d) + 1 /\ o[1] = layer
      /\ \A i \in 1 .. Len(d) : o[i + 1] = d[i]
  <2>1. <<layer>> \in Seq(Layer) /\ Len(<<layer>>) = 1 /\ <<layer>>[1] = layer
    OBVIOUS
  <2>2. o \in Seq(Layer) /\ Len(d) \in Nat /\ Len(o) = 1 + Len(d)
    BY <1>1, <2>1
  <2>3. o[1] = layer
    BY <1>1, <2>1, <2>2
  <2>4. ASSUME NEW i \in 1 .. Len(d)
        PROVE  o[i + 1] = d[i]
    <3>1. i + 1 \in 1 .. Len(o) /\ i + 1 > 1 /\ i + 1 - 1 = i
      BY <2>2
    <3> QED  BY <1>1, <2>1, <2>2, <3>1
  <2> QED  BY <2>2, <2>3, <2>4
<1>4. o # <<>>
  BY <1>3
<1>5. Over(layer, t).dims = o /\ Over(layer, t).base = t.base
  BY <1>2
<1>6. t \in IrType => Over(layer, t) \in IrType
  BY <1>2, <1>3, TypeFields
<1>7. t \in SemType => Over(layer, t) \in SemType
  BY <1>2, <1>3, TypeFields
<1> QED
  BY <1>3, <1>4, <1>5, <1>6, <1>7

\* A pointer is a layer, and an array without size.
LEMMA Layers == Pointer \in Layer /\ Array(Unsized) \in Layer
BY DEF Pointer, Array, Layer, Unsized

\* The layers of two types of the same shape.
LEMMA ShapeLayers ==
  ASSUME NEW ir \in IrType, NEW sem \in SemType
  PROVE  /\ DOMAIN ir.dims = 1 .. Len(ir.dims) /\ Len(ir.dims) \in Nat
         /\ DOMAIN sem.dims = 1 .. Len(sem.dims) /\ Len(sem.dims) \in Nat
         /\ ir.dims = <<>> <=> Len(ir.dims) = 0
         /\ sem.dims = <<>> <=> Len(sem.dims) = 0
<1>1. ir.dims \in Seq(Layer) /\ sem.dims \in Seq(Layer)
  BY TypeFields
<1> QED
  BY <1>1, EmptySeq

\* Types of the same shape have the same outermost layer.
LEMMA ShapeKind ==
  ASSUME NEW ir \in IrType, NEW sem \in SemType, SameShape(ir, sem)
  PROVE  Kind(ir) = Kind(sem) /\ (ir.dims = <<>> <=> sem.dims = <<>>)
<1>1. /\ \A i \in DOMAIN ir.dims : i \in DOMAIN sem.dims /\ ir.dims[i].kind = sem.dims[i].kind
      /\ sem.base = "error" => ir.dims # <<>>
      /\ sem.base # "error" => ir.base = sem.base /\ Len(ir.dims) = Len(sem.dims)
  BY DEF SameShape
<1>2. CASE ir.dims = <<>>
  <2>1. sem.dims = <<>> /\ ir.base = sem.base
    BY <1>1, <1>2, ShapeLayers
  <2> QED  BY <1>2, <2>1, LayersOf
<1>3. CASE ir.dims # <<>>
  <2>1. 1 \in DOMAIN ir.dims
    BY <1>3, ShapeLayers
  <2>2. 1 \in DOMAIN sem.dims /\ ir.dims[1].kind = sem.dims[1].kind
    BY <1>1, <2>1
  <2>3. sem.dims # <<>>
    BY <2>2, ShapeLayers
  <2> QED  BY <1>3, <2>2, <2>3, LayersOf
<1> QED
  BY <1>2, <1>3

\* The element of a type of the builder, when there is one.
LEMMA ElementTypes ==
  ASSUME NEW t \in IrType, t.dims # <<>>
  PROVE  /\ ElementType(t) = NoType \/ ElementType(t) = Element(t)
         /\ ElementType(t) \in MaybeType
         /\ ElementType(t) # NoType /\ t.base = "none" => Len(t.dims) > 1
<1>1. Element(t) \in IrType /\ Element(t) # NoType /\ Len(t.dims) \in Nat /\ Len(t.dims) >= 1
  BY Elements, NoTypeIsNone
<1>2. CASE t.base = "none" /\ Len(t.dims) = 1
  <2>1. ElementType(t) = NoType
    BY <1>2 DEF ElementType
  <2>2. NoType \in MaybeType
    BY DEF MaybeType
  <2> QED  BY <2>1, <2>2
<1>3. CASE ~(t.base = "none" /\ Len(t.dims) = 1)
  <2>1. ElementType(t) = Element(t)
    BY <1>3 DEF ElementType
  <2>2. Element(t) \in MaybeType
    BY <1>1 DEF MaybeType
  <2>3. t.base = "none" => Len(t.dims) > 1
    <3>1. \A n \in Nat : n >= 1 /\ n # 1 => n > 1
      OBVIOUS
    <3>2. t.base = "none" => Len(t.dims) # 1
      BY <1>3
    <3> QED  BY <1>1, <3>1, <3>2, Zenon
  <2> QED  BY <2>1, <2>2, <2>3
<1> QED
  BY <1>2, <1>3

\* Their elements have the same shape.
LEMMA ShapeElement ==
  ASSUME NEW ir \in IrType, NEW sem \in SemType, SameShape(ir, sem), ir.dims # <<>>,
         ElementType(ir) # NoType
  PROVE  SameShape(Element(ir), Element(sem))
<1> PICK n : n = Len(ir.dims)
  OBVIOUS
<1> PICK m : m = Len(sem.dims)
  OBVIOUS
<1>1. /\ \A i \in DOMAIN ir.dims : i \in DOMAIN sem.dims /\ ir.dims[i].kind = sem.dims[i].kind
      /\ sem.base = "error" => ir.base = "none"
      /\ sem.base # "error" => ir.base = sem.base /\ n = m
  BY DEF SameShape
<1>2. sem.dims # <<>>
  BY ShapeKind
<1>3. n \in Nat /\ m \in Nat /\ DOMAIN ir.dims = 1 .. n /\ DOMAIN sem.dims = 1 .. m
  BY ShapeLayers
<1>4. /\ Element(ir) \in IrType /\ Element(ir).base = ir.base /\ Len(Element(ir).dims) = n - 1
      /\ n >= 1 /\ \A i \in 1 .. n - 1 : Element(ir).dims[i] = ir.dims[i + 1]
  BY Elements
<1>5. /\ Element(sem) \in SemType /\ Element(sem).base = sem.base /\ Len(Element(sem).dims) = m - 1
      /\ m >= 1 /\ \A i \in 1 .. m - 1 : Element(sem).dims[i] = sem.dims[i + 1]
  BY <1>2, Elements
<1>6. DOMAIN Element(ir).dims = 1 .. n - 1 /\ DOMAIN Element(sem).dims = 1 .. m - 1
  BY <1>4, <1>5, ShapeLayers
<1>7. ASSUME NEW i \in DOMAIN Element(ir).dims
      PROVE  i \in DOMAIN Element(sem).dims /\ Element(ir).dims[i].kind = Element(sem).dims[i].kind
  <2>1. i \in 1 .. n - 1 /\ i + 1 \in 1 .. n
    BY <1>3, <1>6
  <2>2. i + 1 \in 1 .. m /\ ir.dims[i + 1].kind = sem.dims[i + 1].kind
    BY <1>1, <1>3, <2>1
  <2>3. i \in 1 .. m - 1
    BY <1>3, <2>1, <2>2
  <2> QED  BY <1>4, <1>5, <1>6, <2>1, <2>2, <2>3
<1>8. sem.base = "error" => Element(ir).dims # <<>>
  <2>1. sem.base = "error" => n > 1
    BY <1>1, ElementTypes
  <2> QED  BY <1>3, <1>4, <1>5, <2>1, ShapeLayers
<1> QED
  BY <1>1, <1>4, <1>5, <1>7, <1>8 DEF SameShape

\* And the same sizes.
LEMMA SizesElement ==
  ASSUME NEW ir \in IrType, NEW sem \in SemType, SameShape(ir, sem), SameSizes(ir, sem),
         ir.dims # <<>>
  PROVE  SameSizes(Element(ir), Element(sem))
<1> PICK n : n = Len(ir.dims)
  OBVIOUS
<1> PICK m : m = Len(sem.dims)
  OBVIOUS
<1>1. \A i \in DOMAIN ir.dims : /\ i \in DOMAIN sem.dims
                                /\ sem.dims[i] = Array(Unsized) \/ ir.dims[i] = sem.dims[i]
  BY DEF SameShape, SameSizes
<1>2. sem.dims # <<>>
  BY ShapeKind
<1>3. n \in Nat /\ m \in Nat /\ DOMAIN ir.dims = 1 .. n /\ DOMAIN sem.dims = 1 .. m
  BY ShapeLayers
<1>4. /\ Element(ir) \in IrType /\ Len(Element(ir).dims) = n - 1 /\ n >= 1
      /\ \A i \in 1 .. n - 1 : Element(ir).dims[i] = ir.dims[i + 1]
  BY Elements
<1>5. /\ Element(sem) \in SemType
      /\ \A i \in 1 .. m - 1 : Element(sem).dims[i] = sem.dims[i + 1]
  BY <1>2, Elements
<1>6. DOMAIN Element(ir).dims = 1 .. n - 1
  BY <1>4, <1>5, ShapeLayers
<1>7. ASSUME NEW i \in DOMAIN Element(ir).dims
      PROVE  Element(sem).dims[i] = Array(Unsized) \/ Element(ir).dims[i] = Element(sem).dims[i]
  <2>1. i \in 1 .. n - 1 /\ i + 1 \in 1 .. n
    BY <1>3, <1>6
  <2>2. i + 1 \in 1 .. m /\ (sem.dims[i + 1] = Array(Unsized) \/ ir.dims[i + 1] = sem.dims[i + 1])
    BY <1>1, <1>3, <2>1
  <2>3. i \in 1 .. m - 1
    BY <1>3, <2>1, <2>2
  <2> QED  BY <1>4, <1>5, <2>1, <2>2, <2>3
<1> QED
  BY <1>7 DEF SameSizes

\* So do pointers to them.
LEMMA PointersTo ==
  ASSUME NEW ir \in IrType, NEW sem \in SemType, SameShape(ir, sem)
  PROVE  /\ SameShape(Over(Pointer, ir), Over(Pointer, sem))
         /\ SameSizes(ir, sem) => SameSizes(Over(Pointer, ir), Over(Pointer, sem))
<1> PICK n : n = Len(ir.dims)
  OBVIOUS
<1> PICK m : m = Len(sem.dims)
  OBVIOUS
<1> PICK p : p = Over(Pointer, ir)
  OBVIOUS
<1> PICK q : q = Over(Pointer, sem)
  OBVIOUS
<1>1. /\ \A i \in DOMAIN ir.dims : i \in DOMAIN sem.dims /\ ir.dims[i].kind = sem.dims[i].kind
      /\ sem.base = "error" => ir.base = "none"
      /\ sem.base # "error" => ir.base = sem.base /\ n = m
  BY DEF SameShape
<1>2. n \in Nat /\ m \in Nat /\ DOMAIN ir.dims = 1 .. n /\ DOMAIN sem.dims = 1 .. m
  BY ShapeLayers
<1>3. /\ p \in IrType /\ p.base = ir.base /\ Len(p.dims) = n + 1 /\ p.dims[1] = Pointer
      /\ p.dims # <<>> /\ \A i \in 1 .. n : p.dims[i + 1] = ir.dims[i]
  BY Layers, Overs
<1>4. /\ q \in SemType /\ q.base = sem.base /\ Len(q.dims) = m + 1 /\ q.dims[1] = Pointer
      /\ \A i \in 1 .. m : q.dims[i + 1] = sem.dims[i]
  BY Layers, Overs
<1>5. DOMAIN p.dims = 1 .. n + 1 /\ DOMAIN q.dims = 1 .. m + 1
  BY <1>3, <1>4, ShapeLayers
<1>6. ASSUME NEW i \in DOMAIN p.dims
      PROVE  /\ i \in DOMAIN q.dims /\ p.dims[i].kind = q.dims[i].kind
             /\ SameSizes(ir, sem) => q.dims[i] = Array(Unsized) \/ p.dims[i] = q.dims[i]
  <2>1. CASE i = 1
    BY <1>2, <1>3, <1>4, <1>5, <2>1
  <2>2. CASE i # 1
    <3> PICK j : j = i - 1
      OBVIOUS
    <3>1. j \in 1 .. n /\ i = j + 1
      BY <1>2, <1>5, <2>2
    <3>2. j \in 1 .. m /\ ir.dims[j].kind = sem.dims[j].kind
      BY <1>1, <1>2, <3>1
    <3>3. SameSizes(ir, sem) => sem.dims[j] = Array(Unsized) \/ ir.dims[j] = sem.dims[j]
      BY <1>2, <3>1 DEF SameSizes
    <3>4. p.dims[j + 1] = ir.dims[j] /\ q.dims[j + 1] = sem.dims[j]
      BY <1>3, <1>4, <3>1, <3>2
    <3>5. i \in 1 .. m + 1
      BY <1>2, <3>1, <3>2
    <3> QED  BY <1>5, <3>1, <3>2, <3>3, <3>4, <3>5
  <2> QED  BY <2>1, <2>2
<1>7. SameShape(p, q)
  BY <1>1, <1>3, <1>4, <1>6 DEF SameShape
<1>8. SameSizes(ir, sem) => SameSizes(p, q)
  BY <1>6 DEF SameSizes
<1> QED
  BY <1>7, <1>8

\* The two readings of a type as written.
LEMMA TypesAsWritten ==
  ASSUME NEW t, t.base \in Bases \cup {"custom"}, semanticTypeFromAst(t) \in SemType,
         irBuilderTypeFromAst(t) # NoType
  PROVE  /\ irBuilderTypeFromAst(t) \in IrType
         /\ SameShape(irBuilderTypeFromAst(t), semanticTypeFromAst(t))
         /\ SameSizes(irBuilderTypeFromAst(t), semanticTypeFromAst(t))
<1> PICK sem : sem = semanticTypeFromAst(t)
  OBVIOUS
<1> PICK ir : ir = irBuilderTypeFromAst(t)
  OBVIOUS
<1> PICK d : d = Collapse(t.dims)
  OBVIOUS
<1>1. sem = [dims |-> d, base |-> IF t.base = "custom" THEN "error" ELSE t.base]
  BY DEF semanticTypeFromAst
<1>2. d \in Seq(Layer) /\ sem.dims = d
  BY <1>1, TypeFields
<1>3. Len(d) \in Nat /\ DOMAIN d = 1 .. Len(d)
  BY <1>2
<1>4. CASE t.base # "custom"
  <2>1. ir = [dims |-> d, base |-> t.base] /\ sem = ir /\ t.base \in Bases /\ t.base # "error"
    BY <1>1, <1>4 DEF irBuilderTypeFromAst, Bases
  <2>2. ir \in IrType
    BY <1>2, <2>1, TypeFields
  <2> QED  BY <2>1, <2>2 DEF SameShape, SameSizes
<1>5. CASE t.base = "custom"
  <2> PICK K : K = DownToArray(d)
    OBVIOUS
  <2> PICK n : n = Cardinality(K)
    OBVIOUS
  <2>1. K # {} /\ ir = [dims |-> SubSeq(d, 1, n), base |-> "none"]
    BY <1>5 DEF irBuilderTypeFromAst
  <2>2. n \in 1 .. Len(d)
    <3>1. K \subseteq 1 .. Len(d)
      BY <1>3 DEF DownToArray
    <3>2. IsFiniteSet(1 .. Len(d)) /\ Cardinality(1 .. Len(d)) = Len(d)
      <4>1. 1 \in Int /\ Len(d) \in Int /\ (1 > Len(d) => Len(d) = 0) /\ Len(d) - 1 + 1 = Len(d)
        BY <1>3
      <4> QED  BY <4>1, FS_Interval
    <3>3. IsFiniteSet(K) /\ n <= Len(d) /\ n \in Nat
      BY <3>1, <3>2, FS_Subset, FS_CardinalityType
    <3>4. n # 0
      BY <2>1, <3>3, FS_EmptySet
    <3> QED  BY <1>3, <3>3, <3>4
  <2>3. /\ SubSeq(d, 1, n) \in Seq(Layer) /\ Len(SubSeq(d, 1, n)) = n
        /\ \A i \in 1 .. n : SubSeq(d, 1, n)[i] = d[i]
    BY <1>2, <1>3, <2>2
  <2> PICK k : k = SubSeq(d, 1, n)
    OBVIOUS
  <2>4. ir \in IrType /\ ir.base = "none" /\ ir.dims = k
    <3>1. ir = [dims |-> k, base |-> "none"] /\ k \in Seq(Layer)
      BY <2>1, <2>3
    <3>2. [dims |-> k, base |-> "none"] \in IrType
      BY <3>1, TypeFields
    <3>3. ir.base = "none" /\ ir.dims = k
      BY <3>1
    <3> QED  BY <3>1, <3>2, <3>3
  <2>5. DOMAIN ir.dims = 1 .. n /\ ir.dims # <<>> /\ sem.base = "error"
    BY <1>1, <1>5, <2>2, <2>3, <2>4
  <2>6. \A i \in DOMAIN ir.dims : i \in DOMAIN sem.dims /\ ir.dims[i] = sem.dims[i]
    BY <1>2, <1>3, <2>2, <2>3, <2>4, <2>5
  <2> QED  BY <2>4, <2>5, <2>6 DEF SameShape, SameSizes
<1> QED
  BY <1>4, <1>5

-----------------------------------------------------------------------------
(* Nodes *)

\* A record with the fields of a value or an address.
IsLowered(v) ==
  v = [type |-> v.type, calls |-> v.calls, good |-> v.good] /\ v.type \in MaybeType

\* What the two passes make of one node agrees.
Agrees(e) ==
  /\ e.ok /\ e.r.type # NoType /\ e.kind # "string" => Fits(e.r.type, e)
  /\ (e.ok \/ e.okT) /\ e.l.type # NoType => Fits(e.l.type, e)

\* What is needed of the children of a node.  A string has no address, and is an
\* array for the semantic pass.
Sound(e) ==
  /\ e.sem \in SemType /\ IsLowered(e.r) /\ IsLowered(e.l)
  /\ e.kind = "string" => Kind(e.sem) = "array"
  /\ Agrees(e)

\* The types of two nodes whose sizes were replaced together.
LEMMA FitsAs ==
  ASSUME NEW t, NEW e, SameShape(t, e.sem), ~e.resized => SameSizes(t, e.sem)
  PROVE  Fits(t, e)
BY DEF Fits

\* A value that is given another type.
LEMMA Retyped ==
  \A x, y, z, w : [[type |-> x, calls |-> y, good |-> z] EXCEPT !.type = w]
                    = [type |-> w, calls |-> y, good |-> z]
OBVIOUS

\* No value and no address.
LEMMA NothingLowered ==
  /\ Nothing.type = NoType /\ IsLowered(Nothing)
  /\ \A t \in IrType : Value(t).type = t /\ IsLowered(Value(t))
  /\ \A t \in IrType : Loaded(t).type = t /\ IsLowered(Loaded(t))
<1>1. Nothing.type = NoType /\ IsLowered(Nothing)
  BY DEF Nothing, IsLowered, MaybeType
<1>2. ASSUME NEW t \in IrType
      PROVE  Value(t).type = t /\ IsLowered(Value(t))
  <2>1. Value(t) = [type |-> t, calls |-> <<>>, good |-> TRUE]
    <3>1. Value(t) = [[type |-> NoType, calls |-> <<>>, good |-> TRUE] EXCEPT !.type = t]
      BY DEF Value, Nothing
    <3> QED  BY <3>1, Retyped
  <2> QED  BY <2>1 DEF IsLowered, MaybeType
<1>3. ASSUME NEW t \in IrType
      PROVE  Loaded(t).type = t /\ IsLowered(Loaded(t))
  <2>1. \A g : [[type |-> t, calls |-> <<>>, good |-> TRUE] EXCEPT !.good = g]
                = [type |-> t, calls |-> <<>>, good |-> g]
    OBVIOUS
  <2>2. Value(t) = [type |-> t, calls |-> <<>>, good |-> TRUE]
    <3>1. Value(t) = [[type |-> NoType, calls |-> <<>>, good |-> TRUE] EXCEPT !.type = t]
      BY DEF Value, Nothing
    <3> QED  BY <3>1, Retyped
  <2>3. Loaded(t) = [type |-> t, calls |-> <<>>, good |-> Typed(t)]
    BY <2>1, <2>2 DEF Loaded
  <2> QED  BY <2>3 DEF IsLowered, MaybeType
<1> QED
  BY <1>1, <1>2, <1>3

\* A node without value and address.
LEMMA SoundNothing ==
  ASSUME NEW e, e.sem \in SemType, e.r = Nothing, e.l = Nothing, e.kind # "string"
  PROVE  Sound(e)
BY NothingLowered DEF Sound, Agrees

\* Literals and names.
LEMMA LeavesSound ==
  /\ \A b \in Bases : Sound(Literal(b))
  /\ Sound(StringLiteral) /\ Sound(Undeclared)
  /\ \A x \in Vars : Sound(Identifier(x))
<1>1. ASSUME NEW b \in Bases
      PROVE  Sound(Literal(b))
  <2> PICK e : e = Literal(b)
    OBVIOUS
  <2>1. /\ e.kind = "value" /\ e.sem = Scalar(b) /\ e.r = Value(Scalar(b)) /\ e.l = Nothing
    BY DEF Literal, Leaf
  <2>2. Fits(Scalar(b), e)
    BY <2>1, Scalars, FitsAs
  <2> QED  BY <2>1, <2>2, Scalars, NothingLowered DEF Sound, Agrees
<1>2. Sound(StringLiteral)
  <2> PICK e : e = StringLiteral
    OBVIOUS
  <2>1. /\ e.kind = "string" /\ e.sem = Over(Array(StringSize), Scalar("char"))
        /\ e.r = Value(Over(Pointer, Scalar("char"))) /\ e.l = Nothing
    BY DEF StringLiteral, Leaf
  <2>2. Array(StringSize) \in Layer /\ Array(StringSize).kind = "array"
    BY StringSizeAssumption DEF Array, Layer
  <2>3. "char" \in Bases
    BY DEF Bases
  <2>4. /\ e.sem \in SemType /\ e.sem.dims[1] = Array(StringSize) /\ e.sem.dims # <<>>
        /\ Over(Pointer, Scalar("char")) \in IrType
    BY <2>1, <2>2, <2>3, Scalars, Layers, Overs
  <2>5. Kind(e.sem) = "array"
    BY <2>2, <2>4, LayersOf
  <2> QED  BY <2>1, <2>4, <2>5, NothingLowered DEF Sound, Agrees
<1>3. Sound(Undeclared)
  <2>1. /\ Undeclared.kind = "identifier" /\ Undeclared.sem = Error
        /\ Undeclared.r = Nothing /\ Undeclared.l = Nothing
    BY DEF Undeclared, Leaf
  <2> QED  BY <2>1, Scalars, SoundNothing
<1>4. ASSUME NEW x \in Vars
      PROVE  Sound(Identifier(x))
  <2> PICK e : e = Identifier(x)
    OBVIOUS
  <2>1. /\ e.kind = "identifier" /\ e.sem = SemOf[x]
        /\ e.r = Loaded(IrOf[x]) /\ e.l = Loaded(IrOf[x])
        /\ ~e.resized => SameSizes(IrOf[x], SemOf[x])
    BY DEF Identifier, Leaf
  <2>2. SemOf[x] \in SemType /\ IrOf[x] \in IrType /\ SameShape(IrOf[x], SemOf[x])
    BY VarsAssumption
  <2>3. Fits(IrOf[x], e)
    BY <2>1, <2>2, FitsAs
  <2> QED  BY <2>1, <2>2, <2>3, NothingLowered DEF Sound, Agrees
<1> QED
  BY <1>1, <1>2, <1>3, <1>4

\* A result of a lowering that is given another type.
LEMMA LoweredRetyped ==
  ASSUME NEW v, IsLowered(v), NEW t \in MaybeType
  PROVE  [v EXCEPT !.type = t].type = t /\ IsLowered([v EXCEPT !.type = t])
<1>1. v = [type |-> v.type, calls |-> v.calls, good |-> v.good]
  BY DEF IsLowered
<1>2. [v EXCEPT !.type = t] = [type |-> t, calls |-> v.calls, good |-> v.good]
  BY <1>1, Retyped
<1> QED
  BY <1>2 DEF IsLowered

\* And one that is found to be ill typed.
LEMMA LoweredJudged ==
  ASSUME NEW v, IsLowered(v), NEW g
  PROVE  [v EXCEPT !.good = g].type = v.type /\ IsLowered([v EXCEPT !.good = g])
<1>1. v = [type |-> v.type, calls |-> v.calls, good |-> v.good] /\ v.type \in MaybeType
  BY DEF IsLowered
<1>2. \A x, y, z : [[type |-> x, calls |-> y, good |-> z] EXCEPT !.good = g]
                     = [type |-> x, calls |-> y, good |-> g]
  OBVIOUS
<1>3. [v EXCEPT !.good = g] = [type |-> v.type, calls |-> v.calls, good |-> g]
  BY <1>1, <1>2
<1> QED
  BY <1>1, <1>3 DEF IsLowered

\* The type a lowering has, when it has one.
LEMMA LoweredType ==
  ASSUME NEW v, IsLowered(v), v.type # NoType
  PROVE  v.type \in IrType
BY DEF IsLowered, MaybeType

\* checkArrayAccess and irBuilderLowerArrayAccess.
LEMMA AccessSound ==
  ASSUME NEW b, NEW i, Sound(b), Sound(i)
  PROVE  Sound(ArrayAccess(b, i))
<1> PICK e : e = ArrayAccess(b, i)
  OBVIOUS
<1> PICK v : v = irBuilderLowerArrayAccess(b, i)
  OBVIOUS
<1>1. /\ e.kind = "access" /\ e.r = v /\ e.l = v
      /\ e.sem = IF Kind(b.sem) \in {"array", "pointer"} THEN Element(b.sem) ELSE Error
      /\ e.ok \/ e.okT => b.ok /\ Kind(b.sem) \in {"array", "pointer"}
      /\ ~e.resized => ~b.resized
  BY DEF ArrayAccess, Leaf, checkArrayAccess
<1>2. /\ b.sem \in SemType /\ IsLowered(b.l)
      /\ b.ok /\ b.l.type # NoType => Fits(b.l.type, b)
  BY DEF Sound, Agrees
<1>3. e.sem \in SemType
  <2>1. CASE Kind(b.sem) \in {"array", "pointer"}
    <3>1. b.sem.dims # <<>>
      BY <1>2, <2>1, LayersOf
    <3> QED  BY <1>1, <1>2, <2>1, <3>1, Elements
  <2>2. CASE Kind(b.sem) \notin {"array", "pointer"}
    BY <1>1, <2>2, Scalars
  <2> QED  BY <2>1, <2>2
<1>4. /\ v = [type |-> v.type, calls |-> v.calls, good |-> v.good]
      /\ v.type # NoType => /\ Kind(b.l.type) = "array" /\ v.type = Element(b.l.type)
                            /\ ElementType(b.l.type) # NoType
  BY DEF irBuilderLowerArrayAccess
<1>5. Kind(b.l.type) = "array" => b.l.type \in IrType /\ b.l.type.dims # <<>> /\ b.l.type # NoType
  <2>1. b.l.type \in IrType \cup {NoType}
    BY <1>2 DEF IsLowered, MaybeType
  <2> QED  BY <2>1, NoTypeIsNone, LayersOf
<1>6. v.type # NoType => v.type \in IrType
  BY <1>4, <1>5, Elements
<1>7. IsLowered(v)
  BY <1>4, <1>6 DEF IsLowered, MaybeType
<1>8. ASSUME e.ok \/ e.okT, v.type # NoType
      PROVE  Fits(v.type, e)
  <2>1. /\ b.l.type \in IrType /\ b.l.type.dims # <<>> /\ ElementType(b.l.type) # NoType
        /\ SameShape(b.l.type, b.sem) /\ (~e.resized => SameSizes(b.l.type, b.sem))
    BY <1>1, <1>2, <1>4, <1>5, <1>8 DEF Fits
  <2>2. SameShape(Element(b.l.type), Element(b.sem))
    BY <1>2, <2>1, ShapeElement
  <2>3. ~e.resized => SameSizes(Element(b.l.type), Element(b.sem))
    BY <1>2, <2>1, SizesElement
  <2>4. v.type = Element(b.l.type) /\ e.sem = Element(b.sem)
    BY <1>1, <1>4, <1>8
  <2> QED  BY <2>2, <2>3, <2>4, FitsAs
<1> QED
  BY <1>1, <1>3, <1>7, <1>8 DEF Sound, Agrees

\* The parts of a unary operation.
LEMMA UnaryFields ==
  ASSUME NEW op, NEW e
  PROVE  /\ Unary(op, e).kind # "string"
         /\ Unary(op, e).sem = checkUnary(op, e).sem
         /\ Unary(op, e).ok = checkUnary(op, e).ok
         /\ Unary(op, e).okT => op = "deref" /\ e.ok /\ Kind(e.sem) \in {"pointer", "error"}
         /\ Unary(op, e).r = irBuilderLowerUnaryRValue(op, e)
         /\ op = "deref" => Unary(op, e).l = LowerDereference(e)
         /\ op # "deref" => Unary(op, e).l = Nothing
         /\ ~Unary(op, e).resized => ~e.resized
BY DEF Unary, Leaf

\* The pointer that a dereference follows.
LEMMA DereferenceSound ==
  ASSUME NEW e, Sound(e)
  PROVE  /\ IsLowered(LowerDereference(e))
         /\ LowerDereference(e).type # NoType =>
              Kind(e.r.type) = "pointer" /\ LowerDereference(e).type = Element(e.r.type)
         /\ LowerDereference(e).type # NoType /\ e.ok /\ e.kind # "string" =>
              /\ Kind(e.sem) = "pointer" /\ SameShape(LowerDereference(e).type, Element(e.sem))
              /\ ~e.resized => SameSizes(LowerDereference(e).type, Element(e.sem))
<1> PICK v : v = LowerDereference(e)
  OBVIOUS
<1> PICK t : t = IF Kind(e.r.type) = "pointer" THEN ElementType(e.r.type) ELSE NoType
  OBVIOUS
<1>1. v = [e.r EXCEPT !.type = t]
  BY DEF LowerDereference
<1>2. /\ e.sem \in SemType /\ IsLowered(e.r) /\ (e.kind = "string" => Kind(e.sem) = "array")
      /\ e.ok /\ e.r.type # NoType /\ e.kind # "string" => Fits(e.r.type, e)
  BY DEF Sound, Agrees
<1>3. Kind(e.r.type) = "pointer" => e.r.type \in IrType /\ e.r.type.dims # <<>> /\ e.r.type # NoType
  <2>1. e.r.type \in IrType \cup {NoType}
    BY <1>2 DEF IsLowered, MaybeType
  <2> QED  BY <2>1, NoTypeIsNone, LayersOf
<1>4. t \in MaybeType /\ (t # NoType => Kind(e.r.type) = "pointer" /\ t = Element(e.r.type))
  BY <1>3, ElementTypes DEF MaybeType
<1>5. IsLowered(v) /\ v.type = t
  <2>1. IsLowered([e.r EXCEPT !.type = t]) /\ [e.r EXCEPT !.type = t].type = t
    BY <1>2, <1>4, LoweredRetyped
  <2> QED  BY <1>1, <2>1
<1>6. ASSUME t # NoType, e.ok, e.kind # "string"
      PROVE  /\ Kind(e.sem) = "pointer" /\ SameShape(t, Element(e.sem))
             /\ ~e.resized => SameSizes(t, Element(e.sem))
  <2>1. /\ Kind(e.r.type) = "pointer" /\ t = Element(e.r.type)
        /\ ElementType(e.r.type) # NoType
    BY <1>4, <1>6
  <2>2. /\ e.r.type \in IrType /\ e.r.type.dims # <<>> /\ SameShape(e.r.type, e.sem)
        /\ ~e.resized => SameSizes(e.r.type, e.sem)
    BY <1>2, <1>3, <1>6, <2>1 DEF Fits
  <2>3. Kind(e.sem) = "pointer"
    BY <1>2, <2>1, <2>2, ShapeKind
  <2> QED  BY <1>2, <2>1, <2>2, <2>3, ShapeElement, SizesElement
<1> QED
  BY <1>4, <1>5, <1>6

\* The address of a name or an element.
LEMMA AddressSound ==
  ASSUME NEW e, Sound(e)
  PROVE  Sound(Unary("address", e))
<1> PICK u : u = Unary("address", e)
  OBVIOUS
<1> PICK t : t = IF e.l.type = NoType THEN e.l.type ELSE Over(Pointer, e.l.type)
  OBVIOUS
<1>1. /\ u.kind # "string" /\ u.l = Nothing /\ ~u.okT
      /\ u.sem = checkUnary("address", e).sem
      /\ u.ok = checkUnary("address", e).ok
      /\ u.r = irBuilderLowerUnaryRValue("address", e)
      /\ ~u.resized => ~e.resized
  BY UnaryFields
<1>2. /\ e.sem \in SemType /\ IsLowered(e.l)
      /\ e.okT /\ e.l.type # NoType => Fits(e.l.type, e)
  BY DEF Sound, Agrees
<1>3. checkUnary("address", e).ok => isAddressableExpression(e) /\ e.okT
  BY DEF checkUnary
<1>4. checkUnary("address", e).sem =
        IF isAddressableExpression(e)
        THEN IF e.sem = Error THEN Error ELSE Over(Pointer, e.sem)
        ELSE Error
  BY DEF checkUnary
<1>5. u.sem \in SemType
  BY <1>1, <1>2, <1>4, Scalars, Layers, Overs
<1>6. u.r = [e.l EXCEPT !.type = t]
  <2>1. u.r = LowerAddress(e)
    BY <1>1 DEF irBuilderLowerUnaryRValue
  <2> QED  BY <2>1 DEF LowerAddress
<1>7. t \in MaybeType
  BY <1>2, LoweredType, Layers, Overs DEF MaybeType
<1>8. IsLowered(u.r) /\ u.r.type = t
  <2>1. IsLowered([e.l EXCEPT !.type = t]) /\ [e.l EXCEPT !.type = t].type = t
    BY <1>2, <1>7, LoweredRetyped
  <2> QED  BY <1>6, <2>1
<1>9. ASSUME u.ok, t # NoType
      PROVE  Fits(t, u)
  <2>1. e.l.type # NoType /\ t = Over(Pointer, e.l.type)
    BY <1>9
  <2>2. e.l.type \in IrType
    BY <1>2, <2>1, LoweredType
  <2>3. SameShape(e.l.type, e.sem) /\ (~u.resized => SameSizes(e.l.type, e.sem))
    BY <1>1, <1>2, <1>3, <1>9, <2>1 DEF Fits
  <2>4. e.sem # Error
    <3>1. Error.dims = <<>> /\ Error.base = "error"
      BY DEF Error, Scalar
    <3>2. e.sem.base = "error" => e.l.type.dims # <<>>
      BY <2>3 DEF SameShape
    <3>3. e.l.type.dims = <<>> <=> e.sem.dims = <<>>
      BY <1>2, <2>2, <2>3, ShapeKind
    <3> QED  BY <3>1, <3>2, <3>3
  <2>5. u.sem = Over(Pointer, e.sem)
    BY <1>1, <1>3, <1>4, <1>9, <2>4
  <2>6. SameShape(t, u.sem) /\ (~u.resized => SameSizes(t, u.sem))
    BY <1>2, <2>1, <2>2, <2>3, <2>5, PointersTo
  <2> QED  BY <2>6, FitsAs
<1> QED
  BY <1>1, <1>5, <1>8, <1>9, NothingLowered DEF Sound, Agrees

\* What a pointer points to.
LEMMA IndirectionSound ==
  ASSUME NEW e, Sound(e)
  PROVE  Sound(Unary("deref", e))
<1> PICK u : u = Unary("deref", e)
  OBVIOUS
<1> PICK v : v = LowerDereference(e)
  OBVIOUS
<1>1. /\ u.kind # "string" /\ u.l = v
      /\ u.okT => e.ok /\ Kind(e.sem) \in {"pointer", "error"}
      /\ u.sem = checkUnary("deref", e).sem
      /\ u.ok = checkUnary("deref", e).ok
      /\ u.r = irBuilderLowerUnaryRValue("deref", e)
      /\ ~u.resized => ~e.resized
  BY UnaryFields
<1>2. u.r = v
  BY <1>1 DEF irBuilderLowerUnaryRValue
<1>3. checkUnary("deref", e).ok => e.ok /\ Kind(e.sem) = "pointer"
  BY DEF checkUnary
<1>4. u.sem = IF Kind(e.sem) = "pointer" THEN Element(e.sem) ELSE Error
  BY <1>1 DEF checkUnary
<1>5. e.sem \in SemType /\ (e.kind = "string" => Kind(e.sem) = "array")
  BY DEF Sound
<1>6. u.sem \in SemType
  BY <1>4, <1>5, LayersOf, Elements, Scalars
<1>7. ASSUME u.ok \/ u.okT, v.type # NoType
      PROVE  Fits(v.type, u)
  <2>1. e.ok /\ e.kind # "string"
    BY <1>1, <1>3, <1>5, <1>7
  <2>2. /\ Kind(e.sem) = "pointer" /\ SameShape(v.type, Element(e.sem))
        /\ ~e.resized => SameSizes(v.type, Element(e.sem))
    BY <1>7, <2>1, DereferenceSound
  <2> QED  BY <1>1, <1>4, <2>2, FitsAs
<1>8. IsLowered(v)
  BY DereferenceSound
<1> QED
  BY <1>1, <1>2, <1>6, <1>7, <1>8 DEF Sound, Agrees

\* The negation of a bool.
LEMMA NotSound ==
  ASSUME NEW e, Sound(e)
  PROVE  Sound(Unary("not", e))
<1> PICK u : u = Unary("not", e)
  OBVIOUS
<1>1. /\ u.kind # "string" /\ u.l = Nothing /\ ~u.okT
      /\ u.sem = checkUnary("not", e).sem
      /\ u.ok = checkUnary("not", e).ok
      /\ u.r = irBuilderLowerUnaryRValue("not", e)
  BY UnaryFields
<1>2. IsLowered(e.r)
  BY DEF Sound
<1>3. checkUnary("not", e).ok => Kind(e.sem) = "bool"
  BY DEF checkUnary
<1>4. u.sem = IF Kind(e.sem) = "bool" THEN Scalar("bool") ELSE Error
  BY <1>1 DEF checkUnary
<1>5. /\ Scalar("bool") \in IrType /\ Scalar("bool") \in SemType
      /\ SameShape(Scalar("bool"), Scalar("bool")) /\ SameSizes(Scalar("bool"), Scalar("bool"))
  BY Scalars DEF Bases
<1>6. u.sem \in SemType
  BY <1>4, <1>5, Scalars
<1>7. CASE e.r.type = NoType
  <2>1. u.r = e.r
    BY <1>1, <1>7 DEF irBuilderLowerUnaryRValue
  <2> QED  BY <1>1, <1>2, <1>6, <1>7, <2>1, NothingLowered DEF Sound, Agrees
<1>8. CASE e.r.type # NoType
  <2> PICK g : g = (e.r.good /\ e.r.type = Scalar("bool"))
    OBVIOUS
  <2> PICK w : w = [e.r EXCEPT !.type = Scalar("bool")]
    OBVIOUS
  <2>1. u.r = [w EXCEPT !.good = g]
    <3>1. u.r = LowerNot(e)
      BY <1>1, <1>8 DEF irBuilderLowerUnaryRValue
    <3> QED  BY <3>1 DEF LowerNot
  <2>2. IsLowered(w) /\ w.type = Scalar("bool")
    BY <1>2, <1>5, LoweredRetyped DEF MaybeType
  <2>3. IsLowered(u.r) /\ u.r.type = Scalar("bool")
    <3>1. IsLowered([w EXCEPT !.good = g]) /\ [w EXCEPT !.good = g].type = w.type
      BY <2>2, LoweredJudged
    <3> QED  BY <2>1, <2>2, <3>1
  <2>4. u.ok => Fits(u.r.type, u)
    BY <1>1, <1>3, <1>4, <1>5, <2>3, FitsAs
  <2> QED  BY <1>1, <1>6, <2>3, <2>4, NothingLowered DEF Sound, Agrees
<1> QED
  BY <1>7, <1>8

\* The negation of a number.
LEMMA NegateSound ==
  ASSUME NEW e, Sound(e)
  PROVE  Sound(Unary("negate", e))
<1> PICK u : u = Unary("negate", e)
  OBVIOUS
<1>1. /\ u.kind # "string" /\ u.l = Nothing /\ ~u.okT
      /\ u.sem = checkUnary("negate", e).sem
      /\ u.ok = checkUnary("negate", e).ok
      /\ u.r = irBuilderLowerUnaryRValue("negate", e)
      /\ ~u.resized => ~e.resized
  BY UnaryFields
<1>2. /\ e.sem \in SemType /\ IsLowered(e.r) /\ (e.kind = "string" => Kind(e.sem) = "array")
      /\ e.ok /\ e.r.type # NoType /\ e.kind # "string" => Fits(e.r.type, e)
  BY DEF Sound, Agrees
<1>3. checkUnary("negate", e).ok => e.ok /\ semanticTypeIsNumeric(e.sem)
  BY DEF checkUnary
<1>4. u.sem = IF semanticTypeIsNumeric(e.sem) THEN e.sem ELSE Error
  BY <1>1 DEF checkUnary
<1>5. u.sem \in SemType
  BY <1>2, <1>4, Scalars
<1>6. semanticTypeIsNumeric(e.sem) => e.kind # "string"
  BY <1>2 DEF semanticTypeIsNumeric
<1>7. IsLowered(u.r) /\ u.r.type = e.r.type
  <2>1. CASE e.r.type = NoType
    BY <1>1, <1>2, <2>1 DEF irBuilderLowerUnaryRValue
  <2>2. CASE e.r.type # NoType
    <3> PICK g : g = (e.r.good /\ Kind(e.r.type) \in {"int", "float"})
      OBVIOUS
    <3>1. u.r = [e.r EXCEPT !.good = g]
      <4>1. u.r = LowerNegate(e)
        BY <1>1, <2>2 DEF irBuilderLowerUnaryRValue
      <4> QED  BY <4>1 DEF LowerNegate
    <3>2. IsLowered([e.r EXCEPT !.good = g]) /\ [e.r EXCEPT !.good = g].type = e.r.type
      BY <1>2, LoweredJudged
    <3> QED  BY <3>1, <3>2
  <2> QED  BY <2>1, <2>2
<1>8. ASSUME u.ok, u.r.type # NoType
      PROVE  Fits(u.r.type, u)
  <2>1. Fits(e.r.type, e) /\ u.sem = e.sem
    BY <1>1, <1>2, <1>3, <1>4, <1>6, <1>7, <1>8
  <2> QED  BY <1>1, <1>7, <2>1 DEF Fits
<1> QED
  BY <1>1, <1>5, <1>7, <1>8, NothingLowered DEF Sound, Agrees

\* The unary operators.
LEMMA UnarySound ==
  ASSUME NEW op \in {"address", "deref", "not", "negate"}, NEW e, Sound(e)
  PROVE  Sound(Unary(op, e))
BY AddressSound, IndirectionSound, NotSound, NegateSound

\* The parts of a binary operation.
LEMMA BinaryFields ==
  ASSUME NEW op, NEW a, NEW b
  PROVE  /\ Binary(op, a, b).kind = "value" /\ ~Binary(op, a, b).okT
         /\ Binary(op, a, b).sem = checkBinary(op, a, b)
         /\ Binary(op, a, b).ok => a.ok /\ b.ok /\ checkBinary(op, a, b) # Error
         /\ Binary(op, a, b).r = irBuilderLowerBinaryRValue(op, a, b)
         /\ Binary(op, a, b).l = Nothing
         /\ ~Binary(op, a, b).resized => ~a.resized
BY DEF Binary, Leaf

\* The binary operators: arithmetic has the type of its left operand, the others
\* give a bool.
LEMMA BinarySound ==
  ASSUME NEW op \in BinaryOps, NEW a, NEW b, Sound(a), Sound(b)
  PROVE  Sound(Binary(op, a, b))
<1> PICK u : u = Binary(op, a, b)
  OBVIOUS
<1> PICK v : v = irBuilderLowerBinaryRValue(op, a, b)
  OBVIOUS
<1> PICK sem : sem = checkBinary(op, a, b)
  OBVIOUS
<1>1. /\ u.kind = "value" /\ ~u.okT /\ u.sem = sem /\ u.r = v /\ u.l = Nothing
      /\ u.ok => a.ok /\ sem # Error
      /\ ~u.resized => ~a.resized
  BY BinaryFields
<1>2. /\ a.sem \in SemType /\ IsLowered(a.r) /\ (a.kind = "string" => Kind(a.sem) = "array")
      /\ a.ok /\ a.r.type # NoType /\ a.kind # "string" => Fits(a.r.type, a)
  BY DEF Sound, Agrees
<1>3. /\ v = [type |-> v.type, calls |-> v.calls, good |-> v.good]
      /\ v.type # NoType => /\ a.r.type # NoType
                            /\ v.type = IF op \in {"add", "mul"} THEN a.r.type ELSE Scalar("bool")
  BY DEF irBuilderLowerBinaryRValue
<1>4. /\ Scalar("bool") \in IrType /\ Scalar("bool") \in SemType
      /\ SameShape(Scalar("bool"), Scalar("bool")) /\ SameSizes(Scalar("bool"), Scalar("bool"))
      /\ Error \in SemType
  BY Scalars DEF Bases
<1>5. CASE op \in {"add", "mul"}
  <2>1. sem = Error \/ (sem = a.sem /\ Kind(a.sem) \in {"int", "float", "pointer"})
    BY <1>5 DEF checkBinary, checkPointerArithmetic, isNonVoidPointerType, semanticTypeIsNumeric
  <2>2. v.type # NoType => v.type = a.r.type /\ a.r.type # NoType
    BY <1>3, <1>5
  <2>3. IsLowered(v)
    BY <1>2, <1>3, <2>2, LoweredType DEF IsLowered, MaybeType
  <2>4. u.ok => a.kind # "string" /\ sem = a.sem
    BY <1>1, <1>2, <2>1
  <2>5. ASSUME u.ok, v.type # NoType
        PROVE  Fits(v.type, u)
    <3>1. Fits(a.r.type, a) /\ u.sem = a.sem /\ v.type = a.r.type
      BY <1>1, <1>2, <2>2, <2>4, <2>5
    <3> QED  BY <1>1, <3>1 DEF Fits
  <2> QED
    BY <1>1, <1>2, <1>4, <2>1, <2>3, <2>5, NothingLowered DEF Sound, Agrees
<1>6. CASE op \in {"order", "equal", "logic"}
  <2>1. sem \in {Error, Scalar("bool")}
    BY <1>6 DEF checkBinary
  <2>2. v.type # NoType => v.type = Scalar("bool")
    BY <1>3, <1>6
  <2>3. IsLowered(v)
    BY <1>3, <1>4, <2>2 DEF IsLowered, MaybeType
  <2>4. u.ok /\ v.type # NoType => Fits(v.type, u)
    BY <1>1, <1>4, <2>1, <2>2, FitsAs
  <2> QED
    BY <1>1, <1>4, <2>1, <2>3, <2>4, NothingLowered DEF Sound, Agrees
<1> QED
  BY <1>5, <1>6 DEF BinaryOps

\* A call of a function of the module.
LEMMA CallSound ==
  ASSUME NEW f \in Funcs, NEW args, NEW id
  PROVE  Sound(Call(f, args, id))
<1> PICK u : u = Call(f, args, id)
  OBVIOUS
<1> PICK v : v = irBuilderLowerCallRValue(f, args, id)
  OBVIOUS
<1> PICK sem : sem = semanticTypeFromAst(ResultOf[f])
  OBVIOUS
<1> PICK counted : counted = (Len(args) = Len(ParamsOf[f]))
  OBVIOUS
<1>1. /\ u.kind = "call" /\ ~u.okT /\ u.l = Nothing
      /\ u.sem = IF counted THEN sem ELSE Error
      /\ u.r = IF counted THEN v ELSE Nothing
  BY DEF Call, Leaf
<1> PICK ir : ir = irBuilderTypeFromAst(ResultOf[f])
  OBVIOUS
<1>2. sem \in SemType /\ ir \in IrType /\ SameShape(ir, sem) /\ SameSizes(ir, sem)
  BY FuncsAssumption, TypesAsWritten
<1>3. /\ v = [type |-> v.type, calls |-> v.calls, good |-> v.good]
      /\ v.type # NoType => v.type = ir
  BY DEF irBuilderLowerCallRValue
<1>4. IsLowered(v)
  BY <1>2, <1>3 DEF IsLowered, MaybeType
<1>5. CASE counted
  <2>1. v.type # NoType => Fits(v.type, u)
    BY <1>1, <1>2, <1>3, <1>5, FitsAs
  <2> QED  BY <1>1, <1>2, <1>4, <1>5, <2>1, NothingLowered DEF Sound, Agrees
<1>6. CASE ~counted
  BY <1>1, <1>6, SoundNothing, Scalars
<1> QED
  BY <1>5, <1>6

\* A call of a value, and an array literal: the builder makes nothing of them.
LEMMA CallOfValueSound ==
  ASSUME NEW callee, NEW args, NEW id
  PROVE  Sound(CallOfValue(callee, args, id))
<1> PICK u : u = CallOfValue(callee, args, id)
  OBVIOUS
<1>1. u.kind # "string" /\ u.sem = Error /\ u.r = Nothing /\ u.l = Nothing
  BY DEF CallOfValue, Leaf
<1> QED
  BY <1>1, SoundNothing, Scalars

LEMMA LiteralSound ==
  ASSUME NEW elems, elems # <<>> => elems[1].sem \in SemType
  PROVE  Sound(ArrayLiteral(elems))
<1> PICK u : u = ArrayLiteral(elems)
  OBVIOUS
<1> PICK t : t = IF checkArrayLiteral(elems) /\ elems # <<>> THEN elems[1].sem ELSE Error
  OBVIOUS
<1>1. u.kind = "literal" /\ u.r = Nothing /\ u.l = Nothing /\ u.sem = Over(Array(Unsized), t)
  BY DEF ArrayLiteral, Leaf
<1>2. t \in SemType
  BY Scalars
<1>3. u.sem \in SemType
  BY <1>1, <1>2, Layers, Overs
<1> QED
  BY <1>1, <1>3, SoundNothing

-----------------------------------------------------------------------------
(* The stack *)

\* The types of every node that waits for its parent agree.
ExpressionsInv ==
  /\ \E S : stack \in Seq(S)
  /\ \A i \in 1 .. Len(stack) : Sound(stack[i])

\* The nodes that become children.
LEMMA TopSound ==
  ASSUME ExpressionsInv, NEW n \in 0 .. Len(stack)
  PROVE  /\ Len(Top(n)) = n /\ (\E S : Top(n) \in Seq(S))
         /\ \A i \in 1 .. n : Sound(Top(n)[i])
<1> PICK S : stack \in Seq(S)
  BY DEF ExpressionsInv
<1> PICK m : m = Len(stack)
  OBVIOUS
<1>1. m \in Nat /\ n \in 0 .. m /\ \A i \in 1 .. m : stack[i] \in S /\ Sound(stack[i])
  BY DEF ExpressionsInv
<1>2. Top(n) = SubSeq(stack, m - n + 1, m)
  BY DEF Top
<1>3. /\ m - n + 1 \in 1 .. m + 1 /\ \A i \in 1 .. n : m - n + i \in 1 .. m
      /\ \A i \in 1 .. n : m - n + 1 + i - 1 = m - n + i
  BY <1>1
<1>4. \A i \in m - n + 1 .. m : stack[i] \in S
  BY <1>1, <1>3
<1>5. Top(n) \in Seq(S) /\ Len(Top(n)) = n
  BY <1>1, <1>2, <1>3, <1>4
<1>6. \A i \in 1 .. n : Top(n)[i] = stack[m - n + i]
  BY <1>1, <1>2, <1>3, <1>5
<1> QED
  BY <1>1, <1>3, <1>5, <1>6

\* A node takes the place of its children.
LEMMA ReduceSound ==
  ASSUME ExpressionsInv, NEW n \in 0 .. Len(stack), NEW node, Sound(node), Reduce(n, node)
  PROVE  ExpressionsInv'
<1> PICK S : stack \in Seq(S)
  BY DEF ExpressionsInv
<1> PICK k : k = Len(stack) - n
  OBVIOUS
<1> PICK kept : kept = SubSeq(stack, 1, k)
  OBVIOUS
<1>1. stack' = Append(kept, node)
  BY DEF Reduce
<1>2. k \in Nat /\ k <= Len(stack) /\ \A i \in 1 .. Len(stack) : stack[i] \in S /\ Sound(stack[i])
  BY DEF ExpressionsInv
<1>3. kept \in Seq(S) /\ Len(kept) = k /\ \A i \in 1 .. k : kept[i] = stack[i]
  BY <1>2
<1> PICK T : T = S \cup {node}
  OBVIOUS
<1>4. kept \in Seq(T)
  BY <1>3
<1>5. stack' \in Seq(T) /\ Len(stack') = k + 1
  BY <1>1, <1>2, <1>3, <1>4
<1>6. ASSUME NEW i \in 1 .. k + 1
      PROVE  Sound(stack'[i])
  <2>1. CASE i = k + 1
    <3>1. stack'[i] = node
      BY <1>1, <1>3, <1>4, <2>1
    <3> QED  BY <3>1
  <2>2. CASE i # k + 1
    <3>1. i \in 1 .. k /\ i \in 1 .. Len(stack)
      BY <1>2, <2>2
    <3>2. stack'[i] = stack[i]
      BY <1>1, <1>3, <1>4, <3>1
    <3> QED  BY <1>2, <3>1, <3>2
  <2> QED  BY <2>1, <2>2
<1> QED
  BY <1>5, <1>6 DEF ExpressionsInv

\* An empty stack.
LEMMA EmptySound == stack' = <<>> => ExpressionsInv'
<1>1. <<>> \in Seq({}) /\ Len(<<>>) = 0
  OBVIOUS
<1> QED
  BY <1>1 DEF ExpressionsInv

\* Every step leaves the types of the waiting nodes in agreement.
LEMMA ExpressionsStep == ExpressionsInv /\ [Next]_vars => ExpressionsInv'
<1> SUFFICES ASSUME ExpressionsInv, [Next]_vars
             PROVE  ExpressionsInv'
  OBVIOUS
<1> PICK S : stack \in Seq(S)
  BY DEF ExpressionsInv
<1>0. Len(stack) \in Nat
  OBVIOUS
<1>1. CASE PushLeaf
  <2> PICK e \in {Literal(b) : b \in Bases \ {"void"}} \cup {StringLiteral, Undeclared}
                 \cup {Identifier(x) : x \in Vars} : Reduce(0, e)
    BY <1>1 DEF PushLeaf
  <2>1. Sound(e)
    BY LeavesSound
  <2> QED  BY <1>0, <2>1, ReduceSound
<1>2. CASE PushAccess
  <2>1. 2 \in 0 .. Len(stack) /\ 1 \in 1 .. 2 /\ 2 \in 1 .. 2
    BY <1>0, <1>2 DEF PushAccess
  <2>2. Sound(Top(2)[1]) /\ Sound(Top(2)[2])
    BY <2>1, TopSound
  <2>3. Sound(ArrayAccess(Top(2)[1], Top(2)[2]))
    BY <2>2, AccessSound
  <2>4. Reduce(2, ArrayAccess(Top(2)[1], Top(2)[2]))
    BY <1>2 DEF PushAccess
  <2> QED  BY <2>1, <2>3, <2>4, ReduceSound
<1>3. CASE PushUnary
  <2>1. 1 \in 0 .. Len(stack) /\ 1 \in 1 .. 1
    BY <1>0, <1>3 DEF PushUnary
  <2> PICK op \in {"address", "deref", "not", "negate"} : Reduce(1, Unary(op, Top(1)[1]))
    BY <1>3 DEF PushUnary
  <2>2. Sound(Top(1)[1])
    BY <2>1, TopSound
  <2>3. Sound(Unary(op, Top(1)[1]))
    BY <2>2, UnarySound
  <2> QED  BY <2>1, <2>3, ReduceSound
<1>4. CASE PushBinary
  <2>1. 2 \in 0 .. Len(stack) /\ 1 \in 1 .. 2 /\ 2 \in 1 .. 2
    BY <1>0, <1>4 DEF PushBinary
  <2> PICK op \in BinaryOps : Reduce(2, Binary(op, Top(2)[1], Top(2)[2]))
    BY <1>4 DEF PushBinary
  <2>2. Sound(Top(2)[1]) /\ Sound(Top(2)[2])
    BY <2>1, TopSound
  <2>3. Sound(Binary(op, Top(2)[1], Top(2)[2]))
    BY <2>2, BinarySound
  <2> QED  BY <2>1, <2>3, ReduceSound
<1>5. CASE PushCall
  <2> PICK n \in 0 .. Len(stack), f \in Funcs : Reduce(n, Call(f, Top(n), calls'))
    BY <1>5 DEF PushCall
  <2>1. Sound(Call(f, Top(n), calls'))
    BY CallSound
  <2> QED  BY <2>1, ReduceSound
<1>6. CASE PushCallOfValue
  <2> PICK n \in 1 .. Len(stack) : Reduce(n, CallOfValue(Top(n)[1], Tail(Top(n)), calls'))
    BY <1>6 DEF PushCallOfValue
  <2>1. Sound(CallOfValue(Top(n)[1], Tail(Top(n)), calls')) /\ n \in 0 .. Len(stack)
    BY CallOfValueSound
  <2> QED  BY <2>1, ReduceSound
<1>7. CASE PushArrayLiteral
  <2> PICK n \in 0 .. Len(stack) : Reduce(n, ArrayLiteral(Top(n)))
    BY <1>7 DEF PushArrayLiteral
  <2>1. /\ Len(Top(n)) = n /\ \E R : Top(n) \in Seq(R)
        /\ \A i \in 1 .. n : Sound(Top(n)[i])
    BY TopSound
  <2>2. Top(n) # <<>> => n \in Nat /\ n >= 1
    BY <2>1
  <2>3. Top(n) # <<>> => Top(n)[1].sem \in SemType
    BY <2>1, <2>2 DEF Sound
  <2>4. Sound(ArrayLiteral(Top(n)))
    BY <2>3, LiteralSound
  <2> QED  BY <2>4, ReduceSound
<1>8. CASE \/ VariableDeclaration \/ Assignment \/ CompoundAssignment
           \/ ExpressionStatement \/ ReturnStatement \/ Condition \/ NextStatement
  <2>1. stack' = <<>>
    BY <1>8 DEF VariableDeclaration, Assignment, CompoundAssignment, ExpressionStatement,
                ReturnStatement, Condition, NextStatement, Finish
  <2> QED  BY <2>1, EmptySound
<1>9. CASE UNCHANGED vars
  BY <1>9 DEF vars, ExpressionsInv
<1> QED
  BY <1>1, <1>2, <1>3, <1>4, <1>5, <1>6, <1>7, <1>8, <1>9 DEF Next

\* The semantic pass and the builder agree on the types of all waiting nodes,
\* and so do they on what each of its steps adds to them (checkExpression,
\* irBuilderLowerRValue, irBuilderLowerLValue).
THEOREM ExpressionsInvariant == Spec => []ExpressionsInv
<1>1. Init => ExpressionsInv
  <2>1. <<>> \in Seq({}) /\ Len(<<>>) = 0
    OBVIOUS
  <2> QED  BY <2>1 DEF Init, ExpressionsInv
<1> QED
  BY <1>1, ExpressionsStep, PTL DEF Spec

\* TypesAgree: where the semantic pass has no objection, a value or an address
\* of the builder has the layers and the base of the type the semantic pass gives
\* the expression, and its sizes unless the initializer of the variable they come
\* from replaced them (checkExpression, checkAssignmentTarget,
\* irBuilderLowerRValue, irBuilderLowerLValue, irBuilderInferArrayTypeFromLiteral).
THEOREM TypesAlwaysAgree == Spec => []TypesAgree
<1>1. ExpressionsInv => TypesAgree
  <2> SUFFICES ASSUME ExpressionsInv, NEW i \in DOMAIN stack
               PROVE  Agrees(stack[i])
    BY DEF TypesAgree, Agrees
  <2>1. i \in 1 .. Len(stack)
    BY DEF ExpressionsInv
  <2> QED  BY <2>1 DEF ExpressionsInv, Sound
<1> QED
  BY <1>1, ExpressionsInvariant, PTL

=============================================================================
