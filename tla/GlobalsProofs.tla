--------------------------- MODULE GlobalsProofs ---------------------------
(***************************************************************************)
(* Ids of globals, for programs of every size: an operand refers to the    *)
(* literal or variable it was made for, or, when a variable was            *)
(* initialized with a string, to the storage of that string.               *)
(***************************************************************************)
EXTENDS Globals, SequenceTheorems, TLAPS

\* A storage has its position for id.
StorageAt(i) ==
  /\ globals[i].id = i
  /\ globals[i].name = StorageName(i)
  /\ globals[i].initializer.kind = "string"

\* A variable has its position for id too, or follows its storage and has its
\* id.
VariableAt(i) ==
  LET g == globals[i]
      n == g.name.n
  IN  /\ g.name = UserName(n) /\ n \in DOMAIN program
      /\ g.type = program[n].type
      /\ g.initializer = irBuilderLiteralFromAst(n)
      /\ program[n].init # "string" => g.id = i /\ g.storage = 0
      /\ program[n].init = "string" =>
           /\ i - 1 \in DOMAIN globals
           /\ globals[i - 1].constant
           /\ globals[i - 1].initializer.of = <<n, 0>>
           /\ g.id = i - 1 /\ g.storage = i - 1

GlobalsPlaced ==
  \A i \in DOMAIN globals :
    IF globals[i].constant THEN StorageAt(i) ELSE VariableAt(i)

\* The global with this name and id is there.
Denotes(gs, n, id) ==
  \E i \in DOMAIN gs : ~gs[i].constant /\ gs[i].name = UserName(n) /\ gs[i].id = id

SymbolsDenote ==
  \A n \in DOMAIN program : symbols[n].kind = "global" => Denotes(globals, n, symbols[n].id)

CodeDenotes ==
  \A k \in DOMAIN code :
    /\ code[k].kind = "global" => code[k].of.kind = "user" /\ Denotes(globals, code[k].of.n, code[k].id)
    /\ code[k].kind = "string" =>
         /\ code[k].id \in DOMAIN globals
         /\ globals[code[k].id].constant
         /\ globals[code[k].id].initializer.of = code[k].place

\* The inductive invariant.
IInv == TypeOK /\ GlobalsPlaced /\ SymbolsDenote /\ CodeDenotes

-----------------------------------------------------------------------------
(* The printer's search *)

\* irPrinterFindGlobalById finds a global that has its position for id.
LEMMA FindPlaced ==
  ASSUME TypeOK, GlobalsPlaced, NEW i \in DOMAIN globals, globals[i].id = i
  PROVE  irPrinterFindGlobalById(i) = globals[i]
<1> DEFINE found == {j \in DOMAIN globals : globals[j].id = i}
<1>1. DOMAIN globals \subseteq Nat
  BY DEF TypeOK
<1>2. i \in found
  OBVIOUS
<1>3. ASSUME NEW j \in found PROVE i <= j
  <2>1. CASE globals[j].constant
    BY <1>1, <2>1 DEF GlobalsPlaced, StorageAt
  <2>2. CASE ~globals[j].constant
    <3>1. globals[j].id = j \/ globals[j].id = j - 1
      BY <2>2 DEF GlobalsPlaced, VariableAt
    <3> QED
      BY <1>1, <3>1
  <2> QED
    BY <2>1, <2>2
<1>4. (CHOOSE k \in found : \A j \in found : k <= j) = i
  BY <1>1, <1>2, <1>3
<1> QED
  BY <1>2, <1>4 DEF irPrinterFindGlobalById

\* What irPrinterFindGlobalById finds for the id of a variable.
LEMMA FindVariable ==
  ASSUME TypeOK, GlobalsPlaced, NEW n, NEW id, Denotes(globals, n, id)
  PROVE  /\ n \in DOMAIN program
         /\ program[n].init # "string" => irPrinterFindGlobalById(id).name = UserName(n)
         /\ program[n].init = "string" =>
              /\ irPrinterFindGlobalById(id).constant
              /\ irPrinterFindGlobalById(id).initializer.of = <<n, 0>>
<1>1. PICK i \in DOMAIN globals : /\ ~globals[i].constant
                                  /\ globals[i].name = UserName(n)
                                  /\ globals[i].id = id
  BY DEF Denotes
<1>2. VariableAt(i) /\ globals[i].name.n = n
  BY <1>1 DEF GlobalsPlaced, UserName
<1>3. CASE program[n].init # "string"
  BY <1>1, <1>2, <1>3, FindPlaced DEF VariableAt
<1>4. CASE program[n].init = "string"
  <2>1. /\ i - 1 \in DOMAIN globals
        /\ globals[i - 1].constant
        /\ globals[i - 1].initializer.of = <<n, 0>>
        /\ id = i - 1
    BY <1>1, <1>2, <1>4 DEF VariableAt
  <2>2. globals[i - 1].id = i - 1
    BY <2>1 DEF GlobalsPlaced, StorageAt
  <2>3. irPrinterFindGlobalById(id) = globals[i - 1]
    BY <2>1, <2>2, FindPlaced
  <2> QED
    BY <1>2, <1>4, <2>1, <2>3 DEF VariableAt
<1> QED
  BY <1>2, <1>3, <1>4 DEF VariableAt

\* The operands of the code resolve.
LEMMA InvariantResolves == IInv => OperandsResolve
<1> SUFFICES ASSUME IInv, NEW k \in DOMAIN code
             PROVE  LET entry == code[k]
                        found == irPrinterFindGlobalById(entry.id)
                    IN  CASE entry.kind = "string" ->
                               found.constant /\ found.initializer.of = entry.place
                          [] entry.kind = "global" /\ program[entry.of.n].init # "string" ->
                               irPrintOperand(entry) = entry.of
                          [] entry.kind = "global" /\ program[entry.of.n].init = "string" ->
                               found.constant /\ found.initializer.of = <<entry.of.n, 0>>
                          [] OTHER -> TRUE
  BY DEF OperandsResolve
<1>1. TypeOK /\ GlobalsPlaced /\ code[k] \in Entry
  BY DEF IInv, TypeOK
<1>2. CASE code[k].kind = "string"
  <2>1. /\ code[k].id \in DOMAIN globals
        /\ globals[code[k].id].constant
        /\ globals[code[k].id].initializer.of = code[k].place
    BY <1>2 DEF IInv, CodeDenotes
  <2>2. irPrinterFindGlobalById(code[k].id) = globals[code[k].id]
    BY <1>1, <2>1, FindPlaced DEF GlobalsPlaced, StorageAt
  <2> QED
    BY <1>2, <2>1, <2>2
<1>3. CASE code[k].kind = "global"
  <2>1. code[k].of.kind = "user" /\ Denotes(globals, code[k].of.n, code[k].id)
    BY <1>3 DEF IInv, CodeDenotes
  <2>2. code[k].of = UserName(code[k].of.n)
    BY <1>1, <2>1 DEF Entry, Name, UserName
  <2> QED
    BY <1>1, <1>3, <2>1, <2>2, FindVariable DEF irPrintOperand
<1>4. CASE code[k].kind = "callee"
  BY <1>4
<1> QED
  BY <1>1, <1>2, <1>3, <1>4 DEF Entry

\* Programs are short sequences of items, and strings initialize pointers and
\* arrays.
LEMMA ProgramFacts ==
  ASSUME program \in Program
  PROVE  /\ Len(program) \in 0 .. MaxItems
         /\ DOMAIN program = 1 .. Len(program)
         /\ \A n \in DOMAIN program :
              /\ program[n] \in Item
              /\ Len(program[n].body) \in 0 .. MaxUses
              /\ DOMAIN program[n].body = 1 .. Len(program[n].body)
              /\ \A k \in DOMAIN program[n].body :
                   /\ program[n].body[k] \in Use
                   /\ program[n].body[k].kind = "name" => program[n].body[k].item \in DOMAIN program
<1>1. PICK m \in 0 .. MaxItems : program \in [1 .. m -> Item]
  BY DEF Program
<1>2. program \in Seq(Item) /\ Len(program) = m /\ DOMAIN program = 1 .. m
  BY <1>1, BoundsAssumption
<1>3. ASSUME NEW n \in DOMAIN program
      PROVE  /\ program[n] \in Item
             /\ Len(program[n].body) \in 0 .. MaxUses
             /\ DOMAIN program[n].body = 1 .. Len(program[n].body)
             /\ \A k \in DOMAIN program[n].body :
                  /\ program[n].body[k] \in Use
                  /\ program[n].body[k].kind = "name" => program[n].body[k].item \in DOMAIN program
  <2>1. program[n] \in Item
    BY <1>1, <1>2
  <2>2. PICK l \in 0 .. MaxUses : program[n].body \in [1 .. l -> Use]
    <3>1. CASE program[n] \in Function
      BY <3>1 DEF Function
    <3>2. CASE program[n] \in Variable \cup Extern
      <4>1. program[n].body = <<>>
        BY <3>2 DEF Variable, Extern
      <4>2. program[n].body \in [1 .. 0 -> Use]
        BY <4>1
      <4> QED
        BY <4>2, BoundsAssumption
    <3> QED
      BY <2>1, <3>1, <3>2 DEF Item
  <2>3. /\ program[n].body \in Seq(Use)
        /\ Len(program[n].body) = l
        /\ DOMAIN program[n].body = 1 .. l
    BY <2>2, BoundsAssumption
  <2>4. \A k \in DOMAIN program[n].body :
          program[n].body[k].kind = "name" => program[n].body[k].item \in DOMAIN program
    BY DEF Program, Accepted
  <2> QED
    BY <2>1, <2>2, <2>3, <2>4
<1> QED
  BY <1>2, <1>3

\* The branch of irPrintGlobal for a pointer that was initialized with a string.
LEMMA PrintsAddress ==
  ASSUME NEW g, ~g.constant, g.type = "pointer", g.initializer.kind = "string", g.storage # 0
  PROVE  irPrintGlobal(g).value
           = [kind |-> "address", of |-> irPrinterFindGlobalById(g.storage).name]
<1>1. g.initializer # NoLiteral
  BY DEF NoLiteral
<1> QED
  BY <1>1 DEF irPrintGlobal

\* A string that is printed as an initializer is the one of the source.
LEMMA InvariantPrints == IInv => InitializersPrinted
<1> SUFFICES ASSUME IInv, NEW k \in DOMAIN globals, globals[k].name.kind = "user"
             PROVE  LET g == globals[k]
                        item == program[g.name.n]
                        value == irPrintGlobal(g).value
                    IN  /\ item.init = "number" => value = [kind |-> "number", of |-> <<g.name.n, 0>>]
                        /\ item.init \in {"none", "char"} => value.kind = "zero"
                        /\ (item.init = "string" /\ item.type = "array") => value.kind = "null"
                        /\ (item.init = "string" /\ item.type = "pointer") =>
                             /\ value.kind = "address"
                             /\ \E j \in DOMAIN globals :
                                  /\ globals[j].name = value.of
                                  /\ globals[j].constant
                                  /\ globals[j].initializer.of = <<g.name.n, 0>>
  BY DEF InitializersPrinted
<1> DEFINE g == globals[k]
           n == g.name.n
           value == irPrintGlobal(g).value
<1>1. TypeOK /\ GlobalsPlaced /\ k \in Nat
  BY DEF IInv, TypeOK
<1>2. ~g.constant
  <2> SUFFICES ASSUME g.constant PROVE FALSE
    OBVIOUS
  <2>1. StorageAt(k)
    BY <1>1 DEF GlobalsPlaced
  <2>2. g.name.kind = ".str"
    BY <2>1 DEF StorageAt, StorageName
  <2> QED
    BY <2>2
<1>3. VariableAt(k)
  BY <1>1, <1>2 DEF GlobalsPlaced
<1>4. CASE program[n].init = "number"
  <2>1. g.initializer = [kind |-> "number", of |-> <<n, 0>>]
    BY <1>3, <1>4 DEF VariableAt, irBuilderLiteralFromAst
  <2> QED
    BY <1>2, <1>4, <2>1 DEF irPrintGlobal, NoLiteral
<1>5. CASE program[n].init \in {"none", "char"}
  <2>1. g.initializer = NoLiteral
    BY <1>3, <1>5 DEF VariableAt, irBuilderLiteralFromAst
  <2> QED
    BY <1>2, <1>5, <2>1 DEF irPrintGlobal, NoLiteral
<1>6. CASE program[n].init = "string" /\ program[n].type = "pointer"
  <2>1. /\ k - 1 \in DOMAIN globals
        /\ globals[k - 1].constant
        /\ globals[k - 1].initializer.of = <<n, 0>>
        /\ g.storage = k - 1
        /\ g.type = "pointer"
        /\ g.initializer = [kind |-> "string", of |-> <<n, 0>>]
    BY <1>3, <1>6 DEF VariableAt, irBuilderLiteralFromAst
  <2>2. globals[k - 1].id = k - 1
    BY <1>1, <2>1 DEF GlobalsPlaced, StorageAt
  <2>3. irPrinterFindGlobalById(g.storage) = globals[k - 1]
    BY <1>1, <2>1, <2>2, FindPlaced
  <2>4. g.storage # 0
    BY <2>1, <1>1 DEF TypeOK
  <2>5. g.initializer.kind = "string"
    BY <2>1
  <2>6. g.type = "pointer"
    BY <2>1
  <2>7. value = [kind |-> "address", of |-> irPrinterFindGlobalById(g.storage).name]
    <3> HIDE DEF g
    <3> QED
      BY <1>2, <2>4, <2>5, <2>6, PrintsAddress
  <2>8. value.kind = "address" /\ value.of = globals[k - 1].name
    BY <2>3, <2>7
  <2> QED
    BY <1>6, <2>1, <2>8
<1>7. CASE program[n].init = "string" /\ program[n].type = "array"
  <2>1. g.type = "array" /\ g.initializer = [kind |-> "string", of |-> <<n, 0>>]
    BY <1>3, <1>7 DEF VariableAt, irBuilderLiteralFromAst
  <2>2. g.initializer # NoLiteral /\ g.initializer.kind = "string"
    BY <2>1 DEF NoLiteral
  <2>3. value.kind = "null"
    BY <1>2, <2>1, <2>2 DEF irPrintGlobal
  <2> QED
    BY <1>7, <2>3
<1> QED
  BY <1>4, <1>5, <1>6, <1>7

-----------------------------------------------------------------------------
(* Steps: globals are only appended *)

\* What was there keeps its place.
LEMMA AppendKeepsPlaces ==
  ASSUME TypeOK, GlobalsPlaced, program' = program,
         DOMAIN globals \subseteq DOMAIN globals',
         \A i \in DOMAIN globals : globals'[i] = globals[i]
  PROVE  /\ \A i \in DOMAIN globals :
              IF globals'[i].constant THEN StorageAt(i)' ELSE VariableAt(i)'
         /\ \A n, id : Denotes(globals, n, id) => Denotes(globals', n, id)
<1>1. ASSUME NEW i \in DOMAIN globals, globals[i].constant PROVE StorageAt(i)'
  BY <1>1 DEF GlobalsPlaced, StorageAt
<1>2. ASSUME NEW i \in DOMAIN globals, ~globals[i].constant PROVE VariableAt(i)'
  <2>1. VariableAt(i)
    BY <1>2 DEF GlobalsPlaced
  <2> QED
    BY <2>1 DEF VariableAt, irBuilderLiteralFromAst
<1>3. ASSUME NEW n, NEW id, Denotes(globals, n, id) PROVE Denotes(globals', n, id)
  BY <1>3 DEF Denotes
<1> QED
  BY <1>1, <1>2, <1>3

\* A string storage is appended (irBuilderAddStringStorage).
LEMMA StorageAppended ==
  ASSUME TypeOK, NEW of \in Place0
  PROVE  LET gs == irBuilderAddStringStorage(globals, of)
             n == Len(globals) + 1
         IN  /\ gs \in Seq(Global)
             /\ DOMAIN gs = 1 .. n /\ Len(gs) = n /\ n \in Nat \ {0}
             /\ DOMAIN globals = 1 .. Len(globals)
             /\ \A i \in DOMAIN globals : gs[i] = globals[i]
             /\ gs[n] = StringStorage(n, of)
<1>1. globals \in Seq(Global) /\ Len(globals) \in Nat
  BY DEF TypeOK
<1>2. StringStorage(Len(globals) + 1, of) \in Global
  BY <1>1 DEF StringStorage, Global, Name, StorageName
<1> QED
  BY <1>1, <1>2 DEF irBuilderAddStringStorage, irBuilderNextGlobalId

\* It takes the place that its id and name are made of, and moves nothing.
LEMMA StoragePlaced ==
  ASSUME IInv, NEW of \in Place0, program' = program,
         globals' = irBuilderAddStringStorage(globals, of)
  PROVE  /\ globals' \in Seq(Global)
         /\ GlobalsPlaced'
         /\ DOMAIN globals \subseteq DOMAIN globals'
         /\ \A i \in DOMAIN globals : globals'[i] = globals[i]
         /\ Len(globals) + 1 \in DOMAIN globals'
         /\ globals'[Len(globals) + 1].constant
         /\ globals'[Len(globals) + 1].initializer.of = of
<1>0. PICK n : n = Len(globals) + 1
  OBVIOUS
<1>1. TypeOK /\ GlobalsPlaced
  BY DEF IInv
<1>2. /\ globals' \in Seq(Global)
      /\ DOMAIN globals' = 1 .. n /\ n \in Nat \ {0}
      /\ DOMAIN globals = 1 .. Len(globals)
      /\ \A i \in DOMAIN globals : globals'[i] = globals[i]
      /\ globals'[n] = StringStorage(n, of)
  BY <1>0, <1>1, StorageAppended
<1>3. Len(globals) \in Nat
  BY <1>1 DEF TypeOK
<1>4. DOMAIN globals \subseteq DOMAIN globals'
  BY <1>0, <1>2, <1>3
<1>5. globals'[n].constant /\ StorageAt(n)'
  BY <1>2 DEF StringStorage, StorageAt
<1>6. \A i \in DOMAIN globals : IF globals'[i].constant THEN StorageAt(i)' ELSE VariableAt(i)'
  BY <1>1, <1>2, <1>4, AppendKeepsPlaces
<1>7. \A i \in DOMAIN globals' : i \in DOMAIN globals \/ i = n
  BY <1>0, <1>2, <1>3
<1>8. GlobalsPlaced'
  BY <1>5, <1>6, <1>7 DEF GlobalsPlaced
<1> QED
  BY <1>0, <1>2, <1>4, <1>5, <1>8 DEF StringStorage

\* Symbols and code keep their meaning when globals are appended.
LEMMA MeaningKept ==
  ASSUME IInv, program' = program,
         DOMAIN globals \subseteq DOMAIN globals',
         \A i \in DOMAIN globals : globals'[i] = globals[i]
  PROVE  /\ symbols' = symbols => SymbolsDenote'
         /\ code' = code => CodeDenotes'
<1>1. \A n, id : Denotes(globals, n, id) => Denotes(globals', n, id)
  BY AppendKeepsPlaces DEF IInv
<1>2. ASSUME symbols' = symbols PROVE SymbolsDenote'
  BY <1>1, <1>2 DEF IInv, SymbolsDenote
<1>3. ASSUME code' = code PROVE CodeDenotes'
  <2> SUFFICES ASSUME NEW k \in DOMAIN code
               PROVE  /\ code[k].kind = "global" =>
                           code[k].of.kind = "user" /\ Denotes(globals', code[k].of.n, code[k].id)
                      /\ code[k].kind = "string" =>
                           /\ code[k].id \in DOMAIN globals'
                           /\ globals'[code[k].id].constant
                           /\ globals'[code[k].id].initializer.of = code[k].place
    BY <1>3 DEF CodeDenotes, Denotes
  <2> QED
    BY <1>1 DEF IInv, CodeDenotes
<1> QED
  BY <1>2, <1>3

-----------------------------------------------------------------------------
(* Init and Next *)

\* Nothing is declared at first.
LEMMA InvariantInit == Init => IInv
<1> SUFFICES ASSUME Init PROVE IInv
  OBVIOUS
<1>1. TypeOK
  BY BoundsAssumption DEF Init, TypeOK, Symbol, NoSymbol
<1>2. GlobalsPlaced /\ CodeDenotes
  BY DEF Init, GlobalsPlaced, CodeDenotes
<1>3. SymbolsDenote
  BY DEF Init, SymbolsDenote, NoSymbol
<1> QED
  BY <1>1, <1>2, <1>3 DEF IInv

\* A step that appends neither globals, symbols nor code keeps the invariant.
LEMMA NothingAppended ==
  ASSUME IInv, UNCHANGED <<program, globals, symbols, code>>, TypeOK'
  PROVE  IInv'
<1>1. SymbolsDenote' /\ CodeDenotes'
  BY MeaningKept
<1>2. GlobalsPlaced'
  BY AppendKeepsPlaces DEF IInv, GlobalsPlaced
<1> QED
  BY <1>1, <1>2 DEF IInv

\* A function, defined or external, is declared.
LEMMA FunctionStep ==
  ASSUME IInv, irBuilderPredeclareFunction \/ irBuilderPredeclareExternFunction
  PROVE  IInv'
<1>1. /\ pos \in DOMAIN program /\ pos + 1 \in 1 .. MaxItems + 1
      /\ symbols' = [symbols EXCEPT ![pos] = [kind |-> "function", id |-> 0]]
      /\ UNCHANGED <<program, phase, use, globals, code>> /\ pos' = pos + 1
      /\ functions' = Append(functions, pos) \/ functions' = functions
  BY ProgramFacts, BoundsAssumption
  DEF IInv, TypeOK, irBuilderPredeclareFunction, irBuilderPredeclareExternFunction, Declare
<1>2. TypeOK'
  <2>1. symbols' \in [DOMAIN program -> Symbol]
    BY <1>1 DEF IInv, TypeOK, Symbol
  <2>2. functions' \in Seq(DOMAIN program)
    <3>1. functions \in Seq(DOMAIN program)
      BY DEF IInv, TypeOK
    <3> QED
      BY <1>1, <3>1, AppendProperties
  <2> QED
    BY <1>1, <2>1, <2>2 DEF IInv, TypeOK
<1>3. GlobalsPlaced' /\ CodeDenotes'
  BY <1>1, MeaningKept, AppendKeepsPlaces DEF IInv, GlobalsPlaced
<1>4. SymbolsDenote'
  <2> SUFFICES ASSUME NEW n \in DOMAIN program, symbols'[n].kind = "global"
               PROVE  Denotes(globals', n, symbols'[n].id)
    BY <1>1 DEF SymbolsDenote, Denotes
  <2>1. n # pos /\ symbols'[n] = symbols[n]
    BY <1>1 DEF IInv, TypeOK
  <2>2. Denotes(globals, n, symbols[n].id)
    BY <2>1 DEF IInv, SymbolsDenote
  <2> QED
    BY <1>1, <2>1, <2>2 DEF Denotes
<1> QED
  BY <1>2, <1>3, <1>4 DEF IInv

\* A variable, and its storage if it is initialized with a string.
LEMMA GlobalStep ==
  ASSUME IInv, irBuilderPredeclareGlobal
  PROVE  IInv'
<1>1. PICK item : item = pos
  OBVIOUS
<1>2. PICK id : id = Len(globals) + 1
  OBVIOUS
<1>3. PICK gs : gs = IF program[item].init = "string"
                      THEN irBuilderAddStringStorage(globals, <<item, 0>>) ELSE globals
  OBVIOUS
<1>4. PICK g : g = [name |-> UserName(item), id |-> id, type |-> program[item].type,
                     constant |-> FALSE, initializer |-> irBuilderLiteralFromAst(item),
                     storage |-> IF program[item].init = "string" THEN id ELSE 0]
  OBVIOUS
<1>5. globals' = Append(gs, g)
  BY <1>1, <1>2, <1>3, <1>4 DEF irBuilderPredeclareGlobal, irBuilderNextGlobalId
<1>6. /\ item \in DOMAIN program /\ item \in 1 .. MaxItems
      /\ program[item] \in Item /\ program[item].type # "unknown"
  <2>1. item <= Len(program) /\ item \in 1 .. (MaxItems + 1) /\ program[item].type # "unknown"
    BY <1>1 DEF IInv, TypeOK, irBuilderPredeclareGlobal
  <2>2. program \in Program
    BY DEF IInv, TypeOK
  <2>3. /\ Len(program) \in 0 .. MaxItems /\ DOMAIN program = 1 .. Len(program)
        /\ \A n \in DOMAIN program : program[n] \in Item
    BY <2>2, ProgramFacts
  <2>4. item \in 1 .. Len(program)
    BY <2>1, <2>3, BoundsAssumption
  <2> QED
    BY <2>1, <2>3, <2>4, BoundsAssumption
<1>7. /\ symbols' = [symbols EXCEPT ![item] = [kind |-> "global", id |-> id]]
      /\ pos' = item + 1 /\ UNCHANGED <<program, phase, use, functions, code>>
  BY <1>1, <1>2 DEF irBuilderPredeclareGlobal, Declare, irBuilderNextGlobalId
<1>8. /\ globals \in Seq(Global) /\ Len(globals) \in Nat
      /\ DOMAIN globals = 1 .. Len(globals) /\ id \in Nat \ {0}
  BY <1>2 DEF IInv, TypeOK
<1>9. <<item, 0>> \in Place0
  BY <1>6, BoundsAssumption DEF Place0
<1>10. g \in Global
  <2>1. irBuilderLiteralFromAst(item) \in [kind : {"none", "number", "string"}, of : Place0]
    <3>1. <<0, 0>> \in Place0
      BY BoundsAssumption DEF Place0
    <3> QED
      BY <1>9, <3>1 DEF irBuilderLiteralFromAst, NoLiteral
  <2>2. program[item].type \in {"scalar", "pointer", "array"}
    BY <1>6 DEF Item, Variable, Function, Extern
  <2>3. UserName(item) \in Name
    BY <1>6 DEF UserName, Name
  <2> QED
    BY <1>8, <1>4, <2>1, <2>2, <2>3 DEF Global
<1>11. PICK m : m = Len(gs)
  OBVIOUS
<1>12. /\ gs \in Seq(Global) /\ m \in Nat /\ DOMAIN gs = 1 .. m /\ m >= Len(globals)
       /\ \A i \in DOMAIN globals : gs[i] = globals[i]
       /\ program[item].init # "string" => m = Len(globals)
       /\ program[item].init = "string" => m = id /\ gs[m] = StringStorage(m, <<item, 0>>)
  <2>1. CASE program[item].init = "string"
    <3>1. gs = irBuilderAddStringStorage(globals, <<item, 0>>)
      BY <1>3, <2>1
    <3>2. TypeOK
      BY DEF IInv
    <3>3. /\ gs \in Seq(Global) /\ DOMAIN gs = 1 .. id /\ Len(gs) = id
          /\ \A i \in DOMAIN globals : gs[i] = globals[i]
          /\ gs[id] = StringStorage(id, <<item, 0>>)
      BY <1>9, <1>2, <3>1, <3>2, StorageAppended
    <3> QED
      BY <1>8, <1>2, <1>11, <2>1, <3>3
  <2>2. CASE program[item].init # "string"
    <3>1. gs = globals /\ m = Len(globals)
      BY <1>3, <1>11, <2>2
    <3>2. m \in Nat /\ m >= Len(globals)
      BY <1>8, <3>1
    <3> QED
      BY <1>8, <2>2, <3>1, <3>2
  <2> QED
    BY <2>1, <2>2
<1>13. /\ globals' \in Seq(Global)
       /\ DOMAIN globals' = 1 .. (m + 1)
       /\ \A i \in 1 .. m : globals'[i] = gs[i]
       /\ globals'[m + 1] = g
  BY <1>10, <1>12, <1>5, <1>11, AppendProperties
<1>14. /\ DOMAIN globals \subseteq DOMAIN globals'
       /\ \A i \in DOMAIN globals : globals'[i] = globals[i]
  <2> SUFFICES ASSUME NEW i \in DOMAIN globals
               PROVE  i \in DOMAIN globals' /\ globals'[i] = globals[i]
    OBVIOUS
  <2>1. i \in 1 .. Len(globals) /\ Len(globals) \in Nat /\ m \in Nat /\ m >= Len(globals)
    BY <1>8, <1>12
  <2>2. i \in 1 .. m /\ i \in 1 .. (m + 1)
    BY <2>1
  <2>3. gs[i] = globals[i]
    BY <1>12
  <2> QED
    BY <1>13, <2>2, <2>3
<1>15. /\ ~g.constant /\ g.name = UserName(item) /\ g.name.n = item
       /\ g.type = program[item].type /\ g.initializer = irBuilderLiteralFromAst(item)
       /\ g.id = id /\ g.storage = IF program[item].init = "string" THEN id ELSE 0
  BY <1>4 DEF UserName
<1>16. ASSUME program[item].init = "string"
       PROVE  /\ m = id /\ m \in DOMAIN globals'
              /\ globals'[m] = StringStorage(m, <<item, 0>>)
  <2>1. m = id
    BY <1>12, <1>16
  <2>2. gs[m] = StringStorage(m, <<item, 0>>)
    BY <1>12, <1>16
  <2>3. m \in 1 .. m /\ m \in 1 .. (m + 1)
    BY <1>8, <2>1
  <2>4. globals'[m] = gs[m] /\ m \in DOMAIN globals'
    BY <1>13, <2>3
  <2> QED
    BY <2>1, <2>2, <2>4
<1>17. program[item].init # "string" => id = m + 1
  <2>1. program[item].init # "string" => m = Len(globals)
    BY <1>12
  <2> QED
    BY <1>2, <2>1
<1>18. TypeOK'
  <2>1. symbols' \in [DOMAIN program -> Symbol]
    BY <1>7, <1>8 DEF IInv, TypeOK, Symbol
  <2>2. pos' \in 1 .. MaxItems + 1
    BY <1>6, <1>7, BoundsAssumption
  <2>3. globals' \in Seq(Global)
    BY <1>13
  <2> QED
    BY <1>7, <2>1, <2>2, <2>3 DEF IInv, TypeOK
<1>19. GlobalsPlaced'
  <2>1. \A i \in DOMAIN globals :
          IF globals'[i].constant THEN StorageAt(i)' ELSE VariableAt(i)'
    BY <1>7, <1>14, AppendKeepsPlaces DEF IInv
  <2>2. program[item].init = "string" => globals'[m].constant /\ StorageAt(m)'
    BY <1>16 DEF StringStorage, StorageAt
  <2>3. ~globals'[m + 1].constant
    <3>1. globals'[m + 1] = g
      BY <1>13
    <3> QED
      BY <1>15, <3>1
  <2>4. VariableAt(m + 1)'
    <3>1. irBuilderLiteralFromAst(item)' = irBuilderLiteralFromAst(item)
      BY <1>7 DEF irBuilderLiteralFromAst
    <3>2. program' = program /\ item \in DOMAIN program
      BY <1>6, <1>7
    <3>3. program[item].init = "string" =>
            /\ m \in DOMAIN globals'
            /\ globals'[m].constant
            /\ globals'[m].initializer.of = <<item, 0>>
            /\ g.id = m /\ g.storage = m
      BY <1>15, <1>16 DEF StringStorage
    <3>4. (m + 1) - 1 = m
      BY <1>12
    <3>5. globals'[m + 1] = g
      BY <1>13
    <3> QED
      BY <1>15, <1>17, <3>1, <3>2, <3>3, <3>4, <3>5 DEF VariableAt
  <2>5. \A i \in DOMAIN globals' :
          \/ i \in DOMAIN globals
          \/ i = m /\ program[item].init = "string"
          \/ i = m + 1
    <3>1. m \in Nat
      BY <1>12
    <3>2. program[item].init = "string" \/ m = Len(globals)
      BY <1>12
    <3>3. m = Len(globals) \/ m = Len(globals) + 1
      BY <1>2, <1>12
    <3>4. DOMAIN globals = 1 .. Len(globals) /\ DOMAIN globals' = 1 .. (m + 1) /\ Len(globals) \in Nat
      BY <1>8, <1>13
    <3>5. ASSUME NEW i \in 1 .. (m + 1), i # m + 1
          PROVE  i \in 1 .. Len(globals) \/ (i = m /\ m # Len(globals))
      <4>1. i \in 1 .. m
        BY <3>1, <3>5
      <4>2. CASE m = Len(globals)
        BY <4>1, <4>2
      <4>3. CASE m = Len(globals) + 1
        <5>1. Len(globals) \in Nat /\ i \in 1 .. Len(globals) + 1
          BY <3>4, <4>1, <4>3
        <5>2. i \in 1 .. Len(globals) \/ i = Len(globals) + 1
          BY <5>1
        <5> QED
          BY <4>3, <5>1, <5>2
      <4> QED
        BY <3>3, <4>2, <4>3
    <3> QED
      BY <3>2, <3>4, <3>5
  <2> QED
    BY <2>1, <2>2, <2>3, <2>4, <2>5 DEF GlobalsPlaced
<1>20. SymbolsDenote'
  <2> SUFFICES ASSUME NEW n \in DOMAIN program, symbols'[n].kind = "global"
               PROVE  Denotes(globals', n, symbols'[n].id)
    BY <1>7 DEF SymbolsDenote
  <2>1. CASE n = item
    <3>1. symbols'[n].id = id
      BY <1>7, <2>1 DEF IInv, TypeOK
    <3> QED
      <4>1. globals'[m + 1] = g /\ DOMAIN globals' = 1 .. (m + 1) /\ m \in Nat
        BY <1>12, <1>13
      <4>2. m + 1 \in DOMAIN globals'
        BY <4>1
      <4>3. ~g.constant /\ g.name = UserName(n) /\ g.id = symbols'[n].id
        BY <1>15, <2>1, <3>1
      <4> QED
        BY <4>1, <4>2, <4>3 DEF Denotes
  <2>2. CASE n # item
    <3>1. symbols'[n] = symbols[n]
      BY <1>7, <2>2 DEF IInv, TypeOK
    <3>2. Denotes(globals, n, symbols[n].id)
      BY <3>1 DEF IInv, SymbolsDenote
    <3> QED
      BY <1>7, <1>14, <3>1, <3>2, AppendKeepsPlaces DEF IInv
  <2> QED
    BY <2>1, <2>2
<1>21. CodeDenotes'
  BY <1>7, <1>14, MeaningKept
<1> QED
  BY <1>18, <1>19, <1>20, <1>21 DEF IInv

\* The storage of a literal of the second stage, or the next item.
LEMMA CollectStep ==
  ASSUME IInv, irBuilderCollectStringLiterals
  PROVE  IInv'
<1>1. /\ program \in Program /\ pos \in 1 .. (MaxItems + 1) /\ pos <= Len(program)
      /\ use \in 1 .. (MaxUses + 2)
  BY DEF IInv, TypeOK, irBuilderCollectStringLiterals
<1>2. /\ pos \in DOMAIN program /\ pos \in 1 .. MaxItems /\ program[pos] \in Item
      /\ Len(program[pos].body) \in 0 .. MaxUses
  <2>1. /\ Len(program) \in 0 .. MaxItems
        /\ DOMAIN program = 1 .. Len(program)
        /\ \A n \in DOMAIN program : /\ program[n] \in Item
                                     /\ Len(program[n].body) \in 0 .. MaxUses
    BY <1>1, ProgramFacts
  <2>2. pos \in 1 .. Len(program) /\ pos \in 1 .. MaxItems
    BY <1>1, <2>1, BoundsAssumption
  <2> QED
    BY <2>1, <2>2
<1>3. CASE NextItem(Strings(pos))
  <2>1. /\ pos' = pos + 1 /\ use' = 1
        /\ UNCHANGED <<program, phase, globals, functions, symbols, code>>
    BY <1>3 DEF NextItem
  <2>2. pos' \in 1 .. MaxItems + 1 /\ use' \in 1 .. MaxUses + 2
    BY <1>2, <2>1, BoundsAssumption
  <2>3. TypeOK'
    BY <2>1, <2>2 DEF IInv, TypeOK
  <2> QED
    BY <2>1, <2>3, NothingAppended
<1>4. CASE /\ use <= Len(Strings(pos)) /\ use' = use + 1
           /\ globals' = IF Strings(pos)[use] = StringUse
                         THEN irBuilderAddStringStorage(globals, Place) ELSE globals
           /\ UNCHANGED <<program, phase, pos, functions, symbols, code>>
  <2>1. use' \in 1 .. MaxUses + 2
    <3>1. Len(Strings(pos)) \in 0 .. MaxUses + 1
      <4>1. CASE program[pos].init = "string"
        BY <4>1, BoundsAssumption DEF Strings
      <4>2. CASE program[pos].init # "string"
        BY <1>2, <4>2, BoundsAssumption DEF Strings
      <4> QED
        BY <4>1, <4>2
    <3>2. use' = use + 1 /\ use <= Len(Strings(pos))
      BY <1>4
    <3> QED
      BY <1>1, <3>1, <3>2, BoundsAssumption
  <2>2. CASE Strings(pos)[use] = StringUse
    <3>1. Place \in Place0
      <4>1. program[pos].kind # "global" => use \in 0 .. MaxUses
        <5>1. program[pos].kind # "global" => Strings(pos) = program[pos].body
          BY <1>2 DEF Strings, Item, Variable, Function, Extern
        <5>2. use <= Len(Strings(pos))
          BY <1>4
        <5> QED
          BY <1>1, <1>2, <5>1, <5>2, BoundsAssumption
      <4>2. pos \in 0 .. MaxItems /\ 0 \in 0 .. MaxUses
        BY <1>2, BoundsAssumption
      <4> QED
        BY <4>1, <4>2 DEF Place, Place0
    <3>2. PICK of \in Place0 : globals' = irBuilderAddStringStorage(globals, of)
      BY <1>4, <2>2, <3>1
    <3>3. program' = program /\ symbols' = symbols /\ code' = code
      BY <1>4
    <3>4. /\ globals' \in Seq(Global)
          /\ GlobalsPlaced'
          /\ DOMAIN globals \subseteq DOMAIN globals'
          /\ \A i \in DOMAIN globals : globals'[i] = globals[i]
      BY <3>2, <3>3, StoragePlaced
    <3>5. TypeOK'
      BY <1>4, <2>1, <3>4 DEF IInv, TypeOK
    <3>6. SymbolsDenote' /\ CodeDenotes'
      BY <3>3, <3>4, MeaningKept
    <3> QED
      BY <3>4, <3>5, <3>6 DEF IInv
  <2>3. CASE Strings(pos)[use] # StringUse
    <3>1. UNCHANGED <<program, phase, pos, globals, functions, symbols, code>>
      BY <1>4, <2>3
    <3>2. TypeOK'
      BY <2>1, <3>1 DEF IInv, TypeOK
    <3> QED
      BY <3>1, <3>2, NothingAppended
  <2> QED
    BY <2>2, <2>3
<1> QED
  BY <1>3, <1>4 DEF irBuilderCollectStringLiterals

\* An operand is emitted that denotes what is there after the step.
LEMMA EmitKeeps ==
  ASSUME IInv, program' = program, symbols' = symbols,
         DOMAIN globals \subseteq DOMAIN globals',
         \A i \in DOMAIN globals : globals'[i] = globals[i],
         NEW e \in Entry, code' = Append(code, e),
         e.kind = "global" => e.of.kind = "user" /\ Denotes(globals', e.of.n, e.id),
         e.kind = "string" => /\ e.id \in DOMAIN globals'
                              /\ globals'[e.id].constant
                              /\ globals'[e.id].initializer.of = e.place
  PROVE  code' \in Seq(Entry) /\ SymbolsDenote' /\ CodeDenotes'
<1>1. code \in Seq(Entry)
  BY DEF IInv, TypeOK
<1>2. /\ code' \in Seq(Entry)
      /\ DOMAIN code' = 1 .. (Len(code) + 1) /\ DOMAIN code = 1 .. Len(code) /\ Len(code) \in Nat
      /\ \A k \in 1 .. Len(code) : code'[k] = code[k]
      /\ code'[Len(code) + 1] = e
  BY <1>1, AppendProperties
<1>3. SymbolsDenote'
  BY MeaningKept
<1>4. \A n, id : Denotes(globals, n, id) => Denotes(globals', n, id)
  BY AppendKeepsPlaces DEF IInv
<1>5. CodeDenotes'
  <2> SUFFICES ASSUME NEW k \in DOMAIN code'
               PROVE  /\ code'[k].kind = "global" =>
                           code'[k].of.kind = "user" /\ Denotes(globals', code'[k].of.n, code'[k].id)
                      /\ code'[k].kind = "string" =>
                           /\ code'[k].id \in DOMAIN globals'
                           /\ globals'[code'[k].id].constant
                           /\ globals'[code'[k].id].initializer.of = code'[k].place
    BY DEF CodeDenotes
  <2>1. CASE k \in DOMAIN code
    <3>1. code'[k] = code[k]
      BY <1>2, <2>1
    <3>2. code[k].kind = "global" => code[k].of.kind = "user" /\ Denotes(globals, code[k].of.n, code[k].id)
      BY <2>1 DEF IInv, CodeDenotes
    <3>3. code[k].kind = "string" =>
            /\ code[k].id \in DOMAIN globals
            /\ globals[code[k].id].constant
            /\ globals[code[k].id].initializer.of = code[k].place
      BY <2>1 DEF IInv, CodeDenotes
    <3> QED
      BY <1>4, <3>1, <3>2, <3>3
  <2>2. CASE k \notin DOMAIN code
    <3>1. k = Len(code) + 1
      BY <1>2, <2>2
    <3>2. code'[k] = e
      BY <1>2, <3>1
    <3> QED
      BY <3>2
  <2> QED
    BY <2>1, <2>2
<1> QED
  BY <1>2, <1>3, <1>5

\* A name or a literal of a body is lowered, or the next item is reached.
LEMMA LowerStep ==
  ASSUME IInv, irBuilderLowerFunctionBody
  PROVE  IInv'
<1>1. /\ program \in Program /\ pos \in 1 .. (MaxItems + 1) /\ pos <= Len(program)
      /\ use \in 1 .. (MaxUses + 2)
  BY DEF IInv, TypeOK, irBuilderLowerFunctionBody
<1>2. /\ Len(program) \in 0 .. MaxItems
      /\ DOMAIN program = 1 .. Len(program)
      /\ \A n \in DOMAIN program :
           /\ program[n] \in Item
           /\ Len(program[n].body) \in 0 .. MaxUses
           /\ DOMAIN program[n].body = 1 .. Len(program[n].body)
           /\ \A k \in DOMAIN program[n].body :
                /\ program[n].body[k] \in Use
                /\ program[n].body[k].kind = "name" => program[n].body[k].item \in DOMAIN program
  BY <1>1, ProgramFacts
<1>3. pos \in 1 .. Len(program) /\ pos \in 1 .. MaxItems /\ pos \in DOMAIN program
  BY <1>1, <1>2, BoundsAssumption
<1>4. CASE NextItem(program[pos].body)
  <2>1. /\ pos' = pos + 1 /\ use' = 1
        /\ UNCHANGED <<program, phase, globals, functions, symbols, code>>
    BY <1>4 DEF NextItem
  <2>2. pos' \in 1 .. MaxItems + 1 /\ use' \in 1 .. MaxUses + 2
    BY <1>3, <2>1, BoundsAssumption
  <2>3. TypeOK'
    BY <2>1, <2>2 DEF IInv, TypeOK
  <2> QED
    BY <2>1, <2>3, NothingAppended
<1>5. ASSUME /\ use <= Len(program[pos].body)
             /\ \/ irBuilderLowerIdentifier(program[pos].body[use])
                \/ LowerCallee(program[pos].body[use])
                \/ irBuilderLowerStringLiteralRValue(program[pos].body[use])
             /\ use' = use + 1
             /\ UNCHANGED <<program, phase, pos, functions, symbols>>
      PROVE  IInv'
  <2>1. PICK u : u = program[pos].body[use]
    OBVIOUS
  <2>2. use \in 1 .. Len(program[pos].body) /\ use \in 1 .. MaxUses /\ use' \in 1 .. MaxUses + 2
    <3>1. Len(program[pos].body) \in 0 .. MaxUses /\ use <= Len(program[pos].body) /\ use' = use + 1
      BY <1>2, <1>3, <1>5
    <3> QED
      BY <1>1, <3>1, BoundsAssumption
  <2>3. u \in Use /\ (u.kind = "name" => u.item \in DOMAIN program)
    BY <1>2, <1>3, <2>1, <2>2
  <2>4. PICK place \in Place0 : place = Place
    <3>1. pos \in 0 .. MaxItems /\ use \in 0 .. MaxUses /\ 0 \in 0 .. MaxUses
      BY <1>3, <2>2, BoundsAssumption
    <3>2. Place \in Place0
      BY <3>1 DEF Place, Place0
    <3> QED
      BY <3>2
  <2>5. program' = program /\ symbols' = symbols
    BY <1>5
  <2>6. u.kind = "name" => UserName(u.item) \in Name
    <3>1. u.kind = "name" => u.item \in 1 .. MaxItems
      BY <1>2, <2>3, BoundsAssumption
    <3> QED
      BY <3>1 DEF UserName, Name
  <2>7. symbols \in [DOMAIN program -> Symbol]
    BY DEF IInv, TypeOK
  <2>8. CASE irBuilderLowerIdentifier(u)
    <3>1. PICK e : e = [kind |-> "global", of |-> UserName(u.item), id |-> symbols[u.item].id,
                        place |-> place]
      OBVIOUS
    <3>2. code' = Append(code, e) /\ globals' = globals /\ u.kind = "name"
          /\ symbols[u.item].kind = "global"
      BY <2>4, <2>8, <3>1 DEF irBuilderLowerIdentifier, Emit
    <3>3. symbols[u.item].id \in Nat
      BY <2>3, <2>7, <3>2 DEF Symbol
    <3>4. e \in Entry
      BY <2>6, <3>1, <3>2, <3>3 DEF Entry
    <3>5. Denotes(globals, u.item, symbols[u.item].id)
      BY <2>3, <3>2 DEF IInv, SymbolsDenote
    <3>6. e.kind = "global" /\ e.of.kind = "user" /\ e.of.n = u.item /\ e.id = symbols[u.item].id
      BY <3>1 DEF UserName
    <3>7. code' \in Seq(Entry) /\ SymbolsDenote' /\ CodeDenotes'
      BY <2>5, <3>2, <3>4, <3>5, <3>6, EmitKeeps
    <3>8. TypeOK'
      BY <1>5, <2>2, <3>2, <3>7 DEF IInv, TypeOK
    <3>9. GlobalsPlaced'
      BY <2>5, <3>2, AppendKeepsPlaces DEF IInv, GlobalsPlaced
    <3> QED
      BY <3>7, <3>8, <3>9 DEF IInv
  <2>9. CASE LowerCallee(u)
    <3>1. PICK e : e = [kind |-> "callee", of |-> UserName(u.item), id |-> 0, place |-> place]
      OBVIOUS
    <3>2. code' = Append(code, e) /\ globals' = globals /\ u.kind = "name"
      BY <2>4, <2>9, <3>1 DEF LowerCallee, Emit
    <3>3. e \in Entry /\ e.kind = "callee"
      BY <2>6, <3>1, <3>2 DEF Entry
    <3>4. code' \in Seq(Entry) /\ SymbolsDenote' /\ CodeDenotes'
      BY <2>5, <3>2, <3>3, EmitKeeps
    <3>5. TypeOK'
      BY <1>5, <2>2, <3>2, <3>4 DEF IInv, TypeOK
    <3>6. GlobalsPlaced'
      BY <2>5, <3>2, AppendKeepsPlaces DEF IInv, GlobalsPlaced
    <3> QED
      BY <3>4, <3>5, <3>6 DEF IInv
  <2>10. CASE irBuilderLowerStringLiteralRValue(u)
    <3>1. PICK id : id = Len(globals) + 1
      OBVIOUS
    <3>2. PICK e : e = [kind |-> "string", of |-> StorageName(id), id |-> id, place |-> place]
      OBVIOUS
    <3>3. /\ code' = Append(code, e)
          /\ globals' = irBuilderAddStringStorage(globals, place)
      BY <2>4, <2>10, <3>1, <3>2
      DEF irBuilderLowerStringLiteralRValue, Emit, irBuilderNextGlobalId
    <3>4. id \in Nat \ {0}
      BY <3>1 DEF IInv, TypeOK
    <3>5. e \in Entry
      BY <3>2, <3>4 DEF Entry, StorageName, Name
    <3>6. /\ globals' \in Seq(Global)
          /\ GlobalsPlaced'
          /\ DOMAIN globals \subseteq DOMAIN globals'
          /\ \A i \in DOMAIN globals : globals'[i] = globals[i]
          /\ id \in DOMAIN globals'
          /\ globals'[id].constant
          /\ globals'[id].initializer.of = place
      BY <2>5, <3>1, <3>3, StoragePlaced
    <3>7. e.kind = "string" /\ e.id = id /\ e.place = place
      BY <3>2
    <3>8. code' \in Seq(Entry) /\ SymbolsDenote' /\ CodeDenotes'
      BY <2>5, <3>3, <3>5, <3>6, <3>7, EmitKeeps
    <3>9. TypeOK'
      BY <1>5, <2>2, <3>6, <3>8 DEF IInv, TypeOK
    <3> QED
      BY <3>6, <3>8, <3>9 DEF IInv
  <2> QED
    BY <1>5, <2>1, <2>8, <2>9, <2>10
<1> QED
  BY <1>4, <1>5 DEF irBuilderLowerFunctionBody

\* Every step keeps the invariant.
LEMMA InvariantStep == IInv /\ [Next]_vars => IInv'
<1> SUFFICES ASSUME IInv, [Next]_vars PROVE IInv'
  OBVIOUS
<1>1. CASE PredeclareFails
  <2>1. TypeOK'
    BY <1>1 DEF IInv, TypeOK, PredeclareFails, Fail
  <2> QED
    BY <1>1, <2>1, NothingAppended DEF PredeclareFails, Fail
<1>2. CASE NextStage
  <2>1. TypeOK'
    BY <1>2, BoundsAssumption DEF IInv, TypeOK, NextStage
  <2> QED
    BY <1>2, <2>1, NothingAppended DEF NextStage
<1>3. CASE UNCHANGED vars
  <2>1. TypeOK'
    BY <1>3 DEF IInv, TypeOK, vars
  <2> QED
    BY <1>3, <2>1, NothingAppended DEF vars
<1>4. CASE Terminating
  BY <1>3, <1>4 DEF Terminating
<1> QED
  BY <1>1, <1>2, <1>3, <1>4, GlobalStep, FunctionStep, CollectStep, LowerStep DEF Next

-----------------------------------------------------------------------------
(* Theorems *)

\* irBuildModule keeps the ids, symbols and operands of the module well formed:
\* no id is 0 and every place is one of the program.
THEOREM GlobalsTyped == Spec => []TypeOK
<1>1. IInv => TypeOK
  BY DEF IInv
<1> QED
  BY <1>1, InvariantInit, InvariantStep, PTL DEF Spec

\* Whatever the order of globals, string initializers and literals in bodies,
\* an operand printed by id names the literal or variable of the source, but
\* for a variable initialized with a string, which is taken for the storage.
THEOREM OperandsAlwaysResolve == Spec => []OperandsResolve
  BY InvariantInit, InvariantStep, InvariantResolves, PTL DEF Spec

\* irPrintGlobal prints the numbers and strings that initialize globals, for
\* every program: the address it prints is that of a storage with the text.
\* Only characters and the strings of arrays are lost.
THEOREM InitializersAlwaysPrinted == Spec => []InitializersPrinted
  BY InvariantInit, InvariantStep, InvariantPrints, PTL DEF Spec

-----------------------------------------------------------------------------
(* Definitions and declarations: every name has one *)

\* A symbol says what the item is, and every item has one once the first stage
\* is over.
SymbolsTell ==
  /\ \A n \in DOMAIN program : program[n].kind \in {"global", "function", "extern"}
  /\ \A n \in DOMAIN program :
       /\ symbols[n].kind = "global" => program[n].kind = "global"
       /\ symbols[n].kind = "function" => program[n].kind # "global"
  /\ phase = "predeclare" => \A n \in DOMAIN program : n < pos => symbols[n].kind # "none"
  /\ phase \in {"collect", "lower", "built"} => \A n \in DOMAIN program : symbols[n].kind # "none"

\* A variable stands once in the globals, and only when it was declared.
VariablesOnce ==
  \A i \in DOMAIN globals :
    ~globals[i].constant =>
      /\ symbols[globals[i].name.n].kind = "global"
      /\ \A j \in DOMAIN globals :
           ~globals[j].constant /\ globals[j].name = globals[i].name => i = j

\* The module's functions are the functions declared that have a body, each
\* once.
FunctionsOnce ==
  /\ \A k \in DOMAIN functions : /\ program[functions[k]].kind = "function"
                                 /\ symbols[functions[k]].kind = "function"
  /\ \A k, l \in DOMAIN functions : functions[k] = functions[l] => k = l
  /\ \A n \in DOMAIN program :
       program[n].kind = "function" /\ symbols[n].kind = "function" =>
         \E k \in DOMAIN functions : functions[k] = n

\* A callee is an item of the program.
CalleesKnown ==
  \A k \in DOMAIN code :
    code[k].kind = "callee" => \E n \in DOMAIN program : code[k].of = UserName(n)

NamesInv == SymbolsTell /\ VariablesOnce /\ FunctionsOnce /\ CalleesKnown

\* Nothing has been defined at first.
LEMMA NamesInit == Init => NamesInv
<1> SUFFICES ASSUME Init PROVE NamesInv
  OBVIOUS
<1>1. /\ DOMAIN program = 1 .. Len(program)
      /\ \A n \in DOMAIN program : program[n] \in Item
  BY ProgramFacts DEF Init
<1>2. SymbolsTell
  BY <1>1 DEF Init, SymbolsTell, NoSymbol, Item, Variable, Function, Extern
<1>3. VariablesOnce /\ FunctionsOnce /\ CalleesKnown
  BY DEF Init, VariablesOnce, FunctionsOnce, CalleesKnown, NoSymbol
<1> QED
  BY <1>2, <1>3 DEF NamesInv

\* Storages that are appended define no variable.
LEMMA StoragesDefineNoVariable ==
  ASSUME VariablesOnce, symbols' = symbols,
         \A i \in DOMAIN globals' :
           globals'[i].constant \/ (i \in DOMAIN globals /\ globals'[i] = globals[i])
  PROVE  VariablesOnce'
BY DEF VariablesOnce

\* The steps after the first stage define no names but those of storages.
LEMMA LaterNames ==
  ASSUME IInv, NamesInv,
         UNCHANGED <<program, symbols, functions, phase>>, phase # "predeclare",
         \A i \in DOMAIN globals' :
           globals'[i].constant \/ (i \in DOMAIN globals /\ globals'[i] = globals[i]),
         CalleesKnown'
  PROVE  NamesInv'
<1>1. VariablesOnce'
  BY StoragesDefineNoVariable DEF NamesInv
<1>2. SymbolsTell' /\ FunctionsOnce'
  BY DEF NamesInv, SymbolsTell, FunctionsOnce
<1> QED
  BY <1>1, <1>2 DEF NamesInv

\* What irBuilderAddStringStorage leaves in the module besides the storage.
LEMMA OnlyAStorage ==
  ASSUME TypeOK, NEW of, NEW gs, gs = irBuilderAddStringStorage(globals, of)
  PROVE  /\ \E S : gs \in Seq(S)
         /\ \A i \in DOMAIN gs : gs[i].constant \/ (i \in DOMAIN globals /\ gs[i] = globals[i])
<1> DEFINE n == Len(globals) + 1
           S == Global \cup {StringStorage(n, of)}
<1>1. /\ globals \in Seq(S) /\ StringStorage(n, of) \in S
      /\ DOMAIN globals = 1 .. Len(globals) /\ Len(globals) \in Nat
  BY DEF TypeOK
<1>2. /\ DOMAIN gs = 1 .. n
      /\ \A i \in DOMAIN globals : gs[i] = globals[i]
      /\ gs[n] = StringStorage(n, of)
      /\ gs \in Seq(S)
  <2>1. gs = Append(globals, StringStorage(n, of))
    BY DEF irBuilderAddStringStorage, irBuilderNextGlobalId
  <2> HIDE DEF S
  <2> QED
    BY <1>1, <2>1, AppendProperties
<1>3. gs[n].constant
  BY <1>2 DEF StringStorage
<1>4. \A i \in DOMAIN gs : i \in DOMAIN globals \/ i = n
  BY <1>1, <1>2
<1> HIDE DEF S, n
<1> QED
  BY <1>2, <1>3, <1>4

\* The step of a variable: it was not declared, and stands once afterwards.
LEMMA GlobalNames ==
  ASSUME IInv, IInv', NamesInv, irBuilderPredeclareGlobal
  PROVE  NamesInv'
<1> DEFINE id == irBuilderNextGlobalId(globals)
           gs == IF program[pos].init = "string"
                 THEN irBuilderAddStringStorage(globals, <<pos, 0>>) ELSE globals
           g == [name |-> UserName(pos), id |-> id, type |-> program[pos].type,
                 constant |-> FALSE, initializer |-> irBuilderLiteralFromAst(pos),
                 storage |-> IF program[pos].init = "string" THEN id ELSE 0]
<1>1. /\ globals' = Append(gs, g)
      /\ symbols[pos] = NoSymbol
      /\ symbols' = [symbols EXCEPT ![pos] = [kind |-> "global", id |-> id]]
      /\ pos' = pos + 1 /\ phase = "predeclare" /\ program[pos].kind = "global"
      /\ UNCHANGED <<program, phase, functions, code>>
  BY DEF irBuilderPredeclareGlobal, Declare
<1>2. /\ pos \in DOMAIN program /\ pos \in Nat /\ DOMAIN program \subseteq Nat
      /\ symbols \in [DOMAIN program -> Symbol]
  BY ProgramFacts DEF IInv, TypeOK, irBuilderPredeclareGlobal
<1>3. symbols[pos].kind = "none" /\ symbols'[pos].kind = "global"
      /\ \A n \in DOMAIN program : n # pos => symbols'[n] = symbols[n]
  BY <1>1, <1>2 DEF NoSymbol
<1>4. SymbolsTell'
  BY <1>1, <1>2, <1>3 DEF NamesInv, SymbolsTell
<1>5. FunctionsOnce'
  <2>1. \A k \in DOMAIN functions : functions[k] \in DOMAIN program
    BY DEF IInv, TypeOK
  <2>2. \A k \in DOMAIN functions : functions[k] # pos
    BY <1>3 DEF NamesInv, FunctionsOnce
  <2> QED
    BY <1>1, <1>3, <2>1, <2>2 DEF NamesInv, FunctionsOnce
<1>6. CalleesKnown'
  BY <1>1 DEF NamesInv, CalleesKnown
<1>7. /\ \E S : gs \in Seq(S)
      /\ \A i \in DOMAIN gs : gs[i].constant \/ (i \in DOMAIN globals /\ gs[i] = globals[i])
  <2>1. globals \in Seq(Global) /\ TypeOK
    BY DEF IInv, TypeOK
  <2>2. CASE program[pos].init = "string"
    BY <2>1, <2>2, OnlyAStorage
  <2> QED
    BY <2>1, <2>2
<1>8. PICK S : gs \in Seq(S) /\ g \in S
  <2>1. PICK S : gs \in Seq(S)
    BY <1>7
  <2>2. gs \in Seq(S \cup {g}) /\ g \in S \cup {g}
    <3> HIDE DEF gs, g
    <3> QED
      BY <2>1
  <2> QED
    BY <2>2
<1>9. /\ DOMAIN globals' = 1 .. (Len(gs) + 1) /\ DOMAIN gs = 1 .. Len(gs) /\ Len(gs) \in Nat
      /\ \A i \in DOMAIN gs : globals'[i] = gs[i]
      /\ globals'[Len(gs) + 1] = g
  <2> HIDE DEF gs, g
  <2> QED
    BY <1>1, <1>8, AppendProperties
<1>10. VariablesOnce'
  <2>1. ~g.constant /\ g.name = UserName(pos) /\ g.name.n = pos
    BY DEF UserName
  <2>2. \A i \in DOMAIN globals' :
          \/ globals'[i].constant
          \/ i \in DOMAIN globals /\ globals'[i] = globals[i]
          \/ i = Len(gs) + 1 /\ globals'[i] = g
    <3>1. \A i \in DOMAIN globals' : i \in DOMAIN gs \/ i = Len(gs) + 1
      <4> HIDE DEF gs
      <4> QED
        BY <1>9
    <3> HIDE DEF gs, g
    <3> QED
      BY <1>7, <1>9, <3>1
  <2>3. ASSUME NEW i \in DOMAIN globals, ~globals[i].constant
        PROVE  /\ globals[i].name = UserName(globals[i].name.n)
               /\ globals[i].name.n \in DOMAIN program /\ globals[i].name.n # pos
               /\ symbols'[globals[i].name.n].kind = "global"
    <3>1. VariableAt(i) /\ symbols[globals[i].name.n].kind = "global"
      BY <2>3 DEF IInv, GlobalsPlaced, NamesInv, VariablesOnce
    <3> QED
      BY <1>3, <3>1 DEF VariableAt
  <2>4. \A i \in DOMAIN globals : ~globals[i].constant => globals[i].name # g.name
    BY <2>1, <2>3
  <2>5. ASSUME NEW i \in DOMAIN globals', ~globals'[i].constant
        PROVE  symbols'[globals'[i].name.n].kind = "global"
    <3> HIDE DEF g, gs
    <3> QED
      BY <1>3, <2>1, <2>2, <2>3, <2>5
  <2>6. ASSUME NEW i \in DOMAIN globals', NEW j \in DOMAIN globals',
               ~globals'[i].constant, ~globals'[j].constant, globals'[i].name = globals'[j].name
        PROVE  i = j
    <3>1. \A k, l \in DOMAIN globals :
            ~globals[k].constant /\ ~globals[l].constant /\ globals[k].name = globals[l].name => k = l
      BY DEF NamesInv, VariablesOnce
    <3> HIDE DEF g, gs
    <3>2. CASE i \in DOMAIN globals /\ globals'[i] = globals[i]
      BY <2>2, <2>4, <2>6, <3>1, <3>2
    <3>3. CASE i = Len(gs) + 1 /\ globals'[i] = g
      BY <2>2, <2>4, <2>6, <3>3
    <3> QED
      BY <2>2, <2>6, <3>2, <3>3
  <2> QED
    BY <2>5, <2>6 DEF VariablesOnce
<1> QED
  BY <1>4, <1>5, <1>6, <1>10 DEF NamesInv

\* The step of a function: it was not declared, and is defined once if it has a
\* body.
LEMMA FunctionNames ==
  ASSUME IInv, IInv', NamesInv, irBuilderPredeclareFunction \/ irBuilderPredeclareExternFunction
  PROVE  NamesInv'
<1>1. /\ symbols[pos] = NoSymbol
      /\ symbols' = [symbols EXCEPT ![pos] = [kind |-> "function", id |-> 0]]
      /\ pos' = pos + 1 /\ phase = "predeclare"
      /\ UNCHANGED <<program, phase, globals, code>>
      /\ \/ program[pos].kind = "function" /\ functions' = Append(functions, pos)
         \/ program[pos].kind = "extern" /\ functions' = functions
  BY DEF irBuilderPredeclareFunction, irBuilderPredeclareExternFunction, Declare
<1>2. /\ pos \in DOMAIN program /\ pos \in Nat /\ DOMAIN program \subseteq Nat
      /\ symbols \in [DOMAIN program -> Symbol]
      /\ functions \in Seq(DOMAIN program)
  BY ProgramFacts
  DEF IInv, TypeOK, irBuilderPredeclareFunction, irBuilderPredeclareExternFunction
<1>3. symbols[pos].kind = "none" /\ symbols'[pos].kind = "function"
      /\ \A n \in DOMAIN program : n # pos => symbols'[n] = symbols[n]
  BY <1>1, <1>2 DEF NoSymbol
<1>4. program[pos].kind # "global"
  BY <1>1
<1>5. SymbolsTell'
  BY <1>1, <1>2, <1>3, <1>4 DEF NamesInv, SymbolsTell
<1>6. CalleesKnown'
  BY <1>1 DEF NamesInv, CalleesKnown
<1>7. VariablesOnce'
  <2>1. ASSUME NEW i \in DOMAIN globals, ~globals[i].constant
        PROVE  symbols'[globals[i].name.n].kind = "global"
    <3>1. VariableAt(i) /\ symbols[globals[i].name.n].kind = "global"
      BY <2>1 DEF IInv, GlobalsPlaced, NamesInv, VariablesOnce
    <3> QED
      BY <1>3, <3>1 DEF VariableAt
  <2> QED
    BY <1>1, <2>1 DEF NamesInv, VariablesOnce
<1>8. \A k \in DOMAIN functions : functions[k] \in DOMAIN program /\ functions[k] # pos
  BY <1>2, <1>3 DEF NamesInv, FunctionsOnce
<1>9. FunctionsOnce'
  <2>1. CASE program[pos].kind = "extern" /\ functions' = functions
    BY <1>1, <1>3, <1>8, <2>1 DEF NamesInv, FunctionsOnce
  <2>2. CASE program[pos].kind = "function" /\ functions' = Append(functions, pos)
    <3>1. /\ DOMAIN functions' = 1 .. (Len(functions) + 1)
          /\ DOMAIN functions = 1 .. Len(functions) /\ Len(functions) \in Nat
          /\ \A k \in DOMAIN functions : functions'[k] = functions[k]
          /\ functions'[Len(functions) + 1] = pos
      BY <1>2, <2>2, AppendProperties
    <3>2. \A k \in DOMAIN functions' : k \in DOMAIN functions \/ k = Len(functions) + 1
      BY <3>1
    <3>3. DOMAIN functions \subseteq DOMAIN functions' /\ Len(functions) + 1 \in DOMAIN functions'
      BY <3>1
    <3>4. \A k \in DOMAIN functions' : /\ program'[functions'[k]].kind = "function"
                                       /\ symbols'[functions'[k]].kind = "function"
      BY <1>1, <1>3, <1>8, <2>2, <3>1, <3>2 DEF NamesInv, FunctionsOnce
    <3>5. \A k, l \in DOMAIN functions' : functions'[k] = functions'[l] => k = l
      BY <1>8, <3>1, <3>2 DEF NamesInv, FunctionsOnce
    <3>6. ASSUME NEW n \in DOMAIN program, program[n].kind = "function",
                 symbols'[n].kind = "function"
          PROVE  \E k \in DOMAIN functions' : functions'[k] = n
      <4>1. CASE n = pos
        BY <3>1, <3>3, <4>1
      <4>2. CASE n # pos
        <5>1. PICK k \in DOMAIN functions : functions[k] = n
          BY <1>3, <3>6, <4>2 DEF NamesInv, FunctionsOnce
        <5> QED
          BY <3>1, <3>3, <5>1
      <4> QED
        BY <4>1, <4>2
    <3> QED
      BY <1>1, <3>4, <3>5, <3>6 DEF FunctionsOnce
  <2> QED
    BY <1>1, <2>1, <2>2
<1> QED
  BY <1>5, <1>6, <1>7, <1>9 DEF NamesInv

\* The second stage defines storages only.
LEMMA CollectNames ==
  ASSUME IInv, IInv', NamesInv, irBuilderCollectStringLiterals
  PROVE  NamesInv'
<1>1. /\ UNCHANGED <<program, symbols, functions, phase, code>> /\ phase = "collect"
      /\ globals' = globals \/ \E of : globals' = irBuilderAddStringStorage(globals, of)
  BY DEF irBuilderCollectStringLiterals, NextItem
<1>2. \A i \in DOMAIN globals' :
        globals'[i].constant \/ (i \in DOMAIN globals /\ globals'[i] = globals[i])
  BY <1>1, OnlyAStorage DEF IInv
<1>3. CalleesKnown'
  BY <1>1 DEF NamesInv, CalleesKnown
<1> QED
  BY <1>1, <1>2, <1>3, LaterNames

\* The third stage defines storages only, and the callees it emits are items.
LEMMA LowerNames ==
  ASSUME IInv, IInv', NamesInv, irBuilderLowerFunctionBody
  PROVE  NamesInv'
<1>1. /\ UNCHANGED <<program, symbols, functions, phase>> /\ phase = "lower"
      /\ globals' = globals \/ \E of : globals' = irBuilderAddStringStorage(globals, of)
  BY DEF irBuilderLowerFunctionBody, NextItem, irBuilderLowerIdentifier, LowerCallee,
         irBuilderLowerStringLiteralRValue
<1>2. \A i \in DOMAIN globals' :
        globals'[i].constant \/ (i \in DOMAIN globals /\ globals'[i] = globals[i])
  BY <1>1, OnlyAStorage DEF IInv
<1>3. CASE NextItem(program[pos].body)
  <2>1. CalleesKnown'
    BY <1>3 DEF NamesInv, CalleesKnown, NextItem
  <2> QED
    BY <1>1, <1>2, <2>1, LaterNames
<1>4. ASSUME NEW e, code' = Append(code, e),
             e.kind = "callee" => \E n \in DOMAIN program : e.of = UserName(n)
      PROVE  NamesInv'
  <2>1. code \in Seq(Entry \cup {e}) /\ e \in Entry \cup {e}
    BY DEF IInv, TypeOK
  <2>2. /\ DOMAIN code' = 1 .. (Len(code) + 1) /\ DOMAIN code = 1 .. Len(code) /\ Len(code) \in Nat
        /\ \A k \in 1 .. Len(code) : code'[k] = code[k]
        /\ code'[Len(code) + 1] = e
    BY <1>4, <2>1, AppendProperties
  <2>3. \A k \in DOMAIN code' : code'[k] = e \/ (k \in DOMAIN code /\ code'[k] = code[k])
    BY <2>2
  <2>4. CalleesKnown'
    BY <1>1, <1>4, <2>3 DEF NamesInv, CalleesKnown
  <2> QED
    BY <1>1, <1>2, <2>4, LaterNames
<1>5. ASSUME use <= Len(program[pos].body), LowerCallee(program[pos].body[use])
      PROVE  NamesInv'
  <2> DEFINE u == program[pos].body[use]
             e == [kind |-> "callee", of |-> UserName(u.item), id |-> 0, place |-> Place]
  <2>1. code' = Append(code, e) /\ u.kind = "name" /\ e.of = UserName(u.item)
    BY <1>5 DEF LowerCallee, Emit
  <2>2. u.item \in DOMAIN program
    <3>1. /\ Len(program) \in 0 .. MaxItems /\ DOMAIN program = 1 .. Len(program)
          /\ \A n \in DOMAIN program :
               /\ Len(program[n].body) \in 0 .. MaxUses
               /\ DOMAIN program[n].body = 1 .. Len(program[n].body)
               /\ \A k \in DOMAIN program[n].body :
                    program[n].body[k].kind = "name" => program[n].body[k].item \in DOMAIN program
      BY ProgramFacts DEF IInv, TypeOK
    <3>2. pos \in Nat \ {0} /\ pos <= Len(program) /\ use \in Nat \ {0}
      BY BoundsAssumption DEF IInv, TypeOK, irBuilderLowerFunctionBody
    <3>3. pos \in DOMAIN program
      BY <3>1, <3>2
    <3>4. use \in DOMAIN program[pos].body
      BY <1>5, <3>1, <3>2, <3>3
    <3> QED
      BY <2>1, <3>1, <3>3, <3>4
  <2> HIDE DEF e, u
  <2> QED
    BY <1>4, <2>1, <2>2
<1>6. CASE irBuilderLowerIdentifier(program[pos].body[use])
  <2>1. PICK e : code' = Append(code, e) /\ e.kind = "global"
    BY <1>6 DEF irBuilderLowerIdentifier, Emit
  <2> QED
    BY <1>4, <2>1
<1>7. CASE irBuilderLowerStringLiteralRValue(program[pos].body[use])
  <2>1. PICK e : code' = Append(code, e) /\ e.kind = "string"
    BY <1>7 DEF irBuilderLowerStringLiteralRValue, Emit
  <2> QED
    BY <1>4, <2>1
<1> QED
  BY <1>3, <1>5, <1>6, <1>7 DEF irBuilderLowerFunctionBody

\* Every step keeps the invariant; a stage is left when every item was visited.
LEMMA NamesStep == IInv /\ NamesInv /\ [Next]_vars => NamesInv'
<1> SUFFICES ASSUME IInv, NamesInv, [Next]_vars PROVE NamesInv'
  OBVIOUS
<1>0. IInv'
  BY InvariantStep
<1>1. ASSUME UNCHANGED <<program, globals, functions, symbols, code>>, SymbolsTell'
      PROVE  NamesInv'
  BY <1>1 DEF NamesInv, VariablesOnce, FunctionsOnce, CalleesKnown
<1>2. CASE PredeclareFails
  <2>1. SymbolsTell'
    BY <1>2 DEF PredeclareFails, Fail, NamesInv, SymbolsTell
  <2> QED
    BY <1>1, <1>2, <2>1 DEF PredeclareFails, Fail
<1>3. CASE NextStage
  <2>1. \A n \in DOMAIN program : n < pos
    BY <1>3, ProgramFacts DEF IInv, TypeOK, NextStage
  <2>2. \A n \in DOMAIN program : symbols[n].kind # "none"
    BY <1>3, <2>1 DEF NextStage, NamesInv, SymbolsTell
  <2>3. phase' # "predeclare" /\ UNCHANGED <<program, globals, functions, symbols, code>>
    BY <1>3 DEF NextStage
  <2>4. SymbolsTell'
    BY <2>2, <2>3 DEF NamesInv, SymbolsTell
  <2> QED
    BY <1>1, <2>3, <2>4
<1>4. CASE UNCHANGED vars
  BY <1>1, <1>4 DEF vars, NamesInv, SymbolsTell
<1>5. CASE Terminating
  BY <1>4, <1>5 DEF Terminating
<1> QED
  BY <1>0, <1>2, <1>3, <1>4, <1>5, GlobalNames, FunctionNames, CollectNames, LowerNames DEF Next

\* What the printer finds for an operand is a global of the module.
LEMMA OperandFound ==
  ASSUME IInv, NEW k \in DOMAIN code, code[k].kind # "callee"
  PROVE  \E i \in DOMAIN globals : irPrintOperand(code[k]) = globals[i].name
<1> DEFINE found == {i \in DOMAIN globals : globals[i].id = code[k].id}
<1>1. TypeOK /\ GlobalsPlaced /\ code[k] \in Entry
  BY DEF IInv, TypeOK
<1>2. PICK i \in DOMAIN globals : globals[i].id = i /\ i = code[k].id
  <2>1. CASE code[k].kind = "string"
    BY <2>1 DEF IInv, CodeDenotes, GlobalsPlaced, StorageAt
  <2>2. CASE code[k].kind = "global"
    <3>1. PICK j \in DOMAIN globals : ~globals[j].constant /\ globals[j].id = code[k].id
      BY <2>2 DEF IInv, CodeDenotes, Denotes
    <3>2. VariableAt(j)
      BY <3>1 DEF IInv, GlobalsPlaced
    <3>3. CASE globals[j].id = j
      BY <3>1, <3>3
    <3>4. CASE globals[j].id = j - 1 /\ j - 1 \in DOMAIN globals /\ globals[j - 1].constant
      BY <1>1, <3>1, <3>4 DEF GlobalsPlaced, StorageAt
    <3> QED
      BY <3>2, <3>3, <3>4 DEF VariableAt
  <2> QED
    BY <1>1, <2>1, <2>2 DEF Entry
<1>3. irPrinterFindGlobalById(code[k].id) = globals[i]
  BY <1>1, <1>2, FindPlaced
<1> QED
  BY <1>2, <1>3 DEF irPrintOperand

\* In the text of a module every name is defined or declared once.
LEMMA NamesOnce == IInv /\ NamesInv => EveryNameDefinedOnce
<1> SUFFICES ASSUME IInv, NamesInv, phase = "built" PROVE EveryNameDefinedOnce
  BY DEF EveryNameDefinedOnce
<1> DEFINE G(n) == {k \in DOMAIN globals : globals[k].name = n}
           F(n) == {k \in DOMAIN functions : UserName(functions[k]) = n}
           E(n) == {i \in irPrintExternalDeclarations : UserName(i) = n}
           Defined(n) == {<<"global", k>> : k \in G(n)}
             \cup {<<"define", k>> : k \in F(n)}
             \cup {<<"declare", i>> : i \in E(n)}
           Once(n) == \E d \in Defined(n) : Defined(n) = {d}
<1>1. ASSUME NEW k \in DOMAIN globals, globals[k].constant PROVE Once(globals[k].name)
  <2>1. globals[k].name = StorageName(k)
    BY <1>1 DEF IInv, GlobalsPlaced, StorageAt
  <2>2. \A n : UserName(n) # StorageName(k)
    BY DEF UserName, StorageName
  <2>3. ASSUME NEW j \in DOMAIN globals, globals[j].name = StorageName(k) PROVE j = k
    <3>1. CASE globals[j].constant
      <4>1. globals[j].name = StorageName(j)
        BY <3>1 DEF IInv, GlobalsPlaced, StorageAt
      <4>2. StorageName(j).n = StorageName(k).n
        BY <2>3, <4>1
      <4> QED
        BY <4>2 DEF StorageName
    <3>2. CASE ~globals[j].constant
      BY <2>2, <2>3, <3>2 DEF IInv, GlobalsPlaced, VariableAt
    <3> QED
      BY <3>1, <3>2
  <2>4. Defined(StorageName(k)) = {<<"global", k>>}
    BY <2>1, <2>2, <2>3
  <2> QED
    BY <2>1, <2>4
<1>2. ASSUME NEW i \in DOMAIN program PROVE Once(UserName(i))
  <2>1. \A n \in DOMAIN program : UserName(n) = UserName(i) => n = i
    BY DEF UserName
  <2>2. /\ \A k \in DOMAIN functions : functions[k] \in DOMAIN program
        /\ \A n \in irPrintExternalDeclarations : n \in DOMAIN program
        /\ symbols[i].kind \in {"global", "function"}
    <3>1. symbols[i] \in Symbol /\ symbols[i].kind # "none"
      BY DEF IInv, TypeOK, NamesInv, SymbolsTell
    <3> QED
      BY <3>1 DEF IInv, TypeOK, irPrintExternalDeclarations, Symbol
  <2>3. ASSUME NEW k \in G(UserName(i)) PROVE ~globals[k].constant /\ globals[k].name.n = i
    <3>1. globals[k].constant => globals[k].name = StorageName(k)
      BY DEF IInv, GlobalsPlaced, StorageAt
    <3>2. UserName(i).kind # StorageName(k).kind /\ UserName(i).n = i
      BY DEF UserName, StorageName
    <3> QED
      BY <3>1, <3>2
  <2>4. CASE symbols[i].kind = "global"
    <3>1. PICK k \in DOMAIN globals : ~globals[k].constant /\ globals[k].name = UserName(i)
      BY <2>4 DEF IInv, SymbolsDenote, Denotes
    <3>2. G(UserName(i)) = {k}
      BY <2>3, <3>1 DEF NamesInv, VariablesOnce
    <3>3. F(UserName(i)) = {}
      BY <2>1, <2>2, <2>4 DEF NamesInv, FunctionsOnce
    <3>4. E(UserName(i)) = {}
      BY <2>1, <2>2, <2>4 DEF irPrintExternalDeclarations
    <3>5. Defined(UserName(i)) = {<<"global", k>>}
      <4> HIDE DEF G, F, E
      <4> QED
        BY <3>2, <3>3, <3>4
    <3> QED
      BY <3>5
  <2>5. CASE symbols[i].kind = "function"
    <3>1. G(UserName(i)) = {}
      BY <2>3, <2>5 DEF NamesInv, VariablesOnce
    <3>2. CASE \E k \in DOMAIN functions : functions[k] = i
      <4>1. PICK k \in DOMAIN functions : functions[k] = i
        BY <3>2
      <4>2. F(UserName(i)) = {k}
        BY <2>1, <2>2, <4>1 DEF NamesInv, FunctionsOnce
      <4>3. E(UserName(i)) = {}
        BY <2>1, <2>2, <4>1 DEF irPrintExternalDeclarations
      <4>4. Defined(UserName(i)) = {<<"define", k>>}
        <5> HIDE DEF G, F, E
        <5> QED
          BY <3>1, <4>2, <4>3
      <4> QED
        BY <4>4
    <3>3. CASE ~ \E k \in DOMAIN functions : functions[k] = i
      <4>1. F(UserName(i)) = {}
        BY <2>1, <2>2, <3>3
      <4>2. i \in irPrintExternalDeclarations
        BY <2>5, <3>3 DEF irPrintExternalDeclarations, IInv, TypeOK
      <4>3. E(UserName(i)) = {i}
        BY <2>1, <2>2, <4>2
      <4>4. Defined(UserName(i)) = {<<"declare", i>>}
        <5> HIDE DEF G, F, E
        <5> QED
          BY <3>1, <4>1, <4>3
      <4> QED
        BY <4>4
    <3> QED
      BY <3>2, <3>3
  <2> QED
    BY <2>2, <2>4, <2>5
<1>3. ASSUME NEW k \in DOMAIN globals PROVE Once(globals[k].name)
  <2>1. CASE ~globals[k].constant
    <3>1. globals[k].name = UserName(globals[k].name.n) /\ globals[k].name.n \in DOMAIN program
      BY <2>1 DEF IInv, GlobalsPlaced, VariableAt
    <3> HIDE DEF Once
    <3> QED
      BY <1>2, <3>1
  <2> QED
    BY <1>1, <2>1
<1>4. ASSUME NEW k \in DOMAIN code PROVE Once(irPrintOperand(code[k]))
  <2> HIDE DEF Once
  <2>1. CASE code[k].kind = "callee"
    <3>1. PICK n \in DOMAIN program : code[k].of = UserName(n)
      BY <2>1 DEF NamesInv, CalleesKnown
    <3> QED
      BY <1>2, <2>1, <3>1 DEF irPrintOperand
  <2>2. CASE code[k].kind # "callee"
    BY <1>3, <2>2, OperandFound
  <2> QED
    BY <2>1, <2>2
<1> QED
  BY <1>2, <1>3, <1>4 DEF EveryNameDefinedOnce

\* The module that irBuildModule returns, printed, is one that LLVM's assembler
\* can name things in: each global, storage, definition and declaration has a
\* name of its own, and no operand or call uses a name that has none.
THEOREM NamesAlwaysDefinedOnce == Spec => []EveryNameDefinedOnce
<1>1. Init => IInv /\ NamesInv
  BY InvariantInit, NamesInit
<1>2. IInv /\ NamesInv /\ [Next]_vars => IInv' /\ NamesInv'
  BY InvariantStep, NamesStep
<1> QED
  BY <1>1, <1>2, NamesOnce, PTL DEF Spec

=============================================================================
