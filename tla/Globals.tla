------------------------------ MODULE Globals ------------------------------
(***************************************************************************)
(* ir_builder_module.c: the three stages of irBuildModule, the globals and *)
(* string storages they append to the module and the ids that operands use *)
(* to refer to them, and what ir_printer.c makes of the globals, the       *)
(* external declarations and the operands that refer to either.            *)
(*                                                                         *)
(* A program is a sequence of file-scope items.  The semantic pass has     *)
(* accepted it, so names are distinct, and the n-th item may as well be    *)
(* named n.  A literal is known by where it stands: item and use, use 0    *)
(* for the initializer of a global.                                        *)
(***************************************************************************)
EXTENDS Naturals, Sequences

CONSTANTS
  MaxItems,     \* bound: items of a program
  MaxUses       \* bound: names and string literals in a function body

ASSUME BoundsAssumption == MaxItems \in Nat /\ MaxUses \in Nat

-----------------------------------------------------------------------------
(* The program *)

\* What a function body makes of globals: a string literal, or the name of
\* another item, a variable or the callee of a call.
StringUse == [kind |-> "string", item |-> 0]
Use == {StringUse} \cup [kind : {"name"}, item : 1 .. MaxItems]

\* The types are told apart as irPrintGlobal does; "unknown" is one that
\* irBuilderTypeFromAst has no type for.
Variable == [kind : {"global"}, init : {"none"}, body : {<<>>},
             type : {"scalar", "pointer", "array", "unknown"}]
  \cup [kind : {"global"}, init : {"number", "char"}, body : {<<>>}, type : {"scalar"}]
  \cup [kind : {"global"}, init : {"string"}, body : {<<>>}, type : {"pointer", "array"}]

Function == [kind : {"function"}, init : {"none"}, type : {"scalar", "unknown"},
             body : UNION {[1 .. n -> Use] : n \in 0 .. MaxUses}]

Extern == [kind : {"extern"}, init : {"none"}, type : {"scalar", "unknown"}, body : {<<>>}]

Item == Variable \cup Function \cup Extern

\* A body names variables declared before it, and functions anywhere.
Accepted(p) ==
  \A i \in DOMAIN p : \A k \in DOMAIN p[i].body :
    LET u == p[i].body[k]
    IN  u.kind = "name" => /\ u.item \in DOMAIN p
                           /\ p[u.item].kind = "global" => u.item < i

Program == {p \in UNION {[1 .. n -> Item] : n \in 0 .. MaxItems} : Accepted(p)}

-----------------------------------------------------------------------------
(* The module under construction *)

VARIABLES
  program,
  phase,        \* the stage of irBuildModule; "built" or "failed" at the end
  pos,          \* the item the stage is at
  use,          \* and the use in it
  globals,      \* module->global_items
  functions,    \* module->functions, by item
  symbols,      \* module->global_scope, by item
  code          \* the operands and callees emitted, with what they stand for

vars == <<program, phase, pos, use, globals, functions, symbols, code>>

NoLiteral == [kind |-> "none", of |-> <<0, 0>>]
NoSymbol == [kind |-> "none", id |-> 0]

UserName(i) == [kind |-> "user", n |-> i]
StorageName(id) == [kind |-> ".str", n |-> id]

Init ==
  /\ program \in Program
  /\ phase = "predeclare"
  /\ pos = 1
  /\ use = 1
  /\ globals = <<>>
  /\ functions = <<>>
  /\ symbols = [i \in DOMAIN program |-> NoSymbol]
  /\ code = <<>>

\* Mutant: ids start at 0.
NextGlobalId_FromZero(gs) == Len(gs)

irBuilderNextGlobalId(gs) == Len(gs) + 1

\* A literal that is neither number, boolean nor string is none.
irBuilderLiteralFromAst(i) ==
  IF program[i].init \in {"number", "string"}
  THEN [kind |-> program[i].init, of |-> <<i, 0>>]
  ELSE NoLiteral

StringStorage(id, of) ==
  [name |-> StorageName(id), id |-> id, type |-> "array", constant |-> TRUE,
   initializer |-> [kind |-> "string", of |-> of], storage |-> 0]

\* The id of the storage it makes is irBuilderNextGlobalId(gs).
irBuilderAddStringStorage(gs, of) ==
  Append(gs, StringStorage(irBuilderNextGlobalId(gs), of))

\* irScopeDeclare would refuse a name that is there.
Declare(i, symbol) ==
  /\ symbols[i] = NoSymbol
  /\ symbols' = [symbols EXCEPT ![i] = symbol]

-----------------------------------------------------------------------------
(* First stage: every item is declared. *)

Fail == phase' = "failed" /\ UNCHANGED <<program, pos, use, globals, functions, symbols, code>>

\* The id is taken before a string storage is made, which then has the same.
irBuilderPredeclareGlobal ==
  /\ phase = "predeclare" /\ pos <= Len(program)
  /\ program[pos].kind = "global" /\ program[pos].type # "unknown"
  /\ LET id == irBuilderNextGlobalId(globals)
         stored == program[pos].init = "string"
         with == IF stored THEN irBuilderAddStringStorage(globals, <<pos, 0>>) ELSE globals
     IN  /\ globals' = Append(with,
              [name |-> UserName(pos), id |-> id, type |-> program[pos].type, constant |-> FALSE,
               initializer |-> irBuilderLiteralFromAst(pos),
               storage |-> IF stored THEN irBuilderNextGlobalId(globals) ELSE 0])
         /\ Declare(pos, [kind |-> "global", id |-> id])
  /\ pos' = pos + 1
  /\ UNCHANGED <<program, phase, use, functions, code>>

irBuilderPredeclareFunction ==
  /\ phase = "predeclare" /\ pos <= Len(program)
  /\ program[pos].kind = "function" /\ program[pos].type # "unknown"
  /\ Declare(pos, [kind |-> "function", id |-> 0])
  /\ functions' = Append(functions, pos)
  /\ pos' = pos + 1
  /\ UNCHANGED <<program, phase, use, globals, code>>

irBuilderPredeclareExternFunction ==
  /\ phase = "predeclare" /\ pos <= Len(program)
  /\ program[pos].kind = "extern" /\ program[pos].type # "unknown"
  /\ Declare(pos, [kind |-> "function", id |-> 0])
  /\ pos' = pos + 1
  /\ UNCHANGED <<program, phase, use, globals, functions, code>>

\* A type that is NULL ends the build.
PredeclareFails ==
  /\ phase = "predeclare" /\ pos <= Len(program)
  /\ program[pos].type = "unknown"
  /\ Fail

\* Both stages that follow start again at the first item.
NextStage ==
  /\ phase \in {"predeclare", "collect", "lower"}
  /\ pos > Len(program)
  /\ phase' = CASE phase = "predeclare" -> "collect"
                [] phase = "collect" -> "lower"
                [] phase = "lower" -> "built"
  /\ pos' = 1
  /\ use' = 1
  /\ UNCHANGED <<program, globals, functions, symbols, code>>

-----------------------------------------------------------------------------
(* Second stage: a storage for every string literal of the program, the    *)
(* initializers of globals once more.                                      *)

Strings(i) == IF program[i].init = "string" THEN <<StringUse>> ELSE program[i].body

NextItem(uses) ==
  /\ pos <= Len(program)
  /\ use > Len(uses)
  /\ pos' = pos + 1
  /\ use' = 1
  /\ UNCHANGED <<program, phase, globals, functions, symbols, code>>

\* Where the literal stands.
Place == <<pos, IF program[pos].kind = "global" THEN 0 ELSE use>>

irBuilderCollectStringLiterals ==
  /\ phase = "collect" /\ pos <= Len(program)
  /\ \/ /\ use <= Len(Strings(pos))
        /\ use' = use + 1
        /\ globals' = IF Strings(pos)[use] = StringUse
                      THEN irBuilderAddStringStorage(globals, Place)
                      ELSE globals
        /\ UNCHANGED <<program, phase, pos, functions, symbols, code>>
     \/ NextItem(Strings(pos))

-----------------------------------------------------------------------------
(* Third stage: the bodies of functions that are not external.             *)

Emit(entry) == code' = Append(code, entry)

\* The address of a variable is its symbol's global id.
irBuilderLowerIdentifier(u) ==
  /\ u.kind = "name" /\ symbols[u.item].kind = "global"
  /\ Emit([kind |-> "global", of |-> UserName(u.item), id |-> symbols[u.item].id, place |-> Place])
  /\ UNCHANGED globals

\* A callee is referred to by name.
LowerCallee(u) ==
  /\ u.kind = "name" /\ symbols[u.item].kind = "function"
  /\ Emit([kind |-> "callee", of |-> UserName(u.item), id |-> 0, place |-> Place])
  /\ UNCHANGED globals

\* Mutant: the literal uses the storage that was made last.
LowerStringLiteral_Last(u) ==
  /\ u = StringUse
  /\ globals' = irBuilderAddStringStorage(globals, Place)
  /\ Emit([kind |-> "string", of |-> StorageName(Len(globals)), id |-> Len(globals),
           place |-> Place])

\* Every lowering makes one more storage, whose id the operand has.
irBuilderLowerStringLiteralRValue(u) ==
  /\ u = StringUse
  /\ globals' = irBuilderAddStringStorage(globals, Place)
  /\ Emit([kind |-> "string", of |-> StorageName(irBuilderNextGlobalId(globals)),
           id |-> irBuilderNextGlobalId(globals), place |-> Place])

irBuilderLowerFunctionBody ==
  /\ phase = "lower" /\ pos <= Len(program)
  /\ \/ /\ use <= Len(program[pos].body)
        /\ \/ irBuilderLowerIdentifier(program[pos].body[use])
           \/ LowerCallee(program[pos].body[use])
           \/ irBuilderLowerStringLiteralRValue(program[pos].body[use])
        /\ use' = use + 1
        /\ UNCHANGED <<program, phase, pos, functions, symbols>>
     \/ NextItem(program[pos].body)

\* irBuildModule has returned.
Terminating == phase \in {"built", "failed"} /\ UNCHANGED vars

Next ==
  \/ irBuilderPredeclareGlobal
  \/ irBuilderPredeclareFunction
  \/ irBuilderPredeclareExternFunction
  \/ PredeclareFails
  \/ irBuilderCollectStringLiterals
  \/ irBuilderLowerFunctionBody
  \/ NextStage
  \/ Terminating

Spec == Init /\ [][Next]_vars

-----------------------------------------------------------------------------
(* The printer *)

NoGlobal == [name |-> [kind |-> "g", n |-> 0], id |-> 0]

\* Mutant: the last one with the id.
FindGlobalById_Last(id) ==
  LET found == {i \in DOMAIN globals : globals[i].id = id}
  IN  IF found = {} THEN NoGlobal
      ELSE globals[CHOOSE i \in found : \A j \in found : j <= i]

\* The first global with the id.
irPrinterFindGlobalById(id) ==
  LET found == {i \in DOMAIN globals : globals[i].id = id}
  IN  IF found = {} THEN NoGlobal
      ELSE globals[CHOOSE i \in found : \A j \in found : i <= j]

\* The name an entry of the code is printed with.
irPrintOperand(entry) ==
  IF entry.kind = "callee" THEN entry.of ELSE irPrinterFindGlobalById(entry.id).name

\* A number is printed as it is, no initializer as zero, and a string that
\* does not initialize a pointer as null.
irPrintGlobal(g) ==
  LET pointer == /\ g.type = "pointer"
                 /\ g.initializer.kind = "string"
                 /\ g.storage # 0
      value == CASE g.constant -> [kind |-> "text", of |-> g.initializer.of]
                 [] ~g.constant /\ pointer ->
                      [kind |-> "address", of |-> irPrinterFindGlobalById(g.storage).name]
                 [] ~g.constant /\ g.initializer = NoLiteral ->
                      [kind |-> "zero", of |-> <<0, 0>>]
                 [] ~g.constant /\ ~pointer /\ g.initializer.kind = "string" ->
                      [kind |-> "null", of |-> <<0, 0>>]
                 [] g.initializer.kind = "number" -> g.initializer
  IN  [name |-> g.name, value |-> value]

\* Mutant: functions that are defined are declared as well.
ExternalDeclarations_All == {i \in DOMAIN symbols : symbols[i].kind = "function"}

\* Symbols of functions that have no definition, which is told by the name.
irPrintExternalDeclarations ==
  {i \in DOMAIN symbols :
     /\ symbols[i].kind = "function"
     /\ \A k \in DOMAIN functions : functions[k] # i}

-----------------------------------------------------------------------------
(* Properties *)

Place0 == (0 .. MaxItems) \X (0 .. MaxUses)
Name == [kind : {"user"}, n : 1 .. MaxItems] \cup [kind : {".str"}, n : Nat \ {0}]

Global ==
  [name : Name, id : Nat \ {0}, type : {"scalar", "pointer", "array"}, constant : BOOLEAN,
   initializer : [kind : {"none", "number", "string"}, of : Place0], storage : Nat]

Symbol == [kind : {"none", "global", "function"}, id : Nat]

Entry == [kind : {"global", "callee", "string"}, of : Name, id : Nat, place : Place0]

\* The variables have their types; a global never has the id 0, which
\* irBuilderAddStringStorage returns when it fails.
TypeOK ==
  /\ program \in Program
  /\ phase \in {"predeclare", "collect", "lower", "built", "failed"}
  /\ pos \in 1 .. MaxItems + 1
  /\ use \in 1 .. MaxUses + 2
  /\ globals \in Seq(Global)
  /\ functions \in Seq(DOMAIN program)
  /\ symbols \in [DOMAIN program -> Symbol]
  /\ code \in Seq(Entry)

\* Every operand that irPrintOperand prints by id names what the source means
\* there: a string literal the storage that holds this very literal, a variable
\* the variable itself, except that a variable initialized with a string is
\* taken for the storage of its initializer, which has the same id.
OperandsResolve ==
  \A k \in DOMAIN code :
    LET entry == code[k]
        found == irPrinterFindGlobalById(entry.id)
    IN  CASE entry.kind = "string" ->
               found.constant /\ found.initializer.of = entry.place
          [] entry.kind = "global" /\ program[entry.of.n].init # "string" ->
               irPrintOperand(entry) = entry.of
          [] entry.kind = "global" /\ program[entry.of.n].init = "string" ->
               found.constant /\ found.initializer.of = <<entry.of.n, 0>>
          [] OTHER -> TRUE

\* What irPrintGlobal prints for a variable is its initializer: the number, or
\* the address of a storage with the text of the string; zero when the source
\* has none.  Two initializers that the semantic pass allows are lost, and no
\* other: a character is printed as zero, a string that initializes an array as
\* null.
InitializersPrinted ==
  \A k \in DOMAIN globals :
    LET g == globals[k]
        item == program[g.name.n]
        value == irPrintGlobal(g).value
    IN  g.name.kind = "user" =>
          /\ item.init = "number" => value = [kind |-> "number", of |-> <<g.name.n, 0>>]
          /\ item.init \in {"none", "char"} => value.kind = "zero"
          /\ (item.init = "string" /\ item.type = "array") => value.kind = "null"
          /\ (item.init = "string" /\ item.type = "pointer") =>
               /\ value.kind = "address"
               /\ \E j \in DOMAIN globals :
                    /\ globals[j].name = value.of
                    /\ globals[j].constant
                    /\ globals[j].initializer.of = <<g.name.n, 0>>

\* The text of a module that was built defines or declares every name once,
\* and every name that an operand or a call is printed with.
EveryNameDefinedOnce ==
  phase = "built" =>
    LET Defined(n) == {<<"global", k>> : k \in {k \in DOMAIN globals : globals[k].name = n}}
          \cup {<<"define", k>> : k \in {k \in DOMAIN functions : UserName(functions[k]) = n}}
          \cup {<<"declare", i>> : i \in {i \in irPrintExternalDeclarations : UserName(i) = n}}
        Once(n) == \E d \in Defined(n) : Defined(n) = {d}
    IN  /\ \A k \in DOMAIN globals : Once(globals[k].name)
        /\ \A i \in DOMAIN program : Once(UserName(i))
        /\ \A k \in DOMAIN code : Once(irPrintOperand(code[k]))

-----------------------------------------------------------------------------
(* What the documentation says and the code does not do *)

\* ir/README.md: the address of a global x is printed as an operand like @x.
GlobalsKeepTheirName ==
  \A k \in DOMAIN code : code[k].kind = "global" => irPrintOperand(code[k]) = code[k].of
=============================================================================
