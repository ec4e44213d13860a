--------------------------- MODULE NameResolution ---------------------------
(***************************************************************************)
(* The three walks that give names a meaning: symbol collection and        *)
(* validation in semantic.c, and the lowering of ir_builder_*.c.  Each has *)
(* its own symbol tables (Scope, IRScope) and its own idea of which        *)
(* statement opens a scope:                                                *)
(*                                                                         *)
(*               function         if or while block    for                 *)
(*   collect     params, body     block                body                *)
(*   validate    params, body     block                header, body        *)
(*   lower       one for both     none                 one for both        *)
(*                                                                         *)
(* A program is a sequence of items in source order, as in Statements, of  *)
(* which only the declarations, the uses of names and the blocks matter.   *)
(* The collecting walk picks the items, so the behaviours cover every      *)
(* program of at most MaxNamed items besides the closing ones.  A function *)
(* has at most one parameter, and types are left out.                      *)
(*                                                                         *)
(* The header of a for declares a variable or none.  Its update stands at  *)
(* the end of the body, where irBuilderLowerForStatement lowers it;        *)
(* validateNode checks it before the body, in the header's scope.  The     *)
(* header's condition is a use at the start of the body for every walk,    *)
(* and an init that declares nothing a use before the for.                 *)
(***************************************************************************)
EXTENDS Naturals, Sequences, FiniteSetsExt, SequencesExt

CONSTANTS
  Names,        \* the identifiers of the program
  NoName,       \* no parameter, no initializer, no for declaration
  Ops,          \* the kinds of items programs are made of
  WithNames,    \* the parameters and initializers to try, NoName for none
  MaxNamed      \* bound on the number of items, closing ones not counted

ASSUME NoNameAssumption == NoName \notin Names
ASSUME WithNamesAssumption == WithNames \subseteq Names \cup {NoName}
ASSUME MaxNamedAssumption == MaxNamed \in Nat

VARIABLES
  program,      \* the items of the program
  phase,        \* "collect", "validate", "lower", or how compilation ended
  cursor,       \* the last item the current walk visited
  opened,       \* the functions, blocks and loops it is in, innermost last
  scopes,       \* the chain of scopes from the global one to the current one
  errors,       \* result->errors: kind and item
  sem_binding,  \* the declaration that validation found for each use
  ir_binding    \* the declaration that lowering found for each use

vars == <<program, phase, cursor, opened, scopes, errors, sem_binding, ir_binding>>

-----------------------------------------------------------------------------
(* Items *)

\* Items that may stand at the top level, and inside a function.
TopOps  == {"global", "extern", "func"}
BodyOps == {"decl", "read", "write", "call", "block", "for", "func", "end",
            "update_read", "update_write", "update_call"}
OpenOps == {"func", "block", "for"}

\* A read is a use whose value a statement needs, a write the target of an
\* assignment; each may stand in the update of a for.
ReadOps   == {"read", "update_read"}
WriteOps  == {"write", "update_write"}
CallOps   == {"call", "update_call"}
UpdateOps == {"update_read", "update_write", "update_call"}
UseOps    == ReadOps \cup WriteOps \cup CallOps

\* name is what the item declares or uses.  with is the name read by a
\* declaration's initializer, or the parameter of a function.
Item == [op : {"global", "extern"} \cup UseOps, name : Names, with : {NoName}]
          \cup [op : {"func", "decl", "for"}, name : Names, with : WithNames]
          \cup [op : {"block", "end", "for"}, name : {NoName}, with : {NoName}]

\* The name an item uses rather than declares.
UsedName(e) == CASE e.op \in UseOps           -> e.name
                 [] e.op \in {"decl", "for"}  -> e.with
                 [] OTHER                     -> NoName

-----------------------------------------------------------------------------
(* Symbol tables: scope.c and ir_scope.c *)

\* A symbol is the item that declares it and its kind; a scope maps every name
\* to its symbol.
Undeclared == [at |-> 0, kind |-> "none"]
Variable(n) == [at |-> n, kind |-> "variable"]
Function(n) == [at |-> n, kind |-> "function"]
Symbol == [at : Nat, kind : {"none", "variable", "function"}]
Scope == [Names -> Symbol]
NewScope == [x \in Names |-> Undeclared]

\* Mutant: the lookup goes on to the enclosing scopes.
LookupCurrentInParents(s, x) ==
  LET found == {k \in DOMAIN s : s[k][x] # Undeclared}
  IN  IF found = {} THEN Undeclared ELSE s[Max(found)][x]

\* scopeLookupCurrent, irScopeLookupCurrent
LookupCurrent(s, x) == Last(s)[x]

\* scopeLookup, irScopeLookup: the innermost scope that has the name.
Lookup(s, x) ==
  LET found == {k \in DOMAIN s : s[k][x] # Undeclared}
  IN  IF found = {} THEN Undeclared ELSE s[Max(found)][x]

\* scopeDeclare, irScopeDeclare: refused when the current scope has the name.
Declare(s, x, symbol) ==
  [s EXCEPT ![Len(s)][x] = IF @ = Undeclared THEN symbol ELSE @]

\* A new current scope that holds x, or nothing when x is NoName.
Push(s, x, n) ==
  Append(s, [y \in Names |-> IF y = x THEN Variable(n) ELSE Undeclared])

\* Mutant: lowering keeps the scope of a for.
ForIrScopeKept == [collect  |-> [func |-> 2, block |-> 1, for |-> 1],
                   validate |-> [func |-> 2, block |-> 1, for |-> 2],
                   lower    |-> [func |-> 1, block |-> 0, for |-> 0]]

\* How many scopes a walk leaves at the end of a function, block or for.
ScopesOf == [collect  |-> [func |-> 2, block |-> 1, for |-> 1],
             validate |-> [func |-> 2, block |-> 1, for |-> 2],
             lower    |-> [func |-> 1, block |-> 0, for |-> 1]]

Popped(s) == SubSeq(s, 1, Len(s) - ScopesOf[phase][Last(opened)])

Opened(e) == CASE e.op \in OpenOps -> Append(opened, e.op)
               [] e.op = "end"     -> Front(opened)
               [] OTHER            -> opened

TypeOK ==
  /\ program \in Seq(Item)
  /\ phase \in {"collect", "validate", "lower", "rejected", "built", "failed"}
  /\ cursor \in 0 .. Len(program)
  /\ opened \in Seq(OpenOps)
  /\ scopes \in Seq(Scope) /\ scopes # <<>>
  /\ errors \subseteq ({"duplicate", "undeclared"} \X Nat)
  /\ DOMAIN sem_binding \subseteq 1 .. Len(program)
  /\ DOMAIN ir_binding \subseteq 1 .. Len(program)

Init ==
  /\ program = <<>>
  /\ phase = "collect"
  /\ cursor = 0
  /\ opened = <<>>
  /\ scopes = <<NewScope>>
  /\ errors = {}
  /\ sem_binding = <<>>
  /\ ir_binding = <<>>

-----------------------------------------------------------------------------
(* collectSymbols *)

Here == cursor + 1

\* The items that the grammar allows next, within the bound: the update of a
\* for is the last of its body.
MayFollow(e) ==
  /\ e.op \in Ops \cup {"end"}
  /\ e.op \in IF opened = <<>> THEN TopOps ELSE BodyOps
  /\ e.op \in UpdateOps => Last(opened) = "for"
  /\ program # <<>> /\ Last(program).op \in UpdateOps => e.op \in UpdateOps \cup {"end"}
  /\ e.op # "end" => Len(SelectSeq(program, LAMBDA i : i.op # "end")) < MaxNamed

\* Visiting item e while collecting leaves the chain of scopes as s.
CollectItem(e, s) ==
  /\ phase = "collect"
  /\ MayFollow(e)
  /\ program' = Append(program, e)
  /\ cursor' = Here
  /\ opened' = Opened(e)
  /\ scopes' = s
  /\ UNCHANGED <<phase, sem_binding, ir_binding>>

ReportDuplicate(x) ==
  errors' = errors \cup (IF LookupCurrent(scopes, x) = Undeclared THEN {}
                         ELSE {<<"duplicate", Here>>})

\* collectVariable
CollectVariable(e) ==
  /\ e.op \in {"global", "decl"}
  /\ CollectItem(e, Declare(scopes, e.name, Variable(Here)))
  /\ ReportDuplicate(e.name)

\* collectFunction: the name in the current scope, the parameter in a scope of
\* its own, and the body (collectBlock) in one below it.
CollectFunction(e) ==
  LET declared == Declare(scopes, e.name, Function(Here))
  IN  /\ e.op \in {"extern", "func"}
      /\ CollectItem(e, IF e.op = "extern" THEN declared
                        ELSE Append(Push(declared, e.with, Here), NewScope))
      /\ ReportDuplicate(e.name)

\* AST_IF, AST_WHILE and AST_FOR only collect their blocks, not the init of a
\* for; expressions collect nothing.
CollectOther(e) ==
  /\ \/ e.op \in {"block", "for"} /\ CollectItem(e, Append(scopes, NewScope))
     \/ e.op \in UseOps /\ CollectItem(e, scopes)
     \/ e.op = "end" /\ opened # <<>> /\ CollectItem(e, Popped(scopes))
  /\ UNCHANGED errors

Collect ==
  \E e \in Item : CollectVariable(e) \/ CollectFunction(e) \/ CollectOther(e)

\* createValidationRoot: the functions of the global scope, no variable.
CreateValidationRoot ==
  /\ phase = "collect" /\ opened = <<>> /\ program # <<>>
  /\ phase' = "validate"
  /\ cursor' = 0
  /\ scopes' = <<[x \in Names |-> IF scopes[1][x].kind = "function"
                                  THEN scopes[1][x] ELSE Undeclared]>>
  /\ UNCHANGED <<program, opened, errors, sem_binding, ir_binding>>

-----------------------------------------------------------------------------
(* validateNode *)

\* Visiting the next item while validating leaves the chain of scopes as s.
ValidateItem(s) ==
  /\ phase = "validate"
  /\ cursor' = Here
  /\ opened' = Opened(program[Here])
  /\ scopes' = s
  /\ UNCHANGED <<program, phase, ir_binding>>

\* Mutant: the update is checked in the scope of the body.
UpdateCheckedInBody(e) == scopes

\* The scopes that a use is checked in: those of the header for an update,
\* without that of the body.
CheckedIn(e) == IF e.op \in UpdateOps THEN Front(scopes) ELSE scopes

\* checkIdentifier, checkCall: the use must find a symbol of the right kind.
\* checkAssignmentTarget: an unknown target is not reported.
CheckUse(e, x) ==
  LET symbol == Lookup(CheckedIn(e), x)
      kind   == IF e.op \in CallOps THEN "function" ELSE "variable"
  IN  /\ sem_binding' = IF x # NoName /\ symbol.kind = kind
                        THEN [n \in DOMAIN sem_binding \cup {Here} |->
                                IF n = Here THEN symbol ELSE sem_binding[n]]
                        ELSE sem_binding
      /\ errors' = IF x # NoName /\ symbol.kind # kind /\ e.op \notin WriteOps
                   THEN errors \cup {<<"undeclared", Here>>} ELSE errors

\* validateVariableDeclaration: the initializer is checked, then the variable
\* declared.
ValidateDeclaration(e) ==
  /\ e.op \in {"global", "decl"}
  /\ CheckUse(e, e.with)
  /\ ValidateItem(Declare(scopes, e.name, Variable(Here)))

ValidateUse(e) ==
  /\ e.op \in UseOps
  /\ CheckUse(e, e.name)
  /\ ValidateItem(scopes)

\* AST_FOR: a scope for the header, its init declared there once the initializer
\* is checked, and the body's scope below it.
ValidateFor(e) ==
  /\ e.op = "for"
  /\ CheckUse(e, e.with)
  /\ ValidateItem(Append(Push(scopes, e.name, Here), NewScope))

\* validateFunction (an extern function is skipped), validateBlock
ValidateScope(e) ==
  /\ \/ e.op = "func"   /\ ValidateItem(Append(Push(scopes, e.with, Here), NewScope))
     \/ e.op = "block"  /\ ValidateItem(Append(scopes, NewScope))
     \/ e.op = "end"    /\ ValidateItem(Popped(scopes))
     \/ e.op = "extern" /\ ValidateItem(scopes)
  /\ UNCHANGED <<errors, sem_binding>>

Validate ==
  /\ Here <= Len(program)
  /\ LET e == program[Here]
     IN  ValidateDeclaration(e) \/ ValidateUse(e) \/ ValidateFor(e) \/ ValidateScope(e)

Reject ==
  /\ phase = "validate" /\ cursor = Len(program) /\ errors # {}
  /\ phase' = "rejected"
  /\ UNCHANGED <<program, cursor, opened, scopes, errors, sem_binding, ir_binding>>

-----------------------------------------------------------------------------
(* irBuildModule *)

\* The item that closes what item n opens.
Depth(n) ==
  Cardinality({m \in 1 .. n - 1 : program[m].op \in OpenOps})
    - Cardinality({m \in 1 .. n - 1 : program[m].op = "end"})

Closes(n) ==
  Min({m \in n + 1 .. Len(program) :
         program[m].op = "end" /\ Depth(m) = Depth(n) + 1})

TopLevel == {n \in DOMAIN program : Depth(n) = 0}

\* Mutant: only functions are predeclared.
PredeclareFunctionsOnly ==
  LET declared(x) == {n \in TopLevel : program[n].op \in {"extern", "func"} /\ program[n].name = x}
  IN  /\ phase = "validate" /\ cursor = Len(program) /\ errors = {}
      /\ phase' = "lower"
      /\ scopes' = <<[x \in Names |-> IF declared(x) = {} THEN Undeclared
                                      ELSE Function(Min(declared(x)))]>>
      /\ cursor' = 0
      /\ UNCHANGED <<program, opened, errors, sem_binding, ir_binding>>

\* irBuilderPredeclareGlobal, -Function, -ExternFunction: all the top-level
\* declarations, before any function body.
Predeclare ==
  LET declared(x) == {n \in TopLevel : program[n].op \in TopOps /\ program[n].name = x}
      symbol(n)   == IF program[n].op = "global" THEN Variable(n) ELSE Function(n)
  IN  /\ phase = "validate" /\ cursor = Len(program) /\ errors = {}
      /\ phase' = IF \E x \in Names : Cardinality(declared(x)) > 1 THEN "failed"
                                                                  ELSE "lower"
      /\ scopes' = <<[x \in Names |-> IF declared(x) = {} THEN Undeclared
                                      ELSE symbol(Min(declared(x)))]>>
      /\ cursor' = 0
      /\ UNCHANGED <<program, opened, errors, sem_binding, ir_binding>>

\* Lowering continues at item n + 1 with the chain of scopes s.
LowerItem(n, s) ==
  /\ phase' = "lower"
  /\ cursor' = n
  /\ opened' = Opened(program[Here])
  /\ scopes' = s

LowerFailed ==
  /\ phase' = "failed"
  /\ UNCHANGED <<cursor, opened, scopes>>

\* The use at item Here finds this symbol.
BindIr(symbol) ==
  ir_binding' = [n \in DOMAIN ir_binding \cup {Here} |->
                   IF n = Here THEN symbol ELSE ir_binding[n]]

\* The initializer of item e is lowered in the scopes s, which have its variable.
LowerInitializer(e, s) ==
  \/ /\ e.with = NoName
     /\ LowerItem(Here, s) /\ UNCHANGED ir_binding
  \/ /\ e.with # NoName
     /\ IF Lookup(s, e.with).kind = "variable"
        THEN LowerItem(Here, s) /\ BindIr(Lookup(s, e.with))
        ELSE LowerFailed /\ UNCHANGED ir_binding

\* irBuilderLowerVarDecl: the symbol is declared, then the initializer lowered.
LowerVarDecl(e) ==
  /\ e.op = "decl"
  /\ \/ /\ LookupCurrent(scopes, e.name) # Undeclared
        /\ LowerFailed /\ UNCHANGED ir_binding
     \/ /\ LookupCurrent(scopes, e.name) = Undeclared
        /\ LowerInitializer(e, Declare(scopes, e.name, Variable(Here)))

\* irBuilderLowerForStatement: the init in a scope that the body shares.
LowerFor(e) ==
  /\ e.op = "for"
  /\ LowerInitializer(e, Push(scopes, e.name, Here))

\* irBuilderLowerIdentifier, as a value or as the target of an assignment; the
\* update of a for in the scope that its body has filled.
LowerIdentifier(e) ==
  /\ e.op \in ReadOps \cup WriteOps
  /\ IF Lookup(scopes, e.name).kind = "variable"
     THEN LowerItem(Here, scopes) /\ BindIr(Lookup(scopes, e.name))
     ELSE LowerFailed /\ UNCHANGED ir_binding

\* irBuilderLowerCallRValue looks in the global scope only; an expression
\* statement goes on without a callee.
LowerCall(e) ==
  /\ e.op \in CallOps
  /\ LowerItem(Here, scopes)
  /\ IF scopes[1][e.name] # Undeclared THEN BindIr(scopes[1][e.name])
                                       ELSE UNCHANGED ir_binding

\* irBuilderLowerFunctionBody of a top-level function, the end of it and of a for;
\* the blocks of if and while have no scope.  A nested function is passed over.
LowerScope(e) ==
  /\ \/ /\ e.op = "func" /\ opened = <<>>
        /\ LowerItem(Here, Push(scopes, e.with, Here))
     \/ /\ e.op = "func" /\ opened # <<>>
        /\ cursor' = Closes(Here)
        /\ UNCHANGED <<phase, opened, scopes>>
     \/ e.op = "end" /\ LowerItem(Here, Popped(scopes))
     \/ e.op \in {"block", "global", "extern"} /\ LowerItem(Here, scopes)
  /\ UNCHANGED ir_binding

Lower ==
  /\ phase = "lower" /\ Here <= Len(program)
  /\ LET e == program[Here]
     IN  \/ LowerVarDecl(e) \/ LowerFor(e) \/ LowerIdentifier(e)
         \/ LowerCall(e) \/ LowerScope(e)
  /\ UNCHANGED <<program, errors, sem_binding>>

Build ==
  /\ phase = "lower" /\ cursor = Len(program)
  /\ phase' = "built"
  /\ UNCHANGED <<program, cursor, opened, scopes, errors, sem_binding, ir_binding>>

Finished == phase \in {"rejected", "built", "failed"} /\ UNCHANGED vars

Next ==
  \/ Collect \/ CreateValidationRoot
  \/ Validate \/ Reject
  \/ Predeclare \/ Lower \/ Build
  \/ Finished

Spec == Init /\ [][Next]_vars

-----------------------------------------------------------------------------
(* Lexical scoping, read off the text of the program: the reference the    *)
(* walks are compared with.                                                *)

Encloses(m, n) == program[m].op \in OpenOps /\ m < n /\ n < Closes(m)

\* The innermost item of the given kinds around item n, 0 when there is none.
Around(n, ops) ==
  Max({0} \cup {m \in 1 .. n - 1 : program[m].op \in ops /\ Encloses(m, n)})

Parent(n) == Around(n, OpenOps)

\* Item m declares variable x.
DeclaresVariable(m, x) ==
  \/ program[m].op \in {"global", "decl", "for"} /\ program[m].name = x
  \/ program[m].op = "func" /\ program[m].with = x

\* The variables of the name that item n, an update, uses that the body of its
\* for declares.  The update is written before the body.
BodyLocals(n) ==
  {m \in 1 .. n - 1 :
     /\ program[n].op \in UpdateOps /\ program[m].op = "decl"
     /\ program[m].name = UsedName(program[n]) /\ Parent(m) = Parent(n)}

\* A global is visible from its declaration on, a local variable from its
\* declaration to the end of its block, a parameter and the variable of a for
\* up to the end of the function or loop.
VisibleAt(n, x) ==
  {m \in 1 .. n - 1 :
     /\ DeclaresVariable(m, x)
     /\ CASE program[m].op = "global" -> TRUE
          [] program[m].op = "decl"   -> Encloses(Parent(m), n) /\ m \notin BodyLocals(n)
          [] OTHER                    -> Encloses(m, n)}

\* What name x means at item n: the latest visible variable, or else the
\* function of that name.
Meaning(n, x) ==
  LET functions == {m \in TopLevel : program[m].op \in {"func", "extern"}
                                       /\ program[m].name = x}
  IN  CASE VisibleAt(n, x) # {} -> Variable(Max(VisibleAt(n, x)))
        [] VisibleAt(n, x) = {} /\ functions # {} -> Function(Min(functions))
        [] OTHER -> Undeclared

Uses == {n \in DOMAIN program : UsedName(program[n]) # NoName}
KindUsed(n) == IF program[n].op \in CallOps THEN "function" ELSE "variable"
Reported(kind) == {n \in DOMAIN program : <<kind, n>> \in errors}

\* Uses that are lowered: not inside a nested function.
LoweredUses == {n \in Uses : Around(n, {"func"}) \in TopLevel}

-----------------------------------------------------------------------------
\* semantic.c's collection reports exactly the declarations that repeat a name
\* of their own block, wherever other blocks were opened and closed between.
DuplicatesReported ==
  phase # "collect" =>
    Reported("duplicate") =
      {n \in DOMAIN program :
         /\ program[n].op \in {"global", "extern", "func", "decl"}
         /\ \E m \in 1 .. n - 1 :
              /\ program[m].op \in {"global", "extern", "func", "decl"}
              /\ program[m].name = program[n].name /\ Parent(m) = Parent(n)}

\* semantic.c's validation binds every use to its lexical meaning and reports
\* every read and call that has none: the chain of scopes it keeps is that of
\* the text, a name is visible after its declaration only, a block that was
\* left hides nothing any more, and the update of a for sees its header but not
\* its body.
ValidationIsLexical ==
  phase \notin {"collect", "validate"} /\ Reported("duplicate") = {} =>
    /\ \A n \in Uses :
         LET meaning == Meaning(n, UsedName(program[n]))
         IN  IF meaning.kind = KindUsed(n)
             THEN n \in DOMAIN sem_binding /\ sem_binding[n] = meaning
             ELSE n \notin DOMAIN sem_binding
    /\ Reported("undeclared") =
         {n \in Uses \ DOMAIN sem_binding : program[n].op \notin WriteOps}

\* A declaration that irScopeDeclare refuses although validation allows it: the
\* blocks of a function share one scope with its parameters, and those of a
\* for with its header.
Redeclared ==
  \E n \in DOMAIN program :
    LET home == Around(n, {"func", "for"})
        x    == program[n].name
    IN  /\ program[n].op = "decl" /\ Around(n, {"func"}) \in TopLevel
        /\ \/ DeclaresVariable(home, x)
           \/ \E m \in home + 1 .. n - 1 :
                /\ program[m].op = "decl" /\ program[m].name = x
                /\ Around(m, {"func", "for"}) = home

\* Of the programs without semantic errors, irBuildModule refuses those that
\* declare a name twice in one IR scope, as shadowing in a block does, or assign
\* to an unknown name, which validation passes over, and no other: every name
\* that validation found is found again while lowering.  Each walk leaves as many
\* scopes as it enters, so the variables keep their types.
BuildFailureExplained ==
  /\ TypeOK
  /\ phase = "failed" => Redeclared \/ ~(LoweredUses \subseteq DOMAIN sem_binding)
  /\ phase = "built" => ~Redeclared

\* The initializer of the variable that hides the one it names.
SelfInitialized(n) ==
  program[n].op \in {"decl", "for"} /\ program[n].with = program[n].name

\* The variables of the name that item n uses whose if or while block has ended
\* before n, in an IR scope that has not.
LeftBehind(n) ==
  {m \in 1 .. n - 1 :
     /\ program[m].op = "decl" /\ program[m].name = UsedName(program[n])
     /\ program[Parent(m)].op = "block" /\ ~Encloses(Parent(m), n)
     /\ Encloses(Around(m, {"func", "for"}), n)}

\* The globals of the name that item n uses that are declared after it.
DeclaredLater(n) ==
  {m \in n + 1 .. Len(program) :
     program[m].op = "global" /\ program[m].name = UsedName(program[n])}

\* The code reads and writes the variable, and calls the function, that
\* validation checked, although the passes keep separate tables with different
\* scopes.  Four uses are bound otherwise: an initializer that names its own
\* variable reads the new slot, never the variable that validation found; a
\* use after a block may find what the block left behind; the update of a for
\* may find a variable that the body declares; and an assignment to a name that
\* validation did not find, and did not report, goes to such a variable or to a
\* global declared later.
BindingsAgree ==
  phase = "built" =>
    \A n \in LoweredUses :
      LET checked == IF n \in DOMAIN sem_binding THEN {sem_binding[n]}
                     ELSE {Variable(m) : m \in DeclaredLater(n)}
      IN  ir_binding[n] \in
            IF SelfInitialized(n) THEN {Variable(n)}
            ELSE checked \cup {Variable(m) : m \in LeftBehind(n) \cup BodyLocals(n)}

\* Stated by the repository of every program: a read or a write in the emitted
\* code finds the locals of the current block and of the blocks around it, the
\* way the semantic scopes do, and no variable of a block that was left.
CodeUsesNearestDeclaration ==
  phase = "built" =>
    \A n \in LoweredUses \cap DOMAIN sem_binding :
      program[n].op \in {"read", "write"} => ir_binding[n] = sem_binding[n]
=============================================================================
