---------------------------- MODULE SymbolTable ----------------------------
(***************************************************************************)
(* scope.c, and ir_scope.c which repeats it for the IR: a scope is a table *)
(* of buckets, a bucket a list of symbols with the newest at its head.     *)
(* The scopes are those between the root and the current one; the callers  *)
(* create and free them in this order.                                     *)
(***************************************************************************)
EXTENDS Naturals, Sequences

CONSTANTS
  Names,
  Symbols,      \* what a name is declared as
  NULL,
  Buckets,      \* 0 .. bucket_count - 1
  Hash,         \* the hash of every name
  MaxScopes     \* bound: scopes that are nested in each other

ASSUME HashAssumption == Hash \in [Names -> Buckets]
ASSUME NullAssumption == NULL \notin Symbols
ASSUME MaxScopesAssumption == MaxScopes \in Nat \ {0}

VARIABLES
  scopes,       \* the scopes, from the root to the current one
  answer        \* what the last operation returned

vars == <<scopes, answer>>

Entry == [name : Names, symbol : Symbols]

hashName(n) == Hash[n]

EmptyScope == [b \in Buckets |-> <<>>]

Init == scopes = <<EmptyScope>> /\ answer = NULL

-----------------------------------------------------------------------------
(* The walks *)

\* k is where the walk along the bucket finds n.
FoundAt(bucket, n, k) ==
  /\ k \in DOMAIN bucket
  /\ bucket[k].name = n
  /\ \A j \in 1 .. k - 1 : bucket[j].name # n

scopeLookupCurrent(scope, n) ==
  LET bucket == scope[hashName(n)]
  IN  IF \E k \in DOMAIN bucket : FoundAt(bucket, n, k)
      THEN bucket[CHOOSE k \in DOMAIN bucket : FoundAt(bucket, n, k)].symbol
      ELSE NULL

\* The scopes with a declaration of n.
Declaring(n) == {i \in DOMAIN scopes : scopeLookupCurrent(scopes[i], n) # NULL}

\* Mutant: from the root inwards.
Lookup_RootFirst(n) ==
  IF Declaring(n) = {} THEN NULL
  ELSE scopeLookupCurrent(scopes[CHOOSE i \in Declaring(n) : \A j \in Declaring(n) : i <= j], n)

\* From the current scope to its parents, up to the first declaration.
scopeLookup(n) ==
  IF Declaring(n) = {} THEN NULL
  ELSE scopeLookupCurrent(scopes[CHOOSE i \in Declaring(n) : \A j \in Declaring(n) : j <= i], n)

-----------------------------------------------------------------------------
(* The operations *)

scopeCreate ==
  /\ Len(scopes) < MaxScopes
  /\ scopes' = Append(scopes, EmptyScope)
  /\ answer' = NULL

\* Mutant: the root is freed too.
Free_Root ==
  /\ Len(scopes) > 0
  /\ scopes' = SubSeq(scopes, 1, Len(scopes) - 1)
  /\ answer' = NULL

\* The symbols go with the scope.  The root is freed when nothing is left to do.
scopeFree ==
  /\ Len(scopes) > 1
  /\ scopes' = SubSeq(scopes, 1, Len(scopes) - 1)
  /\ answer' = NULL

Current == scopes[Len(scopes)]

\* The symbol becomes the head of its bucket.
Inserted(scope, n, s) ==
  [scope EXCEPT ![hashName(n)] = <<[name |-> n, symbol |-> s]>> \o @]

\* Mutant: a name that is there is declared again.
Declare_Again(n, s) ==
  /\ scopes' = [scopes EXCEPT ![Len(scopes)] = Inserted(Current, n, s)]
  /\ answer' = TRUE

scopeDeclare(n, s) ==
  IF scopeLookupCurrent(Current, n) # NULL
  THEN answer' = FALSE /\ UNCHANGED scopes
  ELSE /\ scopes' = [scopes EXCEPT ![Len(scopes)] = Inserted(Current, n, s)]
       /\ answer' = TRUE

Lookup(n) == answer' = scopeLookup(n) /\ UNCHANGED scopes

Next ==
  \/ scopeCreate
  \/ scopeFree
  \/ \E n \in Names, s \in Symbols : scopeDeclare(n, s)
  \/ \E n \in Names : Lookup(n)

Spec == Init /\ [][Next]_vars

-----------------------------------------------------------------------------
(* Properties *)

\* The variables have their types; there is always a root.
TypeOK ==
  /\ scopes \in Seq([Buckets -> Seq(Entry)]) \ {<<>>}
  /\ answer \in Symbols \cup {NULL} \cup BOOLEAN

\* A walk over all buckets, as createValidationRoot and
\* irPrintExternalDeclarations do it, meets every declared name once, and each
\* symbol it meets is the one a lookup of its name in this scope returns.
WalkMeetsEachNameOnce ==
  \A i \in DOMAIN scopes : \A b, c \in Buckets :
    \A j \in DOMAIN scopes[i][b], k \in DOMAIN scopes[i][c] :
      /\ scopes[i][b][j].name = scopes[i][c][k].name => b = c /\ j = k
      /\ scopeLookupCurrent(scopes[i], scopes[i][b][j].name) = scopes[i][b][j].symbol

\* The table implements nested maps.
MapOf(scope) == [n \in Names |-> scopeLookupCurrent(scope, n)]

Env == INSTANCE Environment WITH maps <- [i \in DOMAIN scopes |-> MapOf(scopes[i])]

\* Hashing, buckets and their order cannot be seen: every operation answers as
\* the operation on nested maps does.
Implements == Env!Spec
=============================================================================
