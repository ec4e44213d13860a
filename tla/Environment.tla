---------------------------- MODULE Environment ----------------------------
(***************************************************************************)
(* What scope.h and ir.h promise of nested scopes: each maps names to      *)
(* symbols, a name is declared at most once in a scope and keeps its       *)
(* symbol as long as the scope lives, and a lookup finds the innermost     *)
(* declaration.                                                            *)
(***************************************************************************)
EXTENDS Naturals, Sequences

CONSTANTS
  Names,
  Symbols,
  NULL,
  MaxScopes     \* bound: scopes that are nested in each other

VARIABLES
  maps,         \* the scopes, from the root to the current one
  answer        \* what the last operation returned

vars == <<maps, answer>>

Nothing == [n \in Names |-> NULL]

Init == maps = <<Nothing>> /\ answer = NULL

Enter == maps' = Append(maps, Nothing) /\ answer' = NULL

Leave == maps' = SubSeq(maps, 1, Len(maps) - 1) /\ answer' = NULL

Declare(n, s) ==
  LET i == Len(maps)
  IN  IF maps[i][n] = NULL
      THEN maps' = [maps EXCEPT ![i][n] = s] /\ answer' = TRUE
      ELSE answer' = FALSE /\ UNCHANGED maps

\* The declarations of n that are in sight.
Lookup(n) ==
  /\ UNCHANGED maps
  /\ \/ /\ \A i \in 1 .. Len(maps) : maps[i][n] = NULL
        /\ answer' = NULL
     \/ \E i \in 1 .. Len(maps) :
          /\ maps[i][n] # NULL
          /\ \A j \in i + 1 .. Len(maps) : maps[j][n] = NULL
          /\ answer' = maps[i][n]

Next ==
  \/ Len(maps) < MaxScopes /\ Enter
  \/ Len(maps) > 1 /\ Leave
  \/ \E n \in Names, s \in Symbols : Declare(n, s)
  \/ \E n \in Names : Lookup(n)

Spec == Init /\ [][Next]_vars
=============================================================================
