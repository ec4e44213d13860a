--------------------------- MODULE MCCompilation ---------------------------
(***************************************************************************)
(* Bounded instance of Compilation, and the properties TLC checks on it.   *)
(***************************************************************************)
EXTENDS Compilation

Header(i, c, u) == [init |-> i, cond |-> c, update |-> u]

\* A for with every clause, one with none, and one with an update only.
FewForHeaders == {Header(TRUE, TRUE, TRUE), Header(FALSE, FALSE, FALSE),
                  Header(FALSE, FALSE, TRUE)}

=============================================================================
