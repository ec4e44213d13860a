----------------------------- MODULE MCLowering -----------------------------
(***************************************************************************)
(* Bounded instance of Lowering alone: every function body, also those     *)
(* that validation would reject.                                           *)
(***************************************************************************)
EXTENDS Lowering

Header(i, c, u) == [init |-> i, cond |-> c, update |-> u]
FewForHeaders == {Header(TRUE, TRUE, TRUE), Header(FALSE, FALSE, FALSE)}
=============================================================================
