-------------------------- MODULE MCNameResolution --------------------------
(***************************************************************************)
(* Bounded instances of NameResolution.                                    *)
(***************************************************************************)
EXTENDS NameResolution, TLC

AllOps == {"global", "extern", "func", "decl", "block", "for"} \cup UseOps

\* Enough for a variable of a block, its uses and the variable it shadows.
ScopingOps == {"global", "func", "decl", "read", "block"}

WritingOps == {"global", "func", "decl", "write"}

AnyName == Names \cup {NoName}
Nothing == {NoName}

\* Names are interchangeable.
NameSymmetry == Permutations(Names)
=============================================================================
