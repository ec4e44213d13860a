------------------------------ MODULE Literals ------------------------------
(***************************************************************************)
(* The literals whose text the compiler has to decode and print again: one *)
(* literal is typed in, a string or a number, and every prefix that is a   *)
(* token is followed through the passes.                                   *)
(***************************************************************************)
EXTENDS StringLiterals, Numbers

vars == <<literal, whole, point, fraction>>

Init == NoString /\ NoNumber

TypeString == NoNumber /\ StringElement /\ UNCHANGED <<whole, point, fraction>>

TypeNumber == NoString /\ NumberCharacter /\ UNCHANGED literal

Next == TypeString \/ TypeNumber

Spec == Init /\ [][Next]_vars
=============================================================================
