----------------------------- MODULE MCGlobals -----------------------------
(***************************************************************************)
(* Bounded instance of Globals: three items and two uses in a body are     *)
(* enough for a variable between two string storages, for a variable used  *)
(* after another one has taken the same id, and for a literal lowered      *)
(* after one that was collected.                                           *)
(***************************************************************************)
EXTENDS Globals
=============================================================================
