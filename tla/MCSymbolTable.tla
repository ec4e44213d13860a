--------------------------- MODULE MCSymbolTable ---------------------------
(***************************************************************************)
(* Bounded instance of SymbolTable: two names share a bucket, one has a    *)
(* bucket of its own, and one bucket stays empty.                          *)
(***************************************************************************)
EXTENDS SymbolTable

SomeHash == [n \in Names |-> IF n \in {"i", "j"} THEN 1 ELSE 2]
=============================================================================
