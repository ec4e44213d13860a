------------------------------ MODULE MCDriver ------------------------------
(***************************************************************************)
(* Bounded instance of Driver: one version of the source for each stage    *)
(* that refuses it, and two that are valid.                                *)
(***************************************************************************)
EXTENDS Driver

Versions == {"bad_token", "bad_syntax", "bad_types", "not_lowered", "v1", "v2"}

Refused == [v \in Versions |->
              CASE v = "bad_token"   -> "tokens"
                [] v = "bad_syntax"  -> "syntax"
                [] v = "bad_types"   -> "semantic"
                [] v = "not_lowered" -> "module"
                [] OTHER             -> "none"]

ASSUME RefusedByEveryStage == Stages \subseteq {Refused[v] : v \in Versions}
=============================================================================
