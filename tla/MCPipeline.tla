----------------------------- MODULE MCPipeline -----------------------------
(* Small instances of Pipeline for TLC. *)
EXTENDS Pipeline, TLC
CONSTANTS v1, v2

(* Requests to rewrite are alike; no property is about a particular one.    *)
AlikeRewriters == Permutations(Rewriter)
=============================================================================
