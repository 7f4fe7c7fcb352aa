---------------------------- MODULE MCLlmChain ----------------------------
(* A map tier of one local and two cloud endpoints, all in use, and a       *)
(* local-only reduce tier whose configured fallbacks are dropped.           *)
EXTENDS LlmChain

MCCloud == [t \in {"map", "reduce"} |-> {2, 3}]
MCAllowCloud == [t \in {"map", "reduce"} |-> t = "map"]
=============================================================================
