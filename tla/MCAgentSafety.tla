--------------------------- MODULE MCAgentSafety ---------------------------
(* Permission requests and terminal/create with one-shot and remembered     *)
(* grants, while sessions are replaced, modes refused and turns ended.      *)
EXTENDS AgentBridge
MCMaxOf == [k \in Kinds |-> IF k = "wait" THEN 1 ELSE 2]
============================================================================
