--------------------------- MODULE MCAgentAnswers ---------------------------
(* One command, every operation on it, a permission beside it, a human who  *)
(* closes and restarts it, and the fairness of the three loops.             *)
EXTENDS AgentBridge
MCMaxOf == [k \in Kinds |-> IF k = "wait" THEN 2 ELSE 1]
=============================================================================
