----------------------------- MODULE MCLspSync -----------------------------
EXTENDS LspSync
Letters == Permutations(Chars)
Nothing == [op \in {"open", "reload", "edit", "replace", "close", "ask", "restart", "error",
                    "publish", "progress", "crash", "missing", "restore"} |-> 0]
MCBudgets ==
  {[Nothing EXCEPT !["open"] = 1, !["edit"] = 2, !["replace"] = 1, !["reload"] = 1],
   [Nothing EXCEPT !["open"] = 2, !["edit"] = 1, !["restart"] = 1],
   [Nothing EXCEPT !["open"] = 1, !["edit"] = 1, !["restart"] = 1, !["close"] = 1, !["crash"] = 1],
   [Nothing EXCEPT !["open"] = 1, !["edit"] = 1, !["publish"] = 2, !["restart"] = 1],
   [Nothing EXCEPT !["open"] = 1, !["edit"] = 1, !["ask"] = 2],
   [Nothing EXCEPT !["open"] = 1, !["ask"] = 2, !["error"] = 1],
   [Nothing EXCEPT !["open"] = 1, !["edit"] = 1, !["ask"] = 1, !["error"] = 1, !["restart"] = 1],
   [Nothing EXCEPT !["open"] = 2, !["ask"] = 1, !["replace"] = 1, !["close"] = 1],
   [Nothing EXCEPT !["restore"] = 2, !["ask"] = 1],
   [Nothing EXCEPT !["open"] = 1, !["progress"] = 3, !["crash"] = 2],
   [Nothing EXCEPT !["open"] = 1, !["ask"] = 2, !["crash"] = 1],
   [Nothing EXCEPT !["open"] = 1, !["edit"] = 1, !["ask"] = 1, !["restart"] = 1, !["missing"] = 1]}
============================================================================
