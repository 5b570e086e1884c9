------------------------------ MODULE MCReview ------------------------------
(* A two-line file, one line the human writes, one the agent writes, and one *)
(* proposal that the human's edits overtake in every order.                  *)
EXTENDS Review
CONSTANTS l1, l2, hl, gl
MCChar == {l1, l2, hl, gl}
MCOrigins == {<<l1, l2>>}
=============================================================================
