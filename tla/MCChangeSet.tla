---------------------------- MODULE MCChangeSet ----------------------------
(* The laws of one changeset, and its composition with every second and     *)
(* third change, on every builder call sequence in bounds.                  *)
EXTENDS ChangeSetAlgebra
CharSymmetry == Permutations(Char)
=============================================================================
