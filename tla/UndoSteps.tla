------------------------------ MODULE UndoSteps ------------------------------
(***************************************************************************)
(* What undo promises its user, with no changesets and no log: a stack of  *)
(* documents to go back to and a stack of documents to return to.  A run   *)
(* of typing is one step, neither joined with what came before it nor      *)
(* split; a boundary (`typing` false) or an edit by anyone else ends it.   *)
(***************************************************************************)
EXTENDS Integers, Sequences

CONSTANT Documents

VARIABLES past, present, future, typing

abstractVars == <<past, present, future, typing>>

Start ==
  /\ past = <<>>
  /\ present \in Documents
  /\ future = <<>>
  /\ typing = FALSE

\* A new step: one more document to go back to, nothing left to return to.  Typing
\* begins one only where no run is open.
Step ==
  /\ future' = <<>>
  /\ past' = Append(past, present)
  /\ present' \in Documents
  /\ typing' \in BOOLEAN /\ (typing => ~typing')

\* More typing in the run that is open goes into the same step.
Extend ==
  /\ typing
  /\ present' \in Documents
  /\ UNCHANGED <<past, future, typing>>

GoBack ==
  /\ past # <<>>
  /\ present' = past[Len(past)]
  /\ past' = SubSeq(past, 1, Len(past) - 1)
  /\ future' = Append(future, present)
  /\ typing' = FALSE

Return ==
  /\ future # <<>>
  /\ present' = future[Len(future)]
  /\ future' = SubSeq(future, 1, Len(future) - 1)
  /\ past' = Append(past, present)
  /\ typing' = FALSE

Boundary ==
  /\ typing' = FALSE
  /\ UNCHANGED <<past, present, future>>

Move ==
  \/ Step
  \/ Extend
  \/ GoBack
  \/ Return
  \/ Boundary

UndoSpec == Start /\ [][Move]_abstractVars
=============================================================================
