------------------------------ MODULE MCEditor ------------------------------
(* The buffer on two instances: long histories with two saves in flight and *)
(* no overlays, and shorter ones over texts that carry a proposal marker    *)
(* and a derived span.  The first state chooses the instance.               *)
EXTENDS EditorBuffer

CONSTANTS k, x         \* a typed character and one inserted by another source
MCChar == {k, x}
MCKeyText == {<<k>>}
MCOtherText == {<<x>>}
MCOrigins == {<<x, k>>}
MCSelections == {<<1, 1>>}

History ==
  INSTANCE EditorBuffer WITH
    OtherText <- {<<x>>}, Origins <- {<<x>>}, Selections <- {<<0, 1>>},
    MaxLen <- 2, MaxVersion <- 4, MaxWrites <- 1, MaxDecorations <- 0

VARIABLE instance
mcVars == <<vars, instance>>

MCInit ==
  \/ instance = "history" /\ History!Init
  \/ instance = "marked" /\ Init
MCNext ==
  /\ instance' = instance
  /\ \/ instance = "history" /\ History!Next
     \/ instance = "marked" /\ Next
MCSpec == MCInit /\ [][MCNext]_mcVars
=============================================================================
