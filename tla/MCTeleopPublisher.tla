------------------------- MODULE MCTeleopPublisher -------------------------
(***************************************************************************)
(* Two moving commands that differ in both components, so that a mixture   *)
(* of the two is neither, and the released stick.                          *)
(***************************************************************************)
EXTENDS TeleopPublisher

MCCmds == {[linear |-> 1, angular |-> 1], [linear |-> 2, angular |-> 2],
           [linear |-> 0, angular |-> 0]}
=============================================================================
