----------------------- MODULE MCVerifyLocalization -----------------------
(***************************************************************************)
(* VerifyLocalization with a map that fits the world and one that does     *)
(* not, and timeouts that let a stall be told from a timeout.              *)
(***************************************************************************)
EXTENDS VerifyLocalization

MCMaps == {[w |-> 13, h |-> 10], [w |-> 14, h |-> 9]}
MCWorld == [w |-> 10, h |-> 10]

=============================================================================
