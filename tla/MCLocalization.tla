--------------------------- MODULE MCLocalization ---------------------------
(***************************************************************************)
(* Localization with a spread for each verdict the states make of one:     *)
(* usable, converging, past the hard ceiling; and a covariance that is     *)
(* usable and one past the ceiling.                                        *)
(***************************************************************************)
EXTENDS Localization

MCSpreads == {1, 2, 4}
MCPoses == {[xy |-> 1, yaw |-> 1], [xy |-> 3, yaw |-> 1]}
=============================================================================
