------------------------ MODULE MCBehaviorSupervisor ------------------------
(***************************************************************************)
(* BehaviorSupervisor with a few goals, one pre-usable status, USABLE and  *)
(* one status that is neither.                                             *)
(***************************************************************************)
EXTENDS BehaviorSupervisor, TLC

MCStatuses == {"GLOBAL", "USABLE", "LOST"}
MCSymmetry == Permutations(Goals)

=============================================================================
