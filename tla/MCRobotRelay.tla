---------------------------- MODULE MCRobotRelay ----------------------------
(***************************************************************************)
(* RobotRelay with two browsers, two gateway connections and one or two    *)
(* video viewers.  Sockets of one kind are interchangeable in every        *)
(* definition; the run that asks nothing of liveness uses it.              *)
(***************************************************************************)
EXTENDS RobotRelay, TLC

MCSymmetry ==
    Permutations(Robots) \cup Permutations(Conns) \cup Permutations(Viewers)

=============================================================================
