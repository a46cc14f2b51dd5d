---------------------------- MODULE LeaseContract ----------------------------
(***************************************************************************)
(* What relay-protocol.md's layer 3 promises of the control-authority      *)
(* lease, without clocks, alarms or sockets: at any time at most one       *)
(* connection may drive, it must give the lease up (or lose it) before     *)
(* another gets it, and only its commands reach the robot.                 *)
(***************************************************************************)
CONSTANTS Conns, Nobody

VARIABLES
    driver,   \* the connection that may drive, or Nobody
    driven    \* the connection whose command last reached the robot

Init == driver = Nobody /\ driven = Nobody

(* Granted when nobody else drives; asking again renews.                   *)
Acquire(c) == driver \in {Nobody, c} /\ driver' = c /\ UNCHANGED driven

(* Released, closed, or expired.                                           *)
Lose == driver' = Nobody /\ UNCHANGED driven

Drive(c) == driver = c /\ driven' = c /\ UNCHANGED driver

Next == Lose \/ \E c \in Conns : Acquire(c) \/ Drive(c)

Spec == Init /\ [][Next]_<<driver, driven>>
=============================================================================
