--------------------------- MODULE StatusContract ---------------------------
(***************************************************************************)
(* What the listeners of /localization_status (the probe, the supervisor,  *)
(* the verification drivers) rely on, without clocks, readings or AMCL: in *)
(* which order the statuses may be announced.  Messages come between two   *)
(* announcements, so a status may be skipped, but the two unlocalized      *)
(* statuses GLOBAL and CONVERGING are never announced again after any      *)
(* other one without LOST and GLOBAL before them: that edge into GLOBAL is *)
(* what re-arms the probe (probe_behavior.py:58-64).                       *)
(***************************************************************************)
VARIABLE status

UNINITIALIZED == "UNINITIALIZED"
GLOBAL == "GLOBAL"
CONVERGING == "CONVERGING"
USABLE == "USABLE"
DEGRADED == "DEGRADED"
LOST == "LOST"

Localized == {USABLE, DEGRADED}
Status == {UNINITIALIZED, GLOBAL, CONVERGING, LOST} \cup Localized

Follows == [s \in Status |->
    CASE s = UNINITIALIZED -> Status
      [] s = GLOBAL -> Status \ {UNINITIALIZED}
      [] s = CONVERGING -> Localized \cup {CONVERGING, LOST}
      [] s \in Localized -> Localized \cup {LOST}
      [] s = LOST -> {LOST, GLOBAL}]

Init == status = UNINITIALIZED

Announce(s) == s \in Follows[status] /\ status' = s

Next == \E s \in Status : Announce(s)

Spec == Init /\ [][Next]_status
=============================================================================
