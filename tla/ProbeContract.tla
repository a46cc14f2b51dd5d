---------------------------- MODULE ProbeContract ----------------------------
(***************************************************************************)
(* What a listener of /localization_status and /probe_status relies on,    *)
(* without velocities or clocks: the probe gives up only in the middle of  *)
(* a search it has been making since the last edge into GLOBAL, and every  *)
(* such edge starts a new search (probe_behavior.py:53-64).                *)
(***************************************************************************)
EXTENDS StatusContract

VARIABLE exhausted  \* the probe's mode is EXHAUSTED

Active == {GLOBAL, CONVERGING}

ProbeInit == Init /\ exhausted = FALSE

Heard(s) ==
    /\ Announce(s)
    /\ exhausted' = (exhausted /\ (s # GLOBAL \/ status = GLOBAL))

GiveUp == status \in Active /\ ~exhausted /\ exhausted' = TRUE /\ UNCHANGED status

ProbeNext == GiveUp \/ \E s \in Status : Heard(s)

ProbeSpec == ProbeInit /\ [][ProbeNext]_<<status, exhausted>>
=============================================================================
