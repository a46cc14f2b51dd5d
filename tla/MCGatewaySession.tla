-------------------------- MODULE MCGatewaySession --------------------------
(***************************************************************************)
(* GatewaySession with one sensor, one topic of the graph to probe, two    *)
(* messages from the relay under way and two frames on their way to the    *)
(* queue.                                                                  *)
(***************************************************************************)
EXTENDS GatewaySession

MCSensors == <<"scan">>
=============================================================================
