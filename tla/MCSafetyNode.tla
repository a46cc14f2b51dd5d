---------------------------- MODULE MCSafetyNode ----------------------------
(***************************************************************************)
(* SafetyNode on small values: forward and reverse, never turning, two     *)
(* bumpers, four readings a quarter turn apart, and scans that put an      *)
(* obstacle ahead, astern, across the 0 / 2 pi seam and under the noise    *)
(* floor.                                                                  *)
(***************************************************************************)
EXTENDS SafetyNode

MCLinear == {-1, 0, 1}
MCStraight == {0}

Full(ranges) == [ranges |-> ranges, angleMin |-> 0, increment |-> 6]

(* Half a turn is 12 units, so increment 6 is a quarter turn; 23 with an   *)
(* increment of 1 walks across the seam.                                   *)
MCScans ==
    {Full(<<9, 9, 9, 9>>),                  \* clear
     Full(<<2, 9, 9, 9>>),                  \* obstacle straight ahead
     Full(<<9, 9, 2, 9>>),                  \* the same astern
     Full(<<0, 1, NaN, 9>>),                \* noise ahead, near on the left
     [ranges |-> <<9, 2>>, angleMin |-> 21, increment |-> 1],
     [ranges |-> <<9, 9, 2>>, angleMin |-> -4, increment |-> 3],
     [ranges |-> <<2>>, angleMin |-> 0, increment |-> 0]}
=============================================================================
