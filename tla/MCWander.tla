------------------------------ MODULE MCWander ------------------------------
(***************************************************************************)
(* Wander on small values: readings a quarter turn apart, and scans with   *)
(* an obstacle far enough to turn for, near enough to stop for, across the *)
(* seam of a scan that starts behind, on either side, and none at all.     *)
(***************************************************************************)
EXTENDS Wander

Full(ranges) == [ranges |-> ranges, angleMin |-> 0, increment |-> 6]

MCScans ==
    {Full(<<9, 9, 9, 9>>), Full(<<4, 5, 9, 9>>), Full(<<2, 9, 1, 5>>),
     Full(<<1, 9, 9, 9>>),
     [ranges |-> <<9, 9, 2>>, angleMin |-> 21, increment |-> 1]}

MCLinear == {0, 1}
MCAngular == {-1, 0, 1}
=============================================================================
