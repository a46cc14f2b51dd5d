--------------------------- MODULE MCMapPipeline ---------------------------
(***************************************************************************)
(* MapPipeline with two batches, and images of three by two pixels: every  *)
(* pattern of free and occupied ones, and one with unknown pixels and the  *)
(* two sides of both thresholds.                                           *)
(***************************************************************************)
EXTENDS MapPipeline

Image(pixels) ==
    [p5 |-> TRUE, width |-> 3, height |-> 2, maxval |-> 255, negate |-> FALSE,
     pixels |-> pixels]

MCImages ==
    {Image([i \in 1..6 |-> IF i \in free THEN 254 ELSE 0]) : free \in SUBSET (1..6)}
    \cup {Image(<<254, 206, 205, 205, 89, 254>>),
          [Image(<<0, 0, 254, 0, 254, 0>>) EXCEPT !.negate = TRUE],
          [Image(<<254, 254, 254, 254, 254, 254>>) EXCEPT !.p5 = FALSE]}
=============================================================================
