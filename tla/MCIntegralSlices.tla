-------------------------- MODULE MCIntegralSlices --------------------------
(***************************************************************************)
(* Five workers of one, three or seven threads, and doubles of 12 bits.    *)
(* The intervals are the program's default one, with fewer numbers than    *)
(* workers; one of five numbers, which ends the slices of workers, but not *)
(* of threads, at whole numbers; and three in which the last thread of a   *)
(* worker ends below (9, 18) or above (17, 23) the beginning of the next   *)
(* worker's slice.                                                         *)
(***************************************************************************)
EXTENDS IntegralSlices

SomeEnds     == {1, 5, 9, 17, 18, 23}
PowersOfTwo  == {2 ^ k : k \in 0 .. 13}
SomeCounts   == {1, 3, 7}
=============================================================================
