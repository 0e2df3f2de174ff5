--------------------------- MODULE MCGtfsSnapshot ---------------------------
(***************************************************************************)
(* Two workers over one database: w1 with its warm-up and two calls whose  *)
(* loads may overlap, w2 with a call of its own.                           *)
(***************************************************************************)
EXTENDS GtfsSnapshot, TLC

CONSTANTS w1, w2, b1, c1, c2, c3

MCWorkerOf == [c \in Calls |-> IF c = c3 THEN w2 ELSE w1]
CallSymmetry == Permutations({c1, c2})
=============================================================================
