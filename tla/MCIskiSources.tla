--------------------------- MODULE MCIskiSources ---------------------------
(***************************************************************************)
(* A small instance of IskiSources: one row, two loads of the Worker in    *)
(* flight, ages of one or two ticks, and a clock long enough for a copy to *)
(* outlive its freshness, its retention and the snapshot its age.          *)
(***************************************************************************)
EXTENDS IskiSources, TLC

CONSTANTS f1, s1, s2

MCConfigured == {{}, {"relay", "api"}}
SlotSymmetry == Permutations({s1, s2})
=============================================================================
