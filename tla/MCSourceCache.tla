--------------------------- MODULE MCSourceCache ---------------------------
(***************************************************************************)
(* Small instances of SourceCache.  Of two keys, k1 may be served stale    *)
(* and any other may not (a source read with get()).                       *)
(***************************************************************************)
EXTENDS SourceCache, TLC

CONSTANTS k1, k2, c1, c2, c3

MCTTL == [k \in Keys |-> 1]
MCStaleIfError == [k \in Keys |-> IF k = k1 THEN 2 ELSE 0]
MCCaps == {None, -1, 1}
CallerSymmetry == Permutations(Callers)
=============================================================================
