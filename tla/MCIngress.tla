----------------------------- MODULE MCIngress -----------------------------
(***************************************************************************)
(* Three requests with two keys or from two addresses, one slot of each    *)
(* kind, buckets of one request that refill in two ticks.                  *)
(***************************************************************************)
EXTENDS Ingress, TLC

CONSTANTS r1, r2, r3, k1, k2, a1, a2

MCSlotLimit == [s \in {"request", "stream"} |-> 1]
\* A body that may turn out too large may also be answered: it stands for one that fits.
MCOffers == {[kind |-> "call", body |-> "chunked"], [kind |-> "call", body |-> "declared"],
             [kind |-> "listen", body |-> "chunked"], [kind |-> "get", body |-> "fits"],
             [kind |-> "redirect", body |-> "fits"]}
Symmetry == Permutations({r1, r2, r3}) \cup Permutations({k1, k2}) \cup Permutations({a1, a2})
=============================================================================
