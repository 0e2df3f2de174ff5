------------------------ MODULE MCSourceCacheWindow ------------------------
(***************************************************************************)
(* SourceCache with a history variable: until when the last load of each   *)
(* key said its value may be served as stale.                              *)
(***************************************************************************)
EXTENDS MCSourceCache

VARIABLE promised

HistoryInit == Init /\ promised = [k \in Keys |-> -1]

HistoryNext ==
    /\ Next
    /\ promised' = [k \in Keys |->
            IF reply'.kind = "loaded" /\ reply'.key = k THEN StaleDeadline(k)' ELSE promised[k]]

HistorySpec == HistoryInit /\ [][HistoryNext]_<<vars, promised>>

\* A failed reload is answered with the last loaded value, marked stale, until its window
\* closes (tests/test_source_cache.py: "fresh through TTL, explicit stale up to max_age,
\* then unavailable").  MaxEntries leaves room for every key, so nothing is evicted to
\* make room.
StaleThroughWindow ==
    reply.kind = "error" /\ StaleIfError[reply.key] > 0 => clock > promised[reply.key]
=============================================================================
