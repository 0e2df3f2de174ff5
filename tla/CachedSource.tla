---------------------------- MODULE CachedSource ----------------------------
(***************************************************************************)
(* What the source cache promises the code above it.  Of each key there is *)
(* at most one copy, fresh or, if the key is backed, stale.  A fresh copy  *)
(* answers at once; without one a call loads, and answers with what it     *)
(* loaded, else with the copy there is, and fails only when it may fall    *)
(* back on none.  A copy that was once lost or stale is not fresh again    *)
(* before the next load.                                                   *)
(*                                                                         *)
(* Several calls may load one key: the copy is of the load that ended      *)
(* last.                                                                   *)
(***************************************************************************)
CONSTANTS
    Callers,
    Keys,
    Backed,  \* keys whose stale copy stands in for a failed load
    Values,  \* what loads return
    None

VARIABLES
    copy,    \* the copy a call could get of each key, or None
    asked,   \* the key each call waits for, or None
    answer   \* what the last step answered, or None

sourceVars == <<copy, asked, answer>>

FreshCopy(v) == [value |-> v, age |-> "fresh"]
IsFresh(k) == copy[k] # None /\ copy[k].age = "fresh"
Said(kind, k, v) == [kind |-> kind, key |-> k, value |-> v]

\* What a copy of k may have become.
Older(k, e) ==
    {e, None} \cup IF e # None /\ k \in Backed THEN {[value |-> e.value, age |-> "stale"]} ELSE {}

Init ==
    /\ copy = [k \in Keys |-> None]
    /\ asked = [c \in Callers |-> None]
    /\ answer = None

\* Time passes; copies age.
Age ==
    /\ \A k \in Keys : copy'[k] \in Older(k, copy[k])
    /\ answer' = None
    /\ UNCHANGED asked

\* A call that finds no fresh copy has to wait.
Ask(c, k) ==
    /\ asked[c] = None
    /\ ~IsFresh(k)
    /\ asked' = [asked EXCEPT ![c] = k]
    /\ answer' = None
    /\ UNCHANGED copy

\* A fresh copy answers, at once or when the wait is over.
Hit(c, k) ==
    /\ asked[c] \in {None, k}
    /\ IsFresh(k)
    /\ asked' = [asked EXCEPT ![c] = None]
    /\ answer' = Said("hit", k, copy[k].value)
    /\ UNCHANGED copy

\* A call answers with what it loaded.  Its copy may have aged by then, and other
\* copies may have made room for it.
Load(c, k) ==
    /\ asked[c] = k
    /\ \E v \in Values :
        /\ answer' = Said("loaded", k, v)
        /\ copy'[k] \in Older(k, FreshCopy(v))
    /\ \A j \in Keys \ {k} : copy'[j] \in {copy[j], None}
    /\ asked' = [asked EXCEPT ![c] = None]

\* A load fails and the copy stands in.
FallBack(c, k) ==
    /\ asked[c] = k
    /\ k \in Backed /\ copy[k] # None
    /\ asked' = [asked EXCEPT ![c] = None]
    /\ answer' = Said("stale", k, copy[k].value)
    /\ UNCHANGED copy

\* A load fails and there is nothing to fall back on.
Fail(c, k) ==
    /\ asked[c] = k
    /\ k \in Backed => copy[k] = None
    /\ asked' = [asked EXCEPT ![c] = None]
    /\ answer' = Said("error", k, None)
    /\ UNCHANGED copy

\* A call is cancelled.
GiveUp(c) ==
    /\ asked' = [asked EXCEPT ![c] = None]
    /\ answer' = None
    /\ UNCHANGED copy

Next ==
    \/ Age
    \/ \E c \in Callers :
        \/ \E k \in Keys : Ask(c, k) \/ Hit(c, k) \/ Load(c, k) \/ FallBack(c, k) \/ Fail(c, k)
        \/ GiveUp(c)

Spec == Init /\ [][Next]_sourceVars
=============================================================================
