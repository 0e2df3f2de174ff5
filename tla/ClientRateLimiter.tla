------------------------- MODULE ClientRateLimiter -------------------------
(***************************************************************************)
(* ClientRateLimiter of app/core/abuse_guard.py: one token bucket for each *)
(* client, at most maxClients of them.  acquire() never awaits while it    *)
(* holds its lock, so a call is one step.                                  *)
(*                                                                         *)
(* Tokens are counted in units: one unit refills per tick of the clock,    *)
(* and a request costs Cost of them (Cost is 1 / refill_per_second).       *)
(* updated_at and last_seen_at are always set together: one field, seen.   *)
(***************************************************************************)
EXTENDS Integers, FiniteSets, Sequences

CONSTANTS
    Clients,     \* API key hashes and network addresses
    Capacity,    \* requests a full bucket pays for
    Cost,        \* units of a request
    IdleTicks,   \* the 60 seconds of _prune_locked
    MaxClock,    \* bound of the monotonic clock
    None

VARIABLES
    clock,       \* time.monotonic()
    maxClients,  \* self.max_clients, fixed when the limiter is made
    bucket,      \* self._clients: the bucket of each client, or None
    admitted     \* history: when each client was admitted since it last lost a bucket still in use

rateVars == <<clock, maxClients, bucket, admitted>>

-----------------------------------------------------------------------------
Price(n) == n * Cost
Full == Price(Capacity)
Bucket == [units : 0..Full, seen : 0..MaxClock]

RateTypeOK ==
    /\ clock \in 0..MaxClock
    /\ maxClients \in Nat \ {0}
    /\ bucket \in [Clients -> Bucket \cup {None}]
    /\ admitted \in [Clients -> Seq(0..MaxClock)]

RateInit(limit) ==
    /\ clock = 0
    /\ maxClients = limit
    /\ bucket = [c \in Clients |-> None]
    /\ admitted = [c \in Clients |-> << >>]

Tracked == {c \in Clients : bucket[c] # None}

\* A client unseen for this long has a full bucket again.
StaleTicks == IF IdleTicks >= Full THEN IdleTicks ELSE Full

\* Staleness as a bug would have it, by the idle time alone.
IdleClients == {c \in Tracked : bucket[c].seen + IdleTicks < clock}

StaleClients == {c \in Tracked : bucket[c].seen + StaleTicks < clock}

\* The clients that keep their buckets when one more is tracked: at the limit the stale
\* ones go, and then the oldest as long as there is no room.
Kept ==
    IF Cardinality(Tracked) < maxClients THEN {Tracked}
    ELSE LET live == Tracked \ StaleClients
             room == maxClients - 1
         IN  IF Cardinality(live) <= room THEN {live}
             ELSE {kept \in SUBSET live :
                      /\ Cardinality(kept) = room
                      /\ \A c \in kept, d \in live \ kept : bucket[d].seen <= bucket[c].seen}

\* Who may remain tracked when c asks.
KeptFor(c) == IF bucket[c] # None THEN {Tracked} ELSE Kept

\* What the bucket of c holds now.
Refilled(c) ==
    IF bucket[c] = None THEN Full
    ELSE LET units == bucket[c].units + (clock - bucket[c].seen)
         IN  IF units <= Full THEN units ELSE Full

Allows(c) == Refilled(c) >= Cost

\* The buckets after a request of c: its own pays if it can, and those not kept are gone.
BucketsAfter(c, ok, kept) ==
    [d \in Clients |->
        IF d = c THEN [units |-> IF ok THEN Refilled(c) - Cost ELSE Refilled(c), seen |-> clock]
        ELSE IF d \in kept THEN bucket[d] ELSE None]

\* A client that loses its bucket before it is stale starts over, and its history with it.
AdmittedAfter(c, ok, kept) ==
    [d \in Clients |->
        IF d = c THEN IF ok THEN Append(admitted[c], clock) ELSE admitted[c]
        ELSE IF d \in Tracked \ (kept \cup StaleClients) THEN << >>
        ELSE admitted[d]]

\* acquire(c), which answers whether the request may go on.
Acquire(c, ok) ==
    /\ ok = Allows(c)
    /\ \E kept \in KeptFor(c) : /\ bucket' = BucketsAfter(c, ok, kept)
                               /\ admitted' = AdmittedAfter(c, ok, kept)
    /\ UNCHANGED <<clock, maxClients>>

Tick ==
    /\ clock < MaxClock
    /\ clock' = clock + 1
    /\ UNCHANGED <<maxClients, bucket, admitted>>

\* A restart forgets every bucket.
Forget ==
    /\ bucket' = [c \in Clients |-> None]
    /\ admitted' = [c \in Clients |-> << >>]
    /\ UNCHANGED <<clock, maxClients>>

-----------------------------------------------------------------------------
\* Between any two admissions of a client, no more requests were admitted than one full
\* bucket and the refill of the time between them pay for, whatever was pruned meanwhile,
\* as long as the client itself was not evicted while it was still draining its bucket.
RateBound ==
    \A c \in Clients : \A i, j \in DOMAIN admitted[c] :
        i <= j => Price(j - i + 1) <= Full + (admitted[c][j] - admitted[c][i])
=============================================================================
