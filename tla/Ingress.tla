------------------------------ MODULE Ingress ------------------------------
(***************************************************************************)
(* The middleware every MCP request passes (app/main.py): API-key          *)
(* authentication and the daily quota of app/core/api_auth.py, and the     *)
(* body, rate and concurrency guards of app/core/abuse_guard.py, in the    *)
(* order authenticate, guard, quota, application.                          *)
(*                                                                         *)
(* Nothing is awaited between the arrival of a request and the moment it   *)
(* has a slot, so arrival is one step.  After it the request waits for its *)
(* quota thread, and then for the application; there it may be cancelled   *)
(* (the client disconnects, the server shuts down).  A cancelled request   *)
(* leaves its quota thread running.                                        *)
(*                                                                         *)
(* One server process is modelled.  To the quota file, the workers that    *)
(* share it are just more threads, which is what the calls of DailyQuota   *)
(* already are.  Only POST and GET of /mcp and /mcp/ pass the guards.      *)
(***************************************************************************)
EXTENDS Integers, FiniteSets, Sequences

CONSTANTS
    Requests,          \* requests for /mcp and /mcp/
    Keys,              \* the key hashes in MCP_API_KEYS, when authentication is on
    Addresses,         \* client addresses
    MaxClientsSetting, \* MCP_RATE_LIMIT_MAX_CLIENTS
    Capacity, Cost, IdleTicks,
    SlotLimit,         \* max_concurrent of each limiter
    Limit,             \* MCP_API_KEY_DAILY_QUOTA
    Offers,            \* the kinds and bodies of the requests that arrive, a bound
    MaxClock, MaxDay,
    MaxRestarts,       \* bound on restarts
    None

VARIABLES
    auth,      \* whether keys are configured, so that authentication is on
    restarts,  \* how often the server was restarted
    pc,        \* where each request is: "new", "refused" by a guard, waiting, or "over"
    request,   \* what a request in flight is: its key, its kind, whether its body is too large
    slots,     \* ConcurrencyLimiter.current of the request and the stream limiter
    clock, maxClients, bucket, admitted,    \* ClientRateLimiter
    today, usage, writer, quota, counted    \* DailyQuota

Clients == Keys \cup Addresses

Rate == INSTANCE ClientRateLimiter
Quota == INSTANCE DailyQuota WITH Calls <- Requests

Classes == {"request", "stream"}

ASSUME RequestsAssumption == IsFiniteSet(Requests) /\ None \notin Requests
ASSUME ClientsAssumption ==
    IsFiniteSet(Keys) /\ IsFiniteSet(Addresses) /\ Keys \cap Addresses = {} /\ None \notin Clients
ASSUME RateAssumption ==
    /\ MaxClientsSetting \in Nat \ {0} /\ Capacity \in Nat \ {0} /\ Cost \in Nat \ {0}
    /\ IdleTicks \in Nat /\ None \notin Rate!Bucket
ASSUME SlotAssumption == SlotLimit \in [Classes -> Nat \ {0}]
ASSUME LimitAssumption == Limit \in Nat \ {0}
ASSUME BoundsAssumption == MaxClock \in Nat /\ MaxDay \in Nat /\ MaxRestarts \in Nat

requestVars == <<pc, request, slots>>
rateVars == <<clock, maxClients, bucket, admitted>>
quotaVars == <<today, usage, writer, quota, counted>>
vars == <<auth, restarts, requestVars, rateVars, quotaVars>>

-----------------------------------------------------------------------------
\* What a request asks for: a call, a call that opens a notification stream
\* (Mcp-Method: subscriptions/listen), the legacy GET stream, or the redirect of /mcp.
Kinds == {"call", "listen", "get", "redirect"}
Class(kind) == IF kind \in {"listen", "get"} THEN "stream" ELSE "request"
Metered(kind) == kind \in {"call", "listen"}

\* The body fits, exceeds the limit by its Content-Length, or turns out to while it is read.
Bodies == {"fits", "declared", "chunked"}
Offer == [kind : Kinds, body : Bodies]
ASSUME OffersAssumption == Offers \subseteq Offer
Request == [key : Keys \cup {None}, kind : Kinds, body : Bodies]

Waiting == {"quota", "app"}

\* What is known of a request while it is not in flight.
NoRequest == [key |-> None, kind |-> "call", body |-> "fits"]

TypeOK ==
    /\ auth \in BOOLEAN
    /\ restarts \in 0..MaxRestarts
    /\ pc \in [Requests -> {"new", "refused", "over"} \cup Waiting]
    /\ request \in [Requests -> Request]
    /\ slots \in [Classes -> Nat]
    /\ Rate!RateTypeOK
    /\ Quota!QuotaTypeOK

\* max_clients as a bug would have it, the setting alone.
MaxClientsAsSet(keyed) == MaxClientsSetting

\* max_clients as create_app passes it: room for every key.
MaxClientsFor(keyed) ==
    IF keyed /\ Cardinality(Keys) > MaxClientsSetting THEN Cardinality(Keys) ELSE MaxClientsSetting

Init ==
    /\ auth \in BOOLEAN
    /\ restarts = 0
    /\ pc = [r \in Requests |-> "new"]
    /\ request = [r \in Requests |-> NoRequest]
    /\ slots = [s \in Classes |-> 0]
    /\ Rate!RateInit(MaxClientsFor(auth))
    /\ Quota!QuotaInit

-----------------------------------------------------------------------------
\* A request counts as the client of its verified key, or of its address.
Arrives(r, c) == pc[r] = "new" /\ c \in (IF auth THEN Keys ELSE Addresses)

Carried(o, c) == [key |-> IF auth THEN c ELSE None, kind |-> o.kind, body |-> o.body]

Unauthorized(r) ==
    /\ auth
    /\ pc[r] = "new"
    /\ pc' = [pc EXCEPT ![r] = "refused"]
    /\ UNCHANGED <<auth, restarts, request, slots, rateVars, quotaVars>>

DeclaredTooLarge(r, o, c) ==
    /\ Arrives(r, c)
    /\ o.body = "declared"
    /\ pc' = [pc EXCEPT ![r] = "refused"]
    /\ UNCHANGED <<auth, restarts, request, slots, rateVars, quotaVars>>

OverRate(r, o, c) ==
    /\ Arrives(r, c)
    /\ o.body # "declared"
    /\ Rate!Acquire(c, FALSE)
    /\ pc' = [pc EXCEPT ![r] = "refused"]
    /\ UNCHANGED <<auth, restarts, request, slots, quotaVars>>

Busy(r, o, c) ==
    /\ Arrives(r, c)
    /\ o.body # "declared"
    /\ Rate!Acquire(c, TRUE)
    /\ slots[Class(o.kind)] >= SlotLimit[Class(o.kind)]
    /\ pc' = [pc EXCEPT ![r] = "refused"]
    /\ UNCHANGED <<auth, restarts, request, slots, quotaVars>>

Admit(r, o, c) ==
    /\ Arrives(r, c)
    /\ o.body # "declared"
    /\ Rate!Acquire(c, TRUE)
    /\ slots[Class(o.kind)] < SlotLimit[Class(o.kind)]
    /\ slots' = [slots EXCEPT ![Class(o.kind)] = @ + 1]
    /\ request' = [request EXCEPT ![r] = Carried(o, c)]
    /\ pc' = [pc EXCEPT ![r] = IF auth /\ Metered(o.kind) THEN "quota" ELSE "app"]
    /\ UNCHANGED <<auth, restarts, quotaVars>>

-----------------------------------------------------------------------------
\* The slot goes back however the request ends: the release is in a finally, and awaits
\* nothing.
Release(r) == slots' = [slots EXCEPT ![Class(request[r].kind)] = IF @ > 0 THEN @ - 1 ELSE 0]

Ends(r) ==
    /\ pc' = [pc EXCEPT ![r] = "over"]
    /\ request' = [request EXCEPT ![r] = NoRequest]
    /\ Release(r)
    /\ UNCHANGED <<auth, restarts, rateVars, quotaVars>>

\* The quota thread of r starts, unless the request was cancelled before.
StartThread(r) ==
    /\ pc[r] = "quota"
    /\ Quota!Stamp(r, request[r].key)
    /\ UNCHANGED <<auth, restarts, requestVars, rateVars>>

QuotaStep(r) ==
    /\ Quota!Begin(r) \/ Quota!Commit(r) \/ Quota!Fail(r)
    /\ UNCHANGED <<auth, restarts, requestVars, rateVars>>

\* The middleware as a bug would have it, open when the store is not to be read.
QuotaAllowsOpen(r) ==
    /\ pc[r] = "quota"
    /\ quota[r].at \in {"allowed", "failed"}
    /\ pc' = [pc EXCEPT ![r] = "app"]
    /\ UNCHANGED <<auth, restarts, request, slots, rateVars, quotaVars>>

QuotaAllows(r) ==
    /\ pc[r] = "quota"
    /\ quota[r].at = "allowed"
    /\ pc' = [pc EXCEPT ![r] = "app"]
    /\ UNCHANGED <<auth, restarts, request, slots, rateVars, quotaVars>>

QuotaDenies(r) ==
    /\ pc[r] = "quota"
    /\ quota[r].at = "denied"
    /\ Ends(r)

QuotaUnavailable(r) ==
    /\ pc[r] = "quota"
    /\ quota[r].at = "failed"
    /\ Ends(r)

\* The application answers, whatever the answer is, a rejected null id included.
Answer(r) == pc[r] = "app" /\ Ends(r)

\* A body too large as a bug would have it, without the finally.
BodyTooLargeKeepingSlot(r) ==
    /\ pc[r] = "app"
    /\ request[r].body = "chunked"
    /\ pc' = [pc EXCEPT ![r] = "over"]
    /\ request' = [request EXCEPT ![r] = NoRequest]
    /\ UNCHANGED <<auth, restarts, slots, rateVars, quotaVars>>

\* RequestBodyTooLarge, raised where the application reads the body.
BodyTooLarge(r) ==
    /\ pc[r] = "app"
    /\ request[r].body = "chunked"
    /\ Ends(r)

\* The client disconnects, or the application raises.
Cancel(r) == pc[r] \in Waiting /\ Ends(r)

Tick == Rate!Tick /\ UNCHANGED <<auth, restarts, requestVars, quotaVars>>
Midnight == Quota!Midnight /\ UNCHANGED <<auth, restarts, requestVars, rateVars>>

\* The process ends and starts again: its requests, slots and buckets are gone, the quota
\* file stays.
Restart ==
    /\ restarts < MaxRestarts
    /\ restarts' = restarts + 1
    /\ pc' = [r \in Requests |-> IF pc[r] \in Waiting THEN "over" ELSE pc[r]]
    /\ request' = [r \in Requests |-> NoRequest]
    /\ slots' = [s \in Classes |-> 0]
    /\ Rate!Forget
    /\ Quota!Stop
    /\ UNCHANGED auth

Next ==
    \/ \E r \in Requests, o \in Offers, c \in Clients :
          DeclaredTooLarge(r, o, c) \/ OverRate(r, o, c) \/ Busy(r, o, c) \/ Admit(r, o, c)
    \/ \E r \in Requests :
          \/ Unauthorized(r) \/ StartThread(r) \/ QuotaStep(r)
          \/ QuotaAllows(r) \/ QuotaDenies(r) \/ QuotaUnavailable(r)
          \/ Answer(r) \/ BodyTooLarge(r) \/ Cancel(r)
    \/ Tick \/ Midnight \/ Restart

Spec == Init /\ [][Next]_vars

-----------------------------------------------------------------------------
\* Each limiter counts the requests that hold one of its slots, no more and no fewer,
\* and never more than its maximum: however a request ends, its slot comes back once.
SlotsMatchRequests ==
    \A s \in Classes :
        /\ slots[s] = Cardinality({r \in Requests : pc[r] \in Waiting /\ Class(request[r].kind) = s})
        /\ slots[s] <= SlotLimit[s]

\* No client is admitted faster than its bucket refills (see ClientRateLimiter).
RateBound == Rate!RateBound

\* With keys configured, no key ever loses its bucket to another client while the
\* server runs: there is always room for all of them (app/main.py:82).
NoKeyForgotten ==
    [][auth /\ restarts' = restarts => \A k \in Keys : bucket[k] # None => bucket'[k] # None]_vars

\* The quota row of a key is exactly what was let through today.
TodayIsCounted == Quota!TodayIsCounted

\* docs/api-access.md:71-73 and :80: a metered request reaches the application only if
\* the quota counted it, and one the earlier guards turned away is never counted.
QuotaGatesTheApp ==
    /\ \A r \in Requests :
          auth /\ Metered(request[r].kind) /\ pc[r] = "app" => r \in counted
    /\ \A r \in counted : auth /\ pc[r] \notin {"new", "refused"}

\* docs/api-access.md:69-70: at most MCP_API_KEY_DAILY_QUOTA requests of a key are
\* accepted on one UTC day.
DailyLimit == Quota!DailyLimit
=============================================================================
