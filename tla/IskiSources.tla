---------------------------- MODULE IskiSources ----------------------------
(***************************************************************************)
(* The active water faults, or the dams, of ISKI: the Worker that keeps a  *)
(* copy of them (workers/iski-relay), the client that tries the Worker,    *)
(* ISKI's API and its file before it falls back on an old copy or on a     *)
(* configured snapshot, and the cached answer the four tools are made of.  *)
(*                                                                         *)
(* Data carries the moment `taken' its download began, which no answer     *)
(* shows: the ages the tools promise are checked against it.               *)
(***************************************************************************)
EXTENDS Integers, FiniteSets

CONSTANTS Faults,        \* the rows of a payload
          Fresh,         \* age up to which the Worker calls its copy fresh
          Retention,     \* age up to which it keeps it
          Fetch,         \* longest a load of the Worker takes
          Patience,      \* longest a load of the client takes
          TTL,           \* age up to which the server's cache is fresh
          StaleIfError,  \* how much longer it serves when loading fails
          SnapshotAge,   \* age up to which the snapshot may be used
          Configured,    \* the sets of live sources that may be configured
          Captures,      \* when the snapshot may have been captured; None: there is none
          Slots,         \* loads the Worker has in flight at most
          MaxClock,      \* bound of the clock
          None

ASSUME AgesAreNat ==
    /\ {Fresh, Retention, Fetch, Patience, TTL, StaleIfError, SnapshotAge, MaxClock} \subseteq Nat
    /\ TTL > 0 /\ None \notin Nat
    /\ Configured \subseteq SUBSET {"relay", "api"} /\ Captures \subseteq Nat \cup {None}

VARIABLES clock,
          setup,   \* what is asked for, which sources are configured, when the snapshot was captured
          copy,    \* the Worker's copy in Workers KV
          loads,   \* the Worker's loads
          call,    \* the load of the client
          entry    \* the server's cache entry

vars == <<clock, setup, copy, loads, call, entry>>

-----------------------------------------------------------------------------
(* Payloads *)

Upstreams == {"iski", "edevlet"}
Data == [taken : Nat, from : Upstreams, rows : SUBSET Faults]
Modes == {"relay_edevlet", "relay_iski", "official_api", "live", "snapshot"}

\* What an upstream has to offer: rows, no rows at all, or nothing usable.
Offers == {"rows", "empty", "down"}

\* fetchJson: any well-formed payload will do, one without rows too.
FetchJson(offer) == offer # "down"

\* parseEdevletFaults and parseEdevletDams: a table without usable rows is an error.
FetchEdevlet(offer) == offer = "rows"

\* loadRelayResponse: e-Devlet before ISKI for faults, after it for dams.
LoadRelayResponse(iski, edevlet) ==
    LET order == IF setup.kind = "faults" THEN <<"edevlet", "iski">> ELSE <<"iski", "edevlet">>
        good == (IF FetchJson(iski) THEN {"iski"} ELSE {}) \cup
                (IF FetchEdevlet(edevlet) THEN {"edevlet"} ELSE {})
    IN  IF order[1] \in good THEN order[1]
        ELSE IF order[2] \in good THEN order[2] ELSE None

\* _dam_rows and _validate_fault_payload: dams cannot be none, faults can.
Valid(data) == setup.kind = "dams" => data.rows # {}

-----------------------------------------------------------------------------
(* The Worker *)

Free == {s \in Slots : loads[s] = None}

\* A Worker that measures from the last request, not from the download.
CopyFreshForever == clock - copy.stamp <= Fresh + Retention

CopyFresh == clock - copy.stamp <= Fresh

Load(serves) == [began |-> clock, serves |-> serves]

-----------------------------------------------------------------------------
(* The client *)

Idle == [stage |-> "idle", began |-> 0, held |-> None, failed |-> {}]

\* The source tried after s.
After(s) ==
    CASE s = "relay" -> IF "api" \in setup.configured THEN "api" ELSE "direct"
      [] s = "api" -> "direct"
      [] s = "direct" -> "fallback"

First == IF "relay" \in setup.configured THEN "relay" ELSE After("relay")
Live == setup.configured \cup {"direct"}

\* A client that takes the relay's word for its mode.
RelayModeRaw(data) == data.from

RelayMode(data) == IF data.from = "edevlet" THEN "relay_edevlet" ELSE "relay_iski"

\* A source that failed, or whose copy is old, leaves the turn to the next one.
Pass(source, held) ==
    call' = [call EXCEPT !.stage = After(source), !.held = held, !.failed = @ \cup {source}]

Earlier(a, b) == IF a < b THEN a ELSE b

\* A loader that forgets max_cache_age_seconds.
LoadedUncapped(mode, data, updated, stale, cap) ==
    /\ entry' = [mode |-> mode, data |-> data, updated |-> updated, stale |-> stale, at |-> clock,
                 expires |-> call.began + TTL, maxAge |-> None]
    /\ call' = Idle

\* SourceLoadResult becomes the cache entry, aged from the start of its load; it ends
\* with what its source allows.
Loaded(mode, data, updated, stale, cap) ==
    /\ entry' = [mode |-> mode, data |-> data, updated |-> updated, stale |-> stale, at |-> clock,
                 expires |-> call.began + (IF cap = None THEN TTL ELSE Earlier(cap, TTL)),
                 maxAge |-> IF cap = None THEN None ELSE call.began + cap]
    /\ call' = Idle

\* A client that is content with an old copy.
TakeOld(data, stamp, status) ==
    \/ ~Valid(data) /\ Pass("relay", None) /\ UNCHANGED entry
    \/ Valid(data) /\ Loaded(RelayMode(data), data, stamp, status = "stale", None)

\* The body of a relay answer: refused, held because it is old, or the answer.
Take(data, stamp, status) ==
    \/ ~Valid(data) /\ Pass("relay", None) /\ UNCHANGED entry
    \/ Valid(data) /\ status = "stale" /\ Pass("relay", [data |-> data, stamp |-> stamp]) /\ UNCHANGED entry
    \/ Valid(data) /\ status # "stale" /\ Loaded(RelayMode(data), data, stamp, FALSE, None)

-----------------------------------------------------------------------------
(* The answer *)

Hit == entry # None /\ clock < entry.expires
StaleDeadline ==
    LET window == entry.expires + StaleIfError
    IN  IF entry.maxAge = None THEN window ELSE Earlier(window, entry.maxAge)

\* An entry answers the call that loaded it even if it is past its age by then;
\* later calls get it after a load that failed.
AfterError == ~Hit /\ clock # entry.at

\* _cache_freshness of the four tools.
Status == IF AfterError \/ entry.stale \/ entry.mode = "snapshot" THEN "stale" ELSE "fresh"

\* _fault_row: e-Devlet knows no fault numbers, and neither it nor the API a geometry.
FaultRow(f) == [fault |-> f,
                number |-> entry.mode # "relay_edevlet",
                center |-> entry.mode \notin {"relay_edevlet", "official_api"}]
FaultRows == {FaultRow(f) : f \in entry.data.rows}

\* What the four tools list, before their limit: the faults of a district, the fault
\* of a number, those with a centre near a point, the dams of a name and occupancy.
ActiveFaults(district) == {r \in FaultRows : r.fault \in district}
FaultByNumber(f) == {r \in FaultRows : r.number /\ r.fault = f}
NearbyFaults(near) == {r \in FaultRows : r.center /\ r.fault \in near}
DamOccupancy(wanted) == entry.data.rows \cap wanted

\* A warning list that leaves e-Devlet out.
WarnedWithout ==
    (IF entry.mode = "snapshot" THEN {"snapshot"} ELSE {}) \cup
    (IF entry.stale THEN {"relay copy stale"} ELSE {}) \cup
    (IF AfterError THEN {"cached"} ELSE {})

\* _source_warnings: what e-Devlet leaves out, and which way the data came.
Warned ==
    (IF entry.mode = "relay_edevlet" THEN {"no numbers or geometry"} ELSE {}) \cup
    (IF entry.mode = "snapshot" THEN {"snapshot"} ELSE {}) \cup
    (IF entry.stale THEN {"relay copy stale"} ELSE {}) \cup
    (IF AfterError THEN {"cached"} ELSE {})

-----------------------------------------------------------------------------
Init ==
    /\ clock = 0
    /\ setup \in [kind : {"faults", "dams"}, configured : Configured, captured : Captures]
    /\ copy = None
    /\ loads = [s \in Slots |-> None]
    /\ call = Idle
    /\ entry = None

\* A tool call that finds nothing fresh starts a load; the others wait for it.
Begin ==
    /\ call = Idle
    /\ ~Hit
    /\ call' = [stage |-> First, began |-> clock, held |-> None, failed |-> {}]
    /\ UNCHANGED <<clock, setup, copy, loads, entry>>

\* A request that finds a copy is answered from it; an old one is loaded again
\* in the background, whoever is loading it already.
ServeCopy ==
    /\ call.stage = "relay"
    /\ copy # None
    /\ \/ CopyFresh /\ UNCHANGED loads
       \/ ~CopyFresh /\ \E s \in Free : loads' = [loads EXCEPT ![s] = Load(FALSE)]
    /\ Take(copy.data, copy.stamp, IF CopyFresh THEN "fresh" ELSE "stale")
    /\ UNCHANGED <<clock, setup, copy>>

\* No copy, or one that cannot be read (KV fails now and then): load, and answer.
LoadForCaller ==
    /\ call.stage = "relay"
    /\ \E s \in Free : loads' = [loads EXCEPT ![s] = Load(TRUE)]
    /\ call' = [call EXCEPT !.stage = "relayWait"]
    /\ UNCHANGED <<clock, setup, copy, entry>>

\* A new deployment is warmed up.
WarmUp ==
    /\ \E s \in Free : loads' = [loads EXCEPT ![s] = Load(FALSE)]
    /\ UNCHANGED <<clock, setup, copy, call, entry>>

\* The upstreams answered, or did not.  What they gave is stamped and written (KV may
\* refuse it), over whatever another load wrote meanwhile; a waiting caller gets it.
LoadEnds(s) ==
    /\ loads[s] # None
    /\ loads' = [loads EXCEPT ![s] = None]
    /\ LET waited == loads[s].serves /\ call.stage = "relayWait"
       IN  \E iski, edevlet \in Offers :
             LET from == LoadRelayResponse(iski, edevlet)
             IN  \/ /\ from = None
                    /\ IF waited THEN Pass("relay", None) ELSE UNCHANGED call
                    /\ UNCHANGED <<copy, entry>>
                 \/ /\ from # None
                    /\ \E rows \in IF from = "iski" /\ iski = "empty" THEN {{}} ELSE SUBSET Faults \ {{}} :
                         LET data == [taken |-> loads[s].began, from |-> from, rows |-> rows]
                         IN  /\ copy' \in {copy, [data |-> data, stamp |-> clock]}
                             /\ IF waited THEN Take(data, None, "none") ELSE UNCHANGED <<call, entry>>
    /\ UNCHANGED <<clock, setup>>

\* The relay's answer is lost or late: the request is sent again, or given up.
\* A load it had started goes on without a caller.
RelayLost ==
    /\ call.stage \in {"relay", "relayWait"}
    /\ \/ Pass("relay", None)
       \/ call.stage = "relayWait" /\ call' = [call EXCEPT !.stage = "relay"]
    /\ loads' = [s \in Slots |-> IF loads[s] = None THEN None ELSE [loads[s] EXCEPT !.serves = FALSE]]
    /\ UNCHANGED <<clock, setup, copy, entry>>

\* ISKI's API (a list, then each district's faults) and ISKI's own file.
Ask(source) ==
    /\ call.stage = source
    /\ \/ \E rows \in SUBSET Faults :
            LET data == [taken |-> clock, from |-> "iski", rows |-> rows]
            IN  /\ Valid(data)
                /\ Loaded(IF source = "api" THEN "official_api" ELSE "live", data, None, FALSE, None)
       \/ Pass(source, call.held) /\ UNCHANGED entry
    /\ UNCHANGED <<clock, setup, copy, loads>>

AskApi == Ask("api")
AskDirect == Ask("direct")

SnapshotUsable ==
    /\ setup.captured # None
    /\ setup.captured <= clock
    /\ clock - setup.captured <= SnapshotAge

\* Nothing live: the old copy, else the snapshot, else the error.  A failed load
\* leaves the entry, which is served on as long as it may be.
FallBack ==
    /\ call.stage = "fallback"
    /\ \/ /\ call.held # None
          /\ Loaded(RelayMode(call.held.data), call.held.data, call.held.stamp, TRUE, None)
       \/ /\ call.held = None /\ SnapshotUsable
          /\ \E rows \in SUBSET Faults :
               LET data == [taken |-> setup.captured, from |-> "iski", rows |-> rows]
               IN  /\ Valid(data)
                   /\ Loaded("snapshot", data, setup.captured, FALSE,
                             setup.captured + SnapshotAge - clock)
       \/ /\ call.held = None /\ ~SnapshotUsable
          /\ call' = Idle /\ UNCHANGED entry
    /\ UNCHANGED <<clock, setup, copy, loads>>

\* Another source is loaded and its insert makes room: the entry may go, at any stage of
\* a call for it.
EntryEvicted ==
    /\ entry # None
    /\ entry' = None
    /\ UNCHANGED <<clock, setup, copy, loads, call>>

\* Time passes; a load of the Worker takes at most Fetch, one of the client Patience.
\* KV drops its copy after Retention, and an entry nobody may be served is none.
Tick ==
    /\ clock < MaxClock
    /\ \A s \in Slots : loads[s] # None => clock < loads[s].began + Fetch
    /\ call # Idle => clock < call.began + Patience
    /\ clock' = clock + 1
    /\ copy' = IF copy # None /\ clock' >= copy.stamp + Retention THEN None ELSE copy
    /\ entry' = IF entry # None /\ clock' >= entry.expires /\ clock' > StaleDeadline THEN None ELSE entry
    /\ UNCHANGED <<setup, loads, call>>

Next ==
    \/ Begin \/ ServeCopy \/ LoadForCaller \/ WarmUp \/ RelayLost
    \/ \E s \in Slots : LoadEnds(s)
    \/ AskApi \/ AskDirect \/ FallBack \/ EntryEvicted \/ Tick

Spec == Init /\ [][Next]_vars

-----------------------------------------------------------------------------
(* Properties *)

Copies == [data : Data, stamp : Nat]

TypeOK ==
    /\ clock \in 0..MaxClock
    /\ setup \in [kind : {"faults", "dams"}, configured : SUBSET {"relay", "api"},
                  captured : Nat \cup {None}]
    /\ copy \in Copies \cup {None}
    /\ loads \in [Slots -> [began : Nat, serves : BOOLEAN] \cup {None}]
    /\ call \in [stage : {"idle", "relay", "relayWait", "api", "direct", "fallback"},
                 began : Nat, held : Copies \cup {None}, failed : SUBSET {"relay", "api", "direct"}]
    /\ entry \in [mode : Modes, data : Data, updated : Nat \cup {None}, stale : BOOLEAN,
                  at : Nat, expires : Nat, maxAge : Nat \cup {None}] \cup {None}

\* Three ages are added up behind an answer called fresh: that of the Worker's copy,
\* its load's, and the cache's.  However long the client took, retried and overlapped
\* with other loads, the data was taken no longer ago.  The date an answer gives is
\* that of its data up to a Worker's load, and that of a snapshot exactly.
AgeIsTold ==
    entry # None =>
        /\ Status = "fresh" => clock - entry.data.taken < Fresh + Fetch + TTL
        /\ entry.updated # None => entry.updated - entry.data.taken \in 0..Fetch
        /\ entry.mode = "snapshot" => entry.updated = entry.data.taken

\* docs/configuration.md: a snapshot past its age is not served, from the cache neither,
\* nor as a stale answer after later loads have failed.
SnapshotWithinAge ==
    entry # None /\ entry.mode = "snapshot"
        => clock - setup.captured <= SnapshotAge

\* An old copy or the snapshot becomes the answer only after every live source
\* failed in the same load, and the snapshot only where the Worker had no copy.
LastResort ==
    [][entry' \notin {entry, None} /\ (entry'.stale \/ entry'.mode = "snapshot")
         => Live \subseteq call.failed /\ (entry'.mode = "snapshot" => call.held = None)]_vars

\* An answer that is not fresh says why; a fault that is there and cannot be found by
\* its number is owned up to; the full list of dams is never empty, whatever an
\* upstream or the copy says.
AnswerOwnsUp ==
    entry # None =>
        /\ Status = "stale" => Warned \cap {"snapshot", "relay copy stale", "cached"} # {}
        /\ setup.kind = "dams" => DamOccupancy(Faults) # {}
        /\ setup.kind = "faults" =>
             \A f \in entry.data.rows :
                ActiveFaults({f}) = {} \/ FaultByNumber(f) = {} \/ (NearbyFaults({f}) = {} /\ entry.mode # "official_api")
                    => Warned # {}

=============================================================================
