---------------------------- MODULE SourceCache ----------------------------
(***************************************************************************)
(* The process-wide cache of upstream data, SourceTTLCache in              *)
(* app/core/source_cache.py.  Every tool call that needs a source goes     *)
(* through it: an entry is fresh for TTL[k] seconds, may be served as      *)
(* explicitly stale for StaleIfError[k] seconds more when a reload fails,  *)
(* and never past an age the loader itself declared.                       *)
(*                                                                         *)
(* A call is a coroutine, so other calls run only where it awaits: while   *)
(* it queues for the lock of its key and while its loader runs.  Each      *)
(* action is the code between two awaits.  asyncio.Lock hands itself over  *)
(* in the order its waiters queued; a lock is held exactly while its       *)
(* caller loads, since no other path keeps it across an await.             *)
(*                                                                         *)
(* An upstream value is identified with the moment its load began, the     *)
(* oldest its contents can be.                                             *)
(***************************************************************************)
EXTENDS Integers, SequencesExt

CONSTANTS
    Callers,       \* coroutines that call get_with_status
    Keys,          \* cache keys
    Locks,         \* asyncio.Lock objects, numbered
    TTL,           \* [Keys -> Nat], ttl_seconds
    StaleIfError,  \* [Keys -> Nat], stale_if_error_seconds
    Caps,          \* what loaders return as max_cache_age_seconds
    MaxEntries,    \* max_entries, after max(1, int(max_entries))
    MaxClock,      \* bound of the monotonic clock
    None           \* Python's None

ASSUME KeysAssumption == None \notin Keys /\ IsFiniteSet(Keys)
ASSUME LocksAssumption == Locks \subseteq Int /\ None \notin Locks
ASSUME WindowsAssumption == TTL \in [Keys -> Nat] /\ StaleIfError \in [Keys -> Nat]
ASSUME CapsAssumption == Caps \subseteq Int \cup {None} /\ None \notin Int
ASSUME LimitAssumption == MaxEntries \in Nat \ {0} /\ MaxClock \in Nat

VARIABLES
    clock,    \* time.monotonic()
    entries,  \* self._entries: an entry or None for each key
    locks,    \* self._locks: a lock or None for each key
    waiters,  \* the queue of each lock object
    pc,       \* where each caller is: "idle", "queued", "loading"
    key,      \* the key a caller asks for
    lock,     \* the lock object a caller waits for or holds
    since,    \* `now` as the caller took it under the lock
    reply     \* what the last step returned or raised

callVars == <<pc, key, lock, since>>
vars == <<clock, entries, locks, waiters, pc, key, lock, since, reply>>

-----------------------------------------------------------------------------
Min2(a, b) == IF a <= b THEN a ELSE b
Max2(a, b) == IF a >= b THEN a ELSE b

Entry == [value : Nat, refreshed : Nat, expires : Nat, maxAge : Nat \cup {None}]
ASSUME EntryAssumption == None \notin Entry
ASSUME CopyAssumption == None \notin [value : Nat, age : {"fresh", "stale"}]

Reply == [kind : {"none", "hit", "loaded", "stale", "error"},
          key : Keys \cup {None}, entry : Entry \cup {None}]
NoReply == [kind |-> "none", key |-> None, entry |-> None]

TypeOK ==
    /\ clock \in 0..MaxClock
    /\ entries \in [Keys -> Entry \cup {None}]
    /\ locks \in [Keys -> Locks \cup {None}]
    /\ waiters \in [Locks -> Seq(Callers)]
    /\ pc \in [Callers -> {"idle", "queued", "loading"}]
    /\ key \in [Callers -> Keys \cup {None}]
    /\ lock \in [Callers -> Locks \cup {None}]
    /\ since \in [Callers -> 0..MaxClock]
    /\ reply \in Reply

Init ==
    /\ clock = 0
    /\ entries = [k \in Keys |-> None]
    /\ locks = [k \in Keys |-> None]
    /\ waiters = [l \in Locks |-> << >>]
    /\ pc = [c \in Callers |-> "idle"]
    /\ key = [c \in Callers |-> None]
    /\ lock = [c \in Callers |-> None]
    /\ since = [c \in Callers |-> 0]
    /\ reply = NoReply

-----------------------------------------------------------------------------
Cached == {k \in Keys : entries[k] # None}
Fresh(k) == entries[k] # None /\ clock < entries[k].expires

\* The last instant a failed reload may fall back to the entry of k.
StaleDeadline(k) ==
    LET e == entries[k]
        window == e.expires + StaleIfError[k]
    IN  IF e.maxAge = None THEN window ELSE Min2(window, e.maxAge)

StaleServable(k) ==
    /\ entries[k] # None
    /\ StaleIfError[k] > 0
    /\ clock <= StaleDeadline(k)

\* peek_with_status as a bug would have it, forgetting the declared age.
PeekIgnoringCap(k) ==
    IF entries[k] = None \/ clock >= entries[k].expires + StaleIfError[k] THEN "absent"
    ELSE IF Fresh(k) THEN "fresh" ELSE "stale"

\* What peek_with_status shows of k without loading anything.
Peek(k) ==
    IF entries[k] = None \/ clock >= StaleDeadline(k) THEN "absent"
    ELSE IF Fresh(k) THEN "fresh" ELSE "stale"

Held(l) == \E c \in Callers : pc[c] = "loading" /\ lock[c] = l
Referenced(l) ==
    \/ \E k \in Keys : locks[k] = l
    \/ \E c \in Callers : lock[c] = l

\* self._locks.setdefault(key, asyncio.Lock()): the registered lock, or a new one.  A
\* new object takes the lowest number that nothing refers to any more.
LocksFor(k) ==
    IF locks[k] # None THEN {locks[k]}
    ELSE {l \in Locks : ~Referenced(l) /\ \A m \in Locks : m < l => Referenced(m)}

-----------------------------------------------------------------------------
\* The fast path: a fresh entry is returned without the lock.
Hit(c, k) ==
    /\ pc[c] = "idle"
    /\ Fresh(k)
    /\ reply' = [kind |-> "hit", key |-> k, entry |-> entries[k]]
    /\ UNCHANGED <<clock, entries, locks, waiters, callVars>>

\* A miss on a free lock: the re-check finds what the fast path found, and the
\* loader starts in the same step.
MissAndLoad(c, k) ==
    /\ pc[c] = "idle"
    /\ ~Fresh(k)
    /\ \E l \in LocksFor(k) :
        /\ ~Held(l)
        /\ waiters[l] = << >>
        /\ locks' = [locks EXCEPT ![k] = l]
        /\ lock' = [lock EXCEPT ![c] = l]
    /\ pc' = [pc EXCEPT ![c] = "loading"]
    /\ key' = [key EXCEPT ![c] = k]
    /\ since' = [since EXCEPT ![c] = clock]
    /\ reply' = NoReply
    /\ UNCHANGED <<clock, entries, waiters>>

\* A miss on a lock that is held, or promised to an earlier waiter.
MissAndWait(c, k) ==
    /\ pc[c] = "idle"
    /\ ~Fresh(k)
    /\ \E l \in LocksFor(k) :
        /\ Held(l) \/ waiters[l] # << >>
        /\ locks' = [locks EXCEPT ![k] = l]
        /\ lock' = [lock EXCEPT ![c] = l]
        /\ waiters' = [waiters EXCEPT ![l] = Append(@, c)]
    /\ pc' = [pc EXCEPT ![c] = "queued"]
    /\ key' = [key EXCEPT ![c] = k]
    /\ reply' = NoReply
    /\ UNCHANGED <<clock, entries, since>>

CanResume(c) ==
    /\ pc[c] = "queued"
    /\ ~Held(lock[c])
    /\ waiters[lock[c]] # << >>
    /\ Head(waiters[lock[c]]) = c

Dequeue(c) == waiters' = [waiters EXCEPT ![lock[c]] = Tail(@)]

\* The call returns or raises, and the lock it may hold is released.
Leave(c) ==
    /\ pc' = [pc EXCEPT ![c] = "idle"]
    /\ key' = [key EXCEPT ![c] = None]
    /\ lock' = [lock EXCEPT ![c] = None]
    /\ since' = [since EXCEPT ![c] = 0]

\* The waiter finds that the holder before it refreshed the entry.
ResumeAndHit(c) ==
    /\ CanResume(c)
    /\ Fresh(key[c])
    /\ Dequeue(c)
    /\ Leave(c)
    /\ reply' = [kind |-> "hit", key |-> key[c], entry |-> entries[key[c]]]
    /\ UNCHANGED <<clock, entries, locks>>

\* A waiter that gives up unless its lock is still the registered one: a bug.
ResumeOnlyRegistered(c) ==
    /\ CanResume(c)
    /\ locks[key[c]] = lock[c]
    /\ ~Fresh(key[c])
    /\ Dequeue(c)
    /\ pc' = [pc EXCEPT ![c] = "loading"]
    /\ since' = [since EXCEPT ![c] = clock]
    /\ reply' = NoReply
    /\ UNCHANGED <<clock, entries, locks, key, lock>>

ResumeAndLoad(c) ==
    /\ CanResume(c)
    /\ ~Fresh(key[c])
    /\ Dequeue(c)
    /\ pc' = [pc EXCEPT ![c] = "loading"]
    /\ since' = [since EXCEPT ![c] = clock]
    /\ reply' = NoReply
    /\ UNCHANGED <<clock, entries, locks, key, lock>>

-----------------------------------------------------------------------------
\* The order in which live entries are evicted for room.
EvictedBefore(k, j) ==
    \/ entries[k].expires < entries[j].expires
    \/ entries[k].expires = entries[j].expires /\ entries[k].refreshed < entries[j].refreshed

\* One entry too many survives: a bug.
SurvivorsOffByOne(now) ==
    LET live == {k \in Cached : now < entries[k].expires}
    IN  {keep \in SUBSET live :
            /\ Cardinality(keep) = Min2(Cardinality(live), MaxEntries)
            /\ \A k \in keep : \A j \in live \ keep : ~EvictedBefore(k, j)}

\* _evict_before_insert: expired entries go, then the earliest to expire until there
\* is room for one more.  Ties fall to dict order, here either way.
Survivors(now) ==
    LET live == {k \in Cached : now < entries[k].expires}
    IN  {keep \in SUBSET live :
            /\ Cardinality(keep) = Min2(Cardinality(live), MaxEntries - 1)
            /\ \A k \in keep : \A j \in live \ keep : ~EvictedBefore(k, j)}

\* The entry stamped when the load ended rather than when it began: a bug.
EntryStampedLate(c, cap) ==
    LET maxAge == IF cap = None THEN None ELSE clock + Max2(0, cap)
        expires == clock + TTL[key[c]]
    IN  [value |-> since[c], refreshed |-> clock,
         expires |-> IF maxAge = None THEN expires ELSE Min2(expires, maxAge),
         maxAge |-> maxAge]

\* A declared age that is already past counts as zero.
LoadedEntry(c, cap) ==
    LET now == since[c]
        maxAge == IF cap = None THEN None ELSE now + Max2(0, cap)
        expires == now + TTL[key[c]]
    IN  [value |-> now, refreshed |-> now,
         expires |-> IF maxAge = None THEN expires ELSE Min2(expires, maxAge),
         maxAge |-> maxAge]

\* The loader returns: make room, insert, answer.  An evicted entry takes the
\* registered lock of its key with it, whoever holds or awaits that lock.
LoadSucceeds(c) ==
    /\ pc[c] = "loading"
    /\ \E cap \in Caps, keep \in Survivors(since[c]) :
        LET new == LoadedEntry(c, cap)
        IN  /\ entries' = [k \in Keys |-> IF k = key[c] THEN new
                                          ELSE IF k \in keep THEN entries[k] ELSE None]
            /\ locks' = [k \in Keys |-> IF k \in Cached \ keep THEN None ELSE locks[k]]
            /\ reply' = [kind |-> "loaded", key |-> key[c], entry |-> new]
    /\ Leave(c)
    /\ UNCHANGED <<clock, waiters>>

\* The loader raises and the old entry is still inside its window.
LoadFailsStale(c) ==
    /\ pc[c] = "loading"
    /\ StaleServable(key[c])
    /\ reply' = [kind |-> "stale", key |-> key[c], entry |-> entries[key[c]]]
    /\ Leave(c)
    /\ UNCHANGED <<clock, entries, locks, waiters>>

\* The failure handler forgets to drop the lock of a key that holds nothing: a bug.
LoadRaisesKeepingLock(c) ==
    /\ pc[c] = "loading"
    /\ ~StaleServable(key[c])
    /\ reply' = [kind |-> "error", key |-> key[c], entry |-> None]
    /\ Leave(c)
    /\ UNCHANGED <<clock, entries, locks, waiters>>

\* The failure handler gives up without looking at the window: a bug.
LoadRaisesAnyhow(c) ==
    /\ pc[c] = "loading"
    /\ locks' = IF entries[key[c]] = None THEN [locks EXCEPT ![key[c]] = None] ELSE locks
    /\ reply' = [kind |-> "error", key |-> key[c], entry |-> None]
    /\ Leave(c)
    /\ UNCHANGED <<clock, entries, waiters>>

\* The loader raises and nothing can be served: the error goes to the caller.
LoadRaises(c) ==
    /\ pc[c] = "loading"
    /\ ~StaleServable(key[c])
    /\ locks' = IF entries[key[c]] = None THEN [locks EXCEPT ![key[c]] = None] ELSE locks
    /\ reply' = [kind |-> "error", key |-> key[c], entry |-> None]
    /\ Leave(c)
    /\ UNCHANGED <<clock, entries, waiters>>

\* The caller's task is cancelled (a timeout around the call, a client that went
\* away).  CancelledError is no Exception: the handler that drops locks is skipped.
CancelQueued(c) ==
    /\ pc[c] = "queued"
    /\ \E p \in DOMAIN waiters[lock[c]] :
        /\ waiters[lock[c]][p] = c
        /\ waiters' = [waiters EXCEPT ![lock[c]] = RemoveAt(@, p)]
    /\ Leave(c)
    /\ reply' = NoReply
    /\ UNCHANGED <<clock, entries, locks>>

CancelLoading(c) ==
    /\ pc[c] = "loading"
    /\ Leave(c)
    /\ reply' = NoReply
    /\ UNCHANGED <<clock, entries, locks, waiters>>

Tick ==
    /\ clock < MaxClock
    /\ clock' = clock + 1
    /\ reply' = NoReply
    /\ UNCHANGED <<entries, locks, waiters, callVars>>

Next ==
    \/ Tick
    \/ \E c \in Callers :
        \/ \E k \in Keys : Hit(c, k) \/ MissAndLoad(c, k) \/ MissAndWait(c, k)
        \/ ResumeAndHit(c)
        \/ ResumeAndLoad(c)
        \/ LoadSucceeds(c)
        \/ LoadFailsStale(c)
        \/ LoadRaises(c)
        \/ CancelQueued(c)
        \/ CancelLoading(c)

Spec == Init /\ [][Next]_vars

\* The event loop runs a woken waiter, and every loader ends: each one works under
\* the timeouts of its HTTP client.
FairSpec ==
    /\ Spec
    /\ \A c \in Callers :
        /\ WF_vars(ResumeAndHit(c) \/ ResumeAndLoad(c))
        /\ WF_vars(LoadSucceeds(c) \/ LoadFailsStale(c) \/ LoadRaises(c))

-----------------------------------------------------------------------------
\* The cache never holds more than max_entries, however loads overlap: a load that
\* began long ago makes room by the entries present when it ends.
CacheWithinLimit == Cardinality(Cached) <= MaxEntries

\* Data is never served past its age.  A hit is younger than the TTL and the age its
\* loader declared, counted from the start of the load, and a stale answer lies within
\* TTL + stale_if_error and that same declared age, whichever load stored the entry and
\* whatever was evicted and reloaded meanwhile.
ServedWithinAge ==
    LET e == reply.entry
        k == reply.key
    IN  /\ reply.kind = "hit" =>
            /\ clock < e.value + TTL[k]
            /\ e.maxAge # None => clock < e.maxAge
        /\ reply.kind = "stale" =>
            /\ clock <= e.value + TTL[k] + StaleIfError[k]
            /\ e.maxAge # None => clock <= e.maxAge

\* The copy of k that a call, or a failing load, would get at this moment.
Copy(k) ==
    IF Fresh(k) THEN [value |-> entries[k].value, age |-> "fresh"]
    ELSE IF StaleServable(k) THEN [value |-> entries[k].value, age |-> "stale"] ELSE None

\* The cache as the code above it sees it.
Source == INSTANCE CachedSource WITH
    Backed <- {k \in Keys : StaleIfError[k] > 0}, Values <- 0..MaxClock,
    copy <- [k \in Keys |-> Copy(k)],
    asked <- key,
    answer <- IF reply.kind = "none" THEN None
              ELSE [kind |-> reply.kind, key |-> reply.key,
                    value |-> IF reply.entry = None THEN None ELSE reply.entry.value]

\* A call gets a fresh copy, what it loaded, or the copy that stands in for a failed load,
\* and an error only when there is none, of the key it asked for; a copy that aged or was
\* evicted does not come back, whatever loads, waiters and evictions of other keys overlap
\* (get_with_status as the services use it).
ImplementsCachedSource == Source!Spec

\* The read-only peek behind the snapshot status tools never shows data that a call
\* could not get: what it shows fresh is a hit, what it shows stale is what a failing
\* reload would return.
PeekShowsServable ==
    \A k \in Keys :
        /\ Peek(k) = "fresh" => Fresh(k)
        /\ Peek(k) = "stale" => ~Fresh(k) /\ StaleServable(k)

\* A lock registered for a key that holds no entry and that nobody asks for.
Orphaned(k) ==
    /\ locks[k] # None
    /\ entries[k] = None
    /\ \A c \in Callers : key[c] # k

\* Failed loads and evictions leave no lock behind, in whatever order overlapping calls
\* end: only a cancelled call can leave one.
OrphanLocksComeFromCancel ==
    [][\A k \in Keys : ~Orphaned(k) /\ Orphaned(k)' =>
            \E c \in Callers : CancelQueued(c) \/ CancelLoading(c)]_vars

\* Every call comes to an end: the waiters of a lock that was dropped from the registry,
\* or whose holder failed or was cancelled, are still served in turn.
EveryCallEnds == \A c \in Callers : pc[c] # "idle" ~> pc[c] = "idle"

\* Two concurrent callers of one key share one load
\* (tests/test_source_cache.py: "Two concurrent callers share one refresh lock").
SingleFlight ==
    \A c, d \in Callers :
        pc[c] = "loading" /\ pc[d] = "loading" /\ key[c] = key[d] => c = d
=============================================================================
