---------------------------- MODULE GtfsSnapshot ----------------------------
(***************************************************************************)
(* The published timetable: app/services/gtfs_schedule.py asks the source  *)
(* cache for the id of the current snapshot, the loader of                 *)
(* app/connectors/gtfs_schedule.py stages a feed and publishes it under a  *)
(* new id (app/storage/gtfs_schedule.py), and a query reads the tables in  *)
(* a transaction that first checks the id.                                 *)
(*                                                                         *)
(* Several workers may share the database file; each has a cache entry of  *)
(* its own.  Coroutines interleave where they await; publications and      *)
(* queries run in threads, which interleave with everything.  Cancelling a *)
(* call ends its await, not its thread.  SQLite contributes WAL snapshot   *)
(* reads, a single writer, and rollback of what a failed or killed writer  *)
(* had not committed.                                                      *)
(*                                                                         *)
(* The cache is what SourceCache shows it to be: a fresh entry, a stale    *)
(* one, or none.  Loads of one key may overlap, since its lock may be      *)
(* dropped while it is held.                                               *)
(***************************************************************************)
EXTENDS Integers

CONSTANTS
    Workers,   \* processes over the one database
    Calls,     \* next_departures and snapshot_status calls, and warm-up tasks
    Warmups,   \* those calls that are run_warmup, the start-up task of a worker
    WorkerOf,  \* [Calls -> Workers]
    Tables,    \* the gtfs_schedule_* data tables
    Meta,      \* gtfs_schedule_meta, the one-row table naming snapshot and profile
    MaxId,     \* bound on the snapshots ever published
    None

ASSUME CallsAssumption == Warmups \subseteq Calls /\ WorkerOf \in [Calls -> Workers]
ASSUME TablesAssumption == Meta \notin Tables /\ Tables # {}
ASSUME IdsAssumption == MaxId \in Nat /\ None \notin Int

VARIABLES
    db,       \* the committed database: the snapshot whose rows each table holds
    tx,       \* the image the open write transaction would commit, or None
    thread,   \* the publishing thread of each call
    cache,    \* the cache entry of each worker
    warming,  \* _warmup_active of each worker
    pc,       \* where each call is
    held,     \* the snapshot id a call goes on with
    read,     \* the read transaction of a query
    nextId,   \* the next uuid4
    reply,    \* what the last step answered
    named     \* history: the ids the database has named while a status call goes on

callVars == <<pc, held, read>>
progVars == <<db, tx, thread, cache, warming, callVars, nextId, reply>>
vars == <<progVars, named>>

-----------------------------------------------------------------------------
Ids == 1..MaxId
AllTables == Tables \cup {Meta}
DbImage == [AllTables -> Ids \cup {None}]
ASSUME ImageAssumption == None \notin DbImage

Thread == [at : {"none", "starting", "copying", "committed", "failed"},
           id : Ids \cup {None}, left : SUBSET Tables]
NoThread == [at |-> "none", id |-> None, left |-> {}]

Entry == [id : Ids, age : {"fresh", "stale"}]

Read == [view : DbImage \cup {None}, left : SUBSET Tables, seen : SUBSET (Ids \cup {None})]
NoRead == [view |-> None, left |-> {}, seen |-> {}]

Reply == [kind : {"none", "answer", "status", "warming_up", "unavailable"},
          by : Calls \cup {None}, id : Ids \cup {None}, seen : SUBSET (Ids \cup {None})]
Said(kind, c, id, seen) == [kind |-> kind, by |-> c, id |-> id, seen |-> seen]
NoReply == Said("none", None, None, {})

TypeOK ==
    /\ db \in DbImage
    /\ tx \in DbImage \cup {None}
    /\ thread \in [Calls -> Thread]
    /\ cache \in [Workers -> Entry \cup {None}]
    /\ warming \in [Workers -> BOOLEAN]
    /\ pc \in [Calls -> {"idle", "waiting", "loading", "publishing", "found", "reading",
                         "verifying", "verified"}]
    /\ held \in [Calls -> Ids \cup {None}]
    /\ read \in [Calls -> Read]
    /\ nextId \in 1..(MaxId + 1)
    /\ reply \in Reply

\* A call holds an id exactly while it goes on with one, which a warm-up never does; a
\* query that reads has its view; a thread has the id it publishes; one writer at a time
\* has a transaction open.
HoldsOK ==
    \A c \in Calls :
        /\ held[c] # None <=> pc[c] \in {"found", "reading", "verifying", "verified"}
        /\ thread[c].at = "none" <=> thread[c].id = None
        /\ c \in Warmups => held[c] = None
        /\ pc[c] = "reading" => read[c].view # None
        /\ thread[c].at = "copying" =>
            tx # None /\ \A d \in Calls : thread[d].at = "copying" => d = c

HistoryOK == named \in [Calls -> SUBSET (Ids \cup {None})]

TypeInv == TypeOK /\ HoldsOK /\ HistoryOK

\* A process starts with an empty cache and its warm-up task; the database is whatever
\* the volume holds, here none.
Init ==
    /\ db = [t \in AllTables |-> None]
    /\ tx = None
    /\ thread = [c \in Calls |-> NoThread]
    /\ cache = [w \in Workers |-> None]
    /\ warming = [w \in Workers |-> \E c \in Warmups : WorkerOf[c] = w]
    /\ pc = [c \in Calls |-> IF c \in Warmups THEN "waiting" ELSE "idle"]
    /\ held = [c \in Calls |-> None]
    /\ read = [c \in Calls |-> NoRead]
    /\ nextId = 1
    /\ reply = NoReply
    /\ named = [c \in Calls |-> {}]

-----------------------------------------------------------------------------
Fresh(w) == cache[w] # None /\ cache[w].age = "fresh"
WarmUpCalls(w) == {c \in Warmups : WorkerOf[c] = w}

GoesOnWith(c, id, where) ==
    /\ pc' = [pc EXCEPT ![c] = where]
    /\ held' = [held EXCEPT ![c] = id]

\* As a bug would have it, the id outlives the call.
EndsHolding(c, what) ==
    /\ GoesOnWith(c, held[c], "idle")
    /\ read' = [read EXCEPT ![c] = NoRead]
    /\ reply' = what

\* The call is over: its reply is out and it keeps nothing.
Ends(c, what) ==
    /\ GoesOnWith(c, None, "idle")
    /\ read' = [read EXCEPT ![c] = NoRead]
    /\ reply' = what

\* The warm-up wants no rows: with an id, or without one, it clears the flag.
\* As a bug would have it, only a success clears it.
WarmupClearsOnSuccess(c, succeeded) ==
    warming' = IF c \in Warmups /\ succeeded
               THEN [warming EXCEPT ![WorkerOf[c]] = FALSE] ELSE warming

WarmupClears(c, succeeded) ==
    warming' = IF c \in Warmups THEN [warming EXCEPT ![WorkerOf[c]] = FALSE] ELSE warming

\* _snapshot() returns an id: a query goes on to its thread, the warm-up is done.
SnapshotFound(c, id) ==
    /\ IF c \in Warmups THEN GoesOnWith(c, None, "idle") ELSE GoesOnWith(c, id, "found")
    /\ WarmupClears(c, TRUE)
    /\ reply' = NoReply
    /\ UNCHANGED read

\* _snapshot() raises: a query answers unavailable, the warm-up logs.
SnapshotFails(c) ==
    /\ Ends(c, IF c \in Warmups THEN NoReply ELSE Said("unavailable", c, None, {}))
    /\ WarmupClears(c, FALSE)

-----------------------------------------------------------------------------
\* next_departures is asked during the warm-up: it says so, and loads nothing.
AskWhileWarming(c) ==
    /\ pc[c] = "idle" /\ c \notin Warmups
    /\ warming[WorkerOf[c]]
    /\ reply' = Said("warming_up", c, None, {})
    /\ UNCHANGED <<db, tx, thread, cache, warming, callVars, nextId>>

\* next_departures is asked: a fresh entry gives the id at once, else the call queues
\* for the cache.
Ask(c) ==
    /\ pc[c] = "idle" /\ c \notin Warmups
    /\ ~warming[WorkerOf[c]]
    /\ IF Fresh(WorkerOf[c]) THEN GoesOnWith(c, cache[WorkerOf[c]].id, "found")
                             ELSE GoesOnWith(c, None, "waiting")
    /\ reply' = NoReply
    /\ UNCHANGED <<db, tx, thread, cache, warming, read, nextId>>

\* snapshot_status peeks at the entry, fresh or stale, and never loads.
AskStatus(c) ==
    /\ pc[c] = "idle" /\ c \notin Warmups
    /\ LET w == WorkerOf[c]
       IN  IF cache[w] = None
           THEN /\ reply' = Said(IF warming[w] THEN "warming_up" ELSE "unavailable", c, None, {})
                /\ UNCHANGED callVars
           ELSE /\ GoesOnWith(c, cache[w].id, "verifying")
                /\ reply' = NoReply
                /\ UNCHANGED read
    /\ UNCHANGED <<db, tx, thread, cache, warming, nextId>>

\* The call got the lock after another load filled the entry.
FindFresh(c) ==
    /\ pc[c] = "waiting"
    /\ Fresh(WorkerOf[c])
    /\ SnapshotFound(c, cache[WorkerOf[c]].id)
    /\ UNCHANGED <<db, tx, thread, cache, nextId>>

\* The call becomes the loader: GtfsScheduleClient.load downloads, stages, validates.
StartLoad(c) ==
    /\ pc[c] = "waiting"
    /\ ~Fresh(WorkerOf[c])
    /\ pc' = [pc EXCEPT ![c] = "loading"]
    /\ reply' = NoReply
    /\ UNCHANGED <<db, tx, thread, cache, warming, held, read, nextId>>

\* The staged feed is complete and the deadline has not passed: a new id goes to a
\* thread that publishes it.
StartPublish(c) ==
    /\ pc[c] = "loading"
    /\ thread[c].at = "none"
    /\ nextId <= MaxId
    /\ thread' = [thread EXCEPT ![c] = [at |-> "starting", id |-> nextId, left |-> Tables]]
    /\ nextId' = nextId + 1
    /\ pc' = [pc EXCEPT ![c] = "publishing"]
    /\ reply' = NoReply
    /\ UNCHANGED <<db, tx, cache, warming, held, read>>

-----------------------------------------------------------------------------
\* publish_schedule, statement by statement, in its thread.  The thread of a call that
\* went away has nobody to tell.
ThreadEnds(c, how) ==
    thread' = [thread EXCEPT ![c] = IF pc[c] = "publishing" THEN [@ EXCEPT !.at = how]
                                                            ELSE NoThread]

\* BEGIN IMMEDIATE takes the write lock.
BeginImmediate(c) ==
    /\ thread[c].at = "starting"
    /\ tx = None
    /\ tx' = db
    /\ thread' = [thread EXCEPT ![c].at = "copying"]
    /\ reply' = NoReply
    /\ UNCHANGED <<db, cache, warming, callVars, nextId>>

\* DELETE and INSERT ... SELECT from the staged file, for one table.
CopyTable(c) ==
    /\ thread[c].at = "copying"
    /\ \E t \in thread[c].left :
        /\ tx' = [tx EXCEPT ![t] = thread[c].id]
        /\ thread' = [thread EXCEPT ![c].left = @ \ {t}]
    /\ reply' = NoReply
    /\ UNCHANGED <<db, cache, warming, callVars, nextId>>

\* As a bug would have it, the transaction commits before every table is copied.
CommitEarly(c) ==
    /\ thread[c].at = "copying"
    /\ db' = [tx EXCEPT ![Meta] = thread[c].id]
    /\ tx' = None
    /\ ThreadEnds(c, "committed")
    /\ reply' = NoReply
    /\ UNCHANGED <<cache, warming, callVars, nextId>>

\* The meta row is replaced last, and the transaction commits.
Commit(c) ==
    /\ thread[c].at = "copying"
    /\ thread[c].left = {}
    /\ db' = [tx EXCEPT ![Meta] = thread[c].id]
    /\ tx' = None
    /\ ThreadEnds(c, "committed")
    /\ reply' = NoReply
    /\ UNCHANGED <<cache, warming, callVars, nextId>>

\* The staged file is gone, the lock stays busy past the timeout, the disk is full: the
\* exception rolls back what the transaction had written.
PublishFails(c) ==
    /\ thread[c].at \in {"starting", "copying"}
    /\ tx' = IF thread[c].at = "copying" THEN None ELSE tx
    /\ ThreadEnds(c, "failed")
    /\ reply' = NoReply
    /\ UNCHANGED <<db, cache, warming, callVars, nextId>>

-----------------------------------------------------------------------------
\* The load returns and the cache stores its id.
LoadSucceeds(c) ==
    /\ pc[c] = "publishing"
    /\ thread[c].at = "committed"
    /\ thread' = [thread EXCEPT ![c] = NoThread]
    /\ cache' = [cache EXCEPT ![WorkerOf[c]] = [id |-> thread[c].id, age |-> "fresh"]]
    /\ SnapshotFound(c, thread[c].id)
    /\ UNCHANGED <<db, tx, nextId>>

\* What stays of the thread when its call no longer waits for it.
ThreadOutlives(c) ==
    thread' = [thread EXCEPT ![c] = IF @.at \in {"committed", "failed"} THEN NoThread ELSE @]

\* The load raises: the feed is unusable, the publication failed, or the load timeout
\* fires, in the last case also while the thread still publishes.  The cache falls back
\* to the entry it has, if any.
LoadFails(c) ==
    /\ pc[c] \in {"loading", "publishing"}
    /\ LET w == WorkerOf[c]
       IN  IF cache[w] # None THEN SnapshotFound(c, cache[w].id) ELSE SnapshotFails(c)
    /\ ThreadOutlives(c)
    /\ UNCHANGED <<db, tx, cache, nextId>>

\* wait_for gives up (load timeout plus one second, counted from the call), or the
\* caller goes away: CancelledError passes the cache's fallback by.
CallCancelled(c) ==
    /\ pc[c] \in {"waiting", "loading", "publishing"}
    /\ SnapshotFails(c)
    /\ ThreadOutlives(c)
    /\ UNCHANGED <<db, tx, cache, nextId>>

\* TTL passes: the entry may only be served after a failed reload.
EntryExpires(w) ==
    /\ Fresh(w)
    /\ cache' = [cache EXCEPT ![w].age = "stale"]
    /\ reply' = NoReply
    /\ UNCHANGED <<db, tx, thread, warming, callVars, nextId>>

\* The stale window passes, or another source's insert evicts the expired entry.
EntryDropped(w) ==
    /\ cache[w] # None /\ cache[w].age = "stale"
    /\ cache' = [cache EXCEPT ![w] = None]
    /\ reply' = NoReply
    /\ UNCHANGED <<db, tx, thread, warming, callVars, nextId>>

-----------------------------------------------------------------------------
\* _snapshot_query: BEGIN, and require_snapshot as the first SELECT, which pins the view
\* of the whole transaction.
BeginQuery(c) ==
    /\ pc[c] = "found"
    /\ IF db[Meta] = held[c]
       THEN /\ pc' = [pc EXCEPT ![c] = "reading"]
            /\ read' = [read EXCEPT ![c] = [view |-> db, left |-> Tables, seen |-> {}]]
            /\ reply' = NoReply
            /\ UNCHANGED held
       ELSE Ends(c, Said("unavailable", c, None, {}))
    /\ UNCHANGED <<db, tx, thread, cache, warming, nextId>>

\* As a bug would have it, without BEGIN: each SELECT sees what is committed by then.
ReadTableUnpinned(c) ==
    /\ pc[c] = "reading"
    /\ \E t \in read[c].left :
        read' = [read EXCEPT ![c].left = @ \ {t}, ![c].seen = @ \cup {db[t]}]
    /\ reply' = NoReply
    /\ UNCHANGED <<db, tx, thread, cache, warming, pc, held, nextId>>

\* The query reads one more table of its view.
ReadTable(c) ==
    /\ pc[c] = "reading"
    /\ \E t \in read[c].left :
        read' = [read EXCEPT ![c].left = @ \ {t}, ![c].seen = @ \cup {read[c].view[t]}]
    /\ reply' = NoReply
    /\ UNCHANGED <<db, tx, thread, cache, warming, pc, held, nextId>>

\* The rows are turned into the answer, with the provenance the cache had for the id.
AnswerQuery(c) ==
    /\ pc[c] = "reading"
    /\ read[c].left = {}
    /\ Ends(c, Said("answer", c, held[c], read[c].seen))
    /\ UNCHANGED <<db, tx, thread, cache, warming, nextId>>

\* The one-second progress guard interrupts the query, or SQLite raises.
QueryFails(c) ==
    /\ pc[c] \in {"found", "reading", "verifying", "verified"}
    /\ Ends(c, Said("unavailable", c, None, {}))
    /\ UNCHANGED <<db, tx, thread, cache, warming, nextId>>

\* As a bug would have it, any published snapshot will do.
CheckAnyStatus(c) ==
    /\ pc[c] = "verifying"
    /\ IF db[Meta] # None
       THEN /\ GoesOnWith(c, held[c], "verified")
            /\ reply' = NoReply
            /\ UNCHANGED read
       ELSE Ends(c, Said("unavailable", c, None, {}))
    /\ UNCHANGED <<db, tx, thread, cache, warming, nextId>>

\* _verify_snapshot, in its thread: the id of the cache entry must be the one that the
\* database holds.
CheckStatus(c) ==
    /\ pc[c] = "verifying"
    /\ IF db[Meta] = held[c]
       THEN /\ GoesOnWith(c, held[c], "verified")
            /\ reply' = NoReply
            /\ UNCHANGED read
       ELSE Ends(c, Said("unavailable", c, None, {}))
    /\ UNCHANGED <<db, tx, thread, cache, warming, nextId>>

\* After the await, the row is made of what the cache entry had for the id, whatever has
\* been committed since the check.
ShowStatus(c) ==
    /\ pc[c] = "verified"
    /\ Ends(c, Said("status", c, held[c], {}))
    /\ UNCHANGED <<db, tx, thread, cache, warming, nextId>>

\* The process of a worker ends and starts again: its cache and calls are gone, its
\* open transaction is rolled back, its warm-up begins anew.
Restart(w) ==
    LET mine == {c \in Calls : WorkerOf[c] = w}
    IN  /\ tx' = IF \E c \in mine : thread[c].at = "copying" THEN None ELSE tx
        /\ thread' = [c \in Calls |-> IF c \in mine THEN NoThread ELSE thread[c]]
        /\ cache' = [cache EXCEPT ![w] = None]
        /\ warming' = [warming EXCEPT ![w] = WarmUpCalls(w) # {}]
        /\ pc' = [c \in Calls |-> IF c \notin mine THEN pc[c]
                                  ELSE IF c \in Warmups THEN "waiting" ELSE "idle"]
        /\ held' = [c \in Calls |-> IF c \in mine THEN None ELSE held[c]]
        /\ read' = [c \in Calls |-> IF c \in mine THEN NoRead ELSE read[c]]
        /\ reply' = NoReply
        /\ UNCHANGED <<db, nextId>>

-----------------------------------------------------------------------------
Step ==
    \/ \E c \in Calls :
        \/ AskWhileWarming(c) \/ Ask(c) \/ AskStatus(c)
        \/ FindFresh(c) \/ StartLoad(c) \/ StartPublish(c)
        \/ BeginImmediate(c) \/ CopyTable(c) \/ Commit(c) \/ PublishFails(c)
        \/ LoadSucceeds(c) \/ LoadFails(c) \/ CallCancelled(c)
        \/ BeginQuery(c) \/ ReadTable(c) \/ AnswerQuery(c) \/ QueryFails(c)
        \/ CheckStatus(c) \/ ShowStatus(c)
    \/ \E w \in Workers : EntryExpires(w) \/ EntryDropped(w) \/ Restart(w)

\* No step reads the history; it is kept for ShownWasCurrent.
Remember ==
    named' = [c \in Calls |-> IF pc'[c] \in {"verifying", "verified"}
                              THEN named[c] \cup {db'[Meta]} ELSE {}]

Next == Step /\ Remember

Spec == Init /\ [][Next]_vars

-----------------------------------------------------------------------------
\* The store as its readers see it.
Store == INSTANCE ScheduleStore WITH
    Readers <- Calls, Snapshots <- Ids, Tables <- AllTables,
    published <- db,
    pinned <- [c \in Calls |-> IF pc[c] = "reading" THEN held[c] ELSE None],
    answer <- IF reply.kind = "answer"
              THEN [by |-> reply.by, snapshot |-> reply.id, from |-> reply.seen] ELSE None

\* The tables change together, and an answer comes from the one snapshot that was
\* published when its query began, whatever is published, cancelled, killed or rolled
\* back meanwhile (app/storage/gtfs_schedule.py: "A schedule snapshot is published
\* atomically").
ImplementsStore == Store!Spec

\* All tables of the database belong to one snapshot.
DbWhole == \E s \in Ids \cup {None} : \A t \in AllTables : db[t] = s

\* What the writer has copied belongs to the snapshot it publishes.
WriterOK ==
    \A c \in Calls :
        /\ thread[c].at = "starting" => thread[c].left = Tables
        /\ thread[c].at = "copying" =>
            \A t \in Tables \ thread[c].left : tx[t] = thread[c].id

\* A query reads one whole snapshot, the one it holds.
ReadersOK ==
    \A c \in Calls : pc[c] = "reading" =>
        /\ \A t \in AllTables : read[c].view[t] = held[c]
        /\ read[c].left = Tables \/ read[c].seen = {held[c]}
        /\ read[c].seen \subseteq {held[c]}

\* The inductive invariant of the publication.
PublicationInv == DbWhole /\ WriterOK /\ ReadersOK

\* A status row is about a snapshot that the database held at some moment since the call
\* took its id from the cache.  Not always at the moment it is shown: another worker, or
\* a thread that outlived its load, may commit between the check and the reply.  A
\* cached id that the database had lost before the call is never shown.
ShownWasCurrent ==
    [][reply'.kind = "status" => reply'.id \in named[reply'.by]]_vars

\* Calls are refused as warming_up only while the warm-up task of their process really
\* runs: however it ends, by an id, a failed load, a timeout or a cancellation, they are
\* served again.
RefusedOnlyWhileWarming ==
    \A w \in Workers : warming[w] => \E c \in WarmUpCalls(w) : pc[c] # "idle"

\* A refresh that failed does not replace the previous snapshot ("Hatalı güncelleme
\* önceki başarılı snapshot'ı değiştirmez", docs/gtfs-schedule.md): nothing commits for
\* a call that went on with the previous one.
FailedRefreshKeepsSnapshot ==
    [][\A c \in Calls : Commit(c) => pc[c] \notin {"found", "reading"}]_vars
=============================================================================
