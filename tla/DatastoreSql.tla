---------------------------- MODULE DatastoreSql ----------------------------
(***************************************************************************)
(* The SQL tool (query of app/services/datastore_sql.py): one query at a   *)
(* time holds query_gate, copies the table unless the cache has a copy,    *)
(* and runs its SQL on the copy in a thread.  The other readers of         *)
(* DatastoreCapture take their copy here too, without the gate.            *)
(*                                                                         *)
(* Between locked() and the gate nothing suspends, so that no query ever   *)
(* waits at it.  A query suspends while it copies, and while it waits for  *)
(* its thread, first through shield() and, once cancelled, without it.     *)
(***************************************************************************)
EXTENDS DatastoreCapture

CONSTANT Queries

ASSUME QueriesAssumption == None \notin Queries

VARIABLES
    gate,     \* the query in query_gate
    pc,       \* where each query is
    threads,  \* the queries whose thread runs
    stored    \* whether snapshot_cache has a fresh copy

queryVars == <<gate, pc, threads, stored>>
vars == <<sourceVars, captureVars, queryVars>>

TypeOK ==
    /\ CaptureTypeOK
    /\ gate \in Queries \cup {None}
    /\ pc \in [Queries -> {"new", "copying", "shielded", "cancelled", "cut", "over"}]
    /\ threads \subseteq Queries
    /\ stored \in BOOLEAN

Init ==
    /\ CaptureInit
    /\ gate = None
    /\ pc = [q \in Queries |-> "new"]
    /\ threads = {}
    /\ stored = FALSE

-----------------------------------------------------------------------------
Leaves(q) == gate' = None /\ pc' = [pc EXCEPT ![q] = "over"]
Runs(q) == pc' = [pc EXCEPT ![q] = "shielded"] /\ threads' = threads \cup {q}

\* sql_busy.
Busy(q) ==
    /\ reader = "sql" /\ pc[q] = "new"
    /\ gate # None
    /\ pc' = [pc EXCEPT ![q] = "over"]
    /\ UNCHANGED <<sourceVars, captureVars, gate, threads, stored>>

\* The cache has a copy: the thread starts at once.
Hit(q) ==
    /\ reader = "sql" /\ pc[q] = "new"
    /\ gate = None
    /\ stored
    /\ gate' = q
    /\ Runs(q)
    /\ UNCHANGED <<sourceVars, captureVars, stored>>

Miss(q) ==
    /\ reader = "sql" /\ pc[q] = "new"
    /\ gate = None
    /\ ~stored
    /\ gate' = q
    /\ pc' = [pc EXCEPT ![q] = "copying"]
    /\ Begin
    /\ UNCHANGED <<sourceVars, threads, stored>>

\* The copy is complete: it is stored, and the thread starts.
Copied(q) ==
    /\ pc[q] = "copying"
    /\ phase = "accepted"
    /\ stored' = TRUE
    /\ Runs(q)
    /\ phase' = "idle"
    /\ UNCHANGED <<sourceVars, reader, total, rows, first, since, failed, gate>>

NotCopied(q) ==
    /\ pc[q] = "copying"
    /\ phase = "rejected"
    /\ Leaves(q)
    /\ phase' = "idle"
    /\ UNCHANGED <<sourceVars, reader, total, rows, first, since, failed, threads, stored>>

\* The thread ends: with rows, or rejected by SQLite or its deadline.
ThreadEnds(q) ==
    /\ q \in threads
    /\ threads' = threads \ {q}
    /\ UNCHANGED <<sourceVars, captureVars, gate, pc, stored>>

\* The query sees the end of its thread and answers, or ends as cancelled.
Answered(q) ==
    /\ pc[q] \in {"shielded", "cancelled"}
    /\ q \notin threads
    /\ Leaves(q)
    /\ UNCHANGED <<sourceVars, captureVars, threads, stored>>

\* Cancelled while copying, the query gives the copy up.
CancelCopy(q) ==
    /\ pc[q] = "copying"
    /\ Leaves(q)
    /\ phase' = "idle"
    /\ UNCHANGED <<sourceVars, reader, total, rows, first, since, failed, threads, stored>>

\* Cancelling as a bug would have it, without the shield.
CancelUnshielded(q) ==
    /\ pc[q] = "shielded"
    /\ Leaves(q)
    /\ UNCHANGED <<sourceVars, captureVars, threads, stored>>

\* The shield keeps the worker from the first cancellation: the query now awaits it bare.
CancelShielded(q) ==
    /\ pc[q] = "shielded"
    /\ pc' = [pc EXCEPT ![q] = "cancelled"]
    /\ UNCHANGED <<sourceVars, captureVars, gate, threads, stored>>

\* A second cancellation reaches the bare await: the query ends, its thread runs on.
CancelAgain(q) ==
    /\ pc[q] = "cancelled"
    /\ gate' = None
    /\ pc' = [pc EXCEPT ![q] = "cut"]
    /\ UNCHANGED <<sourceVars, captureVars, threads, stored>>

\* The copy expires, or copies of other tables push it out.
Expire ==
    /\ stored
    /\ stored' = FALSE
    /\ UNCHANGED <<sourceVars, captureVars, gate, pc, threads>>

QueryStep(q) ==
    \/ Busy(q) \/ Hit(q) \/ Miss(q) \/ Copied(q) \/ NotCopied(q)
    \/ ThreadEnds(q) \/ Answered(q)

Cancellation(q) == CancelCopy(q) \/ CancelShielded(q) \/ CancelAgain(q)

\* The other readers just begin, once.
BeginAlone == reader # "sql" /\ Begin /\ UNCHANGED <<sourceVars, queryVars>>

Next ==
    \/ \E q \in Queries : QueryStep(q) \/ Cancellation(q)
    \/ Expire
    \/ BeginAlone
    \/ CaptureNext /\ UNCHANGED queryVars
    \/ SourceNext /\ UNCHANGED queryVars

\* Requests are answered, threads end at their deadline, and the loop runs what is ready.
Fairness ==
    /\ WF_vars(Answer /\ UNCHANGED queryVars)
    /\ \A q \in Queries : WF_vars(QueryStep(q))

Spec == Init /\ [][Next]_vars /\ Fairness

-----------------------------------------------------------------------------
\* A thread works for the query in the gate, however the queries before it ended: only one
\* that was cancelled again while it waited out its thread leaves the thread behind.
ThreadHeldByGate == \A q \in threads : gate = q \/ pc[q] = "cut"

\* At most one thread runs SQL on a copy: cancelling its query does not let the next one in.
OneThreadAtATime == Cardinality(threads) <= 1

\* A query that is let in leaves the gate, and every copy that is begun ends: neither a table
\* that shrinks under its reader, nor a failure or a cancellation, keeps either for good.
NothingHangs ==
    /\ \A q \in Queries : gate = q ~> gate # q
    /\ Capturing ~> ~Capturing
=============================================================================
