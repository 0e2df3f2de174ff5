----------------------------- MODULE DailyQuota -----------------------------
(***************************************************************************)
(* DailyQuota of app/storage/quota.py: the table api_daily_usage counts    *)
(* the requests of each API key and UTC day.  consume() runs in threads of *)
(* any worker that shares the file.  It reads the clock, then waits up to  *)
(* a second for SQLite's write lock (BEGIN IMMEDIATE), so other threads    *)
(* may commit, and midnight may pass, between the two.                     *)
(***************************************************************************)
EXTENDS Integers, FiniteSets

CONSTANTS
    Calls,    \* calls of consume
    Keys,     \* key hashes
    Limit,    \* MCP_API_KEY_DAILY_QUOTA
    MaxDay,   \* bound of the calendar
    None

VARIABLES
    today,    \* the UTC date
    usage,    \* api_daily_usage: the count of each key and day, 0 where there is no row
    writer,   \* the call whose transaction holds the write lock, or None
    quota,    \* each call: what it was stamped with and how far it is
    counted   \* history: the calls that a committed row counts or counted

quotaVars == <<today, usage, writer, quota, counted>>

-----------------------------------------------------------------------------
Days == 0..MaxDay
Call == [at : {"idle", "stamped", "inTx", "allowed", "denied", "failed"},
         key : Keys \cup {None}, day : Days, used : 0..Limit]

QuotaTypeOK ==
    /\ today \in Days
    /\ usage \in [Keys -> [Days -> 0..Limit]]
    /\ writer \in Calls \cup {None}
    /\ quota \in [Calls -> Call]
    /\ counted \in SUBSET Calls

QuotaInit ==
    /\ today = 0
    /\ usage = [k \in Keys |-> [d \in Days |-> 0]]
    /\ writer = None
    /\ quota = [c \in Calls |-> [at |-> "idle", key |-> None, day |-> 0, used |-> 0]]
    /\ counted = {}

\* The thread starts: the day is read before the database is.
Stamp(c, k) ==
    /\ quota[c].at = "idle"
    /\ quota' = [quota EXCEPT ![c] = [at |-> "stamped", key |-> k, day |-> today, used |-> 0]]
    /\ UNCHANGED <<today, usage, writer, counted>>

\* BEGIN as a bug would have it: deferred, so that two calls may read the same count.
BeginDeferred(c) ==
    /\ quota[c].at = "stamped"
    /\ writer' = c
    /\ quota' = [quota EXCEPT ![c].at = "inTx", ![c].used = usage[quota[c].key][quota[c].day]]
    /\ UNCHANGED <<today, usage, counted>>

\* BEGIN IMMEDIATE and the SELECT.
Begin(c) ==
    /\ quota[c].at = "stamped"
    /\ writer = None
    /\ writer' = c
    /\ quota' = [quota EXCEPT ![c].at = "inTx", ![c].used = usage[quota[c].key][quota[c].day]]
    /\ UNCHANGED <<today, usage, counted>>

\* The usage after the transaction as a bug would have it, one past the limit.
SettledPastLimit(c) ==
    LET day == quota[c].day
    IN  [k \in Keys |-> [d \in Days |->
            IF d < day THEN 0
            ELSE IF d = day /\ k = quota[c].key /\ quota[c].used <= Limit THEN quota[c].used + 1
            ELSE usage[k][d]]]

\* The usage once the rows of earlier days are deleted, and one more request is counted
\* if the count that was read allows it.
Settled(c) ==
    LET day == quota[c].day
    IN  [k \in Keys |-> [d \in Days |->
            IF d < day THEN 0
            ELSE IF d = day /\ k = quota[c].key /\ quota[c].used < Limit THEN quota[c].used + 1
            ELSE usage[k][d]]]

\* The rest of the transaction.
Commit(c) ==
    /\ quota[c].at = "inTx"
    /\ usage' = Settled(c)
    /\ IF quota[c].used < Limit
       THEN /\ quota' = [quota EXCEPT ![c].at = "allowed", ![c].used = 0]
            /\ counted' = counted \cup {c}
       ELSE /\ quota' = [quota EXCEPT ![c].at = "denied", ![c].used = 0]
            /\ UNCHANGED counted
    /\ writer' = None
    /\ UNCHANGED today

\* sqlite3.Error: the lock was not to be had in time, or the file cannot be read or
\* written.  What the transaction did is rolled back.
Fail(c) ==
    /\ quota[c].at \in {"stamped", "inTx"}
    /\ quota' = [quota EXCEPT ![c].at = "failed"]
    /\ writer' = IF writer = c THEN None ELSE writer
    /\ UNCHANGED <<today, usage, counted>>

Midnight ==
    /\ today < MaxDay
    /\ today' = today + 1
    /\ UNCHANGED <<usage, writer, quota, counted>>

\* A restart ends every thread; SQLite rolls back what had not been committed.
Stop ==
    /\ quota' = [c \in Calls |->
                    IF quota[c].at \in {"stamped", "inTx"} THEN [quota[c] EXCEPT !.at = "failed"]
                    ELSE quota[c]]
    /\ writer' = None
    /\ UNCHANGED <<today, usage, counted>>

-----------------------------------------------------------------------------
CountedOn(k, d) == {c \in counted : quota[c].key = k /\ quota[c].day = d}

\* The row of a key counts every request of the current UTC day that was let through,
\* whatever threads ran at once, failed, or outlived the client that asked: no lost
\* update, no request counted twice, and never more than the limit.
TodayIsCounted ==
    \A k \in Keys : /\ usage[k][today] = Cardinality(CountedOn(k, today))
                    /\ usage[k][today] <= Limit

\* docs/api-access.md:69-70: at most MCP_API_KEY_DAILY_QUOTA requests of a key are
\* accepted on one UTC day.
DailyLimit ==
    \A k \in Keys, d \in Days : Cardinality(CountedOn(k, d)) <= Limit
=============================================================================
