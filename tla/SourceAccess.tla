---------------------------- MODULE SourceAccess ----------------------------
(***************************************************************************)
(* How connectors reach the outside: a call first takes a token of its     *)
(* source's bucket (AsyncTokenBucket of app/core/rate_limit.py, one per    *)
(* source in app/core/source_limits.py), then sends its request and the    *)
(* retries of it (request_with_retries of app/connectors/http_retry.py).   *)
(* Calls of several sources may go to one host, whose cooldown they share. *)
(*                                                                         *)
(* Two kinds of calls do less.  A streamed call (_request_bounded of       *)
(* ckan.py, the downloads of gtfs.py, gtfs_schedule.py and                 *)
(* city_open_data.py) takes a token of ckan, but its one request does not  *)
(* go through request_with_retries: it neither heeds nor starts a cooldown *)
(* and tells nobody of a 429.  An unmetered call (social_facilities.py,    *)
(* the API of marmaray.py after its page, the further addresses of         *)
(* sehir_hatlari.py) goes through request_with_retries without a token.    *)
(*                                                                         *)
(* acquire() holds its lock over no await, and nothing suspends between a  *)
(* granted token and the first request: that is one step.  A call waits in *)
(* three places, where it may also be cancelled: asleep for a token, for   *)
(* an answer, and in the pause before a retry.                             *)
(*                                                                         *)
(* Time is counted in ticks, tokens in units of which one refills per      *)
(* tick; a token is worth Cost (1 / refill_per_second).                    *)
(***************************************************************************)
EXTENDS Integers, Sequences

CONSTANTS
    Calls, Sources, Hosts,
    SourceOf, HostOf,   \* the source and the host of each call
    Streamed,           \* the calls sent by client.stream
    Unmetered,          \* the calls that take no token
    Capacity, Cost,     \* capacity and price of a bucket
    MaxWait,            \* max_wait_seconds
    Attempts,           \* attempts of request_with_retries
    Cooldown,           \* UNREACHABLE_HOST_COOLDOWN_SECONDS
    Delays,             \* what Retry-After may say, a bound
    MaxClock            \* bound of the monotonic clock

ASSUME MappingAssumption == SourceOf \in [Calls -> Sources] /\ HostOf \in [Calls -> Hosts]
ASSUME KindsAssumption == Streamed \subseteq Calls /\ Unmetered \subseteq Calls \ Streamed
ASSUME BucketAssumption == Capacity \in Nat \ {0} /\ Cost \in Nat \ {0} /\ MaxWait \in Nat
ASSUME RetryAssumption == Attempts \in Nat \ {0} /\ Cooldown \in Nat /\ Delays \subseteq Nat
ASSUME ClockAssumption == MaxClock \in Nat

VARIABLES
    clock,
    limiter,      \* the bucket of each source: its units when last looked at, and its block
    unreachable,  \* _unreachable_until of each host
    pc,           \* where each call is
    call,         \* of a call under way: when it goes on, its attempt, whether it penalized
    granted,      \* history: when each source's tokens were granted
    asked,        \* history: until when each source asked to be left alone
    refused,      \* history: until when a refused call of the source would have waited
    timedOut,     \* history: until when each host is to be left alone
    calm          \* history: the calls asleep for a token that nobody has overtaken

vars == <<clock, limiter, unreachable, pc, call, granted, asked, refused, timedOut, calm>>
history == <<granted, asked, refused, timedOut, calm>>

-----------------------------------------------------------------------------
Price(n) == n * Cost
Full == Price(Capacity)
Limiter == [units : 0..Full, seen : Nat, blocked : Nat]
Waiting == {"asleep", "sending", "paused"}
Call == [due : Nat, attempt : 0..Attempts, penalized : BOOLEAN]
NoCall == [due |-> 0, attempt |-> 0, penalized |-> FALSE]

TypeOK ==
    /\ clock \in 0..MaxClock
    /\ limiter \in [Sources -> Limiter]
    /\ \A s \in Sources : limiter[s].seen <= clock
    /\ unreachable \in [Hosts -> Nat]
    /\ pc \in [Calls -> {"new", "over"} \cup Waiting]
    /\ call \in [Calls -> Call]
    /\ \A c \in Calls : /\ pc[c] = "sending" => call[c].attempt \in 1..Attempts
                        /\ pc[c] = "paused" => call[c].attempt \in 1..(Attempts - 1)
    /\ granted \in [Sources -> Seq(0..MaxClock)]
    /\ asked \in [Sources -> Nat]
    /\ refused \in [Sources -> Int]
    /\ timedOut \in [Hosts -> Nat]
    /\ calm \subseteq Calls

Init ==
    /\ clock = 0
    /\ limiter = [s \in Sources |-> [units |-> Full, seen |-> 0, blocked |-> 0]]
    /\ unreachable = [h \in Hosts |-> 0]
    /\ pc = [c \in Calls |-> "new"]
    /\ call = [c \in Calls |-> NoCall]
    /\ granted = [s \in Sources |-> << >>]
    /\ asked = [s \in Sources |-> 0]
    /\ refused = [s \in Sources |-> -1]
    /\ timedOut = [h \in Hosts |-> 0]
    /\ calm = {}

-----------------------------------------------------------------------------
\* The refill as a bug would have it, without the cap.
RefilledUncapped(s) == limiter[s].units + (clock - limiter[s].seen)

Refilled(s) ==
    LET units == limiter[s].units + (clock - limiter[s].seen)
    IN  IF units <= Full THEN units ELSE Full

Blocked(s) == clock < limiter[s].blocked

\* The wait as a bug would have it, of the block and then of a token.
BlockedAndShort(s) ==
    IF Blocked(s) THEN (limiter[s].blocked - clock) + Cost
    ELSE IF Refilled(s) >= Cost THEN 0
    ELSE Cost - Refilled(s)

\* _retry_after_locked: how long the source is blocked, and otherwise until a token is there.
RetryAfter(s) ==
    IF Blocked(s) THEN limiter[s].blocked - clock
    ELSE IF Refilled(s) >= Cost THEN 0
    ELSE Cost - Refilled(s)

\* acquire() by c, which leaves the bucket with these units.
Asks(c) == (pc[c] = "new" /\ c \notin Unmetered) \/ (pc[c] = "asleep" /\ clock >= call[c].due)
Looked(s, units) == limiter' = [limiter EXCEPT ![s].units = units, ![s].seen = clock]

Granted(c) ==
    LET s == SourceOf[c]
    IN  /\ Asks(c)
        /\ RetryAfter(s) = 0
        /\ Looked(s, Refilled(s) - Cost)
        /\ granted' = [granted EXCEPT ![s] = Append(@, clock)]
        /\ calm' = {d \in calm : SourceOf[d] # s}
        /\ UNCHANGED <<clock, unreachable, asked, refused, timedOut>>

Cooling(h) == clock < unreachable[h]

FirstRequest(c) ==
    /\ pc' = [pc EXCEPT ![c] = "sending"]
    /\ call' = [call EXCEPT ![c] = [due |-> 0, attempt |-> 1, penalized |-> FALSE]]

Ends(c) ==
    /\ pc' = [pc EXCEPT ![c] = "over"]
    /\ call' = [call EXCEPT ![c] = NoCall]

\* The host is cooling down, for a call that asks.
HeldBack(c) == c \notin Streamed /\ Cooling(HostOf[c])

\* A token is there and the call is not held back: the first request goes out.
Send(c) ==
    /\ Granted(c)
    /\ ~HeldBack(c)
    /\ FirstRequest(c)

\* The host is cooling down: the call fails at once, its token spent.
Skip(c) ==
    /\ Granted(c)
    /\ HeldBack(c)
    /\ Ends(c)

\* A call that takes no token sends at once, or fails at once.
SendUnmetered(c) ==
    /\ pc[c] = "new" /\ c \in Unmetered
    /\ IF HeldBack(c) THEN Ends(c) ELSE FirstRequest(c)
    /\ UNCHANGED <<clock, limiter, unreachable, history>>

\* Sleeping as a bug would have it, where the look forgets what was refilled.
SleepLosingRefill(c) ==
    LET s == SourceOf[c]
    IN  /\ Asks(c)
        /\ RetryAfter(s) \in 1..MaxWait
        /\ limiter' = [limiter EXCEPT ![s].seen = clock]
        /\ pc' = [pc EXCEPT ![c] = "asleep"]
        /\ call' = [call EXCEPT ![c] = [NoCall EXCEPT !.due = clock + RetryAfter(s)]]
        /\ calm' = IF Blocked(s) THEN calm \ {c} ELSE calm \cup {c}
        /\ UNCHANGED <<clock, unreachable, granted, asked, refused, timedOut>>

\* A token will be there in time: the call sleeps, and asks again.
Sleep(c) ==
    LET s == SourceOf[c]
    IN  /\ Asks(c)
        /\ RetryAfter(s) \in 1..MaxWait
        /\ Looked(s, Refilled(s))
        /\ pc' = [pc EXCEPT ![c] = "asleep"]
        /\ call' = [call EXCEPT ![c] = [NoCall EXCEPT !.due = clock + RetryAfter(s)]]
        /\ calm' = IF Blocked(s) THEN calm \ {c} ELSE calm \cup {c}
        /\ UNCHANGED <<clock, unreachable, granted, asked, refused, timedOut>>

Larger(a, b) == IF a >= b THEN a ELSE b

\* SourceRateLimitExceeded.
Refuse(c) ==
    LET s == SourceOf[c]
    IN  /\ Asks(c)
        /\ RetryAfter(s) > MaxWait
        /\ Looked(s, Refilled(s))
        /\ pc' = [pc EXCEPT ![c] = "over"]
        /\ call' = [call EXCEPT ![c] = NoCall]
        /\ refused' = [refused EXCEPT ![s] = Larger(@, clock + MaxWait)]
        /\ calm' = calm \ {c}
        /\ UNCHANGED <<clock, unreachable, granted, asked, timedOut>>

-----------------------------------------------------------------------------
\* The retry as a bug would have it, counting only the retries.
AgainPastLimit(c, delay, penalized) ==
    IF call[c].attempt > Attempts THEN Ends(c)
    ELSE /\ pc' = [pc EXCEPT ![c] = "paused"]
         /\ call' = [call EXCEPT ![c].due = clock + delay, ![c].penalized = penalized]

\* After the last attempt the error is raised; before it the call pauses.
Again(c, delay, penalized) ==
    IF call[c].attempt >= Attempts THEN Ends(c)
    ELSE /\ pc' = [pc EXCEPT ![c] = "paused"]
         /\ call' = [call EXCEPT ![c].due = clock + delay, ![c].penalized = penalized]

\* A request of request_with_retries is out.
InRetries(c) == pc[c] = "sending" /\ c \notin Streamed

\* An answer that is not to be retried, or an error that is not a transport's; of a
\* streamed call whatever comes, a 429 or a timeout too.
Answer(c) ==
    /\ pc[c] = "sending"
    /\ Ends(c)
    /\ UNCHANGED <<clock, limiter, unreachable, history>>

\* The cooldown as a bug would have it, not extended by a second timeout.
ConnectTimeoutOnce(c) ==
    LET h == HostOf[c]
    IN  /\ InRetries(c)
        /\ Ends(c)
        /\ unreachable' = [unreachable EXCEPT ![h] = IF Cooling(h) THEN @ ELSE clock + Cooldown]
        /\ timedOut' = [timedOut EXCEPT ![h] = clock + Cooldown]
        /\ UNCHANGED <<clock, limiter, granted, asked, refused, calm>>

\* httpx.ConnectTimeout, also as the relay reports it: the host is left alone for a while.
ConnectTimeout(c) ==
    LET h == HostOf[c]
    IN  /\ InRetries(c)
        /\ Ends(c)
        /\ unreachable' = [unreachable EXCEPT ![h] = clock + Cooldown]
        /\ timedOut' = [timedOut EXCEPT ![h] = clock + Cooldown]
        /\ UNCHANGED <<clock, limiter, granted, asked, refused, calm>>

\* Another timeout or transport error, or a status 500, 502, 503 or 504.
Transient(c) ==
    /\ InRetries(c)
    /\ Again(c, 0, call[c].penalized)
    /\ UNCHANGED <<clock, limiter, unreachable, history>>

\* A status 429, of which only the first penalizes; as a bug would have it, a shorter
\* delay cuts a longer one short.
TooManyRequestsLatest(c, delay) ==
    LET s == SourceOf[c]
    IN  /\ InRetries(c)
        /\ IF call[c].penalized THEN UNCHANGED <<limiter, asked, calm>>
           ELSE /\ limiter' = [limiter EXCEPT ![s].blocked = clock + delay]
                /\ asked' = [asked EXCEPT ![s] = Larger(@, clock + delay)]
                /\ calm' = {d \in calm : SourceOf[d] # s}
        /\ Again(c, delay, TRUE)
        /\ UNCHANGED <<clock, unreachable, granted, refused, timedOut>>

\* A status 429: the first of a call blocks its source for the delay of Retry-After.
TooManyRequests(c, delay) ==
    LET s == SourceOf[c]
    IN  /\ InRetries(c)
        /\ IF call[c].penalized THEN UNCHANGED <<limiter, asked, calm>>
           ELSE /\ limiter' = [limiter EXCEPT ![s].blocked = Larger(@, clock + delay)]
                /\ asked' = [asked EXCEPT ![s] = Larger(@, clock + delay)]
                /\ calm' = {d \in calm : SourceOf[d] # s}
        /\ Again(c, delay, TRUE)
        /\ UNCHANGED <<clock, unreachable, granted, refused, timedOut>>

\* The pause is over: the retry goes out, past the bucket and the cooldown.
Retry(c) ==
    /\ pc[c] = "paused"
    /\ clock >= call[c].due
    /\ pc' = [pc EXCEPT ![c] = "sending"]
    /\ call' = [call EXCEPT ![c].due = 0, ![c].attempt = @ + 1]
    /\ UNCHANGED <<clock, limiter, unreachable, history>>

\* The tool call is cancelled, or runs out of its deadline.
Cancel(c) ==
    /\ pc[c] \in Waiting
    /\ Ends(c)
    /\ calm' = calm \ {c}
    /\ UNCHANGED <<clock, limiter, unreachable, granted, asked, refused, timedOut>>

Tick ==
    /\ clock < MaxClock
    /\ clock' = clock + 1
    /\ UNCHANGED <<limiter, unreachable, pc, call, history>>

Next ==
    \/ \E c \in Calls :
          \/ Send(c) \/ Skip(c) \/ SendUnmetered(c) \/ Sleep(c) \/ Refuse(c)
          \/ Answer(c) \/ ConnectTimeout(c) \/ Transient(c)
          \/ \E delay \in Delays : TooManyRequests(c, delay)
          \/ Retry(c) \/ Cancel(c)
    \/ Tick

Spec == Init /\ [][Next]_vars

-----------------------------------------------------------------------------
\* Whoever sleeps, is refused, fails or is cancelled, in any interval a source grants no
\* more tokens than a full bucket and the refill of the interval pay for, streamed calls
\* included.  Unmetered calls and retries take none.
GrantsPaced ==
    \A s \in Sources : \A i, j \in DOMAIN granted[s] :
        i <= j => Price(j - i + 1) <= Full + (granted[s][j] - granted[s][i])

NewGrant(s) == Len(granted'[s]) > Len(granted[s])

\* While a Retry-After still runs that penalized a source, which is one that
\* request_with_retries met as the first 429 of its call, no token of the source is
\* granted, to a streamed call or to a sleeper that was promised one before it arrived
\* neither.  The Retry-After of a streamed call penalizes nobody and is not spoken of.
RetryAfterHonoured == [][\A s \in Sources : NewGrant(s) => clock >= asked[s]]_vars

\* A refusal is never in vain: had the call been willing to wait max_wait_seconds, it would
\* not have been served, for in that time nobody of its source is.
RefusalsStand == [][\A s \in Sources : NewGrant(s) => clock > refused[s]]_vars

\* After a connect timeout in request_with_retries, no new call of request_with_retries
\* goes to the host, of whatever source, metered or not, until the last of these timeouts
\* is a cooldown ago; calls already under way still retry.  Streamed calls go out all the
\* same, and their timeouts start no cooldown.
CoolingHostLeftAlone ==
    [][\A c \in Calls :
          c \notin Streamed /\ pc'[c] = "sending" /\ pc[c] \in {"new", "asleep"} =>
              clock >= timedOut[HostOf[c]]]_vars

\* A call that slept for a token finds one when it wakes, unless another call took it or
\* the source was blocked meanwhile: the wait it was given was the true one.
SleeperIsServed ==
    \A c \in calm :
        pc[c] = "asleep" /\ clock >= call[c].due =>
            Refilled(SourceOf[c]) >= Cost /\ ~Blocked(SourceOf[c])
=============================================================================
