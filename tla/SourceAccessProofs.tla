------------------------- MODULE SourceAccessProofs -------------------------
(***************************************************************************)
(* Proofs about SourceAccess, for any number of calls, sources and hosts   *)
(* and all parameters of the buckets and of the retries.                   *)
(***************************************************************************)
EXTENDS SourceAccess, SequenceTheorems, TLAPS

-----------------------------------------------------------------------------
\* Prices are numbers that add up.
LEMMA PriceFacts ==
    /\ Cost \in Nat \ {0} /\ Full \in Nat /\ Cost <= Full
    /\ \A n \in Int : Price(n) \in Int /\ Price(n + 1) = Price(n) + Cost
    /\ Price(1) = Cost
    /\ \A n \in Int : n <= 0 => Price(n) <= 0
  <1>1. Cost \in Nat \ {0} /\ Capacity \in Nat \ {0}
    BY BucketAssumption
  <1>2. Full \in Nat /\ Cost <= Full
    BY <1>1 DEF Full, Price
  <1>3. \A n \in Int : Price(n) \in Int /\ Price(n + 1) = Price(n) + Cost
    BY <1>1 DEF Price
  <1>4. Price(1) = Cost /\ \A n \in Int : n <= 0 => Price(n) <= 0
    BY <1>1 DEF Price
  <1>5. QED
    BY <1>1, <1>2, <1>3, <1>4

\* What the types say of one source.
LEMMA SourceFacts ==
    ASSUME TypeOK, NEW s \in Sources
    PROVE  /\ clock \in Nat /\ clock <= MaxClock
           /\ limiter[s].units \in 0..Full /\ limiter[s].seen \in Nat /\ limiter[s].seen <= clock
           /\ limiter[s].blocked \in Nat
           /\ Refilled(s) \in 0..Full
           /\ Refilled(s) <= limiter[s].units + (clock - limiter[s].seen)
           /\ Refilled(s) = Full \/ Refilled(s) = limiter[s].units + (clock - limiter[s].seen)
           /\ RetryAfter(s) \in Nat
           /\ granted[s] \in Seq(0..MaxClock) /\ asked[s] \in Nat /\ refused[s] \in Int
  <1>1. clock \in Nat /\ clock <= MaxClock
    BY ClockAssumption DEF TypeOK
  <1>2. /\ limiter[s] \in Limiter
        /\ limiter[s].seen <= clock
        /\ granted[s] \in Seq(0..MaxClock) /\ asked[s] \in Nat /\ refused[s] \in Int
    BY DEF TypeOK
  <1>3. limiter[s].units \in 0..Full /\ limiter[s].seen \in Nat /\ limiter[s].blocked \in Nat
    BY <1>2 DEF Limiter
  <1>4. /\ Refilled(s) \in 0..Full
        /\ Refilled(s) <= limiter[s].units + (clock - limiter[s].seen)
        /\ Refilled(s) = Full \/ Refilled(s) = limiter[s].units + (clock - limiter[s].seen)
    <2> DEFINE sum == limiter[s].units + (clock - limiter[s].seen)
    <2>1. sum \in Nat /\ Full \in Nat
      <3>1. clock - limiter[s].seen \in Nat
        BY <1>1, <1>2, <1>3
      <3>2. limiter[s].units \in Nat /\ Full \in Nat
        BY <1>3, PriceFacts
      <3>3. QED
        BY <3>1, <3>2
    <2>2. Refilled(s) = IF sum <= Full THEN sum ELSE Full
      BY DEF Refilled
    <2> HIDE DEF sum
    <2>3. Refilled(s) \in 0..Full /\ Refilled(s) <= sum /\ (Refilled(s) = Full \/ Refilled(s) = sum)
      BY <2>1, <2>2
    <2>4. QED
      BY <2>3 DEF sum
  <1>5. RetryAfter(s) \in Nat
    <2>1. limiter[s].blocked \in Nat /\ clock \in Nat /\ Refilled(s) \in Nat /\ Cost \in Nat
      BY <1>1, <1>3, <1>4, PriceFacts
    <2>2. CASE Blocked(s)
      <3>1. RetryAfter(s) = limiter[s].blocked - clock
        BY <2>2 DEF RetryAfter
      <3>2. QED
        BY <2>1, <2>2, <3>1 DEF Blocked
    <2>3. CASE ~Blocked(s)
      <3>1. RetryAfter(s) = IF Refilled(s) >= Cost THEN 0 ELSE Cost - Refilled(s)
        BY <2>3 DEF RetryAfter
      <3>2. QED
        BY <2>1, <3>1
    <2>4. QED
      BY <2>2, <2>3
  <1>6. QED
    BY <1>1, <1>2, <1>3, <1>4, <1>5

\* What the wait of a source means.
LEMMA WaitFacts ==
    ASSUME TypeOK, NEW s \in Sources
    PROVE  /\ RetryAfter(s) = 0 => Refilled(s) >= Cost /\ limiter[s].blocked <= clock
           /\ limiter[s].blocked > clock => RetryAfter(s) = limiter[s].blocked - clock
           /\ limiter[s].blocked <= clock /\ Refilled(s) < Cost => RetryAfter(s) = Cost - Refilled(s)
           /\ limiter[s].blocked <= clock /\ Refilled(s) >= Cost => RetryAfter(s) = 0
  <1>1. clock \in Nat /\ limiter[s].blocked \in Nat /\ Refilled(s) \in Int /\ Cost \in Int
    <2>1. Refilled(s) \in 0..Full /\ clock \in Nat /\ limiter[s].blocked \in Nat
      BY SourceFacts
    <2>2. QED
      BY <2>1, PriceFacts
  <1>2. CASE limiter[s].blocked > clock
    <2>1. Blocked(s)
      BY <1>2 DEF Blocked
    <2>2. RetryAfter(s) = limiter[s].blocked - clock
      BY <2>1 DEF RetryAfter
    <2>3. QED
      BY <1>1, <1>2, <2>2
  <1>3. CASE ~(limiter[s].blocked > clock)
    <2>1. ~Blocked(s)
      BY <1>1, <1>3 DEF Blocked
    <2>2. RetryAfter(s) = IF Refilled(s) >= Cost THEN 0 ELSE Cost - Refilled(s)
      BY <2>1 DEF RetryAfter
    <2>3. QED
      BY <1>1, <1>3, <2>2
  <1>4. QED
    BY <1>2, <1>3

-----------------------------------------------------------------------------
(***************************************************************************)
(* What a step may do to one source: nothing, a look at its bucket, a      *)
(* grant, a penalty, or a tick of the clock.                               *)
(***************************************************************************)
Untouched(s) ==
    /\ limiter'[s] = limiter[s]
    /\ granted'[s] = granted[s] /\ asked'[s] = asked[s] /\ refused'[s] = refused[s]

LookedAt(s) ==
    /\ clock' = clock
    /\ limiter'[s] = [units |-> Refilled(s), seen |-> clock, blocked |-> limiter[s].blocked]
    /\ granted'[s] = granted[s] /\ asked'[s] = asked[s]
    /\ \/ refused'[s] = refused[s]
       \/ RetryAfter(s) > MaxWait /\ refused'[s] = Larger(refused[s], clock + MaxWait)

GrantedAt(s) ==
    /\ clock' = clock
    /\ RetryAfter(s) = 0
    /\ limiter'[s] = [units |-> Refilled(s) - Cost, seen |-> clock, blocked |-> limiter[s].blocked]
    /\ granted'[s] = Append(granted[s], clock)
    /\ asked'[s] = asked[s] /\ refused'[s] = refused[s]

PenalizedAt(s) ==
    /\ clock' = clock
    /\ granted'[s] = granted[s] /\ refused'[s] = refused[s]
    /\ \E delay \in Nat :
          /\ limiter'[s] = [units |-> limiter[s].units, seen |-> limiter[s].seen,
                            blocked |-> Larger(limiter[s].blocked, clock + delay)]
          /\ asked'[s] = Larger(asked[s], clock + delay)

SourceStep(s) ==
    \/ Untouched(s) /\ clock' = clock
    \/ Untouched(s) /\ clock' = clock + 1 /\ clock < MaxClock
    \/ LookedAt(s) \/ GrantedAt(s) \/ PenalizedAt(s)

\* Of two sources, a look at one leaves the other alone.
LEMMA LookedFacts ==
    ASSUME TypeOK, NEW t \in Sources, NEW units, Looked(t, units)
    PROVE  /\ limiter'[t] = [units |-> units, seen |-> clock, blocked |-> limiter[t].blocked]
           /\ \A s \in Sources \ {t} : limiter'[s] = limiter[s]
           /\ limiter' = [s \in Sources |-> limiter'[s]]
  <1>1. limiter \in [Sources -> Limiter]
    BY DEF TypeOK
  <1>2. limiter[t] \in Limiter
    BY <1>1
  <1>3. limiter'[t] = [limiter[t] EXCEPT !.units = units, !.seen = clock]
    BY <1>1 DEF Looked
  <1>4. limiter'[t] = [units |-> units, seen |-> clock, blocked |-> limiter[t].blocked]
    BY <1>2, <1>3 DEF Limiter
  <1>5. \A s \in Sources \ {t} : limiter'[s] = limiter[s]
    BY <1>1 DEF Looked
  <1>6. limiter' = [s \in Sources |-> limiter'[s]]
    BY <1>1 DEF Looked
  <1>7. QED
    BY <1>4, <1>5, <1>6

\* A call has a source and a host.
LEMMA MappedFacts ==
    ASSUME NEW c \in Calls
    PROVE  SourceOf[c] \in Sources /\ HostOf[c] \in Hosts
  BY MappingAssumption

\* A grant takes a token of the call's source and touches no other source.
LEMMA GrantedIsStep ==
    ASSUME TypeOK, NEW c \in Calls, Granted(c), NEW s \in Sources
    PROVE  /\ SourceStep(s)
           /\ s = SourceOf[c] => GrantedAt(s)
           /\ s # SourceOf[c] => Untouched(s) /\ clock' = clock
  <1>1. SourceOf[c] \in Sources
    BY MappedFacts
  <1>2. /\ RetryAfter(SourceOf[c]) = 0
        /\ Looked(SourceOf[c], Refilled(SourceOf[c]) - Cost)
        /\ granted' = [granted EXCEPT ![SourceOf[c]] = Append(@, clock)]
        /\ clock' = clock /\ asked' = asked /\ refused' = refused
    BY DEF Granted
  <1>3. granted \in [Sources -> Seq(0..MaxClock)]
    BY DEF TypeOK
  <1>4. CASE s = SourceOf[c]
    <2>1. limiter'[s] = [units |-> Refilled(s) - Cost, seen |-> clock, blocked |-> limiter[s].blocked]
      BY <1>1, <1>2, <1>4, LookedFacts
    <2>2. granted'[s] = Append(granted[s], clock)
      BY <1>2, <1>3, <1>4
    <2>3. QED
      BY <1>2, <1>4, <2>1, <2>2 DEF GrantedAt, SourceStep
  <1>5. CASE s # SourceOf[c]
    <2>1. limiter'[s] = limiter[s]
      BY <1>1, <1>2, <1>5, LookedFacts
    <2>2. QED
      BY <1>2, <1>3, <1>5, <2>1 DEF Untouched, SourceStep
  <1>6. QED
    BY <1>4, <1>5

\* A call that goes to sleep has only looked at the bucket of its source.
LEMMA SleepIsStep ==
    ASSUME TypeOK, NEW c \in Calls, Sleep(c), NEW s \in Sources
    PROVE  /\ SourceStep(s)
           /\ s = SourceOf[c] => LookedAt(s)
           /\ s # SourceOf[c] => Untouched(s) /\ clock' = clock
  <1>1. SourceOf[c] \in Sources
    BY MappedFacts
  <1>2. /\ Looked(SourceOf[c], Refilled(SourceOf[c]))
        /\ clock' = clock /\ granted' = granted /\ asked' = asked /\ refused' = refused
    BY DEF Sleep
  <1>3. CASE s = SourceOf[c]
    BY <1>1, <1>2, <1>3, LookedFacts DEF LookedAt, SourceStep
  <1>4. CASE s # SourceOf[c]
    BY <1>1, <1>2, <1>4, LookedFacts DEF Untouched, SourceStep
  <1>5. QED
    BY <1>3, <1>4

\* A call that is refused has only looked at the bucket of its source.
LEMMA RefuseIsStep ==
    ASSUME TypeOK, NEW c \in Calls, Refuse(c), NEW s \in Sources
    PROVE  /\ SourceStep(s)
           /\ s = SourceOf[c] => LookedAt(s)
           /\ s # SourceOf[c] => Untouched(s) /\ clock' = clock
  <1>1. SourceOf[c] \in Sources
    BY MappedFacts
  <1>2. /\ Looked(SourceOf[c], Refilled(SourceOf[c]))
        /\ RetryAfter(SourceOf[c]) > MaxWait
        /\ refused' = [refused EXCEPT ![SourceOf[c]] = Larger(@, clock + MaxWait)]
        /\ clock' = clock /\ granted' = granted /\ asked' = asked
    BY DEF Refuse
  <1>3. refused \in [Sources -> Int]
    BY DEF TypeOK
  <1>4. CASE s = SourceOf[c]
    <2>1. refused'[s] = Larger(refused[s], clock + MaxWait)
      BY <1>2, <1>3, <1>4
    <2>2. QED
      BY <1>1, <1>2, <1>4, <2>1, LookedFacts DEF LookedAt, SourceStep
  <1>5. CASE s # SourceOf[c]
    <2>1. refused'[s] = refused[s]
      BY <1>2, <1>3, <1>5
    <2>2. QED
      BY <1>1, <1>2, <1>5, <2>1, LookedFacts DEF Untouched, SourceStep
  <1>6. QED
    BY <1>4, <1>5

\* The first 429 of a call penalizes its source, a later one touches none.
LEMMA TooManyIsStep ==
    ASSUME TypeOK, NEW c \in Calls, NEW delay \in Delays, TooManyRequests(c, delay), NEW s \in Sources
    PROVE  /\ SourceStep(s)
           /\ s = SourceOf[c] /\ ~call[c].penalized => PenalizedAt(s)
           /\ s # SourceOf[c] \/ call[c].penalized => Untouched(s) /\ clock' = clock
  <1>1. SourceOf[c] \in Sources /\ delay \in Nat
    BY MappedFacts, RetryAssumption
  <1>2. clock' = clock /\ granted' = granted /\ refused' = refused
    BY DEF TooManyRequests
  <1>3. limiter \in [Sources -> Limiter] /\ limiter[s] \in Limiter /\ asked \in [Sources -> Nat]
    BY DEF TypeOK
  <1>4. CASE call[c].penalized
    <2>1. limiter' = limiter /\ asked' = asked
      BY <1>4 DEF TooManyRequests
    <2>2. QED
      BY <1>2, <1>4, <2>1 DEF Untouched, SourceStep
  <1>5. CASE ~call[c].penalized
    <2>1. /\ limiter' = [limiter EXCEPT ![SourceOf[c]].blocked = Larger(@, clock + delay)]
          /\ asked' = [asked EXCEPT ![SourceOf[c]] = Larger(@, clock + delay)]
      BY <1>5 DEF TooManyRequests
    <2>2. CASE s = SourceOf[c]
      <3>1. limiter'[s] = [limiter[s] EXCEPT !.blocked = Larger(limiter[s].blocked, clock + delay)]
        BY <1>3, <2>1, <2>2
      <3>2. limiter'[s] = [units |-> limiter[s].units, seen |-> limiter[s].seen,
                           blocked |-> Larger(limiter[s].blocked, clock + delay)]
        BY <1>3, <3>1 DEF Limiter
      <3>3. asked'[s] = Larger(asked[s], clock + delay)
        BY <1>3, <2>1, <2>2
      <3>4. PenalizedAt(s)
        BY <1>1, <1>2, <3>2, <3>3 DEF PenalizedAt
      <3>5. QED
        BY <1>5, <2>2, <3>4 DEF SourceStep
    <2>3. CASE s # SourceOf[c]
      BY <1>2, <1>3, <1>5, <2>1, <2>3 DEF Untouched, SourceStep
    <2>4. QED
      BY <2>2, <2>3
  <1>6. QED
    BY <1>4, <1>5

\* Every step is one of these to every source.
LEMMA StepOfSource ==
    ASSUME TypeOK, [Next]_vars, NEW s \in Sources
    PROVE  SourceStep(s)
  <1>1. CASE UNCHANGED vars
    BY <1>1 DEF vars, SourceStep, Untouched
  <1>2. CASE Tick
    BY <1>2 DEF Tick, history, SourceStep, Untouched
  <1>3. ASSUME NEW c \in Calls, Granted(c) PROVE SourceStep(s)
    BY <1>3, GrantedIsStep
  <1>4. ASSUME NEW c \in Calls, Sleep(c) PROVE SourceStep(s)
    BY <1>4, SleepIsStep
  <1>5. ASSUME NEW c \in Calls, Refuse(c) PROVE SourceStep(s)
    BY <1>5, RefuseIsStep
  <1>6. ASSUME NEW c \in Calls, NEW delay \in Delays, TooManyRequests(c, delay) PROVE SourceStep(s)
    BY <1>6, TooManyIsStep
  <1>7. ASSUME NEW c \in Calls,
               \/ SendUnmetered(c) \/ Answer(c) \/ ConnectTimeout(c) \/ Transient(c) \/ Retry(c)
               \/ Cancel(c)
        PROVE SourceStep(s)
    BY <1>7 DEF SendUnmetered, Answer, ConnectTimeout, Transient, Retry, Cancel, history, SourceStep, Untouched
  <1>8. ASSUME NEW c \in Calls, Send(c) \/ Skip(c) PROVE SourceStep(s)
    BY <1>3, <1>8 DEF Send, Skip
  <1>9. QED
    BY <1>1, <1>2, <1>4, <1>5, <1>6, <1>7, <1>8 DEF Next

-----------------------------------------------------------------------------
\* Where a call may stand.
Places == {"new", "over"} \cup Waiting

\* How many attempts a call at a place has made.
Tried(place, known) ==
    /\ place = "sending" => known.attempt \in 1..Attempts
    /\ place = "paused" => known.attempt \in 1..(Attempts - 1)

\* A step keeps what TypeOK says of the calls.
CallsOK ==
    /\ pc \in [Calls -> Places]
    /\ call \in [Calls -> Call]
    /\ \A c \in Calls : Tried(pc[c], call[c])
    /\ calm \subseteq Calls

\* A call that moves to a place, with what is known of it, keeps CallsOK.
LEMMA MoveKeepsCalls ==
    ASSUME CallsOK, NEW c \in Calls, NEW place \in Places, NEW known \in Call,
           Tried(place, known),
           pc' = [pc EXCEPT ![c] = place], call' = [call EXCEPT ![c] = known], calm' \subseteq Calls
    PROVE  CallsOK'
  <1>1. pc' \in [Calls -> Places] /\ call' \in [Calls -> Call]
    BY DEF CallsOK
  <1>2. \A d \in Calls : Tried(pc'[d], call'[d])
    <2>1. TAKE d \in Calls
    <2>2. CASE d = c
      BY <2>2 DEF CallsOK
    <2>3. CASE d # c
      BY <2>3 DEF CallsOK
    <2>4. QED
      BY <2>2, <2>3
  <1>3. QED
    BY <1>1, <1>2 DEF CallsOK

\* A call that has not begun is a call.
LEMMA NoCallIsCall == NoCall \in Call
  BY RetryAssumption DEF NoCall, Call

\* A call that ends keeps its type and the others theirs.
LEMMA EndsKeepsCalls ==
    ASSUME CallsOK, NEW c \in Calls, Ends(c), calm' \subseteq Calls
    PROVE  CallsOK'
  <1>1. "over" \in Places /\ Tried("over", NoCall)
    BY DEF Places, Tried
  <1>2. QED
    BY <1>1, NoCallIsCall, MoveKeepsCalls DEF Ends

\* A call that will be tried again keeps its type and the others theirs.
LEMMA AgainKeepsCalls ==
    ASSUME CallsOK, clock \in Nat, NEW c \in Calls, pc[c] = "sending", NEW delay \in Nat,
           NEW penalized \in BOOLEAN, Again(c, delay, penalized), calm' \subseteq Calls
    PROVE  CallsOK'
  <1>1. CASE call[c].attempt >= Attempts
    BY <1>1, EndsKeepsCalls DEF Again
  <1>2. CASE ~(call[c].attempt >= Attempts)
    <2>1. pc' = [pc EXCEPT ![c] = "paused"]
          /\ call' = [call EXCEPT ![c].due = clock + delay, ![c].penalized = penalized]
      BY <1>2 DEF Again
    <2>2. "paused" \in Places
      BY DEF Places, Waiting
    <2>3. pc' \in [Calls -> Places]
      BY <2>1, <2>2 DEF CallsOK
    <2>4. call[c] \in Call /\ clock + delay \in Nat
      BY DEF CallsOK
    <2>5. [call[c] EXCEPT !.due = clock + delay, !.penalized = penalized] \in Call
      BY <2>4 DEF Call
    <2>6. call' \in [Calls -> Call]
      BY <2>1, <2>5 DEF CallsOK
    <2>7. \A d \in Calls : call'[d].attempt = call[d].attempt
      BY <2>1, <2>4 DEF CallsOK, Call
    <2>8. \A d \in Calls : Tried(pc'[d], call'[d])
      <3>1. TAKE d \in Calls
      <3>2. Tried(pc[d], call[d]) /\ call'[d].attempt = call[d].attempt
        BY <2>7 DEF CallsOK
      <3>3. CASE d = c
        BY <1>2, <2>1, <3>2, <3>3, RetryAssumption DEF CallsOK, Tried
      <3>4. CASE d # c
        BY <2>1, <3>2, <3>4 DEF CallsOK, Tried
      <3>5. QED
        BY <3>3, <3>4
    <2>9. QED
      BY <2>3, <2>6, <2>8 DEF CallsOK
  <1>3. QED
    BY <1>1, <1>2

\* The rest of TypeOK: the clock, the sources, and the hosts.
SourcesOK ==
    /\ clock \in 0..MaxClock
    /\ limiter \in [Sources -> Limiter]
    /\ \A s \in Sources : limiter[s].seen <= clock
    /\ granted \in [Sources -> Seq(0..MaxClock)]
    /\ asked \in [Sources -> Nat]
    /\ refused \in [Sources -> Int]

HostsOK == unreachable \in [Hosts -> Nat] /\ timedOut \in [Hosts -> Nat]

\* The type invariant is that of calls, sources and hosts.
LEMMA TypeParts == TypeOK <=> CallsOK /\ SourcesOK /\ HostsOK
  BY DEF TypeOK, CallsOK, SourcesOK, HostsOK, Places, Tried

\* The larger of two numbers is one of them, and no smaller than either.
LEMMA LargerFacts ==
    \A a, b \in Int : Larger(a, b) \in {a, b} /\ Larger(a, b) >= a /\ Larger(a, b) >= b
  BY DEF Larger

\* A step keeps the type of each source.
LEMMA SourceTypeStep ==
    ASSUME TypeOK, NEW s \in Sources, SourceStep(s)
    PROVE  /\ limiter'[s] \in Limiter /\ limiter'[s].seen <= clock'
           /\ granted'[s] \in Seq(0..MaxClock) /\ asked'[s] \in Nat /\ refused'[s] \in Int
  <1>1. /\ clock \in Nat /\ clock <= MaxClock /\ limiter[s].seen <= clock
        /\ Refilled(s) \in 0..Full /\ RetryAfter(s) \in Nat
        /\ granted[s] \in Seq(0..MaxClock) /\ asked[s] \in Nat /\ refused[s] \in Int
        /\ limiter[s].units \in 0..Full /\ limiter[s].seen \in Nat /\ limiter[s].blocked \in Nat
    BY SourceFacts
  <1>2. limiter[s] \in Limiter
    BY DEF TypeOK
  <1>3. CASE Untouched(s) /\ (clock' = clock \/ clock' = clock + 1)
    BY <1>1, <1>2, <1>3 DEF Untouched
  <1>4. CASE LookedAt(s)
    <2>1. limiter'[s] \in Limiter /\ limiter'[s].seen <= clock'
      BY <1>1, <1>4 DEF LookedAt, Limiter
    <2>2. refused'[s] \in Int
      <3>1. Larger(refused[s], clock + MaxWait) \in Int
        BY <1>1, BucketAssumption DEF Larger
      <3>2. QED
        BY <1>1, <1>4, <3>1 DEF LookedAt
    <2>3. QED
      BY <1>1, <1>4, <2>1, <2>2 DEF LookedAt
  <1>5. CASE GrantedAt(s)
    <2>1. Refilled(s) - Cost \in 0..Full
      <3>1. Refilled(s) >= Cost
        BY <1>5, WaitFacts DEF GrantedAt
      <3>2. Cost \in Nat /\ Full \in Nat /\ Refilled(s) \in 0..Full
        BY <1>1, PriceFacts
      <3>3. QED
        BY <3>1, <3>2
    <2>2. limiter'[s] \in Limiter /\ limiter'[s].seen <= clock'
      BY <1>1, <1>5, <2>1 DEF GrantedAt, Limiter
    <2>3. granted'[s] \in Seq(0..MaxClock)
      BY <1>1, <1>5, ClockAssumption DEF GrantedAt
    <2>4. QED
      BY <1>1, <1>5, <2>2, <2>3 DEF GrantedAt
  <1>6. CASE PenalizedAt(s)
    <2>1. PICK delay \in Nat :
             /\ limiter'[s] = [units |-> limiter[s].units, seen |-> limiter[s].seen,
                               blocked |-> Larger(limiter[s].blocked, clock + delay)]
             /\ asked'[s] = Larger(asked[s], clock + delay)
      BY <1>6 DEF PenalizedAt
    <2>2. Larger(limiter[s].blocked, clock + delay) \in Nat /\ Larger(asked[s], clock + delay) \in Nat
      BY <1>1 DEF Larger
    <2>3. QED
      BY <1>1, <1>6, <2>1, <2>2 DEF PenalizedAt, Limiter
  <1>7. QED
    BY <1>3, <1>4, <1>5, <1>6 DEF SourceStep

\* What each step leaves of the shape of the functions.
Shape ==
    /\ limiter' = [s \in Sources |-> limiter'[s]] /\ granted' = [s \in Sources |-> granted'[s]]
    /\ asked' = [s \in Sources |-> asked'[s]] /\ refused' = [s \in Sources |-> refused'[s]]
    /\ clock' = clock \/ (clock' = clock + 1 /\ clock < MaxClock)

\* The variables of the sources stay functions over the sources.
LEMMA SourcesShape ==
    ASSUME TypeOK, [Next]_vars
    PROVE  Shape
  <1>1. /\ limiter = [s \in Sources |-> limiter[s]] /\ granted = [s \in Sources |-> granted[s]]
        /\ asked = [s \in Sources |-> asked[s]] /\ refused = [s \in Sources |-> refused[s]]
    BY DEF TypeOK
  <1>2. CASE UNCHANGED vars
    BY <1>1, <1>2 DEF vars, Shape
  <1>3. CASE Tick
    BY <1>1, <1>3 DEF Tick, history, Shape
  <1>4. ASSUME NEW c \in Calls, Send(c) \/ Skip(c) PROVE Shape
    BY <1>1, <1>4 DEF Send, Skip, Granted, Looked, Shape
  <1>5. ASSUME NEW c \in Calls, Sleep(c) \/ Refuse(c) PROVE Shape
    BY <1>1, <1>5 DEF Sleep, Refuse, Looked, Shape
  <1>6. ASSUME NEW c \in Calls, NEW delay \in Delays, TooManyRequests(c, delay) PROVE Shape
    BY <1>1, <1>6 DEF TooManyRequests, Shape
  <1>7. ASSUME NEW c \in Calls,
               \/ SendUnmetered(c) \/ Answer(c) \/ ConnectTimeout(c) \/ Transient(c) \/ Retry(c)
               \/ Cancel(c)
        PROVE Shape
    BY <1>1, <1>7 DEF SendUnmetered, Answer, ConnectTimeout, Transient, Retry, Cancel, history, Shape
  <1>8. QED
    BY <1>2, <1>3, <1>4, <1>5, <1>6, <1>7 DEF Next

\* Every step keeps the types of the sources.
LEMMA SourcesKept ==
    ASSUME TypeOK, [Next]_vars
    PROVE  SourcesOK'
  <1>1. \A s \in Sources :
           /\ limiter'[s] \in Limiter /\ limiter'[s].seen <= clock'
           /\ granted'[s] \in Seq(0..MaxClock) /\ asked'[s] \in Nat /\ refused'[s] \in Int
    BY StepOfSource, SourceTypeStep
  <1>2. Shape
    BY SourcesShape
  <1>3. clock' \in 0..MaxClock
    BY <1>2, ClockAssumption DEF Shape, TypeOK
  <1>4. limiter' \in [Sources -> Limiter] /\ granted' \in [Sources -> Seq(0..MaxClock)]
    BY <1>1, <1>2 DEF Shape
  <1>5. asked' \in [Sources -> Nat] /\ refused' \in [Sources -> Int]
    BY <1>1, <1>2 DEF Shape
  <1>6. QED
    BY <1>1, <1>3, <1>4, <1>5 DEF SourcesOK

\* The hosts: unreachable always shows the last timeout of the host.
HostsInv == HostsOK /\ \A h \in Hosts : timedOut[h] <= unreachable[h]

\* Every step keeps the types of the hosts, and their marks up to their last timeouts.
LEMMA HostsKept ==
    ASSUME TypeOK, [Next]_vars
    PROVE  HostsOK' /\ (HostsInv => HostsInv')
  <1>1. HostsOK /\ clock \in Nat /\ Cooldown \in Nat
    BY TypeParts, ClockAssumption, RetryAssumption DEF TypeOK
  <1>2. CASE UNCHANGED <<unreachable, timedOut>>
    BY <1>1, <1>2 DEF HostsOK, HostsInv
  <1>3. ASSUME NEW c \in Calls, ConnectTimeout(c) PROVE HostsOK' /\ (HostsInv => HostsInv')
    <2>1. /\ unreachable' = [unreachable EXCEPT ![HostOf[c]] = clock + Cooldown]
          /\ timedOut' = [timedOut EXCEPT ![HostOf[c]] = clock + Cooldown]
      BY <1>3 DEF ConnectTimeout
    <2>2. clock + Cooldown \in Nat
      BY <1>1
    <2>3. HostsOK'
      BY <1>1, <2>1, <2>2 DEF HostsOK
    <2>4. ASSUME HostsInv, NEW h \in Hosts PROVE timedOut'[h] <= unreachable'[h]
      <3>1. CASE h = HostOf[c]
        BY <1>1, <2>1, <2>2, <3>1 DEF HostsOK
      <3>2. CASE h # HostOf[c]
        BY <1>1, <2>1, <2>4, <3>2 DEF HostsOK, HostsInv
      <3>3. QED
        BY <3>1, <3>2
    <2>5. QED
      BY <2>3, <2>4 DEF HostsInv
  <1>4. QED
    BY <1>2, <1>3 DEF Next, vars, history, Tick, Send, Skip, SendUnmetered, Granted, Sleep, Refuse,
       Answer, Transient, TooManyRequests, Retry, Cancel

\* Each action moves one call, to a place and with a record of their types.
LEMMA CallsKept ==
    ASSUME TypeOK, [Next]_vars
    PROVE  CallsOK'
  <1>1. CallsOK /\ clock \in Nat
    BY TypeParts, ClockAssumption DEF TypeOK
  <1>2. CASE UNCHANGED <<pc, call, calm>>
    BY <1>1, <1>2 DEF CallsOK
  <1>3. ASSUME NEW c \in Calls, FirstRequest(c), calm' \subseteq Calls PROVE CallsOK'
    <2> DEFINE known == [due |-> 0, attempt |-> 1, penalized |-> FALSE]
    <2>1. known \in Call /\ Tried("sending", known) /\ "sending" \in Places
      BY RetryAssumption DEF Call, Places, Waiting, Tried
    <2>2. pc' = [pc EXCEPT ![c] = "sending"] /\ call' = [call EXCEPT ![c] = known]
      BY <1>3 DEF FirstRequest
    <2> HIDE DEF known
    <2>3. QED
      BY <1>1, <1>3, <2>1, <2>2, MoveKeepsCalls
  <1>a. ASSUME NEW c \in Calls, Send(c) \/ SendUnmetered(c) PROVE CallsOK'
    <2>1. calm' \subseteq Calls /\ (FirstRequest(c) \/ Ends(c))
      BY <1>1, <1>a DEF Send, Granted, SendUnmetered, CallsOK, history
    <2>2. QED
      BY <1>1, <1>3, <2>1, EndsKeepsCalls
  <1>4. ASSUME NEW c \in Calls, Skip(c) \/ Refuse(c) PROVE CallsOK'
    <2>1. Ends(c) /\ calm' \subseteq Calls
      BY <1>1, <1>4 DEF Skip, Granted, Refuse, Ends, CallsOK
    <2>2. QED
      BY <1>1, <2>1, EndsKeepsCalls
  <1>5. ASSUME NEW c \in Calls, Sleep(c) PROVE CallsOK'
    <2> DEFINE known == [NoCall EXCEPT !.due = clock + RetryAfter(SourceOf[c])]
    <2>1. clock + RetryAfter(SourceOf[c]) \in Nat
      <3>1. RetryAfter(SourceOf[c]) \in Nat
        BY SourceFacts, MappedFacts
      <3>2. QED
        BY <1>1, <3>1
    <2>2. known \in Call /\ "asleep" \in Places /\ Tried("asleep", known)
      <3>1. known \in Call
        BY <2>1, NoCallIsCall DEF Call
      <3>2. QED
        BY <3>1 DEF Places, Waiting, Tried
    <2>3. pc' = [pc EXCEPT ![c] = "asleep"] /\ call' = [call EXCEPT ![c] = known]
      BY <1>5 DEF Sleep
    <2>4. calm' \subseteq Calls
      BY <1>1, <1>5 DEF Sleep, CallsOK
    <2> HIDE DEF known
    <2>5. QED
      BY <1>1, <2>2, <2>3, <2>4, MoveKeepsCalls
  <1>6. ASSUME NEW c \in Calls, Answer(c) \/ ConnectTimeout(c) \/ Cancel(c) PROVE CallsOK'
    <2>1. Ends(c) /\ calm' \subseteq Calls
      BY <1>1, <1>6 DEF Answer, ConnectTimeout, Cancel, CallsOK, history
    <2>2. QED
      BY <1>1, <2>1, EndsKeepsCalls
  <1>7. ASSUME NEW c \in Calls, Transient(c) PROVE CallsOK'
    <2>1. call[c].penalized \in BOOLEAN
      BY <1>1 DEF CallsOK, Call
    <2>2. pc[c] = "sending" /\ Again(c, 0, call[c].penalized) /\ calm' \subseteq Calls
      BY <1>1, <1>7 DEF Transient, InRetries, CallsOK, history
    <2>3. QED
      BY <1>1, <2>1, <2>2, AgainKeepsCalls
  <1>8. ASSUME NEW c \in Calls, NEW delay \in Delays, TooManyRequests(c, delay) PROVE CallsOK'
    <2>1. delay \in Nat
      BY RetryAssumption
    <2>2. pc[c] = "sending" /\ Again(c, delay, TRUE) /\ calm' \subseteq Calls
      BY <1>1, <1>8 DEF TooManyRequests, InRetries, CallsOK
    <2>3. QED
      BY <1>1, <2>1, <2>2, AgainKeepsCalls
  <1>9. ASSUME NEW c \in Calls, Retry(c) PROVE CallsOK'
    <2> DEFINE n == call[c].attempt + 1
    <2> DEFINE known == [call[c] EXCEPT !.due = 0, !.attempt = n]
    <2>1. pc[c] = "paused" /\ pc' = [pc EXCEPT ![c] = "sending"] /\ calm' = calm
          /\ call' = [call EXCEPT ![c].due = 0, ![c].attempt = @ + 1]
      BY <1>9 DEF Retry, history
    <2>2. call[c] \in Call /\ call[c].attempt \in 1..(Attempts - 1)
      BY <1>1, <2>1 DEF CallsOK, Tried
    <2>3. n \in 0..Attempts /\ n \in 1..Attempts
      BY <2>2, RetryAssumption
    <2>4. call' = [call EXCEPT ![c] = known]
      BY <1>1, <2>1 DEF CallsOK
    <2> HIDE DEF n
    <2>5. known \in Call
      BY <2>2, <2>3 DEF Call
    <2>6. Tried("sending", known)
      BY <2>2, <2>3 DEF Tried, Call
    <2>7. "sending" \in Places /\ calm' \subseteq Calls
      BY <1>1, <2>1 DEF Places, Waiting, CallsOK
    <2> HIDE DEF known
    <2>8. QED
      BY <1>1, <2>1, <2>4, <2>5, <2>6, <2>7, MoveKeepsCalls
  <1>10. QED
    BY <1>2, <1>a, <1>4, <1>5, <1>6, <1>7, <1>8, <1>9 DEF Next, vars, history, Tick

\* Every step keeps the types.
LEMMA TypeKept ==
    ASSUME TypeOK, [Next]_vars
    PROVE  TypeOK'
  <1>1. CallsOK' /\ SourcesOK' /\ HostsOK'
    BY CallsKept, SourcesKept, HostsKept
  <1>2. QED
    BY <1>1 DEF TypeOK, CallsOK, SourcesOK, HostsOK, Places, Tried

\* The first state is of its type.
LEMMA InitTyped == Init => TypeOK
  <1> SUFFICES ASSUME Init PROVE TypeOK
    OBVIOUS
  <1>2. Full \in Nat /\ 0 \in 0..MaxClock /\ 0 \in 0..Attempts
    BY PriceFacts, ClockAssumption, RetryAssumption
  <1>3. NoCall \in Call
    BY NoCallIsCall
  <1>4. [units |-> Full, seen |-> 0, blocked |-> 0] \in Limiter
    BY <1>2 DEF Limiter
  <1>5. << >> \in Seq(0..MaxClock)
    OBVIOUS
  <1>6. limiter \in [Sources -> Limiter] /\ \A s \in Sources : limiter[s].seen <= clock
    BY <1>4 DEF Init
  <1>7. CallsOK
    BY <1>3 DEF Init, CallsOK, Places, Tried
  <1>8. SourcesOK
    BY <1>2, <1>5, <1>6 DEF Init, SourcesOK
  <1>9. HostsOK
    BY DEF Init, HostsOK
  <1>10. QED
    BY <1>7, <1>8, <1>9, TypeParts

\* Every variable keeps its type, and no call is ever at an attempt beyond the last.
THEOREM TypeCorrect == Spec => []TypeOK
  <1>1. TypeOK /\ [Next]_vars => TypeOK'
    BY TypeKept
  <1>2. QED
    BY <1>1, InitTyped, PTL DEF Spec

-----------------------------------------------------------------------------
(***************************************************************************)
(* The inductive invariants of one source.  Ledger is what GrantsPaced     *)
(* needs: since each grant, the grants and the units that are left are     *)
(* paid for by a full bucket and the refill.  RefusalOK says why a refused *)
(* call would still wait: the clock has passed the refusal, or the source  *)
(* is blocked beyond it, or the bucket is short of a token beyond it.      *)
(***************************************************************************)
Ledger(s) ==
    \A i \in DOMAIN granted[s] :
        /\ granted[s][i] <= limiter[s].seen
        /\ Price(Len(granted[s]) - i + 1) + limiter[s].units
             <= Full + (limiter[s].seen - granted[s][i])

Paid(s) ==
    \A i, j \in DOMAIN granted[s] :
        i <= j => Price(j - i + 1) <= Full + (granted[s][j] - granted[s][i])

AskedOK(s) == asked[s] <= limiter[s].blocked

RefusalOK(s) ==
    \/ refused[s] < clock
    \/ refused[s] < limiter[s].blocked
    \/ limiter[s].units < Cost /\ refused[s] < limiter[s].seen + (Cost - limiter[s].units)

SourceInv(s) == Ledger(s) /\ Paid(s) /\ AskedOK(s) /\ RefusalOK(s)

\* What the arithmetic of a bucket rests on: its numbers, and their bounds.
LEMMA Numbers ==
    ASSUME TypeOK, NEW s \in Sources
    PROVE  /\ limiter[s].units \in Nat /\ limiter[s].units <= Full /\ limiter[s].seen \in Nat
           /\ limiter[s].seen <= clock /\ limiter[s].blocked \in Nat /\ clock \in Nat
           /\ Refilled(s) \in Nat /\ Refilled(s) <= Full
           /\ Full \in Nat /\ Cost \in Nat /\ Cost <= Full
           /\ refused[s] \in Int /\ asked[s] \in Nat
  <1>1. limiter[s].units \in 0..Full /\ Refilled(s) \in 0..Full
    BY SourceFacts
  <1>2. Full \in Nat /\ Cost \in Nat /\ Cost <= Full
    BY PriceFacts
  <1>3. QED
    BY <1>1, <1>2, SourceFacts

\* One more token costs one more price.
LEMMA PriceOf ==
    ASSUME NEW n \in Int
    PROVE  Price(n) \in Int /\ Price(n + 1) = Price(n) + Cost
  BY PriceFacts

\* The grants of a source are a list of moments.
LEMMA GrantTimes ==
    ASSUME TypeOK, NEW s \in Sources
    PROVE  /\ Len(granted[s]) \in Nat /\ DOMAIN granted[s] = 1..Len(granted[s])
           /\ \A i \in DOMAIN granted[s] : i \in Nat /\ granted[s][i] \in Nat
  <1>1. granted[s] \in Seq(0..MaxClock) /\ MaxClock \in Nat
    BY SourceFacts, ClockAssumption
  <1>2. Len(granted[s]) \in Nat /\ DOMAIN granted[s] = 1..Len(granted[s])
    BY <1>1
  <1>3. \A i \in DOMAIN granted[s] : granted[s][i] \in 0..MaxClock
    BY <1>1, <1>2, ElementOfSeq
  <1>4. QED
    BY <1>1, <1>2, <1>3

\* The ledger balances when the bucket refills by at most the time that passed.
LEMMA LookedLedger ==
    ASSUME TypeOK, NEW s \in Sources, Ledger(s), LookedAt(s)
    PROVE  Ledger(s)'
  <1>1. /\ limiter'[s].units = Refilled(s) /\ limiter'[s].seen = clock /\ granted'[s] = granted[s]
    BY DEF LookedAt
  <1>2. SUFFICES ASSUME NEW i \in DOMAIN granted[s]
                 PROVE  /\ granted[s][i] <= clock
                        /\ Price(Len(granted[s]) - i + 1) + Refilled(s) <= Full + (clock - granted[s][i])
    BY <1>1 DEF Ledger
  <1>3. /\ granted[s][i] <= limiter[s].seen
        /\ Price(Len(granted[s]) - i + 1) + limiter[s].units <= Full + (limiter[s].seen - granted[s][i])
    BY <1>2 DEF Ledger
  <1>4. Price(Len(granted[s]) - i + 1) \in Int
    <2>1. i \in Nat /\ Len(granted[s]) \in Nat
      BY <1>2, GrantTimes
    <2>2. Len(granted[s]) - i + 1 \in Int
      BY <2>1
    <2>3. QED
      BY <2>2, PriceOf
  <1>5. /\ limiter[s].units \in Int /\ limiter[s].seen \in Int /\ clock \in Int
        /\ limiter[s].seen <= clock /\ Refilled(s) \in Int
        /\ Refilled(s) <= limiter[s].units + (clock - limiter[s].seen)
    BY Numbers, SourceFacts
  <1>6. granted[s][i] \in Int /\ Full \in Int
    BY <1>2, GrantTimes, Numbers
  <1> DEFINE price == Price(Len(granted[s]) - i + 1)
  <1> DEFINE stamp == granted[s][i]
  <1>7. /\ price \in Int /\ price + limiter[s].units <= Full + (limiter[s].seen - stamp)
        /\ stamp \in Int /\ Full \in Int /\ stamp <= limiter[s].seen
    BY <1>3, <1>4, <1>6
  <1> HIDE DEF price, stamp
  <1>8. stamp <= clock /\ price + Refilled(s) <= Full + (clock - stamp)
    BY <1>5, <1>7
  <1>9. QED
    BY <1>8 DEF price, stamp

\* A grant adds its price to the bill of every earlier one and takes it from the bucket.
LEMMA GrantedLedger ==
    ASSUME TypeOK, NEW s \in Sources, Ledger(s), Paid(s), GrantedAt(s)
    PROVE  Ledger(s)' /\ Paid(s)'
  <1> DEFINE n == Len(granted[s])
  <1> DEFINE left == Refilled(s) - Cost
  <1>1. /\ granted[s] \in Seq(0..MaxClock) /\ clock \in 0..MaxClock /\ clock \in Nat /\ Refilled(s) >= Cost
        /\ Refilled(s) \in 0..Full /\ n \in Nat /\ DOMAIN granted[s] = 1..n
    BY SourceFacts, GrantTimes, WaitFacts DEF GrantedAt, TypeOK
  <1>2. left \in Nat /\ left + Cost = Refilled(s) /\ Refilled(s) <= Full /\ Full \in Nat /\ Cost \in Nat
        /\ Refilled(s) \in Nat
    BY <1>1, Numbers
  <1>3. granted'[s] = Append(granted[s], clock) /\ limiter'[s].units = left /\ limiter'[s].seen = clock
    BY DEF GrantedAt
  <1>4. /\ Len(granted'[s]) = n + 1 /\ DOMAIN granted'[s] = 1..(n + 1)
        /\ granted'[s][n + 1] = clock /\ \A i \in 1..n : granted'[s][i] = granted[s][i]
    BY <1>1, <1>3
  <1> HIDE DEF n, left
  <1>5. \A i \in 1..n :
           /\ granted'[s][i] <= clock
           /\ Price(n + 1 - i + 1) + left <= Full + (clock - granted'[s][i])
    <2>1. SUFFICES ASSUME NEW i \in 1..n
                   PROVE  /\ granted[s][i] <= clock
                          /\ Price(n + 1 - i + 1) + left <= Full + (clock - granted[s][i])
      BY <1>4
    <2>2. /\ granted[s][i] <= limiter[s].seen
          /\ Price(n - i + 1) + limiter[s].units <= Full + (limiter[s].seen - granted[s][i])
      BY <1>1 DEF Ledger, n
    <2>3. n - i + 1 \in Int /\ n + 1 - i + 1 = (n - i + 1) + 1
      BY <1>1
    <2>4. Price(n - i + 1) \in Int /\ Price(n + 1 - i + 1) = Price(n - i + 1) + Cost
      BY <2>3, PriceFacts
    <2>5. granted[s][i] \in Int
      BY <1>1, GrantTimes
    <2>6. /\ limiter[s].units \in Int /\ limiter[s].seen \in Int /\ limiter[s].seen <= clock
          /\ Refilled(s) <= limiter[s].units + (clock - limiter[s].seen)
      <3>1. limiter[s].units \in 0..Full
        BY SourceFacts
      <3>2. QED
        BY <1>2, <3>1, SourceFacts
    <2>7. \A p, q, u, r, l, f, e, g, k, c \in Int :
             g <= e /\ e <= k /\ p + u <= f + (e - g) /\ r <= u + (k - e) /\ l + c = r /\ q = p + c
               => g <= k /\ q + l <= f + (k - g)
      OBVIOUS
    <2>8. Price(n + 1 - i + 1) \in Int /\ left \in Int /\ clock \in Int /\ Full \in Int /\ Cost \in Int
          /\ Refilled(s) \in Int
      BY <1>1, <1>2, <2>4
    <2>9. QED
      BY <1>2, <2>2, <2>4, <2>5, <2>6, <2>7, <2>8
  <1>6. Cost + left <= Full /\ Price(1) = Cost
    BY <1>2, PriceFacts
  <1>7. Ledger(s)'
    <2> SUFFICES \A i \in 1..(n + 1) :
                    /\ granted'[s][i] <= clock
                    /\ Price(n + 1 - i + 1) + left <= Full + (clock - granted'[s][i])
      <3>1. /\ Len(granted'[s]) = n + 1 /\ DOMAIN granted'[s] = 1..(n + 1)
            /\ limiter'[s].units = left /\ limiter'[s].seen = clock
            /\ n \in Nat /\ left \in Nat /\ Full \in Nat /\ clock \in Nat
        BY <1>1, <1>2, <1>3, <1>4
      <3>2. QED
        BY <3>1 DEF Ledger
    <2> TAKE i \in 1..(n + 1)
    <2>1. CASE i \in 1..n
      BY <1>5, <2>1
    <2>2. CASE i = n + 1
      <3>1. granted'[s][i] = clock /\ clock <= clock /\ n + 1 - i + 1 = 1 /\ clock - clock = 0
        BY <1>1, <1>4, <2>2
      <3>2. Price(n + 1 - i + 1) = Cost
        BY <1>6, <3>1
      <3>3. Full + (clock - granted'[s][i]) = Full
        BY <1>2, <3>1
      <3>4. QED
        BY <1>6, <3>1, <3>2, <3>3
    <2>3. QED
      BY <1>1, <2>1, <2>2
  <1>8. Paid(s)'
    <2> SUFFICES ASSUME NEW i \in 1..(n + 1), NEW j \in 1..(n + 1), i <= j
                 PROVE  Price(j - i + 1) <= Full + (granted'[s][j] - granted'[s][i])
      BY <1>4 DEF Paid
    <2>1. CASE j \in 1..n
      <3>1. i \in 1..n
        BY <1>1, <2>1
      <3>2. QED
        BY <1>1, <1>4, <2>1, <3>1 DEF Paid, n
    <2>2. CASE j = n + 1
      <3>1. granted'[s][j] = clock
        BY <1>4, <2>2
      <3>2. Price(j - i + 1) + left <= Full + (clock - granted'[s][i])
        BY <1>3, <1>4, <1>7, <2>2 DEF Ledger
      <3>3. Price(j - i + 1) \in Int
        <4>1. j - i + 1 \in Int
          BY <1>1
        <4>2. QED
          BY <4>1, PriceOf
      <3>4. granted'[s][i] \in Int
        <4>1. CASE i \in 1..n
          BY <1>1, <1>4, <4>1, GrantTimes
        <4>2. CASE i = n + 1
          BY <1>1, <1>4, <4>2
        <4>3. QED
          BY <1>1, <4>1, <4>2
      <3>5. \A p, l, f, g, k \in Int : l >= 0 /\ p + l <= f + (k - g) => p <= f + (k - g)
        OBVIOUS
      <3>6. left \in Int /\ left >= 0 /\ Full \in Int /\ clock \in Int
        BY <1>1, <1>2
      <3>7. QED
        BY <3>1, <3>2, <3>3, <3>4, <3>5, <3>6
    <2>3. QED
      BY <1>1, <2>1, <2>2
  <1>9. QED
    BY <1>7, <1>8

\* A refusal still stands when the bucket is looked at.
LEMMA RefusalLooked ==
    ASSUME TypeOK, NEW s \in Sources, RefusalOK(s)
    PROVE  \/ refused[s] < clock
           \/ refused[s] < limiter[s].blocked
           \/ Refilled(s) < Cost /\ refused[s] < clock + (Cost - Refilled(s))
  <1>1. /\ limiter[s].units \in Nat /\ limiter[s].seen \in Nat /\ clock \in Nat /\ refused[s] \in Int
        /\ Refilled(s) \in Nat /\ limiter[s].blocked \in Nat /\ Cost \in Nat /\ Full \in Nat /\ Cost <= Full
    BY Numbers
  <1>2. Refilled(s) = Full \/ Refilled(s) = limiter[s].units + (clock - limiter[s].seen)
    BY SourceFacts
  <1>3. Refilled(s) <= limiter[s].units + (clock - limiter[s].seen)
    BY SourceFacts
  <1>4. CASE limiter[s].units < Cost /\ refused[s] < limiter[s].seen + (Cost - limiter[s].units)
    BY <1>1, <1>2, <1>3, <1>4
  <1>5. QED
    BY <1>4 DEF RefusalOK

\* When a token is granted, every refusal is over.
LEMMA RefusalOver ==
    ASSUME TypeOK, NEW s \in Sources, RefusalOK(s), AskedOK(s), RetryAfter(s) = 0
    PROVE  refused[s] < clock /\ asked[s] <= clock
  <1>1. Refilled(s) >= Cost /\ limiter[s].blocked <= clock
    BY WaitFacts
  <1>2. /\ clock \in Nat /\ refused[s] \in Int /\ asked[s] \in Nat /\ limiter[s].blocked \in Nat
        /\ Refilled(s) \in Int /\ Cost \in Int
    BY Numbers
  <1>3. asked[s] <= clock
    BY <1>1, <1>2 DEF AskedOK
  <1>4. refused[s] < clock
    BY <1>1, <1>2, RefusalLooked
  <1>5. QED
    BY <1>3, <1>4

\* A new refusal stands: the source is blocked, or short of a token, for longer.
LEMMA RefusalNew ==
    ASSUME TypeOK, NEW s \in Sources, RetryAfter(s) > MaxWait
    PROVE  \/ clock + MaxWait < limiter[s].blocked
           \/ Refilled(s) < Cost /\ clock + MaxWait < clock + (Cost - Refilled(s))
  <1>1. /\ clock \in Nat /\ limiter[s].blocked \in Nat /\ MaxWait \in Nat /\ Refilled(s) \in Int /\ Cost \in Int
    BY Numbers, BucketAssumption
  <1>2. CASE limiter[s].blocked > clock
    <2>1. RetryAfter(s) = limiter[s].blocked - clock
      BY <1>2, WaitFacts
    <2>2. QED
      BY <1>1, <2>1
  <1>3. CASE ~(limiter[s].blocked > clock)
    <2>1. RetryAfter(s) = 0 \/ (Refilled(s) < Cost /\ RetryAfter(s) = Cost - Refilled(s))
      BY <1>1, <1>3, WaitFacts
    <2>2. QED
      BY <1>1, <2>1
  <1>4. QED
    BY <1>2, <1>3

\* Whatever happens to a source keeps its ledger of grants and debts.
LEMMA SourceInvKept ==
    ASSUME TypeOK, NEW s \in Sources, SourceInv(s), SourceStep(s)
    PROVE  SourceInv(s)'
  <1>1. Ledger(s) /\ Paid(s) /\ AskedOK(s) /\ RefusalOK(s)
    BY DEF SourceInv
  <1>2. /\ clock \in Nat /\ refused[s] \in Int /\ asked[s] \in Nat
        /\ limiter[s].blocked \in Nat /\ limiter[s].seen \in Nat /\ MaxWait \in Nat
    BY SourceFacts, BucketAssumption
  <1>3. CASE Untouched(s) /\ (clock' = clock \/ clock' = clock + 1)
    <2>1. Ledger(s)' /\ Paid(s)' /\ AskedOK(s)'
      BY <1>1, <1>3 DEF Untouched, Ledger, Paid, AskedOK
    <2>2. RefusalOK(s)'
      <3>1. refused[s] < clock => refused[s] < clock'
        BY <1>2, <1>3
      <3>2. QED
        BY <1>1, <1>3, <3>1 DEF Untouched, RefusalOK
    <2>3. QED
      BY <2>1, <2>2 DEF SourceInv
  <1>4. CASE LookedAt(s)
    <2>1. Ledger(s)' /\ Paid(s)' /\ AskedOK(s)'
      BY <1>1, <1>4, LookedLedger DEF LookedAt, Paid, AskedOK
    <2>2. RefusalOK(s)'
      <3>1. /\ clock' = clock /\ limiter'[s].units = Refilled(s) /\ limiter'[s].seen = clock
            /\ limiter'[s].blocked = limiter[s].blocked
        BY <1>4 DEF LookedAt
      <3>2. CASE refused'[s] = refused[s]
        BY <1>1, <3>1, <3>2, RefusalLooked DEF RefusalOK
      <3>3. CASE RetryAfter(s) > MaxWait /\ refused'[s] = clock + MaxWait
        BY <3>1, <3>3, RefusalNew DEF RefusalOK
      <3>4. clock + MaxWait \in Int
        BY <1>2
      <3>5. QED
        BY <1>2, <1>4, <3>2, <3>3, <3>4, LargerFacts DEF LookedAt
    <2>3. QED
      BY <2>1, <2>2 DEF SourceInv
  <1>5. CASE GrantedAt(s)
    <2>1. Ledger(s)' /\ Paid(s)'
      BY <1>1, <1>5, GrantedLedger
    <2>2. AskedOK(s)'
      BY <1>1, <1>5 DEF GrantedAt, AskedOK
    <2>3. RefusalOK(s)'
      BY <1>1, <1>5, RefusalOver DEF GrantedAt, RefusalOK
    <2>4. QED
      BY <2>1, <2>2, <2>3 DEF SourceInv
  <1>6. CASE PenalizedAt(s)
    <2>1. PICK delay \in Nat :
             /\ limiter'[s] = [units |-> limiter[s].units, seen |-> limiter[s].seen,
                               blocked |-> Larger(limiter[s].blocked, clock + delay)]
             /\ asked'[s] = Larger(asked[s], clock + delay)
      BY <1>6 DEF PenalizedAt
    <2>2. /\ granted'[s] = granted[s] /\ limiter'[s].units = limiter[s].units
          /\ limiter'[s].seen = limiter[s].seen /\ clock' = clock /\ refused'[s] = refused[s]
      BY <1>6, <2>1 DEF PenalizedAt
    <2>3. Ledger(s)' /\ Paid(s)'
      BY <1>1, <2>2 DEF Ledger, Paid
    <2>4. AskedOK(s)'
      <3>1. Larger(asked[s], clock + delay) <= Larger(limiter[s].blocked, clock + delay)
        BY <1>1, <1>2 DEF AskedOK, Larger
      <3>2. QED
        BY <2>1, <3>1 DEF AskedOK
    <2>5. RefusalOK(s)'
      <3>1. Larger(limiter[s].blocked, clock + delay) \in Int
            /\ Larger(limiter[s].blocked, clock + delay) >= limiter[s].blocked
        BY <1>2 DEF Larger
      <3>2. refused[s] < limiter[s].blocked => refused'[s] < limiter'[s].blocked
        BY <1>2, <2>1, <2>2, <3>1
      <3>3. QED
        BY <1>1, <2>2, <3>2 DEF RefusalOK
    <2>6. QED
      BY <2>3, <2>4, <2>5 DEF SourceInv
  <1>7. QED
    BY <1>3, <1>4, <1>5, <1>6 DEF SourceStep

-----------------------------------------------------------------------------
\* What a sleeper nobody has overtaken was promised: a token by the time it wakes.
Promised(s, due) ==
    /\ limiter[s].blocked <= clock
    /\ limiter[s].units >= Cost \/ limiter[s].units + (due - limiter[s].seen) >= Cost

CalmInv == \A c \in calm : pc[c] = "asleep" /\ Promised(SourceOf[c], call[c].due)

\* Looking at the bucket breaks no promise, and neither does the time that passes.
LEMMA PromiseKept ==
    ASSUME TypeOK, NEW s \in Sources, NEW due \in Nat, Promised(s, due),
           LookedAt(s) \/ (Untouched(s) /\ (clock' = clock \/ clock' = clock + 1))
    PROVE  Promised(s, due)'
  <1>1. /\ limiter[s].units \in Nat /\ limiter[s].seen \in Nat /\ limiter[s].seen <= clock
        /\ limiter[s].blocked \in Nat /\ clock \in Nat /\ Refilled(s) \in Nat
        /\ Full \in Nat /\ Cost \in Nat /\ Cost <= Full
    BY Numbers
  <1>2. /\ limiter[s].blocked <= clock
        /\ limiter[s].units >= Cost \/ limiter[s].units + (due - limiter[s].seen) >= Cost
    BY DEF Promised
  <1>3. CASE LookedAt(s)
    <2>1. /\ limiter'[s].units = Refilled(s) /\ limiter'[s].seen = clock /\ clock' = clock
          /\ limiter'[s].blocked = limiter[s].blocked
      BY <1>3 DEF LookedAt
    <2>2. Refilled(s) = Full \/ Refilled(s) = limiter[s].units + (clock - limiter[s].seen)
      BY SourceFacts
    <2>3. Refilled(s) >= Cost \/ Refilled(s) + (due - clock) >= Cost
      BY <1>1, <1>2, <2>2
    <2>4. QED
      BY <1>2, <2>1, <2>3 DEF Promised
  <1>4. CASE Untouched(s) /\ (clock' = clock \/ clock' = clock + 1)
    <2>1. limiter[s].blocked <= clock'
      BY <1>1, <1>2, <1>4
    <2>2. QED
      BY <1>2, <1>4, <2>1 DEF Untouched, Promised
  <1>5. QED
    BY <1>3, <1>4

\* A call that goes to sleep before an open source is promised its token.
LEMMA SleepPromises ==
    ASSUME TypeOK, NEW c \in Calls, Sleep(c), ~Blocked(SourceOf[c]),
           NEW due, due = clock + RetryAfter(SourceOf[c])
    PROVE  Promised(SourceOf[c], due)'
  <1> DEFINE s == SourceOf[c]
  <1>1. s \in Sources
    BY MappedFacts
  <1>2. LookedAt(s)
    BY <1>1, SleepIsStep
  <1>3. /\ limiter'[s].units = Refilled(s) /\ limiter'[s].seen = clock /\ clock' = clock
        /\ limiter'[s].blocked = limiter[s].blocked
    BY <1>2 DEF LookedAt
  <1>4. /\ limiter[s].blocked \in Nat /\ clock \in Nat /\ Refilled(s) \in Nat /\ Cost \in Nat
    BY <1>1, Numbers
  <1>5. limiter[s].blocked <= clock
    BY <1>4 DEF Blocked
  <1>6. RetryAfter(s) = IF Refilled(s) >= Cost THEN 0 ELSE Cost - Refilled(s)
    BY DEF RetryAfter
  <1>7. Refilled(s) >= Cost \/ Refilled(s) + (due - clock) >= Cost
    BY <1>4, <1>6
  <1>8. QED
    BY <1>3, <1>5, <1>7 DEF Promised

\* A call whose promise a step may break is no longer calm after it.
LEMMA CalmKept ==
    ASSUME TypeOK, [Next]_vars, CalmInv
    PROVE  CalmInv'
  <1>1. \A d \in calm : d \in Calls /\ SourceOf[d] \in Sources /\ call[d].due \in Nat
    BY MappedFacts DEF TypeOK, Call
  <1>2. pc \in [Calls -> Places] /\ call \in [Calls -> Call]
    BY TypeParts DEF CallsOK
  <1> DEFINE Undisturbed(d) ==
        /\ d \in calm /\ pc'[d] = pc[d] /\ call'[d] = call[d]
        /\ \/ LookedAt(SourceOf[d])
           \/ Untouched(SourceOf[d]) /\ (clock' = clock \/ clock' = clock + 1)
  <1>3. ASSUME NEW d, Undisturbed(d)
        PROVE  pc'[d] = "asleep" /\ Promised(SourceOf[d], call[d].due)'
    <2>1. pc[d] = "asleep" /\ Promised(SourceOf[d], call[d].due)
      BY <1>3 DEF CalmInv
    <2>2. PICK due \in Nat : due = call[d].due
      BY <1>1, <1>3
    <2>3. Promised(SourceOf[d], due)'
      BY <1>1, <1>3, <2>1, <2>2, PromiseKept
    <2>4. QED
      BY <1>3, <2>1, <2>2, <2>3 DEF Promised
  <1>4. SUFFICES ASSUME NEW d \in calm'
                 PROVE  Undisturbed(d) \/ (pc'[d] = "asleep" /\ Promised(SourceOf[d], call[d].due)')
    BY <1>3, <1>4 DEF CalmInv
  <1> HIDE DEF Undisturbed
  <1>5. CASE UNCHANGED vars \/ Tick
    BY <1>4, <1>5 DEF vars, Tick, history, Undisturbed, Untouched
  <1>6. ASSUME NEW c \in Calls, Send(c) \/ Skip(c) PROVE Undisturbed(d)
    <2>1. Granted(c) /\ d \in calm /\ SourceOf[d] # SourceOf[c] /\ d # c
      BY <1>4, <1>6 DEF Send, Skip, Granted
    <2>2. Untouched(SourceOf[d]) /\ clock' = clock
      BY <1>1, <2>1, GrantedIsStep
    <2>3. pc'[d] = pc[d] /\ call'[d] = call[d]
      BY <1>1, <1>2, <1>6, <2>1 DEF Send, Skip, FirstRequest, Ends
    <2>4. QED
      BY <2>1, <2>2, <2>3 DEF Undisturbed
  <1>7. ASSUME NEW c \in Calls, Sleep(c)
        PROVE  Undisturbed(d) \/ (pc'[d] = "asleep" /\ Promised(SourceOf[d], call[d].due)')
    <2>1. CASE d = c
      <3>1. ~Blocked(SourceOf[c])
        BY <1>4, <1>7, <2>1 DEF Sleep
      <3>2. pc'[c] = "asleep" /\ call'[c].due = clock + RetryAfter(SourceOf[c])
        <4>1. /\ pc' = [pc EXCEPT ![c] = "asleep"]
              /\ call' = [call EXCEPT ![c] = [NoCall EXCEPT !.due = clock + RetryAfter(SourceOf[c])]]
          BY <1>7 DEF Sleep
        <4>2. QED
          BY <1>2, <4>1 DEF NoCall
      <3>3. PICK due : due = clock + RetryAfter(SourceOf[c])
        OBVIOUS
      <3>4. Promised(SourceOf[c], due)'
        BY <1>7, <3>1, <3>3, SleepPromises
      <3>5. QED
        BY <2>1, <3>2, <3>3, <3>4 DEF Promised
    <2>2. CASE d # c
      <3>1. d \in calm /\ pc'[d] = pc[d] /\ call'[d] = call[d]
        BY <1>2, <1>4, <1>7, <2>2 DEF Sleep, TypeOK
      <3>2. LookedAt(SourceOf[d]) \/ (Untouched(SourceOf[d]) /\ clock' = clock)
        BY <1>1, <1>7, <3>1, SleepIsStep
      <3>3. QED
        BY <3>1, <3>2 DEF Undisturbed
    <2>3. QED
      BY <2>1, <2>2
  <1>8. ASSUME NEW c \in Calls, Refuse(c) PROVE Undisturbed(d)
    <2>1. d \in calm /\ d # c
      BY <1>4, <1>8 DEF Refuse
    <2>2. pc'[d] = pc[d] /\ call'[d] = call[d]
      BY <1>1, <1>2, <1>8, <2>1 DEF Refuse
    <2>3. LookedAt(SourceOf[d]) \/ (Untouched(SourceOf[d]) /\ clock' = clock)
      BY <1>1, <1>8, <2>1, RefuseIsStep
    <2>4. QED
      BY <2>1, <2>2, <2>3 DEF Undisturbed
  <1>9. ASSUME NEW c \in Calls, NEW delay \in Delays, TooManyRequests(c, delay) PROVE Undisturbed(d)
    <2>1. /\ d \in calm /\ pc[c] = "sending"
          /\ call[c].penalized \/ SourceOf[d] # SourceOf[c]
      BY <1>4, <1>9 DEF TooManyRequests, InRetries
    <2>2. d # c
      BY <2>1 DEF CalmInv
    <2>3. pc'[d] = pc[d] /\ call'[d] = call[d]
      BY <1>1, <1>2, <1>9, <2>1, <2>2 DEF TooManyRequests, Again, Ends
    <2>4. Untouched(SourceOf[d]) /\ clock' = clock
      BY <1>1, <1>9, <2>1, TooManyIsStep
    <2>5. QED
      BY <2>1, <2>3, <2>4 DEF Undisturbed
  <1>10. ASSUME NEW c \in Calls,
                \/ SendUnmetered(c) \/ Answer(c) \/ ConnectTimeout(c) \/ Transient(c) \/ Retry(c)
                \/ Cancel(c)
         PROVE  Undisturbed(d)
    <2>1. d \in calm /\ limiter' = limiter /\ clock' = clock
          /\ granted' = granted /\ asked' = asked /\ refused' = refused
      BY <1>4, <1>10 DEF SendUnmetered, Answer, ConnectTimeout, Transient, Retry, Cancel, history
    <2>2. d # c
      BY <1>4, <1>10, <2>1 DEF CalmInv, SendUnmetered, Answer, ConnectTimeout, Transient,
         InRetries, Retry, Cancel
    <2>3. pc'[d] = pc[d] /\ call'[d] = call[d]
      BY <1>1, <1>2, <1>10, <2>1, <2>2 DEF SendUnmetered, FirstRequest, Answer, ConnectTimeout,
         Transient, Retry, Cancel, Again, Ends
    <2>4. QED
      BY <2>1, <2>3 DEF Undisturbed, Untouched
  <1>11. QED
    BY <1>5, <1>6, <1>7, <1>8, <1>9, <1>10 DEF Next

-----------------------------------------------------------------------------
\* The inductive invariant.
IInv ==
    /\ TypeOK
    /\ \A s \in Sources : SourceInv(s)
    /\ HostsInv
    /\ CalmInv

\* The first state satisfies the inductive invariant.
LEMMA InitIInv == Init => IInv
  <1> SUFFICES ASSUME Init PROVE IInv
    OBVIOUS
  <1>1. TypeOK
    BY InitTyped
  <1>2. ASSUME NEW s \in Sources PROVE SourceInv(s)
    <2>1. granted[s] = << >> /\ asked[s] = 0 /\ refused[s] = -1 /\ limiter[s].blocked = 0 /\ clock = 0
      BY DEF Init
    <2>2. DOMAIN granted[s] = {}
      BY <2>1
    <2>3. QED
      BY <2>1, <2>2 DEF SourceInv, Ledger, Paid, AskedOK, RefusalOK
  <1>3. HostsInv
    BY DEF Init, HostsInv, HostsOK
  <1>4. CalmInv
    BY DEF Init, CalmInv
  <1>5. QED
    BY <1>1, <1>2, <1>3, <1>4 DEF IInv

\* Every step keeps the inductive invariant.
LEMMA IInvKept == IInv /\ [Next]_vars => IInv'
  <1> SUFFICES ASSUME IInv, [Next]_vars PROVE IInv'
    OBVIOUS
  <1>1. TypeOK'
    BY TypeKept DEF IInv
  <1>2. \A s \in Sources : SourceInv(s)'
    BY StepOfSource, SourceInvKept DEF IInv
  <1>3. HostsInv'
    BY HostsKept DEF IInv
  <1>4. CalmInv'
    BY CalmKept DEF IInv
  <1>5. QED
    BY <1>1, <1>2, <1>3, <1>4 DEF IInv

\* The inductive invariant holds throughout.
LEMMA IInvHolds == Spec => []IInv
  BY InitIInv, IInvKept, PTL DEF Spec

\* A new grant is a grant of the source's bucket: there was a token, and no block.
LEMMA NewGrantOpens ==
    ASSUME IInv, [Next]_vars, NEW s \in Sources, NewGrant(s)
    PROVE  clock > refused[s] /\ clock >= asked[s]
  <1>1. TypeOK /\ SourceInv(s)
    BY DEF IInv
  <1>2. Len(granted[s]) \in Nat
    BY <1>1, GrantTimes
  <1>3. SourceStep(s)
    BY <1>1, StepOfSource
  <1>4. granted'[s] # granted[s]
    BY <1>2 DEF NewGrant
  <1>5. GrantedAt(s)
    BY <1>3, <1>4 DEF SourceStep, Untouched, LookedAt, PenalizedAt
  <1>6. refused[s] < clock /\ asked[s] <= clock
    BY <1>1, <1>5, RefusalOver DEF SourceInv, GrantedAt
  <1>7. clock \in Nat /\ refused[s] \in Int /\ asked[s] \in Nat
    BY <1>1, Numbers
  <1>8. QED
    BY <1>6, <1>7

\* In every interval, whatever becomes of the calls, a source grants no more than a full
\* bucket and the refill of the interval pay for.
THEOREM Paced == Spec => []GrantsPaced
  <1>1. IInv => GrantsPaced
    BY DEF IInv, SourceInv, Paid, GrantsPaced
  <1>2. QED
    BY <1>1, IInvHolds, PTL

\* No token of a source is granted before the latest Retry-After has run out that
\* penalized it, which is one that request_with_retries met as its call's first 429.
THEOREM Honoured == Spec => RetryAfterHonoured
  <1>1. IInv /\ [Next]_vars => [\A s \in Sources : NewGrant(s) => clock >= asked[s]]_vars
    BY NewGrantOpens
  <1>2. QED
    BY <1>1, IInvHolds, PTL DEF Spec, RetryAfterHonoured

\* Until a refused call would have stopped waiting, nobody of its source is served.
THEOREM Stand == Spec => RefusalsStand
  <1>1. IInv /\ [Next]_vars => [\A s \in Sources : NewGrant(s) => clock > refused[s]]_vars
    BY NewGrantOpens
  <1>2. QED
    BY <1>1, IInvHolds, PTL DEF Spec, RefusalsStand

\* No new call of request_with_retries, metered or not, goes to a host within a cooldown
\* of the last connect timeout that request_with_retries met there.
THEOREM LeftAlone == Spec => CoolingHostLeftAlone
  <1> DEFINE Sent(c) == c \notin Streamed /\ pc'[c] = "sending" /\ pc[c] \in {"new", "asleep"}
  <1>1. ASSUME IInv, [Next]_vars, NEW c \in Calls, Sent(c)
        PROVE  clock >= timedOut[HostOf[c]]
    <2>1. pc \in [Calls -> Places]
      BY <1>1 DEF IInv, TypeOK, Places
    <2>2. ~Cooling(HostOf[c])
      <3>1. pc[c] # "sending" /\ pc[c] # "paused"
        BY <1>1
      <3>2. ASSUME NEW d \in Calls, pc' = [pc EXCEPT ![d] = "sending"] PROVE d = c
        BY <1>1, <2>1, <3>1, <3>2
      <3>3. ASSUME NEW d \in Calls, NEW place \in {"over", "asleep", "paused"},
                   pc' = [pc EXCEPT ![d] = place]
            PROVE  FALSE
        BY <1>1, <2>1, <3>1, <3>3
      <3>4. pc' # pc
        BY <1>1, <3>1
      <3>5. ~(UNCHANGED vars \/ Tick)
        BY <3>4 DEF vars, Tick
      <3>6. ASSUME NEW d \in Calls,
                   Skip(d) \/ Sleep(d) \/ Refuse(d) \/ Answer(d) \/ ConnectTimeout(d) \/ Cancel(d)
            PROVE  FALSE
        BY <3>3, <3>6 DEF Skip, Sleep, Refuse, Answer, ConnectTimeout, Cancel, Ends
      <3>7. ASSUME NEW d \in Calls, Transient(d) \/ \E delay \in Delays : TooManyRequests(d, delay)
            PROVE  FALSE
        BY <3>3, <3>7 DEF Transient, TooManyRequests, Again, Ends
      <3>8. ASSUME NEW d \in Calls, Retry(d) PROVE FALSE
        BY <3>1, <3>2, <3>8 DEF Retry
      <3>9. ASSUME NEW d \in Calls, Send(d) \/ SendUnmetered(d) PROVE ~Cooling(HostOf[c])
        <4>1. FirstRequest(d) /\ ~HeldBack(d)
          BY <3>3, <3>9 DEF Send, SendUnmetered, Ends
        <4>2. d = c
          BY <3>2, <4>1 DEF FirstRequest
        <4>3. QED
          BY <1>1, <4>1, <4>2 DEF HeldBack
      <3>10. QED
        BY <1>1, <3>5, <3>6, <3>7, <3>8, <3>9 DEF Next
    <2>3. HostOf[c] \in Hosts /\ clock \in Nat
      BY <1>1, MappedFacts, ClockAssumption DEF IInv, TypeOK
    <2>4. /\ timedOut[HostOf[c]] <= unreachable[HostOf[c]]
          /\ timedOut[HostOf[c]] \in Nat /\ unreachable[HostOf[c]] \in Nat
      BY <1>1, <2>3 DEF IInv, HostsInv, HostsOK
    <2>5. clock >= unreachable[HostOf[c]]
      BY <2>2, <2>3, <2>4 DEF Cooling
    <2>6. QED
      BY <2>3, <2>4, <2>5
  <1>2. IInv /\ [Next]_vars => [\A c \in Calls : Sent(c) => clock >= timedOut[HostOf[c]]]_vars
    BY <1>1
  <1>3. QED
    BY <1>2, IInvHolds, PTL DEF Spec, CoolingHostLeftAlone

\* A sleeper nobody has overtaken is served when it wakes.
THEOREM Served == Spec => []SleeperIsServed
  <1>1. ASSUME IInv, NEW c \in calm, pc[c] = "asleep", clock >= call[c].due
        PROVE  Refilled(SourceOf[c]) >= Cost /\ ~Blocked(SourceOf[c])
    <2> DEFINE s == SourceOf[c]
    <2>1. TypeOK /\ CalmInv /\ c \in Calls
      BY <1>1 DEF IInv, TypeOK
    <2>2. s \in Sources /\ call[c].due \in Nat
      BY <2>1, MappedFacts DEF TypeOK, Call
    <2>3. /\ limiter[s].blocked <= clock
          /\ limiter[s].units >= Cost \/ limiter[s].units + (call[c].due - limiter[s].seen) >= Cost
      BY <1>1, <2>1 DEF CalmInv, Promised
    <2>4. /\ limiter[s].units \in Nat /\ limiter[s].seen \in Nat /\ limiter[s].seen <= clock
          /\ limiter[s].blocked \in Nat /\ clock \in Nat /\ Refilled(s) \in Nat
          /\ Full \in Nat /\ Cost \in Nat /\ Cost <= Full
      BY <2>1, <2>2, Numbers
    <2>5. Refilled(s) = Full \/ Refilled(s) = limiter[s].units + (clock - limiter[s].seen)
      BY <2>1, <2>2, SourceFacts
    <2> HIDE DEF s
    <2>6. Refilled(s) >= Cost
      BY <1>1, <2>2, <2>3, <2>4, <2>5
    <2>7. ~Blocked(s)
      BY <2>3, <2>4 DEF Blocked
    <2>8. QED
      BY <2>6, <2>7 DEF s
  <1>2. IInv => SleeperIsServed
    BY <1>1 DEF SleeperIsServed
  <1>3. QED
    BY <1>2, IInvHolds, PTL

=============================================================================
