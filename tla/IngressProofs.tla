--------------------------- MODULE IngressProofs ---------------------------
(***************************************************************************)
(* Proofs about Ingress, for every number of requests, keys and addresses  *)
(* and all limits.                                                         *)
(***************************************************************************)
EXTENDS Ingress, FiniteSetTheorems, SequenceTheorems, TLAPS

-----------------------------------------------------------------------------
\* Prices are numbers that add up.
LEMMA PriceFacts ==
    /\ Rate!Full \in Nat \ {0}
    /\ \A n \in Int : Rate!Price(n) \in Int /\ Rate!Price(n + 1) = Rate!Price(n) + Cost
    /\ Rate!Price(1) = Cost
    /\ \A n \in Int : n <= 0 => Rate!Price(n) <= 0
  <1>1. Cost \in Nat \ {0} /\ Capacity \in Nat \ {0}
    BY RateAssumption
  <1>2. Rate!Full \in Nat \ {0}
    BY <1>1 DEF Rate!Full, Rate!Price
  <1>3. \A n \in Int : Rate!Price(n) \in Int /\ Rate!Price(n + 1) = Rate!Price(n) + Cost
    BY <1>1 DEF Rate!Price
  <1>4. Rate!Price(1) = Cost
    BY <1>1 DEF Rate!Price
  <1>5. \A n \in Int : n <= 0 => Rate!Price(n) <= 0
    BY <1>1 DEF Rate!Price
  <1>6. QED
    BY <1>2, <1>3, <1>4, <1>5

\* No bucket was seen in the future.
SeenOK == \A c \in Clients : bucket[c] # None => bucket[c].seen <= clock

\* What a bucket refills to lies between nothing and its capacity, and is no more than
\* what it held and the ticks since it was seen.
LEMMA RefilledFacts ==
    ASSUME Rate!RateTypeOK, SeenOK, NEW c \in Clients
    PROVE  /\ Rate!Refilled(c) \in 0..Rate!Full
           /\ bucket[c] = None => Rate!Refilled(c) = Rate!Full
           /\ bucket[c] # None => Rate!Refilled(c) <= bucket[c].units + (clock - bucket[c].seen)
  <1>1. Rate!Full \in Nat
    BY PriceFacts
  <1>2. CASE bucket[c] = None
    BY <1>1, <1>2 DEF Rate!Refilled
  <1>3. CASE bucket[c] # None
    <2>1. bucket[c].units \in 0..Rate!Full /\ bucket[c].seen \in 0..MaxClock
      BY <1>3 DEF Rate!RateTypeOK, Rate!Bucket
    <2>2. clock \in Int /\ bucket[c].seen <= clock
      BY <1>3, BoundsAssumption DEF Rate!RateTypeOK, SeenOK
    <2>3. QED
      BY <1>1, <1>3, <2>1, <2>2, BoundsAssumption DEF Rate!Refilled
  <1>4. QED
    BY <1>2, <1>3

\* The bucket of a client that was just served.
Served(c, ok) == [units |-> IF ok THEN Rate!Refilled(c) - Cost ELSE Rate!Refilled(c), seen |-> clock]

\* What is left after a token was paid is a bucket.
LEMMA ServedIsBucket ==
    ASSUME Rate!RateTypeOK, SeenOK, NEW c \in Clients, NEW ok \in BOOLEAN, ok => Rate!Refilled(c) >= Cost
    PROVE  Served(c, ok) \in Rate!Bucket /\ Served(c, ok) # None
  <1>1. clock \in 0..MaxClock /\ Rate!Refilled(c) \in 0..Rate!Full /\ Rate!Full \in Nat /\ Cost \in Nat
    BY RefilledFacts, PriceFacts, RateAssumption DEF Rate!RateTypeOK
  <1>2. (IF ok THEN Rate!Refilled(c) - Cost ELSE Rate!Refilled(c)) \in 0..Rate!Full
    <2>1. CASE ok
      BY <1>1, <2>1
    <2>2. CASE ~ok
      BY <1>1, <2>2
    <2>3. QED
      BY <2>1, <2>2
  <1>3. Served(c, ok) \in Rate!Bucket
    BY <1>1, <1>2 DEF Served, Rate!Bucket
  <1>4. QED
    BY <1>3, RateAssumption

\* acquire() keeps the types of the limiter.
LEMMA AcquireType ==
    ASSUME Rate!RateTypeOK, SeenOK, NEW c \in Clients, NEW ok \in BOOLEAN, Rate!Acquire(c, ok)
    PROVE  Rate!RateTypeOK' /\ SeenOK'
  <1>1. PICK kept \in Rate!KeptFor(c) : /\ bucket' = Rate!BucketsAfter(c, ok, kept)
                                        /\ admitted' = Rate!AdmittedAfter(c, ok, kept)
    BY DEF Rate!Acquire
  <1>2. clock' = clock /\ maxClients' = maxClients /\ (ok => Rate!Refilled(c) >= Cost)
    BY DEF Rate!Acquire, Rate!Allows
  <1>3. clock \in 0..MaxClock
    BY DEF Rate!RateTypeOK
  <1>5. Served(c, ok) \in Rate!Bucket
    BY <1>2, ServedIsBucket
  <1>6. bucket' \in [Clients -> Rate!Bucket \cup {None}]
    BY <1>1, <1>5 DEF Served, Rate!BucketsAfter, Rate!RateTypeOK
  <1>7. admitted' \in [Clients -> Seq(0..MaxClock)]
    <2>1. Append(admitted[c], clock) \in Seq(0..MaxClock)
      BY <1>3 DEF Rate!RateTypeOK
    <2>2. << >> \in Seq(0..MaxClock) /\ \A d \in Clients : admitted[d] \in Seq(0..MaxClock)
      BY DEF Rate!RateTypeOK
    <2>3. \A d \in Clients : Rate!AdmittedAfter(c, ok, kept)[d] \in Seq(0..MaxClock)
      BY <2>1, <2>2, Zenon DEF Rate!AdmittedAfter
    <2>4. Rate!AdmittedAfter(c, ok, kept) = [d \in Clients |-> Rate!AdmittedAfter(c, ok, kept)[d]]
      BY DEF Rate!AdmittedAfter
    <2>5. QED
      BY <1>1, <2>3, <2>4
  <1>8. SeenOK'
    <2>1. SUFFICES ASSUME NEW d \in Clients, bucket'[d] # None
                   PROVE  bucket'[d].seen <= clock
      BY <1>2 DEF SeenOK
    <2>2. CASE d = c
      BY <1>1, <1>3, <2>2, BoundsAssumption DEF Rate!BucketsAfter
    <2>3. CASE d # c
      BY <1>1, <2>1, <2>3 DEF Rate!BucketsAfter, SeenOK
    <2>4. QED
      BY <2>2, <2>3
  <1>9. QED
    BY <1>2, <1>6, <1>7, <1>8 DEF Rate!RateTypeOK

-----------------------------------------------------------------------------
(***************************************************************************)
(* The inductive form of RateBound.  For a client with a bucket, what it   *)
(* was admitted since any of its admissions, together with what its bucket *)
(* still holds, was paid by one full bucket and the refill until it was    *)
(* last seen.  A client whose stale bucket was dropped has had the time to *)
(* pay all of it back.                                                     *)
(***************************************************************************)
Since(c, i) == Rate!Price(Len(admitted[c]) - i + 1)

Ledger(c) ==
    \A i \in 1..Len(admitted[c]) :
        /\ admitted[c][i] <= clock
        /\ bucket[c] = None => Since(c, i) <= clock - admitted[c][i]
        /\ bucket[c] # None =>
              /\ admitted[c][i] <= bucket[c].seen
              /\ Since(c, i) + bucket[c].units <= Rate!Full + (bucket[c].seen - admitted[c][i])

Paid(c) ==
    \A i, j \in 1..Len(admitted[c]) :
        i <= j => Rate!Price(j - i + 1) <= Rate!Full + (admitted[c][j] - admitted[c][i])

RateInv ==
    /\ Rate!RateTypeOK
    /\ SeenOK
    /\ \A c \in Clients : Ledger(c) /\ Paid(c)

\* What the types say of one client.
LEMMA ClientFacts ==
    ASSUME Rate!RateTypeOK, SeenOK, NEW c \in Clients
    PROVE  /\ clock \in Nat /\ Rate!Full \in Nat /\ Cost \in Nat
           /\ Len(admitted[c]) \in Nat
           /\ \A i \in 1..Len(admitted[c]) : admitted[c][i] \in Nat /\ Since(c, i) \in Int
           /\ bucket[c] # None => bucket[c].units \in Nat /\ bucket[c].seen \in Nat /\ bucket[c].seen <= clock
  <1>1. clock \in 0..MaxClock /\ admitted[c] \in Seq(0..MaxClock) /\ bucket[c] \in Rate!Bucket \cup {None}
    BY DEF Rate!RateTypeOK
  <1>2. bucket[c] # None => bucket[c].units \in 0..Rate!Full /\ bucket[c].seen \in 0..MaxClock
    BY <1>1 DEF Rate!Bucket
  <1>3. \A i \in 1..Len(admitted[c]) : admitted[c][i] \in 0..MaxClock
    BY <1>1, ElementOfSeq
  <1>4. Len(admitted[c]) \in Nat
    BY <1>1
  <1>5. \A i \in 1..Len(admitted[c]) : Since(c, i) \in Int
    <2>1. TAKE i \in 1..Len(admitted[c])
    <2>2. Len(admitted[c]) - i + 1 \in Int
      BY <1>4
    <2>3. QED
      BY <2>2, PriceFacts DEF Since
  <1>6. \A i \in 1..Len(admitted[c]) : admitted[c][i] \in Nat
    BY <1>3, BoundsAssumption
  <1>7. bucket[c] # None => bucket[c].units \in Nat /\ bucket[c].seen \in Nat /\ bucket[c].seen <= clock
    BY <1>2, PriceFacts, BoundsAssumption DEF SeenOK
  <1>8. clock \in Nat /\ Rate!Full \in Nat /\ Cost \in Nat
    BY <1>1, PriceFacts, RateAssumption, BoundsAssumption
  <1>9. QED
    BY <1>4, <1>5, <1>6, <1>7, <1>8, Zenon

\* The sums of the ledger: a debt s beside u units at e, brought forward to t.
LEMMA RefillSum ==
    \A s, u, r, f, e, t, a \in Int :
        s + u <= f + (e - a) /\ r <= u + (t - e) => s + r <= f + (t - a)
  OBVIOUS

\* What is owed is covered where it is covered beside what the bucket still holds.
LEMMA SumOfDebt ==
    \A p, a \in Int, u, f, t \in Nat : p + u <= f + (t - a) => p <= f + (t - a)
  OBVIOUS

\* Once a bucket was left alone for its window, what is owed is covered by the time passed.
LEMMA StaleSum ==
    \A s, a \in Int, u, f, e, t, w \in Nat :
        s + u <= f + (e - a) /\ w >= f /\ e + w < t => s <= t - a
  OBVIOUS

\* The ledger brought up to now: what is owed and what the bucket refills to.
LEMMA LedgerNow ==
    ASSUME Rate!RateTypeOK, SeenOK, NEW c \in Clients, Ledger(c), NEW i \in 1..Len(admitted[c])
    PROVE  Since(c, i) + Rate!Refilled(c) <= Rate!Full + (clock - admitted[c][i])
  <1>1. /\ clock \in Nat /\ Rate!Full \in Nat
        /\ admitted[c][i] \in Nat /\ Since(c, i) \in Int
        /\ bucket[c] # None => bucket[c].units \in Nat /\ bucket[c].seen \in Nat /\ bucket[c].seen <= clock
    BY ClientFacts
  <1>2. /\ Rate!Refilled(c) \in Int
        /\ bucket[c] = None => Rate!Refilled(c) = Rate!Full
        /\ bucket[c] # None => Rate!Refilled(c) <= bucket[c].units + (clock - bucket[c].seen)
    BY <1>1, RefilledFacts
  <1>3. CASE bucket[c] = None
    <2>1. Since(c, i) <= clock - admitted[c][i]
      BY <1>3 DEF Ledger
    <2>2. QED
      BY <1>1, <1>2, <1>3, <2>1
  <1>4. CASE bucket[c] # None
    <2>1. Since(c, i) + bucket[c].units <= Rate!Full + (bucket[c].seen - admitted[c][i])
      BY <1>4 DEF Ledger
    <2>2. /\ clock \in Nat /\ Rate!Full \in Nat /\ admitted[c][i] \in Nat /\ Since(c, i) \in Int
          /\ bucket[c].units \in Nat /\ bucket[c].seen \in Nat
      BY <1>1, <1>4
    <2>3. Rate!Refilled(c) \in Int /\ Rate!Refilled(c) <= bucket[c].units + (clock - bucket[c].seen)
      BY <1>2, <1>4
    <2>4. /\ Since(c, i) \in Int /\ bucket[c].units \in Int /\ Rate!Refilled(c) \in Int /\ Rate!Full \in Int
          /\ bucket[c].seen \in Int /\ clock \in Int /\ admitted[c][i] \in Int
      BY <2>2, <2>3
    <2>5. QED
      BY <2>1, <2>3, <2>4, RefillSum, Zenon
  <1>5. QED
    BY <1>3, <1>4

\* A client that is let through pays for its request.
LEMMA PayingClient ==
    ASSUME Rate!RateTypeOK, SeenOK, NEW c \in Clients, Ledger(c), Paid(c), clock' = clock,
           Rate!Refilled(c) >= Cost, bucket'[c] # None,
           bucket'[c].units = Rate!Refilled(c) - Cost, bucket'[c].seen = clock,
           admitted'[c] = Append(admitted[c], clock)
    PROVE  Ledger(c)' /\ Paid(c)'
  <1> DEFINE n == Len(admitted[c])
  <1>1. /\ clock \in Nat /\ Rate!Full \in Nat /\ Cost \in Nat /\ n \in Nat
        /\ \A i \in 1..n : admitted[c][i] \in Nat /\ Since(c, i) \in Int
        /\ bucket[c] # None => bucket[c].units \in Nat /\ bucket[c].seen \in Nat /\ bucket[c].seen <= clock
    BY ClientFacts
  <1>2. admitted[c] \in Seq(0..MaxClock) /\ clock \in 0..MaxClock
    BY DEF Rate!RateTypeOK
  <1>3. /\ Len(admitted'[c]) = n + 1
        /\ \A i \in 1..n : admitted'[c][i] = admitted[c][i]
        /\ admitted'[c][n + 1] = clock
    BY <1>1, <1>2
  <1>4. /\ Rate!Refilled(c) \in Int
        /\ bucket[c] = None => Rate!Refilled(c) = Rate!Full
        /\ bucket[c] # None => Rate!Refilled(c) <= bucket[c].units + (clock - bucket[c].seen)
        /\ Rate!Refilled(c) <= Rate!Full
    BY <1>1, RefilledFacts
  <1>5. \A i \in 1..n : Rate!Price(n + 1 - i + 1) = Since(c, i) + Cost
    <2>1. TAKE i \in 1..n
    <2>2. n - i + 1 \in Int /\ n + 1 - i + 1 = (n - i + 1) + 1
      BY <1>1
    <2>3. QED
      BY <2>2, PriceFacts DEF Since
  <1>6. \A i \in 1..n : Since(c, i) + Rate!Refilled(c) <= Rate!Full + (clock - admitted[c][i])
    BY LedgerNow
  <1>7. \A i \in 1..(n + 1) :
           /\ admitted'[c][i] <= clock
           /\ Rate!Price(n + 1 - i + 1) + bucket'[c].units <= Rate!Full + (clock - admitted'[c][i])
    <2>1. TAKE i \in 1..(n + 1)
    <2>2. CASE i \in 1..n
      <3>1. admitted[c][i] <= clock /\ admitted'[c][i] = admitted[c][i]
        BY <1>3, <2>2 DEF Ledger
      <3>2. QED
        BY <1>1, <1>4, <1>5, <1>6, <2>2, <3>1
    <2>3. CASE i = n + 1
      <3>1. Rate!Price(n + 1 - i + 1) = Cost
        BY <1>1, <2>3, PriceFacts
      <3>2. QED
        BY <1>1, <1>3, <1>4, <2>3, <3>1
    <2>4. QED
      BY <1>1, <2>2, <2>3
  <1>8. Ledger(c)'
    BY <1>1, <1>3, <1>7 DEF Ledger, Since
  <1>9. Paid(c)'
    <2>1. SUFFICES ASSUME NEW i \in 1..(n + 1), NEW j \in 1..(n + 1), i <= j
                   PROVE  Rate!Price(j - i + 1) <= Rate!Full + (admitted'[c][j] - admitted'[c][i])
      BY <1>3 DEF Paid
    <2>2. CASE j = n + 1
      <3>1. Rate!Price(j - i + 1) + bucket'[c].units <= Rate!Full + (clock - admitted'[c][i])
        BY <1>7, <2>2
      <3>2. j - i + 1 \in Int /\ i \in Int
        BY <1>1, <2>2
      <3>3. Rate!Price(j - i + 1) \in Int
        BY <3>2, PriceFacts
      <3>4. admitted'[c][i] \in Int
        BY <1>1, <1>3
      <3>5. bucket'[c].units \in Nat
        BY <1>1, <1>4
      <3>6. admitted'[c][j] = clock
        BY <1>3, <2>2
      <3>7. Rate!Price(j - i + 1) <= Rate!Full + (clock - admitted'[c][i])
        BY <1>1, <3>1, <3>3, <3>4, <3>5, SumOfDebt, Zenon
      <3>8. QED
        BY <3>6, <3>7
    <2>3. CASE j \in 1..n
      <3>1. i \in 1..n
        BY <1>1, <2>1, <2>3
      <3>2. QED
        BY <1>3, <2>1, <2>3, <3>1 DEF Paid
    <2>4. QED
      BY <1>1, <2>2, <2>3
  <1>10. QED
    BY <1>8, <1>9

\* A client that is refused only has its bucket refilled.
LEMMA RefusedClient ==
    ASSUME Rate!RateTypeOK, SeenOK, NEW c \in Clients, Ledger(c), Paid(c), clock' = clock,
           bucket'[c] # None, bucket'[c].units = Rate!Refilled(c), bucket'[c].seen = clock,
           admitted'[c] = admitted[c]
    PROVE  Ledger(c)' /\ Paid(c)'
  <1>1. Paid(c)'
    BY DEF Paid
  <1>2. \A i \in 1..Len(admitted[c]) :
           /\ admitted[c][i] <= clock
           /\ Since(c, i) + Rate!Refilled(c) <= Rate!Full + (clock - admitted[c][i])
    BY LedgerNow DEF Ledger
  <1>3. Ledger(c)'
    BY <1>2 DEF Ledger, Since
  <1>4. QED
    BY <1>1, <1>3

\* A client whose bucket is dropped was stale, or its history goes too.
LEMMA DroppedClient ==
    ASSUME Rate!RateTypeOK, SeenOK, NEW c \in Clients, Ledger(c), Paid(c), clock' = clock,
           bucket'[c] = None,
           \/ bucket[c] = None /\ admitted'[c] = admitted[c]
           \/ c \in Rate!StaleClients /\ admitted'[c] = admitted[c]
           \/ admitted'[c] = << >>
    PROVE  Ledger(c)' /\ Paid(c)'
  <1>1. CASE admitted'[c] = << >>
    BY <1>1 DEF Ledger, Paid
  <1>2. CASE bucket[c] = None /\ admitted'[c] = admitted[c]
    BY <1>2 DEF Ledger, Paid, Since
  <1>3. CASE c \in Rate!StaleClients /\ bucket[c] # None /\ admitted'[c] = admitted[c]
    <2>1. Rate!StaleTicks \in Nat /\ Rate!StaleTicks >= Rate!Full /\ Rate!Full \in Nat
      BY PriceFacts, RateAssumption DEF Rate!StaleTicks
    <2>2. bucket[c].seen + Rate!StaleTicks < clock
      BY <1>3 DEF Rate!StaleClients
    <2>3. \A i \in 1..Len(admitted[c]) :
             admitted[c][i] <= clock /\ Since(c, i) <= clock - admitted[c][i]
      <3>1. TAKE i \in 1..Len(admitted[c])
      <3>2. admitted[c][i] <= clock /\ Since(c, i) + bucket[c].units <= Rate!Full + (bucket[c].seen - admitted[c][i])
        BY <1>3 DEF Ledger
      <3>3. Since(c, i) \in Int /\ admitted[c][i] \in Int /\ bucket[c].units \in Nat /\ bucket[c].seen \in Nat /\ clock \in Nat
        BY <1>3, ClientFacts
      <3>4. Since(c, i) <= clock - admitted[c][i]
        BY <2>1, <2>2, <3>2, <3>3, StaleSum, Zenon
      <3>5. QED
        BY <3>2, <3>4
    <2>4. QED
      BY <1>3, <2>3 DEF Ledger, Paid, Since
  <1>4. QED
    BY <1>1, <1>2, <1>3

\* A client that another request leaves alone.
LEMMA UntouchedClient ==
    ASSUME NEW c \in Clients, Ledger(c), Paid(c), clock' = clock,
           bucket'[c] = bucket[c], admitted'[c] = admitted[c]
    PROVE  Ledger(c)' /\ Paid(c)'
  BY DEF Ledger, Paid, Since

\* A request of any client keeps the ledgers.
LEMMA AcquireKeeps ==
    ASSUME RateInv, NEW c \in Clients, NEW ok \in BOOLEAN, Rate!Acquire(c, ok)
    PROVE  RateInv'
  <1>1. PICK kept \in Rate!KeptFor(c) : /\ bucket' = Rate!BucketsAfter(c, ok, kept)
                                        /\ admitted' = Rate!AdmittedAfter(c, ok, kept)
    BY DEF Rate!Acquire
  <1>2. clock' = clock /\ (ok => Rate!Refilled(c) >= Cost)
    BY DEF Rate!Acquire, Rate!Allows
  <1>3. Rate!RateTypeOK' /\ SeenOK' /\ Rate!RateTypeOK /\ SeenOK
    BY AcquireType DEF RateInv
  <1>4. ASSUME NEW d \in Clients PROVE Ledger(d)' /\ Paid(d)'
    <2>1. Ledger(d) /\ Paid(d) /\ bucket \in [Clients -> Rate!Bucket \cup {None}]
      BY DEF RateInv, Rate!RateTypeOK
    <2>2. CASE d = c
      <3>1. bucket'[d] = Served(c, ok) /\ Served(c, ok) # None
        BY <1>1, <1>2, <1>3, <2>2, ServedIsBucket DEF Rate!BucketsAfter, Served
      <3>2. CASE ok
        <4>1. bucket'[c].units = Rate!Refilled(c) - Cost /\ bucket'[c].seen = clock
          BY <2>2, <3>1, <3>2 DEF Served
        <4>2. admitted'[c] = Append(admitted[c], clock)
          BY <1>1, <3>2 DEF Rate!AdmittedAfter
        <4>3. QED
          BY <1>2, <1>3, <2>1, <2>2, <3>1, <3>2, <4>1, <4>2, PayingClient
      <3>3. CASE ~ok
        <4>1. bucket'[c].units = Rate!Refilled(c) /\ bucket'[c].seen = clock
          BY <2>2, <3>1, <3>3 DEF Served
        <4>2. admitted'[c] = admitted[c]
          BY <1>1, <3>3 DEF Rate!AdmittedAfter
        <4>3. QED
          BY <1>2, <1>3, <2>1, <2>2, <3>1, <4>1, <4>2, RefusedClient
      <3>4. QED
        BY <3>2, <3>3
    <2>3. CASE d # c /\ d \in kept
      <3>1. bucket'[d] = bucket[d] /\ admitted'[d] = admitted[d]
        BY <1>1, <2>3 DEF Rate!BucketsAfter, Rate!AdmittedAfter
      <3>2. QED
        BY <1>2, <2>1, <3>1, UntouchedClient
    <2>4. CASE d # c /\ d \notin kept
      <3>1. bucket'[d] = None
        BY <1>1, <2>4 DEF Rate!BucketsAfter
      <3>2. \/ bucket[d] = None /\ admitted'[d] = admitted[d]
            \/ d \in Rate!StaleClients /\ admitted'[d] = admitted[d]
            \/ admitted'[d] = << >>
        BY <1>1, <2>4 DEF Rate!AdmittedAfter, Rate!Tracked
      <3>3. QED
        BY <1>2, <1>3, <2>1, <3>1, <3>2, DroppedClient
    <2>5. QED
      BY <2>2, <2>3, <2>4
  <1>5. QED
    BY <1>3, <1>4 DEF RateInv

\* Waiting keeps the ledgers, and a restart clears them.
LEMMA TickKeeps ==
    ASSUME RateInv, Rate!Tick
    PROVE  RateInv'
  <1>1. clock \in 0..MaxClock /\ clock' = clock + 1 /\ clock' \in 0..MaxClock
    BY BoundsAssumption DEF Rate!Tick, RateInv, Rate!RateTypeOK
  <1>2. maxClients' = maxClients /\ bucket' = bucket /\ admitted' = admitted
    BY DEF Rate!Tick
  <1>3. Rate!RateTypeOK' /\ Rate!RateTypeOK /\ SeenOK
    BY <1>1, <1>2 DEF RateInv, Rate!RateTypeOK
  <1>4. SeenOK'
    <2>1. ASSUME NEW c \in Clients, bucket[c] # None PROVE bucket[c].seen <= clock + 1
      <3>1. bucket[c].seen \in Nat /\ bucket[c].seen <= clock /\ clock \in Nat
        BY <1>3, <2>1, ClientFacts
      <3>2. QED
        BY <3>1
    <2>2. QED
      BY <1>1, <1>2, <2>1 DEF SeenOK
  <1>5. ASSUME NEW c \in Clients PROVE Ledger(c)' /\ Paid(c)'
    <2>1. Ledger(c) /\ Paid(c)
      BY DEF RateInv
    <2>2. Paid(c)'
      BY <1>2, <2>1 DEF Paid
    <2>3. \A i \in 1..Len(admitted[c]) :
             /\ admitted[c][i] <= clock + 1
             /\ bucket[c] = None => Since(c, i) <= (clock + 1) - admitted[c][i]
      <3>1. TAKE i \in 1..Len(admitted[c])
      <3>2. admitted[c][i] \in Nat /\ Since(c, i) \in Int /\ clock \in Nat
        BY <1>3, ClientFacts
      <3>3. admitted[c][i] <= clock /\ (bucket[c] = None => Since(c, i) <= clock - admitted[c][i])
        BY <2>1 DEF Ledger
      <3>4. QED
        BY <3>2, <3>3
    <2>4. Ledger(c)'
      BY <1>1, <1>2, <2>1, <2>3 DEF Ledger, Since
    <2>5. QED
      BY <2>2, <2>4
  <1>6. QED
    BY <1>3, <1>4, <1>5 DEF RateInv

\* Buckets that have gone stale may be forgotten.
LEMMA ForgetKeeps ==
    ASSUME RateInv, Rate!Forget
    PROVE  RateInv'
  BY DEF RateInv, Rate!Forget, Rate!RateTypeOK, SeenOK, Ledger, Paid

\* A fresh limiter has admitted nobody.
LEMMA RateStarts ==
    ASSUME NEW limit \in Nat \ {0}, Rate!RateInit(limit)
    PROVE  RateInv
  BY BoundsAssumption DEF RateInv, Rate!RateInit, Rate!RateTypeOK, SeenOK, Ledger, Paid

\* What a step of the server does to the limiter.
LEMMA RateView ==
    ASSUME [Next]_vars
    PROVE  \/ \E c \in Clients, ok \in BOOLEAN : Rate!Acquire(c, ok)
           \/ Rate!Tick
           \/ Rate!Forget
           \/ UNCHANGED rateVars
  BY DEF Next, vars, DeclaredTooLarge, OverRate, Busy, Admit, Unauthorized, StartThread, QuotaStep,
         QuotaAllows, QuotaDenies, QuotaUnavailable, Answer, BodyTooLarge, Cancel, Ends, Tick,
         Midnight, Restart

\* The server starts with a fresh limiter.
LEMMA ServerStartsRate == Init => RateInv
  <1>1. MaxClientsFor(auth) \in Nat \ {0}
    BY RateAssumption, ClientsAssumption, FS_CardinalityType DEF MaxClientsFor
  <1>2. QED
    BY <1>1, RateStarts DEF Init

\* Every step keeps the bound of what each client was admitted.
LEMMA RateKept ==
    ASSUME RateInv, [Next]_vars
    PROVE  RateInv'
  <1>1. CASE UNCHANGED rateVars
    BY <1>1 DEF rateVars, RateInv, Rate!RateTypeOK, SeenOK, Ledger, Paid, Since
  <1>2. QED
    BY <1>1, RateView, AcquireKeeps, TickKeeps, ForgetKeeps

\* In every interval a client is admitted at most as often as a full bucket and the
\* refill of the interval pay for, through prunings and restarts.
THEOREM RateHolds == Spec => []RateBound
  <1>1. Init => RateInv
    BY ServerStartsRate
  <1>2. RateInv /\ [Next]_vars => RateInv'
    BY RateKept
  <1>3. RateInv => RateBound
    <2>1. SUFFICES ASSUME RateInv, NEW c \in Clients PROVE DOMAIN admitted[c] = 1..Len(admitted[c])
      BY DEF RateInv, Paid, RateBound, Rate!RateBound
    <2>2. QED
      BY <2>1 DEF RateInv, Rate!RateTypeOK
  <1>4. QED
    BY <1>1, <1>2, <1>3, PTL DEF Spec

-----------------------------------------------------------------------------
(***************************************************************************)
(* The requests themselves: who waits for a quota has a key, and the slots *)
(* in use are the slots of the requests that wait.                         *)
(***************************************************************************)
RequestTypeOK ==
    /\ auth \in BOOLEAN
    /\ restarts \in 0..MaxRestarts
    /\ pc \in [Requests -> {"new", "refused", "over"} \cup Waiting]
    /\ request \in [Requests -> Request]
    /\ slots \in [Classes -> Nat]

\* Only a request with a key waits for a quota.
KeyedWait == \A r \in Requests : pc[r] = "quota" => auth /\ request[r].key \in Keys

RequestInv == RequestTypeOK /\ KeyedWait

\* No request is under way at first.
LEMMA RequestsStart == Init => RequestInv
  BY BoundsAssumption DEF Init, RequestInv, RequestTypeOK, KeyedWait, NoRequest, Request, Kinds, Bodies, Waiting

\* A request that arrives is one.
LEMMA CarriedFacts ==
    ASSUME NEW r \in Requests, NEW o \in Offers, NEW c, Arrives(r, c)
    PROVE  Carried(o, c) \in Request /\ (auth => Carried(o, c).key \in Keys) /\ Carried(o, c).kind = o.kind
  <1>1. o \in Offer
    BY OffersAssumption
  <1>2. auth => c \in Keys
    BY DEF Arrives
  <1>3. o.kind \in Kinds /\ o.body \in Bodies
    BY <1>1 DEF Offer
  <1>4. QED
    BY <1>2, <1>3 DEF Carried, Request

\* Every kind of request is of one of the classes of slots.
LEMMA ClassFacts == \A kind : Class(kind) \in Classes
  BY DEF Class, Classes

\* A request that ends leaves the others as they were.
LEMMA EndsKeepsRequests ==
    ASSUME RequestInv, NEW r \in Requests, Ends(r)
    PROVE  RequestInv'
  <1>1. NoRequest \in Request
    BY DEF NoRequest, Request, Kinds, Bodies
  <1>2. pc' \in [Requests -> {"new", "refused", "over"} \cup Waiting]
    BY DEF Ends, RequestInv, RequestTypeOK
  <1>3. request' \in [Requests -> Request]
    BY <1>1 DEF Ends, RequestInv, RequestTypeOK
  <1>4. slots' \in [Classes -> Nat]
    BY ClassFacts DEF Ends, Release, RequestInv, RequestTypeOK
  <1>5. KeyedWait'
    BY DEF Ends, RequestInv, RequestTypeOK, KeyedWait
  <1>6. QED
    BY <1>2, <1>3, <1>4, <1>5 DEF Ends, RequestInv, RequestTypeOK

\* A request that is admitted or refused has the class and the key of its offer.
LEMMA AdmitKeepsRequests ==
    ASSUME RequestInv, NEW r \in Requests, NEW o \in Offers, NEW c \in Clients, Admit(r, o, c)
    PROVE  RequestInv'
  <1>1. Carried(o, c) \in Request /\ (auth => Carried(o, c).key \in Keys)
    BY CarriedFacts DEF Admit
  <1>2. pc' \in [Requests -> {"new", "refused", "over"} \cup Waiting]
    BY DEF Admit, RequestInv, RequestTypeOK, Waiting
  <1>3. request' \in [Requests -> Request]
    BY <1>1 DEF Admit, RequestInv, RequestTypeOK
  <1>4. slots' \in [Classes -> Nat]
    BY ClassFacts DEF Admit, RequestInv, RequestTypeOK
  <1>5. KeyedWait'
    <2>1. SUFFICES ASSUME NEW q \in Requests, pc'[q] = "quota" PROVE auth' /\ request'[q].key \in Keys
      BY DEF KeyedWait
    <2>2. CASE q = r
      BY <1>1, <2>1, <2>2 DEF Admit, RequestInv, RequestTypeOK
    <2>3. CASE q # r
      BY <2>1, <2>3 DEF Admit, RequestInv, RequestTypeOK, KeyedWait
    <2>4. QED
      BY <2>2, <2>3
  <1>6. QED
    BY <1>2, <1>3, <1>4, <1>5 DEF Admit, RequestInv, RequestTypeOK

\* Every step keeps requests in order: where they are, for whom, and in what class.
LEMMA RequestsKept ==
    ASSUME RequestInv, [Next]_vars
    PROVE  RequestInv'
  <1>1. ASSUME NEW r \in Requests, NEW o \in Offers, NEW c \in Clients,
               DeclaredTooLarge(r, o, c) \/ OverRate(r, o, c) \/ Busy(r, o, c)
        PROVE  RequestInv'
    BY <1>1 DEF DeclaredTooLarge, OverRate, Busy, RequestInv, RequestTypeOK, KeyedWait
  <1>2. ASSUME NEW r \in Requests, Unauthorized(r) \/ StartThread(r) \/ QuotaStep(r) \/ QuotaAllows(r)
        PROVE  RequestInv'
    BY <1>2 DEF Unauthorized, StartThread, QuotaStep, QuotaAllows, requestVars, RequestInv, RequestTypeOK,
       KeyedWait, Waiting
  <1>3. ASSUME NEW r \in Requests,
               QuotaDenies(r) \/ QuotaUnavailable(r) \/ Answer(r) \/ BodyTooLarge(r) \/ Cancel(r)
        PROVE  RequestInv'
    BY <1>3, EndsKeepsRequests DEF QuotaDenies, QuotaUnavailable, Answer, BodyTooLarge, Cancel
  <1>4. CASE Tick \/ Midnight \/ UNCHANGED vars
    BY <1>4 DEF Tick, Midnight, vars, requestVars, RequestInv, RequestTypeOK, KeyedWait
  <1>5. CASE Restart
    <2>1. NoRequest \in Request
      BY DEF NoRequest, Request, Kinds, Bodies
    <2>2. restarts' \in 0..MaxRestarts
      BY <1>5, BoundsAssumption DEF Restart, RequestInv, RequestTypeOK
    <2>3. /\ pc' \in [Requests -> {"new", "refused", "over"} \cup Waiting]
          /\ request' \in [Requests -> Request]
          /\ slots' \in [Classes -> Nat]
      BY <1>5, <2>1 DEF Restart, RequestInv, RequestTypeOK
    <2>4. KeyedWait'
      BY <1>5 DEF Restart, KeyedWait, RequestInv, RequestTypeOK, Waiting
    <2>5. QED
      BY <1>5, <2>2, <2>3, <2>4 DEF Restart, RequestInv, RequestTypeOK
  <1>6. QED
    BY <1>1, <1>2, <1>3, <1>4, <1>5, AdmitKeepsRequests DEF Next

-----------------------------------------------------------------------------
(***************************************************************************)
(* The quota.  One transaction is open at a time and what it read is still *)
(* the count of its row, days to come have no row, and the calls let       *)
(* through are the counted ones.                                           *)
(***************************************************************************)
CallsKnown ==
    \A r \in Requests : quota[r].at # "idle" => quota[r].key \in Keys /\ quota[r].day <= today
OneWriter == \A r \in Requests : quota[r].at = "inTx" <=> writer = r
ReadIsCurrent ==
    \A r \in Requests : quota[r].at = "inTx" => quota[r].used = usage[quota[r].key][quota[r].day]
CountedAllowed == \A r \in Requests : r \in counted <=> quota[r].at = "allowed"
NoFutureRows == \A k \in Keys, d \in Quota!Days : d > today => usage[k][d] = 0

QuotaInv ==
    /\ Quota!QuotaTypeOK
    /\ CallsKnown
    /\ OneWriter
    /\ ReadIsCurrent
    /\ CountedAllowed
    /\ NoFutureRows
    /\ Quota!TodayIsCounted

\* Cardinality is the same in the component as here.
LEMMA SameCardinality == \A S : Quota!Cardinality(S) = Cardinality(S)
  BY DEF Quota!Cardinality, Cardinality, Quota!IsFiniteSet, IsFiniteSet

\* The quota begins with no use counted.
LEMMA QuotaStarts == Init => QuotaInv
  <1>1. SUFFICES ASSUME Init PROVE QuotaInv
    OBVIOUS
  <1>2. Quota!QuotaInit
    BY <1>1 DEF Init
  <1>3. Quota!QuotaTypeOK
    BY <1>2, LimitAssumption, BoundsAssumption DEF Quota!QuotaInit, Quota!QuotaTypeOK, Quota!Call, Quota!Days
  <1>4. CallsKnown /\ OneWriter /\ ReadIsCurrent /\ CountedAllowed
    BY <1>2, RequestsAssumption DEF Quota!QuotaInit, CallsKnown, OneWriter, ReadIsCurrent, CountedAllowed
  <1>5. NoFutureRows
    BY <1>2 DEF Quota!QuotaInit, NoFutureRows
  <1>6. Quota!TodayIsCounted
    <2> USE DEF Quota!TodayIsCounted
    <2>1. TAKE k \in Keys
    <2>2. Quota!CountedOn(k, today) = {} /\ usage[k][today] = 0
      BY <1>2, BoundsAssumption DEF Quota!CountedOn, Quota!QuotaInit, Quota!Days
    <2>3. Quota!Cardinality({}) = 0
      BY FS_EmptySet, SameCardinality
    <2>4. QED
      BY <2>2, <2>3, LimitAssumption
  <1>7. QED
    BY <1>3, <1>4, <1>5, <1>6 DEF QuotaInv

\* A step that changes neither a row nor a counted call keeps the counts.
LEMMA CountsKept ==
    ASSUME QuotaInv, usage' = usage, counted' = counted, today' = today,
           \A r \in counted : quota'[r].key = quota[r].key /\ quota'[r].day = quota[r].day
    PROVE  Quota!TodayIsCounted' /\ NoFutureRows'
  <1>1. \A k \in Keys : Quota!CountedOn(k, today)' = Quota!CountedOn(k, today)
    BY DEF Quota!CountedOn
  <1>2. QED
    BY <1>1 DEF QuotaInv, Quota!TodayIsCounted, NoFutureRows

\* A quota thread that takes its date owes a count to that day.
LEMMA StampKeeps ==
    ASSUME QuotaInv, NEW r \in Requests, NEW k \in Keys, Quota!Stamp(r, k)
    PROVE  QuotaInv'
  <1> USE DEF QuotaInv
  <1>1. /\ today' = today /\ usage' = usage /\ writer' = writer /\ counted' = counted
        /\ quota[r].at = "idle"
        /\ quota' = [quota EXCEPT ![r] = [at |-> "stamped", key |-> k, day |-> today, used |-> 0]]
    BY DEF Quota!Stamp
  <1>2. Quota!QuotaTypeOK'
    BY <1>1, LimitAssumption DEF Quota!QuotaTypeOK, Quota!Call
  <1>3. \A q \in Requests : q # r => quota'[q] = quota[q]
    BY <1>1 DEF Quota!QuotaTypeOK
  <1>4. quota'[r] = [at |-> "stamped", key |-> k, day |-> today, used |-> 0]
    BY <1>1 DEF Quota!QuotaTypeOK
  <1>5. CallsKnown'
    BY <1>1, <1>3, <1>4, BoundsAssumption DEF CallsKnown, Quota!QuotaTypeOK, Quota!Days
  <1>6. OneWriter' /\ ReadIsCurrent' /\ CountedAllowed'
    BY <1>1, <1>3, <1>4 DEF OneWriter, ReadIsCurrent, CountedAllowed
  <1>7. \A q \in counted : quota'[q].key = quota[q].key /\ quota'[q].day = quota[q].day
    BY <1>1, <1>3 DEF CountedAllowed, Quota!QuotaTypeOK
  <1>8. QED
    BY <1>1, <1>2, <1>5, <1>6, <1>7, CountsKept

\* A transaction of the quota reads the count as it is committed.
LEMMA BeginKeeps ==
    ASSUME QuotaInv, NEW r \in Requests, Quota!Begin(r)
    PROVE  QuotaInv'
  <1> USE DEF QuotaInv
  <1>1. /\ today' = today /\ usage' = usage /\ writer = None /\ writer' = r /\ counted' = counted
        /\ quota[r].at = "stamped"
        /\ quota' = [quota EXCEPT ![r].at = "inTx", ![r].used = usage[quota[r].key][quota[r].day]]
    BY DEF Quota!Begin
  <1>2. quota[r] \in Quota!Call /\ quota[r].key \in Keys /\ quota[r].day \in Quota!Days /\ quota[r].day <= today
    BY <1>1 DEF Quota!QuotaTypeOK, Quota!Call, CallsKnown
  <1>3. usage[quota[r].key][quota[r].day] \in 0..Limit
    BY <1>2 DEF Quota!QuotaTypeOK
  <1>4. \A q \in Requests : q # r => quota'[q] = quota[q]
    BY <1>1 DEF Quota!QuotaTypeOK
  <1>5. quota'[r] = [quota[r] EXCEPT !.at = "inTx", !.used = usage[quota[r].key][quota[r].day]]
    BY <1>1 DEF Quota!QuotaTypeOK
  <1>6. /\ quota'[r] \in Quota!Call
        /\ quota'[r].at = "inTx" /\ quota'[r].used = usage[quota[r].key][quota[r].day]
        /\ quota'[r].key = quota[r].key /\ quota'[r].day = quota[r].day
    BY <1>2, <1>3, <1>5 DEF Quota!Call
  <1>7. Quota!QuotaTypeOK'
    BY <1>1, <1>4, <1>6 DEF Quota!QuotaTypeOK
  <1>8. CallsKnown' /\ ReadIsCurrent'
    BY <1>1, <1>2, <1>4, <1>6 DEF CallsKnown, ReadIsCurrent
  <1>9. OneWriter' /\ CountedAllowed'
    BY <1>1, <1>4, <1>6, RequestsAssumption DEF OneWriter, CountedAllowed
  <1>10. \A q \in counted : quota'[q].key = quota[q].key /\ quota'[q].day = quota[q].day
    BY <1>4, <1>6 DEF Quota!QuotaTypeOK
  <1>11. QED
    BY <1>1, <1>7, <1>8, <1>9, <1>10, CountsKept

\* A thread that fails has counted nothing.
LEMMA FailKeeps ==
    ASSUME QuotaInv, NEW r \in Requests, Quota!Fail(r)
    PROVE  QuotaInv'
  <1> USE DEF QuotaInv
  <1>1. /\ today' = today /\ usage' = usage /\ counted' = counted
        /\ quota[r].at \in {"stamped", "inTx"}
        /\ quota' = [quota EXCEPT ![r].at = "failed"]
        /\ writer' = IF writer = r THEN None ELSE writer
    BY DEF Quota!Fail
  <1>2. quota[r] \in Quota!Call
    BY DEF Quota!QuotaTypeOK
  <1>3. \A q \in Requests : q # r => quota'[q] = quota[q]
    BY <1>1 DEF Quota!QuotaTypeOK
  <1>4. quota'[r] = [quota[r] EXCEPT !.at = "failed"]
    BY <1>1 DEF Quota!QuotaTypeOK
  <1>5. /\ quota'[r] \in Quota!Call /\ quota'[r].at = "failed"
        /\ quota'[r].key = quota[r].key /\ quota'[r].day = quota[r].day
    BY <1>2, <1>4 DEF Quota!Call
  <1>6. Quota!QuotaTypeOK'
    BY <1>1, <1>3, <1>5 DEF Quota!QuotaTypeOK
  <1>7. CallsKnown' /\ ReadIsCurrent'
    BY <1>1, <1>3, <1>5 DEF CallsKnown, ReadIsCurrent
  <1>8. OneWriter' /\ CountedAllowed'
    BY <1>1, <1>3, <1>5, RequestsAssumption DEF OneWriter, CountedAllowed
  <1>9. \A q \in counted : quota'[q].key = quota[q].key /\ quota'[q].day = quota[q].day
    BY <1>3, <1>5 DEF Quota!QuotaTypeOK
  <1>10. QED
    BY <1>1, <1>6, <1>7, <1>8, <1>9, CountsKept

\* The transaction counts its request in the row of its day.
LEMMA CommitKeeps ==
    ASSUME QuotaInv, NEW r \in Requests, Quota!Commit(r)
    PROVE  QuotaInv'
  <1> USE DEF QuotaInv
  <1> DEFINE k == quota[r].key
  <1> DEFINE day == quota[r].day
  <1> DEFINE open == quota[r].used < Limit
  <1>1. /\ quota[r].at = "inTx" /\ today' = today /\ writer' = None
        /\ usage' = Quota!Settled(r)
    BY DEF Quota!Commit
  <1>2. /\ k \in Keys /\ day \in Quota!Days /\ day <= today
        /\ quota[r] \in Quota!Call /\ quota[r].used = usage[k][day] /\ writer = r
    BY <1>1 DEF Quota!QuotaTypeOK, Quota!Call, CallsKnown, ReadIsCurrent, OneWriter
  <1>3. usage[k][day] \in 0..Limit /\ today \in Quota!Days
    BY <1>2 DEF Quota!QuotaTypeOK
  <1>4. \A q \in Requests : q # r => quota'[q] = quota[q] /\ quota[q].at # "inTx"
    BY <1>1, <1>2 DEF Quota!Commit, Quota!QuotaTypeOK, OneWriter
  <1>5. quota'[r] = [quota[r] EXCEPT !.at = IF open THEN "allowed" ELSE "denied", !.used = 0]
    BY <1>1 DEF Quota!Commit, Quota!QuotaTypeOK
  <1>6. /\ quota'[r] \in Quota!Call /\ quota'[r].at = (IF open THEN "allowed" ELSE "denied")
        /\ quota'[r].key = k /\ quota'[r].day = day
    <2>1. ASSUME NEW at \in {"allowed", "denied"}, quota'[r] = [quota[r] EXCEPT !.at = at, !.used = 0]
          PROVE  quota'[r] \in Quota!Call /\ quota'[r].at = at /\ quota'[r].key = k /\ quota'[r].day = day
      <3>1. 0 \in 0..Limit
        BY LimitAssumption
      <3>2. quota[r] \in Quota!Call
        BY <1>2
      <3>3. QED
        BY <2>1, <3>1, <3>2 DEF Quota!Call
    <2>2. (IF open THEN "allowed" ELSE "denied") \in {"allowed", "denied"}
      OBVIOUS
    <2>3. QED
      BY <1>5, <2>1, <2>2, Zenon
  <1>7. r \notin counted /\ counted' = IF open THEN counted \cup {r} ELSE counted
    BY <1>1 DEF Quota!Commit, CountedAllowed
  <1>8. \A m \in Keys, d \in Quota!Days :
           usage'[m][d] = IF d < day THEN 0
                          ELSE IF d = day /\ m = k /\ open THEN usage[k][day] + 1 ELSE usage[m][d]
    BY <1>1, <1>2 DEF Quota!Settled
  <1>9. Quota!QuotaTypeOK'
    <2>1. \A m \in Keys, d \in Quota!Days : usage'[m][d] \in 0..Limit
      <3>1. TAKE m \in Keys, d \in Quota!Days
      <3>2. usage[m][d] \in 0..Limit /\ (open => usage[k][day] + 1 \in 0..Limit)
        BY <1>2, <1>3, LimitAssumption DEF Quota!QuotaTypeOK
      <3>3. QED
        BY <1>8, <3>2, LimitAssumption
    <2>2. usage' \in [Keys -> [Quota!Days -> 0..Limit]]
      BY <1>1, <2>1 DEF Quota!Settled
    <2>3. quota' \in [Requests -> Quota!Call]
      BY <1>1, <1>4, <1>6 DEF Quota!Commit, Quota!QuotaTypeOK
    <2>4. counted' \in SUBSET Requests
      BY <1>7 DEF Quota!QuotaTypeOK
    <2>5. QED
      BY <1>1, <2>2, <2>3, <2>4 DEF Quota!QuotaTypeOK
  <1>10. CallsKnown' /\ ReadIsCurrent'
    BY <1>1, <1>2, <1>4, <1>6 DEF CallsKnown, ReadIsCurrent
  <1>11. OneWriter'
    BY <1>1, <1>4, <1>6, RequestsAssumption DEF OneWriter
  <1>12. CountedAllowed'
    BY <1>4, <1>6, <1>7 DEF CountedAllowed
  <1>13. NoFutureRows'
    BY <1>1, <1>2, <1>3, <1>8, BoundsAssumption DEF NoFutureRows, Quota!Days
  <1>14. Quota!TodayIsCounted'
    <2>1. SUFFICES ASSUME NEW m \in Keys
                   PROVE  /\ usage'[m][today] = Cardinality(Quota!CountedOn(m, today)')
                          /\ usage'[m][today] <= Limit
      BY <1>1, SameCardinality DEF Quota!TodayIsCounted
    <2>2. usage[m][today] = Cardinality(Quota!CountedOn(m, today)) /\ usage[m][today] <= Limit
      BY SameCardinality DEF Quota!TodayIsCounted
    <2>3. CASE m = k /\ day = today /\ open
      <3>1. Quota!CountedOn(m, today)' = Quota!CountedOn(m, today) \cup {r} /\ r \notin Quota!CountedOn(m, today)
        BY <1>1, <1>4, <1>6, <1>7, <2>3 DEF Quota!CountedOn, Quota!QuotaTypeOK
      <3>2. IsFiniteSet(Quota!CountedOn(m, today))
        BY RequestsAssumption, FS_Subset DEF Quota!CountedOn, Quota!QuotaTypeOK
      <3>3. Cardinality(Quota!CountedOn(m, today)') = Cardinality(Quota!CountedOn(m, today)) + 1
        BY <3>1, <3>2, FS_AddElement
      <3>4. usage'[m][today] = usage[m][today] + 1
        BY <1>3, <1>8, <2>3, BoundsAssumption DEF Quota!Days
      <3>5. usage[m][today] < Limit /\ usage[m][today] \in Nat
        BY <1>2, <1>3, <2>3
      <3>6. QED
        BY <2>2, <3>3, <3>4, <3>5, LimitAssumption
    <2>4. CASE ~(m = k /\ day = today /\ open)
      <3>1. Quota!CountedOn(m, today)' = Quota!CountedOn(m, today)
        BY <1>1, <1>4, <1>6, <1>7, <2>4 DEF Quota!CountedOn, Quota!QuotaTypeOK
      <3>2. usage'[m][today] = usage[m][today]
        BY <1>2, <1>3, <1>8, <2>4, BoundsAssumption DEF Quota!Days
      <3>3. QED
        BY <2>2, <3>1, <3>2
    <2>5. QED
      BY <2>3, <2>4
  <1>15. QED
    BY <1>9, <1>10, <1>11, <1>12, <1>13, <1>14

\* A new day begins with nothing counted for it.
LEMMA MidnightKeeps ==
    ASSUME QuotaInv, Quota!Midnight
    PROVE  QuotaInv'
  <1> USE DEF QuotaInv
  <1>1. /\ today' = today + 1 /\ today \in Quota!Days /\ today' \in Quota!Days
        /\ usage' = usage /\ writer' = writer /\ quota' = quota /\ counted' = counted
    BY BoundsAssumption DEF Quota!Midnight, Quota!QuotaTypeOK, Quota!Days
  <1>2. Quota!QuotaTypeOK' /\ OneWriter' /\ ReadIsCurrent' /\ CountedAllowed'
    BY <1>1 DEF Quota!QuotaTypeOK, OneWriter, ReadIsCurrent, CountedAllowed
  <1>3. today \in Nat /\ \A r \in Requests : quota[r].day \in Nat
    BY <1>1, BoundsAssumption DEF Quota!QuotaTypeOK, Quota!Call, Quota!Days
  <1>4. CallsKnown'
    BY <1>1, <1>3 DEF CallsKnown
  <1>5. NoFutureRows'
    BY <1>1, <1>3, BoundsAssumption DEF NoFutureRows, Quota!Days
  <1>6. Quota!TodayIsCounted'
    <2>1. SUFFICES ASSUME NEW k \in Keys
                   PROVE  usage[k][today'] = Cardinality(Quota!CountedOn(k, today)') /\ usage[k][today'] <= Limit
      BY <1>1, SameCardinality DEF Quota!TodayIsCounted
    <2>2. usage[k][today'] = 0
      BY <1>1, <1>3, BoundsAssumption DEF NoFutureRows, Quota!Days
    <2>3. Quota!CountedOn(k, today)' = {}
      <3>1. \A r \in counted : r \in Requests /\ quota[r].at # "idle"
        BY DEF CountedAllowed, Quota!QuotaTypeOK
      <3>2. \A r \in counted : quota[r].day <= today /\ quota[r].day \in Nat
        BY <1>3, <3>1 DEF CallsKnown
      <3>3. QED
        BY <1>1, <1>3, <3>2 DEF Quota!CountedOn
    <2>4. QED
      BY <2>2, <2>3, FS_EmptySet, LimitAssumption
  <1>7. QED
    BY <1>2, <1>4, <1>5, <1>6

\* A process that stops loses its threads and none of the counts.
LEMMA StopKeeps ==
    ASSUME QuotaInv, Quota!Stop
    PROVE  QuotaInv'
  <1> USE DEF QuotaInv
  <1>1. /\ today' = today /\ usage' = usage /\ counted' = counted /\ writer' = None
        /\ quota' = [r \in Requests |-> IF quota[r].at \in {"stamped", "inTx"}
                                        THEN [quota[r] EXCEPT !.at = "failed"] ELSE quota[r]]
    BY DEF Quota!Stop
  <1>2. \A r \in Requests :
           /\ quota'[r] \in Quota!Call
           /\ quota'[r].key = quota[r].key /\ quota'[r].day = quota[r].day
           /\ quota'[r].at = IF quota[r].at \in {"stamped", "inTx"} THEN "failed" ELSE quota[r].at
    <2>1. TAKE r \in Requests
    <2>2. quota[r] \in Quota!Call
      BY DEF Quota!QuotaTypeOK
    <2>3. CASE quota[r].at \in {"stamped", "inTx"}
      <3>1. quota'[r] = [quota[r] EXCEPT !.at = "failed"]
        BY <1>1, <2>3
      <3>2. QED
        BY <2>2, <2>3, <3>1 DEF Quota!Call
    <2>4. CASE quota[r].at \notin {"stamped", "inTx"}
      BY <1>1, <2>2, <2>4
    <2>5. QED
      BY <2>3, <2>4
  <1>3. Quota!QuotaTypeOK'
    BY <1>1, <1>2 DEF Quota!QuotaTypeOK
  <1>4. CallsKnown' /\ ReadIsCurrent'
    BY <1>1, <1>2 DEF CallsKnown, ReadIsCurrent
  <1>5. OneWriter' /\ CountedAllowed'
    BY <1>1, <1>2, RequestsAssumption DEF OneWriter, CountedAllowed
  <1>6. \A r \in counted : quota'[r].key = quota[r].key /\ quota'[r].day = quota[r].day
    BY <1>2 DEF Quota!QuotaTypeOK
  <1>7. QED
    BY <1>1, <1>3, <1>4, <1>5, <1>6, CountsKept

\* What a step of the server does to the quota.
LEMMA QuotaView ==
    ASSUME [Next]_vars
    PROVE  \/ \E r \in Requests : pc[r] = "quota" /\ Quota!Stamp(r, request[r].key)
           \/ \E r \in Requests : Quota!Begin(r) \/ Quota!Commit(r) \/ Quota!Fail(r)
           \/ Quota!Midnight
           \/ Quota!Stop
           \/ UNCHANGED quotaVars
  BY DEF Next, vars, DeclaredTooLarge, OverRate, Busy, Admit, Unauthorized, StartThread, QuotaStep,
         QuotaAllows, QuotaDenies, QuotaUnavailable, Answer, BodyTooLarge, Cancel, Ends, Tick,
         Midnight, Restart

\* Every step keeps the quota and its threads in agreement.
LEMMA QuotaKept ==
    ASSUME RequestInv, QuotaInv, [Next]_vars
    PROVE  QuotaInv'
  <1>1. CASE UNCHANGED quotaVars
    <2>1. today' = today /\ usage' = usage /\ writer' = writer /\ quota' = quota /\ counted' = counted
      BY <1>1 DEF quotaVars
    <2>2. Quota!TodayIsCounted' /\ NoFutureRows'
      BY <2>1, CountsKept
    <2>3. QED
      BY <2>1, <2>2 DEF QuotaInv, Quota!QuotaTypeOK, CallsKnown, OneWriter, ReadIsCurrent, CountedAllowed
  <1>2. ASSUME NEW r \in Requests, pc[r] = "quota", Quota!Stamp(r, request[r].key) PROVE QuotaInv'
    <2>1. request[r].key \in Keys
      BY <1>2 DEF RequestInv, KeyedWait
    <2>2. QED
      BY <1>2, <2>1, StampKeeps
  <1>3. QED
    BY <1>1, <1>2, QuotaView, BeginKeeps, CommitKeeps, FailKeeps, MidnightKeeps, StopKeeps

\* The row of the current day counts exactly the requests let through on it, whatever
\* threads overlap, fail or outlive their request, and never exceeds the limit.
THEOREM TodayHolds == Spec => []TodayIsCounted
  <1>1. Init => RequestInv /\ QuotaInv
    BY RequestsStart, QuotaStarts
  <1>2. (RequestInv /\ QuotaInv) /\ [Next]_vars => (RequestInv /\ QuotaInv)'
    BY RequestsKept, QuotaKept
  <1>3. RequestInv /\ QuotaInv => TodayIsCounted
    BY DEF QuotaInv, TodayIsCounted
  <1>4. QED
    BY <1>1, <1>2, <1>3, PTL DEF Spec

\* The types of every variable.
THEOREM TypeCorrect == Spec => []TypeOK
  <1> DEFINE Inv == RateInv /\ RequestInv /\ QuotaInv
  <1>1. Init => Inv
    BY RequestsStart, QuotaStarts, ServerStartsRate
  <1>2. Inv /\ [Next]_vars => Inv'
    BY RequestsKept, QuotaKept, RateKept
  <1>3. Inv => TypeOK
    BY DEF RateInv, RequestInv, RequestTypeOK, QuotaInv, TypeOK
  <1> HIDE DEF Inv
  <1>4. QED
    BY <1>1, <1>2, <1>3, PTL DEF Spec

-----------------------------------------------------------------------------
\* A call of the quota belongs to a keyed request that passed the guards, and a metered
\* request that the application sees was counted.
GateInv ==
    /\ \A r \in Requests : quota[r].at # "idle" => auth /\ pc[r] \notin {"new", "refused"}
    /\ \A r \in Requests :
          auth /\ Metered(request[r].kind) /\ pc[r] = "app" => quota[r].at = "allowed"

\* No request has reached the application at first.
LEMMA GateStarts == Init => GateInv
  <1>1. Init => \A r \in Requests : quota[r].at = "idle" /\ pc[r] = "new"
    BY DEF Init, Quota!QuotaInit
  <1>2. QED
    BY <1>1 DEF GateInv

\* An admission sends a metered request of a key to the quota, never straight to the application.
LEMMA AdmitKeepsGate ==
    ASSUME RequestInv, QuotaInv, GateInv,
           NEW r \in Requests, NEW o \in Offers, NEW c \in Clients, Admit(r, o, c)
    PROVE  GateInv'
  <1>1. /\ pc[r] = "new" /\ auth' = auth /\ quota' = quota
        /\ pc' = [pc EXCEPT ![r] = IF auth /\ Metered(o.kind) THEN "quota" ELSE "app"]
        /\ request' = [request EXCEPT ![r] = Carried(o, c)]
    BY DEF Admit, Arrives, quotaVars
  <1>2. quota[r].at = "idle" /\ Carried(o, c).kind = o.kind
    BY <1>1 DEF GateInv, Carried
  <1>3. \A q \in Requests : q # r => pc'[q] = pc[q] /\ request'[q] = request[q]
    BY <1>1 DEF RequestInv, RequestTypeOK
  <1>4. pc'[r] = (IF auth /\ Metered(o.kind) THEN "quota" ELSE "app") /\ request'[r] = Carried(o, c)
    BY <1>1 DEF RequestInv, RequestTypeOK
  <1>5. QED
    BY <1>1, <1>2, <1>3, <1>4 DEF GateInv

\* A request that ends is out of the application.
LEMMA EndsKeepsGate ==
    ASSUME RequestInv, GateInv, NEW r \in Requests, Ends(r)
    PROVE  GateInv'
  <1>1. auth' = auth /\ quota' = quota
    BY DEF Ends, quotaVars
  <1>2. pc'[r] = "over" /\ \A q \in Requests : q # r => pc'[q] = pc[q] /\ request'[q] = request[q]
    BY DEF Ends, RequestInv, RequestTypeOK
  <1>3. QED
    BY <1>1, <1>2 DEF GateInv

\* A thread's own steps: none starts but for a waiting request, and none that was let
\* through goes back.
LEMMA QuotaStepKeepsGate ==
    ASSUME RequestInv, QuotaInv, GateInv, NEW r \in Requests, StartThread(r) \/ QuotaStep(r)
    PROVE  GateInv'
  <1>1. auth' = auth /\ pc' = pc /\ request' = request
    BY DEF StartThread, QuotaStep, requestVars
  <1>2. \A q \in Requests : q # r => quota'[q] = quota[q]
    BY DEF StartThread, QuotaStep, Quota!Stamp, Quota!Begin, Quota!Commit, Quota!Fail, QuotaInv, Quota!QuotaTypeOK
  <1>3. quota[r].at # "allowed" /\ (quota[r].at # "idle" \/ pc[r] = "quota")
    BY DEF StartThread, QuotaStep, Quota!Stamp, Quota!Begin, Quota!Commit, Quota!Fail
  <1>4. auth /\ pc[r] \notin {"new", "refused"}
    BY <1>3 DEF GateInv, RequestInv, KeyedWait
  <1>5. QED
    BY <1>1, <1>2, <1>3, <1>4 DEF GateInv

\* A guard turns a request away.
Turned(r) ==
    /\ pc[r] = "new"
    /\ pc' = [pc EXCEPT ![r] = "refused"]
    /\ UNCHANGED <<auth, restarts, request, slots, quotaVars>>

\* Every step lets a request into the application only with a use of its key counted.
LEMMA GateKept ==
    ASSUME RequestInv, QuotaInv, GateInv, [Next]_vars
    PROVE  GateInv'
  <1>1. ASSUME NEW r \in Requests, NEW o \in Offers, NEW c \in Clients,
               DeclaredTooLarge(r, o, c) \/ OverRate(r, o, c) \/ Busy(r, o, c)
        PROVE  Turned(r)
    BY <1>1 DEF DeclaredTooLarge, OverRate, Busy, Arrives, Turned
  <1>2. ASSUME NEW r \in Requests, Turned(r) \/ QuotaAllows(r) PROVE GateInv'
    <2>1. auth' = auth /\ quota' = quota /\ request' = request
      BY <1>2 DEF Turned, QuotaAllows, quotaVars
    <2>2. \A q \in Requests : q # r => pc'[q] = pc[q]
      BY <1>2 DEF Turned, QuotaAllows, RequestInv, RequestTypeOK
    <2>3. \/ pc[r] = "new" /\ pc'[r] = "refused"
          \/ pc[r] = "quota" /\ pc'[r] = "app" /\ quota[r].at = "allowed"
      BY <1>2 DEF Turned, QuotaAllows, RequestInv, RequestTypeOK
    <2>4. r \in Requests /\ (pc[r] = "new" => quota[r].at = "idle")
      BY DEF GateInv
    <2>5. \A q \in Requests : quota[q].at # "idle" => auth /\ pc'[q] \notin {"new", "refused"}
      BY <2>2, <2>3, <2>4 DEF GateInv
    <2>6. \A q \in Requests :
             auth /\ Metered(request[q].kind) /\ pc'[q] = "app" => quota[q].at = "allowed"
      BY <2>2, <2>3 DEF GateInv
    <2>7. QED
      BY <2>1, <2>5, <2>6 DEF GateInv
  <1>3. ASSUME NEW r \in Requests,
               QuotaDenies(r) \/ QuotaUnavailable(r) \/ Answer(r) \/ BodyTooLarge(r) \/ Cancel(r)
        PROVE  GateInv'
    BY <1>3, EndsKeepsGate DEF QuotaDenies, QuotaUnavailable, Answer, BodyTooLarge, Cancel
  <1>4. CASE Tick \/ Midnight \/ UNCHANGED vars
    BY <1>4 DEF Tick, Midnight, Quota!Midnight, vars, requestVars, quotaVars, GateInv
  <1>5. CASE Restart
    <2>1. auth' = auth /\ \A r \in Requests : pc'[r] = IF pc[r] \in Waiting THEN "over" ELSE pc[r]
      BY <1>5 DEF Restart
    <2>2. \A r \in Requests : quota'[r].at # "idle" => quota[r].at # "idle"
      BY <1>5 DEF Restart, Quota!Stop
    <2>3. \A r \in Requests : pc'[r] # "app"
      BY <2>1 DEF Waiting
    <2>4. QED
      BY <2>1, <2>2, <2>3 DEF GateInv, Waiting
  <1>6. ASSUME NEW r \in Requests, Unauthorized(r) PROVE Turned(r)
    BY <1>6 DEF Unauthorized, Turned
  <1>7. QED
    BY <1>1, <1>2, <1>3, <1>4, <1>5, <1>6, AdmitKeepsGate, QuotaStepKeepsGate DEF Next

\* A metered request reaches the application only if the quota counted it, whatever the
\* store does, and a request that a guard turned away is never counted.
THEOREM GateHolds == Spec => []QuotaGatesTheApp
  <1> DEFINE Inv == RequestInv /\ QuotaInv /\ GateInv
  <1>1. Init => Inv
    BY RequestsStart, QuotaStarts, GateStarts
  <1>2. Inv /\ [Next]_vars => Inv'
    BY RequestsKept, QuotaKept, GateKept
  <1>3. Inv => QuotaGatesTheApp
    BY DEF QuotaInv, Quota!QuotaTypeOK, CountedAllowed, GateInv, QuotaGatesTheApp
  <1> HIDE DEF Inv
  <1>4. QED
    BY <1>1, <1>2, <1>3, PTL DEF Spec

-----------------------------------------------------------------------------
\* The requests that hold a slot of a limiter.
Holding(s) == {r \in Requests : pc[r] \in Waiting /\ Class(request[r].kind) = s}

\* Finitely many requests hold a slot.
LEMMA HoldingFinite == \A s : IsFiniteSet(Holding(s))
  BY RequestsAssumption, FS_Subset DEF Holding

\* A step after which the same requests wait and use as many slots.
LEMMA SlotsUntouched ==
    ASSUME SlotsMatchRequests, slots' = slots,
           \A r \in Requests : pc'[r] \in Waiting <=> pc[r] \in Waiting,
           \A r \in Requests : pc[r] \in Waiting => request'[r] = request[r]
    PROVE  SlotsMatchRequests'
  <1>1. \A s \in Classes : Holding(s)' = Holding(s)
    BY DEF Holding
  <1>2. QED
    BY <1>1 DEF SlotsMatchRequests, Holding

\* An admission takes one slot for the one request that now holds it.
LEMMA AdmitKeepsSlots ==
    ASSUME RequestInv, SlotsMatchRequests,
           NEW r \in Requests, NEW o \in Offers, NEW c \in Clients, Admit(r, o, c)
    PROVE  SlotsMatchRequests'
  <1> DEFINE t == Class(o.kind)
  <1>1. /\ pc[r] = "new" /\ slots[t] < SlotLimit[t] /\ slots' = [slots EXCEPT ![t] = @ + 1]
        /\ t \in Classes
    BY ClassFacts DEF Admit, Arrives
  <1>2. /\ \A q \in Requests : q # r => pc'[q] = pc[q] /\ request'[q] = request[q]
        /\ pc'[r] \in Waiting /\ Class(request'[r].kind) = t
    BY DEF Admit, RequestInv, RequestTypeOK, Waiting, Carried
  <1>3. r \notin Holding(t) /\ Holding(t)' = Holding(t) \cup {r}
    BY <1>1, <1>2 DEF Holding, Waiting
  <1>4. \A s \in Classes : s # t => Holding(s)' = Holding(s)
    BY <1>1, <1>2 DEF Holding, Waiting
  <1>5. Cardinality(Holding(t)') = Cardinality(Holding(t)) + 1
    BY <1>3, HoldingFinite, FS_AddElement
  <1>6. \A s \in Classes : slots[s] = Cardinality(Holding(s)) /\ slots[s] <= SlotLimit[s] /\ slots[s] \in Nat
    BY DEF SlotsMatchRequests, Holding, RequestInv, RequestTypeOK
  <1>7. slots'[t] = slots[t] + 1 /\ \A s \in Classes : s # t => slots'[s] = slots[s]
    BY <1>1 DEF RequestInv, RequestTypeOK
  <1>8. SlotLimit[t] \in Nat
    BY <1>1, SlotAssumption
  <1>9. \A s \in Classes : slots'[s] = Cardinality(Holding(s)') /\ slots'[s] <= SlotLimit[s]
    <2>1. TAKE s \in Classes
    <2>2. CASE s = t
      BY <1>1, <1>5, <1>6, <1>7, <1>8, <2>2
    <2>3. CASE s # t
      BY <1>4, <1>6, <1>7, <2>3
    <2>4. QED
      BY <2>2, <2>3
  <1>10. QED
    BY <1>9 DEF SlotsMatchRequests, Holding

\* A request that ends gives back the one slot it held.
LEMMA EndsKeepsSlots ==
    ASSUME RequestInv, SlotsMatchRequests, NEW r \in Requests, pc[r] \in Waiting, Ends(r)
    PROVE  SlotsMatchRequests'
  <1>0. PICK t \in Classes : t = Class(request[r].kind)
    BY ClassFacts
  <1>1. t \in Classes /\ slots' = [slots EXCEPT ![t] = IF @ > 0 THEN @ - 1 ELSE 0]
    BY <1>0 DEF Ends, Release
  <1>2. /\ \A q \in Requests : q # r => pc'[q] = pc[q] /\ request'[q] = request[q]
        /\ pc'[r] = "over"
    BY DEF Ends, RequestInv, RequestTypeOK
  <1>3. r \in Holding(t) /\ Holding(t)' = Holding(t) \ {r}
    BY <1>0, <1>2 DEF Holding, Waiting
  <1>4. \A s \in Classes : s # t => Holding(s)' = Holding(s)
    BY <1>0, <1>2 DEF Holding, Waiting
  <1>5. Cardinality(Holding(t)') = Cardinality(Holding(t)) - 1 /\ Cardinality(Holding(t)) \in Nat
    BY <1>3, HoldingFinite, FS_RemoveElement, FS_CardinalityType
  <1>6. Cardinality(Holding(t)') \in Nat
    BY <1>3, HoldingFinite, FS_Subset, FS_CardinalityType
  <1>7. \A s \in Classes : slots[s] = Cardinality(Holding(s)) /\ slots[s] <= SlotLimit[s] /\ slots[s] \in Nat
    BY DEF SlotsMatchRequests, Holding, RequestInv, RequestTypeOK
  <1>8. slots[t] > 0
    BY <1>1, <1>5, <1>6, <1>7
  <1>9. slots'[t] = slots[t] - 1 /\ \A s \in Classes : s # t => slots'[s] = slots[s]
    BY <1>1, <1>8 DEF RequestInv, RequestTypeOK
  <1>10. SlotLimit[t] \in Nat
    BY <1>1, SlotAssumption
  <1>11. \A s \in Classes : slots'[s] = Cardinality(Holding(s)') /\ slots'[s] <= SlotLimit[s]
    <2>1. TAKE s \in Classes
    <2>2. CASE s = t
      <3>1. slots[t] = Cardinality(Holding(t)) /\ slots[t] <= SlotLimit[t] /\ slots[t] \in Nat
        BY <1>1, <1>7
      <3>2. slots'[t] = Cardinality(Holding(t)') /\ slots'[t] <= SlotLimit[t]
        BY <1>5, <1>9, <1>10, <3>1
      <3>3. QED
        BY <2>2, <3>2
    <2>3. CASE s # t
      BY <1>4, <1>7, <1>9, <2>3
    <2>4. QED
      BY <2>2, <2>3
  <1>12. QED
    BY <1>11 DEF SlotsMatchRequests, Holding

\* All slots are free at first.
LEMMA SlotsStart == Init => SlotsMatchRequests
  <1>1. SUFFICES ASSUME Init, NEW s \in Classes
                 PROVE  slots[s] = Cardinality(Holding(s)) /\ slots[s] <= SlotLimit[s]
    BY DEF SlotsMatchRequests, Holding
  <1>2. Holding(s) = {} /\ slots[s] = 0
    BY <1>1 DEF Init, Holding, Waiting
  <1>3. SlotLimit[s] \in Nat
    BY SlotAssumption
  <1>4. QED
    BY <1>2, <1>3, FS_EmptySet

\* Every step keeps as many slots taken as requests hold one.
LEMMA SlotsKept ==
    ASSUME RequestInv, SlotsMatchRequests, [Next]_vars
    PROVE  SlotsMatchRequests'
  <1>1. ASSUME NEW r \in Requests, NEW o \in Offers, NEW c \in Clients,
               DeclaredTooLarge(r, o, c) \/ OverRate(r, o, c) \/ Busy(r, o, c)
        PROVE  SlotsMatchRequests'
    BY <1>1, SlotsUntouched DEF DeclaredTooLarge, OverRate, Busy, Arrives, RequestInv, RequestTypeOK, Waiting
  <1>2. ASSUME NEW r \in Requests, Unauthorized(r) \/ StartThread(r) \/ QuotaStep(r) \/ QuotaAllows(r)
        PROVE  SlotsMatchRequests'
    BY <1>2, SlotsUntouched DEF Unauthorized, StartThread, QuotaStep, QuotaAllows, requestVars,
       RequestInv, RequestTypeOK, Waiting
  <1>3. ASSUME NEW r \in Requests,
               QuotaDenies(r) \/ QuotaUnavailable(r) \/ Answer(r) \/ BodyTooLarge(r) \/ Cancel(r)
        PROVE  SlotsMatchRequests'
    BY <1>3, EndsKeepsSlots DEF QuotaDenies, QuotaUnavailable, Answer, BodyTooLarge, Cancel, Waiting
  <1>4. CASE Tick \/ Midnight \/ UNCHANGED vars
    BY <1>4, SlotsUntouched DEF Tick, Midnight, vars, requestVars
  <1>5. CASE Restart
    <2>1. SUFFICES ASSUME NEW s \in Classes
                   PROVE  slots'[s] = Cardinality(Holding(s)') /\ slots'[s] <= SlotLimit[s]
      BY DEF SlotsMatchRequests, Holding
    <2>2. Holding(s)' = {} /\ slots'[s] = 0
      BY <1>5 DEF Restart, Holding, Waiting, Classes
    <2>3. SlotLimit[s] \in Nat
      BY SlotAssumption
    <2>4. QED
      BY <2>2, <2>3, FS_EmptySet
  <1>6. QED
    BY <1>1, <1>2, <1>3, <1>4, <1>5, AdmitKeepsSlots DEF Next

\* The limiters count the requests that hold their slots: however requests end, no slot
\* is leaked and none is given back twice.
THEOREM SlotsHold == Spec => []SlotsMatchRequests
  <1>1. Init => RequestInv /\ SlotsMatchRequests
    BY RequestsStart, SlotsStart
  <1>2. (RequestInv /\ SlotsMatchRequests) /\ [Next]_vars => (RequestInv /\ SlotsMatchRequests)'
    BY RequestsKept, SlotsKept
  <1>3. QED
    BY <1>1, <1>2, PTL DEF Spec

-----------------------------------------------------------------------------
\* With keys configured only keys are tracked, and there is room for all of them.
KeysInv ==
    auth => /\ maxClients >= Cardinality(Keys) /\ maxClients \in Nat
            /\ \A c \in Clients : bucket[c] # None => c \in Keys

\* No bucket is there at first.
LEMMA KeysStart == Init => KeysInv
  <1>1. Cardinality(Keys) \in Nat
    BY ClientsAssumption, FS_CardinalityType
  <1>2. Init => maxClients = MaxClientsFor(auth) /\ \A c \in Clients : bucket[c] = None
    BY DEF Init, Rate!RateInit
  <1>3. auth => MaxClientsFor(auth) >= Cardinality(Keys) /\ MaxClientsFor(auth) \in Nat
    BY <1>1, RateAssumption DEF MaxClientsFor
  <1>4. QED
    BY <1>2, <1>3 DEF KeysInv

\* The limiter counts its buckets as everything else does.
LEMMA RateCardinality == \A S : Rate!Cardinality(S) = Cardinality(S)
  BY DEF Rate!Cardinality, Cardinality, Rate!IsFiniteSet, IsFiniteSet

\* A key that asks finds room without anybody being evicted.
LEMMA RoomForKeys ==
    ASSUME KeysInv, auth, NEW c \in Keys
    PROVE  Rate!KeptFor(c) = {Rate!Tracked}
  <1>1. CASE bucket[c] # None
    BY <1>1 DEF Rate!KeptFor
  <1>2. CASE bucket[c] = None
    <2>1. Rate!Tracked \subseteq Keys \ {c}
      BY <1>2 DEF KeysInv, Rate!Tracked
    <2>2. IsFiniteSet(Keys \ {c}) /\ Cardinality(Keys \ {c}) = Cardinality(Keys) - 1 /\ Cardinality(Keys) \in Nat
      BY ClientsAssumption, FS_RemoveElement, FS_CardinalityType
    <2>3. Cardinality(Rate!Tracked) <= Cardinality(Keys \ {c}) /\ Cardinality(Rate!Tracked) \in Nat
      BY <2>1, <2>2, FS_Subset, FS_CardinalityType
    <2>4. Rate!Cardinality(Rate!Tracked) < maxClients
      BY <2>2, <2>3, RateCardinality DEF KeysInv
    <2>5. QED
      BY <1>2, <2>4 DEF Rate!KeptFor, Rate!Kept
  <1>3. QED
    BY <1>1, <1>2

\* Behind authentication only keys have buckets, and there is room for all of them.
LEMMA AcquireKeepsKeys ==
    ASSUME RateInv, KeysInv, auth' = auth, NEW c \in Clients, NEW ok \in BOOLEAN,
           auth => c \in Keys, Rate!Acquire(c, ok)
    PROVE  KeysInv' /\ (auth => \A k \in Keys : bucket[k] # None => bucket'[k] # None)
  <1>1. PICK kept \in Rate!KeptFor(c) : bucket' = Rate!BucketsAfter(c, ok, kept)
    BY DEF Rate!Acquire
  <1>2. maxClients' = maxClients /\ (ok => Rate!Refilled(c) >= Cost)
    BY DEF Rate!Acquire, Rate!Allows
  <1>3. bucket'[c] # None
    BY <1>1, <1>2, ServedIsBucket DEF RateInv, Rate!BucketsAfter, Served
  <1>4. SUFFICES ASSUME auth PROVE KeysInv' /\ \A k \in Keys : bucket[k] # None => bucket'[k] # None
    BY DEF KeysInv
  <1>5. kept = Rate!Tracked
    BY <1>4, RoomForKeys
  <1>6. \A k \in Clients : k # c => bucket'[k] = bucket[k]
    BY <1>1, <1>5 DEF Rate!BucketsAfter, Rate!Tracked
  <1>7. KeysInv'
    BY <1>2, <1>4, <1>6 DEF KeysInv
  <1>8. QED
    BY <1>3, <1>6, <1>7 DEF Clients

\* While the server runs, no key loses its bucket to another client: a limit below the
\* number of keys is raised to it.
THEOREM NoKeyIsForgotten == Spec => NoKeyForgotten
  <1> DEFINE Inv == RateInv /\ RequestInv /\ KeysInv
  <1> DEFINE Keeps == auth /\ restarts' = restarts => \A k \in Keys : bucket[k] # None => bucket'[k] # None
  <1>1. Init => Inv
    BY RequestsStart, ServerStartsRate, KeysStart
  <1>2. Inv /\ [Next]_vars => Inv' /\ Keeps
    <2>1. SUFFICES ASSUME Inv, [Next]_vars PROVE KeysInv' /\ Keeps
      BY RequestsKept, RateKept
    <2>2. ASSUME NEW r \in Requests, NEW o \in Offers, NEW c \in Clients,
                 OverRate(r, o, c) \/ Busy(r, o, c) \/ Admit(r, o, c)
          PROVE  KeysInv' /\ Keeps
      <3>1. auth' = auth /\ (auth => c \in Keys)
        BY <2>2 DEF OverRate, Busy, Admit, Arrives
      <3>2. \E ok \in BOOLEAN : Rate!Acquire(c, ok)
        BY <2>2 DEF OverRate, Busy, Admit
      <3>3. QED
        BY <2>1, <3>1, <3>2, AcquireKeepsKeys
    <2>3. CASE auth' = auth /\ maxClients' = maxClients /\ bucket' = bucket
      BY <2>1, <2>3 DEF KeysInv
    <2>4. CASE Restart
      <3>1. restarts \in Nat /\ restarts' = restarts + 1
        BY <2>1, <2>4, BoundsAssumption DEF RequestInv, RequestTypeOK, Restart
      <3>2. auth' = auth /\ maxClients' = maxClients /\ \A c \in Clients : bucket'[c] = None
        BY <2>4 DEF Restart, Rate!Forget
      <3>3. QED
        BY <2>1, <3>1, <3>2 DEF KeysInv
    <2>5. ASSUME NEW r \in Requests, NEW o \in Offers, NEW c \in Clients, DeclaredTooLarge(r, o, c)
          PROVE  auth' = auth /\ maxClients' = maxClients /\ bucket' = bucket
      BY <2>5 DEF DeclaredTooLarge, rateVars
    <2>6. ASSUME NEW r \in Requests,
                 \/ Unauthorized(r) \/ StartThread(r) \/ QuotaStep(r) \/ QuotaAllows(r) \/ QuotaDenies(r)
                 \/ QuotaUnavailable(r) \/ Answer(r) \/ BodyTooLarge(r) \/ Cancel(r)
          PROVE  auth' = auth /\ maxClients' = maxClients /\ bucket' = bucket
      BY <2>6 DEF Unauthorized, StartThread, QuotaStep, QuotaAllows, QuotaDenies, QuotaUnavailable,
         Answer, BodyTooLarge, Cancel, Ends, rateVars
    <2>7. CASE Tick \/ Midnight \/ UNCHANGED vars
      BY <2>3, <2>7 DEF Tick, Rate!Tick, Midnight, vars, rateVars
    <2>8. QED
      BY <2>1, <2>2, <2>3, <2>4, <2>5, <2>6, <2>7 DEF Next
  <1>3. Inv /\ [Next]_vars => [Keeps]_vars
    BY <1>2
  <1> HIDE DEF Inv
  <1>4. Spec => [][auth /\ restarts' = restarts => \A k \in Keys : bucket[k] # None => bucket'[k] # None]_vars
    BY <1>1, <1>2, <1>3, PTL DEF Spec
  <1>5. QED
    BY <1>4 DEF NoKeyForgotten
=============================================================================
