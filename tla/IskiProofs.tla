---------------------------- MODULE IskiProofs ----------------------------
(***************************************************************************)
(* Proofs about IskiSources: for any ages, bounds, sources and numbers of  *)
(* overlapping loads, how old an answer may be, and what it says of it.    *)
(***************************************************************************)
EXTENDS IskiSources, TLAPS

\* What is written into the entry suits how it is going to be dated: the date an answer
\* gives, the age of a snapshot, the age of data that will be called fresh, and no dams
\* without rows.
Suits(mode, data, updated, stale, cap) ==
    /\ mode \in Modes /\ data \in Data /\ updated \in Nat \cup {None}
    /\ stale \in BOOLEAN /\ cap \in Nat \cup {None}
    /\ updated # None => updated - data.taken \in 0..Fetch
    /\ mode = "snapshot" =>
          /\ data.taken = setup.captured /\ updated = data.taken
          /\ cap # None /\ clock + cap <= data.taken + SnapshotAge
    /\ mode # "snapshot" /\ ~stale => clock <= data.taken + Fresh + Fetch
    /\ Valid(data)

\* The Worker stamps what it wrote no earlier than its download, and at most the longest
\* load later.
CopyInv ==
    copy # None =>
        /\ copy.stamp <= clock
        /\ copy.stamp - copy.data.taken \in 0..Fetch

LoadsInv == \A s \in Slots : loads[s] # None =>
                loads[s].began <= clock /\ clock <= loads[s].began + Fetch

\* Where the client is tells which sources have failed; what it holds back is usable.
CallInv ==
    /\ call.began <= clock
    /\ call.held # None =>
          /\ call.held.stamp - call.held.data.taken \in 0..Fetch
          /\ Valid(call.held.data)
    /\ call.stage \in {"relay", "relayWait"} => "relay" \in setup.configured
    /\ call.stage = "api" =>
          /\ "api" \in setup.configured
          /\ "relay" \in setup.configured => "relay" \in call.failed
    /\ call.stage = "direct" => setup.configured \subseteq call.failed
    /\ call.stage = "fallback" => Live \subseteq call.failed

\* The entry carries the ages it was loaded with, whenever it is looked at.
EntryInv ==
    entry # None =>
        /\ entry.at <= clock
        /\ entry.updated # None => entry.updated - entry.data.taken \in 0..Fetch
        /\ entry.mode = "snapshot" =>
              /\ entry.data.taken = setup.captured /\ entry.updated = entry.data.taken
              /\ entry.maxAge # None /\ entry.expires <= entry.maxAge
              /\ entry.maxAge <= setup.captured + SnapshotAge
              /\ clock <= setup.captured + SnapshotAge
        /\ entry.mode # "snapshot" /\ ~entry.stale =>
              /\ entry.at <= entry.data.taken + Fresh + Fetch
              /\ entry.expires <= entry.data.taken + Fresh + Fetch + TTL
        /\ Valid(entry.data)

IInv == TypeOK /\ CopyInv /\ LoadsInv /\ CallInv /\ EntryInv

EntryType == [mode : Modes, data : Data, updated : Nat \cup {None}, stale : BOOLEAN,
              at : Nat, expires : Nat, maxAge : Nat \cup {None}]
CallType == [stage : {"idle", "relay", "relayWait", "api", "direct", "fallback"},
             began : Nat, held : Copies \cup {None}, failed : SUBSET {"relay", "api", "direct"}]

-----------------------------------------------------------------------------
\* Nothing is cached and nobody loads at first.
LEMMA InitIsSound == Init => IInv
  <1> SUFFICES ASSUME Init PROVE IInv
    OBVIOUS
  <1>1. TypeOK
    <2>1. clock \in 0..MaxClock /\ call \in CallType
      BY AgesAreNat DEF Init, Idle, CallType
    <2>2. setup \in [kind : {"faults", "dams"}, configured : SUBSET {"relay", "api"},
                     captured : Nat \cup {None}]
      BY AgesAreNat DEF Init
    <2>3. loads \in [Slots -> [began : Nat, serves : BOOLEAN] \cup {None}]
      BY DEF Init
    <2>4. QED
      BY <2>1, <2>2, <2>3 DEF Init, TypeOK, CallType
  <1>2. CopyInv /\ LoadsInv /\ CallInv /\ EntryInv
    BY AgesAreNat DEF Init, CopyInv, LoadsInv, CallInv, EntryInv, Idle
  <1>3. QED
    BY <1>1, <1>2 DEF IInv

\* What a source's data becomes in the entry is what the entry must be.
LEMMA LoadedIsSound ==
    ASSUME IInv, NEW mode, NEW data, NEW updated, NEW stale, NEW cap,
           Suits(mode, data, updated, stale, cap), Loaded(mode, data, updated, stale, cap),
           UNCHANGED <<clock, setup>>
    PROVE  /\ entry' \in EntryType /\ EntryInv'
           /\ call' \in CallType /\ CallInv'
  <1> DEFINE age == IF cap = None THEN TTL ELSE Earlier(cap, TTL)
             limit == IF cap = None THEN None ELSE call.began + cap
  <1>1. entry' = [mode |-> mode, data |-> data, updated |-> updated, stale |-> stale, at |-> clock,
                  expires |-> call.began + age, maxAge |-> limit]
    BY DEF Loaded
  <1>2. clock \in Nat /\ call.began \in Nat /\ call.began <= clock /\ TTL \in Nat /\ data.taken \in Nat
    BY AgesAreNat DEF IInv, TypeOK, CallInv, Suits, Data
  <1>3. age \in Nat /\ age <= TTL /\ (cap # None => age <= cap)
    BY <1>2 DEF Suits, Earlier
  <1>4. limit \in Nat \cup {None} /\ (cap # None => limit = call.began + cap /\ limit # None)
    BY <1>2, AgesAreNat DEF Suits
  <1>5. entry' \in EntryType
    BY <1>1, <1>2, <1>3, <1>4 DEF Suits, EntryType
  <1>6. EntryInv'
    <2>1. entry'.at <= clock' /\ (entry'.updated # None => entry'.updated - entry'.data.taken \in 0..Fetch)
      BY <1>1, <1>2 DEF Suits
    <2>2. ASSUME mode = "snapshot"
          PROVE  /\ data.taken = setup.captured /\ updated = data.taken
                 /\ limit # None /\ call.began + age <= limit
                 /\ limit <= setup.captured + SnapshotAge
                 /\ clock <= setup.captured + SnapshotAge
      <3>1. cap \in Nat /\ cap # None /\ clock + cap <= data.taken + SnapshotAge
        BY <2>2 DEF Suits
      <3>2. QED
        BY <1>2, <1>3, <1>4, <2>2, <3>1, AgesAreNat DEF Suits
    <2>3. ASSUME mode # "snapshot", ~stale
          PROVE  /\ clock <= data.taken + Fresh + Fetch
                 /\ call.began + age <= data.taken + Fresh + Fetch + TTL
      BY <1>2, <1>3, <2>3, AgesAreNat DEF Suits
    <2>4. setup'.kind = "dams" => entry'.data.rows # {}
      BY <1>1 DEF Suits, Valid
    <2>5. QED
      BY <1>1, <2>1, <2>2, <2>3, <2>4 DEF EntryInv, Valid
  <1>7. call' = Idle
    BY DEF Loaded
  <1>8. call' \in CallType /\ CallInv'
    BY <1>2, <1>7 DEF Idle, CallType, CallInv
  <1>9. QED
    BY <1>5, <1>6, <1>8

\* A source that fails, or whose copy is held back, is counted among the failed ones
\* before its turn passes.
LEMMA PassIsSound ==
    ASSUME IInv, NEW source \in {"relay", "api", "direct"}, NEW held \in Copies \cup {None},
           IF source = "relay" THEN call.stage \in {"relay", "relayWait"} ELSE call.stage = source,
           held # None => held.stamp - held.data.taken \in 0..Fetch /\ Valid(held.data),
           Pass(source, held), UNCHANGED <<clock, setup>>
    PROVE  call' \in CallType /\ CallInv'
  <1>1. /\ call \in CallType /\ CallInv /\ setup.configured \subseteq {"relay", "api"}
    BY DEF IInv, TypeOK, CallType
  <1>2. call' = [stage |-> After(source), began |-> call.began, held |-> held,
                 failed |-> call.failed \cup {source}]
    BY <1>1 DEF Pass, CallType
  <1>3. After(source) \in {"api", "direct", "fallback"}
    BY DEF After
  <1>4. call' \in CallType
    BY <1>1, <1>2, <1>3 DEF CallType
  <1>5. call'.began <= clock' /\ (call'.held # None =>
            call'.held.stamp - call'.held.data.taken \in 0..Fetch /\ (Valid(held.data))')
    BY <1>1, <1>2 DEF CallInv, Valid
  <1>6. /\ After(source) = "api" => source = "relay" /\ "api" \in setup.configured
        /\ After(source) = "direct" =>
              \/ source = "relay" /\ "api" \notin setup.configured
              \/ source = "api"
        /\ After(source) = "fallback" => source = "direct"
    BY DEF After
  <1>7. /\ call'.stage \notin {"relay", "relayWait"}
        /\ call'.stage = "api" => "api" \in setup.configured /\ "relay" \in call'.failed
        /\ call'.stage = "direct" => setup.configured \subseteq call'.failed
        /\ call'.stage = "fallback" => Live \subseteq call'.failed
    BY <1>1, <1>2, <1>3, <1>6 DEF CallInv, Live
  <1>8. QED
    BY <1>2, <1>4, <1>5, <1>7 DEF CallInv, Live, Valid

\* An entry nobody touches is as good as it was.
LEMMA EntryKept ==
    ASSUME IInv, UNCHANGED <<clock, setup, entry>>
    PROVE  entry' \in EntryType \cup {None} /\ EntryInv'
  BY DEF IInv, TypeOK, EntryInv, EntryType, Valid

\* A call nobody touches is as good as it was.
LEMMA CallKept ==
    ASSUME IInv, UNCHANGED <<clock, setup, call>>
    PROVE  call' \in CallType /\ CallInv'
  BY DEF IInv, TypeOK, CallInv, CallType, Live, Valid

\* The body of a relay answer, from the copy or from a load.
LEMMA TakeIsSound ==
    ASSUME IInv, NEW data \in Data, NEW stamp \in Nat \cup {None}, NEW status,
           call.stage \in {"relay", "relayWait"},
           stamp # None => stamp - data.taken \in 0..Fetch,
           status = "stale" => stamp # None,
           status # "stale" => clock <= data.taken + Fresh + Fetch,
           Take(data, stamp, status), UNCHANGED <<clock, setup>>
    PROVE  /\ entry' \in EntryType \cup {None} /\ EntryInv'
           /\ call' \in CallType /\ CallInv'
  <1>1. CASE ~Valid(data) /\ Pass("relay", None) /\ UNCHANGED entry
    BY <1>1, EntryKept, PassIsSound
  <1>2. CASE Valid(data) /\ status = "stale" /\ Pass("relay", [data |-> data, stamp |-> stamp])
             /\ UNCHANGED entry
    <2> DEFINE held == [data |-> data, stamp |-> stamp]
    <2>1. held \in Copies \cup {None} /\ held.stamp - held.data.taken \in 0..Fetch /\ held.data = data
      BY <1>2 DEF Copies
    <2>2. Valid(held.data)
      BY <1>2, <2>1
    <2>3. Pass("relay", held)
      BY <1>2
    <2> HIDE DEF held
    <2>4. call' \in CallType /\ CallInv'
      BY <2>1, <2>2, <2>3, PassIsSound
    <2>5. QED
      BY <1>2, <2>4, EntryKept
  <1>3. CASE Valid(data) /\ status # "stale" /\ Loaded(RelayMode(data), data, stamp, FALSE, None)
    <2>1. RelayMode(data) \in Modes /\ RelayMode(data) # "snapshot"
      BY DEF RelayMode, Modes
    <2>2. Suits(RelayMode(data), data, stamp, FALSE, None)
      BY <1>3, <2>1 DEF Suits
    <2>3. QED
      BY <1>3, <2>2, LoadedIsSound
  <1>4. QED
    BY <1>1, <1>2, <1>3 DEF Take

\* The answer of a load that somebody waited for has no date, and is taken as fresh.
LEMMA AnswerIsSound ==
    ASSUME IInv, NEW data \in Data, call.stage = "relayWait", clock <= data.taken + Fresh + Fetch,
           Take(data, None, "none"), UNCHANGED <<clock, setup>>
    PROVE  /\ entry' \in EntryType \cup {None} /\ EntryInv'
           /\ call' \in CallType /\ CallInv'
  <1> DEFINE stamp == None
             status == "none"
  <1>1. stamp \in Nat \cup {None} /\ stamp = None /\ status # "stale" /\ Take(data, stamp, status)
    OBVIOUS
  <1> HIDE DEF stamp, status
  <1>2. call.stage \in {"relay", "relayWait"}
    OBVIOUS
  <1>3. QED
    BY <1>1, <1>2, TakeIsSound

-----------------------------------------------------------------------------
(* Every action *)

LoadType == [began : Nat, serves : BOOLEAN] \cup {None}

\* What an action of the client or of the Worker leaves, put together.
LEMMA Together ==
    ASSUME IInv, UNCHANGED <<clock, setup>>,
           copy' \in Copies \cup {None}, CopyInv',
           loads' \in [Slots -> LoadType], LoadsInv',
           call' \in CallType, CallInv',
           entry' \in EntryType \cup {None}, EntryInv'
    PROVE  IInv'
  BY DEF IInv, TypeOK, CallType, EntryType, LoadType

\* A copy nobody touches is as good as it was.
LEMMA CopyKept ==
    ASSUME IInv, UNCHANGED <<clock, copy>>
    PROVE  copy' \in Copies \cup {None} /\ CopyInv'
  BY DEF IInv, TypeOK, CopyInv

\* A load starts in a free slot, with the time of now.
LEMMA LoadStarts ==
    ASSUME IInv, NEW serves \in BOOLEAN, NEW s \in Slots,
           loads' = [loads EXCEPT ![s] = Load(serves)], UNCHANGED clock
    PROVE  loads' \in [Slots -> LoadType] /\ LoadsInv'
  <1>1. Load(serves) \in LoadType /\ Load(serves).began = clock /\ clock \in Nat /\ Fetch \in Nat
    BY AgesAreNat DEF IInv, TypeOK, Load, LoadType
  <1>2. QED
    BY <1>1 DEF IInv, TypeOK, LoadsInv, LoadType

\* Loads nobody touches are as good as they were.
LEMMA LoadsKept ==
    ASSUME IInv, UNCHANGED <<clock, loads>>
    PROVE  loads' \in [Slots -> LoadType] /\ LoadsInv'
  BY DEF IInv, TypeOK, LoadsInv, LoadType

\* A call begins with nothing tried and nothing held back.
LEMMA BeginIsSound == IInv /\ Begin => IInv'
  <1> SUFFICES ASSUME IInv, Begin PROVE IInv'
    OBVIOUS
  <1>1. call' \in CallType /\ CallInv'
    <2>1. First \in {"relay", "api", "direct"} /\ clock \in Nat
          /\ setup.configured \subseteq {"relay", "api"}
      BY AgesAreNat DEF First, After, IInv, TypeOK
    <2>2. /\ First = "relay" => "relay" \in setup.configured
          /\ First = "api" => "api" \in setup.configured /\ "relay" \notin setup.configured
          /\ First = "direct" => setup.configured = {}
      BY <2>1 DEF First, After
    <2>3. QED
      BY <2>1, <2>2 DEF Begin, CallType, CallInv
  <1>2. QED
    BY <1>1, CopyKept, LoadsKept, EntryKept, Together DEF Begin

\* The Worker serves its copy: a fresh one becomes the entry, an old one is held back.
LEMMA ServeCopyIsSound == IInv /\ ServeCopy => IInv'
  <1> SUFFICES ASSUME IInv, ServeCopy PROVE IInv'
    OBVIOUS
  <1> DEFINE status == IF CopyFresh THEN "fresh" ELSE "stale"
  <1>1. loads' \in [Slots -> LoadType] /\ LoadsInv'
    <2>1. CASE UNCHANGED loads
      BY <2>1, LoadsKept DEF ServeCopy
    <2>2. CASE \E s \in Free : loads' = [loads EXCEPT ![s] = Load(FALSE)]
      BY <2>2, LoadStarts DEF ServeCopy, Free
    <2>3. QED
      BY <2>1, <2>2 DEF ServeCopy
  <1>2. /\ entry' \in EntryType \cup {None} /\ EntryInv'
        /\ call' \in CallType /\ CallInv'
    <2>1. /\ copy \in Copies /\ copy.data \in Data /\ copy.stamp \in Nat
          /\ copy.stamp - copy.data.taken \in 0..Fetch /\ copy.data.taken \in Nat /\ clock \in Nat
      BY AgesAreNat DEF ServeCopy, IInv, TypeOK, CopyInv, Copies, Data
    <2>2. status # "stale" => clock <= copy.data.taken + Fresh + Fetch
      BY <2>1, AgesAreNat DEF CopyFresh
    <2>3. QED
      <3>1. call.stage \in {"relay", "relayWait"} /\ UNCHANGED <<clock, setup>>
            /\ Take(copy.data, copy.stamp, status)
        BY DEF ServeCopy
      <3>2. copy.stamp # None
        BY <2>1, AgesAreNat
      <3> HIDE DEF status
      <3>3. QED
        BY <2>1, <2>2, <3>1, <3>2, TakeIsSound
  <1>3. QED
    BY <1>1, <1>2, CopyKept, Together DEF ServeCopy

\* A load for a caller begins now.
LEMMA LoadForCallerIsSound == IInv /\ LoadForCaller => IInv'
  <1> SUFFICES ASSUME IInv, LoadForCaller PROVE IInv'
    OBVIOUS
  <1>1. loads' \in [Slots -> LoadType] /\ LoadsInv'
    BY LoadStarts DEF LoadForCaller, Free
  <1>2. call' \in CallType /\ CallInv'
    BY DEF LoadForCaller, IInv, TypeOK, CallInv, CallType, Live, Valid
  <1>3. QED
    BY <1>1, <1>2, CopyKept, EntryKept, Together DEF LoadForCaller

\* A load for nobody begins now.
LEMMA WarmUpIsSound == IInv /\ WarmUp => IInv'
  <1> SUFFICES ASSUME IInv, WarmUp PROVE IInv'
    OBVIOUS
  <1>1. loads' \in [Slots -> LoadType] /\ LoadsInv'
    BY LoadStarts DEF WarmUp, Free
  <1>2. QED
    BY <1>1, CopyKept, CallKept, EntryKept, Together DEF WarmUp

\* A lost answer leaves the Worker's load to end without a caller.
LEMMA RelayLostIsSound == IInv /\ RelayLost => IInv'
  <1> SUFFICES ASSUME IInv, RelayLost PROVE IInv'
    OBVIOUS
  <1>1. loads' \in [Slots -> LoadType] /\ LoadsInv'
    <2>1. ASSUME NEW s \in Slots, loads[s] # None
          PROVE  [loads[s] EXCEPT !.serves = FALSE] \in LoadType
                 /\ [loads[s] EXCEPT !.serves = FALSE].began = loads[s].began
      BY <2>1 DEF IInv, TypeOK, LoadType
    <2>2. QED
      BY <2>1 DEF RelayLost, IInv, LoadsInv, LoadType
  <1>2. call' \in CallType /\ CallInv'
    <2>1. CASE Pass("relay", None)
      BY <2>1, PassIsSound DEF RelayLost
    <2>2. CASE call.stage = "relayWait" /\ call' = [call EXCEPT !.stage = "relay"]
      BY <2>2 DEF RelayLost, IInv, TypeOK, CallInv, CallType, Live, Valid
    <2>3. QED
      BY <2>1, <2>2 DEF RelayLost
  <1>3. QED
    BY <1>1, <1>2, CopyKept, EntryKept, Together DEF RelayLost

\* What a load brings was taken when the load began, at most Fetch ago.
LEMMA LoadEndsIsSound == ASSUME IInv, NEW s \in Slots, LoadEnds(s) PROVE IInv'
  <1>1. loads' \in [Slots -> LoadType] /\ LoadsInv'
    BY DEF LoadEnds, IInv, TypeOK, LoadsInv, LoadType
  <1>2. /\ loads[s].began \in Nat /\ clock \in Nat /\ Fetch \in Nat
        /\ loads[s].began <= clock /\ clock <= loads[s].began + Fetch
    BY AgesAreNat DEF LoadEnds, IInv, TypeOK, LoadsInv
  <1> DEFINE waited == loads[s].serves /\ call.stage = "relayWait"
  <1>3. PICK iski \in Offers, edevlet \in Offers :
          LET from == LoadRelayResponse(iski, edevlet)
          IN  \/ /\ from = None
                 /\ IF waited THEN Pass("relay", None) ELSE UNCHANGED call
                 /\ UNCHANGED <<copy, entry>>
              \/ /\ from # None
                 /\ \E rows \in IF from = "iski" /\ iski = "empty" THEN {{}} ELSE SUBSET Faults \ {{}} :
                      LET data == [taken |-> loads[s].began, from |-> from, rows |-> rows]
                      IN  /\ copy' \in {copy, [data |-> data, stamp |-> clock]}
                          /\ IF waited THEN Take(data, None, "none") ELSE UNCHANGED <<call, entry>>
    BY DEF LoadEnds
  <1> DEFINE from == LoadRelayResponse(iski, edevlet)
  <1>4. CASE from = None
    <2>1. UNCHANGED <<clock, setup, copy, entry>> /\ IF waited THEN Pass("relay", None) ELSE UNCHANGED call
      BY <1>3, <1>4 DEF LoadEnds
    <2>2. call' \in CallType /\ CallInv'
      BY <2>1, CallKept, PassIsSound
    <2>3. QED
      BY <1>1, <2>1, <2>2, CopyKept, EntryKept, Together
  <1>5. CASE from # None
    <2>1. from \in Upstreams
      BY <1>5 DEF LoadRelayResponse, Upstreams
    <2>2. \E data \in Data :
             /\ data.taken = loads[s].began
             /\ copy' \in {copy, [data |-> data, stamp |-> clock]}
             /\ IF waited THEN Take(data, None, "none") ELSE UNCHANGED <<call, entry>>
      <3>1. PICK rows \in SUBSET Faults :
               LET data == [taken |-> loads[s].began, from |-> from, rows |-> rows]
               IN  /\ copy' \in {copy, [data |-> data, stamp |-> clock]}
                   /\ IF waited THEN Take(data, None, "none") ELSE UNCHANGED <<call, entry>>
        BY <1>3, <1>5
      <3>2. [taken |-> loads[s].began, from |-> from, rows |-> rows] \in Data
        BY <1>2, <2>1 DEF Data
      <3>3. QED
        BY <3>1, <3>2
    <2>3. PICK data \in Data :
             /\ data.taken = loads[s].began
             /\ copy' \in {copy, [data |-> data, stamp |-> clock]}
             /\ IF waited THEN Take(data, None, "none") ELSE UNCHANGED <<call, entry>>
      BY <2>2
    <2>4. copy' \in Copies \cup {None} /\ CopyInv'
      <3>1. CASE copy' = copy
        BY <3>1, CopyKept DEF LoadEnds
      <3>2. CASE copy' = [data |-> data, stamp |-> clock]
        <4>1. copy' \in Copies /\ copy'.stamp = clock /\ copy'.data.taken = loads[s].began
          BY <1>2, <2>3, <3>2 DEF Copies
        <4>2. clock - loads[s].began \in 0..Fetch
          BY <1>2
        <4>3. QED
          BY <1>2, <4>1, <4>2 DEF CopyInv, LoadEnds
      <3>3. QED
        BY <2>3, <3>1, <3>2
    <2>5. /\ entry' \in EntryType \cup {None} /\ EntryInv'
          /\ call' \in CallType /\ CallInv'
      <3>1. CASE waited
        <4>1. Take(data, None, "none") /\ UNCHANGED <<clock, setup>> /\ call.stage = "relayWait"
          BY <2>3, <3>1 DEF LoadEnds
        <4>2. clock <= data.taken + Fresh + Fetch
          BY <1>2, <2>3, AgesAreNat
        <4>3. QED
          BY <4>1, <4>2, AnswerIsSound
      <3>2. CASE ~waited
        BY <2>3, <3>2, CallKept, EntryKept DEF LoadEnds
      <3>3. QED
        BY <3>1, <3>2
    <2>6. QED
      BY <1>1, <2>4, <2>5, Together DEF LoadEnds
  <1>6. QED
    BY <1>4, <1>5

\* What ISKI itself answers is of this moment.
LEMMA AskIsSound == ASSUME IInv, NEW source \in {"api", "direct"}, Ask(source) PROVE IInv'
  <1>1. clock \in Nat /\ Fresh \in Nat /\ Fetch \in Nat
    BY AgesAreNat DEF IInv, TypeOK
  <1>2. CASE \E rows \in SUBSET Faults :
               LET data == [taken |-> clock, from |-> "iski", rows |-> rows]
               IN  /\ Valid(data)
                   /\ Loaded(IF source = "api" THEN "official_api" ELSE "live", data, None, FALSE, None)
    <2>1. PICK rows \in SUBSET Faults :
             LET data == [taken |-> clock, from |-> "iski", rows |-> rows]
             IN  /\ Valid(data)
                 /\ Loaded(IF source = "api" THEN "official_api" ELSE "live", data, None, FALSE, None)
      BY <1>2
    <2> DEFINE data == [taken |-> clock, from |-> "iski", rows |-> rows]
               mode == IF source = "api" THEN "official_api" ELSE "live"
    <2>2. /\ data \in Data /\ data.taken = clock /\ mode \in Modes /\ mode # "snapshot"
          /\ Valid(data) /\ Loaded(mode, data, None, FALSE, None)
      BY <1>1, <2>1 DEF Data, Upstreams, Modes
    <2> HIDE DEF data, mode
    <2>3. Suits(mode, data, None, FALSE, None)
      BY <1>1, <2>2 DEF Suits
    <2>4. QED
      BY <2>2, <2>3, LoadedIsSound, CopyKept, LoadsKept, Together DEF Ask
  <1>3. CASE Pass(source, call.held) /\ UNCHANGED entry
    <2>1. /\ call.held \in Copies \cup {None}
          /\ call.held # None => call.held.stamp - call.held.data.taken \in 0..Fetch /\ Valid(call.held.data)
      BY DEF IInv, TypeOK, CallInv
    <2>2. call' \in CallType /\ CallInv'
      BY <1>3, <2>1, PassIsSound DEF Ask
    <2>3. QED
      BY <1>3, <2>2, EntryKept, CopyKept, LoadsKept, Together DEF Ask
  <1>4. QED
    BY <1>2, <1>3 DEF Ask

\* The old copy is dated, and called stale; a snapshot takes its age into the cache.
LEMMA FallBackIsSound == IInv /\ FallBack => IInv'
  <1> SUFFICES ASSUME IInv, FallBack PROVE IInv'
    OBVIOUS
  <1>1. UNCHANGED <<clock, setup, copy, loads>> /\ clock \in Nat /\ SnapshotAge \in Nat
    BY AgesAreNat DEF FallBack, IInv, TypeOK
  <1>2. CASE /\ call.held # None
             /\ Loaded(RelayMode(call.held.data), call.held.data, call.held.stamp, TRUE, None)
    <2>1. /\ call.held \in Copies /\ call.held.stamp - call.held.data.taken \in 0..Fetch
          /\ Valid(call.held.data)
      BY <1>2 DEF IInv, TypeOK, CallInv
    <2>2. RelayMode(call.held.data) \in Modes /\ RelayMode(call.held.data) # "snapshot"
      BY DEF RelayMode, Modes
    <2>3. Suits(RelayMode(call.held.data), call.held.data, call.held.stamp, TRUE, None)
      BY <2>1, <2>2 DEF Suits, Copies
    <2>4. QED
      BY <1>1, <1>2, <2>3, LoadedIsSound, CopyKept, LoadsKept, Together
  <1>3. CASE /\ call.held = None /\ SnapshotUsable
             /\ \E rows \in SUBSET Faults :
                  LET data == [taken |-> setup.captured, from |-> "iski", rows |-> rows]
                  IN  /\ Valid(data)
                      /\ Loaded("snapshot", data, setup.captured, FALSE,
                                setup.captured + SnapshotAge - clock)
    <2>1. /\ setup.captured \in Nat /\ setup.captured <= clock
          /\ clock - setup.captured <= SnapshotAge
      BY <1>3 DEF SnapshotUsable, IInv, TypeOK
    <2> DEFINE cap == setup.captured + SnapshotAge - clock
    <2>2. cap \in Nat /\ cap # None /\ clock + cap = setup.captured + SnapshotAge
      BY <1>1, <2>1, AgesAreNat
    <2>3. PICK rows \in SUBSET Faults :
             LET data == [taken |-> setup.captured, from |-> "iski", rows |-> rows]
             IN  Valid(data) /\ Loaded("snapshot", data, setup.captured, FALSE, cap)
      BY <1>3
    <2> DEFINE data == [taken |-> setup.captured, from |-> "iski", rows |-> rows]
    <2>4. data \in Data /\ data.taken = setup.captured /\ "snapshot" \in Modes
      BY <2>1 DEF Data, Upstreams, Modes
    <2>5. Valid(data) /\ Loaded("snapshot", data, setup.captured, FALSE, cap)
      BY <2>3
    <2>6. setup.captured - data.taken \in 0..Fetch
      BY <2>1, <2>4, AgesAreNat
    <2> HIDE DEF data, cap
    <2>7. Suits("snapshot", data, setup.captured, FALSE, cap)
      BY <1>1, <2>1, <2>2, <2>4, <2>5, <2>6 DEF Suits
    <2>8. QED
      BY <1>1, <2>5, <2>7, LoadedIsSound, CopyKept, LoadsKept, Together
  <1>4. CASE call' = Idle /\ UNCHANGED entry
    <2>1. call' \in CallType /\ CallInv'
      BY <1>1, <1>4 DEF Idle, CallType, CallInv
    <2>2. QED
      BY <1>1, <1>4, <2>1, EntryKept, CopyKept, LoadsKept, Together
  <1>5. QED
    BY <1>2, <1>3, <1>4 DEF FallBack

\* Time lets no load pass its bound, and drops an entry no later than its cap.
LEMMA TickIsSound == IInv /\ Tick => IInv'
  <1> SUFFICES ASSUME IInv, Tick PROVE IInv'
    OBVIOUS
  <1>1. /\ clock \in Nat /\ clock' = clock + 1 /\ clock' \in 0..MaxClock
        /\ Fetch \in Nat /\ UNCHANGED <<setup, loads, call>>
    BY AgesAreNat DEF Tick, IInv, TypeOK
  <1>2. copy' \in Copies \cup {None} /\ CopyInv'
    <2>1. copy' \in {copy, None} /\ copy \in Copies \cup {None}
      BY DEF Tick, IInv, TypeOK
    <2>2. copy # None => copy.stamp \in Nat
      BY <2>1 DEF Copies
    <2>3. QED
      BY <1>1, <2>1, <2>2 DEF IInv, CopyInv
  <1>3. LoadsInv'
    <2>1. ASSUME NEW s \in Slots, loads[s] # None
          PROVE  loads[s].began <= clock' /\ clock' <= loads[s].began + Fetch
      <3>1. loads[s].began \in Nat /\ loads[s].began <= clock /\ clock < loads[s].began + Fetch
        BY <2>1 DEF Tick, IInv, TypeOK, LoadsInv
      <3>2. QED
        BY <1>1, <3>1
    <2>2. QED
      BY <1>1, <2>1 DEF LoadsInv
  <1>4. call \in CallType /\ CallInv'
    <2>1. call \in CallType /\ call.began \in Nat
      BY DEF IInv, TypeOK, CallType
    <2>2. QED
      BY <1>1, <2>1 DEF IInv, CallInv, Live, Valid
  <1>5. entry' \in EntryType \cup {None} /\ EntryInv'
    <2>1. CASE entry' = None
      BY <2>1 DEF EntryInv
    <2>2. CASE entry' # None
      <3>1. /\ entry' = entry /\ entry \in EntryType
            /\ clock' < entry.expires \/ clock' <= StaleDeadline
        BY <1>1, <2>2, AgesAreNat DEF Tick, IInv, TypeOK, EntryType, StaleDeadline, Earlier
      <3>2. entry.at \in Nat /\ entry.expires \in Nat /\ StaleIfError \in Nat
        BY <3>1, AgesAreNat DEF EntryType
      <3>3. ASSUME entry.mode = "snapshot"
            PROVE  clock' <= setup.captured + SnapshotAge
        <4>1. /\ entry.maxAge # None /\ entry.expires <= entry.maxAge
              /\ entry.maxAge <= setup.captured + SnapshotAge
          BY <2>2, <3>1, <3>3 DEF IInv, EntryInv
        <4>2. entry.maxAge \in Nat /\ SnapshotAge \in Nat /\ setup.captured \in Nat
          BY <2>2, <3>1, <3>3, <4>1, AgesAreNat DEF EntryType, Data, IInv, EntryInv
        <4>3. StaleDeadline <= entry.maxAge /\ StaleDeadline \in Nat
          BY <3>2, <4>1, <4>2 DEF StaleDeadline, Earlier
        <4>4. QED
          BY <1>1, <3>1, <3>2, <4>1, <4>2, <4>3
      <3>4. entry.at <= clock'
        BY <1>1, <2>2, <3>1, <3>2 DEF IInv, EntryInv
      <3>5. QED
        BY <1>1, <2>2, <3>1, <3>3, <3>4 DEF IInv, EntryInv, Valid
    <2>3. QED
      BY <2>1, <2>2
  <1>6. QED
    BY <1>1, <1>2, <1>3, <1>4, <1>5 DEF IInv, TypeOK, CallType, EntryType

\* An entry that is evicted leaves nothing to be answered from.
LEMMA EntryEvictedIsSound == IInv /\ EntryEvicted => IInv'
  <1> SUFFICES ASSUME IInv, EntryEvicted PROVE IInv'
    OBVIOUS
  <1>1. EntryInv' /\ entry' \in EntryType \cup {None}
    BY DEF EntryEvicted, EntryInv
  <1>2. QED
    BY <1>1, CopyKept, LoadsKept, CallKept, Together DEF EntryEvicted

\* Every step keeps the invariant.
LEMMA NextIsSound == IInv /\ [Next]_vars => IInv'
  <1> SUFFICES ASSUME IInv, [Next]_vars PROVE IInv'
    OBVIOUS
  <1>1. CASE UNCHANGED vars
    BY <1>1, Together, CopyKept, LoadsKept, CallKept, EntryKept DEF vars
  <1>2. ASSUME NEW s \in Slots, LoadEnds(s) PROVE IInv'
    BY <1>2, LoadEndsIsSound
  <1>3. CASE AskApi \/ AskDirect
    BY <1>3, AskIsSound DEF AskApi, AskDirect
  <1>4. QED
    BY <1>1, <1>2, <1>3, BeginIsSound, ServeCopyIsSound, LoadForCallerIsSound, WarmUpIsSound,
       RelayLostIsSound, FallBackIsSound, EntryEvictedIsSound, TickIsSound DEF Next

\* Everything below holds of every behaviour of the Worker, the client and the cache.
THEOREM Sound == Spec => []IInv
  BY InitIsSound, NextIsSound, PTL DEF Spec

-----------------------------------------------------------------------------
(* What the entry's ages, and the stages of the client, give *)

\* Every variable keeps its type: in particular the cap a snapshot puts on its cache
\* entry (iski.py, SourceLoadResult.max_cache_age_seconds) is never below zero.
COROLLARY TypeCorrect == Spec => []TypeOK
  <1>1. IInv => TypeOK
    BY DEF IInv
  <1>2. QED
    BY <1>1, Sound, PTL

\* An answer called fresh is younger than the sum of the Worker's age, its longest load
\* and the cache's age, for any of the three, and the date it gives is that of its data.
THEOREM AgeBound == Spec => []AgeIsTold
  <1>1. IInv => AgeIsTold
    <2> SUFFICES ASSUME IInv, entry # None PROVE AgeIsTold
      BY DEF AgeIsTold
    <2>1. /\ entry \in EntryType /\ entry.data \in Data /\ entry.data.taken \in Nat
          /\ entry.at \in Nat /\ entry.expires \in Nat /\ clock \in Nat
          /\ Fresh \in Nat /\ Fetch \in Nat /\ TTL \in Nat /\ TTL > 0
      BY AgesAreNat DEF IInv, TypeOK, EntryType, Data
    <2>2. ASSUME Status = "fresh" PROVE clock - entry.data.taken < Fresh + Fetch + TTL
      <3>1. ~AfterError /\ ~entry.stale /\ entry.mode # "snapshot"
        BY <2>2 DEF Status
      <3>2. /\ entry.at <= entry.data.taken + Fresh + Fetch
            /\ entry.expires <= entry.data.taken + Fresh + Fetch + TTL
        BY <3>1 DEF IInv, EntryInv
      <3>3. clock < entry.expires \/ clock = entry.at
        BY <3>1 DEF AfterError, Hit
      <3>4. QED
        BY <2>1, <3>2, <3>3
    <2>3. QED
      BY <2>2 DEF AgeIsTold, IInv, EntryInv
  <1>2. QED
    BY <1>1, Sound, PTL

\* A snapshot past its age is never what the cache would answer with, whatever the cache's
\* own age and its patience with failing loads.
THEOREM SnapshotBound == Spec => []SnapshotWithinAge
  <1>1. IInv => SnapshotWithinAge
    <2> SUFFICES ASSUME IInv, entry # None, entry.mode = "snapshot"
                 PROVE  clock - setup.captured <= SnapshotAge
      BY DEF SnapshotWithinAge
    <2>1. clock <= setup.captured + SnapshotAge /\ entry.data.taken = setup.captured
      BY DEF IInv, EntryInv
    <2>2. clock \in Nat /\ setup.captured \in Nat /\ SnapshotAge \in Nat
      BY <2>1, AgesAreNat DEF IInv, TypeOK, Data
    <2>3. QED
      BY <2>1, <2>2
  <1>2. QED
    BY <1>1, Sound, PTL

\* The client turns to what is old only after every configured live source failed it.
THEOREM LastResortHolds == Spec => LastResort
  <1> DEFINE Turn == entry' \notin {entry, None} /\ (entry'.stale \/ entry'.mode = "snapshot")
                       => Live \subseteq call.failed /\ (entry'.mode = "snapshot" => call.held = None)
  <1>1. IInv /\ [Next]_vars => [Turn]_vars
    <2> SUFFICES ASSUME IInv, Next, entry' \notin {entry, None},
                        entry'.stale \/ entry'.mode = "snapshot"
                 PROVE  Live \subseteq call.failed /\ (entry'.mode = "snapshot" => call.held = None)
      OBVIOUS
    <2>1. ASSUME NEW data, NEW stamp, NEW status, Take(data, stamp, status) PROVE FALSE
      <3>1. Loaded(RelayMode(data), data, stamp, FALSE, None)
        BY <2>1 DEF Take
      <3>2. ~entry'.stale /\ entry'.mode = RelayMode(data)
        BY <3>1 DEF Loaded
      <3>3. QED
        BY <3>2 DEF RelayMode
    <2>2. ~ServeCopy
      BY <2>1 DEF ServeCopy
    <2>3. ASSUME NEW s \in Slots, LoadEnds(s) PROVE FALSE
      BY <2>1, <2>3 DEF LoadEnds
    <2>4. ASSUME NEW source \in {"api", "direct"}, Ask(source) PROVE FALSE
      <3>1. PICK rows :
              Loaded(IF source = "api" THEN "official_api" ELSE "live",
                     [taken |-> clock, from |-> "iski", rows |-> rows], None, FALSE, None)
        BY <2>4 DEF Ask
      <3>2. ~entry'.stale /\ entry'.mode # "snapshot"
        BY <3>1 DEF Loaded
      <3>3. QED
        BY <3>2
    <2>5. CASE FallBack
      <3>1. Live \subseteq call.failed
        BY <2>5 DEF FallBack, IInv, CallInv
      <3>2. entry'.mode = "snapshot" => call.held = None
        BY <2>5 DEF FallBack, Loaded, RelayMode
      <3>3. QED
        BY <3>1, <3>2
    <2>6. QED
      BY <2>2, <2>3, <2>4, <2>5 DEF Next, Begin, LoadForCaller, WarmUp, RelayLost, EntryEvicted, Tick,
                                         AskApi, AskDirect
  <1> HIDE DEF Turn
  <1>2. Spec => [][Turn]_vars
    BY <1>1, Sound, PTL DEF Spec
  <1>3. QED
    BY <1>2 DEF LastResort, Turn

\* An answer that is stale says so, one that lacks numbers or places says that, and the
\* dams are never none.
THEOREM OwnsUp == Spec => []AnswerOwnsUp
  <1>1. IInv => AnswerOwnsUp
    <2> SUFFICES ASSUME IInv, entry # None PROVE AnswerOwnsUp
      BY DEF AnswerOwnsUp
    <2>1. entry.mode \in Modes /\ entry.data.rows \subseteq Faults /\ Valid(entry.data)
      BY DEF IInv, TypeOK, Data, EntryInv
    <2>2. Status = "stale" => Warned \cap {"snapshot", "relay copy stale", "cached"} # {}
      BY DEF Status, Warned
    <2>3. setup.kind = "dams" => DamOccupancy(Faults) # {}
      BY <2>1 DEF DamOccupancy, Valid
    <2>4. ASSUME NEW f \in entry.data.rows, Warned = {}
          PROVE  /\ ActiveFaults({f}) # {} /\ FaultByNumber(f) # {}
                 /\ entry.mode # "official_api" => NearbyFaults({f}) # {}
      <3>1. entry.mode \in {"relay_iski", "official_api", "live"}
        BY <2>1, <2>4 DEF Warned, Modes
      <3>2. FaultRow(f) \in FaultRows /\ FaultRow(f).fault = f
        BY DEF FaultRows, FaultRow
      <3>3. FaultRow(f).number /\ (entry.mode # "official_api" => FaultRow(f).center)
        BY <3>1 DEF FaultRow
      <3>4. QED
        BY <3>2, <3>3 DEF ActiveFaults, FaultByNumber, NearbyFaults
    <2>5. QED
      BY <2>2, <2>3, <2>4 DEF AnswerOwnsUp
  <1>2. QED
    BY <1>1, Sound, PTL
=============================================================================
