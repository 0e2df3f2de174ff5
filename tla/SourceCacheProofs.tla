------------------------- MODULE SourceCacheProofs -------------------------
(***************************************************************************)
(* Proofs about SourceCache, for every number of callers, keys and locks   *)
(* and all windows.                                                        *)
(***************************************************************************)
EXTENDS SourceCache, FiniteSetTheorems, SequenceTheorems, TLAPS

-----------------------------------------------------------------------------
\* A call knows its key and its lock exactly while it is under way.
CallsOK ==
    \A c \in Callers :
        /\ pc[c] = "idle" => key[c] = None /\ lock[c] = None
        /\ pc[c] # "idle" => key[c] \in Keys /\ lock[c] \in Locks

TypeInv == TypeOK /\ CallsOK

\* Lock objects in the registry are lock objects.
LEMMA LocksForIsLock ==
    ASSUME TypeOK, NEW k \in Keys
    PROVE  LocksFor(k) \subseteq Locks
  BY DEF LocksFor, TypeOK

\* Dropping one position of a sequence leaves a sequence of the same elements.
LEMMA RemoveAtIsSeq ==
    ASSUME NEW S, NEW s \in Seq(S), NEW p \in DOMAIN s
    PROVE  RemoveAt(s, p) \in Seq(S)
  <1>1. p \in 1..Len(s)
    BY LenProperties
  <1>2. SubSeq(s, 1, p-1) \in Seq(S)
    BY <1>1, SubSeqProperties
  <1>3. SubSeq(s, p+1, Len(s)) \in Seq(S)
    BY <1>1, SubSeqProperties
  <1>4. QED
    BY <1>2, <1>3, ConcatProperties DEF RemoveAt

\* What a load stores is an entry.
LEMMA LoadedEntryType ==
    ASSUME TypeInv, NEW c \in Callers, pc[c] = "loading", NEW cap \in Caps
    PROVE  LoadedEntry(c, cap) \in Entry
  <1>1. since[c] \in Nat /\ TTL[key[c]] \in Nat
    BY WindowsAssumption DEF TypeInv, TypeOK, CallsOK
  <1>2. CASE cap = None
    BY <1>1, <1>2 DEF LoadedEntry, Entry
  <1>3. CASE cap # None
    <2>1. cap \in Int
      BY <1>3, CapsAssumption
    <2>2. since[c] + Max2(0, cap) \in Nat
      BY <1>1, <2>1 DEF Max2
    <2>3. QED
      BY <1>1, <1>3, <2>2, CapsAssumption DEF LoadedEntry, Entry, Min2
  <1>4. QED
    BY <1>2, <1>3

-----------------------------------------------------------------------------
\* Every state variable keeps its type, and a caller has a key and a lock exactly while
\* its call is under way.
THEOREM TypeCorrect == Spec => []TypeInv
  <1>1. Init => TypeInv
    BY LimitAssumption DEF Init, TypeInv, TypeOK, CallsOK, NoReply, Reply
  <1>2. TypeInv /\ [Next]_vars => TypeInv'
    <2> SUFFICES ASSUME TypeInv, [Next]_vars
                 PROVE  TypeInv'
      OBVIOUS
    <2> USE DEF TypeInv, TypeOK, CallsOK
    <2> NoReply \in Reply
      BY DEF NoReply, Reply
    <2>1. CASE Tick
      BY <2>1, LimitAssumption DEF Tick, callVars
    <2>2. ASSUME NEW c \in Callers, NEW k \in Keys, Hit(c, k)
          PROVE  TypeInv'
      BY <2>2 DEF Hit, Fresh, callVars, Reply
    <2>3. ASSUME NEW c \in Callers, NEW k \in Keys, MissAndLoad(c, k)
          PROVE  TypeInv'
      BY <2>3, LocksForIsLock, KeysAssumption DEF MissAndLoad
    <2>4. ASSUME NEW c \in Callers, NEW k \in Keys, MissAndWait(c, k)
          PROVE  TypeInv'
      <3> PICK l \in LocksFor(k) :
            /\ locks' = [locks EXCEPT ![k] = l]
            /\ lock' = [lock EXCEPT ![c] = l]
            /\ waiters' = [waiters EXCEPT ![l] = Append(@, c)]
        BY <2>4 DEF MissAndWait
      <3>1. l \in Locks
        BY LocksForIsLock
      <3>2. waiters' \in [Locks -> Seq(Callers)]
        BY <3>1, AppendProperties
      <3>3. QED
        BY <2>4, <3>1, <3>2, KeysAssumption DEF MissAndWait
    <2>5. ASSUME NEW c \in Callers, ResumeAndHit(c)
          PROVE  TypeInv'
      <3>1. lock[c] \in Locks /\ key[c] \in Keys
        BY <2>5 DEF ResumeAndHit, CanResume
      <3>2. Tail(waiters[lock[c]]) \in Seq(Callers)
        BY <2>5, <3>1, HeadTailProperties DEF ResumeAndHit, CanResume
      <3>3. QED
        BY <2>5, <3>1, <3>2, LimitAssumption DEF ResumeAndHit, Dequeue, Leave, Fresh, Reply
    <2>6. ASSUME NEW c \in Callers, ResumeAndLoad(c)
          PROVE  TypeInv'
      <3>1. lock[c] \in Locks /\ key[c] \in Keys
        BY <2>6 DEF ResumeAndLoad, CanResume
      <3>2. Tail(waiters[lock[c]]) \in Seq(Callers)
        BY <2>6, <3>1, HeadTailProperties DEF ResumeAndLoad, CanResume
      <3>3. QED
        BY <2>6, <3>1, <3>2 DEF ResumeAndLoad, Dequeue
    <2>7. ASSUME NEW c \in Callers, LoadSucceeds(c)
          PROVE  TypeInv'
      <3> PICK cap \in Caps, keep \in Survivors(since[c]) :
            /\ entries' = [k \in Keys |-> IF k = key[c] THEN LoadedEntry(c, cap)
                                          ELSE IF k \in keep THEN entries[k] ELSE None]
            /\ locks' = [k \in Keys |-> IF k \in Cached \ keep THEN None ELSE locks[k]]
            /\ reply' = [kind |-> "loaded", key |-> key[c], entry |-> LoadedEntry(c, cap)]
        BY <2>7 DEF LoadSucceeds
      <3>1. LoadedEntry(c, cap) \in Entry
        BY <2>7, LoadedEntryType DEF LoadSucceeds
      <3>2. entries' \in [Keys -> Entry \cup {None}] /\ locks' \in [Keys -> Locks \cup {None}]
        BY <3>1
      <3>3. reply' \in Reply
        BY <2>7, <3>1 DEF LoadSucceeds, Reply
      <3>4. QED
        BY <2>7, <3>2, <3>3, LimitAssumption DEF LoadSucceeds, Leave
    <2>8. ASSUME NEW c \in Callers, LoadFailsStale(c)
          PROVE  TypeInv'
      BY <2>8, LimitAssumption DEF LoadFailsStale, StaleServable, Leave, Reply
    <2>9. ASSUME NEW c \in Callers, LoadRaises(c)
          PROVE  TypeInv'
      BY <2>9, LimitAssumption DEF LoadRaises, Leave, Reply
    <2>10. ASSUME NEW c \in Callers, CancelQueued(c)
           PROVE  TypeInv'
      <3>1. lock[c] \in Locks
        BY <2>10 DEF CancelQueued
      <3> PICK p \in DOMAIN waiters[lock[c]] :
            waiters' = [waiters EXCEPT ![lock[c]] = RemoveAt(@, p)]
        BY <2>10 DEF CancelQueued
      <3>2. RemoveAt(waiters[lock[c]], p) \in Seq(Callers)
        BY <3>1, RemoveAtIsSeq
      <3>3. QED
        BY <2>10, <3>1, <3>2, LimitAssumption DEF CancelQueued, Leave
    <2>11. ASSUME NEW c \in Callers, CancelLoading(c)
           PROVE  TypeInv'
      BY <2>11, LimitAssumption DEF CancelLoading, Leave
    <2>12. CASE UNCHANGED vars
      BY <2>12 DEF vars, callVars
    <2>13. QED
      BY <2>1, <2>2, <2>3, <2>4, <2>5, <2>6, <2>7, <2>8, <2>9, <2>10, <2>11, <2>12 DEF Next
  <1>3. QED
    BY <1>1, <1>2, PTL DEF Spec

\* What the read-only peek of the status tools shows of a key is what a call, or a
\* failing reload, would get of it: its deadlines and those of get_with_status agree.
THEOREM PeekAgrees == Spec => []PeekShowsServable
  <1>1. TypeOK => PeekShowsServable
    <2> SUFFICES ASSUME TypeOK, NEW k \in Keys, Peek(k) # "absent"
                 PROVE  /\ Peek(k) = "fresh" => Fresh(k)
                        /\ Peek(k) = "stale" => ~Fresh(k) /\ StaleServable(k)
      BY DEF PeekShowsServable
    <2> DEFINE e == entries[k]
    <2>1. e \in Entry /\ e # None /\ ~(clock >= StaleDeadline(k))
      BY DEF Peek, TypeOK
    <2>2. e.expires \in Nat /\ e.maxAge \in Nat \cup {None} /\ StaleIfError[k] \in Nat /\ clock \in Nat
      BY <2>1, WindowsAssumption, LimitAssumption DEF TypeOK, Entry
    <2>3. StaleDeadline(k) \in Nat /\ StaleDeadline(k) <= e.expires + StaleIfError[k]
      BY <2>2 DEF StaleDeadline, Min2
    <2>4. CASE Fresh(k)
      BY <2>1, <2>4 DEF Peek
    <2>5. CASE ~Fresh(k)
      <3>1. e.expires <= clock
        BY <2>1, <2>2, <2>5 DEF Fresh
      <3>2. StaleIfError[k] > 0 /\ clock <= StaleDeadline(k)
        BY <2>1, <2>2, <2>3, <3>1
      <3>3. QED
        BY <2>1, <2>5, <3>2 DEF Peek, StaleServable
    <2>6. QED
      BY <2>4, <2>5
  <1>2. QED
    BY <1>1, TypeCorrect, PTL DEF TypeInv

-----------------------------------------------------------------------------
\* What the age of an answer rests on: an entry expires within the TTL of the start of
\* its load, and no later than the age its loader declared.
EntryAged(k, e) ==
    /\ e.expires <= e.value + TTL[k]
    /\ e.maxAge # None => e.expires <= e.maxAge

EntriesAged == \A k \in Keys : entries[k] # None => EntryAged(k, entries[k])

\* The entry a load stores is aged, whatever its loader declared.
LEMMA LoadedEntryAged ==
    ASSUME TypeInv, NEW c \in Callers, pc[c] = "loading", NEW cap \in Caps
    PROVE  EntryAged(key[c], LoadedEntry(c, cap))
  <1>1. since[c] \in Nat /\ TTL[key[c]] \in Nat
    BY WindowsAssumption DEF TypeInv, TypeOK, CallsOK
  <1>2. CASE cap = None
    BY <1>1, <1>2 DEF LoadedEntry, EntryAged
  <1>3. CASE cap # None
    <2>1. cap \in Int
      BY <1>3, CapsAssumption
    <2>2. since[c] + Max2(0, cap) \in Nat
      BY <1>1, <2>1 DEF Max2
    <2>3. QED
      BY <1>1, <1>3, <2>2, CapsAssumption DEF LoadedEntry, EntryAged, Min2
  <1>4. QED
    BY <1>2, <1>3

AInv == EntriesAged /\ ServedWithinAge

\* Every entry stays aged and every answer within its age, whatever loads, failures,
\* evictions and cancellations overlap.
THEOREM Aged == Spec => []AInv
  <1>1. Init => AInv
    BY DEF Init, AInv, EntriesAged, ServedWithinAge, NoReply
  <1>2. TypeInv /\ AInv /\ [Next]_vars => AInv'
    <2> SUFFICES ASSUME TypeInv, AInv, [Next]_vars
                 PROVE  AInv'
      OBVIOUS
    <2> USE DEF AInv, EntriesAged
    \* A step that answers nothing and leaves the entries alone.
    <2>1. ASSUME reply' = NoReply, UNCHANGED entries
          PROVE  AInv'
      BY <2>1 DEF ServedWithinAge, NoReply
    \* A step that answers with a fresh entry.
    <2>2. ASSUME NEW k \in Keys, Fresh(k), UNCHANGED <<clock, entries>>,
                 reply' = [kind |-> "hit", key |-> k, entry |-> entries[k]]
          PROVE  AInv'
      <3>1. /\ entries[k] \in Entry
            /\ EntryAged(k, entries[k])
            /\ clock < entries[k].expires
            /\ clock \in Nat /\ TTL[k] \in Nat
        BY <2>2, WindowsAssumption DEF Fresh, TypeInv, TypeOK
      <3>2. clock < entries[k].value + TTL[k]
        BY <3>1 DEF EntryAged, Entry
      <3>3. entries[k].maxAge # None => clock < entries[k].maxAge
        BY <3>1 DEF EntryAged, Entry
      <3>4. QED
        BY <2>2, <3>2, <3>3 DEF ServedWithinAge
    <2>3. ASSUME NEW c \in Callers, LoadSucceeds(c)
          PROVE  AInv'
      <3> PICK cap \in Caps, keep \in Survivors(since[c]) :
            /\ entries' = [k \in Keys |-> IF k = key[c] THEN LoadedEntry(c, cap)
                                          ELSE IF k \in keep THEN entries[k] ELSE None]
            /\ reply' = [kind |-> "loaded", key |-> key[c], entry |-> LoadedEntry(c, cap)]
        BY <2>3 DEF LoadSucceeds
      <3>1. EntryAged(key[c], LoadedEntry(c, cap))
        BY <2>3, LoadedEntryAged DEF LoadSucceeds
      <3>2. EntriesAged'
        BY <3>1 DEF EntryAged
      <3>3. QED
        BY <3>2 DEF ServedWithinAge
    <2>4. ASSUME NEW c \in Callers, LoadFailsStale(c)
          PROVE  AInv'
      <3> DEFINE k == key[c]
                 e == entries[k]
      <3>1. /\ k \in Keys /\ e \in Entry /\ EntryAged(k, e)
            /\ clock <= StaleDeadline(k)
            /\ clock \in Nat /\ TTL[k] \in Nat /\ StaleIfError[k] \in Nat
        BY <2>4, WindowsAssumption DEF LoadFailsStale, StaleServable, TypeInv, TypeOK, CallsOK
      <3>2. /\ e.value \in Nat /\ e.expires \in Nat
            /\ e.maxAge # None => e.maxAge \in Nat
        BY <3>1 DEF Entry
      <3>3. clock <= e.value + TTL[k] + StaleIfError[k]
        BY <3>1, <3>2 DEF EntryAged, StaleDeadline, Min2
      <3>4. e.maxAge # None => clock <= e.maxAge
        BY <3>1, <3>2 DEF StaleDeadline, Min2
      <3>5. /\ UNCHANGED <<clock, entries>>
            /\ reply' = [kind |-> "stale", key |-> k, entry |-> e]
        BY <2>4 DEF LoadFailsStale
      <3>6. QED
        BY <3>3, <3>4, <3>5 DEF ServedWithinAge
    <2>5. ASSUME NEW c \in Callers, LoadRaises(c)
          PROVE  AInv'
      BY <2>5 DEF LoadRaises, ServedWithinAge
    <2>6. CASE UNCHANGED vars
      BY <2>6 DEF vars, ServedWithinAge
    <2>7. CASE Next
      <3>1. ASSUME NEW c \in Callers, ResumeAndHit(c)
            PROVE  AInv'
        <4>1. key[c] \in Keys
          BY <3>1 DEF ResumeAndHit, CanResume, TypeInv, CallsOK
        <4>2. QED
          BY <2>2, <3>1, <4>1 DEF ResumeAndHit
      <3>2. ASSUME NEW c \in Callers, NEW k \in Keys, Hit(c, k)
            PROVE  AInv'
        BY <2>2, <3>2 DEF Hit
      <3>3. QED
        BY <2>1, <2>3, <2>4, <2>5, <2>7, <3>1, <3>2
           DEF Next, Tick, MissAndLoad, MissAndWait, ResumeAndLoad, CancelQueued, CancelLoading
    <2>8. QED
      BY <2>6, <2>7
  <1>3. QED
    BY <1>1, <1>2, TypeCorrect, PTL DEF Spec

\* Cached data is never served past its TTL as fresh, past its window as stale, or past
\* the age its loader declared.
COROLLARY AgeBound == Spec => []ServedWithinAge
  BY Aged, PTL DEF AInv

-----------------------------------------------------------------------------
\* The cache holds at most max_entries, however the loads that fill it overlap.
THEOREM LimitHolds == Spec => []CacheWithinLimit
  <1>1. Init => CacheWithinLimit
    <2> SUFFICES ASSUME Init
                 PROVE  CacheWithinLimit
      OBVIOUS
    <2>1. Cached = {}
      BY DEF Init, Cached
    <2>2. QED
      BY <2>1, FS_EmptySet, LimitAssumption DEF CacheWithinLimit
  <1>2. TypeInv /\ CacheWithinLimit /\ [Next]_vars => CacheWithinLimit'
    <2> SUFFICES ASSUME TypeInv, CacheWithinLimit, [Next]_vars
                 PROVE  CacheWithinLimit'
      OBVIOUS
    <2>1. CASE UNCHANGED entries
      BY <2>1 DEF CacheWithinLimit, Cached
    <2>2. ASSUME NEW c \in Callers, LoadSucceeds(c)
          PROVE  CacheWithinLimit'
      <3> PICK cap \in Caps, keep \in Survivors(since[c]) :
            entries' = [k \in Keys |-> IF k = key[c] THEN LoadedEntry(c, cap)
                                       ELSE IF k \in keep THEN entries[k] ELSE None]
        BY <2>2 DEF LoadSucceeds
      <3> DEFINE live == {k \in Cached : since[c] < entries[k].expires}
      <3>1. /\ keep \subseteq live /\ keep \subseteq Keys
            /\ Cardinality(keep) = Min2(Cardinality(live), MaxEntries - 1)
        BY DEF Survivors, Cached
      <3>2. IsFiniteSet(live) /\ IsFiniteSet(keep)
        BY <3>1, KeysAssumption, FS_Subset DEF Cached
      <3>3. Cardinality(live) \in Nat /\ Cardinality(keep) \in Nat
        BY <3>2, FS_CardinalityType
      <3>4. Cardinality(keep) <= MaxEntries - 1
        BY <3>1, <3>3, LimitAssumption DEF Min2
      <3>5. Cached' \subseteq keep \cup {key[c]}
        BY DEF Cached
      <3>6. /\ IsFiniteSet(keep \cup {key[c]})
            /\ Cardinality(keep \cup {key[c]}) <= Cardinality(keep) + 1
        <4>1. /\ IsFiniteSet(keep \cup {key[c]})
              /\ Cardinality(keep \cup {key[c]})
                    = IF key[c] \in keep THEN Cardinality(keep) ELSE Cardinality(keep) + 1
          BY <3>2, FS_AddElement
        <4>2. QED
          BY <4>1, <3>3
      <3>7. /\ Cardinality(Cached') <= Cardinality(keep \cup {key[c]})
            /\ Cardinality(Cached') \in Nat
            /\ Cardinality(keep \cup {key[c]}) \in Nat
        BY <3>5, <3>6, FS_Subset, FS_CardinalityType
      <3>8. QED
        BY <3>3, <3>4, <3>6, <3>7, LimitAssumption DEF CacheWithinLimit
    <2>3. QED
      BY <2>1, <2>2 DEF Next, vars, Tick, Hit, MissAndLoad, MissAndWait, ResumeAndHit,
         ResumeAndLoad, LoadFailsStale, LoadRaises, CancelQueued, CancelLoading
  <1>3. QED
    BY <1>1, <1>2, TypeCorrect, PTL DEF Spec

-----------------------------------------------------------------------------
\* A key gets an orphaned lock only in a step that cancels a call.
THEOREM OrphansOnlyByCancel == Spec => OrphanLocksComeFromCancel
  <1>1. ASSUME TypeInv, TypeInv', [Next]_vars, NEW k \in Keys, ~Orphaned(k), Orphaned(k)'
        PROVE  \E c \in Callers : CancelQueued(c) \/ CancelLoading(c)
    <2> USE DEF Orphaned
    <2>1. ASSUME UNCHANGED vars
          PROVE  FALSE
      BY <1>1, <2>1 DEF vars, callVars
    <2>2. ASSUME Tick
          PROVE  FALSE
      BY <1>1, <2>2 DEF Tick, callVars
    <2>3. ASSUME NEW c \in Callers, NEW j \in Keys, Hit(c, j) \/ MissAndLoad(c, j) \/ MissAndWait(c, j)
          PROVE  FALSE
      <3>1. CASE Hit(c, j)
        BY <1>1, <3>1 DEF Hit, callVars
      <3>2. CASE MissAndLoad(c, j) \/ MissAndWait(c, j)
        <4>1. /\ key[c] = None
              /\ key' = [key EXCEPT ![c] = j]
              /\ UNCHANGED entries
              /\ \E l : locks' = [locks EXCEPT ![j] = l]
          BY <1>1, <3>2 DEF MissAndLoad, MissAndWait, TypeInv, CallsOK
        <4>2. key'[c] = j /\ \A d \in Callers \ {c} : key'[d] = key[d]
          BY <1>1, <4>1 DEF TypeInv, TypeOK
        <4>3. j # k
          BY <1>1, <4>2
        <4>4. locks'[k] = locks[k]
          BY <1>1, <4>1, <4>3 DEF TypeInv, TypeOK
        <4>5. \A d \in Callers : key[d] # k
          BY <1>1, <4>1, <4>2, KeysAssumption
        <4>6. QED
          BY <1>1, <4>1, <4>4, <4>5
      <3>3. QED
        BY <2>3, <3>1, <3>2
    <2>4. ASSUME NEW c \in Callers, ResumeAndLoad(c)
          PROVE  FALSE
      BY <1>1, <2>4 DEF ResumeAndLoad
    \* The remaining steps end the call of c: only the lock of its own key could be orphaned.
    <2>5. ASSUME NEW c \in Callers, Leave(c), entries[k]' = entries[k], locks[k]' = locks[k],
                 key[c] = k => entries[k] # None
          PROVE  FALSE
      <3>1. \A d \in Callers \ {c} : key'[d] = key[d]
        BY <1>1, <2>5 DEF Leave, TypeInv, TypeOK
      <3>2. QED
        BY <1>1, <2>5, <3>1
    <2>6. ASSUME NEW c \in Callers, ResumeAndHit(c)
          PROVE  FALSE
      BY <2>5, <2>6 DEF ResumeAndHit, Fresh
    <2>7. ASSUME NEW c \in Callers, LoadSucceeds(c)
          PROVE  FALSE
      <3> PICK cap \in Caps, keep \in Survivors(since[c]) :
            /\ entries' = [j \in Keys |-> IF j = key[c] THEN LoadedEntry(c, cap)
                                          ELSE IF j \in keep THEN entries[j] ELSE None]
            /\ locks' = [j \in Keys |-> IF j \in Cached \ keep THEN None ELSE locks[j]]
        BY <2>7 DEF LoadSucceeds
      <3>1. LoadedEntry(c, cap) # None
        BY <1>1, <2>7, LoadedEntryType, EntryAssumption DEF LoadSucceeds
      <3>2. k # key[c]
        BY <1>1, <3>1
      <3>3. k \notin Cached \ keep
        BY <1>1
      <3>4. entries'[k] = entries[k] /\ locks'[k] = locks[k]
        BY <1>1, <3>2, <3>3 DEF Cached
      <3>5. QED
        BY <2>5, <2>7, <3>2, <3>4 DEF LoadSucceeds
    <2>8. ASSUME NEW c \in Callers, LoadFailsStale(c)
          PROVE  FALSE
      BY <2>5, <2>8 DEF LoadFailsStale, StaleServable
    <2>9. ASSUME NEW c \in Callers, LoadRaises(c)
          PROVE  FALSE
      <3>1. CASE entries[key[c]] = None
        <4>1. locks' = [locks EXCEPT ![key[c]] = None] /\ UNCHANGED entries /\ Leave(c)
          BY <2>9, <3>1 DEF LoadRaises
        <4>2. key[c] # k
          BY <1>1, <4>1 DEF TypeInv, TypeOK
        <4>3. locks'[k] = locks[k]
          BY <1>1, <4>1, <4>2 DEF TypeInv, TypeOK
        <4>4. QED
          BY <2>5, <4>1, <4>2, <4>3
      <3>2. CASE entries[key[c]] # None
        BY <2>5, <2>9, <3>2 DEF LoadRaises
      <3>3. QED
        BY <3>1, <3>2
    <2>10. ~UNCHANGED vars /\ ~Tick
      BY <2>1, <2>2
    <2>11. QED
      BY <1>1, <2>3, <2>4, <2>6, <2>7, <2>8, <2>9, <2>10 DEF Next
  <1>2. TypeInv /\ TypeInv' /\ [Next]_vars =>
          [\A k \in Keys : ~Orphaned(k) /\ Orphaned(k)' =>
              \E c \in Callers : CancelQueued(c) \/ CancelLoading(c)]_vars
    BY <1>1
  <1>3. QED
    BY <1>2, TypeCorrect, PTL DEF Spec, OrphanLocksComeFromCancel
-----------------------------------------------------------------------------
FreshOf(e) == [value |-> e.value, age |-> "fresh"]
StaleOf(e) == [value |-> e.value, age |-> "stale"]

\* A fresh copy is a copy, and it is there exactly when the entry is fresh.
LEMMA FreshIsFresh ==
    ASSUME TypeOK, NEW k \in Keys
    PROVE  /\ Fresh(k) => Copy(k) = FreshOf(entries[k])
           /\ Source!IsFresh(k) <=> Fresh(k)
  <1>1. CASE Fresh(k)
    <2>1. entries[k].value \in Nat
      BY <1>1 DEF Fresh, TypeOK, Entry
    <2>2. Copy(k) = FreshOf(entries[k]) /\ Copy(k) # None
      BY <1>1, <2>1, CopyAssumption DEF Copy, FreshOf
    <2>3. QED
      BY <1>1, <2>2 DEF Source!IsFresh, FreshOf
  <1>2. CASE ~Fresh(k)
    <2>1. Copy(k) = None \/ Copy(k) = StaleOf(entries[k])
      BY <1>2 DEF Copy, StaleOf
    <2>2. Copy(k).age # "fresh" \/ Copy(k) = None
      BY <2>1 DEF StaleOf
    <2>3. QED
      BY <1>2, <2>2 DEF Source!IsFresh
  <1>3. QED
    BY <1>1, <1>2

\* A copy that stands in for a failed load is one of the cached source, of a backed key.
LEMMA ServableIsBacked ==
    ASSUME TypeOK, NEW k \in Keys, StaleServable(k)
    PROVE  Copy(k) # None /\ Copy(k).value = entries[k].value /\ StaleIfError[k] > 0
  <1>1. entries[k].value \in Nat
    BY DEF StaleServable, TypeOK, Entry
  <1>2. Copy(k) = FreshOf(entries[k]) \/ Copy(k) = StaleOf(entries[k])
    BY DEF Copy, FreshOf, StaleOf
  <1>3. FreshOf(entries[k]) # None /\ StaleOf(entries[k]) # None
    BY <1>1, CopyAssumption DEF FreshOf, StaleOf
  <1>4. QED
    BY <1>2, <1>3 DEF StaleServable, FreshOf, StaleOf

\* An entry that is fresh is inside its window as well.
LEMMA FreshIsServable ==
    ASSUME TypeOK, NEW k \in Keys, Fresh(k), EntryAged(k, entries[k]), StaleIfError[k] > 0
    PROVE  StaleServable(k)
  <1> DEFINE e == entries[k]
  <1>1. /\ e \in Entry /\ e # None /\ clock < e.expires
        /\ clock \in Nat /\ StaleIfError[k] \in Nat
    BY WindowsAssumption DEF Fresh, TypeOK
  <1>2. e.expires \in Nat /\ (e.maxAge # None => e.maxAge \in Nat /\ e.expires <= e.maxAge)
    BY <1>1 DEF Entry, EntryAged
  <1>3. clock <= StaleDeadline(k)
    BY <1>1, <1>2 DEF StaleDeadline, Min2
  <1>4. QED
    BY <1>1, <1>3 DEF StaleServable

\* A copy that nobody touches only ages as the clock ticks.
LEMMA TickAges ==
    ASSUME TypeOK, Tick, NEW k \in Keys
    PROVE  Copy(k)' \in Source!Older(k, Copy(k))
  <1> DEFINE e == entries[k]
  <1>1. /\ clock' = clock + 1 /\ clock \in Nat
        /\ entries' = entries
    BY LimitAssumption DEF Tick, TypeOK
  <1>2. CASE e = None
    BY <1>1, <1>2 DEF Copy, Fresh, StaleServable, Source!Older
  <1>3. CASE e # None
    <2>1. e.value \in Nat /\ e.expires \in Nat /\ StaleIfError[k] \in Nat
      BY <1>3, WindowsAssumption DEF TypeOK, Entry
    <2>2. StaleDeadline(k) \in Int /\ StaleDeadline(k)' = StaleDeadline(k)
      BY <1>1, <1>3, <2>1 DEF StaleDeadline, TypeOK, Entry, Min2
    <2>3. Fresh(k)' => Fresh(k)
      BY <1>1, <2>1 DEF Fresh
    <2>4. StaleServable(k)' => StaleServable(k)
      BY <1>1, <2>1, <2>2 DEF StaleServable
    <2>5. FreshOf(e) # None /\ StaleOf(e) # None
      BY <2>1, CopyAssumption DEF FreshOf, StaleOf
    <2>6. /\ Copy(k) = IF Fresh(k) THEN FreshOf(e) ELSE IF StaleServable(k) THEN StaleOf(e) ELSE None
          /\ Copy(k)' = IF Fresh(k)' THEN FreshOf(e) ELSE IF StaleServable(k)' THEN StaleOf(e) ELSE None
      BY <1>1 DEF Copy, FreshOf, StaleOf
    <2>7. CASE Fresh(k)' \/ Copy(k)' = None
      BY <2>3, <2>6, <2>7 DEF Source!Older
    <2>8. CASE ~Fresh(k)' /\ StaleServable(k)'
      <3>1. Copy(k) # None /\ Copy(k).value = e.value /\ StaleIfError[k] > 0
        BY <2>4, <2>8, ServableIsBacked
      <3>2. Copy(k)' = [value |-> Copy(k).value, age |-> "stale"]
        BY <2>6, <2>8, <3>1 DEF StaleOf
      <3>3. QED
        BY <3>1, <3>2 DEF Source!Older
    <2>9. QED
      BY <2>6, <2>7, <2>8
  <1>4. QED
    BY <1>2, <1>3

\* What a load stores is a copy of what it loaded, perhaps already aged.
LEMMA StoredIsLoaded ==
    ASSUME NEW k \in Keys, NEW v \in Nat, entries'[k] # None, entries'[k].value = v
    PROVE  Copy(k)' \in Source!Older(k, Source!FreshCopy(v))
  <1>1. Source!FreshCopy(v) # None
    BY CopyAssumption DEF Source!FreshCopy
  <1>2. CASE Fresh(k)'
    BY <1>2 DEF Copy, Source!Older, Source!FreshCopy
  <1>3. CASE ~Fresh(k)' /\ StaleServable(k)'
    <2>1. StaleIfError[k] > 0
      BY <1>3 DEF StaleServable
    <2>2. Copy(k)' = [value |-> v, age |-> "stale"]
      BY <1>3 DEF Copy
    <2>3. QED
      BY <1>1, <2>1, <2>2 DEF Source!Older, Source!FreshCopy
  <1>4. CASE ~Fresh(k)' /\ ~StaleServable(k)'
    BY <1>4 DEF Copy, Source!Older
  <1>5. QED
    BY <1>2, <1>3, <1>4

\* The cache keeps its promise: every step is one of the cached source, or none that the
\* code above could see, for any number of callers, keys and locks, any windows and any
\* ages that loaders declare.
THEOREM Implements == Spec => ImplementsCachedSource
  <1> DEFINE copies == [k \in Keys |-> Copy(k)]
             told == IF reply.kind = "none" THEN None
                     ELSE [kind |-> reply.kind, key |-> reply.key,
                           value |-> IF reply.entry = None THEN None ELSE reply.entry.value]
  <1>1. Init => Source!Init
    BY DEF Init, Source!Init, NoReply, Copy, Fresh, StaleServable
  <1>2. TypeInv /\ AInv /\ [Next]_vars => [Source!Next]_(Source!sourceVars)
    <2> SUFFICES ASSUME TypeInv, EntriesAged, [Next]_vars
                 PROVE  [Source!Next]_(Source!sourceVars)
      BY DEF AInv
    <2> TypeOK
      BY DEF TypeInv
    <2> NoReply.kind = "none"
      BY DEF NoReply
    \* The copies change only with the clock and the entries.
    <2>1. ASSUME UNCHANGED <<clock, entries>>
          PROVE  copies' = copies
      BY <2>1 DEF Copy, Fresh, StaleServable, StaleDeadline
    <2>2. CASE Tick
      <3>1. \A k \in Keys : copies'[k] \in Source!Older(k, copies[k])
        BY <2>2, TickAges
      <3>2. QED
        BY <2>2, <3>1 DEF Tick, callVars, Source!Age, Source!Next
    \* A step that answers nothing and moves no copy.
    <2>3. ASSUME UNCHANGED <<clock, entries, key>>, reply' = NoReply
          PROVE  Source!Age
      <3>1. \A k \in Keys : copies'[k] \in Source!Older(k, copies[k])
        BY <2>1, <2>3 DEF Source!Older
      <3>2. QED
        BY <2>3, <3>1 DEF Source!Age
    <2>4. ASSUME NEW c \in Callers, NEW k \in Keys, Fresh(k), key[c] \in {None, k},
                 UNCHANGED <<clock, entries>>, key' = [key EXCEPT ![c] = None],
                 reply' = [kind |-> "hit", key |-> k, entry |-> entries[k]]
          PROVE  Source!Hit(c, k)
      <3>1. Source!IsFresh(k) /\ copies[k] = FreshOf(entries[k])
        BY <2>4, FreshIsFresh
      <3>2. entries[k] # None
        BY <2>4 DEF Fresh
      <3>3. told' = Source!Said("hit", k, copies[k].value)
        BY <2>4, <3>1, <3>2 DEF Source!Said, FreshOf
      <3>4. QED
        BY <2>1, <2>4, <3>1, <3>3 DEF Source!Hit
    <2>5. ASSUME NEW c \in Callers, NEW k \in Keys, Hit(c, k)
          PROVE  Source!Hit(c, k)
      <3>1. key[c] = None /\ key' = [key EXCEPT ![c] = None]
        BY <2>5 DEF Hit, callVars, TypeInv, TypeOK, CallsOK
      <3>2. QED
        BY <2>4, <2>5, <3>1 DEF Hit
    <2>6. ASSUME NEW c \in Callers, ResumeAndHit(c)
          PROVE  Source!Hit(c, key[c])
      <3>1. key[c] \in Keys
        BY <2>6 DEF ResumeAndHit, CanResume, TypeInv, CallsOK
      <3>2. QED
        BY <2>4, <2>6, <3>1 DEF ResumeAndHit, Leave
    <2>7. ASSUME NEW c \in Callers, NEW k \in Keys, MissAndLoad(c, k) \/ MissAndWait(c, k)
          PROVE  Source!Ask(c, k)
      <3>1. /\ key[c] = None /\ ~Fresh(k)
            /\ key' = [key EXCEPT ![c] = k]
            /\ reply' = NoReply
            /\ UNCHANGED <<clock, entries>>
        BY <2>7 DEF MissAndLoad, MissAndWait, TypeInv, CallsOK
      <3>2. ~Source!IsFresh(k)
        BY <3>1, FreshIsFresh
      <3>3. QED
        BY <2>1, <3>1, <3>2 DEF Source!Ask
    <2>8. ASSUME NEW c \in Callers, LoadSucceeds(c)
          PROVE  Source!Load(c, key[c])
      <3> PICK cap \in Caps, keep \in Survivors(since[c]) :
            /\ entries' = [j \in Keys |-> IF j = key[c] THEN LoadedEntry(c, cap)
                                          ELSE IF j \in keep THEN entries[j] ELSE None]
            /\ reply' = [kind |-> "loaded", key |-> key[c], entry |-> LoadedEntry(c, cap)]
        BY <2>8 DEF LoadSucceeds
      <3> DEFINE k == key[c]
                 v == since[c]
      <3>1. k \in Keys /\ v \in 0..MaxClock /\ v \in Nat /\ clock' = clock
        BY <2>8, LimitAssumption DEF LoadSucceeds, TypeInv, TypeOK, CallsOK
      <3>2. LoadedEntry(c, cap) # None /\ LoadedEntry(c, cap).value = v
        BY <2>8, LoadedEntryType, EntryAssumption DEF LoadSucceeds, LoadedEntry
      <3>3. entries'[k] = LoadedEntry(c, cap)
        BY <3>1
      <3>4. copies'[k] \in Source!Older(k, Source!FreshCopy(v))
        BY <3>1, <3>2, <3>3, StoredIsLoaded
      <3>5. told' = Source!Said("loaded", k, v)
        BY <3>2 DEF Source!Said
      <3>6. ASSUME NEW j \in Keys \ {k}
            PROVE  copies'[j] \in {copies[j], None}
        <4>1. entries'[j] = entries[j] \/ entries'[j] = None
          OBVIOUS
        <4>2. CASE entries'[j] = entries[j]
          BY <3>1, <4>2 DEF Copy, Fresh, StaleServable, StaleDeadline
        <4>3. CASE entries'[j] = None
          BY <4>3 DEF Copy, Fresh, StaleServable
        <4>4. QED
          BY <4>1, <4>2, <4>3
      <3>7. QED
        BY <2>8, <3>1, <3>4, <3>5, <3>6 DEF LoadSucceeds, Leave, Source!Load
    <2>9. ASSUME NEW c \in Callers, LoadFailsStale(c)
          PROVE  Source!FallBack(c, key[c])
      <3> DEFINE k == key[c]
      <3>1. k \in Keys /\ StaleServable(k)
        BY <2>9 DEF LoadFailsStale, TypeInv, CallsOK
      <3>2. copies[k] # None /\ copies[k].value = entries[k].value /\ StaleIfError[k] > 0
        BY <3>1, ServableIsBacked
      <3>3. told' = Source!Said("stale", k, copies[k].value)
        BY <2>9, <3>1, <3>2 DEF LoadFailsStale, StaleServable, Source!Said
      <3>4. QED
        BY <2>1, <2>9, <3>1, <3>2, <3>3 DEF LoadFailsStale, Leave, Source!FallBack
    <2>10. ASSUME NEW c \in Callers, LoadRaises(c)
           PROVE  Source!Fail(c, key[c])
      <3> DEFINE k == key[c]
      <3>1. k \in Keys /\ ~StaleServable(k)
        BY <2>10 DEF LoadRaises, TypeInv, CallsOK
      <3>2. StaleIfError[k] > 0 => copies[k] = None
        <4>1. StaleIfError[k] > 0 => ~Fresh(k)
          BY <3>1, FreshIsServable DEF EntriesAged, Fresh
        <4>2. QED
          BY <3>1, <4>1 DEF Copy
      <3>3. told' = Source!Said("error", k, None)
        BY <2>10 DEF LoadRaises, Source!Said
      <3>4. QED
        BY <2>1, <2>10, <3>1, <3>2, <3>3 DEF LoadRaises, Leave, Source!Fail
    <2>11. ASSUME NEW c \in Callers, CancelQueued(c) \/ CancelLoading(c)
           PROVE  Source!GiveUp(c)
      BY <2>1, <2>11 DEF CancelQueued, CancelLoading, Leave, Source!GiveUp
    <2>12. CASE UNCHANGED vars
      <3>1. copies' = copies /\ key' = key /\ told' = told
        BY <2>1, <2>12 DEF vars, callVars
      <3>2. QED
        BY <3>1 DEF Source!sourceVars
    <2>13. CASE Next
      <3>1. \A c \in Callers : pc[c] # "idle" => key[c] \in Keys
        BY DEF TypeInv, CallsOK
      <3>2. ASSUME NEW c \in Callers, ResumeAndLoad(c)
            PROVE  Source!Age
        BY <2>3, <3>2 DEF ResumeAndLoad
      <3>3. ASSUME NEW c \in Callers,
                   ResumeAndHit(c) \/ LoadSucceeds(c) \/ LoadFailsStale(c) \/ LoadRaises(c)
            PROVE  key[c] \in Keys
        BY <3>1, <3>3 DEF ResumeAndHit, CanResume, LoadSucceeds, LoadFailsStale, LoadRaises
      <3>4. CASE Tick
        BY <2>2, <3>4
      <3>5. ASSUME NEW c \in Callers, NEW k \in Keys,
                   Hit(c, k) \/ MissAndLoad(c, k) \/ MissAndWait(c, k)
            PROVE  Source!Next
        BY <2>5, <2>7, <3>5 DEF Source!Next
      <3>6. ASSUME NEW c \in Callers,
                   ResumeAndHit(c) \/ LoadSucceeds(c) \/ LoadFailsStale(c) \/ LoadRaises(c)
            PROVE  Source!Next
        BY <2>6, <2>8, <2>9, <2>10, <3>3, <3>6 DEF Source!Next
      <3>7. ASSUME NEW c \in Callers, ResumeAndLoad(c) \/ CancelQueued(c) \/ CancelLoading(c)
            PROVE  Source!Next
        BY <2>11, <3>2, <3>7 DEF Source!Next
      <3>8. QED
        BY <2>13, <3>4, <3>5, <3>6, <3>7 DEF Next
    <2>14. QED
      BY <2>12, <2>13
  <1>3. QED
    BY <1>1, <1>2, TypeCorrect, Aged, PTL DEF Spec, ImplementsCachedSource, Source!Spec
=============================================================================
