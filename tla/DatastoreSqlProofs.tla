------------------------- MODULE DatastoreSqlProofs -------------------------
(***************************************************************************)
(* Proofs about the gate of DatastoreSql, for any number of queries and    *)
(* whatever the copies they take.                                          *)
(***************************************************************************)
EXTENDS DatastoreSql, FiniteSetTheorems, TLAPS

Inside == {"copying", "shielded", "cancelled"}
WithThread == {"shielded", "cancelled", "cut"}

\* The inductive invariant: who is inside holds the gate, and a thread belongs to a query
\* that waits for it or was cut off from it.
GateInv ==
    /\ pc \in [Queries -> {"new", "cut", "over"} \cup Inside]
    /\ \A q \in Queries : pc[q] \in Inside => gate = q
    /\ threads \subseteq {q \in Queries : pc[q] \in WithThread}

\* Nobody is inside the gate and no thread runs at first.
LEMMA InitGate == Init => GateInv
  BY DEF Init, GateInv, Inside, WithThread

\* A query that leaves the gate leaves nobody inside it.
LEMMA LeavingKeepsGate ==
    ASSUME GateInv, NEW q \in Queries, pc[q] \in Inside, NEW place \in {"cut", "over"},
           pc' = [pc EXCEPT ![q] = place], threads' = threads,
           q \notin threads \/ place = "cut"
    PROVE  GateInv'
  <1>1. gate = q
    BY DEF GateInv
  <1>2. pc' \in [Queries -> {"new", "cut", "over"} \cup Inside] /\ pc'[q] = place
    BY DEF GateInv
  <1>3. \A r \in Queries : r # q => pc'[r] = pc[r] /\ pc[r] \notin Inside
    BY <1>1 DEF GateInv
  <1>4. \A r \in Queries : pc'[r] \notin Inside
    BY <1>2, <1>3 DEF Inside
  <1>5. threads' \subseteq {r \in Queries : pc'[r] \in WithThread}
    BY <1>2, <1>3 DEF GateInv, WithThread
  <1>6. QED
    BY <1>2, <1>4, <1>5 DEF GateInv

\* A query that enters finds the gate free, and nobody inside.
LEMMA EnteringKeepsGate ==
    ASSUME GateInv, NEW q \in Queries, pc[q] = "new", gate = None, gate' = q,
           NEW place \in {"copying", "shielded"}, pc' = [pc EXCEPT ![q] = place],
           threads' = threads \/ (place = "shielded" /\ threads' = threads \cup {q})
    PROVE  GateInv'
  <1>1. \A r \in Queries : pc[r] \notin Inside
    BY QueriesAssumption DEF GateInv
  <1>2. q \notin threads
    BY DEF GateInv, WithThread
  <1>3. pc' \in [Queries -> {"new", "cut", "over"} \cup Inside] /\ pc'[q] = place
    BY DEF GateInv, Inside
  <1>4. \A r \in Queries : pc'[r] \in Inside => r = q
    BY <1>1 DEF GateInv
  <1>5. threads' \subseteq {r \in Queries : pc'[r] \in WithThread}
    BY <1>2, <1>3 DEF GateInv, WithThread
  <1>6. QED
    BY <1>3, <1>4, <1>5 DEF GateInv

\* A query that moves on inside keeps the gate.
LEMMA MovingKeepsGate ==
    ASSUME GateInv, NEW q \in Queries, pc[q] \in Inside, gate' = gate,
           NEW place \in {"shielded", "cancelled"}, pc' = [pc EXCEPT ![q] = place],
           threads' \subseteq threads \cup {q}
    PROVE  GateInv'
  <1>1. pc' \in [Queries -> {"new", "cut", "over"} \cup Inside] /\ pc'[q] = place
    BY DEF GateInv, Inside
  <1>2. \A r \in Queries : pc'[r] \in Inside => gate' = r
    BY DEF GateInv
  <1>3. threads' \subseteq {r \in Queries : pc'[r] \in WithThread}
    BY <1>1 DEF GateInv, WithThread
  <1>4. QED
    BY <1>1, <1>2, <1>3 DEF GateInv

\* Every step keeps those inside behind the gate, and threads with their queries.
LEMMA GateKept ==
    ASSUME GateInv, [Next]_vars
    PROVE  GateInv'
  <1>1. CASE UNCHANGED <<gate, pc, threads>>
    BY <1>1 DEF GateInv
  <1>2. ASSUME NEW q \in Queries, Busy(q) PROVE GateInv'
    BY <1>2 DEF Busy, GateInv, Inside, WithThread
  <1>3. ASSUME NEW q \in Queries, Hit(q) PROVE GateInv'
    BY <1>3, EnteringKeepsGate DEF Hit, Runs
  <1>4. ASSUME NEW q \in Queries, Miss(q) PROVE GateInv'
    BY <1>4, EnteringKeepsGate DEF Miss
  <1>5. ASSUME NEW q \in Queries, Copied(q) \/ CancelShielded(q) PROVE GateInv'
    BY <1>5, MovingKeepsGate DEF Copied, Runs, CancelShielded, Inside
  <1>6. ASSUME NEW q \in Queries, ThreadEnds(q) PROVE GateInv'
    BY <1>6 DEF ThreadEnds, GateInv
  <1>7. ASSUME NEW q \in Queries, NotCopied(q) \/ CancelCopy(q) PROVE GateInv'
    <2>1. pc[q] = "copying" /\ Leaves(q) /\ threads' = threads
      BY <1>7 DEF NotCopied, CancelCopy
    <2>2. q \notin threads
      BY <2>1 DEF GateInv, WithThread
    <2>3. QED
      BY <2>1, <2>2, LeavingKeepsGate DEF Leaves, Inside
  <1>8. ASSUME NEW q \in Queries, Answered(q) PROVE GateInv'
    BY <1>8, LeavingKeepsGate DEF Answered, Leaves, Inside
  <1>9. ASSUME NEW q \in Queries, CancelAgain(q) PROVE GateInv'
    BY <1>9, LeavingKeepsGate DEF CancelAgain, Inside
  <1>10. QED
    BY <1>1, <1>2, <1>3, <1>4, <1>5, <1>6, <1>7, <1>8, <1>9
    DEF Next, QueryStep, Cancellation, Expire, BeginAlone, vars, queryVars

\* The invariant of the gate holds throughout.
LEMMA GateInvariant == Spec => []GateInv
  <1>1. GateInv /\ [Next]_vars => GateInv'
    BY GateKept
  <1>2. QED
    BY <1>1, InitGate, PTL DEF Spec

\* For any number of queries, a thread works for the query in the gate, unless its query was
\* cancelled a second time while it waited the thread out.
THEOREM GateHolds == Spec => []ThreadHeldByGate
  <1>1. GateInv => ThreadHeldByGate
    BY DEF GateInv, ThreadHeldByGate, Inside, WithThread
  <1>2. QED
    BY <1>1, GateInvariant, PTL

\* So while no query is cut off from its thread, the threads are none, or the one of the
\* query in the gate.
THEOREM OneThread == Spec => []((\A q \in Queries : pc[q] # "cut") => OneThreadAtATime)
  <1>1. ASSUME GateInv, \A q \in Queries : pc[q] # "cut"
        PROVE  OneThreadAtATime
    <2>1. threads \subseteq {gate}
      BY <1>1 DEF GateInv, Inside, WithThread
    <2>2. threads = {} \/ threads = {gate}
      BY <2>1
    <2>3. Cardinality({}) = 0 /\ Cardinality({gate}) = 1
      BY FS_EmptySet, FS_Singleton
    <2>4. QED
      BY <2>2, <2>3 DEF OneThreadAtATime
  <1>2. GateInv => ((\A q \in Queries : pc[q] # "cut") => OneThreadAtATime)
    BY <1>1
  <1>3. QED
    BY <1>2, GateInvariant, PTL
=============================================================================
