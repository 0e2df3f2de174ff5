------------------------- MODULE GtfsSnapshotProofs -------------------------
(***************************************************************************)
(* Proofs about GtfsSnapshot, for every number of workers, calls, tables   *)
(* and snapshots.                                                          *)
(***************************************************************************)
EXTENDS GtfsSnapshot, TLAPS

-----------------------------------------------------------------------------
\* Every state variable keeps its type, and a call holds an id exactly while it goes on
\* with one.
THEOREM TypeCorrect == Spec => []TypeInv
  <1>1. Init => TypeInv
    BY IdsAssumption DEF Init, TypeInv, TypeOK, HoldsOK, HistoryOK, DbImage, Thread, NoThread, Read,
       NoRead, Reply, NoReply, Said, Ids
  <1>2. TypeInv /\ [Next]_vars => TypeInv'
    <2> SUFFICES ASSUME TypeInv, [Next]_vars
                 PROVE  TypeInv'
      OBVIOUS
    <2> USE IdsAssumption, CallsAssumption DEF TypeInv, TypeOK, HoldsOK
    <2> NoReply \in Reply /\ NoRead \in Read /\ NoThread \in Thread
      BY DEF NoReply, Said, Reply, NoRead, Read, NoThread, Thread
    <2> None \notin Ids
      BY DEF Ids
    <2>1. ASSUME NEW c \in Calls, AskWhileWarming(c)
          PROVE  (TypeOK /\ HoldsOK)'
      BY <2>1 DEF AskWhileWarming, callVars, Said, Reply
    <2>2. ASSUME NEW c \in Calls, Ask(c)
          PROVE  (TypeOK /\ HoldsOK)'
      BY <2>2 DEF Ask, GoesOnWith, Fresh, Entry
    <2>3. ASSUME NEW c \in Calls, AskStatus(c)
          PROVE  (TypeOK /\ HoldsOK)'
      BY <2>3 DEF AskStatus, GoesOnWith, callVars, Entry, Said, Reply
    <2>4. ASSUME NEW c \in Calls, FindFresh(c)
          PROVE  (TypeOK /\ HoldsOK)'
      BY <2>4 DEF FindFresh, Fresh, SnapshotFound, GoesOnWith, WarmupClears, Entry
    <2>5. ASSUME NEW c \in Calls, StartLoad(c)
          PROVE  (TypeOK /\ HoldsOK)'
      BY <2>5 DEF StartLoad
    <2>6. ASSUME NEW c \in Calls, StartPublish(c)
          PROVE  (TypeOK /\ HoldsOK)'
      BY <2>6 DEF StartPublish, Thread, Ids
    <2>7. ASSUME NEW c \in Calls, BeginImmediate(c)
          PROVE  (TypeOK /\ HoldsOK)'
      <3>1. TypeOK'
        BY <2>7 DEF BeginImmediate, Thread, callVars
      <3>2. HoldsOK'
        BY <2>7, ImageAssumption DEF BeginImmediate, Thread, callVars
      <3>3. QED
        BY <3>1, <3>2
    <2>8. ASSUME NEW c \in Calls, CopyTable(c)
          PROVE  (TypeOK /\ HoldsOK)'
      <3>0. tx \in DbImage /\ thread[c].id \in Ids
        BY <2>8 DEF CopyTable, Thread
      <3>1. TypeOK'
        BY <2>8, <3>0 DEF CopyTable, Thread, callVars, DbImage, AllTables
      <3> PICK t \in thread[c].left :
            /\ tx' = [tx EXCEPT ![t] = thread[c].id]
            /\ thread' = [thread EXCEPT ![c].left = @ \ {t}]
        BY <2>8 DEF CopyTable
      <3>a. tx' \in DbImage
        BY <2>8, <3>0 DEF DbImage
      <3>b. \A d \in Calls : thread'[d].at = thread[d].at /\ thread'[d].id = thread[d].id
        BY DEF Thread
      <3>c. tx' # None /\ UNCHANGED <<pc, held, read>>
        BY <2>8, <3>a, ImageAssumption DEF CopyTable, callVars
      <3>2. HoldsOK'
        BY <3>b, <3>c
      <3>3. QED
        BY <3>1, <3>2
    <2>9. ASSUME NEW c \in Calls, Commit(c)
          PROVE  (TypeOK /\ HoldsOK)'
      <3>0. tx \in DbImage /\ thread[c].id \in Ids
        BY <2>9 DEF Commit, Thread
      <3>1. TypeOK'
        BY <2>9, <3>0 DEF Commit, ThreadEnds, Thread, callVars, DbImage, AllTables
      <3>2. HoldsOK'
        BY <2>9, <3>0 DEF Commit, ThreadEnds, Thread, NoThread, callVars
      <3>3. QED
        BY <3>1, <3>2
    <2>10. ASSUME NEW c \in Calls, PublishFails(c)
           PROVE  (TypeOK /\ HoldsOK)'
      BY <2>10 DEF PublishFails, ThreadEnds, Thread, NoThread, callVars
    <2>11. ASSUME NEW c \in Calls, LoadSucceeds(c)
           PROVE  (TypeOK /\ HoldsOK)'
      <3>1. TypeOK'
        BY <2>11 DEF LoadSucceeds, SnapshotFound, GoesOnWith, WarmupClears, Thread, NoThread, Entry
      <3>2. HoldsOK'
        BY <2>11 DEF LoadSucceeds, SnapshotFound, GoesOnWith, WarmupClears, Thread, NoThread
      <3>3. QED
        BY <3>1, <3>2
    <2>12. ASSUME NEW c \in Calls, LoadFails(c)
           PROVE  (TypeOK /\ HoldsOK)'
      <3>1. CASE cache[WorkerOf[c]] # None
        <4>1. cache[WorkerOf[c]].id \in Ids
          BY <3>1 DEF Entry
        <4>2. TypeOK'
          BY <2>12, <3>1, <4>1 DEF LoadFails, SnapshotFound, GoesOnWith, WarmupClears, ThreadOutlives
        <4>3. \A d \in Calls : thread'[d].at = "copying" =>
                thread[d].at = "copying" /\ thread'[d] = thread[d]
          BY <2>12 DEF LoadFails, ThreadOutlives, NoThread
        <4>5. \A d \in Calls : thread'[d].at = "none" <=> thread'[d].id = None
          BY <2>12 DEF LoadFails, ThreadOutlives, NoThread
        <4>6. \A d \in Calls : /\ held'[d] # None <=> pc'[d] \in {"found", "reading", "verifying", "verified"}
                               /\ d \in Warmups => held'[d] = None
                               /\ pc'[d] = "reading" => read'[d].view # None
          BY <2>12, <3>1, <4>1 DEF LoadFails, SnapshotFound, GoesOnWith
        <4>7. HoldsOK'
          BY <2>12, <4>3, <4>5, <4>6 DEF LoadFails
        <4>8. QED
          BY <4>2, <4>7
      <3>2. CASE cache[WorkerOf[c]] = None
        <4>1. SnapshotFails(c) /\ ThreadOutlives(c) /\ UNCHANGED <<db, tx, cache, nextId>>
          BY <2>12, <3>2 DEF LoadFails
        <4>2. QED
          BY <4>1 DEF SnapshotFails, Ends, GoesOnWith, WarmupClears, ThreadOutlives,
             NoThread, Said, Reply
      <3>3. QED
        BY <3>1, <3>2
    <2>13. ASSUME NEW c \in Calls, CallCancelled(c)
           PROVE  (TypeOK /\ HoldsOK)'
      BY <2>13 DEF CallCancelled, SnapshotFails, Ends, GoesOnWith, WarmupClears,
         ThreadOutlives, NoThread, Said, Reply
    <2>14. ASSUME NEW c \in Calls, BeginQuery(c)
           PROVE  (TypeOK /\ HoldsOK)'
      <3>1. CASE db[Meta] = held[c]
        <4> DEFINE r == [view |-> db, left |-> Tables, seen |-> {}]
        <4>1. r \in Read /\ r.view # None
          BY ImageAssumption DEF Read
        <4>2. read' = [read EXCEPT ![c] = r] /\ pc' = [pc EXCEPT ![c] = "reading"]
          BY <2>14, <3>1 DEF BeginQuery
        <4> HIDE DEF r
        <4>3. QED
          BY <2>14, <3>1, <4>1, <4>2 DEF BeginQuery
      <3>2. CASE db[Meta] # held[c]
        BY <2>14, <3>2 DEF BeginQuery, Ends, GoesOnWith, Said, Reply
      <3>3. QED
        BY <3>1, <3>2
    <2>15. ASSUME NEW c \in Calls, ReadTable(c)
           PROVE  (TypeOK /\ HoldsOK)'
      <3> PICK t \in read[c].left :
            read' = [read EXCEPT ![c].left = @ \ {t}, ![c].seen = @ \cup {read[c].view[t]}]
        BY <2>15 DEF ReadTable
      <3>1. read[c].view[t] \in Ids \cup {None}
        BY <2>15 DEF Read, DbImage, AllTables, ReadTable
      <3>2. read' \in [Calls -> Read]
        <4>1. read[c].left \ {t} \in SUBSET Tables
          BY DEF Read
        <4>2. read[c].seen \cup {read[c].view[t]} \in SUBSET (Ids \cup {None})
          BY <3>1 DEF Read
        <4>3. read'[c] = [view |-> read[c].view, left |-> read[c].left \ {t},
                          seen |-> read[c].seen \cup {read[c].view[t]}]
          BY DEF Read
        <4>4. read'[c] \in Read
          BY <4>1, <4>2, <4>3 DEF Read
        <4>5. QED
          BY <4>4
      <3>3. \A d \in Calls : read'[d].view = read[d].view
        BY DEF Read
      <3>4. QED
        BY <2>15, <3>2, <3>3 DEF ReadTable
    <2>16. ASSUME NEW c \in Calls, AnswerQuery(c)
           PROVE  (TypeOK /\ HoldsOK)'
      BY <2>16 DEF AnswerQuery, Ends, GoesOnWith, Said, Reply, Read
    <2>17. ASSUME NEW c \in Calls, QueryFails(c)
           PROVE  (TypeOK /\ HoldsOK)'
      BY <2>17 DEF QueryFails, Ends, GoesOnWith, Said, Reply
    <2>18. ASSUME NEW c \in Calls, CheckStatus(c) \/ ShowStatus(c)
           PROVE  (TypeOK /\ HoldsOK)'
      <3>1. CASE CheckStatus(c) /\ db[Meta] = held[c]
        BY <3>1 DEF CheckStatus, GoesOnWith
      <3>2. CASE CheckStatus(c) /\ db[Meta] # held[c]
        BY <3>2 DEF CheckStatus, Ends, GoesOnWith, Said, Reply
      <3>3. CASE ShowStatus(c)
        BY <3>3 DEF ShowStatus, Ends, GoesOnWith, Said, Reply
      <3>4. QED
        BY <2>18, <3>1, <3>2, <3>3
    <2>19. ASSUME NEW w \in Workers, EntryExpires(w) \/ EntryDropped(w)
           PROVE  (TypeOK /\ HoldsOK)'
      BY <2>19 DEF EntryExpires, EntryDropped, Fresh, Entry, callVars
    <2>20. ASSUME NEW w \in Workers, Restart(w)
           PROVE  (TypeOK /\ HoldsOK)'
      BY <2>20 DEF Restart, WarmUpCalls, NoThread
    <2>21. ASSUME UNCHANGED vars
           PROVE  (TypeOK /\ HoldsOK)'
      BY <2>21 DEF vars, progVars, callVars
    <2>22. (TypeOK /\ HoldsOK)'
      BY <2>1, <2>2, <2>3, <2>4, <2>5, <2>6, <2>7, <2>8, <2>9, <2>10, <2>11, <2>12, <2>13,
         <2>14, <2>15, <2>16, <2>17, <2>18, <2>19, <2>20, <2>21 DEF Next, Step
    <2>23. HistoryOK'
      <3>1. CASE Remember
        <4>1. db'[Meta] \in Ids \cup {None}
          BY <2>22 DEF DbImage, AllTables
        <4>2. \A c \in Calls : named[c] \cup {db'[Meta]} \in SUBSET (Ids \cup {None})
          BY <4>1 DEF HistoryOK
        <4>3. QED
          BY <3>1, <4>2 DEF Remember, HistoryOK
      <3>2. CASE UNCHANGED vars
        BY <3>2 DEF vars, HistoryOK
      <3>3. QED
        BY <3>1, <3>2 DEF Next
    <2>24. QED
      BY <2>22, <2>23
  <1>3. QED
    BY <1>1, <1>2, PTL DEF Spec

-----------------------------------------------------------------------------
\* A step that neither begins a query nor reads for one leaves the queries that are
\* reading alone.
ReadersKept ==
    \A d \in Calls : pc'[d] = "reading" =>
        pc[d] = "reading" /\ held'[d] = held[d] /\ read'[d] = read[d]

\* Only the steps of queries touch what readers see.
LEMMA ReadersKeptByOthers ==
    ASSUME TypeInv, [Next]_vars,
           ~ \E c \in Calls : BeginQuery(c) \/ ReadTable(c)
    PROVE  ReadersKept
  <1> USE DEF TypeInv, TypeOK, ReadersKept
  <1>1. ASSUME NEW c \in Calls,
               \/ AskWhileWarming(c) \/ StartLoad(c) \/ StartPublish(c) \/ BeginImmediate(c)
               \/ CopyTable(c) \/ Commit(c) \/ PublishFails(c)
        PROVE  ReadersKept
    BY <1>1 DEF AskWhileWarming, StartLoad, StartPublish, BeginImmediate, CopyTable, Commit,
       PublishFails, callVars
  <1>2. ASSUME NEW c \in Calls, Ask(c) \/ AskStatus(c)
        PROVE  ReadersKept
    BY <1>2 DEF Ask, AskStatus, GoesOnWith, callVars
  <1>3. ASSUME NEW c \in Calls, FindFresh(c) \/ LoadSucceeds(c)
        PROVE  ReadersKept
    BY <1>3 DEF FindFresh, LoadSucceeds, SnapshotFound, GoesOnWith
  <1>4. ASSUME NEW c \in Calls, LoadFails(c) \/ CallCancelled(c)
        PROVE  ReadersKept
    BY <1>4 DEF LoadFails, CallCancelled, SnapshotFound, SnapshotFails, Ends, GoesOnWith
  <1>5. ASSUME NEW c \in Calls, AnswerQuery(c) \/ QueryFails(c) \/ CheckStatus(c) \/ ShowStatus(c)
        PROVE  ReadersKept
    BY <1>5 DEF AnswerQuery, QueryFails, CheckStatus, ShowStatus, Ends, GoesOnWith
  <1>6. ASSUME NEW w \in Workers, EntryExpires(w) \/ EntryDropped(w) \/ Restart(w)
        PROVE  ReadersKept
    BY <1>6 DEF EntryExpires, EntryDropped, Restart, callVars
  <1>7. CASE UNCHANGED vars
    BY <1>7 DEF vars, progVars, callVars
  <1>8. QED
    BY <1>1, <1>2, <1>3, <1>4, <1>5, <1>6, <1>7 DEF Next, Step

\* A thread that still publishes after a step of anything else did so before it, on the
\* same image.
WriterKept ==
    /\ db' = db
    /\ \A d \in Calls :
        /\ thread'[d].at \in {"starting", "copying"} => thread'[d] = thread[d]
        /\ thread'[d].at = "copying" => tx' = tx

\* Only the steps of a publication touch what its thread has copied.
LEMMA WriterKeptByOthers ==
    ASSUME TypeInv, [Next]_vars,
           ~ \E c \in Calls : StartPublish(c) \/ BeginImmediate(c) \/ CopyTable(c) \/ Commit(c)
    PROVE  WriterKept
  <1> USE DEF TypeInv, TypeOK, HoldsOK, WriterKept, NoThread
  <1>1. ASSUME NEW c \in Calls,
               \/ AskWhileWarming(c) \/ Ask(c) \/ AskStatus(c) \/ FindFresh(c) \/ StartLoad(c)
               \/ BeginQuery(c) \/ ReadTable(c) \/ AnswerQuery(c) \/ QueryFails(c)
               \/ CheckStatus(c) \/ ShowStatus(c)
        PROVE  WriterKept
    BY <1>1 DEF AskWhileWarming, Ask, AskStatus, FindFresh, StartLoad, BeginQuery, ReadTable,
       AnswerQuery, QueryFails, CheckStatus, ShowStatus
  <1>2. ASSUME NEW c \in Calls, PublishFails(c)
        PROVE  WriterKept
    BY <1>2 DEF PublishFails, ThreadEnds, Thread
  <1>3. ASSUME NEW c \in Calls, LoadSucceeds(c)
        PROVE  WriterKept
    BY <1>3 DEF LoadSucceeds
  <1>4. ASSUME NEW c \in Calls, LoadFails(c) \/ CallCancelled(c)
        PROVE  WriterKept
    BY <1>4 DEF LoadFails, CallCancelled, ThreadOutlives
  <1>5. ASSUME NEW w \in Workers, EntryExpires(w) \/ EntryDropped(w)
        PROVE  WriterKept
    BY <1>5 DEF EntryExpires, EntryDropped
  <1>6. ASSUME NEW w \in Workers, Restart(w)
        PROVE  WriterKept
    BY <1>6 DEF Restart
  <1>7. CASE UNCHANGED vars
    BY <1>7 DEF vars, progVars
  <1>8. QED
    BY <1>1, <1>2, <1>3, <1>4, <1>5, <1>6, <1>7 DEF Next, Step

-----------------------------------------------------------------------------
\* The inductive invariant of publication: the database holds one whole snapshot, the
\* writer's image agrees with its snapshot on the tables copied, and every query reads one
\* whole snapshot, the one it holds.
THEOREM Publication == Spec => []PublicationInv
  <1>1. Init => PublicationInv
    <2> SUFFICES ASSUME Init
                 PROVE  PublicationInv
      OBVIOUS
    <2>1. DbWhole
      BY DEF Init, DbWhole
    <2>2. WriterOK
      BY DEF Init, WriterOK, NoThread
    <2>3. \A c \in Calls : pc[c] # "reading"
      BY DEF Init
    <2>4. QED
      BY <2>1, <2>2, <2>3 DEF PublicationInv, ReadersOK
  <1>2. TypeInv /\ PublicationInv /\ [Next]_vars => PublicationInv'
    <2> SUFFICES ASSUME TypeInv, PublicationInv, [Next]_vars
                 PROVE  PublicationInv'
      OBVIOUS
    <2> USE DEF TypeInv, TypeOK
    <2>1. DbWhole /\ WriterOK /\ ReadersOK
      BY DEF PublicationInv
    <2>2. ReadersOK'
      <3>1. ASSUME NEW c \in Calls, BeginQuery(c)
            PROVE  ReadersOK'
        <4>1. CASE db[Meta] = held[c]
          <5>1. \A t \in AllTables : db[t] = held[c]
            BY <2>1, <4>1 DEF DbWhole, AllTables
          <5>2. read' = [read EXCEPT ![c] = [view |-> db, left |-> Tables, seen |-> {}]]
            BY <3>1, <4>1 DEF BeginQuery
          <5>3. held' = held /\ pc' = [pc EXCEPT ![c] = "reading"]
            BY <3>1, <4>1 DEF BeginQuery
          <5>4. QED
            BY <2>1, <5>1, <5>2, <5>3 DEF ReadersOK
        <4>2. CASE db[Meta] # held[c]
          BY <2>1, <3>1, <4>2 DEF BeginQuery, Ends, GoesOnWith, ReadersOK
        <4>3. QED
          BY <4>1, <4>2
      <3>2. ASSUME NEW c \in Calls, ReadTable(c)
            PROVE  ReadersOK'
        <4> PICK t \in read[c].left :
              read' = [read EXCEPT ![c].left = @ \ {t}, ![c].seen = @ \cup {read[c].view[t]}]
          BY <3>2 DEF ReadTable
        <4>1. (\A u \in AllTables : read[c].view[u] = held[c]) /\ read[c].seen \subseteq {held[c]}
          BY <2>1, <3>2 DEF ReadersOK, ReadTable
        <4>2. t \in AllTables
          BY <3>2 DEF Read, AllTables, ReadTable
        <4>3. read[c].view[t] = held[c]
          BY <4>1, <4>2
        <4>4. read'[c].view = read[c].view /\ read'[c].seen = {held[c]}
          BY <4>1, <4>3 DEF Read
        <4>5. \A d \in Calls \ {c} : read'[d] = read[d]
          OBVIOUS
        <4>6. pc' = pc /\ held' = held
          BY <3>2 DEF ReadTable
        <4>7. QED
          BY <2>1, <4>1, <4>4, <4>5, <4>6 DEF ReadersOK
      <3>3. CASE ~ \E c \in Calls : BeginQuery(c) \/ ReadTable(c)
        BY <2>1, <3>3, ReadersKeptByOthers DEF ReadersKept, ReadersOK
      <3>4. QED
        BY <3>1, <3>2, <3>3
    <2>3. DbWhole' /\ WriterOK'
      <3>1. ASSUME NEW c \in Calls, StartPublish(c)
            PROVE  DbWhole' /\ WriterOK'
        BY <2>1, <3>1 DEF StartPublish, DbWhole, WriterOK
      <3>2. ASSUME NEW c \in Calls, BeginImmediate(c)
            PROVE  DbWhole' /\ WriterOK'
        BY <2>1, <3>2 DEF BeginImmediate, DbWhole, WriterOK, HoldsOK, Thread
      <3>3. ASSUME NEW c \in Calls, CopyTable(c)
            PROVE  DbWhole' /\ WriterOK'
        <4> PICK t \in thread[c].left :
              /\ tx' = [tx EXCEPT ![t] = thread[c].id]
              /\ thread' = [thread EXCEPT ![c].left = @ \ {t}]
          BY <3>3 DEF CopyTable
        <4>1. tx \in DbImage /\ t \in Tables
          BY <3>3 DEF CopyTable, HoldsOK, Thread
        <4>2. \A u \in Tables \ (thread[c].left \ {t}) : tx'[u] = thread[c].id
          BY <2>1, <3>3, <4>1 DEF WriterOK, CopyTable, DbImage, AllTables
        <4>3. thread'[c].left = thread[c].left \ {t} /\ thread'[c].id = thread[c].id
              /\ thread'[c].at = "copying"
          BY <3>3 DEF Thread, CopyTable
        <4>4. \A d \in Calls \ {c} : thread'[d] = thread[d] /\ thread[d].at # "copying"
          BY <3>3 DEF HoldsOK, CopyTable
        <4>5. WriterOK'
          BY <2>1, <4>2, <4>3, <4>4 DEF WriterOK
        <4>6. QED
          BY <2>1, <3>3, <4>5 DEF CopyTable, DbWhole
      <3>4. ASSUME NEW c \in Calls, Commit(c)
            PROVE  DbWhole' /\ WriterOK'
        <4>1. tx \in DbImage /\ thread[c].id \in Ids
          BY <3>4 DEF Commit, HoldsOK, Thread
        <4>2. \A t \in Tables : tx[t] = thread[c].id
          BY <2>1, <3>4 DEF WriterOK, Commit
        <4>3. \A t \in AllTables : db'[t] = thread[c].id
          BY <3>4, <4>1, <4>2 DEF Commit, DbImage, AllTables
        <4>4. DbWhole'
          BY <4>1, <4>3 DEF DbWhole
        <4>5. \A d \in Calls : thread'[d].at # "copying"
                               /\ (thread'[d].at = "starting" => thread'[d] = thread[d])
          BY <3>4 DEF Commit, ThreadEnds, NoThread, HoldsOK, Thread
        <4>6. QED
          BY <2>1, <4>4, <4>5 DEF WriterOK
      <3>5. CASE ~ \E c \in Calls :
                    StartPublish(c) \/ BeginImmediate(c) \/ CopyTable(c) \/ Commit(c)
        BY <2>1, <3>5, WriterKeptByOthers DEF WriterKept, DbWhole, WriterOK
      <3>6. QED
        BY <3>1, <3>2, <3>3, <3>4, <3>5
    <2>4. QED
      BY <2>2, <2>3 DEF PublicationInv
  <1>3. QED
    BY <1>1, <1>2, TypeCorrect, PTL DEF Spec

-----------------------------------------------------------------------------
\* While a status call goes on, its history has the id that the database names now, and,
\* once its check is over, the id it holds.
HistoryInv ==
    \A c \in Calls :
        /\ pc[c] \in {"verifying", "verified"} => db[Meta] \in named[c]
        /\ pc[c] = "verified" => held[c] \in named[c]

\* Only the check of a status call takes a call past it, with the id the database names.
LEMMA VerifiedByCheck ==
    ASSUME TypeInv, Step, NEW c \in Calls, pc'[c] = "verified"
    PROVE  /\ held'[c] = held[c]
           /\ pc[c] = "verified" \/ (pc[c] = "verifying" /\ held[c] = db[Meta])
  <1> USE DEF TypeInv, TypeOK
  <1>1. ASSUME NEW d \in Calls,
               \/ AskWhileWarming(d) \/ StartLoad(d) \/ StartPublish(d) \/ BeginImmediate(d)
               \/ CopyTable(d) \/ Commit(d) \/ PublishFails(d) \/ ReadTable(d)
        PROVE  pc[c] = "verified" /\ held' = held
    BY <1>1 DEF AskWhileWarming, StartLoad, StartPublish, BeginImmediate, CopyTable, Commit,
       PublishFails, ReadTable, callVars
  <1>2. ASSUME NEW d \in Calls, Ask(d) \/ AskStatus(d) \/ FindFresh(d) \/ LoadSucceeds(d)
        PROVE  pc[c] = "verified" /\ held'[c] = held[c]
    BY <1>2 DEF Ask, AskStatus, FindFresh, LoadSucceeds, SnapshotFound, GoesOnWith, callVars
  <1>3. ASSUME NEW d \in Calls, LoadFails(d) \/ CallCancelled(d)
        PROVE  pc[c] = "verified" /\ held'[c] = held[c]
    BY <1>3 DEF LoadFails, CallCancelled, SnapshotFound, SnapshotFails, Ends, GoesOnWith
  <1>4. ASSUME NEW d \in Calls,
               BeginQuery(d) \/ AnswerQuery(d) \/ QueryFails(d) \/ ShowStatus(d)
        PROVE  pc[c] = "verified" /\ held'[c] = held[c]
    BY <1>4 DEF BeginQuery, AnswerQuery, QueryFails, ShowStatus, Ends, GoesOnWith
  <1>5. ASSUME NEW d \in Calls, CheckStatus(d)
        PROVE  /\ held'[c] = held[c]
               /\ pc[c] = "verified" \/ (pc[c] = "verifying" /\ held[c] = db[Meta])
    BY <1>5 DEF CheckStatus, Ends, GoesOnWith
  <1>6. ASSUME NEW w \in Workers, EntryExpires(w) \/ EntryDropped(w) \/ Restart(w)
        PROVE  pc[c] = "verified" /\ held'[c] = held[c]
    BY <1>6 DEF EntryExpires, EntryDropped, Restart, callVars
  <1>7. QED
    BY <1>1, <1>2, <1>3, <1>4, <1>5, <1>6 DEF Step

\* Only ShowStatus shows a status row: the one of the id its call holds.
LEMMA ShownByStatus ==
    ASSUME TypeInv, Step, reply'.kind = "status"
    PROVE  \E c \in Calls : pc[c] = "verified" /\ reply'.by = c /\ reply'.id = held[c]
  <1> USE DEF Said, NoReply
  <1>1. ASSUME NEW c \in Calls, AskWhileWarming(c) \/ Ask(c) \/ AskStatus(c)
        PROVE  reply'.kind # "status"
    BY <1>1 DEF AskWhileWarming, Ask, AskStatus
  <1>2. ASSUME NEW c \in Calls,
               FindFresh(c) \/ LoadSucceeds(c) \/ LoadFails(c) \/ CallCancelled(c)
        PROVE  reply'.kind # "status"
    <2>1. (\E id : SnapshotFound(c, id)) \/ SnapshotFails(c)
      BY <1>2 DEF FindFresh, LoadSucceeds, LoadFails, CallCancelled
    <2>2. reply' = NoReply \/ reply' = [kind |-> "unavailable", by |-> c, id |-> None, seen |-> {}]
      BY <2>1 DEF SnapshotFound, SnapshotFails, Ends
    <2>3. QED
      BY <2>2
  <1>3. ASSUME NEW c \in Calls,
               \/ StartLoad(c) \/ StartPublish(c) \/ BeginImmediate(c) \/ CopyTable(c)
               \/ Commit(c) \/ PublishFails(c) \/ ReadTable(c)
        PROVE  reply'.kind # "status"
    BY <1>3 DEF StartLoad, StartPublish, BeginImmediate, CopyTable, Commit, PublishFails,
       ReadTable
  <1>4. ASSUME NEW c \in Calls,
               BeginQuery(c) \/ AnswerQuery(c) \/ QueryFails(c) \/ CheckStatus(c)
        PROVE  reply'.kind # "status"
    BY <1>4 DEF BeginQuery, AnswerQuery, QueryFails, CheckStatus, Ends
  <1>5. ASSUME NEW c \in Calls, ShowStatus(c)
        PROVE  pc[c] = "verified" /\ reply'.by = c /\ reply'.id = held[c]
    BY <1>5 DEF ShowStatus, Ends
  <1>6. ASSUME NEW w \in Workers, EntryExpires(w) \/ EntryDropped(w) \/ Restart(w)
        PROVE  reply'.kind # "status"
    BY <1>6 DEF EntryExpires, EntryDropped, Restart
  <1>7. QED
    BY <1>1, <1>2, <1>3, <1>4, <1>5, <1>6 DEF Step

\* A status row is about a snapshot that the database held while its call ran, whatever
\* commits between the check in its thread and the reply.
THEOREM Truthful == Spec => ShownWasCurrent
  <1>1. Init => HistoryInv
    BY DEF Init, HistoryInv
  <1>2. TypeInv /\ HistoryInv /\ [Next]_vars => HistoryInv'
    <2> SUFFICES ASSUME TypeInv, HistoryInv, [Next]_vars, NEW c \in Calls
                 PROVE  /\ pc'[c] \in {"verifying", "verified"} => db'[Meta] \in named'[c]
                        /\ pc'[c] = "verified" => held'[c] \in named'[c]
      BY DEF HistoryInv
    <2>1. CASE UNCHANGED vars
      BY <2>1 DEF vars, progVars, callVars, HistoryInv
    <2>2. CASE Next
      <3>1. pc'[c] \in {"verifying", "verified"} => named'[c] = named[c] \cup {db'[Meta]}
        BY <2>2 DEF Next, Remember
      <3>2. pc'[c] = "verified" => held'[c] \in named[c]
        BY <2>2, VerifiedByCheck DEF Next, HistoryInv
      <3>3. QED
        BY <3>1, <3>2
    <2>3. QED
      BY <2>1, <2>2
  <1>3. TypeInv /\ HistoryInv /\ [Next]_vars
          => [reply'.kind = "status" => reply'.id \in named[reply'.by]]_vars
    BY ShownByStatus DEF HistoryInv, Next
  <1>4. QED
    BY <1>1, <1>2, <1>3, TypeCorrect, PTL DEF Spec, ShownWasCurrent

-----------------------------------------------------------------------------
\* While a process refuses calls as warming_up, its warm-up task runs.
THEOREM WarmingIsTrue == Spec => []RefusedOnlyWhileWarming
  <1>1. Init => RefusedOnlyWhileWarming
    BY CallsAssumption DEF Init, RefusedOnlyWhileWarming, WarmUpCalls
  <1>2. TypeInv /\ RefusedOnlyWhileWarming /\ [Next]_vars => RefusedOnlyWhileWarming'
    <2> SUFFICES ASSUME TypeInv, RefusedOnlyWhileWarming, [Next]_vars
                 PROVE  RefusedOnlyWhileWarming'
      OBVIOUS
    <2> USE CallsAssumption DEF TypeInv, TypeOK, HoldsOK, RefusedOnlyWhileWarming, WarmUpCalls
    <2>1. ASSUME NEW c \in Calls, AskWhileWarming(c) \/ Ask(c) \/ AskStatus(c)
          PROVE  RefusedOnlyWhileWarming'
      BY <2>1 DEF AskWhileWarming, Ask, AskStatus, GoesOnWith, callVars
    <2>2. ASSUME NEW c \in Calls, FindFresh(c) \/ LoadSucceeds(c)
          PROVE  RefusedOnlyWhileWarming'
      BY <2>2 DEF FindFresh, LoadSucceeds, SnapshotFound, GoesOnWith, WarmupClears
    <2>3. ASSUME NEW c \in Calls, LoadFails(c) \/ CallCancelled(c)
          PROVE  RefusedOnlyWhileWarming'
      BY <2>3 DEF LoadFails, CallCancelled, SnapshotFound, SnapshotFails, Ends, GoesOnWith,
         WarmupClears
    <2>4. ASSUME NEW c \in Calls, StartLoad(c) \/ StartPublish(c)
          PROVE  RefusedOnlyWhileWarming'
      BY <2>4 DEF StartLoad, StartPublish
    <2>5. ASSUME NEW c \in Calls,
                 \/ BeginImmediate(c) \/ CopyTable(c) \/ Commit(c) \/ PublishFails(c)
                 \/ ReadTable(c)
          PROVE  RefusedOnlyWhileWarming'
      BY <2>5 DEF BeginImmediate, CopyTable, Commit, PublishFails, ReadTable, callVars
    <2>6. ASSUME NEW c \in Calls,
                 BeginQuery(c) \/ AnswerQuery(c) \/ QueryFails(c) \/ CheckStatus(c) \/ ShowStatus(c)
          PROVE  RefusedOnlyWhileWarming'
      <3>1. held[c] # None
        BY <2>6 DEF BeginQuery, AnswerQuery, QueryFails, CheckStatus, ShowStatus
      <3>2. c \notin Warmups
        BY <3>1
      <3>3. QED
        BY <2>6, <3>2 DEF BeginQuery, AnswerQuery, QueryFails, CheckStatus, ShowStatus, Ends, GoesOnWith
    <2>7. ASSUME NEW w \in Workers, EntryExpires(w) \/ EntryDropped(w)
          PROVE  RefusedOnlyWhileWarming'
      BY <2>7 DEF EntryExpires, EntryDropped, callVars
    <2>8. ASSUME NEW w \in Workers, Restart(w)
          PROVE  RefusedOnlyWhileWarming'
      BY <2>8 DEF Restart
    <2>9. CASE UNCHANGED vars
      BY <2>9 DEF vars, progVars, callVars
    <2>10. QED
      BY <2>1, <2>2, <2>3, <2>4, <2>5, <2>6, <2>7, <2>8, <2>9 DEF Next, Step
  <1>3. QED
    BY <1>1, <1>2, TypeCorrect, PTL DEF Spec

-----------------------------------------------------------------------------
\* Seen from the store, a step that answers nothing, commits nothing and begins no query
\* is one in which some readers give up, perhaps none.
LEMMA LooksLikeAbandon ==
    ASSUME db' = db, reply'.kind # "answer",
           \A d \in Calls : pc'[d] = "reading" => pc[d] = "reading" /\ held'[d] = held[d]
    PROVE  Store!Abandon
  <1> DEFINE R == {d \in Calls : pc'[d] # "reading"}
  <1>1. [d \in Calls |-> IF pc'[d] = "reading" THEN held'[d] ELSE None]
          = [d \in Calls |-> IF d \in R THEN None
                             ELSE [e \in Calls |-> IF pc[e] = "reading" THEN held[e] ELSE None][d]]
    OBVIOUS
  <1>2. R \in SUBSET Calls
    OBVIOUS
  <1>3. QED
    BY <1>1, <1>2 DEF Store!Abandon

\* What a step other than those five replies, and what it leaves of the database.
LEMMA QuietSteps ==
    ASSUME TypeInv, Step,
           ~ \E c \in Calls : AnswerQuery(c) \/ Commit(c) \/ BeginQuery(c)
    PROVE  reply'.kind # "answer" /\ db' = db
  <1> USE DEF Said, NoReply
  <1>1. ASSUME NEW c \in Calls, AskWhileWarming(c) \/ Ask(c) \/ AskStatus(c)
        PROVE  reply'.kind # "answer" /\ db' = db
    BY <1>1 DEF AskWhileWarming, Ask, AskStatus
  <1>2. ASSUME NEW c \in Calls, FindFresh(c) \/ LoadSucceeds(c)
        PROVE  reply'.kind # "answer" /\ db' = db
    <2>1. reply' = NoReply
      BY <1>2 DEF FindFresh, LoadSucceeds, SnapshotFound
    <2>2. db' = db
      BY <1>2 DEF FindFresh, LoadSucceeds
    <2>3. QED
      BY <2>1, <2>2
  <1>3. ASSUME NEW c \in Calls, LoadFails(c) \/ CallCancelled(c)
        PROVE  reply'.kind # "answer" /\ db' = db
    <2>1. SnapshotFound(c, cache[WorkerOf[c]].id) \/ SnapshotFails(c)
      BY <1>3 DEF LoadFails, CallCancelled
    <2>2. reply' = NoReply \/ reply' = [kind |-> "unavailable", by |-> c, id |-> None, seen |-> {}]
      BY <2>1 DEF SnapshotFound, SnapshotFails, Ends
    <2>3. db' = db
      BY <1>3 DEF LoadFails, CallCancelled
    <2>4. QED
      BY <2>2, <2>3
  <1>4. ASSUME NEW c \in Calls,
               \/ StartLoad(c) \/ StartPublish(c) \/ BeginImmediate(c) \/ CopyTable(c)
               \/ PublishFails(c) \/ ReadTable(c)
        PROVE  reply'.kind # "answer" /\ db' = db
    BY <1>4 DEF StartLoad, StartPublish, BeginImmediate, CopyTable, PublishFails, ReadTable
  <1>5. ASSUME NEW c \in Calls, QueryFails(c) \/ CheckStatus(c) \/ ShowStatus(c)
        PROVE  reply'.kind # "answer" /\ db' = db
    BY <1>5 DEF QueryFails, CheckStatus, ShowStatus, Ends
  <1>6. ASSUME NEW w \in Workers, EntryExpires(w) \/ EntryDropped(w) \/ Restart(w)
        PROVE  reply'.kind # "answer" /\ db' = db
    BY <1>6 DEF EntryExpires, EntryDropped, Restart
  <1>7. QED
    BY <1>1, <1>2, <1>3, <1>4, <1>5, <1>6 DEF Next, Step

\* The publication implements what the store promises its readers: tables change together,
\* and an answer comes from the one snapshot published when its query began.
THEOREM Implements == Spec => ImplementsStore
  <1>1. Init => Store!Init
    <2> SUFFICES ASSUME Init
                 PROVE  Store!Init
      OBVIOUS
    <2>1. db = Store!Image(None)
      BY DEF Init, Store!Image
    <2>2. \A c \in Calls : pc[c] # "reading"
      BY DEF Init
    <2>3. reply.kind # "answer"
      BY DEF Init, NoReply, Said
    <2>4. QED
      BY <2>1, <2>2, <2>3 DEF Store!Init
  <1>2. TypeInv /\ PublicationInv /\ PublicationInv' /\ [Next]_vars
          => [Store!Next]_(Store!storeVars)
    <2> SUFFICES ASSUME TypeInv, PublicationInv, PublicationInv', [Next]_vars
                 PROVE  [Store!Next]_(Store!storeVars)
      OBVIOUS
    <2> USE DEF TypeInv, TypeOK, HoldsOK
    <2>1. ASSUME NEW c \in Calls, Commit(c)
          PROVE  Store!Publish
      <3>1. thread[c].id \in Ids /\ tx \in DbImage
        BY <2>1 DEF Commit, Thread
      <3>2. \A t \in Tables : tx[t] = thread[c].id
        BY <2>1 DEF Commit, PublicationInv, WriterOK
      <3>3. db' = Store!Image(thread[c].id)
        BY <2>1, <3>1, <3>2 DEF Commit, Store!Image, DbImage, AllTables
      <3>4. UNCHANGED <<pc, held>> /\ reply'.kind # "answer"
        BY <2>1 DEF Commit, callVars, NoReply, Said
      <3>5. QED
        BY <3>1, <3>3, <3>4 DEF Store!Publish
    <2>2. ASSUME NEW c \in Calls, BeginQuery(c), db[Meta] = held[c]
          PROVE  Store!Pin(c)
      <3>1. held[c] \in Ids /\ pc[c] # "reading"
        BY <2>2 DEF BeginQuery
      <3>2. db = Store!Image(held[c])
        BY <2>2 DEF PublicationInv, DbWhole, Store!Image, DbImage, AllTables
      <3>3. /\ pc' = [pc EXCEPT ![c] = "reading"] /\ held' = held /\ db' = db
            /\ reply'.kind # "answer"
        BY <2>2 DEF BeginQuery, NoReply, Said
      <3>4. QED
        BY <3>1, <3>2, <3>3 DEF Store!Pin
    <2>3. ASSUME NEW c \in Calls, BeginQuery(c), db[Meta] # held[c]
          PROVE  Store!Abandon
      <3>1. db' = db /\ reply'.kind # "answer"
        BY <2>3 DEF BeginQuery, Ends, Said
      <3>2. \A d \in Calls : pc'[d] = "reading" => pc[d] = "reading" /\ held'[d] = held[d]
        BY <2>3 DEF BeginQuery, Ends, GoesOnWith
      <3>3. QED
        BY <3>1, <3>2, LooksLikeAbandon
    <2>4. ASSUME NEW c \in Calls, AnswerQuery(c)
          PROVE  Store!Answer(c)
      <3>1. held[c] # None /\ read[c].seen = {held[c]} /\ pc[c] = "reading"
        BY <2>4, TablesAssumption DEF AnswerQuery, PublicationInv, ReadersOK
      <3>2. reply' = [kind |-> "answer", by |-> c, id |-> held[c], seen |-> read[c].seen]
        BY <2>4 DEF AnswerQuery, Ends, Said
      <3>3. pc' = [pc EXCEPT ![c] = "idle"] /\ held' = [held EXCEPT ![c] = None] /\ db' = db
        BY <2>4 DEF AnswerQuery, Ends, GoesOnWith
      <3>4. QED
        BY <3>1, <3>2, <3>3 DEF Store!Answer
    <2>5. ASSUME NEW c \in Calls, ReadTable(c)
          PROVE  Store!Abandon
      <3>1. UNCHANGED <<db, pc, held>> /\ reply'.kind # "answer"
        BY <2>5 DEF ReadTable, NoReply, Said
      <3>2. QED
        BY <3>1, LooksLikeAbandon
    <2>6. ASSUME Step,
                 ~ \E c \in Calls : AnswerQuery(c) \/ Commit(c) \/ BeginQuery(c) \/ ReadTable(c)
          PROVE  Store!Abandon
      BY <2>6, QuietSteps, ReadersKeptByOthers, LooksLikeAbandon DEF ReadersKept
    <2>7. CASE UNCHANGED vars
      BY <2>7 DEF vars, progVars, callVars, Store!storeVars
    <2>8. QED
      BY <2>1, <2>2, <2>3, <2>4, <2>5, <2>6, <2>7 DEF Next, Store!Next
  <1>3. QED
    BY <1>1, <1>2, TypeCorrect, Publication, PTL DEF Spec, ImplementsStore, Store!Spec
=============================================================================
