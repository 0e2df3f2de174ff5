-------------------------- MODULE DatastoreCapture --------------------------
(***************************************************************************)
(* Taking a complete copy of a CKAN DataStore table, a page at a time,     *)
(* while its publisher changes it.  Four readers do so, each with checks   *)
(* of its own:                                                             *)
(*   sql     _load_snapshot of app/services/datastore_sql.py               *)
(*   stops   _fetch_datastore of app/connectors/gtfs.py                    *)
(*   market  market of app/connectors/city_open_data.py                    *)
(*   kart    _fetch_resource of app/connectors/istanbulkart.py             *)
(*                                                                         *)
(* A row is what its _id and the name of what it describes tell apart (its *)
(* stop_id, for stops).  An answer of CKAN shows the table of one moment,  *)
(* in the order of _id; the table changes between answers.  Bytes, schemas *)
(* and deadlines are abstracted: any answer may be refused for them.       *)
(***************************************************************************)
EXTENDS Integers, FiniteSets, Sequences

CONSTANTS
    Readers,
    Names,       \* what rows describe
    PageSize,
    MaxRows,     \* row budget of a reader
    MaxId,       \* bound of the _id of a row
    MaxChanges,  \* bound of the publisher's changes
    None

ASSUME ReadersAssumption == Readers \subseteq {"sql", "stops", "market", "kart"}
ASSUME BoundsAssumption ==
    PageSize \in Nat \ {0} /\ MaxRows \in Nat /\ MaxId \in Nat /\ MaxChanges \in Nat
ASSUME NoneAssumption == None \notin Nat

VARIABLES
    table,    \* the rows of the source: from their _id to what they describe
    nextId,   \* the _id the source gives to the next row
    changed,  \* bound: the changes so far
    reader,
    phase,    \* where the reader is
    total,    \* the total it goes by, None before it has one
    rows,     \* the rows it has taken
    first,    \* history: the table when total was read
    since,    \* history: the kinds of change since then
    failed    \* history: an answer was refused for what is abstracted here

sourceVars == <<table, nextId, changed>>
captureVars == <<reader, phase, total, rows, first, since, failed>>

-----------------------------------------------------------------------------
Ids == 1..MaxId
Tables == UNION {[ids -> Names] : ids \in SUBSET Ids}
Row == [id : Ids, name : Names]
Empty == [i \in {} |-> 0]
Capturing == phase \in {"metadata", "pages", "final"}
Size == Cardinality(DOMAIN table)

\* The row at a place, in the order of _id.
RowAt(t, place) ==
    LET id == CHOOSE i \in DOMAIN t : Cardinality({j \in DOMAIN t : j <= i}) = place
    IN  [id |-> id, name |-> t[id]]

\* The rows of a table from one place to another.
RowsOf(t, from, to) == [k \in 1..(to - from + 1) |-> RowAt(t, from + k - 1)]
AllRows(t) == RowsOf(t, 1, Cardinality(DOMAIN t))

CaptureTypeOK ==
    /\ table \in Tables
    /\ nextId \in 1..(MaxId + 1) /\ \A i \in DOMAIN table : i < nextId
    /\ changed \in 0..MaxChanges
    /\ reader \in Readers
    /\ phase \in {"idle", "metadata", "pages", "final", "accepted", "rejected"}
    /\ total \in Nat \cup {None}
    /\ rows \in Seq(Row)
    /\ first \in Tables
    /\ since \subseteq {"insert", "delete", "reload"}
    /\ failed \in BOOLEAN
    /\ total # None => Len(rows) <= total /\ total = Cardinality(DOMAIN first)
    /\ reader # "kart" => Len(rows) <= MaxRows

\* A table as the publisher loads it, from _id 1 on.
Loads == UNION {[1..n -> Names] : n \in 0..MaxId}

CaptureInit ==
    /\ table \in Loads
    /\ nextId = Cardinality(DOMAIN table) + 1
    /\ changed = 0
    /\ reader \in Readers
    /\ phase = "idle"
    /\ total = None
    /\ rows = << >>
    /\ first = Empty
    /\ since = {}
    /\ failed = FALSE

-----------------------------------------------------------------------------
(***************************************************************************)
(* The publisher: rows come and go, or the table is loaded anew, with the  *)
(* same identifiers for other rows.                                        *)
(***************************************************************************)
Change(kind) ==
    /\ changed < MaxChanges
    /\ changed' = changed + 1
    /\ since' = IF Capturing THEN since \cup {kind} ELSE since
    /\ UNCHANGED <<reader, phase, total, rows, first, failed>>

Insert ==
    /\ nextId <= MaxId
    /\ \E name \in Names :
          table' = [i \in DOMAIN table \cup {nextId} |-> IF i = nextId THEN name ELSE table[i]]
    /\ nextId' = nextId + 1
    /\ Change("insert")

Delete ==
    /\ \E id \in DOMAIN table : table' = [i \in DOMAIN table \ {id} |-> table[i]]
    /\ UNCHANGED nextId
    /\ Change("delete")

Reload ==
    /\ table' \in Loads
    /\ nextId' = Cardinality(DOMAIN table') + 1
    /\ Change("reload")

SourceNext == Insert \/ Delete \/ Reload

-----------------------------------------------------------------------------
(***************************************************************************)
(* The reader.  Each answer is read and checked in one step.               *)
(***************************************************************************)
Begin ==
    /\ phase = "idle"
    /\ phase' = IF reader = "sql" THEN "metadata" ELSE "pages"
    /\ total' = None
    /\ rows' = << >>
    /\ first' = Empty
    /\ since' = {}
    /\ failed' = FALSE
    /\ UNCHANGED reader

\* sql asks for the total alone before the pages, and again after them.
Metadata ==
    /\ phase = "metadata"
    /\ IF Size > MaxRows THEN phase' = "rejected" /\ UNCHANGED <<total, first, since>>
       ELSE /\ phase' = IF Size = 0 THEN "final" ELSE "pages"
            /\ total' = Size
            /\ first' = table
            /\ since' = {}
    /\ UNCHANGED <<sourceVars, reader, rows, failed>>

\* The total as a bug would have it, compared but not bounded.
TotalUnbounded(answer) == reader = "kart" \/ total = None \/ Size = total

\* Whether the total of an answer lets the reader go on; only kart ignores it.
TotalAgrees(answer) == reader = "kart" \/ (Size <= MaxRows /\ (total = None \/ Size = total))

\* The order as a bug would have it, compared within each page.
OrderedInPage(answer) == reader = "sql" => \A i \in 2..Len(answer) : answer[i - 1].id < answer[i].id

\* sql wants every _id larger than the one before it, across pages too.
Ordered(answer) ==
    reader = "sql" =>
        LET taken == rows \o answer
        IN  \A i \in (Len(rows) + 1)..Len(taken) : i > 1 => taken[i - 1].id < taken[i].id

\* The accounting as three bugs would have it: rows beyond the total, empty pages before
\* it, or a short page taken for the last one.
CountedAtLeast(answer, all) == answer = << >> => Len(rows) = all
CountedAtMost(answer, all) == Len(rows) + Len(answer) <= all
CountedInFull(answer, all) ==
    /\ Len(rows) + Len(answer) <= all
    /\ Len(answer) < PageSize => Len(rows) + Len(answer) = all

\* A page may be shorter than asked for, but neither empty before the end nor beyond it.
Counted(answer, all) ==
    /\ Len(rows) + Len(answer) <= all
    /\ answer = << >> => Len(rows) = all

\* stops must not be empty, nor name a stop twice; market must not be empty.
Usable(taken) ==
    /\ reader \in {"stops", "market"} => taken # << >>
    /\ reader = "stops" => \A i, j \in DOMAIN taken : taken[i].name = taken[j].name => i = j

\* One page.
Page ==
    /\ phase = "pages"
    /\ LET here == Len(rows)
           all == IF total = None THEN Size ELSE total
           asked == IF reader = "sql" /\ all - here < PageSize THEN all - here ELSE PageSize
           there == IF Size > here THEN Size - here ELSE 0
       IN  \E n \in (IF there = 0 THEN {0} ELSE 1..there) \cap (0..asked) :
             LET answer == RowsOf(table, here + 1, here + n)
                 taken == rows \o answer
             IN  IF TotalAgrees(answer) /\ Ordered(answer) /\ Counted(answer, all)
                 THEN /\ total' = all
                      /\ first' = IF total = None THEN table ELSE first
                      /\ since' = IF total = None THEN {} ELSE since
                      /\ rows' = taken
                      /\ phase' = IF Len(taken) < all THEN "pages"
                                  ELSE IF reader = "sql" THEN "final"
                                  ELSE IF Usable(taken) THEN "accepted"
                                  ELSE "rejected"
                 ELSE phase' = "rejected" /\ UNCHANGED <<total, rows, first, since>>
    /\ UNCHANGED <<sourceVars, reader, failed>>

\* The final look as a bug would have it, left out.
FinalTrusted ==
    /\ phase = "final"
    /\ phase' = "accepted"
    /\ UNCHANGED <<sourceVars, reader, total, rows, first, since, failed>>

Final ==
    /\ phase = "final"
    /\ phase' = IF Size = total THEN "accepted" ELSE "rejected"
    /\ UNCHANGED <<sourceVars, reader, total, rows, first, since, failed>>

\* A transport error, an exhausted byte budget, another schema, the load timeout.
AnswerFails ==
    /\ Capturing
    /\ phase' = "rejected"
    /\ failed' = TRUE
    /\ UNCHANGED <<sourceVars, reader, total, rows, first, since>>

Answer == Metadata \/ Page \/ Final
CaptureNext == Answer \/ AnswerFails

-----------------------------------------------------------------------------
\* A total that no longer is what it was when the copy was begun does not go unnoticed: for
\* sql at the end of the copy, for stops and market at the last page.
ChangedTotalIsNoticed ==
    [][phase # "accepted" /\ phase' = "accepted" =>
          reader = "kart" \/ Size = Cardinality(DOMAIN first')]_<<sourceVars, captureVars>>

\* A copy taken while rows only came, or while rows only went, is the table as it was when
\* its total was read, whole and in order: none of the readers takes a torn one for complete.
OneSidedChangeIsHarmless ==
    phase = "accepted" /\ (since \subseteq {"insert"} \/ since \subseteq {"delete"}) =>
        rows = AllRows(first)

\* Whatever the publisher does, sql never aggregates a row twice and stops never lists a stop
\* twice; the others take no row twice unless the table is loaded anew under them.
NothingTakenTwice ==
    phase = "accepted" => \A i, j \in DOMAIN rows : i # j =>
        /\ reader = "sql" \/ "reload" \notin since => rows[i].id # rows[j].id
        /\ reader = "stops" => rows[i].name # rows[j].name

\* A copy is rejected only for a cause: an answer that failed, a table that changed, too many
\* rows, or a table that the reader cannot use.  A table left alone is never refused.
RejectedForCause ==
    [][phase # "rejected" /\ phase' = "rejected" =>
          \/ failed'
          \/ since # {}
          \/ reader # "kart" /\ Size > MaxRows
          \/ ~Usable(AllRows(table))]_<<sourceVars, captureVars>>
=============================================================================
