--------------------------- MODULE ScheduleStore ---------------------------
(***************************************************************************)
(* What the published timetable promises its readers.  The store holds at  *)
(* most one snapshot, all of whose tables change together; a reader pins   *)
(* the snapshot that is published when it begins, and answers from that    *)
(* one alone or not at all.                                                *)
(***************************************************************************)
CONSTANTS
    Readers,    \* calls that may read the store
    Snapshots,  \* snapshot ids
    Tables,     \* tables of a snapshot
    None

VARIABLES
    published,  \* the image of the store: the snapshot each table belongs to
    pinned,     \* the snapshot each reader has begun to read, or None
    answer      \* what the last step answered, or None

storeVars == <<published, pinned, answer>>

Image(s) == [t \in Tables |-> s]

Init ==
    /\ published = Image(None)
    /\ pinned = [r \in Readers |-> None]
    /\ answer = None

\* Another snapshot takes the place of all tables at once.
Publish ==
    /\ \E s \in Snapshots : published' = Image(s)
    /\ answer' = None
    /\ UNCHANGED pinned

\* A reader begins on the snapshot that is published now.
Pin(r) ==
    /\ pinned[r] = None
    /\ \E s \in Snapshots :
        /\ published = Image(s)
        /\ pinned' = [pinned EXCEPT ![r] = s]
    /\ answer' = None
    /\ UNCHANGED published

\* A reader answers, with rows of the snapshot it names and of no other.
Answer(r) ==
    /\ pinned[r] # None
    /\ answer' = [by |-> r, snapshot |-> pinned[r], from |-> {pinned[r]}]
    /\ pinned' = [pinned EXCEPT ![r] = None]
    /\ UNCHANGED published

\* Readers give up: a deadline, an error, or the end of their process.
Abandon ==
    /\ \E R \in SUBSET Readers :
        pinned' = [r \in Readers |-> IF r \in R THEN None ELSE pinned[r]]
    /\ answer' = None
    /\ UNCHANGED published

Next == Publish \/ Abandon \/ \E r \in Readers : Pin(r) \/ Answer(r)

Spec == Init /\ [][Next]_storeVars
=============================================================================
