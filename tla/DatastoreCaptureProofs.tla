----------------------- MODULE DatastoreCaptureProofs -----------------------
(***************************************************************************)
(* Proofs about the copies that DatastoreCapture takes, in the behaviours  *)
(* of DatastoreSql: for any readers, names, page sizes, budgets and tables *)
(* of any size.                                                            *)
(***************************************************************************)
EXTENDS DatastoreSql, FiniteSetTheorems, SequenceTheorems, TLAPS

-----------------------------------------------------------------------------
(* The place of a row in a table *)

Rank(t, i) == Cardinality({j \in DOMAIN t : j <= i})

\* Rows in the order of their _id.
Rising(s) == \A i, j \in DOMAIN s : i < j => s[i].id < s[j].id

\* Table t is table u with rows added after its own.
Extended(t, u) ==
    /\ DOMAIN u \subseteq DOMAIN t
    /\ \A i \in DOMAIN u : t[i] = u[i]
    /\ \A i \in DOMAIN u, j \in DOMAIN t \ DOMAIN u : i < j

\* A table is a function from some of the row ids to names.
LEMMA TableType ==
    ASSUME NEW t
    PROVE  t \in Tables <=> t \in [DOMAIN t -> Names] /\ DOMAIN t \subseteq Ids
  BY DEF Tables

\* A table has finitely many rows, and a row has no more rows before it than there are.
LEMMA TableFinite ==
    ASSUME NEW t \in Tables
    PROVE  /\ IsFiniteSet(DOMAIN t) /\ Cardinality(DOMAIN t) \in Nat
           /\ DOMAIN t \subseteq Nat
           /\ \A i \in Nat : Rank(t, i) \in Nat /\ Rank(t, i) <= Cardinality(DOMAIN t)
  <1>1. IsFiniteSet(Ids) /\ DOMAIN t \subseteq Ids /\ Ids \subseteq Nat
    <2>1. DOMAIN t \subseteq Ids
      BY TableType
    <2>2. 1 \in Int /\ MaxId \in Int
      BY BoundsAssumption
    <2>3. IsFiniteSet(Ids)
      BY <2>2, FS_Interval DEF Ids
    <2>4. Ids \subseteq Nat
      BY <2>2 DEF Ids
    <2>5. QED
      BY <2>1, <2>3, <2>4
  <1>2. IsFiniteSet(DOMAIN t) /\ Cardinality(DOMAIN t) \in Nat
    BY <1>1, FS_Subset, FS_CardinalityType
  <1>3. ASSUME NEW i \in Nat PROVE Rank(t, i) \in Nat /\ Rank(t, i) <= Cardinality(DOMAIN t)
    <2>1. {j \in DOMAIN t : j <= i} \in SUBSET DOMAIN t
      OBVIOUS
    <2>2. QED
      BY <1>2, <2>1, FS_Subset, FS_CardinalityType DEF Rank
  <1>4. QED
    BY <1>1, <1>2, <1>3

\* Rows further on have a higher place.
LEMMA RankGrows ==
    ASSUME NEW t \in Tables, NEW i \in Nat, NEW j \in DOMAIN t, i < j
    PROVE  Rank(t, i) < Rank(t, j)
  <1> DEFINE A == {k \in DOMAIN t : k <= i}
             B == {k \in DOMAIN t : k <= j}
  <1>1. IsFiniteSet(DOMAIN t) /\ DOMAIN t \subseteq Nat
    BY TableFinite
  <1>2. IsFiniteSet(B)
    BY <1>1, FS_Subset
  <1>3. A \in SUBSET B /\ A # B
    BY <1>1
  <1>4. Cardinality(A) <= Cardinality(B) /\ (Cardinality(B) = Cardinality(A) => B = A)
    BY <1>2, <1>3, FS_Subset
  <1>5. Cardinality(A) \in Nat /\ Cardinality(B) \in Nat
    BY <1>1, FS_Subset, FS_CardinalityType
  <1>6. QED
    BY <1>3, <1>4, <1>5 DEF Rank

\* Every place up to the size of the table is that of one row.
LEMMA PlaceTaken ==
    ASSUME NEW t \in Tables, NEW place \in 1..Cardinality(DOMAIN t)
    PROVE  \E i \in DOMAIN t : Rank(t, i) = place
  <1> DEFINE n == Cardinality(DOMAIN t)
             f == [i \in DOMAIN t |-> Rank(t, i)]
  <1>1. IsFiniteSet(DOMAIN t) /\ n \in Nat /\ DOMAIN t \subseteq Nat
    BY TableFinite
  <1>2. ASSUME NEW i \in DOMAIN t PROVE Rank(t, i) \in 1..n
    <2>1. Rank(t, i) \in Nat /\ Rank(t, i) <= n
      BY <1>1, TableFinite
    <2>2. i \in {j \in DOMAIN t : j <= i} /\ IsFiniteSet({j \in DOMAIN t : j <= i})
      BY <1>1, FS_Subset
    <2>3. Rank(t, i) # 0
      BY <2>2, FS_EmptySet DEF Rank
    <2>4. QED
      BY <2>1, <2>3
  <1>3. f \in [DOMAIN t -> 1..n]
    BY <1>2
  <1>4. ASSUME NEW i \in DOMAIN t, NEW j \in DOMAIN t, f[i] = f[j] PROVE i = j
    <2>1. ~(i < j) /\ ~(j < i)
      <3>1. Rank(t, i) = Rank(t, j) /\ Rank(t, i) \in Nat /\ i \in Nat /\ j \in Nat
        BY <1>1, <1>4, TableFinite
      <3>2. QED
        BY <3>1, RankGrows
    <2>2. QED
      BY <1>1, <2>1
  <1>5. f \in Injection(DOMAIN t, 1..n)
    BY <1>3, <1>4 DEF Injection, IsInjective
  <1>6. IsFiniteSet(1..n) /\ Cardinality(1..n) = n
    BY <1>1, FS_Interval
  <1>7. f \in Surjection(DOMAIN t, 1..n)
    BY <1>5, <1>6, FS_Injection
  <1>8. QED
    BY <1>7 DEF Surjection

\* One row has it, and RowAt is that row.
LEMMA RowInPlace ==
    ASSUME NEW t \in Tables, NEW i \in DOMAIN t
    PROVE  /\ Rank(t, i) \in 1..Cardinality(DOMAIN t)
           /\ RowAt(t, Rank(t, i)) = [id |-> i, name |-> t[i]]
           /\ RowAt(t, Rank(t, i)) \in Row
  <1>1. IsFiniteSet(DOMAIN t) /\ DOMAIN t \subseteq Nat /\ t \in [DOMAIN t -> Names] /\ DOMAIN t \subseteq Ids
    BY TableFinite, TableType
  <1>2. Rank(t, i) \in Nat /\ Rank(t, i) <= Cardinality(DOMAIN t) /\ Cardinality(DOMAIN t) \in Nat
    BY <1>1, TableFinite
  <1>3. Rank(t, i) # 0
    <2>1. i \in {j \in DOMAIN t : j <= i} /\ IsFiniteSet({j \in DOMAIN t : j <= i})
      BY <1>1, FS_Subset
    <2>2. QED
      BY <2>1, FS_EmptySet DEF Rank
  <1>4. ASSUME NEW k \in DOMAIN t, Rank(t, k) = Rank(t, i) PROVE k = i
    <2>1. k \in Nat /\ i \in Nat /\ Rank(t, k) \in Nat
      BY <1>1, TableFinite
    <2>2. k < i => Rank(t, k) < Rank(t, i)
      BY <2>1, RankGrows
    <2>3. i < k => Rank(t, i) < Rank(t, k)
      BY <2>1, RankGrows
    <2>4. QED
      BY <1>2, <1>4, <2>1, <2>2, <2>3
  <1>5. i = CHOOSE k \in DOMAIN t : Cardinality({j \in DOMAIN t : j <= k}) = Rank(t, i)
    BY <1>4 DEF Rank
  <1>6. RowAt(t, Rank(t, i)) = [id |-> i, name |-> t[i]]
    BY <1>5 DEF RowAt
  <1>7. [id |-> i, name |-> t[i]] \in Row
    BY <1>1 DEF Row
  <1>8. QED
    BY <1>2, <1>3, <1>6, <1>7

\* The rows of a table from one place to another are in the order of their _id.
LEMMA RowsInOrder ==
    ASSUME NEW t \in Tables, NEW from \in Nat \ {0}, NEW to \in Nat,
           to <= Cardinality(DOMAIN t) \/ to = from - 1, from <= to + 1
    PROVE  LET s == RowsOf(t, from, to) IN
           /\ s \in Seq(Row) /\ Len(s) = to - from + 1
           /\ \A k \in 1..(to - from + 1) : s[k] = RowAt(t, from + k - 1)
           /\ \A k \in 1..(to - from + 1) : s[k].id \in DOMAIN t /\ Rank(t, s[k].id) = from + k - 1
           /\ Rising(s)
  <1> DEFINE s == RowsOf(t, from, to)
             n == to - from + 1
  <1>1. s = [k \in 1..n |-> RowAt(t, from + k - 1)] /\ n \in Nat
    BY DEF RowsOf
  <1>2. ASSUME NEW k \in 1..n
        PROVE  /\ RowAt(t, from + k - 1) \in Row
               /\ RowAt(t, from + k - 1).id \in DOMAIN t
               /\ Rank(t, RowAt(t, from + k - 1).id) = from + k - 1
    <2>1. from + k - 1 \in 1..Cardinality(DOMAIN t)
      BY TableFinite
    <2>2. PICK i \in DOMAIN t : Rank(t, i) = from + k - 1
      BY <2>1, PlaceTaken
    <2>3. QED
      BY <2>2, RowInPlace
  <1> HIDE DEF s, n
  <1>3. s \in [1..n -> Row]
    BY <1>1, <1>2
  <1>4. s \in Seq(Row)
    BY <1>1, <1>3, SeqDef
  <1>5. Len(s) = n
    BY <1>1, <1>3, <1>4, LenProperties
  <1>6. DOMAIN s = 1..n /\ \A k \in 1..n : s[k] = RowAt(t, from + k - 1)
    BY <1>1
  <1>7. \A k \in 1..n : s[k].id \in DOMAIN t /\ Rank(t, s[k].id) = from + k - 1
    BY <1>2, <1>6
  <1>8. ASSUME NEW i \in 1..n, NEW j \in 1..n, i < j PROVE s[i].id < s[j].id
    <2>1. s[i].id \in DOMAIN t /\ s[j].id \in DOMAIN t /\ DOMAIN t \subseteq Nat
      BY <1>7, TableFinite
    <2>2. Rank(t, s[i].id) = from + i - 1 /\ Rank(t, s[j].id) = from + j - 1
      BY <1>7
    <2>3. i \in Nat /\ j \in Nat
      OBVIOUS
    <2>4. s[j].id < s[i].id => Rank(t, s[j].id) < Rank(t, s[i].id)
      BY <2>1, RankGrows
    <2>5. s[j].id # s[i].id /\ ~(s[j].id < s[i].id)
      BY <1>8, <2>2, <2>3, <2>4
    <2>6. QED
      BY <2>1, <2>5
  <1>9. Rising(s)
    BY <1>6, <1>8 DEF Rising
  <1>10. QED
    BY <1>4, <1>5, <1>6, <1>7, <1>9 DEF s, n

\* The rows that follow those already taken.
LEMMA RowsAfter ==
    ASSUME NEW t \in Tables, NEW m \in Nat, NEW n \in Nat, n = 0 \/ m + n <= Cardinality(DOMAIN t)
    PROVE  LET s == RowsOf(t, m + 1, m + n) IN
           /\ s \in Seq(Row) /\ Len(s) = n
           /\ \A k \in 1..n : s[k].id \in DOMAIN t /\ Rank(t, s[k].id) = m + k
           /\ Rising(s)
  <1> DEFINE s == RowsOf(t, m + 1, m + n)
  <1>1. /\ m + 1 \in Nat \ {0} /\ m + n \in Nat /\ m + 1 <= (m + n) + 1
        /\ m + n <= Cardinality(DOMAIN t) \/ m + n = (m + 1) - 1
    OBVIOUS
  <1>2. (m + n) - (m + 1) + 1 = n /\ \A k \in 1..n : (m + 1) + k - 1 = m + k
    OBVIOUS
  <1>3. /\ s \in Seq(Row) /\ Len(s) = (m + n) - (m + 1) + 1
        /\ \A k \in 1..((m + n) - (m + 1) + 1) :
              s[k].id \in DOMAIN t /\ Rank(t, s[k].id) = (m + 1) + k - 1
        /\ Rising(s)
    BY <1>1, RowsInOrder
  <1> HIDE DEF s
  <1>4. QED
    BY <1>2, <1>3 DEF s

\* What is taken page by page is what would be taken at once.
LEMMA RowsJoin ==
    ASSUME NEW t \in Tables, NEW m \in Nat, NEW n \in Nat, n <= Cardinality(DOMAIN t), m <= n
    PROVE  RowsOf(t, 1, m) \o RowsOf(t, m + 1, n) = RowsOf(t, 1, n)
  <1> DEFINE r == RowsOf(t, 1, m)  s == RowsOf(t, m + 1, n)  all == RowsOf(t, 1, n)
  <1>0. /\ Cardinality(DOMAIN t) \in Nat /\ m <= Cardinality(DOMAIN t)
        /\ 1 \in Nat \ {0} /\ m + 1 \in Nat \ {0} /\ 1 <= m + 1 /\ 1 <= n + 1 /\ m + 1 <= n + 1
    BY TableFinite
  <1>1. r \in Seq(Row) /\ Len(r) = m /\ \A k \in 1..m : r[k] = RowAt(t, k)
    <2>1. r \in Seq(Row) /\ Len(r) = m - 1 + 1 /\ \A k \in 1..(m - 1 + 1) : r[k] = RowAt(t, 1 + k - 1)
      BY <1>0, RowsInOrder
    <2>2. m - 1 + 1 = m /\ \A k \in 1..m : 1 + k - 1 = k
      OBVIOUS
    <2>3. QED
      BY <2>1, <2>2
  <1>2. s \in Seq(Row) /\ Len(s) = n - m /\ \A k \in 1..(n - m) : s[k] = RowAt(t, m + k)
    <2>1. /\ s \in Seq(Row) /\ Len(s) = n - (m + 1) + 1
          /\ \A k \in 1..(n - (m + 1) + 1) : s[k] = RowAt(t, (m + 1) + k - 1)
      BY <1>0, RowsInOrder
    <2>2. n - (m + 1) + 1 = n - m /\ \A k \in 1..(n - m) : (m + 1) + k - 1 = m + k
      OBVIOUS
    <2>3. QED
      BY <2>1, <2>2
  <1>3. all \in Seq(Row) /\ Len(all) = n /\ \A k \in 1..n : all[k] = RowAt(t, k)
    <2>1. all \in Seq(Row) /\ Len(all) = n - 1 + 1 /\ \A k \in 1..(n - 1 + 1) : all[k] = RowAt(t, 1 + k - 1)
      BY <1>0, RowsInOrder
    <2>2. n - 1 + 1 = n /\ \A k \in 1..n : 1 + k - 1 = k
      OBVIOUS
    <2>3. QED
      BY <2>1, <2>2
  <1> HIDE DEF r, s, all
  <1>4. r \o s \in Seq(Row) /\ Len(r \o s) = n
    <2>1. r \o s \in Seq(Row) /\ Len(r \o s) = m + (n - m)
      BY <1>1, <1>2, ConcatProperties
    <2>2. QED
      BY <2>1
  <1>5. ASSUME NEW k \in 1..n PROVE (r \o s)[k] = all[k]
    <2>1. (r \o s)[k] = IF k <= m THEN r[k] ELSE s[k - m]
      <3>1. k \in 1..(Len(r) + Len(s))
        BY <1>1, <1>2
      <3>2. (r \o s)[k] = IF k <= Len(r) THEN r[k] ELSE s[k - Len(r)]
        BY <1>1, <1>2, <3>1, ConcatProperties
      <3>3. QED
        BY <1>1, <3>2
    <2>2. CASE k <= m
      <3>1. k \in 1..m
        BY <2>2
      <3>2. QED
        BY <1>1, <1>3, <2>1, <2>2, <3>1
    <2>3. CASE k > m
      <3>1. k - m \in 1..(n - m) /\ m + (k - m) = k /\ ~(k <= m)
        BY <2>3
      <3>2. s[k - m] = RowAt(t, m + (k - m))
        BY <1>2, <3>1
      <3>3. QED
        BY <1>3, <2>1, <3>1, <3>2
    <2>4. k <= m \/ k > m
      OBVIOUS
    <2>5. QED
      BY <2>2, <2>3, <2>4
  <1>6. r \o s = all
    BY <1>3, <1>4, <1>5, SeqEqual
  <1>7. QED
    BY <1>6 DEF r, s, all

\* What is added above a table leaves its rows in their places.
LEMMA ExtendedRows ==
    ASSUME NEW t \in Tables, NEW u \in Tables, Extended(t, u), NEW from \in Nat \ {0},
           NEW to \in Nat, to <= Cardinality(DOMAIN u)
    PROVE  RowsOf(t, from, to) = RowsOf(u, from, to)
  <1>1. ASSUME NEW i \in DOMAIN u
        PROVE  i \in DOMAIN t /\ t[i] = u[i] /\ Rank(t, i) = Rank(u, i)
    <2>1. DOMAIN t \subseteq Nat /\ DOMAIN u \subseteq Nat
      BY TableFinite
    <2>2. {j \in DOMAIN t : j <= i} = {j \in DOMAIN u : j <= i}
      BY <2>1 DEF Extended
    <2>3. QED
      BY <2>2 DEF Extended, Rank
  <1>2. ASSUME NEW place \in 1..Cardinality(DOMAIN u) PROVE RowAt(t, place) = RowAt(u, place)
    <2>1. PICK i \in DOMAIN u : Rank(u, i) = place
      BY PlaceTaken
    <2>2. QED
      BY <1>1, <2>1, RowInPlace
  <1>3. ASSUME NEW k \in 1..(to - from + 1)
        PROVE  RowAt(t, from + k - 1) = RowAt(u, from + k - 1)
    <2>1. from + k - 1 \in 1..Cardinality(DOMAIN u)
      BY TableFinite
    <2>2. QED
      BY <1>2, <2>1
  <1>4. QED
    BY <1>3 DEF RowsOf

\* A row with a new _id, and a row less.
LEMMA RowAdded ==
    ASSUME NEW t \in Tables, NEW id \in Ids, NEW name \in Names, \A i \in DOMAIN t : i < id
    PROVE  LET u == [i \in DOMAIN t \cup {id} |-> IF i = id THEN name ELSE t[i]] IN
           /\ u \in Tables /\ DOMAIN u = DOMAIN t \cup {id}
           /\ Extended(u, t)
           /\ \A i \in DOMAIN t : Rank(u, i) = Rank(t, i)
           /\ \A i \in Nat : i < id => Rank(u, i) = Rank(t, i)
  <1> DEFINE u == [i \in DOMAIN t \cup {id} |-> IF i = id THEN name ELSE t[i]]
  <1>1. t \in [DOMAIN t -> Names] /\ DOMAIN t \subseteq Ids /\ DOMAIN t \subseteq Nat /\ id \in Nat
    BY TableType, TableFinite, BoundsAssumption DEF Ids
  <1>2. DOMAIN u = DOMAIN t \cup {id} /\ \A i \in DOMAIN t : u[i] = t[i]
    BY <1>1
  <1>3. u \in Tables
    <2>1. u \in [DOMAIN u -> Names] /\ DOMAIN u \subseteq Ids
      BY <1>1, <1>2
    <2>2. QED
      BY <2>1, TableType
  <1>4. Extended(u, t)
    BY <1>1, <1>2 DEF Extended
  <1>5. ASSUME NEW i \in Nat, i < id PROVE Rank(u, i) = Rank(t, i)
    <2>1. {j \in DOMAIN u : j <= i} = {j \in DOMAIN t : j <= i}
      BY <1>1, <1>2, <1>5
    <2>2. QED
      BY <2>1 DEF Rank
  <1>6. QED
    BY <1>1, <1>2, <1>3, <1>4, <1>5

\* A table less one row is a table with one row fewer, where no row has moved back.
LEMMA RowRemoved ==
    ASSUME NEW t \in Tables, NEW id \in DOMAIN t
    PROVE  LET u == [i \in DOMAIN t \ {id} |-> t[i]] IN
           /\ u \in Tables /\ DOMAIN u = DOMAIN t \ {id}
           /\ Cardinality(DOMAIN u) = Cardinality(DOMAIN t) - 1
           /\ \A i \in Nat : Rank(u, i) <= Rank(t, i)
  <1> DEFINE u == [i \in DOMAIN t \ {id} |-> t[i]]
  <1>1. t \in [DOMAIN t -> Names] /\ DOMAIN t \subseteq Ids /\ IsFiniteSet(DOMAIN t)
    BY TableType, TableFinite
  <1>2. DOMAIN u = DOMAIN t \ {id}
    OBVIOUS
  <1>3. u \in [DOMAIN u -> Names] /\ DOMAIN u \subseteq Ids
    BY <1>1, <1>2
  <1>4. u \in Tables
    BY <1>3, TableType
  <1>5. Cardinality(DOMAIN u) = Cardinality(DOMAIN t) - 1
    BY <1>1, <1>2, FS_RemoveElement
  <1>6. ASSUME NEW i \in Nat PROVE Rank(u, i) <= Rank(t, i)
    <2>1. {j \in DOMAIN u : j <= i} \in SUBSET {j \in DOMAIN t : j <= i}
      BY <1>2
    <2>2. IsFiniteSet({j \in DOMAIN t : j <= i})
      BY <1>1, FS_Subset
    <2>3. QED
      BY <2>1, <2>2, FS_Subset DEF Rank
  <1>7. QED
    BY <1>2, <1>4, <1>5, <1>6

\* A table that was loaded anew numbers its rows from one on, without gaps.
LEMMA Loaded ==
    ASSUME NEW t \in Loads
    PROVE  /\ t \in Tables
           /\ Cardinality(DOMAIN t) \in 0..MaxId
           /\ \A i \in DOMAIN t : i < Cardinality(DOMAIN t) + 1
  <1>1. PICK n \in 0..MaxId : t \in [1..n -> Names]
    BY DEF Loads
  <1>2. n \in Nat /\ 1 \in Int /\ n \in Int /\ DOMAIN t = 1..n /\ n <= MaxId
    BY <1>1, BoundsAssumption
  <1>3. Cardinality(DOMAIN t) = n
    BY <1>2, FS_Interval
  <1>4. t \in [DOMAIN t -> Names] /\ DOMAIN t \subseteq Ids
    BY <1>1, <1>2, BoundsAssumption DEF Ids
  <1>5. t \in Tables
    BY <1>4, TableType
  <1>6. QED
    BY <1>1, <1>2, <1>3, <1>5

-----------------------------------------------------------------------------
(***************************************************************************)
(* The invariant.  A change moves the rows the reader has not read yet, so *)
(* that what it accepts in the end depends on what it knows at each page:  *)
(* that rows are taken in order, with none left out before the last one    *)
(* unless the table was loaded anew; that rows that only come lie after    *)
(* all the rows it counts; and that rows that only go leave too few.       *)
(***************************************************************************)
Shape ==
    /\ CaptureTypeOK
    /\ total = None => rows = << >>
    /\ phase = "metadata" => reader = "sql" /\ total = None
    /\ phase = "pages" => IF total = None THEN reader # "sql" ELSE Len(rows) < total
    /\ phase = "final" => reader = "sql"
    /\ phase \in {"final", "accepted"} => total # None /\ Len(rows) = total

\* What was taken is in order, and the rows of the table up to the last one taken are no
\* more than were taken.
InOrder ==
    /\ reader = "sql" \/ "reload" \notin since => Rising(rows)
    /\ Capturing /\ "reload" \notin since /\ rows # << >> =>
          /\ rows[Len(rows)].id < nextId
          /\ Rank(table, rows[Len(rows)].id) <= Len(rows)

\* While rows only come, what was taken is the start of the table as it was.
Prefix ==
    Capturing /\ total # None /\ since \subseteq {"insert"} =>
        /\ Extended(table, first)
        /\ rows = RowsOf(first, 1, Len(rows))
        /\ since = {} => table = first

Shrunk == Capturing /\ total # None /\ since = {"delete"} => Size < total

Complete == phase = "accepted" => Usable(rows) /\ OneSidedChangeIsHarmless

IInv == Shape /\ InOrder /\ Prefix /\ Shrunk /\ Complete

\* Where rows were taken there is a last one, with an id.
LEMMA LastRow ==
    ASSUME CaptureTypeOK, rows # << >>
    PROVE  /\ Len(rows) \in Nat \ {0} /\ Len(rows) \in DOMAIN rows
           /\ rows[Len(rows)].id \in Nat
  <1>1. rows \in Seq(Row)
    BY DEF CaptureTypeOK
  <1>2. Len(rows) \in Nat \ {0} /\ DOMAIN rows = 1..Len(rows)
    BY <1>1, EmptySeq, LenProperties
  <1>3. Len(rows) \in 1..Len(rows)
    BY <1>2
  <1>4. rows[Len(rows)] \in Row
    BY <1>1, <1>3, ElementOfSeq
  <1>5. \A i \in Ids : i \in Nat
    BY BoundsAssumption DEF Ids
  <1>6. QED
    BY <1>2, <1>3, <1>4, <1>5 DEF Row

\* No capture is under way at first.
LEMMA Initially == ASSUME Init PROVE IInv
  <1> USE DEF Init, CaptureInit
  <1>1. table \in Tables /\ nextId \in 1..(MaxId + 1) /\ \A i \in DOMAIN table : i < nextId
    BY Loaded, BoundsAssumption
  <1>2. first \in Tables
    <2>1. Empty \in [DOMAIN Empty -> Names] /\ DOMAIN Empty \subseteq Ids
      BY DEF Empty
    <2>2. QED
      BY <2>1, TableType
  <1>3. rows \in Seq(Row) /\ Len(rows) = 0
    BY EmptySeq
  <1>4. /\ changed \in 0..MaxChanges /\ total \in Nat \cup {None} /\ Len(rows) <= MaxRows
        /\ reader \in Readers /\ phase = "idle" /\ since = {} /\ failed = FALSE
    BY <1>3, BoundsAssumption
  <1>5. CaptureTypeOK
    BY <1>1, <1>2, <1>3, <1>4 DEF CaptureTypeOK
  <1>6. QED
    BY <1>3, <1>5 DEF IInv, Shape, InOrder, Prefix, Shrunk, Complete, Capturing, Rising

-----------------------------------------------------------------------------
(* The publisher *)

\* A row that is added between two pages spoils nothing that was read.
LEMMA InsertKeeps == ASSUME IInv, Insert PROVE IInv'
  <1>1. PICK name \in Names :
            table' = [i \in DOMAIN table \cup {nextId} |-> IF i = nextId THEN name ELSE table[i]]
    BY DEF Insert
  <1>2. /\ CaptureTypeOK /\ table \in Tables /\ nextId \in Ids /\ nextId' = nextId + 1
        /\ \A i \in DOMAIN table : i < nextId
        /\ UNCHANGED <<reader, phase, total, rows, first, failed>>
        /\ changed' \in 0..MaxChanges
        /\ since' = IF Capturing THEN since \cup {"insert"} ELSE since
    BY BoundsAssumption DEF IInv, Shape, CaptureTypeOK, Insert, Change, Ids
  <1>3. /\ table' \in Tables /\ DOMAIN table' = DOMAIN table \cup {nextId}
        /\ Extended(table', table)
        /\ \A i \in Nat : i < nextId => Rank(table', i) = Rank(table, i)
    BY <1>1, <1>2, RowAdded
  <1>4. CaptureTypeOK'
    <2>1. nextId' \in 1..(MaxId + 1) /\ \A i \in DOMAIN table' : i < nextId'
      BY <1>2, <1>3, TableFinite, BoundsAssumption DEF Ids
    <2>2. since' \subseteq {"insert", "delete", "reload"}
      BY <1>2 DEF CaptureTypeOK
    <2>3. QED
      BY <1>2, <1>3, <2>1, <2>2 DEF CaptureTypeOK
  <1>5. Shape'
    BY <1>2, <1>4 DEF IInv, Shape
  <1>6. InOrder'
    <2>1. reader = "sql" \/ "reload" \notin since' => Rising(rows)
      BY <1>2 DEF IInv, InOrder
    <2>2. ASSUME Capturing, "reload" \notin since', rows # << >>
          PROVE  rows[Len(rows)].id < nextId' /\ Rank(table', rows[Len(rows)].id) <= Len(rows)
      <3>1. rows[Len(rows)].id < nextId /\ Rank(table, rows[Len(rows)].id) <= Len(rows)
        BY <1>2, <2>2 DEF IInv, InOrder
      <3>2. rows[Len(rows)].id \in Nat
        BY <1>2, <2>2, LastRow
      <3>3. QED
        BY <1>2, <1>3, <3>1, <3>2, BoundsAssumption DEF Ids
    <2>3. QED
      BY <1>2, <2>1, <2>2 DEF InOrder, Capturing
  <1>7. Prefix'
    <2>1. SUFFICES ASSUME Capturing, total # None, since \subseteq {"insert"}
                   PROVE  Extended(table', first) /\ rows = RowsOf(first, 1, Len(rows))
      BY <1>2 DEF Prefix, Capturing
    <2>2. Extended(table, first) /\ rows = RowsOf(first, 1, Len(rows))
      BY <2>1 DEF IInv, Prefix
    <2>3. \A i \in DOMAIN first : i \in DOMAIN table /\ i < nextId
      BY <1>2, <2>2 DEF Extended
    <2>4. QED
      BY <1>3, <2>2, <2>3 DEF Extended
  <1>8. Shrunk' /\ Complete'
    BY <1>2 DEF IInv, Shrunk, Complete, Capturing, Usable, OneSidedChangeIsHarmless
  <1>9. QED
    BY <1>5, <1>6, <1>7, <1>8 DEF IInv

\* A row that is deleted between two pages moves the rows behind it, which the invariant allows for.
LEMMA DeleteKeeps == ASSUME IInv, Delete PROVE IInv'
  <1>1. PICK id \in DOMAIN table : table' = [i \in DOMAIN table \ {id} |-> table[i]]
    BY DEF Delete
  <1>2. /\ CaptureTypeOK /\ table \in Tables /\ nextId' = nextId
        /\ UNCHANGED <<reader, phase, total, rows, first, failed>>
        /\ changed' \in 0..MaxChanges
        /\ since' = IF Capturing THEN since \cup {"delete"} ELSE since
    BY BoundsAssumption DEF IInv, Shape, CaptureTypeOK, Delete, Change
  <1>3. /\ table' \in Tables /\ DOMAIN table' = DOMAIN table \ {id}
        /\ Size' = Size - 1
        /\ \A i \in Nat : Rank(table', i) <= Rank(table, i)
    BY <1>1, <1>2, RowRemoved DEF Size
  <1>4. Size \in Nat /\ Size' \in Nat
    BY <1>2, <1>3, TableFinite DEF Size
  <1>5. Shape'
    <2>1. CaptureTypeOK'
      BY <1>2, <1>3 DEF CaptureTypeOK
    <2>2. QED
      BY <1>2, <2>1 DEF IInv, Shape
  <1>6. InOrder'
    <2>1. reader = "sql" \/ "reload" \notin since' => Rising(rows)
      BY <1>2 DEF IInv, InOrder
    <2>2. ASSUME Capturing, "reload" \notin since', rows # << >>
          PROVE  rows[Len(rows)].id < nextId' /\ Rank(table', rows[Len(rows)].id) <= Len(rows)
      <3>1. rows[Len(rows)].id < nextId /\ Rank(table, rows[Len(rows)].id) <= Len(rows)
        BY <1>2, <2>2 DEF IInv, InOrder
      <3>2. rows[Len(rows)].id \in Nat /\ Len(rows) \in Nat
        BY <1>2, <2>2, LastRow
      <3>3. /\ Rank(table', rows[Len(rows)].id) <= Rank(table, rows[Len(rows)].id)
            /\ Rank(table', rows[Len(rows)].id) \in Nat /\ Rank(table, rows[Len(rows)].id) \in Nat
        BY <1>2, <1>3, <3>2, TableFinite
      <3>4. QED
        BY <1>2, <3>1, <3>2, <3>3
    <2>3. QED
      BY <1>2, <2>1, <2>2 DEF InOrder, Capturing
  <1>7. Prefix'
    BY <1>2 DEF Prefix, Capturing
  <1>8. Shrunk'
    <2>1. SUFFICES ASSUME Capturing, total # None, since' = {"delete"} PROVE Size' < total
      BY <1>2 DEF Shrunk, Capturing
    <2>2. total \in Nat /\ total = Cardinality(DOMAIN first)
      BY <1>2, <2>1 DEF CaptureTypeOK
    <2>3. since = {} \/ since = {"delete"}
      BY <1>2, <2>1
    <2>4. since = {} => Size = total
      BY <2>1, <2>2 DEF IInv, Prefix, Size
    <2>5. since = {"delete"} => Size < total
      BY <2>1 DEF IInv, Shrunk
    <2>6. QED
      BY <1>3, <1>4, <2>2, <2>3, <2>4, <2>5
  <1>9. Complete'
    BY <1>2 DEF IInv, Complete, Capturing, Usable, OneSidedChangeIsHarmless
  <1>10. QED
    BY <1>5, <1>6, <1>7, <1>8, <1>9 DEF IInv

\* A table that is loaded anew gives its rows new numbers; what was read is of an earlier one.
LEMMA ReloadKeeps == ASSUME IInv, Reload PROVE IInv'
  <1>1. /\ CaptureTypeOK /\ table' \in Loads /\ nextId' = Cardinality(DOMAIN table') + 1
        /\ UNCHANGED <<reader, phase, total, rows, first, failed>>
        /\ changed' \in 0..MaxChanges
        /\ since' = IF Capturing THEN since \cup {"reload"} ELSE since
    BY BoundsAssumption DEF IInv, Shape, CaptureTypeOK, Reload, Change
  <1>2. table' \in Tables /\ nextId' \in 1..(MaxId + 1) /\ \A i \in DOMAIN table' : i < nextId'
    BY <1>1, Loaded, BoundsAssumption
  <1>3. CaptureTypeOK'
    BY <1>1, <1>2 DEF CaptureTypeOK
  <1>4. Shape' /\ InOrder' /\ Prefix' /\ Shrunk' /\ Complete'
    BY <1>1, <1>3 DEF IInv, Shape, InOrder, Prefix, Shrunk, Complete, Capturing, Usable, OneSidedChangeIsHarmless
  <1>5. QED
    BY <1>4 DEF IInv

-----------------------------------------------------------------------------
(* The reader, but for its pages *)

\* A capture that begins has read nothing yet.
LEMMA BeginKeeps == ASSUME IInv, Begin, UNCHANGED sourceVars PROVE IInv'
  <1>1. CaptureTypeOK /\ UNCHANGED <<table, nextId, changed>>
    BY DEF IInv, Shape, sourceVars
  <1>2. rows' \in Seq(Row) /\ Len(rows') = 0 /\ rows' = << >>
    BY EmptySeq DEF Begin
  <1>3. first' \in Tables
    <2>1. Empty \in [DOMAIN Empty -> Names] /\ DOMAIN Empty \subseteq Ids
      BY DEF Empty
    <2>2. QED
      BY <2>1, TableType DEF Begin
  <1>4. CaptureTypeOK'
    <2>1. /\ phase' \in {"metadata", "pages"} /\ total' = None /\ since' = {}
          /\ failed' = FALSE /\ reader' = reader
      BY DEF Begin
    <2>2. Len(rows') <= MaxRows
      BY <1>2, BoundsAssumption
    <2>3. QED
      BY <1>1, <1>2, <1>3, <2>1, <2>2 DEF CaptureTypeOK
  <1>5. Shape'
    BY <1>2, <1>4 DEF Shape, Begin
  <1>6. InOrder' /\ Prefix' /\ Shrunk' /\ Complete'
    BY <1>2 DEF InOrder, Prefix, Shrunk, Complete, Rising, Begin
  <1>7. QED
    BY <1>5, <1>6 DEF IInv

\* The copy is handed over or given up.
Rests == phase' = "idle" /\ UNCHANGED <<sourceVars, reader, total, rows, first, since, failed>>

\* A capture that is over promises nothing until the next one begins.
LEMMA RestKeeps == ASSUME IInv, Rests PROVE IInv'
  <1>1. CaptureTypeOK'
    BY DEF IInv, Shape, CaptureTypeOK, Rests, sourceVars
  <1>2. Shape'
    BY <1>1 DEF IInv, Shape, Rests
  <1>3. InOrder' /\ Prefix' /\ Shrunk' /\ Complete'
    BY DEF IInv, InOrder, Prefix, Shrunk, Complete, Rising, Capturing, Rests
  <1>4. QED
    BY <1>2, <1>3 DEF IInv

\* An answer that fails ends the capture without a copy.
LEMMA FailureKeeps == ASSUME IInv, AnswerFails PROVE IInv'
  <1>1. CaptureTypeOK'
    BY DEF IInv, Shape, CaptureTypeOK, AnswerFails, sourceVars
  <1>2. Shape'
    BY <1>1 DEF IInv, Shape, AnswerFails
  <1>3. InOrder' /\ Prefix' /\ Shrunk' /\ Complete'
    BY DEF IInv, InOrder, Prefix, Shrunk, Complete, Rising, Capturing, AnswerFails
  <1>4. QED
    BY <1>2, <1>3 DEF IInv

\* A page of no rows is empty.
LEMMA NoRows == ASSUME NEW t \in Tables PROVE RowsOf(t, 1, 0) = << >>
  <1>1. RowsOf(t, 1, 0) \in Seq(Row) /\ Len(RowsOf(t, 1, 0)) = 0 - 1 + 1
    BY RowsInOrder, TableFinite
  <1>2. QED
    BY <1>1, EmptySeq

\* The first answer tells the total that the pages are measured by.
LEMMA MetadataKeeps == ASSUME IInv, Metadata PROVE IInv'
  <1>1. /\ CaptureTypeOK /\ total = None /\ rows = << >> /\ reader = "sql"
        /\ UNCHANGED <<table, nextId, changed, reader, rows, failed>>
        /\ Len(rows) = 0 /\ Size \in Nat /\ table \in Tables
    BY TableFinite DEF IInv, Shape, Metadata, sourceVars, CaptureTypeOK, Size
  <1>2. CASE Size > MaxRows
    <2>1. phase' = "rejected" /\ UNCHANGED <<total, first, since>>
      BY <1>2 DEF Metadata
    <2>2. CaptureTypeOK'
      BY <1>1, <2>1 DEF CaptureTypeOK
    <2>3. Shape'
      BY <1>1, <2>1, <2>2 DEF Shape
    <2>4. InOrder' /\ Prefix' /\ Shrunk' /\ Complete'
      BY <1>1, <2>1 DEF InOrder, Prefix, Shrunk, Complete, Rising, Capturing
    <2>5. QED
      BY <2>3, <2>4 DEF IInv
  <1>3. CASE ~(Size > MaxRows)
    <2>1. /\ phase' = IF Size = 0 THEN "final" ELSE "pages"
          /\ total' = Size /\ first' = table /\ since' = {}
      BY <1>3 DEF Metadata
    <2>2. CaptureTypeOK'
      BY <1>1, <2>1, NoneAssumption DEF CaptureTypeOK, Size
    <2>3. Shape'
      BY <1>1, <2>1, <2>2, NoneAssumption DEF Shape
    <2>4. Prefix'
      BY <1>1, <2>1, NoRows DEF Prefix, Extended
    <2>5. InOrder' /\ Shrunk' /\ Complete'
      BY <1>1, <2>1 DEF InOrder, Shrunk, Complete, Rising, Capturing
    <2>6. QED
      BY <2>3, <2>4, <2>5 DEF IInv
  <1>4. QED
    BY <1>2, <1>3

\* The last comparison accepts a copy only with the total it began with.
LEMMA FinalKeeps == ASSUME IInv, Final PROVE IInv'
  <1>1. /\ CaptureTypeOK /\ reader = "sql" /\ phase = "final"
        /\ total # None /\ Len(rows) = total /\ total \in Nat /\ total = Cardinality(DOMAIN first)
        /\ UNCHANGED <<table, nextId, changed, reader, total, rows, first, since, failed>>
    BY DEF IInv, Shape, Final, sourceVars, CaptureTypeOK
  <1>2. phase' = IF Size = total THEN "accepted" ELSE "rejected"
    BY DEF Final
  <1>3. CaptureTypeOK'
    BY <1>1, <1>2 DEF CaptureTypeOK
  <1>4. Shape'
    BY <1>1, <1>2, <1>3 DEF Shape
  <1>5. InOrder' /\ Prefix' /\ Shrunk'
    BY <1>1, <1>2 DEF IInv, InOrder, Prefix, Shrunk, Rising, Capturing
  <1>6. Complete'
    <2>1. SUFFICES ASSUME Size = total, since \subseteq {"insert"} \/ since \subseteq {"delete"}
                   PROVE  rows = AllRows(first)
      BY <1>1, <1>2 DEF Complete, OneSidedChangeIsHarmless, Usable
    <2>2. since # {"delete"}
      BY <1>1, <2>1 DEF IInv, Shrunk, Capturing
    <2>3. since \subseteq {"insert"}
      BY <2>1, <2>2
    <2>4. QED
      BY <1>1, <2>3 DEF IInv, Prefix, Capturing, AllRows
  <1>7. QED
    BY <1>4, <1>5, <1>6 DEF IInv

-----------------------------------------------------------------------------
(* A page *)

All == IF total = None THEN Size ELSE total
PageRows(n) == RowsOf(table, Len(rows) + 1, Len(rows) + n)
Accepts(n) == TotalAgrees(PageRows(n)) /\ Ordered(PageRows(n)) /\ Counted(PageRows(n), All)

PageTaken(n) ==
    /\ Accepts(n)
    /\ total' = All
    /\ first' = IF total = None THEN table ELSE first
    /\ since' = IF total = None THEN {} ELSE since
    /\ rows' = rows \o PageRows(n)
    /\ phase' = IF Len(rows \o PageRows(n)) < All THEN "pages"
                ELSE IF reader = "sql" THEN "final"
                ELSE IF Usable(rows \o PageRows(n)) THEN "accepted"
                ELSE "rejected"

PageRefused(n) == ~Accepts(n) /\ phase' = "rejected" /\ UNCHANGED <<total, rows, first, since>>

\* A page holds a row if there is one left, and none but those of the table.
LEMMA PageHolds ==
    ASSUME IInv, Page
    PROVE  /\ phase = "pages"
           /\ UNCHANGED <<table, nextId, changed, reader, failed>>
           /\ \E n \in Nat :
                 /\ n = 0 => Size <= Len(rows)
                 /\ n # 0 => Len(rows) + n <= Size
                 /\ PageTaken(n) \/ PageRefused(n)
  <1> DEFINE here == Len(rows)
             asked == IF reader = "sql" /\ All - here < PageSize THEN All - here ELSE PageSize
             there == IF Size > here THEN Size - here ELSE 0
  <1>1. CaptureTypeOK /\ here \in Nat /\ Size \in Nat
    BY TableFinite, LenProperties DEF IInv, Shape, CaptureTypeOK, Size
  <1>2. phase = "pages" /\ UNCHANGED <<table, nextId, changed, reader, failed>>
    BY DEF Page, sourceVars
  <1>3. PICK n \in (IF there = 0 THEN {0} ELSE 1..there) \cap (0..asked) :
            PageTaken(n) \/ PageRefused(n)
    BY DEF Page, PageTaken, PageRefused, Accepts, PageRows, All
  <1>4. /\ n \in Nat
        /\ n = 0 => Size <= here
        /\ n # 0 => here + n <= Size
    BY <1>1, <1>3
  <1>5. QED
    BY <1>2, <1>3, <1>4

\* What is read on is in the order of what was read.
LEMMA RisingJoin ==
    ASSUME NEW s \in Seq(Row), NEW u \in Seq(Row), Rising(s), Rising(u),
           s # << >> /\ u # << >> => s[Len(s)].id < u[1].id
    PROVE  Rising(s \o u)
  <1> DEFINE m == Len(s)  n == Len(u)  w == s \o u
  <1>1. m \in Nat /\ n \in Nat /\ DOMAIN s = 1..m /\ DOMAIN u = 1..n
    BY LenProperties
  <1>2. w \in Seq(Row) /\ Len(w) = m + n /\ DOMAIN w = 1..(m + n)
    BY <1>1, ConcatProperties, LenProperties
  <1>3. \A i \in 1..(m + n) : w[i] = IF i <= m THEN s[i] ELSE u[i - m]
    BY ConcatProperties
  <1>4. /\ \A i \in 1..m : s[i].id \in Nat
        /\ \A i \in 1..n : u[i].id \in Nat
    <2>1. \A i \in Ids : i \in Nat
      BY BoundsAssumption DEF Ids
    <2>2. (\A i \in 1..m : s[i] \in Row) /\ (\A i \in 1..n : u[i] \in Row)
      BY ElementOfSeq
    <2>3. QED
      BY <2>1, <2>2 DEF Row
  <1> HIDE DEF m, n, w
  <1>5. ASSUME NEW i \in 1..(m + n), NEW j \in 1..(m + n), i < j PROVE w[i].id < w[j].id
    <2>1. CASE j <= m
      <3>1. i \in 1..m /\ j \in 1..m /\ i <= m
        BY <1>1, <1>5, <2>1
      <3>2. w[i] = s[i] /\ w[j] = s[j]
        BY <1>3, <2>1, <3>1
      <3>3. QED
        BY <1>1, <1>5, <3>1, <3>2 DEF Rising
    <2>2. CASE i > m
      <3>1. i - m \in 1..n /\ j - m \in 1..n /\ i - m < j - m /\ ~(i <= m) /\ ~(j <= m)
        BY <1>1, <1>5, <2>2
      <3>2. w[i] = u[i - m] /\ w[j] = u[j - m]
        BY <1>3, <3>1
      <3>3. QED
        BY <1>1, <3>1, <3>2 DEF Rising
    <2>3. CASE i <= m /\ j > m
      <3>1. i \in 1..m /\ m \in 1..m /\ j - m \in 1..n /\ 1 \in 1..n /\ ~(j <= m)
        BY <1>1, <2>3
      <3>2. w[i] = s[i] /\ w[j] = u[j - m]
        BY <1>3, <2>3, <3>1
      <3>3. s # << >> /\ u # << >>
        BY <1>1, <3>1
      <3>4. s[m].id < u[1].id
        BY <3>3 DEF m
      <3>5. i = m \/ s[i].id < s[m].id
        BY <1>1, <3>1 DEF Rising
      <3>6. j - m = 1 \/ u[1].id < u[j - m].id
        BY <1>1, <3>1 DEF Rising
      <3>7. s[i].id <= s[m].id
        BY <1>4, <3>1, <3>5
      <3>8. u[1].id <= u[j - m].id
        BY <1>4, <3>1, <3>6
      <3>9. s[i].id \in Nat /\ s[m].id \in Nat /\ u[1].id \in Nat /\ u[j - m].id \in Nat
        BY <1>4, <3>1
      <3>10. s[i].id < u[j - m].id
        BY <3>4, <3>7, <3>8, <3>9
      <3>11. QED
        BY <3>2, <3>10
    <2>4. j <= m \/ i > m \/ (i <= m /\ j > m)
      BY <1>1
    <2>5. QED
      BY <2>1, <2>2, <2>3, <2>4
  <1>6. QED
    BY <1>2, <1>5 DEF Rising, w

\* A later row has at least the rows of an earlier one before it.
LEMMA RankMonotone ==
    ASSUME NEW t \in Tables, NEW i \in Nat, NEW j \in Nat, i <= j
    PROVE  Rank(t, i) <= Rank(t, j)
  <1>1. IsFiniteSet(DOMAIN t) /\ DOMAIN t \subseteq Nat
    BY TableFinite
  <1>2. IsFiniteSet({k \in DOMAIN t : k <= j})
    BY <1>1, FS_Subset
  <1>3. {k \in DOMAIN t : k <= i} \in SUBSET {k \in DOMAIN t : k <= j}
    BY <1>1
  <1>4. QED
    BY <1>2, <1>3, FS_Subset DEF Rank

\* A page that does not fit ends the capture without a copy.
LEMMA PageRefusedKeeps ==
    ASSUME IInv, phase = "pages", NEW n, PageRefused(n),
           UNCHANGED <<table, nextId, changed, reader, failed>>
    PROVE  IInv'
  <1>1. CaptureTypeOK'
    BY DEF IInv, Shape, CaptureTypeOK, PageRefused
  <1>2. Shape'
    BY <1>1 DEF IInv, Shape, PageRefused
  <1>3. InOrder' /\ Prefix' /\ Shrunk' /\ Complete'
    BY DEF IInv, InOrder, Prefix, Shrunk, Complete, Rising, Capturing, PageRefused
  <1>4. QED
    BY <1>2, <1>3 DEF IInv

\* What a reader holds when a page is answered, and the rows of the answer.
LEMMA PageFacts ==
    ASSUME IInv, phase = "pages", NEW n \in Nat, n # 0 => Len(rows) + n <= Size
    PROVE  /\ CaptureTypeOK /\ table \in Tables /\ first \in Tables /\ rows \in Seq(Row)
           /\ Len(rows) \in Nat /\ Size \in Nat /\ DOMAIN rows = 1..Len(rows)
           /\ total \in Nat \cup {None} /\ total # None => total = Cardinality(DOMAIN first)
           /\ total = None => rows = << >> /\ Len(rows) = 0
           /\ rows = << >> \/ Len(rows) # 0
           /\ PageRows(n) \in Seq(Row) /\ Len(PageRows(n)) = n
           /\ \A k \in 1..n : /\ PageRows(n)[k].id \in DOMAIN table
                              /\ Rank(table, PageRows(n)[k].id) = Len(rows) + k
           /\ Rising(PageRows(n))
  <1>1. /\ CaptureTypeOK /\ table \in Tables /\ first \in Tables /\ rows \in Seq(Row)
        /\ Len(rows) \in Nat /\ Size \in Nat /\ DOMAIN rows = 1..Len(rows)
        /\ total \in Nat \cup {None} /\ total # None => total = Cardinality(DOMAIN first)
        /\ total = None => rows = << >> /\ Len(rows) = 0
        /\ rows = << >> \/ Len(rows) # 0
    BY TableFinite, LenProperties, EmptySeq DEF IInv, Shape, CaptureTypeOK, Size
  <1>2. n = 0 \/ Len(rows) + n <= Cardinality(DOMAIN table)
    BY DEF Size
  <1>3. /\ PageRows(n) \in Seq(Row) /\ Len(PageRows(n)) = n
        /\ \A k \in 1..n : /\ PageRows(n)[k].id \in DOMAIN table
                           /\ Rank(table, PageRows(n)[k].id) = Len(rows) + k
        /\ Rising(PageRows(n))
    BY <1>1, <1>2, RowsAfter DEF PageRows
  <1>4. QED
    BY <1>1, <1>3

\* A page goes on in order where the rows taken end: because sql looks, or because all the
\* rows up to the last one taken were taken.
LEMMA PageRises ==
    ASSUME IInv, phase = "pages", NEW n \in Nat, n # 0 => Len(rows) + n <= Size,
           total = None \/ (reader = "sql" /\ Ordered(PageRows(n))) \/ "reload" \notin since
    PROVE  Rising(rows \o PageRows(n))
  <1> DEFINE here == Len(rows)
             answer == PageRows(n)
  <1>1. /\ CaptureTypeOK /\ table \in Tables /\ rows \in Seq(Row)
        /\ here \in Nat /\ DOMAIN rows = 1..here
        /\ total = None => rows = << >>
        /\ rows = << >> \/ here # 0
    BY PageFacts
  <1>2. /\ answer \in Seq(Row) /\ Len(answer) = n
        /\ \A k \in 1..n : answer[k].id \in DOMAIN table /\ Rank(table, answer[k].id) = here + k
        /\ Rising(answer)
    BY PageFacts
  <1>3. (reader = "sql" /\ Ordered(answer)) \/ "reload" \notin since \/ rows = << >>
    BY <1>1
  <1> HIDE DEF answer
  <1>4. Rising(rows)
    BY <1>3 DEF IInv, InOrder, Rising
  <1>5. ASSUME rows # << >>, answer # << >> PROVE rows[here].id < answer[1].id
    <2>1. n # 0 /\ 1 \in 1..n /\ here # 0 /\ here \in 1..here
      BY <1>1, <1>2, <1>5, EmptySeq
    <2>2. CASE reader = "sql" /\ Ordered(answer)
      <3>1. here + 1 \in (Len(rows) + 1)..Len(rows \o answer) /\ here + 1 > 1
        <4>1. Len(rows \o answer) = here + n
          BY <1>1, <1>2, ConcatProperties
        <4>2. QED
          BY <1>1, <2>1, <4>1
      <3>2. (rows \o answer)[(here + 1) - 1].id < (rows \o answer)[here + 1].id
        BY <2>2, <3>1 DEF Ordered
      <3>3. /\ here \in 1..(here + n) /\ here + 1 \in 1..(here + n) /\ (here + 1) - 1 = here
            /\ (here + 1) - here = 1 /\ ~(here + 1 <= here) /\ here <= here
        BY <1>1, <2>1
      <3>4. (rows \o answer)[here] = rows[here]
        BY <1>1, <1>2, <3>3, ConcatProperties
      <3>5. (rows \o answer)[here + 1] = answer[(here + 1) - here]
        BY <1>1, <1>2, <3>3, ConcatProperties
      <3>6. QED
        BY <3>2, <3>3, <3>4, <3>5
    <2>3. CASE "reload" \notin since
      <3>1. Rank(table, rows[here].id) <= here
        BY <1>5, <2>3 DEF IInv, InOrder, Capturing
      <3>2. Rank(table, answer[1].id) = here + 1 /\ answer[1].id \in Nat
        BY <1>1, <1>2, <2>1, TableFinite
      <3>3. rows[here].id \in Nat
        BY <1>1, <1>5, LastRow
      <3>4. Rank(table, rows[here].id) \in Nat
        BY <1>1, <3>3, TableFinite
      <3>5. answer[1].id <= rows[here].id => Rank(table, answer[1].id) <= Rank(table, rows[here].id)
        BY <1>1, <3>2, <3>3, RankMonotone
      <3>6. ~(answer[1].id <= rows[here].id)
        BY <1>1, <3>1, <3>2, <3>4, <3>5
      <3>7. QED
        BY <3>2, <3>3, <3>6
    <2>4. QED
      BY <1>3, <1>5, <2>2, <2>3
  <1>6. QED
    BY <1>1, <1>2, <1>4, <1>5, RisingJoin DEF answer

\* What the reader has after a page it takes: no more rows than its total, in the order of
\* the table, up to the last row of the page; and, while rows only came, the start of the
\* table as it was when the total was read.
LEMMA PageTakenFacts ==
    ASSUME IInv, phase = "pages", NEW n \in Nat, PageTaken(n),
           n # 0 => Len(rows) + n <= Size,
           UNCHANGED <<table, nextId, changed, reader, failed>>
    PROVE  /\ rows' \in Seq(Row) /\ Len(rows') = Len(rows) + n /\ Len(rows') <= total'
           /\ total' \in Nat /\ first' \in Tables /\ total' = Cardinality(DOMAIN first')
           /\ reader # "kart" => Len(rows') <= MaxRows
           /\ InOrder'
           /\ since' \subseteq {"insert"} =>
                 /\ Extended(table, first')
                 /\ rows' = RowsOf(first', 1, Len(rows'))
                 /\ since' = {} => table = first'
  <1> DEFINE here == Len(rows)
             answer == PageRows(n)
  <1>1. /\ CaptureTypeOK /\ table \in Tables /\ first \in Tables /\ rows \in Seq(Row)
        /\ here \in Nat /\ Size \in Nat /\ DOMAIN rows = 1..here
        /\ total \in Nat \cup {None} /\ total # None => total = Cardinality(DOMAIN first)
        /\ total = None => rows = << >> /\ here = 0
        /\ rows = << >> \/ here # 0
    BY PageFacts
  <1>2. /\ answer \in Seq(Row) /\ Len(answer) = n
        /\ \A k \in 1..n : answer[k].id \in DOMAIN table /\ Rank(table, answer[k].id) = here + k
        /\ Rising(answer)
    BY PageFacts
  <1> HIDE DEF answer
  <1>3. /\ rows' = rows \o answer
        /\ total' = All /\ first' = IF total = None THEN table ELSE first
        /\ since' = IF total = None THEN {} ELSE since
        /\ TotalAgrees(answer) /\ Ordered(answer) /\ here + n <= All
    BY <1>2 DEF PageTaken, Accepts, Counted, answer
  <1>4. rows' \in Seq(Row) /\ Len(rows') = here + n /\ DOMAIN rows' = 1..(here + n)
    <2>1. rows' \in Seq(Row) /\ Len(rows') = Len(rows) + Len(answer)
      BY <1>1, <1>2, <1>3, ConcatProperties
    <2>2. DOMAIN rows' = 1..Len(rows')
      BY <2>1, LenProperties
    <2>3. QED
      BY <1>2, <2>1, <2>2
  <1>5. All \in Nat /\ first' \in Tables /\ All = Cardinality(DOMAIN first')
    <2>1. CASE total = None
      BY <1>1, <1>3, <2>1 DEF All, Size
    <2>2. CASE total # None
      BY <1>1, <1>3, <2>2 DEF All
    <2>3. QED
      BY <2>1, <2>2
  <1>6. reader # "kart" => All <= MaxRows
    BY <1>1, <1>3 DEF All, TotalAgrees
  <1>7. n # 0 => rows' # << >> /\ rows'[here + n] = answer[n]
    <2>1. SUFFICES ASSUME n # 0 PROVE rows' # << >> /\ rows'[here + n] = answer[n]
      OBVIOUS
    <2>2. here + n \in 1..(here + n) /\ (here + n) - here = n /\ ~(here + n <= here) /\ here + n # 0
      BY <1>1, <2>1
    <2>3. rows'[here + n] = answer[(here + n) - here]
      BY <1>1, <1>2, <1>3, <2>2, ConcatProperties
    <2>4. QED
      BY <1>4, <2>2, <2>3, EmptySeq
  <1>8. InOrder'
    <2>1. ASSUME reader = "sql" \/ "reload" \notin since' PROVE Rising(rows')
      <3>1. total = None \/ (reader = "sql" /\ Ordered(answer)) \/ "reload" \notin since
        BY <1>3, <2>1
      <3>2. QED
        BY <1>3, <3>1, PageRises DEF answer
    <2>2. ASSUME "reload" \notin since', rows' # << >>
          PROVE  rows'[Len(rows')].id < nextId /\ Rank(table, rows'[Len(rows')].id) <= Len(rows')
      <3>1. CASE n = 0
        <4>1. answer = << >>
          BY <1>2, <3>1, EmptySeq
        <4>2. rows' = rows
          BY <1>1, <1>3, <4>1, ConcatEmptySeq
        <4>3. "reload" \notin since
          BY <1>1, <1>3, <2>2, <4>2
        <4>4. QED
          BY <2>2, <4>2, <4>3 DEF IInv, InOrder, Capturing
      <3>2. CASE n # 0
        <4>1. n \in 1..n
          BY <3>2
        <4>2. answer[n].id \in DOMAIN table /\ Rank(table, answer[n].id) = here + n
          BY <1>2, <4>1
        <4>3. answer[n].id < nextId
          BY <1>1, <4>2 DEF CaptureTypeOK
        <4>4. rows'[Len(rows')] = answer[n] /\ here + n <= here + n
          BY <1>1, <1>4, <1>7, <3>2
        <4>5. QED
          BY <1>4, <4>2, <4>3, <4>4
      <3>3. QED
        BY <3>1, <3>2
    <2>3. QED
      BY <2>1, <2>2 DEF InOrder
  <1>9. ASSUME since' \subseteq {"insert"}
        PROVE  /\ Extended(table, first')
               /\ rows' = RowsOf(first', 1, here + n)
               /\ since' = {} => table = first'
    <2>1. CASE total = None
      <3>1. first' = table /\ here = 0 /\ rows' = answer /\ here + 1 = 1
        BY <1>1, <1>2, <1>3, <2>1, ConcatEmptySeq
      <3>2. answer = RowsOf(table, 1, here + n)
        BY <3>1 DEF answer, PageRows
      <3>3. QED
        BY <3>1, <3>2 DEF Extended
    <2>2. CASE total # None
      <3>1. /\ Extended(table, first) /\ rows = RowsOf(first, 1, here)
            /\ since = {} => table = first
            /\ first' = first /\ since' = since
        BY <1>3, <1>9, <2>2 DEF IInv, Prefix, Capturing
      <3>2. here + 1 \in Nat \ {0} /\ here + n \in Nat /\ here <= here + n
            /\ here + n <= Cardinality(DOMAIN first)
        BY <1>1, <1>3, <2>2 DEF All
      <3>3. answer = RowsOf(first, here + 1, here + n)
        BY <1>1, <3>1, <3>2, ExtendedRows DEF answer, PageRows
      <3>4. RowsOf(first, 1, here) \o RowsOf(first, here + 1, here + n) = RowsOf(first, 1, here + n)
        BY <1>1, <3>2, RowsJoin
      <3>5. QED
        BY <1>3, <3>1, <3>3, <3>4
    <2>3. QED
      BY <2>1, <2>2
  <1>10. Len(rows') <= total' /\ total' \in Nat /\ total' = Cardinality(DOMAIN first')
    BY <1>3, <1>4, <1>5
  <1>11. reader # "kart" => Len(rows') <= MaxRows
    BY <1>1, <1>3, <1>4, <1>5, <1>6, BoundsAssumption
  <1>12. ASSUME since' \subseteq {"insert"} PROVE rows' = RowsOf(first', 1, Len(rows'))
    BY <1>4, <1>9, <1>12
  <1>13. QED
    BY <1>4, <1>5, <1>8, <1>9, <1>10, <1>11, <1>12

\* A page that fits continues where the one before it ended.
LEMMA PageTakenKeeps ==
    ASSUME IInv, phase = "pages", NEW n \in Nat, PageTaken(n),
           n = 0 => Size <= Len(rows), n # 0 => Len(rows) + n <= Size,
           UNCHANGED <<table, nextId, changed, reader, failed>>
    PROVE  IInv'
  <1>1. /\ CaptureTypeOK /\ Size \in Nat /\ Len(rows) \in Nat
        /\ total = None => reader # "sql"
        /\ total # None => Len(rows) < total /\ total \in Nat /\ total = Cardinality(DOMAIN first)
    BY TableFinite, LenProperties DEF IInv, Shape, CaptureTypeOK, Size
  <1>2. /\ rows' \in Seq(Row) /\ Len(rows') = Len(rows) + n /\ Len(rows') <= total'
        /\ total' \in Nat /\ first' \in Tables /\ total' = Cardinality(DOMAIN first')
        /\ reader # "kart" => Len(rows') <= MaxRows
        /\ InOrder'
        /\ since' \subseteq {"insert"} =>
              /\ Extended(table, first')
              /\ rows' = RowsOf(first', 1, Len(rows'))
              /\ since' = {} => table = first'
    BY PageTakenFacts
  <1>3. /\ TotalAgrees(PageRows(n)) /\ total' = All
        /\ since' = IF total = None THEN {} ELSE since
        /\ phase' = IF Len(rows') < total' THEN "pages"
                    ELSE IF reader = "sql" THEN "final"
                    ELSE IF Usable(rows') THEN "accepted"
                    ELSE "rejected"
    BY DEF PageTaken, Accepts, Usable
  <1>4. CaptureTypeOK'
    <2>1. phase' \in {"pages", "final", "accepted", "rejected"} /\ since' \subseteq {"insert", "delete", "reload"}
      BY <1>1, <1>3 DEF CaptureTypeOK
    <2>2. QED
      BY <1>1, <1>2, <2>1 DEF CaptureTypeOK
  <1>5. Shape'
    <2>1. total' # None
      BY <1>2, NoneAssumption
    <2>2. Len(rows') < total' \/ Len(rows') = total'
      BY <1>1, <1>2
    <2>3. QED
      BY <1>3, <1>4, <2>1, <2>2 DEF Shape
  <1>6. Prefix'
    BY <1>2 DEF Prefix
  <1>7. since' = {"delete"} => total # None /\ Size < total
    BY <1>3 DEF IInv, Shrunk, Capturing
  <1>8. Shrunk'
    BY <1>3, <1>7 DEF Shrunk, All, Size
  <1>9. Complete'
    <2>1. SUFFICES ASSUME phase' = "accepted" PROVE Usable(rows') /\ OneSidedChangeIsHarmless'
      BY DEF Complete, Usable
    <2>2. Usable(rows') /\ reader # "sql" /\ Len(rows') = total'
      BY <1>1, <1>2, <1>3, <2>1
    <2>3. since' # {"delete"}
      <3>1. SUFFICES ASSUME since' = {"delete"} PROVE FALSE
        OBVIOUS
      <3>2. total # None /\ Size < total /\ total' = total
        BY <1>3, <1>7, <3>1 DEF All
      <3>3. n = 0 \/ Len(rows) + n <= Size
        OBVIOUS
      <3>4. QED
        BY <1>1, <1>2, <2>2, <3>2, <3>3
    <2>4. since' \subseteq {"insert"} \/ since' \subseteq {"delete"} => since' \subseteq {"insert"}
      BY <2>3
    <2>5. OneSidedChangeIsHarmless'
      BY <1>2, <2>2, <2>4 DEF OneSidedChangeIsHarmless, AllRows
    <2>6. QED
      BY <2>2, <2>5
  <1>10. QED
    BY <1>2, <1>5, <1>6, <1>8, <1>9 DEF IInv

\* A page is taken or refused.
LEMMA PageKeeps == ASSUME IInv, Page PROVE IInv'
  <1>1. /\ phase = "pages"
        /\ UNCHANGED <<table, nextId, changed, reader, failed>>
    BY PageHolds
  <1>2. PICK n \in Nat :
            /\ n = 0 => Size <= Len(rows)
            /\ n # 0 => Len(rows) + n <= Size
            /\ PageTaken(n) \/ PageRefused(n)
    BY PageHolds
  <1>3. CASE PageTaken(n)
    BY <1>1, <1>2, <1>3, PageTakenKeeps
  <1>4. CASE PageRefused(n)
    BY <1>1, <1>4, PageRefusedKeeps
  <1>5. QED
    BY <1>2, <1>3, <1>4

-----------------------------------------------------------------------------
(* The steps of DatastoreSql, as the source and the capture see them *)

Still == UNCHANGED <<sourceVars, captureVars>>

\* Every step is one of the capture, of the table, or of neither.
LEMMA Steps ==
    ASSUME TypeOK, [Next]_vars
    PROVE  \/ Begin /\ UNCHANGED sourceVars
           \/ Rests \/ Metadata \/ Page \/ Final \/ AnswerFails
           \/ Insert \/ Delete \/ Reload \/ Still
  <1>1. ASSUME NEW q \in Queries, QueryStep(q) \/ Cancellation(q)
        PROVE  (Begin /\ UNCHANGED sourceVars) \/ Rests \/ Still
    <2>1. CASE Busy(q) \/ Hit(q) \/ ThreadEnds(q) \/ Answered(q) \/ CancelShielded(q) \/ CancelAgain(q)
      BY <2>1 DEF Busy, Hit, ThreadEnds, Answered, CancelShielded, CancelAgain, Still
    <2>2. CASE Miss(q)
      BY <2>2 DEF Miss
    <2>3. CASE Copied(q) \/ NotCopied(q) \/ CancelCopy(q)
      BY <2>3 DEF Copied, NotCopied, CancelCopy, Rests
    <2>4. QED
      BY <1>1, <2>1, <2>2, <2>3 DEF QueryStep, Cancellation
  <1>2. CASE Expire
    BY <1>2 DEF Expire, Still
  <1>3. CASE BeginAlone
    BY <1>3 DEF BeginAlone
  <1>4. CASE CaptureNext
    BY <1>4 DEF CaptureNext, Answer
  <1>5. CASE SourceNext
    BY <1>5 DEF SourceNext
  <1>6. CASE UNCHANGED vars
    BY <1>6 DEF vars, Still
  <1>7. QED
    BY <1>1, <1>2, <1>3, <1>4, <1>5, <1>6 DEF Next

\* Every step keeps the invariant of the capture.
LEMMA Keeps == ASSUME IInv, TypeOK, [Next]_vars PROVE IInv'
  <1>1. CASE Still
    <2>1. Shape'
      BY <1>1 DEF IInv, Shape, CaptureTypeOK, Still, sourceVars, captureVars
    <2>2. InOrder' /\ Prefix' /\ Shrunk' /\ Complete'
      BY <1>1 DEF IInv, InOrder, Prefix, Shrunk, Complete, Capturing, Usable, OneSidedChangeIsHarmless,
                  Size, Still, sourceVars, captureVars
    <2>3. QED
      BY <2>1, <2>2 DEF IInv
  <1>2. QED
    BY <1>1, Steps, BeginKeeps, RestKeeps, MetadataKeeps, PageKeeps, FinalKeeps, FailureKeeps,
       InsertKeeps, DeleteKeeps, ReloadKeeps

QueryTypeOK ==
    /\ gate \in Queries \cup {None}
    /\ pc \in [Queries -> {"new", "copying", "shielded", "cancelled", "cut", "over"}]
    /\ threads \subseteq Queries
    /\ stored \in BOOLEAN

\* Every step keeps the types of requests, gate and threads.
LEMMA QueriesKeep == ASSUME QueryTypeOK, [Next]_vars PROVE QueryTypeOK'
  <1>1. ASSUME NEW q \in Queries, QueryStep(q) PROVE QueryTypeOK'
    BY <1>1 DEF QueryTypeOK, QueryStep, Busy, Hit, Miss, Copied, NotCopied, ThreadEnds, Answered, Leaves, Runs
  <1>2. ASSUME NEW q \in Queries, Cancellation(q) PROVE QueryTypeOK'
    BY <1>2 DEF QueryTypeOK, Cancellation, CancelCopy, CancelShielded, CancelAgain, Leaves
  <1>3. CASE Expire
    BY <1>3 DEF QueryTypeOK, Expire
  <1>4. CASE UNCHANGED queryVars
    BY <1>4 DEF QueryTypeOK, queryVars
  <1>5. QED
    BY <1>1, <1>2, <1>3, <1>4 DEF Next, BeginAlone, vars

\* Every variable keeps to its type; above all, no reader that is held to the row budget ever
\* holds more rows than that, and none holds more than the total it goes by.
THEOREM TypeCorrect == Spec => []TypeOK
  <1>1. Init => IInv /\ QueryTypeOK
    BY Initially DEF Init, QueryTypeOK
  <1>2. IInv /\ QueryTypeOK /\ [Next]_vars => IInv' /\ QueryTypeOK'
    BY Keeps, QueriesKeep DEF IInv, Shape, TypeOK, QueryTypeOK
  <1>3. IInv /\ QueryTypeOK => TypeOK
    BY DEF IInv, Shape, TypeOK, QueryTypeOK
  <1>4. QED
    BY <1>1, <1>2, <1>3, PTL DEF Spec

\* The invariant of the capture holds throughout.
LEMMA Invariant == Spec => []IInv
  <1>1. Init => IInv
    BY Initially
  <1>2. IInv /\ TypeOK /\ [Next]_vars => IInv'
    BY Keeps
  <1>3. QED
    BY <1>1, <1>2, TypeCorrect, PTL DEF Spec

\* Whatever the size of the table and the pages and however the publisher interleaves its
\* changes, a copy taken while rows only came or only went is the table as it was.
THEOREM CopyIsWhole == Spec => []OneSidedChangeIsHarmless
  <1>1. IInv => OneSidedChangeIsHarmless
    BY DEF IInv, Complete, OneSidedChangeIsHarmless
  <1>2. QED
    BY <1>1, Invariant, PTL

\* sql never counts a row twice and stops never lists a stop twice, through any changes; the
\* others take no row twice unless the table is loaded anew.
THEOREM NoRowTwice == Spec => []NothingTakenTwice
  <1>1. ASSUME IInv PROVE NothingTakenTwice
    <2>1. SUFFICES ASSUME phase = "accepted", NEW i \in DOMAIN rows, NEW j \in DOMAIN rows, i # j
                   PROVE  /\ reader = "sql" \/ "reload" \notin since => rows[i].id # rows[j].id
                          /\ reader = "stops" => rows[i].name # rows[j].name
      BY DEF NothingTakenTwice
    <2>2. reader = "stops" => rows[i].name # rows[j].name
      BY <1>1, <2>1 DEF IInv, Complete, Usable
    <2>3. ASSUME reader = "sql" \/ "reload" \notin since PROVE rows[i].id # rows[j].id
      <3>1. rows \in Seq(Row)
        BY <1>1 DEF IInv, Shape, CaptureTypeOK
      <3>2. i \in Nat /\ j \in Nat /\ rows[i] \in Row /\ rows[j] \in Row
        BY <2>1, <3>1, LenProperties
      <3>3. \A id \in Ids : id \in Nat
        BY BoundsAssumption DEF Ids
      <3>4. rows[i].id \in Nat /\ rows[j].id \in Nat
        BY <3>2, <3>3 DEF Row
      <3>5. rows[i].id < rows[j].id \/ rows[j].id < rows[i].id
        BY <1>1, <2>1, <2>3, <3>2 DEF IInv, InOrder, Rising
      <3>6. QED
        BY <3>4, <3>5
    <2>4. QED
      BY <2>2, <2>3
  <1>2. QED
    BY <1>1, Invariant, PTL

\* No reader but kart takes a copy for complete when the table's size is no longer that of
\* its first answer.
THEOREM ChangedTotalNoticed == Spec => ChangedTotalIsNoticed
  <1>1. ASSUME IInv, TypeOK, [Next]_vars, phase # "accepted", phase' = "accepted", reader # "kart"
        PROVE  Size = Cardinality(DOMAIN first')
    <2>1. Page \/ Final
      BY <1>1, Steps DEF Begin, Rests, Metadata, AnswerFails, Insert, Delete, Reload, Change, Still, captureVars
    <2>2. CASE Final
      BY <1>1, <2>2 DEF IInv, Shape, CaptureTypeOK, Final
    <2>3. CASE Page
      <3>1. PICK n \in Nat : PageTaken(n) \/ PageRefused(n)
        BY <1>1, <2>3, PageHolds
      <3>2. PageTaken(n)
        BY <1>1, <3>1 DEF PageRefused
      <3>3. total = None => first' = table
        BY <3>2 DEF PageTaken
      <3>4. total # None => first' = first /\ Size = total /\ total = Cardinality(DOMAIN first)
        BY <1>1, <3>2 DEF PageTaken, Accepts, TotalAgrees, IInv, Shape, CaptureTypeOK
      <3>5. QED
        BY <3>3, <3>4 DEF Size
    <2>4. QED
      BY <2>1, <2>2, <2>3
  <1>2. IInv /\ TypeOK /\ [Next]_vars =>
            [phase # "accepted" /\ phase' = "accepted" =>
                reader = "kart" \/ Size = Cardinality(DOMAIN first')]_<<sourceVars, captureVars>>
    BY <1>1
  <1>3. QED
    BY <1>2, Invariant, TypeCorrect, PTL DEF Spec, ChangedTotalIsNoticed

\* A table that was left alone since its total was read is not refused.
LEMMA NotRefused ==
    ASSUME IInv, phase = "pages", NEW n \in Nat, since = {}, reader = "kart" \/ Size <= MaxRows,
           n = 0 => Size <= Len(rows), n # 0 => Len(rows) + n <= Size
    PROVE  Accepts(n)
  <1> DEFINE answer == PageRows(n)
  <1>1. /\ rows \in Seq(Row) /\ Len(rows) \in Nat /\ Size \in Nat /\ answer \in Seq(Row) /\ Len(answer) = n
        /\ total \in Nat \cup {None} /\ total = None => Len(rows) = 0
    BY PageFacts
  <1>2. total # None => Size = total /\ Len(rows) < total
    BY DEF IInv, Shape, CaptureTypeOK, Prefix, Capturing, Size
  <1>3. total = None => reader # "sql"
    BY DEF IInv, Shape
  <1>4. All = Size
    BY <1>2 DEF All
  <1>5. TotalAgrees(answer)
    BY <1>2 DEF TotalAgrees
  <1>6. Ordered(answer)
    <2>1. SUFFICES ASSUME NEW i \in (Len(rows) + 1)..Len(rows \o answer), i > 1
                   PROVE  (rows \o answer)[i - 1].id < (rows \o answer)[i].id
      BY DEF Ordered
    <2>2. Rising(rows \o answer)
      BY PageRises
    <2>3. DOMAIN (rows \o answer) = 1..Len(rows \o answer) /\ Len(rows \o answer) \in Nat
      <3>1. rows \o answer \in Seq(Row)
        BY <1>1, ConcatProperties
      <3>2. QED
        BY <3>1, LenProperties
    <2>4. i - 1 \in 1..Len(rows \o answer) /\ i \in 1..Len(rows \o answer) /\ i - 1 < i
      BY <1>1, <2>1, <2>3
    <2>5. QED
      BY <2>2, <2>3, <2>4 DEF Rising
  <1>7. Counted(answer, All)
    <2>1. n = 0 => total = None /\ Len(rows) = Size
      BY <1>1, <1>2
    <2>2. Len(rows) + n <= Size
      BY <1>1, <2>1
    <2>3. answer = << >> => n = 0
      BY <1>1, EmptySeq
    <2>4. QED
      BY <1>1, <1>4, <2>1, <2>2, <2>3 DEF Counted
  <1>8. QED
    BY <1>5, <1>6, <1>7 DEF Accepts

\* A reader gives a table up only for a failed answer, a change, more rows than it may take, or
\* a table it cannot use: no end of a page and no short page makes it refuse a good one.
THEOREM RefusedForCause == Spec => RejectedForCause
  <1>1. ASSUME IInv, TypeOK, [Next]_vars, phase # "rejected", phase' = "rejected",
               ~failed', since = {}, ~(reader # "kart" /\ Size > MaxRows)
        PROVE  ~Usable(AllRows(table))
    <2>1. Metadata \/ Page \/ Final
      BY <1>1, Steps DEF Begin, Rests, AnswerFails, Insert, Delete, Reload, Change, Still, captureVars
    <2>2. Size \in Nat /\ MaxRows \in Nat
      BY <1>1, TableFinite, BoundsAssumption DEF IInv, Shape, CaptureTypeOK, Size
    <2>3. ~Metadata
      BY <1>1 DEF IInv, Shape, Metadata
    <2>4. ~Final
      BY <1>1 DEF IInv, Shape, CaptureTypeOK, Prefix, Capturing, Final, Size
    <2>5. Page
      BY <2>1, <2>3, <2>4
    <2>6. PICK n \in Nat :
              /\ n = 0 => Size <= Len(rows)
              /\ n # 0 => Len(rows) + n <= Size
              /\ PageTaken(n) \/ PageRefused(n)
      BY <1>1, <2>5, PageHolds
    <2>7. phase = "pages" /\ UNCHANGED <<table, nextId, changed, reader, failed>>
      BY <1>1, <2>5, PageHolds
    <2>8. Accepts(n)
      BY <1>1, <2>2, <2>6, <2>7, NotRefused
    <2>9. PageTaken(n)
      BY <2>6, <2>8 DEF PageRefused
    <2>10. /\ rows' = RowsOf(first', 1, Len(rows')) /\ table = first'
           /\ Len(rows') <= total' /\ total' = Cardinality(DOMAIN first')
           /\ rows' \in Seq(Row) /\ total' \in Nat
      <3>1. since' = {}
        BY <1>1, <2>9 DEF PageTaken
      <3>2. QED
        BY <1>1, <2>6, <2>7, <2>9, <3>1, PageTakenFacts
    <2>11. ~(Len(rows') < total') /\ ~Usable(rows')
      BY <1>1, <2>9 DEF PageTaken
    <2>12. Len(rows') = total'
      BY <2>10, <2>11, LenProperties
    <2>13. rows' = AllRows(table)
      BY <2>10, <2>12 DEF AllRows
    <2>14. QED
      BY <2>11, <2>13
  <1>2. IInv /\ TypeOK /\ [Next]_vars =>
            [phase # "rejected" /\ phase' = "rejected" =>
                \/ failed'
                \/ since # {}
                \/ reader # "kart" /\ Size > MaxRows
                \/ ~Usable(AllRows(table))]_<<sourceVars, captureVars>>
    BY <1>1
  <1>3. QED
    BY <1>2, Invariant, TypeCorrect, PTL DEF Spec, RejectedForCause
=============================================================================
