-------------------------- MODULE ToolCallsProofs --------------------------
(***************************************************************************)
(* The properties of ToolCalls for every suite of queries, every mixture   *)
(* of rows and all bounds.  First what each loader makes of its pages,     *)
(* then what a call has read when nothing is due, then one lemma per tool: *)
(* its answers are right (Right).  The invariant IInv says what a call may *)
(* rely on between its steps, while copies grow old and another worker     *)
(* writes the store.                                                       *)
(***************************************************************************)
EXTENDS ToolCalls, FiniteSetTheorems, TLAPS

-----------------------------------------------------------------------------
(* The loaders, key by key *)

\* A call that was held back before it was sent loads nothing.
LEMMA HeldBackLoadsNothing ==
    ASSUME NEW key, NEW pages, key # "facilities", pages[1].form = "limited"
    PROVE  Load(key, pages) = None
BY DEF Load

\* The loader behind each key of the transit tools.
LEMMA LoadOfTransit ==
    ASSUME NEW pages, pages[1].form # "limited"
    PROVE  /\ Load("iett", pages) = ParseJsonRows(pages[1])
           /\ Load("notices", pages) = ParseJsonRows(pages[1])
           /\ Load("line_info", pages) = ParseJsonRows(pages[1])
           /\ Load("departures", pages) = ParseJsonRows(pages[1])
           /\ Load("stops", pages) = StopsForLine(pages[1])
           /\ Load("metro_istanbul", pages) = ServiceStatuses(pages[1])
           /\ Load("metro_notices", pages) = Announcements(pages[1])
           /\ Load("sehir_hatlari", pages) = Cancellations(pages)
           /\ Load("marmaray", pages) = UrgentNotices(pages)
           /\ Load("summary", pages) = EquipmentSummary(pages[1])
           /\ Load("details", pages) = EquipmentFaults(pages[1])
           /\ Load("catalog", pages) = ScheduleCatalog(pages)
           /\ Load("timetable", pages) = ScheduleForRoute(pages)
BY DEF Load, LoadPage

\* The loader behind each key of the other tools.
LEMMA LoadOfPlaces ==
    ASSUME NEW pages, pages[1].form # "limited"
    PROVE  /\ Load("pharmacies", pages) = LoadRoster(pages[1])
           /\ Load("istanbulkart", pages) = LoadCentres(pages[1])
           /\ Load("parking", pages) = Parks(pages[1])
           /\ Load("metro_station", pages) = Stations(pages[1])
           /\ Load("air_quality_station", pages) = AirJson(pages[1])
           /\ Load("readings", pages) = AirJson(pages[1])
           /\ Load("traffic", pages) = TrafficHistory(pages[1])
           /\ \A key \in {"wifi", "library", "social_assistance", "building_stock",
                          "earthquake_scenario", "datasets", "dataset", "schema", "records"} :
                 Load(key, pages) = CkanRecords(pages[1])
           /\ Load("public_transport_stop", pages) = GtfsStops(pages[1])
           /\ \A key \in {"ev_charging", "cultural_centre", "market"} :
                 Load(key, pages) = OpenDataLayer(pages[1])
BY DEF Load, LoadPage

\* The facilities have a loader of their own, of three pages.
LEMMA LoadOfFacilities ==
    ASSUME NEW pages PROVE Load("facilities", pages) = LoadFacilities(pages)
BY DEF Load

-----------------------------------------------------------------------------
(* Pages *)

InTransit ==
    {"iett", "notices", "line_info", "departures", "stops", "metro_istanbul", "metro_notices",
     "sehir_hatlari", "marmaray", "summary", "details", "catalog", "timetable"}
InPlaces ==
    {"pharmacies", "istanbulkart", "parking", "metro_station", "air_quality_station", "readings",
     "traffic", "wifi", "library", "social_assistance", "building_stock", "earthquake_scenario",
     "datasets", "dataset", "schema", "records", "public_transport_stop", "ev_charging",
     "cultural_centre", "market"}
SourceNames == InTransit \cup InPlaces \cup {"facilities"}

\* What the candidates of a source may send.
PagesOf(key) == [1..Candidates(key) -> Pages(key)]

\* Whatever a source sends is of the kinds that the code tells apart.
LEMMA KindsAreKinds == \A key : KindsOf(key) \subseteq Kinds
BY DEF KindsOf, Kinds

\* A page has rows only where its form has a list.
LEMMA PageFacts ==
    ASSUME NEW key, NEW page \in Pages(key)
    PROVE  /\ page.rows \subseteq KindsOf(key)
           /\ page.rows \subseteq Kinds
           /\ page.form \in {"listed", "none", "bare", "unknown", "cut"} \cup NoPage
           /\ page.form \notin {"listed", "cut"} => page.rows = {}
           /\ page.form = "cut" => key \in {"wifi", "library", "facilities", "social_assistance"}
<1>1. CASE \E m \in Mixes : m \subseteq KindsOf(key) /\ page = [form |-> "listed", rows |-> m]
  BY <1>1, KindsAreKinds
<1>2. CASE \E f \in {"none", "bare", "unknown"} \cup NoPage : page = [form |-> f, rows |-> {}]
  BY <1>2, KindsAreKinds DEF NoPage
<1>3. CASE /\ page = [form |-> "cut", rows |-> {"good"}]
           /\ key \in {"wifi", "library", "facilities", "social_assistance"}
  <2>1. {"good"} \subseteq KindsOf(key)
    BY <1>3 DEF KindsOf, Kinds
  <2> QED BY <1>3, <2>1, KindsAreKinds
<1> QED BY <1>1, <1>2, <1>3 DEF Pages

\* A single candidate is the first that answers.
LEMMA FirstOfOne ==
    ASSUME NEW S, NEW pages \in [1..1 -> S]
    PROVE  FirstAnswer(pages) = pages[1]
<1> DEFINE answering == {i \in DOMAIN pages : pages[i].form \notin NoPage}
<1>1. DOMAIN pages = {1}
  OBVIOUS
<1>2. CASE answering = {}
  BY <1>2 DEF FirstAnswer
<1>3. CASE answering # {}
  <2>1. answering = {1}
    BY <1>1, <1>3
  <2>2. (CHOOSE i \in {1} : \A j \in {1} : i <= j) = 1
    OBVIOUS
  <2> QED BY <2>1, <2>2 DEF FirstAnswer
<1> QED BY <1>2, <1>3

\* Of two candidates one answers for the source.
LEMMA FirstOfTwo ==
    ASSUME NEW S, NEW pages \in [1..2 -> S]
    PROVE  FirstAnswer(pages) \in S
<1> DEFINE answering == {i \in DOMAIN pages : pages[i].form \notin NoPage}
           first == CHOOSE i \in answering : \A j \in answering : i <= j
<1>1. DOMAIN pages = {1, 2}
  OBVIOUS
<1>2. answering # {} => first \in answering
  <2>1. answering # {} => \E i \in answering : \A j \in answering : i <= j
    BY <1>1
  <2> QED BY <2>1
<1>3. answering = {} => FirstAnswer(pages) = pages[1]
  BY DEF FirstAnswer
<1>4. answering # {} => FirstAnswer(pages) = pages[first]
  BY DEF FirstAnswer
<1> QED BY <1>1, <1>2, <1>3, <1>4

\* Most sources have a single candidate.
LEMMA OneCandidate ==
    ASSUME NEW key \in SourceNames \ {"facilities", "sehir_hatlari", "marmaray", "catalog", "timetable"},
           NEW pages \in PagesOf(key)
    PROVE  pages[1] \in Pages(key) /\ UnderstoodPage(key, pages) = pages[1]
<1>1. pages \in [1..1 -> Pages(key)]
  BY DEF PagesOf, Candidates
<1> QED BY <1>1, FirstOfOne DEF UnderstoodPage

-----------------------------------------------------------------------------
(* What a loader keeps of the page it understood *)

\* An empty envelope of these the tools that read them tell apart from an empty list.
WithoutList == {"social_assistance", "building_stock", "earthquake_scenario", "dataset"}
Unsorted == {"iett", "metro_istanbul", "metro_notices", "sehir_hatlari", "marmaray", "summary",
             "details", "notices", "social_assistance", "building_stock", "earthquake_scenario"}

\* The page says what it lists, or its rows say that it does not, and no row that may
\* concern a request was dropped.
Understood(key, pages) ==
    LET page == UnderstoodPage(key, pages)
    IN  /\ page \in Pages(key)
        /\ \/ page.form \in Lists
           \/ page.form = "bare" /\ key \in Lenient
           \/ page.form = "cut" /\ key \in Uncounted
           \/ key = "air_quality_station" /\ Load(key, pages) = {"torn"}
           \/ key = "readings"
           \/ key \in WithoutList /\ page.form = "bare" /\ Load(key, pages) = {}
        /\ page.rows \cap {"good", "also"} \subseteq Load(key, pages)
        /\ key \in Unsorted => page.rows \cap {"else", "loose"} \subseteq Load(key, pages)
        /\ Load(key, pages) \subseteq Kinds

\* The readers of one page of the transit tools understand what they keep.
LEMMA TransitUnderstood ==
    ASSUME NEW key \in InTransit \ {"sehir_hatlari", "marmaray", "catalog", "timetable"},
           NEW pages \in PagesOf(key), Load(key, pages) # None
    PROVE  Understood(key, pages)
<1> DEFINE page == pages[1]
<1>1. page \in Pages(key) /\ UnderstoodPage(key, pages) = page
  BY OneCandidate DEF SourceNames, InTransit
<1>2. page.rows \subseteq Kinds
  BY <1>1, PageFacts
<1>3. page.form # "limited"
  BY HeldBackLoadsNothing DEF InTransit
<1>4. CASE key \in {"iett", "notices", "line_info", "departures"}
  <2>1. Load(key, pages) = ParseJsonRows(page)
    BY <1>3, <1>4, LoadOfTransit
  <2>2. page.form \in LooseLists /\ Load(key, pages) = page.rows
    BY <2>1 DEF ParseJsonRows, ListOf
  <2>3. key \in Lenient
    BY <1>4 DEF Lenient
  <2> QED BY <1>1, <1>2, <2>2, <2>3 DEF Understood, LooseLists
<1>5. CASE key \in {"stops", "metro_istanbul"}
  <2>1. \/ Load(key, pages) = StopsForLine(page)
        \/ Load(key, pages) = ServiceStatuses(page)
    BY <1>3, <1>5, LoadOfTransit
  <2>2. page.form \in LooseLists /\ Load(key, pages) \in {page.rows, page.rows \ {"blank"}}
    BY <2>1 DEF StopsForLine, ServiceStatuses, ListOf
  <2>3. key \in Lenient
    BY <1>5 DEF Lenient
  <2> QED BY <1>1, <1>2, <2>2, <2>3 DEF Understood, LooseLists
<1>6. CASE key \in {"metro_notices", "summary", "details"}
  <2>1. \/ Load(key, pages) = Announcements(page)
        \/ Load(key, pages) = EquipmentSummary(page)
        \/ Load(key, pages) = EquipmentFaults(page)
    BY <1>3, <1>6, LoadOfTransit
  <2>2. /\ page.form \in Lists
        /\ Load(key, pages) \in {page.rows, page.rows \ {"blank"}, page.rows \ {"torn"}}
    BY <2>1 DEF Announcements, EquipmentSummary, EquipmentFaults, ListOf
  <2> QED BY <1>1, <1>2, <2>2 DEF Understood
<1> QED BY <1>4, <1>5, <1>6 DEF InTransit

\* So do those that have a second candidate: a relay, another host, an API.
LEMMA CandidatesUnderstood ==
    ASSUME NEW key \in {"sehir_hatlari", "marmaray", "catalog", "timetable"},
           NEW pages \in PagesOf(key), Load(key, pages) # None
    PROVE  Understood(key, pages)
<1> DEFINE page == UnderstoodPage(key, pages)
<1>1. pages \in [1..2 -> Pages(key)]
  BY DEF PagesOf, Candidates
<1>2. pages[1].form # "limited"
  BY HeldBackLoadsNothing
<1>3. CASE key \in {"sehir_hatlari", "catalog", "timetable"}
  <2>1. page = FirstAnswer(pages) /\ page \in Pages(key)
    BY <1>1, <1>3, FirstOfTwo DEF UnderstoodPage
  <2>2. page.rows \subseteq Kinds
    BY <2>1, PageFacts
  <2>3. CASE key = "sehir_hatlari"
    <3>1. Load(key, pages) = NoticePage(page)
      BY <1>2, <2>1, <2>3, LoadOfTransit DEF Cancellations
    <3>2. page.form \in Lists /\ Load(key, pages) = page.rows
      BY <3>1 DEF NoticePage, ListOf
    <3> QED BY <2>1, <2>2, <3>2 DEF Understood
  <2>4. CASE key = "catalog"
    <3>1. Load(key, pages) = Some(ListOf(page, {"listed"}, {}, {"loose", "blank", "twin"}))
      BY <1>2, <2>1, <2>4, LoadOfTransit DEF ScheduleCatalog
    <3>2. page.form = "listed" /\ Load(key, pages) = page.rows \ {"loose", "blank", "twin"}
      BY <3>1 DEF Some, ListOf
    <3> QED BY <2>1, <2>2, <2>4, <3>2 DEF Understood, Lists, Unsorted
  <2>5. CASE key = "timetable"
    <3>1. Load(key, pages) = Some(ListOf(page, {"listed"}, {}, {"blank"}))
      BY <1>2, <2>1, <2>5, LoadOfTransit DEF ScheduleForRoute
    <3>2. page.form = "listed" /\ Load(key, pages) = page.rows \ {"blank"}
      BY <3>1 DEF Some, ListOf
    <3> QED BY <2>1, <2>2, <3>2 DEF Understood, Lists
  <2> QED BY <1>3, <2>3, <2>4, <2>5
<1>4. CASE key = "marmaray"
  <2>1. Load(key, pages) = UrgentNotices(pages)
    BY <1>2, <1>4, LoadOfTransit
  <2>2. page \in Pages(key)
    BY <1>1, <1>4 DEF UnderstoodPage
  <2>3. page.rows \subseteq Kinds
    BY <2>2, PageFacts
  <2>4. page.form \in Lists /\ Load(key, pages) \in {page.rows, page.rows \ {"quiet"}}
    <3>1. CASE NoticePage(pages[1]) # None
      <4>1. page = pages[1] /\ Load(key, pages) = NoticePage(page)
        BY <1>4, <2>1, <3>1 DEF UnderstoodPage, UrgentNotices
      <4> QED BY <3>1, <4>1 DEF NoticePage, ListOf
    <3>2. CASE NoticePage(pages[1]) = None
      <4>1. page = pages[2] /\ Load(key, pages) = NoticeApi(page)
        BY <1>4, <2>1, <3>2 DEF UnderstoodPage, UrgentNotices
      <4> QED BY <4>1 DEF NoticeApi, ListOf
    <3> QED BY <3>1, <3>2
  <2> QED BY <2>2, <2>3, <2>4 DEF Understood
<1> QED BY <1>3, <1>4

\* So do the readers of places, tables and registers.
LEMMA PlacesUnderstood ==
    ASSUME NEW key \in InPlaces, NEW pages \in PagesOf(key), Load(key, pages) # None
    PROVE  Understood(key, pages)
<1> DEFINE page == pages[1]
<1>1. page \in Pages(key) /\ UnderstoodPage(key, pages) = page
  BY OneCandidate DEF SourceNames, InPlaces
<1>2. page.rows \subseteq Kinds
  BY <1>1, PageFacts
<1>3. page.form # "limited"
  BY HeldBackLoadsNothing DEF InPlaces
<1>4. CASE key \in {"pharmacies", "istanbulkart"}
  <2>1. \/ Load(key, pages) = LoadRoster(page)
        \/ Load(key, pages) = LoadCentres(page)
    BY <1>3, <1>4, LoadOfPlaces
  <2>2. page.form \in Lists /\ Load(key, pages) \in {page.rows, page.rows \ {"blank", "twin"}}
    BY <2>1 DEF LoadRoster, LoadCentres, ListOf, Some
  <2> QED BY <1>1, <1>2, <1>4, <2>2 DEF Understood, Unsorted
<1>5. CASE key \in {"parking", "traffic", "ev_charging", "cultural_centre", "market"}
  <2>1. \/ Load(key, pages) = Parks(page)
        \/ Load(key, pages) = TrafficHistory(page)
        \/ Load(key, pages) = OpenDataLayer(page)
    BY <1>3, <1>5, LoadOfPlaces
  <2>2. page.form \in Lists /\ Load(key, pages) = page.rows
    BY <2>1 DEF Parks, TrafficHistory, OpenDataLayer, ListOf, Lists
  <2> QED BY <1>1, <1>2, <2>2 DEF Understood
<1>6. CASE key = "metro_station"
  <2>1. page.form \in LooseLists /\ Load(key, pages) = page.rows
    BY <1>3, <1>6, LoadOfPlaces DEF Stations, ListOf
  <2> QED BY <1>1, <1>2, <1>6, <2>1 DEF Understood, LooseLists, Lenient
<1>7. CASE key \in {"air_quality_station", "readings"}
  <2>1. Load(key, pages) = AirJson(page)
    BY <1>3, <1>7, LoadOfPlaces
  <2>2. CASE page.form = "unknown"
    <3>1. Load(key, pages) = {"torn"} /\ page.rows = {}
      BY <1>1, <2>1, <2>2, PageFacts DEF AirJson
    <3> QED BY <1>1, <1>7, <3>1 DEF Understood, Kinds
  <2>3. CASE page.form # "unknown"
    <3>1. page.form \in LooseLists /\ Load(key, pages) = page.rows
      BY <2>1, <2>3 DEF AirJson, ListOf
    <3> QED BY <1>1, <1>2, <1>7, <3>1 DEF Understood, LooseLists, Lenient
  <2> QED BY <2>2, <2>3
<1>8. CASE key \in {"wifi", "library", "social_assistance", "building_stock", "earthquake_scenario",
                    "datasets", "dataset", "schema", "records"}
  <2>1. page.form \in LooseLists \cup {"cut"} /\ Load(key, pages) = page.rows
    BY <1>3, <1>8, LoadOfPlaces DEF CkanRecords, ListOf
  <2>2. /\ page.form = "bare" => page.rows = {}
        /\ page.form = "cut" => key \in Uncounted
    BY <1>1, <1>8, PageFacts DEF Uncounted
  <2>3. key \in WithoutList \/ key \in Lenient
    BY <1>8 DEF WithoutList, Lenient
  <2> QED BY <1>1, <1>2, <2>1, <2>2, <2>3 DEF Understood, LooseLists, Lists
<1>9. CASE key = "public_transport_stop"
  <2>1. page.form = "listed" /\ Load(key, pages) = page.rows
    BY <1>3, <1>9, LoadOfPlaces DEF GtfsStops, ListOf
  <2> QED BY <1>1, <1>2, <2>1 DEF Understood, Lists
<1> QED BY <1>4, <1>5, <1>6, <1>7, <1>8, <1>9 DEF InPlaces

\* What any of these readers keeps was on a page that says what it lists.
LEMMA AllUnderstood ==
    ASSUME NEW key \in SourceNames \ {"facilities"}, NEW pages \in PagesOf(key),
           Load(key, pages) # None
    PROVE  Understood(key, pages)
BY TransitUnderstood, CandidatesUnderstood, PlacesUnderstood DEF SourceNames

\* The facilities tell what is missing of a catalogue that they do not take as a whole.
LEMMA FacilitiesUnderstood ==
    ASSUME NEW pages \in PagesOf("facilities"), Load("facilities", pages) # None
    PROVE  LET page == UnderstoodPage("facilities", pages)
           IN  /\ page.form \in Lists \/ FacilitiesTold(pages) \cap {"partial", "file"} # {}
               /\ page.rows \cap {"good", "also"} \subseteq Load("facilities", pages)
               /\ Load("facilities", pages) \subseteq Kinds
<1> DEFINE page == UnderstoodPage("facilities", pages)
<1>1. pages \in [1..3 -> Pages("facilities")]
  BY DEF PagesOf, Candidates
<1>2. \A i \in 1..3 : /\ pages[i].rows \subseteq Kinds
                      /\ pages[i].form \in {"listed", "none", "bare", "unknown", "cut"} \cup NoPage
                      /\ pages[i].form \notin {"listed", "cut"} => pages[i].rows = {}
  BY <1>1, PageFacts
<1>3. Load("facilities", pages) = MergeRows(pages)
  BY LoadOfFacilities DEF LoadFacilities
<1>4. page = IF Catalogued(pages) = {} /\ pages[2].form \in Lists THEN pages[2] ELSE pages[1]
  BY DEF UnderstoodPage
<1>5. page.form \in Lists \/ FacilitiesTold(pages) \cap {"partial", "file"} # {}
  <2>1. CASE pages[1].form \in NoPage \cup {"cut"}
    BY <2>1 DEF FacilitiesTold
  <2>2. CASE Catalogued(pages) = {} /\ pages[2].form \notin Lists
    BY <2>2 DEF FacilitiesTold, FileNeeded
  <2>3. CASE Catalogued(pages) = {} /\ pages[2].form \in Lists
    BY <1>4, <2>3
  <2>4. CASE pages[1].form \in {"bare", "unknown"} /\ Catalogued(pages) # {}
    BY <1>2, <2>4 DEF Catalogued
  <2> QED BY <1>2, <1>4, <2>1, <2>2, <2>3, <2>4 DEF Lists
<1>6. page.rows \cap {"good", "also"} \subseteq MergeRows(pages)
  <2>1. CASE Catalogued(pages) = {} /\ pages[2].form \in Lists
    BY <1>4, <2>1 DEF MergeRows, FileRows, FileNeeded
  <2>2. CASE ~(Catalogued(pages) = {} /\ pages[2].form \in Lists)
    <3>1. page.rows \cap {"good", "also"} \subseteq Catalogued(pages)
      BY <1>2, <1>4, <2>2 DEF Catalogued, NoPage
    <3> QED BY <3>1 DEF MergeRows
  <2> QED BY <2>1, <2>2
<1>7. MergeRows(pages) \subseteq Kinds
  <2>1. Catalogued(pages) \subseteq Kinds /\ FileRows(pages) \subseteq Kinds
    BY <1>2 DEF Catalogued, FileRows
  <2> QED BY <2>1 DEF MergeRows
<1> QED BY <1>3, <1>5, <1>6, <1>7

-----------------------------------------------------------------------------
(* Finite sets of rows, and how they are cut *)

\* Four sources are finitely many.
LEMMA FourAreFinite ==
    ASSUME NEW a, NEW b, NEW c, NEW d
    PROVE  IsFiniteSet({a, b, c, d})
<1>1. IsFiniteSet({a}) /\ IsFiniteSet({b}) /\ IsFiniteSet({c}) /\ IsFiniteSet({d})
  BY FS_Singleton
<1>2. IsFiniteSet({a} \cup {b}) /\ IsFiniteSet({c} \cup {d})
  BY <1>1, FS_Union
<1>3. IsFiniteSet(({a} \cup {b}) \cup ({c} \cup {d}))
  BY <1>2, FS_Union
<1>4. {a, b, c, d} = ({a} \cup {b}) \cup ({c} \cup {d})
  OBVIOUS
<1> QED BY <1>3, <1>4

\* There are finitely many kinds of rows.
LEMMA KindsAreFinite == IsFiniteSet(Kinds)
<1> DEFINE A == {"good", "also", "twin", "else"}
           B == {"loose", "quiet", "blank", "torn"}
<1>1. IsFiniteSet(A) /\ IsFiniteSet(B)
  BY FourAreFinite
<1>2. Kinds = A \cup B
  BY DEF Kinds
<1> QED BY <1>1, <1>2, FS_Union

\* There are finitely many sources.
LEMMA SourcesAreFinite == IsFiniteSet(SourceNames)
<1> DEFINE A == {"iett", "notices", "line_info", "departures"}
           B == {"stops", "metro_istanbul", "metro_notices", "sehir_hatlari"}
           C == {"marmaray", "summary", "details", "catalog"}
           D == {"timetable", "pharmacies", "istanbulkart", "parking"}
           E == {"metro_station", "air_quality_station", "readings", "traffic"}
           F == {"wifi", "library", "social_assistance", "building_stock"}
           G == {"earthquake_scenario", "datasets", "dataset", "schema"}
           H == {"records", "public_transport_stop", "ev_charging", "cultural_centre"}
           I == {"market", "facilities", "market", "facilities"}
<1>1. /\ IsFiniteSet(A) /\ IsFiniteSet(B) /\ IsFiniteSet(C) /\ IsFiniteSet(D) /\ IsFiniteSet(E)
      /\ IsFiniteSet(F) /\ IsFiniteSet(G) /\ IsFiniteSet(H) /\ IsFiniteSet(I)
  BY FourAreFinite
<1>2. SourceNames = A \cup (B \cup (C \cup (D \cup (E \cup (F \cup (G \cup (H \cup I)))))))
  BY DEF SourceNames, InTransit, InPlaces
<1> HIDE DEF A, B, C, D, E, F, G, H, I
<1>3. IsFiniteSet(F \cup (G \cup (H \cup I)))
  BY <1>1, FS_Union
<1>4. IsFiniteSet(B \cup (C \cup (D \cup (E \cup (F \cup (G \cup (H \cup I)))))))
  BY <1>1, <1>3, FS_Union
<1> QED BY <1>1, <1>2, <1>4, FS_Union

\* The rows that any answer may list, up to an edition.
EveryRow(n) == [from : SourceNames, kind : Kinds, edition : 0..n]

\* An answer has finitely many rows to choose from.
LEMMA RowsAreFinite ==
    ASSUME NEW n \in Nat, NEW rows \in SUBSET EveryRow(n)
    PROVE  IsFiniteSet(rows) /\ Cardinality(rows) \in Nat
<1> DEFINE T == (SourceNames \X Kinds) \X (0..n)
           f == [t \in T |-> [from |-> t[1][1], kind |-> t[1][2], edition |-> t[2]]]
<1>1. IsFiniteSet(T)
  <2>1. IsFiniteSet(SourceNames \X Kinds)
    BY SourcesAreFinite, KindsAreFinite, FS_Product
  <2>2. IsFiniteSet(0..n)
    BY FS_Interval
  <2> QED BY <2>1, <2>2, FS_Product
<1>2. f \in Surjection(T, EveryRow(n))
  <2>1. f \in [T -> EveryRow(n)]
    BY DEF EveryRow
  <2>2. ASSUME NEW row \in EveryRow(n) PROVE \E t \in T : f[t] = row
    <3>1. <<<<row.from, row.kind>>, row.edition>> \in T
      BY DEF EveryRow
    <3>2. f[<<<<row.from, row.kind>>, row.edition>>] = row
      BY <3>1 DEF EveryRow
    <3> QED BY <3>1, <3>2
  <2> QED BY <2>1, <2>2 DEF Surjection
<1>3. IsFiniteSet(EveryRow(n))
  BY <1>1, <1>2, FS_Surjection
<1> QED BY <1>3, FS_Subset, FS_CardinalityType

\* What a limit leaves is a part of the rows.
LEMMA CutIsPart ==
    ASSUME NEW rows, NEW limit, NEW shown \in Cut(rows, limit)
    PROVE  shown \subseteq rows
BY DEF Cut

\* Where as many are shown as there are, all are shown.
LEMMA CutWithin ==
    ASSUME NEW rows, IsFiniteSet(rows), NEW limit \in Nat, NEW shown \in Cut(rows, limit),
           ~(Cardinality(rows) > Cardinality(shown))
    PROVE  shown = rows
<1>1. shown \in SUBSET rows /\ Cardinality(shown) \in Nat /\ Cardinality(rows) \in Nat
  BY FS_Subset, FS_CardinalityType DEF Cut
<1>2. Cardinality(shown) = Cardinality(rows)
  BY <1>1, FS_Subset DEF Cut
<1> QED BY <1>1, <1>2, FS_Subset

\* All of them are shown when they fit.
LEMMA CutFits ==
    ASSUME NEW rows, IsFiniteSet(rows), NEW limit, NEW shown \in Cut(rows, limit),
           ~(Cardinality(rows) > limit)
    PROVE  shown = rows
<1>1. shown \in SUBSET rows /\ Cardinality(shown) = Cardinality(rows)
  BY DEF Cut
<1> QED BY <1>1, FS_Subset

\* A result says that it is truncated when fewer rows are shown than matched.
LEMMA Truncated ==
    ASSUME NEW returned \in Nat, NEW matched \in Nat
    PROVE  ResultInfo(returned, matched).truncated = TRUE \/ ~(matched > returned)
BY NoneIsNoCount DEF ResultInfo

\* An answer that counts nothing, and lists the rows or tells that it does not.
Shows(a, rows, freshness, warnings) ==
    /\ a.ok = TRUE /\ a.freshness = freshness /\ a.warnings = warnings /\ a.counts = {}
    /\ a.data \subseteq rows
    /\ a.info.truncated = TRUE \/ a.data = rows

\* What an answer with a list says of its rows.
LEMMA ListedSays ==
    ASSUME NEW rows, IsFiniteSet(rows), NEW limit \in Nat, NEW freshness, NEW warnings,
           NEW a \in Listed(rows, limit, freshness, warnings)
    PROVE  Shows(a, rows, freshness, warnings)
<1>1. PICK shown \in Cut(rows, limit) :
          a = Success(shown, Cardinality(rows), freshness, warnings)
  BY DEF Listed
<1>2. a.data = shown /\ a.info = ResultInfo(Cardinality(shown), Cardinality(rows))
  BY <1>1 DEF Success
<1>3. shown \in SUBSET rows /\ Cardinality(shown) \in Nat /\ Cardinality(rows) \in Nat
  BY CutIsPart, FS_Subset, FS_CardinalityType
<1>4. a.info.truncated = TRUE \/ ~(Cardinality(rows) > Cardinality(shown))
  BY <1>2, <1>3, Truncated
<1>5. a.info.truncated = TRUE \/ a.data = rows
  BY <1>2, <1>4, CutWithin
<1>6. a.ok = TRUE /\ a.freshness = freshness /\ a.warnings = warnings /\ a.counts = {}
  BY <1>1 DEF Success
<1> QED BY <1>2, <1>3, <1>5, <1>6 DEF Shows

-----------------------------------------------------------------------------
(* When a call is ready to answer *)

Asked(q) ==
    /\ q.tool \in Tools /\ q.keys \in KeysOf(q.tool) /\ q.filters \subseteq FiltersOf(q.tool)
    /\ q.limit \in Nat

\* What was read of a key: nothing yet, a copy the loader made something of, or no copy.
ReadOK(key) ==
    /\ got[key].state \in {"unread", "fresh", "stale", "lost"}
    /\ got[key].state \in {"fresh", "stale"} =>
          got[key].pages \in PagesOf(key) /\ Load(key, got[key].pages) # None
    /\ got[key].state = "stale" => key \in StaleIfError

\* The rows of a layer that is replaced are of one copy; what a call wrote of a layer is
\* still there when it searches, unless another worker replaced it.
StoreOK ==
    /\ store \in [Layers -> SUBSET [kind : Kinds, edition : 0..suite.bounds.calls]]
    /\ suite.bounds.calls \in Nat
    /\ \A l \in Replaced : \A f, g \in store[l] : f.edition = g.edition

\* A layer with these features holds those of the rows, or another worker replaced it.
HoldsRows(features, layer, rows) ==
    \/ layer \in Replaced /\ \E f \in features : f.edition = 0
    \/ \A f \in Features(rows, 0) : \E g \in features : g.kind = f.kind
WroteWhatItRead ==
    \A k \in query.keys \cap Layers :
        /\ query.tool # "parking_by_district"
        /\ got[k].state \in {"fresh", "stale"}
        /\ Buildable(k, Rows(got, k))
        => HoldsRows(store[k], k, Rows(got, k))

\* A replaced layer was written from the copy the cache holds of it.
WroteWhatItKeeps ==
    \A k \in Keys \cap Replaced :
        cache[k] # None /\ Buildable(k, Load(k, cache[k].pages)) =>
            HoldsRows(store[k], k, Load(k, cache[k].pages))

\* A timetable was only asked for where the index lists its route.
LookedUp ==
    query.tool = "ferries" /\ got["timetable"].state # "unread" => RouteListed(got)

Reading ==
    /\ Asked(query)
    /\ \A k \in query.keys : ReadOK(k)
    /\ StoreOK /\ WroteWhatItRead /\ LookedUp
Ready == Reading /\ Due = {}

Right(a) == Whole(a) /\ MissingIsTold(a) /\ Accounted(a) /\ OfOnePublication(a)

\* Every tool reads sources that the model names.
LEMMA KeysAreNamed ==
    ASSUME Asked(query)
    PROVE  query.keys \subseteq SourceNames
<1> USE DEF SourceNames, InTransit, InPlaces
<1>1. CASE query.tool \in {"disruptions", "elevators", "ferries", "line_info", "stops", "departures",
                           "istanbulkart", "facilities", "traffic", "line_notices",
                           "pharmacies_nearby", "pharmacies_by_district"}
  BY <1>1 DEF Asked, KeysOf, Operators
<1>2. CASE query.tool \in {"neighbourhood", "markets", "search_datasets", "get_dataset",
                           "get_resource_schema", "query_resource"}
  BY <1>2 DEF Asked, KeysOf, SourceKeys
<1>3. CASE query.tool \in {"parking_nearby", "parking_by_district", "metro_nearby", "air_quality",
                           "city_features", "mobility", "city_services"}
  BY <1>3 DEF Asked, KeysOf, Layers, Upserted, Replaced, ReplacedAtSearch, ReplacedAtLoad, Sections
<1> QED BY <1>1, <1>2, <1>3 DEF Asked, Tools

\* An error promises nothing, so it is right.
LEMMA FailureIsRight ==
    ASSUME NEW code, NEW freshness, NEW warnings
    PROVE  Right(Failure(code, freshness, warnings))
BY DEF Right, Whole, MissingIsTold, Accounted, OfOnePublication, Failure

\* The errors the tools answer are right.
LEMMA ErrorsAreRight ==
    /\ Right(ValidationError) /\ Right(Raised)
    /\ \A warnings : Right(SourceError(warnings))
BY FailureIsRight DEF ValidationError, Raised, SourceError

-----------------------------------------------------------------------------
(* The rows a call has *)

\* The rows a call has of a key are those of the copy it was served.
LEMMA RowsOf ==
    ASSUME NEW k
    PROVE  /\ got[k].state \in {"fresh", "stale"} => Rows(got, k) = Load(k, got[k].pages)
           /\ got[k].state \notin {"fresh", "stale"} => Rows(got, k) = {}
BY DEF Rows, Served

\* They are of the kinds that the code tells apart.
LEMMA RowsAreKinds ==
    ASSUME Reading, NEW k \in query.keys
    PROVE  Rows(got, k) \subseteq Kinds
<1>1. k \in SourceNames /\ ReadOK(k)
  BY KeysAreNamed DEF Reading
<1>2. CASE got[k].state \notin {"fresh", "stale"}
  BY <1>2, RowsOf
<1>3. CASE got[k].state \in {"fresh", "stale"}
  <2>1. Rows(got, k) = Load(k, got[k].pages) /\ got[k].pages \in PagesOf(k) /\ Rows(got, k) # None
    BY <1>1, <1>3, RowsOf DEF ReadOK
  <2>2. CASE k = "facilities"
    BY <2>1, <2>2, FacilitiesUnderstood
  <2>3. CASE k # "facilities"
    BY <1>1, <2>1, <2>3, AllUnderstood DEF Understood
  <2> QED BY <2>2, <2>3
<1> QED BY <1>2, <1>3

\* A record is a row of a key that was served.
LEMMA RecordSays ==
    ASSUME NEW keys, NEW row \in Records(got, keys)
    PROVE  /\ row.from \in keys /\ got[row.from].state \in {"fresh", "stale"}
           /\ row.kind \in Rows(got, row.from) /\ row.edition = 0
           /\ row = Row(row.from, row.kind)
<1>1. PICK k \in keys : \E r \in Rows(got, k) : row = Row(k, r)
  BY DEF Records
<1>2. PICK r \in Rows(got, k) : row = Row(k, r)
  BY <1>1
<1>3. row.from = k /\ row.kind = r /\ row.edition = 0
  BY <1>2 DEF Row
<1>4. got[k].state \in {"fresh", "stale"}
  BY <1>2, RowsOf
<1> QED BY <1>1, <1>2, <1>3, <1>4

\* Each row of a key that was served is a record.
LEMMA RecordIsThere ==
    ASSUME NEW keys, NEW k \in keys, NEW r \in Rows(got, k)
    PROVE  /\ Row(k, r) \in Records(got, keys)
           /\ Row(k, r).from = k /\ Row(k, r).kind = r /\ Row(k, r).edition = 0
BY DEF Records, Row

\* A call has finitely many records.
LEMMA RecordsAreFinite ==
    ASSUME Reading, NEW keys \in SUBSET query.keys, NEW rows \in SUBSET Records(got, keys)
    PROVE  IsFiniteSet(rows) /\ Cardinality(rows) \in Nat
<1>1. ASSUME NEW row \in rows PROVE row \in EveryRow(0)
  <2>1. PICK k \in keys : \E r \in Rows(got, k) : row = Row(k, r)
    BY DEF Records
  <2>2. k \in SourceNames /\ Rows(got, k) \subseteq Kinds
    BY KeysAreNamed, RowsAreKinds DEF Reading
  <2> QED BY <2>1, <2>2 DEF EveryRow, Row
<1> QED BY <1>1, RowsAreFinite

\* What a key that was served owes: its page can be read, and the rows that concern the
\* request are among those the loader kept.
LEMMA ServedKeys ==
    ASSUME Reading, NEW k \in query.keys, got[k].state \in {"fresh", "stale"}
    PROVE  /\ Rows(got, k) = Load(k, got[k].pages) /\ Rows(got, k) # None
           /\ got[k].pages \in PagesOf(k)
           /\ Concerning(k) \subseteq Rows(got, k)
           /\ Concerning(k) \subseteq {"good", "also", "else", "loose"}
           /\ query.filters # {} => Concerning(k) \subseteq {"good", "also"}
           /\ query.tool \notin {"disruptions", "elevators", "line_notices", "neighbourhood"} =>
                 Concerning(k) \subseteq {"good", "also"}
           /\ k \notin WithoutList \cup {"facilities", "readings"} =>
                 \/ Readable(k)
                 \/ k = "air_quality_station" /\ "torn" \in Rows(got, k)
           /\ k \in WithoutList => Readable(k) \/ Rows(got, k) = {}
<1>1. k \in SourceNames /\ ReadOK(k)
  BY KeysAreNamed DEF Reading
<1>2. Rows(got, k) = Load(k, got[k].pages) /\ got[k].pages \in PagesOf(k) /\ Rows(got, k) # None
  BY <1>1, RowsOf DEF ReadOK
<1>3. /\ Concerning(k) \subseteq PageOf(k).rows \cap {"good", "also", "else", "loose"}
      /\ query.filters # {} => Concerning(k) \subseteq {"good", "also"}
      /\ query.tool \notin {"disruptions", "elevators", "line_notices", "neighbourhood"} =>
            Concerning(k) \subseteq {"good", "also"}
  BY DEF Concerning
<1>4. query.tool \in {"disruptions", "elevators", "line_notices", "neighbourhood"} => k \in Unsorted
  BY DEF Reading, Asked, KeysOf, Operators, SourceKeys, Unsorted
<1>5. CASE k = "facilities"
  <2>1. PageOf(k).rows \cap {"good", "also"} \subseteq Rows(got, k)
    BY <1>2, <1>5, FacilitiesUnderstood DEF PageOf
  <2>2. Concerning(k) \subseteq {"good", "also"}
    BY <1>3, <1>4, <1>5 DEF Unsorted
  <2> QED BY <1>2, <1>3, <1>5, <2>1, <2>2 DEF WithoutList
<1>6. CASE k # "facilities"
  <2>1. Understood(k, got[k].pages)
    BY <1>1, <1>2, <1>6, AllUnderstood
  <2>2. Concerning(k) \subseteq Rows(got, k)
    <3>1. CASE k \in Unsorted
      BY <1>2, <1>3, <2>1, <3>1 DEF Understood, PageOf
    <3>2. CASE k \notin Unsorted
      BY <1>2, <1>3, <1>4, <2>1, <3>2 DEF Understood, PageOf
    <3> QED BY <3>1, <3>2
  <2>3. \/ Readable(k)
        \/ k = "air_quality_station" /\ Rows(got, k) = {"torn"}
        \/ k = "readings"
        \/ k \in WithoutList /\ Rows(got, k) = {}
    BY <1>2, <2>1 DEF Understood, Readable, PageOf
  <2> QED BY <1>2, <1>3, <1>6, <2>2, <2>3 DEF WithoutList
<1> QED BY <1>5, <1>6

-----------------------------------------------------------------------------
(* What has been read when nothing is due *)

\* A set of places in the reading order has a first.
LEMMA FirstExists ==
    ASSUME NEW S \in SUBSET (1..14), S # {}
    PROVE  \E i \in S : \A j \in S : i <= j
<1>1. SUFFICES ASSUME \A i \in S : \E j \in S : j < i PROVE FALSE
  OBVIOUS
<1>2. 1 \notin S /\ 2 \notin S /\ 3 \notin S
  BY <1>1
<1>3. 4 \notin S /\ 5 \notin S /\ 6 \notin S
  BY <1>1, <1>2
<1>4. 7 \notin S /\ 8 \notin S /\ 9 \notin S
  BY <1>1, <1>2, <1>3
<1>5. 10 \notin S /\ 11 \notin S /\ 12 \notin S
  BY <1>1, <1>2, <1>3, <1>4
<1>6. 13 \notin S /\ 14 \notin S
  BY <1>1, <1>2, <1>3, <1>4, <1>5
<1>7. PICK i \in S : TRUE
  OBVIOUS
<1>8. i \in 1..14
  BY <1>7
<1>9. i \in {1, 2, 3, 4, 5, 6, 7, 8, 9, 10, 11, 12, 13, 14}
  BY <1>8
<1> QED BY <1>2, <1>3, <1>4, <1>5, <1>6, <1>7, <1>9

\* Nothing is due: a tool that reads at once has read what it wants.
LEMMA ReadAtOnce ==
    ASSUME Due = {}, query.tool \in AtOnce, NEW k \in query.keys, Wanted(k)
    PROVE  got[k].state # "unread"
<1>1. ~Ended
  BY DEF Ended, AtOnce
<1> QED BY <1>1 DEF Due, UnreadKeys

\* Nothing is due: a tool of one key has read it.
LEMMA OneKeyRead ==
    ASSUME Due = {}, query.tool # "mobility", NEW k, query.keys = {k}, Wanted(k)
    PROVE  got[k].state # "unread"
<1>1. UnreadKeys \in SUBSET {k} /\ ~Ended
  BY DEF UnreadKeys, Ended
<1>2. IsFiniteSet({k}) /\ Cardinality({k}) = 1
  BY FS_Singleton
<1>3. Cardinality(UnreadKeys) <= 1
  BY <1>1, <1>2, FS_Subset
<1> QED BY <1>1, <1>3 DEF Due, UnreadKeys

\* Nothing is due: a tool that reads in order has read all it wants.
LEMMA ReadInOrder ==
    ASSUME Due = {}, query.tool \notin AtOnce, ~Ended, \A k \in query.keys : Wanted(k),
           \/ query.tool = "city_features" /\ query.keys \subseteq Layers
           \/ query.tool \in {"mobility", "city_services"} /\ Asked(query)
    PROVE  \A k \in query.keys : got[k].state # "unread"
<1> DEFINE order == IF query.tool = "city_features" THEN OrderOfFeatures ELSE Order
           waiting == {i \in DOMAIN order : order[i] \in UnreadKeys}
           m == CHOOSE i \in waiting : \A j \in waiting : i <= j
<1>1. SUFFICES ASSUME UnreadKeys # {} PROVE FALSE
  BY DEF UnreadKeys
<1>2. PICK k \in UnreadKeys : TRUE
  BY <1>1
<1>3. k \in query.keys
  BY DEF UnreadKeys
<1>4. DOMAIN order \subseteq 1..14
  BY DEF OrderOfFeatures, Order
<1>5. \E i \in DOMAIN order : order[i] = k
  <2>1. CASE query.tool = "city_features"
    <3>1. k \in {"parking", "metro_station", "air_quality_station", "wifi", "ev_charging",
                 "public_transport_stop"}
      BY <1>3, <2>1 DEF Layers, Upserted, Replaced, ReplacedAtSearch, ReplacedAtLoad
    <3>2. DOMAIN OrderOfFeatures = 1..6
      BY DEF OrderOfFeatures
    <3>3. /\ OrderOfFeatures[1] = "parking" /\ OrderOfFeatures[2] = "metro_station"
          /\ OrderOfFeatures[3] = "air_quality_station"
          /\ OrderOfFeatures[4] = "public_transport_stop"
          /\ OrderOfFeatures[5] = "wifi" /\ OrderOfFeatures[6] = "ev_charging"
      BY DEF OrderOfFeatures
    <3> QED BY <2>1, <3>1, <3>2, <3>3
  <2>2. CASE query.tool \in {"mobility", "city_services"}
    <3>1. k \in {"parking", "metro_station", "air_quality_station", "public_transport_stop",
                 "traffic", "wifi", "library", "cultural_centre"}
      BY <1>3, <2>2 DEF Asked, KeysOf, Sections
    <3>2. DOMAIN Order = 1..14
      BY DEF Order
    <3>3. /\ Order[3] = "parking" /\ Order[4] = "metro_station" /\ Order[5] = "traffic"
          /\ Order[6] = "public_transport_stop" /\ Order[7] = "air_quality_station"
          /\ Order[9] = "wifi" /\ Order[11] = "library" /\ Order[12] = "cultural_centre"
      BY DEF Order
    <3> QED BY <2>2, <3>1, <3>2, <3>3
  <2> QED BY <2>1, <2>2
<1>6. waiting # {} /\ waiting \subseteq 1..14
  BY <1>2, <1>4, <1>5
<1>7. m \in waiting
  BY <1>6, FirstExists
<1>8. order[m] \in UnreadKeys /\ Wanted(order[m])
  BY <1>7 DEF UnreadKeys
<1>9. order[m] \in Due \/ k \in Due
  BY <1>2, <1>3, <1>8 DEF Due
<1> QED BY <1>9

\* Nothing is due: of two keys the first was read, whatever became of the second.
LEMMA ReadFirst ==
    ASSUME Due = {},
           NEW a, NEW b, query.keys = {a, b}, Wanted(a),
           \/ query.tool = "ferries" /\ a = "catalog" /\ b = "timetable"
           \/ query.tool = "air_quality" /\ a = "air_quality_station" /\ b = "readings"
           \/ query.tool = "query_resource" /\ a = "schema" /\ b = "records"
    PROVE  got[a].state # "unread"
<1> DEFINE waiting == {i \in DOMAIN Order : Order[i] \in UnreadKeys}
           m == CHOOSE i \in waiting : \A j \in waiting : i <= j
<1>1. SUFFICES ASSUME a \in UnreadKeys PROVE FALSE
  BY DEF UnreadKeys
<1>2. UnreadKeys \subseteq {a, b}
  BY DEF UnreadKeys
<1>3. DOMAIN Order = 1..14
  BY DEF Order
<1>4. \E i \in waiting : Order[i] = a /\ \A j \in 1..14 : j < i => Order[j] \notin {a, b}
  <2>1. Order[1] = "catalog" /\ Order[7] = "air_quality_station" /\ Order[13] = "schema"
    BY DEF Order
  <2>2. \A j \in 1..14 : j < 7 => Order[j] \notin {"air_quality_station", "readings"}
    BY DEF Order
  <2>3. \A j \in 1..14 : j < 13 => Order[j] \notin {"schema", "records"}
    BY DEF Order
  <2> QED BY <1>1, <1>3, <2>1, <2>2, <2>3
<1>5. PICK i \in waiting : Order[i] = a /\ \A j \in 1..14 : j < i => Order[j] \notin {a, b}
  BY <1>4
<1>6. m \in waiting /\ m <= i
  BY <1>3, <1>5, FirstExists
<1>7. Order[m] \in {a, b} /\ m \in 1..14 /\ i \in 1..14
  BY <1>2, <1>3, <1>6
<1>8. \A j \in waiting : i <= j
  BY <1>2, <1>3, <1>5
<1>9. m = i
  BY <1>6, <1>7, <1>8
<1>10. a \in Due
  BY <1>1, <1>5, <1>9 DEF Due, Ended, AtOnce
<1> QED BY <1>10

-----------------------------------------------------------------------------
(* Answers from one list *)

\* What makes an answer from the rows of one source right.
LEMMA OneListIsRight ==
    ASSUME Reading, NEW k, query.keys = {k}, got[k].state \in {"fresh", "stale"},
           NEW a, NEW rows \in SUBSET Records(got, {k}),
           a.ok = TRUE, a.data \subseteq rows, a.info.truncated = TRUE \/ a.data = rows,
           a.freshness = got[k].state,
           got[k].state = "stale" => \E w \in a.warnings : w.about = k,
           Readable(k) \/ ToldPartial(a, k),
           \A kind \in Concerning(k) : Row(k, kind) \in rows,
           Accounted(a)
    PROVE  Right(a)
<1>1. Sources = {k}
  BY DEF Sources
<1>2. \A row \in a.data : row.from = k /\ row.edition = 0
  BY RecordSays
<1>3. \A kind \in Concerning(k) : Row(k, kind).from = k /\ Row(k, kind).kind = kind
  BY DEF Row
<1>4. Whole(a)
  BY <1>1, <1>3 DEF Whole
<1>5. MissingIsTold(a)
  BY <1>1, <1>2 DEF MissingIsTold, In
<1>6. OfOnePublication(a)
  BY <1>2 DEF OfOnePublication
<1> QED BY <1>4, <1>5, <1>6 DEF Right

\* The same for an answer that cuts its rows and counts nothing.
LEMMA ListedIsRight ==
    ASSUME Reading, NEW k, query.keys = {k}, got[k].state \in {"fresh", "stale"},
           NEW rows \in SUBSET Records(got, {k}), NEW freshness, NEW warnings,
           NEW a \in Listed(rows, query.limit, freshness, warnings),
           freshness = got[k].state,
           got[k].state = "stale" => \E w \in warnings : w.about = k,
           Readable(k) \/ ToldPartial(a, k),
           \A kind \in Concerning(k) : Row(k, kind) \in rows
    PROVE  Right(a)
<1> DEFINE limit == query.limit
<1>1. IsFiniteSet(rows) /\ limit \in Nat /\ a \in Listed(rows, limit, freshness, warnings)
  BY RecordsAreFinite DEF Reading, Asked
<1> HIDE DEF limit
<1>2. Shows(a, rows, freshness, warnings)
  BY <1>1, ListedSays
<1>3. Accounted(a)
  BY <1>2 DEF Accounted, Shows
<1> QED BY <1>2, <1>3, OneListIsRight DEF Shows

\* All the records of the one key a call has read make an answer that is right.
LEMMA SuccessIsRight ==
    ASSUME Reading, NEW k, query.keys = {k}, got[k].state = "fresh", Readable(k),
           NEW warnings
    PROVE  Right(Success(Records(got, {k}), None, "fresh", warnings))
<1> DEFINE a == Success(Records(got, {k}), None, "fresh", warnings)
<1>1. a.ok = TRUE /\ a.data = Records(got, {k}) /\ a.freshness = "fresh" /\ a.counts = {}
  BY DEF Success
<1>2. Accounted(a)
  BY <1>1 DEF Accounted
<1>3. \A kind \in Concerning(k) : Row(k, kind) \in Records(got, {k})
  BY ServedKeys, RecordIsThere
<1> HIDE DEF a
<1>4. Right(a)
  BY <1>1, <1>2, <1>3, OneListIsRight
<1> QED BY <1>4 DEF a

\* Of a source that keeps no copy for errors, what was read is fresh or lost.
LEMMA FreshOrLost ==
    ASSUME Reading, NEW k \in query.keys, k \notin StaleIfError, got[k].state # "unread"
    PROVE  got[k].state \in {"fresh", "lost"}
BY DEF Reading, ReadOK

\* A tool of one source has read it.
LEMMA OnlyKeyRead ==
    ASSUME Ready, NEW k, query.keys = {k}, query.tool # "mobility",
           k \notin {"timetable", "readings", "records"}
    PROVE  /\ got[k].state \in {"fresh", "stale", "lost"}
           /\ k \notin StaleIfError => got[k].state \in {"fresh", "lost"}
<1>1. got[k].state # "unread"
  BY OneKeyRead DEF Ready, Wanted
<1> QED BY <1>1, FreshOrLost DEF Ready, Reading, ReadOK

-----------------------------------------------------------------------------
(* The four tools that read IETT *)

\* The errors of IETT are right.
LEMMA IettFailureIsRight ==
    ASSUME NEW k PROVE Right(IettFailure(k, got))
BY FailureIsRight, ErrorsAreRight DEF IettFailure

\* services/transit.py:34-69.
LEMMA LineInfoIsRight ==
    ASSUME Ready, query.tool = "line_info"
    PROVE  Right(LineInfo(got))
<1>1. query.keys = {"line_info"} /\ Reading /\ Due = {}
  BY DEF Ready, Reading, Asked, KeysOf
<1>2. got["line_info"].state \in {"fresh", "lost"}
  BY <1>1, OnlyKeyRead DEF StaleIfError, Operators
<1>3. CASE got["line_info"].state = "lost"
  BY <1>3, IettFailureIsRight DEF LineInfo
<1>4. CASE got["line_info"].state = "fresh"
  <2>1. Readable("line_info")
    BY <1>1, <1>4, ServedKeys DEF WithoutList
  <2>2. PICK warnings : LineInfo(got) = Success(Records(got, {"line_info"}), None, "fresh", warnings)
    BY <1>4 DEF LineInfo
  <2> QED BY <1>1, <1>4, <2>1, <2>2, SuccessIsRight
<1> QED BY <1>2, <1>3, <1>4

\* services/transit.py:71-95.
LEMMA StopsOfLineIsRight ==
    ASSUME Ready, query.tool = "stops"
    PROVE  Right(StopsOfLine(got))
<1>1. query.keys = {"stops"} /\ Reading /\ Due = {}
  BY DEF Ready, Reading, Asked, KeysOf
<1>2. got["stops"].state \in {"fresh", "lost"}
  BY <1>1, OnlyKeyRead DEF StaleIfError, Operators
<1>3. CASE got["stops"].state = "lost"
  BY <1>3, IettFailureIsRight DEF StopsOfLine
<1>4. CASE got["stops"].state = "fresh"
  <2>1. Readable("stops")
    BY <1>1, <1>4, ServedKeys DEF WithoutList
  <2>2. Right(Success(Records(got, {"stops"}), None, "fresh", {}))
    BY <1>1, <1>4, <2>1, SuccessIsRight
  <2> QED BY <1>4, <2>2, ErrorsAreRight DEF StopsOfLine
<1> QED BY <1>2, <1>3, <1>4

\* services/transit.py:97-162.
LEMMA LineNoticesAreRight ==
    ASSUME Ready, query.tool = "line_notices", NEW a \in LineNotices(query, got)
    PROVE  Right(a)
<1> DEFINE rows == {row \in Records(got, {"notices"}) :
                       /\ row.kind \notin {"blank", "twin"}
                       /\ "line" \in query.filters => OfLine(row)}
<1>1. query.keys = {"notices"} /\ Reading /\ Due = {}
  BY DEF Ready, Reading, Asked, KeysOf
<1>2. got["notices"].state \in {"fresh", "lost"}
  BY <1>1, OnlyKeyRead DEF StaleIfError, Operators
<1>3. CASE got["notices"].state = "lost"
  BY <1>3, IettFailureIsRight DEF LineNotices
<1>4. CASE got["notices"].state = "fresh"
  <2>1. Readable("notices")
    BY <1>1, <1>4, ServedKeys DEF WithoutList
  <2>2. ASSUME NEW kind \in Concerning("notices") PROVE Row("notices", kind) \in rows
    <3>1. /\ Row("notices", kind) \in Records(got, {"notices"}) /\ Row("notices", kind).kind = kind
      BY <1>1, <1>4, ServedKeys, RecordIsThere
    <3>2. kind \in {"good", "also", "else", "loose"}
          /\ ("line" \in query.filters => kind \in {"good", "also"})
      BY <1>1, <1>4, ServedKeys
    <3> QED BY <3>1, <3>2 DEF OfLine
  <2>3. a \in Listed(rows, query.limit, "fresh", {})
    BY <1>4 DEF LineNotices
  <2> QED BY <1>1, <1>4, <2>1, <2>2, <2>3, ListedIsRight
<1> QED BY <1>2, <1>3, <1>4

\* services/transit.py:164-276.
LEMMA DeparturesAreRight ==
    ASSUME Ready, query.tool = "departures", NEW a \in PlannedDepartures(query, got)
    PROVE  Right(a)
<1> DEFINE rows == {row \in Records(got, {"departures"}) : row.kind \notin {"else", "twin"}}
<1>1. query.keys = {"departures"} /\ Reading /\ Due = {}
  BY DEF Ready, Reading, Asked, KeysOf
<1>2. got["departures"].state \in {"fresh", "lost"}
  BY <1>1, OnlyKeyRead DEF StaleIfError, Operators
<1>3. CASE got["departures"].state = "lost"
  BY <1>3, IettFailureIsRight DEF PlannedDepartures
<1>4. CASE got["departures"].state = "fresh" /\ \E row \in rows : row.kind = "blank"
  BY <1>4, ErrorsAreRight DEF PlannedDepartures
<1>5. CASE got["departures"].state = "fresh" /\ ~\E row \in rows : row.kind = "blank"
  <2>1. Readable("departures")
    BY <1>1, <1>5, ServedKeys DEF WithoutList
  <2>2. ASSUME NEW kind \in Concerning("departures") PROVE Row("departures", kind) \in rows
    <3>1. /\ Row("departures", kind) \in Records(got, {"departures"})
          /\ Row("departures", kind).kind = kind
      BY <1>1, <1>5, ServedKeys, RecordIsThere
    <3>2. kind \in {"good", "also"}
      BY <1>1, <1>5, ServedKeys
    <3> QED BY <3>1, <3>2
  <2>3. a \in Listed(rows, query.limit, "fresh", {})
    BY <1>5 DEF PlannedDepartures
  <2> QED BY <1>1, <1>5, <2>1, <2>2, <2>3, ListedIsRight
<1> QED BY <1>2, <1>3, <1>4, <1>5

-----------------------------------------------------------------------------
(* Ferries *)

\* services/ferry.py:25-184: a route that is not listed has no timetable.
LEMMA FerriesAreRight ==
    ASSUME Ready, query.tool = "ferries", NEW a \in Schedules(query, got)
    PROVE  Right(a)
<1> DEFINE rows == {row \in Records(got, {"timetable"}) : row.kind # "twin"}
<1>1. query.keys = {"catalog", "timetable"} /\ Reading /\ Due = {} /\ LookedUp
  BY DEF Ready, Reading, Asked, KeysOf
<1>2. got["catalog"].state \in {"fresh", "lost"}
  <2>1. Wanted("catalog")
    BY DEF Wanted
  <2>2. got["catalog"].state # "unread"
    BY <1>1, <2>1, ReadFirst
  <2> QED BY <1>1, <2>2, FreshOrLost DEF StaleIfError, Operators
<1>3. CASE got["catalog"].state = "lost"
  BY <1>3, ErrorsAreRight DEF Schedules
<1>4. CASE got["catalog"].state = "fresh" /\ ~RouteListed(got)
  <2>1. a = Success({}, None, "fresh", {})
    BY <1>4 DEF Schedules
  <2>2. /\ a.ok = TRUE /\ a.data = {} /\ a.freshness = "fresh" /\ a.counts = {}
    BY <2>1 DEF Success
  <2>3. Sources = {"catalog"}
    BY <1>1, <1>4 DEF Sources, LookedUp
  <2>4. Readable("catalog")
    BY <1>1, <1>4, ServedKeys DEF WithoutList
  <2>5. Concerning("catalog") = {}
    BY DEF Concerning
  <2> QED BY <1>4, <2>2, <2>3, <2>4, <2>5
          DEF Right, Whole, MissingIsTold, Accounted, OfOnePublication, In
<1>5. CASE got["catalog"].state = "fresh" /\ RouteListed(got)
  <2>1. got["timetable"].state \in {"fresh", "lost"}
    <3>1. Wanted("timetable")
      BY <1>5 DEF Wanted
    <3>2. \A k \in query.keys : k = "catalog" => k \notin UnreadKeys
      BY <1>5 DEF UnreadKeys
    <3>3. UnreadKeys \in SUBSET {"timetable"}
      BY <1>1, <3>2 DEF UnreadKeys
    <3>4. Cardinality(UnreadKeys) <= 1
      <4>1. IsFiniteSet({"timetable"}) /\ Cardinality({"timetable"}) = 1
        BY FS_Singleton
      <4> QED BY <3>3, <4>1, FS_Subset
    <3>5. got["timetable"].state # "unread"
      BY <1>1, <3>1, <3>4 DEF Due, UnreadKeys, Ended
    <3> QED BY <1>1, <3>5, FreshOrLost DEF StaleIfError, Operators
  <2>2. CASE got["timetable"].state = "lost"
    BY <1>5, <2>2, FailureIsRight DEF Schedules
  <2>3. CASE got["timetable"].state = "fresh" /\ \E row \in rows : row.kind = "loose"
    BY <1>5, <2>3, ErrorsAreRight DEF Schedules
  <2>4. CASE got["timetable"].state = "fresh" /\ ~\E row \in rows : row.kind = "loose"
    <3> DEFINE limit == query.limit
    <3>1. a \in Listed(rows, limit, "fresh", {}) /\ IsFiniteSet(rows) /\ limit \in Nat
      BY <1>1, <1>5, <2>4, RecordsAreFinite DEF Schedules, Reading, Asked
    <3> HIDE DEF limit
    <3>2. Shows(a, rows, "fresh", {})
      BY <3>1, ListedSays
    <3>3. Sources = {"catalog", "timetable"}
      BY <1>1, <1>5, <2>4 DEF Sources
    <3>4. Readable("catalog") /\ Readable("timetable") /\ Concerning("catalog") = {}
      BY <1>1, <1>5, <2>4, ServedKeys DEF WithoutList, Concerning
    <3>5. ASSUME NEW kind \in Concerning("timetable")
          PROVE  \E row \in rows : row.from = "timetable" /\ row.kind = kind
      <4>1. /\ Row("timetable", kind) \in Records(got, {"timetable"})
            /\ Row("timetable", kind).from = "timetable" /\ Row("timetable", kind).kind = kind
        BY <1>1, <2>4, ServedKeys, RecordIsThere
      <4>2. kind \in {"good", "also"}
        BY <1>1, <2>4, ServedKeys
      <4> QED BY <4>1, <4>2
    <3>6. \A row \in a.data : row.from = "timetable" /\ row.edition = 0
      BY <3>2, RecordSays DEF Shows
    <3>7. Whole(a)
      BY <1>5, <2>4, <3>2, <3>3, <3>4, <3>5 DEF Whole, Shows
    <3>8. MissingIsTold(a)
      BY <1>5, <2>4, <3>3, <3>6 DEF MissingIsTold, In
    <3>9. Accounted(a) /\ OfOnePublication(a)
      BY <3>2, <3>6 DEF Accounted, OfOnePublication, Shows
    <3> QED BY <3>7, <3>8, <3>9 DEF Right
  <2> QED BY <2>1, <2>2, <2>3, <2>4
<1> QED BY <1>2, <1>3, <1>4, <1>5

-----------------------------------------------------------------------------
(* Transport disruptions, and the accessibility of the metro *)

\* Rows that were read come from a source, and belong to no layer that is replaced.
LEMMA RecordsAreRead ==
    ASSUME NEW keys, NEW a, a.data \subseteq Records(got, keys)
    PROVE  /\ \A row \in a.data : got[row.from].state \in {"fresh", "stale"}
           /\ OfOnePublication(a)
<1>1. \A row \in a.data : got[row.from].state \in {"fresh", "stale"} /\ row.edition = 0
  BY RecordSays
<1> QED BY <1>1 DEF OfOnePublication

\* A warning is told of each source it is about.
LEMMA ToldOfEach ==
    ASSUME NEW keys, NEW what, NEW k \in keys
    PROVE  \E w \in Told(keys, what) : w.about = k /\ w.what = what
<1>1. [about |-> k, what |-> what] \in Told(keys, what)
  BY DEF Told
<1> QED BY <1>1

\* services/disruptions.py:68-132: any of five sources may be lost or stale.
LEMMA DisruptionsAreRight ==
    ASSUME Ready, query.tool = "disruptions", NEW a \in Disruptions(query, got)
    PROVE  Right(a)
<1> DEFINE lost == In(got, query.keys, "lost")
           stale == In(got, query.keys, "stale")
           rows == FilterAndSort(query, Normalized(Records(got, query.keys)))
           warnings == Told(lost, "unavailable") \cup Told(stale, "stale")
           freshness == DisruptionFreshness(lost, stale, rows)
           limit == query.limit
<1>1. query.keys \subseteq Operators /\ Reading /\ Due = {} /\ limit \in Nat
  BY DEF Ready, Reading, Asked, KeysOf
<1>2. \A k \in query.keys : got[k].state \in {"fresh", "stale", "lost"}
  <2>1. \A k \in query.keys : Wanted(k)
    BY <1>1 DEF Wanted, Operators
  <2> QED BY <1>1, <2>1, ReadAtOnce DEF AtOnce, Reading, ReadOK
<1>3. CASE lost = query.keys
  BY <1>3, FailureIsRight DEF Disruptions
<1>4. CASE lost # query.keys
  <2>1. rows \subseteq Records(got, query.keys)
    BY DEF FilterAndSort, Normalized
  <2>2. a \in Listed(rows, limit, freshness, warnings) /\ IsFiniteSet(rows)
    BY <1>1, <1>4, <2>1, RecordsAreFinite DEF Disruptions
  <2> HIDE DEF rows, freshness, warnings, limit
  <2>3. Shows(a, rows, freshness, warnings)
    BY <1>1, <2>2, ListedSays
  <2> USE DEF rows, freshness, warnings, limit
  <2>4. Sources = query.keys
    BY <1>2 DEF Sources
  <2>5. /\ \A k \in lost : freshness = "unknown" /\ \E w \in warnings : w.about = k
        /\ \A k \in stale : freshness # "fresh" /\ \E w \in warnings : w.about = k
    <3>1. lost # {} => freshness = "unknown"
      BY DEF DisruptionFreshness
    <3>2. stale # {} => freshness # "fresh"
      BY DEF DisruptionFreshness
    <3>3. \A k \in lost : \E w \in warnings : w.about = k
      BY ToldOfEach
    <3>4. \A k \in stale : \E w \in warnings : w.about = k
      BY ToldOfEach
    <3> QED BY <3>1, <3>2, <3>3, <3>4
  <2>6. a.data \subseteq Records(got, query.keys)
    BY <2>1, <2>3 DEF Shows
  <2>7. MissingIsTold(a)
    BY <2>3, <2>4, <2>5, <2>6, RecordsAreRead DEF MissingIsTold, Shows
  <2>8. Whole(a)
    <3>1. SUFFICES ASSUME freshness \in {"fresh", "stale"}, NEW k \in query.keys
                   PROVE  /\ got[k].state \in {"fresh", freshness}
                          /\ Readable(k)
                          /\ \/ a.info.truncated = TRUE
                             \/ \A kind \in Concerning(k) :
                                   \E row \in a.data : row.from = k /\ row.kind = kind
      BY <2>3, <2>4 DEF Whole, Shows
    <3>2. got[k].state \in {"fresh", freshness}
      BY <1>2, <3>1 DEF DisruptionFreshness, In
    <3>3. got[k].state \in {"fresh", "stale"} /\ k \in Operators
      BY <1>1, <3>1, <3>2
    <3>4. Readable(k)
      BY <1>1, <3>3, ServedKeys DEF Operators, WithoutList
    <3>5. ASSUME NEW kind \in Concerning(k)
          PROVE  \E row \in rows : row.from = k /\ row.kind = kind
      <4>1. /\ Row(k, kind) \in Records(got, query.keys)
            /\ Row(k, kind).from = k /\ Row(k, kind).kind = kind
        BY <1>1, <3>3, ServedKeys, RecordIsThere
      <4>2. /\ kind \in {"good", "also", "else", "loose"}
            /\ query.filters # {} => kind \in {"good", "also"}
        BY <1>1, <3>3, ServedKeys
      <4>3. Row(k, kind) \in rows
        BY <4>1, <4>2 DEF FilterAndSort, Normalized, OfMode, OfLine
      <4> QED BY <4>1, <4>3
    <3> QED BY <2>3, <3>2, <3>4, <3>5 DEF Shows
  <2>9. Accounted(a)
    BY <2>3 DEF Accounted, Shows
  <2> QED BY <2>6, <2>7, <2>8, <2>9, RecordsAreRead DEF Right
<1> QED BY <1>3, <1>4

\* What is taken out of some rows and what is left of them are all the rows.
LEMMA PartsAddUp ==
    ASSUME NEW S \in SUBSET Kinds, NEW A
    PROVE  /\ Cardinality(S \ A) + Cardinality(S \cap A) = Cardinality(S)
           /\ Cardinality(S \ A) \in Nat /\ Cardinality(S \cap A) \in Nat /\ Cardinality(S) \in Nat
<1>1. IsFiniteSet(S)
  BY KindsAreFinite, FS_Subset
<1>2. IsFiniteSet(S \ A) /\ IsFiniteSet(S \cap A)
  BY <1>1, FS_Difference, FS_Intersection
<1>3. Cardinality(S \ A) \in Nat /\ Cardinality(S \cap A) \in Nat /\ Cardinality(S) \in Nat
  BY <1>1, <1>2, FS_CardinalityType
<1>4. Cardinality(S \ A) = Cardinality(S) - Cardinality(S \cap A)
  BY <1>1, FS_Difference
<1> QED BY <1>3, <1>4

\* Accepted, filtered and malformed faults are the rows of the page.
LEMMA DetailsAddUp ==
    ASSUME Reading, "details" \in query.keys, got["details"].state \in {"fresh", "stale"}
    PROVE  LET c == DetailCounts(got)
           IN  c.of = "details" /\ c.accepted + c.left = Cardinality(PageOf("details").rows)
<1> DEFINE page == got["details"].pages[1]
           raw == Rows(got, "details")
<1>1. /\ raw = Load("details", got["details"].pages) /\ raw # None
      /\ got["details"].pages \in PagesOf("details")
  BY ServedKeys
<1>2. page \in Pages("details") /\ PageOf("details") = page
  BY <1>1, OneCandidate DEF PageOf, SourceNames, InTransit
<1>3. page.rows \subseteq Kinds
  BY <1>2, PageFacts
<1>4. raw = page.rows \ {"torn"}
  <2>1. page.form # "limited"
    BY <1>1, HeldBackLoadsNothing
  <2>2. raw = EquipmentFaults(page)
    BY <1>1, <2>1, LoadOfTransit
  <2> QED BY <1>1, <2>2 DEF EquipmentFaults, ListOf
<1>5. raw \in SUBSET Kinds
  BY <1>3, <1>4
<1> DEFINE A == {"blank", "twin"}
           kept == Cardinality(raw \ A)
           left == Cardinality(raw \cap A)
           torn == Cardinality(page.rows \cap {"torn"})
<1>6. /\ kept + left = Cardinality(raw) /\ kept \in Nat /\ left \in Nat
      /\ Cardinality(raw) + torn = Cardinality(page.rows) /\ torn \in Nat
      /\ Cardinality(raw) \in Nat
  <2>1. kept + left = Cardinality(raw) /\ kept \in Nat /\ left \in Nat /\ Cardinality(raw) \in Nat
    BY <1>5, PartsAddUp
  <2>2. Cardinality(page.rows \ {"torn"}) + torn = Cardinality(page.rows) /\ torn \in Nat
    BY <1>3, PartsAddUp
  <2> QED BY <1>4, <2>1, <2>2
<1>7. DetailCounts(got) = [of |-> "details", accepted |-> kept, left |-> left + torn]
  BY DEF DetailCounts, MalformedFaults
<1> HIDE DEF kept, left, torn
<1> QED BY <1>2, <1>6, <1>7

\* services/metro_accessibility.py:130-340: the summary, the details, or both.
LEMMA ElevatorsAreRight ==
    ASSUME Ready, query.tool = "elevators", NEW a \in AccessibilityStatus(query, got)
    PROVE  Right(a)
<1> DEFINE both == {"summary", "details"}
           lost == In(got, both, "lost")
           stale == In(got, both, "stale")
           faults == FilterFaults(query, got)
           warnings == AccessibilityWarnings(got)
           freshness == IF lost # {} THEN "unknown" ELSE IF stale # {} THEN "stale" ELSE "fresh"
           matched == IF "details" \in lost THEN None ELSE Cardinality(faults)
           limit == query.limit
<1>1. query.keys = both /\ Reading /\ Due = {} /\ limit \in Nat
  BY DEF Ready, Reading, Asked, KeysOf
<1>2. \A k \in both : got[k].state \in {"fresh", "stale", "lost"}
  <2>1. \A k \in both : Wanted(k)
    BY DEF Wanted
  <2> QED BY <1>1, <2>1, ReadAtOnce DEF AtOnce, Reading, ReadOK
<1>3. CASE lost = both
  BY <1>3, ErrorsAreRight DEF AccessibilityStatus
<1>4. CASE lost # both
  <2>1. PICK shown \in Cut(faults, limit) :
            a = [Success(shown \cup Records(got, {"summary"}), None, freshness, warnings)
                 EXCEPT !.info = ResultInfo(Cardinality(shown), matched),
                        !.counts = IF "details" \in lost THEN {} ELSE {DetailCounts(got)}]
    BY <1>4 DEF AccessibilityStatus
  <2>2. /\ a.ok = TRUE /\ a.freshness = freshness /\ a.warnings = warnings
        /\ a.data = shown \cup Records(got, {"summary"})
        /\ a.info = ResultInfo(Cardinality(shown), matched)
        /\ a.counts = IF "details" \in lost THEN {} ELSE {DetailCounts(got)}
    BY <2>1 DEF Success
  <2>3. faults \subseteq Records(got, {"details"}) /\ shown \subseteq faults
    BY <2>1, CutIsPart DEF FilterFaults
  <2>4. a.data \subseteq Records(got, both)
    BY <2>2, <2>3 DEF Records
  <2>5. Sources = both
    BY <1>1, <1>2 DEF Sources
  <2>6. MissingIsTold(a)
    <3>1. \A k \in lost : \E w \in warnings : w.about = k
      BY ToldOfEach DEF AccessibilityWarnings
    <3>2. \A k \in stale : \E w \in warnings : w.about = k
      BY ToldOfEach DEF AccessibilityWarnings
    <3>3. (lost # {} => freshness = "unknown") /\ (stale # {} => freshness # "fresh")
      OBVIOUS
    <3> HIDE DEF warnings, freshness
    <3> QED BY <2>2, <2>4, <2>5, <3>1, <3>2, <3>3, RecordsAreRead DEF MissingIsTold
  <2>7. Whole(a)
    <3>1. SUFFICES ASSUME freshness \in {"fresh", "stale"}, NEW k \in both
                   PROVE  /\ got[k].state \in {"fresh", freshness}
                          /\ Readable(k)
                          /\ \/ a.info.truncated = TRUE
                             \/ \A kind \in Concerning(k) :
                                   \E row \in a.data : row.from = k /\ row.kind = kind
      BY <2>2, <2>5 DEF Whole
    <3>2. got[k].state \in {"fresh", freshness} /\ got[k].state \in {"fresh", "stale"} /\ lost = {}
      BY <1>2, <3>1 DEF In
    <3>3. Readable(k)
      BY <1>1, <3>2, ServedKeys DEF WithoutList
    <3>4. CASE k = "summary"
      <4>1. ASSUME NEW kind \in Concerning(k)
            PROVE  \E row \in a.data : row.from = k /\ row.kind = kind
        <5>1. /\ Row(k, kind) \in Records(got, {"summary"})
              /\ Row(k, kind).from = k /\ Row(k, kind).kind = kind
          BY <1>1, <3>2, <3>4, ServedKeys, RecordIsThere
        <5> QED BY <2>2, <5>1
      <4> QED BY <3>2, <3>3, <4>1
    <3>5. CASE k = "details"
      <4>1. IsFiniteSet(faults) /\ Cardinality(faults) \in Nat
        BY <1>1, <2>3, RecordsAreFinite
      <4>2. IsFiniteSet(shown) /\ Cardinality(shown) \in Nat
        BY <2>3, <4>1, FS_Subset, FS_CardinalityType
      <4>3. a.info = ResultInfo(Cardinality(shown), Cardinality(faults))
        BY <2>2, <3>2
      <4>4. a.info.truncated = TRUE \/ shown = faults
        BY <1>1, <2>1, <4>1, <4>2, <4>3, Truncated, CutWithin
      <4>5. ASSUME NEW kind \in Concerning(k)
            PROVE  \E row \in faults : row.from = k /\ row.kind = kind
        <5>1. /\ Row(k, kind) \in Records(got, {"details"})
              /\ Row(k, kind).from = k /\ Row(k, kind).kind = kind
          BY <1>1, <3>2, <3>5, ServedKeys, RecordIsThere
        <5>2. /\ kind \in {"good", "also", "else", "loose"}
              /\ query.filters # {} => kind \in {"good", "also"}
          BY <1>1, <3>2, ServedKeys
        <5>3. Row(k, kind) \in faults
          BY <5>1, <5>2 DEF FilterFaults, OfLine
        <5> QED BY <5>1, <5>3
      <4> QED BY <2>2, <3>2, <3>3, <4>4, <4>5
    <3> QED BY <3>1, <3>4, <3>5
  <2>8. Accounted(a)
    <3>1. CASE "details" \in lost
      BY <2>2, <3>1 DEF Accounted
    <3>2. CASE "details" \notin lost
      <4>1. got["details"].state \in {"fresh", "stale"}
        BY <1>2, <3>2 DEF In
      <4> QED BY <1>1, <2>2, <3>2, <4>1, DetailsAddUp DEF Accounted
    <3> QED BY <3>1, <3>2
  <2> QED BY <2>4, <2>6, <2>7, <2>8, RecordsAreRead DEF Right
<1> QED BY <1>3, <1>4

-----------------------------------------------------------------------------
(* Rosters: pharmacies, centres, facilities *)

\* A warning of an old roster is about its source.
LEMMA StaleRosterIsTold ==
    ASSUME NEW key, got[key].state = "stale",
           NEW warnings, AboutRoster(key, "stale") \in warnings
    PROVE  \E w \in warnings : w.about = key
<1>1. AboutRoster(key, "stale").about = key
  BY DEF AboutRoster
<1> QED BY <1>1

\* The rows of a roster are accepted, invalid or repeated.
LEMMA RosterAddsUp ==
    ASSUME Reading, NEW key \in query.keys, key \in {"pharmacies", "istanbulkart"},
           got[key].state \in {"fresh", "stale"}
    PROVE  LET c == RosterCounts(got, key)
           IN  c.of = key /\ c.accepted + c.left = Cardinality(PageOf(key).rows)
<1> DEFINE page == got[key].pages[1]
           raw == Rows(got, key)
           A == {"blank", "twin"}
<1>1. raw = Load(key, got[key].pages) /\ raw # None /\ got[key].pages \in PagesOf(key)
  BY ServedKeys
<1>2. page \in Pages(key) /\ PageOf(key) = page
  BY <1>1, OneCandidate DEF PageOf, SourceNames, InPlaces
<1>3. page.rows \subseteq Kinds
  BY <1>2, PageFacts
<1>4. raw = page.rows \ A
  <2>1. page.form # "limited"
    BY <1>1, HeldBackLoadsNothing
  <2>2. raw = LoadRoster(page) \/ raw = LoadCentres(page)
    BY <1>1, <2>1, LoadOfPlaces
  <2> QED BY <1>1, <2>2 DEF LoadRoster, LoadCentres, ListOf, Some
<1>5. /\ Cardinality(raw) + Cardinality(page.rows \cap A) = Cardinality(page.rows)
  BY <1>3, <1>4, PartsAddUp
<1>6. RosterCounts(got, key) =
          [of |-> key, accepted |-> Cardinality(raw), left |-> Cardinality(page.rows \cap A)]
  BY DEF RosterCounts
<1> HIDE DEF raw, A
<1> QED BY <1>2, <1>5, <1>6

\* What both tools over a roster owe.
LEMMA RosterIsRight ==
    ASSUME Reading, NEW key, query.keys = {key}, key \in {"pharmacies", "istanbulkart"},
           got[key].state \in {"fresh", "stale"},
           NEW rows \in SUBSET Records(got, {key}), NEW warnings,
           got[key].state = "stale" => \E w \in warnings : w.about = key,
           \A row \in Records(got, {key}) : row.kind \in {"good", "also"} => row \in rows,
           NEW a \in RosterAnswers(query, rows, got, key, warnings)
    PROVE  Right(a)
<1> DEFINE limit == query.limit
<1>1. PICK b \in Listed(rows, limit, RosterFreshness(got, key), warnings) :
          a = [b EXCEPT !.counts = {RosterCounts(got, key)}]
  BY DEF RosterAnswers
<1>2. IsFiniteSet(rows) /\ limit \in Nat /\ query.tool \in Tools
  BY RecordsAreFinite DEF Reading, Asked
<1>3. PICK shown : b = Success(shown, Cardinality(rows), RosterFreshness(got, key), warnings)
  BY <1>1 DEF Listed
<1> DEFINE freshness == RosterFreshness(got, key)
<1>4. b \in Listed(rows, limit, freshness, warnings)
  BY <1>1
<1> HIDE DEF limit, freshness
<1>5. Shows(b, rows, freshness, warnings)
  BY <1>2, <1>4, ListedSays
<1> USE DEF limit, freshness
<1>6. /\ a.ok = b.ok /\ a.data = b.data /\ a.freshness = b.freshness /\ a.warnings = b.warnings
      /\ a.info = b.info /\ a.counts = {RosterCounts(got, key)}
  BY <1>1, <1>3 DEF Success
<1>7. Accounted(a)
  BY <1>6, RosterAddsUp DEF Accounted
<1>8. query.tool \notin {"disruptions", "elevators", "line_notices", "neighbourhood"}
  BY DEF Reading, Asked, KeysOf, Operators, SourceKeys
<1>9. \A kind \in Concerning(key) : Row(key, kind) \in rows
  BY <1>8, ServedKeys, RecordIsThere
<1>10. Readable(key)
  BY ServedKeys DEF WithoutList
<1>11. a.freshness = got[key].state
  BY <1>5, <1>6 DEF Shows, RosterFreshness
<1>12. /\ a.ok = TRUE /\ a.data \subseteq rows /\ a.warnings = warnings
       /\ a.info.truncated = TRUE \/ a.data = rows
  BY <1>5, <1>6 DEF Shows
<1> QED BY <1>7, <1>9, <1>10, <1>11, <1>12, OneListIsRight

\* services/pharmacy.py:59-157.
LEMMA PharmaciesAreRight ==
    ASSUME Ready, NEW a,
           \/ query.tool = "pharmacies_nearby" /\ a \in PharmaciesNearby(query, got)
           \/ query.tool = "pharmacies_by_district" /\ a \in PharmaciesByDistrict(query, got)
    PROVE  Right(a)
<1> DEFINE nearby == {row \in Records(got, {"pharmacies"}) : row.kind \notin {"else", "loose"}}
           district == {row \in Records(got, {"pharmacies"}) : row.kind # "else"}
           warnings == RosterWarnings(got, "pharmacies")
<1>1. query.keys = {"pharmacies"} /\ Reading /\ Due = {}
  BY DEF Ready, Reading, Asked, KeysOf
<1>2. got["pharmacies"].state \in {"fresh", "stale", "lost"}
  BY <1>1, OnlyKeyRead
<1>3. CASE got["pharmacies"].state = "lost"
  BY <1>3, FailureIsRight, ErrorsAreRight DEF PharmaciesNearby, PharmaciesByDistrict, PharmaciesLost
<1>4. CASE got["pharmacies"].state \in {"fresh", "stale"}
  <2>1. PICK rows \in {nearby, district} :
            a \in RosterAnswers(query, rows, got, "pharmacies", warnings)
    BY <1>4 DEF PharmaciesNearby, PharmaciesByDistrict
  <2>2. /\ rows \subseteq Records(got, {"pharmacies"})
        /\ \A row \in Records(got, {"pharmacies"}) : row.kind \in {"good", "also"} => row \in rows
    BY <2>1
  <2>3. got["pharmacies"].state = "stale" => \E w \in warnings : w.about = "pharmacies"
    <3>1. got["pharmacies"].state = "stale" => AboutRoster("pharmacies", "stale") \in warnings
      BY DEF RosterWarnings
    <3> HIDE DEF warnings
    <3> QED BY <3>1, StaleRosterIsTold
  <2> QED BY <1>1, <1>4, <2>1, <2>2, <2>3, RosterIsRight
<1> QED BY <1>2, <1>3, <1>4

\* services/istanbulkart.py:76-133.
LEMMA CentresAreRight ==
    ASSUME Ready, query.tool = "istanbulkart", NEW a \in CentresNearby(query, got)
    PROVE  Right(a)
<1> DEFINE rows == {row \in Records(got, {"istanbulkart"}) : row.kind # "else"}
           warnings == CentresWarnings(got)
<1>1. query.keys = {"istanbulkart"} /\ Reading /\ Due = {}
  BY DEF Ready, Reading, Asked, KeysOf
<1>2. got["istanbulkart"].state \in {"fresh", "stale", "lost"}
  BY <1>1, OnlyKeyRead
<1>3. CASE got["istanbulkart"].state = "lost"
  BY <1>3, FailureIsRight, ErrorsAreRight DEF CentresNearby, CentresLost
<1>4. CASE got["istanbulkart"].state \in {"fresh", "stale"}
  <2>1. a \in RosterAnswers(query, rows, got, "istanbulkart", warnings)
    BY <1>4 DEF CentresNearby
  <2>2. /\ rows \subseteq Records(got, {"istanbulkart"})
        /\ \A row \in Records(got, {"istanbulkart"}) : row.kind \in {"good", "also"} => row \in rows
    OBVIOUS
  <2>3. got["istanbulkart"].state = "stale" => \E w \in warnings : w.about = "istanbulkart"
    <3>1. got["istanbulkart"].state = "stale" => AboutRoster("istanbulkart", "stale") \in warnings
      BY DEF CentresWarnings, RosterWarnings
    <3> HIDE DEF warnings
    <3> QED BY <3>1, StaleRosterIsTold
  <2> QED BY <1>1, <1>4, <2>1, <2>2, <2>3, RosterIsRight
<1> QED BY <1>2, <1>3, <1>4

\* services/social_facilities.py:89-140.
LEMMA FacilitiesAreRight ==
    ASSUME Ready, query.tool = "facilities", NEW a \in FacilitiesNearby(query, got)
    PROVE  Right(a)
<1> DEFINE k == "facilities"
           rows == {row \in Records(got, {k}) : row.kind # "else"}
           warnings == FacilitiesWarnings(got)
           freshness == RosterFreshness(got, k)
<1>1. query.keys = {k} /\ Reading /\ Due = {} /\ query.limit \in Nat
  BY DEF Ready, Reading, Asked, KeysOf
<1>2. got[k].state \in {"fresh", "stale", "lost"}
  BY <1>1, OnlyKeyRead
<1>3. CASE got[k].state = "lost"
  BY <1>3, FailureIsRight, ErrorsAreRight DEF FacilitiesNearby, FacilitiesLost
<1>4. CASE got[k].state \in {"fresh", "stale"}
  <2>1. a \in Listed(rows, query.limit, freshness, warnings)
    BY <1>4 DEF FacilitiesNearby
  <2>2. got[k].state = "stale" => \E w \in warnings : w.about = k
    <3>1. got[k].state = "stale" => AboutRoster(k, "stale") \in warnings
      BY DEF FacilitiesWarnings
    <3> HIDE DEF warnings
    <3> QED BY <3>1, StaleRosterIsTold
  <2>3. freshness = got[k].state
    BY DEF RosterFreshness
  <2>4. Readable(k) \/ ToldPartial(a, k)
    <3>1. PageOf(k).form \in Lists \/ FacilitiesTold(got[k].pages) \cap {"partial", "file"} # {}
      BY <1>1, <1>4, ServedKeys, FacilitiesUnderstood DEF PageOf
    <3>2. CASE PageOf(k).form \in Lists
      BY <3>2 DEF Readable
    <3>3. CASE FacilitiesTold(got[k].pages) \cap {"partial", "file"} # {}
      <4>1. PICK what \in FacilitiesTold(got[k].pages) : what \in {"partial", "file"}
        BY <3>3
      <4>2. AboutRoster(k, what) \in warnings /\ AboutRoster(k, what).about = k
            /\ AboutRoster(k, what).what = what
        BY <4>1 DEF FacilitiesWarnings, AboutRoster
      <4>3. PICK shown : a = Success(shown, Cardinality(rows), freshness, warnings)
        BY <2>1 DEF Listed
      <4>4. a.warnings = warnings
        BY <4>3 DEF Success
      <4> HIDE DEF warnings
      <4> QED BY <4>1, <4>2, <4>4 DEF ToldPartial
    <3> QED BY <3>1, <3>2, <3>3
  <2>5. ASSUME NEW kind \in Concerning(k) PROVE Row(k, kind) \in rows
    <3>1. Row(k, kind) \in Records(got, {k}) /\ Row(k, kind).kind = kind
      BY <1>1, <1>4, ServedKeys, RecordIsThere
    <3>2. kind \in {"good", "also"}
      BY <1>1, <1>4, ServedKeys
    <3> QED BY <3>1, <3>2
  <2> HIDE DEF rows, warnings, freshness
  <2>6. rows \subseteq Records(got, {k})
    BY DEF rows
  <2> QED BY <1>1, <1>4, <2>1, <2>2, <2>3, <2>4, <2>5, <2>6, ListedIsRight
<1> QED BY <1>2, <1>3, <1>4

-----------------------------------------------------------------------------
(* The tables of the open data portal *)

\* A warning about a table names it.
LEMMA TableIsAbout ==
    ASSUME NEW keys, NEW what, NEW k \in keys
    PROVE  \E w \in AboutTables(keys, what) : w.about = k /\ w.what = what
<1>1. [about |-> k, what |-> what] \in AboutTables(keys, what)
  BY DEF AboutTables
<1> QED BY <1>1

\* services/neighborhood.py:114-309: three tables read at once, any of which may be lost.
LEMMA NeighbourhoodIsRight ==
    ASSUME Ready, query.tool = "neighbourhood", NEW a \in Profile(query, got)
    PROVE  Right(a)
<1> DEFINE rows == IndexRows(got, SourceKeys)
           lost == In(got, SourceKeys, "lost")
<1>1. /\ query.keys = SourceKeys /\ Reading /\ Due = {} /\ query.limit \in Nat
      /\ query.filters \subseteq {"name"}
  BY DEF Ready, Reading, Asked, KeysOf, FiltersOf
<1>2. \A k \in SourceKeys : got[k].state \in {"fresh", "lost"}
  <2>1. \A k \in SourceKeys : Wanted(k) /\ k \notin StaleIfError
    BY DEF Wanted, SourceKeys, StaleIfError, Operators
  <2>2. \A k \in SourceKeys : got[k].state # "unread"
    BY <1>1, <2>1, ReadAtOnce DEF AtOnce
  <2> QED BY <1>1, <2>1, <2>2, FreshOrLost
<1>3. CASE lost # {}
  BY <1>3, ErrorsAreRight DEF Profile
<1>4. CASE lost = {} /\ ((\E row \in rows : row.kind = "torn") \/ rows = {})
  BY <1>4, ErrorsAreRight DEF Profile
<1>5. CASE lost = {} /\ ~(\E row \in rows : row.kind = "torn") /\ rows # {}
  <2>1. Sources = SourceKeys /\ \A k \in SourceKeys : got[k].state = "fresh"
    BY <1>1, <1>2, <1>5 DEF Sources, In
  <2>2. rows \subseteq Records(got, SourceKeys)
    BY DEF IndexRows
  <2>3. \A k \in SourceKeys : Readable(k) \/ Rows(got, k) = {}
    BY <1>1, <2>1, ServedKeys DEF SourceKeys, WithoutList
  <2>4. \A k \in SourceKeys :
           Readable(k) \/ \E w \in AboutTables(EmptySources(got), "empty") :
                              w.about = k /\ w.what \in {"partial", "file", "empty"}
    <3>1. \A k \in SourceKeys : Readable(k) \/ k \in EmptySources(got)
      BY <2>3 DEF EmptySources
    <3> QED BY <3>1, TableIsAbout
  <2>5. ASSUME NEW k \in SourceKeys, NEW kind \in Concerning(k)
        PROVE  /\ Row(k, kind) \in rows /\ Row(k, kind).from = k /\ Row(k, kind).kind = kind
               /\ query.filters # {} => kind = "good"
    <3>1. /\ Row(k, kind) \in Records(got, SourceKeys)
          /\ Row(k, kind).from = k /\ Row(k, kind).kind = kind
      BY <1>1, <2>1, ServedKeys, RecordIsThere
    <3>2. kind \in {"good", "also", "else", "loose"}
      BY <1>1, <2>1, ServedKeys
    <3>3. query.filters # {} => kind = "good"
      BY DEF Concerning, SourceKeys
    <3> QED BY <3>1, <3>2, <3>3 DEF IndexRows
  <2>6. ASSUME a.ok = TRUE, a.freshness = "fresh", a.counts = {}, a.data \subseteq rows,
               AboutTables(EmptySources(got), "empty") \subseteq a.warnings,
               \/ a.info.truncated = TRUE
               \/ \A k \in SourceKeys : \A kind \in Concerning(k) : Row(k, kind) \in a.data
        PROVE  Right(a)
    <3>1. Whole(a)
      BY <2>1, <2>4, <2>5, <2>6 DEF Whole, ToldPartial
    <3>2. MissingIsTold(a)
      BY <2>1, <2>2, <2>6, RecordsAreRead DEF MissingIsTold, In
    <3>3. Accounted(a)
      BY <2>6 DEF Accounted
    <3> QED BY <2>2, <2>6, <3>1, <3>2, <3>3, RecordsAreRead DEF Right
  <2>7. CASE "name" \in query.filters
    <3> DEFINE profile == {row \in rows : row.kind = "good"}
               warnings == AboutTables(EmptySources(got), "empty")
                           \cup AboutTables(NotCovering(got, "good"), "unmatched")
    <3>1. a = SingleProfile(got, rows)
      BY <1>5, <2>7 DEF Profile
    <3>2. CASE profile = {}
      BY <3>1, <3>2, ErrorsAreRight DEF SingleProfile
    <3>3. CASE profile # {}
      <4>1. a = Success(profile, None, "fresh", warnings)
        BY <3>1, <3>3 DEF SingleProfile
      <4>2. /\ a.ok = TRUE /\ a.freshness = "fresh" /\ a.counts = {} /\ a.data = profile
            /\ a.warnings = warnings
        BY <4>1 DEF Success
      <4>3. \A k \in SourceKeys : \A kind \in Concerning(k) : Row(k, kind) \in a.data
        BY <2>5, <2>7, <4>2
      <4> QED BY <2>6, <4>2, <4>3
    <3> QED BY <3>2, <3>3
  <2>8. CASE "name" \notin query.filters
    <3> DEFINE names == {row.kind : row \in rows}
               warnings == AboutTables(EmptySources(got), "empty")
    <3>1. a \in DistrictList(query, got, rows)
      BY <1>5, <2>8 DEF Profile
    <3>2. PICK shown \in Cut(names, query.limit) :
              a = [Success({row \in rows : row.kind \in shown}, None, "fresh", warnings)
                   EXCEPT !.info = ResultInfo(Cardinality(shown), Cardinality(names))]
      BY <3>1 DEF DistrictList
    <3>3. /\ a.ok = TRUE /\ a.freshness = "fresh" /\ a.counts = {}
          /\ a.data = {row \in rows : row.kind \in shown}
          /\ a.warnings = warnings
          /\ a.info = ResultInfo(Cardinality(shown), Cardinality(names))
      BY <3>2 DEF Success
    <3>4. names \subseteq Kinds
      BY <1>1, <2>2, RecordSays, RowsAreKinds
    <3>5. IsFiniteSet(names) /\ Cardinality(names) \in Nat
      BY <3>4, KindsAreFinite, FS_Subset, FS_CardinalityType
    <3>6. shown \in SUBSET names
      BY <3>2, CutIsPart
    <3>7. Cardinality(shown) \in Nat
      BY <3>5, <3>6, FS_Subset, FS_CardinalityType
    <3>8. a.info.truncated = TRUE \/ ~(Cardinality(names) > Cardinality(shown))
      BY <3>3, <3>5, <3>7, Truncated
    <3>9. a.info.truncated = TRUE \/ shown = names
      BY <1>1, <3>2, <3>5, <3>8, CutWithin
    <3>10. shown = names => \A k \in SourceKeys : \A kind \in Concerning(k) : Row(k, kind) \in a.data
      BY <2>5, <3>3
    <3> QED BY <2>6, <3>3, <3>9, <3>10
  <2> QED BY <2>7, <2>8
<1> QED BY <1>3, <1>4, <1>5

\* As many rows of a source as kinds that are kept of it.
LEMMA RecordsCount ==
    ASSUME Reading, NEW k \in query.keys, NEW A
    PROVE  Cardinality({row \in Records(got, {k}) : row.kind \notin A}) = Cardinality(Rows(got, k) \ A)
<1> DEFINE S == Rows(got, k) \ A
           T == {row \in Records(got, {k}) : row.kind \notin A}
           f == [r \in S |-> Row(k, r)]
<1>1. IsFiniteSet(S)
  BY RowsAreKinds, KindsAreFinite, FS_Subset
<1>2. f \in [S -> T]
  BY RecordIsThere
<1>3. ASSUME NEW row \in T PROVE \E r \in S : f[r] = row
  <2>1. row = Row(k, row.kind) /\ row.kind \in S
    BY RecordSays
  <2> QED BY <2>1
<1>4. \A r, s \in S : f[r] = f[s] => r = s
  BY DEF Row
<1>5. f \in Bijection(S, T)
  BY <1>2, <1>3, <1>4 DEF Bijection, Injection, Surjection, IsInjective
<1> QED BY <1>1, <1>5, FS_Bijection DEF ExistsBijection

\* services/markets.py:67-156.
LEMMA MarketsAreRight ==
    ASSUME Ready, query.tool = "markets", NEW a \in MarketSchedule(query, got)
    PROVE  Right(a)
<1> DEFINE k == "market"
           left == {"loose", "blank"}
           raw == Rows(got, k)
           rows == {row \in Records(got, {k}) : row.kind \notin left}
           wanted == {row \in rows : "day" \in query.filters => row.kind # "else"}
           counts == [of |-> k, accepted |-> Cardinality(rows), left |-> Cardinality(Skipped(got))]
           warnings == IF Skipped(got) = {} THEN {} ELSE AboutTables({k}, "skipped")
           limit == query.limit
<1>1. query.keys = {k} /\ Reading /\ Due = {} /\ limit \in Nat
  BY DEF Ready, Reading, Asked, KeysOf
<1>2. got[k].state \in {"fresh", "lost"}
  BY <1>1, OnlyKeyRead DEF StaleIfError, Operators
<1>3. CASE got[k].state = "lost"
  BY <1>3, ErrorsAreRight DEF MarketSchedule
<1>4. CASE got[k].state = "fresh"
  <2>1. PICK b \in Listed(wanted, limit, "fresh", warnings) : a = [b EXCEPT !.counts = {counts}]
    BY <1>4 DEF MarketSchedule
  <2>2. PICK shown : b = Success(shown, Cardinality(wanted), "fresh", warnings)
    BY <2>1 DEF Listed
  <2>3. IsFiniteSet(wanted) /\ wanted \subseteq Records(got, {k})
    BY <1>1, RecordsAreFinite
  <2> HIDE DEF wanted, warnings, limit
  <2>4. Shows(b, wanted, "fresh", warnings)
    BY <1>1, <2>1, <2>3, ListedSays
  <2>5. /\ a.ok = b.ok /\ a.data = b.data /\ a.freshness = b.freshness /\ a.warnings = b.warnings
        /\ a.info = b.info /\ a.counts = {counts}
    BY <2>1, <2>2 DEF Success
  <2>6. PageOf(k).rows = raw /\ raw \subseteq Kinds
    <3>1. /\ raw = Load(k, got[k].pages) /\ raw # None /\ got[k].pages \in PagesOf(k)
      BY <1>1, <1>4, ServedKeys
    <3>2. PageOf(k) = got[k].pages[1]
      BY <3>1, OneCandidate DEF PageOf, SourceNames, InPlaces
    <3>3. raw = OpenDataLayer(got[k].pages[1])
      BY <3>1, HeldBackLoadsNothing, LoadOfPlaces
    <3>4. raw \subseteq Kinds
      BY <1>1, RowsAreKinds
    <3> QED BY <3>1, <3>2, <3>3, <3>4 DEF OpenDataLayer, ListOf
  <2>7. Cardinality(rows) + Cardinality(Skipped(got)) = Cardinality(raw)
    <3>1. Cardinality(rows) = Cardinality(raw \ left)
      BY <1>1, RecordsCount
    <3>2. Skipped(got) = raw \cap left
      BY DEF Skipped
    <3> QED BY <2>6, <3>1, <3>2, PartsAddUp
  <2>8. Accounted(a)
    <3>1. counts.of = k /\ counts.accepted = Cardinality(rows) /\ counts.left = Cardinality(Skipped(got))
      OBVIOUS
    <3> HIDE DEF counts
    <3> QED BY <2>5, <2>6, <2>7, <3>1 DEF Accounted
  <2>9. ASSUME NEW kind \in Concerning(k) PROVE Row(k, kind) \in wanted
    <3>1. Row(k, kind) \in Records(got, {k}) /\ Row(k, kind).kind = kind
      BY <1>1, <1>4, ServedKeys, RecordIsThere
    <3>2. kind \in {"good", "also"}
      BY <1>1, <1>4, ServedKeys
    <3> QED BY <3>1, <3>2 DEF wanted
  <2>10. Readable(k)
    BY <1>1, <1>4, ServedKeys DEF WithoutList
  <2>11. /\ a.ok = TRUE /\ a.data \subseteq wanted /\ a.freshness = "fresh"
         /\ a.info.truncated = TRUE \/ a.data = wanted
    BY <2>4, <2>5 DEF Shows
  <2> QED BY <1>1, <1>4, <2>3, <2>8, <2>9, <2>10, <2>11, OneListIsRight
<1> QED BY <1>2, <1>3, <1>4

\* The errors of the portal are right.
LEMMA PortalFailureIsRight ==
    ASSUME NEW k PROVE Right(PortalFailure(k, got))
BY FailureIsRight, ErrorsAreRight DEF PortalFailure

\* An answer of the portal lists what it says, "bare" or not.
LEMMA CountedIsRight ==
    ASSUME Reading, NEW k \in {"datasets", "records"}, k \in query.keys, got[k].state = "fresh",
           \A other \in query.keys : /\ got[other].state = "fresh" /\ Readable(other)
                                     /\ other # k => Concerning(other) = {},
           NEW a \in Counted(got, k, query.limit)
    PROVE  Right(a)
<1> DEFINE rows == Records(got, {k})
           limit == query.limit
<1>1. Sources = query.keys
  BY DEF Sources
<1>2. ASSUME NEW kind \in Concerning(k)
      PROVE  Row(k, kind) \in rows /\ Row(k, kind).from = k /\ Row(k, kind).kind = kind
  BY ServedKeys, RecordIsThere
<1>3. ASSUME a.ok = TRUE, a.freshness = "fresh", a.counts = {}, a.data \subseteq rows,
             \/ a.info.truncated = TRUE
             \/ \A kind \in Concerning(k) : Row(k, kind) \in a.data
      PROVE  Right(a)
  <2>1. Whole(a)
    BY <1>1, <1>2, <1>3 DEF Whole
  <2>2. MissingIsTold(a)
    BY <1>1, <1>3, RecordsAreRead DEF MissingIsTold, In
  <2>3. Accounted(a)
    BY <1>3 DEF Accounted
  <2> QED BY <1>3, <2>1, <2>2, <2>3, RecordsAreRead DEF Right
<1>4. CASE got[k].pages[1].form = "bare"
  <2>1. a = Success({}, None, "fresh", {})
    BY <1>4 DEF Counted
  <2>2. a.ok = TRUE /\ a.freshness = "fresh" /\ a.counts = {} /\ a.data = {}
    BY <2>1 DEF Success
  <2>3. Concerning(k) = {}
    <3>1. got[k].pages \in PagesOf(k)
      BY ServedKeys
    <3>2. PageOf(k) = got[k].pages[1] /\ PageOf(k) \in Pages(k)
      BY <3>1, OneCandidate DEF PageOf, SourceNames, InPlaces
    <3>3. PageOf(k).rows = {}
      BY <1>4, <3>2, PageFacts
    <3> QED BY <3>3 DEF Concerning
  <2> QED BY <1>3, <2>2, <2>3
<1>5. CASE got[k].pages[1].form # "bare"
  <2>1. a \in Listed(rows, limit, "fresh", {}) /\ IsFiniteSet(rows) /\ limit \in Nat
    BY <1>5, RecordsAreFinite DEF Counted, Reading, Asked
  <2> HIDE DEF rows, limit
  <2>2. Shows(a, rows, "fresh", {})
    BY <2>1, ListedSays
  <2> QED BY <1>2, <1>3, <2>2 DEF Shows
<1> QED BY <1>4, <1>5

\* services/catalog.py:36-71.
LEMMA DatasetsAreRight ==
    ASSUME Ready, query.tool = "search_datasets", NEW a \in SearchDatasets(query, got)
    PROVE  Right(a)
<1>1. query.keys = {"datasets"} /\ Reading /\ Due = {}
  BY DEF Ready, Reading, Asked, KeysOf
<1>2. got["datasets"].state \in {"fresh", "lost"}
  BY <1>1, OnlyKeyRead DEF StaleIfError, Operators
<1>3. CASE got["datasets"].state = "lost"
  BY <1>3, PortalFailureIsRight DEF SearchDatasets
<1>4. CASE got["datasets"].state = "fresh" /\ "torn" \in Rows(got, "datasets")
  BY <1>4, ErrorsAreRight DEF SearchDatasets
<1>5. CASE got["datasets"].state = "fresh" /\ "torn" \notin Rows(got, "datasets")
  <2>1. a \in Counted(got, "datasets", query.limit)
    BY <1>5 DEF SearchDatasets
  <2>2. Readable("datasets")
    BY <1>1, <1>5, ServedKeys DEF WithoutList
  <2> QED BY <1>1, <1>5, <2>1, <2>2, CountedIsRight
<1> QED BY <1>2, <1>3, <1>4, <1>5

\* services/catalog.py:73-99.
LEMMA DatasetIsRight ==
    ASSUME Ready, query.tool = "get_dataset", NEW a \in GetDataset(got)
    PROVE  Right(a)
<1>1. query.keys = {"dataset"} /\ Reading /\ Due = {}
  BY DEF Ready, Reading, Asked, KeysOf
<1>2. got["dataset"].state \in {"fresh", "lost"}
  BY <1>1, OnlyKeyRead DEF StaleIfError, Operators
<1>3. CASE got["dataset"].state = "lost"
  BY <1>3, PortalFailureIsRight DEF GetDataset
<1>4. CASE got["dataset"].state = "fresh"
  <2>1. CASE Rows(got, "dataset") # {"good"}
    BY <1>4, <2>1, ErrorsAreRight DEF GetDataset
  <2>2. CASE Rows(got, "dataset") = {"good"}
    <3>1. Readable("dataset")
      BY <1>1, <1>4, <2>2, ServedKeys DEF WithoutList
    <3>2. Right(Success(Records(got, {"dataset"}), None, "fresh", {}))
      BY <1>1, <1>4, <3>1, SuccessIsRight
    <3> QED BY <1>4, <2>2, <3>2 DEF GetDataset
  <2> QED BY <2>1, <2>2
<1> QED BY <1>2, <1>3, <1>4

\* services/catalog.py:101-127.
LEMMA ResourceSchemaIsRight ==
    ASSUME Ready, query.tool = "get_resource_schema", NEW a \in GetResourceSchema(got)
    PROVE  Right(a)
<1>1. query.keys = {"schema"} /\ Reading /\ Due = {}
  BY DEF Ready, Reading, Asked, KeysOf
<1>2. got["schema"].state \in {"fresh", "lost"}
  BY <1>1, OnlyKeyRead DEF StaleIfError, Operators
<1>3. CASE got["schema"].state = "lost"
  BY <1>3, PortalFailureIsRight DEF GetResourceSchema
<1>4. CASE got["schema"].state = "fresh"
  <2>1. Readable("schema")
    BY <1>1, <1>4, ServedKeys DEF WithoutList
  <2>2. Right(Success(Records(got, {"schema"}), None, "fresh", {}))
    BY <1>1, <1>4, <2>1, SuccessIsRight
  <2> QED BY <1>4, <2>2 DEF GetResourceSchema
<1> QED BY <1>2, <1>3, <1>4

\* services/catalog.py:129-181: with or without a check of the filters.
LEMMA QueryResourceIsRight ==
    ASSUME Ready, query.tool = "query_resource", NEW a \in QueryResource(query, got)
    PROVE  Right(a)
<1>1. query.keys \in {{"records"}, {"schema", "records"}} /\ Reading /\ Due = {}
  BY DEF Ready, Reading, Asked, KeysOf
<1>2. Concerning("schema") = {}
  BY DEF Concerning
<1>3. "schema" \in query.keys => got["schema"].state \in {"fresh", "lost"}
  <2>1. Wanted("schema")
    BY DEF Wanted
  <2>2. "schema" \in query.keys => got["schema"].state # "unread"
    BY <1>1, <2>1, ReadFirst
  <2> QED BY <1>1, <2>2, FreshOrLost DEF StaleIfError, Operators
<1>4. CASE "schema" \in query.keys /\ (got["schema"].state = "lost" \/ UnknownField(got))
  BY <1>4, PortalFailureIsRight, ErrorsAreRight DEF QueryResource
<1>5. CASE "schema" \in query.keys => got["schema"].state = "fresh" /\ ~UnknownField(got)
  <2>1. got["records"].state \in {"fresh", "lost"}
    <3>1. Wanted("records")
      BY <1>5 DEF Wanted
    <3>2. UnreadKeys \in SUBSET {"records"}
      BY <1>1, <1>5 DEF UnreadKeys
    <3>3. IsFiniteSet({"records"}) /\ Cardinality({"records"}) = 1
      BY FS_Singleton
    <3>4. Cardinality(UnreadKeys) <= 1
      BY <3>2, <3>3, FS_Subset
    <3>5. got["records"].state # "unread"
      BY <1>1, <3>1, <3>4 DEF Due, UnreadKeys, Ended
    <3> QED BY <1>1, <3>5, FreshOrLost DEF StaleIfError, Operators
  <2>2. CASE got["records"].state = "lost"
    BY <1>5, <2>2, PortalFailureIsRight DEF QueryResource
  <2>3. CASE got["records"].state = "fresh"
    <3>1. a \in Counted(got, "records", query.limit)
      BY <1>5, <2>3 DEF QueryResource
    <3>2. \A other \in query.keys : /\ got[other].state = "fresh" /\ Readable(other)
                                    /\ other # "records" => Concerning(other) = {}
      BY <1>1, <1>2, <1>5, <2>3, ServedKeys DEF WithoutList
    <3> QED BY <1>1, <2>3, <3>1, <3>2, CountedIsRight
  <2> QED BY <2>1, <2>2, <2>3
<1> QED BY <1>3, <1>4, <1>5

-----------------------------------------------------------------------------
(* Searches of the store *)

\* A row of a search is a feature of a layer that was searched.
LEMMA NearbySays ==
    ASSUME NEW layers, NEW row \in Nearby(store, layers)
    PROVE  /\ row.from \in layers
           /\ \E f \in store[row.from] : row = [from |-> row.from, kind |-> f.kind, edition |-> f.edition]
<1>1. PICK l \in layers : \E f \in store[l] : row = [from |-> l, kind |-> f.kind, edition |-> f.edition]
  BY DEF Nearby
<1> QED BY <1>1

\* A feature in the circle is found by a search of its layer.
LEMMA IsNearby ==
    ASSUME NEW layers, NEW l \in layers, NEW f \in store[l], f.kind # "else"
    PROVE  [from |-> l, kind |-> f.kind, edition |-> f.edition] \in Nearby(store, layers)
BY DEF Nearby

\* Every layer is a source.
LEMMA LayersAreNamed == Layers \subseteq SourceNames
BY DEF Layers, Upserted, Replaced, ReplacedAtSearch, ReplacedAtLoad, SourceNames, InTransit, InPlaces

\* A search finds finitely many rows.
LEMMA NearbyIsFinite ==
    ASSUME StoreOK, NEW layers \in SUBSET Layers
    PROVE  IsFiniteSet(Nearby(store, layers))
<1> DEFINE n == suite.bounds.calls
<1>1. ASSUME NEW row \in Nearby(store, layers) PROVE row \in EveryRow(n)
  <2>1. /\ row.from \in layers
        /\ \E f \in store[row.from] : row = [from |-> row.from, kind |-> f.kind, edition |-> f.edition]
    BY NearbySays
  <2>2. PICK f \in store[row.from] : row = [from |-> row.from, kind |-> f.kind, edition |-> f.edition]
    BY <2>1
  <2>3. row.from \in Layers /\ f.kind \in Kinds /\ f.edition \in 0..n
    BY <2>1, <2>2 DEF StoreOK
  <2> QED BY <2>2, <2>3, LayersAreNamed DEF EveryRow
<1>2. n \in Nat
  BY DEF StoreOK
<1> HIDE DEF n
<1> QED BY <1>1, <1>2, RowsAreFinite

\* What a search finds of a replaced layer is of one publication.
LEMMA NearbyIsOfOne ==
    ASSUME StoreOK, NEW layers, NEW r1 \in Nearby(store, layers), NEW r2 \in Nearby(store, layers),
           r1.from = r2.from, r1.from \in Replaced
    PROVE  r1.edition = r2.edition
<1>1. PICK f \in store[r1.from] : r1 = [from |-> r1.from, kind |-> f.kind, edition |-> f.edition]
  BY NearbySays
<1>2. PICK g \in store[r2.from] : r2 = [from |-> r2.from, kind |-> g.kind, edition |-> g.edition]
  BY NearbySays
<1>3. f.edition = g.edition
  BY <1>1, <1>2 DEF StoreOK
<1>4. r1.edition = f.edition /\ r2.edition = g.edition
  BY <1>1, <1>2
<1> QED BY <1>3, <1>4

\* A search of layers that were read finds rows of nothing else.
LEMMA NearbyIsRead ==
    ASSUME NEW layers, \A l \in layers : got[l].state \in {"fresh", "stale"},
           NEW row \in Nearby(store, layers)
    PROVE  got[row.from].state \in {"fresh", "stale"}
BY NearbySays

\* What an answer with the rows of a search says of them.
LEMMA FoundSays ==
    ASSUME NEW rows, IsFiniteSet(rows), NEW limit \in Nat, NEW freshness, NEW warnings,
           NEW a \in Found(rows, limit, freshness, warnings)
    PROVE  Shows(a, rows, freshness, warnings)
<1>1. PICK shown \in Cut(rows, limit) :
          a = [Success(shown, None, freshness, warnings) EXCEPT
                 !.info.truncated = Cardinality(rows) > limit]
  BY DEF Found
<1>2. /\ a.ok = TRUE /\ a.freshness = freshness /\ a.warnings = warnings /\ a.counts = {}
      /\ a.data = shown
  BY <1>1 DEF Success
<1>3. a.info.truncated = (Cardinality(rows) > limit)
  BY <1>1 DEF Success, ResultInfo
<1>4. shown \subseteq rows
  BY CutIsPart
<1>5. ~(Cardinality(rows) > limit) => shown = rows
  BY <1>1, CutFits
<1>6. a.info.truncated = TRUE \/ a.data = rows
  BY <1>2, <1>3, <1>5
<1> QED BY <1>2, <1>4, <1>6 DEF Shows

\* The tools of this service, which narrow their rows by place alone.
OfPlaces == {"parking_nearby", "parking_by_district", "metro_nearby", "air_quality", "traffic",
              "city_features", "mobility", "city_services"}

\* A layer is added to or replaced.
LEMMA LayersDisjoint ==
    /\ Layers = Upserted \cup Replaced
    /\ \A k \in Upserted : k \notin Replaced
    /\ \A k \in Replaced : k \in {"ev_charging", "public_transport_stop"}
    /\ "traffic" \notin Layers /\ "library" \notin Layers /\ "cultural_centre" \notin Layers
BY DEF Layers, Upserted, Replaced, ReplacedAtSearch, ReplacedAtLoad

\* What a call wrote of a layer before it searched is found by its search.
LEMMA WrittenIsFound ==
    ASSUME Reading, NEW k \in query.keys \cap Layers,
           query.tool \in OfPlaces \ {"parking_by_district"},
           got[k].state \in {"fresh", "stale"}, Buildable(k, Rows(got, k)),
           NEW layers, k \in layers
    PROVE  /\ Readable(k)
           /\ \/ k \in Replaced /\ OfAnother(k)
              \/ \A kind \in Concerning(k) :
                    \E row \in Nearby(store, layers) : row.from = k /\ row.kind = kind
<1>1. Readable(k)
  <2>1. k = "air_quality_station" => "torn" \notin Rows(got, k)
    BY DEF Buildable, Upserted
  <2> QED BY <2>1, ServedKeys DEF WithoutList, Layers, Upserted, Replaced, ReplacedAtSearch, ReplacedAtLoad
<1>2. HoldsRows(store[k], k, Rows(got, k))
  BY DEF Reading, WroteWhatItRead
<1>3. ASSUME ~(k \in Replaced /\ OfAnother(k)), NEW kind \in Concerning(k)
      PROVE  \E row \in Nearby(store, layers) : row.from = k /\ row.kind = kind
  <2>1. kind \in {"good", "also"} /\ kind \in Rows(got, k)
    BY <1>3, ServedKeys DEF OfPlaces
  <2>2. [kind |-> kind, edition |-> 0] \in Features(Rows(got, k), 0)
    BY <2>1 DEF Features
  <2>3. PICK g \in store[k] : g.kind = [kind |-> kind, edition |-> 0].kind
    BY <1>2, <1>3, <2>2 DEF HoldsRows, OfAnother
  <2>4. g.kind = kind
    BY <2>3
  <2>5. [from |-> k, kind |-> g.kind, edition |-> g.edition] \in Nearby(store, layers)
    BY <2>1, <2>4, IsNearby
  <2> QED BY <2>4, <2>5
<1> QED BY <1>1, <1>3

-----------------------------------------------------------------------------
(* The tools over the city's layers *)

\* A warning about keys is about each of them.
LEMMA AboutEach ==
    ASSUME NEW keys, NEW what, NEW k \in keys
    PROVE  \E w \in About(keys, what) : w.about = k
<1>1. [about |-> k, what |-> what] \in About(keys, what)
  BY DEF About
<1> QED BY <1>1

\* services/city.py:95-114 and the like: a search of one layer.
LEMMA OneLayerIsRight ==
    ASSUME Ready, NEW k,
           \/ query.tool = "parking_nearby" /\ k = "parking"
           \/ query.tool = "metro_nearby" /\ k = "metro_station",
           NEW a \in OneLayer(k, query, got, store, "fresh", {})
    PROVE  Right(a)
<1> DEFINE rows == Nearby(store, {k})
           limit == query.limit
<1>1. query.keys = {k} /\ Reading /\ Due = {} /\ limit \in Nat /\ StoreOK
  BY DEF Ready, Reading, Asked, KeysOf
<1>2. got[k].state \in {"fresh", "lost"} /\ k \in Upserted /\ k \in Layers
  BY <1>1, OnlyKeyRead DEF StaleIfError, Operators, Upserted, Layers
<1>3. CASE got[k].state = "lost"
  BY <1>3, ErrorsAreRight DEF OneLayer
<1>4. CASE got[k].state = "fresh" /\ ~Buildable(k, Rows(got, k))
  BY <1>4, ErrorsAreRight DEF OneLayer
<1>5. CASE got[k].state = "fresh" /\ Buildable(k, Rows(got, k))
  <2>1. a \in Found(rows, limit, "fresh", {}) /\ IsFiniteSet(rows)
    BY <1>1, <1>2, <1>5, NearbyIsFinite DEF OneLayer
  <2> HIDE DEF rows, limit
  <2>2. Shows(a, rows, "fresh", {})
    BY <1>1, <2>1, FoundSays
  <2> USE DEF rows, limit
  <2>3. /\ Readable(k)
        /\ \A kind \in Concerning(k) : \E row \in rows : row.from = k /\ row.kind = kind
    BY <1>1, <1>2, <1>5, WrittenIsFound, LayersDisjoint DEF OfPlaces
  <2>4. Sources = {k}
    BY <1>1, <1>5 DEF Sources
  <2>5. \A row \in rows : row.from = k
    BY NearbySays
  <2> HIDE DEF rows, limit
  <2>6. Whole(a)
    BY <1>5, <2>2, <2>3, <2>4 DEF Whole, Shows
  <2>7. MissingIsTold(a)
    BY <1>5, <2>2, <2>4, <2>5 DEF MissingIsTold, In, Shows
  <2>8. Accounted(a)
    BY <2>2 DEF Accounted, Shows
  <2>9. OfOnePublication(a)
    <3>1. k \notin Replaced
      BY DEF Replaced, ReplacedAtSearch, ReplacedAtLoad
    <3> QED BY <2>2, <2>5, <3>1 DEF OfOnePublication, Shows
  <2> QED BY <2>6, <2>7, <2>8, <2>9 DEF Right
<1> QED BY <1>2, <1>3, <1>4, <1>5

\* An answer of the air is never called fresh, and tells of readings that failed.
LEMMA AirIsRight ==
    ASSUME Ready, query.tool = "air_quality", NEW a \in AirQualityNearby(query, got, store)
    PROVE  Right(a)
<1> DEFINE k == "air_quality_station"
           rows == Nearby(store, {k})
           warnings == ReadingWarnings(got)
           limit == query.limit
<1>1. /\ query.keys = {k, "readings"} /\ Reading /\ Due = {} /\ limit \in Nat /\ StoreOK
      /\ k \in Layers
  BY DEF Ready, Reading, Asked, KeysOf, Layers, Upserted
<1>2. got[k].state \in {"fresh", "lost"}
  <2>1. Wanted(k)
    BY DEF Wanted
  <2>2. got[k].state # "unread"
    BY <1>1, <2>1, ReadFirst
  <2> QED BY <1>1, <2>2, FreshOrLost DEF StaleIfError, Operators
<1>3. CASE "torn" \in Rows(got, "readings")
  BY <1>3, ErrorsAreRight DEF AirQualityNearby
<1>4. CASE "torn" \notin Rows(got, "readings") /\ (got[k].state = "lost" \/ ~Buildable(k, Rows(got, k)))
  BY <1>4, ErrorsAreRight DEF AirQualityNearby, OneLayer
<1>5. CASE "torn" \notin Rows(got, "readings") /\ got[k].state = "fresh" /\ Buildable(k, Rows(got, k))
  <2>1. a \in Found(rows, limit, "unknown", warnings) /\ IsFiniteSet(rows)
    BY <1>1, <1>5, NearbyIsFinite DEF AirQualityNearby, OneLayer
  <2> HIDE DEF rows, limit, warnings
  <2>2. Shows(a, rows, "unknown", warnings)
    BY <1>1, <2>1, FoundSays
  <2> USE DEF rows, limit, warnings
  <2>3. \A row \in rows : row.from = k
    BY NearbySays
  <2>4. got["readings"].state = "lost" => \E w \in warnings : w.about = "readings"
    BY AboutEach DEF ReadingWarnings
  <2>5. Sources \subseteq {k, "readings"}
    BY <1>1 DEF Sources
  <2> HIDE DEF rows, limit, warnings
  <2>6. Whole(a)
    BY <2>2 DEF Whole, Shows
  <2>7. MissingIsTold(a)
    <3>1. \A s \in In(got, Sources, "lost") : s = "readings" /\ got["readings"].state = "lost"
      BY <1>5, <2>5 DEF In
    <3>2. In(got, Sources, "stale") = {}
      <4>1. got["readings"].state # "stale"
        BY <1>1 DEF Reading, ReadOK, StaleIfError, Operators
      <4> QED BY <1>5, <2>5, <4>1 DEF In
    <3> QED BY <1>5, <2>2, <2>3, <2>4, <3>1, <3>2 DEF MissingIsTold, Shows
  <2>8. Accounted(a)
    BY <2>2 DEF Accounted, Shows
  <2>9. OfOnePublication(a)
    <3>1. k \notin Replaced
      BY DEF Replaced, ReplacedAtSearch, ReplacedAtLoad
    <3> QED BY <2>2, <2>3, <3>1 DEF OfOnePublication, Shows
  <2> QED BY <2>6, <2>7, <2>8, <2>9 DEF Right
<1> QED BY <1>2, <1>3, <1>4, <1>5

\* services/city.py:116-146: the rows themselves, without a search.
LEMMA ParkingOfDistrictIsRight ==
    ASSUME Ready, query.tool = "parking_by_district", NEW a \in ParkingByDistrict(query, got)
    PROVE  Right(a)
<1> DEFINE k == "parking"
           rows == {row \in Records(got, {k}) : row.kind # "else"}
<1>1. query.keys = {k} /\ Reading /\ Due = {}
  BY DEF Ready, Reading, Asked, KeysOf
<1>2. got[k].state \in {"fresh", "lost"}
  BY <1>1, OnlyKeyRead DEF StaleIfError, Operators
<1>3. CASE got[k].state = "lost"
  BY <1>3, ErrorsAreRight DEF ParkingByDistrict
<1>4. CASE got[k].state = "fresh"
  <2>1. a \in Listed(rows, query.limit, "fresh", {})
    BY <1>4 DEF ParkingByDistrict
  <2>2. ASSUME NEW kind \in Concerning(k) PROVE Row(k, kind) \in rows
    <3>1. Row(k, kind) \in Records(got, {k}) /\ Row(k, kind).kind = kind
      BY <1>1, <1>4, ServedKeys, RecordIsThere
    <3>2. kind \in {"good", "also"}
      BY <1>1, <1>4, ServedKeys
    <3> QED BY <3>1, <3>2
  <2>3. Readable(k)
    BY <1>1, <1>4, ServedKeys DEF WithoutList
  <2> QED BY <1>1, <1>4, <2>1, <2>2, <2>3, ListedIsRight
<1> QED BY <1>2, <1>3, <1>4

\* The one record of the traffic that is looked at is the one that is listed.
LEMMA TrafficIsListed ==
    ASSUME Reading, "traffic" \in query.keys, got["traffic"].state \in {"fresh", "stale"},
           query.tool \in OfPlaces
    PROVE  /\ Readable("traffic")
           /\ LatestIndex(got).from = "traffic"
           /\ \A kind \in Concerning("traffic") : LatestIndex(got).kind = kind
<1>1. got["traffic"].pages \in PagesOf("traffic") /\ Concerning("traffic") \subseteq Rows(got, "traffic")
  BY ServedKeys
<1>2. PageOf("traffic") \in Pages("traffic")
  BY <1>1, OneCandidate DEF PageOf, SourceNames, InPlaces
<1>3. PageOf("traffic").rows \subseteq {"good"}
  BY <1>2, PageFacts DEF KindsOf
<1>4. Concerning("traffic") \subseteq {"good"}
  BY <1>3 DEF Concerning
<1>5. Readable("traffic")
  BY ServedKeys DEF WithoutList
<1> QED BY <1>1, <1>4, <1>5 DEF LatestIndex, Row

\* services/city.py:207-254.
LEMMA TrafficIsRight ==
    ASSUME Ready, query.tool = "traffic"
    PROVE  Right(TrafficStatus(got))
<1> DEFINE k == "traffic"
           a == TrafficStatus(got)
<1>1. query.keys = {k} /\ Reading /\ Due = {}
  BY DEF Ready, Reading, Asked, KeysOf
<1>2. got[k].state \in {"fresh", "lost"}
  BY <1>1, OnlyKeyRead DEF StaleIfError, Operators
<1>3. CASE got[k].state = "lost"
  BY <1>3, ErrorsAreRight DEF TrafficStatus
<1>4. CASE got[k].state = "fresh"
  <2>1. /\ a.ok = TRUE /\ a.freshness = "fresh" /\ a.data = {LatestIndex(got)} /\ a.counts = {}
    BY <1>4 DEF TrafficStatus, Success
  <2>2. /\ Readable(k) /\ LatestIndex(got).from = k
        /\ \A kind \in Concerning(k) : LatestIndex(got).kind = kind
    BY <1>1, <1>4, TrafficIsListed DEF OfPlaces
  <2>3. Sources = {k}
    BY <1>1, <1>4 DEF Sources
  <2> HIDE DEF a
  <2>4. Right(a)
    BY <1>4, <2>1, <2>2, <2>3 DEF Right, Whole, MissingIsTold, Accounted, OfOnePublication, In
  <2> QED BY <2>4 DEF a
<1> QED BY <1>2, <1>3, <1>4

\* A layer that a search includes was read, and its features could be built.
LEMMA UsableLayer ==
    ASSUME Reading, NEW k \in query.keys, got[k].state # "unread", ~Unusable(got, k)
    PROVE  /\ got[k].state \in {"fresh", "stale"}
           /\ k \in Layers => Buildable(k, Rows(got, k))
BY DEF Reading, ReadOK, Unusable

\* What a search of a layer owes the request, wherever it puts its rows.
LEMMA LayerIsSearched ==
    ASSUME Reading, query.tool \in OfPlaces \ {"parking_by_district"},
           NEW k \in query.keys \cap Layers, got[k].state # "unread", ~Unusable(got, k),
           NEW layers, k \in layers
    PROVE  /\ Readable(k)
           /\ \/ k \in Replaced /\ OfAnother(k)
              \/ \A kind \in Concerning(k) :
                    \E row \in Nearby(store, layers) : row.from = k /\ row.kind = kind
<1>1. got[k].state \in {"fresh", "stale"} /\ Buildable(k, Rows(got, k))
  BY UsableLayer
<1> QED BY <1>1, WrittenIsFound

\* What a refresh of several layers tells of each.
LEMMA RefreshIsTold ==
    ASSUME Reading, \A k \in query.keys : got[k].state # "unread",
           NEW freshness,
           freshness = IF Failed(query, got) # {} THEN "unknown"
                       ELSE IF In(got, query.keys, "stale") # {} THEN "stale" ELSE "fresh",
           NEW k \in query.keys
    PROVE  /\ got[k].state = "lost" =>
                 freshness = "unknown" /\ \E w \in RefreshWarnings(query, got) : w.about = k
           /\ got[k].state = "stale" =>
                 freshness # "fresh" /\ \E w \in RefreshWarnings(query, got) : w.about = k
           /\ freshness \in {"fresh", "stale"} =>
                 got[k].state \in {"fresh", freshness} /\ ~Unusable(got, k)
<1>1. ASSUME got[k].state = "lost"
      PROVE  freshness = "unknown" /\ \E w \in RefreshWarnings(query, got) : w.about = k
  <2>1. k \in Failed(query, got)
    BY <1>1 DEF Failed, Unusable
  <2>2. \E w \in About(Failed(query, got), "unavailable") : w.about = k
    BY <2>1, AboutEach
  <2> QED BY <2>1, <2>2 DEF RefreshWarnings
<1>2. ASSUME got[k].state = "stale"
      PROVE  freshness # "fresh" /\ \E w \in RefreshWarnings(query, got) : w.about = k
  <2>1. k \in In(got, query.keys, "stale")
    BY <1>2 DEF In
  <2>2. \E w \in About(In(got, query.keys, "stale"), "stale") : w.about = k
    BY <2>1, AboutEach
  <2>3. freshness # "fresh"
    BY <2>1
  <2> QED BY <2>2, <2>3 DEF RefreshWarnings
<1>3. ASSUME freshness \in {"fresh", "stale"}
      PROVE  got[k].state \in {"fresh", freshness} /\ ~Unusable(got, k)
  <2>1. k \notin Failed(query, got)
    BY <1>3
  <2>2. ~Unusable(got, k)
    BY <2>1 DEF Failed
  <2>3. got[k].state \in {"fresh", "stale"}
    BY <2>2, UsableLayer
  <2>4. got[k].state = "stale" => freshness = "stale"
    BY <1>2, <1>3
  <2> QED BY <2>2, <2>3, <2>4
<1> QED BY <1>1, <1>2, <1>3

\* services/city.py:503-589: the layers that were asked for, those that failed left out.
LEMMA FeaturesAreRight ==
    ASSUME Ready, query.tool = "city_features", NEW a \in CityFeatures(query, got, store)
    PROVE  Right(a)
<1> DEFINE failed == Failed(query, got)
           left == query.keys \ failed
           rows == Nearby(store, left)
           freshness == RefreshStatus(query, got)
           warnings == RefreshWarnings(query, got)
           limit == query.limit
<1>1. query.keys \subseteq Layers /\ Reading /\ Due = {} /\ limit \in Nat /\ StoreOK
  BY DEF Ready, Reading, Asked, KeysOf
<1>2. \A k \in query.keys : got[k].state # "unread"
  <2>1. (\A k \in query.keys : Wanted(k)) /\ ~Ended
    BY <1>1 DEF Wanted, Ended, Layers, Upserted, Replaced, ReplacedAtSearch, ReplacedAtLoad
  <2> QED BY <1>1, <2>1, ReadInOrder DEF AtOnce
<1>3. Sources = query.keys
  BY <1>2 DEF Sources
<1>4. CASE left = {}
  BY <1>4, ErrorsAreRight DEF CityFeatures
<1>5. CASE left # {}
  <2>1. a \in Found(rows, limit, freshness, warnings) /\ IsFiniteSet(rows)
    BY <1>1, <1>5, NearbyIsFinite DEF CityFeatures
  <2> HIDE DEF rows, limit, warnings, freshness
  <2>2. Shows(a, rows, freshness, warnings)
    BY <1>1, <2>1, FoundSays
  <2>3. \A k \in left : got[k].state \in {"fresh", "stale"}
    BY <1>1, <1>2, UsableLayer DEF Failed
  <2>4. \A row \in rows : got[row.from].state \in {"fresh", "stale"}
    BY <2>3, NearbyIsRead DEF rows
  <2>5. freshness = IF Failed(query, got) # {} THEN "unknown"
                    ELSE IF In(got, query.keys, "stale") # {} THEN "stale" ELSE "fresh"
    BY DEF freshness, RefreshStatus
  <2>6. MissingIsTold(a)
    <3>1. \A k \in query.keys :
             /\ got[k].state = "lost" => freshness = "unknown" /\ \E w \in warnings : w.about = k
             /\ got[k].state = "stale" => freshness # "fresh" /\ \E w \in warnings : w.about = k
      BY <1>1, <1>2, <2>5, RefreshIsTold DEF warnings
    <3> QED BY <1>3, <2>2, <2>4, <3>1 DEF MissingIsTold, In, Shows
  <2>7. Whole(a)
    <3>1. SUFFICES ASSUME freshness \in {"fresh", "stale"}, NEW k \in query.keys
                   PROVE  /\ got[k].state \in {"fresh", freshness}
                          /\ Readable(k)
                          /\ \/ k \in Replaced /\ OfAnother(k)
                             \/ \A kind \in Concerning(k) :
                                   \E row \in rows : row.from = k /\ row.kind = kind
      BY <1>3, <2>2 DEF Whole, Shows
    <3>2. got[k].state \in {"fresh", freshness} /\ ~Unusable(got, k)
      BY <1>1, <1>2, <2>5, <3>1, RefreshIsTold
    <3>3. k \in left /\ k \in Layers
      BY <1>1, <3>1, <3>2 DEF Failed
    <3>4. /\ Readable(k)
          /\ \/ k \in Replaced /\ OfAnother(k)
             \/ \A kind \in Concerning(k) :
                   \E row \in rows : row.from = k /\ row.kind = kind
      BY <1>1, <1>2, <3>2, <3>3, LayerIsSearched DEF OfPlaces, rows
    <3> QED BY <3>2, <3>4
  <2>8. Accounted(a)
    BY <2>2 DEF Accounted, Shows
  <2>9. OfOnePublication(a)
    BY <1>1, <2>2, NearbyIsOfOne DEF OfOnePublication, Shows, rows
  <2> QED BY <2>6, <2>7, <2>8, <2>9 DEF Right
<1> QED BY <1>4, <1>5

\* A summary shows parts of its sections, and all of those that fit.
LEMMA SummedSays ==
    ASSUME NEW parts, \A p \in parts : IsFiniteSet(p), NEW limit, NEW freshness, NEW warnings,
           NEW a \in Summed(parts, limit, freshness, warnings)
    PROVE  /\ a.ok = TRUE /\ a.freshness = freshness /\ a.warnings = warnings /\ a.counts = {}
           /\ a.data \subseteq UNION parts
           /\ a.info.truncated = TRUE \/ \A p \in parts : p \subseteq a.data
<1>1. PICK shown \in SUBSET UNION parts :
          /\ \A p \in parts : shown \cap p \in Cut(p, limit)
          /\ a = [Success(shown, None, freshness, warnings) EXCEPT
                    !.info.truncated = \E p \in parts : Cardinality(p) > limit]
  BY DEF Summed
<1>2. /\ a.ok = TRUE /\ a.freshness = freshness /\ a.warnings = warnings /\ a.counts = {}
      /\ a.data = shown
  BY <1>1 DEF Success
<1>3. a.info.truncated = (\E p \in parts : Cardinality(p) > limit)
  BY <1>1 DEF Success, ResultInfo
<1>4. ASSUME ~\E p \in parts : Cardinality(p) > limit, NEW p \in parts PROVE p \subseteq shown
  <2>1. shown \cap p \in Cut(p, limit) /\ IsFiniteSet(p) /\ ~(Cardinality(p) > limit)
    BY <1>1, <1>4
  <2>2. shown \cap p = p
    BY <2>1, CutFits
  <2> QED BY <2>2
<1>5. a.info.truncated = TRUE \/ \A p \in parts : p \subseteq a.data
  BY <1>2, <1>3, <1>4
<1> QED BY <1>1, <1>2, <1>5

\* What an answer of several sections owes to one of them: a warning of what was not
\* read, no more freshness than it allows, and its rows.
SectionIsTold(a, k) ==
    /\ got[k].state = "lost" => a.freshness = "unknown" /\ \E w \in a.warnings : w.about = k
    /\ got[k].state = "stale" => a.freshness # "fresh" /\ \E w \in a.warnings : w.about = k
    /\ a.freshness \in {"fresh", "stale"} =>
          /\ got[k].state \in {"fresh", a.freshness} /\ Readable(k)
          /\ \/ a.info.truncated = TRUE
             \/ k \in Replaced /\ OfAnother(k)
             \/ \A kind \in Concerning(k) : \E row \in a.data : row.from = k /\ row.kind = kind
RowIsServed(row) ==
    /\ got[row.from].state \in {"fresh", "stale"}
    /\ row.from \in Replaced => row \in Nearby(store, {row.from})

\* An answer that owes nothing to its sections is right.
LEMMA SectionsAreRight ==
    ASSUME Reading, StoreOK, \A k \in query.keys : got[k].state # "unread",
           NEW a, a.counts = {},
           \A k \in query.keys : SectionIsTold(a, k),
           \A row \in a.data : RowIsServed(row)
    PROVE  Right(a)
<1>1. Sources = query.keys
  BY DEF Sources
<1>2. Whole(a)
  BY <1>1 DEF Whole, SectionIsTold
<1>3. MissingIsTold(a)
  BY <1>1 DEF MissingIsTold, In, SectionIsTold, RowIsServed
<1>4. Accounted(a)
  BY DEF Accounted
<1>5. ASSUME NEW r1 \in a.data, NEW r2 \in a.data, r1.from = r2.from, r1.from \in Replaced
      PROVE  r1.edition = r2.edition
  <2>1. r1 \in Nearby(store, {r1.from}) /\ r2 \in Nearby(store, {r1.from})
    BY <1>5 DEF RowIsServed
  <2> QED BY <1>5, <2>1, NearbyIsOfOne
<1> QED BY <1>2, <1>3, <1>4, <1>5 DEF Right, OfOnePublication

\* services/city.py:256-366.
LEMMA MobilityIsRight ==
    ASSUME Ready, query.tool = "mobility", NEW a \in MobilityNearby(query, got, store)
    PROVE  Right(a)
<1> DEFINE lost == Failed(query, got)
           listed == {Nearby(store, {k}) : k \in Sections \ lost}
           index == IF "traffic" \in lost THEN {} ELSE {LatestIndex(got)}
           parts == listed \cup {index}
           freshness == IF lost # {} THEN "unknown"
                        ELSE IF In(got, query.keys, "stale") # {} THEN "stale" ELSE "fresh"
           warnings == RefreshWarnings(query, got)
           limit == query.limit
<1>1. query.keys = Sections \cup {"traffic"} /\ Reading /\ Due = {} /\ StoreOK /\ Asked(query)
  BY DEF Ready, Reading, Asked, KeysOf
<1>2. Sections \subseteq Layers /\ "traffic" \notin Sections
  BY DEF Sections, Layers, Upserted, Replaced, ReplacedAtSearch, ReplacedAtLoad
<1>3. CASE SectionRaises(got)
  BY <1>3, ErrorsAreRight DEF MobilityNearby
<1>4. CASE ~SectionRaises(got)
  <2>1. \A k \in query.keys : got[k].state # "unread"
    <3>1. (\A k \in query.keys : Wanted(k)) /\ ~Ended
      BY <1>1, <1>4 DEF Wanted, Ended, Sections
    <3> QED BY <1>1, <3>1, ReadInOrder DEF AtOnce
  <2>2. a \in Summed(parts, limit, freshness, warnings)
    BY <1>4 DEF MobilityNearby
  <2>3. \A p \in parts : IsFiniteSet(p)
    <3>1. \A k \in Sections : IsFiniteSet(Nearby(store, {k}))
      BY <1>1, <1>2, NearbyIsFinite
    <3>2. IsFiniteSet(index)
      BY FS_EmptySet, FS_Singleton
    <3> QED BY <3>1, <3>2
  <2> HIDE DEF parts, limit, freshness, warnings
  <2>4. /\ a.ok = TRUE /\ a.freshness = freshness /\ a.warnings = warnings /\ a.counts = {}
        /\ a.data \subseteq UNION parts
        /\ a.info.truncated = TRUE \/ \A p \in parts : p \subseteq a.data
    BY <2>2, <2>3, SummedSays
  <2>5. \A k \in query.keys \ lost : got[k].state \in {"fresh", "stale"}
    BY <1>1, <2>1, UsableLayer DEF Failed
  <2>6. LatestIndex(got).from = "traffic"
    BY DEF LatestIndex, Row
  <2>7. ASSUME NEW row \in a.data
        PROVE  /\ got[row.from].state \in {"fresh", "stale"}
               /\ row.from \in Replaced => row \in Nearby(store, {row.from})
    <3>1. (\E k \in Sections \ lost : row \in Nearby(store, {k})) \/ row \in index
      <4>1. PICK p \in parts : row \in p
        BY <2>4
      <4>2. p \in listed \/ p = index
        BY <4>1 DEF parts
      <4> QED BY <4>1, <4>2
    <3>2. CASE \E k \in Sections \ lost : row \in Nearby(store, {k})
      <4>1. PICK k \in Sections \ lost : row \in Nearby(store, {k})
        BY <3>2
      <4>2. row.from = k
        BY <4>1, NearbySays
      <4> QED BY <1>1, <2>5, <4>1, <4>2
    <3>3. CASE row \in index
      <4>1. row.from = "traffic" /\ "traffic" \notin lost
        BY <2>6, <3>3
      <4>2. "traffic" \notin Replaced
        BY DEF Replaced, ReplacedAtSearch, ReplacedAtLoad
      <4> QED BY <1>1, <2>5, <4>1, <4>2
    <3> QED BY <3>1, <3>2, <3>3
  <2>8. ASSUME NEW k \in query.keys
        PROVE  /\ got[k].state = "lost" => freshness = "unknown" /\ \E w \in warnings : w.about = k
               /\ got[k].state = "stale" => freshness # "fresh" /\ \E w \in warnings : w.about = k
               /\ freshness \in {"fresh", "stale"} =>
                    got[k].state \in {"fresh", freshness} /\ ~Unusable(got, k)
    BY <1>1, <2>1, RefreshIsTold DEF freshness, warnings
  <2>9. ASSUME NEW k \in query.keys, freshness \in {"fresh", "stale"}
        PROVE  /\ Readable(k)
               /\ \/ a.info.truncated = TRUE
                  \/ k \in Replaced /\ OfAnother(k)
                  \/ \A kind \in Concerning(k) : \E row \in a.data : row.from = k /\ row.kind = kind
    <3>1. k \notin lost /\ ~Unusable(got, k) /\ got[k].state \in {"fresh", "stale"}
      BY <2>5, <2>8, <2>9 DEF Failed
    <3>2. CASE k \in Sections
      <4>1. /\ Readable(k)
            /\ \/ k \in Replaced /\ OfAnother(k)
               \/ \A kind \in Concerning(k) :
                     \E row \in Nearby(store, {k}) : row.from = k /\ row.kind = kind
        BY <1>1, <1>2, <2>1, <3>1, <3>2, LayerIsSearched DEF OfPlaces
      <4>2. Nearby(store, {k}) \in parts
        BY <3>1, <3>2 DEF parts
      <4> QED BY <2>4, <4>1, <4>2
    <3>3. CASE k = "traffic"
      <4>1. /\ Readable(k) /\ LatestIndex(got).from = k
            /\ \A kind \in Concerning(k) : LatestIndex(got).kind = kind
        BY <1>1, <3>1, <3>3, TrafficIsListed DEF OfPlaces
      <4>2. {LatestIndex(got)} \in parts
        BY <3>1, <3>3 DEF parts
      <4> QED BY <2>4, <4>1, <4>2
    <3> QED BY <1>1, <3>2, <3>3
  <2>10. \A k \in query.keys : SectionIsTold(a, k)
    BY <2>4, <2>8, <2>9 DEF SectionIsTold
  <2>11. \A row \in a.data : RowIsServed(row)
    BY <2>7 DEF RowIsServed
  <2> HIDE DEF listed, index, lost
  <2> QED BY <1>1, <2>1, <2>4, <2>10, <2>11, SectionsAreRight
<1> QED BY <1>3, <1>4

\* services/city.py:397-501.
LEMMA ServicesAreRight ==
    ASSUME Ready, query.tool = "city_services", NEW a \in CityServicesNearby(query, got, store)
    PROVE  Right(a)
<1> DEFINE lost == Failed(query, got)
           ofDistrict(k) == {row \in Records(got, {k}) : row.kind \notin {"else", "blank"}}
           part(k) == IF k = "wifi" THEN Nearby(store, {k}) ELSE ofDistrict(k)
           parts == {part(k) : k \in query.keys \ lost}
           warnings == About(lost, "unavailable") \cup
               (IF "cultural_centre" \in query.keys /\ "blank" \in Rows(got, "cultural_centre")
                THEN About({"cultural_centre"}, "skipped") ELSE {})
           freshness == IF lost # {} THEN "unknown" ELSE "fresh"
           limit == query.limit
<1>1. /\ query.keys \subseteq {"wifi", "library", "cultural_centre"}
      /\ Reading /\ Due = {} /\ StoreOK /\ Asked(query)
  BY DEF Ready, Reading, Asked, KeysOf
<1>2. \A k \in query.keys : got[k].state \in {"fresh", "lost"}
  <2>1. (\A k \in query.keys : Wanted(k)) /\ ~Ended
    BY <1>1 DEF Wanted, Ended
  <2>2. \A k \in query.keys : got[k].state # "unread"
    BY <1>1, <2>1, ReadInOrder DEF AtOnce
  <2> QED BY <1>1, <2>2, FreshOrLost DEF StaleIfError, Operators
<1>3. CASE lost = query.keys
  BY <1>3, ErrorsAreRight DEF CityServicesNearby
<1>4. CASE lost # query.keys
  <2>1. a \in Summed(parts, limit, freshness, warnings)
    BY <1>4 DEF CityServicesNearby
  <2>2. \A p \in parts : IsFiniteSet(p)
    <3>1. "wifi" \in query.keys => IsFiniteSet(Nearby(store, {"wifi"}))
      <4>1. "wifi" \in Layers
        BY DEF Layers, Upserted
      <4> QED BY <1>1, <4>1, NearbyIsFinite
    <3>2. \A k \in query.keys : IsFiniteSet(ofDistrict(k))
      BY <1>1, RecordsAreFinite
    <3> QED BY <3>1, <3>2
  <2> HIDE DEF parts, limit, freshness, warnings
  <2>3. /\ a.ok = TRUE /\ a.freshness = freshness /\ a.warnings = warnings /\ a.counts = {}
        /\ a.data \subseteq UNION parts
        /\ a.info.truncated = TRUE \/ \A p \in parts : p \subseteq a.data
    BY <2>1, <2>2, SummedSays
  <2>4. \A k \in query.keys \ lost : got[k].state = "fresh" /\ ~Unusable(got, k)
    BY <1>2 DEF Failed, Unusable
  <2>5. ASSUME NEW row \in a.data
        PROVE  /\ got[row.from].state \in {"fresh", "stale"}
               /\ row.from \in Replaced => row \in Nearby(store, {row.from})
    <3>1. PICK k \in query.keys \ lost : row \in part(k)
      BY <2>3 DEF parts
    <3>2. row.from = k
      <4>1. CASE k = "wifi"
        BY <3>1, <4>1, NearbySays
      <4>2. CASE k # "wifi"
        BY <3>1, <4>2, RecordSays
      <4> QED BY <4>1, <4>2
    <3>3. k \notin Replaced
      BY <1>1 DEF Replaced, ReplacedAtSearch, ReplacedAtLoad
    <3> QED BY <2>4, <3>1, <3>2, <3>3
  <2>6. ASSUME NEW k \in query.keys
        PROVE  /\ got[k].state = "lost" => freshness = "unknown" /\ \E w \in warnings : w.about = k
               /\ got[k].state # "stale"
               /\ freshness \in {"fresh", "stale"} => k \notin lost
    <3>1. got[k].state = "lost" => k \in lost
      BY DEF Failed, Unusable
    <3>2. k \in lost => freshness = "unknown"
      BY DEF freshness
    <3>3. k \in lost => \E w \in warnings : w.about = k
      BY AboutEach DEF warnings
    <3> QED BY <1>2, <3>1, <3>2, <3>3
  <2>7. ASSUME NEW k \in query.keys \ lost
        PROVE  /\ Readable(k)
               /\ \/ a.info.truncated = TRUE
                  \/ \A kind \in Concerning(k) : \E row \in a.data : row.from = k /\ row.kind = kind
    <3>1. part(k) \in parts
      BY DEF parts
    <3>2. CASE k = "wifi"
      <4>1. k \in Layers /\ k \notin Replaced
        BY <3>2 DEF Layers, Upserted, Replaced, ReplacedAtSearch, ReplacedAtLoad
      <4>2. /\ Readable(k)
            /\ \A kind \in Concerning(k) :
                  \E row \in Nearby(store, {k}) : row.from = k /\ row.kind = kind
        BY <1>1, <2>4, <4>1, LayerIsSearched DEF OfPlaces
      <4>3. Nearby(store, {k}) \in parts
        BY <3>1, <3>2
      <4> QED BY <2>3, <4>2, <4>3
    <3>3. CASE k # "wifi"
      <4>1. Readable(k)
        BY <1>1, <2>4, <3>3, ServedKeys DEF WithoutList
      <4>2. ASSUME NEW kind \in Concerning(k)
            PROVE  \E row \in ofDistrict(k) : row.from = k /\ row.kind = kind
        <5>1. /\ Row(k, kind) \in Records(got, {k})
              /\ Row(k, kind).from = k /\ Row(k, kind).kind = kind
          BY <1>1, <2>4, ServedKeys, RecordIsThere
        <5>2. kind \in {"good", "also"}
          BY <1>1, <2>4, ServedKeys
        <5> QED BY <5>1, <5>2
      <4>3. ofDistrict(k) \in parts
        BY <3>1, <3>3
      <4> QED BY <2>3, <4>1, <4>2, <4>3
    <3> QED BY <3>2, <3>3
  <2>8. \A k \in query.keys : SectionIsTold(a, k)
    <3>1. SUFFICES ASSUME NEW k \in query.keys PROVE SectionIsTold(a, k)
      OBVIOUS
    <3>2. CASE k \in lost
      BY <2>3, <2>6, <3>2 DEF SectionIsTold, freshness
    <3>3. CASE k \notin lost
      <4>1. got[k].state = "fresh"
        BY <2>4, <3>3
      <4>2. /\ Readable(k)
            /\ \/ a.info.truncated = TRUE
               \/ \A kind \in Concerning(k) : \E row \in a.data : row.from = k /\ row.kind = kind
        BY <2>7, <3>3
      <4> QED BY <4>1, <4>2 DEF SectionIsTold
    <3> QED BY <3>2, <3>3
  <2>9. \A row \in a.data : RowIsServed(row)
    BY <2>5 DEF RowIsServed
  <2>10. \A k \in query.keys : got[k].state # "unread"
    BY <1>2
  <2> HIDE DEF lost
  <2> QED BY <1>1, <2>3, <2>8, <2>9, <2>10, SectionsAreRight
<1> QED BY <1>3, <1>4

-----------------------------------------------------------------------------
(* Every answer is right *)

\* Every answer of the transit tools is right.
LEMMA TransitIsRight ==
    ASSUME Ready, query.tool \in {"disruptions", "elevators", "ferries", "line_info", "stops",
                                  "line_notices", "departures"},
           NEW a \in TransitAnswers(query, got)
    PROVE  Right(a)
<1>1. CASE query.tool = "disruptions"
  <2>1. TransitAnswers(query, got) = Disruptions(query, got)
    BY <1>1 DEF TransitAnswers
  <2> QED BY <1>1, <2>1, DisruptionsAreRight
<1>2. CASE query.tool = "elevators"
  <2>1. TransitAnswers(query, got) = AccessibilityStatus(query, got)
    BY <1>2 DEF TransitAnswers
  <2> QED BY <1>2, <2>1, ElevatorsAreRight
<1>3. CASE query.tool = "ferries"
  <2>1. TransitAnswers(query, got) = Schedules(query, got)
    BY <1>3 DEF TransitAnswers
  <2> QED BY <1>3, <2>1, FerriesAreRight
<1>4. CASE query.tool = "line_info"
  <2>1. TransitAnswers(query, got) = {LineInfo(got)}
    BY <1>4 DEF TransitAnswers
  <2>2. a = LineInfo(got)
    BY <2>1
  <2> QED BY <1>4, <2>2, LineInfoIsRight
<1>5. CASE query.tool = "stops"
  <2>1. TransitAnswers(query, got) = {StopsOfLine(got)}
    BY <1>5 DEF TransitAnswers
  <2>2. a = StopsOfLine(got)
    BY <2>1
  <2> QED BY <1>5, <2>2, StopsOfLineIsRight
<1>6. CASE query.tool = "line_notices"
  <2>1. TransitAnswers(query, got) = LineNotices(query, got)
    BY <1>6 DEF TransitAnswers
  <2> QED BY <1>6, <2>1, LineNoticesAreRight
<1>7. CASE query.tool = "departures"
  <2>1. TransitAnswers(query, got) = PlannedDepartures(query, got)
    BY <1>7 DEF TransitAnswers
  <2> QED BY <1>7, <2>1, DeparturesAreRight
<1> QED BY <1>1, <1>2, <1>3, <1>4, <1>5, <1>6, <1>7

\* Every answer of the tools over rosters is right.
LEMMA RostersAreRight ==
    ASSUME Ready, query.tool \in {"pharmacies_nearby", "pharmacies_by_district", "istanbulkart",
                                  "facilities"},
           NEW a \in RosterToolAnswers(query, got)
    PROVE  Right(a)
<1>1. CASE query.tool = "pharmacies_nearby"
  <2>1. RosterToolAnswers(query, got) = PharmaciesNearby(query, got)
    BY <1>1 DEF RosterToolAnswers
  <2> QED BY <1>1, <2>1, PharmaciesAreRight
<1>2. CASE query.tool = "pharmacies_by_district"
  <2>1. RosterToolAnswers(query, got) = PharmaciesByDistrict(query, got)
    BY <1>2 DEF RosterToolAnswers
  <2> QED BY <1>2, <2>1, PharmaciesAreRight
<1>3. CASE query.tool = "istanbulkart"
  <2>1. RosterToolAnswers(query, got) = CentresNearby(query, got)
    BY <1>3 DEF RosterToolAnswers
  <2> QED BY <1>3, <2>1, CentresAreRight
<1>4. CASE query.tool = "facilities"
  <2>1. RosterToolAnswers(query, got) = FacilitiesNearby(query, got)
    BY <1>4 DEF RosterToolAnswers
  <2> QED BY <1>4, <2>1, FacilitiesAreRight
<1> QED BY <1>1, <1>2, <1>3, <1>4

\* Every answer of the tools over tables and the catalogue is right.
LEMMA CatalogIsRight ==
    ASSUME Ready, query.tool \in {"neighbourhood", "markets", "search_datasets", "get_dataset",
                                  "get_resource_schema", "query_resource"},
           NEW a \in CatalogAnswers(query, got)
    PROVE  Right(a)
<1>1. CASE query.tool = "neighbourhood"
  <2>1. CatalogAnswers(query, got) = Profile(query, got)
    BY <1>1 DEF CatalogAnswers
  <2> QED BY <1>1, <2>1, NeighbourhoodIsRight
<1>2. CASE query.tool = "markets"
  <2>1. CatalogAnswers(query, got) = MarketSchedule(query, got)
    BY <1>2 DEF CatalogAnswers
  <2> QED BY <1>2, <2>1, MarketsAreRight
<1>3. CASE query.tool = "search_datasets"
  <2>1. CatalogAnswers(query, got) = SearchDatasets(query, got)
    BY <1>3 DEF CatalogAnswers
  <2> QED BY <1>3, <2>1, DatasetsAreRight
<1>4. CASE query.tool = "get_dataset"
  <2>1. CatalogAnswers(query, got) = GetDataset(got)
    BY <1>4 DEF CatalogAnswers
  <2> QED BY <1>4, <2>1, DatasetIsRight
<1>5. CASE query.tool = "get_resource_schema"
  <2>1. CatalogAnswers(query, got) = GetResourceSchema(got)
    BY <1>5 DEF CatalogAnswers
  <2> QED BY <1>5, <2>1, ResourceSchemaIsRight
<1>6. CASE query.tool = "query_resource"
  <2>1. CatalogAnswers(query, got) = QueryResource(query, got)
    BY <1>6 DEF CatalogAnswers
  <2> QED BY <1>6, <2>1, QueryResourceIsRight
<1> QED BY <1>1, <1>2, <1>3, <1>4, <1>5, <1>6

\* Every answer of the tools over the city's layers is right.
LEMMA CityIsRight ==
    ASSUME Ready, query.tool \in OfPlaces, NEW a \in CityAnswers(query, got, store)
    PROVE  Right(a)
<1>1. CASE query.tool = "parking_nearby"
  <2>1. CityAnswers(query, got, store) = OneLayer("parking", query, got, store, "fresh", {})
    BY <1>1 DEF CityAnswers
  <2> QED BY <1>1, <2>1, OneLayerIsRight
<1>2. CASE query.tool = "metro_nearby"
  <2>1. CityAnswers(query, got, store) = OneLayer("metro_station", query, got, store, "fresh", {})
    BY <1>2 DEF CityAnswers
  <2> QED BY <1>2, <2>1, OneLayerIsRight
<1>3. CASE query.tool = "air_quality"
  <2>1. CityAnswers(query, got, store) = AirQualityNearby(query, got, store)
    BY <1>3 DEF CityAnswers
  <2> QED BY <1>3, <2>1, AirIsRight
<1>4. CASE query.tool = "parking_by_district"
  <2>1. CityAnswers(query, got, store) = ParkingByDistrict(query, got)
    BY <1>4 DEF CityAnswers
  <2> QED BY <1>4, <2>1, ParkingOfDistrictIsRight
<1>5. CASE query.tool = "traffic"
  <2>1. CityAnswers(query, got, store) = {TrafficStatus(got)}
    BY <1>5 DEF CityAnswers
  <2>2. a = TrafficStatus(got)
    BY <2>1
  <2> QED BY <1>5, <2>2, TrafficIsRight
<1>6. CASE query.tool = "city_features"
  <2>1. CityAnswers(query, got, store) = CityFeatures(query, got, store)
    BY <1>6 DEF CityAnswers
  <2> QED BY <1>6, <2>1, FeaturesAreRight
<1>7. CASE query.tool = "mobility"
  <2>1. CityAnswers(query, got, store) = MobilityNearby(query, got, store)
    BY <1>7 DEF CityAnswers
  <2> QED BY <1>7, <2>1, MobilityIsRight
<1>8. CASE query.tool = "city_services"
  <2>1. CityAnswers(query, got, store) = CityServicesNearby(query, got, store)
    BY <1>8 DEF CityAnswers
  <2> QED BY <1>8, <2>1, ServicesAreRight
<1> QED BY <1>1, <1>2, <1>3, <1>4, <1>5, <1>6, <1>7, <1>8 DEF OfPlaces

\* Whichever tool was asked, what a ready call answers is right.
LEMMA ToolAnswersAreRight ==
    ASSUME Ready, NEW a \in ToolAnswers
    PROVE  Right(a)
<1>1. query.tool \in Tools
  BY DEF Ready, Reading, Asked
<1>2. CASE query.tool \in {"disruptions", "elevators", "ferries", "line_info", "stops",
                           "line_notices", "departures"}
  <2>1. ToolAnswers = TransitAnswers(query, got)
    BY <1>2 DEF ToolAnswers
  <2> QED BY <1>2, <2>1, TransitIsRight
<1>3. CASE query.tool \in {"pharmacies_nearby", "pharmacies_by_district", "istanbulkart", "facilities"}
  <2>1. ToolAnswers = RosterToolAnswers(query, got)
    BY <1>3 DEF ToolAnswers
  <2> QED BY <1>3, <2>1, RostersAreRight
<1>4. CASE query.tool \in {"neighbourhood", "markets", "search_datasets", "get_dataset",
                           "get_resource_schema", "query_resource"}
  <2>1. ToolAnswers = CatalogAnswers(query, got)
    BY <1>4 DEF ToolAnswers
  <2> QED BY <1>4, <2>1, CatalogIsRight
<1>5. CASE query.tool \in OfPlaces
  <2>1. ToolAnswers = CityAnswers(query, got, store)
    BY <1>5 DEF ToolAnswers, OfPlaces
  <2> QED BY <1>5, <2>1, CityIsRight
<1> QED BY <1>1, <1>2, <1>3, <1>4, <1>5 DEF Tools, OfPlaces

-----------------------------------------------------------------------------
(* The invariant of a behaviour *)

\* A kept copy was understood when it was loaded, by a call of this behaviour; only the
\* sources that may serve an old copy keep one.
CopyOK(key) ==
    cache[key] # None =>
        /\ cache[key].pages \in PagesOf(key) /\ Load(key, cache[key].pages) # None
        /\ cache[key].age \in {"fresh", "old"}
        /\ cache[key].age = "old" => key \in StaleIfError
        /\ cache[key].edition \in 1..suite.bounds.calls

SpentOK ==
    /\ DOMAIN spent = Bounds
    /\ \A b \in Bounds : spent[b] \in 0..suite.bounds[b]

QueryOK ==
    query # None =>
        /\ spent.calls >= 1
        /\ DOMAIN got = query.keys
        /\ \A k \in query.keys : ReadOK(k)
        /\ WroteWhatItRead
        /\ LookedUp

IInv ==
    /\ suite \in Suites /\ query \in suite.queries \cup {None}
    /\ SpentOK
    /\ DOMAIN cache = Keys /\ \A k \in Keys : CopyOK(k)
    /\ StoreOK /\ WroteWhatItKeeps
    /\ QueryOK
    /\ answer # None => Right(answer)

-----------------------------------------------------------------------------
(* What the steps of a call leave behind *)

\* What a loader makes of a page is of the kinds that the code tells apart.
LEMMA LoadedAreKinds ==
    ASSUME NEW k \in SourceNames, NEW pages \in PagesOf(k), Load(k, pages) # None
    PROVE  Load(k, pages) \subseteq Kinds
<1>1. CASE k = "facilities"
  BY <1>1, FacilitiesUnderstood
<1>2. CASE k # "facilities"
  BY <1>2, AllUnderstood DEF Understood
<1> QED BY <1>1, <1>2

\* What is due has not been read, and is wanted.
LEMMA DueIsUnread ==
    ASSUME Asked(query), NEW k \in Due
    PROVE  k \in UnreadKeys /\ k \in query.keys /\ Wanted(k)
<1> DEFINE order == IF query.tool = "city_features" THEN OrderOfFeatures ELSE Order
           waiting == {i \in DOMAIN order : order[i] \in UnreadKeys}
           m == CHOOSE i \in waiting : \A j \in waiting : i <= j
<1>1. ~Ended
  BY DEF Due
<1>2. CASE query.tool \in AtOnce \/ Cardinality(UnreadKeys) <= 1
  <2>1. Due = {u \in UnreadKeys : Wanted(u)}
    BY <1>1, <1>2 DEF Due
  <2> QED BY <2>1 DEF UnreadKeys
<1>3. CASE query.tool \notin AtOnce /\ ~(Cardinality(UnreadKeys) <= 1)
  <2>1. Due = {u \in {order[m]} : Wanted(u)}
    BY <1>1, <1>3 DEF Due
  <2>2. \A x : ~(query.keys \subseteq {x})
    <3>1. SUFFICES ASSUME NEW x, query.keys \subseteq {x} PROVE FALSE
      OBVIOUS
    <3>2. UnreadKeys \in SUBSET {x} /\ IsFiniteSet({x}) /\ Cardinality({x}) = 1
      BY <3>1, FS_Singleton DEF UnreadKeys
    <3> QED BY <1>3, <3>2, FS_Subset
  <2>3. UnreadKeys # {}
    BY <1>3, FS_EmptySet
  <2>4. PICK u \in UnreadKeys : TRUE
    BY <2>3
  <2>5. u \in query.keys
    BY DEF UnreadKeys
  <2>6. DOMAIN order \subseteq 1..14
    BY DEF OrderOfFeatures, Order
  <2>7. \E i \in DOMAIN order : order[i] = u
    <3>1. CASE query.tool = "city_features"
      <4>1. u \in {"parking", "metro_station", "air_quality_station", "wifi", "ev_charging",
                   "public_transport_stop"}
        BY <2>5, <3>1 DEF Asked, KeysOf, Layers, Upserted, Replaced, ReplacedAtSearch, ReplacedAtLoad
      <4>2. DOMAIN OrderOfFeatures = 1..6
        BY DEF OrderOfFeatures
      <4>3. /\ OrderOfFeatures[1] = "parking" /\ OrderOfFeatures[2] = "metro_station"
            /\ OrderOfFeatures[3] = "air_quality_station"
            /\ OrderOfFeatures[4] = "public_transport_stop"
            /\ OrderOfFeatures[5] = "wifi" /\ OrderOfFeatures[6] = "ev_charging"
        BY DEF OrderOfFeatures
      <4> QED BY <3>1, <4>1, <4>2, <4>3
    <3>2. CASE query.tool # "city_features"
      <4>1. query.tool \in {"ferries", "query_resource", "air_quality", "mobility", "city_services"}
        <5>1. query.tool \notin {"line_info", "stops", "departures", "istanbulkart", "facilities",
                                 "traffic", "line_notices"}
          BY <2>2 DEF Asked, KeysOf
        <5>2. query.tool \notin {"pharmacies_nearby", "pharmacies_by_district", "markets",
                                 "search_datasets", "get_dataset", "get_resource_schema"}
          BY <2>2 DEF Asked, KeysOf
        <5>3. query.tool \notin {"parking_nearby", "parking_by_district", "metro_nearby"}
          BY <2>2 DEF Asked, KeysOf
        <5> QED BY <1>3, <3>2, <5>1, <5>2, <5>3 DEF Asked, Tools, AtOnce
      <4>2. u \in {"catalog", "timetable", "parking", "metro_station", "traffic",
                   "public_transport_stop", "air_quality_station", "readings", "wifi", "library",
                   "cultural_centre", "schema", "records"}
        BY <2>5, <4>1 DEF Asked, KeysOf, Sections
      <4>3. DOMAIN Order = 1..14
        BY DEF Order
      <4>4. /\ Order[1] = "catalog" /\ Order[2] = "timetable"
            /\ Order[3] = "parking" /\ Order[4] = "metro_station" /\ Order[5] = "traffic"
            /\ Order[6] = "public_transport_stop" /\ Order[7] = "air_quality_station"
            /\ Order[8] = "readings" /\ Order[9] = "wifi"
        BY DEF Order
      <4>5. /\ Order[11] = "library" /\ Order[12] = "cultural_centre"
            /\ Order[13] = "schema" /\ Order[14] = "records"
        BY DEF Order
      <4> QED BY <3>2, <4>2, <4>3, <4>4, <4>5
    <3> QED BY <3>1, <3>2
  <2>8. waiting # {} /\ waiting \subseteq 1..14
    BY <2>4, <2>6, <2>7
  <2>9. m \in waiting
    BY <2>8, FirstExists
  <2>10. order[m] \in UnreadKeys
    BY <2>9
  <2> QED BY <2>1, <2>10 DEF UnreadKeys
<1> QED BY <1>2, <1>3

\* The features built of rows are of one copy, and the copy does not change their kinds.
LEMMA FeaturesAre ==
    ASSUME NEW n \in Nat, NEW rows \in SUBSET Kinds, NEW edition \in 0..n
    PROVE  /\ Features(rows, edition) \in SUBSET [kind : Kinds, edition : 0..n]
           /\ \A f \in Features(rows, edition) : f.edition = edition
           /\ \A f \in Features(rows, 0) : \E g \in Features(rows, edition) : g.kind = f.kind
<1> DEFINE of(kind) == IF kind = "twin" THEN "good" ELSE kind
           built == rows \ {"loose", "blank", "torn"}
<1>1. \A e : Features(rows, e) = {[kind |-> of(kind), edition |-> e] : kind \in built}
  BY DEF Features
<1>2. \A kind \in built : of(kind) \in Kinds
  BY DEF Kinds
<1> HIDE DEF of, built
<1>3. ASSUME NEW f \in Features(rows, edition)
      PROVE  f \in [kind : Kinds, edition : 0..n] /\ f.edition = edition
  BY <1>1, <1>2
<1>4. ASSUME NEW f \in Features(rows, 0)
      PROVE  \E g \in Features(rows, edition) : g.kind = f.kind
  <2>1. PICK kind \in built : f = [kind |-> of(kind), edition |-> 0]
    BY <1>1
  <2>2. [kind |-> of(kind), edition |-> edition] \in Features(rows, edition)
    BY <1>1
  <2> QED BY <2>1, <2>2
<1> QED BY <1>3, <1>4

\* A write replaces a layer whole, or adds to it and loses no kind it had.
LEMMA WriteIs ==
    ASSUME NEW layer, NEW old, NEW new
    PROVE  /\ Write(layer, old, new) \subseteq old \cup new
           /\ layer \in Replaced => Write(layer, old, new) = new
           /\ layer \notin Replaced =>
                 \A f \in old \cup new : \E g \in Write(layer, old, new) : g.kind = f.kind
<1>1. CASE layer \in Replaced
  BY <1>1 DEF Write, Replace
<1>2. CASE layer \notin Replaced
  <2>1. Write(layer, old, new) = new \cup {f \in old : \A g \in new : g.kind # f.kind}
    BY <1>2 DEF Write, Upsert
  <2> QED BY <1>2, <2>1
<1> QED BY <1>1, <1>2

\* A write of some rows to a layer, by a call or by another worker.
LEMMA LayerWritten ==
    ASSUME StoreOK, NEW layer \in Layers, NEW rows \in SUBSET Kinds,
           NEW edition \in 0..suite.bounds.calls, UNCHANGED suite,
           store' = [store EXCEPT ![layer] = Write(layer, @, Features(rows, edition))]
    PROVE  /\ StoreOK'
           /\ \A l \in Layers \ {layer} : store'[l] = store[l]
           /\ \A f \in Features(rows, 0) : \E g \in store'[layer] : g.kind = f.kind
           /\ layer \in Upserted => \A f \in store[layer] : \E g \in store'[layer] : g.kind = f.kind
           /\ layer \in Replaced => store'[layer] = Features(rows, edition)
<1> DEFINE n == suite.bounds.calls
           S == [kind : Kinds, edition : 0..n]
           new == Features(rows, edition)
<1>1. n \in Nat /\ store \in [Layers -> SUBSET S]
  BY DEF StoreOK
<1>2. store[layer] \in SUBSET S
  BY <1>1
<1>3. /\ new \in SUBSET S
      /\ \A f \in new : f.edition = edition
      /\ \A f \in Features(rows, 0) : \E g \in new : g.kind = f.kind
  BY <1>1, FeaturesAre
<1>4. /\ store'[layer] = Write(layer, store[layer], new)
      /\ \A l \in Layers : l # layer => store'[l] = store[l]
      /\ store' = [l \in Layers |-> IF l = layer THEN Write(layer, store[layer], new) ELSE store[l]]
  BY <1>1
<1> HIDE DEF n, S, new
<1>5. /\ Write(layer, store[layer], new) \in SUBSET S
      /\ layer \in Replaced => Write(layer, store[layer], new) = new
      /\ layer \notin Replaced =>
            \A f \in store[layer] \cup new : \E g \in Write(layer, store[layer], new) : g.kind = f.kind
  <2>1. /\ Write(layer, store[layer], new) \subseteq store[layer] \cup new
        /\ layer \in Replaced => Write(layer, store[layer], new) = new
        /\ layer \notin Replaced =>
              \A f \in store[layer] \cup new : \E g \in Write(layer, store[layer], new) : g.kind = f.kind
    BY WriteIs
  <2>2. Write(layer, store[layer], new) \in SUBSET S
    BY <1>2, <1>3, <2>1
  <2> QED BY <2>1, <2>2
<1>6. store' \in [Layers -> SUBSET S]
  BY <1>1, <1>4, <1>5
<1>7. ASSUME NEW l \in Replaced, NEW f \in store'[l], NEW g \in store'[l]
      PROVE  f.edition = g.edition
  <2>1. CASE l = layer
    BY <1>3, <1>4, <1>5, <1>7, <2>1
  <2>2. CASE l # layer
    <3>1. l \in Layers
      BY DEF Layers
    <3>2. store'[l] = store[l]
      BY <1>4, <2>2, <3>1
    <3> QED BY <3>2 DEF StoreOK
  <2> QED BY <2>1, <2>2
<1>8. StoreOK'
  BY <1>1, <1>6, <1>7 DEF StoreOK, n, S
<1>9. layer \in Upserted => \A f \in store[layer] : \E g \in store'[layer] : g.kind = f.kind
  BY <1>4, <1>5, LayersDisjoint
<1>10. ASSUME NEW f \in Features(rows, 0) PROVE \E g \in store'[layer] : g.kind = f.kind
  <2>1. PICK g \in new : g.kind = f.kind
    BY <1>3
  <2> QED BY <1>4, <1>5, <2>1
<1>11. layer \in Replaced => store'[layer] = new
  BY <1>4, <1>5
<1> QED BY <1>4, <1>8, <1>9, <1>10, <1>11 DEF new

\* What a call writes of what it read: its rows of a layer that it adds to or replaces,
\* unless it has no rows, or found the stops in the cache.
LEMMA StoreWritten ==
    ASSUME StoreOK, NEW key, NEW rows, rows = None \/ rows \in SUBSET Kinds,
           NEW edition \in 0..suite.bounds.calls, NEW loaded, UNCHANGED suite,
           store' = Written(key, rows, edition, loaded)
    PROVE  /\ StoreOK'
           /\ \A l \in Layers \ {key} : store'[l] = store[l]
           /\ /\ key \in Layers /\ query.tool # "parking_by_district"
              /\ rows # None /\ Buildable(key, rows)
              /\ key \in ReplacedAtLoad => loaded
              => HoldsRows(store'[key], key, rows)
           /\ rows = None \/ (key \in ReplacedAtLoad /\ ~loaded) => store' = store
<1> DEFINE writes == /\ key \in Layers /\ query.tool # "parking_by_district"
                     /\ rows # None /\ Buildable(key, rows)
                     /\ key \in ReplacedAtLoad => loaded
<1>1. CASE writes
  <2>1. store' = [store EXCEPT ![key] = Write(key, @, Features(rows, edition))]
    BY <1>1 DEF Written
  <2>2. key \in Layers /\ rows \in SUBSET Kinds
    BY <1>1
  <2>3. /\ StoreOK'
        /\ \A l \in Layers \ {key} : store'[l] = store[l]
        /\ \A f \in Features(rows, 0) : \E g \in store'[key] : g.kind = f.kind
    BY <2>1, <2>2, LayerWritten
  <2>4. HoldsRows(store'[key], key, rows)
    BY <2>3 DEF HoldsRows
  <2> QED BY <1>1, <2>3, <2>4
<1>2. CASE ~writes
  <2>1. store' = store
    BY <1>2 DEF Written
  <2>2. StoreOK'
    BY <2>1 DEF StoreOK
  <2> QED BY <1>2, <2>1, <2>2
<1> QED BY <1>1, <1>2

\* What a call has read stays as it should be when it reads one more key.
LEMMA ReadKeeps ==
    ASSUME Reading, NEW key \in Due, DOMAIN got = query.keys, UNCHANGED <<suite, query>>, StoreOK',
           NEW state \in {"fresh", "stale", "lost"}, NEW pages,
           got' = [got EXCEPT ![key] = [state |-> state, pages |-> pages]],
           state \in {"fresh", "stale"} => pages \in PagesOf(key) /\ Load(key, pages) # None,
           state = "stale" => key \in StaleIfError,
           \A l \in Layers \ {key} : store'[l] = store[l],
           /\ state \in {"fresh", "stale"} /\ key \in Layers
           /\ query.tool # "parking_by_district" /\ Buildable(key, Load(key, pages))
           => HoldsRows(store'[key], key, Load(key, pages))
    PROVE  DOMAIN got' = query.keys /\ Reading'
<1>1. key \in query.keys /\ got[key].state = "unread" /\ Wanted(key) /\ Asked(query)
  BY DueIsUnread DEF Reading, UnreadKeys
<1>2. /\ DOMAIN got' = query.keys
      /\ got'[key].state = state /\ got'[key].pages = pages
      /\ \A k \in query.keys : k # key => got'[k] = got[k]
  BY <1>1
<1>3. Asked(query)'
  BY <1>1 DEF Asked
<1>4. ASSUME NEW k \in query.keys PROVE ReadOK(k)'
  <2>1. CASE k = key
    BY <1>2, <2>1 DEF ReadOK
  <2>2. CASE k # key
    <3>1. got'[k] = got[k] /\ ReadOK(k)
      BY <1>2, <2>2 DEF Reading
    <3> QED BY <3>1 DEF ReadOK
  <2> QED BY <2>1, <2>2
<1>5. \A k \in query.keys : k # key => Rows(got', k) = Rows(got, k)
  BY <1>2 DEF Rows, Served
<1>6. WroteWhatItRead'
  <2>1. SUFFICES ASSUME NEW k \in query.keys \cap Layers,
                        query.tool # "parking_by_district", got'[k].state \in {"fresh", "stale"},
                        Buildable(k, Rows(got', k))
                 PROVE  HoldsRows(store'[k], k, Rows(got', k))
    BY DEF WroteWhatItRead
  <2>2. CASE k = key
    <3>1. state \in {"fresh", "stale"}
      BY <1>2, <2>1, <2>2
    <3>2. Rows(got', key) = Load(key, pages)
      BY <1>2, <3>1 DEF Rows, Served
    <3>3. HoldsRows(store'[key], key, Load(key, pages))
      BY <2>1, <2>2, <3>1, <3>2
    <3> QED BY <2>2, <3>2, <3>3 DEF HoldsRows
  <2>3. CASE k # key
    <3>1. got'[k] = got[k] /\ Rows(got', k) = Rows(got, k)
      BY <1>2, <1>5, <2>3
    <3>2. HoldsRows(store[k], k, Rows(got, k)) /\ store'[k] = store[k]
      BY <2>1, <2>3, <3>1 DEF Reading, WroteWhatItRead
    <3> QED BY <3>1, <3>2
  <2> QED BY <2>2, <2>3
<1>7. LookedUp'
  <2>1. SUFFICES ASSUME query.tool = "ferries", got'["timetable"].state # "unread"
                 PROVE  RouteListed(got')
    BY DEF LookedUp
  <2>2. query.keys = {"catalog", "timetable"}
    BY <1>1, <2>1 DEF Asked, KeysOf
  <2>3. CASE key = "timetable"
    <3>1. RouteListed(got)
      BY <1>1, <2>3 DEF Wanted
    <3>2. Rows(got', "catalog") = Rows(got, "catalog")
      BY <1>5, <2>2, <2>3
    <3> QED BY <3>1, <3>2 DEF RouteListed
  <2>4. CASE key = "catalog"
    <3>1. got["timetable"].state # "unread"
      BY <1>2, <2>1, <2>2, <2>4
    <3>2. "good" \in Rows(got, "catalog")
      BY <2>1, <3>1 DEF Reading, LookedUp, RouteListed
    <3>3. Rows(got, "catalog") = {}
      BY <1>1, <2>4, RowsOf
    <3> QED BY <3>2, <3>3
  <2> QED BY <1>1, <2>2, <2>3, <2>4
<1> QED BY <1>2, <1>3, <1>4, <1>6, <1>7 DEF Reading

\* An answer stays right as long as it is the answer to what was read, and what another
\* worker wrote stays.
LEMMA AnswerStays ==
    ASSUME UNCHANGED <<query, got, answer>>, \A l \in Replaced : OfAnother(l) => OfAnother(l)',
           answer # None => Right(answer)
    PROVE  (answer # None => Right(answer))'
BY DEF Right, Whole, MissingIsTold, Accounted, OfOnePublication, Sources, Readable, PageOf, Concerning

\* A copy that is kept, or dropped, is the one its layer was written from.
LEMMA KeptStays ==
    ASSUME WroteWhatItKeeps, UNCHANGED <<suite, store>>,
           \A k \in Keys : cache[k] # None /\ cache'[k] # None => cache'[k].pages = cache[k].pages,
           \A k \in Keys : cache[k] = None => cache'[k] = None
    PROVE  WroteWhatItKeeps'
<1> SUFFICES ASSUME NEW k \in Keys \cap Replaced, cache'[k] # None,
                    Buildable(k, Load(k, cache'[k].pages))
             PROVE  HoldsRows(store'[k], k, Load(k, cache'[k].pages))
  BY DEF WroteWhatItKeeps, Keys
<1>1. cache[k] # None /\ cache'[k].pages = cache[k].pages
  OBVIOUS
<1>2. HoldsRows(store[k], k, Load(k, cache[k].pages))
  BY <1>1 DEF WroteWhatItKeeps
<1> QED BY <1>1, <1>2

\* What a state that satisfies the invariant says of the call that is under way.
LEMMA Underway ==
    ASSUME IInv, query # None
    PROVE  /\ suite \in Suites /\ query \in suite.queries
           /\ Reading /\ DOMAIN got = query.keys
           /\ suite.bounds.calls \in Nat /\ spent.calls \in 1..suite.bounds.calls
           /\ \A k \in query.keys : k \in SourceNames
<1>1. suite \in Suites /\ query \in suite.queries /\ QueryOK /\ StoreOK /\ SpentOK
  BY DEF IInv
<1>2. Asked(query)
  BY <1>1, QueriesAreOfTools DEF Asked
<1>3. Reading
  BY <1>1, <1>2 DEF QueryOK, Reading
<1>4. "calls" \in Bounds /\ suite.bounds.calls \in Nat
  BY <1>1, BoundsAreNat DEF Bounds
<1>5. spent.calls \in 1..suite.bounds.calls
  BY <1>1, <1>4 DEF SpentOK, QueryOK
<1>6. \A k \in query.keys : k \in SourceNames
  BY <1>2, KeysAreNamed
<1> QED BY <1>1, <1>3, <1>4, <1>5, <1>6 DEF QueryOK

\* The bounds are kept by a step that spends one of them.
LEMMA SpentKept ==
    ASSUME IInv, NEW b \in Bounds, NEW n \in Nat, spent[b] + n <= suite.bounds[b], UNCHANGED suite,
           spent' = [spent EXCEPT ![b] = @ + n]
    PROVE  SpentOK'
<1>1. /\ DOMAIN spent = Bounds /\ \A c \in Bounds : suite.bounds[c] \in Nat
      /\ \A c \in Bounds : spent[c] \in 0..suite.bounds[c]
  BY BoundsAreNat DEF IInv, SpentOK
<1>2. DOMAIN spent' = Bounds
  BY <1>1
<1>3. ASSUME NEW c \in Bounds PROVE spent'[c] \in 0..suite.bounds[c]
  <2>1. CASE c = b
    <3>1. spent'[c] = spent[b] + n
      BY <1>1, <2>1
    <3> QED BY <1>1, <2>1, <3>1
  <2>2. CASE c # b
    BY <1>1, <2>2
  <2> QED BY <2>1, <2>2
<1> QED BY <1>2, <1>3 DEF SpentOK

\* A copy stays as it should be while its entry does.
LEMMA CopiesStay ==
    ASSUME UNCHANGED <<suite, cache>>, \A k \in Keys : CopyOK(k)
    PROVE  (\A k \in Keys : CopyOK(k))'
BY DEF Keys, CopyOK

-----------------------------------------------------------------------------
(* The steps *)

\* No call has been made, and nothing is kept.
LEMMA InitInv == Init => IInv
<1> SUFFICES ASSUME Init PROVE IInv
  OBVIOUS
<1>1. suite \in Suites /\ query = None /\ answer = None
  BY DEF Init
<1>2. SpentOK
  BY <1>1, BoundsAreNat DEF Init, SpentOK
<1>3. DOMAIN cache = Keys /\ \A k \in Keys : CopyOK(k)
  BY DEF Init, CopyOK
<1>4. StoreOK
  <2>1. suite.bounds.calls \in Nat
    BY <1>1, BoundsAreNat DEF Bounds
  <2>2. \A l \in Replaced : l \in Layers
    BY DEF Layers
  <2> QED BY <2>1, <2>2 DEF Init, StoreOK
<1>5. WroteWhatItKeeps
  BY DEF Init, WroteWhatItKeeps
<1> QED BY <1>1, <1>2, <1>3, <1>4, <1>5 DEF IInv, QueryOK

\* A new call has read nothing, and the error of an invalid one promises nothing.
LEMMA AskKeeps == ASSUME IInv, Ask PROVE IInv'
<1>1. PICK q \in suite.queries : query' = q /\ got' = [k \in q.keys |-> Unread]
                                 /\ answer' = IF q.valid THEN None ELSE ValidationError
  BY DEF Ask
<1>2. /\ suite' = suite /\ cache' = cache /\ store' = store
      /\ spent.calls < suite.bounds.calls /\ spent' = [spent EXCEPT !.calls = @ + 1]
  BY DEF Ask
<1>3. suite \in Suites /\ suite.bounds.calls \in Nat /\ spent.calls \in Nat
  BY BoundsAreNat DEF IInv, SpentOK, Bounds
<1>4. SpentOK'
  <2>1. "calls" \in Bounds /\ spent["calls"] + 1 <= suite.bounds["calls"]
    BY <1>2, <1>3 DEF Bounds
  <2>2. spent' = [spent EXCEPT !["calls"] = @ + 1]
    BY <1>2
  <2> QED BY <1>2, <2>1, <2>2, SpentKept
<1>5. (\A k \in Keys : CopyOK(k))' /\ DOMAIN cache' = Keys'
  BY <1>2, CopiesStay DEF IInv, Keys
<1>6. StoreOK' /\ WroteWhatItKeeps'
  BY <1>2, KeptStays DEF IInv, StoreOK
<1>7. \A k \in q.keys : got'[k].state = "unread"
  BY <1>1 DEF Unread
<1>8. QueryOK'
  <2>1. spent'.calls >= 1
    BY <1>2, <1>3 DEF IInv, SpentOK, Bounds
  <2>2. DOMAIN got' = query'.keys
    BY <1>1
  <2>3. \A k \in query'.keys : ReadOK(k)'
    BY <1>1, <1>7 DEF ReadOK
  <2>4. WroteWhatItRead'
    BY <1>1, <1>7 DEF WroteWhatItRead
  <2>5. LookedUp'
    <3>1. q.keys \in KeysOf(q.tool)
      BY <1>1, <1>3, QueriesAreOfTools
    <3>2. q.tool = "ferries" => "timetable" \in q.keys
      BY <3>1 DEF KeysOf
    <3> QED BY <1>1, <1>7, <3>2 DEF LookedUp
  <2> QED BY <2>1, <2>2, <2>3, <2>4, <2>5 DEF QueryOK
<1>9. (answer # None => Right(answer))'
  <2>1. CASE answer' = None
    BY <2>1
  <2>2. CASE answer' = ValidationError
    BY <2>2 DEF ValidationError, Failure, Right, Whole, MissingIsTold, Accounted, OfOnePublication
  <2> QED BY <1>1, <2>1, <2>2
<1> QED BY <1>1, <1>2, <1>3, <1>4, <1>5, <1>6, <1>8, <1>9 DEF IInv

\* A district is answered from rows, and reads no layer that is replaced.
LEMMA ReplacedIsNotOfDistricts ==
    ASSUME Reading, NEW k \in query.keys \cap Replaced
    PROVE  query.tool # "parking_by_district"
BY LayersDisjoint DEF Reading, Asked, KeysOf

\* A copy within its period was understood when it was kept.
LEMMA ReadCachedKeeps == ASSUME IInv, NEW key \in Keys, ReadCached(key) PROVE IInv'
<1> DEFINE pages == cache[key].pages
           edition == cache[key].edition
<1>1. /\ query # None /\ answer = None /\ key \in Due /\ Hit(key)
      /\ UNCHANGED <<suite, query, cache, answer, spent>>
      /\ got' = [got EXCEPT ![key] = [state |-> "fresh", pages |-> pages]]
      /\ store' = Written(key, Load(key, pages), edition, FALSE)
  BY DEF ReadCached, Busy
<1>2. /\ suite \in Suites /\ query \in suite.queries
      /\ Reading /\ DOMAIN got = query.keys
      /\ \A k \in query.keys : k \in SourceNames
  BY <1>1, Underway
<1>3. key \in query.keys /\ key \in SourceNames
  BY <1>1, <1>2, DueIsUnread DEF Reading
<1>4. /\ pages \in PagesOf(key) /\ Load(key, pages) # None
      /\ edition \in 1..suite.bounds.calls /\ suite.bounds.calls \in Nat /\ StoreOK
  BY <1>1, <1>2 DEF IInv, CopyOK, Hit, StoreOK
<1>5. edition \in 0..suite.bounds.calls
  BY <1>4
<1> HIDE DEF pages, edition
<1>6. Load(key, pages) \in SUBSET Kinds
  BY <1>3, <1>4, LoadedAreKinds
<1>7. /\ StoreOK'
      /\ \A l \in Layers \ {key} : store'[l] = store[l]
      /\ /\ key \in Layers \ ReplacedAtLoad /\ query.tool # "parking_by_district"
         /\ Buildable(key, Load(key, pages))
         => HoldsRows(store'[key], key, Load(key, pages))
      /\ key \in ReplacedAtLoad => store' = store
  BY <1>1, <1>4, <1>5, <1>6, StoreWritten
<1>8. /\ key \in Layers /\ query.tool # "parking_by_district" /\ Buildable(key, Load(key, pages))
      => HoldsRows(store'[key], key, Load(key, pages))
  <2>1. CASE key \in ReplacedAtLoad
    <3>1. key \in Replaced /\ cache[key] # None
      BY <1>1, <2>1 DEF Replaced, Hit
    <3>2. Buildable(key, Load(key, pages)) => HoldsRows(store[key], key, Load(key, pages))
      BY <3>1 DEF IInv, WroteWhatItKeeps, pages
    <3> QED BY <1>7, <2>1, <3>2
  <2>2. CASE key \notin ReplacedAtLoad
    BY <1>7, <2>2
  <2> QED BY <2>1, <2>2
<1>11. DOMAIN got' = query.keys /\ Reading'
  BY <1>1, <1>2, <1>4, <1>7, <1>8, ReadKeeps
<1>12. WroteWhatItKeeps'
  <2>1. SUFFICES ASSUME NEW k \in Keys \cap Replaced, cache[k] # None,
                        Buildable(k, Load(k, cache[k].pages))
                 PROVE  HoldsRows(store'[k], k, Load(k, cache[k].pages))
    BY <1>1 DEF WroteWhatItKeeps, Keys
  <2>2. CASE k = key
    <3>1. query.tool # "parking_by_district"
      BY <1>2, <1>3, <2>2, ReplacedIsNotOfDistricts
    <3> QED BY <1>8, <2>1, <2>2, <3>1, LayersDisjoint DEF pages
  <2>3. CASE k # key
    BY <1>7, <2>1, <2>3, LayersDisjoint DEF IInv, WroteWhatItKeeps
  <2> QED BY <2>2, <2>3
<1>9. QueryOK'
  BY <1>1, <1>11 DEF IInv, QueryOK, Reading
<1>10. (\A k \in Keys : CopyOK(k))' /\ DOMAIN cache' = Keys'
  BY <1>1, CopiesStay DEF IInv, Keys
<1> QED BY <1>1, <1>2, <1>7, <1>9, <1>10, <1>12 DEF IInv, SpentOK

\* A page is understood and kept, or an old copy is served, or the key is lost.
LEMMA ReadSourceKeeps == ASSUME IInv, NEW key \in Keys, ReadSource(key) PROVE IInv'
<1>1. /\ query # None /\ answer = None /\ key \in Due /\ ~Hit(key)
      /\ UNCHANGED <<suite, query, answer>>
  BY DEF ReadSource, Busy
<1>2. PICK pages \in Answers(key, suite.bounds.odd - spent.odd) :
          /\ got' = [got EXCEPT ![key] = Outcome(key, pages)]
          /\ cache' = [k \in Keys |-> IF k = key THEN Kept(key, pages)
                                     ELSE IF k \in Evicted(key, pages) THEN None ELSE cache[k]]
          /\ store' = Written(key, Load(key, pages), spent.calls, TRUE)
          /\ spent' = [spent EXCEPT !.odd = @ + OddOnes(key, pages)]
  BY DEF ReadSource
<1>3. /\ suite \in Suites /\ query \in suite.queries
      /\ Reading /\ DOMAIN got = query.keys
      /\ suite.bounds.calls \in Nat /\ spent.calls \in 1..suite.bounds.calls
      /\ \A k \in query.keys : k \in SourceNames
  BY <1>1, Underway
<1>4. key \in query.keys /\ key \in SourceNames
  BY <1>1, <1>3, DueIsUnread DEF Reading
<1>5. pages \in PagesOf(key) /\ OddOnes(key, pages) <= suite.bounds.odd - spent.odd
  BY DEF Answers, OddOnes, PagesOf
<1>6. Load(key, pages) = None \/ Load(key, pages) \in SUBSET Kinds
  BY <1>4, <1>5, LoadedAreKinds
<1>7. SpentOK'
  <2>1. OddOnes(key, pages) \in Nat
    <3>1. DOMAIN pages = 1..Candidates(key) /\ Candidates(key) \in 1..3
      BY <1>5 DEF PagesOf, Candidates
    <3>2. {i \in DOMAIN pages : pages[i] # Usual(key)} \in SUBSET (1..3)
      BY <3>1
    <3>3. IsFiniteSet(1..3)
      BY FS_Interval, 1 \in Int, 3 \in Int
    <3> QED BY <3>2, <3>3, FS_Subset, FS_CardinalityType DEF OddOnes
  <2>2. "odd" \in Bounds /\ suite.bounds["odd"] \in Nat /\ spent["odd"] \in Nat
    BY <1>3, BoundsAreNat DEF IInv, SpentOK, Bounds
  <2>3. spent["odd"] + OddOnes(key, pages) <= suite.bounds["odd"]
    BY <1>5, <2>1, <2>2
  <2>4. spent' = [spent EXCEPT !["odd"] = @ + OddOnes(key, pages)]
    BY <1>2
  <2> QED BY <1>1, <2>1, <2>2, <2>3, <2>4, SpentKept
<1>8. spent'.calls = spent.calls
  BY <1>2 DEF IInv, SpentOK, Bounds
<1>9. /\ StoreOK'
      /\ \A l \in Layers \ {key} : store'[l] = store[l]
      /\ /\ key \in Layers /\ query.tool # "parking_by_district"
         /\ Load(key, pages) # None /\ Buildable(key, Load(key, pages))
         => HoldsRows(store'[key], key, Load(key, pages))
      /\ Load(key, pages) = None => store' = store
  <2>1. StoreOK /\ spent.calls \in 0..suite.bounds.calls
    BY <1>3 DEF Reading
  <2> QED BY <1>1, <1>2, <1>6, <2>1, StoreWritten
<1>10. CopyOK(key) /\ \A k \in Upserted : k \notin StaleIfError
  BY DEF IInv, Upserted, StaleIfError, Operators
<1>11. DOMAIN got' = query.keys /\ Reading'
  <2>1. CASE Load(key, pages) # None
    <3>1. Outcome(key, pages) = [state |-> "fresh", pages |-> pages]
      BY <2>1 DEF Outcome
    <3>2. got' = [got EXCEPT ![key] = [state |-> "fresh", pages |-> pages]]
      BY <1>2, <3>1
    <3> QED BY <1>1, <1>3, <1>5, <1>9, <2>1, <3>2, ReadKeeps
  <2>2. CASE Load(key, pages) = None /\ cache[key] # None
    <3> DEFINE old == cache[key].pages
    <3>1. Outcome(key, pages) = [state |-> "stale", pages |-> old]
      BY <2>2 DEF Outcome
    <3>2. got' = [got EXCEPT ![key] = [state |-> "stale", pages |-> old]]
      BY <1>2, <3>1
    <3>3. old \in PagesOf(key) /\ Load(key, old) # None /\ key \in StaleIfError /\ key \notin Upserted
      BY <1>1, <1>10, <2>2 DEF CopyOK, Hit
    <3>4. key \in Layers /\ Buildable(key, Load(key, old)) => HoldsRows(store[key], key, Load(key, old))
      BY <2>2, <3>3, LayersDisjoint DEF IInv, WroteWhatItKeeps
    <3> HIDE DEF old
    <3>5. key \in Layers /\ Buildable(key, Load(key, old)) => HoldsRows(store'[key], key, Load(key, old))
      BY <1>9, <2>2, <3>4
    <3> QED BY <1>1, <1>3, <1>9, <3>2, <3>3, <3>5, ReadKeeps
  <2>3. CASE Load(key, pages) = None /\ cache[key] = None
    <3>1. Outcome(key, pages) = [state |-> "lost", pages |-> pages]
      BY <2>3 DEF Outcome
    <3>2. got' = [got EXCEPT ![key] = [state |-> "lost", pages |-> pages]]
      BY <1>2, <3>1
    <3> QED BY <1>1, <1>3, <1>9, <3>2, ReadKeeps
  <2> QED BY <2>1, <2>2, <2>3
<1>12. QueryOK'
  BY <1>1, <1>3, <1>8, <1>11 DEF QueryOK, Reading
<1>13. DOMAIN cache' = Keys' /\ (\A k \in Keys : CopyOK(k))'
  <2>1. DOMAIN cache = Keys /\ Keys' = Keys /\ DOMAIN cache' = Keys
    BY <1>1, <1>2 DEF IInv, Keys
  <2>2. SUFFICES ASSUME NEW k \in Keys PROVE CopyOK(k)'
    BY <2>1
  <2>3. CopyOK(k)
    BY DEF IInv
  <2>4. CASE cache'[k] = cache[k] \/ cache'[k] = None
    BY <1>1, <2>3, <2>4 DEF CopyOK
  <2>5. CASE cache'[k] # cache[k] /\ cache'[k] # None
    <3>1. k = key /\ cache'[k] = Kept(key, pages) /\ Load(key, pages) # None
      BY <1>2, <2>1, <2>5 DEF Kept
    <3>2. cache'[k] = [pages |-> pages, age |-> "fresh", edition |-> spent.calls]
      BY <3>1 DEF Kept
    <3> QED BY <1>1, <1>3, <1>5, <3>1, <3>2 DEF CopyOK
  <2> QED BY <2>4, <2>5
<1>14. WroteWhatItKeeps'
  <2>1. SUFFICES ASSUME NEW k \in Keys \cap Replaced, cache'[k] # None,
                        Buildable(k, Load(k, cache'[k].pages))
                 PROVE  HoldsRows(store'[k], k, Load(k, cache'[k].pages))
    BY <1>1 DEF WroteWhatItKeeps, Keys
  <2>2. CASE k = key /\ Load(key, pages) # None
    <3>1. cache'[k].pages = pages
      BY <1>2, <2>2 DEF Kept
    <3>2. query.tool # "parking_by_district"
      BY <1>3, <1>4, <2>2, ReplacedIsNotOfDistricts
    <3>3. HoldsRows(store'[key], key, Load(key, pages))
      BY <1>9, <2>1, <2>2, <3>1, <3>2, LayersDisjoint
    <3> QED BY <2>2, <3>1, <3>3 DEF HoldsRows
  <2>3. CASE ~(k = key /\ Load(key, pages) # None)
    <3>1. cache'[k] = cache[k]
      BY <1>2, <2>1, <2>3 DEF Kept
    <3>2. HoldsRows(store[k], k, Load(k, cache[k].pages))
      BY <2>1, <3>1 DEF IInv, WroteWhatItKeeps
    <3>3. store'[k] = store[k]
      BY <1>9, <2>3, LayersDisjoint
    <3> QED BY <3>1, <3>2, <3>3
  <2> QED BY <2>2, <2>3
<1> QED BY <1>1, <1>3, <1>7, <1>9, <1>12, <1>13, <1>14 DEF IInv

\* All is read that was wanted, so the answer is right.
LEMMA ReplyKeeps == ASSUME IInv, Reply PROVE IInv'
<1>1. /\ query # None /\ Due = {} /\ answer' \in ToolAnswers
      /\ UNCHANGED <<suite, query, got, cache, store, spent>>
  BY DEF Reply, Busy
<1>2. Ready
  BY <1>1, Underway DEF Ready
<1>3. (answer # None => Right(answer))'
  <2>1. Right(answer')
    BY <1>1, <1>2, ToolAnswersAreRight
  <2> QED BY <1>1, <2>1 DEF Right, Whole, MissingIsTold, Accounted, OfOnePublication, Sources,
                            Readable, PageOf, Concerning, OfAnother
<1>4. (\A k \in Keys : CopyOK(k))' /\ DOMAIN cache' = Keys'
  BY <1>1, CopiesStay DEF IInv, Keys
<1>5. QueryOK'
  BY <1>1 DEF IInv, QueryOK, ReadOK, WroteWhatItRead, LookedUp
<1>6. WroteWhatItKeeps'
  BY <1>1, KeptStays DEF IInv
<1> QED BY <1>1, <1>3, <1>4, <1>5, <1>6 DEF IInv, SpentOK, StoreOK

\* Copies grow old or are dropped; only sources that may serve old ones keep them.
LEMMA TickKeeps == ASSUME IInv, Tick PROVE IInv'
<1>1. PICK aged \in {Keys, Keys \ LongLived} :
          cache' = [k \in Keys |-> IF k \in aged THEN Older(k) ELSE cache[k]]
  BY DEF Tick
<1>2. /\ UNCHANGED <<suite, query, got, store, answer>>
      /\ spent.ticks < suite.bounds.ticks /\ spent' = [spent EXCEPT !.ticks = @ + 1]
  BY DEF Tick
<1>3. suite \in Suites /\ suite.bounds["ticks"] \in Nat /\ spent["ticks"] \in Nat
  BY BoundsAreNat DEF IInv, SpentOK, Bounds
<1>4. SpentOK'
  <2>1. "ticks" \in Bounds /\ spent["ticks"] + 1 <= suite.bounds["ticks"]
    BY <1>2, <1>3 DEF Bounds
  <2>2. spent' = [spent EXCEPT !["ticks"] = @ + 1]
    BY <1>2
  <2> QED BY <1>2, <2>1, <2>2, SpentKept
<1>5. DOMAIN cache' = Keys' /\ (\A k \in Keys : CopyOK(k))'
  <2>1. Keys' = Keys /\ DOMAIN cache' = Keys
    BY <1>1, <1>2 DEF Keys
  <2>2. SUFFICES ASSUME NEW k \in Keys PROVE CopyOK(k)'
    BY <2>1
  <2>3. CopyOK(k)
    BY DEF IInv
  <2>4. cache'[k] \in {cache[k], Older(k)}
    BY <1>1
  <2>5. CASE cache'[k] = cache[k] \/ cache'[k] = None
    BY <1>2, <2>3, <2>5 DEF CopyOK
  <2>6. CASE cache'[k] # cache[k] /\ cache'[k] # None
    <3>1. /\ cache[k] # None /\ cache[k].age = "fresh" /\ k \in StaleIfError
          /\ cache'[k] = [cache[k] EXCEPT !.age = "old"]
      BY <2>4, <2>6 DEF Older
    <3>2. /\ cache'[k].pages = cache[k].pages /\ cache'[k].edition = cache[k].edition
          /\ cache'[k].age \in {"old", "fresh"}
      BY <3>1
    <3> QED BY <1>2, <2>3, <3>1, <3>2 DEF CopyOK
  <2> QED BY <2>5, <2>6
<1>6. spent'.calls = spent.calls
  BY <1>2 DEF IInv, SpentOK, Bounds
<1>7. QueryOK'
  BY <1>2, <1>6 DEF IInv, QueryOK, ReadOK, WroteWhatItRead, LookedUp
<1>8. (answer # None => Right(answer))'
  BY <1>2, AnswerStays DEF IInv, OfAnother
<1>9. WroteWhatItKeeps'
  <2>1. ASSUME NEW k \in Keys
        PROVE  /\ cache[k] # None /\ cache'[k] # None => cache'[k].pages = cache[k].pages
               /\ cache[k] = None => cache'[k] = None
    BY <1>1 DEF Older
  <2> QED BY <1>2, <2>1, KeptStays DEF IInv
<1> QED BY <1>2, <1>4, <1>5, <1>7, <1>8, <1>9 DEF IInv, StoreOK

\* Another worker replaces a layer whole or adds to it.
LEMMA OtherWorkerKeeps ==
    ASSUME IInv, NEW layer \in Keys \cap Layers, OtherWorker(layer)
    PROVE  IInv'
<1>1. PICK rows \in Mixes :
          /\ Features(rows, 0) # {}
          /\ store' = [store EXCEPT ![layer] = Write(layer, @, Features(rows, 0))]
  BY DEF OtherWorker
<1>2. /\ UNCHANGED <<suite, query, got, cache, answer>>
      /\ spent.writes < suite.bounds.writes /\ spent' = [spent EXCEPT !.writes = @ + 1]
  BY DEF OtherWorker
<1>3. suite \in Suites /\ suite.bounds["writes"] \in Nat /\ spent["writes"] \in Nat
  BY BoundsAreNat DEF IInv, SpentOK, Bounds
<1>4. SpentOK'
  <2>1. "writes" \in Bounds /\ spent["writes"] + 1 <= suite.bounds["writes"]
    BY <1>2, <1>3 DEF Bounds
  <2>2. spent' = [spent EXCEPT !["writes"] = @ + 1]
    BY <1>2
  <2> QED BY <1>2, <2>1, <2>2, SpentKept
<1>5. /\ StoreOK'
      /\ \A l \in Layers \ {layer} : store'[l] = store[l]
      /\ layer \in Upserted => \A f \in store[layer] : \E g \in store'[layer] : g.kind = f.kind
      /\ layer \in Replaced => OfAnother(layer)'
  <2>1. rows \in SUBSET Kinds
    BY MixesAreRows
  <2>2. StoreOK /\ suite.bounds.calls \in Nat /\ 0 \in 0..suite.bounds.calls
    BY DEF IInv, StoreOK
  <2>3. /\ StoreOK'
        /\ \A l \in Layers \ {layer} : store'[l] = store[l]
        /\ layer \in Upserted => \A f \in store[layer] : \E g \in store'[layer] : g.kind = f.kind
        /\ layer \in Replaced => store'[layer] = Features(rows, 0)
    BY <1>1, <1>2, <2>1, <2>2, LayerWritten
  <2>4. \A f \in Features(rows, 0) : f.edition = 0
    BY <2>1, <2>2, FeaturesAre
  <2> QED BY <1>1, <2>3, <2>4 DEF OfAnother
<1>10. ASSUME NEW l \in Layers, NEW of, HoldsRows(store[l], l, of) PROVE HoldsRows(store'[l], l, of)
  <2>1. CASE l # layer
    BY <1>5, <1>10, <2>1
  <2>2. CASE l = layer /\ l \in Replaced
    BY <1>5, <2>2 DEF HoldsRows, OfAnother
  <2>3. CASE l = layer /\ l \in Upserted
    <3>1. \A f \in Features(of, 0) : \E h \in store[l] : h.kind = f.kind
      BY <1>10, <2>3, LayersDisjoint DEF HoldsRows
    <3>2. \A f \in Features(of, 0) : \E g \in store'[l] : g.kind = f.kind
      BY <1>5, <2>3, <3>1
    <3> QED BY <3>2 DEF HoldsRows
  <2> QED BY <2>1, <2>2, <2>3, LayersDisjoint
<1>11. WroteWhatItKeeps'
  <2>1. SUFFICES ASSUME NEW k \in Keys \cap Replaced, cache[k] # None,
                        Buildable(k, Load(k, cache[k].pages))
                 PROVE  HoldsRows(store'[k], k, Load(k, cache[k].pages))
    BY <1>2 DEF WroteWhatItKeeps, Keys
  <2>2. HoldsRows(store[k], k, Load(k, cache[k].pages))
    BY <2>1 DEF IInv, WroteWhatItKeeps
  <2> QED BY <1>10, <2>2, LayersDisjoint
<1>6. (\A k \in Keys : CopyOK(k))' /\ DOMAIN cache' = Keys'
  BY <1>2, CopiesStay DEF IInv, Keys
<1>7. spent'.calls = spent.calls
  BY <1>2 DEF IInv, SpentOK, Bounds
<1>8. QueryOK'
  <2>1. SUFFICES ASSUME query # None PROVE QueryOK'
    BY <1>2 DEF QueryOK
  <2>2. WroteWhatItRead'
    <3>1. SUFFICES ASSUME NEW k \in query.keys \cap Layers,
                          query.tool # "parking_by_district", got[k].state \in {"fresh", "stale"},
                          Buildable(k, Rows(got, k))
                   PROVE  HoldsRows(store'[k], k, Rows(got, k))
      BY <1>2 DEF WroteWhatItRead
    <3>2. HoldsRows(store[k], k, Rows(got, k))
      BY <2>1, <3>1 DEF IInv, QueryOK, WroteWhatItRead
    <3> QED BY <1>10, <3>1, <3>2
  <2>3. (\A k \in query.keys : ReadOK(k))' /\ LookedUp'
    BY <1>2, <2>1 DEF IInv, QueryOK, ReadOK, LookedUp
  <2> QED BY <1>2, <1>7, <2>1, <2>2, <2>3 DEF IInv, QueryOK
<1>9. (answer # None => Right(answer))'
  <2>1. ASSUME NEW l \in Replaced, OfAnother(l) PROVE OfAnother(l)'
    BY <1>5, <2>1, LayersDisjoint DEF OfAnother
  <2> QED BY <1>2, <2>1, AnswerStays DEF IInv
<1> QED BY <1>2, <1>4, <1>5, <1>6, <1>8, <1>9, <1>11 DEF IInv

\* Nothing changes.
LEMMA StutterKeeps == ASSUME IInv, UNCHANGED vars PROVE IInv'
<1>1. UNCHANGED <<suite, query, got, cache, store, answer, spent>>
  BY DEF vars
<1>2. (answer # None => Right(answer))'
  BY <1>1, AnswerStays DEF IInv, OfAnother
<1>3. (\A k \in Keys : CopyOK(k))' /\ DOMAIN cache' = Keys'
  BY <1>1, CopiesStay DEF IInv, Keys
<1>4. QueryOK'
  BY <1>1 DEF IInv, QueryOK, ReadOK, WroteWhatItRead, LookedUp
<1>5. WroteWhatItKeeps'
  BY <1>1, KeptStays DEF IInv
<1> QED BY <1>1, <1>2, <1>3, <1>4, <1>5 DEF IInv, SpentOK, StoreOK

\* Every step keeps the invariant.
LEMMA NextInv == IInv /\ [Next]_vars => IInv'
<1> SUFFICES ASSUME IInv, [Next]_vars PROVE IInv'
  OBVIOUS
<1>1. CASE Ask
  BY <1>1, AskKeeps
<1>2. ASSUME NEW k \in Keys, ReadCached(k) PROVE IInv'
  BY <1>2, ReadCachedKeeps
<1>3. ASSUME NEW k \in Keys, ReadSource(k) PROVE IInv'
  BY <1>3, ReadSourceKeeps
<1>4. CASE Reply
  BY <1>4, ReplyKeeps
<1>5. CASE Tick
  BY <1>5, TickKeeps
<1>6. ASSUME NEW l \in Keys \cap Layers, OtherWorker(l) PROVE IInv'
  BY <1>6, OtherWorkerKeeps
<1>7. CASE UNCHANGED vars
  BY <1>7, StutterKeeps
<1> QED BY <1>1, <1>2, <1>3, <1>4, <1>5, <1>6, <1>7 DEF Next

-----------------------------------------------------------------------------
(* The properties of the tools, for every suite of queries, every mixture of rows on a  *)
(* page, every number of calls, odd pages, periods and writes of another worker.        *)

\* The invariant that all of them rest on: every copy the cache keeps was understood by
\* its connector, every key of the call under way was read, lost or not reached yet, the
\* store holds what the call wrote and one publication of each replaced layer, and the
\* answer that stands is right by what was read for it.
THEOREM Inductive == Spec => []IInv
<1>1. Init => IInv
  BY InitInv
<1>2. IInv /\ [Next]_vars => IInv'
  BY NextInv
<1> QED BY <1>1, <1>2, PTL DEF Spec

\* Copies are only kept of what a connector could read, a call only answers from what was
\* loaded or from such a copy, and nothing exceeds its bound (core/cache.py:113-230).
THEOREM TypeCorrect == Spec => []TypeOK
<1>1. IInv => TypeOK
  BY DEF IInv, SpentOK, StoreOK, CopyOK, QueryOK, ReadOK, TypeOK
<1> QED BY <1>1, Inductive, PTL

\* No answer of any of the tools calls itself fresh or stale unless it read every source
\* it is about, and lists every row of the page it read that the request is about or says
\* that some were cut; only the rows of a replaced layer that another worker wrote in
\* between may be others.  The page is a list or warned of, save the envelopes without a
\* list that the readers in Lenient accept and the first pages that those in Uncounted
\* take for the whole.
THEOREM AnswersAreWhole == Spec => []ListsAreWhole
<1>1. IInv => ListsAreWhole
  BY DEF IInv, Right, ListsAreWhole, Answered
<1> QED BY <1>1, Inductive, PTL

\* What a call could not read, or could only read from an old copy, is warned of and
\* never passed off as fresh, and no row comes from a source that was not read.
THEOREM LossIsTold == Spec => []WhatIsMissingIsTold
<1>1. IInv => WhatIsMissingIsTold
  BY DEF IInv, Right, WhatIsMissingIsTold, Answered
<1> QED BY <1>1, Inductive, PTL

\* The rows an answer counts as accepted and those it counts as left out add up to the
\* rows of the page they were read from.
THEOREM CountsAddUp == Spec => []RowsAccounted
<1>1. IInv => RowsAccounted
  BY DEF IInv, Right, RowsAccounted, Answered
<1> QED BY <1>1, Inductive, PTL

\* The rows an answer gives of a published layer are of one publication, whichever of the
\* workers wrote it last and whatever became of their loads.
THEOREM OnePublication == Spec => []PublicationsDoNotMix
<1>1. IInv => PublicationsDoNotMix
  BY DEF IInv, Right, PublicationsDoNotMix
<1> QED BY <1>1, Inductive, PTL
=============================================================================
