---------------------------- MODULE SourcePages ----------------------------
(***************************************************************************)
(* What the connectors make of what a source sends.  A page is "listed"    *)
(* with some rows, says in so many words that there are "none", is "bare"  *)
(* (the envelope without a list), "cut" (the first rows of more),          *)
(* "unknown" (something else altogether), or no page: the source is        *)
(* "down", has "refused", says the page is "absent", was "late", or the    *)
(* call was held back here ("limited").  Rows are told apart by what the   *)
(* code does with them:                                                    *)
(*                                                                         *)
(*   good, also   complete, and concerns the request                       *)
(*   twin         says what good says                                      *)
(*   else         complete, of another line, district or place             *)
(*   loose        complete but for its line, mode, direction or place      *)
(*   quiet        says that nothing is wrong, or is withdrawn              *)
(*   blank        lacks what it is about                                   *)
(*   torn         not a row, or with a field that does not parse           *)
(*                                                                         *)
(* A connector returns the rows it keeps, or None where it raises.         *)
(***************************************************************************)
EXTENDS Envelope

CONSTANT Token  \* whether the official API of Marmaray is configured

Kinds == {"good", "also", "twin", "else", "loose", "quiet", "blank", "torn"}
NoPage == {"down", "refused", "absent", "late", "limited"}
Lists == {"listed", "none"}
LooseLists == Lists \cup {"bare"}

\* A reader that takes any page it does not know for an empty one.
ListOfAnything(page, forms, fatal, dropped) ==
    IF page.form \notin NoPage /\ page.rows \cap fatal = {} THEN page.rows \ dropped ELSE None

\* The rows of a page of one of these forms, less those it drops; one fatal row
\* makes the page useless.
ListOf(page, forms, fatal, dropped) ==
    IF page.form \in forms /\ page.rows \cap fatal = {} THEN page.rows \ dropped ELSE None

Some(rows) == IF rows = {} THEN None ELSE rows

-----------------------------------------------------------------------------
(* Metro Istanbul *)

\* An inactive line, or one without a message, is dropped; an answer without Data is
\* read as an empty one.
ServiceStatuses(page) == ListOf(page, LooseLists, {"torn"}, {"blank"})
Announcements(page) == ListOf(page, Lists, {"torn"}, {"blank"})
Stations(page) == ListOf(page, LooseLists, {}, {})

\* A category needs a name and two counts.
EquipmentSummary(page) == ListOf(page, Lists, {"torn", "blank"}, {})

\* A row with a fault number and no usable cells is counted, unless there are no others.
EquipmentFaults(page) ==
    IF page.rows = {"torn"} THEN None ELSE ListOf(page, Lists, {}, {"torn"})
MalformedFaults(page) == Cardinality(page.rows \cap {"torn"})

-----------------------------------------------------------------------------
(* IETT: SOAP with JSON inside, an empty text read as an empty list *)

ParseJsonRows(page) == ListOf(page, LooseLists, {"torn"}, {})
StopsForLine(page) == ListOf(page, LooseLists, {}, {})

-----------------------------------------------------------------------------
(* Sehir Hatlari and Marmaray: notices, timetables *)

\* The first candidate (relay, page, its other hosts) that answers; what it says is not
\* checked by asking another.
FirstAnswer(pages) ==
    LET answering == {i \in DOMAIN pages : pages[i].form \notin NoPage}
    IN  IF answering = {} THEN pages[1]
        ELSE pages[CHOOSE i \in answering : \A j \in answering : i <= j]

\* _CancellationParser and _UrgentNoticeParser: an article needs its message.  A page
\* without articles needs to say that there are none.
NoticePage(page) == ListOf(page, Lists, {"blank"}, {})
Cancellations(pages) == NoticePage(FirstAnswer(pages))

\* The links of the index that lead to a timetable of the operator, each once.
ScheduleCatalog(pages) ==
    Some(ListOf(FirstAnswer(pages), {"listed"}, {}, {"loose", "blank", "twin"}))

\* The tables with a stop and times; their direction is told by the title of the page.
ScheduleForRoute(pages) == Some(ListOf(FirstAnswer(pages), {"listed"}, {}, {"blank"}))

NoticeApi(page) == ListOf(page, Lists, {"torn", "blank"}, {"quiet"})

\* The page, or the API where the page is gone, down or unreadable and a token is there.
UrgentNotices(pages) ==
    IF NoticePage(pages[1]) # None THEN NoticePage(pages[1])
    ELSE IF Token /\ pages[1].form # "refused" THEN NoticeApi(pages[2])
    ELSE None

-----------------------------------------------------------------------------
(* Pharmacies on duty and Istanbulkart centres *)

\* An invalid row and a second one of the same identity are left out and counted.
LoadRoster(page) ==
    LET rows == ListOf(page, Lists, {"torn"}, {})
    IN  IF rows \in {None, {}} THEN rows ELSE Some(rows \ {"blank", "twin"})

LoadCentres(page) == ListOf(page, Lists, {"torn"}, {"blank", "twin"})

-----------------------------------------------------------------------------
(* Social facilities: the operator's catalogue, the file that fills its gaps, and the    *)
(* page of reservations, which adds nothing but may be held back.  In the catalogue      *)
(* "loose" lacks its coordinates, "blank" has no page that can be read, and "torn" has   *)
(* the identity of "good" and another place.                                             *)

Catalogued(pages) == IF pages[1].form \in NoPage THEN {} ELSE pages[1].rows \ {"blank", "twin"}

FileNeeded(pages) == Catalogued(pages) = {} \/ "loose" \in Catalogued(pages)

FileRows(pages) ==
    IF FileNeeded(pages) /\ pages[2].form \in Lists
    THEN pages[2].rows \ {"blank", "torn", "twin"} ELSE {}

\* A catalogue that is held back counts as one that is down; the others end the load.
FacilitiesHeldBack(pages) ==
    \/ pages[1].form \notin NoPage /\ pages[3].form = "limited"
    \/ FileNeeded(pages) /\ pages[2].form = "limited"

\* merge_rows: what the file adds, what it completes, and what has an identity already.
MergeRows(pages) ==
    LET live == Catalogued(pages)
        file == FileRows(pages)
        incomplete == IF "loose" \in file THEN {} ELSE {"loose"}
        conflicts == IF "good" \in live THEN {"torn"} ELSE {}
    IN  (live \ (incomplete \cup conflicts)) \cup (file \ live)

LoadFacilities(pages) ==
    IF FacilitiesHeldBack(pages) THEN None
    ELSE IF pages[1].form \in NoPage /\ FileRows(pages) = {} THEN None
    ELSE MergeRows(pages)

\* What the warnings of a load tell of: a page or a row that was not read, a gap the file
\* could not fill, and a row that contradicts another.
FacilitiesTold(pages) ==
    {what \in {"partial", "file", "fallback_only", "invalid", "conflict", "duplicate"} :
        CASE what = "partial" -> pages[1].form \in NoPage \cup {"cut"} \/ "blank" \in pages[1].rows
          [] what = "file" -> FileNeeded(pages) /\ pages[2].form \notin Lists
          [] what = "fallback_only" -> Catalogued(pages) = {} /\ FileRows(pages) # {}
          [] what = "invalid" -> "loose" \in Catalogued(pages) \ MergeRows(pages)
          [] what = "conflict" -> {"good", "torn"} \subseteq Catalogued(pages)
          [] what = "duplicate" ->
                \E i \in 1..2 : "twin" \in pages[i].rows /\ (i = 2 => Catalogued(pages) = {})}

-----------------------------------------------------------------------------
(* City layers *)

Parks(page) == ListOf(page, Lists, {}, {})

\* Any JSON will do for the stations of the air and their readings: what is no list
\* fails when it is used.
AirJson(page) == IF page.form = "unknown" THEN {"torn"} ELSE ListOf(page, LooseLists, {}, {})

\* The tools only look at its first record.
TrafficHistory(page) == ListOf(page, Lists, {}, {})

\* One page of a table, of a fixed size; whether it is "cut" is not asked.
CkanRecords(page) == ListOf(page, LooseLists \cup {"cut"}, {}, {})

\* A table of stops is published with every row numbered and one of them usable.
GtfsStops(page) ==
    LET rows == ListOf(page, {"listed"}, {"torn", "blank", "twin"}, {})
    IN  IF rows = {"loose"} THEN None ELSE rows

OpenDataLayer(page) == ListOf(page, {"listed"}, {"torn"}, {})

-----------------------------------------------------------------------------
\* The loader behind each cache key, of a page that the call was not held back from.
LoadPage(key, pages) ==
    CASE key \in {"iett", "notices", "line_info", "departures"} -> ParseJsonRows(pages[1])
      [] key = "stops" -> StopsForLine(pages[1])
      [] key = "metro_istanbul" -> ServiceStatuses(pages[1])
      [] key = "metro_notices" -> Announcements(pages[1])
      [] key = "sehir_hatlari" -> Cancellations(pages)
      [] key = "marmaray" -> UrgentNotices(pages)
      [] key = "summary" -> EquipmentSummary(pages[1])
      [] key = "details" -> EquipmentFaults(pages[1])
      [] key = "catalog" -> ScheduleCatalog(pages)
      [] key = "timetable" -> ScheduleForRoute(pages)
      [] key = "pharmacies" -> LoadRoster(pages[1])
      [] key = "istanbulkart" -> LoadCentres(pages[1])
      [] key = "parking" -> Parks(pages[1])
      [] key = "metro_station" -> Stations(pages[1])
      [] key \in {"air_quality_station", "readings"} -> AirJson(pages[1])
      [] key = "traffic" -> TrafficHistory(pages[1])
      [] key \in {"wifi", "library", "social_assistance", "building_stock",
                  "earthquake_scenario", "datasets", "dataset", "schema", "records"} -> CkanRecords(pages[1])
      [] key = "public_transport_stop" -> GtfsStops(pages[1])
      [] key \in {"ev_charging", "cultural_centre", "market"} -> OpenDataLayer(pages[1])

Load(key, pages) ==
    IF key = "facilities" THEN LoadFacilities(pages)
    ELSE IF pages[1].form = "limited" THEN None
    ELSE LoadPage(key, pages)

\* The rows that may occur on the pages of a key.
KindsOf(key) ==
    CASE key \in {"sehir_hatlari"} -> Kinds \ {"quiet", "torn"}
      [] key \in {"catalog"} -> Kinds \ {"also", "quiet", "torn"}
      [] key = "timetable" -> Kinds \ {"else", "quiet", "torn"}
      [] key \in {"metro_istanbul", "marmaray"} -> Kinds
      [] key \in {"summary", "line_info", "datasets"} -> {"good", "also", "torn"}
      [] key = "stops" -> {"good", "also", "loose", "torn"}
      [] key = "traffic" -> {"good"}
      [] key = "dataset" -> {"good", "torn"}
      [] key \in {"schema", "records"} -> {"good", "also", "else"}
      [] key = "readings" -> {"good", "blank"}
      [] key \in {"departures", "istanbulkart"} -> Kinds \ {"loose", "quiet"}
      [] key \in {"parking", "metro_station", "air_quality_station", "ev_charging"} ->
            Kinds \ {"quiet", "blank"}
      [] key \in {"wifi", "library"} -> Kinds \ {"quiet", "blank", "torn"}
      [] OTHER -> Kinds \ {"quiet"}

-----------------------------------------------------------------------------
(* What a call has read: for each key "fresh" or "stale" with the pages it was loaded   *)
(* from, "lost", or "unread".                                                           *)

In(got, keys, state) == {k \in keys : got[k].state = state}
Served(got, keys) == {k \in keys : got[k].state \in {"fresh", "stale"}}
Rows(got, key) == IF key \in Served(got, {key}) THEN Load(key, got[key].pages) ELSE {}
Row(key, kind) == [from |-> key, kind |-> kind, edition |-> 0]
Records(got, keys) == UNION {{Row(k, r) : r \in Rows(got, k)} : k \in keys}
HeldBack(got, key) == got[key].pages[1].form = "limited"

=============================================================================
