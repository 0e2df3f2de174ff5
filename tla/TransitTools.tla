---------------------------- MODULE TransitTools ----------------------------
(***************************************************************************)
(* The tools about lines and stations, as functions from what a call has   *)
(* read to its possible answers: transport disruptions over five sources,  *)
(* the accessibility of the metro, ferry timetables, and the four tools    *)
(* that read IETT.  A query carries its keys and its filters.              *)
(***************************************************************************)
EXTENDS SourcePages

Told(keys, what) == {[about |-> k, what |-> what] : k \in keys}

-----------------------------------------------------------------------------
(* services/disruptions.py *)

\* _normalize_rows: a row of IETT without a message is left out.
Normalized(rows) == {row \in rows : row.kind # "blank"}

\* A mode is only unknown on a line of Metro Istanbul that cannot be told.
OfMode(row) == ~(row.kind = "loose" /\ row.from \in {"metro_istanbul", "metro_notices"})
OfLine(row) == row.kind \notin {"else", "loose"}

FilterAndSort(query, rows) ==
    {row \in rows :
        /\ row.kind \notin {"quiet", "twin"}
        /\ "mode" \in query.filters => OfMode(row)
        /\ "line" \in query.filters => OfLine(row)}

\* Rows from one source taken for an answer of them all.
DisruptionFreshnessOfRows(lost, stale, rows) ==
    IF lost # {} /\ rows = {} THEN "unknown" ELSE IF stale # {} THEN "stale" ELSE "fresh"

DisruptionFreshness(lost, stale, rows) ==
    IF lost # {} THEN "unknown" ELSE IF stale # {} THEN "stale" ELSE "fresh"

Disruptions(query, got) ==
    LET lost == In(got, query.keys, "lost")
        stale == In(got, query.keys, "stale")
        rows == FilterAndSort(query, Normalized(Records(got, query.keys)))
        warnings == Told(lost, "unavailable") \cup Told(stale, "stale")
    IN  IF lost = query.keys THEN {Failure("source_unavailable", "broken", warnings)}
        ELSE Listed(rows, query.limit, DisruptionFreshness(lost, stale, rows), warnings)

-----------------------------------------------------------------------------
(* services/metro_accessibility.py *)

\* Counts that leave out the rows the page parser could not read.
DetailCountsOfRaw(got) ==
    LET raw == Rows(got, "details")
    IN  [of |-> "details", accepted |-> Cardinality(raw \ {"blank", "twin"}),
         left |-> Cardinality(raw \cap {"blank", "twin"})]

\* _accepted_fault_rows: skipped, the malformed ones too, and duplicate rows.
DetailCounts(got) ==
    LET raw == Rows(got, "details")
    IN  [of |-> "details", accepted |-> Cardinality(raw \ {"blank", "twin"}),
         left |-> Cardinality(raw \cap {"blank", "twin"}) + MalformedFaults(got["details"].pages[1])]

FilterFaults(query, got) ==
    {row \in Records(got, {"details"}) :
        /\ row.kind \notin {"blank", "twin"}
        /\ "line" \in query.filters => OfLine(row)}

\* The categories' counts and the fault list are compared, where both were read.
Discrepancy(got) == Cardinality(Rows(got, "summary")) # DetailCounts(got).accepted

AccessibilityWarnings(got) ==
    LET both == {"summary", "details"}
        lost == In(got, both, "lost")
    IN  Told(lost, "partial_source") \cup Told(In(got, both, "stale"), "stale")
        \cup (IF "details" \notin lost /\ MalformedFaults(got["details"].pages[1]) > 0
              THEN Told({"details"}, "schema_drift") ELSE {})
        \cup (IF lost = {} /\ Discrepancy(got) THEN Told({"details"}, "totals_differ") ELSE {})

\* status: both sources are read at once and either answers without the other.
AccessibilityStatus(query, got) ==
    LET both == {"summary", "details"}
        lost == In(got, both, "lost")
        faults == FilterFaults(query, got)
        freshness == IF lost # {} THEN "unknown"
                     ELSE IF In(got, both, "stale") # {} THEN "stale" ELSE "fresh"
        matched == IF "details" \in lost THEN None ELSE Cardinality(faults)
        answer(shown) ==
            [Success(shown \cup Records(got, {"summary"}), None, freshness, AccessibilityWarnings(got))
             EXCEPT !.info = ResultInfo(Cardinality(shown), matched),
                    !.counts = IF "details" \in lost THEN {} ELSE {DetailCounts(got)}]
    IN  IF lost = both THEN {SourceError(Told(both, "unavailable"))}
        ELSE {answer(shown) : shown \in Cut(faults, query.limit)}

-----------------------------------------------------------------------------
(* services/ferry.py *)

\* The timetable is only looked up for a route that the index lists.
RouteListed(got) == "good" \in Rows(got, "catalog")

\* _stable_rows runs after the errors were caught: a departure without a direction leaves
\* the tool as an exception.
Schedules(query, got) ==
    LET rows == {row \in Records(got, {"timetable"}) : row.kind # "twin"}
    IN  IF got["catalog"].state = "lost" THEN {SourceError(Told({"catalog"}, "unavailable"))}
        ELSE IF ~RouteListed(got) THEN {Success({}, None, "fresh", {})}
        ELSE IF got["timetable"].state = "lost"
             THEN {Failure("source_unavailable", "unknown", Told({"timetable"}, "unavailable"))}
        ELSE IF \E row \in rows : row.kind = "loose" THEN {Raised}
        ELSE Listed(rows, query.limit, "fresh", {})

-----------------------------------------------------------------------------
(* services/transit.py: one key each, nothing stale *)

IettFailure(key, got) ==
    IF HeldBack(got, key)
    THEN Failure("source_rate_limited", "stale", Told({key}, "rate_limited"))
    ELSE SourceError(Told({key}, "unavailable"))

LineInfo(got) ==
    IF got["line_info"].state = "lost" THEN IettFailure("line_info", got)
    ELSE LET rows == Records(got, {"line_info"})
         IN  Success(rows, None, "fresh", IF rows = {} THEN Told({"line_info"}, "not_found") ELSE {})

\* Numbers are parsed after the errors were caught.
StopsOfLine(got) ==
    IF got["stops"].state = "lost" THEN IettFailure("stops", got)
    ELSE IF "torn" \in Rows(got, "stops") THEN Raised
    ELSE Success(Records(got, {"stops"}), None, "fresh", {})

LineNotices(query, got) ==
    LET rows == {row \in Records(got, {"notices"}) :
                    /\ row.kind \notin {"blank", "twin"}
                    /\ "line" \in query.filters => OfLine(row)}
    IN  IF got["notices"].state = "lost" THEN {IettFailure("notices", got)}
        ELSE Listed(rows, query.limit, "fresh", {})

\* Only a row of the line asked for needs its time.
PlannedDepartures(query, got) ==
    LET rows == {row \in Records(got, {"departures"}) : row.kind \notin {"else", "twin"}}
    IN  IF got["departures"].state = "lost" THEN {IettFailure("departures", got)}
        ELSE IF \E row \in rows : row.kind = "blank"
             THEN {SourceError(Told({"departures"}, "unavailable"))}
        ELSE Listed(rows, query.limit, "fresh", {})

-----------------------------------------------------------------------------
TransitAnswers(query, got) ==
    CASE query.tool = "disruptions" -> Disruptions(query, got)
      [] query.tool = "elevators" -> AccessibilityStatus(query, got)
      [] query.tool = "ferries" -> Schedules(query, got)
      [] query.tool = "line_info" -> {LineInfo(got)}
      [] query.tool = "stops" -> {StopsOfLine(got)}
      [] query.tool = "line_notices" -> LineNotices(query, got)
      [] query.tool = "departures" -> PlannedDepartures(query, got)

=============================================================================
