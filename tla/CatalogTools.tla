---------------------------- MODULE CatalogTools ----------------------------
(***************************************************************************)
(* The tools over tables of the open data portal: the profile of a         *)
(* district's neighbourhoods joined from three tables, the weekly markets, *)
(* and the portal's own catalogue and tables.  Nothing is served stale.    *)
(***************************************************************************)
EXTENDS SourcePages

AboutTables(keys, what) == [about : keys, what : {what}]

-----------------------------------------------------------------------------
(* services/neighborhood.py: "good", "also", "else" and "loose" are neighbourhoods, found *)
(* in each table whatever the spelling of their names                                     *)

SourceKeys == {"social_assistance", "building_stock", "earthquake_scenario"}

\* _index_rows: a second row of a table for the same neighbourhood takes its place.
IndexRows(got, keys) == {row \in Records(got, keys) : row.kind \notin {"blank", "twin"}}

EmptySources(got) == {k \in SourceKeys : Rows(got, k) = {}}
NotCovering(got, kind) == {k \in SourceKeys : kind \notin Rows(got, k)} \ EmptySources(got)

\* _single_profile: the tables that have the neighbourhood, and a warning of each other.
SingleProfile(got, rows) ==
    LET profile == {row \in rows : row.kind = "good"}
    IN  IF profile = {} THEN ValidationError
        ELSE Success(profile, None, "fresh",
                     AboutTables(EmptySources(got), "empty")
                     \cup AboutTables(NotCovering(got, "good"), "unmatched"))

\* _district_list: neighbourhoods are counted and cut, not the rows of the tables.
DistrictList(query, got, rows) ==
    LET names == {row.kind : row \in rows}
    IN  {[Success({row \in rows : row.kind \in shown}, None, "fresh",
                  AboutTables(EmptySources(got), "empty"))
          EXCEPT !.info = ResultInfo(Cardinality(shown), Cardinality(names))] :
            shown \in Cut(names, query.limit)}

\* profile: one table that fails is the end of all three; rows are joined after that.
Profile(query, got) ==
    LET rows == IndexRows(got, SourceKeys)
        lost == In(got, SourceKeys, "lost")
    IN  IF lost # {} THEN {SourceError(AboutTables(lost, "unavailable"))}
        ELSE IF \E row \in rows : row.kind = "torn" THEN {Raised}
        ELSE IF rows = {} THEN {ValidationError}
        ELSE IF "name" \in query.filters THEN {SingleProfile(got, rows)}
        ELSE DistrictList(query, got, rows)

-----------------------------------------------------------------------------
(* services/markets.py *)

Skipped(got) == Rows(got, "market") \cap {"loose", "blank"}

MarketSchedule(query, got) ==
    LET rows == {row \in Records(got, {"market"}) : row.kind \notin {"loose", "blank"}}
        wanted == {row \in rows : "day" \in query.filters => row.kind # "else"}
        counts == [of |-> "market", accepted |-> Cardinality(rows), left |-> Cardinality(Skipped(got))]
        warnings == IF Skipped(got) = {} THEN {} ELSE AboutTables({"market"}, "skipped")
    IN  IF got["market"].state = "lost" THEN {SourceError(AboutTables({"market"}, "unavailable"))}
        ELSE {[answer EXCEPT !.counts = {counts}] :
                  answer \in Listed(wanted, query.limit, "fresh", warnings)}

-----------------------------------------------------------------------------
(* services/catalog.py *)

NotThere(got, key) == got[key].pages[1].form = "absent"

PortalFailure(key, got) ==
    IF NotThere(got, key) /\ key # "datasets" THEN Failure("not_found", "unknown", {})
    ELSE IF HeldBack(got, key)
    THEN Failure("source_rate_limited", "stale", AboutTables({key}, "rate_limited"))
    ELSE SourceError(AboutTables({key}, "unavailable"))

\* The portal cuts its answer itself, and says of how many; an answer without a list says
\* nothing of its completeness.
Counted(got, key, limit) ==
    IF got[key].pages[1].form = "bare" THEN {Success({}, None, "fresh", {})}
    ELSE Listed(Records(got, {key}), limit, "fresh", {})

\* What was found is stored after the errors were caught; a dataset needs a name for that.
SearchDatasets(query, got) ==
    IF got["datasets"].state = "lost" THEN {PortalFailure("datasets", got)}
    ELSE IF "torn" \in Rows(got, "datasets") THEN {Raised}
    ELSE Counted(got, "datasets", query.limit)

\* One dataset, stored before it is answered; a table's fields, whichever they are.
GetDataset(got) ==
    IF got["dataset"].state = "lost" THEN {PortalFailure("dataset", got)}
    ELSE IF Rows(got, "dataset") # {"good"} THEN {Raised}
    ELSE {Success(Records(got, {"dataset"}), None, "fresh", {})}

GetResourceSchema(got) ==
    IF got["schema"].state = "lost" THEN {PortalFailure("schema", got)}
    ELSE {Success(Records(got, {"schema"}), None, "fresh", {})}

\* The fields of a table, as filters are checked against them.
UnknownField(got) == Rows(got, "schema") # {} /\ "good" \notin Rows(got, "schema")

QueryResource(query, got) ==
    IF "schema" \in query.keys /\ got["schema"].state = "lost" THEN {PortalFailure("schema", got)}
    ELSE IF "schema" \in query.keys /\ UnknownField(got) THEN {ValidationError}
    ELSE IF got["records"].state = "lost" THEN {PortalFailure("records", got)}
    ELSE Counted(got, "records", query.limit)

-----------------------------------------------------------------------------
CatalogAnswers(query, got) ==
    CASE query.tool = "neighbourhood" -> Profile(query, got)
      [] query.tool = "markets" -> MarketSchedule(query, got)
      [] query.tool = "search_datasets" -> SearchDatasets(query, got)
      [] query.tool = "get_dataset" -> GetDataset(got)
      [] query.tool = "get_resource_schema" -> GetResourceSchema(got)
      [] query.tool = "query_resource" -> QueryResource(query, got)

=============================================================================
