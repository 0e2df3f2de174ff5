----------------------------- MODULE CityTools -----------------------------
(***************************************************************************)
(* The tools over the city's layers (services/city.py) and the database of *)
(* features they search (storage/geo.py), which the workers share.  A      *)
(* layer is written from a worker's own cached copy right before it is     *)
(* searched; most layers are only added to, the published ones replaced.   *)
(* The layer ev_charging stands for taxi_stand and market too.             *)
(***************************************************************************)
EXTENDS SourcePages

Upserted == {"parking", "metro_station", "air_quality_station", "wifi"}
ReplacedAtSearch == {"ev_charging"}
ReplacedAtLoad == {"public_transport_stop"}
Replaced == ReplacedAtSearch \cup ReplacedAtLoad
Layers == Upserted \cup Replaced

About(keys, what) == [about : keys, what : {what}]

-----------------------------------------------------------------------------
(* The store: the features of each layer, with the copy they were written from *)

\* The builders of features: a row needs its coordinates, twins share an identifier.
Features(rows, edition) ==
    {[kind |-> IF kind = "twin" THEN "good" ELSE kind, edition |-> edition] :
        kind \in rows \ {"loose", "blank", "torn"}}

\* One bad number stops the features of an upserted layer from being built.
Buildable(layer, rows) ==
    IF layer \in Upserted THEN "torn" \notin rows ELSE Features(rows, 0) # {}

Upsert(old, new) == new \cup {f \in old : \A g \in new : g.kind # f.kind}

\* A replacement that forgets to delete first.
ReplaceWithoutDelete(old, new) == Upsert(old, new)

Replace(old, new) == new

Write(layer, old, new) == IF layer \in Replaced THEN Replace(old, new) ELSE Upsert(old, new)

\* The features in the circle or the box.
Nearby(store, layers) ==
    UNION {{[from |-> l, kind |-> f.kind, edition |-> f.edition] :
                f \in {g \in store[l] : g.kind # "else"}} : l \in layers}

\* One row more than the limit is searched for: that there are more is known, how many
\* is not.
Found(rows, limit, freshness, warnings) ==
    {[Success(shown, None, freshness, warnings) EXCEPT
        !.info.truncated = Cardinality(rows) > limit] : shown \in Cut(rows, limit)}

-----------------------------------------------------------------------------
(* Searches of one layer: features are built after the errors were caught *)

Unusable(got, key) ==
    got[key].state = "lost" \/ (key \in Layers /\ ~Buildable(key, Rows(got, key)))

OneLayer(layer, query, got, store, freshness, warnings) ==
    IF got[layer].state = "lost" THEN {SourceError(About({layer}, "unavailable"))}
    ELSE IF ~Buildable(layer, Rows(got, layer)) THEN {Raised}
    ELSE Found(Nearby(store, {layer}), query.limit, freshness, warnings)

\* The stations of the air are listed with their last readings, each read on its own.
ReadingWarnings(got) ==
    IF got["readings"].state = "lost" THEN About({"readings"}, "unavailable")
    ELSE IF got["readings"].state # "unread" /\ "good" \notin Rows(got, "readings")
    THEN About({"readings"}, "no_value") ELSE {}

AirQualityNearby(query, got, store) ==
    IF "torn" \in Rows(got, "readings") THEN {Raised}
    ELSE OneLayer("air_quality_station", query, got, store, "unknown", ReadingWarnings(got))

ParkingByDistrict(query, got) ==
    LET rows == {row \in Records(got, {"parking"}) : row.kind # "else"}
    IN  IF got["parking"].state = "lost" THEN {SourceError(About({"parking"}, "unavailable"))}
        ELSE Listed(rows, query.limit, "fresh", {})

\* The latest record, or one that says that there is none.
LatestIndex(got) == Row("traffic", IF Rows(got, "traffic") = {} THEN "blank" ELSE "good")

TrafficStatus(got) ==
    IF got["traffic"].state = "lost" THEN SourceError(About({"traffic"}, "unavailable"))
    ELSE Success({LatestIndex(got)}, None, "fresh",
                 IF Rows(got, "traffic") = {} THEN About({"traffic"}, "no_value") ELSE {})

-----------------------------------------------------------------------------
(* Searches of several layers *)

\* _refresh_requested: a layer that cannot be refreshed is left out of the search.
Failed(query, got) == {k \in query.keys : Unusable(got, k)}

RefreshWarnings(query, got) ==
    About(Failed(query, got), "unavailable")
    \cup About(In(got, query.keys, "stale"), "stale")
    \cup (IF "public_transport_stop" \in query.keys /\ "loose" \in Rows(got, "public_transport_stop")
          THEN About({"public_transport_stop"}, "skipped") ELSE {})

RefreshStatus(query, got) ==
    IF Failed(query, got) # {} THEN "unknown"
    ELSE IF In(got, query.keys, "stale") # {} THEN "stale" ELSE "fresh"

\* nearby and bbox_search
CityFeatures(query, got, store) ==
    LET left == query.keys \ Failed(query, got)
    IN  IF left = {} THEN {SourceError(RefreshWarnings(query, got))}
        ELSE Found(Nearby(store, left), query.limit, RefreshStatus(query, got),
                   RefreshWarnings(query, got))

-----------------------------------------------------------------------------
(* Summaries of several sections, each with its own limit *)

Sections == {"parking", "metro_station", "public_transport_stop", "air_quality_station"}

\* A number that does not parse leaves these two as an exception, in a summary too.
SectionRaises(got) ==
    \E k \in {"parking", "metro_station"} : "torn" \in Rows(got, k)

\* A summary lists of each section what fits, and tells which of them were cut.
Summed(parts, limit, freshness, warnings) ==
    {[Success(shown, None, freshness, warnings) EXCEPT
        !.info.truncated = \E p \in parts : Cardinality(p) > limit] :
            shown \in {s \in SUBSET UNION parts : \A p \in parts : s \cap p \in Cut(p, limit)}}

MobilityNearby(query, got, store) ==
    LET lost == Failed(query, got)
        listed == {Nearby(store, {k}) : k \in Sections \ lost}
        index == IF "traffic" \in lost THEN {} ELSE {LatestIndex(got)}
        freshness == IF lost # {} THEN "unknown"
                     ELSE IF In(got, query.keys, "stale") # {} THEN "stale" ELSE "fresh"
    IN  IF SectionRaises(got) THEN {Raised}
        ELSE Summed(listed \cup {index}, query.limit, freshness, RefreshWarnings(query, got))

\* libraries and cultural centres are listed by district, WiFi around a place; which
\* are asked for depends on what the place is known by.
CityServicesNearby(query, got, store) ==
    LET lost == Failed(query, got)
        ofDistrict(k) == {row \in Records(got, {k}) : row.kind \notin {"else", "blank"}}
        parts == {IF k = "wifi" THEN Nearby(store, {k}) ELSE ofDistrict(k) : k \in query.keys \ lost}
        warnings == About(lost, "unavailable") \cup
            (IF "cultural_centre" \in query.keys /\ "blank" \in Rows(got, "cultural_centre")
             THEN About({"cultural_centre"}, "skipped") ELSE {})
    IN  IF lost = query.keys THEN {SourceError(warnings)}
        ELSE Summed(parts, query.limit, IF lost # {} THEN "unknown" ELSE "fresh", warnings)

-----------------------------------------------------------------------------
CityAnswers(query, got, store) ==
    CASE query.tool = "parking_nearby" -> OneLayer("parking", query, got, store, "fresh", {})
      [] query.tool = "metro_nearby" -> OneLayer("metro_station", query, got, store, "fresh", {})
      [] query.tool = "air_quality" -> AirQualityNearby(query, got, store)
      [] query.tool = "parking_by_district" -> ParkingByDistrict(query, got)
      [] query.tool = "traffic" -> {TrafficStatus(got)}
      [] query.tool = "city_features" -> CityFeatures(query, got, store)
      [] query.tool = "mobility" -> MobilityNearby(query, got, store)
      [] query.tool = "city_services" -> CityServicesNearby(query, got, store)

=============================================================================
