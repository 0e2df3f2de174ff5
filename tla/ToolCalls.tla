----------------------------- MODULE ToolCalls -----------------------------
(***************************************************************************)
(* Calls of the tools that read sources: each call reads its keys through  *)
(* the source cache, at once or one after the other, writes the layers it  *)
(* is going to search, and answers from what it got.  Between its steps    *)
(* entries grow old, and another worker writes the database they share.    *)
(***************************************************************************)
EXTENDS TransitTools, RosterTools, CityTools, CatalogTools

CONSTANTS Suites,        \* what a behaviour may be made of: the queries, and its bounds
          Mixes,         \* the sets of rows a page may list
          LongLived      \* the keys that may outlive a period

\* The bounds of a behaviour: calls, unusual pages, periods, writes of another worker.
Bounds == {"calls", "odd", "ticks", "writes"}

\* What the tools read: each its source or sources, disruptions those of the operators it
\* is asked about, a search of places the layers it is asked for.
Operators == {"iett", "metro_istanbul", "metro_notices", "sehir_hatlari", "marmaray"}
KeysOf(tool) ==
    CASE tool = "disruptions" -> SUBSET Operators
      [] tool = "elevators" -> {{"summary", "details"}}
      [] tool = "ferries" -> {{"catalog", "timetable"}}
      [] tool \in {"line_info", "stops", "departures", "istanbulkart", "facilities", "traffic"} -> {{tool}}
      [] tool = "line_notices" -> {{"notices"}}
      [] tool \in {"pharmacies_nearby", "pharmacies_by_district"} -> {{"pharmacies"}}
      [] tool = "neighbourhood" -> {SourceKeys}
      [] tool = "markets" -> {{"market"}}
      [] tool = "search_datasets" -> {{"datasets"}}
      [] tool = "get_dataset" -> {{"dataset"}}
      [] tool = "get_resource_schema" -> {{"schema"}}
      [] tool = "query_resource" -> {{"records"}, {"schema", "records"}}
      [] tool \in {"parking_nearby", "parking_by_district"} -> {{"parking"}}
      [] tool = "metro_nearby" -> {{"metro_station"}}
      [] tool = "air_quality" -> {{"air_quality_station", "readings"}}
      [] tool = "city_features" -> SUBSET Layers
      [] tool = "mobility" -> {Sections \cup {"traffic"}}
      [] tool = "city_services" -> SUBSET {"wifi", "library", "cultural_centre"}

\* What narrows the rows of a source, beside the place or the name it is asked with.
FiltersOf(tool) ==
    CASE tool = "disruptions" -> {"mode", "line"}
      [] tool \in {"elevators", "line_notices"} -> {"line"}
      [] tool = "neighbourhood" -> {"name"}
      [] tool = "markets" -> {"day"}
      [] OTHER -> {}

Tools ==
    {"disruptions", "elevators", "ferries", "line_info", "stops", "departures", "istanbulkart",
     "facilities", "traffic", "line_notices", "pharmacies_nearby", "pharmacies_by_district",
     "neighbourhood", "markets", "search_datasets", "get_dataset", "get_resource_schema",
     "query_resource", "parking_nearby", "parking_by_district", "metro_nearby", "air_quality",
     "city_features", "mobility", "city_services"}

\* The sources whose last copy is served when loading fails.
StaleIfError ==
    Operators \cup
    {"summary", "details", "pharmacies", "istanbulkart", "facilities", "public_transport_stop"}

ASSUME BoundsAreNat == \A s \in Suites, b \in Bounds : s.bounds[b] \in Nat
ASSUME MixesAreRows == Mixes \subseteq SUBSET Kinds
ASSUME QueriesAreOfTools ==
    \A s \in Suites : \A q \in s.queries :
        /\ q.tool \in Tools /\ q.keys \in KeysOf(q.tool) /\ q.filters \subseteq FiltersOf(q.tool)
        /\ q.limit \in Nat /\ q.valid \in BOOLEAN
ASSUME NoneIsNoCount == None \notin Nat

VARIABLES suite, query, got, cache, store, answer, spent

vars == <<suite, query, got, cache, store, answer, spent>>

Keys == UNION {q.keys : q \in suite.queries}
Unread == [state |-> "unread", pages |-> << >>]

Init ==
    /\ suite \in Suites
    /\ query = None /\ answer = None /\ got = << >>
    /\ cache = [k \in Keys |-> None]
    /\ store = [l \in Layers |-> {}]
    /\ spent = [b \in Bounds |-> 0]

-----------------------------------------------------------------------------
(* What is read when *)

AtOnce == {"disruptions", "elevators", "neighbourhood"}

\* The order in which the other tools read their keys.
Order ==
    <<"catalog", "timetable", "parking", "metro_station", "traffic", "public_transport_stop",
      "air_quality_station", "readings", "wifi", "ev_charging", "library", "cultural_centre",
      "schema", "records">>

\* city_features refreshes the air before the stops.
OrderOfFeatures ==
    <<"parking", "metro_station", "air_quality_station", "public_transport_stop", "wifi", "ev_charging">>

\* Timetables are of a route that the index lists, readings of stations that were found,
\* records filtered by fields that the table has.
Wanted(key) ==
    CASE key = "timetable" -> RouteListed(got)
      [] key = "readings" -> /\ ~Unusable(got, "air_quality_station")
                             /\ Nearby(store, {"air_quality_station"}) # {}
      [] key = "records" -> "schema" \in query.keys =>
                              got["schema"].state # "lost" /\ ~UnknownField(got)
      [] OTHER -> TRUE

UnreadKeys == {k \in query.keys : got[k].state = "unread"}

\* A summary that cannot build a section ends there.
Ended == query.tool = "mobility" /\ SectionRaises(got)

Due ==
    LET order == IF query.tool = "city_features" THEN OrderOfFeatures ELSE Order
        waiting == {i \in DOMAIN order : order[i] \in UnreadKeys}
        first == order[CHOOSE i \in waiting : \A j \in waiting : i <= j]
    IN  IF Ended THEN {}
        ELSE IF query.tool \in AtOnce \/ Cardinality(UnreadKeys) <= 1
             THEN {k \in UnreadKeys : Wanted(k)}
        ELSE {k \in {first} : Wanted(k)}

-----------------------------------------------------------------------------
(* Pages *)

Candidates(key) ==
    CASE key = "facilities" -> 3
      [] key \in {"sehir_hatlari", "marmaray", "catalog", "timetable"} -> 2
      [] OTHER -> 1

Usual(key) == [form |-> "listed", rows |-> {"good"}]
Pages(key) ==
    {[form |-> "listed", rows |-> m] : m \in {n \in Mixes : n \subseteq KindsOf(key)}}
    \cup {[form |-> f, rows |-> {}] : f \in {"none", "bare", "unknown"} \cup NoPage}
    \cup {[form |-> "cut", rows |-> {"good"}] :
              k \in {key} \cap {"wifi", "library", "facilities", "social_assistance"}}

\* The answers of the candidates, of which at most n are unusual.
Answers(key, n) ==
    {pages \in [1..Candidates(key) -> Pages(key)] :
        Cardinality({i \in DOMAIN pages : pages[i] # Usual(key)}) <= n}
OddOnes(key, pages) == Cardinality({i \in DOMAIN pages : pages[i] # Usual(key)})

-----------------------------------------------------------------------------
(* The source cache *)

\* A cache that keeps what could not be read.
KeptAnyhow(key, pages) == [pages |-> pages, age |-> "fresh", edition |-> spent.calls]

Kept(key, pages) ==
    IF Load(key, pages) = None THEN cache[key]
    ELSE [pages |-> pages, age |-> "fresh", edition |-> spent.calls]

\* A copy past its period is only good when loading fails, and only of some sources.
Older(key) ==
    IF cache[key] # None /\ cache[key].age = "fresh" /\ key \in StaleIfError
    THEN [cache[key] EXCEPT !.age = "old"] ELSE None

Hit(key) == cache[key] # None /\ cache[key].age = "fresh"

\* Copies past their period go when another page is loaded and inserted.
Evicted(key, pages) ==
    IF Load(key, pages) = None THEN {}
    ELSE {k \in Keys \ {key} : cache[k] # None /\ cache[k].age = "old"}

Outcome(key, pages) ==
    IF Load(key, pages) # None THEN [state |-> "fresh", pages |-> pages]
    ELSE IF cache[key] # None THEN [state |-> "stale", pages |-> cache[key].pages]
    ELSE [state |-> "lost", pages |-> pages]

\* A layer is written before every search of it, the stops when they are loaded; the
\* copy a page was loaded into is told by the call that loaded it.
Written(key, rows, edition, loaded) ==
    IF /\ key \in Layers /\ query.tool # "parking_by_district"
       /\ rows # None /\ Buildable(key, rows)
       /\ key \in ReplacedAtLoad => loaded
    THEN [store EXCEPT ![key] = Write(key, @, Features(rows, edition))]
    ELSE store

-----------------------------------------------------------------------------
(* Actions *)

\* A query is asked; one that is not valid is answered at once.
Ask ==
    /\ query = None \/ answer # None
    /\ spent.calls < suite.bounds.calls
    /\ \E q \in suite.queries :
          /\ query' = q
          /\ got' = [k \in q.keys |-> Unread]
          /\ answer' = IF q.valid THEN None ELSE ValidationError
    /\ spent' = [spent EXCEPT !.calls = @ + 1]
    /\ UNCHANGED <<suite, cache, store>>

Busy == query # None /\ answer = None

\* get_with_status finds a copy within its period.
ReadCached(key) ==
    /\ Busy /\ key \in Due /\ Hit(key)
    /\ got' = [got EXCEPT ![key] = [state |-> "fresh", pages |-> cache[key].pages]]
    /\ store' = Written(key, Load(key, cache[key].pages), cache[key].edition, FALSE)
    /\ UNCHANGED <<suite, query, cache, answer, spent>>

\* It loads: the page may be anything, and a failure falls back on an old copy.
ReadSource(key) ==
    /\ Busy /\ key \in Due /\ ~Hit(key)
    /\ \E pages \in Answers(key, suite.bounds.odd - spent.odd) :
          /\ got' = [got EXCEPT ![key] = Outcome(key, pages)]
          /\ cache' = [k \in Keys |-> IF k = key THEN Kept(key, pages)
                                     ELSE IF k \in Evicted(key, pages) THEN None ELSE cache[k]]
          /\ store' = Written(key, Load(key, pages), spent.calls, TRUE)
          /\ spent' = [spent EXCEPT !.odd = @ + OddOnes(key, pages)]
    /\ UNCHANGED <<suite, query, answer>>

ToolAnswers ==
    CASE query.tool \in {"disruptions", "elevators", "ferries", "line_info", "stops", "line_notices",
                         "departures"} -> TransitAnswers(query, got)
      [] query.tool \in {"pharmacies_nearby", "pharmacies_by_district", "istanbulkart", "facilities"} ->
            RosterToolAnswers(query, got)
      [] query.tool \in {"neighbourhood", "markets", "search_datasets", "get_dataset",
                         "get_resource_schema", "query_resource"} -> CatalogAnswers(query, got)
      [] OTHER -> CityAnswers(query, got, store)

Reply ==
    /\ Busy /\ Due = {}
    /\ answer' \in ToolAnswers
    /\ UNCHANGED <<suite, query, got, cache, store, spent>>

\* A period passes, of all the copies or of those that do not live longer.
Tick ==
    /\ spent.ticks < suite.bounds.ticks
    /\ \E aged \in {Keys, Keys \ LongLived} :
          cache' = [k \in Keys |-> IF k \in aged THEN Older(k) ELSE cache[k]]
    /\ cache' # cache
    /\ spent' = [spent EXCEPT !.ticks = @ + 1]
    /\ UNCHANGED <<suite, query, got, store, answer>>

\* Another worker is asked about a layer, and writes the copy it has.
OtherWorker(layer) ==
    /\ spent.writes < suite.bounds.writes
    /\ \E rows \in Mixes :
          /\ Features(rows, 0) # {}
          /\ store' = [store EXCEPT ![layer] = Write(layer, @, Features(rows, 0))]
    /\ spent' = [spent EXCEPT !.writes = @ + 1]
    /\ UNCHANGED <<suite, query, got, cache, answer>>

Next ==
    \/ Ask
    \/ \E k \in Keys : ReadCached(k)
    \/ \E k \in Keys : ReadSource(k)
    \/ Reply
    \/ Tick
    \/ \E l \in Keys \cap Layers : OtherWorker(l)

Spec == Init /\ [][Next]_vars

-----------------------------------------------------------------------------
(* Properties *)

Answered == answer # None /\ query.valid
Sources == {k \in query.keys : got[k].state # "unread"}

\* The page a source was understood from.
UnderstoodPage(key, pages) ==
    IF key = "marmaray"
    THEN IF NoticePage(pages[1]) # None THEN pages[1] ELSE pages[2]
    ELSE IF key = "facilities"
    THEN IF Catalogued(pages) = {} /\ pages[2].form \in Lists THEN pages[2] ELSE pages[1]
    ELSE FirstAnswer(pages)
PageOf(key) == UnderstoodPage(key, got[key].pages)

\* The connectors that take an envelope without its list for an empty list, and those
\* that do not ask whether the portal has more rows than its page.
Lenient == {"iett", "metro_istanbul", "notices", "line_info", "departures", "stops", "metro_station",
            "air_quality_station", "wifi", "library", "datasets", "schema", "records"}
Uncounted == {"wifi", "library", "social_assistance"}
Readable(key) ==
    \/ PageOf(key).form \in Lists
    \/ PageOf(key).form = "bare" /\ key \in Lenient
    \/ PageOf(key).form = "cut" /\ key \in Uncounted

\* What a table or a list could not give is told.
ToldPartial(a, key) == \E w \in a.warnings : w.about = key /\ w.what \in {"partial", "file", "empty"}

\* The rows of a page that the request is about: the index of timetables and the
\* readings of a station are looked up, not listed.
Concerning(key) ==
    IF key \in {"catalog", "readings"} \/ (key = "schema" /\ query.tool = "query_resource") THEN {}
    ELSE IF query.tool = "neighbourhood" /\ query.filters # {} THEN PageOf(key).rows \cap {"good"}
    ELSE PageOf(key).rows \cap
        ({"good", "also"} \cup
         (IF query.tool \in {"disruptions", "elevators", "line_notices", "neighbourhood"} /\ query.filters = {}
          THEN {"else", "loose"} ELSE {}))

\* A layer as another worker left it.
OfAnother(layer) == \E f \in store[layer] : f.edition = 0

\* Copies are only kept of what could be read, and only what was read is answered from.
TypeOK ==
    /\ suite \in Suites /\ query \in suite.queries \cup {None}
    /\ DOMAIN spent = Bounds /\ \A b \in Bounds : spent[b] \in 0..suite.bounds[b]
    /\ store \in [Layers -> SUBSET [kind : Kinds, edition : 0..suite.bounds.calls]]
    /\ DOMAIN cache = Keys
    /\ \A k \in Keys :
          cache[k] # None =>
            /\ cache[k].age \in {"fresh", "old"} /\ cache[k].edition \in 1..suite.bounds.calls
            /\ Load(k, cache[k].pages) # None
    /\ query # None =>
          /\ DOMAIN got = query.keys
          /\ \A k \in query.keys :
                /\ got[k].state \in {"unread", "fresh", "stale", "lost"}
                /\ got[k].state \in {"fresh", "stale"} => Load(k, got[k].pages) # None

\* What the properties ask of an answer to the query, from what was read for it.
Whole(a) ==
    a.ok /\ a.freshness \in {"fresh", "stale"} =>
        \A k \in Sources :
            /\ got[k].state \in {"fresh", a.freshness}
            /\ Readable(k) \/ ToldPartial(a, k)
            /\ \/ a.info.truncated = TRUE
               \/ k \in Replaced /\ OfAnother(k)
               \/ \A kind \in Concerning(k) : \E row \in a.data : row.from = k /\ row.kind = kind
MissingIsTold(a) ==
    a.ok =>
        /\ \A k \in In(got, Sources, "lost") :
              a.freshness = "unknown" /\ \E w \in a.warnings : w.about = k
        /\ \A k \in In(got, Sources, "stale") :
              a.freshness # "fresh" /\ \E w \in a.warnings : w.about = k
        /\ \A row \in a.data : got[row.from].state \in {"fresh", "stale"}
Accounted(a) == \A c \in a.counts : c.accepted + c.left = Cardinality(PageOf(c.of).rows)
OfOnePublication(a) ==
    \A r1, r2 \in a.data : r1.from = r2.from /\ r1.from \in Replaced => r1.edition = r2.edition

\* An answer that calls itself fresh or stale has read every source it is about, from a
\* page that lists or with a warning, and lists every row there that concerns the request
\* unless it tells that some were cut: services/disruptions.py:97-107, the readers of the
\* connectors, city.py:591-657 and geo.py:22-113.  The code gives less in two cases, and
\* so does this:
\* - of the keys in Lenient an envelope without its list is a list without rows, and of
\*   those in Uncounted a page that the portal cut is a whole one (metro.py:82, iett.py:78,
\*   city.py:834,847), against docs/tool-reference.md:306-307 and
\*   docs/response-contract.md:52-53: a checked "nothing" of these says little;
\* - of a replaced layer that another worker wrote after this one did, the answer lists
\*   that worker's rows, with the freshness and the times of this worker's copy
\*   (city.py:635-657 and, for the stops, 721-739 against the searches at 519-551).
ListsAreWhole == Answered => Whole(answer)

\* What a call could not read, or could only read from an old copy, its answer warns of and
\* never passes off as fresh, and no row comes from a source that was not read: the
\* per-source handling of services/disruptions.py:215-251, metro_accessibility.py:258-313
\* and city.py:591-657.
WhatIsMissingIsTold == Answered => MissingIsTold(answer)

\* The counts of an answer add up to the rows of the page: what is not listed as accepted
\* is told as left out (metro_accessibility.py:376-387, pharmacy.py:167-206,
\* istanbulkart.py:143-191).
RowsAccounted == Answered => Accounted(answer)

\* An answer never mixes two publications of a layer, whichever workers wrote it and
\* whatever happened to their loads: geo.py:22-43, city.py:721-739.
PublicationsDoNotMix == answer # None => OfOnePublication(answer)
=============================================================================
