---------------------------- MODULE RosterTools ----------------------------
(***************************************************************************)
(* The tools over one complete list: pharmacies on duty by place or by     *)
(* district, Istanbulkart filling centres and social facilities by place.  *)
(* A list may be served stale, which the answer says.                      *)
(***************************************************************************)
EXTENDS SourcePages

AboutRoster(key, what) == [about |-> key, what |-> what]

RosterFreshness(got, key) == got[key].state

\* What the list says it left out: invalid rows and second ones.
RosterCounts(got, key) ==
    LET all == got[key].pages[1].rows
    IN  [of |-> key, accepted |-> Cardinality(Rows(got, key)),
         left |-> Cardinality(all \cap {"blank", "twin"})]

\* A pharmacy without coordinates is in no circle, and the answer says that some are.
RosterWarnings(got, key) ==
    (IF got[key].state = "stale" THEN {AboutRoster(key, "stale")} ELSE {})
    \cup (IF "loose" \in Rows(got, key) THEN {AboutRoster(key, "no_coordinates")} ELSE {})

RosterAnswers(query, rows, got, key, warnings) ==
    {[answer EXCEPT !.counts = {RosterCounts(got, key)}] :
        answer \in Listed(rows, query.limit, RosterFreshness(got, key), warnings)}

PharmaciesLost(got) ==
    IF HeldBack(got, "pharmacies")
    THEN Failure("source_rate_limited", "broken", {AboutRoster("pharmacies", "rate_limited")})
    ELSE SourceError({AboutRoster("pharmacies", "unavailable")})

PharmaciesNearby(query, got) ==
    LET rows == {row \in Records(got, {"pharmacies"}) : row.kind \notin {"else", "loose"}}
    IN  IF got["pharmacies"].state = "lost" THEN {PharmaciesLost(got)}
        ELSE RosterAnswers(query, rows, got, "pharmacies", RosterWarnings(got, "pharmacies"))

\* The district is known of a pharmacy without coordinates too.
PharmaciesByDistrict(query, got) ==
    LET rows == {row \in Records(got, {"pharmacies"}) : row.kind # "else"}
    IN  IF got["pharmacies"].state = "lost" THEN {PharmaciesLost(got)}
        ELSE RosterAnswers(query, rows, got, "pharmacies", RosterWarnings(got, "pharmacies"))

\* An answer that was held back does not carry the code that says so.
CentresLost(got) ==
    IF HeldBack(got, "istanbulkart")
    THEN Failure("request_failed", "broken", {AboutRoster("istanbulkart", "rate_limited")})
    ELSE SourceError({AboutRoster("istanbulkart", "unavailable")})

CentresWarnings(got) ==
    RosterWarnings(got, "istanbulkart")
    \cup {AboutRoster("istanbulkart", kind) :
            kind \in got["istanbulkart"].pages[1].rows \cap {"blank", "twin"}}

CentresNearby(query, got) ==
    LET rows == {row \in Records(got, {"istanbulkart"}) : row.kind # "else"}
    IN  IF got["istanbulkart"].state = "lost" THEN {CentresLost(got)}
        ELSE RosterAnswers(query, rows, got, "istanbulkart", CentresWarnings(got))

FacilitiesLost(got) ==
    IF FacilitiesHeldBack(got["facilities"].pages)
    THEN Failure("request_failed", "broken", {AboutRoster("facilities", "rate_limited")})
    ELSE SourceError({AboutRoster("facilities", "unavailable")})

\* What the load told of is told again by every answer from it.
FacilitiesWarnings(got) ==
    {AboutRoster("facilities", what) : what \in FacilitiesTold(got["facilities"].pages)}
    \cup (IF got["facilities"].state = "stale" THEN {AboutRoster("facilities", "stale")} ELSE {})

FacilitiesNearby(query, got) ==
    LET rows == {row \in Records(got, {"facilities"}) : row.kind # "else"}
    IN  IF got["facilities"].state = "lost" THEN {FacilitiesLost(got)}
        ELSE Listed(rows, query.limit, RosterFreshness(got, "facilities"), FacilitiesWarnings(got))

RosterToolAnswers(query, got) ==
    CASE query.tool = "pharmacies_nearby" -> PharmaciesNearby(query, got)
      [] query.tool = "pharmacies_by_district" -> PharmaciesByDistrict(query, got)
      [] query.tool = "istanbulkart" -> CentresNearby(query, got)
      [] query.tool = "facilities" -> FacilitiesNearby(query, got)

=============================================================================
