---------------------------- MODULE MCToolCalls ----------------------------
(* A call or two of each tool, over pages that mix the kinds of rows. *)
EXTENDS ToolCalls

Q(tool, keys, filters, limit) ==
    [tool |-> tool, keys |-> keys, filters |-> filters, limit |-> limit, valid |-> TRUE]
Invalid(tool, keys) == [Q(tool, keys, {}, 1) EXCEPT !.valid = FALSE]

Metro == {"metro_istanbul", "metro_notices"}
Lifts == {"summary", "details"}
Ferries == {"catalog", "timetable"}
Around == Sections \cup {"traffic"}

Suite(queries, calls, odd, writes) ==
    [queries |-> queries, bounds |-> [calls |-> calls, odd |-> odd, ticks |-> 1, writes |-> writes]]

MCSuites ==
    { Suite({Q("disruptions", Operators, {}, 2)}, 2, 1, 0),
      Suite({Q("disruptions", Metro, {}, 2)}, 2, 2, 0),
      Suite({Q("disruptions", Metro, {"mode"}, 2), Q("disruptions", Metro, {"line"}, 2)}, 1, 2, 0),
      Suite({Q("elevators", Lifts, {}, 2), Q("elevators", Lifts, {"line"}, 1)}, 2, 2, 0),
      Suite({Q("ferries", Ferries, {}, 2), Invalid("ferries", Ferries)}, 2, 2, 0),
      Suite({Q("line_info", {"line_info"}, {}, 2), Q("stops", {"stops"}, {}, 2)}, 2, 2, 0),
      Suite({Q("line_notices", {"notices"}, {}, 2), Q("line_notices", {"notices"}, {"line"}, 1)}, 2, 2, 0),
      Suite({Q("departures", {"departures"}, {}, 1)}, 2, 2, 0),
      Suite({Q("pharmacies_nearby", {"pharmacies"}, {}, 2),
             Q("pharmacies_by_district", {"pharmacies"}, {}, 2)}, 2, 2, 0),
      Suite({Q("facilities", {"facilities"}, {}, 2)}, 2, 2, 0),
      Suite({Q("neighbourhood", SourceKeys, {}, 2), Q("neighbourhood", SourceKeys, {"name"}, 1)}, 2, 1, 0),
      Suite({Q("markets", {"market"}, {}, 2), Q("markets", {"market"}, {"day"}, 2)}, 2, 2, 0),
      Suite({Q("search_datasets", {"datasets"}, {}, 1), Q("get_dataset", {"dataset"}, {}, 1)}, 2, 2, 0),
      Suite({Q("query_resource", {"records"}, {}, 2)}, 2, 2, 0),
      Suite({Q("query_resource", {"schema", "records"}, {}, 2),
             Q("get_resource_schema", {"schema"}, {}, 1)}, 2, 2, 0),
      Suite({Q("istanbulkart", {"istanbulkart"}, {}, 1)}, 2, 2, 0),
      Suite({Q("parking_nearby", {"parking"}, {}, 1), Q("parking_by_district", {"parking"}, {}, 2)}, 2, 2, 1),
      Suite({Q("metro_nearby", {"metro_station"}, {}, 2),
             Q("city_features", {"parking", "metro_station", "air_quality_station"}, {}, 2)}, 2, 1, 0),
      Suite({Q("air_quality", {"air_quality_station", "readings"}, {}, 2)}, 2, 2, 0),
      Suite({Q("traffic", {"traffic"}, {}, 1), Q("mobility", Around, {}, 1)}, 2, 1, 0),
      Suite({Q("city_features", {"ev_charging"}, {}, 2),
             Q("city_features", {"public_transport_stop", "ev_charging"}, {}, 2)}, 2, 2, 1),
      Suite({Q("city_services", {"wifi", "library", "cultural_centre"}, {}, 1),
             Q("city_services", {"wifi"}, {}, 2)}, 1, 2, 0),
      Suite({Q("city_services", {"library", "cultural_centre"}, {}, 1)}, 2, 1, 0) }

MCMixes ==
    { {"good"}, {"good", "also", "twin"}, {"good", "also", "else", "loose"}, {"else", "loose"}, {"loose"},
      {"good", "also"}, {"good", "twin"}, {"good", "else", "quiet"}, {"quiet"}, {"blank"}, {"good", "blank"},
      {"good", "torn"}, {"torn"}, {"good", "also", "twin", "blank", "torn"} }

MCLongLived ==
    {"metro_station", "public_transport_stop", "wifi", "library", "ev_charging", "cultural_centre", "catalog"}
=============================================================================
