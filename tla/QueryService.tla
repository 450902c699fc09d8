---------------------------- MODULE QueryService ----------------------------
(* What one request reads: the selections of services/queries.py and          *)
(* services/geofence.py over the stored rows, and the outcome that the MCP    *)
(* server and the REST API derive from the poll states of the datasets.       *)
(*                                                                            *)
(* There is one query point, so a row's geometry is its distance from it in   *)
(* km, 0 when it covers the point; NoGeometry is a NULL column and BadGeometry*)
(* a GeoJSON value Shapely refuses.  Times are clock readings, Never is NULL. *)
(* Every row has the fields uid, table, kind (event type, parameter or zone   *)
(* type), geom, quality, from, until; a PFZ row also snapshot and retrieved,  *)
(* an observation or forecast valued and rough (it scores 25 points or more   *)
(* as a risk factor), a zone crossed (it meets the route or line asked for).  *)
EXTENDS Integers, FiniteSets, FiniteSetsExt

CONSTANTS RadiusKm,    \* the radius a spatial query asks for
          PageLimit,   \* limit of query_alerts
          WindowTicks  \* the 24 h around "at" of observations and forecasts

ASSUME QueryAssumption == RadiusKm \in Nat /\ PageLimit \in Nat \ {0} /\ WindowTicks \in Nat

NoGeometry == -1
BadGeometry == -2
Never == -1

Readable(r) == r.geom >= 0

\* A NULL or unreadable geometry has no distance and sorts last.
Beyond == RadiusKm + 1000
SortKey(r) == IF Readable(r) THEN r.geom ELSE Beyond

Accepted(rows, table) == {r \in rows : r.table = table /\ r.quality # "rejected"}

\* _within_validity is not False: a missing bound does not restrict.
WithinValidity(r, at) ==
    /\ r.from # Never => at >= r.from
    /\ r.until # Never => at <= r.until
-----------------------------------------------------------------------------
\* Mutation: no snapshot filter, as before the live PFZ feed had snapshots.
MutantLatestSnapshot(pfz) == pfz

\* Live PFZ rows carry no validity: only the snapshot of the row retrieved last
\* counts (fixture rows without a snapshot name are then dropped too).
LatestSnapshot(pfz) ==
    LET named == {r \in pfz : r.snapshot # Never}
        last == {r \in named : \A s \in named : s.retrieved <= r.retrieved}
    IN  IF named = {} THEN pfz
        ELSE {r \in pfz : r.snapshot = (CHOOSE s \in last : TRUE).snapshot}

QueryPfz(rows, at) ==
    {r \in LatestSnapshot(Accepted(rows, "pfz")) :
        Readable(r) /\ r.geom <= RadiusKm /\ WithinValidity(r, at)}

\* active_only looks at the end of validity only: an alert yet to begin counts.
Active(r, at) == r.until # Never => r.until >= at

\* With a radius an alert needs a readable geometry (the C6 fix).
AlertMatches(r, place, at) ==
    /\ Active(r, at)
    /\ (place = "radius") => Readable(r) /\ r.geom <= RadiusKm

\* Mutation: LIMIT pushed into the SELECT, before the sort by distance.
MutantPages(rows, place) ==
    {page \in SUBSET rows : Cardinality(page) = Min({PageLimit, Cardinality(rows)})}

\* The first `limit' rows by distance.  The SELECT has no ORDER BY, so rows at
\* equal distance, and all rows without a query point, come in any order.
Pages(rows, place) ==
    {page \in SUBSET rows :
        /\ Cardinality(page) = Min({PageLimit, Cardinality(rows)})
        /\ (place # "none") =>
              \A r \in page, s \in rows \ page : SortKey(r) <= SortKey(s)}

\* The possible results of query_alerts.
QueryAlerts(rows, place, at) ==
    Pages({r \in Accepted(rows, "alert") : AlertMatches(r, place, at)}, place)

\* Observations and forecasts: `at' may be absent, and a row without
\* coordinates passes the radius filter.
QueryPoints(rows, table, kinds, place, at) ==
    {r \in Accepted(rows, table) :
        /\ r.kind \in kinds
        /\ (at # Never) => r.from >= at - WindowTicks /\ r.from <= at + WindowTicks
        /\ (place = "radius" /\ Readable(r)) => r.geom <= RadiusKm}

\* Advisories: no validity check, and no or bad geometry passes the radius.
QueryAdvisories(rows, place) ==
    {r \in Accepted(rows, "advisory") :
        (place = "radius" /\ Readable(r)) => r.geom <= RadiusKm}
-----------------------------------------------------------------------------
\* Marine zones (geofence.py): zones are upserted whatever QC says of them.
Zones(rows) == {r \in rows : r.table = "zone"}

Effective(z, at) == WithinValidity(z, at)

\* check_point_in_zones, find_nearby_zones and find_route_intersections: what
\* cannot be read is skipped.
CheckPointInZones(rows, at) ==
    {z \in Zones(rows) : Effective(z, at) /\ z.geom = 0}

FindNearbyZones(rows, at) ==
    {z \in Zones(rows) : Effective(z, at) /\ Readable(z) /\ z.geom <= RadiusKm}

FindRouteIntersections(rows, at) ==
    {z \in Zones(rows) : Effective(z, at) /\ Readable(z) /\ z.crossed}

\* Alias groups of zone types are one kind each.
ZoneCategories ==
    {"eez_boundary", "marine_protected_area", "restricted_area", "naval_firing_area"}

\* The categories with an effective zone, readable or not.
ZoneCoverage(rows, at) ==
    {c \in ZoneCategories : \E z \in Zones(rows) : z.kind = c /\ Effective(z, at)}
-----------------------------------------------------------------------------
\* The states that withhold records; "success", "empty" and "degraded" do not.
BlockedStates ==
    {"auth_blocked", "contract_unavailable", "license_gated", "disabled",
     "source_unavailable", "contract_error", "processing_error", "not_run",
     "not_registered"}

\* Mutation: the contract errors of a source are not among its failures.
MutantSourceOutcome(any, states) ==
    LET has(s) == s \cap states # {}
    IN  IF any
        THEN IF has(BlockedStates) THEN "partial" ELSE "available"
        ELSE CASE states # {} /\ states \subseteq {"empty"} -> "healthy_empty"
               [] has({"auth_blocked"}) -> "auth_blocked"
               [] has({"source_unavailable", "processing_error"}) -> "source_unavailable"
               [] has({"not_run", "not_registered"}) -> "not_ingested"
               [] OTHER -> "available"

\* _source_outcome, the same in both servers up to wording: with records, are
\* all sources in; without, the first reason that explains their absence.
SourceOutcome(any, states) ==
    LET has(s) == s \cap states # {}
    IN  IF any
        THEN IF has(BlockedStates) THEN "partial" ELSE "available"
        ELSE CASE states # {} /\ states \subseteq {"empty"} -> "healthy_empty"
               [] has({"auth_blocked"}) -> "auth_blocked"
               [] has({"contract_unavailable"}) -> "contract_unavailable"
               [] has({"license_gated"}) -> "license_gated"
               [] has({"source_unavailable", "contract_error", "processing_error"}) ->
                    "source_unavailable"
               [] has({"disabled"}) -> "disabled"
               [] has({"not_run", "not_registered"}) \/ states = {} -> "not_ingested"
               [] OTHER -> "available"

\* Every outcome without EEZ records carries a warning, if only that none
\* matched; so does a category that is not loaded, and the sentinel of an empty
\* zone table.
ZoneWarned(zones, coverage, states, loaded) ==
    \/ ~loaded
    \/ coverage # ZoneCategories
    \/ ~\E z \in zones : z.kind = "eez_boundary"
    \/ SourceOutcome(TRUE, states) = "partial"

\* _zone_outcome and _geofence_envelope.
ZoneOutcome(zones, coverage, states, loaded) ==
    LET warned == ZoneWarned(zones, coverage, states, loaded)
        eez == SourceOutcome(\E z \in zones : z.kind = "eez_boundary", states)
    IN  IF zones # {} THEN IF warned THEN "partial" ELSE "available"
        ELSE IF eez \notin {"available", "partial"} THEN eez
        ELSE IF warned THEN "source_gap" ELSE "available"
-----------------------------------------------------------------------------
\* The rows a risk factor or an ocean parameter may take its value from: the
\* nearest that have a value and a distance (_nearest_value; an unknown distance
\* is not less than infinity, so a row without coordinates is never taken).
NearestValue(found, kinds) ==
    LET usable == {r \in found : r.kind \in kinds /\ r.valued /\ Readable(r)}
    IN  {r \in usable : \A s \in usable : r.geom <= s.geom}

\* Whether assess_marine_risk warns: no factor at all, an active warning, or a
\* dominant driver.  One canonical parameter stands for the risk factors.
RiskWarned(factor, alerts) ==
    factor = {} \/ alerts # {} \/ \E r \in factor : r.rough
=============================================================================
