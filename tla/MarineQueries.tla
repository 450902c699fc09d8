---------------------------- MODULE MarineQueries ---------------------------
(* Requests of the REST API (api/app.py), of the MCP server (mcp_server.py)   *)
(* and of the agent tools (tools/marine_tools.py) against the database that   *)
(* the ingest workers write (Ingestion and DatasetStatus have their side).    *)
(*                                                                            *)
(* A request is a sequence of SQL statements in one session: its rows, the    *)
(* zone coverage, the dataset states, the INSERT of its evidence at COMMIT.   *)
(* PostgreSQL runs at READ COMMITTED, so a worker may commit between any two. *)
(* Any statement may fail; the session is then rolled back.  Two requests     *)
(* share nothing but rows nobody changes, so one at a time, always of the     *)
(* endpoint picked in Init, shows every behaviour of one request.             *)
EXTENDS QueryService, Sequences, Functions

CONSTANTS MaxClock,    \* bound on time
          MaxPolls,    \* bound on the polls of the workers
          FeedOf,      \* dataset -> the sets of records a poll may parse
          Endpoints    \* the endpoints to exercise, a subset of those below

VARIABLES endpoint,  \* the endpoint under study
          clock,
          polls,     \* the polls so far
          flight,    \* PFZ snapshots between fetch and commit
          rows,      \* committed canonical rows
          states,    \* dataset consulted -> last_result_state, "not_registered"
                     \* when it has no row
          req,       \* the request being served, or Idle
          evidence,  \* the evidence row with its request id, or NoEvidence
          answer     \* what the caller got, or NoAnswer

vars == <<endpoint, clock, polls, flight, rows, states, req, evidence, answer>>

Idle == [todo |-> <<>>]
NoEvidence == [refs |-> {}, outcome |-> "none"]
NoAnswer == [kind |-> "none"]
-----------------------------------------------------------------------------
\* Endpoints: the statements of each in order, the datasets whose states it
\* consults, the parameters it asks for, and how its outcome comes about.
Endpoint(channel, todo, keys, kinds, outcome) ==
    [channel |-> channel, todo |-> todo, keys |-> keys, kinds |-> kinds,
     outcome |-> outcome]

Ocean == {"sst", "wave"}
Weather == {"wind"}
Tide == {"water_level"}

McpQuery(table, keys, kinds) ==
    Endpoint("mcp", <<table, "states", "commit">>, keys, kinds, "source")
McpQueryPfz == McpQuery("pfz", {"incois_pfz"}, {})
McpQueryAlerts == McpQuery("alerts", {"imd_cap", "incois_hwa"}, {})
McpQueryObservations ==
    McpQuery("observations", {"incois_buoy", "incois_tide"}, Ocean \union Weather \union Tide)
McpQueryForecasts == McpQuery("forecasts", {"imd_nwp"}, Ocean \union Weather \union Tide)

McpZones(todo, outcome) ==
    Endpoint("mcp", todo, {"marine_regions_eez_india"}, {}, outcome)
McpCheckGeofence ==
    McpZones(<<"loaded", "inside", "coverage", "states", "commit">>, "zones")
McpFindNearbyZones ==
    McpZones(<<"loaded", "nearby", "coverage", "states", "commit">>, "zones")
\* Reads coverage and states before the route is screened; a caller that turns
\* the zone check off skips the two screening statements and nothing else.
McpPlanSafeRoute ==
    McpZones(<<"coverage", "states", "loaded", "crossed", "commit">>, "route")

\* assess_risk, assess_suitability, detect_ocean_anomalies and
\* compute_distance_bearing: computed without the database, then audited.
McpComputation == Endpoint("mcp", <<"commit">>, {}, {}, "computed")

RestQuery(table, keys, kinds) ==
    Endpoint("rest", <<table, "states", "commit">>, keys, kinds, "source")
FishingPfz == RestQuery("pfz", {"incois_pfz"}, {})
Alerts == RestQuery("alerts", {"imd_cap", "incois_hwa"}, {})
OceanConditions == RestQuery("observations", {"incois_buoy", "incois_erddap"}, Ocean)
OceanForecast == RestQuery("forecasts", {"imd_nwp"}, Ocean)
WeatherConditions == RestQuery("observations", {"incois_buoy"}, Weather)
WeatherForecast == RestQuery("forecasts", {"imd_nwp"}, Weather)
Tides == RestQuery("observations", {"incois_tide"}, Tide)
FishingAdvisories == Endpoint("rest", <<"advisories", "commit">>, {}, {}, "rows")

\* The geofence endpoints read the states twice; only the second read, behind
\* the outcome, matters.
RestZones(statement) ==
    Endpoint("rest", <<"loaded", statement, "coverage", "states", "commit">>,
             {"marine_regions_eez_india"}, {}, "zones")
GeofenceCheck == RestZones("inside")
GeofenceNearby == RestZones("nearby")
GeofenceIntersections == RestZones("crossed")

\* No environment sampler is passed: the route is geometry-only and says so.
RoutesSafe == Endpoint("rest", <<"loaded", "crossed", "commit">>, {}, {}, "warned")
RiskMarine ==
    Endpoint("rest", <<"observations", "forecasts", "alerts", "commit">>, {},
             Ocean \union Weather, "risk")
FishingSuitability ==
    Endpoint("rest", <<"observations", "forecasts", "observations", "pfz", "advisories",
                       "commit">>, {}, Ocean \union Weather, "suitability")

\* The agent tools wrap one query and store no evidence.
AgentTool(todo, kinds) == Endpoint("agent", todo, {}, kinds, "wrapped")
ToolQueryPfz == AgentTool(<<"pfz", "commit">>, {})
ToolQueryAlerts == AgentTool(<<"alerts", "commit">>, {})
ToolQueryObservations == AgentTool(<<"observations", "commit">>, Ocean \union Weather)
ToolQueryForecasts == AgentTool(<<"forecasts", "commit">>, Ocean \union Weather)
ToolCheckGeofence == AgentTool(<<"loaded", "inside", "commit">>, {})
ToolFindNearbyZones == AgentTool(<<"loaded", "nearby", "commit">>, {})

AllEndpoints ==
    {McpQueryPfz, McpQueryAlerts, McpQueryObservations, McpQueryForecasts,
     McpCheckGeofence, McpFindNearbyZones, McpPlanSafeRoute, McpComputation,
     FishingPfz, Alerts, OceanConditions, OceanForecast, WeatherConditions,
     WeatherForecast, Tides, FishingAdvisories, GeofenceCheck, GeofenceNearby,
     GeofenceIntersections, RoutesSafe, RiskMarine, FishingSuitability,
     ToolQueryPfz, ToolQueryAlerts, ToolQueryObservations, ToolQueryForecasts,
     ToolCheckGeofence, ToolFindNearbyZones}
-----------------------------------------------------------------------------
Datasets == DOMAIN FeedOf

\* A poll parses finitely many rows, and rows of fishing zones come from the
\* PFZ feed alone, whose ingestion stamps them with their snapshot.
ASSUME FeedAssumption ==
    /\ Endpoints \subseteq AllEndpoints
    /\ MaxClock \in Nat
    /\ \A ds \in Datasets : \A records \in FeedOf[ds] :
          /\ IsFiniteSet(records)
          /\ \A r \in records :
                /\ r.geom \in Int /\ r.from \in Int /\ r.until \in Int
                /\ r.table = "pfz" <=> ds = "incois_pfz"
                /\ ds = "incois_pfz" => {"table", "snapshot", "retrieved"} \subseteq DOMAIN r

TableOf == [pfz |-> "pfz", alerts |-> "alert", observations |-> "observation",
            forecasts |-> "forecast", advisories |-> "advisory",
            inside |-> "zone", nearby |-> "zone", crossed |-> "zone"]

\* The datasets whose state the endpoint reads, and those it can tell have been
\* polled, because they also feed a table it reads (the bulletins add alerts
\* that no endpoint checks the state of).  Polls of others are not interleaved.
Consulted == endpoint.keys \cap Datasets

TablesRead == {TableOf[s] : s \in Range(endpoint.todo) \cap DOMAIN TableOf}

Polled ==
    Consulted \union
    {ds \in Datasets : \E records \in FeedOf[ds] : \E r \in records : r.table \in TablesRead}

Init ==
    /\ endpoint \in Endpoints
    /\ clock = 1
    /\ polls = 0
    /\ flight = {}
    /\ rows = {}
    /\ \E unregistered \in SUBSET Consulted :    \* the registry seed is optional
          states = [ds \in Consulted |->
                      IF ds \in unregistered THEN "not_registered" ELSE "not_run"]
    /\ req = Idle
    /\ evidence = NoEvidence
    /\ answer = NoAnswer

\* While an answer is out nothing else moves: what the properties say of an
\* answer they say of the moment it was given.
Quiet == answer = NoAnswer

Tick ==
    /\ Quiet
    /\ clock < MaxClock
    /\ clock' = clock + 1
    /\ UNCHANGED <<endpoint, polls, flight, rows, states, req, evidence, answer>>

Poll ==
    /\ Quiet
    /\ polls < MaxPolls
    /\ polls' = polls + 1

PollState(records, complete) ==
    IF ~complete THEN "degraded" ELSE IF records = {} THEN "empty" ELSE "success"

Record(ds, state) ==
    states' = [d \in DOMAIN states |-> IF d = ds THEN state ELSE states[d]]

\* A worker has fetched the PFZ snapshot of the day (the feed has a new one
\* every tick) and will ingest it; another may fetch and commit in between.
FetchPfz ==
    /\ Poll
    /\ "incois_pfz" \in Polled
    /\ \E records \in FeedOf["incois_pfz"], complete \in BOOLEAN :
          flight' = flight \union {[at |-> clock, records |-> records,
                                    state |-> PollState(records, complete)]}
    /\ UNCHANGED <<endpoint, clock, rows, states, req, evidence, answer>>

\* Its ingest transaction: the rows, named after the snapshot, and the state.
IngestPfz(poll) ==
    /\ Quiet
    /\ flight' = flight \ {poll}
    /\ rows' = rows \union
          {[r EXCEPT !.snapshot = poll.at, !.retrieved = poll.at] : r \in poll.records}
    /\ Record("incois_pfz", poll.state)
    /\ UNCHANGED <<endpoint, clock, polls, req, evidence, answer>>

\* The ingest transaction of another dataset: neither its rows nor its state
\* keep the time of the fetch, so the fetch is not a step of its own.
Ingest(ds) ==
    /\ Poll
    /\ \E records \in FeedOf[ds], complete \in BOOLEAN :
          /\ rows' = rows \union records
          /\ Record(ds, PollState(records, complete))
    /\ UNCHANGED <<endpoint, clock, flight, req, evidence, answer>>

\* A poll that failed (record_source_error).
RecordSourceError(ds) ==
    /\ Poll
    /\ \E state \in BlockedStates \ {"not_run", "not_registered", "processing_error"} :
          Record(ds, state)
    /\ UNCHANGED <<endpoint, clock, flight, rows, req, evidence, answer>>

Worker ==
    \/ FetchPfz
    \/ \E poll \in flight : IngestPfz(poll)
    \/ \E ds \in Polled \ {"incois_pfz"} : Ingest(ds)
    \/ \E ds \in Consulted : RecordSourceError(ds)
-----------------------------------------------------------------------------
Doing(statement) == req # Idle /\ Head(req.todo) = statement

\* The statement is done: on to the rest of a request that has its result.
Proceed(request) ==
    /\ req' = [request EXCEPT !.todo = Tail(@)]
    /\ UNCHANGED <<endpoint, clock, polls, flight, rows, states, evidence, answer>>

\* How the caller may narrow the query.
Places ==
    CASE endpoint.todo[1] \in {"alerts", "advisories"} -> {"none", "point", "radius"}
      [] endpoint.todo[1] \in {"observations", "forecasts"} ->
            [rest |-> {"radius"}, mcp |-> {"none", "radius"},
             agent |-> {"none", "point", "radius"}][endpoint.channel]
      [] OTHER -> {"radius"}

\* The time asked about: observations, forecasts and risk may be asked for any
\* time, and outside REST for none; the rest of REST stamps the arrival.
Ats ==
    CASE endpoint.todo[1] \in {"observations", "forecasts"} ->
            (1 .. MaxClock) \union IF endpoint.channel = "rest" THEN {} ELSE {Never}
      [] OTHER -> {clock}

\* What a reader of the table expects a query begun now to consider.
Due(place) ==
    {r \in rows : /\ r.quality # "rejected"
                  /\ Readable(r)
                  /\ (place = "radius") => r.geom <= RadiusKm}

Begin ==
    /\ Quiet
    /\ req = Idle
    /\ \E place \in Places, at \in Ats :
          req' = [todo |-> endpoint.todo, place |-> place, at |-> at, found |-> {},
                  alerts |-> {}, loaded |-> TRUE, coverage |-> {}, seen |-> {},
                  due |-> Due(place)]
    /\ UNCHANGED <<endpoint, clock, polls, flight, rows, states, evidence, answer>>

\* Arguments the endpoint refuses (one of lat and lon missing, a line that is no
\* geometry, an unparsable time): an HTTP 400 or 422, a tool error.
Refuse ==
    /\ Quiet
    /\ req = Idle
    /\ answer' = [kind |-> "refused"]
    /\ UNCHANGED <<endpoint, clock, polls, flight, rows, states, req, evidence>>

\* Validity is judged at the time of the statement unless REST stamped it.
Now == IF endpoint.channel = "rest" THEN req.at ELSE clock

ReadPfz ==
    /\ Doing("pfz")
    /\ Proceed([req EXCEPT !.found = @ \union QueryPfz(rows, Now)])

ReadAlerts ==
    /\ Doing("alerts")
    /\ \E page \in QueryAlerts(rows, req.place, Now) :
          Proceed([req EXCEPT !.found = @ \union page, !.alerts = page])

ReadPoints(statement, table) ==
    /\ Doing(statement)
    /\ Proceed([req EXCEPT !.found = @ \union
                  QueryPoints(rows, table, endpoint.kinds, req.place, req.at)])

ReadAdvisories ==
    /\ Doing("advisories")
    /\ Proceed([req EXCEPT !.found = @ \union QueryAdvisories(rows, req.place)])

\* _zones_loaded: an empty table ends the screening with a sentinel.
CountZones ==
    /\ Doing("loaded")
    /\ IF Zones(rows) # {}
       THEN Proceed(req)
       ELSE Proceed([req EXCEPT !.loaded = FALSE, !.todo = Tail(@)])

ReadZones ==
    \/ Doing("inside") /\ Proceed([req EXCEPT !.found = CheckPointInZones(rows, clock)])
    \/ Doing("nearby") /\ Proceed([req EXCEPT !.found = FindNearbyZones(rows, clock)])
    \/ Doing("crossed") /\ Proceed([req EXCEPT !.found = FindRouteIntersections(rows, clock)])

ReadCoverage ==
    /\ Doing("coverage")
    /\ Proceed([req EXCEPT !.coverage = ZoneCoverage(rows, clock)])

\* get_dataset_source_states.
ReadStates ==
    /\ Doing("states")
    /\ Proceed([req EXCEPT !.seen = {states[ds] : ds \in Consulted}
                  \union IF endpoint.keys \subseteq Datasets THEN {} ELSE {"not_registered"}])

Gap(warned) == IF warned THEN "source_gap" ELSE "available"

Outcome ==
    CASE endpoint.outcome = "source" -> {SourceOutcome(req.found # {}, req.seen)}
      [] endpoint.outcome = "zones" -> {ZoneOutcome(req.found, req.coverage, req.seen, req.loaded)}
      [] endpoint.outcome = "route" -> {"partial"}    \* it always has a warning
      [] endpoint.outcome = "warned" -> {Gap(TRUE)}
      [] endpoint.outcome = "rows" -> {Gap(req.found = {})}
      [] endpoint.outcome = "risk" ->
            LET factor == NearestValue(req.found \ req.alerts, Weather)
            IN  IF factor = {} THEN {Gap(TRUE)}
                ELSE {Gap(RiskWarned({r}, req.alerts)) : r \in factor}
      [] endpoint.outcome = "suitability" ->
            {Gap(/\ NearestValue(req.found, Ocean \union Weather) = {}
                 /\ ~\E r \in req.found : r.table = "pfz")}
      [] endpoint.outcome = "wrapped" -> {Gap(~req.loaded)}
      [] endpoint.outcome = "computed" -> {"available"}

Answer(outcome, persisted) ==
    [kind |-> "ok", rows |-> req.found, outcome |-> outcome, seen |-> req.seen,
     at |-> req.at, due |-> req.due, place |-> req.place, persisted |-> persisted]

\* refs stands for the records or the sources the evidence names: a score's
\* evidence names the sources of the rows it was computed from.
EvidenceRow(outcome) ==
    IF endpoint.channel = "agent" THEN NoEvidence
    ELSE [refs |-> req.found, outcome |-> outcome]

\* The session commits, the evidence with it, and only then the caller answers.
Commit ==
    /\ Doing("commit")
    /\ \E outcome \in Outcome :
          /\ evidence' = EvidenceRow(outcome)
          /\ answer' = Answer(outcome, TRUE)
    /\ req' = Idle
    /\ UNCHANGED <<endpoint, clock, polls, flight, rows, states>>

\* Mutation: the audit failure of a computation goes unnoticed.
MutantFails ==
    /\ req # Idle
    /\ \E outcome \in Outcome, stored \in BOOLEAN :
          /\ stored => Doing("commit")
          /\ evidence' = IF stored THEN EvidenceRow(outcome) ELSE NoEvidence
          /\ answer' = IF endpoint.outcome = "computed" THEN Answer(outcome, TRUE)
                       ELSE [kind |-> "error"]
    /\ req' = Idle
    /\ UNCHANGED <<endpoint, clock, polls, flight, rows, states>>

\* A statement or the COMMIT raises: an HTTP 500, a SOURCE_GAP or an error
\* envelope; a computed result is returned all the same, marked unaudited.  A
\* COMMIT whose reply was lost may have stored the evidence.
Fails ==
    /\ req # Idle
    /\ \E outcome \in Outcome, stored \in BOOLEAN :
          /\ stored => Doing("commit")
          /\ evidence' = IF stored THEN EvidenceRow(outcome) ELSE NoEvidence
          /\ answer' = IF endpoint.outcome = "computed" THEN Answer(outcome, FALSE)
                       ELSE [kind |-> "error"]
    /\ req' = Idle
    /\ UNCHANGED <<endpoint, clock, polls, flight, rows, states>>

Request ==
    \/ ReadPfz \/ ReadAlerts \/ ReadAdvisories
    \/ ReadPoints("observations", "observation") \/ ReadPoints("forecasts", "forecast")
    \/ CountZones \/ ReadZones \/ ReadCoverage \/ ReadStates \/ Commit \/ Fails

\* The caller has read the answer.
Delivered ==
    /\ answer # NoAnswer
    /\ answer' = NoAnswer
    /\ evidence' = NoEvidence
    /\ UNCHANGED <<endpoint, clock, polls, flight, rows, states, req>>

Next ==
    Tick \/ Worker \/ Begin \/ Refuse \/ Request \/ Delivered

Spec == Init /\ [][Next]_vars
-----------------------------------------------------------------------------
Statements == DOMAIN TableOf \union {"loaded", "coverage", "states", "commit"}

PollStates == {"success", "empty", "degraded"} \union BlockedStates

Outcomes ==
    {"available", "partial", "healthy_empty", "source_gap", "auth_blocked", "contract_unavailable",
     "license_gated", "source_unavailable", "disabled", "not_ingested"}

PlaceKinds == {"none", "point", "radius"}

Requests ==
    [todo : Seq(Statements) \ {<<>>}, place : PlaceKinds, at : Int, found : SUBSET rows,
     alerts : SUBSET rows, loaded : BOOLEAN, coverage : SUBSET ZoneCategories,
     seen : SUBSET PollStates, due : SUBSET rows]

Answers ==
    [kind : {"ok"}, rows : SUBSET rows, outcome : Outcomes, seen : SUBSET PollStates, at : Int,
     due : SUBSET rows, place : PlaceKinds, persisted : BOOLEAN]

\* What a request holds, answers and puts on record are rows of the tables and
\* named states; it never runs past its COMMIT, and every endpoint derives an
\* outcome, whatever it found.
TypeOK ==
    /\ endpoint \in Endpoints
    /\ clock \in Nat \ {0}
    /\ polls \in Nat
    /\ \A poll \in flight : poll.at \in 1 .. clock /\ poll.state \in PollStates
    /\ states \in [Consulted -> PollStates]
    /\ req = Idle \/ req \in Requests
    /\ evidence = NoEvidence \/ evidence \in [refs : SUBSET rows, outcome : Outcomes]
    /\ answer \in {NoAnswer, [kind |-> "refused"], [kind |-> "error"]} \union Answers
-----------------------------------------------------------------------------
Answered == answer.kind = "ok"

\* An empty answer that owns up to no gap ("available" or "healthy_empty") is
\* given only when every source it consulted was last seen to answer, and when
\* no row that was stored before the request began and still applies matches:
\* "no data" is never mistaken for "nothing there" by the MCP server and the
\* REST API (_source_outcome, _zone_outcome, _geofence_envelope).
EmptyAnswersAdmitGaps ==
    (/\ Answered
     /\ endpoint.outcome \in {"source", "zones"}
     /\ answer.rows = {}
     /\ answer.outcome \in {"available", "healthy_empty"})
    => /\ answer.seen \cap BlockedStates = {}
       /\ \A r \in answer.due : r.table \in TablesRead =>
             /\ r.table = "alert" => ~Active(r, clock)
             /\ r.table \in {"observation", "forecast"} =>
                  \/ r.kind \notin endpoint.kinds
                  \/ /\ answer.at # Never
                     /\ r.from \notin answer.at - WindowTicks .. answer.at + WindowTicks

\* Whoever got an answer can retrieve its evidence: the row was committed before
\* the answer left, with the same records and outcome; only a computation whose
\* audit failed is answered without, and it says so (_persist_evidence,
\* _persist_standalone_evidence, session_scope, get_db).
AnswersAreAudited ==
    (Answered /\ endpoint.channel # "agent" /\ answer.persisted)
    => evidence = [refs |-> answer.rows, outcome |-> answer.outcome]

\* A PFZ answer never shows a superseded snapshot once rows of a newer one were
\* stored before the request began, whatever the order in which the workers
\* that fetched them committed (query_pfz).
NewestSnapshotIsShown ==
    Answered => \A r \in answer.rows, s \in answer.due :
        r.table = "pfz" /\ s.table = "pfz" => r.snapshot >= s.snapshot

\* A page of alerts leaves out an alert that was stored before the request began
\* and is still in force only when it is full of alerts that are no farther
\* away (query_alerts).
AlertPagesKeepTheNearest ==
    (Answered /\ endpoint.todo[1] = "alerts")
    => \A r \in answer.due \ answer.rows :
          r.table = "alert" /\ Active(r, clock) =>
            /\ Cardinality(answer.rows) = PageLimit
            /\ answer.place # "none" => \A s \in answer.rows : SortKey(s) <= SortKey(r)
=============================================================================
