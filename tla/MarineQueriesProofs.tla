------------------------ MODULE MarineQueriesProofs ------------------------
(******************************************************************************)
(* Proofs that the answers of the read path keep their promises, for every    *)
(* endpoint, any feeds, any page limit, radius and window, and any number of  *)
(* polls that commit between the statements of a request.                     *)
(*                                                                            *)
(* The promises relate an answer to the rows that were stored when the        *)
(* request began (due).  Rows are only ever added and the clock only advances, *)
(* so what a statement selects from a later, larger table still measures up   *)
(* to those rows; the inductive invariant says so between any two statements. *)
(******************************************************************************)
EXTENDS MarineQueries, FiniteSetTheorems, WellFoundedInduction, TLAPS

Served == req # Idle

(* The columns the selections compare. *)
RowInv ==
    /\ \A r \in rows :
          /\ r.table # "pfz" => r.geom \in Int /\ r.from \in Int /\ r.until \in Int
          /\ r.table = "pfz" => r.snapshot \in 1 .. clock /\ r.retrieved = r.snapshot
    /\ IsFiniteSet({r \in rows : r.table = "alert"})

(* Snapshots on their way carry the time they were fetched at. *)
FlightInv ==
    \A poll \in flight :
        /\ poll.at \in 1 .. clock
        /\ "incois_pfz" \in Datasets /\ poll.records \in FeedOf["incois_pfz"]

RequestFields ==
    {"todo", "place", "at", "found", "alerts", "loaded", "coverage", "seen", "due"}

(* A request is a record of its results, its time is one the endpoint takes  *)
(* and the rows it is held to are in the table.                              *)
RequestInv ==
    Served =>
        /\ req = [f \in RequestFields |-> req[f]]
        /\ req.at \in Int
        /\ endpoint.todo[1] = "alerts" => req.at <= clock
        /\ \A r \in req.due :
              /\ r \in rows /\ r.quality # "rejected" /\ Readable(r)
              /\ req.place = "radius" => r.geom <= RadiusKm

(* How far a request that reads one table has come: nothing is found before *)
(* the table is read, and nothing is read after it but the dataset states.  *)
ProgressInv ==
    Served /\ (endpoint.todo[1] = "alerts" \/ endpoint.outcome = "source") =>
        /\ req.todo \in {endpoint.todo, <<"states", "commit">>, <<"commit">>}
        /\ req.todo = endpoint.todo => req.found = {}

(* No row that is due counts as newer than one that was found. *)
SnapshotInv ==
    Served => \A r \in req.found, s \in req.due :
        r.table = "pfz" /\ s.table = "pfz" => r.snapshot >= s.snapshot

PageKeepsNearest(found, due, place, now) ==
    \A r \in due \ found :
        r.table = "alert" /\ Active(r, now) =>
            /\ Cardinality(found) = PageLimit
            /\ place # "none" => \A s \in found : SortKey(s) <= SortKey(r)

(* Once the alerts are read, the page is full of nearer ones or complete. *)
PageInv ==
    Served /\ endpoint.todo[1] = "alerts" /\ req.todo # endpoint.todo =>
        PageKeepsNearest(req.found, req.due, req.place, clock)

OutsideWindow(r, kinds, at) ==
    \/ r.kind \notin kinds
    \/ at # Never /\ r.from \notin at - WindowTicks .. at + WindowTicks

(* Once the points are read and none was found, none that is due matches. *)
PointInv ==
    (/\ Served /\ endpoint.outcome = "source" /\ req.todo # endpoint.todo
     /\ endpoint.todo[1] \in {"observations", "forecasts"}
     /\ req.found = {}) =>
        \A r \in req.due : r.table = TableOf[endpoint.todo[1]] =>
            OutsideWindow(r, endpoint.kinds, req.at)

(* An answer is given when the request is over, and the promises hold of it. *)
AnswerInv ==
    /\ Served => answer = NoAnswer
    /\ EmptyAnswersAdmitGaps
    /\ AnswersAreAudited
    /\ NewestSnapshotIsShown
    /\ AlertPagesKeepTheNearest

TypeInv ==
    /\ endpoint \in AllEndpoints
    /\ clock \in Nat \ {0}

IInv ==
    /\ TypeInv
    /\ RowInv
    /\ FlightInv
    /\ RequestInv
    /\ ProgressInv
    /\ SnapshotInv
    /\ PageInv
    /\ PointInv
    /\ AnswerInv

-----------------------------------------------------------------------------
(* Operators *)

(* A non-empty set of naturals with an upper bound has a largest element. *)
LEMMA LargestExists ==
    ASSUME NEW N \in Nat, NEW T \in SUBSET (0 .. N), T # {}
    PROVE  \E m \in T : \A t \in T : t <= m
<1> DEFINE U == {N - t : t \in T}
           R == OpToRel(<, Nat)
<1>1. U \subseteq Nat /\ U # {}
  <2>1. PICK t \in T : TRUE
    OBVIOUS
  <2>2. N - t \in U
    BY <2>1
  <2>3. \A u \in U : u \in Nat
    OBVIOUS
  <2> QED
    BY <2>2, <2>3
<1>2. IsWellFoundedOn(R, Nat)
  BY NatLessThanWellFounded
<1> HIDE DEF R
<1>3. \E x \in U : \A y \in U : ~ (<<y, x>> \in R)
  <2> HIDE DEF U
  <2> QED
    BY <1>1, <1>2, WFMin
<1>4. PICK x \in U : \A y \in U : ~ (<<y, x>> \in R)
  BY <1>3
<1>5. \A y \in U : ~ (y < x)
  BY <1>1, <1>4 DEF R, OpToRel
<1>6. PICK m \in T : x = N - m
  BY <1>4
<1>7. \A t \in T : N - t \in U
  OBVIOUS
<1>8. \A t \in T : ~ (N - t < N - m)
  BY <1>5, <1>6, <1>7
<1> QED
  BY <1>8

(* query_pfz answers from the newest snapshot of the table. *)
LEMMA SnapshotIsLatest ==
    ASSUME NEW pfz, NEW now \in Nat,
           \A r \in pfz : r.snapshot \in 1 .. now /\ r.retrieved = r.snapshot,
           NEW r \in LatestSnapshot(pfz), NEW s \in pfz
    PROVE  r \in pfz /\ r.snapshot >= s.snapshot
<1> DEFINE last == {x \in pfz : \A y \in pfz : y.retrieved <= x.retrieved}
           T == {x.retrieved : x \in pfz}
           newest == CHOOSE x \in last : TRUE
<1>1. {x \in pfz : x.snapshot # Never} = pfz
  BY DEF Never
<1>2. r \in pfz /\ r.snapshot = newest.snapshot
  BY <1>1 DEF LatestSnapshot
<1>3. T \in SUBSET (0 .. now) /\ T # {}
  OBVIOUS
<1>4. \E m \in T : \A t \in T : t <= m
  BY <1>3, LargestExists
<1>5. last # {}
  BY <1>4
<1>6. newest \in last
  BY <1>5
<1>7. s.retrieved <= newest.retrieved
  BY <1>6
<1> QED
  BY <1>2, <1>6, <1>7

(* A page of query_alerts leaves out a match only when it is full of nearer ones. *)
LEMMA PageIsNearest ==
    ASSUME NEW M, IsFiniteSet(M), NEW place, NEW page \in Pages(M, place),
           NEW r \in M \ page
    PROVE  /\ Cardinality(page) = PageLimit
           /\ place # "none" => \A s \in page : SortKey(s) <= SortKey(r)
<1>1. page \in SUBSET M /\ Cardinality(page) = Min({PageLimit, Cardinality(M)})
  BY DEF Pages
<1>2. Cardinality(M) \in Nat
  BY FS_CardinalityType
<1>3. Cardinality(M) # Cardinality(page)
  BY <1>1, FS_Subset
<1>4. Min({PageLimit, Cardinality(M)}) \in {PageLimit, Cardinality(M)}
  <2> DEFINE c == Cardinality(M)
  <2>1. c \in Nat /\ PageLimit \in Nat
    BY <1>2, QueryAssumption
  <2> HIDE DEF c
  <2>2. \E x \in {PageLimit, c} : \A y \in {PageLimit, c} : x <= y
    BY <2>1
  <2>3. Min({PageLimit, c}) \in {PageLimit, c}
    BY <2>2 DEF Min
  <2> QED
    BY <2>3 DEF c
<1>5. place # "none" => \A s \in page : SortKey(s) <= SortKey(r)
  BY DEF Pages
<1> QED
  BY <1>1, <1>3, <1>4, <1>5

(* _source_outcome gives no clean empty answer while a source is blocked. *)
LEMMA CleanEmptyMeaning ==
    ASSUME NEW found, NEW sources, found = {},
           SourceOutcome(found # {}, sources) \in {"available", "healthy_empty"}
    PROVE  sources \cap BlockedStates = {}
  BY DEF SourceOutcome, BlockedStates

(* Nor does _zone_outcome. *)
LEMMA CleanZonesMeaning ==
    ASSUME NEW coverage, NEW sources, NEW loaded,
           ZoneOutcome({}, coverage, sources, loaded) \in {"available", "healthy_empty"}
    PROVE  sources \cap BlockedStates = {}
<1>1. ZoneWarned({}, coverage, sources, loaded)
  BY DEF ZoneWarned
<1> DEFINE eez == SourceOutcome(\E z \in {} : z.kind = "eez_boundary", sources)
<1>2. eez \in {"available", "healthy_empty"}
  <2> HIDE DEF eez
  <2>1. ZoneOutcome({}, coverage, sources, loaded)
          = IF eez \notin {"available", "partial"} THEN eez ELSE "source_gap"
    BY <1>1 DEF ZoneOutcome, eez
  <2> QED
    BY <2>1
<1> QED
  BY <1>2 DEF SourceOutcome, BlockedStates

(* The shapes of the endpoints that the arguments below tell apart. *)
LEMMA EndpointShape ==
    ASSUME NEW e \in AllEndpoints
    PROVE  /\ e.outcome = "source" =>
                \E t \in {"pfz", "alerts", "observations", "forecasts"} :
                    e.todo = <<t, "states", "commit">>
           /\ e.outcome = "zones" =>
                \E s \in {"inside", "nearby", "crossed"} :
                    e.todo = <<"loaded", s, "coverage", "states", "commit">>
           /\ e.outcome = "computed" => e.todo = <<"commit">>
           /\ e.todo[1] = "alerts" =>
                e.todo \in {<<"alerts", "states", "commit">>, <<"alerts", "commit">>}
  BY DEF AllEndpoints, McpQueryPfz, McpQueryAlerts, McpQueryObservations, McpQueryForecasts,
     McpCheckGeofence, McpFindNearbyZones, McpPlanSafeRoute, McpComputation,
     FishingPfz, Alerts, OceanConditions, OceanForecast, WeatherConditions,
     WeatherForecast, Tides, FishingAdvisories, GeofenceCheck, GeofenceNearby,
     GeofenceIntersections, RoutesSafe, RiskMarine, FishingSuitability,
     ToolQueryPfz, ToolQueryAlerts, ToolQueryObservations, ToolQueryForecasts,
     ToolCheckGeofence, ToolFindNearbyZones, Endpoint, McpQuery, McpZones, RestQuery,
     RestZones, AgentTool

-----------------------------------------------------------------------------
(* What the steps have in common *)

OneTable(e) == e.todo[1] = "alerts" \/ e.outcome = "source"

Shaped(q) == q = [f \in RequestFields |-> q[f]]

(* Where a request that reads one table may be: before the table, or after it. *)
LEMMA StatementOf ==
    ASSUME NEW e \in AllEndpoints, OneTable(e),
           NEW todo \in {e.todo, <<"states", "commit">>, <<"commit">>}
    PROVE  /\ e.todo[1] \in {"pfz", "alerts", "observations", "forecasts"}
           /\ e.todo \notin {<<"states", "commit">>, <<"commit">>}
           /\ \/ /\ todo = e.todo /\ Head(todo) = e.todo[1]
                 /\ Tail(todo) \in {<<"states", "commit">>, <<"commit">>}
              \/ todo = <<"states", "commit">> /\ Head(todo) = "states" /\ Tail(todo) = <<"commit">>
              \/ todo = <<"commit">> /\ Head(todo) = "commit"
<1>1. \E t \in {"pfz", "alerts", "observations", "forecasts"} :
         e.todo \in {<<t, "states", "commit">>, <<t, "commit">>}
  <2>1. CASE e.outcome = "source"
    BY <2>1, EndpointShape
  <2>2. CASE e.todo[1] = "alerts"
    BY <2>2, EndpointShape
  <2> QED
    BY <2>1, <2>2 DEF OneTable
<1>2. PICK t \in {"pfz", "alerts", "observations", "forecasts"} :
         e.todo \in {<<t, "states", "commit">>, <<t, "commit">>}
  BY <1>1
<1>3. /\ e.todo[1] = t /\ Head(e.todo) = t
      /\ Tail(e.todo) \in {<<"states", "commit">>, <<"commit">>}
      /\ e.todo \notin {<<"states", "commit">>, <<"commit">>}
  <2>1. CASE e.todo = <<t, "states", "commit">>
    <3>1. /\ Head(<<t, "states", "commit">>) = t
          /\ Tail(<<t, "states", "commit">>) = <<"states", "commit">>
          /\ <<t, "states", "commit">>[1] = t
      OBVIOUS
    <3>2. <<"states", "commit">>[1] = "states" /\ <<"commit">>[1] = "commit"
      OBVIOUS
    <3> QED
      BY <2>1, <3>1, <3>2
  <2>2. CASE e.todo = <<t, "commit">>
    <3>1. /\ Head(<<t, "commit">>) = t
          /\ Tail(<<t, "commit">>) = <<"commit">>
          /\ <<t, "commit">>[1] = t
      OBVIOUS
    <3>2. <<"states", "commit">>[1] = "states" /\ <<"commit">>[1] = "commit"
      OBVIOUS
    <3> QED
      BY <2>2, <3>1, <3>2
  <2> QED
    BY <1>2, <2>1, <2>2
<1>4. Head(<<"states", "commit">>) = "states" /\ Tail(<<"states", "commit">>) = <<"commit">>
  OBVIOUS
<1>5. Head(<<"commit">>) = "commit"
  OBVIOUS
<1> QED
  BY <1>3, <1>4, <1>5

(* Without an answer there is nothing to promise. *)
LEMMA SilentAnswer ==
    ASSUME answer' = NoAnswer
    PROVE  AnswerInv'
<1>1. ~ Answered'
  BY DEF Answered, NoAnswer
<1> QED
  BY <1>1 DEF AnswerInv, EmptyAnswersAdmitGaps, AnswersAreAudited, NewestSnapshotIsShown,
     AlertPagesKeepTheNearest

(* Time and new rows leave a request as good as it was. *)
LEMMA WorldStep ==
    ASSUME IInv, answer = NoAnswer, UNCHANGED <<endpoint, req, answer>>,
           rows \subseteq rows', clock' \in Nat, clock <= clock'
    PROVE  RequestInv' /\ ProgressInv' /\ SnapshotInv' /\ PageInv' /\ PointInv' /\ AnswerInv'
<1>0. clock \in Nat /\ req' = req /\ endpoint' = endpoint
  BY DEF IInv, TypeInv
<1>1. RequestInv'
  BY <1>0 DEF IInv, RequestInv, Served
<1>2. ProgressInv'
  BY <1>0 DEF IInv, ProgressInv, Served
<1>3. SnapshotInv'
  BY <1>0 DEF IInv, SnapshotInv, Served
<1>4. PageInv'
  <2> SUFFICES ASSUME Served, endpoint.todo[1] = "alerts", req.todo # endpoint.todo,
                      NEW r \in req.due \ req.found, r.table = "alert", Active(r, clock')
               PROVE  /\ Cardinality(req.found) = PageLimit
                      /\ req.place # "none" => \A s \in req.found : SortKey(s) <= SortKey(r)
    BY <1>0 DEF PageInv, PageKeepsNearest, Served
  <2>1. r \in rows
    BY DEF IInv, RequestInv
  <2>2. r.until \in Int
    BY <2>1 DEF IInv, RowInv
  <2>3. Active(r, clock)
    BY <1>0, <2>2 DEF Active
  <2> QED
    BY <2>3 DEF IInv, PageInv, PageKeepsNearest
<1>5. PointInv'
  BY <1>0 DEF IInv, PointInv, Served
<1>6. AnswerInv'
  BY SilentAnswer
<1> QED
  BY <1>1, <1>2, <1>3, <1>4, <1>5, <1>6

(* A statement of a request: only what is found can go wrong. *)
LEMMA StatementStep ==
    ASSUME IInv, Served, NEW q, Shaped(q), Proceed(q),
           q.at = req.at, q.place = req.place, q.due = req.due,
           OneTable(endpoint) => Head(req.todo) # "commit" /\ q.todo = req.todo,
           \A r \in q.found, s \in req.due :
              r.table = "pfz" /\ s.table = "pfz" => r.snapshot >= s.snapshot,
           OneTable(endpoint) /\ Head(req.todo) = "states" => q.found = req.found,
           OneTable(endpoint) /\ req.todo = endpoint.todo =>
              /\ endpoint.todo[1] = "alerts" =>
                    PageKeepsNearest(q.found, req.due, req.place, clock)
              /\ endpoint.todo[1] \in {"observations", "forecasts"} /\ q.found = {} =>
                    \A r \in req.due : r.table = TableOf[endpoint.todo[1]] =>
                        OutsideWindow(r, endpoint.kinds, req.at)
    PROVE  IInv'
<1>1. /\ req' = [q EXCEPT !.todo = Tail(@)]
      /\ UNCHANGED <<endpoint, clock, polls, flight, rows, states, evidence, answer>>
  BY DEF Proceed
<1>2. /\ Shaped(req')
      /\ req'.todo = Tail(q.todo) /\ req'.at = req.at /\ req'.place = req.place
      /\ req'.due = req.due /\ req'.found = q.found
  BY <1>1 DEF Shaped, RequestFields
<1>3. TypeInv' /\ RowInv' /\ FlightInv'
  BY <1>1 DEF IInv, TypeInv, RowInv, FlightInv
<1>4. AnswerInv'
  BY <1>1, SilentAnswer DEF IInv, AnswerInv
<1>5. RequestInv'
  BY <1>1, <1>2 DEF IInv, RequestInv, Shaped, Served
<1>6. SnapshotInv'
  BY <1>1, <1>2 DEF SnapshotInv
<1>7. CASE ~ OneTable(endpoint)
  <2>1. ProgressInv' /\ PageInv' /\ PointInv'
    BY <1>1, <1>7 DEF ProgressInv, PageInv, PointInv, OneTable
  <2> QED
    BY <1>3, <1>4, <1>5, <1>6, <2>1 DEF IInv
<1>8. CASE OneTable(endpoint)
  <2>0. endpoint \in AllEndpoints /\ req.todo \in {endpoint.todo, <<"states", "commit">>, <<"commit">>}
    BY <1>8 DEF IInv, TypeInv, ProgressInv, OneTable
  <2>1. \/ /\ req.todo = endpoint.todo /\ Head(req.todo) = endpoint.todo[1]
           /\ Tail(req.todo) \in {<<"states", "commit">>, <<"commit">>}
        \/ req.todo = <<"states", "commit">> /\ Head(req.todo) = "states" /\ Tail(req.todo) = <<"commit">>
    BY <1>8, <2>0, StatementOf
  <2>2. endpoint.todo \notin {<<"states", "commit">>, <<"commit">>}
    BY <1>8, <2>0, StatementOf
  <2>3. req'.todo \in {<<"states", "commit">>, <<"commit">>} /\ req'.todo # endpoint.todo
    BY <1>2, <1>8, <2>1, <2>2
  <2>4. ProgressInv'
    BY <1>1, <2>3 DEF ProgressInv
  <2>5. PageInv'
    <3> SUFFICES ASSUME endpoint.todo[1] = "alerts"
                 PROVE  PageKeepsNearest(q.found, req.due, req.place, clock)
      BY <1>1, <1>2 DEF PageInv
    <3> QED
      BY <1>8, <2>1, <2>2 DEF IInv, PageInv
  <2>6. PointInv'
    <3> SUFFICES ASSUME endpoint.outcome = "source", q.found = {},
                        endpoint.todo[1] \in {"observations", "forecasts"},
                        NEW r \in req.due, r.table = TableOf[endpoint.todo[1]]
                 PROVE  OutsideWindow(r, endpoint.kinds, req.at)
      BY <1>1, <1>2 DEF PointInv
    <3> QED
      BY <1>8, <2>1, <2>2 DEF IInv, PointInv
  <2> QED
    BY <1>3, <1>4, <1>5, <1>6, <2>4, <2>5, <2>6 DEF IInv
<1> QED
  BY <1>7, <1>8

-----------------------------------------------------------------------------
(* The workers *)

(* A poll only reads feeds that are there. *)
LEMMA PolledAreDatasets == Polled \subseteq Datasets
  BY DEF Polled, Consulted

(* Rows that are not fishing zones join the table as they are parsed. *)
LEMMA RowsJoin ==
    ASSUME IInv, clock' = clock, NEW new, rows' = rows \union new,
           \A r \in new : r.table # "pfz" => r.geom \in Int /\ r.from \in Int /\ r.until \in Int,
           \A r \in new : r.table = "pfz" => r.snapshot \in 1 .. clock /\ r.retrieved = r.snapshot,
           IsFiniteSet({r \in new : r.table = "alert"})
    PROVE  RowInv'
<1>1. {r \in rows' : r.table = "alert"}
        = {r \in rows : r.table = "alert"} \cup {r \in new : r.table = "alert"}
  OBVIOUS
<1>2. IsFiniteSet({r \in rows : r.table = "alert"})
  BY DEF IInv, RowInv
<1>3. IsFiniteSet({r \in rows' : r.table = "alert"})
  <2> DEFINE A == {r \in rows : r.table = "alert"}
             B == {r \in new : r.table = "alert"}
             C == {r \in rows' : r.table = "alert"}
  <2>1. IsFiniteSet(A) /\ IsFiniteSet(B) /\ C = A \cup B
    BY <1>1, <1>2
  <2> HIDE DEF A, B, C
  <2>2. IsFiniteSet(C)
    BY <2>1, FS_Union
  <2> QED
    BY <2>2 DEF C
<1> QED
  BY <1>3 DEF IInv, RowInv

(* Time passes. *)
LEMMA TickKeeps ==
    ASSUME IInv, Tick
    PROVE  IInv'
<1>1. clock' = clock + 1 /\ clock \in Nat /\ clock' \in Nat \ {0} /\ clock <= clock'
  BY DEF IInv, TypeInv, Tick
<1>2. TypeInv'
  BY <1>1 DEF IInv, TypeInv, Tick
<1>3. RowInv' /\ FlightInv'
  BY <1>1 DEF IInv, RowInv, FlightInv, Tick
<1> QED
  BY <1>1, <1>2, <1>3, WorldStep DEF IInv, Tick, Quiet

(* A step of a worker, between two statements of a request. *)
LEMMA WorkerKeeps ==
    ASSUME IInv, Worker
    PROVE  IInv'
<1>0. clock \in Nat /\ clock >= 1
  BY DEF IInv, TypeInv
<1>1. CASE FetchPfz
  <2>1. "incois_pfz" \in Datasets
    BY <1>1, PolledAreDatasets DEF FetchPfz
  <2>2. FlightInv'
    BY <1>0, <1>1, <2>1 DEF IInv, FlightInv, FetchPfz
  <2>3. TypeInv' /\ RowInv'
    BY <1>1 DEF IInv, TypeInv, RowInv, FetchPfz
  <2>4. RequestInv' /\ ProgressInv' /\ SnapshotInv' /\ PageInv' /\ PointInv' /\ AnswerInv'
    BY <1>0, <1>1, WorldStep DEF FetchPfz, Poll, Quiet
  <2> QED
    BY <2>2, <2>3, <2>4 DEF IInv
<1>2. ASSUME NEW poll \in flight, IngestPfz(poll)
      PROVE  IInv'
  <2> DEFINE Stamp(r) == [r EXCEPT !.snapshot = poll.at, !.retrieved = poll.at]
             new == {Stamp(r) : r \in poll.records}
  <2>1. /\ poll.at \in 1 .. clock
        /\ "incois_pfz" \in Datasets /\ poll.records \in FeedOf["incois_pfz"]
    BY DEF IInv, FlightInv
  <2>2. \A r \in poll.records :
           r.table = "pfz" /\ {"table", "snapshot", "retrieved"} \subseteq DOMAIN r
    BY <2>1, FeedAssumption
  <2>3. \A s \in new : s.table = "pfz" /\ s.snapshot = poll.at /\ s.retrieved = poll.at
    <3>1. ASSUME NEW r \in poll.records
          PROVE  Stamp(r).table = "pfz" /\ Stamp(r).snapshot = poll.at /\ Stamp(r).retrieved = poll.at
      <4>1. r.table = "pfz" /\ {"table", "snapshot", "retrieved"} \subseteq DOMAIN r
        BY <2>2
      <4> QED
        BY <4>1
    <3> HIDE DEF Stamp
    <3> QED
      BY <3>1
  <2>4. rows' = rows \union new /\ clock' = clock
    BY <1>2 DEF IngestPfz
  <2> HIDE DEF new
  <2>5. {r \in new : r.table = "alert"} = {}
    BY <2>3
  <2>6. RowInv'
    BY <2>1, <2>3, <2>4, <2>5, RowsJoin, FS_EmptySet
  <2>7. TypeInv' /\ FlightInv'
    BY <1>2 DEF IInv, TypeInv, FlightInv, IngestPfz
  <2>8. RequestInv' /\ ProgressInv' /\ SnapshotInv' /\ PageInv' /\ PointInv' /\ AnswerInv'
    <3>1. answer = NoAnswer /\ UNCHANGED <<endpoint, req, answer>>
      BY <1>2 DEF IngestPfz, Quiet
    <3> QED
      BY <1>0, <2>4, <3>1, WorldStep
  <2> QED
    BY <2>6, <2>7, <2>8 DEF IInv
<1>3. ASSUME NEW ds \in Polled \ {"incois_pfz"}, Ingest(ds)
      PROVE  IInv'
  <2>1. PICK records \in FeedOf[ds] : rows' = rows \union records
    BY <1>3 DEF Ingest
  <2>2. /\ IsFiniteSet(records)
        /\ \A r \in records : /\ r.geom \in Int /\ r.from \in Int /\ r.until \in Int
                              /\ r.table # "pfz"
    BY PolledAreDatasets, FeedAssumption
  <2>3. IsFiniteSet({r \in records : r.table = "alert"})
    BY <2>2, FS_Subset
  <2>4. RowInv'
    BY <1>3, <2>1, <2>2, <2>3, RowsJoin DEF Ingest
  <2>5. TypeInv' /\ FlightInv'
    BY <1>3 DEF IInv, TypeInv, FlightInv, Ingest
  <2>6. RequestInv' /\ ProgressInv' /\ SnapshotInv' /\ PageInv' /\ PointInv' /\ AnswerInv'
    BY <1>0, <1>3, <2>1, WorldStep DEF Ingest, Poll, Quiet
  <2> QED
    BY <2>4, <2>5, <2>6 DEF IInv
<1>4. ASSUME NEW ds \in Consulted, RecordSourceError(ds)
      PROVE  IInv'
  <2>1. TypeInv' /\ RowInv' /\ FlightInv'
    BY <1>4 DEF IInv, TypeInv, RowInv, FlightInv, RecordSourceError
  <2>2. RequestInv' /\ ProgressInv' /\ SnapshotInv' /\ PageInv' /\ PointInv' /\ AnswerInv'
    BY <1>0, <1>4, WorldStep DEF RecordSourceError, Poll, Quiet
  <2> QED
    BY <2>1, <2>2 DEF IInv
<1> QED
  BY <1>1, <1>2, <1>3, <1>4 DEF Worker

-----------------------------------------------------------------------------
(* The statements of a request *)

(* query_pfz on a table that has every row that is due. *)
LEMMA ReadPfzKeeps ==
    ASSUME IInv, ReadPfz
    PROVE  IInv'
<1> DEFINE page == QueryPfz(rows, Now)
           q == [req EXCEPT !.found = @ \union page]
<1>1. Served /\ Head(req.todo) = "pfz" /\ Proceed(q)
  BY DEF ReadPfz, Doing, Served
<1>2. Shaped(req)
  BY <1>1 DEF IInv, RequestInv, Shaped
<1>3. /\ Shaped(q) /\ q.at = req.at /\ q.place = req.place /\ q.due = req.due
      /\ q.todo = req.todo /\ q.found = req.found \union page
  BY <1>2 DEF Shaped, RequestFields
<1>4. ASSUME NEW r \in page, NEW s \in req.due, s.table = "pfz"
      PROVE  r.snapshot >= s.snapshot
  <2> DEFINE pfz == Accepted(rows, "pfz")
  <2>1. clock \in Nat /\ \A x \in pfz : x.snapshot \in 1 .. clock /\ x.retrieved = x.snapshot
    BY DEF IInv, TypeInv, RowInv, Accepted
  <2>2. s \in pfz
    BY <1>1, <1>4 DEF IInv, RequestInv, Accepted
  <2>3. r \in LatestSnapshot(pfz)
    BY <1>4 DEF QueryPfz
  <2> HIDE DEF pfz
  <2> QED
    BY <2>1, <2>2, <2>3, SnapshotIsLatest
<1>5. \A r \in q.found, s \in req.due :
         r.table = "pfz" /\ s.table = "pfz" => r.snapshot >= s.snapshot
  BY <1>1, <1>3, <1>4 DEF IInv, SnapshotInv
<1>6. OneTable(endpoint) /\ req.todo = endpoint.todo => endpoint.todo[1] = "pfz"
  BY <1>1, StatementOf DEF IInv, TypeInv
<1> HIDE DEF q, page
<1> QED
  BY <1>1, <1>3, <1>5, <1>6, StatementStep

(* A request with more found is still a request. *)
LEMMA FoundMore ==
    ASSUME Shaped(req), NEW F, NEW q, q = [req EXCEPT !.found = F]
    PROVE  /\ Shaped(q) /\ q.at = req.at /\ q.place = req.place /\ q.due = req.due
           /\ q.todo = req.todo /\ q.found = F
  BY DEF Shaped, RequestFields

(* Which statement a request for one table is at. *)
LEMMA StatementNow ==
    ASSUME IInv, Served, OneTable(endpoint)
    PROVE  /\ \/ req.todo = endpoint.todo /\ Head(req.todo) = endpoint.todo[1]
              \/ req.todo # endpoint.todo /\ Head(req.todo) \in {"states", "commit"}
           /\ endpoint.todo[1] \in {"pfz", "alerts", "observations", "forecasts"}
<1>1. endpoint \in AllEndpoints /\ req.todo \in {endpoint.todo, <<"states", "commit">>, <<"commit">>}
  BY DEF IInv, TypeInv, ProgressInv, OneTable
<1> QED
  BY <1>1, StatementOf

(* query_alerts: a page at the time of the statement. *)
LEMMA ReadAlertsKeeps ==
    ASSUME IInv, ReadAlerts
    PROVE  IInv'
<1>1. PICK page \in QueryAlerts(rows, req.place, Now) :
         Proceed([req EXCEPT !.found = @ \union page, !.alerts = page])
  BY DEF ReadAlerts
<1> DEFINE q == [req EXCEPT !.found = @ \union page, !.alerts = page]
<1>2. Served /\ Head(req.todo) = "alerts" /\ Proceed(q)
  BY <1>1 DEF ReadAlerts, Doing, Served
<1>3. Shaped(req)
  BY <1>2 DEF IInv, RequestInv, Shaped
<1>4. /\ Shaped(q) /\ q.at = req.at /\ q.place = req.place /\ q.due = req.due
      /\ q.todo = req.todo /\ q.found = req.found \union page
  BY <1>3 DEF Shaped, RequestFields
<1> DEFINE M == {r \in Accepted(rows, "alert") : AlertMatches(r, req.place, Now)}
<1>5. page \in Pages(M, req.place) /\ page \subseteq M
  BY DEF QueryAlerts, Pages
<1>6. \A r \in page : r.table = "alert"
  BY <1>5 DEF Accepted
<1>7. \A r \in q.found, s \in req.due :
         r.table = "pfz" /\ s.table = "pfz" => r.snapshot >= s.snapshot
  BY <1>2, <1>4, <1>6 DEF IInv, SnapshotInv
<1>8. ASSUME OneTable(endpoint), req.todo = endpoint.todo
      PROVE  /\ endpoint.todo[1] = "alerts"
             /\ PageKeepsNearest(q.found, req.due, req.place, clock)
  <2>1. endpoint.todo[1] = "alerts"
    BY <1>2, <1>8, StatementNow
  <2>2. q.found = page
    BY <1>2, <1>4, <1>8, <2>1 DEF IInv, ProgressInv
  <2>3. IsFiniteSet(M)
    <3>1. M \in SUBSET {r \in rows : r.table = "alert"}
      BY DEF Accepted
    <3>2. IsFiniteSet({r \in rows : r.table = "alert"})
      BY DEF IInv, RowInv
    <3> HIDE DEF M
    <3> QED
      BY <3>1, <3>2, FS_Subset
  <2>4. ASSUME NEW r \in req.due \ page, r.table = "alert", Active(r, clock)
        PROVE  r \in M
    <3>1. r \in rows /\ r.quality # "rejected" /\ Readable(r)
            /\ (req.place = "radius" => r.geom <= RadiusKm)
      BY <1>2 DEF IInv, RequestInv
    <3>2. r.until \in Int
      BY <2>4, <3>1 DEF IInv, RowInv
    <3>3. Now \in Int /\ Now <= clock
      BY <1>2, <2>1 DEF IInv, RequestInv, TypeInv, Now
    <3>4. Active(r, Now)
      BY <2>4, <3>2, <3>3 DEF Active, IInv, TypeInv
    <3> QED
      BY <2>4, <3>1, <3>4 DEF Accepted, AlertMatches
  <2> HIDE DEF M, q
  <2>5. PageKeepsNearest(page, req.due, req.place, clock)
    BY <1>5, <2>3, <2>4, PageIsNearest DEF PageKeepsNearest
  <2> QED
    BY <2>1, <2>2, <2>5
<1> HIDE DEF q, M
<1> QED
  BY <1>2, <1>4, <1>7, <1>8, StatementStep

(* query_observations and query_forecasts. *)
LEMMA ReadPointsKeeps ==
    ASSUME IInv, NEW statement, NEW table,
           \/ statement = "observations" /\ table = "observation"
           \/ statement = "forecasts" /\ table = "forecast",
           ReadPoints(statement, table)
    PROVE  IInv'
<1> DEFINE points == QueryPoints(rows, table, endpoint.kinds, req.place, req.at)
           q == [req EXCEPT !.found = @ \union points]
<1>1. Served /\ Head(req.todo) = statement /\ Proceed(q)
  BY DEF ReadPoints, Doing, Served
<1>2. Shaped(req)
  BY <1>1 DEF IInv, RequestInv, Shaped
<1>3. /\ Shaped(q) /\ q.at = req.at /\ q.place = req.place /\ q.due = req.due
      /\ q.todo = req.todo /\ q.found = req.found \union points
  <2> HIDE DEF points
  <2> QED
    BY <1>2, FoundMore
<1>4. \A r \in points : r.table # "pfz"
  BY DEF QueryPoints, Accepted
<1>5. \A r \in q.found, s \in req.due :
         r.table = "pfz" /\ s.table = "pfz" => r.snapshot >= s.snapshot
  BY <1>1, <1>3, <1>4 DEF IInv, SnapshotInv
<1>6. ASSUME points = {}, endpoint.todo[1] = statement,
             NEW r \in req.due, r.table = TableOf[endpoint.todo[1]]
      PROVE  OutsideWindow(r, endpoint.kinds, req.at)
  <2>1. r.table = table
    BY <1>6 DEF TableOf
  <2>2. r \in rows /\ r.quality # "rejected" /\ Readable(r)
          /\ (req.place = "radius" => r.geom <= RadiusKm)
    BY <1>1 DEF IInv, RequestInv
  <2>3. r \notin points /\ r \in Accepted(rows, table)
    BY <1>6, <2>1, <2>2 DEF Accepted
  <2>4. r.from \in Int /\ req.at \in Int
    BY <1>1, <2>1, <2>2 DEF IInv, RowInv, RequestInv
  <2> QED
    BY <2>2, <2>3, <2>4, QueryAssumption DEF QueryPoints, OutsideWindow
<1>7. OneTable(endpoint) => req.todo = endpoint.todo /\ endpoint.todo[1] = statement
  BY <1>1, StatementNow
<1> HIDE DEF q, points
<1>8. q.found = {} => points = {}
  BY <1>3
<1> QED
  BY <1>1, <1>3, <1>5, <1>6, <1>7, <1>8, StatementStep

(* A statement that no endpoint for one table executes: it adds no fishing zone. *)
LEMMA OtherStatementKeeps ==
    ASSUME IInv, Served, NEW q, Shaped(q), Proceed(q),
           Head(req.todo) \in {"advisories", "loaded", "inside", "nearby", "crossed", "coverage"},
           q.at = req.at, q.place = req.place, q.due = req.due,
           \A r \in q.found : r \in req.found \/ r.table # "pfz"
    PROVE  IInv'
<1>1. ~ OneTable(endpoint)
  BY StatementNow
<1>2. \A r \in q.found, s \in req.due :
         r.table = "pfz" /\ s.table = "pfz" => r.snapshot >= s.snapshot
  BY DEF IInv, SnapshotInv
<1> QED
  BY <1>1, <1>2, StatementStep

(* query_advisories. *)
LEMMA ReadAdvisoriesKeeps ==
    ASSUME IInv, ReadAdvisories
    PROVE  IInv'
<1> DEFINE new == QueryAdvisories(rows, req.place)
           q == [req EXCEPT !.found = @ \union new]
<1>1. Served /\ Head(req.todo) = "advisories" /\ Proceed(q)
  BY DEF ReadAdvisories, Doing, Served
<1>2. Shaped(req)
  BY <1>1 DEF IInv, RequestInv, Shaped
<1>3. \A r \in new : r.table # "pfz"
  BY DEF QueryAdvisories, Accepted
<1> HIDE DEF new
<1>4. /\ Shaped(q) /\ q.at = req.at /\ q.place = req.place /\ q.due = req.due
      /\ q.found = req.found \union new
  BY <1>2, FoundMore
<1> HIDE DEF q
<1> QED
  BY <1>1, <1>3, <1>4, OtherStatementKeeps

(* check_point_in_zones, find_nearby_zones and find_route_intersections. *)
LEMMA ReadZonesKeeps ==
    ASSUME IInv, ReadZones
    PROVE  IInv'
<1>1. \A z \in CheckPointInZones(rows, clock) \union FindNearbyZones(rows, clock)
                \union FindRouteIntersections(rows, clock) : z.table # "pfz"
  BY DEF CheckPointInZones, FindNearbyZones, FindRouteIntersections, Zones
<1>2. PICK F : /\ Proceed([req EXCEPT !.found = F])
               /\ Served /\ Head(req.todo) \in {"inside", "nearby", "crossed"}
               /\ \A z \in F : z.table # "pfz"
  BY <1>1 DEF ReadZones, Doing, Served
<1> DEFINE q == [req EXCEPT !.found = F]
<1>3. Shaped(req)
  BY <1>2 DEF IInv, RequestInv, Shaped
<1>4. /\ Shaped(q) /\ q.at = req.at /\ q.place = req.place /\ q.due = req.due /\ q.found = F
  BY <1>3, FoundMore
<1>5. Proceed(q)
  BY <1>2
<1> HIDE DEF q
<1> QED
  BY <1>2, <1>4, <1>5, OtherStatementKeeps

(* _zones_loaded, with or without the end of the screening. *)
LEMMA CountZonesKeeps ==
    ASSUME IInv, CountZones
    PROVE  IInv'
<1>1. Served /\ Head(req.todo) = "loaded"
  BY DEF CountZones, Doing, Served
<1>2. Shaped(req)
  BY <1>1 DEF IInv, RequestInv, Shaped
<1>3. PICK q \in {req, [req EXCEPT !.loaded = FALSE, !.todo = Tail(@)]} : Proceed(q)
  BY DEF CountZones
<1>4. /\ Shaped(q) /\ q.at = req.at /\ q.place = req.place /\ q.due = req.due
      /\ q.found = req.found
  BY <1>2, <1>3 DEF Shaped, RequestFields
<1> QED
  BY <1>1, <1>3, <1>4, OtherStatementKeeps

(* The zone coverage. *)
LEMMA ReadCoverageKeeps ==
    ASSUME IInv, ReadCoverage
    PROVE  IInv'
<1>1. PICK c : Served /\ Head(req.todo) = "coverage" /\ Proceed([req EXCEPT !.coverage = c])
  BY DEF ReadCoverage, Doing, Served
<1> DEFINE q == [req EXCEPT !.coverage = c]
<1>2. Shaped(req)
  BY <1>1 DEF IInv, RequestInv, Shaped
<1>3. /\ Shaped(q) /\ q.at = req.at /\ q.place = req.place /\ q.due = req.due
      /\ q.found = req.found
  BY <1>2 DEF Shaped, RequestFields
<1>4. Proceed(q)
  BY <1>1
<1> HIDE DEF q
<1> QED
  BY <1>1, <1>3, <1>4, OtherStatementKeeps

(* get_dataset_source_states. *)
LEMMA ReadStatesKeeps ==
    ASSUME IInv, ReadStates
    PROVE  IInv'
<1>1. PICK c : Served /\ Head(req.todo) = "states" /\ Proceed([req EXCEPT !.seen = c])
  BY DEF ReadStates, Doing, Served
<1> DEFINE q == [req EXCEPT !.seen = c]
<1>2. Shaped(req)
  BY <1>1 DEF IInv, RequestInv, Shaped
<1>3. /\ Shaped(q) /\ q.at = req.at /\ q.place = req.place /\ q.due = req.due
      /\ q.todo = req.todo /\ q.found = req.found
  BY <1>2 DEF Shaped, RequestFields
<1>4. Proceed(q)
  BY <1>1
<1>5. OneTable(endpoint) => req.todo # endpoint.todo
  BY <1>1, StatementNow
<1>6. \A r \in q.found, s \in req.due :
         r.table = "pfz" /\ s.table = "pfz" => r.snapshot >= s.snapshot
  BY <1>1, <1>3 DEF IInv, SnapshotInv
<1> HIDE DEF q
<1> QED
  BY <1>1, <1>3, <1>4, <1>5, <1>6, StatementStep

-----------------------------------------------------------------------------
(* The ends of a request *)

(* The rows that are due are fixed when a request begins. *)
LEMMA BeginKeeps ==
    ASSUME IInv, Begin
    PROVE  IInv'
<1>1. PICK place \in Places, at \in Ats :
         req' = [todo |-> endpoint.todo, place |-> place, at |-> at, found |-> {},
                 alerts |-> {}, loaded |-> TRUE, coverage |-> {}, seen |-> {},
                 due |-> Due(place)]
  BY DEF Begin
<1>2. /\ answer = NoAnswer
      /\ UNCHANGED <<endpoint, clock, polls, flight, rows, states, evidence, answer>>
  BY DEF Begin, Quiet
<1>3. at \in Int /\ (endpoint.todo[1] = "alerts" => at = clock) /\ clock \in Nat
  BY FeedAssumption DEF Ats, IInv, TypeInv, Never
<1> HIDE DEF Due
<1>4. /\ Shaped(req') /\ req'.todo = endpoint.todo /\ req'.found = {} /\ req'.at = at
      /\ req'.place = place /\ req'.due = Due(place)
  BY <1>1 DEF Shaped, RequestFields
<1>5. TypeInv' /\ RowInv' /\ FlightInv'
  BY <1>2 DEF IInv, TypeInv, RowInv, FlightInv
<1>6. RequestInv'
  <2>1. \A r \in Due(place) :
           /\ r \in rows /\ r.quality # "rejected" /\ Readable(r)
           /\ place = "radius" => r.geom <= RadiusKm
    BY DEF Due
  <2> QED
    BY <1>2, <1>3, <1>4, <2>1 DEF RequestInv, Shaped
<1>7. ProgressInv' /\ SnapshotInv' /\ PageInv' /\ PointInv'
  BY <1>2, <1>4 DEF ProgressInv, SnapshotInv, PageInv, PointInv
<1>8. AnswerInv'
  BY <1>2, SilentAnswer
<1> QED
  BY <1>5, <1>6, <1>7, <1>8 DEF IInv

(* When no request is served, only the answer is left to look at. *)
LEMMA IdleStep ==
    ASSUME IInv, req' = Idle, UNCHANGED <<endpoint, clock, polls, flight, rows, states>>, AnswerInv'
    PROVE  IInv'
<1>1. TypeInv' /\ RowInv' /\ FlightInv'
  BY DEF IInv, TypeInv, RowInv, FlightInv
<1>2. ~ Served'
  BY DEF Served
<1>3. RequestInv' /\ ProgressInv' /\ SnapshotInv' /\ PageInv' /\ PointInv'
  BY <1>2 DEF RequestInv, ProgressInv, SnapshotInv, PageInv, PointInv
<1> QED
  BY <1>1, <1>3 DEF IInv

(* The outcome of the endpoints that tell an empty answer from a gap. *)
LEMMA OutcomeMeaning ==
    ASSUME NEW outcome \in Outcome
    PROVE  /\ endpoint.outcome = "source" => outcome = SourceOutcome(req.found # {}, req.seen)
           /\ endpoint.outcome = "zones" =>
                outcome = ZoneOutcome(req.found, req.coverage, req.seen, req.loaded)
<1>1. CASE endpoint.outcome = "source"
  BY <1>1 DEF Outcome
<1>2. CASE endpoint.outcome = "zones"
  BY <1>2 DEF Outcome
<1> QED
  BY <1>1, <1>2

(* The tables the endpoints for one table, and those for zones, read. *)
LEMMA TablesMeaning ==
    ASSUME endpoint \in AllEndpoints
    PROVE  /\ endpoint.outcome = "source" => TablesRead = {TableOf[endpoint.todo[1]]}
           /\ endpoint.outcome = "zones" => TablesRead = {"zone"}
<1>1. ASSUME endpoint.outcome = "source"
      PROVE  TablesRead = {TableOf[endpoint.todo[1]]}
  <2>1. PICK t \in {"pfz", "alerts", "observations", "forecasts"} :
           endpoint.todo = <<t, "states", "commit">>
    BY <1>1, EndpointShape
  <2>2. Range(endpoint.todo) = {t, "states", "commit"} /\ endpoint.todo[1] = t
    BY <2>1 DEF Range
  <2>3. Range(endpoint.todo) \cap DOMAIN TableOf = {t}
    BY <2>2 DEF TableOf
  <2> QED
    BY <2>2, <2>3 DEF TablesRead
<1>2. ASSUME endpoint.outcome = "zones"
      PROVE  TablesRead = {"zone"}
  <2>1. PICK s \in {"inside", "nearby", "crossed"} :
           endpoint.todo = <<"loaded", s, "coverage", "states", "commit">>
    BY <1>2, EndpointShape
  <2>2. Range(endpoint.todo) = {"loaded", s, "coverage", "states", "commit"}
    BY <2>1 DEF Range
  <2>3. TableOf[s] = "zone"
    BY DEF TableOf
  <2>4. s \in DOMAIN TableOf /\ {"loaded", "coverage", "states", "commit"} \cap DOMAIN TableOf = {}
    BY DEF TableOf
  <2>5. Range(endpoint.todo) \cap DOMAIN TableOf = {s}
    BY <2>2, <2>4
  <2> QED
    BY <2>3, <2>5 DEF TablesRead
<1> QED
  BY <1>1, <1>2

(* The session is committed with its evidence, and then the answer leaves. *)
LEMMA CommitKeeps ==
    ASSUME IInv, Commit
    PROVE  IInv'
<1>1. PICK outcome \in Outcome : evidence' = EvidenceRow(outcome) /\ answer' = Answer(outcome, TRUE)
  BY DEF Commit
<1>2. /\ Served /\ Head(req.todo) = "commit" /\ req' = Idle
      /\ UNCHANGED <<endpoint, clock, polls, flight, rows, states>>
  BY DEF Commit, Doing, Served
<1>3. /\ answer'.kind = "ok" /\ answer'.rows = req.found /\ answer'.outcome = outcome
      /\ answer'.seen = req.seen /\ answer'.at = req.at /\ answer'.due = req.due
      /\ answer'.place = req.place
  BY <1>1 DEF Answer
<1>4. endpoint \in AllEndpoints
  BY DEF IInv, TypeInv
<1>5. OneTable(endpoint) => req.todo # endpoint.todo
  BY <1>2, StatementNow
<1>6. endpoint.todo[1] = "alerts" => PageKeepsNearest(req.found, req.due, req.place, clock)
  BY <1>2, <1>5 DEF IInv, PageInv, OneTable
<1>7. EmptyAnswersAdmitGaps'
  <2> SUFFICES ASSUME endpoint.outcome \in {"source", "zones"}, req.found = {},
                      outcome \in {"available", "healthy_empty"}
               PROVE  /\ req.seen \cap BlockedStates = {}
                      /\ \A r \in req.due : r.table \in TablesRead =>
                            /\ r.table = "alert" => ~ Active(r, clock)
                            /\ r.table \in {"observation", "forecast"} =>
                                  OutsideWindow(r, endpoint.kinds, req.at)
    BY <1>2, <1>3 DEF EmptyAnswersAdmitGaps, OutsideWindow, TablesRead
  <2>1. CASE endpoint.outcome = "zones"
    <3>1. req.seen \cap BlockedStates = {}
      BY <2>1, OutcomeMeaning, CleanZonesMeaning
    <3> QED
      BY <1>4, <2>1, <3>1, TablesMeaning
  <2>2. CASE endpoint.outcome = "source"
    <3>1. req.seen \cap BlockedStates = {}
      BY <2>2, OutcomeMeaning, CleanEmptyMeaning
    <3>2. TablesRead = {TableOf[endpoint.todo[1]]}
            /\ endpoint.todo[1] \in {"pfz", "alerts", "observations", "forecasts"}
      BY <1>2, <1>4, <2>2, TablesMeaning, StatementNow DEF OneTable
    <3>3. ASSUME NEW r \in req.due, r.table = "alert", r.table = TableOf[endpoint.todo[1]]
          PROVE  ~ Active(r, clock)
      <4>1. endpoint.todo[1] = "alerts"
        BY <3>2, <3>3 DEF TableOf
      <4>2. Cardinality(req.found) # PageLimit
        BY FS_EmptySet, QueryAssumption
      <4> QED
        BY <1>6, <3>3, <4>1, <4>2 DEF PageKeepsNearest
    <3>4. ASSUME NEW r \in req.due, r.table \in {"observation", "forecast"},
                 r.table = TableOf[endpoint.todo[1]]
          PROVE  OutsideWindow(r, endpoint.kinds, req.at)
      <4>1. endpoint.todo[1] \in {"observations", "forecasts"}
        BY <3>2, <3>4 DEF TableOf
      <4> QED
        BY <1>2, <1>5, <2>2, <3>4, <4>1 DEF IInv, PointInv, OneTable
    <3> QED
      BY <3>1, <3>2, <3>3, <3>4
  <2> QED
    BY <2>1, <2>2
<1>8. AnswersAreAudited'
  BY <1>1, <1>2, <1>3 DEF AnswersAreAudited, EvidenceRow
<1>9. NewestSnapshotIsShown'
  BY <1>2, <1>3 DEF NewestSnapshotIsShown, IInv, SnapshotInv
<1>10. AlertPagesKeepTheNearest'
  BY <1>2, <1>3, <1>6 DEF AlertPagesKeepTheNearest, PageKeepsNearest
<1>11. AnswerInv'
  BY <1>2, <1>7, <1>8, <1>9, <1>10 DEF AnswerInv, Served
<1> QED
  BY <1>2, <1>11, IdleStep

(* A failure is answered with an error; a computation, with its result and   *)
(* the admission that it was not audited.                                     *)
LEMMA FailsKeeps ==
    ASSUME IInv, Fails
    PROVE  IInv'
<1>1. PICK outcome \in Outcome :
         answer' = IF endpoint.outcome = "computed" THEN Answer(outcome, FALSE) ELSE [kind |-> "error"]
  BY DEF Fails
<1>2. /\ Served /\ req' = Idle
      /\ UNCHANGED <<endpoint, clock, polls, flight, rows, states>>
  BY DEF Fails, Served
<1>3. CASE endpoint.outcome # "computed"
  <2>1. ~ Answered'
    BY <1>1, <1>3 DEF Answered
  <2>2. AnswerInv'
    BY <1>2, <2>1 DEF AnswerInv, EmptyAnswersAdmitGaps, AnswersAreAudited, NewestSnapshotIsShown,
       AlertPagesKeepTheNearest, Served
  <2> QED
    BY <1>2, <2>2, IdleStep
<1>4. CASE endpoint.outcome = "computed"
  <2>1. answer'.rows = req.found /\ answer'.due = req.due /\ answer'.persisted = FALSE
    BY <1>1, <1>4 DEF Answer
  <2>2. endpoint.todo[1] # "alerts"
    BY <1>4, EndpointShape DEF IInv, TypeInv
  <2>3. EmptyAnswersAdmitGaps' /\ AnswersAreAudited' /\ AlertPagesKeepTheNearest'
    BY <1>2, <1>4, <2>1, <2>2 DEF EmptyAnswersAdmitGaps, AnswersAreAudited, AlertPagesKeepTheNearest
  <2>4. NewestSnapshotIsShown'
    BY <1>2, <2>1 DEF NewestSnapshotIsShown, IInv, SnapshotInv
  <2>5. AnswerInv'
    BY <1>2, <2>3, <2>4 DEF AnswerInv, Served
  <2> QED
    BY <1>2, <2>5, IdleStep
<1> QED
  BY <1>3, <1>4

(* Every step keeps the invariant. *)
LEMMA NextKeeps ==
    ASSUME IInv, [Next]_vars
    PROVE  IInv'
<1>1. CASE Refuse
  <2>1. ~ Answered' /\ req' = Idle /\ UNCHANGED <<endpoint, clock, polls, flight, rows, states>>
    BY <1>1 DEF Refuse, Answered
  <2>2. AnswerInv'
    BY <2>1 DEF AnswerInv, EmptyAnswersAdmitGaps, AnswersAreAudited, NewestSnapshotIsShown,
       AlertPagesKeepTheNearest, Served
  <2> QED
    BY <2>1, <2>2, IdleStep
<1>2. CASE Delivered
  <2>1. req = Idle
    BY <1>2 DEF Delivered, IInv, AnswerInv, Served
  <2>2. req' = Idle /\ UNCHANGED <<endpoint, clock, polls, flight, rows, states>>
    BY <1>2, <2>1 DEF Delivered
  <2>3. AnswerInv'
    BY <1>2, SilentAnswer DEF Delivered
  <2> QED
    BY <2>2, <2>3, IdleStep
<1>3. CASE Request
  BY <1>3, ReadPfzKeeps, ReadAlertsKeeps, ReadAdvisoriesKeeps, ReadPointsKeeps, CountZonesKeeps,
     ReadZonesKeeps, ReadCoverageKeeps, ReadStatesKeeps, CommitKeeps, FailsKeeps DEF Request
<1>4. CASE UNCHANGED vars
  BY <1>4 DEF vars, IInv, TypeInv, RowInv, FlightInv, RequestInv, ProgressInv, SnapshotInv,
     PageInv, PointInv, AnswerInv, EmptyAnswersAdmitGaps, AnswersAreAudited,
     NewestSnapshotIsShown, AlertPagesKeepTheNearest, Answered, Served, TablesRead
<1> QED
  BY <1>1, <1>2, <1>3, <1>4, TickKeeps, WorkerKeeps, BeginKeeps DEF Next

-----------------------------------------------------------------------------

(* The inductive invariant of the read path. *)
THEOREM InvariantHolds == Spec => []IInv
<1>1. Init => IInv
  <2> SUFFICES ASSUME Init PROVE IInv
    OBVIOUS
  <2>1. TypeInv /\ FlightInv
    BY FeedAssumption DEF Init, TypeInv, FlightInv
  <2>2. RowInv
    <3>1. {r \in rows : r.table = "alert"} = {}
      BY DEF Init
    <3> QED
      BY <3>1, FS_EmptySet DEF Init, RowInv
  <2>3. ~ Served /\ ~ Answered
    BY DEF Init, Served, Answered, NoAnswer
  <2>4. RequestInv /\ ProgressInv /\ SnapshotInv /\ PageInv /\ PointInv
    BY <2>3 DEF RequestInv, ProgressInv, SnapshotInv, PageInv, PointInv
  <2>5. AnswerInv
    BY <2>3 DEF AnswerInv, EmptyAnswersAdmitGaps, AnswersAreAudited, NewestSnapshotIsShown,
       AlertPagesKeepTheNearest
  <2> QED
    BY <2>1, <2>2, <2>4, <2>5 DEF IInv
<1>2. IInv /\ [Next]_vars => IInv'
  BY NextKeeps
<1> QED
  BY <1>1, <1>2, PTL DEF Spec

(* "No data" is never taken for "nothing there": a clean empty answer of the *)
(* MCP server or the REST API means that the sources were last seen to       *)
(* answer and that no stored alert or reading that applies was passed over   *)
(* (_source_outcome, _zone_outcome).                                         *)
THEOREM EmptyIsHonest == Spec => []EmptyAnswersAdmitGaps
<1>1. IInv => EmptyAnswersAdmitGaps
  BY DEF IInv, AnswerInv
<1> QED
  BY <1>1, InvariantHolds, PTL

(* The evidence of an answer was committed with it, unless the answer says   *)
(* that it was not (_persist_evidence, _persist_standalone_evidence).        *)
THEOREM EvidenceIsThere == Spec => []AnswersAreAudited
<1>1. IInv => AnswersAreAudited
  BY DEF IInv, AnswerInv
<1> QED
  BY <1>1, InvariantHolds, PTL

(* query_pfz never answers from a snapshot that a stored one had superseded  *)
(* when the request began, in whatever order the snapshots were committed.   *)
THEOREM SnapshotIsNewest == Spec => []NewestSnapshotIsShown
<1>1. IInv => NewestSnapshotIsShown
  BY DEF IInv, AnswerInv
<1> QED
  BY <1>1, InvariantHolds, PTL

(* query_alerts cuts its page after the sort by distance: an alert in force  *)
(* that was stored when the request began is missing only from a full page   *)
(* of alerts no farther away.                                                *)
THEOREM NearestAlertsAreKept == Spec => []AlertPagesKeepTheNearest
<1>1. IInv => AlertPagesKeepTheNearest
  BY DEF IInv, AnswerInv
<1> QED
  BY <1>1, InvariantHolds, PTL
-----------------------------------------------------------------------------
(* Types *)

(* A list of statements ends with the COMMIT, and the count of the zones is  *)
(* followed by the statement it may save.                                    *)
ListOK(todo) ==
    /\ todo \in Seq(Statements) \ {<<>>}
    /\ \A i \in 1 .. Len(todo) :
          /\ i = Len(todo) => todo[i] = "commit"
          /\ todo[i] = "loaded" => i + 1 < Len(todo)

(* The inductive invariant behind TypeOK. *)
ListInv ==
    /\ TypeOK
    /\ Served => ListOK(req.todo)

(* Every endpoint's list is such a list; its channel and outcome are known. *)
LEMMA EndpointTyped ==
    ASSUME NEW e \in AllEndpoints
    PROVE  /\ ListOK(e.todo)
           /\ e.channel \in {"rest", "mcp", "agent"}
           /\ e.outcome \in {"source", "zones", "route", "warned", "rows", "risk", "suitability",
                             "wrapped", "computed"}
<1> DEFINE S == Statements
<1>1. {"pfz", "alerts", "observations", "forecasts", "advisories", "inside", "nearby", "crossed",
       "loaded", "coverage", "states", "commit"} \subseteq S
  BY DEF Statements, TableOf
<1> HIDE DEF S
<1>2. \E l \in {<<"commit">>} \union
        {<<t, "commit">> : t \in {"pfz", "alerts", "observations", "forecasts", "advisories"}} \union
        {<<t, "states", "commit">> : t \in {"pfz", "alerts", "observations", "forecasts"}} \union
        {<<"loaded", z, "commit">> : z \in {"inside", "nearby", "crossed"}} \union
        {<<"loaded", z, "coverage", "states", "commit">> : z \in {"inside", "nearby", "crossed"}} \union
        {<<"coverage", "states", "loaded", "crossed", "commit">>,
         <<"observations", "forecasts", "alerts", "commit">>,
         <<"observations", "forecasts", "observations", "pfz", "advisories", "commit">>} :
          e.todo = l
  BY DEF AllEndpoints, McpQueryPfz, McpQueryAlerts, McpQueryObservations, McpQueryForecasts,
     McpCheckGeofence, McpFindNearbyZones, McpPlanSafeRoute, McpComputation,
     FishingPfz, Alerts, OceanConditions, OceanForecast, WeatherConditions,
     WeatherForecast, Tides, FishingAdvisories, GeofenceCheck, GeofenceNearby,
     GeofenceIntersections, RoutesSafe, RiskMarine, FishingSuitability,
     ToolQueryPfz, ToolQueryAlerts, ToolQueryObservations, ToolQueryForecasts,
     ToolCheckGeofence, ToolFindNearbyZones, Endpoint, McpQuery, McpZones, RestQuery,
     RestZones, AgentTool
<1>3. ListOK(<<"commit">>)
  BY <1>1 DEF ListOK, S
<1>4. \A t \in {"pfz", "alerts", "observations", "forecasts", "advisories"} :
         ListOK(<<t, "commit">>) /\ ListOK(<<t, "states", "commit">>)
  BY <1>1 DEF ListOK, S
<1>5. \A z \in {"inside", "nearby", "crossed"} :
         ListOK(<<"loaded", z, "commit">>) /\ ListOK(<<"loaded", z, "coverage", "states", "commit">>)
  BY <1>1 DEF ListOK, S
<1>6. /\ ListOK(<<"coverage", "states", "loaded", "crossed", "commit">>)
      /\ ListOK(<<"observations", "forecasts", "alerts", "commit">>)
      /\ ListOK(<<"observations", "forecasts", "observations", "pfz", "advisories", "commit">>)
  BY <1>1 DEF ListOK, S
<1>7. ListOK(e.todo)
  BY <1>2, <1>3, <1>4, <1>5, <1>6
<1>8. /\ e.channel \in {"rest", "mcp", "agent"}
      /\ e.outcome \in {"source", "zones", "route", "warned", "rows", "risk", "suitability",
                        "wrapped", "computed"}
  BY DEF AllEndpoints, McpQueryPfz, McpQueryAlerts, McpQueryObservations, McpQueryForecasts,
     McpCheckGeofence, McpFindNearbyZones, McpPlanSafeRoute, McpComputation,
     FishingPfz, Alerts, OceanConditions, OceanForecast, WeatherConditions,
     WeatherForecast, Tides, FishingAdvisories, GeofenceCheck, GeofenceNearby,
     GeofenceIntersections, RoutesSafe, RiskMarine, FishingSuitability,
     ToolQueryPfz, ToolQueryAlerts, ToolQueryObservations, ToolQueryForecasts,
     ToolCheckGeofence, ToolFindNearbyZones, Endpoint, McpQuery, McpZones, RestQuery,
     RestZones, AgentTool
<1> QED
  BY <1>7, <1>8

(* What is left of such a list after a statement is such a list. *)
LEMMA RestOfList ==
    ASSUME NEW todo, ListOK(todo), Head(todo) # "commit"
    PROVE  ListOK(Tail(todo)) /\ (Head(todo) = "loaded" => ListOK(Tail(Tail(todo))))
<1> DEFINE S == Statements
<1>1. todo \in Seq(S) /\ todo # <<>> /\ Len(todo) \in Nat /\ Len(todo) > 1
  BY DEF ListOK, S
<1> HIDE DEF S
<1>2. ASSUME NEW s \in Seq(S), Len(s) > 1
      PROVE  /\ Tail(s) \in Seq(S) /\ Len(Tail(s)) = Len(s) - 1 /\ Tail(s) # <<>>
             /\ \A i \in 1 .. Len(s) - 1 : Tail(s)[i] = s[i + 1]
  <2>1. s # <<>> /\ Len(s) \in Nat
    BY <1>2
  <2>2. Tail(s) \in Seq(S) /\ Len(Tail(s)) = Len(s) - 1
    BY <2>1
  <2>3. Tail(s) # <<>>
    <3>1. Len(Tail(s)) # 0
      BY <1>2, <2>1, <2>2
    <3>2. Len(<<>>) = 0
      OBVIOUS
    <3> QED
      BY <3>1, <3>2
  <2>4. \A i \in 1 .. Len(s) - 1 : Tail(s)[i] = s[i + 1]
    BY <2>1
  <2> QED
    BY <2>2, <2>3, <2>4
<1>3. /\ Tail(todo) \in Seq(S) /\ Len(Tail(todo)) = Len(todo) - 1 /\ Tail(todo) # <<>>
      /\ \A i \in 1 .. Len(todo) - 1 : Tail(todo)[i] = todo[i + 1]
  BY <1>1, <1>2
<1>4. \A i \in 1 .. Len(Tail(todo)) :
         /\ i = Len(Tail(todo)) => Tail(todo)[i] = "commit"
         /\ Tail(todo)[i] = "loaded" => i + 1 < Len(Tail(todo))
  <2> SUFFICES ASSUME NEW i \in 1 .. Len(Tail(todo))
               PROVE  /\ i = Len(Tail(todo)) => Tail(todo)[i] = "commit"
                      /\ Tail(todo)[i] = "loaded" => i + 1 < Len(Tail(todo))
    OBVIOUS
  <2>1. i \in 1 .. Len(todo) - 1 /\ i + 1 \in 1 .. Len(todo) /\ Tail(todo)[i] = todo[i + 1]
    BY <1>1, <1>3
  <2>2. /\ i + 1 = Len(todo) => todo[i + 1] = "commit"
        /\ todo[i + 1] = "loaded" => i + 2 < Len(todo)
    BY <2>1 DEF ListOK
  <2>3. i \in Nat /\ Len(todo) \in Nat /\ Len(Tail(todo)) = Len(todo) - 1
    BY <1>1, <1>3, <2>1
  <2>4. i = Len(Tail(todo)) => i + 1 = Len(todo)
    BY <2>3
  <2>5. i + 2 < Len(todo) => i + 1 < Len(Tail(todo))
    BY <2>3
  <2> QED
    BY <2>1, <2>2, <2>4, <2>5
<1>5. ListOK(Tail(todo))
  BY <1>3, <1>4 DEF ListOK, S
<1>6. ASSUME Head(todo) = "loaded"
      PROVE  ListOK(Tail(Tail(todo)))
  <2> DEFINE t == Tail(todo)
  <2>1. Len(todo) > 2
    BY <1>1, <1>6 DEF ListOK
  <2>2. t \in Seq(S) /\ Len(t) \in Nat /\ Len(t) > 1
    BY <1>1, <1>3, <2>1
  <2>3. ListOK(t)
    BY <1>5
  <2> HIDE DEF t
  <2>4. /\ Tail(t) \in Seq(S) /\ Len(Tail(t)) = Len(t) - 1 /\ Tail(t) # <<>>
        /\ \A i \in 1 .. Len(t) - 1 : Tail(t)[i] = t[i + 1]
    BY <1>2, <2>2
  <2>5. \A i \in 1 .. Len(Tail(t)) :
           /\ i = Len(Tail(t)) => Tail(t)[i] = "commit"
           /\ Tail(t)[i] = "loaded" => i + 1 < Len(Tail(t))
    <3> SUFFICES ASSUME NEW i \in 1 .. Len(Tail(t))
                 PROVE  /\ i = Len(Tail(t)) => Tail(t)[i] = "commit"
                        /\ Tail(t)[i] = "loaded" => i + 1 < Len(Tail(t))
      OBVIOUS
    <3>1. i \in 1 .. Len(t) - 1 /\ i + 1 \in 1 .. Len(t) /\ Tail(t)[i] = t[i + 1]
      BY <2>2, <2>4
    <3>2. /\ i + 1 = Len(t) => t[i + 1] = "commit"
          /\ t[i + 1] = "loaded" => i + 2 < Len(t)
      BY <2>3, <3>1 DEF ListOK
    <3>3. i \in Nat /\ Len(t) \in Nat /\ Len(Tail(t)) = Len(t) - 1
      BY <2>2, <2>4, <3>1
    <3>4. i = Len(Tail(t)) => i + 1 = Len(t)
      BY <3>3
    <3>5. i + 2 < Len(t) => i + 1 < Len(Tail(t))
      BY <3>3
    <3> QED
      BY <3>1, <3>2, <3>4, <3>5
  <2>6. ListOK(Tail(t))
    BY <2>4, <2>5 DEF ListOK, S
  <2> QED
    BY <2>6 DEF t
<1> QED
  BY <1>5, <1>6

(* The outcome of every endpoint is one of those the servers name. *)
LEMMA OutcomeTyped ==
    ASSUME endpoint \in AllEndpoints, NEW outcome \in Outcome
    PROVE  outcome \in Outcomes
<1>1. \A any, sources : SourceOutcome(any, sources) \in Outcomes
  BY DEF SourceOutcome, Outcomes
<1>2. \A zones, coverage, sources, loaded : ZoneOutcome(zones, coverage, sources, loaded) \in Outcomes
  <2> SUFFICES ASSUME NEW zones, NEW coverage, NEW sources, NEW loaded
               PROVE  ZoneOutcome(zones, coverage, sources, loaded) \in Outcomes
    OBVIOUS
  <2> DEFINE eez == SourceOutcome(\E z \in zones : z.kind = "eez_boundary", sources)
  <2>1. eez \in Outcomes
    BY <1>1
  <2>2. ZoneOutcome(zones, coverage, sources, loaded) \in {"partial", "available", "source_gap", eez}
    BY DEF ZoneOutcome
  <2> HIDE DEF eez
  <2> QED
    BY <2>1, <2>2 DEF Outcomes
<1>3. \A warned : Gap(warned) \in Outcomes
  BY DEF Gap, Outcomes
<1>4. CASE endpoint.outcome \in {"source", "zones"}
  BY <1>1, <1>2, <1>4, OutcomeMeaning
<1>5. CASE endpoint.outcome \in {"route", "computed"}
  BY <1>5 DEF Outcome, Outcomes
<1>6. CASE endpoint.outcome \in {"warned", "rows", "suitability", "wrapped"}
  BY <1>3, <1>6 DEF Outcome
<1>7. CASE endpoint.outcome = "risk"
  BY <1>3, <1>7 DEF Outcome
<1> QED
  BY <1>4, <1>5, <1>6, <1>7, EndpointTyped

(* What a statement finds are rows of the tables. *)
LEMMA SelectionsAreRows ==
    ASSUME NEW table, NEW place, NEW at, NEW kinds
    PROVE  /\ QueryPfz(rows, at) \subseteq rows
           /\ \A page \in QueryAlerts(rows, place, at) : page \subseteq rows
           /\ QueryPoints(rows, table, kinds, place, at) \subseteq rows
           /\ QueryAdvisories(rows, place) \subseteq rows
           /\ CheckPointInZones(rows, at) \subseteq rows
           /\ FindNearbyZones(rows, at) \subseteq rows
           /\ FindRouteIntersections(rows, at) \subseteq rows
<1>1. QueryPfz(rows, at) \subseteq rows
  BY DEF QueryPfz, LatestSnapshot, Accepted
<1>2. \A page \in QueryAlerts(rows, place, at) : page \subseteq rows
  BY DEF QueryAlerts, Pages, Accepted
<1>3. QueryPoints(rows, table, kinds, place, at) \subseteq rows
        /\ QueryAdvisories(rows, place) \subseteq rows
  BY DEF QueryPoints, QueryAdvisories, Accepted
<1>4. /\ CheckPointInZones(rows, at) \subseteq rows
      /\ FindNearbyZones(rows, at) \subseteq rows
      /\ FindRouteIntersections(rows, at) \subseteq rows
  BY DEF CheckPointInZones, FindNearbyZones, FindRouteIntersections, Zones
<1> QED
  BY <1>1, <1>2, <1>3, <1>4

(* More rows leave the types as they are. *)
LEMMA WorldTyped ==
    ASSUME ListInv, answer = NoAnswer, UNCHANGED <<endpoint, req, evidence, answer>>,
           rows \subseteq rows', clock' \in Nat \ {0}, polls' \in Nat,
           states' \in [Consulted -> PollStates],
           \A poll \in flight' : poll.at \in 1 .. clock' /\ poll.state \in PollStates
    PROVE  ListInv'
<1>1. Requests \subseteq Requests'
  BY DEF Requests
<1>2. [refs : SUBSET rows, outcome : Outcomes] \subseteq [refs : SUBSET rows', outcome : Outcomes]
  OBVIOUS
<1>3. Consulted' = Consulted
  BY DEF Consulted
<1>4. TypeOK'
  BY <1>1, <1>2, <1>3 DEF ListInv, TypeOK
<1> QED
  BY <1>4 DEF ListInv, Served

(* A poll's state is one of the table. *)
LEMMA RecordTyped ==
    ASSUME ListInv, NEW ds, NEW state \in PollStates, Record(ds, state)
    PROVE  states' \in [Consulted -> PollStates]
  BY DEF ListInv, TypeOK, Record

(* What a poll leaves behind. *)
LEMMA PollStateTyped ==
    ASSUME NEW records, NEW complete \in BOOLEAN
    PROVE  PollState(records, complete) \in PollStates
  BY DEF PollState, PollStates

(* Time and the workers keep the types. *)
LEMMA WorldIsTyped ==
    ASSUME ListInv, Tick \/ Worker
    PROVE  ListInv'
<1>0. /\ clock \in Nat \ {0} /\ polls \in Nat /\ states \in [Consulted -> PollStates]
      /\ \A poll \in flight : poll.at \in 1 .. clock /\ poll.state \in PollStates
  BY DEF ListInv, TypeOK
<1>1. CASE Tick
  <2>1. clock' \in Nat \ {0} /\ clock <= clock'
    BY <1>0, <1>1 DEF Tick
  <2>2. \A poll \in flight' : poll.at \in 1 .. clock' /\ poll.state \in PollStates
    BY <1>0, <1>1, <2>1 DEF Tick
  <2> QED
    BY <1>0, <1>1, <2>1, <2>2, WorldTyped DEF Tick, Quiet
<1>2. CASE FetchPfz
  <2>1. PICK records \in FeedOf["incois_pfz"], complete \in BOOLEAN :
           flight' = flight \union {[at |-> clock, records |-> records,
                                     state |-> PollState(records, complete)]}
    BY <1>2 DEF FetchPfz
  <2>2. \A poll \in flight' : poll.at \in 1 .. clock /\ poll.state \in PollStates
    BY <1>0, <2>1, PollStateTyped
  <2>3. polls' \in Nat
    BY <1>0, <1>2 DEF FetchPfz, Poll
  <2> QED
    BY <1>0, <1>2, <2>2, <2>3, WorldTyped DEF FetchPfz, Poll, Quiet
<1>3. ASSUME NEW poll \in flight, IngestPfz(poll)
      PROVE  ListInv'
  <2>1. states' \in [Consulted -> PollStates]
    BY <1>0, <1>3, RecordTyped DEF IngestPfz
  <2> QED
    BY <1>0, <1>3, <2>1, WorldTyped DEF IngestPfz, Quiet
<1>4. ASSUME NEW ds \in Polled \ {"incois_pfz"}, Ingest(ds)
      PROVE  ListInv'
  <2>1. states' \in [Consulted -> PollStates]
    BY <1>4, RecordTyped, PollStateTyped DEF Ingest
  <2>2. polls' \in Nat
    BY <1>0, <1>4 DEF Ingest, Poll
  <2> QED
    BY <1>0, <1>4, <2>1, <2>2, WorldTyped DEF Ingest, Poll, Quiet
<1>5. ASSUME NEW ds \in Consulted, RecordSourceError(ds)
      PROVE  ListInv'
  <2>1. states' \in [Consulted -> PollStates]
    BY <1>5, RecordTyped DEF RecordSourceError, PollStates
  <2>2. polls' \in Nat
    BY <1>0, <1>5 DEF RecordSourceError, Poll
  <2> QED
    BY <1>0, <1>5, <2>1, <2>2, WorldTyped DEF RecordSourceError, Poll, Quiet
<1> QED
  BY <1>1, <1>2, <1>3, <1>4, <1>5 DEF Worker

(* A statement that leaves a request leaves it typed. *)
LEMMA StatementTyped ==
    ASSUME ListInv, NEW q \in Requests, Proceed(q), ListOK(q.todo), ListOK(Tail(q.todo))
    PROVE  ListInv'
<1>1. /\ req' = [q EXCEPT !.todo = Tail(@)]
      /\ UNCHANGED <<endpoint, clock, polls, flight, rows, states, evidence, answer>>
  BY DEF Proceed
<1>2. Tail(q.todo) \in Seq(Statements) \ {<<>>}
  BY DEF ListOK
<1>3. req' \in Requests /\ req'.todo = Tail(q.todo)
  BY <1>1, <1>2 DEF Requests
<1>4. Requests' = Requests /\ Consulted' = Consulted /\ Answers' = Answers
  BY <1>1 DEF Requests, Consulted, Answers
<1>5. TypeOK'
  BY <1>1, <1>3, <1>4 DEF ListInv, TypeOK
<1> QED
  BY <1>3, <1>5 DEF ListInv

(* Every statement of a request keeps the types. *)
LEMMA RequestIsTyped ==
    ASSUME ListInv, Request, ~ Commit, ~ Fails
    PROVE  ListInv'
<1>1. Served /\ Head(req.todo) # "commit"
  BY DEF Request, ReadPfz, ReadAlerts, ReadAdvisories, ReadPoints, CountZones, ReadZones,
     ReadCoverage, ReadStates, Doing, Served
<1>2. req \in Requests /\ ListOK(req.todo)
  BY <1>1 DEF ListInv, TypeOK, Served
<1>3. ListOK(Tail(req.todo)) /\ (Head(req.todo) = "loaded" => ListOK(Tail(Tail(req.todo))))
  BY <1>1, <1>2, RestOfList
<1>4. ASSUME NEW F \in SUBSET rows, Proceed([req EXCEPT !.found = F])
      PROVE  ListInv'
  <2>1. [req EXCEPT !.found = F] \in Requests /\ [req EXCEPT !.found = F].todo = req.todo
    BY <1>2 DEF Requests
  <2> QED
    BY <1>2, <1>3, <1>4, <2>1, StatementTyped
<1>5. req.found \in SUBSET rows
  BY <1>2 DEF Requests
<1>6. CASE ReadPfz \/ ReadAdvisories \/ ReadPoints("observations", "observation")
             \/ ReadPoints("forecasts", "forecast") \/ ReadZones
  <2>1. \E F \in SUBSET rows : Proceed([req EXCEPT !.found = F])
    <3>1. CASE ReadPfz
      <4>1. req.found \union QueryPfz(rows, Now) \in SUBSET rows
        BY <1>5, SelectionsAreRows
      <4> QED
        BY <1>2, <3>1, <4>1 DEF ReadPfz, Requests
    <3>2. CASE ReadAdvisories
      <4>1. req.found \union QueryAdvisories(rows, req.place) \in SUBSET rows
        BY <1>5, SelectionsAreRows
      <4> QED
        BY <1>2, <3>2, <4>1 DEF ReadAdvisories, Requests
    <3>3. ASSUME NEW statement, NEW table, ReadPoints(statement, table)
          PROVE  \E F \in SUBSET rows : Proceed([req EXCEPT !.found = F])
      <4>1. req.found \union QueryPoints(rows, table, endpoint.kinds, req.place, req.at)
              \in SUBSET rows
        BY <1>5, SelectionsAreRows
      <4> QED
        BY <1>2, <3>3, <4>1 DEF ReadPoints, Requests
    <3>4. CASE ReadZones
      BY <3>4, SelectionsAreRows DEF ReadZones
    <3> QED
      BY <1>6, <3>1, <3>2, <3>3, <3>4
  <2> QED
    BY <1>4, <2>1
<1>7. CASE ReadAlerts
  <2>1. PICK page \in QueryAlerts(rows, req.place, Now) :
           Proceed([req EXCEPT !.found = @ \union page, !.alerts = page])
    BY <1>7 DEF ReadAlerts
  <2> DEFINE q == [req EXCEPT !.found = @ \union page, !.alerts = page]
  <2>2. page \in SUBSET rows
    BY SelectionsAreRows
  <2>3. q \in Requests /\ q.todo = req.todo
    BY <1>2, <2>2 DEF Requests
  <2> HIDE DEF q
  <2>4. Proceed(q)
    BY <2>1 DEF q
  <2> QED
    BY <1>2, <1>3, <2>3, <2>4, StatementTyped
<1>8. CASE CountZones
  <2>1. Head(req.todo) = "loaded"
    BY <1>8 DEF CountZones, Doing
  <2>2. CASE Proceed(req)
    BY <1>2, <1>3, <2>2, StatementTyped
  <2>3. CASE Proceed([req EXCEPT !.loaded = FALSE, !.todo = Tail(@)])
    <3> DEFINE q == [req EXCEPT !.loaded = FALSE, !.todo = Tail(@)]
    <3>1. Tail(req.todo) \in Seq(Statements) \ {<<>>}
      BY <1>3 DEF ListOK
    <3>2. q \in Requests /\ q.todo = Tail(req.todo)
      BY <1>2, <3>1 DEF Requests
    <3>3. Proceed(q)
      BY <2>3
    <3> HIDE DEF q
    <3> QED
      BY <1>3, <2>1, <3>2, <3>3, StatementTyped
  <2> QED
    BY <1>8, <2>2, <2>3 DEF CountZones
<1>9. CASE ReadCoverage
  <2>1. ZoneCoverage(rows, clock) \in SUBSET ZoneCategories
    BY DEF ZoneCoverage
  <2> DEFINE q == [req EXCEPT !.coverage = ZoneCoverage(rows, clock)]
  <2>2. q \in Requests /\ q.todo = req.todo
    BY <1>2, <2>1 DEF Requests
  <2>3. Proceed(q)
    BY <1>9 DEF ReadCoverage
  <2> HIDE DEF q
  <2> QED
    BY <1>2, <1>3, <2>2, <2>3, StatementTyped
<1>10. CASE ReadStates
  <2> DEFINE seen == {states[ds] : ds \in Consulted}
                       \union IF endpoint.keys \subseteq Datasets THEN {} ELSE {"not_registered"}
             q == [req EXCEPT !.seen = seen]
  <2>1. seen \in SUBSET PollStates
    BY DEF ListInv, TypeOK, PollStates, BlockedStates
  <2>2. Proceed(q)
    BY <1>10 DEF ReadStates
  <2> HIDE DEF seen
  <2>3. q \in Requests /\ q.todo = req.todo
    BY <1>2, <2>1 DEF Requests
  <2> HIDE DEF q
  <2> QED
    BY <1>2, <1>3, <2>2, <2>3, StatementTyped
<1> QED
  BY <1>6, <1>7, <1>8, <1>9, <1>10 DEF Request

(* The COMMIT, or a failure, answers with what the request holds. *)
LEMMA AnswerIsTyped ==
    ASSUME ListInv, Commit \/ Fails
    PROVE  ListInv'
<1>1. /\ Served /\ req' = Idle
      /\ UNCHANGED <<endpoint, clock, polls, flight, rows, states>>
  BY DEF Commit, Fails, Doing, Served
<1>2. req \in Requests /\ endpoint \in AllEndpoints
  BY <1>1, FeedAssumption DEF ListInv, TypeOK, Served
<1>3. PICK outcome \in Outcome, persisted \in BOOLEAN :
         /\ evidence' \in {EvidenceRow(outcome), NoEvidence}
         /\ answer' \in {Answer(outcome, persisted), [kind |-> "error"]}
  BY DEF Commit, Fails
<1>4. outcome \in Outcomes
  BY <1>2, OutcomeTyped
<1>5. evidence' = NoEvidence \/ evidence' \in [refs : SUBSET rows, outcome : Outcomes]
  BY <1>2, <1>3, <1>4 DEF EvidenceRow, Requests
<1>6. Answer(outcome, persisted) \in Answers
  BY <1>2, <1>4 DEF Answer, Answers, Requests
<1>7. Answers' = Answers /\ Consulted' = Consulted
  BY <1>1 DEF Answers, Consulted
<1>8. TypeOK'
  BY <1>1, <1>3, <1>5, <1>6, <1>7 DEF ListInv, TypeOK
<1> QED
  BY <1>1, <1>8 DEF ListInv, Served

(* A request begins with its endpoint's list and nothing found. *)
LEMMA BeginIsTyped ==
    ASSUME ListInv, Begin
    PROVE  ListInv'
<1>1. PICK place \in Places, at \in Ats :
         req' = [todo |-> endpoint.todo, place |-> place, at |-> at, found |-> {},
                 alerts |-> {}, loaded |-> TRUE, coverage |-> {}, seen |-> {},
                 due |-> Due(place)]
  BY DEF Begin
<1>2. UNCHANGED <<endpoint, clock, polls, flight, rows, states, evidence, answer>>
  BY DEF Begin
<1>3. endpoint \in AllEndpoints /\ ListOK(endpoint.todo)
  BY FeedAssumption, EndpointTyped DEF ListInv, TypeOK
<1>4. endpoint.todo \in Seq(Statements) \ {<<>>}
  BY <1>3 DEF ListOK
<1>5. place \in PlaceKinds
  <2>1. endpoint.channel \in {"rest", "mcp", "agent"}
    BY <1>3, EndpointTyped
  <2> QED
    BY <2>1 DEF Places, PlaceKinds
<1>6. at \in Int
  BY FeedAssumption DEF Ats, ListInv, TypeOK, Never
<1>7. Due(place) \in SUBSET rows
  BY DEF Due
<1> HIDE DEF Due
<1>8. req' \in Requests /\ req'.todo = endpoint.todo
  BY <1>1, <1>4, <1>5, <1>6, <1>7 DEF Requests
<1>9. Requests' = Requests /\ Consulted' = Consulted /\ Answers' = Answers
  BY <1>2 DEF Requests, Consulted, Answers
<1>10. TypeOK'
  BY <1>2, <1>8, <1>9 DEF ListInv, TypeOK
<1> QED
  BY <1>3, <1>8, <1>10 DEF ListInv

(* The read path keeps its types: what a request holds, answers and stores as *)
(* evidence are rows of the tables and named outcomes, and a request never    *)
(* runs past its COMMIT.                                                      *)
THEOREM TypeCorrect == Spec => []TypeOK
<1>1. Init => ListInv
  <2> SUFFICES ASSUME Init
               PROVE  ListInv
    OBVIOUS
  <2>1. states \in [Consulted -> PollStates]
    BY DEF Init, PollStates, BlockedStates
  <2> QED
    BY <2>1 DEF Init, ListInv, TypeOK, Served
<1>2. ListInv /\ [Next]_vars => ListInv'
  <2> SUFFICES ASSUME ListInv, [Next]_vars
               PROVE  ListInv'
    OBVIOUS
  <2>1. CASE Refuse \/ Delivered
    <3>1. UNCHANGED <<endpoint, clock, polls, flight, rows, states, req>>
      BY <2>1 DEF Refuse, Delivered
    <3>2. Requests' = Requests /\ Consulted' = Consulted /\ Answers' = Answers
      BY <3>1 DEF Requests, Consulted, Answers
    <3>3. /\ answer' \in {NoAnswer, [kind |-> "refused"]}
          /\ evidence' \in {evidence, NoEvidence}
      BY <2>1 DEF Refuse, Delivered
    <3> QED
      BY <3>1, <3>2, <3>3 DEF ListInv, TypeOK, Served
  <2>2. CASE UNCHANGED vars
    <3>1. Requests' = Requests /\ Consulted' = Consulted /\ Answers' = Answers
      BY <2>2 DEF vars, Requests, Consulted, Answers
    <3> QED
      BY <2>2, <3>1 DEF vars, ListInv, TypeOK, Served
  <2> QED
    BY <2>1, <2>2, WorldIsTyped, BeginIsTyped, RequestIsTyped, AnswerIsTyped DEF Next
<1>3. ListInv => TypeOK
  BY DEF ListInv
<1> QED
  BY <1>1, <1>2, <1>3, PTL DEF Spec
=============================================================================
