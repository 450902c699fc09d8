--------------------------- MODULE WaveModelSource --------------------------
(* The INCOIS WaveWatch III adapter (sources/incois_ww3.py).  A poll reads   *)
(* the catalogue and the dataset description, then probes the grid nodes     *)
(* around every configured point, and reports for each time step the nearest *)
(* wet node and the roughest one inside the search radius.                   *)
(*                                                                           *)
(* The sea around a point is chosen when its first probe is sent and does    *)
(* not change while the point is probed; each probe is answered from it or   *)
(* fails.  A cell of the sea maps the variables that are finite there to     *)
(* their values: land is a cell without "HS".                                *)
EXTENDS SourceContract

CONSTANTS Points,         \* sequence of the configured coordinates
          Probes,         \* probe offsets, numbered as they are sent: the point's
                          \* own coordinate, then ring by ring
          ProbeDist,      \* distance from the point to the probed coordinate
          NodeDist,       \* distance from the point to the node that answers
          SearchRadius,
          Times,          \* forecast instants in the requested window
          Cells,          \* what one grid node may hold at one instant
          Catalogues,     \* file dates a catalogue may list (sets)
          Descriptions    \* unit a dataset description states, per variable

ASSUME WaveAssumption ==
    /\ IsFiniteSet(Probes) /\ Probes \subseteq Nat
    /\ NodeDist \in [Probes -> Nat]
    /\ \A cell \in Cells : "HS" \in DOMAIN cell => cell["HS"] \in Nat

\* The variables read further; T01, T02 and MWD go the way of HS.
WW3Variables == {"HS", "UWND", "VWND", "PHS00", "PHS01"}
RequiredUnit == [v \in WW3Variables |-> IF v \in {"UWND", "VWND"} THEN "m/s" ELSE "m"]

\* The newest file of the catalogue, none when nothing has the verified name.
LatestCoastFile(dates) == IF dates = {} THEN 0 ELSE Max(dates)

\* A description is accepted when it names every variable with its unit.
UnitsVerified(desc) ==
    /\ WW3Variables \subseteq DOMAIN desc
    /\ \A v \in WW3Variables : desc[v] = RequiredUnit[v]

\* The probes the adapter really sends: the others lie beyond the radius.
InRadius == {p \in Probes : ProbeDist[p] <= SearchRadius}

\* The gate of fetch, then discover: catalogue and description come through
\* the cache, which passes a loader's failure on to its caller.
WW3Gate ==
    /\ poll.stage = "gate" /\ poll.ds = "incois_ww3"
    /\ IF poll.config.enabled THEN Continue([stage |-> "catalog"]) ELSE Raise("disabled")

ReadCatalog ==
    /\ poll.stage = "catalog"
    /\ \/ Unanswered
       \/ \E dates \in Catalogues :
            IF LatestCoastFile(dates) = 0 THEN Raise("contract_error")
            ELSE Continue([stage |-> "description"])

Seas == [Probes -> [Times -> Cells]]

\* The point under probe: which probes are left, the samples gathered, and
\* whether the node of the point itself is land (unknown until it answered).
PointState(sea) ==
    [left |-> InRadius, samples |-> {}, masked |-> "unknown", sea |-> sea]

ReadDescription ==
    /\ poll.stage = "description"
    /\ \/ Unanswered
       \/ \E desc \in Descriptions :
            IF ~UnitsVerified(desc) THEN Raise("contract_error")
            ELSE \E sea \in Seas :
                   Continue([stage |-> "probe", at |-> 1, point |-> PointState(sea)])

Wet(cell) == "HS" \in DOMAIN cell

\* The rows of one answered probe, parsed: samples of wet nodes in the radius.
WetSamples(p) ==
    {[time |-> t, node |-> p, values |-> poll.point.sea[p][t]] :
        t \in {u \in Times : Wet(poll.point.sea[p][u]) /\ NodeDist[p] <= SearchRadius}}

NextProbe == Min(poll.point.left)

ProbeFails ==
    LET p == NextProbe
    IN /\ poll.stage = "probe" /\ poll.point.left # {}
       /\ \/ Raise("error")
          \/ Raise("contract_error")
          \/ /\ poll' = [poll EXCEPT !.point.left = @ \ {p},
                                     !.errors = @ \union {<<poll.at, p>>},
                                     !.lost = @ \union {<<poll.at, p>>}]
             /\ UNCHANGED outcome

ProbeAnswers ==
    LET p == NextProbe
    IN /\ poll.stage = "probe" /\ poll.point.left # {}
       /\ poll' = [poll EXCEPT !.point.left = @ \ {p},
                     !.point.samples = @ \union WetSamples(p),
                     !.point.masked =
                         IF @ = "unknown" /\ p = Min(Probes)
                         THEN IF \E t \in Times : Wet(poll.point.sea[p][t])
                              THEN "sea" ELSE "land"
                         ELSE @]
       /\ UNCHANGED outcome

Nearest(candidates) ==
    CHOOSE s \in candidates : \A o \in candidates :
        \/ NodeDist[s.node] < NodeDist[o.node]
        \/ NodeDist[s.node] = NodeDist[o.node] /\ s.node <= o.node

MutantRoughest(candidates) == Nearest(candidates)   \* key of the wrong min/max

Roughest(candidates) ==
    CHOOSE s \in candidates : \A o \in candidates :
        \/ s.values["HS"] > o.values["HS"]
        \/ s.values["HS"] = o.values["HS"] /\ s.node <= o.node

\* Everything emitted for one node: its variables, wind speed and direction
\* when both components are there, and the larger of the swell partitions.
RecordsForNode(s, selection, masked) ==
    LET v == s.values
        rec(parameter, value) ==
            [point |-> poll.at, time |-> s.time, node |-> s.node,
             parameter |-> parameter, value |-> value,
             selection |-> selection, masked |-> masked]
        swell == {v[k] : k \in {"PHS00", "PHS01"} \intersect DOMAIN v}
    IN {rec(k, v[k]) : k \in DOMAIN v}
       \union (IF {"UWND", "VWND"} \subseteq DOMAIN v
               THEN {rec("wind_speed", v["UWND"] + v["VWND"]), rec("wind_direction", 0)}
               ELSE {})
       \union (IF swell # {} THEN {rec("swell_height", Max(swell))} ELSE {})

RecordsFromSamples(samples, masked) ==
    UNION {LET c == {s \in samples : s.time = t}
               n == Nearest(c)
               r == Roughest(c)
           IN IF n.node = r.node
              THEN RecordsForNode(n, "nearest_wet_node+max_within_radius", masked)
              ELSE RecordsForNode(n, "nearest_wet_node", masked)
                   \union RecordsForNode(r, "max_within_radius", masked) :
           t \in {s.time : s \in samples}}

\* All probes of a point are done: its records join the others (bool(None) is
\* False, so an unanswered centre probe counts as sea), and the next point is
\* probed or the poll ends.
EndPoint ==
    LET records == poll.records \union
                   RecordsFromSamples(poll.point.samples, poll.point.masked = "land")
    IN /\ poll.stage = "probe" /\ poll.point.left = {}
       /\ IF poll.at < Len(Points)
          THEN /\ \E sea \in Seas :
                    poll' = [poll EXCEPT !.at = @ + 1, !.point = PointState(sea),
                                         !.records = records]
               /\ UNCHANGED outcome
          ELSE Deliver(ResultState(poll.errors, records), records, poll.lost)

WW3Next ==
    \/ WW3Gate
    \/ ReadCatalog
    \/ ReadDescription
    \/ ProbeFails
    \/ ProbeAnswers
    \/ EndPoint
=============================================================================
