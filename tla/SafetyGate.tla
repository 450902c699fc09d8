----------------------------- MODULE SafetyGate -----------------------------
(***************************************************************************)
(* The clearance gate (domain/safety_gate.py) and the sea-state vocabulary *)
(* it falls back on (domain/sea_state.py).                                 *)
(*                                                                         *)
(* A request is the record of the gate's arguments:                        *)
(*   reading   factor -> value or None                                     *)
(*   tide      a tide level is given                                       *)
(*   category  the sea-state words of the bulletin, as the set of WMO 3700 *)
(*             codes its parts stand for, or None                          *)
(*   warnings  the severities of the active warnings                       *)
(*   cyclone   distance of the nearest cyclone in km, or None              *)
(*   zones     the zones the route crosses: their status ("unknown" stands *)
(*             for a missing one) and whether their type is one that blocks *)
(*             (restricted, prohibited, border, eez)                       *)
(*   complete, requireTide   the flags of the same meaning                 *)
(***************************************************************************)
EXTENDS MarineRisk, FiniteSetsExt

CONSTANT Unlisted   \* a part of a category that is not in the vocabulary

(* WMO code table 3700: bounds of the wave height, in centimetres. *)
WMO3700 ==
    [code \in 0 .. 9 |->
        <<[lo |-> 0,   hi |-> 0],   [lo |-> 0,   hi |-> 10],  [lo |-> 10,  hi |-> 50],
          [lo |-> 50,  hi |-> 125], [lo |-> 125, hi |-> 250], [lo |-> 250, hi |-> 400],
          [lo |-> 400, hi |-> 600], [lo |-> 600, hi |-> 900], [lo |-> 900, hi |-> 1400],
          [lo |-> 1400, hi |-> 1400]>>[code + 1]]

(* The band of a category, or None when it is blank or any part of it is    *)
(* not in the vocabulary.                                                   *)
ParseSeaStateCategory(category) ==
    IF category = None THEN None
    ELSE IF category = {} \/ Unlisted \in category THEN None
    ELSE [lo |-> Min({WMO3700[c].lo : c \in category}),
          hi |-> Max({WMO3700[c].hi : c \in category})]

(* Mutation: the lower bound of the band. *)
MutantConservativeHeight(band) == band.lo

ConservativeHeight(band) == band.hi

HasWave(q) == q.reading["wave_height"] # None
HasSwell(q) == q.reading["swell_height"] # None
HasWind(q) == q.reading["wind_speed"] # None
Measured(q) == HasWave(q) \/ HasSwell(q)

(* The category counts only where no height is given. *)
SeaState(q) == IF Measured(q) THEN None ELSE ParseSeaStateCategory(q.category)
Derived(q) == SeaState(q) # None

(* Mutation: any category will do. *)
MutantSeaStateKnown(q) == Measured(q) \/ q.category # None

SeaStateKnown(q) == Measured(q) \/ Derived(q)

MissingInputs(q) ==
    {i \in {"sea_state", "wind", "tide"} :
        CASE i = "sea_state" -> ~ SeaStateKnown(q)
          [] i = "wind"      -> ~ HasWind(q)
          [] i = "tide"      -> q.requireTide /\ ~ q.tide}

ZoneUnknown(q) == \E z \in q.zones : z.status = "unknown"
BlockingZone(q) == \E z \in q.zones : z.status = "active" /\ z.blocks

(* Mutation: an unresolved zone is reported and nothing more. *)
MutantInsufficient(q) == MissingInputs(q) # {} \/ ~ q.complete

Insufficient(q) == MissingInputs(q) # {} \/ ~ q.complete \/ ZoneUnknown(q)

(* The readings the risk engine is given: the upper bound of the band       *)
(* stands in for a wave height that is not given.                           *)
EffectiveReading(q) ==
    IF Derived(q) THEN [q.reading EXCEPT !["wave_height"] = ConservativeHeight(SeaState(q))] ELSE q.reading

(* The risk is computed only when the core inputs are there. *)
Risk(q) ==
    IF SeaStateKnown(q) /\ HasWind(q)
    THEN AssessMarineRisk(EffectiveReading(q), q.warnings, q.cyclone)
    ELSE None

Level(risk) == IF risk = None THEN None ELSE Classify(risk)

Reasons(q, level) ==
    {r \in {"WAVE_FORECAST_UNAVAILABLE", "SEA_STATE_UNKNOWN", "SEA_STATE_CATEGORY_UNRECOGNISED",
            "SEA_STATE_DERIVED_FROM_CATEGORY", "WIND_DATA_UNAVAILABLE", "TIDE_DATA_UNAVAILABLE",
            "ENVIRONMENTAL_ROUTE_RISK_INCOMPLETE", "RESTRICTED_ZONE_OPERATIONAL_STATUS_UNKNOWN",
            "ACTIVE_HAZARD_IN_AREA", "RESTRICTED_ZONE_INTERSECTION", "ENVIRONMENTAL_RISK_TOO_HIGH"} :
        CASE r \in {"WAVE_FORECAST_UNAVAILABLE", "SEA_STATE_UNKNOWN"} ->
                    "sea_state" \in MissingInputs(q)
          [] r = "SEA_STATE_CATEGORY_UNRECOGNISED" ->
                    ~ Measured(q) /\ q.category # None /\ ~ Derived(q)
          [] r = "SEA_STATE_DERIVED_FROM_CATEGORY" -> Derived(q)
          [] r = "WIND_DATA_UNAVAILABLE" -> "wind" \in MissingInputs(q)
          [] r = "TIDE_DATA_UNAVAILABLE" -> "tide" \in MissingInputs(q)
          [] r = "ENVIRONMENTAL_ROUTE_RISK_INCOMPLETE" -> ~ q.complete
          [] r = "RESTRICTED_ZONE_OPERATIONAL_STATUS_UNKNOWN" -> ZoneUnknown(q)
          [] r = "ACTIVE_HAZARD_IN_AREA" -> q.warnings # {}
          [] r = "RESTRICTED_ZONE_INTERSECTION" -> BlockingZone(q)
          [] r = "ENVIRONMENTAL_RISK_TOO_HIGH" -> level \in {"HIGH", "EXTREME"}}

Status(q, level) ==
    IF \/ Insufficient(q)
       \/ q.warnings # {}
       \/ BlockingZone(q)
       \/ level \in {"HIGH", "EXTREME"}
    THEN "NOT_CLEARED"
    ELSE IF level = "MODERATE" \/ Derived(q) THEN "CLEARED_WITH_CAUTION"
    ELSE "CLEARED"

EvaluateSafetyGate(q) ==
    LET risk  == Risk(q)
        level == Level(risk)
    IN  [status       |-> Status(q, level),
         insufficient |-> Insufficient(q),
         reasons      |-> Reasons(q, level),
         missing      |-> MissingInputs(q),
         risk         |-> risk]
=============================================================================
