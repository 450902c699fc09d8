----------------------------- MODULE MarineRisk -----------------------------
(***************************************************************************)
(* The marine risk engine (domain/risk.py).                                *)
(*                                                                         *)
(* Readings are integers: heights in centimetres, everything else in       *)
(* tenths of the code's unit.  A score is an exact fraction num / den of   *)
(* the full scale: 1 is the code's 100 points.                             *)
(***************************************************************************)
EXTENDS Integers, FiniteSets

CONSTANT None   \* a reading that is missing (None or NaN)

(* A common multiple of 100 and of the widths of all the bands below. *)
Scale == 142800

(* RiskThresholds: where a factor starts to count, where it counts in full, *)
(* and its weight.  A short wave period is the hazard, not a long one.      *)
(* low and high differ for every factor: no band is degenerate.             *)
RiskThresholds ==
    [wave_height    |-> [low |-> 200, high |-> 600,  weight |-> 14],
     wind_speed     |-> [low |-> 100, high |-> 250,  weight |-> 12],
     wind_gust      |-> [low |-> 130, high |-> 300,  weight |-> 8],
     swell_height   |-> [low |-> 150, high |-> 500,  weight |-> 10],
     wave_period    |-> [low |-> 60,  high |-> 30,   weight |-> 6],
     rainfall       |-> [low |-> 150, high |-> 1000, weight |-> 5],
     pressure_trend |-> [low |-> 20,  high |-> 80,   weight |-> 7]]

Factors == DOMAIN RiskThresholds

BandFraction(value, low, high) ==
    IF value <= low THEN 0
    ELSE IF value >= high THEN Scale
    ELSE ((value - low) * Scale) \div (high - low)

InverseBandFraction(value, comfortable, dangerous) ==
    IF value >= comfortable THEN 0
    ELSE IF value <= dangerous THEN Scale
    ELSE ((comfortable - value) * Scale) \div (comfortable - dangerous)

(* The factors that count: the ones with a value, and a pressure trend only *)
(* when it falls.                                                           *)
Scored(reading) ==
    {f \in Factors : /\ reading[f] # None
                     /\ f = "pressure_trend" => reading[f] < 0}

Fraction(f, value) ==
    LET t == RiskThresholds[f] IN
    CASE f = "wave_period"    -> InverseBandFraction(value, t.low, t.high)
      [] f = "pressure_trend" -> BandFraction(-value, t.low, t.high)
      [] OTHER                -> BandFraction(value, t.low, t.high)

Contribution(reading, f) ==
    IF f \in Scored(reading) THEN Fraction(f, reading[f]) * RiskThresholds[f].weight ELSE 0

Weight(reading, f) == IF f \in Scored(reading) THEN RiskThresholds[f].weight ELSE 0

SumOfFactors(term) ==
    term["wave_height"] + term["wind_speed"] + term["wind_gust"] + term["swell_height"]
      + term["wave_period"] + term["rainfall"] + term["pressure_trend"]

TotalWeight(reading) == SumOfFactors([f \in Factors |-> Weight(reading, f)])

(* Points added for an active warning, by its severity. *)
WarningSeverityPenalty(severity) ==
    CASE severity = "extreme" -> 45
      [] severity = "severe"  -> 30
      [] severity = "minor"   -> 7
      [] OTHER                -> 15

(* The points of all warnings.  Severities outside the table count alike.   *)
WarningPenalty(warnings) ==
    LET listed    == {"extreme", "severe", "minor"}
        points(s) == IF s \in warnings THEN WarningSeverityPenalty(s) ELSE 0
    IN  points("extreme") + points("severe") + points("minor")
          + WarningSeverityPenalty("unknown") * Cardinality(warnings \ listed)

(* Mutation: the bands are compared the wrong way round. *)
MutantCyclonePenalty(km) ==
    CASE km = None -> 0
      [] km # None /\ km >= 800 -> 60
      [] km # None /\ km < 800 /\ km >= 300 -> 20
      [] OTHER -> 0

(* Points added for a cyclone: those of the first band that reaches it. *)
CyclonePenalty(km) ==
    CASE km = None -> 0
      [] km # None /\ km <= 100 -> 60
      [] km # None /\ km > 100 /\ km <= 300 -> 40
      [] km # None /\ km > 300 /\ km <= 500 -> 20
      [] km # None /\ km > 500 /\ km <= 800 -> 8
      [] OTHER -> 0

Capped(num, den) == IF num > den THEN den ELSE num

(* The score: the weighted mean of the factors that count, plus the flat    *)
(* penalties, at most the full scale.  Without any factor the base is 0.    *)
AssessMarineRisk(reading, warnings, cyclone) ==
    LET weight  == IF Scored(reading) = {} THEN 1 ELSE TotalWeight(reading)
        den     == Scale * weight
        base    == SumOfFactors([f \in Factors |-> Contribution(reading, f)])
        penalty == WarningPenalty(warnings) + CyclonePenalty(cyclone)
        num     == base + penalty * (den \div 100)
    IN  [num |-> Capped(num, den), den |-> den]

Classify(score) ==
    CASE 4 * score.num >= 3 * score.den -> "EXTREME"
      [] 4 * score.num < 3 * score.den /\ 2 * score.num >= score.den -> "HIGH"
      [] 2 * score.num < score.den /\ 4 * score.num >= score.den -> "MODERATE"
      [] OTHER -> "LOW"

(* score s is at most score t *)
AtMost(s, t) == s.num * (t.den \div Scale) <= t.num * (s.den \div Scale)
=============================================================================
