----------------------- MODULE AssessmentToolsProofs -----------------------
(***************************************************************************)
(* Proofs about the computing tools, for whatever values the factors,      *)
(* zones, warnings, distances and series take and however an agent goes    *)
(* from one request to the next: a clearance rests on evidence, a refusal  *)
(* has a reason, windows cut the series and keep its worst, and worse      *)
(* inputs never give a better answer.                                      *)
(*                                                                         *)
(* The tools answer from their arguments alone, so the state invariant is  *)
(* only that the answer on the table is the answer to the arguments on the *)
(* table; the work is in the operators.  Windows are merged step by step:  *)
(* what the windows of the first n steps satisfy (CutUpTo) is kept by one  *)
(* step more, and a smallest n at which it failed would contradict that.   *)
(***************************************************************************)
EXTENDS AssessmentTools, FiniteSetTheorems, WellFoundedInduction, TLAPS

(* The values a factor is given. *)
Values == {None} \cup (UNION {Readings[f] : f \in Factors})

(* What evaluate_safety_clearance may be asked. *)
Requests ==
    [reading  : [Factors -> Values],
     tide     : BOOLEAN,
     category : Categories \cup {None},
     warnings : SUBSET Severities,
     cyclone  : Distances \cup {None},
     zones    : SUBSET Zones,
     complete : BOOLEAN,
     requireTide : BOOLEAN]

-----------------------------------------------------------------------------
(* Scores *)

(* Scores: fractions between 0 and 1 whose denominator is the full scale a  *)
(* whole number of times.                                                   *)
Scores == {s \in [num : Int, den : {Scale * w : w \in Nat \ {0}}] : 0 <= s.num /\ s.num <= s.den}

(* The weight behind a denominator. *)
LEMMA Denominators ==
    ASSUME NEW s \in Scores
    PROVE  /\ s.num \in Int /\ s.den \in Nat /\ s.num \in 0 .. s.den
           /\ s.den \div Scale \in Nat \ {0} /\ s.den = Scale * (s.den \div Scale)
<1>1. PICK w \in Nat \ {0} : s.den = Scale * w
  BY DEF Scores
<1>2. (Scale * w) \div Scale = w /\ Scale * w \in Nat
  BY DEF Scale
<1> QED
  BY <1>1, <1>2 DEF Scores

(* Cross-multiplication is transitive, *)
LEMMA CrossTransitive ==
    ASSUME NEW a \in Int, NEW b \in Int, NEW c \in Int,
           NEW x \in Nat \ {0}, NEW y \in Nat \ {0}, NEW z \in Nat \ {0},
           a * y <= b * x, b * z <= c * y
    PROVE  a * z <= c * x
<1>1. (a * y) * z <= (b * x) * z
  OBVIOUS
<1>2. (b * z) * x <= (c * y) * x
  OBVIOUS
<1>3. (b * x) * z = (b * z) * x /\ (a * y) * z = (a * z) * y /\ (c * y) * x = (c * x) * y
  OBVIOUS
<1>4. (a * z) * y <= (c * x) * y
  BY <1>1, <1>2, <1>3
<1>5. a * z \in Int /\ c * x \in Int
  OBVIOUS
<1> HIDE DEF Scale
<1>6. ASSUME NEW u \in Int, NEW v \in Int, u * y <= v * y PROVE u <= v
  BY <1>6
<1> QED
  BY <1>4, <1>5, <1>6

(* and it respects a cut at any part of the scale. *)
LEMMA CrossCut ==
    ASSUME NEW a \in Int, NEW b \in Int, NEW x \in Nat \ {0}, NEW y \in Nat \ {0},
           NEW k \in {2, 4}, a * y <= b * x, k * b <= Scale * y
    PROVE  k * a <= Scale * x
<1>1. (k * b) * x <= (Scale * y) * x
  BY DEF Scale
<1>2. k * (a * y) <= k * (b * x)
  OBVIOUS
<1>3. /\ k * (b * x) = (k * b) * x /\ k * (a * y) = (k * a) * y
      /\ (Scale * y) * x = (Scale * x) * y
  BY DEF Scale
<1>4. (k * a) * y <= (Scale * x) * y
  BY <1>1, <1>2, <1>3 DEF Scale
<1>5. k * a \in Int /\ Scale * x \in Int
  BY DEF Scale
<1>6. ASSUME NEW u \in Int, NEW v \in Int, u * y <= v * y PROVE u <= v
  BY <1>6
<1> QED
  BY <1>4, <1>5, <1>6

(* Scores are ordered, *)
LEMMA AtMostTransitive ==
    ASSUME NEW s \in Scores, NEW t \in Scores, NEW u \in Scores, AtMost(s, t), AtMost(t, u)
    PROVE  AtMost(s, u)
  BY Denominators, CrossTransitive DEF AtMost

(* and a score is at most itself. *)
LEMMA AtMostReflexive == \A s \in Scores : AtMost(s, s)
<1> SUFFICES ASSUME NEW s \in Scores PROVE AtMost(s, s)
  OBVIOUS
<1>1. s.num * (s.den \div Scale) \in Int
  BY Denominators
<1> QED
  BY <1>1 DEF AtMost

(* The higher of two scores is one of them and no lower than either. *)
LEMMA MaxScoreMeaning ==
    ASSUME NEW s \in Scores, NEW t \in Scores
    PROVE  /\ MaxScore(s, t) \in Scores
           /\ AtMost(s, MaxScore(s, t)) /\ AtMost(t, MaxScore(s, t))
<1>1. /\ s.num * (t.den \div Scale) \in Int /\ t.num * (s.den \div Scale) \in Int
      /\ s.num * (s.den \div Scale) \in Int /\ t.num * (t.den \div Scale) \in Int
  BY Denominators
<1>2. AtMost(s, t) \/ AtMost(t, s)
  BY <1>1 DEF AtMost
<1>3. AtMost(s, s) /\ AtMost(t, t)
  BY <1>1 DEF AtMost
<1> QED
  BY <1>2, <1>3 DEF MaxScore

(* A score that is no lower is of no lower a class. *)
LEMMA ClassGrows ==
    ASSUME NEW s \in Scores, NEW t \in Scores, AtMost(s, t)
    PROVE  ClassRank(ClassifyScore(s)) <= ClassRank(ClassifyScore(t))
<1> DEFINE x == s.den \div Scale
           y == t.den \div Scale
<1>1. /\ s.num \in Int /\ t.num \in Int /\ x \in Nat \ {0} /\ y \in Nat \ {0}
      /\ s.den = Scale * x /\ t.den = Scale * y
  BY Denominators
<1>2. s.num * y <= t.num * x
  BY DEF AtMost
<1>3. \A k \in {2, 4} : k * t.num <= t.den => k * s.num <= s.den
  <2> HIDE DEF x, y
  <2> QED
    BY <1>1, <1>2, CrossCut
<1>4. (4 * t.num <= t.den => 4 * s.num <= s.den) /\ (2 * t.num <= t.den => 2 * s.num <= s.den)
  BY <1>3
<1>5. s.den \in Nat /\ t.den \in Nat
  BY Denominators
<1> HIDE DEF x, y
<1> QED
  BY <1>1, <1>4, <1>5 DEF ClassifyScore, ClassRank

-----------------------------------------------------------------------------
(* The bands of the factors *)

(* The seven factors. *)
LEMMA FactorNames ==
    Factors = {"wave_height", "wind_speed", "wind_gust", "swell_height", "wave_period", "rainfall",
               "pressure_trend"}
<1> DEFINE R == RiskThresholds
<1>1. DOMAIN R = {"wave_height", "wind_speed", "wind_gust", "swell_height", "wave_period", "rainfall",
               "pressure_trend"}
  BY DEF RiskThresholds
<1> QED
  BY <1>1 DEF Factors

(* RiskThresholds, factor by factor. *)
LEMMA Bands ==
    /\ RiskThresholds["wave_height"] = [low |-> 200, high |-> 600, weight |-> 14]
    /\ RiskThresholds["wind_speed"] = [low |-> 100, high |-> 250, weight |-> 12]
    /\ RiskThresholds["wind_gust"] = [low |-> 130, high |-> 300, weight |-> 8]
    /\ RiskThresholds["swell_height"] = [low |-> 150, high |-> 500, weight |-> 10]
    /\ RiskThresholds["wave_period"] = [low |-> 60, high |-> 30, weight |-> 6]
    /\ RiskThresholds["rainfall"] = [low |-> 150, high |-> 1000, weight |-> 5]
    /\ RiskThresholds["pressure_trend"] = [low |-> 20, high |-> 80, weight |-> 7]
  BY DEF RiskThresholds

(* A number lies in a band somewhere between nothing and the full scale, and *)
(* the higher it is the further up (the lower, for an inverse band).         *)
LEMMA BandGrows ==
    ASSUME NEW v \in Int, NEW w \in Int, v <= w
    PROVE  /\ BandFraction(v, 200, 600) \in Nat /\ BandFraction(w, 200, 600) \in Nat
           /\ BandFraction(v, 200, 600) <= BandFraction(w, 200, 600)
           /\ BandFraction(v, 100, 250) \in Nat /\ BandFraction(w, 100, 250) \in Nat
           /\ BandFraction(v, 100, 250) <= BandFraction(w, 100, 250)
           /\ BandFraction(v, 130, 300) \in Nat /\ BandFraction(w, 130, 300) \in Nat
           /\ BandFraction(v, 130, 300) <= BandFraction(w, 130, 300)
           /\ BandFraction(v, 150, 500) \in Nat /\ BandFraction(w, 150, 500) \in Nat
           /\ BandFraction(v, 150, 500) <= BandFraction(w, 150, 500)
           /\ BandFraction(v, 150, 1000) \in Nat /\ BandFraction(w, 150, 1000) \in Nat
           /\ BandFraction(v, 150, 1000) <= BandFraction(w, 150, 1000)
           /\ BandFraction(v, 20, 80) \in Nat /\ BandFraction(w, 20, 80) \in Nat
           /\ BandFraction(v, 20, 80) <= BandFraction(w, 20, 80)
           /\ InverseBandFraction(v, 60, 30) \in Nat /\ InverseBandFraction(w, 60, 30) \in Nat
           /\ InverseBandFraction(w, 60, 30) <= InverseBandFraction(v, 60, 30)
<1>1. /\ BandFraction(v, 200, 600) \in Nat /\ BandFraction(w, 200, 600) \in Nat
      /\ BandFraction(v, 200, 600) <= BandFraction(w, 200, 600)
  BY DEF BandFraction, Scale
<1>2. /\ BandFraction(v, 100, 250) \in Nat /\ BandFraction(w, 100, 250) \in Nat
      /\ BandFraction(v, 100, 250) <= BandFraction(w, 100, 250)
  BY DEF BandFraction, Scale
<1>3. /\ BandFraction(v, 130, 300) \in Nat /\ BandFraction(w, 130, 300) \in Nat
      /\ BandFraction(v, 130, 300) <= BandFraction(w, 130, 300)
  BY DEF BandFraction, Scale
<1>4. /\ BandFraction(v, 150, 500) \in Nat /\ BandFraction(w, 150, 500) \in Nat
      /\ BandFraction(v, 150, 500) <= BandFraction(w, 150, 500)
  BY DEF BandFraction, Scale
<1>5. /\ BandFraction(v, 150, 1000) \in Nat /\ BandFraction(w, 150, 1000) \in Nat
      /\ BandFraction(v, 150, 1000) <= BandFraction(w, 150, 1000)
  BY DEF BandFraction, Scale
<1>6. /\ BandFraction(v, 20, 80) \in Nat /\ BandFraction(w, 20, 80) \in Nat
      /\ BandFraction(v, 20, 80) <= BandFraction(w, 20, 80)
  BY DEF BandFraction, Scale
<1>7. /\ InverseBandFraction(v, 60, 30) \in Nat /\ InverseBandFraction(w, 60, 30) \in Nat
      /\ InverseBandFraction(w, 60, 30) <= InverseBandFraction(v, 60, 30)
  BY DEF InverseBandFraction, Scale
<1> QED
  BY <1>1, <1>2, <1>3, <1>4, <1>5, <1>6, <1>7

(* A value of a factor that is at least as bad as another. *)
NoMilder(f, v, w) == IF f \in {"wave_period", "pressure_trend"} THEN w <= v ELSE w >= v

(* The worse a value the larger its fraction of the scale. *)
LEMMA FractionGrows ==
    ASSUME NEW f \in Factors, NEW v \in Int, NEW w \in Int, NoMilder(f, v, w)
    PROVE  Fraction(f, v) \in Nat /\ Fraction(f, w) \in Nat /\ Fraction(f, v) <= Fraction(f, w)
<1>1. CASE f = "wave_height"
  <2>1. Fraction(f, v) = BandFraction(v, 200, 600) /\ Fraction(f, w) = BandFraction(w, 200, 600)
    BY <1>1, Bands DEF Fraction
  <2> QED
    BY <1>1, <2>1, BandGrows DEF NoMilder
<1>2. CASE f = "wind_speed"
  <2>1. Fraction(f, v) = BandFraction(v, 100, 250) /\ Fraction(f, w) = BandFraction(w, 100, 250)
    BY <1>2, Bands DEF Fraction
  <2> QED
    BY <1>2, <2>1, BandGrows DEF NoMilder
<1>3. CASE f = "wind_gust"
  <2>1. Fraction(f, v) = BandFraction(v, 130, 300) /\ Fraction(f, w) = BandFraction(w, 130, 300)
    BY <1>3, Bands DEF Fraction
  <2> QED
    BY <1>3, <2>1, BandGrows DEF NoMilder
<1>4. CASE f = "swell_height"
  <2>1. Fraction(f, v) = BandFraction(v, 150, 500) /\ Fraction(f, w) = BandFraction(w, 150, 500)
    BY <1>4, Bands DEF Fraction
  <2> QED
    BY <1>4, <2>1, BandGrows DEF NoMilder
<1>5. CASE f = "rainfall"
  <2>1. Fraction(f, v) = BandFraction(v, 150, 1000) /\ Fraction(f, w) = BandFraction(w, 150, 1000)
    BY <1>5, Bands DEF Fraction
  <2> QED
    BY <1>5, <2>1, BandGrows DEF NoMilder
<1>6. CASE f = "wave_period"
  <2>1. /\ Fraction(f, v) = InverseBandFraction(v, 60, 30)
        /\ Fraction(f, w) = InverseBandFraction(w, 60, 30)
    BY <1>6, Bands DEF Fraction
  <2> QED
    BY <1>6, <2>1, BandGrows DEF NoMilder
<1>7. CASE f = "pressure_trend"
  <2>1. Fraction(f, v) = BandFraction(-v, 20, 80) /\ Fraction(f, w) = BandFraction(-w, 20, 80)
    BY <1>7, Bands DEF Fraction
  <2>2. -v <= -w /\ -v \in Int /\ -w \in Int
    BY <1>7 DEF NoMilder
  <2> QED
    BY <2>1, <2>2, BandGrows
<1> QED
  BY <1>1, <1>2, <1>3, <1>4, <1>5, <1>6, <1>7, FactorNames

(* A sum of seven numbers grows with each of them. *)
LEMMA SumGrows ==
    ASSUME NEW s \in [Factors -> Nat], NEW t \in [Factors -> Nat], \A f \in Factors : s[f] <= t[f]
    PROVE  /\ SumOfFactors(s) \in Nat /\ SumOfFactors(t) \in Nat /\ SumOfFactors(s) <= SumOfFactors(t)
           /\ \A f \in Factors : t[f] <= SumOfFactors(t)
  BY FactorNames DEF SumOfFactors

Given == [Factors -> Int \cup {None}]

(* A factor counts only when it has a value. *)
LEMMA ScoredAreNumbers ==
    ASSUME NEW r \in Given, NEW f \in Scored(r)
    PROVE  f \in Factors /\ r[f] \in Int
  BY DEF Scored, Given

(* More warnings add no fewer points, *)
LEMMA WarningsAdd ==
    ASSUME NEW w \in SUBSET Severities, NEW v \in SUBSET w
    PROVE  /\ WarningPenalty(v) \in Nat /\ WarningPenalty(w) \in Nat
           /\ WarningPenalty(v) <= WarningPenalty(w)
<1> DEFINE Listed == {"extreme", "severe", "minor"}
           m == Cardinality(v \ Listed)
           n == Cardinality(w \ Listed)
<1>1. IsFiniteSet(w \ Listed) /\ IsFiniteSet(v \ Listed)
  BY ToolsAssumption, FS_Subset
<1>2. m \in Nat /\ n \in Nat /\ m <= n
  <2>1. v \ Listed \subseteq w \ Listed
    OBVIOUS
  <2> HIDE DEF Listed
  <2> QED
    BY <1>1, <2>1, FS_Subset, FS_CardinalityType
<1> HIDE DEF m, n
<1> DEFINE Points(u, s) == IF s \in u THEN WarningSeverityPenalty(s) ELSE 0
<1>3. \A s \in Listed \cup {"unknown"} : WarningSeverityPenalty(s) \in Nat
  BY DEF WarningSeverityPenalty
<1>4. WarningSeverityPenalty("unknown") = 15
  BY DEF WarningSeverityPenalty
<1>5. \A s \in Listed : Points(v, s) \in Nat /\ Points(w, s) \in Nat /\ Points(v, s) <= Points(w, s)
  BY <1>3
<1>6. /\ WarningPenalty(v) = Points(v, "extreme") + Points(v, "severe") + Points(v, "minor") + 15 * m
      /\ WarningPenalty(w) = Points(w, "extreme") + Points(w, "severe") + Points(w, "minor") + 15 * n
  BY <1>4 DEF WarningPenalty, m, n
<1> HIDE DEF Points
<1> QED
  BY <1>2, <1>5, <1>6

(* and neither does a nearer cyclone. *)
LEMMA CycloneNears ==
    ASSUME NEW c \in Distances \cup {None}, NEW d \in Distances \cup {None},
           c # None => d # None /\ d <= c
    PROVE  CyclonePenalty(c) \in Nat /\ CyclonePenalty(d) \in Nat /\ CyclonePenalty(c) <= CyclonePenalty(d)
<1>1. Distances \subseteq Int
  BY ToolsAssumption
<1>2. \A x \in Distances \cup {None} : CyclonePenalty(x) \in Nat
  BY <1>1 DEF CyclonePenalty
<1>3. CASE c = None
  BY <1>2, <1>3 DEF CyclonePenalty
<1>4. CASE c # None
  <2>1. c \in Int /\ d \in Int /\ d # None /\ d <= c
    BY <1>1, <1>4
  <2>2. CyclonePenalty(c) <= CyclonePenalty(d)
    BY <1>4, <2>1 DEF CyclonePenalty
  <2> QED
    BY <1>2, <2>2
<1> QED
  BY <1>3, <1>4

(* With the same factors counting, each no milder, no fewer warnings and no *)
(* farther cyclone, a score is no lower.                                    *)
LEMMA ScoreGrows ==
    ASSUME NEW r \in Given, NEW s \in Given, Scored(r) = Scored(s),
           \A f \in Scored(r) : NoMilder(f, r[f], s[f]),
           NEW w \in SUBSET Severities, NEW v \in SUBSET w,
           NEW c \in Distances \cup {None}, NEW d \in Distances \cup {None},
           c # None => d # None /\ d <= c
    PROVE  /\ AssessMarineRisk(r, v, c).num <= AssessMarineRisk(s, w, d).num
           /\ AssessMarineRisk(r, v, c).den = AssessMarineRisk(s, w, d).den
           /\ AssessMarineRisk(r, v, c) \in Scores /\ AssessMarineRisk(s, w, d) \in Scores
<1> DEFINE W == IF Scored(s) = {} THEN 1 ELSE TotalWeight(s)
           D == Scale * W
           b == SumOfFactors([f \in Factors |-> Contribution(r, f)])
           e == SumOfFactors([f \in Factors |-> Contribution(s, f)])
           p == WarningPenalty(v) + CyclonePenalty(c)
           q == WarningPenalty(w) + CyclonePenalty(d)
<1>1. \A f \in Factors : RiskThresholds[f].weight \in Nat \ {0}
  BY Bands, FactorNames
<1>2. \A f \in Factors : Weight(s, f) \in Nat /\ Weight(r, f) = Weight(s, f)
  BY <1>1 DEF Weight
<1>3. [f \in Factors |-> Weight(r, f)] = [f \in Factors |-> Weight(s, f)]
  BY <1>2
<1>4. TotalWeight(r) = TotalWeight(s)
  BY <1>3, Zenon DEF TotalWeight
<1>5. W \in Nat \ {0}
  <2>1. CASE Scored(s) = {}
    BY <2>1
  <2>2. ASSUME NEW f \in Scored(s) PROVE W \in Nat \ {0}
    <3>1. f \in Factors
      BY DEF Scored
    <3> DEFINE t == [g \in Factors |-> Weight(s, g)]
    <3>2. t \in [Factors -> Nat] /\ t[f] = RiskThresholds[f].weight
      BY <1>2, <3>1 DEF Weight
    <3>3. TotalWeight(s) = SumOfFactors(t)
      BY DEF TotalWeight
    <3> HIDE DEF t
    <3>4. \A g \in Factors : t[g] <= t[g]
      BY <3>2
    <3>5. SumOfFactors(t) \in Nat /\ t[f] <= SumOfFactors(t)
      BY <3>1, <3>2, <3>4, SumGrows
    <3> QED
      BY <1>1, <3>1, <3>2, <3>3, <3>5
  <2> QED
    BY <2>1, <2>2
<1>6. b \in Nat /\ e \in Nat /\ b <= e
  <2> DEFINE x == [f \in Factors |-> Contribution(r, f)]
             y == [f \in Factors |-> Contribution(s, f)]
  <2>1. ASSUME NEW f \in Factors
        PROVE  Contribution(r, f) \in Nat /\ Contribution(s, f) \in Nat
               /\ Contribution(r, f) <= Contribution(s, f)
    <3>1. CASE f \notin Scored(r)
      BY <3>1 DEF Contribution
    <3>2. CASE f \in Scored(r)
      <4>1. r[f] \in Int /\ s[f] \in Int /\ NoMilder(f, r[f], s[f])
        BY <3>2, ScoredAreNumbers
      <4>2. /\ Fraction(f, r[f]) \in Nat /\ Fraction(f, s[f]) \in Nat
            /\ Fraction(f, r[f]) <= Fraction(f, s[f])
        BY <4>1, FractionGrows
      <4>3. /\ Contribution(r, f) = Fraction(f, r[f]) * RiskThresholds[f].weight
            /\ Contribution(s, f) = Fraction(f, s[f]) * RiskThresholds[f].weight
        BY <3>2 DEF Contribution
      <4>4. \A i, j, k \in Nat : i <= j => i * k \in Nat /\ j * k \in Nat /\ i * k <= j * k
        OBVIOUS
      <4> QED
        BY <1>1, <4>2, <4>3, <4>4
    <3> QED
      BY <3>1, <3>2
  <2>2. x \in [Factors -> Nat] /\ y \in [Factors -> Nat] /\ \A f \in Factors : x[f] <= y[f]
    BY <2>1
  <2> HIDE DEF x, y
  <2>3. SumOfFactors(x) \in Nat /\ SumOfFactors(y) \in Nat /\ SumOfFactors(x) <= SumOfFactors(y)
    BY <2>2, SumGrows
  <2> QED
    BY <2>3 DEF x, y
<1>7. p \in Nat /\ q \in Nat /\ p <= q
  BY WarningsAdd, CycloneNears
<1>8. /\ AssessMarineRisk(r, v, c) = [num |-> Capped(b + p * (D \div 100), D), den |-> D]
      /\ AssessMarineRisk(s, w, d) = [num |-> Capped(e + q * (D \div 100), D), den |-> D]
  BY <1>4 DEF AssessMarineRisk
<1> HIDE DEF W, b, e, p, q
<1>9. D \in Nat /\ D \div 100 \in Nat /\ D \in {Scale * k : k \in Nat \ {0}}
  BY <1>5 DEF Scale
<1> HIDE DEF D
<1>10. /\ p * (D \div 100) \in Nat /\ q * (D \div 100) \in Nat
       /\ p * (D \div 100) <= q * (D \div 100)
  <2>1. \A i, j, k \in Nat : i <= j => i * k \in Nat /\ j * k \in Nat /\ i * k <= j * k
    OBVIOUS
  <2> QED
    BY <1>7, <1>9, <2>1
<1>11. /\ Capped(b + p * (D \div 100), D) \in 0 .. D /\ Capped(e + q * (D \div 100), D) \in 0 .. D
       /\ Capped(b + p * (D \div 100), D) <= Capped(e + q * (D \div 100), D)
  BY <1>6, <1>9, <1>10 DEF Capped
<1> QED
  BY <1>8, <1>9, <1>11 DEF Scores

-----------------------------------------------------------------------------
(* The gate *)

(* A category that counts lies in the vocabulary of the code table. *)
LEMMA DerivedIsListed ==
    ASSUME NEW q \in Requests, Derived(q)
    PROVE  /\ ~ Measured(q)
           /\ q.category # None /\ q.category # {}
           /\ q.category \subseteq DOMAIN WMO3700
<1>1. ~ Measured(q) /\ ParseSeaStateCategory(q.category) # None
  BY DEF Derived, SeaState
<1>2. q.category # None /\ q.category # {} /\ Unlisted \notin q.category
  BY <1>1 DEF ParseSeaStateCategory
<1>3. q.category \subseteq DOMAIN WMO3700 \cup {Unlisted}
  BY <1>2, ToolsAssumption DEF Requests
<1> QED
  BY <1>1, <1>2, <1>3 DEF WMO3700

(* The three inputs the gate may find missing. *)
LEMMA MissingMeaning ==
    ASSUME NEW q
    PROVE  /\ "sea_state" \in MissingInputs(q) <=> ~ SeaStateKnown(q)
           /\ "wind" \in MissingInputs(q) <=> ~ HasWind(q)
           /\ "tide" \in MissingInputs(q) <=> (q.requireTide /\ ~ q.tide)
           /\ MissingInputs(q) \subseteq {"sea_state", "wind", "tide"}
  BY DEF MissingInputs

(* What each of the gate's refusals is explained by. *)
LEMMA ReasonsMeaning ==
    ASSUME NEW q, NEW level
    PROVE  LET R == Reasons(q, level) IN
           /\ "WAVE_FORECAST_UNAVAILABLE" \in R <=> "sea_state" \in MissingInputs(q)
           /\ "SEA_STATE_UNKNOWN" \in R <=> "sea_state" \in MissingInputs(q)
           /\ "SEA_STATE_CATEGORY_UNRECOGNISED" \in R
                <=> (~ Measured(q) /\ q.category # None /\ ~ Derived(q))
           /\ "WIND_DATA_UNAVAILABLE" \in R <=> "wind" \in MissingInputs(q)
           /\ "TIDE_DATA_UNAVAILABLE" \in R <=> "tide" \in MissingInputs(q)
           /\ "ENVIRONMENTAL_ROUTE_RISK_INCOMPLETE" \in R <=> ~ q.complete
           /\ "RESTRICTED_ZONE_OPERATIONAL_STATUS_UNKNOWN" \in R <=> ZoneUnknown(q)
           /\ "ACTIVE_HAZARD_IN_AREA" \in R <=> q.warnings # {}
           /\ "RESTRICTED_ZONE_INTERSECTION" \in R <=> BlockingZone(q)
           /\ "ENVIRONMENTAL_RISK_TOO_HIGH" \in R <=> level \in {"HIGH", "EXTREME"}
           /\ R \subseteq
                {"WAVE_FORECAST_UNAVAILABLE", "SEA_STATE_UNKNOWN",
                 "SEA_STATE_CATEGORY_UNRECOGNISED", "SEA_STATE_DERIVED_FROM_CATEGORY",
                 "WIND_DATA_UNAVAILABLE", "TIDE_DATA_UNAVAILABLE",
                 "ENVIRONMENTAL_ROUTE_RISK_INCOMPLETE",
                 "RESTRICTED_ZONE_OPERATIONAL_STATUS_UNKNOWN", "ACTIVE_HAZARD_IN_AREA",
                 "RESTRICTED_ZONE_INTERSECTION", "ENVIRONMENTAL_RISK_TOO_HIGH"}
  BY DEF Reasons

(* The gate clears nothing that is insufficient, warned of or blocked, and   *)
(* never clears in full on a category.                                       *)
LEMMA ClearedMeaning ==
    ASSUME NEW q, NEW level, Status(q, level) # "NOT_CLEARED"
    PROVE  /\ SeaStateKnown(q) /\ HasWind(q)
           /\ ~ (q.requireTide /\ ~ q.tide)
           /\ q.complete /\ q.warnings = {}
           /\ ~ ZoneUnknown(q) /\ ~ BlockingZone(q)
           /\ Derived(q) => Status(q, level) # "CLEARED"
<1>1. ~ Insufficient(q) /\ q.warnings = {} /\ ~ BlockingZone(q)
  BY DEF Status
<1>2. MissingInputs(q) = {} /\ q.complete /\ ~ ZoneUnknown(q)
  BY <1>1 DEF Insufficient
<1>3. Derived(q) => Status(q, level) # "CLEARED"
  BY DEF Status
<1> QED
  BY <1>1, <1>2, <1>3, MissingMeaning

(* A refusal and its reasons. *)
LEMMA RefusalMeaning ==
    ASSUME NEW q, NEW level
    PROVE  Status(q, level) = "NOT_CLEARED"
             <=> Reasons(q, level) \ {"SEA_STATE_DERIVED_FROM_CATEGORY"} # {}
<1> DEFINE R == Reasons(q, level)
           Why == R \ {"SEA_STATE_DERIVED_FROM_CATEGORY"}
<1>1. Status(q, level) = "NOT_CLEARED"
        <=> ( \/ MissingInputs(q) # {} \/ ~ q.complete \/ ZoneUnknown(q)
              \/ q.warnings # {} \/ BlockingZone(q) \/ level \in {"HIGH", "EXTREME"} )
  BY DEF Status, Insufficient
<1>2. MissingInputs(q) # {} => Why # {}
  <2> SUFFICES ASSUME NEW i \in MissingInputs(q) PROVE Why # {}
    OBVIOUS
  <2>1. i \in {"sea_state", "wind", "tide"}
    BY MissingMeaning
  <2> QED
    BY <2>1, ReasonsMeaning
<1>3. (~ q.complete \/ ZoneUnknown(q) \/ q.warnings # {} \/ BlockingZone(q)
         \/ level \in {"HIGH", "EXTREME"}) => Why # {}
  BY ReasonsMeaning
<1>4. ASSUME NEW r \in Why
      PROVE  \/ MissingInputs(q) # {} \/ ~ q.complete \/ ZoneUnknown(q)
             \/ q.warnings # {} \/ BlockingZone(q) \/ level \in {"HIGH", "EXTREME"}
  <2>1. CASE r = "SEA_STATE_CATEGORY_UNRECOGNISED"
    <3>1. ~ Measured(q) /\ ~ Derived(q)
      BY <2>1, ReasonsMeaning
    <3> QED
      BY <3>1, MissingMeaning DEF SeaStateKnown
  <2>2. CASE r # "SEA_STATE_CATEGORY_UNRECOGNISED"
    BY <2>2, ReasonsMeaning
  <2> QED
    BY <2>1, <2>2
<1> QED
  BY <1>1, <1>2, <1>3, <1>4

(* A set of naturals that is not empty has a smallest element. *)
LEMMA SmallestExists ==
    ASSUME NEW T \in SUBSET Nat, T # {}
    PROVE  \E m \in T : \A n \in T : m <= n
<1>1. IsWellFoundedOn(OpToRel(<, Nat), Nat)
  BY NatLessThanWellFounded
<1>2. PICK x \in T : \A y \in T : ~ (<<y, x>> \in OpToRel(<, Nat))
  BY <1>1, WFMin
<1>3. \A y \in T : x <= y
  <2>1. \A y \in T : ~ (y < x)
    BY <1>2 DEF OpToRel
  <2> QED
    BY <2>1
<1> QED
  BY <1>3

(* The readings of a request are numbers or missing. *)
LEMMA ReadingsGiven ==
    ASSUME NEW q \in Requests
    PROVE  q.reading \in Given
<1>1. Values \subseteq Int \cup {None}
  BY ToolsAssumption DEF Values
<1> QED
  BY <1>1 DEF Requests, Given

(* The upper bound of a band is a height. *)
LEMMA BandIsBounded ==
    ASSUME NEW q \in Requests, Derived(q)
    PROVE  SeaState(q).hi \in Nat
<1> DEFINE Tops == {WMO3700[c].hi : c \in q.category}
           Rest == {1400 - h : h \in Tops}
<1>1. q.category # {} /\ q.category \subseteq 0 .. 9
  <2>1. DOMAIN WMO3700 = 0 .. 9
    BY DEF WMO3700
  <2> QED
    BY <2>1, DerivedIsListed
<1>2. \A c \in 0 .. 9 : WMO3700[c].hi \in 0 .. 1400
  <2> SUFFICES ASSUME NEW c \in 0 .. 9 PROVE WMO3700[c].hi \in 0 .. 1400
    OBVIOUS
  <2> DEFINE table == <<[lo |-> 0,   hi |-> 0],   [lo |-> 0,   hi |-> 10],  [lo |-> 10,  hi |-> 50],
          [lo |-> 50,  hi |-> 125], [lo |-> 125, hi |-> 250], [lo |-> 250, hi |-> 400],
          [lo |-> 400, hi |-> 600], [lo |-> 600, hi |-> 900], [lo |-> 900, hi |-> 1400],
          [lo |-> 1400, hi |-> 1400]>>
  <2>1. WMO3700[c] = table[c + 1]
    BY DEF WMO3700
  <2>2. \A i \in 1 .. 10 : table[i].hi \in 0 .. 1400
    OBVIOUS
  <2>3. c + 1 \in 1 .. 10
    OBVIOUS
  <2> HIDE DEF table
  <2> QED
    BY <2>1, <2>2, <2>3
<1>3. (\A h \in Tops : h \in Int /\ 0 <= h /\ h <= 1400) /\ \E h : h \in Tops
  <2>1. ASSUME NEW h \in Tops PROVE h \in Int /\ 0 <= h /\ h <= 1400
    <3>1. PICK c \in q.category : h = WMO3700[c].hi
      OBVIOUS
    <3>2. c \in 0 .. 9
      BY <1>1
    <3>3. WMO3700[c].hi \in 0 .. 1400
      BY <1>2, <3>2
    <3>4. h \in 0 .. 1400
      BY <3>1, <3>3
    <3> QED
      BY <3>4
  <2>2. \E h : h \in Tops
    <3>1. PICK c : c \in q.category
      BY <1>1
    <3>2. WMO3700[c].hi \in Tops
      BY <3>1
    <3> QED
      BY <3>2
  <2> QED
    BY <2>1, <2>2
<1> HIDE DEF Tops
<1>4. Rest \subseteq Nat /\ Rest # {}
  <2>1. \A h \in Tops : 1400 - h \in Nat
    BY <1>3
  <2> QED
    BY <1>3, <2>1
<1>5. PICK k \in Rest : \A n \in Rest : k <= n
  <2> HIDE DEF Rest
  <2> QED
    BY <1>4, SmallestExists
<1>6. PICK h \in Tops : k = 1400 - h
  BY <1>5
<1>7. \A x \in Tops : h >= x
  <2> SUFFICES ASSUME NEW x \in Tops PROVE h >= x
    OBVIOUS
  <2>1. 1400 - x \in Rest /\ x \in Int /\ h \in Int
    BY <1>3, <1>6
  <2>2. k <= 1400 - x
    BY <1>5, <2>1
  <2> QED
    BY <1>6, <2>1, <2>2
<1>8. Max(Tops) \in Tops
  BY <1>6, <1>7 DEF Max
<1>9. SeaState(q).hi = Max(Tops)
  BY DEF Derived, SeaState, ParseSeaStateCategory, Tops
<1>10. Max(Tops) \in Nat
  BY <1>3, <1>8
<1> QED
  BY <1>9, <1>10

(* What the risk engine is given. *)
LEMMA EffectiveMeaning ==
    ASSUME NEW q \in Requests
    PROVE  /\ EffectiveReading(q) \in Given
           /\ \A f \in Factors : EffectiveReading(q)[f]
                = IF Derived(q) /\ f = "wave_height" THEN SeaState(q).hi ELSE q.reading[f]
<1>1. q.reading \in Given
  BY ReadingsGiven
<1>2. CASE Derived(q)
  <2>1. SeaState(q).hi \in Int
    BY <1>2, BandIsBounded
  <2>2. EffectiveReading(q) = [q.reading EXCEPT !["wave_height"] = SeaState(q).hi]
    BY <1>2 DEF EffectiveReading, ConservativeHeight
  <2> QED
    BY <1>1, <1>2, <2>1, <2>2 DEF Given
<1>3. CASE ~ Derived(q)
  BY <1>1, <1>3 DEF EffectiveReading
<1> QED
  BY <1>2, <1>3

Levels == {"LOW", "MODERATE", "HIGH", "EXTREME"}

(* A score that is no lower is of no lower a level. *)
LEMMA LevelGrows ==
    ASSUME NEW s \in Scores, NEW t \in Scores, s.num <= t.num, s.den = t.den
    PROVE  /\ Classify(s) \in Levels /\ Classify(t) \in Levels
           /\ Classify(s) \in {"HIGH", "EXTREME"} => Classify(t) \in {"HIGH", "EXTREME"}
           /\ Classify(s) = "MODERATE" => Classify(t) # "LOW"
<1>1. s.num \in Int /\ t.num \in Int /\ s.den \in Nat
  BY Denominators
<1> QED
  BY <1>1 DEF Classify, Levels

(* Two requests of which the second gives at least the reasons of the first *)
(* to refuse, and no better a score.                                        *)
LEMMA VerdictGrows ==
    ASSUME NEW q, NEW r,
           Insufficient(q) => Insufficient(r),
           q.warnings # {} => r.warnings # {},
           BlockingZone(q) => BlockingZone(r),
           Derived(q) => Derived(r),
           Risk(q) # None => /\ Risk(r) # None
                             /\ Risk(q) \in Scores /\ Risk(r) \in Scores
                             /\ Risk(q).num <= Risk(r).num /\ Risk(q).den = Risk(r).den,
           Risk(q) = None => Insufficient(q),
           NEW a, NEW b
    PROVE  NoBetter(EvaluateSafetyClearance(q, a), EvaluateSafetyClearance(r, b))
<1> DEFINE l == Level(Risk(q))
           m == Level(Risk(r))
           old == Status(q, l)
           new == Status(r, m)
<1>1. /\ EvaluateSafetyClearance(q, a).status = old /\ EvaluateSafetyClearance(r, b).status = new
      /\ EvaluateSafetyClearance(q, a).risk = Risk(q) /\ EvaluateSafetyClearance(r, b).risk = Risk(r)
  BY DEF EvaluateSafetyClearance, EvaluateSafetyGate
<1>2. CASE Risk(q) = None
  <2>1. Insufficient(q) /\ Insufficient(r)
    BY <1>2
  <2>2. old = "NOT_CLEARED" /\ new = "NOT_CLEARED"
    BY <2>1 DEF Status
  <2>3. Verdicts[1] = old /\ Verdicts[1] = new
    BY <2>2 DEF Verdicts
  <2> HIDE DEF old, new
  <2> QED
    BY <1>1, <1>2, <2>3 DEF NoBetter
<1>3. CASE Risk(q) # None
  <2>1. /\ Risk(r) # None /\ Risk(q) \in Scores /\ Risk(r) \in Scores
        /\ Risk(q).num <= Risk(r).num /\ Risk(q).den = Risk(r).den
    BY <1>3
  <2>2. l = Classify(Risk(q)) /\ m = Classify(Risk(r))
    BY <1>3, <2>1 DEF Level
  <2>3. /\ l \in Levels /\ m \in Levels
        /\ l \in {"HIGH", "EXTREME"} => m \in {"HIGH", "EXTREME"}
        /\ l = "MODERATE" => m # "LOW"
    BY <2>1, <2>2, LevelGrows
  <2> HIDE DEF l, m
  <2>4. old = "NOT_CLEARED" => new = "NOT_CLEARED"
    BY <2>3 DEF Status
  <2>5. old # "CLEARED" => new # "CLEARED"
    BY <2>3 DEF Status, Levels
  <2>6. /\ old \in {"NOT_CLEARED", "CLEARED_WITH_CAUTION", "CLEARED"}
        /\ new \in {"NOT_CLEARED", "CLEARED_WITH_CAUTION", "CLEARED"}
    BY DEF Status
  <2> HIDE DEF old, new
  <2>7. \E i, j \in 1 .. 3 : Verdicts[i] = old /\ Verdicts[j] = new /\ j <= i
    <3>1. /\ Verdicts[1] = "NOT_CLEARED" /\ Verdicts[2] = "CLEARED_WITH_CAUTION"
          /\ Verdicts[3] = "CLEARED"
      BY DEF Verdicts
    <3>2. CASE new = "NOT_CLEARED"
      <4>1. \E i \in 1 .. 3 : Verdicts[i] = old
        BY <2>6, <3>1
      <4> QED
        BY <3>1, <3>2, <4>1
    <3>3. CASE new = "CLEARED_WITH_CAUTION"
      <4>1. \E i \in 2 .. 3 : Verdicts[i] = old
        BY <2>4, <2>6, <3>1, <3>3
      <4> QED
        BY <3>1, <3>3, <4>1
    <3>4. CASE new = "CLEARED"
      <4>1. old = "CLEARED"
        BY <2>5, <3>4
      <4> QED
        BY <3>1, <3>4, <4>1
    <3> QED
      BY <2>6, <3>2, <3>3, <3>4
  <2>8. AtMost(Risk(q), Risk(r))
    <3> DEFINE k == Risk(q).den \div Scale
    <3>1. k \in Nat /\ Risk(q).num \in Int /\ Risk(r).num \in Int
      BY <2>1, Denominators
    <3>2. Risk(q).num * k <= Risk(r).num * k
      <4> HIDE DEF k
      <4>1. \A x, y \in Int, z \in Nat : x <= y => x * z <= y * z
        OBVIOUS
      <4> QED
        BY <2>1, <3>1, <4>1
    <3> QED
      BY <2>1, <3>2 DEF AtMost
  <2> QED
    BY <1>1, <2>7, <2>8 DEF NoBetter
<1> QED
  BY <1>2, <1>3

(* The factors that count for the risk of a request, *)
LEMMA EffectiveScored ==
    ASSUME NEW q \in Requests
    PROVE  Scored(EffectiveReading(q))
             = IF Derived(q) THEN Scored(q.reading) \cup {"wave_height"} ELSE Scored(q.reading)
<1> DEFINE r == EffectiveReading(q)
<1>1. \A f \in Factors : r[f] = IF Derived(q) /\ f = "wave_height" THEN SeaState(q).hi ELSE q.reading[f]
  BY EffectiveMeaning
<1>2. Derived(q) => SeaState(q).hi # None
  BY BandIsBounded, ToolsAssumption
<1> HIDE DEF r
<1>3. "wave_height" \in Factors /\ "wave_height" # "pressure_trend"
  BY FactorNames
<1>4. ASSUME NEW f \in Factors
      PROVE  f \in Scored(r) <=> (f \in Scored(q.reading) \/ (Derived(q) /\ f = "wave_height"))
  BY <1>1, <1>2, <1>3 DEF Scored
<1>5. Scored(r) \subseteq Factors /\ Scored(q.reading) \subseteq Factors
  BY DEF Scored
<1> QED
  BY <1>3, <1>4, <1>5 DEF r

(* A score is something. *)
LEMMA ScoresAreGiven == None \notin Scores
<1>1. Scores \subseteq [num : Int, den : Int]
  <2>1. {Scale * w : w \in Nat \ {0}} \subseteq Int
    BY DEF Scale
  <2> QED
    BY <2>1 DEF Scores
<1> QED
  BY <1>1, ToolsAssumption

(* A request as complete as another, whose sea is known as the other's is. *)
LEMMA RisksCompare ==
    ASSUME NEW q \in Requests, NEW r \in Requests,
           SeaStateKnown(q) <=> SeaStateKnown(r), HasWind(q) <=> HasWind(r),
           Scored(EffectiveReading(q)) = Scored(EffectiveReading(r)),
           \A f \in Scored(EffectiveReading(q)) :
              NoMilder(f, EffectiveReading(q)[f], EffectiveReading(r)[f]),
           q.warnings \subseteq r.warnings,
           q.cyclone # None => r.cyclone # None /\ r.cyclone <= q.cyclone
    PROVE  /\ Risk(q) # None => /\ Risk(r) # None
                                /\ Risk(q) \in Scores /\ Risk(r) \in Scores
                                /\ Risk(q).num <= Risk(r).num /\ Risk(q).den = Risk(r).den
           /\ Risk(q) = None => Insufficient(q)
<1> DEFINE a == EffectiveReading(q)
           b == EffectiveReading(r)
           x == AssessMarineRisk(a, q.warnings, q.cyclone)
           y == AssessMarineRisk(b, r.warnings, r.cyclone)
<1>1. a \in Given /\ b \in Given
  BY EffectiveMeaning
<1>2. /\ r.warnings \in SUBSET Severities /\ q.warnings \in SUBSET r.warnings
      /\ q.cyclone \in Distances \cup {None} /\ r.cyclone \in Distances \cup {None}
  BY DEF Requests
<1>3. x.num <= y.num /\ x.den = y.den /\ x \in Scores /\ y \in Scores
  <2> DEFINE v == q.warnings
             w == r.warnings
             c == q.cyclone
             d == r.cyclone
  <2> HIDE DEF a, b
  <2>1. Scored(a) = Scored(b) /\ \A f \in Scored(a) : NoMilder(f, a[f], b[f])
    BY DEF a, b
  <2>2. /\ w \in SUBSET Severities /\ v \in SUBSET w
        /\ c \in Distances \cup {None} /\ d \in Distances \cup {None}
        /\ c # None => d # None /\ d <= c
    BY <1>2
  <2> HIDE DEF v, w, c, d
  <2>3. /\ AssessMarineRisk(a, v, c).num <= AssessMarineRisk(b, w, d).num
        /\ AssessMarineRisk(a, v, c).den = AssessMarineRisk(b, w, d).den
        /\ AssessMarineRisk(a, v, c) \in Scores /\ AssessMarineRisk(b, w, d) \in Scores
    BY <1>1, <2>1, <2>2, ScoreGrows
  <2> QED
    BY <2>3 DEF v, w, c, d
<1>4. CASE SeaStateKnown(q) /\ HasWind(q)
  <2>1. Risk(q) = x /\ Risk(r) = y
    BY <1>4 DEF Risk
  <2> HIDE DEF x, y
  <2>2. x # None /\ y # None
    BY <1>3, ScoresAreGiven
  <2> QED
    BY <1>3, <2>1, <2>2
<1>5. CASE ~ (SeaStateKnown(q) /\ HasWind(q))
  <2>1. Risk(q) = None
    BY <1>5 DEF Risk
  <2>2. MissingInputs(q) # {}
    BY <1>5, MissingMeaning
  <2> QED
    BY <2>1, <2>2 DEF Insufficient
<1> QED
  BY <1>4, <1>5

(* A factor that counts getting worse never helps. *)
LEMMA WorseReadingRefuses ==
    ASSUME NEW q \in Requests, NEW r \in Requests, NEW f \in Scored(q.reading),
           Worse(f, q.reading[f], r.reading[f]), r = [q EXCEPT !.reading[f] = r.reading[f]],
           NEW a, NEW b
    PROVE  NoBetter(EvaluateSafetyClearance(q, a), EvaluateSafetyClearance(r, b))
<1>1. /\ r.tide = q.tide /\ r.category = q.category /\ r.warnings = q.warnings
      /\ r.cyclone = q.cyclone /\ r.zones = q.zones /\ r.complete = q.complete
      /\ r.requireTide = q.requireTide
  BY DEF Requests
<1>2. /\ q.reading \in Given /\ r.reading \in Given
      /\ r.reading = [q.reading EXCEPT ![f] = r.reading[f]]
  BY ReadingsGiven DEF Requests
<1>3. f \in Factors /\ q.reading[f] \in Int /\ r.reading[f] \in Int
  <2>1. f \in Factors /\ q.reading[f] \in Int
    BY <1>2, ScoredAreNumbers
  <2>2. r.reading[f] # None
    BY DEF Worse
  <2> QED
    BY <1>2, <2>1, <2>2 DEF Given
<1>4. \A g \in Factors : g # f => r.reading[g] = q.reading[g]
  BY <1>2 DEF Given
<1>5. \A g \in Factors : r.reading[g] # None <=> q.reading[g] # None
  BY <1>3, <1>4, ToolsAssumption
<1>6. /\ (HasWave(r) <=> HasWave(q)) /\ (HasSwell(r) <=> HasSwell(q)) /\ (HasWind(r) <=> HasWind(q))
      /\ (Measured(r) <=> Measured(q))
  BY <1>5, FactorNames DEF HasWave, HasSwell, HasWind, Measured
<1>7. SeaState(r) = SeaState(q)
  BY <1>1, <1>6 DEF SeaState
<1>8. (Derived(r) <=> Derived(q)) /\ (SeaStateKnown(r) <=> SeaStateKnown(q))
  BY <1>6, <1>7 DEF Derived, SeaStateKnown
<1>9. NoMilder(f, q.reading[f], r.reading[f])
  BY <1>3 DEF Worse, NoMilder
<1>10. Scored(r.reading) = Scored(q.reading)
  <2>1. f \in Scored(r.reading)
    <3>1. r.reading[f] # None
      BY <1>3, ToolsAssumption
    <3>2. f = "pressure_trend" => r.reading[f] < 0
      <4>1. f = "pressure_trend" => q.reading[f] < 0
        BY DEF Scored
      <4> QED
        BY <1>3, <1>9, <4>1 DEF NoMilder
    <3> QED
      BY <1>3, <3>1, <3>2 DEF Scored
  <2>2. \A g \in Factors : g # f => (g \in Scored(r.reading) <=> g \in Scored(q.reading))
    BY <1>4 DEF Scored
  <2>3. Scored(r.reading) \subseteq Factors /\ Scored(q.reading) \subseteq Factors
    BY DEF Scored
  <2> QED
    BY <2>1, <2>2, <2>3
<1>11. Scored(EffectiveReading(q)) = Scored(EffectiveReading(r))
  BY <1>8, <1>10, EffectiveScored
<1>12. ASSUME NEW g \in Scored(EffectiveReading(q))
       PROVE  NoMilder(g, EffectiveReading(q)[g], EffectiveReading(r)[g])
  <2>1. g \in Factors /\ EffectiveReading(q)[g] \in Int
    BY EffectiveMeaning, ScoredAreNumbers
  <2>2. CASE g = f /\ ~ (Derived(q) /\ g = "wave_height")
    BY <1>8, <1>9, <2>1, <2>2, EffectiveMeaning
  <2>3. CASE g # f \/ (Derived(q) /\ g = "wave_height")
    <3>1. EffectiveReading(r)[g] = EffectiveReading(q)[g]
      BY <1>4, <1>7, <1>8, <2>1, <2>3, EffectiveMeaning
    <3> QED
      BY <2>1, <3>1 DEF NoMilder
  <2> QED
    BY <2>2, <2>3
<1>13. q.warnings \subseteq r.warnings
  BY <1>1
<1>14. q.cyclone # None => r.cyclone # None /\ r.cyclone <= q.cyclone
  <2>1. q.cyclone # None => q.cyclone \in Int
    BY ToolsAssumption DEF Requests
  <2> QED
    BY <1>1, <2>1
<1>15. /\ Risk(q) # None => /\ Risk(r) # None
                            /\ Risk(q) \in Scores /\ Risk(r) \in Scores
                            /\ Risk(q).num <= Risk(r).num /\ Risk(q).den = Risk(r).den
       /\ Risk(q) = None => Insufficient(q)
  BY <1>6, <1>8, <1>11, <1>12, <1>13, <1>14, RisksCompare
<1>16. Insufficient(q) => Insufficient(r)
  BY <1>1, <1>6, <1>8 DEF Insufficient, MissingInputs, ZoneUnknown
<1>17. BlockingZone(q) => BlockingZone(r)
  BY <1>1 DEF BlockingZone
<1> QED
  BY <1>1, <1>8, <1>15, <1>16, <1>17, VerdictGrows

(* More to worry about never helps. *)
LEMMA NewHazardRefuses ==
    ASSUME NEW q \in Requests, NEW r \in Requests,
           r.reading = q.reading, r.category = q.category, r.tide = q.tide,
           q.warnings \subseteq r.warnings, q.zones \subseteq r.zones,
           q.cyclone # None => r.cyclone # None /\ r.cyclone <= q.cyclone,
           r.complete => q.complete, q.requireTide => r.requireTide,
           NEW a, NEW b
    PROVE  NoBetter(EvaluateSafetyClearance(q, a), EvaluateSafetyClearance(r, b))
<1>1. /\ (HasWave(r) <=> HasWave(q)) /\ (HasSwell(r) <=> HasSwell(q)) /\ (HasWind(r) <=> HasWind(q))
      /\ (Measured(r) <=> Measured(q))
  BY DEF HasWave, HasSwell, HasWind, Measured
<1>2. SeaState(r) = SeaState(q)
  BY <1>1 DEF SeaState
<1>3. (Derived(r) <=> Derived(q)) /\ (SeaStateKnown(r) <=> SeaStateKnown(q))
  BY <1>1, <1>2 DEF Derived, SeaStateKnown
<1>4. EffectiveReading(r) = EffectiveReading(q)
  BY <1>2, <1>3 DEF EffectiveReading
<1>5. ASSUME NEW g \in Scored(EffectiveReading(q))
      PROVE  NoMilder(g, EffectiveReading(q)[g], EffectiveReading(r)[g])
  <2>1. EffectiveReading(q)[g] \in Int
    BY EffectiveMeaning, ScoredAreNumbers
  <2> QED
    BY <1>4, <2>1 DEF NoMilder
<1>6. /\ Risk(q) # None => /\ Risk(r) # None
                           /\ Risk(q) \in Scores /\ Risk(r) \in Scores
                           /\ Risk(q).num <= Risk(r).num /\ Risk(q).den = Risk(r).den
      /\ Risk(q) = None => Insufficient(q)
  BY <1>1, <1>3, <1>4, <1>5, RisksCompare
<1>7. MissingInputs(q) \subseteq MissingInputs(r)
  BY <1>1, <1>3 DEF MissingInputs
<1>8. Insufficient(q) => Insufficient(r)
  BY <1>7 DEF Insufficient, ZoneUnknown
<1>9. BlockingZone(q) => BlockingZone(r)
  BY DEF BlockingZone
<1>10. q.warnings # {} => r.warnings # {}
  OBVIOUS
<1> QED
  BY <1>3, <1>6, <1>8, <1>9, <1>10, VerdictGrows

(* A wave height inside the band of the category that stood in for it. *)
LEMMA MeasuredIsKinder ==
    ASSUME NEW q \in Requests, NEW r \in Requests, Derived(q), NEW v \in Int,
           v <= SeaState(q).hi, r = [q EXCEPT !.reading["wave_height"] = v],
           NEW a, NEW b
    PROVE  NoBetter(EvaluateSafetyClearance(r, b), EvaluateSafetyClearance(q, a))
<1>1. /\ r.tide = q.tide /\ r.category = q.category /\ r.warnings = q.warnings
      /\ r.cyclone = q.cyclone /\ r.zones = q.zones /\ r.complete = q.complete
      /\ r.requireTide = q.requireTide
      /\ r.reading = [q.reading EXCEPT !["wave_height"] = v]
  BY DEF Requests
<1>2. q.reading \in Given /\ r.reading \in Given
  BY ReadingsGiven
<1>3. r.reading["wave_height"] = v /\ \A g \in Factors : g # "wave_height" => r.reading[g] = q.reading[g]
  BY <1>1, <1>2, FactorNames DEF Given
<1>4. HasWave(r) /\ (HasWind(r) <=> HasWind(q))
  BY <1>3, FactorNames, ToolsAssumption DEF HasWave, HasWind
<1>5. Measured(r) /\ ~ Derived(r) /\ SeaStateKnown(r) /\ SeaStateKnown(q) /\ ~ Measured(q)
  BY <1>4, DerivedIsListed DEF Measured, Derived, SeaState, SeaStateKnown
<1>6. SeaState(q).hi \in Int
  BY BandIsBounded
<1>7. Scored(EffectiveReading(r)) = Scored(EffectiveReading(q))
  <2>1. "wave_height" \in Scored(r.reading)
    BY <1>3, FactorNames, ToolsAssumption DEF Scored
  <2>2. \A g \in Factors : g # "wave_height" => (g \in Scored(r.reading) <=> g \in Scored(q.reading))
    BY <1>3 DEF Scored
  <2>3. Scored(r.reading) \subseteq Factors /\ Scored(q.reading) \subseteq Factors
    BY DEF Scored
  <2>4. Scored(r.reading) = Scored(q.reading) \cup {"wave_height"}
    BY <2>1, <2>2, <2>3
  <2> QED
    BY <1>5, <2>4, EffectiveScored
<1>8. ASSUME NEW g \in Scored(EffectiveReading(r))
      PROVE  NoMilder(g, EffectiveReading(r)[g], EffectiveReading(q)[g])
  <2>1. g \in Factors /\ EffectiveReading(r)[g] \in Int
    BY EffectiveMeaning, ScoredAreNumbers
  <2>2. CASE g = "wave_height"
    <3>1. EffectiveReading(r)[g] = v /\ EffectiveReading(q)[g] = SeaState(q).hi
      BY <1>3, <1>5, <2>1, <2>2, EffectiveMeaning
    <3> QED
      BY <1>6, <2>2, <3>1 DEF NoMilder
  <2>3. CASE g # "wave_height"
    <3>1. EffectiveReading(r)[g] = EffectiveReading(q)[g]
      BY <1>3, <2>1, <2>3, EffectiveMeaning
    <3> QED
      BY <2>1, <3>1 DEF NoMilder
  <2> QED
    BY <2>2, <2>3
<1>9. r.cyclone # None => q.cyclone # None /\ q.cyclone <= r.cyclone
  <2>1. q.cyclone # None => q.cyclone \in Int
    BY ToolsAssumption DEF Requests
  <2> QED
    BY <1>1, <2>1
<1>10. r.warnings \subseteq q.warnings
  BY <1>1
<1>11. /\ Risk(r) # None => /\ Risk(q) # None
                            /\ Risk(r) \in Scores /\ Risk(q) \in Scores
                            /\ Risk(r).num <= Risk(q).num /\ Risk(r).den = Risk(q).den
       /\ Risk(r) = None => Insufficient(r)
  BY <1>4, <1>5, <1>7, <1>8, <1>9, <1>10, RisksCompare
<1>12. MissingInputs(r) = MissingInputs(q)
  BY <1>1, <1>4, <1>5 DEF MissingInputs
<1>13. Insufficient(r) => Insufficient(q)
  BY <1>1, <1>12 DEF Insufficient, ZoneUnknown
<1>14. BlockingZone(r) => BlockingZone(q)
  BY <1>1 DEF BlockingZone
<1> QED
  BY <1>1, <1>5, <1>11, <1>13, <1>14, VerdictGrows

-----------------------------------------------------------------------------
(* The windows *)

(* What one step of a series scores before any warning. *)
LEMMA StepScore ==
    ASSUME NEW a \in Int, NEW v \in Int
    PROVE  AssessMarineRisk(StepReading(a, v), {}, None)
             = [num |-> Capped(BandFraction(a, 200, 600) * 14 + BandFraction(v, 100, 250) * 12, Scale * 26),
                den |-> Scale * 26]
<1> DEFINE r == StepReading(a, v)
<1>1. /\ r["wave_height"] = a /\ r["wind_speed"] = v
      /\ \A f \in Factors \ {"wave_height", "wind_speed"} : r[f] = None
  BY FactorNames DEF StepReading
<1> HIDE DEF r
<1>2. Scored(r) = {"wave_height", "wind_speed"}
  BY <1>1, FactorNames, ToolsAssumption DEF Scored
<1>3. /\ Weight(r, "wave_height") = 14 /\ Weight(r, "wind_speed") = 12
      /\ \A f \in Factors \ {"wave_height", "wind_speed"} : Weight(r, f) = 0
  BY <1>2, Bands DEF Weight
<1>4. TotalWeight(r) = 26
  BY <1>3, FactorNames DEF TotalWeight, SumOfFactors
<1>5. /\ Fraction("wave_height", a) = BandFraction(a, 200, 600)
      /\ Fraction("wind_speed", v) = BandFraction(v, 100, 250)
  BY Bands DEF Fraction
<1>6. /\ Contribution(r, "wave_height") = BandFraction(a, 200, 600) * 14
      /\ Contribution(r, "wind_speed") = BandFraction(v, 100, 250) * 12
      /\ \A f \in Factors \ {"wave_height", "wind_speed"} : Contribution(r, f) = 0
  BY <1>1, <1>2, <1>5, Bands DEF Contribution
<1>7. SumOfFactors([f \in Factors |-> Contribution(r, f)])
        = BandFraction(a, 200, 600) * 14 + BandFraction(v, 100, 250) * 12
  <2>1. /\ BandFraction(a, 200, 600) * 14 \in Int /\ BandFraction(v, 100, 250) * 12 \in Int
    BY BandGrows
  <2> QED
    BY <1>6, <2>1, FactorNames DEF SumOfFactors
<1>8. WarningPenalty({}) = 0
  <2>1. {} \ {"extreme", "severe", "minor"} = {}
    OBVIOUS
  <2> QED
    BY <2>1, FS_EmptySet DEF WarningPenalty, WarningSeverityPenalty
<1>9. CyclonePenalty(None) = 0
  BY DEF CyclonePenalty
<1>10. /\ (0 + 0) * ((Scale * 26) \div 100) = 0
       /\ \A k \in Int : k + 0 = k
  BY DEF Scale
<1>11. BandFraction(a, 200, 600) * 14 + BandFraction(v, 100, 250) * 12 \in Int
  BY DEF BandFraction, Scale
<1>12. AssessMarineRisk(r, {}, None)
         = [num |-> Capped(BandFraction(a, 200, 600) * 14 + BandFraction(v, 100, 250) * 12
                             + (0 + 0) * ((Scale * 26) \div 100), Scale * 26), den |-> Scale * 26]
  BY <1>2, <1>4, <1>7, <1>8, <1>9 DEF AssessMarineRisk
<1> QED
  BY <1>10, <1>11, <1>12 DEF r

(* Higher waves and stronger winds score no less. *)
LEMMA StepScoreGrows ==
    ASSUME NEW a \in Int, NEW v \in Int, NEW b \in Int, NEW w \in Int, a <= b, v <= w
    PROVE  /\ AssessMarineRisk(StepReading(a, v), {}, None) \in Scores
           /\ AtMost(AssessMarineRisk(StepReading(a, v), {}, None),
                     AssessMarineRisk(StepReading(b, w), {}, None))
<1> DEFINE m == BandFraction(a, 200, 600) * 14 + BandFraction(v, 100, 250) * 12
           n == BandFraction(b, 200, 600) * 14 + BandFraction(w, 100, 250) * 12
<1>1. BandFraction(a, 200, 600) <= BandFraction(b, 200, 600)
  BY DEF BandFraction, Scale
<1>2. BandFraction(v, 100, 250) <= BandFraction(w, 100, 250)
  BY DEF BandFraction, Scale
<1>0. /\ BandFraction(a, 200, 600) \in Nat /\ BandFraction(b, 200, 600) \in Nat
      /\ BandFraction(v, 100, 250) \in Nat /\ BandFraction(w, 100, 250) \in Nat
  BY DEF BandFraction, Scale
<1>3. m \in Nat /\ n \in Nat /\ m <= n
  BY <1>0, <1>1, <1>2
<1> HIDE DEF m, n
<1>4. Capped(m, Scale * 26) \in 0 .. Scale * 26 /\ Capped(n, Scale * 26) \in 0 .. Scale * 26
      /\ Capped(m, Scale * 26) <= Capped(n, Scale * 26)
  <2>1. Scale * 26 \in Nat
    BY DEF Scale
  <2> QED
    BY <1>3, <2>1 DEF Capped
<1>5. (Scale * 26) \div Scale = 26
  BY DEF Scale
<1>6. /\ AssessMarineRisk(StepReading(a, v), {}, None) = [num |-> Capped(m, Scale * 26), den |-> Scale * 26]
      /\ AssessMarineRisk(StepReading(b, w), {}, None) = [num |-> Capped(n, Scale * 26), den |-> Scale * 26]
  BY StepScore DEF m, n
<1>7. Capped(m, Scale * 26) * 26 <= Capped(n, Scale * 26) * 26
  BY <1>4
<1> QED
  BY <1>4, <1>5, <1>6, <1>7 DEF Scores, AtMost

(* A forecast step or a window. *)
Classes == {"FAVOURABLE", "MODERATE", "HIGH_RISK"}
Pieces ==
    [start : Int, end : Int, class : Classes, score : Scores, wave : Int, wind : Int, warned : BOOLEAN]

(* Window w reports at least what step e reports. *)
Keeps(w, e) ==
    /\ w.class = e.class /\ AtMost(e.score, w.score)
    /\ e.wave <= w.wave /\ e.wind <= w.wind
    /\ e.warned => w.warned

(* The windows ws cut the first n of the given steps, and keep their worst. *)
CutUpTo(ws, steps, n) ==
    /\ ws \in Seq(Pieces)
    /\ IF n = 0 THEN ws = <<>> ELSE ws # <<>> /\ ws[Len(ws)].end = n * Interval
    /\ \A k \in DOMAIN ws : /\ ws[k].start < n * Interval /\ ws[k].end <= n * Interval
                           /\ ws[k].start < ws[k].end
    /\ \A k \in 1 .. Len(ws) - 1 : ws[k].end = ws[k + 1].start /\ ws[k].class # ws[k + 1].class
    /\ \A t \in 0 .. n * Interval - 1 : \E k \in DOMAIN ws : Covering(ws, t) = {k}
    /\ \A i \in 1 .. n : \A t \in (i - 1) * Interval .. i * Interval - 1 :
          \A k \in Covering(ws, t) : Keeps(ws[k], steps[i])

(* The higher of two heights. *)
LEMMA MaxOptMeaning ==
    ASSUME NEW a \in Int, NEW b \in Int
    PROVE  MaxOpt(a, b) \in Int /\ a <= MaxOpt(a, b) /\ b <= MaxOpt(a, b)
  BY ToolsAssumption DEF MaxOpt

(* A window that absorbs a step keeps what it kept, and keeps the step. *)
LEMMA AbsorbKeeps ==
    ASSUME NEW w \in Pieces, NEW e \in Pieces, w.class = e.class
    PROVE  /\ Absorb(w, e) \in Pieces
           /\ Absorb(w, e).start = w.start /\ Absorb(w, e).end = e.end
           /\ Absorb(w, e).class = w.class
           /\ Keeps(Absorb(w, e), e)
           /\ \A d \in Pieces : Keeps(w, d) => Keeps(Absorb(w, e), d)
<1> DEFINE A == Absorb(w, e)
<1>0. /\ w.score \in Scores /\ e.score \in Scores /\ w.wave \in Int /\ e.wave \in Int
      /\ w.wind \in Int /\ e.wind \in Int /\ w.warned \in BOOLEAN /\ e.warned \in BOOLEAN
      /\ w.start \in Int /\ e.end \in Int /\ w.class \in Classes
  BY DEF Pieces
<1>1. /\ A.start = w.start /\ A.end = e.end /\ A.class = w.class
      /\ A.score = MaxScore(w.score, e.score)
      /\ A.wave = MaxOpt(w.wave, e.wave) /\ A.wind = MaxOpt(w.wind, e.wind)
      /\ A.warned = (w.warned \/ e.warned)
  BY DEF Absorb, Pieces
<1>2. /\ A.score \in Scores /\ AtMost(w.score, A.score) /\ AtMost(e.score, A.score)
      /\ A.wave \in Int /\ w.wave <= A.wave /\ e.wave <= A.wave
      /\ A.wind \in Int /\ w.wind <= A.wind /\ e.wind <= A.wind
  <2> HIDE DEF A
  <2> QED
    BY <1>0, <1>1, MaxScoreMeaning, MaxOptMeaning
<1>3. A \in Pieces
  <2>1. \A p \in Int, q \in Scores, x \in Int, y \in Int, z \in BOOLEAN :
            [w EXCEPT !.end = p, !.score = q, !.wave = x, !.wind = y, !.warned = z] \in Pieces
    BY DEF Pieces
  <2>2. /\ MaxScore(w.score, e.score) \in Scores /\ MaxOpt(w.wave, e.wave) \in Int
        /\ MaxOpt(w.wind, e.wind) \in Int /\ (w.warned \/ e.warned) \in BOOLEAN
    BY <1>0, MaxScoreMeaning, MaxOptMeaning
  <2> QED
    BY <1>0, <2>1, <2>2, Zenon DEF Absorb
<1> HIDE DEF A
<1>4. Keeps(A, e)
  BY <1>1, <1>2 DEF Keeps
<1>5. ASSUME NEW d \in Pieces, Keeps(w, d) PROVE Keeps(A, d)
  <2>1. d.score \in Scores /\ d.wave \in Int /\ d.wind \in Int
    BY DEF Pieces
  <2>2. AtMost(d.score, A.score)
    BY <1>0, <1>2, <1>5, <2>1, AtMostTransitive DEF Keeps
  <2>3. d.wave <= A.wave /\ d.wind <= A.wind
    BY <1>0, <1>2, <1>5, <2>1 DEF Keeps
  <2> QED
    BY <1>1, <1>5, <2>2, <2>3 DEF Keeps
<1> QED
  BY <1>1, <1>3, <1>4, <1>5 DEF A

(* Steps lie one behind the other. *)
StepsInLine(steps) ==
    /\ steps \in Seq(Pieces)
    /\ \A i \in 1 .. Len(steps) : steps[i].start = (i - 1) * Interval /\ steps[i].end = i * Interval

(* The hours at which steps begin and end. *)
LEMMA Hours ==
    ASSUME NEW n \in Nat
    PROVE  /\ n * Interval \in Nat /\ (n + 1) * Interval = n * Interval + Interval
           /\ Interval \in Nat \ {0} /\ 0 * Interval = 0
           /\ n + 1 - 1 = n
           /\ \A i \in 1 .. n : i * Interval \in Nat /\ i * Interval <= n * Interval
                                 /\ (i - 1) * Interval \in Nat
<1>1. Interval \in Nat \ {0}
  BY ToolsAssumption
<1>2. n * Interval \in Nat /\ (n + 1) * Interval = n * Interval + Interval /\ 0 * Interval = 0
  BY <1>1
<1>3. ASSUME NEW i \in 1 .. n
      PROVE  i * Interval \in Nat /\ i * Interval <= n * Interval /\ (i - 1) * Interval \in Nat
  <2>1. (n - i) * Interval \in Nat /\ (n - i) * Interval = n * Interval - i * Interval
    BY <1>1
  <2>2. i * Interval \in Nat /\ (i - 1) * Interval \in Nat
    BY <1>1
  <2> QED
    BY <1>2, <2>1, <2>2
<1> QED
  BY <1>1, <1>2, <1>3

(* A step behind the windows that cut the ones before it, opening a window. *)
LEMMA AppendCuts ==
    ASSUME NEW steps, StepsInLine(steps), NEW n \in Nat, n < Len(steps), NEW ws, CutUpTo(ws, steps, n),
           ws # <<>> => ws[Len(ws)].class # steps[n + 1].class
    PROVE  CutUpTo(Append(ws, steps[n + 1]), steps, n + 1)
<1> DEFINE e == steps[n + 1]
           T == n * Interval
           U == (n + 1) * Interval
           L == Len(ws)
           vs == Append(ws, e)
<1>1. /\ T \in Nat /\ U = T + Interval /\ Interval \in Nat \ {0}
      /\ \A i \in 1 .. n : i * Interval \in Nat /\ i * Interval <= T /\ (i - 1) * Interval \in Nat
  BY Hours
<1>2. e \in Pieces /\ e.start = T /\ e.end = U
  <2>1. n + 1 \in 1 .. Len(steps) /\ n + 1 - 1 = n
    BY DEF StepsInLine
  <2> QED
    BY <2>1 DEF StepsInLine
<1>3. ws \in Seq(Pieces) /\ L \in Nat
  BY DEF CutUpTo
<1>4. /\ vs \in Seq(Pieces) /\ Len(vs) = L + 1 /\ vs[L + 1] = e
      /\ \A k \in 1 .. L : vs[k] = ws[k]
      /\ DOMAIN vs = 1 .. L + 1 /\ DOMAIN ws = 1 .. L
  BY <1>2, <1>3
<1>5. /\ \A k \in 1 .. L : /\ ws[k].start \in Int /\ ws[k].end \in Int
                           /\ ws[k].start < T /\ ws[k].end <= T /\ ws[k].start < ws[k].end
  <2>1. \A k \in 1 .. L : ws[k] \in Pieces
    BY <1>3
  <2> QED
    BY <1>4, <2>1 DEF CutUpTo, Pieces
<1> HIDE DEF e, T, U, L, vs
<1>6. \A k \in DOMAIN vs : vs[k].start < U /\ vs[k].end <= U /\ vs[k].start < vs[k].end
  <2> SUFFICES ASSUME NEW k \in 1 .. L + 1 PROVE vs[k].start < U /\ vs[k].end <= U /\ vs[k].start < vs[k].end
    BY <1>4
  <2>1. CASE k = L + 1
    BY <1>1, <1>2, <1>4, <2>1
  <2>2. CASE k \in 1 .. L
    BY <1>1, <1>4, <1>5, <2>2
  <2> QED
    BY <1>3, <2>1, <2>2
<1>7. ws # <<>> => L > 0 /\ ws[L].end = T /\ ws[L].class # e.class
  <2>1. ws # <<>> => n # 0 /\ ws[L].end = T
    BY DEF CutUpTo, L, T
  <2>2. ws # <<>> => L > 0
    BY <1>3 DEF L
  <2> QED
    BY <2>1, <2>2 DEF L, e
<1>8. \A k \in 1 .. Len(vs) - 1 : vs[k].end = vs[k + 1].start /\ vs[k].class # vs[k + 1].class
  <2> SUFFICES ASSUME NEW k \in 1 .. L
               PROVE  vs[k].end = vs[k + 1].start /\ vs[k].class # vs[k + 1].class
    BY <1>3, <1>4
  <2>1. CASE k = L
    <3>1. ws # <<>>
      BY <2>1, <1>4
    <3> QED
      BY <1>2, <1>4, <1>7, <2>1, <3>1
  <2>2. CASE k < L
    <3>1. k \in 1 .. L - 1 /\ k \in 1 .. L /\ k + 1 \in 1 .. L
      BY <1>3, <2>2
    <3>2. ws[k].end = ws[k + 1].start /\ ws[k].class # ws[k + 1].class
      BY <3>1 DEF CutUpTo, L
    <3> QED
      BY <1>4, <3>1, <3>2
  <2> QED
    BY <1>3, <2>1, <2>2
<1>9. \A t \in 0 .. T - 1 : Covering(vs, t) = Covering(ws, t)
  <2> SUFFICES ASSUME NEW t \in 0 .. T - 1, NEW k \in 1 .. L + 1
               PROVE  k \in Covering(vs, t) <=> k \in Covering(ws, t)
    BY <1>3, <1>4 DEF Covering
  <2>1. CASE k = L + 1
    BY <1>1, <1>2, <1>3, <1>4, <2>1 DEF Covering
  <2>2. CASE k \in 1 .. L
    BY <1>3, <1>4, <2>2 DEF Covering
  <2> QED
    BY <1>3, <2>1, <2>2
<1>10. \A t \in T .. U - 1 : Covering(vs, t) = {L + 1}
  <2> SUFFICES ASSUME NEW t \in T .. U - 1, NEW k \in 1 .. L + 1
               PROVE  k \in Covering(vs, t) <=> k = L + 1
    BY <1>3, <1>4 DEF Covering
  <2>1. CASE k = L + 1
    BY <1>1, <1>2, <1>3, <1>4, <2>1 DEF Covering
  <2>2. CASE k \in 1 .. L
    BY <1>1, <1>3, <1>4, <1>5, <2>2 DEF Covering
  <2> QED
    BY <1>3, <2>1, <2>2
<1>11. \A t \in 0 .. U - 1 : \E k \in DOMAIN vs : Covering(vs, t) = {k}
  <2> SUFFICES ASSUME NEW t \in 0 .. U - 1 PROVE \E k \in DOMAIN vs : Covering(vs, t) = {k}
    OBVIOUS
  <2>1. CASE t < T
    <3>1. t \in 0 .. T - 1
      BY <1>1, <2>1
    <3>2. PICK k \in DOMAIN ws : Covering(ws, t) = {k}
      BY <3>1 DEF CutUpTo, T
    <3> QED
      BY <1>3, <1>4, <1>9, <3>1, <3>2
  <2>2. CASE t >= T
    <3>1. t \in T .. U - 1
      BY <1>1, <2>2
    <3> QED
      <4>1. L + 1 \in DOMAIN vs
        BY <1>3, <1>4
      <4> QED
        BY <1>10, <3>1, <4>1
  <2> QED
    BY <1>1, <2>1, <2>2
<1>12. ASSUME NEW i \in 1 .. n + 1, NEW t \in (i - 1) * Interval .. i * Interval - 1,
              NEW k \in Covering(vs, t)
       PROVE  Keeps(vs[k], steps[i])
  <2>1. CASE i = n + 1
    <3>1. t \in T .. U - 1
      BY <1>1, <2>1 DEF T, U
    <3>2. k = L + 1 /\ vs[k] = steps[i]
      BY <1>4, <1>10, <2>1, <3>1 DEF e
    <3>3. e.score \in Scores /\ e.wave \in Int /\ e.wind \in Int
      BY <1>2 DEF Pieces
    <3>4. AtMost(e.score, e.score)
      BY <3>3, MaxScoreMeaning DEF MaxScore
    <3> QED
      BY <1>4, <3>2, <3>3, <3>4 DEF Keeps
  <2>2. CASE i \in 1 .. n
    <3>1. t \in 0 .. T - 1
      <4>1. i * Interval \in Nat /\ i * Interval <= T /\ (i - 1) * Interval \in Nat
        BY <1>1, <2>2
      <4> HIDE DEF T
      <4> QED
        BY <1>1, <4>1
    <3>2. k \in Covering(ws, t)
      BY <1>9, <3>1
    <3>3. k \in 1 .. L
      BY <1>4, <3>2 DEF Covering
    <3>4. Keeps(ws[k], steps[i])
      BY <2>2, <3>2 DEF CutUpTo
    <3> QED
      BY <1>4, <3>3, <3>4
  <2> QED
    BY <2>1, <2>2
<1>13. n + 1 # 0 /\ vs # <<>> /\ vs[Len(vs)].end = U
  BY <1>2, <1>3, <1>4
<1> QED
  BY <1>4, <1>6, <1>8, <1>11, <1>12, <1>13 DEF CutUpTo, vs, U, e

(* A step of the same class as the window before it, extending that window. *)
LEMMA AbsorbCuts ==
    ASSUME NEW steps, StepsInLine(steps), NEW n \in Nat, n < Len(steps), NEW ws, CutUpTo(ws, steps, n),
           ws # <<>>, ws[Len(ws)].class = steps[n + 1].class
    PROVE  CutUpTo([ws EXCEPT ![Len(ws)] = Absorb(@, steps[n + 1])], steps, n + 1)
<1> DEFINE e == steps[n + 1]
           T == n * Interval
           U == (n + 1) * Interval
           L == Len(ws)
           A == Absorb(ws[L], e)
           vs == [ws EXCEPT ![L] = A]
<1>1. /\ T \in Nat /\ U = T + Interval /\ Interval \in Nat \ {0}
      /\ \A i \in 1 .. n : i * Interval \in Nat /\ i * Interval <= T /\ (i - 1) * Interval \in Nat
  BY Hours
<1>2. /\ e \in Pieces /\ e.end = U
      /\ \A i \in 1 .. n : steps[i] \in Pieces
  <2>1. n + 1 \in 1 .. Len(steps) /\ n + 1 - 1 = n /\ Len(steps) \in Nat
    BY DEF StepsInLine
  <2>2. \A i \in 1 .. n : i \in 1 .. Len(steps)
    BY <2>1
  <2> QED
    BY <2>1, <2>2 DEF StepsInLine
<1>3. ws \in Seq(Pieces) /\ L \in Nat \ {0} /\ ws[L] \in Pieces
  BY DEF CutUpTo
<1>4. /\ A \in Pieces /\ A.start = ws[L].start /\ A.end = U /\ A.class = ws[L].class
      /\ Keeps(A, e) /\ \A d \in Pieces : Keeps(ws[L], d) => Keeps(A, d)
  BY <1>2, <1>3, AbsorbKeeps
<1> HIDE DEF A
<1>5. /\ vs \in Seq(Pieces) /\ Len(vs) = L /\ vs[L] = A
      /\ \A k \in 1 .. L : k # L => vs[k] = ws[k]
      /\ DOMAIN vs = 1 .. L /\ DOMAIN ws = 1 .. L
  BY <1>3, <1>4
<1>6. \A k \in 1 .. L : /\ ws[k].start \in Int /\ ws[k].end \in Int
                           /\ ws[k].start < T /\ ws[k].end <= T /\ ws[k].start < ws[k].end
  <2>1. \A k \in 1 .. L : ws[k] \in Pieces
    BY <1>3
  <2> QED
    BY <1>5, <2>1 DEF CutUpTo, Pieces
<1>7. ws[L].end = T /\ ws[L].class = e.class /\ n # 0
  BY DEF CutUpTo
<1>8. \A k \in 1 .. L - 1 : ws[k].end = ws[k + 1].start /\ ws[k].class # ws[k + 1].class
  BY DEF CutUpTo
<1>9. \A t \in 0 .. T - 1 : \E k \in 1 .. L : Covering(ws, t) = {k}
  BY <1>5 DEF CutUpTo
<1>10. \A i \in 1 .. n : \A t \in (i - 1) * Interval .. i * Interval - 1 :
          \A k \in Covering(ws, t) : Keeps(ws[k], steps[i])
  BY DEF CutUpTo
<1>11. steps[n + 1] = e
  OBVIOUS
<1> HIDE DEF e, T, U, L, vs
<1>12. \A k \in 1 .. L : vs[k].start < U /\ vs[k].end <= U /\ vs[k].start < vs[k].end
  <2> SUFFICES ASSUME NEW k \in 1 .. L PROVE vs[k].start < U /\ vs[k].end <= U /\ vs[k].start < vs[k].end
    OBVIOUS
  <2>1. CASE k = L
    BY <1>1, <1>3, <1>4, <1>5, <1>6, <2>1
  <2>2. CASE k # L
    BY <1>1, <1>5, <1>6, <2>2
  <2> QED
    BY <2>1, <2>2
<1>13. \A k \in 1 .. L - 1 : vs[k].end = vs[k + 1].start /\ vs[k].class # vs[k + 1].class
  <2> SUFFICES ASSUME NEW k \in 1 .. L - 1
               PROVE  vs[k].end = vs[k + 1].start /\ vs[k].class # vs[k + 1].class
    OBVIOUS
  <2>1. k \in 1 .. L /\ k # L /\ k + 1 \in 1 .. L
    BY <1>3
  <2>2. vs[k + 1].start = ws[k + 1].start /\ vs[k + 1].class = ws[k + 1].class
    BY <1>4, <1>5, <2>1
  <2> QED
    BY <1>5, <1>8, <2>1, <2>2
<1>14. \A t \in 0 .. T - 1 : Covering(vs, t) = Covering(ws, t)
  <2> SUFFICES ASSUME NEW t \in 0 .. T - 1, NEW k \in 1 .. L
               PROVE  k \in Covering(vs, t) <=> k \in Covering(ws, t)
    BY <1>5 DEF Covering
  <2>1. CASE k = L
    <3>1. t < T /\ t < U
      BY <1>1
    <3> QED
      BY <1>4, <1>5, <1>7, <2>1, <3>1 DEF Covering
  <2>2. CASE k # L
    BY <1>5, <2>2 DEF Covering
  <2> QED
    BY <2>1, <2>2
<1>15. \A t \in T .. U - 1 : Covering(vs, t) = {L}
  <2> SUFFICES ASSUME NEW t \in T .. U - 1, NEW k \in 1 .. L
               PROVE  k \in Covering(vs, t) <=> k = L
    BY <1>3, <1>5 DEF Covering
  <2>1. CASE k = L
    BY <1>1, <1>4, <1>5, <1>6, <2>1 DEF Covering
  <2>2. CASE k # L
    BY <1>1, <1>5, <1>6, <2>2 DEF Covering
  <2> QED
    BY <2>1, <2>2
<1>16. \A t \in 0 .. U - 1 : \E k \in 1 .. L : Covering(vs, t) = {k}
  <2> SUFFICES ASSUME NEW t \in 0 .. U - 1 PROVE \E k \in 1 .. L : Covering(vs, t) = {k}
    OBVIOUS
  <2>1. CASE t < T
    <3>1. t \in 0 .. T - 1
      BY <1>1, <2>1
    <3> QED
      BY <1>9, <1>14, <3>1
  <2>2. CASE t >= T
    <3>1. t \in T .. U - 1 /\ L \in 1 .. L
      BY <1>1, <1>3, <2>2
    <3> QED
      BY <1>15, <3>1
  <2> QED
    BY <1>1, <2>1, <2>2
<1>17. ASSUME NEW i \in 1 .. n + 1, NEW t \in (i - 1) * Interval .. i * Interval - 1,
              NEW k \in Covering(vs, t)
       PROVE  Keeps(vs[k], steps[i])
  <2>1. CASE i = n + 1
    <3>1. t \in T .. U - 1
      BY <1>1, <2>1 DEF T, U
    <3> QED
      BY <1>4, <1>5, <1>11, <1>15, <2>1, <3>1
  <2>2. CASE i \in 1 .. n
    <3>1. t \in 0 .. T - 1
      <4>1. i * Interval \in Nat /\ i * Interval <= T /\ (i - 1) * Interval \in Nat
        BY <1>1, <2>2
      <4> QED
        BY <1>1, <4>1
    <3>2. k \in Covering(ws, t)
      BY <1>14, <3>1
    <3>3. k \in 1 .. L
      BY <1>5, <3>2 DEF Covering
    <3>4. Keeps(ws[k], steps[i])
      BY <1>10, <2>2, <3>2
    <3>5. CASE k = L
      BY <1>2, <1>4, <1>5, <2>2, <3>4, <3>5
    <3>6. CASE k # L
      BY <1>5, <3>3, <3>4, <3>6
    <3> QED
      BY <3>5, <3>6
  <2> QED
    BY <2>1, <2>2
<1>18. n + 1 # 0 /\ vs # <<>> /\ vs[Len(vs)].end = U
  BY <1>3, <1>4, <1>5
<1> QED
  BY <1>5, <1>12, <1>13, <1>16, <1>17, <1>18 DEF CutUpTo, vs, U, e, A, L

(* One step more. *)
LEMMA MergeStepCuts ==
    ASSUME NEW steps, StepsInLine(steps), NEW n \in Nat, n < Len(steps), NEW ws, CutUpTo(ws, steps, n)
    PROVE  CutUpTo(MergeStep(ws, steps[n + 1]), steps, n + 1)
<1>1. CASE ws = <<>>
  BY <1>1, AppendCuts DEF MergeStep
<1>2. CASE ws # <<>>
  <2>1. ws[Len(ws)].end = n * Interval
    BY <1>2 DEF CutUpTo
  <2>2. steps[n + 1].start = n * Interval
    <3>1. n + 1 \in 1 .. Len(steps) /\ n + 1 - 1 = n
      BY DEF StepsInLine
    <3> QED
      BY <3>1 DEF StepsInLine
  <2>3. ws[Len(ws)].end >= steps[n + 1].start
    BY <2>1, <2>2, Hours
  <2>4. CASE ws[Len(ws)].class = steps[n + 1].class
    BY <1>2, <2>3, <2>4, AbsorbCuts DEF MergeStep, Last
  <2>5. CASE ws[Len(ws)].class # steps[n + 1].class
    BY <1>2, <2>5, AppendCuts DEF MergeStep, Last
  <2> QED
    BY <2>4, <2>5
<1> QED
  BY <1>1, <1>2

MergedBy(g, steps, m) ==
    g = [n \in 0 .. m |-> IF n = 0 THEN <<>> ELSE MergeStep(g[n - 1], steps[n])]

(* Merging step by step is well defined. *)
LEMMA MergingDefined ==
    ASSUME NEW steps, Len(steps) \in Nat
    PROVE  MergedBy(MergeSteps(steps), steps, Len(steps))
<1> DEFINE Bad == {m \in Nat : ~ \E g : MergedBy(g, steps, m)}
<1>1. Bad = {}
  <2> SUFFICES ASSUME Bad # {} PROVE FALSE
    OBVIOUS
  <2>1. PICK m \in Bad : \A n \in Bad : m <= n
    <3>1. Bad \subseteq Nat
      OBVIOUS
    <3> HIDE DEF Bad
    <3> QED
      BY <3>1, SmallestExists
  <2>2. CASE m = 0
    <3> DEFINE g == [n \in 0 .. 0 |-> <<>>]
    <3>1. MergedBy(g, steps, 0)
      BY DEF MergedBy
    <3> QED
      BY <2>2, <3>1
  <2>3. CASE m # 0
    <3>1. m - 1 \in Nat /\ ~ (m <= m - 1) /\ m \in Nat
      BY <2>3
    <3>2. PICK g : MergedBy(g, steps, m - 1)
      BY <2>1, <3>1
    <3> DEFINE h == [n \in 0 .. m |-> IF n = m THEN MergeStep(g[m - 1], steps[m]) ELSE g[n]]
    <3>3. \A n \in 0 .. m - 1 : g[n] = IF n = 0 THEN <<>> ELSE MergeStep(g[n - 1], steps[n])
      BY <3>2 DEF MergedBy
    <3>4. ASSUME NEW n \in 0 .. m PROVE h[n] = IF n = 0 THEN <<>> ELSE MergeStep(h[n - 1], steps[n])
      <4>1. CASE n = m
        <5>1. h[m - 1] = g[m - 1] /\ h[m] = MergeStep(g[m - 1], steps[m])
          BY <3>1
        <5> HIDE DEF h
        <5> QED
          BY <2>3, <4>1, <5>1
      <4>2. CASE n = 0
        BY <2>3, <3>1, <3>3, <4>2
      <4>3. CASE n # m /\ n # 0
        <5>1. n \in 0 .. m - 1 /\ n - 1 \in 0 .. m /\ n - 1 # m
          BY <3>1, <4>3
        <5>2. h[n] = g[n] /\ h[n - 1] = g[n - 1]
          BY <4>3, <5>1
        <5> HIDE DEF h
        <5> QED
          BY <3>3, <4>3, <5>1, <5>2
      <4> QED
        BY <4>1, <4>2, <4>3
    <3>5. MergedBy(h, steps, m)
      <4>1. h = [n \in 0 .. m |-> h[n]]
        OBVIOUS
      <4> HIDE DEF h
      <4>2. [n \in 0 .. m |-> h[n]] = [n \in 0 .. m |-> IF n = 0 THEN <<>> ELSE MergeStep(h[n - 1], steps[n])]
        BY <3>4
      <4> QED
        BY <4>1, <4>2 DEF MergedBy
    <3> QED
      BY <3>5
  <2> QED
    BY <2>2, <2>3
<1>2. \E g : MergedBy(g, steps, Len(steps))
  BY <1>1
<1>3. MergeSteps(steps) = CHOOSE g : MergedBy(g, steps, Len(steps))
  BY DEF MergeSteps, MergedBy
<1> QED
  BY <1>2, <1>3

(* The windows of a whole series. *)
LEMMA WindowsCut ==
    ASSUME NEW steps, StepsInLine(steps)
    PROVE  CutUpTo(MergeSteps(steps)[Len(steps)], steps, Len(steps))
<1> DEFINE g == MergeSteps(steps)
           Bad == {n \in 0 .. Len(steps) : ~ CutUpTo(g[n], steps, n)}
<1>0. Len(steps) \in Nat
  BY DEF StepsInLine
<1>1. \A n \in 0 .. Len(steps) : g[n] = IF n = 0 THEN <<>> ELSE MergeStep(g[n - 1], steps[n])
  BY <1>0, MergingDefined DEF MergedBy
<1> HIDE DEF g
<1>2. SUFFICES ASSUME Bad # {} PROVE FALSE
  BY <1>0 DEF g
<1>3. PICK m \in Bad : \A n \in Bad : m <= n
  <2>1. Bad \subseteq Nat
    OBVIOUS
  <2> HIDE DEF Bad
  <2> QED
    BY <1>2, <2>1, SmallestExists
<1>4. CASE m = 0
  <2>1. g[0] = <<>>
    BY <1>0, <1>1
  <2>2. 0 * Interval = 0
    BY Hours
  <2>3. CutUpTo(<<>>, steps, 0)
    BY <2>2 DEF CutUpTo
  <2> QED
    BY <1>4, <2>1, <2>3
<1>5. CASE m # 0
  <2>1. /\ m - 1 \in Nat /\ m - 1 \in 0 .. Len(steps) /\ m - 1 < Len(steps) /\ ~ (m <= m - 1)
        /\ m - 1 + 1 = m /\ m \in 0 .. Len(steps)
    BY <1>0, <1>5
  <2>2. CutUpTo(g[m - 1], steps, m - 1)
    BY <1>3, <2>1
  <2>3. CutUpTo(MergeStep(g[m - 1], steps[m - 1 + 1]), steps, m - 1 + 1)
    BY <2>1, <2>2, MergeStepCuts
  <2>4. g[m] = MergeStep(g[m - 1], steps[m])
    BY <1>1, <1>5, <2>1
  <2> QED
    BY <2>1, <2>3, <2>4
<1> QED
  BY <1>4, <1>5

(* What compute_risk_windows may be asked. *)
Series == [waves : Seq(Waves), winds : Seq(Winds), swells : Seq(Waves), warnings : SUBSET Periods]

(* The steps of a series. *)
StepsOf(s) ==
    [i \in 1 .. Len(s.waves) |->
        Step(Times(Len(s.waves)), FoldSwell(s.waves, s.swells), s.winds, s.warnings, Interval, i)]

(* The score a warning lifts a step to. *)
WarnedScore == [num |-> 3 * (Scale \div 4), den |-> Scale]

(* A warning makes a step high risk. *)
LEMMA WarnedScoreIsHigh == WarnedScore \in Scores /\ ClassifyScore(WarnedScore) = "HIGH_RISK"
<1>1. /\ Scale = Scale * 1 /\ 1 \in Nat \ {0} /\ 3 * (Scale \div 4) \in Int
      /\ 0 <= 3 * (Scale \div 4) /\ 3 * (Scale \div 4) <= Scale
  BY DEF Scale
<1>2. WarnedScore \in Scores
  BY <1>1 DEF Scores, WarnedScore
<1>3. WarnedScore.num = 107100 /\ WarnedScore.den = 142800
  BY DEF WarnedScore, Scale
<1> QED
  BY <1>2, <1>3 DEF ClassifyScore

(* A folded height is no lower than wave and swell. *)
LEMMA SwellsAreFolded ==
    ASSUME NEW s \in Series, NEW i \in 1 .. Len(s.waves)
    PROVE  /\ s.waves[i] \in Int /\ FoldSwell(s.waves, s.swells)[i] \in Int
           /\ s.waves[i] <= FoldSwell(s.waves, s.swells)[i]
           /\ i <= Len(s.swells) => /\ s.swells[i] \in Int
                                    /\ s.swells[i] <= FoldSwell(s.waves, s.swells)[i]
                                    /\ FoldSwell(s.waves, s.swells)[i] = MaxOpt(s.waves[i], s.swells[i])
           /\ ~ (i <= Len(s.swells)) => FoldSwell(s.waves, s.swells)[i] = s.waves[i]
<1>1. /\ s.waves \in Seq(Waves) /\ s.swells \in Seq(Waves) /\ Waves \subseteq Int
      /\ DOMAIN s.waves = 1 .. Len(s.waves) /\ Len(s.swells) \in Nat /\ i \in Nat \ {0}
  BY ToolsAssumption DEF Series
<1>2. s.waves[i] \in Int
  <2>1. s.waves[i] \in Waves
    BY <1>1
  <2> QED
    BY <1>1, <2>1
<1>3. FoldSwell(s.waves, s.swells)[i]
        = IF i > Len(s.swells) THEN s.waves[i] ELSE MaxOpt(s.waves[i], s.swells[i])
  BY <1>1 DEF FoldSwell
<1>4. CASE i <= Len(s.swells)
  <2>1. i \in 1 .. Len(s.swells) /\ ~ (i > Len(s.swells))
    BY <1>1, <1>4
  <2>2. s.swells[i] \in Waves
    BY <1>1, <2>1
  <2>3. s.swells[i] \in Int
    BY <1>1, <2>2
  <2>4. FoldSwell(s.waves, s.swells)[i] = MaxOpt(s.waves[i], s.swells[i])
    BY <1>3, <2>1
  <2> QED
    BY <1>2, <1>4, <2>3, <2>4, MaxOptMeaning
<1>5. CASE ~ (i <= Len(s.swells))
  BY <1>1, <1>2, <1>3, <1>5
<1> QED
  BY <1>4, <1>5

(* What compute_safe_windows makes of a step of a series. *)
LEMMA StepMeaning ==
    ASSUME NEW s \in Series, Len(s.waves) = Len(s.winds), NEW i \in 1 .. Len(s.waves)
    PROVE  LET e    == StepsOf(s)[i]
               wave == FoldSwell(s.waves, s.swells)[i]
               base == AssessMarineRisk(StepReading(wave, s.winds[i]), {}, None)
           IN  /\ e \in Pieces /\ s.winds[i] \in Int
               /\ e.start = (i - 1) * Interval /\ e.end = i * Interval
               /\ e.class = ClassifyScore(e.score) /\ e.wave = wave /\ e.wind = s.winds[i]
               /\ e.warned = WarningOverlaps((i - 1) * Interval, i * Interval, s.warnings)
               /\ base \in Scores
               /\ e.score = IF e.warned THEN MaxScore(base, WarnedScore) ELSE base
<1> DEFINE n == Len(s.waves)
           times == Times(n)
           fold == FoldSwell(s.waves, s.swells)
           wave == fold[i]
           wind == s.winds[i]
           base == AssessMarineRisk(StepReading(wave, wind), {}, None)
           warned == WarningOverlaps((i - 1) * Interval, i * Interval, s.warnings)
           score == IF warned THEN MaxScore(base, WarnedScore) ELSE base
           e == [start |-> (i - 1) * Interval, end |-> i * Interval, class |-> ClassifyScore(score),
                 score |-> score, wave |-> wave, wind |-> wind, warned |-> warned]
<1>1. n \in Nat /\ i \in Nat \ {0} /\ i <= n /\ Interval \in Nat \ {0}
  BY ToolsAssumption DEF Series
<1>2. wave \in Int
  BY SwellsAreFolded
<1>3. wind \in Int
  <2>1. s.winds \in Seq(Winds) /\ Winds \subseteq Int /\ i \in 1 .. Len(s.winds)
    BY ToolsAssumption DEF Series
  <2>2. s.winds[i] \in Winds
    BY <2>1
  <2> QED
    BY <2>1, <2>2
<1>4. /\ (i - 1) * Interval \in Int /\ i * Interval \in Int
      /\ (i - 1) * Interval + Interval = i * Interval
  <2>1. i - 1 \in Nat /\ i - 1 + 1 = i
    BY <1>1
  <2> QED
    BY <2>1, Hours
<1>5. times[i] = (i - 1) * Interval /\ StepEnd(times, Interval, i) = i * Interval /\ Len(times) = n
  <2>1. Len(times) = n /\ times[i] = (i - 1) * Interval
    BY <1>1 DEF Times
  <2>2. i < n => times[i + 1] = i * Interval
    <3>1. i < n => i + 1 \in 1 .. n /\ i + 1 - 1 = i
      BY <1>1
    <3> QED
      BY <3>1 DEF Times
  <2> HIDE DEF times, n
  <2>3. StepEnd(times, Interval, i) = i * Interval
    BY <1>1, <1>4, <2>1, <2>2 DEF StepEnd
  <2> QED
    BY <2>1, <2>3
<1>6. base \in Scores
  BY <1>2, <1>3, StepScoreGrows
<1>7. score \in Scores
  BY <1>6, WarnedScoreIsHigh, MaxScoreMeaning
<1>8. StepsOf(s)[i] = Step(times, fold, s.winds, s.warnings, Interval, i)
  BY DEF StepsOf
<1>9. Step(times, fold, s.winds, s.warnings, Interval, i) = e
  <2> HIDE DEF times, fold
  <2> QED
    BY <1>5, Zenon DEF Step, WarnedScore
<1>10. ClassifyScore(score) \in Classes
  BY DEF ClassifyScore, Classes
<1>11. warned \in BOOLEAN
  BY DEF WarningOverlaps
<1>12. e \in Pieces
  <2> HIDE DEF score, warned, wave, wind
  <2> QED
    BY <1>2, <1>3, <1>4, <1>7, <1>10, <1>11 DEF Pieces
<1>13. /\ e.start = (i - 1) * Interval /\ e.end = i * Interval /\ e.class = ClassifyScore(score)
       /\ e.score = score /\ e.wave = wave /\ e.wind = wind /\ e.warned = warned
  OBVIOUS
<1> HIDE DEF e
<1> QED
  BY <1>3, <1>6, <1>8, <1>9, <1>12, <1>13

(* Each step of a series ends where the next begins. *)
LEMMA SeriesInLine ==
    ASSUME NEW s \in Series, Len(s.waves) = Len(s.winds)
    PROVE  StepsInLine(StepsOf(s)) /\ Len(StepsOf(s)) = Len(s.waves)
<1>1. Len(s.waves) \in Nat
  BY DEF Series
<1>2. \A i \in 1 .. Len(s.waves) : StepsOf(s)[i] \in Pieces
  BY StepMeaning
<1>3. \A i \in 1 .. Len(s.waves) :
         StepsOf(s)[i].start = (i - 1) * Interval /\ StepsOf(s)[i].end = i * Interval
  BY StepMeaning
<1>4. DOMAIN StepsOf(s) = 1 .. Len(s.waves) /\ StepsOf(s) = [i \in 1 .. Len(s.waves) |-> StepsOf(s)[i]]
  BY DEF StepsOf
<1> DEFINE u == StepsOf(s)
<1> HIDE DEF u
<1>5. u \in Seq(Pieces) /\ Len(u) = Len(s.waves)
  <2>1. \A n \in Nat : \A v : v = [i \in 1 .. n |-> v[i]] /\ (\A i \in 1 .. n : v[i] \in Pieces)
           => v \in Seq(Pieces) /\ Len(v) = n
    OBVIOUS
  <2> QED
    BY <1>1, <1>2, <1>4, <2>1 DEF u
<1> QED
  BY <1>3, <1>5 DEF StepsInLine, u

(* An answer that is no error cuts the whole series. *)
LEMMA AnswerCuts ==
    ASSUME NEW s \in Series, NEW stored, ~ ComputeRiskWindows(s, stored).error
    PROVE  /\ Len(s.waves) = Len(s.winds)
           /\ CutUpTo(ComputeRiskWindows(s, stored).windows, StepsOf(s), Len(s.waves))
<1>1. Len(s.waves) = Len(s.winds)
  BY DEF ComputeRiskWindows
<1>2. Len(s.waves) \in Nat
  BY DEF Series
<1>3. DOMAIN Times(Len(s.waves)) = 1 .. Len(s.waves) /\ Len(Times(Len(s.waves))) = Len(s.waves)
  BY <1>2 DEF Times
<1>4. ComputeRiskWindows(s, stored).windows = MergeSteps(StepsOf(s))[Len(s.waves)]
  BY <1>1, <1>3 DEF ComputeRiskWindows, ComputeSafeWindows, StepsOf
<1> QED
  BY <1>1, <1>4, SeriesInLine, WindowsCut

(* The windows of an answer that is no error. *)
LEMMA AnswerKeepsWorst ==
    ASSUME args \in Series, NEW stored, reply = ComputeRiskWindows(args, stored), ~ reply.error
    PROVE  /\ CoverSeries(reply.windows)
           /\ \A i \in DOMAIN args.waves : \A k \in Covering(reply.windows, (i - 1) * Interval) :
              LET w == reply.windows[k] IN
              /\ AtMost(AssessMarineRisk(StepReading(args.waves[i], args.winds[i]), {}, None), w.score)
              /\ w.wave >= args.waves[i] /\ w.wind >= args.winds[i]
              /\ i <= Len(args.swells) => w.wave >= args.swells[i]
              /\ (\E t \in (i - 1) * Interval .. i * Interval - 1, p \in args.warnings :
                     p.from <= t /\ t <= p.until) => w.class = "HIGH_RISK" /\ w.warned
<1> DEFINE ws == reply.windows
           n == Len(args.waves)
           steps == StepsOf(args)
<1>1. n = Len(args.winds) /\ CutUpTo(ws, steps, n)
  BY AnswerCuts
<1>2. n \in Nat /\ n * Interval \in Nat /\ Interval \in Nat \ {0} /\ DOMAIN args.waves = 1 .. n
  <2>1. n \in Nat /\ DOMAIN args.waves = 1 .. n
    BY DEF Series
  <2> QED
    BY <2>1, Hours
<1>3. CoverSeries(ws)
  <2>1. ASSUME NEW t \in 0 .. Horizon - 1 PROVE Cardinality(Covering(ws, t)) = 1
    <3>1. PICK k \in DOMAIN ws : Covering(ws, t) = {k}
      BY <1>1, <2>1 DEF CutUpTo, Horizon
    <3> QED
      BY <3>1, FS_Singleton
  <2>2. \A i \in DOMAIN ws : ws[i].end <= Horizon
    BY <1>1 DEF CutUpTo, Horizon
  <2>3. \A i \in 1 .. Len(ws) - 1 : ws[i].end = ws[i + 1].start /\ ws[i].class # ws[i + 1].class
    BY <1>1 DEF CutUpTo
  <2> HIDE DEF ws
  <2> QED
    BY <2>1, <2>2, <2>3 DEF CoverSeries
<1>4. ASSUME NEW i \in 1 .. n, NEW k \in Covering(ws, (i - 1) * Interval)
      PROVE  LET w == ws[k] IN
             /\ AtMost(AssessMarineRisk(StepReading(args.waves[i], args.winds[i]), {}, None), w.score)
             /\ w.wave >= args.waves[i] /\ w.wind >= args.winds[i]
             /\ i <= Len(args.swells) => w.wave >= args.swells[i]
             /\ (\E t \in (i - 1) * Interval .. i * Interval - 1, p \in args.warnings :
                    p.from <= t /\ t <= p.until) => w.class = "HIGH_RISK" /\ w.warned
  <2> DEFINE w == ws[k]
             e == steps[i]
             fold == FoldSwell(args.waves, args.swells)
             raw == AssessMarineRisk(StepReading(args.waves[i], args.winds[i]), {}, None)
             base == AssessMarineRisk(StepReading(fold[i], args.winds[i]), {}, None)
  <2>1. Keeps(w, e) /\ w \in Pieces
    <3>1. (i - 1) * Interval \in (i - 1) * Interval .. i * Interval - 1
      <4>1. i - 1 \in Nat /\ i - 1 + 1 = i
        BY <1>2
      <4>2. /\ (i - 1) * Interval \in Nat /\ Interval \in Nat \ {0}
            /\ i * Interval = (i - 1) * Interval + Interval
        BY <4>1, Hours
      <4> QED
        BY <4>2
    <3>2. Keeps(w, e)
      BY <1>1, <3>1 DEF CutUpTo
    <3>3. k \in DOMAIN ws /\ ws \in Seq(Pieces)
      BY <1>1 DEF Covering, CutUpTo
    <3> QED
      BY <3>2, <3>3
  <2>2. /\ e \in Pieces /\ args.winds[i] \in Int
        /\ e.class = ClassifyScore(e.score) /\ e.wave = fold[i] /\ e.wind = args.winds[i]
        /\ e.warned = WarningOverlaps((i - 1) * Interval, i * Interval, args.warnings)
        /\ base \in Scores
        /\ e.score = IF e.warned THEN MaxScore(base, WarnedScore) ELSE base
    BY <1>1, StepMeaning
  <2>3. /\ args.waves[i] \in Int /\ fold[i] \in Int /\ args.waves[i] <= fold[i]
        /\ i <= Len(args.swells) => args.swells[i] \in Int /\ args.swells[i] <= fold[i]
    BY SwellsAreFolded
  <2>4. e.score \in Scores /\ w.score \in Scores /\ w.wave \in Int /\ w.wind \in Int
        /\ e.warned \in BOOLEAN /\ w.warned \in BOOLEAN
    BY <2>1, <2>2 DEF Pieces
  <2>5. raw \in Scores /\ AtMost(raw, base)
    BY <2>2, <2>3, StepScoreGrows
  <2> HIDE DEF ws, steps, e, fold, raw, base, n
  <2>6. AtMost(base, e.score)
    BY <2>2, WarnedScoreIsHigh, MaxScoreMeaning, AtMostReflexive
  <2>7. AtMost(raw, w.score)
    BY <2>1, <2>2, <2>4, <2>5, <2>6, AtMostTransitive DEF Keeps
  <2>8. /\ w.wave >= args.waves[i] /\ w.wind >= args.winds[i]
        /\ i <= Len(args.swells) => w.wave >= args.swells[i]
    BY <2>1, <2>2, <2>3, <2>4 DEF Keeps
  <2>9. ASSUME NEW t \in (i - 1) * Interval .. i * Interval - 1, NEW p \in args.warnings,
               p.from <= t, t <= p.until
        PROVE  w.class = "HIGH_RISK" /\ w.warned
    <3>1. p.from \in Int /\ p.until \in Int
      BY ToolsAssumption DEF Series
    <3>2. (i - 1) * Interval \in Int /\ i * Interval \in Int
      BY <1>2
    <3>3. e.warned
      <4>1. (i - 1) * Interval <= p.until /\ i * Interval >= p.from
        <5> DEFINE A == (i - 1) * Interval
                   B == i * Interval
        <5>1. A \in Int /\ B \in Int /\ t \in A .. B - 1
          BY <3>2
        <5> HIDE DEF A, B
        <5>2. A <= p.until /\ B >= p.from
          BY <2>9, <3>1, <5>1
        <5> QED
          BY <5>2 DEF A, B
      <4> QED
        BY <2>2, <4>1 DEF WarningOverlaps
    <3>4. AtMost(WarnedScore, e.score)
      BY <2>2, <3>3, WarnedScoreIsHigh, MaxScoreMeaning
    <3>5. ClassRank("HIGH_RISK") <= ClassRank(e.class)
      BY <2>2, <2>4, <3>4, WarnedScoreIsHigh, ClassGrows
    <3>6. e.class \in Classes
      BY <2>2 DEF Pieces
    <3>7. e.class = "HIGH_RISK"
      BY <3>5, <3>6 DEF ClassRank, Classes
    <3> QED
      BY <2>1, <3>3, <3>7 DEF Keeps
  <2> QED
    BY <2>7, <2>8, <2>9 DEF raw
<1> QED
  BY <1>2, <1>3, <1>4

(* One more warning, a higher swell, wave or wind classes no step lower. *)
Raised(s, r) ==
    /\ Len(r.waves) = Len(s.waves)
    /\ \A i \in DOMAIN s.waves : r.waves[i] >= s.waves[i] /\ r.winds[i] >= s.winds[i]
    /\ IsPrefix(s.swells, r.swells)
    /\ s.warnings \subseteq r.warnings

(* A prefix agrees with its extension. *)
LEMMA PrefixMeaning ==
    ASSUME NEW S, NEW p \in Seq(S), NEW q \in Seq(S), IsPrefix(p, q), NEW i \in 1 .. Len(p)
    PROVE  i \in 1 .. Len(q) /\ q[i] = p[i]
<1>1. Len(p) <= Len(q) /\ SubSeq(p, 1, Len(p)) = SubSeq(q, 1, Len(p)) /\ Len(p) \in Nat /\ Len(q) \in Nat
  BY DEF IsPrefix
<1>2. SubSeq(p, 1, Len(p))[i] = p[i] /\ SubSeq(q, 1, Len(p))[i] = q[i]
  BY <1>1
<1> QED
  BY <1>1, <1>2

(* In a raised forecast no step is of a lower class. *)
LEMMA StepsGrow ==
    ASSUME NEW s \in Series, NEW r \in Series, Raised(s, r),
           Len(s.waves) = Len(s.winds), Len(r.waves) = Len(r.winds), NEW i \in 1 .. Len(s.waves)
    PROVE  ClassRank(StepsOf(s)[i].class) <= ClassRank(StepsOf(r)[i].class)
<1> DEFINE d == StepsOf(s)[i]
           e == StepsOf(r)[i]
           f == FoldSwell(s.waves, s.swells)
           g == FoldSwell(r.waves, r.swells)
           low == AssessMarineRisk(StepReading(f[i], s.winds[i]), {}, None)
           high == AssessMarineRisk(StepReading(g[i], r.winds[i]), {}, None)
<1>0. i \in 1 .. Len(r.waves) /\ i \in DOMAIN s.waves
  BY DEF Raised, Series
<1>1. /\ d \in Pieces /\ s.winds[i] \in Int /\ d.class = ClassifyScore(d.score)
      /\ d.warned = WarningOverlaps((i - 1) * Interval, i * Interval, s.warnings)
      /\ low \in Scores /\ d.score = IF d.warned THEN MaxScore(low, WarnedScore) ELSE low
  BY StepMeaning
<1>2. /\ e \in Pieces /\ r.winds[i] \in Int /\ e.class = ClassifyScore(e.score)
      /\ e.warned = WarningOverlaps((i - 1) * Interval, i * Interval, r.warnings)
      /\ high \in Scores /\ e.score = IF e.warned THEN MaxScore(high, WarnedScore) ELSE high
  BY <1>0, StepMeaning
<1>3. f[i] <= g[i] /\ f[i] \in Int /\ g[i] \in Int
  <2>1. /\ s.waves[i] \in Int /\ f[i] \in Int
        /\ i <= Len(s.swells) => s.swells[i] \in Int /\ f[i] = MaxOpt(s.waves[i], s.swells[i])
        /\ ~ (i <= Len(s.swells)) => f[i] = s.waves[i]
    BY SwellsAreFolded
  <2>2. /\ r.waves[i] \in Int /\ g[i] \in Int /\ r.waves[i] <= g[i]
        /\ i <= Len(r.swells) => r.swells[i] \in Int /\ r.swells[i] <= g[i]
    BY <1>0, SwellsAreFolded
  <2>3. s.waves[i] <= r.waves[i]
    BY <1>0, <2>1, <2>2 DEF Raised
  <2> HIDE DEF f, g
  <2>4. CASE i <= Len(s.swells)
    <3>1. s.swells \in Seq(Waves) /\ r.swells \in Seq(Waves) /\ i \in 1 .. Len(s.swells)
      BY <2>4 DEF Series
    <3>2. i <= Len(r.swells) /\ r.swells[i] = s.swells[i]
      BY <3>1, PrefixMeaning DEF Raised
    <3>3. f[i] = s.waves[i] \/ f[i] = s.swells[i]
      BY <2>1, <2>4, ToolsAssumption DEF MaxOpt
    <3> QED
      BY <2>1, <2>2, <2>3, <3>2, <3>3
  <2>5. CASE ~ (i <= Len(s.swells))
    BY <2>1, <2>2, <2>3, <2>5
  <2> QED
    BY <2>4, <2>5
<1>4. s.winds[i] <= r.winds[i]
  BY <1>0, <1>1, <1>2 DEF Raised
<1>5. AtMost(low, high)
  BY <1>1, <1>2, <1>3, <1>4, StepScoreGrows
<1>6. d.warned => e.warned
  BY <1>1, <1>2 DEF Raised, WarningOverlaps
<1>7. d.score \in Scores /\ e.score \in Scores /\ d.warned \in BOOLEAN /\ e.warned \in BOOLEAN
  BY <1>1, <1>2 DEF Pieces
<1> HIDE DEF d, e, low, high
<1>8. AtMost(high, e.score) /\ (e.warned => AtMost(WarnedScore, e.score))
  BY <1>2, WarnedScoreIsHigh, MaxScoreMeaning, AtMostReflexive
<1>9. AtMost(low, e.score)
  BY <1>1, <1>2, <1>5, <1>7, <1>8, AtMostTransitive
<1>10. AtMost(d.score, e.score)
  <2>1. CASE d.warned
    BY <1>1, <1>6, <1>8, <1>9, <2>1 DEF MaxScore
  <2>2. CASE ~ d.warned
    BY <1>1, <1>9, <2>2
  <2> QED
    BY <2>1, <2>2
<1>11. ClassRank(ClassifyScore(d.score)) <= ClassRank(ClassifyScore(e.score))
  BY <1>7, <1>10, ClassGrows
<1> QED
  BY <1>1, <1>2, <1>11 DEF d, e

(* The hour t belongs to one step, *)
LEMMA HourHasStep ==
    ASSUME NEW n \in Nat, NEW t \in 0 .. n * Interval - 1
    PROVE  \E i \in 1 .. n : t \in (i - 1) * Interval .. i * Interval - 1
<1> DEFINE Later == {i \in 1 .. n : t < i * Interval}
<1>1. n * Interval \in Nat /\ Interval \in Nat \ {0} /\ n # 0 /\ n \in 1 .. n
  <2>1. n * Interval \in Nat /\ Interval \in Nat \ {0} /\ 0 * Interval = 0
    BY Hours
  <2>2. n # 0
    BY <2>1
  <2> QED
    BY <2>1, <2>2
<1>2. n \in Later /\ Later \subseteq Nat
  BY <1>1
<1>3. PICK i \in Later : \A j \in Later : i <= j
  <2> HIDE DEF Later
  <2> QED
    BY <1>2, SmallestExists
<1>4. i \in 1 .. n /\ i * Interval \in Nat /\ (i - 1) * Interval \in Nat /\ t \in Nat
  BY Hours
<1>5. (i - 1) * Interval <= t
  <2>1. CASE i = 1
    <3>1. i - 1 = 0
      BY <2>1
    <3> QED
      BY <3>1, <1>4, Hours
  <2>2. CASE i # 1
    <3>1. i - 1 \in 1 .. n /\ ~ (i <= i - 1)
      BY <1>4, <2>2
    <3>2. ~ (t < (i - 1) * Interval)
      BY <1>3, <3>1
    <3> QED
      BY <1>4, <3>2
  <2> QED
    BY <2>1, <2>2
<1>6. t < i * Interval
  BY <1>3
<1> QED
  BY <1>4, <1>5, <1>6

(* and the answer gives it the class of that step. *)
LEMMA ClassOfHour ==
    ASSUME NEW s \in Series, NEW stored, NEW r, r = ComputeRiskWindows(s, stored), ~ r.error,
           NEW i \in 1 .. Len(s.waves), NEW t \in (i - 1) * Interval .. i * Interval - 1
    PROVE  ClassAt(r, t) = StepsOf(s)[i].class
<1> DEFINE ws == r.windows
           n == Len(s.waves)
<1>1. CutUpTo(ws, StepsOf(s), n)
  BY AnswerCuts
<1>2. t \in 0 .. n * Interval - 1
  <2>1. n \in Nat
    BY DEF Series
  <2>2. /\ i * Interval \in Nat /\ i * Interval <= n * Interval /\ (i - 1) * Interval \in Nat
        /\ n * Interval \in Nat
    BY <2>1, Hours
  <2> QED
    BY <2>2
<1>3. PICK k \in DOMAIN ws : Covering(ws, t) = {k}
  BY <1>1, <1>2 DEF CutUpTo
<1>4. Keeps(ws[k], StepsOf(s)[i])
  BY <1>1, <1>3 DEF CutUpTo
<1>5. (CHOOSE j \in Covering(ws, t) : TRUE) = k
  BY <1>3
<1> QED
  BY <1>4, <1>5 DEF ClassAt, Keeps

-----------------------------------------------------------------------------
(* The invariant and what follows from it *)

(* The inductive invariant: the arguments are ones the tool takes, and the  *)
(* answer on the table is the tool's answer to exactly these arguments.     *)
IInv ==
    /\ tool = "clearance" =>
         /\ args \in Requests
         /\ reply = EvaluateSafetyClearance(args, dbUp)
    /\ tool = "windows" =>
         /\ args \in Series
         /\ reply = ComputeRiskWindows(args, dbUp)

(* A request that is answered is one the tool takes, *)
LEMMA ClearanceKeeps ==
    ASSUME NEW q \in Requests, CallClearance(q)
    PROVE  IInv'
  BY DEF CallClearance, IInv

(* and so is a series. *)
LEMMA WindowsKeep ==
    ASSUME NEW s \in Series, CallWindows(s)
    PROVE  IInv'
  BY DEF CallWindows, IInv

(* The tool in use never changes. *)
LEMMA ToolStays == ASSUME [Next]_vars PROVE tool' = tool
  BY DEF Next, vars, GiveReading, GiveCategory, GiveWarnings, GiveCyclone, GiveZones,
     GiveFlags, AppendWave, AppendWind, AppendSwell, ReviseWave, ReviseWind, GivePeriod,
     CallClearance, CallWindows

(* Only a call answers, and it answers the arguments it leaves behind. *)
LEMMA NextKeeps ==
    ASSUME IInv, [Next]_vars
    PROVE  IInv'
<1>1. ASSUME NEW f \in Factors, NEW v \in Readings[f] \cup {None}, GiveReading(f, v)
      PROVE  IInv'
  <2>0. args \in Requests
    BY <1>1 DEF IInv, GiveReading
  <2>1. v \in Values
    BY DEF Values
  <2>2. [args.reading EXCEPT ![f] = v] \in [Factors -> Values]
    BY <2>0, <2>1 DEF Requests
  <2>3. [args EXCEPT !.reading[f] = v] \in Requests
    BY <2>0, <2>2 DEF Requests
  <2> QED
    BY <1>1, <2>3, ClearanceKeeps DEF GiveReading
<1>2. ASSUME NEW c \in Categories \cup {None}, GiveCategory(c)
      PROVE  IInv'
  <2>1. [args EXCEPT !.category = c] \in Requests
    BY <1>2 DEF Requests, IInv, GiveCategory
  <2> QED
    BY <1>2, <2>1, ClearanceKeeps DEF GiveCategory
<1>3. ASSUME NEW w \in SUBSET Severities, GiveWarnings(w)
      PROVE  IInv'
  <2>1. [args EXCEPT !.warnings = w] \in Requests
    BY <1>3 DEF Requests, IInv, GiveWarnings
  <2> QED
    BY <1>3, <2>1, ClearanceKeeps DEF GiveWarnings
<1>4. ASSUME NEW km \in Distances \cup {None}, GiveCyclone(km)
      PROVE  IInv'
  <2>1. [args EXCEPT !.cyclone = km] \in Requests
    BY <1>4 DEF Requests, IInv, GiveCyclone
  <2> QED
    BY <1>4, <2>1, ClearanceKeeps DEF GiveCyclone
<1>5. ASSUME NEW z \in SUBSET Zones, GiveZones(z)
      PROVE  IInv'
  <2>1. [args EXCEPT !.zones = z] \in Requests
    BY <1>5 DEF Requests, IInv, GiveZones
  <2> QED
    BY <1>5, <2>1, ClearanceKeeps DEF GiveZones
<1>6. ASSUME NEW c \in BOOLEAN, NEW r \in BOOLEAN, NEW t \in BOOLEAN, GiveFlags(c, r, t)
      PROVE  IInv'
  <2>1. [args EXCEPT !.complete = c, !.requireTide = r, !.tide = t] \in Requests
    BY <1>6 DEF Requests, IInv, GiveFlags
  <2> QED
    BY <1>6, <2>1, ClearanceKeeps DEF GiveFlags
<1>7. ASSUME NEW v \in Waves, AppendWave(v)
      PROVE  IInv'
  <2>0. args \in Series
    BY <1>7 DEF IInv, AppendWave
  <2>1. Append(args.waves, v) \in Seq(Waves)
    BY <2>0 DEF Series
  <2>2. [args EXCEPT !.waves = Append(@, v)] \in Series
    BY <2>0, <2>1 DEF Series
  <2> QED
    BY <1>7, <2>2, WindowsKeep DEF AppendWave
<1>8. ASSUME NEW v \in Waves, AppendSwell(v)
      PROVE  IInv'
  <2>0. args \in Series
    BY <1>8 DEF IInv, AppendSwell
  <2>1. Append(args.swells, v) \in Seq(Waves)
    BY <2>0 DEF Series
  <2>2. [args EXCEPT !.swells = Append(@, v)] \in Series
    BY <2>0, <2>1 DEF Series
  <2> QED
    BY <1>8, <2>2, WindowsKeep DEF AppendSwell
<1>9. ASSUME NEW v \in Winds, AppendWind(v)
      PROVE  IInv'
  <2>0. args \in Series
    BY <1>9 DEF IInv, AppendWind
  <2>1. Append(args.winds, v) \in Seq(Winds)
    BY <2>0 DEF Series
  <2>2. [args EXCEPT !.winds = Append(@, v)] \in Series
    BY <2>0, <2>1 DEF Series
  <2> QED
    BY <1>9, <2>2, WindowsKeep DEF AppendWind
<1>10. ASSUME tool = "windows", NEW i \in DOMAIN args.waves, NEW v \in Waves, ReviseWave(i, v)
       PROVE  IInv'
  <2>0. args \in Series
    BY <1>10 DEF IInv
  <2>1. [args.waves EXCEPT ![i] = v] \in Seq(Waves)
    BY <2>0 DEF Series
  <2>2. [args EXCEPT !.waves[i] = v] \in Series
    BY <2>0, <2>1 DEF Series
  <2> QED
    BY <1>10, <2>2, WindowsKeep DEF ReviseWave
<1>11. ASSUME tool = "windows", NEW i \in DOMAIN args.winds, NEW v \in Winds, ReviseWind(i, v)
       PROVE  IInv'
  <2>0. args \in Series
    BY <1>11 DEF IInv
  <2>1. [args.winds EXCEPT ![i] = v] \in Seq(Winds)
    BY <2>0 DEF Series
  <2>2. [args EXCEPT !.winds[i] = v] \in Series
    BY <2>0, <2>1 DEF Series
  <2> QED
    BY <1>11, <2>2, WindowsKeep DEF ReviseWind
<1>12. ASSUME NEW p \in Periods, GivePeriod(p)
       PROVE  IInv'
  <2>1. [args EXCEPT !.warnings = {p}] \in Series
    BY <1>12 DEF Series, IInv, GivePeriod
  <2> QED
    BY <1>12, <2>1, WindowsKeep DEF GivePeriod
<1>13. CASE UNCHANGED vars
  BY <1>13 DEF vars, IInv
<1> QED
  BY <1>1, <1>2, <1>3, <1>4, <1>5, <1>6, <1>7, <1>8, <1>9, <1>10, <1>11, <1>12, <1>13 DEF Next

(* The inductive invariant of the computing tools. *)
THEOREM InvariantHolds == Spec => []IInv
<1>1. Init => IInv
  <2>1. [f \in Factors |-> None] \in [Factors -> Values]
    BY DEF Values
  <2>2. NoEvidence \in Requests
    BY <2>1 DEF NoEvidence, Requests
  <2>3. NoSeries \in Series
    BY DEF NoSeries, Series
  <2> QED
    BY <2>2, <2>3 DEF Init, IInv
<1>2. IInv /\ [Next]_vars => IInv'
  BY NextKeeps
<1> QED
  BY <1>1, <1>2, PTL DEF Spec

(* The gate gives a risk exactly when sea state and wind are known, and it   *)
(* is a fraction of the full scale.                                         *)
LEMMA RiskMeaning ==
    ASSUME NEW q \in Requests
    PROVE  /\ (Risk(q) = None) = ({"sea_state", "wind"} \cap MissingInputs(q) # {})
           /\ Risk(q) # None => Risk(q) \in Scores
<1> DEFINE a == EffectiveReading(q)
           v == q.warnings
           c == q.cyclone
<1>1. a \in Given /\ v \in SUBSET Severities /\ v \in SUBSET v /\ c \in Distances \cup {None}
  BY EffectiveMeaning DEF Requests
<1>2. c # None => c # None /\ c <= c
  <2>1. c # None => c \in Int
    BY <1>1, ToolsAssumption
  <2> HIDE DEF c
  <2> QED
    BY <2>1
<1>3. AssessMarineRisk(a, v, c) \in Scores
  <2> HIDE DEF a, v, c
  <2>1. \A f \in Scored(a) : NoMilder(f, a[f], a[f])
    BY <1>1, ScoredAreNumbers DEF NoMilder
  <2> QED
    BY <1>1, <1>2, <2>1, ScoreGrows
<1>4. CASE SeaStateKnown(q) /\ HasWind(q)
  <2>1. {"sea_state", "wind"} \cap MissingInputs(q) = {}
    BY <1>4, MissingMeaning
  <2>2. Risk(q) = AssessMarineRisk(a, v, c)
    BY <1>4 DEF Risk
  <2> HIDE DEF a, v, c
  <2> QED
    BY <1>3, <2>1, <2>2, ScoresAreGiven
<1>5. CASE ~ (SeaStateKnown(q) /\ HasWind(q))
  <2>1. {"sea_state", "wind"} \cap MissingInputs(q) # {}
    BY <1>5, MissingMeaning
  <2>2. Risk(q) = None
    BY <1>5 DEF Risk
  <2> QED
    BY <2>1, <2>2
<1> QED
  BY <1>4, <1>5

(* A session stays with its tool and its database. *)
Settings == tool \in {"clearance", "windows"} /\ dbUp \in BOOLEAN

(* No call changes the settings. *)
LEMMA SettingsStay == Spec => []Settings
<1>1. Init => Settings
  BY DEF Init, Settings
<1>2. Settings /\ [Next]_vars => Settings'
  BY DEF Settings, Next, vars, GiveReading, GiveCategory, GiveWarnings, GiveCyclone, GiveZones, GiveFlags,
     AppendWave, AppendWind, AppendSwell, ReviseWave, ReviseWind, GivePeriod, CallClearance, CallWindows
<1> QED
  BY <1>1, <1>2, PTL DEF Spec

(* Every answer has its shape: a verdict of the gate, a risk between nothing *)
(* and the full scale that is there exactly when the sea and the wind are    *)
(* known (safety_gate.py), windows of positive length with such a score.     *)
THEOREM TypeCorrect == Spec => []TypeOK
<1>1. IInv /\ Settings => TypeOK
  <2> SUFFICES ASSUME IInv, Settings PROVE TypeOK
    OBVIOUS
  <2>1. CASE tool = "clearance"
    <3>1. args \in Requests
          /\ reply.status = Status(args, Level(Risk(args))) /\ reply.missing = MissingInputs(args)
          /\ reply.risk = Risk(args) /\ reply.stored = dbUp
      BY <2>1 DEF IInv, EvaluateSafetyClearance, EvaluateSafetyGate
    <3>2. reply.status \in {"NOT_CLEARED", "CLEARED_WITH_CAUTION", "CLEARED"}
      BY <3>1, Zenon DEF Status
    <3>3. ToSet(Verdicts) = {"NOT_CLEARED", "CLEARED_WITH_CAUTION", "CLEARED"}
      BY DEF ToSet, Verdicts
    <3>4. reply.risk # None => reply.risk.num \in 0 .. reply.risk.den
      BY <3>1, RiskMeaning, Denominators
    <3> QED
      BY <2>1, <3>1, <3>2, <3>3, <3>4, RiskMeaning DEF TypeOK, Settings
  <2>2. CASE tool = "windows"
    <3>1. args \in Series /\ reply = ComputeRiskWindows(args, dbUp)
      BY <2>2 DEF IInv
    <3>2. reply.stored \in {dbUp, FALSE}
      BY <3>1 DEF ComputeRiskWindows
    <3>3. CASE reply.error
      <4>1. reply.windows = <<>>
        BY <3>1, <3>3 DEF ComputeRiskWindows
      <4>2. ToSet(reply.windows) = {}
        BY <4>1 DEF ToSet
      <4> QED
        BY <2>2, <3>1, <3>2, <4>2 DEF TypeOK, Settings
    <3>4. CASE ~ reply.error
      <4>1. CutUpTo(reply.windows, StepsOf(args), Len(args.waves))
        BY <3>1, <3>4, AnswerCuts
      <4>2. ASSUME NEW w \in ToSet(reply.windows)
            PROVE  w.score.num \in 0 .. w.score.den /\ w.start < w.end
        <5>1. PICK k \in DOMAIN reply.windows : w = reply.windows[k]
          BY <4>2 DEF ToSet
        <5>2. w \in Pieces /\ w.start < w.end
          BY <4>1, <5>1 DEF CutUpTo
        <5>3. w.score \in Scores
          BY <5>2 DEF Pieces
        <5> QED
          BY <5>2, <5>3, Denominators
      <4> QED
        BY <2>2, <3>1, <3>2, <4>2 DEF TypeOK, Settings
    <3> QED
      BY <3>3, <3>4
  <2> QED
    BY <2>1, <2>2 DEF Settings
<1> QED
  BY <1>1, InvariantHolds, SettingsStay, PTL

(* Absence of evidence is never taken for evidence of safety: the gate of   *)
(* evaluate_safety_gate clears only on a known sea and wind, a complete     *)
(* route, a tide where one is required, and no warning or doubtful zone.    *)
THEOREM ClearanceIsEarned == Spec => []ClearanceNeedsEvidence
<1>1. IInv => ClearanceNeedsEvidence
  <2> SUFFICES ASSUME IInv, tool = "clearance", reply.status # "NOT_CLEARED"
               PROVE  /\ args.reading["wind_speed"] # None
                      /\ \/ args.reading["wave_height"] # None
                         \/ args.reading["swell_height"] # None
                         \/ /\ args.category # None /\ args.category # {}
                            /\ args.category \subseteq DOMAIN WMO3700
                            /\ reply.status # "CLEARED"
                      /\ args.requireTide => args.tide
                      /\ args.complete /\ args.warnings = {}
                      /\ \A z \in args.zones : z.status # "unknown" /\ (z.status = "active" => ~ z.blocks)
    BY DEF ClearanceNeedsEvidence
  <2> DEFINE level == Level(Risk(args))
  <2>1. args \in Requests /\ reply.status = Status(args, level)
    BY DEF IInv, EvaluateSafetyClearance, EvaluateSafetyGate
  <2> HIDE DEF level
  <2>2. /\ SeaStateKnown(args) /\ HasWind(args)
        /\ ~ (args.requireTide /\ ~ args.tide)
        /\ args.complete /\ args.warnings = {}
        /\ ~ ZoneUnknown(args) /\ ~ BlockingZone(args)
        /\ Derived(args) => reply.status # "CLEARED"
    BY <2>1, ClearedMeaning
  <2>3. \A z \in args.zones : z.status # "unknown" /\ (z.status = "active" => ~ z.blocks)
    BY <2>2 DEF ZoneUnknown, BlockingZone
  <2>4. CASE Measured(args)
    BY <2>2, <2>3, <2>4 DEF Measured, HasWave, HasSwell, HasWind
  <2>5. CASE Derived(args)
    BY <2>1, <2>2, <2>3, <2>5, DerivedIsListed DEF HasWind
  <2> QED
    BY <2>2, <2>4, <2>5 DEF SeaStateKnown
<1> QED
  BY <1>1, InvariantHolds, PTL

(* A refusal always names a reason, and a clearance never carries one of    *)
(* the reasons that refuse (reasons and status of evaluate_safety_gate are  *)
(* computed apart and agree).                                               *)
THEOREM RefusalsHaveReasons == Spec => []RefusalsAreExplained
<1>1. IInv => RefusalsAreExplained
  <2> SUFFICES ASSUME IInv, tool = "clearance"
               PROVE  reply.status = "NOT_CLEARED"
                        <=> reply.reasons \ {"SEA_STATE_DERIVED_FROM_CATEGORY"} # {}
    BY DEF RefusalsAreExplained
  <2> DEFINE level == Level(Risk(args))
  <2>1. reply.status = Status(args, level) /\ reply.reasons = Reasons(args, level)
    BY DEF IInv, EvaluateSafetyClearance, EvaluateSafetyGate
  <2> HIDE DEF level
  <2> QED
    BY <2>1, RefusalMeaning
<1> QED
  BY <1>1, InvariantHolds, PTL

(* The windows of compute_safe_windows cut the forecast into consecutive    *)
(* pieces, and each reports the worst of the steps merged into it.          *)
THEOREM WorstIsKept == Spec => []WindowsKeepWorst
<1>1. IInv => WindowsKeepWorst
  <2> SUFFICES ASSUME IInv, tool = "windows", ~ reply.error PROVE WindowsKeepWorst
    BY DEF WindowsKeepWorst
  <2>1. args \in Series /\ reply = ComputeRiskWindows(args, dbUp)
    BY DEF IInv
  <2> QED
    BY <2>1, AnswerKeepsWorst DEF WindowsKeepWorst
<1> QED
  BY <1>1, InvariantHolds, PTL

(* A wave height inside the band of the category that stood in for it gives *)
(* a verdict at least as good (conservative_height_m).                      *)
THEOREM CategoriesArePessimistic == Spec => CategoryIsPessimistic
<1> DEFINE Measures ==
             /\ tool = "clearance" /\ Derived(args)
             /\ args'.reading["wave_height"] # None
             /\ args'.reading["wave_height"] \in SeaState(args).lo .. SeaState(args).hi
             /\ args' = [args EXCEPT !.reading = args'.reading]
<1>1. IInv /\ IInv' /\ [Next]_vars => [Measures => NoBetter(reply', reply)]_vars
  <2> SUFFICES ASSUME IInv, IInv', [Next]_vars, Measures, vars' # vars
               PROVE  NoBetter(reply', reply)
    BY DEF Measures
  <2>1. /\ args \in Requests /\ reply = EvaluateSafetyClearance(args, dbUp)
        /\ args' \in Requests /\ reply' = EvaluateSafetyClearance(args', dbUp')
    BY ToolStays DEF IInv
  <2>2. args.reading["wave_height"] = None
    BY <2>1, DerivedIsListed DEF Measured, HasWave
  <2>3. PICK f \in Factors : \E v \in Readings[f] \cup {None} : args' = [args EXCEPT !.reading[f] = v]
    <3>1. CASE \E f \in Factors : \E v \in Readings[f] \cup {None} : GiveReading(f, v)
      BY <3>1 DEF GiveReading, CallClearance
    <3>2. CASE ~ \E f \in Factors : \E v \in Readings[f] \cup {None} : GiveReading(f, v)
      <4>1. args'.reading = args.reading
        BY <2>1, <3>2 DEF Next, vars, Requests, GiveCategory, GiveWarnings, GiveCyclone, GiveZones,
           GiveFlags, AppendWave, AppendWind, AppendSwell, ReviseWave, ReviseWind, GivePeriod,
           CallClearance, CallWindows
      <4> QED
        BY <2>2, <4>1
    <3> QED
      BY <3>1, <3>2
  <2>4. PICK v \in Readings[f] \cup {None} : args' = [args EXCEPT !.reading[f] = v]
    BY <2>3
  <2>5. f = "wave_height"
    BY <2>1, <2>2, <2>4, FactorNames DEF Requests
  <2>6. args'.reading["wave_height"] = v
    BY <2>1, <2>4, <2>5 DEF Requests
  <2>7. v \in Int /\ v <= SeaState(args).hi
    <3>1. v \in Int
      BY <2>4, <2>6, ToolsAssumption
    <3>2. SeaState(args).hi \in Int
      BY <2>1, BandIsBounded
    <3> QED
      BY <2>6, <3>1, <3>2
  <2>8. args' = [args EXCEPT !.reading["wave_height"] = v]
    BY <2>4, <2>5
  <2> QED
    BY <2>1, <2>7, <2>8, MeasuredIsKinder
<1> QED
  BY <1>1, InvariantHolds, PTL DEF Spec, CategoryIsPessimistic

(* Worse inputs never give a better answer: neither a factor that counts    *)
(* getting worse nor a new hazard improves a verdict or lowers a score, and *)
(* no hour of a raised forecast is of a lower class.                        *)
THEOREM WorseRefusesMore == Spec => WorseNeverHelps
<1>1. ASSUME IInv, IInv', [Next]_vars, tool = "clearance", WorseReading \/ NewHazard
      PROVE  NoBetter(reply, reply')
  <2>1. /\ args \in Requests /\ reply = EvaluateSafetyClearance(args, dbUp)
        /\ args' \in Requests /\ reply' = EvaluateSafetyClearance(args', dbUp')
    BY <1>1, ToolStays DEF IInv
  <2>2. CASE WorseReading
    BY <2>1, <2>2, WorseReadingRefuses DEF WorseReading
  <2>3. CASE NewHazard
    BY <2>1, <2>3, NewHazardRefuses DEF NewHazard
  <2> QED
    BY <1>1, <2>2, <2>3
<1>2. ASSUME IInv, IInv', [Next]_vars, tool = "windows", ~ reply.error, ~ reply'.error, WorseForecast,
             NEW t \in 0 .. Horizon - 1
      PROVE  ClassRank(ClassAt(reply, t)) <= ClassRank(ClassAt(reply', t))
  <2>1. /\ args \in Series /\ reply = ComputeRiskWindows(args, dbUp)
        /\ args' \in Series /\ reply' = ComputeRiskWindows(args', dbUp')
    BY <1>2, ToolStays DEF IInv
  <2>2. Raised(args, args')
    BY <1>2 DEF WorseForecast, Raised
  <2>3. Len(args.waves) = Len(args.winds) /\ Len(args'.waves) = Len(args'.winds)
    BY <1>2, <2>1, AnswerCuts
  <2>4. Len(args.waves) \in Nat
    BY <2>1 DEF Series
  <2>5. PICK i \in 1 .. Len(args.waves) : t \in (i - 1) * Interval .. i * Interval - 1
    BY <1>2, <2>4, HourHasStep DEF Horizon
  <2>6. i \in 1 .. Len(args'.waves)
    BY <2>2 DEF Raised
  <2>7. ClassAt(reply, t) = StepsOf(args)[i].class
    BY <1>2, <2>1, <2>5, ClassOfHour
  <2>8. ClassAt(reply', t) = StepsOf(args')[i].class
    BY <1>2, <2>1, <2>5, <2>6, ClassOfHour
  <2> QED
    BY <2>1, <2>2, <2>3, <2>7, <2>8, StepsGrow
<1>3. IInv /\ IInv' /\ [Next]_vars
        => [ /\ tool = "clearance" /\ (WorseReading \/ NewHazard) => NoBetter(reply, reply')
             /\ tool = "windows" /\ ~ reply.error /\ ~ reply'.error /\ WorseForecast
                  => \A t \in 0 .. Horizon - 1 :
                        ClassRank(ClassAt(reply, t)) <= ClassRank(ClassAt(reply', t)) ]_vars
  BY <1>1, <1>2
<1> QED
  BY <1>3, InvariantHolds, PTL DEF Spec, WorseNeverHelps
=============================================================================
