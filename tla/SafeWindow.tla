----------------------------- MODULE SafeWindow -----------------------------
(***************************************************************************)
(* Safe operating windows (domain/safe_window.py): a forecast series is    *)
(* scored step by step and runs of steps of one class are merged.          *)
(***************************************************************************)
EXTENDS MarineRisk, Sequences, SequencesExt

(* The class of a score.  Its cut points are the risk engine's, but a score *)
(* on a cut point falls into the lower class here.                          *)
ClassifyScore(score) ==
    CASE 4 * score.num <= score.den -> "FAVOURABLE"
      [] 4 * score.num > score.den /\ 2 * score.num <= score.den -> "MODERATE"
      [] OTHER -> "HIGH_RISK"

WarningOverlaps(start, end, warnings) ==
    \E w \in warnings : start <= w.until /\ end >= w.from

MaxScore(s, t) == IF AtMost(s, t) THEN t ELSE s

MaxOpt(a, b) == IF a = None THEN b ELSE IF b = None THEN a ELSE IF a >= b THEN a ELSE b

(* The readings of a step: its wave height and its wind speed. *)
StepReading(wave, wind) ==
    [f \in Factors |-> CASE f = "wave_height" -> wave
                         [] f = "wind_speed"  -> wind
                         [] OTHER             -> None]

StepEnd(times, interval, i) ==
    LET end == times[i] + interval IN
    IF i < Len(times) /\ times[i + 1] > times[i] /\ times[i + 1] < end THEN times[i + 1] ELSE end

Step(times, waves, winds, warnings, interval, i) ==
    LET end     == StepEnd(times, interval, i)
        warned  == WarningOverlaps(times[i], end, warnings)
        base    == AssessMarineRisk(StepReading(waves[i], winds[i]), {}, None)
        score   == IF warned THEN MaxScore(base, [num |-> 3 * (Scale \div 4), den |-> Scale]) ELSE base
    IN  [start |-> times[i], end |-> end, class |-> ClassifyScore(score), score |-> score,
         wave |-> waves[i], wind |-> winds[i], warned |-> warned]

(* Mutation: the window keeps its end. *)
MutantAbsorb(prev, s) ==
    [prev EXCEPT !.score = MaxScore(prev.score, s.score),
                 !.wave = MaxOpt(prev.wave, s.wave),
                 !.wind = MaxOpt(prev.wind, s.wind),
                 !.warned = prev.warned \/ s.warned]

(* Merging a step into the window before it keeps the worst of both. *)
Absorb(prev, s) ==
    [prev EXCEPT !.end = s.end,
                 !.score = MaxScore(prev.score, s.score),
                 !.wave = MaxOpt(prev.wave, s.wave),
                 !.wind = MaxOpt(prev.wind, s.wind),
                 !.warned = prev.warned \/ s.warned]

MergeStep(merged, s) ==
    IF merged # <<>> /\ Last(merged).class = s.class /\ Last(merged).end >= s.start
    THEN [merged EXCEPT ![Len(merged)] = Absorb(@, s)]
    ELSE Append(merged, s)

(* The windows after each of the steps. *)
MergeSteps(steps) ==
    LET merged[n \in 0 .. Len(steps)] ==
            IF n = 0 THEN <<>> ELSE MergeStep(merged[n - 1], steps[n])
    IN  merged

ComputeSafeWindows(times, waves, winds, warnings, interval) ==
    MergeSteps([i \in DOMAIN times |-> Step(times, waves, winds, warnings, interval, i)])[Len(times)]
=============================================================================
