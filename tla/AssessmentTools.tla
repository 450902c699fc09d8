-------------------------- MODULE AssessmentTools --------------------------
(***************************************************************************)
(* The computing tools of the MCP server (mcp_server.py): an agent calls   *)
(* evaluate_safety_clearance or compute_risk_windows again and again, each *)
(* time with one argument changed.  A tool answers from its arguments      *)
(* alone, and stores an evidence row; when the database fails the answer   *)
(* is the same, marked as not stored.                                      *)
(***************************************************************************)
EXTENDS SafetyGate, SafeWindow

CONSTANTS
    Readings,      \* factor -> the values it is given
    Categories,    \* sea-state categories
    Severities, Distances, Zones,
    MaxFindings,   \* bound on hazards and flags set in one request
    Waves, Winds,  \* values of a forecast series
    Periods,       \* warning periods
    Interval,      \* hours of a forecast step
    MaxSteps       \* bound on the length of a series

ASSUME ToolsAssumption ==
    /\ Interval \in Nat \ {0}
    /\ MaxFindings \in Nat /\ MaxSteps \in Nat
    /\ \A p \in Periods : p.from <= p.until
    /\ \A c \in Categories : c \subseteq DOMAIN WMO3700 \cup {Unlisted}
    /\ None \notin Int /\ None \notin [num : Int, den : Int]
    /\ \A f \in Factors : Readings[f] \subseteq Int
    /\ Distances \subseteq Int /\ Waves \subseteq Int /\ Winds \subseteq Int
    /\ \A p \in Periods : p.from \in Int /\ p.until \in Int
    /\ IsFiniteSet(Severities)

VARIABLES
    tool,    \* the tool in use
    dbUp,    \* evidence rows can be stored
    args,    \* the arguments of the last call
    reply    \* its answer

vars == <<tool, dbUp, args, reply>>

-----------------------------------------------------------------------------
(* evaluate_safety_clearance *)

NoEvidence ==
    [reading  |-> [f \in Factors |-> None], tide |-> FALSE, category |-> None,
     warnings |-> {}, cyclone |-> None, zones |-> {}, complete |-> TRUE, requireTide |-> FALSE]

(* The gate's verdict with its evidence envelope. *)
EvaluateSafetyClearance(q, stored) ==
    LET d == EvaluateSafetyGate(q) IN
    [status |-> d.status, insufficient |-> d.insufficient, reasons |-> d.reasons,
     missing |-> d.missing, risk |-> d.risk,
     capability |-> IF d.insufficient THEN "source_gap" ELSE "available",
     stored |-> stored]

Findings(q) ==
    Cardinality(q.warnings) + Cardinality(q.zones)
      + Cardinality({b \in {"cyclone", "route", "tide"} :
                        CASE b = "cyclone" -> q.cyclone # None
                          [] b = "route"   -> ~ q.complete
                          [] b = "tide"    -> q.requireTide})

CallClearance(q) ==
    /\ tool = "clearance"
    /\ q # args /\ Findings(q) <= MaxFindings
    /\ args' = q
    /\ reply' = EvaluateSafetyClearance(q, dbUp)
    /\ UNCHANGED <<tool, dbUp>>

GiveReading(f, v) == tool = "clearance" /\ CallClearance([args EXCEPT !.reading[f] = v])
GiveCategory(c) == tool = "clearance" /\ CallClearance([args EXCEPT !.category = c])
GiveWarnings(w) == tool = "clearance" /\ CallClearance([args EXCEPT !.warnings = w])
GiveCyclone(km) == tool = "clearance" /\ CallClearance([args EXCEPT !.cyclone = km])
GiveZones(z) == tool = "clearance" /\ CallClearance([args EXCEPT !.zones = z])

(* A tide level matters, and is given, only where it is required. *)
GiveFlags(complete, require, tide) ==
    /\ tool = "clearance" /\ (tide => require)
    /\ CallClearance([args EXCEPT !.complete = complete, !.requireTide = require, !.tide = tide])

-----------------------------------------------------------------------------
(* compute_risk_windows *)

NoSeries == [waves |-> <<>>, winds |-> <<>>, swells |-> <<>>, warnings |-> {}]

(* A swell higher than the wave of its step takes its place; swells beyond  *)
(* the series are ignored.                                                  *)
FoldSwell(waves, swells) ==
    [i \in DOMAIN waves |-> IF i > Len(swells) THEN waves[i] ELSE MaxOpt(waves[i], swells[i])]

Times(n) == [i \in 1 .. n |-> (i - 1) * Interval]

(* Series of different lengths are refused, and nothing is stored. *)
ComputeRiskWindows(s, stored) ==
    IF Len(s.waves) # Len(s.winds)
    THEN [error |-> TRUE, windows |-> <<>>, stored |-> FALSE]
    ELSE [error |-> FALSE, stored |-> stored,
          windows |-> ComputeSafeWindows(Times(Len(s.waves)), FoldSwell(s.waves, s.swells),
                                         s.winds, s.warnings, Interval)]

CallWindows(s) ==
    /\ tool = "windows"
    /\ s # args
    /\ args' = s
    /\ reply' = ComputeRiskWindows(s, dbUp)
    /\ UNCHANGED <<tool, dbUp>>

AppendWave(v) ==
    /\ tool = "windows" /\ Len(args.waves) < MaxSteps
    /\ CallWindows([args EXCEPT !.waves = Append(@, v)])

AppendWind(v) ==
    /\ tool = "windows" /\ Len(args.winds) < MaxSteps
    /\ CallWindows([args EXCEPT !.winds = Append(@, v)])

AppendSwell(v) ==
    /\ tool = "windows" /\ Len(args.swells) < MaxSteps
    /\ CallWindows([args EXCEPT !.swells = Append(@, v)])

ReviseWave(i, v) == tool = "windows" /\ CallWindows([args EXCEPT !.waves[i] = v])
ReviseWind(i, v) == tool = "windows" /\ CallWindows([args EXCEPT !.winds[i] = v])
GivePeriod(p) == tool = "windows" /\ CallWindows([args EXCEPT !.warnings = {p}])

-----------------------------------------------------------------------------

Init ==
    /\ dbUp \in BOOLEAN
    /\ \/ /\ tool = "clearance"
          /\ args = NoEvidence
          /\ reply = EvaluateSafetyClearance(NoEvidence, dbUp)
       \/ /\ tool = "windows"
          /\ args = NoSeries
          /\ reply = ComputeRiskWindows(NoSeries, dbUp)

Next ==
    \/ \E f \in Factors : \E v \in Readings[f] \cup {None} : GiveReading(f, v)
    \/ \E c \in Categories \cup {None} : GiveCategory(c)
    \/ \E w \in SUBSET Severities : GiveWarnings(w)
    \/ \E km \in Distances \cup {None} : GiveCyclone(km)
    \/ \E z \in SUBSET Zones : GiveZones(z)
    \/ \E c, r, t \in BOOLEAN : GiveFlags(c, r, t)
    \/ \E v \in Waves : AppendWave(v) \/ AppendSwell(v)
    \/ \E v \in Winds : AppendWind(v)
    \/ tool = "windows" /\ \E i \in DOMAIN args.waves, v \in Waves : ReviseWave(i, v)
    \/ tool = "windows" /\ \E i \in DOMAIN args.winds, v \in Winds : ReviseWind(i, v)
    \/ \E p \in Periods : GivePeriod(p)

Spec == Init /\ [][Next]_vars

-----------------------------------------------------------------------------
(* Properties of the clearance *)

Verdicts == <<"NOT_CLEARED", "CLEARED_WITH_CAUTION", "CLEARED">>

TypeOK ==
    /\ tool \in {"clearance", "windows"}
    /\ dbUp \in BOOLEAN /\ reply.stored \in {dbUp, FALSE}
    /\ tool = "clearance" =>
         /\ reply.status \in ToSet(Verdicts)
         /\ (reply.risk = None) = ({"sea_state", "wind"} \cap reply.missing # {})
         /\ reply.risk # None => reply.risk.num \in 0 .. reply.risk.den
    /\ tool = "windows" =>
         \A w \in ToSet(reply.windows) : w.score.num \in 0 .. w.score.den /\ w.start < w.end

(* Absence of evidence is not evidence of safety: whatever else was given,  *)
(* a clearance rests on a known sea and a known wind, on a complete route   *)
(* and a tide where one is required, in an area without warning or          *)
(* unresolved zone; and it is a full one only on a measured sea.            *)
ClearanceNeedsEvidence ==
    tool = "clearance" /\ reply.status # "NOT_CLEARED" =>
        /\ args.reading["wind_speed"] # None
        /\ \/ args.reading["wave_height"] # None
           \/ args.reading["swell_height"] # None
           \/ /\ args.category # None /\ args.category # {}
              /\ args.category \subseteq DOMAIN WMO3700
              /\ reply.status # "CLEARED"
        /\ args.requireTide => args.tide
        /\ args.complete /\ args.warnings = {}
        /\ \A z \in args.zones : z.status # "unknown" /\ (z.status = "active" => ~ z.blocks)

(* Every refusal carries a reason, and every reason but the one that only   *)
(* says where the sea state came from is a refusal.                         *)
RefusalsAreExplained ==
    tool = "clearance" =>
        ( reply.status = "NOT_CLEARED"
          <=> reply.reasons \ {"SEA_STATE_DERIVED_FROM_CATEGORY"} # {} )

NoBetter(old, new) ==
    /\ \E i, j \in 1 .. 3 : Verdicts[i] = old.status /\ Verdicts[j] = new.status /\ j <= i
    /\ old.risk # None /\ new.risk # None => AtMost(old.risk, new.risk)

(* A factor's value w is worse than v: higher, but for the wave period and  *)
(* the pressure trend, where lower is worse.                                *)
Worse(f, v, w) ==
    /\ v # None /\ w # None
    /\ IF f \in {"wave_period", "pressure_trend"} THEN w < v ELSE w > v

(* A factor that counts has got worse and nothing else has changed; or      *)
(* there is one more warning, a nearer cyclone, one more zone on the route  *)
(* or a flag that asks for more.                                            *)
WorseReading ==
    \E f \in Scored(args.reading) :
        /\ Worse(f, args.reading[f], args'.reading[f])
        /\ args' = [args EXCEPT !.reading[f] = args'.reading[f]]

NewHazard ==
    /\ args'.reading = args.reading /\ args'.category = args.category
    /\ args'.tide = args.tide
    /\ args.warnings \subseteq args'.warnings /\ args.zones \subseteq args'.zones
    /\ args.cyclone # None => args'.cyclone # None /\ args'.cyclone <= args.cyclone
    /\ args'.complete => args.complete
    /\ args.requireTide => args'.requireTide

(* A category is never kinder than a measurement: a wave height inside its  *)
(* band gives a verdict at least as good.                                   *)
CategoryIsPessimistic ==
    [][ (/\ tool = "clearance" /\ Derived(args)
         /\ args'.reading["wave_height"] # None
         /\ args'.reading["wave_height"] \in SeaState(args).lo .. SeaState(args).hi
         /\ args' = [args EXCEPT !.reading = args'.reading])
        => NoBetter(reply', reply) ]_vars

-----------------------------------------------------------------------------
(* Properties of the windows *)

Horizon == Len(args.waves) * Interval

Covering(windows, t) == {i \in DOMAIN windows : windows[i].start <= t /\ t < windows[i].end}

(* The windows cut the forecast into consecutive pieces, none overlapping   *)
(* and none missing, two neighbours never of the same class.                *)
CoverSeries(ws) ==
    /\ \A t \in 0 .. Horizon - 1 : Cardinality(Covering(ws, t)) = 1
    /\ \A i \in DOMAIN ws : ws[i].end <= Horizon
    /\ \A i \in 1 .. Len(ws) - 1 : ws[i].end = ws[i + 1].start /\ ws[i].class # ws[i + 1].class

(* The windows cover the series, and a window reports the worst of its      *)
(* hours: its score and its heights are no lower than those of any step it  *)
(* covers, and it is high risk wherever a warning is in force at one of its *)
(* hours.                                                                   *)
WindowsKeepWorst ==
    tool = "windows" /\ ~ reply.error =>
        /\ CoverSeries(reply.windows)
        /\ \A i \in DOMAIN args.waves : \A k \in Covering(reply.windows, (i - 1) * Interval) :
            LET w == reply.windows[k] IN
            /\ AtMost(AssessMarineRisk(StepReading(args.waves[i], args.winds[i]), {}, None), w.score)
            /\ w.wave >= args.waves[i] /\ w.wind >= args.winds[i]
            /\ i <= Len(args.swells) => w.wave >= args.swells[i]
            /\ (\E t \in (i - 1) * Interval .. i * Interval - 1, p \in args.warnings :
                    p.from <= t /\ t <= p.until) => w.class = "HIGH_RISK" /\ w.warned

ClassAt(r, t) == LET ws == r.windows IN ws[CHOOSE i \in Covering(ws, t) : TRUE].class

ClassRank(c) == CASE c = "FAVOURABLE" -> 0 [] c = "MODERATE" -> 1 [] c = "HIGH_RISK" -> 2

WorseForecast ==
    /\ Len(args'.waves) = Len(args.waves)
    /\ \A i \in DOMAIN args.waves : args'.waves[i] >= args.waves[i]
                                     /\ args'.winds[i] >= args.winds[i]
    /\ IsPrefix(args.swells, args'.swells)
    /\ args.warnings \subseteq args'.warnings

(* Worse inputs never give a better answer.  A worse value of a factor that *)
(* already counts and a new hazard never raise the verdict nor lower the  *)
(* score of a clearance; raising a wave or a wind, adding a swell or adding *)
(* the first warning improves no hour of the windows.                       *)
WorseNeverHelps ==
    [][ /\ tool = "clearance" /\ (WorseReading \/ NewHazard) => NoBetter(reply, reply')
        /\ tool = "windows" /\ ~ reply.error /\ ~ reply'.error /\ WorseForecast
            => \A t \in 0 .. Horizon - 1 : ClassRank(ClassAt(reply, t)) <= ClassRank(ClassAt(reply', t))
      ]_vars
=============================================================================
