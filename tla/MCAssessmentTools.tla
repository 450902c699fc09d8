------------------------- MODULE MCAssessmentTools -------------------------
(* A small instance of AssessmentTools. *)
EXTENDS AssessmentTools

GivenReadings ==
    [wave_height    |-> {100, 400, 600},
     wind_speed     |-> {50, 250},
     wind_gust      |-> {300},
     swell_height   |-> {100, 500},
     wave_period    |-> {20, 50},
     rainfall       |-> {1000},
     pressure_trend |-> {10, -10, -80}]

Terms == {{Unlisted}, {4, 5}}

RouteZones ==
    {[status |-> "active", blocks |-> TRUE], [status |-> "active", blocks |-> FALSE],
     [status |-> "unknown", blocks |-> FALSE]}

WarningPeriods == {[from |-> 1, until |-> 1], [from |-> 0, until |-> 2], [from |-> 4, until |-> 9]}
=============================================================================
