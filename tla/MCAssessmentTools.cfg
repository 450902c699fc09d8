CONSTANTS
    None = None
    Unlisted = Unlisted
    Readings <- GivenReadings
    Categories <- Terms
    Severities = {"severe", "minor"}
    Distances = {90, 900}
    Zones <- RouteZones
    MaxFindings = 1
    Waves = {100, 600}
    Winds = {50, 250}
    Periods <- WarningPeriods
    Interval = 2
    MaxSteps = 3
SPECIFICATION Spec
INVARIANTS ClearanceNeedsEvidence RefusalsAreExplained WindowsKeepWorst
PROPERTIES WorseNeverHelps CategoryIsPessimistic
