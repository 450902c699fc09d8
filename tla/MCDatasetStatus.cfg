CONSTANTS
    w1 = w1
    w2 = w2
    d1 = d1
    Workers = {w1, w2}
    Datasets = {d1}
    GoodStates = {"success"}
    ErrorStates = {"license_gated", "contract_error"}
    SeedInterval <- Cadences
    SeedState <- Registered
    DefaultInterval = 1
    Multiplier = 1
    MaxClock = 2
    MaxPolls = 3
    MaxSeeds = 1
    MaxFaults = 1
SPECIFICATION FairSpec
INVARIANTS StatusShowsLastPoll FailuresAreCounted HealthNeedsData
PROPERTIES SeedKeepsOutcome SweepsConverge
