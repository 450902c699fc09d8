SPECIFICATION Spec
CONSTANTS
    RadiusKm = 3
    PageLimit = 2
    WindowTicks = 0
    MaxClock = 2
    MaxPolls = 3
    FeedOf <- MCFeedOf
    Endpoints <- AllEndpoints
INVARIANTS
    EmptyAnswersAdmitGaps
    AnswersAreAudited
    
    AlertPagesKeepTheNearest
