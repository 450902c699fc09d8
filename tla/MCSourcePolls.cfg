SPECIFICATION PollSpec
CONSTANTS
    Points <- MCPoints
    Probes <- MCProbes
    ProbeDist <- MCProbeDist
    NodeDist <- MCNodeDist
    SearchRadius = 2
    Times <- MCTimes
    Cells <- MCCells
    Catalogues <- MCCatalogues
    Descriptions <- MCDescriptions
    Bulletins <- MCBulletins
    AreaVocabulary <- MCVocabulary
    Documents <- MCDocuments
    MaxAge = 4
    MaxAhead = 1
    StationCatalogs <- MCStationCatalogs
    MarkerLists <- MCMarkerLists
    Charts <- MCCharts
    GaugeCatalogs <- MCGaugeCatalogs
    GaugeSeries <- MCGaugeSeries
    CapFeeds <- MCCapFeeds
    CapDocuments <- MCCapDocuments
    DistrictMaps <- MCDistrictMaps
    HighWaveFeeds <- MCHighWaveFeeds
    PfzFeatures <- MCPfzFeatures
    EezFeatures <- MCEezFeatures
    SearchListings <- MCSearchListings
    PageSize = 2
    MaxPages = 2
    Jobs <- MCJobs
INVARIANTS
    
    OnlyOperatorStatesAreDropped
    RoughestIsReported
PROPERTIES
    SearchFindsAll
    PollsEnd
