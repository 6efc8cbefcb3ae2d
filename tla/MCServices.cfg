CONSTANTS
    Focuses = {"feed", "config", "caches", "sections", "alerts", "risk", "operators", "staging", "mirror", "acquisitions", "console", "hazards", "normalizers", "files", "routing", "shelters", "versions", "simulation", "observations", "uploads", "viewers"}
    Messages <- MCMessages
    Clients = {c1}
    None = None
    SeenMax = 2
    QueueMax = 2
    RetryCap = 2
    Keys <- MCKeys
    Definition <- MCDefinition
    Inputs <- MCInputs
    MaxHistory = 2
    StreamMax = 1
    Pages = {p1}
    MaxUpdates = 3
    Invalid = Invalid
    NaN = NaN
    Readers = {r1, r2}
    Adapters = {"train", "traffic", "railway_map", "rain_times", "storm_surge", "weather", "alerts", "tsunami", "geocode", "quake_list", "observations"}
    Ttl <- MCTtl
    StaleMax = 3
    BootClock = 4
    EndClock = 7
    NoData = NoData
    Labels = {"A", "B", "Q", "T", "fumei"}
    SourceAnswers <- MCAnswers
    Calm <- MCCalm
    MaxBusy = 2
    StrongPixels = 2
    MaxAreas = 1
    MaxQuakes = 2
    MaxRegions = 2
    AlertAreas = {"a10", "a20"}
    AlertCodes = {"k3", "k9"}
    CodeSeverity <- MCCodeSeverity
    NameGrade <- MCNameGrade
    CityArea <- MCCityArea
    CityLabels <- MCCityLabels
    AreaLabel <- MCAreaLabel
    MaxReports = 3
    Points = {"a", "b"}
    Routes <- MCRoutes
    MaxSamples = 3
    SampleMetres = 2
    AheadSamples = 2
    Forecast <- MCForecast
    Alerts <- MCAlerts
    Zones <- MCZones
    Kikikurus <- MCKikikurus
    Sessions = {s1}
    Requests = {q1}
    Callers = {"job", "shutdown"}
    Plan <- MCPlan
    Stagings <- MCStagings
    Targets <- MCTargets
    Unreadable = Unreadable
    Ref = "owner-1"
    MaxNesting = 2
    NoVersion = NoVersion
    Operators = {o1, o2}
    Versions = {v1, v2}
    Rels <- MCRels
    TilesetOf <- MCTilesetOf
    Contents = {x, y}
    Junk = junk
    Absent = absent
    NoTree = noTree
    Gone = gone_version
    Retired <- MCRetired
    Migrated <- MCMigrated
    Required = {newTiles}
    FirstTree <- MCFirstTree
    HandPaths = {oldTiles}
    MaxHandPlaced = 1
    MaxScripts = 2
    oldTiles = oldTiles
    newTiles = newTiles
    goneTiles = goneTiles
    x = x
    Definitions <- MCDefinitions
    CodeIn <- MCCodeIn
    Uploads <- MCUploads
    Batched = {"tides"}
    Missing = Missing
    MaxIngests = 2
    MaxKills = 1
    Sights <- MCSights
    FirstSights <- MCFirstSights
    MaxDifferences = 2
    Places <- MCPlaces
    FloodBuffer = 1
    CellSize = 1
    Wanted = {"tokyo"}
    Runtimes <- MCRuntimes
    Registered <- MCRegistered
    MaxFaults = 1
    NoBox = NoBox
    Metres = 100
    Elevation <- MCElevation
    NoElevation = NoElevation
    Shelters <- MCShelters
    SearchRequests <- MCSearches
    MaxListed = 2
    MaxGrid = 2
    RawSources <- MCRawSources
    Open = Open
    MaxFetches = 2
    MaxDeploys = 4
    MaxMishaps = 2
    MaxRoads = 2
    MaxRequests = 2
    MaxOutages = 1
    ShelterTrees <- MCShelterTrees
    FlatWorlds <- MCFlatWorlds
    LayerOf <- MCLayerOf
    NoShelters = NoShelters
    ShelterTtl = 2
    MaxWorldChanges = 2
    Registry <- MCRegistry
    TsunamiTargets = {"chiba"}
    Superseded <- MCSuperseded
    FirstTrees <- MCFirstTrees
    FirstLake <- MCFirstLake
    FirstMapped <- MCFirstMapped
    MaxLakeChanges = 2
    MaxPublishes = 1
    Lengths <- MCLengths
    HazardScenarios <- MCHazardScenarios
    WeatherScenarios <- MCWeatherScenarios
    Predefined <- MCPredefined
    Lacking = Lacking
    Unread = Unread
    QuakeFeeds <- MCQuakeFeeds
    MaxEvents = 2
    StationSets <- MCStationSets
    TideWorlds <- MCTideWorlds
    HoursInADay = 5
    RoadFeeds <- MCRoadFeeds
    BoxMargin = 3
    TrainFeeds <- MCTrainFeeds
    OperatorPrefectures <- MCOperatorPrefectures
    Centroids <- MCCentroids
    UploadPlans <- MCUploadPlans
    ChunkPieces = 2
    MaxPieces = 4
    MaxTries = 2
    NoGroup = NoGroup
    HazardDatasets <- MCHazardDatasets
    HazardTrees <- MCHazardTrees
    RuntimeFiles <- MCRuntimeFiles
    LakeFiles <- MCLakeFiles
    LegacyFiles <- MCLegacyFiles
    FirstMappings <- MCFirstMappings
    TileFiles <- MCTileFiles
    NoFile = NoFile
    MaxShelfChanges = 3
SPECIFICATION ServicesSpec
INVARIANTS
    ShownIsTrue
    HistoryAccountsForValues
    OkIsRecent
    WorstSectionIsOnTop
    InForceIsListed
    UnknownIsNotNone
    AuditAccounts
    ReuseIsSound
    ActiveMadeCanonical
    OkChainHolds
    NothingCoveredIsCleared
    SaferOnesAreHiddenByLengthOnly
    NoAreaIsLeftBlank
    DeployedIsWholeOrUndoable
    AnswersMatchTheSources
    NewestSheltersAreListed
    
    UploadsArriveWhole
    ViewersSeeTheirRegion
PROPERTIES
    SimulationIsSound
    WorseIsNeverSafer
    NothingVanishes
    MirrorStaysSound
    OneBuildIsServed
CHECK_DEADLOCK FALSE
VIEW ServicesView
