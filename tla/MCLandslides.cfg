CONSTANTS
    RawSources <- MCZones
    Open = Open
    Places <- MCPlaces
    FloodBuffer = 1
    CellSize = 1
    Wanted = {"tokyo"}
    Runtimes <- NoRuntime
    Registered <- NoDatasets
    MaxFaults = 0
    NoBox = NoBox
SPECIFICATION LandslideSpec
INVARIANTS
    SpecialZonesAreCritical
CHECK_DEADLOCK FALSE
