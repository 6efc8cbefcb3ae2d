CONSTANTS
    Points = {"a", "b"}
    Routes <- MCRoutes
    MaxSamples = 3
    SampleMetres = 2
    AheadSamples = 2
    Forecast <- MCForecast
    Alerts <- MCAlerts
    Zones <- MCZones
    Kikikurus <- MCKikikurus
SPECIFICATION RiskSpec
INVARIANT KikikuruNeverHelps
