SPECIFICATION TelemetryLiveSpec
CONSTANTS
  Dependencies <- MCDependencies
  Singletons = 2
  Cap = 5
  MaxSeries = 1
INVARIANTS
  HealthyIsEarned
  ExportsWhole
PROPERTIES
  DashboardConverges
