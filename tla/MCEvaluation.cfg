CONSTANTS
  Evaluators = {e1, e2}
  Probes <- MCProbes
  References <- MCReferences
  Available <- MCAvailable
  First <- MCFirst
  Second <- MCSecond
  Raws = {"YES", "YES ", "NO", "MAYBE"}
  MaxCrashes = 1
  None = None
  Hosts = {h1, h2}
  Trains <- MCTrains
  Original = "t1"
  Documents = 3
  Questions = 4
  Scans <- MCScans
  PageCount <- MCPageCount
  Objects <- MCObjects
  Seconds = {"s1"}
  MaxStarts = 2
  MaxReplaced = 1
  NoLock = NoLock
  Configs <- MCConfigs
  Licenses = {"mit", "apache"}
  MaxFetchAttempts = 2
  MaxEdits = 2
  MaxMoves = 2
  NoRegistry = NoRegistry
SPECIFICATION MCSpec
INVARIANTS ScoresAreReproducible AcceptanceGates LineageHolds AlgorithmsAreExact LockIsWhole AssetsAreBacked
PROPERTIES RegistryIsAppendOnly
