SPECIFICATION Spec
CONSTANTS
  NoRecord = NoRecord
  Publishers = {p1, p2}
  MaxDisturbances = 2
  Files <- TheFiles
  Contents <- TheContents
  Size <- TheSizes
  Split <- TheSplit
  Chains <- TheChains
  Limits <- TheLimits
SYMMETRY AnyPublisher
CONSTRAINT Bounded
INVARIANTS
  PublicationIsTrue
  ArchivedLogIsFinal
  SourcesAreBacked
CHECK_DEADLOCK FALSE
