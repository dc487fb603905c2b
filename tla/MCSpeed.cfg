SPECIFICATION Spec
CONSTANTS
  c1 = c1
  c2 = c2
  Commands <- MCCommands
  Profiles <- TwoProfiles
  MaxWorkers = 1
  Nobody = Nobody
  Stranger = Stranger
INVARIANTS
  NothingLeft
  MeasuredThroughOwn
  XraysBounded
PROPERTIES TestsEnd
