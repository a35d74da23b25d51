\* Two servers of an old or a new build start side by side, serve, fail and are told to stop.
CONSTANTS
  Servers = {"a", "b"}
  Builds <- OldAndNew
  MaxFails = 1
SPECIFICATION LifeSpec
INVARIANTS
  LifeTypeOK
  AppliedExactlyOnce
  WorksOnItsSchema
PROPERTIES
  StartDecides
  SignalEnds
