\* Two imports and two publishes of what they made, with two faults.
\* When imports, revisions and staging directories are used up nothing is left to do.
CONSTANTS
  Pages <- TwoPages
  Slugify <- Titles
  Handwritten <- OneSource
  Messages = {"fetching", "fetched", "downloading"}
  Columns <- Widths
  Bytes <- Lengths
  NoFile = NoFile
  Torn = Torn
  Oversized <- LongTrack
  MaxImports = 2
  MaxFaults = 2
  MaxRevs = 2
SPECIFICATION Spec
INVARIANTS
  TypeOK
  LineIsBlankAfterStop
  SourceKept
  AssetsMatchSource
  PushedIsLocalSite
  SuccessIsServed
  RerunFastForwards
PROPERTIES
  StopEnds
CHECK_DEADLOCK FALSE
