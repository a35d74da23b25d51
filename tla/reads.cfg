\* Album and roster queries against upserts of both parties.
CONSTANTS
  Urls = {"x", "y"}
  Published <- Revisions
  MaxUpserts <- ThreeEach
  None = None
SPECIFICATION Spec
INVARIANTS
  TypeOK
  AlbumPartsOfOneManifest
  SplitVerdictHasGrounds
  RosterVerdictHasGrounds
