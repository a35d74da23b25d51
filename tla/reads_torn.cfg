\* An upsert in the middle of an album query.
CONSTANTS
  Urls = {"x", "y"}
  Published <- Revisions
  MaxUpserts <- TwoEach
  None = None
SPECIFICATION Spec
INVARIANTS
  AlbumIsWhole
