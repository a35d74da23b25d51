\* A rotation that dies between the key and the log.
CONSTANTS
  Urls = {u1}
  Keys = {k1, k2}
  Slug <- OwnSlug
  Profiles = {p1, p2}
  Labels = {noLabel}
  Albums = {a1}
  Contents = {"one", "two"}
  Extras = {e}
  Tracks <- OwnTracks
  Fails <- OddSplits
  NoFile = NoFile
  Torn = Torn
  Unlisted = Unlisted
  Faults = {"crash"}
  MaxEdits = 1
SYMMETRY KeySymmetry
SPECIFICATION Spec
INVARIANTS
  StoredKeyIsAuthorised
CHECK_DEADLOCK FALSE
