\* One identity, no faults: edits, generates and rotations in every order.
\* The run ends when the edits and the keys are used up.
CONSTANTS
  Urls = {u1}
  Keys = {k1, k2, k3}
  Slug <- OwnSlug
  Profiles = {p1}
  Labels = {"split", "odd"}
  Albums = {a1, a2}
  Contents = {"one", "two", "none"}
  Extras = {e}
  Tracks <- OwnTracks
  Fails <- OddSplits
  NoFile = NoFile
  Torn = Torn
  Unlisted = Unlisted
  Faults = {}
  MaxEdits = 2
SYMMETRY KeySymmetry
SPECIFICATION Spec
INVARIANTS
  TypeOK
  CleanPairValid
  KeyInStore
  LogAccountsForCatalog
PROPERTY ImplementsSignedLog
CHECK_DEADLOCK FALSE
