\* A tool that crashes anywhere, loses keys and its manifest, and changes its URL,
\* with two URLs that share a key file.
\* The run ends when the edits and the keys are used up.
CONSTANTS
  Urls = {u1, u2}
  Keys = {k1, k2, k3}
  Slug <- SharedSlug
  Profiles = {p1}
  Labels = {noLabel}
  Albums = {a1}
  Contents = {"one", "two"}
  Extras = {e}
  Tracks <- OwnTracks
  Fails <- OddSplits
  NoFile = NoFile
  Torn = Torn
  Unlisted = Unlisted
  Faults = {"crash", "keyLoss", "urlChange", "manifestLoss"}
  MaxEdits = 2
SYMMETRY KeySymmetry
SPECIFICATION Spec
INVARIANTS
  ReadableLogIsChain
  SuccessBindsPair
  LogOnlyGrows
CHECK_DEADLOCK FALSE
