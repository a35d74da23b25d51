\* A host that claims the URL of another and merges slashes, polled and submitted side
\* by side.
CONSTANTS
  Urls = {"a", "a/", "b"}
  Trim <- TrimSlash
  Merging = {"a"}
  Owners = {"x", "y"}
  FirstOwner <- TwoOwners
  Troubles = {}
  Flaws = {}
  Claims <- FalseClaims
  TTL <- ShortTTL
  Admins = {"admin"}
  MaxRev = 1
  Takeovers = FALSE
  SeedRows = FALSE
  Restarts = TRUE
  DBErrors = TRUE
  None = None
SPECIFICATION Spec
INVARIANTS
  RowFromOwnHost
