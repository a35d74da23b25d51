\* One poller, hosts that come and go, one of which claims the URL of the other.
CONSTANTS
  Urls = {"a", "b"}
  Trim <- TrimSlash
  Merging = {}
  Owners = {"x"}
  FirstOwner <- OneOwner
  Troubles = {"noManifest", "noLog"}
  Flaws = {"duplicate"}
  Claims <- FalseClaims
  TTL <- ShortTTL
  Admins = {}
  MaxRev = 1
  Takeovers = FALSE
  SeedRows = TRUE
  Restarts = FALSE
  DBErrors = FALSE
  None = None
SPECIFICATION FairSpec
PROPERTIES
  HealthyIsMirrored
CHECK_DEADLOCK FALSE
