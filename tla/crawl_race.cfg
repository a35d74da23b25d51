\* A submission while the poller polls the same identity.
CONSTANTS
  Urls = {"a"}
  Trim <- TrimSlash
  Merging = {}
  Owners = {"x"}
  FirstOwner <- OneOwner
  Troubles = {}
  Flaws = {}
  Claims <- OwnClaims
  TTL <- ShortTTL
  Admins = {"admin"}
  MaxRev = 2
  Takeovers = FALSE
  SeedRows = FALSE
  Restarts = FALSE
  DBErrors = FALSE
  None = None
SPECIFICATION Spec
PROPERTIES
  NeverRegresses
