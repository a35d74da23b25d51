\* Poller and an admin submission side by side on a host whose log comes and goes
\* and which passes to another owner.
CONSTANTS
  Urls = {"a", "a/"}
  Trim <- TrimSlash
  Merging = {}
  Owners = {"x", "y"}
  FirstOwner <- OneOwner
  Troubles = {"noLog"}
  Flaws = {"duplicate"}
  Claims <- OwnClaims
  TTL <- ShortTTL
  Admins = {"admin"}
  MaxRev = 2
  Takeovers = TRUE
  SeedRows = FALSE
  Restarts = TRUE
  DBErrors = FALSE
  None = None
SPECIFICATION Spec
INVARIANTS
  TypeOK
  HeadedPairMatches
  RowTellsVerdict
