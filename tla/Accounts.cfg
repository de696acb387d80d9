SPECIFICATION MCSpec
CONSTANTS
  e1 = e1 t1 = t1 t2 = t2 h1 = h1 b1 = b1 r1 = r1 r2 = r2
  None = None
  Users = {e1}
  Tenants = {t1, t2}
  Others = {t2}
  Hashes = {h1}
  Builds = {b1}
  Requests = {r1, r2}
  MaxAttempts = 1
  MaxCodes = 1
  MaxSessions = 2
  Tabs = {1, 2}
  Emails = {"ann"}
  Nobody = "nobody"
  CodeTtl = 1
  Window = 1
  LimitOf <- Limits
  ResendWait = 1
  Attempts = 1
  LastSecond = 2
  MaxCalls = 3
  MaxFailures = 1
  Visits = {1, 2}
  Asked <- Asks
  TrustedHops = 1
  Margin = 1
  Fallback = 3
  CacheMax = 1
  Lifetime = 3
  Skew = 0
  Patience = 2
  LastMinute = 4
  MaxTokens = 2
  MaxTroubles = 1
SYMMETRY Symmetric
INVARIANTS AccountsSound SpeaksForVisitor
PROPERTIES RequestsFenced SignInHonest
CHECK_DEADLOCK FALSE
