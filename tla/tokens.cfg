\* Two requests at a time; tokens, codes and decisions are bounded, so requests
\* that wait for a free row stop.
SPECIFICATION FairSpec
CONSTANTS
  t1 = t1
  t2 = t2
  t3 = t3
  c1 = c1
  b1 = b1
  b2 = b2
  w1 = w1
  w2 = w2
  Tokens = {t1, t2, t3}
  Legacy = {t1}
  Codes = {c1}
  Backups = {b1, b2}
  Roles = {"user", "admin"}
  None = None
  Scenes <- AllScenes
  Workers = {w1, w2}
  MaxDecisions = 1
CHECK_DEADLOCK FALSE
INVARIANTS
  CacheIsCurrent
  SuspensionStopsRequests
  OneTimeCredentials
PROPERTIES
  RevocationSettles
