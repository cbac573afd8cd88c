\* Contributions: two requests race on one balance while the settings and the
\* balance of the account change under them, and each of them still ends.
SPECIFICATION FairSpec
CONSTANTS
  a1 = a1
  a2 = a2
  i1 = i1
  i2 = i2
  c1 = c1
  c2 = c2
  c3 = c3
  w1 = w1
  w2 = w2
  Accounts = {a1}
  Admins = {a1}
  Links = {}
  Claims = {}
  Workers = {w1, w2}
  NoAccount = NoAccount
  NoLink = NoLink
  SettingsChoices <- AwardSettings
  UseChoices = {1}
  CreditChoices <- PlusMinusOne
  DeltaChoices <- PlusMinusOne
  ScoreBound = 2
  MaxLinksPerDay = 1
  MaxUsesPerDay = 1
  MaxAttempts = 2
INVARIANTS
  AuditReconciles
PROPERTIES
  RequestsEnd
  AwardsOnlyNewTiers
