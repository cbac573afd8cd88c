\* Two links and two uses of one inviter while the cap is lowered and raised and
\* an administrator sets, adds, distributes and resets credits.
SPECIFICATION Spec
CONSTANTS
  a1 = a1
  a2 = a2
  i1 = i1
  i2 = i2
  c1 = c1
  c2 = c2
  c3 = c3
  w1 = w1
  w2 = w2
  Accounts = {a1}
  Admins = {}
  Links = {i1, i2}
  Claims = {c1, c2}
  Workers = {w1}
  NoAccount = NoAccount
  NoLink = NoLink
  SettingsChoices <- CapSettings
  UseChoices = {1, 2}
  CreditChoices <- MinusOneAndTwo
  DeltaChoices = {}
  ScoreBound = 0
  MaxLinksPerDay = 1
  MaxUsesPerDay = 2
  MaxAttempts = 1
SYMMETRY ClaimSymmetry
INVARIANTS
  UseConservation
  RefundNeverBlocked
PROPERTIES
  ImplementsBank
  OwnershipGrowsOnlyUnderCap
