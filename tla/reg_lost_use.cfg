\* An administrator rejects a registration whose sign-up still runs.
SPECIFICATION RegSpec
CONSTANTS
  a1 = a1
  i1 = i1
  u1 = u1
  u2 = u2
  v1 = v1
  v2 = v2
  e1 = e1
  Accounts = {a1}
  Admins = {}
  Links = {i1}
  Claims = {u1}
  Workers = {u1, v1}
  NoAccount = NoAccount
  NoLink = NoLink
  SettingsChoices <- OneSetting
  UseChoices = {1}
  CreditChoices = {1}
  DeltaChoices = {}
  ScoreBound = 0
  MaxLinksPerDay = 1
  MaxUsesPerDay = 2
  MaxAttempts = 1
  Users = {u1}
  Emails = {e1}
  EmailOf <- SameEmail
  Visitors = {v1}
  NoUser = NoUser
  Modes = {"referral"}
  AutoFollow = TRUE
  MaxChallenges = 0
SYMMETRY VisitorSymmetry
CHECK_DEADLOCK FALSE
INVARIANTS
  DeletionGivesUseBack
