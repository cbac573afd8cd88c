\* One registration, its sign-up and two other requests that may decide about it at
\* any time: it stops when the sign-up is over and nothing is left to decide.
SPECIFICATION RegSpec
CONSTANTS
  a1 = a1
  i1 = i1
  u1 = u1
  u2 = u2
  v1 = v1
  v2 = v2
  e1 = e1
  Accounts = {a1}
  Admins = {}
  Links = {i1}
  Claims = {u1}
  Workers = {u1, v1, v2}
  NoAccount = NoAccount
  NoLink = NoLink
  SettingsChoices <- OneSetting
  UseChoices = {1}
  CreditChoices = {1}
  DeltaChoices = {}
  ScoreBound = 0
  MaxLinksPerDay = 1
  MaxUsesPerDay = 2
  MaxAttempts = 1
  Users = {u1}
  Emails = {e1}
  EmailOf <- SameEmail
  Visitors = {v1, v2}
  NoUser = NoUser
  Modes = {"referral", "approval"}
  AutoFollow = TRUE
  MaxChallenges = 1
SYMMETRY VisitorSymmetry
CHECK_DEADLOCK FALSE
INVARIANTS
  RegTypeOK
  ClaimFollowsRegistration
  SpentMeansActive
PROPERTIES
  ActivationNotOverwritten
  LedgerSpec
