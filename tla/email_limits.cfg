\* Two requests; the queue may refuse a message and what was claimed is given back.
\* The clock and the challenges are bounded, so it stops.
SPECIFICATION Spec
CONSTANTS
  r1 = r1
  r2 = r2
  Requests = {r1, r2}
  MaxAttempts = 1
  MaxSends = 2
  Cooldown = 2
  Window = 3
  Ttl = 1
  MaxChallenges = 3
  MaxTime = 3
SYMMETRY RequestSymmetry
CHECK_DEADLOCK FALSE
INVARIANTS
  GuessesBoundedUntilRefused
  MailsLimited
  MailedLinkWorks
PROPERTIES
  ActiveIsFinal
