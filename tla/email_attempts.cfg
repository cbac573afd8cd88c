\* The queue refuses a message while codes are guessed.
SPECIFICATION Spec
CONSTANTS
  r1 = r1
  r2 = r2
  Requests = {r1, r2}
  MaxAttempts = 1
  MaxSends = 2
  Cooldown = 1
  Window = 2
  Ttl = 2
  MaxChallenges = 2
  MaxTime = 1
SYMMETRY RequestSymmetry
CHECK_DEADLOCK FALSE
INVARIANTS
  GuessesBounded
