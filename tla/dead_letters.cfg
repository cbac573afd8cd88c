\* Two consumers, two administrators, two messages; consumers die, the database
\* refuses rows.  The messages are bounded, so it stops.
SPECIFICATION Spec
CONSTANTS
  w1 = w1
  w2 = w2
  b1 = b1
  b2 = b2
  Consumers = {w1, w2}
  Admins = {b1, b2}
  FederationRetries = 1
  InternalRetries = 3
  DlqRetries = 2
  MaxMessages = 2
  MaxRows = 2
  CrashesOnLastAttempt = FALSE
SYMMETRY WhoSymmetry
CHECK_DEADLOCK FALSE
INVARIANTS
  TypeOK
  NothingLost
  ReplayedWereSent
