\* A behaviour may end: its changes and deliveries are bounded.
SPECIFICATION Spec
CONSTANTS
  a = a
  v = v
  h1 = h1
  h2 = h2
  Accounts = {a, v}
  Author = a
  Nobody = Nobody
  Handlers = {h1, h2}
  MaxChanges = 3
  MaxNoted = 2
  MaxCopies = 2
CHECK_DEADLOCK FALSE
SYMMETRY HandlerSymmetry
INVARIANTS
  TypeOK
  DecisionsAgree
  BlockEndsAccess
  PushedIsListed
  NotifiedOnce
