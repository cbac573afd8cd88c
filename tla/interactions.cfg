\* Two local accounts and a remote one favour, boost, vote on and reply to one status,
\* edit and remove what they wrote, and share uploads, while the author of the status
\* may delete it and one task is interrupted.  Ids, counts, texts and interruptions
\* are bounded, so it stops.
SPECIFICATION AuthoringSpec
CONSTANTS
  l1 = l1
  l2 = l2
  r1 = r1
  i1 = i1
  i2 = i2
  i3 = i3
  p1 = p1
  p2 = p2
  w1 = w1
  w2 = w2
  m1 = m1
  m2 = m2
  t1 = t1
  t2 = t2
  tag = tag
  near = near
  far = far
  Locals = {l1, l2}
  Remotes = {r1}
  Ids = {i1, i2, i3}
  None = None
  Options = {1, 2}
  Workers = {w1, w2}
  Scenes <- AllScenes
  Replies = {p1, p2}
  Media = {m1, m2}
  Texts = {t1, t2}
  Tags = {tag}
  LocalNames = {near}
  RemoteNames = {far}
  TermsOf <- Named
  MaxCrashes = 1
  MaxCount = 3
SYMMETRY Interchangeable
CHECK_DEADLOCK FALSE
INVARIANTS
  CountersMatchRows
  OneLocalBoost
  NoPhantomVotes
  VotesAreCounted
  AuthoringTypeOK
  RepliesCounted
  MediaAccountedFor
  IndexMatchesText
  HistoryIsTrue
