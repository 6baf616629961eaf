\* Two requests at the proxy and three seconds, of which a response may be kept
\* two, with two documents published in between; up to three constraints.
CONSTANTS
  None = None
  Client = client
  Requests = {client, other}
  MaxAges = {0, 2}
  MaxDocuments = 3
  MaxTime = 3
  Constraints <- MCConstraints
  MaxConstraints = 3
  Current = 1
  Countries = {home, abroad}
  Fallback = home
SPECIFICATION FairSpec
INVARIANTS TypeOK AnswersAreRecent MostSevereFound VerdictJustified
PROPERTIES GateEnds
CHECK_DEADLOCK FALSE
