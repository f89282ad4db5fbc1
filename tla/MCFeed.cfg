\* One boot that may die and one after it; pages and fetches of one note, so that both limits
\* bind; the tallies at 0 and 1.
SPECIFICATION FairFeedSpec
CONSTANTS
  note = note
  reply = reply
  nested = nested
  Notes = {note, reply, nested}
  Eras <- TheEras
  Old = {reply}
  Credited = {reply}
  Expanded = {note}
  MaxSats = 1
  MaxBoots = 2
  NoRow = NoRow
  ParentsOf <- TheParents
  At <- TheTimes
  Relays = {r1, r2}
  Requests = {q1}
  NoRequest = NoRequest
  PageLimit = 1
  FetchLimit = 1
  HydrateTTL = 2
INVARIANTS FeedTypeOK PostedHereIsShown BackfilledUnlessCrashed AnswerShowsWhatIsDue CountsAgreeUnlessShared
PROPERTIES TalliesSurvive EventuallyThreaded
CHECK_DEADLOCK FALSE
