SPECIFICATION Spec
CONSTANTS
  Sockets = {c1, c2}
  Routes = {r}
  Events = {e, f}
  Ephemeral = {f}
  Subs = {s}
  Filters <- AllOrIllTyped
  MaxConnections = 1
  MaxSubs = 1
  MaxPublishing = 2
  None = None
SYMMETRY Interchangeable
INVARIANTS
  NoGap
  LiveStayRegistered
  LimitUnlessRaced
PROPERTIES
  WholeReachesAll
  LossHasCause
  OnlyGreetingsLeak
