CONSTANTS
  s1 = s1
  Sessions = {s1}
  Users = {u1, u2}
  NoUser = NoUser
  Procs = {p1}
  SessionOf <- MCSessionOf
  Files = {f1}
  Requests = {r1}
  NoRights = NoRights
  NoEntry = NoEntry
  NoSession = NoSession
  Pipe = Pipe
  DrvWorkers = {w1}
  MaxPolicy = 1
SPECIFICATION FairSpec
INVARIANTS TypeOK FreshAfterLogon NoMixedDecision SessionBundleCurrent
PROPERTY PolicyReachesSessions
