CONSTANTS
  s1 = s1
  Sessions = {s1}
  Users = {u1}
  NoUser = NoUser
  Procs = {p1}
  SessionOf <- MCSessionOf
  Files = {f1}
  Requests = {r1}
  NoRights = NoRights
  NoEntry = NoEntry
  NoSession = NoSession
  Pipe = Pipe
  DrvWorkers = {}
  MaxPolicy = 2
SPECIFICATION Spec
INVARIANT PurgeCleansCache
