CONSTANTS
  Users = {u1, u2}
  WindowsUsers = {u2}
  Sessions = {s1, s2}
  NoSession = NoSession
  NoBundle = NoBundle
  Unreadable = Unreadable
  MaxVersion = 1
  MaxRestarts = 0
  MaxTriggers = 2
SPECIFICATION FairSpec
PROPERTY FirstLogonGetsPolicy
