CONSTANTS
  Users = {u1, u2}
  WindowsUsers = {u2}
  Sessions = {s1, s2}
  NoSession = NoSession
  NoBundle = NoBundle
  Unreadable = Unreadable
  MaxVersion = 2
  MaxRestarts = 1
  MaxTriggers = 2
SPECIFICATION FairSpec
INVARIANTS TypeOK TriggerNotLost
PROPERTIES NewPolicyArrives NoPolicyLost SoleRequesterAnswered
