SPECIFICATION FairSpec
CONSTANTS
  br = br
  dp1 = dp1
  dp2 = dp2
  c1 = c1
  c2 = c2
  c3 = c3
  Bridge = br
  Dps <- MCDps
  Clients <- MCClients
  At <- MCAt
  Discrs = {1, 2}
  Conns = {1, 2}
  QMax = 2
  Nobody = Nobody
  Faults = {"mem", "full", "reply", "broken", "flush"}
INVARIANTS
  EndsAreKnown
  WaitingIsRemembered
  CountersArePending
PROPERTIES
  OneTimelyAnswer
  AnsweredUnlessLost
