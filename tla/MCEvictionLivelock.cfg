CONSTANTS
  a1 = a1
  a2 = a2
  a3 = a3
  a4 = a4
  p1 = p1
  None = None
  Accounts <- MCAccounts
  PeerIDs <- MCPeerIDs
  DurationParams = {1}
  DEFAULT_VOTING_DURATION = 200
  MaxInitNodes = 4
  MaxEpoch = 2
  ReInit = FALSE
  FailingMethods = {}

SPECIFICATION EvictionSpec

PROPERTY TargetEventuallyEvicted
