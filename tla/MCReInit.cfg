CONSTANTS
  a1 = a1
  a2 = a2
  a3 = a3
  p1 = p1
  None = None
  Accounts <- MCAccounts
  PeerIDs <- MCPeerIDs
  DurationParams = {1}
  DEFAULT_VOTING_DURATION = 200
  MaxInitNodes = 3
  MaxEpoch = 2
  ReInit = TRUE
  FailingMethods = {"report_checker"}

SYMMETRY Symmetry
VIEW StateView

SPECIFICATION Spec

PROPERTY MemberRemovedOnlyByOwner
