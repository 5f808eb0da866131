SPECIFICATION FairSpec
CONSTANTS
  Hall = Hall
  Private = Private
  m1 = m1
  p1 = p1
  None = None
  MyIds <- MCMyIds
  PeerIds <- MCPeerIds
  Loads <- MCLoads
  Page = 1
INVARIANTS TypeOK ListsAgreeWithLog OwnOnce AckedNeverAlert
PROPERTY SendSettles
