SPECIFICATION FairSpec
CONSTANTS
  web = web
  phone = phone
  Peers <- MCPeers
  Flows = 2
INVARIANTS TypeOK ResourcesFreed
PROPERTY CallingEnds
CHECK_DEADLOCK FALSE
