SPECIFICATION Spec
CONSTANT Small = FALSE
CONSTANT Parts = {"sync", "peer", "v2", "shake", "addr", "local", "conn", "server", "relay", "filters", "data", "session", "miner", "val", "hash"}
INVARIANTS
  SyncSound
  PeerSound
  
  

  
  
CHECK_DEADLOCK FALSE
