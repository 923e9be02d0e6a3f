SPECIFICATION LiveSpec
CONSTANT Small = TRUE
CONSTANT Parts = {"sync", "peer", "v2", "shake", "conn", "relay", "data", "miner", "val"}
PROPERTIES
  DownloadsComplete
  ConnectionsMade
  GoroutinesEnd
CHECK_DEADLOCK FALSE
