SPECIFICATION Spec
CONSTANT Parts = {"pool", "fee", "ffldb", "dbtx", "treap", "idx", "addridx", "engine", "sign", "codec"}
CONSTANTS
  MaxOpsPerScript = 12
  MaxStackSize = 12
  MaxScriptElementSize = 120
  MaxPubKeysPerMultiSig = 4
  LockTimeThreshold = 100
  SequenceDisabled = 128
  SequenceIsSeconds = 64
  SequenceMask = 63
  MaxTxInSequenceNum = 255
  Amount = 7
  MaxScriptSize = 200
  MaxDataCarrierSize = 80
CONSTANTS
  Spends <- ScriptSpends
  FlagSets <- ScriptFlagSets
CONSTANTS
  Jobs <- ScriptJobs
  Wallets <- ScriptWallets
  MaxTurns = 3
CONSTANTS
  PushItems <- ScriptPushItems
  PushInts <- ScriptPushInts
  StrictSigs <- ScriptStrictSigs
  FormScripts <- ScriptFormScripts
  EditBytes <- ScriptEditBytes
  LeafScripts <- ScriptLeafScripts
  MaxCalls = 3
  MaxEdits = 2
INVARIANTS
  
  
  StoreSound
  IndexesSound
PROPERTIES
  PoolSound
  ScriptsSound
CHECK_DEADLOCK FALSE
