SPECIFICATION Spec
CONSTANT Parts = {"client", "post", "ws", "manager", "rescan", "gbt", "http", "calls", "notes", "queries", "scan"}
INVARIANTS
  ClientSound
  AnswersSound

  
CHECK_DEADLOCK FALSE
