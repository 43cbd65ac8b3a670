SPECIFICATION FairSpec
CONSTANTS
  Contents = {c0, c1}
  Nobody = Nobody
  VM = {v1}
  nDb = 1
  Name = {a, b}
  Control = {"BEGIN", "COMMIT"}
  Callbacks = FALSE
  Outcome = {"OK", "ABORT"}
  Journal = {TRUE}
  Faults = {0}
  MaxSavepoint = 0
  MaxTxnid = 1
PROPERTY NothingCommittedEarly
