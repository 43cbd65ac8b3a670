SPECIFICATION FairSpec
CONSTANTS
  Contents = {c0, c1}
  Nobody = Nobody
  VM = {v1}
  nDb = 2
  Name = {a, b}
  Control = {"BEGIN", "COMMIT"}
  Callbacks = FALSE
  Outcome = {"OK"}
  Journal = {FALSE}
  Faults = {0, 1, 2, 3}
  MaxSavepoint = 0
  MaxTxnid = 1
PROPERTY AtomicCommit
