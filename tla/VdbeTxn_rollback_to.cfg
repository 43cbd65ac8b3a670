SPECIFICATION FairSpec
CONSTANTS
  Contents = {c1}
  Nobody = Nobody
  VM = {v1}
  nDb = 1
  Name = {a, b}
  Control <- AllControl
  Callbacks = FALSE
  Outcome = {"OK"}
  Journal = {FALSE}
  Faults = {0}
  MaxSavepoint = 1
  MaxTxnid = 1
PROPERTY TransactionStaysOpen
