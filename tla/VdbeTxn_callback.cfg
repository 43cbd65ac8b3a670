SPECIFICATION Spec
CONSTANTS
  Contents = {c1}
  Nobody = Nobody
  VM = {v1}
  nDb = 1
  Name = {a, b}
  Control <- AllControl
  Callbacks = TRUE
  Outcome = {"OK"}
  Journal = {TRUE}
  Faults = {0}
  MaxSavepoint = 2
  MaxTxnid = 1
INVARIANT StatementsNested
