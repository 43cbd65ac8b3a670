SPECIFICATION VdbeSpec
CONSTANTS
  v1 = v1  v2 = v2  v3 = v3
  n1 = n1  n2 = n2
  Contents = {c1}
  Nobody = Nobody
  VM = {v1, v2}
  nDb = 2
  Name = {n1}
  Control = {"BEGIN", "COMMIT", "ROLLBACK"}
  Callbacks = FALSE
  Outcome = {"OK", "ABORT", "IOERR"}
  Journal = {TRUE}
  Faults = {0, 1, 2, 3}
  MaxSavepoint = 0
  MaxTxnid = 1
SYMMETRY Alike
INVARIANTS FilesSettled StatementsNest SavepointsAgree
