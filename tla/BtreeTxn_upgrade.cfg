SPECIFICATION FairSpec
CONSTANTS
  h1 = h1  h2 = h2  h3 = h3  h4 = h4
  t1 = t1  t2 = t2  t3 = t3
  main = main  aux = aux
  Nobody = Nobody
  Contents = {c0, c1}
  Handle = {h1, h2, h3}
  Env = {main}
  EnvOf <- OneFile
  Thread = {t1, t2, t3}
  Owner <- ThreeThreads
  MaxTxnid = 2
  MaxDepth = 1
PROPERTY SnapshotKept
