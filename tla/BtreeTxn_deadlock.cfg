SPECIFICATION Spec
CONSTANTS
  h1 = h1  h2 = h2  h3 = h3  h4 = h4
  t1 = t1  t2 = t2  t3 = t3
  main = main  aux = aux
  Nobody = Nobody
  Contents = {c0}
  Handle = {h1, h2, h3, h4}
  Env = {main, aux}
  EnvOf <- TwoFiles
  Thread = {t1, t2}
  Owner <- TwoThreads
  MaxTxnid = 2
  MaxDepth = 1
INVARIANT NoDeadlock
