----------------------------- MODULE MCBtreeTxn -----------------------------
(* Instances of BtreeTxn: three handles on one file, each in a thread (or  *)
(* process) of its own, and two threads that have two files open each.     *)
EXTENDS BtreeTxn, TLC

CONSTANTS h1, h2, h3, h4, t1, t2, t3, main, aux

OneFile == [h \in {h1, h2, h3} |-> main]
ThreeThreads == h1 :> t1 @@ h2 :> t2 @@ h3 :> t3

\* t1 uses h1 and h2, t2 uses h3 and h4.
TwoFiles == h1 :> main @@ h2 :> aux @@ h3 :> main @@ h4 :> aux
TwoThreads == h1 :> t1 @@ h2 :> t1 @@ h3 :> t2 @@ h4 :> t2
=============================================================================
