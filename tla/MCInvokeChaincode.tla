------------------------- MODULE MCInvokeChaincode -------------------------
(* Small instances of InvokeChaincode for TLC.                             *)
EXTENDS InvokeChaincode

(* When iterations overlap, no more than one thread's have parameters to   *)
(* store: the generation of all others fails.  Threads have only the list  *)
(* of peers in common, and all write the same to it.                       *)
Storer == CHOOSE t \in Threads : TRUE

MCNext ==
    /\ Next
    /\ cfg.limit > 1 =>
           \A t \in Threads \ {Storer}, i \in Iterations : step'[t][i] # "storeArgs"

MCFairSpec == Init /\ [][MCNext]_vars /\ Fairness
=============================================================================
