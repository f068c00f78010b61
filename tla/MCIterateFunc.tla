--------------------------- MODULE MCIterateFunc ---------------------------
(* Small instances of IterateFunc for TLC.                                 *)
EXTENDS IterateFunc

(* With UpperLimit = 3 the first and the last are not accepted.            *)
SomeFlags == {-1, 1, 3, 4}

(* A history variable: launches since an error entered errChan.            *)
VARIABLE late

MCInit == Init /\ late = 0

MCNext ==
    /\ Next
    /\ late' = IF wg' > wg /\ errChan # <<>> THEN late + 1 ELSE late

MCSpec == MCInit /\ [][MCNext]_<<vars, late>> /\ Fairness

(* Unless errors are ignored, the loop stops at the first error it could   *)
(* see: at most one more iteration is launched once one is in errChan.     *)
ErrorStopsLaunching == run.ignoreErrors \/ late <= 1
=============================================================================
