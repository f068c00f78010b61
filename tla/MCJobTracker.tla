---------------------------- MODULE MCJobTracker ----------------------------
(* Small instances of JobTracker for TLC.                                  *)
EXTENDS JobTracker

(* The environments of the safety runs: everything may fail, and           *)
(* everything but requests to CouchDB.                                     *)
AnyFault      == {"db", "lookup", "queue", "tar"}
ButCouchFault == AnyFault \ {"db"}
=============================================================================
