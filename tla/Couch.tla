------------------------------- MODULE Couch -------------------------------
(***************************************************************************)
(* The part of CouchDB's document protocol that the API server relies on   *)
(* (api/utils/couch/couch.go uses it through the kivik driver): a document *)
(* carries a revision, a PUT must name the current one, and a deleted      *)
(* document leaves a tombstone that keeps counting.  The database itself   *)
(* is not under src/, so this module is the model of an external service.  *)
(***************************************************************************)
EXTENDS Naturals

(* A document: its revision (0: never written), whether it is live, and    *)
(* the fields stored in it.                                                *)
Docs(Bodies) == [rev : Nat, live : BOOLEAN, body : Bodies]

NeverWritten(body) == [rev |-> 0, live |-> FALSE, body |-> body]

(* "409 Document update conflict": a live document wants its current       *)
(* revision; where there is none, a PUT names no revision (0) or the       *)
(* tombstone's.                                                            *)
Conflicts(doc, rev) ==
    IF doc.live THEN rev # doc.rev ELSE rev \notin {0, doc.rev}

Written(doc, body) == [rev |-> doc.rev + 1, live |-> TRUE, body |-> body]

Removed(doc) == [doc EXCEPT !.rev = @ + 1, !.live = FALSE]
=============================================================================
