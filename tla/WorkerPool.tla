----------------------------- MODULE WorkerPool -----------------------------
(***************************************************************************)
(* What IterateFunc promises its callers, with its channels, tokens and    *)
(* WaitGroup hidden: iterations start in order, never more than limit at a *)
(* time; the call returns once, when none is at work; and unless errors    *)
(* are to be ignored the error it returns tells whether any iteration      *)
(* failed.                                                                 *)
(***************************************************************************)
EXTENDS Integers, FiniteSets

CONSTANTS Items, NoError, ParseError

VARIABLES
    kind,       \* "count", "duration" or "invalid"; never changes
    limit,      \* never changes
    strict,     \* whether errors count; never changes
    started, working, failed,    \* sets of iterations
    returned,
    error       \* of the call, once it has returned

pool == <<kind, limit, strict, started, working, failed, returned, error>>

Init ==
    /\ kind \in {"count", "duration", "invalid"}
    /\ limit \in Nat
    /\ strict \in BOOLEAN
    /\ started = {} /\ working = {} /\ failed = {}
    /\ returned = FALSE
    /\ error = NoError

Start(i) ==
    /\ ~returned /\ kind # "invalid"
    /\ i \notin started
    /\ \A k \in Items : k < i => k \in started
    /\ Cardinality(working) < limit
    /\ started' = started \cup {i}
    /\ working' = working \cup {i}
    /\ UNCHANGED <<kind, limit, strict, failed, returned, error>>

Break(i) ==
    /\ i \in working \ failed
    /\ failed' = failed \cup {i}
    /\ UNCHANGED <<kind, limit, strict, started, working, returned, error>>

Finish(i) ==
    /\ i \in working
    /\ working' = working \ {i}
    /\ UNCHANGED <<kind, limit, strict, started, failed, returned, error>>

Results ==
    IF kind = "invalid" THEN {ParseError}
    ELSE IF strict /\ failed # {} THEN failed
    ELSE {NoError}

Return ==
    /\ ~returned /\ working = {}
    /\ returned' = TRUE
    /\ error' \in Results
    /\ kind = "count" /\ error' = NoError => started = Items
    /\ UNCHANGED <<kind, limit, strict, started, working, failed>>

Next == Return \/ \E i \in Items : Start(i) \/ Break(i) \/ Finish(i)

Spec == Init /\ [][Next]_pool
=============================================================================
