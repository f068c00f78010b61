------------------------------- MODULE SvgUse -------------------------------
(***************************************************************************)
(* svgxuse of bluemix-components.js: it makes <use> elements that refer to *)
(* a symbol of another file work in browsers that cannot show them.        *)
(* checkUseElems looks at all of them, asks for the files of those that    *)
(* are empty, and stops watching the page for changes until all requests   *)
(* are answered.  The icons of hfrd's pages are in the pages themselves    *)
(* (their base is ""), but the dialogs hide and show them.                 *)
(***************************************************************************)
EXTENDS Naturals, FiniteSets

CONSTANTS
    N,         \* the number of <use> elements, in the order of the document
    SvgFiles   \* the other files they may refer to

VARIABLES
    base,       \* base[i]: what the xlink:href of the i-th has before the #
    size,       \* size[i]: "hidden", "empty" (neither), or "shown"
    cache,      \* cache[b]: "undefined", "true", or the state of an xhr
    inProgress, \* inProgressCount of the last checkUseElems
    observers,  \* the MutationObservers that report to debouncedCheck
    timer,      \* a timer will run checkUseElems
    updates,    \* the attrUpdateFuncs to come: the element and its base
    abandoned   \* a request has been aborted

vars == <<base, size, cache, inProgress, observers, timer, updates, abandoned>>

Uses == 1 .. N
Bases == SvgFiles \cup {""}
Sizes == {"hidden", "empty", "shown"}
Requests == {"loading", "failed", "loaded"}

TypeOK ==
    /\ base \in [Uses -> Bases]
    /\ size \in [Uses -> Sizes]
    /\ cache \in [Bases -> {"undefined", "true"} \cup Requests]
    /\ inProgress \in 0 .. Cardinality(SvgFiles)
    /\ observers \in Nat /\ timer \in BOOLEAN
    /\ updates \subseteq Uses \X Bases
    /\ abandoned \in BOOLEAN

(* The window's load event sets the first timer.                           *)
Init ==
    /\ base \in [Uses -> Bases]
    /\ size \in [Uses -> Sizes]
    /\ cache = [b \in Bases |-> "undefined"]
    /\ inProgress = 0 /\ observers = 0 /\ timer = TRUE
    /\ updates = {} /\ abandoned = FALSE

-----------------------------------------------------------------------------
(* checkUseElems.                                                          *)

(* By its i-th element the loop has seen one that shows a symbol of b, so  *)
(* that b is not needed.  A failed request, too, still has its onload.     *)
Unneeded(b, i) ==
    /\ cache[b] \in {"undefined", "loading", "failed"}
    /\ \E j \in 1 .. i : base[j] = b /\ size[j] = "shown"

(* The empty elements, which are to refer to the page itself, and the      *)
(* files the first of them asks for.                                       *)
Empties ==
    {i \in Uses : /\ size[i] = "empty" /\ base[i] # ""
                  /\ cache[base[i]] # "true" /\ ~Unneeded(base[i], i)}
Asked == {b \in SvgFiles : cache[b] = "undefined" /\ \E i \in Empties : base[i] = b}

(* A request is aborted if a later element of the loop shows its file.     *)
CheckUseElems ==
    /\ timer /\ timer' = FALSE
    /\ updates' = updates \cup {<<i, base[i]>> : i \in Empties}
    /\ cache' = [b \in Bases |-> IF Unneeded(b, N) THEN "true"
                                 ELSE IF b \in Asked THEN "loading" ELSE cache[b]]
    /\ abandoned' = (abandoned \/ \E b \in Bases :
                         Unneeded(b, N) /\ (cache[b] = "loading" \/ b \in Asked))
    /\ inProgress' = Cardinality(Asked)
    /\ LET unobserved == IF observers = 0 THEN 0 ELSE observers - 1
       IN  observers' = unobserved + (IF Asked = {} THEN 1 ELSE 0)
    /\ UNCHANGED <<base, size>>

(* A fault of ObserveIfDone: every answer resumes watching.                *)
ObserveAnyway == inProgress' = inProgress - 1 /\ observers' = observers + 1

ObserveIfDone ==
    /\ inProgress' = inProgress - 1
    /\ observers' = observers + (IF inProgress = 1 THEN 1 ELSE 0)

(* onload puts the file into the page; onerror and ontimeout only count.   *)
Answer(b) ==
    /\ cache[b] = "loading"
    /\ \E answer \in {"loaded", "failed"} : cache' = [cache EXCEPT ![b] = answer]
    /\ ObserveIfDone
    /\ UNCHANGED <<base, size, timer, updates, abandoned>>

-----------------------------------------------------------------------------
(* debouncedCheck, for each change of the page that is watched.            *)
DebouncedCheck == timer' = (timer \/ observers > 0)

(* From now on the element refers to the page itself.                      *)
AttrUpdate(i) ==
    \E b \in Bases :
        /\ <<i, b>> \in updates
        /\ updates' = updates \ {<<i, b>>}
        /\ IF cache[b] = "true" THEN UNCHANGED <<base, timer>>
           ELSE base' = [base EXCEPT ![i] = ""] /\ DebouncedCheck
        /\ UNCHANGED <<size, cache, inProgress, observers, abandoned>>

(* The page shows or hides an element: a dialog opens, a symbol arrives.   *)
PageChanges(i) ==
    /\ \E s \in Sizes \ {size[i]} : size' = [size EXCEPT ![i] = s]
    /\ DebouncedCheck
    /\ UNCHANGED <<base, cache, inProgress, observers, updates, abandoned>>

Next ==
    \/ CheckUseElems
    \/ \E b \in SvgFiles : Answer(b)
    \/ \E i \in Uses : AttrUpdate(i) \/ PageChanges(i)

Spec == Init /\ [][Next]_vars
-----------------------------------------------------------------------------
(* Properties.                                                             *)

(* The page is watched once, and not while files are loaded: observers and *)
(* listeners do not pile up, and no check counts the requests of another.  *)
ObservedOnce ==
    /\ observers <= 1
    /\ observers = 1 \/ timer => inProgress = 0

(* The page is watched again after every check, except when one has        *)
(* aborted its own request: that one is never counted as answered.         *)
WatchResumes ==
    observers = 0 /\ ~timer => abandoned \/ \E b \in SvgFiles : cache[b] = "loading"

PageIsWatched == ObservedOnce /\ WatchResumes
=============================================================================
