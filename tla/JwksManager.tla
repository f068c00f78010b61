---------------------------- MODULE JwksManager ----------------------------
(***************************************************************************)
(* The verification of tokens by api/resource/auth/jwt: the keys an        *)
(* IbmJwksManager holds, the goroutine that updates them once a day, and   *)
(* the requests that look keys up under its RWMutex.                       *)
(*                                                                         *)
(* NewJwtAuth gets a manager by value, starts its updates, and stores a    *)
(* copy: the goroutine updates the first, requests read the second.        *)
(***************************************************************************)
CONSTANTS
    Keys,        \* key ids
    Odd,         \* the keys with an exponent that is not supported
    Tokens       \* bound: requests that are handled at once

VARIABLES
    published,   \* the keys IBM Cloud publishes
    keys,        \* keys[c]: those of a copy of the manager
    leaked,      \* leaked[c]: a request has gone without its read lock
    writer,      \* writer[c]: its write lock is "free", "wanted" or "held"
    fetched,     \* the keys that updateJWKS is about to store
    token        \* token[q]: the key id of a token, and where its request is

jwksVars == <<published, keys, leaked, writer, fetched, token>>

Copies == {"started", "stored"}
NoToken == [kid |-> "none", at |-> "none"]

TypeOK ==
    /\ published \subseteq Keys
    /\ keys \in [Copies -> SUBSET Keys]
    /\ leaked \in [Copies -> BOOLEAN]
    /\ writer \in [Copies -> {"free", "wanted", "held"}]
    /\ fetched \subseteq Keys
    /\ token \in [Tokens -> [kid : Keys, at : {"lock", "locked"}] \cup {NoToken}]

(* Init's once.Do fetches the keys, if it can; then the manager is copied. *)
Init ==
    /\ published \in SUBSET Keys \ {{}}
    /\ \E first \in {published, {}} : keys = [c \in Copies |-> first]
    /\ leaked = [c \in Copies |-> FALSE]
    /\ writer = [c \in Copies |-> "free"]
    /\ fetched = {}
    /\ token = [q \in Tokens |-> NoToken]

(* IBM Cloud replaces its keys.                                            *)
Rotate ==
    /\ published' \in SUBSET Keys \ {{}, published}
    /\ UNCHANGED <<keys, leaked, writer, fetched, token>>

-----------------------------------------------------------------------------
(* The copies: the one that is updated and the one that is read.           *)

(* A fault of Updated: the goroutine and the requests share a manager.     *)
UpdatedIsStored == "stored"

Updated == "started"
Read == "stored"

Readers(c) == IF c = Read THEN {q \in Tokens : token[q].at = "locked"} ELSE {}

(* updateJWKS when the ticker ticks.  Without an answer, or if it has no   *)
(* keys, nothing happens.                                                  *)
Fetch ==
    /\ writer[Updated] = "free"
    /\ fetched' = published
    /\ writer' = [writer EXCEPT ![Updated] = "wanted"]
    /\ UNCHANGED <<published, keys, leaked, token>>

Lock ==
    /\ writer[Updated] = "wanted"
    /\ ~leaked[Updated] /\ Readers(Updated) = {}
    /\ writer' = [writer EXCEPT ![Updated] = "held"]
    /\ keys' = [keys EXCEPT ![Updated] = fetched]
    /\ UNCHANGED <<published, leaked, fetched, token>>

Unlock ==
    /\ writer[Updated] = "held"
    /\ writer' = [writer EXCEPT ![Updated] = "free"]
    /\ UNCHANGED <<published, keys, leaked, fetched, token>>

-----------------------------------------------------------------------------
(* VerifySig, for the token of a request.                                  *)

Arrive(q) ==
    /\ token[q] = NoToken
    /\ \E k \in Keys : token' = [token EXCEPT ![q] = [kid |-> k, at |-> "lock"]]
    /\ UNCHANGED <<published, keys, leaked, writer, fetched>>

(* A writer that waits keeps new readers out.                              *)
RLock(q) ==
    /\ token[q].at = "lock" /\ writer[Read] = "free"
    /\ token' = [token EXCEPT ![q].at = "locked"]
    /\ UNCHANGED <<published, keys, leaked, writer, fetched>>

(* The lock is given back only if the key is there and of the usual kind;  *)
(* either way the handler answers.                                         *)
Verify(q) ==
    /\ token[q].at = "locked"
    /\ leaked' = [leaked EXCEPT ![Read] = @ \/ token[q].kid \notin keys[Read] \ Odd]
    /\ token' = [token EXCEPT ![q] = NoToken]
    /\ UNCHANGED <<published, keys, writer, fetched>>

Next ==
    \/ Rotate \/ Fetch \/ Lock \/ Unlock
    \/ \E q \in Tokens : Arrive(q) \/ RLock(q) \/ Verify(q)

Spec == Init /\ [][Next]_jwksVars

(* Goroutines that can run do.                                             *)
Fairness ==
    /\ WF_jwksVars(Lock) /\ WF_jwksVars(Unlock)
    /\ \A q \in Tokens : WF_jwksVars(RLock(q)) /\ WF_jwksVars(Verify(q))

FairSpec == Spec /\ Fairness
-----------------------------------------------------------------------------
(* Properties.                                                             *)

(* Every token gets its verdict, although tokens with an unknown key leave *)
(* their read lock behind: no writer ever waits for it, because the copy   *)
(* that is updated is not the one that is read.  (For the same reason the  *)
(* keys that are read are those of the start, whatever Rotate does.)       *)
VerdictReached == \A q \in Tokens : token[q].at = "lock" ~> token[q] = NoToken
=============================================================================
