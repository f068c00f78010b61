---------------------------- MODULE JoinChannel ----------------------------
(***************************************************************************)
(* modules/nodesdk/scripts/joinChannel.js: a script that joins a peer to a *)
(* channel.  It reads a configuration and a connection profile, and throws *)
(* when something is missing; then a chain of promises asks the orderer    *)
(* for the genesis block and the peer to join.  What fails there is only   *)
(* logged.  Fabric's client library, orderer and peer are external.  The   *)
(* script may be run again.                                                *)
(***************************************************************************)
VARIABLES
    given,      \* what the script finds in files
    at,         \* the step of the script
    contacted,  \* whom this run has sent requests: "orderer", "peer"
    said,       \* what it logged at its end
    exit,       \* its exit code
    joined      \* the peer has joined the channel

joinVars == <<given, at, contacted, said, exit, joined>>

Paths == {"absolute", "relative", "home"}
Files == [config   : BOOLEAN,  \* the configuration, at a path of its own
          dir      : Paths,    \* how the directory of profiles is given
          profiles : BOOLEAN,  \* it has one for the organisation
          remote   : BOOLEAN,  \* isRemote == 1
          cert     : Paths \cup {"missing"},  \* the certificate files
          nodes    : BOOLEAN,  \* the profile has the peer and the orderer
          admin    : BOOLEAN]  \* the store has an enrolled admin

Steps == {"config", "profile", "peer", "nodes", "user", "block", "join", "ended"}

TypeOK ==
    /\ given \in Files
    /\ at \in Steps
    /\ contacted \subseteq {"orderer", "peer"}
    /\ said \in {"nothing", "joined", "error"}
    /\ exit \in {"running", "0", "1"}
    /\ joined \in BOOLEAN

Started ==
    /\ at = "config" /\ contacted = {}
    /\ said = "nothing" /\ exit = "running"

Init == given \in Files /\ Started /\ joined \in BOOLEAN

-----------------------------------------------------------------------------
(* What runs before the promises.                                          *)

Goto(step) == at' = step /\ UNCHANGED <<said, exit>>

Throw == at' = "ended" /\ exit' = "1" /\ UNCHANGED said

(* The test for "~/" compares two characters with one: a path under the    *)
(* home directory is looked for under the working directory.               *)
Resolved(path) == path \in {"absolute", "relative"}

(* Without the file, config has no Channels.                               *)
ReadConfig ==
    /\ at = "config"
    /\ IF given.config THEN Goto("profile") ELSE Throw
    /\ UNCHANGED <<given, contacted, joined>>

(* The first profile of the organisation is taken.                         *)
ReadProfile ==
    /\ at = "profile"
    /\ IF Resolved(given.dir) /\ given.profiles THEN Goto("peer") ELSE Throw
    /\ UNCHANGED <<given, contacted, joined>>

(* Only a remote peer needs the certificate files.                         *)
MakePeer ==
    /\ at = "peer"
    /\ IF given.remote => Resolved(given.cert) THEN Goto("nodes") ELSE Throw
    /\ UNCHANGED <<given, contacted, joined>>

MakeOrderer ==
    /\ at = "nodes"
    /\ IF given.nodes THEN Goto("user") ELSE Throw
    /\ UNCHANGED <<given, contacted, joined>>

-----------------------------------------------------------------------------
(* The chain of promises.                                                  *)

End(message) == at' = "ended" /\ said' = message /\ exit' = "0"

GetUser ==
    /\ at = "user"
    /\ IF given.admin THEN Goto("block") ELSE End("error")
    /\ UNCHANGED <<given, contacted, joined>>

GetGenesisBlock ==
    /\ at = "block"
    /\ contacted' = contacted \cup {"orderer"}
    /\ Goto("join") \/ End("error")
    /\ UNCHANGED <<given, joined>>

(* A fault of Report: any answer is taken for a success.                   *)
ReportAny(status) == End(IF status = "lost" THEN "error" ELSE "joined")

Report(status) == End(IF status = "200" THEN "joined" ELSE "error")

(* A peer that has joined before refuses; an answer may be lost, or be     *)
(* given up, before or after the peer has joined.                          *)
SendJoin ==
    /\ at = "join"
    /\ contacted' = contacted \cup {"peer"}
    /\ \/ ~joined /\ joined' = TRUE /\ Report("200")
       \/ UNCHANGED joined /\ Report("500")
       \/ joined' \in {joined, TRUE} /\ Report("lost")
    /\ UNCHANGED given

(* The user runs it again, perhaps with other files.                       *)
Rerun ==
    /\ at = "ended"
    /\ given' \in Files
    /\ at' = "config" /\ contacted' = {}
    /\ said' = "nothing" /\ exit' = "running"
    /\ UNCHANGED joined

Next ==
    \/ ReadConfig \/ ReadProfile \/ MakePeer \/ MakeOrderer
    \/ GetUser \/ GetGenesisBlock \/ SendJoin
    \/ Rerun

Spec == Init /\ [][Next]_joinVars
-----------------------------------------------------------------------------
(* Properties.                                                             *)

(* Whoever reads the log is not deceived: a run that says that the peer    *)
(* has joined is right, one that exits with an error has asked nobody for  *)
(* anything, and one that ends with 0 has said how it went.  (An error is  *)
(* no proof of the contrary: a lost answer, or a second run, reports one   *)
(* although the peer has joined; and the exit code is 0 all the same.)     *)
LogIsTrue ==
    /\ said = "joined" => joined
    /\ exit = "1" => contacted = {}
    /\ exit = "0" => said # "nothing"
=============================================================================
