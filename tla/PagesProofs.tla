---------------------------- MODULE PagesProofs ----------------------------
(***************************************************************************)
(* Proofs about the pages' scripts StatusPage, UploadPage and              *)
(* LocationSelect, for any number of requests, and about the whole that    *)
(* MCPages puts together.                                                  *)
(***************************************************************************)
EXTENDS WidgetsProofs, ListPageProofs

(* StatusPage.                                                             *)

(* An answer on its way that says that a build works, or worked, has the   *)
(* link to its log, and every script shows such links.                     *)
LogWithEntry(entry) == entry # Status!Absent /\ entry.status # "Pending" => "log" \in entry.links

StatusInv ==
    /\ Status!TypeOK
    /\ \A u \in Polls, i \in Items : LogWithEntry(poll[u].answer[i])
    /\ \A i \in Items : cell[i].status # "Pending" => "log" \in cell[i].links

LEMMA StatusData ==
    /\ Status!Blank \in Status!Entries
    /\ Status!Nothing \in Status!Answers
    /\ Status!NoPoll \in Status!PollStates
    /\ \A s \in Status!Scripts : "log" \in s.links
BY DEF Status!Blank, Status!Entries, Status!Statuses, Status!Nothing, Status!Answers,
       Status!NoPoll, Status!PollStates, Status!Scripts, Status!HfrdTests, Status!HfrdNetworks,
       Status!IcpNetworks, Status!Ibpv2Networks, Status!IbpNetworks

LEMMA StatusInit == Status!Init => StatusInv
<1> SUFFICES ASSUME Status!Init PROVE StatusInv
  OBVIOUS
<1>1. Status!TypeOK
  BY StatusData, MCPagesAssumption DEF Status!Init, Status!TypeOK
<1>2. \A u \in Polls, i \in Items : poll[u].answer[i] = Status!Absent
  BY DEF Status!Init, Status!NoPoll, Status!Nothing
<1>3. \A i \in Items : cell[i].status = "Pending"
  BY DEF Status!Init, Status!Blank
<1> QED BY <1>1, <1>2, <1>3 DEF StatusInv, LogWithEntry

(* What the server says of an item.                                        *)
LEMMA EntryData ==
    ASSUME Status!TypeOK, NEW i \in Items, NEW reachable \in BOOLEAN
    PROVE  /\ Status!Entry(i, reachable) \in Status!Entries \cup {Status!Absent}
           /\ LogWithEntry(Status!Entry(i, reachable))
<1>1. \A s \in Status!Statuses, l \in SUBSET {"log", "chart"} :
          [status |-> s, links |-> l] \in Status!Entries
  BY DEF Status!Entries
<1>2. Status!Absent.status = "absent"
  BY DEF Status!Absent
<1> QED BY <1>1, <1>2 DEF Status!Entry, Status!Statuses, LogWithEntry

(* A row that is filled gets a status and keeps every link it has.         *)
LEMMA FilledRow ==
    ASSUME StatusInv, NEW i \in Items, NEW entry \in Status!Entries, LogWithEntry(entry),
           entry # Status!Absent
    PROVE  /\ Status!Fill(i, entry) \in Status!Entries
           /\ cell[i].links \subseteq Status!Fill(i, entry).links
           /\ Status!Fill(i, entry).status # "Pending" => "log" \in Status!Fill(i, entry).links
<1>1. cell[i] \in Status!Entries /\ "log" \in script.links
  BY StatusData DEF StatusInv, Status!TypeOK
<1> QED BY <1>1 DEF Status!Fill, Status!Entries, LogWithEntry

LEMMA AnsweredKeeps ==
    ASSUME StatusInv, NEW u \in Polls, Status!Answered(u)
    PROVE  /\ StatusInv'
           /\ \A i \in Items : cell[i].links \subseteq cell'[i].links
<1>1. /\ cell' = [i \in Items |->
                    IF i \in rows /\ poll[u].answer[i] # Status!Absent
                    THEN Status!Fill(i, poll[u].answer[i]) ELSE cell[i]]
      /\ poll' = [poll EXCEPT ![u] = Status!NoPoll]
      /\ UNCHANGED <<script, truth, chart, errors, rows, deleting>>
  BY DEF Status!Answered
<1>2. \A i \in Items : /\ poll[u].answer[i] \in Status!Entries \cup {Status!Absent}
                       /\ LogWithEntry(poll[u].answer[i]) /\ cell[i] \in Status!Entries
  BY DEF StatusInv, Status!TypeOK, Status!PollStates, Status!Answers
<1>3. ASSUME NEW i \in Items
      PROVE  /\ cell'[i] \in Status!Entries /\ cell[i].links \subseteq cell'[i].links
             /\ cell'[i].status # "Pending" => "log" \in cell'[i].links
  <2>1. CASE i \in rows /\ poll[u].answer[i] # Status!Absent
    <3>1. cell'[i] = Status!Fill(i, poll[u].answer[i])
      BY <1>1, <2>1
    <3> QED BY <1>2, <2>1, <3>1, FilledRow
  <2>2. CASE ~(i \in rows /\ poll[u].answer[i] # Status!Absent)
    <3>1. cell'[i] = cell[i]
      BY <1>1, <2>2
    <3> QED BY <1>2, <3>1 DEF StatusInv
  <2> QED BY <2>1, <2>2
<1>4. cell' \in [Items -> Status!Entries]
  BY <1>1, <1>3
<1>5. poll' \in [Polls -> Status!PollStates]
  BY <1>1, StatusData DEF StatusInv, Status!TypeOK
<1>6. \A v \in Polls, i \in Items : LogWithEntry(poll'[v].answer[i])
  <2>1. \A i \in Items : LogWithEntry(Status!NoPoll.answer[i])
    BY DEF Status!NoPoll, Status!Nothing, LogWithEntry
  <2> QED BY <1>1, <2>1 DEF StatusInv, Status!TypeOK
<1> QED BY <1>1, <1>3, <1>4, <1>5, <1>6 DEF StatusInv, Status!TypeOK, LogWithEntry

LEMMA GetItemsKeeps ==
    ASSUME StatusInv, NEW u \in Polls, Status!GetItems(u)
    PROVE  StatusInv'
<1>1. PICK reachable \in [Items -> BOOLEAN] :
          /\ IF \A i \in Items : reachable[i] THEN errors' = errors
             ELSE errors < MaxErrors /\ errors' = errors + 1
          /\ poll' = [poll EXCEPT ![u] =
                 [at |-> "back", answer |-> [i \in Items |-> Status!Entry(i, reachable[i])]]]
  BY DEF Status!GetItems
<1>2. UNCHANGED <<script, truth, chart, rows, cell, deleting>>
  BY DEF Status!GetItems
<1> DEFINE answer == [i \in Items |-> Status!Entry(i, reachable[i])]
<1>3. answer \in Status!Answers /\ \A i \in Items : LogWithEntry(answer[i])
  <2>1. \A i \in Items : /\ Status!Entry(i, reachable[i]) \in Status!Entries \cup {Status!Absent}
                         /\ LogWithEntry(Status!Entry(i, reachable[i]))
    BY EntryData DEF StatusInv
  <2> QED BY <2>1 DEF Status!Answers
<1> HIDE DEF answer
<1>4. [at |-> "back", answer |-> answer] \in Status!PollStates
  BY <1>3 DEF Status!PollStates
<1>5. poll' = [poll EXCEPT ![u] = [at |-> "back", answer |-> answer]]
  BY <1>1 DEF answer
<1>6. poll' \in [Polls -> Status!PollStates]
  BY <1>4, <1>5 DEF StatusInv, Status!TypeOK
<1>7. \A v \in Polls, i \in Items : LogWithEntry(poll'[v].answer[i])
  BY <1>3, <1>5 DEF StatusInv, Status!TypeOK
<1>8. errors' \in 0 .. MaxErrors
  BY <1>1, MCPagesAssumption DEF StatusInv, Status!TypeOK
<1> QED BY <1>2, <1>6, <1>7, <1>8 DEF StatusInv, Status!TypeOK, LogWithEntry

LEMMA StatusNext ==
    StatusInv /\ [Status!Next]_statusVars =>
        StatusInv' /\ \A i \in Items : cell[i].links \subseteq cell'[i].links
<1> SUFFICES ASSUME StatusInv, [Status!Next]_statusVars
             PROVE  StatusInv' /\ \A i \in Items : cell[i].links \subseteq cell'[i].links
  OBVIOUS
<1>1. ASSUME NEW i \in Items, Status!Proceed(i)
      PROVE  StatusInv' /\ cell' = cell
  <2>1. /\ truth[i] \in {"none", "directory", "queued", "running"}
        /\ truth' = [truth EXCEPT ![i] = Status!After[truth[i]]]
        /\ UNCHANGED <<script, chart, errors, rows, cell, poll, deleting>>
    BY <1>1 DEF Status!Proceed, Status!After
  <2>2. Status!After[truth[i]] \in {"directory", "queued", "running", "ended"}
    BY <2>1 DEF Status!After
  <2> QED BY <2>1, <2>2 DEF StatusInv, Status!TypeOK, LogWithEntry
<1>2. ASSUME NEW i \in Items,
             \/ Status!PostChart(i) \/ Status!SendDelete(i)
             \/ Status!DeleteAnswered(i) \/ Status!DeleteFailed(i)
      PROVE  StatusInv' /\ cell' = cell
  BY <1>2 DEF Status!PostChart, Status!SendDelete, Status!DeleteAnswered, Status!DeleteFailed,
              StatusInv, Status!TypeOK, LogWithEntry
<1>3. ASSUME NEW u \in Polls, Status!Poll(u)
      PROVE  StatusInv' /\ cell' = cell
  <2>1. /\ poll' = [poll EXCEPT ![u].at = "asked"]
        /\ UNCHANGED <<script, truth, chart, errors, rows, cell, deleting>>
    BY <1>3 DEF Status!Poll
  <2>2. poll' \in [Polls -> Status!PollStates] /\ \A v \in Polls : poll'[v].answer = poll[v].answer
    BY <2>1 DEF StatusInv, Status!TypeOK, Status!PollStates
  <2> QED BY <2>1, <2>2 DEF StatusInv, Status!TypeOK, LogWithEntry
<1>4. ASSUME NEW u \in Polls, Status!Failed(u)
      PROVE  StatusInv' /\ cell' = cell
  <2>1. /\ poll' = [poll EXCEPT ![u] = Status!NoPoll]
        /\ errors' = errors \/ (errors < MaxErrors /\ errors' = errors + 1)
        /\ UNCHANGED <<script, truth, chart, rows, cell, deleting>>
    BY <1>4 DEF Status!Failed
  <2>2. poll' \in [Polls -> Status!PollStates]
    BY <2>1, StatusData DEF StatusInv, Status!TypeOK
  <2>3. \A v \in Polls, i \in Items : LogWithEntry(poll'[v].answer[i])
    <3>1. \A i \in Items : LogWithEntry(Status!NoPoll.answer[i])
      BY DEF Status!NoPoll, Status!Nothing, LogWithEntry
    <3> QED BY <2>1, <3>1 DEF StatusInv, Status!TypeOK
  <2>4. errors' \in 0 .. MaxErrors
    BY <2>1, MCPagesAssumption DEF StatusInv, Status!TypeOK
  <2> QED BY <2>1, <2>2, <2>3, <2>4 DEF StatusInv, Status!TypeOK, LogWithEntry
<1>5. CASE UNCHANGED statusVars
  BY <1>5 DEF statusVars, StatusInv, Status!TypeOK, LogWithEntry
<1> QED
  BY <1>1, <1>2, <1>3, <1>4, <1>5, GetItemsKeeps, AnsweredKeeps
  DEF Status!Next, Status!GetItems

(* However polls overlap, fail and are answered late: a row that shows a   *)
(* build at work has the link to its log, and no row loses a link.         *)
THEOREM RowsKeepLinks == Status!Spec => []Status!LogWithStatus /\ Status!LinksStay
<1>1. StatusInv => Status!LogWithStatus
  BY DEF StatusInv, Status!LogWithStatus, Status!TypeOK
<1>2. StatusInv /\ [Status!Next]_statusVars
      => [\A i \in Items : cell[i].links \subseteq cell'[i].links]_statusVars
  BY StatusNext
<1> QED
  BY <1>1, <1>2, StatusInit, StatusNext, PTL
  DEF Status!Spec, Status!LinksStay, Status!vars, statusVars

-----------------------------------------------------------------------------
(* UploadPage.                                                             *)

(* Only pages with dialogs send from one: on the others every upload is    *)
(* the one that disables the button.                                       *)
UploadInv ==
    /\ Upload!TypeOK
    /\ Upload!SentOnce
    /\ Upload!LabelIsChoice
    /\ \A x \in Posts : post[x].form = "dialog" => "dialog" \in site.forms
    /\ Upload!EveryAnswerSeen

LEMMA ChoiceData ==
    /\ <<>> \in Upload!Choices
    /\ Upload!NoPost.form = "none"
    /\ \A c \in Upload!Choices : c # <<>> => c[1] \in Files
    /\ \A c \in Upload!Choices : Len(c) = 1 => c[1] \in Files /\ c # <<>>
    /\ Len(<<>>) = 0
BY DEF Upload!Choices, Upload!NoPost

(* A page that has just been loaded, at first or again.                    *)
LEMMA LoadedKeeps ==
    ASSUME site' \in Upload!Sites, Upload!Loaded, aborted' \in BOOLEAN,
           aborted' => "dialog" \in site'.forms
    PROVE  UploadInv'
<1>1. Upload!TypeOK'
  BY ChoiceData DEF Upload!Loaded, Upload!TypeOK, Upload!Names
<1>2. \A x \in Posts : post'[x].form = "none"
  BY ChoiceData DEF Upload!Loaded
<1>3. Upload!SentOnce'
  BY <1>2 DEF Upload!Loaded, Upload!SentOnce
<1>4. \A s \in Upload!Sites : s.forms \subseteq Upload!Forms
  BY DEF Upload!Sites, Upload!Forms, Upload!HfrdForms, Upload!IcpForms, Upload!Ibpv2Forms,
         Upload!CertsForms, Upload!IbpForms
<1>5. Upload!LabelIsChoice'
  BY <1>4, ChoiceData DEF Upload!Loaded, Upload!LabelIsChoice
<1> QED BY <1>1, <1>2, <1>3, <1>5 DEF UploadInv, Upload!EveryAnswerSeen

LEMMA UploadInit == Upload!Init => UploadInv
<1> SUFFICES ASSUME Upload!Init PROVE UploadInv
  OBVIOUS
<1>1. Upload!TypeOK
  BY ChoiceData DEF Upload!Init, Upload!TypeOK, Upload!Names
<1>2. \A x \in Posts : post[x].form = "none"
  BY ChoiceData DEF Upload!Init
<1>3. Upload!SentOnce
  BY <1>2 DEF Upload!Init, Upload!SentOnce
<1>4. \A s \in Upload!Sites : s.forms \subseteq Upload!Forms
  BY DEF Upload!Sites, Upload!Forms, Upload!HfrdForms, Upload!IcpForms, Upload!Ibpv2Forms,
         Upload!CertsForms, Upload!IbpForms
<1>5. Upload!LabelIsChoice
  BY <1>4, ChoiceData DEF Upload!Init, Upload!LabelIsChoice
<1> QED BY <1>1, <1>2, <1>3, <1>5 DEF Upload!Init, UploadInv, Upload!EveryAnswerSeen

LEMMA ChooseKeeps ==
    ASSUME UploadInv, NEW f \in Upload!Forms, NEW files \in Upload!Choices,
           Upload!Choose(f, files)
    PROVE  UploadInv'
<1> DEFINE uploader == IF site.bluemix THEN Upload!UpdateLabel(files, label[f]) ELSE label[f]
           new == IF f \in site.watched THEN Upload!ShowFileName(files, uploader) ELSE uploader
<1>1. /\ chosen' = [chosen EXCEPT ![f] = files] /\ label' = [label EXCEPT ![f] = new]
      /\ UNCHANGED <<site, disabled, post, aborted>> /\ f \in site.forms
  BY DEF Upload!Choose
<1>2. /\ chosen \in [Upload!Forms -> Upload!Choices]
      /\ label \in [Upload!Forms -> Upload!Names]
      /\ site \in Upload!Sites
  BY DEF UploadInv, Upload!TypeOK
<1>3. uploader \in Upload!Names /\ new \in Upload!Names
  BY <1>2, ChoiceData DEF Upload!UpdateLabel, Upload!ShowFileName, Upload!Names
<1>4. f \in site.watched \/ site.bluemix
  BY <1>1, <1>2 DEF Upload!Sites, Upload!HfrdForms, Upload!IcpForms, Upload!Ibpv2Forms,
         Upload!CertsForms, Upload!IbpForms
<1>5. IF f \in site.watched
      THEN new = (IF files = <<>> THEN Upload!NoName ELSE files[1])
      ELSE Len(files) = 1 => new = files[1]
  BY <1>4 DEF Upload!ShowFileName, Upload!UpdateLabel
<1> HIDE DEF uploader, new
<1>6. Upload!LabelIsChoice'
  BY <1>1, <1>2, <1>5 DEF UploadInv, Upload!LabelIsChoice
<1>7. Upload!TypeOK'
  BY <1>1, <1>2, <1>3 DEF UploadInv, Upload!TypeOK
<1> QED
  BY <1>1, <1>6, <1>7 DEF UploadInv, Upload!SentOnce, Upload!EveryAnswerSeen

LEMMA SendKeeps ==
    ASSUME UploadInv, NEW x \in Posts, NEW f \in Upload!Forms, Upload!Send(x, f),
           f = "page" => ~disabled /\ disabled' = TRUE,
           f = "dialog" => "dialog" \in site.forms /\ disabled' = disabled
    PROVE  UploadInv'
<1>1. /\ post[x] = Upload!NoPost
      /\ post' = [post EXCEPT ![x] = [form |-> f, files |-> chosen[f]]]
      /\ UNCHANGED <<site, chosen, label, aborted>>
  BY DEF Upload!Send
<1>2. [form |-> f, files |-> chosen[f]] \in [form : Upload!Forms, files : Upload!Choices]
  BY DEF UploadInv, Upload!TypeOK
<1>3. post' \in [Posts -> [form : Upload!Forms, files : Upload!Choices] \cup {Upload!NoPost}]
  BY <1>1, <1>2 DEF UploadInv, Upload!TypeOK
<1>4. /\ post[x].form = "none" /\ post'[x].form = f
      /\ \A y \in Posts \ {x} : post'[y] = post[y]
  BY <1>1, ChoiceData DEF UploadInv, Upload!TypeOK
<1>5. f \in {"page", "dialog"} /\ disabled' \in BOOLEAN
  BY DEF Upload!Forms, UploadInv, Upload!TypeOK
<1>6. Upload!TypeOK'
  BY <1>1, <1>3, <1>5 DEF UploadInv, Upload!TypeOK
<1>7. Upload!SentOnce'
  BY <1>4, <1>5 DEF UploadInv, Upload!SentOnce
<1>8. \A y \in Posts : post'[y].form = "dialog" => "dialog" \in site'.forms
  BY <1>1, <1>4 DEF UploadInv
<1> QED
  BY <1>1, <1>6, <1>7, <1>8 DEF UploadInv, Upload!LabelIsChoice, Upload!EveryAnswerSeen

LEMMA UploadNext == UploadInv /\ [Upload!Next]_uploadVars => UploadInv'
<1> SUFFICES ASSUME UploadInv, [Upload!Next]_uploadVars PROVE UploadInv'
  OBVIOUS
<1>1. ASSUME NEW x \in Posts, Upload!Multipartformpost(x)
      PROVE  UploadInv'
  BY <1>1, SendKeeps DEF Upload!Multipartformpost, Upload!Forms
<1>2. ASSUME NEW x \in Posts, Upload!Modalpartformpost(x)
      PROVE  UploadInv'
  BY <1>2, SendKeeps DEF Upload!Modalpartformpost, Upload!Forms
<1>3. ASSUME NEW x \in Posts, Upload!Answered(x)
      PROVE  UploadInv'
  <2>1. /\ post[x] # Upload!NoPost /\ site' = site /\ Upload!Loaded
        /\ aborted' = (aborted \/ \E y \in Posts \ {x} : post[y] # Upload!NoPost)
    BY <1>3 DEF Upload!Answered
  <2>2. \A y \in Posts : post[y] # Upload!NoPost => post[y].form \in {"page", "dialog"}
    BY DEF UploadInv, Upload!TypeOK, Upload!Forms
  <2>3. ASSUME NEW y \in Posts \ {x}, post[y] # Upload!NoPost
        PROVE  "dialog" \in site.forms
    BY <2>1, <2>2, <2>3 DEF UploadInv, Upload!SentOnce
  <2>4. aborted' \in BOOLEAN /\ (aborted' => "dialog" \in site'.forms)
    BY <2>1, <2>3 DEF UploadInv, Upload!EveryAnswerSeen
  <2>5. site' \in Upload!Sites
    BY <2>1 DEF UploadInv, Upload!TypeOK
  <2> QED BY <2>1, <2>4, <2>5, LoadedKeeps
<1>4. CASE UNCHANGED uploadVars
  BY <1>4 DEF uploadVars, UploadInv, Upload!TypeOK, Upload!SentOnce, Upload!LabelIsChoice,
              Upload!EveryAnswerSeen
<1> QED BY <1>1, <1>2, <1>3, <1>4, ChooseKeeps DEF Upload!Next

(* Nothing is sent twice by the page's own form, labels name what would be *)
(* sent, and only where there are dialogs can a reload cut off an upload:  *)
(* the part of FormsSendOnce that is not about what happens in the end.    *)
THEOREM FormsSendOnlyOnce ==
    Upload!Spec => [](Upload!SentOnce /\ Upload!LabelIsChoice /\ Upload!EveryAnswerSeen)
<1>1. UploadInv => Upload!SentOnce /\ Upload!LabelIsChoice /\ Upload!EveryAnswerSeen
  BY DEF UploadInv
<1> QED BY <1>1, UploadInit, UploadNext, PTL DEF Upload!Spec, Upload!vars, uploadVars

-----------------------------------------------------------------------------
(* LocationSelect.                                                         *)

(* A request that is under way is the one the next change aborts, asks for *)
(* the environment that is selected, and keeps the button disabled; the    *)
(* locations offered for the enterprise plan are of that environment.      *)
LocationInv ==
    /\ Location!TypeOK
    /\ \A q \in Gets : get[q] # "none" =>
           /\ locReq = q /\ get[q] = env
           /\ ~net /\ plan = "ep"
    /\ plan = "ep" => options \subseteq {env}
    /\ Location!PostedAtOwnLocation

LEMMA LocationInit == Location!Init => LocationInv
BY DEF Location!Init, LocationInv, Location!TypeOK, Location!Plans, Location!PostedAtOwnLocation

(* A change of plan or environment leaves no request under way.            *)
LEMMA AbortEndsAll ==
    ASSUME LocationInv
    PROVE  /\ Location!Abort \in [Gets -> Environments \cup {"none"}]
           /\ \A q \in Gets : Location!Abort[q] = "none"
<1>1. CASE locReq = "null"
  BY <1>1, MCPagesAssumption DEF LocationInv, Location!TypeOK, Location!Abort
<1>2. CASE locReq # "null"
  BY <1>2 DEF LocationInv, Location!TypeOK, Location!Abort
<1> QED BY <1>1, <1>2

LEMMA SelectionKeeps ==
    ASSUME LocationInv, Location!Change
    PROVE  LocationInv'
<1>1. PICK p \in Location!Plans, e \in Environments :
          /\ plan' = p /\ env' = e
          /\ IF p = "ep" THEN Location!AskForLocations(e) ELSE Location!NoLocationsNeeded
  BY DEF Location!Change
<1>2. uid' = uid /\ posted' = posted
  BY DEF Location!Change
<1>3. Location!PostedAtOwnLocation'
  BY <1>2 DEF LocationInv, Location!PostedAtOwnLocation
<1>4. CASE p = "ep"
  <2>1. \/ \E q \in Gets : get' = [Location!Abort EXCEPT ![q] = e] /\ locReq' = q
        \/ get' = Location!Abort /\ locReq' = "null"
    BY <1>1, <1>4 DEF Location!AskForLocations
  <2>2. /\ epShown' = TRUE /\ progress' = TRUE /\ net' = FALSE /\ options' = {}
        /\ failed' \in BOOLEAN
    BY <1>1, <1>4 DEF Location!AskForLocations
  <2>3. get' \in [Gets -> Environments \cup {"none"}]
    BY <2>1, AbortEndsAll
  <2>4. \A r \in Gets : get'[r] # "none" => locReq' = r /\ get'[r] = e
    BY <2>1, AbortEndsAll
  <2>5. Location!TypeOK'
    BY <1>1, <1>2, <2>1, <2>2, <2>3 DEF LocationInv, Location!TypeOK
  <2> QED BY <1>1, <1>3, <1>4, <2>1, <2>2, <2>4, <2>5 DEF LocationInv
<1>5. CASE p # "ep"
  <2>1. /\ epShown' = FALSE /\ net' = TRUE /\ get' = Location!Abort /\ locReq' = "null"
        /\ UNCHANGED <<progress, options, failed>>
    BY <1>1, <1>5 DEF Location!NoLocationsNeeded
  <2>2. Location!TypeOK'
    BY <1>1, <1>2, <2>1, AbortEndsAll DEF LocationInv, Location!TypeOK
  <2> QED BY <1>1, <1>3, <1>5, <2>1, <2>2, AbortEndsAll DEF LocationInv
<1> QED BY <1>4, <1>5

LEMMA SubmitKeeps ==
    ASSUME LocationInv, Location!Submit
    PROVE  LocationInv'
<1>1. PICK loc \in (IF plan = "ep" THEN options ELSE {Location!NoLocation}) :
          posted' = posted \cup {[plan |-> plan, env |-> env, loc |-> loc]}
  BY DEF Location!Submit
<1>2. UNCHANGED <<uid, plan, env, epShown, progress, net, options, get, locReq, failed>>
  BY DEF Location!Submit
<1> DEFINE new == [plan |-> plan, env |-> env, loc |-> loc]
<1>3. loc = IF plan = "ep" THEN env ELSE Location!NoLocation
  BY <1>1 DEF LocationInv
<1>4. new \in Location!Networks /\ new.loc = (IF new.plan = "ep" THEN new.env ELSE Location!NoLocation)
  BY <1>3 DEF LocationInv, Location!TypeOK, Location!Networks
<1>5. posted' = posted \cup {new}
  BY <1>1
<1> HIDE DEF new
<1>6. Location!PostedAtOwnLocation'
  BY <1>4, <1>5 DEF LocationInv, Location!PostedAtOwnLocation
<1>7. Location!TypeOK'
  BY <1>2, <1>4, <1>5 DEF LocationInv, Location!TypeOK
<1> QED BY <1>2, <1>6, <1>7 DEF LocationInv

LEMMA LocationNext == LocationInv /\ [Location!Next]_locationVars => LocationInv'
<1> SUFFICES ASSUME LocationInv, [Location!Next]_locationVars PROVE LocationInv'
  OBVIOUS
<1> USE DEF LocationInv, Location!TypeOK, Location!PostedAtOwnLocation
<1>1. ASSUME NEW q \in Gets, Location!Locations(q)
      PROVE  LocationInv'
  <2>1. /\ get[q] # "none" /\ options' \in {options, options \cup {get[q]}}
        /\ get' = [get EXCEPT ![q] = "none"] /\ progress' = FALSE /\ net' = TRUE
        /\ UNCHANGED <<uid, plan, env, epShown, locReq, failed, posted>>
    BY <1>1 DEF Location!Locations
  <2>2. \A r \in Gets : get'[r] = "none"
    BY <2>1
  <2>3. options' \subseteq Environments /\ (plan = "ep" => options' \subseteq {env})
    BY <2>1
  <2> QED BY <2>1, <2>2, <2>3
<1>2. ASSUME NEW q \in Gets, Location!NoLocations(q)
      PROVE  LocationInv'
  BY <1>2 DEF Location!NoLocations
<1>3. CASE UNCHANGED locationVars
  BY <1>3 DEF locationVars
<1> QED BY <1>1, <1>2, <1>3, SelectionKeeps, SubmitKeeps DEF Location!Next

(* Whatever is changed while locations are on their way, networks are made *)
(* where they belong, and the button waits for the one request there is:   *)
(* the part of LocationsFollowChoice that is not about the end.            *)
THEOREM NetworksAtOwnLocation ==
    Location!Spec => [](Location!PostedAtOwnLocation /\ Location!ButtonWaits)
<1>1. LocationInv => Location!PostedAtOwnLocation /\ Location!ButtonWaits
  BY DEF LocationInv, Location!ButtonWaits
<1> QED
  BY <1>1, LocationInit, LocationNext, PTL DEF Location!Spec, Location!vars, locationVars

-----------------------------------------------------------------------------
(* All of them.  A part that is not loaded satisfies what is said of it,   *)
(* or keeps the values it has.                                             *)
PagesInv ==
    /\ part = "list" => ListInv
    /\ part # "list" => timers = 0 /\ Busy = Calls /\ shown.done = {}
    /\ part = "status" => StatusInv
    /\ part = "location" => LocationInv
    /\ UploadInv
    /\ ModalInv /\ TabsInv /\ MenusInv /\ IconsInv

LEMMA PagesInvInit == PagesInit => PagesInv
<1> SUFFICES ASSUME PagesInit PROVE PagesInv
  OBVIOUS
<1>1. /\ part = "list" => ListInv
      /\ part # "list" => timers = 0 /\ Busy = Calls /\ shown.done = {}
  <2>1. [Idle EXCEPT !.at = "off"].at = "off"
    BY DEF Idle
  <2>2. ListOff => timers = 0 /\ Busy = Calls /\ shown.done = {}
    BY <2>1 DEF ListOff, Busy
  <2> QED BY <2>2, ListInit DEF PagesInit
<1>2. /\ part = "status" => StatusInv
      /\ part = "location" => LocationInv
  BY StatusInit, LocationInit DEF PagesInit
<1>3. UploadInv
  <2>1. UploadOff => Upload!Init
    BY DEF UploadOff, Upload!Init, Upload!Sites
  <2> QED BY <2>1, UploadInit DEF PagesInit
<1>4. ModalInv
  <2>1. (DialogsOff \/ Dialogs!Init) => ModalInv
    BY ModalInit DEF DialogsOff, Dialogs!Init
  <2> QED BY <2>1 DEF PagesInit
<1>5. TabsInv
  <2>1. TabsOff => Switch!Init
    <3> SUFFICES ASSUME TabsOff PROVE Switch!Init
      OBVIOUS
    <3>1. target \in [Switch!Buttons -> SUBSET Panels] /\ 0 \in 0 .. NTabs
      BY MCPagesAssumption DEF TabsOff
    <3> QED BY <3>1 DEF TabsOff, Switch!Init
  <2> QED BY <2>1, TabsInit DEF PagesInit
<1>6. MenusInv
  <2>1. MenusOff => Drop!Init
    BY DEF MenusOff, Drop!Init
  <2> QED BY <2>1, MenusInit DEF PagesInit
<1>7. IconsInv
  <2>1. ASSUME IconsOff PROVE IconsInv
    <3>1. Loading = {}
      BY <2>1 DEF IconsOff, Icons!Bases, Loading
    <3>2. Icons!TypeOK
      <4>1. 0 \in 0 .. Icons!Cardinality(SvgFiles)
        BY FilesCount, SameCount
      <4>2. base \in [Icons!Uses -> Icons!Bases] /\ size \in [Icons!Uses -> Icons!Sizes]
        BY <2>1 DEF IconsOff, Icons!Bases, Icons!Sizes
      <4>3. cache \in [Icons!Bases -> {"undefined", "true"} \cup Icons!Requests]
        BY <2>1 DEF IconsOff
      <4>4. inProgress = 0 /\ observers = 1 /\ timer = FALSE /\ updates = {} /\ abandoned = FALSE
        BY <2>1 DEF IconsOff
      <4> QED BY <4>1, <4>2, <4>3, <4>4 DEF Icons!TypeOK
    <3>3. Cardinality(Loading) = 0
      BY <3>1, FS_EmptySet
    <3>4. inProgress = 0 /\ observers = 1
      BY <2>1 DEF IconsOff
    <3> QED BY <3>2, <3>3, <3>4 DEF IconsInv, Icons!ObservedOnce
  <2> QED BY <2>1, IconsInit DEF PagesInit
<1> QED BY <1>1, <1>2, <1>3, <1>4, <1>5, <1>6, <1>7 DEF PagesInv

LEMMA PagesInvNext == PagesInv /\ [PagesNext]_pagesVars => PagesInv'
<1> SUFFICES ASSUME PagesInv, [PagesNext]_pagesVars PROVE PagesInv'
  OBVIOUS
<1>1. part' = part
  BY DEF PagesNext, pagesVars
<1>2. /\ [Next]_vars /\ (part # "list" => UNCHANGED vars)
      /\ [Status!Next]_statusVars /\ [Location!Next]_locationVars
      /\ [Upload!Next]_uploadVars /\ [Dialogs!Next]_modalVars
      /\ [Icons!Next]_svgVars /\ [Switch!Next]_tabsVars /\ [Drop!Next]_menusVars
  BY DEF PagesNext, pagesVars, listVars
<1>3. /\ part' = "list" => ListInv'
      /\ part' # "list" => timers' = 0 /\ Busy' = Calls /\ shown'.done = {}
  BY <1>1, <1>2, ListNext DEF PagesInv, vars, pageVars, Busy
<1>4. (part' = "status" => StatusInv') /\ (part' = "location" => LocationInv')
  BY <1>1, <1>2, StatusNext, LocationNext DEF PagesInv
<1>5. UploadInv' /\ ModalInv' /\ TabsInv' /\ MenusInv' /\ IconsInv'
  BY <1>2, UploadNext, ModalNext, TabsNext, MenusNext, IconsNext DEF PagesInv
<1> QED BY <1>3, <1>4, <1>5 DEF PagesInv

(* Whichever part is at work, every part is well-typed.                    *)
THEOREM PagesTypes == PagesSpec => []PagesTypeOK
<1>1. PagesInv => PagesTypeOK
  BY DEF PagesInv, PagesTypeOK, ListInv, PollInv, StatusInv, LocationInv, UploadInv, ModalInv,
         TabsInv, MenusInv, IconsInv
<1> QED BY <1>1, PagesInvInit, PagesInvNext, PTL DEF PagesSpec

(* Whatever is clicked and pressed, with any stylesheet: the lock of the   *)
(* page is released with the last dialog, and every change of a dialog is  *)
(* announced once; a tab or a button that the script has activated shows   *)
(* its own panels; one overflow menu is open, and dropdowns show what is   *)
(* selected.                                                               *)
THEOREM WidgetsStayConsistent == PagesSpec => [](DialogsConsistent /\ WidgetsConsistent)
<1>1. PagesInv => DialogsConsistent /\ WidgetsConsistent
  BY ModalConsistent, MenusAgree
  DEF PagesInv, DialogsConsistent, WidgetsConsistent, TabsInv
<1> QED BY <1>1, PagesInvInit, PagesInvNext, PTL DEF PagesSpec

(* And what is proved of the other parts one by one holds of the whole     *)
(* that TLC checks.                                                        *)
THEOREM PagesKeepTheirPromises ==
    PagesSpec => [](PollingIsOneChain /\ NeverInBothLists /\ PageIsWatched)
<1>1. PagesInv => PollingIsOneChain /\ NeverInBothLists
  <2>1. part = "list" /\ PagesInv => PollingIsOneChain /\ NeverInBothLists
    BY DEF PagesInv, ListInv, PollInv, PollingIsOneChain, Busy, NeverInBothLists
  <2>2. part # "list" /\ PagesInv => PollingIsOneChain /\ NeverInBothLists
    BY ListPageAssumption DEF PagesInv, PollingIsOneChain, NeverInBothLists
  <2> QED BY <2>1, <2>2
<1>2. PagesInv => PageIsWatched
  BY IconsWatched DEF PagesInv
<1> QED BY <1>1, <1>2, PagesInvInit, PagesInvNext, PTL DEF PagesSpec
=============================================================================
