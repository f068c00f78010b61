----------------------------- MODULE UploadPage -----------------------------
(***************************************************************************)
(* The forms by which users upload files: multipartformpost and            *)
(* modalpartformpost, the handlers that show the chosen file's name        *)
(* (hfrd.js, icp.js, ibpv2.js, ibp.js, ibp/existednetwork.js), and         *)
(* FileUploader of bluemix-components.js, which listens to the same inputs.*)
(*                                                                         *)
(* A page has one form of its own and, in hfrd.js, forms in dialogs.  Each *)
(* answer, good or bad, ends with an alert and a reload of the page.       *)
(***************************************************************************)
EXTENDS Naturals, Sequences

CONSTANTS
    Files,    \* names of files
    Posts     \* bound: uploads under way at once

VARIABLES
    site,      \* the script of the page, with what belongs to it
    chosen,    \* chosen[f]: the files in the input of form f
    label,     \* label[f]: the text of the .file-label next to it
    disabled,  \* the button of the page's own form is disabled
    post,      \* post[x]: the form and files of an upload in flight
    aborted    \* a reload has cut off an upload whose answer was to come

vars == <<site, chosen, label, disabled, post, aborted>>

-----------------------------------------------------------------------------
(* The scripts: the forms of a page, those whose input the ready handler   *)
(* watches, and whether the page loads bluemix-components.js.              *)
HfrdForms == [forms |-> {"page", "dialog"}, watched |-> {"page"}, bluemix |-> TRUE]
IcpForms == [forms |-> {"page"}, watched |-> {"page"}, bluemix |-> TRUE]
Ibpv2Forms == [forms |-> {"page"}, watched |-> {"page"}, bluemix |-> TRUE]
CertsForms == [forms |-> {"page"}, watched |-> {"page"}, bluemix |-> FALSE]

(* No template loads ibp.js; its forms are those of icp.js.                *)
IbpForms == [forms |-> {"page"}, watched |-> {"page"}, bluemix |-> TRUE]

Sites == {HfrdForms, IcpForms, Ibpv2Forms, CertsForms, IbpForms}
Forms == {"page", "dialog"}

(* A choice of the user: none, one or two files, since inputs are multiple.*)
Choices == {c \in {<<>>} \cup {<<a>> : a \in Files} \cup (Files \X Files) :
                Len(c) = 2 => c[1] # c[2]}
NoName == "no name"
Names == Files \cup {NoName}
NoPost == [form |-> "none", files |-> <<>>]

TypeOK ==
    /\ site \in Sites
    /\ chosen \in [Forms -> Choices]
    /\ label \in [Forms -> Names]
    /\ disabled \in BOOLEAN
    /\ post \in [Posts -> [form : Forms, files : Choices] \cup {NoPost}]
    /\ aborted \in BOOLEAN

Loaded ==
    /\ chosen' = [f \in Forms |-> <<>>]
    /\ label' = [f \in Forms |-> NoName]
    /\ disabled' = FALSE
    /\ post' = [x \in Posts |-> NoPost]

Init ==
    /\ site \in Sites
    /\ chosen = [f \in Forms |-> <<>>]
    /\ label = [f \in Forms |-> NoName]
    /\ disabled = FALSE
    /\ post = [x \in Posts |-> NoPost]
    /\ aborted = FALSE

-----------------------------------------------------------------------------
(* Choosing files.                                                         *)

(* FileUploader.updateLabel: no input has a caption for several files, and *)
(* an empty name does not replace the label.                               *)
UpdateLabel(files, old) == IF Len(files) = 1 THEN files[1] ELSE old

(* The ready handler: the value of the input, which is its first file.     *)
ShowFileName(files, old) == IF files = <<>> THEN NoName ELSE files[1]

(* FileUploader listens from DOMContentLoaded, the script's handler comes  *)
(* after it.                                                               *)
Choose(f, files) ==
    /\ f \in site.forms
    /\ chosen' = [chosen EXCEPT ![f] = files]
    /\ LET uploader == IF site.bluemix THEN UpdateLabel(files, label[f]) ELSE label[f]
       IN  label' = [label EXCEPT ![f] =
                        IF f \in site.watched THEN ShowFileName(files, uploader)
                                              ELSE uploader]
    /\ UNCHANGED <<site, disabled, post, aborted>>

-----------------------------------------------------------------------------
(* Uploading.  FormData takes the files that are chosen at that time.      *)

Send(x, f) ==
    /\ post[x] = NoPost
    /\ post' = [post EXCEPT ![x] = [form |-> f, files |-> chosen[f]]]
    /\ UNCHANGED <<site, chosen, label, aborted>>

(* A fault of Multipartformpost: the button stays enabled.                 *)
MultipartformpostAgain(x) ==
    /\ ~disabled
    /\ Send(x, "page")
    /\ UNCHANGED disabled

Multipartformpost(x) ==
    /\ ~disabled
    /\ disabled' = TRUE
    /\ Send(x, "page")

Modalpartformpost(x) ==
    /\ "dialog" \in site.forms
    /\ Send(x, "dialog")
    /\ UNCHANGED disabled

(* success, error, and the timeout of ten minutes: button, alert, reload.  *)
(* The reload aborts every other upload of the page.                       *)
Answered(x) ==
    /\ post[x] # NoPost
    /\ aborted' = (aborted \/ \E y \in Posts \ {x} : post[y] # NoPost)
    /\ Loaded
    /\ UNCHANGED site

Next ==
    \/ \E f \in Forms, files \in Choices : Choose(f, files)
    \/ \E x \in Posts : Multipartformpost(x) \/ Modalpartformpost(x) \/ Answered(x)

Spec == Init /\ [][Next]_vars

(* Every upload is answered, if only by its timeout.                       *)
Fairness == WF_vars(\E x \in Posts : Answered(x))

FairSpec == Spec /\ Fairness
-----------------------------------------------------------------------------
(* Properties.                                                             *)

(* The page's own form cannot be sent twice: its button is disabled        *)
(* exactly while its upload is under way, reloads and dialogs included.    *)
SentOnce ==
    LET sending == {x \in Posts : post[x].form = "page"}
    IN  /\ disabled <=> sending # {}
        /\ \A x, y \in sending : x = y

(* The button does not stay disabled.                                      *)
ButtonComesBack == disabled ~> ~disabled

(* The label of a watched input names the file that would be sent (the     *)
(* first of several) or none; an input that only FileUploader watches is   *)
(* right about single files.                                               *)
LabelIsChoice ==
    \A f \in site.forms :
        IF f \in site.watched
        THEN label[f] = (IF chosen[f] = <<>> THEN NoName ELSE chosen[f][1])
        ELSE Len(chosen[f]) = 1 => label[f] = chosen[f][1]

(* On a page without dialogs the user sees the answer to every upload.     *)
EveryAnswerSeen == aborted => "dialog" \in site.forms

(* In short: what is chosen is sent once, to its end, and then the form is *)
(* ready again.                                                            *)
FormsSendOnce == [](SentOnce /\ LabelIsChoice /\ EveryAnswerSeen) /\ ButtonComesBack
=============================================================================
