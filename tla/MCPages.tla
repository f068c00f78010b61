------------------------------ MODULE MCPages ------------------------------
(***************************************************************************)
(* The scripts of hfrd's pages, on small instances for TLC.  They share no *)
(* variable that matters to more than one of them, so that a behavior is   *)
(* one of the parts at work; the variables of the others keep the values   *)
(* of a part that is not loaded.                                           *)
(***************************************************************************)
EXTENDS ListPage, FiniteSets

CONSTANTS Items, Polls, MaxErrors, Files, Posts, Environments, Served, Gets,
          Modals, Stylesheets, MaxWaiting, N, SvgFiles,
          NTabs, Panels, Overflows, Dropdowns, Options, NoOption

(* Tabs: there is a button; Menus: the pages give no element both a        *)
(* data-overflow-menu and a data-dropdown; SvgUse: a page refers to        *)
(* finitely many files; StatusPage: the bound is a number; LocationSelect: *)
(* a request is not null.                                                  *)
ASSUME MCPagesAssumption ==
    /\ NTabs \in Nat \ {0}
    /\ Overflows \cap Dropdowns = {}
    /\ IsFiniteSet(SvgFiles)
    /\ MaxErrors \in Nat
    /\ "null" \notin Gets

VARIABLES part, script, truth, chart, errors, rows, cell, poll, deleting,
          site, chosen, label, disabled, post, aborted,
          uid, plan, env, epShown, progress, net, options, get, locReq, failed, posted,
          animated, created, visible, noScroll, pending, last, balance,
          base, size, cache, inProgress, observers, timer, updates, abandoned,
          kind, target, ready, active, activated, panels, text, menu, narrow,
          made, open, picked, value

Status == INSTANCE StatusPage
Upload == INSTANCE UploadPage
Location == INSTANCE LocationSelect
Dialogs == INSTANCE Modal
Icons == INSTANCE SvgUse
Switch == INSTANCE Tabs
Drop == INSTANCE Menus

statusVars == <<script, truth, chart, errors, rows, cell, poll, deleting>>
uploadVars == <<site, chosen, label, disabled, post, aborted>>
locationVars == <<uid, plan, env, epShown, progress, net, options, get, locReq,
                  failed, posted>>
modalVars == <<animated, created, visible, noScroll, pending, last, balance>>
svgVars == <<base, size, cache, inProgress, observers, timer, updates, abandoned>>
tabsVars == <<kind, target, ready, active, activated, panels, text, menu, narrow>>
menusVars == <<made, open, picked, value>>
listVars == vars
pagesVars == <<part, listVars, statusVars, uploadVars, locationVars, modalVars,
               svgVars, tabsVars, menusVars>>

Parts == {"list", "status", "upload", "location", "dialogs", "icons", "tabs", "menus"}

(* A part that is not loaded: nothing of it is under way.                  *)
ListOff ==
    /\ Catalog!Init /\ page = "networks"
    /\ call = [u \in Calls |-> [Idle EXCEPT !.at = "off"]]
    /\ timers = 0 /\ tick = FALSE
    /\ sent = 0 /\ requests = 0 /\ failures = 0
    /\ shown = [done |-> {}, pending |-> {}]

StatusOff ==
    /\ script = Status!HfrdTests /\ truth = [i \in Items |-> "none"]
    /\ chart = {} /\ errors = 0 /\ rows = {} /\ cell = [i \in Items |-> Status!Blank]
    /\ poll = [u \in Polls |-> [at |-> "off"]] /\ deleting = {}

UploadOff ==
    /\ site = Upload!CertsForms /\ chosen = [f \in Upload!Forms |-> <<>>]
    /\ label = [f \in Upload!Forms |-> Upload!NoName] /\ disabled = FALSE
    /\ post = [x \in Posts |-> Upload!NoPost] /\ aborted = FALSE

LocationOff ==
    /\ uid = FALSE /\ plan = "sp" /\ env = "off"
    /\ epShown = FALSE /\ progress = FALSE /\ net = TRUE /\ options = {}
    /\ get = [q \in Gets |-> "none"] /\ locReq = "null" /\ failed = FALSE
    /\ posted = {}

DialogsOff ==
    /\ animated = {} /\ created = {} /\ visible = {} /\ noScroll = FALSE
    /\ pending = [m \in Modals |-> <<>>]
    /\ last = [m \in Modals |-> "modal-hidden"]
    /\ balance = [m \in Modals |-> 0]

IconsOff ==
    /\ base = [i \in Icons!Uses |-> ""] /\ size = [i \in Icons!Uses |-> "hidden"]
    /\ cache = [b \in Icons!Bases |-> "undefined"]
    /\ inProgress = 0 /\ observers = 1 /\ timer = FALSE
    /\ updates = {} /\ abandoned = FALSE

TabsOff ==
    /\ kind = "switcher" /\ target = [t \in Switch!Buttons |-> {}]
    /\ ready = FALSE /\ active = 0 /\ activated = 0 /\ panels = {} /\ text = 0
    /\ menu = FALSE /\ narrow = FALSE

MenusOff ==
    /\ made = {} /\ open = {} /\ picked = [d \in Dropdowns |-> {}]
    /\ value = [d \in Dropdowns |-> NoOption]

PagesInit ==
    /\ part \in Parts
    /\ IF part = "list" THEN Init ELSE ListOff
    /\ IF part = "status" THEN Status!Init ELSE StatusOff
    /\ IF part = "upload" THEN Upload!Init ELSE UploadOff
    /\ IF part = "location" THEN Location!Init ELSE LocationOff
    /\ IF part = "dialogs" THEN Dialogs!Init ELSE DialogsOff
    /\ IF part = "icons" THEN Icons!Init ELSE IconsOff
    /\ IF part = "tabs" THEN Switch!Init ELSE TabsOff
    /\ IF part = "menus" THEN Drop!Init ELSE MenusOff

PagesNext ==
    /\ UNCHANGED part
    /\ IF part = "list" THEN Next ELSE UNCHANGED listVars
    /\ IF part = "status" THEN Status!Next ELSE UNCHANGED statusVars
    /\ IF part = "upload" THEN Upload!Next ELSE UNCHANGED uploadVars
    /\ IF part = "location" THEN Location!Next ELSE UNCHANGED locationVars
    /\ IF part = "dialogs" THEN Dialogs!Next ELSE UNCHANGED modalVars
    /\ IF part = "icons" THEN Icons!Next ELSE UNCHANGED svgVars
    /\ IF part = "tabs" THEN Switch!Next ELSE UNCHANGED tabsVars
    /\ IF part = "menus" THEN Drop!Next ELSE UNCHANGED menusVars

PagesSpec ==
    /\ PagesInit /\ [][PagesNext]_pagesVars
    /\ Fairness /\ Status!Fairness /\ Upload!Fairness /\ Location!Fairness

-----------------------------------------------------------------------------
(* Properties; PollingIsOneChain, NeverInBothLists and PageCatchesUp are   *)
(* those of ListPage.                                                      *)

(* The types of every part.                                                *)
PagesTypeOK ==
    /\ part = "list" => TypeOK
    /\ part = "status" => Status!TypeOK
    /\ Upload!TypeOK
    /\ part = "location" => Location!TypeOK
    /\ Dialogs!TypeOK
    /\ Icons!TypeOK
    /\ Switch!TypeOK
    /\ Drop!TypeOK

(* StatusPage: rows follow their requests although polls overlap.          *)
RowsFollowRequests == Status!RowsFollowRequests

(* UploadPage: what is chosen is sent once, to its end.                    *)
FormsSendOnce == Upload!FormsSendOnce

(* LocationSelect: the locations offered are those of the environment.     *)
LocationsFollowChoice == Location!LocationsFollowChoice

(* Modal: the lock of the page and the events agree with the dialogs.      *)
DialogsConsistent == Dialogs!DialogsConsistent

(* Tabs: the panels shown agree with the choices made; Menus: one overflow *)
(* menu is open, dropdowns show what is selected.                          *)
WidgetsConsistent ==
    /\ Switch!TabsConsistent
    /\ Drop!MenusConsistent

(* SvgUse: the page is watched once, and again after every check.          *)
PageIsWatched == Icons!PageIsWatched
=============================================================================
