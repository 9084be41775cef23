----------------------------- MODULE AdminConfig -----------------------------
(***************************************************************************)
(* Changing the configuration of a running frpc from its web page: the pages *)
(* ClientConfigure.vue and Overview.vue in several browser tabs, the admin   *)
(* api (client/admin_api.go), and the service that hands the configuration   *)
(* to its control and to the controls of later logins (client/service.go,    *)
(* client/control.go).                                                       *)
(*                                                                          *)
(* Upload sends the text with PUT /api/config and, when that is answered,    *)
(* GET /api/reload.  Requests of all tabs are served concurrently.  A        *)
(* configuration is the text it was loaded from; an empty file loads, as a   *)
(* configuration without proxies and visitors.  Every login makes a control  *)
(* of its own; the controls are numbered in the order in which they are made. *)
(***************************************************************************)
EXTENDS Naturals, Sequences, FiniteSets

CONSTANTS
    Tab,
    Valid,        \* texts that load
    Broken,       \* texts that LoadClientConfig or validation refuses
    ErrorText,    \* the body of an answer with code 400
    Empty,        \* ''
    ProxiesOf(_),  \* the proxies of a configuration, records with name and type
    VisitorsOf(_), \* its visitors
    First,        \* what frpc was started with
    MaxOps,       \* bound: requests and uploads
    MaxInFlight,  \* bound: of them at the same time
    MaxLosses     \* bound: control connections that break

ASSUME TextsAssumption ==
    /\ First \in Valid /\ MaxOps \in Nat /\ MaxInFlight \in Nat /\ MaxLosses \in Nat
    /\ Empty \notin Valid \cup Broken \cup {ErrorText}
    /\ ErrorText \notin Valid \cup Broken
    /\ Valid \cap Broken = {}
    /\ ProxiesOf(Empty) = {} /\ VisitorsOf(Empty) = {}

Text == Valid \cup Broken \cup {ErrorText, Empty}
Loads(text) == text \in Valid \cup {Empty}

VARIABLES
    file,      \* the configuration file
    cfgs,      \* svr.proxyCfgs and svr.visitorCfgs
    ctls,      \* the controls: pxy is what pm.proxies has, vis what vm.cfgs has, open the
               \* visitors that run, stage how far its worker is with closing it
    cur,       \* svr.ctl: its number, 0 before the first login
    link,      \* what loginFunc does next, "idle" outside of it
    copied,    \* the configuration that it starts its control with
    losses,
    page,      \* the page of each tab
    mounted,   \* number of requests when the page was mounted
    textarea,  \* its text
    box,       \* the confirmation is open
    status,    \* rows of the overview
    ops        \* requests and uploads, in the order in which they were made

server == <<file, cfgs, ctls, cur>>
control == <<link, copied, losses>>
tabs == <<page, mounted, textarea, box, status>>
vars == <<server, control, tabs, ops>>

Init ==
    /\ file = First /\ cfgs = First /\ ctls = << >> /\ cur = 0
    /\ link = "idle" /\ copied = First /\ losses = 0
    /\ page = [t \in Tab |-> "none"] /\ mounted = [t \in Tab |-> 0]
    /\ textarea = [t \in Tab |-> Empty] /\ box = [t \in Tab |-> FALSE]
    /\ status = [t \in Tab |-> {}]
    /\ ops = << >>

---------------------------------------------------------------------------
(* Requests.  at is where a request or upload is; msg is the message that     *)
(* ends an upload, which may come before frpc is done with it; on is the      *)
(* control that its reload updates.  put, load and alone are ghosts: what      *)
(* became of the two requests, and that no other upload and no login was       *)
(* under way at the same time.                                                *)

Message == {"none", "empty", "success", "putFailed", "reloadFailed"}
Uploads == {i \in DOMAIN ops : ops[i].kind = "upload"}
Served(i) == ops[i].at \in {"dropped", "putAnswered", "reloadAnswered", "done"}
Active == {i \in Uploads : ops[i].msg = "none" \/ ~Served(i)}

InFlight == Active \cup {i \in DOMAIN ops \ Uploads : ops[i].at # "done"}
MayAsk == Len(ops) < MaxOps /\ Cardinality(InFlight) < MaxInFlight

Op(t, kind, text, at, alone) ==
    [tab |-> t, kind |-> kind, text |-> text, at |-> at, alone |-> alone,
     msg |-> "none", put |-> "none", load |-> "none", body |-> Empty, on |-> 0, rows |-> {}]

Crowd(os) == [i \in DOMAIN os |-> IF i \in Active THEN [os[i] EXCEPT !.alone = FALSE]
                                                 ELSE os[i]]

Ask(t, kind) ==
    /\ MayAsk
    /\ ops' = Append(ops, Op(t, kind, Empty, "sent", TRUE))

Moves(i, from, to) == ops[i].at = from /\ ops' = [ops EXCEPT ![i].at = to]

---------------------------------------------------------------------------
(* The pages *)

\* The menu and the router mount a page, whose fetchData runs at once.
OpenPage(t, p) ==
    /\ ~box[t] /\ page[t] # p
    /\ Ask(t, IF p = "/" THEN "status" ELSE "get")
    /\ page' = [page EXCEPT ![t] = p]
    /\ mounted' = [mounted EXCEPT ![t] = Len(ops)]
    /\ textarea' = [textarea EXCEPT ![t] = Empty]
    /\ status' = [status EXCEPT ![t] = {}]
    /\ UNCHANGED <<server, control, box>>

OnConfigure(t) == page[t] = "/configure" /\ ~box[t]

Refresh(t) ==
    /\ OnConfigure(t)
    /\ Ask(t, "get")
    /\ UNCHANGED <<server, control, tabs>>

Edit(t, text) ==
    /\ OnConfigure(t) /\ textarea[t] # text /\ Len(ops) < MaxOps
    /\ textarea' = [textarea EXCEPT ![t] = text]
    /\ UNCHANGED <<server, control, page, mounted, box, status, ops>>

\* uploadConfig asks first; the box is modal.
UploadConfig(t) ==
    /\ OnConfigure(t) /\ Len(ops) < MaxOps
    /\ box' = [box EXCEPT ![t] = TRUE]
    /\ UNCHANGED <<server, control, page, mounted, textarea, status, ops>>

Cancel(t) ==
    /\ box[t]
    /\ box' = [box EXCEPT ![t] = FALSE]
    /\ UNCHANGED <<server, control, page, mounted, textarea, status, ops>>

\* The text is the one that the text area has now.
Confirm(t) ==
    /\ box[t] /\ MayAsk
    /\ box' = [box EXCEPT ![t] = FALSE]
    /\ ops' = Append(Crowd(ops),
                     IF textarea[t] = Empty
                     THEN [Op(t, "upload", Empty, "done", TRUE) EXCEPT !.msg = "empty"]
                     ELSE Op(t, "upload", textarea[t], "put",
                             Active = {} /\ link = "idle"))
    /\ UNCHANGED <<server, control, page, mounted, textarea, status>>

\* then and catch of the fetches of both pages.  An answer for a page that the tab
\* has left changes a component that nobody sees.
Arrives(i) ==
    /\ ops[i].at = "answered"
    /\ ops' = [ops EXCEPT ![i] = Op(@.tab, @.kind, Empty, "done", TRUE)]
    /\ LET op == ops[i]
           seen == i > mounted[op.tab]
       IN  /\ textarea' = IF seen /\ op.kind = "get"
                          THEN [textarea EXCEPT ![op.tab] = op.body] ELSE textarea
           /\ status' = IF seen /\ op.kind = "status"
                        THEN [status EXCEPT ![op.tab] = UNION op.rows] ELSE status
    /\ UNCHANGED <<server, control, page, mounted, box>>

AskFails(i) ==
    /\ ops[i].at \in {"sent", "answered"}
    /\ ops' = [ops EXCEPT ![i] = Op(@.tab, @.kind, Empty, "done", TRUE)]
    /\ UNCHANGED <<server, control, tabs>>

\* mutant: the success of the PUT is taken for that of the upload.
PutArrivesDone(i) ==
    /\ ops[i].msg = "none" /\ ops[i].at = "putAnswered"
    /\ ops' = [ops EXCEPT ![i].msg = "success"]
    /\ UNCHANGED <<server, control, tabs>>

\* The status of the answers is not looked at: any answer to the PUT sends the
\* reload, and any answer to that is a success.
PutArrives(i) ==
    /\ ops[i].msg = "none"
    /\ Moves(i, "putAnswered", "reload")
    /\ UNCHANGED <<server, control, tabs>>

ReloadArrives(i) ==
    /\ ops[i].msg = "none" /\ ops[i].at = "reloadAnswered"
    /\ ops' = [ops EXCEPT ![i].msg = "success"]
    /\ UNCHANGED <<server, control, tabs>>

\* A fetch that fails ends the upload; the request may have got lost, may be served
\* yet, or its answer is what got lost.
Fails(i, from, msg) ==
    /\ ops[i].msg = "none" /\ ops[i].at \in from
    /\ \E at \in {ops[i].at} \cup {"dropped" : x \in {ops[i].at} \cap {"put", "reload"}} :
           ops' = [ops EXCEPT ![i].msg = msg, ![i].at = at]
    /\ UNCHANGED <<server, control, tabs>>

PutFails(i) == Fails(i, {"put", "truncated", "putAnswered"}, "putFailed")
ReloadFails(i) ==
    Fails(i, {"reload", "loaded", "set", "visitors", "reloadAnswered"}, "reloadFailed")

---------------------------------------------------------------------------
(* The admin api *)

\* apiGetConfig: the file, or a message with code 400 when it cannot be read.
GetConfig(i) ==
    /\ ops[i].kind = "get" /\ ops[i].at = "sent"
    /\ \E body \in {file, ErrorText} :
           ops' = [ops EXCEPT ![i].at = "answered", ![i].body = body]
    /\ UNCHANGED <<server, control, tabs>>

\* apiStatus: the proxies of the control by type.
StatusResp(ps) == {{p \in ps : p.type = type} : type \in {p.type : p \in ps}}

\* A control that has been closed has none, until a reload gives it some.
Running == IF cur = 0 THEN {} ELSE ProxiesOf(ctls[cur].pxy)

\* It waits while a login holds ctlMu.
Status(i) ==
    /\ ops[i].kind = "status" /\ ops[i].at = "sent"
    /\ link \notin {"closing", "assign"}
    /\ ops' = [ops EXCEPT ![i].at = "answered", ![i].rows = StatusResp(Running)]
    /\ UNCHANGED <<server, control, tabs>>

\* apiPutConfig: WriteFile truncates the file and then writes it.  It may fail before
\* and after the truncation.
Truncate(i) ==
    /\ Moves(i, "put", "truncated")
    /\ file' = Empty
    /\ UNCHANGED <<cfgs, ctls, cur, control, tabs>>

Write(i) ==
    /\ ops[i].at = "truncated"
    /\ file' = ops[i].text
    /\ ops' = [ops EXCEPT ![i].at = "putAnswered", ![i].put = "ok"]
    /\ UNCHANGED <<cfgs, ctls, cur, control, tabs>>

\* mutant: an error of WriteFile is not noticed.
WriteFailsUnseen(i) ==
    /\ ops[i].at \in {"put", "truncated"}
    /\ ops' = [ops EXCEPT ![i].at = "putAnswered", ![i].put = "ok"]
    /\ UNCHANGED <<server, control, tabs>>

WriteFails(i) ==
    /\ ops[i].at \in {"put", "truncated"}
    /\ ops' = [ops EXCEPT ![i].at = "putAnswered", ![i].put = "failed"]
    /\ UNCHANGED <<server, control, tabs>>

\* apiReload: LoadClientConfig and ValidateAllClientConfig.  Code 400 for a text that
\* does not load and for a file that cannot be read.
Load(i) ==
    /\ ops[i].at = "reload"
    /\ \/ /\ Loads(file)
          /\ ops' = [ops EXCEPT ![i].at = "loaded", ![i].load = "ok", ![i].body = file]
       \/ ops' = [ops EXCEPT ![i].at = "reloadAnswered", ![i].load = "failed"]
    /\ UNCHANGED <<server, control, tabs>>

\* Manager.UpdateAll of the visitors: those that the new configuration does not have
\* are closed, those that the old one did not have are started, and the others stay as
\* they are, closed ones too.  One that fails to start is tried again by the manager.
VisitorsUpdated(c, cfg) ==
    [ctls EXCEPT ![c].vis = cfg,
                 ![c].open = (@ \cap VisitorsOf(cfg))
                                 \cup (VisitorsOf(cfg) \ VisitorsOf(ctls[c].vis))]

\* Manager.UpdateAll of the proxies: pm.proxies has the running ones only.
ProxiesUpdated(c, cfg) == [ctls EXCEPT ![c].pxy = cfg]

\* UpdateAllConfigurer: the service's copy for later logins, then, if there is a control,
\* its visitors and its proxies, be it alive or not.  A login may replace it in between.
SetCfgs(i) ==
    /\ Moves(i, "loaded", "set")
    /\ cfgs' = ops[i].body
    /\ UNCHANGED <<file, ctls, cur, control, tabs>>

UpdateVisitors(i) ==
    /\ ops[i].at = "set"
    /\ ops' = [ops EXCEPT ![i].at = IF cur = 0 THEN "reloadAnswered" ELSE "visitors",
                          ![i].on = cur]
    /\ ctls' = IF cur = 0 THEN ctls ELSE VisitorsUpdated(cur, ops[i].body)
    /\ UNCHANGED <<file, cfgs, cur, control, tabs>>

UpdateProxies(i) ==
    /\ Moves(i, "visitors", "reloadAnswered")
    /\ ctls' = ProxiesUpdated(ops[i].on, ops[i].body)
    /\ UNCHANGED <<file, cfgs, cur, control, tabs>>

---------------------------------------------------------------------------
(* The controls *)

\* worker: when the connection is gone, which may be while Run is still under way, it
\* closes the proxies ...
LoseControl(c) ==
    /\ ctls[c].stage = "up" /\ losses < MaxLosses
    /\ ctls' = [ctls EXCEPT ![c].stage = "closing", ![c].pxy = Empty]
    /\ losses' = losses + 1
    /\ UNCHANGED <<file, cfgs, cur, link, copied, tabs, ops>>

\* ... and the visitors, whose configurations the manager keeps, and doneCh.
CloseVisitors(c) ==
    /\ ctls[c].stage = "closing"
    /\ ctls' = [ctls EXCEPT ![c].stage = "done", ![c].open = {}]
    /\ UNCHANGED <<file, cfgs, cur, control, tabs, ops>>

NewControl == [pxy |-> Empty, vis |-> Empty, open |-> {}, stage |-> "up"]

\* keepControllerWorking waits for doneCh.  loginFunc, after a login that succeeded,
\* copies the configuration and makes a control ...
CopyCfgs ==
    /\ link = "idle" /\ (cur # 0 => ctls[cur].stage = "done")
    /\ link' = "proxies" /\ copied' = cfgs
    /\ ctls' = Append(ctls, NewControl)
    /\ ops' = Crowd(ops)
    /\ UNCHANGED <<file, cfgs, cur, losses, tabs>>

\* mutant: the new control starts with what frpc was started with.
RunProxiesFirst ==
    /\ link = "proxies" /\ link' = "visitors"
    /\ ctls' = ProxiesUpdated(Len(ctls), First)
    /\ UNCHANGED <<file, cfgs, cur, copied, losses, tabs, ops>>

\* ... which Run gives its proxies and its visitors ...
RunProxies ==
    /\ link = "proxies" /\ link' = "visitors"
    /\ ctls' = ProxiesUpdated(Len(ctls), copied)
    /\ UNCHANGED <<file, cfgs, cur, copied, losses, tabs, ops>>

RunVisitors ==
    /\ link = "visitors" /\ link' = "replace"
    /\ ctls' = VisitorsUpdated(Len(ctls), copied)
    /\ UNCHANGED <<file, cfgs, cur, copied, losses, tabs, ops>>

\* mutant: the previous control is taken for closed, since its worker has closed it.
CloseOldProxiesNot ==
    /\ link = "replace" /\ cur # 0
    /\ link' = "closing"
    /\ UNCHANGED <<server, copied, losses, tabs, ops>>

\* ... closes the previous control once more, under ctlMu ...
CloseOldProxies ==
    /\ link = "replace" /\ cur # 0
    /\ link' = "closing"
    /\ ctls' = [ctls EXCEPT ![cur].pxy = Empty]
    /\ UNCHANGED <<file, cfgs, cur, copied, losses, tabs, ops>>

CloseOldVisitors ==
    /\ link = "closing" /\ link' = "assign"
    /\ ctls' = [ctls EXCEPT ![cur].open = {}]
    /\ UNCHANGED <<file, cfgs, cur, copied, losses, tabs, ops>>

\* ... and makes the new one svr.ctl.
ReplaceControl ==
    /\ link = "assign" \/ (link = "replace" /\ cur = 0)
    /\ link' = "idle" /\ cur' = Len(ctls)
    /\ UNCHANGED <<file, cfgs, ctls, copied, losses, tabs, ops>>

Login ==
    \/ CopyCfgs \/ RunProxies \/ RunVisitors
    \/ CloseOldProxies \/ CloseOldVisitors \/ ReplaceControl

---------------------------------------------------------------------------
User(t) ==
    \/ \E p \in {"/", "/configure"} : OpenPage(t, p)
    \/ Refresh(t) \/ UploadConfig(t) \/ Cancel(t) \/ Confirm(t)
    \/ \E text \in Text \ {ErrorText} : Edit(t, text)

Api(i) ==
    \/ GetConfig(i) \/ Status(i)
    \/ Truncate(i) \/ Write(i) \/ WriteFails(i)
    \/ Load(i) \/ SetCfgs(i) \/ UpdateVisitors(i) \/ UpdateProxies(i)

Page(i) ==
    \/ Arrives(i) \/ AskFails(i)
    \/ PutArrives(i) \/ PutFails(i) \/ ReloadArrives(i) \/ ReloadFails(i)

Next ==
    \/ \E t \in Tab : User(t)
    \/ \E i \in DOMAIN ops : Api(i) \/ Page(i)
    \/ \E c \in DOMAIN ctls : LoseControl(c) \/ CloseVisitors(c)
    \/ Login

Spec == Init /\ [][Next]_vars

---------------------------------------------------------------------------
(* Properties *)

\* Types, and: the managers of a control run what a reload or a login gave them, which loads.
TypeOK ==
    /\ file \in Text /\ Loads(cfgs) /\ Loads(copied)
    /\ \A c \in DOMAIN ctls :
          /\ Loads(ctls[c].pxy) /\ Loads(ctls[c].vis)
          /\ ctls[c].open \subseteq VisitorsOf(ctls[c].vis)
          /\ ctls[c].stage \in {"up", "closing", "done"}
    /\ link \in {"idle", "proxies", "visitors", "replace", "closing", "assign"}
    /\ cur = Len(ctls) - (IF link = "idle" THEN 0 ELSE 1) /\ losses \in 0 .. MaxLosses
    /\ page \in [Tab -> {"none", "/", "/configure"}]
    /\ mounted \in [Tab -> 0 .. MaxOps] /\ box \in [Tab -> BOOLEAN]
    /\ textarea \in [Tab -> Text]
    /\ Len(ops) <= MaxOps /\ \A i \in DOMAIN ops : ops[i].msg \in Message

Undisturbed == \A i \in Uploads : ops[i].alone
NoWriteFailed == \A i \in Uploads : ops[i].put # "failed"

\* Both managers of a control have the configuration and its visitors run.
Runs(c, cfg) == ctls[c].pxy = cfg /\ ctls[c].vis = cfg /\ ctls[c].open = VisitorsOf(cfg)

\* The two requests of uploadConfig together do what its box announces: when an upload
\* that nothing disturbed reports success and neither request was refused, the file and
\* the service have its text, and the control runs it, if it has not been lost.
UploadTakesEffect ==
    [][\A i \in Uploads :
          (/\ ops[i].msg # "success" /\ ops'[i].msg = "success"
           /\ ops[i].alone /\ ops[i].put = "ok" /\ ops[i].load # "failed")
          => /\ file = ops[i].text /\ cfgs = ops[i].text
             /\ cur # 0 /\ ctls[cur].stage = "up" => Runs(cur, ops[i].text)]_vars

\* Unless a reload and another reload or a login overlap, a control that has not been
\* lost runs what the service would give to its successor, whatever was lost in between.
ControlRunsConfig ==
    Undisturbed /\ Active = {} /\ link = "idle" /\ cur # 0 /\ ctls[cur].stage = "up"
        => Runs(cur, cfgs)

\* A control that was replaced runs nothing: a reload, and Run itself, may start proxies
\* and visitors again that the worker of a lost control has closed, and the login closes
\* them once more.  Only a reload that overlaps the login comes too late for that.
ReplacedStops ==
    \A c \in 1 .. cur - 1 :
        (\A i \in Uploads : ops[i].on = c => ops[i].alone)
            => ctls[c].pxy = Empty /\ ctls[c].open = {}

\* frpc runs nothing but what it was started with or a user uploaded: a reload sees no
\* half-written file, unless uploads overlap or the disk fails.
RunsOnlyUploaded ==
    Undisturbed /\ NoWriteFailed => cfgs \in {First} \cup {ops[i].text : i \in Uploads}

\* The service and the managers have configurations that load, and of these only what
\* somebody uploaded.
ConfigSound == TypeOK /\ RunsOnlyUploaded

\* uploadConfig announces that it uploads the text and reloads it: success means that
\* frpc has loaded that text.
SuccessIsTrue == \A i \in Uploads : ops[i].msg = "success" => ops[i].body = ops[i].text
=============================================================================
