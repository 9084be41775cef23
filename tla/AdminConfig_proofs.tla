------------------------- MODULE AdminConfig_proofs -------------------------
(***************************************************************************)
(* Proofs about AdminConfig, for any number of tabs, of requests and of       *)
(* control connections that break, and for any texts.                        *)
(*                                                                          *)
(* Solo carries them: an upload that is under way and was never disturbed is   *)
(* the only one, and no login is between its steps.  So what it has found or   *)
(* set is still there when it goes on, unless its control is lost, and so it   *)
(* is done with a control before a login replaces it.                        *)
(***************************************************************************)
EXTENDS AdminConfig, TLAPS

Config   == Valid \cup {Empty}
Kinds    == {"get", "status", "upload"}
AskAt    == {"sent", "answered", "done"}
UploadAt == {"put", "truncated", "putAnswered", "reload", "loaded", "set", "visitors",
             "reloadAnswered", "dropped", "done"}
OpSet    == [tab : Tab, kind : Kinds, text : Text, at : AskAt \cup UploadAt, alone : BOOLEAN,
             msg : Message, put : {"none", "ok", "failed"}, load : {"none", "ok", "failed"},
             body : Text, on : Nat, rows : {{}} \cup {StatusResp(ProxiesOf(c)) : c \in Config}]
CtlSet   == [pxy : Config, vis : Config, open : SUBSET UNION {VisitorsOf(c) : c \in Config},
             stage : {"up", "closing", "done"}]

\* What a request or upload is like, by itself.
OpOK(op) ==
    /\ op.kind = "upload" => op.at \in UploadAt
    /\ op.kind # "upload" => op.at \in AskAt
    /\ op.at \in {"loaded", "set", "visitors"} => op.body \in Config /\ op.load = "ok"
    /\ op.at = "reloadAnswered" => op.load # "none"
    /\ op.at \in {"put", "truncated"} => op.put = "none"
    /\ op.at \in {"put", "truncated", "putAnswered", "reload", "loaded", "set"} => op.on = 0

OpsInv == ops \in Seq(OpSet) /\ Len(ops) <= MaxOps /\ \A i \in DOMAIN ops : OpOK(ops[i])

PageInv ==
    /\ page \in [Tab -> {"none", "/", "/configure"}]
    /\ mounted \in [Tab -> 0 .. MaxOps] /\ box \in [Tab -> BOOLEAN]
    /\ textarea \in [Tab -> Text]

\* The visitors of a control that has not been lost run.
OpenOK(k) ==
    /\ k.open \subseteq VisitorsOf(k.vis)
    /\ k.stage = "up" => k.open = VisitorsOf(k.vis)

CtlsInv == ctls \in Seq(CtlSet) /\ \A c \in DOMAIN ctls : OpenOK(ctls[c])

ServerInv ==
    /\ file \in Text /\ cfgs \in Config /\ copied \in Config
    /\ link \in {"idle", "proxies", "visitors", "replace", "closing", "assign"}
    /\ losses \in 0 .. MaxLosses /\ cur \in Nat
    /\ link = "idle" => cur = Len(ctls)
    /\ link # "idle" => cur + 1 = Len(ctls)
    /\ link \in {"closing", "assign"} => cur # 0
    /\ \A i \in DOMAIN ops : ops[i].on <= cur /\ (ops[i].at = "visitors" => ops[i].on # 0)

TablesInv == OpsInv /\ PageInv /\ CtlsInv /\ ServerInv

\* An upload that is under way and undisturbed has frpc for itself.
Solo ==
    \A i \in Active : ops[i].alone => link = "idle" /\ \A j \in Active : j = i

\* What such an upload has done so far is still so.
Effect(op) ==
    /\ op.put = "ok" => file = op.text
    /\ op.put = "ok" /\ op.at \in {"loaded", "set", "visitors"} => op.body = op.text
    /\ op.at \in {"set", "visitors"} => cfgs = op.body
    /\ op.at = "visitors" => op.on = cur /\ (ctls[cur].stage = "up" => ctls[cur].vis = cfgs)
    /\ op.at = "reloadAnswered" /\ op.put = "ok" /\ op.load = "ok" =>
           /\ cfgs = op.text
           /\ cur # 0 /\ ctls[cur].stage = "up" => ctls[cur].pxy = cfgs /\ ctls[cur].vis = cfgs

SoloEffect == \A i \in Active : ops[i].alone => Effect(ops[i])

Updating == \E i \in Uploads : ops[i].at \in {"set", "visitors"}

\* What a login copied is what the service has, and so is what a control runs, but
\* between the steps of UpdateAllConfigurer.
RunsInv ==
    Undisturbed =>
        /\ link # "idle" => copied = cfgs
        /\ link = "idle" /\ cur # 0 /\ ctls[cur].stage = "up" /\ ~Updating =>
               ctls[cur].pxy = cfgs /\ ctls[cur].vis = cfgs

\* During a login the previous control is done, and Run has given the new one what was
\* copied, as far as it is.
LoginInv ==
    /\ link # "idle" /\ cur # 0 => ctls[cur].stage = "done"
    /\ ctls # << >> /\ ctls[Len(ctls)].stage = "up" =>
          /\ link \in {"visitors", "replace", "closing", "assign"} => ctls[Len(ctls)].pxy = copied
          /\ link \in {"replace", "closing", "assign"} => ctls[Len(ctls)].vis = copied

\* A reload that overlapped something has updated the control, or is about to.
Late(c) == \E i \in Uploads : ops[i].on = c /\ ~ops[i].alone

\* A replaced control runs nothing, and so does one that is being replaced, as far as
\* it has been closed.
StoppedInv ==
    \A c \in 1 .. cur : ~Late(c) =>
        /\ c < cur \/ link \in {"closing", "assign"} => ctls[c].pxy = Empty
        /\ c < cur \/ link = "assign" => ctls[c].open = {}

Known == {First} \cup {ops[i].text : i \in Uploads}

\* The file is somebody's text, but between truncation and writing.
KnownInv ==
    Undisturbed /\ NoWriteFailed =>
        /\ cfgs \in Known
        /\ (\A i \in Uploads : ops[i].at # "truncated") => file \in Known
        /\ \A i \in Uploads : ops[i].at = "loaded" => ops[i].body \in Known

DeepInv == Solo /\ SoloEffect /\ RunsInv /\ LoginInv /\ StoppedInv /\ KnownInv

Inv == TablesInv /\ DeepInv

---------------------------------------------------------------------------
(* Requests *)

LEMMA EditOp ==
    ASSUME ops \in Seq(OpSet), NEW i \in DOMAIN ops, NEW r \in OpSet, ops' = [ops EXCEPT ![i] = r]
    PROVE  /\ ops' \in Seq(OpSet) /\ Len(ops') = Len(ops) /\ DOMAIN ops' = DOMAIN ops
           /\ ops'[i] = r /\ \A j \in DOMAIN ops : j # i => ops'[j] = ops[j]
OBVIOUS

LEMMA AddOp ==
    ASSUME NEW s \in Seq(OpSet), NEW r \in OpSet, ops' = Append(s, r)
    PROVE  /\ ops' \in Seq(OpSet) /\ Len(ops') = Len(s) + 1
           /\ DOMAIN ops' = DOMAIN s \cup {Len(s) + 1} /\ Len(s) + 1 \notin DOMAIN s
           /\ ops'[Len(s) + 1] = r /\ \A j \in DOMAIN s : ops'[j] = s[j]
OBVIOUS

LEMMA NewOp ==
    ASSUME NEW t \in Tab, NEW kind \in Kinds, NEW text \in Text, NEW at \in AskAt \cup UploadAt,
           NEW alone \in BOOLEAN
    PROVE  /\ Op(t, kind, text, at, alone) \in OpSet
           /\ Op(t, kind, text, at, alone).kind = kind
           /\ Op(t, kind, text, at, alone).text = text
           /\ Op(t, kind, text, at, alone).at = at
           /\ Op(t, kind, text, at, alone).alone = alone
           /\ Op(t, kind, text, at, alone).msg = "none"
           /\ Op(t, kind, text, at, alone).put = "none"
           /\ Op(t, kind, text, at, alone).on = 0
           /\ Op(t, kind, text, at, alone).tab = t
BY DEF Op, OpSet, Message, Text

LEMMA SetAt ==
    ASSUME NEW op \in OpSet, NEW at \in AskAt \cup UploadAt
    PROVE  LET r == [op EXCEPT !.at = at] IN
           /\ r \in OpSet /\ r.at = at
           /\ r.tab = op.tab /\ r.kind = op.kind /\ r.text = op.text /\ r.alone = op.alone
           /\ r.msg = op.msg /\ r.put = op.put /\ r.load = op.load /\ r.body = op.body /\ r.on = op.on /\ r.rows = op.rows
BY DEF OpSet

LEMMA SetAlone ==
    ASSUME NEW op \in OpSet
    PROVE  LET r == [op EXCEPT !.alone = FALSE] IN
           /\ r \in OpSet /\ ~r.alone
           /\ r.tab = op.tab /\ r.kind = op.kind /\ r.text = op.text /\ r.at = op.at
           /\ r.msg = op.msg /\ r.put = op.put /\ r.load = op.load /\ r.body = op.body /\ r.on = op.on /\ r.rows = op.rows
BY DEF OpSet

LEMMA CrowdFacts ==
    ASSUME ops \in Seq(OpSet)
    PROVE  /\ Crowd(ops) \in Seq(OpSet) /\ Len(Crowd(ops)) = Len(ops) /\ DOMAIN Crowd(ops) = DOMAIN ops
           /\ \A i \in Active : Crowd(ops)[i] = [ops[i] EXCEPT !.alone = FALSE]
           /\ \A i \in DOMAIN ops \ Active : Crowd(ops)[i] = ops[i]
<1>1. \A i \in DOMAIN ops : ops[i] \in OpSet /\ [ops[i] EXCEPT !.alone = FALSE] \in OpSet
  BY SetAlone
<1>2. DOMAIN ops = 1 .. Len(ops) /\ Len(ops) \in Nat
  OBVIOUS
<1>3. Active \subseteq DOMAIN ops
  BY DEF Active, Uploads
<1>4. Crowd(ops) \in [1 .. Len(ops) -> OpSet]
  BY <1>1, <1>2 DEF Crowd
<1>5. Crowd(ops) \in Seq(OpSet) /\ Len(Crowd(ops)) = Len(ops)
  BY <1>2, <1>4
<1>6. /\ \A i \in Active : Crowd(ops)[i] = [ops[i] EXCEPT !.alone = FALSE]
      /\ \A i \in DOMAIN ops \ Active : Crowd(ops)[i] = ops[i]
  BY <1>3 DEF Crowd
<1> QED BY <1>2, <1>5, <1>6

---------------------------------------------------------------------------
(* Controls *)

LEMMA EditCtl ==
    ASSUME CtlsInv, NEW c \in DOMAIN ctls, NEW k \in CtlSet, OpenOK(k), ctls' = [ctls EXCEPT ![c] = k]
    PROVE  /\ CtlsInv' /\ Len(ctls') = Len(ctls) /\ DOMAIN ctls' = DOMAIN ctls
           /\ ctls'[c] = k /\ \A d \in DOMAIN ctls : d # c => ctls'[d] = ctls[d]
<1>1. /\ ctls' \in Seq(CtlSet) /\ Len(ctls') = Len(ctls) /\ DOMAIN ctls' = DOMAIN ctls
      /\ ctls'[c] = k /\ \A d \in DOMAIN ctls : d # c => ctls'[d] = ctls[d]
  BY DEF CtlsInv
<1>2. \A d \in DOMAIN ctls' : OpenOK(ctls'[d])
  BY <1>1 DEF CtlsInv
<1> QED BY <1>1, <1>2 DEF CtlsInv, OpenOK

\* UpdateAll of the visitors, on any control: where they run all, they do so after it.
LEMMA VisitorsCome ==
    ASSUME CtlsInv, NEW c \in DOMAIN ctls, NEW cfg \in Config, ctls' = VisitorsUpdated(c, cfg)
    PROVE  /\ CtlsInv' /\ Len(ctls') = Len(ctls) /\ DOMAIN ctls' = DOMAIN ctls
           /\ \A d \in DOMAIN ctls : d # c => ctls'[d] = ctls[d]
           /\ ctls'[c].vis = cfg /\ ctls'[c].pxy = ctls[c].pxy /\ ctls'[c].stage = ctls[c].stage
<1> DEFINE o == (ctls[c].open \cap VisitorsOf(cfg)) \cup (VisitorsOf(cfg) \ VisitorsOf(ctls[c].vis))
           k == [ctls[c] EXCEPT !.vis = cfg, !.open = o]
<1>1. ctls[c] \in CtlSet /\ OpenOK(ctls[c])
  BY DEF CtlsInv
<1>2. ctls' = [ctls EXCEPT ![c] = k]
  BY <1>1 DEF VisitorsUpdated, CtlSet, CtlsInv
<1>3. o \subseteq VisitorsOf(cfg) /\ (ctls[c].open = VisitorsOf(ctls[c].vis) => o = VisitorsOf(cfg))
  OBVIOUS
<1>4. o \in SUBSET UNION {VisitorsOf(x) : x \in Config}
  BY <1>3
<1> HIDE DEF o
<1>5. /\ k \in CtlSet /\ k.vis = cfg /\ k.open = o /\ k.pxy = ctls[c].pxy
      /\ k.stage = ctls[c].stage
  BY <1>1, <1>4 DEF CtlSet
<1> HIDE DEF k
<1>6. OpenOK(k)
  BY <1>1, <1>3, <1>5 DEF OpenOK
<1>7. /\ CtlsInv' /\ Len(ctls') = Len(ctls) /\ DOMAIN ctls' = DOMAIN ctls
      /\ ctls'[c] = k /\ \A d \in DOMAIN ctls : d # c => ctls'[d] = ctls[d]
  BY <1>2, <1>5, <1>6, EditCtl
<1> QED BY <1>5, <1>7

\* Steps that leave the visitors' configurations alone.
LEMMA CtlStep ==
    ASSUME CtlsInv, NEW c \in DOMAIN ctls, NEW k \in CtlSet, k.vis = ctls[c].vis,
           k.open = ctls[c].open \/ k.open = {},
           k.stage = "up" => ctls[c].stage = "up" /\ k.open = ctls[c].open,
           ctls' = [ctls EXCEPT ![c] = k]
    PROVE  /\ CtlsInv' /\ Len(ctls') = Len(ctls) /\ DOMAIN ctls' = DOMAIN ctls
           /\ ctls'[c] = k /\ \A d \in DOMAIN ctls : d # c => ctls'[d] = ctls[d]
<1>1. OpenOK(ctls[c])
  BY DEF CtlsInv
<1>2. OpenOK(k)
  BY <1>1 DEF OpenOK
<1> QED BY <1>2, EditCtl

\* Where svr.ctl and the control of a login are.
LEMMA UpTo ==
    ASSUME NEW m \in Nat
    PROVE  /\ \A c \in 1 .. m : c \in Nat /\ c # 0 /\ c <= m /\ m # 0 /\ (c # m => c < m)
           /\ \A c \in Nat : c # 0 /\ c <= m => c \in 1 .. m
OBVIOUS

LEMMA UpToLess ==
    ASSUME NEW m \in Nat, NEW n \in Nat, m <= n
    PROVE  \A c \in 1 .. m : c \in 1 .. n /\ (m # n => c # n)
OBVIOUS

LEMMA CtlNumbers ==
    ASSUME CtlsInv, ServerInv
    PROVE  /\ Len(ctls) \in Nat /\ DOMAIN ctls = 1 .. Len(ctls) /\ cur \in Nat /\ cur <= Len(ctls)
           /\ cur # 0 => cur \in DOMAIN ctls
           /\ link # "idle" => Len(ctls) \in DOMAIN ctls /\ Len(ctls) # cur /\ ctls # << >>
BY DEF CtlsInv, ServerInv

---------------------------------------------------------------------------
(* Uploads *)

Acts(op) == op.kind = "upload" /\ (op.msg = "none"
                \/ op.at \notin {"dropped", "putAnswered", "reloadAnswered", "done"})

LEMMA ActiveIs == Active = {i \in DOMAIN ops : Acts(ops[i])}
BY DEF Active, Uploads, Served, Acts

LEMMA InitInv == Init => Inv
<1> SUFFICES ASSUME Init PROVE Inv OBVIOUS
<1> USE TextsAssumption
<1>1. ops = << >> /\ DOMAIN ops = {} /\ Len(ops) = 0 /\ ops \in Seq(OpSet)
  BY DEF Init
<1>2. OpsInv
  BY <1>1 DEF OpsInv
<1>3. PageInv
  <2>1. mounted \in [Tab -> 0 .. MaxOps]
    <3>1. 0 \in 0 .. MaxOps
      OBVIOUS
    <3> QED BY <3>1 DEF Init
  <2>2. page \in [Tab -> {"none", "/", "/configure"}] /\ textarea \in [Tab -> Text]
    BY DEF Init, Text
  <2>3. box \in [Tab -> BOOLEAN]
    BY DEF Init
  <2> QED BY <2>1, <2>2, <2>3 DEF PageInv
<1>4. CtlsInv /\ ServerInv
  BY <1>1 DEF Init, CtlsInv, ServerInv, Text, Config
<1>5. Active = {} /\ Uploads = {}
  BY <1>1 DEF Active, Uploads
<1>6. DeepInv
  <2>1. \A c \in 1 .. cur : FALSE
    BY DEF Init
  <2> QED BY <1>5, <2>1 DEF Init, DeepInv, Solo, SoloEffect, RunsInv, LoginInv, StoppedInv, KnownInv, Known
<1> QED BY <1>2, <1>3, <1>4, <1>6 DEF Inv, TablesInv

\* A step that leaves the uploads, frpc and its control alone.
LEMMA KeepUploads ==
    ASSUME TablesInv, DeepInv, Uploads' = Uploads, \A j \in Uploads : ops'[j] = ops[j],
           DOMAIN ops \subseteq DOMAIN ops',
           UNCHANGED <<file, cfgs, ctls, cur, link, copied>>
    PROVE  DeepInv'
<1>1. Active' = Active
  <2>1. \A j \in Uploads : Served(j)' <=> Served(j)
    BY DEF Served
  <2> QED BY <2>1 DEF Active
<1>2. Active \subseteq Uploads
  BY DEF Active
<1>3. Solo'
  BY <1>1, <1>2 DEF DeepInv, Solo
<1>4. SoloEffect'
  BY <1>1, <1>2 DEF DeepInv, SoloEffect, Effect
<1>5. (Undisturbed' <=> Undisturbed) /\ (NoWriteFailed' <=> NoWriteFailed)
  BY DEF Undisturbed, NoWriteFailed
<1>6. RunsInv'
  BY <1>5 DEF DeepInv, RunsInv, Updating
<1>7. Known' = Known
  BY DEF Known
<1>8. KnownInv'
  BY <1>5, <1>7 DEF DeepInv, KnownInv
<1>9. LoginInv'
  BY DEF DeepInv, LoginInv
<1>10. \A c : Late(c)' <=> Late(c)
  BY DEF Late
<1>11. StoppedInv'
  BY <1>10 DEF DeepInv, StoppedInv
<1> QED BY <1>3, <1>4, <1>6, <1>8, <1>9, <1>11 DEF DeepInv

\* A step of an upload.
LEMMA EditMono ==
    ASSUME ops \in Seq(OpSet), NEW i \in Uploads, NEW r \in OpSet, ops' = [ops EXCEPT ![i] = r],
           r.kind = "upload", r.text = ops[i].text, r.alone = ops[i].alone,
           ops[i].put = "failed" => r.put = "failed", Acts(r) => Acts(ops[i])
    PROVE  /\ Uploads' = Uploads /\ Known' = Known /\ Active' \subseteq Active
           /\ (Undisturbed' <=> Undisturbed) /\ (NoWriteFailed' => NoWriteFailed)
           /\ ops'[i] = r /\ \A j \in Uploads : j # i => ops'[j] = ops[j]
           /\ \A j \in Uploads : ops'[j].alone = ops[j].alone
<1>1. /\ DOMAIN ops' = DOMAIN ops /\ i \in DOMAIN ops /\ ops[i].kind = "upload"
      /\ ops'[i] = r /\ \A j \in DOMAIN ops : j # i => ops'[j] = ops[j]
  BY EditOp DEF Uploads
<1>2. Uploads' = Uploads
  BY <1>1 DEF Uploads
<1>3. Uploads \subseteq DOMAIN ops
  BY DEF Uploads
<1>4. \A j \in Uploads : ops'[j].text = ops[j].text /\ ops'[j].alone = ops[j].alone
  BY <1>1, <1>3
<1>5. Known' = Known
  BY <1>2, <1>4 DEF Known
<1>6. (Undisturbed' <=> Undisturbed) /\ (NoWriteFailed' => NoWriteFailed)
  BY <1>1, <1>2, <1>3, <1>4 DEF Undisturbed, NoWriteFailed
<1>7. Active' \subseteq Active
  <2>1. Active' = {j \in DOMAIN ops' : Acts(ops'[j])}
    BY DEF Active, Uploads, Served, Acts
  <2> QED BY <1>1, <2>1, ActiveIs
<1> QED BY <1>1, <1>2, <1>3, <1>4, <1>5, <1>6, <1>7

---------------------------------------------------------------------------
(* The pages *)

LEMMA AskStep ==
    ASSUME TablesInv, NEW t \in Tab, NEW kind \in {"get", "status"}, Ask(t, kind),
           UNCHANGED <<server, control>>
    PROVE  /\ OpsInv' /\ CtlsInv' /\ ServerInv' /\ Uploads' = Uploads /\ DOMAIN ops \subseteq DOMAIN ops'
           /\ \A j \in Uploads : ops'[j] = ops[j]
<1> USE TextsAssumption
<1> DEFINE r == Op(t, kind, Empty, "sent", TRUE)
           n == Len(ops) + 1
<1>1. r \in OpSet /\ r.kind = kind /\ r.at = "sent" /\ r.on = 0
  <2>1. kind \in Kinds /\ Empty \in Text /\ "sent" \in AskAt \cup UploadAt
    BY DEF Kinds, Text, AskAt
  <2> QED BY <2>1 DEF Op, OpSet, Message
<1>2. ops \in Seq(OpSet) /\ ops' = Append(ops, r) /\ Len(ops) < MaxOps /\ Len(ops) \in Nat
  BY DEF TablesInv, OpsInv, Ask, MayAsk
<1> HIDE DEF r, n
<1>3. /\ ops' \in Seq(OpSet) /\ Len(ops') = Len(ops) + 1
      /\ DOMAIN ops' = DOMAIN ops \cup {n} /\ n \notin DOMAIN ops
      /\ ops'[n] = r /\ \A j \in DOMAIN ops : ops'[j] = ops[j]
  BY <1>1, <1>2, AddOp DEF n
<1>4. OpOK(r)
  BY <1>1 DEF OpOK, AskAt
<1>5. OpsInv'
  <2>1. Len(ops') <= MaxOps
    BY <1>2, <1>3
  <2>2. \A j \in DOMAIN ops' : OpOK(ops'[j])
    BY <1>3, <1>4 DEF TablesInv, OpsInv
  <2> QED BY <1>3, <2>1, <2>2 DEF OpsInv, OpOK
<1>6. Uploads' = Uploads /\ Uploads \subseteq DOMAIN ops
  BY <1>1, <1>3 DEF Uploads
<1>7. CtlsInv' /\ ServerInv'
  <2>1. UNCHANGED <<file, cfgs, ctls, cur, link, copied, losses>>
    BY DEF server, control
  <2>2. \A j \in DOMAIN ops' : ops'[j].on <= cur' /\ (ops'[j].at = "visitors" => ops'[j].on # 0)
    BY <1>1, <1>3, <2>1 DEF TablesInv, ServerInv
  <2> QED BY <2>1, <2>2 DEF TablesInv, CtlsInv, ServerInv, OpenOK
<1> QED BY <1>3, <1>5, <1>6, <1>7

\* A step of the page that leaves requests, frpc and its control alone.
LEMMA PageStep ==
    ASSUME Inv, PageInv', UNCHANGED <<server, control, ops>>
    PROVE  Inv'
<1>1. UNCHANGED <<file, cfgs, ctls, cur, link, copied, losses, ops>>
  BY DEF server, control
<1>2. OpsInv' /\ CtlsInv' /\ ServerInv'
  BY <1>1 DEF Inv, TablesInv, OpsInv, CtlsInv, ServerInv, OpOK, OpenOK
<1>3. Uploads' = Uploads /\ \A j \in Uploads : ops'[j] = ops[j]
  BY <1>1 DEF Uploads
<1>4. DeepInv'
  BY <1>1, <1>3, KeepUploads DEF Inv
<1> QED BY <1>2, <1>4 DEF Inv, TablesInv

LEMMA AskInv ==
    ASSUME Inv, NEW t \in Tab, NEW kind \in {"get", "status"}, Ask(t, kind),
           UNCHANGED <<server, control>>, PageInv'
    PROVE  Inv'
<1>1. /\ OpsInv' /\ CtlsInv' /\ ServerInv' /\ Uploads' = Uploads /\ DOMAIN ops \subseteq DOMAIN ops'
      /\ \A j \in Uploads : ops'[j] = ops[j]
  BY AskStep DEF Inv
<1>2. DeepInv'
  BY <1>1, KeepUploads DEF Inv, server, control
<1> QED BY <1>1, <1>2 DEF Inv, TablesInv

LEMMA OpenPageInv == \A t \in Tab, p \in {"/", "/configure"} : Inv /\ OpenPage(t, p) => Inv'
<1> SUFFICES ASSUME NEW t \in Tab, NEW p \in {"/", "/configure"}, Inv, OpenPage(t, p) PROVE Inv'
  OBVIOUS
<1> USE TextsAssumption
<1>1. PageInv'
  <2>1. page' \in [Tab -> {"none", "/", "/configure"}]
    BY DEF Inv, TablesInv, PageInv, OpenPage
  <2>2. textarea' \in [Tab -> Text]
    BY DEF Inv, TablesInv, PageInv, OpenPage, Text
  <2>3. mounted' \in [Tab -> 0 .. MaxOps]
    <3>1. Len(ops) \in 0 .. MaxOps
      BY DEF Inv, TablesInv, OpsInv
    <3> QED BY <3>1 DEF Inv, TablesInv, PageInv, OpenPage
  <2>4. box' \in [Tab -> BOOLEAN]
    BY DEF Inv, TablesInv, PageInv, OpenPage
  <2> QED BY <2>1, <2>2, <2>3, <2>4 DEF PageInv
<1>2. PICK kind \in {"get", "status"} : Ask(t, kind)
  BY DEF OpenPage
<1> QED BY <1>1, <1>2, AskInv DEF OpenPage

LEMMA RefreshInv == \A t \in Tab : Inv /\ Refresh(t) => Inv'
<1> SUFFICES ASSUME NEW t \in Tab, Inv, Refresh(t) PROVE Inv' OBVIOUS
<1>1. PageInv'
  BY DEF Inv, TablesInv, PageInv, Refresh, tabs
<1> QED BY <1>1, AskInv DEF Refresh

LEMMA EditInv == \A t \in Tab, text \in Text : Inv /\ Edit(t, text) => Inv'
<1> SUFFICES ASSUME NEW t \in Tab, NEW text \in Text, Inv, Edit(t, text) PROVE Inv' OBVIOUS
<1>1. textarea' \in [Tab -> Text]
  BY DEF Inv, TablesInv, PageInv, Edit
<1>2. PageInv'
  BY <1>1 DEF Inv, TablesInv, PageInv, Edit
<1> QED BY <1>2, PageStep DEF Edit

LEMMA BoxInv == \A t \in Tab : Inv /\ (UploadConfig(t) \/ Cancel(t)) => Inv'
<1> SUFFICES ASSUME NEW t \in Tab, Inv, UploadConfig(t) \/ Cancel(t) PROVE Inv' OBVIOUS
<1>1. box' \in [Tab -> BOOLEAN]
  BY DEF Inv, TablesInv, PageInv, UploadConfig, Cancel
<1>2. PageInv'
  BY <1>1 DEF Inv, TablesInv, PageInv, UploadConfig, Cancel
<1> QED BY <1>2, PageStep DEF UploadConfig, Cancel

\* Other uploads under way are not alone any more.
LEMMA CrowdStep ==
    ASSUME TablesInv
    PROVE  /\ Crowd(ops) \in Seq(OpSet) /\ Len(Crowd(ops)) = Len(ops) /\ DOMAIN Crowd(ops) = DOMAIN ops
           /\ \A i \in DOMAIN ops :
                 /\ Crowd(ops)[i] \in OpSet /\ OpOK(Crowd(ops)[i])
                 /\ Crowd(ops)[i].kind = ops[i].kind /\ Crowd(ops)[i].text = ops[i].text
                 /\ Crowd(ops)[i].at = ops[i].at /\ Crowd(ops)[i].msg = ops[i].msg
                 /\ Crowd(ops)[i].put = ops[i].put /\ Crowd(ops)[i].body = ops[i].body
                 /\ Crowd(ops)[i].on = ops[i].on /\ Crowd(ops)[i].load = ops[i].load
                 /\ i \in Active => ~Crowd(ops)[i].alone
                 /\ i \notin Active => Crowd(ops)[i].alone = ops[i].alone
<1>1. ops \in Seq(OpSet) /\ \A i \in DOMAIN ops : ops[i] \in OpSet /\ OpOK(ops[i])
  BY DEF TablesInv, OpsInv
<1>2. /\ Crowd(ops) \in Seq(OpSet) /\ Len(Crowd(ops)) = Len(ops) /\ DOMAIN Crowd(ops) = DOMAIN ops
      /\ \A i \in Active : Crowd(ops)[i] = [ops[i] EXCEPT !.alone = FALSE]
      /\ \A i \in DOMAIN ops \ Active : Crowd(ops)[i] = ops[i]
  BY <1>1, CrowdFacts
<1>3. ASSUME NEW i \in DOMAIN ops, i \in Active
      PROVE  /\ Crowd(ops)[i] \in OpSet /\ OpOK(Crowd(ops)[i])
             /\ Crowd(ops)[i].kind = ops[i].kind /\ Crowd(ops)[i].text = ops[i].text
             /\ Crowd(ops)[i].at = ops[i].at /\ Crowd(ops)[i].msg = ops[i].msg
             /\ Crowd(ops)[i].put = ops[i].put /\ Crowd(ops)[i].body = ops[i].body
             /\ Crowd(ops)[i].on = ops[i].on /\ Crowd(ops)[i].load = ops[i].load
             /\ ~Crowd(ops)[i].alone
  <2> DEFINE r == [ops[i] EXCEPT !.alone = FALSE]
  <2>1. /\ r \in OpSet /\ ~r.alone
        /\ r.tab = ops[i].tab /\ r.kind = ops[i].kind /\ r.text = ops[i].text /\ r.at = ops[i].at
        /\ r.msg = ops[i].msg /\ r.put = ops[i].put /\ r.load = ops[i].load
        /\ r.body = ops[i].body /\ r.on = ops[i].on /\ r.rows = ops[i].rows
    BY <1>1, SetAlone
  <2>2. Crowd(ops)[i] = r
    BY <1>2, <1>3
  <2> HIDE DEF r
  <2>3. OpOK(r)
    BY <1>1, <2>1 DEF OpOK
  <2> QED BY <2>1, <2>2, <2>3
<1> QED BY <1>1, <1>2, <1>3

\* A step that crowds the uploads under way, and may add one.
LEMMA CrowdedInv ==
    ASSUME Inv, DOMAIN ops \subseteq DOMAIN ops',
           \A i \in DOMAIN ops : ops'[i] = Crowd(ops)[i],
           \A i \in DOMAIN ops' \ DOMAIN ops :
              /\ ops'[i].kind = "upload" /\ ops'[i].at \in {"put", "done"} /\ ops'[i].put = "none"
              /\ ops'[i].on = 0
              /\ Acts(ops'[i]) /\ ops'[i].alone => Active = {} /\ link = "idle",
           \A i, j \in DOMAIN ops' \ DOMAIN ops : i = j,
           UNCHANGED <<file, cfgs, cur>>,
           \/ UNCHANGED <<ctls, link, copied>>
           \/ /\ link' = "proxies" /\ copied' = cfgs /\ DOMAIN ops' = DOMAIN ops
              /\ link = "idle" /\ (cur # 0 => ctls'[cur].stage = "done")
              /\ \A c \in 1 .. cur : ctls'[c] = ctls[c]
    PROVE  DeepInv'
<1>1. \A i \in DOMAIN ops :
         /\ ops'[i].kind = ops[i].kind /\ ops'[i].text = ops[i].text
         /\ ops'[i].at = ops[i].at /\ ops'[i].msg = ops[i].msg
         /\ ops'[i].put = ops[i].put /\ ops'[i].body = ops[i].body /\ ops'[i].on = ops[i].on
         /\ i \in Active => ~ops'[i].alone
         /\ i \notin Active => ops'[i].alone = ops[i].alone
  BY CrowdStep DEF Inv
<1>2. Uploads' = Uploads \cup (DOMAIN ops' \ DOMAIN ops) /\ Uploads \subseteq DOMAIN ops
  BY <1>1 DEF Uploads
<1>3. Active' = {i \in DOMAIN ops' : Acts(ops'[i])}
  BY DEF Active, Uploads, Served, Acts
<1>4. \A i \in DOMAIN ops : i \in Active' => i \in Active
  BY <1>1, <1>3, ActiveIs DEF Acts
<1>5. ASSUME NEW i \in Active', ops'[i].alone PROVE i \in DOMAIN ops' \ DOMAIN ops /\ Active = {} /\ link = "idle"
  BY <1>1, <1>3, <1>4, <1>5
<1>6. Solo'
  <2> SUFFICES ASSUME NEW i \in Active', ops'[i].alone
               PROVE  link' = "idle" /\ \A j \in Active' : j = i
    BY DEF Solo
  <2>1. i \in DOMAIN ops' \ DOMAIN ops /\ Active = {} /\ link = "idle"
    BY <1>5
  <2>2. \A j \in Active' : j \in DOMAIN ops' \ DOMAIN ops
    BY <1>3, <1>4, <2>1
  <2> QED BY <2>1, <2>2
<1>7. SoloEffect'
  <2> SUFFICES ASSUME NEW i \in Active', ops'[i].alone PROVE Effect(ops[i])'
    BY DEF SoloEffect
  <2>1. i \in DOMAIN ops' \ DOMAIN ops
    BY <1>5
  <2> QED BY <2>1 DEF Effect
<1>8. Undisturbed' => Undisturbed /\ Active = {}
  BY <1>1, <1>2, ActiveIs DEF Undisturbed, Active
<1>9. NoWriteFailed' => NoWriteFailed
  BY <1>1, <1>2 DEF NoWriteFailed
<1>10. RunsInv'
  <2> SUFFICES ASSUME Undisturbed' PROVE RunsInv'
    BY DEF RunsInv
  <2>1. Updating => Updating'
    BY <1>1, <1>2 DEF Updating
  <2> QED BY <1>8, <2>1 DEF Inv, DeepInv, RunsInv
<1>11. KnownInv'
  <2> SUFFICES ASSUME Undisturbed', NoWriteFailed' PROVE KnownInv'
    BY DEF KnownInv
  <2>1. Known \subseteq Known'
    BY <1>1, <1>2 DEF Known
  <2>2. (\A i \in Uploads' : ops'[i].at # "truncated") => \A i \in Uploads : ops[i].at # "truncated"
    BY <1>1, <1>2
  <2>3. \A i \in Uploads' : ops'[i].at = "loaded" => i \in Uploads /\ ops[i].at = "loaded" /\ ops'[i].body = ops[i].body
    BY <1>1, <1>2
  <2> QED BY <1>8, <1>9, <2>1, <2>2, <2>3 DEF Inv, DeepInv, KnownInv
<1>12. LoginInv'
  BY DEF Inv, DeepInv, LoginInv
<1>13. \A c : Late(c) => Late(c)'
  BY <1>1, <1>2 DEF Late
<1>14. StoppedInv'
  <2>1. /\ \A c \in 1 .. cur : ctls'[c] = ctls[c]
        /\ link' \in {"closing", "assign"} => link' = link
    OBVIOUS
  <2> QED BY <1>13, <2>1 DEF Inv, DeepInv, StoppedInv
<1> QED BY <1>6, <1>7, <1>10, <1>11, <1>12, <1>14 DEF DeepInv

LEMMA ConfirmInv == \A t \in Tab : Inv /\ Confirm(t) => Inv'
<1> SUFFICES ASSUME NEW t \in Tab, Inv, Confirm(t) PROVE Inv' OBVIOUS
<1> USE TextsAssumption
<1> DEFINE solo == Active = {} /\ link = "idle"
           e == Op(t, "upload", Empty, "done", TRUE)
           u == Op(t, "upload", textarea[t], "put", solo)
           r == IF textarea[t] = Empty THEN [e EXCEPT !.msg = "empty"] ELSE u
           n == Len(ops) + 1
<1>1. /\ Len(ops) < MaxOps /\ ops' = Append(Crowd(ops), r) /\ box' = [box EXCEPT ![t] = FALSE]
      /\ UNCHANGED <<page, mounted, textarea, file, cfgs, ctls, cur, link, copied, losses>>
  BY DEF Confirm, MayAsk, server, control
<1>2. textarea[t] \in Text /\ Empty \in Text
  BY DEF Inv, TablesInv, PageInv, Text
<1>3. /\ r \in OpSet /\ r.kind = "upload" /\ r.at \in {"put", "done"} /\ r.put = "none"
      /\ r.on = 0
      /\ Acts(r) /\ r.alone => solo
  <2>1. "upload" \in Kinds /\ "done" \in AskAt \cup UploadAt /\ "put" \in AskAt \cup UploadAt
    BY DEF Kinds, AskAt, UploadAt
  <2>2. CASE textarea[t] = Empty
    <3>1. e \in OpSet /\ e.kind = "upload" /\ e.at = "done" /\ e.put = "none" /\ e.on = 0
      BY <1>2, <2>1 DEF Op, OpSet, Message
    <3> HIDE DEF e
    <3>2. [e EXCEPT !.msg = "empty"] \in OpSet
      BY <3>1 DEF OpSet, Message
    <3>3. /\ [e EXCEPT !.msg = "empty"].kind = "upload" /\ [e EXCEPT !.msg = "empty"].at = "done"
          /\ [e EXCEPT !.msg = "empty"].put = "none" /\ [e EXCEPT !.msg = "empty"].on = 0
          /\ [e EXCEPT !.msg = "empty"].msg = "empty"
      BY <3>1 DEF OpSet
    <3>4. r = [e EXCEPT !.msg = "empty"]
      BY <2>2
    <3> HIDE DEF r
    <3> QED BY <3>2, <3>3, <3>4 DEF Acts
  <2>3. CASE textarea[t] # Empty
    <3>1. solo \in BOOLEAN
      OBVIOUS
    <3> HIDE DEF solo
    <3>2. u \in OpSet /\ u.kind = "upload" /\ u.at = "put" /\ u.put = "none" /\ u.on = 0 /\ u.alone = solo
      BY <1>2, <2>1, <3>1, NewOp
    <3>3. r = u
      BY <2>3
    <3> HIDE DEF r, u
    <3> QED BY <3>2, <3>3
  <2> QED BY <2>2, <2>3
<1> HIDE DEF r
<1>4. /\ Crowd(ops) \in Seq(OpSet) /\ Len(Crowd(ops)) = Len(ops) /\ DOMAIN Crowd(ops) = DOMAIN ops
      /\ \A i \in DOMAIN ops : OpOK(Crowd(ops)[i]) /\ Crowd(ops)[i].at = ops[i].at /\ Crowd(ops)[i].on = ops[i].on
  BY CrowdStep DEF Inv
<1>5. /\ ops' \in Seq(OpSet) /\ Len(ops') = Len(ops) + 1
      /\ DOMAIN ops' = DOMAIN ops \cup {n} /\ n \notin DOMAIN ops
      /\ ops'[n] = r /\ \A j \in DOMAIN ops : ops'[j] = Crowd(ops)[j]
  BY <1>1, <1>3, <1>4, AddOp
<1>6. Len(ops) \in Nat /\ MaxOps \in Nat
  BY DEF Inv, TablesInv, OpsInv
<1>7. OpOK(r)
  BY <1>3 DEF OpOK, UploadAt
<1> HIDE DEF n
<1>8. OpsInv'
  <2>1. Len(ops') <= MaxOps
    BY <1>1, <1>5, <1>6
  <2>2. \A j \in DOMAIN ops' : OpOK(ops'[j])
    BY <1>4, <1>5, <1>7
  <2> QED BY <1>5, <2>1, <2>2 DEF OpsInv, OpOK
<1>9. PageInv'
  <2>1. box' \in [Tab -> BOOLEAN]
    BY <1>1 DEF Inv, TablesInv, PageInv
  <2> QED BY <1>1, <2>1 DEF Inv, TablesInv, PageInv
<1>10. CtlsInv' /\ ServerInv'
  <2>1. \A j \in DOMAIN ops' : ops'[j].on <= cur' /\ (ops'[j].at = "visitors" => ops'[j].on # 0)
    BY <1>1, <1>3, <1>4, <1>5 DEF Inv, TablesInv, ServerInv
  <2> QED BY <1>1, <2>1 DEF Inv, TablesInv, CtlsInv, ServerInv, OpenOK
<1>11. DeepInv'
  <2>1. DOMAIN ops \subseteq DOMAIN ops' /\ \A i \in DOMAIN ops' \ DOMAIN ops : i = n
    BY <1>5
  <2>2. \A i \in DOMAIN ops' \ DOMAIN ops :
           /\ ops'[i].kind = "upload" /\ ops'[i].at \in {"put", "done"} /\ ops'[i].put = "none"
           /\ ops'[i].on = 0
           /\ Acts(ops'[i]) /\ ops'[i].alone => Active = {} /\ link = "idle"
    BY <1>3, <1>5, <2>1
  <2>3. \A i, j \in DOMAIN ops' \ DOMAIN ops : i = j
    BY <2>1
  <2>4. \A i \in DOMAIN ops : ops'[i] = Crowd(ops)[i]
    BY <1>5
  <2>5. DOMAIN ops \subseteq DOMAIN ops'
    BY <2>1
  <2>6. UNCHANGED <<file, cfgs, cur>>
    BY <1>1
  <2>7. UNCHANGED <<ctls, link, copied>>
    BY <1>1
  <2> QED BY <2>2, <2>3, <2>4, <2>5, <2>6, <2>7, CrowdedInv
<1> QED BY <1>8, <1>9, <1>10, <1>11 DEF Inv, TablesInv

---------------------------------------------------------------------------
(* The controls *)

\* The steps of the controls leave the requests, the file and the service's copy alone.
LEMMA ControlStep ==
    ASSUME Inv, UNCHANGED <<file, cfgs, tabs, ops>>, CtlsInv', ServerInv', LoginInv', StoppedInv',
           link = "idle" => link' = "idle", SoloEffect', RunsInv'
    PROVE  Inv'
<1>1. UNCHANGED <<file, cfgs, page, mounted, textarea, box, ops>>
  BY DEF tabs
<1>2. Uploads' = Uploads /\ Active' = Active
  BY <1>1 DEF Uploads, Active, Served
<1>3. OpsInv' /\ PageInv'
  BY <1>1 DEF Inv, TablesInv, OpsInv, OpOK, PageInv
<1>4. Solo'
  BY <1>1, <1>2 DEF Inv, DeepInv, Solo
<1>5. KnownInv'
  BY <1>1, <1>2 DEF Inv, DeepInv, KnownInv, Undisturbed, NoWriteFailed, Known
<1> QED BY <1>3, <1>4, <1>5 DEF Inv, TablesInv, DeepInv

LEMMA SameUploads ==
    ASSUME UNCHANGED ops
    PROVE  /\ Uploads' = Uploads /\ Active' = Active /\ (Undisturbed' <=> Undisturbed)
           /\ (Updating' <=> Updating) /\ \A c : Late(c)' <=> Late(c)
<1>1. Uploads' = Uploads
  BY DEF Uploads
<1> QED BY <1>1 DEF Active, Served, Undisturbed, Updating, Late

\* The worker of a lost control closes it.
LEMMA CloseInv ==
    ASSUME Inv, NEW c \in DOMAIN ctls, UNCHANGED <<file, cfgs, cur, link, copied, tabs, ops>>,
           losses' \in 0 .. MaxLosses, CtlsInv', Len(ctls') = Len(ctls), DOMAIN ctls' = DOMAIN ctls,
           \A d \in DOMAIN ctls : d # c => ctls'[d] = ctls[d],
           ctls[c].stage # "done", ctls'[c].stage # "up", ctls'[c].pxy \in {ctls[c].pxy, Empty}, ctls'[c].open \in {ctls[c].open, {}}
    PROVE  Inv'
<1>1. /\ Len(ctls) \in Nat /\ DOMAIN ctls = 1 .. Len(ctls) /\ cur \in Nat /\ cur <= Len(ctls)
      /\ cur # 0 => cur \in DOMAIN ctls
  BY CtlNumbers DEF Inv, TablesInv
<1>2. ServerInv'
  BY DEF Inv, TablesInv, ServerInv
<1>3. \A d \in DOMAIN ctls :
         /\ ctls'[d].stage = "up" => ctls'[d] = ctls[d]
         /\ ctls[d].pxy = Empty => ctls'[d].pxy = Empty
         /\ ctls[d].open = {} => ctls'[d].open = {}
  OBVIOUS
<1>4. LoginInv'
  <2>1. ctls # << >> /\ Len(ctls) \in DOMAIN ctls
    BY <1>1 DEF Inv, TablesInv, CtlsInv
  <2>2. link # "idle" /\ cur # 0 => ctls'[cur].stage = "done"
    BY <1>1 DEF Inv, DeepInv, LoginInv
  <2> QED BY <1>3, <2>1, <2>2 DEF Inv, DeepInv, LoginInv
<1>5. /\ Uploads' = Uploads /\ Active' = Active /\ (Undisturbed' <=> Undisturbed)
      /\ (Updating' <=> Updating) /\ \A d : Late(d)' <=> Late(d)
  BY SameUploads
<1>6. StoppedInv'
  <2>1. \A d \in 1 .. cur : d \in DOMAIN ctls
    BY <1>1
  <2> QED BY <1>3, <1>5, <2>1 DEF Inv, DeepInv, StoppedInv
<1>7. SoloEffect'
  <2> SUFFICES ASSUME NEW i \in Active', ops'[i].alone PROVE Effect(ops[i])'
    BY DEF SoloEffect
  <2>1. Effect(ops[i]) /\ i \in DOMAIN ops
    BY <1>5 DEF Inv, DeepInv, SoloEffect, Active, Uploads
  <2>2. ops[i].at = "visitors" => cur # 0
    <3>1. ops[i].at = "visitors" => ops[i].on # 0 /\ ops[i].on = cur
      BY <2>1 DEF Inv, TablesInv, ServerInv, Effect
    <3> QED BY <3>1
  <2> QED BY <1>1, <1>3, <2>1, <2>2 DEF Effect
<1>8. RunsInv'
  BY <1>1, <1>3, <1>5 DEF Inv, DeepInv, RunsInv
<1> QED BY <1>2, <1>4, <1>6, <1>7, <1>8, ControlStep

LEMMA LoseControlInv == \A c \in DOMAIN ctls : Inv /\ LoseControl(c) => Inv'
<1> SUFFICES ASSUME NEW c \in DOMAIN ctls, Inv, LoseControl(c) PROVE Inv' OBVIOUS
<1>1. /\ losses < MaxLosses /\ losses' = losses + 1 /\ ctls[c].stage = "up"
      /\ ctls' = [ctls EXCEPT ![c].stage = "closing", ![c].pxy = Empty]
      /\ UNCHANGED <<file, cfgs, cur, link, copied, tabs, ops>>
  BY DEF LoseControl
<1>2. losses' \in 0 .. MaxLosses
  BY <1>1, TextsAssumption DEF Inv, TablesInv, ServerInv
<1>3. CtlsInv /\ ctls[c] \in CtlSet /\ Empty \in Config
  BY DEF Inv, TablesInv, CtlsInv, Config
<1> DEFINE k == [ctls[c] EXCEPT !.stage = "closing", !.pxy = Empty]
<1>4. /\ ctls' = [ctls EXCEPT ![c] = k] /\ k \in CtlSet
      /\ k.vis = ctls[c].vis /\ k.open = ctls[c].open /\ k.stage = "closing" /\ k.pxy = Empty
  BY <1>1, <1>3 DEF CtlSet, CtlsInv
<1> HIDE DEF k
<1>5. /\ CtlsInv' /\ Len(ctls') = Len(ctls) /\ DOMAIN ctls' = DOMAIN ctls
      /\ \A d \in DOMAIN ctls : d # c => ctls'[d] = ctls[d]
      /\ ctls'[c].pxy = Empty /\ ctls'[c].open = ctls[c].open /\ ctls'[c].stage = "closing"
  BY <1>3, <1>4, CtlStep
<1> QED BY <1>1, <1>2, <1>5, CloseInv

LEMMA CloseVisitorsInv == \A c \in DOMAIN ctls : Inv /\ CloseVisitors(c) => Inv'
<1> SUFFICES ASSUME NEW c \in DOMAIN ctls, Inv, CloseVisitors(c) PROVE Inv' OBVIOUS
<1>1. /\ ctls' = [ctls EXCEPT ![c].stage = "done", ![c].open = {}] /\ ctls[c].stage = "closing"
      /\ UNCHANGED <<file, cfgs, cur, link, copied, losses, tabs, ops>>
  BY DEF CloseVisitors, control
<1>2. losses' \in 0 .. MaxLosses
  BY <1>1 DEF Inv, TablesInv, ServerInv
<1>3. CtlsInv /\ ctls[c] \in CtlSet
  BY DEF Inv, TablesInv, CtlsInv
<1> DEFINE k == [ctls[c] EXCEPT !.stage = "done", !.open = {}]
<1>4. /\ ctls' = [ctls EXCEPT ![c] = k] /\ k \in CtlSet
      /\ k.vis = ctls[c].vis /\ k.pxy = ctls[c].pxy /\ k.stage = "done" /\ k.open = {}
  BY <1>1, <1>3 DEF CtlSet, CtlsInv
<1> HIDE DEF k
<1>5. /\ CtlsInv' /\ Len(ctls') = Len(ctls) /\ DOMAIN ctls' = DOMAIN ctls
      /\ \A d \in DOMAIN ctls : d # c => ctls'[d] = ctls[d]
      /\ ctls'[c].pxy = ctls[c].pxy /\ ctls'[c].open = {} /\ ctls'[c].stage = "done"
  BY <1>3, <1>4, CtlStep
<1> QED BY <1>1, <1>2, <1>5, CloseInv

LEMMA CopyCfgsInv == Inv /\ CopyCfgs => Inv'
<1> SUFFICES ASSUME Inv, CopyCfgs PROVE Inv' OBVIOUS
<1>1. /\ link = "idle" /\ link' = "proxies" /\ copied' = cfgs /\ ops' = Crowd(ops)
      /\ cur # 0 => ctls[cur].stage = "done"
      /\ ctls' = Append(ctls, NewControl)
      /\ UNCHANGED <<file, cfgs, cur, losses, page, mounted, textarea, box>>
  BY DEF CopyCfgs, tabs
<1>2. /\ Crowd(ops) \in Seq(OpSet) /\ Len(Crowd(ops)) = Len(ops) /\ DOMAIN Crowd(ops) = DOMAIN ops
      /\ \A i \in DOMAIN ops : OpOK(Crowd(ops)[i]) /\ Crowd(ops)[i].at = ops[i].at /\ Crowd(ops)[i].on = ops[i].on
  BY CrowdStep DEF Inv
<1>3. OpsInv'
  BY <1>1, <1>2 DEF Inv, TablesInv, OpsInv, OpOK
<1>4. PageInv'
  BY <1>1 DEF Inv, TablesInv, PageInv
<1>5. NewControl \in CtlSet /\ OpenOK(NewControl)
  BY TextsAssumption DEF NewControl, CtlSet, OpenOK, Config
<1>6. /\ ctls \in Seq(CtlSet) /\ Len(ctls) \in Nat /\ DOMAIN ctls = 1 .. Len(ctls)
      /\ cur = Len(ctls)
  BY <1>1, CtlNumbers DEF Inv, TablesInv, CtlsInv, ServerInv
<1> HIDE DEF NewControl
<1>7. /\ ctls' \in Seq(CtlSet) /\ Len(ctls') = cur + 1
      /\ DOMAIN ctls' = DOMAIN ctls \cup {cur + 1} /\ ctls'[cur + 1] = NewControl
      /\ \A c \in DOMAIN ctls : ctls'[c] = ctls[c]
  BY <1>1, <1>5, <1>6
<1>8. CtlsInv'
  <2>1. \A c \in DOMAIN ctls' : OpenOK(ctls'[c])
    BY <1>5, <1>7 DEF Inv, TablesInv, CtlsInv
  <2> QED BY <1>7, <2>1 DEF CtlsInv, OpenOK
<1>9. ServerInv'
  <2>1. \A j \in DOMAIN ops' : ops'[j].on <= cur' /\ (ops'[j].at = "visitors" => ops'[j].on # 0)
    BY <1>1, <1>2 DEF Inv, TablesInv, ServerInv
  <2> QED BY <1>1, <1>7, <2>1 DEF Inv, TablesInv, ServerInv
<1>10. DeepInv'
  <2>1. DOMAIN ops' = DOMAIN ops /\ \A i \in DOMAIN ops : ops'[i] = Crowd(ops)[i]
    BY <1>1, <1>2
  <2>2. UNCHANGED <<file, cfgs, cur>>
    BY <1>1
  <2>3. \A c \in 1 .. cur : ctls'[c] = ctls[c]
    BY <1>6, <1>7
  <2>4. cur # 0 => ctls'[cur].stage = "done"
    BY <1>1, <1>6, <1>7
  <2> QED BY <1>1, <2>1, <2>2, <2>3, <2>4, CrowdedInv
<1> QED BY <1>3, <1>4, <1>8, <1>9, <1>10 DEF Inv, TablesInv

\* During a login no upload is alone.
LEMMA LoginAlone ==
    ASSUME Inv, link # "idle", UNCHANGED ops
    PROVE  SoloEffect'
<1>1. Active' = Active
  BY SameUploads
<1> QED BY <1>1 DEF Inv, DeepInv, Solo, SoloEffect

\* Run works on the new control, which is not svr.ctl yet.
LEMMA RunStep ==
    ASSUME Inv, link \in {"proxies", "visitors"}, link' \in {"visitors", "replace"},
           UNCHANGED <<file, cfgs, cur, copied, losses, tabs, ops>>,
           CtlsInv', Len(ctls') = Len(ctls), LoginInv',
           \A d \in DOMAIN ctls : d # Len(ctls) => ctls'[d] = ctls[d]
    PROVE  Inv'
<1>1. /\ Len(ctls) \in Nat /\ DOMAIN ctls = 1 .. Len(ctls) /\ cur \in Nat /\ cur + 1 = Len(ctls)
  BY CtlNumbers DEF Inv, TablesInv, ServerInv
<1>2. ServerInv'
  BY DEF Inv, TablesInv, ServerInv
<1>3. (Undisturbed' <=> Undisturbed) /\ \A d : Late(d)' <=> Late(d)
  BY SameUploads
<1>4. \A d \in 1 .. cur : ctls'[d] = ctls[d]
  BY <1>1
<1>5. StoppedInv'
  BY <1>3, <1>4 DEF Inv, DeepInv, StoppedInv
<1>6. RunsInv'
  BY <1>3 DEF Inv, DeepInv, RunsInv
<1>7. SoloEffect'
  BY LoginAlone
<1> QED BY <1>2, <1>5, <1>6, <1>7, ControlStep

LEMMA RunProxiesInv == Inv /\ RunProxies => Inv'
<1> SUFFICES ASSUME Inv, RunProxies PROVE Inv' OBVIOUS
<1> DEFINE n == Len(ctls)
<1>1. /\ link = "proxies" /\ link' = "visitors" /\ ctls' = [ctls EXCEPT ![n].pxy = copied]
      /\ UNCHANGED <<file, cfgs, cur, copied, losses, tabs, ops>>
  BY DEF RunProxies, ProxiesUpdated
<1>2. CtlsInv /\ n \in DOMAIN ctls /\ ctls[n] \in CtlSet
      /\ cur # n /\ (cur # 0 => cur \in DOMAIN ctls)
  BY <1>1, CtlNumbers DEF Inv, TablesInv, CtlsInv
<1>3. copied \in Config
  BY DEF Inv, TablesInv, ServerInv
<1> HIDE DEF n
<1> DEFINE k == [ctls[n] EXCEPT !.pxy = copied]
<1>4. /\ ctls' = [ctls EXCEPT ![n] = k] /\ k \in CtlSet /\ k.pxy = copied
      /\ k.vis = ctls[n].vis /\ k.open = ctls[n].open /\ k.stage = ctls[n].stage
  BY <1>1, <1>2, <1>3 DEF CtlSet, CtlsInv
<1> HIDE DEF k
<1>5. /\ CtlsInv' /\ Len(ctls') = Len(ctls)
      /\ \A d \in DOMAIN ctls : d # n => ctls'[d] = ctls[d]
      /\ ctls'[n].pxy = copied
  BY <1>2, <1>3, <1>4, CtlStep
<1>6. LoginInv'
  BY <1>1, <1>2, <1>5 DEF Inv, DeepInv, LoginInv, n
<1> QED BY <1>1, <1>5, <1>6, RunStep DEF n

LEMMA RunVisitorsInv == Inv /\ RunVisitors => Inv'
<1> SUFFICES ASSUME Inv, RunVisitors PROVE Inv' OBVIOUS
<1> DEFINE n == Len(ctls)
<1>1. /\ link = "visitors" /\ link' = "replace" /\ ctls' = VisitorsUpdated(n, copied)
      /\ UNCHANGED <<file, cfgs, cur, copied, losses, tabs, ops>>
  BY DEF RunVisitors
<1>2. CtlsInv /\ n \in DOMAIN ctls /\ ctls # << >> /\ cur # n /\ (cur # 0 => cur \in DOMAIN ctls)
  BY <1>1, CtlNumbers DEF Inv, TablesInv
<1>3. copied \in Config
  BY DEF Inv, TablesInv, ServerInv
<1> HIDE DEF n
<1>4. /\ CtlsInv' /\ Len(ctls') = Len(ctls)
      /\ \A d \in DOMAIN ctls : d # n => ctls'[d] = ctls[d]
      /\ ctls'[n].vis = copied /\ ctls'[n].pxy = ctls[n].pxy /\ ctls'[n].stage = ctls[n].stage
  BY <1>1, <1>2, <1>3, VisitorsCome
<1>5. LoginInv'
  BY <1>1, <1>2, <1>4 DEF Inv, DeepInv, LoginInv, n
<1> QED BY <1>1, <1>4, <1>5, RunStep DEF n

\* The login closes the previous control once more.
LEMMA CloseOldStep ==
    ASSUME Inv, link \in {"replace", "closing"}, link' \in {"closing", "assign"}, cur # 0,
           link' = "assign" => link = "closing",
           UNCHANGED <<file, cfgs, cur, copied, losses, tabs, ops>>,
           CtlsInv', Len(ctls') = Len(ctls),
           \A d \in DOMAIN ctls : d # cur => ctls'[d] = ctls[d],
           ctls'[cur].stage = ctls[cur].stage,
           ctls'[cur].pxy = Empty \/ (link = "closing" /\ ctls'[cur].pxy = ctls[cur].pxy),
           link' = "assign" => ctls'[cur].open = {}
    PROVE  Inv'
<1>1. /\ Len(ctls) \in Nat /\ DOMAIN ctls = 1 .. Len(ctls) /\ cur \in Nat /\ cur + 1 = Len(ctls)
      /\ Len(ctls) \in DOMAIN ctls /\ Len(ctls) # cur /\ ctls # << >>
  BY CtlNumbers DEF Inv, TablesInv, ServerInv
<1>2. ServerInv'
  BY DEF Inv, TablesInv, ServerInv
<1>3. (Undisturbed' <=> Undisturbed) /\ \A d : Late(d)' <=> Late(d)
  BY SameUploads
<1>4. LoginInv'
  BY <1>1 DEF Inv, DeepInv, LoginInv
<1>5. StoppedInv'
  <2> SUFFICES ASSUME NEW d \in 1 .. cur, ~Late(d)
               PROVE  /\ d < cur \/ link' \in {"closing", "assign"} => ctls'[d].pxy = Empty
                      /\ d < cur \/ link' = "assign" => ctls'[d].open = {}
    BY <1>3 DEF StoppedInv
  <2>1. CASE d = cur
    <3>1. link = "closing" => ctls[cur].pxy = Empty
      BY <2>1 DEF Inv, DeepInv, StoppedInv
    <3> QED BY <1>1, <2>1, <3>1
  <2>2. CASE d # cur
    <3>1. d < cur /\ ctls'[d] = ctls[d]
      BY <1>1, <2>2
    <3> QED BY <3>1 DEF Inv, DeepInv, StoppedInv
  <2> QED BY <2>1, <2>2
<1>6. RunsInv'
  BY <1>3 DEF Inv, DeepInv, RunsInv
<1>7. SoloEffect'
  BY LoginAlone
<1> QED BY <1>2, <1>4, <1>5, <1>6, <1>7, ControlStep

LEMMA CloseOldProxiesInv == Inv /\ CloseOldProxies => Inv'
<1> SUFFICES ASSUME Inv, CloseOldProxies PROVE Inv' OBVIOUS
<1>1. /\ link = "replace" /\ cur # 0 /\ link' = "closing" /\ ctls' = [ctls EXCEPT ![cur].pxy = Empty]
      /\ UNCHANGED <<file, cfgs, cur, copied, losses, tabs, ops>>
  BY DEF CloseOldProxies
<1>2. /\ CtlsInv /\ cur \in DOMAIN ctls /\ ctls[cur] \in CtlSet /\ Empty \in Config
  BY <1>1, CtlNumbers DEF Inv, TablesInv, CtlsInv, Config
<1> DEFINE k == [ctls[cur] EXCEPT !.pxy = Empty]
<1>3. /\ ctls' = [ctls EXCEPT ![cur] = k] /\ k \in CtlSet /\ k.pxy = Empty
      /\ k.vis = ctls[cur].vis /\ k.open = ctls[cur].open /\ k.stage = ctls[cur].stage
  BY <1>1, <1>2 DEF CtlSet, CtlsInv
<1> HIDE DEF k
<1>4. /\ CtlsInv' /\ Len(ctls') = Len(ctls)
      /\ \A d \in DOMAIN ctls : d # cur => ctls'[d] = ctls[d]
      /\ ctls'[cur].pxy = Empty /\ ctls'[cur].stage = ctls[cur].stage
  BY <1>2, <1>3, CtlStep
<1> QED BY <1>1, <1>4, CloseOldStep

LEMMA CloseOldVisitorsInv == Inv /\ CloseOldVisitors => Inv'
<1> SUFFICES ASSUME Inv, CloseOldVisitors PROVE Inv' OBVIOUS
<1>1. /\ link = "closing" /\ link' = "assign" /\ ctls' = [ctls EXCEPT ![cur].open = {}]
      /\ UNCHANGED <<file, cfgs, cur, copied, losses, tabs, ops>>
  BY DEF CloseOldVisitors
<1>2. cur # 0
  BY <1>1 DEF Inv, TablesInv, ServerInv
<1>3. /\ CtlsInv /\ cur \in DOMAIN ctls /\ ctls[cur] \in CtlSet /\ ctls[cur].stage = "done"
  BY <1>1, <1>2, CtlNumbers DEF Inv, TablesInv, CtlsInv, DeepInv, LoginInv
<1> DEFINE k == [ctls[cur] EXCEPT !.open = {}]
<1>4. /\ ctls' = [ctls EXCEPT ![cur] = k] /\ k \in CtlSet /\ k.open = {}
      /\ k.vis = ctls[cur].vis /\ k.pxy = ctls[cur].pxy /\ k.stage = ctls[cur].stage
  BY <1>1, <1>3 DEF CtlSet, CtlsInv
<1> HIDE DEF k
<1>5. /\ CtlsInv' /\ Len(ctls') = Len(ctls)
      /\ \A d \in DOMAIN ctls : d # cur => ctls'[d] = ctls[d]
      /\ ctls'[cur].pxy = ctls[cur].pxy /\ ctls'[cur].open = {}
      /\ ctls'[cur].stage = ctls[cur].stage
  BY <1>3, <1>4, CtlStep
<1> QED BY <1>1, <1>2, <1>5, CloseOldStep

LEMMA ReplaceControlInv == Inv /\ ReplaceControl => Inv'
<1> SUFFICES ASSUME Inv, ReplaceControl PROVE Inv' OBVIOUS
<1>1. /\ link = "assign" \/ (link = "replace" /\ cur = 0)
      /\ link' = "idle" /\ cur' = Len(ctls)
      /\ UNCHANGED <<file, cfgs, ctls, copied, losses, tabs, ops>>
  BY DEF ReplaceControl
<1>2. /\ Len(ctls) \in Nat /\ DOMAIN ctls = 1 .. Len(ctls) /\ cur \in Nat /\ cur + 1 = Len(ctls)
      /\ ctls # << >>
  BY <1>1, CtlNumbers DEF Inv, TablesInv, ServerInv
<1>3. CtlsInv'
  BY <1>1 DEF Inv, TablesInv, CtlsInv, OpenOK
<1>4. ServerInv'
  <2>1. \A i \in DOMAIN ops : ops[i].on \in Nat
    <3>1. \A i \in DOMAIN ops : ops[i] \in OpSet
      BY DEF Inv, TablesInv, OpsInv
    <3>2. \A op \in OpSet : op.on \in Nat
      BY DEF OpSet
    <3> QED BY <3>1, <3>2
  <2>2. \A i \in DOMAIN ops' : ops'[i].on <= cur' /\ (ops'[i].at = "visitors" => ops'[i].on # 0)
    BY <1>1, <1>2, <2>1 DEF Inv, TablesInv, ServerInv
  <2> QED BY <1>1, <1>2, <2>2 DEF Inv, TablesInv, ServerInv
<1>5. (Undisturbed' <=> Undisturbed) /\ \A d : Late(d)' <=> Late(d)
  BY <1>1, SameUploads
<1>6. LoginInv'
  BY <1>1 DEF LoginInv
<1>7. StoppedInv'
  <2> SUFFICES ASSUME NEW d \in 1 .. cur', ~Late(d), d < cur' PROVE ctls[d].pxy = Empty /\ ctls[d].open = {}
    BY <1>1, <1>5 DEF StoppedInv
  <2>1. d \in 1 .. cur
    BY <1>1, <1>2
  <2>2. link = "assign"
    BY <1>1, <2>1
  <2> QED BY <2>1, <2>2 DEF Inv, DeepInv, StoppedInv
<1>8. RunsInv'
  BY <1>1, <1>2, <1>5 DEF Inv, DeepInv, RunsInv, LoginInv
<1>9. SoloEffect'
  BY <1>1, LoginAlone
<1> QED BY <1>1, <1>3, <1>4, <1>6, <1>7, <1>8, <1>9, ControlStep

---------------------------------------------------------------------------
(* Requests of the pages *)

LEMMA RequestInv ==
    ASSUME Inv, NEW i \in DOMAIN ops, ops[i].kind # "upload", NEW r \in OpSet, OpOK(r),
           r.kind = ops[i].kind, r.on <= cur, ops' = [ops EXCEPT ![i] = r], PageInv', UNCHANGED <<server, control>>
    PROVE  Inv'
<1>1. /\ ops' \in Seq(OpSet) /\ Len(ops') = Len(ops) /\ DOMAIN ops' = DOMAIN ops
      /\ ops'[i] = r /\ \A j \in DOMAIN ops : j # i => ops'[j] = ops[j]
  BY EditOp DEF Inv, TablesInv, OpsInv
<1>2. OpsInv'
  <2>1. \A j \in DOMAIN ops' : OpOK(ops'[j])
    BY <1>1 DEF Inv, TablesInv, OpsInv
  <2> QED BY <1>1, <2>1 DEF Inv, TablesInv, OpsInv, OpOK
<1>3. UNCHANGED <<file, cfgs, ctls, cur, link, copied, losses>>
  BY DEF server, control
<1>4. CtlsInv' /\ ServerInv'
  <2>1. r.at # "visitors"
    BY DEF OpOK, AskAt
  <2>2. \A j \in DOMAIN ops' : ops'[j].on <= cur' /\ (ops'[j].at = "visitors" => ops'[j].on # 0)
    BY <1>1, <1>3, <2>1 DEF Inv, TablesInv, ServerInv
  <2> QED BY <1>3, <2>2 DEF Inv, TablesInv, CtlsInv, ServerInv, OpenOK
<1>5. Uploads' = Uploads /\ \A j \in Uploads : ops'[j] = ops[j]
  BY <1>1 DEF Uploads
<1>6. DeepInv'
  BY <1>1, <1>3, <1>5, KeepUploads DEF Inv
<1> QED BY <1>2, <1>4, <1>6 DEF Inv, TablesInv

\* A request that is over is kept only as a number.
LEMMA OverInv ==
    ASSUME Inv, NEW i \in DOMAIN ops, ops[i].at \in {"sent", "answered"}, PageInv',
           ops' = [ops EXCEPT ![i] = Op(@.tab, @.kind, Empty, "done", TRUE)],
           UNCHANGED <<server, control>>
    PROVE  Inv'
<1> DEFINE r == Op(ops[i].tab, ops[i].kind, Empty, "done", TRUE)
<1>1. ops[i] \in OpSet /\ OpOK(ops[i])
  BY DEF Inv, TablesInv, OpsInv
<1>2. ops[i].kind # "upload" /\ ops[i].tab \in Tab /\ ops[i].kind \in Kinds
  BY <1>1 DEF OpOK, UploadAt, OpSet
<1>3. r \in OpSet /\ r.kind = ops[i].kind /\ r.at = "done" /\ r.put = "none" /\ r.on = 0
  BY <1>2 DEF Op, OpSet, Message, Text, AskAt
<1>4. ops' = [ops EXCEPT ![i] = r]
  OBVIOUS
<1> HIDE DEF r
<1>5. OpOK(r)
  BY <1>2, <1>3 DEF OpOK, AskAt
<1>6. r.on <= cur
  BY <1>3 DEF Inv, TablesInv, ServerInv
<1> QED BY <1>2, <1>3, <1>4, <1>5, <1>6, RequestInv

LEMMA ArrivesInv == \A i \in DOMAIN ops : Inv /\ Arrives(i) => Inv'
<1> SUFFICES ASSUME NEW i \in DOMAIN ops, Inv, Arrives(i) PROVE Inv' OBVIOUS
<1>1. ops[i] \in OpSet /\ OpOK(ops[i]) /\ ops[i].at = "answered"
  BY DEF Inv, TablesInv, OpsInv, Arrives
<1>2. textarea' \in [Tab -> Text]
  <2>1. textarea \in [Tab -> Text]
    BY DEF Inv, TablesInv, PageInv
  <2>2. ops[i].body \in Text
    BY <1>1 DEF OpSet
  <2>3. \/ ops[i].kind = "get" /\ textarea' = [textarea EXCEPT ![ops[i].tab] = ops[i].body]
        \/ textarea' = textarea
    BY DEF Arrives
  <2> QED BY <2>1, <2>2, <2>3
<1>3. PageInv'
  BY <1>2 DEF Arrives, Inv, TablesInv, PageInv
<1> QED BY <1>1, <1>3, OverInv DEF Arrives

LEMMA AskFailsInv == \A i \in DOMAIN ops : Inv /\ AskFails(i) => Inv'
<1> SUFFICES ASSUME NEW i \in DOMAIN ops, Inv, AskFails(i) PROVE Inv' OBVIOUS
<1>1. PageInv'
  BY DEF AskFails, tabs, Inv, TablesInv, PageInv
<1> QED BY <1>1, OverInv DEF AskFails

LEMMA GetConfigInv == \A i \in DOMAIN ops : Inv /\ GetConfig(i) => Inv'
<1> SUFFICES ASSUME NEW i \in DOMAIN ops, Inv, GetConfig(i) PROVE Inv' OBVIOUS
<1>1. PageInv'
  BY DEF GetConfig, tabs, Inv, TablesInv, PageInv
<1>2. PICK body \in {file, ErrorText} : ops' = [ops EXCEPT ![i].at = "answered", ![i].body = body]
  BY DEF GetConfig
<1>3. body \in Text
  BY DEF Inv, TablesInv, ServerInv, Text
<1> DEFINE r == [ops[i] EXCEPT !.at = "answered", !.body = body]
<1>4. ops[i] \in OpSet /\ ops[i].kind = "get" /\ ops \in Seq(OpSet)
  BY DEF Inv, TablesInv, OpsInv, GetConfig
<1>5. ops' = [ops EXCEPT ![i] = r]
  BY <1>2, <1>4 DEF OpSet
<1>6. r \in OpSet /\ r.kind = "get" /\ r.at = "answered" /\ r.on = ops[i].on
  BY <1>3, <1>4 DEF OpSet, AskAt
<1> HIDE DEF r
<1>7. OpOK(r) /\ r.on <= cur
  BY <1>3, <1>6 DEF OpOK, AskAt, Inv, TablesInv, ServerInv
<1> QED BY <1>1, <1>4, <1>5, <1>6, <1>7, RequestInv DEF GetConfig

LEMMA StatusInv == \A i \in DOMAIN ops : Inv /\ Status(i) => Inv'
<1> SUFFICES ASSUME NEW i \in DOMAIN ops, Inv, Status(i) PROVE Inv' OBVIOUS
<1>1. PageInv'
  BY DEF Status, tabs, Inv, TablesInv, PageInv
<1>2. \E c \in Config : Running = ProxiesOf(c)
  <2>1. CASE cur = 0
    BY <2>1, TextsAssumption DEF Running, Config
  <2>2. CASE cur # 0
    <3>1. ctls[cur] \in CtlSet
      BY <2>2, CtlNumbers DEF Inv, TablesInv, CtlsInv
    <3> QED BY <2>2, <3>1 DEF Running, CtlSet
  <2> QED BY <2>1, <2>2
<1> DEFINE rows == StatusResp(Running)
           r == [ops[i] EXCEPT !.at = "answered", !.rows = rows]
<1>3. ops' = [ops EXCEPT ![i].at = "answered", ![i].rows = rows]
  BY DEF Status
<1>4. ops[i] \in OpSet /\ ops[i].kind = "status" /\ ops \in Seq(OpSet)
  BY DEF Inv, TablesInv, OpsInv, Status
<1>5. rows \in {{}} \cup {StatusResp(ProxiesOf(c)) : c \in Config}
  BY <1>2
<1> HIDE DEF rows
<1>6. ops' = [ops EXCEPT ![i] = r]
  BY <1>3, <1>4 DEF OpSet
<1>7. r \in OpSet /\ r.kind = "status" /\ r.at = "answered" /\ r.on = ops[i].on
  BY <1>4, <1>5 DEF OpSet, AskAt
<1> HIDE DEF r
<1>8. OpOK(r) /\ r.on <= cur
  BY <1>7 DEF OpOK, AskAt, Inv, TablesInv, ServerInv
<1> QED BY <1>1, <1>4, <1>6, <1>7, <1>8, RequestInv DEF Status

---------------------------------------------------------------------------
(* Steps of an upload *)

LEMMA UploadTables ==
    ASSUME TablesInv, NEW i \in DOMAIN ops, NEW r \in OpSet, OpOK(r), ops' = [ops EXCEPT ![i] = r],
           UNCHANGED <<control, tabs>>,
           file' \in Text, cfgs' \in Config, CtlsInv', Len(ctls') = Len(ctls), UNCHANGED cur,
           r.on <= cur, r.at = "visitors" => r.on # 0
    PROVE  TablesInv'
<1>1. /\ ops' \in Seq(OpSet) /\ Len(ops') = Len(ops) /\ DOMAIN ops' = DOMAIN ops
      /\ ops'[i] = r /\ \A j \in DOMAIN ops : j # i => ops'[j] = ops[j]
  BY EditOp DEF TablesInv, OpsInv
<1>2. OpsInv'
  <2>1. \A j \in DOMAIN ops' : OpOK(ops'[j])
    BY <1>1 DEF TablesInv, OpsInv
  <2> QED BY <1>1, <2>1 DEF TablesInv, OpsInv, OpOK
<1>3. PageInv'
  BY DEF tabs, TablesInv, PageInv
<1>4. UNCHANGED <<link, copied, losses>>
  BY DEF control
<1>5. \A j \in DOMAIN ops' : ops'[j].on <= cur' /\ (ops'[j].at = "visitors" => ops'[j].on # 0)
  BY <1>1 DEF TablesInv, ServerInv
<1>6. ServerInv'
  BY <1>4, <1>5 DEF TablesInv, ServerInv
<1> QED BY <1>2, <1>3, <1>6 DEF TablesInv

\* A step that leaves the controls alone.
LEMMA UploadStays ==
    ASSUME TablesInv, NEW i \in DOMAIN ops, NEW r \in OpSet, OpOK(r), ops' = [ops EXCEPT ![i] = r],
           UNCHANGED <<control, tabs>>, file' \in Text, cfgs' \in Config, UNCHANGED <<ctls, cur>>,
           r.on = ops[i].on, r.at = "visitors" => ops[i].at = "visitors"
    PROVE  TablesInv'
<1>1. CtlsInv' /\ Len(ctls') = Len(ctls)
  BY DEF TablesInv, CtlsInv, OpenOK
<1>2. r.on <= cur /\ (r.at = "visitors" => r.on # 0)
  BY DEF TablesInv, ServerInv
<1> QED BY <1>1, <1>2, UploadTables

\* What an upload under way does concerns no other that is alone.
LEMMA UploadSolo ==
    ASSUME Inv, NEW i \in Active, NEW r \in OpSet, ops' = [ops EXCEPT ![i] = r],
           r.kind = "upload", r.text = ops[i].text, r.alone = ops[i].alone,
           ops[i].put = "failed" => r.put = "failed", UNCHANGED link,
           r.alone => Effect(ops[i])'
    PROVE  Solo' /\ SoloEffect'
<1>1. i \in Uploads /\ Acts(ops[i]) /\ ops \in Seq(OpSet)
  BY ActiveIs DEF Active, Inv, TablesInv, OpsInv
<1>2. /\ Uploads' = Uploads /\ Active' \subseteq Active
      /\ ops'[i] = r /\ \A j \in Uploads : j # i => ops'[j] = ops[j]
      /\ \A j \in Uploads : ops'[j].alone = ops[j].alone
  BY <1>1, EditMono
<1>3. Active \subseteq Uploads
  BY DEF Active
<1>4. Solo'
  BY <1>2, <1>3 DEF Inv, DeepInv, Solo
<1>5. SoloEffect'
  <2> SUFFICES ASSUME NEW j \in Active', ops'[j].alone PROVE Effect(ops[j])'
    BY DEF SoloEffect
  <2>1. j \in Active /\ ops[j].alone
    BY <1>2, <1>3
  <2>2. j = i
    BY <2>1 DEF Inv, DeepInv, Solo
  <2> QED BY <1>2, <2>2
<1> QED BY <1>4, <1>5

\* A step that does not touch what frpc runs.
LEMMA UploadRuns ==
    ASSUME Inv, NEW i \in Uploads, NEW r \in OpSet, ops' = [ops EXCEPT ![i] = r],
           r.kind = "upload", r.text = ops[i].text, r.alone = ops[i].alone,
           ops[i].put = "failed" => r.put = "failed", Acts(r) => Acts(ops[i]),
           UNCHANGED <<cfgs, ctls, cur, link, copied>>,
           ops[i].at \in {"set", "visitors"} => r.at \in {"set", "visitors"}
    PROVE  RunsInv'
<1>1. ops \in Seq(OpSet)
  BY DEF Inv, TablesInv, OpsInv
<1>2. /\ Uploads' = Uploads /\ (Undisturbed' <=> Undisturbed)
      /\ ops'[i] = r /\ \A j \in Uploads : j # i => ops'[j] = ops[j]
  BY <1>1, EditMono
<1>3. Updating => Updating'
  BY <1>2 DEF Updating
<1> QED BY <1>2, <1>3 DEF Inv, DeepInv, RunsInv

\* An upload that has come to a control stays with it, and is not alone again.
LEMMA UploadLate ==
    ASSUME ops \in Seq(OpSet), NEW i \in Uploads, NEW r \in OpSet, ops' = [ops EXCEPT ![i] = r],
           r.kind = "upload", r.alone = ops[i].alone, ops[i].on # 0 => r.on = ops[i].on
    PROVE  \A c \in Nat : c # 0 /\ Late(c) => Late(c)'
<1>1. /\ DOMAIN ops' = DOMAIN ops /\ i \in DOMAIN ops /\ ops'[i] = r
      /\ \A j \in DOMAIN ops : j # i => ops'[j] = ops[j]
  BY EditOp DEF Uploads
<1>2. Uploads' = Uploads /\ Uploads \subseteq DOMAIN ops
  BY <1>1 DEF Uploads
<1> QED BY <1>1, <1>2 DEF Late

LEMMA UploadControls ==
    ASSUME Inv, NEW i \in Uploads, NEW r \in OpSet, ops' = [ops EXCEPT ![i] = r],
           r.kind = "upload", r.alone = ops[i].alone, r.on = ops[i].on,
           UNCHANGED <<ctls, cur, link, copied>>
    PROVE  LoginInv' /\ StoppedInv'
<1>1. ops \in Seq(OpSet)
  BY DEF Inv, TablesInv, OpsInv
<1>2. \A c \in Nat : c # 0 /\ Late(c) => Late(c)'
  BY <1>1, UploadLate
<1>3. \A c \in 1 .. cur : Late(c) => Late(c)'
  BY <1>2, UpTo DEF Inv, TablesInv, ServerInv
<1> QED BY <1>3 DEF Inv, DeepInv, LoginInv, StoppedInv

\* A step that leaves the file and the service's configuration what they were, or begins to write.
LEMMA UploadKnown ==
    ASSUME Inv, NEW i \in Uploads, NEW r \in OpSet, ops' = [ops EXCEPT ![i] = r],
           r.kind = "upload", r.text = ops[i].text, r.alone = ops[i].alone,
           ops[i].put = "failed" => r.put = "failed", Acts(r) => Acts(ops[i]),
           UNCHANGED cfgs,
           \/ r.at = "truncated"
           \/ UNCHANGED file /\ ops[i].at # "truncated",
           r.at = "loaded" => ops[i].at = "loaded" /\ r.body = ops[i].body
    PROVE  KnownInv'
<1>1. ops \in Seq(OpSet)
  BY DEF Inv, TablesInv, OpsInv
<1>2. /\ Uploads' = Uploads /\ Known' = Known /\ (Undisturbed' <=> Undisturbed) /\ (NoWriteFailed' => NoWriteFailed)
      /\ ops'[i] = r /\ \A j \in Uploads : j # i => ops'[j] = ops[j]
  BY <1>1, EditMono
<1> SUFFICES ASSUME Undisturbed', NoWriteFailed' PROVE KnownInv'
  BY DEF KnownInv
<1>3. cfgs' \in Known'
  BY <1>2 DEF Inv, DeepInv, KnownInv
<1>4. (\A j \in Uploads' : ops'[j].at # "truncated") => file' \in Known'
  <2> SUFFICES ASSUME \A j \in Uploads' : ops'[j].at # "truncated" PROVE file' \in Known'
    OBVIOUS
  <2>1. UNCHANGED file /\ \A j \in Uploads : ops[j].at # "truncated"
    BY <1>2
  <2> QED BY <1>2, <2>1 DEF Inv, DeepInv, KnownInv
<1>5. \A j \in Uploads' : ops'[j].at = "loaded" => ops'[j].body \in Known'
  BY <1>2 DEF Inv, DeepInv, KnownInv
<1> QED BY <1>3, <1>4, <1>5 DEF KnownInv

\* A step that touches neither the file nor frpc: its page moves it on.
LEMMA UploadMoves ==
    ASSUME Inv, NEW i \in Active, NEW r \in OpSet, OpOK(r), ops' = [ops EXCEPT ![i] = r],
           r.kind = "upload", r.text = ops[i].text, r.alone = ops[i].alone,
           r.put = ops[i].put, r.load = ops[i].load, r.body = ops[i].body, r.on = ops[i].on,
           \/ r.at = ops[i].at
           \/ ops[i].at = "putAnswered" /\ r.at = "reload"
           \/ ops[i].at \in {"put", "reload"} /\ r.at = "dropped",
           UNCHANGED <<server, control, tabs>>
    PROVE  Inv'
<1>1. /\ i \in Uploads /\ i \in DOMAIN ops /\ Acts(ops[i]) /\ ops \in Seq(OpSet) /\ OpOK(ops[i])
      /\ UNCHANGED <<file, cfgs, ctls, cur, link, copied, losses>>
  BY ActiveIs DEF Active, Uploads, Inv, TablesInv, OpsInv, server, control
<1>2. TablesInv'
  <2>1. r.at = "visitors" => ops[i].at = "visitors"
    OBVIOUS
  <2>2. file' \in Text /\ cfgs' \in Config
    BY <1>1 DEF Inv, TablesInv, ServerInv
  <2> QED BY <1>1, <2>1, <2>2, UploadStays DEF Inv
<1>3. Solo' /\ SoloEffect'
  <2>1. ASSUME r.alone PROVE Effect(ops[i])'
    <3>1. Effect(ops[i])
      BY <2>1 DEF Inv, DeepInv, SoloEffect
    <3>2. ops'[i] = r
      BY <1>1, EditOp
    <3> QED BY <1>1, <3>1, <3>2 DEF Effect
  <2> QED BY <1>1, <2>1, UploadSolo
<1>4. RunsInv'
  BY <1>1, UploadRuns
<1>5. KnownInv'
  BY <1>1, UploadKnown
<1>6. LoginInv' /\ StoppedInv'
  BY <1>1, UploadControls
<1> QED BY <1>2, <1>3, <1>4, <1>5, <1>6 DEF Inv, DeepInv

\* Where only an upload can be.
LEMMA IsUpload ==
    ASSUME TablesInv, NEW i \in DOMAIN ops, ops[i].at \notin AskAt
    PROVE  /\ ops[i] \in OpSet /\ OpOK(ops[i]) /\ ops[i].kind = "upload" /\ ops \in Seq(OpSet)
           /\ i \in Uploads
           /\ ops[i].msg = "none" \/ ops[i].at \notin {"dropped", "putAnswered", "reloadAnswered", "done"}
                 => i \in Active
<1>1. ops[i] \in OpSet /\ OpOK(ops[i]) /\ ops \in Seq(OpSet)
  BY DEF TablesInv, OpsInv
<1>2. ops[i].kind = "upload"
  BY <1>1 DEF OpOK
<1>3. i \in Uploads
  BY <1>2 DEF Uploads
<1>4. ops[i].msg = "none" \/ ops[i].at \notin {"dropped", "putAnswered", "reloadAnswered", "done"}
         => i \in Active
  BY <1>2, ActiveIs DEF Acts
<1> QED BY <1>1, <1>2, <1>3, <1>4

LEMMA PutArrivesInv == \A i \in DOMAIN ops : Inv /\ PutArrives(i) => Inv'
<1> SUFFICES ASSUME NEW i \in DOMAIN ops, Inv, PutArrives(i) PROVE Inv' OBVIOUS
<1>1. /\ ops[i].msg = "none" /\ ops[i].at = "putAnswered" /\ ops' = [ops EXCEPT ![i].at = "reload"]
      /\ UNCHANGED <<server, control, tabs>>
  BY DEF PutArrives, Moves
<1>2. ops[i] \in OpSet /\ OpOK(ops[i]) /\ ops[i].kind = "upload" /\ ops \in Seq(OpSet) /\ i \in Active
  BY <1>1, IsUpload DEF Inv, AskAt
<1> DEFINE r == [ops[i] EXCEPT !.at = "reload"]
<1>3. ops' = [ops EXCEPT ![i] = r]
  BY <1>1, <1>2 DEF OpSet
<1>4. /\ r \in OpSet /\ r.kind = "upload" /\ r.text = ops[i].text /\ r.alone = ops[i].alone
      /\ r.at = "reload" /\ r.put = ops[i].put /\ r.load = ops[i].load /\ r.body = ops[i].body /\ r.on = ops[i].on
  BY <1>2, SetAt DEF UploadAt
<1> HIDE DEF r
<1>5. OpOK(r)
  BY <1>1, <1>2, <1>4 DEF OpOK, UploadAt
<1> QED BY <1>1, <1>2, <1>3, <1>4, <1>5, UploadMoves

LEMMA ReloadArrivesInv == \A i \in DOMAIN ops : Inv /\ ReloadArrives(i) => Inv'
<1> SUFFICES ASSUME NEW i \in DOMAIN ops, Inv, ReloadArrives(i) PROVE Inv' OBVIOUS
<1>1. /\ ops[i].msg = "none" /\ ops[i].at = "reloadAnswered" /\ ops' = [ops EXCEPT ![i].msg = "success"]
      /\ UNCHANGED <<server, control, tabs>>
  BY DEF ReloadArrives
<1>2. ops[i] \in OpSet /\ OpOK(ops[i]) /\ ops[i].kind = "upload" /\ ops \in Seq(OpSet) /\ i \in Active
  BY <1>1, IsUpload DEF Inv, AskAt
<1> DEFINE r == [ops[i] EXCEPT !.msg = "success"]
<1>3. ops' = [ops EXCEPT ![i] = r]
  BY <1>1, <1>2 DEF OpSet
<1>4. /\ r \in OpSet /\ r.kind = "upload" /\ r.text = ops[i].text /\ r.alone = ops[i].alone
      /\ r.at = ops[i].at /\ r.put = ops[i].put /\ r.load = ops[i].load /\ r.body = ops[i].body /\ r.on = ops[i].on
  BY <1>2 DEF OpSet, Message
<1> HIDE DEF r
<1>5. OpOK(r)
  BY <1>1, <1>2, <1>4 DEF OpOK, UploadAt
<1> QED BY <1>1, <1>2, <1>3, <1>4, <1>5, UploadMoves

LEMMA FailsInv == \A i \in DOMAIN ops : Inv /\ (PutFails(i) \/ ReloadFails(i)) => Inv'
<1> SUFFICES ASSUME NEW i \in DOMAIN ops, Inv, PutFails(i) \/ ReloadFails(i) PROVE Inv' OBVIOUS
<1>1. /\ ops[i].msg = "none" /\ ops[i].at \notin AskAt /\ UNCHANGED <<server, control, tabs>>
  BY DEF PutFails, ReloadFails, Fails, AskAt
<1>2. PICK msg \in {"putFailed", "reloadFailed"},
           at \in {ops[i].at} \cup {"dropped" : x \in {ops[i].at} \cap {"put", "reload"}} :
              ops' = [ops EXCEPT ![i].msg = msg, ![i].at = at]
  BY DEF PutFails, ReloadFails, Fails
<1>3. at = ops[i].at \/ (ops[i].at \in {"put", "reload"} /\ at = "dropped")
  OBVIOUS
<1>4. ops[i] \in OpSet /\ OpOK(ops[i]) /\ ops[i].kind = "upload" /\ ops \in Seq(OpSet) /\ i \in Active
  BY <1>1, IsUpload DEF Inv
<1> DEFINE r == [ops[i] EXCEPT !.msg = msg, !.at = at]
<1>5. ops' = [ops EXCEPT ![i] = r]
  BY <1>2, <1>4 DEF OpSet
<1>6. at \in UploadAt /\ msg \in Message
  BY <1>3, <1>4 DEF OpOK, UploadAt, Message
<1>7. /\ r \in OpSet /\ r.kind = "upload" /\ r.text = ops[i].text /\ r.alone = ops[i].alone
      /\ r.at = at /\ r.put = ops[i].put /\ r.load = ops[i].load /\ r.body = ops[i].body /\ r.on = ops[i].on
  BY <1>4, <1>6 DEF OpSet
<1> HIDE DEF r
<1>8. OpOK(r)
  BY <1>3, <1>4, <1>6, <1>7 DEF OpOK
<1> QED BY <1>1, <1>3, <1>4, <1>5, <1>7, <1>8, UploadMoves

---------------------------------------------------------------------------
(* The admin api *)

LEMMA TruncateInv == \A i \in DOMAIN ops : Inv /\ Truncate(i) => Inv'
<1> SUFFICES ASSUME NEW i \in DOMAIN ops, Inv, Truncate(i) PROVE Inv' OBVIOUS
<1>1. /\ ops[i].at = "put" /\ ops' = [ops EXCEPT ![i].at = "truncated"] /\ file' = Empty
      /\ UNCHANGED <<cfgs, ctls, cur, control, tabs>>
  BY DEF Truncate, Moves
<1>2. ops[i] \in OpSet /\ OpOK(ops[i]) /\ ops[i].kind = "upload" /\ ops \in Seq(OpSet) /\ i \in Active /\ i \in Uploads
  BY <1>1, IsUpload DEF Inv, AskAt
<1> DEFINE r == [ops[i] EXCEPT !.at = "truncated"]
<1>3. ops' = [ops EXCEPT ![i] = r]
  BY <1>1, <1>2 DEF OpSet
<1>4. /\ r \in OpSet /\ r.kind = "upload" /\ r.text = ops[i].text /\ r.alone = ops[i].alone
      /\ r.at = "truncated" /\ r.put = ops[i].put /\ r.body = ops[i].body /\ r.on = ops[i].on
  BY <1>2, SetAt DEF UploadAt
<1>5. r.put = "none" /\ r.on = 0 /\ Acts(ops[i])
  BY <1>1, <1>2, <1>4, ActiveIs DEF OpOK
<1> HIDE DEF r
<1>6. OpOK(r)
  BY <1>4, <1>5 DEF OpOK, UploadAt
<1>7. TablesInv'
  <2>1. file' \in Text /\ cfgs' \in Config
    BY <1>1 DEF Text, Inv, TablesInv, ServerInv
  <2> QED BY <1>1, <1>3, <1>4, <1>6, <2>1, UploadStays DEF Inv
<1>8. Solo' /\ SoloEffect'
  <2>1. ops'[i] = r
    BY <1>2, <1>3, <1>4, EditOp
  <2>2. Effect(ops[i])'
    BY <1>4, <1>5, <2>1 DEF Effect
  <2>3. UNCHANGED link /\ (ops[i].put = "failed" => r.put = "failed")
    BY <1>1, <1>4 DEF control
  <2> QED BY <1>2, <1>3, <1>4, <2>2, <2>3, UploadSolo
<1>9. RunsInv'
  BY <1>1, <1>2, <1>3, <1>4, <1>5, UploadRuns DEF control
<1>10. KnownInv'
  BY <1>1, <1>2, <1>3, <1>4, <1>5, UploadKnown
<1>11. LoginInv' /\ StoppedInv'
  BY <1>1, <1>2, <1>3, <1>4, UploadControls DEF control
<1> QED BY <1>7, <1>8, <1>9, <1>10, <1>11 DEF Inv, DeepInv

LEMMA WriteInv == \A i \in DOMAIN ops : Inv /\ Write(i) => Inv'
<1> SUFFICES ASSUME NEW i \in DOMAIN ops, Inv, Write(i) PROVE Inv' OBVIOUS
<1>1. /\ ops[i].at = "truncated" /\ ops' = [ops EXCEPT ![i].at = "putAnswered", ![i].put = "ok"]
      /\ file' = ops[i].text /\ UNCHANGED <<cfgs, ctls, cur, control, tabs>>
  BY DEF Write
<1>2. ops[i] \in OpSet /\ OpOK(ops[i]) /\ ops[i].kind = "upload" /\ ops \in Seq(OpSet) /\ i \in Active /\ i \in Uploads
  BY <1>1, IsUpload DEF Inv, AskAt
<1> DEFINE r == [ops[i] EXCEPT !.at = "putAnswered", !.put = "ok"]
<1>3. ops' = [ops EXCEPT ![i] = r]
  BY <1>1, <1>2 DEF OpSet
<1>4. /\ r \in OpSet /\ r.kind = "upload" /\ r.text = ops[i].text /\ r.alone = ops[i].alone
      /\ r.at = "putAnswered" /\ r.put = "ok" /\ r.on = ops[i].on
  BY <1>2 DEF OpSet, UploadAt
<1>5. ops[i].put # "failed" /\ ops[i].on = 0 /\ Acts(ops[i]) /\ ops[i].text \in Text
  BY <1>1, <1>2, ActiveIs DEF OpOK, OpSet
<1> HIDE DEF r
<1>6. OpOK(r)
  BY <1>4, <1>5 DEF OpOK, UploadAt
<1>7. TablesInv'
  <2>1. file' \in Text /\ cfgs' \in Config
    BY <1>1, <1>5 DEF Inv, TablesInv, ServerInv
  <2> QED BY <1>1, <1>3, <1>4, <1>6, <2>1, UploadStays DEF Inv
<1>8. Solo' /\ SoloEffect'
  <2>1. ops'[i] = r
    BY <1>2, <1>3, <1>4, EditOp
  <2>2. Effect(ops[i])'
    BY <1>1, <1>4, <2>1 DEF Effect
  <2> QED BY <1>1, <1>2, <1>3, <1>4, <1>5, <2>2, UploadSolo DEF control
<1>9. RunsInv'
  BY <1>1, <1>2, <1>3, <1>4, <1>5, UploadRuns DEF control
<1>10. KnownInv'
  <2>1. /\ Uploads' = Uploads /\ Known' = Known
        /\ (Undisturbed' <=> Undisturbed) /\ (NoWriteFailed' => NoWriteFailed)
        /\ ops'[i] = r /\ \A j \in Uploads : j # i => ops'[j] = ops[j]
    BY <1>2, <1>3, <1>4, <1>5, EditMono
  <2> SUFFICES ASSUME Undisturbed', NoWriteFailed' PROVE KnownInv'
    BY DEF KnownInv
  <2>2. file' \in Known'
    BY <1>1, <1>2, <2>1 DEF Known
  <2>3. cfgs' \in Known'
    BY <1>1, <2>1 DEF Inv, DeepInv, KnownInv
  <2>4. \A j \in Uploads' : ops'[j].at = "loaded" => ops'[j].body \in Known'
    BY <1>4, <2>1 DEF Inv, DeepInv, KnownInv
  <2> QED BY <2>2, <2>3, <2>4 DEF KnownInv
<1>11. LoginInv' /\ StoppedInv'
  BY <1>1, <1>2, <1>3, <1>4, UploadControls DEF control
<1> QED BY <1>7, <1>8, <1>9, <1>10, <1>11 DEF Inv, DeepInv

LEMMA WriteFailsInv == \A i \in DOMAIN ops : Inv /\ WriteFails(i) => Inv'
<1> SUFFICES ASSUME NEW i \in DOMAIN ops, Inv, WriteFails(i) PROVE Inv' OBVIOUS
<1>1. /\ ops[i].at \in {"put", "truncated"} /\ ops' = [ops EXCEPT ![i].at = "putAnswered", ![i].put = "failed"]
      /\ UNCHANGED <<server, control, tabs>>
  BY DEF WriteFails
<1>2. ops[i] \in OpSet /\ OpOK(ops[i]) /\ ops[i].kind = "upload" /\ ops \in Seq(OpSet) /\ i \in Active /\ i \in Uploads
  BY <1>1, IsUpload DEF Inv, AskAt
<1> DEFINE r == [ops[i] EXCEPT !.at = "putAnswered", !.put = "failed"]
<1>3. ops' = [ops EXCEPT ![i] = r]
  BY <1>1, <1>2 DEF OpSet
<1>4. /\ r \in OpSet /\ r.kind = "upload" /\ r.text = ops[i].text /\ r.alone = ops[i].alone
      /\ r.at = "putAnswered" /\ r.put = "failed" /\ r.on = ops[i].on
  BY <1>2 DEF OpSet, UploadAt
<1>5. Acts(ops[i]) /\ ops[i].on = 0
  BY <1>1, <1>2, ActiveIs DEF OpOK
<1> HIDE DEF r
<1>6. OpOK(r)
  BY <1>4, <1>5 DEF OpOK, UploadAt
<1>7. TablesInv'
  <2>1. file' \in Text /\ cfgs' \in Config
    BY <1>1 DEF server, Inv, TablesInv, ServerInv
  <2> QED BY <1>1, <1>3, <1>4, <1>6, <2>1, UploadStays DEF Inv, server
<1>8. ops'[i] = r
  BY <1>2, <1>3, <1>4, EditOp
<1>9. Solo' /\ SoloEffect'
  <2>1. Effect(ops[i])'
    BY <1>4, <1>8 DEF Effect
  <2> QED BY <1>1, <1>2, <1>3, <1>4, <2>1, UploadSolo DEF control
<1>10. RunsInv'
  BY <1>1, <1>2, <1>3, <1>4, <1>5, UploadRuns DEF control, server
<1>11. KnownInv'
  <2>1. Uploads' = Uploads
    BY <1>2, <1>3, <1>4, <1>5, EditMono
  <2> QED BY <1>2, <1>4, <1>8, <2>1 DEF KnownInv, NoWriteFailed
<1>12. LoginInv' /\ StoppedInv'
  BY <1>1, <1>2, <1>3, <1>4, UploadControls DEF control, server
<1> QED BY <1>7, <1>9, <1>10, <1>11, <1>12 DEF Inv, DeepInv

LEMMA LoadInv == \A i \in DOMAIN ops : Inv /\ Load(i) => Inv'
<1> SUFFICES ASSUME NEW i \in DOMAIN ops, Inv, Load(i) PROVE Inv' OBVIOUS
<1>1. ops[i].at = "reload" /\ UNCHANGED <<server, control, tabs>>
  BY DEF Load
<1>2. ops[i] \in OpSet /\ OpOK(ops[i]) /\ ops[i].kind = "upload" /\ ops \in Seq(OpSet) /\ i \in Active /\ i \in Uploads
  BY <1>1, IsUpload DEF Inv, AskAt
<1>3. Acts(ops[i]) /\ UNCHANGED <<file, cfgs, ctls, cur, link, copied, losses>>
  BY <1>1, <1>2, ActiveIs DEF server, control
<1> DEFINE G(r) ==
         /\ ops' = [ops EXCEPT ![i] = r]
         /\ r.kind = "upload" /\ r.text = ops[i].text /\ r.alone = ops[i].alone /\ r.put = ops[i].put
         /\ r.on = ops[i].on
         /\ \/ Loads(file) /\ r.at = "loaded" /\ r.load = "ok" /\ r.body = file
            \/ r.at = "reloadAnswered" /\ r.load = "failed"
<1>4. PICK r \in OpSet : G(r)
  <2>1. ASSUME Loads(file), ops' = [ops EXCEPT ![i].at = "loaded", ![i].load = "ok", ![i].body = file]
        PROVE  \E r \in OpSet : G(r)
    <3> DEFINE q == [ops[i] EXCEPT !.at = "loaded", !.load = "ok", !.body = file]
    <3>1. ops' = [ops EXCEPT ![i] = q]
      BY <1>2, <2>1 DEF OpSet
    <3>2. file \in Text
      BY DEF Inv, TablesInv, ServerInv
    <3>3. /\ q \in OpSet /\ q.kind = "upload" /\ q.text = ops[i].text /\ q.alone = ops[i].alone
          /\ q.put = ops[i].put /\ q.on = ops[i].on
          /\ q.at = "loaded" /\ q.load = "ok" /\ q.body = file
      BY <1>2, <3>2 DEF OpSet, UploadAt
    <3> HIDE DEF q
    <3> QED BY <2>1, <3>1, <3>3
  <2>2. ASSUME ops' = [ops EXCEPT ![i].at = "reloadAnswered", ![i].load = "failed"]
        PROVE  \E r \in OpSet : G(r)
    <3> DEFINE q == [ops[i] EXCEPT !.at = "reloadAnswered", !.load = "failed"]
    <3>1. ops' = [ops EXCEPT ![i] = q]
      BY <1>2, <2>2 DEF OpSet
    <3>2. /\ q \in OpSet /\ q.kind = "upload" /\ q.text = ops[i].text /\ q.alone = ops[i].alone
          /\ q.put = ops[i].put /\ q.on = ops[i].on
          /\ q.at = "reloadAnswered" /\ q.load = "failed"
      BY <1>2 DEF OpSet, UploadAt
    <3> HIDE DEF q
    <3> QED BY <3>1, <3>2
  <2> QED BY <2>1, <2>2 DEF Load
<1>5. OpOK(r)
  <2>1. ops[i].on = 0
    BY <1>1, <1>2 DEF OpOK
  <2> QED BY <1>4, <2>1 DEF OpOK, UploadAt, Loads, Config
<1>6. TablesInv'
  <2>1. file' \in Text /\ cfgs' \in Config
    BY <1>3 DEF Inv, TablesInv, ServerInv
  <2>2. r.at # "visitors"
    BY <1>4
  <2> QED BY <1>1, <1>3, <1>4, <1>5, <2>1, <2>2, UploadStays DEF Inv
<1>7. ops'[i] = r
  BY <1>2, <1>4, EditOp
<1>8. Solo' /\ SoloEffect'
  <2>1. ASSUME r.alone PROVE Effect(ops[i])'
    <3>1. r.put = "ok" => file = r.text
      BY <1>2, <1>4, <2>1 DEF Inv, DeepInv, SoloEffect, Effect
    <3> QED BY <1>3, <1>4, <1>7, <3>1 DEF Effect
  <2> QED BY <1>2, <1>3, <1>4, <2>1, UploadSolo
<1>9. RunsInv'
  BY <1>1, <1>2, <1>3, <1>4, UploadRuns
<1>10. KnownInv'
  <2>1. /\ Uploads' = Uploads /\ Known' = Known
        /\ (Undisturbed' <=> Undisturbed) /\ (NoWriteFailed' => NoWriteFailed)
        /\ \A j \in Uploads : j # i => ops'[j] = ops[j]
    BY <1>2, <1>3, <1>4, EditMono
  <2> SUFFICES ASSUME Undisturbed', NoWriteFailed' PROVE KnownInv'
    BY DEF KnownInv
  <2>2. \A j \in Uploads : ops[j].at # "truncated"
    <3> SUFFICES ASSUME NEW j \in Uploads, ops[j].at = "truncated" PROVE FALSE
      OBVIOUS
    <3>1. j \in Active
      BY DEF Active, Served
    <3>2. ops[i].alone
      BY <1>2, <2>1 DEF Undisturbed
    <3>3. j = i
      BY <1>2, <3>1, <3>2 DEF Inv, DeepInv, Solo
    <3> QED BY <1>1, <3>3
  <2>3. file \in Known
    BY <2>1, <2>2 DEF Inv, DeepInv, KnownInv
  <2>4. cfgs' \in Known'
    BY <1>3, <2>1 DEF Inv, DeepInv, KnownInv
  <2>5. \A j \in Uploads' : ops'[j].at = "loaded" => ops'[j].body \in Known'
    BY <1>4, <1>7, <2>1, <2>3 DEF Inv, DeepInv, KnownInv
  <2> QED BY <1>3, <2>1, <2>3, <2>4, <2>5 DEF KnownInv
<1>11. LoginInv' /\ StoppedInv'
  BY <1>2, <1>3, <1>4, UploadControls
<1> QED BY <1>6, <1>8, <1>9, <1>10, <1>11 DEF Inv, DeepInv

LEMMA SetCfgsInv == \A i \in DOMAIN ops : Inv /\ SetCfgs(i) => Inv'
<1> SUFFICES ASSUME NEW i \in DOMAIN ops, Inv, SetCfgs(i) PROVE Inv' OBVIOUS
<1>1. /\ ops[i].at = "loaded" /\ ops' = [ops EXCEPT ![i].at = "set"] /\ cfgs' = ops[i].body
      /\ UNCHANGED <<file, ctls, cur, control, tabs>>
  BY DEF SetCfgs, Moves
<1>2. ops[i] \in OpSet /\ OpOK(ops[i]) /\ ops[i].kind = "upload" /\ ops \in Seq(OpSet) /\ i \in Active /\ i \in Uploads
  BY <1>1, IsUpload DEF Inv, AskAt
<1> DEFINE r == [ops[i] EXCEPT !.at = "set"]
<1>3. ops' = [ops EXCEPT ![i] = r]
  BY <1>1, <1>2 DEF OpSet
<1>4. /\ r \in OpSet /\ r.kind = "upload" /\ r.text = ops[i].text /\ r.alone = ops[i].alone
      /\ r.at = "set" /\ r.put = ops[i].put /\ r.load = ops[i].load /\ r.body = ops[i].body /\ r.on = ops[i].on
  BY <1>2, SetAt DEF UploadAt
<1>5. ops[i].body \in Config /\ ops[i].load = "ok" /\ ops[i].on = 0 /\ Acts(ops[i]) /\ UNCHANGED <<link, copied, losses>>
  BY <1>1, <1>2, ActiveIs DEF OpOK, control
<1> HIDE DEF r
<1>6. OpOK(r)
  BY <1>4, <1>5 DEF OpOK, UploadAt
<1>7. TablesInv'
  <2>1. file' \in Text /\ cfgs' \in Config
    BY <1>1, <1>5 DEF Inv, TablesInv, ServerInv
  <2> QED BY <1>1, <1>3, <1>4, <1>6, <2>1, UploadStays DEF Inv
<1>8. /\ Uploads' = Uploads /\ Known' = Known
      /\ (Undisturbed' <=> Undisturbed) /\ (NoWriteFailed' => NoWriteFailed)
      /\ ops'[i] = r /\ \A j \in Uploads : j # i => ops'[j] = ops[j]
  BY <1>2, <1>3, <1>4, <1>5, EditMono
<1>9. Solo' /\ SoloEffect'
  <2>1. ASSUME r.alone PROVE Effect(ops[i])'
    <3>1. Effect(ops[i])
      BY <1>2, <1>4, <2>1 DEF Inv, DeepInv, SoloEffect
    <3> QED BY <1>1, <1>4, <1>8, <3>1 DEF Effect
  <2> QED BY <1>2, <1>3, <1>4, <1>5, <2>1, UploadSolo
<1>10. RunsInv'
  <2> SUFFICES ASSUME Undisturbed' PROVE RunsInv'
    BY DEF RunsInv
  <2>1. link = "idle"
    BY <1>2, <1>8 DEF Inv, DeepInv, Solo, Undisturbed
  <2>2. Updating'
    BY <1>2, <1>4, <1>8 DEF Updating
  <2> QED BY <1>5, <2>1, <2>2 DEF RunsInv
<1>11. KnownInv'
  <2> SUFFICES ASSUME Undisturbed', NoWriteFailed' PROVE KnownInv'
    BY DEF KnownInv
  <2>1. cfgs' \in Known'
    BY <1>1, <1>2, <1>8 DEF Inv, DeepInv, KnownInv
  <2>2. (\A j \in Uploads' : ops'[j].at # "truncated") => \A j \in Uploads : ops[j].at # "truncated"
    BY <1>1, <1>8
  <2>3. (\A j \in Uploads' : ops'[j].at # "truncated") => file' \in Known'
    BY <1>1, <1>8, <2>2 DEF Inv, DeepInv, KnownInv
  <2>4. \A j \in Uploads' : ops'[j].at = "loaded" => ops'[j].body \in Known'
    BY <1>4, <1>8 DEF Inv, DeepInv, KnownInv
  <2> QED BY <2>1, <2>3, <2>4 DEF KnownInv
<1>12. LoginInv' /\ StoppedInv'
  BY <1>1, <1>2, <1>3, <1>4, <1>5, UploadControls
<1> QED BY <1>7, <1>9, <1>10, <1>11, <1>12 DEF Inv, DeepInv

LEMMA UpdateVisitorsInv == \A i \in DOMAIN ops : Inv /\ UpdateVisitors(i) => Inv'
<1> SUFFICES ASSUME NEW i \in DOMAIN ops, Inv, UpdateVisitors(i) PROVE Inv' OBVIOUS
<1> DEFINE a == IF cur = 0 THEN "reloadAnswered" ELSE "visitors"
           r == [ops[i] EXCEPT !.at = a, !.on = cur]
<1>1. /\ ops[i].at = "set" /\ ops' = [ops EXCEPT ![i].at = a, ![i].on = cur]
      /\ ctls' = IF cur = 0 THEN ctls ELSE VisitorsUpdated(cur, ops[i].body)
      /\ UNCHANGED <<file, cfgs, cur, control, tabs>>
  BY DEF UpdateVisitors
<1>2. ops[i] \in OpSet /\ OpOK(ops[i]) /\ ops[i].kind = "upload" /\ ops \in Seq(OpSet) /\ i \in Active /\ i \in Uploads
  BY <1>1, IsUpload DEF Inv, AskAt
<1>3. /\ Len(ctls) \in Nat /\ DOMAIN ctls = 1 .. Len(ctls) /\ cur \in Nat /\ cur <= Len(ctls)
      /\ cur # 0 => cur \in DOMAIN ctls
      /\ link # "idle" => Len(ctls) \in DOMAIN ctls /\ Len(ctls) # cur /\ ctls # << >>
  BY CtlNumbers DEF Inv, TablesInv
<1>4. a \in UploadAt /\ (cur = 0 => a = "reloadAnswered") /\ (cur # 0 => a = "visitors")
  BY DEF UploadAt
<1> HIDE DEF a
<1>5. ops' = [ops EXCEPT ![i] = r]
  BY <1>1, <1>2 DEF OpSet
<1>6. /\ r \in OpSet /\ r.kind = "upload" /\ r.text = ops[i].text /\ r.alone = ops[i].alone
      /\ r.at = a /\ r.on = cur /\ r.put = ops[i].put /\ r.load = ops[i].load /\ r.body = ops[i].body
  BY <1>2, <1>3, <1>4 DEF OpSet
<1>7. /\ ops[i].body \in Config /\ ops[i].load = "ok" /\ ops[i].on = 0 /\ Acts(ops[i])
      /\ UNCHANGED <<link, copied, losses>>
  BY <1>1, <1>2, ActiveIs DEF OpOK, control
<1>8. CtlsInv' /\ Len(ctls') = Len(ctls) /\ DOMAIN ctls' = DOMAIN ctls
  <2>1. CASE cur = 0
    BY <1>1, <2>1 DEF Inv, TablesInv, CtlsInv, OpenOK
  <2>2. CASE cur # 0
    BY <1>1, <1>3, <1>7, <2>2, VisitorsCome DEF Inv, TablesInv
  <2> QED BY <2>1, <2>2
<1>9. /\ \A d \in DOMAIN ctls : d # cur => ctls'[d] = ctls[d]
      /\ cur # 0 => /\ ctls'[cur].vis = ops[i].body /\ ctls'[cur].pxy = ctls[cur].pxy
                    /\ ctls'[cur].stage = ctls[cur].stage
  <2>1. CASE cur = 0
    BY <1>1, <2>1
  <2>2. CASE cur # 0
    BY <1>1, <1>3, <1>7, <2>2, VisitorsCome DEF Inv, TablesInv
  <2> QED BY <2>1, <2>2
<1> HIDE DEF r
<1>10. OpOK(r)
  BY <1>4, <1>6, <1>7 DEF OpOK
<1>11. TablesInv'
  <2>1. file' \in Text /\ cfgs' \in Config
    BY <1>1 DEF Inv, TablesInv, ServerInv
  <2>2. r.on <= cur /\ (r.at = "visitors" => r.on # 0)
    BY <1>3, <1>4, <1>6
  <2> QED BY <1>1, <1>5, <1>6, <1>8, <1>10, <2>1, <2>2, UploadTables DEF Inv
<1>12. /\ Uploads' = Uploads /\ (Undisturbed' <=> Undisturbed)
       /\ ops'[i] = r /\ \A j \in Uploads : j # i => ops'[j] = ops[j]
  BY <1>2, <1>5, <1>6, <1>7, EditMono
<1>13. Solo' /\ SoloEffect'
  <2>1. ASSUME r.alone PROVE Effect(ops[i])'
    <3>1. Effect(ops[i])
      BY <1>2, <1>6, <2>1 DEF Inv, DeepInv, SoloEffect
    <3>2. cfgs = r.body /\ (r.put = "ok" => file = r.text /\ r.body = r.text)
      BY <1>1, <1>6, <3>1 DEF Effect
    <3>3. CASE cur = 0
      <4>1. r.at = "reloadAnswered"
        BY <1>4, <1>6, <3>3
      <4> QED BY <1>1, <1>12, <3>2, <3>3, <4>1 DEF Effect
    <3>4. CASE cur # 0
      <4>1. r.at = "visitors" /\ r.on = cur /\ ctls'[cur].vis = r.body
        BY <1>4, <1>6, <1>9, <3>4
      <4> QED BY <1>1, <1>12, <3>2, <4>1 DEF Effect
    <3> QED BY <3>3, <3>4
  <2> QED BY <1>2, <1>5, <1>6, <1>7, <2>1, UploadSolo
<1>14. RunsInv'
  <2> SUFFICES ASSUME Undisturbed' PROVE RunsInv'
    BY DEF RunsInv
  <2>1. link = "idle"
    BY <1>2, <1>12 DEF Inv, DeepInv, Solo, Undisturbed
  <2>2. cur # 0 => Updating'
    BY <1>2, <1>4, <1>6, <1>12 DEF Updating
  <2> QED BY <1>1, <1>7, <2>1, <2>2 DEF RunsInv
<1>15. KnownInv'
  <2>1. r.at # "loaded" /\ ops[i].at # "truncated" /\ UNCHANGED <<file, cfgs>>
    BY <1>1, <1>4, <1>6
  <2> QED BY <1>2, <1>5, <1>6, <1>7, <2>1, UploadKnown
<1>16. LoginInv'
  <2>1. CASE link = "idle"
    BY <1>7, <2>1 DEF LoginInv
  <2>2. CASE link # "idle"
    <3>1. ctls'[Len(ctls)] = ctls[Len(ctls)] /\ ctls # << >>
      BY <1>3, <1>9, <2>2
    <3>2. cur # 0 => ctls'[cur].stage = "done"
      BY <1>9, <2>2 DEF Inv, DeepInv, LoginInv
    <3> QED BY <1>1, <1>7, <1>8, <3>1, <3>2 DEF Inv, DeepInv, LoginInv
  <2> QED BY <2>1, <2>2
<1>17. StoppedInv'
  <2>1. \A c \in 1 .. cur : Late(c) => Late(c)'
    <3>1. \A c \in Nat : c # 0 /\ Late(c) => Late(c)'
      BY <1>2, <1>5, <1>6, <1>7, UploadLate
    <3> QED BY <1>3, <3>1, UpTo
  <2> SUFFICES ASSUME NEW c \in 1 .. cur, ~Late(c)'
               PROVE  /\ c < cur \/ link \in {"closing", "assign"} => ctls'[c].pxy = Empty
                      /\ c < cur \/ link = "assign" => ctls'[c].open = {}
    BY <1>1, <1>7 DEF StoppedInv
  <2>2. CASE c # cur
    <3>1. c \in DOMAIN ctls
      BY <1>3, UpToLess
    <3>2. ctls'[c] = ctls[c]
      BY <1>9, <2>2, <3>1
    <3> QED BY <2>1, <3>2 DEF Inv, DeepInv, StoppedInv
  <2>3. CASE c = cur
    <3>1. r.alone
      BY <1>2, <1>6, <1>12, <2>3 DEF Late
    <3>2. link = "idle"
      BY <1>2, <1>6, <3>1 DEF Inv, DeepInv, Solo
    <3> QED BY <1>3, <2>3, <3>2
  <2> QED BY <2>2, <2>3
<1> QED BY <1>11, <1>13, <1>14, <1>15, <1>16, <1>17 DEF Inv, DeepInv

LEMMA UpdateProxiesInv == \A i \in DOMAIN ops : Inv /\ UpdateProxies(i) => Inv'
<1> SUFFICES ASSUME NEW i \in DOMAIN ops, Inv, UpdateProxies(i) PROVE Inv' OBVIOUS
<1> DEFINE r == [ops[i] EXCEPT !.at = "reloadAnswered"]
           n == ops[i].on
<1>1. /\ ops[i].at = "visitors" /\ ops' = [ops EXCEPT ![i].at = "reloadAnswered"]
      /\ ctls' = [ctls EXCEPT ![n].pxy = ops[i].body]
      /\ UNCHANGED <<file, cfgs, cur, control, tabs>>
  BY DEF UpdateProxies, ProxiesUpdated, Moves
<1>2. ops[i] \in OpSet /\ OpOK(ops[i]) /\ ops[i].kind = "upload" /\ ops \in Seq(OpSet) /\ i \in Active /\ i \in Uploads
  BY <1>1, IsUpload DEF Inv, AskAt
<1>3. /\ Len(ctls) \in Nat /\ DOMAIN ctls = 1 .. Len(ctls) /\ cur \in Nat /\ cur <= Len(ctls)
      /\ cur # 0 => cur \in DOMAIN ctls
      /\ link # "idle" => Len(ctls) \in DOMAIN ctls /\ Len(ctls) # cur /\ ctls # << >>
  BY CtlNumbers DEF Inv, TablesInv
<1>4. n \in 1 .. cur
  <2>1. n \in Nat
    BY <1>2 DEF OpSet
  <2>2. n <= cur /\ n # 0
    BY <1>1 DEF Inv, TablesInv, ServerInv
  <2> HIDE DEF n
  <2> QED BY <1>3, <2>1, <2>2, UpTo
<1>5. n \in DOMAIN ctls /\ cur # 0 /\ n <= cur
  <2> HIDE DEF n
  <2> QED BY <1>3, <1>4, UpTo, UpToLess
<1>6. ops' = [ops EXCEPT ![i] = r]
  BY <1>1, <1>2 DEF OpSet
<1>7. /\ r \in OpSet /\ r.kind = "upload" /\ r.text = ops[i].text /\ r.alone = ops[i].alone
      /\ r.at = "reloadAnswered" /\ r.put = ops[i].put /\ r.load = ops[i].load
      /\ r.body = ops[i].body /\ r.on = n
  BY <1>2, SetAt DEF UploadAt
<1>8. ops[i].body \in Config /\ ops[i].load = "ok" /\ Acts(ops[i]) /\ UNCHANGED <<link, copied, losses>>
  BY <1>1, <1>2, ActiveIs DEF OpOK, control
<1> HIDE DEF r, n
<1> DEFINE k == [ctls[n] EXCEPT !.pxy = ops[i].body]
<1>9. CtlsInv /\ ctls[n] \in CtlSet
  BY <1>5 DEF Inv, TablesInv, CtlsInv
<1>10. /\ ctls' = [ctls EXCEPT ![n] = k] /\ k \in CtlSet /\ k.pxy = ops[i].body
       /\ k.vis = ctls[n].vis /\ k.open = ctls[n].open /\ k.stage = ctls[n].stage
  BY <1>1, <1>8, <1>9 DEF CtlSet, CtlsInv
<1> HIDE DEF k
<1>11. /\ CtlsInv' /\ Len(ctls') = Len(ctls) /\ DOMAIN ctls' = DOMAIN ctls
       /\ ctls'[n] = k /\ \A d \in DOMAIN ctls : d # n => ctls'[d] = ctls[d]
  BY <1>5, <1>9, <1>10, CtlStep
<1>12. OpOK(r)
  BY <1>7, <1>8 DEF OpOK, UploadAt
<1>13. TablesInv'
  <2>1. file' \in Text /\ cfgs' \in Config
    BY <1>1 DEF Inv, TablesInv, ServerInv
  <2>2. r.on <= cur
    BY <1>5, <1>7
  <2> QED BY <1>1, <1>6, <1>7, <1>11, <1>12, <2>1, <2>2, UploadTables DEF Inv
<1>14. /\ Uploads' = Uploads /\ (Undisturbed' <=> Undisturbed)
       /\ ops'[i] = r /\ \A j \in Uploads : j # i => ops'[j] = ops[j]
  BY <1>2, <1>6, <1>7, <1>8, EditMono
<1>15. ASSUME ops[i].alone
       PROVE  /\ link = "idle" /\ n = cur /\ cfgs = ops[i].body /\ ctls'[cur].pxy = cfgs
              /\ ctls'[cur].stage = "up" => ctls'[cur].vis = cfgs
              /\ ops[i].put = "ok" => file = ops[i].text /\ ops[i].body = ops[i].text
  <2>1. Effect(ops[i]) /\ link = "idle"
    BY <1>2, <1>15 DEF Inv, DeepInv, SoloEffect, Solo
  <2>2. /\ cfgs = ops[i].body /\ n = cur /\ (ctls[cur].stage = "up" => ctls[cur].vis = cfgs)
        /\ ops[i].put = "ok" => file = ops[i].text /\ ops[i].body = ops[i].text
    BY <1>1, <2>1 DEF Effect, n
  <2> QED BY <1>10, <1>11, <2>1, <2>2
<1>16. Solo' /\ SoloEffect'
  <2>1. ASSUME r.alone PROVE Effect(ops[i])'
    BY <1>1, <1>7, <1>14, <1>15, <2>1 DEF Effect
  <2> QED BY <1>2, <1>6, <1>7, <1>8, <2>1, UploadSolo
<1>17. RunsInv'
  <2> SUFFICES ASSUME Undisturbed' PROVE RunsInv'
    BY DEF RunsInv
  <2>1. ops[i].alone
    BY <1>2, <1>14 DEF Undisturbed
  <2> QED BY <1>1, <1>8, <1>15, <2>1 DEF RunsInv
<1>18. KnownInv'
  <2>1. r.at # "loaded" /\ ops[i].at # "truncated" /\ UNCHANGED <<file, cfgs>>
    BY <1>1, <1>7
  <2> QED BY <1>2, <1>6, <1>7, <1>8, <2>1, UploadKnown
<1>19. LoginInv'
  <2>1. CASE link = "idle"
    BY <1>8, <2>1 DEF LoginInv
  <2>2. CASE link # "idle"
    <3>1. Len(ctls) # n
      BY <1>3, <1>4, <2>2, UpToLess
    <3>2. ctls # << >> /\ ctls'[Len(ctls)] = ctls[Len(ctls)]
      BY <1>3, <1>11, <2>2, <3>1
    <3>3. ctls'[cur].stage = ctls[cur].stage
      BY <1>3, <1>5, <1>10, <1>11
    <3>4. ctls'[cur].stage = "done"
      BY <1>5, <2>2, <3>3 DEF Inv, DeepInv, LoginInv
    <3> QED BY <1>1, <1>8, <1>11, <3>2, <3>4 DEF Inv, DeepInv, LoginInv
  <2> QED BY <2>1, <2>2
<1>20. StoppedInv'
  <2>1. \A c \in 1 .. cur : Late(c) => Late(c)'
    <3>1. \A c \in Nat : c # 0 /\ Late(c) => Late(c)'
      BY <1>2, <1>6, <1>7, UploadLate DEF n
    <3> QED BY <1>3, <3>1, UpTo
  <2> SUFFICES ASSUME NEW c \in 1 .. cur, ~Late(c)'
               PROVE  /\ c < cur \/ link \in {"closing", "assign"} => ctls'[c].pxy = Empty
                      /\ c < cur \/ link = "assign" => ctls'[c].open = {}
    BY <1>1, <1>8 DEF StoppedInv
  <2>2. CASE c # n
    <3>1. c \in DOMAIN ctls
      BY <1>3, UpToLess
    <3>2. ctls'[c] = ctls[c]
      BY <1>11, <2>2, <3>1
    <3> QED BY <2>1, <3>2 DEF Inv, DeepInv, StoppedInv
  <2>3. CASE c = n
    <3>1. r.alone
      BY <1>2, <1>7, <1>14, <2>3 DEF Late
    <3>2. link = "idle" /\ n = cur
      BY <1>7, <1>15, <3>1
    <3> QED BY <1>3, <2>3, <3>2
  <2> QED BY <2>2, <2>3
<1> QED BY <1>13, <1>16, <1>17, <1>18, <1>19, <1>20 DEF Inv, DeepInv

---------------------------------------------------------------------------
LEMMA StepInv == Inv /\ [Next]_vars => Inv'
<1> SUFFICES ASSUME Inv, [Next]_vars PROVE Inv' OBVIOUS
<1>1. CASE UNCHANGED vars
  <2>1. PageInv'
    BY <1>1 DEF vars, tabs, Inv, TablesInv, PageInv
  <2> QED BY <1>1, <2>1, PageStep DEF vars
<1>2. ASSUME NEW t \in Tab, User(t) PROVE Inv'
  <2>1. \A text \in Text \ {ErrorText} : text \in Text
    OBVIOUS
  <2> QED BY <1>2, <2>1, OpenPageInv, RefreshInv, EditInv, BoxInv, ConfirmInv DEF User
<1>3. ASSUME NEW i \in DOMAIN ops, Api(i) PROVE Inv'
  BY <1>3, GetConfigInv, StatusInv, TruncateInv, WriteInv, WriteFailsInv, LoadInv, SetCfgsInv,
     UpdateVisitorsInv, UpdateProxiesInv DEF Api
<1>4. ASSUME NEW i \in DOMAIN ops, Page(i) PROVE Inv'
  BY <1>4, ArrivesInv, AskFailsInv, PutArrivesInv, ReloadArrivesInv, FailsInv DEF Page
<1>5. ASSUME NEW c \in DOMAIN ctls, LoseControl(c) \/ CloseVisitors(c) PROVE Inv'
  BY <1>5, LoseControlInv, CloseVisitorsInv
<1>6. ASSUME Login PROVE Inv'
  BY <1>6, CopyCfgsInv, RunProxiesInv, RunVisitorsInv, CloseOldProxiesInv, CloseOldVisitorsInv,
     ReplaceControlInv DEF Login
<1> QED BY <1>1, <1>2, <1>3, <1>4, <1>5, <1>6 DEF Next

LEMMA InvHolds == Spec => []Inv
BY InitInv, StepInv, PTL DEF Spec

\* Whatever tabs upload, whichever requests overlap and whatever is lost, the file is a text that
\* someone wrote, and the service and the managers of every control have only what loads.
LEMMA TypeAlways == Spec => []TypeOK
<1>1. Inv => TypeOK
  <2> SUFFICES ASSUME Inv PROVE TypeOK OBVIOUS
  <2> USE TextsAssumption
  <2>1. \A i \in DOMAIN ops : ops[i].msg \in Message
    <3>1. \A i \in DOMAIN ops : ops[i] \in OpSet
      BY DEF Inv, TablesInv, OpsInv
    <3>2. \A op \in OpSet : op.msg \in Message
      BY DEF OpSet
    <3> QED BY <3>1, <3>2
  <2>2. \A c \in DOMAIN ctls :
           /\ Loads(ctls[c].pxy) /\ Loads(ctls[c].vis)
           /\ ctls[c].open \subseteq VisitorsOf(ctls[c].vis)
           /\ ctls[c].stage \in {"up", "closing", "done"}
    <3>1. \A c \in DOMAIN ctls : ctls[c] \in CtlSet /\ OpenOK(ctls[c])
      BY DEF Inv, TablesInv, CtlsInv
    <3>2. \A k \in CtlSet : Loads(k.pxy) /\ Loads(k.vis) /\ k.stage \in {"up", "closing", "done"}
      BY DEF CtlSet, Config, Loads
    <3> QED BY <3>1, <3>2 DEF OpenOK
  <2>3. Loads(cfgs) /\ Loads(copied)
    BY DEF Inv, TablesInv, ServerInv, Config, Loads
  <2>4. cur = Len(ctls) - (IF link = "idle" THEN 0 ELSE 1)
    <3>1. cur \in Nat /\ Len(ctls) \in Nat
      BY CtlNumbers DEF Inv, TablesInv
    <3> QED BY <3>1 DEF Inv, TablesInv, ServerInv
  <2> QED BY <2>1, <2>2, <2>3, <2>4 DEF Inv, TablesInv, OpsInv, PageInv, ServerInv, TypeOK
<1> QED BY <1>1, InvHolds, PTL

\* The visitors of a control that has not been lost are those of its configuration.
LEMMA UpRuns ==
    ASSUME Inv, cur # 0, ctls[cur].stage = "up"
    PROVE  \A cfg : ctls[cur].pxy = cfg /\ ctls[cur].vis = cfg => Runs(cur, cfg)
<1>1. OpenOK(ctls[cur])
  BY CtlNumbers DEF Inv, TablesInv, CtlsInv
<1> QED BY <1>1 DEF OpenOK, Runs

\* Unless an upload was overlapped by another or by a login, a control that has not been lost runs
\* what the service would give to its successor whenever no upload and no login is under way.
THEOREM ControlCorrect == Spec => []ControlRunsConfig
<1>1. Inv => ControlRunsConfig
  <2> SUFFICES ASSUME Inv, Undisturbed, Active = {}, link = "idle", cur # 0, ctls[cur].stage = "up"
               PROVE  Runs(cur, cfgs)
    BY DEF ControlRunsConfig
  <2>1. ~Updating
    <3> SUFFICES ASSUME NEW i \in Uploads, ops[i].at \in {"set", "visitors"} PROVE FALSE
      BY DEF Updating
    <3> QED BY DEF Active, Served
  <2>2. ctls[cur].pxy = cfgs /\ ctls[cur].vis = cfgs
    BY <2>1 DEF Inv, DeepInv, RunsInv
  <2> QED BY <2>2, UpRuns
<1> QED BY <1>1, InvHolds, PTL

\* A control that was replaced has no proxies and no visitors that run, although a reload and Run
\* may start them after its worker has closed both managers, unless a reload that updates it
\* overlapped the login that replaced it, or another upload.
THEOREM ReplacedCorrect == Spec => []ReplacedStops
<1>1. Inv => ReplacedStops
  <2> SUFFICES ASSUME Inv, NEW c \in 1 .. cur - 1, \A i \in Uploads : ops[i].on = c => ops[i].alone
               PROVE  ctls[c].pxy = Empty /\ ctls[c].open = {}
    BY DEF ReplacedStops
  <2>1. c \in 1 .. cur /\ c < cur
    BY DEF Inv, TablesInv, ServerInv
  <2>2. ~Late(c)
    BY DEF Late
  <2> QED BY <2>1, <2>2 DEF Inv, DeepInv, StoppedInv
<1> QED BY <1>1, InvHolds, PTL

\* Unless uploads overlap or the disk fails, frpc has only configurations that it was started with
\* or that somebody uploaded: no reload sees the truncated file.
THEOREM UploadedCorrect == Spec => []ConfigSound
<1>1. Inv => RunsOnlyUploaded
  BY DEF Inv, DeepInv, KnownInv, Known, RunsOnlyUploaded
<1>2. TypeOK /\ RunsOnlyUploaded => ConfigSound
  BY DEF ConfigSound
<1> QED BY <1>1, <1>2, InvHolds, TypeAlways, PTL

---------------------------------------------------------------------------
(* What a single step may do *)

\* The steps of the controls change nothing of a request but alone.
LEMMA ControlKeeps ==
    ASSUME Inv, Login \/ \E c \in DOMAIN ctls : LoseControl(c) \/ CloseVisitors(c), NEW i \in DOMAIN ops
    PROVE  ops'[i].msg = ops[i].msg /\ ops'[i].at = ops[i].at
<1>1. /\ Crowd(ops)[i].at = ops[i].at /\ Crowd(ops)[i].msg = ops[i].msg
  BY CrowdStep DEF Inv
<1>2. CASE ops' = Crowd(ops)
  BY <1>1, <1>2
<1>3. CASE ops' = ops
  BY <1>3
<1> QED BY <1>2, <1>3 DEF Login, CopyCfgs, RunProxies, RunVisitors, CloseOldProxies, CloseOldVisitors,
                          ReplaceControl, LoseControl, CloseVisitors

\* Steps of the user change nothing of a request but alone.
LEMMA UserKeeps ==
    ASSUME Inv, NEW t \in Tab, User(t), NEW i \in DOMAIN ops
    PROVE  ops'[i].msg = ops[i].msg /\ ops'[i].at = ops[i].at
<1>1. ops \in Seq(OpSet)
  BY DEF Inv, TablesInv, OpsInv
<1>2. /\ Crowd(ops) \in Seq(OpSet) /\ DOMAIN Crowd(ops) = DOMAIN ops
      /\ Crowd(ops)[i].at = ops[i].at /\ Crowd(ops)[i].msg = ops[i].msg
  BY CrowdStep DEF Inv
<1>3. CASE \E r : ops' = Append(ops, r)
  BY <1>1, <1>3
<1>4. CASE \E r : ops' = Append(Crowd(ops), r)
  BY <1>2, <1>4
<1>5. CASE ops' = ops
  BY <1>5
<1>6. CASE \E p \in {"/", "/configure"} : OpenPage(t, p)
  BY <1>3, <1>6 DEF OpenPage, Ask
<1>7. CASE Refresh(t)
  BY <1>3, <1>7 DEF Refresh, Ask
<1>8. CASE Confirm(t)
  BY <1>4, <1>8 DEF Confirm
<1>9. CASE UploadConfig(t) \/ Cancel(t) \/ \E text \in Text \ {ErrorText} : Edit(t, text)
  BY <1>5, <1>9 DEF UploadConfig, Cancel, Edit
<1> QED BY <1>6, <1>7, <1>8, <1>9 DEF User

\* A success is the page's answer to the reload.
LEMMA SuccessIsReload ==
    ASSUME Inv, NEW j \in DOMAIN ops, Api(j) \/ Page(j), NEW i \in DOMAIN ops,
           ops[i].msg # "success", ops'[i].msg = "success"
    PROVE  ReloadArrives(i)
<1>1. ops \in Seq(OpSet) /\ ops[i] \in OpSet /\ ops[j] \in OpSet
  BY DEF Inv, TablesInv, OpsInv
<1>2. ~(ops'[i].msg = ops[i].msg)
  OBVIOUS
<1>3. ~GetConfig(j) /\ ~Status(j)
  <2>1. ASSUME GetConfig(j) PROVE FALSE
    <3>1. PICK body \in {file, ErrorText} :
             ops' = [ops EXCEPT ![j].at = "answered", ![j].body = body]
      BY <2>1 DEF GetConfig
    <3> QED BY <1>1, <1>2, <3>1 DEF OpSet
  <2>2. ~Status(j)
    BY <1>1, <1>2 DEF Status, OpSet
  <2> QED BY <2>1, <2>2
<1>4. ~Truncate(j) /\ ~Write(j) /\ ~WriteFails(j)
  <2>1. ~Truncate(j)
    BY <1>1, <1>2 DEF Truncate, Moves, OpSet
  <2>2. ~Write(j)
    BY <1>1, <1>2 DEF Write, OpSet
  <2>3. ~WriteFails(j)
    BY <1>1, <1>2 DEF WriteFails, OpSet
  <2> QED BY <2>1, <2>2, <2>3
<1>5. ~Load(j) /\ ~SetCfgs(j)
  <2>1. ~Load(j)
    BY <1>1, <1>2 DEF Load, OpSet
  <2>2. ~SetCfgs(j)
    BY <1>1, <1>2 DEF SetCfgs, Moves, OpSet
  <2> QED BY <2>1, <2>2
<1>6. ~(UpdateVisitors(j) \/ UpdateProxies(j))
  BY <1>1, <1>2 DEF UpdateVisitors, UpdateProxies, Moves, OpSet
<1>7. ~(Arrives(j) \/ AskFails(j))
  BY <1>1, <1>2 DEF Arrives, AskFails, Op
<1>8. ~PutArrives(j)
  BY <1>1, <1>2 DEF PutArrives, Moves, OpSet
<1>9. ~(PutFails(j) \/ ReloadFails(j))
  <2> SUFFICES ASSUME PutFails(j) \/ ReloadFails(j) PROVE FALSE OBVIOUS
  <2>1. PICK msg \in {"putFailed", "reloadFailed"},
             at \in {ops[j].at} \cup {"dropped" : x \in {ops[j].at} \cap {"put", "reload"}} :
                ops' = [ops EXCEPT ![j].msg = msg, ![j].at = at]
    BY DEF PutFails, ReloadFails, Fails
  <2> QED BY <1>1, <1>2, <2>1 DEF OpSet
<1>10. ReloadArrives(j)
  BY <1>3, <1>4, <1>5, <1>6, <1>7, <1>8, <1>9 DEF Api, Page
<1>11. i = j
  BY <1>1, <1>2, <1>10 DEF ReloadArrives, OpSet
<1> QED BY <1>10, <1>11

\* When the page reports success for an upload that nothing disturbed and neither of whose requests
\* was refused, the file and the service have its text, and the control runs it, with both managers
\* and all its visitors, if it has not been lost.
THEOREM UploadCorrect == Spec => UploadTakesEffect
<1> DEFINE A == \A i \in Uploads :
                   (/\ ops[i].msg # "success" /\ ops'[i].msg = "success"
                    /\ ops[i].alone /\ ops[i].put = "ok" /\ ops[i].load # "failed")
                   => /\ file = ops[i].text /\ cfgs = ops[i].text
                      /\ cur # 0 /\ ctls[cur].stage = "up" => Runs(cur, ops[i].text)
<1>1. Inv /\ [Next]_vars => [A]_vars
  <2> SUFFICES ASSUME Inv, Next, NEW i \in Uploads,
                      ops[i].msg # "success", ops'[i].msg = "success",
                      ops[i].alone, ops[i].put = "ok", ops[i].load # "failed"
               PROVE  /\ file = ops[i].text /\ cfgs = ops[i].text
                      /\ cur # 0 /\ ctls[cur].stage = "up" => Runs(cur, ops[i].text)
    OBVIOUS
  <2>1. i \in DOMAIN ops
    BY DEF Uploads
  <2>2. ReloadArrives(i)
    <3>1. ~(\E t \in Tab : User(t))
      BY <2>1, UserKeeps
    <3>2. ~(Login \/ \E c \in DOMAIN ctls : LoseControl(c) \/ CloseVisitors(c))
      BY <2>1, ControlKeeps
    <3> QED BY <2>1, <3>1, <3>2, SuccessIsReload DEF Next
  <2>3. i \in Active /\ ops[i].at = "reloadAnswered"
    BY <2>2 DEF ReloadArrives, Active
  <2>4. ops[i].load = "ok"
    <3>1. ops[i] \in OpSet /\ OpOK(ops[i])
      BY <2>1 DEF Inv, TablesInv, OpsInv
    <3> QED BY <2>3, <3>1 DEF OpSet, OpOK
  <2>5. /\ file = ops[i].text /\ cfgs = ops[i].text
        /\ cur # 0 /\ ctls[cur].stage = "up" => ctls[cur].pxy = cfgs /\ ctls[cur].vis = cfgs
    BY <2>3, <2>4 DEF Inv, DeepInv, SoloEffect, Effect
  <2> QED BY <2>5, UpRuns
<1>2. UploadTakesEffect <=> [][A]_vars
  BY DEF UploadTakesEffect
<1> QED BY <1>1, <1>2, InvHolds, PTL DEF Spec
=============================================================================
