------------------------------ MODULE Exchange ------------------------------
(***************************************************************************)
(* One request after the other through one pooled context                  *)
(* (context/context.go, input.go, output.go, response.go) and one          *)
(* controller (ctrl/controller.go), both used again and again, with the    *)
(* cookies their clients keep: flash messages, the XSRF token, what is     *)
(* sent and how it is encoded, what is bound.  Requests that overlap are   *)
(* the subject of Dispatch.                                                *)
(*                                                                         *)
(* The application's code is any sequence of operations of the controller. *)
(* A message, a token is a number, new each time; 0 is none.               *)
(***************************************************************************)
EXTENDS Encoding, Binding

CONSTANTS
  Clients,
  Inputs,       \* what a request asks: [method, accept, form, static]
  EnableXSRF,   \* of the configuration: tokens are made and asked for
  MaxTokens,    \* bound: tokens that are made
  MaxMsgs,      \* bound: flash messages that are stored
  MaxOps        \* bound: operations of one action

ASSUME ExchangeAssumption ==
  /\ EnableXSRF \in BOOLEAN
  /\ {MaxTokens, MaxMsgs, MaxOps} \subseteq Nat
  /\ Half \in Nat \ {0} /\ WideHalf \in Nat /\ WideHalf >= Half

\* The Accept-Encoding of a request, as Encoding has it, and its form, as
\* Binding has it.
Accepts == Seq([name : STRING, q : Int])
FormOK(form) ==
  /\ IsFiniteSet(DOMAIN form)
  /\ \A k \in DOMAIN form :
       /\ k.as \in {"plain", "index", "open", "dot", "bracket"} /\ k.at \in Nat
       /\ form[k] \in Seq([is : {"number", "text", "blank"}, n : Int]) \ {<<>>}

ASSUME InputsAssumption ==
  \A in \in Inputs : in.method # "none" /\ in.accept \in Accepts /\ FormOK(in.form)

\* Flash keys; Notice stands for Warning, Error and the keys of FlashMsg too.
Keys    == {"Success", "Notice"}
NoFlash == [k \in Keys |-> 0]
Messages(flash) == {flash[k] : k \in Keys} \ {0}

\* A status: 200, the one the application sets, another one of a reply's own.
Set == 404
Own == 303

VARIABLES
  jar,     \* the cookies of each client
  ctl,     \* the controller: _xsrfToken and Flash
  checks,  \* its own EnableXSRF: whether a token that is asked for is checked
  cx,      \* the context: Output.Status and EnableGzip, and Started of Response
  pools,   \* the pools of compressors
  req,     \* the request that is served
  pc,      \* where it is
  ops,     \* operations its action has done
  hdr,     \* the header of the response as it is set
  resp,    \* what has been sent
  bound,   \* what the last operation bound
  made,    \* how many tokens and messages there have been
  asked,   \* the status the application asked for and has not replaced
  hope,    \* messages the next request of the client must show, and must not
  due,     \* the same, of responses that reached the client
  gone

vars == <<jar, ctl, checks, cx, pools, req, pc, ops, hdr, resp, bound, made, asked, hope, due, gone>>

\* A header: Content-Length as the content it was computed from, the
\* Content-Encoding, and for each cookie its last Set-Cookie.
NewHeader == [len |-> <<>>, enc |-> "", flash |-> <<>>, xsrf |-> 0]
NotSent   == [sent |-> FALSE, status |-> 0, hdr |-> NewHeader, body |-> <<>>]
NoReq     == [client |-> "none", token |-> 0, method |-> "none", accept |-> <<>>,
              form |-> <<>>, static |-> FALSE]
NewCx     == [out |-> 0, gzip |-> FALSE, started |-> FALSE]
NoHope    == [must |-> NoFlash, shown |-> {}]
NotBound  == [what |-> "nothing"]

Init ==
  /\ jar = [c \in Clients |-> [flash |-> NoFlash, xsrf |-> 0]]
  /\ ctl = [token |-> 0, flash |-> NoFlash] /\ checks = FALSE
  /\ cx = NewCx /\ pools = NewPools
  /\ req = NoReq /\ pc = "idle" /\ ops = 0
  /\ hdr = NewHeader /\ resp = NotSent /\ bound = NotBound
  /\ made = [tokens |-> 0, msgs |-> 0]
  /\ asked = 0 /\ hope = NoHope
  /\ due = [c \in Clients |-> NoFlash] /\ gone = [c \in Clients |-> {}]

Cookies == jar[req.client]

-----------------------------------------------------------------------------
(* Context.Reset, which Arrive calls, and the part of Controller.Init that *)
(* sets Flash, are taken in End already, since nothing reads the context   *)
(* or the controller between two requests.  EnableGzip and _xsrfToken stay *)
(* as an earlier request has set them.                                     *)
Reset(context)        == [NewCx EXCEPT !.gzip = context.gzip]
InitFlash(controller) == [controller EXCEPT !.flash = NoFlash]

Arrive(c, in, token) ==
  /\ pc = "idle"
  /\ token # 0 => in.method = "POST"
  /\ req' = [client |-> c, token |-> token, method |-> in.method, accept |-> in.accept,
             form |-> in.form, static |-> in.static]
  /\ pc' = "static"
  /\ UNCHANGED <<jar, ctl, checks, cx, pools, ops, hdr, resp, bound, made, asked, hope, due, gone>>

(* What is written first freezes status and header.                        *)
Send(status, h, content) ==
  /\ hdr' = h
  /\ resp' = IF resp.sent THEN [resp EXCEPT !.body = Append(@, content)]
             ELSE [sent |-> TRUE, status |-> status, hdr |-> h, body |-> <<content>>]

Content(size, enc, got, level) == [size |-> size, enc |-> enc, got |-> got, level |-> level]
Page == Content("short", "", 0, 0)

(* serveStaticRoutes: a file is compressed if its extension says so.       *)
ServeStatic ==
  /\ pc = "static" /\ req.static
  /\ \E enc \in {"", ParseEncoding(req.method, req.accept)} :
     \E got \in IF enc = "" THEN {0} ELSE encode(pools, BestCompression) :
       /\ Send(200, IF enc = "" THEN [hdr EXCEPT !.len = <<"long", enc>>] ELSE [hdr EXCEPT !.enc = enc],
               Content("long", enc, got, IF enc = "" THEN 0 ELSE BestCompression))
       /\ pools' = IF enc = "" THEN pools ELSE put(pools, got, BestCompression)
  /\ cx' = [cx EXCEPT !.started = TRUE]
  /\ pc' = "finish"
  /\ UNCHANGED <<jar, ctl, checks, req, ops, bound, made, asked, hope, due, gone>>

(* No static file: the route's controller is found and initialised.        *)
InitController ==
  /\ pc = "static" /\ ~req.static
  /\ pc' = "before"
  /\ UNCHANGED <<jar, ctl, checks, cx, pools, req, ops, hdr, resp, bound, made, asked, hope, due, gone>>

-----------------------------------------------------------------------------
(* Operations of the application's code.  It answers once.                 *)

Store(k, flash) == hdr' = [hdr EXCEPT !.flash = <<flash>>]

(* Notice and the like keep the message there is; Success asks for the key *)
(* "success" and replaces it.  In BeforeAction a message goes the way of   *)
(* the cookie that ReadFlashData deletes after it.                         *)
Flash(k) ==
  /\ made.msgs < MaxMsgs
  /\ k = "Success" \/ ctl.flash[k] = 0
  /\ LET m == made.msgs + 1 IN
     /\ made' = [made EXCEPT !.msgs = m]
     /\ ctl' = [ctl EXCEPT !.flash[k] = m]
     /\ hope' = [must |-> IF ~resp.sent /\ (pc = "action" \/ Cookies.flash = NoFlash)
                          THEN [hope.must EXCEPT ![k] = m] ELSE hope.must,
                 shown |-> {}]
  /\ Store(k, ctl'.flash)
  /\ UNCHANGED <<cx, pools, resp, asked>>

SetStatus(status) ==
  /\ cx' = [cx EXCEPT !.out = status]
  /\ asked' = IF resp.sent THEN asked ELSE status
  /\ UNCHANGED <<ctl, pools, hdr, resp, made, hope>>

EnableGzip ==
  /\ cx' = [cx EXCEPT !.gzip = TRUE]
  /\ UNCHANGED <<ctl, pools, hdr, resp, made, asked, hope>>

Body(size) ==
  /\ ~cx.started
  /\ LET enc   == WriteBody(IF cx.gzip THEN ParseEncoding(req.method, req.accept) ELSE "", size)
         level == IF enc = "" THEN 0 ELSE gzipCompressLevel
     IN \E got \in IF enc = "" THEN {0} ELSE encode(pools, level) :
          /\ Send(IF cx.out = 0 THEN 200 ELSE cx.out,
                  [hdr EXCEPT !.len = <<size, enc>>, !.enc = enc], Content(size, enc, got, level))
          /\ pools' = IF enc = "" THEN pools ELSE put(pools, got, level)
  /\ cx' = [cx EXCEPT !.out = 0, !.started = TRUE]
  /\ UNCHANGED <<ctl, made, asked, hope>>

(* Replies that bring a status of their own, 200 or another.              *)
Reply(status) ==
  /\ ~cx.started
  /\ Send(status, IF status = 200 THEN [hdr EXCEPT !.len = <<"short", "">>] ELSE hdr, Page)
  /\ cx' = [cx EXCEPT !.started = TRUE]
  /\ asked' = 0
  /\ UNCHANGED <<ctl, pools, made, hope>>

(* The answer to a method the application has no action for.               *)
MethodNotAllowed == Reply(Own)

Redirect == Reply(Own)

(* http.ServeFile: the file, or that it is missing.                        *)
DownloadFile == Reply(200) \/ Reply(Own)

(* JSON, JSONP, XML and YAML; data that cannot be marshalled is an error.  *)
(* JSONP without a callback sends nothing.                                 *)
SendFormatted ==
  \/ \E size \in {"short", "long"} : Body(size)
  \/ Reply(Own)
  \/ UNCHANGED <<ctl, cx, pools, hdr, resp, made, asked, hope>>

(* WriteString: a status that is set afterwards, or was, is not sent.      *)
WriteString ==
  /\ ~cx.started
  /\ Send(200, hdr, Page)
  /\ cx' = [cx EXCEPT !.started = TRUE]
  /\ asked' = 0
  /\ UNCHANGED <<ctl, pools, made, hope>>

Bind ==
  /\ req.form # <<>>
  /\ \E order \in SetToSeqs(DOMAIN req.form), def \in {<<>>, <<0>>} :
       LET v == Query(req.form, [as |-> "plain", at |-> 0]) IN
       \/ bound' = [what |-> "slice", slice |-> bindSlice(req.form, order)]
       \/ bound' = [what |-> "field", field |-> bindField(req.form, order)]
       \/ bound' = [what |-> "int", int |-> bindInt(v), get |-> GetInt(v, def), def |-> def]
  /\ UNCHANGED <<ctl, cx, pools, hdr, resp, made, asked, hope>>

Operation ==
  \/ \E k \in Keys : Flash(k)
  \/ SetStatus(Set) \/ EnableGzip
  \/ SendFormatted \/ WriteString
  \/ MethodNotAllowed \/ Redirect \/ DownloadFile

(* StopRun, Abort with a code that has a page, Bind into a pointer without *)
(* a value: a panic no one recovers, the client gets nothing.              *)
Panic ==
  /\ pc \in {"before", "action"}
  /\ pc' = "closed"
  /\ UNCHANGED <<jar, ctl, checks, cx, pools, req, ops, hdr, resp, bound, made, asked, hope, due, gone>>

-----------------------------------------------------------------------------
(* The application may also set EnableXSRF of the controller, here or in   *)
(* an earlier request, as Init leaves it; it is off until somebody does.   *)
(* So a POST finds it either way; who else does is of no interest.         *)
BeforeAction ==
  /\ pc = "before"
  /\ Operation \/ UNCHANGED <<ctl, cx, pools, hdr, resp, made, asked, hope>>
  /\ checks' \in BOOLEAN /\ (checks' => req.method = "POST")
  /\ pc' = "flash"
  /\ UNCHANGED <<jar, req, ops, bound, due, gone>>

(* Faulty: the cookie is not deleted. *)
ReadFlashKeep ==
  /\ pc = "flash"
  /\ ctl' = [ctl EXCEPT !.flash = [k \in Keys |-> IF Cookies.flash[k] # 0 THEN Cookies.flash[k] ELSE @[k]]]
  /\ hope' = [hope EXCEPT !.shown = IF resp.sent THEN {} ELSE Messages(Cookies.flash)]
  /\ pc' = "xsrf"
  /\ UNCHANGED <<jar, checks, cx, pools, req, ops, hdr, resp, bound, made, asked, due, gone>>

(* ReadFlashData: the messages of the cookie, which is deleted unless the  *)
(* header has been sent.                                                   *)
ReadFlashData ==
  /\ pc = "flash"
  /\ ctl' = [ctl EXCEPT !.flash = [k \in Keys |-> IF Cookies.flash[k] # 0 THEN Cookies.flash[k] ELSE @[k]]]
  /\ hdr' = IF Cookies.flash = NoFlash THEN hdr ELSE [hdr EXCEPT !.flash = <<NoFlash>>]
  /\ hope' = [hope EXCEPT !.shown = IF resp.sent THEN {} ELSE Messages(Cookies.flash)]
  /\ pc' = "xsrf"
  /\ UNCHANGED <<jar, checks, cx, pools, req, ops, resp, bound, made, asked, due, gone>>

(* The controller's XSRFToken asks the context for the token of the cookie *)
(* or for a new one, unless it has a token already, of whichever request;  *)
(* the context then has none.                                              *)
XSRFToken ==
  IF ~EnableXSRF \/ ctl.token # 0 THEN 0
  ELSE IF Cookies.xsrf = 0 THEN made.tokens + 1 ELSE Cookies.xsrf

(* Faulty: the token is compared with the controller's. *)
RefusedByController(token) == req.token = 0 \/ req.token # ctl'.token

(* With EnableXSRF of the configuration a token is got for every request;  *)
(* CheckXSRFCookie looks at the controller's own before it compares, and   *)
(* aborts without a token (422) or with another one (417).                 *)
Refused(token) == req.token = 0 \/ req.token # token

CheckXSRF ==
  /\ pc = "xsrf"
  /\ due' = [due EXCEPT ![req.client] = NoFlash]
  /\ LET token == XSRFToken
         fresh == token > made.tokens
     IN /\ fresh => made.tokens < MaxTokens
        /\ made' = IF fresh THEN [made EXCEPT !.tokens = token] ELSE made
        /\ hdr' = IF fresh THEN [hdr EXCEPT !.xsrf = token] ELSE hdr
        /\ ctl' = IF token # 0 THEN [ctl EXCEPT !.token = token] ELSE ctl
        /\ IF EnableXSRF /\ checks /\ req.method = "POST" /\ Refused(token)
           THEN pc' = "closed" /\ cx' = [cx EXCEPT !.out = IF req.token = 0 THEN 422 ELSE 417]
           ELSE pc' = (IF cx.started THEN "finish" ELSE "action") /\ UNCHANGED cx
  /\ UNCHANGED <<jar, checks, pools, req, ops, resp, bound, asked, hope, gone>>

Action ==
  /\ pc = "action" /\ ops < MaxOps
  /\ (Operation /\ bound' = NotBound) \/ Bind
  /\ ops' = ops + 1
  /\ UNCHANGED <<jar, checks, req, pc, due, gone>>

(* Faulty: the template is rendered after what the action has sent. *)
RenderAlways ==
  /\ pc = "action"
  /\ Send(200, [hdr EXCEPT !.len = <<"long", "">>], Content("long", "", 0, 0))
  /\ cx' = [cx EXCEPT !.started = TRUE]
  /\ bound' = NotBound
  /\ pc' = "finish"
  /\ UNCHANGED <<jar, ctl, checks, pools, req, ops, made, asked, hope, due, gone>>

(* Render, unless something was sent or a status set; it may fail.         *)
Render ==
  /\ pc = "action"
  /\ \/ ~cx.started /\ cx.out = 0 /\ Send(200, [hdr EXCEPT !.len = <<"long", "">>], Content("long", "", 0, 0))
     \/ UNCHANGED <<hdr, resp>>
  /\ cx' = [cx EXCEPT !.started = resp'.sent]
  /\ bound' = NotBound
  /\ pc' = "finish"
  /\ UNCHANGED <<jar, ctl, checks, pools, req, ops, made, asked, hope, due, gone>>

(* The status that was set goes out if nothing has, else net/http's 200.   *)
Finish ==
  /\ pc = "finish"
  /\ resp' = IF resp.sent THEN resp
             ELSE [NotSent EXCEPT !.sent = TRUE, !.status = IF cx.out = 0 THEN 200 ELSE cx.out, !.hdr = hdr]
  /\ pc' = "done"
  /\ UNCHANGED <<jar, ctl, checks, cx, pools, req, ops, hdr, bound, made, asked, hope, due, gone>>

(* The messages in the cookie a client has after a response.               *)
NewFlash(h, flash) == IF h.flash = <<>> THEN flash ELSE h.flash[1]

(* The client gets the response and keeps its cookies, or it is lost; the  *)
(* connection of a request that panicked is closed.                        *)
Deliver ==
  /\ pc = "done"
  /\ LET h == resp.hdr
         c == req.client
     IN /\ jar' = [jar EXCEPT ![c] = [flash |-> NewFlash(h, @.flash),
                                      xsrf |-> IF h.xsrf = 0 THEN @.xsrf ELSE h.xsrf]]
        /\ due' = [due EXCEPT ![c] = [k \in Keys |-> IF hope.must[k] # 0 THEN hope.must[k] ELSE @[k]]]
        /\ gone' = [gone EXCEPT ![c] = @ \cup hope.shown]

Lose == pc \in {"done", "closed"} /\ UNCHANGED <<jar, due, gone>>

(* The context goes back to its pool. *)
End ==
  /\ Deliver \/ Lose
  /\ cx' = Reset(cx) /\ ctl' = InitFlash(ctl) /\ checks' = FALSE
  /\ pc' = "idle" /\ req' = NoReq /\ ops' = 0
  /\ hdr' = NewHeader /\ resp' = NotSent /\ bound' = NotBound
  /\ asked' = 0 /\ hope' = NoHope
  /\ UNCHANGED <<pools, made>>

(* The program is started again: new objects, the clients keep theirs.     *)
Restart ==
  /\ pc = "idle"
  /\ ctl' = [token |-> 0, flash |-> NoFlash]
  /\ cx' = NewCx /\ pools' = NewPools
  /\ UNCHANGED <<jar, checks, req, pc, ops, hdr, resp, bound, made, asked, hope, due, gone>>

Next ==
  \/ \E c \in Clients, in \in Inputs, token \in 0..made.tokens : Arrive(c, in, token)
  \/ ServeStatic \/ InitController \/ BeforeAction \/ ReadFlashData \/ CheckXSRF
  \/ Action \/ Render \/ Panic \/ Finish
  \/ End \/ Restart

Spec == Init /\ [][Next]_vars

-----------------------------------------------------------------------------
Flashes == [Keys -> 0..MaxMsgs]
Header  == [len : {<<>>} \cup {<<z, e>> : z \in {"short", "long"}, e \in {"", "gzip", "deflate"}},
            enc : {"", "gzip", "deflate"},
            flash : {<<>>} \cup {<<f>> : f \in Flashes}, xsrf : 0..MaxTokens]

TypeOK ==
  /\ jar \in [Clients -> [flash : Flashes, xsrf : 0..MaxTokens]]
  /\ ctl \in [token : 0..MaxTokens, flash : Flashes]
  /\ {checks, cx.gzip, cx.started} \subseteq BOOLEAN
  /\ pools.custom \cup pools.best \subseteq 0..9
  /\ pc = "idle" <=> req = NoReq
  /\ ops \in 0..MaxOps
  /\ hdr \in Header /\ resp.hdr \in Header /\ Len(resp.body) <= 1
  /\ pc \notin {"idle", "done"} => (resp.sent <=> cx.started)
  /\ made \in [tokens : 0..MaxTokens, msgs : 0..MaxMsgs]
  /\ hope.must \in Flashes /\ due \in [Clients -> Flashes]
  /\ gone \in [Clients -> SUBSET (1..MaxMsgs)]

(* A message a request has stored in time is shown by the next request of  *)
(* its client, whatever other clients, lost responses and restarts come    *)
(* between, and a message that was shown, and not stored with another one, *)
(* is never shown again.                                                   *)
FlashRight ==
  pc = "xsrf" =>
    /\ \A k \in Keys : due[req.client][k] # 0 => ctl.flash[k] = due[req.client][k]
    /\ Messages(Cookies.flash) \cap gone[req.client] = {}

(* What the client is told of the body is true of it: length and encoding, *)
(* one that it accepts, compressed at the level that was asked for; and a  *)
(* status that was set before anything was sent is the one it gets, unless *)
(* the reply brought its own.                                              *)
ResponseSound ==
  pc = "done" =>
    /\ \A i \in DOMAIN resp.body :
         LET b == resp.body[i] IN
         /\ resp.hdr.len \in {<<>>, <<b.size, b.enc>>}
         /\ resp.hdr.enc = b.enc /\ Acceptable(b.enc, req.accept)
         /\ b.got = b.level
    /\ asked # 0 => resp.status = asked

(* "checks xsrf token in this request is valid": where the configuration   *)
(* and the controller both have EnableXSRF, the action of a POST runs only *)
(* with the token its own client has in its cookie, although controller    *)
(* and context are shared, keep tokens of other requests, and draw tokens  *)
(* for requests that are not checked.                                      *)
PostHasOwnToken ==
  pc = "action" /\ EnableXSRF /\ checks /\ req.method = "POST" =>
    req.token # 0 /\ req.token = Cookies.xsrf

(* Values are bound alike in whatever order the form is walked: a slice    *)
(* has each value at its index, a field one of the values sent for it; and *)
(* a number a getter returns without an error is the one that was sent,    *)
(* and the one Bind gives.                                                 *)
BoundRight ==
  /\ bound.what = "slice" => SliceRight(req.form, bound.slice)
  /\ bound.what = "field" =>
       LET ks == {k \in DOMAIN req.form : k.as \in {"dot", "bracket"}} IN
       IF ks = {} THEN bound.field = 0 ELSE \E k \in ks : bound.field = bindInt(Head(req.form[k]))
  /\ bound.what = "int" =>
       LET v == Query(req.form, [as |-> "plain", at |-> 0]) IN
       ~bound.get.err =>
         IF v = Blank THEN bound.get.val = bound.def[1]
         ELSE bound.get.val = v.n /\ bound.int = v.n
=============================================================================
