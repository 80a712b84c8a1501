-------------------------- MODULE Exchange_proofs --------------------------
(***************************************************************************)
(* Proofs about Exchange, for any number of clients, inputs, tokens,       *)
(* messages and operations: first flash messages and XSRF tokens (Inv),    *)
(* then types and what is sent (Rest), at last what is bound, for any form *)
(* and any width of integers (BoundOK).                                    *)
(***************************************************************************)
EXTENDS Exchange, FiniteSetTheorems, SequenceTheorems, NaturalsInduction, WellFoundedInduction, TLAPS

-----------------------------------------------------------------------------
(* Types.  Messages and tokens are numbers that have been given away.      *)
MsgFlashes  == [Keys -> 0..made.msgs]
HeaderOK(h) ==
  /\ h = [len |-> h.len, enc |-> h.enc, flash |-> h.flash, xsrf |-> h.xsrf]
  /\ h.flash = <<>> \/ \E f \in MsgFlashes : h.flash = <<f>>
  /\ h.xsrf \in 0..made.tokens

Types ==
  /\ made \in [tokens : Nat, msgs : Nat]
  /\ jar \in [Clients -> [flash : MsgFlashes, xsrf : 0..made.tokens]]
  /\ ctl \in [token : 0..made.tokens, flash : MsgFlashes]
  /\ HeaderOK(hdr) /\ HeaderOK(resp.hdr)
  /\ resp = [sent |-> resp.sent, status |-> resp.status, hdr |-> resp.hdr, body |-> resp.body]
  /\ resp.sent \in BOOLEAN
  /\ hope \in [must : MsgFlashes, shown : SUBSET (1..made.msgs)]
  /\ due \in [Clients -> MsgFlashes] /\ gone \in [Clients -> SUBSET (1..made.msgs)]
  /\ pc # "idle" => req.client \in Clients /\ req.token \in 0..made.tokens

(* What the client of the request would have if it got the response now.   *)
Sent  == IF resp.sent THEN resp.hdr ELSE hdr
After == NewFlash(Sent, Cookies.flash)

(* The cookies of the clients between requests.                            *)
AtRest ==
  \A c \in Clients :
    /\ Messages(jar[c].flash) \cap gone[c] = {}
    /\ \A k \in Keys : due[c][k] # 0 => jar[c].flash[k] = due[c][k]

Fresh == /\ ctl.flash = NoFlash /\ hdr.flash = <<>> /\ ~resp.sent
         /\ hope = NoHope

(* What the request that is served will leave in them.                     *)
Promised == \A k \in Keys : hope.must[k] # 0 => After[k] = hope.must[k]
NotAgain == /\ hope.shown \cap Messages(After) = {}
            /\ Messages(After) \cap gone[req.client] = {}
            /\ Messages(ctl.flash) \cap gone[req.client] = {}
InHand   == ~resp.sent => \A k \in Keys : hope.must[k] # 0 => ctl.flash[k] = hope.must[k]
StillDue == pc \in {"finish", "done"} =>
              \A k \in Keys : due[req.client][k] # 0 => After[k] = due[req.client][k]

UnderWay ==
  /\ pc \in {"idle", "static", "before"} => Fresh
  /\ pc = "flash" /\ Cookies.flash # NoFlash => hope.must = NoFlash
  /\ pc = "done" => resp.sent
  /\ pc = "action" => due[req.client] = NoFlash
  /\ pc # "idle" => Promised /\ NotAgain /\ InHand /\ StillDue

Inv == Types /\ AtRest /\ UnderWay /\ FlashRight /\ PostHasOwnToken

-----------------------------------------------------------------------------
(* What is sent keeps to its type, and the client gets the same messages   *)
(* with it as it would have got before.                                    *)
LEMMA SendResult ==
  ASSUME Types, UNCHANGED <<jar, req, made>>,
         NEW status, NEW h, NEW content, Send(status, h, content),
         HeaderOK(h), h.flash = hdr.flash
  PROVE  /\ HeaderOK(hdr)' /\ HeaderOK(resp.hdr)'
         /\ (resp = [sent |-> resp.sent, status |-> resp.status, hdr |-> resp.hdr, body |-> resp.body])'
         /\ resp'.sent = TRUE
         /\ hdr'.flash = hdr.flash
         /\ After' = After
<1>1. hdr' = h /\ MsgFlashes' = MsgFlashes
  BY DEF Send, MsgFlashes
<1>2. /\ HeaderOK(hdr)' /\ hdr'.flash = hdr.flash
  BY <1>1 DEF HeaderOK
<1>3. CASE resp.sent
  <2>1. resp' = [resp EXCEPT !.body = Append(@, content)]
    BY <1>3 DEF Send
  <2>2. resp' = [sent |-> resp.sent, status |-> resp.status, hdr |-> resp.hdr, body |-> resp'.body]
    BY <2>1 DEF Types
  <2>3. HeaderOK(resp.hdr)'
    BY <2>2, <1>1 DEF Types, HeaderOK
  <2> QED BY <1>2, <1>3, <2>2, <2>3 DEF After, Sent, Cookies, NewFlash
<1>4. CASE ~resp.sent
  <2>1. resp' = [sent |-> TRUE, status |-> status, hdr |-> h, body |-> <<content>>]
    BY <1>4 DEF Send
  <2>2. HeaderOK(resp.hdr)'
    BY <2>1, <1>1 DEF HeaderOK
  <2> QED BY <1>2, <1>4, <2>1, <2>2 DEF After, Sent, Cookies, NewFlash
<1> QED BY <1>3, <1>4 DEF Types

(* A step that leaves what clients get alone.                              *)
Still ==
  /\ UNCHANGED <<jar, req, hope, gone>>
  /\ ctl'.flash = ctl.flash /\ hdr'.flash = hdr.flash
  /\ After' = After
  /\ resp.sent => resp'.sent

LEMMA StillStep ==
  ASSUME Inv, Still, due' = due, pc # "idle"
  PROVE  /\ AtRest' /\ Promised' /\ NotAgain' /\ InHand'
         /\ pc \in {"finish", "done"} => StillDue'
<1>1. Promised /\ NotAgain /\ InHand /\ StillDue
  BY DEF Inv, UnderWay
<1>2. AtRest'
  BY DEF Inv, AtRest, Still, Messages
<1>3. Promised' /\ NotAgain' /\ InHand'
  BY <1>1 DEF Still, Promised, NotAgain, InHand, Messages
<1>4. pc \in {"finish", "done"} => StillDue'
  BY <1>1 DEF Still, StillDue
<1> QED BY <1>2, <1>3, <1>4

-----------------------------------------------------------------------------
(* The operations of the application other than Flash: they send, or set a *)
(* status, and touch no message and no token.                              *)
SentOK ==
  /\ HeaderOK(hdr) /\ HeaderOK(resp.hdr)
  /\ resp = [sent |-> resp.sent, status |-> resp.status, hdr |-> resp.hdr, body |-> resp.body]
  /\ resp.sent \in BOOLEAN

Answers == SetStatus(Set) \/ EnableGzip \/ SendFormatted \/ WriteString
             \/ MethodNotAllowed \/ Redirect \/ DownloadFile

LEMMA NothingSent ==
  ASSUME Types, UNCHANGED <<jar, req, made, hdr, resp>>
  PROVE  SentOK' /\ hdr'.flash = hdr.flash /\ After' = After /\ (resp.sent => resp'.sent)
BY DEF Types, SentOK, HeaderOK, MsgFlashes, After, Sent, Cookies

LEMMA AnswersStill ==
  ASSUME Types, Answers, UNCHANGED <<jar, req, gone>>
  PROVE  Still /\ SentOK' /\ UNCHANGED <<made, ctl>>
<1> SUFFICES UNCHANGED <<made, ctl, hope>> /\ SentOK' /\ hdr'.flash = hdr.flash
             /\ After' = After /\ (resp.sent => resp'.sent)
  BY DEF Still
<1>1. CASE SetStatus(Set) \/ EnableGzip
  BY <1>1, NothingSent DEF SetStatus, EnableGzip
<1>2. ASSUME NEW status, Reply(status)
      PROVE  UNCHANGED <<made, ctl, hope>> /\ SentOK' /\ hdr'.flash = hdr.flash /\ After' = After /\ resp'.sent
  <2> DEFINE h == IF status = 200 THEN [hdr EXCEPT !.len = <<"short", "">>] ELSE hdr
  <2>1. Send(status, h, Page) /\ UNCHANGED <<made, ctl, hope>>
    BY <1>2 DEF Reply
  <2>2. HeaderOK(h) /\ h.flash = hdr.flash
    BY DEF Types, HeaderOK
  <2> HIDE DEF h
  <2> QED BY <2>1, <2>2, SendResult DEF SentOK
<1>3. ASSUME NEW size, Body(size)
      PROVE  UNCHANGED <<made, ctl, hope>> /\ SentOK' /\ hdr'.flash = hdr.flash /\ After' = After /\ resp'.sent
  <2>1. PICK status, len, enc, content : Send(status, [hdr EXCEPT !.len = len, !.enc = enc], content)
    BY <1>3 DEF Body
  <2> DEFINE h == [hdr EXCEPT !.len = len, !.enc = enc]
  <2>2. HeaderOK(h) /\ h.flash = hdr.flash
    <3>1. hdr = [len |-> hdr.len, enc |-> hdr.enc, flash |-> hdr.flash, xsrf |-> hdr.xsrf]
      BY DEF Types, HeaderOK
    <3> DEFINE g == [len |-> len, enc |-> hdr.enc, flash |-> hdr.flash, xsrf |-> hdr.xsrf]
    <3>2. [hdr EXCEPT !.len = len] = g
      BY <3>1
    <3>3. h = [g EXCEPT !.enc = enc]
      BY <3>2
    <3>4. h = [len |-> len, enc |-> enc, flash |-> hdr.flash, xsrf |-> hdr.xsrf]
      BY <3>3
    <3> QED BY <3>4 DEF Types, HeaderOK
  <2>3. UNCHANGED <<made, ctl, hope>>
    BY <1>3 DEF Body
  <2>4. Send(status, h, content)
    BY <2>1
  <2> HIDE DEF h
  <2> QED BY <2>2, <2>3, <2>4, SendResult DEF SentOK
<1>4. CASE WriteString
  <2>1. Send(200, hdr, Page) /\ UNCHANGED <<made, ctl, hope>>
    BY <1>4 DEF WriteString
  <2> QED BY <2>1, SendResult DEF SentOK, Types
<1>5. CASE SendFormatted \/ MethodNotAllowed \/ Redirect \/ DownloadFile
  <2>1. CASE UNCHANGED <<ctl, cx, pools, hdr, resp, made, asked, hope>>
    BY <2>1, NothingSent
  <2> QED BY <1>2, <1>3, <1>5, <2>1 DEF SendFormatted, MethodNotAllowed, Redirect, DownloadFile
<1> QED BY <1>1, <1>4, <1>5 DEF Answers

(* A step that leaves messages, tokens and cookies alone keeps the types.  *)
LEMMA StillTypes ==
  ASSUME Types, Still, SentOK', UNCHANGED <<made, ctl, due>>, pc # "idle"
  PROVE  Types'
BY DEF Types, Still, SentOK, MsgFlashes

-----------------------------------------------------------------------------
(* Flash: the message is new to everybody, and the cookie that is sent has *)
(* the messages the controller has.                                        *)
LEMMA FlashTypes ==
  ASSUME Types, NEW k \in Keys, Flash(k), UNCHANGED <<jar, req, due, gone>>,
         pc \in {"before", "action"}
  PROVE  Types'
<1> DEFINE m == made.msgs + 1
<1>1. /\ m \in Nat /\ m \in 1..m
      /\ made' = [made EXCEPT !.msgs = m] /\ made'.msgs = m /\ made'.tokens = made.tokens
      /\ made' \in [tokens : Nat, msgs : Nat]
  BY DEF Flash, Types
<1>2. MsgFlashes \subseteq MsgFlashes' /\ 1..made.msgs \subseteq 1..m
  BY <1>1 DEF MsgFlashes, Types
<1>3. ctl' = [ctl EXCEPT !.flash[k] = m]
  BY DEF Flash
<1>4. ctl'.flash \in MsgFlashes' /\ ctl' \in [token : 0..made'.tokens, flash : MsgFlashes']
  <2>1. ctl.flash \in MsgFlashes' /\ ctl.token \in 0..made'.tokens
    BY <1>1, <1>2 DEF Types
  <2>2. [ctl.flash EXCEPT ![k] = m] \in MsgFlashes'
    BY <1>1, <2>1 DEF MsgFlashes
  <2>3. ctl' = [token |-> ctl.token, flash |-> [ctl.flash EXCEPT ![k] = m]]
    BY <1>3 DEF Types
  <2> QED BY <2>1, <2>2, <2>3
<1>5. resp' = resp /\ hdr' = [hdr EXCEPT !.flash = <<ctl'.flash>>]
  BY DEF Flash, Store
<1>6. hdr' = [len |-> hdr.len, enc |-> hdr.enc, flash |-> <<ctl'.flash>>, xsrf |-> hdr.xsrf]
  BY <1>5 DEF Types, HeaderOK
<1>7. SentOK'
  BY <1>1, <1>2, <1>4, <1>5, <1>6 DEF Types, HeaderOK, SentOK
<1>8. hope' \in [must : MsgFlashes', shown : SUBSET (1..m)]
  <2>1. hope.must \in MsgFlashes'
    BY <1>2 DEF Types
  <2>2. [hope.must EXCEPT ![k] = m] \in MsgFlashes'
    BY <1>1, <2>1 DEF MsgFlashes
  <2> QED BY <2>1, <2>2 DEF Flash
<1>9. /\ jar' \in [Clients -> [flash : MsgFlashes', xsrf : 0..made'.tokens]]
      /\ due' \in [Clients -> MsgFlashes'] /\ gone' \in [Clients -> SUBSET (1..m)]
  BY <1>1, <1>2 DEF Types
<1>10. req'.client \in Clients /\ req'.token \in 0..made'.tokens
  BY <1>1 DEF Types
<1> HIDE DEF m
<1> QED BY <1>1, <1>4, <1>7, <1>8, <1>9, <1>10 DEF Types, SentOK

LEMMA FlashStep ==
  ASSUME Inv, NEW k \in Keys, Flash(k), UNCHANGED <<jar, req, due, gone>>,
         pc \in {"before", "action"}
  PROVE  /\ AtRest' /\ Promised' /\ NotAgain' /\ InHand'
         /\ pc = "before" /\ Cookies.flash # NoFlash => hope'.must = NoFlash
<1> DEFINE m == made.msgs + 1
<1>1. Types /\ AtRest /\ UnderWay /\ Promised /\ NotAgain /\ InHand
  BY DEF Inv, UnderWay
<1>2. /\ m \in Nat /\ m # 0 /\ \A c \in Clients : m \notin gone[c]
      /\ ctl' = [ctl EXCEPT !.flash[k] = m]
  <2>1. made.msgs \in Nat /\ m \notin 1..made.msgs
    BY <1>1 DEF Types
  <2> QED BY <1>1, <2>1 DEF Types, Flash
<1>3. ctl'.flash = [ctl.flash EXCEPT ![k] = m]
  BY <1>1, <1>2 DEF Types
<1>4. req.client \in Clients
  BY <1>1 DEF Types
<1>5. AtRest'
  BY <1>1 DEF AtRest
<1>6. Messages(ctl'.flash) \subseteq Messages(ctl.flash) \cup {m}
  BY <1>1, <1>3 DEF Messages, Types, MsgFlashes
<1>7. Messages(ctl'.flash) \cap gone'[req'.client] = {}
  BY <1>1, <1>2, <1>4, <1>6 DEF NotAgain
<1>8. hope'.shown = {}
  BY DEF Flash
<1>9. resp' = resp /\ hdr' = [hdr EXCEPT !.flash = <<ctl'.flash>>] /\ hdr'.flash = <<ctl'.flash>>
  BY <1>1 DEF Flash, Store, Types, HeaderOK
<1>10. CASE resp.sent
  <2>1. After' = After /\ hope'.must = hope.must
    BY <1>9, <1>10 DEF After, Sent, Cookies, Flash
  <2> QED BY <1>1, <1>5, <1>7, <1>8, <1>9, <1>10, <2>1 DEF Promised, NotAgain, InHand, UnderWay, Fresh
<1>11. CASE ~resp.sent
  <2>1. After' = ctl'.flash
    BY <1>9, <1>11 DEF After, Sent, NewFlash
  <2>2. hope'.must = [hope.must EXCEPT ![k] = m] \/ hope'.must = hope.must
    BY DEF Flash
  <2>3. pc = "before" /\ Cookies.flash # NoFlash => hope'.must = NoFlash
    BY <1>1, <1>11 DEF Flash, UnderWay, Fresh, NoHope
  <2>4. CASE hope'.must = [hope.must EXCEPT ![k] = m]
    <3>1. \A j \in Keys : hope'.must[j] # 0 => ctl'.flash[j] = hope'.must[j]
      BY <1>1, <1>3, <1>11, <2>4 DEF InHand, Types, MsgFlashes
    <3> QED BY <1>5, <1>7, <1>8, <2>1, <2>3, <3>1 DEF Promised, NotAgain, InHand
  <2>5. CASE hope'.must = hope.must /\ hope'.must # [hope.must EXCEPT ![k] = m]
    <3>1. hope'.must = NoFlash
      BY <1>1, <1>11, <2>3, <2>5 DEF Flash
    <3>2. \A j \in Keys : hope'.must[j] = 0
      BY <3>1 DEF NoFlash
    <3> QED BY <1>5, <1>7, <1>8, <2>1, <2>3, <3>2 DEF Promised, NotAgain, InHand
  <2> QED BY <2>2, <2>4, <2>5
<1> QED BY <1>10, <1>11 DEF Inv, Types

-----------------------------------------------------------------------------
(* Each step keeps the invariant.                                          *)
LEMMA ArriveStep ==
  ASSUME Inv, NEW c \in Clients, NEW in \in Inputs, NEW token \in 0..made.tokens,
         Arrive(c, in, token)
  PROVE  Inv'
<1>1. /\ pc = "idle" /\ pc' = "static" /\ req'.client = c /\ req'.token = token
      /\ UNCHANGED <<jar, ctl, hdr, resp, made, hope, due, gone>>
  BY DEF Arrive
<1>2. Types'
  BY <1>1 DEF Inv, Types, HeaderOK, MsgFlashes
<1>3. AtRest'
  BY <1>1 DEF Inv, AtRest
<1>4. Fresh /\ Fresh'
  BY <1>1 DEF Inv, UnderWay, Fresh
<1>5. After' = jar[c].flash
  BY <1>1, <1>4 DEF After, Sent, Cookies, NewFlash, Fresh
<1>6. \A k \in Keys : hope'.must[k] = 0
  BY <1>4 DEF Fresh, NoHope, NoFlash
<1>7. NotAgain'
  <2>1. Messages(ctl'.flash) = {} /\ hope'.shown = {}
    BY <1>4 DEF Fresh, NoHope, NoFlash, Messages
  <2>2. Messages(jar[c].flash) \cap gone[c] = {}
    BY DEF Inv, AtRest
  <2> QED BY <1>1, <1>5, <2>1, <2>2 DEF NotAgain
<1> QED BY <1>1, <1>2, <1>3, <1>4, <1>6, <1>7
        DEF Inv, UnderWay, Promised, InHand, StillDue, FlashRight, PostHasOwnToken

LEMMA ServeStaticStep ==
  ASSUME Inv, ServeStatic
  PROVE  Inv'
<1>1. /\ pc = "static" /\ pc' = "finish"
      /\ UNCHANGED <<jar, ctl, req, made, hope, due, gone>>
  BY DEF ServeStatic
<1>2. Types /\ AtRest /\ Fresh
  BY <1>1 DEF Inv, UnderWay
<1>3. PICK enc, level, content :
        Send(200, IF enc = "" THEN [hdr EXCEPT !.len = level] ELSE [hdr EXCEPT !.enc = enc], content)
  BY DEF ServeStatic
<1> DEFINE h == IF enc = "" THEN [hdr EXCEPT !.len = level] ELSE [hdr EXCEPT !.enc = enc]
<1>4. HeaderOK(h) /\ h.flash = hdr.flash
  <2>1. hdr = [len |-> hdr.len, enc |-> hdr.enc, flash |-> hdr.flash, xsrf |-> hdr.xsrf]
    BY <1>2 DEF Types, HeaderOK
  <2>2. CASE enc = ""
    <3>1. h = [len |-> level, enc |-> hdr.enc, flash |-> hdr.flash, xsrf |-> hdr.xsrf]
      BY <2>1, <2>2
    <3> QED BY <1>2, <3>1 DEF Types, HeaderOK
  <2>3. CASE enc # ""
    <3>1. h = [len |-> hdr.len, enc |-> enc, flash |-> hdr.flash, xsrf |-> hdr.xsrf]
      BY <2>1, <2>3
    <3> QED BY <1>2, <3>1 DEF Types, HeaderOK
  <2> QED BY <2>2, <2>3
<1>5. Send(200, h, content)
  BY <1>3
<1> HIDE DEF h
<1>6. SentOK' /\ Still
  BY <1>1, <1>2, <1>4, <1>5, SendResult DEF SentOK, Still
<1>7. Types'
  BY <1>1, <1>2, <1>6, StillTypes
<1>8. AtRest' /\ Promised' /\ NotAgain' /\ InHand'
  BY <1>1, <1>6, StillStep
<1>9. StillDue'
  <2>1. req.client \in Clients /\ After = Cookies.flash
    BY <1>1, <1>2 DEF Types, After, Sent, NewFlash, Fresh
  <2>2. After' = After
    BY <1>6 DEF Still
  <2> QED BY <1>1, <1>2, <2>1, <2>2 DEF StillDue, AtRest, Cookies
<1> QED BY <1>1, <1>7, <1>8, <1>9 DEF Inv, UnderWay, FlashRight, PostHasOwnToken

(* Steps that change no message, cookie or header.                         *)
LEMMA QuietStep ==
  ASSUME Inv, pc # "idle",
         UNCHANGED <<jar, ctl, req, hdr, made, hope, due, gone>>, UNCHANGED resp
  PROVE  /\ Types' /\ AtRest' /\ Promised' /\ NotAgain' /\ InHand'
         /\ pc \in {"finish", "done"} => StillDue'
<1>1. Types /\ SentOK' /\ Still
  BY NothingSent DEF Inv, Still
<1> QED BY <1>1, StillTypes, StillStep

LEMMA InitControllerStep ==
  ASSUME Inv, InitController
  PROVE  Inv'
<1>1. /\ pc = "static" /\ pc' = "before"
      /\ UNCHANGED <<jar, ctl, req, hdr, resp, made, hope, due, gone>>
  BY DEF InitController
<1>2. Fresh'
  BY <1>1 DEF Inv, UnderWay, Fresh
<1> QED BY <1>1, <1>2, QuietStep DEF Inv, UnderWay, StillDue, FlashRight, PostHasOwnToken

LEMMA PanicStep ==
  ASSUME Inv, Panic
  PROVE  Inv'
<1>1. /\ pc \in {"before", "action"} /\ pc' = "closed"
      /\ UNCHANGED <<jar, ctl, req, hdr, resp, made, hope, due, gone>>
  BY DEF Panic
<1> QED BY <1>1, QuietStep DEF Inv, UnderWay, StillDue, FlashRight, PostHasOwnToken

-----------------------------------------------------------------------------
(* An operation of the application, in BeforeAction or in the action.      *)
LEMMA OperationStep ==
  ASSUME Inv, Operation, pc \in {"before", "action"}, UNCHANGED <<jar, req, due, gone>>
  PROVE  /\ Types' /\ AtRest' /\ Promised' /\ NotAgain' /\ InHand'
         /\ pc = "before" /\ Cookies.flash # NoFlash => hope'.must = NoFlash
<1>1. CASE \E k \in Keys : Flash(k)
  BY <1>1, FlashTypes, FlashStep DEF Inv
<1>2. CASE Answers
  <2>1. Still /\ SentOK' /\ UNCHANGED <<made, ctl>>
    BY <1>2, AnswersStill DEF Inv
  <2>2. Types' /\ AtRest' /\ Promised' /\ NotAgain' /\ InHand'
    BY <2>1, StillTypes, StillStep DEF Inv
  <2>3. pc = "before" => hope'.must = NoFlash
    BY <2>1 DEF Still, Inv, UnderWay, Fresh, NoHope
  <2> QED BY <2>2, <2>3
<1> QED BY <1>1, <1>2 DEF Operation, Answers

LEMMA BeforeActionStep ==
  ASSUME Inv, BeforeAction
  PROVE  Inv'
<1>1. /\ pc = "before" /\ pc' = "flash" /\ UNCHANGED <<jar, req, due, gone>>
      /\ Operation \/ UNCHANGED <<ctl, hdr, resp, made, hope>>
  BY DEF BeforeAction
<1>2. /\ Types' /\ AtRest' /\ Promised' /\ NotAgain' /\ InHand'
      /\ Cookies.flash # NoFlash => hope'.must = NoFlash
  <2>1. CASE Operation
    BY <1>1, <2>1, OperationStep
  <2>2. CASE UNCHANGED <<ctl, hdr, resp, made, hope>>
    BY <1>1, <2>2, QuietStep DEF Inv, UnderWay, Fresh, NoHope
  <2> QED BY <1>1, <2>1, <2>2
<1>3. Cookies' = Cookies
  BY <1>1 DEF Cookies
<1> QED BY <1>1, <1>2, <1>3 DEF Inv, UnderWay, StillDue, FlashRight, PostHasOwnToken

LEMMA ActionStep ==
  ASSUME Inv, Action
  PROVE  Inv'
<1>1. /\ pc = "action" /\ pc' = "action" /\ UNCHANGED <<jar, checks, req, due, gone>>
      /\ Operation \/ UNCHANGED <<ctl, hdr, resp, made, hope>>
  BY DEF Action, Bind
<1>2. Types' /\ AtRest' /\ Promised' /\ NotAgain' /\ InHand'
  BY <1>1, OperationStep, QuietStep
<1> QED BY <1>1, <1>2 DEF Inv, UnderWay, StillDue, FlashRight, PostHasOwnToken, Cookies

-----------------------------------------------------------------------------
(* ReadFlashData: the messages of the cookie, none of which was shown      *)
(* before, are shown now, and the cookie goes unless it is too late.       *)
LEMMA ReadFlashTypes ==
  ASSUME Inv, ReadFlashData
  PROVE  Types'
<1>1. /\ pc = "flash" /\ Types
      /\ UNCHANGED <<jar, req, resp, made, due, gone>>
  BY DEF ReadFlashData, Inv
<1>2. Cookies.flash \in MsgFlashes /\ Messages(Cookies.flash) \subseteq 1..made.msgs
  BY <1>1 DEF Types, Cookies, Messages, MsgFlashes
<1>3. ctl' \in [token : 0..made.tokens, flash : MsgFlashes]
  BY <1>1, <1>2 DEF ReadFlashData, Types, MsgFlashes
<1>4. hope' \in [must : MsgFlashes, shown : SUBSET (1..made.msgs)]
  BY <1>1, <1>2 DEF ReadFlashData, Types
<1>5. HeaderOK(hdr')
  <2>1. CASE hdr' = hdr
    BY <1>1, <2>1 DEF Types
  <2>2. CASE hdr' = [hdr EXCEPT !.flash = <<NoFlash>>]
    <3>1. NoFlash \in MsgFlashes
      BY <1>1 DEF NoFlash, MsgFlashes, Types
    <3>2. hdr' = [len |-> hdr.len, enc |-> hdr.enc, flash |-> <<NoFlash>>, xsrf |-> hdr.xsrf]
      BY <1>1, <2>2 DEF Types, HeaderOK
    <3> QED BY <1>1, <3>1, <3>2 DEF Types, HeaderOK
  <2> QED BY <2>1, <2>2 DEF ReadFlashData
<1>6. MsgFlashes' = MsgFlashes
  BY <1>1 DEF MsgFlashes
<1>7. HeaderOK(hdr)' /\ HeaderOK(resp.hdr)'
  BY <1>1, <1>5, <1>6 DEF Types, HeaderOK
<1> QED BY <1>1, <1>3, <1>4, <1>6, <1>7 DEF Types

LEMMA ReadFlashStep ==
  ASSUME Inv, ReadFlashData
  PROVE  Inv'
<1>1. /\ pc = "flash" /\ pc' = "xsrf"
      /\ UNCHANGED <<jar, req, resp, made, due, gone>>
      /\ hope'.must = hope.must /\ hope'.shown = (IF resp.sent THEN {} ELSE Messages(Cookies.flash))
      /\ ctl'.flash = [k \in Keys |-> IF Cookies.flash[k] # 0 THEN Cookies.flash[k] ELSE ctl.flash[k]]
  BY DEF ReadFlashData, Inv, Types
<1>2. /\ Types /\ AtRest /\ Promised /\ NotAgain /\ InHand
      /\ Cookies.flash # NoFlash => hope.must = NoFlash
  BY <1>1 DEF Inv, UnderWay
<1>3. /\ req.client \in Clients /\ Cookies.flash \in MsgFlashes /\ ctl.flash \in MsgFlashes
      /\ Cookies' = Cookies
  BY <1>1, <1>2 DEF Types, Cookies
<1>4. Types' /\ AtRest'
  BY <1>1, <1>2, ReadFlashTypes DEF AtRest
<1>5. Messages(Cookies.flash) \cap gone[req.client] = {}
  BY <1>2, <1>3 DEF AtRest, Cookies
<1>6. FlashRight'
  <2>1. \A k \in Keys : due[req.client][k] # 0 => ctl'.flash[k] = due[req.client][k]
    BY <1>1, <1>2, <1>3 DEF AtRest, Cookies
  <2> QED BY <1>1, <1>3, <1>5, <2>1 DEF FlashRight
<1>7. Messages(ctl'.flash) \cap gone[req.client] = {}
  <2>1. Messages(ctl'.flash) \subseteq Messages(ctl.flash) \cup Messages(Cookies.flash)
    BY <1>1 DEF Messages
  <2> QED BY <1>2, <1>5, <2>1 DEF NotAgain
<1>8. CASE Cookies.flash = NoFlash
  <2>1. Messages(Cookies.flash) = {} /\ ctl'.flash = ctl.flash
    BY <1>1, <1>3, <1>8 DEF Messages, NoFlash, MsgFlashes
  <2>2. After' = After
    BY <1>1, <1>3, <1>8 DEF ReadFlashData, After, Sent
  <2>3. hope'.shown = {}
    BY <1>1, <2>1
  <2> QED BY <1>1, <1>2, <1>4, <1>6, <1>7, <2>1, <2>2, <2>3
          DEF Inv, UnderWay, Promised, NotAgain, InHand, StillDue, PostHasOwnToken
<1>9. CASE Cookies.flash # NoFlash
  <2>1. \A k \in Keys : hope'.must[k] = 0
    BY <1>1, <1>2, <1>9 DEF NoFlash
  <2>2. hope'.shown \cap Messages(After') = {} /\ Messages(After') \cap gone[req.client] = {}
    <3>1. CASE resp.sent
      <4>1. After' = After /\ hope'.shown = {}
        BY <1>1, <1>3, <3>1 DEF After, Sent
      <4> QED BY <1>2, <4>1 DEF NotAgain
    <3>2. CASE ~resp.sent
      <4>1. hdr'.flash = <<NoFlash>>
        BY <1>2, <1>9 DEF ReadFlashData, Types, HeaderOK
      <4>2. After' = NoFlash
        BY <1>1, <3>2, <4>1 DEF After, Sent, NewFlash
      <4>3. Messages(NoFlash) = {}
        BY DEF Messages, NoFlash
      <4> QED BY <4>2, <4>3
    <3> QED BY <3>1, <3>2
  <2> QED BY <1>1, <1>4, <1>6, <1>7, <2>1, <2>2
          DEF Inv, UnderWay, Promised, NotAgain, InHand, StillDue, PostHasOwnToken
<1> QED BY <1>8, <1>9

-----------------------------------------------------------------------------
(* CheckXSRF: a token that is new belongs to nobody, so a POST that gets   *)
(* through brought the one its client has.                                 *)
LEMMA TokenIsOwn ==
  ASSUME Types, pc # "idle", EnableXSRF, ~Refused(XSRFToken)
  PROVE  req.token # 0 /\ req.token = Cookies.xsrf
<1>1. req.token # 0 /\ req.token = XSRFToken /\ req.token \in 0..made.tokens /\ made.tokens \in Nat
  BY DEF Refused, Types
<1>2. XSRFToken # made.tokens + 1
  BY <1>1
<1> QED BY <1>1, <1>2 DEF XSRFToken

LEMMA CheckXSRFTypes ==
  ASSUME Inv, CheckXSRF
  PROVE  Types'
<1> DEFINE token == XSRFToken
           fresh == token > made.tokens
<1>1. /\ pc = "xsrf" /\ Types /\ UNCHANGED <<jar, req, resp, hope, gone>>
      /\ due' = [due EXCEPT ![req.client] = NoFlash]
      /\ made' = (IF fresh THEN [made EXCEPT !.tokens = token] ELSE made)
      /\ hdr' = (IF fresh THEN [hdr EXCEPT !.xsrf = token] ELSE hdr)
      /\ ctl' = (IF token # 0 THEN [ctl EXCEPT !.token = token] ELSE ctl)
  BY DEF CheckXSRF, Inv
<1>2. made.tokens \in Nat /\ made.msgs \in Nat /\ Cookies.xsrf \in 0..made.tokens
  BY <1>1 DEF Types, Cookies
<1>3. token \in 0..(made.tokens + 1)
  BY <1>2 DEF XSRFToken
<1> HIDE DEF token
<1>4. /\ made' \in [tokens : Nat, msgs : Nat] /\ made'.msgs = made.msgs
      /\ 0..made.tokens \subseteq 0..made'.tokens /\ token \in 0..made'.tokens
  <2>1. CASE fresh
    BY <1>1, <1>2, <1>3, <2>1 DEF Types
  <2>2. CASE ~fresh
    BY <1>1, <1>2, <1>3, <2>2 DEF Types
  <2> QED BY <2>1, <2>2
<1>5. MsgFlashes' = MsgFlashes
  BY <1>4 DEF MsgFlashes
<1>6. ctl' \in [token : 0..made'.tokens, flash : MsgFlashes]
  BY <1>1, <1>4 DEF Types
<1>7. HeaderOK(hdr)'
  <2>1. CASE hdr' = hdr
    BY <1>1, <1>4, <1>5, <2>1 DEF Types, HeaderOK
  <2>2. CASE hdr' = [hdr EXCEPT !.xsrf = token]
    <3>1. hdr' = [len |-> hdr.len, enc |-> hdr.enc, flash |-> hdr.flash, xsrf |-> token]
      BY <1>1, <2>2 DEF Types, HeaderOK
    <3> QED BY <1>1, <1>4, <1>5, <3>1 DEF Types, HeaderOK
  <2> QED BY <1>1, <2>1, <2>2
<1>8. HeaderOK(resp.hdr)'
  BY <1>1, <1>4, <1>5 DEF Types, HeaderOK
<1>9. due' \in [Clients -> MsgFlashes]
  <2>1. NoFlash \in MsgFlashes
    BY <1>2 DEF NoFlash, MsgFlashes
  <2> QED BY <1>1, <2>1 DEF Types
<1>10. jar' \in [Clients -> [flash : MsgFlashes, xsrf : 0..made'.tokens]]
  BY <1>1, <1>4 DEF Types
<1>11. req'.client \in Clients /\ req'.token \in 0..made'.tokens
  BY <1>1, <1>4 DEF Types
<1> QED BY <1>1, <1>4, <1>5, <1>6, <1>7, <1>8, <1>9, <1>10, <1>11 DEF Types

LEMMA CheckXSRFStep ==
  ASSUME Inv, CheckXSRF
  PROVE  Inv'
<1>1. /\ pc = "xsrf" /\ pc' \in {"closed", "finish", "action"} /\ Types
      /\ UNCHANGED <<jar, req, resp, hope, gone>>
      /\ due' = [due EXCEPT ![req.client] = NoFlash]
  BY DEF CheckXSRF, Inv
<1>2. ctl'.flash = ctl.flash /\ hdr'.flash = hdr.flash
  BY <1>1 DEF CheckXSRF, Types, HeaderOK
<1>3. After' = After
  BY <1>1, <1>2 DEF After, Sent, Cookies, NewFlash
<1>4. Promised' /\ NotAgain' /\ InHand'
  BY <1>1, <1>2, <1>3 DEF Inv, UnderWay, Promised, NotAgain, InHand, Messages
<1>5. due'[req'.client] = NoFlash
  BY <1>1 DEF Types
<1>6. \A k \in Keys : due'[req'.client][k] = 0
  BY <1>5 DEF NoFlash
<1>7. AtRest'
  <2> SUFFICES ASSUME NEW c \in Clients
               PROVE  /\ Messages(jar'[c].flash) \cap gone'[c] = {}
                      /\ \A k \in Keys : due'[c][k] # 0 => jar'[c].flash[k] = due'[c][k]
    BY DEF AtRest, Messages
  <2>1. CASE c = req.client
    BY <1>1, <1>6, <2>1 DEF Inv, AtRest
  <2>2. CASE c # req.client
    BY <1>1, <2>2 DEF Inv, AtRest, Types
  <2> QED BY <2>1, <2>2
<1>8. PostHasOwnToken'
  <2> SUFFICES ASSUME pc' = "action", EnableXSRF, checks', req'.method = "POST"
               PROVE  req'.token # 0 /\ req'.token = Cookies'.xsrf
    BY DEF PostHasOwnToken
  <2>1. ~Refused(XSRFToken)
    BY <1>1 DEF CheckXSRF
  <2> QED BY <1>1, <2>1, TokenIsOwn DEF Cookies
<1> QED BY <1>1, <1>4, <1>5, <1>6, <1>7, <1>8, CheckXSRFTypes
        DEF Inv, UnderWay, StillDue, FlashRight

-----------------------------------------------------------------------------
(* The end of a request: what is sent, what the client keeps of it.        *)
LEMMA RenderStep ==
  ASSUME Inv, Render
  PROVE  Inv'
<1>1. /\ pc = "action" /\ pc' = "finish"
      /\ UNCHANGED <<jar, ctl, req, made, hope, due, gone>>
      /\ due[req.client] = NoFlash /\ Types
  BY DEF Render, Inv, UnderWay
<1>2. SentOK' /\ Still
  <2>1. CASE UNCHANGED <<hdr, resp>>
    BY <1>1, <2>1, NothingSent DEF Still
  <2>2. CASE Send(200, [hdr EXCEPT !.len = <<"long", "">>], Content("long", "", 0, 0))
    <3> DEFINE len == <<"long", "">>
               h   == [hdr EXCEPT !.len = len]
    <3> HIDE DEF len
    <3>1. hdr = [len |-> hdr.len, enc |-> hdr.enc, flash |-> hdr.flash, xsrf |-> hdr.xsrf]
      BY <1>1 DEF Types, HeaderOK
    <3>2. h = [len |-> len, enc |-> hdr.enc, flash |-> hdr.flash, xsrf |-> hdr.xsrf]
      BY <3>1
    <3>3. HeaderOK(h) /\ h.flash = hdr.flash
      BY <1>1, <3>2 DEF Types, HeaderOK
    <3>4. Send(200, h, Content("long", "", 0, 0))
      BY <2>2 DEF len
    <3> HIDE DEF h
    <3>5. SentOK' /\ hdr'.flash = hdr.flash /\ After' = After /\ resp'.sent
      BY <1>1, <3>3, <3>4, SendResult DEF SentOK
    <3> QED BY <1>1, <3>5 DEF Still
  <2> QED BY <2>1, <2>2 DEF Render
<1>3. Types' /\ AtRest' /\ Promised' /\ NotAgain' /\ InHand'
  BY <1>1, <1>2, StillTypes, StillStep
<1>4. StillDue'
  BY <1>1 DEF StillDue, NoFlash
<1> QED BY <1>1, <1>3, <1>4 DEF Inv, UnderWay, FlashRight, PostHasOwnToken

LEMMA FinishStep ==
  ASSUME Inv, Finish
  PROVE  Inv'
<1>1. /\ pc = "finish" /\ pc' = "done" /\ Types
      /\ UNCHANGED <<jar, ctl, req, hdr, made, hope, due, gone>>
  BY DEF Finish, Inv
<1>2. SentOK' /\ Still /\ resp'.sent
  <2>1. CASE resp.sent
    BY <1>1, <2>1, NothingSent DEF Finish, Still
  <2>2. CASE ~resp.sent
    <3>1. PICK status : resp' = [NotSent EXCEPT !.sent = TRUE, !.status = status, !.hdr = hdr]
      BY <2>2 DEF Finish
    <3>2. resp' = [sent |-> TRUE, status |-> status, hdr |-> hdr, body |-> <<>>]
      BY <3>1 DEF NotSent
    <3>3. HeaderOK(hdr)' /\ HeaderOK(resp.hdr)'
      BY <1>1, <3>2 DEF Types, HeaderOK, MsgFlashes
    <3>4. After' = After
      BY <1>1, <2>2, <3>2 DEF After, Sent, Cookies, NewFlash
    <3> QED BY <1>1, <2>2, <3>2, <3>3, <3>4 DEF SentOK, Still
  <2> QED BY <1>1, <2>1, <2>2 DEF Types
<1>3. Types' /\ AtRest' /\ Promised' /\ NotAgain' /\ InHand' /\ StillDue'
  BY <1>1, <1>2, StillTypes, StillStep
<1> QED BY <1>1, <1>2, <1>3 DEF Inv, UnderWay, FlashRight, PostHasOwnToken

LEMMA DeliverResult ==
  ASSUME Inv, Deliver
  PROVE  /\ AtRest'
         /\ jar' \in [Clients -> [flash : MsgFlashes, xsrf : 0..made.tokens]]
         /\ due' \in [Clients -> MsgFlashes] /\ gone' \in [Clients -> SUBSET (1..made.msgs)]
<1> DEFINE c == req.client
           xsrf == IF resp.hdr.xsrf = 0 THEN jar[c].xsrf ELSE resp.hdr.xsrf
           left == [k \in Keys |-> IF hope.must[k] # 0 THEN hope.must[k] ELSE due[c][k]]
<1>1. /\ Types /\ AtRest /\ Promised /\ NotAgain /\ StillDue
      /\ pc = "done" /\ resp.sent /\ c \in Clients
  BY DEF Deliver, Inv, UnderWay, Types
<1>2. After = NewFlash(resp.hdr, jar[c].flash) /\ After \in MsgFlashes
  BY <1>1 DEF After, Sent, Cookies, NewFlash, Types, HeaderOK
<1>3. /\ jar' = [jar EXCEPT ![c] = [flash |-> After, xsrf |-> xsrf]]
      /\ due' = [due EXCEPT ![c] = left]
      /\ gone' = [gone EXCEPT ![c] = gone[c] \cup hope.shown]
  BY <1>1, <1>2 DEF Deliver, Types
<1>4. xsrf \in 0..made.tokens
  BY <1>1 DEF Types, HeaderOK
<1>5. left \in MsgFlashes
  BY <1>1 DEF Types, MsgFlashes
<1>6. ASSUME NEW b \in Clients
      PROVE  /\ Messages(jar'[b].flash) \cap gone'[b] = {}
             /\ \A k \in Keys : due'[b][k] # 0 => jar'[b].flash[k] = due'[b][k]
  <2>1. CASE b = c
    <3>1. jar'[b].flash = After /\ due'[b] = left /\ gone'[b] = gone[c] \cup hope.shown
      BY <1>1, <1>3, <2>1 DEF Types
    <3>2. Messages(After) \cap (gone[c] \cup hope.shown) = {}
      BY <1>1 DEF NotAgain
    <3>3. \A k \in Keys : left[k] # 0 => After[k] = left[k]
      BY <1>1 DEF Promised, StillDue
    <3> QED BY <3>1, <3>2, <3>3
  <2>2. CASE b # c
    <3>1. jar'[b] = jar[b] /\ due'[b] = due[b] /\ gone'[b] = gone[b]
      BY <1>1, <1>3, <2>2 DEF Types
    <3> QED BY <1>1, <3>1 DEF AtRest
  <2> QED BY <2>1, <2>2
<1>7. AtRest'
  BY <1>6 DEF AtRest, Messages
<1> HIDE DEF c, xsrf, left
<1>8. jar' \in [Clients -> [flash : MsgFlashes, xsrf : 0..made.tokens]]
  BY <1>1, <1>2, <1>3, <1>4 DEF Types
<1>9. due' \in [Clients -> MsgFlashes]
  BY <1>1, <1>3, <1>5 DEF Types
<1>10. gone' \in [Clients -> SUBSET (1..made.msgs)]
  <2>1. gone[c] \cup hope.shown \in SUBSET (1..made.msgs)
    BY <1>1 DEF Types
  <2> QED BY <1>1, <1>3, <2>1 DEF Types
<1> QED BY <1>7, <1>8, <1>9, <1>10

(* What a new context is made of.                                          *)
LEMMA FreshTypes ==
  /\ NewHeader = [len |-> NewHeader.len, enc |-> NewHeader.enc, flash |-> NewHeader.flash, xsrf |-> NewHeader.xsrf]
  /\ NewHeader.flash = <<>> /\ NewHeader.xsrf = 0
  /\ NotSent = [sent |-> NotSent.sent, status |-> NotSent.status, hdr |-> NotSent.hdr, body |-> NotSent.body]
  /\ NotSent.sent = FALSE /\ NotSent.hdr = NewHeader
  /\ NoHope.must = NoFlash /\ NoHope.shown = {} /\ NoHope = [must |-> NoHope.must, shown |-> NoHope.shown]
<1>1. NewHeader = [len |-> NewHeader.len, enc |-> NewHeader.enc, flash |-> NewHeader.flash, xsrf |-> NewHeader.xsrf]
  BY DEF NewHeader
<1>2. NewHeader.flash = <<>> /\ NewHeader.xsrf = 0
  BY DEF NewHeader
<1>3. NotSent = [sent |-> NotSent.sent, status |-> NotSent.status, hdr |-> NotSent.hdr, body |-> NotSent.body]
  BY DEF NotSent
<1>4. NotSent.sent = FALSE /\ NotSent.hdr = NewHeader
  BY DEF NotSent
<1>5. NoHope.must = NoFlash /\ NoHope.shown = {} /\ NoHope = [must |-> NoHope.must, shown |-> NoHope.shown]
  BY DEF NoHope
<1> QED BY <1>1, <1>2, <1>3, <1>4, <1>5

LEMMA EndStep ==
  ASSUME Inv, End
  PROVE  Inv'
<1>1. /\ pc' = "idle" /\ hdr' = NewHeader /\ resp' = NotSent /\ hope' = NoHope /\ made' = made
      /\ ctl' = [ctl EXCEPT !.flash = NoFlash] /\ Types
  BY DEF End, InitFlash, Inv
<1>2. /\ AtRest'
      /\ jar' \in [Clients -> [flash : MsgFlashes, xsrf : 0..made.tokens]]
      /\ due' \in [Clients -> MsgFlashes] /\ gone' \in [Clients -> SUBSET (1..made.msgs)]
  <2>1. CASE Deliver
    BY <2>1, DeliverResult
  <2>2. CASE Lose
    BY <2>2 DEF Lose, Inv, Types, AtRest
  <2> QED BY <2>1, <2>2 DEF End
<1>3. MsgFlashes' = MsgFlashes
  BY <1>1 DEF MsgFlashes
<1>4. NoFlash \in MsgFlashes /\ 0 \in 0..made.tokens /\ {} \in SUBSET (1..made.msgs)
  BY <1>1 DEF Types, NoFlash, MsgFlashes
<1>5. ctl' \in [token : 0..made.tokens, flash : MsgFlashes] /\ ctl'.flash = NoFlash
  BY <1>1, <1>4 DEF Types
<1>6. Types'
  <2>1. HeaderOK(hdr)' /\ HeaderOK(resp.hdr)'
    BY <1>1, <1>4, FreshTypes DEF HeaderOK
  <2>2. hope' \in [must : MsgFlashes, shown : SUBSET (1..made.msgs)]
    BY <1>1, <1>4, FreshTypes
  <2>3. /\ (resp = [sent |-> resp.sent, status |-> resp.status, hdr |-> resp.hdr, body |-> resp.body])'
        /\ resp'.sent \in BOOLEAN
    BY <1>1, FreshTypes
  <2> QED BY <1>1, <1>2, <1>3, <1>5, <2>1, <2>2, <2>3 DEF Types
<1>7. Fresh'
  BY <1>1, <1>5 DEF Fresh, NewHeader, NotSent
<1> QED BY <1>1, <1>2, <1>6, <1>7 DEF Inv, UnderWay, FlashRight, PostHasOwnToken

LEMMA RestartStep ==
  ASSUME Inv, Restart
  PROVE  Inv'
<1>1. /\ pc = "idle" /\ pc' = "idle" /\ ctl' = [token |-> 0, flash |-> NoFlash] /\ Types
      /\ UNCHANGED <<jar, hdr, resp, hope, made, due, gone>>
  BY DEF Restart, Inv
<1>2. MsgFlashes' = MsgFlashes /\ NoFlash \in MsgFlashes
  BY <1>1 DEF MsgFlashes, NoFlash, Types
<1>3. ctl' \in [token : 0..made.tokens, flash : MsgFlashes]
  BY <1>1, <1>2 DEF Types
<1>4. Types' /\ AtRest' /\ Fresh'
  BY <1>1, <1>2, <1>3 DEF Inv, Types, HeaderOK, AtRest, UnderWay, Fresh
<1> QED BY <1>1, <1>4 DEF Inv, UnderWay, FlashRight, PostHasOwnToken

-----------------------------------------------------------------------------
LEMMA InitInv ==
  ASSUME Init
  PROVE  Inv
<1>1. /\ made = [tokens |-> 0, msgs |-> 0] /\ made \in [tokens : Nat, msgs : Nat]
      /\ hdr = NewHeader /\ resp = NotSent /\ hope = NoHope /\ pc = "idle"
      /\ jar = [c \in Clients |-> [flash |-> NoFlash, xsrf |-> 0]]
      /\ ctl = [token |-> 0, flash |-> NoFlash]
      /\ due = [c \in Clients |-> NoFlash] /\ gone = [c \in Clients |-> {}]
  BY DEF Init
<1>2. NoFlash \in MsgFlashes /\ 0 \in 0..made.tokens
  BY <1>1 DEF NoFlash, MsgFlashes
<1>3. /\ jar \in [Clients -> [flash : MsgFlashes, xsrf : 0..made.tokens]]
      /\ ctl \in [token : 0..made.tokens, flash : MsgFlashes]
      /\ due \in [Clients -> MsgFlashes] /\ gone \in [Clients -> SUBSET (1..made.msgs)]
  BY <1>1, <1>2
<1>4. Types
  <2>1. HeaderOK(hdr) /\ HeaderOK(resp.hdr)
    BY <1>1, <1>2, FreshTypes DEF HeaderOK
  <2>2. hope \in [must : MsgFlashes, shown : SUBSET (1..made.msgs)]
    BY <1>1, <1>2, FreshTypes
  <2>3. /\ resp = [sent |-> resp.sent, status |-> resp.status, hdr |-> resp.hdr, body |-> resp.body]
        /\ resp.sent \in BOOLEAN
    BY <1>1, FreshTypes
  <2> QED BY <1>1, <1>3, <2>1, <2>2, <2>3 DEF Types
<1>5. AtRest
  BY <1>1 DEF AtRest, Messages, NoFlash
<1>6. Fresh
  BY <1>1 DEF Fresh, NewHeader, NotSent
<1> QED BY <1>1, <1>4, <1>5, <1>6 DEF Inv, UnderWay, FlashRight, PostHasOwnToken

LEMMA NextInv ==
  ASSUME Inv, [Next]_vars
  PROVE  Inv'
<1>1. CASE UNCHANGED vars
  <2>1. UNCHANGED <<jar, ctl, checks, req, pc, hdr, resp, made, hope, due, gone>>
    BY <1>1 DEF vars
  <2>2. MsgFlashes' = MsgFlashes
    BY <2>1 DEF MsgFlashes
  <2>3. Types' /\ AtRest' /\ FlashRight' /\ PostHasOwnToken'
    BY <2>1, <2>2 DEF Inv, Types, HeaderOK, AtRest, FlashRight, PostHasOwnToken, Messages, Cookies
  <2>4. Cookies' = Cookies /\ After' = After
    BY <2>1 DEF Cookies, After, Sent, NewFlash
  <2>5. UnderWay'
    BY <2>1, <2>4 DEF Inv, UnderWay, Fresh, Promised, NotAgain, InHand, StillDue, Messages
  <2> QED BY <2>3, <2>5 DEF Inv
<1>2. CASE \E c \in Clients, in \in Inputs, token \in 0..made.tokens : Arrive(c, in, token)
  BY <1>2, ArriveStep
<1>3. CASE ServeStatic \/ InitController \/ BeforeAction \/ ReadFlashData \/ CheckXSRF
  BY <1>3, ServeStaticStep, InitControllerStep, BeforeActionStep, ReadFlashStep, CheckXSRFStep
<1>4. CASE Action \/ Render \/ Panic \/ Finish \/ End \/ Restart
  BY <1>4, ActionStep, RenderStep, PanicStep, FinishStep, EndStep, RestartStep
<1> QED BY <1>1, <1>2, <1>3, <1>4 DEF Next

(* ReadFlashData after any history of requests, lost responses, panics and *)
(* restarts: it shows the messages that are due to the client, and none    *)
(* that was shown.                                                         *)
THEOREM SpecFlashRight == Spec => []FlashRight
<1>1. Inv => FlashRight
  BY DEF Inv
<1> QED BY InitInv, NextInv, <1>1, PTL DEF Spec

(* CheckXSRFCookie and XSRFToken, with a context and a controller that     *)
(* everybody shares, and tokens drawn for requests the controller does not *)
(* check too: where it does, the action of a POST runs with its client's   *)
(* token.                                                                  *)
THEOREM SpecPostHasOwnToken == Spec => []PostHasOwnToken
<1>1. Inv => PostHasOwnToken
  BY DEF Inv
<1> QED BY InitInv, NextInv, <1>1, PTL DEF Spec

-----------------------------------------------------------------------------
(* What is sent, and the status it is sent with.                           *)
Encodings  == {"", "gzip", "deflate"}
Lengths    == {<<>>} \cup {<<z, e>> : z \in {"short", "long"}, e \in Encodings}
LinesOK(h) == h.len \in Lengths /\ h.enc \in Encodings

(* What a header says of a body is true of it.                             *)
Fits(b, h) ==
  /\ h.len \in {<<>>, <<b.size, b.enc>>}
  /\ h.enc = b.enc /\ Acceptable(b.enc, req.accept)
  /\ b.got = b.level

Within == made.tokens <= MaxTokens /\ made.msgs <= MaxMsgs

ContextOK ==
  /\ cx = [out |-> cx.out, gzip |-> cx.gzip, started |-> cx.started]
  /\ cx.gzip \in BOOLEAN /\ cx.started \in BOOLEAN

(* A pool holds compressors of the one level that is asked of it.          *)
PoolsOK ==
  /\ pools = [custom |-> pools.custom, best |-> pools.best]
  /\ pools.custom \subseteq {gzipCompressLevel} /\ pools.best \subseteq {BestCompression}

(* Nothing is said before something is sent, and one body at most is sent. *)
BodyOK ==
  /\ LinesOK(hdr) /\ LinesOK(resp.hdr)
  /\ ~resp.sent => hdr.len = <<>> /\ hdr.enc = "" /\ resp.body = <<>>
  /\ resp.body = <<>> \/ \E b : resp.body = <<b>> /\ Fits(b, resp.hdr)

(* A status the application asked for waits in the context, or is sent.    *)
StatusOK == asked # 0 => IF resp.sent THEN resp.status = asked ELSE cx.out = asked

Served == Within /\ ContextOK /\ PoolsOK /\ BodyOK

RequestOK == (pc = "idle" <=> req = NoReq) /\ req.accept \in Accepts

Rest ==
  /\ Served /\ RequestOK /\ ops \in 0..MaxOps
  /\ pc # "done" => (resp.sent <=> cx.started)
  /\ pc \in {"idle", "static"} => asked = 0
  /\ pc # "closed" => StatusOK

-----------------------------------------------------------------------------
(* Encoding: what is chosen is one of the encodings there are, and one the *)
(* client has listed with a weight other than 0.                           *)
LEMMA MinIs ==
  ASSUME NEW S, S \subseteq Nat, S # {}
  PROVE  Min(S) \in S /\ \A j \in S : Min(S) <= j
<1>1. PICK x \in S : \A y \in S : ~(<<y, x>> \in OpToRel(<, Nat))
  BY NatLessThanWellFounded, WFMin
<1>2. \A y \in S : ~(y < x)
  <2> SUFFICES ASSUME NEW y \in S, y < x
               PROVE  FALSE
    OBVIOUS
  <2>1. <<y, x>> \in Nat \X Nat /\ <<y, x>>[1] < <<y, x>>[2]
    OBVIOUS
  <2>2. <<y, x>> \in {p \in Nat \X Nat : p[1] < p[2]}
    BY <2>1
  <2> QED BY <1>1, <2>2, Zenon DEF OpToRel
<1>3. \A y \in S : x <= y
  BY <1>2
<1> QED BY <1>3 DEF Min

LEMMA EncodingAcceptable ==
  ASSUME NEW method, NEW header \in Accepts
  PROVE  /\ ParseEncoding(method, header) \in Encodings
         /\ Acceptable(ParseEncoding(method, header), header)
<1> DEFINE known  == {i \in DOMAIN header : header[i].name \in DOMAIN encoderMap}
           plain  == {i \in known : header[i].q = Plain}
           weight == {i \in known : header[i].q > 0}
           best   == {i \in weight : \A j \in weight : header[i].q >= header[j].q}
<1>1. known \subseteq Nat
  BY DEF Accepts
<1>2. ASSUME NEW i \in known, header[i].q = Plain \/ header[i].q > 0
      PROVE  /\ encoderMap[header[i].name] \in Encodings
             /\ Acceptable(encoderMap[header[i].name], header)
  BY <1>2 DEF encoderMap, Encodings, Acceptable
<1>3. "" \in Encodings /\ Acceptable("", header)
  BY DEF Encodings, Acceptable
<1>4. CASE plain # {}
  <2>1. Min(plain) \in plain
    BY <1>1, <1>4, MinIs
  <2>2. parseEncoding(header) = encoderMap[header[Min(plain)].name]
    BY <1>4 DEF parseEncoding
  <2> HIDE DEF known
  <2> QED BY <1>2, <1>3, <2>1, <2>2 DEF ParseEncoding
<1>5. CASE plain = {} /\ best # {}
  <2>1. Min(best) \in best
    BY <1>1, <1>5, MinIs
  <2>2. parseEncoding(header) = encoderMap[header[Min(best)].name]
    BY <1>5 DEF parseEncoding
  <2> HIDE DEF known
  <2> QED BY <1>2, <1>3, <2>1, <2>2 DEF ParseEncoding
<1>6. CASE plain = {} /\ best = {}
  <2>1. parseEncoding(header) = ""
    BY <1>6 DEF parseEncoding
  <2> QED BY <1>3, <2>1 DEF ParseEncoding
<1> QED BY <1>4, <1>5, <1>6

(* A compressor has the level it was asked for, and goes back to a pool of *)
(* that level.                                                             *)
LEMMA CompressorRight ==
  ASSUME PoolsOK, NEW level \in {gzipCompressLevel, BestCompression}, NEW got \in encode(pools, level)
  PROVE  got = level /\ (pools' = put(pools, got, level) => PoolsOK')
<1>1. got = level
  BY DEF PoolsOK, encode, BestSpeed, BestCompression
<1>2. ASSUME pools' = put(pools, got, level)
      PROVE  PoolsOK'
  BY <1>1, <1>2 DEF put, PoolsOK
<1> QED BY <1>1, <1>2

-----------------------------------------------------------------------------
(* What is sent first is the one body, as the header says.                 *)
LEMMA SendServed ==
  ASSUME BodyOK, ~resp.sent, UNCHANGED req,
         NEW status, NEW h, NEW content, Send(status, h, content),
         LinesOK(h), Fits(content, h)
  PROVE  BodyOK' /\ resp'.sent = TRUE /\ resp'.status = status
<1>1. hdr' = h /\ resp' = [sent |-> TRUE, status |-> status, hdr |-> h, body |-> <<content>>]
  BY DEF Send
<1>2. /\ resp'.sent = TRUE /\ resp'.status = status /\ resp'.hdr = h
      /\ resp'.body = <<content>>
  BY <1>1
<1>3. Fits(content, h)'
  BY DEF Fits
<1>4. (resp.body = <<>> \/ \E b : resp.body = <<b>> /\ Fits(b, resp.hdr))'
  BY <1>2, <1>3 DEF Fits
<1> QED BY <1>1, <1>2, <1>4 DEF BodyOK, LinesOK

(* A body of the encoding and the level that were asked for, in a header   *)
(* in which the length or nothing is said of it.                           *)
LEMMA ContentFits ==
  ASSUME NEW size, NEW enc \in Encodings, NEW level, NEW h,
         Acceptable(enc, req.accept), h.enc = enc, h.len \in {<<>>, <<size, enc>>}
  PROVE  Fits(Content(size, enc, level, level), h)
BY DEF Fits, Content

LEMMA PageFits ==
  ASSUME NEW h, h.enc = "", h.len \in {<<>>, <<"short", "">>}
  PROVE  Fits(Page, h)
BY DEF Fits, Content, Page, Acceptable

LEMMA LengthsHas ==
  ASSUME NEW size \in {"short", "long"}, NEW enc \in Encodings
  PROVE  <<size, enc>> \in Lengths
<1>1. <<size, enc>> \in {<<z, e>> : z \in {"short", "long"}, e \in Encodings}
  OBVIOUS
<1> QED BY <1>1 DEF Lengths

(* The header, with a length or an encoding or both.                       *)
LEMMA HeaderWith ==
  ASSUME Types, NEW len, NEW enc
  PROVE  /\ [hdr EXCEPT !.len = len].len = len /\ [hdr EXCEPT !.len = len].enc = hdr.enc
         /\ [hdr EXCEPT !.enc = enc].len = hdr.len /\ [hdr EXCEPT !.enc = enc].enc = enc
         /\ [hdr EXCEPT !.len = len, !.enc = enc].len = len
         /\ [hdr EXCEPT !.len = len, !.enc = enc].enc = enc
<1>1. hdr = [len |-> hdr.len, enc |-> hdr.enc, flash |-> hdr.flash, xsrf |-> hdr.xsrf]
  BY DEF Types, HeaderOK
<1>2. [hdr EXCEPT !.len = len] = [len |-> len, enc |-> hdr.enc, flash |-> hdr.flash, xsrf |-> hdr.xsrf]
  BY <1>1
<1>3. [hdr EXCEPT !.enc = enc] = [len |-> hdr.len, enc |-> enc, flash |-> hdr.flash, xsrf |-> hdr.xsrf]
  BY <1>1
<1> DEFINE g == [len |-> len, enc |-> hdr.enc, flash |-> hdr.flash, xsrf |-> hdr.xsrf]
<1>4. [hdr EXCEPT !.len = len, !.enc = enc] = [g EXCEPT !.enc = enc]
  BY <1>2
<1>5. [hdr EXCEPT !.len = len, !.enc = enc] = [len |-> len, enc |-> enc, flash |-> hdr.flash, xsrf |-> hdr.xsrf]
  BY <1>4
<1> QED BY <1>2, <1>3, <1>5

LEMMA NoLength == <<>> \in Lengths /\ "" \in Encodings
BY DEF Lengths, Encodings

BodyLines(size, enc) == [hdr EXCEPT !.len = <<size, enc>>, !.enc = enc]

LEMMA BodyHeader ==
  ASSUME Types, NEW size, NEW enc
  PROVE  BodyLines(size, enc).len = <<size, enc>> /\ BodyLines(size, enc).enc = enc
<1> DEFINE len == <<size, enc>>
<1> HIDE DEF len
<1>1. /\ [hdr EXCEPT !.len = len, !.enc = enc].len = len
      /\ [hdr EXCEPT !.len = len, !.enc = enc].enc = enc
  BY HeaderWith
<1> QED BY <1>1 DEF len, BodyLines

-----------------------------------------------------------------------------
(* The operations of the application.                                      *)
Serving == Served /\ (resp.sent <=> cx.started) /\ StatusOK

(* Flash: the header gets a cookie, which says nothing of a body.          *)
LEMMA FlashServed ==
  ASSUME Types, Serving, NEW k \in Keys, Flash(k), UNCHANGED req
  PROVE  Serving'
<1>1. /\ UNCHANGED <<cx, pools, resp, asked>>
      /\ made.msgs < MaxMsgs /\ made' = [made EXCEPT !.msgs = made.msgs + 1]
  BY DEF Flash
<1>2. Within'
  BY <1>1, ExchangeAssumption DEF Within, Serving, Served, Types
<1>3. hdr'.len = hdr.len /\ hdr'.enc = hdr.enc
  <2>1. hdr' = [hdr EXCEPT !.flash = <<ctl'.flash>>]
    BY DEF Flash, Store
  <2>2. hdr' = [len |-> hdr.len, enc |-> hdr.enc, flash |-> <<ctl'.flash>>, xsrf |-> hdr.xsrf]
    BY <2>1 DEF Types, HeaderOK
  <2> QED BY <2>2
<1>4. BodyOK'
  BY <1>1, <1>3 DEF Serving, Served, BodyOK, LinesOK, Fits
<1> QED BY <1>1, <1>2, <1>4 DEF Serving, Served, ContextOK, PoolsOK, StatusOK

LEMMA SettingServed ==
  ASSUME Serving, SetStatus(Set) \/ EnableGzip, UNCHANGED req
  PROVE  Serving'
<1>1. UNCHANGED <<pools, hdr, resp, made>>
  BY DEF SetStatus, EnableGzip
<1>2. Within' /\ PoolsOK' /\ BodyOK'
  BY <1>1 DEF Serving, Served, Within, PoolsOK, BodyOK, LinesOK, Fits
<1>3. ContextOK' /\ (resp.sent <=> cx.started)' /\ StatusOK'
  BY <1>1 DEF SetStatus, EnableGzip, Serving, Served, ContextOK, StatusOK
<1> QED BY <1>2, <1>3 DEF Serving, Served

(* Body: compressed as the request allows it and the pools have it.        *)
LEMMA BodyServed ==
  ASSUME Types, Serving, req.accept \in Accepts, UNCHANGED req, NEW size \in {"short", "long"}, Body(size)
  PROVE  Serving'
<1> DEFINE asks == IF cx.gzip THEN ParseEncoding(req.method, req.accept) ELSE ""
<1>1. /\ asks \in Encodings /\ Acceptable(asks, req.accept)
      /\ "" \in Encodings /\ Acceptable("", req.accept)
  BY EncodingAcceptable DEF Encodings, Acceptable
<1>2. WriteBody(asks, size) \in Encodings /\ Acceptable(WriteBody(asks, size), req.accept)
  BY <1>1 DEF WriteBody
<1> SUFFICES ASSUME NEW enc, enc = WriteBody(asks, size)
             PROVE  Serving'
  OBVIOUS
<1> DEFINE level  == IF enc = "" THEN 0 ELSE gzipCompressLevel
           status == IF cx.out = 0 THEN 200 ELSE cx.out
           h      == BodyLines(size, enc)
<1>3. PICK got \in IF enc = "" THEN {0} ELSE encode(pools, level) :
        /\ Send(status, h, Content(size, enc, got, level))
        /\ pools' = IF enc = "" THEN pools ELSE put(pools, got, level)
  BY DEF Body, BodyLines
<1>4. got = level /\ PoolsOK'
  <2>1. CASE enc = ""
    BY <1>3, <2>1 DEF Serving, Served, PoolsOK
  <2>2. CASE enc # ""
    BY <1>3, <2>2, CompressorRight DEF Serving, Served
  <2> QED BY <2>1, <2>2
<1>5. h.len = <<size, enc>> /\ h.enc = enc
  BY BodyHeader
<1>6. LinesOK(h)
  <2>1. <<size, enc>> \in Lengths /\ enc \in Encodings
    BY <1>2, LengthsHas
  <2> HIDE DEF h
  <2> QED BY <1>5, <2>1 DEF LinesOK
<1>7. Fits(Content(size, enc, got, level), h)
  BY <1>2, <1>4, <1>5, ContentFits
<1>8. ~resp.sent /\ BodyOK /\ UNCHANGED <<made, asked>> /\ cx' = [cx EXCEPT !.out = 0, !.started = TRUE]
  BY DEF Body, Serving, Served
<1> HIDE DEF h
<1>9. BodyOK' /\ resp'.sent = TRUE /\ resp'.status = status
  BY <1>3, <1>6, <1>7, <1>8, SendServed
<1>10. ContextOK' /\ (resp.sent <=> cx.started)'
  BY <1>8, <1>9 DEF Serving, Served, ContextOK
<1>11. StatusOK'
  BY <1>8, <1>9 DEF Serving, StatusOK
<1> QED BY <1>4, <1>8, <1>9, <1>10, <1>11 DEF Serving, Served, Within

(* What is sent without compression takes nothing from the pools.          *)
LEMMA PlainServed ==
  ASSUME Types, Serving, UNCHANGED <<req, made, pools>>, ~resp.sent,
         cx' = [cx EXCEPT !.started = TRUE],
         NEW status, NEW h, NEW content, Send(status, h, content), LinesOK(h), Fits(content, h),
         asked' # 0 => status = asked'
  PROVE  Serving'
<1>1. BodyOK' /\ resp'.sent = TRUE /\ resp'.status = status
  BY SendServed DEF Serving, Served
<1>2. ContextOK' /\ (resp.sent <=> cx.started)' /\ StatusOK'
  BY <1>1 DEF Serving, Served, ContextOK, StatusOK
<1> QED BY <1>1, <1>2 DEF Serving, Served, Within, PoolsOK

LEMMA ReplyServed ==
  ASSUME Types, Serving, UNCHANGED req, NEW status, Reply(status)
  PROVE  Serving'
<1> DEFINE h == IF status = 200 THEN [hdr EXCEPT !.len = <<"short", "">>] ELSE hdr
<1>1. /\ Send(status, h, Page) /\ cx' = [cx EXCEPT !.started = TRUE]
      /\ asked' = 0 /\ UNCHANGED <<pools, made>> /\ ~resp.sent
  BY DEF Reply, Serving
<1>2. hdr.len = <<>> /\ hdr.enc = ""
  BY <1>1 DEF Serving, Served, BodyOK
<1>3. h.len \in {<<>>, <<"short", "">>} /\ h.enc = ""
  BY <1>2, HeaderWith
<1>4. LinesOK(h) /\ Fits(Page, h)
  <2> HIDE DEF h
  <2>1. "" \in Encodings /\ {<<>>, <<"short", "">>} \subseteq Lengths
    BY DEF Lengths, Encodings
  <2>2. LinesOK(h)
    BY <1>3, <2>1 DEF LinesOK
  <2> QED BY <1>3, <2>2, PageFits
<1> HIDE DEF h
<1> QED BY <1>1, <1>4, PlainServed

LEMMA WriteStringServed ==
  ASSUME Types, Serving, UNCHANGED req, WriteString
  PROVE  Serving'
<1>1. /\ Send(200, hdr, Page) /\ cx' = [cx EXCEPT !.started = TRUE]
      /\ asked' = 0 /\ UNCHANGED <<pools, made>> /\ ~resp.sent
  BY DEF WriteString, Serving
<1>2. hdr.len = <<>> /\ hdr.enc = "" /\ LinesOK(hdr)
  BY <1>1 DEF Serving, Served, BodyOK
<1>3. Fits(Page, hdr)
  BY <1>2, PageFits
<1> QED BY <1>1, <1>2, <1>3, PlainServed

LEMMA OperationServed ==
  ASSUME Types, Serving, req.accept \in Accepts, UNCHANGED req, Operation
  PROVE  Serving'
<1>1. CASE \E k \in Keys : Flash(k)
  BY <1>1, FlashServed
<1>2. CASE SetStatus(Set) \/ EnableGzip
  BY <1>2, SettingServed
<1>3. CASE SendFormatted
  <2>1. CASE UNCHANGED <<ctl, cx, pools, hdr, resp, made, asked, hope>>
    BY <2>1 DEF Serving, Served, Within, ContextOK, PoolsOK, BodyOK, StatusOK, LinesOK, Fits
  <2> QED BY <1>3, <2>1, BodyServed, ReplyServed DEF SendFormatted
<1>4. CASE WriteString
  BY <1>4, WriteStringServed
<1>5. CASE MethodNotAllowed \/ Redirect \/ DownloadFile
  BY <1>5, ReplyServed DEF MethodNotAllowed, Redirect, DownloadFile
<1> QED BY <1>1, <1>2, <1>3, <1>4, <1>5 DEF Operation

-----------------------------------------------------------------------------
(* Each step keeps it.                                                     *)
LEMMA ArriveRest ==
  ASSUME Inv, Rest, NEW c \in Clients, NEW in \in Inputs, NEW token \in 0..made.tokens,
         Arrive(c, in, token)
  PROVE  Rest'
<1>1. /\ pc = "idle" /\ pc' = "static" /\ req'.accept = in.accept /\ req'.method = in.method
      /\ UNCHANGED <<cx, pools, ops, hdr, resp, made, asked>>
  BY DEF Arrive
<1>2. ~resp.sent /\ asked = 0
  BY <1>1 DEF Inv, UnderWay, Fresh, Rest
<1>3. RequestOK'
  BY <1>1, InputsAssumption DEF RequestOK, NoReq
<1>4. BodyOK'
  BY <1>1, <1>2 DEF Rest, Served, BodyOK, LinesOK
<1> QED BY <1>1, <1>2, <1>3, <1>4 DEF Rest, Served, Within, ContextOK, PoolsOK, StatusOK

(* A step that leaves what is sent alone, and the status.                  *)
LEMMA QuietRest ==
  ASSUME Rest, pc # "idle", pc' \notin {"idle", "static", "done"}, pc # "closed" \/ pc' = "closed", pc # "done",
         Within', ops' \in 0..MaxOps, ContextOK', 
         UNCHANGED <<pools, req, resp, asked>>, cx'.started = cx.started,
         cx'.out = cx.out \/ pc' = "closed",
         hdr'.len = hdr.len, hdr'.enc = hdr.enc
  PROVE  Rest'
<1>1. RequestOK' /\ BodyOK'
  BY DEF Rest, Served, RequestOK, BodyOK, LinesOK, Fits
<1>2. pc' # "closed" => StatusOK'
  BY DEF Rest, StatusOK
<1> QED BY <1>1, <1>2 DEF Rest, Served, PoolsOK

LEMMA InitControllerRest ==
  ASSUME Inv, Rest, InitController
  PROVE  Rest'
BY QuietRest DEF InitController, Rest, Served, Within, ContextOK

LEMMA PanicRest ==
  ASSUME Inv, Rest, Panic
  PROVE  Rest'
BY QuietRest DEF Panic, Rest, Served, Within, ContextOK

LEMMA ReadFlashRest ==
  ASSUME Inv, Rest, ReadFlashData
  PROVE  Rest'
<1>1. /\ pc = "flash" /\ pc' = "xsrf" /\ UNCHANGED <<cx, pools, req, ops, resp, made, asked>>
      /\ hdr' = hdr \/ hdr' = [hdr EXCEPT !.flash = <<NoFlash>>]
  BY DEF ReadFlashData
<1>2. hdr'.len = hdr.len /\ hdr'.enc = hdr.enc
  <2>1. hdr = [len |-> hdr.len, enc |-> hdr.enc, flash |-> hdr.flash, xsrf |-> hdr.xsrf]
    BY DEF Inv, Types, HeaderOK
  <2>2. CASE hdr' = [hdr EXCEPT !.flash = <<NoFlash>>]
    <3>1. hdr' = [len |-> hdr.len, enc |-> hdr.enc, flash |-> <<NoFlash>>, xsrf |-> hdr.xsrf]
      BY <2>1, <2>2
    <3> QED BY <3>1
  <2> QED BY <1>1, <2>2
<1> QED BY <1>1, <1>2, QuietRest DEF Rest, Served, Within, ContextOK

(* A request that CheckXSRF refuses has its status, and sends nothing.     *)
LEMMA CheckXSRFRest ==
  ASSUME Inv, Rest, CheckXSRF
  PROVE  Rest'
<1>1. /\ pc = "xsrf" /\ UNCHANGED <<pools, req, ops, resp, asked>>
      /\ Types /\ made.tokens \in Nat /\ made.msgs \in Nat
  BY DEF CheckXSRF, Inv, Types
<1> SUFFICES ASSUME NEW token, token = XSRFToken
             PROVE  Rest'
  OBVIOUS
<1>2. /\ token > made.tokens => made.tokens < MaxTokens
      /\ made' = IF token > made.tokens THEN [made EXCEPT !.tokens = token] ELSE made
      /\ hdr' = IF token > made.tokens THEN [hdr EXCEPT !.xsrf = token] ELSE hdr
  BY DEF CheckXSRF
<1>3. \/ pc' = "closed" /\ \E status : cx' = [cx EXCEPT !.out = status]
      \/ pc' \in {"finish", "action"} /\ cx' = cx
  BY DEF CheckXSRF
<1>4. token \in 0..made.tokens + 1
  <2>1. req.client \in Clients /\ Cookies.xsrf \in 0..made.tokens
    BY <1>1 DEF Types, Cookies
  <2> QED BY <1>1, <2>1 DEF XSRFToken
<1>5. Within'
  BY <1>1, <1>2, <1>4, ExchangeAssumption DEF Rest, Served, Within, Types
<1>6. hdr'.len = hdr.len /\ hdr'.enc = hdr.enc
  <2>1. hdr = [len |-> hdr.len, enc |-> hdr.enc, flash |-> hdr.flash, xsrf |-> hdr.xsrf]
    BY <1>1 DEF Types, HeaderOK
  <2>2. CASE hdr' = [hdr EXCEPT !.xsrf = token]
    <3>1. hdr' = [len |-> hdr.len, enc |-> hdr.enc, flash |-> hdr.flash, xsrf |-> token]
      BY <2>1, <2>2
    <3> QED BY <3>1
  <2> QED BY <1>2, <2>2
<1>7. ContextOK' /\ cx'.started = cx.started /\ (cx'.out = cx.out \/ pc' = "closed")
  BY <1>3 DEF Rest, Served, ContextOK
<1> QED BY <1>1, <1>3, <1>5, <1>6, <1>7, QuietRest DEF Rest

(* A static file: the compressor is of the best compression's pool.        *)
LEMMA ServeStaticRest ==
  ASSUME Inv, Rest, ServeStatic
  PROVE  Rest'
<1>1. /\ pc = "static" /\ pc' = "finish" /\ cx' = [cx EXCEPT !.started = TRUE]
      /\ UNCHANGED <<req, ops, made, asked>> /\ Types
  BY DEF ServeStatic, Inv
<1>2. /\ ~resp.sent /\ hdr.len = <<>> /\ hdr.enc = "" /\ PoolsOK /\ BodyOK
      /\ Serving /\ req.accept \in Accepts
  BY <1>1 DEF Inv, UnderWay, Fresh, Rest, Served, BodyOK, RequestOK, Serving
<1>3. PICK enc \in {"", ParseEncoding(req.method, req.accept)} :
        \E got \in IF enc = "" THEN {0} ELSE encode(pools, BestCompression) :
          /\ Send(200, IF enc = "" THEN [hdr EXCEPT !.len = <<"long", enc>>] ELSE [hdr EXCEPT !.enc = enc],
                  Content("long", enc, got, IF enc = "" THEN 0 ELSE BestCompression))
          /\ pools' = IF enc = "" THEN pools ELSE put(pools, got, BestCompression)
  BY DEF ServeStatic
<1>4. enc \in Encodings /\ Acceptable(enc, req.accept)
  BY <1>2, EncodingAcceptable DEF Encodings, Acceptable
<1>5. asked = 0
  BY <1>1 DEF Rest
<1>6. CASE enc = ""
  <2> DEFINE len == <<"long", enc>>
             h   == [hdr EXCEPT !.len = len]
  <2>1. Send(200, h, Content("long", enc, 0, 0)) /\ pools' = pools
    BY <1>3, <1>6
  <2>2. len \in Lengths
    BY <1>4, LengthsHas
  <2>3. Acceptable(enc, req.accept) /\ enc \in Encodings
    BY <1>4
  <2> HIDE DEF len
  <2>4. h.len = len /\ h.enc = enc
    BY <1>1, <1>2, <1>6, HeaderWith
  <2> HIDE DEF h
  <2>5. LinesOK(h) /\ Fits(Content("long", enc, 0, 0), h)
    BY <2>2, <2>3, <2>4, ContentFits DEF LinesOK, len
  <2>6. Serving'
    BY <1>1, <1>2, <1>5, <2>1, <2>5, PlainServed
  <2> QED BY <1>1, <2>6 DEF Rest, Serving, RequestOK
<1>7. CASE enc # ""
  <2> DEFINE h == [hdr EXCEPT !.enc = enc]
  <2>1. PICK got \in encode(pools, BestCompression) :
          /\ Send(200, h, Content("long", enc, got, BestCompression))
          /\ pools' = put(pools, got, BestCompression)
    BY <1>3, <1>7
  <2>2. got = BestCompression /\ PoolsOK'
    BY <1>2, <2>1, CompressorRight
  <2>3. h.len = <<>> /\ h.enc = enc
    BY <1>1, <1>2, HeaderWith
  <2> HIDE DEF h
  <2>4. LinesOK(h) /\ Fits(Content("long", enc, got, BestCompression), h)
    <3>1. LinesOK(h)
      BY <1>4, <2>3, NoLength DEF LinesOK
    <3>2. h.len \in {<<>>, <<"long", enc>>} /\ Acceptable(enc, req.accept) /\ enc \in Encodings
      BY <1>4, <2>3
    <3> QED BY <2>2, <2>3, <3>1, <3>2, ContentFits
  <2>5. BodyOK' /\ resp'.sent = TRUE
    BY <1>1, <1>2, <2>1, <2>4, SendServed
  <2>6. ContextOK' /\ (resp.sent <=> cx.started)'
    BY <1>1, <1>2, <2>5 DEF Serving, Served, ContextOK
  <2> QED BY <1>1, <1>5, <2>2, <2>5, <2>6 DEF Rest, Served, RequestOK, Within, StatusOK
<1> QED BY <1>6, <1>7

LEMMA BeforeActionRest ==
  ASSUME Inv, Rest, BeforeAction
  PROVE  Rest'
<1>1. /\ pc = "before" /\ pc' = "flash" /\ UNCHANGED <<req, ops>>
      /\ Operation \/ UNCHANGED <<ctl, cx, pools, hdr, resp, made, asked, hope>>
  BY DEF BeforeAction
<1>2. Serving /\ RequestOK /\ Types
  BY <1>1 DEF Rest, Serving, Inv
<1>3. Serving'
  <2>1. CASE Operation
    BY <1>1, <1>2, <2>1, OperationServed DEF RequestOK
  <2>2. CASE UNCHANGED <<ctl, cx, pools, hdr, resp, made, asked, hope>>
    BY <1>1, <1>2, <2>2 DEF Serving, Served, Within, ContextOK, PoolsOK, BodyOK, StatusOK, LinesOK, Fits
  <2> QED BY <1>1, <2>1, <2>2
<1> QED BY <1>1, <1>2, <1>3 DEF Rest, Serving, RequestOK

LEMMA ActionRest ==
  ASSUME Inv, Rest, Action
  PROVE  Rest'
<1>1. /\ pc = "action" /\ pc' = "action" /\ UNCHANGED req
      /\ ops < MaxOps /\ ops' = ops + 1
      /\ Operation \/ UNCHANGED <<ctl, cx, pools, hdr, resp, made, asked, hope>>
  BY DEF Action, Bind
<1>2. Serving /\ RequestOK /\ Types /\ ops \in 0..MaxOps
  BY <1>1 DEF Rest, Serving, Inv
<1>3. Serving'
  <2>1. CASE Operation
    BY <1>1, <1>2, <2>1, OperationServed DEF RequestOK
  <2>2. CASE UNCHANGED <<ctl, cx, pools, hdr, resp, made, asked, hope>>
    BY <1>1, <1>2, <2>2 DEF Serving, Served, Within, ContextOK, PoolsOK, BodyOK, StatusOK, LinesOK, Fits
  <2> QED BY <1>1, <2>1, <2>2
<1>4. ops' \in 0..MaxOps
  BY <1>1, <1>2, ExchangeAssumption
<1> QED BY <1>1, <1>2, <1>3, <1>4 DEF Rest, Serving, RequestOK

(* Render: nothing is sent after something was, or a status set.           *)
LEMMA RenderRest ==
  ASSUME Inv, Rest, Render
  PROVE  Rest'
<1>1. /\ pc = "action" /\ pc' = "finish" /\ UNCHANGED <<pools, req, ops, made, asked>>
      /\ cx' = [cx EXCEPT !.started = resp'.sent] /\ Types
      /\ Serving /\ RequestOK /\ ops \in 0..MaxOps
  BY DEF Render, Inv, Rest, Serving
<1>2. Serving'
  <2>1. CASE UNCHANGED <<hdr, resp>>
    BY <1>1, <2>1 DEF Serving, Served, Within, ContextOK, PoolsOK, BodyOK, StatusOK, LinesOK, Fits, Types
  <2>2. CASE /\ ~cx.started /\ cx.out = 0
             /\ Send(200, [hdr EXCEPT !.len = <<"long", "">>], Content("long", "", 0, 0))
    <3>1. ~resp.sent /\ asked = 0 /\ hdr.enc = ""
      BY <1>1, <2>2 DEF Serving, StatusOK, Served, BodyOK
    <3> DEFINE len == <<"long", "">>
               h   == [hdr EXCEPT !.len = len]
    <3>2. "" \in Encodings /\ Acceptable("", req.accept)
      BY DEF Encodings, Acceptable
    <3>3. len \in Lengths
      BY <3>2, LengthsHas
    <3> HIDE DEF len
    <3>4. h.len = len /\ h.enc = ""
      BY <1>1, <3>1, HeaderWith
    <3>5. Send(200, h, Content("long", "", 0, 0))
      BY <2>2 DEF len
    <3> HIDE DEF h
    <3>6. LinesOK(h) /\ Fits(Content("long", "", 0, 0), h)
      BY <3>2, <3>3, <3>4, ContentFits DEF LinesOK, len
    <3>7. BodyOK' /\ resp'.sent = TRUE
      BY <1>1, <3>1, <3>5, <3>6, SendServed DEF Serving, Served
    <3> QED BY <1>1, <3>1, <3>7 DEF Serving, Served, Within, ContextOK, PoolsOK, StatusOK
  <2> QED BY <2>1, <2>2 DEF Render
<1> QED BY <1>1, <1>2 DEF Rest, Serving, RequestOK

LEMMA FinishRest ==
  ASSUME Inv, Rest, Finish
  PROVE  Rest'
<1>1. /\ pc = "finish" /\ pc' = "done" /\ UNCHANGED <<cx, pools, req, ops, hdr, made, asked>>
      /\ Serving /\ RequestOK /\ ops \in 0..MaxOps
  BY DEF Finish, Rest, Serving
<1>2. BodyOK' /\ StatusOK'
  <2>1. CASE resp.sent
    BY <1>1, <2>1 DEF Finish, Serving, Served, BodyOK, StatusOK, LinesOK, Fits
  <2>2. CASE ~resp.sent
    <3>1. PICK status : /\ status = IF cx.out = 0 THEN 200 ELSE cx.out
                        /\ resp' = [NotSent EXCEPT !.sent = TRUE, !.status = status, !.hdr = hdr]
      BY <2>2 DEF Finish
    <3>2. resp' = [sent |-> TRUE, status |-> status, hdr |-> hdr, body |-> <<>>]
      BY <3>1 DEF NotSent
    <3>3. BodyOK'
      <4>1. resp'.sent = TRUE /\ resp'.hdr = hdr /\ resp'.body = <<>>
        BY <3>2
      <4> QED BY <1>1, <4>1 DEF Serving, Served, BodyOK, LinesOK
    <3>4. resp'.sent = TRUE /\ resp'.status = status
      BY <3>2
    <3> QED BY <1>1, <2>2, <3>1, <3>3, <3>4 DEF Serving, StatusOK
  <2> QED BY <2>1, <2>2
<1> QED BY <1>1, <1>2 DEF Rest, Serving, Served, RequestOK, Within, ContextOK, PoolsOK

(* What a new response, or no request, is.                                 *)
LEMMA NewServed ==
  /\ LinesOK(NewHeader) /\ NewHeader.len = <<>> /\ NewHeader.enc = ""
  /\ NotSent.sent = FALSE /\ NotSent.hdr = NewHeader /\ NotSent.body = <<>>
  /\ NoReq.accept \in Accepts
<1>1. NewHeader.len = <<>> /\ NewHeader.enc = ""
  BY DEF NewHeader
<1>2. LinesOK(NewHeader)
  BY <1>1, NoLength DEF LinesOK
<1>3. NotSent.sent = FALSE /\ NotSent.hdr = NewHeader /\ NotSent.body = <<>>
  BY DEF NotSent
<1>4. NoReq.accept \in Accepts
  BY DEF NoReq, Accepts
<1> QED BY <1>1, <1>2, <1>3, <1>4

LEMMA EndRest ==
  ASSUME Inv, Rest, End
  PROVE  Rest'
<1>1. /\ pc' = "idle" /\ req' = NoReq /\ ops' = 0 /\ hdr' = NewHeader /\ resp' = NotSent
      /\ asked' = 0 /\ UNCHANGED <<pools, made>>
      /\ cx' = [out |-> 0, gzip |-> cx.gzip, started |-> FALSE]
  BY DEF End, Reset, NewCx
<1>2. BodyOK' /\ RequestOK'
  BY <1>1, NewServed DEF BodyOK, RequestOK
<1>3. ContextOK' /\ ~cx'.started /\ ~resp'.sent
  BY <1>1, NewServed DEF Rest, Served, ContextOK
<1>4. ops' \in 0..MaxOps
  BY <1>1, ExchangeAssumption
<1> QED BY <1>1, <1>2, <1>3, <1>4 DEF Rest, Served, Within, PoolsOK, StatusOK

LEMMA NewPoolsOK ==
  ASSUME pools = NewPools
  PROVE  PoolsOK
BY DEF NewPools, PoolsOK

LEMMA RestartRest ==
  ASSUME Inv, Rest, Restart
  PROVE  Rest'
<1>1. /\ pc = "idle" /\ pc' = "idle" /\ cx' = NewCx /\ pools' = NewPools
      /\ UNCHANGED <<req, ops, hdr, resp, made, asked>>
  BY DEF Restart
<1>2. ~resp.sent /\ asked = 0
  BY <1>1 DEF Inv, UnderWay, Fresh, Rest
<1>3. ContextOK' /\ ~cx'.started
  BY <1>1 DEF ContextOK, NewCx
<1>4. PoolsOK'
  BY <1>1 DEF NewPools, PoolsOK
<1>5. BodyOK' /\ RequestOK'
  BY <1>1, <1>2 DEF Rest, Served, BodyOK, RequestOK, LinesOK, Fits
<1> QED BY <1>1, <1>2, <1>3, <1>4, <1>5 DEF Rest, Served, Within, StatusOK

LEMMA InitRest ==
  ASSUME Init
  PROVE  Rest
<1>1. /\ pc = "idle" /\ req = NoReq /\ ops = 0 /\ hdr = NewHeader /\ resp = NotSent
      /\ asked = 0 /\ pools = NewPools /\ made = [tokens |-> 0, msgs |-> 0]
      /\ cx = [out |-> 0, gzip |-> FALSE, started |-> FALSE]
  BY DEF Init, NewCx
<1>2. BodyOK /\ RequestOK /\ PoolsOK
  BY <1>1, NewServed, NewPoolsOK DEF BodyOK, RequestOK
<1>3. ContextOK /\ ~cx.started /\ ~resp.sent
  BY <1>1, NewServed DEF ContextOK
<1>4. MaxOps \in Nat /\ MaxTokens \in Nat /\ MaxMsgs \in Nat
  BY ExchangeAssumption
<1>5. Within /\ ops \in 0..MaxOps
  BY <1>1, <1>4 DEF Within
<1> QED BY <1>1, <1>2, <1>3, <1>5 DEF Rest, Served, StatusOK

LEMMA NextRest ==
  ASSUME Inv, Rest, [Next]_vars
  PROVE  Rest'
<1>1. CASE UNCHANGED vars
  BY <1>1 DEF vars, Rest, Served, Within, ContextOK, PoolsOK, BodyOK, LinesOK, Fits, RequestOK, StatusOK
<1>2. CASE \E c \in Clients, in \in Inputs, token \in 0..made.tokens : Arrive(c, in, token)
  BY <1>2, ArriveRest
<1>3. CASE ServeStatic \/ InitController \/ BeforeAction \/ ReadFlashData \/ CheckXSRF
  BY <1>3, ServeStaticRest, InitControllerRest, BeforeActionRest, ReadFlashRest, CheckXSRFRest
<1>4. CASE Action \/ Render \/ Panic \/ Finish \/ End \/ Restart
  BY <1>4, ActionRest, RenderRest, PanicRest, FinishRest, EndRest, RestartRest
<1> QED BY <1>1, <1>2, <1>3, <1>4 DEF Next

LEMMA ChecksType ==
  ASSUME checks \in BOOLEAN, [Next]_vars
  PROVE  checks' \in BOOLEAN
<1>1. CASE UNCHANGED vars
  BY <1>1 DEF vars
<1>2. CASE \E c \in Clients, in \in Inputs, token \in 0..made.tokens : Arrive(c, in, token)
  BY <1>2 DEF Arrive
<1>3. CASE ServeStatic \/ InitController \/ ReadFlashData \/ CheckXSRF \/ Action
  BY <1>3 DEF ServeStatic, InitController, ReadFlashData, CheckXSRF, Action
<1>4. CASE BeforeAction
  BY <1>4 DEF BeforeAction
<1>5. CASE Render \/ Panic \/ Finish \/ Restart
  BY <1>5 DEF Render, Panic, Finish, Restart
<1>6. CASE End
  BY <1>6 DEF End
<1> QED BY <1>1, <1>2, <1>3, <1>4, <1>5, <1>6 DEF Next

(* Every variable has its type, within the bounds: the controller's        *)
(* messages and tokens, the header, the pools of compressors, and a        *)
(* context that knows whether something was sent.                          *)
THEOREM SpecTypeOK == Spec => []TypeOK
<1>1. ASSUME Inv, Rest, checks \in BOOLEAN PROVE TypeOK
  <2>1. Types /\ Within /\ ContextOK /\ PoolsOK /\ BodyOK
    BY <1>1 DEF Inv, Rest, Served
  <2>2. 0..made.msgs \subseteq 0..MaxMsgs /\ 0..made.tokens \subseteq 0..MaxTokens
        /\ 1..made.msgs \subseteq 1..MaxMsgs
    BY <2>1, ExchangeAssumption DEF Types, Within
  <2>3. MsgFlashes \subseteq Flashes
    BY <2>2 DEF MsgFlashes, Flashes
  <2>4. /\ jar \in [Clients -> [flash : Flashes, xsrf : 0..MaxTokens]]
        /\ ctl \in [token : 0..MaxTokens, flash : Flashes]
    BY <2>1, <2>2, <2>3 DEF Types
  <2>5. pools.custom \cup pools.best \subseteq 0..9
    BY <2>1 DEF PoolsOK, gzipCompressLevel, BestCompression, BestSpeed
  <2>6. ASSUME NEW h, HeaderOK(h), LinesOK(h)
        PROVE  h \in Header
    <3>1. h.flash \in {<<>>} \cup {<<f>> : f \in Flashes}
      BY <2>3, <2>6 DEF HeaderOK
    <3> DEFINE lens == {<<>>} \cup {<<z, e>> : z \in {"short", "long"}, e \in {"", "gzip", "deflate"}}
    <3>2. h.len \in lens
      <4>1. Lengths = lens
        BY DEF Lengths, Encodings
      <4> HIDE DEF lens
      <4> QED BY <2>6, <4>1 DEF LinesOK
    <3>3. h.enc \in {"", "gzip", "deflate"}
      BY <2>6 DEF LinesOK, Encodings
    <3>4. h.xsrf \in 0..MaxTokens
      BY <2>2, <2>6 DEF HeaderOK
    <3>5. h = [len |-> h.len, enc |-> h.enc, flash |-> h.flash, xsrf |-> h.xsrf]
      BY <2>6 DEF HeaderOK
    <3> DEFINE flashes == {<<>>} \cup {<<f>> : f \in Flashes}
    <3>6. Header = [len : lens, enc : {"", "gzip", "deflate"}, flash : flashes, xsrf : 0..MaxTokens]
      BY DEF Header
    <3>7. h.flash \in flashes
      BY <3>1
    <3> HIDE DEF lens, flashes
    <3> QED BY <3>2, <3>3, <3>4, <3>5, <3>6, <3>7
  <2>7. hdr \in Header /\ resp.hdr \in Header
    BY <2>1, <2>6 DEF Types, BodyOK
  <2>8. Len(resp.body) <= 1
    <3>1. resp.body = <<>> \/ \E b : resp.body = <<b>>
      BY <2>1 DEF BodyOK
    <3>2. CASE resp.body = <<>>
      BY <3>2
    <3>3. CASE \E b : resp.body = <<b>>
      <4>1. PICK b : resp.body = <<b>>
        BY <3>3
      <4> QED BY <4>1
    <3> QED BY <3>1, <3>2, <3>3
  <2>9. made \in [tokens : 0..MaxTokens, msgs : 0..MaxMsgs]
    BY <2>1, ExchangeAssumption DEF Types, Within
  <2>10. /\ hope.must \in Flashes /\ due \in [Clients -> Flashes]
         /\ gone \in [Clients -> SUBSET (1..MaxMsgs)]
    BY <2>1, <2>2, <2>3 DEF Types
  <2>11. /\ {checks, cx.gzip, cx.started} \subseteq BOOLEAN /\ ops \in 0..MaxOps
         /\ (pc = "idle" <=> req = NoReq)
         /\ pc \notin {"idle", "done"} => (resp.sent <=> cx.started)
    BY <1>1, <2>1 DEF ContextOK, Rest, RequestOK
  <2> QED BY <2>4, <2>5, <2>7, <2>8, <2>9, <2>10, <2>11 DEF TypeOK
<1>2. Init => Inv /\ Rest /\ checks \in BOOLEAN
  BY InitInv, InitRest DEF Init
<1>3. (Inv /\ Rest /\ checks \in BOOLEAN) /\ [Next]_vars => (Inv /\ Rest /\ checks \in BOOLEAN)'
  BY NextInv, NextRest, ChecksType
<1>4. Inv /\ Rest /\ checks \in BOOLEAN => TypeOK
  BY <1>1
<1> QED BY <1>2, <1>3, <1>4, PTL DEF Spec

(* Body, WriteBody, the replies and the pools of compressors: length,      *)
(* encoding, level and status of what is sent are right, whatever requests *)
(* had the context, the controller and the compressors before.             *)
THEOREM SpecResponseSound == Spec => []ResponseSound
<1>1. ASSUME Inv, Rest PROVE ResponseSound
  <2> SUFFICES ASSUME pc = "done"
               PROVE  /\ \A i \in DOMAIN resp.body :
                           /\ resp.hdr.len \in {<<>>, <<resp.body[i].size, resp.body[i].enc>>}
                           /\ resp.hdr.enc = resp.body[i].enc /\ Acceptable(resp.body[i].enc, req.accept)
                           /\ resp.body[i].got = resp.body[i].level
                      /\ asked # 0 => resp.status = asked
    BY DEF ResponseSound
  <2>1. resp.sent /\ BodyOK /\ StatusOK
    BY <1>1 DEF Inv, UnderWay, Rest, Served
  <2>2. ASSUME NEW i \in DOMAIN resp.body
        PROVE  Fits(resp.body[i], resp.hdr)
    <3>1. PICK b : resp.body = <<b>> /\ Fits(b, resp.hdr)
      BY <2>1, <2>2 DEF BodyOK
    <3>2. resp.body[i] = b
      BY <2>2, <3>1
    <3> QED BY <3>1, <3>2
  <2> QED BY <2>1, <2>2 DEF Fits, StatusOK
<1>2. Init => Inv /\ Rest
  BY InitInv, InitRest
<1>3. (Inv /\ Rest) /\ [Next]_vars => (Inv /\ Rest)'
  BY NextInv, NextRest
<1>4. Inv /\ Rest => ResponseSound
  BY <1>1
<1> QED BY <1>2, <1>3, <1>4, PTL DEF Spec

-----------------------------------------------------------------------------
(* What is bound.  Sequences that are put behind each other: where each of *)
(* them begins.                                                            *)
LEMMA MaxIs ==
  ASSUME NEW S, S \subseteq Nat, S # {}, NEW b \in Nat, \A j \in S : j <= b
  PROVE  Max(S) \in S /\ \A j \in S : j <= Max(S)
<1> DEFINE T == {b - j : j \in S}
<1>1. T \subseteq Nat /\ T # {}
  OBVIOUS
<1>2. Min(T) \in T /\ \A d \in T : Min(T) <= d
  BY <1>1, MinIs
<1>3. PICK m \in S : Min(T) = b - m
  BY <1>2
<1>4. \A j \in S : b - m <= b - j
  BY <1>2, <1>3
<1>5. \A j \in S : m >= j
  BY <1>4
<1>6. Max(S) \in S /\ \A j \in S : Max(S) >= j
  BY <1>5 DEF Max
<1> QED BY <1>5, <1>6

(* What holds of 0, and of a number if it holds of the one before, holds   *)
(* of all: the numbers it does not hold of have no least one.              *)
LEMMA UpTo ==
  ASSUME NEW N \in Nat, NEW S, 0 \in S, \A n \in 0..N : n # N /\ n \in S => n + 1 \in S
  PROVE  \A n \in 0..N : n \in S
<1> DEFINE T == {n \in 0..N : n \notin S}
<1> SUFFICES ASSUME T # {} PROVE FALSE
  OBVIOUS
<1>1. Min(T) \in T /\ \A n \in T : Min(T) <= n
  BY MinIs
<1>2. Min(T) # 0 /\ Min(T) - 1 \in 0..N /\ Min(T) - 1 \notin T
  BY <1>1
<1>3. Min(T) - 1 \in S /\ Min(T) - 1 # N
  BY <1>1, <1>2
<1>4. (Min(T) - 1) + 1 \in S
  BY <1>2, <1>3
<1> QED BY <1>1, <1>2, <1>4

Joined(P) == CHOOSE f : f = [i \in 1..Len(P) |-> IF i = 1 THEN P[i] ELSE f[i-1] \o P[i]]

LEMMA JoinedIs ==
  ASSUME NEW P, P \in Seq(Seq(Int))
  PROVE  Joined(P) = [i \in 1..Len(P) |-> IF i = 1 THEN P[i] ELSE Joined(P)[i-1] \o P[i]]
<1> DEFINE Is(f, n) == f = [i \in 1..n |-> IF i = 1 THEN P[i] ELSE f[i-1] \o P[i]]
           S == {n \in 0..Len(P) : \E f : Is(f, n)}
<1>1. Len(P) \in Nat
  OBVIOUS
<1>2. 0 \in S
  <2>1. Is([i \in 1..0 |-> P[i]], 0)
    OBVIOUS
  <2>2. \E f : Is(f, 0)
    BY <2>1
  <2> HIDE DEF Is
  <2> QED BY <1>1, <2>2
<1>3. ASSUME NEW n \in 0..Len(P), n # Len(P), n \in S
      PROVE  n + 1 \in S
  <2>1. PICK f : Is(f, n)
    BY <1>3
  <2> DEFINE g == [i \in 1..n+1 |-> IF i <= n THEN f[i] ELSE IF i = 1 THEN P[i] ELSE f[i-1] \o P[i]]
  <2>2. ASSUME NEW i \in 1..n+1
        PROVE  g[i] = IF i = 1 THEN P[i] ELSE g[i-1] \o P[i]
    <3>1. CASE i <= n
      <4> i \in 1..n /\ n \in Nat
        BY <1>1, <3>1
      <4>3. g[i] = f[i]
        BY <3>1
      <4>4. f[i] = IF i = 1 THEN P[i] ELSE f[i-1] \o P[i]
        <5> DEFINE h == [j \in 1..n |-> IF j = 1 THEN P[j] ELSE f[j-1] \o P[j]]
        <5>1. f = h
          BY <2>1
        <5>2. h[i] = IF i = 1 THEN P[i] ELSE f[i-1] \o P[i]
          OBVIOUS
        <5> HIDE DEF h
        <5> QED BY <5>1, <5>2
      <4>1. g[i] = f[i] /\ f[i] = IF i = 1 THEN P[i] ELSE f[i-1] \o P[i]
        BY <4>3, <4>4
      <4>2. i # 1 => g[i-1] = f[i-1]
        BY <1>1, <3>1
      <4> QED BY <4>1, <4>2
    <3>2. CASE i = n + 1
      <4>1. g[i] = IF i = 1 THEN P[i] ELSE f[i-1] \o P[i]
        BY <1>1, <3>2
      <4>2. i # 1 => g[i-1] = f[i-1]
        BY <1>1, <3>2
      <4> QED BY <4>1, <4>2
    <3> QED BY <1>1, <3>1, <3>2
  <2>3. Is(g, n + 1)
    BY <2>2
  <2>4. \E h : Is(h, n + 1)
    BY <2>3
  <2> HIDE DEF Is, g
  <2> QED BY <1>1, <1>3, <2>4
<1> HIDE DEF S
<1>4. Len(P) \in S
  <2>1. \A n \in 0..Len(P) : n # Len(P) /\ n \in S => n + 1 \in S
    BY <1>3
  <2>2. \A n \in 0..Len(P) : n \in S
    BY <1>1, <1>2, <2>1, UpTo
  <2> QED BY <1>1, <2>2
<1>5. \E f : Is(f, Len(P))
  BY <1>4 DEF S
<1> QED BY <1>5, Zenon DEF Joined

(* Where the i-th sequence begins, and that the first n of them are where  *)
(* they should be, one behind the other with nothing between.              *)
Begin(P, i) == IF i = 1 THEN 0 ELSE Len(Joined(P)[i-1])

Placed(P, n, out) ==
  /\ out \in Seq(Int)
  /\ \A m \in 1..n : Begin(P, m) \in Nat /\ Begin(P, m) + Len(P[m]) <= Len(out)
  /\ \A m \in 1..n : \A j \in 1..Len(P[m]) : out[Begin(P, m) + j] = P[m][j]
  /\ \A i \in 1..Len(out) : \E m \in 1..n : i \in Begin(P, m) + 1 .. Begin(P, m) + Len(P[m])
  /\ \A l, m \in 1..n : l < m => Begin(P, l) + Len(P[l]) <= Begin(P, m)

LEMMA ConcatIs ==
  ASSUME NEW s \in Seq(Int), NEW t \in Seq(Int)
  PROVE  /\ s \o t \in Seq(Int) /\ Len(s \o t) = Len(s) + Len(t)
         /\ Len(s) \in Nat /\ Len(t) \in Nat
         /\ \A i \in 1..Len(s) : (s \o t)[i] = s[i]
         /\ \A i \in 1..Len(t) : (s \o t)[Len(s) + i] = t[i]
OBVIOUS

LEMMA JoinedPlaced ==
  ASSUME NEW P, P \in Seq(Seq(Int))
  PROVE  \A n \in 1..Len(P) : Placed(P, n, Joined(P)[n])
<1> DEFINE f == Joined(P)
           S == {n \in 0..Len(P) : n = 0 \/ Placed(P, n, f[n])}
<1>1. /\ Len(P) \in Nat /\ 0 \in S
      /\ \A i \in 1..Len(P) : P[i] \in Seq(Int) /\ f[i] = IF i = 1 THEN P[i] ELSE f[i-1] \o P[i]
  <2>1. f = [i \in 1..Len(P) |-> IF i = 1 THEN P[i] ELSE f[i-1] \o P[i]]
    BY JoinedIs
  <2> HIDE DEF f
  <2>2. \A i \in 1..Len(P) : f[i] = IF i = 1 THEN P[i] ELSE f[i-1] \o P[i]
    BY <2>1
  <2> QED BY <2>2
<1> HIDE DEF f
<1>2. ASSUME NEW n \in 0..Len(P), n # Len(P), n \in S
      PROVE  Placed(P, n + 1, f[n+1])
  <2>1. n + 1 \in 1..Len(P) /\ P[n+1] \in Seq(Int) /\ Len(P[n+1]) \in Nat /\ n \in Nat
    BY <1>1, <1>2
  <2>2. CASE n = 0
    <3>1. f[1] = P[1] /\ Begin(P, 1) = 0
      BY <1>1, <2>1, <2>2 DEF Begin
    <3> QED BY <2>1, <2>2, <3>1 DEF Placed
  <2>3. CASE n # 0
    <3>1. Placed(P, n, f[n]) /\ n \in 1..Len(P)
      BY <1>2, <2>3
    <3>2. f[n+1] = f[n] \o P[n+1] /\ Begin(P, n + 1) = Len(f[n])
      <4>1. n + 1 # 1 /\ (n + 1) - 1 = n
        BY <2>1, <2>3
      <4>2. f[n+1] = f[n] \o P[n+1]
        BY <1>1, <2>1, <4>1
      <4>3. Begin(P, n + 1) = Len(f[n])
        BY <4>1 DEF Begin, f
      <4> QED BY <4>2, <4>3
    <3> SUFFICES ASSUME NEW s \in Seq(Int), s = f[n], NEW t \in Seq(Int), t = P[n+1]
                 PROVE  Placed(P, n + 1, s \o t)
      <4>1. f[n] \in Seq(Int)
        BY <3>1 DEF Placed
      <4> QED BY <2>1, <3>2, <4>1
    <3>3. /\ s \o t \in Seq(Int) /\ Len(s \o t) = Len(s) + Len(t)
          /\ Len(s) \in Nat /\ Len(t) \in Nat
          /\ \A i \in 1..Len(s) : (s \o t)[i] = s[i]
          /\ \A i \in 1..Len(t) : (s \o t)[Len(s) + i] = t[i]
      BY ConcatIs
    <3>4. \A m \in 1..n : m \in 1..Len(P) /\ Len(P[m]) \in Nat
      BY <1>1, <3>1
    <3>12. Len(s \o t) = Len(s) + Len(t) /\ Len(s) \in Nat /\ Len(t) \in Nat
      BY <3>3
    <3>13. /\ \A b, l, x, y \in Nat : b + l <= x => b + l <= x + y
           /\ \A b, l, x \in Nat : b + l <= x => \A j \in 1..l : b + j \in 1..x
           /\ \A x, y \in Nat : \A i \in 1..x + y : i > x => i \in x + 1 .. x + y
      OBVIOUS
    <3>5. /\ \A m \in 1..n : Begin(P, m) \in Nat /\ Begin(P, m) + Len(P[m]) <= Len(s)
          /\ \A m \in 1..n : \A j \in 1..Len(P[m]) : s[Begin(P, m) + j] = P[m][j]
          /\ \A i \in 1..Len(s) : \E m \in 1..n : i \in Begin(P, m) + 1 .. Begin(P, m) + Len(P[m])
          /\ \A l, m \in 1..n : l < m => Begin(P, l) + Len(P[l]) <= Begin(P, m)
      BY <3>1 DEF Placed
    <3>6. Begin(P, n + 1) = Len(s)
      BY <3>2
    <3>7. \A m \in 1..n+1 : m \in 1..n \/ m = n + 1
      BY <2>1
    <3>8. \A m \in 1..n+1 : Begin(P, m) \in Nat /\ Begin(P, m) + Len(P[m]) <= Len(s \o t)
      <4> SUFFICES ASSUME NEW m \in 1..n+1
                   PROVE  Begin(P, m) \in Nat /\ Begin(P, m) + Len(P[m]) <= Len(s \o t)
        OBVIOUS
      <4>1. CASE m \in 1..n
        <5>1. Begin(P, m) \in Nat /\ Begin(P, m) + Len(P[m]) <= Len(s) /\ Len(P[m]) \in Nat
          BY <3>4, <3>5, <4>1
        <5> QED BY <3>12, <3>13, <5>1
      <4>2. CASE m = n + 1
        <5>1. Begin(P, m) = Len(s) /\ Len(P[m]) = Len(t)
          BY <3>6, <4>2
        <5> QED BY <3>3, <5>1
      <4> QED BY <3>7, <4>1, <4>2
    <3>9. ASSUME NEW m \in 1..n+1, NEW j \in 1..Len(P[m])
          PROVE  (s \o t)[Begin(P, m) + j] = P[m][j]
      <4>1. CASE m \in 1..n
        <5>1. Begin(P, m) + j \in 1..Len(s)
          <6>1. Begin(P, m) \in Nat /\ Begin(P, m) + Len(P[m]) <= Len(s) /\ Len(P[m]) \in Nat
            BY <3>4, <3>5, <4>1
          <6> QED BY <3>12, <3>13, <6>1
        <5> QED BY <3>3, <3>5, <4>1, <5>1
      <4>2. CASE m = n + 1
        BY <3>3, <3>6, <4>2
      <4> QED BY <3>7, <4>1, <4>2
    <3>10. ASSUME NEW i \in 1..Len(s \o t)
           PROVE  \E m \in 1..n+1 : i \in Begin(P, m) + 1 .. Begin(P, m) + Len(P[m])
      <4>1. CASE i <= Len(s)
        BY <2>1, <3>3, <3>5, <4>1
      <4>2. CASE i > Len(s)
        <5>1. n + 1 \in 1..n+1 /\ i \in Begin(P, n + 1) + 1 .. Begin(P, n + 1) + Len(P[n+1])
          <6>1. n + 1 \in 1..n+1 /\ Len(P[n+1]) = Len(t)
            BY <2>1
          <6> QED BY <3>12, <3>13, <3>6, <4>2, <6>1
        <5> QED BY <5>1
      <4> QED BY <3>3, <4>1, <4>2
    <3>11. ASSUME NEW l \in 1..n+1, NEW m \in 1..n+1, l < m
           PROVE  Begin(P, l) + Len(P[l]) <= Begin(P, m)
      <4>1. l \in 1..n
        BY <2>1, <3>11
      <4>2. CASE m \in 1..n
        BY <3>5, <3>11, <4>1, <4>2
      <4>3. CASE m = n + 1
        BY <3>5, <3>6, <4>1, <4>3
      <4> QED BY <3>7, <4>2, <4>3
    <3> QED BY <3>3, <3>8, <3>9, <3>10, <3>11 DEF Placed
  <2> QED BY <2>2, <2>3
<1>3. \A n \in 0..Len(P) : n # Len(P) /\ n \in S => n + 1 \in S
  BY <1>1, <1>2
<1> HIDE DEF S
<1>4. \A n \in 0..Len(P) : n \in S
  BY <1>1, <1>3, UpTo
<1> QED BY <1>1, <1>4 DEF S, f

LEMMA FlattenPlaced ==
  ASSUME NEW P, P \in Seq(Seq(Int))
  PROVE  Placed(P, Len(P), FlattenSeq(P))
<1>1. CASE Len(P) = 0
  <2>1. FlattenSeq(P) = P /\ P = <<>>
    BY <1>1 DEF FlattenSeq
  <2> QED BY <1>1, <2>1 DEF Placed
<1>2. CASE Len(P) # 0
  <2>1. FlattenSeq(P) = Joined(P)[Len(P)]
    BY <1>2, Zenon DEF FlattenSeq, Joined
  <2>2. Len(P) \in 1..Len(P)
    BY <1>2
  <2> QED BY <2>1, <2>2, JoinedPlaced
<1> QED BY <1>1, <1>2

-----------------------------------------------------------------------------
(* Integers: a value that fits is bound as it is.                          *)
Values == [is : {"number", "text", "blank"}, n : Int]

LEMMA WrapIs ==
  ASSUME NEW n \in Int, NEW half \in Nat \ {0}
  PROVE  Wrap(n, half) \in Int /\ (FitsIn(n, half) => Wrap(n, half) = n)
<1>1. \A a \in Int, b \in Nat \ {0} : a % b \in Int
  OBVIOUS
<1>2. \A a, b \in Nat : a < b => a % b = a
  OBVIOUS
<1>3. 2 * half \in Nat \ {0} /\ n + half \in Int
  OBVIOUS
<1>4. Wrap(n, half) \in Int
  <2>1. (n + half) % (2 * half) \in Int
    BY <1>1, <1>3
  <2> QED BY <2>1 DEF Wrap
<1>5. ASSUME FitsIn(n, half) PROVE Wrap(n, half) = n
  <2>1. n + half \in Nat /\ n + half < 2 * half
    BY <1>5 DEF FitsIn
  <2>2. (n + half) % (2 * half) = n + half
    BY <1>2, <1>3, <2>1
  <2> QED BY <2>2 DEF Wrap
<1> QED BY <1>4, <1>5

LEMMA BindIntIs ==
  ASSUME NEW v \in Values
  PROVE  /\ bindInt(v) \in Int
         /\ v.is = "number" /\ FitsIn(v.n, Half) => bindInt(v) = v.n
<1>1. Half \in Nat \ {0} /\ WideHalf \in Nat /\ WideHalf >= Half /\ v.n \in Int
  BY ExchangeAssumption DEF Values
<1>2. FitsIn(v.n, Half) => FitsIn(v.n, WideHalf)
  BY <1>1 DEF FitsIn
<1>3. CASE v.is # "number"
  BY <1>3 DEF bindInt, ParseInt
<1>4. CASE v.is = "number" /\ FitsIn(v.n, WideHalf)
  <2>1. ParseInt(v, WideHalf) = [val |-> v.n, err |-> FALSE]
    BY <1>4 DEF ParseInt
  <2>2. bindInt(v) = Wrap(v.n, Half)
    BY <2>1 DEF bindInt
  <2> QED BY <1>1, <2>2, WrapIs
<1>5. CASE v.is = "number" /\ ~FitsIn(v.n, WideHalf)
  <2>1. ParseInt(v, WideHalf).err
    BY <1>5 DEF ParseInt
  <2>2. bindInt(v) = 0
    BY <2>1 DEF bindInt
  <2> QED BY <1>2, <1>5, <2>2
<1> QED BY <1>3, <1>4, <1>5

(* The value a key has is one of those that are sent, or blank.            *)
LEMMA QueryIs ==
  ASSUME NEW form, FormOK(form), NEW k
  PROVE  Query(form, k) \in Values
<1>1. Blank \in Values
  BY DEF Blank, Values
<1>2. ASSUME k \in DOMAIN form, form[k] # <<>>
      PROVE  Head(form[k]) \in Values
  <2>1. form[k] \in Seq(Values)
    BY <1>2 DEF FormOK, Values
  <2> QED BY <1>2, <2>1
<1> QED BY <1>1, <1>2 DEF Query

(* A getter that gives no error gives what was sent, and what Bind gives.  *)
LEMMA GetIntRight ==
  ASSUME NEW v \in Values, NEW def, NEW get, get = GetInt(v, def), ~get.err
  PROVE  IF v = Blank THEN get.val = def[1] ELSE get.val = v.n /\ bindInt(v) = v.n
<1>1. CASE v = Blank /\ def # <<>>
  BY <1>1 DEF GetInt
<1>2. CASE ~(v = Blank /\ def # <<>>)
  <2>1. get = ParseInt(v, Half)
    BY <1>2 DEF GetInt
  <2>2. v.is = "number"
    BY <2>1 DEF ParseInt
  <2>3. FitsIn(v.n, Half)
    BY <2>1, <2>2 DEF ParseInt
  <2>4. get.val = v.n
    BY <2>1, <2>2, <2>3 DEF ParseInt
  <2>5. v # Blank
    BY <2>2 DEF Blank
  <2> QED BY <2>2, <2>3, <2>4, <2>5, BindIntIs
<1> QED BY <1>1, <1>2

-----------------------------------------------------------------------------
(* A walk of the form has each of its keys at one place.                   *)
Walk(form, order) ==
  LET N == Cardinality(DOMAIN form) IN
  /\ N \in Nat /\ order \in [1..N -> DOMAIN form]
  /\ \A m, n \in 1..N : m # n => order[m] # order[n]
  /\ \A k \in DOMAIN form : \E n \in 1..N : order[n] = k

LEMMA OrderWalks ==
  ASSUME NEW form, FormOK(form), NEW order \in SetToSeqs(DOMAIN form)
  PROVE  Walk(form, order)
<1> DEFINE K == DOMAIN form
           N == Cardinality(K)
<1>1. IsFiniteSet(K)
  BY DEF FormOK
<1> HIDE DEF K
<1>2. N \in Nat
  BY <1>1, FS_CardinalityType
<1>3. order \in [1..N -> K] /\ \A m, n \in 1..N : m # n => order[m] # order[n]
  BY DEF SetToSeqs, K
<1>4. order \in Injection(1..N, K)
  BY <1>3 DEF Injection, IsInjective
<1>5. Cardinality(1..N) = N
  BY <1>2, FS_Interval
<1>6. order \in Surjection(1..N, K)
  BY <1>1, <1>4, <1>5, FS_Injection
<1>7. \A k \in K : \E n \in 1..N : order[n] = k
  BY <1>6 DEF Surjection
<1> QED BY <1>2, <1>3, <1>7 DEF Walk, K

(* The length that the indices ask for.                                    *)
LEMMA SizeIs ==
  ASSUME NEW form, FormOK(form), NEW order, Walk(form, order)
  PROVE  /\ Size(form) \in Nat
         /\ \A k \in Indexed(form) : k.at \in Nat /\ k.at < Size(form)
         /\ Size(form) > 0 => \E k \in Indexed(form) : k.at = Size(form) - 1
<1> DEFINE N == Cardinality(DOMAIN form)
           S == {n \in 0..N : \E b \in Nat : \A m \in 1..n : order[m].at < b}
           A == {0} \cup {k.at + 1 : k \in Indexed(form)}
<1>1. /\ N \in Nat /\ \A n \in 1..N : order[n] \in DOMAIN form
      /\ \A k \in DOMAIN form : k.at \in Nat /\ \E n \in 1..N : order[n] = k
  BY DEF Walk, FormOK
<1> HIDE DEF N
<1>2. 0 \in S
  <2>1. \A m \in 1..0 : order[m].at < 0
    OBVIOUS
  <2>2. \E b \in Nat : \A m \in 1..0 : order[m].at < b
    BY <2>1
  <2> QED BY <1>1, <2>2
<1>3. ASSUME NEW n \in 0..N, n # N, n \in S
      PROVE  n + 1 \in S
  <2>1. PICK b \in Nat : \A m \in 1..n : order[m].at < b
    BY <1>3
  <2>2. n + 1 \in 1..N /\ order[n+1].at \in Nat
    BY <1>1, <1>3
  <2> DEFINE c == b + order[n+1].at + 1
  <2>3. c \in Nat /\ \A m \in 1..n+1 : order[m].at < c
    <3>1. \A m \in 1..n : order[m].at \in Nat
      BY <1>1, <1>3
    <3> QED BY <2>1, <2>2, <3>1
  <2>4. \E d \in Nat : \A m \in 1..n+1 : order[m].at < d
    BY <2>3
  <2> QED BY <1>1, <2>2, <2>4
<1>4. \A n \in 0..N : n \in S
  <2> HIDE DEF S
  <2>1. \A n \in 0..N : n # N /\ n \in S => n + 1 \in S
    BY <1>3
  <2> QED BY <1>1, <1>2, <2>1, UpTo
<1>5. PICK b \in Nat : \A m \in 1..N : order[m].at < b
  <2>1. N \in 0..N
    BY <1>1
  <2> HIDE DEF S
  <2>2. N \in S
    BY <1>4, <2>1
  <2> QED BY <2>2 DEF S
<1>6. A \subseteq Nat /\ A # {} /\ \A j \in A : j <= b
  BY <1>1, <1>5 DEF Indexed
<1> HIDE DEF A
<1>7. Max(A) \in A /\ \A j \in A : j <= Max(A)
  BY <1>6, MaxIs
<1>8. Size(form) = Max(A)
  BY DEF Size, A
<1>9. \A k \in Indexed(form) : k.at \in Nat /\ k.at + 1 \in A
  BY <1>1 DEF A, Indexed
<1>10. Max(A) # 0 => \E k \in Indexed(form) : Max(A) = k.at + 1
  BY <1>7 DEF A
<1> QED BY <1>6, <1>7, <1>8, <1>9, <1>10

-----------------------------------------------------------------------------
(* bindSlice: the part that indices ask for, and the part behind it.       *)
Element(form, order, i) ==
  LET at == {n \in DOMAIN order : order[n] \in Indexed(form) /\ order[n].at = i}
  IN IF at = {} THEN 0 ELSE bindInt(Query(form, order[Max(at)]))

LEMMA ElementRight ==
  ASSUME NEW form, FormOK(form), NEW order, Walk(form, order), NEW i \in Nat
  PROVE  /\ Element(form, order, i) \in Int
         /\ LET here == {k \in Indexed(form) : k.at = i} IN
            IF here = {} THEN Element(form, order, i) = 0
            ELSE \E k \in here : Element(form, order, i) = bindInt(Query(form, k))
<1> DEFINE N    == Cardinality(DOMAIN form)
           at   == {n \in DOMAIN order : order[n] \in Indexed(form) /\ order[n].at = i}
           here == {k \in Indexed(form) : k.at = i}
<1>1. /\ N \in Nat /\ DOMAIN order = 1..N
      /\ \A k \in DOMAIN form : \E n \in 1..N : order[n] = k
  BY DEF Walk
<1> HIDE DEF N
<1>2. CASE at = {}
  <2>1. here = {}
    BY <1>1, <1>2 DEF Indexed
  <2>2. Element(form, order, i) = 0
    BY <1>2 DEF Element
  <2> QED BY <2>1, <2>2
<1>3. CASE at # {}
  <2>1. at \subseteq Nat /\ \A n \in at : n <= N
    BY <1>1
  <2>2. Max(at) \in at
    BY <1>1, <1>3, <2>1, MaxIs
  <2>3. Element(form, order, i) = bindInt(Query(form, order[Max(at)]))
    BY <1>3 DEF Element
  <2>4. order[Max(at)] \in here
    BY <2>2
  <2>5. Element(form, order, i) \in Int
    BY <2>3, QueryIs, BindIntIs
  <2>6. \E k \in here : Element(form, order, i) = bindInt(Query(form, k))
    BY <2>3, <2>4
  <2> QED BY <2>4, <2>5, <2>6
<1> QED BY <1>2, <1>3

LEMMA BoundIs ==
  ASSUME NEW values \in Seq(Values)
  PROVE  /\ Bound(values) \in Seq(Int) /\ Len(Bound(values)) = Len(values)
         /\ \A j \in DOMAIN values : Bound(values)[j] = bindInt(values[j])
<1>1. DOMAIN values = 1..Len(values) /\ Len(values) \in Nat /\ \A j \in DOMAIN values : values[j] \in Values
  OBVIOUS
<1>2. Bound(values) = [j \in 1..Len(values) |-> bindInt(values[j])]
  BY <1>1 DEF Bound
<1>3. \A j \in 1..Len(values) : bindInt(values[j]) \in Int
  BY <1>1, BindIntIs
<1> QED BY <1>1, <1>2, <1>3

(* The values of the open keys, as the walk meets them.                    *)
Pieces(form, order) ==
  [n \in DOMAIN order |-> IF order[n].as = "open" THEN Bound(form[order[n]]) ELSE <<>>]

LEMMA PiecesAre ==
  ASSUME NEW form, FormOK(form), NEW order, Walk(form, order)
  PROVE  /\ Pieces(form, order) \in Seq(Seq(Int))
         /\ Len(Pieces(form, order)) = Cardinality(DOMAIN form)
         /\ \A n \in 1..Cardinality(DOMAIN form) :
              Pieces(form, order)[n] = IF order[n].as = "open" THEN Bound(form[order[n]]) ELSE <<>>
<1> DEFINE N == Cardinality(DOMAIN form)
           P == Pieces(form, order)
<1>1. N \in Nat /\ DOMAIN order = 1..N /\ \A n \in 1..N : order[n] \in DOMAIN form
  BY DEF Walk
<1> HIDE DEF N
<1>2. P = [n \in 1..N |-> IF order[n].as = "open" THEN Bound(form[order[n]]) ELSE <<>>]
  BY <1>1 DEF Pieces
<1>3. ASSUME NEW n \in 1..N
      PROVE  (IF order[n].as = "open" THEN Bound(form[order[n]]) ELSE <<>>) \in Seq(Int)
  <2>1. form[order[n]] \in Seq(Values)
    BY <1>1 DEF FormOK, Values
  <2> QED BY <2>1, BoundIs
<1> HIDE DEF P
<1>4. P \in [1..N -> Seq(Int)]
  BY <1>2, <1>3
<1>5. P \in Seq(Seq(Int)) /\ Len(P) = N
  BY <1>1, <1>4
<1>6. \A n \in 1..N : P[n] = IF order[n].as = "open" THEN Bound(form[order[n]]) ELSE <<>>
  BY <1>2
<1> QED BY <1>5, <1>6 DEF P, N

(* The parts of SliceRight: what is in front, what comes behind.           *)
InFront(form, out, size) ==
  /\ \A k \in Indexed(form) : k.at < size
  /\ size > 0 => \E k \in Indexed(form) : k.at = size - 1
  /\ \A i \in 1..size :
       LET here == {k \in Indexed(form) : k.at = i - 1} IN
       IF here = {} THEN out[i] = 0 ELSE \E k \in here : out[i] = bindInt(Query(form, k))

Opens(form) == {k \in DOMAIN form : k.as = "open"}
Places(form, from, k) == from[k] + 1 .. from[k] + Len(form[k])

Behind(form, out, size, from) ==
  /\ \A k, l \in Opens(form) : k # l => Places(form, from, k) \cap Places(form, from, l) = {}
  /\ UNION {Places(form, from, k) : k \in Opens(form)} = size + 1 .. Len(out)
  /\ \A k \in Opens(form) : \A j \in DOMAIN form[k] : out[from[k] + j] = bindInt(form[k][j])

LEMMA SliceParts ==
  ASSUME NEW form, NEW out, NEW size \in 0..Len(out),
         NEW from \in [Opens(form) -> size..Len(out)],
         InFront(form, out, size), Behind(form, out, size, from)
  PROVE  SliceRight(form, out)
BY Zenon DEF SliceRight, InFront, Behind, Opens, Places, Indexed

LEMMA SliceSound ==
  ASSUME NEW form, FormOK(form), NEW order \in SetToSeqs(DOMAIN form)
  PROVE  SliceRight(form, bindSlice(form, order))
<1> DEFINE N     == Cardinality(DOMAIN form)
           P     == Pieces(form, order)
           F     == FlattenSeq(P)
           size  == Size(form)
           array == [i \in 1..size |-> Element(form, order, i - 1)]
           out   == array \o F
           at(k) == CHOOSE n \in 1..N : order[n] = k
           from  == [k \in Opens(form) |-> size + Begin(P, at(k))]
<1>1. Walk(form, order)
  BY OrderWalks
<1>2. out = bindSlice(form, order)
  BY DEF bindSlice, Open, Pieces, Element
<1>3. N \in Nat /\ P \in Seq(Seq(Int)) /\ Len(P) = N
  BY <1>1, PiecesAre DEF Walk
<1>4. Placed(P, N, F)
  BY <1>3, FlattenPlaced
<1>5. /\ size \in Nat
      /\ \A k \in Indexed(form) : k.at \in Nat /\ k.at < size
      /\ size > 0 => \E k \in Indexed(form) : k.at = size - 1
  BY <1>1, SizeIs
<1>6. array \in Seq(Int) /\ Len(array) = size
  <2>1. \A i \in 1..size : Element(form, order, i - 1) \in Int
    BY <1>1, <1>5, ElementRight
  <2> QED BY <1>5, <2>1
<1>7. ASSUME NEW k \in Opens(form)
      PROVE  /\ at(k) \in 1..N /\ order[at(k)] = k
             /\ form[k] \in Seq(Values) /\ Len(form[k]) \in Nat /\ DOMAIN form[k] = 1..Len(form[k])
             /\ P[at(k)] = Bound(form[k]) /\ Len(P[at(k)]) = Len(form[k])
  <2>1. at(k) \in 1..N /\ order[at(k)] = k
    BY <1>1, Zenon DEF Walk, Opens
  <2>2. form[k] \in Seq(Values)
    BY DEF FormOK, Opens, Values
  <2> HIDE DEF at
  <2>3. P[at(k)] = Bound(form[k])
    BY <1>1, <2>1, PiecesAre DEF Opens
  <2>4. Len(Bound(form[k])) = Len(form[k])
    BY <2>2, BoundIs
  <2> HIDE DEF P, N
  <2> QED BY <2>1, <2>2, <2>3, <2>4
<1>8. ASSUME NEW n \in 1..N
      PROVE  \/ order[n] \in Opens(form) /\ at(order[n]) = n
             \/ Len(P[n]) = 0
  <2>1. order[n] \in DOMAIN form /\ \A m \in 1..N : order[m] = order[n] => m = n
    BY <1>1 DEF Walk
  <2>2. P[n] = IF order[n].as = "open" THEN Bound(form[order[n]]) ELSE <<>>
    BY <1>1, PiecesAre
  <2>3. CASE order[n].as = "open"
    <3>1. order[n] \in Opens(form)
      BY <2>1, <2>3 DEF Opens
    <3>2. at(order[n]) \in 1..N /\ order[at(order[n])] = order[n]
      BY <1>7, <3>1
    <3> HIDE DEF at
    <3> QED BY <2>1, <3>1, <3>2
  <2>4. CASE order[n].as # "open"
    <3> HIDE DEF P
    <3> QED BY <2>2, <2>4
  <2> QED BY <2>3, <2>4
<1>9. \A k \in Opens(form) : from[k] = size + Begin(P, at(k))
  OBVIOUS
<1> HIDE DEF N, P, F, size, array, at, from
<1>10. /\ F \in Seq(Int)
       /\ \A n \in 1..N : Begin(P, n) \in Nat /\ Begin(P, n) + Len(P[n]) <= Len(F)
       /\ \A n \in 1..N : \A j \in 1..Len(P[n]) : F[Begin(P, n) + j] = P[n][j]
       /\ \A i \in 1..Len(F) : \E n \in 1..N : i \in Begin(P, n) + 1 .. Begin(P, n) + Len(P[n])
       /\ \A m, n \in 1..N : m < n => Begin(P, m) + Len(P[m]) <= Begin(P, n)
  BY <1>4 DEF Placed
<1>11. /\ Len(out) = size + Len(F) /\ Len(F) \in Nat /\ size \in Nat
       /\ \A i \in 1..size : out[i] = array[i]
       /\ \A i \in 1..Len(F) : out[size + i] = F[i]
  <2>1. /\ Len(array \o F) = Len(array) + Len(F) /\ Len(F) \in Nat
        /\ \A i \in 1..Len(array) : (array \o F)[i] = array[i]
        /\ \A i \in 1..Len(F) : (array \o F)[Len(array) + i] = F[i]
    BY <1>6, <1>10, ConcatIs
  <2> QED BY <1>5, <1>6, <2>1
<1> HIDE DEF out
<1>12. size \in 0..Len(out)
  BY <1>11
<1>13. InFront(form, out, size)
  <2> SUFFICES ASSUME NEW i \in 1..size
               PROVE  LET here == {k \in Indexed(form) : k.at = i - 1} IN
                      IF here = {} THEN out[i] = 0 ELSE \E k \in here : out[i] = bindInt(Query(form, k))
    BY <1>5, Zenon DEF InFront
  <2>1. out[i] = Element(form, order, i - 1) /\ i - 1 \in Nat
    BY <1>11 DEF array
  <2> QED BY <1>1, <2>1, ElementRight
<1>14. ASSUME NEW k \in Opens(form)
       PROVE  /\ from[k] = size + Begin(P, at(k)) /\ from[k] \in size..Len(out)
              /\ Begin(P, at(k)) \in Nat /\ Begin(P, at(k)) + Len(form[k]) <= Len(F)
  <2>1. at(k) \in 1..N /\ Len(P[at(k)]) = Len(form[k]) /\ Len(form[k]) \in Nat
    BY <1>7
  <2>2. Begin(P, at(k)) \in Nat /\ Begin(P, at(k)) + Len(form[k]) <= Len(F)
    BY <1>10, <2>1
  <2> SUFFICES ASSUME NEW b \in Nat, b = Begin(P, at(k)), NEW l \in Nat, l = Len(form[k]), NEW f \in Nat, f = Len(F)
               PROVE  from[k] = size + b /\ size + b \in size..size + f
    BY <1>11, <2>1, <2>2
  <2> QED BY <1>9, <1>11, <2>2
<1>15. from \in [Opens(form) -> size..Len(out)]
  BY <1>14 DEF from
<1>16. ASSUME NEW k \in Opens(form), NEW l \in Opens(form), k # l
       PROVE  Places(form, from, k) \cap Places(form, from, l) = {}
  <2>1. at(k) \in 1..N /\ at(l) \in 1..N /\ at(k) # at(l)
    BY <1>7, <1>16
  <2>2. ASSUME NEW a \in Opens(form), NEW b \in Opens(form), at(a) < at(b)
        PROVE  from[a] + Len(form[a]) <= from[b] /\ from[a] \in Nat /\ from[b] \in Nat /\ Len(form[a]) \in Nat
    <3>1. Begin(P, at(a)) + Len(form[a]) <= Begin(P, at(b))
      BY <1>7, <1>10, <2>2
    <3>2. from[a] = size + Begin(P, at(a)) /\ from[b] = size + Begin(P, at(b)) /\ Len(form[a]) \in Nat
      BY <1>7, <1>14
    <3>3. Begin(P, at(a)) \in Nat /\ Begin(P, at(b)) \in Nat
      BY <1>14
    <3> QED BY <1>11, <3>1, <3>2, <3>3
  <2>3. at(k) < at(l) \/ at(l) < at(k)
    BY <1>3, <2>1
  <2>4. Len(form[k]) \in Nat /\ Len(form[l]) \in Nat
    BY <1>7
  <2> QED BY <2>2, <2>3, <2>4 DEF Places
<1>17. ASSUME NEW i \in size + 1 .. Len(out)
       PROVE  \E k \in Opens(form) : i \in Places(form, from, k)
  <2>1. i - size \in 1..Len(F)
    BY <1>11
  <2>2. PICK n \in 1..N : i - size \in Begin(P, n) + 1 .. Begin(P, n) + Len(P[n])
    BY <1>10, <2>1
  <2>3. Begin(P, n) \in Nat
    BY <1>10
  <2>4. order[n] \in Opens(form) /\ at(order[n]) = n
    BY <1>8, <2>2, <2>3
  <2>5. from[order[n]] = size + Begin(P, n) /\ Len(form[order[n]]) = Len(P[n]) /\ Len(P[n]) \in Nat
    BY <1>7, <1>14, <2>4
  <2>6. i \in Places(form, from, order[n])
    BY <1>11, <2>2, <2>3, <2>5 DEF Places
  <2> QED BY <2>4, <2>6
<1>18. ASSUME NEW k \in Opens(form)
       PROVE  Places(form, from, k) \subseteq size + 1 .. Len(out)
  <2>1. Len(form[k]) \in Nat
    BY <1>7
  <2> QED BY <1>11, <1>14, <2>1 DEF Places
<1>19. UNION {Places(form, from, k) : k \in Opens(form)} = size + 1 .. Len(out)
  BY <1>17, <1>18
<1>20. ASSUME NEW k \in Opens(form), NEW j \in DOMAIN form[k]
       PROVE  out[from[k] + j] = bindInt(form[k][j])
  <2>1. /\ at(k) \in 1..N /\ P[at(k)] = Bound(form[k]) /\ Len(P[at(k)]) = Len(form[k])
        /\ form[k] \in Seq(Values) /\ Len(form[k]) \in Nat /\ j \in 1..Len(form[k])
    BY <1>7
  <2>2. F[Begin(P, at(k)) + j] = bindInt(form[k][j])
    <3>1. F[Begin(P, at(k)) + j] = P[at(k)][j]
      <4>1. j \in 1..Len(P[at(k)])
        BY <2>1
      <4> QED BY <1>10, <2>1, <4>1, Zenon
    <3>2. Bound(form[k])[j] = bindInt(form[k][j])
      BY <2>1, BoundIs
    <3> QED BY <2>1, <3>1, <3>2
  <2>3. /\ Begin(P, at(k)) + j \in 1..Len(F)
        /\ from[k] + j = size + (Begin(P, at(k)) + j)
    BY <1>11, <1>14, <2>1
  <2> QED BY <1>11, <2>2, <2>3
<1>21. Behind(form, out, size, from)
  BY <1>16, <1>19, <1>20 DEF Behind
<1>22. SliceRight(form, out)
  BY <1>12, <1>13, <1>15, <1>21, SliceParts
<1> QED BY <1>2, <1>22

(* A field has one of the values sent for it, whichever is walked first.   *)
FieldRight(form, field) ==
  LET ks == {k \in DOMAIN form : k.as \in {"dot", "bracket"}} IN
  IF ks = {} THEN field = 0 ELSE \E k \in ks : field = bindInt(Head(form[k]))

LEMMA FieldSound ==
  ASSUME NEW form, FormOK(form), NEW order \in SetToSeqs(DOMAIN form)
  PROVE  FieldRight(form, bindField(form, order))
<1> DEFINE ks == {k \in DOMAIN form : k.as \in {"dot", "bracket"}}
           at == {n \in DOMAIN order : order[n].as \in {"dot", "bracket"}}
<1>1. PICK N \in Nat : /\ order \in [1..N -> DOMAIN form]
                       /\ \A k \in DOMAIN form : \E n \in 1..N : order[n] = k
  BY OrderWalks, Zenon DEF Walk
<1>2. CASE at = {}
  <2>1. ks = {}
    BY <1>1, <1>2
  <2>2. bindField(form, order) = 0
    BY <1>2, Zenon DEF bindField
  <2> QED BY <2>1, <2>2, Zenon DEF FieldRight
<1>3. CASE at # {}
  <2>1. at \subseteq Nat
    BY <1>1
  <2>2. Min(at) \in at
    BY <1>3, <2>1, MinIs
  <2>3. order[Min(at)] \in ks
    BY <1>1, <2>2
  <2>4. bindField(form, order) = bindInt(Head(form[order[Min(at)]]))
    BY <1>3, Zenon DEF bindField
  <2> QED BY <2>3, <2>4, Zenon DEF FieldRight
<1> QED BY <1>2, <1>3

-----------------------------------------------------------------------------
(* What is bound was bound from the form of the request that is served.    *)
BoundOK ==
  /\ FormOK(req.form)
  /\ pc = "idle" => bound = NotBound
  /\ BoundRight

LEMMA NothingBound == NotBound.what \notin {"slice", "field", "int"}
BY DEF NotBound

LEMMA BindStep ==
  ASSUME FormOK(req.form), UNCHANGED req, Bind
  PROVE  BoundRight'
<1> DEFINE v == Query(req.form, [as |-> "plain", at |-> 0])
<1>1. PICK order \in SetToSeqs(DOMAIN req.form), def \in {<<>>, <<0>>} :
        \/ bound' = [what |-> "slice", slice |-> bindSlice(req.form, order)]
        \/ bound' = [what |-> "field", field |-> bindField(req.form, order)]
        \/ bound' = [what |-> "int", int |-> bindInt(v), get |-> GetInt(v, def), def |-> def]
  BY Zenon DEF Bind
<1>2. CASE bound' = [what |-> "slice", slice |-> bindSlice(req.form, order)]
  <2>1. SliceRight(req.form, bindSlice(req.form, order))
    BY SliceSound
  <2>2. bound'.what = "slice" /\ bound'.slice = bindSlice(req.form, order)
    BY <1>2
  <2>3. SliceRight(req'.form, bound'.slice)
    BY <2>1, <2>2
  <2>4. bound'.what \notin {"field", "int"}
    BY <2>2
  <2> QED BY <2>3, <2>4, Zenon DEF BoundRight
<1>3. CASE bound' = [what |-> "field", field |-> bindField(req.form, order)]
  <2>1. FieldRight(req.form, bindField(req.form, order))
    BY FieldSound
  <2>2. bound'.what = "field" /\ bound'.field = bindField(req.form, order)
    BY <1>3
  <2>3. FieldRight(req'.form, bound'.field)
    BY <2>1, <2>2
  <2>4. bound'.what \notin {"slice", "int"}
    BY <2>2
  <2> QED BY <2>3, <2>4, Zenon DEF BoundRight, FieldRight
<1>4. CASE bound' = [what |-> "int", int |-> bindInt(v), get |-> GetInt(v, def), def |-> def]
  <2>1. bound'.what = "int" /\ bound'.int = bindInt(v) /\ bound'.get = GetInt(v, def) /\ bound'.def = def
    BY <1>4
  <2>2. v \in Values
    BY QueryIs
  <2>3. ~bound'.get.err => IF v = Blank THEN bound'.get.val = bound'.def[1]
                           ELSE bound'.get.val = v.n /\ bound'.int = v.n
    <3> HIDE DEF v
    <3>1. \A get : get = GetInt(v, def) /\ ~get.err =>
                     IF v = Blank THEN get.val = def[1] ELSE get.val = v.n /\ bindInt(v) = v.n
      BY <2>2, GetIntRight, Zenon
    <3> QED BY <2>1, <3>1, Zenon
  <2>4. bound'.what \notin {"slice", "field"}
    BY <2>1
  <2>5. v = Query(req'.form, [as |-> "plain", at |-> 0])
    OBVIOUS
  <2> QED BY <2>3, <2>4, <2>5, Zenon DEF BoundRight
<1> QED BY <1>1, <1>2, <1>3, <1>4

LEMMA NextBound ==
  ASSUME BoundOK, [Next]_vars
  PROVE  BoundOK'
<1>1. ASSUME UNCHANGED <<req, bound>>, pc' = "idle" => pc = "idle"
      PROVE  BoundOK'
  BY <1>1 DEF BoundOK, BoundRight
<1>2. ASSUME FormOK(req'.form), bound' = NotBound
      PROVE  BoundOK'
  BY <1>2, NothingBound DEF BoundOK, BoundRight
<1>3. CASE UNCHANGED vars
  BY <1>1, <1>3 DEF vars
<1>4. ASSUME NEW c \in Clients, NEW in \in Inputs, NEW token \in 0..made.tokens, Arrive(c, in, token)
      PROVE  BoundOK'
  <2>1. bound' = NotBound /\ req'.form = in.form
    BY <1>4 DEF Arrive, BoundOK
  <2>2. FormOK(in.form)
    BY InputsAssumption
  <2> QED BY <1>2, <2>1, <2>2
<1>5. CASE ServeStatic \/ InitController \/ BeforeAction \/ ReadFlashData \/ CheckXSRF
  <2>1. UNCHANGED <<req, bound>> /\ pc' # "idle"
    BY <1>5, Zenon DEF ServeStatic, InitController, BeforeAction, ReadFlashData, CheckXSRF
  <2> QED BY <1>1, <2>1
<1>6. CASE Action
  <2>1. pc = "action" /\ UNCHANGED <<pc, req>> /\ ((Operation /\ bound' = NotBound) \/ Bind)
    BY <1>6 DEF Action
  <2>2. CASE bound' = NotBound
    BY <1>2, <2>1, <2>2 DEF BoundOK
  <2>3. CASE Bind
    BY <2>1, <2>3, BindStep DEF BoundOK
  <2> QED BY <2>1, <2>2, <2>3
<1>7. CASE Render
  BY <1>2, <1>7 DEF Render, BoundOK
<1>8. CASE Panic \/ Finish
  BY <1>1, <1>8 DEF Panic, Finish
<1>9. CASE End
  <2>1. req' = NoReq /\ bound' = NotBound
    BY <1>9 DEF End
  <2>2. FormOK(NoReq.form)
    BY FS_EmptySet DEF FormOK, NoReq
  <2> QED BY <1>2, <2>1, <2>2
<1>10. CASE Restart
  BY <1>1, <1>10 DEF Restart
<1> QED BY <1>3, <1>4, <1>5, <1>6, <1>7, <1>8, <1>9, <1>10 DEF Next

(* Whatever form is sent and in whatever order it is walked: every value   *)
(* of a slice is at its index and those of the open keys follow, whole and *)
(* in order; a field has one of the values sent for it; and a number that  *)
(* a getter returns without an error was sent, and is the one Bind gives.  *)
THEOREM SpecBoundRight == Spec => []BoundRight
<1>1. Init => BoundOK
  BY FS_EmptySet, NothingBound DEF Init, BoundOK, BoundRight, FormOK, NoReq
<1>2. BoundOK /\ [Next]_vars => BoundOK'
  BY NextBound
<1>3. BoundOK => BoundRight
  BY DEF BoundOK
<1> QED BY <1>1, <1>2, <1>3, PTL DEF Spec
=============================================================================
