------------------------------ MODULE Session ------------------------------
(***************************************************************************)
(* Sessions of session/ and the session calls of ctrl/controller.go.  A    *)
(* session lives in a cookie: SessionStart decodes it, SetSession writes   *)
(* it back in the response, and nothing is kept at the server.  So what a  *)
(* request finds depends on the cookies of earlier responses, on keys that *)
(* a process may draw at its start, and on time.                           *)
(*                                                                         *)
(* A session is the set of the items in it.  Encryption and signature are  *)
(* taken as perfect: a token is what was put into it, and is readable with *)
(* its key.  The cookie has one name for Manager and provider; session ids *)
(* in headers and in the URL, off by default, are left out.                *)
(*                                                                         *)
(* A route has one controller for all its requests.  Init leaves its       *)
(* Cookie alone and StartSession then keeps it, so that a handler may work *)
(* on the session of an earlier request (kept).  The handlers of a route   *)
(* follow each other here; those of other routes overlap with them.  What  *)
(* handlers of one route do to each other is the subject of Dispatch.      *)
(***************************************************************************)
EXTENDS Integers, FiniteSets

CONSTANTS
  Clients,          \* browsers
  Requests,         \* requests in flight at one time
  Controllers,      \* the registered ones, one to a route
  Items,            \* what applications keep in sessions
  Life,             \* maxlifetime, in ticks
  FixedKeys,        \* blockKey and securityName are in the configuration
  EnableSetCookie,  \* SessionAutoSetCookie
  Excused,          \* reasons for which a session may be lost
  MaxTime,          \* bound: clock
  MaxKeys,          \* bound: processes one after the other
  None, Gone        \* model values: no cookie, a deleted cookie

ASSUME SessionAssumption ==
  /\ Life \in Nat /\ MaxTime \in Nat /\ MaxKeys \in Nat \ {0}
  /\ FixedKeys \in BOOLEAN /\ EnableSetCookie \in BOOLEAN
  /\ None \notin Items /\ None # Gone
  /\ {None, Gone} \cap [key : Nat, time : Nat, items : SUBSET Items] = {}
  /\ None \notin [values : SUBSET (Items \cup {None}), ended : BOOLEAN]

VARIABLES
  now,   \* the clock
  key,   \* the running process, and the keys it drew
  jar,   \* the session cookie of each client
  kept,  \* Cookie of each controller between two of its requests
  req,   \* the requests
  mem,   \* history: what each client's session should hold
  last,  \* history: when it was last saved
  doubt  \* history: an excused reason why it may not

(* A nil map, unlike every session. *)
Nil == {None}

vars == <<now, key, jar, kept, req, mem, last, doubt>>

Idle == [pc |-> "idle", client |-> None, cookie |-> None, key |-> 0, route |-> None,
         values |-> {}, input |-> FALSE, ctl |-> FALSE, kept |-> None, out |-> None,
         head |-> FALSE, unsaved |-> FALSE, ended |-> FALSE]

(* Of a request: cookie is the one it came with, values the map of its     *)
(* session object.  Input.Cookie (input) is nil or that object; Cookie of  *)
(* the controller is that object (ctl), or the one of an earlier request   *)
(* (kept, if not None), or nil: StartSession copies the pointer where      *)
(* there is none, and SessionRegenerateID sets both.  out is the last      *)
(* Set-Cookie, head says that the header is on its way.  unsaved and ended *)
(* are history: a change was not written back, the session was destroyed   *)
(* or regenerated.                                                         *)
InFlight(r) == req[r].pc # "idle"
Others(r)   == {s \in Requests \ {r} : InFlight(s) /\ req[s].client = req[r].client}
Running(r)  == req[r].pc = "handler"

Blame(c, reasons) == doubt' = [doubt EXCEPT ![c] = @ \/ reasons \cap Excused # {}]

-----------------------------------------------------------------------------
(* encodeCookie: the values under a key, with the time. *)
Encode(k, items) == [key |-> k, time |-> now, items |-> items]

(* A cookie of an earlier process has the right keys only if they are      *)
(* configured.                                                             *)
RightKey(k) == FixedKeys \/ k = key

(* Faulty: the time is not looked at. *)
ValidForever(t) == RightKey(t.key)

(* decodeCookie: right key, and within the lifetime. *)
Valid(t) == RightKey(t.key) /\ now - t.time <= Life

(* Faulty: a cookie that cannot be decoded leaves a nil map. *)
ReadNil(t) == IF Valid(t) THEN t.items ELSE Nil

(* SessionRead: a cookie that cannot be decoded gives an empty session. *)
SessionRead(t) == IF Valid(t) THEN t.items ELSE {}

-----------------------------------------------------------------------------
Send(r, c) ==
  /\ ~InFlight(r)
  /\ req' = [req EXCEPT ![r] = [Idle EXCEPT !.pc = "sent", !.client = c, !.cookie = jar[c]]]
  /\ Blame(c, IF \E s \in Requests : InFlight(s) /\ req[s].client = c THEN {"race"} ELSE {})
  /\ UNCHANGED <<now, key, jar, kept, mem, last>>

(* The controller has no handler that runs. *)
Free(k) == \A s \in Requests : Running(s) /\ req[s].key = key => req[s].route # k

(* SessionStart: the session of the cookie, or a new one and its cookie.   *)
(* Init of the controller keeps the object it has.  A client's only        *)
(* request begins what its session should hold anew.                       *)
SessionStart(r, k) ==
  LET c   == req[r].client
      new == req[r].cookie = None
      sid == IF new THEN Encode(key, {}) ELSE req[r].cookie
      got == SessionRead(sid)
  IN /\ req[r].pc = "sent" /\ Free(k)
     /\ req' = [req EXCEPT ![r] =
          [@ EXCEPT !.pc = "handler", !.cookie = None, !.key = key, !.route = k,
                    !.values = got, !.input = TRUE, !.kept = kept[k],
                    !.out = IF new /\ EnableSetCookie THEN sid ELSE None]]
     /\ IF Others(r) = {} /\ jar[c] = req[r].cookie
        THEN /\ mem' = [mem EXCEPT ![c] = got]
             /\ last' = [last EXCEPT ![c] = sid.time]
             /\ doubt' = [doubt EXCEPT ![c] = FALSE]
        ELSE UNCHANGED <<mem, last, doubt>>
     /\ UNCHANGED <<now, key, jar, kept>>

(* What a handler leaves in its controller, if the process is still there  *)
(* to have another request of the route.  ended, of an object without a    *)
(* map: history, its request has regenerated the session.                  *)
Own(q)   == [values |-> q.values, ended |-> q.ended /\ q.values = Nil]
Leave(r) == kept' = IF req[r].key = key
                    THEN [kept EXCEPT ![req[r].route] = IF req[r].ctl THEN Own(req[r]) ELSE req[r].kept]
                    ELSE kept

(* A nil pointer or map: the handler panics, net/http closes the           *)
(* connection.                                                             *)
EndedBefore(q) == q.kept # None /\ q.kept.ended

Panic(r) ==
  /\ req' = [req EXCEPT ![r] =
       [Idle EXCEPT !.pc = "panicked", !.client = req[r].client,
                    !.ended = req[r].ended \/ EndedBefore(req[r])]]
  /\ Leave(r)
  /\ UNCHANGED <<mem, last, doubt>>

(* StartSession, with which every session call of the controller begins,   *)
(* and the values of the object it returns.                                *)
HasSession(r) == req[r].kept # None \/ req[r].ctl \/ req[r].input
Object(q)     == IF q.kept = None THEN q.values ELSE q.kept.values
With(q, values) ==
  IF q.kept = None THEN [q EXCEPT !.values = values, !.ctl = TRUE]
  ELSE [q EXCEPT !.kept = [values |-> values, ended |-> @.ended /\ values = Nil]]

StartSession(r) ==
  /\ Running(r)
  /\ req' = [req EXCEPT ![r].ctl = req[r].kept = None /\ HasSession(r)]
  /\ UNCHANGED <<now, key, jar, kept, mem, last, doubt>>

GetSession(r) ==
  /\ Running(r)
  /\ IF HasSession(r)
     THEN req' = [req EXCEPT ![r].ctl = req[r].kept = None] /\ UNCHANGED <<kept, mem, last, doubt>>
     ELSE Panic(r)
  /\ UNCHANGED <<now, key, jar>>

(* http.SetCookie: too late once the header is on its way. *)
SetCookie(q, t) == IF q.head THEN q ELSE [q EXCEPT !.out = t]
Late(r) == IF req[r].head THEN {"late"} ELSE {}

(* The controller's object is of an earlier request, and is not what the   *)
(* session of the client should be.                                        *)
Stale(r) == IF req[r].kept # None /\ req[r].kept.values # mem[req[r].client] THEN {"kept"} ELSE {}

(* Save: the values of the session into the response. *)
Save(q) == [SetCookie(q, Encode(q.key, Object(q))) EXCEPT !.unsaved = FALSE]

(* Faulty: the cookie is made before the value is set. *)
SetThenSaveOld(q, i) == With(Save(q), Object(q) \cup {i})

SetThenSave(q, i) == Save(With(q, Object(q) \cup {i}))

SetSession(r, i) ==
  LET c == req[r].client IN
  /\ Running(r)
  /\ IF ~HasSession(r) \/ Object(req[r]) = Nil THEN Panic(r)
     ELSE /\ req' = [req EXCEPT ![r] = SetThenSave(@, i)]
          /\ mem' = [mem EXCEPT ![c] = @ \cup {i}]
          /\ last' = [last EXCEPT ![c] = now]
          /\ Blame(c, Late(r) \cup Stale(r))
          /\ UNCHANGED kept
  /\ UNCHANGED <<now, key, jar>>

(* DelSession and FlushSession change the session and do not save it. *)
Change(r, values) ==
  /\ req' = [req EXCEPT ![r] =
       [With(req[r], values) EXCEPT
          !.unsaved = req[r].unsaved \/ Object(req[r]) \notin {Nil, values}]]
  /\ Blame(req[r].client, Stale(r))
  /\ UNCHANGED <<kept, last>>

DelSession(r, i) ==
  /\ Running(r)
  /\ IF ~HasSession(r) THEN Panic(r)
     ELSE /\ Change(r, IF Object(req[r]) = Nil THEN Nil ELSE Object(req[r]) \ {i})
          /\ mem' = [mem EXCEPT ![req[r].client] = @ \ {i}]
  /\ UNCHANGED <<now, key, jar>>

FlushSession(r) ==
  /\ Running(r)
  /\ IF ~HasSession(r) THEN Panic(r)
     ELSE /\ Change(r, {})
          /\ mem' = [mem EXCEPT ![req[r].client] = {}]
  /\ UNCHANGED <<now, key, jar>>

(* SessionRegenerateID: a cookie of an empty session, and an object whose  *)
(* map was never made.                                                     *)
SessionRegenerateID(r) ==
  LET q == [req[r] EXCEPT !.input = TRUE, !.ctl = TRUE, !.kept = None, !.values = Nil,
                          !.ended = TRUE] IN
  /\ Running(r)
  /\ req' = [req EXCEPT ![r] =
       IF EnableSetCookie THEN SetCookie(q, Encode(q.key, {})) ELSE q]
  /\ Blame(req[r].client, {"regenerated"} \cup Late(r))
  /\ UNCHANGED <<now, key, jar, kept, mem, last>>

(* DestroySession empties the request's object, which the controller may   *)
(* still hold, and deletes the cookie.                                     *)
DestroySession(r) ==
  LET c == req[r].client
      q == [req[r] EXCEPT !.input = FALSE, !.values = {}, !.ended = TRUE,
                          !.unsaved = ~EnableSetCookie]
  IN /\ Running(r)
     /\ IF ~req[r].input THEN Panic(r)
        ELSE /\ req' = [req EXCEPT ![r] = IF EnableSetCookie THEN SetCookie(q, Gone) ELSE q]
             /\ mem' = [mem EXCEPT ![c] = {}]
             /\ Blame(c, Late(r))
             /\ UNCHANGED <<kept, last>>
     /\ UNCHANGED <<now, key, jar>>

(* The first byte of the body sends the header. *)
Write(r) ==
  /\ Running(r)
  /\ req' = [req EXCEPT ![r].head = TRUE]
  /\ UNCHANGED <<now, key, jar, kept, mem, last, doubt>>

Finish(r) ==
  /\ Running(r)
  /\ req' = [req EXCEPT ![r] =
       [Idle EXCEPT !.pc = "replied", !.client = req[r].client, !.out = req[r].out]]
  /\ Leave(r)
  /\ Blame(req[r].client, IF req[r].unsaved THEN {"unsaved"} ELSE {})
  /\ UNCHANGED <<now, key, jar, mem, last>>

-----------------------------------------------------------------------------
(* The browser keeps the last cookie it was sent, in the order in which    *)
(* responses arrive; responses are lost, cookies expire.                   *)
Deliver(r) ==
  LET out == req[r].out IN
  /\ req[r].pc = "replied"
  /\ jar' = [jar EXCEPT ![req[r].client] =
       CASE out = None -> @ [] out = Gone -> None [] OTHER -> out]
  /\ req' = [req EXCEPT ![r] = Idle]
  /\ UNCHANGED <<now, key, kept, mem, last, doubt>>

(* A handler ends by itself, unless its process does. *)
Lose(r) ==
  /\ InFlight(r) /\ (Running(r) => req[r].key # key)
  /\ req' = [req EXCEPT ![r] = Idle]
  /\ Blame(req[r].client, {"lost"})
  /\ UNCHANGED <<now, key, jar, kept, mem, last>>

Forget(c) ==
  /\ jar[c] # None
  /\ jar' = [jar EXCEPT ![c] = None]
  /\ Blame(c, {"lost"})
  /\ UNCHANGED <<now, key, kept, req, mem, last>>

(* A new process has new controllers, and draws new keys unless they are   *)
(* configured; requests of the old one may go on, with the old ones.       *)
Restart ==
  /\ key < MaxKeys
  /\ key' = key + 1
  /\ kept' = [k \in Controllers |-> None]
  /\ doubt' = [c \in Clients |-> doubt[c] \/ (~FixedKeys /\ "restart" \in Excused)]
  /\ UNCHANGED <<now, jar, req, mem, last>>

Tick ==
  /\ now < MaxTime
  /\ now' = now + 1
  /\ UNCHANGED <<key, jar, kept, req, mem, last, doubt>>

Init ==
  /\ now = 0
  /\ key = 1
  /\ jar = [c \in Clients |-> None]
  /\ kept = [k \in Controllers |-> None]
  /\ req = [r \in Requests |-> Idle]
  /\ mem = [c \in Clients |-> {}]
  /\ last = [c \in Clients |-> 0]
  /\ doubt = [c \in Clients |-> FALSE]

Next ==
  \/ \E r \in Requests :
       \/ \E c \in Clients : Send(r, c)
       \/ \E k \in Controllers : SessionStart(r, k)
       \/ StartSession(r) \/ GetSession(r)
       \/ \E i \in Items : SetSession(r, i) \/ DelSession(r, i)
       \/ FlushSession(r) \/ SessionRegenerateID(r) \/ DestroySession(r)
       \/ Write(r) \/ Finish(r) \/ Deliver(r) \/ Lose(r)
  \/ \E c \in Clients : Forget(c)
  \/ Restart \/ Tick

Spec == Init /\ [][Next]_vars

-----------------------------------------------------------------------------
(* Tokens and requests under k keys, up to time n, and objects. *)
Objects       == [values : (SUBSET Items) \cup {Nil}, ended : BOOLEAN]
Tokens(k, n)  == [key : 1..k, time : 0..n, items : SUBSET Items]
Records(k, n) ==
  [pc : {"idle", "sent", "handler", "replied", "panicked"}, client : Clients \cup {None},
   cookie : Tokens(k, n) \cup {None}, key : 0..k, route : Controllers \cup {None},
   values : (SUBSET Items) \cup {Nil}, input : BOOLEAN, ctl : BOOLEAN,
   kept : Objects \cup {None}, out : Tokens(k, n) \cup {None, Gone}, head : BOOLEAN,
   unsaved : BOOLEAN, ended : BOOLEAN]

TypeOK ==
  /\ now \in 0..MaxTime /\ key \in 1..MaxKeys
  /\ jar \in [Clients -> Tokens(key, now) \cup {None}]
  /\ kept \in [Controllers -> Objects \cup {None}]
  /\ req \in [Requests -> Records(key, now)]
  /\ \A r \in Requests :
       IF InFlight(r) THEN req[r].client \in Clients ELSE req[r] = Idle
  /\ \A r \in Requests : Running(r) =>
       req[r].key # 0 /\ req[r].route \in Controllers /\ (req[r].ctl => req[r].kept = None)
  /\ mem \in [Clients -> SUBSET Items]
  /\ last \in [Clients -> 0..now]
  /\ doubt \in [Clients -> BOOLEAN]

Starts(r) == req[r].pc = "sent" /\ req'[r].pc = "handler"

(* What requests leave in a session is what the client's next request      *)
(* finds, within the lifetime of the last save, unless something excuses   *)
(* it: requests at the same time, a cookie set after the header went, a    *)
(* deletion that was not saved, a regenerated id, a lost response or       *)
(* cookie, keys that a new process drew, or a change made to another       *)
(* session, of an earlier request, which the controller kept.  What a      *)
(* request finds is what SessionStart gives it; the controller may show it *)
(* the kept one.  The handlers of a route are taken to follow each other.  *)
Carried ==
  [][\A r \in Requests :
       LET c == req[r].client IN
       Starts(r) /\ ~doubt[c] /\ now - last[c] <= Life => req'[r].values = mem[c]]_vars

(* No request finds anything in a session whose last save is longer ago    *)
(* than the lifetime, whatever was lost or overlapped.                     *)
Expires ==
  [][\A r \in Requests :
       Starts(r) /\ now - last[req[r].client] > Life => req'[r].values = {}]_vars

(* No session call panics, except in a request that has destroyed or       *)
(* regenerated its session, or whose controller kept the session of one    *)
(* that had and nobody has flushed it since.  The handlers of a route are  *)
(* taken to follow each other.                                             *)
PanicsOnlyAfterEnd == \A r \in Requests : req[r].pc = "panicked" => req[r].ended
=============================================================================
