-------------------------- MODULE Session_proofs ---------------------------
(***************************************************************************)
(* Proofs about Session, for every number of clients, requests, items,     *)
(* processes and ticks: first what makes the calls safe and the lifetime   *)
(* hold (Inv), then what becomes of a session between requests (CarryInv). *)
(***************************************************************************)
EXTENDS Session, TLAPS

USE SessionAssumption DEF SessionAssumption

-----------------------------------------------------------------------------
(* Types. *)
LEMMA RecordsGrow ==
  ASSUME NEW k \in Nat, NEW n \in Nat, NEW k2 \in Nat, NEW n2 \in Nat, k <= k2, n <= n2
  PROVE  Tokens(k, n) \subseteq Tokens(k2, n2) /\ Records(k, n) \subseteq Records(k2, n2)
<1>1. Tokens(k, n) \subseteq Tokens(k2, n2)
  BY DEF Tokens
<1>2. 0..k \subseteq 0..k2
  OBVIOUS
<1> QED BY <1>1, <1>2 DEF Records

LEMMA TokenTypes ==
  ASSUME NEW k \in Nat, NEW n \in Nat, NEW t \in Tokens(k, n)
  PROVE  /\ t # None /\ t # Gone
         /\ t.key \in 1..k /\ t.time \in 0..n /\ t.items \in SUBSET Items
<1>1. t \in [key : Nat, time : Nat, items : SUBSET Items]
  BY DEF Tokens
<1> QED BY <1>1 DEF Tokens

LEMMA EncodeTypes ==
  ASSUME now \in Nat, key \in Nat, NEW k \in 1..key, NEW items \in SUBSET Items
  PROVE  Encode(k, items) \in Tokens(key, now)
BY DEF Encode, Tokens

LEMMA IdleTypes ==
  ASSUME NEW k \in Nat, NEW n \in Nat
  PROVE  Idle \in Records(k, n)
BY DEF Idle, Records

(* What a session call makes of a request is a request again. *)
LEMMA CallTypes ==
  ASSUME now \in Nat, key \in Nat, NEW q \in Records(key, now), NEW t \in Tokens(key, now) \cup {Gone}
  PROVE  SetCookie(q, t) \in Records(key, now)
BY DEF SetCookie, Records

LEMMA SaveTypes ==
  ASSUME now \in Nat, key \in Nat, NEW q \in Records(key, now), q.key # 0, Object(q) \in SUBSET Items
  PROVE  Save(q) \in Records(key, now)
<1>1. q.key \in 1..key
  BY DEF Records
<1>2. Encode(q.key, Object(q)) \in Tokens(key, now)
  BY <1>1, EncodeTypes
<1> DEFINE p == SetCookie(q, Encode(q.key, Object(q)))
<1>3. p \in Records(key, now) /\ Save(q) = [p EXCEPT !.unsaved = FALSE]
  BY <1>2, CallTypes DEF Save
<1> HIDE DEF p
<1> QED BY <1>3 DEF Records

LEMMA NilNotSession == Nil \notin SUBSET Items
BY DEF Nil

LEMMA ObjectsTypes == \A o \in Objects : o # None
BY DEF Objects, Nil

(* The object of the controller gets other values, and nothing else        *)
(* changes but the pointer to it.                                          *)
LEMMA WithIs ==
  ASSUME NEW k \in Nat, NEW n \in Nat, NEW q \in Records(k, n),
         NEW values \in (SUBSET Items) \cup {Nil}, NEW p, p = With(q, values)
  PROVE  /\ p \in Records(k, n) /\ Object(p) = values
         /\ \A f \in {"pc", "client", "cookie", "key", "route", "out", "head", "ended", "input",
                       "unsaved"} : p[f] = q[f]
         /\ q.kept = None => p.values = values /\ p.kept = None
         /\ q.kept # None => /\ p.values = q.values /\ p.ctl = q.ctl
                             /\ p.kept # None /\ p.kept.values = values
                             /\ p.kept.ended = (q.kept.ended /\ values = Nil)
<1>1. CASE q.kept = None
  <2>1. p = [q EXCEPT !.values = values, !.ctl = TRUE]
    BY <1>1 DEF With
  <2>2. p \in Records(k, n)
    BY <2>1 DEF Records
  <2> QED BY <1>1, <2>1, <2>2 DEF Object, Records
<1>2. CASE q.kept # None
  <2> DEFINE o == [values |-> values, ended |-> q.kept.ended /\ values = Nil]
  <2>1. p = [q EXCEPT !.kept = o]
    BY <1>2 DEF With
  <2>2. o \in Objects /\ o # None /\ o.values = values /\ o.ended = (q.kept.ended /\ values = Nil)
    <3>1. q.kept \in Objects
      BY <1>2 DEF Records
    <3>2. o \in Objects
      BY <3>1 DEF Objects
    <3> QED BY <3>2, ObjectsTypes
  <2> HIDE DEF o
  <2>3. p \in Records(k, n)
    BY <2>1, <2>2 DEF Records
  <2> QED BY <1>2, <2>1, <2>2, <2>3 DEF Object, Records
<1> QED BY <1>1, <1>2

LEMMA ReadTypes ==
  ASSUME now \in Nat, key \in Nat, NEW t \in Tokens(key, now)
  PROVE  SessionRead(t) \in SUBSET Items
BY TokenTypes DEF SessionRead

LEMMA BlameTypes ==
  ASSUME doubt \in [Clients -> BOOLEAN], NEW c \in Clients, NEW reasons, Blame(c, reasons)
  PROVE  doubt' \in [Clients -> BOOLEAN]
BY DEF Blame

-----------------------------------------------------------------------------
(* The invariant.  A request whose session was neither destroyed nor       *)
(* regenerated has one that can be read and written; a controller that     *)
(* keeps a session without a map keeps that of a request which regenerated *)
(* it; and a cookie with something in it was made no later than its        *)
(* client's last save, wherever the cookie is.                             *)
Explained(o) == o # None /\ o.values = Nil => o.ended

Handler(q) ==
  /\ q.key # 0 /\ q.route \in Controllers
  /\ q.ctl => q.kept = None
  /\ Explained(q.kept)
  /\ q.ended \/ (q.input /\ q.values # Nil)

Sound(q) ==
  /\ q \in Records(key, now)
  /\ q.pc = "idle" => q = Idle
  /\ q.pc # "idle" => q.client \in Clients
  /\ q.pc = "sent" => ~q.ctl
  /\ q.pc = "handler" => Handler(q)
  /\ q.pc = "panicked" => q.ended

Dated(t, n) == t \in {None, Gone} \/ t.items = {} \/ t.time <= n

DatedRequest(q) ==
  q.pc # "idle" => Dated(q.cookie, last[q.client]) /\ Dated(q.out, last[q.client])

KeptWell(f) == f \in [Controllers -> Objects \cup {None}] /\ \A k \in Controllers : Explained(f[k])

Inv ==
  /\ now \in 0..MaxTime /\ key \in 1..MaxKeys
  /\ jar \in [Clients -> Tokens(key, now) \cup {None}]
  /\ KeptWell(kept)
  /\ req \in [Requests -> Records(key, now)]
  /\ \A r \in Requests : Sound(req[r]) /\ DatedRequest(req[r])
  /\ \A c \in Clients : Dated(jar[c], last[c])
  /\ mem \in [Clients -> SUBSET Items]
  /\ last \in [Clients -> 0..now]
  /\ doubt \in [Clients -> BOOLEAN]

LEMMA InvImplies == Inv => TypeOK /\ PanicsOnlyAfterEnd
<1>1. ASSUME Inv, NEW r \in Requests, Running(r)
      PROVE  req[r].key # 0 /\ req[r].route \in Controllers /\ (req[r].ctl => req[r].kept = None)
  BY <1>1 DEF Inv, Sound, Handler, Running
<1> QED BY <1>1 DEF Inv, TypeOK, PanicsOnlyAfterEnd, Sound, InFlight, KeptWell

LEMMA DatedGrows ==
  ASSUME now \in Nat, key \in Nat, NEW t \in Tokens(key, now) \cup {None, Gone},
         NEW m \in Nat, NEW n \in Nat, m <= n, Dated(t, m)
  PROVE  Dated(t, n)
<1>1. CASE t \in {None, Gone}
  BY <1>1 DEF Dated
<1>2. CASE t \in Tokens(key, now)
  <2>1. t.time \in Nat
    BY <1>2, TokenTypes
  <2> QED BY <1>2, <2>1 DEF Dated
<1> QED BY <1>1, <1>2

(* What the invariant says of a request whose handler runs. *)
LEMMA HandlerFacts ==
  ASSUME Inv, NEW r \in Requests, Running(r)
  PROVE  /\ req[r] \in Records(key, now) /\ req[r].client \in Clients
         /\ req[r].pc = "handler" /\ req[r].key \in 1..key
         /\ Sound(req[r]) /\ DatedRequest(req[r]) /\ Handler(req[r])
         /\ HasSession(r) \in BOOLEAN
         /\ Object(req[r]) \in (SUBSET Items) \cup {Nil}
         /\ Object(req[r]) = Nil \/ ~HasSession(r) => req[r].ended \/ EndedBefore(req[r])
<1>1. /\ req[r] \in Records(key, now) /\ Sound(req[r]) /\ DatedRequest(req[r])
      /\ req[r].pc = "handler"
  BY DEF Inv, Running
<1>2. Handler(req[r]) /\ req[r].client \in Clients /\ req[r].key \in 1..key
  BY <1>1 DEF Sound, Handler, Records, Inv
<1>3. /\ HasSession(r) \in BOOLEAN /\ req[r].kept \in Objects \cup {None}
      /\ req[r].values \in (SUBSET Items) \cup {Nil}
  BY <1>1 DEF Records, HasSession
<1>4. Object(req[r]) \in (SUBSET Items) \cup {Nil}
  BY <1>3 DEF Object, Objects
<1>5. Object(req[r]) = Nil \/ ~HasSession(r) => req[r].ended \/ EndedBefore(req[r])
  BY <1>2 DEF Object, HasSession, EndedBefore, Handler, Explained
<1> QED BY <1>1, <1>2, <1>3, <1>4, <1>5

(* What a handler leaves in its controller. *)
LEMMA LeaveWell ==
  ASSUME Inv, NEW r \in Requests, Running(r), Leave(r)
  PROVE  KeptWell(kept')
<1> DEFINE o == IF req[r].ctl THEN Own(req[r]) ELSE req[r].kept
<1>1. Handler(req[r]) /\ req[r] \in Records(key, now) /\ KeptWell(kept)
  BY HandlerFacts DEF Inv
<1>2. Own(req[r]) \in Objects /\ Explained(Own(req[r]))
  BY <1>1 DEF Own, Objects, Records, Explained, Handler
<1>3. o \in Objects \cup {None} /\ Explained(o)
  BY <1>1, <1>2 DEF Records, Handler
<1>4. kept' = kept \/ kept' = [kept EXCEPT ![req[r].route] = o]
  BY DEF Leave
<1> HIDE DEF o
<1> QED BY <1>1, <1>3, <1>4 DEF KeptWell

(* A step of a handler, or its end: one request becomes q, and saves only  *)
(* get later.                                                              *)
LEMMA HandlerStep ==
  ASSUME Inv, NEW r \in Requests, Running(r), UNCHANGED <<now, key, jar>>,
         NEW q, req' = [req EXCEPT ![r] = q],
         Sound(q), q.client = req[r].client, q.cookie \in {None, req[r].cookie},
         Dated(q.out, last'[q.client]),
         KeptWell(kept'), mem' \in [Clients -> SUBSET Items],
         last' \in [Clients -> 0..now], \A c \in Clients : last[c] <= last'[c],
         doubt' \in [Clients -> BOOLEAN]
  PROVE  Inv'
<1>1. now \in Nat /\ key \in Nat /\ \A c \in Clients : last[c] \in Nat /\ last'[c] \in Nat
  BY DEF Inv
<1>2. \A c \in Clients : Dated(jar[c], last'[c])
  BY <1>1, DatedGrows DEF Inv
<1>3. ASSUME NEW s \in Requests, req[s].pc # "idle"
      PROVE  /\ Dated(req[s].cookie, last'[req[s].client])
             /\ Dated(req[s].out, last'[req[s].client])
  <2>1. /\ req[s].client \in Clients /\ DatedRequest(req[s])
        /\ req[s].cookie \in Tokens(key, now) \cup {None, Gone}
        /\ req[s].out \in Tokens(key, now) \cup {None, Gone}
    BY <1>3 DEF Inv, Sound, Records
  <2> QED BY <1>1, <1>3, <2>1, DatedGrows DEF DatedRequest
<1>4. ASSUME NEW s \in Requests, req'[s].pc # "idle"
      PROVE  /\ Dated(req'[s].cookie, last'[req'[s].client])
             /\ Dated(req'[s].out, last'[req'[s].client])
  <2>1. CASE s = r
    BY <1>3, <2>1 DEF Inv, Running, Dated
  <2>2. CASE s # r
    BY <1>3, <1>4, <2>2 DEF Inv
  <2> QED BY <2>1, <2>2
<1>5. \A s \in Requests : DatedRequest(req[s])'
  BY <1>4 DEF DatedRequest, Dated
<1>6. req' \in [Requests -> Records(key, now)]
  BY DEF Inv, Sound
<1>7. \A s \in Requests : Sound(req[s])'
  BY DEF Inv, Sound, Handler, Explained
<1>8. \A c \in Clients : Dated(jar[c], last[c])'
  BY <1>2 DEF Dated
<1>9. KeptWell(kept)'
  BY DEF KeptWell, Explained
<1> QED BY <1>5, <1>6, <1>7, <1>8, <1>9 DEF Inv

-----------------------------------------------------------------------------
(* One lemma per action of a handler. *)
LEMMA PanicStep ==
  ASSUME Inv, NEW r \in Requests, Running(r), req[r].ended \/ EndedBefore(req[r]), Panic(r),
         UNCHANGED <<now, key, jar>>
  PROVE  Inv'
<1> DEFINE q == [Idle EXCEPT !.pc = "panicked", !.client = req[r].client,
                             !.ended = req[r].ended \/ EndedBefore(req[r])]
<1>1. req[r].client \in Clients /\ KeptWell(kept')
  BY HandlerFacts, LeaveWell DEF Panic
<1>2. Idle \in Records(key, now)
  BY IdleTypes DEF Inv
<1>3. q \in Records(key, now)
  BY <1>1, <1>2 DEF Records
<1>4. /\ q.pc = "panicked" /\ q.client = req[r].client /\ q.cookie = None
      /\ q.out = None /\ q.ended
  BY DEF Idle
<1>5. Sound(q)
  BY <1>1, <1>3, <1>4 DEF Sound
<1>6. /\ req' = [req EXCEPT ![r] = q] /\ UNCHANGED <<mem, last, doubt>>
  BY DEF Panic
<1>7. \A c \in Clients : last[c] <= last'[c]
  BY <1>6 DEF Inv
<1> HIDE DEF q
<1> QED
  BY <1>1, <1>4, <1>5, <1>6, <1>7, HandlerStep DEF Dated, Inv

(* A session call that goes well: the handler stays, with the same key. *)
LEMMA CallStep ==
  ASSUME Inv, NEW r \in Requests, Running(r), UNCHANGED <<now, key, jar, kept>>,
         NEW q \in Records(key, now), req' = [req EXCEPT ![r] = q],
         q.pc = "handler", q.client = req[r].client, q.cookie = req[r].cookie, Handler(q),
         q.out = req[r].out \/ Dated(q.out, last'[q.client]),
         mem' \in [Clients -> SUBSET Items],
         last' \in [Clients -> 0..now], \A c \in Clients : last[c] <= last'[c],
         doubt' \in [Clients -> BOOLEAN]
  PROVE  Inv'
<1>1. /\ req[r].client \in Clients /\ req[r].key \in 1..key /\ req[r].pc = "handler"
      /\ req[r] \in Records(key, now) /\ DatedRequest(req[r])
  BY HandlerFacts
<1>2. Sound(q) /\ KeptWell(kept')
  BY <1>1 DEF Sound, Inv
<1>3. req[r].out \in Tokens(key, now) \cup {None, Gone} /\ Dated(req[r].out, last[q.client])
  BY <1>1 DEF Records, DatedRequest
<1>4. Dated(q.out, last'[q.client])
  <2>1. now \in Nat /\ key \in Nat /\ last[q.client] \in Nat /\ last'[q.client] \in Nat
    BY <1>1 DEF Inv
  <2> QED BY <1>1, <1>3, <2>1, DatedGrows
<1> QED BY <1>2, <1>4, HandlerStep

SameButCtl(q, p) ==
  \A f \in {"client", "cookie", "key", "route", "kept", "ended", "input", "values", "out"} :
    q[f] = p[f]

LEMMA StartSessionStep ==
  ASSUME Inv, NEW r \in Requests, StartSession(r)
  PROVE  Inv'
<1> DEFINE b == req[r].kept = None /\ HasSession(r)
           q == [req[r] EXCEPT !.ctl = b]
<1>1. /\ Running(r) /\ req' = [req EXCEPT ![r] = q]
      /\ UNCHANGED <<now, key, jar, kept, mem, last, doubt>>
  BY DEF StartSession
<1>2. /\ req[r] \in Records(key, now) /\ req[r].pc = "handler" /\ Handler(req[r])
      /\ b \in BOOLEAN /\ (b => req[r].kept = None)
  BY <1>1, HandlerFacts
<1> HIDE DEF b
<1>3. q \in Records(key, now) /\ q.pc = "handler" /\ SameButCtl(q, req[r]) /\ q.ctl = b
  BY <1>2 DEF Records, SameButCtl
<1>4. \A c \in Clients : last[c] <= last'[c]
  BY <1>1 DEF Inv
<1> HIDE DEF q
<1>5. Handler(q)
  BY <1>2, <1>3 DEF Handler, SameButCtl
<1> QED BY <1>1, <1>2, <1>3, <1>4, <1>5, CallStep DEF Inv, SameButCtl

LEMMA GetSessionStep ==
  ASSUME Inv, NEW r \in Requests, GetSession(r)
  PROVE  Inv'
<1>1. Running(r) /\ UNCHANGED <<now, key, jar>>
  BY DEF GetSession
<1>2. /\ req[r] \in Records(key, now) /\ req[r].pc = "handler" /\ Handler(req[r])
      /\ ~HasSession(r) => req[r].ended \/ EndedBefore(req[r])
  BY <1>1, HandlerFacts
<1>3. CASE ~HasSession(r)
  BY <1>1, <1>2, <1>3, PanicStep DEF GetSession
<1>4. CASE HasSession(r)
  <2> DEFINE b == req[r].kept = None
             q == [req[r] EXCEPT !.ctl = b]
  <2>1. req' = [req EXCEPT ![r] = q] /\ UNCHANGED <<kept, mem, last, doubt>>
    BY <1>4 DEF GetSession
  <2>2. b \in BOOLEAN /\ (b => req[r].kept = None)
    OBVIOUS
  <2> HIDE DEF b
  <2>3. q \in Records(key, now) /\ q.pc = "handler" /\ SameButCtl(q, req[r]) /\ q.ctl = b
    BY <1>2, <2>2 DEF Records, SameButCtl
  <2>4. \A c \in Clients : last[c] <= last'[c]
    BY <2>1 DEF Inv
  <2> HIDE DEF q
  <2>5. Handler(q)
    BY <1>2, <2>2, <2>3 DEF Handler, SameButCtl
  <2> QED BY <1>1, <1>2, <2>1, <2>3, <2>4, <2>5, CallStep DEF Inv, SameButCtl
<1> QED BY <1>3, <1>4

LEMMA WriteStep ==
  ASSUME Inv, NEW r \in Requests, Write(r)
  PROVE  Inv'
<1> DEFINE q == [req[r] EXCEPT !.head = TRUE]
<1>1. /\ Running(r) /\ req' = [req EXCEPT ![r] = q]
      /\ UNCHANGED <<now, key, jar, kept, mem, last, doubt>>
  BY DEF Write
<1>2. req[r] \in Records(key, now) /\ req[r].pc = "handler" /\ Handler(req[r])
  BY <1>1, HandlerFacts
<1>3. q \in Records(key, now) /\ q.pc = "handler" /\ SameButCtl(q, req[r]) /\ q.ctl = req[r].ctl
  BY <1>2 DEF Records, SameButCtl
<1>4. \A c \in Clients : last[c] <= last'[c]
  BY <1>1 DEF Inv
<1> HIDE DEF q
<1>5. Handler(q)
  BY <1>2, <1>3 DEF Handler, SameButCtl
<1> QED BY <1>1, <1>2, <1>3, <1>4, <1>5, CallStep DEF Inv, SameButCtl

LEMMA WithHandler ==
  ASSUME Inv, NEW q \in Records(key, now), Handler(q), NEW values \in (SUBSET Items) \cup {Nil},
         values = Nil => Object(q) = Nil
  PROVE  Handler(With(q, values))
<1> DEFINE p == With(q, values)
<1>1. /\ \A f \in {"key", "route", "ended", "input"} : p[f] = q[f]
      /\ q.kept = None => p.values = values /\ p.kept = None
      /\ q.kept # None => /\ p.values = q.values /\ p.ctl = q.ctl
                          /\ p.kept # None /\ p.kept.values = values
                          /\ p.kept.ended = (q.kept.ended /\ values = Nil)
  BY WithIs DEF Inv
<1> SUFFICES Handler(p)
  OBVIOUS
<1> HIDE DEF p
<1>2. CASE q.kept = None
  <2>1. p.values = Nil => q.values = Nil
    BY <1>1, <1>2 DEF Object
  <2> QED BY <1>1, <1>2, <2>1 DEF Handler, Explained
<1>3. CASE q.kept # None
  <2>1. p.kept.values = Nil => q.kept.values = Nil
    BY <1>1, <1>3 DEF Object
  <2> QED BY <1>1, <1>3, <2>1 DEF Handler, Explained
<1> QED BY <1>2, <1>3

SameButOut(q, p) ==
  \A f \in {"client", "cookie", "key", "route", "kept", "ended", "input", "values", "ctl"} :
    q[f] = p[f]

LEMMA SetSessionStep ==
  ASSUME Inv, NEW r \in Requests, NEW i \in Items, SetSession(r, i)
  PROVE  Inv'
<1>1. Running(r) /\ UNCHANGED <<now, key, jar>>
  BY DEF SetSession
<1>2. /\ req[r] \in Records(key, now) /\ req[r].pc = "handler" /\ req[r].client \in Clients
      /\ req[r].key \in 1..key /\ now \in Nat /\ key \in Nat /\ Handler(req[r])
      /\ Object(req[r]) \in (SUBSET Items) \cup {Nil}
      /\ Object(req[r]) = Nil \/ ~HasSession(r) => req[r].ended \/ EndedBefore(req[r])
  BY <1>1, HandlerFacts DEF Inv
<1>3. CASE ~HasSession(r) \/ Object(req[r]) = Nil
  BY <1>1, <1>2, <1>3, PanicStep DEF SetSession
<1>4. CASE HasSession(r) /\ Object(req[r]) # Nil
  <2> DEFINE v == Object(req[r]) \cup {i}
             p == With(req[r], v)
             t == Encode(p.key, Object(p))
             q == Save(p)
  <2>1. /\ req' = [req EXCEPT ![r] = q] /\ UNCHANGED kept
        /\ mem' = [mem EXCEPT ![req[r].client] = @ \cup {i}]
        /\ last' = [last EXCEPT ![req[r].client] = now]
        /\ Blame(req[r].client, Late(r) \cup Stale(r))
    BY <1>4 DEF SetSession, SetThenSave
  <2>2. v \in SUBSET Items /\ v # Nil
    BY <1>2, <1>4, NilNotSession
  <2> HIDE DEF v
  <2>3. p \in Records(key, now) /\ Object(p) \in SUBSET Items /\ Handler(p)
    BY <1>2, <2>2, WithIs, WithHandler
  <2>4. /\ p.pc = "handler"
        /\ \A f \in {"client", "cookie", "key", "out"} : p[f] = req[r][f]
    BY <1>2, <2>2, WithIs
  <2> HIDE DEF p
  <2>5. q \in Records(key, now)
    BY <1>2, <2>3, <2>4, SaveTypes
  <2>6. /\ q.pc = "handler" /\ q.ctl = p.ctl /\ SameButOut(q, p)
        /\ q.out = p.out \/ q.out = t
    BY <2>3, <2>4 DEF Save, SetCookie, Records, SameButOut
  <2>7. t.time = now
    BY DEF Encode
  <2> HIDE DEF t, q
  <2>8. /\ mem' \in [Clients -> SUBSET Items] /\ last' \in [Clients -> 0..now]
        /\ last'[req[r].client] = now /\ \A c \in Clients : last[c] <= last'[c]
    BY <1>2, <2>1 DEF Inv
  <2>9. doubt' \in [Clients -> BOOLEAN]
    BY <1>2, <2>1, BlameTypes DEF Inv
  <2>10. q.out = req[r].out \/ Dated(q.out, last'[q.client])
    BY <1>2, <2>4, <2>6, <2>7, <2>8 DEF Dated, SameButOut
  <2>11. q.client = req[r].client /\ q.cookie = req[r].cookie /\ Handler(q)
    BY <2>3, <2>4, <2>6 DEF SameButOut, Handler
  <2> QED BY <1>1, <2>1, <2>5, <2>6, <2>8, <2>9, <2>10, <2>11, CallStep
<1> QED BY <1>3, <1>4

(* Change is what DelSession and FlushSession do to the request. *)
LEMMA ChangeStep ==
  ASSUME Inv, NEW r \in Requests, Running(r), UNCHANGED <<now, key, jar>>,
         NEW values \in (SUBSET Items) \cup {Nil}, values = Nil => Object(req[r]) = Nil,
         Change(r, values), mem' \in [Clients -> SUBSET Items]
  PROVE  Inv'
<1> DEFINE p == With(req[r], values)
           u == req[r].unsaved \/ Object(req[r]) \notin {Nil, values}
           q == [p EXCEPT !.unsaved = u]
<1>1. /\ req[r] \in Records(key, now) /\ req[r].pc = "handler" /\ req[r].client \in Clients
      /\ Handler(req[r]) /\ now \in Nat /\ key \in Nat
  BY HandlerFacts DEF Inv
<1>2. /\ req' = [req EXCEPT ![r] = q] /\ UNCHANGED <<last, kept>>
      /\ doubt' \in [Clients -> BOOLEAN]
  BY <1>1, BlameTypes DEF Change, Inv
<1>3. /\ p \in Records(key, now) /\ Handler(p) /\ p.pc = "handler" /\ u \in BOOLEAN
      /\ \A f \in {"client", "cookie", "out"} : p[f] = req[r][f]
  BY <1>1, WithIs, WithHandler
<1> HIDE DEF u, p
<1>4. q \in Records(key, now)
  BY <1>3 DEF Records
<1>5. q.pc = "handler" /\ SameButOut(q, p) /\ q.out = p.out
  BY <1>3 DEF Records, SameButOut
<1>6. \A c \in Clients : last[c] <= last'[c]
  BY <1>2 DEF Inv
<1> HIDE DEF q
<1>7. Handler(q) /\ q.client = req[r].client /\ q.cookie = req[r].cookie /\ q.out = req[r].out
  BY <1>3, <1>5 DEF Handler, SameButOut
<1> QED BY <1>1, <1>2, <1>4, <1>5, <1>6, <1>7, CallStep DEF Inv

LEMMA DelSessionStep ==
  ASSUME Inv, NEW r \in Requests, NEW i \in Items, DelSession(r, i)
  PROVE  Inv'
<1>1. Running(r) /\ UNCHANGED <<now, key, jar>>
  BY DEF DelSession
<1>2. /\ req[r].client \in Clients /\ Object(req[r]) \in (SUBSET Items) \cup {Nil}
      /\ ~HasSession(r) => req[r].ended \/ EndedBefore(req[r])
  BY <1>1, HandlerFacts
<1>3. CASE ~HasSession(r)
  BY <1>1, <1>2, <1>3, PanicStep DEF DelSession
<1>4. CASE HasSession(r)
  <2> DEFINE values == IF Object(req[r]) = Nil THEN Nil ELSE Object(req[r]) \ {i}
  <2>1. values \in (SUBSET Items) \cup {Nil} /\ (values = Nil => Object(req[r]) = Nil)
    BY <1>2, NilNotSession
  <2>2. Change(r, values) /\ mem' = [mem EXCEPT ![req[r].client] = @ \ {i}]
    BY <1>4 DEF DelSession
  <2>3. mem' \in [Clients -> SUBSET Items]
    BY <1>2, <2>2 DEF Inv
  <2> HIDE DEF values
  <2> QED BY <1>1, <2>1, <2>2, <2>3, ChangeStep
<1> QED BY <1>3, <1>4

LEMMA FlushSessionStep ==
  ASSUME Inv, NEW r \in Requests, FlushSession(r)
  PROVE  Inv'
<1>1. Running(r) /\ UNCHANGED <<now, key, jar>>
  BY DEF FlushSession
<1>2. /\ req[r].client \in Clients
      /\ ~HasSession(r) => req[r].ended \/ EndedBefore(req[r])
  BY <1>1, HandlerFacts
<1>3. CASE ~HasSession(r)
  BY <1>1, <1>2, <1>3, PanicStep DEF FlushSession
<1>4. CASE HasSession(r)
  <2>1. Change(r, {}) /\ mem' = [mem EXCEPT ![req[r].client] = {}]
    BY <1>4 DEF FlushSession
  <2>2. mem' \in [Clients -> SUBSET Items]
    BY <1>2, <2>1 DEF Inv
  <2> QED BY <1>1, <2>1, <2>2, ChangeStep DEF Nil
<1> QED BY <1>3, <1>4

LEMMA SessionRegenerateIDStep ==
  ASSUME Inv, NEW r \in Requests, SessionRegenerateID(r)
  PROVE  Inv'
<1> DEFINE p == [req[r] EXCEPT !.input = TRUE, !.ctl = TRUE, !.kept = None, !.values = Nil,
                               !.ended = TRUE]
           t == Encode(p.key, {})
           q == IF EnableSetCookie THEN SetCookie(p, t) ELSE p
<1>1. /\ Running(r) /\ UNCHANGED <<now, key, jar, kept, mem, last>>
      /\ req' = [req EXCEPT ![r] = q] /\ Blame(req[r].client, {"regenerated"} \cup Late(r))
  BY DEF SessionRegenerateID
<1>2. /\ req[r] \in Records(key, now) /\ req[r].pc = "handler" /\ req[r].client \in Clients
      /\ req[r].key \in 1..key /\ now \in Nat /\ key \in Nat /\ Handler(req[r])
  BY <1>1, HandlerFacts DEF Inv
<1>3. p \in Records(key, now)
  BY <1>2 DEF Records
<1>4. /\ p.pc = "handler" /\ p.ended = TRUE /\ p.kept = None
      /\ \A f \in {"client", "cookie", "key", "route", "out"} : p[f] = req[r][f]
  BY <1>2 DEF Records
<1> HIDE DEF p
<1>5. t \in Tokens(key, now) /\ t.items = {}
  BY <1>2, <1>4, EncodeTypes DEF Encode
<1> HIDE DEF t
<1>6. q \in Records(key, now)
  BY <1>2, <1>3, <1>5, CallTypes
<1>7. /\ q.pc = p.pc /\ q.ended = TRUE /\ q.kept = None /\ q.out \in {p.out, t}
      /\ \A f \in {"client", "cookie", "key", "route"} : q[f] = p[f]
  BY <1>3, <1>4 DEF SetCookie, Records
<1> HIDE DEF q
<1>8. q.out = req[r].out \/ Dated(q.out, last'[q.client])
  BY <1>4, <1>5, <1>7 DEF Dated
<1>9. doubt' \in [Clients -> BOOLEAN] /\ \A c \in Clients : last[c] <= last'[c]
  BY <1>1, <1>2, BlameTypes DEF Inv
<1>10. /\ q.client = req[r].client /\ q.cookie = req[r].cookie /\ q.key = req[r].key
       /\ q.pc = "handler"
  BY <1>4, <1>7
<1>11. mem' \in [Clients -> SUBSET Items] /\ last' \in [Clients -> 0..now]
  BY <1>1 DEF Inv
<1>12. Handler(q)
  BY <1>2, <1>4, <1>7 DEF Handler, Explained
<1> QED BY <1>1, <1>6, <1>8, <1>9, <1>10, <1>11, <1>12, CallStep

LEMMA DestroySessionStep ==
  ASSUME Inv, NEW r \in Requests, DestroySession(r)
  PROVE  Inv'
<1> DEFINE p == [req[r] EXCEPT !.input = FALSE, !.values = {}, !.ended = TRUE,
                               !.unsaved = ~EnableSetCookie]
           q == IF EnableSetCookie THEN SetCookie(p, Gone) ELSE p
<1>1. Running(r) /\ UNCHANGED <<now, key, jar>>
  BY DEF DestroySession
<1>2. /\ req[r] \in Records(key, now) /\ req[r].pc = "handler" /\ req[r].client \in Clients
      /\ Handler(req[r]) /\ now \in Nat /\ key \in Nat
  BY <1>1, HandlerFacts DEF Inv
<1>3. CASE ~req[r].input
  BY <1>1, <1>2, <1>3, PanicStep DEF DestroySession, Handler
<1>4. CASE req[r].input
  <2>1. /\ req' = [req EXCEPT ![r] = q] /\ mem' = [mem EXCEPT ![req[r].client] = {}]
        /\ Blame(req[r].client, Late(r)) /\ UNCHANGED <<kept, last>>
    BY <1>4 DEF DestroySession
  <2>2. p \in Records(key, now)
    BY <1>2 DEF Records
  <2>3. /\ p.pc = "handler" /\ p.ended = TRUE
        /\ \A f \in {"client", "cookie", "key", "route", "kept", "ctl", "out"} : p[f] = req[r][f]
    BY <1>2 DEF Records
  <2> HIDE DEF p
  <2>4. q \in Records(key, now)
    BY <1>2, <2>2, CallTypes
  <2>5. /\ q.pc = p.pc /\ q.ended = TRUE /\ q.out \in {p.out, Gone}
        /\ \A f \in {"client", "cookie", "key", "route", "kept", "ctl"} : q[f] = p[f]
    BY <2>2, <2>3 DEF SetCookie, Records
  <2> HIDE DEF q
  <2>6. q.out = req[r].out \/ Dated(q.out, last'[q.client])
    BY <2>3, <2>5 DEF Dated
  <2>7. /\ doubt' \in [Clients -> BOOLEAN] /\ mem' \in [Clients -> SUBSET Items]
        /\ \A c \in Clients : last[c] <= last'[c]
    BY <1>2, <2>1, BlameTypes DEF Inv
  <2>8. /\ q.client = req[r].client /\ q.cookie = req[r].cookie /\ q.key = req[r].key
        /\ q.pc = "handler"
    BY <2>3, <2>5
  <2>9. last' \in [Clients -> 0..now]
    BY <1>1, <2>1 DEF Inv
  <2>10. Handler(q)
    BY <1>2, <2>3, <2>5 DEF Handler
  <2> QED BY <1>1, <2>1, <2>4, <2>6, <2>7, <2>8, <2>9, <2>10, CallStep
<1> QED BY <1>3, <1>4

LEMMA FinishStep ==
  ASSUME Inv, NEW r \in Requests, Finish(r)
  PROVE  Inv'
<1> DEFINE q == [Idle EXCEPT !.pc = "replied", !.client = req[r].client, !.out = req[r].out]
<1>1. /\ Running(r) /\ UNCHANGED <<now, key, jar, mem, last>>
      /\ req' = [req EXCEPT ![r] = q]
      /\ Blame(req[r].client, IF req[r].unsaved THEN {"unsaved"} ELSE {})
  BY DEF Finish
<1>2. /\ req[r] \in Records(key, now) /\ req[r].pc = "handler" /\ req[r].client \in Clients
      /\ DatedRequest(req[r]) /\ KeptWell(kept')
  BY <1>1, HandlerFacts, LeaveWell DEF Finish
<1>3. Idle \in Records(key, now)
  BY IdleTypes DEF Inv
<1>4. q \in Records(key, now)
  BY <1>2, <1>3 DEF Records
<1>5. q.pc = "replied" /\ q.client = req[r].client /\ q.cookie = None /\ q.out = req[r].out
  BY DEF Idle
<1> HIDE DEF q
<1>6. Sound(q)
  BY <1>2, <1>4, <1>5 DEF Sound
<1>7. doubt' \in [Clients -> BOOLEAN] /\ \A c \in Clients : last[c] <= last'[c]
  BY <1>1, <1>2, BlameTypes DEF Inv
<1>8. Dated(q.out, last'[q.client])
  BY <1>1, <1>2, <1>5 DEF DatedRequest
<1> QED BY <1>1, <1>2, <1>5, <1>6, <1>7, <1>8, HandlerStep DEF Inv

-----------------------------------------------------------------------------
(* The other steps. *)
LEMMA InvParts ==
  ASSUME Inv
  PROVE  /\ now \in Nat /\ key \in Nat /\ now \in 0..MaxTime /\ key \in 1..MaxKeys
         /\ \A c \in Clients : jar[c] \in Tokens(key, now) \cup {None} /\ last[c] \in 0..now
         /\ \A r \in Requests : /\ req[r] \in Records(key, now)
                                /\ req[r].cookie \in Tokens(key, now) \cup {None}
                                /\ req[r].out \in Tokens(key, now) \cup {None, Gone}
                                /\ InFlight(r) => req[r].client \in Clients
BY DEF Inv, Sound, Records, InFlight

(* One request becomes q; clocks and what clients hold stay. *)
LEMMA RequestStep ==
  ASSUME Inv, NEW r \in Requests, NEW q, req' = [req EXCEPT ![r] = q],
         UNCHANGED <<now, key, jar, kept, last>>, Sound(q), DatedRequest(q),
         mem' \in [Clients -> SUBSET Items], doubt' \in [Clients -> BOOLEAN]
  PROVE  Inv'
<1>1. req' \in [Requests -> Records(key, now)]
  BY DEF Inv, Sound
<1>2. \A s \in Requests : Sound(req[s])'
  BY DEF Inv, Sound, Handler, Explained
<1>3. \A s \in Requests : DatedRequest(req[s])'
  BY DEF Inv, DatedRequest, Dated
<1>4. (\A c \in Clients : Dated(jar[c], last[c])') /\ KeptWell(kept)'
  BY DEF Inv, Dated, KeptWell, Explained
<1> QED BY <1>1, <1>2, <1>3, <1>4 DEF Inv

LEMMA IdleSound ==
  ASSUME Inv
  PROVE  Sound(Idle) /\ DatedRequest(Idle)
BY InvParts, IdleTypes DEF Sound, DatedRequest, Idle

LEMMA SendStep ==
  ASSUME Inv, NEW r \in Requests, NEW c \in Clients, Send(r, c)
  PROVE  Inv'
<1> DEFINE q == [Idle EXCEPT !.pc = "sent", !.client = c, !.cookie = jar[c]]
<1>1. /\ UNCHANGED <<now, key, jar, kept, last, mem>> /\ req' = [req EXCEPT ![r] = q]
      /\ doubt' \in [Clients -> BOOLEAN]
  BY BlameTypes DEF Send, Inv
<1>2. jar[c] \in Tokens(key, now) \cup {None} /\ Idle \in Records(key, now)
  BY InvParts, IdleTypes
<1>3. q \in Records(key, now)
  BY <1>2 DEF Records
<1>4. q.pc = "sent" /\ q.client = c /\ q.cookie = jar[c] /\ q.out = None /\ ~q.ctl
  BY DEF Idle
<1> HIDE DEF q
<1>5. Sound(q) /\ DatedRequest(q)
  BY <1>3, <1>4 DEF Sound, DatedRequest, Dated, Inv
<1> QED BY <1>1, <1>5, RequestStep DEF Inv

LEMMA DeliverStep ==
  ASSUME Inv, NEW r \in Requests, Deliver(r)
  PROVE  Inv'
<1> DEFINE c == req[r].client
           t == CASE req[r].out = None -> jar[c] [] req[r].out = Gone -> None [] OTHER -> req[r].out
<1>1. /\ UNCHANGED <<now, key, kept, mem, last, doubt>> /\ req' = [req EXCEPT ![r] = Idle]
      /\ jar' = [jar EXCEPT ![c] = t] /\ req[r].pc = "replied"
  BY DEF Deliver
<1>2. /\ c \in Clients /\ jar[c] \in Tokens(key, now) \cup {None}
      /\ req[r].out \in Tokens(key, now) \cup {None, Gone}
      /\ Dated(jar[c], last[c]) /\ Dated(req[r].out, last[c])
  BY <1>1, InvParts DEF InFlight, Inv, DatedRequest
<1>3. t \in Tokens(key, now) \cup {None} /\ Dated(t, last[c])
  BY <1>2 DEF Dated
<1> HIDE DEF t, c
<1>4. jar' \in [Clients -> Tokens(key, now) \cup {None}]
  BY <1>1, <1>3 DEF Inv
<1>5. \A d \in Clients : Dated(jar[d], last[d])'
  BY <1>1, <1>3 DEF Inv, Dated
<1>6. \A s \in Requests : Sound(req[s])' /\ DatedRequest(req[s])'
  BY <1>1, IdleSound DEF Inv, Sound, Handler, Explained, DatedRequest, Dated
<1>7. req' \in [Requests -> Records(key, now)] /\ KeptWell(kept)'
  BY <1>1, IdleSound DEF Inv, Sound, KeptWell, Explained
<1> QED BY <1>1, <1>4, <1>5, <1>6, <1>7 DEF Inv

LEMMA LoseStep ==
  ASSUME Inv, NEW r \in Requests, Lose(r)
  PROVE  Inv'
<1>1. /\ UNCHANGED <<now, key, jar, kept, last, mem>> /\ req' = [req EXCEPT ![r] = Idle]
      /\ doubt' \in [Clients -> BOOLEAN]
  BY InvParts, BlameTypes DEF Lose, Inv
<1> QED BY <1>1, IdleSound, RequestStep DEF Inv

LEMMA ForgetStep ==
  ASSUME Inv, NEW c \in Clients, Forget(c)
  PROVE  Inv'
<1>1. /\ UNCHANGED <<now, key, kept, req, last, mem>> /\ jar' = [jar EXCEPT ![c] = None]
      /\ doubt' \in [Clients -> BOOLEAN]
  BY BlameTypes DEF Forget, Inv
<1>2. (\A s \in Requests : Sound(req[s])' /\ DatedRequest(req[s])') /\ KeptWell(kept)'
  BY <1>1 DEF Inv, Sound, Handler, Explained, DatedRequest, Dated, KeptWell
<1>3. jar' \in [Clients -> Tokens(key, now) \cup {None}] /\ \A d \in Clients : Dated(jar[d], last[d])'
  BY <1>1 DEF Inv, Dated
<1> QED BY <1>1, <1>2, <1>3 DEF Inv

(* Later times and later keys. *)
LEMMA ClockStep ==
  ASSUME Inv, now' \in 0..MaxTime, key' \in 1..MaxKeys, now <= now', key <= key',
         UNCHANGED <<jar, req, mem, last>>, KeptWell(kept'), doubt' \in [Clients -> BOOLEAN]
  PROVE  Inv'
<1>1. now \in Nat /\ key \in Nat /\ now' \in Nat /\ key' \in Nat
  BY InvParts
<1>2. /\ Tokens(key, now) \subseteq Tokens(key', now')
      /\ Records(key, now) \subseteq Records(key', now')
  BY <1>1, RecordsGrow
<1>3. jar' \in [Clients -> Tokens(key', now') \cup {None}]
  BY <1>2 DEF Inv
<1>4. req' \in [Requests -> Records(key', now')]
  BY <1>2 DEF Inv
<1>5. (\A s \in Requests : Sound(req[s])' /\ DatedRequest(req[s])') /\ KeptWell(kept)'
  BY <1>2 DEF Inv, Sound, Handler, Explained, DatedRequest, Dated, KeptWell
<1>6. last' \in [Clients -> 0..now'] /\ \A c \in Clients : Dated(jar[c], last[c])'
  BY <1>1 DEF Inv, Dated
<1> QED BY <1>3, <1>4, <1>5, <1>6 DEF Inv

(* The one step after which a session may have been saved earlier than was *)
(* thought: the client's only request tells what it holds.                 *)
LEMMA SessionStartStep ==
  ASSUME Inv, NEW r \in Requests, NEW k \in Controllers, SessionStart(r, k)
  PROVE  Inv'
<1> DEFINE c   == req[r].client
           new == req[r].cookie = None
           sid == IF new THEN Encode(key, {}) ELSE req[r].cookie
           out == IF new /\ EnableSetCookie THEN sid ELSE None
           q   == [req[r] EXCEPT !.pc = "handler", !.cookie = None, !.key = key, !.route = k,
                     !.values = SessionRead(sid), !.input = TRUE, !.kept = kept[k], !.out = out]
<1>1. /\ req[r].pc = "sent" /\ UNCHANGED <<now, key, jar, kept>> /\ req' = [req EXCEPT ![r] = q]
      /\ \/ /\ Others(r) = {} /\ jar[c] = req[r].cookie
            /\ mem' = [mem EXCEPT ![c] = SessionRead(sid)]
            /\ last' = [last EXCEPT ![c] = sid.time]
            /\ doubt' = [doubt EXCEPT ![c] = FALSE]
         \/ UNCHANGED <<mem, last, doubt>>
  BY DEF SessionStart
<1>2. /\ now \in Nat /\ key \in Nat /\ key \in 1..key
      /\ req[r] \in Records(key, now) /\ c \in Clients
      /\ req[r].cookie \in Tokens(key, now) \cup {None}
  BY <1>1, InvParts DEF InFlight
<1>3. sid \in Tokens(key, now) /\ (new => sid.items = {})
  BY <1>2, EncodeTypes DEF Encode
<1>4. SessionRead(sid) \in SUBSET Items /\ sid.time \in 0..now
  BY <1>2, <1>3, ReadTypes, TokenTypes
<1>5. /\ out \in Tokens(key, now) \cup {None, Gone} /\ \A n : Dated(out, n)
      /\ ~new => sid = req[r].cookie
  BY <1>3 DEF Dated
<1> HIDE DEF sid, out, new
<1>6. q \in Records(key, now)
  <2> DEFINE v == SessionRead(sid)
             o == kept[k]
  <2>1. v \in (SUBSET Items) \cup {Nil} /\ key \in 0..key /\ o \in Objects \cup {None}
    BY <1>2, <1>4 DEF Inv, KeptWell
  <2> HIDE DEF v, o
  <2>2. [req[r] EXCEPT !.pc = "handler", !.cookie = None, !.key = key, !.route = k,
            !.values = v, !.input = TRUE, !.kept = o, !.out = out] \in Records(key, now)
    BY <1>2, <1>5, <2>1 DEF Records
  <2> QED BY <2>2 DEF v, o
<1>7. q.pc = "handler" /\ q.client = c /\ q.cookie = None /\ q.out = out /\ q.input = TRUE
      /\ q.key = key /\ q.values = SessionRead(sid) /\ q.route = k /\ q.kept = kept[k]
      /\ q.ctl = req[r].ctl
  BY <1>2 DEF Records
<1> HIDE DEF q
<1>8. q.values # Nil /\ q.key # 0 /\ Handler(q)
  <2>1. q.values # Nil /\ q.key # 0 /\ Explained(kept[k])
    BY <1>2, <1>4, <1>7, NilNotSession DEF Inv, KeptWell
  <2> QED BY <1>1, <1>7, <2>1 DEF Handler, Inv, Sound
<1>9. Sound(q)
  BY <1>2, <1>6, <1>7, <1>8 DEF Sound
<1>10. \A n : Dated(q.cookie, n) /\ Dated(q.out, n)
  BY <1>5, <1>7 DEF Dated
<1>11. CASE UNCHANGED <<mem, last, doubt>>
  BY <1>1, <1>9, <1>10, <1>11, RequestStep DEF Inv, DatedRequest
<1>12. CASE /\ Others(r) = {} /\ jar[c] = req[r].cookie
            /\ mem' = [mem EXCEPT ![c] = SessionRead(sid)]
            /\ last' = [last EXCEPT ![c] = sid.time]
            /\ doubt' = [doubt EXCEPT ![c] = FALSE]
  <2>1. /\ mem' \in [Clients -> SUBSET Items] /\ last' \in [Clients -> 0..now]
        /\ doubt' \in [Clients -> BOOLEAN]
    BY <1>2, <1>4, <1>12 DEF Inv
  <2>2. \A d \in Clients : Dated(jar[d], last'[d])
    <3> SUFFICES ASSUME NEW d \in Clients PROVE Dated(jar[d], last'[d])
      OBVIOUS
    <3>1. CASE d # c
      BY <1>2, <1>12, <3>1 DEF Inv
    <3>2. CASE d = c
      BY <1>2, <1>4, <1>5, <1>12, <3>2 DEF Inv, Dated, new
    <3> QED BY <3>1, <3>2
  <2>3. ASSUME NEW s \in Requests, s # r, req[s].pc # "idle"
        PROVE  /\ Dated(req[s].cookie, last'[req[s].client])
               /\ Dated(req[s].out, last'[req[s].client])
    <3>1. req[s].client # c
      BY <1>12, <2>3 DEF Others, InFlight
    <3> QED BY <1>12, <2>3, <3>1, InvParts DEF Inv, DatedRequest, InFlight
  <2>4. \A s \in Requests : DatedRequest(req[s])'
    <3> SUFFICES ASSUME NEW s \in Requests, req'[s].pc # "idle"
                 PROVE  /\ Dated(req'[s].cookie, last'[req'[s].client])
                        /\ Dated(req'[s].out, last'[req'[s].client])
      BY DEF DatedRequest, Dated
    <3>1. CASE s = r
      BY <1>1, <1>10, <3>1 DEF Inv
    <3>2. CASE s # r
      BY <1>1, <2>3, <3>2 DEF Inv
    <3> QED BY <3>1, <3>2
  <2>5. req' \in [Requests -> Records(key, now)] /\ \A s \in Requests : Sound(req[s])'
    BY <1>1, <1>6, <1>9 DEF Inv, Sound, Handler, Explained
  <2>6. KeptWell(kept)'
    BY <1>1 DEF Inv, KeptWell, Explained
  <2> QED BY <1>1, <2>1, <2>2, <2>4, <2>5, <2>6 DEF Inv, Dated
<1> QED BY <1>1, <1>11, <1>12

LEMMA NoneKept ==
  ASSUME kept' = [k \in Controllers |-> None]
  PROVE  KeptWell(kept')
BY DEF KeptWell, Explained

LEMMA NextStep ==
  ASSUME Inv, [Next]_vars
  PROVE  Inv'
<1>1. ASSUME NEW r \in Requests, NEW c \in Clients, Send(r, c) PROVE Inv'
  BY <1>1, SendStep
<1>2. ASSUME NEW r \in Requests,
             \/ \E k \in Controllers : SessionStart(r, k)
             \/ StartSession(r) \/ GetSession(r)
             \/ \E i \in Items : SetSession(r, i) \/ DelSession(r, i)
             \/ FlushSession(r) \/ SessionRegenerateID(r) \/ DestroySession(r)
             \/ Write(r) \/ Finish(r) \/ Deliver(r) \/ Lose(r)
      PROVE  Inv'
  BY <1>2, SessionStartStep, StartSessionStep, GetSessionStep, SetSessionStep, DelSessionStep,
     FlushSessionStep, SessionRegenerateIDStep, DestroySessionStep, WriteStep, FinishStep,
     DeliverStep, LoseStep
<1>3. ASSUME NEW c \in Clients, Forget(c) PROVE Inv'
  BY <1>3, ForgetStep
<1>4. CASE Restart
  <2>1. /\ key' \in 1..MaxKeys /\ key <= key' /\ UNCHANGED <<now, jar, req, mem, last>>
        /\ doubt' \in [Clients -> BOOLEAN] /\ KeptWell(kept')
    BY <1>4, InvParts, NoneKept DEF Restart, Inv
  <2> QED BY <2>1, InvParts, ClockStep
<1>5. CASE Tick
  <2>1. /\ now' \in 0..MaxTime /\ now <= now'
        /\ UNCHANGED <<key, jar, kept, req, mem, last, doubt>>
    BY <1>5, InvParts DEF Tick
  <2> QED BY <2>1, InvParts, ClockStep DEF Inv, KeptWell, Explained
<1>6. CASE UNCHANGED vars
  BY <1>6 DEF vars, Inv, Sound, Handler, Explained, DatedRequest, Dated, KeptWell
<1> QED BY <1>1, <1>2, <1>3, <1>4, <1>5, <1>6 DEF Next

LEMMA InitInv == ASSUME Init PROVE Inv
<1>1. now \in Nat /\ key \in Nat /\ now \in 0..MaxTime /\ key \in 1..MaxKeys
  BY DEF Init
<1>2. \A r \in Requests : Sound(req[r]) /\ DatedRequest(req[r])
  BY <1>1, IdleTypes DEF Init, Sound, DatedRequest, Idle
<1>3. req \in [Requests -> Records(key, now)]
  BY <1>1, IdleTypes DEF Init
<1>4. \A c \in Clients : Dated(jar[c], last[c])
  BY DEF Init, Dated
<1>5. KeptWell(kept)
  BY DEF Init, KeptWell, Explained
<1> QED BY <1>1, <1>2, <1>3, <1>4, <1>5 DEF Init, Inv

THEOREM SpecInv == Spec => []Inv
<1>1. Init => Inv
  BY InitInv
<1>2. Inv /\ [Next]_vars => Inv'
  BY NextStep
<1> QED BY <1>1, <1>2, PTL DEF Spec

-----------------------------------------------------------------------------
(* Types: cookies and requests carry only keys that were drawn and times   *)
(* that have come, and a request at rest keeps nothing.                    *)
THEOREM SpecTypeOK == Spec => []TypeOK
BY SpecInv, InvImplies, PTL

(* The session calls of ctrl/controller.go use pointers and maps that may  *)
(* be nil without looking.  They panic only in a request that called       *)
(* DestroySession or SessionRegenerateID before, or whose controller still *)
(* has the session of a request that called SessionRegenerateID.           *)
THEOREM SpecPanicsOnlyAfterEnd == Spec => []PanicsOnlyAfterEnd
BY SpecInv, InvImplies, PTL

(* Of the steps, only SessionStart begins a handler, and only its own.     *)
LEMMA StartsIs ==
  ASSUME Inv, Next, NEW r \in Requests, Starts(r)
  PROVE  \E k \in Controllers : SessionStart(r, k)
<1>1. req[r].pc = "sent" /\ req'[r].pc = "handler" /\ DOMAIN req = Requests
  BY DEF Starts, Inv
<1>2. UNCHANGED req => FALSE
  BY <1>1
<1>3. ASSUME NEW s \in Requests, NEW c \in Clients, Send(s, c) PROVE FALSE
  <2>1. s # r => req'[r] = req[r]
    BY <1>3 DEF Send
  <2> QED BY <1>1, <1>3, <2>1 DEF Send, InFlight
<1>4. ASSUME NEW s \in Requests, Running(s), NEW q, req' = [req EXCEPT ![s] = q] PROVE FALSE
  BY <1>1, <1>4 DEF Running
<1>5. ASSUME NEW s \in Requests, Running(s), Panic(s) PROVE FALSE
  BY <1>4, <1>5 DEF Panic
<1>6. ASSUME NEW s \in Requests, StartSession(s) \/ Write(s) \/ Finish(s) \/ SessionRegenerateID(s)
      PROVE  FALSE
  BY <1>4, <1>6 DEF StartSession, Write, Finish, SessionRegenerateID
<1>7. ASSUME NEW s \in Requests, GetSession(s) \/ DestroySession(s) \/ FlushSession(s)
      PROVE  FALSE
  BY <1>4, <1>5, <1>7 DEF GetSession, DestroySession, FlushSession, Change
<1>8. ASSUME NEW s \in Requests, NEW i \in Items, SetSession(s, i) \/ DelSession(s, i)
      PROVE  FALSE
  BY <1>4, <1>5, <1>8 DEF SetSession, DelSession, Change
<1>9. ASSUME NEW s \in Requests, Deliver(s) \/ Lose(s) PROVE FALSE
  <2>1. req' = [req EXCEPT ![s] = Idle] /\ Idle.pc = "idle"
    BY <1>9 DEF Deliver, Lose, Idle
  <2>2. s = r
    BY <1>1, <2>1
  <2> QED BY <1>1, <2>1, <2>2
<1>10. ASSUME NEW s \in Requests, NEW k \in Controllers, SessionStart(s, k) PROVE s = r
  BY <1>1, <1>10 DEF SessionStart
<1>11. \/ \E s \in Requests, k \in Controllers : SessionStart(s, k)
       \/ (\E c \in Clients : Forget(c)) \/ Restart \/ Tick
  BY <1>3, <1>6, <1>7, <1>8, <1>9 DEF Next
<1> QED BY <1>2, <1>10, <1>11 DEF Forget, Restart, Tick

(* SessionRead drops a cookie that is older than the lifetime, and no      *)
(* cookie with something in it is younger than its client's last save,     *)
(* however responses overlapped, were lost or came out of order.           *)
THEOREM SpecExpires == Spec => Expires
<1>1. Inv /\ [Next]_vars =>
        [\A r \in Requests :
           Starts(r) /\ now - last[req[r].client] > Life => req'[r].values = {}]_vars
  <2> SUFFICES ASSUME Inv, Next, NEW r \in Requests, Starts(r), now - last[req[r].client] > Life
               PROVE  req'[r].values = {}
    OBVIOUS
  <2> PICK k \in Controllers : SessionStart(r, k)
    BY StartsIs
  <2> DEFINE new == req[r].cookie = None
             sid == IF new THEN Encode(key, {}) ELSE req[r].cookie
             q   == [req[r] EXCEPT !.pc = "handler", !.cookie = None, !.key = key, !.route = k,
                       !.values = SessionRead(sid), !.input = TRUE, !.kept = kept[k],
                       !.out = IF new /\ EnableSetCookie THEN sid ELSE None]
  <2>1. req[r].pc = "sent" /\ req' = [req EXCEPT ![r] = q]
    BY DEF SessionStart
  <2>2. /\ req[r] \in Records(key, now) /\ req[r].cookie \in Tokens(key, now) \cup {None}
        /\ req[r].client \in Clients /\ last[req[r].client] \in 0..now /\ now \in Nat
        /\ key \in Nat /\ Dated(req[r].cookie, last[req[r].client])
    BY <2>1, InvParts DEF InFlight, Inv, DatedRequest
  <2>3. req'[r] = q
    BY <2>1 DEF Inv
  <2>4. q.values = SessionRead(sid)
    BY <2>2 DEF Records
  <2>5. CASE new
    <3>1. SessionRead(Encode(key, {})) = {}
      BY DEF SessionRead, Encode
    <3> QED BY <2>3, <2>4, <2>5, <3>1
  <2>6. CASE ~new
    <3>1. sid \in Tokens(key, now) /\ Dated(sid, last[req[r].client])
      BY <2>2, <2>6
    <3> HIDE DEF sid
    <3>2. /\ sid \notin {None, Gone} /\ sid.time \in 0..now
          /\ sid.items = {} \/ sid.time <= last[req[r].client]
      BY <2>2, <3>1, TokenTypes DEF Dated
    <3>3. SessionRead(sid) = {}
      BY <2>2, <3>2 DEF SessionRead, Valid
    <3> QED BY <2>3, <2>4, <3>3
  <2> QED BY <2>5, <2>6
<1> QED BY <1>1, SpecInv, PTL DEF Spec, Expires
-----------------------------------------------------------------------------
(* Carried.  As long as nothing is in doubt, a client has one request in   *)
(* flight at most, and it is known what each holds: a handler the session  *)
(* as it should be, unless it has yet to be saved or its controller has an *)
(* earlier one, and the client, once the response is there, a cookie of it *)
(* that can be read for as long as the last save is within the lifetime.   *)
AllExcused ==
  /\ {"race", "late", "unsaved", "regenerated", "lost", "kept"} \subseteq Excused
  /\ FixedKeys \/ "restart" \in Excused

Keeps(t, items, n) ==
  now - n <= Life =>
    IF t \in {None, Gone} THEN items = {}
    ELSE \/ items = {} /\ (t.items = {} \/ ~RightKey(t.key))
         \/ t.items = items /\ RightKey(t.key) /\ t.time >= n

After(q, cookie) == IF q.out = None THEN cookie ELSE q.out

Fits(q, cookie, items, n) ==
  /\ q.pc = "sent" => q.cookie = cookie
  /\ q.pc = "handler" => /\ RightKey(q.key) /\ (q.kept = None => q.values = items)
                         /\ q.unsaved \/ Keeps(After(q, cookie), items, n)
  /\ q.pc = "replied" => Keeps(After(q, cookie), items, n)

Of(c) == {r \in Requests : InFlight(r) /\ req[r].client = c}

CarriedFor(c) ==
  ~doubt[c] =>
    /\ \A r, s \in Of(c) : r = s
    /\ (\A r \in Of(c) : req[r].pc = "sent") => Keeps(jar[c], mem[c], last[c])
    /\ \A r \in Of(c) : Fits(req[r], jar[c], mem[c], last[c])

CarryInv == \A c \in Clients : CarriedFor(c)

(* A step for one client leaves what is known of the others. *)
LEMMA OtherClient ==
  ASSUME Inv, NEW r \in Requests, NEW c \in Clients, NEW q, req' = [req EXCEPT ![r] = q],
         q.pc = "idle" \/ q.client = c, InFlight(r) => req[r].client = c,
         UNCHANGED <<now, key>>, NEW d \in Clients, d # c,
         jar'[d] = jar[d], mem'[d] = mem[d], last'[d] = last[d], doubt'[d] = doubt[d],
         CarriedFor(d)
  PROVE  CarriedFor(d)'
<1>1. /\ r \notin Of(d) /\ r \notin Of(d)'
      /\ \A s \in Requests \ {r} : req'[s] = req[s]
  BY DEF Of, InFlight, Inv
<1>2. Of(d)' = Of(d) /\ \A s \in Of(d) : req'[s] = req[s]
  BY <1>1 DEF Of, InFlight
<1> QED BY <1>2 DEF CarriedFor, Fits, Keeps, After, RightKey

(* A step of a handler, or its end. *)
LEMMA HandlerCarried ==
  ASSUME Inv, CarryInv, NEW r \in Requests, Running(r), UNCHANGED <<now, key, jar>>,
         NEW c, c = req[r].client,
         NEW q, req' = [req EXCEPT ![r] = q], q.pc \in {"handler", "replied", "panicked"},
         q.client = c,
         \A d \in Clients \ {c} : mem'[d] = mem[d] /\ last'[d] = last[d] /\ doubt'[d] = doubt[d],
         ~doubt'[c] => ~doubt[c],
         ~doubt'[c] /\ Fits(req[r], jar[c], mem[c], last[c])
            => Fits(q, jar[c], mem'[c], last'[c])
  PROVE  CarryInv'
<1>1. c \in Clients /\ req[r].pc = "handler"
  BY HandlerFacts
<1>2. ASSUME NEW d \in Clients, d # c PROVE CarriedFor(d)'
  BY <1>1, <1>2, OtherClient DEF CarryInv
<1>3. CarriedFor(c)'
  <2> SUFFICES ASSUME ~doubt'[c]
               PROVE  /\ \A s, t \in Of(c)' : s = t
                      /\ (\A s \in Of(c)' : req'[s].pc = "sent") => Keeps(jar[c], mem[c], last[c])'
                      /\ \A s \in Of(c)' : Fits(req[s], jar[c], mem[c], last[c])'
    BY DEF CarriedFor
  <2>1. CarriedFor(c) /\ ~doubt[c]
    BY <1>1 DEF CarryInv
  <2>2. r \in Of(c) /\ Of(c) = {r}
    BY <1>1, <2>1 DEF CarriedFor, Of, InFlight
  <2>3. req'[r] = q /\ \A s \in Requests \ {r} : req'[s] = req[s]
    BY DEF Inv
  <2>4. Of(c)' = {r}
    BY <2>2, <2>3 DEF Of, InFlight
  <2>5. Fits(q, jar[c], mem'[c], last'[c])
    BY <2>1, <2>2 DEF CarriedFor
  <2>6. Fits(req[r], jar[c], mem[c], last[c])'
    BY <2>3, <2>5 DEF Fits, Keeps, After, RightKey
  <2> QED BY <2>3, <2>4, <2>6
<1> QED BY <1>2, <1>3 DEF CarryInv

(* Who is blamed is in doubt. *)
LEMMA BlameDoubt ==
  ASSUME Inv, NEW c \in Clients, NEW reasons, Blame(c, reasons)
  PROVE  /\ \A d \in Clients \ {c} : doubt'[d] = doubt[d]
         /\ ~doubt'[c] => ~doubt[c] /\ reasons \cap Excused = {}
BY DEF Blame, Inv

LEMMA PanicCarried ==
  ASSUME Inv, CarryInv, NEW r \in Requests, Running(r), Panic(r), UNCHANGED <<now, key, jar>>
  PROVE  CarryInv'
<1> DEFINE q == [Idle EXCEPT !.pc = "panicked", !.client = req[r].client,
                             !.ended = req[r].ended \/ EndedBefore(req[r])]
<1>1. req' = [req EXCEPT ![r] = q] /\ UNCHANGED <<mem, last, doubt>>
  BY DEF Panic
<1>2. q.pc = "panicked" /\ q.client = req[r].client
  BY DEF Idle
<1> HIDE DEF q
<1>3. Fits(q, jar[req[r].client], mem'[req[r].client], last'[req[r].client])
  BY <1>2 DEF Fits
<1> QED BY <1>1, <1>2, <1>3, HandlerCarried

(* Nothing changes that Fits speaks of. *)
LEMMA SameCarried ==
  ASSUME Inv, CarryInv, NEW r \in Requests, Running(r), NEW q, req' = [req EXCEPT ![r] = q],
         UNCHANGED <<now, key, jar, mem, last, doubt>>,
         \A f \in {"pc", "client", "cookie", "key", "values", "kept", "unsaved", "out"} :
           q[f] = req[r][f]
  PROVE  CarryInv'
<1>1. q.pc = "handler" /\ q.client = req[r].client
  BY DEF Running
<1>2. ASSUME NEW cookie, NEW items, NEW n, Fits(req[r], cookie, items, n)
      PROVE  Fits(q, cookie, items, n)
  BY <1>2 DEF Fits, After
<1> QED BY <1>1, <1>2, HandlerCarried

LEMMA ReadCarried ==
  ASSUME Inv, CarryInv, NEW r \in Requests, StartSession(r) \/ GetSession(r) \/ Write(r)
  PROVE  CarryInv'
<1> DEFINE ctl(b) == [req[r] EXCEPT !.ctl = b]
           head   == [req[r] EXCEPT !.head = TRUE]
<1>1. Running(r) /\ req[r] \in Records(key, now)
  BY HandlerFacts DEF StartSession, GetSession, Write
<1>2. \A f \in {"pc", "client", "cookie", "key", "values", "kept", "unsaved", "out"} :
        head[f] = req[r][f] /\ \A b : ctl(b)[f] = req[r][f]
  BY <1>1 DEF Records
<1>3. CASE Panic(r) /\ UNCHANGED <<now, key, jar>>
  BY <1>1, <1>3, PanicCarried
<1>4. CASE /\ req' = [req EXCEPT ![r] = head] \/ \E b : req' = [req EXCEPT ![r] = ctl(b)]
           /\ UNCHANGED <<now, key, jar, mem, last, doubt>>
  <2> HIDE DEF ctl, head
  <2> QED BY <1>1, <1>2, <1>4, SameCarried
<1> QED BY <1>3, <1>4 DEF StartSession, GetSession, Write

(* SetSession saves under the key of the request, which is the one there   *)
(* is, now.                                                                *)
LEMMA SetSessionCarried ==
  ASSUME AllExcused, Inv, CarryInv, NEW r \in Requests, NEW i \in Items, SetSession(r, i)
  PROVE  CarryInv'
<1> DEFINE c == req[r].client
<1>1. Running(r) /\ UNCHANGED <<now, key, jar>>
  BY DEF SetSession
<1>2. /\ req[r] \in Records(key, now) /\ req[r].pc = "handler" /\ c \in Clients
      /\ req[r].key \in 1..key /\ now \in Nat /\ key \in Nat
  BY <1>1, HandlerFacts DEF Inv
<1>3. CASE Panic(r)
  BY <1>1, <1>3, PanicCarried
<1>4. CASE ~Panic(r)
  <2> DEFINE v == Object(req[r]) \cup {i}
             p == With(req[r], v)
             t == Encode(p.key, Object(p))
             q == Save(p)
  <2>1. /\ req' = [req EXCEPT ![r] = q] /\ Object(req[r]) # Nil
        /\ mem' = [mem EXCEPT ![c] = @ \cup {i}] /\ last' = [last EXCEPT ![c] = now]
        /\ Blame(c, Late(r) \cup Stale(r))
    BY <1>4 DEF SetSession, SetThenSave
  <2>2. /\ p.pc = "handler" /\ p.client = c /\ p.key = req[r].key /\ p.head = req[r].head
        /\ Object(p) = v /\ p \in Records(key, now) /\ v \in SUBSET Items
        /\ p.kept = None => req[r].kept = None /\ p.values = v
    <3>1. v \in SUBSET Items
      BY <1>1, <2>1, HandlerFacts
    <3> HIDE DEF v
    <3> QED BY <1>2, <3>1, WithIs
  <2> HIDE DEF p, v
  <2>3. /\ q.pc = "handler" /\ q.client = c /\ q.key = p.key /\ q.values = p.values
        /\ q.kept = p.kept /\ (~p.head => q.out = t)
    BY <2>2 DEF Save, SetCookie, Records
  <2>4. t.key = p.key /\ t.items = v /\ t.time = now
    BY <2>2 DEF Encode
  <2>5. t \in Tokens(key, now)
    BY <1>2, <2>2, EncodeTypes
  <2> HIDE DEF t, q
  <2>6. mem'[c] = mem[c] \cup {i} /\ last'[c] = now
    BY <1>2, <2>1 DEF Inv
  <2>7. ~doubt'[c] => ~doubt[c] /\ ~p.head /\ (req[r].kept # None => Object(req[r]) = mem[c])
    BY <1>2, <2>1, <2>2, BlameDoubt DEF Late, Stale, Object, AllExcused
  <2>8. ~doubt'[c] /\ Fits(req[r], jar[c], mem[c], last[c]) => Fits(q, jar[c], mem'[c], last'[c])
    <3> SUFFICES ASSUME ~doubt'[c], Fits(req[r], jar[c], mem[c], last[c])
                 PROVE  Fits(q, jar[c], mem'[c], last'[c])
      OBVIOUS
    <3>1. RightKey(req[r].key) /\ Object(req[r]) = mem[c]
      BY <1>2, <2>7 DEF Fits, Object
    <3>2. q.out = t /\ t \notin {None, Gone}
      BY <1>2, <2>3, <2>5, <2>7, TokenTypes
    <3>3. v = mem'[c]
      BY <2>6, <3>1 DEF v
    <3>4. t.items = mem'[c] /\ RightKey(t.key) /\ t.time >= last'[c]
      BY <1>2, <2>2, <2>4, <2>6, <3>1, <3>3
    <3>5. Keeps(t, mem'[c], last'[c])
      BY <3>2, <3>4 DEF Keeps
    <3>6. RightKey(q.key) /\ (q.kept = None => q.values = mem'[c])
      BY <2>2, <2>3, <3>1, <3>3
    <3> QED BY <2>3, <3>2, <3>5, <3>6 DEF Fits, After
  <2>9. \A d \in Clients \ {c} : mem'[d] = mem[d] /\ last'[d] = last[d] /\ doubt'[d] = doubt[d]
    BY <1>2, <2>1, BlameDoubt DEF Inv
  <2> QED BY <1>1, <2>1, <2>3, <2>7, <2>8, <2>9, HandlerCarried
<1> QED BY <1>3, <1>4

(* DelSession and FlushSession leave a change to be saved, or none. *)
LEMMA ChangeCarried ==
  ASSUME AllExcused, Inv, CarryInv, NEW r \in Requests, Running(r), UNCHANGED <<now, key, jar>>,
         NEW values \in (SUBSET Items) \cup {Nil}, Change(r, values), NEW c, c = req[r].client,
         \A d \in Clients \ {c} : mem'[d] = mem[d],
         Object(req[r]) = mem[c] => values = mem'[c]
  PROVE  CarryInv'
<1> DEFINE p == With(req[r], values)
           u == req[r].unsaved \/ Object(req[r]) \notin {Nil, values}
           q == [p EXCEPT !.unsaved = u]
<1>1. req' = [req EXCEPT ![r] = q] /\ UNCHANGED last /\ Blame(c, Stale(r))
  BY DEF Change
<1>2. /\ req[r] \in Records(key, now) /\ req[r].pc = "handler" /\ c \in Clients
      /\ now \in Nat /\ key \in Nat
  BY HandlerFacts DEF Inv
<1>3. /\ p \in Records(key, now) /\ (p.kept = None => req[r].kept = None /\ p.values = values)
      /\ \A f \in {"pc", "client", "cookie", "key", "out", "unsaved"} : p[f] = req[r][f]
  BY <1>2, WithIs
<1> HIDE DEF p
<1>4. /\ q.unsaved = u /\ q.kept = p.kept /\ q.values = p.values
      /\ \A f \in {"pc", "client", "cookie", "key", "out"} : q[f] = p[f]
  BY <1>3 DEF Records
<1> HIDE DEF q
<1>5. /\ \A d \in Clients \ {c} : doubt'[d] = doubt[d]
      /\ ~doubt'[c] => ~doubt[c] /\ (req[r].kept # None => Object(req[r]) = mem[c])
  BY <1>1, <1>2, BlameDoubt DEF Stale, Object, AllExcused
<1>6. ~doubt'[c] /\ Fits(req[r], jar[c], mem[c], last[c]) => Fits(q, jar[c], mem'[c], last'[c])
  <2> SUFFICES ASSUME ~doubt'[c], Fits(req[r], jar[c], mem[c], last[c])
               PROVE  Fits(q, jar[c], mem'[c], last'[c])
    OBVIOUS
  <2>1. Object(req[r]) = mem[c] /\ values = mem'[c] /\ mem[c] # Nil
    BY <1>2, <1>5, NilNotSession DEF Fits, Object, Inv
  <2>2. u \/ (~req[r].unsaved /\ mem'[c] = mem[c])
    BY <1>3, <2>1
  <2> QED BY <1>1, <1>2, <1>3, <1>4, <2>1, <2>2 DEF Fits, After
<1>7. q.pc = "handler" /\ q.client = c
  BY <1>2, <1>3, <1>4
<1>8. \A d \in Clients \ {c} : mem'[d] = mem[d] /\ last'[d] = last[d] /\ doubt'[d] = doubt[d]
  BY <1>1, <1>5
<1> QED BY <1>1, <1>5, <1>6, <1>7, <1>8, HandlerCarried

LEMMA DeleteCarried ==
  ASSUME AllExcused, Inv, CarryInv, NEW r \in Requests, FlushSession(r) \/ \E i \in Items : DelSession(r, i)
  PROVE  CarryInv'
<1>1. Running(r) /\ UNCHANGED <<now, key, jar>>
  BY DEF FlushSession, DelSession
<1>2. /\ req[r].client \in Clients /\ mem[req[r].client] # Nil
  BY <1>1, HandlerFacts, NilNotSession DEF Inv
<1>3. CASE Panic(r)
  BY <1>1, <1>3, PanicCarried
<1>4. CASE ~Panic(r) /\ FlushSession(r)
  <2>1. Change(r, {}) /\ mem' = [mem EXCEPT ![req[r].client] = {}]
    BY <1>4 DEF FlushSession
  <2>2. mem'[req[r].client] = {} /\ \A d \in Clients \ {req[r].client} : mem'[d] = mem[d]
    BY <1>2, <2>1 DEF Inv
  <2> QED BY <1>1, <2>1, <2>2, ChangeCarried
<1>5. ASSUME NEW i \in Items, ~Panic(r), DelSession(r, i)
      PROVE  CarryInv'
  <2> DEFINE values == IF Object(req[r]) = Nil THEN Nil ELSE Object(req[r]) \ {i}
  <2>1. /\ Change(r, values) /\ mem' = [mem EXCEPT ![req[r].client] = @ \ {i}]
        /\ values \in (SUBSET Items) \cup {Nil}
    BY <1>1, <1>5, HandlerFacts DEF DelSession
  <2>2. /\ mem'[req[r].client] = mem[req[r].client] \ {i}
        /\ \A d \in Clients \ {req[r].client} : mem'[d] = mem[d]
    BY <1>2, <2>1 DEF Inv
  <2>3. Object(req[r]) = mem[req[r].client] => values = mem'[req[r].client]
    BY <1>2, <2>2
  <2> HIDE DEF values
  <2> QED BY <1>1, <2>1, <2>2, <2>3, ChangeCarried
<1> QED BY <1>3, <1>4, <1>5

LEMMA SessionRegenerateIDCarried ==
  ASSUME AllExcused, Inv, CarryInv, NEW r \in Requests, SessionRegenerateID(r)
  PROVE  CarryInv'
<1> DEFINE c == req[r].client
           p == [req[r] EXCEPT !.input = TRUE, !.ctl = TRUE, !.kept = None, !.values = Nil,
                               !.ended = TRUE]
           q == IF EnableSetCookie THEN SetCookie(p, Encode(p.key, {})) ELSE p
<1>1. /\ Running(r) /\ UNCHANGED <<now, key, jar, mem, last>>
      /\ req' = [req EXCEPT ![r] = q] /\ Blame(c, {"regenerated"} \cup Late(r))
  BY DEF SessionRegenerateID
<1>2. req[r] \in Records(key, now) /\ req[r].pc = "handler" /\ c \in Clients
  BY <1>1, HandlerFacts
<1>3. p.pc = "handler" /\ p.client = c /\ p \in Records(key, now)
  BY <1>2 DEF Records
<1> HIDE DEF p
<1>4. q.pc = "handler" /\ q.client = c
  BY <1>3 DEF SetCookie, Records
<1> HIDE DEF q
<1>5. doubt'[c] /\ \A d \in Clients \ {c} : doubt'[d] = doubt[d]
  BY <1>1, <1>2, BlameDoubt DEF AllExcused
<1> QED BY <1>1, <1>4, <1>5, HandlerCarried

LEMMA DestroySessionCarried ==
  ASSUME AllExcused, Inv, CarryInv, NEW r \in Requests, DestroySession(r)
  PROVE  CarryInv'
<1> DEFINE c == req[r].client
           p == [req[r] EXCEPT !.input = FALSE, !.values = {}, !.ended = TRUE,
                               !.unsaved = ~EnableSetCookie]
           q == IF EnableSetCookie THEN SetCookie(p, Gone) ELSE p
<1>1. Running(r) /\ UNCHANGED <<now, key, jar>>
  BY DEF DestroySession
<1>2. req[r] \in Records(key, now) /\ req[r].pc = "handler" /\ c \in Clients
  BY <1>1, HandlerFacts
<1>3. CASE Panic(r)
  BY <1>1, <1>3, PanicCarried
<1>4. CASE ~Panic(r)
  <2>1. /\ req' = [req EXCEPT ![r] = q] /\ mem' = [mem EXCEPT ![c] = {}]
        /\ Blame(c, Late(r)) /\ UNCHANGED last
    BY <1>4 DEF DestroySession
  <2>2. /\ p.pc = "handler" /\ p.client = c /\ p.key = req[r].key /\ p.values = {}
        /\ p.head = req[r].head /\ p.unsaved = ~EnableSetCookie /\ p \in Records(key, now)
    BY <1>2 DEF Records
  <2> HIDE DEF p
  <2>3. /\ q.pc = "handler" /\ q.client = c /\ q.key = p.key /\ q.values = {}
        /\ q.unsaved \/ p.head \/ q.out = Gone
    BY <2>2 DEF SetCookie, Records
  <2> HIDE DEF q
  <2>4. mem'[c] = {} /\ \A d \in Clients \ {c} : mem'[d] = mem[d] /\ doubt'[d] = doubt[d]
    BY <1>2, <2>1, BlameDoubt DEF Inv
  <2>5. ~doubt'[c] => ~doubt[c] /\ ~p.head
    BY <1>2, <2>1, <2>2, BlameDoubt DEF Late, AllExcused
  <2>6. Keeps(Gone, {}, last'[c]) /\ Gone # None
    BY DEF Keeps
  <2>7. ~doubt'[c] /\ Fits(req[r], jar[c], mem[c], last[c]) => Fits(q, jar[c], mem'[c], last'[c])
    BY <1>2, <2>2, <2>3, <2>4, <2>5, <2>6 DEF Fits, After
  <2> QED BY <1>1, <2>1, <2>3, <2>4, <2>5, <2>7, HandlerCarried
<1> QED BY <1>3, <1>4

LEMMA FinishCarried ==
  ASSUME AllExcused, Inv, CarryInv, NEW r \in Requests, Finish(r)
  PROVE  CarryInv'
<1> DEFINE c == req[r].client
           q == [Idle EXCEPT !.pc = "replied", !.client = req[r].client, !.out = req[r].out]
<1>1. /\ Running(r) /\ UNCHANGED <<now, key, jar, mem, last>>
      /\ req' = [req EXCEPT ![r] = q]
      /\ Blame(c, IF req[r].unsaved THEN {"unsaved"} ELSE {})
  BY DEF Finish
<1>2. req[r].pc = "handler" /\ c \in Clients
  BY <1>1, HandlerFacts
<1>3. q.pc = "replied" /\ q.client = c /\ q.out = req[r].out
  BY DEF Idle
<1> HIDE DEF q
<1>4. /\ \A d \in Clients \ {c} : doubt'[d] = doubt[d]
      /\ ~doubt'[c] => ~doubt[c] /\ ~req[r].unsaved
  BY <1>1, <1>2, BlameDoubt DEF AllExcused
<1>5. ~doubt'[c] /\ Fits(req[r], jar[c], mem[c], last[c]) => Fits(q, jar[c], mem'[c], last'[c])
  BY <1>1, <1>2, <1>3, <1>4 DEF Fits, After
<1> QED BY <1>1, <1>3, <1>4, <1>5, HandlerCarried

(* A second request at one time is a race; the only one has the cookie of  *)
(* its client.                                                             *)
LEMMA SendCarried ==
  ASSUME AllExcused, Inv, CarryInv, NEW r \in Requests, NEW c \in Clients, Send(r, c)
  PROVE  CarryInv'
<1> DEFINE q == [Idle EXCEPT !.pc = "sent", !.client = c, !.cookie = jar[c]]
           reasons == IF \E s \in Requests : InFlight(s) /\ req[s].client = c
                      THEN {"race"} ELSE {}
<1>1. /\ ~InFlight(r) /\ req' = [req EXCEPT ![r] = q] /\ Blame(c, reasons)
      /\ UNCHANGED <<now, key, jar, mem, last>>
  BY DEF Send
<1>2. q.pc = "sent" /\ q.client = c /\ q.cookie = jar[c]
  BY DEF Idle
<1> HIDE DEF q
<1>3. /\ \A d \in Clients \ {c} : doubt'[d] = doubt[d]
      /\ ~doubt'[c] => ~doubt[c] /\ reasons \cap Excused = {}
  BY <1>1, BlameDoubt
<1>4. ASSUME NEW d \in Clients, d # c PROVE CarriedFor(d)'
  BY <1>1, <1>2, <1>3, <1>4, OtherClient DEF CarryInv
<1>5. ASSUME ~doubt'[c] PROVE CarriedFor(c)'
  <2>1. Of(c) = {} /\ CarriedFor(c) /\ ~doubt[c]
    BY <1>3, <1>5 DEF AllExcused, Of, CarryInv
  <2>2. req'[r] = q /\ \A s \in Requests \ {r} : req'[s] = req[s]
    BY <1>1 DEF Inv
  <2>3. Of(c)' = {r}
    BY <1>2, <2>1, <2>2 DEF Of, InFlight
  <2>4. Keeps(jar[c], mem[c], last[c])'
    BY <1>1, <2>1 DEF CarriedFor, Keeps, RightKey
  <2>5. Fits(req[r], jar[c], mem[c], last[c])'
    BY <1>1, <1>2, <2>2 DEF Fits
  <2> QED BY <2>3, <2>4, <2>5 DEF CarriedFor
<1> QED BY <1>4, <1>5 DEF CarryInv, CarriedFor

(* What SessionStart reads is what the cookie keeps. *)
LEMMA ReadKeeps ==
  ASSUME now \in Nat, key \in Nat, NEW t \in Tokens(key, now)
  PROVE  Keeps(t, SessionRead(t), t.time)
<1>1. t \notin {None, Gone} /\ t.time \in Nat
  BY TokenTypes
<1> QED BY <1>1 DEF Keeps, SessionRead, Valid

(* What SessionStart reads is what is known of the client from then on;    *)
(* it makes a guess only of requests that overlap, which are in doubt.     *)
LEMMA SessionStartCarried ==
  ASSUME Inv, CarryInv, NEW r \in Requests, NEW k \in Controllers, SessionStart(r, k)
  PROVE  CarryInv'
<1> SUFFICES ASSUME NEW c, c = req[r].client PROVE CarryInv'
  OBVIOUS
<1> DEFINE new == req[r].cookie = None
           sid == IF new THEN Encode(key, {}) ELSE req[r].cookie
           got == SessionRead(sid)
           out == IF new /\ EnableSetCookie THEN sid ELSE None
           q   == [req[r] EXCEPT !.pc = "handler", !.cookie = None, !.key = key, !.route = k,
                     !.values = got, !.input = TRUE, !.kept = kept[k], !.out = out]
<1>1. /\ req[r].pc = "sent" /\ UNCHANGED <<now, key, jar>> /\ req' = [req EXCEPT ![r] = q]
      /\ IF Others(r) = {} /\ jar[c] = req[r].cookie
         THEN /\ mem' = [mem EXCEPT ![c] = got]
              /\ last' = [last EXCEPT ![c] = sid.time]
              /\ doubt' = [doubt EXCEPT ![c] = FALSE]
         ELSE UNCHANGED <<mem, last, doubt>>
  BY DEF SessionStart
<1>2. /\ now \in Nat /\ key \in Nat /\ key \in 1..key /\ InFlight(r)
      /\ req[r] \in Records(key, now) /\ c \in Clients
      /\ req[r].cookie \in Tokens(key, now) \cup {None}
  BY <1>1, InvParts DEF InFlight
<1>3. sid \in Tokens(key, now) /\ (new => sid.items = {} /\ sid.key = key)
  BY <1>2, EncodeTypes DEF Encode
<1>4. Keeps(sid, got, sid.time) /\ sid \notin {None, Gone}
  BY <1>2, <1>3, ReadKeeps, TokenTypes
<1>5. new => got = {}
  BY <1>3 DEF SessionRead
<1>6. ~new => sid = req[r].cookie
  OBVIOUS
<1>7. q.pc = "handler" /\ q.client = c /\ q.out = out /\ q.key = key /\ q.values = got
  BY <1>2 DEF Records
<1> HIDE DEF q, got, sid
<1>8. ASSUME NEW d \in Clients, d # c PROVE CarriedFor(d)'
  <2>1. mem'[d] = mem[d] /\ last'[d] = last[d] /\ doubt'[d] = doubt[d]
    BY <1>1, <1>8 DEF Inv
  <2> QED BY <1>1, <1>2, <1>7, <1>8, <2>1, OtherClient DEF CarryInv
<1>9. ASSUME ~doubt'[c] PROVE CarriedFor(c)'
  <2>1. Others(r) = {} /\ jar[c] = req[r].cookie
    <3> SUFFICES ASSUME UNCHANGED doubt PROVE Others(r) = {} /\ jar[c] = req[r].cookie
      BY <1>1
    <3>1. CarriedFor(c) /\ ~doubt[c] /\ r \in Of(c)
      BY <1>2, <1>9 DEF CarryInv, Of
    <3> QED BY <1>1, <3>1 DEF CarriedFor, Others, Of, Fits
  <2>2. mem'[c] = got /\ last'[c] = sid.time
    BY <1>1, <1>2, <2>1 DEF Inv
  <2>3. req'[r] = q /\ \A s \in Requests \ {r} : req'[s] = req[s]
    BY <1>1 DEF Inv
  <2>4. Of(c)' = {r}
    BY <1>7, <2>1, <2>3 DEF Of, Others, InFlight
  <2>5. Keeps(After(q, jar[c]), got, sid.time)
    <3>1. CASE out # None
      BY <1>4, <1>7, <3>1 DEF After
    <3>2. CASE out = None /\ new
      BY <1>5, <1>7, <2>1, <3>2 DEF After, Keeps
    <3>3. CASE out = None /\ ~new
      BY <1>4, <1>6, <1>7, <2>1, <3>3 DEF After
    <3> QED BY <3>1, <3>2, <3>3
  <2>6. Fits(req[r], jar[c], mem[c], last[c])'
    BY <1>1, <1>7, <2>2, <2>3, <2>5 DEF Fits, After, Keeps, RightKey
  <2> QED BY <1>7, <2>3, <2>4, <2>6 DEF CarriedFor
<1> QED BY <1>8, <1>9 DEF CarryInv, CarriedFor

(* The browser takes the cookie of the response. *)
LEMMA DeliverCarried ==
  ASSUME Inv, CarryInv, NEW r \in Requests, Deliver(r)
  PROVE  CarryInv'
<1> SUFFICES ASSUME NEW c, c = req[r].client PROVE CarryInv'
  OBVIOUS
<1> DEFINE out == req[r].out
           t == CASE out = None -> jar[c] [] out = Gone -> None [] OTHER -> out
<1>1. /\ req[r].pc = "replied" /\ req' = [req EXCEPT ![r] = Idle]
      /\ jar' = [jar EXCEPT ![c] = t] /\ UNCHANGED <<now, key, mem, last, doubt>>
  BY DEF Deliver
<1>2. c \in Clients /\ InFlight(r) /\ Idle.pc = "idle"
  BY <1>1, InvParts DEF InFlight, Idle
<1>3. ASSUME NEW d \in Clients, d # c PROVE CarriedFor(d)'
  <2>1. jar'[d] = jar[d]
    BY <1>1, <1>3 DEF Inv
  <2> QED BY <1>1, <1>2, <1>3, <2>1, OtherClient DEF CarryInv
<1>4. ASSUME ~doubt'[c] PROVE CarriedFor(c)'
  <2>1. CarriedFor(c) /\ ~doubt[c] /\ r \in Of(c)
    BY <1>1, <1>2, <1>4 DEF CarryInv, Of
  <2>2. Of(c) = {r} /\ Keeps(After(req[r], jar[c]), mem[c], last[c])
    BY <1>1, <2>1 DEF CarriedFor, Fits
  <2>3. Of(c)' = {}
    BY <1>1, <1>2, <2>2 DEF Of, InFlight, Inv
  <2>4. jar'[c] = t
    BY <1>1, <1>2 DEF Inv
  <2>5. Keeps(t, mem[c], last[c])
    BY <2>2, SessionAssumption DEF After, Keeps
  <2> HIDE DEF t
  <2>6. Keeps(jar[c], mem[c], last[c])'
    BY <1>1, <2>4, <2>5 DEF Keeps, RightKey
  <2> QED BY <2>3, <2>6 DEF CarriedFor
<1> QED BY <1>3, <1>4 DEF CarryInv, CarriedFor

(* What is lost is in doubt. *)
LEMMA LoseCarried ==
  ASSUME AllExcused, Inv, CarryInv, NEW r \in Requests, Lose(r)
  PROVE  CarryInv'
<1>1. /\ InFlight(r) /\ req' = [req EXCEPT ![r] = Idle] /\ Idle.pc = "idle"
      /\ Blame(req[r].client, {"lost"}) /\ UNCHANGED <<now, key, jar, mem, last>>
  BY DEF Lose, Idle
<1>2. req[r].client \in Clients
  BY <1>1, InvParts
<1>3. doubt'[req[r].client] /\ \A d \in Clients \ {req[r].client} : doubt'[d] = doubt[d]
  BY <1>1, <1>2, BlameDoubt DEF AllExcused
<1>4. ASSUME NEW d \in Clients, d # req[r].client PROVE CarriedFor(d)'
  BY <1>1, <1>2, <1>3, <1>4, OtherClient DEF CarryInv
<1> QED BY <1>3, <1>4 DEF CarryInv, CarriedFor

LEMMA ForgetCarried ==
  ASSUME AllExcused, Inv, CarryInv, NEW c \in Clients, Forget(c)
  PROVE  CarryInv'
<1>1. /\ jar' = [jar EXCEPT ![c] = None] /\ UNCHANGED <<now, key, req, mem, last>>
      /\ Blame(c, {"lost"})
  BY DEF Forget
<1>2. doubt'[c] /\ \A d \in Clients \ {c} : doubt'[d] = doubt[d]
  BY <1>1, BlameDoubt DEF AllExcused
<1>3. ASSUME NEW d \in Clients, d # c PROVE CarriedFor(d)'
  <2>1. CarriedFor(d) /\ jar'[d] = jar[d] /\ doubt'[d] = doubt[d]
    BY <1>1, <1>2, <1>3 DEF CarryInv, Inv
  <2> QED BY <1>1, <2>1 DEF CarriedFor, Of, InFlight, Fits, After, Keeps, RightKey
<1> QED BY <1>2, <1>3 DEF CarryInv, CarriedFor

(* New keys put everything in doubt, configured ones nothing. *)
LEMMA RestartCarried ==
  ASSUME AllExcused, Inv, CarryInv, Restart
  PROVE  CarryInv'
<1>1. CASE ~FixedKeys
  BY <1>1 DEF AllExcused, Restart, CarryInv, CarriedFor
<1>2. CASE FixedKeys
  <2> SUFFICES ASSUME NEW c \in Clients, ~doubt'[c] PROVE CarriedFor(c)'
    BY DEF CarryInv, CarriedFor
  <2>1. UNCHANGED <<now, jar, req, mem, last>> /\ ~doubt[c] /\ CarriedFor(c)
    BY <1>2 DEF Restart, CarryInv
  <2>2. \A k \in Nat : RightKey(k) /\ RightKey(k)'
    BY <1>2 DEF RightKey
  <2> QED BY <1>2, <2>1 DEF CarriedFor, Of, InFlight, Fits, After, Keeps, RightKey
<1> QED BY <1>1, <1>2

(* Time only shortens what is kept. *)

LEMMA TickCarried ==
  ASSUME Inv, CarryInv, Tick
  PROVE  CarryInv'
<1>1. now \in Nat /\ now' = now + 1 /\ UNCHANGED <<key, jar, req, mem, last, doubt>>
  BY InvParts DEF Tick
<1>2. \A c \in Clients : last[c] \in Nat
  BY <1>1 DEF Inv
<1>3. ASSUME NEW t, NEW items, NEW n \in Nat, Keeps(t, items, n)
      PROVE  Keeps(t, items, n)'
  BY <1>1, <1>3, SessionAssumption DEF Keeps, RightKey
<1> SUFFICES ASSUME NEW c \in Clients PROVE CarriedFor(c)'
  BY DEF CarryInv
<1>4. CarriedFor(c) /\ Of(c)' = Of(c)
  BY <1>1 DEF CarryInv, Of, InFlight
<1>5. \A r \in Of(c) : Fits(req[r], jar[c], mem[c], last[c])
                        => Fits(req[r], jar[c], mem[c], last[c])'
  BY <1>1, <1>2, <1>3 DEF Fits, After, RightKey
<1>6. Keeps(jar[c], mem[c], last[c]) => Keeps(jar[c], mem[c], last[c])'
  BY <1>1, <1>2, <1>3
<1> QED BY <1>1, <1>4, <1>5, <1>6 DEF CarriedFor

LEMMA NextCarried ==
  ASSUME AllExcused, Inv, CarryInv, [Next]_vars
  PROVE  CarryInv'
<1>1. ASSUME NEW r \in Requests,
             \/ \E c \in Clients : Send(r, c)
             \/ \E k \in Controllers : SessionStart(r, k)
             \/ StartSession(r) \/ GetSession(r)
             \/ \E i \in Items : SetSession(r, i) \/ DelSession(r, i)
             \/ FlushSession(r) \/ SessionRegenerateID(r) \/ DestroySession(r)
             \/ Write(r) \/ Finish(r) \/ Deliver(r) \/ Lose(r)
      PROVE  CarryInv'
  BY <1>1, SendCarried, SessionStartCarried, ReadCarried, SetSessionCarried, DeleteCarried,
     SessionRegenerateIDCarried, DestroySessionCarried, FinishCarried, DeliverCarried,
     LoseCarried
<1>2. CASE (\E c \in Clients : Forget(c)) \/ Restart \/ Tick
  BY <1>2, ForgetCarried, RestartCarried, TickCarried
<1>3. CASE UNCHANGED vars
  BY <1>3 DEF vars, CarryInv, CarriedFor, Of, InFlight, Fits, After, Keeps, RightKey
<1> QED BY <1>1, <1>2, <1>3 DEF Next

LEMMA InitCarried == ASSUME Init PROVE CarryInv
<1>1. \A c \in Clients : Of(c) = {}
  BY DEF Init, Of, InFlight, Idle
<1>2. \A c \in Clients : Keeps(jar[c], mem[c], last[c])
  BY DEF Init, Keeps
<1> QED BY <1>1, <1>2 DEF CarryInv, CarriedFor

(* SetSession, DestroySession and the browser keep a session as its        *)
(* client's requests left it, when each of the ways in which controller.go *)
(* and the browser may lose one counts as an excuse: new keys only where   *)
(* the configuration does not fix them.                                    *)
THEOREM SpecCarried == AllExcused => (Spec => Carried)
<1> SUFFICES ASSUME AllExcused PROVE Spec => Carried
  OBVIOUS
<1>1. Inv /\ CarryInv /\ [Next]_vars => CarryInv'
  BY NextCarried
<1>2. Spec => []CarryInv
  BY <1>1, InitCarried, SpecInv, PTL DEF Spec
<1>3. Inv /\ CarryInv /\ [Next]_vars =>
        [\A r \in Requests :
           LET c == req[r].client IN
           Starts(r) /\ ~doubt[c] /\ now - last[c] <= Life => req'[r].values = mem[c]]_vars
  <2> SUFFICES ASSUME Inv, CarryInv, Next, NEW r \in Requests, NEW c, c = req[r].client,
                      Starts(r), ~doubt[c], now - last[c] <= Life
               PROVE  req'[r].values = mem[c]
    OBVIOUS
  <2> PICK k \in Controllers : SessionStart(r, k)
    BY StartsIs
  <2> DEFINE new == req[r].cookie = None
             sid == IF new THEN Encode(key, {}) ELSE req[r].cookie
             q   == [req[r] EXCEPT !.pc = "handler", !.cookie = None, !.key = key, !.route = k,
                       !.values = SessionRead(sid), !.input = TRUE, !.kept = kept[k],
                       !.out = IF new /\ EnableSetCookie THEN sid ELSE None]
  <2>1. req[r].pc = "sent" /\ req' = [req EXCEPT ![r] = q]
    BY DEF SessionStart
  <2>2. /\ req[r] \in Records(key, now) /\ req[r].cookie \in Tokens(key, now) \cup {None}
        /\ c \in Clients /\ last[c] \in 0..now /\ now \in Nat /\ key \in Nat /\ InFlight(r)
    BY <2>1, InvParts DEF InFlight, Inv
  <2>3. req'[r] = q /\ q.values = SessionRead(sid)
    BY <2>1, <2>2 DEF Inv, Records
  <2>4. Of(c) = {r} /\ req[r].cookie = jar[c] /\ Keeps(jar[c], mem[c], last[c])
    BY <2>1, <2>2 DEF CarryInv, CarriedFor, Of, Fits
  <2>5. CASE new
    <3>1. SessionRead(Encode(key, {})) = {}
      BY DEF SessionRead, Encode
    <3> QED BY <2>3, <2>4, <2>5, <3>1 DEF Keeps
  <2>6. CASE ~new
    <3>1. sid = jar[c] /\ sid \in Tokens(key, now)
      BY <2>2, <2>4, <2>6
    <3> HIDE DEF sid
    <3>2. sid \notin {None, Gone} /\ sid.time \in 0..now
      BY <2>2, <3>1, TokenTypes
    <3>3. \/ mem[c] = {} /\ (sid.items = {} \/ ~RightKey(sid.key))
          \/ sid.items = mem[c] /\ RightKey(sid.key) /\ sid.time >= last[c]
      BY <2>4, <3>1, <3>2 DEF Keeps
    <3>4. sid.time >= last[c] => now - sid.time <= Life
      BY <2>2, <3>2
    <3>5. SessionRead(sid) = mem[c]
      BY <3>3, <3>4 DEF SessionRead, Valid
    <3> QED BY <2>3, <3>5
  <2> QED BY <2>5, <2>6
<1> QED BY <1>2, <1>3, SpecInv, PTL DEF Spec, Carried
=============================================================================
