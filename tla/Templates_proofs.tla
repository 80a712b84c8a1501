------------------------- MODULE Templates_proofs -------------------------
(***************************************************************************)
(* Proofs about Templates, for any files, blocks, texts, pages and         *)
(* requests.                                                               *)
(*                                                                         *)
(* RenderedFresh is about one request, but other requests parse and store  *)
(* the template it renders.  It holds because they parse under the lock:   *)
(* what is parsed while a request has built something is as new as that    *)
(* request (LoadFresh), so that what is stored stays so (StoreFresh).      *)
(***************************************************************************)
EXTENDS Templates, TLAPS

USE TemplatesAssumption

PCs == {"idle", "walk", "build", "load", "run", "exec", "done", "failed", "panicked"}

Loads ==
  [file : Files \cup {None}, root : Files \cup {None}, want : SUBSET Files, got : Parsed,
   names : SUBSET Blocks, name : Blocks \cup {None}, search : SUBSET Files, isNil : BOOLEAN]

Reqs ==
  [pc : PCs, page : Pages \cup {None}, found : SUBSET Files, todo : SUBSET Files,
   load : Loads, next : {"tpl", "layout"}, left : SUBSET Files,
   exec : Files \cup {None}, cur : Parsed \cup {None}, asked : [Files -> Nat],
   built : SUBSET Files, trouble : BOOLEAN]

Types ==
  /\ disk \in [Files -> Versions \cup {0}] /\ last \in [Files -> Versions]
  /\ \A f \in Files : disk[f] \in {0, last[f]}
  /\ tpls \in [Files -> Parsed \cup {None}]
  /\ lock \in Requests \cup {None}
  /\ req \in [Requests -> Reqs]

(* Where a request is, when k holds templatesLock. *)
Fits(r, q, k) ==
  /\ q.pc \notin {"idle", "done", "failed", "panicked"} =>
       q.page \in Pages /\ q.todo \subseteq q.found
  /\ q.pc = "load" => k = r /\ q.load.file \in q.todo
  /\ q.pc = "exec" => k = None /\ q.cur \in Parsed \ {NilTemplate}
  /\ k = r => q.pc \in {"load", "panicked"}

Locking == \A r \in Requests : Fits(r, req[r], lock)

(* A template has no part older than asked. *)
AsNew(t, asked) == \A f \in DOMAIN t : t[f] >= asked[f]

Asked == \A r \in Requests : \A f \in Files : req[r].asked[f] <= last[f]

LoadFresh ==
  \A s \in Requests : req[s].pc = "load" =>
    \A r \in Requests : r = s \/ req[r].built # {} => AsNew(Load(s).got, req[r].asked)

StoreFresh ==
  \A r \in Requests : \A f \in req[r].built : AsNew(tpls[f], req[r].asked)

IInv == Types /\ Locking /\ Asked /\ LoadFresh /\ StoreFresh /\ RenderedFresh

-----------------------------------------------------------------------------
LEMMA NilParsed == NilTemplate \in Parsed /\ DOMAIN NilTemplate = {}
<1>1. NilTemplate \in [{} -> Versions]
  BY DEF NilTemplate
<1> QED BY <1>1 DEF Parsed, NilTemplate

LEMMA NoLoadType == NoLoad \in Loads
  BY NilParsed DEF NoLoad, Loads

LEMMA IdleType == Idle \in Reqs /\ Idle.built = {} /\ Idle.pc = "idle"
  BY NoLoadType DEF Idle, Reqs, PCs

LEMMA VersionsNat == Versions \subseteq Nat /\ 0 \notin Versions
  BY DEF Versions

(* Every template is a function from files to versions. *)
LEMMA ParsedType ==
  ASSUME NEW t \in Parsed
  PROVE  DOMAIN t \subseteq Files /\ t \in [DOMAIN t -> Versions]
<1>1. PICK S \in SUBSET Files : t \in [S -> Versions]
  BY DEF Parsed
<1> QED BY <1>1

LEMMA WithType ==
  ASSUME NEW t \in Parsed, NEW f \in Files, NEW v \in Versions
  PROVE  With(t, f, v) \in Parsed
<1>1. With(t, f, v) \in [DOMAIN t \cup {f} -> Versions]
  BY ParsedType DEF With
<1>2. DOMAIN t \cup {f} \in SUBSET Files
  BY ParsedType
<1> QED BY <1>1, <1>2 DEF Parsed

LEMMA ParseType ==
  ASSUME NEW l \in Loads, NEW f \in Files, NEW v \in Versions
  PROVE  /\ Parse(l, f, v) \in Loads
         /\ Parse(l, f, v).got = With(l.got, f, v)
         /\ Parse(l, f, v).file = l.file
<1>1. With(l.got, f, v) \in Parsed
  BY WithType DEF Loads
<1> QED BY <1>1 DEF Parse, Loads

(* A request that ends, or whose build ends. *)
LEMMA EndedType ==
  ASSUME NEW q \in Reqs, NEW pc \in {"done", "failed", "panicked"}
  PROVE  /\ Ended(q, pc) \in Reqs /\ Ended(q, pc).pc = pc
         /\ Ended(q, pc).built = {} /\ Ended(q, pc).asked = [f \in Files |-> 0]
  BY NoLoadType DEF Ended, Idle, Reqs, PCs

LEMMA BuildEndsType ==
  ASSUME NEW q \in Reqs
  PROVE  /\ BuildEnds(q) \in Reqs /\ BuildEnds(q).pc = "run"
         /\ BuildEnds(q).found = {} /\ BuildEnds(q).todo = {}
         /\ BuildEnds(q).page = q.page
         /\ BuildEnds(q).built = q.built /\ BuildEnds(q).asked = q.asked
  BY NoLoadType DEF BuildEnds, Reqs, PCs

LEMMA BuiltType ==
  ASSUME NEW q \in Reqs
  PROVE  /\ Built(q) \in Reqs /\ Built(q).pc \in {"run", "build"}
         /\ q.todo \subseteq q.found => Built(q).todo \subseteq Built(q).found
         /\ Built(q).page = q.page
         /\ Built(q).built = q.built /\ Built(q).asked = q.asked
<1>1. CASE q.todo = {}
  <2>1. Built(q) = BuildEnds(q)
    BY <1>1 DEF Built
  <2>2. /\ BuildEnds(q) \in Reqs /\ BuildEnds(q).pc = "run"
        /\ BuildEnds(q).todo \subseteq BuildEnds(q).found
        /\ BuildEnds(q).page = q.page
        /\ BuildEnds(q).built = q.built /\ BuildEnds(q).asked = q.asked
    BY BuildEndsType
  <2> QED BY <2>1, <2>2
<1>2. CASE q.todo # {}
  BY <1>2 DEF Built, Reqs, PCs
<1> QED BY <1>1, <1>2

-----------------------------------------------------------------------------
(* A step of one request that leaves files and stored templates alone. *)
LEMMA RequestStep ==
  ASSUME IInv, NEW r \in Requests, NEW q \in Reqs,
         req' = [req EXCEPT ![r] = q], UNCHANGED <<disk, last, tpls>>,
         \/ lock' = lock
         \/ lock = None /\ lock' = r /\ Readers = {}
         \/ lock = r /\ lock' = None,
         Fits(r, q, lock'),
         q.built = {} \/ (q.built = req[r].built /\ q.asked = req[r].asked),
         \A f \in Files : q.asked[f] <= last[f],
         q.pc = "load" => \A s \in Requests :
           s = r => AsNew(q.load.got, q.asked),
         q.pc = "load" => \A s \in Requests \ {r} :
           req[s].built # {} => AsNew(q.load.got, req[s].asked),
         q.pc = "exec" /\ q.exec \in q.built => AsNew(q.cur, q.asked)
  PROVE  IInv'
<1>1. Types'
  BY DEF IInv, Types
<1>2. \A s \in Requests \ {r} : req'[s] = req[s]
  BY DEF IInv, Types
<1>3. req'[r] = q
  BY DEF IInv, Types
<1>4. Locking'
  <2>1. ASSUME NEW s \in Requests \ {r}
        PROVE  Fits(s, req[s], lock')
    BY <2>1 DEF IInv, Types, Locking, Fits, Readers
  <2> QED BY <1>2, <1>3, <2>1 DEF Locking
<1>5. Asked'
  BY <1>2, <1>3 DEF IInv, Asked
<1>6. LoadFresh'
  <2>1. SUFFICES ASSUME NEW s \in Requests, req'[s].pc = "load",
                        NEW t \in Requests, t = s \/ req'[t].built # {}
                 PROVE  AsNew(req'[s].load.got, req'[t].asked)
    BY DEF LoadFresh, Load, AsNew
  <2>2. CASE s = r
    BY <1>2, <1>3, <2>1, <2>2
  <2>3. CASE s # r
    <3>1. req'[s] = req[s] /\ (t = s \/ req[t].built # {}) /\ req'[t].asked = req[t].asked
      BY <1>2, <1>3, <2>1, <2>3
    <3> QED BY <2>1, <3>1 DEF IInv, LoadFresh, Load
  <2> QED BY <2>2, <2>3
<1>7. StoreFresh'
  BY <1>2, <1>3 DEF IInv, StoreFresh, AsNew
<1>8. RenderedFresh'
  BY <1>2, <1>3 DEF IInv, RenderedFresh, AsNew
<1> QED BY <1>1, <1>4, <1>5, <1>6, <1>7, <1>8 DEF IInv
-----------------------------------------------------------------------------
(* What a step between Lock and Unlock does to the request. *)
LEMMA LoadingStep ==
  ASSUME IInv, NEW r \in Requests, req[r].pc = "load", NEW l \in Loads,
         l.file = Load(r).file, Loading(r, l), UNCHANGED fs,
         \A s \in Requests : s = r \/ req[s].built # {} => AsNew(l.got, req[s].asked)
  PROVE  IInv'
<1> DEFINE q == [req[r] EXCEPT !.load = l]
<1>1. req[r] \in Reqs
  BY DEF IInv, Types
<1>2. q \in Reqs /\ q.load = l /\ q.pc = "load" /\ q.todo = req[r].todo
      /\ q.found = req[r].found /\ q.page = req[r].page
      /\ q.built = req[r].built /\ q.asked = req[r].asked
  BY <1>1 DEF Reqs
<1>3. req' = [req EXCEPT ![r] = q] /\ UNCHANGED <<disk, last, tpls, lock>>
  BY DEF Loading, fs
<1>4. Fits(r, q, lock)
  BY <1>2 DEF IInv, Locking, Fits, Load
<1>5. \A f \in Files : q.asked[f] <= last[f]
  BY <1>2 DEF IInv, Asked
<1> HIDE DEF q
<1> QED BY <1>2, <1>3, <1>4, <1>5, RequestStep

LEMMA PanicStep ==
  ASSUME IInv, NEW r \in Requests, req[r].pc = "load", PanicLocked(r), UNCHANGED fs
  PROVE  IInv'
<1> DEFINE q == Ended(req[r], "panicked")
<1>1. q \in Reqs /\ q.pc = "panicked" /\ q.built = {}
  BY EndedType DEF IInv, Types
<1>2. req' = [req EXCEPT ![r] = q] /\ UNCHANGED <<disk, last, tpls, lock>>
  BY DEF PanicLocked, fs
<1>3. Fits(r, q, lock)
  BY <1>1 DEF Fits
<1>4. \A f \in Files : q.asked[f] <= last[f]
  <2>1. \A f \in Files : last[f] \in Nat
    BY VersionsNat DEF IInv, Types
  <2>2. q.asked = [f \in Files |-> 0]
    BY EndedType DEF IInv, Types
  <2> QED BY <2>1, <2>2
<1>5. /\ UNCHANGED <<disk, last, tpls>> /\ lock' = lock /\ Fits(r, q, lock')
      /\ q.pc # "load" /\ q.pc # "exec"
  BY <1>1, <1>2, <1>3
<1> HIDE DEF q
<1> QED BY <1>1, <1>2, <1>4, <1>5, RequestStep, ZenonT(60)

LEMMA BuildFailsStep ==
  ASSUME IInv, NEW r \in Requests, req[r].pc = "load", BuildFails(r), UNCHANGED fs
  PROVE  IInv'
<1> DEFINE q == BuildEnds(req[r])
<1>1. req[r] \in Reqs
  BY DEF IInv, Types
<1>2. q \in Reqs /\ q.pc = "run" /\ q.todo = {} /\ q.page = req[r].page
      /\ q.built = req[r].built /\ q.asked = req[r].asked
  BY <1>1, BuildEndsType
<1>3. req' = [req EXCEPT ![r] = q] /\ UNCHANGED <<disk, last, tpls>> /\ lock' = None
  BY DEF BuildFails, fs
<1>4. Fits(r, q, None) /\ lock = r
  BY <1>2 DEF IInv, Locking, Fits
<1>5. \A f \in Files : q.asked[f] <= last[f]
  BY <1>2 DEF IInv, Asked
<1> HIDE DEF q
<1> QED BY <1>2, <1>3, <1>4, <1>5, RequestStep

-----------------------------------------------------------------------------
(* RenderTemplate, Walk, Lock. *)
LEMMA BeginStep ==
  ASSUME IInv, NEW r \in Requests, NEW p \in Pages, Begin(r, p)
  PROVE  IInv'
<1> DEFINE q == [Idle EXCEPT !.pc = "walk", !.page = p, !.left = p.sections,
                             !.asked = last, !.trouble = ~Sound(disk) \/ TroubleGoesOn]
<1>1. last \in [Files -> Nat] /\ p.sections \subseteq Files
  BY VersionsNat DEF IInv, Types
<1>2. q \in Reqs /\ q.pc = "walk" /\ q.page = p /\ q.todo = {} /\ q.built = {}
      /\ q.asked = last
  BY <1>1, NoLoadType DEF Idle, Reqs, PCs
<1>3. req' = [req EXCEPT ![r] = q] /\ UNCHANGED <<disk, last, tpls, lock>>
  BY DEF Begin, fs
<1>4. Fits(r, q, lock)
  BY <1>2 DEF IInv, Locking, Fits, Begin
<1>5. \A f \in Files : q.asked[f] <= last[f]
  BY <1>1, <1>2
<1>6. q \in Reqs /\ q.built = {} /\ q.pc # "load" /\ q.pc # "exec" /\ lock' = lock
  BY <1>2, <1>3
<1> HIDE DEF q
<1>7. Fits(r, q, lock') /\ UNCHANGED <<disk, last, tpls>>
  BY <1>3, <1>4, <1>6
<1>8. req' = [req EXCEPT ![r] = q]
  BY <1>3
<1> QED BY <1>5, <1>6, <1>7, <1>8, RequestStep

LEMMA WalkStep ==
  ASSUME IInv, NEW r \in Requests, Walk(r)
  PROVE  IInv'
<1> DEFINE u == [req[r] EXCEPT !.found = Listed, !.todo = BuildFiles(req[r].page) \cap Listed]
           q == Built(u)
<1>1. req[r] \in Reqs /\ Listed \subseteq Files /\ req[r].pc = "walk"
  BY DEF IInv, Types, Listed, Walk
<1>2. u \in Reqs /\ u.todo \subseteq u.found /\ u.page = req[r].page
      /\ u.built = req[r].built /\ u.asked = req[r].asked
  BY <1>1 DEF Reqs
<1>3. q \in Reqs /\ q.pc \in {"run", "build"} /\ q.todo \subseteq q.found /\ q.page = req[r].page
      /\ q.built = req[r].built /\ q.asked = req[r].asked
  BY <1>2, BuiltType
<1>4. req' = [req EXCEPT ![r] = q] /\ UNCHANGED <<disk, last, tpls, lock>>
  BY DEF Walk, fs
<1>5. Fits(r, q, lock)
  BY <1>1, <1>3 DEF IInv, Locking, Fits
<1>6. \A f \in Files : q.asked[f] <= last[f]
  BY <1>3 DEF IInv, Asked
<1> HIDE DEF q
<1> QED BY <1>3, <1>4, <1>5, <1>6, RequestStep

LEMMA LockStep ==
  ASSUME IInv, NEW r \in Requests, NEW f \in Files, Lock(r, f)
  PROVE  IInv'
<1> DEFINE l == Deep([NoLoad EXCEPT !.file = f], f)
           q == [req[r] EXCEPT !.pc = "load", !.load = l]
<1>1. req[r] \in Reqs /\ req[r].pc = "build" /\ f \in req[r].todo
  BY DEF IInv, Types, Lock
<1>2. l \in Loads /\ l.got = NilTemplate /\ l.file = f
  BY NoLoadType, NilParsed DEF NoLoad, Loads, Deep
<1> HIDE DEF l
<1>3. q \in Reqs /\ q.pc = "load" /\ q.load = l /\ q.todo = req[r].todo
      /\ q.found = req[r].found /\ q.page = req[r].page
      /\ q.built = req[r].built /\ q.asked = req[r].asked
  BY <1>1, <1>2 DEF Reqs, PCs
<1>4. req' = [req EXCEPT ![r] = q] /\ UNCHANGED <<disk, last, tpls>>
      /\ lock = None /\ lock' = r /\ Readers = {}
  BY <1>1 DEF Lock, fs, l, IInv, Types
<1>5. Fits(r, q, r)
  BY <1>1, <1>2, <1>3 DEF IInv, Locking, Fits
<1>6. \A g \in Files : q.asked[g] <= last[g]
  BY <1>3 DEF IInv, Asked
<1>7. \A s \in Requests : AsNew(q.load.got, req[s].asked)
  BY <1>2, <1>3, NilParsed DEF AsNew
<1> HIDE DEF q
<1> QED BY <1>3, <1>4, <1>5, <1>6, <1>7, RequestStep

-----------------------------------------------------------------------------
(* Parsing. *)
LEMMA WithNew ==
  ASSUME NEW t \in Parsed, NEW f \in Files, NEW v \in Versions, NEW asked,
         AsNew(t, asked), v >= asked[f]
  PROVE  AsNew(With(t, f, v), asked)
  BY DEF AsNew, With

(* What is parsed is as new as the file is: nothing that was asked for is  *)
(* newer.                                                                  *)
LEMMA ParseNew ==
  ASSUME IInv, NEW r \in Requests, req[r].pc = "load", NEW f \in Files, disk[f] # 0,
         NEW l \in Loads, l.got = Load(r).got
  PROVE  /\ disk[f] \in Versions
         /\ Parse(l, f, disk[f]) \in Loads
         /\ Parse(l, f, disk[f]).file = l.file
         /\ \A s \in Requests : s = r \/ req[s].built # {} =>
              AsNew(Parse(l, f, disk[f]).got, req[s].asked)
<1>1. disk[f] \in Versions /\ disk[f] = last[f]
  BY DEF IInv, Types
<1>2. l.got \in Parsed
  BY DEF Loads
<1>3. \A s \in Requests : disk[f] >= req[s].asked[f]
  <2>1. \A s \in Requests : req[s].asked[f] \in Nat
    BY DEF IInv, Types, Reqs
  <2> QED BY <1>1, <2>1, VersionsNat DEF IInv, Asked
<1>4. \A s \in Requests : s = r \/ req[s].built # {} => AsNew(l.got, req[s].asked)
  BY DEF IInv, LoadFresh
<1>5. \A s \in Requests : s = r \/ req[s].built # {} =>
        AsNew(With(l.got, f, disk[f]), req[s].asked)
  BY <1>1, <1>2, <1>3, <1>4, WithNew
<1> QED BY <1>1, <1>5, ParseType

LEMMA LoadTypes ==
  ASSUME IInv, NEW r \in Requests, req[r].pc = "load"
  PROVE  /\ Load(r) \in Loads
         /\ \A s \in Requests : s = r \/ req[s].built # {} => AsNew(Load(r).got, req[s].asked)
  BY DEF IInv, Types, Reqs, Load, LoadFresh

LEMMA ReadStep ==
  ASSUME IInv, NEW r \in Requests, NEW f \in Files, Read(r, f)
  PROVE  IInv'
<1> DEFINE l == Load(r)
<1>1. req[r].pc = "load" /\ UNCHANGED fs
  BY DEF Read
<1>2. l \in Loads
  BY <1>1, LoadTypes
<1>3. CASE disk[f] = 0 /\ PanicLocked(r)
  BY <1>1, <1>3, PanicStep
<1>4. CASE BuildFails(r)
  BY <1>1, <1>4, BuildFailsStep
<1>5. CASE Loading(r, Lost(l))
  <2>1. Lost(l) \in Loads /\ Lost(l).file = l.file /\ Lost(l).got = l.got
    BY <1>2 DEF Lost, Loads
  <2> HIDE DEF l
  <2> QED BY <1>1, <1>5, <2>1, LoadTypes, LoadingStep DEF l
<1>6. CASE disk[f] # 0 /\ Loading(r, Parse(l, f, disk[f]))
  <2>1. /\ Parse(l, f, disk[f]) \in Loads
        /\ Parse(l, f, disk[f]).file = l.file
        /\ \A s \in Requests : s = r \/ req[s].built # {} =>
             AsNew(Parse(l, f, disk[f]).got, req[s].asked)
    BY <1>1, <1>2, <1>6, ParseNew
  <2> QED BY <1>1, <1>6, <2>1, LoadingStep
<1> QED BY <1>3, <1>4, <1>5, <1>6 DEF Read

LEMMA NextNameStep ==
  ASSUME IInv, NEW r \in Requests, NEW b \in Blocks, NextName(r, b)
  PROVE  IInv'
<1> DEFINE l == Load(r)
           m == [l EXCEPT !.names = @ \ {b}]
           n == [l EXCEPT !.names = @ \ {b}, !.name = b,
                          !.search = Others(req[r].found, l.file)]
<1>1. req[r].pc = "load" /\ UNCHANGED fs
  BY DEF NextName
<1>2. l \in Loads
  BY <1>1, LoadTypes
<1>3. Others(req[r].found, l.file) \subseteq Files
  BY DEF Others, IInv, Types, Reqs
<1>4. m \in Loads /\ m.file = l.file /\ m.got = l.got
  BY <1>2 DEF Loads
<1>5. n \in Loads /\ n.file = l.file /\ n.got = l.got
  BY <1>2, <1>3 DEF Loads
<1>6. PanicLocked(r) \/ Loading(r, m) \/ Loading(r, n)
  BY DEF NextName
<1> HIDE DEF m, n
<1>7. CASE PanicLocked(r)
  BY <1>1, <1>7, PanicStep
<1>8. CASE Loading(r, m)
  BY <1>1, <1>4, <1>8, LoadTypes, LoadingStep
<1>9. CASE Loading(r, n)
  BY <1>1, <1>5, <1>9, LoadTypes, LoadingStep
<1> QED BY <1>6, <1>7, <1>8, <1>9

LEMMA LookInStep ==
  ASSUME IInv, NEW r \in Requests, NEW g \in Files, LookIn(r, g)
  PROVE  IInv'
<1> DEFINE l    == Load(r)
           rest == [l EXCEPT !.search = @ \ {g}]
<1>1. req[r].pc = "load" /\ UNCHANGED fs
  BY DEF LookIn
<1>2. l \in Loads
  BY <1>1, LoadTypes
<1>3. rest \in Loads /\ rest.file = l.file /\ rest.got = l.got
  BY <1>2 DEF Loads
<1>4. Deep(rest, g) \in Loads /\ Deep(rest, g).file = l.file /\ Deep(rest, g).got = l.got
  BY <1>3 DEF Deep, Loads
<1>5. PanicLocked(r) \/ Loading(r, rest) \/ Loading(r, Deep(rest, g))
  BY DEF LookIn
<1> HIDE DEF rest
<1>6. CASE PanicLocked(r)
  BY <1>1, <1>6, PanicStep
<1>7. CASE Loading(r, rest)
  BY <1>1, <1>3, <1>7, LoadTypes, LoadingStep
<1>8. CASE Loading(r, Deep(rest, g))
  BY <1>1, <1>4, <1>8, LoadTypes, LoadingStep
<1> QED BY <1>5, <1>6, <1>7, <1>8

LEMMA SearchEndsStep ==
  ASSUME IInv, NEW r \in Requests, SearchEnds(r)
  PROVE  IInv'
<1> DEFINE m == [Load(r) EXCEPT !.name = None]
<1>1. req[r].pc = "load" /\ UNCHANGED fs /\ Loading(r, m)
  BY DEF SearchEnds
<1>2. Load(r) \in Loads
  BY <1>1, LoadTypes
<1>3. m \in Loads /\ m.file = Load(r).file /\ m.got = Load(r).got
  BY <1>2 DEF Loads
<1> HIDE DEF m
<1> QED BY <1>1, <1>3, LoadTypes, LoadingStep

-----------------------------------------------------------------------------
(* gonTemplates[file] = t: the template is as new as every request that    *)
(* has built something, and as the one that stores it.                     *)
LEMMA StoreStep ==
  ASSUME IInv, NEW r \in Requests, Store(r)
  PROVE  IInv'
<1> DEFINE l == Load(r)
           u == [req[r] EXCEPT !.load = NoLoad, !.todo = @ \ {l.file},
                               !.built = @ \cup {l.file}]
           q == Built(u)
           t == IF l.isNil THEN NilTemplate ELSE l.got
<1>1. req[r] \in Reqs /\ req[r].pc = "load" /\ lock = r /\ l.file \in req[r].todo
      /\ req[r].todo \subseteq req[r].found /\ req[r].page \in Pages
  BY DEF IInv, Types, Locking, Fits, Store, Load
<1>2. l \in Loads /\ l.file \in Files
  BY <1>1, LoadTypes DEF Reqs
<1>3. t \in Parsed
  BY <1>2, NilParsed DEF Loads
<1>4. \A s \in Requests : s = r \/ req[s].built # {} => AsNew(t, req[s].asked)
  BY <1>1, LoadTypes, NilParsed DEF AsNew
<1>5. u \in Reqs /\ u.todo \subseteq u.found /\ u.page = req[r].page
      /\ u.built = req[r].built \cup {l.file} /\ u.asked = req[r].asked
  BY <1>1, <1>2, NoLoadType DEF Reqs
<1>6. q \in Reqs /\ q.pc \in {"run", "build"} /\ q.todo \subseteq q.found
      /\ q.page = req[r].page
      /\ q.built = req[r].built \cup {l.file} /\ q.asked = req[r].asked
  BY <1>5, BuiltType
<1>7. req' = [req EXCEPT ![r] = q] /\ tpls' = [tpls EXCEPT ![l.file] = t]
      /\ lock' = None /\ UNCHANGED <<disk, last>>
  <2>1. req' = [req EXCEPT ![r] = q]
    BY Zenon DEF Store
  <2> QED BY <2>1 DEF Store, fs
<1> HIDE DEF l, t, q, u
<1>8. Types'
  BY <1>2, <1>3, <1>6, <1>7 DEF IInv, Types
<1>9. req'[r] = q /\ \A s \in Requests \ {r} : req'[s] = req[s]
  BY <1>7 DEF IInv, Types
<1>10. Locking'
  <2>1. Fits(r, q, None)
    BY <1>1, <1>6 DEF Fits
  <2>2. ASSUME NEW s \in Requests \ {r}
        PROVE  Fits(s, req[s], None)
    BY <1>1, <2>2 DEF IInv, Locking, Fits
  <2> QED BY <1>7, <1>9, <2>1, <2>2 DEF Locking
<1>11. Asked'
  BY <1>6, <1>7, <1>9 DEF IInv, Asked
<1>12. \A s \in Requests : req'[s].pc # "load" /\ req'[s].pc # "exec"
  <2>1. \A s \in Requests \ {r} : req[s].pc # "load" /\ req[s].pc # "exec"
    BY <1>1 DEF IInv, Locking, Fits
  <2> QED BY <1>6, <1>9, <2>1
<1>13. LoadFresh' /\ RenderedFresh'
  BY <1>12 DEF LoadFresh, RenderedFresh
<1>14. StoreFresh'
  <2>1. SUFFICES ASSUME NEW s \in Requests, NEW f \in req'[s].built
                 PROVE  AsNew(tpls'[f], req'[s].asked)
    BY DEF StoreFresh, AsNew
  <2>2. req'[s].asked = req[s].asked
    BY <1>6, <1>9
  <2>3. CASE f = l.file
    <3>1. tpls'[f] = t
      BY <1>2, <1>7, <2>3 DEF IInv, Types
    <3>2. s = r \/ req[s].built # {}
      BY <1>9
    <3> QED BY <1>4, <2>2, <3>1, <3>2
  <2>4. CASE f # l.file
    <3>1. tpls'[f] = tpls[f]
      BY <1>7, <2>4 DEF IInv, Types
    <3>2. f \in req[s].built
      BY <1>6, <1>9, <2>4
    <3> QED BY <2>2, <3>1, <3>2 DEF IInv, StoreFresh
  <2> QED BY <2>3, <2>4
<1> QED BY <1>8, <1>10, <1>11, <1>13, <1>14 DEF IInv

-----------------------------------------------------------------------------
(* RenderTemplate executes what is stored. *)
LEMMA RLockStep ==
  ASSUME IInv, NEW r \in Requests, NEW f \in Files, RLock(r, f)
  PROVE  IInv'
<1> DEFINE e == [req[r] EXCEPT !.pc = "exec", !.exec = f, !.cur = tpls[f]]
<1>1. req[r] \in Reqs /\ req[r].pc = "run" /\ lock = None
      /\ UNCHANGED <<disk, last, tpls, lock>>
  BY DEF IInv, Types, RLock, fs
<1>2. CASE tpls[f] \in {None, NilTemplate}
  <2> DEFINE q == Ended(req[r], "panicked")
  <2>1. q \in Reqs /\ q.pc = "panicked" /\ q.built = {}
    BY <1>1, EndedType
  <2>2. q.asked = [g \in Files |-> 0]
    BY <1>1, EndedType
  <2>3. \A g \in Files : q.asked[g] <= last[g]
    <3>1. \A g \in Files : last[g] \in Nat
      BY VersionsNat DEF IInv, Types
    <3> QED BY <2>2, <3>1
  <2>4. req' = [req EXCEPT ![r] = q]
    BY <1>2 DEF RLock
  <2>5. Fits(r, q, lock') /\ q.pc # "load" /\ q.pc # "exec" /\ lock' = lock
    BY <1>1, <2>1 DEF Fits
  <2> HIDE DEF q
  <2> QED BY <1>1, <2>1, <2>3, <2>4, <2>5, RequestStep
<1>3. CASE tpls[f] \notin {None, NilTemplate}
  <2>1. tpls[f] \in Parsed
    BY <1>3 DEF IInv, Types
  <2>2. e \in Reqs /\ e.pc = "exec" /\ e.cur = tpls[f] /\ e.exec = f
        /\ e.todo = req[r].todo /\ e.found = req[r].found /\ e.page = req[r].page
        /\ e.built = req[r].built /\ e.asked = req[r].asked
    BY <1>1, <2>1 DEF Reqs, PCs
  <2>3. req' = [req EXCEPT ![r] = e]
    BY <1>3 DEF RLock
  <2>4. Fits(r, e, lock') /\ lock' = lock
    BY <1>1, <1>3, <2>1, <2>2 DEF IInv, Locking, Fits
  <2>5. \A g \in Files : e.asked[g] <= last[g]
    BY <2>2 DEF IInv, Asked
  <2>6. e.exec \in e.built => AsNew(e.cur, e.asked)
    BY <2>2 DEF IInv, StoreFresh
  <2>7. e.pc # "load" /\ e.built = req[r].built /\ e.asked = req[r].asked /\ e \in Reqs
    BY <2>2
  <2> HIDE DEF e
  <2> QED BY <1>1, <2>3, <2>4, <2>5, <2>6, <2>7, RequestStep
<1> QED BY <1>2, <1>3

(* After the template come the layout's sections and the layout. *)
LEMMA AfterType ==
  ASSUME NEW q \in Reqs, q.pc = "exec", q.page \in Pages, q.todo \subseteq q.found
  PROVE  /\ After(q) \in Reqs /\ After(q).pc \in {"run", "done"}
         /\ After(q).pc = "run" =>
              /\ After(q).page = q.page /\ After(q).todo = q.todo /\ After(q).found = q.found
              /\ After(q).built = q.built /\ After(q).asked = q.asked
         /\ After(q).pc = "done" =>
              After(q).built = {} /\ After(q).asked = [f \in Files |-> 0]
<1> DEFINE a == [q EXCEPT !.pc = "run", !.left = @ \ {q.exec}]
           b == [q EXCEPT !.pc = "run", !.next = "layout"]
           c == Ended(q, "done")
<1>1. a \in Reqs /\ a.pc = "run" /\ a.page = q.page /\ a.todo = q.todo
      /\ a.found = q.found /\ a.built = q.built /\ a.asked = q.asked
  BY DEF Reqs, PCs
<1>2. b \in Reqs /\ b.pc = "run" /\ b.page = q.page /\ b.todo = q.todo
      /\ b.found = q.found /\ b.built = q.built /\ b.asked = q.asked
  BY DEF Reqs, PCs
<1>3. c \in Reqs /\ c.pc = "done" /\ c.built = {} /\ c.asked = [f \in Files |-> 0]
  BY EndedType
<1>4. After(q) = a \/ After(q) = b \/ After(q) = c
  BY DEF After
<1> HIDE DEF a, b, c
<1> QED BY <1>1, <1>2, <1>3, <1>4

LEMMA RUnlockStep ==
  ASSUME IInv, NEW r \in Requests, RUnlock(r)
  PROVE  IInv'
<1> DEFINE a == After(req[r])
           u == [a EXCEPT !.exec = None, !.cur = None]
           v == Ended(req[r], "failed")
<1>1. req[r] \in Reqs /\ req[r].pc = "exec" /\ lock = None
      /\ req[r].page \in Pages /\ req[r].todo \subseteq req[r].found
  BY DEF IInv, Types, Locking, Fits, RUnlock
<1>2. UNCHANGED <<disk, last, tpls, lock>>
  BY DEF RUnlock, fs
<1>3. /\ a \in Reqs /\ a.pc \in {"run", "done"}
      /\ a.pc = "run" => /\ a.page = req[r].page /\ a.todo = req[r].todo
                         /\ a.found = req[r].found /\ a.built = req[r].built
                         /\ a.asked = req[r].asked
      /\ a.pc = "done" => a.built = {} /\ a.asked = [f \in Files |-> 0]
  BY <1>1, AfterType
<1>4. req' = [req EXCEPT ![r] = u] \/ req' = [req EXCEPT ![r] = v]
  BY DEF RUnlock
<1>5. \A f \in Files : last[f] \in Nat
  BY VersionsNat DEF IInv, Types
<1> HIDE DEF a
<1>6. u \in Reqs /\ u.pc = a.pc /\ u.page = a.page /\ u.todo = a.todo
      /\ u.found = a.found /\ u.built = a.built /\ u.asked = a.asked
  BY <1>3 DEF Reqs
<1>7. v \in Reqs /\ v.pc = "failed" /\ v.built = {} /\ v.asked = [f \in Files |-> 0]
  BY <1>1, EndedType
<1> HIDE DEF u, v
<1>8. CASE req' = [req EXCEPT ![r] = u]
  <2>1. Fits(r, u, lock') /\ lock' = lock
    BY <1>1, <1>2, <1>3, <1>6 DEF IInv, Locking, Fits
  <2>2. \A f \in Files : u.asked[f] <= last[f]
    BY <1>3, <1>5, <1>6 DEF IInv, Asked
  <2>3. u \in Reqs /\ u.pc # "load" /\ u.pc # "exec"
        /\ (u.built = {} \/ (u.built = req[r].built /\ u.asked = req[r].asked))
    BY <1>3, <1>6
  <2> QED BY <1>2, <1>8, <2>1, <2>2, <2>3, RequestStep
<1>9. CASE req' = [req EXCEPT ![r] = v]
  <2>1. Fits(r, v, lock') /\ lock' = lock
    BY <1>1, <1>2, <1>7 DEF IInv, Locking, Fits
  <2>2. \A f \in Files : v.asked[f] <= last[f]
    BY <1>5, <1>7
  <2>3. v \in Reqs /\ v.pc # "load" /\ v.pc # "exec" /\ v.built = {}
    BY <1>7
  <2> QED BY <1>2, <1>9, <2>1, <2>2, <2>3, RequestStep
<1> QED BY <1>4, <1>8, <1>9

-----------------------------------------------------------------------------
(* Files change, and only get newer. *)
LEMMA ChangeStep ==
  ASSUME IInv, NEW f \in Files, NEW v, Change(f, v), last' \in [Files -> Versions],
         v = 0 \/ v = last'[f], v \in Versions \cup {0},
         \A g \in Files : last'[g] >= last[g] /\ (g # f => last'[g] = last[g])
  PROVE  IInv'
<1>1. disk' = [disk EXCEPT ![f] = v] /\ UNCHANGED <<tpls, lock>>
      /\ req' = [r \in Requests |-> IF Active(r) THEN [req[r] EXCEPT !.trouble = TRUE]
                                    ELSE req[r]]
  BY DEF Change
<1>2. \A r \in Requests : req'[r] \in Reqs
  <2>1. ASSUME NEW q \in Reqs, NEW t \in BOOLEAN
        PROVE  [q EXCEPT !.trouble = t] \in Reqs
    BY DEF Reqs
  <2> QED BY <1>1, <2>1 DEF IInv, Types
<1>3. \A r \in Requests :
        /\ req'[r].pc = req[r].pc /\ req'[r].page = req[r].page
        /\ req'[r].found = req[r].found /\ req'[r].todo = req[r].todo
        /\ req'[r].load = req[r].load /\ req'[r].exec = req[r].exec
        /\ req'[r].cur = req[r].cur /\ req'[r].asked = req[r].asked
        /\ req'[r].built = req[r].built
  BY <1>1 DEF IInv, Types, Reqs
<1>4. Types'
  <2>1. req' \in [Requests -> Reqs]
    BY <1>1, <1>2
  <2>2. disk' \in [Files -> Versions \cup {0}]
    BY <1>1 DEF IInv, Types
  <2>3. \A g \in Files : disk'[g] \in {0, last'[g]}
    BY <1>1 DEF IInv, Types
  <2> QED BY <1>1, <2>1, <2>2, <2>3 DEF IInv, Types
<1>5. Locking'
  BY <1>1, <1>3 DEF IInv, Locking, Fits
<1>6. Asked'
  <2>1. SUFFICES ASSUME NEW r \in Requests, NEW g \in Files
                 PROVE  req'[r].asked[g] <= last'[g]
    BY DEF Asked
  <2>2. req[r].asked[g] \in Nat /\ last[g] \in Nat /\ last'[g] \in Nat
    BY VersionsNat DEF IInv, Types, Reqs
  <2> QED BY <1>3, <2>2 DEF IInv, Asked
<1>7. LoadFresh'
  BY <1>3 DEF IInv, LoadFresh, Load, AsNew
<1>8. StoreFresh'
  BY <1>1, <1>3 DEF IInv, StoreFresh, AsNew
<1>9. RenderedFresh'
  BY <1>3 DEF IInv, RenderedFresh
<1> QED BY <1>4, <1>5, <1>6, <1>7, <1>8, <1>9 DEF IInv

LEMMA WriteFileStep ==
  ASSUME IInv, NEW f \in Files, WriteFile(f)
  PROVE  IInv'
<1> DEFINE v == last[f] + 1
<1>1. last[f] \in Nat /\ last[f] < MaxVersion[f] /\ MaxVersion[f] \in Nat
  BY VersionsNat DEF IInv, Types, WriteFile
<1>2. v \in Versions
  <2>1. v \in 1..MaxVersion[f]
    BY <1>1
  <2> QED BY <2>1 DEF Versions
<1>3. last' = [last EXCEPT ![f] = v] /\ Change(f, v)
  BY DEF WriteFile
<1>4. last' \in [Files -> Versions] /\ last'[f] = v
  BY <1>2, <1>3 DEF IInv, Types
<1>5. \A g \in Files : last'[g] >= last[g] /\ (g # f => last'[g] = last[g])
  <2>1. \A g \in Files : last[g] \in Nat
    BY VersionsNat DEF IInv, Types
  <2> QED BY <1>3, <1>4, <2>1 DEF IInv, Types
<1> HIDE DEF v
<1> QED BY <1>2, <1>3, <1>4, <1>5, ChangeStep

LEMMA RemoveFileStep ==
  ASSUME IInv, NEW f \in Files, RemoveFile(f)
  PROVE  IInv'
<1>1. last' = last /\ Change(f, 0)
  BY DEF RemoveFile
<1>2. last' \in [Files -> Versions]
  BY <1>1 DEF IInv, Types
<1>3. \A g \in Files : last'[g] >= last[g] /\ (g # f => last'[g] = last[g])
  <2>1. \A g \in Files : last[g] \in Nat
    BY VersionsNat DEF IInv, Types
  <2> QED BY <1>1, <2>1
<1> QED BY <1>1, <1>2, <1>3, ChangeStep

-----------------------------------------------------------------------------
LEMMA InitInv == Init => IInv
<1> SUFFICES ASSUME Init
             PROVE  IInv
  OBVIOUS
<1>1. Files = {} \/ 1 \in Versions
  BY DEF Versions
<1>2. last \in [Files -> Versions] /\ disk = last
  BY <1>1 DEF Init
<1>3. \A r \in Requests : req[r] = Idle
  BY DEF Init
<1>4. Types
  <2>1. req \in [Requests -> Reqs]
    BY IdleType DEF Init
  <2> QED BY <1>2, <2>1 DEF Init, Types
<1>5. Idle.pc = "idle" /\ Idle.built = {} /\ Idle.asked = [f \in Files |-> 0]
  BY DEF Idle
<1>6. Locking
  <2>1. \A r \in Requests : lock # r
    BY DEF Init
  <2> QED BY <1>3, <1>5, <2>1 DEF Locking, Fits
<1>7. Asked
  <2>1. \A f \in Files : last[f] \in Nat
    BY <1>2, VersionsNat
  <2> QED BY <1>3, <1>5, <2>1 DEF Asked
<1>8. LoadFresh /\ StoreFresh /\ RenderedFresh
  BY <1>3, <1>5 DEF LoadFresh, StoreFresh, RenderedFresh
<1> QED BY <1>4, <1>6, <1>7, <1>8 DEF IInv

(* IInv is inductive. *)
LEMMA NextInv == IInv /\ [Next]_vars => IInv'
<1>1. ASSUME IInv, NEW r \in Requests, Steps(r)
      PROVE  IInv'
  BY <1>1, WalkStep, SearchEndsStep, StoreStep, RUnlockStep, LockStep, ReadStep,
     LookInStep, RLockStep, NextNameStep DEF Steps
<1>2. ASSUME IInv, UNCHANGED vars
      PROVE  IInv'
  BY <1>2 DEF IInv, Types, Locking, Asked, LoadFresh, Load, StoreFresh, RenderedFresh,
     vars, fs
<1> QED BY <1>1, <1>2, BeginStep, WriteFileStep, RemoveFileStep DEF Next

-----------------------------------------------------------------------------
(* The state of files, templates and renders keeps to its types; and       *)
(* templatesLock is held by the request that parses, or by one that        *)
(* panicked, never while a template is executed.                           *)
THEOREM SpecTypeOK == Spec => []TypeOK
<1>1. ASSUME IInv
      PROVE  TypeOK
  <2>1. ASSUME NEW r \in Requests
        PROVE  /\ req[r].pc \in PCs
               /\ Active(r) => req[r].page \in Pages /\ req[r].todo \subseteq req[r].found
               /\ req[r].pc = "load" => lock = r /\ Load(r).file \in req[r].todo
               /\ req[r].pc = "exec" => lock = None /\ req[r].cur \in Parsed \ {NilTemplate}
    <3>1. req[r] \in Reqs /\ Fits(r, req[r], lock)
      BY <1>1 DEF IInv, Types, Locking
    <3> QED BY <3>1 DEF Reqs, Fits, Active, Load
  <2>2. lock # None => req[lock].pc \in {"load", "panicked"}
    BY <1>1 DEF IInv, Types, Locking, Fits
  <2> QED BY <1>1, <2>1, <2>2 DEF IInv, Types, TypeOK, PCs
<1> QED BY InitInv, NextInv, <1>1, PTL DEF Spec

(* Render and buildTemplate: a template that the request built itself has  *)
(* no part older than the files when the request began, although others    *)
(* parse and store the same template before it is executed.                *)
THEOREM SpecRenderedFresh == Spec => []RenderedFresh
<1>1. IInv => RenderedFresh
  BY DEF IInv
<1> QED BY InitInv, NextInv, <1>1, PTL DEF Spec
=============================================================================
