----------------------------- MODULE Templates -----------------------------
(***************************************************************************)
(* Rendering of templates: Render of ctrl/controller.go and the template   *)
(* cache of ctrl/template.go.  Each render walks the view directory and    *)
(* parses its templates again, one at a time under templatesLock, with all *)
(* they include; then it executes them under the read lock.  Files are     *)
(* written, removed and made again meanwhile.                              *)
(*                                                                         *)
(* A file is its version, and Text what a version says: the files and      *)
(* blocks it uses, the blocks it defines, and whether it does not parse.   *)
(* The files of a directory are listed, and the names of a template looked *)
(* up, in any order.  No preprocessor (gonTemplateEngines) is registered   *)
(* by the code, the view path is "views", and a file of the view directory *)
(* has a template extension.                                               *)
(***************************************************************************)
EXTENDS Integers, FiniteSets

CONSTANTS
  Requests,    \* requests, each renders once
  Files,       \* templates in the view directory
  Blocks,      \* names given by {{define}}
  Dir,         \* the directory of a file
  Pages,       \* what controllers render: TplName, Layout, LayoutSections
  MaxVersion,  \* bound: versions of each file
  Removable,   \* bound: files that may be removed
  Text,        \* what a version of a file says
  None         \* model value: no layout, no template, nobody

Versions == UNION {1..MaxVersion[f] : f \in Files}

ASSUME TemplatesAssumption ==
  /\ MaxVersion \in [Files -> Nat \ {0}] /\ Removable \subseteq Files
  /\ None \notin Files \cup Blocks \cup Requests /\ Files \cap Blocks = {}
  /\ DOMAIN Dir = Files
  /\ Pages \subseteq [tpl : Files, layout : Files \cup {None}, sections : SUBSET Files]
  /\ \A p \in Pages : p.layout = None => p.sections = {}
  /\ Text \in [Files -> [Versions ->
       [uses : SUBSET (Files \cup Blocks), defines : SUBSET Blocks, bad : BOOLEAN]]]

VARIABLES
  disk,  \* the version of each file, 0 when it does not exist
  last,  \* its last version
  tpls,  \* gonTemplates: the versions a template was parsed from
  lock,  \* the request that holds templatesLock for writing, or None
  req    \* the requests

vars == <<disk, last, tpls, lock, req>>
fs   == <<disk, last>>

(* A parsed template is a function from the files it was parsed from to    *)
(* their versions.  NilTemplate is the nil pointer that a failed search    *)
(* for a block leaves in the map.                                          *)
NilTemplate == [f \in {} |-> 0]
Parsed      == UNION {[S -> Versions] : S \in SUBSET Files}

BuildFiles(p) == {p.tpl} \cup p.sections \cup ({p.layout} \ {None})
Defined(t)    == UNION {Text[f][t[f]].defines : f \in DOMAIN t}
Readers       == {r \in Requests : req[r].pc = "exec"}

(* file is what is built and root the file that getTplDeep was called for, *)
(* want what it has still to read, got what it parsed, name the block that *)
(* is looked for in the files of search.                                   *)
NoLoad == [file |-> None, root |-> None, want |-> {}, got |-> NilTemplate, names |-> {},
           name |-> None, search |-> {}, isNil |-> FALSE]

(* found is what the walk listed, todo what is still to be parsed of it,   *)
(* load the parsing that goes on under the lock, next the part to be       *)
(* executed, left the sections to come, cur the template in execution.     *)
(* asked (versions when the request began), built and trouble are history. *)
Idle == [pc |-> "idle", page |-> None, found |-> {}, todo |-> {}, load |-> NoLoad,
         next |-> "tpl", left |-> {}, exec |-> None, cur |-> None,
         asked |-> [f \in Files |-> 0], built |-> {}, trouble |-> FALSE]

Ended(q, pc) == [Idle EXCEPT !.pc = pc, !.trouble = q.trouble]

Active(r) == req[r].pc \notin {"idle", "done", "failed", "panicked"}
Load(r)   == req[r].load

-----------------------------------------------------------------------------
(* All files are there and parse, and each block that is used is defined   *)
(* by a file of the directory; files that others use need not search.      *)
Sound(d) ==
  \A f \in Files :
    /\ d[f] # 0
    /\ LET text == Text[f][d[f]] IN
       /\ ~text.bad
       /\ \A b \in text.uses \cap Blocks :
            /\ \E g \in Files : Dir[g] = Dir[f] /\ d[g] # 0 /\ b \in Text[g][d[g]].defines
            /\ \A g \in Files : d[g] # 0 => f \notin Text[g][d[g]].uses

(* A render that met trouble may have built its templates past a file that *)
(* was gone; what it stores is executed by renders that overlap with it.   *)
TroubleGoesOn == \E r \in Requests : Active(r) /\ req[r].trouble

(* RenderTemplate: what is to be built. *)
Begin(r, p) ==
  /\ req[r].pc = "idle"
  /\ req' = [req EXCEPT ![r] =
       [Idle EXCEPT !.pc = "walk", !.page = p, !.left = p.sections,
                    !.asked = last, !.trouble = ~Sound(disk) \/ TroubleGoesOn]]
  /\ UNCHANGED <<fs, tpls, lock>>

BuildEnds(q) == [q EXCEPT !.pc = "run", !.load = NoLoad, !.found = {}, !.todo = {}]
Built(q)     == IF q.todo = {} THEN BuildEnds(q) ELSE [q EXCEPT !.pc = "build"]

(* Walk goes through the view directory; visit sorts what it finds by      *)
(* directory.                                                              *)
Listed           == {f \in Files : disk[f] # 0}
Others(found, f) == {g \in found : Dir[g] = Dir[f]}

(* Faulty: files that are not there are built as well. *)
WalkAll(r) ==
  /\ req[r].pc = "walk"
  /\ req' = [req EXCEPT ![r] =
       Built([@ EXCEPT !.found = Listed, !.todo = BuildFiles(req[r].page)])]
  /\ UNCHANGED <<fs, tpls, lock>>

(* buildTemplate: the walk lists what is there. *)
Walk(r) ==
  /\ req[r].pc = "walk"
  /\ req' = [req EXCEPT ![r] =
       Built([@ EXCEPT !.found = Listed, !.todo = BuildFiles(req[r].page) \cap Listed])]
  /\ UNCHANGED <<fs, tpls, lock>>

(* getTplDeep is called for f. *)
Deep(l, f) == [l EXCEPT !.root = f, !.want = {f}]

(* Faulty: the files are parsed before the lock is taken. *)
LockLate(r, f) ==
  /\ req[r].pc = "build" /\ f \in req[r].todo
  /\ req' = [req EXCEPT ![r].pc = "load", ![r].load = Deep([NoLoad EXCEPT !.file = f], f)]
  /\ UNCHANGED <<fs, tpls, lock>>

Lock(r, f) ==
  /\ req[r].pc = "build" /\ f \in req[r].todo
  /\ lock = None /\ Readers = {}
  /\ lock' = r
  /\ req' = [req EXCEPT ![r].pc = "load", ![r].load = Deep([NoLoad EXCEPT !.file = f], f)]
  /\ UNCHANGED <<fs, tpls>>

-----------------------------------------------------------------------------
(* Between Lock and Unlock.  A panic leaves the lock as it is: there is    *)
(* no deferred Unlock, and nobody recovers before net/http.                *)
PanicLocked(r) ==
  /\ req' = [req EXCEPT ![r] = Ended(@, "panicked")]
  /\ UNCHANGED <<tpls, lock>>

Loading(r, l) ==
  /\ req' = [req EXCEPT ![r].load = l]
  /\ UNCHANGED <<tpls, lock>>

(* Faulty: the error returns without Unlock. *)
BuildFailsLocked(r) ==
  /\ req' = [req EXCEPT ![r] = BuildEnds(@)]
  /\ UNCHANGED <<tpls, lock>>

(* An error ends the build; RenderTemplate does not look at it. *)
BuildFails(r) ==
  /\ req' = [req EXCEPT ![r] = BuildEnds(@)]
  /\ lock' = None
  /\ UNCHANGED tpls

With(t, f, v) == [g \in DOMAIN t \cup {f} |-> IF g = f THEN v ELSE t[g]]

(* getTplDeep parses f: files it uses are wanted, unless they were parsed. *)
(* The blocks of the root are looked for later; those of the files that it *)
(* uses are not.                                                           *)
Parse(l, f, v) ==
  LET got == With(l.got, f, v) IN
  [l EXCEPT !.got = got,
            !.want = (@ \cup (Text[f][v].uses \cap Files)) \ DOMAIN got,
            !.names = IF f = l.root THEN @ \cup (Text[f][v].uses \cap Blocks) ELSE @]

(* getTplDeep returns an error, and with it no template. *)
Lost(l) == [l EXCEPT !.isNil = TRUE, !.want = {}]

(* A file is opened, and getTplDeep panics when it is gone: one that the   *)
(* walk listed, that a template uses, or that the search has just read.    *)
Read(r, f) ==
  LET l == Load(r) IN
  /\ req[r].pc = "load" /\ f \in l.want
  /\ \/ disk[f] = 0 /\ PanicLocked(r)
     \/ /\ disk[f] # 0 /\ Text[f][disk[f]].bad
        /\ IF l.name = None THEN BuildFails(r) ELSE Loading(r, Lost(l))
     \/ /\ disk[f] # 0 /\ ~Text[f][disk[f]].bad
        /\ Loading(r, Parse(l, f, disk[f]))
  /\ UNCHANGED fs

(* _getTemplate: a block that is not defined yet is looked for in all the  *)
(* files that the walk listed in the directory.  Lookup panics on nil.     *)
NextName(r, b) ==
  LET l == Load(r) IN
  /\ req[r].pc = "load" /\ l.want = {} /\ l.name = None /\ b \in l.names
  /\ IF l.isNil THEN PanicLocked(r)
     ELSE Loading(r,
            IF b \in Defined(l.got) THEN [l EXCEPT !.names = @ \ {b}]
            ELSE [l EXCEPT !.names = @ \ {b}, !.name = b,
                           !.search = Others(req[r].found, l.file)])
  /\ UNCHANGED fs

(* One file of the search.  One that is gone is passed over: what Open     *)
(* returned is not nil and its Close only fails, so the search goes on and *)
(* may end without the block.  One that defines the block is opened again  *)
(* by getTplDeep; New panics on nil.                                       *)
LookIn(r, g) ==
  LET l       == Load(r)
      rest    == [l EXCEPT !.search = @ \ {g}]
      defines == disk[g] # 0 /\ l.name \in Text[g][disk[g]].defines
  IN /\ req[r].pc = "load" /\ l.want = {} /\ g \in l.search
     /\ \/ ~defines /\ Loading(r, rest)
        \/ defines /\ IF l.isNil THEN PanicLocked(r) ELSE Loading(r, Deep(rest, g))
     /\ UNCHANGED fs

SearchEnds(r) ==
  LET l == Load(r) IN
  /\ req[r].pc = "load" /\ l.want = {} /\ l.name # None /\ l.search = {}
  /\ Loading(r, [l EXCEPT !.name = None])
  /\ UNCHANGED fs

(* gonTemplates[file] = t *)
Store(r) ==
  LET l == Load(r) IN
  /\ req[r].pc = "load" /\ l.want = {} /\ l.name = None /\ l.names = {}
  /\ tpls' = [tpls EXCEPT ![l.file] = IF l.isNil THEN NilTemplate ELSE l.got]
  /\ lock' = None
  /\ req' = [req EXCEPT ![r] =
       Built([req[r] EXCEPT !.load = NoLoad, !.todo = @ \ {l.file},
                               !.built = @ \cup {l.file}])]
  /\ UNCHANGED fs

-----------------------------------------------------------------------------
(* RenderTemplate and RenderBytes execute the template, then, if there is  *)
(* a layout, its sections and the layout.                                  *)
ToRun(q) ==
  CASE q.next = "tpl" -> {q.page.tpl}
    [] q.next = "layout" -> IF q.left # {} THEN q.left ELSE {q.page.layout}

(* executeViewPathTemplate, with a deferred RUnlock: no template panics.   *)
RLock(r, f) ==
  /\ req[r].pc = "run" /\ f \in ToRun(req[r])
  /\ lock = None
  /\ req' = [req EXCEPT ![r] =
       IF tpls[f] \in {None, NilTemplate} THEN Ended(@, "panicked")
       ELSE [@ EXCEPT !.pc = "exec", !.exec = f, !.cur = tpls[f]]]
  /\ UNCHANGED <<fs, tpls, lock>>

(* Execution fails on a block that no file of the template defines. *)
Reached(t, f) ==
  {g \in DOMAIN t : \A S \in SUBSET DOMAIN t :
     f \in S /\ (\A h \in S : Text[h][t[h]].uses \cap DOMAIN t \subseteq S) => g \in S}
Executes(t, f) ==
  \A g \in Reached(t, f) : Text[g][t[g]].uses \subseteq DOMAIN t \cup Defined(t)

After(q) ==
  CASE q.next = "layout" /\ q.exec \in q.left -> [q EXCEPT !.pc = "run", !.left = @ \ {q.exec}]
    [] q.next = "tpl" /\ q.page.layout # None -> [q EXCEPT !.pc = "run", !.next = "layout"]
    [] OTHER -> Ended(q, "done")

RUnlock(r) ==
  /\ req[r].pc = "exec"
  /\ req' = [req EXCEPT ![r] =
       IF Executes(@.cur, @.exec) THEN [After(@) EXCEPT !.exec = None, !.cur = None]
       ELSE Ended(@, "failed")]
  /\ UNCHANGED <<fs, tpls, lock>>

-----------------------------------------------------------------------------
(* The file system.  A change is trouble for the renders that go on. *)
Change(f, v) ==
  /\ disk' = [disk EXCEPT ![f] = v]
  /\ req' = [r \in Requests |-> IF Active(r) THEN [req[r] EXCEPT !.trouble = TRUE] ELSE req[r]]
  /\ UNCHANGED <<tpls, lock>>

WriteFile(f) ==
  /\ last[f] < MaxVersion[f]
  /\ last' = [last EXCEPT ![f] = @ + 1]
  /\ Change(f, last[f] + 1)

RemoveFile(f) ==
  /\ f \in Removable /\ disk[f] # 0
  /\ Change(f, 0)
  /\ UNCHANGED last

(* The view directory was made after the process began: init() had nothing *)
(* to parse.                                                               *)
Init ==
  /\ disk = [f \in Files |-> 1] /\ last = disk
  /\ tpls = [f \in Files |-> None]
  /\ lock = None
  /\ req = [r \in Requests |-> Idle]

Steps(r) ==
  \/ Walk(r) \/ SearchEnds(r) \/ Store(r) \/ RUnlock(r)
  \/ \E f \in Files : Lock(r, f) \/ Read(r, f) \/ LookIn(r, f) \/ RLock(r, f)
  \/ \E b \in Blocks : NextName(r, b)

Next ==
  \/ \E r \in Requests : Steps(r) \/ \E p \in Pages : Begin(r, p)
  \/ \E f \in Files : WriteFile(f) \/ RemoveFile(f)

(* Every request runs; each waits for the lock a bounded number of times,  *)
(* and sync.RWMutex starves nobody.                                        *)
Spec == Init /\ [][Next]_vars /\ \A r \in Requests : WF_vars(Steps(r))

-----------------------------------------------------------------------------
TypeOK ==
  /\ disk \in [Files -> Versions \cup {0}] /\ last \in [Files -> Versions]
  /\ \A f \in Files : disk[f] \in {0, last[f]}
  /\ tpls \in [Files -> Parsed \cup {None}]
  /\ lock \in Requests \cup {None}
  /\ \A r \in Requests :
       /\ req[r].pc \in {"idle", "walk", "build", "load", "run", "exec", "done", "failed", "panicked"}
       /\ Active(r) => req[r].page \in Pages /\ req[r].todo \subseteq req[r].found
       /\ req[r].pc = "load" => lock = r /\ Load(r).file \in req[r].todo
       /\ req[r].pc = "exec" => lock = None /\ req[r].cur \in Parsed \ {NilTemplate}
  /\ lock # None => req[lock].pc \in {"load", "panicked"}

(* A template that a request built itself is executed with no part older   *)
(* than the files were when the request began, although other requests     *)
(* parse and store the same templates in between.                          *)
RenderedFresh ==
  \A r \in Requests :
    req[r].pc = "exec" /\ req[r].exec \in req[r].built =>
      \A f \in DOMAIN req[r].cur : req[r].cur[f] >= req[r].asked[f]

(* templatesLock was left locked by a panic, on a file that went or that   *)
(* does not parse.                                                         *)
LeftLocked == lock # None /\ req[lock].pc = "panicked" /\ req[lock].trouble

(* Every render ends, whatever other renders left behind; and with a       *)
(* response, if the files were sound and stayed as they are, during it and *)
(* during the renders it overlaps with.  Only a panic while templatesLock  *)
(* is held keeps the others waiting.                                       *)
RendersEnd ==
  \A r \in Requests :
    Active(r) ~> \/ req[r].pc = "done"
                 \/ req[r].pc \in {"failed", "panicked"} /\ req[r].trouble
                 \/ LeftLocked
=============================================================================
