---------------------------- MODULE StaticCache ----------------------------
(***************************************************************************)
(* The cache of static files in static_file.go: serveStaticRoutes stats    *)
(* the file, openFile looks the holder up in an LRU cache under a read     *)
(* lock, judges by size and modification time whether it is up to date,    *)
(* and otherwise reads the file again under the write lock.  Files change  *)
(* and disappear under it, and what the file system is asked for may fail  *)
(* with the file in place.  A file is its version, a number that grows;    *)
(* what os.Stat tells of a version is Stat[version].  Which entry the LRU  *)
(* cache drops when it is full is left open: it may be any.                *)
(***************************************************************************)
EXTENDS Integers, FiniteSets

CONSTANTS
  Requests,    \* GET requests, each is served once
  Keys,        \* cache keys: a file and an encoding
  Files,       \* files
  FileOf,      \* the file of a key
  CacheNum,    \* StaticCacheFileNum
  MaxVersion,  \* bound: versions of a file
  MaxFaults,   \* bound: calls of the file system that fail
  Stat,        \* modification time and size of a version
  Big          \* versions larger than StaticCacheFileSize

Versions == 1..MaxVersion

ASSUME StaticCacheAssumption ==
  /\ FileOf \in [Keys -> Files] /\ IsFiniteSet(Keys)
  /\ CacheNum \in Nat \ {0} /\ MaxVersion \in Nat \ {0} /\ MaxFaults \in Nat
  /\ DOMAIN Stat = Versions
  /\ Big \subseteq Versions
  /\ \A v, w \in Versions : Stat[v] = Stat[w] => (v \in Big <=> w \in Big)

VARIABLES
  version,  \* the last version of each file
  present,  \* whether the file exists
  faults,   \* how many calls of the file system have failed
  made,     \* staticFileLruCache has been made
  cache,    \* the holder it has for each key, or NoHolder
  lock,     \* <<r>> when request r holds lruLock for writing, else <<>>
  pc,       \* where each request is
  key,      \* the key it asks for
  fi,       \* the version it has stat'ed
  holder,   \* mapFile: the holder it has in hand, or NoHolder
  served    \* the version it was answered with, 0 for none

vars  == <<version, present, faults, made, cache, lock, pc, key, fi, holder, served>>
files == <<version, present>>
fs    == <<files, faults>>

\* A holder: the version its data was read from, and the version whose
\* modification time and size it carries (modTime, originSize).
Holder   == [data: Versions, tag: Versions]
NoHolder == [data |-> 0, tag |-> 0]
Empty    == [k \in Keys |-> NoHolder]

PCs == {"stat", "whole", "make", "lookup", "lock", "check", "done"}

TypeOK ==
  /\ version \in [Files -> Versions]
  /\ present \in [Files -> BOOLEAN] /\ faults \in Nat
  /\ made \in BOOLEAN
  /\ cache \in [Keys -> Holder \cup {NoHolder}]
  /\ lock \in {<<r>> : r \in Requests} \cup {<<>>}
  /\ pc \in [Requests -> PCs]
  /\ key \in [Requests -> Keys]
  /\ fi \in [Requests -> Versions \cup {0}]
  /\ holder \in [Requests -> Holder \cup {NoHolder}]
  /\ served \in [Requests -> Versions \cup {0}]

Init ==
  /\ version = [f \in Files |-> 1] /\ present = [f \in Files |-> TRUE]
  /\ faults = 0 /\ made = FALSE /\ cache = Empty /\ lock = <<>>
  /\ pc = [r \in Requests |-> "stat"]
  /\ key \in [Requests -> Keys]
  /\ fi = [r \in Requests |-> 0]
  /\ holder = [r \in Requests |-> NoHolder]
  /\ served = [r \in Requests |-> 0]

Goto(r, label) == pc' = [pc EXCEPT ![r] = label]
File(r) == FileOf[key[r]]

-----------------------------------------------------------------------------
(* isOk: a holder that is not too large and whose modification time and    *)
(* size are those of the file.                                             *)
IsOkAny(h, v) == h # NoHolder /\ h.data \notin Big   \* faulty: any holder will do
IsOk(h, v) == h # NoHolder /\ h.data \notin Big /\ Stat[h.tag] = Stat[v]

(* The LRU cache drops another entry when a new one makes it too large.    *)
Cached == {k \in Keys : cache[k] # NoHolder}
AddNoEvict(k, h) == cache' = [cache EXCEPT ![k] = h]   \* faulty: no limit
Add(k, h) ==
  IF Cardinality(Cached \cup {k}) <= CacheNum
  THEN cache' = [cache EXCEPT ![k] = h]
  ELSE \E victim \in Cached \ {k} :
         cache' = [cache EXCEPT ![k] = h, ![victim] = NoHolder]

Serve(r, v) == served' = [served EXCEPT ![r] = v] /\ Goto(r, "done")

-----------------------------------------------------------------------------
(* A call of the file system that gives nothing to serve: the file is not  *)
(* there, or cannot be stat'ed, opened or read for another reason.         *)
NotRead(r) ==
  \/ ~present[File(r)] /\ UNCHANGED faults
  \/ faults < MaxFaults /\ faults' = faults + 1

(* lookupFile, os.Stat.  No such file: not a static request.               *)
Lookup(r) ==
  /\ pc[r] = "stat"
  /\ \/ NotRead(r) /\ Goto(r, "done") /\ UNCHANGED fi
     \/ /\ present[File(r)]
        /\ fi' = [fi EXCEPT ![r] = version[File(r)]]
        /\ Goto(r, IF version[File(r)] \in Big THEN "whole"
                   ELSE IF made THEN "lookup" ELSE "make")
        /\ UNCHANGED faults
  /\ UNCHANGED <<files, made, cache, lock, key, holder, served>>

(* http.ServeFile opens a file over the size limit itself, as it is then.  *)
ServeWhole(r) ==
  /\ pc[r] = "whole"
  /\ \/ present[File(r)] /\ Serve(r, version[File(r)]) /\ UNCHANGED faults
     \/ NotRead(r) /\ Goto(r, "done") /\ UNCHANGED served
  /\ UNCHANGED <<files, made, cache, lock, key, fi, holder>>

(* The cache is made on first use, by every request that found none.       *)
MakeCache(r) ==
  /\ pc[r] = "make"
  /\ made' = TRUE /\ cache' = Empty
  /\ Goto(r, "lookup")
  /\ UNCHANGED <<fs, lock, key, fi, holder, served>>

GetShared(r) ==
  /\ pc[r] = "lookup" /\ lock = <<>>
  /\ holder' = [holder EXCEPT ![r] = cache[key[r]]]
  /\ IF IsOk(cache[key[r]], fi[r]) THEN Serve(r, cache[key[r]].data)
     ELSE Goto(r, "lock") /\ UNCHANGED served
  /\ UNCHANGED <<fs, made, cache, lock, key, fi>>

GetExclusive(r) ==
  /\ pc[r] = "lock" /\ lock = <<>>
  /\ lock' = <<r>>
  /\ holder' = IF key[r] \in Cached THEN [holder EXCEPT ![r] = cache[key[r]]] ELSE holder
  /\ Goto(r, "check")
  /\ UNCHANGED <<fs, made, cache, key, fi, served>>

(* Another request has filled the cache in the meantime. *)
Refilled(r) ==
  /\ pc[r] = "check" /\ IsOk(holder[r], fi[r])
  /\ Serve(r, holder[r].data)
  /\ lock' = <<>>
  /\ UNCHANGED <<fs, made, cache, key, fi, holder>>

(* The file is read as it is now; the holder carries the old stat.         *)
Read(r) ==
  /\ pc[r] = "check" /\ ~IsOk(holder[r], fi[r]) /\ present[File(r)]
  /\ LET h == [data |-> version[File(r)], tag |-> fi[r]]
     IN /\ holder' = [holder EXCEPT ![r] = h]
        /\ IF IsOk(h, fi[r]) THEN Add(key[r], h) ELSE UNCHANGED cache
        /\ Serve(r, h.data)
  /\ lock' = <<>>
  /\ UNCHANGED <<fs, made, key, fi>>

OpenFailsNoUnlock(r) ==   \* faulty: the error path does not unlock
  /\ pc[r] = "check" /\ ~IsOk(holder[r], fi[r]) /\ NotRead(r)
  /\ Goto(r, "done")
  /\ UNCHANGED <<files, made, cache, lock, key, fi, holder, served>>

(* os.Open fails, or WriteFile while it reads: nothing is cached.          *)
OpenFails(r) ==
  /\ pc[r] = "check" /\ ~IsOk(holder[r], fi[r]) /\ NotRead(r)
  /\ Goto(r, "done")
  /\ lock' = <<>>
  /\ UNCHANGED <<files, made, cache, key, fi, holder, served>>

(* The file system: a file is written, or removed. *)
WriteFile(f) ==
  /\ version[f] < MaxVersion
  /\ version' = [version EXCEPT ![f] = @ + 1]
  /\ present' = [present EXCEPT ![f] = TRUE]
  /\ UNCHANGED <<faults, made, cache, lock, pc, key, fi, holder, served>>

RemoveFile(f) ==
  /\ present[f]
  /\ present' = [present EXCEPT ![f] = FALSE]
  /\ UNCHANGED <<version, faults, made, cache, lock, pc, key, fi, holder, served>>

Steps(r) ==
  \/ Lookup(r) \/ ServeWhole(r) \/ MakeCache(r) \/ GetShared(r)
  \/ GetExclusive(r) \/ Refilled(r) \/ Read(r) \/ OpenFails(r)

Next ==
  \/ \E r \in Requests : Steps(r)
  \/ \E f \in Files : WriteFile(f) \/ RemoveFile(f)

(* Every request is run; sync.RWMutex does not starve who waits for it.    *)
Spec == Init /\ [][Next]_vars /\ \A r \in Requests : WF_vars(Steps(r))

-----------------------------------------------------------------------------
(* Different versions can be told apart by modification time and size.     *)
DistinctStat == \A v, w \in Versions : Stat[v] = Stat[w] => v = w

(* A request is never answered with content older than the file it found,  *)
(* whatever was cached, evicted, filled by others or rewritten meanwhile.  *)
ServedFresh == \A r \in Requests : served[r] # 0 => served[r] >= fi[r]

(* The cache cannot be told from reading the file each time: every answer  *)
(* is a content the file has had since the request found it, and a request *)
(* goes without one only when the file is gone, or when the file system    *)
(* failed this very request (FreshRead).                                   *)
Wants == [r \in Requests |-> File(r)]
State == [r \in Requests |-> IF pc[r] = "stat" THEN "new"
                            ELSE IF pc[r] = "done" THEN "done" ELSE "found"]
Abs == INSTANCE FreshRead WITH wants <- Wants, state <- State
ReadsFresh == Abs!Spec

(* The cache keeps within its size and holds nothing that is too large,    *)
(* newer than its file, or older than its own modification time says.      *)
CacheSound ==
  /\ Cardinality(Cached) <= CacheNum
  /\ \A k \in Cached :
       /\ cache[k].data \notin Big
       /\ cache[k].tag <= cache[k].data
       /\ cache[k].data <= version[FileOf[k]]

(* Only the request that has the write lock is between it and the unlock.  *)
LockHeld == \A r \in Requests : pc[r] = "check" <=> lock = <<r>>

(* The holders in hand, and the version a request has stat'ed, that make   *)
(* ServedFresh and ReadsFresh hold.                                        *)
InHandSound ==
  \A r \in Requests :
    /\ holder[r].tag <= holder[r].data
    /\ holder[r].data <= version[File(r)]
    /\ fi[r] <= version[File(r)]
    /\ pc[r] \in {"whole", "make", "lookup", "lock", "check"} => fi[r] # 0
    /\ pc[r] # "done" => served[r] = 0

(* Every request ends, also when the file goes or fails while it is served. *)
Answered == \A r \in Requests : <>(pc[r] = "done")
=============================================================================
