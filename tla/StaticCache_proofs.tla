------------------------- MODULE StaticCache_proofs -------------------------
(***************************************************************************)
(* Proofs about StaticCache, for every number of requests, files and       *)
(* versions and every cache size.                                          *)
(***************************************************************************)
EXTENDS StaticCache, FiniteSetTheorems, TLAPS

USE StaticCacheAssumption DEF StaticCacheAssumption, Versions

(* Add keeps the cache a function from keys to holders and puts in nothing *)
(* but the new holder.                                                     *)
LEMMA AddResult ==
  ASSUME cache \in [Keys -> Holder \cup {NoHolder}],
         NEW k \in Keys, NEW h \in Holder, Add(k, h)
  PROVE  /\ cache' \in [Keys -> Holder \cup {NoHolder}]
         /\ \A j \in Keys : cache'[j] \in {cache[j], NoHolder} \/ (j = k /\ cache'[j] = h)
<1>1. CASE cache' = [cache EXCEPT ![k] = h]
  BY <1>1
<1>2. CASE \E victim \in Cached \ {k} :
             cache' = [cache EXCEPT ![k] = h, ![victim] = NoHolder]
  <2>1. PICK v \in Cached \ {k} : cache' = [cache EXCEPT ![k] = h, ![v] = NoHolder]
    BY <1>2
  <2>2. v \in Keys
    BY DEF Cached
  <2> QED BY <2>1, <2>2
<1> QED BY <1>1, <1>2 DEF Add

(* Add keeps the number of entries within StaticCacheFileNum.              *)
LEMMA AddBounded ==
  ASSUME cache \in [Keys -> Holder \cup {NoHolder}],
         Cardinality(Cached) <= CacheNum,
         NEW k \in Keys, NEW h \in Holder, Add(k, h)
  PROVE  Cardinality(Cached') <= CacheNum
<1> DEFINE more == Cached \cup {k}
<1>1. IsFiniteSet(Cached) /\ IsFiniteSet(more) /\ Cardinality(Cached) \in Nat
  BY FS_Subset, FS_AddElement, FS_CardinalityType DEF Cached
<1>2. h # NoHolder
  BY DEF Holder, NoHolder
<1>3. CASE Cardinality(more) <= CacheNum
  <2>1. cache' = [cache EXCEPT ![k] = h]
    BY <1>3 DEF Add
  <2>2. Cached' = more
    BY <2>1, <1>2 DEF Cached
  <2> QED BY <2>2, <1>3
<1>4. CASE ~(Cardinality(more) <= CacheNum)
  <2>1. PICK v \in Cached \ {k} : cache' = [cache EXCEPT ![k] = h, ![v] = NoHolder]
    BY <1>4 DEF Add
  <2>2. v \in Keys /\ v \in more
    BY DEF Cached
  <2>3. Cached' = more \ {v}
    BY <2>1, <2>2, <1>2 DEF Cached
  <2>4. Cardinality(more) <= Cardinality(Cached) + 1
    BY <1>1, FS_AddElement
  <2>5. Cardinality(more \ {v}) = Cardinality(more) - 1
    BY <1>1, <2>2, FS_RemoveElement
  <2>6. Cardinality(more) \in Nat
    BY <1>1, FS_CardinalityType
  <2> QED BY <1>1, <2>3, <2>4, <2>5, <2>6
<1> QED BY <1>3, <1>4

-----------------------------------------------------------------------------
(* Freshness needs versions that differ in modification time or size; the  *)
(* rest of the invariant does not.                                         *)
Fresh == DistinctStat => ServedFresh
IInv  == TypeOK /\ LockHeld /\ CacheSound /\ InHandSound /\ Fresh

LEMMA InitIInv == Init => IInv
<1> SUFFICES ASSUME Init PROVE IInv
  OBVIOUS
<1>1. TypeOK
  <2>1. version \in [Files -> Versions] /\ present \in [Files -> BOOLEAN] /\ faults \in Nat
    BY DEF Init
  <2>2. made \in BOOLEAN
    BY DEF Init
  <2>3. cache \in [Keys -> Holder \cup {NoHolder}] /\ lock \in {<<r>> : r \in Requests} \cup {<<>>}
    BY DEF Init, Empty
  <2>4. pc \in [Requests -> PCs] /\ key \in [Requests -> Keys]
    BY DEF Init, PCs
  <2>5. /\ fi \in [Requests -> Versions \cup {0}]
        /\ holder \in [Requests -> Holder \cup {NoHolder}]
        /\ served \in [Requests -> Versions \cup {0}]
    BY DEF Init
  <2> QED BY <2>1, <2>2, <2>3, <2>4, <2>5 DEF TypeOK
<1>2. LockHeld
  BY DEF Init, LockHeld
<1>3. CacheSound
  <2>1. Cached = {}
    BY DEF Init, Cached, Empty
  <2> QED BY <2>1, FS_EmptySet DEF CacheSound
<1>4. InHandSound /\ Fresh
  BY DEF Init, InHandSound, Fresh, ServedFresh, NoHolder, File
<1> QED BY <1>1, <1>2, <1>3, <1>4 DEF IInv

(* The holder in hand is up to date: with distinct stats it was tagged     *)
(* with the very version the request found.                                *)
LEMMA OkIsFresh ==
  ASSUME NEW h \in Holder \cup {NoHolder}, NEW v \in Versions,
         IsOk(h, v), h.tag <= h.data
  PROVE  h \in Holder /\ h.data \in Versions /\ (DistinctStat => h.data >= v)
BY DEF DistinctStat, IsOk, Holder, NoHolder

(* A step that changes neither the cache nor the files keeps CacheSound.   *)
LEMMA CacheSame ==
  ASSUME CacheSound, UNCHANGED <<cache, version>>
  PROVE  CacheSound'
BY DEF CacheSound, Cached

LEMMA StepIInv == ASSUME IInv, [Next]_vars PROVE IInv'
<1> USE DEF IInv
<1>1. ASSUME NEW r \in Requests, Lookup(r) PROVE IInv'
  <2> DEFINE v == version[File(r)]
  <2>1. v \in Versions /\ v # 0 /\ key[r] \in Keys /\ File(r) \in Files
    BY DEF TypeOK, File
  <2>2. /\ UNCHANGED <<version, present, made, cache, lock, key, holder, served>>
        /\ pc[r] = "stat" /\ faults' \in Nat
    BY <1>1 DEF Lookup, NotRead, files, TypeOK
  <2>3. \/ Goto(r, "done") /\ UNCHANGED fi
        \/ /\ fi' = [fi EXCEPT ![r] = v]
           /\ Goto(r, "whole") \/ Goto(r, "lookup") \/ Goto(r, "make")
    BY <1>1 DEF Lookup
  <2>4. pc' \in [Requests -> PCs] /\ fi' \in [Requests -> Versions \cup {0}]
    BY <2>1, <2>3 DEF TypeOK, Goto, PCs
  <2>5. TypeOK'
    BY <2>2, <2>4 DEF TypeOK
  <2>6. CacheSound'
    BY <2>2, CacheSame
  <2>7. LockHeld'
    BY <2>2, <2>3 DEF TypeOK, LockHeld, Goto
  <2>8. InHandSound'
    BY <2>1, <2>2, <2>3 DEF TypeOK, InHandSound, Goto, File
  <2>9. Fresh'
    BY <2>1, <2>2, <2>3 DEF TypeOK, Fresh, ServedFresh, InHandSound
  <2> QED BY <2>5, <2>6, <2>7, <2>8, <2>9
<1>2. ASSUME NEW r \in Requests, MakeCache(r) PROVE IInv'
  <2>1. TypeOK'
    BY <1>2 DEF TypeOK, MakeCache, Goto, fs, files, PCs, Empty
  <2>2. CacheSound'
    <3>1. Cached' = {}
      BY <1>2 DEF MakeCache, Cached, Empty
    <3> QED BY <3>1, FS_EmptySet DEF CacheSound
  <2>3. LockHeld' /\ InHandSound' /\ Fresh'
    BY <1>2 DEF TypeOK, MakeCache, Goto, fs, files, PCs, File, LockHeld, InHandSound, Fresh, ServedFresh
  <2> QED BY <2>1, <2>2, <2>3
<1>3. ASSUME NEW r \in Requests, GetShared(r) PROVE IInv'
  <2> DEFINE h == cache[key[r]]
  <2>1. /\ h \in Holder \cup {NoHolder} /\ h.tag <= h.data
        /\ h.data <= version[File(r)]
        /\ fi[r] \in Versions /\ key[r] \in Keys
    BY <1>3 DEF TypeOK, GetShared, CacheSound, Cached, InHandSound, NoHolder, File
  <2>2. IsOk(h, fi[r]) => h.data \in Versions /\ (DistinctStat => h.data >= fi[r])
    BY <2>1, OkIsFresh
  <2>3. TypeOK'
    BY <1>3, <2>1, <2>2 DEF TypeOK, GetShared, Serve, Goto, fs, files, PCs
  <2>4. CacheSound'
    BY <1>3, CacheSame DEF GetShared, fs, files
  <2>5. LockHeld' /\ InHandSound' /\ Fresh'
    BY <1>3, <2>1, <2>2 DEF TypeOK, GetShared, Serve, Goto, fs, files, PCs, File, LockHeld,
       InHandSound, Fresh, ServedFresh
  <2> QED BY <2>3, <2>4, <2>5
<1>4. ASSUME NEW r \in Requests, GetExclusive(r) PROVE IInv'
  <2>1. /\ cache[key[r]] \in Holder \cup {NoHolder}
        /\ cache[key[r]].tag <= cache[key[r]].data
        /\ cache[key[r]].data <= version[File(r)]
        /\ key[r] \in Keys /\ File(r) \in Files
    BY DEF TypeOK, CacheSound, Cached, NoHolder, File
  <2>2. TypeOK'
    BY <1>4, <2>1 DEF TypeOK, GetExclusive, Goto, fs, files, PCs
  <2>3. CacheSound'
    BY <1>4, CacheSame DEF GetExclusive, fs, files
  <2>4. LockHeld' /\ InHandSound' /\ Fresh'
    BY <1>4, <2>1 DEF TypeOK, GetExclusive, Goto, fs, files, PCs, File, LockHeld, InHandSound,
       Fresh, ServedFresh
  <2> QED BY <2>2, <2>3, <2>4
<1>5. ASSUME NEW r \in Requests, Refilled(r) PROVE IInv'
  <2>1. /\ holder[r] \in Holder \cup {NoHolder} /\ holder[r].tag <= holder[r].data
        /\ fi[r] \in Versions
    BY <1>5 DEF TypeOK, Refilled, InHandSound
  <2>2. holder[r].data \in Versions /\ (DistinctStat => holder[r].data >= fi[r])
    BY <1>5, <2>1, OkIsFresh DEF Refilled
  <2>3. TypeOK'
    BY <1>5, <2>2 DEF TypeOK, Refilled, Serve, Goto, fs, files, PCs
  <2>4. CacheSound'
    BY <1>5, CacheSame DEF Refilled, fs, files
  <2>5. LockHeld' /\ InHandSound' /\ Fresh'
    BY <1>5, <2>1, <2>2 DEF TypeOK, Refilled, Serve, Goto, fs, files, PCs, File, LockHeld,
       InHandSound, Fresh, ServedFresh
  <2> QED BY <2>3, <2>4, <2>5
<1>6. ASSUME NEW r \in Requests, Read(r) PROVE IInv'
  <2> DEFINE h == [data |-> version[File(r)], tag |-> fi[r]]
  <2>1. /\ key[r] \in Keys /\ File(r) \in Files
        /\ fi[r] \in Versions /\ version[File(r)] \in Versions
        /\ fi[r] <= version[File(r)]
    BY <1>6 DEF TypeOK, Read, InHandSound, File
  <2>2. h \in Holder /\ h.tag <= h.data
    BY <2>1 DEF Holder
  <2>3. /\ holder' = [holder EXCEPT ![r] = h]
        /\ Serve(r, h.data)
        /\ UNCHANGED <<version, present, faults, made, key, fi>> /\ lock' = <<>>
        /\ \/ IsOk(h, fi[r]) /\ Add(key[r], h)
           \/ UNCHANGED cache
    BY <1>6 DEF Read, fs, files
  <2>4. /\ cache' \in [Keys -> Holder \cup {NoHolder}]
        /\ \A j \in Keys : \/ cache'[j] \in {cache[j], NoHolder}
                           \/ j = key[r] /\ cache'[j] = h /\ h.data \notin Big
    BY <2>1, <2>2, <2>3, AddResult DEF TypeOK, IsOk
  <2>5. TypeOK'
    BY <2>1, <2>2, <2>3, <2>4 DEF TypeOK, Serve, Goto, PCs
  <2>6. CacheSound'
    <3>1. Cardinality(Cached') <= CacheNum
      <4>1. CASE UNCHANGED cache
        BY <4>1 DEF CacheSound, Cached
      <4>2. CASE Add(key[r], h)
        BY <4>2, <2>1, <2>2, AddBounded DEF TypeOK, CacheSound
      <4> QED BY <4>1, <4>2, <2>3
    <3>2. ASSUME NEW k \in Cached'
          PROVE  /\ cache'[k].data \notin Big
                 /\ cache'[k].tag <= cache'[k].data
                 /\ cache'[k].data <= version'[FileOf[k]]
      <4>1. k \in Keys /\ cache'[k] # NoHolder
        BY DEF Cached
      <4>2. CASE cache'[k] = cache[k]
        BY <4>1, <4>2, <2>3 DEF CacheSound, Cached
      <4>3. CASE k = key[r] /\ cache'[k] = h /\ h.data \notin Big
        BY <4>3, <2>1, <2>2, <2>3 DEF File
      <4> QED BY <4>1, <4>2, <4>3, <2>4
    <3> QED BY <3>1, <3>2 DEF CacheSound
  <2>7. pc[r] = "check"
    BY <1>6 DEF Read
  <2>8. LockHeld' /\ InHandSound' /\ Fresh'
    BY <2>1, <2>2, <2>3, <2>7 DEF TypeOK, Serve, Goto, PCs, File, LockHeld, InHandSound,
       Fresh, ServedFresh
  <2> QED BY <2>5, <2>6, <2>8
<1>7. ASSUME NEW r \in Requests, OpenFails(r) PROVE IInv'
  <2>1. TypeOK'
    BY <1>7 DEF TypeOK, OpenFails, NotRead, Goto, files, PCs
  <2>2. CacheSound'
    BY <1>7, CacheSame DEF OpenFails, files
  <2>3. LockHeld' /\ InHandSound' /\ Fresh'
    BY <1>7 DEF TypeOK, OpenFails, Goto, files, PCs, File, LockHeld, InHandSound, Fresh, ServedFresh
  <2> QED BY <2>1, <2>2, <2>3
<1>10. ASSUME NEW r \in Requests, ServeWhole(r) PROVE IInv'
  <2> DEFINE v == version[File(r)]
  <2>1. v \in Versions /\ fi[r] <= v
    BY DEF TypeOK, InHandSound, File
  <2>2. /\ UNCHANGED <<version, present, made, cache, lock, key, fi, holder>>
        /\ pc[r] = "whole" /\ faults' \in Nat
        /\ Serve(r, v) \/ (Goto(r, "done") /\ UNCHANGED served)
    BY <1>10 DEF ServeWhole, NotRead, files, TypeOK
  <2>3. TypeOK'
    BY <2>1, <2>2 DEF TypeOK, Serve, Goto, PCs
  <2>4. CacheSound'
    BY <2>2, CacheSame
  <2>5. LockHeld' /\ InHandSound' /\ Fresh'
    BY <2>1, <2>2 DEF TypeOK, Serve, Goto, PCs, File, LockHeld, InHandSound, Fresh, ServedFresh
  <2> QED BY <2>3, <2>4, <2>5
<1>8. ASSUME NEW f \in Files, WriteFile(f) \/ RemoveFile(f) PROVE IInv'
  <2>1. /\ version' \in [Files -> Versions]
        /\ \A g \in Files : version[g] <= version'[g]
    <3>1. CASE WriteFile(f)
      BY <3>1 DEF TypeOK, WriteFile
    <3>2. CASE UNCHANGED version
      BY <3>2 DEF TypeOK
    <3> QED BY <1>8, <3>1, <3>2 DEF RemoveFile
  <2>2. present' \in [Files -> BOOLEAN]
    BY <1>8 DEF TypeOK, WriteFile, RemoveFile
  <2>3. UNCHANGED <<faults, made, cache, lock, pc, key, fi, holder, served>>
    BY <1>8 DEF WriteFile, RemoveFile
  <2>4. TypeOK'
    BY <2>1, <2>2, <2>3 DEF TypeOK
  <2>5. CacheSound'
    BY <2>1, <2>3 DEF CacheSound, Cached, TypeOK, Holder
  <2>6. LockHeld' /\ Fresh'
    BY <2>3 DEF LockHeld, Fresh, ServedFresh
  <2>7. ASSUME NEW r \in Requests
        PROVE  holder[r].data <= version'[File(r)] /\ fi[r] <= version'[File(r)]
    <3>1. /\ File(r) \in Files /\ fi[r] \in Nat /\ holder[r].data \in Nat
          /\ version[File(r)] \in Nat /\ version'[File(r)] \in Nat
      BY <2>1 DEF TypeOK, File, Holder, NoHolder
    <3> QED BY <2>1, <3>1 DEF InHandSound
  <2>8. InHandSound'
    BY <2>3, <2>7 DEF InHandSound, File
  <2> QED BY <2>4, <2>5, <2>6, <2>8
<1>9. CASE UNCHANGED vars
  <2>1. TypeOK' /\ LockHeld' /\ InHandSound' /\ Fresh'
    BY <1>9 DEF vars, fs, files, TypeOK, LockHeld, InHandSound, Fresh, ServedFresh, File
  <2>2. CacheSound'
    BY <1>9, CacheSame DEF vars, fs, files
  <2> QED BY <2>1, <2>2
<1> QED BY <1>1, <1>2, <1>3, <1>4, <1>5, <1>6, <1>7, <1>8, <1>9, <1>10 DEF Next, Steps

(* The invariant holds in every reachable state. *)
THEOREM SpecIInv == Spec => []IInv
<1>1. IInv /\ [Next]_vars => IInv'
  BY StepIInv
<1> QED BY <1>1, InitIInv, PTL DEF Spec

(* Every variable keeps to its type. *)
THEOREM SpecTypeOK == Spec => []TypeOK
BY SpecIInv, PTL DEF IInv

(* When versions of a file differ in modification time or size, no request *)
(* is answered with content older than the file it found.                  *)
THEOREM SpecServedFresh == ASSUME DistinctStat PROVE Spec => []ServedFresh
<1>1. IInv => ServedFresh
  BY DEF IInv, Fresh
<1> QED BY <1>1, SpecIInv, PTL

(* The cache keeps within its size and holds only sound entries.           *)
THEOREM SpecCacheSound == Spec => []CacheSound
BY SpecIInv, PTL DEF IInv

(* lruLock is held for writing by the request that refills, and only then. *)
THEOREM SpecLockHeld == Spec => []LockHeld
BY SpecIInv, PTL DEF IInv
-----------------------------------------------------------------------------
(* Every step of the cache is a step of FreshRead, or none of its steps.   *)
LEMMA StepReadsFresh ==
  ASSUME DistinctStat, IInv, [Next]_vars
  PROVE  [Abs!Next]_(Abs!vars)
<1> USE DEF IInv
<1>1. Wants' = Wants
  BY DEF Wants, File, Next, Steps, Lookup, ServeWhole, MakeCache, GetShared, GetExclusive, Refilled,
     Read, OpenFails, WriteFile, RemoveFile, vars
<1>2. ASSUME NEW r \in Requests PROVE Wants[r] = File(r) /\ Wants[r] \in Files
  BY DEF Wants, File, TypeOK
<1>3. ASSUME NEW r \in Requests, Goto(r, "done") PROVE State' = [State EXCEPT ![r] = "done"]
  BY <1>3 DEF State, Goto, TypeOK
<1>4. ASSUME NEW r \in Requests, NEW v \in fi[r]..version[File(r)], Serve(r, v),
             pc[r] \in {"whole", "lookup", "check"}, UNCHANGED <<fs, fi>>
      PROVE  Abs!Answer(r)
  BY <1>1, <1>2, <1>3, <1>4 DEF Serve, Abs!Answer, State, fs, files
<1>5. ASSUME NEW r \in Requests, Lookup(r) PROVE Abs!Find(r) \/ Abs!NotRead(r)
  <2>1. CASE NotRead(r) /\ Goto(r, "done") /\ UNCHANGED fi
    BY <1>1, <1>2, <1>3, <1>5, <2>1 DEF Lookup, NotRead, Abs!NotRead, State, files
  <2>2. CASE ~(NotRead(r) /\ Goto(r, "done") /\ UNCHANGED fi)
    <3>1. State' = [State EXCEPT ![r] = "found"]
      BY <1>5, <2>2 DEF Lookup, Goto, State, TypeOK
    <3> QED BY <1>1, <1>2, <1>5, <2>2, <3>1 DEF Lookup, Abs!Find, State, files
  <2> QED BY <2>1, <2>2
<1>6. ASSUME NEW r \in Requests, MakeCache(r) \/ GetExclusive(r) PROVE UNCHANGED Abs!vars
  BY <1>1, <1>6 DEF MakeCache, GetExclusive, Goto, Abs!vars, State, fs, files, TypeOK
<1>7. ASSUME NEW r \in Requests, GetShared(r) PROVE Abs!Answer(r) \/ UNCHANGED Abs!vars
  <2>1. CASE IsOk(cache[key[r]], fi[r])
    <3>1. /\ cache[key[r]] \in Holder \cup {NoHolder} /\ fi[r] \in Versions
          /\ cache[key[r]].tag <= cache[key[r]].data
          /\ cache[key[r]].data <= version[File(r)]
      BY <1>7 DEF TypeOK, GetShared, CacheSound, Cached, InHandSound, NoHolder, File
    <3>2. cache[key[r]].data \in fi[r]..version[File(r)]
      BY <1>2, <2>1, <3>1, OkIsFresh DEF TypeOK
    <3> QED BY <1>4, <1>7, <2>1, <3>2 DEF GetShared
  <2>2. CASE ~IsOk(cache[key[r]], fi[r])
    BY <1>1, <1>7, <2>2 DEF GetShared, Goto, Abs!vars, State, fs, files, TypeOK
  <2> QED BY <2>1, <2>2
<1>8. ASSUME NEW r \in Requests, Refilled(r) PROVE Abs!Answer(r)
  <2>1. /\ holder[r] \in Holder \cup {NoHolder} /\ fi[r] \in Versions
        /\ holder[r].tag <= holder[r].data /\ holder[r].data <= version[File(r)]
    BY <1>8 DEF TypeOK, Refilled, InHandSound
  <2>2. holder[r].data \in fi[r]..version[File(r)]
    BY <1>2, <1>8, <2>1, OkIsFresh DEF TypeOK, Refilled
  <2> QED BY <1>4, <1>8, <2>2 DEF Refilled
<1>9. ASSUME NEW r \in Requests, Read(r) PROVE Abs!Answer(r)
  <2>1. fi[r] \in Versions /\ version[File(r)] \in Versions /\ fi[r] <= version[File(r)]
    BY <1>2, <1>9 DEF TypeOK, Read, InHandSound
  <2>2. version[File(r)] \in fi[r]..version[File(r)]
    BY <2>1
  <2> QED BY <1>4, <1>9, <2>2 DEF Read
<1>10. ASSUME NEW r \in Requests, OpenFails(r) PROVE Abs!NotRead(r)
  BY <1>1, <1>2, <1>3, <1>10 DEF OpenFails, NotRead, Abs!NotRead, State, files
<1>14. ASSUME NEW r \in Requests, ServeWhole(r) PROVE Abs!Answer(r) \/ Abs!NotRead(r)
  <2>1. CASE Serve(r, version[File(r)]) /\ UNCHANGED faults
    <3>1. fi[r] \in Versions /\ version[File(r)] \in Versions /\ fi[r] <= version[File(r)]
      BY <1>2, <1>14 DEF TypeOK, ServeWhole, InHandSound
    <3>2. version[File(r)] \in fi[r]..version[File(r)]
      BY <3>1
    <3> QED BY <1>4, <1>14, <2>1, <3>2 DEF ServeWhole, fs, files
  <2>2. CASE NotRead(r) /\ Goto(r, "done") /\ UNCHANGED served
    BY <1>1, <1>2, <1>3, <1>14, <2>2 DEF ServeWhole, NotRead, Abs!NotRead, State, files
  <2> QED BY <1>14, <2>1, <2>2 DEF ServeWhole
<1>11. ASSUME NEW f \in Files, WriteFile(f) PROVE Abs!Write(f)
  BY <1>1, <1>11 DEF WriteFile, Abs!Write, State
<1>12. ASSUME NEW f \in Files, RemoveFile(f) PROVE Abs!Remove(f)
  BY <1>1, <1>12 DEF RemoveFile, Abs!Remove, State
<1>13. CASE UNCHANGED vars
  BY <1>1, <1>13 DEF vars, fs, files, Abs!vars, State
<1> QED BY <1>5, <1>6, <1>7, <1>8, <1>9, <1>10, <1>11, <1>12, <1>13, <1>14
        DEF Next, Steps, Abs!Next

(* When versions of a file differ in modification time or size, requests  *)
(* see of the cache what they would see without one: StaticCache           *)
(* implements FreshRead.                                                   *)
THEOREM SpecReadsFresh == ASSUME DistinctStat PROVE Spec => ReadsFresh
<1>1. Init => Abs!Init
  BY DEF Init, Abs!Init, Wants, State, File
<1>2. IInv /\ [Next]_vars => [Abs!Next]_(Abs!vars)
  BY StepReadsFresh
<1> QED BY <1>1, <1>2, SpecIInv, PTL DEF Spec, ReadsFresh, Abs!Spec
=============================================================================
