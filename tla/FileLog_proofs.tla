--------------------------- MODULE FileLog_proofs ---------------------------
(***************************************************************************)
(* Proofs about FileLog, for any number of messages, files, sweeps, faults *)
(* and restarts: no line is lost in a rotation, none goes to a file that   *)
(* was rotated, the lines are counted exactly, and of the rotated files    *)
(* only old ones are removed.                                              *)
(***************************************************************************)
EXTENDS FileLog, FiniteSetTheorems, SequenceTheorems, TLAPS

-----------------------------------------------------------------------------
Paths == Nat \X Nat \X Nat
Inode == [path : Paths, gone : {"no", "overwritten", "aged"},
          lines : SUBSET Msgs, mtime : Hours]

Types ==
  /\ now \in Hours
  /\ file \in Seq(Inode)
  /\ w \in [conf : Confs, base : Nat, fd : {0} \cup DOMAIN file, opened : Hours,
            lines : Nat, curFiles : Nat]
  /\ lock \in {"free", "rename", "restart"}
  /\ timers \in [0..(MaxNow + DayLen) -> Nat]
  /\ sweep \in [Sweeps -> [at : {"off", "walk", "remove"}, path : {<<>>} \cup Paths]]
  /\ pc \in [Msgs -> {"new", "write", "ok", "failed"}]
  /\ wrote \in [Msgs -> Hours]
  /\ gaveUp \in BOOLEAN /\ faults \in 0..MaxFaults /\ restarts \in 0..MaxRestarts

(* Of the files of one day, only the last may be there without a number,   *)
(* and of those that got one path only the last may be there.  Nothing was *)
(* overwritten, and no line is younger than its file.                      *)
Live(i)    == file[i].gone = "no"
Aged(i)    == \A m \in file[i].lines : wrote[m] + w.conf.maxAge <= now
Named      == \A i \in DOMAIN file : file[i].path[3] = 0 => file[i].path[2] = 0
Order      == \A i, j \in DOMAIN file :
                i < j /\ file[i].path[1] = file[j].path[1] /\ Live(i) => file[i].path[3] # 0
Unique     == \A i, j \in DOMAIN file :
                i < j /\ file[i].path = file[j].path => ~Live(i)
NoneLost   == \A i \in DOMAIN file : file[i].gone # "overwritten"
Dated      == \A i \in DOMAIN file :
                /\ file[i].mtime <= now
                /\ \A m \in file[i].lines : wrote[m] <= file[i].mtime
FilesSound == Named /\ Order /\ Unique /\ NoneLost /\ Dated

(* Where the lines are.                                                    *)
Holders(m) == {i \in DOMAIN file : m \in file[i].lines}
LinesOnce  == /\ \A m \in Msgs : IF pc[m] = "ok"
                                THEN \E i \in DOMAIN file : Holders(m) = {i} ELSE Holders(m) = {}
              /\ \A i \in DOMAIN file : IsFiniteSet(file[i].lines)

(* The file that is open has the name that WriteMsg writes to, whether it  *)
(* is still there or not, and its lines are counted.                       *)
FdSound == w.fd # 0 => /\ file[w.fd].path = Current
                       /\ Limited => w.lines = Cardinality(file[w.fd].lines)

(* What a sweep is about to remove was old when it looked, unless the path *)
(* is that of the file being written.                                      *)
SweepSound ==
  \A s \in Sweeps : sweep[s].at = "remove" =>
    /\ sweep[s].path \in Paths
    /\ sweep[s].path[3] # 0 =>
         \E j \in DOMAIN file : file[j].path = sweep[s].path /\ Aged(j)

IInv == Types /\ FilesSound /\ LinesOnce /\ FdSound /\ SweepSound

-----------------------------------------------------------------------------
(* Opening a file: it is there afterwards under its path, and nothing else *)
(* has changed.                                                            *)
LEMMA DomainFile ==
  ASSUME Types
  PROVE  /\ Len(file) \in Nat /\ DOMAIN file = 1..Len(file)
         /\ \A i \in DOMAIN file : file[i] \in Inode
BY DEF Types

LEMMA Opened ==
  ASSUME Types, NEW path \in Paths
  PROVE  /\ OpenFile(path) \in Seq(Inode)
         /\ OpenFd(path) \in DOMAIN OpenFile(path) /\ OpenFd(path) # 0
         /\ DOMAIN file \subseteq DOMAIN OpenFile(path)
         /\ \A i \in DOMAIN file : OpenFile(path)[i] = file[i]
         /\ \A i \in DOMAIN OpenFile(path) \ DOMAIN file :
              /\ OpenFile(path)[i] = NewFile(path) /\ At(path) = {} /\ i = OpenFd(path)
              /\ \A j \in DOMAIN file : j < i
         /\ OpenFile(path)[OpenFd(path)].path = path
         /\ OpenFd(path) \notin DOMAIN file => OpenFile(path)[OpenFd(path)] = NewFile(path)
<1>1. Len(file) \in Nat /\ DOMAIN file = 1..Len(file) /\ file \in Seq(Inode)
  BY DomainFile DEF Types
<1>2. NewFile(path) \in Inode /\ NewFile(path).path = path
  BY DEF NewFile, Inode, Types
<1>3. CASE At(path) = {}
  <2>1. OpenFile(path) = Append(file, NewFile(path)) /\ OpenFd(path) = Len(file) + 1
    BY <1>3 DEF OpenFile, OpenFd
  <2>2. /\ Append(file, NewFile(path)) \in Seq(Inode)
        /\ Len(Append(file, NewFile(path))) = Len(file) + 1
        /\ DOMAIN Append(file, NewFile(path)) = 1..(Len(file) + 1)
        /\ \A i \in 1..Len(file) : Append(file, NewFile(path))[i] = file[i]
        /\ Append(file, NewFile(path))[Len(file) + 1] = NewFile(path)
    BY <1>1, <1>2, AppendProperties
  <2> QED BY <1>1, <1>2, <1>3, <2>1, <2>2
<1>4. CASE At(path) # {}
  <2>1. OpenFile(path) = file /\ OpenFd(path) \in At(path)
    BY <1>4 DEF OpenFile, OpenFd
  <2> QED BY <1>1, <2>1 DEF At
<1> QED BY <1>3, <1>4

(* Messages that are written stay written. *)
SameOk == \A m \in Msgs : pc'[m] = "ok" <=> pc[m] = "ok"

LEMMA OpenKeepsFiles ==
  ASSUME IInv, NEW path \in Paths, path[2] = 0, path[3] = 0,
         file' = OpenFile(path), UNCHANGED <<now, wrote>>, SameOk
  PROVE  FilesSound' /\ LinesOnce'
<1> DEFINE new == OpenFd(path)
<1>1. /\ DOMAIN file \subseteq DOMAIN file' /\ \A i \in DOMAIN file : file'[i] = file[i]
      /\ \A i \in DOMAIN file' \ DOMAIN file :
           file'[i] = NewFile(path) /\ At(path) = {} /\ i = new /\ \A j \in DOMAIN file : j < i
      /\ \A i \in DOMAIN file' : i \in Nat
  BY Opened DEF IInv
<1>2. /\ NewFile(path).path = path /\ NewFile(path).gone = "no"
      /\ NewFile(path).lines = {} /\ NewFile(path).mtime = now
  BY DEF NewFile
<1>3. now \in Nat
  BY DEF IInv, Types, Hours
<1> HIDE DEF new
<1>4. Named' /\ NoneLost'
  BY <1>1, <1>2 DEF IInv, FilesSound, Named, NoneLost
<1>5. Dated'
  BY <1>1, <1>2, <1>3 DEF IInv, FilesSound, Dated
<1>6. \A i \in DOMAIN file, j \in DOMAIN file' \ DOMAIN file :
        file[i].path[1] = path[1] /\ Live(i) => file[i].path[3] # 0
  <2> SUFFICES ASSUME NEW i \in DOMAIN file, At(path) = {}, file[i].path[1] = path[1],
                      Live(i), file[i].path[3] = 0
               PROVE  FALSE
    BY <1>1
  <2>1. file[i].path[2] = 0 /\ file[i].path \in Paths
    BY DomainFile DEF IInv, FilesSound, Named, Inode
  <2>2. file[i].path = path
    BY <2>1 DEF Paths
  <2> QED BY <2>2 DEF At, Live
<1>7. Order'
  <2> SUFFICES ASSUME NEW i \in DOMAIN file', NEW j \in DOMAIN file', i < j,
                      file'[i].path[1] = file'[j].path[1], file'[i].gone = "no"
               PROVE  file'[i].path[3] # 0
    BY DEF Order, Live
  <2>1. i \in DOMAIN file
    BY <1>1
  <2> QED BY <1>1, <1>2, <1>6, <2>1 DEF IInv, FilesSound, Order, Live
<1>8. Unique'
  <2> SUFFICES ASSUME NEW i \in DOMAIN file', NEW j \in DOMAIN file', i < j,
                      file'[i].path = file'[j].path, file'[i].gone = "no"
               PROVE  FALSE
    BY DEF Unique, Live
  <2>1. i \in DOMAIN file
    BY <1>1
  <2> QED BY <1>1, <1>2, <2>1 DEF IInv, FilesSound, Unique, Live, At
<1>9. \A m : Holders(m)' = Holders(m)
  BY <1>1, <1>2 DEF Holders
<1>10. LinesOnce'
  <2>1. \A i \in DOMAIN file' : IsFiniteSet(file'[i].lines)
    BY <1>1, <1>2, FS_EmptySet DEF IInv, LinesOnce
  <2> QED BY <1>1, <1>9, <2>1 DEF IInv, LinesOnce, SameOk
<1> QED BY <1>4, <1>5, <1>7, <1>8, <1>10 DEF FilesSound

(* Sweeps that go on know what they knew. *)
LEMMA SweepsKept ==
  ASSUME IInv, DOMAIN file \subseteq DOMAIN file',
         \A j \in DOMAIN file : file[j].path[3] # 0 =>
            /\ file'[j].path = file[j].path
            /\ \A m \in file'[j].lines : m \in file[j].lines /\ wrote'[m] = wrote[m],
         now' \in Hours, now <= now', w'.conf = w.conf,
         \A s \in Sweeps : sweep'[s].at = "remove" => sweep'[s] = sweep[s]
  PROVE  SweepSound'
<1> SUFFICES ASSUME NEW s \in Sweeps, sweep'[s].at = "remove"
             PROVE  /\ sweep'[s].path \in Paths
                    /\ sweep'[s].path[3] # 0 =>
                         \E j \in DOMAIN file' : file'[j].path = sweep'[s].path /\ Aged(j)'
  BY DEF SweepSound
<1>1. /\ sweep'[s].path = sweep[s].path /\ sweep[s].path \in Paths
      /\ sweep[s].path[3] # 0 => \E j \in DOMAIN file : file[j].path = sweep[s].path /\ Aged(j)
  BY DEF IInv, SweepSound
<1>2. ASSUME NEW j \in DOMAIN file, file[j].path = sweep[s].path, Aged(j), sweep[s].path[3] # 0
      PROVE  file'[j].path = sweep[s].path /\ Aged(j)'
  <2>1. ASSUME NEW m \in file'[j].lines
        PROVE  wrote'[m] + w'.conf.maxAge <= now'
    <3>1. /\ m \in file[j].lines /\ wrote'[m] = wrote[m]
          /\ wrote[m] + w.conf.maxAge <= now
      BY <1>2, <2>1 DEF Aged
    <3>2. m \in Msgs
      BY <3>1, DomainFile DEF IInv, Inode
    <3>3. wrote[m] \in Nat /\ now \in Nat /\ now' \in Nat /\ w.conf.maxAge \in Nat
      BY <3>2, FileLogAssumption DEF IInv, Types, Hours
    <3> QED BY <3>1, <3>3
  <2> QED BY <1>2, <2>1 DEF Aged
<1> QED BY <1>1, <1>2

-----------------------------------------------------------------------------
(* startLogger: the file that is opened is counted. *)
LEMMA CountedRight ==
  ASSUME IInv, NEW path \in Paths, NEW max \in Nat, NEW lines,
         lines = IF max > 0 /\ OpenFd(path) \in DOMAIN file
                 THEN Cardinality(file[OpenFd(path)].lines) ELSE 0
  PROVE  /\ lines \in Nat
         /\ max > 0 => lines = Cardinality(OpenFile(path)[OpenFd(path)].lines)
<1>1. CASE OpenFd(path) \in DOMAIN file
  <2>1. IsFiniteSet(file[OpenFd(path)].lines) /\ OpenFile(path)[OpenFd(path)] = file[OpenFd(path)]
    BY <1>1, Opened DEF IInv, LinesOnce
  <2> QED BY <1>1, <2>1, FS_CardinalityType
<1>2. CASE OpenFd(path) \notin DOMAIN file
  <2>1. OpenFile(path)[OpenFd(path)] = NewFile(path)
    BY <1>2, Opened DEF IInv
  <2>2. NewFile(path).lines = {}
    BY DEF NewFile
  <2> QED BY <1>2, <2>1, <2>2, FS_EmptySet
<1> QED BY <1>1, <1>2

WriterOK == w \in [conf : Confs, base : Nat, fd : {0} \cup DOMAIN file, opened : Hours,
                   lines : Nat, curFiles : Nat]

LEMMA StartLoggerKeeps ==
  ASSUME IInv, StartLogger, UNCHANGED <<now, wrote>>, SameOk,
         \A s \in Sweeps : sweep'[s].at = "remove" => sweep'[s] = sweep[s]
  PROVE  /\ FilesSound' /\ LinesOnce' /\ FdSound' /\ SweepSound'
         /\ file' \in Seq(Inode) /\ WriterOK'
         /\ timers' \in [0..(MaxNow + DayLen) -> Nat]
         /\ gaveUp' \in BOOLEAN /\ faults' \in 0..MaxFaults
<1>1. Types /\ now \in Hours /\ w.conf.maxLines \in Nat /\ w.base \in Nat
  BY FileLogAssumption DEF IInv, Types
<1>2. Current \in Paths /\ Current[2] = 0 /\ Current[3] = 0
  BY <1>1 DEF Current, Paths
<1>3. CASE /\ file' = OpenFile(Current) /\ w' = InitFd(OpenFd(Current))
           /\ timers' = StartTimer(w.conf) /\ gaveUp' = FALSE /\ faults' = faults
  <2> DEFINE fd == OpenFd(Current)
  <2>1. FilesSound' /\ LinesOnce'
    BY <1>2, <1>3, OpenKeepsFiles
  <2>2. /\ file' \in Seq(Inode) /\ fd \in DOMAIN file' /\ file'[fd].path = Current
        /\ DOMAIN file \subseteq DOMAIN file' /\ \A i \in DOMAIN file : file'[i] = file[i]
    BY <1>1, <1>2, <1>3, Opened
  <2>3. /\ Counted(fd) \in Nat
        /\ Limited => Counted(fd) = Cardinality(file'[fd].lines)
    BY <1>1, <1>2, <1>3, CountedRight DEF Counted, Limited
  <2> HIDE DEF fd
  <2>4. w' = [w EXCEPT !.fd = fd, !.lines = Counted(fd), !.opened = now]
    BY <1>3 DEF InitFd, fd
  <2>5. /\ WriterOK' /\ w'.conf = w.conf /\ w'.base = w.base /\ w'.fd = fd
        /\ w'.lines = Counted(fd)
    BY <1>1, <2>2, <2>3, <2>4 DEF Types, WriterOK
  <2>6. FdSound'
    BY <2>2, <2>3, <2>5 DEF FdSound, Current, Limited
  <2>7. SweepSound'
    <3>1. now' \in Hours /\ now <= now'
      BY <1>1 DEF Hours
    <3> QED BY <2>2, <2>5, <3>1, SweepsKept
  <2>8. timers' \in [0..(MaxNow + DayLen) -> Nat]
    <3>1. PICK t : timers' = timers \/ timers' = [timers EXCEPT ![t] = @ + 1]
      BY <1>3 DEF StartTimer
    <3>2. timers \in [0..(MaxNow + DayLen) -> Nat]
      BY <1>1 DEF Types
    <3>3. CASE t \in 0..(MaxNow + DayLen)
      BY <3>1, <3>2, <3>3
    <3>4. CASE t \notin 0..(MaxNow + DayLen)
      BY <3>1, <3>2, <3>4
    <3> QED BY <3>3, <3>4
  <2> QED BY <1>1, <1>3, <2>1, <2>2, <2>5, <2>6, <2>7, <2>8 DEF Types
<1>4. CASE /\ faults < MaxFaults /\ faults' = faults + 1
           /\ gaveUp' = (gaveUp \/ lock = "restart") /\ UNCHANGED <<file, w, timers>>
  <2>1. FilesSound' /\ LinesOnce' /\ FdSound'
    BY <1>4 DEF IInv, FilesSound, Named, Order, Unique, NoneLost, Dated, Live,
                LinesOnce, Holders, SameOk, FdSound, Current, Limited
  <2>2. SweepSound'
    <3>1. now' \in Hours /\ now <= now'
      BY <1>1 DEF Hours
    <3> QED BY <1>4, <3>1, SweepsKept
  <2> QED BY <1>1, <1>4, <2>1, <2>2, FileLogAssumption DEF Types, WriterOK
<1> QED BY <1>3, <1>4 DEF StartLogger

-----------------------------------------------------------------------------
(* Steps that change no file. *)
LEMMA QuietFiles ==
  ASSUME IInv, UNCHANGED disk, now' \in Hours, now <= now', SameOk,
         w'.conf = w.conf, w'.base = w.base,
         w'.fd = 0 \/ (w'.fd = w.fd /\ w'.lines = w.lines)
  PROVE  FilesSound' /\ LinesOnce' /\ FdSound'
<1>1. file' = file /\ wrote' = wrote
  BY DEF disk
<1>2. Named' /\ Order' /\ Unique' /\ NoneLost'
  BY <1>1 DEF IInv, FilesSound, Named, Order, Unique, NoneLost, Live
<1>3. Dated'
  <2>1. \A i \in DOMAIN file : file[i].mtime \in Nat /\ now \in Nat /\ now' \in Nat
    BY DomainFile DEF IInv, Types, Inode, Hours
  <2> QED BY <1>1, <2>1 DEF IInv, FilesSound, Dated
<1>4. LinesOnce'
  BY <1>1 DEF IInv, LinesOnce, Holders, SameOk
<1>5. FdSound'
  BY <1>1 DEF IInv, FdSound, Current, Limited
<1> QED BY <1>2, <1>3, <1>4, <1>5 DEF FilesSound

LEMMA QuietStep ==
  ASSUME IInv, UNCHANGED disk, now' \in Hours, now <= now', SameOk,
         w'.conf = w.conf, w'.base = w.base,
         w'.fd = 0 \/ (w'.fd = w.fd /\ w'.lines = w.lines),
         \A s \in Sweeps : sweep'[s].at = "remove" => sweep'[s] = sweep[s]
  PROVE  FilesSound' /\ LinesOnce' /\ FdSound' /\ SweepSound'
BY QuietFiles, SweepsKept DEF disk

LEMMA NowFacts ==
  ASSUME IInv
  PROVE  now \in Hours /\ now <= now /\ now \in Nat
BY DEF IInv, Types, Hours

LEMMA CheckFileNameStep ==
  ASSUME IInv, NEW m \in Msgs, CheckFileName(m)
  PROVE  IInv'
<1>1. /\ pc[m] = "new" /\ pc' = [pc EXCEPT ![m] = "write"] /\ StartLogger
      /\ UNCHANGED <<lock, sweep, wrote, now, restarts>>
  BY DEF CheckFileName, env
<1>2. Types /\ SameOk
  BY <1>1 DEF IInv, Types, SameOk
<1>3. pc' \in [Msgs -> {"new", "write", "ok", "failed"}]
  BY <1>1, <1>2 DEF Types
<1> QED BY <1>1, <1>2, <1>3, StartLoggerKeeps DEF IInv, Types, WriterOK

LEMMA RestartLoggerStep ==
  ASSUME IInv, RestartLogger
  PROVE  IInv'
<1>1. /\ StartLogger /\ lock' = "free" /\ UNCHANGED <<pc, wrote, now, restarts>>
  BY DEF RestartLogger, env
<1>2. PICK s \in Sweeps : sweep' = [sweep EXCEPT ![s].at = "walk"]
  BY DEF RestartLogger
<1>3. Types /\ SameOk
  BY <1>1 DEF IInv, SameOk
<1>4. /\ sweep' \in [Sweeps -> [at : {"off", "walk", "remove"}, path : {<<>>} \cup Paths]]
      /\ \A q \in Sweeps : sweep'[q].at = "remove" => sweep'[q] = sweep[q]
  BY <1>2, <1>3 DEF Types
<1> QED BY <1>1, <1>3, <1>4, StartLoggerKeeps DEF IInv, Types, WriterOK

LEMMA WriteFailsStep ==
  ASSUME IInv, NEW m \in Msgs, WriteFails(m)
  PROVE  IInv'
<1>1. /\ pc[m] = "write" /\ pc' = [pc EXCEPT ![m] = "failed"]
      /\ UNCHANGED <<file, w, lock, timers, sweep, wrote, gaveUp, now, restarts>>
  BY DEF WriteFails, env
<1>2. Types /\ SameOk /\ pc' \in [Msgs -> {"new", "write", "ok", "failed"}]
  BY <1>1 DEF IInv, Types, SameOk
<1>3. faults' \in 0..MaxFaults
  BY <1>2, FileLogAssumption DEF WriteFails, Types
<1>4. FilesSound' /\ LinesOnce' /\ FdSound' /\ SweepSound'
  BY <1>1, <1>2, NowFacts, QuietStep DEF disk
<1> QED BY <1>1, <1>2, <1>3, <1>4 DEF IInv, Types

LEMMA TimerStep ==
  ASSUME IInv, NEW t \in DOMAIN timers, TimerFires(t)
  PROVE  IInv'
<1>1. /\ timers[t] > 0 /\ timers' = [timers EXCEPT ![t] = @ - 1]
      /\ lock' \in {"free", "rename"}
      /\ UNCHANGED <<file, w, sweep, pc, wrote, gaveUp, faults, now, restarts>>
  BY DEF TimerFires, env, disk
<1>2. Types /\ SameOk
  BY <1>1 DEF IInv, SameOk
<1>3. timers' \in [0..(MaxNow + DayLen) -> Nat]
  BY <1>1, <1>2 DEF Types
<1>4. FilesSound' /\ LinesOnce' /\ FdSound' /\ SweepSound'
  BY <1>1, <1>2, NowFacts, QuietStep DEF disk
<1> QED BY <1>1, <1>2, <1>3, <1>4 DEF IInv, Types

LEMMA NothingToRenameStep ==
  ASSUME IInv, FileMissing \/ NoFreeNumber
  PROVE  IInv'
<1>1. /\ lock' \in {"free", "restart"} /\ gaveUp' \in {gaveUp, TRUE}
      /\ w' = w \/ w' = [w EXCEPT !.curFiles = CurFiles]
      /\ UNCHANGED <<file, timers, sweep, pc, wrote, faults, now, restarts>>
  BY DEF FileMissing, NoFreeNumber, env, disk
<1>2. Types /\ SameOk
  BY <1>1 DEF IInv, SameOk
<1>3. WriterOK' /\ w'.conf = w.conf /\ w'.base = w.base /\ w'.fd = w.fd /\ w'.lines = w.lines
  BY <1>1, <1>2 DEF Types, WriterOK, CurFiles
<1>4. FilesSound' /\ LinesOnce' /\ FdSound' /\ SweepSound'
  BY <1>1, <1>2, <1>3, NowFacts, QuietStep DEF disk
<1> QED BY <1>1, <1>2, <1>3, <1>4 DEF IInv, Types, WriterOK

LEMMA DestroyStep ==
  ASSUME IInv, Destroy
  PROVE  IInv'
<1>1. /\ w' = [w EXCEPT !.fd = 0]
      /\ UNCHANGED <<file, lock, timers, sweep, pc, wrote, gaveUp, faults, now, restarts>>
  BY DEF Destroy, env, disk
<1>2. Types /\ SameOk
  BY <1>1 DEF IInv, SameOk
<1>3. WriterOK' /\ w'.conf = w.conf /\ w'.base = w.base /\ w'.fd = 0
  BY <1>1, <1>2 DEF Types, WriterOK
<1>4. FilesSound' /\ LinesOnce' /\ FdSound' /\ SweepSound'
  BY <1>1, <1>2, <1>3, NowFacts, QuietStep DEF disk
<1> QED BY <1>1, <1>2, <1>3, <1>4 DEF IInv, Types, WriterOK

LEMMA TickStep ==
  ASSUME IInv, Tick
  PROVE  IInv'
<1>1. /\ now < MaxNow /\ now' = now + 1
      /\ UNCHANGED <<file, w, lock, timers, sweep, pc, wrote, gaveUp, faults, restarts>>
  BY DEF Tick, disk
<1>2. Types /\ SameOk
  BY <1>1 DEF IInv, SameOk
<1>3. now' \in Hours /\ now <= now'
  BY <1>1, <1>2, FileLogAssumption DEF Types, Hours
<1>4. FilesSound' /\ LinesOnce' /\ FdSound' /\ SweepSound'
  BY <1>1, <1>2, <1>3, QuietStep DEF disk
<1> QED BY <1>1, <1>2, <1>3, <1>4 DEF IInv, Types

-----------------------------------------------------------------------------
(* Files that change one by one are files still. *)
LEMMA FilesChanged ==
  ASSUME Types, DOMAIN file' = DOMAIN file, file' = [i \in DOMAIN file' |-> file'[i]],
         \A i \in DOMAIN file : file'[i] \in Inode
  PROVE  file' \in Seq(Inode)
<1>1. Len(file) \in Nat /\ DOMAIN file = 1..Len(file)
  BY DomainFile
<1>2. file' \in [1..Len(file) -> Inode]
  BY <1>1
<1> QED BY <1>1, <1>2

(* WriteMsg: the line goes to the file that is open. *)
LEMMA WriteLineStep ==
  ASSUME IInv, NEW m \in Msgs, WriteLine(m)
  PROVE  IInv'
<1> DEFINE fd == w.fd
<1>1. /\ pc[m] = "write" /\ pc' = [pc EXCEPT ![m] = "ok"] /\ wrote' = [wrote EXCEPT ![m] = now]
      /\ w' = [w EXCEPT !.lines = @ + 1] /\ fd # 0
      /\ file' = [file EXCEPT ![fd].lines = @ \cup {m}, ![fd].mtime = now]
      /\ UNCHANGED <<lock, timers, sweep, gaveUp, faults, now, restarts>>
  BY DEF WriteLine, env
<1>2. /\ Types /\ fd \in DOMAIN file /\ now \in Nat /\ now \in Hours /\ w.lines \in Nat
      /\ file[fd] = [path |-> file[fd].path, gone |-> file[fd].gone,
                     lines |-> file[fd].lines, mtime |-> file[fd].mtime]
  BY <1>1, DomainFile, NowFacts DEF IInv, Types, Inode
<1>3. /\ DOMAIN file' = DOMAIN file /\ file' = [i \in DOMAIN file' |-> file'[i]]
      /\ \A i \in DOMAIN file : i # fd => file'[i] = file[i]
      /\ file'[fd] = [file[fd] EXCEPT !.lines = @ \cup {m}, !.mtime = now]
  BY <1>1, <1>2
<1>4. file'[fd] = [path |-> file[fd].path, gone |-> file[fd].gone,
                   lines |-> file[fd].lines \cup {m}, mtime |-> now]
  <2> DEFINE f == file[fd]
             g == [path |-> f.path, gone |-> f.gone, lines |-> f.lines \cup {m}, mtime |-> f.mtime]
  <2>1. f = [path |-> f.path, gone |-> f.gone, lines |-> f.lines, mtime |-> f.mtime]
    BY <1>2
  <2> HIDE DEF f
  <2>2. [f EXCEPT !.lines = @ \cup {m}] = g
    BY <2>1
  <2>3. [f EXCEPT !.lines = @ \cup {m}, !.mtime = now] = [g EXCEPT !.mtime = now]
    BY <2>2
  <2> QED BY <1>3, <2>3 DEF f
<1>5. /\ \A i \in DOMAIN file : file'[i].path = file[i].path /\ file'[i].gone = file[i].gone
      /\ \A i \in DOMAIN file : i # fd => file'[i].lines = file[i].lines
      /\ file'[fd].lines = file[fd].lines \cup {m}
  BY <1>3, <1>4
<1> HIDE DEF fd
<1>6. /\ wrote \in [Msgs -> Hours] /\ pc \in [Msgs -> {"new", "write", "ok", "failed"}]
      /\ \A i \in DOMAIN file : file[i].lines \subseteq Msgs /\ m \notin file[i].lines
  <2>1. Holders(m) = {}
    BY <1>1 DEF IInv, LinesOnce
  <2> QED BY <1>2, <2>1, DomainFile DEF Types, Inode, Holders
<1>7. Types'
  <2>1. file' \in Seq(Inode)
    <3>1. file'[fd] \in Inode
      BY <1>2, <1>4, DomainFile DEF Inode
    <3>2. \A i \in DOMAIN file : file'[i] \in Inode
      BY <1>2, <1>3, <3>1, DomainFile
    <3> QED BY <1>2, <1>3, <3>2, FilesChanged
  <2>2. WriterOK'
    <3>1. WriterOK /\ w.lines + 1 \in Nat
      BY <1>2 DEF Types, WriterOK
    <3>2. w' \in [conf : Confs, base : Nat, fd : {0} \cup DOMAIN file, opened : Hours,
                 lines : Nat, curFiles : Nat]
      BY <1>1, <3>1 DEF WriterOK
    <3> QED BY <1>1, <1>3, <3>2 DEF WriterOK
  <2>3. wrote' \in [Msgs -> Hours] /\ pc' \in [Msgs -> {"new", "write", "ok", "failed"}]
    BY <1>1, <1>2, <1>6
  <2> QED BY <1>1, <1>2, <2>1, <2>2, <2>3 DEF Types, WriterOK
<1>8. Named' /\ Order' /\ Unique' /\ NoneLost'
  BY <1>3, <1>5 DEF IInv, FilesSound, Named, Order, Unique, NoneLost, Live
<1>9. Dated'
  <2> SUFFICES ASSUME NEW i \in DOMAIN file
               PROVE  /\ file'[i].mtime <= now
                      /\ \A n \in file'[i].lines : wrote'[n] <= file'[i].mtime
    BY <1>1, <1>3 DEF Dated
  <2>1. file[i].mtime <= now /\ \A n \in file[i].lines : wrote[n] <= file[i].mtime
    BY DEF IInv, FilesSound, Dated
  <2>2. \A n \in file[i].lines : wrote'[n] = wrote[n] /\ wrote[n] \in Nat
    BY <1>1, <1>6 DEF Hours
  <2>3. file[i].mtime \in Nat
    BY <1>2, DomainFile DEF Inode, Hours
  <2>4. wrote'[m] = now
    BY <1>1, <1>6
  <2>5. CASE i = fd
    BY <1>2, <1>4, <2>1, <2>2, <2>3, <2>4, <2>5
  <2>6. CASE i # fd
    BY <1>2, <1>3, <2>1, <2>2, <2>6
  <2> QED BY <2>5, <2>6
<1>10. LinesOnce'
  <2>1. \A i \in DOMAIN file : IsFiniteSet(file'[i].lines)
    <3>1. IsFiniteSet(file[fd].lines \cup {m})
      BY <1>2, FS_AddElement DEF IInv, LinesOnce
    <3> QED BY <1>5, <3>1 DEF IInv, LinesOnce
  <2>2. Holders(m)' = {fd}
    BY <1>2, <1>3, <1>5, <1>6 DEF Holders
  <2>3. \A n \in Msgs \ {m} : Holders(n)' = Holders(n) /\ pc'[n] = pc[n]
    BY <1>1, <1>3, <1>5, <1>6 DEF Holders
  <2>4. pc'[m] = "ok"
    BY <1>1, <1>6
  <2> QED BY <1>2, <1>3, <2>1, <2>2, <2>3, <2>4 DEF IInv, LinesOnce
<1>11. w'.conf = w.conf /\ w'.base = w.base /\ w'.fd = fd /\ w'.lines = w.lines + 1
  BY <1>1, <1>2 DEF Types, fd
<1>12. FdSound'
  <2>1. Cardinality(file[fd].lines \cup {m}) = Cardinality(file[fd].lines) + 1
    BY <1>2, <1>6, FS_AddElement DEF IInv, LinesOnce
  <2>2. file[fd].path = Current /\ (Limited => w.lines = Cardinality(file[fd].lines))
    BY <1>1 DEF IInv, FdSound, fd
  <2> QED BY <1>2, <1>5, <1>11, <2>1, <2>2 DEF FdSound, Current, Limited
<1>13. SweepSound'
  <2>1. file[fd].path[3] = 0
    BY <1>1 DEF IInv, FdSound, Current, fd
  <2>2. \A j \in DOMAIN file : file[j].path[3] # 0 =>
          /\ file'[j].path = file[j].path
          /\ \A n \in file'[j].lines : n \in file[j].lines /\ wrote'[n] = wrote[n]
    BY <1>1, <1>5, <1>6, <2>1
  <2> QED BY <1>1, <1>2, <1>3, <1>11, <2>2, SweepsKept
<1> QED BY <1>7, <1>8, <1>9, <1>10, <1>12, <1>13 DEF IInv, FilesSound

-----------------------------------------------------------------------------
(* doRotate: the file takes a path that is free. *)
LEMMA RenamedFacts ==
  ASSUME IInv, NEW n \in FirstFree
  PROVE  /\ RotatedPath(n) \in Paths /\ RotatedPath(n)[1] = w.base /\ RotatedPath(n)[3] # 0
         /\ At(RotatedPath(n)) = {}
<1>1. Types /\ w.base \in Nat /\ w.curFiles \in Nat /\ now \in Nat /\ w.opened \in Nat
  BY DEF IInv, Types, Hours
<1>2. n \in FreeNumbers
  BY DEF FirstFree
<1>3. n \in Nat /\ n # 0
  <2>1. n \in (w.curFiles + 1)..MaxFiles \/ n = w.curFiles + 1
    BY <1>2 DEF FreeNumbers
  <2> QED BY <1>1, <2>1, FileLogAssumption
<1>4. Stamp(now) \in Nat /\ Stamp(w.opened) \in Nat
  <2>1. \A t \in Nat : t \div DayLen \in Nat
    BY FileLogAssumption
  <2> QED BY <1>1, <2>1 DEF Stamp, Day
<1>5. At(RotatedPath(n)) = {}
  BY <1>2 DEF FreeNumbers, RotatedPath
<1> QED BY <1>1, <1>3, <1>4, <1>5 DEF RotatedPath, Paths

LEMMA RenameFiles ==
  ASSUME IInv, NEW n \in FirstFree, file' = Renamed(RotatedPath(n)),
         UNCHANGED <<now, wrote, sweep, pc>>, w'.conf = w.conf
  PROVE  file' \in Seq(Inode) /\ DOMAIN file' = DOMAIN file
         /\ FilesSound' /\ LinesOnce' /\ SweepSound'
<1> DEFINE new == RotatedPath(n)
           old == Current
<1>1. /\ new \in Paths /\ new[1] = w.base /\ new[3] # 0 /\ At(new) = {}
      /\ old[1] = w.base /\ old[3] = 0 /\ Types
  BY RenamedFacts DEF Current, IInv
<1>2. /\ DOMAIN file' = DOMAIN file /\ file' = [i \in DOMAIN file' |-> file'[i]]
      /\ \A i \in DOMAIN file :
           file'[i] = IF i \in At(old) THEN [file[i] EXCEPT !.path = new] ELSE file[i]
  BY <1>1 DEF Renamed
<1> HIDE DEF new
<1>3. \A i \in DOMAIN file :
        file[i] = [path |-> file[i].path, gone |-> file[i].gone,
                   lines |-> file[i].lines, mtime |-> file[i].mtime]
  BY <1>1, DomainFile DEF Inode
<1>4. \A i \in DOMAIN file :
        /\ file'[i].gone = file[i].gone /\ file'[i].lines = file[i].lines
        /\ file'[i].mtime = file[i].mtime
        /\ file'[i].path = IF i \in At(old) THEN new ELSE file[i].path
        /\ file'[i] \in Inode
  <2> SUFFICES ASSUME NEW i \in DOMAIN file
               PROVE  /\ file'[i].gone = file[i].gone /\ file'[i].lines = file[i].lines
                      /\ file'[i].mtime = file[i].mtime
                      /\ file'[i].path = IF i \in At(old) THEN new ELSE file[i].path
                      /\ file'[i] \in Inode
    OBVIOUS
  <2>1. CASE i \in At(old)
    <3>1. file'[i] = [path |-> new, gone |-> file[i].gone,
                      lines |-> file[i].lines, mtime |-> file[i].mtime]
      BY <1>2, <1>3, <2>1
    <3> QED BY <1>1, <2>1, <3>1, DomainFile DEF Inode
  <2>2. CASE i \notin At(old)
    BY <1>1, <1>2, <2>2, DomainFile
  <2> QED BY <2>1, <2>2
<1>5. file' \in Seq(Inode)
  BY <1>1, <1>2, <1>4, FilesChanged
<1>6. \A i \in At(old) : i \in DOMAIN file /\ Live(i) /\ file[i].path = old
  BY DEF At, Live
<1>7. \A i \in DOMAIN file : file'[i].path[1] = file[i].path[1]
  BY <1>1, <1>4, <1>6
<1>8. Named' /\ NoneLost'
  BY <1>1, <1>2, <1>4 DEF IInv, FilesSound, Named, NoneLost
<1>9. Dated'
  BY <1>2, <1>4 DEF IInv, FilesSound, Dated
<1>10. Order'
  BY <1>1, <1>2, <1>4, <1>7 DEF IInv, FilesSound, Order, Live
<1>11. Unique'
  <2> SUFFICES ASSUME NEW i \in DOMAIN file, NEW j \in DOMAIN file, i < j,
                      file'[i].path = file'[j].path, Live(i)
               PROVE  FALSE
    BY <1>2, <1>4 DEF Unique, Live
  <2>1. CASE i \in At(old)
    BY <1>1, <1>6, <1>7, <2>1 DEF IInv, FilesSound, Order
  <2>2. CASE i \notin At(old) /\ j \in At(old)
    <3>1. file[i].path = new
      BY <1>4, <2>2
    <3> QED BY <1>1, <3>1 DEF At, Live
  <2>3. CASE i \notin At(old) /\ j \notin At(old)
    BY <1>4, <2>3 DEF IInv, FilesSound, Unique
  <2> QED BY <2>1, <2>2, <2>3
<1>12. LinesOnce'
  <2>1. \A m : Holders(m)' = Holders(m)
    BY <1>2, <1>4 DEF Holders
  <2> QED BY <1>2, <1>4, <2>1 DEF IInv, LinesOnce
<1>13. SweepSound'
  <2>1. \A j \in DOMAIN file : file[j].path[3] # 0 =>
          /\ file'[j].path = file[j].path
          /\ \A m \in file'[j].lines : m \in file[j].lines /\ wrote'[m] = wrote[m]
    BY <1>1, <1>4, <1>6
  <2> QED BY <1>2, <2>1, NowFacts, SweepsKept
<1> QED BY <1>2, <1>5, <1>8, <1>9, <1>10, <1>11, <1>12, <1>13 DEF FilesSound

LEMMA RenameStep ==
  ASSUME IInv, Rename
  PROVE  IInv'
<1>1. /\ lock' = "restart" /\ w' = [w EXCEPT !.fd = 0, !.curFiles = CurFiles]
      /\ UNCHANGED <<timers, sweep, pc, wrote, gaveUp, now, restarts>>
  BY DEF Rename, env
<1>2. Types /\ SameOk
  BY <1>1 DEF IInv, SameOk
<1>3. w'.conf = w.conf /\ w'.base = w.base /\ w'.fd = 0 /\ WriterOK'
  <2>1. CurFiles \in Nat
    BY <1>2 DEF Types, CurFiles
  <2>2. w' \in [conf : Confs, base : Nat, fd : {0}, opened : Hours, lines : Nat, curFiles : Nat]
    BY <1>1, <1>2, <2>1 DEF Types
  <2>3. w'.conf = w.conf /\ w'.base = w.base /\ w'.fd = 0
    BY <1>1, <1>2 DEF Types
  <2> QED BY <2>2, <2>3 DEF WriterOK
<1>4. FdSound'
  BY <1>3 DEF FdSound
<1>5. CASE file' = file /\ faults < MaxFaults /\ faults' = faults + 1
  <2>1. FilesSound' /\ LinesOnce' /\ SweepSound'
    BY <1>1, <1>2, <1>3, <1>5, NowFacts, QuietStep DEF disk
  <2>2. faults' \in 0..MaxFaults
    BY <1>2, <1>5, FileLogAssumption DEF Types
  <2> QED BY <1>1, <1>2, <1>3, <1>4, <1>5, <2>1, <2>2 DEF IInv, Types, WriterOK
<1>6. CASE (\E n \in FirstFree : file' = Renamed(RotatedPath(n))) /\ faults' = faults
  <2>1. file' \in Seq(Inode) /\ FilesSound' /\ LinesOnce' /\ SweepSound'
    BY <1>1, <1>3, <1>6, RenameFiles
  <2> QED BY <1>1, <1>2, <1>3, <1>4, <1>6, <2>1 DEF IInv, Types, WriterOK
<1> QED BY <1>5, <1>6 DEF Rename

-----------------------------------------------------------------------------
(* deleteOldLog, whose path is old when it is noted. *)
LEMMA SweepTypes ==
  ASSUME Types, NEW s \in Sweeps, NEW at \in {"off", "walk", "remove"},
         NEW path \in {<<>>} \cup Paths,
         sweep' = [sweep EXCEPT ![s] = [at |-> at, path |-> path]]
  PROVE  sweep' \in [Sweeps -> [at : {"off", "walk", "remove"}, path : {<<>>} \cup Paths]]
BY DEF Types

LEMMA SweepLookStep ==
  ASSUME IInv, NEW s \in Sweeps, SweepLook(s)
  PROVE  IInv'
<1>1. PICK i \in DOMAIN file :
        /\ Live(i) /\ Old(i)
        /\ sweep' = [sweep EXCEPT ![s] = [at |-> "remove", path |-> file[i].path]]
  BY DEF SweepLook, Live
<1>2. UNCHANGED <<file, wrote, w, lock, timers, pc, gaveUp, faults, now, restarts>>
  BY DEF SweepLook, disk, env
<1>3. Types /\ SameOk /\ file[i].path \in Paths
  BY <1>1, <1>2, DomainFile DEF IInv, SameOk, Inode
<1>4. FilesSound' /\ LinesOnce' /\ FdSound'
  BY <1>2, <1>3, NowFacts, QuietFiles DEF disk
<1>5. Aged(i)
  <2> SUFFICES ASSUME NEW m \in file[i].lines
               PROVE  wrote[m] + w.conf.maxAge <= now
    BY DEF Aged
  <2>1. wrote[m] <= file[i].mtime /\ file[i].mtime + w.conf.maxAge <= now
    BY <1>1 DEF IInv, FilesSound, Dated, Old
  <2>2. m \in Msgs /\ file[i].mtime \in Nat
    BY <1>3, DomainFile DEF Inode, Hours
  <2>3. wrote[m] \in Nat /\ w.conf.maxAge \in Nat /\ now \in Nat
    BY <1>3, <2>2, FileLogAssumption, NowFacts DEF Types, Hours
  <2> QED BY <2>1, <2>2, <2>3
<1>6. SweepSound'
  <2> SUFFICES ASSUME NEW q \in Sweeps, sweep'[q].at = "remove"
               PROVE  /\ sweep'[q].path \in Paths
                      /\ sweep'[q].path[3] # 0 =>
                           \E j \in DOMAIN file : file[j].path = sweep'[q].path /\ Aged(j)
    BY <1>2 DEF SweepSound, Aged
  <2>1. CASE q = s
    <3>1. sweep'[q].path = file[i].path
      BY <1>1, <1>3, <2>1 DEF Types
    <3> QED BY <1>3, <1>5, <3>1
  <2>2. CASE q # s
    <3>1. sweep'[q] = sweep[q]
      BY <1>1, <1>3, <2>2 DEF Types
    <3> QED BY <3>1 DEF IInv, SweepSound
  <2> QED BY <2>1, <2>2
<1>7. sweep' \in [Sweeps -> [at : {"off", "walk", "remove"}, path : {<<>>} \cup Paths]]
  BY <1>1, <1>3, SweepTypes
<1> QED BY <1>2, <1>3, <1>4, <1>6, <1>7 DEF IInv, Types

LEMMA SweepEndsStep ==
  ASSUME IInv, NEW s \in Sweeps, SweepEnds(s)
  PROVE  IInv'
<1>1. /\ sweep' = [sweep EXCEPT ![s].at = "off"]
      /\ UNCHANGED <<file, wrote, w, lock, timers, pc, gaveUp, faults, now, restarts>>
  BY DEF SweepEnds, disk, env
<1>2. Types /\ SameOk
  BY <1>1 DEF IInv, SameOk
<1>3. /\ sweep' \in [Sweeps -> [at : {"off", "walk", "remove"}, path : {<<>>} \cup Paths]]
      /\ \A q \in Sweeps : sweep'[q].at = "remove" => sweep'[q] = sweep[q]
  BY <1>1, <1>2 DEF Types
<1>4. FilesSound' /\ LinesOnce' /\ FdSound' /\ SweepSound'
  BY <1>1, <1>2, <1>3, NowFacts, QuietStep DEF disk
<1> QED BY <1>1, <1>2, <1>3, <1>4 DEF IInv, Types

LEMMA RemovedFiles ==
  ASSUME IInv, NEW s \in Sweeps, SweepRemove(s)
  PROVE  /\ DOMAIN file' = DOMAIN file /\ file' \in Seq(Inode)
         /\ \A i \in DOMAIN file :
              /\ file'[i].path = file[i].path /\ file'[i].lines = file[i].lines
              /\ file'[i].mtime = file[i].mtime
              /\ file'[i].gone = IF i \in At(sweep[s].path) THEN "aged" ELSE file[i].gone
<1> DEFINE gone == At(sweep[s].path)
<1> HIDE DEF gone
<1>1. Types /\ file' = [i \in DOMAIN file |-> IF i \in gone THEN [file[i] EXCEPT !.gone = "aged"] ELSE file[i]]
  BY DEF SweepRemove, IInv, gone
<1>2. DOMAIN file' = DOMAIN file /\ file' = [i \in DOMAIN file' |-> file'[i]]
  BY <1>1
<1>3. \A i \in DOMAIN file :
        file[i] = [path |-> file[i].path, gone |-> file[i].gone,
                   lines |-> file[i].lines, mtime |-> file[i].mtime]
  BY <1>1, DomainFile DEF Inode
<1>4. \A i \in DOMAIN file :
        file'[i] = IF i \in gone THEN [path |-> file[i].path, gone |-> "aged",
                                       lines |-> file[i].lines, mtime |-> file[i].mtime]
                   ELSE file[i]
  BY <1>1, <1>3
<1>5. \A i \in DOMAIN file : file'[i] \in Inode
  BY <1>1, <1>4, DomainFile DEF Inode
<1>6. file' \in Seq(Inode)
  BY <1>1, <1>2, <1>5, FilesChanged
<1> QED BY <1>2, <1>4, <1>6 DEF gone

LEMMA SweepRemoveStep ==
  ASSUME IInv, NEW s \in Sweeps, SweepRemove(s)
  PROVE  IInv'
<1>1. /\ sweep' = [sweep EXCEPT ![s] = [at |-> "walk", path |-> <<>>]]
      /\ UNCHANGED <<wrote, w, lock, timers, pc, gaveUp, faults, now, restarts>>
  BY DEF SweepRemove, env
<1>2. Types /\ SameOk
  BY <1>1 DEF IInv, SameOk
<1>3. /\ DOMAIN file' = DOMAIN file /\ file' \in Seq(Inode)
      /\ \A i \in DOMAIN file :
           /\ file'[i].path = file[i].path /\ file'[i].lines = file[i].lines
           /\ file'[i].mtime = file[i].mtime
           /\ file'[i].gone = "aged" \/ file'[i].gone = file[i].gone
  BY RemovedFiles
<1>4. /\ sweep' \in [Sweeps -> [at : {"off", "walk", "remove"}, path : {<<>>} \cup Paths]]
      /\ \A q \in Sweeps : sweep'[q].at = "remove" => sweep'[q] = sweep[q]
  BY <1>1, <1>2, SweepTypes DEF Types
<1>5. Named' /\ Order' /\ Unique' /\ NoneLost'
  BY <1>3 DEF IInv, FilesSound, Named, Order, Unique, NoneLost, Live
<1>6. Dated'
  BY <1>1, <1>3 DEF IInv, FilesSound, Dated
<1>7. LinesOnce'
  <2>1. \A m : Holders(m)' = Holders(m)
    BY <1>3 DEF Holders
  <2> QED BY <1>1, <1>3, <2>1 DEF IInv, LinesOnce
<1>8. FdSound'
  <2>1. w.fd \in {0} \cup DOMAIN file
    BY <1>2 DEF Types
  <2> QED BY <1>1, <1>3, <2>1 DEF IInv, FdSound, Current, Limited
<1>9. SweepSound'
  BY <1>1, <1>3, <1>4, NowFacts, SweepsKept
<1>10. WriterOK'
  BY <1>1, <1>2, <1>3 DEF Types, WriterOK
<1> QED BY <1>1, <1>2, <1>3, <1>4, <1>5, <1>6, <1>7, <1>8, <1>9, <1>10
        DEF IInv, Types, FilesSound, WriterOK

-----------------------------------------------------------------------------
LEMMA RestartStep ==
  ASSUME IInv, Restart
  PROVE  IInv'
<1> DEFINE path == <<Day(now), 0, 0>>
           fd   == OpenFd(path)
           lines == IF w.conf.maxLines > 0 /\ At(path) # {} THEN Cardinality(file[fd].lines) ELSE 0
<1>1. /\ restarts < MaxRestarts /\ restarts' = restarts + 1 /\ lock' = "free" /\ gaveUp' = FALSE
      /\ file' = OpenFile(path)
      /\ w' = [conf |-> w.conf, base |-> Day(now), fd |-> fd, opened |-> now,
               lines |-> lines, curFiles |-> 0]
      /\ timers' = [t \in DOMAIN timers |->
                      IF Rotates(w.conf) /\ t = NextPeriod(w.conf, now) THEN 1 ELSE 0]
      /\ sweep' = [s \in Sweeps |-> [at |-> "off", path |-> <<>>]]
      /\ pc' = [m \in Msgs |-> IF pc[m] = "write" THEN "failed" ELSE pc[m]]
      /\ UNCHANGED <<now, wrote, faults>>
  BY DEF Restart, Start
<1>2. Types /\ SameOk /\ pc' \in [Msgs -> {"new", "write", "ok", "failed"}]
  BY <1>1 DEF IInv, Types, SameOk
<1>3. Day(now) \in Nat /\ path \in Paths /\ path[2] = 0 /\ path[3] = 0
  <2>1. \A t \in Nat : t \div DayLen \in Nat
    BY FileLogAssumption
  <2> QED BY <2>1, NowFacts DEF Day, Paths
<1>4. /\ file' \in Seq(Inode) /\ fd \in DOMAIN file' /\ file'[fd].path = path
      /\ (fd \in DOMAIN file <=> At(path) # {})
  <2>1. fd \in DOMAIN file <=> At(path) # {}
    BY <1>2, DomainFile DEF OpenFd, At
  <2> QED BY <1>1, <1>2, <1>3, <2>1, Opened
<1>5. FilesSound' /\ LinesOnce'
  BY <1>1, <1>2, <1>3, OpenKeepsFiles
<1>6. lines \in Nat /\ (w.conf.maxLines > 0 => lines = Cardinality(file'[fd].lines))
  <2>1. w.conf.maxLines \in Nat
    BY <1>2, FileLogAssumption DEF Types
  <2> QED BY <1>1, <1>3, <1>4, <2>1, CountedRight
<1> HIDE DEF fd, lines
<1>7. WriterOK' /\ w'.conf = w.conf /\ w'.base = Day(now) /\ w'.fd = fd /\ w'.lines = lines
  BY <1>1, <1>2, <1>3, <1>4, <1>6 DEF WriterOK, Types
<1>8. FdSound'
  BY <1>4, <1>6, <1>7 DEF FdSound, Current, Limited
<1>9. SweepSound'
  BY <1>1 DEF SweepSound
<1>10. /\ timers' \in [0..(MaxNow + DayLen) -> Nat] /\ restarts' \in 0..MaxRestarts
       /\ sweep' \in [Sweeps -> [at : {"off", "walk", "remove"}, path : {<<>>} \cup Paths]]
  BY <1>1, <1>2, FileLogAssumption DEF Types
<1> QED BY <1>1, <1>2, <1>4, <1>5, <1>7, <1>8, <1>9, <1>10 DEF IInv, Types, WriterOK

LEMMA InitInv ==
  ASSUME Init
  PROVE  IInv
<1> DEFINE f == [path |-> <<0, 0, 0>>, gone |-> "no", lines |-> {}, mtime |-> 0]
<1>1. /\ now = 0 /\ file = <<f>> /\ lock = "free" /\ gaveUp = FALSE /\ faults = 0 /\ restarts = 0
      /\ sweep = [s \in Sweeps |-> [at |-> "off", path |-> <<>>]]
      /\ pc = [m \in Msgs |-> "new"] /\ wrote = [m \in Msgs |-> 0]
  BY DEF Init
<1>2. PICK c \in Confs :
        /\ w = [conf |-> c, base |-> 0, fd |-> 1, opened |-> 0, lines |-> 0, curFiles |-> 0]
        /\ timers = [t \in 0..(MaxNow + DayLen) |->
                      IF Rotates(c) /\ t = NextPeriod(c, 0) THEN 1 ELSE 0]
  BY DEF Init
<1>3. 0 \in Hours /\ f \in Inode
  BY FileLogAssumption DEF Hours, Inode, Paths
<1>4. /\ DOMAIN file = {1} /\ file[1] = f /\ f.path = <<0, 0, 0>> /\ f.gone = "no"
      /\ f.lines = {} /\ f.mtime = 0 /\ file \in Seq(Inode)
  BY <1>1, <1>3
<1> HIDE DEF f
<1>5. Types
  <2>1. w \in [conf : Confs, base : Nat, fd : {0} \cup DOMAIN file, opened : Hours,
               lines : Nat, curFiles : Nat]
    BY <1>2, <1>3, <1>4
  <2>2. timers \in [0..(MaxNow + DayLen) -> Nat]
    BY <1>2
  <2>3. sweep \in [Sweeps -> [at : {"off", "walk", "remove"}, path : {<<>>} \cup Paths]]
    BY <1>1
  <2>4. wrote \in [Msgs -> Hours] /\ pc \in [Msgs -> {"new", "write", "ok", "failed"}]
    BY <1>1, <1>3
  <2>5. faults \in 0..MaxFaults /\ restarts \in 0..MaxRestarts
    BY <1>1, FileLogAssumption
  <2> QED BY <1>1, <1>3, <1>4, <2>1, <2>2, <2>3, <2>4, <2>5 DEF Types
<1>6. FilesSound
  BY <1>1, <1>4 DEF FilesSound, Named, Order, Unique, NoneLost, Dated
<1>7. LinesOnce
  BY <1>1, <1>4, FS_EmptySet DEF LinesOnce, Holders
<1>8. FdSound
  BY <1>2, <1>4, FS_EmptySet DEF FdSound, Current, Limited
<1>9. SweepSound
  BY <1>1 DEF SweepSound
<1> QED BY <1>5, <1>6, <1>7, <1>8, <1>9 DEF IInv

LEMMA NextInv ==
  ASSUME IInv, [Next]_vars
  PROVE  IInv'
<1>1. CASE UNCHANGED vars
  <2>1. UNCHANGED <<now, file, w, lock, timers, sweep, pc, wrote, gaveUp, faults, restarts>>
    BY <1>1 DEF vars
  <2>2. FilesSound' /\ LinesOnce' /\ FdSound' /\ SweepSound'
    BY <2>1, NowFacts, QuietStep DEF disk, SameOk
  <2> QED BY <2>1, <2>2 DEF IInv, Types
<1>2. CASE \E m \in Msgs : CheckFileName(m) \/ WriteLine(m) \/ WriteFails(m)
  BY <1>2, CheckFileNameStep, WriteLineStep, WriteFailsStep
<1>3. CASE \E t \in DOMAIN timers : TimerFires(t)
  BY <1>3, TimerStep
<1>4. CASE FileMissing \/ NoFreeNumber \/ Rename \/ RestartLogger
  BY <1>4, NothingToRenameStep, RenameStep, RestartLoggerStep
<1>5. CASE \E s \in Sweeps : SweepLook(s) \/ SweepRemove(s) \/ SweepEnds(s)
  BY <1>5, SweepLookStep, SweepRemoveStep, SweepEndsStep
<1>6. CASE Destroy \/ Tick \/ Restart
  BY <1>6, DestroyStep, TickStep, RestartStep
<1> QED BY <1>1, <1>2, <1>3, <1>4, <1>5, <1>6 DEF Next

-----------------------------------------------------------------------------
(* fileLogWriter: every field of the writer keeps to its type, and its     *)
(* descriptor is none or a file there has been.                            *)
THEOREM SpecTypeOK == Spec => []TypeOK
<1>1. IInv => TypeOK
  <2> SUFFICES ASSUME IInv PROVE TypeOK
    OBVIOUS
  <2>1. \A i \in DOMAIN file :
          /\ file[i].path \in Nat \X Nat \X Nat /\ file[i].mtime \in Hours
          /\ file[i].gone \in {"no", "overwritten", "aged"} /\ file[i].lines \subseteq Msgs
    BY DomainFile DEF IInv, Inode, Paths
  <2> QED BY <2>1 DEF IInv, Types, TypeOK
<1> QED BY InitInv, NextInv, <1>1, PTL DEF Spec

(* doRotate, startLogger and Init: through rotations, restarts and calls   *)
(* that fail, a line that WriteMsg has written stays in one file, which    *)
(* no rename replaces.                                                     *)
THEOREM SpecLinesKept == Spec => []LinesKept
<1>1. IInv => LinesKept
  <2> SUFFICES ASSUME IInv, NEW m \in Msgs, pc[m] = "ok"
               PROVE  /\ Cardinality(Holders(m)) = 1
                      /\ \A i \in Holders(m) : file[i].gone # "overwritten"
    BY DEF LinesKept, Holders
  <2>1. PICK i : Holders(m) = {i}
    BY DEF IInv, LinesOnce
  <2>2. i \in DOMAIN file
    BY <2>1 DEF Holders
  <2> QED BY <2>1, <2>2, FS_Singleton DEF IInv, FilesSound, NoneLost
<1> QED BY InitInv, NextInv, <1>1, PTL DEF Spec

(* checkFileName and doRotate: whatever was renamed, removed or failed,    *)
(* no line goes to a file that was rotated.                                *)
THEOREM SpecWritesToCurrent == Spec => []WritesToCurrent
<1>1. IInv => WritesToCurrent
  BY DEF IInv, FdSound, WritesToCurrent
<1> QED BY InitInv, NextInv, <1>1, PTL DEF Spec

(* initFd and WriteMsg: the lines that decide on a rotation are those of   *)
(* the file.                                                               *)
THEOREM SpecCountersExact == Spec => []CountersExact
<1>1. IInv => CountersExact
  BY DEF IInv, FdSound, CountersExact
<1> QED BY InitInv, NextInv, <1>1, PTL DEF Spec

(* deleteOldLog: a rotated file is removed only when its lines are older   *)
(* than MaxDays or MaxHours, although it looks first and removes a path    *)
(* later.                                                                  *)
THEOREM SpecDeletesOnlyOld == Spec => DeletesOnlyOld
<1> DEFINE Deletes == \A i \in DOMAIN file :
       /\ file[i].gone = "no" /\ file'[i].gone = "aged"
       /\ file[i].path[3] # 0 /\ \A j \in 1..(i - 1) : file[j].path # file[i].path
       => \A m \in file[i].lines : wrote[m] + w.conf.maxAge <= now
<1>1. ASSUME IInv, [Next]_vars
      PROVE  [Deletes]_vars
  <2> SUFFICES ASSUME Next, NEW i \in DOMAIN file, Live(i), file'[i].gone = "aged",
                      file[i].path[3] # 0, \A j \in 1..(i - 1) : file[j].path # file[i].path
               PROVE  Aged(i)
    BY <1>1 DEF Live, Aged
  <2>1. \E s \in Sweeps : SweepRemove(s)
    <3>1. ASSUME NEW path, path \in Paths, file' = OpenFile(path)
          PROVE  file'[i] = file[i]
      BY <1>1, <3>1, Opened DEF IInv
    <3>2. Current \in Paths /\ <<Day(now), 0, 0>> \in Paths
      <4>1. \A t \in Nat : t \div DayLen \in Nat
        BY FileLogAssumption
      <4> QED BY <1>1, <4>1, NowFacts DEF IInv, Types, Current, Day, Paths
    <3>3. StartLogger \/ Restart => file'[i] = file[i]
      BY <3>1, <3>2 DEF StartLogger, Restart, Start
    <3>4. ASSUME NEW m \in Msgs, WriteLine(m)
          PROVE  file'[i].gone = file[i].gone
      BY <1>1, <3>4, DomainFile DEF WriteLine, IInv, Inode
    <3>5. Rename => file'[i].gone # "aged"
      BY <1>1, DomainFile DEF Rename, Renamed, IInv, Inode, Live
    <3> QED BY <3>3, <3>4, <3>5 DEF Next, CheckFileName, WriteFails, TimerFires, FileMissing,
               NoFreeNumber, RestartLogger, SweepLook, SweepEnds, Destroy, Tick, disk, Live
  <2>2. PICK s \in Sweeps : SweepRemove(s)
    BY <2>1
  <2>3. sweep[s].at = "remove" /\ i \in At(sweep[s].path) /\ file[i].path = sweep[s].path
    BY <1>1, <2>2, RemovedFiles DEF SweepRemove, At, Live
  <2>4. PICK j \in DOMAIN file : file[j].path = file[i].path /\ Aged(j)
    BY <1>1, <2>3 DEF IInv, SweepSound
  <2>5. j \notin 1..(i - 1) /\ ~(i < j)
    BY <1>1, <2>4 DEF IInv, FilesSound, Unique
  <2>6. j = i
    BY <1>1, <2>5, DomainFile DEF IInv
  <2> QED BY <2>4, <2>6
<1> QED BY InitInv, NextInv, <1>1, PTL DEF Spec, DeletesOnlyOld
=============================================================================
