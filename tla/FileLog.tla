------------------------------- MODULE FileLog -------------------------------
(***************************************************************************)
(* fileLogWriter of logs/file.go: goroutines write lines to a file named   *)
(* after the day the process started; goroutines that sleep to the end of  *)
(* the day or hour rotate it, that is, rename it and open it afresh; each  *)
(* rotation starts a goroutine that removes old files.  The process may    *)
(* crash and be started again; opening, renaming and writing may fail.     *)
(*                                                                         *)
(* Time is counted in hours, DayLen to a day.  A file is an inode: it      *)
(* lives on, open, after its name is gone.  A path is a triple <<base,     *)
(* stamp, num>>: <<d, 0, 0>> stands for d.log and <<d, t, n>> for          *)
(* d.t.n.log.  A message is one line; the limit on the size of a file,     *)
(* compared wherever the one on its lines is, is not told apart from it.   *)
(***************************************************************************)
EXTENDS Integers, Sequences, FiniteSetsExt

CONSTANTS
  Msgs,         \* the messages to write, within the level of the writer
  Confs,        \* the configurations a process may start with
  DayLen,       \* hours of a day
  MaxFiles,     \* MaxFiles: the numbers a rotated file may get
  Sweeps,       \* bound: the goroutines deleteOldLog alive at a time
  MaxNow,       \* bound: the last hour
  MaxFaults,    \* bound: calls that fail
  MaxRestarts   \* bound: crashes of the process

ASSUME FileLogAssumption ==
  /\ DayLen \in Nat \ {0} /\ MaxFiles \in Nat
  /\ MaxNow \in Nat /\ MaxFaults \in Nat /\ MaxRestarts \in Nat
  /\ Confs \subseteq [hourly : BOOLEAN, daily : BOOLEAN,
                      maxLines : Nat, maxAge : Nat \ {0}]

VARIABLES
  now,       \* the time
  file,      \* the inodes, in the order they were created
  w,         \* the writer: configuration, base name, file, counters
  lock,      \* the writer's lock: free, or where its holder is in doRotate
  timers,    \* how many goroutines sleep until each hour
  sweep,     \* the goroutines deleteOldLog
  pc,        \* where WriteMsg is with each message
  wrote,     \* when each message was written
  gaveUp,    \* doRotate failed and the file has not been opened since
  faults,    \* failures so far
  restarts   \* crashes so far

vars == <<now, file, w, lock, timers, sweep, pc, wrote, gaveUp, faults, restarts>>
disk == <<file, wrote>>
env  == <<now, restarts>>

-----------------------------------------------------------------------------
Hours  == 0..MaxNow
Day(t) == t \div DayLen

(* What needRotateDaily and needRotateHourly compare; that the day of the  *)
(* month and the hour of the day come round again is left out.             *)
Period(t) == IF w.conf.hourly THEN t ELSE Day(t)

(* When the goroutine started by initFd at time t wakes up. *)
Rotates(c)       == c.hourly \/ c.daily
NextPeriod(c, t) == IF c.hourly THEN t + 1 ELSE (Day(t) + 1) * DayLen

(* The time in the name of a rotated file, in the layout of the mode. *)
Stamp(t) == IF w.conf.hourly THEN t ELSE Day(t)

Current  == <<w.base, 0, 0>>
At(path) == {i \in DOMAIN file : file[i].gone = "no" /\ file[i].path = path}

NewFile(path) == [path |-> path, gone |-> "no", lines |-> {}, mtime |-> now]

(* os.OpenFile with O_APPEND and O_CREATE: the file at path, created if    *)
(* there is none.                                                          *)
OpenFile(path) ==
  IF At(path) = {} THEN Append(file, NewFile(path)) ELSE file

(* Faulty: the file opened is always taken for a new one. *)
FdAlwaysNew(path) == Len(file) + 1

OpenFd(path) ==
  IF At(path) = {} THEN Len(file) + 1 ELSE CHOOSE i \in At(path) : TRUE

(* Faulty: the lines a file already holds are not counted. *)
NotCounted(fd) == 0

(* initFd: count the lines, note the time, start a rotation goroutine. *)
Counted(fd) ==
  IF w.conf.maxLines > 0 /\ fd \in DOMAIN file THEN Cardinality(file[fd].lines) ELSE 0
InitFd(fd) == [w EXCEPT !.fd = fd, !.lines = Counted(fd), !.opened = now]

StartTimer(c) ==
  IF Rotates(c) THEN [timers EXCEPT ![NextPeriod(c, now)] = @ + 1] ELSE timers

StartLogger ==
  \/ /\ file' = OpenFile(Current)
     /\ w' = InitFd(OpenFd(Current))
     /\ timers' = StartTimer(w.conf)
     /\ gaveUp' = FALSE
     /\ UNCHANGED faults
  \/ /\ faults < MaxFaults
     /\ faults' = faults + 1
     /\ gaveUp' = (gaveUp \/ lock = "restart")
     /\ UNCHANGED <<file, w, timers>>

-----------------------------------------------------------------------------
(* WriteMsg: under the lock checkFileName opens the file again, whether it *)
(* is there or not; then, under the lock once more, the line is written.   *)
CheckFileName(m) ==
  /\ pc[m] = "new" /\ lock = "free"
  /\ StartLogger
  /\ pc' = [pc EXCEPT ![m] = "write"]
  /\ UNCHANGED <<lock, sweep, wrote, env>>

WriteLine(m) ==
  /\ pc[m] = "write" /\ lock = "free"
  /\ w.fd # 0
  /\ file' = [file EXCEPT ![w.fd].lines = @ \cup {m}, ![w.fd].mtime = now]
  /\ wrote' = [wrote EXCEPT ![m] = now]
  /\ w' = [w EXCEPT !.lines = @ + 1]
  /\ pc' = [pc EXCEPT ![m] = "ok"]
  /\ UNCHANGED <<lock, timers, sweep, gaveUp, faults, env>>

WriteFails(m) ==
  /\ pc[m] = "write" /\ lock = "free"
  /\ \/ w.fd = 0 /\ UNCHANGED faults
     \/ w.fd # 0 /\ faults < MaxFaults /\ faults' = faults + 1
  /\ pc' = [pc EXCEPT ![m] = "failed"]
  /\ UNCHANGED <<file, w, lock, timers, sweep, wrote, gaveUp, env>>

-----------------------------------------------------------------------------
Full == w.conf.maxLines > 0 /\ w.lines >= w.conf.maxLines

(* Faulty: the date is not compared. *)
RotateFullOnly == Full

(* dailyRotate and hourlyRotate wake up and take the lock; if there is     *)
(* nothing to rotate they end.                                             *)
NeedRotate == Full \/ Period(now) # Period(w.opened)

TimerFires(t) ==
  /\ timers[t] > 0 /\ t <= now /\ lock = "free"
  /\ timers' = [timers EXCEPT ![t] = @ - 1]
  /\ lock' = IF NeedRotate THEN "rename" ELSE "free"
  /\ UNCHANGED <<disk, w, sweep, pc, gaveUp, faults, env>>

(* Faulty: whether the number is taken is not looked up. *)
AnyNumber == (w.curFiles + 1)..MaxFiles

(* doRotate: the next free number.  With a limit on lines or size it tries *)
(* the numbers to MaxFiles, under today's date; without one it takes the   *)
(* next number, under the date of the file.                                *)
Limited == w.conf.maxLines > 0
FreeNumbers ==
  IF Limited
  THEN {n \in (w.curFiles + 1)..MaxFiles : At(<<w.base, Stamp(now), n>>) = {}}
  ELSE {n \in {w.curFiles + 1} : At(<<w.base, Stamp(w.opened), n>>) = {}}
FirstFree   == {n \in FreeNumbers : \A k \in FreeNumbers : n <= k}
RotatedPath(n) == <<w.base, IF Limited THEN Stamp(now) ELSE Stamp(w.opened), n>>
CurFiles == IF Limited THEN w.curFiles ELSE w.curFiles + 1

(* The file is not there: nothing to rename. *)
FileMissing ==
  /\ lock = "rename"
  /\ At(Current) = {}
  /\ lock' = "restart"
  /\ UNCHANGED <<disk, w, timers, sweep, pc, gaveUp, faults, env>>

(* Rotate: Cannot find free log number: return with the file still open. *)
NoFreeNumber ==
  /\ lock = "rename"
  /\ At(Current) # {} /\ FreeNumbers = {}
  /\ lock' = "free"
  /\ w' = [w EXCEPT !.curFiles = CurFiles]
  /\ gaveUp' = TRUE
  /\ UNCHANGED <<disk, timers, sweep, pc, faults, env>>

(* What os.Rename does: what had the new name is gone. *)
Renamed(new) ==
  [i \in DOMAIN file |->
     IF i \in At(Current) THEN [file[i] EXCEPT !.path = new]
     ELSE IF i \in At(new) THEN [file[i] EXCEPT !.gone = "overwritten"]
     ELSE file[i]]

(* Faulty: return after the rename, with the old file open. *)
RenameNoRestart ==
  /\ lock = "rename"
  /\ At(Current) # {} /\ FreeNumbers # {}
  /\ \E n \in FirstFree : file' = Renamed(RotatedPath(n))
  /\ w' = [w EXCEPT !.curFiles = CurFiles]
  /\ lock' = "free"
  /\ UNCHANGED <<timers, sweep, pc, wrote, gaveUp, faults, env>>

(* Close the file and rename it. *)
Rename ==
  /\ lock = "rename"
  /\ At(Current) # {} /\ FreeNumbers # {}
  /\ lock' = "restart"
  /\ w' = [w EXCEPT !.fd = 0, !.curFiles = CurFiles]
  /\ \/ \E n \in FirstFree : file' = Renamed(RotatedPath(n)) /\ UNCHANGED faults
     \/ faults < MaxFaults /\ faults' = faults + 1 /\ UNCHANGED file
  /\ UNCHANGED <<timers, sweep, pc, wrote, gaveUp, env>>

(* RESTART_LOGGER: open the file and start deleteOldLog. *)
RestartLogger ==
  /\ lock = "restart"
  /\ StartLogger
  /\ \E s \in Sweeps : /\ sweep[s].at = "off"
                       /\ sweep' = [sweep EXCEPT ![s].at = "walk"]
  /\ lock' = "free"
  /\ UNCHANGED <<pc, wrote, env>>

-----------------------------------------------------------------------------
(* Faulty: the age is off by one. *)
OldTooSoon(i) == file[i].mtime + w.conf.maxAge <= now + 1

(* deleteOldLog looks at the files one by one and removes what was not     *)
(* written for maxAge and is named after the day the process started.  The *)
(* file may change between the look and the removal.                       *)
Old(i) == file[i].mtime + w.conf.maxAge <= now

SweepLook(s) ==
  /\ sweep[s].at = "walk"
  /\ \E i \in DOMAIN file :
       /\ file[i].gone = "no" /\ Old(i) /\ file[i].path[1] = w.base
       /\ sweep' = [sweep EXCEPT ![s] = [at |-> "remove", path |-> file[i].path]]
  /\ UNCHANGED <<disk, w, lock, timers, pc, gaveUp, faults, env>>

SweepRemove(s) ==
  /\ sweep[s].at = "remove"
  /\ file' = [i \in DOMAIN file |->
                IF i \in At(sweep[s].path) THEN [file[i] EXCEPT !.gone = "aged"] ELSE file[i]]
  /\ sweep' = [sweep EXCEPT ![s] = [at |-> "walk", path |-> <<>>]]
  /\ UNCHANGED <<w, lock, timers, pc, wrote, gaveUp, faults, env>>

SweepEnds(s) ==
  /\ sweep[s].at = "walk"
  /\ sweep' = [sweep EXCEPT ![s].at = "off"]
  /\ UNCHANGED <<disk, w, lock, timers, pc, gaveUp, faults, env>>

-----------------------------------------------------------------------------
(* Destroy closes the file, without the lock. *)
Destroy ==
  /\ w.fd # 0
  /\ w' = [w EXCEPT !.fd = 0]
  /\ UNCHANGED <<disk, lock, timers, sweep, pc, gaveUp, faults, env>>

(* External: time passes. *)
Tick ==
  /\ now < MaxNow
  /\ now' = now + 1
  /\ UNCHANGED <<disk, w, lock, timers, sweep, pc, gaveUp, faults, restarts>>

(* The process crashes and is started again with the same configuration;   *)
(* Init names the file after the day and opens it.                         *)
Start(c) ==
  LET path == <<Day(now), 0, 0>> IN
  /\ file' = OpenFile(path)
  /\ w' = [conf |-> c, base |-> Day(now), fd |-> OpenFd(path), opened |-> now,
           lines |-> IF c.maxLines > 0 /\ At(path) # {}
                     THEN Cardinality(file[OpenFd(path)].lines) ELSE 0,
           curFiles |-> 0]
  /\ timers' = [t \in DOMAIN timers |->
                  IF Rotates(c) /\ t = NextPeriod(c, now) THEN 1 ELSE 0]

Restart ==
  /\ restarts < MaxRestarts
  /\ restarts' = restarts + 1
  /\ Start(w.conf)
  /\ lock' = "free"
  /\ sweep' = [s \in Sweeps |-> [at |-> "off", path |-> <<>>]]
  /\ pc' = [m \in Msgs |-> IF pc[m] = "write" THEN "failed" ELSE pc[m]]
  /\ gaveUp' = FALSE
  /\ UNCHANGED <<now, wrote, faults>>

-----------------------------------------------------------------------------
Init ==
  /\ now = 0
  /\ file = <<[path |-> <<0, 0, 0>>, gone |-> "no", lines |-> {}, mtime |-> 0]>>
  /\ \E c \in Confs :
       /\ w = [conf |-> c, base |-> 0, fd |-> 1, opened |-> 0, lines |-> 0, curFiles |-> 0]
       /\ timers = [t \in 0..(MaxNow + DayLen) |->
                      IF Rotates(c) /\ t = NextPeriod(c, 0) THEN 1 ELSE 0]
  /\ lock = "free"
  /\ sweep = [s \in Sweeps |-> [at |-> "off", path |-> <<>>]]
  /\ pc = [m \in Msgs |-> "new"]
  /\ wrote = [m \in Msgs |-> 0]
  /\ gaveUp = FALSE
  /\ faults = 0
  /\ restarts = 0

Next ==
  \/ \E m \in Msgs : CheckFileName(m) \/ WriteLine(m) \/ WriteFails(m)
  \/ \E t \in DOMAIN timers : TimerFires(t)
  \/ FileMissing \/ NoFreeNumber \/ Rename \/ RestartLogger
  \/ \E s \in Sweeps : SweepLook(s) \/ SweepRemove(s) \/ SweepEnds(s)
  \/ Destroy \/ Tick \/ Restart

(* A goroutine that can run runs; a walk of a directory ends. *)
Fairness ==
  /\ \A t \in 0..(MaxNow + DayLen) : WF_vars(TimerFires(t))
  /\ WF_vars(FileMissing) /\ WF_vars(NoFreeNumber) /\ WF_vars(Rename)
  /\ WF_vars(RestartLogger)
  /\ \A s \in Sweeps : WF_vars(SweepRemove(s)) /\ WF_vars(SweepEnds(s))

Spec == Init /\ [][Next]_vars /\ Fairness

-----------------------------------------------------------------------------
TypeOK ==
  /\ now \in Hours
  /\ \A i \in DOMAIN file :
       /\ file[i].path \in Nat \X Nat \X Nat /\ file[i].mtime \in Hours
       /\ file[i].gone \in {"no", "overwritten", "aged"}
       /\ file[i].lines \subseteq Msgs
  /\ w \in [conf : Confs, base : Nat, fd : {0} \cup DOMAIN file, opened : Hours,
            lines : Nat, curFiles : Nat]
  /\ lock \in {"free", "rename", "restart"}
  /\ timers \in [0..(MaxNow + DayLen) -> Nat]
  /\ \A s \in Sweeps : sweep[s].at \in {"off", "walk", "remove"}
  /\ pc \in [Msgs -> {"new", "write", "ok", "failed"}]
  /\ wrote \in [Msgs -> Hours]
  /\ gaveUp \in BOOLEAN /\ faults \in 0..MaxFaults /\ restarts \in 0..MaxRestarts

(* A message whose WriteMsg returned nil is in exactly one file, and that  *)
(* file is never replaced by the rename of a rotation, nor truncated by a  *)
(* restart: it goes only by age.  A message that the level of the writer   *)
(* leaves out is none of Msgs: WriteMsg returns nil and does nothing.      *)
LinesKept ==
  \A m \in Msgs :
    LET in == {i \in DOMAIN file : m \in file[i].lines} IN
    pc[m] = "ok" => Cardinality(in) = 1 /\ \A i \in in : file[i].gone # "overwritten"

(* While the lock is free the file that is open is the one WriteMsg names, *)
(* or one removed since: no line goes to a file already rotated.           *)
WritesToCurrent ==
  lock = "free" /\ w.fd # 0 => file[w.fd].gone # "no" \/ file[w.fd].path = Current

(* maxLinesCurLines, which rotation is decided on, is what the file holds, *)
(* across rotations, restarts and writes of other goroutines.              *)
CountersExact ==
  lock = "free" /\ w.fd # 0 /\ Limited => w.lines = Cardinality(file[w.fd].lines)

(* deleteOldLog removes a rotated file only when every line in it is older *)
(* than MaxDays (or MaxHours), although time passes between its look and   *)
(* the removal.  Not so the file that is open, which may be written in     *)
(* between, nor a file that got the path of one removed.                   *)
DeletesOnlyOld ==
  [][\A i \in DOMAIN file :
       /\ file[i].gone = "no" /\ file'[i].gone = "aged"
       /\ file[i].path[3] # 0 /\ \A j \in 1..(i - 1) : file[j].path # file[i].path
       => \A m \in file[i].lines : wrote[m] + w.conf.maxAge <= now]_vars

(* A file opened in an earlier period is rotated, or opened again by a     *)
(* write, unless the rotation returns an error or the writer is destroyed. *)
RotationHappens ==
  (w.fd # 0 /\ Rotates(w.conf) /\ Period(w.opened) # Period(now)) ~>
    (w.fd = 0 \/ gaveUp \/ Period(w.opened) = Period(now))

(* Rotate daily, says the struct: a file opened in a period holds no line  *)
(* of an earlier one.                                                      *)
OnePeriodPerFile ==
  lock = "free" /\ w.fd # 0 /\ Rotates(w.conf) /\ ~gaveUp =>
    \A m \in file[w.fd].lines : Period(wrote[m]) >= Period(w.opened)
=============================================================================
