----------------------------- MODULE LogBackup -----------------------------
(***************************************************************************)
(* LogBackupService (src/core/logger/log-backup.service.ts): the midnight  *)
(* job that moves old log files to backup/{year-month}, in every process   *)
(* PM2 starts, beside the rotation of the DailyRotateFile transports,      *)
(* which also deletes.                                                     *)
(*                                                                         *)
(* A job works through the directories one after the other with            *)
(* synchronous calls, which interleave with those of the other processes   *)
(* one system call at a time.  Files are numbered in the order in which    *)
(* readdirSync lists them (libuv sorts), directory by directory; DirOf     *)
(* tells the directory.  A day is the unit of age.                         *)
(***************************************************************************)
EXTENDS Integers

CONSTANTS
  Jobs,       \* Node processes, each with its cron
  Files,      \* log files, in listing order
  DirOf,      \* index of the directory of a file in LOG_DIRECTORIES
  Dirs,       \* number of directories
  Month,      \* ONE_MONTH_MS in days; maxFiles of the transports
  Never       \* age of a file not written yet

ASSUME JobsAssumption == Jobs # {}
ASSUME FilesAssumption == Files \subseteq Nat
ASSUME DirsAssumption ==
  /\ Dirs \in Nat \ {0} /\ DirOf \in [Files -> 1 .. Dirs]
  /\ \A f, g \in Files : f < g => DirOf[f] <= DirOf[g]
ASSUME MonthAssumption == Month \in Nat \ {0} /\ Never \notin Nat

VARIABLES
  place,     \* where each file is: "none", "logs", "backup" or "deleted"
  age,       \* days since its last write, or Never
  pc,        \* where each job is
  dir,       \* directory a job works on
  left,      \* files of the listing a job has not come to
  hand,      \* the file a job holds the stat of, as a set
  disturbed  \* history: something besides the jobs' own work befell this night

vars == <<place, age, pc, dir, left, hand, disturbed>>

\* Bound: files age up to one day past Month.
Ages == 0 .. Month + 1
Old(f) == age[f] # Never /\ age[f] >= Month

TypeOK ==
  /\ place \in [Files -> {"none", "logs", "backup", "deleted"}]
  /\ age \in [Files -> Ages \cup {Never}]
  /\ \A f \in Files : place[f] = "none" <=> age[f] = Never
  /\ pc \in [Jobs -> {"idle", "list", "stat", "rename", "done", "aborted", "dead"}]
  /\ dir \in [Jobs -> 1 .. Dirs]
  /\ left \in [Jobs -> SUBSET Files]
  /\ hand \in [Jobs -> SUBSET Files]
  /\ \A j \in Jobs : pc[j] = "rename" => \E f \in Files : hand[j] = {f} /\ Old(f)
  /\ disturbed \in BOOLEAN

Init ==
  /\ place = [f \in Files |-> "none"]
  /\ age = [f \in Files |-> Never]
  /\ pc = [j \in Jobs |-> "idle"]
  /\ dir = [j \in Jobs |-> 1]
  /\ left = [j \in Jobs |-> {}]
  /\ hand = [j \in Jobs |-> {}]
  /\ disturbed = FALSE

-----------------------------------------------------------------------------
\* handleLogBackup begins with the first directory.
Begin(j) ==
  /\ pc[j] = "idle"
  /\ pc' = [pc EXCEPT ![j] = "list"] /\ dir' = [dir EXCEPT ![j] = 1]
  /\ UNCHANGED <<place, age, left, hand, disturbed>>

\* After the last file of a directory: the next one, or the end of the job.
Onward(j, rest) ==
  /\ left' = [left EXCEPT ![j] = rest]
  /\ IF rest # {} THEN pc' = [pc EXCEPT ![j] = "stat"] /\ UNCHANGED dir
     ELSE IF dir[j] < Dirs
     THEN pc' = [pc EXCEPT ![j] = "list"] /\ dir' = [dir EXCEPT ![j] = @ + 1]
     ELSE pc' = [pc EXCEPT ![j] = "done"] /\ UNCHANGED dir

\* existsSync and readdirSync
List(j) ==
  /\ pc[j] = "list"
  /\ Onward(j, {f \in Files : DirOf[f] = dir[j] /\ place[f] = "logs"})
  /\ UNCHANGED <<place, age, hand, disturbed>>

\* A job passes over a file, or holds on to it to rename it.
PassOver(j, f) == Onward(j, left[j] \ {f}) /\ UNCHANGED hand
TakeUp(j, f) ==
  /\ pc' = [pc EXCEPT ![j] = "rename"]
  /\ hand' = [hand EXCEPT ![j] = {f}] /\ left' = [left EXCEPT ![j] = @ \ {f}]
  /\ UNCHANGED dir
GiveUpAll(j) ==
  /\ pc' = [pc EXCEPT ![j] = "aborted"] /\ left' = [left EXCEPT ![j] = {}]
  /\ UNCHANGED <<dir, hand>>

\* The next file of the listing.
Due(j, f) == pc[j] = "stat" /\ f \in left[j] /\ \A g \in left[j] : f <= g

\* Mutant: a file that is exactly a month old is left for tomorrow.
StatLate(j, f) ==
  /\ Due(j, f)
  /\ IF place[f] # "logs" THEN GiveUpAll(j)
     ELSE IF age[f] <= Month THEN PassOver(j, f) ELSE TakeUp(j, f)
  /\ UNCHANGED <<place, age, disturbed>>

\* Mutant: the age is not looked at.
StatAnyAge(j, f) ==
  /\ Due(j, f)
  /\ IF place[f] # "logs" THEN GiveUpAll(j) ELSE TakeUp(j, f)
  /\ UNCHANGED <<place, age, disturbed>>

\* statSync is outside the try: a file that has gone ends the whole job.
Stat(j, f) ==
  /\ Due(j, f)
  /\ IF place[f] # "logs" THEN GiveUpAll(j)
     ELSE IF Old(f) THEN TakeUp(j, f) ELSE PassOver(j, f)
  /\ UNCHANGED <<place, age, disturbed>>

\* renameSync, or its catch when the file has gone.
Rename(j) ==
  /\ pc[j] = "rename"
  /\ place' = [f \in Files |->
       IF f \in hand[j] /\ place[f] = "logs" THEN "backup" ELSE place[f]]
  /\ hand' = [hand EXCEPT ![j] = {}]
  /\ Onward(j, left[j])
  /\ UNCHANGED <<age, disturbed>>

\* renameSync fails for another reason (the backup on another device): caught too.
RenameFails(j) ==
  /\ pc[j] = "rename"
  /\ hand' = [hand EXCEPT ![j] = {}]
  /\ disturbed' = TRUE
  /\ Onward(j, left[j])
  /\ UNCHANGED <<place, age>>

\* The process dies or misses its cron this night.
Dies(j) ==
  /\ pc[j] \in {"idle", "list", "stat", "rename"}
  /\ pc' = [pc EXCEPT ![j] = "dead"]
  /\ left' = [left EXCEPT ![j] = {}] /\ hand' = [hand EXCEPT ![j] = {}]
  /\ disturbed' = TRUE
  /\ UNCHANGED <<place, age, dir>>

\* The transport opens a file: the day's first line.
Open(f) ==
  /\ place[f] = "none"
  /\ place' = [place EXCEPT ![f] = "logs"]
  /\ age' = [age EXCEPT ![f] = 0]
  /\ UNCHANGED <<pc, dir, left, hand, disturbed>>

\* zippedArchive and maxFiles: at the first line of a new day the rotation replaces
\* the file by an archive of another name, which is a file of its own here, and
\* deletes what was created Month days ago.
Rotate(f) ==
  /\ place[f] = "logs" /\ age[f] > 0
  /\ place' = [place EXCEPT ![f] = "deleted"]
  /\ disturbed' = (disturbed \/ \E j \in Jobs : pc[j] # "idle")
  /\ UNCHANGED <<age, pc, dir, left, hand>>

Ended == \A j \in Jobs : pc[j] \in {"done", "aborted", "dead"}

\* The next day; the jobs of a night are over long before.
NextDay ==
  /\ Ended \/ \A j \in Jobs : pc[j] = "idle"
  /\ age' = [f \in Files |-> IF age[f] \in {Never, Month + 1} THEN age[f] ELSE age[f] + 1]
  /\ pc' = [j \in Jobs |-> "idle"]
  /\ disturbed' = FALSE
  /\ UNCHANGED <<place, dir, left, hand>>

Job(j) ==
  \/ Begin(j) \/ List(j) \/ Rename(j) \/ RenameFails(j) \/ Dies(j)
  \/ \E f \in Files : Stat(j, f)

Next ==
  \/ NextDay
  \/ \E j \in Jobs : Job(j)
  \/ \E f \in Files : Open(f) \/ Rotate(f)

Spec == Init /\ [][Next]_vars

-----------------------------------------------------------------------------
\* A job whose statSync finds a file gone gives up its other files and
\* directories; still, when the jobs of a night have ended and nothing but they
\* touched the files, no old file is left in logs/: whoever took the file
\* away was ahead in the same order.
NightComplete ==
  Ended /\ ~disturbed => \A f \in Files : place[f] = "logs" => ~Old(f)
=============================================================================
