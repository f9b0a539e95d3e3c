-------------------------- MODULE LogBackupProofs --------------------------
(***************************************************************************)
(* Proofs about LogBackup for every number of processes, files and         *)
(* directories.                                                            *)
(*                                                                         *)
(* A job is aborted by a file another job took away.  The invariant says   *)
(* that among the jobs there is always a leader: one that was not aborted  *)
(* and has passed every file another job could still be aborted by.        *)
(***************************************************************************)
EXTENDS LogBackup, TLAPS

Working(j) == pc[j] \in {"stat", "rename"}

\* A job will not look at f again.
Past(j, f) ==
  \/ pc[j] = "done"
  \/ pc[j] \in {"list", "stat", "rename"} /\ DirOf[f] < dir[j]
  \/ Working(j) /\ DirOf[f] = dir[j] /\ \A g \in left[j] : f < g

\* A job has still to look at f, or is about to rename it.
Ahead(j, f) ==
  \/ pc[j] = "idle"
  \/ pc[j] \in {"list", "stat", "rename"} /\ dir[j] < DirOf[f]
  \/ pc[j] = "list" /\ DirOf[f] = dir[j]
  \/ Working(j) /\ f \in left[j] \cup hand[j]

\* The files that a job will look for in vain.
Traps == {f \in Files : place[f] # "logs" /\ \E j \in Jobs : f \in left[j]}

Leads(k) == pc[k] \in {"list", "stat", "rename", "done"} /\ \A f \in Traps : Past(k, f)

\* The listing of a job: files of its directory, the one in hand before the others.
ShapeOf(j) ==
  /\ left[j] # {} => Working(j)
  /\ \A f \in left[j] : DirOf[f] = dir[j] /\ place[f] # "none"
  /\ hand[j] # {} => pc[j] = "rename"
  /\ \A f \in hand[j] : DirOf[f] = dir[j] /\ \A g \in left[j] : f < g

Shape == \A j \in Jobs : ShapeOf(j)

\* While nothing else touches the files, an aborted job or a trap has a leader.
Led ==
  ~disturbed =>
    /\ \A j \in Jobs : pc[j] # "dead"
    /\ Traps # {} \/ (\E j \in Jobs : pc[j] = "aborted") => \E k \in Jobs : Leads(k)

\* ... and no job that was not aborted leaves an old file behind.
NothingMissed ==
  ~disturbed =>
    \A j \in Jobs, f \in Files :
      place[f] = "logs" /\ Old(f) => pc[j] = "aborted" \/ Ahead(j, f)

Inv == TypeOK /\ Shape /\ Led /\ NothingMissed

-----------------------------------------------------------------------------
\* Where Onward leaves a job.
LEMMA OnwardFacts ==
  ASSUME TypeOK, NEW j \in Jobs, NEW rest \in SUBSET Files, Onward(j, rest)
  PROVE  /\ pc' \in [Jobs -> {"idle", "list", "stat", "rename", "done", "aborted", "dead"}]
         /\ dir' \in [Jobs -> 1 .. Dirs]
         /\ left' \in [Jobs -> SUBSET Files]
         /\ left'[j] = rest
         /\ \A i \in Jobs \ {j} : pc'[i] = pc[i] /\ dir'[i] = dir[i] /\ left'[i] = left[i]
         /\ \/ rest # {} /\ pc'[j] = "stat" /\ dir'[j] = dir[j]
            \/ rest = {} /\ pc'[j] = "list" /\ dir'[j] = dir[j] + 1 /\ dir[j] < Dirs
            \/ rest = {} /\ pc'[j] = "done" /\ dir'[j] = dir[j] /\ dir[j] = Dirs
BY DirsAssumption DEF TypeOK, Onward

\* The files, their ages, and the jobs stay in their ranges; a job about to rename
\* a file has seen it old.
LEMMA TypeStep == TypeOK /\ [Next]_vars => TypeOK'
<1> SUFFICES ASSUME TypeOK, [Next]_vars PROVE TypeOK'
  OBVIOUS
<1> USE FilesAssumption, DirsAssumption, MonthAssumption
<1>1. ASSUME NEW j \in Jobs, Begin(j) PROVE TypeOK'
  BY <1>1 DEF TypeOK, Begin, Old
<1>2. ASSUME NEW j \in Jobs, List(j) PROVE TypeOK'
  <2> DEFINE rest == {f \in Files : DirOf[f] = dir[j] /\ place[f] = "logs"}
  <2>1. Onward(j, rest) /\ UNCHANGED <<place, age, hand, disturbed>>
    BY <1>2 DEF List
  <2> QED
    BY <2>1, OnwardFacts DEF TypeOK, Old
<1>3. ASSUME NEW j \in Jobs, NEW f \in Files, Stat(j, f) PROVE TypeOK'
  <2>1. CASE GiveUpAll(j)
    BY <1>3, <2>1 DEF TypeOK, Stat, Due, GiveUpAll, Old
  <2>2. CASE Old(f) /\ TakeUp(j, f)
    BY <1>3, <2>2 DEF TypeOK, Stat, Due, TakeUp, Old
  <2>3. CASE PassOver(j, f)
    <3>1. Onward(j, left[j] \ {f}) /\ UNCHANGED <<place, age, hand, disturbed>>
      BY <1>3, <2>3 DEF Stat, PassOver
    <3> QED
      BY <3>1, OnwardFacts DEF TypeOK, Old
  <2> QED
    BY <1>3, <2>1, <2>2, <2>3 DEF Stat
<1>4. ASSUME NEW j \in Jobs, Rename(j) PROVE TypeOK'
  <2>1. Onward(j, left[j]) /\ left[j] \in SUBSET Files
    BY <1>4 DEF Rename, TypeOK
  <2> QED
    BY <1>4, <2>1, OnwardFacts DEF TypeOK, Rename, Old
<1>5. ASSUME NEW j \in Jobs, RenameFails(j) PROVE TypeOK'
  <2>1. Onward(j, left[j]) /\ left[j] \in SUBSET Files
    BY <1>5 DEF RenameFails, TypeOK
  <2> QED
    BY <1>5, <2>1, OnwardFacts DEF TypeOK, RenameFails, Old
<1>6. ASSUME NEW j \in Jobs, Dies(j) PROVE TypeOK'
  BY <1>6 DEF TypeOK, Dies, Old
<1>7. ASSUME NEW f \in Files, Open(f) PROVE TypeOK'
  BY <1>7 DEF TypeOK, Open, Old, Ages
<1>8. ASSUME NEW f \in Files, Rotate(f) PROVE TypeOK'
  BY <1>8 DEF TypeOK, Rotate, Old
<1>9. CASE NextDay
  <2>1. age' \in [Files -> Ages \cup {Never}]
    BY <1>9 DEF TypeOK, NextDay, Ages
  <2>2. \A f \in Files : place'[f] = "none" <=> age'[f] = Never
    BY <1>9 DEF TypeOK, NextDay, Ages
  <2> QED
    BY <1>9, <2>1, <2>2 DEF TypeOK, NextDay
<1>10. CASE UNCHANGED vars
  BY <1>10 DEF TypeOK, vars, Old
<1> QED
  BY <1>1, <1>2, <1>3, <1>4, <1>5, <1>6, <1>7, <1>8, <1>9, <1>10 DEF Next, Job

\* The listings keep their shape.
LEMMA ShapeStep == TypeOK /\ Shape /\ [Next]_vars => Shape'
<1> SUFFICES ASSUME TypeOK, Shape, [Next]_vars, NEW i \in Jobs PROVE ShapeOf(i)'
  BY DEF Shape
<1>0. ShapeOf(i)
  BY DEF Shape
<1> USE FilesAssumption DEF ShapeOf, Working
<1>1. ASSUME NEW j \in Jobs, Begin(j) PROVE ShapeOf(i)'
  BY <1>0, <1>1 DEF TypeOK, Begin
<1>2. ASSUME NEW j \in Jobs, List(j) PROVE ShapeOf(i)'
  <2> DEFINE rest == {f \in Files : DirOf[f] = dir[j] /\ place[f] = "logs"}
  <2>1. Onward(j, rest) /\ UNCHANGED <<place, hand>> /\ pc[j] = "list"
    BY <1>2 DEF List
  <2> HIDE DEF rest
  <2>2. \A f \in rest : DirOf[f] = dir[j] /\ place[f] # "none"
    BY DEF rest
  <2>3. rest \in SUBSET Files
    BY DEF rest
  <2>4. CASE i = j
    <3>1. hand'[i] = {} /\ left'[i] = rest
      BY <1>0, <2>1, <2>3, <2>4, OnwardFacts
    <3>2. rest # {} => pc'[j] = "stat" /\ dir'[j] = dir[j]
      BY <2>1 DEF Onward, TypeOK
    <3> QED
      BY <2>1, <2>2, <2>4, <3>1, <3>2
  <2>5. CASE i # j
    BY <1>0, <2>1, <2>3, <2>5, OnwardFacts
  <2> QED
    BY <2>4, <2>5
<1>3. ASSUME NEW j \in Jobs, NEW f \in Files, Stat(j, f) PROVE ShapeOf(i)'
  <2>1. CASE GiveUpAll(j)
    BY <1>0, <1>3, <2>1 DEF TypeOK, Stat, Due, GiveUpAll
  <2>2. CASE TakeUp(j, f)
    BY <1>0, <1>3, <2>2 DEF TypeOK, Stat, Due, TakeUp
  <2>3. CASE PassOver(j, f)
    <3>1. Onward(j, left[j] \ {f}) /\ UNCHANGED <<place, hand>> /\ pc[j] = "stat"
      BY <1>3, <2>3 DEF Stat, Due, PassOver
    <3>2. left[j] \ {f} \in SUBSET Files
      BY DEF TypeOK
    <3>3. CASE i = j
      <4>1. hand'[j] = {} /\ left'[j] = left[j] \ {f}
        BY <1>0, <3>1, <3>2, <3>3, OnwardFacts
      <4>2. left[j] \ {f} # {} => pc'[j] = "stat" /\ dir'[j] = dir[j]
        BY <3>1 DEF Onward, TypeOK
      <4> QED
        BY <1>0, <3>1, <3>3, <4>1, <4>2
    <3>4. CASE i # j
      BY <1>0, <3>1, <3>2, <3>4, OnwardFacts
    <3> QED
      BY <3>3, <3>4
  <2> QED
    BY <1>3, <2>1, <2>2, <2>3 DEF Stat
<1>4. ASSUME NEW j \in Jobs, Rename(j) \/ RenameFails(j) PROVE ShapeOf(i)'
  <2>1. Onward(j, left[j]) /\ left[j] \in SUBSET Files /\ pc[j] = "rename"
    BY <1>4 DEF Rename, RenameFails, TypeOK
  <2>2. \A f \in Files : place[f] # "none" => place'[f] # "none"
    BY <1>4 DEF Rename, RenameFails, TypeOK
  <2>3. hand'[j] = {} /\ (i # j => hand'[i] = hand[i])
    BY <1>4 DEF Rename, RenameFails, TypeOK
  <2>4. left[i] \subseteq Files
    BY DEF TypeOK
  <2>5. CASE i = j
    <3>1. hand'[i] = {} /\ left'[i] = left[i]
      BY <2>1, <2>3, <2>5, OnwardFacts
    <3>2. left[j] # {} => pc'[j] = "stat" /\ dir'[j] = dir[j]
      BY <2>1 DEF Onward, TypeOK
    <3> QED
      BY <1>0, <2>2, <2>4, <2>5, <3>1, <3>2
  <2>6. CASE i # j
    <3>1. pc'[i] = pc[i] /\ dir'[i] = dir[i] /\ left'[i] = left[i]
      BY <2>1, <2>6, OnwardFacts
    <3> QED
      BY <1>0, <2>2, <2>3, <2>4, <2>6, <3>1
  <2> QED
    BY <2>5, <2>6
<1>5. ASSUME NEW j \in Jobs, Dies(j) PROVE ShapeOf(i)'
  BY <1>0, <1>5 DEF TypeOK, Dies
<1>6. ASSUME NEW f \in Files, Open(f) \/ Rotate(f) PROVE ShapeOf(i)'
  <2>1. \A g \in Files : place[g] # "none" => place'[g] # "none"
    BY <1>6 DEF TypeOK, Open, Rotate
  <2>2. UNCHANGED <<pc, dir, left, hand>> /\ left[i] \subseteq Files
    BY <1>6 DEF TypeOK, Open, Rotate
  <2> QED
    BY <1>0, <2>1, <2>2
<1>7. CASE NextDay
  BY <1>0, <1>7 DEF TypeOK, NextDay, Ended
<1>8. CASE UNCHANGED vars
  BY <1>0, <1>8 DEF vars
<1> QED
  BY <1>1, <1>2, <1>3, <1>4, <1>5, <1>6, <1>7, <1>8 DEF Next, Job

\* The steps with which a job gets on.
Goes(j) ==
  \/ List(j) \/ Rename(j) \/ RenameFails(j)
  \/ \E f \in Files : Due(j, f) /\ (PassOver(j, f) \/ TakeUp(j, f))

\* A job that goes on does not come back to a file it has passed.
LEMMA PastKept ==
  ASSUME TypeOK, NEW j \in Jobs, NEW f \in Files, Past(j, f), Goes(j)
  PROVE  Past(j, f)'
<1> USE FilesAssumption, DirsAssumption DEF Past, Working
<1>0. DirOf[f] \in Int /\ dir[j] \in Int /\ Dirs \in Int
  BY DEF TypeOK
<1>1. CASE List(j)
  <2> DEFINE rest == {g \in Files : DirOf[g] = dir[j] /\ place[g] = "logs"}
  <2>1. Onward(j, rest) /\ pc[j] = "list"
    BY <1>1 DEF List
  <2> QED
    BY <2>1, <1>0, OnwardFacts
<1>2. CASE Rename(j) \/ RenameFails(j)
  <2>1. Onward(j, left[j]) /\ pc[j] = "rename" /\ left[j] \in SUBSET Files
    BY <1>2 DEF Rename, RenameFails, TypeOK
  <2> QED
    BY <2>1, <1>0, OnwardFacts
<1>3. ASSUME NEW g \in Files, Due(j, g), PassOver(j, g) PROVE Past(j, f)'
  <2>1. Onward(j, left[j] \ {g}) /\ pc[j] = "stat" /\ left[j] \ {g} \in SUBSET Files
    BY <1>3 DEF PassOver, Due, TypeOK
  <2> QED
    BY <2>1, <1>0, OnwardFacts
<1>4. ASSUME NEW g \in Files, Due(j, g), TakeUp(j, g) PROVE Past(j, f)'
  BY <1>4, <1>0 DEF TakeUp, Due, TypeOK
<1> QED
  BY <1>1, <1>2, <1>3, <1>4 DEF Goes

\* It remains a job under way, and the others stay as they are.
LEMMA GoesOn ==
  ASSUME TypeOK, NEW j \in Jobs, Goes(j)
  PROVE  /\ pc[j] \in {"list", "stat", "rename"} /\ pc'[j] \in {"list", "stat", "rename", "done"}
         /\ \A i \in Jobs \ {j} : pc'[i] = pc[i] /\ dir'[i] = dir[i] /\ left'[i] = left[i]
         /\ List(j) \/ left'[j] \subseteq left[j]
<1>1. CASE List(j)
  <2>1. Onward(j, {f \in Files : DirOf[f] = dir[j] /\ place[f] = "logs"}) /\ pc[j] = "list"
    BY <1>1 DEF List
  <2> QED
    BY <1>1, <2>1, OnwardFacts
<1>2. CASE Rename(j) \/ RenameFails(j)
  <2>1. Onward(j, left[j]) /\ pc[j] = "rename" /\ left[j] \in SUBSET Files
    BY <1>2 DEF Rename, RenameFails, TypeOK
  <2> QED
    BY <2>1, OnwardFacts
<1>3. ASSUME NEW g \in Files, Due(j, g), PassOver(j, g)
      PROVE  /\ pc[j] = "stat" /\ pc'[j] \in {"list", "stat", "done"}
             /\ \A i \in Jobs \ {j} : pc'[i] = pc[i] /\ dir'[i] = dir[i] /\ left'[i] = left[i]
             /\ left'[j] \subseteq left[j]
  <2>1. Onward(j, left[j] \ {g}) /\ pc[j] = "stat" /\ left[j] \ {g} \in SUBSET Files
    BY <1>3 DEF PassOver, Due, TypeOK
  <2> QED
    BY <2>1, OnwardFacts
<1>4. ASSUME NEW g \in Files, Due(j, g), TakeUp(j, g)
      PROVE  /\ pc[j] = "stat" /\ pc'[j] = "rename"
             /\ \A i \in Jobs \ {j} : pc'[i] = pc[i] /\ dir'[i] = dir[i] /\ left'[i] = left[i]
             /\ left'[j] \subseteq left[j]
  BY <1>4 DEF TakeUp, Due, TypeOK
<1> QED
  BY <1>1, <1>2, <1>3, <1>4 DEF Goes

\* A leader that stays where it is, or gets on, keeps the lead over the old traps.
LEMMA LeadKept ==
  ASSUME TypeOK, NEW k \in Jobs, Leads(k), Traps' \subseteq Traps,
         Goes(k) \/ (pc'[k] = pc[k] /\ dir'[k] = dir[k] /\ left'[k] = left[k])
  PROVE  Leads(k)'
<1>1. CASE Goes(k)
  <2>1. ASSUME NEW f \in Traps' PROVE Past(k, f)'
    <3>1. f \in Files /\ Past(k, f)
      BY DEF Leads, Traps
    <3> QED
      BY <1>1, <3>1, PastKept
  <2> QED
    BY <1>1, <2>1, GoesOn DEF Leads
<1>2. CASE pc'[k] = pc[k] /\ dir'[k] = dir[k] /\ left'[k] = left[k]
  BY <1>2 DEF Leads, Past, Working
<1> QED
  BY <1>1, <1>2

\* A job that moves a file the leader has not come to is itself ahead of the leader.
LEMMA TakesLead ==
  ASSUME TypeOK, Shape, NEW j \in Jobs, Rename(j), NEW f \in hand[j],
         NEW k \in Jobs, Leads(k), ~Past(k, f)
  PROVE  Leads(j)'
<1> USE FilesAssumption, DirsAssumption
<1>1. f \in Files /\ hand[j] = {f} /\ DirOf[f] = dir[j] /\ \A h \in left[j] : f < h
  BY DEF TypeOK, Shape, ShapeOf, Rename
<1>2. Goes(j) /\ pc[j] = "rename" /\ Onward(j, left[j]) /\ left[j] \in SUBSET Files
  BY DEF Goes, Rename, TypeOK
<1>3. ASSUME NEW g \in Traps PROVE Past(j, g)
  <2>1. g \in Files /\ Past(k, g)
    BY DEF Leads, Traps
  <2>2. dir[j] \in Int /\ dir[k] \in Int /\ DirOf[g] \in Int /\ left[k] \subseteq Files
    BY <2>1 DEF TypeOK
  <2>3. pc[k] \in {"list", "stat", "rename"} /\ DirOf[f] >= dir[k]
    BY <1>1, <2>2 DEF Leads, Past, TypeOK
  <2>4. CASE DirOf[g] < dir[k]
    BY <1>1, <1>2, <2>2, <2>3, <2>4 DEF Past
  <2>5. CASE Working(k) /\ DirOf[g] = dir[k] /\ \A h \in left[k] : g < h
    <3>1. CASE DirOf[f] > dir[k]
      BY <1>1, <1>2, <2>2, <2>5, <3>1 DEF Past
    <3>2. CASE DirOf[f] = dir[k]
      <4>1. PICK h \in left[k] : ~(f < h)
        BY <1>1, <2>5, <3>2 DEF Past
      <4>2. g < f
        <5>1. g < h /\ g \in Nat /\ h \in Nat /\ f \in Nat
          BY <1>1, <2>1, <2>2, <2>5, <4>1
        <5> QED
          BY <4>1, <5>1
      <4>3. \A i \in left[j] : g < i
        <5>1. f \in Nat /\ g \in Nat /\ left[j] \subseteq Nat
          BY <1>1, <1>2, <2>1
        <5> QED
          BY <1>1, <4>2, <5>1
      <4> QED
        BY <1>1, <1>2, <2>5, <3>2, <4>3 DEF Past, Working
    <3> QED
      BY <1>1, <2>2, <2>3, <3>1, <3>2
  <2> QED
    BY <2>1, <2>3, <2>4, <2>5 DEF Past
<1>4. Past(j, f)
  BY <1>1, <1>2 DEF Past, Working
<1>5. Traps' \subseteq Traps \cup {f}
  <2>1. \A i \in Jobs : left'[i] = left[i]
    BY <1>2, OnwardFacts
  <2>2. \A g \in Files \ {f} : place'[g] = place[g]
    BY <1>1 DEF Rename, TypeOK
  <2> QED
    BY <2>1, <2>2 DEF Traps
<1>6. ASSUME NEW g \in Traps' PROVE Past(j, g)'
  <2>1. g \in Files /\ Past(j, g)
    BY <1>3, <1>4, <1>5, <1>1 DEF Traps
  <2> QED
    BY <1>2, <2>1, PastKept
<1> QED
  BY <1>2, <1>6, GoesOn DEF Leads

\* No new trap, nobody killed or aborted without a trap, and every leader goes on or
\* stays: there is still a leader.
LEMMA LedKept ==
  ASSUME TypeOK, Led, ~disturbed, Traps' \subseteq Traps,
         \A i \in Jobs : pc'[i] # "dead",
         \A i \in Jobs : pc'[i] = "aborted" => pc[i] = "aborted" \/ Traps # {},
         \A k \in Jobs : Leads(k) =>
           Goes(k) \/ (pc'[k] = pc[k] /\ dir'[k] = dir[k] /\ left'[k] = left[k])
  PROVE  Led'
<1>1. CASE Traps' # {} \/ \E i \in Jobs : pc'[i] = "aborted"
  <2>1. PICK k \in Jobs : Leads(k)
    BY <1>1 DEF Led
  <2>2. Leads(k)'
    BY <2>1, LeadKept
  <2> QED
    BY <2>2 DEF Led
<1>2. CASE ~(Traps' # {} \/ \E i \in Jobs : pc'[i] = "aborted")
  BY <1>2 DEF Led
<1> QED
  BY <1>1, <1>2

\* There is a leader after every step, unless something else touched the files.
LEMMA LedStep == TypeOK /\ Shape /\ Led /\ [Next]_vars => Led'
<1> SUFFICES ASSUME TypeOK, Shape, Led, [Next]_vars, ~disturbed' PROVE Led'
  BY DEF Led
<1>0. ~disturbed => \A i \in Jobs : pc[i] # "dead"
  BY DEF Led
<1>1. ASSUME NEW j \in Jobs, Begin(j) PROVE Led'
  <2>1. ~disturbed /\ Traps' = Traps /\ pc[j] = "idle" /\ pc' = [pc EXCEPT ![j] = "list"]
    BY <1>1 DEF Begin, Traps
  <2>2. \A i \in Jobs \ {j} : pc'[i] = pc[i] /\ dir'[i] = dir[i] /\ left'[i] = left[i]
    BY <1>1 DEF Begin, TypeOK
  <2>3. pc'[j] = "list" /\ ~Leads(j)
    BY <2>1 DEF TypeOK, Leads
  <2> QED
    BY <1>0, <2>1, <2>2, <2>3, LedKept
<1>2. ASSUME NEW j \in Jobs, List(j) PROVE Led'
  <2>1. Goes(j) /\ ~disturbed /\ place' = place
    BY <1>2 DEF Goes, List
  <2>2. left'[j] \subseteq {f \in Files : place[f] = "logs"}
    BY <1>2, OnwardFacts DEF List
  <2>3. Traps' \subseteq Traps
    BY <2>1, <2>2, GoesOn DEF Traps
  <2> QED
    BY <1>0, <2>1, <2>3, GoesOn, LedKept
<1>3. ASSUME NEW j \in Jobs, NEW f \in Files, Stat(j, f) PROVE Led'
  <2>0. ~disturbed /\ place' = place /\ Due(j, f) /\ f \in left[j]
    BY <1>3 DEF Stat, Due
  <2>1. CASE place[f] # "logs"
    <3>1. f \in Traps /\ pc[j] = "stat"
      BY <2>0, <2>1 DEF Traps, Due
    <3>2. ~Past(j, f)
      <4>1. DirOf[f] = dir[j] /\ dir[j] \in Int /\ f \in Int
        BY <2>0, FilesAssumption DEF Shape, ShapeOf, TypeOK
      <4> QED
        BY <2>0, <3>1, <4>1 DEF Past
    <3>3. ~Leads(j)
      BY <3>1, <3>2 DEF Leads
    <3>4. /\ pc'[j] = "aborted" /\ left'[j] = {}
          /\ \A i \in Jobs \ {j} : pc'[i] = pc[i] /\ dir'[i] = dir[i] /\ left'[i] = left[i]
      BY <1>3, <2>1 DEF Stat, GiveUpAll, TypeOK
    <3>5. Traps' \subseteq Traps
      BY <2>0, <3>4 DEF Traps
    <3> QED
      BY <1>0, <2>0, <3>1, <3>3, <3>4, <3>5, LedKept
  <2>2. CASE place[f] = "logs"
    <3>1. Goes(j) /\ ~List(j)
      BY <1>3, <2>0, <2>2 DEF Stat, Goes, Due, List
    <3>2. Traps' \subseteq Traps
      BY <2>0, <3>1, GoesOn DEF Traps
    <3> QED
      BY <1>0, <2>0, <3>1, <3>2, GoesOn, LedKept
  <2> QED
    BY <2>1, <2>2
<1>4. ASSUME NEW j \in Jobs, Rename(j) PROVE Led'
  <2>1. Goes(j) /\ ~disturbed /\ pc[j] = "rename" /\ Onward(j, left[j])
    BY <1>4 DEF Goes, Rename
  <2>2. PICK f \in Files : hand[j] = {f}
    BY <2>1 DEF TypeOK
  <2>3. \A i \in Jobs : left'[i] = left[i]
    BY <2>1, OnwardFacts DEF TypeOK
  <2>4. \A g \in Files \ {f} : place'[g] = place[g]
    BY <1>4, <2>2 DEF Rename, TypeOK
  <2>5. Traps' \subseteq Traps \cup {f}
    BY <2>3, <2>4 DEF Traps
  <2>6. \A i \in Jobs : pc'[i] # "dead"
    BY <1>0, <2>1, GoesOn
  <2>7. CASE \E k \in Jobs : Leads(k) /\ ~Past(k, f)
    BY <1>4, <2>2, <2>6, <2>7, TakesLead DEF Led
  <2>8. CASE \E k \in Jobs : Leads(k) /\ Past(k, f)
    <3>1. PICK k \in Jobs : Leads(k) /\ Past(k, f)
      BY <2>8
    <3>2. ASSUME NEW g \in Traps' PROVE Past(k, g)'
      <4>1. g \in Files /\ Past(k, g)
        BY <2>5, <3>1 DEF Leads, Traps
      <4>2. CASE k = j
        BY <2>1, <4>1, <4>2, PastKept
      <4>3. CASE k # j
        BY <2>1, <4>1, <4>3, GoesOn DEF Past, Working
      <4> QED
        BY <4>2, <4>3
    <3>3. Leads(k)'
      BY <2>1, <3>1, <3>2, GoesOn DEF Leads
    <3> QED
      BY <2>6, <3>3 DEF Led
  <2>9. CASE ~\E k \in Jobs : Leads(k)
    <3>1. Traps = {}
      BY <2>1, <2>9 DEF Led
    <3>2. Past(j, f)
      BY <2>1, <2>2 DEF Past, Working, Shape, ShapeOf
    <3>3. \A g \in Traps' : g = f
      BY <2>5, <3>1
    <3>4. Leads(j)'
      BY <2>1, <3>2, <3>3, PastKept, GoesOn DEF Leads
    <3> QED
      BY <2>6, <3>4 DEF Led
  <2> QED
    BY <2>7, <2>8, <2>9
<1>5. ASSUME NEW j \in Jobs, RenameFails(j) \/ Dies(j) PROVE Led'
  BY <1>5 DEF RenameFails, Dies
<1>6. ASSUME NEW f \in Files, Open(f) PROVE Led'
  <2>1. ~disturbed /\ UNCHANGED <<pc, dir, left>> /\ \A g \in Files \ {f} : place'[g] = place[g]
    BY <1>6 DEF Open, TypeOK
  <2>2. place'[f] = "logs"
    BY <1>6 DEF Open, TypeOK
  <2>3. Traps' \subseteq Traps
    BY <2>1, <2>2 DEF Traps
  <2> QED
    BY <1>0, <2>1, <2>3, LedKept
<1>7. ASSUME NEW f \in Files, Rotate(f) PROVE Led'
  <2>1. \A j \in Jobs : pc'[j] = "idle" /\ left'[j] = {}
    BY <1>7 DEF Rotate, TypeOK, Shape, ShapeOf, Working
  <2> QED
    BY <2>1 DEF Led, Traps
<1>8. CASE NextDay
  <2>1. \A j \in Jobs : pc'[j] = "idle" /\ left'[j] = {}
    BY <1>8 DEF NextDay, Ended, TypeOK, Shape, ShapeOf, Working
  <2> QED
    BY <2>1 DEF Led, Traps
<1>9. CASE UNCHANGED vars
  BY <1>9 DEF vars, Led, Traps, Leads, Past, Working
<1> QED
  BY <1>1, <1>2, <1>3, <1>4, <1>5, <1>6, <1>7, <1>8, <1>9 DEF Next, Job

\* A job that gets on leaves no old file behind.
LEMMA AheadKept ==
  ASSUME TypeOK, Shape, NEW j \in Jobs, NEW f \in Files, Ahead(j, f), place'[f] = "logs", Old(f),
         \/ List(j) \/ Rename(j)
         \/ \E g \in Files : Stat(j, g) /\ place[g] = "logs"
  PROVE  Ahead(j, f)'
<1> USE FilesAssumption, DirsAssumption DEF Ahead, Working
<1>0. DirOf[f] \in 1 .. Dirs /\ dir[j] \in Int /\ Dirs \in Int
  BY DEF TypeOK
<1>1. CASE List(j)
  <2> DEFINE rest == {g \in Files : DirOf[g] = dir[j] /\ place[g] = "logs"}
  <2>1. Onward(j, rest) /\ pc[j] = "list" /\ place' = place
    BY <1>1 DEF List
  <2> QED
    BY <1>0, <2>1, OnwardFacts
<1>2. CASE Rename(j)
  <2>1. Onward(j, left[j]) /\ pc[j] = "rename" /\ left[j] \in SUBSET Files
    BY <1>2 DEF Rename, TypeOK
  <2>2. f \notin hand[j]
    BY <1>2 DEF Rename, TypeOK
  <2>3. f \in left[j] \/ dir[j] < DirOf[f]
    BY <2>1, <2>2
  <2> QED
    BY <1>0, <2>1, <2>3, OnwardFacts
<1>3. ASSUME NEW g \in Files, Stat(j, g), place[g] = "logs" PROVE Ahead(j, f)'
  <2>1. pc[j] = "stat" /\ left[j] \ {g} \in SUBSET Files /\ hand[j] = {}
    BY <1>3 DEF Stat, Due, TypeOK, Shape, ShapeOf
  <2>2. f \in left[j] \/ dir[j] < DirOf[f]
    BY <2>1
  <2>3. CASE Old(g)
    BY <1>3, <2>1, <2>2, <2>3 DEF Stat, TakeUp, TypeOK
  <2>4. CASE ~Old(g)
    <3>1. Onward(j, left[j] \ {g}) /\ f # g
      BY <1>3, <2>4 DEF Stat, PassOver
    <3> QED
      BY <1>0, <2>1, <2>2, <3>1, OnwardFacts
  <2> QED
    BY <2>3, <2>4
<1> QED
  BY <1>1, <1>2, <1>3

\* No step lets a job that was not aborted miss an old file.
LEMMA MissStep == TypeOK /\ Shape /\ NothingMissed /\ [Next]_vars => NothingMissed'
<1> SUFFICES ASSUME TypeOK, Shape, NothingMissed, [Next]_vars, ~disturbed',
                    NEW i \in Jobs, NEW f \in Files, place'[f] = "logs", Old(f)'
             PROVE  pc'[i] = "aborted" \/ Ahead(i, f)'
  BY DEF NothingMissed
<1> DEFINE Goal == pc'[i] = "aborted" \/ Ahead(i, f)'
<1> DEFINE Same(j) == pc'[j] = pc[j] /\ dir'[j] = dir[j] /\ left'[j] = left[j] /\ hand'[j] = hand[j]
<1>0. ASSUME ~disturbed, place[f] = "logs", Old(f), Same(i) PROVE Goal
  BY <1>0 DEF NothingMissed, Ahead, Working
<1>1. ASSUME NEW j \in Jobs, Begin(j) PROVE Goal
  <2>1. CASE i = j
    BY <1>1, <2>1, DirsAssumption DEF Begin, TypeOK, Ahead
  <2>2. CASE i # j
    BY <1>0, <1>1, <2>2 DEF Begin, TypeOK, Old
  <2> QED
    BY <2>1, <2>2
<1>2. ASSUME NEW j \in Jobs, List(j) \/ Rename(j) PROVE Goal
  <2>1. Goes(j) /\ ~disturbed /\ Old(f) /\ place[f] = "logs"
    BY <1>2 DEF Goes, List, Rename, Old, TypeOK
  <2>2. CASE i = j
    <3>1. pc[j] # "aborted"
      BY <2>1, GoesOn
    <3> QED
      BY <1>2, <2>1, <2>2, <3>1, AheadKept DEF NothingMissed
  <2>3. CASE i # j
    <3>1. hand'[i] = hand[i]
      BY <1>2, <2>3 DEF List, Rename, TypeOK
    <3>2. left'[i] = left[i]
      <4>1. CASE List(j)
        BY <2>1, <2>3, GoesOn
      <4>2. CASE Rename(j)
        BY <2>1, <2>3, GoesOn
      <4> QED
        BY <1>2, <4>1, <4>2
    <3> QED
      BY <1>0, <2>1, <2>3, <3>1, <3>2, GoesOn
  <2> QED
    BY <2>2, <2>3
<1>3. ASSUME NEW j \in Jobs, NEW g \in Files, Stat(j, g) PROVE Goal
  <2>1. ~disturbed /\ Old(f) /\ place[f] = "logs" /\ pc[j] = "stat"
    BY <1>3 DEF Stat, Due, Old
  <2>2. CASE i = j /\ place[g] = "logs"
    BY <1>3, <2>1, <2>2, AheadKept DEF NothingMissed
  <2>3. CASE i = j /\ place[g] # "logs"
    BY <1>3, <2>3 DEF Stat, GiveUpAll, TypeOK
  <2>4. CASE i # j /\ place[g] = "logs"
    <3>1. Goes(j)
      BY <1>3, <2>4 DEF Goes, Stat
    <3>2. hand'[i] = hand[i]
      BY <1>3, <2>4 DEF Stat, TakeUp, PassOver, TypeOK
    <3> QED
      BY <1>0, <2>1, <2>4, <3>1, <3>2, GoesOn
  <2>5. CASE i # j /\ place[g] # "logs"
    BY <1>0, <1>3, <2>1, <2>5 DEF Stat, GiveUpAll, TypeOK
  <2> QED
    BY <2>2, <2>3, <2>4, <2>5
<1>4. ASSUME NEW j \in Jobs, RenameFails(j) \/ Dies(j) PROVE Goal
  BY <1>4 DEF RenameFails, Dies
<1>5. ASSUME NEW g \in Files, Open(g) PROVE Goal
  <2>1. CASE g = f
    BY <1>5, <2>1, MonthAssumption DEF Open, Old, TypeOK
  <2>2. CASE g # f
    BY <1>0, <1>5, <2>2 DEF Open, Old, TypeOK
  <2> QED
    BY <2>1, <2>2
<1>6. ASSUME NEW g \in Files, Rotate(g) PROVE Goal
  BY <1>6 DEF Rotate, Ahead, Working, TypeOK
<1>7. CASE NextDay
  BY <1>7 DEF NextDay, Ahead, Working
<1>8. CASE UNCHANGED vars
  BY <1>0, <1>8 DEF vars, Old
<1> QED
  BY <1>1, <1>2, <1>3, <1>4, <1>5, <1>6, <1>7, <1>8 DEF Next, Job

LEMMA InitInv == Init => Inv
<1> SUFFICES ASSUME Init PROVE Inv
  OBVIOUS
<1>1. TypeOK
  <2>1. 1 \in 1 .. Dirs
    BY DirsAssumption
  <2>2. dir \in [Jobs -> 1 .. Dirs]
    BY <2>1 DEF Init
  <2>3. place \in [Files -> {"none", "logs", "backup", "deleted"}] /\ age \in [Files -> Ages \cup {Never}]
    BY DEF Init
  <2>4. \A f \in Files : place[f] = "none" <=> age[f] = Never
    BY DEF Init
  <2>5. pc \in [Jobs -> {"idle", "list", "stat", "rename", "done", "aborted", "dead"}]
    BY DEF Init
  <2>6. left \in [Jobs -> SUBSET Files] /\ hand \in [Jobs -> SUBSET Files] /\ disturbed \in BOOLEAN
    BY DEF Init
  <2>7. \A j \in Jobs : pc[j] # "rename"
    BY DEF Init
  <2> QED
    BY <2>2, <2>3, <2>4, <2>5, <2>6, <2>7 DEF TypeOK
<1>2. Shape /\ NothingMissed
  BY DEF Init, Shape, ShapeOf, NothingMissed
<1>3. Traps = {} /\ \A j \in Jobs : pc[j] = "idle"
  BY DEF Init, Traps
<1> QED
  BY <1>1, <1>2, <1>3 DEF Inv, Led

LEMMA StepInv == Inv /\ [Next]_vars => Inv'
BY TypeStep, ShapeStep, LedStep, MissStep DEF Inv

-----------------------------------------------------------------------------
\* The variables stay in their ranges, and a job only renames a file it has seen old.
THEOREM TypeCorrect == Spec => []TypeOK
<1>1. Inv => TypeOK
  BY DEF Inv
<1> QED
  BY <1>1, InitInv, StepInv, PTL DEF Spec

\* However many processes run the job at midnight and abort each other, together
\* they leave no old file in logs/: the leader is never aborted.
THEOREM NightsAreComplete == Spec => []NightComplete
<1>1. Inv => NightComplete
  <2> SUFFICES ASSUME Inv, Ended, ~disturbed, NEW f \in Files, place[f] = "logs", Old(f)
               PROVE  FALSE
    BY DEF NightComplete
  <2>1. \A j \in Jobs : pc[j] \in {"done", "aborted"}
    BY DEF Inv, Led, Ended
  <2>2. \A j \in Jobs : pc[j] = "aborted"
    BY <2>1 DEF Inv, NothingMissed, Ahead, Working
  <2>3. PICK k \in Jobs : Leads(k)
    BY <2>2, JobsAssumption DEF Inv, Led
  <2> QED
    BY <2>2, <2>3 DEF Leads
<1> QED
  BY <1>1, InitInv, StepInv, PTL DEF Spec
=============================================================================
