--------------------------- MODULE PersistProofs ----------------------------
(***************************************************************************)
(* If all threads belong to one process, its mutex is enough: at most one  *)
(* thread is inside a save or a load, so the sibling and the file are what *)
(* that thread put there or found.  Threads, kinds of model, saves and     *)
(* crashes are any.                                                        *)
(***************************************************************************)
EXTENDS Persist, TLAPS

Files == [save : Nat \ {0}, kind : Kinds, py : Nat]
Jobs == [save : Nat \ {0}, kind : Kinds, extra : BOOLEAN]
Results ==
  {Nothing, Error} \cup [by : {"save"}, job : Jobs]
                   \cup [by : {"load"}, file : Files, arm : {0, 4, 8}]

BusySteps == SaveSteps \cup LoadSteps
Busy(t) == pc[t] \in BusySteps

Types ==
  /\ path \in Files \cup {NoFile}
  /\ tmp \in Files \cup {NoFile}
  /\ pool \in [Processes -> Threads \cup {Nobody}]
  /\ pc \in [Threads -> Steps]
  /\ job \in [Threads -> Jobs \cup {NoJob}]
  /\ read \in [Threads -> Files \cup {NoFile}]
  /\ arm \in [Threads -> {0, 4, 8}]
  /\ result \in [Threads -> Results]
  /\ saves \in Nat

(* The mutex is with the thread that is inside a call. *)
Held == \A t \in Threads : pool[ProcessOf[t]] = t <=> Busy(t)

(* What a thread knows of the two files at each of its steps. *)
Saving(t) == pc[t] \in SaveSteps => job[t] \in Jobs /\ job[t].save = saves
Staged(t) == pc[t] = "publish" => tmp = File(saves, job[t].kind, 0)
Merging(t) ==
  pc[t] \in {"merge", "merge_stage"} => job[t].extra /\ path = File(saves, job[t].kind, 0)
MergeRereads(t) == pc[t] = "merge_stage" => read[t] = path
MergeStaged(t) ==
  pc[t] = "merge_publish" => job[t].extra /\ tmp = File(saves, job[t].kind, saves)
Loading(t) == pc[t] \in {"identified", "width", "tensors"} => path \in Files
Chosen(t) == pc[t] = "tensors" => HasWidth(path, arm[t])

Place(t) ==
  /\ Saving(t) /\ Staged(t)
  /\ Merging(t) /\ MergeRereads(t) /\ MergeStaged(t)
  /\ Loading(t) /\ Chosen(t)

Places == \A t \in Threads : Place(t)

(* An acknowledged save stays the last one until another begins. *)
SaveKept(t) ==
  result[t].by = "save" =>
    /\ result[t].job.save <= saves
    /\ result[t].job.save = saves =>
         /\ \A u \in Threads : pc[u] \notin SaveSteps
         /\ path = Stored(result[t].job)

LoadKept(t) == result[t].by = "load" => HasWidth(result[t].file, result[t].arm)

Outcomes == \A t \in Threads : SaveKept(t) /\ LoadKept(t)

IInv == Types /\ Held /\ Places /\ Outcomes /\ ExtrasBelong

----------------------------------------------------------------------------
LEMMA FileIsAFile ==
  ASSUME NEW s \in Nat \ {0}, NEW k \in Kinds, NEW e \in Nat
  PROVE  /\ File(s, k, e) \in Files
         /\ File(s, k, e).save = s
         /\ File(s, k, e).kind = k
         /\ File(s, k, e).py = e
BY DEF File, Files

LEMMA FilesExist ==
  ASSUME NEW f \in Files \cup {NoFile}
  PROVE  Exists(f) <=> f \in Files
BY DEF Exists, Files, NoFile

(* Two threads are never both inside a call. *)
LEMMA Alone ==
  ASSUME OneProcess, Held, NEW t \in Threads, NEW u \in Threads, Busy(t), Busy(u)
  PROVE  t = u
BY DEF OneProcess, Held

LEMMA Bystanders ==
  ASSUME OneProcess, Types, Held, NEW t \in Threads, NEW u \in Threads, Busy(t), u # t
  PROVE  pc[u] \in {"idle", "identified"}
<1>1. ~Busy(u)
  BY Alone
<1> QED
  BY <1>1 DEF Types, Busy, BusySteps, Steps

LEMMA NobodyInside ==
  ASSUME OneProcess, Types, Held, NEW t \in Threads, pool[ProcessOf[t]] = Nobody, NEW u \in Threads
  PROVE  pc[u] \in {"idle", "identified"}
<1>1. ~Busy(u)
  BY NobodyAssumption DEF OneProcess, Held
<1> QED
  BY <1>1 DEF Types, Busy, BusySteps, Steps

(* A call that goes on keeps the mutex. *)
LEMMA GoesOn ==
  ASSUME Types, Held, NEW t \in Threads, Busy(t),
         NEW s \in BusySteps, Goto(t, s), UNCHANGED pool
  PROVE  /\ pc' \in [Threads -> Steps]
         /\ Held'
         /\ pc'[t] = s
         /\ \A u \in Threads : u # t => pc'[u] = pc[u]
<1>1. /\ pc' \in [Threads -> Steps]
      /\ pc'[t] = s
      /\ \A u \in Threads : u # t => pc'[u] = pc[u]
  BY DEF Types, Goto, BusySteps, Steps
<1>2. ASSUME NEW u \in Threads PROVE (pool[ProcessOf[u]] = u <=> Busy(u))'
  BY <1>1 DEF Held, Busy
<1> QED
  BY <1>1, <1>2 DEF Held

(* A call that returns gives the mutex back, and nobody is inside. *)
LEMMA Returns ==
  ASSUME OneProcess, Types, Held, NEW t \in Threads, Busy(t),
         NEW outcome \in Results, Return(t, outcome)
  PROVE  /\ pool' \in [Processes -> Threads \cup {Nobody}]
         /\ pc' \in [Threads -> Steps]
         /\ job' \in [Threads -> Jobs \cup {NoJob}]
         /\ read' \in [Threads -> Files \cup {NoFile}]
         /\ arm' \in [Threads -> {0, 4, 8}]
         /\ result' \in [Threads -> Results]
         /\ Held'
         /\ \A u \in Threads : pc'[u] \in {"idle", "identified"}
         /\ \A u \in Threads : pc'[u] = "identified" => pc[u] = "identified"
         /\ result'[t] = outcome
         /\ \A u \in Threads : u # t => result'[u] = result[u]
<1>1. /\ pool' \in [Processes -> Threads \cup {Nobody}]
      /\ pool'[ProcessOf[t]] = Nobody
  BY ProcessAssumption DEF Types, Return
<1>2. /\ pc' \in [Threads -> Steps]
      /\ pc'[t] = "idle"
      /\ \A u \in Threads : u # t => pc'[u] = pc[u]
  BY DEF Types, Return, Goto, Steps
<1>3. job' \in [Threads -> Jobs \cup {NoJob}]
  BY DEF Types, Return
<1>4. read' \in [Threads -> Files \cup {NoFile}] /\ arm' \in [Threads -> {0, 4, 8}]
  BY DEF Types, Return
<1>5. /\ result' \in [Threads -> Results]
      /\ result'[t] = outcome
      /\ \A u \in Threads : u # t => result'[u] = result[u]
  BY DEF Types, Return
<1>6. /\ \A u \in Threads : pc'[u] \in {"idle", "identified"}
      /\ \A u \in Threads : pc'[u] = "identified" => pc[u] = "identified"
  BY <1>2, Bystanders
<1>7. ASSUME NEW u \in Threads PROVE (pool[ProcessOf[u]] = u <=> Busy(u))'
  <2>1. pool'[ProcessOf[u]] = Nobody
    BY <1>1 DEF OneProcess
  <2>2. ~Busy(u)'
    BY <1>6 DEF Busy, BusySteps, SaveSteps, LoadSteps
  <2> QED
    BY <2>1, <2>2, NobodyAssumption
<1> QED
  BY <1>1, <1>2, <1>3, <1>4, <1>5, <1>6, <1>7 DEF Held

(* A thread outside a call relies on nothing but that there is a file. *)
LEMMA OutsidePlaces ==
  \A u \in Threads : pc[u] \in {"idle", "identified"} /\ Loading(u) => Place(u)
BY DEF Place, Saving, Staged, Merging, MergeRereads, MergeStaged, Loading, Chosen, SaveSteps

LEMMA OutsidePlacesNext ==
  (\A u \in Threads : pc[u] \in {"idle", "identified"} /\ Loading(u) => Place(u))'
BY OutsidePlaces, PTL

----------------------------------------------------------------------------
(* One lemma per action *)

LEMMA BeginSaveInv ==
  ASSUME OneProcess, IInv, NEW t \in Threads, NEW kind \in Kinds, NEW extra \in BOOLEAN,
         BeginSave(t, kind, extra)
  PROVE  IInv'
<1> USE DEF IInv
<1>1. saves' = saves + 1 /\ saves' \in Nat \ {0}
  BY DEF Types, BeginSave
<1>2. /\ pc' \in [Threads -> Steps]
      /\ pc'[t] = "stage"
      /\ \A u \in Threads : u # t => pc'[u] = pc[u]
  BY DEF Types, BeginSave, Goto, Steps, SaveSteps
<1>3. \A u \in Threads : pc[u] \in {"idle", "identified"}
  BY NobodyInside DEF BeginSave, Lock
<1>4. [save |-> saves + 1, kind |-> kind, extra |-> extra] \in Jobs
  BY <1>1 DEF Jobs
<1>5. /\ job' \in [Threads -> Jobs \cup {NoJob}]
      /\ job'[t] \in Jobs
      /\ job'[t].save = saves'
  BY <1>1, <1>4 DEF Types, BeginSave
<1>6. /\ result' \in [Threads -> Results]
      /\ result'[t] = Nothing
      /\ \A u \in Threads : u # t => result'[u] = result[u]
  BY DEF Types, BeginSave, Results
<1>7. Types'
  <2>1. pool' \in [Processes -> Threads \cup {Nobody}]
    BY DEF Types, BeginSave, Lock
  <2> QED
    BY <1>1, <1>2, <1>5, <1>6, <2>1 DEF Types, BeginSave
<1>8. Held'
  <2>1. ASSUME NEW u \in Threads PROVE (pool[ProcessOf[u]] = u <=> Busy(u))'
    <3>1. pool'[ProcessOf[u]] = t
      BY ProcessAssumption DEF OneProcess, Types, BeginSave, Lock
    <3>2. Busy(u)' <=> u = t
      BY <1>2, <1>3 DEF Busy, BusySteps, SaveSteps, LoadSteps
    <3> QED
      BY <3>1, <3>2
  <2> QED
    BY <2>1 DEF Held
<1>9. Places'
  <2>1. ASSUME NEW u \in Threads PROVE Place(u)'
    <3>1. CASE u = t
      BY <3>1, <1>2, <1>5 DEF Place, Saving, Staged, Merging, MergeRereads, MergeStaged, Loading, Chosen
    <3>2. CASE u # t
      BY <3>2, <1>2, <1>3, OutsidePlacesNext DEF Places, Place, Loading, BeginSave
    <3> QED
      BY <3>1, <3>2
  <2> QED
    BY <2>1 DEF Places
<1>10. Outcomes'
  <2>1. ASSUME NEW u \in Threads PROVE (SaveKept(u) /\ LoadKept(u))'
    <3>1. CASE u = t
      BY <3>1, <1>6 DEF SaveKept, LoadKept, Nothing
    <3>2. CASE u # t /\ result[u].by = "save"
      <4>1. result[u].job.save <= saves /\ result[u].job \in Jobs
        BY <3>2 DEF Outcomes, SaveKept, Types, Results, Nothing, Error
      <4>2. result'[u].job.save < saves'
        BY <3>2, <4>1, <1>1, <1>6 DEF Types, Jobs
      <4>3. result'[u].job.save <= saves' /\ result'[u].job.save # saves'
        BY <3>2, <4>1, <4>2, <1>1, <1>6 DEF Types, Jobs
      <4> QED
        BY <3>2, <4>3, <1>6 DEF SaveKept, LoadKept
    <3>3. CASE u # t /\ result[u].by # "save"
      BY <3>3, <1>6 DEF Outcomes, SaveKept, LoadKept
    <3> QED
      BY <3>1, <3>2, <3>3
  <2> QED
    BY <2>1 DEF Outcomes
<1>11. ExtrasBelong'
  BY DEF ExtrasBelong, Exists, BeginSave
<1> QED
  BY <1>7, <1>8, <1>9, <1>10, <1>11

(* What a call that goes on leaves as it was. *)
LEMMA OutcomesStay ==
  ASSUME IInv, NEW t \in Threads, Busy(t),
         pc[t] \in SaveSteps \/ path' = path,
         \A u \in Threads : pc'[u] \in SaveSteps => pc[u] \in SaveSteps,
         \A u \in Threads : u # t => result'[u] = result[u],
         UNCHANGED saves
  PROVE  \A u \in Threads : u # t => (SaveKept(u) /\ LoadKept(u))'
<1> SUFFICES ASSUME NEW u \in Threads, u # t PROVE (SaveKept(u) /\ LoadKept(u))'
  OBVIOUS
<1>1. SaveKept(u) /\ LoadKept(u)
  BY DEF IInv, Outcomes
<1>2. LoadKept(u)'
  BY <1>1 DEF LoadKept
<1>3. CASE path' = path
  BY <1>1, <1>2, <1>3 DEF SaveKept
<1>4. CASE pc[t] \in SaveSteps
  BY <1>1, <1>2, <1>4 DEF SaveKept
<1> QED
  BY <1>2, <1>3, <1>4

(* A step inside a call is known good by where it leaves its own thread,    *)
(* the files and the thread's locals.                                       *)
LEMMA Continues ==
  ASSUME OneProcess, IInv, NEW t \in Threads, Busy(t),
         NEW s \in BusySteps, Goto(t, s), s \in SaveSteps <=> pc[t] \in SaveSteps,
         UNCHANGED <<pool, result, saves>>,
         path' \in Files \cup {NoFile},
         tmp' \in Files \cup {NoFile},
         job' \in [Threads -> Jobs \cup {NoJob}],
         read' \in [Threads -> Files \cup {NoFile}],
         arm' \in [Threads -> {0, 4, 8}],
         path' = path \/ (pc[t] \in SaveSteps /\ path' \in Files),
         Place(t)', ExtrasBelong'
  PROVE  IInv'
<1> USE DEF IInv
<1>1. /\ pc' \in [Threads -> Steps]
      /\ Held'
      /\ pc'[t] = s
      /\ \A u \in Threads : u # t => pc'[u] = pc[u]
  BY GoesOn
<1>2. Types'
  BY <1>1 DEF Types
<1>3. ASSUME NEW u \in Threads PROVE Place(u)'
  <2>1. CASE u # t
    <3>1. pc'[u] \in {"idle", "identified"}
      BY <2>1, <1>1, Bystanders
    <3>2. Loading(u)'
      BY <2>1, <3>1, <1>1 DEF Places, Place, Loading
    <3> QED
      BY <3>1, <3>2, OutsidePlacesNext
  <2> QED
    BY <2>1
<1>4. ASSUME NEW u \in Threads PROVE (SaveKept(u) /\ LoadKept(u))'
  <2>1. CASE u # t
    BY <2>1, <1>1, OutcomesStay
  <2>2. CASE u = t
    <3>1. SaveKept(t) /\ LoadKept(t)
      BY DEF Outcomes
    <3>2. LoadKept(t)'
      BY <3>1 DEF LoadKept
    <3>3. CASE pc[t] \in SaveSteps
      BY <2>2, <3>1, <3>2, <3>3 DEF SaveKept
    <3>4. CASE pc[t] \notin SaveSteps
      BY <2>2, <3>1, <3>2, <3>4, <1>1 DEF SaveKept
    <3> QED
      BY <2>2, <3>2, <3>3, <3>4
  <2> QED
    BY <2>1, <2>2
<1> QED
  BY <1>1, <1>2, <1>3, <1>4 DEF Places, Outcomes

(* The end of a call is known good by its outcome and the files.           *)
LEMMA Ends ==
  ASSUME OneProcess, IInv, NEW t \in Threads, Busy(t),
         NEW outcome \in Results, Return(t, outcome),
         UNCHANGED saves,
         path' \in Files \cup {NoFile},
         tmp' \in Files \cup {NoFile},
         path' = path \/ (pc[t] \in SaveSteps /\ path' \in Files),
         outcome.by = "save" => outcome.job.save <= saves /\ path' = Stored(outcome.job),
         outcome.by = "load" => HasWidth(outcome.file, outcome.arm),
         ExtrasBelong'
  PROVE  IInv'
<1> USE DEF IInv
<1>1. /\ pool' \in [Processes -> Threads \cup {Nobody}]
      /\ pc' \in [Threads -> Steps]
      /\ job' \in [Threads -> Jobs \cup {NoJob}]
      /\ read' \in [Threads -> Files \cup {NoFile}]
      /\ arm' \in [Threads -> {0, 4, 8}]
      /\ result' \in [Threads -> Results]
      /\ Held'
  BY Returns
<1>2. /\ \A u \in Threads : pc'[u] \in {"idle", "identified"}
      /\ \A u \in Threads : pc'[u] = "identified" => pc[u] = "identified"
      /\ result'[t] = outcome
      /\ \A u \in Threads : u # t => result'[u] = result[u]
  BY Returns
<1>3. Types'
  BY <1>1 DEF Types
<1>4. ASSUME NEW u \in Threads PROVE Place(u)'
  <2>1. Loading(u)'
    BY <1>2 DEF Places, Place, Loading
  <2> QED
    BY <1>2, <2>1, OutsidePlacesNext
<1>5. ASSUME NEW u \in Threads PROVE (SaveKept(u) /\ LoadKept(u))'
  <2>1. CASE u # t
    <3>1. \A v \in Threads : pc'[v] \notin SaveSteps
      BY <1>2 DEF SaveSteps
    <3> QED
      BY <2>1, <3>1, <1>2, OutcomesStay
  <2>2. CASE u = t
    <3>1. \A v \in Threads : pc'[v] \notin SaveSteps
      BY <1>2 DEF SaveSteps
    <3> QED
      BY <2>2, <3>1, <1>2 DEF SaveKept, LoadKept
  <2> QED
    BY <2>1, <2>2
<1> QED
  BY <1>1, <1>3, <1>4, <1>5 DEF Places, Outcomes

LEMMA FailureEnds ==
  ASSUME OneProcess, IInv, NEW t \in Threads, Busy(t), Return(t, Error),
         UNCHANGED <<path, saves>>, tmp' \in Files \cup {NoFile}
  PROVE  IInv'
<1>1. Error \in Results /\ Error.by = "error"
  BY DEF Results, Error
<1>2. path' \in Files \cup {NoFile} /\ ExtrasBelong'
  BY DEF IInv, Types, ExtrasBelong, Exists
<1> QED
  BY <1>1, <1>2, Ends

----------------------------------------------------------------------------
(* The steps of a save *)

(* The job of a save, and the file it makes of it. *)
LEMMA JobOf ==
  ASSUME IInv, NEW t \in Threads, pc[t] \in SaveSteps
  PROVE  /\ Busy(t)
         /\ job[t] \in Jobs
         /\ job[t].save = saves /\ saves \in Nat \ {0} /\ job[t].kind \in Kinds
         /\ Saved(t) \in Results /\ Saved(t).by = "save" /\ Saved(t).job = job[t]
<1>1. Busy(t) /\ job[t] \in Jobs /\ job[t].save = saves
  BY DEF IInv, Places, Place, Saving, Busy, BusySteps
<1>2. saves \in Nat \ {0} /\ job[t].kind \in Kinds
  BY <1>1 DEF Jobs
<1>3. Saved(t) \in Results /\ Saved(t).by = "save" /\ Saved(t).job = job[t]
  BY <1>1 DEF Saved, Results
<1> QED
  BY <1>1, <1>2, <1>3

LEMMA StageInv ==
  ASSUME OneProcess, IInv, NEW t \in Threads, Stage(t)
  PROVE  IInv'
<1>1. pc[t] = "stage" /\ pc[t] \in SaveSteps /\ "publish" \in SaveSteps \cap BusySteps
  BY DEF Stage, SaveSteps, BusySteps
<1>2. /\ Busy(t) /\ job[t] \in Jobs /\ job[t].save = saves
      /\ saves \in Nat \ {0} /\ job[t].kind \in Kinds
  BY <1>1, JobOf
<1>3. tmp' = File(saves, job[t].kind, 0) /\ tmp' \in Files
  BY <1>2, FileIsAFile DEF Stage
<1>4. pc'[t] = "publish"
  BY DEF Stage, Goto, IInv, Types
<1>5. Place(t)'
  BY <1>2, <1>3, <1>4 DEF Stage, Place, Saving, Staged, Merging, MergeRereads, MergeStaged, Loading, Chosen
<1>6. ExtrasBelong'
  BY DEF IInv, ExtrasBelong, Exists, Stage
<1>7. /\ path' \in Files \cup {NoFile}
      /\ job' \in [Threads -> Jobs \cup {NoJob}]
      /\ read' \in [Threads -> Files \cup {NoFile}]
      /\ arm' \in [Threads -> {0, 4, 8}]
  BY DEF IInv, Types, Stage
<1> QED
  BY <1>1, <1>2, <1>3, <1>5, <1>6, <1>7, Continues DEF Stage

LEMMA PublishInv ==
  ASSUME OneProcess, IInv, NEW t \in Threads, Publish(t)
  PROVE  IInv'
<1>1. pc[t] = "publish" /\ pc[t] \in SaveSteps /\ "merge" \in SaveSteps \cap BusySteps
  BY DEF Publish, SaveSteps, BusySteps
<1>2. /\ Busy(t) /\ job[t] \in Jobs /\ job[t].save = saves
      /\ saves \in Nat \ {0} /\ job[t].kind \in Kinds
  BY <1>1, JobOf
<1>3. path' = File(saves, job[t].kind, 0)
  BY <1>1 DEF IInv, Places, Place, Staged, Publish, Rename
<1>4. /\ path' \in Files /\ path'.save = saves /\ path'.py = 0
      /\ tmp' \in Files \cup {NoFile}
  BY <1>2, <1>3, FileIsAFile DEF Publish, Rename
<1>5. ExtrasBelong'
  BY <1>4 DEF ExtrasBelong
<1>6. CASE job[t].extra
  <2>1. Goto(t, "merge") /\ UNCHANGED <<pool, result, job, read, arm, saves>>
    BY <1>6 DEF Publish
  <2>2. pc'[t] = "merge"
    BY <2>1 DEF Goto, IInv, Types
  <2>3. Place(t)'
    BY <2>1, <2>2, <1>2, <1>3, <1>6 DEF Place, Saving, Staged, Merging, MergeRereads, MergeStaged, Loading, Chosen
  <2>4. /\ job' \in [Threads -> Jobs \cup {NoJob}]
        /\ read' \in [Threads -> Files \cup {NoFile}]
        /\ arm' \in [Threads -> {0, 4, 8}]
    BY <2>1 DEF IInv, Types
  <2> QED
    BY <2>1, <2>3, <2>4, <1>1, <1>2, <1>4, <1>5, Continues
<1>7. CASE ~job[t].extra
  <2>1. Return(t, Saved(t)) /\ UNCHANGED saves
    BY <1>7 DEF Publish
  <2>2. path' = Stored(job[t])
    BY <1>2, <1>3, <1>7 DEF Stored
  <2>3. /\ Saved(t) \in Results /\ Saved(t).by = "save" /\ Saved(t).job = job[t]
        /\ job[t].save <= saves
    BY <1>1, <1>2, JobOf
  <2> QED
    BY <2>1, <2>2, <2>3, <1>1, <1>2, <1>4, <1>5, Ends
<1> QED
  BY <1>6, <1>7

LEMMA MergeReadInv ==
  ASSUME OneProcess, IInv, NEW t \in Threads, MergeRead(t)
  PROVE  IInv'
<1>1. pc[t] = "merge" /\ pc[t] \in SaveSteps /\ "merge_stage" \in SaveSteps \cap BusySteps
  BY DEF MergeRead, SaveSteps, BusySteps
<1>2. Busy(t) /\ job[t] \in Jobs /\ job[t].save = saves
  BY <1>1, JobOf
<1>3. pc'[t] = "merge_stage" /\ read'[t] = path
  BY DEF MergeRead, Goto, IInv, Types
<1>4. job[t].extra /\ path = File(saves, job[t].kind, 0)
  BY <1>1 DEF IInv, Places, Place, Merging
<1>5. Place(t)'
  BY <1>2, <1>3, <1>4 DEF MergeRead, Place, Saving, Staged, Merging, MergeRereads, MergeStaged, Loading, Chosen
<1>6. ExtrasBelong'
  BY DEF IInv, ExtrasBelong, Exists, MergeRead
<1>7. /\ path' \in Files \cup {NoFile}
      /\ tmp' \in Files \cup {NoFile}
      /\ job' \in [Threads -> Jobs \cup {NoJob}]
      /\ read' \in [Threads -> Files \cup {NoFile}]
      /\ arm' \in [Threads -> {0, 4, 8}]
  BY DEF IInv, Types, MergeRead
<1> QED
  BY <1>1, <1>2, <1>5, <1>6, <1>7, Continues DEF MergeRead

LEMMA MergeStageInv ==
  ASSUME OneProcess, IInv, NEW t \in Threads, MergeStage(t)
  PROVE  IInv'
<1>1. /\ pc[t] = "merge_stage" /\ pc[t] \in SaveSteps
      /\ "merge_publish" \in SaveSteps \cap BusySteps
  BY DEF MergeStage, SaveSteps, BusySteps
<1>2. /\ Busy(t) /\ job[t] \in Jobs /\ job[t].save = saves
      /\ saves \in Nat \ {0} /\ job[t].kind \in Kinds
  BY <1>1, JobOf
<1>3. job[t].extra /\ path = File(saves, job[t].kind, 0) /\ read[t] = path
  BY <1>1 DEF IInv, Places, Place, Merging, MergeRereads
<1>4. tmp' = File(saves, job[t].kind, saves) /\ tmp' \in Files
  BY <1>2, <1>3, FileIsAFile DEF MergeStage, File
<1>5. pc'[t] = "merge_publish"
  BY DEF MergeStage, Goto, IInv, Types
<1>6. Place(t)'
  BY <1>2, <1>3, <1>4, <1>5 DEF MergeStage, Place, Saving, Staged, Merging, MergeRereads, MergeStaged, Loading, Chosen
<1>7. ExtrasBelong'
  BY DEF IInv, ExtrasBelong, Exists, MergeStage
<1>8. /\ path' \in Files \cup {NoFile}
      /\ job' \in [Threads -> Jobs \cup {NoJob}]
      /\ read' \in [Threads -> Files \cup {NoFile}]
      /\ arm' \in [Threads -> {0, 4, 8}]
  BY DEF IInv, Types, MergeStage
<1> QED
  BY <1>1, <1>2, <1>4, <1>6, <1>7, <1>8, Continues DEF MergeStage

LEMMA MergePublishInv ==
  ASSUME OneProcess, IInv, NEW t \in Threads, MergePublish(t)
  PROVE  IInv'
<1>1. pc[t] = "merge_publish" /\ pc[t] \in SaveSteps
  BY DEF MergePublish, SaveSteps
<1>2. /\ Busy(t) /\ job[t] \in Jobs /\ job[t].save = saves
      /\ saves \in Nat \ {0} /\ job[t].kind \in Kinds
      /\ Saved(t) \in Results /\ Saved(t).by = "save" /\ Saved(t).job = job[t]
  BY <1>1, JobOf
<1>3. job[t].extra /\ path' = File(saves, job[t].kind, saves)
  BY <1>1 DEF IInv, Places, Place, MergeStaged, MergePublish, Rename
<1>4. /\ path' \in Files /\ path'.save = saves /\ path'.py = saves
      /\ tmp' \in Files \cup {NoFile}
  BY <1>2, <1>3, FileIsAFile DEF MergePublish, Rename
<1>5. ExtrasBelong'
  BY <1>4 DEF ExtrasBelong
<1>6. path' = Stored(job[t]) /\ job[t].save <= saves
  BY <1>2, <1>3 DEF Stored
<1> QED
  BY <1>1, <1>2, <1>4, <1>5, <1>6, Ends DEF MergePublish

LEMMA FailuresInv ==
  ASSUME OneProcess, IInv, NEW t \in Threads,
         WriteFails(t) \/ Cleanup(t) \/ ReadFails(t)
  PROVE  IInv'
<1>1. Busy(t)
  BY DEF WriteFails, Cleanup, ReadFails, Busy, BusySteps, SaveSteps, LoadSteps
<1>2. tmp' \in Files \cup {NoFile}
  BY DEF IInv, Types, WriteFails, Cleanup, ReadFails
<1> QED
  BY <1>1, <1>2, FailureEnds DEF WriteFails, Cleanup, ReadFails

LEMMA RenameFailsInv ==
  ASSUME OneProcess, IInv, NEW t \in Threads, RenameFails(t)
  PROVE  IInv'
<1>1. pc[t] \in SaveSteps /\ "cleanup" \in SaveSteps \cap BusySteps
  BY DEF RenameFails, SaveSteps, BusySteps
<1>2. Busy(t) /\ job[t] \in Jobs /\ job[t].save = saves
  BY <1>1, JobOf
<1>3. pc'[t] = "cleanup"
  BY DEF RenameFails, Goto, IInv, Types
<1>4. Place(t)'
  BY <1>2, <1>3 DEF RenameFails, Place, Saving, Staged, Merging, MergeRereads, MergeStaged, Loading, Chosen
<1>5. ExtrasBelong'
  BY DEF IInv, ExtrasBelong, Exists, RenameFails
<1>6. /\ path' \in Files \cup {NoFile}
      /\ tmp' \in Files \cup {NoFile}
      /\ job' \in [Threads -> Jobs \cup {NoJob}]
      /\ read' \in [Threads -> Files \cup {NoFile}]
      /\ arm' \in [Threads -> {0, 4, 8}]
  BY DEF IInv, Types, RenameFails
<1> QED
  BY <1>1, <1>2, <1>4, <1>5, <1>6, Continues DEF RenameFails

----------------------------------------------------------------------------
(* The steps of a load *)

LEMMA ReadMetadataInv ==
  ASSUME IInv, NEW t \in Threads, ReadMetadata(t)
  PROVE  IInv'
<1> USE DEF IInv
<1>1. /\ pc[t] = "idle"
      /\ pc' \in [Threads -> Steps]
      /\ pc'[t] = "identified"
      /\ \A u \in Threads : u # t => pc'[u] = pc[u]
  BY DEF Types, ReadMetadata, Goto, Steps
<1>2. path \in Files
  BY FilesExist DEF Types, ReadMetadata
<1>3. Types'
  BY <1>1, <1>2 DEF Types, ReadMetadata
<1>4. Held'
  <2>1. ASSUME NEW u \in Threads PROVE Busy(u)' <=> Busy(u)
    BY <1>1 DEF Busy, BusySteps, SaveSteps, LoadSteps
  <2> QED
    BY <2>1 DEF Held, ReadMetadata
<1>5. ASSUME NEW u \in Threads PROVE Place(u)'
  <2>1. CASE u = t
    BY <2>1, <1>1, <1>2, OutsidePlacesNext DEF ReadMetadata, Loading
  <2>2. CASE u # t
    BY <2>2, <1>1 DEF Places, ReadMetadata, Place, Saving, Staged, Merging, MergeRereads, MergeStaged, Loading, Chosen
  <2> QED
    BY <2>1, <2>2
<1>6. ASSUME NEW u \in Threads PROVE (SaveKept(u) /\ LoadKept(u))'
  <2>1. \A v \in Threads : pc'[v] \in SaveSteps <=> pc[v] \in SaveSteps
    BY <1>1 DEF SaveSteps
  <2> QED
    BY <2>1 DEF Outcomes, SaveKept, LoadKept, ReadMetadata
<1>7. ExtrasBelong'
  BY DEF ExtrasBelong, Exists, ReadMetadata
<1> QED
  BY <1>3, <1>4, <1>5, <1>6, <1>7 DEF Places, Outcomes

LEMMA BeginLoadInv ==
  ASSUME OneProcess, IInv, NEW t \in Threads, BeginLoad(t)
  PROVE  IInv'
<1> USE DEF IInv
<1>1. /\ pc[t] = "identified"
      /\ pc' \in [Threads -> Steps]
      /\ pc'[t] = "width"
      /\ \A u \in Threads : u # t => pc'[u] = pc[u]
  BY DEF Types, BeginLoad, Goto, Steps, LoadSteps
<1>2. \A u \in Threads : pc[u] \in {"idle", "identified"}
  BY NobodyInside DEF BeginLoad, Lock
<1>3. /\ result' \in [Threads -> Results]
      /\ result'[t] = Nothing
      /\ \A u \in Threads : u # t => result'[u] = result[u]
  BY DEF Types, BeginLoad, Results
<1>4. Types'
  <2>1. pool' \in [Processes -> Threads \cup {Nobody}]
    BY DEF Types, BeginLoad, Lock
  <2> QED
    BY <1>1, <1>3, <2>1 DEF Types, BeginLoad
<1>5. ASSUME NEW u \in Threads PROVE (pool[ProcessOf[u]] = u <=> Busy(u))'
  <2>1. pool'[ProcessOf[u]] = t
    BY ProcessAssumption DEF OneProcess, Types, BeginLoad, Lock
  <2>2. Busy(u)' <=> u = t
    BY <1>1, <1>2 DEF Busy, BusySteps, SaveSteps, LoadSteps
  <2> QED
    BY <2>1, <2>2
<1>6. ASSUME NEW u \in Threads PROVE Place(u)'
  <2>1. CASE u = t
    BY <2>1, <1>1 DEF Places, BeginLoad, SaveSteps, Place, Saving, Staged, Merging, MergeRereads, MergeStaged, Loading, Chosen
  <2>2. CASE u # t
    BY <2>2, <1>1, <1>2, OutsidePlacesNext DEF Places, Place, Loading, BeginLoad
  <2> QED
    BY <2>1, <2>2
<1>7. ASSUME NEW u \in Threads PROVE (SaveKept(u) /\ LoadKept(u))'
  <2>1. CASE u = t
    BY <2>1, <1>3 DEF SaveKept, LoadKept, Nothing
  <2>2. CASE u # t
    <3>1. \A v \in Threads : pc'[v] \in SaveSteps => pc[v] \in SaveSteps
      BY <1>1 DEF SaveSteps
    <3> QED
      BY <2>2, <3>1, <1>3 DEF Outcomes, SaveKept, LoadKept, BeginLoad
  <2> QED
    BY <2>1, <2>2
<1>8. ExtrasBelong'
  BY DEF ExtrasBelong, Exists, BeginLoad
<1> QED
  BY <1>4, <1>5, <1>6, <1>7, <1>8 DEF Held, Places, Outcomes

LEMMA ReadWidthInv ==
  ASSUME OneProcess, IInv, NEW t \in Threads, ReadWidth(t)
  PROVE  IInv'
<1>1. /\ pc[t] = "width" /\ pc[t] \notin SaveSteps
      /\ "tensors" \in BusySteps \ SaveSteps /\ Busy(t)
  BY DEF ReadWidth, Busy, BusySteps, SaveSteps, LoadSteps
<1>2. path \in Files
  BY <1>1 DEF IInv, Places, Place, Loading
<1>3. CASE Return(t, Error)
  <2>1. UNCHANGED <<path, saves>> /\ tmp' \in Files \cup {NoFile}
    BY DEF IInv, Types, ReadWidth
  <2> QED
    BY <1>1, <1>3, <2>1, FailureEnds
<1>4. ASSUME NEW width \in Wanted(t),
             arm' = [arm EXCEPT ![t] = width],
             Goto(t, "tensors"),
             UNCHANGED <<pool, result, job, read>>
      PROVE  IInv'
  <2>1. width \in {4, 8} /\ HasWidth(path, width)
    <3>1. path.kind \in Kinds
      BY <1>2 DEF Files
    <3> QED
      BY <3>1, KindAssumption DEF Wanted, HasWidth
  <2>2. arm' \in [Threads -> {0, 4, 8}] /\ arm'[t] = width
    BY <1>4, <2>1 DEF IInv, Types
  <2>3. pc'[t] = "tensors" /\ UNCHANGED <<path, tmp, saves>>
    BY <1>4 DEF Goto, IInv, Types, ReadWidth
  <2>4. Place(t)'
    BY <1>2, <2>1, <2>2, <2>3 DEF SaveSteps, Place, Saving, Staged, Merging, MergeRereads, MergeStaged, Loading, Chosen
  <2>5. ExtrasBelong'
    BY <2>3 DEF IInv, ExtrasBelong, Exists
  <2>6. /\ path' \in Files \cup {NoFile}
        /\ tmp' \in Files \cup {NoFile}
        /\ job' \in [Threads -> Jobs \cup {NoJob}]
        /\ read' \in [Threads -> Files \cup {NoFile}]
    BY <1>4, <2>3 DEF IInv, Types
  <2> QED
    BY <1>1, <1>4, <2>2, <2>3, <2>4, <2>5, <2>6, Continues
<1> QED
  BY <1>3, <1>4 DEF ReadWidth

LEMMA ReadTensorsInv ==
  ASSUME OneProcess, IInv, NEW t \in Threads, ReadTensors(t)
  PROVE  IInv'
<1>1. pc[t] = "tensors" /\ Busy(t)
  BY DEF ReadTensors, Busy, BusySteps, SaveSteps, LoadSteps
<1>2. path \in Files /\ HasWidth(path, arm[t])
  BY <1>1 DEF IInv, Places, Place, Loading, Chosen
<1>3. UNCHANGED <<path, saves>> /\ tmp' \in Files \cup {NoFile} /\ path' \in Files
  BY <1>2 DEF IInv, Types, ReadTensors
<1>4. CASE Return(t, Error)
  BY <1>1, <1>3, <1>4, FailureEnds
<1>5. CASE Return(t, [by |-> "load", file |-> path, arm |-> arm[t]])
  <2> DEFINE loaded == [by |-> "load", file |-> path, arm |-> arm[t]]
  <2>1. /\ loaded \in Results /\ loaded.by = "load"
        /\ HasWidth(loaded.file, loaded.arm)
    BY <1>2 DEF Results, IInv, Types
  <2>2. ExtrasBelong'
    BY <1>3 DEF IInv, ExtrasBelong, Exists
  <2> HIDE DEF loaded
  <2>3. Return(t, loaded)
    BY <1>5 DEF loaded
  <2>4. loaded.by # "save"
    BY <2>1
  <2> QED
    BY <1>1, <1>3, <2>1, <2>2, <2>3, <2>4, Ends
<1> QED
  BY <1>4, <1>5 DEF ReadTensors

----------------------------------------------------------------------------
(* A crash of the process takes all threads out of their calls. *)
LEMMA CrashInv ==
  ASSUME IInv, NEW p \in Processes, Crash(p)
  PROVE  IInv'
<1> USE DEF IInv
<1>1. /\ pc' \in [Threads -> Steps]
      /\ \A u \in Threads : pc'[u] = IF ProcessOf[u] = p THEN "idle" ELSE pc[u]
  BY DEF Types, Crash, Steps
<1>2. /\ result' \in [Threads -> Results]
      /\ \A u \in Threads : result'[u] = IF ProcessOf[u] = p THEN Nothing ELSE result[u]
  BY DEF Types, Crash, Results
<1>3. /\ job' \in [Threads -> Jobs \cup {NoJob}]
      /\ \A u \in Threads : ProcessOf[u] # p => job'[u] = job[u]
  BY DEF Types, Crash
<1>4. /\ read' \in [Threads -> Files \cup {NoFile}]
      /\ \A u \in Threads : ProcessOf[u] # p => read'[u] = read[u]
  BY DEF Types, Crash
<1>5. /\ arm' \in [Threads -> {0, 4, 8}]
      /\ \A u \in Threads : ProcessOf[u] # p => arm'[u] = arm[u]
  BY DEF Types, Crash
<1>6. /\ pool' \in [Processes -> Threads \cup {Nobody}]
      /\ \A q \in Processes : pool'[q] = IF q = p THEN Nobody ELSE pool[q]
  BY DEF Types, Crash
<1>7. Types'
  BY <1>1, <1>2, <1>3, <1>4, <1>5, <1>6 DEF Types, Crash
<1>8. ASSUME NEW u \in Threads PROVE (pool[ProcessOf[u]] = u <=> Busy(u))'
  <2>1. CASE ProcessOf[u] = p
    BY <2>1, <1>1, <1>6, NobodyAssumption DEF Busy, BusySteps, SaveSteps, LoadSteps
  <2>2. CASE ProcessOf[u] # p
    BY <2>2, <1>1, <1>6, ProcessAssumption DEF Held, Busy
  <2> QED
    BY <2>1, <2>2
<1>9. ASSUME NEW u \in Threads PROVE Place(u)'
  <2>1. CASE ProcessOf[u] = p
    BY <2>1, <1>1 DEF SaveSteps, Place, Saving, Staged, Merging, MergeRereads, MergeStaged, Loading, Chosen
  <2>2. CASE ProcessOf[u] # p
    BY <2>2, <1>1, <1>3, <1>4, <1>5 DEF Places, Crash, Place, Saving, Staged, Merging, MergeRereads, MergeStaged, Loading, Chosen
  <2> QED
    BY <2>1, <2>2
<1>10. ASSUME NEW u \in Threads PROVE (SaveKept(u) /\ LoadKept(u))'
  <2>1. CASE ProcessOf[u] = p
    BY <2>1, <1>2 DEF SaveKept, LoadKept, Nothing
  <2>2. CASE ProcessOf[u] # p
    <3>1. \A v \in Threads : pc'[v] \in SaveSteps => pc[v] \in SaveSteps
      BY <1>1 DEF SaveSteps
    <3> QED
      BY <2>2, <3>1, <1>2 DEF Outcomes, SaveKept, LoadKept, Crash
  <2> QED
    BY <2>1, <2>2
<1>11. ExtrasBelong'
  BY DEF ExtrasBelong, Exists, Crash
<1> QED
  BY <1>7, <1>8, <1>9, <1>10, <1>11 DEF Held, Places, Outcomes

----------------------------------------------------------------------------
LEMMA InitInv == Init => IInv
<1> SUFFICES ASSUME Init PROVE IInv
  OBVIOUS
<1>1. Types
  BY DEF Init, Types, Steps, Results
<1>2. Held
  BY ProcessAssumption, NobodyAssumption DEF Init, Held, Busy, BusySteps, SaveSteps, LoadSteps
<1>3. Places
  BY DEF Init, Places, SaveSteps, Place, Saving, Staged, Merging, MergeRereads, MergeStaged, Loading, Chosen
<1>4. Outcomes
  BY DEF Init, Outcomes, SaveKept, LoadKept, Nothing
<1>5. ExtrasBelong
  BY DEF Init, ExtrasBelong, Exists
<1> QED
  BY <1>1, <1>2, <1>3, <1>4, <1>5 DEF IInv

LEMMA StutterInv ==
  ASSUME IInv, UNCHANGED vars
  PROVE  IInv'
<1>1. Types' /\ Held'
  BY DEF vars, IInv, Types, Held, Busy
<1>2. Places'
  BY DEF vars, IInv, Places, Place, Saving, Staged, Merging, MergeRereads, MergeStaged, Loading, Chosen
<1>3. Outcomes' /\ ExtrasBelong'
  BY DEF vars, IInv, Outcomes, SaveKept, LoadKept, ExtrasBelong, Exists
<1> QED
  BY <1>1, <1>2, <1>3 DEF IInv

LEMMA NextInv ==
  ASSUME OneProcess, IInv, [Next]_vars
  PROVE  IInv'
<1>1. ASSUME NEW t \in Threads, SaveStep(t) PROVE IInv'
  BY <1>1, BeginSaveInv, StageInv, PublishInv, MergeReadInv, MergeStageInv, MergePublishInv,
     FailuresInv, RenameFailsInv DEF SaveStep
<1>2. ASSUME NEW t \in Threads, LoadStep(t) PROVE IInv'
  BY <1>2, ReadMetadataInv, BeginLoadInv, ReadWidthInv, ReadTensorsInv, FailuresInv DEF LoadStep
<1>3. ASSUME NEW p \in Processes, Crash(p) PROVE IInv'
  BY <1>3, CrashInv
<1>4. CASE UNCHANGED vars
  BY <1>4, StutterInv
<1> QED
  BY <1>1, <1>2, <1>3, <1>4 DEF Next

(* In one process nobody's extra entries end up in another save's model. *)
THEOREM ExtrasCorrect == OneProcess => (Spec => []ExtrasBelong)
<1> SUFFICES ASSUME OneProcess PROVE Spec => []ExtrasBelong
  OBVIOUS
<1>1. IInv => ExtrasBelong
  BY DEF IInv
<1>2. IInv /\ [Next]_vars => IInv'
  BY NextInv
<1> QED
  BY <1>1, <1>2, InitInv, PTL DEF Spec

(* In one process a save that was acknowledged is what the file holds until *)
(* the next save begins, whatever failed or crashed before or since.        *)
THEOREM SaveCorrect == OneProcess => (Spec => []SavedIsStored)
<1> SUFFICES ASSUME OneProcess PROVE Spec => []SavedIsStored
  OBVIOUS
<1>1. IInv => SavedIsStored
  BY DEF IInv, Outcomes, SaveKept, SavedIsStored
<1>2. IInv /\ [Next]_vars => IInv'
  BY NextInv
<1> QED
  BY <1>1, <1>2, InitInv, PTL DEF Spec

(* In one process the two reads of a load see one file, so the arm is the   *)
(* width of one of its float tensors, whichever of them the hash map gives  *)
(* first.                                                                   *)
THEOREM LoadCorrect == OneProcess => (Spec => []LoadsAtTheFilesWidth)
<1> SUFFICES ASSUME OneProcess PROVE Spec => []LoadsAtTheFilesWidth
  OBVIOUS
<1>1. IInv => LoadsAtTheFilesWidth
  BY DEF IInv, Outcomes, LoadKept, LoadsAtTheFilesWidth
<1>2. IInv /\ [Next]_vars => IInv'
  BY NextInv
<1> QED
  BY <1>1, <1>2, InitInv, PTL DEF Spec
=============================================================================
