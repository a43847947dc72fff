------------------------------ MODULE Persist -------------------------------
(***************************************************************************)
(* Saving and loading one model file: mlrs-algos/src/persist.rs under the  *)
(* PyO3 layer of mlrs-py/src/persist.rs.  A save stages the model in a     *)
(* sibling of the path and renames it into place; with extra metadata of   *)
(* the Python shim it then reads the file back and does both again.  A     *)
(* load reads the file twice, for a width of its floats and for its        *)
(* tensors.  Both hold the pool's mutex of their process.  Any call to the *)
(* file system may fail, and a process may die between two of them.        *)
(*                                                                         *)
(* The container writer fills a private file and renames it too, so the    *)
(* sibling is whole whenever it exists: a file is a model, and the save    *)
(* whose metadata it carries.                                              *)
(***************************************************************************)
EXTENDS Naturals, FiniteSets

CONSTANTS
  Threads, Processes,
  Nobody,               \* no thread
  ProcessOf,            \* the process of each thread
  Kinds,                \* the models saved: a class, the arm (the width of
                        \* the estimator's own floats), and the widths of
                        \* the float tensors it writes
  Capable,              \* the processes whose backend computes in f64
  MaxSaves, MaxCrashes  \* bounds of the exploration

ASSUME ProcessAssumption == ProcessOf \in [Threads -> Processes]
ASSUME NobodyAssumption == Nobody \notin Threads
ASSUME KindAssumption == \A k \in Kinds : k.arm \in {4, 8} /\ k.widths \subseteq {4, 8}
ASSUME BoundAssumption == MaxSaves \in Nat /\ MaxCrashes \in Nat

VARIABLES
  path, tmp,            \* the model file and its sibling `<path>.mlrs-tmp`
  pool,                 \* the thread that holds the mutex of each process
  pc,
  job,                  \* what each thread saves
  read,                 \* the file a thread has last read
  arm,                  \* the width a load has chosen
  result,               \* how a thread's last call ended
  saves, crashes

vars == <<path, tmp, pool, pc, job, read, arm, result, saves, crashes>>

NoFile == [save |-> 0]
Nothing == [by |-> "nothing"]
Error == [by |-> "error"]
NoJob == [save |-> 0]

SaveSteps == {"stage", "publish", "cleanup", "merge", "merge_stage", "merge_publish"}
LoadSteps == {"width", "tensors"}
Steps == {"idle", "identified"} \cup SaveSteps \cup LoadSteps

(* A file: the save whose tensors it holds, and the save whose extra       *)
(* entries its metadata has, or 0.                                         *)
File(save, kind, extra) == [save |-> save, kind |-> kind, py |-> extra]
Exists(file) == file # NoFile

Init ==
  /\ path = NoFile
  /\ tmp = NoFile
  /\ pool = [p \in Processes |-> Nobody]
  /\ pc = [t \in Threads |-> "idle"]
  /\ job = [t \in Threads |-> NoJob]
  /\ read = [t \in Threads |-> NoFile]
  /\ arm = [t \in Threads |-> 0]
  /\ result = [t \in Threads |-> Nothing]
  /\ saves = 0
  /\ crashes = 0

(* Mutant of Lock: the call goes ahead whoever holds the mutex. *)
LockNothing(t) == pool' = pool

Lock(t) ==
  /\ pool[ProcessOf[t]] = Nobody
  /\ pool' = [pool EXCEPT ![ProcessOf[t]] = t]

Goto(t, step) == pc' = [pc EXCEPT ![t] = step]

Return(t, outcome) ==
  /\ Goto(t, "idle")
  /\ pool' = [pool EXCEPT ![ProcessOf[t]] = Nobody]
  /\ result' = [result EXCEPT ![t] = outcome]
  /\ job' = [job EXCEPT ![t] = NoJob]
  /\ read' = [read EXCEPT ![t] = NoFile]
  /\ arm' = [arm EXCEPT ![t] = 0]

Saved(t) == [by |-> "save", job |-> job[t]]

----------------------------------------------------------------------------
(* save_impl *)

BeginSave(t, kind, extra) ==
  /\ pc[t] = "idle"
  /\ saves < MaxSaves
  /\ Lock(t)
  /\ saves' = saves + 1
  /\ job' = [job EXCEPT ![t] = [save |-> saves + 1, kind |-> kind, extra |-> extra]]
  /\ Goto(t, "stage")
  /\ result' = [result EXCEPT ![t] = Nothing]
  /\ UNCHANGED <<path, tmp, read, arm, crashes>>

(* ModelWriter::write puts the model in the sibling. *)
Stage(t) ==
  /\ pc[t] = "stage"
  /\ tmp' = File(job[t].save, job[t].kind, 0)
  /\ Goto(t, "publish")
  /\ UNCHANGED <<path, pool, job, read, arm, result, saves, crashes>>

(* The rename takes whatever the sibling is by now. *)
Rename ==
  /\ Exists(tmp)
  /\ path' = tmp
  /\ tmp' = NoFile

Publish(t) ==
  /\ pc[t] = "publish"
  /\ Rename
  /\ IF job[t].extra
     THEN Goto(t, "merge") /\ UNCHANGED <<pool, result, job, read, arm>>
     ELSE Return(t, Saved(t))
  /\ UNCHANGED <<saves, crashes>>

(* merge_metadata reads the file back. *)
MergeRead(t) ==
  /\ pc[t] = "merge"
  /\ Exists(path)
  /\ read' = [read EXCEPT ![t] = path]
  /\ Goto(t, "merge_stage")
  /\ UNCHANGED <<path, tmp, pool, job, arm, result, saves, crashes>>

MergeStage(t) ==
  /\ pc[t] = "merge_stage"
  /\ tmp' = [read[t] EXCEPT !.py = job[t].save]
  /\ Goto(t, "merge_publish")
  /\ UNCHANGED <<path, pool, job, read, arm, result, saves, crashes>>

MergePublish(t) ==
  /\ pc[t] = "merge_publish"
  /\ Rename
  /\ Return(t, Saved(t))
  /\ UNCHANGED <<saves, crashes>>

(* Mutant of WriteFails: an error of the merge is swallowed. *)
WriteFailsUnseen(t) ==
  /\ pc[t] \in {"stage", "merge", "merge_stage"}
  /\ Return(t, IF pc[t] = "stage" THEN Error ELSE Saved(t))
  /\ UNCHANGED <<path, tmp, saves, crashes>>

(* The disk refuses a read or a write; the private file is removed.        *)
WriteFails(t) ==
  /\ pc[t] \in {"stage", "merge", "merge_stage"}
  /\ Return(t, Error)
  /\ UNCHANGED <<path, tmp, saves, crashes>>

(* The rename fails, as it must without a sibling. *)
RenameFails(t) ==
  /\ pc[t] \in {"publish", "merge_publish"}
  /\ Goto(t, "cleanup")
  /\ UNCHANGED <<path, tmp, pool, job, read, arm, result, saves, crashes>>

Cleanup(t) ==
  /\ pc[t] = "cleanup"
  /\ tmp' = NoFile
  /\ Return(t, Error)
  /\ UNCHANGED <<path, saves, crashes>>

----------------------------------------------------------------------------
(* Loading *)

(* mlrs.load asks read_metadata, without the mutex, which class to build.  *)
ReadMetadata(t) ==
  /\ pc[t] = "idle"
  /\ Exists(path)
  /\ read' = [read EXCEPT ![t] = path]
  /\ Goto(t, "identified")
  /\ UNCHANGED <<path, tmp, pool, job, arm, result, saves, crashes>>

(* Mutant of BeginLoad: the load does not take the mutex. *)
BeginLoadUnlocked(t) ==
  /\ pc[t] = "identified"
  /\ Goto(t, "width")
  /\ result' = [result EXCEPT ![t] = Nothing]
  /\ UNCHANGED <<path, tmp, pool, job, read, arm, saves, crashes>>

(* load_impl of that class. *)
BeginLoad(t) ==
  /\ pc[t] = "identified"
  /\ Lock(t)
  /\ Goto(t, "width")
  /\ result' = [result EXCEPT ![t] = Nothing]
  /\ UNCHANGED <<path, tmp, job, read, arm, saves, crashes>>

(* The widths a file may ask for.  A classifier in f32 writes its priors in *)
(* f64 beside its f32 tables, and the header gives the tensors out of a     *)
(* hash map: the first float met may have either width.  Without floats the *)
(* file takes the backend's own.                                            *)
Wanted(t) ==
  IF path.kind.widths # {} THEN path.kind.widths
  ELSE IF ProcessOf[t] \in Capable THEN {8} ELSE {4}

(* load_wants_f64 opens the file, and guard_f64 may refuse.                *)
ReadWidth(t) ==
  /\ pc[t] = "width"
  /\ \E width \in Wanted(t) :
       IF width = 8 /\ ProcessOf[t] \notin Capable
       THEN Return(t, Error)
       ELSE /\ arm' = [arm EXCEPT ![t] = width]
            /\ Goto(t, "tensors")
            /\ UNCHANGED <<pool, result, job, read>>
  /\ UNCHANGED <<path, tmp, saves, crashes>>

(* LoadModel::load opens it again, refuses another class and converts      *)
(* floats of another width.                                                *)
ReadTensors(t) ==
  /\ pc[t] = "tensors"
  /\ Return(t, IF path.kind.class = read[t].kind.class
               THEN [by |-> "load", file |-> path, arm |-> arm[t]]
               ELSE Error)
  /\ UNCHANGED <<path, tmp, saves, crashes>>

ReadFails(t) ==
  /\ pc[t] \in LoadSteps
  /\ Return(t, Error)
  /\ UNCHANGED <<path, tmp, saves, crashes>>

----------------------------------------------------------------------------
(* A process dies with its calls; the files stay. *)
Crash(p) ==
  /\ crashes < MaxCrashes
  /\ crashes' = crashes + 1
  /\ pool' = [pool EXCEPT ![p] = Nobody]
  /\ pc' = [t \in Threads |-> IF ProcessOf[t] = p THEN "idle" ELSE pc[t]]
  /\ result' = [t \in Threads |-> IF ProcessOf[t] = p THEN Nothing ELSE result[t]]
  /\ job' = [t \in Threads |-> IF ProcessOf[t] = p THEN NoJob ELSE job[t]]
  /\ read' = [t \in Threads |-> IF ProcessOf[t] = p THEN NoFile ELSE read[t]]
  /\ arm' = [t \in Threads |-> IF ProcessOf[t] = p THEN 0 ELSE arm[t]]
  /\ UNCHANGED <<path, tmp, saves>>

SaveStep(t) ==
  \/ \E kind \in Kinds, extra \in BOOLEAN : BeginSave(t, kind, extra)
  \/ Stage(t) \/ Publish(t)
  \/ MergeRead(t) \/ MergeStage(t) \/ MergePublish(t)
  \/ WriteFails(t) \/ RenameFails(t) \/ Cleanup(t)

LoadStep(t) ==
  ReadMetadata(t) \/ BeginLoad(t) \/ ReadWidth(t) \/ ReadTensors(t) \/ ReadFails(t)

Next ==
  \/ \E t \in Threads : SaveStep(t) \/ LoadStep(t)
  \/ \E p \in Processes : Crash(p)

Spec == Init /\ [][Next]_vars

----------------------------------------------------------------------------
OneProcess == \A t, u \in Threads : ProcessOf[t] = ProcessOf[u]

(* The extra entries in a file are those of the save its tensors come      *)
(* from: nobody merges his metadata into another's model.                  *)
ExtrasBelong == Exists(path) => path.py \in {0, path.save}

(* What a save leaves behind. *)
Stored(j) == File(j.save, j.kind, IF j.extra THEN j.save ELSE 0)

(* A save that has returned without an error is what the path holds, with  *)
(* its extra entries, until the next save begins.                          *)
SavedIsStored ==
  \A t \in Threads :
    result[t].by = "save" /\ result[t].job.save = saves =>
      path = Stored(result[t].job)

(* A file without floats does for any width. *)
HasWidth(file, width) == file.kind.widths = {} \/ width \in file.kind.widths

(* The two reads of a load see one file: its arm is the width of one of    *)
(* the float tensors of the very file its tensors come from.               *)
LoadsAtTheFilesWidth ==
  \A t \in Threads :
    result[t].by = "load" => HasWidth(result[t].file, result[t].arm)

(* mlrs-py/src/persist.rs:17: "an `F32` file loads into the f32 arm", for    *)
(* widening "would silently stop a Python round-trip from being bit-exact": *)
(* a model that writes floats of its own width is loaded at that width.     *)
LoadsIntoTheSavedArm ==
  \A t \in Threads :
    result[t].by = "load" /\ result[t].file.kind.arm \in result[t].file.kind.widths =>
      result[t].arm = result[t].file.kind.arm
=============================================================================
