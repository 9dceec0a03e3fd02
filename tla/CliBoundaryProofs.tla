------------------------- MODULE CliBoundaryProofs -------------------------
(***************************************************************************)
(* Proofs of the properties of CliBoundary, for any number of processes on *)
(* one database and any number of faults.                                  *)
(*                                                                         *)
(* The inductive invariant has three parts: what each process knows about  *)
(* itself (Control), what became of its output (OutputIsKnown), and what   *)
(* the database file holds (StoreIsKnown).  The last one speaks about all  *)
(* processes at once as long as none has unlinked the file, and afterwards *)
(* about a process that has the file for itself.                           *)
(***************************************************************************)
EXTENDS CliBoundary, TLAPS

Before == {"check", "evaluate", "stage"}
WithHandle == {"create", "finish", "save", "commit", "verify", "verifying"}
AtDatabase == {"open"} \cup WithHandle
AtOutput == {"promote", "replace", "print"}
Ends == {"cleanup", "done", "crashed"}

\* What is armed for the rollback at each stage.
ArmedAsReached(p) ==
  /\ started[p] \subseteq args[p]
  /\ pc[p] \in Before \cup {"snapshot"} => started[p] = {}
  /\ pc[p] = "snapshot" => "db" \in args[p]
  /\ pc[p] \in AtDatabase => started[p] = {"db"}
  /\ pc[p] = "promote" => started[p] = args[p] \ {"output"}
  /\ pc[p] = "replace" => started[p] = args[p] /\ "output" \in args[p]
  /\ pc[p] = "print" => started[p] = args[p]
  /\ pc[p] = "restore_unlink" => "db" \in started[p]
  /\ pc[p] \in {"restore_output", "restore_output_copy"} => "output" \in started[p]
  /\ pc[p] \in WithHandle => handle[p] \in File

\* How the command can still end.
ResultAsReached(p) ==
  /\ pc[p] \in Before \cup TryStages => result[p] = "none"
  /\ pc[p] \in RestoreStages => result[p] = "failed"
  /\ pc[p] = "cleanup" => result[p] \in {"success", "failed", "unrepaired"}
  /\ result[p] = "success" => pc[p] \in Ends /\ started[p] = args[p]
  /\ result[p] = "refused" => pc[p] = "done" /\ started[p] = {}

\* A rollback unlinks the database exactly when it was armed to.
UnlinkedAsArmed(p) ==
  /\ p \in restored => /\ "db" \in started[p]
                       /\ result[p] \in {"failed", "unrepaired"}
                       /\ pc[p] \in RestoreStages \cup Ends
                       /\ pc[p] # "restore_unlink"
  /\ pc[p] = "restore_copy" => p \in restored
  /\ result[p] = "failed" /\ "db" \in started[p] =>
       (pc[p] \in {"restore_output", "restore_output_copy", "cleanup", "done"}
          => p \in restored)

TemporariesAsReached(p) ==
  /\ pc[p] \in Before \cup {"done"} => p \notin staged \cup scratch
  /\ args[p] # {} =>
       (pc[p] \in {"snapshot"} \cup AtDatabase \cup AtOutput \cup RestoreStages
          => p \in scratch)
  /\ started[p] # {} => (pc[p] \in {"cleanup", "crashed"} => p \in scratch)

\* The rollback of the output is between its two steps, or ended there.
OutputIsUnlinked(p) ==
  /\ "output" \in started[p]
  /\ \/ pc[p] = "restore_output_copy"
     \/ pc[p] = "crashed" /\ p \in scratch
     \/ result[p] = "unrepaired"

Control ==
  \A p \in Procs : /\ ArmedAsReached(p) /\ ResultAsReached(p)
                   /\ UnlinkedAsArmed(p) /\ TemporariesAsReached(p)

OutputIsKnown ==
  \A p \in Procs :
    /\ found.output[p] # "new"
    /\ \/ output[p] \in {found.output[p], "new"}
       \/ output[p] = "absent" /\ OutputIsUnlinked(p)
    /\ output[p] = "new" => /\ "output" \in started[p]
                            /\ pc[p] \in {"print"} \cup RestoreStages \cup Ends
                            /\ pc[p] # "restore_output_copy"
    /\ output[p] = "new" /\ pc[p] \in {"cleanup", "done"}
         => result[p] \in {"success", "unrepaired"}
    /\ pc[p] = "print" \/ result[p] = "success"
         => ("output" \in args[p] => output[p] = "new")
    /\ "output" \in args[p] =>
         ("output" \in started[p] \/ pc[p] \in {"snapshot", "promote"} \cup AtDatabase
            => backup[p].output = found.output[p])

\* The command has committed, as far as it can tell.
Committed(p) ==
  \/ pc[p] \in {"verify", "verifying"} \cup AtOutput
  \/ result[p] = "success"
  \/ output[p] = "new"

StoreIsKnown ==
  /\ found.db \in {None, FoundContent}
  /\ (\A p \in Procs : "db" \notin started[p]) => AtPath = found.db
  /\ restored = {} =>
       /\ found.db # None => path # None /\ Earlier \in AtPath.saved
       /\ \A p \in Procs :
            "db" \in args[p] /\ Committed(p) => path # None /\ p \in AtPath.saved
  /\ \A p \in Procs : "db" \in started[p] /\ Alone(p) =>
       /\ backup[p].db = found.db
       /\ p \in restored => \/ pc[p] = "restore_copy" /\ path = None
                            \/ AtPath = found.db
                            \/ result[p] = "unrepaired"
                            \/ pc[p] = "crashed" /\ p \in scratch

IInv == TypeOK /\ Control /\ OutputIsKnown /\ StoreIsKnown

USE BoundaryAssumption
USE DEF Before, WithHandle, AtDatabase, AtOutput, Ends, TryStages, RestoreStages

(***************************************************************************)
(* Records and files                                                       *)
(***************************************************************************)

\* A file at the path is given a new content.
LEMMA Rewriting ==
  ASSUME TypeOK, path \in File, NEW v \in Content,
         stored' = [stored EXCEPT ![path] = v], path' = path
  PROVE  /\ stored' \in [File -> Content]
         /\ path # None /\ AtPath = stored[path] /\ stored[path] \in Content
         /\ path' # None /\ AtPath' = v
  BY DEF TypeOK, AtPath

\* The files a command may create.
LEMMA FilesAreFiles ==
  ASSUME NEW p \in Procs
  PROVE  OpenedBy(p) \in File /\ RestoredBy(p) \in File
  BY DEF OpenedBy, RestoredBy, File

(***************************************************************************)
(* Each step keeps the invariant                                           *)
(***************************************************************************)

\* An exception anywhere in the try block.
LEMMA FailKeeps ==
  ASSUME IInv, NEW p \in Procs, pc[p] \in TryStages, Fail(p), faults' \in 0..MaxFaults
  PROVE  IInv'
<1>1. UNCHANGED <<path, stored, output, args, handle, seen, backup, started, staged, scratch,
                  found, restored>>
  BY DEF Fail, connection, rollback, temporaries, given
<1>2. TypeOK'
  <2>1. lock' \in [File -> Procs \cup {None}]
    BY DEF IInv, TypeOK, Fail
  <2>2. /\ pc' \in [Procs -> Stages]
        /\ result' \in [Procs -> {"none", "success", "refused", "failed", "unrepaired"}]
    BY DEF IInv, TypeOK, Fail, GoTo, Stages, AfterDatabaseRestore
  <2> QED BY <1>1, <2>1, <2>2 DEF IInv, TypeOK
<1>3. Control'
  BY <1>1 DEF IInv, TypeOK, Control, Fail, GoTo, AfterDatabaseRestore, ArmedAsReached,
         ResultAsReached, UnlinkedAsArmed, TemporariesAsReached
<1>4. OutputIsKnown'
  BY <1>1 DEF IInv, TypeOK, Control, OutputIsKnown, OutputIsUnlinked, Fail, GoTo,
         AfterDatabaseRestore, ArmedAsReached, ResultAsReached, UnlinkedAsArmed
<1>5. StoreIsKnown'
  BY <1>1 DEF IInv, TypeOK, Control, StoreIsKnown, Committed, OutputIsKnown, Alone,
         AtPath, Fail, GoTo, AfterDatabaseRestore, ArmedAsReached, ResultAsReached,
         UnlinkedAsArmed
<1> QED BY <1>2, <1>3, <1>4, <1>5 DEF IInv

\* The check of the store that is found touches nothing.
LEMMA RequireStoreKeeps ==
  ASSUME IInv, NEW p \in Procs, RequireStore(p)
  PROVE  IInv'
<1>1. UNCHANGED <<path, stored, lock, output, args, handle, seen, backup, started,
                  staged, scratch, found, restored, faults>>
  BY DEF RequireStore, disk, connection, rollback, temporaries, given
<1>2. TypeOK'
  BY <1>1 DEF IInv, TypeOK, RequireStore, GoTo, Stages
<1>3. Control'
  BY <1>1 DEF IInv, TypeOK, Control, RequireStore, GoTo, ArmedAsReached,
         ResultAsReached, UnlinkedAsArmed, TemporariesAsReached
<1>4. OutputIsKnown'
  BY <1>1 DEF IInv, TypeOK, Control, OutputIsKnown, OutputIsUnlinked, RequireStore, GoTo,
         ArmedAsReached, ResultAsReached, UnlinkedAsArmed
<1>5. StoreIsKnown'
  BY <1>1 DEF IInv, TypeOK, Control, StoreIsKnown, Committed, OutputIsKnown, Alone,
         AtPath, RequireStore, GoTo, ArmedAsReached, ResultAsReached, UnlinkedAsArmed,
         TemporariesAsReached
<1> QED BY <1>2, <1>3, <1>4, <1>5 DEF IInv

\* Nor does the evaluation, which may end the command.
LEMMA EvaluateKeeps ==
  ASSUME IInv, NEW p \in Procs, Evaluate(p)
  PROVE  IInv'
<1>1. UNCHANGED <<path, stored, lock, output, args, handle, seen, backup, started,
                  staged, scratch, found, restored, faults>>
  BY DEF Evaluate, disk, connection, rollback, temporaries, given
<1>2. TypeOK'
  BY <1>1 DEF IInv, TypeOK, Evaluate, GoTo, Stages
<1>3. Control'
  BY <1>1 DEF IInv, TypeOK, Control, Evaluate, GoTo, ArmedAsReached, ResultAsReached,
         UnlinkedAsArmed, TemporariesAsReached
<1>4. OutputIsKnown'
  BY <1>1 DEF IInv, TypeOK, Control, OutputIsKnown, OutputIsUnlinked, Evaluate, GoTo,
         ArmedAsReached, ResultAsReached, UnlinkedAsArmed
<1>5. StoreIsKnown'
  BY <1>1 DEF IInv, TypeOK, Control, StoreIsKnown, Committed, OutputIsKnown, Alone,
         AtPath, Evaluate, GoTo, ArmedAsReached, ResultAsReached, UnlinkedAsArmed,
         TemporariesAsReached
<1> QED BY <1>2, <1>3, <1>4, <1>5 DEF IInv

\* The output is copied and staged; from here on the scratch directory exists.
LEMMA StageOutputKeeps ==
  ASSUME IInv, NEW p \in Procs, StageOutput(p)
  PROVE  IInv'
<1>1. UNCHANGED <<path, stored, lock, output, args, handle, seen, started, result,
                  found, restored, faults>>
  BY DEF StageOutput, disk, connection, rollback, temporaries, given
<1>2. TypeOK'
  BY SMTT(30), <1>1 DEF IInv, TypeOK, StageOutput, GoTo, Stages, OutputState
<1>3. Control'
  BY <1>1 DEF IInv, TypeOK, Control, StageOutput, GoTo, ArmedAsReached, ResultAsReached,
         UnlinkedAsArmed, TemporariesAsReached
<1>4. OutputIsKnown'
  BY <1>1 DEF IInv, TypeOK, Control, OutputIsKnown, OutputIsUnlinked, StageOutput, GoTo,
         ArmedAsReached, ResultAsReached, UnlinkedAsArmed
<1>5. StoreIsKnown'
  BY <1>1 DEF IInv, TypeOK, Control, StoreIsKnown, Committed, OutputIsKnown, Alone,
         AtPath, StageOutput, GoTo, ArmedAsReached, ResultAsReached, UnlinkedAsArmed,
         TemporariesAsReached
<1> QED BY <1>2, <1>3, <1>4, <1>5 DEF IInv

\* The backup is the database as it was found, if nobody else uses it.
LEMMA SnapshotDatabaseKeeps ==
  ASSUME IInv, NEW p \in Procs, SnapshotDatabase(p)
  PROVE  IInv'
<1>1. UNCHANGED <<path, stored, lock, output, args, handle, seen, staged, scratch,
                  result, found, restored, faults>>
  BY DEF SnapshotDatabase, disk, connection, rollback, temporaries, given
<1>a. /\ AtPath \in Content \cup {None}
      /\ backup[p] \in [db : Content \cup {None}, output : OutputState]
  BY DEF IInv, TypeOK, AtPath
<1> DEFINE b == [db |-> AtPath, output |-> backup[p].output]
<1>b. /\ b \in [db : Content \cup {None}, output : OutputState]
      /\ [backup[p] EXCEPT !.db = AtPath] = b
  BY <1>a
<1>c. backup' = [backup EXCEPT ![p] = b] /\ b.db = AtPath /\ b.output = backup[p].output
  BY <1>b DEF SnapshotDatabase
<1> HIDE DEF b
<1>2. TypeOK'
  BY <1>1, <1>b, <1>c DEF IInv, TypeOK, GoTo, Stages, SnapshotDatabase
<1>3. Control'
  BY <1>1 DEF IInv, TypeOK, Control, SnapshotDatabase, GoTo, ArmedAsReached,
         ResultAsReached, UnlinkedAsArmed, TemporariesAsReached
<1>4. OutputIsKnown'
  BY <1>1 DEF IInv, TypeOK, Control, OutputIsKnown, OutputIsUnlinked, SnapshotDatabase, GoTo,
         ArmedAsReached, ResultAsReached, UnlinkedAsArmed
<1>5. StoreIsKnown'
  BY <1>1 DEF IInv, TypeOK, Control, StoreIsKnown, Committed, OutputIsKnown, Alone,
         AtPath, SnapshotDatabase, GoTo, ArmedAsReached, ResultAsReached,
         UnlinkedAsArmed, TemporariesAsReached
<1> QED BY <1>2, <1>3, <1>4, <1>5 DEF IInv

\* Opening a missing file creates an empty one: nothing was at the path to lose.
LEMMA OpenStoreKeeps ==
  ASSUME IInv, NEW p \in Procs, OpenStore(p), ~Fail(p)
  PROVE  IInv'
<1>1. UNCHANGED <<stored, lock, output, args, seen, backup, started, staged, scratch,
                  result, found, restored, faults>>
  BY DEF OpenStore, disk, connection, rollback, temporaries, given
<1>a. path' \in File /\ handle' = [handle EXCEPT ![p] = path']
  BY FilesAreFiles DEF IInv, TypeOK, OpenStore
<1>b. pc' = [pc EXCEPT ![p] = "create"] \/ pc' = [pc EXCEPT ![p] = "save"]
  BY DEF OpenStore, GoTo
<1>2. TypeOK'
  BY <1>1, <1>a, <1>b DEF IInv, TypeOK, GoTo, Stages, OpenStore
<1>3. Control'
  BY <1>1, <1>a, <1>b DEF IInv, TypeOK, Control, OpenStore, ArmedAsReached,
         ResultAsReached, UnlinkedAsArmed, TemporariesAsReached
<1>4. OutputIsKnown'
  BY <1>1 DEF IInv, TypeOK, Control, OutputIsKnown, OutputIsUnlinked, OpenStore, GoTo,
         ArmedAsReached, ResultAsReached, UnlinkedAsArmed
<1>5. StoreIsKnown'
  BY <1>1 DEF IInv, TypeOK, Control, StoreIsKnown, Committed, OutputIsKnown, Alone,
         AtPath, OpenStore, GoTo, ArmedAsReached, ResultAsReached, UnlinkedAsArmed,
         TemporariesAsReached
<1> QED BY <1>2, <1>3, <1>4, <1>5 DEF IInv

\* The schema is written into the file at the path; what it held stays in it.
LEMMA CreateTablesKeeps ==
  ASSUME IInv, NEW p \in Procs, CreateTables(p), ~Fail(p)
  PROVE  IInv'
<1>1. UNCHANGED <<path, lock, output, args, handle, seen, backup, started, staged,
                  scratch, result, found, restored, faults>>
  BY DEF CreateTables, disk, connection, rollback, temporaries, given
<1>a. path \in File /\ path' = path
  BY <1>1 DEF IInv, TypeOK, Control, ArmedAsReached, CreateTables, Writable
<1> DEFINE v == [schema |-> IF stored[path].schema = "none" THEN "partial"
                           ELSE stored[path].schema,
                saved |-> stored[path].saved]
<1>b. stored[path] \in Content
  BY <1>a DEF IInv, TypeOK
<1>c. [stored[path] EXCEPT !.schema = IF @ = "none" THEN "partial" ELSE @] = v
  BY <1>b DEF Content
<1>d. /\ stored' = [stored EXCEPT ![path] = v]
      /\ v \in Content /\ v.saved = stored[path].saved
  BY <1>b, <1>c DEF CreateTables, Content
<1> HIDE DEF v
<1>e. /\ stored' \in [File -> Content]
      /\ path # None /\ AtPath = stored[path] /\ path' # None /\ AtPath' = v
  BY <1>a, <1>d, Rewriting DEF IInv
<1>2. TypeOK'
  BY <1>1, <1>a, <1>e DEF IInv, TypeOK, GoTo, Stages, CreateTables
<1>3. Control'
  BY <1>1 DEF IInv, TypeOK, Control, CreateTables, GoTo, ArmedAsReached,
         ResultAsReached, UnlinkedAsArmed, TemporariesAsReached
<1>4. OutputIsKnown'
  BY <1>1 DEF IInv, TypeOK, Control, OutputIsKnown, OutputIsUnlinked, CreateTables, GoTo,
         ArmedAsReached, ResultAsReached, UnlinkedAsArmed
<1>5. StoreIsKnown'
  BY <1>1, <1>a, <1>d, <1>e DEF IInv, TypeOK, Control, StoreIsKnown, Committed,
         OutputIsKnown, Alone, CreateTables, GoTo, ArmedAsReached, ResultAsReached,
         UnlinkedAsArmed
<1> QED BY <1>2, <1>3, <1>4, <1>5 DEF IInv

\* The same for the A08 tables.
LEMMA FinishSchemaKeeps ==
  ASSUME IInv, NEW p \in Procs, FinishSchema(p), ~Fail(p)
  PROVE  IInv'
<1>1. UNCHANGED <<path, lock, output, args, handle, seen, backup, started, staged,
                  scratch, result, found, restored, faults>>
  BY DEF FinishSchema, disk, connection, rollback, temporaries, given
<1>a. path \in File /\ path' = path
  BY <1>1 DEF IInv, TypeOK, Control, ArmedAsReached, FinishSchema, Writable
<1> DEFINE v == [schema |-> "a08", saved |-> stored[path].saved]
<1>b. stored[path] \in Content
  BY <1>a DEF IInv, TypeOK
<1>c. [stored[path] EXCEPT !.schema = "a08"] = v
  BY <1>b DEF Content
<1>d. /\ stored' = [stored EXCEPT ![path] = v]
      /\ v \in Content /\ v.saved = stored[path].saved
  BY <1>b, <1>c DEF FinishSchema, Content
<1> HIDE DEF v
<1>e. /\ stored' \in [File -> Content]
      /\ path # None /\ AtPath = stored[path] /\ path' # None /\ AtPath' = v
  BY <1>a, <1>d, Rewriting DEF IInv
<1>2. TypeOK'
  BY <1>1, <1>a, <1>e DEF IInv, TypeOK, GoTo, Stages, FinishSchema
<1>3. Control'
  BY <1>1 DEF IInv, TypeOK, Control, FinishSchema, GoTo, ArmedAsReached,
         ResultAsReached, UnlinkedAsArmed, TemporariesAsReached
<1>4. OutputIsKnown'
  BY <1>1 DEF IInv, TypeOK, Control, OutputIsKnown, OutputIsUnlinked, FinishSchema, GoTo,
         ArmedAsReached, ResultAsReached, UnlinkedAsArmed
<1>5. StoreIsKnown'
  BY <1>1, <1>a, <1>d, <1>e DEF IInv, TypeOK, Control, StoreIsKnown, Committed,
         OutputIsKnown, Alone, FinishSchema, GoTo, ArmedAsReached, ResultAsReached,
         UnlinkedAsArmed
<1> QED BY <1>2, <1>3, <1>4, <1>5 DEF IInv

\* Taking the write lock changes no content.
LEMMA BeginSaveKeeps ==
  ASSUME IInv, NEW p \in Procs, BeginSave(p), ~Fail(p)
  PROVE  IInv'
<1>1. UNCHANGED <<path, stored, output, args, handle, seen, backup, started, staged,
                  scratch, result, found, restored, faults>>
  BY DEF BeginSave, disk, connection, rollback, temporaries, given
<1>a. path \in File
  BY <1>1 DEF IInv, TypeOK, Control, ArmedAsReached, BeginSave, Writable
<1>b. lock' = [lock EXCEPT ![path] = p] /\ pc' = [pc EXCEPT ![p] = "commit"]
  BY DEF BeginSave, GoTo
<1>2. TypeOK'
  BY <1>1, <1>a, <1>b DEF IInv, TypeOK, GoTo, Stages
<1>3. Control'
  BY <1>1 DEF IInv, TypeOK, Control, BeginSave, GoTo, ArmedAsReached, ResultAsReached,
         UnlinkedAsArmed, TemporariesAsReached
<1>4. OutputIsKnown'
  BY <1>1 DEF IInv, TypeOK, Control, OutputIsKnown, OutputIsUnlinked, BeginSave, GoTo,
         ArmedAsReached, ResultAsReached, UnlinkedAsArmed
<1>5. StoreIsKnown'
  BY <1>1 DEF IInv, TypeOK, Control, StoreIsKnown, Committed, OutputIsKnown, Alone,
         AtPath, BeginSave, GoTo, ArmedAsReached, ResultAsReached, UnlinkedAsArmed,
         TemporariesAsReached
<1> QED BY <1>2, <1>3, <1>4, <1>5 DEF IInv

\* The commit adds the result of the command to the file at the path.
LEMMA CommitSaveKeeps ==
  ASSUME IInv, NEW p \in Procs, CommitSave(p), ~Fail(p)
  PROVE  IInv'
<1>1. UNCHANGED <<path, output, args, handle, seen, backup, started, staged, scratch,
                  result, found, restored, faults>>
  BY DEF CommitSave, disk, connection, rollback, temporaries, given
<1>a. path \in File /\ path' = path
  BY <1>1 DEF IInv, TypeOK, Control, ArmedAsReached, CommitSave, Writable
<1> DEFINE v == [schema |-> stored[path].schema, saved |-> stored[path].saved \cup {p}]
<1>b. stored[path] \in Content
  BY <1>a DEF IInv, TypeOK
<1>c. [stored[path] EXCEPT !.saved = @ \cup {p}] = v
  BY <1>b DEF Content
<1>d. /\ stored' = [stored EXCEPT ![path] = v]
      /\ v \in Content /\ v.saved = stored[path].saved \cup {p}
  BY <1>b, <1>c DEF CommitSave, Content
<1> HIDE DEF v
<1>e. /\ stored' \in [File -> Content]
      /\ path # None /\ AtPath = stored[path] /\ path' # None /\ AtPath' = v
  BY <1>a, <1>d, Rewriting DEF IInv
<1>2. TypeOK'
  BY <1>1, <1>a, <1>e DEF IInv, TypeOK, GoTo, Stages, CommitSave
<1>3. Control'
  BY <1>1 DEF IInv, TypeOK, Control, CommitSave, GoTo, ArmedAsReached, ResultAsReached,
         UnlinkedAsArmed, TemporariesAsReached
<1>4. OutputIsKnown'
  BY <1>1 DEF IInv, TypeOK, Control, OutputIsKnown, OutputIsUnlinked, CommitSave, GoTo,
         ArmedAsReached, ResultAsReached, UnlinkedAsArmed
<1>5. StoreIsKnown'
  BY <1>1, <1>a, <1>d, <1>e DEF IInv, TypeOK, Control, StoreIsKnown, Committed,
         OutputIsKnown, Alone, CommitSave, GoTo, ArmedAsReached, ResultAsReached,
         UnlinkedAsArmed
<1> QED BY <1>2, <1>3, <1>4, <1>5 DEF IInv

\* The verification reads ...
LEMMA ReadAuditLogKeeps ==
  ASSUME IInv, NEW p \in Procs, ReadAuditLog(p)
  PROVE  IInv'
<1>1. UNCHANGED <<path, stored, lock, output, args, handle, backup, started, staged,
                  scratch, result, found, restored, faults>>
  BY DEF ReadAuditLog, disk, connection, rollback, temporaries, given
<1>a. handle[p] \in File
  BY <1>1 DEF IInv, TypeOK, Control, ArmedAsReached, ReadAuditLog
<1>2. TypeOK'
  BY <1>1, <1>a DEF IInv, TypeOK, GoTo, Stages, ReadAuditLog
<1>3. Control'
  BY <1>1 DEF IInv, TypeOK, Control, ReadAuditLog, GoTo, ArmedAsReached,
         ResultAsReached, UnlinkedAsArmed, TemporariesAsReached
<1>4. OutputIsKnown'
  BY <1>1 DEF IInv, TypeOK, Control, OutputIsKnown, OutputIsUnlinked, ReadAuditLog, GoTo,
         ArmedAsReached, ResultAsReached, UnlinkedAsArmed
<1>5. StoreIsKnown'
  BY <1>1 DEF IInv, TypeOK, Control, StoreIsKnown, Committed, OutputIsKnown, Alone,
         AtPath, ReadAuditLog, GoTo, ArmedAsReached, ResultAsReached, UnlinkedAsArmed,
         TemporariesAsReached
<1> QED BY <1>2, <1>3, <1>4, <1>5 DEF IInv

\* ... and compares.
LEMMA VerifyStoreKeeps ==
  ASSUME IInv, NEW p \in Procs, VerifyStore(p), ~Fail(p)
  PROVE  IInv'
<1>1. UNCHANGED <<path, stored, lock, output, args, handle, seen, backup, started,
                  staged, scratch, result, found, restored, faults>>
  BY DEF VerifyStore, disk, connection, rollback, temporaries, given
<1>2. TypeOK'
  BY <1>1 DEF IInv, TypeOK, GoTo, Stages, VerifyStore, disk, connection, rollback,
         temporaries, given
<1>3. Control'
  BY <1>1 DEF IInv, TypeOK, Control, VerifyStore, GoTo, ArmedAsReached, ResultAsReached,
         UnlinkedAsArmed, TemporariesAsReached
<1>4. OutputIsKnown'
  BY <1>1 DEF IInv, TypeOK, Control, OutputIsKnown, OutputIsUnlinked, VerifyStore, GoTo,
         ArmedAsReached, ResultAsReached, UnlinkedAsArmed
<1>5. StoreIsKnown'
  BY <1>1 DEF IInv, TypeOK, Control, StoreIsKnown, Committed, OutputIsKnown, Alone,
         AtPath, VerifyStore, GoTo, ArmedAsReached, ResultAsReached, UnlinkedAsArmed,
         TemporariesAsReached
<1> QED BY <1>2, <1>3, <1>4, <1>5 DEF IInv

\* The rollback of the output is armed before the output is replaced.
LEMMA PromoteKeeps ==
  ASSUME IInv, NEW p \in Procs, Promote(p)
  PROVE  IInv'
<1>1. UNCHANGED <<path, stored, lock, output, args, handle, seen, backup, staged,
                  scratch, result, found, restored, faults>>
  BY DEF Promote, disk, connection, rollback, temporaries, given
<1>a. \/ /\ "output" \in args[p] /\ pc' = [pc EXCEPT ![p] = "replace"]
         /\ started' = [started EXCEPT ![p] = @ \cup {"output"}]
      \/ "output" \notin args[p] /\ started' = started /\ pc' = [pc EXCEPT ![p] = "print"]
  BY DEF Promote, GoTo
<1>b. /\ pc[p] = "promote" /\ args[p] \subseteq {"db", "output"}
      /\ started[p] = args[p] \ {"output"}
  BY DEF IInv, Control, ArmedAsReached, Promote, TypeOK
<1>c. started' = [started EXCEPT ![p] = args[p]]
  <2>a. CASE "output" \in args[p]
    <3>1. started[p] \cup {"output"} = args[p]
      BY <1>b, <2>a
    <3> QED BY <1>a, <2>a, <3>1
  <2>b. CASE "output" \notin args[p]
    <3>1. started[p] = args[p]
      BY <1>b, <2>b
    <3> QED BY <1>a, <2>b, <3>1 DEF IInv, TypeOK
  <2> QED BY <2>a, <2>b
<1>2. TypeOK'
  BY <1>1, <1>a, <1>c DEF IInv, TypeOK, GoTo, Stages
<1>3. Control'
  BY <1>1, <1>a, <1>b, <1>c DEF IInv, TypeOK, Control, ArmedAsReached, ResultAsReached,
         UnlinkedAsArmed, TemporariesAsReached
<1>4. OutputIsKnown'
  BY <1>1 DEF IInv, TypeOK, Control, OutputIsKnown, OutputIsUnlinked, Promote, GoTo,
         ArmedAsReached, ResultAsReached, UnlinkedAsArmed
<1>5. StoreIsKnown'
  BY <1>1, <1>a, <1>b, <1>c DEF IInv, TypeOK, Control, StoreIsKnown, Committed,
         OutputIsKnown, Alone, AtPath, ArmedAsReached, ResultAsReached, UnlinkedAsArmed
<1> QED BY <1>2, <1>3, <1>4, <1>5 DEF IInv

\* The new output appears after the commit.
LEMMA ReplaceOutputKeeps ==
  ASSUME IInv, NEW p \in Procs, ReplaceOutput(p)
  PROVE  IInv'
<1>1. UNCHANGED <<path, stored, lock, args, handle, seen, backup, started, scratch,
                  result, found, restored, faults>>
  BY DEF ReplaceOutput, disk, connection, rollback, temporaries, given
<1>2. TypeOK'
  BY <1>1 DEF IInv, TypeOK, ReplaceOutput, GoTo, Stages, OutputState
<1>3. Control'
  BY <1>1 DEF IInv, TypeOK, Control, ReplaceOutput, GoTo, ArmedAsReached,
         ResultAsReached, UnlinkedAsArmed, TemporariesAsReached
<1>4. OutputIsKnown'
  BY <1>1 DEF IInv, TypeOK, Control, OutputIsKnown, OutputIsUnlinked, ReplaceOutput, GoTo,
         ArmedAsReached, ResultAsReached, UnlinkedAsArmed
<1>5. StoreIsKnown'
  BY <1>1 DEF IInv, TypeOK, Control, StoreIsKnown, Committed, OutputIsKnown, Alone,
         AtPath, ReplaceOutput, GoTo, ArmedAsReached, ResultAsReached, UnlinkedAsArmed,
         TemporariesAsReached
<1> QED BY <1>2, <1>3, <1>4, <1>5 DEF IInv

\* Success is reported with the output in place.
LEMMA PrintSuccessKeeps ==
  ASSUME IInv, NEW p \in Procs, PrintSuccess(p)
  PROVE  IInv'
<1>1. UNCHANGED <<path, stored, lock, output, args, handle, seen, backup, started,
                  staged, scratch, found, restored, faults>>
  BY DEF PrintSuccess, disk, connection, rollback, temporaries, given
<1>2. TypeOK'
  BY <1>1 DEF IInv, TypeOK, PrintSuccess, GoTo, Stages
<1>3. Control'
  BY <1>1 DEF IInv, TypeOK, Control, PrintSuccess, GoTo, ArmedAsReached,
         ResultAsReached, UnlinkedAsArmed, TemporariesAsReached
<1>4. OutputIsKnown'
  BY <1>1 DEF IInv, TypeOK, Control, OutputIsKnown, OutputIsUnlinked, PrintSuccess, GoTo,
         ArmedAsReached, ResultAsReached, UnlinkedAsArmed
<1>5. StoreIsKnown'
  BY <1>1 DEF IInv, TypeOK, Control, StoreIsKnown, Committed, OutputIsKnown, Alone,
         AtPath, PrintSuccess, GoTo, ArmedAsReached, ResultAsReached, UnlinkedAsArmed,
         TemporariesAsReached
<1> QED BY <1>2, <1>3, <1>4, <1>5 DEF IInv

\* The rollback unlinks the file; its copy is in the scratch directory.
LEMMA RestoreUnlinkKeeps ==
  ASSUME IInv, NEW p \in Procs, RestoreUnlink(p)
  PROVE  IInv'
<1>1. UNCHANGED <<stored, lock, output, args, handle, seen, backup, started, staged,
                  scratch, result, found, faults>>
  BY DEF RestoreUnlink, disk, connection, rollback, temporaries, given
<1>2. TypeOK'
  BY <1>1 DEF IInv, TypeOK, RestoreUnlink, GoTo, Stages
<1>3. Control'
  BY <1>1 DEF IInv, TypeOK, Control, RestoreUnlink, GoTo, ArmedAsReached,
         ResultAsReached, UnlinkedAsArmed, TemporariesAsReached
<1>4. OutputIsKnown'
  BY <1>1 DEF IInv, TypeOK, Control, OutputIsKnown, OutputIsUnlinked, RestoreUnlink, GoTo,
         ArmedAsReached, ResultAsReached, UnlinkedAsArmed
<1>5. StoreIsKnown'
  BY <1>1 DEF IInv, TypeOK, Control, StoreIsKnown, Committed, OutputIsKnown, Alone,
         AtPath, RestoreUnlink, GoTo, ArmedAsReached, ResultAsReached, UnlinkedAsArmed,
         TemporariesAsReached
<1> QED BY <1>2, <1>3, <1>4, <1>5 DEF IInv

\* The copy is put back: of a command alone, exactly what it found.
LEMMA RestoreCopyKeeps ==
  ASSUME IInv, NEW p \in Procs, RestoreCopy(p)
  PROVE  IInv'
<1>1. UNCHANGED <<lock, output, args, handle, seen, backup, started, staged, scratch,
                  result, found, restored, faults>>
  BY DEF RestoreCopy, disk, connection, rollback, temporaries, given
<1> DEFINE file == IF path = None THEN RestoredBy(p) ELSE path
<1>a. file \in File /\ file # None
  BY FilesAreFiles DEF IInv, TypeOK
<1>b. \/ backup[p].db = None /\ UNCHANGED <<path, stored>>
      \/ /\ backup[p].db \in Content \ {None} /\ path' = file
         /\ stored' = [stored EXCEPT ![file] = backup[p].db]
  BY DEF RestoreCopy, IInv, TypeOK
<1>c. pc' = [pc EXCEPT ![p] = "restore_output"] \/ pc' = [pc EXCEPT ![p] = "cleanup"]
  BY DEF RestoreCopy, GoTo, AfterDatabaseRestore
<1>d. path' \in File \cup {None} /\ stored' \in [File -> Content]
  BY <1>a, <1>b DEF IInv, TypeOK
<1>2. TypeOK'
  BY <1>1, <1>c, <1>d DEF IInv, TypeOK, GoTo, Stages
<1>3. Control'
  BY <1>1 DEF IInv, TypeOK, Control, RestoreCopy, GoTo, AfterDatabaseRestore,
         ArmedAsReached, ResultAsReached, UnlinkedAsArmed, TemporariesAsReached
<1>4. OutputIsKnown'
  BY <1>1 DEF IInv, TypeOK, Control, OutputIsKnown, OutputIsUnlinked, RestoreCopy, GoTo,
         AfterDatabaseRestore, ArmedAsReached, ResultAsReached, UnlinkedAsArmed
<1>e. backup[p].db = None => AtPath' = AtPath
  BY <1>b DEF AtPath
<1>f. backup[p].db # None => AtPath' = backup[p].db
  BY <1>a, <1>b DEF AtPath, IInv, TypeOK
<1>g. p \in restored /\ "db" \in started[p] /\ "db" \in args[p] /\ result[p] = "failed"
  BY DEF RestoreCopy, IInv, Control, UnlinkedAsArmed, ArmedAsReached, ResultAsReached
<1>h. Alone(p) => AtPath' = found.db
  <2> SUFFICES ASSUME Alone(p) PROVE AtPath' = found.db
    OBVIOUS
  <2>1. backup[p].db = found.db
    BY <1>g DEF IInv, StoreIsKnown
  <2>2. path = None \/ AtPath = found.db
    BY <1>g DEF IInv, StoreIsKnown, RestoreCopy
  <2>3. CASE backup[p].db = None
    BY <1>e, <2>1, <2>2, <2>3 DEF AtPath
  <2> QED BY <1>f, <2>1, <2>3
<1>5. StoreIsKnown'
  <2>1. restored' # {} /\ "db" \in started'[p]
    BY <1>1, <1>g
  <2>2. ASSUME NEW q \in Procs, "db" \in started'[q], Alone(q)'
        PROVE  q = p /\ Alone(p)
    BY <1>1, <1>g, <2>2 DEF Alone
  <2> QED BY <1>1, <1>h, <2>1, <2>2 DEF IInv, StoreIsKnown
<1> QED BY <1>2, <1>3, <1>4, <1>5 DEF IInv

\* The output is unlinked; its copy is in the scratch directory.
LEMMA UnlinkOutputKeeps ==
  ASSUME IInv, NEW p \in Procs, UnlinkOutput(p)
  PROVE  IInv'
<1>1. UNCHANGED <<path, stored, lock, args, handle, seen, backup, started, staged,
                  scratch, result, found, restored, faults>>
  BY DEF UnlinkOutput, disk, connection, rollback, temporaries, given
<1>2. TypeOK'
  BY <1>1 DEF IInv, TypeOK, UnlinkOutput, GoTo, Stages, OutputState
<1>3. Control'
  BY <1>1 DEF IInv, TypeOK, Control, UnlinkOutput, GoTo, ArmedAsReached, ResultAsReached,
         UnlinkedAsArmed, TemporariesAsReached
<1>4. OutputIsKnown'
  BY <1>1 DEF IInv, TypeOK, Control, OutputIsKnown, OutputIsUnlinked, UnlinkOutput, GoTo,
         ArmedAsReached, ResultAsReached, UnlinkedAsArmed
<1>5. StoreIsKnown'
  BY <1>1 DEF IInv, TypeOK, Control, StoreIsKnown, Committed, OutputIsKnown, Alone,
         AtPath, UnlinkOutput, GoTo, ArmedAsReached, ResultAsReached, UnlinkedAsArmed,
         TemporariesAsReached
<1> QED BY <1>2, <1>3, <1>4, <1>5 DEF IInv

\* The output is put back.
LEMMA RestoreOutputKeeps ==
  ASSUME IInv, NEW p \in Procs, RestoreOutput(p)
  PROVE  IInv'
<1>1. UNCHANGED <<path, stored, lock, args, handle, seen, backup, started, staged,
                  scratch, result, found, restored, faults>>
  BY DEF RestoreOutput, disk, connection, rollback, temporaries, given
<1>2. TypeOK'
  BY <1>1 DEF IInv, TypeOK, RestoreOutput, GoTo, Stages, OutputState
<1>3. Control'
  BY <1>1 DEF IInv, TypeOK, Control, RestoreOutput, GoTo, ArmedAsReached,
         ResultAsReached, UnlinkedAsArmed, TemporariesAsReached
<1>4. OutputIsKnown'
  BY <1>1 DEF IInv, TypeOK, Control, OutputIsKnown, OutputIsUnlinked, RestoreOutput, GoTo,
         ArmedAsReached, ResultAsReached, UnlinkedAsArmed
<1>5. StoreIsKnown'
  BY <1>1 DEF IInv, TypeOK, Control, StoreIsKnown, Committed, OutputIsKnown, Alone,
         AtPath, RestoreOutput, GoTo, ArmedAsReached, ResultAsReached, UnlinkedAsArmed,
         TemporariesAsReached
<1> QED BY <1>2, <1>3, <1>4, <1>5 DEF IInv

\* The finally block removes the temporaries.
LEMMA CleanUpKeeps ==
  ASSUME IInv, NEW p \in Procs, CleanUp(p)
  PROVE  IInv'
<1>1. UNCHANGED <<path, stored, lock, output, args, handle, seen, backup, started,
                  result, found, restored, faults>>
  BY DEF CleanUp, disk, connection, rollback, temporaries, given
<1>2. TypeOK'
  BY <1>1 DEF IInv, TypeOK, CleanUp, GoTo, Stages
<1>3. Control'
  BY <1>1 DEF IInv, TypeOK, Control, CleanUp, GoTo, ArmedAsReached, ResultAsReached,
         UnlinkedAsArmed, TemporariesAsReached
<1>4. OutputIsKnown'
  BY <1>1 DEF IInv, TypeOK, Control, OutputIsKnown, OutputIsUnlinked, CleanUp, GoTo,
         ArmedAsReached, ResultAsReached, UnlinkedAsArmed
<1>5. StoreIsKnown'
  BY <1>1 DEF IInv, TypeOK, Control, StoreIsKnown, Committed, OutputIsKnown, Alone,
         AtPath, CleanUp, GoTo, ArmedAsReached, ResultAsReached, UnlinkedAsArmed,
         TemporariesAsReached
<1> QED BY <1>2, <1>3, <1>4, <1>5 DEF IInv

\* A failing rollback goes on to the finally block.
LEMMA RestoreFaultKeeps ==
  ASSUME IInv, NEW p \in Procs, RestoreFault(p)
  PROVE  IInv'
<1>1. UNCHANGED <<path, stored, lock, output, args, handle, seen, backup, started,
                  staged, scratch, found, restored>>
  BY DEF RestoreFault, disk, connection, rollback, temporaries, given
<1>2. TypeOK'
  BY <1>1 DEF IInv, TypeOK, RestoreFault, GoTo, Stages
<1>3. Control'
  BY <1>1 DEF IInv, TypeOK, Control, RestoreFault, GoTo, ArmedAsReached,
         ResultAsReached, UnlinkedAsArmed, TemporariesAsReached
<1>4. OutputIsKnown'
  BY <1>1 DEF IInv, TypeOK, Control, OutputIsKnown, OutputIsUnlinked, RestoreFault, GoTo,
         ArmedAsReached, ResultAsReached, UnlinkedAsArmed
<1>5. StoreIsKnown'
  BY <1>1 DEF IInv, TypeOK, Control, StoreIsKnown, Committed, OutputIsKnown, Alone,
         AtPath, RestoreFault, GoTo, ArmedAsReached, ResultAsReached, UnlinkedAsArmed,
         TemporariesAsReached
<1> QED BY <1>2, <1>3, <1>4, <1>5 DEF IInv

\* A killed process keeps its temporaries.
LEMMA CrashKeeps ==
  ASSUME IInv, NEW p \in Procs, Crash(p)
  PROVE  IInv'
<1>1. UNCHANGED <<path, stored, output, args, handle, seen, backup, started, staged,
                  scratch, result, found, restored>>
  BY DEF Crash, disk, connection, rollback, temporaries, given
<1>2. TypeOK'
  BY <1>1 DEF IInv, TypeOK, Crash, GoTo, Stages
<1>a. started[p] # {} => p \in scratch
  <2>1. started[p] # {} => args[p] # {}
    BY DEF IInv, Control, ArmedAsReached
  <2>2. pc[p] \in Before => started[p] = {}
    BY DEF IInv, Control, ArmedAsReached
  <2>3. pc[p] \in (Stages \ Before) \ {"done", "crashed"}
          => pc[p] \in {"snapshot", "cleanup"} \cup AtDatabase \cup AtOutput \cup RestoreStages
    BY DEF Stages
  <2> QED
    BY <2>1, <2>2, <2>3 DEF IInv, TypeOK, Control, TemporariesAsReached, Crash
<1>b. pc' = [pc EXCEPT ![p] = "crashed"] /\ pc[p] # "crashed" /\ pc[p] # "done"
  BY DEF Crash, GoTo
<1>3. Control'
  BY <1>1, <1>a, <1>b DEF IInv, TypeOK, Control, ArmedAsReached, ResultAsReached,
         UnlinkedAsArmed, TemporariesAsReached
<1>4. OutputIsKnown'
  BY <1>1, <1>a, <1>b DEF IInv, TypeOK, Control, OutputIsKnown, OutputIsUnlinked,
         ArmedAsReached, ResultAsReached, UnlinkedAsArmed
<1>5. StoreIsKnown'
  BY <1>1 DEF IInv, TypeOK, Control, StoreIsKnown, Committed, OutputIsKnown, Alone,
         AtPath, Crash, GoTo, ArmedAsReached, ResultAsReached, UnlinkedAsArmed,
         TemporariesAsReached
<1> QED BY <1>2, <1>3, <1>4, <1>5 DEF IInv

\* Every command starts with nothing armed and nothing of its own on the disk.
LEMMA InitHolds == Init => IInv
<1> SUFFICES ASSUME Init PROVE IInv
  OBVIOUS
<1>1. TypeOK
  <2>1. stored \in [File -> Content] /\ FoundFile \in File
    BY DEF Init, Content, EmptyFile, FoundContent, FoundFile, File
  <2>2. AtPath \in Content \cup {None}
    BY <2>1 DEF Init, AtPath
  <2> QED BY <2>1, <2>2 DEF Init, TypeOK, Stages, OutputState, EmptyFile, Content
<1>2. /\ AtPath \in {None, FoundContent}
      /\ (AtPath # None => path # None /\ Earlier \in AtPath.saved)
  <2>1. FoundFile \in File
    BY DEF FoundFile, File
  <2> QED BY <2>1 DEF Init, AtPath, FoundContent
<1>3. Control
  BY DEF Init, Control, ArmedAsReached, ResultAsReached, UnlinkedAsArmed,
         TemporariesAsReached
<1>4. OutputIsKnown
  BY DEF Init, OutputIsKnown
<1>5. StoreIsKnown
  BY <1>2 DEF Init, StoreIsKnown, Committed
<1> QED BY <1>1, <1>3, <1>4, <1>5 DEF IInv

\* Of the actions of Next, only those in the try block can fail.
LEMMA StepHolds == IInv /\ [Next]_vars => IInv'
<1> SUFFICES ASSUME IInv, [Next]_vars PROVE IInv'
  OBVIOUS
<1>1. ASSUME NEW p \in Procs, RequireStore(p) PROVE IInv'
  BY <1>1, RequireStoreKeeps
<1>2. ASSUME NEW p \in Procs, Evaluate(p) PROVE IInv'
  BY <1>2, EvaluateKeeps
<1>3. ASSUME NEW p \in Procs, StageOutput(p) PROVE IInv'
  BY <1>3, StageOutputKeeps
<1>4. ASSUME NEW p \in Procs, SnapshotDatabase(p) PROVE IInv'
  BY <1>4, SnapshotDatabaseKeeps
<1>5. ASSUME NEW p \in Procs, OpenStore(p) PROVE IInv'
  <2>1. pc[p] \in TryStages /\ faults' \in 0..MaxFaults
    BY <1>5 DEF OpenStore, IInv, TypeOK
  <2> QED BY <1>5, <2>1, FailKeeps, OpenStoreKeeps
<1>6. ASSUME NEW p \in Procs, CreateTables(p) PROVE IInv'
  <2>1. pc[p] \in TryStages /\ faults' \in 0..MaxFaults
    BY <1>6 DEF CreateTables, IInv, TypeOK
  <2> QED BY <1>6, <2>1, FailKeeps, CreateTablesKeeps
<1>7. ASSUME NEW p \in Procs, FinishSchema(p) PROVE IInv'
  <2>1. pc[p] \in TryStages /\ faults' \in 0..MaxFaults
    BY <1>7 DEF FinishSchema, IInv, TypeOK
  <2> QED BY <1>7, <2>1, FailKeeps, FinishSchemaKeeps
<1>8. ASSUME NEW p \in Procs, BeginSave(p) PROVE IInv'
  <2>1. pc[p] \in TryStages /\ faults' \in 0..MaxFaults
    BY <1>8 DEF BeginSave, IInv, TypeOK
  <2> QED BY <1>8, <2>1, FailKeeps, BeginSaveKeeps
<1>9. ASSUME NEW p \in Procs, CommitSave(p) PROVE IInv'
  <2>1. pc[p] \in TryStages /\ faults' \in 0..MaxFaults
    BY <1>9 DEF CommitSave, IInv, TypeOK
  <2> QED BY <1>9, <2>1, FailKeeps, CommitSaveKeeps
<1>10. ASSUME NEW p \in Procs, ReadAuditLog(p) PROVE IInv'
  BY <1>10, ReadAuditLogKeeps
<1>11. ASSUME NEW p \in Procs, VerifyStore(p) PROVE IInv'
  <2>1. pc[p] \in TryStages /\ faults' \in 0..MaxFaults
    BY <1>11 DEF VerifyStore, IInv, TypeOK
  <2> QED BY <1>11, <2>1, FailKeeps, VerifyStoreKeeps
<1>12. ASSUME NEW p \in Procs, Promote(p) PROVE IInv'
  BY <1>12, PromoteKeeps
<1>13. ASSUME NEW p \in Procs, ReplaceOutput(p) PROVE IInv'
  BY <1>13, ReplaceOutputKeeps
<1>14. ASSUME NEW p \in Procs, PrintSuccess(p) PROVE IInv'
  BY <1>14, PrintSuccessKeeps
<1>15. ASSUME NEW p \in Procs, RestoreUnlink(p) PROVE IInv'
  BY <1>15, RestoreUnlinkKeeps
<1>16. ASSUME NEW p \in Procs, RestoreCopy(p) PROVE IInv'
  BY <1>16, RestoreCopyKeeps
<1>17. ASSUME NEW p \in Procs, RestoreOutput(p) PROVE IInv'
  BY <1>17, RestoreOutputKeeps
<1>18. ASSUME NEW p \in Procs, UnlinkOutput(p) PROVE IInv'
  BY <1>18, UnlinkOutputKeeps
<1>19. ASSUME NEW p \in Procs, CleanUp(p) PROVE IInv'
  BY <1>19, CleanUpKeeps
<1>20. ASSUME NEW p \in Procs, Fault(p) PROVE IInv'
  <2>1. pc[p] \in TryStages /\ Fail(p) /\ faults' \in 0..MaxFaults
    BY <1>20 DEF Fault, IInv, TypeOK
  <2> QED BY <2>1, FailKeeps
<1>21. ASSUME NEW p \in Procs, RestoreFault(p) PROVE IInv'
  BY <1>21, RestoreFaultKeeps
<1>22. ASSUME NEW p \in Procs, Crash(p) PROVE IInv'
  BY <1>22, CrashKeeps
<1>23. CASE UNCHANGED vars
  <2>1. UNCHANGED <<path, stored, lock, output, args, pc, handle, seen, backup, started,
                    staged, scratch, result, found, restored, faults>>
    BY <1>23 DEF vars, disk, connection, rollback, temporaries, given
  <2>2. TypeOK'
    BY <2>1 DEF IInv, TypeOK
  <2>3. Control'
    BY <2>1 DEF IInv, Control, ArmedAsReached, ResultAsReached, UnlinkedAsArmed,
           TemporariesAsReached
  <2>4. OutputIsKnown' /\ StoreIsKnown'
    BY <2>1 DEF IInv, OutputIsKnown, OutputIsUnlinked, StoreIsKnown, Committed, Alone, AtPath
  <2> QED BY <2>2, <2>3, <2>4 DEF IInv
<1> QED
  BY <1>1, <1>2, <1>3, <1>4, <1>5, <1>6, <1>7, <1>8, <1>9, <1>10, <1>11, <1>12, <1>13,
     <1>14, <1>15, <1>16, <1>17, <1>18, <1>19, <1>20, <1>21, <1>22,
     <1>23 DEF Next, Step, AllEnded

(***************************************************************************)
(* The theorems                                                            *)
(***************************************************************************)

\* The invariant holds in every reachable state of commands on one database.
THEOREM Invariance == Spec => []IInv
<1> QED BY InitHolds, StepHolds, PTL DEF Spec

\* Type correctness.
THEOREM TypeCorrect == Spec => []TypeOK
<1>1. IInv => TypeOK
  BY DEF IInv
<1> QED BY <1>1, Invariance, PTL

\* A command alone on its database is all or nothing: whatever else is refused,
\* fails or is killed, and however many faults there are.
THEOREM RollbackIsWhole == Spec => []AllOrNothing
<1>1. IInv => AllOrNothing
  <2> SUFFICES ASSUME IInv, NEW p \in Procs, pc[p] = "done",
                      result[p] \in {"refused", "failed"}, Alone(p)
               PROVE  output[p] = found.output[p] /\ AtPath = found.db
    BY DEF AllOrNothing
  <2>1. output[p] = found.output[p]
    BY DEF IInv, OutputIsKnown, OutputIsUnlinked
  <2>2. AtPath = found.db
    <3>1. CASE "db" \in started[p]
      BY <3>1 DEF IInv, Control, ResultAsReached, UnlinkedAsArmed, StoreIsKnown
    <3>2. CASE "db" \notin started[p]
      BY <3>2 DEF IInv, Control, ArmedAsReached, StoreIsKnown, Alone
    <3> QED BY <3>1, <3>2
  <2> QED BY <2>1, <2>2
<1> QED BY <1>1, Invariance, PTL

\* A reported success is whole until another command's rollback unlinks the file.
THEOREM SuccessHolds == Spec => []SuccessIsWhole
<1>1. IInv => SuccessIsWhole
  <2> SUFFICES ASSUME IInv, NEW p \in Procs, result[p] = "success"
               PROVE  /\ "output" \in args[p] => output[p] = "new"
                      /\ "db" \in args[p] /\ restored \subseteq {p} =>
                           path # None /\ p \in AtPath.saved
    BY DEF SuccessIsWhole
  <2>1. "output" \in args[p] => output[p] = "new"
    BY DEF IInv, OutputIsKnown
  <2>2. p \notin restored
    BY DEF IInv, Control, UnlinkedAsArmed
  <2>3. restored \subseteq {p} => restored = {}
    BY <2>2
  <2> QED BY <2>1, <2>3 DEF IInv, StoreIsKnown, Committed
<1> QED BY <1>1, Invariance, PTL

\* Of a command alone on its database only a rollback can separate the published
\* output from its stored result.
THEOREM OutputIsBacked == Spec => []OutputFollowsStore
<1>1. IInv => OutputFollowsStore
  <2> SUFFICES ASSUME IInv, NEW p \in Procs, output[p] = "new", "db" \in args[p], Alone(p)
               PROVE  \/ path # None /\ p \in AtPath.saved
                      \/ /\ p \in restored
                         /\ \/ pc[p] \in {"restore_copy", "restore_output", "crashed"}
                            \/ result[p] = "unrepaired"
    BY DEF OutputFollowsStore
  <2>1. restored \subseteq {p}
    BY DEF IInv, TypeOK, Control, UnlinkedAsArmed, ArmedAsReached, Alone
  <2>2. CASE restored = {}
    BY <2>2 DEF IInv, StoreIsKnown, Committed
  <2>3. CASE p \in restored
    BY <2>3 DEF IInv, Control, UnlinkedAsArmed, OutputIsKnown
  <2> QED BY <2>1, <2>2, <2>3
<1> QED BY <1>1, Invariance, PTL

\* What the database held, and the earlier output of a command that did not
\* succeed, are lost by nothing but a rollback that itself fails, and a command
\* that was not killed leaves no copy behind.
THEOREM CopiesHold == Spec => []CopiesLastAsNeeded
<1>1. IInv => CopiesLastAsNeeded
  <2> SUFFICES ASSUME IInv, NEW p \in Procs
               PROVE  /\ pc[p] = "done" => p \notin staged \cup scratch
                      /\ "db" \in args[p] /\ Alone(p) /\ found.db # None =>
                           \/ path # None /\ Earlier \in AtPath.saved
                           \/ p \in scratch /\ backup[p].db = found.db
                           \/ result[p] = "unrepaired"
                      /\ found.output[p] = "old" =>
                           \/ output[p] = "old"
                           \/ p \in scratch /\ backup[p].output = "old"
                           \/ result[p] \in {"success", "unrepaired"}
    BY DEF CopiesLastAsNeeded
  <2>1. pc[p] = "done" => p \notin staged \cup scratch
    BY DEF IInv, Control, TemporariesAsReached
  <2>2. ASSUME "db" \in args[p], Alone(p), found.db # None, p \in restored,
               result[p] # "unrepaired"
        PROVE  \/ path # None /\ Earlier \in AtPath.saved
               \/ p \in scratch /\ backup[p].db = found.db
    <3>1. /\ "db" \in started[p] /\ found.db = FoundContent
          /\ backup[p].db = found.db
      BY <2>2 DEF IInv, Control, UnlinkedAsArmed, StoreIsKnown
    <3>2. CASE AtPath = found.db
      BY <2>2, <3>1, <3>2 DEF AtPath, FoundContent
    <3>3. CASE pc[p] = "restore_copy" \/ (pc[p] = "crashed" /\ p \in scratch)
      BY <2>2, <3>1, <3>3 DEF IInv, Control, TemporariesAsReached
    <3> QED BY <2>2, <3>1, <3>2, <3>3 DEF IInv, StoreIsKnown
  <2>3. ASSUME "db" \in args[p], Alone(p), found.db # None, p \notin restored
        PROVE  path # None /\ Earlier \in AtPath.saved
    <3>1. restored = {}
      BY <2>3 DEF IInv, TypeOK, Control, UnlinkedAsArmed, ArmedAsReached, Alone
    <3> QED BY <2>3, <3>1 DEF IInv, StoreIsKnown
  <2>4. ASSUME found.output[p] = "old", output[p] # "old",
               result[p] \notin {"success", "unrepaired"}
        PROVE  p \in scratch /\ backup[p].output = "old"
    <3>1. /\ "output" \in started[p] /\ "output" \in args[p]
          /\ pc[p] \in {"print", "crashed"} \cup RestoreStages
      BY <2>4 DEF IInv, TypeOK, Control, ArmedAsReached, OutputIsKnown, OutputIsUnlinked
    <3> QED BY <2>4, <3>1 DEF IInv, Control, TemporariesAsReached, OutputIsKnown
  <2> QED BY <2>1, <2>2, <2>3, <2>4
<1> QED BY <1>1, Invariance, PTL
=============================================================================
