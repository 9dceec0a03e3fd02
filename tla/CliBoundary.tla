---------------------------- MODULE CliBoundary ----------------------------
(***************************************************************************)
(* "run --case-source-manifest" and "replay --case-source-manifest"        *)
(* (cli.py): processes that each store one result in a shared database     *)
(* file and publish it in an output file of their own, and that undo both  *)
(* when anything fails.                                                    *)
(*                                                                         *)
(* The undo is file level: the database is copied before it is opened, and *)
(* on failure it is unlinked and the copy is put back.  A connection keeps *)
(* the file it opened, so the files are told apart from the path here.     *)
(***************************************************************************)
EXTENDS Naturals, FiniteSets

CONSTANTS
  Procs,      \* processes, each executing one command
  Earlier,    \* what the database held before all of them
  None,       \* no file, nobody
  MaxFaults   \* bound on the faults and crashes of a behaviour

\* A database file, by how it came to be.
File == [origin : {"found", "opened", "restored"}, by : Procs \cup {None}]
FoundFile == [origin |-> "found", by |-> None]
OpenedBy(p) == [origin |-> "opened", by |-> p]
RestoredBy(p) == [origin |-> "restored", by |-> p]

ASSUME BoundaryAssumption ==
  /\ Earlier \notin Procs
  /\ None \notin Procs \cup File
  /\ MaxFaults \in Nat

\* "partial" is any point between the first and the last CREATE TABLE.
Content == [schema : {"none", "partial", "a08"}, saved : SUBSET (Procs \cup {Earlier})]
EmptyFile == [schema |-> "none", saved |-> {}]
FoundContent == [schema |-> "a08", saved |-> {Earlier}]

OutputState == {"absent", "old", "new"}

VARIABLES
  path,     \* the file at the --db path, or None
  stored,   \* the committed content of every file
  lock,     \* the process that holds each file's write lock, or None
  output,   \* what is at each process's --output path
  args,     \* which of --db and --output each process was given
  pc,       \* where each process is
  handle,   \* the file each process's connection opened, or None
  seen,     \* what each process's verification read its audit log from
  backup,   \* the copies each process made for its rollback
  started,  \* which rollbacks are armed: database_write_started and
            \* output_promotion_started
  staged,   \* the processes whose temporary output file exists
  scratch,  \* the processes whose rollback directory exists
  result,   \* how each command ended
  found,    \* history: the database and the outputs before all commands
  restored, \* history: the processes that unlinked the database
  faults    \* number of faults so far, bounded by MaxFaults

disk == <<path, stored, lock>>
connection == <<handle, seen>>
rollback == <<backup, started>>
temporaries == <<staged, scratch>>
given == <<args, found>>
vars == <<disk, connection, rollback, temporaries, given, output, pc, result,
          restored, faults>>

AtPath == IF path = None THEN None ELSE stored[path]

TryStages == {"stage", "snapshot", "open", "create", "finish", "save", "commit",
              "verify", "verifying", "promote", "replace", "print"}
RestoreStages == {"restore_unlink", "restore_copy", "restore_output",
                  "restore_output_copy"}
Stages == {"check", "evaluate", "cleanup", "done", "crashed"}
            \cup TryStages \cup RestoreStages

\* Type invariant of the files, of each command and of what it has armed.
TypeOK ==
  /\ path \in File \cup {None}
  /\ stored \in [File -> Content]
  /\ lock \in [File -> Procs \cup {None}]
  /\ output \in [Procs -> OutputState]
  /\ args \in [Procs -> SUBSET {"db", "output"}]
  /\ pc \in [Procs -> Stages]
  /\ handle \in [Procs -> File \cup {None}]
  /\ seen \in [Procs -> Content]
  /\ backup \in [Procs -> [db : Content \cup {None}, output : OutputState]]
  /\ started \in [Procs -> SUBSET {"db", "output"}]
  /\ staged \subseteq Procs
  /\ scratch \subseteq Procs
  /\ result \in [Procs -> {"none", "success", "refused", "failed", "unrepaired"}]
  /\ found \in [db : Content \cup {None}, output : [Procs -> OutputState]]
  /\ restored \subseteq Procs
  /\ faults \in 0..MaxFaults

\* The database and the outputs may exist already; an existing database has the
\* A08 schema, the others are refused before anything is read.
Init ==
  /\ path \in {FoundFile, None}
  /\ stored = [f \in File |-> IF f = FoundFile THEN FoundContent ELSE EmptyFile]
  /\ lock = [f \in File |-> None]
  /\ output \in [Procs -> {"absent", "old"}]
  /\ args \in [Procs -> SUBSET {"db", "output"}]
  /\ pc = [p \in Procs |-> "check"]
  /\ handle = [p \in Procs |-> None]
  /\ seen = [p \in Procs |-> EmptyFile]
  /\ backup = [p \in Procs |-> [db |-> None, output |-> "absent"]]
  /\ started = [p \in Procs |-> {}]
  /\ staged = {}
  /\ scratch = {}
  /\ result = [p \in Procs |-> "none"]
  /\ found = [db |-> AtPath, output |-> output]
  /\ restored = {}
  /\ faults = 0

(***************************************************************************)
(* Control                                                                 *)
(***************************************************************************)

GoTo(p, s) == pc' = [pc EXCEPT ![p] = s]

AfterDatabaseRestore(p) ==
  IF "output" \in started[p] THEN "restore_output" ELSE "cleanup"

\* An exception in the try block: "with" closes the connection, which rolls its
\* transaction back, and the handler undoes what is armed.
Fail(p) ==
  /\ GoTo(p, IF "db" \in started[p] THEN "restore_unlink" ELSE AfterDatabaseRestore(p))
  /\ result' = [result EXCEPT ![p] = "failed"]
  /\ lock' = [f \in File |-> IF lock[f] = p THEN None ELSE lock[f]]
  /\ UNCHANGED <<temporaries, rollback, connection, given, path, stored, output,
                 restored>>

(***************************************************************************)
(* The steps of a command                                                  *)
(***************************************************************************)

\* _require_existing_a08_store_before_raw_read: outside the try block.
RequireStore(p) ==
  /\ pc[p] = "check"
  /\ LET refused == "db" \in args[p] /\ path # None /\ AtPath.schema # "a08"
     IN  /\ GoTo(p, IF refused THEN "done" ELSE "evaluate")
         /\ result' = [result EXCEPT ![p] = IF refused THEN "failed" ELSE @]
  /\ UNCHANGED <<disk, temporaries, rollback, connection, given, output, restored,
                 faults>>

\* Invalid raw material, a run that does not pass, a blocked replay and one
\* without a baseline end here.
Evaluate(p) ==
  /\ pc[p] = "evaluate"
  /\ \/ GoTo(p, "stage") /\ UNCHANGED result
     \/ GoTo(p, "done") /\ result' = [result EXCEPT ![p] = "refused"]
  /\ UNCHANGED <<disk, temporaries, rollback, connection, given, output, restored,
                 faults>>

\* Variant: the new output is written in place.
StageInPlace(p) ==
  /\ pc[p] = "stage"
  /\ scratch' = IF args[p] = {} THEN scratch ELSE scratch \cup {p}
  /\ IF "output" \in args[p]
     THEN /\ backup' = [backup EXCEPT ![p].output = output[p]]
          /\ output' = [output EXCEPT ![p] = "new"]
     ELSE UNCHANGED <<backup, output>>
  /\ GoTo(p, IF "db" \in args[p] THEN "snapshot" ELSE "promote")
  /\ UNCHANGED <<disk, connection, given, started, staged, result, restored, faults>>

\* The rollback directory, a copy of the output, and the new output next to it.
StageOutput(p) ==
  /\ pc[p] = "stage"
  /\ scratch' = IF args[p] = {} THEN scratch ELSE scratch \cup {p}
  /\ IF "output" \in args[p]
     THEN /\ backup' = [backup EXCEPT ![p].output = output[p]]
          /\ staged' = staged \cup {p}
     ELSE UNCHANGED <<backup, staged>>
  /\ GoTo(p, IF "db" \in args[p] THEN "snapshot" ELSE "promote")
  /\ UNCHANGED <<disk, connection, given, output, started, result, restored, faults>>

\* Variant: database_write_started is not set.
SnapshotUnarmed(p) ==
  /\ pc[p] = "snapshot"
  /\ backup' = [backup EXCEPT ![p].db = AtPath]
  /\ GoTo(p, "open")
  /\ UNCHANGED <<disk, temporaries, connection, given, output, started, result,
                 restored, faults>>

\* The copy is not made under the database's lock.
SnapshotDatabase(p) ==
  /\ pc[p] = "snapshot"
  /\ backup' = [backup EXCEPT ![p].db = AtPath]
  /\ started' = [started EXCEPT ![p] = @ \cup {"db"}]
  /\ GoTo(p, "open")
  /\ UNCHANGED <<disk, temporaries, connection, given, output, result, restored,
                 faults>>

\* sqlite3.connect creates a missing file; a store without tables gets its
\* schema, a store with some of them is refused.
OpenStore(p) ==
  LET file == IF path = None THEN OpenedBy(p) ELSE path
  IN  /\ pc[p] = "open"
      /\ UNCHANGED faults
      /\ \/ /\ stored[file].schema # "partial"
            /\ path' = file
            /\ handle' = [handle EXCEPT ![p] = file]
            /\ GoTo(p, IF stored[file].schema = "none" THEN "create" ELSE "save")
            /\ UNCHANGED <<temporaries, rollback, given, stored, lock, output, seen,
                           result, restored>>
         \/ stored[file].schema = "partial" /\ Fail(p)

\* A write to a file that is no longer at its path is refused by SQLite.
Writable(p) == handle[p] = path

\* executescript: CREATE TABLE IF NOT EXISTS, each statement on its own.
CreateTables(p) ==
  /\ pc[p] = "create"
  /\ UNCHANGED faults
  /\ \/ /\ Writable(p)
        /\ stored' = [stored EXCEPT ![path].schema = IF @ = "none" THEN "partial" ELSE @]
        /\ GoTo(p, "finish")
        /\ UNCHANGED <<temporaries, rollback, connection, given, path, lock, output,
                       result, restored>>
     \/ ~Writable(p) /\ Fail(p)

\* The A08 tables are created without IF NOT EXISTS: of two processes that
\* found the same empty file, the second fails.
FinishSchema(p) ==
  /\ pc[p] = "finish"
  /\ UNCHANGED faults
  /\ \/ /\ Writable(p)
        /\ AtPath.schema = "partial"
        /\ stored' = [stored EXCEPT ![path].schema = "a08"]
        /\ GoTo(p, "save")
        /\ UNCHANGED <<temporaries, rollback, connection, given, path, lock, output,
                       result, restored>>
     \/ /\ \/ ~Writable(p)
           \/ stored[handle[p]].schema # "partial"
           \/ \E q \in Procs \ {p} : pc[q] = "finish" /\ handle[q] = handle[p]
        /\ Fail(p)

\* The first INSERT takes the write lock, or finds it taken until the busy
\* timeout.
BeginSave(p) ==
  /\ pc[p] = "save"
  /\ UNCHANGED faults
  /\ \/ /\ Writable(p)
        /\ lock[path] = None
        /\ lock' = [lock EXCEPT ![path] = p]
        /\ GoTo(p, "commit")
        /\ UNCHANGED <<temporaries, rollback, connection, given, path, stored,
                       output, result, restored>>
     \/ /\ ~Writable(p) \/ lock[handle[p]] # None
        /\ Fail(p)

CommitSave(p) ==
  /\ pc[p] = "commit"
  /\ UNCHANGED faults
  /\ \/ /\ Writable(p)
        /\ stored' = [stored EXCEPT ![path].saved = @ \cup {p}]
        /\ lock' = [lock EXCEPT ![path] = None]
        /\ GoTo(p, "verify")
        /\ UNCHANGED <<temporaries, rollback, connection, given, path, output,
                       result, restored>>
     \/ ~Writable(p) /\ Fail(p)

\* verify_audit_chain after the commit: the audit log, then the rows it names.
ReadAuditLog(p) ==
  /\ pc[p] = "verify"
  /\ seen' = [seen EXCEPT ![p] = stored[handle[p]]]
  /\ GoTo(p, "verifying")
  /\ UNCHANGED <<disk, temporaries, rollback, given, output, handle, result,
                 restored, faults>>

VerifyStore(p) ==
  /\ pc[p] = "verifying"
  /\ UNCHANGED faults
  /\ \/ /\ stored[handle[p]] = seen[p]
        /\ GoTo(p, "promote")
        /\ UNCHANGED <<disk, temporaries, rollback, connection, given, output,
                       result, restored>>
     \/ stored[handle[p]] # seen[p] /\ Fail(p)

\* Variant: the output is promoted only when there is no database.
PromoteOutputOnly(p) ==
  /\ pc[p] = "promote"
  /\ IF args[p] = {"output"}
     THEN started' = [started EXCEPT ![p] = @ \cup {"output"}] /\ GoTo(p, "replace")
     ELSE UNCHANGED started /\ GoTo(p, "print")
  /\ UNCHANGED <<disk, temporaries, connection, given, output, backup, result,
                 restored, faults>>

\* output_promotion_started is set before os.replace is called.
Promote(p) ==
  /\ pc[p] = "promote"
  /\ IF "output" \in args[p]
     THEN started' = [started EXCEPT ![p] = @ \cup {"output"}] /\ GoTo(p, "replace")
     ELSE UNCHANGED started /\ GoTo(p, "print")
  /\ UNCHANGED <<disk, temporaries, connection, given, output, backup, result,
                 restored, faults>>

ReplaceOutput(p) ==
  /\ pc[p] = "replace"
  /\ output' = [output EXCEPT ![p] = "new"]
  /\ staged' = staged \ {p}
  /\ GoTo(p, "print")
  /\ UNCHANGED <<disk, rollback, connection, given, scratch, result, restored, faults>>

PrintSuccess(p) ==
  /\ pc[p] = "print"
  /\ result' = [result EXCEPT ![p] = "success"]
  /\ GoTo(p, "cleanup")
  /\ UNCHANGED <<disk, temporaries, rollback, connection, given, output, restored,
                 faults>>

(***************************************************************************)
(* The rollback                                                            *)
(***************************************************************************)

RestoreUnlink(p) ==
  /\ pc[p] = "restore_unlink"
  /\ path' = None
  /\ restored' = restored \cup {p}
  /\ GoTo(p, "restore_copy")
  /\ UNCHANGED <<temporaries, rollback, connection, given, stored, lock, output,
                 result, faults>>

\* Variant: the copy is moved back, whether there is one or not.
RestoreByMove(p) ==
  LET file == IF path = None THEN RestoredBy(p) ELSE path
  IN  /\ pc[p] = "restore_copy"
      /\ path' = file
      /\ stored' = [stored EXCEPT ![file] = backup[p].db]
      /\ GoTo(p, AfterDatabaseRestore(p))
      /\ UNCHANGED <<temporaries, rollback, connection, given, lock, output, result,
                     restored, faults>>

\* copy2 writes into whatever file is at the path by now.
RestoreCopy(p) ==
  LET file == IF path = None THEN RestoredBy(p) ELSE path
  IN  /\ pc[p] = "restore_copy"
      /\ IF backup[p].db = None
         THEN UNCHANGED <<path, stored>>
         ELSE path' = file /\ stored' = [stored EXCEPT ![file] = backup[p].db]
      /\ GoTo(p, AfterDatabaseRestore(p))
      /\ UNCHANGED <<temporaries, rollback, connection, given, lock, output, result,
                     restored, faults>>

\* The output is unlinked, if there is one, ...
UnlinkOutput(p) ==
  /\ pc[p] = "restore_output"
  /\ output' = [output EXCEPT ![p] = "absent"]
  /\ GoTo(p, "restore_output_copy")
  /\ UNCHANGED <<disk, temporaries, rollback, connection, given, result, restored,
                 faults>>

\* ... and its copy is put back, if one was made: "absent" is the copy of none.
RestoreOutput(p) ==
  /\ pc[p] = "restore_output_copy"
  /\ output' = [output EXCEPT ![p] = backup[p].output]
  /\ GoTo(p, "cleanup")
  /\ UNCHANGED <<disk, temporaries, rollback, connection, given, result, restored,
                 faults>>

\* Variant: only the rollback directory is removed.
CleanUpScratch(p) ==
  /\ pc[p] = "cleanup"
  /\ scratch' = scratch \ {p}
  /\ GoTo(p, "done")
  /\ UNCHANGED <<disk, rollback, connection, given, output, staged, result, restored,
                 faults>>

\* The finally block.
CleanUp(p) ==
  /\ pc[p] = "cleanup"
  /\ staged' = staged \ {p}
  /\ scratch' = scratch \ {p}
  /\ GoTo(p, "done")
  /\ UNCHANGED <<disk, rollback, connection, given, output, result, restored, faults>>

(***************************************************************************)
(* Faults                                                                  *)
(***************************************************************************)

\* An I/O error, an injected fault or an interrupt inside the try block.
Fault(p) ==
  /\ pc[p] \in TryStages
  /\ faults < MaxFaults
  /\ faults' = faults + 1
  /\ Fail(p)

\* The handler itself fails: what is left of it is skipped, and the finally
\* block removes the copies.
RestoreFault(p) ==
  /\ pc[p] \in RestoreStages
  /\ faults < MaxFaults
  /\ faults' = faults + 1
  /\ result' = [result EXCEPT ![p] = "unrepaired"]
  /\ GoTo(p, "cleanup")
  /\ UNCHANGED <<disk, temporaries, rollback, connection, given, output, restored>>

\* The process is killed: no handler runs, SQLite drops the transaction.
Crash(p) ==
  /\ pc[p] \notin {"done", "crashed"}
  /\ faults < MaxFaults
  /\ faults' = faults + 1
  /\ GoTo(p, "crashed")
  /\ lock' = [f \in File |-> IF lock[f] = p THEN None ELSE lock[f]]
  /\ UNCHANGED <<temporaries, rollback, connection, given, path, stored, output,
                 result, restored>>

Step(p) ==
  \/ RequireStore(p) \/ Evaluate(p) \/ StageOutput(p) \/ SnapshotDatabase(p)
  \/ OpenStore(p) \/ CreateTables(p) \/ FinishSchema(p)
  \/ BeginSave(p) \/ CommitSave(p) \/ ReadAuditLog(p) \/ VerifyStore(p)
  \/ Promote(p) \/ ReplaceOutput(p) \/ PrintSuccess(p)
  \/ RestoreUnlink(p) \/ RestoreCopy(p)
  \/ UnlinkOutput(p) \/ RestoreOutput(p) \/ CleanUp(p)

Ended(p) == pc[p] \in {"done", "crashed"}
AllEnded == (\A p \in Procs : Ended(p)) /\ UNCHANGED vars

Next == AllEnded \/ \E p \in Procs : Step(p) \/ Fault(p) \/ RestoreFault(p) \/ Crash(p)

Spec == Init /\ [][Next]_vars

(***************************************************************************)
(* Properties                                                              *)
(***************************************************************************)

\* No other process uses the database.
Alone(p) == \A q \in Procs \ {p} : "db" \notin args[q]

\* A command that is refused or fails leaves the database and the output as it
\* found them, wherever it failed, unless its rollback was itself cut short.
AllOrNothing ==
  \A p \in Procs :
    pc[p] = "done" /\ result[p] \in {"refused", "failed"} /\ Alone(p) =>
      output[p] = found.output[p] /\ AtPath = found.db

\* A command that reports success has published its output, and its result is
\* in the database unless another process's rollback has unlinked that since.
SuccessIsWhole ==
  \A p \in Procs :
    result[p] = "success" =>
      /\ "output" \in args[p] => output[p] = "new"
      /\ "db" \in args[p] /\ restored \subseteq {p} =>
           path # None /\ p \in AtPath.saved

\* A published output is backed by the database at every instant and wherever
\* the process is killed, except inside its own rollback: between the unlink
\* and the restored output, where a kill or a second failure leaves it so.
OutputFollowsStore ==
  \A p \in Procs :
    output[p] = "new" /\ "db" \in args[p] /\ Alone(p) =>
      \/ path # None /\ p \in AtPath.saved
      \/ /\ p \in restored
         /\ \/ pc[p] \in {"restore_copy", "restore_output", "crashed"}
            \/ result[p] = "unrepaired"

\* The copies are there as long as they are needed and no longer.  What the
\* database held before the command is at its path or in the rollback directory,
\* and so is the earlier output until the command succeeds, even when the process
\* is killed: only a rollback that itself fails can lose them.  No temporary
\* output and no copy outlives a command that was not killed.
CopiesLastAsNeeded ==
  \A p \in Procs :
    /\ pc[p] = "done" => p \notin staged \cup scratch
    /\ "db" \in args[p] /\ Alone(p) /\ found.db # None =>
         \/ path # None /\ Earlier \in AtPath.saved
         \/ p \in scratch /\ backup[p].db = found.db
         \/ result[p] = "unrepaired"
    /\ found.output[p] = "old" =>
         \/ output[p] = "old"
         \/ p \in scratch /\ backup[p].output = "old"
         \/ result[p] \in {"success", "unrepaired"}

\* What the tests expect of exit code 0: the run is in the database,
\* "assert store.counts()["runs"] == 1".
SuccessIsStored ==
  \A p \in Procs :
    result[p] = "success" /\ "db" \in args[p] => path # None /\ p \in AtPath.saved
=============================================================================
