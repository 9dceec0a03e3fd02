---------------------------- MODULE ReplayStore ----------------------------
(***************************************************************************)
(* The operational store (store.py): several connections save cases, runs  *)
(* and native replays in one SQLite database.                              *)
(*                                                                         *)
(* A SELECT made before the first write of a transaction reads whatever is *)
(* committed at that moment, so the checks a call makes before its first   *)
(* INSERT are separate steps here.  From the first INSERT to the commit    *)
(* the connection holds the database's one write lock and works on a copy  *)
(* nobody else sees.                                                       *)
(***************************************************************************)
EXTENDS ReplayCases, Naturals

CONSTANTS
  Conns,         \* connections, each used by one thread of one process
  SavableCases,  \* the arguments clients give save_case
  SavableRuns,   \* ... save_run
  Replays,       \* ... save_native_replay
  MaxCalls       \* bound on the calls of a behaviour, for TLC

\* The replays are results of the replay workflow: their artifact set replaces
\* the revisions their case holds.  save_run recomputes the run it is given
\* with SOURCE-phase evidence, so it never stores an after run.
ASSUME CallsAssumption ==
  /\ None \notin Conns
  /\ SavableCases \subseteq Case
  /\ SavableRuns \subseteq {r \in Run : /\ r.lane \in {"PLAIN", "REFERENCED"}
                                        /\ r.lane = "PLAIN" => r.evidence = None}
  /\ Replays \subseteq {q \in Replay : Fits(q.case, q.artifacts)}
  /\ MaxCalls \in Nat

Call == [op : {"save_case"}, arg : SavableCases]
          \cup [op : {"save_run"}, arg : SavableRuns]
          \cup [op : {"save_replay"}, arg : Replays]

(***************************************************************************)
(* The database.  Each field is a table, or a group of tables written by   *)
(* the same statement sequence: ledger stands for replay_ledger and        *)
(* replay_validation_bindings, subjects for approval_subjects and          *)
(* approval_assertions, consumptions for approval_consumptions,            *)
(* replay_approval_expectations and the authenticity bindings.             *)
(***************************************************************************)

Database ==
  [cases          : SUBSET Case,
   runs           : SUBSET Run,
   referenceLinks : SUBSET Run,      \* run_reference_sets
   unbound        : SUBSET Run,      \* run_case_source_sets, UNBOUND rows
   admissions     : SUBSET Replays,
   ledger         : SUBSET Replays,
   subjects       : SUBSET Subject,
   consumptions   : SUBSET Replays,
   baselines      : SUBSET Run]      \* baselines, by source_run_id

EmptyDatabase ==
  [cases |-> {}, runs |-> {}, referenceLinks |-> {}, unbound |-> {},
   admissions |-> {}, ledger |-> {}, subjects |-> {}, consumptions |-> {},
   baselines |-> {}]

\* The replays whose before or after run has the run_id of r.
LinkedTo(d, r) == {q \in d.admissions : r \in {BeforeRun(q), AfterRun(q)}}

(***************************************************************************)
(* verify_audit_chain: the semantic half.  Its other half, that the hash   *)
(* chain names every row exactly once, is the subject of AuditChain.       *)
(***************************************************************************)

\* Every row is audited and a case is registered before anything else refers
\* to it: an empty audit log is a store without cases.
HasAudit(d) == d.cases # {}

\* Variant: any of several admissions vouches for a run.
RunIsValidForSome(d, r) ==
  \/ LinkedTo(d, r) # {} /\ r \notin d.referenceLinks
  \/ /\ LinkedTo(d, r) = {}
     /\ r \in d.unbound
     /\ r.case \in d.cases
     /\ r.lane = "REFERENCED" <=> r \in d.referenceLinks
     /\ r.lane # "RESOLVED"

RunIsValid(d, r) ==
  \/ /\ LinkedTo(d, r) # {}
     /\ \A p, q \in LinkedTo(d, r) : p = q
     /\ r \notin d.referenceLinks
  \/ /\ LinkedTo(d, r) = {}
     /\ r \in d.unbound
     /\ r.case \in d.cases
     /\ r.lane = "REFERENCED" <=> r \in d.referenceLinks
     /\ r.lane # "RESOLVED"

ReferenceLinkIsValid(d, r) == r \in d.runs /\ LinkedTo(d, r) = {}

AdmissionIsValid(d, q) ==
  /\ {q.case, ResolvedCase(q)} \subseteq d.cases
  /\ {BeforeRun(q), AfterRun(q)} \subseteq d.runs
  /\ HasBaseline(q) => AfterRun(q) \in d.baselines
  /\ SubjectOf(q) \in d.subjects

RowsAreValid(d) ==
  /\ \A r \in d.runs : RunIsValid(d, r)
  /\ \A r \in d.referenceLinks : ReferenceLinkIsValid(d, r)
  /\ \A q \in d.admissions : AdmissionIsValid(d, q)

\* Every unbound run that no admission owns has its UNBOUND row, and only those.
CaseSourceCoverage(d) == d.unbound = {r \in d.runs : LinkedTo(d, r) = {}}

Applied(d) == {c \in d.cases : c.applied # None}

Cohort(q) == <<q.resolution, q.artifacts, AfterRun(q)>>

\* "After-case facts, ledger rows, and admissions must close exactly."
ReplayCoverage(d) ==
  /\ \A c \in Applied(d) :
       /\ \E a \in ArtifactSets : ArtifactSetsOf(c) = {a}
       /\ \E q \in d.ledger : /\ ResolvedCase(q) = c
                              /\ q.resolution = c.applied
                              /\ RunIsValid(d, AfterRun(q))
                              /\ \A p \in d.ledger : ResolvedCase(p) = c => p = q
  /\ \A q \in d.ledger : /\ ResolvedCase(q) \in Applied(d)
                         /\ ArtifactSetsOf(ResolvedCase(q)) = {q.artifacts}
  /\ \A p, q \in d.ledger : Cohort(p) = Cohort(q) => p = q
  /\ d.ledger = d.admissions

\* Every approval sidecar belongs to an admitted replay.
NativeApprovalCoverage(d) ==
  /\ d.consumptions = d.admissions
  /\ d.subjects = {SubjectOf(q) : q \in d.consumptions}
  /\ d.baselines = {AfterRun(q) : q \in {p \in d.consumptions : HasBaseline(p)}}

CoverageIsComplete(d) ==
  CaseSourceCoverage(d) /\ ReplayCoverage(d) /\ NativeApprovalCoverage(d)

Verifies(d) == HasAudit(d) /\ RowsAreValid(d) /\ CoverageIsComplete(d)

(***************************************************************************)
(* What the writing statements do to the database: INSERT OR IGNORE.       *)
(***************************************************************************)

WithCase(d, c) == [d EXCEPT !.cases = @ \cup {c}]

\* _save_run, the controlled-reference link and the UNBOUND row.
WithRun(d, r) ==
  [d EXCEPT !.runs = @ \cup {r},
            !.unbound = @ \cup {r},
            !.referenceLinks = IF r.lane = "REFERENCED" THEN @ \cup {r} ELSE @]

\* Variant: a run that is stored already is joined as a standalone run.
WithReplayRunsJoined(d, q) ==
  [d EXCEPT !.cases   = @ \cup {ResolvedCase(q)},
            !.unbound = @ \cup ({BeforeRun(q)} \cap d.runs),
            !.runs    = @ \cup {BeforeRun(q), AfterRun(q)}]

\* Up to fault point "after_runs": the resolved case and the two runs.
WithReplayRuns(d, q) ==
  [d EXCEPT !.cases = @ \cup {ResolvedCase(q)},
            !.runs  = @ \cup {BeforeRun(q), AfterRun(q)}]

\* Variant: the subject is stored with the evidence of the replay.
WithApprovalOfEvidence(d, q) == [d EXCEPT !.subjects = @ \cup {q}]

\* Up to "after_native_approvals": the approval subject and its assertions.
WithApproval(d, q) == [d EXCEPT !.subjects = @ \cup {SubjectOf(q)}]

\* Variant: a baseline is stored whether or not the after run passes.
WithAdmissionAndBaseline(d, q) ==
  [d EXCEPT !.baselines    = @ \cup {AfterRun(q)},
            !.admissions   = @ \cup {q},
            !.ledger       = @ \cup {q},
            !.consumptions = @ \cup {q}]

\* Up to "after_replay_admission": baseline, admission, authenticity binding,
\* ledger, validation binding, consumption and expectation.
WithAdmission(d, q) ==
  [d EXCEPT !.baselines    = IF HasBaseline(q) THEN @ \cup {AfterRun(q)} ELSE @,
            !.admissions   = @ \cup {q},
            !.ledger       = @ \cup {q},
            !.consumptions = @ \cup {q}]

WithReplay(d, q) == WithAdmission(WithApproval(WithReplayRuns(d, q), q), q)

(***************************************************************************)
(* The refusals inside a replay's transaction.                             *)
(***************************************************************************)

\* existing_admission differs from the one being saved.
AdmissionConflicts(d, q) ==
  \E p \in d.admissions : SameAdmissionKey(p, q) /\ p # q

\* Variant: only the subject's own row is looked up, its nonce is not UNIQUE.
SubjectConflictsUnchecked(d, q) == FALSE

\* approval_subjects.execution_nonce is UNIQUE.
SubjectConflicts(d, q) ==
  \E s \in d.subjects : s.nonce = q.nonce /\ s # SubjectOf(q)

\* after_case_hash and after_run_id are UNIQUE in the ledger and the bindings.
LedgerConflicts(d, q) ==
  \E p \in d.ledger : ResolvedCase(p) = ResolvedCase(q) /\ p # q

\* Variant: reference links are looked up only before the transaction.
ReplayPreflightWithoutLinks(d, q) ==
  AdmissionIsValid(d, q) /\ q \in d.ledger \cap d.consumptions

\* The last check before the commit compares the rows of this replay and its
\* raw audit; it does not verify the store's other rows.
ReplayPreflight(d, q) ==
  /\ AdmissionIsValid(d, q)
  /\ q \in d.ledger \cap d.consumptions
  /\ {BeforeRun(q), AfterRun(q)} \cap d.referenceLinks = {}

(***************************************************************************)
(* The connections                                                         *)
(***************************************************************************)

VARIABLES
  db,      \* the committed database
  tx,      \* the lock holder's uncommitted copy; equal to db when there is none
  holder,  \* the connection that holds the write lock, or None
  pc,      \* where each connection is in its call
  call,    \* the call each connection executes, or None
  seen,    \* the database each connection's verification read its audit log from
  acked,   \* history: the replays some save_native_replay returned success for
  calls    \* number of calls made so far, bounded by MaxCalls

vars == <<db, tx, holder, pc, call, seen, acked, calls>>

Transaction == {"stage", "approve", "admit", "preflight", "commit"}
Stages == {"idle", "registered", "audit", "rows", "coverage", "links", "begin",
           "return"} \cup Transaction

\* Type invariant of the tables, the working copy and the stage of each call.
TypeOK ==
  /\ db \in Database
  /\ tx \in Database
  /\ holder \in Conns \cup {None}
  /\ pc \in [Conns -> Stages]
  /\ call \in [Conns -> Call \cup {None}]
  /\ seen \in [Conns -> Database]
  /\ acked \subseteq Replays
  /\ calls \in 0..MaxCalls

Init ==
  /\ db = EmptyDatabase
  /\ tx = EmptyDatabase
  /\ holder = None
  /\ pc = [c \in Conns |-> "idle"]
  /\ call = [c \in Conns |-> None]
  /\ seen = [c \in Conns |-> EmptyDatabase]
  /\ acked = {}
  /\ calls = 0

Op(c) == call[c].op
Arg(c) == call[c].arg

\* A read-only step of connection c: on to stage s, or the call is refused.
Check(c, ok, s) ==
  /\ pc' = [pc EXCEPT ![c] = IF ok THEN s ELSE "idle"]
  /\ call' = [call EXCEPT ![c] = IF ok THEN @ ELSE None]

\* save_case has no checks; save_run starts with the verification; a replay
\* first looks up its case and the consumption of its subject.
FirstStage ==
  [save_case |-> "begin", save_run |-> "audit", save_replay |-> "registered"]

Start(c) ==
  /\ pc[c] = "idle"
  /\ calls < MaxCalls
  /\ \E k \in Call :
       /\ call' = [call EXCEPT ![c] = k]
       /\ pc' = [pc EXCEPT ![c] = FirstStage[k.op]]
  /\ calls' = calls + 1
  /\ UNCHANGED <<db, tx, holder, seen, acked>>

\* The exact pre-resolution case is registered, and no other replay has
\* consumed the approval subject.
ReadRegistered(c) ==
  /\ pc[c] = "registered"
  /\ Check(c, /\ Arg(c).case \in db.cases
              /\ \A p \in db.consumptions :
                   SubjectOf(p) = SubjectOf(Arg(c)) => p = Arg(c),
           "audit")
  /\ UNCHANGED <<db, tx, holder, seen, acked, calls>>

\* An empty audit log skips the verification; otherwise it is read first.
ReadAudit(c) ==
  /\ pc[c] = "audit"
  /\ pc' = [pc EXCEPT ![c] = IF HasAudit(db) THEN "rows" ELSE "links"]
  /\ seen' = [seen EXCEPT ![c] = db]
  /\ UNCHANGED <<db, tx, holder, call, acked, calls>>

\* Each audited row is read and checked, then the keys of all tables are
\* compared with the audited ones: any commit in between is a mismatch.
CheckRows(c) ==
  /\ pc[c] = "rows"
  /\ Check(c, db = seen[c] /\ RowsAreValid(db), "coverage")
  /\ seen' = [seen EXCEPT ![c] = EmptyDatabase]
  /\ UNCHANGED <<db, tx, holder, acked, calls>>

CheckCoverage(c) ==
  /\ pc[c] = "coverage"
  /\ Check(c, CoverageIsComplete(db), "links")
  /\ UNCHANGED <<db, tx, holder, seen, acked, calls>>

\* A run an admission owns gains no standalone reference link; a replay's runs
\* have none.  Both are read before the transaction's first write.
CheckLinks(c) ==
  /\ pc[c] = "links"
  /\ Check(c, IF Op(c) = "save_run"
              THEN Arg(c).lane = "PLAIN" \/ LinkedTo(db, Arg(c)) = {}
              ELSE {BeforeRun(Arg(c)), AfterRun(Arg(c))} \cap db.referenceLinks = {},
           "begin")
  /\ UNCHANGED <<db, tx, holder, seen, acked, calls>>

\* The first INSERT takes the write lock ...
BeginTransaction(c) ==
  /\ pc[c] = "begin"
  /\ holder = None
  /\ holder' = c
  /\ tx' = db
  /\ pc' = [pc EXCEPT ![c] = "stage"]
  /\ UNCHANGED <<db, call, seen, acked, calls>>

\* ... or finds it taken until the busy timeout: "database is locked".
BusyTimeout(c) ==
  /\ pc[c] = "begin"
  /\ holder # None
  /\ Check(c, FALSE, "begin")
  /\ UNCHANGED <<db, tx, holder, seen, acked, calls>>

\* Variant: the transaction of a failed call is left open.
RollbackKeepingLock(c) ==
  /\ pc' = [pc EXCEPT ![c] = "idle"]
  /\ call' = [call EXCEPT ![c] = None]
  /\ seen' = [seen EXCEPT ![c] = EmptyDatabase]
  /\ UNCHANGED <<db, tx, holder, acked, calls>>

\* Variant: a failed replay is reported as stored.
RollbackReported(c) ==
  /\ pc' = [pc EXCEPT ![c] = "idle"]
  /\ call' = [call EXCEPT ![c] = None]
  /\ holder' = IF holder = c THEN None ELSE holder
  /\ tx' = IF holder = c THEN db ELSE tx
  /\ seen' = [seen EXCEPT ![c] = EmptyDatabase]
  /\ acked' = IF Op(c) = "save_replay" THEN acked \cup {Arg(c)} ELSE acked
  /\ UNCHANGED <<db, calls>>

\* The call ends without a result: an exception leaves "with connection", or
\* the process dies and the next opener rolls the journal back.
Rollback(c) ==
  /\ pc' = [pc EXCEPT ![c] = "idle"]
  /\ call' = [call EXCEPT ![c] = None]
  /\ holder' = IF holder = c THEN None ELSE holder
  /\ tx' = IF holder = c THEN db ELSE tx
  /\ seen' = [seen EXCEPT ![c] = EmptyDatabase]
  /\ UNCHANGED <<db, acked, calls>>

\* A step inside the transaction: d is the new working copy, or the call is
\* refused and rolled back.
Write(c, ok, d, s) ==
  \/ /\ ok
     /\ tx' = d
     /\ pc' = [pc EXCEPT ![c] = s]
     /\ UNCHANGED <<db, holder, call, seen, acked, calls>>
  \/ ~ok /\ Rollback(c)

StageCase(c) ==
  /\ pc[c] = "stage" /\ Op(c) = "save_case"
  /\ Write(c, TRUE, WithCase(tx, Arg(c)), "commit")

StageRun(c) ==
  /\ pc[c] = "stage" /\ Op(c) = "save_run"
  /\ Write(c, Arg(c).case \in tx.cases, WithRun(tx, Arg(c)), "preflight")

StageReplayRuns(c) ==
  /\ pc[c] = "stage" /\ Op(c) = "save_replay"
  /\ Write(c, ~AdmissionConflicts(tx, Arg(c)), WithReplayRuns(tx, Arg(c)), "approve")

StageApproval(c) ==
  /\ pc[c] = "approve"
  /\ Write(c, ~SubjectConflicts(tx, Arg(c)), WithApproval(tx, Arg(c)), "admit")

StageAdmission(c) ==
  /\ pc[c] = "admit"
  /\ Write(c, ~LedgerConflicts(tx, Arg(c)), WithAdmission(tx, Arg(c)), "preflight")

\* Variant: save_run does not verify what it is about to commit.
FinalPreflightOfReplays(c) ==
  /\ pc[c] = "preflight"
  /\ Write(c, Op(c) = "save_replay" => ReplayPreflight(tx, Arg(c)), tx, "commit")

\* save_run verifies the whole transaction snapshot, a replay its own rows.
FinalPreflight(c) ==
  /\ pc[c] = "preflight"
  /\ Write(c, IF Op(c) = "save_run" THEN Verifies(tx) ELSE ReplayPreflight(tx, Arg(c)),
           tx, "commit")

Commit(c) ==
  /\ pc[c] = "commit"
  /\ db' = tx
  /\ holder' = None
  /\ pc' = [pc EXCEPT ![c] = "return"]
  /\ UNCHANGED <<tx, call, seen, acked, calls>>

Return(c) ==
  /\ pc[c] = "return"
  /\ acked' = IF Op(c) = "save_replay" THEN acked \cup {Arg(c)} ELSE acked
  /\ pc' = [pc EXCEPT ![c] = "idle"]
  /\ call' = [call EXCEPT ![c] = None]
  /\ UNCHANGED <<db, tx, holder, seen, calls>>

\* A fault, anywhere in a call, before or after its commit.
Abort(c) == pc[c] # "idle" /\ Rollback(c)

\* The steps a call takes on its own.
Step(c) ==
  \/ ReadRegistered(c) \/ ReadAudit(c) \/ CheckRows(c) \/ CheckCoverage(c)
  \/ CheckLinks(c) \/ BeginTransaction(c) \/ BusyTimeout(c)
  \/ StageCase(c) \/ StageRun(c) \/ StageReplayRuns(c) \/ StageApproval(c)
  \/ StageAdmission(c) \/ FinalPreflight(c) \/ Commit(c) \/ Return(c)

\* All clients have made their calls: the bound of the model, not a deadlock.
Finished ==
  /\ calls = MaxCalls
  /\ \A c \in Conns : pc[c] = "idle"
  /\ UNCHANGED vars

Next == Finished \/ \E c \in Conns : Start(c) \/ Step(c) \/ Abort(c)

Spec == Init /\ [][Next]_vars

\* A call that is executing goes on executing.
FairSpec == Spec /\ \A c \in Conns : WF_vars(Step(c))

(***************************************************************************)
(* Properties                                                              *)
(***************************************************************************)

\* An approval is good for one replay: no two admitted replays share their
\* subject, its nonce, or their admission key, whatever the order in which
\* connections check the consumption and write it.
SingleReplay ==
  \A p, q \in db.admissions :
    p.nonce = q.nonce \/ SameAdmissionKey(p, q) => p = q

\* A run an admission owns has no standalone reference link: save_run and
\* save_native_replay each look for the other's row before taking the lock.
NoStandaloneReference ==
  \A q \in db.admissions :
    {BeforeRun(q), AfterRun(q)} \cap db.referenceLinks = {}

\* A replay is committed whole: cases, runs, baseline, subject, ledger and
\* consumption are there for each admission, and no sidecar without one.
ReplayCloses ==
  /\ \A q \in db.admissions : AdmissionIsValid(db, q)
  /\ db.ledger = db.admissions
  /\ NativeApprovalCoverage(db)

\* Two admitted replays start from the same before run.
SharedBeforeRun(d) ==
  \E p, q \in d.admissions : p # q /\ BeforeRun(p) = BeforeRun(q)

\* A resolved case keeps documents from an earlier replay's artifact set.
SplitArtifacts(d) ==
  \E c \in Applied(d) : \E a, b \in ArtifactSetsOf(c) : a # b

\* A resolved case was registered without its replay.
OrphanCase(d) ==
  \E c \in Applied(d) : \A q \in d.admissions : ResolvedCase(q) # c

\* What the three writing operations can do to verify_audit_chain: a store they
\* wrote verifies exactly if it holds none of these three.
VerifiesExactly ==
  HasAudit(db) =>
    (Verifies(db) <=> ~ (SharedBeforeRun(db) \/ SplitArtifacts(db) \/ OrphanCase(db)))

\* The store implements ReplayLedger: each commit of a replay is the instant of
\* its admission, or changes nothing; a success reported is for good.
Ledger == INSTANCE ReplayLedger WITH admitted <- db.admissions
ImplementsLedger == Ledger!Spec

\* A retry of an admitted replay commits nothing new.
RetryChangesNothing ==
  [][\A c \in Conns :
       /\ pc[c] = "commit" /\ Op(c) = "save_replay" /\ Arg(c) \in db.admissions
       /\ pc'[c] = "return"
       => db' = db]_vars

\* The write lock is always given back, whatever becomes of the call that took
\* it: no connection keeps the others out for good.
LockIsReleased == \A c \in Conns : holder = c ~> holder # c

\* What the tests expect after a replay, and the operational reader of any
\* store needs: "assert store.verify_audit_chain()".
StoreVerifies == HasAudit(db) => Verifies(db)

=============================================================================
