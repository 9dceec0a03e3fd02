# QualityCI: a verification project in TLA+

QualityCI (`src/src/qualityci`) takes the quality documents of one case (FMEA,
control plan, work instruction, ...), evaluates seven rules over them, lets a
resolution be signed and applied, evaluates the resolved case again, and stores
all of it in one SQLite file whose every row is sealed in an audit chain.  What
the program promises is about that file: an approval is good for one replay, a
replay is stored whole or not at all, `verify_audit_chain()` says "intact" when
and only when it is, a command that fails leaves nothing behind.  All of this
has to hold while several processes share the file and any of them is killed.

Before anything is stored, the rules decide: a verdict of PASS must mean that the
documents agree and that every report, reference, waiver and approval is about the
case as it is now, whatever was edited or replaced on the way.

Between the two stand the approvals: signed records, assertions about one exact
state of the files, and validation reports that come after them.  In front of it all
is a demo, a page and a small threading server, which runs the rules and a team of four
roles over a catalog of faults and must neither mix up two runs nor hang.

The modules here model that.  TLC checks them on small instances, TLAPS proves the main
results about all of them for every instance.

## 1. Inventory

| Component | State it keeps | Operations | Modelled by |
|---|---|---|---|
| Store, native replays (`store.py`) | cases, runs, reference links, case-source rows, admissions, ledger, subjects, consumptions, baselines | `save_case`, `save_run`, `save_native_replay`, semantic half of `verify_audit_chain` | `ReplayStore` (+ `ReplayCases`), abstractly `ReplayLedger` |
| Store, audit chain (`store.py`) | `audit_events`: sequence, payload hash, previous hash | `_append_audit`, structural half of `verify_audit_chain` | `AuditChain` |
| Store, caches (`store.py`) | dictionaries of verdicts and contexts, while a verification runs | the cached `..._is_semantically_valid` lookups, `_stored_validation_context` | `VerificationCaches` |
| Store, schema (`store.py`) | the tables of the file | `__init__`, `_create_schema`, `migrate_a08_schema`, `feature_profile` | `StoreSchema` |
| Store, source-rooted runs (`store.py`, `case_source_assurance.py`) | source sets, lineages, locators | `save_source_run_from_bundles`, `save_native_replay_from_bundles`, `replay_from_verified_prior_run` | `SourceStore` (+ `ReplayCases`), abstractly `ReplayLedger` |
| Command line (`cli.py`) | a database file, an output file, copies of both | `run` and `replay` from source manifests, their rollback | `CliBoundary` |
| Workflow (`workflow.py`, `approval_subject.py`) | none: pure | apply a resolution, validate approvals, replay | `ApprovalWorkflow`; its results in `ReplayCases` |
| Revision artifacts (`revision_artifacts.py`) | none: pure | which document revisions a sealed set replaces, and the case and reference context it makes | `ReplayCases`, `ReferenceContext`, `RuleEngine`, `ApprovalWorkflow` |
| Rule engine (`engine.py`, `rules.py`, `impact.py`) | none: pure, on a case under edit | seven rules, overall status | `CaseRules`, `RuleEngine` |
| Authorization, trust (`authorization_*.py`) | none: pure | records and keys against a snapshot | `Authorization`, `ApprovalWorkflow` |
| References, validation evidence | none: pure | seal contexts, bind reports to a case; parse byte bundles | `ReferenceContext`, `CaseRules`, `ApprovalWorkflow`; parsing not modelled |
| Loader, benchmark (`loader.py`, `evaluation.py`) | none: pure | mutations, validation and migration of cases | `CaseRules`, `RuleEngine` |
| Orchestration (`orchestration.py`) | a trace of four events | four roles in sequence, validation of the result | `AgentTeam`, used by `WebDemo` |
| Case builder, ingestion | none: pure | CSV and office documents into cases | not modelled: data conversion |
| Demo server (`web_demo.py`) | 16 slots, a backlog, a thread per connection | accept, refuse, read, handle, release | `WebDemo` |
| Demo client (`app.js`) | catalog, selection, the binding to a run, the busy flag | run, source run, replay, `requestJSON` | `WebDemo` |
| Leader gateway, site, schemas, datasets | none | static answers and data | not modelled |

How they interact: the command line loads raw bundles, calls workflow and engine
(pure functions), opens a store on `--db` and calls one `save_...`; the store
recomputes everything it is given from the raw bytes with the same pure
functions, checks it against the rows it has and writes the new rows and their
audit events in one transaction; the command then verifies the store, moves its
output file in place and prints success.  Processes share nothing but the
database file, its lock and the paths.  The demo stores nothing: its server calls the
pure functions for each request, and its page keeps the id of the last run.

Hard behaviours, by component:

- *Replays.* Checks by SELECT before the transaction has the write lock; a
  retry of a call whose answer was lost; faults between groups of rows (the code
  itself has a `_fault_point` for each); long legal sequences that a later
  verification does not accept.
- *Audit chain.* A verification is many SELECTs with no transaction around
  them, so commits of others fall in between; rollbacks of half-written rows;
  rows edited behind the store.
- *Caches.* A verification keeps verdicts while others commit; a rollback of this
  connection changes neither `total_changes` nor `PRAGMA data_version`.
- *Schema.* `executescript` commits each CREATE TABLE on its own; openers race
  creators and migrators; `save_run` decides by a profile read earlier.
- *Rules.* Early returns, where one fault hides another; statements (reports,
  waivers, approvals, references) that outlive what they were made about;
  documents replaced one at a time.
- *Command line.* The undo is done on files, the store works with connections;
  an error after the commit undoes what is committed already.
- *Approvals.* Files edited between the calls, and statements handed in again
  that were made about another state of them; a loop over records with early
  returns and a status that is remembered until its end.
- *Demo.* Every way a connection can end has to give its slot back; answers that
  come late, not at all, or after the page has gone on.

## 2. Modules and the code they model

Hashes are ideal: a hash is the value it identifies, so two rows with the same
hash are the same row.  Bundles of bytes (evidence, artifact sets) are model
values.  What a pure check depends on only through them (that a signature is
good, that a run re-evaluates to what it claims) is assumed of the inputs: the
inputs are results the workflow really returns.

### ReplayCases

Values.  A case is its root, the resolution applied to it and, for each
document, the artifact set that last replaced it; `Resolved` is
`_resolved_case_from_context`, `Fits` the `supersedes` check of
`prepare_artifact_context`; `BeforeRun`, `AfterRun`, `SubjectOf` and
`HasBaseline` are what `_replay_attested_resolution` makes of a replay.

### ReplayStore

One database, one write lock, several connections.  A call goes through the
stages of the code:

| stage | code |
|---|---|
| `registered` | exact pre-resolution case, consumption of the subject (`save_native_replay`) |
| `audit`, `rows`, `coverage` | `verify_audit_chain()` before the transaction, skipped when the log is empty |
| `links` | the SELECT for the other call's rows |
| `begin` | the first INSERT: takes the lock or ends in "database is locked" |
| `stage`, `approve`, `admit` | the groups of rows, up to the fault points `after_runs`, `after_native_approvals`, `after_replay_admission` |
| `preflight`, `commit`, `return` | last check, COMMIT, the result |

`Abort` is an exception, a fault point or the end of the process, in any stage,
after the commit included (the caller never hears of the success).  `RunIsValid`,
`AdmissionIsValid`, `ReplayCoverage`, `NativeApprovalCoverage` and
`CaseSourceCoverage` are the functions of the same names; together they are
`Verifies`.  Tables written by the same statements are one field.

`ReplayLedger` says what this amounts to: a replay is admitted at one instant,
at most once, for good; it uses up its nonce and its admission key; only an
admitted replay is acknowledged.

### SourceStore

The lane in which a run is evaluated on a case that is rebuilt from raw source
bytes.  A context is a root and the sequence of derivations applied to it, either
sealed mutations or native replays; a lineage row is the context it ends.  A
context is not its case: two sequences may lead to the same case, and the store's
keys are in part about contexts (lineages, locators, approval subjects 0.2) and in
part about cases (`existing_admission`, the ledger's `after_case_hash`).

| call | stages |
|---|---|
| `save_source_run_from_bundles` | one transaction, verified as a whole before COMMIT |
| `save_native_replay_from_bundles` | `verify_audit_chain()` unless the log is empty, then one transaction, whose preflight compares the rows of this replay only |
| `replay_from_verified_prior_run` | `verify_audit_chain()`, the terminal check of the prior run's lineage, then as the row above |

A transaction and a verification are one step each.  What happens inside them
is the subject of `ReplayStore` and `AuditChain`; what is left is what commits of
others do between the steps.  `IsRebuildable`, `SourceRunIsValid`, `LinkIsValid`,
`AdmissionIsValid` and the three coverages are the verification functions of this
lane, including the exemption of resolved cases that are only inner nodes of
a lineage.  The rows of the two lanes are not mixed in one store: the composition
of unbound and source-rooted runs is not modelled (section 6).

### AuditChain

Rows, events and the hash chain.  A transaction inserts some rows; each is
followed by the SELECT of the last hash and the INSERT of its event.  A
verification reads the log at once and then one row per step, with commits,
rollbacks and edits of others in between, and compares the keys at the end.

### VerificationCaches

One store object with its transactions, others that commit, and the dictionaries
`verify_audit_chain` provides.  A lookup is `Fetch` (the caller has read the entity),
`Answer` or `Miss`, one `ReadRow` for each row the evaluation selects, one `LoadContext`
for what it takes from bytes that were loaded before, and `Conclude`.  A verdict is
what was read for it.  The kinds differ in their key: the hash of an admission, the
columns of a run, or the entity with `total_changes` and `data_version`.  That these
counters stay as they are over this connection's own COMMIT and ROLLBACK was checked
by experiment with the interpreter's SQLite.  One lookup is made at a time: an
evaluation that looks up another entity reads its rows itself here.  The preflight's own
dictionaries of authorizations live as those of a verification do and are not a state
of their own.

### StoreSchema

Opening, creating and migrating the tables, and plain `save_run` with the profile
it read before its transaction.  Two tables stand for the base schema and two
for the A08 tables: what matters is that there is a point between them.

### CliBoundary

Processes with a path, files behind it, a temporary output, copies for the
rollback, and flags for which rollback is armed, as in
`_command_run_from_source` and `command_replay`.  A connection keeps the file it
opened; SQLite refuses to write a file that was unlinked or replaced (checked by
experiment with the interpreter's SQLite).  The rollback unlinks and copies back the
database, then unlinks and copies back the output: four steps, each of which may fail or
be the last before a kill.  Not modelled: a copy of a file torn by
another process's commit, `:memory:` databases and symbolic links.

### Authorization, ApprovalWorkflow

`Authorization` is `prepare_authorization_authenticity_context` for one record:
the record's domain, the key of its issuer in the snapshot, the key's status, roles
and window, and the signature, in the order of the code.  A signature is the public
key under which it verifies.  The code has no clock here: windows are compared with
other written dates only, so a record is never "expired" by itself.

`ApprovalWorkflow` is `replay_with_native_approval` with the files around it.
`past` is every state the files have been in: assertions and reports are made of
those states and may be handed in at any later one.

| stage | code |
|---|---|
| `IDLE` | edits of case, operations, artifacts and references; then `Authenticate`: pack, snapshot, anchor, required roles |
| `RECORDS` | the loop over the records (`CheckRecord`, `EndRecords`) |
| `SUBJECT` | the artifacts are rebuilt, the subject is derived anew and compared (`CheckSubject`) |
| `ASSERTIONS` | one assertion after the other, then completeness and `require_authenticated_assertion_records` |
| `APPROVED` | both runs with their evidence and the baseline (`Evaluate`) |
| `DONE`, `REFUSED` | `Return`; the call keeps nothing |

A subject is the record of what it hashes.  The rules are one predicate
(`CaseIsReady`): `RuleEngine` has them.

### AgentTeam, WebDemo

`AgentTeam` is a function from a run to the result of the team: four events, each
with the artifact of the one before as its input, and the state the gate ends
in.  `TeamIsAccepted` is what the constructors of both results demand.

`WebDemo` has the server, one page and connections that the page and strangers
compete for.

| stage of a connection | code |
|---|---|
| `QUEUED` | in the backlog of the listening socket |
| `ACCEPTED`, `REJECTED` | in the accept loop: `process_request` with a slot, `_reject_busy` without one; one connection at a time |
| `READING` | the thread reads, for at most `request_timeout_seconds` per read |
| `HANDLING` | `do_GET`, `do_POST`; the answer may be lost |
| `ENDING` | `process_request_thread` is in its `finally` |

The page is the state of `app.js`, what its result panel shows, and one request on its
way.  Strangers may send nothing, the peer may go away, a thread may not start, an
exception may end a handler, and the server may be stopped and started again.  One
page is enough because the server keeps nothing about a page.

### CaseRules, ReferenceContext, RuleEngine

`CaseRules` has one operator per rule, with the early returns in the order of the
code (`FirstOf`), the verdict, what `validate_case` demands of the fields the rules
read, and the migration of cases of schema 0.1.  Texts are left out; identities
that the code compares normalised are one model value; a specification is a value
that is equal or not.

`ReferenceContext` is the sealed context of R005: what the inspection record in
force claims, and the raw documents in force.  `Replaced` is what
`prepare_artifact_context` makes of it for a set of artifacts.

`RuleEngine` is a case under change.  `Edit` is `apply_mutation` followed by the
validation, with the thirty mutations of the benchmark and fourteen more edits
(revise, sign, reject, widen the scope, rebind legacy rows, let the JSON references
follow the documents); `Issue` is a laboratory's report on the case as it is;
`Resolve` replaces documents by artifacts that say what the baseline says.  Edits
that give a document the identity of an artifact that is not in force are not
among them: source hashes change by resolutions only.  The rules have no clock:
a report in time is of day 5, a late one of day 50.

`cited` remembers the revision and the bytes of each document that the raw record
was accepted against.  The code keeps only the revision, and with the revision alone `PassMeansReady` is
false: a document replaced twice can have the revision it had at first, and a record that cites
that revision is then about other bytes.  R005 tells the two apart by the source hashes
of the sealed claims, which is what the property is stated with.

## 3. Runs

| run | question | instance |
|---|---|---|
| `replay_store` | do approvals stay single use, admissions whole, retries harmless, does the lock come back, and which legal histories leave a store that verifies | 2 connections, 4 calls; an original and a resolved case; a plain run and a before run; seven replays (same subject, same nonce, sibling, other evidence, chained whole, chained in part); faults at any step |
| `replay_second` | findings 1 and 2 | 1 connection, 3 calls, three replays |
| `source_store` | are nonces single use across lineages, what does a retry do, which histories of the source lane verify | 2 connections, 4 calls; one root, two mutations that cancel each other, six replays (sibling, approved again, same case by another lineage, chained whole and in part), two continuations, two source runs |
| `source_race` | finding 4 | 2 connections, 3 calls: one source run, two continuations of it |
| `audit_chain` | chain, verdicts, detection of edits | 2 connections, 2 rows, 2 contents, 3 transactions, 2 verifications, 1 edit |
| `verification_caches` | is a verdict that is kept ever about rows that have changed | 1 entity that selects a row and loads another, 2 contents; 1 insertion, 2 commits of others, any number of verifications and rollbacks |
| `store_schema` | races and kills during creation and migration | 2 connections, 2+2 tables, 2 runs; no further bound |
| `cli_boundary` | all or nothing, no leftovers | 2 processes, each with any of `--db` and `--output`; 1 fault |
| `cli_lost_success` | finding 3 | the same, no fault |
| `rule_engine` | the benchmark's truth, and what PASS means after any edits, resolutions and reports | the baseline and two migrated cases; three edits, or two resolutions, or one of each (`MaxWork = 6`; an edit costs 2, a resolution 3, a report that is late or negative 2); event revisions 2 and 3, artifact revisions 1 and 3 |
| `approval_workflow` | is an approval about this work, a verdict independent of the order of records, a baseline proved | 9 records in 13 packs (missing, foreign, damaged, early, late, of a stranger, of the wrong role), 12 snapshots (every pair of key statuses and three untrusted ones), 2 documents, 2 nonces, 2 edits |
| `web_demo` | are slots neither lost nor doubled, is the page about one run, does everything end | 2 connections, 1 slot, 3 scenarios and the source pack (one of each status), 1 stop |

The type invariants of `AuditChain`, `SourceStore`, `StoreSchema` and `VerificationCaches` are
proved and not run.

Why the bounds are enough.  The hazards are pairwise: a check of one connection
against a write of another, a rollback against a commit.  Two connections and
four calls let both go through a whole call twice, so that every check can be
made stale by a commit and be retried; the chained replays need three calls.
In `audit_chain` three transactions of up to two rows give logs of two events
with a transaction rolled back or repeated in between, and a verification that
another verification and two commits fall into.  `MaxFaults = 1` in
`cli_boundary` covers every single fault and kill; "database is locked", refused writes
and failed verifications come on top, as they are not faults but consequences.
In `rule_engine` three edits are what it takes to revise an event, sign it again
and carry an old waiver along, and to cover one fault by two others; two
resolutions make a context that inherits from an inherited one.  With
`MaxWork = 7` (two edits and a resolution) the run takes longer than five minutes
and finds nothing either.  In
`approval_workflow` two edits make a state that differs from the approved one and one
that goes back to it; a second document is there so that an edit can miss the
resolution.  In `web_demo` one slot and two connections make the server full while
the page asks, one stop falls into any stage; an instance of three connections, two
slots and two scenarios finds nothing either, but takes longer than five minutes.
In `verification_caches` two commits of others fall before and into an evaluation, or
undo each other; one insertion is enough for a rollback.  Symmetry is used
only in `audit_chain` and `verification_caches`, which have no liveness property.

Fairness.  Two runs use it.  In `replay_store`, `FairSpec` has weak fairness of
`Step(c)` for each connection, that is, a call that is executing goes on
executing.  The code justifies it: a call is straight-line code, its only wait
is SQLite's busy timeout, which ends (`BusyTimeout`).  In `web_demo` it has weak
fairness of `Accept`, of `Progress(c)` for each connection and of `Receive \/ Abort`:
the accept loop and the threads go on, because a read ends by the timeout set
in `setup` and the drain of `_reject_busy` is bounded in time and bytes; the browser
delivers an answer or its timer of eight seconds fires.  Nothing is assumed of
clients, peers, users, faults or restarts: `ReadRequest` is not among the fair actions.

## 4. What the runs show

- *Single use.* `SingleReplay`, `ReplayCloses`, `RetryChangesNothing` and
  `ImplementsLedger` hold although the consumption is looked up before the
  transaction: the UNIQUE nonce, the admission key read under the lock and the
  UNIQUE columns of the ledger decide again.
- *Verification.* `VerifiesExactly`: a store written
  by the three operations verifies unless it holds (a) two admitted replays of
  one before run, (b) a resolved case that keeps a document of an earlier
  artifact set, or (c) a resolved case saved by `save_case` without its replay,
  and in these three cases it never does.  (a) and (b) are findings: the program
  accepts the replay and then refuses the store.
- *Source lane.* `NonceNamesOneStep` and `ImplementsLedger` hold also where two
  lineages lead to one case: an approval given in one context is never admitted
  or rebuilt in another, and the ledger promise about cases is kept by keys that
  are only partly about cases.  `VerifiesExactly` says which histories break
  the store: two admissions on a before run that `save_source_run` linked
  (called directly, or by the race of finding 4), and partial chains as in
  finding 2.  A caller that never heard of the commit of its replay may save it again:
  nothing changes.  Continuing the same prior run again is refused instead, since the
  stored lineage is now a child of the prior context (`RetryIsSafe`).
- *Audit chain.* The chain stays linear and complete through all
  interleavings.  A verification outside a transaction is wrong only about
  stores others commit to while it reads (`VerdictIsExact`).  It may answer
  "broken" of an intact store, and it may also miss an edit: a row that was
  removed before the verification and saved again during it.  Hence the exception of
  stale verifications in `DamageIsSeen`.
- *Caches.* A verdict found by the counters rests on the rows of now
  (`SelectsAreCurrent`), also when it was evaluated across a commit.  The contexts are
  found without counters: they, and the verdicts of admissions and runs, are only
  as fresh as the begin of the verification (`VerdictsAreCurrent`), which is one more
  reason why a verification outside a transaction speaks of no single moment.
  After a rollback the counters would let a verdict be found again;
  that the dictionaries end with the verification is what prevents it.
- *Schema.* Of several creators and migrators at most one wins
  (`OneWinner`).  A creator that is killed, or that times out on the lock of a
  process that took the half-made file for an old store, leaves a file which
  every later open refuses (`PartialOnlyIfAbandoned`).  A migration adds no
  case-source row for plain runs that were stored before; a store with such
  runs fails its verification from then on and takes no further run
  (`EarlyRunFreezes`).
- *Rules.* Each mutation of the benchmark has exactly the findings
  docs/BENCHMARK.md lists (`BenchmarkTruth`), and no three of its faults add up to a
  PASS (`FaultsDoNotCancel`).  `PassMeansReady` states what a PASS claims without the
  rules, as an equivalence: no state of the run passes without it, and none that
  has it fails.  A report does not survive an edit of the case
  (`EditVoidsReport`); R005 passes only if the raw inspection record cites the raw documents in force
  (`ReferencesProveArtifacts`).  R005 is contradicted
  "until the Inspection artifact itself is rebuilt" (controlled_references.py:673), but
  which rebuilt record is accepted is narrower than that sentence, and `RecordCatchesUp`
  says exactly how: all documents must be replaced with it that have changed since the record before
  it.  Once a resolution has replaced the SOP alone, a new record that cites the new SOP is
  refused, because it is read against the claims of the old one
  (revision_artifacts.py:1121); only replacing the SOP once more together with it gets through.
- *Approvals.* A pack's verdict is the worst its records deserve in whatever order
  they come (`VerdictIsWorst`).  Whoever gets past the gate has for each role one
  assertion that was made for exactly the present state of all files
  (`ApprovalIsForThisWork`), although the files carry no version: the subject binds
  them by content, so going back to an earlier state makes its approvals good
  again.  A baseline rests on a report about exactly the resolved case, up to the
  approvals of the event, which the report's subject leaves out
  (`BaselineIsProved`).  The call keeps nothing: that an approval is used once is
  the store's promise, not the workflow's.
- *Demo.* No slot is lost or doubled on any way a connection ends
  (`SlotsAreCounted`); what the page shows is one answer, and a replay names the run
  it shows (`PageIsOfOneRun`); a stalled peer, a full server or a stopped one keeps
  neither a slot nor the page (`NothingHangs`).
- *Command line.* A command alone on its database is all or nothing under any
  single fault (`AllOrNothing`).  Its output is never there without its stored result,
  except inside its own rollback (`OutputFollowsStore`), and what the database held
  before and the earlier output of a command that did not succeed are lost by nothing but a
  rollback that itself fails (`CopiesLastAsNeeded`).
  With a second command on the same database this is lost:
  finding 3.

### Findings

1. `replay_second`: a second replay from an already replayed before run
   is committed and leaves a store that never verifies again.
2. `replay_second`: the same for a replay on a resolved case that
   replaces only some of the documents the first one replaced (TLC stops at the first of
   the two; each is one trace of the run).
3. `cli_lost_success`: a command that fails, for instance because the database
   is locked, puts back the file as it was before the command started and so
   erases what another command has committed and reported since.
4. `source_race`: `replay_from_verified_prior_run` refuses a prior run that is
   not the terminal lineage, but looks before it has the write lock.  Two
   continuations of one run that both look before either commits are both
   committed, and the store never verifies again.  With one connection the
   property holds (5 calls were tried).

PROJECT.json quotes the lines.

## 5. What is proved

### Native replays

`ReplayStoreProofs` holds for any sets of connections, cases, runs
and replays that satisfy `CallsAssumption`, `NoneAssumption` and
`SupersedesAssumption`: what clients can hold (no connection is called None,
`save_run` recomputes with SOURCE-phase evidence, a replay's artifact set fits
its case).

The inductive invariant is

    IInv == /\ TypeOK
            /\ Consistent(db)
            /\ \A c \in Conns : InCall(c)
            /\ acked \subseteq db.admissions

`Consistent` says of a database what the properties say and more: how the
sidecar rows of each admission close, that a run without an admission has its
UNBOUND row and its registered case, and that keys are unique.  `InCall` ties each
stage to the call and to the working copy: the lock holder's copy is the committed
database plus exactly the groups of rows written so far, and all others see a
copy equal to `db`.  The properties alone are not inductive: they say nothing of
the copy that a commit makes the database, nor of the checks that were passed on
the way to it.

| theorem | says |
|---|---|
| `Invariance` | `Spec => []IInv` |
| `TypeCorrect`, `SingleReplayHolds`, `NoStandaloneReferenceHolds`, `ReplayClosesHolds`, `VerifiesExactlyHolds` | the invariants of the run |
| `RetryChangesNothingHolds` | the action property |
| `ReplayStoreImplementsLedger` | `Spec => Ledger!Spec`: a commit of a new replay is `Admit`, the return of one is `Acknowledge`, every other step stutters |

### Approvals

`ApprovalProofs` holds for any records, snapshots, packs, files and bounds that
satisfy `AuthorizationAssumption` and `ApprovalAssumption` (the shapes the parsers
demand).  The inductive invariant adds to the types what a call has established so
far: in the loop over the records, that every record before `at` was not refuted and
that `pending` says whether one of them was not trusted; after it, that the verdict is
PASS; after the subject, that the artifacts fit; for each accepted assertion, that its
subject is the derived one and its record is in the pack.  From equal subjects equal
states of the files follow field by field, which is what `ApprovalsBind` needs.

| theorem | says |
|---|---|
| `Invariance` | the inductive invariant |
| `TypeCorrect`, `VerdictIsOrderless`, `ApprovalsBind`, `BaselinesAreProved` | the invariants of the run |

### Demo

`WebDemoProofs` holds for any finite set of connections, any number of slots and
stops, any catalog and any statuses (`WebDemoAssumption`, and `NoneAssumption`: the value for
nothing is none of the others).  The invariant has three parts: `SlotInv` (the backlog
has each waiting connection once, free and held slots add up, the accept loop is
alone), `PanelInv` (a shown run comes with its own team, a binding is to the shown
run) and `WireInv` (a page that asks is busy; its connection carries its request;
what comes back answers it; a replay names the binding, a source run is asked for
under none).  The slots need the cardinality theorems of the library; the page needs
`WireInv`, since an answer is rendered by what was asked.

| theorem | says |
|---|---|
| `DemoInvariance` | the inductive invariant |
| `DemoTypes`, `SlotsHold`, `PageHolds` | the invariants of the run |

### Audit chain

The first part of `VerificationProofs` is about `AuditChain` and holds for any connections, rows,
contents and bounds that satisfy `ChainAssumption`.  The inductive invariant follows the write lock: the lock holder's
copy extends the committed log, and between the INSERT of a row and that of its event
it is sound but for that row.  A verification has read a prefix of the log, all of it
unless somebody committed since.  All of it is about an undamaged store.

Of a damaged store a second invariant (`DamageInv`) says what the store cannot mend.  The first edit
of a sound store leaves a `Defect`: an event whose hash does not seal it, a row without event, an event
without its row, or a row with two events.  The INSERT of a row and that of its event only turn one
kind into another: a lost row that is saved again has two events then, and a lost event
is not written again because its row is still there.  A verification that began after the edit and that nobody
disturbs has found the events up to some point free of the first, third and fourth kind
(`Passed`), so what is left for its end is a row without event, and `KeysMatch` is false.  A second
edit may undo the first: `DamageIsSeen` is proved for states with at most one edit, under
any bound on the edits.

| theorem | says |
|---|---|
| `Invariance` | the inductive invariant |
| `TypeCorrect` | the types |
| `ChainHolds`, `VerdictHolds` | `ChainIsWhole` and `VerdictIsExact` |
| `DamageSeen` | `DamageIsSeen` as long as there was at most one edit |

### Command line

`CliBoundaryProofs` holds for any set of processes on one database and any number of
faults (`BoundaryAssumption`).  The inductive invariant says what each stage knows of its
own command (`Control`: what is armed, how it can end, what it has unlinked), of its
output (`OutputIsKnown`) and of the database file (`StoreIsKnown`).  The last speaks of all
processes as long as none has unlinked the file, and then of one that has it for itself.

| theorem | says |
|---|---|
| `Invariance` | the inductive invariant |
| `TypeCorrect`, `RollbackIsWhole`, `SuccessHolds`, `OutputIsBacked`, `CopiesHold` | the invariants of the run |

### Source-rooted lane

`SourceStoreProofs` holds for any connections, contexts, mutations, replays and numbers of calls that
satisfy `ArgumentsAssumption` (a mutation is no replay, what a client hands in is what
the workflow makes).  What keeps two replays apart are the keys of the transactions:
every native step that is stored has its subject, no two subjects share a nonce, and
an acknowledged replay is stored.

For the verdict the invariant goes the other way (`Whole`): every source set, lineage, case and
subject is there on account of a run or an admission, every run is linked or named by an admission, and no two
admissions lead to one case.  A verification of such a store finds fault with two things only, and
`WholeVerifies` says which.

The case a context leads to is a recursive function on its path.  The provers have no induction
principle for it, so the three facts that are needed (it exists, it is a case that has a document of an
artifact set once a resolution was applied, one more derivation is applied to the case before it)
are proved from the least number of derivations at which they would fail (`LeastNumber`, from
the library's theorem on minimal elements of well-founded relations).

| theorem | says |
|---|---|
| `Invariance` | the inductive invariant |
| `TypeCorrect` | the types |
| `NoncesHold`, `VerdictsHold` | the invariants of the run |
| `RetriesAreSafe` | the action property: a stored replay is in the store with every row it would write, and its lineage is a child of its prior context |
| `SourceStoreImplementsLedger` | every commit of a new replay is `Admit`, every return of one is `Acknowledge`, all else stutters |

### Schema

`StoreSchemaProofs` holds for any connections, runs and tables (`SchemaAssumption`; the A08
tables are in order and without repetition).  A creation commits table by table, so
two of them, or one and a migration, interleave.  No A08 table is created twice: whoever
has executed more than the base tables has made every A08 table there is (`CreationInv`),
and a migration that got past its first table found none (`LockInv`, `WinnerInv`).

| theorem | says |
|---|---|
| `Invariance` | the inductive invariant |
| `TypeCorrect` | the types |
| `PartialHolds`, `WinnerHolds`, `FreezeHolds` | all invariants of the run |

### Caches

The second part of `VerificationProofs` is about `VerificationCaches` and holds for any rows, contents
and dependencies (`CachesAssumption`).  The inductive invariant needs both halves of the code's care: a
dictionary exists only while a verification runs, in which this connection writes
nothing; and a verdict whose counters are the present ones was read under them.

| theorem | says |
|---|---|
| `CacheInvariance` | the inductive invariant |
| `CacheTypeCorrect` | the types |
| `SelectsHold`, `VerdictsHold` | all invariants of the run |

### Rules

`RuleEngineProofs` holds for any number of edits, resolutions and reports, any bound on
event revisions and any set of artifact revisions (`RuleAssumption`; `NoneAssumption`: what is absent is
no day, specification, waiver, set of references, context, plan or bundle).  The sets of
cases, reports and references are in `RuleEngine`, because that assumption is about them.  The baseline, its legacy forms and the edits
are those of `qualityci-bench` and of the model, so the theorems are about every sequence of these.

Each rule is first said without its early returns: seven lemmas of the form "the rule passes
exactly if ..." (`CoveragePasses` to `ApprovalPasses`), and `AllPass` for the verdict.  The inductive
invariant has what no rule looks at:

    IInv == /\ TypeOK
            /\ case \in Cases
            /\ IsFiniteSet(applied)
            /\ ReportInv
            /\ ContextInv
            /\ FaultInv

- `ReportInv`: reports are those of one validation of the case in `made`.  Then R006
  passes only if the subject of that case is the subject of this one, and equal subjects
  mean equal cases up to approvals and claims (`SubjectIsTheRest`).
- `ContextInv`: the claims of the sealed context are what the raw record cited, and all
  sources are older than the next one, so a source once replaced never comes back.  A
  claim with the source of the document in force therefore has its revision too.
  Without this, R005, which compares a claim with the document in force, says nothing of
  what the raw record cited.
- `FaultInv`: what faults make of the baseline stays within narrow limits (`Faulted`), and each of them
  leaves a trace that none of the others removes (`Scarred`, `FaultScars`); every
  trace is seen by one of the rules (`ScarsShow`).  That a case does not pass is itself not
  inductive: the finding of one fault may hide behind another.

| theorem | says |
|---|---|
| `Invariance` | the inductive invariant |
| `TypeCorrect`, `BenchmarkHolds`, `FaultsStay`, `PassIsReady`, `EditVoids`, `ReferencesProve`, `CatchingUp` | the invariants of the run |

`BenchmarkHolds` has an invariant of its own (`BenchInv`): a case with one benchmark mutation
behind it, no resolution and the baseline as its origin is the baseline after exactly that
mutation.  The thirty mutations are then worked out field by field (`MutationEffects`: which
fields of which document and of the event differ from the baseline, and how), and the seven
rules are evaluated on that description, return by return (`CoverageFinds` to
`ApprovalFinds`).  The findings are those of `Expected`, the table of docs/BENCHMARK.md,
also where an early return hides a second fault.

### Only model-checked

- `LockIsReleased` and `NothingHangs`: liveness under fairness is out of the prover's
  reach.  What each step towards the end leaves behind is in
  the invariants above (`InCall`, `SlotInv`, `WireInv`); that the steps are taken is what the runs
  show.

Every invariant and every action property of the passing runs is stated by a theorem, `DamageIsSeen`
for at most one edit, which is also what its run allows.

## 6. Not modelled

- *Ingestion and case builder.* Parsing of office and CSV files into cases: a
  conversion without state.
- *Byte formats, cryptography, layout, the static site, the leader gateway.* What
  depends on them here is a model value.
- *`preview_resolution`* and the retired public functions of `workflow.py`: the first writes
  nothing, the others always raise.
- *Both lanes in one store.* `ReplayStore` and `SourceStore` are not composed.
- What the code does not check is not a property here: that the two approvers are
  different people, that a trust snapshot is the latest one, that an approval is used
  once outside a store.
