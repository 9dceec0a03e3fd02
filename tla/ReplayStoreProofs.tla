------------------------- MODULE ReplayStoreProofs -------------------------
(***************************************************************************)
(* Proofs about ReplayStore, for any number of connections, cases, runs    *)
(* and replays.                                                            *)
(*                                                                         *)
(* A transaction's working copy is determined by the committed database    *)
(* and the call, since nobody else can commit while it runs: InCall says   *)
(* so stage by stage.  What is left is to show that each of the three      *)
(* kinds of commit keeps the database Consistent.                          *)
(***************************************************************************)
EXTENDS ReplayStore, TLAPS

\* Unlinked runs are standalone runs as save_run writes them.
StandaloneRun(d, r) ==
  /\ r \in d.unbound
  /\ r.case \in d.cases
  /\ r.lane = "REFERENCED" <=> r \in d.referenceLinks
  /\ r.lane # "RESOLVED"

RunsConsistent(d) ==
  /\ \A r \in d.runs : LinkedTo(d, r) # {} \/ StandaloneRun(d, r)
  /\ \A r \in d.unbound : r \in d.runs /\ LinkedTo(d, r) = {}
  /\ \A r \in d.referenceLinks : r \in d.runs /\ LinkedTo(d, r) = {}

UniqueReplays(d) ==
  \A p, q \in d.admissions :
    p.nonce = q.nonce \/ SameAdmissionKey(p, q) \/ ResolvedCase(p) = ResolvedCase(q)
      => p = q

ReplaysConsistent(d) ==
  /\ \A q \in d.admissions : AdmissionIsValid(d, q)
  /\ d.ledger = d.admissions
  /\ NativeApprovalCoverage(d)

Consistent(d) == RunsConsistent(d) /\ UniqueReplays(d) /\ ReplaysConsistent(d)

NoConflicts(d, q) ==
  ~AdmissionConflicts(d, q) /\ ~SubjectConflicts(d, q) /\ ~LedgerConflicts(d, q)

\* What a connection's place in its call says of the call and the working copy.
InCall(c) ==
  /\ pc[c] # "idle" => call[c] \in Call
  /\ pc[c] \in {"registered", "approve", "admit"} => Op(c) = "save_replay"
  /\ pc[c] \in {"audit", "rows", "coverage", "links", "preflight"}
       => Op(c) \in {"save_run", "save_replay"}
  /\ pc[c] \in Transaction => holder = c
  /\ pc[c] = "stage" => tx = db
  /\ pc[c] = "approve" =>
       tx = WithReplayRuns(db, Arg(c)) /\ ~AdmissionConflicts(db, Arg(c))
  /\ pc[c] = "admit" =>
       /\ tx = WithApproval(WithReplayRuns(db, Arg(c)), Arg(c))
       /\ ~AdmissionConflicts(db, Arg(c))
       /\ ~SubjectConflicts(db, Arg(c))
  /\ pc[c] \in {"preflight", "commit"} /\ Op(c) = "save_replay" =>
       tx = WithReplay(db, Arg(c)) /\ NoConflicts(db, Arg(c))
  /\ pc[c] = "commit" /\ Op(c) = "save_replay" => ReplayPreflight(tx, Arg(c))
  /\ pc[c] \in {"preflight", "commit"} /\ Op(c) = "save_run" =>
       tx = WithRun(db, Arg(c))
  /\ pc[c] = "commit" /\ Op(c) = "save_run" => Verifies(tx)
  /\ pc[c] = "commit" /\ Op(c) = "save_case" => tx = WithCase(db, Arg(c))
  /\ pc[c] = "return" /\ Op(c) = "save_replay" => Arg(c) \in db.admissions

IInv ==
  /\ TypeOK
  /\ Consistent(db)
  /\ \A c \in Conns : InCall(c)
  /\ acked \subseteq db.admissions

-----------------------------------------------------------------------------
(***************************************************************************)
(* Types of the values the operators build                                 *)
(***************************************************************************)

\* Resolving a case gives a case, and the runs and the subject of a replay are
\* runs and a subject.
LEMMA ReplayParts ==
  ASSUME NEW q \in Replays
  PROVE  /\ q \in Replay
         /\ ResolvedCase(q) \in Case
         /\ BeforeRun(q) \in Run /\ AfterRun(q) \in Run
         /\ SubjectOf(q) \in Subject
<1>1. q \in Replay
  BY CallsAssumption
<1>2. ResolvedCase(q) \in Case
  BY <1>1 DEF ResolvedCase, Resolved, Replay, Case
<1>3. BeforeRun(q) \in Run /\ AfterRun(q) \in Run
  BY <1>1, <1>2 DEF BeforeRun, AfterRun, Run, Replay, Lanes
<1>4. SubjectOf(q) \in Subject
  BY <1>1 DEF SubjectOf, Subject, Replay
<1> QED
  BY <1>1, <1>2, <1>3, <1>4

\* A working copy is a database at every stage.
LEMMA WritesAreTyped ==
  ASSUME NEW d \in Database
  PROVE  /\ \A c \in Case : WithCase(d, c) \in Database
         /\ \A r \in Run : WithRun(d, r) \in Database
         /\ \A q \in Replays : /\ WithReplayRuns(d, q) \in Database
                               /\ WithApproval(d, q) \in Database
                               /\ WithAdmission(d, q) \in Database
<1>1. ASSUME NEW c \in Case PROVE WithCase(d, c) \in Database
  BY DEF WithCase, Database
<1>2. ASSUME NEW r \in Run PROVE WithRun(d, r) \in Database
  BY DEF WithRun, Database
<1>3. ASSUME NEW q \in Replays
      PROVE  /\ WithReplayRuns(d, q) \in Database
             /\ WithApproval(d, q) \in Database
             /\ WithAdmission(d, q) \in Database
  <2>1. WithReplayRuns(d, q) \in Database
    BY ReplayParts DEF WithReplayRuns, Database
  <2>2. WithApproval(d, q) \in Database
    BY ReplayParts DEF WithApproval, Database
  <2>3. WithAdmission(d, q) \in Database
    BY ReplayParts DEF WithAdmission, Database
  <2> QED BY <2>1, <2>2, <2>3
<1> QED BY <1>1, <1>2, <1>3

\* The fields of a database after a whole replay.
LEMMA ReplayFields ==
  ASSUME NEW d \in Database, NEW q \in Replays
  PROVE  LET e == WithReplay(d, q) IN
         /\ e \in Database
         /\ e.cases = d.cases \cup {ResolvedCase(q)}
         /\ e.runs = d.runs \cup {BeforeRun(q), AfterRun(q)}
         /\ e.referenceLinks = d.referenceLinks
         /\ e.unbound = d.unbound
         /\ e.admissions = d.admissions \cup {q}
         /\ e.ledger = d.ledger \cup {q}
         /\ e.subjects = d.subjects \cup {SubjectOf(q)}
         /\ e.consumptions = d.consumptions \cup {q}
         /\ e.baselines = IF HasBaseline(q) THEN d.baselines \cup {AfterRun(q)}
                          ELSE d.baselines
<1> DEFINE a == WithReplayRuns(d, q)
           b == WithApproval(a, q)
<1>1. a \in Database /\ b \in Database /\ WithAdmission(b, q) \in Database
  BY WritesAreTyped
<1>2. /\ a.cases = d.cases \cup {ResolvedCase(q)}
      /\ a.runs = d.runs \cup {BeforeRun(q), AfterRun(q)}
      /\ a.referenceLinks = d.referenceLinks /\ a.unbound = d.unbound
      /\ a.admissions = d.admissions /\ a.ledger = d.ledger
      /\ a.subjects = d.subjects /\ a.consumptions = d.consumptions
      /\ a.baselines = d.baselines
  BY DEF WithReplayRuns, Database
<1>3. /\ b.cases = a.cases /\ b.runs = a.runs
      /\ b.referenceLinks = a.referenceLinks /\ b.unbound = a.unbound
      /\ b.admissions = a.admissions /\ b.ledger = a.ledger
      /\ b.subjects = a.subjects \cup {SubjectOf(q)}
      /\ b.consumptions = a.consumptions /\ b.baselines = a.baselines
  BY <1>1 DEF WithApproval, Database
<1>4. LET w == WithAdmission(b, q) IN
      /\ w.cases = b.cases /\ w.runs = b.runs
      /\ w.referenceLinks = b.referenceLinks /\ w.unbound = b.unbound
      /\ w.admissions = b.admissions \cup {q} /\ w.ledger = b.ledger \cup {q}
      /\ w.subjects = b.subjects /\ w.consumptions = b.consumptions \cup {q}
      /\ w.baselines = IF HasBaseline(q) THEN b.baselines \cup {AfterRun(q)}
                       ELSE b.baselines
  BY <1>1 DEF WithAdmission, Database
<1>5. WithReplay(d, q) = WithAdmission(b, q)
  BY DEF WithReplay
<1> HIDE DEF a, b
<1> QED
  BY <1>1, <1>2, <1>3, <1>4, <1>5

-----------------------------------------------------------------------------
(***************************************************************************)
(* Each kind of commit keeps the database consistent                       *)
(***************************************************************************)

LEMMA EmptyIsConsistent == EmptyDatabase \in Database /\ Consistent(EmptyDatabase)
BY DEF EmptyDatabase, Database, Consistent, RunsConsistent, UniqueReplays,
       ReplaysConsistent, NativeApprovalCoverage

\* save_case touches no row another row refers to.
LEMMA CaseKeepsConsistent ==
  ASSUME NEW d \in Database, NEW c \in Case, Consistent(d)
  PROVE  Consistent(WithCase(d, c))
<1> DEFINE e == WithCase(d, c)
<1>1. /\ e.cases = d.cases \cup {c} /\ e.runs = d.runs
      /\ e.referenceLinks = d.referenceLinks /\ e.unbound = d.unbound
      /\ e.admissions = d.admissions /\ e.ledger = d.ledger
      /\ e.subjects = d.subjects /\ e.consumptions = d.consumptions
      /\ e.baselines = d.baselines
  BY DEF WithCase, Database
<1> HIDE DEF e
<1>2. \A r : LinkedTo(e, r) = LinkedTo(d, r)
  BY <1>1 DEF LinkedTo
<1>3. RunsConsistent(e)
  BY <1>1, <1>2 DEF Consistent, RunsConsistent, StandaloneRun
<1>4. UniqueReplays(e)
  BY <1>1 DEF Consistent, UniqueReplays
<1>5. ReplaysConsistent(e)
  BY <1>1 DEF Consistent, ReplaysConsistent, AdmissionIsValid, NativeApprovalCoverage
<1> QED
  BY <1>3, <1>4, <1>5 DEF Consistent, e

\* save_run commits only a transaction snapshot that verifies.
LEMMA RunKeepsConsistent ==
  ASSUME NEW d \in Database, NEW r \in Run, Consistent(d), Verifies(WithRun(d, r))
  PROVE  Consistent(WithRun(d, r))
<1> DEFINE e == WithRun(d, r)
<1>1. e.admissions = d.admissions
  BY DEF WithRun, Database
<1> HIDE DEF e
<1>2. Verifies(e)
  BY DEF e
<1>3. RunsConsistent(e)
  BY <1>2 DEF Verifies, RunsConsistent, StandaloneRun, RowsAreValid, RunIsValid,
              ReferenceLinkIsValid, CoverageIsComplete, CaseSourceCoverage
<1>4. UniqueReplays(e)
  BY <1>1 DEF Consistent, UniqueReplays
<1>5. ReplaysConsistent(e)
  BY <1>2 DEF Verifies, ReplaysConsistent, RowsAreValid, CoverageIsComplete,
              ReplayCoverage
<1> QED
  BY <1>3, <1>4, <1>5 DEF Consistent, e

\* A replay whose checks found no conflicting row, and whose preflight found no
\* reference link on its runs.
LEMMA ReplayKeepsConsistent ==
  ASSUME NEW d \in Database, NEW q \in Replays, Consistent(d), NoConflicts(d, q),
         ReplayPreflight(WithReplay(d, q), q)
  PROVE  Consistent(WithReplay(d, q))
<1> DEFINE e == WithReplay(d, q)
<1>1. /\ e \in Database
      /\ e.cases = d.cases \cup {ResolvedCase(q)}
      /\ e.runs = d.runs \cup {BeforeRun(q), AfterRun(q)}
      /\ e.referenceLinks = d.referenceLinks
      /\ e.unbound = d.unbound
      /\ e.admissions = d.admissions \cup {q}
      /\ e.ledger = d.ledger \cup {q}
      /\ e.subjects = d.subjects \cup {SubjectOf(q)}
      /\ e.consumptions = d.consumptions \cup {q}
      /\ e.baselines = IF HasBaseline(q) THEN d.baselines \cup {AfterRun(q)}
                       ELSE d.baselines
  BY ReplayFields
<1>2. AdmissionIsValid(e, q) /\ {BeforeRun(q), AfterRun(q)} \cap e.referenceLinks = {}
  BY DEF ReplayPreflight
<1> HIDE DEF e
<1>3. \A r : LinkedTo(e, r) = IF r \in {BeforeRun(q), AfterRun(q)}
                             THEN LinkedTo(d, r) \cup {q} ELSE LinkedTo(d, r)
  BY <1>1 DEF LinkedTo
\* The runs of q were not standalone runs before: a standalone before run
\* would have a reference link, an after run is never standalone.
<1>4. BeforeRun(q) \notin d.unbound /\ AfterRun(q) \notin d.unbound
  <2>1. \A r \in d.unbound : StandaloneRun(d, r)
    BY DEF Consistent, RunsConsistent
  <2>2. BeforeRun(q).lane = "REFERENCED" /\ AfterRun(q).lane = "RESOLVED"
    BY DEF BeforeRun, AfterRun
  <2> QED BY <1>1, <1>2, <2>1, <2>2 DEF StandaloneRun
<1>5. RunsConsistent(e)
  <2>1. ASSUME NEW r \in e.runs PROVE LinkedTo(e, r) # {} \/ StandaloneRun(e, r)
    <3>1. CASE r \in {BeforeRun(q), AfterRun(q)}
      BY <1>3, <3>1
    <3>2. CASE r \notin {BeforeRun(q), AfterRun(q)}
      <4>1. r \in d.runs /\ LinkedTo(e, r) = LinkedTo(d, r)
        BY <1>1, <1>3, <3>2
      <4> QED BY <1>1, <4>1 DEF Consistent, RunsConsistent, StandaloneRun
    <3> QED BY <3>1, <3>2
  <2>2. ASSUME NEW r \in e.unbound PROVE r \in e.runs /\ LinkedTo(e, r) = {}
    BY <1>1, <1>3, <1>4 DEF Consistent, RunsConsistent
  <2>3. ASSUME NEW r \in e.referenceLinks PROVE r \in e.runs /\ LinkedTo(e, r) = {}
    BY <1>1, <1>2, <1>3 DEF Consistent, RunsConsistent
  <2> QED BY <2>1, <2>2, <2>3 DEF RunsConsistent
<1>6. UniqueReplays(e)
  <2>1. ASSUME NEW p \in d.admissions,
               \/ p.nonce = q.nonce
               \/ SameAdmissionKey(p, q)
               \/ ResolvedCase(p) = ResolvedCase(q)
        PROVE  p = q
    <3>1. CASE SameAdmissionKey(p, q)
      BY <3>1 DEF NoConflicts, AdmissionConflicts
    <3>2. CASE ResolvedCase(p) = ResolvedCase(q)
      BY <3>2 DEF NoConflicts, LedgerConflicts, Consistent, ReplaysConsistent
    <3>3. CASE p.nonce = q.nonce
      <4>1. SubjectOf(p) \in d.subjects
        BY DEF Consistent, ReplaysConsistent, NativeApprovalCoverage
      <4>2. SubjectOf(p) = SubjectOf(q)
        BY <3>3, <4>1 DEF NoConflicts, SubjectConflicts, SubjectOf
      <4>3. SameAdmissionKey(p, q)
        BY <4>2 DEF SubjectOf, SameAdmissionKey
      <4> QED BY <3>1, <4>3
    <3> QED BY <2>1, <3>1, <3>2, <3>3
  <2>2. \A p : SameAdmissionKey(q, p) => SameAdmissionKey(p, q)
    BY DEF SameAdmissionKey
  <2> QED BY <1>1, <2>1, <2>2 DEF Consistent, UniqueReplays
<1>7. ReplaysConsistent(e)
  <2>1. ASSUME NEW p \in e.admissions PROVE AdmissionIsValid(e, p)
    BY <1>1, <1>2 DEF Consistent, ReplaysConsistent, AdmissionIsValid
  <2>2. e.ledger = e.admissions
    BY <1>1 DEF Consistent, ReplaysConsistent
  <2>3. e.consumptions = e.admissions
    BY <1>1 DEF Consistent, ReplaysConsistent, NativeApprovalCoverage
  <2>4. e.subjects = {SubjectOf(p) : p \in e.consumptions}
    BY <1>1 DEF Consistent, ReplaysConsistent, NativeApprovalCoverage
  <2>5. e.baselines = {AfterRun(p) : p \in {k \in e.consumptions : HasBaseline(k)}}
    BY <1>1 DEF Consistent, ReplaysConsistent, NativeApprovalCoverage
  <2> QED BY <2>1, <2>2, <2>3, <2>4, <2>5 DEF ReplaysConsistent, NativeApprovalCoverage
<1> QED
  BY <1>5, <1>6, <1>7 DEF Consistent, e

-----------------------------------------------------------------------------
(***************************************************************************)
(* When a consistent database verifies                                     *)
(***************************************************************************)

\* The resolved case of a replay holds the replay's artifact set.
LEMMA ResolvedHoldsItsArtifacts ==
  ASSUME NEW q \in Replays
  PROVE  /\ q.artifacts \in ArtifactSetsOf(ResolvedCase(q))
         /\ ResolvedCase(q).applied = q.resolution
         /\ q.resolution # None
         /\ ResolvedCase(q) \in Case
<1>1. q \in Replay
  BY CallsAssumption
<1>2. q.resolution \in Resolutions /\ q.artifacts \in ArtifactSets
  BY <1>1 DEF Replay
<1>3. PICK d \in Docs : d \in DOMAIN Supersedes[q.artifacts]
  BY <1>2, SupersedesAssumption
<1>4. ResolvedCase(q).docs[d] = q.artifacts
  BY <1>3 DEF ResolvedCase, Resolved
<1>5. ResolvedCase(q).applied = q.resolution
  BY DEF ResolvedCase, Resolved
<1> QED
  BY <1>2, <1>3, <1>4, <1>5, NoneAssumption, ReplayParts DEF ArtifactSetsOf

\* Every run of a consistent database is valid unless two replays share it as
\* their before run: they never share an after run.
LEMMA RunsAreValid ==
  ASSUME NEW d \in Database, Consistent(d), ~SharedBeforeRun(d)
  PROVE  RowsAreValid(d)
<1>1. \A p, q \in d.admissions : AfterRun(p) = AfterRun(q) => p = q
  BY DEF AfterRun, Consistent, UniqueReplays
<1>2. \A p, q \in d.admissions : BeforeRun(p) # AfterRun(q)
  BY DEF BeforeRun, AfterRun
<1>3. \A p, q \in d.admissions : BeforeRun(p) = BeforeRun(q) => p = q
  BY DEF SharedBeforeRun
<1>4. ASSUME NEW r \in d.runs PROVE RunIsValid(d, r)
  <2>1. CASE LinkedTo(d, r) = {}
    BY <1>4, <2>1 DEF RunIsValid, Consistent, RunsConsistent, StandaloneRun
  <2>2. CASE LinkedTo(d, r) # {}
    <3>1. ASSUME NEW p \in LinkedTo(d, r), NEW q \in LinkedTo(d, r) PROVE p = q
      BY <1>1, <1>2, <1>3, <3>1 DEF LinkedTo
    <3>2. r \notin d.referenceLinks
      BY <2>2 DEF Consistent, RunsConsistent
    <3> QED BY <2>2, <3>1, <3>2 DEF RunIsValid
  <2> QED BY <2>1, <2>2
<1>5. \A r \in d.referenceLinks : ReferenceLinkIsValid(d, r)
  BY DEF ReferenceLinkIsValid, Consistent, RunsConsistent
<1> QED
  BY <1>4, <1>5 DEF RowsAreValid, Consistent, ReplaysConsistent

LEMMA ConsistentVerifies ==
  ASSUME NEW d \in Database, Consistent(d), HasAudit(d),
         ~SharedBeforeRun(d), ~SplitArtifacts(d), ~OrphanCase(d)
  PROVE  Verifies(d)
<1>1. RowsAreValid(d)
  BY RunsAreValid
<1>2. CaseSourceCoverage(d)
  <2>1. \A r \in d.unbound : r \in d.runs /\ LinkedTo(d, r) = {}
    BY DEF Consistent, RunsConsistent
  <2>2. \A r \in d.runs : LinkedTo(d, r) = {} => r \in d.unbound
    BY DEF Consistent, RunsConsistent, StandaloneRun
  <2> QED BY <2>1, <2>2 DEF CaseSourceCoverage
<1>3. d.ledger = d.admissions /\ NativeApprovalCoverage(d)
  BY DEF Consistent, ReplaysConsistent
<1>4. d.admissions \subseteq Replays /\ d.cases \subseteq Case
  BY DEF Database
<1>5. ASSUME NEW q \in d.ledger
      PROVE  /\ ResolvedCase(q) \in Applied(d)
             /\ ArtifactSetsOf(ResolvedCase(q)) = {q.artifacts}
             /\ RunIsValid(d, AfterRun(q))
  <2>1. q \in Replays /\ q \in d.admissions
    BY <1>3, <1>4
  <2>2. AdmissionIsValid(d, q)
    BY <2>1 DEF Consistent, ReplaysConsistent
  <2>3. ResolvedCase(q) \in Applied(d)
    BY <2>1, <2>2, ResolvedHoldsItsArtifacts DEF AdmissionIsValid, Applied
  <2>4. ArtifactSetsOf(ResolvedCase(q)) = {q.artifacts}
    BY <2>1, <2>3, ResolvedHoldsItsArtifacts DEF SplitArtifacts
  <2>5. RunIsValid(d, AfterRun(q))
    BY <1>1, <2>2 DEF AdmissionIsValid, RowsAreValid
  <2> QED BY <2>3, <2>4, <2>5
<1>6. ASSUME NEW c \in Applied(d)
      PROVE  /\ \E a \in ArtifactSets : ArtifactSetsOf(c) = {a}
             /\ \E q \in d.ledger : /\ ResolvedCase(q) = c
                                    /\ q.resolution = c.applied
                                    /\ RunIsValid(d, AfterRun(q))
                                    /\ \A p \in d.ledger : ResolvedCase(p) = c => p = q
  <2>1. PICK q \in d.ledger : ResolvedCase(q) = c
    BY <1>3 DEF OrphanCase
  <2>2. ArtifactSetsOf(c) = {q.artifacts} /\ RunIsValid(d, AfterRun(q))
    BY <1>5, <2>1
  <2>3. q \in Replays
    BY <1>3, <1>4
  <2>4. q.artifacts \in ArtifactSets /\ q.resolution = c.applied
    BY <2>1, <2>3, ReplayParts, ResolvedHoldsItsArtifacts DEF Replay
  <2>5. \A p \in d.ledger : ResolvedCase(p) = c => p = q
    BY <1>3, <2>1 DEF Consistent, UniqueReplays
  <2> QED BY <2>1, <2>2, <2>4, <2>5
<1>7. \A p, q \in d.ledger : Cohort(p) = Cohort(q) => p = q
  BY <1>3 DEF Cohort, AfterRun, Consistent, UniqueReplays
<1>8. ReplayCoverage(d)
  BY <1>3, <1>5, <1>6, <1>7 DEF ReplayCoverage
<1> QED
  BY <1>1, <1>2, <1>3, <1>8 DEF Verifies, CoverageIsComplete

\* Verification fails on each of the three.
LEMMA VerifiedIsUnbroken ==
  ASSUME NEW d \in Database, Verifies(d), Consistent(d)
  PROVE  ~SharedBeforeRun(d) /\ ~SplitArtifacts(d) /\ ~OrphanCase(d)
<1>1. RowsAreValid(d) /\ ReplayCoverage(d)
  BY DEF Verifies, CoverageIsComplete
<1>2. ASSUME NEW p \in d.admissions, NEW q \in d.admissions, BeforeRun(p) = BeforeRun(q)
      PROVE  p = q
  <2>1. {p, q} \subseteq LinkedTo(d, BeforeRun(p))
    BY <1>2 DEF LinkedTo
  <2>2. BeforeRun(p) \in d.runs
    BY DEF Consistent, ReplaysConsistent, AdmissionIsValid
  <2>3. RunIsValid(d, BeforeRun(p))
    BY <1>1, <2>2 DEF RowsAreValid
  <2> QED BY <2>1, <2>3 DEF RunIsValid
<1>3. ~SharedBeforeRun(d)
  BY <1>2 DEF SharedBeforeRun
<1>4. ~SplitArtifacts(d)
  BY <1>1 DEF SplitArtifacts, ReplayCoverage
<1>5. ~OrphanCase(d)
  BY <1>1 DEF OrphanCase, ReplayCoverage
<1> QED
  BY <1>3, <1>4, <1>5

-----------------------------------------------------------------------------
(***************************************************************************)
(* The inductive invariant                                                 *)
(***************************************************************************)

\* A connection is not disturbed by a step of another one: if it is inside its
\* transaction nobody else touches the database, and no step forgets an
\* admission.
LEMMA OthersUndisturbed ==
  ASSUME NEW k \in Conns, InCall(k), pc'[k] = pc[k], call'[k] = call[k],
         \/ db' = db /\ tx' = tx /\ holder' = holder
         \/ pc[k] \notin Transaction /\ db.admissions \subseteq db'.admissions
  PROVE  InCall(k)'
<1>1. CASE db' = db /\ tx' = tx /\ holder' = holder
  BY <1>1 DEF InCall, Op, Arg
<1>2. CASE pc[k] \notin Transaction /\ db.admissions \subseteq db'.admissions
  BY <1>2 DEF InCall, Op, Arg, Transaction
<1> QED BY <1>1, <1>2

\* The step of one connection keeps IInv if it keeps the types, its own InCall
\* and what is said of the shared variables.
LEMMA OneMoves ==
  ASSUME IInv, NEW c \in Conns, TypeOK', Consistent(db)', InCall(c)',
         acked' \subseteq db'.admissions,
         \A k \in Conns \ {c} : pc'[k] = pc[k] /\ call'[k] = call[k],
         \/ db' = db /\ tx' = tx /\ holder' = holder
         \/ holder \in {c, None} /\ db.admissions \subseteq db'.admissions
  PROVE  IInv'
<1>1. ASSUME NEW k \in Conns \ {c} PROVE InCall(k)'
  <2>1. k \in Conns /\ InCall(k) /\ k # None
    BY CallsAssumption DEF IInv
  <2>2. CASE db' = db /\ tx' = tx /\ holder' = holder
    BY <2>1, <2>2, OthersUndisturbed
  <2>3. CASE holder \in {c, None} /\ db.admissions \subseteq db'.admissions
    <3>1. pc[k] \notin Transaction
      BY <2>1, <2>3 DEF InCall
    <3> QED BY <2>1, <2>3, <3>1, OthersUndisturbed
  <2> QED BY <2>2, <2>3
<1> QED
  BY <1>1 DEF IInv

LEMMA InitIsConsistent == Init => IInv
<1> SUFFICES ASSUME Init PROVE IInv
  OBVIOUS
<1>1. TypeOK
  BY EmptyIsConsistent, CallsAssumption DEF Init, TypeOK, Stages
<1>2. Consistent(db)
  BY EmptyIsConsistent DEF Init
<1>3. \A c \in Conns : InCall(c)
  BY DEF Init, InCall, Transaction
<1> QED
  BY <1>1, <1>2, <1>3 DEF IInv, Init

\* A new call.
LEMMA StartKeepsIInv ==
  ASSUME IInv, NEW c \in Conns, Start(c)
  PROVE  IInv'
<1>1. PICK k \in Call :
        /\ call' = [call EXCEPT ![c] = k]
        /\ pc' = [pc EXCEPT ![c] = FirstStage[k.op]]
  BY DEF Start
<1>2. k.op \in {"save_case", "save_run", "save_replay"}
  BY DEF Call
<1>3. TypeOK'
  <2>1. calls' \in 0..MaxCalls
    BY CallsAssumption DEF IInv, TypeOK, Start
  <2>2. FirstStage[k.op] \in Stages
    BY <1>2 DEF FirstStage, Stages
  <2> QED BY <1>1, <2>1, <2>2 DEF IInv, TypeOK, Start
<1>4. pc'[c] \in {"begin", "audit", "registered"} /\ call'[c] = k
  BY <1>1, <1>2 DEF IInv, TypeOK, FirstStage
<1>5. /\ pc'[c] = "audit" => k.op = "save_run"
      /\ pc'[c] = "registered" => k.op = "save_replay"
  BY <1>1, <1>2 DEF IInv, TypeOK, FirstStage
<1>6. InCall(c)'
  BY <1>4, <1>5 DEF InCall, Op, Arg, Transaction
<1>7. \A j \in Conns \ {c} : pc'[j] = pc[j] /\ call'[j] = call[j]
  BY <1>1 DEF IInv, TypeOK
<1> QED
  BY <1>3, <1>6, <1>7, OneMoves DEF Start, IInv

\* The checks before the transaction write nothing.
LEMMA ChecksKeepIInv ==
  ASSUME IInv, NEW c \in Conns,
         \/ ReadRegistered(c) \/ ReadAudit(c) \/ CheckRows(c) \/ CheckCoverage(c)
         \/ CheckLinks(c) \/ BusyTimeout(c)
  PROVE  IInv'
<1>1. UNCHANGED <<db, tx, holder, acked, calls>>
  BY DEF ReadRegistered, ReadAudit, CheckRows, CheckCoverage, CheckLinks, BusyTimeout
<1>2. seen' \in [Conns -> Database]
  BY EmptyIsConsistent DEF IInv, TypeOK, ReadRegistered, ReadAudit, CheckRows,
     CheckCoverage, CheckLinks, BusyTimeout
<1>3. PICK s \in {"idle", "audit", "rows", "coverage", "links", "begin"} :
        /\ pc' = [pc EXCEPT ![c] = s]
        /\ call' = [call EXCEPT ![c] = IF s = "idle" THEN None ELSE @]
        /\ s \in {"audit", "rows", "coverage", "links"} =>
             pc[c] \in {"registered", "audit", "rows", "coverage", "links"}
        /\ pc[c] # "idle"
  <2>1. CASE ReadRegistered(c)
    BY <2>1 DEF ReadRegistered, Check, IInv, TypeOK
  <2>2. CASE ReadAudit(c)
    BY <2>2 DEF ReadAudit, IInv, TypeOK
  <2>3. CASE CheckRows(c)
    BY <2>3 DEF CheckRows, Check, IInv, TypeOK
  <2>4. CASE CheckCoverage(c)
    BY <2>4 DEF CheckCoverage, Check, IInv, TypeOK
  <2>5. CASE CheckLinks(c)
    BY <2>5 DEF CheckLinks, Check, IInv, TypeOK
  <2>6. CASE BusyTimeout(c)
    BY <2>6 DEF BusyTimeout, Check, IInv, TypeOK
  <2> QED BY <2>1, <2>2, <2>3, <2>4, <2>5, <2>6
<1>4. pc'[c] = s /\ (s # "idle" => call'[c] = call[c])
  BY <1>3 DEF IInv, TypeOK
<1>5. TypeOK'
  BY <1>1, <1>2, <1>3 DEF IInv, TypeOK, Stages
<1>6. InCall(c)
  BY DEF IInv
<1>7. InCall(c)'
  BY <1>3, <1>4, <1>6 DEF InCall, Op, Arg, Transaction
<1>8. \A j \in Conns \ {c} : pc'[j] = pc[j] /\ call'[j] = call[j]
  BY <1>3 DEF IInv, TypeOK
<1> QED
  BY <1>1, <1>5, <1>7, <1>8, OneMoves DEF IInv

\* An exception or a crash drops the working copy and the lock.
LEMMA RollbackKeepsIInv ==
  ASSUME IInv, NEW c \in Conns, Rollback(c)
  PROVE  IInv'
<1>1. TypeOK'
  BY EmptyIsConsistent DEF IInv, TypeOK, Rollback, Stages
<1>2. pc'[c] = "idle"
  BY DEF IInv, TypeOK, Rollback
<1>3. InCall(c)'
  BY <1>2 DEF InCall, Transaction
<1>4. \A j \in Conns \ {c} : pc'[j] = pc[j] /\ call'[j] = call[j]
  BY DEF IInv, TypeOK, Rollback
<1>5. \/ db' = db /\ tx' = tx /\ holder' = holder
      \/ holder \in {c, None} /\ db.admissions \subseteq db'.admissions
  BY DEF Rollback
<1> QED
  BY <1>1, <1>3, <1>4, <1>5, OneMoves DEF Rollback, IInv

\* Taking the lock copies the committed database.
LEMMA BeginKeepsIInv ==
  ASSUME IInv, NEW c \in Conns, BeginTransaction(c)
  PROVE  IInv'
<1>1. TypeOK'
  BY DEF IInv, TypeOK, BeginTransaction, Stages, Transaction
<1>2. pc'[c] = "stage" /\ call[c] \in Call
  BY DEF IInv, TypeOK, BeginTransaction, InCall
<1>3. InCall(c)'
  BY <1>2 DEF InCall, Transaction, Op, Arg, BeginTransaction
<1>4. \A j \in Conns \ {c} : pc'[j] = pc[j] /\ call'[j] = call[j]
  BY DEF IInv, TypeOK, BeginTransaction
<1> QED
  BY <1>1, <1>3, <1>4, OneMoves DEF BeginTransaction, IInv

\* A stage inside the transaction: only the working copy changes.
LEMMA WriteKeepsIInv ==
  ASSUME IInv, NEW c \in Conns, NEW ok \in BOOLEAN, NEW d \in Database,
         NEW s \in Transaction, pc[c] \in Transaction, Write(c, ok, d, s),
         ok /\ tx' = d /\ pc'[c] = s /\ UNCHANGED <<db, holder, call>> => InCall(c)'
  PROVE  IInv'
<1>1. CASE ~ok
  BY <1>1, RollbackKeepsIInv DEF Write
<1>2. CASE ok
  <2>1. /\ tx' = d /\ pc' = [pc EXCEPT ![c] = s]
        /\ UNCHANGED <<db, holder, call, seen, acked, calls>>
    BY <1>2 DEF Write
  <2>2. TypeOK'
    BY <2>1 DEF IInv, TypeOK, Stages
  <2>3. InCall(c)'
    BY <1>2, <2>1 DEF IInv, TypeOK
  <2>4. \A j \in Conns \ {c} : pc'[j] = pc[j] /\ call'[j] = call[j]
    BY <2>1 DEF IInv, TypeOK
  <2>5. holder = c
    BY DEF IInv, InCall
  <2> QED
    BY <2>1, <2>2, <2>3, <2>4, <2>5, OneMoves DEF IInv
<1> QED
  BY <1>1, <1>2

\* The argument of a call fits its operation.
LEMMA ArgumentTypes ==
  ASSUME NEW c, call[c] \in Call
  PROVE  /\ Op(c) \in {"save_case", "save_run", "save_replay"}
         /\ Op(c) = "save_case" => Arg(c) \in Case
         /\ Op(c) = "save_run" => Arg(c) \in Run
         /\ Op(c) = "save_replay" => Arg(c) \in Replays
BY CallsAssumption DEF Call, Op, Arg

LEMMA StagesKeepIInv ==
  ASSUME IInv, NEW c \in Conns,
         \/ StageCase(c) \/ StageRun(c) \/ StageReplayRuns(c) \/ StageApproval(c)
         \/ StageAdmission(c) \/ FinalPreflight(c)
  PROVE  IInv'
<1>1. TypeOK /\ InCall(c)
  BY DEF IInv
<1>2. pc[c] \in Transaction /\ pc[c] # "idle"
  BY DEF StageCase, StageRun, StageReplayRuns, StageApproval, StageAdmission,
         FinalPreflight, Transaction
<1>3. call[c] \in Call /\ holder = c /\ tx \in Database
  BY <1>1, <1>2 DEF InCall, TypeOK
<1>4. CASE StageCase(c)
  <2>1. pc[c] = "stage" /\ Op(c) = "save_case" /\ tx = db
    BY <1>1, <1>4 DEF StageCase, InCall
  <2>2. WithCase(tx, Arg(c)) \in Database
    BY <1>3, <2>1, ArgumentTypes, WritesAreTyped
  <2>3. tx' = WithCase(tx, Arg(c)) /\ pc'[c] = "commit" /\ UNCHANGED <<db, holder, call>>
          => InCall(c)'
    BY <1>3, <2>1 DEF InCall, Op, Arg, Transaction
  <2> QED
    BY <1>2, <1>4, <2>2, <2>3, WriteKeepsIInv DEF StageCase, Transaction
<1>5. CASE StageRun(c)
  <2> DEFINE ok == Arg(c).case \in tx.cases
  <2>1. pc[c] = "stage" /\ Op(c) = "save_run" /\ tx = db
    BY <1>1, <1>5 DEF StageRun, InCall
  <2>2. WithRun(tx, Arg(c)) \in Database
    BY <1>3, <2>1, ArgumentTypes, WritesAreTyped
  <2>3. tx' = WithRun(tx, Arg(c)) /\ pc'[c] = "preflight" /\ UNCHANGED <<db, holder, call>>
          => InCall(c)'
    BY <1>3, <2>1 DEF InCall, Op, Arg, Transaction
  <2>4. ok \in BOOLEAN /\ Write(c, ok, WithRun(tx, Arg(c)), "preflight")
    BY <1>5 DEF StageRun
  <2> HIDE DEF ok
  <2> QED
    BY <1>2, <2>2, <2>3, <2>4, WriteKeepsIInv DEF Transaction
<1>6. CASE StageReplayRuns(c)
  <2> DEFINE ok == ~AdmissionConflicts(tx, Arg(c))
  <2>1. pc[c] = "stage" /\ Op(c) = "save_replay" /\ tx = db
    BY <1>1, <1>6 DEF StageReplayRuns, InCall
  <2>2. WithReplayRuns(tx, Arg(c)) \in Database
    BY <1>3, <2>1, ArgumentTypes, WritesAreTyped
  <2>3. ok /\ tx' = WithReplayRuns(tx, Arg(c)) /\ pc'[c] = "approve"
           /\ UNCHANGED <<db, holder, call>>
          => InCall(c)'
    BY <1>3, <2>1 DEF InCall, Op, Arg, Transaction
  <2>4. ok \in BOOLEAN /\ Write(c, ok, WithReplayRuns(tx, Arg(c)), "approve")
    BY <1>6 DEF StageReplayRuns
  <2> HIDE DEF ok
  <2> QED
    BY <1>2, <2>2, <2>3, <2>4, WriteKeepsIInv DEF Transaction
<1>7. CASE StageApproval(c)
  <2> DEFINE ok == ~SubjectConflicts(tx, Arg(c))
  <2>1. /\ pc[c] = "approve" /\ Op(c) = "save_replay"
        /\ tx = WithReplayRuns(db, Arg(c)) /\ ~AdmissionConflicts(db, Arg(c))
    BY <1>1, <1>7 DEF StageApproval, InCall
  <2>2. WithApproval(tx, Arg(c)) \in Database /\ db \in Database
    BY <1>1, <1>3, <2>1, ArgumentTypes, WritesAreTyped DEF TypeOK
  <2>3. SubjectConflicts(tx, Arg(c)) <=> SubjectConflicts(db, Arg(c))
    BY <2>1, <2>2 DEF WithReplayRuns, Database, SubjectConflicts
  <2>4. ok /\ tx' = WithApproval(tx, Arg(c)) /\ pc'[c] = "admit"
           /\ UNCHANGED <<db, holder, call>>
          => InCall(c)'
    BY <1>3, <2>1, <2>3 DEF InCall, Op, Arg, Transaction
  <2>5. ok \in BOOLEAN /\ Write(c, ok, WithApproval(tx, Arg(c)), "admit")
    BY <1>7 DEF StageApproval
  <2> HIDE DEF ok
  <2> QED
    BY <1>2, <2>2, <2>4, <2>5, WriteKeepsIInv DEF Transaction
<1>8. CASE StageAdmission(c)
  <2> DEFINE ok == ~LedgerConflicts(tx, Arg(c))
  <2>1. /\ pc[c] = "admit" /\ Op(c) = "save_replay"
        /\ tx = WithApproval(WithReplayRuns(db, Arg(c)), Arg(c))
        /\ ~AdmissionConflicts(db, Arg(c)) /\ ~SubjectConflicts(db, Arg(c))
    BY <1>1, <1>8 DEF StageAdmission, InCall
  <2>2. WithAdmission(tx, Arg(c)) \in Database /\ db \in Database
    BY <1>1, <1>3, <2>1, ArgumentTypes, WritesAreTyped DEF TypeOK
  <2>3. tx.ledger = db.ledger
    <3>1. WithReplayRuns(db, Arg(c)) \in Database
      BY <1>3, <2>1, <2>2, ArgumentTypes, WritesAreTyped
    <3> QED BY <2>1, <2>2, <3>1 DEF WithReplayRuns, WithApproval, Database
  <2>4. LedgerConflicts(tx, Arg(c)) <=> LedgerConflicts(db, Arg(c))
    BY <2>3 DEF LedgerConflicts
  <2>5. ok /\ tx' = WithAdmission(tx, Arg(c)) /\ pc'[c] = "preflight"
           /\ UNCHANGED <<db, holder, call>>
          => InCall(c)'
    BY <1>3, <2>1, <2>4 DEF InCall, Op, Arg, Transaction, WithReplay, NoConflicts
  <2>6. ok \in BOOLEAN /\ Write(c, ok, WithAdmission(tx, Arg(c)), "preflight")
    BY <1>8 DEF StageAdmission
  <2> HIDE DEF ok
  <2> QED
    BY <1>2, <2>2, <2>5, <2>6, WriteKeepsIInv DEF Transaction
<1>9. CASE FinalPreflight(c)
  <2> DEFINE ok == IF Op(c) = "save_run" THEN Verifies(tx) ELSE ReplayPreflight(tx, Arg(c))
  <2>1. pc[c] = "preflight" /\ Op(c) \in {"save_run", "save_replay"}
    BY <1>1, <1>9 DEF FinalPreflight, InCall
  <2>2. ok \in BOOLEAN
    BY DEF Verifies, ReplayPreflight
  <2>3. ok /\ tx' = tx /\ pc'[c] = "commit" /\ UNCHANGED <<db, holder, call>>
          => InCall(c)'
    BY <1>1, <1>3, <2>1 DEF InCall, Op, Arg, Transaction
  <2> HIDE DEF ok
  <2>4. Write(c, ok, tx, "commit")
    BY <1>9 DEF FinalPreflight, ok
  <2> QED
    BY <1>2, <1>3, <2>2, <2>3, <2>4, WriteKeepsIInv DEF Transaction
<1> QED
  BY <1>4, <1>5, <1>6, <1>7, <1>8, <1>9

\* A commit publishes the working copy: what its database was before is known
\* from the stage, so each kind of commit is one of the lemmas above.
LEMMA CommitKeepsIInv ==
  ASSUME IInv, NEW c \in Conns, Commit(c)
  PROVE  IInv'
<1>1. TypeOK /\ InCall(c) /\ Consistent(db)
  BY DEF IInv
<1>2. pc[c] = "commit" /\ holder = c /\ call[c] \in Call
  BY <1>1 DEF Commit, InCall, Transaction
<1>3. db' = tx /\ UNCHANGED <<tx, call, seen, acked, calls>> /\ holder' = None
  BY DEF Commit
<1>4. db \in Database /\ tx \in Database
  BY <1>1 DEF TypeOK
<1>5. TypeOK'
  BY <1>1, <1>3 DEF TypeOK, Commit, Stages
<1>6. Consistent(tx) /\ db.admissions \subseteq tx.admissions
      /\ (Op(c) = "save_replay" => Arg(c) \in tx.admissions)
  <2>1. CASE Op(c) = "save_case"
    <3>1. tx = WithCase(db, Arg(c)) /\ Arg(c) \in Case
      BY <1>1, <1>2, <2>1, ArgumentTypes DEF InCall
    <3>2. tx.admissions = db.admissions
      BY <1>4, <3>1 DEF WithCase, Database
    <3> QED BY <1>1, <1>4, <2>1, <3>1, <3>2, CaseKeepsConsistent
  <2>2. CASE Op(c) = "save_run"
    <3>1. tx = WithRun(db, Arg(c)) /\ Arg(c) \in Run /\ Verifies(tx)
      BY <1>1, <1>2, <2>2, ArgumentTypes DEF InCall
    <3>2. tx.admissions = db.admissions
      BY <1>4, <3>1 DEF WithRun, Database
    <3> QED BY <1>1, <1>4, <2>2, <3>1, <3>2, RunKeepsConsistent
  <2>3. CASE Op(c) = "save_replay"
    <3>1. /\ tx = WithReplay(db, Arg(c)) /\ Arg(c) \in Replays
          /\ NoConflicts(db, Arg(c)) /\ ReplayPreflight(tx, Arg(c))
      BY <1>1, <1>2, <2>3, ArgumentTypes DEF InCall
    <3>2. tx.admissions = db.admissions \cup {Arg(c)}
      BY <1>4, <3>1, ReplayFields
    <3> QED BY <1>1, <1>4, <3>1, <3>2, ReplayKeepsConsistent
  <2> QED BY <1>2, <2>1, <2>2, <2>3, ArgumentTypes
<1>7. pc'[c] = "return"
  BY <1>1 DEF Commit, TypeOK
<1>8. InCall(c)'
  BY <1>2, <1>3, <1>6, <1>7 DEF InCall, Op, Arg, Transaction
<1>9. \A j \in Conns \ {c} : pc'[j] = pc[j] /\ call'[j] = call[j]
  BY <1>1 DEF Commit, TypeOK
<1>10. Consistent(db)' /\ acked' \subseteq db'.admissions
  BY <1>3, <1>6 DEF IInv
<1>11. holder \in {c, None} /\ db.admissions \subseteq db'.admissions
  BY <1>2, <1>3, <1>6
<1> QED
  BY <1>5, <1>8, <1>9, <1>10, <1>11, OneMoves

\* Success is reported only after the commit.
LEMMA ReturnKeepsIInv ==
  ASSUME IInv, NEW c \in Conns, Return(c)
  PROVE  IInv'
<1>1. TypeOK /\ InCall(c)
  BY DEF IInv
<1>2. pc[c] = "return" /\ call[c] \in Call
  BY <1>1 DEF InCall, Return
<1>3. acked' \subseteq db.admissions
  BY <1>1, <1>2 DEF Return, InCall, IInv
<1>4. TypeOK'
  <2>1. acked' \subseteq Replays
    BY <1>1, <1>3 DEF TypeOK, Database
  <2> QED BY <1>1, <2>1 DEF TypeOK, Return, Stages
<1>5. InCall(c)'
  BY <1>1 DEF InCall, TypeOK, Return, Transaction
<1>6. \A j \in Conns \ {c} : pc'[j] = pc[j] /\ call'[j] = call[j]
  BY <1>1 DEF Return, TypeOK
<1>7. Consistent(db)' /\ acked' \subseteq db'.admissions
  BY <1>3 DEF Return, IInv
<1>8. db' = db /\ tx' = tx /\ holder' = holder
  BY DEF Return
<1> QED
  BY <1>4, <1>5, <1>6, <1>7, <1>8, OneMoves

LEMMA NextKeepsIInv == IInv /\ [Next]_vars => IInv'
<1> SUFFICES ASSUME IInv, [Next]_vars PROVE IInv'
  OBVIOUS
<1>1. CASE UNCHANGED vars
  BY <1>1 DEF vars, IInv, TypeOK, InCall, Op, Arg
<1>2. CASE Finished
  BY <1>1, <1>2 DEF Finished
<1>3. ASSUME NEW c \in Conns, Start(c) PROVE IInv'
  BY <1>3, StartKeepsIInv
<1>4. ASSUME NEW c \in Conns, Step(c) PROVE IInv'
  <2>1. CASE \/ ReadRegistered(c) \/ ReadAudit(c) \/ CheckRows(c) \/ CheckCoverage(c)
             \/ CheckLinks(c) \/ BusyTimeout(c)
    BY <2>1, ChecksKeepIInv
  <2>2. CASE BeginTransaction(c)
    BY <2>2, BeginKeepsIInv
  <2>3. CASE \/ StageCase(c) \/ StageRun(c) \/ StageReplayRuns(c) \/ StageApproval(c)
             \/ StageAdmission(c) \/ FinalPreflight(c)
    BY <2>3, StagesKeepIInv
  <2>4. CASE Commit(c)
    BY <2>4, CommitKeepsIInv
  <2>5. CASE Return(c)
    BY <2>5, ReturnKeepsIInv
  <2> QED BY <1>4, <2>1, <2>2, <2>3, <2>4, <2>5 DEF Step
<1>5. ASSUME NEW c \in Conns, Abort(c) PROVE IInv'
  BY <1>5, RollbackKeepsIInv DEF Abort
<1> QED
  BY <1>1, <1>2, <1>3, <1>4, <1>5 DEF Next

\* The inductive invariant holds in every state the store can reach.
THEOREM Invariance == Spec => []IInv
<1> QED
  BY InitIsConsistent, NextKeepsIInv, PTL DEF Spec

-----------------------------------------------------------------------------
(***************************************************************************)
(* The properties                                                          *)
(***************************************************************************)

\* The values of the variables, for any constants.
THEOREM TypeCorrect == Spec => []TypeOK
<1>1. IInv => TypeOK
  BY DEF IInv
<1> QED
  BY <1>1, Invariance, PTL

\* However connections interleave, an approval subject, its nonce and an
\* admission key are used by one replay at most.
THEOREM SingleReplayHolds == Spec => []SingleReplay
<1>1. IInv => SingleReplay
  BY DEF IInv, Consistent, UniqueReplays, SingleReplay
<1> QED
  BY <1>1, Invariance, PTL

\* save_run and save_native_replay never both own a run.
THEOREM NoStandaloneReferenceHolds == Spec => []NoStandaloneReference
<1>1. IInv => NoStandaloneReference
  <2> SUFFICES ASSUME IInv, NEW q \in db.admissions
               PROVE  {BeforeRun(q), AfterRun(q)} \cap db.referenceLinks = {}
    BY DEF NoStandaloneReference
  <2>1. \A r \in {BeforeRun(q), AfterRun(q)} : q \in LinkedTo(db, r)
    BY DEF LinkedTo
  <2>2. \A r \in db.referenceLinks : LinkedTo(db, r) = {}
    BY DEF IInv, Consistent, RunsConsistent
  <2> QED BY <2>1, <2>2
<1> QED
  BY <1>1, Invariance, PTL

\* Every admission is there with all its rows, and no row without it.
THEOREM ReplayClosesHolds == Spec => []ReplayCloses
<1>1. IInv => ReplayCloses
  BY DEF IInv, Consistent, ReplaysConsistent, ReplayCloses
<1> QED
  BY <1>1, Invariance, PTL

\* A store the operations wrote verifies exactly if no two replays share a before
\* run, no resolved case mixes artifact sets and none is without its replay.
THEOREM VerifiesExactlyHolds == Spec => []VerifiesExactly
<1>1. IInv => VerifiesExactly
  <2> SUFFICES ASSUME IInv, HasAudit(db)
               PROVE  Verifies(db) <=> ~ (\/ SharedBeforeRun(db)
                                         \/ SplitArtifacts(db)
                                         \/ OrphanCase(db))
    BY DEF VerifiesExactly
  <2>1. db \in Database /\ Consistent(db)
    BY DEF IInv, TypeOK
  <2>2. Verifies(db) => ~SharedBeforeRun(db) /\ ~SplitArtifacts(db) /\ ~OrphanCase(db)
    BY <2>1, VerifiedIsUnbroken
  <2>3. ~SharedBeforeRun(db) /\ ~SplitArtifacts(db) /\ ~OrphanCase(db) => Verifies(db)
    BY <2>1, ConsistentVerifies
  <2> QED BY <2>2, <2>3
<1> QED
  BY <1>1, Invariance, PTL

\* Saving an admitted replay again writes the rows that are there.
LEMMA ReplayIsIdempotent ==
  ASSUME NEW d \in Database, Consistent(d), NEW q \in d.admissions
  PROVE  WithReplay(d, q) = d
<1>1. q \in Replays
  BY DEF Database
<1>2. AdmissionIsValid(d, q) /\ q \in d.ledger /\ q \in d.consumptions
  BY DEF Consistent, ReplaysConsistent, NativeApprovalCoverage
<1> DEFINE e == WithReplay(d, q)
<1>3. /\ e \in Database
      /\ e.cases = d.cases \cup {ResolvedCase(q)}
      /\ e.runs = d.runs \cup {BeforeRun(q), AfterRun(q)}
      /\ e.referenceLinks = d.referenceLinks
      /\ e.unbound = d.unbound
      /\ e.admissions = d.admissions \cup {q}
      /\ e.ledger = d.ledger \cup {q}
      /\ e.subjects = d.subjects \cup {SubjectOf(q)}
      /\ e.consumptions = d.consumptions \cup {q}
      /\ e.baselines = IF HasBaseline(q) THEN d.baselines \cup {AfterRun(q)}
                       ELSE d.baselines
  BY <1>1, ReplayFields
<1> HIDE DEF e
<1>4. /\ e.cases = d.cases
      /\ e.runs = d.runs
      /\ e.admissions = d.admissions
      /\ e.ledger = d.ledger
      /\ e.subjects = d.subjects
      /\ e.consumptions = d.consumptions
      /\ e.baselines = d.baselines
  <2>1. /\ ResolvedCase(q) \in d.cases
        /\ {BeforeRun(q), AfterRun(q)} \subseteq d.runs
        /\ HasBaseline(q) => AfterRun(q) \in d.baselines
        /\ SubjectOf(q) \in d.subjects
    BY <1>2 DEF AdmissionIsValid
  <2>2. e.cases = d.cases
    BY <1>3, <2>1
  <2>3. e.runs = d.runs
    BY <1>3, <2>1
  <2>4. e.admissions = d.admissions
    BY <1>3
  <2>5. e.ledger = d.ledger /\ e.consumptions = d.consumptions
    BY <1>2, <1>3
  <2>6. e.subjects = d.subjects
    BY <1>3, <2>1
  <2>7. e.baselines = d.baselines
    BY <1>3, <2>1
  <2> QED
    BY <2>2, <2>3, <2>4, <2>5, <2>6, <2>7
<1>5. e = d
  BY <1>3, <1>4 DEF Database
<1> QED BY <1>5 DEF e

\* The retry of a replay that is already stored changes no row.
THEOREM RetryChangesNothingHolds == Spec => RetryChangesNothing
<1>1. ASSUME IInv, [Next]_vars, NEW c \in Conns, pc[c] = "commit",
             Op(c) = "save_replay", Arg(c) \in db.admissions, pc'[c] = "return"
      PROVE  db' = db
  <2>1. TypeOK /\ InCall(c) /\ Consistent(db)
    BY <1>1 DEF IInv
  <2>2. holder = c /\ tx = WithReplay(db, Arg(c))
    BY <1>1, <2>1 DEF InCall, Transaction
  <2>3. tx = db
    BY <1>1, <2>1, <2>2, ReplayIsIdempotent DEF TypeOK
  <2>4. CASE \E k \in Conns : Commit(k)
    BY <2>3, <2>4 DEF Commit
  <2>5. CASE ~\E k \in Conns : Commit(k)
    BY <1>1, <2>5 DEF vars, Next, Finished, Step, Start, ReadRegistered, ReadAudit,
       CheckRows, CheckCoverage, CheckLinks, BusyTimeout, BeginTransaction, StageCase,
       StageRun, StageReplayRuns, StageApproval, StageAdmission, FinalPreflight,
       Write, Rollback, Return, Abort
  <2> QED BY <2>4, <2>5
<1>2. IInv /\ [Next]_vars =>
        [\A c \in Conns :
           /\ pc[c] = "commit" /\ Op(c) = "save_replay" /\ Arg(c) \in db.admissions
           /\ pc'[c] = "return"
           => db' = db]_vars
  BY <1>1
<1> QED
  BY <1>2, Invariance, PTL DEF Spec, RetryChangesNothing

\* Each step of the store is a step of the abstract ledger, or leaves it alone.
THEOREM ReplayStoreImplementsLedger == Spec => ImplementsLedger
<1>1. Init => Ledger!Init
  BY DEF Init, Ledger!Init, EmptyDatabase
<1>2. ASSUME IInv, [Next]_vars
      PROVE  [Ledger!Next]_<<db.admissions, acked>>
  <2>1. CASE \E c \in Conns : Commit(c)
    <3>1. PICK c \in Conns : Commit(c)
      BY <2>1
    <3>2. TypeOK /\ InCall(c) /\ Consistent(db)
      BY <1>2 DEF IInv
    <3>3. pc[c] = "commit" /\ call[c] \in Call /\ db' = tx /\ acked' = acked
      BY <3>1, <3>2 DEF Commit, InCall
    <3>4. db \in Database
      BY <3>2 DEF TypeOK
    <3>5. CASE Op(c) = "save_case"
      <4>1. tx = WithCase(db, Arg(c))
        BY <3>2, <3>3, <3>5 DEF InCall
      <4>2. tx.admissions = db.admissions
        BY <3>4, <4>1 DEF WithCase, Database
      <4> QED BY <3>3, <4>2
    <3>6. CASE Op(c) = "save_run"
      <4>1. tx = WithRun(db, Arg(c))
        BY <3>2, <3>3, <3>6 DEF InCall
      <4>2. tx.admissions = db.admissions
        BY <3>4, <4>1 DEF WithRun, Database
      <4> QED BY <3>3, <4>2
    <3>7. CASE Op(c) = "save_replay"
      <4>1. /\ tx = WithReplay(db, Arg(c)) /\ Arg(c) \in Replays
            /\ NoConflicts(db, Arg(c)) /\ ReplayPreflight(tx, Arg(c))
        BY <3>2, <3>3, <3>7, ArgumentTypes DEF InCall
      <4>2. tx.admissions = db.admissions \cup {Arg(c)} /\ tx \in Database
        BY <3>4, <4>1, ReplayFields
      <4>3. UniqueReplays(tx)
        BY <3>2, <3>4, <4>1, ReplayKeepsConsistent DEF Consistent
      <4>4. CASE Arg(c) \in db.admissions
        BY <3>3, <4>2, <4>4
      <4>5. CASE Arg(c) \notin db.admissions
        <5>1. \A p \in db.admissions :
                p.nonce # Arg(c).nonce /\ ~SameAdmissionKey(p, Arg(c))
          BY <4>2, <4>3, <4>5 DEF UniqueReplays
        <5>2. Ledger!Admit(Arg(c))
          BY <3>3, <4>2, <4>5, <5>1 DEF Ledger!Admit, Ledger!SameAdmissionKey,
             SameAdmissionKey
        <5> QED BY <4>1, <5>2 DEF Ledger!Next
      <4> QED BY <4>4, <4>5
    <3> QED BY <3>3, <3>5, <3>6, <3>7, ArgumentTypes
  <2>2. CASE \E c \in Conns : Return(c)
    <3>1. PICK c \in Conns : Return(c)
      BY <2>2
    <3>2. InCall(c) /\ pc[c] = "return" /\ call[c] \in Call
      BY <1>2, <3>1 DEF IInv, InCall, Return
    <3>3. CASE Op(c) = "save_replay"
      <4>1. Arg(c) \in db.admissions /\ Arg(c) \in Replays
        BY <3>2, <3>3, ArgumentTypes DEF InCall
      <4>2. Ledger!Acknowledge(Arg(c))
        BY <3>1, <3>3, <4>1 DEF Return, Ledger!Acknowledge
      <4> QED BY <4>1, <4>2 DEF Ledger!Next
    <3>4. CASE Op(c) # "save_replay"
      BY <3>1, <3>4 DEF Return
    <3> QED BY <3>3, <3>4
  <2>3. CASE ~\E c \in Conns : Commit(c) \/ Return(c)
    <3>1. db' = db /\ acked' = acked
      BY <1>2, <2>3 DEF vars, Next, Finished, Step, Start, ReadRegistered, ReadAudit,
         CheckRows, CheckCoverage, CheckLinks, BusyTimeout, BeginTransaction, StageCase,
         StageRun, StageReplayRuns, StageApproval, StageAdmission, FinalPreflight,
         Write, Rollback, Abort
    <3> QED BY <3>1
  <2> QED BY <2>1, <2>2, <2>3
<1>3. IInv /\ [Next]_vars => [Ledger!Next]_<<db.admissions, acked>>
  BY <1>2
<1> QED
  BY <1>1, <1>3, Invariance, PTL DEF Spec, ImplementsLedger, Ledger!Spec

=============================================================================
