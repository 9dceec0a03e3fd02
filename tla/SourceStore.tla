---------------------------- MODULE SourceStore ----------------------------
(***************************************************************************)
(* The source-rooted lane of the store (A08): a run is evaluated on a case *)
(* that is rebuilt from raw source bytes by a sequence of derivations, and *)
(* the store keeps that sequence as a chain of lineage rows.               *)
(*                                                                         *)
(* The write lock, the steps inside a transaction and the steps inside a   *)
(* verification are the subject of ReplayStore; here each is one step, and *)
(* what other connections do between those steps is what matters.          *)
(***************************************************************************)
EXTENDS ReplayCases, SequencesExt

CONSTANTS
  Mutations,         \* sealed CaseMutationBundles
  Effect,            \* mutation -> what it makes of the client's part of a case
  Conns,             \* connections, each used by one thread of one process
  SavableRuns,       \* the arguments clients give save_source_run_from_bundles
  SavableReplays,    \* ... save_native_replay_from_bundles
  Continuations,     \* ... replay_from_verified_prior_run
  MaxCalls           \* bound on the calls of a behaviour, for TLC

(***************************************************************************)
(* Contexts: a root and the derivations applied to it, in order.           *)
(***************************************************************************)

\* What one NATIVE_REPLAY derivation binds besides the context it is applied to.
NativeOp == [resolution : Resolutions, artifacts : ArtifactSets,
             source : Evidence, resolved : Evidence, nonce : Nonces]

Context == [root : Roots, path : Seq(Mutations \cup NativeOp)]

Derived(ctx, o) == [ctx EXCEPT !.path = Append(@, o)]

\* A mutation edits fields of the case, a native replay resolves it.
Applying(c, o) ==
  IF o \in Mutations THEN [c EXCEPT !.root = Effect[o]]
                     ELSE Resolved(c, o.resolution, o.artifacts)

CaseOf(ctx) ==
  LET case[n \in 0..Len(ctx.path)] ==
        IF n = 0 THEN Original(ctx.root) ELSE Applying(case[n - 1], ctx.path[n])
  IN case[Len(ctx.path)]

\* The lineage rows of a context.  A row's hash covers its parent's, so a row
\* is the context that ends with it.
Lineages(ctx) == {[ctx EXCEPT !.path = p] : p \in Prefixes(ctx.path) \ {<<>>}}

Parent(l) == [l EXCEPT !.path = Front(@)]
IsNative(l) == Last(l.path) \notin Mutations

\* An admission is a native derivation of one exact context.
Admission == [before : Context, op : NativeOp]
AfterOf(a) == Derived(a.before, a.op)

NativeSteps(ctx) ==
  {[before |-> Parent(l), op |-> Last(l.path)] :
     l \in {m \in Lineages(ctx) : IsNative(m)}}

\* ApprovalSubject 0.2: the approvers sign the source of the case with it.
SourceSubject(a) ==
  [before |-> a.before, resolution |-> a.op.resolution,
   artifacts |-> a.op.artifacts, nonce |-> a.op.nonce]

SubjectsOf(ctx) == {SourceSubject(a) : a \in NativeSteps(ctx)}

SourceRun == [context : Context, phase : {"SOURCE", "RESOLVED"},
              evidence : Evidence \cup {None}]

SourceBefore(a) == [context |-> a.before, phase |-> "SOURCE", evidence |-> a.op.source]
SourceAfter(a) == [context |-> AfterOf(a), phase |-> "RESOLVED", evidence |-> a.op.resolved]
EndsInBaseline(a) == a.op.resolved \in Passing

\* _replay_one_source_derivation: every native derivation replaces the exact
\* revisions its context holds.
IsDerivable(ctx) ==
  \A a \in NativeSteps(ctx) : Fits(CaseOf(a.before), a.op.artifacts)

\* The arguments can be rebuilt from their raw bytes; save_source_run evaluates
\* with SOURCE-phase evidence or none.  A continuation names a run by its id.
ASSUME ArgumentsAssumption ==
  /\ None \notin Conns
  /\ Mutations \cap NativeOp = {}
  /\ Effect \in [Mutations -> Roots]
  /\ \A r \in SavableRuns :
       r \in SourceRun /\ r.phase = "SOURCE" /\ IsDerivable(r.context)
  /\ \A a \in SavableReplays : a \in Admission /\ IsDerivable(AfterOf(a))
  /\ \A k \in Continuations :
       /\ k.prior \in SourceRun /\ k.op \in NativeOp
       /\ IsDerivable(Derived(k.prior.context, k.op))
  /\ MaxCalls \in Nat

Continued(k) == [before |-> k.prior.context, op |-> k.op]
AllReplays == SavableReplays \cup {Continued(k) : k \in Continuations}

Call == [op : {"save_source_run"}, arg : SavableRuns]
          \cup [op : {"save_source_replay"}, arg : SavableReplays]
          \cup [op : {"continue_run"}, arg : Continuations]

(***************************************************************************)
(* The database: case_source_sets, case_lineage_bindings, cases, runs (each *)
(* with its run_case_source_sets row), run_reference_sets,                 *)
(* approval_subjects, baselines, and replay_admissions with the ledger and *)
(* the consumption that are written with it.                               *)
(***************************************************************************)

Database ==
  [sources    : SUBSET Roots,
   lineages   : SUBSET Context,
   cases      : SUBSET Case,
   runs       : SUBSET SourceRun,
   links      : SUBSET SourceRun,
   subjects   : SUBSET [before : Context, resolution : Resolutions,
                        artifacts : ArtifactSets, nonce : Nonces],
   baselines  : SUBSET SourceRun,
   admissions : SUBSET AllReplays]

EmptyDatabase ==
  [sources |-> {}, lineages |-> {}, cases |-> {}, runs |-> {}, links |-> {},
   subjects |-> {}, baselines |-> {}, admissions |-> {}]

(***************************************************************************)
(* verify_audit_chain on these tables                                      *)
(***************************************************************************)

HasAudit(d) == d.sources # {}

\* _stored_case_source_context_with_lineage: every derivation is executed
\* again from stored bytes, native ones with their stored approvals.
IsRebuildable(d, ctx) ==
  /\ ctx.root \in d.sources
  /\ Lineages(ctx) \subseteq d.lineages
  /\ SubjectsOf(ctx) \subseteq d.subjects

LinkedTo(d, r) == {a \in d.admissions : r \in {SourceBefore(a), SourceAfter(a)}}

SourceRunIsValid(d, r) ==
  /\ IsRebuildable(d, r.context)
  /\ CaseOf(r.context) \in d.cases
  /\ r \in d.links \/ LinkedTo(d, r) # {}

\* Variant: a link is for runs that no admission names.
LinkIsValidUnadmitted(d, r) ==
  r \in d.runs /\ SourceRunIsValid(d, r) /\ LinkedTo(d, r) = {}

\* _a08_prior_locator_reference_link_is_valid: at most one admission names a
\* linked run, and as its before run.
LinkIsValid(d, r) ==
  /\ r \in d.runs
  /\ SourceRunIsValid(d, r)
  /\ \A a, b \in LinkedTo(d, r) : a = b /\ SourceBefore(a) = r /\ SourceAfter(a) # r

AdmissionIsValid(d, a) ==
  /\ IsRebuildable(d, AfterOf(a))
  /\ {CaseOf(a.before), CaseOf(AfterOf(a))} \subseteq d.cases
  /\ {SourceBefore(a), SourceAfter(a)} \subseteq d.runs
  /\ EndsInBaseline(a) => SourceAfter(a) \in d.baselines

RowsAreValid(d) ==
  /\ \A l \in d.lineages : IsRebuildable(d, l)
  /\ \A r \in d.runs : SourceRunIsValid(d, r)
  /\ \A r \in d.links : LinkIsValid(d, r)
  /\ \A a \in d.admissions : AdmissionIsValid(d, a)

\* No source set and no lineage without a run that is evaluated on it.
SourceCoverage(d) ==
  /\ d.sources = {r.context.root : r \in d.runs}
  /\ d.lineages = UNION {Lineages(r.context) : r \in d.runs}

Applied(d) == {c \in d.cases : c.applied # None}
AdmittedAs(d, c) == {a \in d.admissions : CaseOf(AfterOf(a)) = c}

\* A resolved case that no admission produced is one a source run was
\* evaluated on, or an inner node of a lineage.
IsDerivedOnly(d, c) ==
  \/ \E r \in d.runs : CaseOf(r.context) = c /\ SourceRunIsValid(d, r)
  \/ /\ \E l \in d.lineages : IsNative(l) /\ CaseOf(l) = c /\ IsRebuildable(d, l)
     /\ \E l \in d.lineages : CaseOf(Parent(l)) = c

ReplayCoverage(d) ==
  \A c \in Applied(d) :
    /\ \E s \in ArtifactSets : ArtifactSetsOf(c) = {s}
    /\ IF AdmittedAs(d, c) = {}
       THEN IsDerivedOnly(d, c)
       ELSE \E a \in AdmittedAs(d, c) : /\ AdmittedAs(d, c) = {a}
                                        /\ a.op.resolution = c.applied
                                        /\ SourceRunIsValid(d, SourceAfter(a))

\* The approvals of an admission, and those a stored lineage is rebuilt with.
ApprovalCoverage(d) ==
  /\ d.subjects = {SourceSubject(a) : a \in d.admissions}
                    \cup UNION {SubjectsOf(l) : l \in d.lineages}
  /\ d.baselines = {SourceAfter(a) : a \in {b \in d.admissions : EndsInBaseline(b)}}

Verifies(d) ==
  /\ HasAudit(d)
  /\ RowsAreValid(d)
  /\ SourceCoverage(d)
  /\ ReplayCoverage(d)
  /\ ApprovalCoverage(d)

(***************************************************************************)
(* What the two transactions write: INSERT OR IGNORE.                      *)
(***************************************************************************)

\* The root's bytes, its lineages and the raw approvals of its native steps.
WithContext(d, ctx) ==
  [d EXCEPT !.sources  = @ \cup {ctx.root},
            !.lineages = @ \cup Lineages(ctx),
            !.subjects = @ \cup SubjectsOf(ctx)]

WithSourceRun(d, r) ==
  [WithContext(d, r.context) EXCEPT
     !.cases = @ \cup {CaseOf(r.context)},
     !.runs  = @ \cup {r},
     !.links = @ \cup {r}]

WithSourceReplay(d, a) ==
  [WithContext(d, AfterOf(a)) EXCEPT
     !.cases      = @ \cup {CaseOf(a.before), CaseOf(AfterOf(a))},
     !.runs       = @ \cup {SourceBefore(a), SourceAfter(a)},
     !.baselines  = IF EndsInBaseline(a) THEN @ \cup {SourceAfter(a)} ELSE @,
     !.admissions = @ \cup {a}]

\* existing_admission is looked up by the approved case, whatever its source.
AdmissionConflicts(d, a) ==
  \E b \in d.admissions : /\ b.op.resolution = a.op.resolution
                          /\ b.op.artifacts = a.op.artifacts
                          /\ CaseOf(b.before) = CaseOf(a.before)
                          /\ b # a

\* Variant: the approvals of earlier steps are not looked up.
SubjectConflictsAtTheEnd(d, ctx) ==
  /\ ctx.path # <<>> /\ IsNative(ctx)
  /\ \E s \in d.subjects : s.nonce = Last(ctx.path).nonce /\ s \notin SubjectsOf(ctx)

\* Variant: a nonce may be in several subjects.
SubjectConflictsUnchecked(d, ctx) == FALSE

\* approval_subjects.execution_nonce is UNIQUE, for every step of the context.
SubjectConflicts(d, ctx) ==
  \E s, t \in d.subjects \cup SubjectsOf(ctx) : s.nonce = t.nonce /\ s # t

\* after_case_hash is UNIQUE in replay_validation_bindings.
LedgerConflicts(d, a) == AdmittedAs(d, CaseOf(AfterOf(a))) \ {a} # {}

\* The rows of this replay, and the references of its two runs.
ReplayPreflight(d, a) ==
  /\ AdmissionIsValid(d, a)
  /\ SourceAfter(a) \notin d.links

(***************************************************************************)
(* The connections                                                         *)
(***************************************************************************)

VARIABLES
  db,     \* the committed database
  pc,     \* where each connection is in its call
  call,   \* the call each connection executes, or None
  acked,  \* history: the replays some call returned success for
  calls   \* number of calls made so far, bounded by MaxCalls

vars == <<db, pc, call, acked, calls>>

Stages == {"idle", "locate", "terminal", "verify", "write", "return"}

\* Type invariant of the tables and of the stage of each call.
TypeOK ==
  /\ db \in Database
  /\ pc \in [Conns -> Stages]
  /\ call \in [Conns -> Call \cup {None}]
  /\ acked \subseteq AllReplays
  /\ calls \in 0..MaxCalls

Init ==
  /\ db = EmptyDatabase
  /\ pc = [c \in Conns |-> "idle"]
  /\ call = [c \in Conns |-> None]
  /\ acked = {}
  /\ calls = 0

Op(c) == call[c].op
Arg(c) == call[c].arg

\* The replay connection c saves.
ReplayOf(c) == IF Op(c) = "continue_run" THEN Continued(Arg(c)) ELSE Arg(c)

FirstStage ==
  [save_source_run |-> "write", save_source_replay |-> "verify",
   continue_run |-> "locate"]

Start(c) ==
  /\ pc[c] = "idle"
  /\ calls < MaxCalls
  /\ \E k \in Call : /\ call' = [call EXCEPT ![c] = k]
                     /\ pc' = [pc EXCEPT ![c] = FirstStage[k.op]]
  /\ calls' = calls + 1
  /\ UNCHANGED <<db, acked>>

\* A read-only step: on to stage s, or the call is refused.
Check(c, ok, s) ==
  /\ pc' = [pc EXCEPT ![c] = IF ok THEN s ELSE "idle"]
  /\ call' = [call EXCEPT ![c] = IF ok THEN @ ELSE None]
  /\ UNCHANGED <<db, acked, calls>>

VerifyPrior(c) == pc[c] = "locate" /\ Check(c, Verifies(db), "terminal")

\* Variant: "parent_lineage_hash=?" for the parentless rows too, which no NULL equals.
ChildrenOfRow(d, ctx) == {l \in d.lineages : ctx.path # <<>> /\ Parent(l) = ctx}

\* Rows whose parent is ctx.
Children(d, ctx) == {l \in d.lineages : Parent(l) = ctx}

\* The prior run is stored and nothing has been derived from its context.
LocateTerminal(c) ==
  /\ pc[c] = "terminal"
  /\ LET r == Arg(c).prior IN
       Check(c, /\ r \in db.runs
                /\ Children(db, r.context) = {}
                /\ SourceRunIsValid(db, r),
             "verify")

\* Only a store with an audit log is verified.
VerifyStore(c) ==
  pc[c] = "verify" /\ Check(c, HasAudit(db) => Verifies(db), "write")

\* A transaction: it commits d, or leaves the database as it was.
Transact(c, ok, d) ==
  /\ db' = IF ok THEN d ELSE db
  /\ pc' = [pc EXCEPT ![c] = IF ok THEN "return" ELSE "idle"]
  /\ call' = [call EXCEPT ![c] = IF ok THEN @ ELSE None]
  /\ UNCHANGED <<acked, calls>>

\* The final preflight verifies the whole transaction snapshot.
SaveSourceRun(c) ==
  /\ pc[c] = "write" /\ Op(c) = "save_source_run"
  /\ LET d == WithSourceRun(db, Arg(c)) IN
       Transact(c, ~SubjectConflicts(db, Arg(c).context) /\ Verifies(d), d)

\* The final preflight compares the rows of this replay only.
SaveSourceReplay(c) ==
  /\ pc[c] = "write" /\ Op(c) # "save_source_run"
  /\ LET a == ReplayOf(c)
         d == WithSourceReplay(db, a)
     IN Transact(c, /\ ~SubjectConflicts(db, AfterOf(a))
                    /\ ~AdmissionConflicts(db, a)
                    /\ ~LedgerConflicts(db, a)
                    /\ ReplayPreflight(d, a),
                 d)

Return(c) ==
  /\ pc[c] = "return"
  /\ acked' = IF Op(c) = "save_source_run" THEN acked ELSE acked \cup {ReplayOf(c)}
  /\ pc' = [pc EXCEPT ![c] = "idle"]
  /\ call' = [call EXCEPT ![c] = None]
  /\ UNCHANGED <<db, calls>>

\* A fault anywhere in a call: before its commit nothing is stored, after it
\* the caller never hears of the success.
Abort(c) == pc[c] # "idle" /\ Check(c, FALSE, "idle")

Step(c) ==
  \/ VerifyPrior(c) \/ LocateTerminal(c) \/ VerifyStore(c)
  \/ SaveSourceRun(c) \/ SaveSourceReplay(c) \/ Return(c)

\* All clients have made their calls: the bound of the model, not a deadlock.
Finished ==
  /\ calls = MaxCalls
  /\ \A c \in Conns : pc[c] = "idle"
  /\ UNCHANGED vars

Next == Finished \/ \E c \in Conns : Start(c) \/ Step(c) \/ Abort(c)

Spec == Init /\ [][Next]_vars

(***************************************************************************)
(* Properties                                                              *)
(***************************************************************************)

\* An approval is given to one context: a nonce stands for one subject in all
\* stored lineages, admitted or only rebuilt as somebody's prior derivation.
NonceNamesOneStep ==
  \A l, m \in db.lineages :
    /\ IsNative(l) /\ IsNative(m)
    /\ Last(l.path).nonce = Last(m.path).nonce
    => Parent(l) = Parent(m) /\ Last(l.path).resolution = Last(m.path).resolution

\* The replay of the unbound lane an admission corresponds to: its context is
\* forgotten, its case kept.
AsReplay(a) ==
  [resolution |-> a.op.resolution, artifacts |-> a.op.artifacts,
   case |-> CaseOf(a.before), source |-> a.op.source,
   resolved |-> a.op.resolved, nonce |-> a.op.nonce]

\* The source lane keeps the same promise as the unbound one: ReplayLedger,
\* also across lineages that lead to one case.
Ledger == INSTANCE ReplayLedger WITH
            Replays  <- {AsReplay(a) : a \in AllReplays},
            admitted <- {AsReplay(a) : a \in db.admissions},
            acked    <- {AsReplay(a) : a \in acked}
ImplementsLedger == Ledger!Spec

\* A caller that never heard of the commit of its replay tries again.  Saving
\* the replay again changes nothing, whatever was stored since; continuing its
\* prior run again is refused, since the stored lineage is a child of the prior
\* context, and so is every other continuation of that run.
RetryIsSafe ==
  [][\A c \in Conns :
       /\ /\ pc[c] = "write" /\ pc'[c] = "return" /\ Op(c) # "save_source_run"
          /\ ReplayOf(c) \in db.admissions
          => db' = db
       /\ pc[c] = "terminal" /\ pc'[c] = "verify"
          => \A a \in db.admissions : a.before # Arg(c).prior.context]_vars

\* A run that save_source_run linked is the before run of several admissions.
SharedLocator(d) ==
  \E r \in d.links : \E a, b \in LinkedTo(d, r) : a # b

\* A resolved case keeps documents from an earlier step's artifact set.
SplitArtifacts(d) ==
  \E c \in Applied(d) : \E s, t \in ArtifactSetsOf(c) : s # t

\* What the three calls can do to verify_audit_chain: a store they wrote
\* verifies exactly when it holds neither of the two.
VerifiesExactly ==
  HasAudit(db) => (Verifies(db) <=> ~SharedLocator(db) /\ ~SplitArtifacts(db))

\* "verified prior run is not the current terminal lineage": a caller of
\* replay_from_verified_prior_run continues a run nobody has continued, and so
\* leaves a store that verifies.
ContinuedStoreVerifies == HasAudit(db) => Verifies(db)

=============================================================================
