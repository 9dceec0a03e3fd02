---------------------------- MODULE ReplayCases ----------------------------
(***************************************************************************)
(* The data a QualityCI store is about: cases, the resolutions that change *)
(* them, the runs that evaluate them and the replay that ties the two.     *)
(*                                                                         *)
(* Hashes are abstracted to the values they identify: two cases with the   *)
(* same canonical hash are the same record here, and so are two runs with  *)
(* the same run_id.                                                        *)
(***************************************************************************)
EXTENDS FiniteSets

CONSTANTS
  Roots,         \* cases as a client first registers them
  Docs,          \* the documents of a case
  Resolutions,   \* resolution_id values
  ArtifactSets,  \* sealed revision-artifact sets
  Supersedes,    \* artifact set -> the document revisions it replaces
  Evidence,      \* sealed reference and validation bundles of one phase
  Passing,       \* the evidence on which the resolved case evaluates to PASS
  Nonces,        \* execution_nonce values of approval subjects
  None           \* no resolution, no artifact set, no evidence, nobody

ASSUME NoneAssumption ==
  /\ None \notin Resolutions
  /\ None \notin ArtifactSets
  /\ None \notin Evidence
  /\ Passing \subseteq Evidence

\* An artifact set replaces at least one document, each at one exact revision:
\* the original one (None) or the one an earlier set installed.
ASSUME SupersedesAssumption ==
  \A a \in ArtifactSets :
    /\ DOMAIN Supersedes[a] # {}
    /\ DOMAIN Supersedes[a] \subseteq Docs
    /\ \A d \in DOMAIN Supersedes[a] :
         Supersedes[a][d] \in (ArtifactSets \cup {None}) \ {a}

(***************************************************************************)
(* Cases                                                                   *)
(***************************************************************************)

\* applied is the applied_resolution field; docs gives the artifact_set_hash
\* recorded in each document's revision_artifact field.
Case == [root    : Roots,
         applied : Resolutions \cup {None},
         docs    : [Docs -> ArtifactSets \cup {None}]]

Original(x) == [root |-> x, applied |-> None, docs |-> [d \in Docs |-> None]]

\* The bundle names, for every document it replaces, the exact revision the
\* pre-resolution case holds.
Fits(c, a) == \A d \in DOMAIN Supersedes[a] : c.docs[d] = Supersedes[a][d]

\* _resolved_case_from_context: only the documents of the bundle are replaced;
\* the others keep the revision_artifact an earlier replay gave them.
Resolved(c, r, a) ==
  [root    |-> c.root,
   applied |-> r,
   docs    |-> [d \in Docs |-> IF d \in DOMAIN Supersedes[a] THEN a ELSE c.docs[d]]]

ArtifactSetsOf(c) == {c.docs[d] : d \in Docs} \ {None}

(***************************************************************************)
(* Runs                                                                    *)
(***************************************************************************)

\* PLAIN: run_case with no bundle.  REFERENCED: with controlled references,
\* and with SOURCE-phase validation evidence unless evidence is None.
\* RESOLVED: a resolved case with RESOLVED-phase evidence, a replay's after run.
Lanes == {"PLAIN", "REFERENCED", "RESOLVED"}

Run == [case : Case, lane : Lanes, evidence : Evidence \cup {None}]

(***************************************************************************)
(* Replays                                                                 *)
(***************************************************************************)

\* Everything a native replay binds: the resolution and its artifact set, the
\* exact pre-resolution case, the evidence of both phases and the nonce of the
\* approval subject.
Replay == [resolution : Resolutions, artifacts : ArtifactSets, case : Case,
           source : Evidence, resolved : Evidence, nonce : Nonces]

ResolvedCase(q) == Resolved(q.case, q.resolution, q.artifacts)
BeforeRun(q) == [case |-> q.case, lane |-> "REFERENCED", evidence |-> q.source]
AfterRun(q) == [case |-> ResolvedCase(q), lane |-> "RESOLVED", evidence |-> q.resolved]

\* What the approvers sign: everything but the evidence.
Subject == [resolution : Resolutions, artifacts : ArtifactSets, case : Case,
            nonce : Nonces]
SubjectOf(q) == [resolution |-> q.resolution, artifacts |-> q.artifacts,
                 case |-> q.case, nonce |-> q.nonce]

\* A baseline exists exactly when the after run passes.
HasBaseline(q) == q.resolved \in Passing

\* The natural key of replay_admissions.
SameAdmissionKey(p, q) ==
  /\ p.resolution = q.resolution
  /\ p.artifacts = q.artifacts
  /\ p.case = q.case

=============================================================================
