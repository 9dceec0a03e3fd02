-------------------------- MODULE ApprovalWorkflow --------------------------
(***************************************************************************)
(* replay_with_native_approval: from the files of a resolution (the case,  *)
(* the operations, the replacement artifacts, the reference pack) over the *)
(* approvals given for them to a baseline.  The files are edited between   *)
(* the calls; one call captures them and goes through the stages of the    *)
(* function, each of which may refuse.  The call stores nothing.           *)
(*                                                                         *)
(*   work.case        [content, approvals, docs]; a document is            *)
(*                    [facts, source], facts standing for its revision and *)
(*                    fields, source for the bytes it was built from       *)
(*   work.resolution  [text, ops]; ops maps the touched documents to facts *)
(*   work.artifacts   document -> [supersedes, facts, source]              *)
(*   work.references  the controlled-reference pack                        *)
(*                                                                         *)
(* A hash is the value it is taken of.  Assertions and validation reports  *)
(* are files too: one may be handed in that was made for any of the past   *)
(* states of the work.                                                     *)
(***************************************************************************)
EXTENDS Authorization, FiniteSets

CONSTANTS
  Contents, Texts, Facts, Sources, References, Documents, Nonces,
  Packs,      \* the record packs handed in, a set of sequences of records
  Times,      \* dates an assertion may claim
  GoodFacts,  \* facts all the rules but the evidence rule accept
  FirstWork,  \* the work in the initial state
  MaxEdits    \* bound: edits of the work

Docs == [facts : Facts, source : Sources]
Cases == [content : Contents, approvals : {"CURRENT", "STALE"}, docs : [Documents -> Docs]]
Artifacts == [supersedes : Docs, facts : Facts, source : Sources]
Partial(f, values) ==
  f = [d \in DOMAIN f |-> f[d]] /\ DOMAIN f \subseteq Documents /\ \A d \in DOMAIN f : f[d] \in values

WorkShape(w) ==
  /\ w = [case |-> w.case, resolution |-> w.resolution, artifacts |-> w.artifacts,
          references |-> w.references]
  /\ w.case \in Cases
  /\ w.resolution = [text |-> w.resolution.text, ops |-> w.resolution.ops]
  /\ w.resolution.text \in Texts /\ Partial(w.resolution.ops, Facts)
  /\ Partial(w.artifacts, Artifacts)
  /\ w.references \in References

ASSUME ApprovalAssumption ==
  /\ MaxEdits \in Nat
  /\ Times \subseteq Nat
  /\ WorkShape(FirstWork)

VARIABLES
  work,      \* the files
  past,      \* history: every state the files have been in
  edits,     \* bound: the edits so far
  stage,     \* how far the call has come
  bundle,    \* the record pack of the call
  snapshot,  \* its trust snapshot
  at,        \* loop over the records: the next one
  pending,   \* loop over the records: one was unverifiable
  verdict,   \* the authenticity of the pack
  nonce,     \* the execution nonce of the subject
  accepted,  \* assertions the loop over them has accepted
  result     \* of the two runs

call == <<bundle, snapshot, at, pending, verdict, nonce, accepted, result>>
vars == <<work, past, edits, stage, call>>

None == "none"
NoResult == [before |-> None, after |-> None, report |-> None, baseline |-> FALSE]

(* What the files mean. *)

\* prepare_artifact_context and the comparison of the rebuilt facts with the
\* approved patch: the artifacts replace exactly the touched documents.
ArtifactsFit(w) ==
  /\ DOMAIN w.resolution.ops # {}
  /\ DOMAIN w.artifacts = DOMAIN w.resolution.ops
  /\ \A d \in DOMAIN w.artifacts :
       LET artifact == w.artifacts[d] IN
       /\ artifact.supersedes = w.case.docs[d]
       /\ artifact.facts # artifact.supersedes.facts
       /\ artifact.source # artifact.supersedes.source
       /\ artifact.facts = w.resolution.ops[d]

\* resolve_case_from_artifact_context
Resolved(w) ==
  [w.case EXCEPT !.docs =
     [d \in Documents |->
        IF d \in DOMAIN w.artifacts
        THEN [facts |-> w.artifacts[d].facts, source |-> w.artifacts[d].source]
        ELSE w.case.docs[d]]]

\* Mutant: a report is bound to the event and not to the documents.
EventSubject(case) == <<case.content>>

\* validation_case_subject_hash: the approvals of the event come after it.
EvidenceSubject(case) == <<case.content, case.docs>>

\* validation_approval_policy: which cases later evidence has to be about.
Policy(w) ==
  [source |-> EvidenceSubject(w.case), resolved |-> EvidenceSubject(Resolved(w))]

\* Mutant: the subject names the replaced documents and not their bytes.
SubjectOfDocuments(w, n) ==
  [text |-> w.resolution.text, ops |-> w.resolution.ops, case |-> w.case,
   artifacts |-> DOMAIN w.artifacts, references |-> w.references,
   policy |-> EvidenceSubject(w.case), nonce |-> n]

\* derive_approval_subject: the files, the policy and the nonce; nothing that is
\* known only after the approval.
SubjectOf(w, n) ==
  [text |-> w.resolution.text, ops |-> w.resolution.ops, case |-> w.case,
   artifacts |-> w.artifacts, references |-> w.references,
   policy |-> Policy(w), nonce |-> n]

\* The states of the work a subject was derived for; the artifacts are rebuilt.
Approvable == {w \in past : ArtifactsFit(w)}

\* An assertion made when the files were in state made.  build_approval_assertion
\* takes the role and the window from the record; a file may claim another role.
Assertions ==
  [made : Approvable, nonce : Nonces, role : Approvers, record : Records, issued : Times]

\* validate_approval_assertion_shape
AssertionShape(a) == a.record.from <= a.issued /\ a.issued <= a.record.until

\* The rules but for the evidence rule, which RuleEngine models.
CaseIsReady(case) ==
  case.approvals = "CURRENT" /\ \A d \in Documents : case.docs[d].facts \in GoodFacts

\* A bundle of validation evidence, its report issued for a case of the past.
Evidence ==
  [phase : {"SOURCE", "RESOLVED"},
   of : {w.case : w \in past} \cup {Resolved(w) : w \in past},
   result : {"PASS", "FAIL"}]

\* Mutant: the result of the report is shown and not required.
RunOfReport(case, evidence) ==
  IF CaseIsReady(case) /\ EvidenceSubject(evidence.of) = EvidenceSubject(case)
  THEN "PASS" ELSE "CONTRADICTED"

\* A run of a case with the context of an evidence bundle.
RunStatus(case, evidence) ==
  IF /\ CaseIsReady(case)
     /\ EvidenceSubject(evidence.of) = EvidenceSubject(case)
     /\ evidence.result = "PASS"
  THEN "PASS" ELSE "CONTRADICTED"

Init ==
  /\ work = FirstWork /\ past = {FirstWork} /\ edits = 0
  /\ stage = "IDLE"
  /\ bundle = [signed |-> FALSE, records |-> <<>>] /\ snapshot = None
  /\ at = 1 /\ pending = FALSE /\ verdict = None
  /\ nonce = None /\ accepted = {} /\ result = NoResult

(* The edits, by the hand of the user or by a mutation. *)

Edit(w) ==
  /\ stage = "IDLE" /\ edits < MaxEdits /\ w # work
  /\ work' = w /\ past' = past \cup {w} /\ edits' = edits + 1
  /\ UNCHANGED <<stage, call>>

WithEvent(w, c, a) == [w EXCEPT !.case = [content |-> c, approvals |-> a, docs |-> @.docs]]
WithDocument(w, d, doc) == [w EXCEPT !.case.docs[d] = doc]
WithOperation(w, t, d, f) ==
  [w EXCEPT !.resolution =
     [text |-> t,
      ops |-> [x \in DOMAIN w.resolution.ops \cup {d} |->
                 IF x = d THEN f ELSE w.resolution.ops[x]]]]
WithReferences(w, r) == [w EXCEPT !.references = r]
\* The replacement artifacts are made anew for the case and the operations.
WithArtifacts(w, s) ==
  [w EXCEPT !.artifacts =
     [d \in DOMAIN w.resolution.ops |->
        [supersedes |-> w.case.docs[d], facts |-> w.resolution.ops[d], source |-> s]]]

EditEvent ==
  \E c \in Contents, a \in {"CURRENT", "STALE"} : Edit(WithEvent(work, c, a))
EditDocument == \E d \in Documents, doc \in Docs : Edit(WithDocument(work, d, doc))
EditResolution ==
  \E t \in Texts, d \in Documents, f \in Facts : Edit(WithOperation(work, t, d, f))
EditReferences == \E r \in References : Edit(WithReferences(work, r))
Recapture == \E s \in Sources : Edit(WithArtifacts(work, s))

(* The call. *)

Refuse == stage' = "REFUSED"

\* prepare_authorization_authenticity_context up to its loop.
Authenticate(signed, records, s) ==
  /\ stage = "IDLE"
  /\ Pack(records)
  /\ bundle' = [signed |-> signed, records |-> records] /\ snapshot' = s
  /\ \/ /\ ~signed                          \* a legacy pack
        /\ verdict' = "UNVERIFIABLE" /\ Refuse
     \/ /\ signed /\ ~(SnapshotIsTrusted(s) /\ RolesAreComplete(records))
        /\ verdict' = "CONTRADICTED" /\ Refuse
     \/ /\ signed /\ SnapshotIsTrusted(s) /\ RolesAreComplete(records)
        /\ stage' = "RECORDS" /\ UNCHANGED verdict
  /\ UNCHANGED <<work, past, edits, at, pending, nonce, accepted, result>>

\* Mutant: the loop stops at the first record nobody can vouch for.
CheckRecordAndStop ==
  /\ stage = "RECORDS" /\ at <= Len(bundle.records)
  /\ LET v == RecordVerdict(snapshot, bundle.records[at]) IN
     \/ /\ v # "PASS" /\ verdict' = v /\ Refuse /\ UNCHANGED <<at, pending>>
     \/ /\ v = "PASS" /\ at' = at + 1 /\ UNCHANGED <<stage, verdict, pending>>
  /\ UNCHANGED <<work, past, edits, bundle, snapshot, nonce, accepted, result>>

CheckRecord ==
  /\ stage = "RECORDS" /\ at <= Len(bundle.records)
  /\ LET v == RecordVerdict(snapshot, bundle.records[at]) IN
     \/ /\ v = "CONTRADICTED" /\ verdict' = v /\ Refuse
        /\ UNCHANGED <<at, pending>>
     \/ /\ v # "CONTRADICTED" /\ at' = at + 1
        /\ pending' = (pending \/ v = "UNVERIFIABLE")
        /\ UNCHANGED <<stage, verdict>>
  /\ UNCHANGED <<work, past, edits, bundle, snapshot, nonce, accepted, result>>

EndRecords ==
  /\ stage = "RECORDS" /\ at > Len(bundle.records)
  /\ \/ pending /\ verdict' = "UNVERIFIABLE" /\ Refuse
     \/ ~pending /\ verdict' = "PASS" /\ stage' = "SUBJECT"
  /\ UNCHANGED <<work, past, edits, bundle, snapshot, at, pending, nonce, accepted, result>>

\* Mutant: the nonce of the subject is not taken over.
CheckSubjectOfCall(w, n) ==
  /\ stage = "SUBJECT"
  /\ IF ArtifactsFit(work) /\ SubjectOf(w, n) = SubjectOf(work, n)
     THEN stage' = "ASSERTIONS" ELSE Refuse
  /\ UNCHANGED <<work, past, edits, call>>

\* The artifacts are rebuilt; the subject that was handed in is the derived one.
CheckSubject(w, n) ==
  /\ stage = "SUBJECT"
  /\ \/ /\ ArtifactsFit(work) /\ SubjectOf(w, n) = SubjectOf(work, n)
        /\ stage' = "ASSERTIONS" /\ nonce' = n
     \/ /\ ~(ArtifactsFit(work) /\ SubjectOf(w, n) = SubjectOf(work, n))
        /\ Refuse /\ UNCHANGED nonce
  /\ UNCHANGED <<work, past, edits, bundle, snapshot, at, pending, verdict, accepted, result>>

Approves(a) ==
  /\ SubjectOf(a.made, a.nonce) = SubjectOf(work, nonce)
  /\ \A b \in accepted : b.role # a.role
  /\ \E i \in 1..Len(bundle.records) : bundle.records[i] = a.record
  /\ a.role = a.record.role

\* validate_approval_assertions, for one assertion.
CheckAssertion(a) ==
  /\ stage = "ASSERTIONS" /\ AssertionShape(a)
  /\ \/ Approves(a) /\ accepted' = accepted \cup {a} /\ UNCHANGED stage
     \/ ~Approves(a) /\ Refuse /\ UNCHANGED accepted
  /\ UNCHANGED <<work, past, edits, bundle, snapshot, at, pending, verdict, nonce, result>>

\* Mutant: an assertion may be older than the record it rests on.
EndAssertionsOfAnyAge ==
  /\ stage = "ASSERTIONS"
  /\ \/ {a.role : a \in accepted} = Approvers /\ stage' = "APPROVED"
     \/ {a.role : a \in accepted} # Approvers /\ Refuse
  /\ UNCHANGED <<work, past, edits, call>>

\* The roles are complete; require_authenticated_assertion_records.
EndAssertions ==
  LET complete == /\ {a.role : a \in accepted} = Approvers
                  /\ Cardinality({a.record : a \in accepted}) = Len(bundle.records)
                  /\ \A a \in accepted : a.record.issued <= a.issued
  IN /\ stage = "ASSERTIONS"
     /\ \/ complete /\ stage' = "APPROVED"
        \/ ~complete /\ Refuse
     /\ UNCHANGED <<work, past, edits, call>>

\* _replay_with_validated_native_approval: both runs, and the baseline.
Evaluate(source, resolved) ==
  /\ stage = "APPROVED"
  /\ \/ /\ source.phase = "SOURCE" /\ resolved.phase = "RESOLVED"
        /\ LET after == RunStatus(Resolved(work), resolved) IN
           result' = [before |-> RunStatus(work.case, source), after |-> after,
                      report |-> resolved, baseline |-> after = "PASS"]
        /\ stage' = "DONE"
     \/ /\ ~(source.phase = "SOURCE" /\ resolved.phase = "RESOLVED")
        /\ Refuse /\ UNCHANGED result
  /\ UNCHANGED <<work, past, edits, bundle, snapshot, at, pending, verdict, nonce, accepted>>

\* The call returns or raises; nothing of it is kept.
Return ==
  /\ stage \in {"DONE", "REFUSED"}
  /\ stage' = "IDLE"
  /\ bundle' = [signed |-> FALSE, records |-> <<>>] /\ snapshot' = None
  /\ at' = 1 /\ pending' = FALSE /\ verdict' = None
  /\ nonce' = None /\ accepted' = {} /\ result' = NoResult
  /\ UNCHANGED <<work, past, edits>>

Next ==
  \/ EditEvent \/ EditDocument \/ EditResolution \/ EditReferences \/ Recapture
  \/ \E signed \in BOOLEAN, records \in Packs, s \in Snapshots : Authenticate(signed, records, s)
  \/ CheckRecord \/ EndRecords
  \/ \E w \in Approvable, n \in Nonces : CheckSubject(w, n)
  \/ \E a \in Assertions : CheckAssertion(a)
  \/ EndAssertions
  \/ \E source, resolved \in Evidence : Evaluate(source, resolved)
  \/ Return

Spec == Init /\ [][Next]_vars

(* Properties. *)

\* Type invariant of the files, of the stages of a call and of what it keeps.
TypeOK ==
  /\ WorkShape(work) /\ work \in past /\ \A w \in past : WorkShape(w)
  /\ edits \in 0..MaxEdits
  /\ stage \in {"IDLE", "RECORDS", "SUBJECT", "ASSERTIONS", "APPROVED", "DONE", "REFUSED"}
  /\ stage # "IDLE" => Pack(bundle.records) /\ snapshot \in Snapshots
  /\ at \in 1..(Len(bundle.records) + 1) /\ pending \in BOOLEAN
  /\ verdict \in Verdicts \cup {None}
  /\ stage \in {"ASSERTIONS", "APPROVED", "DONE"} => nonce \in Nonces
  /\ accepted \subseteq Assertions
  /\ result.before \in {"PASS", "CONTRADICTED", None}
  /\ result.after \in {"PASS", "CONTRADICTED", None}
  /\ result.baseline \in BOOLEAN

\* The verdict on a pack is the worst of what its records deserve and does not
\* depend on their order: the early returns and the pending status of the loop
\* (authorization_authenticity.py:543-603) hide no refuted record behind an
\* unknown key, and let no pack through that has either.
VerdictIsWorst ==
  verdict # None =>
    LET refuted == \/ ~SnapshotIsTrusted(snapshot)
                   \/ ~RolesAreComplete(bundle.records)
                   \/ \E i \in 1..Len(bundle.records) : Refuted(snapshot, bundle.records[i])
        trusted == \A i \in 1..Len(bundle.records) : Trusted(snapshot, bundle.records[i])
    IN verdict = IF ~bundle.signed THEN "UNVERIFIABLE"
                 ELSE IF refuted THEN "CONTRADICTED"
                 ELSE IF trusted THEN "PASS" ELSE "UNVERIFIABLE"

\* Who approved it, approved this: a call that gets past the approval gate
\* (workflow.py:1734-1781) has for each required role exactly one assertion, all
\* of them made when every file of the work was as it is now, with this nonce,
\* under a record of the pack that the snapshot vouches for and that is not
\* younger than the assertion.
ApprovalIsForThisWork ==
  stage \in {"APPROVED", "DONE"} =>
    /\ ArtifactsFit(work)
    /\ \A role \in Approvers : \E a \in accepted : a.role = role
    /\ \A a, b \in accepted : a.role = b.role => a = b
    /\ \A a \in accepted :
         /\ a.made = work /\ a.nonce = nonce
         /\ \E i \in 1..Len(bundle.records) : bundle.records[i] = a.record
         /\ a.record.role = a.role
         /\ Trusted(snapshot, a.record)
         /\ a.record.issued <= a.issued /\ a.issued <= a.record.until

\* A baseline rests on evidence about the case it is a baseline of: the report is
\* a passing one, issued for exactly the resolved case up to the approvals of the
\* event, which is the case the approvers had named before there was evidence
\* (validation_evidence.py:224-270, workflow.py:1251-1277).
BaselineIsProved ==
  stage = "DONE" /\ result.baseline =>
    /\ result.report.phase = "RESOLVED" /\ result.report.result = "PASS"
    /\ [result.report.of EXCEPT !.approvals = work.case.approvals] = Resolved(work)
    /\ CaseIsReady(Resolved(work))
    /\ \A a \in accepted :
         EvidenceSubject(result.report.of) = SubjectOf(a.made, a.nonce).policy.resolved
=============================================================================
