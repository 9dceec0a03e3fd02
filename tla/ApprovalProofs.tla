--------------------------- MODULE ApprovalProofs ---------------------------
(***************************************************************************)
(* Proofs about ApprovalWorkflow, for any records, snapshots, packs, files *)
(* and number of edits.                                                    *)
(*                                                                         *)
(* A call goes through its stages once, and the files do not change while  *)
(* it runs; Gate says what each stage has established, and the part of     *)
(* Gate about the loop over the records is the loop's invariant.           *)
(***************************************************************************)
EXTENDS ApprovalWorkflow, TLAPS

Verdict(j) == RecordVerdict(snapshot, bundle.records[j])

\* Between two calls nothing is left of the last one.
Fresh ==
  /\ bundle = [signed |-> FALSE, records |-> <<>>]
  /\ at = 1 /\ pending = FALSE /\ verdict = None
  /\ nonce = None /\ accepted = {} /\ result = NoResult

Entered ==
  /\ bundle.signed /\ SnapshotIsTrusted(snapshot) /\ RolesAreComplete(bundle.records)

\* The loop over the records: none was refuted so far, and pending remembers
\* whether one was unverifiable.
Loop ==
  /\ Entered /\ verdict = None
  /\ \A j \in 1..(at - 1) : Verdict(j) # "CONTRADICTED"
  /\ pending <=> \E j \in 1..(at - 1) : Verdict(j) = "UNVERIFIABLE"

Passed == Entered /\ \A j \in 1..Len(bundle.records) : Verdict(j) = "PASS"

SubjectFits == ArtifactsFit(work) /\ nonce \in Nonces

AcceptedFits ==
  /\ \A a \in accepted :
       /\ SubjectOf(a.made, a.nonce) = SubjectOf(work, nonce)
       /\ \E i \in 1..Len(bundle.records) : bundle.records[i] = a.record
       /\ a.role = a.record.role /\ AssertionShape(a)
  /\ \A a, b \in accepted : a.role = b.role => a = b

Complete ==
  /\ {a.role : a \in accepted} = Approvers
  /\ \A a \in accepted : a.record.issued <= a.issued

After ==
  /\ result.report.phase = "RESOLVED"
  /\ result.baseline <=> RunStatus(Resolved(work), result.report) = "PASS"
  /\ result.report \in Evidence

Gate ==
  /\ stage = "IDLE" => Fresh
  /\ stage = "RECORDS" => Loop
  /\ stage \in {"RECORDS", "SUBJECT"} => accepted = {}
  /\ stage \in {"SUBJECT", "ASSERTIONS", "APPROVED", "DONE"} => verdict = "PASS"
  /\ verdict = "PASS" => Passed
  /\ stage \in {"ASSERTIONS", "APPROVED", "DONE"} => SubjectFits /\ AcceptedFits
  /\ stage \in {"APPROVED", "DONE"} => Complete
  /\ stage = "DONE" => After

IInv == TypeOK /\ VerdictIsWorst /\ Gate

-----------------------------------------------------------------------------
(* The verdict on one record.                                              *)

\* The early returns for one record say of it what its dates, its key and its
\* signature say, when the snapshot lists two keys.
LEMMA RecordVerdictIsRight ==
  ASSUME NEW s \in Snapshots, NEW r \in Records, SnapshotIsTrusted(s)
  PROVE  /\ RecordVerdict(s, r) \in Verdicts
         /\ RecordVerdict(s, r) = "CONTRADICTED" <=> Refuted(s, r)
         /\ RecordVerdict(s, r) = "PASS" <=> Trusted(s, r)
  <1>1. RecordShape(r) /\ SnapshotShape(s)
    BY AuthorizationAssumption
  <1>2. CASE Listed(s, r) = {}
    <2>1. \A i \in 1..2 : s.keys[i].id # r.key
      BY <1>2 DEF Listed
    <2> QED
      BY <1>2, <2>1 DEF RecordVerdict, Refuted, Trusted, Verdicts
  <1>3. CASE Listed(s, r) # {}
    <2> DEFINE k == CHOOSE i \in Listed(s, r) : TRUE
    <2>1. k \in 1..2 /\ s.keys[k].id = r.key
      BY <1>3 DEF Listed
    <2> HIDE DEF k
    <2>2. \A i \in 1..2 : s.keys[i].id = r.key => i = k
      <3>1. k = 1 \/ k = 2
        BY <2>1
      <3>2. \A i \in 1..2 : i = 1 \/ i = 2
        OBVIOUS
      <3> QED BY <2>1, <3>1, <3>2 DEF SnapshotIsTrusted
    <2>3. s.keys[k].id # s.keys[3 - k].id
      <3>1. CASE k = 1
        BY <3>1 DEF SnapshotIsTrusted
      <3>2. CASE k = 2
        BY <3>2 DEF SnapshotIsTrusted
      <3> QED BY <2>1, <3>1, <3>2
    <2>4. /\ s.keys[k].from \in Nat /\ s.keys[k].until \in Nat
          /\ s.keys[k].status \in {"ACTIVE", "REVOKED", "UNKNOWN"}
      BY <1>1, <2>1 DEF SnapshotShape
    <2>5. Capable(s.keys[k], r) <=>
            /\ r.role \in s.keys[k].roles
            /\ s.keys[k].from <= r.from /\ r.until <= s.keys[k].until
            /\ s.keys[k].public = r.signer
      BY <1>1, <2>4 DEF Capable, RecordShape
    <2>6. Trusted(s, r) <=>
            /\ r.domain = Home /\ s.keys[k].status = "ACTIVE"
            /\ Capable(s.keys[k], r)
      BY <2>1, <2>2, <2>3, <2>5 DEF Trusted, SnapshotIsTrusted
    <2>7. Refuted(s, r) <=>
            \/ r.domain # Home
            \/ s.keys[k].status = "REVOKED"
            \/ s.keys[k].status = "ACTIVE" /\ ~Capable(s.keys[k], r)
      <3>1. s.keys[k].from <= r.from <=> ~(r.from < s.keys[k].from)
        BY <1>1, <2>4 DEF RecordShape
      <3>2. r.until <= s.keys[k].until <=> ~(s.keys[k].until < r.until)
        BY <1>1, <2>4 DEF RecordShape
      <3> QED BY <2>1, <2>2, <2>5, <3>1, <3>2 DEF Refuted
    <2>8. RecordVerdict(s, r) =
            IF r.domain # Home THEN "CONTRADICTED" ELSE KeyVerdict(s.keys[k], r)
      BY <1>3 DEF RecordVerdict, k
    <2> QED BY <2>4, <2>6, <2>7, <2>8 DEF Verdicts, KeyVerdict
  <1> QED BY <1>2, <1>3

-----------------------------------------------------------------------------
(* The files.                                                              *)

\* An edit of the case, of the resolution, of the references or of the artifacts
\* leaves files of the right shape.
LEMMA EditKeepsShape ==
  ASSUME NEW w, WorkShape(w)
  PROVE  /\ \A c \in Contents, a \in {"CURRENT", "STALE"} : WorkShape(WithEvent(w, c, a))
         /\ \A d \in Documents, doc \in Docs : WorkShape(WithDocument(w, d, doc))
         /\ \A t \in Texts, d \in Documents, f \in Facts : WorkShape(WithOperation(w, t, d, f))
         /\ \A r \in References : WorkShape(WithReferences(w, r))
         /\ \A s \in Sources : WorkShape(WithArtifacts(w, s))
  <1>1. ASSUME NEW c \in Contents, NEW a \in {"CURRENT", "STALE"}
        PROVE  WorkShape(WithEvent(w, c, a))
    <2> DEFINE case == [content |-> c, approvals |-> a, docs |-> w.case.docs]
    <2>2. case \in Cases
      BY DEF WorkShape, Cases
    <2>3. WithEvent(w, c, a)
            = [case |-> case, resolution |-> w.resolution,
               artifacts |-> w.artifacts, references |-> w.references]
      BY DEF WorkShape, WithEvent
    <2> HIDE DEF case
    <2> QED BY <2>2, <2>3 DEF WorkShape
  <1>2. ASSUME NEW d \in Documents, NEW doc \in Docs
        PROVE  WorkShape(WithDocument(w, d, doc))
    BY DEF WorkShape, Cases, WithDocument
  <1>3. ASSUME NEW t \in Texts, NEW d \in Documents, NEW f \in Facts
        PROVE  WorkShape(WithOperation(w, t, d, f))
    <2> DEFINE ops == [x \in DOMAIN w.resolution.ops \cup {d} |->
                         IF x = d THEN f ELSE w.resolution.ops[x]]
    <2>1. Partial(ops, Facts)
      BY DEF WorkShape, Partial
    <2>2. WithOperation(w, t, d, f)
            = [case |-> w.case, resolution |-> [text |-> t, ops |-> ops],
               artifacts |-> w.artifacts, references |-> w.references]
      BY DEF WorkShape, WithOperation
    <2> HIDE DEF ops
    <2> QED BY <2>1, <2>2 DEF WorkShape
  <1>4. ASSUME NEW r \in References
        PROVE  WorkShape(WithReferences(w, r))
    BY DEF WorkShape, WithReferences
  <1>5. ASSUME NEW s \in Sources
        PROVE  WorkShape(WithArtifacts(w, s))
    <2> DEFINE artifacts ==
          [d \in DOMAIN w.resolution.ops |->
             [supersedes |-> w.case.docs[d], facts |-> w.resolution.ops[d], source |-> s]]
    <2>1. Partial(artifacts, Artifacts)
      BY DEF WorkShape, Partial, Artifacts, Cases
    <2>2. WithArtifacts(w, s)
            = [case |-> w.case, resolution |-> w.resolution,
               artifacts |-> artifacts, references |-> w.references]
      BY DEF WorkShape, WithArtifacts
    <2> HIDE DEF artifacts
    <2> QED BY <2>1, <2>2 DEF WorkShape
  <1> QED BY <1>1, <1>2, <1>3, <1>4, <1>5

\* Two states of the files for which the same subject is derived are the same.
LEMMA SubjectNamesTheWork ==
  ASSUME NEW v, NEW w, NEW m, NEW n, WorkShape(v), WorkShape(w),
         SubjectOf(v, m) = SubjectOf(w, n)
  PROVE  v = w /\ m = n
  BY DEF SubjectOf, WorkShape

\* What a step of a call leaves alone.
EditStep ==
  EditEvent \/ EditDocument \/ EditResolution \/ EditReferences \/ Recapture

\* An edit adds a state of the right shape to the past.
LEMMA EditStepKeepsShape ==
  ASSUME TypeOK, EditStep
  PROVE  /\ stage = "IDLE" /\ UNCHANGED <<stage, call>>
         /\ WorkShape(work') /\ past' = past \cup {work'}
         /\ edits' = edits + 1 /\ edits < MaxEdits
  <1>1. WorkShape(work)
    BY DEF TypeOK
  <1>2. CASE EditEvent
    BY <1>1, <1>2, EditKeepsShape DEF EditEvent, Edit
  <1>3. CASE EditDocument
    BY <1>1, <1>3, EditKeepsShape DEF EditDocument, Edit
  <1>4. CASE EditResolution
    BY <1>1, <1>4, EditKeepsShape DEF EditResolution, Edit
  <1>5. CASE EditReferences
    BY <1>1, <1>5, EditKeepsShape DEF EditReferences, Edit
  <1>6. CASE Recapture
    BY <1>1, <1>6, EditKeepsShape DEF Recapture, Edit
  <1> QED BY <1>2, <1>3, <1>4, <1>5, <1>6 DEF EditStep

-----------------------------------------------------------------------------
(* The type invariant.                                                     *)

\* The files and their past keep their types on a step of a call.
LEMMA FilesKeepTypes ==
  ASSUME TypeOK, UNCHANGED <<work, past, edits>>
  PROVE  /\ WorkShape(work') /\ work' \in past' /\ \A w \in past' : WorkShape(w)
         /\ edits' \in 0..MaxEdits
         /\ Assertions' = Assertions /\ Evidence' = Evidence
  BY DEF TypeOK, Assertions, Approvable, Evidence

CallTypes ==
  /\ at \in 1..(Len(bundle.records) + 1) /\ pending \in BOOLEAN
  /\ verdict \in Verdicts \cup {None}
  /\ accepted \subseteq Assertions
  /\ result.before \in {"PASS", "CONTRADICTED", None}
  /\ result.after \in {"PASS", "CONTRADICTED", None}
  /\ result.baseline \in BOOLEAN

\* A fresh call has the types of a call, in either state of a step.
LEMMA FreshHasTypes == (Fresh => CallTypes) /\ (Fresh' => CallTypes')
  <1>1. NoResult.before = None /\ NoResult.after = None /\ NoResult.baseline = FALSE
    BY DEF NoResult
  <1>2. ASSUME Fresh PROVE CallTypes
    <2>1. Len(bundle.records) = 0
      BY <1>2 DEF Fresh
    <2>2. at \in 1..(Len(bundle.records) + 1)
      BY <1>2, <2>1 DEF Fresh
    <2> QED BY <1>1, <1>2, <2>2 DEF Fresh, CallTypes
  <1>3. ASSUME Fresh' PROVE CallTypes'
    <2>1. Len(bundle'.records) = 0
      BY <1>3 DEF Fresh
    <2>2. at' \in 1..(Len(bundle'.records) + 1)
      BY <1>3, <2>1 DEF Fresh
    <2> QED BY <1>1, <1>3, <2>2 DEF Fresh, CallTypes
  <1> QED BY <1>2, <1>3

\* The files of the first work have their shape, and no call is under way.
LEMMA TypesStart == Init => TypeOK /\ Fresh /\ stage = "IDLE"
  <1> SUFFICES ASSUME Init PROVE TypeOK /\ Fresh /\ stage = "IDLE"
    OBVIOUS
  <1>1. Fresh /\ stage = "IDLE"
    BY DEF Init, Fresh
  <1>2. WorkShape(work) /\ work \in past /\ (\A w \in past : WorkShape(w)) /\ edits \in 0..MaxEdits
    BY ApprovalAssumption DEF Init
  <1> QED BY <1>1, <1>2, FreshHasTypes DEF TypeOK, CallTypes

\* Every edit and every stage of a call keeps the types.
LEMMA TypesKeep == TypeOK /\ Gate /\ [Next]_vars => TypeOK'
  <1> SUFFICES ASSUME TypeOK, Gate, [Next]_vars PROVE TypeOK'
    OBVIOUS
  <1>1. CASE EditStep
    <2>1. Fresh /\ Fresh'
      BY <1>1, EditStepKeepsShape DEF Gate, Fresh, call
    <2>2. CallTypes'
      BY <2>1, FreshHasTypes
    <2>3. edits' \in 0..MaxEdits
      BY <1>1, EditStepKeepsShape, ApprovalAssumption DEF TypeOK
    <2> QED BY <1>1, <2>2, <2>3, EditStepKeepsShape DEF TypeOK, CallTypes
  <1>2. ASSUME NEW signed \in BOOLEAN, NEW records \in Packs, NEW s \in Snapshots,
               Authenticate(signed, records, s)
        PROVE  TypeOK'
    <2>1. Fresh
      BY <1>2 DEF Gate, Authenticate
    <2>2. Len(bundle'.records) \in Nat /\ at' = 1 /\ Pack(bundle'.records)
      BY <1>2, <2>1 DEF Authenticate, Fresh, Pack
    <2> QED BY <1>2, <2>1, <2>2, FilesKeepTypes DEF TypeOK, Authenticate, Refuse, Fresh,
               Verdicts
  <1>3. CASE CheckRecord
    <2>1. RecordVerdict(snapshot, bundle.records[at]) \in Verdicts
      <3>1. bundle.records[at] \in Records /\ snapshot \in Snapshots
        BY <1>3 DEF CheckRecord, TypeOK, Pack
      <3>2. SnapshotIsTrusted(snapshot)
        BY <1>3 DEF Gate, CheckRecord, Loop, Entered
      <3> QED BY <3>1, <3>2, RecordVerdictIsRight
    <2>2. Len(bundle.records) \in Nat
      BY <1>3 DEF CheckRecord, TypeOK, Pack
    <2>3. at' \in 1..(Len(bundle'.records) + 1)
      BY <1>3, <2>2 DEF CheckRecord, TypeOK
    <2>4. stage' \in {"RECORDS", "REFUSED"} /\ verdict' \in Verdicts \cup {None}
          /\ pending' \in BOOLEAN
      BY <1>3, <2>1 DEF CheckRecord, TypeOK, Refuse
    <2>5. stage # "IDLE" /\ UNCHANGED <<bundle, snapshot, nonce, accepted, result>>
      BY <1>3 DEF CheckRecord
    <2>6. UNCHANGED <<work, past, edits>>
      BY <1>3 DEF CheckRecord
    <2> QED BY <2>3, <2>4, <2>5, <2>6, FilesKeepTypes DEF TypeOK
  <1>4. CASE EndRecords
    BY <1>4, FilesKeepTypes DEF TypeOK, EndRecords, Refuse, Verdicts
  <1>5. ASSUME NEW w \in Approvable, NEW n \in Nonces, CheckSubject(w, n)
        PROVE  TypeOK'
    BY <1>5, FilesKeepTypes DEF TypeOK, CheckSubject, Refuse
  <1>6. ASSUME NEW a \in Assertions, CheckAssertion(a)
        PROVE  TypeOK'
    BY <1>6, FilesKeepTypes DEF TypeOK, CheckAssertion, Refuse
  <1>7. CASE EndAssertions
    BY <1>7, FilesKeepTypes DEF TypeOK, EndAssertions, Refuse, call
  <1>8. ASSUME NEW source \in Evidence, NEW resolved \in Evidence,
               Evaluate(source, resolved)
        PROVE  TypeOK'
    <2>1. \A case, evidence : RunStatus(case, evidence) \in {"PASS", "CONTRADICTED"}
      BY DEF RunStatus
    <2>2. CASE stage' = "DONE"
      <3>1. /\ result'.before = RunStatus(work.case, source)
            /\ result'.after = RunStatus(Resolved(work), resolved)
            /\ result'.baseline = (result'.after = "PASS")
        BY <1>8, <2>2 DEF Evaluate, Refuse
      <3>2. result'.baseline \in BOOLEAN
        BY <3>1
      <3>3. CallTypes'
        BY <1>8, <2>1, <3>1, <3>2, FilesKeepTypes DEF Evaluate, TypeOK, CallTypes
      <3> QED BY <1>8, <2>2, <3>3, FilesKeepTypes DEF TypeOK, Evaluate, CallTypes
    <2>3. CASE stage' # "DONE"
      BY <1>8, <2>3, FilesKeepTypes DEF TypeOK, Evaluate, Refuse
    <2> QED BY <2>2, <2>3
  <1>9. CASE Return
    <2>1. Fresh' /\ stage' = "IDLE" /\ UNCHANGED <<work, past, edits>>
      BY <1>9 DEF Return, Fresh
    <2>2. CallTypes'
      BY <2>1, FreshHasTypes
    <2> QED BY <2>1, <2>2, FilesKeepTypes DEF TypeOK, CallTypes
  <1>10. CASE UNCHANGED vars
    BY <1>10, FilesKeepTypes DEF TypeOK, vars, call
  <1> QED BY <1>1, <1>2, <1>3, <1>4, <1>5, <1>6, <1>7, <1>8, <1>9, <1>10
          DEF Next, EditStep

-----------------------------------------------------------------------------
(* The gate.                                                               *)

\* In the loop, the verdict on each record of the pack is right.
LEMMA LoopVerdicts ==
  ASSUME TypeOK, Entered, stage # "IDLE"
  PROVE  /\ Len(bundle.records) \in Nat
         /\ \A j \in 1..Len(bundle.records) :
              /\ Verdict(j) \in Verdicts
              /\ Verdict(j) = "CONTRADICTED" <=> Refuted(snapshot, bundle.records[j])
              /\ Verdict(j) = "PASS" <=> Trusted(snapshot, bundle.records[j])
  <1>1. Pack(bundle.records) /\ snapshot \in Snapshots
    BY DEF TypeOK
  <1>2. Len(bundle.records) \in Nat
    BY <1>1 DEF Pack
  <1>3. \A j \in 1..Len(bundle.records) : bundle.records[j] \in Records
    BY <1>1 DEF Pack
  <1>4. SnapshotIsTrusted(snapshot)
    BY DEF Entered
  <1> QED BY <1>1, <1>2, <1>3, <1>4, RecordVerdictIsRight DEF Verdict

\* A step that leaves the pack, the snapshot and the verdict alone.
LEMMA VerdictStays ==
  ASSUME UNCHANGED <<bundle, snapshot, verdict>>
  PROVE  (Passed' <=> Passed) /\ (VerdictIsWorst' <=> VerdictIsWorst) /\ (Entered' <=> Entered)
  BY DEF Passed, Entered, Verdict, VerdictIsWorst

\* A step that leaves the files, the pack, the nonce and the assertions alone.
LEMMA ApprovalStays ==
  ASSUME UNCHANGED <<work, bundle, nonce, accepted>>
  PROVE  (SubjectFits' <=> SubjectFits) /\ (AcceptedFits' <=> AcceptedFits)
         /\ (Complete' <=> Complete)
  BY DEF SubjectFits, AcceptedFits, Complete

\* Before the first call there is nothing to establish.
LEMMA GateStarts == Init => Gate /\ VerdictIsWorst
  <1> SUFFICES ASSUME Init PROVE Gate /\ VerdictIsWorst
    OBVIOUS
  <1>1. verdict = None /\ stage = "IDLE" /\ None # "PASS"
    BY DEF Init, None
  <1> QED BY <1>1, TypesStart DEF Gate, VerdictIsWorst

\* Every stage of a call establishes what Gate says of the next one, and keeps
\* what the earlier stages have established.
LEMMA GateKeeps ==
  TypeOK /\ VerdictIsWorst /\ Gate /\ [Next]_vars => Gate' /\ VerdictIsWorst'
  <1> SUFFICES ASSUME TypeOK, VerdictIsWorst, Gate, [Next]_vars
               PROVE  Gate' /\ VerdictIsWorst'
    OBVIOUS
  <1>0. None # "PASS"
    BY DEF None
  <1>1. CASE EditStep
    <2>1. Fresh /\ stage = "IDLE" /\ UNCHANGED <<stage, call>>
      BY <1>1, EditStepKeepsShape DEF Gate
    <2>2. Fresh' /\ stage' = "IDLE"
      BY <2>1 DEF Fresh, call
    <2> QED BY <1>0, <2>2 DEF Gate, VerdictIsWorst, Fresh
  <1>2. ASSUME NEW signed \in BOOLEAN, NEW records \in Packs, NEW s \in Snapshots,
               Authenticate(signed, records, s)
        PROVE  Gate' /\ VerdictIsWorst'
    <2>1. Fresh
      BY <1>2 DEF Gate, Authenticate
    <2>2. bundle' = [signed |-> signed, records |-> records] /\ snapshot' = s
          /\ bundle'.signed = signed /\ bundle'.records = records
      BY <1>2 DEF Authenticate
    <2>3. CASE stage' = "RECORDS"
      <3>1. signed /\ SnapshotIsTrusted(s) /\ RolesAreComplete(records)
            /\ verdict' = None /\ at' = 1 /\ pending' = FALSE /\ accepted' = {}
        BY <1>2, <2>1, <2>3 DEF Authenticate, Refuse, Fresh
      <3>2. Loop'
        BY <2>2, <3>1 DEF Loop, Entered
      <3> QED BY <1>0, <2>3, <3>1, <3>2 DEF Gate, VerdictIsWorst
    <2>4. CASE stage' # "RECORDS"
      <3>1. /\ stage' = "REFUSED"
            /\ \/ ~signed /\ verdict' = "UNVERIFIABLE"
               \/ /\ signed /\ ~(SnapshotIsTrusted(s) /\ RolesAreComplete(records))
                  /\ verdict' = "CONTRADICTED"
        BY <1>2, <2>4 DEF Authenticate, Refuse
      <3> QED BY <2>2, <3>1 DEF Gate, VerdictIsWorst
    <2> QED BY <2>3, <2>4
  <1>3. CASE CheckRecord
    <2> DEFINE v == RecordVerdict(snapshot, bundle.records[at])
    <2>1. /\ Loop /\ Entered /\ stage = "RECORDS" /\ accepted' = {}
          /\ at \in 1..Len(bundle.records) /\ Len(bundle.records) \in Nat
          /\ UNCHANGED <<bundle, snapshot>>
      BY <1>3, LoopVerdicts DEF Gate, CheckRecord, Loop, TypeOK
    <2>2. CASE v = "CONTRADICTED"
      <3>1. stage' = "REFUSED" /\ verdict' = "CONTRADICTED"
        BY <1>3, <2>2 DEF CheckRecord, Refuse
      <3>2. Refuted(snapshot, bundle.records[at])
        BY <2>1, <2>2, LoopVerdicts DEF Verdict
      <3> QED BY <2>1, <3>1, <3>2 DEF Gate, VerdictIsWorst, Entered
    <2>3. CASE v # "CONTRADICTED"
      <3>1. /\ at' = at + 1 /\ stage' = "RECORDS" /\ verdict' = None
            /\ pending' = (pending \/ v = "UNVERIFIABLE")
        BY <1>3, <2>1, <2>3 DEF CheckRecord, Refuse, Loop
      <3>2. \A j \in 1..Len(bundle.records) : Verdict(j)' = Verdict(j)
        BY <2>1 DEF Verdict
      <3>3. \A j \in 1..(at' - 1) : j \in 1..(at - 1) \/ j = at
        BY <2>1, <3>1
      <3>4. \A j \in 1..(at' - 1) : j \in 1..Len(bundle.records)
        BY <2>1, <3>1
      <3>5. \A j \in 1..(at' - 1) : Verdict(j)' # "CONTRADICTED"
        BY <2>1, <2>3, <3>2, <3>3, <3>4 DEF Loop, Verdict
      <3>6. at \in 1..(at' - 1) /\ \A j \in 1..(at - 1) : j \in 1..(at' - 1)
        BY <2>1, <3>1
      <3>7. pending' <=> \E j \in 1..(at' - 1) : Verdict(j)' = "UNVERIFIABLE"
        BY <2>1, <3>1, <3>2, <3>3, <3>4, <3>6 DEF Loop, Verdict
      <3>8. Loop'
        BY <2>1, <3>1, <3>5, <3>7 DEF Loop, Entered
      <3> QED BY <1>0, <2>1, <3>1, <3>8 DEF Gate, VerdictIsWorst
    <2> QED BY <2>2, <2>3
  <1>4. CASE EndRecords
    <2>1. /\ Loop /\ Entered /\ stage = "RECORDS" /\ Len(bundle.records) \in Nat
          /\ at = Len(bundle.records) + 1 /\ accepted' = {}
          /\ UNCHANGED <<bundle, snapshot>>
      BY <1>4, LoopVerdicts DEF Gate, EndRecords, Loop, TypeOK
    <2>2. \A j \in 1..Len(bundle.records) : Verdict(j) # "CONTRADICTED"
      BY <2>1 DEF Loop
    <2>3. pending <=> \E j \in 1..Len(bundle.records) : Verdict(j) = "UNVERIFIABLE"
      BY <2>1 DEF Loop
    <2>4. ~\E j \in 1..Len(bundle.records) : Refuted(snapshot, bundle.records[j])
      BY <2>1, <2>2, LoopVerdicts
    <2>5. CASE pending
      <3>1. stage' = "REFUSED" /\ verdict' = "UNVERIFIABLE"
        BY <1>4, <2>5 DEF EndRecords, Refuse
      <3>2. ~\A j \in 1..Len(bundle.records) : Trusted(snapshot, bundle.records[j])
        BY <2>1, <2>3, <2>5, LoopVerdicts
      <3> QED BY <2>1, <2>4, <3>1, <3>2 DEF Gate, VerdictIsWorst, Entered
    <2>6. CASE ~pending
      <3>1. stage' = "SUBJECT" /\ verdict' = "PASS"
        BY <1>4, <2>6 DEF EndRecords
      <3>2. \A j \in 1..Len(bundle.records) : Verdict(j) = "PASS"
        BY <2>1, <2>2, <2>3, <2>6, LoopVerdicts DEF Verdicts
      <3>3. \A j \in 1..Len(bundle.records) : Trusted(snapshot, bundle.records[j])
        BY <2>1, <3>2, LoopVerdicts
      <3>4. Passed'
        BY <2>1, <3>2 DEF Passed, Entered, Verdict
      <3> QED BY <2>1, <2>4, <3>1, <3>3, <3>4 DEF Gate, VerdictIsWorst, Entered
    <2> QED BY <2>5, <2>6
  <1>5. ASSUME NEW w \in Approvable, NEW n \in Nonces, CheckSubject(w, n)
        PROVE  Gate' /\ VerdictIsWorst'
    <2>1. /\ verdict = "PASS" /\ Passed /\ accepted = {} /\ accepted' = {}
          /\ UNCHANGED <<work, bundle, snapshot, verdict>>
      BY <1>5 DEF Gate, CheckSubject
    <2>2. Passed' /\ VerdictIsWorst' /\ verdict' = "PASS"
      BY <2>1, VerdictStays
    <2>3. CASE stage' = "ASSERTIONS"
      <3>1. SubjectFits'
        BY <1>5, <2>1, <2>3 DEF SubjectFits, CheckSubject, Refuse, ArtifactsFit
      <3>2. AcceptedFits'
        BY <2>1 DEF AcceptedFits
      <3> QED BY <2>2, <2>3, <3>1, <3>2 DEF Gate
    <2>4. CASE stage' # "ASSERTIONS"
      <3>1. stage' = "REFUSED"
        BY <1>5, <2>4 DEF CheckSubject, Refuse
      <3> QED BY <2>2, <3>1 DEF Gate
    <2> QED BY <2>3, <2>4
  <1>6. ASSUME NEW a \in Assertions, CheckAssertion(a)
        PROVE  Gate' /\ VerdictIsWorst'
    <2>1. /\ verdict = "PASS" /\ Passed /\ SubjectFits /\ AcceptedFits
          /\ UNCHANGED <<work, bundle, snapshot, verdict, nonce>>
      BY <1>6 DEF Gate, CheckAssertion
    <2>2. Passed' /\ VerdictIsWorst' /\ verdict' = "PASS"
      BY <2>1, VerdictStays
    <2>3. CASE Approves(a)
      <3>1. accepted' = accepted \cup {a} /\ stage' = "ASSERTIONS" /\ AssertionShape(a)
        BY <1>6, <2>3 DEF CheckAssertion
      <3>2. AcceptedFits'
        BY <2>1, <2>3, <3>1 DEF AcceptedFits, Approves
      <3>3. SubjectFits'
        BY <2>1 DEF SubjectFits, ArtifactsFit
      <3> QED BY <2>2, <3>1, <3>2, <3>3 DEF Gate
    <2>4. CASE ~Approves(a)
      <3>1. stage' = "REFUSED"
        BY <1>6, <2>4 DEF CheckAssertion, Refuse
      <3> QED BY <2>2, <3>1 DEF Gate
    <2> QED BY <2>3, <2>4
  <1>7. CASE EndAssertions
    <2>1. /\ verdict = "PASS" /\ Passed /\ SubjectFits /\ AcceptedFits
          /\ UNCHANGED <<work, bundle, snapshot, verdict, nonce, accepted>>
      BY <1>7 DEF Gate, EndAssertions, call
    <2>2. Passed' /\ VerdictIsWorst' /\ verdict' = "PASS"
      BY <2>1, VerdictStays
    <2>3. SubjectFits' /\ AcceptedFits' /\ (Complete' <=> Complete)
      BY <2>1, ApprovalStays
    <2>4. (stage' = "APPROVED" /\ Complete) \/ stage' = "REFUSED"
      BY <1>7 DEF EndAssertions, Refuse, Complete
    <2> QED BY <2>2, <2>3, <2>4 DEF Gate
  <1>8. ASSUME NEW source \in Evidence, NEW resolved \in Evidence,
               Evaluate(source, resolved)
        PROVE  Gate' /\ VerdictIsWorst'
    <2>1. /\ verdict = "PASS" /\ Passed /\ SubjectFits /\ AcceptedFits /\ Complete
          /\ UNCHANGED <<work, past, bundle, snapshot, verdict, nonce, accepted>>
      BY <1>8 DEF Gate, Evaluate
    <2>2. Passed' /\ VerdictIsWorst' /\ verdict' = "PASS"
      BY <2>1, VerdictStays
    <2>3. SubjectFits' /\ AcceptedFits' /\ Complete'
      BY <2>1, ApprovalStays
    <2>4. CASE stage' = "DONE"
      <3>1. /\ resolved.phase = "RESOLVED" /\ result'.report = resolved
            /\ result'.baseline = (RunStatus(Resolved(work), resolved) = "PASS")
        BY <1>8, <2>4 DEF Evaluate, Refuse
      <3>2. RunStatus(Resolved(work), resolved)' = RunStatus(Resolved(work), resolved)
            /\ resolved \in Evidence'
        BY <2>1 DEF RunStatus, Evidence
      <3>3. After'
        BY <2>1, <3>1, <3>2 DEF After
      <3> QED BY <2>2, <2>3, <2>4, <3>3 DEF Gate
    <2>5. CASE stage' # "DONE"
      <3>1. stage' = "REFUSED"
        BY <1>8, <2>5 DEF Evaluate, Refuse
      <3> QED BY <2>2, <3>1 DEF Gate
    <2> QED BY <2>4, <2>5
  <1>9. CASE Return
    <2>1. Fresh' /\ stage' = "IDLE"
      BY <1>9 DEF Return, Fresh
    <2> QED BY <1>0, <2>1 DEF Gate, VerdictIsWorst, Fresh
  <1>10. CASE UNCHANGED vars
    BY <1>10 DEF Gate, VerdictIsWorst, Fresh, Loop, Entered, Verdict, Passed, SubjectFits,
        AcceptedFits, Complete, After, Evidence, vars, call
  <1> QED BY <1>1, <1>2, <1>3, <1>4, <1>5, <1>6, <1>7, <1>8, <1>9, <1>10
          DEF Next, EditStep

-----------------------------------------------------------------------------
(* The theorems.                                                           *)

\* Two states of the files that evidence cannot tell apart differ at most in the
\* approvals of the event.
LEMMA EvidenceNamesTheCase ==
  ASSUME NEW c \in Cases, NEW d \in Cases, EvidenceSubject(c) = EvidenceSubject(d)
  PROVE  [c EXCEPT !.approvals = d.approvals] = d
  BY DEF EvidenceSubject, Cases

\* The replacement artifacts make a case of a case.
LEMMA ResolvedIsACase ==
  ASSUME NEW w, WorkShape(w)
  PROVE  Resolved(w) \in Cases /\ Resolved(w).approvals = w.case.approvals
  <1> DEFINE docs == [d \in Documents |->
                        IF d \in DOMAIN w.artifacts
                        THEN [facts |-> w.artifacts[d].facts, source |-> w.artifacts[d].source]
                        ELSE w.case.docs[d]]
  <1>1. docs \in [Documents -> Docs]
    BY DEF WorkShape, Partial, Artifacts, Cases, Docs
  <1>2. Resolved(w) = [w.case EXCEPT !.docs = docs] /\ w.case \in Cases
    BY DEF Resolved, WorkShape
  <1> HIDE DEF docs
  <1> QED BY <1>1, <1>2 DEF Cases

\* What the gate has established past it (workflow.py:1734-1781).
LEMMA GateApproves == TypeOK /\ Gate => ApprovalIsForThisWork
  <1> SUFFICES ASSUME TypeOK, Gate, stage \in {"APPROVED", "DONE"}
               PROVE  /\ ArtifactsFit(work)
                      /\ \A role \in Approvers : \E a \in accepted : a.role = role
                      /\ \A a, b \in accepted : a.role = b.role => a = b
                      /\ \A a \in accepted :
                           /\ a.made = work /\ a.nonce = nonce
                           /\ \E i \in 1..Len(bundle.records) : bundle.records[i] = a.record
                           /\ a.record.role = a.role
                           /\ Trusted(snapshot, a.record)
                           /\ a.record.issued <= a.issued /\ a.issued <= a.record.until
    BY DEF ApprovalIsForThisWork
  <1>1. SubjectFits /\ AcceptedFits /\ Complete /\ Passed
    BY DEF Gate
  <1>2. \A role \in Approvers : \E a \in accepted : a.role = role
    BY <1>1 DEF Complete
  <1>3. ASSUME NEW a \in accepted
        PROVE  /\ a.made = work /\ a.nonce = nonce
               /\ \E i \in 1..Len(bundle.records) : bundle.records[i] = a.record
               /\ a.record.role = a.role
               /\ Trusted(snapshot, a.record)
               /\ a.record.issued <= a.issued /\ a.issued <= a.record.until
    <2>1. SubjectOf(a.made, a.nonce) = SubjectOf(work, nonce) /\ a.record.role = a.role
      BY <1>1 DEF AcceptedFits
    <2>2. WorkShape(a.made) /\ WorkShape(work)
      BY DEF TypeOK, Assertions, Approvable
    <2>3. a.made = work /\ a.nonce = nonce
      BY <2>1, <2>2, SubjectNamesTheWork
    <2>4. PICK i \in 1..Len(bundle.records) : bundle.records[i] = a.record
      BY <1>1 DEF AcceptedFits
    <2>5. Entered /\ stage # "IDLE" /\ Verdict(i) = "PASS"
      BY <1>1 DEF Passed
    <2>6. Trusted(snapshot, a.record)
      BY <2>4, <2>5, LoopVerdicts
    <2>7. a.record.issued <= a.issued /\ a.issued <= a.record.until
      BY <1>1 DEF Complete, AcceptedFits, AssertionShape
    <2> QED BY <2>1, <2>3, <2>4, <2>6, <2>7
  <1> QED BY <1>1, <1>2, <1>3 DEF SubjectFits, AcceptedFits

\* What the run of the resolved case has established (workflow.py:1251-1277).
LEMMA GateProves == TypeOK /\ Gate => BaselineIsProved
  <1> SUFFICES ASSUME TypeOK, Gate, stage = "DONE", result.baseline
               PROVE  /\ result.report.phase = "RESOLVED" /\ result.report.result = "PASS"
                      /\ [result.report.of EXCEPT !.approvals = work.case.approvals]
                           = Resolved(work)
                      /\ CaseIsReady(Resolved(work))
                      /\ \A a \in accepted :
                           EvidenceSubject(result.report.of)
                             = SubjectOf(a.made, a.nonce).policy.resolved
    BY DEF BaselineIsProved
  <1>1. /\ After /\ AcceptedFits
        /\ WorkShape(work) /\ \A w \in past : WorkShape(w)
    BY DEF Gate, TypeOK
  <1>2. /\ result.report.phase = "RESOLVED" /\ result.report.result = "PASS"
        /\ CaseIsReady(Resolved(work))
        /\ EvidenceSubject(result.report.of) = EvidenceSubject(Resolved(work))
    BY <1>1 DEF After, RunStatus
  <1>3. result.report.of \in Cases
    <2>1. result.report.of \in {w.case : w \in past} \cup {Resolved(w) : w \in past}
      BY <1>1 DEF After, Evidence
    <2> QED BY <1>1, <2>1, ResolvedIsACase DEF WorkShape
  <1>4. Resolved(work) \in Cases /\ Resolved(work).approvals = work.case.approvals
    BY <1>1, ResolvedIsACase
  <1>5. [result.report.of EXCEPT !.approvals = work.case.approvals] = Resolved(work)
    BY <1>2, <1>3, <1>4, EvidenceNamesTheCase
  <1>6. ASSUME NEW a \in accepted
        PROVE  EvidenceSubject(result.report.of) = SubjectOf(a.made, a.nonce).policy.resolved
    <2>1. SubjectOf(a.made, a.nonce) = SubjectOf(work, nonce)
      BY <1>1 DEF AcceptedFits
    <2>2. SubjectOf(work, nonce).policy.resolved = EvidenceSubject(Resolved(work))
      BY DEF SubjectOf, Policy
    <2> QED BY <1>2, <2>1, <2>2
  <1> QED BY <1>2, <1>5, <1>6

\* The inductive invariant of the workflow: types, the verdict on the pack, and
\* what every stage of the call has established.
THEOREM Invariance == Spec => []IInv
  <1>1. Init => IInv
    BY TypesStart, GateStarts DEF IInv
  <1>2. IInv /\ [Next]_vars => IInv'
    BY TypesKeep, GateKeeps DEF IInv
  <1> QED BY <1>1, <1>2, PTL DEF Spec

\* The files, the stages and the values of a call have their types.
THEOREM TypeCorrect == Spec => []TypeOK
  <1>1. IInv => TypeOK
    BY DEF IInv
  <1> QED BY <1>1, Invariance, PTL

\* The verdict on a pack is the worst of its records, in whatever order the loop
\* meets them (authorization_authenticity.py:543-603).
THEOREM VerdictIsOrderless == Spec => []VerdictIsWorst
  <1>1. IInv => VerdictIsWorst
    BY DEF IInv
  <1> QED BY <1>1, Invariance, PTL

\* No call gets past the gate with an approval of other files, of another
\* execution, or under a record nobody vouches for (workflow.py:1734-1781).
THEOREM ApprovalsBind == Spec => []ApprovalIsForThisWork
  <1>1. IInv => ApprovalIsForThisWork
    BY GateApproves DEF IInv
  <1> QED BY <1>1, Invariance, PTL

\* No baseline rests on evidence about another case than the one its approvers
\* had named (validation_evidence.py:224-270, workflow.py:1251-1277).
THEOREM BaselinesAreProved == Spec => []BaselineIsProved
  <1>1. IInv => BaselineIsProved
    BY GateProves DEF IInv
  <1> QED BY <1>1, Invariance, PTL
=============================================================================
