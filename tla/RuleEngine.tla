----------------------------- MODULE RuleEngine -----------------------------
(***************************************************************************)
(* A case under edit, as the benchmark (evaluation.py, docs/BENCHMARK.md)  *)
(* and the mutation commands put it to the rules: apply_mutation changes   *)
(* it, validate_case refuses what is malformed, a laboratory issues        *)
(* validation reports for the case as it is at that moment, and a          *)
(* resolution replaces documents by new artifacts.  The baseline and the   *)
(* thirty mutations are the data of qualityci-bench; the other edits are   *)
(* the same operations with other values.                                  *)
(***************************************************************************)
EXTENDS ReferenceContext

CONSTANTS
  MaxWork,      \* bound: an edit costs 2 of it, a resolution 3, a bad report 2
  MaxRevision,  \* bound: event revisions
  Revisions     \* revisions a new artifact may have

ASSUME RuleAssumption ==
  /\ MaxWork \in Nat
  /\ MaxRevision \in Nat \ {0, 1}
  /\ Revisions \subseteq Nat

VARIABLES
  case,      \* the case, after the edits so far
  origin,    \* the case before the first edit
  reports,   \* the validation bundle, evidence id -> report, or None
  made,      \* history: the case each report was issued for
  context,   \* the sealed reference context of the case's lineage
  cited,     \* what the raw inspection record in force said it used, and which
             \* raw documents these were when it was accepted
  applied,   \* history: the edits applied, each one at most once
  resolved   \* history: how many resolutions were applied

vars == <<case, origin, reports, made, context, cited, applied, resolved>>

(* The baseline: days 1 to 10, the event is approved on day 5. *)

Steps == {"WELD", "CLEAN", "ASSEMBLE", "INSPECT"}
Seam == <<"WELD", "SPATTER">>
Row(spec, controls) == [spec |-> spec, controls |-> controls]
Only(pair, row) == [p \in {pair} |-> row]
Risk(step, special) == [mode |-> "SPATTER_SEAT", pair |-> <<step, "SPATTER">>, special |-> special]
Signed(role, decision, revision) == [role |-> role, decision |-> decision, revision |-> revision]
Signatures(revision) == {Signed(role, "APPROVED", revision) : role \in Approvers}
Evidence == [from |-> 1, until |-> 40, terms |-> "CHANGE_EFFECTIVE"]

(* Types *)

Specs == {"max0", "max1", "max0_per_cm2"}
Chars == {"SPATTER", "TORQUE"}
Identities == [revision : Nat, source : Nat]
Risks == [mode : {"SPATTER_SEAT", "SEAT_DAMAGE"}, pair : Steps \X Chars, special : BOOLEAN]
RowTables == {<<>>} \cup [{Seam} -> [spec : Specs, controls : SUBSET ControlFields]]
Waivers == [revision : Nat, roles : {Approvers}, from : Nat, until : Nat]

\* References of a migrated case are kept under a role of their own.
Holders == Roles \cup {"WORK_CARD", "LEGACY_UNATTESTED"}
ReferencesOf(R) == [R -> Identities \cup [Roles -> [revision : Nat]]]
References == UNION {ReferencesOf(R) : R \in SUBSET Holders}

Documents ==
  [revision : Nat, source : Nat, date : Nat, steps : SUBSET Steps, rows : RowTables,
   risks : SUBSET Risks, waiver : Waivers \cup {None}, references : References \cup {None},
   unbound : BOOLEAN]

Approvals ==
  [role : Approvers \cup {"PLANT_MANAGER"}, decision : {"APPROVED", "REJECTED"},
   revision : Nat]

Plan == [id \in {"VAL1"} |-> Evidence]

EventsOf(approvals, claims) ==
  [revision : Nat, approved_at : Nat \cup {None}, risk_level : {"HIGH", "MEDIUM"},
   steps : SUBSET Steps, chars : SUBSET Chars, links : SUBSET (Steps \X Chars),
   approvals : approvals, plan : {Plan, None}, claims : claims]
Events == EventsOf(SUBSET Approvals, {"none", "absent", "PASS", "FAIL"})

CasesOf(events) ==
  [event : events, docs : [DocTypes -> Documents],
   migrations : SUBSET {"relationship", "reference", "validation"}]
Cases == CasesOf(Events)

Contexts == [inspection : Identities, claims : [Roles -> Identities],
             targets : [Roles -> Identities]]
Plans == [{"VAL1"} -> [from : Nat, until : Nat, terms : {"CHANGE_EFFECTIVE"}]]
Scopes == [revision : Nat, risk_level : {"HIGH", "MEDIUM"}, steps : SUBSET Steps,
           chars : SUBSET Chars, links : SUBSET (Steps \X Chars), plan : {Plan, None}]
Bundles == [{"VAL1"} ->
              [result : {"PASS", "FAIL"}, revision : Nat, scope : Scopes,
               subject : CasesOf(EventsOf({{}}, {{}})), terms : {"CHANGE_EFFECTIVE"},
               performed : Nat, issued : Nat]]

\* What is absent is no day, specification, waiver, set of references, context, plan or
\* bundle.
ASSUME NoneAssumption ==
  /\ None \notin Nat \cup Specs \cup Waivers \cup Contexts \cup Plans \cup Bundles
  /\ \A R \in SUBSET Holders : None \notin ReferencesOf(R)

Document(steps, date, rows) ==
  [revision |-> 2, source |-> 2, date |-> date, steps |-> steps, rows |-> rows,
   risks |-> {}, waiver |-> None, references |-> None, unbound |-> FALSE]

CurrentIdentity == [revision |-> 2, source |-> 2]

BaselineDocs ==
  [PROCESS_FLOW |-> Document(Steps, 6, <<>>),
   PFMEA |-> [Document(Steps, 6, <<>>) EXCEPT !.risks = {Risk("WELD", TRUE)}],
   CONTROL_PLAN |-> Document(Steps, 7, Only(Seam, Row("max0", ControlFields))),
   SOP |-> Document({"WELD"}, 7, Only(Seam, Row("max0", {}))),
   INSPECTION_RECORD |->
     [Document({"WELD"}, 8, Only(Seam, Row("max0", {}))) EXCEPT
        !.references = [role \in Roles |-> CurrentIdentity]]]

Baseline ==
  [event |-> [revision |-> 2, approved_at |-> 5, risk_level |-> "HIGH",
              steps |-> {"WELD", "INSPECT"}, chars |-> {"SPATTER"}, links |-> {Seam},
              approvals |-> Signatures(2),
              plan |-> [id \in {"VAL1"} |-> Evidence],
              claims |-> "none"],
   docs |-> BaselineDocs,
   migrations |-> {}]

\* The same case before there were pairs: rows name a characteristic only.
Legacy(steps) ==
  [Baseline EXCEPT
     !.event.steps = steps, !.event.links = {}, !.event.plan = None,
     !.docs = [t \in DocTypes |->
                 [Baseline.docs[t] EXCEPT
                    !.rows = <<>>, !.risks = {}, !.unbound = t # "PROCESS_FLOW",
                    !.references = IF @ = None THEN None
                                   ELSE [role \in Roles |-> [revision |-> 2]]]]]

\* The sealed reference context of reference_sources.
PackContext ==
  [inspection |-> CurrentIdentity, claims |-> [role \in Roles |-> CurrentIdentity],
   targets |-> [role \in Roles |-> CurrentIdentity]]

(* The edits. *)

\* Rows are set as a whole list, so rows without a step go away with it.
SetRows(c, t, rows) == [c EXCEPT !.docs[t].rows = rows, !.docs[t].unbound = FALSE]
SetRow(c, t, row) == SetRows(c, t, Only(Seam, row))
SetControls(c, controls) == SetRow(c, "CONTROL_PLAN", Row("max0", controls))
SetRisk(c, risk) == [c EXCEPT !.docs["PFMEA"].risks = {risk}, !.docs["PFMEA"].unbound = FALSE]
SetApprovals(c, approvals) == [c EXCEPT !.event.approvals = approvals]
SetDate(c, t, day) == [c EXCEPT !.docs[t].date = day]
SetClaims(c, claims) == [c EXCEPT !.event.claims = claims]
Waiver(revision) == [revision |-> revision, roles |-> Approvers, from |-> 2, until |-> 9]

Benchmark ==
  {"M001", "M002", "M003", "M004", "M005", "M006", "M007", "M008", "M009", "M010",
   "M011", "M012", "M013", "M014", "M015", "M016", "M017", "M018", "M019", "M020",
   "M021", "M022", "M023", "M024", "M025", "M026", "M027", "M028", "M029", "M030"}

\* The thirty mutations, as field edits: m makes d of c.
Mutated(m, c, d) ==
  \/ m = "M001" /\ d = SetDate([SetRow(c, "SOP", Row("max1", {})) EXCEPT
                                !.docs["SOP"].revision = 1], "SOP", 1)
  \/ m = "M002" /\ d = SetClaims(c, "absent")
  \/ m = "M003" /\ d = SetControls(c, ControlFields \ {"reaction_plan"})
  \/ m = "M004" /\ d = SetApprovals(c, {Signed("PROCESS_OWNER", "APPROVED", 2)})
  \/ m = "M005" /\ d = [c EXCEPT !.docs["INSPECTION_RECORD"].references["SOP"].revision = 1]
  \/ m = "M006" /\ d = SetRows(c, "SOP", <<>>)
  \/ m = "M007" /\ d = SetRisk(c, Risk("CLEAN", TRUE))
  \/ m = "M008" /\ d = [c EXCEPT !.docs["CONTROL_PLAN"].steps = Steps \ {"INSPECT"}]
  \/ m = "M009" /\ d = [c EXCEPT !.event.steps = {}, !.event.links = {}]
  \/ m = "M010" /\ d = [c EXCEPT !.event.chars = {}, !.event.links = {}]
  \/ m = "M011" /\ d = SetRow(c, "SOP", Row("max0_per_cm2", {}))
  \/ m = "M012" /\ d = SetRow(c, "INSPECTION_RECORD", Row("max1", {}))
  \/ m = "M013" /\ d = SetRows(c, "CONTROL_PLAN", <<>>)
  \/ m = "M014" /\ d = SetControls(c, ControlFields \ {"control_method"})
  \/ m = "M015" /\ d = SetControls(c, ControlFields \ {"frequency"})
  \/ m = "M016" /\ d = SetRisk(c, Risk("WELD", FALSE))
  \/ m = "M017" /\ d = [c EXCEPT !.event.approved_at = None]
  \/ m = "M018" /\ d = [SetDate(c, "PROCESS_FLOW", 2) EXCEPT !.docs["PROCESS_FLOW"].waiver = Waiver(2)]
  \/ m = "M019" /\ d = SetDate(c, "PROCESS_FLOW", 2)
  \/ m = "M020" /\ d = SetDate(c, "SOP", 3)
  \/ m = "M021" /\ d = [c EXCEPT !.docs["INSPECTION_RECORD"].references = None]
  \/ m = "M022" /\ d = [c EXCEPT !.docs["INSPECTION_RECORD"].references =
                        [role \in DOMAIN @ \cup {"WORK_CARD"} |->
                           IF role \in DOMAIN @ THEN @[role] ELSE [revision |-> 1, source |-> 1]]]
  \/ m \in {"M023", "M025"} /\ d = SetClaims(c, "FAIL")
  \/ m = "M024" /\ d = SetClaims(c, "PASS")
  \/ m = "M026" /\ d = SetApprovals([c EXCEPT !.event.risk_level = "MEDIUM"], {})
  \/ m = "M027" /\ d = SetApprovals(c, {})
  \/ m = "M028" /\ d = SetApprovals(c, Signatures(1))
  \/ m = "M029" /\ d = [c EXCEPT !.event.approved_at = 10]
  \/ m = "M030" /\ d = SetApprovals(SetClaims(SetControls(SetRow(SetRisk(
                       c, Risk("CLEAN", TRUE)), "SOP", Row("max1", {})),
                       ControlFields \ {"reaction_plan"}), "absent"), {})

\* Legacy rows given their step by hand, but for those of document t, which get
\* rows with a step beside them; with references and a plan to match.
Rebound(c, t) ==
  [c EXCEPT
     !.event.links = {Seam}, !.event.plan = Baseline.event.plan,
     !.docs = [d \in DocTypes |->
                 [c.docs[d] EXCEPT
                    !.rows = BaselineDocs[d].rows, !.risks = BaselineDocs[d].risks,
                    !.references = BaselineDocs[d].references,
                    !.unbound = @ /\ d = t]]]

Others ==
  {"REVISE", "SIGN", "REJECT", "ADD_CHARACTERISTIC", "ADD_STEP", "LINK_STEP", "LINK_OTHER",
   "SECOND_RISK", "REBIND", "REBIND_PFMEA", "REBIND_CONTROL_PLAN", "REBIND_SOP",
   "REBIND_INSPECTION_RECORD", "FOLLOW_REFERENCES"}

Revised(e, c, d) ==
  \/ e = "REVISE" /\ d = [c EXCEPT !.event.revision = @ + 1]
  \/ e = "SIGN" /\ d = SetApprovals(c, Signatures(c.event.revision))
  \/ e = "REJECT" /\ d = SetApprovals(c, Signatures(c.event.revision) \cup
                            {Signed("PLANT_MANAGER", "REJECTED", c.event.revision)})
  \/ e = "ADD_CHARACTERISTIC" /\ d = [c EXCEPT !.event.chars = @ \cup {"TORQUE"}]
  \/ e = "ADD_STEP" /\ d = [c EXCEPT !.event.steps = @ \cup {"CLEAN"}]
  \/ e = "LINK_STEP" /\ d = [c EXCEPT !.event.links = @ \cup {<<"CLEAN", "SPATTER">>}]
  \/ e = "LINK_OTHER" /\ d = [c EXCEPT !.event.links = @ \cup {<<"WELD", "TORQUE">>}]
  \/ e = "SECOND_RISK" /\ d = [c EXCEPT !.docs["PFMEA"].risks = @ \cup
                                 {[mode |-> "SEAT_DAMAGE", pair |-> Seam, special |-> FALSE]}]
  \/ e = "FOLLOW_REFERENCES" /\ d = [c EXCEPT !.docs["INSPECTION_RECORD"].references =
                                       [role \in Roles |-> Identity(c.docs[role])]]
  \/ e = "REBIND" /\ d = Rebound(c, None)
  \/ e = "REBIND_PFMEA" /\ d = Rebound(c, "PFMEA")
  \/ e = "REBIND_CONTROL_PLAN" /\ d = Rebound(c, "CONTROL_PLAN")
  \/ e = "REBIND_SOP" /\ d = Rebound(c, "SOP")
  \/ e = "REBIND_INSPECTION_RECORD" /\ d = Rebound(c, "INSPECTION_RECORD")

\* The path of the operation exists, and the edit stays within the bounds.
Applies(e, c) ==
  LET references == c.docs["INSPECTION_RECORD"].references IN
  /\ e = "M005" => references # None /\ "SOP" \in DOMAIN references
  /\ e = "M022" => references # None
  /\ e = "REVISE" => c.event.revision < MaxRevision

Edited(e, c, d) == Applies(e, c) /\ (Mutated(e, c, d) \/ Revised(e, c, d))

\* A validation of the case as it is, for every requirement of its plan.
Reported(c, result, day) ==
  [id \in DOMAIN c.event.plan |->
     [result |-> result, revision |-> c.event.revision, scope |-> Scope(c),
      subject |-> Subject(c), terms |-> c.event.plan[id].terms,
      performed |-> day, issued |-> day]]

Init ==
  /\ case \in {Baseline, MigrateLegacyRelationships(Legacy({"WELD"})),
               MigrateLegacyRelationships(Legacy({"WELD", "INSPECT"}))}
  /\ origin = case
  /\ reports = None
  /\ made = None
  /\ context = PackContext
  /\ cited = [role \in Roles |-> CurrentIdentity]
  /\ applied = {}
  /\ resolved = 0

Good == [result |-> "PASS", day |-> 5]

\* The reports in force fail, or were made after the window of the plan.
Unfit == reports # None /\ \E id \in DOMAIN reports :
           [result |-> reports[id].result, day |-> reports[id].issued] # Good

Changes == 2 * Cardinality(applied) + 3 * resolved
Work == Changes + (IF Unfit THEN 2 ELSE 0)

\* Mutant: the edited case is not validated again.
EditUnvalidated(e) ==
  /\ Work + 2 <= MaxWork /\ e \notin applied
  /\ Edited(e, case, case')
  /\ applied' = applied \cup {e}
  /\ UNCHANGED <<origin, reports, made, context, cited, resolved>>

\* apply_mutation, then prepare_case: a malformed result is an error.
Edit(e) ==
  /\ Work + 2 <= MaxWork /\ e \notin applied
  /\ Edited(e, case, case')
  /\ ValidCase(case')
  /\ applied' = applied \cup {e}
  /\ UNCHANGED <<origin, reports, made, context, cited, resolved>>

\* Within the window of the plan (day 5) or after it (day 50).
Issue(result, day) ==
  /\ case.event.plan # None
  /\ [result |-> result, day |-> day] = Good \/ Changes + 2 <= MaxWork
  /\ reports' = Reported(case, result, day)
  /\ made' = case
  /\ UNCHANGED <<case, origin, context, cited, applied, resolved>>

(* Resolutions. *)

Replaceable == Controlled \cup {"PFMEA"}

\* New artifacts of one revision, with bytes nobody has seen.
Artifacts(types, revision) ==
  [t \in types |-> [revision |-> revision, source |-> 3 + resolved]]

\* resolve_case_from_artifact_context: the replaced documents are rebuilt from
\* their artifacts, which say what the baseline says.
Rebuilt(c, raw, after) ==
  [c EXCEPT !.docs =
     [t \in DocTypes |->
        IF t \notin DOMAIN raw THEN c.docs[t]
        ELSE [c.docs[t] EXCEPT
                !.revision = raw[t].revision, !.source = raw[t].source, !.date = 9,
                !.steps = BaselineDocs[t].steps, !.rows = BaselineDocs[t].rows,
                !.risks = BaselineDocs[t].risks, !.unbound = FALSE,
                !.references = IF t = "INSPECTION_RECORD" THEN after.claims ELSE @]]]

NewRevision(c, raw) == \A t \in DOMAIN raw : raw[t].revision # c.docs[t].revision

Accepted(raw, cites) ==
  /\ NewRevision(case, raw)
  /\ Replaced(context, raw, cites) # None
  /\ ValidCase(Rebuilt(case, raw, Replaced(context, raw, cites)))

Resolve ==
  /\ Work + 3 <= MaxWork
  /\ \E types \in (SUBSET Replaceable) \ {{}}, revision \in Revisions,
        cites \in [Roles -> 1..2 \cup Revisions] :
       LET raw == Artifacts(types, revision) IN
       /\ Accepted(raw, cites)
       /\ context' = Replaced(context, raw, cites)
       /\ case' = Rebuilt(case, raw, context')
       /\ cited' = IF "INSPECTION_RECORD" \notin types THEN cited
                    ELSE [role \in Roles |-> [revision |-> cites[role],
                                              source |-> context'.targets[role].source]]
  /\ resolved' = resolved + 1
  /\ UNCHANGED <<origin, reports, made, applied>>

Next ==
  \/ Resolve
  \/ \E e \in Benchmark \cup Others : Edit(e)
  \/ \E result \in {"PASS", "FAIL"}, day \in {5, 50} : Issue(result, day)

Spec == Init /\ [][Next]_vars

(* Properties *)

\* Every state is a case validate_case accepts.
TypeOK ==
  /\ ValidCase(case)
  /\ DOMAIN case.docs = DocTypes
  /\ case.event.revision \in 2..MaxRevision
  /\ reports = None \/ DOMAIN reports \subseteq {"VAL1"}
  /\ applied \subseteq Benchmark \cup Others
  /\ Work <= MaxWork
  /\ context # None /\ DOMAIN context.claims = Roles
  /\ \A role \in Roles : cited[role].revision \in 1..2 \cup Revisions

\* The table of docs/BENCHMARK.md: mutation m puts rule r into CONTRADICTED, or into
\* UNVERIFIABLE; what is not listed passes.
Contradicts(m, r) ==
  \/ m = "M001" /\ r \in {"R002", "R004", "R005"}
  \/ m \in {"M003", "M014", "M015"} /\ r = "R003"
  \/ m \in {"M004", "M027", "M028"} /\ r = "R007"
  \/ m \in {"M005", "M022"} /\ r = "R005"
  \/ m \in {"M007", "M013"} /\ r \in {"R001", "R003"}
  \/ m = "M008" /\ r = "R001"
  \/ m \in {"M011", "M012"} /\ r = "R002"
  \/ m \in {"M019", "M020", "M029"} /\ r = "R004"
  \/ m \in {"M023", "M024", "M025"} /\ r = "R006"
  \/ m = "M030" /\ r \in {"R001", "R002", "R003", "R007"}

Unverifies(m, r) ==
  \/ m \in {"M002", "M030"} /\ r = "R006"
  \/ m \in {"M006", "M013"} /\ r = "R002"
  \/ m \in {"M009", "M010"} /\ r \in {"R001", "R002", "R003"}
  \/ m = "M017" /\ r = "R004"
  \/ m = "M021" /\ r = "R005"

Expected(m) ==
  [r \in Rules |-> IF Contradicts(m, r) THEN "CONTRADICTED"
                   ELSE IF Unverifies(m, r) THEN "UNVERIFIABLE" ELSE "PASS"]

\* The reports benchmark_evidence.json has for a mutation.
BenchmarkReports(m) ==
  IF m \in {"M002", "M030"} THEN None
  ELSE Reported(case, IF m \in {"M023", "M024", "M025"} THEN "FAIL" ELSE "PASS", 5)

\* Each of the thirty mutations of the baseline has exactly the findings that
\* docs/BENCHMARK.md lists for it (evaluate_benchmark).
BenchmarkTruth ==
  \A m \in Benchmark :
    applied = {m} /\ origin = Baseline /\ resolved = 0 =>
      Findings(case, context, BenchmarkReports(m)) = Expected(m)

Verdict(c, r) == OverallStatus(Findings(c, context, r))
Validated(c) == IF c.event.plan = None THEN None ELSE Reported(c, "PASS", 5)

\* The mutations that put a fault into the case itself: not the boundary cases,
\* and not those whose fault is in the report.
CaseFaults == Benchmark \ {"M002", "M016", "M018", "M023", "M024", "M025", "M026"}

\* Faults do not cancel out: whatever faults are put into the baseline, one on
\* top of the other and in whatever order, the case does not pass, although
\* one may hide the finding of another and the validation is repeated for the
\* result (the precedence of early returns in rules.py, _overall_status).
FaultsDoNotCancel ==
  origin = Baseline /\ resolved = 0 /\ applied # {} /\ applied \subseteq CaseFaults =>
    Verdict(case, Validated(case)) # "PASS"

\* What a verdict of PASS claims of a case, said without the rules: every pair
\* in scope is analysed, controlled and specified alike in three documents, every
\* document is newer than the approval or waived, and each statement made by
\* somebody (reference, report, approval) is about the case as it is now.
Traceable ==
  /\ case.event.links # {} /\ case.event.steps # {}
  /\ {link[2] : link \in case.event.links} = case.event.chars
  /\ \A t \in {"PROCESS_FLOW", "PFMEA", "CONTROL_PLAN"} : case.event.steps \subseteq case.docs[t].steps
  /\ \A t \in DocTypes : t = "PROCESS_FLOW" \/ ~case.docs[t].unbound
  /\ \A pair \in case.event.links :
       /\ \E spec \in Specs : \A t \in SpecDocs :
            pair \in DOMAIN case.docs[t].rows /\ case.docs[t].rows[pair].spec = spec
       /\ \E risk \in case.docs["PFMEA"].risks : risk.pair = pair
       /\ \A risk \in case.docs["PFMEA"].risks :
            risk.pair = pair /\ risk.special =>
              ControlFields \subseteq case.docs["CONTROL_PLAN"].rows[pair].controls

Dated ==
  /\ case.event.approved_at # None
  /\ \A t \in DocTypes :
       LET doc == case.docs[t] IN
       \/ case.event.approved_at <= doc.date
       \/ /\ doc.waiver # None
          /\ doc.waiver.revision = case.event.revision
          /\ case.event.approved_at \in doc.waiver.from..doc.waiver.until

SameBut(c, d, fields) ==
  /\ c.docs = d.docs /\ c.migrations = d.migrations
  /\ \A f \in DOMAIN c.event \ fields : c.event[f] = d.event[f]

Vouched ==
  /\ reports # None
  /\ \A id \in DOMAIN reports : reports[id].result = "PASS" /\ reports[id].issued = 5
  /\ SameBut(made, case, {"approvals", "claims"})
  /\ case.docs["INSPECTION_RECORD"].references =
       [role \in Roles |-> Identity(case.docs[role])]
  /\ \A role \in Roles : Identity(case.docs[role]) = context.targets[role]
  /\ Identity(case.docs["INSPECTION_RECORD"]) = context.inspection
  /\ \A role \in Roles : cited[role] = Identity(case.docs[role])
  /\ case.event.risk_level = "HIGH" =>
       \A role \in Approvers :
         \E a \in case.event.approvals :
           a.role = role /\ a.revision = case.event.revision /\ a.decision = "APPROVED"
  /\ case.event.risk_level = "HIGH" =>
       ~ \E a \in case.event.approvals :
           a.revision = case.event.revision /\ a.decision # "APPROVED"

\* A case passes exactly if it is traceable, dated and vouched for
\* (_overall_status over the seven rules).
PassMeansReady == (Verdict(case, reports) = "PASS") <=> (Traceable /\ Dated /\ Vouched)

\* An edit after the validation voids it: the report vouches for a case that
\* differs from the one validated in its approvals only (the subject hash of
\* validation_evidence.py leaves out what comes later, and nothing else).
EditVoidsReport ==
  Findings(case, context, reports).R006 = "PASS" => SameBut(made, case, {"approvals", "claims"})

\* R005 passes only if the raw inspection record itself cites the revisions of
\* the raw documents now in force, and these were in force then: replacing a target never rewrites what the
\* record says, and editing the references in the JSON does not make up for it
\* ("Target witnesses ... must never overwrite an old or mismatching holder
\* claim", controlled_references.py:671).
ReferencesProveArtifacts ==
  Findings(case, context, reports).R005 = "PASS" =>
    \A role \in Roles : /\ cited[role] = Identity(case.docs[role])
                        /\ context.targets[role] = Identity(case.docs[role])

\* controlled_references.py:673: R005 is contradicted "until the Inspection
\* artifact itself is rebuilt with the new ID/revision observation".  A record
\* that cites the documents in force is accepted exactly if what the one before
\* it claims of the documents not replaced with it is still in force; so all of
\* them together always are.  R005 passes then, unless one of those was edited.
RecordCatchesUp ==
  \A types \in SUBSET Roles, revision \in Revisions :
    LET kept == Roles \ types
        raw == Artifacts(types \cup {"INSPECTION_RECORD"}, revision)
        cites == [role \in Roles |-> IF role \in types THEN revision
                                     ELSE context.targets[role].revision]
        after == Replaced(context, raw, cites)
        inForce == \A role \in kept : context.claims[role] = context.targets[role]
        unedited == \A role \in kept : Identity(case.docs[role]) = context.targets[role]
    IN NewRevision(case, raw) =>
         /\ Accepted(raw, cites) <=> inForce
         /\ inForce =>
              (InspectionCurrentReferences(Rebuilt(case, raw, after), after) = "PASS"
                 <=> unedited)
=============================================================================
