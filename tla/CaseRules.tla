----------------------------- MODULE CaseRules -----------------------------
(***************************************************************************)
(* The seven rules of rules.py and the verdict of engine.py, as operators  *)
(* on a case.  A case holds an event, one approved document of each type   *)
(* (validate_case counts them) and the migrations it came through:         *)
(*                                                                         *)
(*   event.revision, approved_at, risk_level   numbers, a day, a level     *)
(*   event.steps, chars, links                 the affected scope          *)
(*   event.approvals                           set of [role, decision,     *)
(*                                             revision]                   *)
(*   event.plan                                evidence id -> requirement  *)
(*   event.claims                              what the JSON says of its   *)
(*                                             validation, read by no rule *)
(*   docs[t].revision, source                  its identity                *)
(*   docs[t].rows                              pair -> [spec, controls]    *)
(*   docs[t].risks                             set of [mode, pair,special] *)
(*   docs[t].unbound                           it has rows without a step  *)
(*                                                                         *)
(* A pair is <<process step, characteristic>>.  Identities that differ     *)
(* only in case or spacing are the same model value.                       *)
(***************************************************************************)
EXTENDS Integers, Sequences, FiniteSets

CONSTANT None  \* an absent field, document row, context or bundle

Roles == {"SOP", "CONTROL_PLAN"}
DocTypes == Roles \cup {"PROCESS_FLOW", "PFMEA", "INSPECTION_RECORD"}
SpecDocs == Roles \cup {"INSPECTION_RECORD"}
ControlFields == {"control_method", "frequency", "reaction_plan"}
Approvers == {"QUALITY_MANAGER", "PROCESS_OWNER"}
Statuses == {"PASS", "CONTRADICTED", "UNVERIFIABLE"}
Rules == {"R001", "R002", "R003", "R004", "R005", "R006", "R007"}

\* A rule is a sequence of early returns <<condition, status>>; it passes when
\* none is taken.
FirstOf(returns) ==
  IF \A i \in DOMAIN returns : ~returns[i][1] THEN "PASS"
  ELSE returns[CHOOSE i \in DOMAIN returns :
                 returns[i][1] /\ \A j \in 1..(i - 1) : ~returns[j][1]][2]

Identity(doc) == [revision |-> doc.revision, source |-> doc.source]

ScopeComplete(c) ==
  /\ c.event.links # {}
  /\ \A ch \in c.event.chars : \E link \in c.event.links : link[2] = ch

\* Mutant: a document that has rows with a step is no longer unbound.
LegacyUnattached(c, types) ==
  /\ "relationship" \in c.migrations
  /\ \E t \in types :
       c.docs[t].unbound /\ DOMAIN c.docs[t].rows = {} /\ c.docs[t].risks = {}

LegacyUnbound(c, types) ==
  "relationship" \in c.migrations /\ \E t \in types : c.docs[t].unbound

\* Rows that share the step or the characteristic with a pair that has none.
Candidates(pairs, pair) == {p \in pairs : p[1] = pair[1] \/ p[2] = pair[2]}

RowPairs(c, t) == DOMAIN c.docs[t].rows
RiskPairs(c) == {risk.pair : risk \in c.docs["PFMEA"].risks}
SpecOf(c, t, pair) == IF pair \in RowPairs(c, t) THEN c.docs[t].rows[pair].spec ELSE None

ProcessCoverage(c) ==
  FirstOf(<<
    <<c.event.steps = {}, "UNVERIFIABLE">>,
    <<\E t \in {"PROCESS_FLOW", "PFMEA", "CONTROL_PLAN"} :
        ~(c.event.steps \subseteq c.docs[t].steps), "CONTRADICTED">>,
    <<~ScopeComplete(c), "UNVERIFIABLE">>,
    <<LegacyUnbound(c, {"PFMEA", "CONTROL_PLAN"}), "UNVERIFIABLE">>,
    <<~(c.event.links \subseteq RiskPairs(c) \cap RowPairs(c, "CONTROL_PLAN")),
      "CONTRADICTED">> >>)

SpecConsistency(c) ==
  LET conflict(pair) ==
        Cardinality({SpecOf(c, t, pair) : t \in SpecDocs} \ {None}) > 1
      misbound(pair) ==
        \E t \in SpecDocs : /\ pair \notin RowPairs(c, t)
                            /\ Candidates(RowPairs(c, t), pair) # {}
      missing(pair) == \E t \in SpecDocs : SpecOf(c, t, pair) = None
  IN FirstOf(<<
       <<c.event.chars = {} \/ ~ScopeComplete(c), "UNVERIFIABLE">>,
       <<LegacyUnbound(c, SpecDocs), "UNVERIFIABLE">>,
       <<\E pair \in c.event.links : conflict(pair), "CONTRADICTED">>,
       <<\E pair \in c.event.links : misbound(pair), "CONTRADICTED">>,
       <<\E pair \in c.event.links : missing(pair), "UNVERIFIABLE">> >>)

\* Mutant: a risk bound to another step is taken for a missing one.
SpecialCharacteristicAnalysed(c) ==
  LET special(pair) == \E risk \in c.docs["PFMEA"].risks : risk.pair = pair /\ risk.special
      controlled(pair) == /\ pair \in RowPairs(c, "CONTROL_PLAN")
                          /\ c.docs["CONTROL_PLAN"].rows[pair].controls = ControlFields
  IN FirstOf(<<
       <<~ScopeComplete(c), "UNVERIFIABLE">>,
       <<LegacyUnbound(c, {"PFMEA", "CONTROL_PLAN"}), "UNVERIFIABLE">>,
       <<~(c.event.links \subseteq RiskPairs(c)), "UNVERIFIABLE">>,
       <<\E pair \in c.event.links : special(pair) /\ ~controlled(pair),
         "CONTRADICTED">> >>)

SpecialCharacteristicControl(c) ==
  LET unanalysed == c.event.links \ RiskPairs(c)
      special(pair) == \E risk \in c.docs["PFMEA"].risks : risk.pair = pair /\ risk.special
      controlled(pair) == /\ pair \in RowPairs(c, "CONTROL_PLAN")
                          /\ c.docs["CONTROL_PLAN"].rows[pair].controls = ControlFields
  IN FirstOf(<<
       <<~ScopeComplete(c), "UNVERIFIABLE">>,
       <<LegacyUnbound(c, {"PFMEA", "CONTROL_PLAN"}), "UNVERIFIABLE">>,
       <<\E pair \in unanalysed : Candidates(RiskPairs(c), pair) # {}, "CONTRADICTED">>,
       <<unanalysed # {}, "UNVERIFIABLE">>,
       <<\E pair \in c.event.links : special(pair) /\ ~controlled(pair),
         "CONTRADICTED">> >>)

\* Mutant: a waiver granted for an earlier revision of the event still counts.
ValidWaiverOfAny(doc, event) ==
  /\ doc.waiver # None
  /\ Approvers \subseteq doc.waiver.roles
  /\ doc.waiver.from <= event.approved_at /\ event.approved_at <= doc.waiver.until

\* A waiver whose text fields (scope, locator, id) are filled in.
ValidWaiver(doc, event) ==
  /\ doc.waiver # None
  /\ doc.waiver.revision = event.revision
  /\ Approvers \subseteq doc.waiver.roles
  /\ doc.waiver.from <= event.approved_at /\ event.approved_at <= doc.waiver.until

RevisionAfterApproval(c) ==
  IF c.event.approved_at = None THEN "UNVERIFIABLE"
  ELSE IF \E t \in DocTypes : /\ c.docs[t].date < c.event.approved_at
                              /\ ~ValidWaiver(c.docs[t], c.event)
       THEN "CONTRADICTED" ELSE "PASS"

\* Mutant: a reference to a document of no controlled role is overlooked.
InspectionReferencesOfRoles(inspection, targets, context) ==
  LET references == inspection.references IN
  IF references = None \/ ~(Roles \subseteq DOMAIN references) \/ context = None
  THEN "UNVERIFIABLE"
  ELSE IF /\ context.inspection = inspection.identity
          /\ \A role \in Roles : /\ references[role] = context.claims[role]
                                 /\ references[role] = targets[role]
       THEN "PASS" ELSE "CONTRADICTED"

\* inspection is [identity, references], targets maps a role to the identity of
\* its current document, context is the sealed reference context or None.
InspectionReferences(inspection, targets, context) ==
  LET references == inspection.references IN
  IF \/ references = None
     \/ ~(Roles \subseteq DOMAIN references)   \* {"LEGACY_UNATTESTED"} included
     \/ context = None
  THEN "UNVERIFIABLE"
  ELSE IF /\ context.inspection = inspection.identity
          /\ DOMAIN references = Roles
          /\ \A role \in Roles : /\ references[role] = context.claims[role]
                                 /\ references[role] = targets[role]
       THEN "PASS" ELSE "CONTRADICTED"

InspectionCurrentReferences(c, context) ==
  InspectionReferences(
    [identity |-> Identity(c.docs["INSPECTION_RECORD"]),
     references |-> c.docs["INSPECTION_RECORD"].references],
    [role \in Roles |-> Identity(c.docs[role])], context)

\* What a validation report is bound to: the scope of the event, and the whole
\* case but for what comes after the validation.
Scope(c) ==
  [f \in {"revision", "risk_level", "steps", "chars", "links", "plan"} |-> c.event[f]]
\* Mutant: the report is bound to the event, not to the documents.
SubjectOfEvent(c) == [c EXCEPT !.event.approvals = {}, !.event.claims = {}, !.docs = {}]
Subject(c) == [c EXCEPT !.event.approvals = {}, !.event.claims = {}]

\* A report names the result, the event revision, the scope, the subject and the
\* terms of its requirement (type, claim, issuer), and when it was made.
ReportMatches(c, report, requirement) ==
  /\ report.result = "PASS"
  /\ report.revision = c.event.revision
  /\ report.scope = Scope(c)
  /\ report.subject = Subject(c)
  /\ report.terms = requirement.terms
  /\ requirement.from <= report.performed
  /\ report.performed <= report.issued /\ report.issued <= requirement.until

ValidationEvidence(c, reports) ==
  IF \/ reports = None
     \/ c.event.plan = None
     \/ ~(DOMAIN c.event.plan \subseteq DOMAIN reports)
  THEN "UNVERIFIABLE"
  ELSE IF /\ DOMAIN reports = DOMAIN c.event.plan
          /\ \A id \in DOMAIN reports : ReportMatches(c, reports[id], c.event.plan[id])
       THEN "PASS" ELSE "CONTRADICTED"

HighRiskApproval(c) ==
  LET current == {a \in c.event.approvals : a.revision = c.event.revision}
      approved == {a.role : a \in {x \in current : x.decision = "APPROVED"}}
  IN IF \/ c.event.risk_level # "HIGH"
        \/ /\ \A a \in current : a.decision = "APPROVED"
           /\ Approvers \subseteq approved
     THEN "PASS" ELSE "CONTRADICTED"

\* _evaluate_case: one finding for each rule, the worst decides.
Findings(c, context, reports) ==
  [R001 |-> ProcessCoverage(c),
   R002 |-> SpecConsistency(c),
   R003 |-> SpecialCharacteristicControl(c),
   R004 |-> RevisionAfterApproval(c),
   R005 |-> InspectionCurrentReferences(c, context),
   R006 |-> ValidationEvidence(c, reports),
   R007 |-> HighRiskApproval(c)]

OverallStatus(findings) ==
  LET seen == {findings[r] : r \in Rules} IN
  IF "CONTRADICTED" \in seen THEN "CONTRADICTED"
  ELSE IF "UNVERIFIABLE" \in seen THEN "UNVERIFIABLE" ELSE "PASS"

\* validate_case, as far as the rules depend on it.
ValidDocument(c, t) ==
  LET doc == c.docs[t] IN
  /\ \A pair \in DOMAIN doc.rows : pair[1] \in doc.steps
  /\ \A risk \in doc.risks : risk.pair[1] \in doc.steps
  /\ \A r1, r2 \in doc.risks : r1.mode = r2.mode => r1 = r2
  /\ doc.unbound => "relationship" \in c.migrations
  /\ doc.references # None /\ "LEGACY_UNATTESTED" \in DOMAIN doc.references =>
       /\ DOMAIN doc.references = {"LEGACY_UNATTESTED"}
       /\ "reference" \in c.migrations

ValidCase(c) ==
  /\ c.event.risk_level \in {"LOW", "MEDIUM", "HIGH"}
  /\ c.event.links \subseteq c.event.steps \X c.event.chars
  /\ \A a, b \in c.event.approvals :
       a.role = b.role /\ a.revision = b.revision => a = b
  /\ c.event.plan = None => "validation" \in c.migrations
  /\ \A t \in DocTypes : ValidDocument(c, t)

\* migrate_legacy_relationships on a case of schema 0.1: only the one possible
\* pair of the event is inferred, the rows stay without a step.
MigrateLegacyRelationships(old) ==
  [old EXCEPT
     !.event.links = IF /\ Cardinality(old.event.steps) = 1
                        /\ Cardinality(old.event.chars) = 1
                     THEN old.event.steps \X old.event.chars ELSE {},
     !.docs["INSPECTION_RECORD"].references =
       IF @ = None THEN None ELSE [role \in {"LEGACY_UNATTESTED"} |-> @],
     !.migrations = {"relationship", "reference", "validation"}]
=============================================================================
