-------------------------- MODULE RuleEngineProofs --------------------------
(***************************************************************************)
(* Proofs of RuleEngine, for any number of edits, resolutions and reports, *)
(* any revisions of the event and of artifacts: a verdict of PASS means    *)
(* what it claims, faults never cancel out, references prove what the raw  *)
(* documents say, and the benchmark has the findings its table lists.      *)
(*                                                                         *)
(* The rules are first said without their early returns, one lemma for     *)
(* each.  The invariant then has what no rule looks at: that a report is   *)
(* the one issued for the case in made, that the claims of the context are *)
(* what the raw record cited, and that a source once replaced never comes  *)
(* back, so that equal identities are the same document.                   *)
(***************************************************************************)
EXTENDS RuleEngine, FiniteSetTheorems, TLAPS

(***************************************************************************)
(* The invariant                                                           *)
(***************************************************************************)

\* The reports in force are those of one validation of the case in made.
ReportInv ==
  reports # None =>
    /\ made \in Cases
    /\ made.event.plan = Plan
    /\ \E result \in {"PASS", "FAIL"}, day \in {5, 50} : reports = Reported(made, result, day)

\* A role whose claim has the source of the document in force claims that very
\* document; sources only move on.
ContextInv ==
  /\ context \in Contexts
  /\ context.claims = cited
  /\ resolved \in Nat
  /\ resolved = 0 => context = PackContext
  /\ \A role \in Roles :
       /\ context.targets[role].source < 3 + resolved
       /\ context.claims[role].source < 3 + resolved
       /\ case.docs[role].source = context.targets[role].source
       /\ context.claims[role].source = context.targets[role].source =>
            context.claims[role] = context.targets[role]

\* What the faults of the benchmark make of the baseline.
Faulted(c) ==
  /\ c.event.revision = 2 /\ c.event.risk_level = "HIGH"
  /\ c.event.links \subseteq {Seam}
  /\ c.event.steps \in {{}, {"WELD", "INSPECT"}}
  /\ c.event.approved_at \in {None, 5, 10}
  /\ \A risk \in c.docs["PFMEA"].risks : risk.special
  /\ \A pair \in DOMAIN c.docs["CONTROL_PLAN"].rows :
       c.docs["CONTROL_PLAN"].rows[pair].spec = "max0"
  /\ \A t \in DocTypes : c.docs[t].waiver = None
  /\ c.docs["SOP"].date <= 7 /\ c.docs["PROCESS_FLOW"].date <= 6

Specified(c, t) == Seam \in DOMAIN c.docs[t].rows /\ c.docs[t].rows[Seam].spec = "max0"

\* The trace every fault leaves in the case, whatever came before it.
Scarred(c) ==
  \/ c.event.links = {} \/ c.event.steps = {}
  \/ c.docs["SOP"].revision # 2
  \/ ~Specified(c, "SOP") \/ ~Specified(c, "INSPECTION_RECORD")
  \/ Seam \notin DOMAIN c.docs["CONTROL_PLAN"].rows
  \/ c.docs["CONTROL_PLAN"].rows[Seam].controls # ControlFields
  \/ "INSPECT" \notin c.docs["CONTROL_PLAN"].steps
  \/ Seam \notin RiskPairs(c)
  \/ c.docs["INSPECTION_RECORD"].references # [role \in Roles |-> CurrentIdentity]
  \/ c.event.approved_at = None
  \/ c.docs["SOP"].date < c.event.approved_at
  \/ c.docs["PROCESS_FLOW"].date < c.event.approved_at
  \/ ~ \E a \in c.event.approvals :
         a.role = "QUALITY_MANAGER" /\ a.revision = 2 /\ a.decision = "APPROVED"

FaultInv ==
  origin = Baseline /\ resolved = 0 /\ applied \subseteq CaseFaults =>
    Faulted(case) /\ (applied # {} => Scarred(case))

IInv ==
  TypeOK /\ case \in Cases /\ IsFiniteSet(applied) /\ ReportInv /\ ContextInv /\ FaultInv

USE RuleAssumption

LEMMA NoneIsNothing ==
  /\ None \notin Nat /\ None \notin Specs /\ None \notin [Roles -> Identities]
  /\ None \notin References /\ None \notin Waivers /\ None \notin Contexts
  /\ None \notin Plans /\ None \notin Bundles
<1>1. None \notin References
  BY NoneAssumption DEF References
<1>2. [Roles -> Identities] \subseteq References
  <2>1. Roles \in SUBSET Holders
    BY DEF Holders
  <2> QED BY <2>1 DEF References, ReferencesOf
<1> QED BY <1>1, <1>2, NoneAssumption

(***************************************************************************)
(* The rules without their early returns                                   *)
(***************************************************************************)

Defects == {"CONTRADICTED", "UNVERIFIABLE"}

\* A rule of five early returns passes if none of them is taken.
LEMMA FiveReturns ==
  ASSUME NEW returns, DOMAIN returns = 1..5, \A i \in 1..5 : returns[i][2] \in Defects
  PROVE  /\ FirstOf(returns) \in Statuses
         /\ FirstOf(returns) = "PASS" <=> \A i \in 1..5 : ~returns[i][1]
<1> DEFINE First(i) == returns[i][1] /\ \A j \in 1..(i - 1) : ~returns[j][1]
<1>1. ASSUME ~ \A i \in 1..5 : ~returns[i][1]
      PROVE  \E i \in 1..5 : First(i)
  <2>1. CASE returns[1][1]
    BY <2>1
  <2>2. CASE ~returns[1][1] /\ returns[2][1]
    BY <2>2
  <2>3. CASE ~returns[1][1] /\ ~returns[2][1] /\ returns[3][1]
    BY <2>3
  <2>4. CASE ~returns[1][1] /\ ~returns[2][1] /\ ~returns[3][1] /\ returns[4][1]
    BY <2>4
  <2>5. CASE ~returns[1][1] /\ ~returns[2][1] /\ ~returns[3][1] /\ ~returns[4][1]
    BY <1>1, <2>5
  <2> QED BY <2>1, <2>2, <2>3, <2>4, <2>5
<1>2. FirstOf(returns) = IF \A i \in 1..5 : ~returns[i][1] THEN "PASS"
                         ELSE returns[CHOOSE i \in 1..5 : First(i)][2]
  BY DEF FirstOf
<1>3. CASE \A i \in 1..5 : ~returns[i][1]
  BY <1>2, <1>3 DEF Statuses
<1>4. CASE ~ \A i \in 1..5 : ~returns[i][1]
  <2>1. (CHOOSE i \in 1..5 : First(i)) \in 1..5
    BY <1>1, <1>4
  <2>2. FirstOf(returns) \in Defects
    BY <1>2, <1>4, <2>1
  <2> QED BY <1>4, <2>2 DEF Statuses, Defects
<1> QED BY <1>3, <1>4

\* The rules of R001.
Covered(c) ==
  /\ c.event.steps # {}
  /\ \A t \in {"PROCESS_FLOW", "PFMEA", "CONTROL_PLAN"} : c.event.steps \subseteq c.docs[t].steps
  /\ ScopeComplete(c)
  /\ ~LegacyUnbound(c, {"PFMEA", "CONTROL_PLAN"})
  /\ c.event.links \subseteq RiskPairs(c) \cap RowPairs(c, "CONTROL_PLAN")

\* R001 passes exactly if every affected step and pair is in the documents.
LEMMA CoveragePasses ==
  ASSUME NEW c
  PROVE  /\ ProcessCoverage(c) \in Statuses
         /\ ProcessCoverage(c) = "PASS" <=> Covered(c)
<1> DEFINE uncovered(t) == ~(c.event.steps \subseteq c.docs[t].steps)
           returns == <<
             <<c.event.steps = {}, "UNVERIFIABLE">>,
             <<\E t \in {"PROCESS_FLOW", "PFMEA", "CONTROL_PLAN"} : uncovered(t), "CONTRADICTED">>,
             <<~ScopeComplete(c), "UNVERIFIABLE">>,
             <<LegacyUnbound(c, {"PFMEA", "CONTROL_PLAN"}), "UNVERIFIABLE">>,
             <<~(c.event.links \subseteq RiskPairs(c) \cap RowPairs(c, "CONTROL_PLAN")),
               "CONTRADICTED">> >>
<1>1. ProcessCoverage(c) = FirstOf(returns)
  BY DEF ProcessCoverage
<1>2. DOMAIN returns = 1..5 /\ \A i \in 1..5 : returns[i][2] \in Defects
  BY DEF Defects
<1>3. (\A i \in 1..5 : ~returns[i][1]) <=> Covered(c)
  <2>1. (\A i \in 1..5 : ~returns[i][1]) <=>
          ~returns[1][1] /\ ~returns[2][1] /\ ~returns[3][1] /\ ~returns[4][1] /\ ~returns[5][1]
    OBVIOUS
  <2> QED BY <2>1 DEF Covered
<1> HIDE DEF returns
<1> QED BY <1>1, <1>2, <1>3, FiveReturns

\* What the documents say of a pair, if they say anything, is the same.
Agreed(c, pair) == \A t, u \in SpecDocs : SpecOf(c, t, pair) = SpecOf(c, u, pair)

Consistent(c) ==
  /\ c.event.chars # {} /\ ScopeComplete(c)
  /\ ~LegacyUnbound(c, SpecDocs)
  /\ \A pair \in c.event.links :
       Agreed(c, pair) /\ \A t \in SpecDocs : SpecOf(c, t, pair) # None

\* A pair of conflicting specifications shows in the number of different ones.
LEMMA ConflictCounts ==
  ASSUME NEW S, IsFiniteSet(S)
  PROVE  Cardinality(S) > 1 <=> \E x, y \in S : x # y
<1>1. Cardinality(S) \in Nat
  BY FS_CardinalityType
<1>2. ASSUME NEW x \in S, NEW y \in S, x # y
      PROVE  Cardinality(S) > 1
  <2>1. IsFiniteSet({x}) /\ Cardinality({x}) = 1 /\ y \notin {x}
    BY <1>2, FS_Singleton
  <2>2. Cardinality({x} \cup {y}) = 2
    BY <2>1, FS_AddElement
  <2>3. {x} \cup {y} \subseteq S
    BY <1>2
  <2>4. Cardinality({x} \cup {y}) <= Cardinality(S)
    BY <2>3, FS_Subset
  <2> QED BY <1>1, <2>2, <2>4
<1>3. ASSUME ~ \E x, y \in S : x # y
      PROVE  ~(Cardinality(S) > 1)
  <2>1. CASE S = {}
    BY <2>1, FS_EmptySet
  <2>2. CASE S # {}
    <3>1. PICK x \in S : TRUE
      BY <2>2
    <3>2. S = {x}
      BY <1>3, <3>1
    <3> QED BY <3>2, FS_Singleton
  <2> QED BY <2>1, <2>2
<1> QED BY <1>2, <1>3

\* R002 passes exactly if the three documents specify every affected pair alike.
LEMMA ConsistencyPasses ==
  ASSUME NEW c
  PROVE  /\ SpecConsistency(c) \in Statuses
         /\ SpecConsistency(c) = "PASS" <=> Consistent(c)
<1> DEFINE conflict(pair) == Cardinality({SpecOf(c, t, pair) : t \in SpecDocs} \ {None}) > 1
           misbound(pair) == \E t \in SpecDocs : /\ pair \notin RowPairs(c, t)
                                                 /\ Candidates(RowPairs(c, t), pair) # {}
           missing(pair) == \E t \in SpecDocs : SpecOf(c, t, pair) = None
           returns == <<
             <<c.event.chars = {} \/ ~ScopeComplete(c), "UNVERIFIABLE">>,
             <<LegacyUnbound(c, SpecDocs), "UNVERIFIABLE">>,
             <<\E pair \in c.event.links : conflict(pair), "CONTRADICTED">>,
             <<\E pair \in c.event.links : misbound(pair), "CONTRADICTED">>,
             <<\E pair \in c.event.links : missing(pair), "UNVERIFIABLE">> >>
<1>1. SpecConsistency(c) = FirstOf(returns)
  BY DEF SpecConsistency
<1>2. DOMAIN returns = 1..5 /\ \A i \in 1..5 : returns[i][2] \in Defects
  BY DEF Defects
<1>3. ASSUME NEW pair, ~missing(pair)
      PROVE  /\ ~misbound(pair)
             /\ ~conflict(pair) <=> Agreed(c, pair)
  <2> DEFINE found == {SpecOf(c, t, pair) : t \in SpecDocs} \ {None}
  <2>1. ~misbound(pair)
    BY <1>3 DEF SpecOf
  <2>2. found = {SpecOf(c, "SOP", pair), SpecOf(c, "CONTROL_PLAN", pair),
                 SpecOf(c, "INSPECTION_RECORD", pair)}
    BY <1>3 DEF SpecDocs, Roles
  <2>3. IsFiniteSet(found)
    <3>1. IsFiniteSet({SpecOf(c, "SOP", pair)})
      BY FS_Singleton
    <3>2. IsFiniteSet({SpecOf(c, "SOP", pair)} \cup {SpecOf(c, "CONTROL_PLAN", pair)})
      BY <3>1, FS_AddElement
    <3>3. IsFiniteSet(({SpecOf(c, "SOP", pair)} \cup {SpecOf(c, "CONTROL_PLAN", pair)})
                        \cup {SpecOf(c, "INSPECTION_RECORD", pair)})
      BY <3>2, FS_AddElement
    <3>4. found = ({SpecOf(c, "SOP", pair)} \cup {SpecOf(c, "CONTROL_PLAN", pair)})
                    \cup {SpecOf(c, "INSPECTION_RECORD", pair)}
      BY <2>2
    <3> QED BY <3>3, <3>4
  <2>4. (\E x, y \in found : x # y) <=> ~Agreed(c, pair)
    BY <1>3 DEF Agreed
  <2>5. conflict(pair) <=> \E x, y \in found : x # y
    BY <2>3, ConflictCounts
  <2> QED BY <2>1, <2>4, <2>5
<1>4. (\A i \in 1..5 : ~returns[i][1]) <=> Consistent(c)
  <2>1. (\A i \in 1..5 : ~returns[i][1]) <=>
          ~returns[1][1] /\ ~returns[2][1] /\ ~returns[3][1] /\ ~returns[4][1] /\ ~returns[5][1]
    OBVIOUS
  <2> HIDE DEF conflict, misbound
  <2> QED BY <1>3, <2>1 DEF Consistent
<1> HIDE DEF returns
<1> QED BY <1>1, <1>2, <1>4, FiveReturns

SpecialPair(c, pair) == \E risk \in c.docs["PFMEA"].risks : risk.pair = pair /\ risk.special

Controls(c, pair) ==
  /\ pair \in RowPairs(c, "CONTROL_PLAN")
  /\ c.docs["CONTROL_PLAN"].rows[pair].controls = ControlFields

UnderControl(c) ==
  /\ ScopeComplete(c)
  /\ ~LegacyUnbound(c, {"PFMEA", "CONTROL_PLAN"})
  /\ c.event.links \subseteq RiskPairs(c)
  /\ \A pair \in c.event.links : SpecialPair(c, pair) => Controls(c, pair)

\* R003 passes exactly if every affected pair is analysed and, if special,
\* controlled in full.
LEMMA ControlPasses ==
  ASSUME NEW c
  PROVE  /\ SpecialCharacteristicControl(c) \in Statuses
         /\ SpecialCharacteristicControl(c) = "PASS" <=> UnderControl(c)
<1> DEFINE unanalysed == c.event.links \ RiskPairs(c)
           returns == <<
             <<~ScopeComplete(c), "UNVERIFIABLE">>,
             <<LegacyUnbound(c, {"PFMEA", "CONTROL_PLAN"}), "UNVERIFIABLE">>,
             <<\E pair \in unanalysed : Candidates(RiskPairs(c), pair) # {}, "CONTRADICTED">>,
             <<unanalysed # {}, "UNVERIFIABLE">>,
             <<\E pair \in c.event.links : SpecialPair(c, pair) /\ ~Controls(c, pair),
               "CONTRADICTED">> >>
<1>1. SpecialCharacteristicControl(c) = FirstOf(returns)
  BY DEF SpecialCharacteristicControl, SpecialPair, Controls
<1>2. DOMAIN returns = 1..5 /\ \A i \in 1..5 : returns[i][2] \in Defects
  BY DEF Defects
<1>3. (\A i \in 1..5 : ~returns[i][1]) <=> UnderControl(c)
  <2>1. (\A i \in 1..5 : ~returns[i][1]) <=>
          ~returns[1][1] /\ ~returns[2][1] /\ ~returns[3][1] /\ ~returns[4][1] /\ ~returns[5][1]
    OBVIOUS
  <2> QED BY <2>1 DEF UnderControl
<1> HIDE DEF returns
<1> QED BY <1>1, <1>2, <1>3, FiveReturns

\* The other rules return one of the statuses, and the worst of all decides.
LEMMA AllPass ==
  ASSUME NEW c, NEW k, NEW r
  PROVE  OverallStatus(Findings(c, k, r)) = "PASS" <=>
           /\ Covered(c) /\ Consistent(c) /\ UnderControl(c)
           /\ RevisionAfterApproval(c) = "PASS"
           /\ InspectionCurrentReferences(c, k) = "PASS"
           /\ ValidationEvidence(c, r) = "PASS"
           /\ HighRiskApproval(c) = "PASS"
<1> DEFINE found == Findings(c, k, r)
<1>1. /\ RevisionAfterApproval(c) \in Statuses
      /\ InspectionCurrentReferences(c, k) \in Statuses
      /\ ValidationEvidence(c, r) \in Statuses
      /\ HighRiskApproval(c) \in Statuses
  BY DEF Statuses, RevisionAfterApproval, InspectionCurrentReferences, InspectionReferences,
         ValidationEvidence, HighRiskApproval
<1>2. /\ found.R001 = ProcessCoverage(c) /\ found.R002 = SpecConsistency(c)
      /\ found.R003 = SpecialCharacteristicControl(c)
      /\ found.R004 = RevisionAfterApproval(c)
      /\ found.R005 = InspectionCurrentReferences(c, k)
      /\ found.R006 = ValidationEvidence(c, r)
      /\ found.R007 = HighRiskApproval(c)
  BY DEF Findings
<1> HIDE DEF found
<1>3. \A rule \in Rules : found[rule] \in Statuses
  BY <1>1, <1>2, CoveragePasses, ConsistencyPasses, ControlPasses DEF Rules
<1>4. OverallStatus(found) = "PASS" <=> \A rule \in Rules : found[rule] = "PASS"
  BY <1>3 DEF OverallStatus, Statuses, Rules
<1>5. (\A rule \in Rules : found[rule] = "PASS") <=>
        /\ found.R001 = "PASS" /\ found.R002 = "PASS" /\ found.R003 = "PASS"
        /\ found.R004 = "PASS" /\ found.R005 = "PASS" /\ found.R006 = "PASS"
        /\ found.R007 = "PASS"
  BY DEF Rules
<1> QED BY <1>2, <1>4, <1>5, CoveragePasses, ConsistencyPasses, ControlPasses DEF found

(***************************************************************************)
(* What PASS means of a case                                               *)
(***************************************************************************)

\* The first three rules together.
LEMMA TraceablePasses ==
  ASSUME case \in Cases, ValidCase(case)
  PROVE  Covered(case) /\ Consistent(case) /\ UnderControl(case) <=> Traceable
<1>1. /\ case.event \in Events
      /\ \A t \in DocTypes : case.docs[t] \in Documents
      /\ case.event.links \subseteq case.event.steps \X case.event.chars
      /\ \A t \in DocTypes : case.docs[t].unbound => "relationship" \in case.migrations
  BY DEF Cases, CasesOf, ValidCase, ValidDocument
<1>2. /\ case.event.chars \subseteq Chars
      /\ \A link \in case.event.links : link[2] \in case.event.chars
  BY <1>1 DEF Events, EventsOf
<1>3. case.event.links # {} /\ {link[2] : link \in case.event.links} = case.event.chars
        <=> ScopeComplete(case) /\ case.event.chars # {}
  BY <1>2 DEF ScopeComplete
<1>4. (\A t \in DocTypes : t = "PROCESS_FLOW" \/ ~case.docs[t].unbound) <=>
        ~LegacyUnbound(case, {"PFMEA", "CONTROL_PLAN"}) /\ ~LegacyUnbound(case, SpecDocs)
  BY <1>1 DEF LegacyUnbound, DocTypes, SpecDocs, Roles
<1>5. ASSUME NEW pair \in case.event.links
      PROVE  (\E spec \in Specs : \A t \in SpecDocs :
                pair \in DOMAIN case.docs[t].rows /\ case.docs[t].rows[pair].spec = spec)
             <=> Agreed(case, pair) /\ \A t \in SpecDocs : SpecOf(case, t, pair) # None
  <2>1. ASSUME NEW t \in SpecDocs, pair \in DOMAIN case.docs[t].rows
        PROVE  /\ case.docs[t].rows[pair].spec \in Specs
               /\ SpecOf(case, t, pair) = case.docs[t].rows[pair].spec
               /\ SpecOf(case, t, pair) # None
    <3>1. case.docs[t].rows \in RowTables
      BY <1>1 DEF SpecDocs, DocTypes, Documents
    <3>2. case.docs[t].rows \in [{Seam} -> [spec : Specs, controls : SUBSET ControlFields]]
      BY <2>1, <3>1 DEF RowTables
    <3> QED BY <2>1, <3>2, NoneIsNothing DEF SpecOf, RowPairs
  <2>2. ASSUME NEW t \in SpecDocs, pair \notin DOMAIN case.docs[t].rows
        PROVE  SpecOf(case, t, pair) = None
    BY <2>2 DEF SpecOf, RowPairs
  <2>3. "SOP" \in SpecDocs
    BY DEF SpecDocs, Roles
  <2> QED BY <2>1, <2>2, <2>3 DEF Agreed
<1>6. ASSUME NEW pair \in case.event.links
      PROVE  (\E risk \in case.docs["PFMEA"].risks : risk.pair = pair) <=> pair \in RiskPairs(case)
  BY DEF RiskPairs
<1>7. ASSUME NEW pair \in case.event.links, pair \in RowPairs(case, "CONTROL_PLAN")
      PROVE  (\A risk \in case.docs["PFMEA"].risks :
                risk.pair = pair /\ risk.special =>
                  ControlFields \subseteq case.docs["CONTROL_PLAN"].rows[pair].controls)
             <=> (SpecialPair(case, pair) => Controls(case, pair))
  <2>1. case.docs["CONTROL_PLAN"].rows[pair].controls \subseteq ControlFields
    <3>1. case.docs["CONTROL_PLAN"].rows \in RowTables
      BY <1>1 DEF DocTypes, Roles, Documents
    <3> QED BY <1>7, <3>1 DEF RowTables, RowPairs
  <2> QED BY <1>7, <2>1 DEF SpecialPair, Controls
<1>8. ASSUME NEW pair, \A t \in SpecDocs : pair \in DOMAIN case.docs[t].rows
      PROVE  pair \in RowPairs(case, "CONTROL_PLAN")
  BY <1>8 DEF RowPairs, SpecDocs, Roles
<1>9. ASSUME NEW pair \in case.event.links, Covered(case)
      PROVE  pair \in RowPairs(case, "CONTROL_PLAN") /\ pair \in RiskPairs(case)
  BY <1>9 DEF Covered
<1>10. ASSUME Covered(case), Consistent(case), UnderControl(case)
       PROVE  Traceable
  <2>1. /\ case.event.links # {} /\ {link[2] : link \in case.event.links} = case.event.chars
        /\ \A t \in DocTypes : t = "PROCESS_FLOW" \/ ~case.docs[t].unbound
    BY <1>3, <1>4, <1>10 DEF Covered, Consistent
  <2>2. /\ case.event.steps # {}
        /\ \A t \in {"PROCESS_FLOW", "PFMEA", "CONTROL_PLAN"} :
             case.event.steps \subseteq case.docs[t].steps
    BY <1>10 DEF Covered
  <2>3. ASSUME NEW pair \in case.event.links
        PROVE  /\ \E spec \in Specs : \A t \in SpecDocs :
                    pair \in DOMAIN case.docs[t].rows /\ case.docs[t].rows[pair].spec = spec
               /\ \E risk \in case.docs["PFMEA"].risks : risk.pair = pair
               /\ \A risk \in case.docs["PFMEA"].risks :
                    risk.pair = pair /\ risk.special =>
                      ControlFields \subseteq case.docs["CONTROL_PLAN"].rows[pair].controls
    BY <1>5, <1>6, <1>7, <1>9, <1>10 DEF Consistent, UnderControl
  <2> QED BY <2>1, <2>2, <2>3 DEF Traceable
<1>11. ASSUME Traceable
       PROVE  Covered(case) /\ Consistent(case) /\ UnderControl(case)
  <2>1. /\ ScopeComplete(case) /\ case.event.chars # {}
        /\ ~LegacyUnbound(case, {"PFMEA", "CONTROL_PLAN"}) /\ ~LegacyUnbound(case, SpecDocs)
    BY <1>3, <1>4, <1>11 DEF Traceable
  <2>2. ASSUME NEW pair \in case.event.links
        PROVE  /\ pair \in RiskPairs(case) /\ pair \in RowPairs(case, "CONTROL_PLAN")
               /\ Agreed(case, pair) /\ \A t \in SpecDocs : SpecOf(case, t, pair) # None
               /\ SpecialPair(case, pair) => Controls(case, pair)
    <3>1. /\ \E spec \in Specs : \A t \in SpecDocs :
               pair \in DOMAIN case.docs[t].rows /\ case.docs[t].rows[pair].spec = spec
          /\ \E risk \in case.docs["PFMEA"].risks : risk.pair = pair
          /\ \A risk \in case.docs["PFMEA"].risks :
               risk.pair = pair /\ risk.special =>
                 ControlFields \subseteq case.docs["CONTROL_PLAN"].rows[pair].controls
      BY <1>11 DEF Traceable
    <3>2. pair \in RowPairs(case, "CONTROL_PLAN")
      BY <1>8, <3>1
    <3> QED BY <1>5, <1>6, <1>7, <3>1, <3>2
  <2> QED BY <1>11, <2>1, <2>2 DEF Traceable, Covered, Consistent, UnderControl
<1> QED BY <1>10, <1>11

\* R004: every document is from after the approval, or waived.
LEMMA DatedPasses ==
  ASSUME case \in Cases
  PROVE  RevisionAfterApproval(case) = "PASS" <=> Dated
<1>1. /\ case.event.approved_at \in Nat \cup {None}
      /\ \A t \in DocTypes : /\ case.docs[t].date \in Nat
                             /\ case.docs[t].waiver \in Waivers \cup {None}
  BY DEF Cases, CasesOf, Events, EventsOf, Documents
<1>2. ASSUME NEW t \in DocTypes, case.event.approved_at # None
      PROVE  ValidWaiver(case.docs[t], case.event) <=>
               /\ case.docs[t].waiver # None
               /\ case.docs[t].waiver.revision = case.event.revision
               /\ case.event.approved_at \in
                    case.docs[t].waiver.from..case.docs[t].waiver.until
  <2>1. case.event.approved_at \in Nat
    BY <1>1, <1>2
  <2>2. CASE case.docs[t].waiver # None
    <3>1. case.docs[t].waiver \in Waivers
      BY <1>1, <2>2
    <3>2. /\ case.docs[t].waiver.roles = Approvers
          /\ case.docs[t].waiver.from \in Nat /\ case.docs[t].waiver.until \in Nat
      BY <3>1 DEF Waivers
    <3> QED BY <2>1, <2>2, <3>2 DEF ValidWaiver
  <2> QED BY <2>2 DEF ValidWaiver
<1>3. ASSUME NEW t \in DocTypes, case.event.approved_at # None
      PROVE  case.event.approved_at <= case.docs[t].date
               <=> ~(case.docs[t].date < case.event.approved_at)
  BY <1>1, <1>3
<1> QED BY <1>2, <1>3 DEF RevisionAfterApproval, Dated

(***************************************************************************)
(* Edits                                                                   *)
(***************************************************************************)

\* d is a case of the same event revision, and no document got another source.
SourcesKept(c, d) == d \in Cases /\ \A t \in DocTypes : d.docs[t].source = c.docs[t].source
Kept(c, d) == SourcesKept(c, d) /\ d.event.revision = c.event.revision

\* A new event leaves the documents alone.
LEMMA EventSet ==
  ASSUME NEW c \in Cases, NEW event \in Events
  PROVE  /\ SourcesKept(c, [c EXCEPT !.event = event])
         /\ event.revision = c.event.revision => Kept(c, [c EXCEPT !.event = event])
BY DEF Kept, SourcesKept, Cases, CasesOf

\* One document is replaced by another of the same source.
LEMMA DocumentSet ==
  ASSUME NEW c \in Cases, NEW t \in DocTypes, NEW doc \in Documents,
         doc.source = c.docs[t].source
  PROVE  Kept(c, [c EXCEPT !.docs[t] = doc])
BY DEF Kept, SourcesKept, Cases, CasesOf

\* The setters of single fields.
LEMMA SettersKeep ==
  ASSUME NEW c \in Cases
  PROVE  /\ \A t \in DocTypes, rows \in RowTables : Kept(c, SetRows(c, t, rows))
         /\ \A t \in DocTypes, spec \in Specs, controls \in SUBSET ControlFields :
              Kept(c, SetRow(c, t, Row(spec, controls)))
         /\ \A controls \in SUBSET ControlFields : Kept(c, SetControls(c, controls))
         /\ \A risk \in Risks : Kept(c, SetRisk(c, risk))
         /\ \A approvals \in SUBSET Approvals : Kept(c, SetApprovals(c, approvals))
         /\ \A t \in DocTypes, day \in Nat : Kept(c, SetDate(c, t, day))
         /\ \A claims \in {"none", "absent", "PASS", "FAIL"} : Kept(c, SetClaims(c, claims))
<1>1. /\ c.event \in Events
      /\ \A t \in DocTypes : c.docs[t] \in Documents
  BY DEF Cases, CasesOf
<1>2. ASSUME NEW t \in DocTypes, NEW rows \in RowTables
      PROVE  Kept(c, SetRows(c, t, rows))
  <2> DEFINE doc == [c.docs[t] EXCEPT !.rows = rows, !.unbound = FALSE]
  <2>1. doc \in Documents /\ doc.source = c.docs[t].source
    BY <1>1 DEF Documents
  <2>2. SetRows(c, t, rows) = [c EXCEPT !.docs[t] = doc]
    BY DEF SetRows, Cases, CasesOf
  <2> HIDE DEF doc
  <2> QED BY <2>1, <2>2, DocumentSet
<1>3. ASSUME NEW t \in DocTypes, NEW spec \in Specs, NEW controls \in SUBSET ControlFields
      PROVE  Kept(c, SetRow(c, t, Row(spec, controls)))
  <2>1. Only(Seam, Row(spec, controls)) \in RowTables
    BY DEF Only, Row, RowTables
  <2> QED BY <1>2, <2>1 DEF SetRow
<1>4. ASSUME NEW controls \in SUBSET ControlFields
      PROVE  Kept(c, SetControls(c, controls))
  BY <1>3 DEF SetControls, Specs, DocTypes, Roles
<1>5. ASSUME NEW risk \in Risks
      PROVE  Kept(c, SetRisk(c, risk))
  <2> DEFINE doc == [c.docs["PFMEA"] EXCEPT !.risks = {risk}, !.unbound = FALSE]
  <2>1. doc \in Documents /\ doc.source = c.docs["PFMEA"].source
    BY <1>1 DEF Documents, DocTypes
  <2>2. SetRisk(c, risk) = [c EXCEPT !.docs["PFMEA"] = doc]
    BY DEF SetRisk, Cases, CasesOf, DocTypes
  <2>3. "PFMEA" \in DocTypes
    BY DEF DocTypes
  <2> HIDE DEF doc
  <2> QED BY <2>1, <2>2, <2>3, DocumentSet
<1>6. ASSUME NEW approvals \in SUBSET Approvals
      PROVE  Kept(c, SetApprovals(c, approvals))
  <2>1. /\ [c.event EXCEPT !.approvals = approvals] \in Events
        /\ [c.event EXCEPT !.approvals = approvals].revision = c.event.revision
    BY <1>1 DEF Events, EventsOf
  <2>2. SetApprovals(c, approvals) = [c EXCEPT !.event = [c.event EXCEPT !.approvals = approvals]]
    BY DEF SetApprovals, Cases, CasesOf
  <2> QED BY <2>1, <2>2, EventSet
<1>7. ASSUME NEW t \in DocTypes, NEW day \in Nat
      PROVE  Kept(c, SetDate(c, t, day))
  <2> DEFINE doc == [c.docs[t] EXCEPT !.date = day]
  <2>1. doc \in Documents /\ doc.source = c.docs[t].source
    BY <1>1 DEF Documents
  <2>2. SetDate(c, t, day) = [c EXCEPT !.docs[t] = doc]
    BY DEF SetDate, Cases, CasesOf
  <2> HIDE DEF doc
  <2> QED BY <2>1, <2>2, DocumentSet
<1>8. ASSUME NEW claims \in {"none", "absent", "PASS", "FAIL"}
      PROVE  Kept(c, SetClaims(c, claims))
  <2>1. /\ [c.event EXCEPT !.claims = claims] \in Events
        /\ [c.event EXCEPT !.claims = claims].revision = c.event.revision
    BY <1>1 DEF Events, EventsOf
  <2>2. SetClaims(c, claims) = [c EXCEPT !.event = [c.event EXCEPT !.claims = claims]]
    BY DEF SetClaims, Cases, CasesOf
  <2> QED BY <2>1, <2>2, EventSet
<1> QED BY <1>2, <1>3, <1>4, <1>5, <1>6, <1>7, <1>8

\* Events of one field changed.
LEMMA EventFields ==
  ASSUME NEW c \in Cases
  PROVE  /\ \A n \in Nat : /\ SourcesKept(c, [c EXCEPT !.event.revision = n])
                            /\ [c EXCEPT !.event.revision = n].event.revision = n
         /\ \A day \in Nat \cup {None} : Kept(c, [c EXCEPT !.event.approved_at = day])
         /\ Kept(c, [c EXCEPT !.event.risk_level = "MEDIUM"])
         /\ Kept(c, [c EXCEPT !.event.steps = {}, !.event.links = {}])
         /\ Kept(c, [c EXCEPT !.event.chars = {}, !.event.links = {}])
         /\ \A chars \in SUBSET Chars : Kept(c, [c EXCEPT !.event.chars = chars])
         /\ \A steps \in SUBSET Steps : Kept(c, [c EXCEPT !.event.steps = steps])
         /\ \A links \in SUBSET (Steps \X Chars) : Kept(c, [c EXCEPT !.event.links = links])
<1>1. c.event \in Events
  BY DEF Cases, CasesOf
<1>2. ASSUME NEW n \in Nat
      PROVE  /\ SourcesKept(c, [c EXCEPT !.event.revision = n])
             /\ [c EXCEPT !.event.revision = n].event.revision = n
  <2>1. [c.event EXCEPT !.revision = n] \in Events /\ [c.event EXCEPT !.revision = n].revision = n
    BY <1>1 DEF Events, EventsOf
  <2>2. [c EXCEPT !.event.revision = n] = [c EXCEPT !.event = [c.event EXCEPT !.revision = n]]
    BY DEF Cases, CasesOf
  <2>3. [c EXCEPT !.event.revision = n].event = [c.event EXCEPT !.revision = n]
    BY DEF Cases, CasesOf
  <2> QED BY <2>1, <2>2, <2>3, EventSet
<1>3. ASSUME NEW day \in Nat \cup {None}
      PROVE  Kept(c, [c EXCEPT !.event.approved_at = day])
  <2>1. /\ [c.event EXCEPT !.approved_at = day] \in Events
        /\ [c.event EXCEPT !.approved_at = day].revision = c.event.revision
    BY <1>1 DEF Events, EventsOf
  <2>2. [c EXCEPT !.event.approved_at = day] =
          [c EXCEPT !.event = [c.event EXCEPT !.approved_at = day]]
    BY DEF Cases, CasesOf
  <2> QED BY <2>1, <2>2, EventSet
<1>4. Kept(c, [c EXCEPT !.event.risk_level = "MEDIUM"])
  <2>1. /\ [c.event EXCEPT !.risk_level = "MEDIUM"] \in Events
        /\ [c.event EXCEPT !.risk_level = "MEDIUM"].revision = c.event.revision
    BY <1>1 DEF Events, EventsOf
  <2>2. [c EXCEPT !.event.risk_level = "MEDIUM"] =
          [c EXCEPT !.event = [c.event EXCEPT !.risk_level = "MEDIUM"]]
    BY DEF Cases, CasesOf
  <2> QED BY <2>1, <2>2, EventSet
<1>5. ASSUME NEW chars \in SUBSET Chars
      PROVE  Kept(c, [c EXCEPT !.event.chars = chars])
  <2>1. /\ [c.event EXCEPT !.chars = chars] \in Events
        /\ [c.event EXCEPT !.chars = chars].revision = c.event.revision
    BY <1>1 DEF Events, EventsOf
  <2>2. [c EXCEPT !.event.chars = chars] = [c EXCEPT !.event = [c.event EXCEPT !.chars = chars]]
    BY DEF Cases, CasesOf
  <2> QED BY <2>1, <2>2, EventSet
<1>6. ASSUME NEW steps \in SUBSET Steps
      PROVE  Kept(c, [c EXCEPT !.event.steps = steps])
  <2>1. /\ [c.event EXCEPT !.steps = steps] \in Events
        /\ [c.event EXCEPT !.steps = steps].revision = c.event.revision
    BY <1>1 DEF Events, EventsOf
  <2>2. [c EXCEPT !.event.steps = steps] = [c EXCEPT !.event = [c.event EXCEPT !.steps = steps]]
    BY DEF Cases, CasesOf
  <2> QED BY <2>1, <2>2, EventSet
<1>7. ASSUME NEW links \in SUBSET (Steps \X Chars)
      PROVE  Kept(c, [c EXCEPT !.event.links = links])
  <2>1. /\ [c.event EXCEPT !.links = links] \in Events
        /\ [c.event EXCEPT !.links = links].revision = c.event.revision
    BY <1>1 DEF Events, EventsOf
  <2>2. [c EXCEPT !.event.links = links] = [c EXCEPT !.event = [c.event EXCEPT !.links = links]]
    BY DEF Cases, CasesOf
  <2> QED BY <2>1, <2>2, EventSet
<1>8. Kept(c, [c EXCEPT !.event.steps = {}, !.event.links = {}])
  <2>1. /\ [c.event EXCEPT !.steps = {}, !.links = {}] \in Events
        /\ [c.event EXCEPT !.steps = {}, !.links = {}].revision = c.event.revision
    BY <1>1 DEF Events, EventsOf
  <2>2. [c EXCEPT !.event.steps = {}, !.event.links = {}] =
          [c EXCEPT !.event = [c.event EXCEPT !.steps = {}, !.links = {}]]
    BY DEF Cases, CasesOf
  <2> QED BY <2>1, <2>2, EventSet
<1>9. Kept(c, [c EXCEPT !.event.chars = {}, !.event.links = {}])
  <2>1. /\ [c.event EXCEPT !.chars = {}, !.links = {}] \in Events
        /\ [c.event EXCEPT !.chars = {}, !.links = {}].revision = c.event.revision
    BY <1>1 DEF Events, EventsOf
  <2>2. [c EXCEPT !.event.chars = {}, !.event.links = {}] =
          [c EXCEPT !.event = [c.event EXCEPT !.chars = {}, !.links = {}]]
    BY DEF Cases, CasesOf
  <2> QED BY <2>1, <2>2, EventSet
<1> QED BY <1>2, <1>3, <1>4, <1>5, <1>6, <1>7, <1>8, <1>9

\* One field of a document changed.
LEMMA DocumentFields ==
  ASSUME NEW c \in Cases, NEW t \in DocTypes
  PROVE  /\ \A n \in Nat : Kept(c, [c EXCEPT !.docs[t].revision = n])
         /\ \A steps \in SUBSET Steps : Kept(c, [c EXCEPT !.docs[t].steps = steps])
         /\ \A risks \in SUBSET Risks : Kept(c, [c EXCEPT !.docs[t].risks = risks])
         /\ \A waiver \in Waivers : Kept(c, [c EXCEPT !.docs[t].waiver = waiver])
         /\ \A references \in References \cup {None} :
              Kept(c, [c EXCEPT !.docs[t].references = references])
<1>1. c.docs[t] \in Documents
  BY DEF Cases, CasesOf
<1>2. ASSUME NEW n \in Nat
      PROVE  Kept(c, [c EXCEPT !.docs[t].revision = n])
  <2> DEFINE doc == [c.docs[t] EXCEPT !.revision = n]
  <2>1. doc \in Documents /\ doc.source = c.docs[t].source
    BY <1>1 DEF Documents
  <2>2. [c EXCEPT !.docs[t].revision = n] = [c EXCEPT !.docs[t] = doc]
    BY DEF Cases, CasesOf
  <2> HIDE DEF doc
  <2> QED BY <2>1, <2>2, DocumentSet
<1>3. ASSUME NEW steps \in SUBSET Steps
      PROVE  Kept(c, [c EXCEPT !.docs[t].steps = steps])
  <2> DEFINE doc == [c.docs[t] EXCEPT !.steps = steps]
  <2>1. doc \in Documents /\ doc.source = c.docs[t].source
    BY <1>1 DEF Documents
  <2>2. [c EXCEPT !.docs[t].steps = steps] = [c EXCEPT !.docs[t] = doc]
    BY DEF Cases, CasesOf
  <2> HIDE DEF doc
  <2> QED BY <2>1, <2>2, DocumentSet
<1>4. ASSUME NEW risks \in SUBSET Risks
      PROVE  Kept(c, [c EXCEPT !.docs[t].risks = risks])
  <2> DEFINE doc == [c.docs[t] EXCEPT !.risks = risks]
  <2>1. doc \in Documents /\ doc.source = c.docs[t].source
    BY <1>1 DEF Documents
  <2>2. [c EXCEPT !.docs[t].risks = risks] = [c EXCEPT !.docs[t] = doc]
    BY DEF Cases, CasesOf
  <2> HIDE DEF doc
  <2> QED BY <2>1, <2>2, DocumentSet
<1>5. ASSUME NEW waiver \in Waivers
      PROVE  Kept(c, [c EXCEPT !.docs[t].waiver = waiver])
  <2> DEFINE doc == [c.docs[t] EXCEPT !.waiver = waiver]
  <2>1. doc \in Documents /\ doc.source = c.docs[t].source
    BY <1>1 DEF Documents
  <2>2. [c EXCEPT !.docs[t].waiver = waiver] = [c EXCEPT !.docs[t] = doc]
    BY DEF Cases, CasesOf
  <2> HIDE DEF doc
  <2> QED BY <2>1, <2>2, DocumentSet
<1>6. ASSUME NEW references \in References \cup {None}
      PROVE  Kept(c, [c EXCEPT !.docs[t].references = references])
  <2> DEFINE doc == [c.docs[t] EXCEPT !.references = references]
  <2>1. doc \in Documents /\ doc.source = c.docs[t].source
    BY <1>1 DEF Documents
  <2>2. [c EXCEPT !.docs[t].references = references] = [c EXCEPT !.docs[t] = doc]
    BY DEF Cases, CasesOf
  <2> HIDE DEF doc
  <2> QED BY <2>1, <2>2, DocumentSet
<1> QED BY <1>2, <1>3, <1>4, <1>5, <1>6

\* Edits on top of each other.
LEMMA KeptTwice ==
  ASSUME NEW c, NEW d, NEW e, Kept(c, d), Kept(d, e)
  PROVE  Kept(c, e)
BY DEF Kept, SourcesKept

\* The values of the mutations are of the right kind.
LEMMA ValuesAreTyped ==
  /\ {Signed("PROCESS_OWNER", "APPROVED", 2)} \in SUBSET Approvals
  /\ {} \in SUBSET Approvals
  /\ \A n \in Nat : /\ Signatures(n) \in SUBSET Approvals
                    /\ {Signed("PLANT_MANAGER", "REJECTED", n)} \in SUBSET Approvals
  /\ \A step \in Steps, special \in BOOLEAN : Risk(step, special) \in Risks
  /\ {"WELD", "CLEAN", "INSPECT"} \subseteq Steps /\ "SPATTER" \in Chars
  /\ Waiver(2) \in Waivers
  /\ {"max0", "max1", "max0_per_cm2"} \subseteq Specs
  /\ {"SOP", "CONTROL_PLAN", "PFMEA", "PROCESS_FLOW", "INSPECTION_RECORD"} \subseteq DocTypes
<1>1. \A role \in Approvers \cup {"PLANT_MANAGER"}, decision \in {"APPROVED", "REJECTED"},
         n \in Nat : Signed(role, decision, n) \in Approvals
  BY DEF Signed, Approvals
<1>2. \A n \in Nat : Signatures(n) \in SUBSET Approvals
  BY <1>1 DEF Signatures
<1>3. {Signed("PROCESS_OWNER", "APPROVED", 2)} \in SUBSET Approvals
  BY <1>1 DEF Approvers
<1>4. \A n \in Nat : {Signed("PLANT_MANAGER", "REJECTED", n)} \in SUBSET Approvals
  BY <1>1
<1>5. {"WELD", "CLEAN", "INSPECT"} \subseteq Steps /\ "SPATTER" \in Chars
  BY DEF Steps, Chars
<1>6. \A step \in Steps, special \in BOOLEAN : Risk(step, special) \in Risks
  BY <1>5 DEF Risk, Risks
<1>7. Waiver(2) \in Waivers
  BY DEF Waiver, Waivers
<1> QED BY <1>2, <1>3, <1>4, <1>5, <1>6, <1>7 DEF Specs, DocTypes, Roles

\* What the edits make of references.
LEMMA ReferencesAreTyped ==
  ASSUME NEW references \in References
  PROVE  /\ "SOP" \in DOMAIN references =>
              [references EXCEPT !["SOP"].revision = 1] \in References
         /\ [role \in DOMAIN references \cup {"WORK_CARD"} |->
               IF role \in DOMAIN references THEN references[role]
               ELSE [revision |-> 1, source |-> 1]] \in References
<1> DEFINE Claims == Identities \cup [Roles -> [revision : Nat]]
<1>1. PICK R \in SUBSET Holders : references \in [R -> Claims]
  BY DEF References, ReferencesOf
<1>2. ASSUME "SOP" \in DOMAIN references
      PROVE  [references EXCEPT !["SOP"].revision = 1] \in References
  <2> DEFINE claim == [references["SOP"] EXCEPT !.revision = 1]
  <2>1. references["SOP"] \in Claims
    BY <1>1, <1>2
  <2>2. claim \in Claims
    <3>1. CASE references["SOP"] \in Identities
      BY <3>1 DEF Identities
    <3>2. CASE references["SOP"] \in [Roles -> [revision : Nat]]
      BY <3>2 DEF Roles
    <3> QED BY <2>1, <3>1, <3>2
  <2>3. [references EXCEPT !["SOP"].revision = 1] = [references EXCEPT !["SOP"] = claim]
    OBVIOUS
  <2> HIDE DEF claim, Claims
  <2>4. [references EXCEPT !["SOP"] = claim] \in [R -> Claims]
    BY <1>1, <2>2
  <2> QED BY <2>3, <2>4 DEF References, ReferencesOf, Claims
<1>3. [role \in DOMAIN references \cup {"WORK_CARD"} |->
         IF role \in DOMAIN references THEN references[role]
         ELSE [revision |-> 1, source |-> 1]] \in References
  <2>1. [revision |-> 1, source |-> 1] \in Claims
    BY DEF Identities
  <2>2. R \cup {"WORK_CARD"} \in SUBSET Holders
    BY DEF Holders
  <2> DEFINE wider == [role \in DOMAIN references \cup {"WORK_CARD"} |->
                         IF role \in DOMAIN references THEN references[role]
                         ELSE [revision |-> 1, source |-> 1]]
  <2> HIDE DEF Claims
  <2>3. wider \in [R \cup {"WORK_CARD"} -> Claims]
    BY <1>1, <2>1
  <2> HIDE DEF wider
  <2>4. wider \in References
    BY <2>2, <2>3 DEF References, ReferencesOf, Claims
  <2> QED BY <2>4 DEF wider
<1> QED BY <1>2, <1>3

\* Identities under the controlled roles are references.
LEMMA ClaimsAreReferences == [Roles -> Identities] \subseteq References
<1>1. Roles \in SUBSET Holders
  BY DEF Holders
<1> QED BY <1>1 DEF References, ReferencesOf

\* Every mutation makes a case of a case and leaves the sources.
LEMMA MutationKeeps ==
  ASSUME NEW c \in Cases, NEW m, NEW d, Applies(m, c), Mutated(m, c, d)
  PROVE  Kept(c, d)
<1> DEFINE record == c.docs["INSPECTION_RECORD"]
<1> USE ValuesAreTyped
<1>1. ControlFields \in SUBSET ControlFields /\ {} \in SUBSET ControlFields
      /\ <<>> \in RowTables
      /\ \A f : ControlFields \ {f} \in SUBSET ControlFields
  BY DEF RowTables
<1>2. record.references \in References \cup {None}
  BY DEF Cases, CasesOf, Documents
<1>3. CASE m = "M001"
  <2> DEFINE d1 == SetRow(c, "SOP", Row("max1", {}))
             d2 == [d1 EXCEPT !.docs["SOP"].revision = 1]
  <2>1. Kept(c, d1)
    BY <1>1, SettersKeep
  <2> HIDE DEF d1
  <2>2. Kept(d1, d2)
    <3>1. d1 \in Cases /\ "SOP" \in DocTypes /\ 1 \in Nat
      BY <2>1 DEF Kept, SourcesKept
    <3> QED BY <3>1, DocumentFields
  <2>3. d = SetDate(d2, "SOP", 1)
    BY <1>3 DEF Mutated, d1
  <2> HIDE DEF d2
  <2>4. Kept(d2, d)
    <3>1. d2 \in Cases /\ "SOP" \in DocTypes /\ 1 \in Nat
      BY <2>2 DEF Kept, SourcesKept
    <3> QED BY <2>3, <3>1, SettersKeep
  <2> QED BY <2>1, <2>2, <2>4, KeptTwice
<1>4. CASE m \in {"M002", "M023", "M024", "M025"}
  <2>1. \E claims \in {"absent", "FAIL", "PASS"} : d = SetClaims(c, claims)
    BY <1>4 DEF Mutated
  <2> QED BY <2>1, SettersKeep
<1>5. CASE m \in {"M003", "M014", "M015"}
  <2>1. \E f : d = SetControls(c, ControlFields \ {f})
    BY <1>5 DEF Mutated
  <2> QED BY <1>1, <2>1, SettersKeep
<1>6. CASE m \in {"M004", "M027", "M028"}
  <2>1. \E approvals \in SUBSET Approvals : d = SetApprovals(c, approvals)
    BY <1>6 DEF Mutated
  <2> QED BY <2>1, SettersKeep
<1>7. CASE m \in {"M005", "M021", "M022"}
  <2>1. \E references \in References \cup {None} :
          d = [c EXCEPT !.docs["INSPECTION_RECORD"].references = references]
    <3>1. CASE m = "M005"
      <4>1. record.references \in References /\ "SOP" \in DOMAIN record.references
        BY <1>2, <3>1 DEF Applies
      <4>2. d = [c EXCEPT !.docs["INSPECTION_RECORD"].references =
                   [record.references EXCEPT !["SOP"].revision = 1]]
        BY <3>1 DEF Mutated, Cases, CasesOf
      <4> QED BY <4>1, <4>2, ReferencesAreTyped
    <3>2. CASE m = "M022"
      <4>1. record.references \in References
        BY <1>2, <3>2 DEF Applies
      <4>2. d = [c EXCEPT !.docs["INSPECTION_RECORD"].references =
                   [role \in DOMAIN record.references \cup {"WORK_CARD"} |->
                      IF role \in DOMAIN record.references THEN record.references[role]
                      ELSE [revision |-> 1, source |-> 1]]]
        BY <3>2 DEF Mutated, Cases, CasesOf
      <4> QED BY <4>1, <4>2, ReferencesAreTyped
    <3>3. CASE m = "M021"
      BY <3>3 DEF Mutated
    <3> QED BY <1>7, <3>1, <3>2, <3>3
  <2> QED BY <2>1, DocumentFields
<1>8. CASE m \in {"M006", "M013"}
  <2>1. \E t \in {"SOP", "CONTROL_PLAN"} : d = SetRows(c, t, <<>>)
    BY <1>8 DEF Mutated
  <2> QED BY <1>1, <2>1, SettersKeep
<1>9. CASE m \in {"M007", "M016"}
  <2>1. \E risk \in Risks : d = SetRisk(c, risk)
    BY <1>9 DEF Mutated
  <2> QED BY <2>1, SettersKeep
<1>10. CASE m = "M008"
  <2>1. d = [c EXCEPT !.docs["CONTROL_PLAN"].steps = Steps \ {"INSPECT"}]
    BY <1>10 DEF Mutated
  <2> QED BY <2>1, DocumentFields
<1>11. CASE m \in {"M009", "M010"}
  BY <1>11, EventFields DEF Mutated
<1>12. CASE m \in {"M011", "M012"}
  <2>1. \E t \in {"SOP", "INSPECTION_RECORD"}, spec \in Specs : d = SetRow(c, t, Row(spec, {}))
    BY <1>12 DEF Mutated
  <2> QED BY <1>1, <2>1, SettersKeep
<1>13. CASE m \in {"M017", "M029"}
  <2>1. PICK day \in Nat \cup {None} : d = [c EXCEPT !.event.approved_at = day]
    BY <1>13 DEF Mutated
  <2>2. Kept(c, [c EXCEPT !.event.approved_at = day])
    BY EventFields
  <2> QED BY <2>1, <2>2
<1>14. CASE m = "M018"
  <2> DEFINE d1 == SetDate(c, "PROCESS_FLOW", 2)
  <2>1. Kept(c, d1)
    BY SettersKeep
  <2>2. d = [d1 EXCEPT !.docs["PROCESS_FLOW"].waiver = Waiver(2)]
    BY <1>14 DEF Mutated
  <2> HIDE DEF d1
  <2>3. Kept(d1, d)
    BY <2>1, <2>2, DocumentFields DEF Kept, SourcesKept
  <2> QED BY <2>1, <2>3, KeptTwice
<1>15. CASE m \in {"M019", "M020"}
  <2>1. \E t \in {"PROCESS_FLOW", "SOP"}, day \in Nat : d = SetDate(c, t, day)
    BY <1>15 DEF Mutated
  <2> QED BY <2>1, SettersKeep
<1>16. CASE m = "M026"
  <2> DEFINE d1 == [c EXCEPT !.event.risk_level = "MEDIUM"]
  <2>1. Kept(c, d1)
    BY EventFields
  <2>2. d = SetApprovals(d1, {})
    BY <1>16 DEF Mutated
  <2> HIDE DEF d1
  <2>3. Kept(d1, d)
    <3>1. d1 \in Cases /\ {} \in SUBSET Approvals
      BY <2>1 DEF Kept, SourcesKept
    <3> QED BY <2>2, <3>1, SettersKeep
  <2> QED BY <2>1, <2>3, KeptTwice
<1>17. CASE m = "M030"
  <2> DEFINE d1 == SetRisk(c, Risk("CLEAN", TRUE))
             d2 == SetRow(d1, "SOP", Row("max1", {}))
             d3 == SetControls(d2, ControlFields \ {"reaction_plan"})
             d4 == SetClaims(d3, "absent")
  <2>1. d = SetApprovals(d4, {})
    BY <1>17 DEF Mutated
  <2>2. Kept(c, d1)
    BY SettersKeep
  <2> HIDE DEF d1
  <2>3. Kept(d1, d2)
    BY <1>1, <2>2, SettersKeep DEF Kept, SourcesKept
  <2> HIDE DEF d2
  <2>4. Kept(d2, d3)
    <3>1. d2 \in Cases
      BY <2>3 DEF Kept, SourcesKept
    <3> QED BY <1>1, <3>1, SettersKeep
  <2> HIDE DEF d3
  <2>5. Kept(d3, d4)
    BY <2>4, SettersKeep DEF Kept, SourcesKept
  <2> HIDE DEF d4
  <2>6. Kept(d4, d)
    <3>1. d4 \in Cases /\ {} \in SUBSET Approvals
      BY <2>5 DEF Kept, SourcesKept
    <3> QED BY <2>1, <3>1, SettersKeep
  <2> QED BY <2>2, <2>3, <2>4, <2>5, <2>6, KeptTwice
<1>18. m \in {"M001", "M030", "M026", "M018", "M008"} \cup {"M002", "M023", "M024", "M025"}
         \cup {"M003", "M014", "M015"} \cup {"M004", "M027", "M028"}
         \cup {"M005", "M021", "M022"} \cup {"M006", "M013"} \cup {"M007", "M016"}
         \cup {"M009", "M010"} \cup {"M011", "M012"} \cup {"M017", "M029"} \cup {"M019", "M020"}
  BY DEF Mutated
<1> QED BY <1>3, <1>4, <1>5, <1>6, <1>7, <1>8, <1>9, <1>10, <1>11, <1>12, <1>13, <1>14, <1>15,
           <1>16, <1>17, <1>18

\* The documents of the baseline.
LEMMA BaselineDocuments ==
  ASSUME NEW t \in DocTypes
  PROVE  /\ BaselineDocs[t] \in Documents
         /\ BaselineDocs[t].revision = 2 /\ BaselineDocs[t].source = 2
         /\ BaselineDocs[t].waiver = None /\ ~BaselineDocs[t].unbound
<1>1. /\ BaselineDocs["PROCESS_FLOW"] = Document(Steps, 6, <<>>)
      /\ BaselineDocs["PFMEA"] = [Document(Steps, 6, <<>>) EXCEPT !.risks = {Risk("WELD", TRUE)}]
      /\ BaselineDocs["CONTROL_PLAN"] = Document(Steps, 7, Only(Seam, Row("max0", ControlFields)))
      /\ BaselineDocs["SOP"] = Document({"WELD"}, 7, Only(Seam, Row("max0", {})))
      /\ BaselineDocs["INSPECTION_RECORD"] =
           [Document({"WELD"}, 8, Only(Seam, Row("max0", {}))) EXCEPT
              !.references = [role \in Roles |-> CurrentIdentity]]
  BY DEF BaselineDocs
<1>2. ASSUME NEW steps \in SUBSET Steps, NEW date \in Nat, NEW rows \in RowTables
      PROVE  /\ Document(steps, date, rows) \in Documents
             /\ Document(steps, date, rows).revision = 2 /\ Document(steps, date, rows).source = 2
             /\ Document(steps, date, rows).waiver = None
             /\ ~Document(steps, date, rows).unbound
  BY DEF Document, Documents
<1>3. /\ <<>> \in RowTables /\ {"WELD"} \in SUBSET Steps
      /\ Only(Seam, Row("max0", ControlFields)) \in RowTables
      /\ Only(Seam, Row("max0", {})) \in RowTables
  BY DEF RowTables, Only, Row, Specs, Steps
<1>4. [role \in Roles |-> CurrentIdentity] \in References
  BY ClaimsAreReferences DEF CurrentIdentity, Identities
<1>5. CASE t \in {"PROCESS_FLOW", "CONTROL_PLAN", "SOP"}
  BY <1>1, <1>2, <1>3, <1>5
<1>6. CASE t = "PFMEA"
  <2> DEFINE doc == Document(Steps, 6, <<>>)
  <2>1. doc \in Documents /\ {Risk("WELD", TRUE)} \in SUBSET Risks
    BY <1>2, <1>3, ValuesAreTyped
  <2>2. doc.revision = 2 /\ doc.source = 2 /\ doc.waiver = None /\ ~doc.unbound
    BY <1>2, <1>3
  <2> HIDE DEF doc
  <2>3. [doc EXCEPT !.risks = {Risk("WELD", TRUE)}] \in Documents
    BY <2>1 DEF Documents
  <2>4. LET e == [doc EXCEPT !.risks = {Risk("WELD", TRUE)}] IN
        e.revision = 2 /\ e.source = 2 /\ e.waiver = None /\ ~e.unbound
    BY <2>1, <2>2 DEF Documents
  <2> QED BY <1>1, <1>6, <2>3, <2>4 DEF doc
<1>7. CASE t = "INSPECTION_RECORD"
  <2> DEFINE doc == Document({"WELD"}, 8, Only(Seam, Row("max0", {})))
             e == [doc EXCEPT !.references = [role \in Roles |-> CurrentIdentity]]
  <2>1. doc \in Documents
    BY <1>2, <1>3
  <2>2. doc.revision = 2 /\ doc.source = 2 /\ doc.waiver = None /\ ~doc.unbound
    BY <1>2, <1>3
  <2> HIDE DEF doc
  <2>3. e \in Documents
    BY <1>4, <2>1 DEF Documents
  <2>4. e.revision = 2 /\ e.source = 2 /\ e.waiver = None /\ ~e.unbound
    BY <2>1, <2>2 DEF Documents
  <2> QED BY <1>1, <1>7, <2>3, <2>4 DEF doc
<1> QED BY <1>5, <1>6, <1>7 DEF DocTypes, Roles

\* Rows that are bound by hand are those of the baseline.
LEMMA ReboundKeeps ==
  ASSUME NEW c \in Cases, NEW t
  PROVE  Kept(c, Rebound(c, t))
<1> DEFINE Doc(u) == [c.docs[u] EXCEPT
                        !.rows = BaselineDocs[u].rows, !.risks = BaselineDocs[u].risks,
                        !.references = BaselineDocs[u].references, !.unbound = @ /\ u = t]
           event == [c.event EXCEPT !.links = {Seam}, !.plan = Baseline.event.plan]
<1>1. ASSUME NEW u \in DocTypes
      PROVE  Doc(u) \in Documents /\ Doc(u).source = c.docs[u].source
  <2>1. c.docs[u] \in Documents /\ BaselineDocs[u] \in Documents
    BY BaselineDocuments DEF Cases, CasesOf
  <2> QED BY <2>1 DEF Documents
<1>2. event \in Events /\ event.revision = c.event.revision
  <2>1. Baseline.event.plan = Plan
    BY DEF Baseline, Plan
  <2>2. {Seam} \in SUBSET (Steps \X Chars)
    BY DEF Seam, Steps, Chars
  <2>3. c.event \in Events
    BY DEF Cases, CasesOf
  <2> QED BY <2>1, <2>2, <2>3 DEF Events, EventsOf
<1> DEFINE d == [c EXCEPT !.event = event, !.docs = [u \in DocTypes |-> Doc(u)]]
<1>3. Rebound(c, t) = d
  BY DEF Rebound, Cases, CasesOf
<1> HIDE DEF event, Doc
<1>4. Kept(c, d)
  BY <1>1, <1>2 DEF Kept, SourcesKept, Cases, CasesOf
<1> QED BY <1>3, <1>4

\* So do the edits beside the benchmark.
LEMMA RevisionKeeps ==
  ASSUME NEW c \in Cases, NEW e, NEW d, Revised(e, c, d)
  PROVE  \/ Kept(c, d)
         \/ /\ e = "REVISE" /\ SourcesKept(c, d)
            /\ d.event.revision = c.event.revision + 1
<1> USE ValuesAreTyped
<1>1. c.event \in Events /\ \A t \in DocTypes : c.docs[t] \in Documents
  BY DEF Cases, CasesOf
<1>2. c.event.revision \in Nat /\ c.event.chars \in SUBSET Chars /\ c.event.steps \in SUBSET Steps
      /\ c.event.links \in SUBSET (Steps \X Chars)
  BY <1>1 DEF Events, EventsOf
<1>3. CASE e = "REVISE"
  <2>1. d = [c EXCEPT !.event.revision = c.event.revision + 1]
    BY <1>3 DEF Revised, Cases, CasesOf
  <2>2. c.event.revision + 1 \in Nat
    BY <1>2
  <2> DEFINE n == c.event.revision + 1
  <2>3. /\ SourcesKept(c, [c EXCEPT !.event.revision = n])
        /\ [c EXCEPT !.event.revision = n].event.revision = n
    <3> HIDE DEF n
    <3> QED BY <2>2, EventFields DEF n
  <2> QED BY <1>3, <2>1, <2>3
<1>4. CASE e \in {"SIGN", "REJECT"}
  <2>1. \E approvals \in SUBSET Approvals : d = SetApprovals(c, approvals)
    BY <1>2, <1>4 DEF Revised
  <2> QED BY <2>1, SettersKeep
<1>5. CASE e = "ADD_CHARACTERISTIC"
  <2>1. d = [c EXCEPT !.event.chars = c.event.chars \cup {"TORQUE"}]
    BY <1>5 DEF Revised, Cases, CasesOf
  <2> QED BY <1>2, <2>1, EventFields DEF Chars
<1>6. CASE e = "ADD_STEP"
  <2>1. d = [c EXCEPT !.event.steps = c.event.steps \cup {"CLEAN"}]
    BY <1>6 DEF Revised, Cases, CasesOf
  <2> QED BY <1>2, <2>1, EventFields
<1>7. CASE e \in {"LINK_STEP", "LINK_OTHER"}
  <2>1. PICK link \in Steps \X Chars : d = [c EXCEPT !.event.links = c.event.links \cup {link}]
    BY <1>7 DEF Revised, Cases, CasesOf, Steps, Chars
  <2> DEFINE links == c.event.links \cup {link}
  <2>2. links \in SUBSET (Steps \X Chars)
    BY <1>2
  <2>3. d = [c EXCEPT !.event.links = links]
    BY <2>1
  <2> HIDE DEF links
  <2> QED BY <2>2, <2>3, EventFields
<1>8. CASE e = "SECOND_RISK"
  <2> DEFINE risk == [mode |-> "SEAT_DAMAGE", pair |-> Seam, special |-> FALSE]
  <2>1. d = [c EXCEPT !.docs["PFMEA"].risks = c.docs["PFMEA"].risks \cup {risk}]
    BY <1>8 DEF Revised, Cases, CasesOf
  <2>2. risk \in Risks
    BY DEF Risks, Seam, Steps, Chars
  <2>3. c.docs["PFMEA"].risks \cup {risk} \in SUBSET Risks
    BY <1>1, <2>2 DEF Documents
  <2> QED BY <2>1, <2>3, DocumentFields
<1>9. CASE e = "FOLLOW_REFERENCES"
  <2>1. d = [c EXCEPT !.docs["INSPECTION_RECORD"].references =
               [role \in Roles |-> Identity(c.docs[role])]]
    BY <1>9 DEF Revised
  <2>2. [role \in Roles |-> Identity(c.docs[role])] \in References
    BY <1>1, ClaimsAreReferences DEF Identity, Identities, Documents, DocTypes
  <2> QED BY <2>1, <2>2, DocumentFields
<1>10. CASE e \in {"REBIND", "REBIND_PFMEA", "REBIND_CONTROL_PLAN", "REBIND_SOP",
                   "REBIND_INSPECTION_RECORD"}
  <2>1. \E t \in {None, "PFMEA", "CONTROL_PLAN", "SOP", "INSPECTION_RECORD"} : d = Rebound(c, t)
    BY <1>10 DEF Revised
  <2> QED BY <2>1, ReboundKeeps
<1>11. e \in {"REVISE", "ADD_CHARACTERISTIC", "ADD_STEP", "SECOND_RISK", "FOLLOW_REFERENCES"}
         \cup {"SIGN", "REJECT"} \cup {"LINK_STEP", "LINK_OTHER"}
         \cup {"REBIND", "REBIND_PFMEA", "REBIND_CONTROL_PLAN", "REBIND_SOP",
               "REBIND_INSPECTION_RECORD"}
  BY DEF Revised
<1> QED BY <1>3, <1>4, <1>5, <1>6, <1>7, <1>8, <1>9, <1>10, <1>11

\* Together: an edit keeps the sources, and the revision but for REVISE.
LEMMA EditKeeps ==
  ASSUME NEW c \in Cases, NEW e, NEW d, Edited(e, c, d)
  PROVE  /\ SourcesKept(c, d)
         /\ \/ d.event.revision = c.event.revision
            \/ /\ d.event.revision = c.event.revision + 1
               /\ c.event.revision < MaxRevision
BY MutationKeeps, RevisionKeeps DEF Edited, Kept, Applies

(***************************************************************************)
(* Faults                                                                  *)
(***************************************************************************)

\* A faulted case with another document t.
LEMMA FaultedBut ==
  ASSUME NEW c, Faulted(c), NEW d, NEW t,
         d.event = c.event, \A u \in DocTypes : u # t => d.docs[u] = c.docs[u],
         d.docs[t].waiver = None,
         t = "PFMEA" => \A risk \in d.docs[t].risks : risk.special,
         t = "CONTROL_PLAN" => \A pair \in DOMAIN d.docs[t].rows : d.docs[t].rows[pair].spec = "max0",
         t = "SOP" => d.docs[t].date <= 7, t = "PROCESS_FLOW" => d.docs[t].date <= 6
  PROVE  Faulted(d)
<1>1. {"SOP", "CONTROL_PLAN", "PFMEA", "PROCESS_FLOW"} \subseteq DocTypes
  BY DEF DocTypes, Roles
<1>2. \A risk \in d.docs["PFMEA"].risks : risk.special
  BY <1>1 DEF Faulted
<1>3. \A pair \in DOMAIN d.docs["CONTROL_PLAN"].rows :
        d.docs["CONTROL_PLAN"].rows[pair].spec = "max0"
  BY <1>1 DEF Faulted
<1>4. d.docs["SOP"].date <= 7 /\ d.docs["PROCESS_FLOW"].date <= 6
  BY <1>1 DEF Faulted
<1>5. \A u \in DocTypes : d.docs[u].waiver = None
  BY DEF Faulted
<1> QED BY <1>2, <1>3, <1>4, <1>5 DEF Faulted

\* The same for a document that is set.
LEMMA FaultedDocument ==
  ASSUME NEW c \in Cases, Faulted(c), NEW d, NEW t \in DocTypes, NEW doc \in Documents,
         d.event = c.event, d.docs = [c.docs EXCEPT ![t] = doc], doc.waiver = None,
         t = "PFMEA" => \A risk \in doc.risks : risk.special,
         t = "CONTROL_PLAN" => \A pair \in DOMAIN doc.rows : doc.rows[pair].spec = "max0",
         t = "SOP" => doc.date <= 7, t = "PROCESS_FLOW" => doc.date <= 6
  PROVE  Faulted(d) /\ d.docs[t] = doc
<1>1. d.docs[t] = doc /\ \A u \in DocTypes : u # t => d.docs[u] = c.docs[u]
  BY DEF Cases, CasesOf
<1>2. /\ d.docs[t].waiver = None
      /\ t = "PFMEA" => \A risk \in d.docs[t].risks : risk.special
      /\ t = "CONTROL_PLAN" =>
           \A pair \in DOMAIN d.docs[t].rows : d.docs[t].rows[pair].spec = "max0"
      /\ (t = "SOP" => d.docs[t].date <= 7) /\ (t = "PROCESS_FLOW" => d.docs[t].date <= 6)
  BY <1>1
<1>3. \A u \in DocTypes : u # t => d.docs[u] = c.docs[u]
  BY <1>1
<1>4. Faulted(d)
  BY <1>2, <1>3, FaultedBut, ZenonT(30)
<1> QED BY <1>1, <1>4

\* A faulted case with another event.
LEMMA FaultedEvent ==
  ASSUME NEW c, Faulted(c), NEW d, d.docs = c.docs,
         d.event.revision = c.event.revision, d.event.risk_level = c.event.risk_level,
         d.event.links \subseteq c.event.links,
         d.event.steps \in {c.event.steps, {}},
         d.event.approved_at \in {c.event.approved_at, None, 10}
  PROVE  Faulted(d)
BY DEF Faulted

\* A fault of the benchmark leaves its trace, whatever faults came before it.
LEMMA FaultScars ==
  ASSUME NEW c \in Cases, Faulted(c), NEW m \in CaseFaults, NEW d, Applies(m, c), Mutated(m, c, d)
  PROVE  Faulted(d) /\ Scarred(d)
<1>1. /\ c.event \in Events /\ c.docs \in [DocTypes -> Documents]
      /\ {"SOP", "CONTROL_PLAN", "PFMEA", "PROCESS_FLOW", "INSPECTION_RECORD"} \subseteq DocTypes
      /\ \A t \in DocTypes : c.docs[t] \in Documents
  BY DEF Cases, CasesOf, DocTypes, Roles
<1>2. /\ c.docs["SOP"].date <= 7 /\ c.docs["PROCESS_FLOW"].date <= 6
      /\ c.event.approved_at \in {None, 5, 10}
      /\ \A t \in DocTypes : c.docs[t].waiver = None /\ c.docs[t].date \in Nat
  BY <1>1 DEF Faulted, Documents
<1>3. ASSUME NEW t \in DocTypes, NEW rows \in RowTables, d = SetRows(c, t, rows),
             t = "CONTROL_PLAN" => \A pair \in DOMAIN rows : rows[pair].spec = "max0"
      PROVE  Faulted(d) /\ d.docs[t].rows = rows
  <2> DEFINE doc == [c.docs[t] EXCEPT !.rows = rows, !.unbound = FALSE]
  <2>1. /\ doc \in Documents /\ doc.rows = rows
        /\ doc.waiver = c.docs[t].waiver /\ doc.date = c.docs[t].date
        /\ doc.risks = c.docs[t].risks
    BY <1>1 DEF Documents
  <2>2. d.event = c.event /\ d.docs = [c.docs EXCEPT ![t] = doc]
    BY <1>3 DEF SetRows, Cases, CasesOf
  <2>0. d.docs[t] = doc /\ \A u \in DocTypes : u # t => d.docs[u] = c.docs[u]
    BY <1>1, <2>2
  <2> HIDE DEF doc
  <2>3. t = "PFMEA" => \A risk \in doc.risks : risk.special
    BY <2>1 DEF Faulted
  <2>4. doc.waiver = None /\ (t = "SOP" => doc.date <= 7) /\ (t = "PROCESS_FLOW" => doc.date <= 6)
    BY <1>2, <2>1
  <2>5. t = "CONTROL_PLAN" => \A pair \in DOMAIN doc.rows : doc.rows[pair].spec = "max0"
    BY <1>3, <2>1
  <2>7. /\ d.docs[t].waiver = None
        /\ t = "PFMEA" => \A risk \in d.docs[t].risks : risk.special
        /\ t = "CONTROL_PLAN" =>
             \A pair \in DOMAIN d.docs[t].rows : d.docs[t].rows[pair].spec = "max0"
        /\ (t = "SOP" => d.docs[t].date <= 7) /\ (t = "PROCESS_FLOW" => d.docs[t].date <= 6)
    BY <2>0, <2>2, <2>3, <2>4, <2>5
  <2>8. \A u \in DocTypes : u # t => d.docs[u] = c.docs[u]
    BY <2>0
  <2>9. Faulted(d)
    BY <2>2, <2>7, <2>8, FaultedBut
  <2> QED BY <2>0, <2>1, <2>2, <2>9
<1>4. ASSUME NEW t \in DocTypes, NEW day \in Nat, d = SetDate(c, t, day), day <= 6
      PROVE  Faulted(d) /\ d.docs[t].date = day /\ d.event = c.event
  <2> DEFINE doc == [c.docs[t] EXCEPT !.date = day]
  <2>1. /\ doc \in Documents /\ doc.rows = c.docs[t].rows
        /\ doc.waiver = c.docs[t].waiver /\ doc.date = day /\ doc.date <= 7
        /\ doc.risks = c.docs[t].risks
    BY <1>1, <1>4 DEF Documents
  <2>2. d.event = c.event /\ d.docs = [c.docs EXCEPT ![t] = doc]
    BY <1>4 DEF SetDate, Cases, CasesOf
  <2>0. d.docs[t] = doc /\ \A u \in DocTypes : u # t => d.docs[u] = c.docs[u]
    BY <1>1, <2>2
  <2> HIDE DEF doc
  <2>3. /\ t = "PFMEA" => \A risk \in doc.risks : risk.special
        /\ t = "CONTROL_PLAN" => \A pair \in DOMAIN doc.rows : doc.rows[pair].spec = "max0"
    BY <2>1 DEF Faulted
  <2>4. doc.waiver = None /\ (t = "SOP" => doc.date <= 7) /\ (t = "PROCESS_FLOW" => doc.date <= 6)
    BY <1>2, <1>4, <2>1
  <2>7. /\ d.docs[t].waiver = None
        /\ t = "PFMEA" => \A risk \in d.docs[t].risks : risk.special
        /\ t = "CONTROL_PLAN" =>
             \A pair \in DOMAIN d.docs[t].rows : d.docs[t].rows[pair].spec = "max0"
        /\ (t = "SOP" => d.docs[t].date <= 7) /\ (t = "PROCESS_FLOW" => d.docs[t].date <= 6)
    BY <2>0, <2>2, <2>3, <2>4
  <2>8. \A u \in DocTypes : u # t => d.docs[u] = c.docs[u]
    BY <2>0
  <2>9. Faulted(d)
    BY <2>2, <2>7, <2>8, FaultedBut
  <2> QED BY <2>0, <2>1, <2>2, <2>9
<1>5. ASSUME NEW references, references \in References \cup {None},
             d = [c EXCEPT !.docs["INSPECTION_RECORD"].references = references]
      PROVE  Faulted(d) /\ d.docs["INSPECTION_RECORD"].references = references
  <2> DEFINE doc == [c.docs["INSPECTION_RECORD"] EXCEPT !.references = references]
  <2>1. doc \in Documents /\ doc.waiver = c.docs["INSPECTION_RECORD"].waiver
        /\ doc.references = references
    BY <1>1, <1>5 DEF Documents
  <2>2. d.event = c.event /\ d.docs = [c.docs EXCEPT !["INSPECTION_RECORD"] = doc]
    BY <1>5 DEF Cases, CasesOf
  <2> HIDE DEF doc
  <2>3. Faulted(d) /\ d.docs["INSPECTION_RECORD"] = doc
    BY <1>1, <1>2, <2>1, <2>2, FaultedDocument
  <2> QED BY <2>1, <2>3
<1>6. CASE m = "M001"
  <2> DEFINE doc == [c.docs["SOP"] EXCEPT !.rows = Only(Seam, Row("max1", {})), !.unbound = FALSE,
                                          !.revision = 1, !.date = 1]
  <2>1. Only(Seam, Row("max1", {})) \in RowTables
    BY DEF Only, Row, RowTables, Specs
  <2>2. /\ doc \in Documents /\ doc.revision = 1 /\ doc.date = 1
        /\ doc.waiver = c.docs["SOP"].waiver
    BY <1>1, <2>1 DEF Documents
  <2>3. d.event = c.event /\ d.docs = [c.docs EXCEPT !["SOP"] = doc]
    <3>1. d = SetDate([SetRow(c, "SOP", Row("max1", {})) EXCEPT !.docs["SOP"].revision = 1],
                      "SOP", 1)
      BY <1>6 DEF Mutated
    <3> HIDE DEF doc
    <3>2. d.event = c.event /\ d.docs = [c.docs EXCEPT !["SOP"] = d.docs["SOP"]]
      BY <1>1, <3>1 DEF SetDate, SetRow, SetRows, Cases, CasesOf
    <3>3. d.docs["SOP"] = doc
      BY <1>1, <3>1 DEF SetDate, SetRow, SetRows, Cases, CasesOf, doc
    <3> QED BY <3>2, <3>3
  <2> HIDE DEF doc
  <2>4. Faulted(d) /\ d.docs["SOP"] = doc
    BY <1>1, <1>2, <2>2, <2>3, FaultedDocument
  <2> QED BY <2>2, <2>4 DEF Scarred
<1>7. CASE m \in {"M003", "M014", "M015"}
  <2>1. PICK f \in ControlFields : d = SetControls(c, ControlFields \ {f})
    BY <1>7 DEF Mutated, ControlFields
  <2> DEFINE rows == Only(Seam, Row("max0", ControlFields \ {f}))
  <2>2. /\ rows \in RowTables /\ rows[Seam].controls # ControlFields
        /\ \A pair \in DOMAIN rows : rows[pair].spec = "max0"
    BY DEF Only, Row, RowTables, Specs
  <2>3. d = SetRows(c, "CONTROL_PLAN", rows)
    BY <2>1 DEF SetControls, SetRow
  <2> HIDE DEF rows
  <2>4. Faulted(d) /\ d.docs["CONTROL_PLAN"].rows = rows
    BY <1>1, <1>3, <2>2, <2>3
  <2> QED BY <2>2, <2>4 DEF Scarred
<1>8. CASE m \in {"M004", "M027", "M028"}
  <2>1. PICK approvals \in {{Signed("PROCESS_OWNER", "APPROVED", 2)}, {}, Signatures(1)} :
          d = SetApprovals(c, approvals)
    BY <1>8 DEF Mutated
  <2>2. ~ \E a \in approvals : a.role = "QUALITY_MANAGER" /\ a.revision = 2
    BY <2>1 DEF Signed, Signatures
  <2>3. /\ d.event.approvals = approvals
        /\ d.event.revision = c.event.revision /\ d.event.risk_level = c.event.risk_level
        /\ d.event.links = c.event.links /\ d.event.steps = c.event.steps
        /\ d.event.approved_at = c.event.approved_at /\ d.docs = c.docs
    BY <1>1, <2>1 DEF SetApprovals, Cases, CasesOf, Events, EventsOf
  <2>4. Faulted(d)
    BY <2>3, FaultedEvent
  <2> QED BY <2>2, <2>3, <2>4 DEF Scarred
<1>9. CASE m \in {"M005", "M021", "M022"}
  <2> DEFINE references == c.docs["INSPECTION_RECORD"].references
  <2>1. references \in References \cup {None}
    BY <1>1 DEF Documents
  <2>2. PICK new \in References \cup {None} :
          /\ d = [c EXCEPT !.docs["INSPECTION_RECORD"].references = new]
          /\ new # [role \in Roles |-> CurrentIdentity]
    <3>1. CASE m = "M005"
      <4> DEFINE new == [references EXCEPT !["SOP"].revision = 1]
      <4>1. references \in References /\ "SOP" \in DOMAIN references
        BY <2>1, <3>1 DEF Applies
      <4>2. new \in References
        BY <4>1, ReferencesAreTyped
      <4>3. d = [c EXCEPT !.docs["INSPECTION_RECORD"].references = new]
        BY <3>1 DEF Mutated, Cases, CasesOf
      <4>4. new # [role \in Roles |-> CurrentIdentity]
        <5>1. new["SOP"] = [references["SOP"] EXCEPT !.revision = 1]
          BY <4>1
        <5>2. new["SOP"] # CurrentIdentity
          BY <5>1 DEF CurrentIdentity
        <5>3. [role \in Roles |-> CurrentIdentity]["SOP"] = CurrentIdentity
          BY DEF Roles
        <5> HIDE DEF new
        <5> QED BY <5>2, <5>3
      <4> HIDE DEF new
      <4> QED BY <4>2, <4>3, <4>4
    <3>2. CASE m = "M022"
      <4> DEFINE new == [role \in DOMAIN references \cup {"WORK_CARD"} |->
                           IF role \in DOMAIN references THEN references[role]
                           ELSE [revision |-> 1, source |-> 1]]
      <4>1. references \in References
        BY <2>1, <3>2 DEF Applies
      <4>2. new \in References
        BY <4>1, ReferencesAreTyped
      <4>3. d = [c EXCEPT !.docs["INSPECTION_RECORD"].references = new]
        BY <3>2 DEF Mutated, Cases, CasesOf
      <4>4. new # [role \in Roles |-> CurrentIdentity]
        <5>1. "WORK_CARD" \in DOMAIN new /\ "WORK_CARD" \notin Roles
          BY DEF Roles
        <5> HIDE DEF new
        <5> QED BY <5>1
      <4> HIDE DEF new
      <4> QED BY <4>2, <4>3, <4>4
    <3>3. CASE m = "M021"
      <4>1. d = [c EXCEPT !.docs["INSPECTION_RECORD"].references = None]
        BY <3>3 DEF Mutated
      <4>2. [role \in Roles |-> CurrentIdentity] \in [Roles -> Identities]
        BY DEF CurrentIdentity, Identities
      <4> QED BY <4>1, <4>2, NoneIsNothing
    <3> QED BY <1>9, <3>1, <3>2, <3>3
  <2>3. Faulted(d) /\ d.docs["INSPECTION_RECORD"].references = new
    BY <1>5, <2>2
  <2> QED BY <2>2, <2>3 DEF Scarred
<1>10. CASE m \in {"M006", "M011", "M012"}
  <2>1. PICK t \in {"SOP", "INSPECTION_RECORD"},
             rows \in {<<>>, Only(Seam, Row("max0_per_cm2", {})), Only(Seam, Row("max1", {}))} :
          d = SetRows(c, t, rows)
    BY <1>10 DEF Mutated, SetRow
  <2>2. rows \in RowTables /\ ~(Seam \in DOMAIN rows /\ rows[Seam].spec = "max0")
    BY <2>1 DEF Only, Row, RowTables, Specs
  <2>3. Faulted(d) /\ d.docs[t].rows = rows
    BY <1>1, <1>3, <2>1, <2>2
  <2> QED BY <2>2, <2>3 DEF Scarred, Specified
<1>11. CASE m = "M013"
  <2>1. d = SetRows(c, "CONTROL_PLAN", <<>>) /\ <<>> \in RowTables /\ DOMAIN <<>> = {}
    BY <1>11 DEF Mutated, RowTables
  <2>2. Faulted(d) /\ d.docs["CONTROL_PLAN"].rows = <<>>
    BY <1>1, <1>3, <2>1
  <2> QED BY <2>1, <2>2 DEF Scarred
<1>12. CASE m = "M007"
  <2> DEFINE risk == Risk("CLEAN", TRUE)
             doc == [c.docs["PFMEA"] EXCEPT !.risks = {risk}, !.unbound = FALSE]
  <2>1. risk \in Risks /\ risk.special /\ risk.pair # Seam
    BY ValuesAreTyped DEF Risk, Seam
  <2>2. doc \in Documents /\ doc.risks = {risk} /\ doc.waiver = c.docs["PFMEA"].waiver
    BY <1>1, <2>1 DEF Documents
  <2>3. d.event = c.event /\ d.docs = [c.docs EXCEPT !["PFMEA"] = doc]
    <3>1. d = SetRisk(c, risk)
      BY <1>12 DEF Mutated
    <3> HIDE DEF risk
    <3> QED BY <1>1, <3>1 DEF SetRisk, Cases, CasesOf
  <2> HIDE DEF doc, risk
  <2>4. Faulted(d) /\ d.docs["PFMEA"] = doc
    BY <1>1, <1>2, <2>1, <2>2, <2>3, FaultedDocument
  <2> QED BY <2>1, <2>2, <2>4 DEF Scarred, RiskPairs
<1>13. CASE m = "M008"
  <2> DEFINE doc == [c.docs["CONTROL_PLAN"] EXCEPT !.steps = Steps \ {"INSPECT"}]
  <2>1. /\ doc \in Documents /\ "INSPECT" \notin doc.steps
        /\ doc.waiver = c.docs["CONTROL_PLAN"].waiver /\ doc.rows = c.docs["CONTROL_PLAN"].rows
    BY <1>1 DEF Documents
  <2>2. d.event = c.event /\ d.docs = [c.docs EXCEPT !["CONTROL_PLAN"] = doc]
    BY <1>13 DEF Mutated, Cases, CasesOf
  <2> HIDE DEF doc
  <2>3. \A pair \in DOMAIN doc.rows : doc.rows[pair].spec = "max0"
    BY <2>1 DEF Faulted
  <2>4. Faulted(d) /\ d.docs["CONTROL_PLAN"] = doc
    BY <1>1, <1>2, <2>1, <2>2, <2>3, FaultedDocument
  <2> QED BY <2>1, <2>4 DEF Scarred
<1>14. CASE m \in {"M009", "M010"}
  <2>1. /\ d.event.links = {} /\ d.event.steps \in {c.event.steps, {}}
        /\ d.event.revision = c.event.revision /\ d.event.risk_level = c.event.risk_level
        /\ d.event.approved_at = c.event.approved_at /\ d.docs = c.docs
    <3>1. \/ d = [c EXCEPT !.event.steps = {}, !.event.links = {}]
          \/ d = [c EXCEPT !.event.chars = {}, !.event.links = {}]
      BY <1>14 DEF Mutated
    <3>2. CASE d = [c EXCEPT !.event.steps = {}, !.event.links = {}]
      <4>1. d.docs = c.docs /\ d.event = [c.event EXCEPT !.steps = {}, !.links = {}]
        BY <3>2 DEF Cases, CasesOf
      <4> QED BY <1>1, <4>1 DEF Events, EventsOf
    <3>3. CASE d = [c EXCEPT !.event.chars = {}, !.event.links = {}]
      <4>1. d.docs = c.docs /\ d.event = [c.event EXCEPT !.chars = {}, !.links = {}]
        BY <3>3 DEF Cases, CasesOf
      <4> QED BY <1>1, <4>1 DEF Events, EventsOf
    <3> QED BY <3>1, <3>2, <3>3
  <2>2. Faulted(d)
    BY <2>1, FaultedEvent
  <2> QED BY <2>1, <2>2 DEF Scarred
<1>15. CASE m \in {"M017", "M029"}
  <2>1. /\ d.event.approved_at \in {None, 10} /\ d.event.links = c.event.links
        /\ d.event.steps = c.event.steps /\ d.event.revision = c.event.revision
        /\ d.event.risk_level = c.event.risk_level /\ d.docs = c.docs
    <3>1. PICK day \in {None, 10} : d = [c EXCEPT !.event.approved_at = day]
      BY <1>15 DEF Mutated
    <3> QED BY <1>1, <3>1 DEF Cases, CasesOf, Events, EventsOf
  <2>2. Faulted(d)
    BY <2>1, FaultedEvent
  <2>3. d.event.approved_at = None \/ d.docs["SOP"].date < d.event.approved_at
    BY <1>1, <1>2, <2>1
  <2> QED BY <2>2, <2>3 DEF Scarred
<1>16. CASE m \in {"M019", "M020"}
  <2>1. PICK t \in {"PROCESS_FLOW", "SOP"}, day \in {2, 3} : d = SetDate(c, t, day)
    BY <1>16 DEF Mutated
  <2>2. Faulted(d) /\ d.docs[t].date = day /\ d.event = c.event
    BY <1>1, <1>4, <2>1
  <2>3. c.event.approved_at = None \/ day < c.event.approved_at
    BY <1>2, <2>1
  <2> QED BY <2>1, <2>2, <2>3 DEF Scarred
<1>17. CASE m = "M030"
  <2> DEFINE risk == Risk("CLEAN", TRUE)
             pfmea == [c.docs["PFMEA"] EXCEPT !.risks = {risk}, !.unbound = FALSE]
             sop == [c.docs["SOP"] EXCEPT !.rows = Only(Seam, Row("max1", {})), !.unbound = FALSE]
             rows == Only(Seam, Row("max0", ControlFields \ {"reaction_plan"}))
             plan == [c.docs["CONTROL_PLAN"] EXCEPT !.rows = rows, !.unbound = FALSE]
             docs == [[[c.docs EXCEPT !["PFMEA"] = pfmea] EXCEPT !["SOP"] = sop]
                        EXCEPT !["CONTROL_PLAN"] = plan]
  <2>1. /\ d.docs = docs
        /\ d.event.approvals = {} /\ d.event.revision = c.event.revision
        /\ d.event.risk_level = c.event.risk_level /\ d.event.links = c.event.links
        /\ d.event.steps = c.event.steps /\ d.event.approved_at = c.event.approved_at
    <3>1. d = SetApprovals(SetClaims(SetControls(SetRow(SetRisk(
                c, risk), "SOP", Row("max1", {})), ControlFields \ {"reaction_plan"}), "absent"), {})
      BY <1>17 DEF Mutated
    <3>2. d.event = [c.event EXCEPT !.claims = "absent", !.approvals = {}]
      BY <1>1, <3>1 DEF SetApprovals, SetClaims, SetControls, SetRow, SetRows, SetRisk, Cases, CasesOf
    <3>3. d.docs = docs
      <4> DEFINE c1 == SetRisk(c, risk)
                 c2 == SetRow(c1, "SOP", Row("max1", {}))
                 c3 == SetControls(c2, ControlFields \ {"reaction_plan"})
      <4>1. /\ c1.docs = [c.docs EXCEPT !["PFMEA"] = pfmea]
            /\ c1 \in [event : {c.event}, docs : {c1.docs}, migrations : {c.migrations}]
        BY <1>1 DEF SetRisk, Cases, CasesOf
      <4> HIDE DEF c1, pfmea
      <4>2. c1.docs["SOP"] = c.docs["SOP"] /\ DOMAIN c1.docs = DocTypes
        BY <1>1, <4>1
      <4>3. /\ c2.docs = [c1.docs EXCEPT !["SOP"] = sop]
            /\ c2 \in [event : {c.event}, docs : {c2.docs}, migrations : {c.migrations}]
        BY <1>1, <4>1, <4>2 DEF SetRow, SetRows
      <4> HIDE DEF c2, sop
      <4>4. c2.docs["CONTROL_PLAN"] = c.docs["CONTROL_PLAN"] /\ DOMAIN c2.docs = DocTypes
        BY <1>1, <4>1, <4>2, <4>3
      <4>5. /\ c3.docs = [c2.docs EXCEPT !["CONTROL_PLAN"] = plan]
            /\ c3 \in [event : {c.event}, docs : {c3.docs}, migrations : {c.migrations}]
        BY <1>1, <4>3, <4>4 DEF SetControls, SetRow, SetRows
      <4>6. d = SetApprovals(SetClaims(c3, "absent"), {})
        BY <3>1 DEF c1, c2
      <4> HIDE DEF c3, plan
      <4>7. d.docs = c3.docs
        BY <4>5, <4>6 DEF SetApprovals, SetClaims
      <4> QED BY <4>1, <4>3, <4>5, <4>7
    <3> QED BY <1>1, <3>2, <3>3 DEF Events, EventsOf
  <2>2. risk.special /\ \A pair \in DOMAIN rows : rows[pair].spec = "max0"
    BY DEF Risk, Only, Row
  <2>3. /\ pfmea.risks = {risk} /\ pfmea.waiver = None
        /\ sop.date <= 7 /\ sop.waiver = None
        /\ plan.rows = rows /\ plan.waiver = None
    BY <1>1, <1>2 DEF Documents
  <2> HIDE DEF risk, rows, pfmea, sop, plan
  <2>4. /\ docs["PFMEA"] = pfmea /\ docs["SOP"] = sop /\ docs["CONTROL_PLAN"] = plan
        /\ docs["PROCESS_FLOW"] = c.docs["PROCESS_FLOW"]
        /\ \A u \in DocTypes : docs[u] \in {pfmea, sop, plan, c.docs[u]}
    BY <1>1
  <2> HIDE DEF docs
  <2>5. \A u \in DocTypes : d.docs[u].waiver = None
    BY <1>2, <2>1, <2>3, <2>4
  <2> QED BY <1>2, <2>1, <2>2, <2>3, <2>4, <2>5 DEF Faulted, Scarred
<1>18. m \in {"M001", "M007", "M008", "M013", "M030"} \cup {"M003", "M014", "M015"}
         \cup {"M004", "M027", "M028"} \cup {"M005", "M021", "M022"}
         \cup {"M006", "M011", "M012"} \cup {"M009", "M010"} \cup {"M017", "M029"}
         \cup {"M019", "M020"}
  BY DEF CaseFaults, Benchmark
<1> QED BY <1>6, <1>7, <1>8, <1>9, <1>10, <1>11, <1>12, <1>13, <1>14, <1>15, <1>16, <1>17, <1>18

(***************************************************************************)
(* The initial states                                                      *)
(***************************************************************************)

\* The plan of the baseline is there.
LEMMA PlanIsNotNone == Plan # None
<1>1. Plan \in Plans
  BY DEF Plan, Plans, Evidence
<1> QED BY <1>1, NoneIsNothing

\* The event of the baseline.
LEMMA BaselineEvent ==
  /\ Baseline.event \in Events
  /\ Baseline.event.revision = 2 /\ Baseline.event.risk_level = "HIGH"
  /\ Baseline.event.steps = {"WELD", "INSPECT"} /\ Baseline.event.chars = {"SPATTER"}
  /\ Baseline.event.links = {Seam} /\ Baseline.event.approvals = Signatures(2)
  /\ Baseline.event.approved_at = 5 /\ Baseline.event.plan = Plan
  /\ Baseline.docs = BaselineDocs /\ Baseline.migrations = {}
<1>1. Signatures(2) \in SUBSET Approvals
  BY ValuesAreTyped
<1>2. {Seam} \in SUBSET (Steps \X Chars)
  BY DEF Seam, Steps, Chars
<1> QED BY <1>1, <1>2 DEF Baseline, Events, EventsOf, Plan, Steps, Chars

\* Two approvals of one revision are signed by two people.
LEMMA SignaturesDiffer ==
  \A a, b \in Signatures(2) : a.role = b.role => a = b
BY DEF Signatures, Signed

\* The fields of the documents of the baseline that the rules relate.
LEMMA BaselineRows ==
  /\ \A t \in DocTypes : /\ BaselineDocs[t].rows = <<>> \/ DOMAIN BaselineDocs[t].rows = {Seam}
                         /\ "WELD" \in BaselineDocs[t].steps
  /\ \A t \in DocTypes : t # "PFMEA" => BaselineDocs[t].risks = {}
  /\ BaselineDocs["PFMEA"].risks = {Risk("WELD", TRUE)}
  /\ \A t \in DocTypes : BaselineDocs[t].references = None \/ t = "INSPECTION_RECORD"
  /\ BaselineDocs["INSPECTION_RECORD"].references = [role \in Roles |-> CurrentIdentity]
  /\ DOMAIN BaselineDocs["CONTROL_PLAN"].rows = {Seam}
  /\ BaselineDocs["CONTROL_PLAN"].rows[Seam].spec = "max0"
  /\ BaselineDocs["SOP"].date = 7 /\ BaselineDocs["PROCESS_FLOW"].date = 6
<1>1. /\ BaselineDocs["PROCESS_FLOW"] = Document(Steps, 6, <<>>)
      /\ BaselineDocs["PFMEA"] = [Document(Steps, 6, <<>>) EXCEPT !.risks = {Risk("WELD", TRUE)}]
      /\ BaselineDocs["CONTROL_PLAN"] = Document(Steps, 7, Only(Seam, Row("max0", ControlFields)))
      /\ BaselineDocs["SOP"] = Document({"WELD"}, 7, Only(Seam, Row("max0", {})))
      /\ BaselineDocs["INSPECTION_RECORD"] =
           [Document({"WELD"}, 8, Only(Seam, Row("max0", {}))) EXCEPT
              !.references = [role \in Roles |-> CurrentIdentity]]
  BY DEF BaselineDocs
<1>2. "WELD" \in Steps
  BY DEF Steps
<1>3. \A t \in {"PROCESS_FLOW", "PFMEA", "CONTROL_PLAN", "SOP", "INSPECTION_RECORD"} :
        /\ BaselineDocs[t].rows = <<>> \/ DOMAIN BaselineDocs[t].rows = {Seam}
        /\ "WELD" \in BaselineDocs[t].steps
  BY <1>1, <1>2 DEF Document, Only
<1>4. \A t \in {"PROCESS_FLOW", "CONTROL_PLAN", "SOP", "INSPECTION_RECORD"} :
        BaselineDocs[t].risks = {}
  BY <1>1 DEF Document
<1>5. \A t \in {"PROCESS_FLOW", "CONTROL_PLAN", "SOP", "PFMEA"} :
        BaselineDocs[t].references = None
  BY <1>1 DEF Document
<1>6. /\ BaselineDocs["PFMEA"].risks = {Risk("WELD", TRUE)}
      /\ BaselineDocs["INSPECTION_RECORD"].references = [role \in Roles |-> CurrentIdentity]
      /\ BaselineDocs["SOP"].date = 7 /\ BaselineDocs["PROCESS_FLOW"].date = 6
  BY <1>1 DEF Document
<1>7. /\ DOMAIN BaselineDocs["CONTROL_PLAN"].rows = {Seam}
      /\ BaselineDocs["CONTROL_PLAN"].rows[Seam].spec = "max0"
  BY <1>1 DEF Document, Only, Row
<1> QED BY <1>3, <1>4, <1>5, <1>6, <1>7 DEF DocTypes, Roles

\* A document with rows, risks and references of the baseline is valid.
LEMMA BaselineIsValid ==
  ASSUME NEW c, NEW t \in DocTypes, c.docs[t].rows = BaselineDocs[t].rows,
         c.docs[t].risks = BaselineDocs[t].risks, "WELD" \in c.docs[t].steps,
         ~c.docs[t].unbound,
         c.docs[t].references = None \/ "LEGACY_UNATTESTED" \notin DOMAIN c.docs[t].references
  PROVE  ValidDocument(c, t)
<1>1. \A pair \in DOMAIN c.docs[t].rows : pair = Seam
  BY BaselineRows
<1>2. \A risk \in c.docs[t].risks : risk = Risk("WELD", TRUE)
  <2>1. CASE t = "PFMEA"
    BY <2>1, BaselineRows
  <2>2. CASE t # "PFMEA"
    BY <2>2, BaselineRows
  <2> QED BY <2>1, <2>2
<1>3. Seam[1] = "WELD" /\ Risk("WELD", TRUE).pair[1] = "WELD"
  BY DEF Seam, Risk
<1> QED BY <1>1, <1>2, <1>3 DEF ValidDocument

\* The baseline is a valid case without a fault.
LEMMA BaselineIsCase == Baseline \in Cases /\ ValidCase(Baseline) /\ Faulted(Baseline)
<1>1. Baseline \in Cases
  <2>1. /\ BaselineDocs \in [DocTypes -> Documents]
    <3>1. DOMAIN BaselineDocs = DocTypes
      BY DEF BaselineDocs, DocTypes, Roles
    <3>2. BaselineDocs = [t \in DocTypes |-> BaselineDocs[t]]
      BY <3>1 DEF BaselineDocs
    <3> QED BY <3>2, BaselineDocuments
  <2>2. Baseline = [event |-> Baseline.event, docs |-> BaselineDocs, migrations |-> {}]
    BY DEF Baseline
  <2> QED BY <2>1, <2>2, BaselineEvent DEF Cases, CasesOf
<1>2. ValidCase(Baseline)
  <2>1. ASSUME NEW t \in DocTypes
        PROVE  ValidDocument(Baseline, t)
    <3>1. /\ Baseline.docs[t] = BaselineDocs[t]
      BY BaselineEvent
    <3>2. BaselineDocs[t].references = None
            \/ "LEGACY_UNATTESTED" \notin DOMAIN BaselineDocs[t].references
      BY BaselineRows DEF Roles
    <3>3. "WELD" \in BaselineDocs[t].steps /\ ~BaselineDocs[t].unbound
      BY BaselineRows, BaselineDocuments
    <3> QED BY <3>1, <3>2, <3>3, BaselineIsValid
  <2>2. Baseline.event.links \subseteq Baseline.event.steps \X Baseline.event.chars
    BY BaselineEvent DEF Seam
  <2>3. Baseline.event.plan # None
    BY PlanIsNotNone, BaselineEvent
  <2> QED BY <2>1, <2>2, <2>3, BaselineEvent, SignaturesDiffer DEF ValidCase
<1>3. Faulted(Baseline)
  <2>1. \A risk \in {Risk("WELD", TRUE)} : risk.special
    BY DEF Risk
  <2>2. "PFMEA" \in DocTypes /\ "CONTROL_PLAN" \in DocTypes
    BY DEF DocTypes, Roles
  <2>3. \A pair \in DOMAIN BaselineDocs["CONTROL_PLAN"].rows :
          BaselineDocs["CONTROL_PLAN"].rows[pair].spec = "max0"
    BY BaselineRows
  <2>4. \A risk \in BaselineDocs["PFMEA"].risks : risk.special
    BY <2>1, BaselineRows
  <2>5. \A t \in DocTypes : BaselineDocs[t].waiver = None
    BY BaselineDocuments
  <2>6. BaselineDocs["SOP"].date <= 7 /\ BaselineDocs["PROCESS_FLOW"].date <= 6
    BY BaselineRows
  <2> QED BY <2>3, <2>4, <2>5, <2>6, BaselineEvent DEF Faulted
<1> QED BY <1>1, <1>2, <1>3

\* The two legacy cases, migrated: rows without a step, references nobody attests.
LEMMA LegacyIsCase ==
  ASSUME NEW steps \in {{"WELD"}, {"WELD", "INSPECT"}},
         NEW c, c = MigrateLegacyRelationships(Legacy(steps))
  PROVE  /\ c \in Cases /\ ValidCase(c)
         /\ c.event.revision = 2
         /\ \A t \in DocTypes : c.docs[t].source = 2
<1> DEFINE cites == [role \in Roles |-> [revision |-> 2]]
           attested == [role \in {"LEGACY_UNATTESTED"} |-> cites]
           Unbound(t) == [BaselineDocs[t] EXCEPT
                            !.rows = <<>>, !.risks = {}, !.unbound = t # "PROCESS_FLOW",
                            !.references = IF @ = None THEN None ELSE cites]
           Migrated(t) == IF t # "INSPECTION_RECORD" THEN Unbound(t)
                          ELSE [Unbound(t) EXCEPT !.references = attested]
           old == Legacy(steps)
<1>1. /\ \A t \in DocTypes : BaselineDocs[t] \in Documents
      /\ "INSPECTION_RECORD" \in DocTypes
  BY BaselineDocuments DEF DocTypes
<1>2. attested \in References
  <2>1. {"LEGACY_UNATTESTED"} \in SUBSET Holders
    BY DEF Holders
  <2>2. cites \in [Roles -> [revision : Nat]]
    OBVIOUS
  <2> HIDE DEF cites
  <2>3. attested \in [{"LEGACY_UNATTESTED"} -> Identities \cup [Roles -> [revision : Nat]]]
    BY <2>2
  <2> HIDE DEF attested
  <2> QED BY <2>1, <2>3 DEF References, ReferencesOf
<1>3. /\ old.docs = [t \in DocTypes |-> Unbound(t)]
      /\ old.event = [Baseline.event EXCEPT !.steps = steps, !.links = {}, !.plan = None]
      /\ DOMAIN old = {"event", "docs", "migrations"}
  <2>1. DOMAIN Baseline = {"event", "docs", "migrations"}
    BY DEF Baseline
  <2>2. DOMAIN old = {"event", "docs", "migrations"}
    BY <2>1 DEF Legacy
  <2>3. old.event = [Baseline.event EXCEPT !.steps = steps, !.links = {}, !.plan = None]
    BY <2>1 DEF Legacy
  <2>4. old.docs = [t \in DocTypes |-> Unbound(t)]
    <3>1. Baseline.docs = BaselineDocs
      BY DEF Baseline
    <3>2. old.docs = [t \in DocTypes |->
                       [Baseline.docs[t] EXCEPT
                          !.rows = <<>>, !.risks = {}, !.unbound = t # "PROCESS_FLOW",
                          !.references = IF @ = None THEN None
                                         ELSE [role \in Roles |-> [revision |-> 2]]]]
      BY <2>1 DEF Legacy
    <3> QED BY <3>1, <3>2
  <2> QED BY <2>2, <2>3, <2>4
<1>4. ASSUME NEW t \in DocTypes
      PROVE  /\ Unbound(t) \in [revision : {2}, source : {2}, date : Nat, steps : SUBSET Steps,
                                rows : {<<>>}, risks : {{}}, waiver : {None},
                                references : {None, cites}, unbound : BOOLEAN]
             /\ t # "INSPECTION_RECORD" => Unbound(t).references = None
  <2>1. /\ BaselineDocs[t] \in Documents
        /\ BaselineDocs[t].revision = 2 /\ BaselineDocs[t].source = 2 /\ BaselineDocs[t].waiver = None
    BY BaselineDocuments
  <2>2. BaselineDocs[t].references = None \/ t = "INSPECTION_RECORD"
    BY BaselineRows
  <2> HIDE DEF cites
  <2>3. (t # "PROCESS_FLOW") \in BOOLEAN
    OBVIOUS
  <2> QED BY <2>1, <2>2, <2>3 DEF Documents
<1> HIDE DEF old, cites, Unbound
<1> DEFINE links == IF /\ Cardinality(old.event.steps) = 1
                       /\ Cardinality(old.event.chars) = 1
                    THEN old.event.steps \X old.event.chars ELSE {}
           held == old.docs["INSPECTION_RECORD"].references
           references == IF held = None THEN None ELSE [role \in {"LEGACY_UNATTESTED"} |-> held]
<1>5. c = [old EXCEPT !.event.links = links, !.docs["INSPECTION_RECORD"].references = references,
                      !.migrations = {"relationship", "reference", "validation"}]
  BY DEF MigrateLegacyRelationships, old
<1> HIDE DEF links, references
<1>6. /\ c.docs = [old.docs EXCEPT !["INSPECTION_RECORD"].references = references]
      /\ c.migrations = {"relationship", "reference", "validation"}
      /\ c.event = [old.event EXCEPT !.links = links]
      /\ DOMAIN c = {"event", "docs", "migrations"}
  BY <1>3, <1>5
<1>7. c = [event |-> c.event, docs |-> c.docs, migrations |-> c.migrations]
  BY <1>5, <1>3
<1>8. /\ c.event = [[Baseline.event EXCEPT !.steps = steps, !.links = {}, !.plan = None]
                     EXCEPT !.links = links]
      /\ c.event.revision = 2 /\ c.event.risk_level = "HIGH" /\ c.event.steps = steps
      /\ c.event.chars = {"SPATTER"} /\ c.event.links = links
      /\ c.event.approvals = Signatures(2) /\ c.event.plan = None
  BY <1>3, <1>6, BaselineEvent DEF Events, EventsOf
<1>9. links \in {{}, steps \X {"SPATTER"}}
  <2>1. old.event.steps = steps /\ old.event.chars = {"SPATTER"}
    BY <1>3 DEF Baseline
  <2> QED BY <2>1 DEF links
<1>10. references \in {None, attested}
  <2>1. "INSPECTION_RECORD" \in DocTypes
    BY DEF DocTypes
  <2>2. held \in {None, cites}
    BY <1>3, <1>4, <2>1
  <2> HIDE DEF held
  <2> QED BY <2>2 DEF references
<1> HIDE DEF attested
<1>11. ASSUME NEW t \in DocTypes
       PROVE  /\ c.docs[t] \in Documents /\ c.docs[t].source = 2
              /\ c.docs[t].rows = <<>> /\ c.docs[t].risks = {}
              /\ c.docs[t].references \in {None, attested}
  <2>1. CASE t # "INSPECTION_RECORD"
    <3>1. c.docs[t] = Unbound(t)
      BY <1>3, <1>6, <2>1
    <3>2. Unbound(t).references = None
      BY <1>4, <2>1
    <3> QED BY <1>4, <3>1, <3>2 DEF Documents, RowTables
  <2>2. CASE t = "INSPECTION_RECORD"
    <3>1. c.docs[t] = [Unbound(t) EXCEPT !.references = references]
      BY <1>3, <1>6, <2>2
    <3>2. references \in References \cup {None}
      BY <1>2, <1>10
    <3> QED BY <1>4, <1>10, <3>1, <3>2 DEF Documents, RowTables
  <2> QED BY <2>1, <2>2
<1>12. DOMAIN c.docs = DocTypes /\ c.docs = [t \in DocTypes |-> c.docs[t]]
  BY <1>3, <1>6
<1>13. c \in Cases
  <2>1. c.docs \in [DocTypes -> Documents]
    BY <1>11, <1>12
  <2>2. c.event \in Events
    <3>1. links \in SUBSET (Steps \X Chars) /\ steps \in SUBSET Steps /\ {"SPATTER"} \in SUBSET Chars
      BY <1>9 DEF Steps, Chars
    <3>2. Signatures(2) \in SUBSET Approvals
      BY ValuesAreTyped
    <3> QED BY <1>8, <3>1, BaselineEvent DEF Events, EventsOf
  <2> QED BY <1>6, <1>7, <2>1, <2>2 DEF Cases, CasesOf
<1>14. ASSUME NEW t \in DocTypes
       PROVE  ValidDocument(c, t)
  <2>1. DOMAIN c.docs[t].rows = {}
    BY <1>11
  <2>2. c.docs[t].references = attested => DOMAIN c.docs[t].references = {"LEGACY_UNATTESTED"}
    BY DEF attested
  <2> QED BY <1>6, <1>11, <2>1, <2>2 DEF ValidDocument
<1>15. ValidCase(c)
  <2>1. c.event.links \subseteq c.event.steps \X c.event.chars
    BY <1>8, <1>9
  <2> QED BY <1>6, <1>8, <1>14, <2>1, SignaturesDiffer DEF ValidCase
<1> QED BY <1>8, <1>11, <1>13, <1>15

\* The three initial cases satisfy the invariant.
LEMMA InitInv == Init => IInv
<1> SUFFICES ASSUME Init PROVE IInv
  OBVIOUS
<1>1. /\ case \in Cases /\ ValidCase(case) /\ case.event.revision = 2
      /\ \A t \in DocTypes : case.docs[t].source = 2
  <2>1. CASE case = Baseline
    <3>1. \A t \in DocTypes : BaselineDocs[t].source = 2
      BY BaselineDocuments
    <3> QED BY <2>1, <3>1, BaselineIsCase, BaselineEvent
  <2>2. CASE \E steps \in {{"WELD"}, {"WELD", "INSPECT"}} :
               case = MigrateLegacyRelationships(Legacy(steps))
    BY <2>2, LegacyIsCase
  <2> QED BY <2>1, <2>2 DEF Init
<1>2. /\ reports = None /\ made = None /\ applied = {} /\ resolved = 0
      /\ context = PackContext /\ cited = [role \in Roles |-> CurrentIdentity]
      /\ origin = case
  BY DEF Init
<1>3. /\ context.claims = cited /\ DOMAIN context.claims = Roles /\ context \in Contexts
      /\ \A role \in Roles : /\ cited[role].revision = 2
                             /\ context.targets[role] = CurrentIdentity
                             /\ context.claims[role] = CurrentIdentity
  BY <1>2 DEF PackContext, CurrentIdentity, Contexts, Identities
<1>4. TypeOK
  <2>1. DOMAIN case.docs = DocTypes
    BY <1>1 DEF Cases, CasesOf
  <2>2. 2 \in 2..MaxRevision
    BY RuleAssumption
  <2>3. Work <= MaxWork
    <3>1. ~Unfit
      BY <1>2 DEF Unfit
    <3>2. Changes = 0
      BY <1>2, FS_EmptySet DEF Changes
    <3> QED BY <3>1, <3>2, RuleAssumption DEF Work
  <2> QED BY <1>1, <1>2, <1>3, <2>1, <2>2, <2>3, NoneIsNothing DEF TypeOK
<1>5. ReportInv
  BY <1>2 DEF ReportInv
<1>6. ContextInv
  <2>1. CurrentIdentity.source = 2
    BY DEF CurrentIdentity
  <2>2. \A role \in Roles : role \in DocTypes
    BY DEF DocTypes
  <2> QED BY <1>1, <1>2, <1>3, <2>1, <2>2 DEF ContextInv
<1>7. FaultInv
  BY <1>2, BaselineIsCase DEF FaultInv
<1> QED BY <1>1, <1>2, <1>4, <1>5, <1>6, <1>7, FS_EmptySet DEF IInv

(***************************************************************************)
(* The steps                                                               *)
(***************************************************************************)

\* What the bound counts.
LEMMA WorkCounts ==
  ASSUME IInv
  PROVE  Cardinality(applied) \in Nat /\ Changes \in Nat /\ Work \in {Changes, Changes + 2}
<1>1. Cardinality(applied) \in Nat /\ resolved \in Nat
  BY FS_CardinalityType DEF IInv, ContextInv
<1>2. Changes \in Nat
  BY <1>1 DEF Changes
<1> QED BY <1>1, <1>2 DEF Work

\* The faults are edits of the benchmark, not the others.
LEMMA FaultsAreMutations ==
  ASSUME NEW e \in CaseFaults, NEW c, NEW d, Mutated(e, c, d) \/ Revised(e, c, d)
  PROVE  Mutated(e, c, d)
BY DEF CaseFaults, Benchmark, Revised

\* apply_mutation and prepare_case.
LEMMA EditInv ==
  ASSUME IInv, NEW e \in Benchmark \cup Others, Edit(e)
  PROVE  IInv'
<1>1. /\ Work + 2 <= MaxWork /\ e \notin applied
      /\ Applies(e, case) /\ (Mutated(e, case, case') \/ Revised(e, case, case'))
      /\ Edited(e, case, case') /\ ValidCase(case')
      /\ applied' = applied \cup {e} /\ resolved' = resolved
      /\ origin' = origin /\ reports' = reports /\ made' = made
      /\ context' = context /\ cited' = cited
  BY DEF Edit, Edited
<1>2. /\ case' \in Cases
      /\ \A t \in DocTypes : case'.docs[t].source = case.docs[t].source
      /\ \/ case'.event.revision = case.event.revision
         \/ /\ case'.event.revision = case.event.revision + 1
            /\ case.event.revision < MaxRevision
  BY <1>1, EditKeeps DEF IInv, SourcesKept
<1>3. /\ IsFiniteSet(applied')
      /\ Cardinality(applied') = Cardinality(applied) + 1
  BY <1>1, FS_AddElement DEF IInv
<1>4. case'.event.revision \in 2..MaxRevision
  <2>1. case \in Cases /\ case.event \in Events /\ case.event.revision \in 2..MaxRevision
    BY DEF IInv, TypeOK, Cases, CasesOf
  <2> QED BY <1>2, <2>1, RuleAssumption
<1>5. Work' <= MaxWork
  <2>1. Unfit' <=> Unfit
    BY <1>1 DEF Unfit
  <2>2. Changes' = Changes + 2 /\ Changes \in Nat
    BY <1>1, <1>3, WorkCounts DEF Changes, IInv, ContextInv
  <2>3. Work' = Work + 2
    BY <2>1, <2>2 DEF Work
  <2> QED BY <1>1, <2>3
<1>6. TypeOK'
  BY <1>1, <1>2, <1>4, <1>5 DEF IInv, TypeOK, Cases, CasesOf
<1>7. ReportInv'
  BY <1>1 DEF IInv, ReportInv
<1>8. ContextInv'
  BY <1>1, <1>2 DEF IInv, ContextInv, DocTypes
<1>9. FaultInv'
  <2> SUFFICES ASSUME origin = Baseline, resolved = 0, applied' \subseteq CaseFaults
               PROVE  Faulted(case') /\ Scarred(case')
    BY <1>1 DEF FaultInv
  <2>1. Faulted(case) /\ e \in CaseFaults
    BY <1>1 DEF IInv, FaultInv
  <2>2. Mutated(e, case, case')
    BY <1>1, <2>1, FaultsAreMutations
  <2> QED BY <1>1, <2>1, <2>2, FaultScars DEF IInv
<1> QED BY <1>2, <1>3, <1>6, <1>7, <1>8, <1>9 DEF IInv

\* A laboratory reports on the case as it is.
LEMMA IssueInv ==
  ASSUME IInv, NEW result \in {"PASS", "FAIL"}, NEW day \in {5, 50}, Issue(result, day)
  PROVE  IInv'
<1>1. /\ case.event.plan # None
      /\ [result |-> result, day |-> day] = Good \/ Changes + 2 <= MaxWork
      /\ reports' = Reported(case, result, day) /\ made' = case
      /\ case' = case /\ origin' = origin /\ context' = context /\ cited' = cited
      /\ applied' = applied /\ resolved' = resolved
  BY DEF Issue
<1>2. case.event.plan = Plan /\ DOMAIN reports' = {"VAL1"}
  BY <1>1 DEF IInv, Cases, CasesOf, Events, EventsOf, Plan, Reported
<1>3. Work' <= MaxWork
  <2>1. Changes' = Changes /\ Changes \in Nat /\ Changes <= MaxWork
    BY <1>1, WorkCounts, RuleAssumption DEF Changes, IInv, TypeOK
  <2>2. CASE [result |-> result, day |-> day] = Good
    <3>1. \A id \in DOMAIN reports' :
            reports'[id].result = result /\ reports'[id].issued = day
      BY <1>1 DEF Reported
    <3>2. ~Unfit'
      BY <2>2, <3>1 DEF Unfit
    <3> QED BY <2>1, <3>2 DEF Work
  <2>3. CASE Changes + 2 <= MaxWork
    BY <2>1, <2>3 DEF Work
  <2> QED BY <1>1, <2>2, <2>3
<1>4. TypeOK'
  BY <1>1, <1>2, <1>3 DEF IInv, TypeOK
<1>5. ReportInv'
  BY <1>1, <1>2 DEF IInv, ReportInv
<1>6. ContextInv' /\ FaultInv'
  BY <1>1 DEF IInv, ContextInv, FaultInv, Faulted, Scarred, RiskPairs, Specified
<1> QED BY <1>1, <1>4, <1>5, <1>6 DEF IInv

\* What an accepted bundle makes of a sealed context.
LEMMA ReplacedContext ==
  ASSUME NEW old \in Contexts, NEW types \in SUBSET Replaceable, NEW raw \in [types -> Identities],
         NEW cites, NEW after, after = Replaced(old, raw, cites), after # None
  PROVE  /\ after \in Contexts
         /\ \A role \in Roles : after.targets[role] =
              IF role \in types THEN raw[role] ELSE old.targets[role]
         /\ types \cap Controlled # {} =>
              \A role \in Roles \ types : old.claims[role] = old.targets[role]
         /\ "INSPECTION_RECORD" \notin types =>
              after.claims = old.claims /\ after.inspection = old.inspection
         /\ "INSPECTION_RECORD" \in types =>
              /\ after.inspection = raw["INSPECTION_RECORD"]
              /\ after.claims = after.targets
              /\ \A role \in Roles : cites[role] = after.targets[role].revision
<1> DEFINE registry == Registry(old, raw)
           targets == [role \in Roles |-> IF role \in DOMAIN raw THEN raw[role]
                                          ELSE old.targets[role]]
<1>1. DOMAIN raw = types /\ \A t \in types : raw[t] \in Identities
  OBVIOUS
<1>2. /\ old.inspection \in Identities /\ old.claims \in [Roles -> Identities]
      /\ old.targets \in [Roles -> Identities]
  BY DEF Contexts
<1>3. targets \in [Roles -> Identities] /\ registry \in [Roles -> Identities]
  BY <1>1, <1>2 DEF Registry
<1>4. \A role \in Roles :
        /\ targets[role] = IF role \in types THEN raw[role] ELSE old.targets[role]
        /\ registry[role] = IF role \in types THEN raw[role] ELSE old.claims[role]
  BY <1>1 DEF Registry
<1>5. after = IF types \cap Controlled = {} THEN old
              ELSE IF "INSPECTION_RECORD" \notin types
              THEN Sealed(old.inspection, old.claims, registry, targets)
              ELSE IF Cites(cites, registry)
              THEN Sealed(raw["INSPECTION_RECORD"], registry, registry, targets)
              ELSE None
  BY <1>1 DEF Replaced
<1> HIDE DEF registry, targets
<1>6. CASE types \cap Controlled = {}
  <2>1. after = old
    BY <1>5, <1>6
  <2>2. \A role \in Roles : role \notin types
    BY <1>6 DEF Controlled
  <2>3. "INSPECTION_RECORD" \notin types
    BY <1>6 DEF Controlled
  <2> QED BY <1>6, <2>1, <2>2, <2>3
<1>7. CASE types \cap Controlled # {} /\ "INSPECTION_RECORD" \notin types
  <2>1. registry = targets
    BY <1>5, <1>7 DEF Sealed
  <2>2. after = [inspection |-> old.inspection, claims |-> old.claims, targets |-> targets]
    BY <1>5, <1>7, <2>1 DEF Sealed
  <2>3. \A role \in Roles \ types : old.claims[role] = old.targets[role]
    BY <1>4, <2>1
  <2> QED BY <1>2, <1>3, <1>4, <1>7, <2>2, <2>3 DEF Contexts
<1>8. CASE types \cap Controlled # {} /\ "INSPECTION_RECORD" \in types
  <2>1. registry = targets /\ Cites(cites, registry)
    BY <1>5, <1>8 DEF Sealed
  <2>2. after = [inspection |-> raw["INSPECTION_RECORD"], claims |-> targets,
                 targets |-> targets]
    BY <1>5, <1>8, <2>1 DEF Sealed
  <2>3. \A role \in Roles \ types : old.claims[role] = old.targets[role]
    BY <1>4, <2>1
  <2>4. \A role \in Roles : cites[role] = targets[role].revision
    BY <2>1 DEF Cites
  <2>5. after \in Contexts
    BY <1>1, <1>3, <1>8, <2>2 DEF Contexts
  <2> QED BY <1>4, <1>8, <2>2, <2>3, <2>4, <2>5
<1> QED BY <1>6, <1>7, <1>8

\* What a resolution makes of the documents.
LEMMA RebuiltCase ==
  ASSUME NEW c \in Cases, NEW types \in SUBSET Replaceable, NEW raw \in [types -> Identities],
         NEW after, after.claims \in [Roles -> Identities], NEW t \in DocTypes,
         NEW d, d = Rebuilt(c, raw, after)
  PROVE  /\ d \in Cases /\ d.event = c.event /\ d.migrations = c.migrations
         /\ t \notin types => d.docs[t] = c.docs[t]
         /\ t \in types =>
              /\ d.docs[t].revision = raw[t].revision /\ d.docs[t].source = raw[t].source
              /\ d.docs[t].steps = BaselineDocs[t].steps /\ d.docs[t].rows = BaselineDocs[t].rows
              /\ d.docs[t].risks = BaselineDocs[t].risks /\ ~d.docs[t].unbound
              /\ d.docs[t].references = IF t = "INSPECTION_RECORD" THEN after.claims
                                        ELSE c.docs[t].references
<1> DEFINE Doc(u) == [c.docs[u] EXCEPT
                        !.revision = raw[u].revision, !.source = raw[u].source, !.date = 9,
                        !.steps = BaselineDocs[u].steps, !.rows = BaselineDocs[u].rows,
                        !.risks = BaselineDocs[u].risks, !.unbound = FALSE,
                        !.references = IF u = "INSPECTION_RECORD" THEN after.claims ELSE @]
<1>1. types \subseteq DocTypes /\ DOMAIN raw = types
  BY DEF Replaceable, Controlled, DocTypes
<1>2. d = [c EXCEPT !.docs = [u \in DocTypes |-> IF u \notin types THEN c.docs[u] ELSE Doc(u)]]
  BY <1>1 DEF Rebuilt
<1>3. ASSUME NEW u \in types
      PROVE  /\ Doc(u) \in Documents
             /\ Doc(u).revision = raw[u].revision /\ Doc(u).source = raw[u].source
             /\ Doc(u).steps = BaselineDocs[u].steps /\ Doc(u).rows = BaselineDocs[u].rows
             /\ Doc(u).risks = BaselineDocs[u].risks /\ ~Doc(u).unbound
             /\ Doc(u).references = IF u = "INSPECTION_RECORD" THEN after.claims
                                    ELSE c.docs[u].references
  <2>1. c.docs[u] \in Documents /\ BaselineDocs[u] \in Documents
    BY <1>1, BaselineDocuments DEF Cases, CasesOf
  <2>2. raw[u].revision \in Nat /\ raw[u].source \in Nat
    BY DEF Identities
  <2> DEFINE references == IF u = "INSPECTION_RECORD" THEN after.claims ELSE c.docs[u].references
  <2>3. references \in References \cup {None}
    BY <2>1, ClaimsAreReferences DEF Documents
  <2>4. Doc(u) = [c.docs[u] EXCEPT
                    !.revision = raw[u].revision, !.source = raw[u].source, !.date = 9,
                    !.steps = BaselineDocs[u].steps, !.rows = BaselineDocs[u].rows,
                    !.risks = BaselineDocs[u].risks, !.unbound = FALSE,
                    !.references = references]
    BY <2>1 DEF Documents
  <2> HIDE DEF references
  <2>5. /\ Doc(u) \in Documents
        /\ Doc(u).revision = raw[u].revision /\ Doc(u).source = raw[u].source
        /\ Doc(u).steps = BaselineDocs[u].steps /\ Doc(u).rows = BaselineDocs[u].rows
        /\ Doc(u).risks = BaselineDocs[u].risks /\ ~Doc(u).unbound
        /\ Doc(u).references = references
    <3> DEFINE rows == BaselineDocs[u].rows
               risks == BaselineDocs[u].risks
               steps == BaselineDocs[u].steps
               number == raw[u].revision
               source == raw[u].source
    <3>1. /\ rows \in RowTables /\ risks \in SUBSET Risks /\ steps \in SUBSET Steps
          /\ number \in Nat /\ source \in Nat
      BY <2>1, <2>2 DEF Documents
    <3>2. Doc(u) = [c.docs[u] EXCEPT
                      !.revision = number, !.source = source, !.date = 9, !.steps = steps,
                      !.rows = rows, !.risks = risks, !.unbound = FALSE,
                      !.references = references]
      BY <2>4
    <3> HIDE DEF Doc, rows, risks, steps, number, source
    <3>3. Doc(u) \in Documents
      <4> DEFINE half == [c.docs[u] EXCEPT !.revision = number, !.source = source, !.date = 9,
                                           !.steps = steps]
      <4>1. half \in Documents
        BY <2>1, <3>1 DEF Documents
      <4>2. Doc(u) = [half EXCEPT !.rows = rows, !.risks = risks, !.unbound = FALSE,
                                  !.references = references]
        BY <3>2
      <4> HIDE DEF half
      <4> QED BY <2>3, <3>1, <4>1, <4>2 DEF Documents
    <3>4. /\ Doc(u).revision = number /\ Doc(u).source = source /\ Doc(u).steps = steps
          /\ Doc(u).rows = rows /\ Doc(u).risks = risks /\ ~Doc(u).unbound
          /\ Doc(u).references = references
      BY <2>1, <3>2 DEF Documents
    <3> QED BY <3>3, <3>4 DEF rows, risks, steps, number, source
  <2> QED BY <2>5 DEF references
<1> HIDE DEF Doc
<1>4. /\ d \in Cases /\ d.event = c.event /\ d.migrations = c.migrations
      /\ \A u \in DocTypes : d.docs[u] = IF u \notin types THEN c.docs[u] ELSE Doc(u)
  BY <1>2, <1>3 DEF Cases, CasesOf
<1> QED BY <1>1, <1>3, <1>4

\* New artifacts have sources nobody had.
LEMMA NewArtifacts ==
  ASSUME NEW types \in SUBSET Replaceable, NEW revision \in Nat, resolved \in Nat
  PROVE  /\ Artifacts(types, revision) \in [types -> Identities]
         /\ \A t \in types : /\ Artifacts(types, revision)[t].source = 3 + resolved
                             /\ Artifacts(types, revision)[t].revision = revision
BY DEF Artifacts, Identities

\* resolve_case_from_artifact_context.
LEMMA ResolveInv ==
  ASSUME IInv, Resolve
  PROVE  IInv'
<1>1. PICK types \in (SUBSET Replaceable) \ {{}}, revision \in Revisions,
           cites \in [Roles -> 1..2 \cup Revisions] :
        LET raw == Artifacts(types, revision) IN
        /\ Accepted(raw, cites)
        /\ context' = Replaced(context, raw, cites)
        /\ case' = Rebuilt(case, raw, context')
        /\ cited' = IF "INSPECTION_RECORD" \notin types THEN cited
                    ELSE [role \in Roles |-> [revision |-> cites[role],
                                              source |-> context'.targets[role].source]]
  BY DEF Resolve
<1> DEFINE raw == Artifacts(types, revision)
<1>2. /\ Work + 3 <= MaxWork /\ resolved' = resolved + 1
      /\ origin' = origin /\ reports' = reports /\ made' = made /\ applied' = applied
  BY DEF Resolve
<1>3. /\ raw \in [types -> Identities]
      /\ \A t \in types : raw[t].source = 3 + resolved /\ raw[t].revision = revision
  BY NewArtifacts, RuleAssumption DEF IInv, ContextInv
<1>4. /\ context' = Replaced(context, raw, cites) /\ context' # None
      /\ case' = Rebuilt(case, raw, context') /\ ValidCase(case')
      /\ cited' = IF "INSPECTION_RECORD" \notin types THEN cited
                  ELSE [role \in Roles |-> [revision |-> cites[role],
                                            source |-> context'.targets[role].source]]
  BY <1>1 DEF Accepted
<1> HIDE DEF raw
<1>0. types \in SUBSET Replaceable /\ context \in Contexts /\ case \in Cases
  BY DEF IInv, ContextInv
<1>5. /\ context' \in Contexts
      /\ \A role \in Roles : context'.targets[role] =
           IF role \in types THEN raw[role] ELSE context.targets[role]
      /\ "INSPECTION_RECORD" \notin types => context'.claims = context.claims
      /\ "INSPECTION_RECORD" \in types =>
           /\ context'.claims = context'.targets
           /\ \A role \in Roles : cites[role] = context'.targets[role].revision
  BY <1>0, <1>3, <1>4, ReplacedContext
<1>6. context'.claims \in [Roles -> Identities] /\ context'.targets \in [Roles -> Identities]
  BY <1>5 DEF Contexts
<1>7. /\ case' \in Cases /\ case'.event = case.event
      /\ \A t \in DocTypes : t \notin types => case'.docs[t] = case.docs[t]
      /\ \A t \in types : case'.docs[t].source = raw[t].source
  <2>1. context'.claims \in [Roles -> Identities]
    BY <1>6
  <2>2. raw \in [types -> Identities] /\ case' = Rebuilt(case, raw, context')
    BY <1>3, <1>4
  <2>3. /\ types \in SUBSET Replaceable /\ case \in Cases
    BY <1>0
  <2>5. /\ case' \in Cases /\ case'.event = case.event
    BY <2>1, <2>2, <2>3, ValuesAreTyped, RebuiltCase
  <2>6. ASSUME NEW t \in DocTypes
        PROVE  /\ t \notin types => case'.docs[t] = case.docs[t]
               /\ t \in types => case'.docs[t].source = raw[t].source
    BY <2>1, <2>2, <2>3, RebuiltCase
  <2>7. types \subseteq DocTypes
    BY <2>3 DEF Replaceable, Controlled, DocTypes
  <2> QED BY <2>5, <2>6, <2>7
<1>8. context'.claims = cited'
  <2>1. CASE "INSPECTION_RECORD" \notin types
    BY <1>4, <1>5, <2>1 DEF IInv, ContextInv
  <2>2. CASE "INSPECTION_RECORD" \in types
    <3>1. \A i \in Identities : i = [revision |-> i.revision, source |-> i.source]
      BY DEF Identities
    <3>2. \A role \in Roles : context'.targets[role] =
            [revision |-> cites[role], source |-> context'.targets[role].source]
      BY <1>5, <1>6, <2>2, <3>1
    <3> QED BY <1>4, <1>5, <1>6, <2>2, <3>2
  <2> QED BY <2>1, <2>2
<1>9. Work' <= MaxWork
  <2>1. Unfit' <=> Unfit
    BY <1>2 DEF Unfit
  <2>2. Changes' = Changes + 3 /\ Changes \in Nat
    BY <1>2, WorkCounts DEF Changes, IInv, ContextInv
  <2>3. Work' = Work + 3
    BY <2>1, <2>2 DEF Work
  <2> QED BY <1>2, <2>3
<1>10. TypeOK'
  <2>1. \A role \in Roles : cited'[role].revision \in 1..2 \cup Revisions
    BY <1>4 DEF IInv, TypeOK
  <2>2. context' # None /\ DOMAIN context'.claims = Roles
    BY <1>4, <1>6
  <2>3. DOMAIN case'.docs = DocTypes
    BY <1>7 DEF Cases, CasesOf
  <2> QED BY <1>2, <1>4, <1>7, <1>9, <2>1, <2>2, <2>3 DEF IInv, TypeOK
<1>11. ReportInv'
  BY <1>2 DEF IInv, ReportInv
<1>12. ContextInv'
  <2>1. ASSUME NEW role \in Roles
        PROVE  /\ context'.targets[role].source < 3 + resolved'
               /\ context'.claims[role].source < 3 + resolved'
               /\ case'.docs[role].source = context'.targets[role].source
               /\ context'.claims[role].source = context'.targets[role].source =>
                    context'.claims[role] = context'.targets[role]
    <3>1. /\ role \in DocTypes /\ resolved \in Nat
          /\ context.targets[role].source < 3 + resolved
          /\ context.claims[role].source < 3 + resolved
          /\ case.docs[role].source = context.targets[role].source
          /\ context.claims[role].source = context.targets[role].source =>
               context.claims[role] = context.targets[role]
          /\ context.targets[role].source \in Nat /\ context.claims[role].source \in Nat
      BY DEF IInv, ContextInv, DocTypes, Contexts, Identities
    <3>2. CASE role \in types
      BY <1>2, <1>3, <1>5, <1>7, <3>1, <3>2
    <3>3. CASE role \notin types
      BY <1>2, <1>5, <1>7, <3>1, <3>3
    <3> QED BY <3>2, <3>3
  <2> QED BY <1>2, <1>5, <1>8, <2>1 DEF IInv, ContextInv
<1>13. FaultInv'
  BY <1>2 DEF IInv, ContextInv, FaultInv
<1> QED BY <1>2, <1>7, <1>10, <1>11, <1>12, <1>13 DEF IInv

(***************************************************************************)
(* The theorems                                                            *)
(***************************************************************************)

\* However a case is edited, reported on and resolved, the report in force is one made
\* for the case in made, claims are what the raw record cited, and a replaced source
\* never comes back.
THEOREM Invariance == Spec => []IInv
<1>1. IInv /\ [Next]_vars => IInv'
  <2> SUFFICES ASSUME IInv, [Next]_vars PROVE IInv'
    OBVIOUS
  <2>1. CASE Resolve
    BY <2>1, ResolveInv
  <2>2. ASSUME NEW e \in Benchmark \cup Others, Edit(e) PROVE IInv'
    BY <2>2, EditInv
  <2>3. ASSUME NEW result \in {"PASS", "FAIL"}, NEW day \in {5, 50}, Issue(result, day)
        PROVE  IInv'
    BY <2>3, IssueInv
  <2>4. CASE UNCHANGED vars
    BY <2>4 DEF vars, IInv, TypeOK, Work, Changes, Unfit, ReportInv, ContextInv, FaultInv
  <2> QED BY <2>1, <2>2, <2>3, <2>4 DEF Next
<1> QED BY <1>1, InitInv, PTL DEF Spec

\* Every case that apply_mutation or a resolution leaves behind is one validate_case
\* accepts, within the bounds.
THEOREM TypeCorrect == Spec => []TypeOK
<1>1. IInv => TypeOK
  BY DEF IInv
<1> QED BY <1>1, Invariance, PTL

(***************************************************************************)
(* Reports                                                                 *)
(***************************************************************************)

\* The subject of a report is everything but what comes after the validation.
LEMMA SubjectIsTheRest ==
  ASSUME NEW c \in Cases, NEW d \in Cases
  PROVE  Subject(c) = Subject(d) <=> SameBut(c, d, {"approvals", "claims"})
<1> DEFINE bare(x) == [x.event EXCEPT !.approvals = {}, !.claims = {}]
           fields == {"revision", "approved_at", "risk_level", "steps", "chars", "links", "plan"}
<1>1. ASSUME NEW x \in Cases
      PROVE  /\ DOMAIN x = {"event", "docs", "migrations"}
             /\ x.event \in Events
             /\ DOMAIN x.event = fields \cup {"approvals", "claims"}
             /\ Subject(x) = [x EXCEPT !.event = bare(x)]
  BY DEF Cases, CasesOf, Events, EventsOf, Subject
<1>2. Subject(c) = Subject(d) <=> /\ bare(c) = bare(d)
                                  /\ c.docs = d.docs /\ c.migrations = d.migrations
  <2>1. ASSUME NEW x \in Cases
        PROVE  /\ Subject(x).event = bare(x) /\ Subject(x).docs = x.docs
               /\ Subject(x).migrations = x.migrations
               /\ Subject(x) = [event |-> bare(x), docs |-> x.docs, migrations |-> x.migrations]
    <3> HIDE DEF bare
    <3> QED BY <1>1 DEF Cases, CasesOf
  <2> HIDE DEF bare
  <2> QED BY <2>1
<1>3. bare(c) = bare(d) <=> \A f \in fields : c.event[f] = d.event[f]
  <2>1. ASSUME NEW x \in Cases
        PROVE  /\ DOMAIN bare(x) = fields \cup {"approvals", "claims"}
               /\ bare(x)["approvals"] = {} /\ bare(x)["claims"] = {}
               /\ \A f \in fields : bare(x)[f] = x.event[f]
               /\ bare(x) = [f \in fields \cup {"approvals", "claims"} |-> bare(x)[f]]
    BY <1>1
  <2> HIDE DEF bare, fields
  <2>2. ASSUME bare(c) = bare(d), NEW f \in fields
        PROVE  c.event[f] = d.event[f]
    BY <2>1, <2>2
  <2>3. ASSUME \A f \in fields : c.event[f] = d.event[f]
        PROVE  bare(c) = bare(d)
    <3>1. \A f \in fields \cup {"approvals", "claims"} : bare(c)[f] = bare(d)[f]
      BY <2>1, <2>3
    <3> QED BY <2>1, <3>1
  <2> QED BY <2>2, <2>3
<1>4. DOMAIN c.event \ {"approvals", "claims"} = fields
  BY <1>1
<1> HIDE DEF bare, fields
<1> QED BY <1>2, <1>3, <1>4 DEF SameBut

\* So the scope and the revision of the report are those of the subject.
LEMMA ScopeFollows ==
  ASSUME NEW c \in Cases, NEW d \in Cases, SameBut(c, d, {"approvals", "claims"})
  PROVE  Scope(c) = Scope(d) /\ c.event.revision = d.event.revision /\ c.event.plan = d.event.plan
<1>1. c.event \in Events
  BY DEF Cases, CasesOf
<1>2. {"revision", "risk_level", "steps", "chars", "links", "plan"}
        \subseteq DOMAIN c.event \ {"approvals", "claims"}
  BY <1>1 DEF Events, EventsOf
<1>3. \A f \in {"revision", "risk_level", "steps", "chars", "links", "plan"} :
        c.event[f] = d.event[f]
  BY <1>2 DEF SameBut
<1> QED BY <1>3 DEF Scope

\* R006 passes exactly for good reports that were made for this very subject.
LEMMA EvidencePasses ==
  ASSUME IInv
  PROVE  ValidationEvidence(case, reports) = "PASS" <=>
           /\ reports # None
           /\ \A id \in DOMAIN reports : reports[id].result = "PASS" /\ reports[id].issued = 5
           /\ SameBut(made, case, {"approvals", "claims"})
<1>1. CASE reports = None
  BY <1>1 DEF ValidationEvidence
<1>2. CASE reports # None
  <2>1. PICK result \in {"PASS", "FAIL"}, day \in {5, 50} : reports = Reported(made, result, day)
    BY <1>2 DEF IInv, ReportInv
  <2>2. made \in Cases /\ case \in Cases /\ made.event.plan = Plan
    BY <1>2 DEF IInv, ReportInv
  <2>3. /\ DOMAIN reports = {"VAL1"}
        /\ reports["VAL1"].result = result /\ reports["VAL1"].revision = made.event.revision
        /\ reports["VAL1"].scope = Scope(made) /\ reports["VAL1"].subject = Subject(made)
        /\ reports["VAL1"].terms = "CHANGE_EFFECTIVE"
        /\ reports["VAL1"].performed = day /\ reports["VAL1"].issued = day
    BY <2>1, <2>2 DEF Reported, Plan, Evidence
  <2>4. /\ DOMAIN Plan = {"VAL1"}
        /\ Plan["VAL1"].terms = "CHANGE_EFFECTIVE"
        /\ Plan["VAL1"].from = 1 /\ Plan["VAL1"].until = 40
    BY DEF Plan, Evidence
  <2>5. ASSUME ValidationEvidence(case, reports) = "PASS"
        PROVE  result = "PASS" /\ day = 5 /\ SameBut(made, case, {"approvals", "claims"})
    <3>1. /\ case.event.plan # None /\ DOMAIN reports = DOMAIN case.event.plan
          /\ \A id \in DOMAIN reports : ReportMatches(case, reports[id], case.event.plan[id])
      BY <2>5 DEF ValidationEvidence
    <3>2. case.event.plan = Plan
      BY <2>2, <3>1 DEF Cases, CasesOf, Events, EventsOf
    <3>3. ReportMatches(case, reports["VAL1"], Plan["VAL1"])
      BY <2>3, <3>1, <3>2
    <3>4. result = "PASS" /\ day <= 40 /\ Subject(made) = Subject(case)
      BY <2>3, <2>4, <3>3 DEF ReportMatches
    <3> QED BY <2>2, <3>4, SubjectIsTheRest
  <2>6. ASSUME result = "PASS", day = 5, SameBut(made, case, {"approvals", "claims"})
        PROVE  ValidationEvidence(case, reports) = "PASS"
    <3>1. /\ Scope(made) = Scope(case) /\ Subject(made) = Subject(case)
          /\ made.event.revision = case.event.revision /\ case.event.plan = Plan
      BY <2>2, <2>6, ScopeFollows, SubjectIsTheRest
    <3>2. ReportMatches(case, reports["VAL1"], Plan["VAL1"])
      BY <2>3, <2>4, <2>6, <3>1 DEF ReportMatches
    <3> QED BY <1>2, <2>3, <2>4, <3>1, <3>2, PlanIsNotNone DEF ValidationEvidence
  <2> QED BY <1>2, <2>3, <2>5, <2>6
<1> QED BY <1>1, <1>2

\* R006 passes only for reports about the case as it is now, approvals aside: the
\* subject hash of validation_evidence.py leaves nothing else out.
THEOREM EditVoids == Spec => []EditVoidsReport
<1>1. IInv => EditVoidsReport
  BY EvidencePasses DEF EditVoidsReport, Findings
<1> QED BY <1>1, Invariance, PTL

(***************************************************************************)
(* References                                                              *)
(***************************************************************************)

\* R005 passes exactly if what the record of the case says, what the raw record
\* cited and the raw documents in force are the documents of the case.
LEMMA ReferencesPass ==
  ASSUME IInv
  PROVE  InspectionCurrentReferences(case, context) = "PASS" <=>
           /\ case.docs["INSPECTION_RECORD"].references =
                [role \in Roles |-> Identity(case.docs[role])]
           /\ Identity(case.docs["INSPECTION_RECORD"]) = context.inspection
           /\ \A role \in Roles : /\ cited[role] = Identity(case.docs[role])
                                  /\ context.targets[role] = Identity(case.docs[role])
<1> DEFINE references == case.docs["INSPECTION_RECORD"].references
           current == [role \in Roles |-> Identity(case.docs[role])]
<1>1. /\ context # None /\ context.claims = cited
      /\ context \in Contexts /\ case \in Cases
      /\ \A role \in Roles :
           /\ case.docs[role].source = context.targets[role].source
           /\ context.claims[role].source = context.targets[role].source =>
                context.claims[role] = context.targets[role]
  BY DEF IInv, TypeOK, ContextInv
<1>2. \A role \in Roles : Identity(case.docs[role]).source = case.docs[role].source
  BY DEF Identity
<1>3. current \in [Roles -> Identities]
  <2>1. \A role \in Roles : case.docs[role] \in Documents
    BY <1>1 DEF Cases, CasesOf, DocTypes
  <2> QED BY <2>1 DEF Identity, Identities, Documents
<1>4. references \in References \cup {None}
  BY <1>1 DEF Cases, CasesOf, DocTypes, Documents
<1>5. InspectionCurrentReferences(case, context) = "PASS" <=>
        /\ references # None /\ Roles \subseteq DOMAIN references
        /\ context.inspection = Identity(case.docs["INSPECTION_RECORD"])
        /\ DOMAIN references = Roles
        /\ \A role \in Roles : /\ references[role] = context.claims[role]
                               /\ references[role] = Identity(case.docs[role])
  BY <1>1 DEF InspectionCurrentReferences, InspectionReferences
<1>6. ASSUME InspectionCurrentReferences(case, context) = "PASS"
      PROVE  /\ references = current
             /\ \A role \in Roles : /\ cited[role] = Identity(case.docs[role])
                                    /\ context.targets[role] = Identity(case.docs[role])
  <2>1. /\ references # None /\ DOMAIN references = Roles
        /\ \A role \in Roles : /\ references[role] = context.claims[role]
                               /\ references[role] = Identity(case.docs[role])
    BY <1>5, <1>6
  <2>2. references \in References
    BY <1>4, <2>1
  <2>3. references = [role \in Roles |-> references[role]]
    <3>1. PICK R \in SUBSET Holders :
            references \in [R -> Identities \cup [Roles -> [revision : Nat]]]
      BY <2>2 DEF References, ReferencesOf
    <3> HIDE DEF references
    <3> QED BY <2>1, <3>1
  <2>4. references = current
    BY <2>1, <2>3
  <2>5. \A role \in Roles : context.claims[role].source = context.targets[role].source
    BY <1>1, <1>2, <2>1
  <2> QED BY <1>1, <2>1, <2>4, <2>5
<1>7. ASSUME references = current,
             Identity(case.docs["INSPECTION_RECORD"]) = context.inspection,
             \A role \in Roles : cited[role] = Identity(case.docs[role])
      PROVE  InspectionCurrentReferences(case, context) = "PASS"
  <2>1. current # None
    BY <1>3, NoneIsNothing
  <2>2. DOMAIN references = Roles /\ \A role \in Roles : references[role] = Identity(case.docs[role])
    BY <1>7
  <2> QED BY <1>1, <1>5, <1>7, <2>1, <2>2
<1> QED BY <1>5, <1>6, <1>7

\* R005 passes only if the raw inspection record cites the very documents in force
\* (rule_inspection_current_references): no sequence of
\* resolutions and edits makes an old citation good.
THEOREM ReferencesProve == Spec => []ReferencesProveArtifacts
<1>1. IInv => ReferencesProveArtifacts
  BY ReferencesPass DEF ReferencesProveArtifacts, Findings
<1> QED BY <1>1, Invariance, PTL

\* R007 without its sets.
LEMMA ApprovalPasses ==
  ASSUME NEW c
  PROVE  HighRiskApproval(c) = "PASS" <=>
           (c.event.risk_level = "HIGH" =>
              /\ \A role \in Approvers : \E a \in c.event.approvals :
                   a.role = role /\ a.revision = c.event.revision /\ a.decision = "APPROVED"
              /\ ~ \E a \in c.event.approvals :
                   a.revision = c.event.revision /\ a.decision # "APPROVED")
<1> DEFINE current == {a \in c.event.approvals : a.revision = c.event.revision}
           approved == {a.role : a \in {x \in current : x.decision = "APPROVED"}}
<1>1. HighRiskApproval(c) = "PASS" <=>
        \/ c.event.risk_level # "HIGH"
        \/ (\A a \in current : a.decision = "APPROVED") /\ Approvers \subseteq approved
  BY DEF HighRiskApproval
<1>2. Approvers \subseteq approved <=>
        \A role \in Approvers : \E a \in c.event.approvals :
          a.role = role /\ a.revision = c.event.revision /\ a.decision = "APPROVED"
  OBVIOUS
<1>3. (\A a \in current : a.decision = "APPROVED") <=>
        ~ \E a \in c.event.approvals : a.revision = c.event.revision /\ a.decision # "APPROVED"
  OBVIOUS
<1> HIDE DEF current, approved
<1> QED BY <1>1, <1>2, <1>3

\* The verdict of _overall_status over the seven rules is PASS exactly if the case is
\* traceable, dated and vouched for.
THEOREM PassIsReady == Spec => []PassMeansReady
<1>1. ASSUME IInv PROVE PassMeansReady
  <2>1. case \in Cases /\ ValidCase(case)
    BY <1>1 DEF IInv, TypeOK
  <2>2. Covered(case) /\ Consistent(case) /\ UnderControl(case) <=> Traceable
    BY <2>1, TraceablePasses
  <2>3. RevisionAfterApproval(case) = "PASS" <=> Dated
    BY <2>1, DatedPasses
  <2>4. /\ InspectionCurrentReferences(case, context) = "PASS"
        /\ ValidationEvidence(case, reports) = "PASS"
        /\ HighRiskApproval(case) = "PASS"
        <=> Vouched
    <3>1. (\A role \in Roles : Identity(case.docs[role]) = context.targets[role]) /\
          (\A role \in Roles : cited[role] = Identity(case.docs[role])) <=>
            \A role \in Roles : /\ cited[role] = Identity(case.docs[role])
                                /\ context.targets[role] = Identity(case.docs[role])
      OBVIOUS
    <3> QED BY <1>1, <3>1, ReferencesPass, EvidencePasses, ApprovalPasses DEF Vouched
  <2>5. Verdict(case, reports) = "PASS" <=>
          /\ Covered(case) /\ Consistent(case) /\ UnderControl(case)
          /\ RevisionAfterApproval(case) = "PASS"
          /\ InspectionCurrentReferences(case, context) = "PASS"
          /\ ValidationEvidence(case, reports) = "PASS"
          /\ HighRiskApproval(case) = "PASS"
    BY AllPass DEF Verdict
  <2> QED BY <2>2, <2>3, <2>4, <2>5 DEF PassMeansReady
<1> QED BY <1>1, Invariance, PTL

(***************************************************************************)
(* Faults                                                                  *)
(***************************************************************************)

\* No rule set passes a faulted case that has a scar.
LEMMA ScarsShow ==
  ASSUME IInv, Faulted(case), Scarred(case), resolved = 0,
         Traceable, Dated, InspectionCurrentReferences(case, context) = "PASS",
         HighRiskApproval(case) = "PASS"
  PROVE  FALSE
<1>1. /\ case \in Cases /\ case.event \in Events
      /\ \A t \in DocTypes : case.docs[t] \in Documents
      /\ {"SOP", "CONTROL_PLAN", "PFMEA", "PROCESS_FLOW", "INSPECTION_RECORD"} \subseteq DocTypes
  BY ValuesAreTyped DEF IInv, Cases, CasesOf
<1>2. /\ case.event.links = {Seam} /\ case.event.steps = {"WELD", "INSPECT"}
  BY DEF Traceable, Faulted
<1>3. case.event.approved_at # None /\ \A t \in DocTypes : case.event.approved_at <= case.docs[t].date
  BY DEF Dated, Faulted
<1>4. /\ case.docs["SOP"].revision = 2
      /\ case.docs["INSPECTION_RECORD"].references = [role \in Roles |-> CurrentIdentity]
  <2>1. context.targets = [role \in Roles |-> CurrentIdentity]
    BY DEF IInv, ContextInv, PackContext
  <2>2. /\ case.docs["INSPECTION_RECORD"].references =
             [role \in Roles |-> Identity(case.docs[role])]
        /\ \A role \in Roles : Identity(case.docs[role]) = CurrentIdentity
    BY <2>1, ReferencesPass
  <2>3. Identity(case.docs["SOP"]) = CurrentIdentity
    BY <2>2 DEF Roles
  <2> QED BY <2>2, <2>3 DEF Identity, CurrentIdentity
<1>5. /\ Seam \in DOMAIN case.docs["CONTROL_PLAN"].rows
      /\ Specified(case, "SOP") /\ Specified(case, "INSPECTION_RECORD")
  <2>1. PICK spec \in Specs : \A t \in SpecDocs :
          Seam \in DOMAIN case.docs[t].rows /\ case.docs[t].rows[Seam].spec = spec
    BY <1>2 DEF Traceable
  <2>2. {"SOP", "CONTROL_PLAN", "INSPECTION_RECORD"} \subseteq SpecDocs
    BY DEF SpecDocs, Roles
  <2>3. spec = "max0"
    BY <2>1, <2>2 DEF Faulted
  <2> QED BY <2>1, <2>2, <2>3 DEF Specified
<1>6. PICK risk \in case.docs["PFMEA"].risks : risk.pair = Seam
  BY <1>2 DEF Traceable
<1>7. case.docs["CONTROL_PLAN"].rows[Seam].controls = ControlFields
  <2>1. risk.special
    BY <1>6 DEF Faulted
  <2>2. ControlFields \subseteq case.docs["CONTROL_PLAN"].rows[Seam].controls
    BY <1>2, <1>6, <2>1 DEF Traceable
  <2>3. case.docs["CONTROL_PLAN"].rows \in RowTables
    BY <1>1 DEF Documents
  <2>4. case.docs["CONTROL_PLAN"].rows \in [{Seam} -> [spec : Specs, controls : SUBSET ControlFields]]
    BY <1>5, <2>3 DEF RowTables
  <2> QED BY <2>2, <2>4
<1>8. "INSPECT" \in case.docs["CONTROL_PLAN"].steps
  BY <1>2 DEF Traceable
<1>9. /\ ~(case.docs["SOP"].date < case.event.approved_at)
      /\ ~(case.docs["PROCESS_FLOW"].date < case.event.approved_at)
  <2>1. /\ case.docs["SOP"].date \in Nat /\ case.docs["PROCESS_FLOW"].date \in Nat
        /\ case.event.approved_at \in Nat
    BY <1>1, <1>3 DEF Documents, Events, EventsOf
  <2> QED BY <1>1, <1>3, <2>1
<1>10. \E a \in case.event.approvals :
         a.role = "QUALITY_MANAGER" /\ a.revision = 2 /\ a.decision = "APPROVED"
  BY ApprovalPasses DEF Faulted, Approvers
<1> QED BY <1>2, <1>3, <1>4, <1>5, <1>6, <1>7, <1>8, <1>9, <1>10 DEF Scarred, RiskPairs

\* Whatever faults of the benchmark are put into the baseline, on top of each other and
\* in whatever order, the case does not pass: each leaves a trace that no other removes
\* and that one of the rules sees.
THEOREM FaultsStay == Spec => []FaultsDoNotCancel
<1>1. ASSUME IInv PROVE FaultsDoNotCancel
  <2> SUFFICES ASSUME origin = Baseline, resolved = 0, applied # {}, applied \subseteq CaseFaults,
                      Verdict(case, Validated(case)) = "PASS"
               PROVE  FALSE
    BY DEF FaultsDoNotCancel
  <2>1. Faulted(case) /\ Scarred(case)
    BY <1>1 DEF IInv, FaultInv
  <2>2. /\ Covered(case) /\ Consistent(case) /\ UnderControl(case)
        /\ RevisionAfterApproval(case) = "PASS"
        /\ InspectionCurrentReferences(case, context) = "PASS"
        /\ HighRiskApproval(case) = "PASS"
    BY AllPass DEF Verdict
  <2>3. case \in Cases /\ ValidCase(case)
    BY <1>1 DEF IInv, TypeOK
  <2>4. Traceable /\ Dated
    BY <2>2, <2>3, TraceablePasses, DatedPasses
  <2> QED BY <1>1, <2>1, <2>2, <2>4, ScarsShow
<1> QED BY <1>1, Invariance, PTL

(***************************************************************************)
(* Rebuilding the record                                                   *)
(***************************************************************************)

\* A valid case stays valid when documents are rebuilt.
LEMMA RebuiltIsValid ==
  ASSUME NEW c \in Cases, ValidCase(c), NEW types \in SUBSET Replaceable,
         NEW raw \in [types -> Identities], NEW after, after.claims \in [Roles -> Identities]
  PROVE  ValidCase(Rebuilt(c, raw, after))
<1> DEFINE d == Rebuilt(c, raw, after)
<1>1. ASSUME NEW t \in DocTypes
      PROVE  /\ d \in Cases /\ d.event = c.event /\ d.migrations = c.migrations
             /\ t \notin types => d.docs[t] = c.docs[t]
             /\ t \in types =>
                  /\ d.docs[t].steps = BaselineDocs[t].steps
                  /\ d.docs[t].rows = BaselineDocs[t].rows
                  /\ d.docs[t].risks = BaselineDocs[t].risks /\ ~d.docs[t].unbound
                  /\ d.docs[t].references = IF t = "INSPECTION_RECORD" THEN after.claims
                                            ELSE c.docs[t].references
  BY RebuiltCase
<1> HIDE DEF d
<1>2. d.event = c.event /\ d.migrations = c.migrations
  BY <1>1, ValuesAreTyped
<1>3. ASSUME NEW t \in DocTypes PROVE ValidDocument(d, t)
  <2>1. ValidDocument(c, t)
    BY DEF ValidCase
  <2>2. CASE t \notin types
    BY <1>1, <1>2, <2>1, <2>2 DEF ValidDocument
  <2>3. CASE t \in types
    <3>1. /\ \A pair \in DOMAIN d.docs[t].rows : pair = Seam
          /\ \A risk \in d.docs[t].risks : risk = Risk("WELD", TRUE)
          /\ "WELD" \in d.docs[t].steps /\ ~d.docs[t].unbound
      <4>1. /\ d.docs[t].steps = BaselineDocs[t].steps
            /\ d.docs[t].rows = BaselineDocs[t].rows
            /\ d.docs[t].risks = BaselineDocs[t].risks /\ ~d.docs[t].unbound
        BY <1>1, <2>3
      <4>2. \A pair \in DOMAIN BaselineDocs[t].rows : pair = Seam
        BY BaselineRows
      <4>3. \A risk \in BaselineDocs[t].risks : risk = Risk("WELD", TRUE)
        <5>1. CASE t = "PFMEA"
          BY <5>1, BaselineRows
        <5>2. CASE t # "PFMEA"
          BY <5>2, BaselineRows
        <5> QED BY <5>1, <5>2
      <4>4. "WELD" \in BaselineDocs[t].steps
        BY BaselineRows
      <4> QED BY <4>1, <4>2, <4>3, <4>4
    <3>2. Seam[1] = "WELD" /\ Risk("WELD", TRUE).pair[1] = "WELD"
      BY DEF Seam, Risk
    <3>3. d.docs[t].references # None /\ "LEGACY_UNATTESTED" \in DOMAIN d.docs[t].references =>
            /\ DOMAIN d.docs[t].references = {"LEGACY_UNATTESTED"}
            /\ "reference" \in d.migrations
      <4>1. CASE t = "INSPECTION_RECORD"
        <5>1. d.docs[t].references = after.claims /\ "LEGACY_UNATTESTED" \notin Roles
          BY <1>1, <2>3, <4>1 DEF Roles
        <5> QED BY <5>1
      <4>2. CASE t # "INSPECTION_RECORD"
        <5>1. d.docs[t].references = c.docs[t].references
          BY <1>1, <2>3, <4>2
        <5> QED BY <1>2, <2>1, <5>1 DEF ValidDocument
      <4> QED BY <4>1, <4>2
    <3> QED BY <3>1, <3>2, <3>3 DEF ValidDocument
  <2> QED BY <2>2, <2>3
<1>4. ValidCase(d)
  BY <1>2, <1>3 DEF ValidCase
<1> QED BY <1>4 DEF d

\* prepare_artifact_context accepts a record that cites the documents in force exactly
\* if the one before it claimed the right ones of those not replaced with it; R005 then
\* passes unless one of these was edited.
THEOREM CatchingUp == Spec => []RecordCatchesUp
<1>1. ASSUME IInv PROVE RecordCatchesUp
  <2> SUFFICES ASSUME NEW types \in SUBSET Roles, NEW revision \in Revisions
               PROVE
    LET kept == Roles \ types
        raw == Artifacts(types \cup {"INSPECTION_RECORD"}, revision)
        cites == [role \in Roles |-> IF role \in types THEN revision
                                     ELSE context.targets[role].revision]
        after == Replaced(context, raw, cites)
        inForce == \A role \in kept : context.claims[role] = context.targets[role]
        unedited == \A role \in kept : Identity(case.docs[role]) = context.targets[role]
    IN NewRevision(case, raw) =>
         /\ Accepted(raw, cites) <=> inForce
         /\ inForce =>
              (InspectionCurrentReferences(Rebuilt(case, raw, after), after) = "PASS"
                 <=> unedited)
    BY DEF RecordCatchesUp
  <2> DEFINE all == types \cup {"INSPECTION_RECORD"}
             kept == Roles \ types
             raw == Artifacts(all, revision)
             cites == [role \in Roles |-> IF role \in types THEN revision
                                          ELSE context.targets[role].revision]
             after == Replaced(context, raw, cites)
             inForce == \A role \in kept : context.claims[role] = context.targets[role]
             unedited == \A role \in kept : Identity(case.docs[role]) = context.targets[role]
             d == Rebuilt(case, raw, after)
  <2>1. /\ all \in SUBSET Replaceable /\ "INSPECTION_RECORD" \in all
        /\ all \cap Controlled # {} /\ \A role \in Roles : role \in all <=> role \in types
    BY DEF Replaceable, Controlled, Roles
  <2>2. /\ raw \in [all -> Identities] /\ \A t \in all : raw[t].revision = revision
    BY <1>1, <2>1, NewArtifacts, RuleAssumption DEF IInv, ContextInv
  <2>3. context \in Contexts /\ case \in Cases /\ ValidCase(case)
    BY <1>1 DEF IInv, TypeOK, ContextInv
  <2> HIDE DEF raw
  <2>4. after # None <=> inForce
    <3> DEFINE registry == Registry(context, raw)
               targets == [role \in Roles |-> IF role \in DOMAIN raw THEN raw[role]
                                              ELSE context.targets[role]]
    <3>1. DOMAIN raw = all
      BY <2>2
    <3>2. \A role \in Roles :
            /\ targets[role] = IF role \in types THEN raw[role] ELSE context.targets[role]
            /\ registry[role] = IF role \in types THEN raw[role] ELSE context.claims[role]
      BY <2>1, <3>1 DEF Registry
    <3>3. after = IF Cites(cites, registry)
                  THEN Sealed(raw["INSPECTION_RECORD"], registry, registry, targets) ELSE None
      BY <2>1, <3>1 DEF Replaced
    <3>4. /\ targets = [role \in Roles |-> targets[role]]
          /\ registry = [role \in Roles |-> registry[role]]
      BY DEF Registry
    <3>5. /\ registry \in [Roles -> Identities] /\ targets \in [Roles -> Identities]
      BY <2>1, <2>2, <2>3, <3>2, <3>4 DEF Contexts
    <3> HIDE DEF registry, targets
    <3>6. registry = targets <=> inForce
      BY <3>2, <3>4
    <3>7. registry = targets => Cites(cites, registry)
      BY <2>1, <2>2, <3>2 DEF Cites
    <3>8. registry = targets =>
            Sealed(raw["INSPECTION_RECORD"], registry, registry, targets) # None
      <4>1. ASSUME registry = targets
            PROVE  Sealed(raw["INSPECTION_RECORD"], registry, registry, targets) \in Contexts
        BY <2>1, <2>2, <3>5, <4>1 DEF Sealed, Contexts
      <4> QED BY <4>1, NoneIsNothing
    <3>9. registry # targets =>
            Sealed(raw["INSPECTION_RECORD"], registry, registry, targets) = None
      BY DEF Sealed
    <3> QED BY <3>3, <3>6, <3>7, <3>8, <3>9
  <2>5. ASSUME inForce
        PROVE  /\ after # None /\ after \in Contexts
               /\ after.claims = after.targets
               /\ after.inspection = raw["INSPECTION_RECORD"]
               /\ \A role \in Roles : after.targets[role] =
                    IF role \in types THEN raw[role] ELSE context.targets[role]
    <3>1. after # None
      BY <2>4, <2>5
    <3> HIDE DEF all, cites
    <3> QED BY <2>1, <2>2, <2>3, <3>1, ReplacedContext
  <2> HIDE DEF after
  <2>6. inForce => ValidCase(d)
    <3>1. ASSUME inForce PROVE after.claims \in [Roles -> Identities]
      BY <2>5, <3>1 DEF Contexts
    <3> HIDE DEF all
    <3> QED BY <2>1, <2>2, <2>3, <3>1, RebuiltIsValid
  <2>7. ASSUME NewRevision(case, raw)
        PROVE  Accepted(raw, cites) <=> inForce
    BY <2>4, <2>6, <2>7 DEF Accepted, after
  <2>8. ASSUME inForce
        PROVE  InspectionCurrentReferences(d, after) = "PASS" <=> unedited
    <3>1. after.claims \in [Roles -> Identities]
      BY <2>5, <2>8 DEF Contexts
    <3>2. ASSUME NEW t \in DocTypes
          PROVE  /\ t \notin all => d.docs[t] = case.docs[t]
                 /\ t \in all => /\ d.docs[t].revision = raw[t].revision
                                 /\ d.docs[t].source = raw[t].source
                 /\ t \in all => d.docs[t].references = IF t = "INSPECTION_RECORD" THEN after.claims
                                                        ELSE case.docs[t].references
      <4> HIDE DEF all
      <4> QED BY <2>1, <2>2, <2>3, <3>1, RebuiltCase
    <3> HIDE DEF d
    <3>3. \A i \in Identities : i = [revision |-> i.revision, source |-> i.source]
      BY DEF Identities
    <3>4. \A t \in all \cap DocTypes : Identity(d.docs[t]) = raw[t]
      BY <2>2, <3>2, <3>3 DEF Identity
    <3>5. \A role \in Roles : Identity(d.docs[role]) =
            IF role \in types THEN raw[role] ELSE Identity(case.docs[role])
      BY <2>1, <3>2, <3>4 DEF DocTypes
    <3>6. d.docs["INSPECTION_RECORD"].references = after.claims
          /\ Identity(d.docs["INSPECTION_RECORD"]) = after.inspection
      BY <2>1, <2>5, <2>8, <3>2, <3>4, ValuesAreTyped
    <3>7. after.claims # None /\ after # None /\ DOMAIN after.claims = Roles
      BY <2>5, <2>8, <3>1, NoneIsNothing
    <3>8. InspectionCurrentReferences(d, after) = "PASS" <=>
            \A role \in Roles : after.claims[role] = Identity(d.docs[role])
      BY <3>6, <3>7 DEF InspectionCurrentReferences, InspectionReferences
    <3> QED BY <2>5, <2>8, <3>5, <3>8
  <2> QED BY <2>7, <2>8 DEF raw, after
<1> QED BY <1>1, Invariance, PTL

(***************************************************************************)
(* The benchmark                                                           *)
(***************************************************************************)

\* One mutation of the baseline is what made the case.
BenchInv ==
  origin = Baseline /\ resolved = 0 =>
    /\ applied = {} => case = Baseline
    /\ \A m : applied = {m} => Edited(m, Baseline, case)

LEMMA OneEdit == Spec => []BenchInv
<1>1. Init => BenchInv
  BY DEF Init, BenchInv
<1>2. ASSUME IInv, BenchInv, [Next]_vars
      PROVE  BenchInv'
  <2>1. CASE Resolve
    <3>1. resolved' # 0
      BY <1>2, <2>1 DEF Resolve, IInv, ContextInv
    <3> QED BY <3>1 DEF BenchInv
  <2>2. ASSUME NEW e, Edit(e)
        PROVE  BenchInv'
    <3>1. /\ e \notin applied /\ applied' = applied \cup {e} /\ Edited(e, case, case')
          /\ origin' = origin /\ resolved' = resolved
      BY <2>2 DEF Edit
    <3>2. ASSUME NEW m, applied' = {m}, origin = Baseline, resolved = 0
          PROVE  Edited(m, Baseline, case')
      <4>1. applied = {} /\ m = e
        BY <3>1, <3>2
      <4> QED BY <1>2, <3>1, <3>2, <4>1 DEF BenchInv
    <3>3. applied' # {}
      BY <3>1
    <3> QED BY <3>1, <3>2, <3>3 DEF BenchInv
  <2>3. ASSUME NEW result, NEW day, Issue(result, day)
        PROVE  BenchInv'
    BY <1>2, <2>3 DEF Issue, BenchInv
  <2>4. CASE UNCHANGED vars
    BY <1>2, <2>4 DEF vars, BenchInv
  <2> QED BY <1>2, <2>1, <2>2, <2>3, <2>4 DEF Next
<1>3. IInv /\ BenchInv /\ [Next]_vars => BenchInv'
  BY <1>2
<1> QED BY <1>1, <1>3, Invariance, PTL DEF Spec

\* The first early return that is taken decides.
LEMMA FirstReturn ==
  ASSUME NEW returns, DOMAIN returns = 1..5, NEW i \in 1..5,
         returns[i][1], \A j \in 1..(i - 1) : ~returns[j][1]
  PROVE  FirstOf(returns) = returns[i][2]
<1> DEFINE First(k) == returns[k][1] /\ \A j \in 1..(k - 1) : ~returns[j][1]
<1>1. FirstOf(returns) = returns[CHOOSE k \in 1..5 : First(k)][2]
  BY DEF FirstOf
<1>2. ASSUME NEW k \in 1..5, First(k)
      PROVE  k = i
  <2>1. ~(k < i) /\ ~(i < k)
    BY <1>2
  <2> QED BY <2>1
<1>3. First(i)
  OBVIOUS
<1> HIDE DEF First
<1>4. (CHOOSE k \in 1..5 : First(k)) = i
  BY <1>2, <1>3
<1> QED BY <1>1, <1>4

\* So the five cases.
LEMMA FiveValues ==
  ASSUME NEW returns, DOMAIN returns = 1..5
  PROVE  /\ returns[1][1] => FirstOf(returns) = returns[1][2]
         /\ ~returns[1][1] /\ returns[2][1] => FirstOf(returns) = returns[2][2]
         /\ ~returns[1][1] /\ ~returns[2][1] /\ returns[3][1] => FirstOf(returns) = returns[3][2]
         /\ ~returns[1][1] /\ ~returns[2][1] /\ ~returns[3][1] /\ ~returns[4][1] /\ returns[5][1]
              => FirstOf(returns) = returns[5][2]
<1>1. returns[1][1] => FirstOf(returns) = returns[1][2]
  BY FirstReturn
<1>2. ~returns[1][1] /\ returns[2][1] => FirstOf(returns) = returns[2][2]
  BY FirstReturn
<1>3. ~returns[1][1] /\ ~returns[2][1] /\ returns[3][1] => FirstOf(returns) = returns[3][2]
  BY FirstReturn
<1>4. ~returns[1][1] /\ ~returns[2][1] /\ ~returns[3][1] /\ ~returns[4][1] /\ returns[5][1]
        => FirstOf(returns) = returns[5][2]
  BY FirstReturn
<1> QED BY <1>1, <1>2, <1>3, <1>4

Uncovered(c) ==
  \E t \in {"PROCESS_FLOW", "PFMEA", "CONTROL_PLAN"} : ~(c.event.steps \subseteq c.docs[t].steps)

\* R001, return by return, for a case that came through no migration.
LEMMA CoverageReturns ==
  ASSUME NEW c, c.migrations = {}
  PROVE  /\ c.event.steps = {} => ProcessCoverage(c) = "UNVERIFIABLE"
         /\ c.event.steps # {} /\ Uncovered(c) => ProcessCoverage(c) = "CONTRADICTED"
         /\ c.event.steps # {} /\ ~Uncovered(c) /\ ~ScopeComplete(c) =>
              ProcessCoverage(c) = "UNVERIFIABLE"
         /\ /\ c.event.steps # {} /\ ~Uncovered(c) /\ ScopeComplete(c)
            /\ ~(c.event.links \subseteq RiskPairs(c) \cap RowPairs(c, "CONTROL_PLAN"))
            => ProcessCoverage(c) = "CONTRADICTED"
<1> DEFINE returns == <<
             <<c.event.steps = {}, "UNVERIFIABLE">>,
             <<Uncovered(c), "CONTRADICTED">>,
             <<~ScopeComplete(c), "UNVERIFIABLE">>,
             <<LegacyUnbound(c, {"PFMEA", "CONTROL_PLAN"}), "UNVERIFIABLE">>,
             <<~(c.event.links \subseteq RiskPairs(c) \cap RowPairs(c, "CONTROL_PLAN")),
               "CONTRADICTED">> >>
<1>1. ProcessCoverage(c) = FirstOf(returns)
  BY DEF ProcessCoverage, Uncovered
<1>2. /\ DOMAIN returns = 1..5
      /\ returns[1][2] = "UNVERIFIABLE" /\ returns[2][2] = "CONTRADICTED"
      /\ returns[3][2] = "UNVERIFIABLE" /\ returns[5][2] = "CONTRADICTED"
  OBVIOUS
<1>3. /\ returns[1][1] <=> c.event.steps = {}
      /\ returns[2][1] <=> Uncovered(c)
      /\ returns[3][1] <=> ~ScopeComplete(c)
      /\ ~returns[4][1]
      /\ returns[5][1] <=> ~(c.event.links \subseteq RiskPairs(c) \cap RowPairs(c, "CONTROL_PLAN"))
  BY DEF LegacyUnbound
<1> HIDE DEF returns
<1> QED BY <1>1, <1>2, <1>3, FiveValues

Conflict(c, pair) == Cardinality({SpecOf(c, t, pair) : t \in SpecDocs} \ {None}) > 1
Misbound(c, pair) ==
  \E t \in SpecDocs : pair \notin RowPairs(c, t) /\ Candidates(RowPairs(c, t), pair) # {}

\* R002, return by return.
LEMMA ConsistencyReturns ==
  ASSUME NEW c, c.migrations = {}
  PROVE  /\ c.event.chars = {} \/ ~ScopeComplete(c) => SpecConsistency(c) = "UNVERIFIABLE"
         /\ /\ c.event.chars # {} /\ ScopeComplete(c)
            /\ \E pair \in c.event.links : Conflict(c, pair)
            => SpecConsistency(c) = "CONTRADICTED"
         /\ /\ c.event.chars # {} /\ ScopeComplete(c)
            /\ \A pair \in c.event.links : ~Conflict(c, pair) /\ ~Misbound(c, pair)
            /\ \E pair \in c.event.links : \E t \in SpecDocs : SpecOf(c, t, pair) = None
            => SpecConsistency(c) = "UNVERIFIABLE"
<1> DEFINE returns == <<
             <<c.event.chars = {} \/ ~ScopeComplete(c), "UNVERIFIABLE">>,
             <<LegacyUnbound(c, SpecDocs), "UNVERIFIABLE">>,
             <<\E pair \in c.event.links : Conflict(c, pair), "CONTRADICTED">>,
             <<\E pair \in c.event.links : Misbound(c, pair), "CONTRADICTED">>,
             <<\E pair \in c.event.links : \E t \in SpecDocs : SpecOf(c, t, pair) = None,
               "UNVERIFIABLE">> >>
<1>1. SpecConsistency(c) = FirstOf(returns)
  BY DEF SpecConsistency, Conflict, Misbound
<1>2. /\ DOMAIN returns = 1..5
      /\ returns[1][2] = "UNVERIFIABLE" /\ returns[3][2] = "CONTRADICTED"
      /\ returns[5][2] = "UNVERIFIABLE"
  OBVIOUS
<1>3. /\ returns[1][1] <=> c.event.chars = {} \/ ~ScopeComplete(c)
      /\ ~returns[2][1]
      /\ returns[3][1] <=> \E pair \in c.event.links : Conflict(c, pair)
      /\ returns[4][1] <=> \E pair \in c.event.links : Misbound(c, pair)
      /\ returns[5][1] <=> \E pair \in c.event.links : \E t \in SpecDocs : SpecOf(c, t, pair) = None
  BY DEF LegacyUnbound
<1> HIDE DEF returns
<1> QED BY <1>1, <1>2, <1>3, FiveValues

\* R003, return by return.
LEMMA ControlReturns ==
  ASSUME NEW c, c.migrations = {}
  PROVE  LET unanalysed == c.event.links \ RiskPairs(c) IN
         /\ ~ScopeComplete(c) => SpecialCharacteristicControl(c) = "UNVERIFIABLE"
         /\ /\ ScopeComplete(c)
            /\ \E pair \in unanalysed : Candidates(RiskPairs(c), pair) # {}
            => SpecialCharacteristicControl(c) = "CONTRADICTED"
         /\ /\ ScopeComplete(c) /\ unanalysed = {}
            /\ \E pair \in c.event.links : SpecialPair(c, pair) /\ ~Controls(c, pair)
            => SpecialCharacteristicControl(c) = "CONTRADICTED"
<1> DEFINE unanalysed == c.event.links \ RiskPairs(c)
           returns == <<
             <<~ScopeComplete(c), "UNVERIFIABLE">>,
             <<LegacyUnbound(c, {"PFMEA", "CONTROL_PLAN"}), "UNVERIFIABLE">>,
             <<\E pair \in unanalysed : Candidates(RiskPairs(c), pair) # {}, "CONTRADICTED">>,
             <<unanalysed # {}, "UNVERIFIABLE">>,
             <<\E pair \in c.event.links : SpecialPair(c, pair) /\ ~Controls(c, pair),
               "CONTRADICTED">> >>
<1>1. SpecialCharacteristicControl(c) = FirstOf(returns)
  BY DEF SpecialCharacteristicControl, SpecialPair, Controls
<1>2. /\ DOMAIN returns = 1..5
      /\ returns[1][2] = "UNVERIFIABLE" /\ returns[3][2] = "CONTRADICTED"
      /\ returns[5][2] = "CONTRADICTED"
  OBVIOUS
<1>3. /\ returns[1][1] <=> ~ScopeComplete(c)
      /\ ~returns[2][1]
      /\ returns[3][1] <=> \E pair \in unanalysed : Candidates(RiskPairs(c), pair) # {}
      /\ returns[4][1] <=> unanalysed # {}
      /\ returns[5][1] <=> \E pair \in c.event.links : SpecialPair(c, pair) /\ ~Controls(c, pair)
  BY DEF LegacyUnbound
<1>4. unanalysed = {} => ~ \E pair \in unanalysed : Candidates(RiskPairs(c), pair) # {}
  OBVIOUS
<1> HIDE DEF returns
<1> QED BY <1>1, <1>2, <1>3, <1>4, FiveValues

(* What each mutation makes of the baseline, field by field. *)

WithEvent(c, d, event) == d.event = event /\ d.docs = c.docs /\ d.migrations = c.migrations

WithDocument(c, d, t, doc) ==
  /\ d.event = c.event /\ d.migrations = c.migrations
  /\ d.docs[t] = doc /\ \A u \in DocTypes : u # t => d.docs[u] = c.docs[u]

EventEffects(m, event) ==
  /\ event.revision = 2 /\ event.plan = Plan
  /\ event.risk_level = IF m = "M026" THEN "MEDIUM" ELSE "HIGH"
  /\ event.steps = IF m = "M009" THEN {} ELSE {"WELD", "INSPECT"}
  /\ event.chars = IF m = "M010" THEN {} ELSE {"SPATTER"}
  /\ event.links = IF m \in {"M009", "M010"} THEN {} ELSE {Seam}
  /\ event.approved_at = IF m = "M017" THEN None ELSE IF m = "M029" THEN 10 ELSE 5
  /\ event.approvals = IF m = "M004" THEN {Signed("PROCESS_OWNER", "APPROVED", 2)}
                       ELSE IF m \in {"M026", "M027", "M030"} THEN {}
                       ELSE IF m = "M028" THEN Signatures(1) ELSE Signatures(2)

FlowEffects(m, doc) ==
  /\ doc.date = IF m \in {"M018", "M019"} THEN 2 ELSE 6
  /\ doc.waiver = IF m = "M018" THEN Waiver(2) ELSE None
  /\ doc.steps = Steps

AnalysisEffects(m, doc) ==
  /\ doc.date = 6 /\ doc.waiver = None /\ doc.steps = Steps
  /\ doc.risks = IF m \in {"M007", "M030"} THEN {Risk("CLEAN", TRUE)}
                 ELSE {Risk("WELD", m # "M016")}

ControlEffects(m, doc) ==
  /\ doc.revision = 2 /\ doc.source = 2 /\ doc.date = 7 /\ doc.waiver = None
  /\ doc.steps = IF m = "M008" THEN Steps \ {"INSPECT"} ELSE Steps
  /\ m = "M013" => doc.rows = <<>>
  /\ m # "M013" => DOMAIN doc.rows = {Seam} /\ doc.rows[Seam].spec = "max0"
  /\ m \in {"M003", "M014", "M015", "M030"} => doc.rows[Seam].controls # ControlFields
  /\ m \notin {"M003", "M013", "M014", "M015", "M030"} => doc.rows[Seam].controls = ControlFields

InstructionEffects(m, doc) ==
  /\ doc.revision = (IF m = "M001" THEN 1 ELSE 2) /\ doc.source = 2 /\ doc.waiver = None
  /\ doc.date = IF m = "M001" THEN 1 ELSE IF m = "M020" THEN 3 ELSE 7
  /\ m = "M006" => doc.rows = <<>>
  /\ m # "M006" => /\ DOMAIN doc.rows = {Seam}
                   /\ doc.rows[Seam].spec = IF m \in {"M001", "M030"} THEN "max1"
                                            ELSE IF m = "M011" THEN "max0_per_cm2" ELSE "max0"

RecordEffects(m, doc) ==
  /\ doc.revision = 2 /\ doc.source = 2 /\ doc.date = 8 /\ doc.waiver = None
  /\ DOMAIN doc.rows = {Seam}
  /\ doc.rows[Seam].spec = IF m = "M012" THEN "max1" ELSE "max0"
  /\ m = "M021" => doc.references = None
  /\ m # "M021" => doc.references \in References
  /\ m = "M022" => DOMAIN doc.references = Roles \cup {"WORK_CARD"}
  /\ m = "M005" => DOMAIN doc.references = Roles /\ doc.references["SOP"].revision = 1
  /\ m \notin {"M005", "M021", "M022"} =>
       doc.references = [role \in Roles |-> CurrentIdentity]

Effects(m, d) ==
  /\ d.migrations = {}
  /\ EventEffects(m, d.event)
  /\ FlowEffects(m, d.docs["PROCESS_FLOW"])
  /\ AnalysisEffects(m, d.docs["PFMEA"])
  /\ ControlEffects(m, d.docs["CONTROL_PLAN"])
  /\ InstructionEffects(m, d.docs["SOP"])
  /\ RecordEffects(m, d.docs["INSPECTION_RECORD"])

LEMMA BaselineReferences == [role \in Roles |-> CurrentIdentity] \in References
<1>1. [role \in Roles |-> CurrentIdentity] \in [Roles -> Identities]
  BY DEF CurrentIdentity, Identities
<1> QED BY <1>1, ClaimsAreReferences

\* The documents of the baseline show no effect.
LEMMA BaselineEffects ==
  ASSUME NEW m
  PROVE  /\ m \notin {"M018", "M019"} => FlowEffects(m, BaselineDocs["PROCESS_FLOW"])
         /\ m \notin {"M007", "M016", "M030"} => AnalysisEffects(m, BaselineDocs["PFMEA"])
         /\ m \notin {"M003", "M008", "M013", "M014", "M015", "M030"} =>
              ControlEffects(m, BaselineDocs["CONTROL_PLAN"])
         /\ m \notin {"M001", "M006", "M011", "M020", "M030"} =>
              InstructionEffects(m, BaselineDocs["SOP"])
         /\ m \notin {"M005", "M012", "M021", "M022"} =>
              RecordEffects(m, BaselineDocs["INSPECTION_RECORD"])
         /\ m \notin {"M004", "M009", "M010", "M017", "M026", "M027", "M028", "M029", "M030"} =>
              EventEffects(m, Baseline.event)
<1>1. m \notin {"M018", "M019"} => FlowEffects(m, BaselineDocs["PROCESS_FLOW"])
  BY DEF FlowEffects, BaselineDocs, Document
<1>2. m \notin {"M007", "M016", "M030"} => AnalysisEffects(m, BaselineDocs["PFMEA"])
  BY DEF AnalysisEffects, BaselineDocs, Document
<1>3. m \notin {"M003", "M008", "M013", "M014", "M015", "M030"} =>
        ControlEffects(m, BaselineDocs["CONTROL_PLAN"])
  BY DEF ControlEffects, BaselineDocs, Document, Only, Row
<1>4. m \notin {"M001", "M006", "M011", "M020", "M030"} =>
        InstructionEffects(m, BaselineDocs["SOP"])
  BY DEF InstructionEffects, BaselineDocs, Document, Only, Row
<1>5. m \notin {"M005", "M012", "M021", "M022"} =>
        RecordEffects(m, BaselineDocs["INSPECTION_RECORD"])
  BY BaselineReferences DEF RecordEffects, BaselineDocs, Document, Only, Row
<1>6. m \notin {"M004", "M009", "M010", "M017", "M026", "M027", "M028", "M029", "M030"} =>
        EventEffects(m, Baseline.event)
  BY BaselineEvent DEF EventEffects
<1> QED BY <1>1, <1>2, <1>3, <1>4, <1>5, <1>6

DocumentMutations ==
  [t \in DocTypes |->
     IF t = "PROCESS_FLOW" THEN {"M018", "M019"}
     ELSE IF t = "PFMEA" THEN {"M007", "M016"}
     ELSE IF t = "CONTROL_PLAN" THEN {"M003", "M008", "M013", "M014", "M015"}
     ELSE IF t = "SOP" THEN {"M001", "M006", "M011", "M020"}
     ELSE {"M005", "M012", "M021", "M022"}]

DocumentEffects(m, t, doc) ==
  /\ t = "PROCESS_FLOW" => FlowEffects(m, doc)
  /\ t = "PFMEA" => AnalysisEffects(m, doc)
  /\ t = "CONTROL_PLAN" => ControlEffects(m, doc)
  /\ t = "SOP" => InstructionEffects(m, doc)
  /\ t = "INSPECTION_RECORD" => RecordEffects(m, doc)

\* A mutation of one document shows in that document only.
LEMMA OneDocument ==
  ASSUME NEW t \in DocTypes, NEW m \in DocumentMutations[t], NEW d, NEW doc,
         WithDocument(Baseline, d, t, doc), DocumentEffects(m, t, doc)
  PROVE  Effects(m, d)
<1>1. /\ d.event = Baseline.event /\ d.migrations = {}
      /\ d.docs[t] = doc /\ \A u \in DocTypes : u # t => d.docs[u] = BaselineDocs[u]
  BY BaselineEvent DEF WithDocument
<1>2. {"PROCESS_FLOW", "PFMEA", "CONTROL_PLAN", "SOP", "INSPECTION_RECORD"} = DocTypes
  BY DEF DocTypes, Roles
<1>3. CASE t = "PROCESS_FLOW"
  <2>1. m \in {"M018", "M019"} /\ FlowEffects(m, d.docs["PROCESS_FLOW"])
    BY <1>1, <1>3 DEF DocumentMutations, DocumentEffects
  <2> QED BY <1>1, <1>2, <1>3, <2>1, BaselineEffects DEF Effects
<1>4. CASE t = "PFMEA"
  <2>1. m \in {"M007", "M016"} /\ AnalysisEffects(m, d.docs["PFMEA"])
    BY <1>1, <1>4 DEF DocumentMutations, DocumentEffects
  <2> QED BY <1>1, <1>2, <1>4, <2>1, BaselineEffects DEF Effects
<1>5. CASE t = "CONTROL_PLAN"
  <2>1. /\ m \in {"M003", "M008", "M013", "M014", "M015"}
        /\ ControlEffects(m, d.docs["CONTROL_PLAN"])
    BY <1>1, <1>5 DEF DocumentMutations, DocumentEffects
  <2> QED BY <1>1, <1>2, <1>5, <2>1, BaselineEffects DEF Effects
<1>6. CASE t = "SOP"
  <2>1. m \in {"M001", "M006", "M011", "M020"} /\ InstructionEffects(m, d.docs["SOP"])
    BY <1>1, <1>6 DEF DocumentMutations, DocumentEffects
  <2> QED BY <1>1, <1>2, <1>6, <2>1, BaselineEffects DEF Effects
<1>7. CASE t = "INSPECTION_RECORD"
  <2>1. m \in {"M005", "M012", "M021", "M022"} /\ RecordEffects(m, d.docs["INSPECTION_RECORD"])
    BY <1>1, <1>7 DEF DocumentMutations, DocumentEffects
  <2> QED BY <1>1, <1>2, <1>7, <2>1, BaselineEffects DEF Effects
<1> QED BY <1>2, <1>3, <1>4, <1>5, <1>6, <1>7

EventMutations ==
  {"M002", "M004", "M009", "M010", "M017", "M023", "M024", "M025", "M026", "M027", "M028", "M029"}

\* A mutation of the event shows in no document.
LEMMA OneEvent ==
  ASSUME NEW m \in EventMutations, NEW d, NEW event,
         WithEvent(Baseline, d, event), EventEffects(m, event)
  PROVE  Effects(m, d)
<1>1. d.event = event /\ d.migrations = {} /\ d.docs = BaselineDocs
  BY BaselineEvent DEF WithEvent
<1> QED BY <1>1, BaselineEffects DEF Effects, EventMutations

\* What the setters make of a case.
LEMMA SettersSet ==
  ASSUME NEW c \in Cases
  PROVE  /\ \A t \in DocTypes : \A doc : WithDocument(c, [c EXCEPT !.docs[t] = doc], t, doc)
         /\ \A t \in DocTypes : \A rows :
              WithDocument(c, SetRows(c, t, rows), t,
                           [c.docs[t] EXCEPT !.rows = rows, !.unbound = FALSE])
         /\ \A t \in DocTypes : \A day :
              WithDocument(c, SetDate(c, t, day), t, [c.docs[t] EXCEPT !.date = day])
         /\ \A risk : WithDocument(c, SetRisk(c, risk), "PFMEA",
                                   [c.docs["PFMEA"] EXCEPT !.risks = {risk}, !.unbound = FALSE])
         /\ \A approvals :
              WithEvent(c, SetApprovals(c, approvals), [c.event EXCEPT !.approvals = approvals])
         /\ \A claims : WithEvent(c, SetClaims(c, claims), [c.event EXCEPT !.claims = claims])
<1>1. ASSUME NEW t \in DocTypes, NEW doc
      PROVE  WithDocument(c, [c EXCEPT !.docs[t] = doc], t, doc)
  BY DEF WithDocument, Cases, CasesOf
<1>2. ASSUME NEW t \in DocTypes, NEW rows
      PROVE  SetRows(c, t, rows) =
               [c EXCEPT !.docs[t] = [c.docs[t] EXCEPT !.rows = rows, !.unbound = FALSE]]
  BY DEF SetRows, Cases, CasesOf
<1>3. ASSUME NEW t \in DocTypes, NEW day
      PROVE  SetDate(c, t, day) = [c EXCEPT !.docs[t] = [c.docs[t] EXCEPT !.date = day]]
  BY DEF SetDate, Cases, CasesOf
<1>4. ASSUME NEW risk
      PROVE  SetRisk(c, risk) =
               [c EXCEPT !.docs["PFMEA"] =
                  [c.docs["PFMEA"] EXCEPT !.risks = {risk}, !.unbound = FALSE]]
  BY DEF SetRisk, Cases, CasesOf, DocTypes
<1>5. ASSUME NEW approvals
      PROVE  WithEvent(c, SetApprovals(c, approvals), [c.event EXCEPT !.approvals = approvals])
  BY DEF WithEvent, SetApprovals, Cases, CasesOf
<1>6. ASSUME NEW claims
      PROVE  WithEvent(c, SetClaims(c, claims), [c.event EXCEPT !.claims = claims])
  BY DEF WithEvent, SetClaims, Cases, CasesOf
<1>7. ASSUME NEW t \in DocTypes, NEW rows
      PROVE  WithDocument(c, SetRows(c, t, rows), t,
                          [c.docs[t] EXCEPT !.rows = rows, !.unbound = FALSE])
  <2> DEFINE doc == [c.docs[t] EXCEPT !.rows = rows, !.unbound = FALSE]
  <2>1. SetRows(c, t, rows) = [c EXCEPT !.docs[t] = doc]
    BY <1>2
  <2> SUFFICES WithDocument(c, SetRows(c, t, rows), t, doc)
    OBVIOUS
  <2> HIDE DEF doc
  <2> QED BY <1>1, <2>1
<1>8. ASSUME NEW t \in DocTypes, NEW day
      PROVE  WithDocument(c, SetDate(c, t, day), t, [c.docs[t] EXCEPT !.date = day])
  <2> DEFINE doc == [c.docs[t] EXCEPT !.date = day]
  <2>1. SetDate(c, t, day) = [c EXCEPT !.docs[t] = doc]
    BY <1>3
  <2> SUFFICES WithDocument(c, SetDate(c, t, day), t, doc)
    OBVIOUS
  <2> HIDE DEF doc
  <2> QED BY <1>1, <2>1
<1>9. ASSUME NEW risk
      PROVE  WithDocument(c, SetRisk(c, risk), "PFMEA",
                          [c.docs["PFMEA"] EXCEPT !.risks = {risk}, !.unbound = FALSE])
  <2> DEFINE doc == [c.docs["PFMEA"] EXCEPT !.risks = {risk}, !.unbound = FALSE]
  <2>1. "PFMEA" \in DocTypes /\ SetRisk(c, risk) = [c EXCEPT !.docs["PFMEA"] = doc]
    BY <1>4 DEF DocTypes
  <2> SUFFICES WithDocument(c, SetRisk(c, risk), "PFMEA", doc)
    OBVIOUS
  <2> HIDE DEF doc
  <2> QED BY <1>1, <2>1
<1> QED BY <1>1, <1>5, <1>6, <1>7, <1>8, <1>9, Zenon

\* Each mutation of the baseline has its effects and no others.
LEMMA MutationEffects ==
  ASSUME NEW m \in Benchmark, NEW d, Mutated(m, Baseline, d)
  PROVE  Effects(m, d)
<1>1. /\ Baseline \in Cases /\ Baseline.docs = BaselineDocs
      /\ {"PROCESS_FLOW", "PFMEA", "CONTROL_PLAN", "SOP", "INSPECTION_RECORD"} = DocTypes
  BY BaselineIsCase, BaselineEvent DEF DocTypes, Roles
<1>2. \A t \in DocTypes : BaselineDocs[t] \in Documents
  BY <1>1 DEF Cases, CasesOf
<1>3. /\ \A t \in DocTypes : \A rows :
           WithDocument(Baseline, SetRows(Baseline, t, rows), t,
                        [BaselineDocs[t] EXCEPT !.rows = rows, !.unbound = FALSE])
      /\ \A t \in DocTypes : \A day : WithDocument(Baseline, SetDate(Baseline, t, day), t,
                                               [BaselineDocs[t] EXCEPT !.date = day])
      /\ \A risk : WithDocument(Baseline, SetRisk(Baseline, risk), "PFMEA",
                     [BaselineDocs["PFMEA"] EXCEPT !.risks = {risk}, !.unbound = FALSE])
      /\ \A approvals : WithEvent(Baseline, SetApprovals(Baseline, approvals),
                                  [Baseline.event EXCEPT !.approvals = approvals])
      /\ \A claims : WithEvent(Baseline, SetClaims(Baseline, claims),
                               [Baseline.event EXCEPT !.claims = claims])
  BY <1>1, SettersSet
<1>4. CASE m \in {"M018", "M019"}
  <2> DEFINE c1 == SetDate(Baseline, "PROCESS_FLOW", 2)
             doc == [BaselineDocs["PROCESS_FLOW"] EXCEPT !.date = 2]
             waived == [doc EXCEPT !.waiver = Waiver(2)]
  <2>1. WithDocument(Baseline, c1, "PROCESS_FLOW", doc)
    BY <1>1, <1>3
  <2>2. m \in DocumentMutations["PROCESS_FLOW"]
    BY <1>1, <1>4 DEF DocumentMutations
  <2>3. CASE m = "M019"
    <3>1. d = c1
      BY <2>3 DEF Mutated
    <3>2. FlowEffects(m, doc)
      BY <2>3 DEF FlowEffects, BaselineDocs, Document
    <3> HIDE DEF doc
    <3>3. DocumentEffects(m, "PROCESS_FLOW", doc)
      BY <3>2 DEF DocumentEffects
    <3> QED BY <1>1, <2>1, <2>2, <3>1, <3>3, OneDocument
  <2>4. CASE m = "M018"
    <3>1. d = [c1 EXCEPT !.docs["PROCESS_FLOW"] = [c1.docs["PROCESS_FLOW"] EXCEPT !.waiver = Waiver(2)]]
      BY <2>4 DEF Mutated
    <3>2. c1 \in Cases
      BY <1>1, SettersKeep DEF Kept, SourcesKept
    <3> HIDE DEF c1
    <3>3. WithDocument(c1, d, "PROCESS_FLOW", [c1.docs["PROCESS_FLOW"] EXCEPT !.waiver = Waiver(2)])
      BY <1>1, <3>1, <3>2, SettersSet
    <3>4. c1.docs["PROCESS_FLOW"] = doc
      BY <2>1 DEF WithDocument
    <3>5. FlowEffects(m, waived)
      BY <2>4 DEF FlowEffects, BaselineDocs, Document
    <3> HIDE DEF doc
    <3>6. WithDocument(c1, d, "PROCESS_FLOW", waived)
      BY <3>3, <3>4
    <3> HIDE DEF waived
    <3>7. WithDocument(Baseline, d, "PROCESS_FLOW", waived)
      BY <2>1, <3>6 DEF WithDocument
    <3>8. DocumentEffects(m, "PROCESS_FLOW", waived)
      BY <3>5 DEF DocumentEffects
    <3> QED BY <1>1, <2>2, <3>7, <3>8, OneDocument
  <2> QED BY <1>4, <2>3, <2>4
<1>5. CASE m \in {"M007", "M016"}
  <2> DEFINE risk == IF m = "M007" THEN Risk("CLEAN", TRUE) ELSE Risk("WELD", FALSE)
             doc == [BaselineDocs["PFMEA"] EXCEPT !.risks = {risk}, !.unbound = FALSE]
  <2>1. d = SetRisk(Baseline, risk)
    BY <1>5 DEF Mutated
  <2>2. AnalysisEffects(m, doc)
    BY <1>5 DEF AnalysisEffects, BaselineDocs, Document
  <2>3. WithDocument(Baseline, d, "PFMEA", doc)
    BY <1>3, <2>1
  <2>4. m \in DocumentMutations["PFMEA"]
    BY <1>1, <1>5 DEF DocumentMutations
  <2> HIDE DEF doc
  <2>5. DocumentEffects(m, "PFMEA", doc)
    BY <2>2 DEF DocumentEffects
  <2> QED BY <1>1, <2>3, <2>4, <2>5, OneDocument
<1>6. CASE m \in {"M003", "M013", "M014", "M015"}
  <2> DEFINE controls == IF m = "M003" THEN ControlFields \ {"reaction_plan"}
                         ELSE IF m = "M014" THEN ControlFields \ {"control_method"}
                         ELSE ControlFields \ {"frequency"}
             rows == IF m = "M013" THEN <<>> ELSE Only(Seam, Row("max0", controls))
             doc == [BaselineDocs["CONTROL_PLAN"] EXCEPT !.rows = rows, !.unbound = FALSE]
  <2>1. d = SetRows(Baseline, "CONTROL_PLAN", rows)
    BY <1>6 DEF Mutated, SetControls, SetRow
  <2>2. /\ controls # ControlFields
        /\ m = "M013" => rows = <<>>
        /\ m # "M013" => DOMAIN rows = {Seam} /\ rows[Seam] = Row("max0", controls)
    BY DEF ControlFields, Only
  <2>3. BaselineDocs["CONTROL_PLAN"] = Document(Steps, 7, Only(Seam, Row("max0", ControlFields)))
    BY DEF BaselineDocs
  <2> HIDE DEF rows, controls
  <2>4. ControlEffects(m, doc)
    BY <1>6, <2>2, <2>3 DEF ControlEffects, Document, Row
  <2>5. WithDocument(Baseline, d, "CONTROL_PLAN", doc)
    BY <1>1, <1>3, <2>1
  <2>6. m \in DocumentMutations["CONTROL_PLAN"]
    BY <1>1, <1>6 DEF DocumentMutations
  <2> HIDE DEF doc
  <2>7. DocumentEffects(m, "CONTROL_PLAN", doc)
    BY <2>4 DEF DocumentEffects
  <2> QED BY <1>1, <2>5, <2>6, <2>7, OneDocument
<1>7. CASE m = "M008"
  <2> DEFINE doc == [BaselineDocs["CONTROL_PLAN"] EXCEPT !.steps = Steps \ {"INSPECT"}]
  <2>1. WithDocument(Baseline, d, "CONTROL_PLAN", doc)
    <3>1. d = [Baseline EXCEPT !.docs["CONTROL_PLAN"] = doc]
      BY <1>1, <1>7 DEF Mutated
    <3> HIDE DEF doc
    <3> QED BY <1>1, <3>1, SettersSet
  <2>2. ControlEffects(m, doc)
    BY <1>7 DEF ControlEffects, BaselineDocs, Document, Only, Row
  <2>3. m \in DocumentMutations["CONTROL_PLAN"]
    BY <1>1, <1>7 DEF DocumentMutations
  <2> HIDE DEF doc
  <2>4. DocumentEffects(m, "CONTROL_PLAN", doc)
    BY <2>2 DEF DocumentEffects
  <2> QED BY <1>1, <2>1, <2>3, <2>4, OneDocument
<1>8. CASE m = "M001"
  <2> DEFINE c1 == SetRow(Baseline, "SOP", Row("max1", {}))
             doc1 == [BaselineDocs["SOP"] EXCEPT !.rows = Only(Seam, Row("max1", {})), !.unbound = FALSE]
             doc2 == [doc1 EXCEPT !.revision = 1]
             doc3 == [doc2 EXCEPT !.date = 1]
             c2 == [c1 EXCEPT !.docs["SOP"] = [c1.docs["SOP"] EXCEPT !.revision = 1]]
  <2>1. d = SetDate(c2, "SOP", 1)
    BY <1>8 DEF Mutated
  <2>2. WithDocument(Baseline, c1, "SOP", doc1)
    BY <1>1, <1>3 DEF SetRow
  <2>3. c1 \in Cases
    <3>1. "max1" \in Specs /\ {} \in SUBSET ControlFields
      BY DEF Specs
    <3> QED BY <1>1, <3>1, SettersKeep DEF Kept, SourcesKept
  <2> HIDE DEF c1
  <2>4. c1.docs["SOP"] = doc1 /\ c1.docs["SOP"] \in Documents
    BY <1>1, <2>2, <2>3 DEF WithDocument, Cases, CasesOf
  <2>5. c2 \in Cases
    <3> DEFINE new == [c1.docs["SOP"] EXCEPT !.revision = 1]
    <3>1. new \in Documents /\ new.source = c1.docs["SOP"].source
      BY <2>4 DEF Documents
    <3> HIDE DEF new
    <3>2. Kept(c1, [c1 EXCEPT !.docs["SOP"] = new])
      BY <1>1, <2>3, <3>1, DocumentSet
    <3> QED BY <3>2 DEF Kept, SourcesKept, new
  <2>6. WithDocument(c1, c2, "SOP", [c1.docs["SOP"] EXCEPT !.revision = 1])
    BY <1>1, <2>3, SettersSet
  <2> HIDE DEF c2
  <2>7. WithDocument(c2, d, "SOP", [c2.docs["SOP"] EXCEPT !.date = 1])
    BY <1>1, <2>1, <2>5, SettersSet
  <2>8. InstructionEffects(m, doc3)
    BY <1>8 DEF InstructionEffects, BaselineDocs, Document, Only, Row
  <2> HIDE DEF doc1
  <2>9. c2.docs["SOP"] = doc2
    BY <2>4, <2>6 DEF WithDocument
  <2> HIDE DEF doc2
  <2>10. WithDocument(c2, d, "SOP", doc3)
    BY <2>7, <2>9
  <2> HIDE DEF doc3
  <2>11. WithDocument(Baseline, d, "SOP", doc3)
    BY <2>2, <2>6, <2>10 DEF WithDocument
  <2>12. m \in DocumentMutations["SOP"]
    BY <1>1, <1>8 DEF DocumentMutations
  <2>13. DocumentEffects(m, "SOP", doc3)
    BY <2>8 DEF DocumentEffects
  <2> QED BY <1>1, <2>11, <2>12, <2>13, OneDocument
<1>9. CASE m \in {"M006", "M011"}
  <2> DEFINE rows == IF m = "M006" THEN <<>> ELSE Only(Seam, Row("max0_per_cm2", {}))
             doc == [BaselineDocs["SOP"] EXCEPT !.rows = rows, !.unbound = FALSE]
  <2>1. d = SetRows(Baseline, "SOP", rows)
    BY <1>9 DEF Mutated, SetRow
  <2>2. InstructionEffects(m, doc)
    BY <1>9 DEF InstructionEffects, BaselineDocs, Document, Only, Row
  <2> HIDE DEF rows
  <2>3. WithDocument(Baseline, d, "SOP", doc)
    BY <1>1, <1>3, <2>1
  <2>4. m \in DocumentMutations["SOP"]
    BY <1>1, <1>9 DEF DocumentMutations
  <2> HIDE DEF doc
  <2>5. DocumentEffects(m, "SOP", doc)
    BY <2>2 DEF DocumentEffects
  <2> QED BY <1>1, <2>3, <2>4, <2>5, OneDocument
<1>10. CASE m = "M020"
  <2> DEFINE doc == [BaselineDocs["SOP"] EXCEPT !.date = 3]
  <2>1. d = SetDate(Baseline, "SOP", 3)
    BY <1>10 DEF Mutated
  <2>2. InstructionEffects(m, doc)
    BY <1>10 DEF InstructionEffects, BaselineDocs, Document, Only, Row
  <2>3. WithDocument(Baseline, d, "SOP", doc)
    BY <1>1, <1>3, <2>1
  <2>4. m \in DocumentMutations["SOP"]
    BY <1>1, <1>10 DEF DocumentMutations
  <2> HIDE DEF doc
  <2>5. DocumentEffects(m, "SOP", doc)
    BY <2>2 DEF DocumentEffects
  <2> QED BY <1>1, <2>3, <2>4, <2>5, OneDocument
<1>11. CASE m = "M012"
  <2> DEFINE doc == [BaselineDocs["INSPECTION_RECORD"] EXCEPT
                       !.rows = Only(Seam, Row("max1", {})), !.unbound = FALSE]
  <2>1. d = SetRows(Baseline, "INSPECTION_RECORD", Only(Seam, Row("max1", {})))
    BY <1>11 DEF Mutated, SetRow
  <2>2. RecordEffects(m, doc)
    BY <1>11, BaselineReferences DEF RecordEffects, BaselineDocs, Document, Only, Row
  <2>3. WithDocument(Baseline, d, "INSPECTION_RECORD", doc)
    BY <1>1, <1>3, <2>1
  <2>4. m \in DocumentMutations["INSPECTION_RECORD"]
    BY <1>1, <1>11 DEF DocumentMutations
  <2> HIDE DEF doc
  <2>5. DocumentEffects(m, "INSPECTION_RECORD", doc)
    BY <2>2 DEF DocumentEffects
  <2> QED BY <1>1, <2>3, <2>4, <2>5, OneDocument
<1>12. CASE m \in {"M005", "M021", "M022"}
  <2> DEFINE known == [role \in Roles |-> CurrentIdentity]
             references == d.docs["INSPECTION_RECORD"].references
             doc == [BaselineDocs["INSPECTION_RECORD"] EXCEPT !.references = references]
  <2>1. BaselineDocs["INSPECTION_RECORD"].references = known
    BY BaselineRows
  <2>2. WithDocument(Baseline, d, "INSPECTION_RECORD", doc)
    <3>1. CASE m = "M005"
      BY <1>1, <1>2, <3>1 DEF Mutated, WithDocument, Cases, CasesOf, Documents
    <3>2. CASE m = "M021"
      BY <1>1, <1>2, <3>2 DEF Mutated, WithDocument, Cases, CasesOf, Documents
    <3>3. CASE m = "M022"
      BY <1>1, <1>2, <3>3 DEF Mutated, WithDocument, Cases, CasesOf, Documents
    <3> QED BY <1>12, <3>1, <3>2, <3>3
  <2>3. m = "M021" => references = None
    BY <1>1, <1>2 DEF Mutated, Cases, CasesOf, Documents
  <2>4. m = "M005" => DOMAIN references = Roles /\ references["SOP"].revision = 1
    <3> SUFFICES ASSUME m = "M005"
                 PROVE  DOMAIN references = Roles /\ references["SOP"].revision = 1
      OBVIOUS
    <3>1. references = [known EXCEPT !["SOP"].revision = 1]
      BY <1>1, <1>2, <2>1 DEF Mutated, Cases, CasesOf, Documents
    <3>2. "SOP" \in Roles /\ DOMAIN known = Roles /\ known["SOP"] = CurrentIdentity
      BY DEF Roles
    <3> HIDE DEF references
    <3> QED BY <3>1, <3>2 DEF CurrentIdentity
  <2>5. m = "M022" => DOMAIN references = Roles \cup {"WORK_CARD"}
    <3> SUFFICES ASSUME m = "M022"
                 PROVE  DOMAIN references = Roles \cup {"WORK_CARD"}
      OBVIOUS
    <3>1. references =
            [role \in DOMAIN known \cup {"WORK_CARD"} |->
               IF role \in DOMAIN known THEN known[role] ELSE [revision |-> 1, source |-> 1]]
      BY <1>1, <1>2, <2>1 DEF Mutated, Cases, CasesOf, Documents
    <3> HIDE DEF references
    <3> QED BY <3>1
  <2>10. m # "M021" => references \in References
    <3>1. known \in References
      BY BaselineReferences
    <3>2. m = "M005" => references = [known EXCEPT !["SOP"].revision = 1]
      BY <1>1, <1>2, <2>1 DEF Mutated, Cases, CasesOf, Documents
    <3>3. m = "M022" =>
            references =
              [role \in DOMAIN known \cup {"WORK_CARD"} |->
                 IF role \in DOMAIN known THEN known[role] ELSE [revision |-> 1, source |-> 1]]
      BY <1>1, <1>2, <2>1 DEF Mutated, Cases, CasesOf, Documents
    <3>4. "SOP" \in DOMAIN known
      BY DEF Roles
    <3> HIDE DEF references, known
    <3> QED BY <1>12, <3>1, <3>2, <3>3, <3>4, ReferencesAreTyped
  <2>6. BaselineDocs["INSPECTION_RECORD"] =
          [Document({"WELD"}, 8, Only(Seam, Row("max0", {}))) EXCEPT
             !.references = [role \in Roles |-> CurrentIdentity]]
    BY DEF BaselineDocs
  <2>7. m \in DocumentMutations["INSPECTION_RECORD"]
    BY <1>1, <1>12 DEF DocumentMutations
  <2> HIDE DEF references
  <2>8. RecordEffects(m, doc)
    BY <1>12, <2>3, <2>4, <2>5, <2>6, <2>10 DEF RecordEffects, Document, Only, Row
  <2> HIDE DEF doc
  <2>9. DocumentEffects(m, "INSPECTION_RECORD", doc)
    BY <2>8 DEF DocumentEffects
  <2> QED BY <1>1, <2>2, <2>7, <2>9, OneDocument
<1>13. CASE m \in EventMutations
  <2> DEFINE event == d.event
  <2>1. /\ DOMAIN Baseline.event = {"revision", "approved_at", "risk_level", "steps", "chars",
                                     "links", "approvals", "plan", "claims"}
        /\ Baseline.event \in Events
    BY BaselineEvent DEF Events, EventsOf
  <2>2. CASE m \in {"M002", "M023", "M024", "M025"}
    <3>1. PICK claims : d = SetClaims(Baseline, claims)
      BY <2>2, Zenon DEF Mutated
    <3>2. WithEvent(Baseline, d, [Baseline.event EXCEPT !.claims = claims])
      BY <1>3, <3>1
    <3>3. WithEvent(Baseline, d, event) /\ event = [Baseline.event EXCEPT !.claims = claims]
      BY <3>2 DEF WithEvent
    <3> HIDE DEF event
    <3>4. EventEffects(m, event)
      BY <2>1, <2>2, <3>3, BaselineEvent DEF EventEffects
    <3> QED BY <1>13, <3>3, <3>4, OneEvent
  <2>3. CASE m \in {"M004", "M027", "M028"}
    <3> DEFINE approvals == IF m = "M004" THEN {Signed("PROCESS_OWNER", "APPROVED", 2)}
                            ELSE IF m = "M027" THEN {} ELSE Signatures(1)
    <3>1. d = SetApprovals(Baseline, approvals)
      <4>1. m = "M004" => d = SetApprovals(Baseline, {Signed("PROCESS_OWNER", "APPROVED", 2)})
        BY DEF Mutated
      <4>2. m = "M027" => d = SetApprovals(Baseline, {})
        BY DEF Mutated
      <4>3. m = "M028" => d = SetApprovals(Baseline, Signatures(1))
        BY DEF Mutated
      <4> QED BY <2>3, <4>1, <4>2, <4>3
    <3> HIDE DEF approvals
    <3>2. WithEvent(Baseline, d, [Baseline.event EXCEPT !.approvals = approvals])
      BY <1>3, <3>1
    <3>3. WithEvent(Baseline, d, event) /\ event = [Baseline.event EXCEPT !.approvals = approvals]
      BY <3>2 DEF WithEvent
    <3> HIDE DEF event
    <3>4. EventEffects(m, event)
      BY <2>1, <2>3, <3>3, BaselineEvent DEF EventEffects, approvals
    <3> QED BY <1>13, <3>3, <3>4, OneEvent
  <2>4. CASE m \in {"M009", "M010"}
    <3>1. CASE m = "M009"
      <4>1. d = [Baseline EXCEPT !.event.steps = {}, !.event.links = {}]
        BY <3>1 DEF Mutated
      <4>2. WithEvent(Baseline, d, [Baseline.event EXCEPT !.steps = {}, !.links = {}])
        BY <1>1, <4>1 DEF WithEvent, Cases, CasesOf
      <4>3. /\ WithEvent(Baseline, d, event)
            /\ event = [Baseline.event EXCEPT !.steps = {}, !.links = {}]
        BY <4>2 DEF WithEvent
      <4> HIDE DEF event
      <4>4. EventEffects(m, event)
        BY <2>1, <3>1, <4>3, BaselineEvent DEF EventEffects
      <4> QED BY <1>13, <4>3, <4>4, OneEvent
    <3>2. CASE m = "M010"
      <4>1. d = [Baseline EXCEPT !.event.chars = {}, !.event.links = {}]
        BY <3>2 DEF Mutated
      <4>2. WithEvent(Baseline, d, [Baseline.event EXCEPT !.chars = {}, !.links = {}])
        BY <1>1, <4>1 DEF WithEvent, Cases, CasesOf
      <4>3. /\ WithEvent(Baseline, d, event)
            /\ event = [Baseline.event EXCEPT !.chars = {}, !.links = {}]
        BY <4>2 DEF WithEvent
      <4> HIDE DEF event
      <4>4. EventEffects(m, event)
        BY <2>1, <3>2, <4>3, BaselineEvent DEF EventEffects
      <4> QED BY <1>13, <4>3, <4>4, OneEvent
    <3> QED BY <2>4, <3>1, <3>2
  <2>5. CASE m \in {"M017", "M029"}
    <3> DEFINE day == IF m = "M017" THEN None ELSE 10
    <3>1. d = [Baseline EXCEPT !.event.approved_at = day]
      <4>1. m = "M017" => d = [Baseline EXCEPT !.event.approved_at = None]
        BY DEF Mutated
      <4>2. m = "M029" => d = [Baseline EXCEPT !.event.approved_at = 10]
        BY DEF Mutated
      <4> QED BY <2>5, <4>1, <4>2
    <3> HIDE DEF day
    <3>2. WithEvent(Baseline, d, [Baseline.event EXCEPT !.approved_at = day])
      BY <1>1, <3>1 DEF WithEvent, Cases, CasesOf
    <3>3. WithEvent(Baseline, d, event) /\ event = [Baseline.event EXCEPT !.approved_at = day]
      BY <3>2 DEF WithEvent
    <3> HIDE DEF event
    <3>4. EventEffects(m, event)
      BY <2>1, <2>5, <3>3, BaselineEvent DEF EventEffects, day
    <3> QED BY <1>13, <3>3, <3>4, OneEvent
  <2>6. CASE m = "M026"
    <3>1. d = SetApprovals([Baseline EXCEPT !.event.risk_level = "MEDIUM"], {})
      BY <2>6 DEF Mutated
    <3>2. WithEvent(Baseline, d, [Baseline.event EXCEPT !.risk_level = "MEDIUM", !.approvals = {}])
      BY <1>1, <3>1 DEF WithEvent, SetApprovals, Cases, CasesOf
    <3>3. /\ WithEvent(Baseline, d, event)
          /\ event = [Baseline.event EXCEPT !.risk_level = "MEDIUM", !.approvals = {}]
      BY <3>2 DEF WithEvent
    <3> HIDE DEF event
    <3>4. EventEffects(m, event)
      BY <2>1, <2>6, <3>3, BaselineEvent DEF EventEffects
    <3> QED BY <1>13, <3>3, <3>4, OneEvent
  <2> QED BY <1>13, <2>2, <2>3, <2>4, <2>5, <2>6 DEF EventMutations
<1>14. CASE m = "M030"
  <2> DEFINE pfmea == [BaselineDocs["PFMEA"] EXCEPT !.risks = {Risk("CLEAN", TRUE)}, !.unbound = FALSE]
             sop == [BaselineDocs["SOP"] EXCEPT !.rows = Only(Seam, Row("max1", {})), !.unbound = FALSE]
             plan == [BaselineDocs["CONTROL_PLAN"] EXCEPT
                        !.rows = Only(Seam, Row("max0", ControlFields \ {"reaction_plan"})),
                        !.unbound = FALSE]
             event == [Baseline.event EXCEPT !.claims = "absent", !.approvals = {}]
             c1 == SetRisk(Baseline, Risk("CLEAN", TRUE))
             c2 == SetRow(c1, "SOP", Row("max1", {}))
             c3 == SetControls(c2, ControlFields \ {"reaction_plan"})
             c4 == SetClaims(c3, "absent")
  <2>1. d = SetApprovals(c4, {})
    BY <1>14 DEF Mutated
  <2>2. /\ c1 \in Cases /\ c2 \in Cases /\ c3 \in Cases /\ c4 \in Cases
    <3>1. Risk("CLEAN", TRUE) \in Risks
      BY DEF Risk, Risks, Steps, Chars
    <3>2. ControlFields \ {"reaction_plan"} \in SUBSET ControlFields /\ {} \in SUBSET ControlFields
      OBVIOUS
    <3>3. "max1" \in Specs /\ "SOP" \in DocTypes /\ "absent" \in {"none", "absent", "PASS", "FAIL"}
      BY DEF Specs, DocTypes, Roles
    <3>4. c1 \in Cases
      BY <1>1, <3>1, SettersKeep DEF Kept, SourcesKept
    <3>5. c2 \in Cases
      <4> HIDE DEF c1
      <4> QED BY <3>2, <3>3, <3>4, SettersKeep DEF Kept, SourcesKept
    <3>6. c3 \in Cases
      <4> HIDE DEF c2
      <4> QED BY <3>2, <3>5, SettersKeep DEF Kept, SourcesKept
    <3>7. c4 \in Cases
      <4> HIDE DEF c3
      <4> QED BY <3>3, <3>6, SettersKeep DEF Kept, SourcesKept
    <3> QED BY <3>4, <3>5, <3>6, <3>7
  <2>3. WithDocument(Baseline, c1, "PFMEA", pfmea)
    BY <1>3
  <2>4. WithDocument(c1, c2, "SOP",
          [c1.docs["SOP"] EXCEPT !.rows = Only(Seam, Row("max1", {})), !.unbound = FALSE])
    <3> HIDE DEF c1
    <3> QED BY <1>1, <2>2, SettersSet DEF SetRow
  <2>5. WithDocument(c2, c3, "CONTROL_PLAN",
          [c2.docs["CONTROL_PLAN"] EXCEPT
             !.rows = Only(Seam, Row("max0", ControlFields \ {"reaction_plan"})), !.unbound = FALSE])
    <3> HIDE DEF c2
    <3> QED BY <1>1, <2>2, SettersSet DEF SetControls, SetRow
  <2>6. WithEvent(c3, c4, [c3.event EXCEPT !.claims = "absent"])
    <3> HIDE DEF c3
    <3> QED BY <2>2, SettersSet
  <2>7. WithEvent(c4, d, [c4.event EXCEPT !.approvals = {}])
    <3> HIDE DEF c4
    <3> QED BY <2>1, <2>2, SettersSet
  <2> HIDE DEF c1, c2, c3, c4
  <2>8. /\ d.migrations = {}
        /\ d.event = [[Baseline.event EXCEPT !.claims = "absent"] EXCEPT !.approvals = {}]
        /\ d.docs["PROCESS_FLOW"] = BaselineDocs["PROCESS_FLOW"]
        /\ d.docs["INSPECTION_RECORD"] = BaselineDocs["INSPECTION_RECORD"]
        /\ d.docs["PFMEA"] = pfmea /\ d.docs["SOP"] = sop /\ d.docs["CONTROL_PLAN"] = plan
    <3>1. d.migrations = {} /\ c3.event = Baseline.event
      BY <2>3, <2>4, <2>5, <2>6, <2>7, BaselineEvent DEF WithDocument, WithEvent
    <3>2. d.event = [[Baseline.event EXCEPT !.claims = "absent"] EXCEPT !.approvals = {}]
      BY <2>6, <2>7, <3>1 DEF WithEvent
    <3>3. d.docs = c3.docs
      BY <2>6, <2>7 DEF WithEvent
    <3>4. /\ c2.docs["CONTROL_PLAN"] = BaselineDocs["CONTROL_PLAN"]
          /\ c1.docs["SOP"] = BaselineDocs["SOP"]
      BY <1>1, <2>3, <2>4 DEF WithDocument
    <3>5. /\ d.docs["PROCESS_FLOW"] = BaselineDocs["PROCESS_FLOW"]
          /\ d.docs["INSPECTION_RECORD"] = BaselineDocs["INSPECTION_RECORD"]
      BY <1>1, <2>3, <2>4, <2>5, <3>3 DEF WithDocument
    <3>6. d.docs["CONTROL_PLAN"] = plan
      BY <2>5, <3>3, <3>4 DEF WithDocument
    <3>7. d.docs["SOP"] = sop
      BY <1>1, <2>4, <2>5, <3>3, <3>4 DEF WithDocument
    <3>8. d.docs["PFMEA"] = pfmea
      <4> HIDE DEF pfmea
      <4> QED BY <1>1, <2>3, <2>4, <2>5, <3>3 DEF WithDocument
    <3> QED BY <3>1, <3>2, <3>5, <3>6, <3>7, <3>8
  <2>9. EventEffects(m, d.event)
    BY <1>14, <2>8, BaselineEvent DEF EventEffects, Events, EventsOf
  <2>10. AnalysisEffects(m, pfmea)
    BY <1>14 DEF AnalysisEffects, BaselineDocs, Document
  <2>11. InstructionEffects(m, sop)
    BY <1>14 DEF InstructionEffects, BaselineDocs, Document, Only, Row
  <2>12. ControlEffects(m, plan)
    <3>1. BaselineDocs["CONTROL_PLAN"] = Document(Steps, 7, Only(Seam, Row("max0", ControlFields)))
      BY DEF BaselineDocs
    <3>2. ControlFields \ {"reaction_plan"} # ControlFields
      BY DEF ControlFields
    <3> QED BY <1>14, <3>1, <3>2 DEF ControlEffects, Document, Only, Row
  <2> HIDE DEF pfmea, sop, plan
  <2> QED BY <1>14, <2>8, <2>9, <2>10, <2>11, <2>12, BaselineEffects DEF Effects
<1>15. m \in {"M018", "M019", "M007", "M016", "M003", "M013", "M014", "M015", "M008", "M001",
              "M006", "M011", "M020", "M012", "M005", "M021", "M022", "M030"} \cup EventMutations
  BY DEF Benchmark, EventMutations
<1> QED BY <1>4, <1>5, <1>6, <1>7, <1>8, <1>9, <1>10, <1>11, <1>12, <1>13, <1>14, <1>15

(* What the rules find in a case with the effects of one mutation. *)

\* The scope and the pairs of such a case.
LEMMA ScopeEffects ==
  ASSUME NEW m, NEW d, Effects(m, d)
  PROVE  /\ d.migrations = {}
         /\ m \in {"M009", "M010"} => d.event.links = {} /\ ~ScopeComplete(d)
         /\ m \notin {"M009", "M010"} =>
              /\ d.event.links = {Seam} /\ d.event.chars = {"SPATTER"} /\ ScopeComplete(d)
              /\ d.event.steps = {"WELD", "INSPECT"}
         /\ m \in {"M007", "M030"} => RiskPairs(d) = {<<"CLEAN", "SPATTER">>}
         /\ m \notin {"M007", "M030"} => RiskPairs(d) = {Seam}
         /\ RowPairs(d, "CONTROL_PLAN") = IF m = "M013" THEN {} ELSE {Seam}
         /\ RowPairs(d, "SOP") = IF m = "M006" THEN {} ELSE {Seam}
         /\ RowPairs(d, "INSPECTION_RECORD") = {Seam}
         /\ ~LegacyUnbound(d, {"PFMEA", "CONTROL_PLAN"}) /\ ~LegacyUnbound(d, SpecDocs)
<1>1. d.migrations = {} /\ ~LegacyUnbound(d, {"PFMEA", "CONTROL_PLAN"}) /\ ~LegacyUnbound(d, SpecDocs)
  BY DEF Effects, LegacyUnbound
<1>2. m \in {"M009", "M010"} => d.event.links = {} /\ ~ScopeComplete(d)
  BY DEF Effects, EventEffects, ScopeComplete
<1>3. m \notin {"M009", "M010"} =>
        /\ d.event.links = {Seam} /\ d.event.chars = {"SPATTER"} /\ ScopeComplete(d)
        /\ d.event.steps = {"WELD", "INSPECT"}
  <2>1. m \notin {"M009", "M010"} =>
          /\ d.event.links = {Seam} /\ d.event.chars = {"SPATTER"}
          /\ d.event.steps = {"WELD", "INSPECT"}
    BY DEF Effects, EventEffects
  <2>2. Seam[2] = "SPATTER"
    BY DEF Seam
  <2> QED BY <2>1, <2>2 DEF ScopeComplete
<1>4. m \in {"M007", "M030"} => RiskPairs(d) = {<<"CLEAN", "SPATTER">>}
  BY DEF Effects, AnalysisEffects, RiskPairs, Risk
<1>5. m \notin {"M007", "M030"} => RiskPairs(d) = {Seam}
  BY DEF Effects, AnalysisEffects, RiskPairs, Risk, Seam
<1>6. /\ RowPairs(d, "CONTROL_PLAN") = IF m = "M013" THEN {} ELSE {Seam}
      /\ RowPairs(d, "SOP") = IF m = "M006" THEN {} ELSE {Seam}
      /\ RowPairs(d, "INSPECTION_RECORD") = {Seam}
  <2>1. RowPairs(d, "CONTROL_PLAN") = IF m = "M013" THEN {} ELSE {Seam}
    <3>1. m = "M013" => d.docs["CONTROL_PLAN"].rows = <<>>
      BY DEF Effects, ControlEffects
    <3>2. m # "M013" => DOMAIN d.docs["CONTROL_PLAN"].rows = {Seam}
      BY DEF Effects, ControlEffects
    <3>3. DOMAIN <<>> = {}
      OBVIOUS
    <3> QED BY <3>1, <3>2, <3>3 DEF RowPairs
  <2>2. RowPairs(d, "SOP") = IF m = "M006" THEN {} ELSE {Seam}
    <3>1. m = "M006" => d.docs["SOP"].rows = <<>>
      BY DEF Effects, InstructionEffects
    <3>2. m # "M006" => DOMAIN d.docs["SOP"].rows = {Seam}
      BY DEF Effects, InstructionEffects
    <3>3. DOMAIN <<>> = {}
      OBVIOUS
    <3> QED BY <3>1, <3>2, <3>3 DEF RowPairs
  <2>3. RowPairs(d, "INSPECTION_RECORD") = {Seam}
    BY DEF Effects, RecordEffects, RowPairs
  <2> QED BY <2>1, <2>2, <2>3
<1> QED BY <1>1, <1>2, <1>3, <1>4, <1>5, <1>6

\* R001.
LEMMA CoverageFinds ==
  ASSUME NEW m, NEW d, Effects(m, d)
  PROVE  ProcessCoverage(d) = IF m \in {"M007", "M008", "M013", "M030"} THEN "CONTRADICTED"
                              ELSE IF m \in {"M009", "M010"} THEN "UNVERIFIABLE" ELSE "PASS"
<1>1. /\ d.docs["PROCESS_FLOW"].steps = Steps /\ d.docs["PFMEA"].steps = Steps
      /\ d.docs["CONTROL_PLAN"].steps = IF m = "M008" THEN Steps \ {"INSPECT"} ELSE Steps
      /\ d.event.steps = IF m = "M009" THEN {} ELSE {"WELD", "INSPECT"}
      /\ {"WELD", "INSPECT"} \subseteq Steps
  BY DEF Effects, FlowEffects, AnalysisEffects, ControlEffects, EventEffects, Steps
<1>2. m \notin {"M008", "M009"} => ~Uncovered(d)
  BY <1>1 DEF Uncovered
<1>3. m = "M008" => Uncovered(d)
  BY <1>1 DEF Uncovered
<1>4. Seam # <<"CLEAN", "SPATTER">>
  BY DEF Seam
<1>5. CASE m \in {"M007", "M013", "M030"}
  <2>1. ~(d.event.links \subseteq RiskPairs(d) \cap RowPairs(d, "CONTROL_PLAN"))
    BY <1>4, <1>5, ScopeEffects
  <2>2. d.migrations = {} /\ d.event.steps # {} /\ ~Uncovered(d) /\ ScopeComplete(d)
    BY <1>2, <1>5, ScopeEffects
  <2> QED BY <1>5, <2>1, <2>2, CoverageReturns
<1>6. CASE m = "M008"
  <2>1. d.migrations = {} /\ d.event.steps # {}
    BY <1>6, ScopeEffects
  <2> QED BY <1>3, <1>6, <2>1, CoverageReturns
<1>7. CASE m = "M009"
  BY <1>1, <1>7, ScopeEffects, CoverageReturns
<1>8. CASE m = "M010"
  <2>1. d.migrations = {} /\ d.event.steps # {} /\ ~ScopeComplete(d) /\ ~Uncovered(d)
    BY <1>1, <1>2, <1>8, ScopeEffects
  <2> QED BY <1>8, <2>1, CoverageReturns
<1>9. CASE m \notin {"M007", "M008", "M009", "M010", "M013", "M030"}
  <2>1. \A t \in {"PROCESS_FLOW", "PFMEA", "CONTROL_PLAN"} : d.event.steps \subseteq d.docs[t].steps
    BY <1>2, <1>9 DEF Uncovered
  <2>2. Covered(d)
    BY <1>9, <2>1, ScopeEffects DEF Covered
  <2> QED BY <1>9, <2>2, CoveragePasses
<1> QED BY <1>5, <1>6, <1>7, <1>8, <1>9

\* The specifications of the seam.
LEMMA SpecEffects ==
  ASSUME NEW m, NEW d, Effects(m, d)
  PROVE  /\ SpecOf(d, "SOP", Seam) = IF m = "M006" THEN None
                                     ELSE IF m \in {"M001", "M030"} THEN "max1"
                                     ELSE IF m = "M011" THEN "max0_per_cm2" ELSE "max0"
         /\ SpecOf(d, "CONTROL_PLAN", Seam) = IF m = "M013" THEN None ELSE "max0"
         /\ SpecOf(d, "INSPECTION_RECORD", Seam) = IF m = "M012" THEN "max1" ELSE "max0"
         /\ None \notin {"max0", "max1", "max0_per_cm2"}
<1>1. SpecOf(d, "SOP", Seam) = IF m = "M006" THEN None
                               ELSE IF m \in {"M001", "M030"} THEN "max1"
                               ELSE IF m = "M011" THEN "max0_per_cm2" ELSE "max0"
  <2>1. m # "M006" => d.docs["SOP"].rows[Seam].spec =
                        IF m \in {"M001", "M030"} THEN "max1"
                        ELSE IF m = "M011" THEN "max0_per_cm2" ELSE "max0"
    BY DEF Effects, InstructionEffects
  <2>2. RowPairs(d, "SOP") = IF m = "M006" THEN {} ELSE {Seam}
    BY ScopeEffects
  <2> QED BY <2>1, <2>2 DEF SpecOf
<1>2. SpecOf(d, "CONTROL_PLAN", Seam) = IF m = "M013" THEN None ELSE "max0"
  <2>1. m # "M013" => d.docs["CONTROL_PLAN"].rows[Seam].spec = "max0"
    BY DEF Effects, ControlEffects
  <2>2. RowPairs(d, "CONTROL_PLAN") = IF m = "M013" THEN {} ELSE {Seam}
    BY ScopeEffects
  <2> QED BY <2>1, <2>2 DEF SpecOf
<1>3. SpecOf(d, "INSPECTION_RECORD", Seam) = IF m = "M012" THEN "max1" ELSE "max0"
  BY ScopeEffects DEF SpecOf, Effects, RecordEffects
<1>4. None \notin {"max0", "max1", "max0_per_cm2"}
  BY NoneIsNothing DEF Specs
<1> QED BY <1>1, <1>2, <1>3, <1>4

\* R002.
LEMMA ConsistencyFinds ==
  ASSUME NEW m, NEW d, Effects(m, d)
  PROVE  SpecConsistency(d) = IF m \in {"M001", "M011", "M012", "M030"} THEN "CONTRADICTED"
                              ELSE IF m \in {"M006", "M009", "M010", "M013"} THEN "UNVERIFIABLE"
                              ELSE "PASS"
<1> DEFINE found == {SpecOf(d, t, Seam) : t \in SpecDocs} \ {None}
<1>1. SpecDocs = {"SOP", "CONTROL_PLAN", "INSPECTION_RECORD"}
  BY DEF SpecDocs, Roles
<1>2. IsFiniteSet(found)
  <2>1. found \subseteq {"max0", "max1"} \cup {"max0_per_cm2"}
    BY <1>1, SpecEffects
  <2>2. IsFiniteSet({"max0"} \cup {"max1"})
    BY FS_Singleton, FS_AddElement
  <2>3. IsFiniteSet(({"max0"} \cup {"max1"}) \cup {"max0_per_cm2"})
    BY <2>2, FS_AddElement
  <2>4. found \subseteq ({"max0"} \cup {"max1"}) \cup {"max0_per_cm2"}
    BY <2>1
  <2> HIDE DEF found
  <2> QED BY <2>3, <2>4, FS_Subset
<1>3. Conflict(d, Seam) <=> \E x, y \in found : x # y
  <2>1. Conflict(d, Seam) <=> Cardinality(found) > 1
    BY DEF Conflict
  <2> HIDE DEF found
  <2> QED BY <1>2, <2>1, ConflictCounts
<1>4. CASE m \in {"M009", "M010"}
  BY <1>4, ScopeEffects, ConsistencyReturns
<1>5. CASE m \in {"M001", "M011", "M012", "M030"}
  <2>1. \E x, y \in found : x # y
    <3>1. /\ SpecOf(d, "CONTROL_PLAN", Seam) = "max0"
          /\ \/ SpecOf(d, "SOP", Seam) \in {"max1", "max0_per_cm2"}
             \/ SpecOf(d, "INSPECTION_RECORD", Seam) = "max1"
      BY <1>5, SpecEffects
    <3>2. "max0" \in found
      BY <1>1, <3>1, SpecEffects
    <3>3. "max1" \in found \/ "max0_per_cm2" \in found
      BY <1>1, <3>1, SpecEffects
    <3> QED BY <3>2, <3>3
  <2> HIDE DEF found
  <2>2. Conflict(d, Seam) /\ d.event.links = {Seam} /\ ScopeComplete(d) /\ d.event.chars # {}
    BY <1>3, <1>5, <2>1, ScopeEffects
  <2>3. \E pair \in d.event.links : Conflict(d, pair)
    BY <2>2
  <2> QED BY <1>5, <2>2, <2>3, ScopeEffects, ConsistencyReturns
<1>6. CASE m \in {"M006", "M013"}
  <2>1. found = {"max0"}
    <3>1. /\ SpecOf(d, "SOP", Seam) \in {None, "max0"}
          /\ SpecOf(d, "CONTROL_PLAN", Seam) \in {None, "max0"}
          /\ SpecOf(d, "INSPECTION_RECORD", Seam) = "max0"
      BY <1>6, SpecEffects
    <3> QED BY <1>1, <3>1, SpecEffects
  <2>2. ~Conflict(d, Seam)
    BY <1>3, <2>1
  <2>3. ~Misbound(d, Seam)
    <3>1. \A t \in SpecDocs : RowPairs(d, t) \in {{}, {Seam}}
      BY <1>1, ScopeEffects
    <3>2. ASSUME NEW t \in SpecDocs, Seam \notin RowPairs(d, t)
          PROVE  Candidates(RowPairs(d, t), Seam) = {}
      <4>1. RowPairs(d, t) = {}
        BY <3>1, <3>2
      <4> QED BY <4>1 DEF Candidates
    <3> QED BY <3>2 DEF Misbound
  <2>4. \E t \in SpecDocs : SpecOf(d, t, Seam) = None
    BY <1>1, <1>6, SpecEffects
  <2>5. d.event.links = {Seam} /\ ScopeComplete(d) /\ d.event.chars # {} /\ d.migrations = {}
    BY <1>6, ScopeEffects
  <2>6. /\ \A pair \in d.event.links : ~Conflict(d, pair) /\ ~Misbound(d, pair)
        /\ \E pair \in d.event.links : \E t \in SpecDocs : SpecOf(d, t, pair) = None
    BY <2>2, <2>3, <2>4, <2>5
  <2> QED BY <1>6, <2>5, <2>6, ConsistencyReturns
<1>7. CASE m \notin {"M001", "M006", "M009", "M010", "M011", "M012", "M013", "M030"}
  <2>1. \A t \in SpecDocs : SpecOf(d, t, Seam) = "max0"
    BY <1>1, <1>7, SpecEffects
  <2>2. d.event.links = {Seam} /\ ScopeComplete(d) /\ d.event.chars # {}
    BY <1>7, ScopeEffects
  <2>3. Consistent(d)
    BY <2>1, <2>2, ScopeEffects, SpecEffects DEF Consistent, Agreed
  <2> QED BY <1>7, <2>3, ConsistencyPasses
<1> HIDE DEF found
<1> QED BY <1>4, <1>5, <1>6, <1>7

\* R003.
LEMMA ControlFinds ==
  ASSUME NEW m, NEW d, Effects(m, d)
  PROVE  SpecialCharacteristicControl(d) =
           IF m \in {"M003", "M007", "M013", "M014", "M015", "M030"} THEN "CONTRADICTED"
           ELSE IF m \in {"M009", "M010"} THEN "UNVERIFIABLE" ELSE "PASS"
<1>1. CASE m \in {"M009", "M010"}
  BY <1>1, ScopeEffects, ControlReturns
<1>2. CASE m \in {"M007", "M030"}
  <2> DEFINE unanalysed == d.event.links \ RiskPairs(d)
  <2>1. /\ d.event.links = {Seam} /\ RiskPairs(d) = {<<"CLEAN", "SPATTER">>}
        /\ d.migrations = {} /\ ScopeComplete(d)
    BY <1>2, ScopeEffects
  <2>2. Seam \in unanalysed
    BY <2>1 DEF Seam
  <2>3. <<"CLEAN", "SPATTER">> \in Candidates(RiskPairs(d), Seam)
    BY <2>1 DEF Candidates, Seam
  <2>4. \E pair \in unanalysed : Candidates(RiskPairs(d), pair) # {}
    BY <2>2, <2>3
  <2> QED BY <1>2, <2>1, <2>4, ControlReturns
<1>3. CASE m \in {"M003", "M013", "M014", "M015"}
  <2>1. /\ d.event.links = {Seam} /\ RiskPairs(d) = {Seam}
        /\ d.migrations = {} /\ ScopeComplete(d)
    BY <1>3, ScopeEffects
  <2>2. SpecialPair(d, Seam)
    <3>1. d.docs["PFMEA"].risks = {Risk("WELD", TRUE)}
      BY <1>3 DEF Effects, AnalysisEffects
    <3> QED BY <3>1 DEF SpecialPair, Risk, Seam
  <2>3. ~Controls(d, Seam)
    BY <1>3, ScopeEffects DEF Controls, Effects, ControlEffects
  <2> QED BY <1>3, <2>1, <2>2, <2>3, ControlReturns
<1>4. CASE m \notin {"M003", "M007", "M009", "M010", "M013", "M014", "M015", "M030"}
  <2>1. /\ d.event.links = {Seam} /\ RiskPairs(d) = {Seam} /\ ScopeComplete(d)
        /\ ~LegacyUnbound(d, {"PFMEA", "CONTROL_PLAN"})
    BY <1>4, ScopeEffects
  <2>2. Controls(d, Seam)
    <3>1. d.docs["CONTROL_PLAN"].rows[Seam].controls = ControlFields
      BY <1>4 DEF Effects, ControlEffects
    <3>2. RowPairs(d, "CONTROL_PLAN") = {Seam}
      BY <1>4, ScopeEffects
    <3> QED BY <3>1, <3>2 DEF Controls
  <2>3. UnderControl(d)
    BY <2>1, <2>2 DEF UnderControl
  <2> QED BY <1>4, <2>3, ControlPasses
<1> QED BY <1>1, <1>2, <1>3, <1>4

\* R004.
LEMMA DatesFind ==
  ASSUME NEW m, NEW d, Effects(m, d)
  PROVE  RevisionAfterApproval(d) =
           IF m \in {"M001", "M019", "M020", "M029"} THEN "CONTRADICTED"
           ELSE IF m = "M017" THEN "UNVERIFIABLE" ELSE "PASS"
<1> DEFINE late(t) == d.docs[t].date < d.event.approved_at /\ ~ValidWaiver(d.docs[t], d.event)
<1>1. /\ d.docs["PROCESS_FLOW"].date = IF m \in {"M018", "M019"} THEN 2 ELSE 6
      /\ d.docs["PFMEA"].date = 6 /\ d.docs["CONTROL_PLAN"].date = 7
      /\ d.docs["SOP"].date = (IF m = "M001" THEN 1 ELSE IF m = "M020" THEN 3 ELSE 7)
      /\ d.docs["INSPECTION_RECORD"].date = 8
  BY DEF Effects, FlowEffects, AnalysisEffects, ControlEffects, InstructionEffects, RecordEffects
<1>2. /\ d.docs["PROCESS_FLOW"].waiver = IF m = "M018" THEN Waiver(2) ELSE None
      /\ d.docs["PFMEA"].waiver = None /\ d.docs["SOP"].waiver = None
  BY DEF Effects, FlowEffects, AnalysisEffects, InstructionEffects
<1>3. /\ d.event.approved_at = (IF m = "M017" THEN None ELSE IF m = "M029" THEN 10 ELSE 5)
      /\ d.event.revision = 2
  BY DEF Effects, EventEffects
<1>4. DocTypes = {"PROCESS_FLOW", "PFMEA", "CONTROL_PLAN", "SOP", "INSPECTION_RECORD"}
  BY DEF DocTypes, Roles
<1>5. 10 # None /\ 5 # None
  BY NoneIsNothing
<1>6. RevisionAfterApproval(d) =
        IF d.event.approved_at = None THEN "UNVERIFIABLE"
        ELSE IF \E t \in DocTypes : late(t) THEN "CONTRADICTED" ELSE "PASS"
  BY DEF RevisionAfterApproval
<1>7. CASE m = "M017"
  BY <1>3, <1>6, <1>7
<1>8. CASE m = "M029"
  <2>1. d.docs["PFMEA"].date < d.event.approved_at
    BY <1>1, <1>3, <1>8
  <2>2. late("PFMEA")
    BY <1>2, <2>1 DEF ValidWaiver
  <2>3. \E t \in DocTypes : late(t)
    BY <1>4, <2>2
  <2> HIDE DEF late
  <2> QED BY <1>3, <1>5, <1>6, <1>8, <2>3
<1>9. CASE m \in {"M001", "M020"}
  <2>1. d.docs["SOP"].date < d.event.approved_at
    BY <1>1, <1>3, <1>9
  <2>2. late("SOP")
    BY <1>2, <2>1 DEF ValidWaiver
  <2>3. \E t \in DocTypes : late(t)
    BY <1>4, <2>2
  <2> HIDE DEF late
  <2> QED BY <1>3, <1>5, <1>6, <1>9, <2>3
<1>10. CASE m = "M019"
  <2>1. d.docs["PROCESS_FLOW"].date < d.event.approved_at
    BY <1>1, <1>3, <1>10
  <2>2. late("PROCESS_FLOW")
    BY <1>2, <1>10, <2>1 DEF ValidWaiver
  <2>3. \E t \in DocTypes : late(t)
    BY <1>4, <2>2
  <2> HIDE DEF late
  <2> QED BY <1>3, <1>5, <1>6, <1>10, <2>3
<1>11. CASE m \notin {"M001", "M017", "M019", "M020", "M029"}
  <2>1. d.event.approved_at = 5
    BY <1>3, <1>11
  <2>2. \A t \in {"PFMEA", "CONTROL_PLAN", "SOP", "INSPECTION_RECORD"} : ~late(t)
    BY <1>1, <1>11, <2>1
  <2>3. ~late("PROCESS_FLOW")
    <3>1. CASE m = "M018"
      <4>1. /\ Waiver(2).revision = 2 /\ Waiver(2).roles = Approvers
            /\ Waiver(2).from = 2 /\ Waiver(2).until = 9
        BY DEF Waiver
      <4>2. Waiver(2) # None
        <5>1. Waiver(2) \in Waivers
          BY DEF Waiver, Waivers
        <5> QED BY <5>1, NoneIsNothing
      <4> QED BY <1>2, <1>3, <2>1, <3>1, <4>1, <4>2 DEF ValidWaiver
    <3>2. CASE m # "M018"
      BY <1>1, <1>11, <2>1, <3>2
    <3> QED BY <3>1, <3>2
  <2>4. ~ \E t \in DocTypes : late(t)
    BY <1>4, <2>2, <2>3
  <2> HIDE DEF late
  <2> QED BY <1>5, <1>6, <1>11, <2>1, <2>4
<1> QED BY <1>7, <1>8, <1>9, <1>10, <1>11

\* R005, for the context of the baseline.
LEMMA ReferencesFind ==
  ASSUME NEW m, NEW d, Effects(m, d)
  PROVE  InspectionCurrentReferences(d, PackContext) =
           IF m \in {"M001", "M005", "M022"} THEN "CONTRADICTED"
           ELSE IF m = "M021" THEN "UNVERIFIABLE" ELSE "PASS"
<1> DEFINE references == d.docs["INSPECTION_RECORD"].references
           current == /\ PackContext.inspection = Identity(d.docs["INSPECTION_RECORD"])
                      /\ DOMAIN references = Roles
                      /\ \A role \in Roles : /\ references[role] = PackContext.claims[role]
                                             /\ references[role] = Identity(d.docs[role])
<1>1. PackContext # None
  <2>1. PackContext \in Contexts
    BY DEF PackContext, Contexts, CurrentIdentity, Identities
  <2> QED BY <2>1, NoneIsNothing
<1>2. InspectionCurrentReferences(d, PackContext) =
        IF references = None \/ ~(Roles \subseteq DOMAIN references) THEN "UNVERIFIABLE"
        ELSE IF current THEN "PASS" ELSE "CONTRADICTED"
  BY <1>1 DEF InspectionCurrentReferences, InspectionReferences
<1>3. /\ m = "M021" => references = None
      /\ m # "M021" => references \in References
      /\ m = "M022" => DOMAIN references = Roles \cup {"WORK_CARD"}
      /\ m = "M005" => DOMAIN references = Roles /\ references["SOP"].revision = 1
      /\ m \notin {"M005", "M021", "M022"} => references = [role \in Roles |-> CurrentIdentity]
  BY DEF Effects, RecordEffects
<1>4. /\ PackContext.inspection = CurrentIdentity
      /\ \A role \in Roles : PackContext.claims[role] = CurrentIdentity
      /\ CurrentIdentity.revision = 2
  BY DEF PackContext, CurrentIdentity
<1>5. /\ Identity(d.docs["INSPECTION_RECORD"]) = CurrentIdentity
      /\ Identity(d.docs["CONTROL_PLAN"]) = CurrentIdentity
      /\ m # "M001" => Identity(d.docs["SOP"]) = CurrentIdentity
      /\ m = "M001" => Identity(d.docs["SOP"]).revision = 1
  <2>1. Identity(d.docs["INSPECTION_RECORD"]) = CurrentIdentity
    BY DEF Effects, RecordEffects, Identity, CurrentIdentity
  <2>2. Identity(d.docs["CONTROL_PLAN"]) = CurrentIdentity
    BY DEF Effects, ControlEffects, Identity, CurrentIdentity
  <2>3. /\ m # "M001" => Identity(d.docs["SOP"]) = CurrentIdentity
        /\ m = "M001" => Identity(d.docs["SOP"]).revision = 1
    BY DEF Effects, InstructionEffects, Identity, CurrentIdentity
  <2> QED BY <2>1, <2>2, <2>3
<1>6. "SOP" \in Roles /\ "WORK_CARD" \notin Roles /\ Roles = {"SOP", "CONTROL_PLAN"}
  BY DEF Roles
<1>7. m # "M021" => references # None /\ Roles \subseteq DOMAIN references
  BY <1>3, NoneIsNothing
<1> HIDE DEF references
<1>8. m = "M022" => ~current
  BY <1>3, <1>6
<1>9. m = "M005" => ~current
  BY <1>3, <1>4, <1>6
<1>10. m = "M001" => ~current
  <2> SUFFICES ASSUME m = "M001", current
               PROVE  FALSE
    OBVIOUS
  <2>1. references["SOP"] = CurrentIdentity
    BY <1>3, <1>6
  <2>2. references["SOP"] = Identity(d.docs["SOP"])
    BY <1>6
  <2> QED BY <1>4, <1>5, <2>1, <2>2
<1>11. m \notin {"M001", "M005", "M021", "M022"} => current
  BY <1>3, <1>4, <1>5, <1>6
<1> HIDE DEF current
<1> QED BY <1>2, <1>3, <1>7, <1>8, <1>9, <1>10, <1>11

\* R006, for a good and for a failed report on the case as it is, and for none.
LEMMA EvidenceFinds ==
  ASSUME NEW d \in Cases, d.event.plan = Plan
  PROVE  /\ ValidationEvidence(d, None) = "UNVERIFIABLE"
         /\ ValidationEvidence(d, Reported(d, "PASS", 5)) = "PASS"
         /\ ValidationEvidence(d, Reported(d, "FAIL", 5)) = "CONTRADICTED"
<1>1. ValidationEvidence(d, None) = "UNVERIFIABLE"
  BY DEF ValidationEvidence
<1>2. ASSUME NEW result \in {"PASS", "FAIL"}
      PROVE  ValidationEvidence(d, Reported(d, result, 5)) =
               IF result = "PASS" THEN "PASS" ELSE "CONTRADICTED"
  <2> DEFINE bundle == Reported(d, result, 5)
  <2>1. /\ DOMAIN Plan = {"VAL1"} /\ Plan["VAL1"].terms = "CHANGE_EFFECTIVE"
        /\ Plan["VAL1"].from = 1 /\ Plan["VAL1"].until = 40
    BY DEF Plan, Evidence
  <2>2. /\ DOMAIN bundle = {"VAL1"}
        /\ bundle["VAL1"] = [result |-> result, revision |-> d.event.revision, scope |-> Scope(d),
                             subject |-> Subject(d), terms |-> "CHANGE_EFFECTIVE",
                             performed |-> 5, issued |-> 5]
    BY <2>1 DEF Reported
  <2>3. bundle # None
    <3>1. Scope(d) \in Scopes /\ Subject(d) \in CasesOf(EventsOf({{}}, {{}})) /\ d.event.revision \in Nat
      <4>1. d.event \in Events
        BY DEF Cases, CasesOf
      <4>2. Scope(d) \in Scopes /\ d.event.revision \in Nat
        BY <4>1 DEF Scope, Scopes, Events, EventsOf
      <4>3. [d.event EXCEPT !.approvals = {}, !.claims = {}] \in EventsOf({{}}, {{}})
        BY <4>1 DEF Events, EventsOf
      <4> DEFINE bare == [d.event EXCEPT !.approvals = {}, !.claims = {}]
      <4>4. Subject(d) = [d EXCEPT !.event = bare]
        BY DEF Subject, Cases, CasesOf
      <4> HIDE DEF bare
      <4>5. [d EXCEPT !.event = bare] \in CasesOf(EventsOf({{}}, {{}}))
        BY <4>3 DEF Cases, CasesOf, bare
      <4> QED BY <4>2, <4>4, <4>5
    <3>2. bundle \in Bundles
      <4>1. bundle = [id \in {"VAL1"} |-> bundle["VAL1"]]
        BY <2>1 DEF Reported
      <4> HIDE DEF bundle
      <4>2. bundle["VAL1"] \in
              [result : {"PASS", "FAIL"}, revision : Nat, scope : Scopes,
               subject : CasesOf(EventsOf({{}}, {{}})), terms : {"CHANGE_EFFECTIVE"},
               performed : Nat, issued : Nat]
        BY <2>2, <3>1
      <4> QED BY <4>1, <4>2 DEF Bundles
    <3> QED BY <3>2, NoneIsNothing
  <2> HIDE DEF bundle
  <2>4. ReportMatches(d, bundle["VAL1"], Plan["VAL1"]) <=> result = "PASS"
    BY <2>1, <2>2 DEF ReportMatches
  <2>5. ValidationEvidence(d, bundle) = IF result = "PASS" THEN "PASS" ELSE "CONTRADICTED"
    BY <2>1, <2>2, <2>3, <2>4, PlanIsNotNone DEF ValidationEvidence
  <2> QED BY <2>5 DEF bundle
<1> QED BY <1>1, <1>2

\* R007.
LEMMA ApprovalFinds ==
  ASSUME NEW m, NEW d, Effects(m, d)
  PROVE  HighRiskApproval(d) =
           IF m \in {"M004", "M027", "M028", "M030"} THEN "CONTRADICTED" ELSE "PASS"
<1>1. /\ d.event.revision = 2
      /\ d.event.risk_level = IF m = "M026" THEN "MEDIUM" ELSE "HIGH"
      /\ d.event.approvals = IF m = "M004" THEN {Signed("PROCESS_OWNER", "APPROVED", 2)}
                             ELSE IF m \in {"M026", "M027", "M030"} THEN {}
                             ELSE IF m = "M028" THEN Signatures(1) ELSE Signatures(2)
  BY DEF Effects, EventEffects
<1>2. HighRiskApproval(d) \in {"PASS", "CONTRADICTED"}
  BY DEF HighRiskApproval
<1>3. CASE m \in {"M004", "M027", "M028", "M030"}
  <2>1. "QUALITY_MANAGER" \in Approvers
    BY DEF Approvers
  <2>2. ~ \E a \in d.event.approvals : a.role = "QUALITY_MANAGER" /\ a.revision = 2
    BY <1>1, <1>3 DEF Signatures, Signed
  <2>3. HighRiskApproval(d) # "PASS"
    BY <1>1, <1>3, <2>1, <2>2, ApprovalPasses
  <2> QED BY <1>2, <1>3, <2>3
<1>4. CASE m \notin {"M004", "M027", "M028", "M030"}
  <2>1. CASE m = "M026"
    BY <1>1, <1>4, <2>1, ApprovalPasses
  <2>2. CASE m # "M026"
    <3>1. d.event.approvals = Signatures(2)
      BY <1>1, <1>4, <2>2
    <3>2. \A role \in Approvers : Signed(role, "APPROVED", 2) \in d.event.approvals
      BY <3>1 DEF Signatures
    <3>3. \A role \in Approvers : \E a \in d.event.approvals :
            a.role = role /\ a.revision = d.event.revision /\ a.decision = "APPROVED"
      <4> SUFFICES ASSUME NEW role \in Approvers
                   PROVE  \E a \in d.event.approvals :
                            a.role = role /\ a.revision = d.event.revision /\ a.decision = "APPROVED"
        OBVIOUS
      <4>1. /\ Signed(role, "APPROVED", 2).role = role
            /\ Signed(role, "APPROVED", 2).revision = 2
            /\ Signed(role, "APPROVED", 2).decision = "APPROVED"
        BY DEF Signed
      <4> QED BY <1>1, <3>2, <4>1
    <3>4. ~ \E a \in d.event.approvals :
            a.revision = d.event.revision /\ a.decision # "APPROVED"
      BY <3>1 DEF Signatures, Signed
    <3> QED BY <1>4, <3>3, <3>4, ApprovalPasses
  <2> QED BY <2>1, <2>2
<1> QED BY <1>3, <1>4

\* Each of the thirty mutations of the baseline has exactly the findings of the table
\* of docs/BENCHMARK.md, in a validation of that very case (evaluate_benchmark).
THEOREM BenchmarkHolds == Spec => []BenchmarkTruth
<1>1. ASSUME IInv, BenchInv PROVE BenchmarkTruth
  <2> SUFFICES ASSUME NEW m \in Benchmark, applied = {m}, origin = Baseline, resolved = 0
               PROVE  Findings(case, context, BenchmarkReports(m)) = Expected(m)
    BY DEF BenchmarkTruth
  <2> DEFINE found == Findings(case, context, BenchmarkReports(m))
  <2>1. Effects(m, case)
    <3>1. Edited(m, Baseline, case)
      BY <1>1 DEF BenchInv
    <3>2. ~Revised(m, Baseline, case)
      BY DEF Revised, Benchmark
    <3> QED BY <3>1, <3>2, MutationEffects DEF Edited
  <2>2. context = PackContext /\ case \in Cases
    BY <1>1 DEF IInv, ContextInv
  <2>3. case.event.plan = Plan
    BY <2>1 DEF Effects, EventEffects
  <2>4. found.R001 = Expected(m).R001
    BY <2>1, CoverageFinds DEF Findings, Expected, Contradicts, Unverifies, Rules
  <2>5. found.R002 = Expected(m).R002
    BY <2>1, ConsistencyFinds DEF Findings, Expected, Contradicts, Unverifies, Rules
  <2>6. found.R003 = Expected(m).R003
    BY <2>1, ControlFinds DEF Findings, Expected, Contradicts, Unverifies, Rules
  <2>7. found.R004 = Expected(m).R004
    BY <2>1, DatesFind DEF Findings, Expected, Contradicts, Unverifies, Rules
  <2>8. found.R005 = Expected(m).R005
    BY <2>1, <2>2, ReferencesFind DEF Findings, Expected, Contradicts, Unverifies, Rules
  <2>9. found.R006 = Expected(m).R006
    <3>1. ValidationEvidence(case, BenchmarkReports(m)) =
            IF m \in {"M002", "M030"} THEN "UNVERIFIABLE"
            ELSE IF m \in {"M023", "M024", "M025"} THEN "CONTRADICTED" ELSE "PASS"
      BY <2>2, <2>3, EvidenceFinds DEF BenchmarkReports
    <3> QED BY <3>1 DEF Findings, Expected, Contradicts, Unverifies, Rules
  <2>10. found.R007 = Expected(m).R007
    BY <2>1, ApprovalFinds DEF Findings, Expected, Contradicts, Unverifies, Rules
  <2>11. DOMAIN found = Rules /\ found = [r \in Rules |-> found[r]]
    BY DEF Findings, Rules
  <2>12. DOMAIN Expected(m) = Rules /\ Expected(m) = [r \in Rules |-> Expected(m)[r]]
    BY DEF Expected
  <2> HIDE DEF found
  <2>13. \A r \in Rules : found[r] = Expected(m)[r]
    BY <2>4, <2>5, <2>6, <2>7, <2>8, <2>9, <2>10 DEF Rules
  <2>14. found = Expected(m)
    BY <2>11, <2>12, <2>13
  <2> QED BY <2>14 DEF found
<1> QED BY <1>1, Invariance, OneEdit, PTL
=============================================================================
