------------------------- MODULE SourceStoreProofs -------------------------
(***************************************************************************)
(* Proofs of SourceStore, for any contexts, replays, connections and       *)
(* numbers of calls: a nonce stands for one subject, a store verifies      *)
(* unless it holds one of two things, and the lane keeps the promise of    *)
(* ReplayLedger.                                                           *)
(*                                                                         *)
(* A verification reads stored rows; what keeps two replays apart are the  *)
(* keys of the transactions.  The invariant therefore follows the keys:    *)
(* every native step that is stored, as a lineage or as an admission, has  *)
(* its subject, and no two subjects have the same nonce.  For the verdict  *)
(* it follows the rows back to the runs they are stored for.               *)
(*                                                                         *)
(* The case a context leads to is defined by recursion on its path.  What  *)
(* has to be known of it (that it is a case, and what one more derivation  *)
(* makes of it) is proved from the least number of derivations for which   *)
(* it would be false.                                                      *)
(***************************************************************************)
EXTENDS SourceStore, SequenceTheorems, WellFoundedInduction, TLAPS

\* approval_subjects.execution_nonce.
NoncesAreUnique(d) ==
  \A s, t \in d.subjects : s.nonce = t.nonce => s = t

\* The native step a lineage row ends with.
StepOf(l) == [before |-> Parent(l), op |-> Last(l.path)]

StepsHaveSubjects(d) ==
  /\ \A l \in d.lineages : IsNative(l) => SourceSubject(StepOf(l)) \in d.subjects
  /\ \A a \in d.admissions : SourceSubject(a) \in d.subjects

SameKey(a, b) ==
  /\ a.op.resolution = b.op.resolution
  /\ a.op.artifacts = b.op.artifacts
  /\ CaseOf(a.before) = CaseOf(b.before)

KeysAreUnique(d) == \A a, b \in d.admissions : SameKey(a, b) => a = b

Keyed(d) == NoncesAreUnique(d) /\ StepsHaveSubjects(d) /\ KeysAreUnique(d)

\* The shape of the tables, whatever their rows.
IsDatabase(d) ==
  /\ d \in [sources : {d.sources}, lineages : {d.lineages}, cases : {d.cases},
            runs : {d.runs}, links : {d.links}, subjects : {d.subjects},
            baselines : {d.baselines}, admissions : {d.admissions}]
  /\ d.admissions \subseteq AllReplays

\* Every row is there on account of a run, every run is linked or admitted, and no
\* two admissions lead to one case.
Whole(d) ==
  /\ SourceCoverage(d)
  /\ ApprovalCoverage(d)
  /\ d.cases = {CaseOf(r.context) : r \in d.runs}
  /\ \A r \in d.links : r \in d.runs /\ r.phase = "SOURCE"
  /\ \A r \in d.runs : r \in d.links \/ LinkedTo(d, r) # {}
  /\ \A a \in d.admissions : SourceBefore(a) \in d.runs /\ SourceAfter(a) \in d.runs
  /\ \A a, b \in d.admissions : CaseOf(AfterOf(a)) = CaseOf(AfterOf(b)) => a = b

InCall(c) ==
  /\ pc[c] # "idle" => call[c] \in Call
  /\ pc[c] = "return" /\ Op(c) # "save_source_run" => ReplayOf(c) \in db.admissions

IInv ==
  /\ TypeOK
  /\ Whole(db)
  /\ Keyed(db)
  /\ acked \subseteq db.admissions
  /\ \A c \in Conns : InCall(c)

USE ArgumentsAssumption

(***************************************************************************)
(* Calls and their replays                                                 *)
(***************************************************************************)

\* A call carries an argument of its kind.
LEMMA CallShapes ==
  ASSUME NEW k \in Call
  PROVE  /\ k.op = "save_source_run" => k.arg \in SavableRuns
         /\ k.op = "save_source_replay" => k.arg \in SavableReplays
         /\ k.op = "continue_run" => k.arg \in Continuations
         /\ k.op \in {"save_source_run", "save_source_replay", "continue_run"}
BY DEF Call

\* Replays handed in, and those made of a continuation, are admissions.
LEMMA ReplayTypes ==
  ASSUME NEW a \in AllReplays
  PROVE  a \in Admission /\ a.before \in Context /\ a.op \in NativeOp
<1>1. CASE a \in SavableReplays
  BY <1>1 DEF Admission
<1>2. CASE \E k \in Continuations : a = Continued(k)
  <2>1. PICK k \in Continuations : a = Continued(k)
    BY <1>2
  <2>2. k.prior \in SourceRun /\ k.op \in NativeOp
    BY <2>1
  <2>3. k.prior.context \in Context
    BY <2>2 DEF SourceRun
  <2> QED BY <2>1, <2>2, <2>3 DEF Continued, Admission
<1> QED BY <1>1, <1>2 DEF AllReplays

\* A context with another path.
LEMMA PathReplaced ==
  ASSUME NEW x \in Context, NEW q
  PROVE  [x EXCEPT !.path = q] = [root |-> x.root, path |-> q]
BY DEF Context

\* The context an admission leads to is a row, which ends in the admission's
\* own step and is a child of the context it was derived from.
LEMMA OwnRow ==
  ASSUME NEW a \in AllReplays
  PROVE  LET l == AfterOf(a) IN
         /\ l \in Lineages(l) /\ IsNative(l)
         /\ Parent(l) = a.before /\ Last(l.path) = a.op
<1> DEFINE p == a.before.path
           q == Append(p, a.op)
           after == [root |-> a.before.root, path |-> q]
<1>1. a.before \in Context /\ a.op \in NativeOp /\ a.op \notin Mutations
      /\ a = [before |-> a.before, op |-> a.op]
  BY ReplayTypes DEF Admission
<1>2. p \in Seq(Mutations \cup NativeOp) /\ a.before = [root |-> a.before.root, path |-> p]
  BY <1>1 DEF Context
<1>3. AfterOf(a) = after
  BY <1>1, PathReplaced DEF AfterOf, Derived
<1>4. /\ q \in Seq(Mutations \cup NativeOp) /\ Len(q) = Len(p) + 1
      /\ q[Len(q)] = a.op
      /\ \A i \in 1..Len(p) : q[i] = p[i]
  BY <1>1, <1>2, AppendProperties
<1>5. Len(p) \in Nat /\ q # <<>>
  <2>1. Len(p) \in Nat
    BY <1>2, LenProperties
  <2>2. Len(<<>>) = 0
    OBVIOUS
  <2>3. Len(q) # 0
    BY <1>4, <2>1
  <2> QED BY <2>1, <2>2, <2>3
<1>6. SubSeq(q, 1, Len(q)) = q
  BY <1>4, SubSeqFull
<1>7. q \in Prefixes(q)
  <2>1. Len(q) \in 0..Len(q)
    BY <1>4, <1>5
  <2> QED BY <1>6, <2>1 DEF Prefixes
<1>8. Front(q) = p
  <2>1. Front(q) = SubSeq(q, 1, Len(p))
    BY <1>4, <1>5 DEF Front
  <2>2. /\ SubSeq(q, 1, Len(p)) \in Seq(Mutations \cup NativeOp)
        /\ Len(SubSeq(q, 1, Len(p))) = Len(p)
        /\ \A i \in 1..Len(p) : SubSeq(q, 1, Len(p))[i] = q[i]
    BY <1>4, <1>5
  <2>3. SubSeq(q, 1, Len(p)) = p
    BY <1>2, <1>4, <2>2, SeqEqual
  <2> QED BY <2>1, <2>3
<1>9. Last(q) = a.op
  BY <1>4 DEF Last
<1>10. after.path = q /\ after \in Context /\ [after EXCEPT !.path = q] = after
  <2>1. after.path = q /\ after.root = a.before.root
    OBVIOUS
  <2>2. after \in Context
    <3>1. a.before.root \in Roots
      BY <1>1 DEF Context
    <3> QED BY <1>4, <3>1 DEF Context
  <2> QED BY <2>1, <2>2, PathReplaced
<1>11. after \in Lineages(after)
  BY <1>5, <1>7, <1>10 DEF Lineages
<1>12. IsNative(after) /\ Parent(after) = a.before
  <2>1. [after EXCEPT !.path = p] = [root |-> a.before.root, path |-> p]
    BY <1>10, PathReplaced
  <2> QED BY <1>1, <1>2, <1>8, <1>9, <1>10, <2>1 DEF IsNative, Parent
<1> QED BY <1>3, <1>9, <1>10, <1>11, <1>12

\* An admission is itself a native step of the context it leads to.
LEMMA OwnStep ==
  ASSUME NEW a \in AllReplays
  PROVE  SourceSubject(a) \in SubjectsOf(AfterOf(a))
<1> DEFINE l == AfterOf(a)
<1>1. l \in Lineages(l) /\ IsNative(l) /\ Parent(l) = a.before /\ Last(l.path) = a.op
  BY OwnRow
<1>2. a = [before |-> a.before, op |-> a.op]
  BY ReplayTypes DEF Admission
<1> QED BY <1>1, <1>2 DEF SubjectsOf, NativeSteps

\* A lineage row of a context that ends in a native step has its subject.
LEMMA LineageSteps ==
  ASSUME NEW ctx, NEW l \in Lineages(ctx), IsNative(l)
  PROVE  SourceSubject(StepOf(l)) \in SubjectsOf(ctx)
BY DEF StepOf, SubjectsOf, NativeSteps

(***************************************************************************)
(* The case of a context                                                   *)
(***************************************************************************)

\* f has the cases after the first 0..n derivations of a path.
Along(root, path, f, n) ==
  f = [i \in 0..n |-> IF i = 0 THEN Original(root) ELSE Applying(f[i - 1], path[i])]

\* Proofs by induction on numbers look at the least one that has no such case.
LEMMA LeastNumber ==
  ASSUME NEW T \in SUBSET Nat, T # {}
  PROVE  \E n \in T : \A m \in T : n <= m
<1>1. PICK n \in T : \A m \in T : ~(<<m, n>> \in OpToRel(<, Nat))
  BY NatLessThanWellFounded, WFMin
<1>2. \A m \in T : ~(m < n)
  BY <1>1 DEF OpToRel
<1> QED BY <1>2

\* The first case is the root as it was registered.
LEMMA AlongStart ==
  ASSUME NEW root, NEW path, NEW n \in Nat, NEW f, Along(root, path, f, n)
  PROVE  f[0] = Original(root)
BY DEF Along

\* Each later one comes from the case before it.
LEMMA AlongStep ==
  ASSUME NEW root, NEW path, NEW n \in Nat, NEW f, Along(root, path, f, n), NEW i \in 1..n
  PROVE  f[i] = Applying(f[i - 1], path[i])
BY DEF Along

\* Every path has its cases.
LEMMA AlongExists ==
  ASSUME NEW root, NEW path, NEW n \in Nat
  PROVE  \E f : Along(root, path, f, n)
<1> DEFINE T == {m \in Nat : ~ \E f : Along(root, path, f, m)}
<1> SUFFICES ASSUME T # {} PROVE FALSE
  OBVIOUS
<1>1. PICK m \in T : \A k \in T : m <= k
  BY LeastNumber
<1>2. m \in Nat /\ ~ \E f : Along(root, path, f, m)
  BY <1>1
<1>3. CASE m = 0
  <2> DEFINE f == [i \in 0..0 |-> Original(root)]
  <2>1. Along(root, path, f, 0)
    BY DEF Along
  <2> QED BY <1>2, <1>3, <2>1
<1>4. CASE m # 0
  <2>1. m - 1 \in Nat /\ m - 1 \notin T
    BY <1>1, <1>2, <1>4
  <2>2. PICK f : Along(root, path, f, m - 1)
    BY <2>1
  <2>3. /\ f[0] = Original(root)
        /\ \A i \in 1..(m - 1) : f[i] = Applying(f[i - 1], path[i])
    BY <2>1, <2>2, AlongStart, AlongStep
  <2> DEFINE last == Applying(f[m - 1], path[m])
             g == [i \in 0..m |-> IF i < m THEN f[i] ELSE last]
  <2>4. \A i \in 0..m : g[i] = IF i = 0 THEN Original(root) ELSE Applying(g[i - 1], path[i])
    <3> SUFFICES ASSUME NEW i \in 0..m
                 PROVE  g[i] = IF i = 0 THEN Original(root) ELSE Applying(g[i - 1], path[i])
      OBVIOUS
    <3> HIDE DEF last
    <3>1. CASE i = 0
      BY <1>2, <1>4, <2>3, <3>1
    <3>2. CASE i # 0 /\ i < m
      <4>1. i \in 1..(m - 1) /\ i - 1 \in 0..m /\ i - 1 < m
        BY <1>2, <3>2
      <4>2. g[i] = f[i] /\ g[i - 1] = f[i - 1]
        BY <3>2, <4>1
      <4> HIDE DEF g
      <4> QED BY <2>3, <3>2, <4>1, <4>2
    <3>3. CASE i # 0 /\ i = m
      <4>1. i - 1 \in 0..m /\ i - 1 < m
        BY <1>2, <3>3
      <4>2. g[i] = last /\ g[i - 1] = f[i - 1]
        BY <3>3, <4>1
      <4> HIDE DEF g
      <4> QED BY <3>3, <4>2 DEF last
    <3> QED BY <1>2, <3>1, <3>2, <3>3
  <2>5. g = [i \in 0..m |-> g[i]]
    OBVIOUS
  <2> HIDE DEF g
  <2>6. Along(root, path, g, m)
    BY <2>4, <2>5 DEF Along
  <2> QED BY <1>2, <2>6
<1> QED BY <1>3, <1>4

\* Paths that begin alike lead through the same cases.
LEMMA AlongAgrees ==
  ASSUME NEW root, NEW p, NEW q, NEW n \in Nat, NEW m \in Nat, n <= m,
         \A i \in 1..n : p[i] = q[i],
         NEW f, Along(root, p, f, n), NEW g, Along(root, q, g, m)
  PROVE  f[n] = g[n]
<1> DEFINE T == {i \in Nat : i \in 0..n /\ f[i] # g[i]}
<1> SUFFICES ASSUME T # {} PROVE FALSE
  OBVIOUS
<1>1. PICK i \in T : \A k \in T : i <= k
  BY LeastNumber
<1>2. i \in 0..n /\ f[i] # g[i]
  BY <1>1
<1>3. f[0] = g[0]
  <2>1. f[0] = Original(root)
    BY AlongStart
  <2>2. g[0] = Original(root)
    BY AlongStart
  <2> QED BY <2>1, <2>2
<1>4. i # 0
  BY <1>2, <1>3
<1>5. i - 1 \in Nat /\ i - 1 \in 0..n /\ i \in 1..n /\ i \in 1..m
  BY <1>2, <1>4
<1>6. f[i - 1] = g[i - 1]
  BY <1>1, <1>5
<1>7. f[i] = Applying(f[i - 1], p[i])
  BY <1>5, AlongStep
<1>8. g[i] = Applying(g[i - 1], q[i])
  BY <1>5, AlongStep
<1> QED BY <1>2, <1>5, <1>6, <1>7, <1>8

\* CaseOf is the last of the cases along the path.
LEMMA CaseAlong ==
  ASSUME NEW ctx \in Context
  PROVE  \E f : Along(ctx.root, ctx.path, f, Len(ctx.path)) /\ CaseOf(ctx) = f[Len(ctx.path)]
<1>1. Len(ctx.path) \in Nat
  BY LenProperties DEF Context
<1>2. PICK f : Along(ctx.root, ctx.path, f, Len(ctx.path))
  BY <1>1, AlongExists
<1> QED BY <1>2 DEF CaseOf, Along

\* What holds of the case of every context: it is a case, and if a resolution was
\* applied to it, some document came from an artifact set.
IsDerivedCase(c) == c \in Case /\ (c.applied # None => ArtifactSetsOf(c) # {})

\* No resolution was applied to a root.
LEMMA OriginalCase ==
  ASSUME NEW root \in Roots
  PROVE  IsDerivedCase(Original(root))
BY DEF IsDerivedCase, Original, Case

\* A resolution is recorded, and replaces at least one document.
LEMMA ResolvedCaseIs ==
  ASSUME NEW c \in Case, NEW r \in Resolutions, NEW a \in ArtifactSets
  PROVE  IsDerivedCase(Resolved(c, r, a)) /\ Resolved(c, r, a).applied = r
<1> DEFINE docs == [d \in Docs |-> IF d \in DOMAIN Supersedes[a] THEN a ELSE c.docs[d]]
           e == [root |-> c.root, applied |-> r, docs |-> docs]
<1>1. docs \in [Docs -> ArtifactSets \cup {None}]
  BY DEF Case
<1>2. PICK d \in Docs : d \in DOMAIN Supersedes[a]
  BY SupersedesAssumption
<1>3. docs[d] = a /\ a # None
  BY <1>2, NoneAssumption
<1>4. c.root \in Roots
  BY DEF Case
<1> HIDE DEF docs
<1>5. e \in Case /\ e.docs = docs /\ e.applied = r
  BY <1>1, <1>4 DEF Case
<1>6. a \in ArtifactSetsOf(e)
  BY <1>2, <1>3, <1>5 DEF ArtifactSetsOf
<1>7. e = Resolved(c, r, a)
  BY DEF Resolved, docs
<1> HIDE DEF e
<1> QED BY <1>5, <1>6, <1>7 DEF IsDerivedCase

\* Mutations keep both, resolutions bring both.
LEMMA ApplyingKeeps ==
  ASSUME NEW c, IsDerivedCase(c), NEW o \in Mutations \cup NativeOp
  PROVE  IsDerivedCase(Applying(c, o))
<1>1. c \in Case
  BY DEF IsDerivedCase
<1>2. CASE o \in Mutations
  <2> DEFINE e == [c EXCEPT !.root = Effect[o]]
  <2>1. Effect[o] \in Roots
    BY <1>2, ArgumentsAssumption
  <2>2. e \in Case /\ e.docs = c.docs /\ e.applied = c.applied
    BY <1>1, <2>1 DEF Case
  <2>3. e = Applying(c, o)
    BY <1>2 DEF Applying
  <2> HIDE DEF e
  <2> QED BY <2>2, <2>3 DEF IsDerivedCase, ArtifactSetsOf
<1>3. CASE o \notin Mutations
  <2>1. o.resolution \in Resolutions /\ o.artifacts \in ArtifactSets
    BY <1>3 DEF NativeOp
  <2>2. Applying(c, o) = Resolved(c, o.resolution, o.artifacts)
    BY <1>3 DEF Applying
  <2> QED BY <1>1, <2>1, <2>2, ResolvedCaseIs
<1> QED BY <1>2, <1>3

\* CaseOf leads every context to a case.
LEMMA CaseOfContext ==
  ASSUME NEW ctx \in Context
  PROVE  IsDerivedCase(CaseOf(ctx))
<1>1. ctx.root \in Roots /\ ctx.path \in Seq(Mutations \cup NativeOp)
  BY DEF Context
<1>2. Len(ctx.path) \in Nat /\ \A i \in 1..Len(ctx.path) : ctx.path[i] \in Mutations \cup NativeOp
  BY <1>1, LenProperties, ElementOfSeq
<1>3. PICK f : Along(ctx.root, ctx.path, f, Len(ctx.path)) /\ CaseOf(ctx) = f[Len(ctx.path)]
  BY CaseAlong
<1> DEFINE n == Len(ctx.path)
           T == {i \in Nat : i \in 0..n /\ ~IsDerivedCase(f[i])}
<1>4. f[0] = Original(ctx.root)
  BY <1>2, <1>3, AlongStart
<1>5. ASSUME NEW i \in 1..n
      PROVE  f[i] = Applying(f[i - 1], ctx.path[i])
  BY <1>2, <1>3, AlongStep
<1>6. T = {}
  <2> SUFFICES ASSUME T # {} PROVE FALSE
    OBVIOUS
  <2>1. PICK i \in T : \A k \in T : i <= k
    BY LeastNumber
  <2>2. i \in 0..n /\ ~IsDerivedCase(f[i])
    BY <2>1
  <2>3. i # 0
    BY <1>1, <1>4, <2>2, OriginalCase
  <2>4. i - 1 \in Nat /\ i - 1 \in 0..n /\ i \in 1..n
    BY <1>2, <2>2, <2>3
  <2>5. IsDerivedCase(f[i - 1])
    BY <2>1, <2>4
  <2>6. IsDerivedCase(Applying(f[i - 1], ctx.path[i]))
    BY <1>2, <2>4, <2>5, ApplyingKeeps
  <2> QED BY <1>5, <2>2, <2>4, <2>6
<1>7. n \notin T
  BY <1>6
<1> QED BY <1>2, <1>3, <1>7

\* One more derivation is applied to the case of the context before it.
LEMMA CaseOfDerived ==
  ASSUME NEW ctx \in Context, NEW o \in Mutations \cup NativeOp
  PROVE  /\ Derived(ctx, o) \in Context
         /\ Derived(ctx, o) = [root |-> ctx.root, path |-> Append(ctx.path, o)]
         /\ CaseOf(Derived(ctx, o)) = Applying(CaseOf(ctx), o)
<1> DEFINE p == ctx.path
           q == Append(p, o)
           after == [root |-> ctx.root, path |-> q]
           n == Len(p)
<1>1. ctx.root \in Roots /\ p \in Seq(Mutations \cup NativeOp)
  BY DEF Context
<1>2. ctx = [root |-> ctx.root, path |-> p]
  BY DEF Context
<1>3. /\ q \in Seq(Mutations \cup NativeOp) /\ Len(q) = n + 1
      /\ q[n + 1] = o /\ \A i \in 1..n : q[i] = p[i]
  BY <1>1, AppendProperties
<1>4. n \in Nat
  BY <1>1, LenProperties
<1>5. Derived(ctx, o) = after
  BY PathReplaced DEF Derived
<1>6. after \in Context /\ after.path = q /\ after.root = ctx.root
  BY <1>1, <1>3 DEF Context
<1> HIDE DEF after, q
<1>7. PICK f : Along(ctx.root, p, f, n) /\ CaseOf(ctx) = f[n]
  BY CaseAlong
<1>8. PICK g : Along(after.root, after.path, g, Len(after.path))
               /\ CaseOf(after) = g[Len(after.path)]
  BY <1>6, CaseAlong
<1>9. Along(ctx.root, q, g, n + 1) /\ CaseOf(after) = g[n + 1]
  BY <1>3, <1>6, <1>8
<1> HIDE DEF p, n
<1>10. f[n] = g[n]
  <2>1. n + 1 \in Nat /\ n <= n + 1
    BY <1>4
  <2>2. \A i \in 1..n : p[i] = q[i]
    BY <1>3
  <2> QED BY <1>4, <1>7, <1>9, <2>1, <2>2, AlongAgrees
<1>11. g[n + 1] = Applying(g[n], q[n + 1])
  <2>1. PICK k \in Nat : k = n + 1
    BY <1>4
  <2>2. k \in 1..k
    BY <1>4, <2>1
  <2>3. Along(ctx.root, q, g, k)
    BY <1>9, <2>1
  <2>4. g[k] = Applying(g[k - 1], q[k])
    BY <2>2, <2>3, AlongStep
  <2>5. k - 1 = n
    BY <1>4, <2>1
  <2> QED BY <2>1, <2>4, <2>5
<1> QED BY <1>3, <1>5, <1>6, <1>7, <1>9, <1>10, <1>11 DEF after, q, p

(***************************************************************************)
(* Lineage rows                                                            *)
(***************************************************************************)

Path == Seq(Mutations \cup NativeOp)

\* A row of a context is the context of one of its prefixes.
LEMMA LineageShape ==
  ASSUME NEW x \in Context, NEW l
  PROVE  l \in Lineages(x) <=>
           \E n \in 1..Len(x.path) : l = [root |-> x.root, path |-> SubSeq(x.path, 1, n)]
<1>1. Len(x.path) \in Nat /\ x.path \in Path
  BY LenProperties DEF Context, Path
<1>2. ASSUME NEW n \in 0..Len(x.path)
      PROVE  SubSeq(x.path, 1, n) # <<>> <=> n \in 1..Len(x.path)
  <2>1. n \in Nat /\ n <= Len(x.path)
    BY <1>1
  <2>2. Len(SubSeq(x.path, 1, n)) = n
    BY <1>1, <2>1 DEF Path
  <2>3. SubSeq(x.path, 1, n) \in Path
    BY <1>1, <2>1 DEF Path
  <2>4. SubSeq(x.path, 1, n) = <<>> <=> n = 0
    BY <2>2, <2>3, EmptySeq DEF Path
  <2> QED BY <1>1, <2>1, <2>4
<1>3. l \in Lineages(x) <=>
        \E n \in 0..Len(x.path) : /\ SubSeq(x.path, 1, n) # <<>>
                                  /\ l = [x EXCEPT !.path = SubSeq(x.path, 1, n)]
  BY DEF Lineages, Prefixes
<1>4. ASSUME NEW n
      PROVE  [x EXCEPT !.path = SubSeq(x.path, 1, n)]
               = [root |-> x.root, path |-> SubSeq(x.path, 1, n)]
  BY PathReplaced
<1>5. 1..Len(x.path) \subseteq 0..Len(x.path)
  BY <1>1
<1> QED BY <1>2, <1>3, <1>4, <1>5

\* A row's own rows are rows of the context, and its parent and its last derivation are
\* what they should be.
LEMMA LineageIsContext ==
  ASSUME NEW x \in Context, NEW l \in Lineages(x)
  PROVE  /\ l \in Context /\ l.root = x.root /\ l \in Lineages(l)
         /\ Lineages(l) \subseteq Lineages(x)
         /\ Parent(l) \in Context /\ Last(l.path) \in Mutations \cup NativeOp
<1>1. Len(x.path) \in Nat /\ x.path \in Path /\ x.root \in Roots
  BY LenProperties DEF Context, Path
<1>2. PICK n \in 1..Len(x.path) : l = [root |-> x.root, path |-> SubSeq(x.path, 1, n)]
  BY LineageShape
<1> DEFINE p == SubSeq(x.path, 1, n)
<1>3. n \in Nat /\ n >= 1 /\ n <= Len(x.path)
  BY <1>1
<1>4. p \in Path /\ Len(p) = n /\ \A i \in 1..n : p[i] = x.path[i]
  BY <1>1, <1>3 DEF Path
<1> HIDE DEF p
<1>5. l = [root |-> x.root, path |-> p] /\ l.root = x.root /\ l.path = p
  BY <1>2 DEF p
<1>6. l \in Context
  BY <1>1, <1>4, <1>5 DEF Context, Path
<1>7. SubSeq(p, 1, n) = p
  BY <1>4, SubSeqFull DEF Path
<1>8. l \in Lineages(l)
  <2>1. n \in 1..Len(l.path) /\ l = [root |-> l.root, path |-> SubSeq(l.path, 1, n)]
    BY <1>3, <1>4, <1>5, <1>7
  <2> QED BY <1>6, <2>1, LineageShape
<1>9. ASSUME NEW m \in Lineages(l)
      PROVE  m \in Lineages(x)
  <2>1. PICK k \in 1..Len(l.path) : m = [root |-> l.root, path |-> SubSeq(l.path, 1, k)]
    BY <1>6, LineageShape
  <2>2. k \in Nat /\ k >= 1 /\ k <= n /\ k <= Len(x.path)
    BY <1>3, <1>4, <1>5
  <2>3. /\ SubSeq(p, 1, k) \in Path /\ Len(SubSeq(p, 1, k)) = k
        /\ \A i \in 1..k : SubSeq(p, 1, k)[i] = p[i]
    BY <1>4, <2>2 DEF Path
  <2>4. /\ SubSeq(x.path, 1, k) \in Path /\ Len(SubSeq(x.path, 1, k)) = k
        /\ \A i \in 1..k : SubSeq(x.path, 1, k)[i] = x.path[i]
    BY <1>1, <2>2 DEF Path
  <2>5. \A i \in 1..k : SubSeq(p, 1, k)[i] = SubSeq(x.path, 1, k)[i]
    BY <1>4, <2>2, <2>3, <2>4
  <2>6. SubSeq(p, 1, k) = SubSeq(x.path, 1, k)
    BY <2>3, <2>4, <2>5, SeqEqual DEF Path
  <2>7. k \in 1..Len(x.path) /\ m = [root |-> x.root, path |-> SubSeq(x.path, 1, k)]
    BY <1>1, <1>5, <2>1, <2>2, <2>6
  <2> QED BY <2>7, LineageShape
<1>10. Parent(l) \in Context
  <2>1. n - 1 \in Nat /\ n - 1 <= n
    BY <1>3
  <2>2. SubSeq(p, 1, n - 1) \in Path
    BY <1>4, <2>1 DEF Path
  <2>3. Parent(l) = [root |-> x.root, path |-> SubSeq(p, 1, n - 1)]
    <3>1. [l EXCEPT !.path = Front(@)] = [root |-> x.root, path |-> Front(p)]
      BY <1>5
    <3>2. Front(p) = SubSeq(p, 1, n - 1)
      BY <1>4 DEF Front
    <3> QED BY <3>1, <3>2 DEF Parent
  <2> QED BY <1>1, <2>2, <2>3 DEF Context, Path
<1>11. Last(l.path) \in Mutations \cup NativeOp
  <2>1. n \in 1..Len(p)
    BY <1>3, <1>4
  <2>2. p[n] \in Mutations \cup NativeOp
    BY <1>4, <2>1, ElementOfSeq DEF Path
  <2> QED BY <1>4, <1>5, <2>2 DEF Last
<1> QED BY <1>5, <1>6, <1>8, <1>9, <1>10, <1>11

\* A derivation adds rows and changes none.
LEMMA DerivedLineages ==
  ASSUME NEW x \in Context, NEW o \in Mutations \cup NativeOp
  PROVE  Lineages(x) \subseteq Lineages(Derived(x, o))
<1> DEFINE q == Append(x.path, o)
           y == [root |-> x.root, path |-> q]
<1>1. Len(x.path) \in Nat /\ x.path \in Path
  BY LenProperties DEF Context, Path
<1>2. /\ q \in Path /\ Len(q) = Len(x.path) + 1
      /\ \A i \in 1..Len(x.path) : q[i] = x.path[i]
  BY <1>1, AppendProperties DEF Path
<1>3. Derived(x, o) = y /\ y \in Context
  BY CaseOfDerived
<1>4. y.root = x.root /\ y.path = q
  OBVIOUS
<1> HIDE DEF y, q
<1> SUFFICES ASSUME NEW l \in Lineages(x) PROVE l \in Lineages(y)
  BY <1>3
<1>5. PICK k \in 1..Len(x.path) : l = [root |-> x.root, path |-> SubSeq(x.path, 1, k)]
  BY LineageShape
<1>6. k \in Nat /\ k >= 1 /\ k <= Len(x.path) /\ k <= Len(q)
  BY <1>1, <1>2
<1>7. /\ SubSeq(q, 1, k) \in Path /\ Len(SubSeq(q, 1, k)) = k
      /\ \A i \in 1..k : SubSeq(q, 1, k)[i] = q[i]
  BY <1>2, <1>6 DEF Path
<1>8. /\ SubSeq(x.path, 1, k) \in Path /\ Len(SubSeq(x.path, 1, k)) = k
      /\ \A i \in 1..k : SubSeq(x.path, 1, k)[i] = x.path[i]
  BY <1>1, <1>6 DEF Path
<1>9. \A i \in 1..k : SubSeq(q, 1, k)[i] = SubSeq(x.path, 1, k)[i]
  BY <1>2, <1>6, <1>7, <1>8
<1>10. SubSeq(q, 1, k) = SubSeq(x.path, 1, k)
  BY <1>7, <1>8, <1>9, SeqEqual DEF Path
<1>11. k \in 1..Len(q)
  BY <1>1, <1>2, <1>6
<1>12. k \in 1..Len(y.path) /\ l = [root |-> y.root, path |-> SubSeq(y.path, 1, k)]
  BY <1>4, <1>5, <1>10, <1>11
<1> QED BY <1>3, <1>12, LineageShape

(***************************************************************************)
(* Subjects                                                                *)
(***************************************************************************)

Subjects == [before : Context, resolution : Resolutions,
             artifacts : ArtifactSets, nonce : Nonces]

\* The subjects of a context are those of its native rows.
LEMMA SubjectMembers ==
  ASSUME NEW x, NEW s
  PROVE  s \in SubjectsOf(x) <=>
           \E l \in Lineages(x) : IsNative(l) /\ s = SourceSubject(StepOf(l))
BY DEF SubjectsOf, NativeSteps, StepOf

\* The subjects of a context are those of its rows.
LEMMA SubjectsOfLineages ==
  ASSUME NEW x \in Context
  PROVE  /\ SubjectsOf(x) = UNION {SubjectsOf(l) : l \in Lineages(x)}
         /\ SubjectsOf(x) \subseteq Subjects
<1>1. ASSUME NEW s \in SubjectsOf(x)
      PROVE  s \in Subjects /\ \E l \in Lineages(x) : s \in SubjectsOf(l)
  <2>1. PICK l \in Lineages(x) : IsNative(l) /\ s = SourceSubject(StepOf(l))
    BY SubjectMembers
  <2>2. l \in Lineages(l) /\ Parent(l) \in Context /\ Last(l.path) \in Mutations \cup NativeOp
    BY LineageIsContext
  <2>3. s \in SubjectsOf(l)
    BY <2>1, <2>2, SubjectMembers
  <2>4. Last(l.path) \in NativeOp
    BY <2>1, <2>2 DEF IsNative
  <2>5. s \in Subjects
    BY <2>1, <2>2, <2>4 DEF SourceSubject, StepOf, NativeOp, Subjects
  <2> QED BY <2>3, <2>5
<1>2. ASSUME NEW l \in Lineages(x), NEW s \in SubjectsOf(l)
      PROVE  s \in SubjectsOf(x)
  <2>1. Lineages(l) \subseteq Lineages(x)
    BY LineageIsContext
  <2> QED BY <2>1, SubjectMembers
<1> QED BY <1>1, <1>2

(***************************************************************************)
(* What the tables have in common                                          *)
(***************************************************************************)

\* The tables of a database, one by one.
LEMMA DatabaseFields ==
  ASSUME NEW d \in Database
  PROVE  /\ IsDatabase(d)
         /\ d.sources \subseteq Roots /\ d.lineages \subseteq Context
         /\ d.cases \subseteq Case /\ d.runs \subseteq SourceRun /\ d.links \subseteq SourceRun
         /\ d.subjects \subseteq Subjects /\ d.baselines \subseteq SourceRun
         /\ d.admissions \subseteq AllReplays
BY DEF Database, IsDatabase, Subjects

\* Tables that are right one by one are a database.
LEMMA DatabaseFromFields ==
  ASSUME NEW d, IsDatabase(d),
         d.sources \subseteq Roots, d.lineages \subseteq Context,
         d.cases \subseteq Case, d.runs \subseteq SourceRun, d.links \subseteq SourceRun,
         d.subjects \subseteq Subjects, d.baselines \subseteq SourceRun
  PROVE  d \in Database
BY DEF Database, IsDatabase, Subjects

\* A run is evaluated on a case.
LEMMA RunContext ==
  ASSUME NEW r \in SourceRun
  PROVE  r.context \in Context /\ r.context.root \in Roots /\ CaseOf(r.context) \in Case
<1>1. r.context \in Context
  BY DEF SourceRun
<1> QED BY <1>1, CaseOfContext DEF Context, IsDerivedCase

\* The two runs of an admission, their contexts, and what became of the case.
LEMMA AdmissionRuns ==
  ASSUME NEW a \in AllReplays
  PROVE  /\ SourceBefore(a) \in SourceRun /\ SourceAfter(a) \in SourceRun
         /\ SourceBefore(a).phase = "SOURCE" /\ SourceAfter(a).phase = "RESOLVED"
         /\ SourceBefore(a).context = a.before /\ SourceAfter(a).context = AfterOf(a)
         /\ a.before \in Context /\ AfterOf(a) \in Context
         /\ AfterOf(a).root = a.before.root
         /\ Lineages(a.before) \subseteq Lineages(AfterOf(a))
         /\ CaseOf(AfterOf(a)) = Resolved(CaseOf(a.before), a.op.resolution, a.op.artifacts)
         /\ a.op.resolution \in Resolutions
<1>1. a.before \in Context /\ a.op \in NativeOp
  BY ReplayTypes
<1>2. a.op \notin Mutations /\ a.op.resolution \in Resolutions
      /\ a.op.source \in Evidence /\ a.op.resolved \in Evidence
  BY <1>1, ArgumentsAssumption DEF NativeOp
<1>3. /\ AfterOf(a) \in Context
      /\ AfterOf(a) = [root |-> a.before.root, path |-> Append(a.before.path, a.op)]
      /\ CaseOf(AfterOf(a)) = Applying(CaseOf(a.before), a.op)
  BY <1>1, CaseOfDerived DEF AfterOf
<1>4. Lineages(a.before) \subseteq Lineages(AfterOf(a))
  BY <1>1, DerivedLineages DEF AfterOf
<1>5. CaseOf(AfterOf(a)) = Resolved(CaseOf(a.before), a.op.resolution, a.op.artifacts)
  BY <1>2, <1>3 DEF Applying
<1>6. AfterOf(a).root = a.before.root
  BY <1>3
<1>7. /\ SourceBefore(a) \in SourceRun /\ SourceAfter(a) \in SourceRun
      /\ SourceBefore(a).phase = "SOURCE" /\ SourceAfter(a).phase = "RESOLVED"
      /\ SourceBefore(a).context = a.before /\ SourceAfter(a).context = AfterOf(a)
  BY <1>1, <1>2, <1>3 DEF SourceBefore, SourceAfter, SourceRun
<1> QED BY <1>1, <1>2, <1>3, <1>4, <1>5, <1>6, <1>7

\* Everything a context needs is stored with a run that is evaluated on it, and
\* with its rows.
LEMMA RunsAreRebuildable ==
  ASSUME NEW d \in Database, Whole(d), NEW r \in d.runs
  PROVE  /\ IsRebuildable(d, r.context)
         /\ \A l \in Lineages(r.context) : IsRebuildable(d, l)
         /\ SourceRunIsValid(d, r)
<1>1. r.context \in Context
  BY DatabaseFields, RunContext
<1>2. r.context.root \in d.sources /\ Lineages(r.context) \subseteq d.lineages
      /\ CaseOf(r.context) \in d.cases
  BY DEF Whole, SourceCoverage
<1>3. ASSUME NEW l \in d.lineages
      PROVE  SubjectsOf(l) \subseteq d.subjects
  BY DEF Whole, ApprovalCoverage
<1>4. SubjectsOf(r.context) \subseteq d.subjects
  <2>1. SubjectsOf(r.context) = UNION {SubjectsOf(l) : l \in Lineages(r.context)}
    BY <1>1, SubjectsOfLineages
  <2> QED BY <1>2, <1>3, <2>1
<1>5. IsRebuildable(d, r.context)
  BY <1>2, <1>4 DEF IsRebuildable
<1>6. ASSUME NEW l \in Lineages(r.context)
      PROVE  IsRebuildable(d, l)
  <2>1. l.root = r.context.root /\ Lineages(l) \subseteq Lineages(r.context)
    BY <1>1, LineageIsContext
  <2> QED BY <1>2, <1>3, <2>1 DEF IsRebuildable
<1>7. r \in d.links \/ LinkedTo(d, r) # {}
  BY DEF Whole
<1> QED BY <1>2, <1>5, <1>6, <1>7 DEF SourceRunIsValid

\* What a verification finds: two linked runs shared, a case split over two sets, and
\* nothing else.
LEMMA WholeVerifies ==
  ASSUME NEW d \in Database, Whole(d), HasAudit(d)
  PROVE  Verifies(d) <=> ~SharedLocator(d) /\ ~SplitArtifacts(d)
<1>1. SourceCoverage(d) /\ ApprovalCoverage(d)
  BY DEF Whole
<1>2. \A l \in d.lineages : IsRebuildable(d, l)
  <2> SUFFICES ASSUME NEW l \in d.lineages PROVE IsRebuildable(d, l)
    OBVIOUS
  <2>1. PICK r \in d.runs : l \in Lineages(r.context)
    BY <1>1 DEF SourceCoverage
  <2> QED BY <2>1, RunsAreRebuildable
<1>3. \A r \in d.runs : SourceRunIsValid(d, r)
  BY RunsAreRebuildable
<1>4. \A a \in d.admissions : AdmissionIsValid(d, a)
  <2> SUFFICES ASSUME NEW a \in d.admissions PROVE AdmissionIsValid(d, a)
    OBVIOUS
  <2>1. a \in AllReplays
    BY DatabaseFields
  <2>2. SourceBefore(a) \in d.runs /\ SourceAfter(a) \in d.runs
    BY DEF Whole
  <2>3. SourceBefore(a).context = a.before /\ SourceAfter(a).context = AfterOf(a)
    BY <2>1, AdmissionRuns
  <2>4. IsRebuildable(d, AfterOf(a))
    BY <2>2, <2>3, RunsAreRebuildable
  <2>5. CaseOf(a.before) \in d.cases /\ CaseOf(AfterOf(a)) \in d.cases
    BY <2>2, <2>3 DEF Whole
  <2>6. EndsInBaseline(a) => SourceAfter(a) \in d.baselines
    BY <1>1 DEF ApprovalCoverage
  <2> QED BY <2>2, <2>4, <2>5, <2>6 DEF AdmissionIsValid
<1>5. (\A r \in d.links : LinkIsValid(d, r)) <=> ~SharedLocator(d)
  <2>1. ASSUME NEW r \in d.links, NEW a \in LinkedTo(d, r)
        PROVE  SourceBefore(a) = r /\ SourceAfter(a) # r
    <3>1. a \in d.admissions /\ r \in {SourceBefore(a), SourceAfter(a)}
      BY DEF LinkedTo
    <3>2. a \in AllReplays
      BY <3>1, DatabaseFields
    <3>3. r.phase = "SOURCE" /\ SourceAfter(a).phase = "RESOLVED"
      BY <3>2, AdmissionRuns DEF Whole
    <3> QED BY <3>1, <3>3
  <2>2. \A r \in d.links : r \in d.runs /\ SourceRunIsValid(d, r)
    BY <1>3 DEF Whole
  <2> QED BY <2>1, <2>2 DEF LinkIsValid, SharedLocator
<1>6. ReplayCoverage(d) <=> ~SplitArtifacts(d)
  <2>1. ASSUME NEW c \in Applied(d)
        PROVE  ArtifactSetsOf(c) \subseteq ArtifactSets /\ ArtifactSetsOf(c) # {}
    <3>1. c \in d.cases /\ c.applied # None
      BY DEF Applied
    <3>2. PICK r \in d.runs : c = CaseOf(r.context)
      BY <3>1 DEF Whole
    <3>3. IsDerivedCase(c)
      <4>1. r.context \in Context
        BY DatabaseFields, RunContext
      <4> QED BY <3>2, <4>1, CaseOfContext
    <3> QED BY <3>1, <3>3 DEF IsDerivedCase, ArtifactSetsOf, Case
  <2>2. ASSUME NEW c \in Applied(d)
        PROVE  IF AdmittedAs(d, c) = {}
               THEN IsDerivedOnly(d, c)
               ELSE \E a \in AdmittedAs(d, c) : /\ AdmittedAs(d, c) = {a}
                                                /\ a.op.resolution = c.applied
                                                /\ SourceRunIsValid(d, SourceAfter(a))
    <3>1. CASE AdmittedAs(d, c) = {}
      <4>1. c \in d.cases
        BY DEF Applied
      <4>2. PICK r \in d.runs : c = CaseOf(r.context)
        BY <4>1 DEF Whole
      <4> QED BY <1>3, <3>1, <4>2 DEF IsDerivedOnly
    <3>2. CASE AdmittedAs(d, c) # {}
      <4>1. PICK a \in AdmittedAs(d, c) : TRUE
        BY <3>2
      <4>2. a \in d.admissions /\ CaseOf(AfterOf(a)) = c
        BY DEF AdmittedAs
      <4>3. a \in AllReplays
        BY <4>2, DatabaseFields
      <4>4. CaseOf(AfterOf(a)).applied = a.op.resolution
        BY <4>3, AdmissionRuns DEF Resolved
      <4>5. SourceRunIsValid(d, SourceAfter(a))
        BY <1>3, <4>2 DEF Whole
      <4>6. AdmittedAs(d, c) = {a}
        BY <4>2 DEF AdmittedAs, Whole
      <4> QED BY <3>2, <4>2, <4>4, <4>5, <4>6
    <3> QED BY <3>1, <3>2
  <2>3. ASSUME NEW c \in Applied(d)
        PROVE  (\E s \in ArtifactSets : ArtifactSetsOf(c) = {s}) <=>
                 ~\E s, t \in ArtifactSetsOf(c) : s # t
    BY <2>1
  <2>4. ReplayCoverage(d) <=>
          \A c \in Applied(d) : \E s \in ArtifactSets : ArtifactSetsOf(c) = {s}
    BY <2>2 DEF ReplayCoverage
  <2> QED BY <2>3, <2>4 DEF SplitArtifacts
<1>7. RowsAreValid(d) <=> \A r \in d.links : LinkIsValid(d, r)
  BY <1>2, <1>3, <1>4 DEF RowsAreValid
<1> QED BY <1>1, <1>5, <1>6, <1>7 DEF Verifies

(***************************************************************************)
(* What the two transactions write                                         *)
(***************************************************************************)

\* The tables after a context was stored.
LEMMA ContextFields ==
  ASSUME NEW d, IsDatabase(d), NEW ctx
  PROVE  WithContext(d, ctx) =
           [sources |-> d.sources \cup {ctx.root},
            lineages |-> d.lineages \cup Lineages(ctx),
            cases |-> d.cases, runs |-> d.runs, links |-> d.links,
            subjects |-> d.subjects \cup SubjectsOf(ctx),
            baselines |-> d.baselines, admissions |-> d.admissions]
<1> DEFINE S == d.sources \cup {ctx.root}
           L == d.lineages \cup Lineages(ctx)
           A == d.subjects \cup SubjectsOf(ctx)
<1>1. WithContext(d, ctx) =
        [d EXCEPT !.sources = S, !.lineages = L, !.subjects = A]
  BY DEF WithContext
<1>2. d \in [sources : {d.sources}, lineages : {d.lineages}, cases : {d.cases},
             runs : {d.runs}, links : {d.links}, subjects : {d.subjects},
             baselines : {d.baselines}, admissions : {d.admissions}]
  BY DEF IsDatabase
<1> HIDE DEF S, L, A
<1> DEFINE e == [d EXCEPT !.sources = S, !.lineages = L, !.subjects = A]
<1>3. e \in [sources : {S}, lineages : {L}, cases : {d.cases}, runs : {d.runs},
             links : {d.links}, subjects : {A}, baselines : {d.baselines},
             admissions : {d.admissions}]
  BY <1>2
<1> HIDE DEF e
<1>4. e = [sources |-> S, lineages |-> L, cases |-> d.cases, runs |-> d.runs,
           links |-> d.links, subjects |-> A, baselines |-> d.baselines,
           admissions |-> d.admissions]
  BY <1>3
<1> QED BY <1>1, <1>4 DEF S, L, A, e

\* The tables after a source run was stored.
LEMMA RunTables ==
  ASSUME NEW d, IsDatabase(d), NEW r
  PROVE  LET e == WithSourceRun(d, r) IN
         /\ IsDatabase(e)
         /\ e.sources = d.sources \cup {r.context.root}
         /\ e.lineages = d.lineages \cup Lineages(r.context)
         /\ e.cases = d.cases \cup {CaseOf(r.context)}
         /\ e.runs = d.runs \cup {r}
         /\ e.links = d.links \cup {r}
         /\ e.subjects = d.subjects \cup SubjectsOf(r.context)
         /\ e.baselines = d.baselines
         /\ e.admissions = d.admissions
<1> DEFINE m == [sources |-> d.sources \cup {r.context.root},
                 lineages |-> d.lineages \cup Lineages(r.context),
                 cases |-> d.cases, runs |-> d.runs, links |-> d.links,
                 subjects |-> d.subjects \cup SubjectsOf(r.context),
                 baselines |-> d.baselines, admissions |-> d.admissions]
<1>1. WithContext(d, r.context) = m
  BY ContextFields
<1>2. WithSourceRun(d, r) =
        [m EXCEPT !.cases = @ \cup {CaseOf(r.context)}, !.runs = @ \cup {r},
                  !.links = @ \cup {r}]
  BY <1>1 DEF WithSourceRun
<1>3. WithSourceRun(d, r) =
        [sources |-> m.sources, lineages |-> m.lineages,
         cases |-> m.cases \cup {CaseOf(r.context)}, runs |-> m.runs \cup {r},
         links |-> m.links \cup {r}, subjects |-> m.subjects,
         baselines |-> m.baselines, admissions |-> m.admissions]
  BY <1>2
<1> QED BY <1>3 DEF IsDatabase

\* The tables after a replay was stored.
LEMMA ReplayTables ==
  ASSUME NEW d, IsDatabase(d), NEW a \in AllReplays
  PROVE  LET e == WithSourceReplay(d, a) IN
         /\ IsDatabase(e)
         /\ e.sources = d.sources \cup {AfterOf(a).root}
         /\ e.lineages = d.lineages \cup Lineages(AfterOf(a))
         /\ e.cases = d.cases \cup {CaseOf(a.before), CaseOf(AfterOf(a))}
         /\ e.runs = d.runs \cup {SourceBefore(a), SourceAfter(a)}
         /\ e.links = d.links
         /\ e.subjects = d.subjects \cup SubjectsOf(AfterOf(a))
         /\ e.baselines = IF EndsInBaseline(a) THEN d.baselines \cup {SourceAfter(a)}
                                               ELSE d.baselines
         /\ e.admissions = d.admissions \cup {a}
<1> DEFINE x == AfterOf(a)
           m == [sources |-> d.sources \cup {x.root},
                 lineages |-> d.lineages \cup Lineages(x),
                 cases |-> d.cases, runs |-> d.runs, links |-> d.links,
                 subjects |-> d.subjects \cup SubjectsOf(x),
                 baselines |-> d.baselines, admissions |-> d.admissions]
           bases == IF EndsInBaseline(a) THEN d.baselines \cup {SourceAfter(a)}
                                         ELSE d.baselines
<1>1. WithContext(d, x) = m
  BY ContextFields
<1>2. WithSourceReplay(d, a) =
        [m EXCEPT !.cases = @ \cup {CaseOf(a.before), CaseOf(x)},
                  !.runs = @ \cup {SourceBefore(a), SourceAfter(a)},
                  !.baselines = IF EndsInBaseline(a) THEN @ \cup {SourceAfter(a)} ELSE @,
                  !.admissions = @ \cup {a}]
  BY <1>1 DEF WithSourceReplay
<1>3. WithSourceReplay(d, a) =
        [sources |-> m.sources, lineages |-> m.lineages,
         cases |-> m.cases \cup {CaseOf(a.before), CaseOf(x)},
         runs |-> m.runs \cup {SourceBefore(a), SourceAfter(a)},
         links |-> m.links, subjects |-> m.subjects, baselines |-> bases,
         admissions |-> m.admissions \cup {a}]
  BY <1>2
<1> QED BY <1>3 DEF IsDatabase

\* The tables the keys are in, after a source run.
LEMMA RunFields ==
  ASSUME NEW d, IsDatabase(d), NEW r
  PROVE  LET e == WithSourceRun(d, r) IN
         /\ IsDatabase(e)
         /\ e.lineages = d.lineages \cup Lineages(r.context)
         /\ e.subjects = d.subjects \cup SubjectsOf(r.context)
         /\ e.admissions = d.admissions
<1> DEFINE e == WithSourceRun(d, r)
<1>1. /\ IsDatabase(e)
      /\ e.sources = d.sources \cup {r.context.root}
      /\ e.lineages = d.lineages \cup Lineages(r.context)
      /\ e.cases = d.cases \cup {CaseOf(r.context)}
      /\ e.runs = d.runs \cup {r}
      /\ e.links = d.links \cup {r}
      /\ e.subjects = d.subjects \cup SubjectsOf(r.context)
      /\ e.baselines = d.baselines
      /\ e.admissions = d.admissions
  BY RunTables
<1> QED BY <1>1

\* The tables the keys are in, after a replay.
LEMMA ReplayFields ==
  ASSUME NEW d, IsDatabase(d), NEW a \in AllReplays
  PROVE  LET e == WithSourceReplay(d, a) IN
         /\ IsDatabase(e)
         /\ e.lineages = d.lineages \cup Lineages(AfterOf(a))
         /\ e.subjects = d.subjects \cup SubjectsOf(AfterOf(a))
         /\ e.admissions = d.admissions \cup {a}
<1> DEFINE e == WithSourceReplay(d, a)
<1>1. /\ IsDatabase(e)
      /\ e.sources = d.sources \cup {AfterOf(a).root}
      /\ e.lineages = d.lineages \cup Lineages(AfterOf(a))
      /\ e.cases = d.cases \cup {CaseOf(a.before), CaseOf(AfterOf(a))}
      /\ e.runs = d.runs \cup {SourceBefore(a), SourceAfter(a)}
      /\ e.links = d.links
      /\ e.subjects = d.subjects \cup SubjectsOf(AfterOf(a))
      /\ e.baselines = IF EndsInBaseline(a) THEN d.baselines \cup {SourceAfter(a)}
                                            ELSE d.baselines
      /\ e.admissions = d.admissions \cup {a}
  BY ReplayTables
<1> HIDE DEF e
<1>2. e = WithSourceReplay(d, a)
  BY DEF e
<1> QED BY <1>1, <1>2

\* The subjects of a context that does not conflict join those of the database.
LEMMA NoConflictKeepsNonces ==
  ASSUME NEW d, NEW e, NEW ctx, NoncesAreUnique(d), ~SubjectConflicts(d, ctx),
         e.subjects = d.subjects \cup SubjectsOf(ctx)
  PROVE  NoncesAreUnique(e)
BY DEF NoncesAreUnique, SubjectConflicts

\* A source run whose subjects do not conflict keeps the keys unique.
LEMMA RunKeepsKeys ==
  ASSUME NEW d, IsDatabase(d), Keyed(d), NEW r, ~SubjectConflicts(d, r.context)
  PROVE  Keyed(WithSourceRun(d, r))
<1> DEFINE e == WithSourceRun(d, r)
<1>1. /\ e.lineages = d.lineages \cup Lineages(r.context)
      /\ e.subjects = d.subjects \cup SubjectsOf(r.context)
      /\ e.admissions = d.admissions
  BY RunFields
<1> HIDE DEF e
<1>2. NoncesAreUnique(e)
  BY <1>1, NoConflictKeepsNonces DEF Keyed
<1>3. StepsHaveSubjects(e)
  BY <1>1, LineageSteps DEF Keyed, StepsHaveSubjects
<1>4. KeysAreUnique(e)
  BY <1>1 DEF Keyed, KeysAreUnique
<1> QED BY <1>2, <1>3, <1>4 DEF Keyed, e

\* So does a replay that conflicts with no admission.
LEMMA ReplayKeepsKeys ==
  ASSUME NEW d, IsDatabase(d), Keyed(d), NEW a \in AllReplays,
         ~SubjectConflicts(d, AfterOf(a)), ~AdmissionConflicts(d, a)
  PROVE  Keyed(WithSourceReplay(d, a))
<1> DEFINE e == WithSourceReplay(d, a)
<1>1. /\ e.lineages = d.lineages \cup Lineages(AfterOf(a))
      /\ e.subjects = d.subjects \cup SubjectsOf(AfterOf(a))
      /\ e.admissions = d.admissions \cup {a}
  BY ReplayFields
<1> HIDE DEF e
<1>2. NoncesAreUnique(e)
  BY <1>1, NoConflictKeepsNonces DEF Keyed
<1>3. StepsHaveSubjects(e)
  BY <1>1, LineageSteps, OwnStep DEF Keyed, StepsHaveSubjects
<1>4. KeysAreUnique(e)
  BY <1>1 DEF Keyed, KeysAreUnique, SameKey, AdmissionConflicts
<1> QED BY <1>2, <1>3, <1>4 DEF Keyed, e

\* A run brings its context, its case and its link, and the tables still fit.
LEMMA RunKeepsWhole ==
  ASSUME NEW d \in Database, Whole(d), NEW r \in SavableRuns
  PROVE  WithSourceRun(d, r) \in Database /\ Whole(WithSourceRun(d, r))
<1> DEFINE e == WithSourceRun(d, r)
           x == r.context
<1>1. IsDatabase(d)
  BY DatabaseFields
<1>2. /\ IsDatabase(e)
      /\ e.sources = d.sources \cup {x.root}
      /\ e.lineages = d.lineages \cup Lineages(x)
      /\ e.cases = d.cases \cup {CaseOf(x)}
      /\ e.runs = d.runs \cup {r}
      /\ e.links = d.links \cup {r}
      /\ e.subjects = d.subjects \cup SubjectsOf(x)
      /\ e.baselines = d.baselines
      /\ e.admissions = d.admissions
  BY <1>1, RunTables
<1>3. r \in SourceRun /\ r.phase = "SOURCE"
  OBVIOUS
<1>4. x \in Context /\ x.root \in Roots /\ CaseOf(x) \in Case
  BY <1>3, RunContext
<1>5. SubjectsOf(x) = UNION {SubjectsOf(l) : l \in Lineages(x)} /\ SubjectsOf(x) \subseteq Subjects
  BY <1>4, SubjectsOfLineages
<1>6. Lineages(x) \subseteq Context
  BY <1>4, LineageIsContext
<1> HIDE DEF e, x
<1>7. e \in Database
  BY <1>2, <1>3, <1>4, <1>5, <1>6, DatabaseFields, DatabaseFromFields
<1>8. SourceCoverage(e)
  BY <1>2 DEF Whole, SourceCoverage, x
<1>9. ApprovalCoverage(e)
  BY <1>2, <1>5 DEF Whole, ApprovalCoverage
<1>10. e.cases = {CaseOf(q.context) : q \in e.runs}
  BY <1>2 DEF Whole, x
<1>11. \A q \in e.links : q \in e.runs /\ q.phase = "SOURCE"
  BY <1>2, <1>3 DEF Whole
<1>12. \A q \in e.runs : q \in e.links \/ LinkedTo(e, q) # {}
  BY <1>2 DEF Whole, LinkedTo
<1>13. \A a \in e.admissions : SourceBefore(a) \in e.runs /\ SourceAfter(a) \in e.runs
  BY <1>2 DEF Whole
<1>14. \A a, b \in e.admissions : CaseOf(AfterOf(a)) = CaseOf(AfterOf(b)) => a = b
  BY <1>2 DEF Whole
<1>15. Whole(e)
  BY <1>8, <1>9, <1>10, <1>11, <1>12, <1>13, <1>14 DEF Whole
<1> QED BY <1>7, <1>15 DEF e

\* A replay brings two runs, which it names, and the rows of the later one, which hold
\* those of the earlier one; the ledger has no other replay that leads to its case.
LEMMA ReplayKeepsWhole ==
  ASSUME NEW d \in Database, Whole(d), NEW a \in AllReplays, ~LedgerConflicts(d, a)
  PROVE  WithSourceReplay(d, a) \in Database /\ Whole(WithSourceReplay(d, a))
<1> DEFINE e == WithSourceReplay(d, a)
           x == AfterOf(a)
           before == SourceBefore(a)
           after == SourceAfter(a)
<1>1. IsDatabase(d)
  BY DatabaseFields
<1>2. /\ IsDatabase(e)
      /\ e.sources = d.sources \cup {x.root}
      /\ e.lineages = d.lineages \cup Lineages(x)
      /\ e.cases = d.cases \cup {CaseOf(a.before), CaseOf(x)}
      /\ e.runs = d.runs \cup {before, after}
      /\ e.links = d.links
      /\ e.subjects = d.subjects \cup SubjectsOf(x)
      /\ e.baselines = IF EndsInBaseline(a) THEN d.baselines \cup {after} ELSE d.baselines
      /\ e.admissions = d.admissions \cup {a}
  BY <1>1, ReplayTables
<1>3. /\ before \in SourceRun /\ after \in SourceRun
      /\ before.context = a.before /\ after.context = x
      /\ a.before \in Context /\ x \in Context /\ x.root = a.before.root
      /\ Lineages(a.before) \subseteq Lineages(x)
  BY AdmissionRuns
<1>4. x.root \in Roots /\ CaseOf(x) \in Case /\ CaseOf(a.before) \in Case
  BY <1>3, CaseOfContext DEF Context, IsDerivedCase
<1>5. SubjectsOf(x) = UNION {SubjectsOf(l) : l \in Lineages(x)} /\ SubjectsOf(x) \subseteq Subjects
  BY <1>3, SubjectsOfLineages
<1>6. Lineages(x) \subseteq Context
  BY <1>3, LineageIsContext
<1>7. SourceSubject(a) \in SubjectsOf(x)
  BY OwnStep
<1> HIDE DEF e, x, before, after
<1>8. e \in Database
  <2>1. e.baselines \subseteq SourceRun
    BY <1>2, <1>3, DatabaseFields
  <2>2. e.cases \subseteq Case /\ e.runs \subseteq SourceRun /\ e.links \subseteq SourceRun
    BY <1>2, <1>3, <1>4, DatabaseFields
  <2>3. e.sources \subseteq Roots /\ e.lineages \subseteq Context /\ e.subjects \subseteq Subjects
    BY <1>2, <1>4, <1>5, <1>6, DatabaseFields
  <2> QED BY <1>2, <2>1, <2>2, <2>3, DatabaseFromFields
<1>9. SourceCoverage(e)
  <2>1. e.sources = {q.context.root : q \in e.runs}
    BY <1>2, <1>3 DEF Whole, SourceCoverage
  <2>2. e.lineages = UNION {Lineages(q.context) : q \in e.runs}
    BY <1>2, <1>3 DEF Whole, SourceCoverage
  <2> QED BY <2>1, <2>2 DEF SourceCoverage
<1>10. ApprovalCoverage(e)
  <2>1. e.subjects = {SourceSubject(b) : b \in e.admissions}
                       \cup UNION {SubjectsOf(l) : l \in e.lineages}
    BY <1>2, <1>5, <1>7 DEF Whole, ApprovalCoverage
  <2>2. e.baselines = {SourceAfter(b) : b \in {c \in e.admissions : EndsInBaseline(c)}}
    BY <1>2 DEF Whole, ApprovalCoverage, after
  <2> QED BY <2>1, <2>2 DEF ApprovalCoverage
<1>11. e.cases = {CaseOf(q.context) : q \in e.runs}
  BY <1>2, <1>3 DEF Whole
<1>12. \A q \in e.links : q \in e.runs /\ q.phase = "SOURCE"
  BY <1>2 DEF Whole
<1>13. \A q \in e.runs : q \in e.links \/ LinkedTo(e, q) # {}
  <2> SUFFICES ASSUME NEW q \in e.runs, q \notin e.links PROVE LinkedTo(e, q) # {}
    OBVIOUS
  <2>1. CASE q \in {before, after}
    BY <1>2, <2>1 DEF LinkedTo, before, after
  <2>2. CASE q \in d.runs
    <3>1. LinkedTo(d, q) # {}
      BY <1>2, <2>2 DEF Whole
    <3> QED BY <1>2, <3>1 DEF LinkedTo
  <2> QED BY <1>2, <2>1, <2>2
<1>14. \A b \in e.admissions : SourceBefore(b) \in e.runs /\ SourceAfter(b) \in e.runs
  BY <1>2 DEF Whole, before, after
<1>15. \A b, c \in e.admissions : CaseOf(AfterOf(b)) = CaseOf(AfterOf(c)) => b = c
  <2>1. ASSUME NEW b \in d.admissions, CaseOf(AfterOf(b)) = CaseOf(AfterOf(a))
        PROVE  b = a
    BY <2>1 DEF LedgerConflicts, AdmittedAs
  <2> QED BY <1>2, <2>1 DEF Whole
<1>16. Whole(e)
  BY <1>9, <1>10, <1>11, <1>12, <1>13, <1>14, <1>15 DEF Whole
<1> QED BY <1>8, <1>16 DEF e

(***************************************************************************)
(* The invariant is inductive                                              *)
(***************************************************************************)

\* The rows of an admitted replay are all there, so storing it again adds none.
LEMMA StoredReplay ==
  ASSUME NEW d \in Database, Whole(d), NEW a \in d.admissions
  PROVE  WithSourceReplay(d, a) = d /\ AfterOf(a) \in d.lineages
<1> DEFINE e == WithSourceReplay(d, a)
           x == AfterOf(a)
<1>1. IsDatabase(d) /\ a \in AllReplays
  BY DatabaseFields
<1>2. /\ IsDatabase(e)
      /\ e.sources = d.sources \cup {x.root}
      /\ e.lineages = d.lineages \cup Lineages(x)
      /\ e.cases = d.cases \cup {CaseOf(a.before), CaseOf(x)}
      /\ e.runs = d.runs \cup {SourceBefore(a), SourceAfter(a)}
      /\ e.links = d.links
      /\ e.subjects = d.subjects \cup SubjectsOf(x)
      /\ e.baselines = IF EndsInBaseline(a) THEN d.baselines \cup {SourceAfter(a)}
                                            ELSE d.baselines
      /\ e.admissions = d.admissions \cup {a}
  BY <1>1, ReplayTables
<1>3. /\ SourceBefore(a) \in d.runs /\ SourceAfter(a) \in d.runs
      /\ SourceBefore(a).context = a.before /\ SourceAfter(a).context = x
  BY DEF Whole, SourceBefore, SourceAfter
<1>4. x.root \in d.sources /\ Lineages(x) \subseteq d.lineages
  BY <1>3 DEF Whole, SourceCoverage
<1>5. {CaseOf(a.before), CaseOf(x)} \subseteq d.cases
  BY <1>3 DEF Whole
<1>6. x \in d.lineages
  BY <1>1, <1>4, OwnRow
<1>7. SubjectsOf(x) \subseteq d.subjects
  BY <1>6 DEF Whole, ApprovalCoverage
<1>8. EndsInBaseline(a) => SourceAfter(a) \in d.baselines
  BY DEF Whole, ApprovalCoverage
<1> HIDE DEF e, x
<1>9. /\ e.sources = d.sources /\ e.lineages = d.lineages /\ e.cases = d.cases
      /\ e.runs = d.runs /\ e.links = d.links /\ e.subjects = d.subjects
      /\ e.baselines = d.baselines /\ e.admissions = d.admissions
  <2>1. e.sources = d.sources /\ e.lineages = d.lineages
    BY <1>2, <1>4
  <2>2. e.cases = d.cases
    BY <1>2, <1>5
  <2>3. e.runs = d.runs /\ e.links = d.links
    BY <1>2, <1>3
  <2>4. e.subjects = d.subjects
    BY <1>2, <1>7
  <2>5. e.baselines = d.baselines /\ e.admissions = d.admissions
    <3>1. /\ e.baselines = IF EndsInBaseline(a) THEN d.baselines \cup {SourceAfter(a)}
                                               ELSE d.baselines
          /\ e.admissions = d.admissions \cup {a}
      BY <1>2
    <3>2. d.baselines = IF EndsInBaseline(a) THEN d.baselines \cup {SourceAfter(a)}
                                             ELSE d.baselines
      BY <1>8
    <3>3. d.admissions = d.admissions \cup {a}
      OBVIOUS
    <3> QED BY <3>1, <3>2, <3>3
  <2> QED BY <2>1, <2>2, <2>3, <2>4, <2>5
<1>10. e = d
  BY <1>1, <1>2, <1>9 DEF IsDatabase
<1> QED BY <1>6, <1>10 DEF e, x

\* An empty store.
LEMMA InitHolds == Init => IInv
<1> SUFFICES ASSUME Init PROVE IInv
  OBVIOUS
<1>1. TypeOK
  BY ArgumentsAssumption DEF Init, EmptyDatabase, TypeOK, Database, Stages
<1>2. Keyed(db)
  BY DEF Init, EmptyDatabase, Keyed, NoncesAreUnique, StepsHaveSubjects, KeysAreUnique
<1>3. Whole(db)
  BY DEF Init, EmptyDatabase, Whole, SourceCoverage, ApprovalCoverage
<1> QED BY <1>1, <1>2, <1>3 DEF Init, IInv, InCall

\* What every step needs of the invariant.
LEMMA InvFields ==
  ASSUME IInv
  PROVE  /\ db \in Database /\ IsDatabase(db)
         /\ pc \in [Conns -> Stages] /\ call \in [Conns -> Call \cup {None}]
BY DatabaseFields DEF IInv, TypeOK

\* The stage of one connection changes and the database does not.
LEMMA ConnectionMoves ==
  ASSUME IInv, NEW c \in Conns, NEW s \in Stages, NEW k \in Call \cup {None},
         pc' = [pc EXCEPT ![c] = s], call' = [call EXCEPT ![c] = k],
         db' = db, acked' \subseteq db.admissions, calls' \in 0..MaxCalls,
         s # "idle" => k \in Call, s # "return"
  PROVE  IInv'
<1>1. pc' \in [Conns -> Stages] /\ call' \in [Conns -> Call \cup {None}]
  BY InvFields
<1>2. ASSUME NEW b \in Conns
      PROVE  InCall(b)'
  BY InvFields DEF IInv, InCall, Op, Arg, ReplayOf
<1>3. TypeOK'
  <2>1. db.admissions \subseteq AllReplays
    BY InvFields, DatabaseFields
  <2> QED BY <1>1, <2>1, InvFields DEF TypeOK
<1> QED BY <1>2, <1>3 DEF IInv

\* A transaction commits a keyed database, or changes nothing.
LEMMA TransactionHolds ==
  ASSUME IInv, NEW c \in Conns, NEW ok \in BOOLEAN, NEW d, pc[c] = "write",
         Transact(c, ok, d),
         ok => /\ d \in Database /\ Whole(d) /\ Keyed(d)
               /\ db.admissions \subseteq d.admissions
               /\ Op(c) # "save_source_run" => ReplayOf(c) \in d.admissions
  PROVE  IInv'
<1>1. call[c] \in Call /\ pc \in [Conns -> Stages] /\ call \in [Conns -> Call \cup {None}]
  BY InvFields DEF IInv, InCall
<1>2. CASE ok
  <2>1. /\ db' = d /\ pc' = [pc EXCEPT ![c] = "return"] /\ acked' = acked
        /\ call' = call /\ calls' = calls
    BY <1>1, <1>2 DEF Transact
  <2>2. ASSUME NEW b \in Conns
        PROVE  InCall(b)'
    BY <1>1, <1>2, <2>1 DEF IInv, InCall, Op, Arg, ReplayOf
  <2>3. pc' \in [Conns -> Stages]
    BY <1>1, <2>1 DEF Stages
  <2>4. Whole(db)' /\ Keyed(db)' /\ acked' \subseteq db'.admissions
    BY <1>2, <2>1 DEF IInv
  <2>5. TypeOK'
    BY <1>1, <1>2, <2>1, <2>3 DEF TypeOK, IInv
  <2> QED BY <2>2, <2>4, <2>5 DEF IInv
<1>3. CASE ~ok
  <2>1. /\ db' = db /\ pc' = [pc EXCEPT ![c] = "idle"] /\ acked' = acked
        /\ call' = [call EXCEPT ![c] = None] /\ calls' = calls
    BY <1>3 DEF Transact
  <2> QED BY <2>1, ConnectionMoves DEF IInv, TypeOK, Stages
<1> QED BY <1>2, <1>3

\* A read-only step goes on or refuses the call.
LEMMA CheckHolds ==
  ASSUME IInv, NEW c \in Conns, NEW ok \in BOOLEAN, NEW s \in Stages \ {"return"},
         pc[c] # "idle", Check(c, ok, s)
  PROVE  IInv'
<1>1. call[c] \in Call /\ call \in [Conns -> Call \cup {None}] /\ acked \subseteq db.admissions
  BY InvFields DEF IInv, InCall
<1>2. db' = db /\ acked' = acked /\ calls' \in 0..MaxCalls
  BY DEF Check, IInv, TypeOK
<1>3. CASE ok
  <2>1. pc' = [pc EXCEPT ![c] = s] /\ call' = [call EXCEPT ![c] = call[c]]
    BY <1>3 DEF Check
  <2> QED BY <1>1, <1>2, <2>1, ConnectionMoves
<1>4. CASE ~ok
  <2>1. pc' = [pc EXCEPT ![c] = "idle"] /\ call' = [call EXCEPT ![c] = None]
    BY <1>4 DEF Check
  <2>2. "idle" \in Stages
    BY DEF Stages
  <2> QED BY <1>1, <1>2, <2>1, <2>2, ConnectionMoves
<1> QED BY <1>3, <1>4

\* The invariant holds after every step.
LEMMA StepHolds == IInv /\ [Next]_vars => IInv'
<1> SUFFICES ASSUME IInv, [Next]_vars
             PROVE  IInv'
  OBVIOUS
<1>1. CASE UNCHANGED vars
  BY <1>1 DEF vars, IInv, TypeOK, InCall, Op, Arg, ReplayOf
<1>2. ASSUME NEW c \in Conns, Start(c)
      PROVE  IInv'
  <2>1. PICK k \in Call : /\ call' = [call EXCEPT ![c] = k]
                          /\ pc' = [pc EXCEPT ![c] = FirstStage[k.op]]
    BY <1>2 DEF Start
  <2>2. db' = db /\ acked' = acked /\ calls' \in 0..MaxCalls
    BY <1>2, ArgumentsAssumption DEF Start, IInv, TypeOK
  <2>3. FirstStage[k.op] \in Stages /\ FirstStage[k.op] # "return"
    BY CallShapes DEF FirstStage, Stages
  <2>4. acked' \subseteq db.admissions
    BY <2>2 DEF IInv
  <2> QED BY <2>1, <2>2, <2>3, <2>4, ConnectionMoves
<1>3. ASSUME NEW c \in Conns, VerifyPrior(c) \/ LocateTerminal(c) \/ VerifyStore(c) \/ Abort(c)
      PROVE  IInv'
  <2>1. PICK ok \in BOOLEAN, s \in Stages \ {"return"} : pc[c] # "idle" /\ Check(c, ok, s)
    <3>1. CASE VerifyPrior(c)
      BY <3>1 DEF VerifyPrior, Stages, Verifies
    <3>2. CASE LocateTerminal(c)
      BY <3>2 DEF LocateTerminal, Stages
    <3>3. CASE VerifyStore(c)
      BY <3>3 DEF VerifyStore, Stages
    <3>4. CASE Abort(c)
      BY <3>4 DEF Abort, Stages
    <3> QED BY <1>3, <3>1, <3>2, <3>3, <3>4
  <2> QED BY <2>1, CheckHolds
<1>4. ASSUME NEW c \in Conns, SaveSourceRun(c)
      PROVE  IInv'
  <2> DEFINE d == WithSourceRun(db, Arg(c))
             ok == ~SubjectConflicts(db, Arg(c).context) /\ Verifies(d)
  <2>1. pc[c] = "write" /\ Op(c) = "save_source_run" /\ Transact(c, ok, d)
    BY <1>4 DEF SaveSourceRun
  <2>2. ok \in BOOLEAN
    BY DEF Verifies
  <2>3. ASSUME ok
        PROVE  /\ d \in Database /\ Whole(d) /\ Keyed(d)
               /\ db.admissions \subseteq d.admissions
    <3>1. Arg(c) \in SavableRuns
      <4>1. call[c] \in Call
        BY <2>1 DEF IInv, InCall
      <4> QED BY <2>1, <4>1, CallShapes DEF Op, Arg
    <3>2. db \in Database /\ Whole(db) /\ IsDatabase(db) /\ Keyed(db)
      BY InvFields DEF IInv
    <3>3. d \in Database /\ Whole(d)
      BY <3>1, <3>2, RunKeepsWhole
    <3>4. Keyed(d) /\ d.admissions = db.admissions
      BY <2>3, <3>2, RunFields, RunKeepsKeys
    <3> QED BY <3>3, <3>4
  <2> HIDE DEF d, ok
  <2> QED BY <2>1, <2>2, <2>3, TransactionHolds
<1>5. ASSUME NEW c \in Conns, SaveSourceReplay(c)
      PROVE  IInv'
  <2> DEFINE a == ReplayOf(c)
             d == WithSourceReplay(db, a)
             ok == /\ ~SubjectConflicts(db, AfterOf(a))
                   /\ ~AdmissionConflicts(db, a)
                   /\ ~LedgerConflicts(db, a)
                   /\ ReplayPreflight(d, a)
  <2>1. pc[c] = "write" /\ Op(c) # "save_source_run" /\ Transact(c, ok, d)
    BY <1>5 DEF SaveSourceReplay
  <2>2. ok \in BOOLEAN
    OBVIOUS
  <2>3. a \in AllReplays
    <3>1. call[c] \in Call
      BY <2>1 DEF IInv, InCall
    <3> QED BY <2>1, <3>1, CallShapes DEF Op, Arg, ReplayOf, AllReplays
  <2>4. ASSUME ok
        PROVE  /\ d \in Database /\ Whole(d) /\ Keyed(d)
               /\ db.admissions \subseteq d.admissions /\ a \in d.admissions
    <3>1. db \in Database /\ Whole(db) /\ IsDatabase(db) /\ Keyed(db)
      BY InvFields DEF IInv
    <3>2. d \in Database /\ Whole(d)
      BY <2>3, <2>4, <3>1, ReplayKeepsWhole
    <3>3. Keyed(d)
      BY <2>3, <2>4, <3>1, ReplayKeepsKeys
    <3>4. d.admissions = db.admissions \cup {a}
      BY <2>3, <3>1, ReplayFields
    <3> QED BY <3>2, <3>3, <3>4
  <2> HIDE DEF d, ok
  <2> QED BY <2>1, <2>2, <2>4, TransactionHolds
<1>6. ASSUME NEW c \in Conns, Return(c)
      PROVE  IInv'
  <2>1. /\ pc' = [pc EXCEPT ![c] = "idle"] /\ call' = [call EXCEPT ![c] = None]
        /\ db' = db /\ calls' \in 0..MaxCalls
    BY <1>6 DEF Return, IInv, TypeOK
  <2>2. acked' \subseteq db.admissions
    BY <1>6 DEF Return, IInv, InCall
  <2>3. "idle" \in Stages
    BY DEF Stages
  <2> QED BY <2>1, <2>2, <2>3, ConnectionMoves
<1> QED BY <1>1, <1>2, <1>3, <1>4, <1>5, <1>6 DEF Next, Step, Finished

(***************************************************************************)
(* The theorems                                                            *)
(***************************************************************************)

\* The keys hold in every reachable state.
THEOREM Invariance == Spec => []IInv
<1> QED BY InitHolds, StepHolds, PTL DEF Spec

\* Every stored row is of a case that its root and its derivations lead to.
THEOREM TypeCorrect == Spec => []TypeOK
<1>1. IInv => TypeOK
  BY DEF IInv
<1> QED BY <1>1, Invariance, PTL

\* What the three calls commit verifies, unless two admissions share a linked before
\* run or a resolved case keeps documents of an earlier set: verify_audit_chain finds these
\* two, and these only.
THEOREM VerdictsHold == Spec => []VerifiesExactly
<1>1. IInv => VerifiesExactly
  BY InvFields, WholeVerifies DEF IInv, VerifiesExactly
<1> QED BY <1>1, Invariance, PTL

\* An approval is given to one context: the nonce of two stored native steps,
\* admitted or rebuilt as somebody's prior derivation, is that of one.
THEOREM NoncesHold == Spec => []NonceNamesOneStep
<1>1. IInv => NonceNamesOneStep
  <2> SUFFICES ASSUME IInv, NEW l \in db.lineages, NEW m \in db.lineages,
                      IsNative(l), IsNative(m), Last(l.path).nonce = Last(m.path).nonce
               PROVE  Parent(l) = Parent(m)
                      /\ Last(l.path).resolution = Last(m.path).resolution
    BY DEF NonceNamesOneStep
  <2>1. SourceSubject(StepOf(l)) = SourceSubject(StepOf(m))
    BY DEF IInv, Keyed, StepsHaveSubjects, NoncesAreUnique, SourceSubject, StepOf
  <2> QED BY <2>1 DEF SourceSubject, StepOf
<1> QED BY <1>1, Invariance, PTL

\* A transaction that admits a new replay is Admit, the return of one is
\* Acknowledge, and every other step of the source lane leaves the ledger alone.
THEOREM SourceStoreImplementsLedger == Spec => ImplementsLedger
<1> DEFINE admitted == {AsReplay(a) : a \in db.admissions}
           told == {AsReplay(a) : a \in acked}
<1>1. Init => Ledger!Init
  BY DEF Init, Ledger!Init, EmptyDatabase
<1>2. ASSUME IInv, [Next]_vars
      PROVE  [Ledger!Next]_<<admitted, told>>
  <2>1. ASSUME NEW c \in Conns, SaveSourceReplay(c)
        PROVE  [Ledger!Next]_<<admitted, told>>
    <3> DEFINE a == ReplayOf(c)
               d == WithSourceReplay(db, a)
    <3>1. pc[c] = "write" /\ Op(c) # "save_source_run" /\ acked' = acked
      BY <2>1 DEF SaveSourceReplay, Transact
    <3>2. a \in AllReplays
      <4>1. call[c] \in Call
        BY <1>2, <3>1 DEF IInv, InCall
      <4> QED BY <3>1, <4>1, CallShapes DEF Op, Arg, ReplayOf, AllReplays
    <3>3. \/ db' = db
          \/ db' = d /\ ~SubjectConflicts(db, AfterOf(a)) /\ ~AdmissionConflicts(db, a)
      BY <2>1 DEF SaveSourceReplay, Transact
    <3>4. CASE db' = db
      BY <3>1, <3>4
    <3>5. CASE /\ db' = d /\ a \in db.admissions
      <4>1. d.admissions = db.admissions
        <5>1. d.admissions = db.admissions \cup {a}
          BY <1>2, <3>2, InvFields, ReplayFields
        <5> QED BY <3>5, <5>1
      <4> QED BY <3>1, <3>5, <4>1
    <3>6. CASE /\ db' = d /\ a \notin db.admissions
               /\ ~SubjectConflicts(db, AfterOf(a)) /\ ~AdmissionConflicts(db, a)
      <4>1. db'.admissions = db.admissions \cup {a}
        BY <1>2, <3>2, <3>6, InvFields, ReplayFields
      <4>2. ASSUME NEW b \in db.admissions
            PROVE  /\ AsReplay(b) # AsReplay(a)
                   /\ AsReplay(b).nonce # AsReplay(a).nonce
                   /\ ~Ledger!SameAdmissionKey(AsReplay(b), AsReplay(a))
        <5>1. ~SameKey(b, a)
          BY <3>6 DEF SameKey, AdmissionConflicts
        <5>2. b.op.nonce # a.op.nonce
          <6>1. SourceSubject(b) \in db.subjects /\ SourceSubject(a) \in SubjectsOf(AfterOf(a))
            BY <1>2, <3>2, OwnStep DEF IInv, Keyed, StepsHaveSubjects
          <6>2. SourceSubject(b) = SourceSubject(a) => SameKey(b, a)
            BY DEF SourceSubject, SameKey
          <6>3. SourceSubject(b).nonce = b.op.nonce /\ SourceSubject(a).nonce = a.op.nonce
            BY DEF SourceSubject
          <6> QED BY <3>6, <5>1, <6>1, <6>2, <6>3 DEF SubjectConflicts
        <5> QED BY <5>1, <5>2 DEF AsReplay, SameKey, Ledger!SameAdmissionKey
      <4>3. admitted' = admitted \cup {AsReplay(a)} /\ told' = told
        BY <3>1, <4>1 DEF AsReplay
      <4>4. \A p \in admitted : /\ p # AsReplay(a) /\ p.nonce # AsReplay(a).nonce
                                /\ ~Ledger!SameAdmissionKey(p, AsReplay(a))
        BY <4>2
      <4>5. Ledger!Admit(AsReplay(a))
        BY <4>3, <4>4 DEF Ledger!Admit
      <4> QED BY <3>2, <4>5 DEF Ledger!Next
    <3> QED BY <3>3, <3>4, <3>5, <3>6
  <2>2. ASSUME NEW c \in Conns, SaveSourceRun(c)
        PROVE  [Ledger!Next]_<<admitted, told>>
    <3>1. acked' = acked /\ (db' = db \/ db' = WithSourceRun(db, Arg(c)))
      BY <2>2 DEF SaveSourceRun, Transact
    <3>2. WithSourceRun(db, Arg(c)).admissions = db.admissions
      BY <1>2, InvFields, RunFields
    <3>3. db'.admissions = db.admissions
      BY <3>1, <3>2
    <3> QED BY <3>1, <3>3
  <2>3. ASSUME NEW c \in Conns, Return(c)
        PROVE  [Ledger!Next]_<<admitted, told>>
    <3>1. /\ db' = db /\ pc[c] = "return"
          /\ acked' = IF Op(c) = "save_source_run" THEN acked ELSE acked \cup {ReplayOf(c)}
      BY <2>3 DEF Return
    <3>2. CASE Op(c) = "save_source_run"
      BY <3>1, <3>2
    <3>3. CASE Op(c) # "save_source_run"
      <4>1. ReplayOf(c) \in db.admissions /\ db.admissions \subseteq AllReplays
        BY <1>2, <3>1, <3>3, InvFields DEF IInv, InCall, IsDatabase
      <4>2. told' = told \cup {AsReplay(ReplayOf(c))} /\ admitted' = admitted
        BY <3>1, <3>3 DEF AsReplay
      <4>3. Ledger!Acknowledge(AsReplay(ReplayOf(c)))
        BY <4>1, <4>2 DEF Ledger!Acknowledge
      <4> QED BY <4>1, <4>3 DEF Ledger!Next
    <3> QED BY <3>2, <3>3
  <2>4. CASE ~\E c \in Conns : SaveSourceReplay(c) \/ SaveSourceRun(c) \/ Return(c)
    <3>1. db' = db /\ acked' = acked
      BY <1>2, <2>4 DEF vars, Next, Finished, Step, Start, VerifyPrior, LocateTerminal,
         VerifyStore, Abort, Check
    <3> QED BY <3>1
  <2> QED BY <2>1, <2>2, <2>3, <2>4
<1>3. IInv /\ [Next]_vars => [Ledger!Next]_<<admitted, told>>
  BY <1>2
<1> QED
  BY <1>1, <1>3, Invariance, PTL DEF Spec, ImplementsLedger, Ledger!Spec

\* A replay that was committed may be saved again, which changes nothing; the run it was
\* derived from is continued no more, by its own caller or by anybody else.
THEOREM RetriesAreSafe == Spec => RetryIsSafe
<1> DEFINE Safe(c) ==
      /\ /\ pc[c] = "write" /\ pc'[c] = "return" /\ Op(c) # "save_source_run"
         /\ ReplayOf(c) \in db.admissions
         => db' = db
      /\ pc[c] = "terminal" /\ pc'[c] = "verify"
         => \A a \in db.admissions : a.before # Arg(c).prior.context
<1>1. ASSUME IInv, [Next]_vars, NEW c \in Conns
      PROVE  Safe(c)
  <2>1. ASSUME NEW b \in Conns, Start(b) \/ Step(b) \/ Abort(b), b # c
        PROVE  pc'[c] = pc[c]
    BY <1>1, <2>1 DEF IInv, TypeOK, Start, Step, VerifyPrior, LocateTerminal, VerifyStore,
       SaveSourceRun, SaveSourceReplay, Return, Abort, Check, Transact
  <2>2. ASSUME pc[c] = "write", pc'[c] = "return", Op(c) # "save_source_run",
               ReplayOf(c) \in db.admissions
        PROVE  db' = db
    <3>1. SaveSourceReplay(c)
      <4>1. Start(c) \/ Step(c) \/ Abort(c)
        BY <1>1, <2>1, <2>2 DEF Next, Finished, vars
      <4> QED
        BY <1>1, <2>2, <4>1 DEF IInv, TypeOK, Start, Step, VerifyPrior, LocateTerminal,
           VerifyStore, SaveSourceRun, Return, Abort, Check
    <3>2. db' = db \/ db' = WithSourceReplay(db, ReplayOf(c))
      BY <3>1 DEF SaveSourceReplay, Transact
    <3> QED BY <1>1, <2>2, <3>2, InvFields, StoredReplay DEF IInv
  <2>3. ASSUME pc[c] = "terminal", pc'[c] = "verify", NEW a \in db.admissions
        PROVE  a.before # Arg(c).prior.context
    <3>1. LocateTerminal(c)
      <4>1. Start(c) \/ Step(c) \/ Abort(c)
        BY <1>1, <2>1, <2>3 DEF Next, Finished, vars
      <4> QED
        BY <1>1, <2>3, <4>1 DEF IInv, TypeOK, Start, Step, VerifyPrior, VerifyStore,
           SaveSourceRun, SaveSourceReplay, Return, Abort, Check
    <3>2. Children(db, Arg(c).prior.context) = {}
      BY <1>1, <2>3, <3>1 DEF IInv, TypeOK, LocateTerminal, Check
    <3>3. AfterOf(a) \in db.lineages /\ a \in AllReplays
      BY <1>1, InvFields, StoredReplay, DatabaseFields DEF IInv
    <3>4. Parent(AfterOf(a)) = a.before
      BY <3>3, OwnRow
    <3> QED BY <3>2, <3>3, <3>4 DEF Children
  <2> QED BY <2>2, <2>3
<1>2. IInv /\ [Next]_vars => [\A c \in Conns : Safe(c)]_vars
  BY <1>1
<1> QED BY <1>2, Invariance, PTL DEF Spec, RetryIsSafe

=============================================================================
