--------------------------- MODULE MCSourceStore ---------------------------
(***************************************************************************)
(* One root x with two documents.  Mutation m1 turns x into y and m2 turns *)
(* it back, so two lineages lead to one case.                              *)
(***************************************************************************)
EXTENDS SourceStore, TLC

CONSTANTS x, y, d1, d2, m1, m2, r1, r2, a1, a2, a3, e1, e2, n1, n2, n3, k1, k2

MCSupersedes == (a1 :> (d1 :> None @@ d2 :> None)) @@ (a2 :> (d1 :> a1))
                @@ (a3 :> (d1 :> a1 @@ d2 :> a1))
MCEffect == (m1 :> y) @@ (m2 :> x)

MCOp(r, a, before, after, n) ==
  [resolution |-> r, artifacts |-> a, source |-> before, resolved |-> after,
   nonce |-> n]
At(p) == [root |-> x, path |-> p]
SourceRunAt(p, e) == [context |-> At(p), phase |-> "SOURCE", evidence |-> e]
ReplayAt(p, o) == [before |-> At(p), op |-> o]

First == MCOp(r1, a1, e1, e1, n1)
\* A resolution of its own on the same before run.
Sibling == MCOp(r2, a1, e1, e2, n2)
\* A second resolution of the first one's result, of all its documents or one.
Chained == MCOp(r2, a3, e1, e1, n3)
Partial == MCOp(r2, a2, e1, e1, n3)
\* The first resolution approved again.
Again == MCOp(r1, a1, e1, e1, n2)

MCRuns == {SourceRunAt(<<>>, e1), SourceRunAt(<<First, m1>>, None)}
MCReplays == {ReplayAt(<<>>, First), ReplayAt(<<>>, Sibling),
              ReplayAt(<<m1, m2>>, Again), ReplayAt(<<m1, m2>>, First),
              ReplayAt(<<First>>, Partial), ReplayAt(<<First>>, Chained)}
MCContinuations == {[prior |-> SourceRunAt(<<>>, e1), op |-> Sibling],
                    [prior |-> SourceAfter(ReplayAt(<<>>, First)), op |-> Chained]}

LocatorOnly == {SourceRunAt(<<>>, e1)}
NoReplays == {}
TwoContinuations == {[prior |-> SourceRunAt(<<>>, e1), op |-> o] : o \in {First, Sibling}}
=============================================================================
