--------------------------- MODULE MCReplayStore ---------------------------
(***************************************************************************)
(* One case with two documents.  a1 replaces both original documents; a2   *)
(* replaces d1 of the result, a3 both of them.                             *)
(***************************************************************************)
EXTENDS ReplayStore, TLC

CONSTANTS x, d1, d2, r1, r2, a1, a2, a3, e1, e2, n1, n2, k1, k2

MCSupersedes == (a1 :> (d1 :> None @@ d2 :> None)) @@ (a2 :> (d1 :> a1))
                @@ (a3 :> (d1 :> a1 @@ d2 :> a1))

MCReplay(r, a, c, before, after, n) ==
  [resolution |-> r, artifacts |-> a, case |-> c, source |-> before,
   resolved |-> after, nonce |-> n]

First == MCReplay(r1, a1, Original(x), e1, e1, n1)
\* The same approval, other evidence after it: the after run does not pass.
SameSubject == MCReplay(r1, a1, Original(x), e1, e2, n1)
\* The same nonce and before run, another resolution.
SameNonce == MCReplay(r2, a1, Original(x), e1, e1, n1)
\* A resolution of its own on other SOURCE evidence: another before run.
Other == MCReplay(r2, a1, Original(x), e2, e2, n2)
\* A resolution of its own on the same before run.
Sibling == MCReplay(r2, a1, Original(x), e1, e2, n2)
\* A second resolution on top of First, of all its documents or of d1 alone.
Chained == MCReplay(r2, a3, ResolvedCase(First), e1, e1, n2)
Partial == MCReplay(r2, a2, ResolvedCase(First), e1, e1, n2)

OriginalOnly == {Original(x)}
OriginalAndResolved == {Original(x), ResolvedCase(First)}

PlainRun(c) == [case |-> c, lane |-> "PLAIN", evidence |-> None]
NoRuns == {}
PlainAndBefore == {PlainRun(Original(x)), BeforeRun(First)}

AllReplays == {First, SameSubject, SameNonce, Sibling, Other, Chained, Partial}
SecondReplays == {First, Sibling, Partial}
=============================================================================
