------------------------ MODULE MCVerificationCaches ------------------------
(* One entity whose evaluation selects one row and loads another.           *)
EXTENDS VerificationCaches, TLC

CONSTANTS binding, case, bundle, p, q

MCDirect == binding :> {case}
MCLoaded == binding :> {bundle}
Alike == Permutations({p, q})
=============================================================================
