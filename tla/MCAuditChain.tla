--------------------------- MODULE MCAuditChain ---------------------------
(* Two connections and two rows of two possible contents. *)
EXTENDS AuditChain, TLC

CONSTANTS c1, c2, k1, k2, v1, v2

\* Connections, keys and contents are interchangeable.
Symmetry == Permutations({c1, c2}) \cup Permutations({k1, k2}) \cup Permutations({v1, v2})
=============================================================================
