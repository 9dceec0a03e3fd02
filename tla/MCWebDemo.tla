----------------------------- MODULE MCWebDemo -----------------------------
(* A server of one slot, one page, and three scenarios.                    *)
EXTENDS WebDemo

MCStatus ==
  [m \in Mutations \cup {Pack} |->
     CASE m = "M001_STALE_SOP_CONFLICT" -> "CONTRADICTED"
       [] m = "M002_MISSING_VALIDATION" -> "UNVERIFIABLE"
       [] OTHER -> "PASS"]
=============================================================================
