--------------------------- MODULE ReplayLedger ---------------------------
(***************************************************************************)
(* What the store promises about native replays, without its tables, its   *)
(* transactions or its connections: a replay is admitted at most once, at  *)
(* one instant; an admission is for good; it uses up its nonce and the     *)
(* resolution of its case by its artifact set; and only an admitted replay *)
(* is ever acknowledged.                                                   *)
(***************************************************************************)
EXTENDS ReplayCases

CONSTANT Replays

VARIABLES
  admitted,  \* the replays the store holds
  acked      \* the replays some caller was told are stored

Init == admitted = {} /\ acked = {}

Admit(q) ==
  /\ q \notin admitted
  /\ \A p \in admitted : p.nonce # q.nonce /\ ~SameAdmissionKey(p, q)
  /\ admitted' = admitted \cup {q}
  /\ UNCHANGED acked

Acknowledge(q) ==
  /\ q \in admitted
  /\ acked' = acked \cup {q}
  /\ UNCHANGED admitted

Next == \E q \in Replays : Admit(q) \/ Acknowledge(q)

Spec == Init /\ [][Next]_<<admitted, acked>>
=============================================================================
