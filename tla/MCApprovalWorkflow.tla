------------------------- MODULE MCApprovalWorkflow -------------------------
(* A small instance of the approval workflow.                              *)
EXTENDS ApprovalWorkflow

Record(id, role, key, from, issued) ==
  [id |-> id, role |-> role, key |-> key, domain |-> "home",
   from |-> from, issued |-> issued, until |-> 3, signer |-> key]

Manager == Record(1, "QUALITY_MANAGER", "k1", 1, 2)
Reissued == Record(1, "QUALITY_MANAGER", "k1", 1, 1)  \* the same id, other bytes
Owner == Record(2, "PROCESS_OWNER", "k2", 2, 2)
Early == Record(2, "PROCESS_OWNER", "k2", 1, 2)       \* before the key of its issuer
Late == [Record(2, "PROCESS_OWNER", "k2", 2, 2) EXCEPT !.until = 5]
Foreign == [Owner EXCEPT !.domain = "foreign"]
Damaged == [Owner EXCEPT !.signer = "nobody"]
Stranger == Record(3, "PROCESS_OWNER", "k3", 2, 2)    \* of an issuer not listed
Second == Record(3, "QUALITY_MANAGER", "k2", 2, 2)    \* of an issuer of the other role

MCRecords ==
  {Manager, Reissued, Owner, Early, Late, Foreign, Damaged, Stranger, Second}

MCPacks ==
  {<<Manager, p>> : p \in {Owner, Early, Late, Foreign, Damaged, Stranger, Second}}
    \cup {<<Reissued, Owner>>, <<Reissued, Stranger>>, <<Manager>>, <<Owner, Second>>,
          <<Manager, Owner, Stranger>>, <<Foreign, Second>>}

Key(id, roles, from, status) ==
  [id |-> id, roles |-> roles, from |-> from, until |-> 4, status |-> status, public |-> id]

Keys(status1, status2) ==
  <<Key("k1", {"QUALITY_MANAGER"}, 1, status1), Key("k2", {"PROCESS_OWNER"}, 2, status2)>>

Snapshot(keys) == [policy |-> TRUE, signed |-> TRUE, keys |-> keys]

MCSnapshots ==
  {Snapshot(Keys(a, b)) : a, b \in {"ACTIVE", "REVOKED", "UNKNOWN"}}
    \cup {[Snapshot(Keys("ACTIVE", "ACTIVE")) EXCEPT !.policy = FALSE],
          [Snapshot(Keys("ACTIVE", "ACTIVE")) EXCEPT !.signed = FALSE],
          Snapshot(<<Key("k1", {"QUALITY_MANAGER"}, 1, "ACTIVE"),
                     Key("k1", {"PROCESS_OWNER"}, 1, "ACTIVE")>>)}

Doc(facts, source) == [facts |-> facts, source |-> source]

\* The SOP is contradicted; its replacement is ready to be approved.
MCWork ==
  [case |-> [content |-> "change", approvals |-> "CURRENT",
             docs |-> [d \in {"SOP", "PFMEA"} |->
                         IF d = "SOP" THEN Doc("wrong", "old") ELSE Doc("right", "old")]],
   resolution |-> [text |-> "why", ops |-> [d \in {"SOP"} |-> "right"]],
   artifacts |-> [d \in {"SOP"} |->
                    [supersedes |-> Doc("wrong", "old"), facts |-> "right", source |-> "new"]],
   references |-> "pack"]
=============================================================================
