--------------------------- MODULE Authorization ---------------------------
(***************************************************************************)
(* Who may approve: authorization records, the trust snapshot that lists   *)
(* the keys of their issuers, and the verdict of                           *)
(* prepare_authorization_authenticity_context about one record.  There is  *)
(* no clock: every window is compared with other written dates only.       *)
(*                                                                         *)
(*   record    [id, role, key, domain, from, issued, until, signer]        *)
(*   bundle    [signed, records]  records in the order of their ids        *)
(*   snapshot  [policy, signed, keys]  keys: two of                        *)
(*             [id, roles, from, until, status, public]                    *)
(*                                                                         *)
(* signer is the public key under which the signature of the record        *)
(* verifies; policy and signed say that the snapshot has the fields of the *)
(* fixed policy and the signature of its anchor.  The hash of a record is  *)
(* the record.                                                             *)
(***************************************************************************)
EXTENDS Integers, Sequences

CONSTANTS
  Records,    \* the authorization records ever issued
  Snapshots,  \* the trust snapshots ever issued
  Home        \* the trust domain of the fixed policy

Approvers == {"PROCESS_OWNER", "QUALITY_MANAGER"}
Verdicts == {"PASS", "CONTRADICTED", "UNVERIFIABLE"}

\* What _validate_record and _snapshot_value accept.
RecordShape(r) ==
  /\ {r.id, r.from, r.issued, r.until} \subseteq Nat
  /\ r.role \in Approvers
  /\ r.from <= r.issued /\ r.issued <= r.until

SnapshotShape(s) ==
  /\ {s.policy, s.signed} \subseteq BOOLEAN
  /\ DOMAIN s.keys = 1..2
  /\ \A i \in 1..2 : /\ s.keys[i].from \in Nat /\ s.keys[i].until \in Nat
                     /\ s.keys[i].from <= s.keys[i].until
                     /\ s.keys[i].status \in {"ACTIVE", "REVOKED", "UNKNOWN"}

ASSUME AuthorizationAssumption ==
  /\ \A r \in Records : RecordShape(r)
  /\ \A s \in Snapshots : SnapshotShape(s)

\* A pack lists its members in the order of their distinct ids.
Pack(records) ==
  /\ records \in Seq(Records)
  /\ records # <<>>
  /\ \A i, j \in 1..Len(records) : i < j => records[i].id < records[j].id

\* Mutant: the snapshot may list one key twice.
SnapshotIsTrustedTwice(s) == s.policy /\ s.signed

SnapshotIsTrusted(s) == s.policy /\ s.keys[1].id # s.keys[2].id /\ s.signed

\* The roles of the records are the required ones, each once.
RolesAreComplete(records) ==
  /\ Len(records) = 2
  /\ {records[i].role : i \in 1..Len(records)} = Approvers

\* Mutant: the window of the record may outlive that of its key.
CapableNow(key, r) ==
  /\ r.role \in key.roles
  /\ key.from <= r.from
  /\ key.public = r.signer

Capable(key, r) ==
  /\ r.role \in key.roles
  /\ key.from <= r.from /\ r.from <= r.issued
  /\ r.issued <= r.until /\ r.until <= key.until
  /\ key.public = r.signer

Listed(s, r) == {i \in 1..2 : s.keys[i].id = r.key}

\* The body of the loop over the records: what the key of its issuer says of a
\* record, and the early returns for one record.
KeyVerdict(key, r) ==
  IF key.status = "UNKNOWN" THEN "UNVERIFIABLE"
  ELSE IF key.status # "REVOKED" /\ Capable(key, r) THEN "PASS" ELSE "CONTRADICTED"

RecordVerdict(s, r) ==
  IF r.domain # Home THEN "CONTRADICTED"
  ELSE IF Listed(s, r) = {} THEN "UNVERIFIABLE"
  ELSE KeyVerdict(s.keys[CHOOSE i \in Listed(s, r) : TRUE], r)

\* What the verdicts are for, without an order: a record somebody vouches for,
\* and one that is refuted.
Trusted(s, r) ==
  /\ s.policy /\ s.signed /\ r.domain = Home
  /\ \E i \in 1..2 : /\ s.keys[i].id = r.key
                     /\ s.keys[i].id # s.keys[3 - i].id
                     /\ s.keys[i].status = "ACTIVE"
                     /\ r.role \in s.keys[i].roles
                     /\ s.keys[i].from <= r.from /\ r.until <= s.keys[i].until
                     /\ s.keys[i].public = r.signer

Refuted(s, r) ==
  \/ r.domain # Home
  \/ \E i \in 1..2 : /\ s.keys[i].id = r.key
                     /\ \/ s.keys[i].status = "REVOKED"
                        \/ /\ s.keys[i].status = "ACTIVE"
                           /\ \/ r.role \notin s.keys[i].roles
                              \/ r.from < s.keys[i].from
                              \/ s.keys[i].until < r.until
                              \/ s.keys[i].public # r.signer
=============================================================================
