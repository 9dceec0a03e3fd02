-------------------------- MODULE ReferenceContext --------------------------
(***************************************************************************)
(* Sealed reference contexts (controlled_references.py) and what a         *)
(* resolution makes of them (prepare_artifact_context).  A raw artifact is *)
(* [revision, source], the source standing for its bytes; the raw          *)
(* inspection record also cites a revision of each role.  A context is     *)
(*   inspection   identity of the inspection record in force               *)
(*   claims       role -> identity, what that record says it used          *)
(*   targets      role -> identity of the raw document in force            *)
(* and None is the refusal of a bundle.                                    *)
(***************************************************************************)
EXTENDS CaseRules

Controlled == Roles \cup {"INSPECTION_RECORD"}

\* _finalize_inspection_reference_with_registry: the cells name a revision, the
\* hash is the registry's.
Cites(cites, registry) == \A role \in Roles : cites[role] = registry[role].revision

\* Mutant: the claims are brought up to date with the documents in force.
SealedOverTargets(inspection, claims, registry, targets) ==
  IF registry = targets
  THEN [inspection |-> inspection, claims |-> targets, targets |-> targets]
  ELSE None

\* _seal_controlled_reference_context_from_registry: the registry has to agree
\* with the raw documents; the claims are those of the inspection record.
Sealed(inspection, claims, registry, targets) ==
  IF registry = targets
  THEN [inspection |-> inspection, claims |-> claims, targets |-> targets]
  ELSE None

\* Mutant: the replaced roles are not entered anew.
RegistryOfClaims(context, raw) == context.claims

\* The registry starts from the claims of the context before, and only the roles
\* this bundle replaces are entered anew.
Registry(context, raw) ==
  [role \in Roles |-> IF role \in DOMAIN raw THEN raw[role] ELSE context.claims[role]]

\* prepare_artifact_context for the artifacts raw, a function of the replaced
\* document types; cites is what a replaced inspection record says.
Replaced(context, raw, cites) ==
  LET registry == Registry(context, raw)
      targets == [role \in Roles |->
                    IF role \in DOMAIN raw THEN raw[role] ELSE context.targets[role]]
  IN IF DOMAIN raw \cap Controlled = {} THEN context
     ELSE IF "INSPECTION_RECORD" \notin DOMAIN raw
     THEN Sealed(context.inspection, context.claims, registry, targets)
     ELSE IF Cites(cites, registry)
     THEN Sealed(raw["INSPECTION_RECORD"], registry, registry, targets)
     ELSE None
=============================================================================
