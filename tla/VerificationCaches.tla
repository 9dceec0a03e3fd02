------------------------- MODULE VerificationCaches -------------------------
(***************************************************************************)
(* The verdicts a store object keeps while it verifies.  A verification    *)
(* asks for the same entity many times; verify_audit_chain gives the       *)
(* object dictionaries for the verdicts and takes them away at its end.    *)
(* The verdicts of one kind are found by the state of the SQLite           *)
(* connection and the entity, those of the others by the entity alone; and *)
(* evaluations share what they load from bytes.                            *)
(*                                                                         *)
(* A verdict is what was read for it.  One store object is modelled, with  *)
(* its own transactions; the other connections only commit.                *)
(***************************************************************************)
EXTENDS Integers, FiniteSets

CONSTANTS
  Rows,        \* rows of the store, by their keys
  Entities,    \* the rows that are verified
  Direct,      \* entity -> the other rows its evaluation selects
  Loaded,      \* entity -> the rows it takes from a loaded context
  Values,      \* what a row can hold
  Absent,      \* no row, no dictionary, no lookup
  MaxChanges,  \* bound on the rows this connection inserts, for TLC
  MaxCommits   \* bound on the commits of others, for TLC

ASSUME CachesAssumption ==
  /\ Entities \subseteq Rows
  /\ Direct \in [Entities -> SUBSET Rows]
  /\ Loaded \in [Entities -> SUBSET Rows]
  /\ Absent \notin Values
  /\ MaxChanges \in Nat /\ MaxCommits \in Nat

VARIABLES
  rows,          \* the committed rows
  working,       \* the working copy of this connection's transaction, or Absent
  totalChanges,  \* Connection.total_changes
  dataVersion,   \* PRAGMA data_version: 1 and more with each commit of another
  verifying,     \* verify_audit_chain is running
  verdicts,      \* the dictionaries of verdicts by kind, each a set or Absent
  contexts,      \* the dictionaries of loaded contexts, a set or Absent
  stage,         \* where a lookup is
  check,         \* the lookup, or Absent
  begun          \* history: dataVersion when the verification began

store == <<rows, working, totalChanges, dataVersion>>
cacheVars == <<store, verifying, verdicts, contexts, stage, check, begun>>

\* Verdicts of admissions are found by their hash, those of runs by their
\* columns, those of evidence sets, consumptions, expectations, baseline,
\* ledger and validation bindings by the connection's state as well.
Kinds == {"hash", "content", "semantic"}

Reading == [row : Rows, content : Values \cup {Absent}]
Key == [entity : Entities, content : Values \cup {Absent}, changes : Int, version : Int]
Lookup == [entity : Entities, kind : Kinds, content : Values, key : Key \cup {Absent},
           direct : SUBSET Reading, loaded : SUBSET Reading]
Verdict == [key : Key, content : Values, direct : SUBSET Reading,
            loaded : SUBSET Reading]

View == IF working = Absent THEN rows ELSE working

\* Type invariant of the counters, the dictionaries and the lookup that is made.
CacheTypeOK ==
  /\ rows \in [Rows -> Values \cup {Absent}]
  /\ working = Absent \/ working \in [Rows -> Values \cup {Absent}]
  /\ totalChanges \in 0..MaxChanges
  /\ dataVersion \in 1..(MaxCommits + 1)
  /\ verifying \in BOOLEAN
  /\ \A k \in Kinds : verdicts[k] = Absent \/ verdicts[k] \subseteq Verdict
  /\ contexts = Absent \/ contexts \subseteq Reading
  /\ stage \in {"idle", "lookup", "read"}
  /\ check = Absent \/ check \in Lookup
  /\ stage # "idle" => check \in Lookup
  /\ begun \in 1..(MaxCommits + 1)

NoVerdicts == [k \in Kinds |-> Absent]

CacheInit ==
  /\ rows \in [Rows -> Values \cup {Absent}]
  /\ working = Absent
  /\ totalChanges = 0
  /\ dataVersion = 1
  /\ verifying = FALSE
  /\ verdicts = NoVerdicts
  /\ contexts = Absent
  /\ stage = "idle"
  /\ check = Absent
  /\ begun = 1

(***************************************************************************)
(* The database                                                            *)
(***************************************************************************)

\* The thread of this connection is in none of the functions below.
Free == stage = "idle" /\ ~verifying

\* The first INSERT of a transaction takes the write lock.
BeginTransaction ==
  /\ Free /\ working = Absent
  /\ working' = rows
  /\ UNCHANGED <<rows, totalChanges, dataVersion, verifying, verdicts, contexts, stage,
                 check, begun>>

\* INSERT OR IGNORE of a row that is missing.
Insert(r, v) ==
  /\ Free /\ working # Absent
  /\ working[r] = Absent
  /\ totalChanges < MaxChanges
  /\ working' = [working EXCEPT ![r] = v]
  /\ totalChanges' = totalChanges + 1
  /\ UNCHANGED <<rows, dataVersion, verifying, verdicts, contexts, stage, check, begun>>

\* Neither end of a transaction changes total_changes or this connection's
\* data_version.
EndTransaction ==
  /\ Free /\ working # Absent
  /\ rows' \in {rows, working}
  /\ working' = Absent
  /\ UNCHANGED <<totalChanges, dataVersion, verifying, verdicts, contexts, stage, check,
                 begun>>

\* Another connection adds a row, or one is changed from outside the program.
OtherCommit(r, v) ==
  /\ working = Absent
  /\ rows[r] # v
  /\ dataVersion <= MaxCommits
  /\ rows' = [rows EXCEPT ![r] = v]
  /\ dataVersion' = dataVersion + 1
  /\ UNCHANGED <<working, totalChanges, verifying, verdicts, contexts, stage, check, begun>>

(***************************************************************************)
(* verify_audit_chain and the dictionaries it provides                     *)
(***************************************************************************)

\* In a structural pass (_semantic=False) there are none of the "semantic" kind.
BeginVerify(semantic) ==
  /\ Free
  /\ verifying' = TRUE
  /\ verdicts' = [k \in Kinds |-> IF k = "semantic" /\ ~semantic THEN Absent ELSE {}]
  /\ contexts' = {}
  /\ begun' = dataVersion
  /\ UNCHANGED <<store, stage, check>>

\* Variant: the dictionaries are left in place.
EndVerifyKeeping ==
  /\ verifying
  /\ verifying' = FALSE
  /\ stage' = "idle"
  /\ check' = Absent
  /\ UNCHANGED <<store, verdicts, contexts, begun>>

\* The finally block: after a verdict, or after an exception anywhere.
EndVerify ==
  /\ verifying
  /\ verifying' = FALSE
  /\ verdicts' = NoVerdicts
  /\ contexts' = Absent
  /\ stage' = "idle"
  /\ check' = Absent
  /\ UNCHANGED <<store, begun>>

\* Variant: commits of others are not part of the key.
SemanticKeyOfChanges(e, v) ==
  [entity |-> e, content |-> v, changes |-> totalChanges, version |-> 0]

\* _verification_semantic_cache_key
SemanticKey(e, v) ==
  [entity |-> e, content |-> v, changes |-> totalChanges, version |-> dataVersion]

ContentKey(e, v) == [entity |-> e, content |-> v, changes |-> 0, version |-> 0]
HashKey(e) == [entity |-> e, content |-> Absent, changes |-> 0, version |-> 0]

KeyOf(k, e, v) ==
  IF k = "semantic" THEN SemanticKey(e, v)
  ELSE IF k = "content" THEN ContentKey(e, v) ELSE HashKey(e)

\* The caller has read the entity and asks for its verdict; with no verification
\* running too.
Fetch(e, k) ==
  /\ stage = "idle"
  /\ View[e] # Absent
  /\ check' = [entity |-> e, kind |-> k, content |-> View[e],
               key |-> Absent, direct |-> {}, loaded |-> {}]
  /\ stage' = "lookup"
  /\ UNCHANGED <<store, verifying, verdicts, contexts, begun>>

\* The key is computed after the entity was read.
CheckKey == KeyOf(check.kind, check.entity, check.content)

\* The verdict that the lookup is answered with, if there is one.
Hits ==
  IF stage # "lookup" \/ verdicts[check.kind] = Absent THEN {}
  ELSE {x \in verdicts[check.kind] : x.key = CheckKey}

Answer ==
  /\ stage = "lookup"
  /\ Hits # {}
  /\ stage' = "idle"
  /\ check' = Absent
  /\ UNCHANGED <<store, verifying, verdicts, contexts, begun>>

Miss ==
  /\ stage = "lookup"
  /\ Hits = {}
  /\ check' = [check EXCEPT !.key = CheckKey]
  /\ stage' = "read"
  /\ UNCHANGED <<store, verifying, verdicts, contexts, begun>>

(***************************************************************************)
(* The evaluation of an entity                                             *)
(***************************************************************************)

ReadSoFar(readings) == {p.row : p \in readings}

\* A SELECT sees the rows of its own moment.
ReadRow(r) ==
  /\ stage = "read"
  /\ r \in Direct[check.entity] \ ReadSoFar(check.direct)
  /\ check' = [check EXCEPT !.direct = @ \cup {[row |-> r, content |-> View[r]]}]
  /\ UNCHANGED <<store, verifying, verdicts, contexts, stage, begun>>

Missing(readings) == \E p \in readings : p.content = Absent

\* _stored_validation_context and _stored_authorization_authenticity_context
\* prepare a context once in a verification; without its bytes there is none.
LoadContext(r) ==
  /\ stage = "read" /\ ~Missing(check.loaded)
  /\ r \in Loaded[check.entity] \ ReadSoFar(check.loaded)
  /\ LET known == IF contexts = Absent THEN {} ELSE {p \in contexts : p.row = r}
         fresh == [row |-> r, content |-> View[r]]
     IN \E p \in IF known = {} THEN {fresh} ELSE known :
          /\ check' = [check EXCEPT !.loaded = @ \cup {p}]
          /\ contexts' = IF contexts = Absent \/ p.content = Absent THEN contexts
                         ELSE contexts \cup {p}
  /\ UNCHANGED <<store, verifying, verdicts, stage, begun>>

\* Everything is read, or a context could not be prepared: a negative verdict.
Conclude ==
  /\ stage = "read"
  /\ \/ Missing(check.loaded)
     \/ /\ ReadSoFar(check.direct) = Direct[check.entity]
        /\ ReadSoFar(check.loaded) = Loaded[check.entity]
  /\ verdicts' = [verdicts EXCEPT ![check.kind] =
       IF @ = Absent THEN Absent
       ELSE @ \cup {[key |-> check.key, content |-> check.content,
                     direct |-> check.direct, loaded |-> check.loaded]}]
  /\ stage' = "idle"
  /\ check' = Absent
  /\ UNCHANGED <<store, verifying, contexts, begun>>

CacheNext ==
  \/ BeginTransaction \/ EndTransaction
  \/ \E r \in Rows, v \in Values : Insert(r, v) \/ OtherCommit(r, v)
  \/ \E semantic \in BOOLEAN : BeginVerify(semantic)
  \/ EndVerify
  \/ \E e \in Entities, k \in Kinds : Fetch(e, k)
  \/ Answer \/ Miss
  \/ \E r \in Rows : ReadRow(r) \/ LoadContext(r)
  \/ Conclude

CacheSpec == CacheInit /\ [][CacheNext]_cacheVars

(***************************************************************************)
(* Properties                                                              *)
(***************************************************************************)

Current(readings) == \A p \in readings : p.content = View[p.row]

\* "Bind a cached result to the exact entity and current SQLite snapshot": a
\* verdict of the semantic kind is used only while every row its evaluation
\* selected is as it was, also with commits of others in the middle of it, and
\* however this connection's own transactions ended before.
SelectsAreCurrent ==
  \A x \in Hits : check.kind = "semantic" =>
    x.content = check.content /\ Current(x.direct)

\* A verdict of any kind, and the contexts it rests on, are as good as a new
\* evaluation unless another connection has committed since the verification
\* began; no verdict is used in a later one, nor after a rollback.
VerdictsAreCurrent ==
  \A x \in Hits : dataVersion = begun =>
    x.content = check.content /\ Current(x.direct) /\ Current(x.loaded)
=============================================================================
