---------------------------- MODULE StoreSchema ----------------------------
(***************************************************************************)
(* How a store gets its tables (store.py): an empty file is given the      *)
(* whole schema when it is opened, table by table and each one committed   *)
(* on its own; a store from before the A08 tables is migrated by           *)
(* migrate_a08_schema, in one transaction.  What save_run has to write     *)
(* depends on the profile it finds, so runs are part of the model.         *)
(***************************************************************************)
EXTENDS Naturals, FiniteSets, Sequences, SequencesExt

CONSTANTS
  Conns,       \* connections of one or several processes
  BaseTables,  \* the tables every store has, in the order of the script
  A08Tables,   \* the tables of _A08_TABLE_DDL, in their order
  Runs,        \* plain runs of one registered case
  None         \* nobody, no run

ASSUME SchemaAssumption ==
  /\ None \notin Conns \cup Runs
  /\ BaseTables \in Seq(ToSet(BaseTables)) /\ A08Tables \in Seq(ToSet(A08Tables))
  /\ BaseTables # <<>> /\ A08Tables # <<>>
  /\ \A i, j \in 1..Len(A08Tables) : A08Tables[i] = A08Tables[j] => i = j
  /\ ToSet(BaseTables) \cap ToSet(A08Tables) = {}

Base == ToSet(BaseTables)
A08 == ToSet(A08Tables)
Schema == BaseTables \o A08Tables

\* tables is sqlite_master; linked is run_case_source_sets, whose run_id
\* references a run.
Database ==
  {d \in [tables : SUBSET (Base \cup A08), runs : SUBSET Runs, linked : SUBSET Runs] :
     d.linked \subseteq d.runs}

VARIABLES
  db,        \* the committed database
  tx,        \* the lock holder's uncommitted copy
  holder,    \* the connection that holds the write lock, or None
  pc,        \* where each connection is
  created,   \* how many statements of the schema each creator has executed
  profile,   \* the feature profile each connection read last
  saving,    \* the run each connection is saving, or None
  early,     \* history: runs committed before the A08 tables were complete
  migrators, \* history: connections whose migration returned True
  creators,  \* history: connections that created the schema to its end
  abandoned     \* history: a creator was killed, or timed out on the lock

tracking == <<early, migrators, creators, abandoned>>
vars == <<db, tx, holder, pc, created, profile, saving, tracking>>

Profile(d) ==
  IF ~(Base \subseteq d.tables) THEN "PARTIAL"
  ELSE IF d.tables \cap A08 = {} THEN "LEGACY"
  ELSE IF A08 \subseteq d.tables THEN "A08" ELSE "PARTIAL"

\* verify_audit_chain, as far as it depends on the profile: in a store with the
\* A08 tables every run needs its UNBOUND row.
Verifies(d) == Profile(d) = "A08" => d.linked = d.runs

Stages == {"closed", "create", "created", "open", "migrate", "alter", "alter_commit",
           "save_profile", "save_begin", "save_insert", "save_check", "save_commit"}

\* Type invariant of the tables and of the opening and saving of each connection.
TypeOK ==
  /\ db \in Database
  /\ tx \in Database
  /\ holder \in Conns \cup {None}
  /\ pc \in [Conns -> Stages]
  /\ created \in [Conns -> 0..Len(Schema)]
  /\ profile \in [Conns -> {"PARTIAL", "LEGACY", "A08"}]
  /\ saving \in [Conns -> Runs \cup {None}]
  /\ early \subseteq Runs
  /\ migrators \subseteq Conns
  /\ creators \subseteq Conns
  /\ abandoned \in BOOLEAN

\* A new file, or a store written before the A08 tables existed.
Init ==
  /\ \E t \in {{}, Base} : db = [tables |-> t, runs |-> {}, linked |-> {}]
  /\ tx = db
  /\ holder = None
  /\ pc = [c \in Conns |-> "closed"]
  /\ created = [c \in Conns |-> 0]
  /\ profile = [c \in Conns |-> "PARTIAL"]
  /\ saving = [c \in Conns |-> None]
  /\ early = {}
  /\ migrators = {}
  /\ creators = {}
  /\ abandoned = FALSE

GoTo(c, s) == pc' = [pc EXCEPT ![c] = s]

\* An exception or the end of the process; s is where the connection is left.
Leave(c, s) ==
  /\ GoTo(c, s)
  /\ holder' = IF holder = c THEN None ELSE holder
  /\ tx' = IF holder = c THEN db ELSE tx
  /\ saving' = [saving EXCEPT ![c] = None]
  /\ UNCHANGED <<db, created, profile, early, migrators, creators>>

(***************************************************************************)
(* __init__                                                                *)
(***************************************************************************)

\* A partial store is refused, for good.
Open(c) ==
  /\ pc[c] = "closed"
  /\ \/ /\ db.tables = {}
        /\ GoTo(c, "create")
        /\ created' = [created EXCEPT ![c] = 0]
     \/ /\ db.tables # {}
        /\ Profile(db) # "PARTIAL"
        /\ GoTo(c, "open")
        /\ UNCHANGED created
     \/ /\ db.tables # {}
        /\ Profile(db) = "PARTIAL"
        /\ UNCHANGED <<pc, created>>
  /\ UNCHANGED <<db, tx, holder, profile, saving, tracking>>

\* One statement of _create_schema.  The base tables are created IF NOT EXISTS,
\* the A08 tables are not.
CreateTable(c) ==
  LET t == Schema[created[c] + 1]
      exists == t \in A08 /\ t \in db.tables
  IN  /\ pc[c] = "create"
      /\ \/ /\ holder = None /\ ~exists
            /\ db' = [db EXCEPT !.tables = @ \cup {t}]
            /\ tx' = db'
            /\ created' = [created EXCEPT ![c] = @ + 1]
            /\ GoTo(c, IF created'[c] = Len(Schema) THEN "created" ELSE "create")
            /\ UNCHANGED <<holder, profile, saving, tracking>>
         \/ /\ holder # None
            /\ Leave(c, "closed")
            /\ abandoned' = TRUE
         \/ /\ holder = None /\ exists
            /\ Leave(c, "closed")
            /\ UNCHANGED abandoned

CheckCreated(c) ==
  /\ pc[c] = "created"
  /\ UNCHANGED abandoned
  /\ \/ /\ Profile(db) = "A08"
        /\ creators' = creators \cup {c}
        /\ GoTo(c, "open")
        /\ UNCHANGED <<db, tx, holder, created, profile, saving, early, migrators>>
     \/ Profile(db) # "A08" /\ Leave(c, "closed")

(***************************************************************************)
(* migrate_a08_schema                                                      *)
(***************************************************************************)

\* Its profile is read before the transaction.
Migrate(c) ==
  /\ pc[c] = "open"
  /\ Profile(db) = "LEGACY"
  /\ GoTo(c, "migrate")
  /\ UNCHANGED <<db, tx, holder, created, profile, saving, tracking>>

\* BEGIN IMMEDIATE, or "database is locked".
BeginMigration(c) ==
  /\ pc[c] = "migrate"
  /\ UNCHANGED abandoned
  /\ \/ /\ holder = None
        /\ holder' = c
        /\ tx' = db
        /\ created' = [created EXCEPT ![c] = 0]
        /\ GoTo(c, "alter")
        /\ UNCHANGED <<db, profile, saving, early, migrators, creators>>
     \/ holder # None /\ Leave(c, "open")

\* Variant: each table is committed on its own.
AlterTableCommitting(c) ==
  LET t == A08Tables[created[c] + 1]
  IN  /\ pc[c] = "alter"
      /\ UNCHANGED abandoned
      /\ \/ /\ t \notin tx.tables
            /\ tx' = [tx EXCEPT !.tables = @ \cup {t}]
            /\ db' = tx'
            /\ created' = [created EXCEPT ![c] = @ + 1]
            /\ GoTo(c, IF created'[c] = Len(A08Tables) THEN "alter_commit" ELSE "alter")
            /\ UNCHANGED <<holder, profile, saving, early, migrators, creators>>
         \/ t \in tx.tables /\ Leave(c, "open")

\* Variant: CREATE TABLE IF NOT EXISTS.
AlterTableIfMissing(c) ==
  LET t == A08Tables[created[c] + 1]
  IN  /\ pc[c] = "alter"
      /\ tx' = [tx EXCEPT !.tables = @ \cup {t}]
      /\ created' = [created EXCEPT ![c] = @ + 1]
      /\ GoTo(c, IF created'[c] = Len(A08Tables) THEN "alter_commit" ELSE "alter")
      /\ UNCHANGED <<db, holder, profile, saving, early, migrators, creators, abandoned>>

\* One CREATE TABLE of the migration; it fails when the table is there already.
AlterTable(c) ==
  LET t == A08Tables[created[c] + 1]
  IN  /\ pc[c] = "alter"
      /\ UNCHANGED abandoned
      /\ \/ /\ t \notin tx.tables
            /\ tx' = [tx EXCEPT !.tables = @ \cup {t}]
            /\ created' = [created EXCEPT ![c] = @ + 1]
            /\ GoTo(c, IF created'[c] = Len(A08Tables) THEN "alter_commit" ELSE "alter")
            /\ UNCHANGED <<db, holder, profile, saving, early, migrators, creators>>
         \/ t \in tx.tables /\ Leave(c, "open")

CommitMigration(c) ==
  /\ pc[c] = "alter_commit"
  /\ UNCHANGED abandoned
  /\ \/ /\ Profile(tx) = "A08"
        /\ db' = tx
        /\ holder' = None
        /\ migrators' = migrators \cup {c}
        /\ GoTo(c, "open")
        /\ UNCHANGED <<tx, created, profile, saving, early, creators>>
     \/ Profile(tx) # "A08" /\ Leave(c, "open")

(***************************************************************************)
(* save_run without bundles                                                *)
(***************************************************************************)

\* The store must verify before anything else is looked at.
SaveRun(c) ==
  /\ pc[c] = "open"
  /\ Verifies(db)
  /\ \E r \in Runs : saving' = [saving EXCEPT ![c] = r]
  /\ GoTo(c, "save_profile")
  /\ UNCHANGED <<db, tx, holder, created, profile, tracking>>

ReadProfile(c) ==
  /\ pc[c] = "save_profile"
  /\ profile' = [profile EXCEPT ![c] = Profile(db)]
  /\ GoTo(c, "save_begin")
  /\ UNCHANGED <<db, tx, holder, created, saving, tracking>>

BeginSave(c) ==
  /\ pc[c] = "save_begin"
  /\ UNCHANGED abandoned
  /\ \/ /\ holder = None
        /\ holder' = c
        /\ tx' = db
        /\ GoTo(c, "save_insert")
        /\ UNCHANGED <<db, created, profile, saving, early, migrators, creators>>
     \/ holder # None /\ Leave(c, "open")

\* The run, and its UNBOUND row in a store that was found to have the table.
InsertRun(c) ==
  /\ pc[c] = "save_insert"
  /\ tx' = [tx EXCEPT !.runs   = @ \cup {saving[c]},
                      !.linked = IF profile[c] = "A08" THEN @ \cup {saving[c]} ELSE @]
  /\ GoTo(c, "save_check")
  /\ UNCHANGED <<db, holder, created, profile, saving, tracking>>

\* Variant: the last verification relies on the profile read at the beginning.
FinalPreflightOfProfile(c) ==
  /\ pc[c] = "save_check"
  /\ UNCHANGED abandoned
  /\ \/ /\ profile[c] = "A08" => tx.linked = tx.runs
        /\ GoTo(c, "save_commit")
        /\ UNCHANGED <<db, tx, holder, created, profile, saving, early, migrators,
                       creators>>
     \/ ~(profile[c] = "A08" => tx.linked = tx.runs) /\ Leave(c, "open")

\* The last verification reads the profile again, inside the transaction.
FinalPreflight(c) ==
  /\ pc[c] = "save_check"
  /\ UNCHANGED abandoned
  /\ \/ /\ Verifies(tx)
        /\ GoTo(c, "save_commit")
        /\ UNCHANGED <<db, tx, holder, created, profile, saving, early, migrators,
                       creators>>
     \/ ~Verifies(tx) /\ Leave(c, "open")

CommitSave(c) ==
  /\ pc[c] = "save_commit"
  /\ db' = tx
  /\ holder' = None
  /\ saving' = [saving EXCEPT ![c] = None]
  /\ early' = IF Profile(tx) = "A08" THEN early ELSE tx.runs
  /\ GoTo(c, "open")
  /\ UNCHANGED <<tx, created, profile, migrators, creators, abandoned>>

\* A fault or a crash anywhere; the connection is closed.
Abort(c) ==
  /\ pc[c] # "closed"
  /\ Leave(c, "closed")
  /\ abandoned' = (abandoned \/ pc[c] = "create")

Next ==
  \E c \in Conns :
    \/ Open(c) \/ CreateTable(c) \/ CheckCreated(c)
    \/ Migrate(c) \/ BeginMigration(c) \/ AlterTable(c) \/ CommitMigration(c)
    \/ SaveRun(c) \/ ReadProfile(c) \/ BeginSave(c) \/ InsertRun(c)
    \/ FinalPreflight(c) \/ CommitSave(c)
    \/ Abort(c)

Spec == Init /\ [][Next]_vars

(***************************************************************************)
(* Properties                                                              *)
(***************************************************************************)

\* The committed schema has some of the A08 tables and not the others only
\* while a creator is at work or after one was killed or timed out: no failure
\* of a migration and no race of openers leaves such a store, which nobody can
\* open again.
PartialOnlyIfAbandoned ==
  Profile(db) = "PARTIAL" /\ db.tables # {} =>
    abandoned \/ \E c \in Conns : pc[c] = "create"

\* The A08 tables come from one connection: of several migrations and creations
\* at most one succeeds, the others fail or find nothing to do.
OneWinner ==
  /\ Cardinality(migrators) <= 1
  /\ migrators # {} => creators \subseteq migrators

\* A store with the A08 tables fails its verification only for runs committed
\* before it had them, and then it takes no further run: the profile save_run
\* found before its transaction may be out of date by then and adds no other.
EarlyRunFreezes ==
  Profile(db) = "A08" /\ ~Verifies(db) => db.runs = early
=============================================================================
