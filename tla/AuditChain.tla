---------------------------- MODULE AuditChain ----------------------------
(***************************************************************************)
(* The audit log of the store (store.py): every row that is inserted gets  *)
(* one event, and each event seals the row's fingerprint and the hash of   *)
(* the event before it.                                                    *)
(*                                                                         *)
(* verify_audit_chain outside a transaction is many SELECTs, each of which *)
(* reads what is committed by then.  Between them other connections commit *)
(* and rows are edited behind the store's back.  Hashing is ideal: the     *)
(* hash of an event is the sequence of all it seals.                       *)
(***************************************************************************)
EXTENDS Naturals, Sequences, SequencesExt

CONSTANTS
  Conns,      \* connections
  Keys,       \* primary keys of audited rows, over all tables
  Contents,   \* what a row can hold besides its key; its fingerprint
  None,       \* no row, nobody
  MaxSaves,   \* bound on the transactions of a behaviour
  MaxChecks,  \* bound on its verifications
  MaxEdits    \* bound on the edits behind the store's back

ASSUME ChainAssumption ==
  /\ None \notin Conns \cup Keys \cup Contents
  /\ {MaxSaves, MaxChecks, MaxEdits} \subseteq Nat

Payload == [key : Keys, print : Contents]
Hash == Seq(Payload)
Genesis == <<>>

Event == [sequence : Nat \ {0}, payload : Payload, previous : Hash, hash : Hash]

\* last is the AUTOINCREMENT counter of audit_events: it never goes back.
Database == [rows : [Keys -> Contents \cup {None}], log : Seq(Event), last : Nat]

VARIABLES
  db,         \* the committed database
  tx,         \* the lock holder's uncommitted copy
  holder,     \* the connection that holds the write lock, or None
  pc,         \* where each connection is
  todo,       \* the rows each transaction still has to insert, and their content
  inserted,   \* the row whose event is being written, or None
  tail,       \* the hash of the last event, as each connection read it
  fetched,    \* the audit log each verification works through
  audited,    \* the keys it has seen so far, in the order of the log
  verdict,    \* the answer of each connection's last verification
  stale,      \* history: the verifications another connection committed during
  damaged,    \* history: some row or event was edited
  doomed,     \* history: the verifications begun on a damaged store
  saves, checks, edits  \* counters of the bounds

writing == <<tx, holder, todo, inserted, tail>>
checking == <<fetched, audited, verdict, stale, doomed>>
counters == <<saves, checks, edits>>
vars == <<db, pc, damaged, writing, checking, counters>>

EmptyDatabase == [rows |-> [k \in Keys |-> None], log |-> <<>>, last |-> 0]
Nothing == [keys |-> {}, content |-> None]

\* Type invariant of the log, the working copy and each verification.
TypeOK ==
  /\ db \in Database
  /\ tx \in Database
  /\ holder \in Conns \cup {None}
  /\ pc \in [Conns -> {"idle", "begin", "insert", "tail", "event", "commit", "check"}]
  /\ todo \in [Conns -> [keys : SUBSET Keys, content : Contents \cup {None}]]
  /\ inserted \in [Conns -> Keys \cup {None}]
  /\ tail \in [Conns -> Hash]
  /\ fetched \in [Conns -> Seq(Event)]
  /\ audited \in [Conns -> Seq(Keys)]
  /\ verdict \in [Conns -> {"none", "valid", "broken"}]
  /\ stale \subseteq Conns
  /\ doomed \subseteq Conns
  /\ damaged \in BOOLEAN
  /\ saves \in 0..MaxSaves
  /\ checks \in 0..MaxChecks
  /\ edits \in 0..MaxEdits

Init ==
  /\ db = EmptyDatabase
  /\ tx = EmptyDatabase
  /\ holder = None
  /\ pc = [c \in Conns |-> "idle"]
  /\ todo = [c \in Conns |-> Nothing]
  /\ inserted = [c \in Conns |-> None]
  /\ tail = [c \in Conns |-> Genesis]
  /\ fetched = [c \in Conns |-> <<>>]
  /\ audited = [c \in Conns |-> <<>>]
  /\ verdict = [c \in Conns |-> "none"]
  /\ stale = {}
  /\ doomed = {}
  /\ damaged = FALSE
  /\ saves = 0
  /\ checks = 0
  /\ edits = 0

GoTo(c, s) == pc' = [pc EXCEPT ![c] = s]

(***************************************************************************)
(* A transaction: rows with one content, in some order                     *)
(***************************************************************************)

Save(c) ==
  /\ pc[c] = "idle"
  /\ saves < MaxSaves
  /\ \E K \in (SUBSET Keys) \ {{}}, v \in Contents :
       todo' = [todo EXCEPT ![c] = [keys |-> K, content |-> v]]
  /\ saves' = saves + 1
  /\ GoTo(c, "begin")
  /\ UNCHANGED <<db, damaged, checking, tx, holder, inserted, tail, checks, edits>>

\* The first INSERT of a transaction takes the write lock.
Begin(c) ==
  /\ pc[c] = "begin"
  /\ holder = None
  /\ holder' = c
  /\ tx' = db
  /\ GoTo(c, "insert")
  /\ UNCHANGED <<db, damaged, checking, counters, todo, inserted, tail>>

\* An exception, a fault or the end of the process.
Rollback(c) ==
  /\ GoTo(c, "idle")
  /\ holder' = IF holder = c THEN None ELSE holder
  /\ tx' = IF holder = c THEN db ELSE tx
  /\ todo' = [todo EXCEPT ![c] = Nothing]
  /\ inserted' = [inserted EXCEPT ![c] = None]
  /\ UNCHANGED <<db, damaged, checking, counters, tail>>

\* INSERT OR IGNORE: a row that is there already is compared, not audited again.
InsertRow(c) ==
  /\ pc[c] = "insert"
  /\ \E k \in todo[c].keys :
       \/ /\ tx.rows[k] = None
          /\ tx' = [tx EXCEPT !.rows[k] = todo[c].content]
          /\ inserted' = [inserted EXCEPT ![c] = k]
          /\ GoTo(c, "tail")
          /\ UNCHANGED <<db, damaged, checking, counters, holder, todo, tail>>
       \/ /\ tx.rows[k] = todo[c].content
          /\ todo' = [todo EXCEPT ![c].keys = @ \ {k}]
          /\ GoTo(c, IF todo[c].keys = {k} THEN "commit" ELSE "insert")
          /\ UNCHANGED <<db, damaged, checking, counters, tx, holder, inserted, tail>>
       \/ tx.rows[k] \notin {None, todo[c].content} /\ Rollback(c)

\* Variant: the tail is read through another connection.
ReadCommittedTail(c) ==
  /\ pc[c] = "tail"
  /\ tail' = [tail EXCEPT ![c] = IF db.log = <<>> THEN Genesis ELSE Last(db.log).hash]
  /\ GoTo(c, "event")
  /\ UNCHANGED <<db, damaged, checking, counters, tx, holder, todo, inserted>>

\* _append_audit, its SELECT ...
ReadTail(c) ==
  /\ pc[c] = "tail"
  /\ tail' = [tail EXCEPT ![c] = IF tx.log = <<>> THEN Genesis ELSE Last(tx.log).hash]
  /\ GoTo(c, "event")
  /\ UNCHANGED <<db, damaged, checking, counters, tx, holder, todo, inserted>>

Seal(d, payload, previous) ==
  [d EXCEPT !.log = Append(@, [sequence |-> d.last + 1, payload |-> payload,
                               previous |-> previous, hash |-> Append(previous, payload)]),
            !.last = @ + 1]

\* ... and its INSERT.
AppendEvent(c) ==
  LET k == inserted[c]
  IN  /\ pc[c] = "event"
      /\ tx' = Seal(tx, [key |-> k, print |-> tx.rows[k]], tail[c])
      /\ inserted' = [inserted EXCEPT ![c] = None]
      /\ todo' = [todo EXCEPT ![c].keys = @ \ {k}]
      /\ GoTo(c, IF todo[c].keys = {k} THEN "commit" ELSE "insert")
      /\ UNCHANGED <<db, damaged, checking, counters, holder, tail>>

Commit(c) ==
  /\ pc[c] = "commit"
  /\ db' = tx
  /\ holder' = None
  /\ todo' = [todo EXCEPT ![c] = Nothing]
  /\ stale' = IF tx = db THEN stale ELSE stale \cup {r \in Conns : pc[r] = "check"}
  /\ GoTo(c, "idle")
  /\ UNCHANGED <<damaged, counters, tx, inserted, tail, fetched, audited, verdict,
                 doomed>>

Abort(c) == pc[c] \in {"begin", "insert", "tail", "event", "commit"} /\ Rollback(c)

(***************************************************************************)
(* verify_audit_chain in autocommit mode                                   *)
(***************************************************************************)

\* SELECT * FROM audit_events: an empty log is not valid.
BeginCheck(c) ==
  /\ pc[c] = "idle"
  /\ checks < MaxChecks
  /\ checks' = checks + 1
  /\ fetched' = [fetched EXCEPT ![c] = db.log]
  /\ audited' = [audited EXCEPT ![c] = <<>>]
  /\ stale' = stale \ {c}
  /\ doomed' = IF damaged THEN doomed \cup {c} ELSE doomed \ {c}
  /\ verdict' = [verdict EXCEPT ![c] = IF db.log = <<>> THEN "broken" ELSE "none"]
  /\ GoTo(c, IF db.log = <<>> THEN "idle" ELSE "check")
  /\ UNCHANGED <<db, damaged, writing, saves, edits>>

\* Variant: a row may be named by several events.
EventIsValidAgain(c, i) ==
  LET e == fetched[c][i]
  IN  /\ e.sequence = i
      /\ e.previous = IF i = 1 THEN Genesis ELSE fetched[c][i - 1].hash
      /\ e.hash = Append(e.previous, e.payload)
      /\ e.payload.print = db.rows[e.payload.key]

\* The event follows the one before it, and seals the row as it is now.
EventIsValid(c, i) ==
  LET e == fetched[c][i]
  IN  /\ e.sequence = i
      /\ e.previous = IF i = 1 THEN Genesis ELSE fetched[c][i - 1].hash
      /\ e.hash = Append(e.previous, e.payload)
      /\ e.payload.print = db.rows[e.payload.key]
      /\ ~Contains(audited[c], e.payload.key)

CheckEvent(c) ==
  LET i == Len(audited[c]) + 1
  IN  /\ pc[c] = "check"
      /\ i <= Len(fetched[c])
      /\ \/ /\ EventIsValid(c, i)
            /\ audited' = [audited EXCEPT ![c] = Append(@, fetched[c][i].payload.key)]
            /\ UNCHANGED <<pc, verdict>>
         \/ /\ ~EventIsValid(c, i)
            /\ verdict' = [verdict EXCEPT ![c] = "broken"]
            /\ GoTo(c, "idle")
            /\ UNCHANGED audited
      /\ UNCHANGED <<db, damaged, writing, counters, fetched, stale, doomed>>

\* Variant: audited rows must exist, but rows need not be audited.
KeysMatchOneWay(c) == ToSet(audited[c]) \subseteq {k \in Keys : db.rows[k] # None}

\* audited_keys = _business_keys()
KeysMatch(c) == ToSet(audited[c]) = {k \in Keys : db.rows[k] # None}

EndCheck(c) ==
  /\ pc[c] = "check"
  /\ Len(audited[c]) = Len(fetched[c])
  /\ verdict' = [verdict EXCEPT ![c] = IF KeysMatch(c) THEN "valid" ELSE "broken"]
  /\ GoTo(c, "idle")
  /\ UNCHANGED <<db, damaged, writing, counters, fetched, audited, stale, doomed>>

(***************************************************************************)
(* Edits of the database file, by hand or by a failing disk: each touches  *)
(* one row or one event and reseals nothing.                               *)
(***************************************************************************)

Edit(d) ==
  /\ holder = None
  /\ edits < MaxEdits
  /\ edits' = edits + 1
  /\ damaged' = TRUE
  /\ db' = d
  /\ UNCHANGED <<pc, writing, checking, saves, checks>>

EditRow ==
  \E k \in Keys, v \in Contents \cup {None} :
    db.rows[k] \notin {None, v} /\ Edit([db EXCEPT !.rows[k] = v])

EditEvent ==
  \E i \in DOMAIN db.log, p \in Payload :
    db.log[i].payload # p /\ Edit([db EXCEPT !.log[i].payload = p])

RemoveEvent ==
  \E i \in DOMAIN db.log : Edit([db EXCEPT !.log = RemoveAt(@, i)])

Finished ==
  /\ saves = MaxSaves /\ checks = MaxChecks
  /\ \A c \in Conns : pc[c] = "idle"
  /\ UNCHANGED vars

Next ==
  \/ Finished
  \/ EditRow \/ EditEvent \/ RemoveEvent
  \/ \E c \in Conns :
       \/ Save(c) \/ Begin(c) \/ InsertRow(c) \/ ReadTail(c) \/ AppendEvent(c)
       \/ Commit(c) \/ Abort(c)
       \/ BeginCheck(c) \/ CheckEvent(c) \/ EndCheck(c)

Spec == Init /\ [][Next]_vars

(***************************************************************************)
(* Properties                                                              *)
(***************************************************************************)

Chained(log) ==
  \A i \in DOMAIN log :
    /\ log[i].sequence = i
    /\ log[i].previous = IF i = 1 THEN Genesis ELSE log[i - 1].hash
    /\ log[i].hash = Append(log[i].previous, log[i].payload)

OneEventPerRow(d) ==
  \A k \in Keys :
    LET events == {i \in DOMAIN d.log : d.log[i].payload.key = k}
    IN  IF d.rows[k] = None
        THEN events = {}
        ELSE \E i \in events : events = {i} /\ d.log[i].payload.print = d.rows[k]

\* However the transactions of several connections interleave, fail and roll
\* back, the committed log is one gapless chain with one event for each row.
ChainIsWhole == ~damaged => Chained(db.log) /\ OneEventPerRow(db)

\* An edit is seen by every verification that begins after it, unless somebody
\* commits while it reads: nothing the store writes between the edit and the
\* verification can hide it, not a row saved again under its old key, not events
\* appended after a lost one.
DamageIsSeen == \A c \in doomed \ stale : verdict[c] # "valid"

\* An undamaged store is found valid exactly when its log is not empty and
\* nobody commits while it is read: a verification outside a transaction
\* answers "broken" for no other reason, and never overlooks such a commit.
VerdictIsExact ==
  ~damaged => \A c \in Conns :
    /\ verdict[c] = "valid" => c \notin stale
    /\ verdict[c] = "broken" => c \in stale \/ fetched[c] = <<>>
=============================================================================
