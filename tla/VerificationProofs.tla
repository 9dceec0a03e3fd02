-------------------------- MODULE VerificationProofs --------------------------
(***************************************************************************)
(* verify_audit_chain: the log it reads, then the caches it keeps.         *)
(*                                                                         *)
(* Proofs of AuditChain, for any number of connections, rows, transactions *)
(* and verifications: the committed log is one gapless chain with one      *)
(* event for each row, an undamaged store is found valid exactly when      *)
(* nobody commits while it is read, and one edit behind the store's back   *)
(* is seen by every verification after it that nobody disturbs.            *)
(*                                                                         *)
(* The invariant follows the write lock.  The holder's copy extends the    *)
(* committed database; between the INSERT of a row and that of its event   *)
(* it is sound but for that one row.  A verification works through a       *)
(* prefix of the committed log, which is all of it unless somebody         *)
(* committed in the meantime.                                              *)
(***************************************************************************)
EXTENDS AuditChain, VerificationCaches, SequenceTheorems, TLAPS

\* Every event seals a row as it is, no two the same row; every row but x has
\* its event.
EventsMatch(d, x) ==
  /\ \A i \in 1..Len(d.log) : LET p == d.log[i].payload IN
       p.key # x /\ d.rows[p.key] = p.print
  /\ \A i, j \in 1..Len(d.log) : d.log[i].payload.key = d.log[j].payload.key => i = j
  /\ \A k \in Keys : k # x /\ d.rows[k] # None =>
       \E i \in 1..Len(d.log) : d.log[i].payload.key = k

Sound(d, x) == d.last = Len(d.log) /\ Chained(d.log) /\ EventsMatch(d, x)

TailOf(log) == IF log = <<>> THEN Genesis ELSE Last(log).hash

\* The log of e continues that of d.
Extends(e, d) ==
  Len(d.log) <= Len(e.log) /\ \A i \in 1..Len(d.log) : e.log[i] = d.log[i]

HasLock == {"insert", "tail", "event", "commit"}

LockInv ==
  \A c \in Conns :
    /\ pc[c] \in HasLock <=> holder = c
    /\ pc[c] \in {"begin", "insert", "tail", "event"} => todo[c].content \in Contents
    /\ pc[c] \in {"tail", "event"} =>
         inserted[c] \in Keys /\ tx.rows[inserted[c]] \in Contents

\* What the lock holder c has written so far.
TxIsSound(c) ==
  /\ Extends(tx, db)
  /\ pc[c] \in {"insert", "commit"} =>
       Sound(tx, None) /\ (Len(tx.log) = Len(db.log) => tx = db)
  /\ pc[c] \in {"tail", "event"} => Sound(tx, inserted[c])
  /\ pc[c] = "event" => tail[c] = TailOf(tx.log)

ChainInv == Sound(db, None) /\ \A c \in Conns : holder = c => TxIsSound(c)

\* How far a verification has come, and that it reads a prefix of the log.
ReadsPrefix(c) ==
  /\ fetched[c] # <<>> /\ verdict[c] = "none"
  /\ Len(audited[c]) <= Len(fetched[c])
  /\ \A i \in 1..Len(audited[c]) : audited[c][i] = fetched[c][i].payload.key
  /\ Len(fetched[c]) <= Len(db.log)
  /\ \A i \in 1..Len(fetched[c]) : fetched[c][i] = db.log[i]
  /\ c \in stale <=> Len(fetched[c]) < Len(db.log)

CheckInv ==
  \A c \in Conns :
    /\ pc[c] = "check" => ReadsPrefix(c)
    /\ verdict[c] = "valid" => c \notin stale
    /\ verdict[c] = "broken" => c \in stale \/ fetched[c] = <<>>

IInv == TypeOK /\ LockInv /\ (~damaged => ChainInv /\ CheckInv)

USE ChainAssumption

(***************************************************************************)
(* Databases                                                               *)
(***************************************************************************)

\* What a log is made of.
LEMMA EventsAreTyped ==
  ASSUME NEW log \in Seq(Event)
  PROVE  \A i \in 1..Len(log) : log[i] \in Event /\ log[i].payload \in Payload
<1>1. \A i \in 1..Len(log) : log[i] \in Event
  OBVIOUS
<1> QED BY <1>1 DEF Event

\* The hash of the last event, as the two SELECTs read it.
LEMMA TailIsHash ==
  ASSUME NEW log \in Seq(Event)
  PROVE  TailOf(log) \in Hash
<1>1. CASE log = <<>>
  BY <1>1 DEF TailOf, Genesis, Hash
<1>2. CASE log # <<>>
  <2>1. log[Len(log)] \in Event
    BY <1>2
  <2> QED BY <1>2, <2>1 DEF TailOf, Last, Event
<1> QED BY <1>1, <1>2

\* INSERT of a row that was not there.
LEMMA InsertKeeps ==
  ASSUME NEW d \in Database, NEW k \in Keys, NEW v \in Contents,
         d.rows[k] = None
  PROVE  LET e == [d EXCEPT !.rows[k] = v] IN
         /\ e \in Database
         /\ e.log = d.log /\ e.last = d.last /\ e.rows = [d.rows EXCEPT ![k] = v]
         /\ e.rows[k] = v
         /\ Sound(d, None) => Sound(e, k)
<1> DEFINE e == [d EXCEPT !.rows[k] = v]
<1>1. /\ e \in Database
      /\ e.log = d.log /\ e.last = d.last /\ e.rows = [d.rows EXCEPT ![k] = v]
  BY DEF Database
<1>2. /\ d.log \in Seq(Event) /\ d.rows \in [Keys -> Contents \cup {None}]
      /\ \A i \in 1..Len(d.log) : d.log[i].payload \in Payload
  BY EventsAreTyped DEF Database
<1> HIDE DEF e
<1>3. ASSUME Sound(d, None)
      PROVE  Sound(e, k)
  <2>1. \A i \in 1..Len(d.log) : /\ d.log[i].payload.key \in Keys
                                 /\ d.log[i].payload.print \in Contents
    BY <1>2 DEF Payload
  <2>2. \A i \in 1..Len(d.log) : d.log[i].payload.key # k
    BY <1>3, <2>1 DEF Sound, EventsMatch
  <2>3. EventsMatch(e, k)
    BY <1>1, <1>2, <1>3, <2>1, <2>2 DEF Sound, EventsMatch
  <2> QED BY <1>1, <1>2, <1>3, <2>3 DEF Sound
<1>4. e.rows[k] = v
  BY <1>1, <1>2
<1> QED BY <1>1, <1>3, <1>4 DEF e

\* INSERT of the event of the row x.
LEMMA SealKeeps ==
  ASSUME NEW d \in Database, NEW x \in Keys, NEW t \in Hash, d.rows[x] \in Contents
  PROVE  LET p == [key |-> x, print |-> d.rows[x]]
             e == Seal(d, p, t)
         IN  /\ e \in Database
             /\ e.rows = d.rows /\ Len(e.log) = Len(d.log) + 1 /\ Extends(e, d)
             /\ Sound(d, x) /\ t = TailOf(d.log) => Sound(e, None)
<1> DEFINE p == [key |-> x, print |-> d.rows[x]]
           ev == [sequence |-> d.last + 1, payload |-> p,
                  previous |-> t, hash |-> Append(t, p)]
           e == Seal(d, p, t)
<1>1. /\ d.log \in Seq(Event) /\ d.last \in Nat
      /\ d.rows \in [Keys -> Contents \cup {None}]
      /\ \A i \in 1..Len(d.log) : d.log[i].payload \in Payload
  BY EventsAreTyped DEF Database
<1>2. p \in Payload /\ p.key = x /\ p.print = d.rows[x]
  BY DEF Payload
<1>3. Append(t, p) \in Hash
  BY <1>2 DEF Hash
<1>4. /\ ev \in Event
      /\ ev.sequence = d.last + 1 /\ ev.payload = p /\ ev.previous = t
      /\ ev.hash = Append(t, p)
  BY <1>1, <1>2, <1>3 DEF Event
<1>5. Append(d.log, ev) \in Seq(Event)
  BY <1>1, <1>4
<1> DEFINE f == [d EXCEPT !.log = Append(d.log, ev)]
<1>6. e = [f EXCEPT !.last = d.last + 1]
  BY DEF Seal
<1> HIDE DEF p, ev, e
<1>7. /\ e \in Database
      /\ e.rows = d.rows /\ e.log = Append(d.log, ev) /\ e.last = d.last + 1
  <2>1. /\ f \in Database
        /\ f.rows = d.rows /\ f.log = Append(d.log, ev) /\ f.last = d.last
    BY <1>1, <1>5 DEF Database
  <2> HIDE DEF f
  <2> QED BY <1>1, <1>6, <2>1 DEF Database
<1>8. /\ Len(e.log) = Len(d.log) + 1 /\ e.log[Len(d.log) + 1] = ev
      /\ \A i \in 1..Len(d.log) : e.log[i] = d.log[i]
      /\ DOMAIN e.log = 1..(Len(d.log) + 1) /\ DOMAIN d.log = 1..Len(d.log)
      /\ e.log \in Seq(Event) /\ Len(d.log) \in Nat
  BY <1>1, <1>4, <1>6, <1>7
<1>9. ASSUME Sound(d, x), t = TailOf(d.log)
      PROVE  Sound(e, None)
  <2>1. Chained(e.log)
    <3> SUFFICES ASSUME NEW i \in 1..(Len(d.log) + 1)
                 PROVE  /\ e.log[i].sequence = i
                        /\ e.log[i].previous = IF i = 1 THEN Genesis ELSE e.log[i - 1].hash
                        /\ e.log[i].hash = Append(e.log[i].previous, e.log[i].payload)
      BY <1>8 DEF Chained
    <3>1. CASE i \in 1..Len(d.log)
      <4>1. i # 1 => i - 1 \in 1..Len(d.log)
        BY <1>8, <3>1
      <4>2. e.log[i] = d.log[i] /\ (i # 1 => e.log[i - 1] = d.log[i - 1])
        BY <1>8, <3>1, <4>1
      <4> QED BY <1>8, <1>9, <3>1, <4>2 DEF Sound, Chained
    <3>2. CASE i = Len(d.log) + 1
      <4>1. e.log[i] = ev /\ i = d.last + 1
        BY <1>8, <1>9, <3>2 DEF Sound
      <4>2. CASE d.log = <<>>
        <5>1. i = 1 /\ t = Genesis
          BY <1>9, <3>2, <4>2 DEF TailOf
        <5> QED BY <1>4, <4>1, <5>1
      <4>3. CASE d.log # <<>>
        <5>1. i # 1 /\ i - 1 = Len(d.log) /\ i - 1 \in 1..Len(d.log)
          BY <1>1, <1>8, <3>2, <4>3
        <5>2. t = e.log[i - 1].hash
          BY <1>8, <1>9, <4>3, <5>1 DEF TailOf, Last
        <5> QED BY <1>4, <4>1, <5>1, <5>2
      <4> QED BY <4>2, <4>3
    <3> QED BY <1>8, <3>1, <3>2
  <2>2. EventsMatch(e, None)
    <3>1. \A i \in 1..(Len(d.log) + 1) :
            \/ i \in 1..Len(d.log) /\ e.log[i] = d.log[i]
            \/ i = Len(d.log) + 1 /\ e.log[i].payload = p
      BY <1>4, <1>8
    <3>2. \A i \in 1..Len(d.log) : /\ d.log[i].payload.key \in Keys
                                   /\ d.log[i].payload.key # x
                                   /\ d.rows[d.log[i].payload.key] = d.log[i].payload.print
      BY <1>1, <1>9 DEF Sound, EventsMatch, Payload
    <3>3. \A i \in 1..Len(e.log) : /\ e.log[i].payload.key # None
                                   /\ e.rows[e.log[i].payload.key] = e.log[i].payload.print
      BY <1>2, <1>7, <1>8, <3>1, <3>2
    <3>4. \A i, j \in 1..Len(e.log) :
            e.log[i].payload.key = e.log[j].payload.key => i = j
      <4> SUFFICES ASSUME NEW i \in 1..(Len(d.log) + 1), NEW j \in 1..(Len(d.log) + 1),
                          e.log[i].payload.key = e.log[j].payload.key
                   PROVE  i = j
        BY <1>8
      <4>1. CASE i \in 1..Len(d.log) /\ j \in 1..Len(d.log)
        BY <1>8, <1>9, <4>1 DEF Sound, EventsMatch
      <4>2. CASE i = Len(d.log) + 1 /\ j \in 1..Len(d.log)
        BY <1>2, <1>4, <1>8, <3>2, <4>2
      <4>3. CASE j = Len(d.log) + 1 /\ i \in 1..Len(d.log)
        BY <1>2, <1>4, <1>8, <3>2, <4>3
      <4> QED BY <1>8, <4>1, <4>2, <4>3
    <3>5. ASSUME NEW k \in Keys, e.rows[k] # None
          PROVE  \E i \in 1..Len(e.log) : e.log[i].payload.key = k
      <4>1. CASE k = x
        BY <1>2, <1>4, <1>8, <4>1
      <4>2. CASE k # x
        <5>1. PICK i \in 1..Len(d.log) : d.log[i].payload.key = k
          BY <1>7, <1>9, <3>5, <4>2 DEF Sound, EventsMatch
        <5> QED BY <1>8, <5>1
      <4> QED BY <4>1, <4>2
    <3> QED BY <3>3, <3>4, <3>5 DEF EventsMatch
  <2>3. e.last = Len(e.log)
    BY <1>7, <1>8, <1>9 DEF Sound
  <2> QED BY <2>1, <2>2, <2>3 DEF Sound
<1> QED BY <1>7, <1>8, <1>9 DEF Extends, e, p

(***************************************************************************)
(* Transactions                                                            *)
(***************************************************************************)

\* A step that no verification sees.
LEMMA CheckStays ==
  ASSUME CheckInv, UNCHANGED <<db, fetched, audited, verdict, stale>>,
         \A q \in Conns : pc'[q] = "check" => pc[q] = "check"
  PROVE  CheckInv'
BY DEF CheckInv, ReadsPrefix

\* A step that leaves the lock holder's transaction alone.
LEMMA ChainStays ==
  ASSUME ChainInv, UNCHANGED <<db, tx, holder, inserted, tail>>,
         \A q \in Conns : holder = q => pc'[q] = pc[q]
  PROVE  ChainInv'
BY DEF ChainInv, TxIsSound

\* A row is taken off the list of a transaction.
LEMMA TodoShrinks ==
  ASSUME TypeOK, NEW c \in Conns, NEW k \in Keys,
         todo' = [todo EXCEPT ![c].keys = @ \ {k}]
  PROVE  /\ todo' \in [Conns -> [keys : SUBSET Keys, content : Contents \cup {None}]]
         /\ \A q \in Conns : todo'[q].content = todo[q].content
<1> DEFINE t == [keys |-> todo[c].keys \ {k}, content |-> todo[c].content]
<1>1. todo[c] \in [keys : SUBSET Keys, content : Contents \cup {None}]
  BY DEF TypeOK
<1>2. [todo[c] EXCEPT !.keys = @ \ {k}] = t
  BY <1>1
<1>3. /\ t \in [keys : SUBSET Keys, content : Contents \cup {None}]
      /\ t.content = todo[c].content
  BY <1>1
<1> HIDE DEF t
<1> QED BY <1>2, <1>3 DEF TypeOK

\* The call of a transaction.
LEMMA SaveKeeps ==
  ASSUME IInv, NEW c \in Conns, Save(c)
  PROVE  IInv'
<1>1. UNCHANGED <<db, damaged, tx, holder, inserted, tail, fetched, audited, verdict,
                  stale, doomed, checks, edits>>
  BY DEF Save, checking
<1>2. PICK K \in SUBSET Keys, v \in Contents :
        todo' = [todo EXCEPT ![c] = [keys |-> K, content |-> v]]
  BY DEF Save
<1>3. pc[c] = "idle" /\ pc' = [pc EXCEPT ![c] = "begin"] /\ saves' \in 0..MaxSaves
  BY DEF IInv, TypeOK, Save, GoTo
<1>4. TypeOK'
  BY <1>1, <1>2, <1>3 DEF IInv, TypeOK
<1>5. LockInv'
  BY <1>1, <1>2, <1>3 DEF IInv, TypeOK, LockInv, HasLock
<1>6. holder # c
  BY <1>3 DEF IInv, LockInv, HasLock
<1>7. ~damaged => ChainInv' /\ CheckInv'
  BY <1>1, <1>3, <1>6, ChainStays, CheckStays DEF IInv, TypeOK
<1> QED BY <1>1, <1>4, <1>5, <1>7 DEF IInv

\* The write lock is taken: the copy is the committed database.
LEMMA BeginKeeps ==
  ASSUME IInv, NEW c \in Conns, Begin(c)
  PROVE  IInv'
<1>1. UNCHANGED <<db, damaged, todo, inserted, tail, fetched, audited, verdict, stale,
                  doomed, saves, checks, edits>>
  BY DEF Begin, checking, counters
<1>2. /\ pc[c] = "begin" /\ holder = None /\ holder' = c /\ tx' = db
      /\ pc' = [pc EXCEPT ![c] = "insert"]
  BY DEF Begin, GoTo
<1>3. TypeOK'
  BY <1>1, <1>2 DEF IInv, TypeOK
<1>4. LockInv'
  BY <1>1, <1>2 DEF IInv, TypeOK, LockInv, HasLock
<1>5. ASSUME ~damaged
      PROVE  ChainInv'
  <2>1. Sound(db, None) /\ db.log \in Seq(Event)
    BY <1>5 DEF IInv, TypeOK, ChainInv, Database
  <2>2. Extends(db, db)
    BY <2>1 DEF Extends
  <2> QED BY <1>1, <1>2, <2>1, <2>2 DEF IInv, TypeOK, ChainInv, TxIsSound
<1>6. ~damaged => CheckInv'
  BY <1>1, <1>2, CheckStays DEF IInv, TypeOK
<1> QED BY <1>1, <1>3, <1>4, <1>5, <1>6 DEF IInv

\* A rollback drops the copy.
LEMMA RollbackKeeps ==
  ASSUME IInv, NEW c \in Conns, pc[c] # "check", Rollback(c)
  PROVE  IInv'
<1>1. UNCHANGED <<db, damaged, tail, fetched, audited, verdict, stale, doomed, saves,
                  checks, edits>>
  BY DEF Rollback, checking, counters
<1>2. /\ pc' = [pc EXCEPT ![c] = "idle"]
      /\ holder' = IF holder = c THEN None ELSE holder
      /\ tx' = IF holder = c THEN db ELSE tx
      /\ todo' = [todo EXCEPT ![c] = Nothing]
      /\ inserted' = [inserted EXCEPT ![c] = None]
  BY DEF Rollback, GoTo
<1>3. TypeOK'
  BY <1>1, <1>2 DEF IInv, TypeOK, Nothing
<1>4. LockInv'
  BY <1>1, <1>2 DEF IInv, TypeOK, LockInv, HasLock
<1>5. ~damaged => ChainInv'
  BY <1>1, <1>2 DEF IInv, TypeOK, ChainInv, TxIsSound
<1>6. ~damaged => CheckInv'
  BY <1>1, <1>2, CheckStays DEF IInv, TypeOK
<1> QED BY <1>1, <1>3, <1>4, <1>5, <1>6 DEF IInv

\* A row is written without its event, or was there already.
LEMMA InsertRowKeeps ==
  ASSUME IInv, NEW c \in Conns, InsertRow(c)
  PROVE  IInv'
<1>1. PICK k \in todo[c].keys :
       \/ /\ tx.rows[k] = None
          /\ tx' = [tx EXCEPT !.rows[k] = todo[c].content]
          /\ inserted' = [inserted EXCEPT ![c] = k]
          /\ GoTo(c, "tail")
          /\ UNCHANGED <<db, damaged, checking, counters, holder, todo, tail>>
       \/ /\ tx.rows[k] = todo[c].content
          /\ todo' = [todo EXCEPT ![c].keys = @ \ {k}]
          /\ GoTo(c, IF todo[c].keys = {k} THEN "commit" ELSE "insert")
          /\ UNCHANGED <<db, damaged, checking, counters, tx, holder, inserted, tail>>
       \/ tx.rows[k] \notin {None, todo[c].content} /\ Rollback(c)
  BY DEF InsertRow
<1>2. pc[c] = "insert" /\ holder = c /\ todo[c].content \in Contents
  BY DEF InsertRow, IInv, LockInv, HasLock
<1>3. k \in Keys /\ tx \in Database
  BY DEF IInv, TypeOK
<1>4. CASE /\ tx.rows[k] = None
           /\ tx' = [tx EXCEPT !.rows[k] = todo[c].content]
           /\ inserted' = [inserted EXCEPT ![c] = k]
           /\ GoTo(c, "tail")
           /\ UNCHANGED <<db, damaged, checking, counters, holder, todo, tail>>
  <2>1. UNCHANGED <<db, damaged, fetched, audited, verdict, stale, doomed, saves, checks,
                    edits, holder, todo, tail>>
    BY <1>4 DEF checking, counters
  <2>2. pc' = [pc EXCEPT ![c] = "tail"] /\ inserted' = [inserted EXCEPT ![c] = k]
    BY <1>4 DEF GoTo
  <2>3. /\ tx' \in Database /\ tx'.log = tx.log /\ tx'.rows[k] = todo[c].content
        /\ Sound(tx, None) => Sound(tx', k)
    BY <1>2, <1>3, <1>4, InsertKeeps
  <2>4. TypeOK'
    BY <1>3, <2>1, <2>2, <2>3 DEF IInv, TypeOK
  <2>5. LockInv'
    BY <1>2, <1>3, <2>1, <2>2, <2>3 DEF IInv, TypeOK, LockInv, HasLock
  <2>6. ASSUME ~damaged
        PROVE  ChainInv'
    <3>1. Sound(db, None) /\ Sound(tx, None) /\ Extends(tx, db)
      BY <1>2, <2>6 DEF IInv, ChainInv, TxIsSound
    <3>2. Extends(tx', db)
      BY <2>3, <3>1 DEF Extends
    <3>3. pc'[c] = "tail" /\ inserted'[c] = k
      BY <2>2 DEF IInv, TypeOK
    <3> QED BY <1>2, <2>1, <2>3, <3>1, <3>2, <3>3 DEF ChainInv, TxIsSound
  <2>7. ~damaged => CheckInv'
    BY <1>2, <2>1, <2>2, CheckStays DEF IInv, TypeOK
  <2> QED BY <2>1, <2>4, <2>5, <2>6, <2>7 DEF IInv
<1>5. CASE /\ tx.rows[k] = todo[c].content
           /\ todo' = [todo EXCEPT ![c].keys = @ \ {k}]
           /\ GoTo(c, IF todo[c].keys = {k} THEN "commit" ELSE "insert")
           /\ UNCHANGED <<db, damaged, checking, counters, tx, holder, inserted, tail>>
  <2>1. UNCHANGED <<db, damaged, fetched, audited, verdict, stale, doomed, saves, checks,
                    edits, tx, holder, inserted, tail>>
    BY <1>5 DEF checking, counters
  <2>2. pc' = [pc EXCEPT ![c] = "commit"] \/ pc' = [pc EXCEPT ![c] = "insert"]
    BY <1>5 DEF GoTo
  <2>3. /\ todo' \in [Conns -> [keys : SUBSET Keys, content : Contents \cup {None}]]
        /\ \A q \in Conns : todo'[q].content = todo[q].content
    BY <1>3, <1>5, TodoShrinks DEF IInv
  <2>4. TypeOK'
    BY <2>1, <2>2, <2>3 DEF IInv, TypeOK
  <2>5. LockInv'
    BY <1>2, <2>1, <2>2, <2>3 DEF IInv, TypeOK, LockInv, HasLock
  <2>6. ~damaged => ChainInv'
    BY <1>2, <2>1, <2>2 DEF IInv, TypeOK, ChainInv, TxIsSound
  <2>7. ~damaged => CheckInv'
    BY <1>2, <2>1, <2>2, CheckStays DEF IInv, TypeOK
  <2> QED BY <2>1, <2>4, <2>5, <2>6, <2>7 DEF IInv
<1>6. CASE tx.rows[k] \notin {None, todo[c].content} /\ Rollback(c)
  BY <1>2, <1>6, RollbackKeeps
<1> QED BY <1>1, <1>4, <1>5, <1>6

\* The tail is read from the lock holder's copy.
LEMMA ReadTailKeeps ==
  ASSUME IInv, NEW c \in Conns, ReadTail(c)
  PROVE  IInv'
<1>1. UNCHANGED <<db, damaged, fetched, audited, verdict, stale, doomed, saves, checks,
                  edits, tx, holder, todo, inserted>>
  BY DEF ReadTail, checking, counters
<1>2. /\ pc[c] = "tail" /\ pc' = [pc EXCEPT ![c] = "event"]
      /\ tail' = [tail EXCEPT ![c] = TailOf(tx.log)]
  BY DEF ReadTail, GoTo, TailOf
<1>3. TailOf(tx.log) \in Hash
  BY TailIsHash DEF IInv, TypeOK, Database
<1>4. TypeOK'
  BY <1>1, <1>2, <1>3 DEF IInv, TypeOK
<1>5. LockInv'
  BY <1>1, <1>2 DEF IInv, TypeOK, LockInv, HasLock
<1>6. ~damaged => ChainInv'
  BY <1>1, <1>2 DEF IInv, TypeOK, LockInv, HasLock, ChainInv, TxIsSound
<1>7. ~damaged => CheckInv'
  BY <1>1, <1>2, CheckStays DEF IInv, TypeOK
<1> QED BY <1>1, <1>4, <1>5, <1>6, <1>7 DEF IInv

\* The event seals the row it was missing for.
LEMMA AppendEventKeeps ==
  ASSUME IInv, NEW c \in Conns, AppendEvent(c)
  PROVE  IInv'
<1> DEFINE k == inserted[c]
<1>1. UNCHANGED <<db, damaged, fetched, audited, verdict, stale, doomed, saves, checks,
                  edits, holder, tail>>
  BY DEF AppendEvent, checking, counters
<1>2. /\ pc[c] = "event" /\ holder = c /\ k \in Keys /\ tx \in Database
      /\ tail[c] \in Hash
  BY DEF AppendEvent, IInv, TypeOK, LockInv, HasLock
<1>3. pc' = [pc EXCEPT ![c] = "commit"] \/ pc' = [pc EXCEPT ![c] = "insert"]
  BY DEF AppendEvent, GoTo
<1>4. /\ todo' \in [Conns -> [keys : SUBSET Keys, content : Contents \cup {None}]]
      /\ \A q \in Conns : todo'[q].content = todo[q].content
  BY <1>2, TodoShrinks DEF IInv, AppendEvent
<1>5. inserted' = [inserted EXCEPT ![c] = None]
  BY DEF AppendEvent
<1>6. tx' = Seal(tx, [key |-> k, print |-> tx.rows[k]], tail[c])
  BY DEF AppendEvent
<1>7. tx.rows[k] \in Contents
  BY <1>2 DEF IInv, LockInv
<1>8. /\ tx' \in Database /\ Len(tx'.log) = Len(tx.log) + 1 /\ Extends(tx', tx)
      /\ Sound(tx, k) /\ tail[c] = TailOf(tx.log) => Sound(tx', None)
  BY <1>2, <1>6, <1>7, SealKeeps
<1>9. TypeOK'
  BY <1>1, <1>3, <1>4, <1>5, <1>8 DEF IInv, TypeOK
<1>10. LockInv'
  BY <1>1, <1>2, <1>3, <1>4, <1>5 DEF IInv, TypeOK, LockInv, HasLock
<1>11. ASSUME ~damaged
       PROVE  ChainInv'
  <2>1. /\ Sound(db, None) /\ Extends(tx, db)
        /\ Sound(tx, k) /\ tail[c] = TailOf(tx.log)
    BY <1>2, <1>11 DEF IInv, ChainInv, TxIsSound
  <2>2. db.log \in Seq(Event) /\ tx.log \in Seq(Event)
    BY DEF IInv, TypeOK, Database
  <2>3. Extends(tx', db) /\ Len(tx'.log) # Len(db.log)
    BY <1>8, <2>1, <2>2 DEF Extends
  <2> QED BY <1>1, <1>2, <1>3, <1>8, <2>1, <2>3 DEF IInv, TypeOK, ChainInv, TxIsSound
<1>12. ~damaged => CheckInv'
  BY <1>1, <1>2, <1>3, CheckStays DEF IInv, TypeOK
<1> QED BY <1>1, <1>9, <1>10, <1>11, <1>12 DEF IInv

\* The copy becomes the database, and the verifications that are at work are
\* left behind by it.
LEMMA CommitKeeps ==
  ASSUME IInv, NEW c \in Conns, Commit(c)
  PROVE  IInv'
<1>1. UNCHANGED <<damaged, saves, checks, edits, tx, inserted, tail, fetched, audited,
                  verdict, doomed>>
  BY DEF Commit, counters
<1>2. /\ pc[c] = "commit" /\ holder = c /\ holder' = None /\ db' = tx
      /\ pc' = [pc EXCEPT ![c] = "idle"]
      /\ todo' = [todo EXCEPT ![c] = Nothing]
      /\ stale' = IF tx = db THEN stale ELSE stale \cup {r \in Conns : pc[r] = "check"}
  BY DEF Commit, GoTo, IInv, LockInv, HasLock
<1>3. TypeOK'
  BY <1>1, <1>2 DEF IInv, TypeOK, Nothing
<1>4. LockInv'
  BY <1>1, <1>2 DEF IInv, TypeOK, LockInv, HasLock
<1>5. ASSUME ~damaged
      PROVE  /\ Sound(tx, None) /\ Extends(tx, db)
             /\ Len(tx.log) = Len(db.log) => tx = db
  BY <1>2, <1>5 DEF IInv, ChainInv, TxIsSound
<1>6. ~damaged => ChainInv'
  BY <1>1, <1>2, <1>5 DEF ChainInv
<1>7. ASSUME ~damaged
      PROVE  CheckInv'
  <2>1. CASE tx = db
    BY <1>1, <1>2, <1>7, <2>1, CheckStays DEF IInv, TypeOK
  <2>2. CASE tx # db
    <3>1. db.log \in Seq(Event) /\ tx.log \in Seq(Event)
      BY DEF IInv, TypeOK, Database
    <3>2. Len(db.log) < Len(tx.log)
      BY <1>5, <1>7, <2>2, <3>1 DEF Extends
    <3>3. \A q \in Conns : q \in stale' <=> q \in stale \/ pc[q] = "check"
      BY <1>2, <2>2
    <3>4. ASSUME NEW q \in Conns, pc'[q] = "check"
          PROVE  ReadsPrefix(q)'
      <4>1. pc[q] = "check" /\ ReadsPrefix(q) /\ q \in stale' /\ fetched[q] \in Seq(Event)
        BY <1>2, <1>7, <3>3, <3>4 DEF IInv, TypeOK, CheckInv
      <4>2. Len(fetched[q]) < Len(tx.log)
        BY <3>1, <3>2, <4>1 DEF ReadsPrefix
      <4>3. \A i \in 1..Len(fetched[q]) : i \in 1..Len(db.log) /\ fetched[q][i] = tx.log[i]
        <5>1. Len(fetched[q]) <= Len(db.log)
          BY <4>1 DEF ReadsPrefix
        <5>2. \A i \in 1..Len(fetched[q]) : i \in 1..Len(db.log)
          BY <3>1, <4>1, <5>1
        <5>3. \A i \in 1..Len(fetched[q]) : fetched[q][i] = db.log[i]
          BY <4>1 DEF ReadsPrefix
        <5>4. \A i \in 1..Len(db.log) : tx.log[i] = db.log[i]
          BY <1>5, <1>7 DEF Extends
        <5> QED BY <5>2, <5>3, <5>4
      <4>4. /\ fetched[q] # <<>> /\ verdict[q] = "none"
            /\ Len(audited[q]) <= Len(fetched[q])
            /\ \A i \in 1..Len(audited[q]) : audited[q][i] = fetched[q][i].payload.key
        BY <4>1 DEF ReadsPrefix
      <4>5. Len(fetched[q]) <= Len(tx.log)
        BY <3>1, <4>1, <4>2
      <4> QED BY <1>1, <1>2, <4>1, <4>2, <4>3, <4>4, <4>5 DEF ReadsPrefix
    <3>5. \A q \in Conns : /\ verdict[q] = "valid" => q \notin stale'
                           /\ verdict[q] = "broken" => q \in stale' \/ fetched[q] = <<>>
      BY <1>7, <3>3 DEF IInv, CheckInv, ReadsPrefix
    <3> QED BY <1>1, <3>4, <3>5 DEF CheckInv
  <2> QED BY <2>1, <2>2
<1> QED BY <1>1, <1>3, <1>4, <1>6, <1>7 DEF IInv

(***************************************************************************)
(* Verifications                                                           *)
(***************************************************************************)

\* The whole committed log is fetched.
LEMMA BeginCheckKeeps ==
  ASSUME IInv, NEW c \in Conns, BeginCheck(c)
  PROVE  IInv'
<1>1. UNCHANGED <<db, damaged, tx, holder, todo, inserted, tail, saves, edits>>
  BY DEF BeginCheck, writing
<1>2. /\ pc[c] = "idle"
      /\ fetched' = [fetched EXCEPT ![c] = db.log]
      /\ audited' = [audited EXCEPT ![c] = <<>>]
      /\ stale' = stale \ {c}
      /\ verdict' = [verdict EXCEPT ![c] = IF db.log = <<>> THEN "broken" ELSE "none"]
      /\ pc' = [pc EXCEPT ![c] = IF db.log = <<>> THEN "idle" ELSE "check"]
  BY DEF BeginCheck, GoTo
<1>3. doomed' \subseteq Conns /\ checks' \in 0..MaxChecks
  BY DEF BeginCheck, IInv, TypeOK
<1>4. db.log \in Seq(Event)
  BY DEF IInv, TypeOK, Database
<1>5. TypeOK'
  BY <1>1, <1>2, <1>3, <1>4 DEF IInv, TypeOK
<1>6. LockInv'
  BY <1>1, <1>2 DEF IInv, TypeOK, LockInv, HasLock
<1>7. ~damaged => ChainInv'
  BY <1>1, <1>2, ChainStays DEF IInv, TypeOK, LockInv, HasLock
<1>8. ASSUME ~damaged, NEW q \in Conns
      PROVE  /\ pc'[q] = "check" => ReadsPrefix(q)'
             /\ verdict'[q] = "valid" => q \notin stale'
             /\ verdict'[q] = "broken" => q \in stale' \/ fetched'[q] = <<>>
  <2>1. CASE q # c
    BY <1>1, <1>2, <1>8, <2>1 DEF IInv, TypeOK, CheckInv, ReadsPrefix
  <2>2. CASE q = c
    BY <1>1, <1>2, <1>4, <2>2 DEF IInv, TypeOK, ReadsPrefix
  <2> QED BY <2>1, <2>2
<1> QED BY <1>1, <1>5, <1>6, <1>7, <1>8 DEF IInv, CheckInv

\* In a sound log every event is found valid.
LEMMA EventsAreValid ==
  ASSUME TypeOK, Sound(db, None), NEW c \in Conns, ReadsPrefix(c),
         NEW i, i = Len(audited[c]) + 1, i <= Len(fetched[c])
  PROVE  EventIsValid(c, i)
<1>1. /\ db.log \in Seq(Event) /\ fetched[c] \in Seq(Event) /\ audited[c] \in Seq(Keys)
      /\ DOMAIN db.log = 1..Len(db.log)
  BY DEF TypeOK, Database
<1>2. i \in 1..Len(db.log) /\ i \in 1..Len(fetched[c]) /\ fetched[c][i] = db.log[i]
  <2>1. i \in 1..Len(fetched[c])
    BY <1>1
  <2>2. Len(fetched[c]) <= Len(db.log)
    BY DEF ReadsPrefix
  <2>3. i \in 1..Len(db.log)
    BY <1>1, <2>1, <2>2
  <2>4. fetched[c][i] = db.log[i]
    BY <2>1 DEF ReadsPrefix
  <2> QED BY <2>1, <2>3, <2>4
<1>3. i # 1 => i - 1 \in 1..Len(fetched[c]) /\ fetched[c][i - 1] = db.log[i - 1]
  BY <1>1, <1>2 DEF ReadsPrefix
<1>4. ~Contains(audited[c], fetched[c][i].payload.key)
  <2> SUFFICES ASSUME NEW j \in 1..Len(audited[c]),
                      audited[c][j] = fetched[c][i].payload.key
               PROVE  FALSE
    BY DEF Contains
  <2>1. j \in 1..Len(db.log) /\ j # i /\ audited[c][j] = db.log[j].payload.key
    <3>1. j \in 1..Len(fetched[c]) /\ j # i
      BY <1>1, <1>2
    <3>2. Len(fetched[c]) <= Len(db.log) /\ fetched[c][j] = db.log[j]
      BY <3>1 DEF ReadsPrefix
    <3>3. audited[c][j] = fetched[c][j].payload.key
      BY DEF ReadsPrefix
    <3>4. j \in 1..Len(db.log)
      BY <1>1, <3>1, <3>2
    <3> QED BY <3>1, <3>2, <3>3, <3>4
  <2> QED BY <1>2, <2>1 DEF Sound, EventsMatch
<1>5. /\ db.log[i].sequence = i
      /\ db.log[i].previous = IF i = 1 THEN Genesis ELSE db.log[i - 1].hash
      /\ db.log[i].hash = Append(db.log[i].previous, db.log[i].payload)
  BY <1>1, <1>2 DEF Sound, Chained
<1>6. db.log[i].payload.print = db.rows[db.log[i].payload.key]
  BY <1>2 DEF Sound, EventsMatch
<1> QED BY <1>2, <1>3, <1>4, <1>5, <1>6 DEF EventIsValid

\* One more event is checked.
LEMMA CheckEventKeeps ==
  ASSUME IInv, NEW c \in Conns, CheckEvent(c)
  PROVE  IInv'
<1> DEFINE i == Len(audited[c]) + 1
           k == fetched[c][i].payload.key
<1>1. UNCHANGED <<db, damaged, tx, holder, todo, inserted, tail, saves, checks, edits,
                  fetched, stale, doomed>>
  BY DEF CheckEvent, writing, counters
<1>2. pc[c] = "check" /\ i <= Len(fetched[c])
  BY DEF CheckEvent
<1>3. /\ fetched[c] \in Seq(Event) /\ audited[c] \in Seq(Keys)
  BY DEF IInv, TypeOK
<1>4. i \in 1..Len(fetched[c]) /\ k \in Keys
  <2>1. i \in 1..Len(fetched[c])
    BY <1>2, <1>3
  <2> QED BY <1>3, <2>1, EventsAreTyped DEF Payload
<1> HIDE DEF k
<1>5. CASE ~EventIsValid(c, i)
  <2>1. /\ verdict' = [verdict EXCEPT ![c] = "broken"]
        /\ pc' = [pc EXCEPT ![c] = "idle"] /\ audited' = audited
    BY <1>5 DEF CheckEvent, GoTo
  <2>2. TypeOK'
    BY <1>1, <2>1 DEF IInv, TypeOK
  <2>3. LockInv'
    BY <1>1, <1>2, <2>1 DEF IInv, TypeOK, LockInv, HasLock
  <2>4. damaged
    BY <1>2, <1>5, EventsAreValid DEF IInv, ChainInv, CheckInv
  <2> QED BY <1>1, <2>2, <2>3, <2>4 DEF IInv
<1>6. CASE EventIsValid(c, i)
  <2>1. /\ audited' = [audited EXCEPT ![c] = Append(@, k)]
        /\ pc' = pc /\ verdict' = verdict
    BY <1>6 DEF CheckEvent, k
  <2>2. /\ audited'[c] \in Seq(Keys) /\ Len(audited'[c]) = i /\ audited'[c][i] = k
        /\ \A j \in 1..Len(audited[c]) : audited'[c][j] = audited[c][j]
        /\ \A q \in Conns : q # c => audited'[q] = audited[q]
    BY <1>3, <1>4, <2>1 DEF IInv, TypeOK
  <2>3. TypeOK'
    BY <1>1, <1>3, <1>4, <2>1 DEF IInv, TypeOK
  <2>4. LockInv'
    BY <1>1, <2>1 DEF IInv, LockInv
  <2>5. ~damaged => ChainInv'
    BY <1>1, <2>1, ChainStays DEF IInv
  <2>6. ASSUME ~damaged, NEW q \in Conns
        PROVE  /\ pc'[q] = "check" => ReadsPrefix(q)'
               /\ verdict'[q] = "valid" => q \notin stale'
               /\ verdict'[q] = "broken" => q \in stale' \/ fetched'[q] = <<>>
    <3>1. CASE q # c
      BY <1>1, <2>1, <2>2, <2>6, <3>1 DEF IInv, CheckInv, ReadsPrefix
    <3>2. CASE q = c
      <4>1. ReadsPrefix(c)
        BY <1>2, <2>6 DEF IInv, CheckInv
      <4>2. \A j \in 1..i : audited'[c][j] = fetched[c][j].payload.key
        <5>1. \A j \in 1..i : j \in 1..Len(audited[c]) \/ j = i
          BY <1>3
        <5> QED BY <2>2, <4>1, <5>1 DEF ReadsPrefix, k
      <4>3. ReadsPrefix(c)'
        BY <1>1, <1>2, <2>1, <2>2, <4>1, <4>2 DEF ReadsPrefix
      <4> QED BY <1>1, <2>1, <2>6, <3>2, <4>3 DEF IInv, CheckInv
    <3> QED BY <3>1, <3>2
  <2> QED BY <1>1, <2>3, <2>4, <2>5, <2>6 DEF IInv, CheckInv
<1> QED BY <1>5, <1>6

\* All events are checked: the rows are the audited ones unless somebody has
\* committed since.
LEMMA EndCheckKeeps ==
  ASSUME IInv, NEW c \in Conns, EndCheck(c)
  PROVE  IInv'
<1>1. UNCHANGED <<db, damaged, tx, holder, todo, inserted, tail, saves, checks, edits,
                  fetched, audited, stale, doomed>>
  BY DEF EndCheck, writing, counters
<1>2. /\ pc[c] = "check" /\ Len(audited[c]) = Len(fetched[c])
      /\ verdict' = [verdict EXCEPT ![c] = IF KeysMatch(c) THEN "valid" ELSE "broken"]
      /\ pc' = [pc EXCEPT ![c] = "idle"]
  BY DEF EndCheck, GoTo
<1>3. TypeOK'
  BY <1>1, <1>2 DEF IInv, TypeOK
<1>4. LockInv'
  BY <1>1, <1>2 DEF IInv, TypeOK, LockInv, HasLock
<1>5. ~damaged => ChainInv'
  BY <1>1, <1>2, ChainStays DEF IInv, TypeOK, LockInv, HasLock
<1>6. ASSUME ~damaged
      PROVE  KeysMatch(c) <=> c \notin stale
  <2>1. ReadsPrefix(c) /\ Sound(db, None)
    BY <1>2, <1>6 DEF IInv, CheckInv, ChainInv
  <2>2. /\ db.log \in Seq(Event) /\ fetched[c] \in Seq(Event) /\ audited[c] \in Seq(Keys)
        /\ DOMAIN audited[c] = 1..Len(fetched[c])
    BY <1>2 DEF IInv, TypeOK, Database
  <2>3. ToSet(audited[c]) = {db.log[j].payload.key : j \in 1..Len(fetched[c])}
    <3>1. ToSet(audited[c]) = {audited[c][j] : j \in 1..Len(fetched[c])}
      BY <2>2 DEF ToSet
    <3>2. \A j \in 1..Len(fetched[c]) : audited[c][j] = db.log[j].payload.key
      BY <1>2, <2>1 DEF ReadsPrefix
    <3> QED BY <3>1, <3>2
  <2>4. \A j \in 1..Len(db.log) : /\ db.log[j].payload.key \in Keys
                                  /\ db.rows[db.log[j].payload.key] # None
    BY <2>1, <2>2, EventsAreTyped DEF Sound, EventsMatch, Payload
  <2>5. CASE c \notin stale
    <3>1. Len(fetched[c]) = Len(db.log)
      BY <2>1, <2>2, <2>5 DEF ReadsPrefix
    <3>2. \A k \in Keys : db.rows[k] # None =>
             \E j \in 1..Len(db.log) : db.log[j].payload.key = k
      BY <2>1 DEF Sound, EventsMatch
    <3> QED BY <2>3, <2>4, <2>5, <3>1, <3>2 DEF KeysMatch
  <2>6. CASE c \in stale
    <3> DEFINE n == Len(fetched[c]) + 1
    <3>1. n \in 1..Len(db.log) /\ \A j \in 1..Len(fetched[c]) : j \in 1..Len(db.log) /\ j # n
      BY <2>1, <2>2, <2>6 DEF ReadsPrefix
    <3>2. db.log[n].payload.key \notin ToSet(audited[c])
      <4>1. \A i, j \in 1..Len(db.log) :
              db.log[i].payload.key = db.log[j].payload.key => i = j
        BY <2>1 DEF Sound, EventsMatch
      <4> HIDE DEF n
      <4>2. ASSUME NEW j \in 1..Len(fetched[c])
            PROVE  db.log[j].payload.key # db.log[n].payload.key
        BY <3>1, <4>1
      <4> QED BY <2>3, <4>2
    <3> QED BY <2>4, <2>6, <3>1, <3>2 DEF KeysMatch
  <2> QED BY <2>5, <2>6
<1>7. ASSUME ~damaged, NEW q \in Conns
      PROVE  /\ pc'[q] = "check" => ReadsPrefix(q)'
             /\ verdict'[q] = "valid" => q \notin stale'
             /\ verdict'[q] = "broken" => q \in stale' \/ fetched'[q] = <<>>
  <2>1. CASE q # c
    BY <1>1, <1>2, <1>7, <2>1 DEF IInv, TypeOK, CheckInv, ReadsPrefix
  <2>2. CASE q = c
    BY <1>1, <1>2, <1>6, <1>7, <2>2 DEF IInv, TypeOK
  <2> QED BY <2>1, <2>2
<1> QED BY <1>1, <1>3, <1>4, <1>5, <1>7 DEF IInv, CheckInv

(***************************************************************************)
(* Edits behind the store's back                                           *)
(***************************************************************************)

\* Of a damaged store the invariant says nothing but the types and the lock.
LEMMA EditKeeps ==
  ASSUME IInv, NEW d \in Database, Edit(d)
  PROVE  IInv'
<1>1. /\ UNCHANGED <<pc, tx, holder, todo, inserted, tail, fetched, audited, verdict, stale,
                     doomed, saves, checks>>
      /\ db' = d /\ damaged' = TRUE /\ edits' \in 0..MaxEdits
  BY DEF Edit, writing, checking, IInv, TypeOK
<1>2. TypeOK'
  BY <1>1 DEF IInv, TypeOK
<1>3. LockInv'
  BY <1>1 DEF IInv, LockInv
<1> QED BY <1>1, <1>2, <1>3 DEF IInv

\* An edited database is still a database.
LEMMA EditsAreTyped ==
  ASSUME TypeOK
  PROVE  /\ EditRow => \E d \in Database : Edit(d)
         /\ EditEvent => \E d \in Database : Edit(d)
         /\ RemoveEvent => \E d \in Database : Edit(d)
<1>1. /\ db \in Database /\ db.log \in Seq(Event)
      /\ DOMAIN db.log = 1..Len(db.log)
  BY DEF TypeOK, Database
<1>2. ASSUME EditRow
      PROVE  \E d \in Database : Edit(d)
  <2>1. PICK k \in Keys, v \in Contents \cup {None} : Edit([db EXCEPT !.rows[k] = v])
    BY <1>2 DEF EditRow
  <2>2. [db EXCEPT !.rows[k] = v] \in Database
    BY <1>1 DEF Database
  <2> QED BY <2>1, <2>2
<1>3. ASSUME EditEvent
      PROVE  \E d \in Database : Edit(d)
  <2>1. PICK i \in DOMAIN db.log, p \in Payload : Edit([db EXCEPT !.log[i].payload = p])
    BY <1>3 DEF EditEvent
  <2> DEFINE e == [db.log[i] EXCEPT !.payload = p]
             log == [db.log EXCEPT ![i] = e]
  <2>2. e \in Event
    <3>1. db.log[i] \in Event
      BY <1>1
    <3> QED BY <3>1 DEF Event
  <2> HIDE DEF e
  <2>3. log \in Seq(Event)
    BY <1>1, <2>2
  <2> HIDE DEF log
  <2>4. [db EXCEPT !.log = log] \in Database
    BY <1>1, <2>3 DEF Database
  <2> QED BY <2>1, <2>4 DEF log, e
<1>4. ASSUME RemoveEvent
      PROVE  \E d \in Database : Edit(d)
  <2>1. PICK i \in DOMAIN db.log : Edit([db EXCEPT !.log = RemoveAt(@, i)])
    BY <1>4 DEF RemoveEvent
  <2>2. i \in 1..Len(db.log) /\ Len(db.log) \in Nat
    BY <1>1
  <2>3. SubSeq(db.log, 1, i - 1) \in Seq(Event) /\ SubSeq(db.log, i + 1, Len(db.log)) \in Seq(Event)
    BY <1>1, <2>2, SubSeqProperties
  <2>4. RemoveAt(db.log, i) \in Seq(Event)
    BY <2>3 DEF RemoveAt
  <2>5. [db EXCEPT !.log = RemoveAt(db.log, i)] \in Database
    BY <1>1, <2>4 DEF Database
  <2> QED BY <2>1, <2>5
<1> QED BY <1>2, <1>3, <1>4

(***************************************************************************)
(* The theorems                                                            *)
(***************************************************************************)

\* The empty store is sound.
LEMMA InitHolds == Init => IInv
<1> SUFFICES ASSUME Init PROVE IInv
  OBVIOUS
<1>1. db = EmptyDatabase /\ EmptyDatabase \in Database
  BY DEF Init, EmptyDatabase, Database
<1>2. TypeOK
  <2>1. /\ MaxSaves \in Nat /\ MaxChecks \in Nat /\ MaxEdits \in Nat
        /\ <<>> \in Seq(Event) /\ <<>> \in Seq(Keys) /\ Genesis \in Hash
    BY DEF Genesis, Hash
  <2>2. tail \in [Conns -> Hash]
    BY <2>1 DEF Init
  <2>3. todo \in [Conns -> [keys : SUBSET Keys, content : Contents \cup {None}]]
    BY DEF Init, Nothing
  <2>4. db \in Database /\ tx \in Database
    BY <1>1 DEF Init
  <2>5. fetched \in [Conns -> Seq(Event)] /\ audited \in [Conns -> Seq(Keys)]
    BY <2>1 DEF Init
  <2>6. damaged \in BOOLEAN
    BY Zenon DEF Init
  <2>7. saves \in 0..MaxSaves /\ checks \in 0..MaxChecks /\ edits \in 0..MaxEdits
    BY <2>1 DEF Init
  <2> QED BY <2>2, <2>3, <2>4, <2>5, <2>6, <2>7 DEF Init, TypeOK
<1>3. LockInv
  BY DEF Init, LockInv, HasLock
<1>4. db.log = <<>> /\ db.last = 0 /\ \A k \in Keys : db.rows[k] = None
  BY <1>1 DEF EmptyDatabase
<1>5. ChainInv
  BY <1>4 DEF Init, ChainInv, Sound, Chained, EventsMatch
<1>6. CheckInv
  BY DEF Init, CheckInv
<1> QED BY <1>2, <1>3, <1>5, <1>6 DEF IInv

LEMMA StepHolds == IInv /\ [Next]_vars => IInv'
<1> SUFFICES ASSUME IInv, [Next]_vars PROVE IInv'
  OBVIOUS
<1>1. CASE Finished \/ UNCHANGED vars
  <2>1. UNCHANGED <<db, pc, damaged, tx, holder, todo, inserted, tail, fetched, audited,
                    verdict, stale, doomed, saves, checks, edits>>
    BY <1>1 DEF Finished, vars, writing, checking, counters
  <2>2. TypeOK' /\ LockInv'
    BY <2>1 DEF IInv, TypeOK, LockInv
  <2>3. ~damaged => ChainInv' /\ CheckInv'
    BY <2>1, ChainStays, CheckStays DEF IInv
  <2> QED BY <2>1, <2>2, <2>3 DEF IInv
<1>2. CASE EditRow \/ EditEvent \/ RemoveEvent
  BY <1>2, EditsAreTyped, EditKeeps DEF IInv
<1>3. ASSUME NEW c \in Conns, Save(c) \/ Begin(c) \/ InsertRow(c) \/ ReadTail(c)
      PROVE  IInv'
  BY <1>3, SaveKeeps, BeginKeeps, InsertRowKeeps, ReadTailKeeps
<1>4. ASSUME NEW c \in Conns, AppendEvent(c) \/ Commit(c)
      PROVE  IInv'
  BY <1>4, AppendEventKeeps, CommitKeeps
<1>5. ASSUME NEW c \in Conns, Abort(c)
      PROVE  IInv'
  BY <1>5, RollbackKeeps DEF Abort
<1>6. ASSUME NEW c \in Conns, BeginCheck(c) \/ CheckEvent(c) \/ EndCheck(c)
      PROVE  IInv'
  BY <1>6, BeginCheckKeeps, CheckEventKeeps, EndCheckKeeps
<1> QED BY <1>1, <1>2, <1>3, <1>4, <1>5, <1>6 DEF Next

\* The invariant holds in every reachable state.
THEOREM Invariance == Spec => []IInv
<1> QED BY InitHolds, StepHolds, PTL DEF Spec

\* Type correctness.
THEOREM TypeCorrect == Spec => []TypeOK
<1>1. IInv => TypeOK
  BY DEF IInv
<1> QED BY <1>1, Invariance, PTL

\* The committed log of an undamaged store is one gapless chain with exactly one
\* event for each row, however the transactions interleave, fail and roll back.
THEOREM ChainHolds == Spec => []ChainIsWhole
<1>1. IInv => ChainIsWhole
  <2> SUFFICES ASSUME IInv, ~damaged PROVE Chained(db.log) /\ OneEventPerRow(db)
    BY DEF ChainIsWhole
  <2>1. Sound(db, None) /\ db.log \in Seq(Event) /\ DOMAIN db.log = 1..Len(db.log)
    BY DEF IInv, TypeOK, ChainInv, Database
  <2>2. ASSUME NEW k \in Keys
        PROVE  LET events == {i \in DOMAIN db.log : db.log[i].payload.key = k}
               IN  IF db.rows[k] = None
                   THEN events = {}
                   ELSE \E i \in events : events = {i} /\ db.log[i].payload.print = db.rows[k]
    <3> DEFINE events == {i \in DOMAIN db.log : db.log[i].payload.key = k}
    <3>1. \A i \in 1..Len(db.log) : db.log[i].payload.print # None
      BY <2>1, EventsAreTyped DEF Payload
    <3>2. CASE db.rows[k] = None
      <4>1. events = {}
        BY <2>1, <3>1, <3>2 DEF Sound, EventsMatch
      <4> QED BY <3>2, <4>1
    <3>3. CASE db.rows[k] # None
      <4>1. PICK i \in 1..Len(db.log) : db.log[i].payload.key = k
        BY <2>1, <2>2, <3>3 DEF Sound, EventsMatch
      <4>2. events = {i}
        BY <2>1, <4>1 DEF Sound, EventsMatch
      <4>3. db.log[i].payload.print = db.rows[k]
        BY <2>1, <4>1 DEF Sound, EventsMatch
      <4> QED BY <3>3, <4>2, <4>3
    <3> QED BY <3>2, <3>3
  <2> QED BY <2>1, <2>2 DEF Sound, OneEventPerRow
<1> QED BY <1>1, Invariance, PTL

\* A verification outside a transaction finds an undamaged store valid exactly
\* when the log is not empty and nobody commits while it is read.
THEOREM VerdictHolds == Spec => []VerdictIsExact
<1>1. IInv => VerdictIsExact
  BY DEF IInv, CheckInv, VerdictIsExact
<1> QED BY <1>1, Invariance, PTL

(***************************************************************************)
(* Damage                                                                  *)
(***************************************************************************)

\* What an edit leaves behind and no transaction takes away: an event that was not
\* sealed like this, a row without event, an event without its row, a row with two
\* events.  x is a row whose event is still to be written.
BadSeal(d) ==
  \E i \in 1..Len(d.log) : d.log[i].hash # Append(d.log[i].previous, d.log[i].payload)

RowWithoutEvent(d, x) ==
  \E k \in Keys : /\ k # x /\ d.rows[k] # None
                  /\ \A i \in 1..Len(d.log) : d.log[i].payload.key # k

EventWithoutRow(d, x) ==
  \E i \in 1..Len(d.log) : \/ d.log[i].payload.key = x
                           \/ d.log[i].payload.print # d.rows[d.log[i].payload.key]

RowWithTwoEvents(d) ==
  \E i, j \in 1..Len(d.log) : i # j /\ d.log[i].payload.key = d.log[j].payload.key

Defect(d, x) ==
  BadSeal(d) \/ RowWithoutEvent(d, x) \/ EventWithoutRow(d, x) \/ RowWithTwoEvents(d)

\* The committed database and the lock holder's copy have a defect.
StoreIsDefective ==
  /\ Defect(db, None)
  /\ \A c \in Conns : holder = c =>
       /\ pc[c] \in {"insert", "commit"} => Defect(tx, None)
       /\ pc[c] \in {"tail", "event"} => Defect(tx, inserted[c])

\* The events that verification c has found valid are valid.
Passed(c) ==
  /\ fetched[c] = db.log
  /\ Len(audited[c]) <= Len(db.log)
  /\ \A i \in 1..Len(audited[c]) :
       /\ audited[c][i] = db.log[i].payload.key
       /\ db.log[i].hash = Append(db.log[i].previous, db.log[i].payload)
       /\ db.log[i].payload.print = db.rows[db.log[i].payload.key]
  /\ \A i, j \in 1..Len(audited[c]) : audited[c][i] = audited[c][j] => i = j

\* A verification that began on the damaged store and was not disturbed.
ChecksFail ==
  \A c \in doomed \ stale : /\ pc[c] = "check" => Passed(c)
                            /\ verdict[c] # "valid"

DamageInv ==
  /\ damaged <=> edits # 0
  /\ edits = 0 => doomed = {}
  /\ edits = 1 => StoreIsDefective /\ ChecksFail

\* The INSERT of a row mends nothing: an event that was there for it is one too many.
LEMMA InsertKeepsDefect ==
  ASSUME NEW d \in Database, NEW k \in Keys, NEW v \in Contents,
         d.rows[k] = None, Defect(d, None)
  PROVE  Defect([d EXCEPT !.rows[k] = v], k)
<1> DEFINE e == [d EXCEPT !.rows[k] = v]
<1> SUFFICES Defect(e, k)
  OBVIOUS
<1>1. e.log = d.log /\ e.rows = [d.rows EXCEPT ![k] = v]
  BY DEF Database
<1>2. /\ d.log \in Seq(Event) /\ d.rows \in [Keys -> Contents \cup {None}]
      /\ \A i \in 1..Len(d.log) : d.log[i].payload.key \in Keys
  BY EventsAreTyped DEF Database, Payload
<1> HIDE DEF e
<1>3. \A j \in Keys : j # k => e.rows[j] = d.rows[j]
  BY <1>1, <1>2
<1>4. CASE BadSeal(d)
  <2>1. BadSeal(e)
    BY Zenon, <1>1, <1>4 DEF BadSeal
  <2> QED BY <2>1 DEF Defect
<1>5. CASE RowWithoutEvent(d, None)
  <2>1. PICK j \in Keys : /\ d.rows[j] # None
                          /\ \A i \in 1..Len(d.log) : d.log[i].payload.key # j
    BY <1>5 DEF RowWithoutEvent
  <2>2. j # k /\ e.rows[j] # None
    BY <1>3, <2>1
  <2>3. RowWithoutEvent(e, k)
    BY <1>1, <2>1, <2>2 DEF RowWithoutEvent
  <2> QED BY <2>3 DEF Defect
<1>6. CASE EventWithoutRow(d, None)
  <2>1. PICK i \in 1..Len(d.log) : d.log[i].payload.print # d.rows[d.log[i].payload.key]
    BY <1>2, <1>6 DEF EventWithoutRow
  <2>2. \/ d.log[i].payload.key = k
        \/ d.log[i].payload.print # e.rows[d.log[i].payload.key]
    BY <1>2, <1>3, <2>1
  <2>3. EventWithoutRow(e, k)
    BY <1>1, <2>2 DEF EventWithoutRow
  <2> QED BY <2>3 DEF Defect
<1>7. CASE RowWithTwoEvents(d)
  <2>1. RowWithTwoEvents(e)
    BY Zenon, <1>1, <1>7 DEF RowWithTwoEvents
  <2> QED BY <2>1 DEF Defect
<1> QED BY <1>4, <1>5, <1>6, <1>7 DEF Defect

\* Nor does the INSERT of its event.
LEMMA SealKeepsDefect ==
  ASSUME NEW d \in Database, NEW x \in Keys, NEW t \in Hash, d.rows[x] \in Contents,
         Defect(d, x)
  PROVE  Defect(Seal(d, [key |-> x, print |-> d.rows[x]], t), None)
<1> DEFINE p == [key |-> x, print |-> d.rows[x]]
           ev == [sequence |-> d.last + 1, payload |-> p,
                  previous |-> t, hash |-> Append(t, p)]
           e == Seal(d, p, t)
           n == Len(d.log)
<1> SUFFICES Defect(e, None)
  OBVIOUS
<1>1. d.log \in Seq(Event) /\ n \in Nat
  BY DEF Database
<1>2. e.rows = d.rows /\ e.log = Append(d.log, ev)
  BY DEF Seal, Database
<1>3. ev.payload = p /\ p.key = x
  OBVIOUS
<1> HIDE DEF ev, p, e
<1>4. /\ Len(e.log) = n + 1 /\ e.log[n + 1] = ev
      /\ \A i \in 1..n : e.log[i] = d.log[i]
  BY <1>1, <1>2
<1>5. e.log[n + 1].payload.key = x
  BY <1>3, <1>4
<1>6. /\ n + 1 \in 1..Len(e.log) /\ n + 1 \notin 1..n
      /\ \A i \in 1..n : i \in 1..Len(e.log)
      /\ \A i \in 1..Len(e.log) : i \in 1..n \/ i = n + 1
  BY <1>1, <1>4
<1> HIDE DEF n
<1>7. CASE BadSeal(d)
  <2>1. PICK i \in 1..n : d.log[i].hash # Append(d.log[i].previous, d.log[i].payload)
    BY <1>7 DEF BadSeal, n
  <2>2. i \in 1..Len(e.log) /\ e.log[i] = d.log[i]
    BY <1>4, <1>6
  <2>3. BadSeal(e)
    BY Zenon, <2>1, <2>2 DEF BadSeal
  <2> QED BY <2>3 DEF Defect
<1>8. CASE RowWithoutEvent(d, x)
  <2>1. PICK k \in Keys : /\ k # x /\ d.rows[k] # None
                          /\ \A i \in 1..n : d.log[i].payload.key # k
    BY <1>8 DEF RowWithoutEvent, n
  <2>2. \A i \in 1..Len(e.log) : e.log[i].payload.key # k
    BY <1>4, <1>5, <1>6, <2>1
  <2>3. k # None
    BY ChainAssumption
  <2>4. RowWithoutEvent(e, None)
    BY Zenon, <1>2, <2>1, <2>2, <2>3 DEF RowWithoutEvent
  <2> QED BY <2>4 DEF Defect
<1>9. CASE EventWithoutRow(d, x)
  <2>1. PICK i \in 1..n : \/ d.log[i].payload.key = x
                          \/ d.log[i].payload.print # d.rows[d.log[i].payload.key]
    BY <1>9 DEF EventWithoutRow, n
  <2>2. i \in 1..Len(e.log) /\ e.log[i] = d.log[i] /\ i # n + 1
    BY <1>4, <1>6
  <2>3. CASE d.log[i].payload.key = x
    <3>1. e.log[i].payload.key = e.log[n + 1].payload.key
      BY <1>5, <2>2, <2>3
    <3>2. RowWithTwoEvents(e)
      BY Zenon, <1>6, <2>2, <3>1 DEF RowWithTwoEvents
    <3> QED BY <3>2 DEF Defect
  <2>4. CASE d.log[i].payload.print # d.rows[d.log[i].payload.key]
    <3>1. EventWithoutRow(e, None)
      BY Zenon, <1>2, <2>2, <2>4 DEF EventWithoutRow
    <3> QED BY <3>1 DEF Defect
  <2> QED BY <2>1, <2>3, <2>4
<1>10. CASE RowWithTwoEvents(d)
  <2>1. PICK i \in 1..n, j \in 1..n :
          i # j /\ d.log[i].payload.key = d.log[j].payload.key
    BY Zenon, <1>10 DEF RowWithTwoEvents, n
  <2>2. /\ i \in 1..Len(e.log) /\ e.log[i] = d.log[i]
        /\ j \in 1..Len(e.log) /\ e.log[j] = d.log[j]
    BY <1>4, <1>6
  <2>3. RowWithTwoEvents(e)
    BY Zenon, <2>1, <2>2 DEF RowWithTwoEvents
  <2> QED BY <2>3 DEF Defect
<1> QED BY <1>7, <1>8, <1>9, <1>10 DEF Defect

\* One edit of a sound store makes it defective: of a row, ...
LEMMA RowEditIsDefect ==
  ASSUME NEW d \in Database, Sound(d, None), NEW k \in Keys, NEW v, d.rows[k] \notin {None, v}
  PROVE  Defect([d EXCEPT !.rows[k] = v], None)
<1> DEFINE e == [d EXCEPT !.rows[k] = v]
<1>1. e.log = d.log /\ e.rows[k] = v
  BY DEF Database
<1>2. PICK i \in 1..Len(d.log) : d.log[i].payload.key = k
  BY DEF Sound, EventsMatch
<1>3. d.log[i].payload.print = d.rows[k]
  BY <1>2 DEF Sound, EventsMatch
<1>4. e.log[i].payload.print # e.rows[e.log[i].payload.key] /\ i \in 1..Len(e.log)
  BY <1>1, <1>2, <1>3
<1> HIDE DEF e
<1>5. Defect(e, None)
  BY <1>4 DEF Defect, EventWithoutRow
<1> QED BY <1>5 DEF e

\* ... of what an event seals, ...
LEMMA EventEditIsDefect ==
  ASSUME NEW d \in Database, Sound(d, None), NEW i \in DOMAIN d.log, NEW p \in Payload,
         d.log[i].payload # p
  PROVE  Defect([d EXCEPT !.log[i].payload = p], None)
<1> DEFINE ev == [d.log[i] EXCEPT !.payload = p]
           log == [d.log EXCEPT ![i] = ev]
           e == [d EXCEPT !.log = log]
<1>1. d.log \in Seq(Event) /\ DOMAIN d.log = 1..Len(d.log) /\ d.log[i] \in Event
  BY DEF Database
<1>2. ev.payload = p /\ ev.previous = d.log[i].previous /\ ev.hash = d.log[i].hash
  BY <1>1 DEF Event
<1>3. d.log[i].hash = Append(d.log[i].previous, d.log[i].payload)
  BY DEF Sound, Chained
<1>4. d.log[i].previous \in Seq(Payload) /\ d.log[i].payload \in Payload
  BY <1>1 DEF Event, Hash
<1>5. Append(d.log[i].previous, d.log[i].payload) # Append(d.log[i].previous, p)
  BY <1>4, AppendProperties
<1>6. ev.hash # Append(ev.previous, ev.payload)
  BY <1>2, <1>3, <1>5
<1> HIDE DEF ev
<1>7. i \in 1..Len(log) /\ log[i] = ev
  BY <1>1
<1> HIDE DEF log
<1>8. e.log = log
  BY DEF Database
<1> HIDE DEF e
<1>9. Defect(e, None)
  BY Zenon, <1>6, <1>7, <1>8 DEF Defect, BadSeal
<1> QED BY <1>9 DEF e, log, ev

\* ... or the loss of an event.
LEMMA EventLossIsDefect ==
  ASSUME NEW d \in Database, Sound(d, None), NEW i \in DOMAIN d.log
  PROVE  Defect([d EXCEPT !.log = RemoveAt(@, i)], None)
<1> DEFINE log == RemoveAt(d.log, i)
           e == [d EXCEPT !.log = log]
           k == d.log[i].payload.key
           n == Len(d.log)
<1>1. /\ d.log \in Seq(Event) /\ DOMAIN d.log = 1..n /\ n \in Nat
      /\ i \in 1..n /\ d.log[i].payload \in Payload
  BY EventsAreTyped DEF Database
<1>2. k \in Keys /\ d.rows[k] = d.log[i].payload.print /\ d.log[i].payload.print # None
  BY <1>1 DEF Sound, EventsMatch, Payload
<1>3. \A j \in 1..n : j # i => d.log[j].payload.key # k
  BY <1>1 DEF Sound, EventsMatch
<1> DEFINE left == SubSeq(d.log, 1, i - 1)
           right == SubSeq(d.log, i + 1, n)
<1>4. /\ left \in Seq(Event) /\ Len(left) = i - 1
      /\ \A j \in 1..(i - 1) : left[j] = d.log[j]
  BY <1>1, SubSeqProperties
<1>5. /\ right \in Seq(Event) /\ Len(right) = n - i
      /\ \A j \in 1..(n - i) : right[j] = d.log[i + j]
  <2>1. i \in Int /\ n \in Int /\ i <= n /\ i + 1 \in Int /\ n - (i + 1) + 1 = n - i
    BY <1>1
  <2>2. \A j \in (i + 1)..n : d.log[j] \in Event
    <3>1. \A j \in (i + 1)..n : j \in 1..n
      BY <1>1
    <3> QED BY <1>1, <3>1
  <2> HIDE DEF n
  <2>3. /\ right \in Seq(Event)
        /\ Len(right) = IF i + 1 <= n THEN n - (i + 1) + 1 ELSE 0
        /\ \A j \in 1..(n - (i + 1) + 1) : right[j] = d.log[(i + 1) + j - 1]
    BY <2>1, <2>2, SubSeqProperties
  <2>4. \A j \in 1..(n - i) : (i + 1) + j - 1 = i + j
    BY <2>1
  <2> HIDE DEF right
  <2> QED BY <2>1, <2>3, <2>4
<1> HIDE DEF left, right
<1>6. log = left \o right
  BY DEF RemoveAt, left, right
<1> HIDE DEF log, k
<1>7. /\ Len(log) = n - 1
      /\ \A j \in 1..(i - 1) : log[j] = left[j]
      /\ \A j \in i..(n - 1) : log[j] = right[j - (i - 1)]
  <2>1. /\ Len(log) = Len(left) + Len(right)
        /\ \A j \in 1..(Len(left) + Len(right)) :
             log[j] = IF j <= Len(left) THEN left[j] ELSE right[j - Len(left)]
    <3>1. left \in Seq(Event) /\ right \in Seq(Event)
      BY <1>4, <1>5
    <3> QED BY <1>6, <3>1, ConcatProperties
  <2>2. Len(left) = i - 1 /\ Len(left) + Len(right) = n - 1
    <3>1. Len(left) = i - 1 /\ Len(right) = n - i /\ i \in Int /\ n \in Int
      BY <1>1, <1>4, <1>5
    <3> QED BY <3>1
  <2>3. \A j \in 1..(n - 1) : log[j] = IF j <= i - 1 THEN left[j] ELSE right[j - (i - 1)]
    BY <2>1, <2>2
  <2>4. ASSUME NEW j \in 1..(i - 1)
        PROVE  log[j] = left[j]
    <3>1. j \in 1..(n - 1) /\ j <= i - 1
      BY <1>1
    <3> QED BY <2>3, <3>1
  <2>5. ASSUME NEW j \in i..(n - 1)
        PROVE  log[j] = right[j - (i - 1)]
    <3>1. j \in 1..(n - 1) /\ ~(j <= i - 1)
      BY <1>1
    <3> QED BY <2>3, <3>1
  <2> QED BY <2>1, <2>2, <2>4, <2>5
<1> HIDE DEF n
<1>8. ASSUME NEW j \in 1..Len(log)
      PROVE  log[j].payload.key # k
  <2>1. CASE j \in 1..(i - 1)
    <3>1. j \in 1..n /\ j # i
      BY <1>1, <2>1
    <3>2. log[j] = d.log[j]
      BY <1>4, <1>7, <2>1
    <3> QED BY <1>3, <3>1, <3>2
  <2>2. CASE j \in i..(n - 1)
    <3> DEFINE m == j - (i - 1)
    <3>1. m \in 1..(n - i) /\ i + m = j + 1 /\ j + 1 \in 1..n /\ j + 1 # i
      BY <1>1, <2>2
    <3>2. log[j] = right[m]
      BY <1>7, <2>2
    <3> HIDE DEF m
    <3>3. log[j] = d.log[j + 1]
      BY <1>5, <3>1, <3>2
    <3> QED BY <1>3, <3>1, <3>3
  <2>3. j \in 1..(i - 1) \/ j \in i..(n - 1)
    BY <1>1, <1>7
  <2> QED BY <2>1, <2>2, <2>3
<1>9. e.log = log /\ e.rows = d.rows
  BY DEF Database
<1> HIDE DEF e
<1>10. RowWithoutEvent(e, None)
  <2>1. k # None /\ d.rows[k] # None
    BY <1>2, ChainAssumption
  <2> QED BY Zenon, <1>2, <1>8, <1>9, <2>1 DEF RowWithoutEvent
<1> QED BY <1>10 DEF Defect, e, log

\* A step that leaves the lock holder's transaction alone.
LEMMA DefectStays ==
  ASSUME StoreIsDefective, UNCHANGED <<db, tx, holder, inserted>>,
         \A q \in Conns : holder = q => pc'[q] = pc[q]
  PROVE  StoreIsDefective'
BY DEF StoreIsDefective

\* A step that no verification sees.
LEMMA FailuresStay ==
  ASSUME TypeOK, ChecksFail, UNCHANGED <<db, fetched, audited, verdict, stale, doomed>>,
         \A q \in Conns : pc'[q] = "check" => pc[q] = "check"
  PROVE  ChecksFail'
<1>1. ASSUME NEW q \in doomed \ stale, pc'[q] = "check"
      PROVE  Passed(q)'
  <2>1. Passed(q)
    BY <1>1 DEF ChecksFail, TypeOK
  <2> QED BY <2>1 DEF Passed
<1> QED BY <1>1 DEF ChecksFail

\* The call of a transaction, its lock, its SELECT of the tail, its end without a
\* commit.
LEMMA DamageOutlastsCalls ==
  ASSUME IInv, DamageInv, NEW c \in Conns,
         Save(c) \/ Begin(c) \/ ReadTail(c) \/ (pc[c] # "check" /\ Rollback(c))
  PROVE  DamageInv'
<1>1. UNCHANGED <<db, damaged, fetched, audited, verdict, stale, doomed, edits>>
  BY DEF Save, Begin, ReadTail, Rollback, checking, counters
<1>2. \A q \in Conns : q # c => pc'[q] = pc[q]
  BY DEF Save, Begin, ReadTail, Rollback, GoTo, IInv, TypeOK
<1>3. pc'[c] # "check"
  BY DEF Save, Begin, ReadTail, Rollback, GoTo, IInv, TypeOK
<1>4. ASSUME edits = 1
      PROVE  StoreIsDefective'
  <2>1. StoreIsDefective
    BY <1>4 DEF DamageInv
  <2>2. CASE Save(c)
    <3>1. holder # c /\ UNCHANGED <<tx, holder, inserted>>
      BY <2>2 DEF Save, IInv, LockInv, HasLock
    <3> QED BY <1>1, <1>2, <2>1, <3>1, DefectStays
  <2>3. CASE Begin(c)
    <3>1. tx' = db /\ holder' = c /\ pc'[c] = "insert" /\ inserted' = inserted
      BY <2>3 DEF Begin, GoTo, IInv, TypeOK
    <3> QED BY <1>1, <2>1, <3>1 DEF StoreIsDefective
  <2>4. CASE ReadTail(c)
    <3>1. /\ holder = c /\ pc[c] = "tail" /\ pc'[c] = "event"
          /\ UNCHANGED <<tx, holder, inserted>>
      BY <2>4 DEF ReadTail, GoTo, IInv, TypeOK, LockInv, HasLock
    <3> QED BY <1>1, <2>1, <3>1 DEF StoreIsDefective
  <2>5. CASE Rollback(c)
    <3>1. CASE holder = c
      <4>1. holder' = None
        BY <2>5, <3>1 DEF Rollback
      <4> QED BY <1>1, <2>1, <4>1 DEF StoreIsDefective
    <3>2. CASE holder # c
      <4>1. /\ holder' = holder /\ tx' = tx
            /\ \A q \in Conns : q # c => inserted'[q] = inserted[q]
        BY <2>5, <3>2 DEF Rollback, IInv, TypeOK
      <4> QED BY <1>1, <1>2, <2>1, <3>2, <4>1 DEF StoreIsDefective
    <3> QED BY <3>1, <3>2
  <2> QED BY <2>2, <2>3, <2>4, <2>5
<1>5. edits = 1 => ChecksFail'
  BY <1>1, <1>2, <1>3, FailuresStay DEF IInv, DamageInv
<1> QED BY <1>1, <1>4, <1>5 DEF DamageInv

\* A row is written or was there already.
LEMMA DamageOutlastsInsertRow ==
  ASSUME IInv, DamageInv, NEW c \in Conns, InsertRow(c)
  PROVE  DamageInv'
<1>1. PICK k \in todo[c].keys :
       \/ /\ tx.rows[k] = None
          /\ tx' = [tx EXCEPT !.rows[k] = todo[c].content]
          /\ inserted' = [inserted EXCEPT ![c] = k]
          /\ GoTo(c, "tail")
          /\ UNCHANGED <<db, damaged, checking, counters, holder, todo, tail>>
       \/ /\ tx.rows[k] = todo[c].content
          /\ todo' = [todo EXCEPT ![c].keys = @ \ {k}]
          /\ GoTo(c, IF todo[c].keys = {k} THEN "commit" ELSE "insert")
          /\ UNCHANGED <<db, damaged, checking, counters, tx, holder, inserted, tail>>
       \/ tx.rows[k] \notin {None, todo[c].content} /\ Rollback(c)
  BY DEF InsertRow
<1>2. /\ pc[c] = "insert" /\ holder = c /\ todo[c].content \in Contents
      /\ k \in Keys /\ tx \in Database
  BY DEF InsertRow, IInv, TypeOK, LockInv, HasLock
<1>3. CASE /\ tx.rows[k] = None
           /\ tx' = [tx EXCEPT !.rows[k] = todo[c].content]
           /\ inserted' = [inserted EXCEPT ![c] = k]
           /\ GoTo(c, "tail")
           /\ UNCHANGED <<db, damaged, checking, counters, holder, todo, tail>>
  <2>1. UNCHANGED <<db, damaged, fetched, audited, verdict, stale, doomed, edits, holder>>
    BY <1>3 DEF checking, counters
  <2>2. /\ pc'[c] = "tail" /\ inserted'[c] = k
        /\ \A q \in Conns : q # c => pc'[q] = pc[q]
    BY <1>3 DEF GoTo, IInv, TypeOK
  <2>3. ASSUME edits = 1
        PROVE  StoreIsDefective'
    <3>1. Defect(db, None) /\ Defect(tx, None)
      BY <1>2, <2>3 DEF DamageInv, StoreIsDefective
    <3>2. Defect(tx', k)
      BY <1>2, <1>3, <3>1, InsertKeepsDefect
    <3> QED BY <1>2, <2>1, <2>2, <3>1, <3>2 DEF StoreIsDefective
  <2>4. edits = 1 => ChecksFail'
    BY <2>1, <2>2, FailuresStay DEF IInv, DamageInv
  <2> QED BY <2>1, <2>3, <2>4 DEF DamageInv
<1>4. CASE /\ tx.rows[k] = todo[c].content
           /\ todo' = [todo EXCEPT ![c].keys = @ \ {k}]
           /\ GoTo(c, IF todo[c].keys = {k} THEN "commit" ELSE "insert")
           /\ UNCHANGED <<db, damaged, checking, counters, tx, holder, inserted, tail>>
  <2>1. UNCHANGED <<db, damaged, fetched, audited, verdict, stale, doomed, edits, tx, holder,
                    inserted>>
    BY <1>4 DEF checking, counters
  <2>2. /\ pc'[c] \in {"commit", "insert"}
        /\ \A q \in Conns : q # c => pc'[q] = pc[q]
    BY <1>4 DEF GoTo, IInv, TypeOK
  <2>3. ASSUME edits = 1
        PROVE  StoreIsDefective'
    <3>1. Defect(db, None) /\ Defect(tx, None)
      BY <1>2, <2>3 DEF DamageInv, StoreIsDefective
    <3> QED BY <1>2, <2>1, <2>2, <3>1 DEF StoreIsDefective
  <2>4. edits = 1 => ChecksFail'
    BY <2>1, <2>2, FailuresStay DEF IInv, DamageInv
  <2> QED BY <2>1, <2>3, <2>4 DEF DamageInv
<1>5. CASE tx.rows[k] \notin {None, todo[c].content} /\ Rollback(c)
  BY <1>2, <1>5, DamageOutlastsCalls
<1> QED BY <1>1, <1>3, <1>4, <1>5

\* The event of a row is written.
LEMMA DamageOutlastsAppendEvent ==
  ASSUME IInv, DamageInv, NEW c \in Conns, AppendEvent(c)
  PROVE  DamageInv'
<1> DEFINE k == inserted[c]
<1>1. UNCHANGED <<db, damaged, fetched, audited, verdict, stale, doomed, edits, holder>>
  BY DEF AppendEvent, checking, counters
<1>2. /\ pc[c] = "event" /\ holder = c /\ k \in Keys /\ tx \in Database
      /\ tail[c] \in Hash /\ tx.rows[k] \in Contents
  BY DEF AppendEvent, IInv, TypeOK, LockInv, HasLock
<1>3. /\ pc'[c] \in {"commit", "insert"}
      /\ \A q \in Conns : q # c => pc'[q] = pc[q]
  BY DEF AppendEvent, GoTo, IInv, TypeOK
<1>4. tx' = Seal(tx, [key |-> k, print |-> tx.rows[k]], tail[c])
  BY DEF AppendEvent
<1>5. ASSUME edits = 1
      PROVE  StoreIsDefective'
  <2>1. Defect(db, None) /\ Defect(tx, k)
    BY <1>2, <1>5 DEF DamageInv, StoreIsDefective
  <2>2. Defect(tx', None)
    BY <1>2, <1>4, <2>1, SealKeepsDefect
  <2> QED BY <1>1, <1>2, <1>3, <2>1, <2>2 DEF StoreIsDefective
<1>6. edits = 1 => ChecksFail'
  BY <1>1, <1>3, FailuresStay DEF IInv, DamageInv
<1> QED BY <1>1, <1>5, <1>6 DEF DamageInv

\* The copy becomes the database: whoever verifies it meanwhile is disturbed.
LEMMA DamageOutlastsCommit ==
  ASSUME IInv, DamageInv, NEW c \in Conns, Commit(c)
  PROVE  DamageInv'
<1>1. UNCHANGED <<damaged, fetched, audited, verdict, doomed, edits>>
  BY DEF Commit, counters
<1>2. /\ pc[c] = "commit" /\ holder = c /\ holder' = None /\ db' = tx
      /\ pc' = [pc EXCEPT ![c] = "idle"]
      /\ stale' = IF tx = db THEN stale ELSE stale \cup {r \in Conns : pc[r] = "check"}
  BY DEF Commit, GoTo, IInv, LockInv, HasLock
<1>3. \A q \in Conns : pc'[q] = "check" => pc[q] = "check"
  BY <1>2 DEF IInv, TypeOK
<1>4. ASSUME edits = 1
      PROVE  StoreIsDefective'
  <2>1. Defect(tx, None)
    BY <1>2, <1>4 DEF DamageInv, StoreIsDefective
  <2> QED BY <1>2, <2>1 DEF StoreIsDefective
<1>5. ASSUME edits = 1
      PROVE  ChecksFail'
  <2>1. ChecksFail
    BY <1>5 DEF DamageInv
  <2>2. CASE tx = db
    BY <1>1, <1>2, <1>3, <2>1, <2>2, FailuresStay DEF IInv
  <2>3. CASE tx # db
    <3>1. ASSUME NEW q \in doomed \ stale'
          PROVE  q \in doomed \ stale /\ pc'[q] # "check"
      BY <1>2, <1>3, <2>3 DEF IInv, TypeOK
    <3> QED BY <1>1, <2>1, <3>1 DEF ChecksFail
  <2> QED BY <2>2, <2>3
<1> QED BY <1>1, <1>4, <1>5 DEF DamageInv

\* A verification begins: with no event checked.
LEMMA DamageOutlastsBeginCheck ==
  ASSUME IInv, DamageInv, NEW c \in Conns, BeginCheck(c)
  PROVE  DamageInv'
<1>1. UNCHANGED <<db, damaged, tx, holder, inserted, edits>>
  BY DEF BeginCheck, writing
<1>2. /\ pc[c] = "idle"
      /\ fetched' = [fetched EXCEPT ![c] = db.log]
      /\ audited' = [audited EXCEPT ![c] = <<>>]
      /\ stale' = stale \ {c}
      /\ doomed' = IF damaged THEN doomed \cup {c} ELSE doomed \ {c}
      /\ verdict' = [verdict EXCEPT ![c] = IF db.log = <<>> THEN "broken" ELSE "none"]
  BY DEF BeginCheck
<1>3. \A q \in Conns : q # c => pc'[q] = pc[q]
  BY DEF BeginCheck, GoTo, IInv, TypeOK
<1>4. edits = 0 => doomed' = {}
  BY <1>2 DEF DamageInv
<1>5. ASSUME edits = 1
      PROVE  StoreIsDefective'
  <2>1. holder # c
    BY <1>2 DEF IInv, LockInv, HasLock
  <2> QED BY <1>1, <1>3, <1>5, <2>1, DefectStays DEF DamageInv
<1>6. ASSUME edits = 1, NEW q \in doomed' \ stale'
      PROVE  (pc'[q] = "check" => Passed(q)') /\ verdict'[q] # "valid"
  <2>1. CASE q = c
    <3>1. fetched'[c] = db.log /\ audited'[c] = <<>> /\ verdict'[c] # "valid"
      BY <1>2 DEF IInv, TypeOK
    <3>2. db.log \in Seq(Event) /\ Len(<<>>) = 0
      BY DEF IInv, TypeOK, Database
    <3> QED BY <1>1, <2>1, <3>1, <3>2 DEF Passed
  <2>2. CASE q # c
    <3>1. q \in doomed \ stale /\ q \in Conns
      BY <1>2, <1>6, <2>2 DEF IInv, TypeOK
    <3>2. UNCHANGED <<pc[q], fetched[q], audited[q], verdict[q]>>
      BY <1>2, <1>3, <2>2, <3>1 DEF IInv, TypeOK
    <3>3. (pc[q] = "check" => Passed(q)) /\ verdict[q] # "valid"
      BY <1>6, <3>1 DEF DamageInv, ChecksFail
    <3> QED BY <1>1, <3>2, <3>3 DEF Passed
  <2> QED BY <2>1, <2>2
<1> QED BY <1>1, <1>4, <1>5, <1>6 DEF DamageInv, ChecksFail

\* One more event is found valid, or the answer is "broken".
LEMMA DamageOutlastsCheckEvent ==
  ASSUME IInv, DamageInv, NEW c \in Conns, CheckEvent(c)
  PROVE  DamageInv'
<1> DEFINE i == Len(audited[c]) + 1
           k == fetched[c][i].payload.key
<1>1. UNCHANGED <<db, damaged, tx, holder, inserted, edits, fetched, stale, doomed>>
  BY DEF CheckEvent, writing, counters
<1>2. pc[c] = "check" /\ i <= Len(fetched[c]) /\ holder # c
  BY DEF CheckEvent, IInv, LockInv, HasLock
<1>3. /\ fetched[c] \in Seq(Event) /\ audited[c] \in Seq(Keys) /\ db.log \in Seq(Event)
      /\ i \in Nat \ {0}
  BY DEF IInv, TypeOK, Database
<1>4. \A q \in Conns : q # c => UNCHANGED <<pc[q], audited[q], verdict[q]>>
  BY DEF CheckEvent, GoTo, IInv, TypeOK
<1>5. edits = 1 => StoreIsDefective'
  BY <1>1, <1>2, <1>4, DefectStays DEF DamageInv
<1>6. ASSUME edits = 1, NEW q \in doomed \ stale
      PROVE  (pc'[q] = "check" => Passed(q)') /\ verdict'[q] # "valid"
  <2>1. q \in Conns /\ (pc[q] = "check" => Passed(q)) /\ verdict[q] # "valid"
    BY <1>6 DEF DamageInv, ChecksFail, IInv, TypeOK
  <2>2. CASE q # c
    <3>1. UNCHANGED <<db, fetched[q], pc[q], audited[q], verdict[q]>>
      BY Zenon, <1>1, <1>4, <2>1, <2>2
    <3>2. Passed(q) => Passed(q)'
      BY <3>1 DEF Passed
    <3> QED BY <2>1, <3>1, <3>2
  <2>3. CASE q = c /\ ~EventIsValid(c, i)
    <3>1. verdict'[c] = "broken" /\ pc'[c] = "idle"
      BY <2>3 DEF CheckEvent, GoTo, IInv, TypeOK
    <3> QED BY <2>3, <3>1
  <2>4. CASE q = c /\ EventIsValid(c, i)
    <3>1. audited' = [audited EXCEPT ![c] = Append(@, k)] /\ verdict' = verdict
      BY Zenon, <2>4 DEF CheckEvent
    <3>2. fetched[c] = db.log /\ i \in 1..Len(db.log) /\ k = db.log[i].payload.key
      <4>1. fetched[c] = db.log
        BY Zenon, <1>2, <2>1, <2>4 DEF Passed
      <4>2. i \in 1..Len(fetched[c])
        BY <1>2, <1>3
      <4> QED BY <4>1, <4>2
    <3>3. k \in Keys
      <4> HIDE DEF i, k
      <4>1. db.log[i].payload \in Payload
        BY <1>3, <3>2, EventsAreTyped
      <4> QED BY <3>2, <4>1 DEF Payload
    <3>4. /\ db.log[i].hash = Append(db.log[i].previous, db.log[i].payload)
          /\ db.log[i].payload.print = db.rows[db.log[i].payload.key]
          /\ \A j \in 1..Len(audited[c]) : audited[c][j] # k
      <4>1. /\ fetched[c][i].hash = Append(fetched[c][i].previous, fetched[c][i].payload)
            /\ fetched[c][i].payload.print = db.rows[fetched[c][i].payload.key]
            /\ ~Contains(audited[c], k)
        BY Zenon, <2>4 DEF EventIsValid
      <4>2. \A j \in 1..Len(audited[c]) : audited[c][j] # k
        BY <4>1 DEF Contains
      <4> QED BY Zenon, <3>2, <4>1, <4>2
    <3> HIDE DEF k
    <3>5. /\ Len(audited'[c]) = i /\ audited'[c][i] = k
          /\ \A j \in 1..Len(audited[c]) : audited'[c][j] = audited[c][j]
      BY <1>3, <3>1, <3>3 DEF IInv, TypeOK
    <3>6. \A j \in 1..i : j \in 1..Len(audited[c]) \/ j = i
      BY <1>3
    <3>7. \A j \in 1..i :
            /\ audited'[c][j] = db.log[j].payload.key
            /\ db.log[j].hash = Append(db.log[j].previous, db.log[j].payload)
            /\ db.log[j].payload.print = db.rows[db.log[j].payload.key]
      <4>1. /\ audited'[c][i] = db.log[i].payload.key
            /\ db.log[i].hash = Append(db.log[i].previous, db.log[i].payload)
            /\ db.log[i].payload.print = db.rows[db.log[i].payload.key]
        BY <3>2, <3>4, <3>5
      <4>2. \A j \in 1..Len(audited[c]) :
              /\ audited[c][j] = db.log[j].payload.key
              /\ db.log[j].hash = Append(db.log[j].previous, db.log[j].payload)
              /\ db.log[j].payload.print = db.rows[db.log[j].payload.key]
        BY Zenon, <1>2, <2>1, <2>4 DEF Passed
      <4> HIDE DEF i
      <4> QED BY Zenon, <3>5, <3>6, <4>1, <4>2
    <3>8. ASSUME NEW j \in 1..i, NEW m \in 1..i, audited'[c][j] = audited'[c][m]
          PROVE  j = m
      <4>1. CASE j = i \/ m = i
        BY <3>4, <3>5, <3>6, <3>8, <4>1
      <4>2. CASE j \in 1..Len(audited[c]) /\ m \in 1..Len(audited[c])
        <5>1. audited[c][j] = audited[c][m]
          BY <3>5, <3>8, <4>2
        <5>2. \A j1, j2 \in 1..Len(audited[c]) : audited[c][j1] = audited[c][j2] => j1 = j2
          BY Zenon, <1>2, <2>1, <2>4 DEF Passed
        <5> QED BY <4>2, <5>1, <5>2
      <4> QED BY <3>6, <4>1, <4>2
    <3>9. fetched'[c] = db'.log /\ i <= Len(db'.log)
      BY <1>1, <3>2
    <3> HIDE DEF i
    <3>10. Passed(c)'
      BY <1>1, <3>5, <3>7, <3>8, <3>9 DEF Passed
    <3> QED BY <2>1, <2>4, <3>1, <3>10
  <2> QED BY <2>2, <2>3, <2>4
<1>7. edits = 1 => ChecksFail'
  BY <1>1, <1>6 DEF ChecksFail
<1> QED BY <1>1, <1>5, <1>7 DEF DamageInv

\* All events have passed: then the defect is a row without an event.
LEMMA DefectIsFound ==
  ASSUME TypeOK, Defect(db, None), NEW c \in Conns, Passed(c),
         Len(audited[c]) = Len(fetched[c])
  PROVE  ~KeysMatch(c)
<1>1. /\ db.log \in Seq(Event) /\ audited[c] \in Seq(Keys)
      /\ Len(audited[c]) = Len(db.log) /\ DOMAIN audited[c] = 1..Len(db.log)
  BY DEF TypeOK, Database, Passed
<1>2. ~BadSeal(db) /\ ~RowWithTwoEvents(db)
  <2>1. ~BadSeal(db)
    BY Zenon, <1>1 DEF Passed, BadSeal
  <2>2. \A i, j \in 1..Len(db.log) : db.log[i].payload.key = db.log[j].payload.key => i = j
    <3>1. \A i \in 1..Len(db.log) : audited[c][i] = db.log[i].payload.key
      BY Zenon, <1>1 DEF Passed
    <3>2. \A i, j \in 1..Len(db.log) : audited[c][i] = audited[c][j] => i = j
      BY Zenon, <1>1 DEF Passed
    <3> QED BY Zenon, <3>1, <3>2
  <2> QED BY Zenon, <2>1, <2>2 DEF RowWithTwoEvents
<1>3. ~EventWithoutRow(db, None)
  <2>1. \A i \in 1..Len(db.log) : db.log[i].payload.key \in Keys
    BY <1>1, EventsAreTyped DEF Payload
  <2> QED BY <1>1, <2>1 DEF Passed, EventWithoutRow
<1>4. PICK k \in Keys : /\ db.rows[k] # None
                        /\ \A i \in 1..Len(db.log) : db.log[i].payload.key # k
  BY <1>2, <1>3 DEF Defect, RowWithoutEvent
<1>5. k \notin ToSet(audited[c])
  BY <1>1, <1>4 DEF Passed, ToSet
<1> QED BY <1>4, <1>5 DEF KeysMatch

\* The last comparison of a verification.
LEMMA DamageOutlastsEndCheck ==
  ASSUME IInv, DamageInv, NEW c \in Conns, EndCheck(c)
  PROVE  DamageInv'
<1>1. UNCHANGED <<db, damaged, tx, holder, inserted, edits, fetched, audited, stale, doomed>>
  BY DEF EndCheck, writing, counters
<1>2. /\ pc[c] = "check" /\ Len(audited[c]) = Len(fetched[c]) /\ holder # c
      /\ verdict'[c] = IF KeysMatch(c) THEN "valid" ELSE "broken"
      /\ pc'[c] = "idle"
  BY DEF EndCheck, GoTo, IInv, TypeOK, LockInv, HasLock
<1>3. \A q \in Conns : q # c => UNCHANGED <<pc[q], verdict[q]>>
  BY DEF EndCheck, GoTo, IInv, TypeOK
<1>4. edits = 1 => StoreIsDefective'
  BY <1>1, <1>2, <1>3, DefectStays DEF DamageInv
<1>5. ASSUME edits = 1, NEW q \in doomed \ stale
      PROVE  (pc'[q] = "check" => Passed(q)') /\ verdict'[q] # "valid"
  <2>1. q \in Conns /\ (pc[q] = "check" => Passed(q)) /\ verdict[q] # "valid"
    BY <1>5 DEF DamageInv, ChecksFail, IInv, TypeOK
  <2>2. CASE q # c
    <3>1. UNCHANGED <<db, fetched, audited, pc[q], verdict[q]>>
      BY <1>1, <1>3, <2>1, <2>2
    <3>2. Passed(q) => Passed(q)'
      BY <3>1 DEF Passed
    <3> QED BY <2>1, <3>1, <3>2
  <2>3. CASE q = c
    <3>1. ~KeysMatch(c)
      BY <1>2, <1>5, <2>1, <2>3, DefectIsFound DEF IInv, DamageInv, StoreIsDefective
    <3> QED BY <1>2, <2>3, <3>1
  <2> QED BY <2>2, <2>3
<1>6. edits = 1 => ChecksFail'
  BY <1>1, <1>5 DEF ChecksFail
<1> QED BY <1>1, <1>4, <1>6 DEF DamageInv

\* The first edit finds a sound store, and nobody is verifying a damaged one.
LEMMA EditIsDamage ==
  ASSUME IInv, DamageInv, EditRow \/ EditEvent \/ RemoveEvent
  PROVE  DamageInv'
<1>1. PICK d : Edit(d)
  BY DEF EditRow, EditEvent, RemoveEvent
<1>2. /\ holder = None /\ holder' = None /\ edits' = edits + 1 /\ damaged' = TRUE
      /\ doomed' = doomed /\ edits \in Nat
  BY <1>1 DEF Edit, writing, checking, IInv, TypeOK
<1>3. ASSUME edits' = 1
      PROVE  Defect(db', None) /\ doomed = {}
  <2>1. edits = 0
    BY <1>2, <1>3
  <2>2. ~damaged /\ doomed = {}
    BY <2>1 DEF DamageInv
  <2>3. Sound(db, None) /\ db \in Database
    BY <2>2 DEF IInv, TypeOK, ChainInv
  <2>4. CASE EditRow
    <3>1. PICK k \in Keys, v \in Contents \cup {None} :
            db.rows[k] \notin {None, v} /\ db' = [db EXCEPT !.rows[k] = v]
      BY <2>4 DEF EditRow, Edit
    <3>2. Defect(db', None)
      BY <2>3, <3>1, RowEditIsDefect
    <3> QED BY <2>2, <3>2
  <2>5. CASE EditEvent
    <3>1. PICK i \in DOMAIN db.log, p \in Payload :
            db.log[i].payload # p /\ db' = [db EXCEPT !.log[i].payload = p]
      BY <2>5 DEF EditEvent, Edit
    <3>2. Defect(db', None)
      BY <2>3, <3>1, EventEditIsDefect
    <3> QED BY <2>2, <3>2
  <2>6. CASE RemoveEvent
    <3>1. PICK i \in DOMAIN db.log : db' = [db EXCEPT !.log = RemoveAt(@, i)]
      BY <2>6 DEF RemoveEvent, Edit
    <3>2. Defect(db', None)
      BY <2>3, <3>1, EventLossIsDefect
    <3> QED BY <2>2, <3>2
  <2> QED BY <2>4, <2>5, <2>6
<1>4. edits' = 1 => StoreIsDefective' /\ ChecksFail'
  BY <1>2, <1>3 DEF StoreIsDefective, ChecksFail
<1> QED BY <1>2, <1>4 DEF DamageInv

\* One edit is seen by every verification that begins after it and that nobody
\* disturbs by a commit: a second edit may undo the first.
THEOREM DamageSeen == Spec => [](edits <= 1 => DamageIsSeen)
<1>1. Init => DamageInv
  BY DEF Init, DamageInv
<1>2. IInv /\ DamageInv /\ [Next]_vars => DamageInv'
  <2> SUFFICES ASSUME IInv, DamageInv, [Next]_vars PROVE DamageInv'
    OBVIOUS
  <2>1. CASE Finished \/ UNCHANGED vars
    <3>1. UNCHANGED <<db, pc, damaged, tx, holder, inserted, fetched, audited, verdict,
                      stale, doomed, edits>>
      BY <2>1 DEF Finished, vars, writing, checking, counters
    <3> QED BY <3>1, DefectStays, FailuresStay DEF IInv, DamageInv
  <2>2. CASE EditRow \/ EditEvent \/ RemoveEvent
    BY <2>2, EditIsDamage
  <2>3. ASSUME NEW c \in Conns, Save(c) \/ Begin(c) \/ ReadTail(c) \/ Abort(c)
        PROVE  DamageInv'
    BY <2>3, DamageOutlastsCalls DEF Abort
  <2>4. ASSUME NEW c \in Conns, InsertRow(c) \/ AppendEvent(c) \/ Commit(c)
        PROVE  DamageInv'
    BY <2>4, DamageOutlastsInsertRow, DamageOutlastsAppendEvent, DamageOutlastsCommit
  <2>5. ASSUME NEW c \in Conns, BeginCheck(c) \/ CheckEvent(c) \/ EndCheck(c)
        PROVE  DamageInv'
    BY <2>5, DamageOutlastsBeginCheck, DamageOutlastsCheckEvent, DamageOutlastsEndCheck
  <2> QED BY <2>1, <2>2, <2>3, <2>4, <2>5 DEF Next
<1>3. IInv /\ DamageInv => (edits <= 1 => DamageIsSeen)
  <2>1. IInv /\ DamageInv /\ edits <= 1 => DamageIsSeen
    <3> SUFFICES ASSUME IInv, DamageInv, edits <= 1 PROVE DamageIsSeen
      OBVIOUS
    <3>1. edits \in Nat
      BY DEF IInv, TypeOK
    <3>2. edits = 0 \/ edits = 1
      BY <3>1
    <3> QED BY <3>2 DEF DamageInv, ChecksFail, DamageIsSeen
  <2> QED BY <2>1
<1> QED BY <1>1, <1>2, <1>3, Invariance, PTL DEF Spec

(***************************************************************************)
(* Proofs of VerificationCaches, for any rows, any dependencies between    *)
(* them and any number of insertions and commits.                          *)
(*                                                                         *)
(* Neither the key nor the life of the dictionaries is enough alone: a     *)
(* rollback changes no counter, so that the key would let a verdict about  *)
(* rows that are gone be used; a commit of another falls into the life of  *)
(* a dictionary.  The invariant has both: there are verdicts only while a  *)
(* verification runs, in which this connection writes nothing, and a       *)
(* verdict under the present counters was read under them.                 *)
(***************************************************************************)

StampIsNow(key) == key.changes = totalChanges /\ key.version = dataVersion

\* What was read for an entity under the key of the semantic kind.
SemanticReading(y) ==
  /\ y.key.content = y.content
  /\ y.key.version <= dataVersion
  /\ StampIsNow(y.key) => Current(y.direct)

\* What was read since the verification began, if nobody has committed since.
FreshReading(y, e) ==
  dataVersion = begun =>
    y.content = View[e] /\ Current(y.direct) /\ Current(y.loaded)

ScopeInv ==
  /\ begun <= dataVersion
  /\ verdicts \in [Kinds -> (SUBSET Verdict) \cup {Absent}]
  /\ ~verifying => verdicts = NoVerdicts /\ contexts = Absent

ContextInv ==
  verifying /\ contexts # Absent /\ dataVersion = begun => Current(contexts)

VerdictInv ==
  \A k \in Kinds : verdicts[k] # Absent =>
    \A x \in verdicts[k] :
      /\ k = "semantic" => SemanticReading(x)
      /\ FreshReading(x, x.key.entity)

LookupInv ==
  /\ stage = "lookup" => check.direct = {} /\ check.loaded = {}
  /\ stage = "read" => check.key \in Key /\ check.key.entity = check.entity
  /\ verifying /\ stage = "read" /\ check.kind = "semantic" => SemanticReading(check)
  /\ verifying /\ stage # "idle" => FreshReading(check, check.entity)

CacheInv == CacheTypeOK /\ ScopeInv /\ ContextInv /\ (verifying => VerdictInv) /\ LookupInv

USE CachesAssumption

(***************************************************************************)
(* What a step sees                                                        *)
(***************************************************************************)

\* The connection sees a row or no row under every key.
LEMMA ViewIsTyped ==
  ASSUME CacheTypeOK
  PROVE  View \in [Rows -> Values \cup {Absent}]
BY DEF CacheTypeOK, View

\* A key names its entity and, for the semantic kind, content and counters.
LEMMA KeysAreTyped ==
  ASSUME CacheTypeOK, NEW k \in Kinds, NEW e \in Entities, NEW v \in Values
  PROVE  /\ KeyOf(k, e, v) \in Key
         /\ KeyOf(k, e, v).entity = e
         /\ k = "semantic" => /\ KeyOf(k, e, v).content = v
                              /\ StampIsNow(KeyOf(k, e, v))
<1>1. totalChanges \in Int /\ dataVersion \in Int
  BY DEF CacheTypeOK
<1>2. CASE k = "semantic"
  BY <1>1, <1>2 DEF KeyOf, SemanticKey, Key, StampIsNow
<1>3. CASE k = "content"
  BY <1>3 DEF KeyOf, ContentKey, Key
<1>4. CASE k = "hash"
  BY <1>4 DEF KeyOf, HashKey, Key
<1> QED
  BY <1>2, <1>3, <1>4 DEF Kinds

\* A step that leaves the database and the verification alone keeps what was read.
LEMMA ReadingsStand ==
  ASSUME UNCHANGED <<store, begun>>
  PROVE  /\ View' = View
         /\ \A readings : Current(readings)' <=> Current(readings)
         /\ \A y : SemanticReading(y)' <=> SemanticReading(y)
         /\ \A y, e : FreshReading(y, e)' <=> FreshReading(y, e)
<1>1. View' = View
  BY DEF View, store
<1> QED
  BY <1>1 DEF Current, SemanticReading, FreshReading, StampIsNow, store

(***************************************************************************)
(* The invariant                                                           *)
(***************************************************************************)

\* No program has verified anything yet.
LEMMA InitInv == CacheInit => CacheInv
<1> SUFFICES ASSUME CacheInit PROVE CacheInv
  OBVIOUS
<1>1. NoVerdicts \in [Kinds -> {Absent}] /\ \A k \in Kinds : NoVerdicts[k] = Absent
  BY DEF NoVerdicts
<1>2. verifying \in BOOLEAN
  BY Zenon DEF CacheInit
<1>3. CacheTypeOK
  BY <1>1, <1>2 DEF CacheInit, CacheTypeOK
<1> QED
  BY <1>1, <1>3 DEF CacheInit, CacheInv, ScopeInv, ContextInv, LookupInv

\* The ends of a transaction and its inserts fall outside of verifications.
LEMMA OwnWriteKeeps ==
  ASSUME CacheInv, BeginTransaction \/ EndTransaction \/ \E r \in Rows, v \in Values : Insert(r, v)
  PROVE  CacheInv'
<1>1. ~verifying' /\ stage' = "idle"
  BY DEF BeginTransaction, EndTransaction, Insert, Free
<1>2. UNCHANGED <<dataVersion, verifying, verdicts, contexts, stage, check, begun>>
  BY DEF BeginTransaction, EndTransaction, Insert
<1>3. CacheTypeOK'
  <2>1. rows' \in [Rows -> Values \cup {Absent}]
    BY DEF CacheInv, CacheTypeOK, BeginTransaction, EndTransaction, Insert
  <2>2. working' = Absent \/ working' \in [Rows -> Values \cup {Absent}]
    BY DEF CacheInv, CacheTypeOK, BeginTransaction, EndTransaction, Insert
  <2>3. totalChanges' \in 0..MaxChanges
    BY DEF CacheInv, CacheTypeOK, BeginTransaction, EndTransaction, Insert
  <2> QED
    BY <1>2, <2>1, <2>2, <2>3 DEF CacheInv, CacheTypeOK
<1>4. ScopeInv'
  BY <1>2 DEF CacheInv, ScopeInv
<1> QED
  BY <1>1, <1>3, <1>4 DEF CacheInv, ContextInv, LookupInv

\* A commit of another makes every stamp and the verification's begin old.
LEMMA OtherCommitKeeps ==
  ASSUME CacheInv, NEW r \in Rows, NEW v \in Values, OtherCommit(r, v)
  PROVE  CacheInv'
<1>1. UNCHANGED <<working, totalChanges, verifying, verdicts, contexts, stage, check, begun>>
  BY DEF OtherCommit
<1>2. dataVersion' = dataVersion + 1 /\ dataVersion' \in 1..(MaxCommits + 1)
  BY DEF OtherCommit, CacheInv, CacheTypeOK
<1>3. dataVersion' # begun' /\ begun' <= dataVersion'
  BY <1>1, <1>2 DEF CacheInv, ScopeInv, CacheTypeOK
<1>4. CacheTypeOK'
  BY <1>1, <1>2 DEF OtherCommit, CacheInv, CacheTypeOK
<1>5. ScopeInv'
  BY <1>1, <1>3 DEF CacheInv, ScopeInv
<1>6. ASSUME NEW y, SemanticReading(y), y.key \in Key
      PROVE  /\ y.key.content = y.content /\ y.key.version <= dataVersion'
             /\ y.key.version # dataVersion'
  <2>1. y.key.version \in Int /\ dataVersion \in Int
    BY <1>6 DEF Key, CacheInv, CacheTypeOK
  <2> QED
    BY <1>2, <1>6, <2>1 DEF SemanticReading
<1>7. \A y, e : FreshReading(y, e)'
  BY <1>3 DEF FreshReading
<1>8. verifying => VerdictInv'
  BY <1>1, <1>6, <1>7 DEF CacheInv, CacheTypeOK, VerdictInv, Verdict, SemanticReading, StampIsNow
<1>9. LookupInv'
  <2>1. stage = "read" /\ verifying /\ check.kind = "semantic" => SemanticReading(check)'
    BY <1>1, <1>6 DEF CacheInv, LookupInv, SemanticReading, StampIsNow
  <2> QED
    BY <1>1, <1>7, <2>1 DEF CacheInv, LookupInv
<1> QED
  BY <1>1, <1>3, <1>4, <1>5, <1>8, <1>9 DEF CacheInv, ContextInv

\* A verification begins with empty dictionaries.
LEMMA BeginVerifyKeeps ==
  ASSUME CacheInv, NEW semantic \in BOOLEAN, BeginVerify(semantic)
  PROVE  CacheInv'
<1>1. /\ verifying' = TRUE /\ stage' = "idle" /\ contexts' = {}
      /\ begun' = dataVersion /\ dataVersion' = dataVersion
      /\ UNCHANGED <<rows, working, totalChanges, check>>
  BY DEF BeginVerify, Free, store
<1>2. verdicts' \in [Kinds -> {Absent, {}}]
  BY DEF BeginVerify
<1>3. CacheTypeOK'
  BY <1>1, <1>2 DEF CacheInv, CacheTypeOK
<1>4. ScopeInv'
  BY <1>1, <1>2 DEF CacheInv, ScopeInv, CacheTypeOK
<1>5. ContextInv' /\ LookupInv'
  BY <1>1 DEF ContextInv, LookupInv, Current
<1>6. VerdictInv'
  BY <1>2 DEF VerdictInv
<1> QED
  BY <1>3, <1>4, <1>5, <1>6 DEF CacheInv

\* A verification leaves nothing.
LEMMA EndVerifyKeeps ==
  ASSUME CacheInv, EndVerify
  PROVE  CacheInv'
<1>1. /\ ~verifying' /\ stage' = "idle" /\ contexts' = Absent /\ check' = Absent
      /\ verdicts' = NoVerdicts
      /\ UNCHANGED <<rows, working, totalChanges, dataVersion, begun>>
  BY DEF EndVerify, store
<1>2. verdicts' \in [Kinds -> {Absent}] /\ \A k \in Kinds : verdicts'[k] = Absent
  BY <1>1 DEF NoVerdicts
<1>3. verifying' \in BOOLEAN
  BY Zenon DEF EndVerify
<1>4. CacheTypeOK'
  BY <1>1, <1>2, <1>3 DEF CacheInv, CacheTypeOK
<1> QED
  BY <1>1, <1>2, <1>4 DEF CacheInv, ScopeInv, ContextInv, LookupInv

\* A lookup begins with what its caller read.
LEMMA FetchKeeps ==
  ASSUME CacheInv, NEW e \in Entities, NEW k \in Kinds, Fetch(e, k)
  PROVE  CacheInv'
<1>1. /\ stage' = "lookup"
      /\ UNCHANGED <<store, verifying, verdicts, contexts, begun>>
      /\ UNCHANGED <<rows, working, totalChanges, dataVersion>>
  BY DEF Fetch, store
<1>2. /\ check' \in Lookup /\ check'.entity = e /\ check'.content = View[e]
      /\ check'.direct = {} /\ check'.loaded = {}
  <2>1. View[e] \in Values /\ e \in Rows
    BY ViewIsTyped DEF CacheInv, Fetch
  <2> QED
    BY <2>1 DEF Fetch, Lookup
<1>3. CacheTypeOK'
  BY <1>1, <1>2 DEF CacheInv, CacheTypeOK
<1>4. ScopeInv' /\ ContextInv' /\ (verifying' => VerdictInv')
  BY <1>1, ReadingsStand DEF CacheInv, ScopeInv, ContextInv, VerdictInv, store
<1>5. LookupInv'
  <2>1. FreshReading(check', check'.entity)
    BY <1>2 DEF FreshReading, Current
  <2> QED
    BY <1>1, <1>2, <2>1, ReadingsStand DEF LookupInv
<1> QED
  BY <1>3, <1>4, <1>5 DEF CacheInv

\* A verdict that is kept changes nothing.
LEMMA AnswerKeeps ==
  ASSUME CacheInv, Answer
  PROVE  CacheInv'
<1>1. /\ stage' = "idle" /\ check' = Absent
      /\ UNCHANGED <<store, verifying, verdicts, contexts, begun>>
      /\ UNCHANGED <<rows, working, totalChanges, dataVersion>>
  BY DEF Answer, store
<1>2. CacheTypeOK'
  BY <1>1 DEF CacheInv, CacheTypeOK
<1>3. ScopeInv' /\ ContextInv' /\ (verifying' => VerdictInv')
  BY <1>1, ReadingsStand DEF CacheInv, ScopeInv, ContextInv, VerdictInv, store
<1> QED
  BY <1>1, <1>2, <1>3 DEF CacheInv, LookupInv

\* The stamp is taken before anything is selected.
LEMMA MissKeeps ==
  ASSUME CacheInv, Miss
  PROVE  CacheInv'
<1>1. /\ stage = "lookup" /\ stage' = "read"
      /\ UNCHANGED <<store, verifying, verdicts, contexts, begun>>
      /\ UNCHANGED <<rows, working, totalChanges, dataVersion>>
  BY DEF Miss, store
<1>2. check \in Lookup
  BY <1>1 DEF CacheInv, CacheTypeOK
<1>3. /\ CheckKey \in Key /\ CheckKey.entity = check.entity
      /\ check.kind = "semantic" =>
           CheckKey.content = check.content /\ StampIsNow(CheckKey)
  BY <1>2, KeysAreTyped DEF CacheInv, CheckKey, Lookup
<1>4. /\ check' \in Lookup /\ check'.key = CheckKey
      /\ check'.entity = check.entity /\ check'.kind = check.kind
      /\ check'.content = check.content
      /\ check'.direct = check.direct /\ check'.loaded = check.loaded
  BY <1>2, <1>3 DEF Miss, Lookup
<1>5. CacheTypeOK'
  BY <1>1, <1>4 DEF CacheInv, CacheTypeOK
<1>6. ScopeInv' /\ ContextInv' /\ (verifying' => VerdictInv')
  BY <1>1, ReadingsStand DEF CacheInv, ScopeInv, ContextInv, VerdictInv, store
<1>7. LookupInv'
  <2>1. check.direct = {}
    BY <1>1 DEF CacheInv, LookupInv
  <2>2. check.kind = "semantic" => SemanticReading(check')
    BY <1>3, <1>4, <2>1 DEF SemanticReading, StampIsNow, Current, CacheInv, CacheTypeOK
  <2>3. verifying => FreshReading(check', check'.entity)
    BY <1>1, <1>4 DEF CacheInv, LookupInv, FreshReading
  <2> QED
    BY <1>1, <1>3, <1>4, <2>2, <2>3, ReadingsStand DEF LookupInv
<1> QED
  BY <1>5, <1>6, <1>7 DEF CacheInv

\* A SELECT adds a row as it is now.
LEMMA ReadRowKeeps ==
  ASSUME CacheInv, NEW r \in Rows, ReadRow(r)
  PROVE  CacheInv'
<1> DEFINE p == [row |-> r, content |-> View[r]]
<1>1. /\ stage = "read" /\ stage' = "read"
      /\ UNCHANGED <<store, verifying, verdicts, contexts, begun>>
      /\ UNCHANGED <<rows, working, totalChanges, dataVersion>>
  BY DEF ReadRow, store
<1>2. check \in Lookup
  BY <1>1 DEF CacheInv, CacheTypeOK
<1>3. p \in Reading
  BY ViewIsTyped DEF CacheInv, Reading
<1>4. /\ check' \in Lookup /\ check'.key = check.key
      /\ check'.entity = check.entity /\ check'.kind = check.kind
      /\ check'.content = check.content
      /\ check'.direct = check.direct \cup {p} /\ check'.loaded = check.loaded
  BY <1>2, <1>3 DEF ReadRow, Lookup
<1>5. CacheTypeOK'
  BY <1>1, <1>4 DEF CacheInv, CacheTypeOK
<1>6. ScopeInv' /\ ContextInv' /\ (verifying' => VerdictInv')
  BY <1>1, ReadingsStand DEF CacheInv, ScopeInv, ContextInv, VerdictInv, store
<1>7. Current(check.direct) => Current(check'.direct)
  BY <1>4 DEF Current
<1>8. LookupInv'
  <2>1. SemanticReading(check) => SemanticReading(check')
    BY <1>4, <1>7 DEF SemanticReading
  <2>2. FreshReading(check, check.entity) => FreshReading(check', check'.entity)
    BY <1>4, <1>7 DEF FreshReading
  <2> QED
    BY <1>1, <1>4, <2>1, <2>2, ReadingsStand DEF CacheInv, LookupInv
<1> QED
  BY <1>5, <1>6, <1>8 DEF CacheInv

\* A context that is shared was prepared in this verification.
LEMMA LoadContextKeeps ==
  ASSUME CacheInv, NEW r \in Rows, LoadContext(r)
  PROVE  CacheInv'
<1> DEFINE fresh == [row |-> r, content |-> View[r]]
<1>1. /\ stage = "read" /\ stage' = "read"
      /\ UNCHANGED <<store, verifying, verdicts, begun>>
      /\ UNCHANGED <<rows, working, totalChanges, dataVersion>>
  BY DEF LoadContext, store
<1>2. check \in Lookup
  BY <1>1 DEF CacheInv, CacheTypeOK
<1>3. fresh \in Reading
  BY ViewIsTyped DEF CacheInv, Reading
<1>4. PICK p : /\ p = fresh \/ (contexts # Absent /\ p \in contexts)
               /\ check' = [check EXCEPT !.loaded = @ \cup {p}]
               /\ contexts' = IF contexts = Absent \/ p.content = Absent THEN contexts
                              ELSE contexts \cup {p}
  <2> DEFINE known == IF contexts = Absent THEN {} ELSE {p \in contexts : p.row = r}
  <2>1. PICK p \in IF known = {} THEN {fresh} ELSE known :
          /\ check' = [check EXCEPT !.loaded = @ \cup {p}]
          /\ contexts' = IF contexts = Absent \/ p.content = Absent THEN contexts
                         ELSE contexts \cup {p}
    BY Zenon DEF LoadContext
  <2>2. p = fresh \/ (contexts # Absent /\ p \in contexts)
    BY <2>1
  <2> QED
    BY <2>1, <2>2
<1>5. p \in Reading
  BY <1>3, <1>4 DEF CacheInv, CacheTypeOK
<1>6. verifying /\ dataVersion = begun => p.content = View[p.row]
  BY <1>4 DEF CacheInv, ContextInv, Current
<1>7. /\ check' \in Lookup /\ check'.key = check.key
      /\ check'.entity = check.entity /\ check'.kind = check.kind
      /\ check'.content = check.content
      /\ check'.direct = check.direct /\ check'.loaded = check.loaded \cup {p}
  BY <1>2, <1>4, <1>5 DEF Lookup
<1>8. CacheTypeOK'
  BY <1>1, <1>4, <1>5, <1>7 DEF CacheInv, CacheTypeOK
<1>9. ScopeInv' /\ (verifying' => VerdictInv')
  BY <1>1, <1>4, ReadingsStand DEF CacheInv, ScopeInv, VerdictInv, store
<1>10. ContextInv'
  BY <1>1, <1>4, <1>6, ReadingsStand DEF CacheInv, ContextInv, Current
<1>11. LookupInv'
  <2>1. SemanticReading(check) => SemanticReading(check')
    BY <1>7 DEF SemanticReading
  <2>2. verifying /\ FreshReading(check, check.entity)
          => FreshReading(check', check'.entity)
    BY <1>6, <1>7 DEF FreshReading, Current
  <2> QED
    BY <1>1, <1>7, <2>1, <2>2, ReadingsStand DEF CacheInv, LookupInv
<1> QED
  BY <1>8, <1>9, <1>10, <1>11 DEF CacheInv

\* A new verdict is what its evaluation read.
LEMMA ConcludeKeeps ==
  ASSUME CacheInv, Conclude
  PROVE  CacheInv'
<1> DEFINE kind == check.kind
           new == [key |-> check.key, content |-> check.content,
                   direct |-> check.direct, loaded |-> check.loaded]
<1>1. /\ stage = "read" /\ stage' = "idle" /\ check' = Absent
      /\ UNCHANGED <<store, verifying, contexts, begun>>
      /\ UNCHANGED <<rows, working, totalChanges, dataVersion>>
  BY DEF Conclude, store
<1>2. check \in Lookup
  BY <1>1 DEF CacheInv, CacheTypeOK
<1>3. kind \in Kinds /\ check.key \in Key /\ check.key.entity = check.entity
  BY <1>1, <1>2 DEF CacheInv, LookupInv, Lookup
<1>4. new \in Verdict
  BY <1>2, <1>3 DEF Lookup, Verdict
<1>5. verdicts' = [verdicts EXCEPT ![kind] = IF @ = Absent THEN Absent ELSE @ \cup {new}]
  BY DEF Conclude
<1>6. verdicts \in [Kinds -> (SUBSET Verdict) \cup {Absent}]
  BY DEF CacheInv, ScopeInv
<1>7. /\ \A k \in Kinds \ {kind} : verdicts'[k] = verdicts[k]
      /\ verdicts[kind] = Absent => verdicts'[kind] = Absent
      /\ verdicts[kind] # Absent => verdicts'[kind] = verdicts[kind] \cup {new}
  BY <1>3, <1>5, <1>6
<1>8. verdicts' \in [Kinds -> (SUBSET Verdict) \cup {Absent}]
  BY <1>3, <1>4, <1>5, <1>6
<1>9. CacheTypeOK'
  BY <1>1, <1>8 DEF CacheInv, CacheTypeOK
<1>10. ScopeInv'
  <2>1. ~verifying => verdicts' = verdicts
    BY <1>3, <1>5, <1>6 DEF CacheInv, ScopeInv, NoVerdicts
  <2> QED
    BY <1>1, <1>8, <2>1 DEF CacheInv, ScopeInv
<1>11. ContextInv' /\ LookupInv'
  BY <1>1, ReadingsStand DEF CacheInv, ContextInv, LookupInv
<1>12. ASSUME verifying PROVE VerdictInv'
  <2>1. kind = "semantic" => SemanticReading(new)
    BY <1>1, <1>12 DEF CacheInv, LookupInv, SemanticReading
  <2>2. FreshReading(new, new.key.entity)
    BY <1>1, <1>3, <1>12 DEF CacheInv, LookupInv, FreshReading
  <2>3. ASSUME NEW k \in Kinds, verdicts'[k] # Absent, NEW x \in verdicts'[k]
        PROVE  /\ k = "semantic" => SemanticReading(x)
               /\ FreshReading(x, x.key.entity)
    <3>1. CASE x = new /\ k = kind
      BY <2>1, <2>2, <3>1
    <3>2. CASE verdicts[k] # Absent /\ x \in verdicts[k]
      BY <1>12, <3>2 DEF CacheInv, VerdictInv
    <3> QED
      BY <1>7, <2>3, <3>1, <3>2
  <2> QED
    BY <1>1, <2>3, ReadingsStand DEF VerdictInv
<1> QED
  BY <1>1, <1>9, <1>10, <1>11, <1>12 DEF CacheInv

\* Every step keeps the invariant.
LEMMA NextInv == CacheInv /\ [CacheNext]_cacheVars => CacheInv'
<1> SUFFICES ASSUME CacheInv, [CacheNext]_cacheVars PROVE CacheInv'
  OBVIOUS
<1>1. CASE UNCHANGED cacheVars
  BY <1>1 DEF cacheVars, store, CacheInv, CacheTypeOK, ScopeInv, ContextInv, VerdictInv, LookupInv,
       SemanticReading, FreshReading, StampIsNow, Current, View
<1>2. CASE CacheNext
  BY <1>2, OwnWriteKeeps, OtherCommitKeeps, BeginVerifyKeeps, EndVerifyKeeps,
     FetchKeeps, AnswerKeeps, MissKeeps, ReadRowKeeps, LoadContextKeeps, ConcludeKeeps
     DEF CacheNext
<1> QED
  BY <1>1, <1>2

(***************************************************************************)
(* The theorems                                                            *)
(***************************************************************************)

\* The inductive invariant of verify_audit_chain's dictionaries.
THEOREM CacheInvariance == CacheSpec => []CacheInv
  BY InitInv, NextInv, PTL DEF CacheSpec

\* The types of counters, dictionaries and lookups.
THEOREM CacheTypeCorrect == CacheSpec => []CacheTypeOK
<1>1. CacheInv => CacheTypeOK
  BY DEF CacheInv
<1> QED
  BY <1>1, CacheInvariance, PTL

\* A hit is a verdict of this verification for the entity that is looked up.
LEMMA HitIsKept ==
  ASSUME CacheInv, NEW x \in Hits
  PROVE  /\ verifying /\ VerdictInv /\ stage = "lookup"
         /\ check \in Lookup /\ verdicts[check.kind] # Absent
         /\ x \in verdicts[check.kind] /\ x.key = CheckKey
<1>1. /\ stage = "lookup" /\ verdicts[check.kind] # Absent
      /\ x \in verdicts[check.kind] /\ x.key = CheckKey
  BY DEF Hits
<1>2. check \in Lookup
  BY <1>1 DEF CacheInv, CacheTypeOK
<1>3. verifying
  BY <1>1, <1>2 DEF CacheInv, ScopeInv, NoVerdicts, Lookup
<1> QED
  BY <1>1, <1>2, <1>3 DEF CacheInv

\* _verification_semantic_cache_key: a verdict that is found under the counters
\* of now rests on the rows of now.
THEOREM SelectsHold == CacheSpec => []SelectsAreCurrent
<1>1. ASSUME CacheInv, NEW x \in Hits, check.kind = "semantic"
      PROVE  x.content = check.content /\ Current(x.direct)
  <2>1. SemanticReading(x) /\ x.key = CheckKey /\ check \in Lookup
    BY <1>1, HitIsKept DEF VerdictInv, Kinds
  <2>2. CheckKey.content = check.content /\ StampIsNow(CheckKey)
    BY <1>1, <2>1, KeysAreTyped DEF CacheInv, CheckKey, Lookup
  <2> QED
    BY <2>1, <2>2 DEF SemanticReading
<1>2. CacheInv => SelectsAreCurrent
  BY <1>1 DEF SelectsAreCurrent
<1> QED
  BY <1>2, CacheInvariance, PTL

\* verify_audit_chain: while nobody else commits, a verdict that is kept is as
\* good as a new one.
THEOREM VerdictsHold == CacheSpec => []VerdictsAreCurrent
<1>1. ASSUME CacheInv, NEW x \in Hits, dataVersion = begun
      PROVE  x.content = check.content /\ Current(x.direct) /\ Current(x.loaded)
  <2>1. /\ verifying /\ stage = "lookup" /\ check \in Lookup /\ x.key = CheckKey
        /\ FreshReading(x, x.key.entity)
    BY <1>1, HitIsKept DEF VerdictInv, Lookup
  <2>2. x.key.entity = check.entity
    BY <1>1, <2>1, KeysAreTyped DEF CacheInv, CheckKey, Lookup
  <2>3. check.content = View[check.entity]
    BY <1>1, <2>1 DEF CacheInv, LookupInv, FreshReading
  <2> QED
    BY <1>1, <2>1, <2>2, <2>3 DEF FreshReading
<1>2. CacheInv => VerdictsAreCurrent
  BY <1>1 DEF VerdictsAreCurrent
<1> QED
  BY <1>2, CacheInvariance, PTL
=============================================================================
