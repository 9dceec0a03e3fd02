------------------------- MODULE StoreSchemaProofs -------------------------
(***************************************************************************)
(* Proofs of StoreSchema, for any schema, any number of connections and    *)
(* any runs.                                                               *)
(*                                                                         *)
(* A creation commits each table on its own, so two of them, or one and a  *)
(* migration, can interleave.  What keeps them apart is that an A08 table  *)
(* is never created twice: whoever has executed more of the schema than    *)
(* the base tables has made every A08 table there is (Leading), and a      *)
(* migration that got past its first table found none.                     *)
(***************************************************************************)
EXTENDS StoreSchema, SequenceTheorems, FiniteSetTheorems, TLAPS

HasLock == {"alter", "alter_commit", "save_insert", "save_check", "save_commit"}
Saving == {"save_profile", "save_begin", "save_insert", "save_check", "save_commit"}

Complete == Base \cup A08 \subseteq db.tables

LockInv ==
  \A c \in Conns :
    /\ pc[c] \in HasLock <=> holder = c
    /\ pc[c] \in Saving => saving[c] \in Runs
    /\ pc[c] \in {"alter", "alter_commit"} =>
         db.tables \subseteq tx.tables /\ tx.runs = db.runs /\ tx.linked = db.linked
    /\ pc[c] \in {"save_insert", "save_check", "save_commit"} => tx.tables = db.tables
    /\ pc[c] = "save_commit" => Verifies(tx)

\* Creator c has executed more than the base tables, and made all A08 tables
\* there are.
Leading(c) ==
  /\ pc[c] = "create"
  /\ created[c] > Len(BaseTables)
  /\ A08 \cap db.tables =
       {A08Tables[i] : i \in 1..(created[c] - Len(BaseTables))}

\* No A08 table yet, and somebody is at work on the others if they are needed.
BaseOnly ==
  /\ A08 \cap db.tables = {}
  /\ db.tables = {} \/ Base \subseteq db.tables \/ \E c \in Conns : pc[c] = "create"

CreationInv ==
  /\ \A c \in Conns :
       /\ pc[c] = "create" => /\ created[c] < Len(Schema)
                              /\ \A i \in 1..created[c] : Schema[i] \in db.tables
       /\ pc[c] = "created" => Complete
       /\ pc[c] = "alter" => created[c] < Len(A08Tables)
  /\ abandoned \/ BaseOnly \/ Complete \/ \E c \in Conns : Leading(c)

WinnerInv ==
  /\ migrators \cup creators # {} => A08 \subseteq db.tables
  /\ \A c \in Conns :
       /\ pc[c] \in {"alter", "alter_commit"} /\ created[c] > 0 =>
            A08Tables[1] \notin db.tables
       /\ pc[c] = "alter_commit" => created[c] > 0
       /\ \/ pc[c] = "created"
          \/ pc[c] = "create" /\ created[c] > Len(BaseTables)
          => migrators = {}
  /\ migrators = {} \/ (creators = {} /\ \E w \in Conns : migrators = {w})

EarlyInv ==
  db.runs = early \/ (Profile(db) = "A08" /\ db.linked = db.runs)

IInv == TypeOK /\ LockInv /\ CreationInv /\ WinnerInv /\ EarlyInv

USE SchemaAssumption

(***************************************************************************)
(* The schema and its profiles                                             *)
(***************************************************************************)

LEMMA SchemaFacts ==
  /\ Len(BaseTables) \in Nat /\ Len(BaseTables) > 0
  /\ Len(A08Tables) \in Nat /\ Len(A08Tables) > 0
  /\ Len(Schema) = Len(BaseTables) + Len(A08Tables)
  /\ \A i \in 1..Len(BaseTables) : Schema[i] \in Base
  /\ \A i \in 1..Len(A08Tables) :
       Schema[Len(BaseTables) + i] = A08Tables[i] /\ A08Tables[i] \in A08
  /\ \A t \in Base : \E i \in 1..Len(BaseTables) : Schema[i] = t
  /\ \A t \in A08 : \E i \in 1..Len(A08Tables) : t = A08Tables[i]
  /\ Base \cap A08 = {}
<1> DEFINE S == Base \cup A08
<1>1. BaseTables \in Seq(S) /\ A08Tables \in Seq(S)
  BY SeqMonotonic DEF Base, A08
<1>2. Len(BaseTables) \in Nat /\ Len(A08Tables) \in Nat
  BY <1>1, LenProperties
<1>3. Len(BaseTables) # 0 /\ Len(A08Tables) # 0
  BY <1>1, EmptySeq
<1>4. DOMAIN BaseTables = 1..Len(BaseTables) /\ DOMAIN A08Tables = 1..Len(A08Tables)
  BY <1>1, LenProperties
<1>5. /\ Len(Schema) = Len(BaseTables) + Len(A08Tables)
      /\ \A i \in 1..Len(Schema) :
           Schema[i] = IF i <= Len(BaseTables) THEN BaseTables[i]
                       ELSE A08Tables[i - Len(BaseTables)]
  BY <1>1, ConcatProperties DEF Schema
<1>6. Base = {BaseTables[i] : i \in 1..Len(BaseTables)}
      /\ A08 = {A08Tables[i] : i \in 1..Len(A08Tables)}
  BY <1>4 DEF Base, A08, ToSet
<1>7. \A i \in 1..Len(BaseTables) : Schema[i] = BaseTables[i]
  BY <1>2, <1>5
<1>8. \A i \in 1..Len(A08Tables) : Schema[Len(BaseTables) + i] = A08Tables[i]
  <2> SUFFICES ASSUME NEW i \in 1..Len(A08Tables)
               PROVE  Schema[Len(BaseTables) + i] = A08Tables[i]
    OBVIOUS
  <2>1. Len(BaseTables) + i \in 1..Len(Schema) /\ ~(Len(BaseTables) + i <= Len(BaseTables))
        /\ (Len(BaseTables) + i) - Len(BaseTables) = i
    BY <1>2, <1>5
  <2> QED BY <1>5, <2>1
<1>9. Base \cap A08 = {}
  BY DEF Base, A08
<1>10. Len(BaseTables) > 0 /\ Len(A08Tables) > 0
  BY <1>2, <1>3
<1> QED BY <1>2, <1>5, <1>6, <1>7, <1>8, <1>9, <1>10

\* A08Tables[1] is an A08 table.
LEMMA FirstTable == A08Tables[1] \in A08 /\ 1 \in 1..Len(A08Tables)
BY SchemaFacts

\* The statement a creator executes next.
LEMMA NextStatement ==
  ASSUME NEW n \in Nat, n < Len(Schema)
  PROVE  /\ Schema[n + 1] \in Base \cup A08
         /\ n < Len(BaseTables) => Schema[n + 1] \in Base \ A08
         /\ n >= Len(BaseTables) =>
              /\ Schema[n + 1] = A08Tables[n - Len(BaseTables) + 1]
              /\ n - Len(BaseTables) + 1 \in 1..Len(A08Tables)
              /\ Schema[n + 1] \in A08
<1>1. CASE n < Len(BaseTables)
  <2>1. n + 1 \in 1..Len(BaseTables)
    BY <1>1, SchemaFacts
  <2>2. Schema[n + 1] \in Base \ A08
    BY <2>1, SchemaFacts
  <2> QED BY <1>1, <2>2, SchemaFacts
<1>2. CASE n >= Len(BaseTables)
  <2> DEFINE i == n - Len(BaseTables) + 1
  <2>1. i \in 1..Len(A08Tables) /\ n + 1 = Len(BaseTables) + i
    BY <1>2, SchemaFacts
  <2>2. Schema[n + 1] = A08Tables[i] /\ A08Tables[i] \in A08
    BY <2>1, SchemaFacts
  <2> QED BY <1>2, <2>1, <2>2, SchemaFacts
<1> QED BY <1>1, <1>2, SchemaFacts

LEMMA ProfileFacts ==
  ASSUME NEW d
  PROVE  /\ Profile(d) \in {"PARTIAL", "LEGACY", "A08"}
         /\ Profile(d) = "A08" <=> Base \cup A08 \subseteq d.tables
         /\ Profile(d) = "PARTIAL" /\ Base \subseteq d.tables =>
              A08 \cap d.tables # {} /\ ~(A08 \subseteq d.tables)
<1>1. A08 # {}
  BY FirstTable
<1> QED BY <1>1 DEF Profile

(***************************************************************************)
(* Steps that leave the committed database alone                           *)
(***************************************************************************)

\* Connection c goes to stage s.  It takes up a creation from the beginning, or
\* gives one up after a fault or because its next table is there.
LEMMA QuietStep ==
  ASSUME IInv, NEW c \in Conns, NEW s \in Stages, NEW k \in 0..Len(Schema),
         db' = db, early' = early, migrators' = migrators,
         pc' = [pc EXCEPT ![c] = s], created' = [created EXCEPT ![c] = k],
         abandoned => abandoned',
         creators' = creators \/ (creators' = creators \cup {c} /\ pc[c] = "created"),
         s = "create" => pc[c] = "closed" /\ k = 0,
         s # "created",
         s = "alter" => k < Len(A08Tables),
         s = "alter_commit" => k > 0,
         s \in {"alter", "alter_commit"} /\ k > 0 => A08Tables[1] \notin db.tables,
         pc[c] = "create" =>
           abandoned' \/ (Schema[created[c] + 1] \in A08 /\ Schema[created[c] + 1] \in db.tables)
  PROVE  CreationInv' /\ WinnerInv' /\ EarlyInv'
<1>1. pc \in [Conns -> Stages] /\ created \in [Conns -> 0..Len(Schema)]
      /\ Len(Schema) \in Nat
  BY SchemaFacts DEF IInv, TypeOK
<1>2. /\ pc'[c] = s /\ created'[c] = k
      /\ \A b \in Conns : b # c => pc'[b] = pc[b] /\ created'[b] = created[b]
  BY <1>1
<1>3. ASSUME NEW b \in Conns
      PROVE  /\ pc'[b] = "create" => /\ created'[b] < Len(Schema)
                                     /\ \A i \in 1..created'[b] : Schema[i] \in db.tables
             /\ pc'[b] = "created" => Complete
             /\ pc'[b] = "alter" => created'[b] < Len(A08Tables)
  <2>1. CASE b = c
    <3>1. 0 < Len(Schema) /\ 1..0 = {}
      BY SchemaFacts
    <3> QED BY <1>2, <2>1, <3>1
  <2>2. CASE b # c
    BY <1>2, <2>2 DEF IInv, CreationInv
  <2> QED BY <2>1, <2>2
<1>4. ASSUME ~abandoned'
      PROVE  BaseOnly' \/ Complete \/ \E b \in Conns : Leading(b)'
  <2>1. BaseOnly \/ Complete \/ \E b \in Conns : Leading(b)
    BY <1>4 DEF IInv, CreationInv
  <2>2. CASE BaseOnly
    <3>1. pc[c] # "create"
      BY <1>4, <2>2 DEF BaseOnly
    <3>2. \A b \in Conns : pc[b] = "create" => pc'[b] = "create"
      BY <1>2, <3>1
    <3> QED BY <2>2, <3>2 DEF BaseOnly
  <2>3. CASE \E b \in Conns : Leading(b)
    <3>1. PICK b \in Conns : Leading(b)
      BY <2>3
    <3>2. b # c
      <4> SUFFICES ASSUME b = c PROVE FALSE
        OBVIOUS
      <4> DEFINE n == created[c]
      <4>1. pc[c] = "create" /\ n \in Nat /\ n > Len(BaseTables) /\ n < Len(Schema)
        BY <1>1, <3>1 DEF Leading, IInv, CreationInv
      <4>2. Schema[n + 1] \in A08 \cap db.tables
        BY <1>4, <4>1
      <4>3. /\ Schema[n + 1] = A08Tables[n - Len(BaseTables) + 1]
            /\ n - Len(BaseTables) + 1 \in 1..Len(A08Tables)
        <5>1. n >= Len(BaseTables)
          BY <4>1, SchemaFacts
        <5> HIDE DEF n
        <5> QED BY <4>1, <5>1, NextStatement
      <4>4. PICK i \in 1..(n - Len(BaseTables)) : Schema[n + 1] = A08Tables[i]
        BY SMTT(30), <3>1, <4>2 DEF Leading
      <4>5. i \in 1..Len(A08Tables) /\ i # n - Len(BaseTables) + 1
        BY <4>1, <4>3, <4>4, SchemaFacts
      <4> QED BY <4>3, <4>4, <4>5
    <3>3. Leading(b)'
      BY <1>2, <3>1, <3>2 DEF Leading
    <3> QED BY <3>3
  <2> QED BY <2>1, <2>2, <2>3
<1>5. CreationInv'
  BY <1>3, <1>4 DEF CreationInv, Complete
<1>6. ASSUME NEW b \in Conns
      PROVE  /\ pc'[b] \in {"alter", "alter_commit"} /\ created'[b] > 0 =>
                  A08Tables[1] \notin db.tables
             /\ pc'[b] = "alter_commit" => created'[b] > 0
             /\ \/ pc'[b] = "created"
                \/ pc'[b] = "create" /\ created'[b] > Len(BaseTables)
                => migrators = {}
  <2>1. CASE b = c
    BY <1>2, <2>1, SchemaFacts
  <2>2. CASE b # c
    BY <1>2, <2>2 DEF IInv, WinnerInv
  <2> QED BY <2>1, <2>2
<1>7. creators' # creators => Complete /\ migrators = {}
  BY DEF IInv, CreationInv, WinnerInv
<1>8. WinnerInv'
  <2>1. migrators' \cup creators' # {} => A08 \subseteq db.tables
    BY <1>7 DEF IInv, WinnerInv, Complete
  <2>2. migrators' = {} \/ (creators' = {} /\ \E w \in Conns : migrators' = {w})
    BY <1>7 DEF IInv, WinnerInv
  <2> QED BY <1>6, <2>1, <2>2 DEF WinnerInv
<1>9. EarlyInv'
  BY DEF IInv, EarlyInv, Profile
<1> QED BY <1>5, <1>8, <1>9

\* A connection gives up: it releases the lock it may hold.
LEMMA LeaveHolds ==
  ASSUME IInv, NEW c \in Conns, NEW s \in {"closed", "open"}, Leave(c, s),
         abandoned' \in BOOLEAN, abandoned => abandoned',
         pc[c] = "create" =>
           abandoned' \/ (Schema[created[c] + 1] \in A08 /\ Schema[created[c] + 1] \in db.tables)
  PROVE  IInv'
<1>1. /\ TypeOK /\ LockInv /\ s \in Stages
  BY DEF IInv, Stages
<1>2. /\ pc' = [pc EXCEPT ![c] = s] /\ saving' = [saving EXCEPT ![c] = None]
      /\ db' = db /\ created' = created /\ profile' = profile
      /\ early' = early /\ migrators' = migrators /\ creators' = creators
      /\ holder' = IF holder = c THEN None ELSE holder
      /\ tx' = IF holder = c THEN db ELSE tx
  BY DEF Leave, GoTo
<1>3. created' = [created EXCEPT ![c] = created[c]] /\ created[c] \in 0..Len(Schema)
  BY <1>1, <1>2 DEF TypeOK
<1>4. CreationInv' /\ WinnerInv' /\ EarlyInv'
  BY <1>1, <1>2, <1>3, QuietStep
<1>5. TypeOK'
  <2>1. pc' \in [Conns -> Stages] /\ saving' \in [Conns -> Runs \cup {None}]
    BY <1>1, <1>2 DEF TypeOK
  <2>2. tx' \in Database /\ holder' \in Conns \cup {None}
    BY <1>1, <1>2 DEF TypeOK
  <2> QED BY <1>1, <1>2, <2>1, <2>2 DEF TypeOK
<1>6. LockInv'
  <2> SUFFICES ASSUME NEW b \in Conns
               PROVE  /\ pc'[b] \in HasLock <=> holder' = b
                      /\ pc'[b] \in Saving => saving'[b] \in Runs
                      /\ pc'[b] \in {"alter", "alter_commit"} =>
                           db.tables \subseteq tx'.tables /\ tx'.runs = db.runs
                           /\ tx'.linked = db.linked
                      /\ pc'[b] \in {"save_insert", "save_check", "save_commit"} =>
                           tx'.tables = db.tables
                      /\ pc'[b] = "save_commit" => Verifies(tx')
    BY <1>2 DEF LockInv, Verifies, Profile
  <2>1. CASE b = c
    BY <1>1, <1>2, <2>1 DEF TypeOK, LockInv, HasLock, Saving
  <2>2. CASE b # c
    <3>1. pc'[b] = pc[b] /\ saving'[b] = saving[b]
      BY <1>1, <1>2, <2>2 DEF TypeOK
    <3>2. holder' = b <=> holder = b
      BY <1>1, <1>2, <2>2
    <3>3. holder = b => tx' = tx
      BY <1>2, <2>2
    <3> QED BY <1>1, <3>1, <3>2, <3>3 DEF LockInv, HasLock
  <2> QED BY <2>1, <2>2
<1> QED BY <1>4, <1>5, <1>6 DEF IInv

\* A step of c that leaves the database, the working copy and the lock alone.
LEMMA FreeStep ==
  ASSUME IInv, NEW c \in Conns, NEW s \in Stages \ (HasLock \cup {"created"}),
         pc[c] \notin HasLock, NEW k \in 0..Len(Schema),
         UNCHANGED <<db, tx, holder, early, migrators, abandoned>>,
         profile' \in [Conns -> {"PARTIAL", "LEGACY", "A08"}],
         saving' \in [Conns -> Runs \cup {None}],
         \A b \in Conns : b # c => saving'[b] = saving[b],
         s \in Saving => saving'[c] \in Runs,
         pc' = [pc EXCEPT ![c] = s], created' = [created EXCEPT ![c] = k],
         creators' = creators \/ (creators' = creators \cup {c} /\ pc[c] = "created"),
         s = "create" => pc[c] = "closed" /\ k = 0,
         pc[c] # "create"
  PROVE  IInv'
<1>1. TypeOK /\ LockInv
  BY DEF IInv
<1>2. s \notin {"alter", "alter_commit"}
  BY DEF HasLock
<1>3. CreationInv' /\ WinnerInv' /\ EarlyInv'
  BY <1>2, QuietStep
<1>4. TypeOK'
  BY <1>1 DEF TypeOK
<1>5. LockInv'
  <2> SUFFICES ASSUME NEW b \in Conns
               PROVE  /\ pc'[b] \in HasLock <=> holder = b
                      /\ pc'[b] \in Saving => saving'[b] \in Runs
                      /\ pc'[b] \in {"alter", "alter_commit"} =>
                           db.tables \subseteq tx.tables /\ tx.runs = db.runs
                           /\ tx.linked = db.linked
                      /\ pc'[b] \in {"save_insert", "save_check", "save_commit"} =>
                           tx.tables = db.tables
                      /\ pc'[b] = "save_commit" => Verifies(tx)
    BY DEF LockInv, Verifies, Profile
  <2>1. CASE b = c
    <3>1. pc'[b] = s /\ holder # c
      BY <1>1, <2>1 DEF TypeOK, LockInv
    <3> QED BY <2>1, <3>1 DEF HasLock
  <2>2. CASE b # c
    <3>1. pc'[b] = pc[b] /\ saving'[b] = saving[b]
      BY <1>1, <2>2 DEF TypeOK
    <3> QED BY <1>1, <3>1 DEF LockInv
  <2> QED BY <2>1, <2>2
<1> QED BY <1>3, <1>4, <1>5 DEF IInv

\* A step of c that takes the lock or has it, and may write to its copy.
LEMMA HolderStep ==
  ASSUME IInv, NEW c \in Conns, NEW s \in HasLock, NEW k \in 0..Len(Schema),
         UNCHANGED <<db, profile, saving, tracking>>,
         holder \in {None, c}, holder' = c, tx' \in Database,
         pc' = [pc EXCEPT ![c] = s], created' = [created EXCEPT ![c] = k],
         pc[c] # "create",
         s \in Saving => saving[c] \in Runs /\ tx'.tables = db.tables,
         s = "save_commit" => Verifies(tx'),
         s \in {"alter", "alter_commit"} =>
           db.tables \subseteq tx'.tables /\ tx'.runs = db.runs /\ tx'.linked = db.linked,
         s \in {"alter", "alter_commit"} /\ k > 0 => A08Tables[1] \notin db.tables,
         s = "alter" => k < Len(A08Tables),
         s = "alter_commit" => k > 0
  PROVE  IInv'
<1>1. TypeOK /\ LockInv /\ s \in Stages
  BY DEF IInv, HasLock, Stages
<1>2. s \notin {"create", "created"}
  BY DEF HasLock
<1>3. /\ early' = early /\ migrators' = migrators /\ creators' = creators
      /\ abandoned' = abandoned /\ db' = db /\ saving' = saving /\ profile' = profile
  BY DEF tracking
<1>4. CreationInv' /\ WinnerInv' /\ EarlyInv'
  BY <1>1, <1>2, <1>3, QuietStep
<1>5. TypeOK'
  BY <1>1, <1>3 DEF TypeOK
<1>6. LockInv'
  <2> SUFFICES ASSUME NEW b \in Conns
               PROVE  /\ pc'[b] \in HasLock <=> c = b
                      /\ pc'[b] \in Saving => saving[b] \in Runs
                      /\ pc'[b] \in {"alter", "alter_commit"} =>
                           db.tables \subseteq tx'.tables /\ tx'.runs = db.runs
                           /\ tx'.linked = db.linked
                      /\ pc'[b] \in {"save_insert", "save_check", "save_commit"} =>
                           tx'.tables = db.tables
                      /\ pc'[b] = "save_commit" => Verifies(tx')
    BY <1>3 DEF LockInv, Verifies, Profile
  <2>1. CASE b = c
    <3>1. pc'[b] = s
      BY <1>1, <2>1 DEF TypeOK
    <3> QED BY <2>1, <3>1 DEF HasLock, Saving
  <2>2. CASE b # c
    <3>1. pc'[b] = pc[b]
      BY <1>1, <2>2 DEF TypeOK
    <3>2. pc[b] \notin HasLock
      BY <1>1, <2>2 DEF LockInv
    <3> QED BY <1>1, <2>2, <3>1, <3>2 DEF LockInv, HasLock
  <2> QED BY <2>1, <2>2
<1> QED BY <1>4, <1>5, <1>6 DEF IInv

LEMMA InitHolds == Init => IInv
<1> SUFFICES ASSUME Init PROVE IInv
  OBVIOUS
<1>1. PICK t \in {{}, Base} : db = [tables |-> t, runs |-> {}, linked |-> {}]
  BY DEF Init
<1>2. db \in Database /\ db.tables = t /\ db.runs = {} /\ db.linked = {}
  BY <1>1 DEF Database
<1>3. A08 \cap t = {} /\ Len(Schema) \in Nat
  BY SchemaFacts
<1>4. TypeOK
  <2>1. db \in Database /\ tx \in Database
    BY <1>2 DEF Init
  <2>2. pc \in [Conns -> Stages] /\ created \in [Conns -> 0..Len(Schema)]
    BY <1>3 DEF Init, Stages
  <2>3. /\ holder \in Conns \cup {None} /\ saving \in [Conns -> Runs \cup {None}]
        /\ profile \in [Conns -> {"PARTIAL", "LEGACY", "A08"}]
        /\ early \subseteq Runs /\ migrators \subseteq Conns /\ creators \subseteq Conns
    BY DEF Init
  <2>4. abandoned \in BOOLEAN
    BY DEF Init
  <2> QED BY <2>1, <2>2, <2>3, <2>4 DEF TypeOK
<1>5. LockInv
  BY DEF Init, LockInv, HasLock, Saving
<1>6. CreationInv
  BY <1>2, <1>3 DEF Init, CreationInv, BaseOnly
<1>7. WinnerInv
  <2>1. migrators = {} /\ creators = {}
    BY DEF Init
  <2>2. \A c \in Conns : pc[c] = "closed"
    BY DEF Init
  <2>3. migrators \cup creators = {}
    BY <2>1
  <2>4. \A c \in Conns : pc[c] \notin {"alter", "alter_commit", "create", "created"}
    BY <2>2
  <2> QED BY <2>1, <2>3, <2>4 DEF WinnerInv
<1>8. EarlyInv
  BY <1>2 DEF Init, EarlyInv
<1> QED BY <1>4, <1>5, <1>6, <1>7, <1>8 DEF IInv

(***************************************************************************)
(* Opening and creating                                                    *)
(***************************************************************************)

LEMMA OpenHolds ==
  ASSUME IInv, NEW c \in Conns, Open(c)
  PROVE  IInv'
<1>1. TypeOK /\ pc[c] = "closed"
  BY DEF IInv, Open
<1>2. UNCHANGED <<db, tx, holder, profile, saving, tracking>>
  BY DEF Open
<1>3. PICK s \in {"create", "open", "closed"}, k \in 0..Len(Schema) :
        /\ pc' = [pc EXCEPT ![c] = s] /\ created' = [created EXCEPT ![c] = k]
        /\ s = "create" => k = 0
  <2>1. created[c] \in 0..Len(Schema) /\ 0 \in 0..Len(Schema)
        /\ pc = [pc EXCEPT ![c] = "closed"] /\ created = [created EXCEPT ![c] = created[c]]
    BY <1>1, SchemaFacts DEF TypeOK
  <2>2. CASE GoTo(c, "create") /\ created' = [created EXCEPT ![c] = 0]
    BY <2>1, <2>2 DEF GoTo
  <2>3. CASE GoTo(c, "open") /\ UNCHANGED created
    BY <2>1, <2>3 DEF GoTo
  <2>4. CASE UNCHANGED <<pc, created>>
    BY <2>1, <2>4
  <2> QED BY <2>2, <2>3, <2>4 DEF Open
<1>4. s \in Stages \ (HasLock \cup {"created"}) /\ s \notin Saving /\ pc[c] \notin HasLock
  BY <1>1, <1>3 DEF Stages, HasLock, Saving
<1> QED BY <1>1, <1>2, <1>3, <1>4, FreeStep DEF TypeOK, tracking

LEMMA CheckCreatedHolds ==
  ASSUME IInv, NEW c \in Conns, CheckCreated(c)
  PROVE  IInv'
<1>1. TypeOK /\ pc[c] = "created" /\ abandoned' = abandoned /\ abandoned \in BOOLEAN
  BY DEF IInv, TypeOK, CheckCreated
<1>2. CASE Leave(c, "closed")
  BY <1>1, <1>2, LeaveHolds
<1>3. CASE ~Leave(c, "closed")
  <2>1. /\ creators' = creators \cup {c} /\ pc' = [pc EXCEPT ![c] = "open"]
        /\ UNCHANGED <<db, tx, holder, created, profile, saving, early, migrators>>
    BY <1>3 DEF CheckCreated, GoTo
  <2>2. "open" \in Stages \ (HasLock \cup {"created"}) /\ "open" \notin Saving
        /\ pc[c] \notin HasLock
    BY <1>1 DEF Stages, HasLock, Saving
  <2>3. created' = [created EXCEPT ![c] = created[c]] /\ created[c] \in 0..Len(Schema)
    BY <1>1, <2>1 DEF TypeOK
  <2> QED BY <1>1, <2>1, <2>2, <2>3, FreeStep DEF TypeOK
<1> QED BY <1>2, <1>3

\* A statement of the schema script that succeeds.
LEMMA TableHolds ==
  ASSUME IInv, NEW c \in Conns, pc[c] = "create", holder = None,
         NEW t, t = Schema[created[c] + 1], ~(t \in A08 /\ t \in db.tables),
         db' = [db EXCEPT !.tables = @ \cup {t}], tx' = db',
         created' = [created EXCEPT ![c] = @ + 1],
         pc' = [pc EXCEPT ![c] = IF created'[c] = Len(Schema) THEN "created" ELSE "create"],
         UNCHANGED <<holder, profile, saving, tracking>>
  PROVE  IInv'
<1> DEFINE n == created[c]
           nb == Len(BaseTables)
           na == Len(A08Tables)
           s == IF n + 1 = Len(Schema) THEN "created" ELSE "create"
<1>1. TypeOK /\ LockInv /\ CreationInv /\ WinnerInv /\ EarlyInv
  BY DEF IInv
<1>2. /\ n \in Nat /\ n < Len(Schema) /\ Len(Schema) \in Nat /\ n + 1 \in 0..Len(Schema)
      /\ nb \in Nat /\ na \in Nat /\ nb > 0 /\ na > 0 /\ Len(Schema) = nb + na
      /\ \A i \in 1..n : Schema[i] \in db.tables
  <2>1. n \in 0..Len(Schema)
    BY <1>1 DEF TypeOK
  <2> QED BY <1>1, <2>1, SchemaFacts DEF CreationInv
<1>3. /\ created'[c] = n + 1 /\ pc'[c] = s /\ s \in Stages
      /\ \A b \in Conns : b # c => pc'[b] = pc[b] /\ created'[b] = created[b]
      /\ pc' = [pc EXCEPT ![c] = s]
  BY <1>1, <1>2 DEF TypeOK, Stages
<1>4. /\ t \in Base \cup A08
      /\ n < nb => t \in Base \ A08
      /\ n >= nb => t = A08Tables[n - nb + 1] /\ n - nb + 1 \in 1..na /\ t \in A08
  BY <1>2, NextStatement
<1>5. /\ db' \in Database /\ db'.tables = db.tables \cup {t}
      /\ db'.runs = db.runs /\ db'.linked = db.linked
  BY <1>1, <1>4 DEF TypeOK, Database
<1>6. UNCHANGED <<holder, profile, saving, early, migrators, creators, abandoned>>
  BY DEF tracking
<1>7. TypeOK'
  <2>1. created' \in [Conns -> 0..Len(Schema)] /\ pc' \in [Conns -> Stages]
    BY <1>1, <1>2, <1>3 DEF TypeOK
  <2> QED BY <1>1, <1>5, <1>6, <2>1 DEF TypeOK
<1>8. LockInv'
  <2>1. \A b \in Conns : pc[b] \notin HasLock /\ pc'[b] \notin HasLock /\ holder' # b
    BY <1>1, <1>3, <1>6 DEF LockInv, HasLock
  <2>2. \A b \in Conns : pc'[b] \in Saving => pc'[b] = pc[b]
    BY <1>3 DEF Saving
  <2> QED BY <1>1, <1>6, <2>1, <2>2 DEF LockInv, HasLock
\* Whoever has executed n + 1 statements has made them.
<1>9. \A i \in 1..n + 1 : Schema[i] \in db'.tables
  BY <1>2, <1>5
<1>10. n + 1 = Len(Schema) => Complete'
  <2> SUFFICES ASSUME n + 1 = Len(Schema), NEW u \in Base \cup A08
               PROVE  u \in db'.tables
    BY DEF Complete
  <2>1. PICK i \in 1..Len(Schema) : Schema[i] = u
    <3>1. CASE u \in Base
      BY <1>2, <3>1, SchemaFacts
    <3>2. CASE u \in A08
      <4>1. PICK j \in 1..na : u = A08Tables[j]
        BY <3>2, SchemaFacts
      <4>2. Schema[nb + j] = u /\ nb + j \in 1..Len(Schema)
        BY <1>2, <4>1, SchemaFacts
      <4> QED BY <4>2
    <3> QED BY <3>1, <3>2
  <2> QED BY <1>9, <2>1
<1>11. ASSUME n >= nb
       PROVE  /\ Base \subseteq db.tables
              /\ t \notin db.tables
              /\ \A i \in 1..(n - nb) : A08Tables[i] \in db.tables
  <2>1. Base \subseteq db.tables
    <3> SUFFICES ASSUME NEW u \in Base PROVE u \in db.tables
      OBVIOUS
    <3>1. PICK i \in 1..nb : Schema[i] = u
      BY SchemaFacts
    <3>2. i \in 1..n
      BY <1>2, <1>11, <3>1
    <3> QED BY <1>2, <3>1, <3>2
  <2>2. \A i \in 1..(n - nb) : A08Tables[i] \in db.tables
    <3> SUFFICES ASSUME NEW i \in 1..(n - nb) PROVE A08Tables[i] \in db.tables
      OBVIOUS
    <3>1. nb + i \in 1..n /\ i \in 1..na
      BY <1>2, <1>11
    <3>2. Schema[nb + i] = A08Tables[i]
      BY <3>1, SchemaFacts
    <3> QED BY <1>2, <3>1, <3>2
  <2> QED BY <1>4, <1>11, <2>1, <2>2
<1>12. ASSUME n >= nb, A08 \cap db.tables = {A08Tables[i] : i \in 1..(n - nb)}
       PROVE  Complete' \/ Leading(c)'
  <2>1. CASE n + 1 = Len(Schema)
    BY <1>10, <2>1
  <2>2. CASE n + 1 # Len(Schema)
    <3>1. pc'[c] = "create" /\ created'[c] = n + 1
      BY <1>3, <2>2
    <3>2. A08 \cap db'.tables = {A08Tables[i] : i \in 1..((n + 1) - nb)}
      <4>1. A08 \cap db'.tables = (A08 \cap db.tables) \cup {A08Tables[n - nb + 1]}
        BY <1>4, <1>5, <1>12
      <4>2. 1..((n + 1) - nb) = 1..(n - nb) \cup {n - nb + 1}
        BY <1>2, <1>12
      <4> QED BY <1>12, <4>1, <4>2
    <3>3. created'[c] > nb
      BY <1>2, <1>12, <3>1
    <3> QED BY <3>1, <3>2, <3>3 DEF Leading
  <2> QED BY <2>1, <2>2
<1>13. abandoned \/ BaseOnly' \/ Complete' \/ \E b \in Conns : Leading(b)'
  <2> SUFFICES ASSUME ~abandoned
               PROVE  BaseOnly' \/ Complete' \/ \E b \in Conns : Leading(b)'
    OBVIOUS
  <2>1. BaseOnly \/ Complete \/ \E b \in Conns : Leading(b)
    BY <1>1 DEF CreationInv
  <2>2. CASE Complete
    BY <1>5, <2>2 DEF Complete
  <2>3. CASE n < nb /\ BaseOnly
    <3>1. A08 \cap db'.tables = {}
      BY <1>4, <1>5, <2>3 DEF BaseOnly
    <3>2. pc'[c] = "create"
      BY <1>2, <1>3, <2>3
    <3> QED BY <3>1, <3>2 DEF BaseOnly
  <2>4. CASE n < nb /\ \E b \in Conns : Leading(b)
    <3>1. PICK b \in Conns : Leading(b)
      BY <2>4
    <3>2. b # c
      BY <1>2, <2>4, <3>1 DEF Leading
    <3>3. A08 \cap db'.tables = A08 \cap db.tables
      BY <1>4, <1>5, <2>4
    <3>4. Leading(b)'
      BY <1>3, <3>1, <3>2, <3>3 DEF Leading
    <3> QED BY <3>4
  <2>5. CASE n >= nb /\ BaseOnly
    <3>1. n = nb
      <4> SUFFICES ASSUME n # nb PROVE FALSE
        OBVIOUS
      <4>1. 1 \in 1..(n - nb)
        BY <1>2, <2>5
      <4>2. A08Tables[1] \in A08 \cap db.tables
        BY <1>11, <2>5, <4>1, FirstTable
      <4> QED BY <2>5, <4>2 DEF BaseOnly
    <3>2. 1..(n - nb) = {}
      BY <1>2, <3>1
    <3>3. A08 \cap db.tables = {A08Tables[i] : i \in 1..(n - nb)}
      BY <2>5, <3>2 DEF BaseOnly
    <3> QED BY <1>12, <2>5, <3>3
  <2>6. CASE n >= nb /\ \E b \in Conns : Leading(b)
    <3>1. PICK b \in Conns : Leading(b)
      BY <2>6
    <3> DEFINE m == created[b] - nb
    <3>2. created[b] \in Nat /\ created[b] < Len(Schema) /\ m \in 1..na
      <4>1. created[b] \in 0..Len(Schema) /\ created[b] < Len(Schema) /\ created[b] > nb
        BY <1>1, <3>1 DEF TypeOK, CreationInv, Leading
      <4> QED BY <1>2, <4>1
    <3>3. A08 \cap db.tables = {A08Tables[i] : i \in 1..m}
      BY <3>1 DEF Leading
    <3> HIDE DEF m
    <3>4. ~(n - nb + 1 <= m)
      <4> SUFFICES ASSUME n - nb + 1 <= m PROVE FALSE
        OBVIOUS
      <4>1. n - nb + 1 \in 1..m
        BY <1>2, <2>6, <3>2
      <4>2. t \in db.tables
        BY <1>4, <2>6, <3>3, <4>1
      <4> QED BY <1>11, <2>6, <4>2
    <3>5. n - nb <= m
      <4> SUFFICES ASSUME ~(n - nb <= m) PROVE FALSE
        OBVIOUS
      <4>1. n - nb \in 1..(n - nb) /\ n - nb \in 1..na
        BY <1>2, <2>6, <3>2
      <4>2. A08Tables[n - nb] \in A08 \cap db.tables
        BY <1>11, <2>6, <4>1, SchemaFacts
      <4>3. PICK i \in 1..m : A08Tables[n - nb] = A08Tables[i]
        BY <3>3, <4>2
      <4>4. i \in 1..na
        BY <1>2, <3>2, <4>3
      <4>5. i = n - nb
        BY <4>1, <4>3, <4>4
      <4> QED BY <1>2, <3>2, <4>3, <4>5
    <3>6. n - nb = m
      BY <1>2, <2>6, <3>2, <3>4, <3>5
    <3> QED BY <1>12, <2>6, <3>3, <3>6
  <2>7. n < nb \/ n >= nb
    BY <1>2
  <2> QED BY <2>1, <2>2, <2>3, <2>4, <2>5, <2>6, <2>7
<1>14. ASSUME NEW b \in Conns
       PROVE  /\ pc'[b] = "create" => /\ created'[b] < Len(Schema)
                                      /\ \A i \in 1..created'[b] : Schema[i] \in db'.tables
              /\ pc'[b] = "created" => Complete'
              /\ pc'[b] = "alter" => created'[b] < Len(A08Tables)
  <2>1. CASE b = c
    <3>1. created'[b] = n + 1 /\ pc'[b] = s
      BY <1>3, <2>1
    <3>2. n + 1 # Len(Schema) => n + 1 < Len(Schema)
      BY <1>2
    <3> QED BY <1>9, <1>10, <3>1, <3>2
  <2>2. CASE b # c
    BY <1>1, <1>3, <1>5, <2>2 DEF CreationInv, Complete
  <2> QED BY <2>1, <2>2
<1>15. CreationInv'
  BY <1>6, <1>13, <1>14 DEF CreationInv
<1>16. n >= nb => migrators = {}
  BY <1>1, <1>4, <1>11 DEF WinnerInv
<1>17. ASSUME NEW b \in Conns
       PROVE  /\ pc'[b] \notin {"alter", "alter_commit"}
              /\ \/ pc'[b] = "created"
                 \/ pc'[b] = "create" /\ created'[b] > nb
                 => migrators = {}
  <2>1. CASE b = c
    <3>1. created'[b] = n + 1 /\ pc'[b] = s
      BY <1>3, <2>1
    <3>2. n + 1 = Len(Schema) \/ n + 1 > nb => n >= nb
      BY <1>2
    <3> QED BY <1>16, <3>1, <3>2
  <2>2. CASE b # c
    <3>1. pc[b] \notin HasLock
      BY <1>1 DEF LockInv
    <3> QED BY <1>1, <1>3, <2>2, <3>1 DEF WinnerInv, HasLock
  <2> QED BY <2>1, <2>2
<1>18. WinnerInv'
  BY <1>1, <1>5, <1>6, <1>17 DEF WinnerInv
<1>19. EarlyInv'
  BY <1>1, <1>5, <1>6, ProfileFacts DEF EarlyInv
<1> QED BY <1>7, <1>8, <1>15, <1>18, <1>19 DEF IInv

LEMMA CreateTableHolds ==
  ASSUME IInv, NEW c \in Conns, CreateTable(c)
  PROVE  IInv'
<1> DEFINE t == Schema[created[c] + 1]
           exists == t \in A08 /\ t \in db.tables
<1>1. pc[c] = "create" /\ abandoned \in BOOLEAN
  BY DEF CreateTable, IInv, TypeOK
<1>2. CASE holder = None /\ ~exists
  <2>1. /\ db' = [db EXCEPT !.tables = @ \cup {t}] /\ tx' = db'
        /\ created' = [created EXCEPT ![c] = @ + 1]
        /\ pc' = [pc EXCEPT ![c] = IF created'[c] = Len(Schema) THEN "created" ELSE "create"]
        /\ UNCHANGED <<holder, profile, saving, tracking>>
    BY <1>2 DEF CreateTable, GoTo
  <2> QED BY <1>1, <1>2, <2>1, TableHolds
<1>3. CASE holder # None
  <2>1. Leave(c, "closed") /\ abandoned' = TRUE
    BY <1>3 DEF CreateTable
  <2> QED BY <2>1, LeaveHolds
<1>4. CASE holder = None /\ exists
  <2>1. Leave(c, "closed") /\ abandoned' = abandoned
    BY <1>4 DEF CreateTable
  <2> QED BY <1>1, <1>4, <2>1, LeaveHolds
<1> QED BY <1>2, <1>3, <1>4

(***************************************************************************)
(* Migrating                                                               *)
(***************************************************************************)

LEMMA MigrateHolds ==
  ASSUME IInv, NEW c \in Conns, Migrate(c) \/ ReadProfile(c) \/ SaveRun(c)
  PROVE  IInv'
<1>1. TypeOK /\ LockInv /\ pc[c] \in {"open", "save_profile"} /\ pc[c] \notin HasLock
      /\ pc[c] # "create"
  BY DEF IInv, Migrate, ReadProfile, SaveRun, HasLock
<1>2. /\ created' = [created EXCEPT ![c] = created[c]] /\ created[c] \in 0..Len(Schema)
      /\ UNCHANGED <<db, tx, holder, early, migrators, creators, abandoned>>
  BY <1>1 DEF Migrate, ReadProfile, SaveRun, TypeOK, tracking
<1>3. /\ profile' \in [Conns -> {"PARTIAL", "LEGACY", "A08"}]
      /\ saving' \in [Conns -> Runs \cup {None}]
      /\ \A b \in Conns : b # c => saving'[b] = saving[b]
  <2>1. CASE Migrate(c)
    BY <1>1, <2>1 DEF Migrate, TypeOK
  <2>2. CASE ReadProfile(c)
    BY <1>1, <2>2, ProfileFacts DEF ReadProfile, TypeOK
  <2>3. CASE SaveRun(c)
    BY <1>1, <2>3 DEF SaveRun, TypeOK
  <2> QED BY <2>1, <2>2, <2>3
<1>4. PICK s \in {"migrate", "save_profile", "save_begin"} :
        /\ pc' = [pc EXCEPT ![c] = s] /\ (s \in Saving => saving'[c] \in Runs)
  <2>1. CASE Migrate(c)
    BY <2>1 DEF Migrate, GoTo, Saving
  <2>2. CASE ReadProfile(c)
    BY <1>1, <2>2 DEF ReadProfile, GoTo, Saving, LockInv
  <2>3. CASE SaveRun(c)
    BY <1>1, <2>3 DEF SaveRun, GoTo, TypeOK
  <2> QED BY <2>1, <2>2, <2>3
<1>5. s \in Stages \ (HasLock \cup {"created"}) /\ s # "create"
  BY <1>4 DEF Stages, HasLock
<1> QED BY <1>1, <1>2, <1>3, <1>4, <1>5, FreeStep

LEMMA BeginHolds ==
  ASSUME IInv, NEW c \in Conns, BeginMigration(c) \/ BeginSave(c)
  PROVE  IInv'
<1>1. TypeOK /\ LockInv /\ abandoned' = abandoned /\ abandoned \in BOOLEAN
      /\ pc[c] \in {"migrate", "save_begin"} /\ pc[c] # "create"
  BY DEF IInv, BeginMigration, BeginSave, TypeOK
<1>2. CASE Leave(c, "open")
  BY <1>1, <1>2, LeaveHolds
<1>3. CASE ~Leave(c, "open") /\ BeginMigration(c)
  <2>1. /\ holder = None /\ holder' = c /\ tx' = db
        /\ created' = [created EXCEPT ![c] = 0] /\ pc' = [pc EXCEPT ![c] = "alter"]
        /\ UNCHANGED <<db, profile, saving, early, migrators, creators, abandoned>>
    BY <1>1, <1>3 DEF BeginMigration, GoTo
  <2>2. 0 \in 0..Len(Schema) /\ 0 < Len(A08Tables) /\ "alter" \in HasLock
        /\ "alter" \notin Saving /\ ~(0 > 0)
    BY SchemaFacts DEF HasLock, Saving
  <2>3. db \in Database
    BY <1>1 DEF TypeOK
  <2> QED BY <1>1, <2>1, <2>2, <2>3, HolderStep DEF tracking
<1>4. CASE ~Leave(c, "open") /\ BeginSave(c)
  <2>1. /\ holder = None /\ holder' = c /\ tx' = db /\ pc[c] = "save_begin"
        /\ pc' = [pc EXCEPT ![c] = "save_insert"]
        /\ UNCHANGED <<db, created, profile, saving, early, migrators, creators, abandoned>>
    BY <1>1, <1>4 DEF BeginSave, GoTo
  <2>2. "save_insert" \in HasLock /\ saving[c] \in Runs
    BY <1>1, <2>1 DEF HasLock, Saving, LockInv
  <2>3. /\ db \in Database /\ created' = [created EXCEPT ![c] = created[c]]
        /\ created[c] \in 0..Len(Schema)
    BY <1>1, <2>1 DEF TypeOK
  <2> QED BY <1>1, <2>1, <2>2, <2>3, HolderStep DEF tracking
<1> QED BY <1>2, <1>3, <1>4

LEMMA AlterTableHolds ==
  ASSUME IInv, NEW c \in Conns, AlterTable(c)
  PROVE  IInv'
<1> DEFINE t == A08Tables[created[c] + 1]
           n == created[c]
           s == IF n + 1 = Len(A08Tables) THEN "alter_commit" ELSE "alter"
<1>1. TypeOK /\ LockInv /\ abandoned' = abandoned /\ abandoned \in BOOLEAN
      /\ pc[c] = "alter" /\ pc[c] # "create"
  BY DEF IInv, AlterTable, TypeOK
<1>2. holder = c /\ db.tables \subseteq tx.tables /\ tx.runs = db.runs
      /\ tx.linked = db.linked
  BY <1>1 DEF LockInv, HasLock
<1>3. /\ n \in Nat /\ n < Len(A08Tables) /\ n + 1 \in 0..Len(Schema)
      /\ n + 1 \in 1..Len(A08Tables)
  <2>1. n \in 0..Len(Schema) /\ n < Len(A08Tables)
    BY <1>1 DEF IInv, CreationInv, TypeOK
  <2> QED BY <2>1, SchemaFacts
<1>4. CASE Leave(c, "open")
  BY <1>1, <1>4, LeaveHolds
<1>5. CASE ~Leave(c, "open")
  <2>1. /\ t \notin tx.tables /\ tx' = [tx EXCEPT !.tables = @ \cup {t}]
        /\ created' = [created EXCEPT ![c] = @ + 1]
        /\ pc' = [pc EXCEPT ![c] = IF created'[c] = Len(A08Tables) THEN "alter_commit"
                                   ELSE "alter"]
        /\ UNCHANGED <<db, holder, profile, saving, early, migrators, creators, abandoned>>
    BY <1>1, <1>5 DEF AlterTable, GoTo
  <2>2. created' = [created EXCEPT ![c] = n + 1] /\ created'[c] = n + 1
    BY <1>1, <2>1 DEF TypeOK
  <2>3. pc' = [pc EXCEPT ![c] = s] /\ s \in HasLock /\ s \notin Saving
    BY <2>1, <2>2 DEF HasLock, Saving
  <2>4. t \in A08
    BY <1>3, SchemaFacts
  <2>5. /\ tx' \in Database /\ db.tables \subseteq tx'.tables
        /\ tx'.runs = db.runs /\ tx'.linked = db.linked
    BY <1>1, <1>2, <2>1, <2>4 DEF TypeOK, Database
  <2>6. A08Tables[1] \notin db.tables
    <3>1. CASE n = 0
      BY <1>2, <2>1, <3>1
    <3>2. CASE n # 0
      <4>1. n > 0
        BY <1>3, <3>2
      <4> QED BY <1>1, <4>1 DEF IInv, WinnerInv
    <3> QED BY <3>1, <3>2
  <2>7. /\ s = "alter" => n + 1 < Len(A08Tables)
        /\ n + 1 > 0 /\ s # "save_commit"
    BY <1>3, SchemaFacts
  <2>8. UNCHANGED <<db, profile, saving, tracking>> /\ holder' = c
    BY <1>2, <2>1 DEF tracking
  <2> HIDE DEF s, t
  <2> QED BY <1>1, <1>2, <1>3, <2>2, <2>3, <2>5, <2>6, <2>7, <2>8, HolderStep
<1> QED BY <1>4, <1>5

\* The holder of the lock commits its copy.
LEMMA CommitFields ==
  ASSUME IInv, NEW c \in Conns, pc[c] \in {"alter_commit", "save_commit"},
         db' = tx, holder' = None, tx' = tx, created' = created, profile' = profile,
         pc' = [pc EXCEPT ![c] = "open"], saving' \in [Conns -> Runs \cup {None}],
         \A b \in Conns : b # c => saving'[b] = saving[b],
         early' \subseteq Runs, migrators' \subseteq Conns, creators' = creators,
         abandoned' = abandoned
  PROVE  /\ TypeOK' /\ LockInv'
         /\ db.tables \subseteq db'.tables
         /\ \A b \in Conns : /\ pc'[b] \notin HasLock
                             /\ b # c => pc'[b] = pc[b] /\ pc[b] \notin HasLock
         /\ pc'[c] = "open"
<1>1. TypeOK /\ LockInv /\ holder = c
  BY DEF IInv, LockInv, HasLock
<1>2. db.tables \subseteq db'.tables
  BY <1>1 DEF LockInv
<1>3. pc'[c] = "open" /\ \A b \in Conns : b # c => pc'[b] = pc[b] /\ pc[b] \notin HasLock
  BY <1>1 DEF TypeOK, LockInv
<1>4. \A b \in Conns : pc'[b] \notin HasLock
  BY <1>3 DEF HasLock
<1>5. TypeOK'
  <2>1. pc' \in [Conns -> Stages]
    BY <1>1 DEF TypeOK, Stages
  <2> QED BY <1>1, <2>1 DEF TypeOK
<1>6. LockInv'
  <2>1. \A b \in Conns : pc'[b] \in Saving => b # c
    BY <1>3 DEF Saving
  <2> QED BY <1>1, <1>3, <1>4, <2>1 DEF LockInv, HasLock
<1> QED BY <1>2, <1>3, <1>4, <1>5, <1>6

\* More tables only help those who are creating theirs.
LEMMA CommitKeepsCreation ==
  ASSUME IInv, NEW c \in Conns, db.tables \subseteq db'.tables,
         created' = created, pc[c] \notin {"create", "created"}, pc'[c] = "open",
         \A b \in Conns : b # c => pc'[b] = pc[b] /\ pc[b] \notin HasLock,
         abandoned' = abandoned,
         db'.tables = db.tables \/ Complete'
  PROVE  CreationInv'
<1>1. \A b \in Conns :
        /\ pc'[b] = "create" => /\ created'[b] < Len(Schema)
                                /\ \A i \in 1..created'[b] : Schema[i] \in db'.tables
        /\ pc'[b] = "created" => Complete'
        /\ pc'[b] = "alter" => created'[b] < Len(A08Tables)
  BY DEF IInv, CreationInv, Complete, HasLock
<1>2. CASE Complete'
  BY <1>1, <1>2 DEF CreationInv
<1>3. CASE db'.tables = db.tables
  <2>1. BaseOnly => BaseOnly'
    BY <1>3 DEF BaseOnly
  <2>2. ASSUME NEW b \in Conns, Leading(b)
        PROVE  Leading(b)'
    BY <1>3, <2>2 DEF Leading
  <2>3. Complete => Complete'
    BY <1>3 DEF Complete
  <2> QED BY <1>1, <2>1, <2>2, <2>3 DEF IInv, CreationInv
<1> QED BY <1>2, <1>3

LEMMA CommitMigrationHolds ==
  ASSUME IInv, NEW c \in Conns, CommitMigration(c)
  PROVE  IInv'
<1>1. TypeOK /\ LockInv /\ WinnerInv /\ abandoned' = abandoned /\ abandoned \in BOOLEAN
      /\ pc[c] = "alter_commit" /\ pc[c] \notin {"create", "created"}
  BY DEF IInv, CommitMigration, TypeOK
<1>2. CASE Leave(c, "open")
  BY <1>1, <1>2, LeaveHolds
<1>3. CASE ~Leave(c, "open")
  <2>1. /\ Profile(tx) = "A08" /\ db' = tx /\ holder' = None
        /\ migrators' = migrators \cup {c} /\ pc' = [pc EXCEPT ![c] = "open"]
        /\ UNCHANGED <<tx, created, profile, saving, early, creators>>
    BY <1>3 DEF CommitMigration, GoTo
  <2>2. saving' \in [Conns -> Runs \cup {None}] /\ early' \subseteq Runs
        /\ migrators' \subseteq Conns
    BY <1>1, <2>1 DEF TypeOK
  <2>3. /\ TypeOK' /\ LockInv' /\ db.tables \subseteq db'.tables
        /\ \A b \in Conns : /\ pc'[b] \notin HasLock
                            /\ b # c => pc'[b] = pc[b] /\ pc[b] \notin HasLock
        /\ pc'[c] = "open"
    BY <1>1, <2>1, <2>2, CommitFields
  <2>4. Complete'
    BY <2>1, ProfileFacts DEF Complete
  <2>5. CreationInv'
    BY <1>1, <2>1, <2>3, <2>4, CommitKeepsCreation
  <2>6. ~(A08 \subseteq db.tables) /\ migrators = {} /\ creators = {}
    <3>1. A08Tables[1] \notin db.tables
      BY <1>1 DEF WinnerInv
    <3>2. ~(A08 \subseteq db.tables)
      BY <3>1, FirstTable
    <3> QED BY <1>1, <3>2 DEF WinnerInv
  <2>7. ASSUME NEW b \in Conns
        PROVE  ~(\/ pc'[b] = "created"
                 \/ pc'[b] = "create" /\ created'[b] > Len(BaseTables))
    <3>1. CASE b = c
      BY <2>3, <3>1
    <3>2. CASE b # c /\ pc[b] = "created"
      BY <1>1, <2>6, <3>2 DEF IInv, CreationInv, Complete
    <3>3. CASE b # c /\ pc[b] = "create" /\ created[b] > Len(BaseTables)
      <4>1. created[b] \in Nat
        BY <1>1, SchemaFacts DEF TypeOK
      <4>2. Len(BaseTables) + 1 \in 1..created[b]
        BY <3>3, <4>1, SchemaFacts
      <4>3. Schema[Len(BaseTables) + 1] \in db.tables
        BY <3>3, <4>2 DEF IInv, CreationInv
      <4>4. Schema[Len(BaseTables) + 1] = A08Tables[1]
        BY FirstTable, SchemaFacts
      <4>5. A08Tables[1] \notin db.tables
        BY <1>1 DEF WinnerInv
      <4> QED BY <4>3, <4>4, <4>5
    <3> QED BY <2>1, <2>3, <3>1, <3>2, <3>3
  <2>8. WinnerInv'
    <3>1. migrators' = {c} /\ creators' = {}
      BY <2>1, <2>6
    <3>2. A08 \subseteq db'.tables
      BY <2>4 DEF Complete
    <3> QED BY <2>3, <2>7, <3>1, <3>2 DEF WinnerInv, HasLock
  <2>9. EarlyInv'
    <3>1. db'.runs = db.runs /\ db'.linked = db.linked /\ early' = early
      BY <1>1, <2>1 DEF LockInv
    <3>2. Profile(db') = "A08"
      BY <2>1
    <3> QED BY <3>1, <3>2 DEF IInv, EarlyInv
  <2> QED BY <2>3, <2>5, <2>8, <2>9 DEF IInv
<1> QED BY <1>2, <1>3

(***************************************************************************)
(* Saving                                                                  *)
(***************************************************************************)

LEMMA InsertRunHolds ==
  ASSUME IInv, NEW c \in Conns, InsertRun(c)
  PROVE  IInv'
<1>1. TypeOK /\ LockInv /\ pc[c] = "save_insert" /\ pc[c] # "create"
      /\ UNCHANGED <<db, holder, created, profile, saving, tracking>>
      /\ pc' = [pc EXCEPT ![c] = "save_check"]
  BY DEF IInv, InsertRun, GoTo
<1>2. holder = c /\ saving[c] \in Runs /\ tx.tables = db.tables
  BY <1>1 DEF LockInv, HasLock, Saving
<1>3. tx' \in Database /\ tx'.tables = tx.tables
  <2> DEFINE l == IF profile[c] = "A08" THEN tx.linked \cup {saving[c]} ELSE tx.linked
  <2>1. tx' = [tx EXCEPT !.runs = tx.runs \cup {saving[c]}, !.linked = l]
    BY DEF InsertRun
  <2>2. tx \in Database
    BY <1>1 DEF TypeOK
  <2>3. l \subseteq tx.runs \cup {saving[c]} /\ l \subseteq Runs
    BY <1>2, <2>2 DEF Database
  <2> HIDE DEF l
  <2> QED BY <1>2, <2>1, <2>2, <2>3 DEF Database
<1>4. created' = [created EXCEPT ![c] = created[c]] /\ created[c] \in 0..Len(Schema)
  BY <1>1 DEF TypeOK
<1>5. "save_check" \in HasLock
  BY DEF HasLock
<1> QED BY <1>1, <1>2, <1>3, <1>4, <1>5, HolderStep

LEMMA FinalPreflightHolds ==
  ASSUME IInv, NEW c \in Conns, FinalPreflight(c)
  PROVE  IInv'
<1>1. TypeOK /\ LockInv /\ abandoned' = abandoned /\ abandoned \in BOOLEAN
      /\ pc[c] = "save_check" /\ pc[c] # "create"
  BY DEF IInv, FinalPreflight, TypeOK
<1>2. CASE Leave(c, "open")
  BY <1>1, <1>2, LeaveHolds
<1>3. CASE ~Leave(c, "open")
  <2>1. /\ Verifies(tx) /\ pc' = [pc EXCEPT ![c] = "save_commit"]
        /\ UNCHANGED <<db, tx, holder, created, profile, saving, early, migrators, creators>>
    BY <1>3 DEF FinalPreflight, GoTo
  <2>2. holder = c /\ saving[c] \in Runs /\ tx.tables = db.tables /\ tx \in Database
    BY <1>1 DEF LockInv, HasLock, Saving, TypeOK
  <2>3. created' = [created EXCEPT ![c] = created[c]] /\ created[c] \in 0..Len(Schema)
    BY <1>1, <2>1 DEF TypeOK
  <2>4. "save_commit" \in HasLock
    BY DEF HasLock
  <2> QED BY <1>1, <2>1, <2>2, <2>3, <2>4, HolderStep DEF tracking
<1> QED BY <1>2, <1>3

LEMMA CommitSaveHolds ==
  ASSUME IInv, NEW c \in Conns, CommitSave(c)
  PROVE  IInv'
<1>1. TypeOK /\ LockInv /\ WinnerInv /\ pc[c] = "save_commit"
      /\ pc[c] \notin {"create", "created"}
  BY DEF IInv, CommitSave
<1>2. /\ db' = tx /\ holder' = None /\ pc' = [pc EXCEPT ![c] = "open"]
      /\ saving' = [saving EXCEPT ![c] = None]
      /\ early' = IF Profile(tx) = "A08" THEN early ELSE tx.runs
      /\ UNCHANGED <<tx, created, profile, migrators, creators, abandoned>>
  BY DEF CommitSave, GoTo
<1>3. /\ saving' \in [Conns -> Runs \cup {None}] /\ migrators' \subseteq Conns
      /\ \A b \in Conns : b # c => saving'[b] = saving[b]
  BY <1>1, <1>2 DEF TypeOK
<1>4. early' \subseteq Runs
  BY <1>1, <1>2 DEF TypeOK, Database
<1>5. db'.tables = db.tables /\ Verifies(tx)
  BY <1>1, <1>2 DEF LockInv
<1>6. /\ TypeOK' /\ LockInv' /\ db.tables \subseteq db'.tables
      /\ \A b \in Conns : /\ pc'[b] \notin HasLock
                          /\ b # c => pc'[b] = pc[b] /\ pc[b] \notin HasLock
      /\ pc'[c] = "open"
  BY <1>1, <1>2, <1>3, <1>4, CommitFields
<1>7. CreationInv'
  BY <1>1, <1>2, <1>5, <1>6, CommitKeepsCreation
<1>8. WinnerInv'
  BY <1>1, <1>2, <1>5, <1>6 DEF WinnerInv, HasLock
<1>9. EarlyInv'
  BY <1>2, <1>5 DEF EarlyInv, Verifies
<1> QED BY <1>6, <1>7, <1>8, <1>9 DEF IInv

(***************************************************************************)
(* The theorems                                                            *)
(***************************************************************************)

LEMMA StepHolds == IInv /\ [Next]_vars => IInv'
<1> SUFFICES ASSUME IInv, [Next]_vars
             PROVE  IInv'
  OBVIOUS
<1>1. CASE UNCHANGED vars
  BY <1>1 DEF vars, tracking, IInv, TypeOK, LockInv, CreationInv, WinnerInv, EarlyInv,
     Complete, BaseOnly, Leading, Verifies, Profile
<1>2. ASSUME NEW c \in Conns, Open(c) \/ CreateTable(c) \/ CheckCreated(c)
      PROVE  IInv'
  BY <1>2, OpenHolds, CreateTableHolds, CheckCreatedHolds
<1>3. ASSUME NEW c \in Conns,
             Migrate(c) \/ BeginMigration(c) \/ AlterTable(c) \/ CommitMigration(c)
      PROVE  IInv'
  BY <1>3, MigrateHolds, BeginHolds, AlterTableHolds, CommitMigrationHolds
<1>4. ASSUME NEW c \in Conns,
             SaveRun(c) \/ ReadProfile(c) \/ BeginSave(c) \/ InsertRun(c)
      PROVE  IInv'
  BY <1>4, MigrateHolds, BeginHolds, InsertRunHolds
<1>5. ASSUME NEW c \in Conns, FinalPreflight(c) \/ CommitSave(c)
      PROVE  IInv'
  BY <1>5, FinalPreflightHolds, CommitSaveHolds
<1>6. ASSUME NEW c \in Conns, Abort(c)
      PROVE  IInv'
  <2>1. /\ Leave(c, "closed") /\ abandoned' = (abandoned \/ pc[c] = "create")
        /\ abandoned \in BOOLEAN
    BY <1>6 DEF Abort, IInv, TypeOK
  <2>2. abandoned' \in BOOLEAN /\ (abandoned => abandoned') /\ (pc[c] = "create" => abandoned')
    BY <2>1
  <2> QED BY <2>1, <2>2, LeaveHolds
<1> QED BY <1>1, <1>2, <1>3, <1>4, <1>5, <1>6 DEF Next

\* The invariant holds in every reachable state.
THEOREM Invariance == Spec => []IInv
<1> QED BY InitHolds, StepHolds, PTL DEF Spec

\* Type correctness.
THEOREM TypeCorrect == Spec => []TypeOK
<1>1. IInv => TypeOK
  BY DEF IInv
<1> QED BY <1>1, Invariance, PTL

\* A store that nobody can open again is left only by a creation that was killed
\* or timed out, whatever the order of its tables and those of a migration.
THEOREM PartialHolds == Spec => []PartialOnlyIfAbandoned
<1>1. IInv => PartialOnlyIfAbandoned
  <2> SUFFICES ASSUME IInv, Profile(db) = "PARTIAL", db.tables # {}, ~abandoned
               PROVE  \E c \in Conns : pc[c] = "create"
    BY DEF PartialOnlyIfAbandoned
  <2>1. BaseOnly \/ Complete \/ \E c \in Conns : Leading(c)
    BY DEF IInv, CreationInv
  <2>2. ~Complete
    BY ProfileFacts DEF Complete
  <2>3. CASE BaseOnly
    BY <2>3, ProfileFacts DEF BaseOnly
  <2>4. CASE \E c \in Conns : Leading(c)
    BY <2>4 DEF Leading
  <2> QED BY <2>1, <2>2, <2>3, <2>4
<1> QED BY <1>1, Invariance, PTL

\* The A08 tables of a store were made by one connection.
THEOREM WinnerHolds == Spec => []OneWinner
<1>1. IInv => OneWinner
  <2> SUFFICES ASSUME IInv PROVE OneWinner
    OBVIOUS
  <2>1. migrators = {} \/ (creators = {} /\ \E w \in Conns : migrators = {w})
    BY DEF IInv, WinnerInv
  <2>2. Cardinality({}) = 0 /\ \A w : Cardinality({w}) = 1
    BY FS_EmptySet, FS_Singleton
  <2>3. Cardinality(migrators) \in {0, 1}
    BY <2>1, <2>2
  <2> QED BY <2>1, <2>3 DEF OneWinner
<1> QED BY <1>1, Invariance, PTL

\* A store whose verification fails has only runs from before its A08 tables.
THEOREM FreezeHolds == Spec => []EarlyRunFreezes
<1>1. IInv => EarlyRunFreezes
  BY DEF IInv, EarlyInv, EarlyRunFreezes, Verifies
<1> QED BY <1>1, Invariance, PTL

=============================================================================
