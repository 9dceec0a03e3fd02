--------------------------- MODULE WebDemoProofs ---------------------------
(***************************************************************************)
(* Proofs about WebDemo, for any number of connections, slots and stops    *)
(* and any catalog: the slots, and what the page shows and asks for.       *)
(***************************************************************************)
EXTENDS WebDemo, FiniteSetTheorems, TLAPS

Stages == {"FREE", "QUEUED", "ACCEPTED", "REJECTED", "READING", "HANDLING", "ENDING"}

ServerTypes ==
  /\ serving \in BOOLEAN /\ free \in 0..MaxSlots /\ stops \in 0..MaxStops
  /\ backlog \in Seq(Conns)
  /\ conn \in [Conns -> [stage : Stages, request : Requests \cup {None}]]

\* The connections that wait are in the backlog, each once.
Waiting ==
  /\ \A i, j \in 1..Len(backlog) : backlog[i] = backlog[j] => i = j
  /\ {backlog[i] : i \in 1..Len(backlog)} = {c \in Conns : conn[c].stage = "QUEUED"}

Counted == free + Cardinality(Held) = MaxSlots

Alone == \A c, d \in Loop : c = d

SlotInv == ServerTypes /\ Waiting /\ Counted /\ Alone

LegacyRuns == {Run("LEGACY", m) : m \in Mutations}

\* What the page shows is one answer, and the binding is to what it shows.
PanelInv ==
  /\ loaded \in BOOLEAN /\ busy \in BOOLEAN
  /\ selected \in Mutations \cup {None} /\ mutation \in Mutations \cup {None}
  /\ runId \in LegacyRuns \cup {None}
  /\ page.kind \in {"NONE", "WAITING", "RUN", "SOURCE"} /\ page.run \in Runs \cup {None}
  /\ page.kind = "RUN" =>
       page.run \in LegacyRuns /\ page.team = Team(page.run) /\ selected \in {page.run.of, None}
  /\ page.kind = "SOURCE" => page.run = Run("SOURCE", Pack) /\ page.team = Team(page.run)
  /\ runId # None => page.kind = "RUN" /\ page.run = runId /\ mutation = runId.of

\* A page that asks is busy, its connection carries its request, and what comes
\* back is the answer to it or a failure; a replay names the binding, and the
\* source pack is asked for under none.
WireInv ==
  /\ request \in Requests \cup {None} /\ active \in Conns \cup {None}
  /\ request # None => busy = TRUE
  /\ request # None /\ request.path = "replay" =>
       request.run = runId /\ request.mutation = mutation /\ mutation = selected
  /\ request # None /\ request.path = "source" => runId = None
  /\ active # None =>
       /\ request # None /\ mail = None
       /\ conn[active].request = request /\ conn[active].stage \notin {"FREE", "ENDING"}
  /\ mail # None => request # None /\ mail \in {Failed, Answer(request)}

Inv == SlotInv /\ PanelInv /\ WireInv

-----------------------------------------------------------------------------
(* The slots.                                                              *)

\* The connections that hold a slot are finitely many, before and after a step.
LEMMA HeldIsFinite ==
  /\ IsFiniteSet(Held) /\ Cardinality(Held) \in Nat
  /\ IsFiniteSet(Held') /\ Cardinality(Held') \in Nat
  BY WebDemoAssumption, FS_Subset, FS_CardinalityType DEF Held

\* How a change of one connection's stage changes the set of those with a slot.
LEMMA HeldAfter ==
  ASSUME ServerTypes, NEW c \in Conns, NEW v,
         conn' = [conn EXCEPT ![c] = v]
  PROVE  LET holds == v.stage \in {"ACCEPTED", "READING", "HANDLING", "ENDING"} IN
         /\ holds => Held' = Held \cup {c}
         /\ ~holds => Held' = Held \ {c}
  BY DEF ServerTypes, Held

HoldsSlot(stage) == stage \in {"ACCEPTED", "READING", "HANDLING", "ENDING"}

\* A step of a thread, or of the accept loop with the connection it has, gives the
\* slot back exactly if the connection gives it up.
LEMMA ThreadStep ==
  ASSUME SlotInv, NEW c \in Conns, NEW v \in [stage : Stages, request : Requests \cup {None}],
         v.stage \notin {"QUEUED", "ACCEPTED", "REJECTED"},
         conn[c].stage \notin {"FREE", "QUEUED"},
         conn' = [conn EXCEPT ![c] = v],
         UNCHANGED <<serving, backlog, stops>>,
         free' = IF HoldsSlot(conn[c].stage) /\ ~HoldsSlot(v.stage) THEN free + 1 ELSE free,
         HoldsSlot(v.stage) => HoldsSlot(conn[c].stage)
  PROVE  SlotInv'
  <1>1. ServerTypes /\ free \in Nat
    BY WebDemoAssumption DEF SlotInv, ServerTypes
  <1>2. Waiting'
    <2>1. {d \in Conns : conn'[d].stage = "QUEUED"} = {d \in Conns : conn[d].stage = "QUEUED"}
      BY <1>1 DEF ServerTypes
    <2> QED BY <2>1 DEF SlotInv, Waiting
  <1>3. Alone'
    BY DEF SlotInv, ServerTypes, Alone, Loop
  <1>4. Counted'
    <2>1. CASE HoldsSlot(v.stage)
      <3>1. Held' = Held
        BY <1>1, <2>1, HeldAfter DEF HoldsSlot, Held
      <3> QED BY <2>1, <3>1 DEF SlotInv, Counted
    <2>2. CASE ~HoldsSlot(v.stage) /\ ~HoldsSlot(conn[c].stage)
      <3>1. Held' = Held
        BY <1>1, <2>2, HeldAfter DEF HoldsSlot, Held
      <3> QED BY <2>2, <3>1 DEF SlotInv, Counted
    <2>3. CASE ~HoldsSlot(v.stage) /\ HoldsSlot(conn[c].stage)
      <3>1. Held' = Held \ {c} /\ c \in Held
        BY <1>1, <2>3, HeldAfter DEF HoldsSlot, Held
      <3>2. Cardinality(Held') = Cardinality(Held) - 1
        BY <3>1, HeldIsFinite, FS_RemoveElement
      <3>3. free' = free + 1
        BY <2>3
      <3> QED BY <1>1, <3>2, <3>3, HeldIsFinite DEF SlotInv, Counted
    <2> QED BY <2>1, <2>2, <2>3
  <1>5. free' \in 0..MaxSlots
    <2>1. free' \in Nat
      BY <1>1
    <2> QED BY <1>4, <2>1, HeldIsFinite, WebDemoAssumption DEF Counted
  <1> QED BY <1>1, <1>2, <1>3, <1>4, <1>5 DEF SlotInv, ServerTypes

\* A new connection joins the backlog and takes no slot.
LEMMA ConnectStep ==
  ASSUME SlotInv, NEW c \in Conns, NEW v \in [stage : Stages, request : Requests \cup {None}],
         v.stage = "QUEUED", conn[c].stage = "FREE",
         conn' = [conn EXCEPT ![c] = v], backlog' = Append(backlog, c),
         UNCHANGED <<serving, free, stops>>
  PROVE  SlotInv'
  <1>1. ServerTypes
    BY DEF SlotInv
  <1>2. ServerTypes'
    BY <1>1 DEF ServerTypes
  <1>3. Alone'
    BY DEF SlotInv, ServerTypes, Alone, Loop
  <1>4. Held' = Held
    BY <1>1, HeldAfter DEF Held
  <1>5. Waiting'
    <2>1. Len(backlog') = Len(backlog) + 1 /\ Len(backlog) \in Nat
      BY <1>1 DEF ServerTypes
    <2>2. \A i \in 1..Len(backlog') :
            backlog'[i] = IF i \in 1..Len(backlog) THEN backlog[i] ELSE c
      BY <1>1 DEF ServerTypes
    <2>3. \A i \in 1..Len(backlog) : backlog[i] # c
      BY DEF SlotInv, Waiting
    <2>4. {backlog'[i] : i \in 1..Len(backlog')} = {backlog[i] : i \in 1..Len(backlog)} \cup {c}
      BY <2>1, <2>2
    <2>5. {d \in Conns : conn'[d].stage = "QUEUED"}
            = {d \in Conns : conn[d].stage = "QUEUED"} \cup {c}
      BY <1>1 DEF ServerTypes
    <2>6. \A i, j \in 1..Len(backlog') : backlog'[i] = backlog'[j] => i = j
      BY <2>1, <2>2, <2>3 DEF SlotInv, Waiting
    <2> QED BY <2>4, <2>5, <2>6 DEF SlotInv, Waiting
  <1> QED BY <1>2, <1>3, <1>4, <1>5 DEF SlotInv, Counted

\* The accept loop takes the first connection of the backlog, with a slot or without.
LEMMA AcceptStep ==
  ASSUME SlotInv, Accept
  PROVE  SlotInv'
  <1> DEFINE c == Head(backlog)
             s == IF free > 0 THEN "ACCEPTED" ELSE "REJECTED"
             v == [stage |-> s, request |-> conn[c].request]
  <1>1. /\ ServerTypes /\ free \in Nat
        /\ c \in Conns /\ c = backlog[1] /\ Len(backlog) \in Nat \ {0} /\ backlog' = Tail(backlog)
    BY WebDemoAssumption DEF SlotInv, ServerTypes, Accept
  <1>2. conn[c].stage = "QUEUED"
    BY <1>1 DEF SlotInv, Waiting
  <1>3. conn' = [conn EXCEPT ![c] = v]
    BY <1>1 DEF Accept, To, ServerTypes
  <1>4. v \in [stage : Stages, request : Requests \cup {None}]
    BY <1>1 DEF ServerTypes, Stages
  <1>5. Alone'
    <2> HIDE DEF c, v
    <2>1. Loop' \subseteq Loop \cup {c}
      BY <1>1, <1>3 DEF Loop, ServerTypes
    <2>2. Loop = {}
      BY DEF Accept
    <2> QED BY <2>1, <2>2 DEF Alone
  <1>6. Waiting'
    <2>1. Len(backlog') = Len(backlog) - 1 /\ \A i \in 1..Len(backlog') : backlog'[i] = backlog[i + 1]
      BY <1>1 DEF ServerTypes
    <2>2. \A i, j \in 1..Len(backlog') : backlog'[i] = backlog'[j] => i = j
      BY <1>1, <2>1 DEF SlotInv, Waiting
    <2>3. \A i \in 1..Len(backlog) : backlog[i] = c => i = 1
      BY <1>1 DEF SlotInv, Waiting
    <2>4. {backlog'[i] : i \in 1..Len(backlog')} = {backlog[i] : i \in 1..Len(backlog)} \ {c}
      <3>1. ASSUME NEW i \in 1..Len(backlog')
            PROVE  backlog'[i] \in {backlog[j] : j \in 1..Len(backlog)} \ {c}
        BY <1>1, <2>1, <2>3
      <3>2. ASSUME NEW j \in 1..Len(backlog), backlog[j] # c
            PROVE  backlog[j] \in {backlog'[i] : i \in 1..Len(backlog')}
        <4>1. j # 1 /\ j - 1 \in 1..Len(backlog') /\ backlog'[j - 1] = backlog[j]
          BY <1>1, <2>1, <3>2
        <4> QED BY <4>1
      <3> QED BY <3>1, <3>2
    <2>5. {d \in Conns : conn'[d].stage = "QUEUED"}
            = {d \in Conns : conn[d].stage = "QUEUED"} \ {c}
      BY <1>1, <1>3 DEF ServerTypes
    <2> QED BY <2>2, <2>4, <2>5 DEF SlotInv, Waiting
  <1>7. Counted'
    <2>1. CASE free > 0
      <3>1. free' = free - 1 /\ v.stage = "ACCEPTED"
        BY <1>1, <2>1 DEF Accept
      <3>2. Held' = Held \cup {c} /\ c \notin Held
        BY <1>1, <1>2, <1>3, <3>1, HeldAfter DEF Held
      <3>3. Cardinality(Held') = Cardinality(Held) + 1
        BY <3>2, HeldIsFinite, FS_AddElement
      <3> QED BY <1>1, <3>1, <3>3, HeldIsFinite, WebDemoAssumption DEF SlotInv, Counted
    <2>2. CASE free = 0
      <3>1. free' = free /\ v.stage = "REJECTED"
        BY <1>1, <2>2 DEF Accept
      <3>2. Held' = Held
        BY <1>1, <1>2, <1>3, <3>1, HeldAfter DEF Held
      <3> QED BY <3>1, <3>2 DEF SlotInv, Counted
    <2> QED BY <1>1, <2>1, <2>2
  <1>8. free' \in 0..MaxSlots
    BY <1>1, WebDemoAssumption DEF Accept, ServerTypes
  <1>9. backlog' \in Seq(Conns)
    BY <1>1 DEF ServerTypes
  <1> QED BY <1>1, <1>3, <1>4, <1>5, <1>6, <1>7, <1>8, <1>9 DEF SlotInv, ServerTypes, Accept

\* A server that has just been started has all its slots.
LEMMA EmptyServer ==
  ASSUME Init
  PROVE  SlotInv
  <1>1. /\ free = MaxSlots /\ MaxSlots \in Nat /\ backlog = <<>> /\ serving = TRUE
        /\ conn = [c \in Conns |-> Unused] /\ stops \in 0..MaxStops
    BY WebDemoAssumption DEF Init
  <1>2. \A c \in Conns : conn[c] = Unused /\ conn[c].stage = "FREE"
    BY <1>1 DEF Unused
  <1>3. Held = {} /\ Cardinality(Held) = 0
    BY <1>2, FS_EmptySet DEF Held
  <1>4. ServerTypes
    BY <1>1 DEF ServerTypes, Unused, Stages
  <1>5. Waiting
    BY <1>1, <1>2 DEF Waiting
  <1>6. Alone
    BY <1>2 DEF Alone, Loop
  <1>7. Counted
    BY <1>1, <1>3 DEF Counted
  <1> QED BY <1>4, <1>5, <1>6, <1>7 DEF SlotInv

\* A server that has stopped has all its slots.
LEMMA StopStep ==
  ASSUME SlotInv, Stop
  PROVE  SlotInv'
  <1>1. /\ free' = MaxSlots /\ MaxSlots \in Nat /\ backlog' = <<>>
        /\ conn' = [c \in Conns |-> Unused] /\ stops' \in 0..MaxStops
    BY WebDemoAssumption DEF Stop, SlotInv, ServerTypes
  <1>0. serving' \in BOOLEAN
    BY Zenon DEF Stop
  <1>2. \A c \in Conns : conn'[c] = Unused /\ conn'[c].stage = "FREE"
    BY <1>1 DEF Unused
  <1>3. Held' = {} /\ Cardinality(Held') = 0
    BY <1>2, FS_EmptySet DEF Held
  <1>4. ServerTypes'
    BY <1>0, <1>1 DEF ServerTypes, Unused, Stages
  <1>5. Waiting'
    BY <1>1, <1>2 DEF Waiting
  <1>6. Alone'
    BY <1>2 DEF Alone, Loop
  <1>7. Counted'
    BY <1>1, <1>3 DEF Counted
  <1> QED BY <1>4, <1>5, <1>6, <1>7 DEF SlotInv

\* A step that leaves the semaphore, the backlog and the connections alone.
LEMMA StillServer ==
  ASSUME SlotInv, UNCHANGED <<free, backlog, conn, stops>>, serving' \in BOOLEAN
  PROVE  SlotInv'
  <1>1. ServerTypes'
    BY DEF SlotInv, ServerTypes
  <1>2. Waiting'
    BY DEF SlotInv, Waiting
  <1>3. Counted'
    BY DEF SlotInv, Counted, Held
  <1>4. Alone'
    BY DEF SlotInv, Alone, Loop
  <1> QED BY <1>1, <1>2, <1>3, <1>4 DEF SlotInv

\* A thread goes from one stage to the next and keeps its slot.
LEMMA ThreadGoesOn ==
  ASSUME SlotInv, NEW c \in Conns, NEW s \in {"READING", "HANDLING", "ENDING"},
         conn[c].stage \in {"ACCEPTED", "READING", "HANDLING"}, To(c, s),
         UNCHANGED <<serving, free, backlog, stops>>
  PROVE  SlotInv'
  <1> DEFINE v == [stage |-> s, request |-> conn[c].request]
  <1>0. ServerTypes
    BY DEF SlotInv
  <1>1. conn' = [conn EXCEPT ![c] = v]
    <2>1. conn[c] \in [stage : Stages, request : Requests \cup {None}]
      BY <1>0 DEF ServerTypes
    <2>2. [conn[c] EXCEPT !.stage = s] = v
      BY <2>1
    <2> QED BY <1>0, <2>2 DEF ServerTypes, To
  <1>2. v \in [stage : Stages, request : Requests \cup {None}]
    BY DEF SlotInv, ServerTypes, Stages
  <1>3. v.stage = s
    OBVIOUS
  <1> HIDE DEF v
  <1> QED BY <1>1, <1>2, <1>3, ThreadStep DEF HoldsSlot

\* Every step keeps the slots in order.
LEMMA SlotStep ==
  ASSUME SlotInv, request \in Requests \cup {None}, Next
  PROVE  SlotInv'
  <1> DEFINE Record == [stage : Stages, request : Requests \cup {None}]
  <1>1. ServerTypes /\ Unused \in Record /\ Unused.stage = "FREE"
    BY DEF SlotInv, Unused, Stages
  <1>2. CASE Accept
    BY <1>2, AcceptStep
  <1>3. CASE Stop
    BY <1>3, StopStep
  <1>4. CASE Restart
    BY <1>4, StillServer DEF Restart
  <1>5. ASSUME NEW c \in Conns, Progress(c) PROVE SlotInv'
    <2>1. CASE StartThread(c)
      BY <2>1, ThreadGoesOn DEF StartThread
    <2>2. CASE FailToStart(c)
      BY <1>1, <2>2, ThreadStep DEF FailToStart, HoldsSlot
    <2>3. CASE RejectBusy(c)
      BY <1>1, <2>3, ThreadStep DEF RejectBusy, HoldsSlot
    <2>4. CASE ReadTimeout(c)
      BY <2>4, ThreadGoesOn DEF ReadTimeout
    <2>5. CASE Handle(c)
      BY <2>5, ThreadGoesOn DEF Handle
    <2>6. CASE Release(c)
      BY <1>1, <2>6, ThreadStep DEF Release, HoldsSlot
    <2> QED BY <1>5, <2>1, <2>2, <2>3, <2>4, <2>5, <2>6 DEF Progress
  <1>6. ASSUME NEW c \in Conns, ReadRequest(c) PROVE SlotInv'
    BY <1>6, ThreadGoesOn DEF ReadRequest
  <1>7. ASSUME NEW c \in Conns, ConnectOther(c) PROVE SlotInv'
    <2>1. [stage |-> "QUEUED", request |-> None] \in Record
      BY DEF Stages
    <2> QED BY <1>7, <2>1, ConnectStep DEF ConnectOther
  <1>8. ASSUME NEW c \in Conns, Connect(c) PROVE SlotInv'
    <2>1. [stage |-> "QUEUED", request |-> request] \in Record
      BY DEF Stages
    <2> QED BY <1>8, <2>1, ConnectStep DEF Connect
  <1>9. ASSUME UNCHANGED server PROVE SlotInv'
    BY <1>1, <1>9, StillServer DEF server, ServerTypes
  <1> HIDE DEF Record
  <1> QED BY <1>2, <1>3, <1>4, <1>5, <1>6, <1>7, <1>8, <1>9
          DEF Next, RunSource, Replay, Select, RunSelected, ConnectionRefused, Receive, Abort
-----------------------------------------------------------------------------
(* The page.                                                               *)

\* The answer to a request for a run is that run with its own team, or a failure.
LEMMA RunAnswers ==
  ASSUME NEW q \in Requests, NEW a \in {Failed, Answer(q)}, a.ok
  PROVE  /\ q.path # "replay"
         /\ q.path = "catalog" => a.default = Default
         /\ q.path = "run" => a.run \in LegacyRuns /\ a.team = Team(a.run) /\ a.run.of \in Mutations
         /\ q.path = "source" => a.run = Run("SOURCE", Pack) /\ a.team = Team(a.run)
  <1>1. a = Answer(q) /\ a # Failed
    BY DEF Failed
  <1>2. CASE q.path = "catalog"
    BY <1>1, <1>2 DEF Answer
  <1>3. CASE q.path = "run"
    <2>1. a = RunPayload(q.mutation)
      BY <1>1, <1>3 DEF Answer
    <2>2. q.mutation \in Mutations /\ a = RunAnswer(Run("LEGACY", q.mutation))
      BY <1>1, <2>1 DEF RunPayload
    <2> DEFINE r == Run("LEGACY", q.mutation)
    <2>3. r \in LegacyRuns /\ r.of = q.mutation
      BY <2>2 DEF LegacyRuns, Run
    <2>4. a = [ok |-> TRUE, run |-> r, team |-> Team(r)]
      BY <1>1, <2>2 DEF RunAnswer
    <2> HIDE DEF r
    <2> QED BY <1>3, <2>2, <2>3, <2>4
  <1>4. CASE q.path = "source"
    <2>1. a = SourceRunPayload
      BY <1>1, <1>4 DEF Answer
    <2>2. a = [ok |-> TRUE, run |-> Run("SOURCE", Pack), team |-> Team(Run("SOURCE", Pack))]
      BY <1>1, <2>1 DEF SourceRunPayload, RunAnswer
    <2> QED BY <1>4, <2>2
  <1>5. CASE q.path \notin {"catalog", "run", "source"}
    BY <1>1, <1>5 DEF Answer, ReplayPayload
  <1> QED BY <1>2, <1>3, <1>4, <1>5

\* A page that waits for an answer is bound to no run.
LEMMA PendingPage ==
  ASSUME PanelInv, NEW m \in Mutations \cup {None}, MarkPending(m),
         loaded' \in BOOLEAN, busy' \in BOOLEAN
  PROVE  PanelInv' /\ runId' = None /\ mutation' = None
  <1>1. /\ selected' \in Mutations \cup {None} /\ mutation' = None /\ runId' = None
        /\ page'.kind = "WAITING" /\ page'.run = None
    BY DEF MarkPending, Chosen, Pending
  <1> QED BY <1>1 DEF PanelInv

\* A step that leaves the panel but for busy, or takes the binding away.
LEMMA PanelStays ==
  ASSUME PanelInv, UNCHANGED <<loaded, selected, page>>, busy' \in BOOLEAN,
         \/ UNCHANGED <<mutation, runId>>
         \/ mutation' = None /\ runId' = None
  PROVE  PanelInv'
  BY DEF PanelInv

\* The answers the page gets keep the page and its binding together.
LEMMA ReceiveStep ==
  ASSUME PanelInv, WireInv, Receive
  PROVE  PanelInv'
  <1>1. request \in Requests /\ mail \in {Failed, Answer(request)}
    BY DEF Receive, WireInv
  <1>2. CASE ReceiveCatalog
    <2>1. mail.default = Default
      BY <1>1, <1>2, RunAnswers DEF ReceiveCatalog
    <2>2. Default \in Mutations \cup {None} /\ MarkPending(Default)
      BY <1>2, <2>1, WebDemoAssumption DEF ReceiveCatalog
    <2>3. loaded' \in BOOLEAN /\ busy' \in BOOLEAN
      BY <1>2 DEF ReceiveCatalog, Ask
    <2> QED BY <2>2, <2>3, PendingPage
  <1>3. CASE ReceiveRun
    <2>1. mail.run \in LegacyRuns /\ mail.team = Team(mail.run) /\ mail.run.of \in Mutations
      BY <1>1, <1>3, RunAnswers DEF ReceiveRun
    <2>2. /\ page'.kind = "RUN" /\ page'.run = mail.run /\ page'.team = mail.team
          /\ selected' \in {mail.run.of, None} /\ mutation' = mail.run.of /\ runId' = mail.run
          /\ busy' \in BOOLEAN /\ loaded' = loaded
      BY <1>3 DEF ReceiveRun, Chosen, Settle
    <2>3. mail.run \in Runs
      BY <2>1 DEF LegacyRuns, Runs
    <2> QED BY <2>1, <2>2, <2>3 DEF PanelInv
  <1>4. CASE ReceiveSource
    <2>1. mail.run = Run("SOURCE", Pack) /\ mail.team = Team(mail.run)
      BY <1>1, <1>4, RunAnswers DEF ReceiveSource
    <2>2. /\ page'.kind = "SOURCE" /\ page'.run = mail.run /\ page'.team = mail.team
          /\ busy' \in BOOLEAN /\ UNCHANGED <<loaded, selected, mutation, runId>>
      BY <1>4 DEF ReceiveSource, Settle
    <2>3. mail.run \in Runs
      BY <2>1 DEF Runs
    <2>4. runId = None
      BY <1>1, <1>4, NoneAssumption DEF ReceiveSource, WireInv
    <2> QED BY <2>1, <2>2, <2>3, <2>4 DEF PanelInv
  <1>5. CASE ReceiveError
    BY <1>5, PanelStays DEF ReceiveError, Settle
  <1> QED BY <1>2, <1>3, <1>4, <1>5 DEF Receive

\* Every step keeps the page and its binding together.
LEMMA PanelStep ==
  ASSUME PanelInv, WireInv, Next
  PROVE  PanelInv'
  <1>1. ASSUME UNCHANGED panel PROVE PanelInv'
    BY <1>1 DEF panel, PanelInv
  <1>2. ASSUME NEW m \in Mutations, Select(m) PROVE PanelInv'
    <2>1. loaded' \in BOOLEAN /\ busy' \in BOOLEAN
      BY <1>2 DEF Select, PanelInv
    <2> QED BY <1>2, <2>1, PendingPage DEF Select
  <1>3. ASSUME NEW m \in Mutations \cup {None}, RunSelected(m) PROVE PanelInv'
    <2>1. loaded' \in BOOLEAN /\ busy' \in BOOLEAN
      BY <1>3 DEF RunSelected, Ask, PanelInv
    <2> QED BY <1>3, <2>1, PendingPage DEF RunSelected
  <1>4. CASE RunSource
    BY <1>4, PanelStays DEF RunSource, Ask
  <1>5. CASE Replay
    BY <1>5, PanelStays DEF Replay, Ask
  <1>6. CASE Receive
    BY <1>6, ReceiveStep
  <1>7. CASE Abort
    BY <1>7, PanelStays DEF Abort, Settle
  <1> QED BY <1>1, <1>2, <1>3, <1>4, <1>5, <1>6, <1>7
          DEF Next, Accept, Stop, Restart, Progress, StartThread, FailToStart, RejectBusy,
              ReadTimeout, Handle, Release, ReadRequest, ConnectOther, Connect, ConnectionRefused

-----------------------------------------------------------------------------
(* The request and its answer.                                             *)

\* Assigning the stage of a connection leaves its request and the others.
LEMMA StageStep ==
  ASSUME ServerTypes, NEW c \in Conns, NEW s, To(c, s)
  PROVE  /\ \A d \in Conns \ {c} : conn'[d] = conn[d]
         /\ conn'[c].stage = s /\ conn'[c].request = conn[c].request
  <1>1. conn[c] \in [stage : Stages, request : Requests \cup {None}]
    BY DEF ServerTypes
  <1>2. conn'[c] = [conn[c] EXCEPT !.stage = s]
    BY DEF ServerTypes, To
  <1>3. \A d \in Conns \ {c} : conn'[d] = conn[d]
    BY DEF ServerTypes, To
  <1> QED BY <1>1, <1>2, <1>3

\* A connection goes on without an answer: the page still waits on it, or never did.
LEMMA GoingOn ==
  ASSUME WireInv, NEW c \in Conns,
         \A d \in Conns \ {c} : conn'[d] = conn[d], UNCHANGED <<panel, wire>>,
         active = c =>
           conn'[c].request = conn[c].request /\ conn'[c].stage \notin {"FREE", "ENDING"}
  PROVE  WireInv'
  BY DEF WireInv, wire, panel

\* A connection that ends delivers what its request asked for, or a failure.
LEMMA Delivering ==
  ASSUME WireInv, NEW c \in Conns,
         \A d \in Conns \ {c} : conn'[d] = conn[d], UNCHANGED <<panel, request>>,
         \/ Deliver(c, Failed)
         \/ conn[c].request # None /\ Deliver(c, Answer(conn[c].request))
  PROVE  WireInv'
  <1>1. CASE active = c
    <2>1. active # None /\ request # None /\ conn[c].request = request
      BY <1>1, NoneAssumption DEF WireInv
    <2>2. mail' \in {Failed, Answer(request)} /\ active' = None
      BY <1>1, <2>1 DEF Deliver
    <2> QED BY <2>1, <2>2 DEF WireInv, panel
  <1>2. CASE active # c
    <2>1. active # None => conn'[active] = conn[active]
      BY <1>2 DEF WireInv
    <2> QED BY <1>2, <2>1 DEF Deliver, WireInv, panel
  <1> QED BY <1>1, <1>2

\* The page asks for something while it asks for nothing.
LEMMA Asking ==
  ASSUME WireInv, ~busy, NEW q \in Requests, Ask(q), UNCHANGED <<active, mail>>,
         q.path = "replay" => q.run = runId' /\ q.mutation = mutation' /\ mutation' = selected',
         q.path = "source" => runId' = None
  PROVE  WireInv'
  <1>1. request = None /\ active = None /\ mail = None
    BY DEF WireInv
  <1>2. request' = q /\ busy' = TRUE /\ active' = None /\ mail' = None
    BY <1>1 DEF Ask
  <1> QED BY <1>2 DEF WireInv

\* The thread of a connection, and the accept loop that refuses it.
LEMMA WireProgress ==
  ASSUME WireInv, ServerTypes, NEW c \in Conns, Progress(c)
  PROVE  WireInv'
  <1>1. CASE StartThread(c)
    <2>1. To(c, "READING") /\ UNCHANGED <<panel, wire>>
      BY <1>1 DEF StartThread
    <2> QED BY <2>1, StageStep, GoingOn
  <1>2. ASSUME conn' = [conn EXCEPT ![c] = Unused]
        PROVE  \A d \in Conns \ {c} : conn'[d] = conn[d]
    BY <1>2 DEF ServerTypes
  <1>3. CASE FailToStart(c)
    BY <1>2, <1>3, Delivering DEF FailToStart
  <1>4. CASE RejectBusy(c)
    BY <1>2, <1>4, Delivering DEF RejectBusy
  <1>5. CASE ReadTimeout(c)
    <2>1. To(c, "ENDING") /\ Deliver(c, Failed) /\ UNCHANGED <<panel, request>>
      BY <1>5 DEF ReadTimeout
    <2> QED BY <2>1, StageStep, Delivering
  <1>6. CASE Handle(c)
    <2>1. To(c, "ENDING") /\ UNCHANGED <<panel, request>>
      BY <1>6 DEF Handle
    <2>2. \A d \in Conns \ {c} : conn'[d] = conn[d]
      BY <2>1, StageStep
    <2>3. CASE Deliver(c, Failed)
      BY <2>1, <2>2, <2>3, Delivering
    <2>4. CASE conn[c].request # None /\ Deliver(c, Answer(conn[c].request))
      BY <2>1, <2>2, <2>4, Delivering
    <2> QED BY <1>6, <2>3, <2>4 DEF Handle
  <1>7. CASE Release(c)
    <2>1. active # c
      BY <1>7, NoneAssumption DEF Release, WireInv
    <2> QED BY <1>2, <1>7, <2>1, GoingOn DEF Release
  <1> QED BY <1>1, <1>3, <1>4, <1>5, <1>6, <1>7 DEF Progress

\* What the page does about its request and the answer.
LEMMA WirePage ==
  ASSUME WireInv, PanelInv,
         \/ RunSource \/ Replay \/ ConnectionRefused \/ Receive \/ Abort
         \/ \E m \in Mutations : Select(m)
         \/ \E m \in Mutations \cup {None} : RunSelected(m)
  PROVE  WireInv'
  <1>1. CASE RunSource
    <2>1. [path |-> "source"] \in Requests
      BY DEF Requests
    <2> QED BY <1>1, <2>1, Asking DEF RunSource
  <1>2. CASE Replay
    <2> DEFINE q == [path |-> "replay", mutation |-> mutation, run |-> runId]
    <2>1. runId = Run("LEGACY", Default) /\ mutation = Default /\ selected = mutation
      BY <1>2 DEF Replay, ReplayIsBound, PanelInv, LegacyRuns, Run
    <2>2. q \in Requests
      BY <2>1 DEF Requests
    <2>3. ~busy /\ Ask(q) /\ UNCHANGED <<active, mail, runId, mutation, selected>>
      BY <1>2 DEF Replay, ReplayIsBound
    <2>4. q.path = "replay" /\ q.run = runId' /\ q.mutation = mutation' /\ mutation' = selected'
      BY <2>1, <2>3
    <2> HIDE DEF q
    <2> QED BY <2>2, <2>3, <2>4, Asking
  <1>3. CASE ConnectionRefused
    BY <1>3 DEF ConnectionRefused, WireInv, server, panel
  <1>4. CASE Receive
    <2>1. mail # None /\ mail' = None /\ active = None /\ active' = None /\ request # None
      BY <1>4 DEF Receive, WireInv
    <2>2. CASE ReceiveCatalog
      <3>1. [path |-> "run", mutation |-> mail.default] \in Requests
        <4>1. request \in Requests /\ mail \in {Failed, Answer(request)}
          BY <2>1 DEF WireInv
        <4>2. mail.default = Default
          BY <2>2, <4>1, RunAnswers DEF ReceiveCatalog
        <4> QED BY <4>2, WebDemoAssumption DEF Requests
      <3> QED BY <2>1, <2>2, <3>1 DEF ReceiveCatalog, Ask, WireInv
    <2>3. CASE ReceiveRun \/ ReceiveSource \/ ReceiveError
      <3>1. request' = None
        BY <2>3 DEF ReceiveRun, ReceiveSource, ReceiveError, Settle
      <3> QED BY <2>1, <3>1 DEF WireInv
    <2> QED BY <1>4, <2>2, <2>3 DEF Receive
  <1>5. CASE Abort
    BY <1>5 DEF Abort, Settle, WireInv
  <1>6. ASSUME NEW m \in Mutations, Select(m) PROVE WireInv'
    <2>1. request = None /\ active = None /\ mail = None
      BY <1>6 DEF Select, WireInv
    <2> QED BY <1>6, <2>1 DEF Select, WireInv, wire
  <1>7. ASSUME NEW m \in Mutations \cup {None}, RunSelected(m) PROVE WireInv'
    <2>1. [path |-> "run", mutation |-> m] \in Requests
      BY DEF Requests
    <2> QED BY <1>7, <2>1, Asking DEF RunSelected
  <1> QED BY <1>1, <1>2, <1>3, <1>4, <1>5, <1>6, <1>7

\* Every step keeps request, connection and answer together.
LEMMA WireStep ==
  ASSUME WireInv, PanelInv, ServerTypes, Next
  PROVE  WireInv'
  <1>1. CASE Accept
    <2> DEFINE c == Head(backlog)
    <2>1. c \in Conns
      BY <1>1 DEF Accept, ServerTypes
    <2>2. PICK s \in {"ACCEPTED", "REJECTED"} : To(c, s)
      BY <1>1 DEF Accept
    <2>3. UNCHANGED <<panel, wire>>
      BY <1>1 DEF Accept
    <2> HIDE DEF c
    <2> QED BY <2>1, <2>2, <2>3, StageStep, GoingOn
  <1>2. CASE Stop
    BY <1>2 DEF Stop, WireInv, panel
  <1>3. CASE Restart
    BY <1>3 DEF Restart, WireInv, panel, wire
  <1>4. ASSUME NEW c \in Conns, Progress(c) PROVE WireInv'
    BY <1>4, WireProgress
  <1>5. ASSUME NEW c \in Conns, ReadRequest(c) PROVE WireInv'
    <2>1. To(c, "HANDLING") /\ UNCHANGED <<panel, wire>>
      BY <1>5 DEF ReadRequest
    <2> QED BY <2>1, StageStep, GoingOn
  <1>6. ASSUME NEW c \in Conns, ConnectOther(c) PROVE WireInv'
    <2>1. active # c
      BY <1>6, NoneAssumption DEF ConnectOther, WireInv
    <2> QED BY <1>6, <2>1, GoingOn DEF ConnectOther, ServerTypes
  <1>7. ASSUME NEW c \in Conns, Connect(c) PROVE WireInv'
    <2>1. conn'[c] = [stage |-> "QUEUED", request |-> request]
      BY <1>7 DEF Connect, ServerTypes
    <2> QED BY <1>7, <2>1 DEF Connect, WireInv, panel
  <1> QED BY <1>1, <1>2, <1>3, <1>4, <1>5, <1>6, <1>7, WirePage DEF Next

-----------------------------------------------------------------------------
(* The theorems.                                                           *)

\* The slots, the page and the request of the page are in order in every state.
THEOREM DemoInvariance == Spec => []Inv
  <1>1. Init => Inv
    <2> SUFFICES ASSUME Init PROVE Inv
      OBVIOUS
    <2>1. PanelInv
      BY DEF Init, PanelInv, NoRun
    <2>2. WireInv
      BY DEF Init, WireInv, Requests
    <2> QED BY <2>1, <2>2, EmptyServer DEF Inv
  <1>2. Inv /\ [Next]_vars => Inv'
    <2> SUFFICES ASSUME Inv, [Next]_vars PROVE Inv'
      OBVIOUS
    <2>1. ServerTypes /\ request \in Requests \cup {None}
      BY DEF Inv, SlotInv, WireInv
    <2>2. CASE Next
      BY <2>1, <2>2, SlotStep, PanelStep, WireStep DEF Inv
    <2>3. CASE UNCHANGED vars
      <3>1. /\ UNCHANGED <<serving, free, backlog, conn, stops>>
            /\ UNCHANGED <<loaded, selected, mutation, runId, busy, page, request, active, mail>>
        BY <2>3 DEF vars, server, panel, wire
      <3>2. SlotInv'
        BY <2>1, <3>1, StillServer DEF Inv, ServerTypes
      <3>3. PanelInv' /\ WireInv'
        BY <3>1 DEF Inv, PanelInv, WireInv
      <3> QED BY <3>2, <3>3 DEF Inv
    <2> QED BY <2>2, <2>3
  <1> QED BY <1>1, <1>2, PTL DEF Spec

\* The server, the page and the request between them have their types.
THEOREM DemoTypes == Spec => []TypeOK
  <1>1. Inv => TypeOK
    <2> SUFFICES ASSUME Inv PROVE TypeOK
      OBVIOUS
    <2>1. LegacyRuns \subseteq Runs
      BY DEF LegacyRuns, Runs
    <2>2. mail \in {Answer(q) : q \in Requests} \cup {Failed, None}
      BY DEF Inv, WireInv
    <2> QED BY <2>1, <2>2 DEF Inv, SlotInv, ServerTypes, Stages, PanelInv, WireInv, TypeOK
  <1> QED BY <1>1, DemoInvariance, PTL

\* No slot is lost or given back twice, whatever its connection comes to
\* (web_demo.py:847-870), for any number of slots and connections.
THEOREM SlotsHold == Spec => []SlotsAreCounted
  <1>1. Inv => SlotsAreCounted
    BY DEF Inv, SlotInv, Waiting, Counted, Alone, SlotsAreCounted
  <1> QED BY <1>1, DemoInvariance, PTL

\* What the page shows is of one run, and a replay is about what it shows
\* (app.js:56-64, 142-343), for any catalog and any statuses.
THEOREM PageHolds == Spec => []PageIsOfOneRun
  <1>1. Inv => PageIsOfOneRun
    <2> SUFFICES ASSUME Inv PROVE PageIsOfOneRun
      OBVIOUS
    <2>1. ASSUME page.kind \in {"RUN", "SOURCE"}
          PROVE  /\ page.team.trace[4].input = <<"RUN", page.run>>
                 /\ page.team.trace[4].to = FinalState(page.run)
      <3>1. page.team = Team(page.run)
        BY <2>1 DEF Inv, PanelInv
      <3>2. page.team.trace[4].input = Handed(page.run)[4]
            /\ page.team.trace[4].to = FinalState(page.run)
        BY <3>1 DEF Team
      <3> QED BY <3>2 DEF Handed
    <2>2. page.kind = "RUN" => page.run.lane = "LEGACY" /\ selected \in {page.run.of, None}
      BY DEF Inv, PanelInv, LegacyRuns, Run
    <2>3. FinalState(page.run) = Ready => page.run.lane = "SOURCE" /\ page.run.status = "PASS"
      BY DEF FinalState, TeamStateForStatus, Ready, Blocked
    <2>4. request # None /\ request.path = "replay" =>
            /\ page.kind = "RUN" /\ request.run = page.run
            /\ request.mutation = page.run.of /\ request.mutation = selected
      <3> SUFFICES ASSUME request # None, request.path = "replay"
                   PROVE  /\ page.kind = "RUN" /\ request.run = page.run
                          /\ request.mutation = page.run.of /\ request.mutation = selected
        OBVIOUS
      <3>1. request.run = runId /\ request.mutation = mutation /\ mutation = selected
        BY DEF Inv, WireInv
      <3>2. request.run = Run("LEGACY", Default)
        BY DEF Inv, WireInv, Requests
      <3>3. runId # None
        BY <3>1, <3>2, NoneAssumption, WebDemoAssumption
      <3> QED BY <3>1, <3>3 DEF Inv, PanelInv
    <2> QED BY <2>1, <2>2, <2>3, <2>4 DEF PageIsOfOneRun
  <1> QED BY <1>1, DemoInvariance, PTL
=============================================================================
