------------------------------ MODULE WebDemo ------------------------------
(***************************************************************************)
(* The web demo: the page in the browser (app.js), the threading server    *)
(* with its request slots (web_demo.py) and the connections between them.  *)
(* Connections of others (tabs, probes, clients that stall) compete for    *)
(* the slots.  The server keeps nothing but the semaphore; an answer is a  *)
(* function of the request.                                                *)
(*                                                                         *)
(*   FREE -> QUEUED -> ACCEPTED -> READING -> HANDLING -> ENDING -> FREE   *)
(*               \---> REJECTED -> FREE                                    *)
(*                                                                         *)
(* ACCEPTED and REJECTED are steps of the accept loop, READING to ENDING   *)
(* those of the thread of a connection.                                    *)
(***************************************************************************)
EXTENDS AgentTeam, FiniteSets

CONSTANTS
  Conns,      \* bound: connections at a time
  MaxSlots,   \* max_concurrent_requests
  Mutations,  \* the mutations of the catalog
  Default,    \* default_mutation_id, which is also the one that can be replayed
  Status,     \* the status of the run of each mutation, and of the source pack
  MaxStops,   \* bound: stops of the server
  None

Pack == "CASE_BUILDER_SYNTHETIC"

ASSUME WebDemoAssumption ==
  /\ IsFiniteSet(Conns) /\ MaxSlots \in Nat \ {0} /\ MaxStops \in Nat
  /\ {"BASELINE", Default} \subseteq Mutations /\ Pack \notin Mutations
  /\ Status \in [Mutations \cup {Pack} -> CheckStatuses]

VARIABLES
  \* the server
  serving, free, backlog, conn, stops,
  \* the page
  loaded,    \* the catalog has been received
  selected,  \* value of mutation-select
  mutation,  \* state.currentMutationId
  runId,     \* state.currentRunId
  busy,      \* state.busy
  page,      \* what the result panel shows
  \* requestJSON: what is asked, on which connection, what came back
  request, active, mail

server == <<serving, free, backlog, conn, stops>>
panel == <<loaded, selected, mutation, runId, busy, page>>
wire == <<request, active, mail>>
vars == <<server, panel, wire>>

Run(lane, of) == [lane |-> lane, of |-> of, status |-> Status[of]]
Requests ==
  {[path |-> "catalog"]} \cup {[path |-> "run", mutation |-> m] : m \in Mutations \cup {None}}
    \cup {[path |-> "source"]}
    \cup {[path |-> "replay", mutation |-> Default, run |-> Run("LEGACY", Default)]}

\* None stands for nothing where there may be a connection, a scenario, a run, a
\* request or an answer.
ASSUME NoneAssumption ==
  /\ None \notin Conns /\ None \notin Mutations /\ None \notin Requests
  /\ \A of \in Mutations \cup {Pack}, lane \in {"LEGACY", "SOURCE"} : None # Run(lane, of)

(* The answers. *)

Failed == [ok |-> FALSE]  \* an error, a timeout, a refusal or no answer at all

\* Mutant: the team of the default scenario is made once and sent with every run.
RunAnswerOfDefault(run) ==
  [ok |-> TRUE, run |-> run, team |-> Team(Run("LEGACY", Default))]

\* The run and its team, whose constructor validates it.
RunAnswer(run) ==
  IF TeamIsAccepted(Team(run), run) THEN [ok |-> TRUE, run |-> run, team |-> Team(run)]
  ELSE Failed

\* run_payload; 400 for an unknown mutation_id
RunPayload(m) == IF m \in Mutations THEN RunAnswer(Run("LEGACY", m)) ELSE Failed

\* _source_pack_run_payload
SourceRunPayload == RunAnswer(Run("SOURCE", Pack))

\* replay_payload: 409 for every replay of the catalog.
ReplayPayload == Failed

Answer(q) ==
  IF q.path = "catalog" THEN [ok |-> TRUE, default |-> Default]
  ELSE IF q.path = "run" THEN RunPayload(q.mutation)
  ELSE IF q.path = "source" THEN SourceRunPayload
  ELSE ReplayPayload

(* The server. *)

Unused == [stage |-> "FREE", request |-> None]
Loop == {c \in Conns : conn[c].stage \in {"ACCEPTED", "REJECTED"}}
Held == {c \in Conns : conn[c].stage \in {"ACCEPTED", "READING", "HANDLING", "ENDING"}}

To(c, stage) == conn' = [conn EXCEPT ![c].stage = stage]

\* What the browser gets, if it still waits on this connection.
Deliver(c, answer) ==
  IF active = c THEN mail' = answer /\ active' = None ELSE UNCHANGED <<mail, active>>

\* process_request, up to the thread: the accept loop takes a slot or none.
Accept ==
  /\ serving /\ backlog # <<>> /\ Loop = {}
  /\ backlog' = Tail(backlog)
  /\ \/ free > 0 /\ free' = free - 1 /\ To(Head(backlog), "ACCEPTED")
     \/ free = 0 /\ UNCHANGED free /\ To(Head(backlog), "REJECTED")
  /\ UNCHANGED <<serving, stops, panel, wire>>

\* Mutant: the slot is taken by a thread that was never started.
FailToStartAndKeep(c) ==
  /\ conn[c].stage = "ACCEPTED"
  /\ conn' = [conn EXCEPT ![c] = Unused] /\ Deliver(c, Failed)
  /\ UNCHANGED <<serving, free, backlog, stops, panel, request>>

StartThread(c) ==
  /\ conn[c].stage = "ACCEPTED" /\ To(c, "READING")
  /\ UNCHANGED <<serving, free, backlog, stops, panel, wire>>

\* The thread cannot be started: the slot is given back, the socket closed.
FailToStart(c) ==
  /\ conn[c].stage = "ACCEPTED"
  /\ conn' = [conn EXCEPT ![c] = Unused] /\ free' = free + 1 /\ Deliver(c, Failed)
  /\ UNCHANGED <<serving, backlog, stops, panel, request>>

\* Mutant: a finally for both ways through process_request.
RejectBusyAndRelease(c) ==
  /\ conn[c].stage = "REJECTED"
  /\ conn' = [conn EXCEPT ![c] = Unused] /\ free' = free + 1 /\ Deliver(c, Failed)
  /\ UNCHANGED <<serving, backlog, stops, panel, request>>

\* _reject_busy, in the accept loop: 503, a bounded drain, close.
RejectBusy(c) ==
  /\ conn[c].stage = "REJECTED"
  /\ conn' = [conn EXCEPT ![c] = Unused] /\ Deliver(c, Failed)
  /\ UNCHANGED <<serving, free, backlog, stops, panel, request>>

\* Line, headers and body are there.
ReadRequest(c) ==
  /\ conn[c].stage = "READING" /\ To(c, "HANDLING")
  /\ UNCHANGED <<serving, free, backlog, stops, panel, wire>>

\* Mutant: setup sets no timeout.
WaitForPeer(c) ==
  /\ conn[c].stage = "READING"
  /\ UNCHANGED vars

\* setup gives the socket a timeout: the read ends in 408, or without an answer; so
\* it does when the peer has gone.
ReadTimeout(c) ==
  /\ conn[c].stage = "READING" /\ To(c, "ENDING") /\ Deliver(c, Failed)
  /\ UNCHANGED <<serving, free, backlog, stops, panel, request>>

\* do_GET and do_POST, and _send_bytes: what is sent to a peer that has gone is lost.
\* An exception the handler does not expect ends the thread without an answer.
Handle(c) ==
  /\ conn[c].stage = "HANDLING" /\ To(c, "ENDING")
  /\ \/ Deliver(c, IF conn[c].request = None THEN Failed ELSE Answer(conn[c].request))
     \/ Deliver(c, Failed)
  /\ UNCHANGED <<serving, free, backlog, stops, panel, request>>

\* The finally of process_request_thread.
Release(c) ==
  /\ conn[c].stage = "ENDING"
  /\ conn' = [conn EXCEPT ![c] = Unused] /\ free' = free + 1
  /\ UNCHANGED <<serving, backlog, stops, panel, wire>>

\* What the server does by itself; a peer need not send anything.
Progress(c) ==
  \/ StartThread(c) \/ FailToStart(c) \/ RejectBusy(c)
  \/ ReadTimeout(c) \/ Handle(c) \/ Release(c)

\* The process ends (its threads are daemons), and is started again.
Stop ==
  /\ serving /\ stops < MaxStops
  /\ serving' = FALSE /\ stops' = stops + 1
  /\ free' = MaxSlots /\ backlog' = <<>> /\ conn' = [c \in Conns |-> Unused]
  /\ IF active # None THEN mail' = Failed /\ active' = None ELSE UNCHANGED <<mail, active>>
  /\ UNCHANGED <<panel, request>>

Restart ==
  /\ ~serving /\ serving' = TRUE
  /\ UNCHANGED <<free, backlog, conn, stops, panel, wire>>

\* Somebody else connects, and may send nothing.
ConnectOther(c) ==
  /\ serving /\ conn[c].stage = "FREE"
  /\ conn' = [conn EXCEPT ![c] = [stage |-> "QUEUED", request |-> None]]
  /\ backlog' = Append(backlog, c)
  /\ UNCHANGED <<serving, free, stops, panel, wire>>

(* The page. *)

NoRun == [kind |-> "NONE", run |-> None, team |-> None]
Pending == [kind |-> "WAITING", run |-> None, team |-> None]

Ask(q) == request' = q /\ busy' = TRUE

\* Assigning to select.value: without the catalog there is no option to select.
Chosen(m) == IF loaded' THEN m ELSE None

\* markSelectionPending
MarkPending(m) ==
  /\ selected' = Chosen(m) /\ mutation' = None /\ runId' = None /\ page' = Pending

Select(m) ==
  /\ ~busy /\ loaded /\ m # selected
  /\ UNCHANGED loaded /\ MarkPending(m)
  /\ UNCHANGED <<busy, server, wire>>

\* runSelected: run-button and baseline-button.
RunSelected(m) ==
  /\ ~busy /\ m \in {selected, "BASELINE"}
  /\ UNCHANGED loaded /\ MarkPending(m) /\ Ask([path |-> "run", mutation |-> m])
  /\ UNCHANGED <<server, active, mail>>

\* Mutant: the old run stays bound while the page shows that of the source pack.
RunSourceUnderBinding ==
  /\ ~busy /\ Ask([path |-> "source"])
  /\ UNCHANGED <<loaded, selected, mutation, runId, page, server, active, mail>>

\* runSourceActual: the binding goes, the page stays until there is an answer.
RunSource ==
  /\ ~busy
  /\ mutation' = None /\ runId' = None /\ Ask([path |-> "source"])
  /\ UNCHANGED <<loaded, selected, page, server, active, mail>>

ReplayIsBound ==
  /\ ~busy /\ mutation = Default /\ mutation = selected /\ runId # None

Replay ==
  /\ ReplayIsBound
  /\ Ask([path |-> "replay", mutation |-> mutation, run |-> runId])
  /\ UNCHANGED <<loaded, selected, mutation, runId, page, server, active, mail>>

(* requestJSON *)

Connect(c) ==
  /\ request # None /\ active = None /\ mail = None
  /\ serving /\ conn[c].stage = "FREE"
  /\ conn' = [conn EXCEPT ![c] = [stage |-> "QUEUED", request |-> request]]
  /\ backlog' = Append(backlog, c) /\ active' = c
  /\ UNCHANGED <<serving, free, stops, panel, request, mail>>

ConnectionRefused ==
  /\ request # None /\ active = None /\ mail = None /\ ~serving
  /\ mail' = Failed
  /\ UNCHANGED <<server, panel, request, active>>

Settle == busy' = FALSE /\ request' = None

\* populateCatalog, and runSelected of the default while the page is busy.
ReceiveCatalog ==
  /\ request.path = "catalog" /\ mail.ok
  /\ loaded' = TRUE /\ MarkPending(mail.default)
  /\ Ask([path |-> "run", mutation |-> mail.default])

\* renderRun
ReceiveRun ==
  /\ request.path = "run" /\ mail.ok
  /\ UNCHANGED loaded /\ selected' = Chosen(mail.run.of)
  /\ mutation' = mail.run.of /\ runId' = mail.run
  /\ page' = [kind |-> "RUN", run |-> mail.run, team |-> mail.team]
  /\ Settle

\* Mutant: renderRun is reused for the answer of the source pack.
ReceiveSourceAsRun ==
  /\ request.path = "source" /\ mail.ok
  /\ mutation' = selected /\ runId' = mail.run
  /\ page' = [kind |-> "SOURCE", run |-> mail.run, team |-> mail.team]
  /\ Settle /\ UNCHANGED <<loaded, selected>>

ReceiveSource ==
  /\ request.path = "source" /\ mail.ok
  /\ page' = [kind |-> "SOURCE", run |-> mail.run, team |-> mail.team]
  /\ Settle /\ UNCHANGED <<loaded, selected, mutation, runId>>

\* The catch and finally of each handler: a notification, and no longer busy.
ReceiveError ==
  /\ ~mail.ok
  /\ Settle /\ UNCHANGED <<loaded, selected, mutation, runId, page>>

Receive ==
  /\ request # None /\ mail # None
  /\ ReceiveCatalog \/ ReceiveRun \/ ReceiveSource \/ ReceiveError
  /\ mail' = None
  /\ UNCHANGED <<server, active>>

\* Mutant: the handler ends early and stays busy.
AbortBusy ==
  /\ request # None /\ request' = None /\ active' = None /\ mail' = None
  /\ UNCHANGED <<panel, server>>

\* The timer of requestJSON: whatever comes later is not heard.
Abort ==
  /\ request # None
  /\ Settle /\ active' = None /\ mail' = None
  /\ UNCHANGED <<loaded, selected, mutation, runId, page, server>>

\* The server is up, and the page has just been loaded: start() asks for the catalog.
Init ==
  /\ serving = TRUE /\ free = MaxSlots /\ backlog = <<>> /\ conn = [c \in Conns |-> Unused]
  /\ stops = 0
  /\ loaded = FALSE /\ selected = None /\ mutation = None /\ runId = None /\ page = NoRun
  /\ busy = TRUE /\ request = [path |-> "catalog"] /\ active = None /\ mail = None

Next ==
  \/ Accept \/ Stop \/ Restart
  \/ \E c \in Conns : Progress(c) \/ ReadRequest(c) \/ ConnectOther(c) \/ Connect(c)
  \/ RunSource \/ Replay
  \/ \E m \in Mutations : Select(m)
  \/ \E m \in Mutations \cup {None} : RunSelected(m)
  \/ ConnectionRefused \/ Receive \/ Abort

Spec == Init /\ [][Next]_vars

\* The server's threads and its accept loop go on, reads end by their timeout, and
\* the browser's timer fires.  Users, other clients and restarts may do nothing.
FairSpec ==
  /\ Spec
  /\ WF_vars(Accept) /\ \A c \in Conns : WF_vars(Progress(c))
  /\ WF_vars(Receive \/ Abort)

(* Properties. *)

Runs == {Run("LEGACY", m) : m \in Mutations} \cup {Run("SOURCE", Pack)}

\* Type invariant of the server, the page and the request between them.
TypeOK ==
  /\ serving \in BOOLEAN /\ free \in 0..MaxSlots /\ stops \in 0..MaxStops
  /\ backlog \in Seq(Conns)
  /\ conn \in [Conns -> [stage : {"FREE", "QUEUED", "ACCEPTED", "REJECTED", "READING",
                                   "HANDLING", "ENDING"},
                          request : Requests \cup {None}]]
  /\ loaded \in BOOLEAN /\ busy \in BOOLEAN
  /\ {selected, mutation} \subseteq Mutations \cup {None} /\ runId \in Runs \cup {None}
  /\ page.kind \in {"NONE", "WAITING", "RUN", "SOURCE"} /\ page.run \in Runs \cup {None}
  /\ request \in Requests \cup {None} /\ active \in Conns \cup {None}
  /\ mail \in {Answer(q) : q \in Requests} \cup {Failed, None}

\* No slot is lost and none is given back twice, whichever way a request ends: no
\* thread, a read that times out, a peer that has gone, a handler that raises, a
\* refusal (web_demo.py:847-870).  The connections that wait are in the backlog, once.
SlotsAreCounted ==
  /\ free + Cardinality(Held) = MaxSlots
  /\ {backlog[i] : i \in 1..Len(backlog)} = {c \in Conns : conn[c].stage = "QUEUED"}
  /\ \A c, d \in Loop : c = d

\* The page is about one run, and a replay is about the page: what it shows of run
\* and team comes from one answer, of the scenario that is selected unless it is the
\* source pack's or there is no catalog; only the source pack's team is ever ready
\* for release; and a replay that is asked for names the run the page shows
\* (app.js:56-64, 142-343).
PageIsOfOneRun ==
  /\ page.kind \in {"RUN", "SOURCE"} =>
       /\ page.team.trace[4].input = <<"RUN", page.run>>
       /\ page.kind = "RUN" => page.run.lane = "LEGACY" /\ selected \in {page.run.of, None}
       /\ page.team.trace[4].to = Ready =>
            page.kind = "SOURCE" /\ page.run.lane = "SOURCE" /\ page.run.status = "PASS"
  /\ request # None /\ request.path = "replay" =>
       /\ page.kind = "RUN" /\ request.run = page.run
       /\ request.mutation = page.run.of /\ request.mutation = selected

\* Nothing hangs: a slot that is taken comes back though its peer sends nothing, a
\* connection that waits is accepted or refused, and a page that is busy becomes
\* usable though the server never answers (web_demo.py:615, app.js:30-58).
NothingHangs ==
  /\ \A c \in Conns : c \in Held ~> c \notin Held
  /\ \A c \in Conns : conn[c].stage = "QUEUED" ~> conn[c].stage # "QUEUED"
  /\ busy ~> ~busy
=============================================================================
