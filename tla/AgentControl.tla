---------------------------- MODULE AgentControl ----------------------------
(***************************************************************************)
(* A Node executing signed controls on its Agent: the ControlSession       *)
(* (internal/node/control_session.go), the Codex adapter                   *)
(* (internal/adapter/codex), the rows both keep in the local store         *)
(* (internal/node/store), and recovery after a crash or a shutdown         *)
(* (internal/node/host.go, Manager.Reconcile).                             *)
(*                                                                         *)
(* Five actors interleave: the session, which serves one control at a      *)
(* time (and holds Runtime.opMu while it is inside the adapter); one       *)
(* consume goroutine per Codex process; the approval timers; the event     *)
(* pump, which records approvals in the store; and the Codex process,      *)
(* which is external.  The Node has one Thread here, and a question to the *)
(* user (item/tool/requestUserInput) counts as an approval request.        *)
(***************************************************************************)
EXTENDS Integers, Sequences, FiniteSets

CONSTANTS Requests,    \* approval requests a Codex process may make
          MaxControls, \* bound: controls, numbered by their sequence
          MaxTurns,    \* bound: Turns started
          MaxGens,     \* bound: Codex processes started
          MaxBoots,    \* bound: starts of the Node and changes of its relay
          Faults       \* the failures explored, a subset of FaultKinds

\* drop: Runtime.events is full; deny: ownedThread fails (the workspace is
\* gone, the store fails); refuse: Codex answers a call with an error.
FaultKinds == {"drop", "deny", "refuse"}

ASSUME AgentControlAssumption ==
    /\ MaxControls \in Nat /\ MaxTurns \in Nat
    /\ MaxGens \in Nat \ {0} /\ MaxBoots \in Nat \ {0}
    /\ Faults \subseteq FaultKinds

VARIABLES thread, approval, control, highest,        \* the local store
          client, active, pending, events,           \* Runtime
          pc, job, gen, turn, status,                \* ControlSession.handle
          pump, node,                \* runEventPump, host; node.stray is an observer
          server, inbound, consumers, asked, overdue,\* Codex and the clock
          known, answers, executed             \* observers

store == <<thread, approval, control, highest>>
runtime == <<client, active, pending>>
queue == <<events, pump>>
session == <<pc, job, gen, turn, status>>
codex == <<server, inbound, consumers, asked, overdue>>
observers == <<known, answers, executed>>
vars == <<thread, approval, control, highest, client, active, pending, events,
          pump, pc, job, gen, turn, status, node, server, inbound, consumers, asked, overdue,
          known, answers, executed>>

-----------------------------------------------------------------------------
Gens == 1..MaxGens
Controls == 1..MaxControls
Versions == {"v1", "v11"}
Decisions == {"accept", "decline"}

NoApproval == [status |-> "none", digest |-> "none"]
NoRequest == [turn |-> 0, gen |-> 0]

\* The control being handled: its sequence, what it asks for, and the protocol
\* version it uses.
NoJob == [n |-> 0, op |-> "none", req |-> {}, decision |-> "none", version |-> "none"]

Process(g) == [gen |-> g, alive |-> TRUE, turns |-> {}, last |-> server.last, open |-> {}]

Init ==
    /\ thread = [state |-> "idle", turn |-> 0]
    /\ approval = [a \in Requests |-> NoApproval]
    /\ control = [n \in Controls |-> "none"]
    /\ highest = 0
    /\ client = 1 /\ active = {} /\ pending = {}
    /\ events = <<>> /\ pump = <<>>
    /\ pc = "receive" /\ job = NoJob /\ gen = 0 /\ turn = 0 /\ status = "none"
    /\ node = [up |-> "running", boots |-> 1, stray |-> FALSE]
    /\ server = [gen |-> 1, alive |-> TRUE, turns |-> {}, last |-> 0, open |-> {}]
    /\ inbound = [g \in Gens |-> <<>>]
    /\ consumers = {1}
    /\ asked = [a \in Requests |-> NoRequest]
    /\ overdue = {}
    /\ known = [a \in Requests |-> {}]
    /\ answers = [a \in Requests |-> <<>>]
    /\ executed = [n \in Controls |-> 0]

-----------------------------------------------------------------------------
(* Shared pieces of the adapter.                                           *)

\* The client of process g is usable: its reader has not ended (Client.Done).
Alive(g) == g = server.gen /\ server.alive

\* Client.Respond on the client of process g, for the requests in S.  A
\* process ignores an answer to a request it does not have.
Respond(S, d, g) ==
    IF Alive(g)
    THEN /\ answers' = [a \in Requests |-> IF a \in S
                          THEN Append(answers[a], [decision |-> d, gen |-> g])
                          ELSE answers[a]]
         /\ server' = [server EXCEPT !.open = @ \ S]
    ELSE UNCHANGED <<answers, server>>

\* Runtime.emit.  The channel is shared with every other event, so it may be
\* full at any time: the event is dropped, and the client closed soon after
\* (CodexExits).
Emit(event) ==
    \/ events' = Append(events, event)
    \/ "drop" \in Faults /\ UNCHANGED events

Requested(a) == [kind |-> "requested", req |-> a, decision |-> "none"]
Resolved(a, d) == [kind |-> "resolved", req |-> a, decision |-> d]

Spawned ==
    /\ server.gen < MaxGens
    /\ server' = Process(server.gen + 1)
    /\ client' = server.gen + 1
    /\ consumers' = consumers \cup {server.gen + 1}

(* A step of the session.  gen: the client it called; turn: the id         *)
(* turn/start answered with; status: the result of the control.            *)
At(label) == node.up = "running" /\ pc = label
Goto(label) == pc' = label /\ UNCHANGED <<job, gen, turn, status>>
Return(label, result) == pc' = label /\ status' = result /\ UNCHANGED <<job, gen, turn>>
Finish(result) == Return("complete", result)
Using(g, label) == pc' = label /\ gen' = g /\ UNCHANGED <<job, turn, status>>
Receive == pc' = "receive" /\ job' = NoJob /\ gen' = 0 /\ turn' = 0 /\ status' = "none"

-----------------------------------------------------------------------------
(* ControlSession.handle, up to the dispatch.                              *)

\* What a control asks for.  A client knows the digest of a request from the
\* event of its own protocol version.
Asks(op, req, decision, version) ==
    \/ op \in {"read", "steer", "start"} /\ req = {} /\ decision = "none" /\ version = "v11"
    \/ op = "resolve" /\ \E a \in Requests : req = {a} /\ version \in known[a]
                      /\ decision \in Decisions

\* Mutant: the message id and the sequence are not checked.
Unchecked(n) == TRUE

\* CheckAndRecord: a control delivered again, or after a later one of its
\* signer, is refused and changes nothing.
CheckAndRecord(n) ==
    n > highest

Accept ==
    /\ At("receive")
    /\ \E n \in Controls, op \in {"read", "steer", "start", "resolve"},
          req \in {{}} \cup {{a} : a \in Requests},
          decision \in {"none"} \cup Decisions, version \in Versions :
          /\ Asks(op, req, decision, version)
          /\ CheckAndRecord(n)
          /\ highest' = n
          /\ job' = [n |-> n, op |-> op, req |-> req, decision |-> decision, version |-> version]
    /\ pc' = "begin" /\ UNCHANGED <<gen, turn, status>>
    /\ UNCHANGED <<thread, approval, control, runtime, queue, node, codex, observers>>

BeginControl ==
    /\ At("begin")
    /\ control' = [control EXCEPT ![job.n] = IF @ = "none" THEN "validated" ELSE @]
    /\ Goto("mark")
    /\ UNCHANGED <<thread, approval, highest, runtime, queue, node, codex, observers>>

\* A control that is already terminal cannot be dispatched again: Serve ends.
MarkDispatching ==
    /\ At("mark")
    /\ IF control[job.n] \in {"validated", "dispatching"}
       THEN /\ control' = [control EXCEPT ![job.n] = "dispatching"]
            /\ Goto(CASE job.op = "read" -> "ensure"
                      [] job.op = "resolve" -> "claim"
                      [] OTHER -> "check")
       ELSE Receive /\ UNCHANGED control
    /\ UNCHANGED <<thread, approval, highest, runtime, queue, node, codex, observers>>

\* CompleteControl appends the result and the terminal state in one
\* transaction (which terminal state it is, no guard tells apart); sending the
\* frame is not modelled (EventLog).
CompleteControl ==
    /\ At("complete")
    /\ control' = [control EXCEPT ![job.n] = "terminal"]
    /\ Receive
    /\ UNCHANGED <<thread, approval, highest, runtime, queue, node, codex, observers>>

-----------------------------------------------------------------------------
(* dispatch: thread.list and thread.read ("read"), turn.steer and          *)
(* turn.interrupt ("steer"), turn.start ("start").                         *)

\* Mutant: StartTurn does not look at the state of the Thread.
AlwaysReady(op) == op = "start" \/ thread.state = "active"

\* StartTurn wants an idle Thread, activeCall an active one.
ThreadReady(op) ==
    thread.state = IF op = "start" THEN "idle" ELSE "active"

\* ownedThread, then the check above; a steer of another Turn is refused too.
CheckThread ==
    /\ At("check")
    /\ \/ ThreadReady(job.op) /\ Goto("ensure")
       \/ thread.state = "needs_reconcile" /\ Finish("ambiguous")
       \/ /\ thread.state # "needs_reconcile"
          /\ job.op = "start" => ~ThreadReady("start")
          /\ Finish("rejected")
    /\ UNCHANGED <<store, runtime, queue, node, codex, observers>>

\* ensureClient keeps a live client and replaces one that is gone, whether
\* or not its consume goroutine has noticed.
EnsureClient ==
    /\ At("ensure")
    /\ \/ /\ Alive(client)
          /\ Using(client, IF job.op = "start" THEN "load" ELSE "call")
          /\ UNCHANGED <<client, server, consumers>>
       \/ /\ ~Alive(client)
          /\ Spawned
          /\ Using(server.gen + 1, IF job.op = "start" THEN "load" ELSE "call")
       \/ /\ ~Alive(client)
          /\ Finish("rejected")
          /\ UNCHANGED <<client, server, consumers>>
    /\ UNCHANGED <<store, active, pending, queue, node, inbound, asked, overdue,
                   observers>>

\* client.Call for a control without a record of its own.
CallRuntime ==
    /\ At("call") /\ job.op \in {"read", "steer"}
    /\ \/ /\ Alive(gen)
          /\ executed' = [executed EXCEPT ![job.n] = IF job.op = "steer" THEN @ + 1 ELSE @]
          /\ Finish("confirmed")
       \/ /\ Alive(gen) /\ "refuse" \in Faults
          /\ Finish("rejected") /\ UNCHANGED executed
       \/ /\ ~Alive(gen)
          /\ Finish("ambiguous") /\ UNCHANGED executed
    /\ UNCHANGED <<store, runtime, queue, node, codex, known, answers>>

\* ensureLoaded: thread/resume on a client that has not loaded the Thread.
EnsureLoaded ==
    /\ At("load")
    /\ \/ Alive(gen) /\ Goto("save")
       \/ Alive(gen) /\ "refuse" \in Faults /\ Finish("rejected")
       \/ ~Alive(gen) /\ Finish("ambiguous")
    /\ UNCHANGED <<store, runtime, queue, node, codex, observers>>

SaveStarting ==
    /\ At("save")
    /\ thread' = [state |-> "starting", turn |-> 0]
    /\ Goto("note")
    /\ UNCHANGED <<approval, control, highest, runtime, queue, node, codex, observers>>

NoteStarting ==
    /\ At("note")
    /\ active' = {0}
    /\ Goto("call")
    /\ UNCHANGED <<store, client, pending, queue, node, codex, observers>>

\* turn/start reaches Codex, which starts a Turn and answers with its id.
CallTurnStart ==
    /\ At("call") /\ job.op = "start"
    /\ Alive(gen) /\ server.last < MaxTurns
    /\ server' = [server EXCEPT !.last = @ + 1, !.turns = @ \cup {server.last + 1}]
    /\ executed' = [executed EXCEPT ![job.n] = @ + 1]
    /\ pc' = "wait" /\ turn' = server.last + 1 /\ UNCHANGED <<job, gen, status>>
    /\ UNCHANGED <<store, runtime, queue, node, inbound, consumers, asked, overdue, known,
                   answers>>

\* The answer never comes, because the process is gone (Call prefers neither
\* of an answer and the end), or it is an error.
TurnStartFails ==
    /\ \/ /\ At("call") /\ job.op = "start" /\ Alive(gen)
          /\ thread' = [state |-> "idle", turn |-> 0]
          /\ Finish("rejected")
       \/ /\ At("call") \/ At("wait")
          /\ job.op = "start" /\ ~Alive(gen)
          /\ thread' = [state |-> "needs_reconcile", turn |-> 0]
          /\ Finish("ambiguous")
    /\ active' = {}
    /\ UNCHANGED <<approval, control, highest, client, pending, queue, node, codex,
                   observers>>

SaveActive ==
    /\ At("wait")
    /\ thread' = [state |-> "active", turn |-> turn]
    /\ Goto("noteTurn")
    /\ UNCHANGED <<approval, control, highest, runtime, queue, node, codex, observers>>

NoteTurn ==
    /\ At("noteTurn")
    /\ active' = IF active = {} THEN {} ELSE {turn}
    /\ Finish("confirmed")
    /\ UNCHANGED <<store, client, pending, queue, node, codex, observers>>

-----------------------------------------------------------------------------
(* dispatch: approval.resolve and interaction.resolve.                     *)

SetStatus(S, from, to) ==
    approval' = [a \in Requests |-> IF a \in S /\ approval[a].status \in from
                                    THEN [approval[a] EXCEPT !.status = to] ELSE approval[a]]

\* ClaimApproval: a row that is not pending, or whose digest is another, is a
\* conflict; an overdue one expires.
ClaimApproval ==
    /\ At("claim")
    /\ \E a \in job.req :
          \/ /\ approval[a].status = "pending" /\ approval[a].digest = job.version
             /\ a \notin overdue
             /\ SetStatus({a}, {"pending"}, "processing")
             /\ Goto("resolve")
          \/ /\ approval[a].status = "pending" /\ approval[a].digest = job.version
             /\ a \in overdue
             /\ SetStatus({a}, {"pending"}, "expired")
             /\ Finish("rejected")
          \/ /\ approval[a].status # "pending" \/ approval[a].digest # job.version
             /\ Finish("rejected")
             /\ UNCHANGED approval
    /\ UNCHANGED <<thread, control, highest, runtime, queue, node, codex, observers>>

\* Mutant: the request stays in Runtime.pending while it is answered.
Kept(S) == pending

Taken(S) ==
    pending \ S

\* ResolveApproval, the part under Runtime.mu.
TakePending ==
    /\ At("resolve")
    /\ \/ /\ job.req \subseteq pending
          /\ pending' = Taken(job.req)
          /\ Using(client, "respond")
       \/ /\ ~(job.req \subseteq pending)
          /\ Return("undo", "rejected")
          /\ UNCHANGED pending
    /\ UNCHANGED <<store, client, active, queue, node, codex, observers>>

\* The rest of it: ownedThread, then the answer to the client taken above.
Answer ==
    /\ At("respond")
    /\ thread.state # "needs_reconcile" /\ Alive(gen)
    /\ Respond(job.req, job.decision, gen)
    /\ \E a \in job.req : Emit(Resolved(a, job.decision))
    /\ executed' = [executed EXCEPT ![job.n] = @ + 1]
    /\ Finish("confirmed")
    /\ UNCHANGED <<store, runtime, pump, node, inbound, consumers, asked, overdue, known>>

AnswerFails ==
    /\ At("respond")
    /\ \/ /\ thread.state = "needs_reconcile" \/ ~Alive(gen)
          /\ Return("undo", "ambiguous")
       \/ /\ "deny" \in Faults
          /\ Return("undo", "rejected")
    /\ UNCHANGED <<store, runtime, queue, node, codex, observers>>

MarkApprovalAmbiguous ==
    /\ At("undo")
    /\ SetStatus(job.req, {"processing"}, "ambiguous")
    /\ Goto("complete")
    /\ UNCHANGED <<thread, control, highest, runtime, queue, node, codex, observers>>

-----------------------------------------------------------------------------
(* The consume goroutine of process g.                                     *)

Head1(g, kind) ==
    /\ node.up # "down" /\ g \in consumers /\ inbound[g] # <<>>
    /\ Head(inbound[g]).kind = kind
    /\ inbound' = [inbound EXCEPT ![g] = Tail(@)]

\* approvalWorkspace: only the recorded Turn of an active Thread may ask.
MayAsk(t) == thread.state = "active" /\ thread.turn = t

ConsumeRequest(g) ==
    /\ Head1(g, "request")
    /\ LET a == Head(inbound[g]).req IN
          \/ /\ MayAsk(asked[a].turn)
             /\ pending' = pending \cup {a}
             /\ Emit(Requested(a))
             /\ UNCHANGED <<answers, server>>
          \/ /\ ~MayAsk(asked[a].turn) \/ "deny" \in Faults
             /\ Respond({a}, "decline", g)
             /\ UNCHANGED <<pending, events>>
    /\ UNCHANGED <<store, client, active, pump, session, node, consumers, asked, overdue,
                   known, executed>>

OfTurn(t) == {a \in Requests : asked[a].turn = t}

\* The row when no Turn runs.
IdleThread ==
    [state |-> "idle", turn |-> 0]

\* handleTurnCompleted: pending requests of the Turn go without an event.
ConsumeCompleted(g) ==
    /\ Head1(g, "completed")
    /\ LET t == Head(inbound[g]).turn IN
          IF thread.turn \in {0, t}
          THEN /\ thread' = IdleThread
               /\ active' = IF active = {t} THEN {} ELSE active
               /\ pending' = pending \ OfTurn(t)
          ELSE UNCHANGED <<thread, active, pending>>
    /\ UNCHANGED <<approval, control, highest, client, queue, session, node, server,
                   consumers, asked, overdue, observers>>

\* handleRequestResolved; the event log records such a request as declined.
ConsumeResolved(g) ==
    /\ Head1(g, "resolved")
    /\ LET a == Head(inbound[g]).req IN
          /\ pending' = pending \ {a}
          /\ IF a \in pending THEN Emit(Resolved(a, "decline")) ELSE UNCHANGED events
    /\ UNCHANGED <<store, client, active, pump, session, node, server, consumers, asked,
                   overdue, known, answers, executed>>

\* handleClientLoss: a client that has been replaced is ignored.
ClientLoss(g) ==
    /\ node.up # "down" /\ g \in consumers
    /\ ~Alive(g) /\ inbound[g] = <<>>
    /\ consumers' = consumers \ {g}
    /\ IF client = g
       THEN /\ client' = 0
            /\ pending' = {}
            /\ thread' = IF active = {} THEN thread
                         ELSE [state |-> "needs_reconcile",
                               turn |-> IF thread.turn # 0 THEN thread.turn
                                        ELSE CHOOSE t \in active : TRUE]
       ELSE UNCHANGED <<client, pending, thread>>
    /\ UNCHANGED <<approval, control, highest, active, queue, session, node, server,
                   inbound, asked, overdue, observers>>

-----------------------------------------------------------------------------
(* The approval timer, and the clock it shares with ClaimApproval.         *)

\* expiresAt is set when the request is registered.
BecomesOverdue(a) ==
    /\ a \in pending \/ approval[a].status # "none"
    /\ a \notin overdue
    /\ overdue' = overdue \cup {a}
    /\ UNCHANGED <<store, runtime, queue, session, node, server, inbound, consumers,
                   asked, observers>>

Declined(a) ==
    Respond({a}, "decline", client) /\ Emit(Resolved(a, "decline"))

ExpireApproval(a) ==
    /\ node.up # "down" /\ a \in overdue \cap pending
    /\ pending' = pending \ {a}
    /\ IF client = 0 THEN UNCHANGED <<answers, server, events>> ELSE Declined(a)
    /\ UNCHANGED <<store, client, active, pump, session, node, inbound, consumers, asked,
                   overdue, known, executed>>

-----------------------------------------------------------------------------
(* The event pump: publish appends an event to the log of each protocol,   *)
(* Protocol 1.0 first, and each append is followed by updateApproval.      *)

Exists(row) ==
    row.status # "none"

\* updateApproval: a request overwrites the row, digest included.
UpdateApproval(event, version) ==
    approval' = [approval EXCEPT ![event.req] =
        IF event.kind = "requested" THEN [status |-> "pending", digest |-> version]
        ELSE IF ~Exists(@) THEN @
        ELSE [@ EXCEPT !.status = IF event.decision = "accept" THEN "accepted" ELSE "declined"]]

Learn(event, version) ==
    known' = [known EXCEPT ![event.req] = IF event.kind = "requested" THEN @ \cup {version} ELSE @]

PublishV1 ==
    /\ node.up = "running" /\ pump = <<>> /\ events # <<>>
    /\ UpdateApproval(Head(events), "v1")
    /\ Learn(Head(events), "v1")
    /\ pump' = <<Head(events)>> /\ events' = Tail(events)
    /\ UNCHANGED <<thread, control, highest, runtime, session, node, codex, answers,
                   executed>>

PublishV11 ==
    /\ node.up = "running" /\ pump # <<>>
    /\ UpdateApproval(Head(pump), "v11")
    /\ Learn(Head(pump), "v11")
    /\ pump' = <<>>
    /\ UNCHANGED <<thread, control, highest, runtime, events, session, node, codex,
                   answers, executed>>

-----------------------------------------------------------------------------
(* Codex, as the adapter uses it: it runs Turns, asks for approvals while  *)
(* one runs, may withdraw a request, and may exit.                         *)

Notify(message) == inbound' = [inbound EXCEPT ![server.gen] = Append(@, message)]

CodexAsks(a) ==
    /\ server.alive /\ asked[a] = NoRequest
    /\ \E t \in server.turns : asked' = [asked EXCEPT ![a] = [turn |-> t, gen |-> server.gen]]
    /\ server' = [server EXCEPT !.open = @ \cup {a}]
    /\ Notify([kind |-> "request", req |-> a, turn |-> 0])
    /\ UNCHANGED <<store, runtime, queue, session, node, consumers, overdue, observers>>

CodexWithdraws(a) ==
    /\ a \in server.open
    /\ server' = [server EXCEPT !.open = @ \ {a}]
    /\ Notify([kind |-> "resolved", req |-> a, turn |-> 0])
    /\ UNCHANGED <<store, runtime, queue, session, node, consumers, asked, overdue,
                   observers>>

CodexCompletes ==
    /\ \E t \in server.turns :
          /\ server' = [server EXCEPT !.turns = @ \ {t}, !.open = @ \ OfTurn(t)]
          /\ inbound' = [inbound EXCEPT ![server.gen] =
                           Append(@, [kind |-> "completed", req |-> 0, turn |-> t])]
    /\ UNCHANGED <<store, runtime, queue, session, node, consumers, asked, overdue,
                   observers>>

Exited == server' = [server EXCEPT !.alive = FALSE, !.turns = {}, !.open = {}]

CodexExits ==
    /\ server.alive
    /\ Exited
    /\ UNCHANGED <<store, runtime, queue, session, node, inbound, consumers, asked,
                   overdue, observers>>

-----------------------------------------------------------------------------
(* The host: shutdown, crash, start and recovery.                          *)

\* What the handler still does once its context is cancelled: a turn/start
\* under way puts the Thread back to idle, or leaves it starting when the
\* answer was there already; a claimed request is taken out of pending.
\* Nothing that needs the context is saved.
Cancelled ==
    \/ /\ job.op = "start" /\ pc \in {"note", "call", "wait"}
       /\ thread' = [state |-> "idle", turn |-> 0]
       /\ active' = {}
       /\ UNCHANGED pending
    \/ /\ pc = "noteTurn"
       /\ active' = {turn}
       /\ UNCHANGED <<thread, pending>>
    \/ /\ pc = "resolve"
       /\ pending' = pending \ job.req
       /\ UNCHANGED <<thread, active>>
    \/ /\ pc \notin {"note", "noteTurn", "resolve"}
       /\ ~(job.op = "start" /\ pc = "call")
       /\ UNCHANGED <<thread, active, pending>>

\* relaySupervisor.Close: the relay is replaced, or an event could not be
\* recorded and nothing is served any more.  The handler's context is
\* cancelled; Runtime, Codex and the pump go on.  node.stray: until the Node
\* stops, there was a Turn whose turn/start was taken back although Codex has it.
RelayClosed ==
    /\ node.up = "running" /\ pc # "receive" /\ node.boots < MaxBoots
    /\ Cancelled
    /\ node' = [node EXCEPT !.boots = @ + 1, !.stray = @ \/ (pc = "wait" /\ thread'.state = "idle")]
    /\ Receive
    /\ UNCHANGED <<approval, control, highest, client, queue, codex, observers>>

\* closeResourcesLocked, first half: the supervisor and the session end, and
\* with them the pump; what it had not published stays unpublished.
Shutdown ==
    /\ node.up = "running"
    /\ Cancelled
    /\ node' = [node EXCEPT !.up = "closing"]
    /\ Receive
    /\ events' = <<>> /\ pump' = <<>>
    /\ UNCHANGED <<approval, control, highest, client, codex, known, answers, executed>>

Stopped ==
    /\ node' = [node EXCEPT !.up = "down", !.stray = FALSE]
    /\ Receive
    /\ client' = 0 /\ active' = {} /\ pending' = {}
    /\ events' = <<>> /\ pump' = <<>>
    /\ inbound' = [g \in Gens |-> <<>>]
    /\ consumers' = {}

\* Runtime.Close: what is pending is declined, without an event, and Codex is
\* closed.
CloseRuntime ==
    /\ node.up = "closing"
    /\ thread' = IF active # {} /\ thread.state # "idle"
                 THEN [thread EXCEPT !.state = "needs_reconcile"] ELSE thread
    /\ answers' = [a \in Requests |-> IF a \in pending /\ Alive(client)
                     THEN Append(answers[a], [decision |-> "decline", gen |-> client])
                     ELSE answers[a]]
    /\ Exited
    /\ Stopped
    /\ UNCHANGED <<approval, control, highest, asked, overdue, known, executed>>

\* Killed: Codex exits too, at the end of its standard input.
Crash ==
    /\ node.up # "down"
    /\ Exited
    /\ Stopped
    /\ UNCHANGED <<store, asked, overdue, known, answers, executed>>

\* Recovery runs only when some Thread needs it.
Start ==
    /\ node.up = "down" /\ node.boots < MaxBoots
    /\ Spawned
    /\ node' = [up |-> IF thread.state = "needs_reconcile" THEN "recovering" ELSE "running",
                boots |-> node.boots + 1, stray |-> FALSE]
    /\ UNCHANGED <<store, active, pending, queue, session, inbound, asked, overdue,
                   observers>>

Recovering(label) == node.up = "recovering" /\ pc = label

\* Reconcile cannot read the Thread: it stays as it is.
ReconcileDefers ==
    /\ Recovering("receive")
    /\ node' = [node EXCEPT !.up = "running"]
    /\ UNCHANGED <<store, runtime, queue, session, codex, observers>>

\* Codex knows how the recorded Turn ended: approvals are left alone.
ReconcileTerminal ==
    /\ Recovering("receive") /\ thread.turn # 0
    /\ Goto("saveIdle")
    /\ UNCHANGED <<store, runtime, queue, node, codex, observers>>

\* Mutant: every approval of the Thread is marked.
AnyDecision == {"pending", "processing", "accepted", "declined", "expired", "ambiguous"}

\* What MarkThreadApprovalsAmbiguous marks.
Undecided ==
    {"pending", "processing"}

ReconcileAmbiguous ==
    /\ Recovering("receive")
    /\ SetStatus(Requests, Undecided, "ambiguous")
    /\ Goto("saveIdle")
    /\ UNCHANGED <<thread, control, highest, runtime, queue, node, codex, observers>>

ReconcileSaves ==
    /\ Recovering("saveIdle")
    /\ thread' = [state |-> "idle", turn |-> 0]
    /\ node' = [node EXCEPT !.up = "running"]
    /\ Receive
    /\ UNCHANGED <<approval, control, highest, runtime, queue, codex, observers>>

-----------------------------------------------------------------------------
SessionStep ==
    \/ BeginControl \/ MarkDispatching \/ CompleteControl
    \/ CheckThread \/ EnsureClient \/ CallRuntime \/ EnsureLoaded
    \/ SaveStarting \/ NoteStarting \/ CallTurnStart \/ TurnStartFails
    \/ SaveActive \/ NoteTurn
    \/ ClaimApproval \/ TakePending \/ Answer \/ AnswerFails \/ MarkApprovalAmbiguous

ConsumeStep(g) ==
    ConsumeRequest(g) \/ ConsumeCompleted(g) \/ ConsumeResolved(g) \/ ClientLoss(g)

CodexStep ==
    \/ \E a \in Requests : CodexAsks(a) \/ CodexWithdraws(a)
    \/ CodexCompletes \/ CodexExits

HostStep ==
    \/ RelayClosed \/ Shutdown \/ CloseRuntime \/ Crash \/ Start
    \/ ReconcileDefers \/ ReconcileTerminal \/ ReconcileAmbiguous \/ ReconcileSaves

Next ==
    \/ Accept \/ SessionStep
    \/ \E g \in Gens : ConsumeStep(g)
    \/ \E a \in Requests : BecomesOverdue(a) \/ ExpireApproval(a)
    \/ PublishV1 \/ PublishV11
    \/ CodexStep \/ HostStep

Spec == Init /\ [][Next]_vars

-----------------------------------------------------------------------------

(* An approval request is answered at most once, whoever races: a control, *)
(* a second control, the timer, the refusal of a late request, the Close   *)
(* of the Runtime (README.md: reconnecting never repeats an approval).     *)
AnsweredOnce == \A a \in Requests : Len(answers[a]) <= 1

(* A control takes effect on the Agent at most once, however often it is   *)
(* delivered and wherever the Node was killed while it executed it.        *)
ExecutedOnce == \A n \in Controls : executed[n] <= 1

(* A Thread recorded as idle has no Turn running, so that a turn.start the *)
(* record lets through never meets a running Turn: whatever died, was      *)
(* consumed late, was cancelled before the call or was recovered in        *)
(* between.  Except for the rest of a run in which turn/start was          *)
(* cancelled after Codex had it: see StartsAreConservative.                *)
IdleIsReal ==
    node.up = "running" /\ thread.state = "idle" /\ ~node.stray => server.turns = {}

(* An operation of unknown outcome is handled conservatively (README.md),  *)
(* so that no row says idle while a Turn runs.  It does not hold: the      *)
(* context of a turn/start is cancelled by a change of the relay,          *)
(* mapCallError takes that for a refusal, and the row is idle while Codex  *)
(* runs the Turn.                                                          *)
StartsAreConservative ==
    node.up = "running" /\ thread.state = "idle" => server.turns = {}

(* A recorded decision is final: no later claim, mark, republication or    *)
(* recovery changes it.                                                    *)
DecisionIsFinal ==
    [][\A a \in Requests : approval[a].status \in {"accepted", "declined"}
          => approval'[a].status = approval[a].status]_vars
=============================================================================
