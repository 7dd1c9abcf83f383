---------------------------- MODULE EventStream ----------------------------
(***************************************************************************)
(* A browser following the event stream of one Node: the cursor, the       *)
(* buffer for events that come too early, replay and snapshot recovery of  *)
(* web/src/relay/control-client.ts, against a Node whose frames and        *)
(* answers are those of EventLog.                                          *)
(*                                                                         *)
(* A frame is a sequence number of the Node's log: EventLogProofs shows    *)
(* that the log is append-only and that what is retained is a suffix of    *)
(* it, here the newest Keep rows.  The Hub hands every frame of the Node   *)
(* to all connected browsers of the owner, in order, and drops a control   *)
(* whose Node is not connected without telling anyone.                     *)
(*                                                                         *)
(* The browser's handlers run one after the other (eventChain), so each    *)
(* is one step.  The Node's handler takes several, with the event pump     *)
(* between them.  Left out: history.gap frames, which a Node only sends    *)
(* for a replay that names a Thread.                                       *)
(***************************************************************************)
EXTENDS Integers, Sequences, FiniteSets

CONSTANTS Keep,         \* events the Node retains
          PageSize,     \* REPLAY_PAGE_SIZE and DefaultReplayLimit
          PendingLimit, \* PENDING_LIMIT
          LogBound,     \* bound: controls are answered up to this length of the log
          Budgets       \* bounds, one record for each scenario: the events in the
                        \* log when the browser is first loaded, those the Runtime
                        \* reports later, the browser's connections, failures of
                        \* the Node's transport, onEvent callbacks that throw and
                        \* controls of another browser

ASSUME EventStreamAssumption ==
    /\ {Keep, PageSize, PendingLimit, LogBound} \subseteq Nat \ {0}
    /\ Budgets \subseteq [{"backlog", "events", "connects", "outages", "fails", "others"} -> Nat]

VARIABLES log,       \* every event ever appended by the Node
          node,      \* its transport: "bound", "muted" or "nil" as in EventLog
          unsent,    \* the event the pump has appended and not sent yet, or 0
          job,       \* the control the Node's handler is at
          connected, \* the browser has an authenticated connection
          up,        \* controls on their way to the Node
          down,      \* frames on their way to the browser
          browser,   \* what the browser keeps about the stream
          lost,      \* history: a control of this connection was never answered
          missed,    \* history: whether a "frame" of this connection did not arrive,
                     \* or an onEvent callback threw an "event" away
          budget     \* what is left of the bounds

streamVars == <<log, node, unsent, job, connected, up, down, browser, lost, missed, budget>>

-----------------------------------------------------------------------------
(* Bodies of events: control.result carries the ID of its control.  A      *)
(* "runtime" event or a snapshot names a Thread, and so does the result of *)
(* a snapshot.request.                                                     *)

Runtime == [kind |-> "runtime", id |-> 0, status |-> "none"]

Result(kind, id, status) == [kind |-> kind, id |-> id, status |-> status]

NamesThread(body) == body.kind # "events.replay"

Earliest == IF Len(log) > Keep THEN Len(log) - Keep + 1 ELSE 1

\* online is the presence flag of the Node's binding; refused, a history: a
\* recovery control was held back because of it, or for want of a Thread to ask
\* a snapshot of.
NewBrowser == [cursor |-> 0, pending |-> {}, gapped |-> FALSE, replay |-> 0,
               count |-> 0, snapshot |-> 0, target |-> FALSE, nextId |-> 1,
               online |-> TRUE, refused |-> FALSE, requests |-> <<>>]

\* A page that was loaded: the user may have a Thread open (session.ts), which
\* registers it as a target of the recovery.
Loaded(b) == {[b EXCEPT !.target = open] : open \in BOOLEAN}

NoJob == [at |-> "none", kind |-> "events.replay", id |-> 0, after |-> 0,
          status |-> "confirmed", seq |-> 0]

StreamInit ==
    /\ budget \in Budgets
    /\ log = [i \in 1..budget.backlog |-> Runtime]
    /\ node = "bound"
    /\ unsent = 0
    /\ job = NoJob
    /\ connected = FALSE
    /\ up = <<>>
    /\ down = <<>>
    /\ browser \in Loaded(NewBrowser)
    /\ lost = FALSE
    /\ missed = {}

-----------------------------------------------------------------------------
(* The browser's handlers, as functions of its state b.  bad is an event   *)
(* whose callback throws, 0 for none.                                      *)

\* sendRecoveryControl
Request(b, kind) ==
    [b EXCEPT !.nextId = @ + 1,
              !.requests = Append(@, [kind |-> kind, id |-> b.nextId, after |-> b.cursor])]

startReplayForNode(b) ==
    IF b.replay # 0 THEN b
    ELSE IF ~b.online THEN [b EXCEPT !.refused = TRUE]
    ELSE [Request(b, "events.replay") EXCEPT !.replay = b.nextId, !.count = 0]

requestSnapshots(b) ==
    IF b.snapshot # 0 THEN b
    ELSE IF ~b.target \/ ~b.online THEN [b EXCEPT !.refused = TRUE]
    ELSE [Request(b, "snapshot.request") EXCEPT !.snapshot = b.nextId]

\* The buffered events that follow the cursor without a hole.
Ready(b, bad) == {s \in b.pending : (b.cursor + 1)..s \subseteq b.pending \ {bad}}

\* flushPending: applyEvent on each of them.  It stops at an event whose callback
\* throws, which leaves the buffer unapplied.  resolveControl settles the
\* snapshot control, and a confirmed one ends the recovery.
flushPending(b, bad) ==
    LET ready   == Ready(b, bad)
        cursor  == b.cursor + Cardinality(ready)
        threw   == cursor + 1 = bad /\ bad \in b.pending
        rest    == b.pending \ (ready \cup (IF threw THEN {bad} ELSE {}))
        answers == {s \in ready : log[s].kind = "snapshot.request" /\ log[s].id = b.snapshot}
        healed  == \E s \in answers : log[s].status = "confirmed"
    IN  [b EXCEPT !.cursor = cursor,
                  !.pending = rest,
                  !.target = @ \/ \E s \in ready : NamesThread(log[s]),
                  !.online = @ \/ ready # {},
                  !.snapshot = IF answers # {} THEN 0 ELSE @,
                  !.gapped = rest # {} /\ (threw \/ (@ /\ ~healed))]

\* applyOrBuffer
applyOrBuffer(b, s, bad, allowRecovery) ==
    LET buffered == [b EXCEPT !.pending = @ \cup {s}]
        gapped   == [buffered EXCEPT !.gapped = TRUE]
    IN  IF s = b.cursor + 1
        THEN flushPending(buffered, bad)
        ELSE IF Cardinality(gapped.pending) > PendingLimit
        THEN requestSnapshots([gapped EXCEPT !.pending = {}])
        ELSE IF allowRecovery THEN startReplayForNode(gapped) ELSE gapped

IsReset(body) == body.status \in {"conflict", "history_gap"}

\* Mutant: the page that is just full is taken for the last one.
FinishFullPage(b, body) ==
    LET done == [flushPending(b, 0) EXCEPT !.replay = 0]
    IN  IF IsReset(body)
        THEN startReplayForNode([b EXCEPT !.cursor = 0, !.pending = {}, !.replay = 0])
        ELSE IF body.status # "confirmed"
        THEN requestSnapshots([b EXCEPT !.replay = 0])
        ELSE IF b.count > PageSize THEN startReplayForNode(done)
        ELSE IF done.gapped THEN requestSnapshots(done)
        ELSE done

\* finishReplay.  resetAttempted belongs to the ReplayState that is thrown away
\* here, so it is never found set.
finishReplay(b, body) ==
    LET done == [flushPending(b, 0) EXCEPT !.replay = 0]
    IN  IF IsReset(body)
        THEN startReplayForNode([b EXCEPT !.cursor = 0, !.pending = {}, !.replay = 0])
        ELSE IF body.status # "confirmed"
        THEN requestSnapshots([b EXCEPT !.replay = 0])
        ELSE IF b.count >= PageSize THEN startReplayForNode(done)
        ELSE IF done.gapped THEN requestSnapshots(done)
        ELSE done

\* The frame answers the replay under way.
IsReplayResult(b, s) ==
    /\ b.replay # 0
    /\ log[s].kind = "events.replay"
    /\ log[s].id = b.replay

\* Mutant: an event that was applied before is buffered again.
HandleDuplicate(b, s, bad) ==
    IF IsReplayResult(b, s)
    THEN finishReplay(applyOrBuffer(b, s, bad, TRUE), log[s])
    ELSE applyOrBuffer(b, s, bad, b.replay = 0)

\* handleEvent
handleEvent(b, s, bad) ==
    IF s <= b.cursor THEN b
    ELSE IF IsReplayResult(b, s)
    THEN finishReplay(applyOrBuffer(b, s, bad, TRUE), log[s])
    ELSE applyOrBuffer([b EXCEPT !.count = IF b.replay # 0 THEN @ + 1 ELSE @],
                       s, bad, b.replay = 0)

\* The handler's requests are on the socket when it returns.
Sent(b) ==
    /\ up' = up \o b.requests
    /\ browser' = [b EXCEPT !.requests = <<>>]

-----------------------------------------------------------------------------
(* Browser *)

Spend(what) ==
    /\ budget[what] > 0
    /\ budget' = [budget EXCEPT ![what] = @ - 1]

\* authenticated: what was missed is replayed.
Connect ==
    /\ ~connected
    /\ Spend("connects")
    /\ connected' = TRUE
    /\ Sent(startReplayForNode(browser))
    /\ UNCHANGED <<log, node, unsent, job, down, lost, missed>>

\* handleClose forgets the controls under way; a page that is loaded again has
\* nothing but the cursor and the Node's binding.
Disconnect ==
    /\ connected
    /\ connected' = FALSE
    /\ down' = <<>>
    /\ up' = <<>>
    /\ lost' = FALSE
    /\ missed' = {}
    /\ \/ browser' = [browser EXCEPT !.replay = 0, !.count = 0, !.snapshot = 0, !.refused = FALSE]
       \/ browser' \in Loaded([NewBrowser EXCEPT !.cursor = browser.cursor,
                                                !.nextId = browser.nextId,
                                                !.online = browser.online])
    /\ UNCHANGED <<log, node, unsent, job, budget>>

Receive(bad) ==
    /\ down # <<>>
    /\ down' = Tail(down)
    /\ Sent(handleEvent(browser, Head(down), bad))
    /\ UNCHANGED <<log, node, unsent, job, connected, lost>>

\* The callback throws for the frame's event or for one that it makes ready.
ReceiveThrows ==
    /\ Spend("fails")
    /\ down # <<>>
    /\ Head(down) = browser.cursor + 1
    /\ \E bad \in Ready([browser EXCEPT !.pending = @ \cup {Head(down)}], 0) : Receive(bad)
    /\ missed' = missed \cup {"event"}

ReceiveFrame == Receive(0) /\ UNCHANGED <<missed, budget>>

\* applyPresenceSnapshot, with the Nodes the Hub finds registered.
Presence ==
    /\ connected
    /\ browser' = [browser EXCEPT !.online = (node # "nil")]
    /\ UNCHANGED <<log, node, unsent, job, connected, up, down, lost, missed, budget>>

-----------------------------------------------------------------------------
(* Node and Hub *)

\* sendFrameLocked: the Hub hands a frame to whoever is connected, and a send
\* that fails mutes the transport.
Reached(frames) == IF connected THEN down \o frames ELSE down

MissedFrame == IF connected THEN missed \cup {"frame"} ELSE missed

Arrives(frames) ==
    /\ node = "bound"
    /\ down' = Reached(frames)
    /\ UNCHANGED <<node, missed, budget>>

Muted == node # "bound" /\ missed' = MissedFrame /\ UNCHANGED <<down, node, budget>>

Breaks(frames) ==
    /\ node = "bound"
    /\ Spend("outages")
    /\ node' = "muted"
    /\ \E n \in 0..(Len(frames) - 1) : down' = Reached(SubSeq(frames, 1, n))
    /\ missed' = MissedFrame

Sends(frames) == Arrives(frames) \/ Muted \/ Breaks(frames)

\* A replay holds deliveryMu from its first statement to its result.
Gated == job.at # "none" /\ job.kind = "events.replay"

PumpAppends ==
    /\ unsent = 0
    /\ Spend("events")
    /\ log' = Append(log, Runtime)
    /\ unsent' = Len(log) + 1
    /\ UNCHANGED <<node, job, connected, up, down, browser, lost, missed>>

PumpDelivers ==
    /\ unsent # 0
    /\ ~Gated
    /\ unsent' = 0
    /\ Sends(<<unsent>>)
    /\ UNCHANGED <<log, job, connected, up, browser, lost>>

\* Manager.Replay on the stream's head.
Verdict(after) ==
    IF after > Len(log) THEN "conflict"
    ELSE IF after + 1 < Earliest THEN "history_gap"
    ELSE "confirmed"

Began(kind, id, after) ==
    IF kind = "snapshot.request"
    THEN [at |-> "publish", kind |-> kind, id |-> id, after |-> 0,
          status |-> "confirmed", seq |-> 0]
    ELSE [at |-> IF Verdict(after) = "confirmed" THEN "rows" ELSE "complete",
          kind |-> kind, id |-> id, after |-> after, status |-> Verdict(after), seq |-> 0]

CanServe == job.at = "none" /\ node # "nil" /\ Len(log) + 2 <= LogBound

\* The handler takes the next control; a replay takes deliveryMu and reads the
\* head.  A muted transport still receives.
Handle ==
    /\ CanServe
    /\ up # <<>>
    /\ up' = Tail(up)
    /\ job' = Began(Head(up).kind, Head(up).id, Head(up).after)
    /\ UNCHANGED <<log, node, unsent, connected, down, browser, lost, missed, budget>>

\* Another browser of the owner asks from some cursor; its frames come here too.
HandleOther ==
    /\ CanServe
    /\ Spend("others")
    /\ \E after \in 0..Len(log) : job' = Began("events.replay", 0, after)
    /\ UNCHANGED <<log, node, unsent, connected, up, down, browser, lost, missed>>

\* The second statement of ReplayEvents: what is retained by now.
Page(after) ==
    LET first == IF after + 1 < Earliest THEN Earliest ELSE after + 1
        last  == IF first + PageSize <= Len(log) THEN first + PageSize - 1 ELSE Len(log)
    IN  [i \in 1..(last - first + 1) |-> first + i - 1]

\* A send that fails while the page is sent may make the result a rejection.
SendPage ==
    /\ job.at = "rows"
    /\ \/ /\ Arrives(Page(job.after)) \/ Muted
          /\ job' = [job EXCEPT !.at = "complete"]
       \/ /\ Breaks(Page(job.after))
          /\ \E status \in {"confirmed", "rejected"} :
                job' = [job EXCEPT !.at = "complete", !.status = status]
    /\ UNCHANGED <<log, unsent, connected, up, browser, lost>>

\* dispatch of snapshot.request: Manager.Snapshot fails to read the Runtime, or
\* publishes the snapshot.
Snapshot ==
    /\ job.at = "publish"
    /\ \/ /\ job' = [job EXCEPT !.at = "complete", !.status = "rejected"]
          /\ UNCHANGED log
       \/ /\ job' = [job EXCEPT !.at = "send", !.seq = Len(log) + 1]
          /\ log' = Append(log, Runtime)
    /\ UNCHANGED <<node, unsent, connected, up, down, browser, lost, missed, budget>>

SnapshotSends ==
    /\ job.at = "send"
    /\ Sends(<<job.seq>>)
    /\ job' = [job EXCEPT !.at = "complete"]
    /\ UNCHANGED <<log, unsent, connected, up, browser, lost>>

Completes ==
    /\ job.at = "complete"
    /\ log' = Append(log, Result(job.kind, job.id, job.status))
    /\ job' = [job EXCEPT !.at = "result", !.seq = Len(log) + 1]
    /\ UNCHANGED <<node, unsent, connected, up, down, browser, lost, missed, budget>>

ResultSent ==
    /\ job.at = "result"
    /\ Arrives(<<job.seq>>)
    /\ job' = NoJob
    /\ UNCHANGED <<log, unsent, connected, up, browser, lost>>

\* The browser waits for this control.
Awaited == job.id # 0 /\ job.id \in {browser.replay, browser.snapshot}

\* A result that cannot be sent ends Serve, which closes the transport.
ResultFails ==
    /\ job.at = "result"
    /\ IF node = "bound" THEN Spend("outages") ELSE UNCHANGED budget
    /\ node' = "nil"
    /\ job' = NoJob
    /\ lost' = (lost \/ Awaited)
    /\ missed' = MissedFrame
    /\ UNCHANGED <<log, unsent, connected, up, down, browser>>

\* route: target == nil
HubDrops ==
    /\ up # <<>>
    /\ node = "nil"
    /\ up' = Tail(up)
    /\ lost' = TRUE
    /\ UNCHANGED <<log, node, unsent, job, connected, down, browser, missed, budget>>

\* The relay connection ends; controls on it are answered to nobody.
NodeUnbinds ==
    /\ node # "nil"
    /\ Spend("outages")
    /\ node' = "nil"
    /\ UNCHANGED <<log, unsent, job, connected, up, down, browser, lost, missed>>

\* A kill: what the handler and the pump were at is forgotten, the log is not.
NodeCrash ==
    /\ Spend("outages")
    /\ node' = "nil"
    /\ unsent' = 0
    /\ job' = NoJob
    /\ lost' = (lost \/ Awaited)
    /\ missed' = MissedFrame
    /\ UNCHANGED <<log, connected, up, down, browser>>

\* Serve binds the next transport when the previous call has returned.
NodeBinds ==
    /\ node = "nil"
    /\ job.at = "none"
    /\ node' = "bound"
    /\ UNCHANGED <<log, unsent, job, connected, up, down, browser, lost, missed, budget>>

StreamNext ==
    \/ Connect \/ Disconnect \/ ReceiveFrame \/ ReceiveThrows \/ Presence
    \/ PumpAppends \/ PumpDelivers
    \/ Handle \/ HandleOther \/ SendPage \/ Snapshot \/ SnapshotSends
    \/ Completes \/ ResultSent \/ ResultFails
    \/ HubDrops \/ NodeUnbinds \/ NodeCrash \/ NodeBinds

StreamSpec == StreamInit /\ [][StreamNext]_streamVars

-----------------------------------------------------------------------------
(* Properties *)

\* The buffer holds events that have come too early and nothing else, however
\* frames repeat, overtake each other or come from another browser's replay: no
\* event in it was applied, the next one is not in it, and the cursor never
\* passes the Node's log (which would make every later event a duplicate).
CursorConsistent ==
    /\ browser.cursor <= Len(log)
    /\ \A s \in browser.pending : s \in (browser.cursor + 2)..Len(log)
    /\ Cardinality(browser.pending) <= PendingLimit

\* Nothing is under way between a connected browser and the Node, and every
\* recovery control of the connection was sent and answered.
AtRest ==
    /\ connected /\ ~lost /\ ~browser.refused
    /\ up = <<>> /\ down = <<>> /\ unsent = 0 /\ job.at = "none"

\* guides/web-workbench.md: "Node events are replayed from a cursor after
\* reconnect ... gaps trigger snapshot recovery".  When everything has come to
\* rest no replay is left open, pages and other browsers' replays
\* notwithstanding.  A browser does not sit on a hole without having asked for a
\* snapshot, unless a callback threw an event away; and one that missed nothing
\* has applied every event of the Node or waits for a snapshot.
GapsClose ==
    AtRest =>
        /\ browser.replay = 0
        /\ browser.pending # {} => browser.snapshot # 0 \/ "event" \in missed
        /\ missed = {} => browser.cursor = Len(log) \/ browser.snapshot # 0

\* The same sentence for a log that was pruned: a browser whose cursor was reset
\* already and is told once more that the history has a gap asks for a snapshot
\* ("resetAttempted").  It does not hold: the browser resets its cursor again.
HistoryGapRecovers ==
    [][\A s \in 1..Len(log) :
          /\ ReceiveFrame /\ s = Head(down) /\ IsReplayResult(browser, s)
          /\ log[s].status = "history_gap" /\ browser.cursor = 0 /\ browser.target
          /\ \E t \in 1..s : log[t] = Result("events.replay", log[s].id - 1, "history_gap")
          => browser'.snapshot # 0]_streamVars

=============================================================================
