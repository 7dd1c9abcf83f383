------------------------------ MODULE EventLog ------------------------------
(***************************************************************************)
(* The event log of a Node (internal/node/eventlog) and the delivery of    *)
(* its frames by the ControlSession (internal/node/control_session.go).    *)
(*                                                                         *)
(* Two goroutines write the stream: the event pump, which publishes what   *)
(* the Runtime reports, and the handler of the bound transport, which      *)
(* serves one control at a time and publishes too.  Appending is one       *)
(* transaction (under Manager.mu); sending is a later step, under          *)
(* deliveryMu, to whatever transport is bound by then.  A replay holds     *)
(* deliveryMu throughout but reads the log in two statements, and the pump *)
(* may append between them.                                                *)
(*                                                                         *)
(* An AgentEvent that normalises to several records is several publishes   *)
(* here, which is weaker than the code's one hold of Manager.mu.  The      *)
(* duplicate stream of Protocol 1.1 has its own log and is left out.       *)
(***************************************************************************)
EXTENDS EventStore

CONSTANTS Retentions,  \* [age, bytes] pairs UpdateRetention may set
          ReplayLimit, \* DefaultReplayLimit
          Cursors,     \* afterSequence values the clients send
          MaxLog       \* bound: appends explored

ASSUME EventLogAssumption ==
    /\ Retentions \subseteq [age : Nat \ {0}, bytes : {b \in Nat : b >= MaxFrame}]
    /\ Retentions # {}
    /\ ReplayLimit \in Nat \ {0}
    /\ Cursors \subseteq Nat
    /\ MaxLog \in Nat

VARIABLES stream,     \* the store: survives a crash
          retention,  \* Manager.retention
          gate,       \* who holds deliveryMu
          transport,  \* the endpoint Serve reads and ControlSession.active
          frame,      \* the last frame handed to the bound transport
          pump,       \* runEventPump
          handler     \* Serve -> handle

vars == <<stream, retention, gate, transport, frame, pump, handler>>

-----------------------------------------------------------------------------
NoFrame == [seq |-> 0, by |-> "none"]

\* nil: no Serve runs.  muted: a send failed, active is nil, but Serve still
\* receives from the endpoint (a full queue does not close it).
Transports == {"nil", "bound", "muted"}
Holders == {"free", "pump", "handler"}

PumpPCs == {"receive", "send"}

\* head: before readEventHead; rows: between the two statements; gap, snapshot:
\* Recover's two publications; records: sending the batch; publish, send: a
\* control that publishes one event; complete, result: CompleteControl.
ReplayPCs == {"head", "rows", "gap", "snapshot", "records", "complete", "result"}
HandlerPCs == {"receive", "publish", "send"} \cup ReplayPCs

Idle == [pc |-> "receive", kind |-> "other", after |-> 0, target |-> "none",
         pass |-> "replay", earliest |-> 0, batch |-> {}, seq |-> 0]

Init ==
    /\ stream = EmptyStream
    /\ retention \in Retentions
    /\ gate = "free"
    /\ transport = "nil"
    /\ frame = NoFrame
    /\ pump = [pc |-> "receive", seq |-> 0]
    /\ handler = Idle

-----------------------------------------------------------------------------
(* Manager.append: the transaction commits, or fails and changes nothing.  *)

Append1(row) ==
    /\ CanAppend(stream)
    /\ stream.latest < MaxLog
    /\ stream' = appendEvent(stream, row, retention)

(* sendFrameLocked: a failed send clears active; without one the frame is  *)
(* skipped.                                                                *)

Delivered(seq, by) ==
    /\ transport = "bound"
    /\ frame' = [seq |-> seq, by |-> by]
    /\ UNCHANGED transport

NotDelivered ==
    /\ transport' = IF transport = "nil" THEN "nil" ELSE "muted"
    /\ UNCHANGED frame

-----------------------------------------------------------------------------
(* The event pump: publish = Manager.Publish, then sendFrame.              *)

PumpPublish ==
    /\ pump.pc = "receive"
    /\ \E row \in Rows : Append1(row)
    /\ pump' = [pc |-> "send", seq |-> stream.latest + 1]
    /\ UNCHANGED <<retention, gate, transport, frame, handler>>

PumpLocks ==
    /\ pump.pc = "send"
    /\ gate = "free"
    /\ gate' = "pump"
    /\ UNCHANGED <<stream, retention, transport, frame, pump, handler>>

\* Mutant: the pump sends without deliveryMu.
PumpSendsUnlocked ==
    /\ pump.pc = "send"
    /\ Delivered(pump.seq, "pump") \/ NotDelivered
    /\ pump' = [pc |-> "receive", seq |-> 0]
    /\ UNCHANGED <<stream, retention, gate, handler>>

PumpSends ==
    /\ pump.pc = "send"
    /\ gate = "pump"
    /\ Delivered(pump.seq, "pump") \/ NotDelivered
    /\ gate' = "free"
    /\ pump' = [pc |-> "receive", seq |-> 0]
    /\ UNCHANGED <<stream, retention, handler>>

-----------------------------------------------------------------------------
(* The handler.  A control other than events.replay publishes at most one  *)
(* event here and completes; its failures only change the result's status. *)

ReceiveControl ==
    /\ handler.pc = "receive"
    /\ transport # "nil"
    /\ \/ handler' = [Idle EXCEPT !.pc = "publish"]
       \/ handler' = [Idle EXCEPT !.pc = "complete"]
    /\ UNCHANGED <<stream, retention, gate, transport, frame, pump>>

HandlerPublish ==
    /\ handler.pc = "publish"
    /\ \E row \in Rows : Append1(row)
    /\ handler' = [handler EXCEPT !.pc = "send", !.seq = stream.latest + 1]
    /\ UNCHANGED <<retention, gate, transport, frame, pump>>

\* events.replay takes deliveryMu first.  A target names a workspace and a
\* Thread; the Web client sends none.
ReceiveReplay ==
    /\ handler.pc = "receive"
    /\ transport # "nil"
    /\ gate = "free"
    /\ gate' = "handler"
    /\ \E after \in Cursors, target \in {"none", "thread"} :
          handler' = [Idle EXCEPT !.pc = "head", !.kind = "replay",
                                  !.after = after, !.target = target]
    /\ UNCHANGED <<stream, retention, transport, frame, pump>>

\* A cursor beyond the head is a conflict: the control is rejected.
ReplayHead ==
    /\ handler.pc = "head"
    /\ handler' = IF handler.after > stream.latest
                  THEN [handler EXCEPT !.pc = "complete"]
                  ELSE [handler EXCEPT !.pc = "rows",
                                       !.earliest = readEventHead(stream).earliest]
    /\ UNCHANGED <<stream, retention, gate, transport, frame, pump>>

\* Mutant: the cursor itself is expected to be retained.
GapAtCursor(h) == h.earliest > 0 /\ h.after < h.earliest

Gap(h) == h.earliest > 0 /\ h.after + 1 < h.earliest

\* Manager.Replay's verdict on the second statement.  A gap without a target is
\* rejected with history_gap; with one, Recover replays once more and then
\* publishes the gap and a snapshot in the batch's place.
ReplayRowsRead ==
    /\ handler.pc = "rows"
    /\ LET rows == ReplayRows(stream, handler.after, ReplayLimit)
       IN  handler' = IF ~Gap(handler)
                      THEN [handler EXCEPT !.pc = "records", !.batch = rows]
                      ELSE IF handler.target = "none"
                      THEN [handler EXCEPT !.pc = "complete"]
                      ELSE IF handler.pass = "replay"
                      THEN [handler EXCEPT !.pc = "head", !.pass = "recover"]
                      ELSE [handler EXCEPT !.pc = "gap"]
    /\ UNCHANGED <<stream, retention, gate, transport, frame, pump>>

RecoverPublishesGap ==
    /\ handler.pc = "gap"
    /\ \E row \in Rows : Append1(row)
    /\ handler' = [handler EXCEPT !.pc = "snapshot", !.seq = stream.latest + 1]
    /\ UNCHANGED <<retention, gate, transport, frame, pump>>

\* Manager.Snapshot: the Runtime cannot be read, or the snapshot is published.
RecoverPublishesSnapshot ==
    /\ handler.pc = "snapshot"
    /\ \/ /\ handler' = [handler EXCEPT !.pc = "complete"]
          /\ UNCHANGED stream
       \/ /\ \E row \in Rows : Append1(row)
          /\ handler' = [handler EXCEPT !.pc = "records",
                                        !.batch = {handler.seq, stream.latest + 1},
                                        !.seq = 0]
    /\ UNCHANGED <<retention, gate, transport, frame, pump>>

\* A send that fails clears active; whether the loop goes on (ErrClosed,
\* ErrBackpressure) or breaks, nothing more is sent to this transport.
SendRecord ==
    /\ handler.pc = "records"
    /\ handler.batch # {}
    /\ Delivered(Min(handler.batch), "handler") \/ NotDelivered
    /\ handler' = [handler EXCEPT !.batch = @ \ {Min(@)}, !.seq = Min(handler.batch)]
    /\ UNCHANGED <<stream, retention, gate, pump>>

RecordsSent ==
    /\ handler.pc = "records"
    /\ handler.batch = {}
    /\ handler' = [handler EXCEPT !.pc = "complete"]
    /\ UNCHANGED <<stream, retention, gate, transport, frame, pump>>

\* CompleteControl: control.result is an event of the stream too.
CompleteControl ==
    /\ handler.pc = "complete"
    /\ \E row \in Rows : Append1(row)
    /\ handler' = [handler EXCEPT !.pc = "result", !.seq = stream.latest + 1]
    /\ UNCHANGED <<retention, gate, transport, frame, pump>>

HandlerLocks ==
    /\ handler.pc \in {"send", "result"}
    /\ handler.kind = "other"
    /\ gate = "free"
    /\ gate' = "handler"
    /\ UNCHANGED <<stream, retention, transport, frame, pump, handler>>

\* publish ignores a failed send; a control then completes.
HandlerSends ==
    /\ handler.pc = "send"
    /\ gate = "handler"
    /\ Delivered(handler.seq, "handler") \/ NotDelivered
    /\ gate' = "free"
    /\ handler' = [handler EXCEPT !.pc = "complete"]
    /\ UNCHANGED <<stream, retention, pump>>

\* A result that cannot be sent ends Serve, which closes the endpoint.
SendResult ==
    /\ handler.pc = "result"
    /\ gate = "handler"
    /\ \/ Delivered(handler.seq, "handler")
       \/ transport' = "nil" /\ UNCHANGED frame
    /\ gate' = "free"
    /\ handler' = Idle
    /\ UNCHANGED <<stream, retention, pump>>

-----------------------------------------------------------------------------
(* The environment.                                                        *)

\* Serve binds the next transport once the previous call has returned.
Bind ==
    /\ handler.pc = "receive"
    /\ transport = "nil"
    /\ transport' = "bound"
    /\ frame' = NoFrame
    /\ UNCHANGED <<stream, retention, gate, pump, handler>>

\* Receive fails while no control is handled: Serve unbinds the transport.
Unbind ==
    /\ handler.pc = "receive"
    /\ transport # "nil"
    /\ transport' = "nil"
    /\ UNCHANGED <<stream, retention, gate, frame, pump, handler>>

UpdateRetention ==
    /\ retention' \in Retentions
    /\ UNCHANGED <<stream, gate, transport, frame, pump, handler>>

Acknowledge ==
    /\ \E sequence \in Cursors :
          /\ CanAcknowledge(stream, sequence)
          /\ stream' = AcknowledgeEvents(stream, sequence)
    /\ UNCHANGED <<retention, gate, transport, frame, pump, handler>>

\* The process is killed and started again: the store survives, and the
\* configured retention is read anew.
Crash ==
    /\ retention' \in Retentions
    /\ gate' = "free"
    /\ transport' = "nil"
    /\ frame' = NoFrame
    /\ pump' = [pc |-> "receive", seq |-> 0]
    /\ handler' = Idle
    /\ UNCHANGED stream

Next ==
    \/ PumpPublish \/ PumpLocks \/ PumpSends
    \/ ReceiveControl \/ HandlerPublish \/ HandlerLocks \/ HandlerSends
    \/ ReceiveReplay \/ ReplayHead \/ ReplayRowsRead
    \/ RecoverPublishesGap \/ RecoverPublishesSnapshot
    \/ SendRecord \/ RecordsSent \/ CompleteControl \/ SendResult
    \/ Bind \/ Unbind \/ UpdateRetention \/ Acknowledge \/ Crash

Spec == Init /\ [][Next]_vars

-----------------------------------------------------------------------------
(* Properties.                                                             *)

TypeOK ==
    /\ stream.latest \in Nat
    /\ DOMAIN stream.log \subseteq 1..stream.latest
    /\ \A s \in DOMAIN stream.log : stream.log[s] \in Rows
    /\ stream.outbox \subseteq Nat
    /\ stream.pending \subseteq Nat
    /\ stream.acked \in 0..stream.latest
    /\ retention \in Retentions
    /\ gate \in Holders
    /\ transport \in Transports
    /\ frame \in [seq : Nat, by : {"none", "pump", "handler"}]
    /\ pump \in [pc : PumpPCs, seq : Nat]
    /\ handler \in [pc : HandlerPCs, kind : {"other", "replay"}, after : Nat,
                    target : {"none", "thread"}, pass : {"replay", "recover"},
                    earliest : Nat, batch : SUBSET Nat, seq : Nat]

\* The retained events are an unbroken suffix of what was appended, whatever the
\* clock did between the appends: retention removes a prefix and nothing else,
\* so a cursor either finds its successor or is behind the earliest row.
RetainedSuffix ==
    \A s \in DOMAIN stream.log : s..stream.latest \subseteq DOMAIN stream.log

\* The outbox holds exactly the retained events, and those not yet acknowledged
\* are the ones beyond the acknowledged cursor: pruning and acknowledging, which
\* touch both tables, never leave one of them behind.
OutboxMirrorsLog ==
    /\ stream.outbox = DOMAIN stream.log
    /\ stream.pending = {s \in stream.outbox : s > stream.acked}

\* A committed event never changes, no sequence is allocated twice and none is
\* skipped, across crashes and retention changes.
AppendOnly ==
    [][/\ stream'.latest \in {stream.latest, stream.latest + 1}
       /\ \A s \in DOMAIN stream'.log :
             IF s \in DOMAIN stream.log THEN stream'.log[s] = stream.log[s]
             ELSE s = stream.latest + 1]_stream

\* Manager.Replay reports a gap only for a cursor whose successor is really gone
\* (and can never come back): a stale head never sends a client that could be
\* served into recovery.
GapIsReal ==
    handler.pc = "gap" \/ (handler.pc = "rows" /\ Gap(handler))
        => handler.after + 1 \notin DOMAIN stream.log

\* handleReplay: "Hold the delivery read/write gate for the complete replay batch
\* and its control.result": while a replay is served no other frame reaches the
\* transport, and its frames leave in sequence order.
ReplayUninterrupted ==
    [][handler.kind = "replay" /\ frame' # frame /\ frame' # NoFrame
          => /\ frame'.by = "handler"
             /\ handler'.pc = "records" /\ frame.by = "handler"
                /\ handler.seq = frame.seq
                   => frame'.seq > frame.seq]_vars

=============================================================================
