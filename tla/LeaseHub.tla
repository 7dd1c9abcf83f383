------------------------------ MODULE LeaseHub ------------------------------
(***************************************************************************)
(* The Server's Hub for one lease scope: the route goroutine of every      *)
(* control connection (internal/server/hub.go, lease_hub.go) and the       *)
(* administrator's release (internal/server/admin.go).                     *)
(*                                                                         *)
(* Lease operations, and the check-then-forward of a lease-guarded         *)
(* control, run under one mutex per scope.  The administrator's release    *)
(* does not take it.  Sessions are control connections: each is used once, *)
(* and a client that reconnects has a new one while the goroutine of the   *)
(* old one may still be inside a handler.                                  *)
(*                                                                         *)
(* Connections may fail at any time, so a Send may fail at any time.  What *)
(* is queued on a control connection, and what the administrator's handler *)
(* announces after its release, is LeaseClient's business: here only the   *)
(* newest epoch a lease handler put on a connection is kept.               *)
(***************************************************************************)
EXTENDS LeaseTable

CONSTANTS Sessions,   \* control connections
          ClientOf,   \* the authenticated client of each connection
          NoOne,      \* a free mutex, an absent connection
          Expected,   \* the expectedEpoch values acquire requests carry
          MaxEpoch,   \* bound: requests that raise the epoch stop here
          MaxClock    \* bound: the Server clock stops here

ASSUME LeaseHubAssumption ==
    /\ ClientOf \in [Sessions -> Clients]
    /\ NoOne \notin Sessions
    /\ Expected \subseteq Nat \cup {AnyEpoch}
    /\ MaxEpoch \in Nat
    /\ MaxClock \in Nat

VARIABLES clock,      \* h.clock
          row,        \* the scope's row of control_leases
          lock,       \* h.leaseLocks[scope]: NoOne or the session inside
          pc,         \* where each goroutine is
          req,        \* the control each goroutine handles
          answer,     \* its LeaseRecord and error class
          todo,       \* the broadcast targets it has not sent to yet
          controls,   \* h.controls: the registered session of each client
          sent,       \* newest epoch a lease handler put on each connection
          last        \* the lease-guarded control forwarded most recently

hubVars == <<lock, pc, req, answer, todo>>
vars == <<clock, row, hubVars, controls, sent, last>>

\* A "takeover" is a lease.acquire with force set.
Ops == {"acquire", "takeover", "renew", "release", "status", "mutate"}

\* A control as its sender signed it: every field is the client's claim.
Requests == [op : Ops, expected : Nat \cup {AnyEpoch}, epoch : Nat]

NoRequest == [op |-> "status", expected |-> AnyEpoch, epoch |-> 0]

Answers == [err : Errors, record : Records]

NoAnswer == [err |-> "none", record |-> Record(NoRow, "none")]

\* Where a session's goroutine may be while it is inside the mutex.
Inside == {"critical", "forward", "announce", "broadcast", "reply"}

PCs == Inside \cup {"new", "recv", "done"}

Init ==
    /\ clock = 0
    /\ row = NoRow
    /\ lock = NoOne
    /\ pc = [s \in Sessions |-> "new"]
    /\ req = [s \in Sessions |-> NoRequest]
    /\ answer = [s \in Sessions |-> NoAnswer]
    /\ todo = [s \in Sessions |-> {}]
    /\ controls = [c \in Clients |-> NoOne]
    /\ sent = [s \in Sessions |-> 0]
    /\ last = [client |-> NoClient, epoch |-> 0]

-----------------------------------------------------------------------------
(* Steps of a control connection *)

\* ControlHandler: register replaces the client's previous connection.
Connect(s) ==
    /\ pc[s] = "new"
    /\ pc' = [pc EXCEPT ![s] = "recv"]
    /\ controls' = [controls EXCEPT ![ClientOf[s]] = s]
    /\ UNCHANGED <<clock, row, lock, req, answer, todo, sent, last>>

\* unregister removes a connection only while it is the registered one.
Unregister(s) ==
    controls' = [c \in Clients |-> IF controls[c] = s THEN NoOne ELSE controls[c]]

\* The relay is closed and nothing is left to receive: the route loop returns.
RouteReturn(s) ==
    /\ pc[s] = "recv"
    /\ pc' = [pc EXCEPT ![s] = "done"]
    /\ Unregister(s)
    /\ UNCHANGED <<clock, row, lock, req, answer, todo, sent, last>>

RaisesEpoch(op) == op \in {"acquire", "takeover", "release"}

\* A validated control is received and gets the scope's mutex.  Nothing the
\* goroutine reads in between depends on when it was received.  (A control for
\* a Node that is not connected is dropped silently: no step of the model.)
Receive(s, m) ==
    /\ pc[s] = "recv"
    /\ lock = NoOne
    /\ RaisesEpoch(m.op) => row.epoch < MaxEpoch
    /\ lock' = s
    /\ pc' = [pc EXCEPT ![s] = "critical"]
    /\ req' = [req EXCEPT ![s] = m]
    /\ UNCHANGED <<clock, row, answer, todo, controls, sent, last>>

StoreOp(s) ==
    LET m == req[s]
        c == ClientOf[s]
    IN  CASE m.op \in {"acquire", "takeover"} -> AcquireLease(row, c, m.op, m.expected, clock)
          [] m.op = "renew"   -> RenewLease(row, c, m.epoch, clock)
          [] m.op = "release" -> ReleaseLease(row, c, m.epoch)
          [] OTHER            -> Lease(row, clock)

\* A change is announced to every control of the owner before the answer.
Announced(op, out) ==
    out.err = "none" /\ op # "status" /\ out.record.state \in {"held", "released"}

\* handleServerControl: the transaction, which may fail, and what to do with its
\* outcome.  Every error but an expired lease is answered as a conflict, with
\* the record that came with it: of a store that failed, the empty one.
HandleLease(s) ==
    /\ pc[s] = "critical"
    /\ req[s].op # "mutate"
    /\ \E out \in {StoreOp(s), Failed(row)} :
           /\ row' = out.row
           /\ answer' = [answer EXCEPT ![s] = [err |-> out.err, record |-> out.record]]
           /\ pc' = [pc EXCEPT ![s] =
                       IF Announced(req[s].op, out) THEN "announce" ELSE "reply"]
    /\ UNCHANGED <<clock, lock, req, todo, controls, sent, last>>

\* Mutant: an epoch proves the lease, whoever claims it.
ProofOfAnyClient(s) == State(row, clock) = "held" /\ row.epoch = req[s].epoch

\* checkLease: the claimed proof against the row at the Server's time.
LeaseProved(s) ==
    /\ State(row, clock) = "held"
    /\ Matches(row, ClientOf[s], req[s].epoch)

CheckLease(s) ==
    /\ pc[s] = "critical"
    /\ req[s].op = "mutate"
    /\ \/ /\ LeaseProved(s)
          /\ pc' = [pc EXCEPT ![s] = "forward"]
          /\ UNCHANGED answer
       \/ /\ ~LeaseProved(s)
          /\ pc' = [pc EXCEPT ![s] = "reply"]
          /\ answer' = [answer EXCEPT ![s].err =
                IF State(row, clock) = "expired" THEN "expired" ELSE "conflict"]
       \/ /\ pc' = [pc EXCEPT ![s] = "reply"] \* the store fails
          /\ answer' = [answer EXCEPT ![s].err = "conflict"]
    /\ UNCHANGED <<clock, row, lock, req, todo, controls, sent, last>>

\* The handler returns and unlocks; its locals go out of scope.
Leave(s, next) ==
    /\ lock' = NoOne
    /\ pc' = [pc EXCEPT ![s] = next]
    /\ req' = [req EXCEPT ![s] = NoRequest]
    /\ answer' = [answer EXCEPT ![s] = NoAnswer]

\* target.relay.Send, still inside the mutex.
Forward(s) ==
    /\ pc[s] = "forward"
    /\ Leave(s, "recv")
    /\ last' = [client |-> ClientOf[s], epoch |-> req[s].epoch]
    /\ UNCHANGED <<clock, row, todo, controls, sent>>

\* A closed or full Node relay makes the sender's route loop return.
ForwardFails(s) ==
    /\ pc[s] = "forward"
    /\ Leave(s, "done")
    /\ Unregister(s)
    /\ UNCHANGED <<clock, row, todo, sent, last>>

\* broadcast takes its targets from the registry once ...
Announce(s) ==
    /\ pc[s] = "announce"
    /\ pc' = [pc EXCEPT ![s] = "broadcast"]
    /\ todo' = [todo EXCEPT ![s] = {controls[c] : c \in Clients} \ {NoOne}]
    /\ UNCHANGED <<clock, row, lock, req, answer, controls, sent, last>>

\* ... and sends to one after the other.
Broadcast(s, t) ==
    /\ pc[s] = "broadcast"
    /\ t \in todo[s]
    /\ todo' = [todo EXCEPT ![s] = todo[s] \ {t}]
    /\ sent' = [sent EXCEPT ![t] = answer[s].record.epoch]
    /\ UNCHANGED <<clock, row, lock, pc, req, answer, controls, last>>

\* A send that fails closes the target's relay and skips it.
BroadcastSkips(s, t) ==
    /\ pc[s] = "broadcast"
    /\ t \in todo[s]
    /\ todo' = [todo EXCEPT ![s] = todo[s] \ {t}]
    /\ UNCHANGED <<clock, row, lock, pc, req, answer, controls, sent, last>>

\* Mutant: the mutex is released before the answer is sent.
EarlyReleaseDone(s) ==
    /\ pc[s] = "broadcast"
    /\ todo[s] = {}
    /\ pc' = [pc EXCEPT ![s] = "reply"]
    /\ lock' = NoOne
    /\ UNCHANGED <<clock, row, req, answer, todo, controls, sent, last>>

BroadcastDone(s) ==
    /\ pc[s] = "broadcast"
    /\ todo[s] = {}
    /\ pc' = [pc EXCEPT ![s] = "reply"]
    /\ UNCHANGED <<clock, row, lock, req, answer, todo, controls, sent, last>>

\* sendServerResult; a refused lease-guarded control carries no lease state, and
\* a store that failed an empty one.
Reply(s) ==
    /\ pc[s] = "reply"
    /\ Leave(s, "recv")
    /\ sent' = IF req[s].op = "mutate" \/ answer[s].err = "internal" THEN sent
               ELSE [sent EXCEPT ![s] = answer[s].record.epoch]
    /\ UNCHANGED <<clock, row, todo, controls, last>>

ReplyFails(s) ==
    /\ pc[s] = "reply"
    /\ Leave(s, "done")
    /\ Unregister(s)
    /\ UNCHANGED <<clock, row, todo, sent, last>>

-----------------------------------------------------------------------------
(* The administrator, who does not take the mutex *)

\* AdminReleaseLease: one UPDATE guarded by the epoch the administrator saw.
AdminRelease(epoch) ==
    /\ epoch < MaxEpoch
    /\ AdminMatches(row, epoch)
    /\ row' = Cleared(row)
    /\ UNCHANGED <<clock, hubVars, controls, sent, last>>

-----------------------------------------------------------------------------
(* The registry of connections *)

\* DisconnectControl, when a client's access is revoked: its connection leaves
\* the registry at once and is closed, its goroutine may be anywhere.
DisconnectControl(c) ==
    /\ controls[c] # NoOne
    /\ controls' = [controls EXCEPT ![c] = NoOne]
    /\ UNCHANGED <<clock, row, hubVars, sent, last>>

\* Hub.Close empties the registry, and register refuses whoever comes later.
Close ==
    /\ controls' = [c \in Clients |-> NoOne]
    /\ pc' = [s \in Sessions |-> IF pc[s] = "new" THEN "done" ELSE pc[s]]
    /\ UNCHANGED <<clock, row, lock, req, answer, todo, sent, last>>

Tick ==
    /\ clock < MaxClock
    /\ clock' = clock + 1
    /\ UNCHANGED <<row, hubVars, controls, sent, last>>

-----------------------------------------------------------------------------
\* A client may claim any epoch: nothing is assumed of it.
Claims ==
    [op : {"acquire", "takeover"}, expected : Expected, epoch : {0}]
    \cup [op : {"renew", "release", "mutate"}, expected : {AnyEpoch}, epoch : 0..MaxEpoch]
    \cup {NoRequest}

SessionStep(s) ==
    \/ Connect(s) \/ RouteReturn(s)
    \/ \E m \in Claims : Receive(s, m)
    \/ HandleLease(s) \/ CheckLease(s)
    \/ Forward(s) \/ ForwardFails(s)
    \/ Announce(s)
    \/ \E t \in Sessions : Broadcast(s, t) \/ BroadcastSkips(s, t)
    \/ BroadcastDone(s)
    \/ Reply(s) \/ ReplyFails(s)

Next ==
    \/ \E s \in Sessions : SessionStep(s)
    \/ \E e \in 1..MaxEpoch : AdminRelease(e)
    \/ \E c \in Clients : DisconnectControl(c)
    \/ Close
    \/ Tick

Spec == Init /\ [][Next]_vars

-----------------------------------------------------------------------------
(* Properties *)

TypeOK ==
    /\ clock \in Nat
    /\ row \in Rows
    /\ lock \in Sessions \cup {NoOne}
    /\ pc \in [Sessions -> PCs]
    /\ req \in [Sessions -> Requests]
    /\ answer \in [Sessions -> Answers]
    /\ todo \in [Sessions -> SUBSET Sessions]
    /\ controls \in [Clients -> Sessions \cup {NoOne}]
    /\ sent \in [Sessions -> Nat]
    /\ last \in [client : Clients \cup {NoClient}, epoch : Nat]

\* The per-scope mutex: the goroutine inside a lease handler is the one that
\* holds the lock, so there is at most one.
LeaseMutex == \A s \in Sessions : pc[s] \in Inside <=> lock = s

\* Between checkLease and relay.Send no other client can obtain the lease:
\* only the administrator can have ended it.
NoTakeoverDuringForward ==
    \A s \in Sessions :
        pc[s] = "forward" =>
            \/ row.epoch = req[s].epoch /\ row.holder = ClientOf[s]
            \/ row.epoch = req[s].epoch + 1 /\ row.holder = NoClient

\* Neither the row nor a control that passed checkLease is older than what was
\* forwarded last, and within an epoch they belong to the same client.
ForwardOrder ==
    /\ last.epoch <= row.epoch
    /\ last.epoch = row.epoch /\ row.epoch # 0 => last.client = row.holder
    /\ \A s \in Sessions : pc[s] = "forward" =>
        /\ req[s].epoch # 0
        /\ last.epoch <= req[s].epoch
        /\ last.epoch = req[s].epoch => last.client = ClientOf[s]

\* A lease record on its way out is at least as new as everything already on
\* any control connection, and none of it is ahead of the row.
RecordOrder ==
    /\ \A t \in Sessions : sent[t] <= row.epoch
    /\ \A s \in Sessions :
        /\ pc[s] \in {"announce", "broadcast"} =>
            req[s].op # "mutate" /\ answer[s].err # "internal"
        /\ (/\ pc[s] \in {"announce", "broadcast", "reply"}
            /\ req[s].op # "mutate"
            /\ answer[s].err # "internal") =>
            /\ answer[s].record.epoch <= row.epoch
            /\ \A t \in Sessions : sent[t] <= answer[s].record.epoch

\* README: "Thread-scoped leases prevent two browsers from changing the same
\* task at once."  Lease-guarded controls leave the Hub in epoch order and all
\* controls of one epoch come from one client, whatever the clients claim,
\* however connections are replaced and whenever the administrator intervenes.
FencedForwarding ==
    [][/\ last'.epoch >= last.epoch
       /\ last'.epoch = last.epoch => last'.client = last.client]_last

\* A lease never changes hands within an epoch, and the epoch never falls.
EpochOwnership ==
    [][/\ row'.epoch >= row.epoch
       /\ row'.holder # row.holder => row'.epoch > row.epoch]_row

\* The lease records that lease handlers put on a control connection, in
\* announcements and in answers, are in epoch order.  A store that failed gives
\* no record: the empty one of its answer says nothing of the row and may come
\* at any time.  (The administrator's announcements are sent outside the mutex
\* and are not ordered with them: LeaseClient has what becomes of them.)
LeaseFramesInOrder == [][\A s \in Sessions : sent'[s] >= sent[s]]_sent

\* The permit of LeasePromise: the control between checkLease and relay.Send.
PermitOut ==
    IF lock # NoOne /\ pc[lock] = "forward"
    THEN [client |-> ClientOf[lock], epoch |-> req[lock].epoch]
    ELSE [client |-> NoClient, epoch |-> 0]

Promise == INSTANCE LeasePromise
    WITH lease <- [client |-> row.holder, epoch |-> row.epoch], permit <- PermitOut

\* Mutex, transactions, connections, expiry and the administrator's release
\* together keep the promise: a control reaches the Node only on a permit the
\* holder of its epoch got, nobody obtains the lease while a permit is out, and
\* what a transaction of lease.go does to the row is one of two things.
KeepsPromise == Promise!Spec

\* A client that reconnects stays reachable: no step of another connection's
\* goroutine takes a connection out of the registry, however late the one it
\* replaced gets to unregister; only a newer connection of its client takes its
\* place.  (DisconnectControl and Close are steps of nobody's goroutine.)
NobodyElseUnregisters ==
    [][\A s, t \in Sessions :
          /\ SessionStep(s) /\ s # t
          /\ controls[ClientOf[t]] = t /\ controls'[ClientOf[t]] # t
          => controls'[ClientOf[t]] = s /\ pc[s] = "new"]_vars
=============================================================================
