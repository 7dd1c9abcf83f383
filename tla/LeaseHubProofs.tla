--------------------------- MODULE LeaseHubProofs ---------------------------
(***************************************************************************)
(* Proofs about LeaseHub for every set of clients and sessions, every TTL  *)
(* and every bound: typing, the mutex, the fencing of lease-guarded        *)
(* controls by epoch, and that it implements LeasePromise; then about      *)
(* LeaseClient: a browser whose exchange has settled shows the row's epoch, *)
(* and a takeover is of the holder it was confirmed for.  The two modules  *)
(* share LeaseTable, and with it what its transactions return.             *)
(***************************************************************************)
EXTENDS LeaseHub, LeaseClient, FiniteSetTheorems, FunctionTheorems, SequenceTheorems, TLAPS

USE LeaseTableAssumption, LeaseHubAssumption

-----------------------------------------------------------------------------
(* What the transactions of the store return *)

Outcomes == [err : Errors, row : Rows, record : Records]

LEMMA StateType == ASSUME NEW r \in Rows, NEW now \in Nat
                   PROVE  State(r, now) \in RecordStates /\ Stored(r) \in RecordStates
BY DEF State, Stored, RecordStates

LEMMA OutcomeType ==
    ASSUME NEW r \in Rows, NEW err \in Errors, NEW state \in RecordStates
    PROVE  /\ Outcome(err, r, state) \in Outcomes
           /\ Outcome(err, r, state).row = r
           /\ Outcome(err, r, state).err = err
           /\ Outcome(err, r, state).record.epoch = r.epoch
<1>1. Record(r, state) \in Records
  BY DEF Record, Records, Rows
<1>2. Record(r, state).epoch = r.epoch
  BY DEF Record
<1> QED
  BY <1>1, <1>2 DEF Outcome, Outcomes

\* Every transaction of a client leaves the row alone, moves only the expiry
\* time, or starts the next epoch.
NextRow(r, new) ==
    \/ new.epoch = r.epoch /\ new.holder = r.holder
    \/ new.epoch = r.epoch + 1

LEMMA AcquireLeaseFacts ==
    ASSUME NEW r \in Rows, NEW c \in Clients, NEW mode,
           NEW expected \in Nat \cup {AnyEpoch}, NEW now \in Nat
    PROVE  LET out == AcquireLease(r, c, mode, expected, now)
           IN  /\ out \in Outcomes
               /\ NextRow(r, out.row)
               /\ out.record.epoch = out.row.epoch
<1>1. Granted(r, c, now) \in Rows /\ Granted(r, c, now).epoch = r.epoch + 1
  BY DEF Granted, Rows
<1>2. \A err \in Errors, state \in RecordStates :
          /\ Outcome(err, r, state) \in Outcomes
          /\ Outcome(err, r, state).row = r
          /\ Outcome(err, r, state).record.epoch = r.epoch
  BY OutcomeType
<1>3. /\ Outcome("none", Granted(r, c, now), "held") \in Outcomes
      /\ Outcome("none", Granted(r, c, now), "held").row = Granted(r, c, now)
      /\ Outcome("none", Granted(r, c, now), "held").record.epoch = Granted(r, c, now).epoch
  BY <1>1, OutcomeType DEF Errors, RecordStates
<1>4. State(r, now) \in RecordStates /\ "held" \in RecordStates
  BY StateType DEF RecordStates
<1> QED
  BY <1>1, <1>2, <1>3, <1>4 DEF AcquireLease, NextRow, Errors

LEMMA RenewLeaseFacts ==
    ASSUME NEW r \in Rows, NEW c \in Clients, NEW epoch \in Nat, NEW now \in Nat
    PROVE  LET out == RenewLease(r, c, epoch, now)
           IN  /\ out \in Outcomes
               /\ NextRow(r, out.row)
               /\ out.record.epoch = out.row.epoch
<1> DEFINE renewed == [r EXCEPT !.expires = now + TTL]
<1>1. renewed \in Rows /\ renewed.epoch = r.epoch /\ renewed.holder = r.holder
  BY DEF Rows
<1> HIDE DEF renewed
<1>2. \A err \in Errors, state \in RecordStates :
          /\ Outcome(err, r, state) \in Outcomes
          /\ Outcome(err, r, state).row = r
          /\ Outcome(err, r, state).record.epoch = r.epoch
  BY OutcomeType
<1>3. /\ Outcome("none", renewed, "held") \in Outcomes
      /\ Outcome("none", renewed, "held").row = renewed
      /\ Outcome("none", renewed, "held").record.epoch = renewed.epoch
  BY <1>1, OutcomeType DEF Errors, RecordStates
<1>4. Stored(r) \in RecordStates /\ "zero" \in RecordStates /\ "expired" \in RecordStates
  BY StateType DEF RecordStates
<1> USE DEF renewed
<1> QED
  BY <1>1, <1>2, <1>3, <1>4 DEF RenewLease, NextRow, Errors

LEMMA ReleaseLeaseFacts ==
    ASSUME NEW r \in Rows, NEW c \in Clients, NEW epoch \in Nat
    PROVE  LET out == ReleaseLease(r, c, epoch)
           IN  /\ out \in Outcomes
               /\ NextRow(r, out.row)
               /\ out.record.epoch = out.row.epoch
<1>1. Cleared(r) \in Rows /\ Cleared(r).epoch = r.epoch + 1
  BY DEF Cleared, Rows
<1>2. \A err \in Errors, state \in RecordStates :
          /\ Outcome(err, r, state) \in Outcomes
          /\ Outcome(err, r, state).row = r
          /\ Outcome(err, r, state).record.epoch = r.epoch
  BY OutcomeType
<1>3. /\ Outcome("none", Cleared(r), "released") \in Outcomes
      /\ Outcome("none", Cleared(r), "released").row = Cleared(r)
      /\ Outcome("none", Cleared(r), "released").record.epoch = Cleared(r).epoch
  BY <1>1, OutcomeType DEF Errors, RecordStates
<1>4. Stored(r) \in RecordStates /\ "released" \in RecordStates
  BY StateType DEF RecordStates
<1> QED
  BY <1>1, <1>2, <1>3, <1>4 DEF ReleaseLease, NextRow, Errors

LEMMA LeaseFacts ==
    ASSUME NEW r \in Rows, NEW now \in Nat
    PROVE  LET out == Lease(r, now)
           IN  /\ out \in Outcomes
               /\ NextRow(r, out.row)
               /\ out.record.epoch = out.row.epoch
BY StateType, OutcomeType DEF Lease, Errors, NextRow

LEMMA StoreOpFacts ==
    ASSUME TypeOK, NEW s \in Sessions
    PROVE  /\ StoreOp(s) \in Outcomes
           /\ NextRow(row, StoreOp(s).row)
           /\ StoreOp(s).record.epoch = StoreOp(s).row.epoch
<1>1. /\ row \in Rows /\ clock \in Nat /\ ClientOf[s] \in Clients
      /\ req[s] \in Requests
  BY DEF TypeOK
<1>2. req[s].expected \in Nat \cup {AnyEpoch} /\ req[s].epoch \in Nat
  BY <1>1 DEF Requests
<1>3. CASE req[s].op \in {"acquire", "takeover"}
  <2>1. StoreOp(s) = AcquireLease(row, ClientOf[s], req[s].op, req[s].expected, clock)
    BY <1>3 DEF StoreOp
  <2> DEFINE out == AcquireLease(row, ClientOf[s], req[s].op, req[s].expected, clock)
  <2>2. /\ out \in Outcomes
        /\ NextRow(row, out.row)
        /\ out.record.epoch = out.row.epoch
    <3>1. \A mode : LET o == AcquireLease(row, ClientOf[s], mode, req[s].expected, clock)
                    IN  /\ o \in Outcomes
                        /\ NextRow(row, o.row)
                        /\ o.record.epoch = o.row.epoch
      BY <1>1, <1>2, AcquireLeaseFacts
    <3> QED
      BY <3>1
  <2> QED
    BY <2>1, <2>2
<1>4. CASE req[s].op = "renew"
  <2>1. StoreOp(s) = RenewLease(row, ClientOf[s], req[s].epoch, clock)
    BY <1>4 DEF StoreOp
  <2> QED
    BY <1>1, <1>2, <2>1, RenewLeaseFacts
<1>5. CASE req[s].op = "release"
  <2>1. StoreOp(s) = ReleaseLease(row, ClientOf[s], req[s].epoch)
    BY <1>5 DEF StoreOp
  <2> QED
    BY <1>1, <1>2, <2>1, ReleaseLeaseFacts
<1>6. CASE req[s].op \notin {"acquire", "takeover", "renew", "release"}
  <2>1. StoreOp(s) = Lease(row, clock)
    BY <1>6 DEF StoreOp
  <2> QED
    BY <1>1, <2>1, LeaseFacts
<1> QED
  BY <1>3, <1>4, <1>5, <1>6

-----------------------------------------------------------------------------
(* Typing *)

LEMMA FailedFacts ==
    ASSUME NEW r \in Rows
    PROVE  Failed(r) \in Outcomes /\ Failed(r).row = r /\ Failed(r).err = "internal"
<1>1. Record(NoRow, "zero") \in Records
  BY DEF Record, Records, RecordStates, NoRow
<1> QED
  BY <1>1 DEF Failed, Outcomes, Errors

LEMMA NoAnswerType == NoAnswer \in Answers /\ NoRequest \in Requests
<1>1. NoRow \in Rows
  BY DEF NoRow, Rows
<1>2. Record(NoRow, "none") \in Records
  BY <1>1 DEF Record, Records, Rows, RecordStates
<1> QED
  BY <1>2 DEF NoAnswer, Answers, NoRequest, Requests, Errors, Ops

\* What handleServerControl makes of the transaction: a record that it got is
\* the row's, and a failure is never announced.
LEMMA HandleFacts ==
    ASSUME TypeOK, NEW s \in Sessions, HandleLease(s)
    PROVE  /\ NextRow(row, row')
           /\ answer'[s].err # "internal" => answer'[s].record.epoch = row'.epoch
           /\ pc'[s] = "announce" => answer'[s].err # "internal"
<1>1. PICK out \in {StoreOp(s), Failed(row)} :
        /\ row' = out.row
        /\ answer' = [answer EXCEPT ![s] = [err |-> out.err, record |-> out.record]]
        /\ pc' = [pc EXCEPT ![s] = IF Announced(req[s].op, out) THEN "announce" ELSE "reply"]
  BY DEF HandleLease
<1>2. answer'[s].err = out.err /\ answer'[s].record = out.record
  BY <1>1 DEF TypeOK
<1>3. pc'[s] = "announce" => out.err = "none"
  BY <1>1 DEF TypeOK, Announced
<1>4. /\ NextRow(row, out.row)
      /\ out.err # "internal" => out.record.epoch = out.row.epoch
  <2>1. CASE out = StoreOp(s)
    BY <2>1, StoreOpFacts
  <2>2. CASE out = Failed(row)
    BY <2>2, FailedFacts DEF TypeOK, NextRow
  <2> QED
    BY <2>1, <2>2
<1> QED
  BY <1>1, <1>2, <1>3, <1>4

LEMMA InitTypeOK == Init => TypeOK
<1>1. NoRow \in Rows
  BY DEF NoRow, Rows
<1> QED
  BY <1>1, NoAnswerType DEF Init, TypeOK, PCs

LEMMA NextTypeOK == TypeOK /\ [Next]_vars => TypeOK'
<1> SUFFICES ASSUME TypeOK, [Next]_vars PROVE TypeOK'
  OBVIOUS
<1> USE DEF PCs, Inside
<1>1. ASSUME NEW s \in Sessions, Connect(s) PROVE TypeOK'
  BY <1>1 DEF TypeOK, Connect
<1>2. ASSUME NEW s \in Sessions, RouteReturn(s) PROVE TypeOK'
  BY <1>2 DEF TypeOK, RouteReturn, Unregister
<1>3. ASSUME NEW s \in Sessions, NEW m \in Claims, Receive(s, m) PROVE TypeOK'
  <2>1. m \in Requests
    <3>1. CASE m = NoRequest
      BY <3>1, NoAnswerType
    <3>2. CASE m \in [op : {"acquire", "takeover"}, expected : Expected, epoch : {0}]
      <4>1. m.op \in {"acquire", "takeover"} /\ m.expected \in Expected /\ m.epoch = 0
        BY <3>2
      <4>2. m.op \in Ops
        BY <4>1 DEF Ops
      <4>3. m.expected \in Nat \cup {AnyEpoch}
        BY <4>1
      <4>4. m = [op |-> m.op, expected |-> m.expected, epoch |-> m.epoch]
        BY <3>2
      <4> QED
        BY <4>1, <4>2, <4>3, <4>4 DEF Requests
    <3>3. CASE m \in [op : {"renew", "release", "mutate"}, expected : {AnyEpoch},
                      epoch : 0..MaxEpoch]
      <4>1. 0..MaxEpoch \subseteq Nat
        OBVIOUS
      <4>2. m.op \in Ops /\ m.expected = AnyEpoch /\ m.epoch \in Nat
        BY <3>3, <4>1 DEF Ops
      <4>3. m = [op |-> m.op, expected |-> m.expected, epoch |-> m.epoch]
        BY <3>3
      <4> QED
        BY <4>2, <4>3 DEF Requests
    <3> QED
      BY <3>1, <3>2, <3>3 DEF Claims
  <2> QED
    BY <1>3, <2>1 DEF TypeOK, Receive
<1>4. ASSUME NEW s \in Sessions, HandleLease(s) PROVE TypeOK'
  <2>1. PICK out \in {StoreOp(s), Failed(row)} :
          /\ row' = out.row
          /\ answer' = [answer EXCEPT ![s] = [err |-> out.err, record |-> out.record]]
          /\ pc' = [pc EXCEPT ![s] = IF Announced(req[s].op, out) THEN "announce" ELSE "reply"]
          /\ UNCHANGED <<clock, lock, req, todo, controls, sent, last>>
    BY <1>4 DEF HandleLease
  <2>2. out.row \in Rows /\ [err |-> out.err, record |-> out.record] \in Answers
    BY StoreOpFacts, FailedFacts DEF Outcomes, Answers, TypeOK
  <2> QED
    BY <2>1, <2>2 DEF TypeOK
<1>5. ASSUME NEW s \in Sessions, CheckLease(s) PROVE TypeOK'
  <2>1. answer' \in [Sessions -> Answers]
    BY <1>5 DEF TypeOK, CheckLease, Answers, Errors
  <2> QED
    BY <1>5, <2>1 DEF TypeOK, CheckLease
<1>6. ASSUME NEW s \in Sessions, Forward(s) PROVE TypeOK'
  <2>1. last' \in [client : Clients \cup {NoClient}, epoch : Nat]
    BY <1>6 DEF TypeOK, Forward, Requests
  <2> QED
    BY <1>6, <2>1, NoAnswerType DEF TypeOK, Forward, Leave
<1>7. ASSUME NEW s \in Sessions, ForwardFails(s) PROVE TypeOK'
  BY <1>7, NoAnswerType DEF TypeOK, ForwardFails, Leave, Unregister
<1>8. ASSUME NEW s \in Sessions, Reply(s) PROVE TypeOK'
  <2>1. answer[s].record.epoch \in Nat
    BY DEF TypeOK, Answers, Records
  <2>2. sent' \in [Sessions -> Nat]
    BY <1>8, <2>1 DEF TypeOK, Reply
  <2> QED
    BY <1>8, <2>2, NoAnswerType DEF TypeOK, Reply, Leave
<1>9. ASSUME NEW s \in Sessions, ReplyFails(s) PROVE TypeOK'
  BY <1>9, NoAnswerType DEF TypeOK, ReplyFails, Leave, Unregister
<1>10. ASSUME NEW p \in Sessions, Announce(p) PROVE TypeOK'
  BY <1>10 DEF TypeOK, Announce
<1>11. ASSUME NEW p \in Sessions, NEW t \in Sessions, Broadcast(p, t) PROVE TypeOK'
  <2>1. answer[p].record.epoch \in Nat
    BY DEF TypeOK, Answers, Records
  <2> QED
    BY <1>11, <2>1 DEF TypeOK, Broadcast
<1>12. ASSUME NEW p \in Sessions, NEW t \in Sessions, BroadcastSkips(p, t) PROVE TypeOK'
  BY <1>12 DEF TypeOK, BroadcastSkips
<1>13. ASSUME NEW p \in Sessions, BroadcastDone(p) PROVE TypeOK'
  BY <1>13, NoAnswerType DEF TypeOK, BroadcastDone
<1>14. ASSUME NEW e \in 1..MaxEpoch, AdminRelease(e) PROVE TypeOK'
  <2>1. Cleared(row) \in Rows
    BY DEF TypeOK, Cleared, Rows
  <2> QED
    BY <1>14, <2>1 DEF TypeOK, AdminRelease, hubVars
<1>15. CASE Close \/ \E c \in Clients : DisconnectControl(c)
  BY <1>15 DEF TypeOK, Close, DisconnectControl, hubVars
<1>16. CASE Tick
  BY <1>16 DEF TypeOK, Tick, hubVars
<1>17. CASE UNCHANGED vars
  BY <1>17 DEF TypeOK, vars, hubVars
<1> QED
  BY <1>1, <1>2, <1>3, <1>4, <1>5, <1>6, <1>7, <1>8, <1>9, <1>10, <1>11, <1>12,
     <1>13, <1>14, <1>15, <1>16, <1>17
  DEF Next, SessionStep

\* Every variable of the Hub keeps its type.
THEOREM Typing == Spec => []TypeOK
BY InitTypeOK, NextTypeOK, PTL DEF Spec

-----------------------------------------------------------------------------
(* The mutex and what it protects *)

LEMMA NextLeaseMutex == TypeOK /\ LeaseMutex /\ [Next]_vars => LeaseMutex'
<1> SUFFICES ASSUME TypeOK, LeaseMutex, [Next]_vars PROVE LeaseMutex'
  OBVIOUS
<1> USE DEF TypeOK, LeaseMutex, Inside
<1>1. ASSUME NEW s \in Sessions, SessionStep(s) PROVE LeaseMutex'
  <2>1. CASE Connect(s)
    BY <2>1 DEF Connect
  <2>2. CASE RouteReturn(s)
    BY <2>2 DEF RouteReturn
  <2>3. CASE \E m \in Claims : Receive(s, m)
    BY <2>3 DEF Receive
  <2>4. CASE HandleLease(s)
    BY <2>4 DEF HandleLease
  <2>5. CASE CheckLease(s)
    BY <2>5 DEF CheckLease
  <2>6. CASE Forward(s)
    BY <2>6 DEF Forward, Leave
  <2>7. CASE ForwardFails(s)
    BY <2>7 DEF ForwardFails, Leave
  <2>8. CASE Reply(s)
    BY <2>8 DEF Reply, Leave
  <2>9. CASE ReplyFails(s)
    BY <2>9 DEF ReplyFails, Leave
  <2>10. CASE Announce(s)
    BY <2>10 DEF Announce
  <2>11. CASE \E t \in Sessions : Broadcast(s, t) \/ BroadcastSkips(s, t)
    BY <2>11 DEF Broadcast, BroadcastSkips
  <2>12. CASE BroadcastDone(s)
    BY <2>12 DEF BroadcastDone
  <2> QED
    BY <1>1, <2>1, <2>2, <2>3, <2>4, <2>5, <2>6, <2>7, <2>8, <2>9, <2>10, <2>11, <2>12 DEF SessionStep
<1>2. CASE \E e \in 1..MaxEpoch : AdminRelease(e)
  BY <1>2 DEF AdminRelease, hubVars
<1>3. CASE Close \/ \E c \in Clients : DisconnectControl(c)
  BY <1>3 DEF Close, DisconnectControl, hubVars
<1>4. CASE Tick \/ UNCHANGED vars
  BY <1>4 DEF Tick, vars, hubVars
<1> QED
  BY <1>1, <1>2, <1>3, <1>4 DEF Next

\* The inductive invariant: the mutex keeps everyone else out while a checked
\* control waits for its send, so the row can only move the administrator's way.
HubInv ==
    /\ TypeOK
    /\ LeaseMutex
    /\ NoTakeoverDuringForward
    /\ ForwardOrder
    /\ RecordOrder

LEMMA InitHubInv == Init => HubInv
<1> SUFFICES ASSUME Init PROVE HubInv
  OBVIOUS
<1>1. TypeOK
  BY InitTypeOK
<1>2. \A s \in Sessions : pc[s] = "new" /\ lock # s
  BY DEF Init
<1>3. row.epoch = 0 /\ last.epoch = 0 /\ \A t \in Sessions : sent[t] = 0
  BY DEF Init, NoRow
<1> QED
  BY <1>1, <1>2, <1>3
  DEF HubInv, LeaseMutex, NoTakeoverDuringForward, ForwardOrder, RecordOrder, Inside

\* What a step by p that touches neither the row, nor last, nor sent may do:
\* nobody gets to a place where the invariant demands more than it did.
LEMMA QuietStep ==
    ASSUME HubInv, UNCHANGED <<row, last, sent>>,
           \A s \in Sessions :
               \/ pc'[s] = pc[s] /\ req'[s] = req[s] /\ answer'[s] = answer[s]
               \/ pc'[s] \in {"new", "recv", "critical", "done"}
               \/ /\ pc[s] \in {"announce", "broadcast"}
                  /\ pc'[s] \in {"announce", "broadcast", "reply"}
                  /\ req'[s] = req[s] /\ answer'[s] = answer[s]
    PROVE  NoTakeoverDuringForward' /\ ForwardOrder' /\ RecordOrder'
BY DEF HubInv, NoTakeoverDuringForward, ForwardOrder, RecordOrder

LEMMA NextHubInv == HubInv /\ [Next]_vars => HubInv'
<1> SUFFICES ASSUME HubInv, [Next]_vars PROVE HubInv'
  OBVIOUS
<1>1. TypeOK' /\ LeaseMutex'
  BY NextTypeOK, NextLeaseMutex DEF HubInv
<1> SUFFICES NoTakeoverDuringForward' /\ ForwardOrder' /\ RecordOrder'
  BY <1>1 DEF HubInv
<1>2. TypeOK /\ LeaseMutex
  BY DEF HubInv
<1>3. ASSUME NEW s \in Sessions,
             Connect(s) \/ RouteReturn(s) \/ (\E m \in Claims : Receive(s, m))
             \/ ForwardFails(s) \/ ReplyFails(s)
      PROVE  NoTakeoverDuringForward' /\ ForwardOrder' /\ RecordOrder'
  BY <1>2, <1>3, QuietStep
  DEF Connect, RouteReturn, Receive, ForwardFails, ReplyFails, Leave, TypeOK
<1>4. ASSUME NEW s \in Sessions, HandleLease(s)
      PROVE  NoTakeoverDuringForward' /\ ForwardOrder' /\ RecordOrder'
  <2>1. \A t \in Sessions : t # s => pc[t] \notin Inside /\ pc'[t] = pc[t]
    BY <1>2, <1>4 DEF HandleLease, LeaseMutex, Inside, TypeOK
  <2>2. pc'[s] \in {"announce", "reply"} /\ req'[s].op # "mutate"
    BY <1>2, <1>4 DEF HandleLease, TypeOK
  <2>3. /\ NextRow(row, row')
        /\ answer'[s].err # "internal" => answer'[s].record.epoch = row'.epoch
        /\ pc'[s] = "announce" => answer'[s].err # "internal"
    BY <1>2, <1>4, HandleFacts
  <2>4. last' = last /\ sent' = sent
    BY <1>4 DEF HandleLease
  <2>5. row.epoch \in Nat /\ last.epoch \in Nat /\ \A t \in Sessions : sent[t] \in Nat
    BY <1>2 DEF TypeOK, Rows
  <2>6. NoTakeoverDuringForward'
    BY <2>1, <2>2 DEF NoTakeoverDuringForward, Inside
  <2>7. ForwardOrder'
    BY <2>1, <2>2, <2>3, <2>4, <2>5 DEF HubInv, ForwardOrder, NextRow, Inside
  <2>8. RecordOrder'
    BY <2>1, <2>2, <2>3, <2>4, <2>5 DEF HubInv, RecordOrder, NextRow, Inside
  <2> QED
    BY <2>6, <2>7, <2>8
<1>5. ASSUME NEW s \in Sessions, CheckLease(s)
      PROVE  NoTakeoverDuringForward' /\ ForwardOrder' /\ RecordOrder'
  <2>1. \A t \in Sessions : t # s => pc[t] \notin Inside /\ pc'[t] = pc[t]
    BY <1>2, <1>5 DEF CheckLease, LeaseMutex, Inside, TypeOK
  <2>2. req[s].op = "mutate" /\ UNCHANGED <<row, last, sent, req>>
    BY <1>5 DEF CheckLease
  <2>3. \/ pc'[s] = "reply"
        \/ pc'[s] = "forward" /\ LeaseProved(s)
    BY <1>2, <1>5 DEF CheckLease, TypeOK
  <2>4. LeaseProved(s) => row.epoch # 0 /\ row.epoch = req[s].epoch /\ row.holder = ClientOf[s]
    BY DEF LeaseProved, State, Stored, Matches
  <2>5. row.epoch \in Nat /\ last.epoch \in Nat
    BY <1>2 DEF TypeOK, Rows
  <2>6. NoTakeoverDuringForward'
    BY <2>1, <2>2, <2>3, <2>4 DEF NoTakeoverDuringForward, Inside
  <2>7. ForwardOrder'
    BY <2>1, <2>2, <2>3, <2>4, <2>5 DEF HubInv, ForwardOrder, Inside
  <2>8. RecordOrder'
    BY <2>1, <2>2, <2>3 DEF HubInv, RecordOrder, Inside
  <2> QED
    BY <2>6, <2>7, <2>8
<1>6. ASSUME NEW s \in Sessions, Forward(s)
      PROVE  NoTakeoverDuringForward' /\ ForwardOrder' /\ RecordOrder'
  <2>1. \A t \in Sessions : t # s => pc[t] \notin Inside /\ pc'[t] = pc[t]
    BY <1>2, <1>6 DEF Forward, Leave, LeaseMutex, Inside, TypeOK
  <2>2. pc'[s] = "recv" /\ UNCHANGED <<row, sent>>
    BY <1>2, <1>6 DEF Forward, Leave, TypeOK
  <2>3. last'.epoch = req[s].epoch /\ last'.client = ClientOf[s] /\ pc[s] = "forward"
    BY <1>6 DEF Forward
  <2>4. row.epoch \in Nat /\ req[s].epoch \in Nat
    BY <1>2 DEF TypeOK, Rows, Requests
  <2>5. NoTakeoverDuringForward'
    BY <2>1, <2>2 DEF NoTakeoverDuringForward, Inside
  <2>6. ForwardOrder'
    BY <2>1, <2>2, <2>3, <2>4 DEF HubInv, ForwardOrder, NoTakeoverDuringForward, Inside
  <2>7. RecordOrder'
    BY <2>1, <2>2 DEF HubInv, RecordOrder, Inside
  <2> QED
    BY <2>5, <2>6, <2>7
<1>7. ASSUME NEW s \in Sessions, Reply(s)
      PROVE  NoTakeoverDuringForward' /\ ForwardOrder' /\ RecordOrder'
  <2>1. \A t \in Sessions : t # s => pc[t] \notin Inside /\ pc'[t] = pc[t]
    BY <1>2, <1>7 DEF Reply, Leave, LeaseMutex, Inside, TypeOK
  <2>2. pc'[s] = "recv" /\ UNCHANGED <<row, last>>
    BY <1>2, <1>7 DEF Reply, Leave, TypeOK
  <2>3. \A t \in Sessions :
            \/ sent'[t] = sent[t]
            \/ /\ sent'[t] = answer[s].record.epoch
               /\ req[s].op # "mutate" /\ answer[s].err # "internal"
    BY <1>2, <1>7 DEF Reply, TypeOK
  <2>4. pc[s] = "reply"
    BY <1>7 DEF Reply
  <2>5. NoTakeoverDuringForward' /\ ForwardOrder'
    BY <2>1, <2>2 DEF HubInv, NoTakeoverDuringForward, ForwardOrder, Inside
  <2>6. RecordOrder'
    BY <2>1, <2>2, <2>3, <2>4 DEF HubInv, RecordOrder, Inside
  <2> QED
    BY <2>5, <2>6
<1>8. ASSUME NEW p \in Sessions, Announce(p) \/ BroadcastDone(p)
      PROVE  NoTakeoverDuringForward' /\ ForwardOrder' /\ RecordOrder'
  BY <1>2, <1>8, QuietStep DEF Announce, BroadcastDone, TypeOK
<1>9. ASSUME NEW p \in Sessions, NEW t \in Sessions, BroadcastSkips(p, t)
      PROVE  NoTakeoverDuringForward' /\ ForwardOrder' /\ RecordOrder'
  BY <1>9, QuietStep DEF BroadcastSkips
<1>10. ASSUME NEW p \in Sessions, NEW t \in Sessions, Broadcast(p, t)
       PROVE  NoTakeoverDuringForward' /\ ForwardOrder' /\ RecordOrder'
  <2>1. UNCHANGED <<row, last, pc, req, answer>> /\ pc[p] = "broadcast"
    BY <1>10 DEF Broadcast
  <2>2. NoTakeoverDuringForward' /\ ForwardOrder'
    BY <2>1 DEF HubInv, NoTakeoverDuringForward, ForwardOrder
  <2>3. \A x \in Sessions : x # p => pc[x] \notin Inside
    BY <1>2, <2>1 DEF LeaseMutex, Inside
  <2>4. \A x \in Sessions : sent'[x] = sent[x] \/ sent'[x] = answer[p].record.epoch
    BY <1>2, <1>10 DEF Broadcast, TypeOK
  <2>5. answer[p].record.epoch \in Nat
    BY <1>2 DEF TypeOK, Answers, Records
  <2>6. RecordOrder'
    BY <2>1, <2>3, <2>4, <2>5 DEF HubInv, RecordOrder, Inside
  <2> QED
    BY <2>2, <2>6
<1>11. ASSUME NEW e \in 1..MaxEpoch, AdminRelease(e)
       PROVE  NoTakeoverDuringForward' /\ ForwardOrder' /\ RecordOrder'
  <2>1. /\ row.holder # NoClient /\ row'.holder = NoClient /\ row'.epoch = row.epoch + 1
        /\ row.epoch \in Nat /\ last.epoch \in Nat
    BY <1>2, <1>11 DEF AdminRelease, AdminMatches, Cleared, TypeOK, Rows
  <2>2. \A s \in Sessions : pc'[s] = pc[s]
    BY <1>2, <1>11 DEF AdminRelease, hubVars
  <2>3. UNCHANGED <<req, answer, sent, last>>
    BY <1>11 DEF AdminRelease, hubVars
  <2>4. \A s \in Sessions : sent[s] \in Nat /\ req[s].epoch \in Nat
                            /\ answer[s].record.epoch \in Nat
    BY <1>2 DEF TypeOK, Requests, Answers, Records
  <2>5. NoTakeoverDuringForward'
    BY <2>1, <2>2, <2>3, <2>4 DEF HubInv, NoTakeoverDuringForward
  <2>6. ForwardOrder'
    BY <2>1, <2>2, <2>3, <2>4 DEF HubInv, ForwardOrder
  <2>7. RecordOrder'
    BY <2>1, <2>2, <2>3, <2>4 DEF HubInv, RecordOrder
  <2> QED
    BY <2>5, <2>6, <2>7
<1>12. ASSUME (\E c \in Clients : DisconnectControl(c)) \/ Tick \/ UNCHANGED vars
       PROVE  NoTakeoverDuringForward' /\ ForwardOrder' /\ RecordOrder'
  BY <1>12, QuietStep DEF DisconnectControl, Tick, vars, hubVars
<1>13. CASE Close
  BY <1>2, <1>13, QuietStep DEF Close, TypeOK
<1> QED
  BY <1>3, <1>4, <1>5, <1>6, <1>7, <1>8, <1>9, <1>10, <1>11, <1>12, <1>13
  DEF Next, SessionStep

LEMMA HubInvariance == Spec => []HubInv
BY InitHubInv, NextHubInv, PTL DEF Spec

\* The per-scope mutex: the goroutine inside withLeaseLock is the one holding it.
THEOREM MutualExclusion == Spec => []LeaseMutex
<1>1. HubInv => LeaseMutex
  BY DEF HubInv
<1> QED
  BY <1>1, HubInvariance, PTL

\* A control that passed checkLease is sent before any other client can obtain
\* the lease.
THEOREM CheckedControls == Spec => [](NoTakeoverDuringForward /\ ForwardOrder)
<1>1. HubInv => NoTakeoverDuringForward /\ ForwardOrder
  BY DEF HubInv
<1> QED
  BY <1>1, HubInvariance, PTL

\* Lease-guarded controls leave the Hub in epoch order, one client per epoch.
THEOREM Fencing == Spec => FencedForwarding
<1> DEFINE Fenced == /\ last'.epoch >= last.epoch
                     /\ last'.epoch = last.epoch => last'.client = last.client
<1>1. HubInv /\ [Next]_vars => [Fenced]_last
  <2> SUFFICES ASSUME HubInv, [Next]_vars, last' # last PROVE Fenced
    OBVIOUS
  <2>1. PICK s \in Sessions : Forward(s)
    BY DEF Next, SessionStep, Connect, RouteReturn, Receive,
       HandleLease, CheckLease, ForwardFails, Reply, ReplyFails, Announce, Broadcast,
       BroadcastSkips, BroadcastDone, AdminRelease, DisconnectControl, Close, Tick, vars, hubVars
  <2>2. last'.epoch = req[s].epoch /\ last'.client = ClientOf[s] /\ pc[s] = "forward"
    BY <2>1 DEF Forward
  <2>3. last.epoch \in Nat /\ req[s].epoch \in Nat
    BY DEF HubInv, TypeOK, Requests
  <2> QED
    BY <2>2, <2>3 DEF HubInv, ForwardOrder
<1> QED
  BY <1>1, HubInvariance, PTL DEF Spec, FencedForwarding

\* A lease never changes hands within an epoch and the epoch never falls: every
\* transaction, the administrator's included, is one of the moves of NextRow.
THEOREM Ownership == Spec => EpochOwnership
<1> DEFINE Owned == /\ row'.epoch >= row.epoch
                    /\ row'.holder # row.holder => row'.epoch > row.epoch
<1>1. HubInv /\ [Next]_vars => [Owned]_row
  <2> SUFFICES ASSUME HubInv, [Next]_vars, row' # row PROVE Owned
    OBVIOUS
  <2>1. row.epoch \in Nat
    BY DEF HubInv, TypeOK, Rows
  <2>2. \/ \E s \in Sessions : HandleLease(s)
        \/ \E e \in 1..MaxEpoch : AdminRelease(e)
    BY DEF Next, SessionStep, Connect, RouteReturn, Receive,
       Forward, CheckLease, ForwardFails, Reply, ReplyFails, Announce, Broadcast,
       BroadcastSkips, BroadcastDone, DisconnectControl, Close, Tick, vars, hubVars
  <2>3. ASSUME NEW s \in Sessions, HandleLease(s) PROVE Owned
    <3>1. NextRow(row, row')
      BY <2>3, HandleFacts DEF HubInv
    <3> QED
      BY <2>1, <3>1 DEF NextRow
  <2>4. ASSUME NEW e \in 1..MaxEpoch, AdminRelease(e) PROVE Owned
    BY <2>1, <2>4 DEF AdminRelease, Cleared
  <2> QED
    BY <2>2, <2>3, <2>4
<1> QED
  BY <1>1, HubInvariance, PTL DEF Spec, EpochOwnership

\* What lease handlers put on a control connection is in epoch order.
THEOREM FrameOrder == Spec => LeaseFramesInOrder
<1> DEFINE Ordered == \A s \in Sessions : sent'[s] >= sent[s]
<1>1. HubInv /\ [Next]_vars => [Ordered]_sent
  <2> SUFFICES ASSUME HubInv, [Next]_vars, sent' # sent PROVE Ordered
    OBVIOUS
  <2>1. sent \in [Sessions -> Nat] /\ \A p \in Sessions : answer[p].record.epoch \in Nat
    BY DEF HubInv, TypeOK, Answers, Records
  <2>2. \/ \E s \in Sessions : Reply(s)
        \/ \E p \in Sessions, t \in Sessions : Broadcast(p, t)
    BY DEF Next, SessionStep, Connect, RouteReturn, Receive,
       HandleLease, CheckLease, Forward, ForwardFails, ReplyFails, Announce,
       BroadcastSkips, BroadcastDone, AdminRelease, DisconnectControl, Close, Tick, vars, hubVars
  <2>3. ASSUME NEW s \in Sessions, Reply(s) PROVE Ordered
    <3>1. req[s].op # "mutate" /\ answer[s].err # "internal" /\ sent' = [sent EXCEPT ![s] = answer[s].record.epoch]
      BY <2>3 DEF Reply
    <3>2. sent[s] <= answer[s].record.epoch
      BY <2>3, <3>1 DEF Reply, HubInv, RecordOrder
    <3> QED
      BY <2>1, <3>1, <3>2
  <2>4. ASSUME NEW p \in Sessions, NEW t \in Sessions, Broadcast(p, t) PROVE Ordered
    <3>1. sent' = [sent EXCEPT ![t] = answer[p].record.epoch]
      BY <2>4 DEF Broadcast
    <3>2. sent[t] <= answer[p].record.epoch
      BY <2>4, <3>1 DEF Broadcast, HubInv, RecordOrder
    <3> QED
      BY <2>1, <2>4, <3>1, <3>2
  <2> QED
    BY <2>2, <2>3, <2>4
<1> QED
  BY <1>1, HubInvariance, PTL DEF Spec, LeaseFramesInOrder

\* A reconnected client stays registered however late the connection it replaced
\* unregisters: the four steps of a goroutine that write the registry are the
\* only ones to look at (hub.go, unregister's comparison).
THEOREM Registration == Spec => NobodyElseUnregisters
<1> DEFINE Kept == \A s, t \in Sessions :
                      /\ SessionStep(s) /\ s # t
                      /\ controls[ClientOf[t]] = t /\ controls'[ClientOf[t]] # t
                      => controls'[ClientOf[t]] = s /\ pc[s] = "new"
<1>1. HubInv /\ [Next]_vars => [Kept]_vars
  <2> SUFFICES ASSUME HubInv, NEW s \in Sessions, NEW t \in Sessions, SessionStep(s), s # t,
                      controls[ClientOf[t]] = t, controls'[ClientOf[t]] # t
               PROVE  controls'[ClientOf[t]] = s /\ pc[s] = "new"
    OBVIOUS
  <2>1. controls \in [Clients -> Sessions \cup {NoOne}] /\ ClientOf[t] \in Clients
    BY DEF HubInv, TypeOK
  <2>2. Connect(s) \/ RouteReturn(s) \/ ForwardFails(s) \/ ReplyFails(s)
    BY DEF SessionStep, Receive, HandleLease, CheckLease,
       Forward, Reply, Announce, Broadcast, BroadcastSkips, BroadcastDone
  <2>3. CASE Connect(s)
    BY <2>1, <2>3 DEF Connect
  <2>4. CASE RouteReturn(s) \/ ForwardFails(s) \/ ReplyFails(s)
    <3>1. Unregister(s)
      BY <2>4 DEF RouteReturn, ForwardFails, ReplyFails
    <3> QED
      BY <2>1, <3>1 DEF Unregister
  <2> QED
    BY <2>2, <2>3, <2>4
<1> QED
  BY <1>1, HubInvariance, PTL DEF Spec, NobodyElseUnregisters

-----------------------------------------------------------------------------
(* LeaseHub implements LeasePromise *)

\* Where the permit comes from: the one session that is about to forward.
LEMMA PermitFacts ==
    ASSUME HubInv
    PROVE  /\ \A s \in Sessions : pc[s] = "forward" =>
                  PermitOut = [client |-> ClientOf[s], epoch |-> req[s].epoch]
           /\ (\A s \in Sessions : pc[s] # "forward") => PermitOut = Promise!Nothing
<1>1. \A s \in Sessions : pc[s] = "forward" => lock = s
  BY DEF HubInv, LeaseMutex, Inside
<1>2. \A s \in Sessions : s # NoOne
  BY LeaseHubAssumption
<1>3. lock \in Sessions \cup {NoOne}
  BY DEF HubInv, TypeOK
<1> QED
  BY <1>1, <1>2, <1>3 DEF PermitOut, Promise!Nothing

\* A transaction of a client leaves holder and epoch alone, gives the lease to
\* that client or ends a lease that somebody holds.
LeaseMove(r, c, new) ==
    \/ new.holder = r.holder /\ new.epoch = r.epoch
    \/ new.holder = c /\ new.epoch = r.epoch + 1
    \/ r.holder # NoClient /\ new.holder = NoClient /\ new.epoch = r.epoch + 1

LEMMA StoreOpMoves ==
    ASSUME TypeOK, NEW s \in Sessions
    PROVE  LeaseMove(row, ClientOf[s], StoreOp(s).row)
<1>1. /\ row \in Rows /\ clock \in Nat /\ ClientOf[s] \in Clients
      /\ req[s] \in Requests
  BY DEF TypeOK
<1>2. CASE req[s].op \in {"acquire", "takeover"}
  <2>1. StoreOp(s) = AcquireLease(row, ClientOf[s], req[s].op, req[s].expected, clock)
    BY <1>2 DEF StoreOp
  <2> QED
    BY <1>1, <2>1 DEF AcquireLease, Outcome, Granted, LeaseMove
<1>3. CASE req[s].op = "renew"
  <2>1. StoreOp(s) = RenewLease(row, ClientOf[s], req[s].epoch, clock)
    BY <1>3 DEF StoreOp
  <2> QED
    BY <1>1, <2>1 DEF RenewLease, Outcome, LeaseMove, Rows
<1>4. CASE req[s].op = "release"
  <2>1. StoreOp(s) = ReleaseLease(row, ClientOf[s], req[s].epoch)
    BY <1>4 DEF StoreOp
  <2> QED
    BY <1>1, <2>1 DEF ReleaseLease, Outcome, Cleared, Matches, LeaseMove
<1>5. CASE req[s].op \notin {"acquire", "takeover", "renew", "release"}
  <2>1. StoreOp(s) = Lease(row, clock)
    BY <1>5 DEF StoreOp
  <2> QED
    BY <2>1 DEF Lease, Outcome, LeaseMove
<1> QED
  BY <1>2, <1>3, <1>4, <1>5

\* A step that changes neither the row, nor last, nor who is about to forward
\* what, is a stutter of the promise.
LEMMA PromiseStutters ==
    ASSUME HubInv, HubInv', UNCHANGED <<row, last>>,
           \A s \in Sessions : pc[s] = "forward" <=> pc'[s] = "forward",
           \A s \in Sessions : pc[s] = "forward" => req'[s] = req[s]
    PROVE  UNCHANGED Promise!promiseVars
<1>1. PermitOut' = PermitOut
  <2>1. CASE \E s \in Sessions : pc[s] = "forward"
    <3>1. PICK s \in Sessions : pc[s] = "forward"
      BY <2>1
    <3>2. PermitOut = [client |-> ClientOf[s], epoch |-> req[s].epoch]
      BY <3>1, PermitFacts
    <3>3. lock' = s /\ pc'[s] = "forward" /\ req'[s] = req[s]
      BY <3>1 DEF HubInv, LeaseMutex, Inside
    <3>4. s # NoOne
      BY LeaseHubAssumption
    <3> QED
      BY <3>2, <3>3, <3>4 DEF PermitOut
  <2>2. CASE \A s \in Sessions : pc[s] # "forward"
    <3>1. PermitOut = Promise!Nothing
      BY <2>2, PermitFacts
    <3>2. lock' \in Sessions \cup {NoOne}
      BY DEF HubInv, TypeOK
    <3> QED
      BY <2>2, <3>1, <3>2 DEF PermitOut, Promise!Nothing
  <2> QED
    BY <2>1, <2>2
<1> QED
  BY <1>1 DEF Promise!promiseVars

LEMMA HubStepKeepsPromise ==
    HubInv /\ HubInv' /\ [Next]_vars => [Promise!Next]_(Promise!promiseVars)
<1> SUFFICES ASSUME HubInv, HubInv', [Next]_vars
             PROVE  [Promise!Next]_(Promise!promiseVars)
  OBVIOUS
<1>1. TypeOK /\ LeaseMutex /\ LeaseMutex' /\ TypeOK'
  BY DEF HubInv
<1>2. ASSUME NEW s \in Sessions,
             Connect(s) \/ RouteReturn(s) \/ (\E m \in Claims : Receive(s, m))
             \/ Reply(s) \/ ReplyFails(s)
      PROVE  UNCHANGED Promise!promiseVars
  BY <1>1, <1>2, PromiseStutters
  DEF Connect, RouteReturn, Receive, Reply, ReplyFails, Leave, TypeOK
<1>3. ASSUME NEW s \in Sessions, HandleLease(s)
      PROVE  [Promise!Next]_(Promise!promiseVars)
  <2>1. \A t \in Sessions : pc[t] # "forward" /\ pc'[t] # "forward"
    BY <1>1, <1>3 DEF HandleLease, LeaseMutex, Inside, TypeOK
  <2>2. PermitOut = Promise!Nothing
    BY <2>1, PermitFacts
  <2>3. PermitOut' = Promise!Nothing
    <3>1. lock' \in Sessions \cup {NoOne}
      BY <1>1 DEF TypeOK
    <3> QED
      BY <2>1, <3>1 DEF PermitOut, Promise!Nothing
  <2>4. last' = last /\ LeaseMove(row, ClientOf[s], row') /\ ClientOf[s] \in Clients
    <3>1. PICK out \in {StoreOp(s), Failed(row)} : row' = out.row
      BY <1>3 DEF HandleLease
    <3>2. LeaseMove(row, ClientOf[s], out.row)
      BY <1>1, StoreOpMoves, FailedFacts DEF LeaseMove, TypeOK
    <3> QED
      BY <1>3, <3>1, <3>2 DEF HandleLease
  <2>5. CASE row'.holder = row.holder /\ row'.epoch = row.epoch
    BY <2>2, <2>3, <2>4, <2>5 DEF Promise!promiseVars
  <2>6. CASE row'.holder = ClientOf[s] /\ row'.epoch = row.epoch + 1
    <3>1. Promise!Obtain(ClientOf[s])
      BY <2>2, <2>3, <2>4, <2>6 DEF Promise!Obtain
    <3> QED
      BY <2>4, <3>1 DEF Promise!Next
  <2>7. CASE row.holder # NoClient /\ row'.holder = NoClient /\ row'.epoch = row.epoch + 1
    <3>1. Promise!End
      BY <2>2, <2>3, <2>4, <2>7 DEF Promise!End
    <3> QED
      BY <3>1 DEF Promise!Next
  <2> QED
    BY <2>4, <2>5, <2>6, <2>7 DEF LeaseMove
<1>4. ASSUME NEW s \in Sessions, CheckLease(s)
      PROVE  [Promise!Next]_(Promise!promiseVars)
  <2>1. pc[s] = "critical" /\ UNCHANGED <<row, last, req, lock>>
    BY <1>4 DEF CheckLease
  <2>2. \A t \in Sessions : pc[t] # "forward" /\ (t # s => pc'[t] # "forward")
    BY <1>1, <1>4 DEF CheckLease, LeaseMutex, Inside, TypeOK
  <2>3. PermitOut = Promise!Nothing
    BY <2>2, PermitFacts
  <2>4. lock = s /\ s # NoOne
    BY <1>1, <2>1, LeaseHubAssumption DEF LeaseMutex, Inside
  <2>5. CASE pc'[s] = "reply"
    <3>2. PermitOut' = Promise!Nothing
      BY <2>1, <2>4, <2>5 DEF PermitOut, Promise!Nothing
    <3> QED
      BY <2>1, <2>3, <3>2 DEF Promise!promiseVars
  <2>6. CASE pc'[s] = "forward" /\ LeaseProved(s)
    <3>1. pc'[s] = "forward"
      BY <2>6
    <3>2. row.holder = ClientOf[s] /\ row.epoch = req[s].epoch /\ ClientOf[s] \in Clients
      BY <2>6, LeaseHubAssumption DEF LeaseProved, Matches
    <3>3. PermitOut' = [client |-> row.holder, epoch |-> row.epoch]
      BY <2>1, <2>4, <3>1, <3>2 DEF PermitOut
    <3>4. row.holder # NoClient
      BY <3>2, LeaseTableAssumption
    <3>5. Promise!Permit
      BY <2>1, <2>3, <3>3, <3>4 DEF Promise!Permit
    <3> QED
      BY <3>5 DEF Promise!Next
  <2> QED
    BY <1>1, <1>4, <2>5, <2>6 DEF CheckLease, TypeOK
<1>5. ASSUME NEW s \in Sessions, Forward(s) \/ ForwardFails(s)
      PROVE  [Promise!Next]_(Promise!promiseVars)
  <2>1. pc[s] = "forward" /\ row' = row /\ lock' = NoOne
    BY <1>5 DEF Forward, ForwardFails, Leave
  <2>2. PermitOut = [client |-> ClientOf[s], epoch |-> req[s].epoch]
    BY <2>1, PermitFacts
  <2>3. PermitOut # Promise!Nothing
    BY <2>2, LeaseHubAssumption, LeaseTableAssumption DEF Promise!Nothing
  <2>4. PermitOut' = Promise!Nothing
    BY <2>1 DEF PermitOut, Promise!Nothing
  <2>5. CASE Forward(s)
    <3>1. last' = PermitOut
      BY <2>2, <2>5 DEF Forward
    <3>2. Promise!Deliver
      BY <2>1, <2>3, <2>4, <3>1 DEF Promise!Deliver
    <3> QED
      BY <3>2 DEF Promise!Next
  <2>6. CASE ForwardFails(s)
    <3>1. last' = last
      BY <2>6 DEF ForwardFails
    <3>2. Promise!Drop
      BY <2>1, <2>3, <2>4, <3>1 DEF Promise!Drop
    <3> QED
      BY <3>2 DEF Promise!Next
  <2> QED
    BY <1>5, <2>5, <2>6
<1>6. ASSUME NEW p \in Sessions,
             Announce(p) \/ BroadcastDone(p) \/ \E t \in Sessions : Broadcast(p, t) \/ BroadcastSkips(p, t)
      PROVE  UNCHANGED Promise!promiseVars
  <2>1. CASE Announce(p) \/ BroadcastDone(p)
    BY <1>1, <2>1, PromiseStutters DEF Announce, BroadcastDone, TypeOK
  <2>2. CASE \E t \in Sessions : Broadcast(p, t) \/ BroadcastSkips(p, t)
    BY <2>2, PromiseStutters DEF Broadcast, BroadcastSkips
  <2> QED
    BY <1>6, <2>1, <2>2
<1>7. ASSUME NEW e \in 1..MaxEpoch, AdminRelease(e)
      PROVE  [Promise!Next]_(Promise!promiseVars)
  <2>1. /\ row.holder # NoClient /\ row'.holder = NoClient /\ row'.epoch = row.epoch + 1
        /\ UNCHANGED <<lock, req, last>>
    BY <1>7 DEF AdminRelease, AdminMatches, Cleared, hubVars
  <2>2. \A s \in Sessions : pc'[s] = pc[s]
    BY <1>7 DEF AdminRelease, hubVars
  <2>3. PermitOut' = PermitOut
    <3>1. lock \in Sessions \cup {NoOne}
      BY <1>1 DEF TypeOK
    <3> QED
      BY <2>1, <2>2, <3>1 DEF PermitOut
  <2>4. Promise!End
    BY <2>1, <2>3 DEF Promise!End
  <2> QED
    BY <2>4 DEF Promise!Next
<1>8. CASE Close \/ \E c \in Clients : DisconnectControl(c)
  BY <1>1, <1>8, PromiseStutters DEF Close, DisconnectControl, hubVars, TypeOK
<1>9. CASE Tick \/ UNCHANGED vars
  BY <1>9, PromiseStutters DEF Tick, vars, hubVars
<1> QED
  BY <1>2, <1>3, <1>4, <1>5, <1>6, <1>7, <1>8, <1>9 DEF Next, SessionStep

\* The Hub implements the promise for any clients, connections and claims: the
\* mutex, the check and the epoch together make a control of lease_hub.go a
\* permit that nobody can outrun.
THEOREM PromiseKept == Spec => KeepsPromise
<1>1. Init => Promise!Init
  <2> SUFFICES ASSUME Init PROVE Promise!Init
    OBVIOUS
  <2>1. PermitOut = Promise!Nothing
    BY DEF Init, PermitOut, Promise!Nothing
  <2> QED
    BY <2>1 DEF Init, Promise!Init, Promise!Nothing, NoRow
<1>2. HubInv /\ HubInv' /\ [Next]_vars => [Promise!Next]_(Promise!promiseVars)
  BY HubStepKeepsPromise
<1> QED
  BY <1>1, <1>2, HubInvariance, PTL DEF Spec, Promise!Spec, KeepsPromise

-----------------------------------------------------------------------------
(* What a browser can know about the lease *)

Holders == Clients \cup {NoClient}

\* An epoch the row has had; of the current one, its holder or nobody.
Known(epoch, holder) ==
    /\ epoch \in Nat /\ epoch <= lease.epoch
    /\ epoch = lease.epoch /\ holder # NoClient => holder = lease.holder

ControlOps == {"acquire", "takeover", "renew", "release", "status"}
KnownRecords == {r \in Records : Known(r.epoch, r.holder)}
KnownControls == {r \in [op : ControlOps, expected : Nat \cup {AnyEpoch}, epoch : Nat, seen : Holders] :
                     r.op = "takeover" => Known(r.expected, r.seen)}
KnownPending == [op : ControlOps, since : 0..lease.epoch]
KnownFrames == [kind : {"result", "changed"}, err : Errors, record : KnownRecords]
KnownJobs == [client : Clients, live : BOOLEAN, req : KnownControls, err : Errors, record : KnownRecords]
KnownOrphans == [client : Clients, req : KnownControls]
KnownViews == {v \in [state : {"none", "held", "expired", "occupied", "lost"}, holder : Holders,
                      epoch : Nat, expires : Nat] : Known(v.epoch, v.holder)}

KnowInv ==
    /\ time \in Nat /\ lease \in Rows /\ connected \subseteq Clients /\ crossed \in BOOLEAN
    /\ up \in [Clients -> Seq(KnownControls)]
    /\ down \in [Clients -> Seq(KnownFrames)]
    /\ pending \in [Clients -> Seq(KnownPending)]
    /\ orphans \subseteq KnownOrphans
    /\ job \in KnownJobs \cup {NoJob}
    /\ admin \in [at : {"idle", "read", "announce"}, record : KnownRecords]
    /\ view \in [Clients -> KnownViews]
    /\ timer \in [Clients -> 0..lease.epoch]

LEMMA NoJobFacts == NoJob \notin KnownJobs
<1>1. \A j \in KnownJobs : j.client # NoClient
  BY DEF KnownJobs
<1> QED
  BY <1>1 DEF NoJob

\* What is known stays known when the row moves on.
LEMMA KnowledgeLasts ==
    ASSUME lease \in Rows, lease' \in Rows, NextRow(lease, lease')
    PROVE  /\ KnownRecords \subseteq KnownRecords' /\ KnownControls \subseteq KnownControls'
           /\ KnownPending \subseteq KnownPending' /\ KnownFrames \subseteq KnownFrames'
           /\ KnownJobs \subseteq KnownJobs' /\ KnownOrphans \subseteq KnownOrphans'
           /\ KnownViews \subseteq KnownViews' /\ 0..lease.epoch \subseteq 0..lease'.epoch
<1>1. lease.epoch \in Nat /\ lease'.epoch \in Nat /\ lease.epoch <= lease'.epoch
  BY DEF Rows, NextRow
<1>2. \A e, h : Known(e, h) => Known(e, h)'
  BY <1>1 DEF Known, NextRow
<1>3. KnownRecords \subseteq KnownRecords' /\ KnownControls \subseteq KnownControls' /\ KnownViews \subseteq KnownViews'
  BY <1>2 DEF KnownRecords, KnownControls, KnownViews
<1>4. 0..lease.epoch \subseteq 0..lease'.epoch
  BY <1>1
<1>5. KnownPending \subseteq KnownPending'
  BY <1>4 DEF KnownPending
<1>6. KnownFrames \subseteq KnownFrames' /\ KnownJobs \subseteq KnownJobs' /\ KnownOrphans \subseteq KnownOrphans'
  BY <1>3 DEF KnownFrames, KnownJobs, KnownOrphans
<1> QED
  BY <1>3, <1>4, <1>5, <1>6

LEMMA QueuesLast ==
    ASSUME NEW S, NEW T, S \subseteq T, NEW q \in [Clients -> Seq(S)]
    PROVE  q \in [Clients -> Seq(T)]
<1>1. \A c \in Clients : q[c] \in Seq(T)
  BY SeqMonotonic
<1> QED
  BY <1>1

LEMMA KnowStays ==
    ASSUME KnowInv, lease' \in Rows, NextRow(lease, lease')
    PROVE  /\ up \in [Clients -> Seq(KnownControls')] /\ down \in [Clients -> Seq(KnownFrames')]
           /\ pending \in [Clients -> Seq(KnownPending')] /\ orphans \subseteq KnownOrphans'
           /\ job \in KnownJobs' \cup {NoJob} /\ view \in [Clients -> KnownViews']
           /\ admin \in [at : {"idle", "read", "announce"}, record : KnownRecords']
           /\ timer \in [Clients -> 0..lease'.epoch]
<1>1. /\ KnownRecords \subseteq KnownRecords' /\ KnownControls \subseteq KnownControls'
      /\ KnownPending \subseteq KnownPending' /\ KnownFrames \subseteq KnownFrames'
      /\ KnownJobs \subseteq KnownJobs' /\ KnownOrphans \subseteq KnownOrphans'
      /\ KnownViews \subseteq KnownViews' /\ 0..lease.epoch \subseteq 0..lease'.epoch
  BY KnowledgeLasts DEF KnowInv
<1>2. up \in [Clients -> Seq(KnownControls')]
  BY <1>1, QueuesLast DEF KnowInv
<1>3. down \in [Clients -> Seq(KnownFrames')]
  BY <1>1, QueuesLast DEF KnowInv
<1>4. pending \in [Clients -> Seq(KnownPending')]
  BY <1>1, QueuesLast DEF KnowInv
<1>5. orphans \subseteq KnownOrphans' /\ job \in KnownJobs' \cup {NoJob}
  BY <1>1 DEF KnowInv
<1>6. view \in [Clients -> KnownViews'] /\ timer \in [Clients -> 0..lease'.epoch]
  BY <1>1 DEF KnowInv
<1>7. admin \in [at : {"idle", "read", "announce"}, record : KnownRecords']
  BY <1>1 DEF KnowInv
<1> QED
  BY <1>2, <1>3, <1>4, <1>5, <1>6, <1>7

\* With the row as it is the sets are what they were.
LEMMA SameKnowledge ==
    ASSUME lease' = lease
    PROVE  /\ KnownRecords' = KnownRecords /\ KnownControls' = KnownControls
           /\ KnownPending' = KnownPending /\ KnownFrames' = KnownFrames
           /\ KnownJobs' = KnownJobs /\ KnownOrphans' = KnownOrphans
           /\ KnownViews' = KnownViews
<1>1. \A e, h : Known(e, h)' <=> Known(e, h)
  BY DEF Known
<1>2. KnownRecords' = KnownRecords
  BY <1>1 DEF KnownRecords
<1>3. KnownControls' = KnownControls
  BY <1>1 DEF KnownControls
<1>4. KnownViews' = KnownViews
  BY <1>1 DEF KnownViews
<1>5. KnownPending' = KnownPending
  BY DEF KnownPending
<1> QED
  BY <1>2, <1>3, <1>4, <1>5 DEF KnownFrames, KnownJobs, KnownOrphans

-----------------------------------------------------------------------------
(* The store's answers *)

\* What a transaction returns: the row as it leaves it.  Where it starts a new
\* epoch it is news, and a takeover that succeeds had the epoch it expected.
LEMMA CallFacts ==
    ASSUME lease \in Rows, time \in Nat, NEW c \in Clients, NEW r \in KnownControls
    PROVE  LET out == StoreCall(c, r)
           IN  /\ out \in Outcomes /\ NextRow(lease, out.row)
               /\ out.record.epoch = out.row.epoch /\ out.record.holder = out.row.holder
               /\ \/ out.row.epoch = lease.epoch
                  \/ out.err = "none" /\ r.op # "status" /\ out.record.state \in {"held", "released"}
               /\ r.op = "takeover" /\ out.err = "none" /\ r.seen # NoClient => lease.holder = r.seen
<1>1. /\ r.op \in ControlOps /\ r.expected \in Nat \cup {AnyEpoch} /\ r.epoch \in Nat
      /\ r.op = "takeover" => Known(r.expected, r.seen)
  BY DEF KnownControls
<1>2. ASSUME NEW err, NEW row1, NEW state
      PROVE  /\ Outcome(err, row1, state).row = row1 /\ Outcome(err, row1, state).err = err
             /\ Outcome(err, row1, state).record.holder = row1.holder
             /\ Outcome(err, row1, state).record.epoch = row1.epoch
             /\ Outcome(err, row1, state).record.state = state
  BY DEF Outcome, Record
<1>3. CASE r.op \in {"acquire", "takeover"}
  <2> DEFINE out == AcquireLease(lease, c, r.op, r.expected, time)
  <2>1. out \in Outcomes /\ NextRow(lease, out.row) /\ out.record.epoch = out.row.epoch
    <3>1. \A e \in Nat \cup {AnyEpoch} :
             LET o == AcquireLease(lease, c, r.op, e, time)
             IN  o \in Outcomes /\ NextRow(lease, o.row) /\ o.record.epoch = o.row.epoch
      BY AcquireLeaseFacts
    <3> QED
      BY <1>1, <3>1
  <2>2. \/ out = Outcome("conflict", lease, State(lease, time))
        \/ /\ out = Outcome("none", lease, "held") \/ out = Outcome("none", Granted(lease, c, time), "held")
           /\ r.expected = AnyEpoch \/ r.expected = lease.epoch
    BY DEF AcquireLease
  <2>3. r.op = "takeover" /\ out.err = "none" /\ r.seen # NoClient => lease.holder = r.seen
    BY <1>1, <1>2, <2>2 DEF Known, AnyEpoch
  <2>4. StoreCall(c, r) = out
    BY <1>3 DEF StoreCall
  <2> HIDE DEF out
  <2>5. /\ out.record.holder = out.row.holder
        /\ out.row.epoch = lease.epoch \/ (out.err = "none" /\ out.record.state = "held")
    BY <1>2, <2>2
  <2> QED
    BY <1>3, <2>1, <2>3, <2>4, <2>5
<1>4. CASE r.op = "renew"
  <2> DEFINE out == RenewLease(lease, c, r.epoch, time)
  <2>1. out \in Outcomes /\ NextRow(lease, out.row) /\ out.record.epoch = out.row.epoch
    BY <1>1, RenewLeaseFacts
  <2>2. StoreCall(c, r) = out
    BY <1>4 DEF StoreCall
  <2>3. \E err, state, e : out = Outcome(err, lease, state) \/ out = Outcome(err, [lease EXCEPT !.expires = e], state)
    BY DEF RenewLease
  <2> HIDE DEF out
  <2>4. \A e : [lease EXCEPT !.expires = e].epoch = lease.epoch
    BY DEF Rows
  <2>5. out.record.holder = out.row.holder /\ out.row.epoch = lease.epoch
    <3> PICK err, state, e : out = Outcome(err, lease, state) \/ out = Outcome(err, [lease EXCEPT !.expires = e], state)
      BY <2>3
    <3>1. CASE out = Outcome(err, lease, state)
      BY <1>2, <3>1
    <3> DEFINE new == [lease EXCEPT !.expires = e]
    <3>2. CASE out = Outcome(err, new, state)
      <4>1. new.epoch = lease.epoch
        BY <2>4
      <4> HIDE DEF new
      <4> QED
        BY <1>2, <3>2, <4>1
    <3> QED
      BY <3>1, <3>2
  <2> QED
    BY <1>4, <2>1, <2>2, <2>5
<1>5. CASE r.op = "release"
  <2> DEFINE out == ReleaseLease(lease, c, r.epoch)
  <2>1. out \in Outcomes /\ NextRow(lease, out.row) /\ out.record.epoch = out.row.epoch
    BY <1>1, ReleaseLeaseFacts
  <2>2. StoreCall(c, r) = out
    BY <1>5 DEF StoreCall
  <2>3. (\E err, state : out = Outcome(err, lease, state)) \/ out = Outcome("none", Cleared(lease), "released")
    BY DEF ReleaseLease
  <2> HIDE DEF out
  <2>4. /\ out.record.holder = out.row.holder
        /\ out.row.epoch = lease.epoch \/ (out.err = "none" /\ out.record.state = "released")
    BY <1>2, <2>3
  <2> QED
    BY <1>5, <2>1, <2>2, <2>4
<1>6. CASE r.op = "status"
  <2> DEFINE out == Lease(lease, time)
  <2>1. out \in Outcomes /\ NextRow(lease, out.row) /\ out.record.epoch = out.row.epoch
    BY LeaseFacts
  <2>2. StoreCall(c, r) = out
    BY <1>6 DEF StoreCall
  <2>3. out = Outcome("none", lease, State(lease, time))
    BY DEF Lease
  <2> HIDE DEF out
  <2> QED
    BY <1>2, <1>6, <2>1, <2>2, <2>3
<1> QED
  BY <1>1, <1>3, <1>4, <1>5, <1>6 DEF ControlOps

LEMMA TransactFacts ==
    ASSUME KnowInv, NEW c \in Clients, NEW r \in KnownControls, NEW live \in BOOLEAN, Transact(c, r, live)
    PROVE  /\ job = NoJob /\ lease' \in Rows /\ NextRow(lease, lease')
           /\ job' \in KnownJobs' /\ job'.client = c /\ job'.live = live /\ job'.req = r
           /\ job'.record.epoch = lease'.epoch
           /\ lease'.epoch = lease.epoch \/ IsNews(job')
           /\ r.op = "takeover" /\ job'.err = "none" /\ r.seen # NoClient => lease.holder = r.seen
           /\ crossed' \in BOOLEAN /\ (~crossed' => ~crossed /\ admin.at = "idle")
           /\ UNCHANGED <<time, connected, down, pending, admin, view, timer, connects, releases>>
<1> DEFINE out == StoreCall(c, r)
<1>1. /\ out \in Outcomes /\ NextRow(lease, out.row)
      /\ out.record.epoch = out.row.epoch /\ out.record.holder = out.row.holder
      /\ \/ out.row.epoch = lease.epoch
         \/ out.err = "none" /\ r.op # "status" /\ out.record.state \in {"held", "released"}
      /\ r.op = "takeover" /\ out.err = "none" /\ r.seen # NoClient => lease.holder = r.seen
  BY CallFacts DEF KnowInv
<1>2. /\ job = NoJob /\ lease' = out.row
      /\ job' = [client |-> c, live |-> live, req |-> r, err |-> out.err, record |-> out.record]
      /\ UNCHANGED <<time, connected, down, pending, admin, view, timer, connects, releases>>
  BY DEF Transact, MutexFree
<1> HIDE DEF out
<1>8. crossed' \in BOOLEAN /\ (~crossed' => ~crossed /\ admin.at = "idle")
  BY DEF Transact, KnowInv
<1>3. out.row \in Rows /\ out.err \in Errors /\ out.record \in Records
  BY <1>1 DEF Outcomes
<1>4. out.record \in KnownRecords'
  BY <1>1, <1>2, <1>3 DEF KnownRecords, Known, Rows
<1>5. r \in KnownControls'
  BY <1>1, <1>2, <1>3, KnowledgeLasts DEF KnowInv
<1>6. job' \in KnownJobs'
  BY <1>2, <1>3, <1>4, <1>5 DEF KnownJobs
<1>7. lease'.epoch = lease.epoch \/ IsNews(job')
  BY <1>1, <1>2 DEF IsNews
<1> QED
  BY <1>1, <1>2, <1>3, <1>6, <1>7, <1>8

-----------------------------------------------------------------------------
(* Requests and answers *)

Results(q) == {i \in 1..Len(q) : q[i].kind = "result"}

InFlight(c) == IF job # NoJob /\ job.live /\ job.client = c THEN 1 ELSE 0

\* Every pending request is on its way, being handled, or answered and unread.
CountInv ==
    \A c \in Clients :
        /\ Len(pending[c]) = Len(up[c]) + InFlight(c) + Cardinality(Results(down[c]))
        /\ c \notin connected => pending[c] = <<>>

LEMMA ResultsFinite ==
    ASSUME NEW q, Len(q) \in Nat
    PROVE  /\ IsFiniteSet(Results(q)) /\ Cardinality(Results(q)) \in Nat
           /\ Cardinality(Results(q)) <= Len(q)
<1>1. IsFiniteSet(1..Len(q)) /\ Cardinality(1..Len(q)) = Len(q)
  <2>1. 1 \in Int /\ Len(q) \in Int
    OBVIOUS
  <2> QED
    BY <2>1, FS_Interval
<1>2. Results(q) \subseteq 1..Len(q)
  BY DEF Results
<1> QED
  BY <1>1, <1>2, FS_Subset, FS_CardinalityType

LEMMA ResultsEmpty == Cardinality(Results(<<>>)) = 0
<1>1. Results(<<>>) = {}
  BY DEF Results
<1> QED
  BY <1>1, FS_EmptySet

LEMMA ResultsAppend ==
    ASSUME NEW S, NEW q \in Seq(S), NEW f \in S
    PROVE  Cardinality(Results(Append(q, f))) =
               Cardinality(Results(q)) + (IF f.kind = "result" THEN 1 ELSE 0)
<1>1. /\ Len(Append(q, f)) = Len(q) + 1 /\ Append(q, f)[Len(q) + 1] = f
      /\ \A i \in 1..Len(q) : Append(q, f)[i] = q[i]
  OBVIOUS
<1>2. Len(q) \in Nat /\ IsFiniteSet(Results(q)) /\ Cardinality(Results(q)) \in Nat
  BY ResultsFinite
<1>3. CASE f.kind = "result"
  <2>1. Results(Append(q, f)) = Results(q) \cup {Len(q) + 1}
    BY <1>1, <1>2, <1>3 DEF Results
  <2>2. Len(q) + 1 \notin Results(q)
    BY <1>2 DEF Results
  <2> QED
    BY <1>2, <1>3, <2>1, <2>2, FS_AddElement
<1>4. CASE f.kind # "result"
  <2>1. Results(Append(q, f)) = Results(q)
    BY <1>1, <1>2, <1>4 DEF Results
  <2> QED
    BY <1>2, <1>4, <2>1
<1> QED
  BY <1>3, <1>4

LEMMA ResultsTail ==
    ASSUME NEW S, NEW q \in Seq(S), q # <<>>
    PROVE  Cardinality(Results(q)) =
               Cardinality(Results(Tail(q))) + (IF Head(q).kind = "result" THEN 1 ELSE 0)
<1> DEFINE rest == Results(q) \ {1}
           shift == [i \in rest |-> i - 1]
<1>1. /\ Len(q) \in Nat /\ Len(q) >= 1 /\ Head(q) = q[1] /\ Tail(q) \in Seq(S)
      /\ Len(Tail(q)) = Len(q) - 1 /\ \A i \in 1..Len(q) - 1 : Tail(q)[i] = q[i + 1]
  OBVIOUS
<1>2. IsFiniteSet(Results(q)) /\ Cardinality(Results(q)) \in Nat
  BY <1>1, ResultsFinite
<1>3. shift \in Bijection(rest, Results(Tail(q)))
  <2>1. \A i \in rest : i \in Int /\ i >= 2 /\ i <= Len(q) /\ q[i].kind = "result"
    BY <1>1 DEF Results
  <2>2. \A i \in rest : i - 1 \in Results(Tail(q))
    BY <1>1, <2>1 DEF Results
  <2>3. \A k \in Results(Tail(q)) : k + 1 \in rest /\ shift[k + 1] = k
    <3> TAKE k \in Results(Tail(q))
    <3>1. k \in 1..Len(q) - 1 /\ Tail(q)[k].kind = "result"
      BY <1>1 DEF Results
    <3>2. k + 1 \in 1..Len(q) /\ k + 1 # 1 /\ q[k + 1].kind = "result"
      BY <1>1, <3>1
    <3>3. k + 1 \in rest
      BY <3>2 DEF Results
    <3> HIDE DEF rest
    <3> QED
      BY <3>1, <3>3
  <2> HIDE DEF rest
  <2>4. shift \in [rest -> Results(Tail(q))]
    BY <2>2
  <2>5. \A i, k \in rest : shift[i] = shift[k] => i = k
    BY <2>1
  <2> HIDE DEF shift
  <2> QED
    BY <2>3, <2>4, <2>5, Fun_IsBij
<1>4. ExistsBijection(rest, Results(Tail(q)))
  BY <1>3 DEF ExistsBijection
<1>5. IsFiniteSet(rest) /\ Cardinality(rest) = Cardinality(Results(Tail(q)))
  <2>1. IsFiniteSet(rest)
    BY <1>2, FS_Subset
  <2> HIDE DEF rest
  <2> QED
    BY <1>4, <2>1, FS_Bijection
<1>6. Cardinality(rest) \in Nat
  BY <1>5, FS_CardinalityType
<1>7. CASE Head(q).kind = "result"
  <2>1. 1 \in Results(q)
    BY <1>1, <1>7 DEF Results
  <2>2. Cardinality(rest) = Cardinality(Results(q)) - 1
    BY <1>2, <2>1, FS_RemoveElement
  <2> HIDE DEF rest
  <2> QED
    BY <1>2, <1>5, <1>6, <1>7, <2>2
<1>8. CASE Head(q).kind # "result"
  <2>1. rest = Results(q)
    BY <1>1, <1>8 DEF Results
  <2> HIDE DEF rest
  <2> QED
    BY <1>2, <1>5, <1>6, <1>8, <2>1
<1> QED
  BY <1>7, <1>8

-----------------------------------------------------------------------------
(* The last word of the Server *)

\* The answer of a store that failed.
Blank(f) == f.kind = "result" /\ f.err = "internal" /\ f.record.state = "zero" /\ f.record.epoch = 0

\* What the browser shows, or will show when its queue is empty, is the row's
\* epoch or the blind view.
Told(c) ==
    IF down[c] = <<>> THEN view[c].epoch = lease.epoch \/ Blind(view[c])
    ELSE down[c][Len(down[c])].record.epoch = lease.epoch \/ Blank(down[c][Len(down[c])])

\* As long as no handler met a release of the administrator, a connected browser
\* has asked, is about to be told, or was told the row's epoch last.
FreshInv ==
    ~crossed =>
        /\ admin.at # "idle" => job = NoJob
        /\ admin.at = "announce" => admin.record.epoch = lease.epoch
        /\ job # NoJob => job.record.epoch = lease.epoch
        /\ \A c \in connected :
              \/ up[c] # <<>>
              \/ InFlight(c) = 1
              \/ job # NoJob /\ IsNews(job)
              \/ admin.at # "idle"
              \/ Told(c)

ClientInv == KnowInv /\ CountInv /\ FreshInv

\* Steps that leave the row alone.
LEMMA SameRow ==
    ASSUME lease' = lease, lease \in Rows, time' \in Nat, connected' \subseteq Clients, crossed' \in BOOLEAN,
           up' \in [Clients -> Seq(KnownControls)], down' \in [Clients -> Seq(KnownFrames)],
           pending' \in [Clients -> Seq(KnownPending)], orphans' \subseteq KnownOrphans,
           job' \in KnownJobs \cup {NoJob},
           admin' \in [at : {"idle", "read", "announce"}, record : KnownRecords],
           view' \in [Clients -> KnownViews], timer' \in [Clients -> 0..lease.epoch]
    PROVE  KnowInv'
<1>1. /\ KnownRecords' = KnownRecords /\ KnownControls' = KnownControls
      /\ KnownPending' = KnownPending /\ KnownFrames' = KnownFrames
      /\ KnownJobs' = KnownJobs /\ KnownOrphans' = KnownOrphans
      /\ KnownViews' = KnownViews
  BY SameKnowledge
<1>2. NoJob' = NoJob /\ Rows' = Rows
  BY DEF NoJob, Rows
<1> QED
  BY <1>1, <1>2 DEF KnowInv

LEMMA NoExchangeStep ==
    ASSUME ClientInv, UNCHANGED <<lease, connected, up, down, pending, job, view>>,
           time' \in Nat, orphans' \subseteq orphans, timer' \in [Clients -> 0..lease.epoch],
           admin' \in [at : {"idle", "read", "announce"}, record : KnownRecords], crossed' \in BOOLEAN,
           \/ crossed'
           \/ crossed' = crossed /\ admin' = admin
           \/ /\ crossed' = crossed /\ admin.at # "idle"
              /\ admin'.at = "announce" /\ admin'.record.epoch = lease.epoch
    PROVE  ClientInv'
<1>1. KnowInv'
  BY SameRow DEF ClientInv, KnowInv
<1>2. \A c : (InFlight(c)' = InFlight(c)) /\ (Told(c)' <=> Told(c))
  BY DEF InFlight, Told, NoJob
<1>3. CountInv'
  BY <1>2 DEF ClientInv, CountInv
<1>4. FreshInv'
  BY <1>2 DEF ClientInv, FreshInv, NoJob
<1> QED
  BY <1>1, <1>3, <1>4 DEF ClientInv

LEMMA CountTypes ==
    ASSUME KnowInv, NEW c \in Clients
    PROVE  /\ Len(pending[c]) \in Nat /\ Len(up[c]) \in Nat /\ Len(down[c]) \in Nat
           /\ InFlight(c) \in {0, 1} /\ Cardinality(Results(down[c])) \in Nat
<1>1. Len(pending[c]) \in Nat /\ Len(up[c]) \in Nat /\ Len(down[c]) \in Nat
  BY LenProperties DEF KnowInv
<1> QED
  BY <1>1, ResultsFinite DEF InFlight

\* sendControl adds one request to both queues.
LEMMA SendStep ==
    ASSUME ClientInv, NEW c \in Clients, NEW op \in ControlOps, NEW expected \in Nat \cup {AnyEpoch},
           NEW since \in 0..lease.epoch, op = "takeover" => expected = view[c].epoch,
           Send(c, op, expected, since), view' = view, timer' \in [Clients -> 0..lease.epoch]
    PROVE  ClientInv'
<1> DEFINE rq == [op |-> op, expected |-> expected, epoch |-> view[c].epoch, seen |-> view[c].holder]
           pd == [op |-> op, since |-> since]
<1>1. /\ c \in connected
      /\ up' = [up EXCEPT ![c] = Append(up[c], rq)]
      /\ pending' = [pending EXCEPT ![c] = Append(pending[c], pd)]
      /\ UNCHANGED <<time, lease, connected, down, orphans, job, admin, connects, releases, crossed>>
  BY DEF Send
<1>2. view[c] \in KnownViews
  BY DEF ClientInv, KnowInv
<1>3. rq \in KnownControls
  <2>1. view[c].epoch \in Nat /\ view[c].holder \in Holders /\ Known(view[c].epoch, view[c].holder)
    BY <1>2 DEF KnownViews
  <2>2. rq \in [op : ControlOps, expected : Nat \cup {AnyEpoch}, epoch : Nat, seen : Holders]
    BY <2>1
  <2>3. rq.op = "takeover" => Known(rq.expected, rq.seen)
    BY <2>1
  <2> QED
    BY <2>2, <2>3 DEF KnownControls
<1>4. pd \in KnownPending
  BY DEF KnownPending
<1> HIDE DEF rq, pd
<1>5. /\ up \in [Clients -> Seq(KnownControls)] /\ pending \in [Clients -> Seq(KnownPending)]
  BY DEF ClientInv, KnowInv
<1>6. /\ Append(up[c], rq) \in Seq(KnownControls) /\ Len(Append(up[c], rq)) = Len(up[c]) + 1
      /\ Append(pending[c], pd) \in Seq(KnownPending) /\ Len(Append(pending[c], pd)) = Len(pending[c]) + 1
  BY <1>3, <1>4, <1>5
<1>7. up' \in [Clients -> Seq(KnownControls)] /\ pending' \in [Clients -> Seq(KnownPending)]
  BY <1>1, <1>5, <1>6
<1>8. KnowInv'
  BY <1>1, <1>7, SameRow DEF ClientInv, KnowInv
<1>9. \A d : (InFlight(d)' = InFlight(d)) /\ (Told(d)' <=> Told(d))
  BY <1>1 DEF InFlight, Told, NoJob
<1>10. CountInv'
  <2> SUFFICES ASSUME NEW d \in Clients
               PROVE  /\ Len(pending'[d]) = Len(up'[d]) + InFlight(d)' + Cardinality(Results(down[d]))
                      /\ d \notin connected => pending'[d] = <<>>
    BY <1>1 DEF CountInv
  <2>1. /\ Len(pending[d]) = Len(up[d]) + InFlight(d) + Cardinality(Results(down[d]))
        /\ d \notin connected => pending[d] = <<>>
    BY DEF ClientInv, CountInv
  <2>2. /\ Len(pending[d]) \in Nat /\ Len(up[d]) \in Nat /\ InFlight(d) \in {0, 1}
        /\ Cardinality(Results(down[d])) \in Nat
    BY CountTypes DEF ClientInv
  <2>3. CASE d = c
    <3>1. pending'[d] = Append(pending[d], pd) /\ up'[d] = Append(up[d], rq)
      BY <1>1, <1>5, <2>3
    <3> QED
      <4>1. InFlight(d)' = InFlight(d) /\ Len(up'[d]) = Len(up[d]) + 1 /\ Len(pending'[d]) = Len(pending[d]) + 1
        BY <1>6, <1>9, <2>3, <3>1
      <4>2. d \in connected
        BY <1>1, <2>3
      <4>3. \A u, i, r \in Nat : (u + i + r) + 1 = (u + 1) + i + r
        OBVIOUS
      <4>4. Len(pending[d]) + 1 = (Len(up[d]) + 1) + InFlight(d) + Cardinality(Results(down[d]))
        <5>1. InFlight(d) \in Nat
          BY <2>2
        <5> QED
          BY <2>1, <2>2, <4>3, <5>1
      <4> QED
        BY <4>1, <4>2, <4>4
  <2>4. CASE d # c
    <3>1. pending'[d] = pending[d] /\ up'[d] = up[d]
      BY <1>1, <1>5, <2>4
    <3> QED
      BY <1>9, <2>1, <3>1
  <2> QED
    BY <2>3, <2>4
<1>11. FreshInv'
  <2>1. \A d \in connected : up[d] # <<>> => up'[d] # <<>>
    <3> SUFFICES ASSUME NEW d \in connected, up[d] # <<>>
                 PROVE  up'[d] # <<>>
      OBVIOUS
    <3>1. d \in Clients
      BY DEF ClientInv, KnowInv
    <3>2. CASE d = c
      <4>1. up'[d] = Append(up[c], rq) /\ Len(up[c]) \in Nat
        BY <1>1, <1>5, <3>2
      <4> QED
        BY <1>6, <4>1
    <3> QED
      BY <1>1, <1>5, <3>1, <3>2
  <2> QED
    BY <1>1, <1>9, <2>1 DEF ClientInv, FreshInv, NoJob
<1> QED
  BY <1>8, <1>10, <1>11 DEF ClientInv

-----------------------------------------------------------------------------
(* What a browser makes of a frame *)

LEMMA ResultViews ==
    ASSUME NEW c, NEW err, NEW r \in KnownRecords
    PROVE  LeaseFromResult(c, err, r) \in KnownViews /\ LeaseFromResult(c, err, r).epoch = r.epoch
<1>1. /\ r.holder \in Holders /\ r.epoch \in Nat /\ r.expires \in Nat
      /\ Known(r.epoch, r.holder) /\ Known(r.epoch, NoClient)
  BY DEF KnownRecords, Records, Known, Holders
<1>2. \A s \in {"held", "expired", "occupied", "lost"} : Seen(s, r) \in KnownViews /\ Seen(s, r).epoch = r.epoch
  BY <1>1 DEF Seen, KnownViews
<1>3. [NoView EXCEPT !.epoch = r.epoch] \in KnownViews /\ [NoView EXCEPT !.epoch = r.epoch].epoch = r.epoch
  BY <1>1 DEF NoView, KnownViews, Holders
<1> DEFINE none == [NoView EXCEPT !.epoch = r.epoch]
<1> HIDE DEF none
<1>4. LeaseFromResult(c, err, r) \in {Seen("held", r), Seen("expired", r), none, Seen("occupied", r), Seen("lost", r)}
  BY DEF LeaseFromResult, none
<1>5. none \in KnownViews /\ none.epoch = r.epoch
  BY <1>3 DEF none
<1> QED
  BY <1>2, <1>4, <1>5

\* A change as new as the row is never dropped as outdated.
LEMMA ChangeViews ==
    ASSUME KnowInv, NEW c \in Clients, NEW r \in KnownRecords
    PROVE  /\ LeaseFromChange(c, r) \in KnownViews
           /\ r.epoch = lease.epoch => LeaseFromChange(c, r).epoch = lease.epoch
<1>1. /\ r.holder \in Holders /\ r.epoch \in Nat /\ r.expires \in Nat
      /\ Known(r.epoch, r.holder) /\ Known(r.epoch, NoClient)
  BY DEF KnownRecords, Records, Known, Holders
<1>2. view[c] \in KnownViews /\ view[c].epoch \in Nat /\ view[c].epoch <= lease.epoch
  BY DEF KnowInv, KnownViews, Known
<1> DEFINE none == [NoView EXCEPT !.epoch = r.epoch]
           out == [Seen("expired", r) EXCEPT !.expires = 0]
<1>3. \A s \in {"held", "occupied"} : Seen(s, r) \in KnownViews /\ Seen(s, r).epoch = r.epoch
  BY <1>1 DEF Seen, KnownViews
<1>4. none \in KnownViews /\ none.epoch = r.epoch
  BY <1>1 DEF NoView, KnownViews, Holders
<1>5. out \in KnownViews /\ out.epoch = r.epoch
  BY <1>1 DEF Seen, KnownViews
<1> HIDE DEF none, out
<1>6. \/ r.epoch < view[c].epoch /\ LeaseFromChange(c, r) = view[c]
      \/ LeaseFromChange(c, r) \in {Seen("held", r), Seen("occupied", r), none, out}
  BY DEF LeaseFromChange, none, out
<1>7. CASE r.epoch < view[c].epoch /\ LeaseFromChange(c, r) = view[c]
  BY <1>1, <1>2, <1>7 DEF KnowInv, Rows
<1>8. CASE LeaseFromChange(c, r) \in {Seen("held", r), Seen("occupied", r), none, out}
  BY <1>3, <1>4, <1>5, <1>8
<1> QED
  BY <1>6, <1>7, <1>8

LEMMA LostViews ==
    ASSUME lease \in Rows, NEW e \in 0..lease.epoch
    PROVE  [NoView EXCEPT !.state = "lost", !.epoch = e] \in KnownViews
<1> DEFINE v == [NoView EXCEPT !.state = "lost", !.epoch = e]
<1>1. v.holder = NoClient /\ v.epoch = e
  BY DEF NoView
<1>2. e \in Nat /\ e <= lease.epoch
  BY DEF Rows
<1>3. v \in [state : {"none", "held", "expired", "occupied", "lost"}, holder : Holders, epoch : Nat, expires : Nat]
  BY <1>2 DEF NoView, Holders
<1> HIDE DEF v
<1>4. v \in KnownViews
  BY <1>1, <1>2, <1>3 DEF KnownViews, Known
<1> QED
  BY <1>4 DEF v

LEMMA SetLeaseFacts ==
    ASSUME KnowInv, NEW c \in Clients, NEW v \in KnownViews, NEW scheduled \in BOOLEAN, SetLease(c, v, scheduled)
    PROVE  /\ view' \in [Clients -> KnownViews] /\ timer' \in [Clients -> 0..lease.epoch]
           /\ view'[c] = v /\ \A d \in Clients \ {c} : view'[d] = view[d]
<1>1. v.epoch \in 0..lease.epoch
  BY DEF KnownViews, Known, KnowInv, Rows
<1>2. 0 \in 0..lease.epoch /\ timer[c] \in 0..lease.epoch
  BY DEF KnowInv, Rows
<1>3. PICK t \in 0..lease.epoch : timer' = [timer EXCEPT ![c] = t]
  BY <1>1, <1>2 DEF SetLease
<1>4. view' = [view EXCEPT ![c] = v]
  BY DEF SetLease
<1> QED
  BY <1>3, <1>4 DEF KnowInv

LEMMA ReceiveStep ==
    ASSUME ClientInv, NEW c \in Clients, ReceiveFrame(c)
    PROVE  ClientInv'
<1> DEFINE f == Head(down[c])
           q == Tail(down[c])
<1>1. /\ down[c] # <<>> /\ down' = [down EXCEPT ![c] = q]
      /\ UNCHANGED <<time, lease, connected, up, orphans, job, admin, connects, releases, crossed>>
  BY DEF ReceiveFrame
<1>2. down \in [Clients -> Seq(KnownFrames)] /\ pending \in [Clients -> Seq(KnownPending)]
  BY DEF ClientInv, KnowInv
<1>3. /\ f \in KnownFrames /\ q \in Seq(KnownFrames) /\ Len(down[c]) \in Nat /\ Len(down[c]) >= 1
      /\ f = down[c][1] /\ Len(q) = Len(down[c]) - 1 /\ \A i \in 1..Len(down[c]) - 1 : q[i] = down[c][i + 1]
  BY <1>1, <1>2
<1>4. /\ Cardinality(Results(down[c])) = Cardinality(Results(q)) + (IF f.kind = "result" THEN 1 ELSE 0)
      /\ Cardinality(Results(q)) \in Nat
  <2>1. down[c] \in Seq(KnownFrames)
    BY <1>2
  <2>2. Cardinality(Results(q)) \in Nat
    BY <1>3, ResultsFinite
  <2> QED
    BY <1>1, <2>1, <2>2, ResultsTail
<1>5. f.record \in KnownRecords
  BY <1>3 DEF KnownFrames
<1>6. /\ Len(pending[c]) = Len(up[c]) + InFlight(c) + Cardinality(Results(down[c]))
      /\ Len(pending[c]) \in Nat /\ Len(up[c]) \in Nat /\ InFlight(c) \in {0, 1}
  BY CountTypes DEF ClientInv, CountInv
<1>7. \E v \in KnownViews, s \in BOOLEAN :
         /\ SetLease(c, v, s)
         /\ f.record.epoch = lease.epoch \/ Blank(f) => v.epoch = lease.epoch \/ Blind(v)
         /\ \/ f.kind = "result" /\ pending' = [pending EXCEPT ![c] = Tail(pending[c])]
            \/ f.kind = "changed" /\ pending' = pending
  <2>1. CASE /\ f.kind = "result" /\ pending' = [pending EXCEPT ![c] = Tail(pending[c])]
             /\ SetLease(c, LeaseFromResult(c, f.err, f.record), Head(pending[c]).op \in {"acquire", "takeover", "renew"})
    <3> DEFINE v == LeaseFromResult(c, f.err, f.record)
               s == Head(pending[c]).op \in {"acquire", "takeover", "renew"}
    <3>1. v \in KnownViews /\ v.epoch = f.record.epoch /\ (Blank(f) => Blind(v))
      <4>1. Blank(f) => v = Seen("lost", f.record)
        BY DEF Blank, LeaseFromResult
      <4>2. Seen("lost", f.record).state = "lost"
        BY DEF Seen
      <4>3. v \in KnownViews /\ v.epoch = f.record.epoch
        BY <1>5, ResultViews
      <4> HIDE DEF v
      <4> QED
        BY <4>1, <4>2, <4>3 DEF Blank, Blind
    <3>2. s \in BOOLEAN /\ SetLease(c, v, s)
      BY <2>1
    <3> HIDE DEF v, s
    <3> QED
      BY <2>1, <3>1, <3>2
  <2>2. CASE f.kind = "changed" /\ SetLease(c, LeaseFromChange(c, f.record), FALSE) /\ pending' = pending
    <3> DEFINE v == LeaseFromChange(c, f.record)
               s == FALSE
    <3>1. v \in KnownViews /\ (f.record.epoch = lease.epoch => v.epoch = lease.epoch) /\ ~Blank(f)
      BY <1>5, <2>2, ChangeViews DEF ClientInv, Blank
    <3>2. s \in BOOLEAN /\ SetLease(c, v, s)
      BY <2>2
    <3> HIDE DEF v, s
    <3> QED
      BY <2>2, <3>1, <3>2
  <2> QED
    BY <2>1, <2>2 DEF ReceiveFrame
<1> HIDE DEF f, q
<1>8. PICK v \in KnownViews, s \in BOOLEAN :
         /\ SetLease(c, v, s)
         /\ f.record.epoch = lease.epoch \/ Blank(f) => v.epoch = lease.epoch \/ Blind(v)
         /\ \/ f.kind = "result" /\ pending' = [pending EXCEPT ![c] = Tail(pending[c])]
            \/ f.kind = "changed" /\ pending' = pending
  BY <1>7
<1>9. /\ view' \in [Clients -> KnownViews] /\ timer' \in [Clients -> 0..lease.epoch]
      /\ view'[c] = v /\ \A d \in Clients \ {c} : view'[d] = view[d]
  BY <1>8, SetLeaseFacts DEF ClientInv
<1>10. down' \in [Clients -> Seq(KnownFrames)] /\ down'[c] = q /\ \A d \in Clients \ {c} : down'[d] = down[d]
  BY <1>1, <1>2, <1>3
<1>11. /\ pending' \in [Clients -> Seq(KnownPending)] /\ \A d \in Clients \ {c} : pending'[d] = pending[d]
       /\ Len(pending'[c]) = Len(pending[c]) - (IF f.kind = "result" THEN 1 ELSE 0)
       /\ pending[c] = <<>> => pending'[c] = <<>>
  <2>1. CASE f.kind = "result" /\ pending' = [pending EXCEPT ![c] = Tail(pending[c])]
    <3>1. Len(pending[c]) >= 1
      BY <1>4, <1>6, <2>1
    <3>2. pending[c] # <<>> /\ pending[c] \in Seq(KnownPending)
      BY <1>2, <3>1
    <3>3. Tail(pending[c]) \in Seq(KnownPending) /\ Len(Tail(pending[c])) = Len(pending[c]) - 1
      BY <3>2
    <3> QED
      BY <1>2, <2>1, <3>2, <3>3
  <2>2. CASE f.kind = "changed" /\ pending' = pending
    BY <1>2, <1>6, <2>2
  <2> QED
    BY <1>8, <2>1, <2>2
<1>12. KnowInv'
  BY <1>1, <1>9, <1>10, <1>11, SameRow DEF ClientInv, KnowInv
<1>13. \A d : InFlight(d)' = InFlight(d)
  BY <1>1 DEF InFlight, NoJob
<1>14. CountInv'
  <2> SUFFICES ASSUME NEW d \in Clients
               PROVE  /\ Len(pending'[d]) = Len(up[d]) + InFlight(d) + Cardinality(Results(down'[d]))
                      /\ d \notin connected => pending'[d] = <<>>
    BY <1>1, <1>13 DEF CountInv
  <2>1. /\ Len(pending[d]) = Len(up[d]) + InFlight(d) + Cardinality(Results(down[d]))
        /\ d \notin connected => pending[d] = <<>>
    BY DEF ClientInv, CountInv
  <2>2. CASE d = c
    BY <1>4, <1>6, <1>10, <1>11, <2>1, <2>2
  <2>3. CASE d # c
    BY <1>10, <1>11, <2>1, <2>3
  <2> QED
    BY <2>2, <2>3
<1>15. \A d \in connected : Told(d) => Told(d)'
  <2> SUFFICES ASSUME NEW d \in connected, Told(d)
               PROVE  Told(d)'
    OBVIOUS
  <2>0. d \in Clients
    BY DEF ClientInv, KnowInv
  <2>1. CASE d # c
    BY <1>1, <1>9, <1>10, <2>0, <2>1 DEF Told
  <2>2. CASE d = c /\ q = <<>>
    <3>1. Len(down[c]) = 1
      BY <1>3, <2>2
    <3>2. f.record.epoch = lease.epoch \/ Blank(f)
      BY <1>1, <1>3, <2>2, <3>1 DEF Told
    <3> QED
      BY <1>1, <1>8, <1>9, <1>10, <2>2, <3>2 DEF Told
  <2>3. CASE d = c /\ q # <<>>
    <3>1. Len(q) \in Nat /\ Len(q) >= 1
      BY <1>3, <2>3
    <3>2. q[Len(q)] = down[c][Len(down[c])]
      BY <1>3, <3>1
    <3> QED
      BY <1>1, <1>10, <2>3, <3>2 DEF Told
  <2> QED
    BY <2>1, <2>2, <2>3
<1>16. FreshInv'
  BY <1>1, <1>13, <1>15 DEF ClientInv, FreshInv, NoJob
<1> QED
  BY <1>12, <1>14, <1>16 DEF ClientInv

LEMMA AuthenticatedStep ==
    ASSUME ClientInv, NEW c \in Clients, Authenticated(c)
    PROVE  ClientInv'
<1> DEFINE rq == [op |-> "status", expected |-> AnyEpoch, epoch |-> 0, seen |-> NoClient]
           pd == [op |-> "status", since |-> 0]
<1>1. /\ c \notin connected /\ connected' = connected \cup {c}
      /\ up' = [up EXCEPT ![c] = <<rq>>] /\ pending' = [pending EXCEPT ![c] = <<pd>>]
      /\ UNCHANGED <<time, lease, down, orphans, job, admin, view, timer, releases, crossed>>
  BY DEF Authenticated
<1>2. rq \in KnownControls
  BY DEF KnownControls, ControlOps, Holders
<1>3. pd \in KnownPending
  BY DEF KnownPending, ControlOps, ClientInv, KnowInv, Rows
<1> HIDE DEF rq, pd
<1>4. /\ <<rq>> \in Seq(KnownControls) /\ Len(<<rq>>) = 1
      /\ <<pd>> \in Seq(KnownPending) /\ Len(<<pd>>) = 1
  BY <1>2, <1>3
<1>5. up \in [Clients -> Seq(KnownControls)] /\ pending \in [Clients -> Seq(KnownPending)]
  BY DEF ClientInv, KnowInv
<1>6. /\ up' \in [Clients -> Seq(KnownControls)] /\ pending' \in [Clients -> Seq(KnownPending)]
      /\ up'[c] = <<rq>> /\ pending'[c] = <<pd>>
      /\ \A d \in Clients \ {c} : up'[d] = up[d] /\ pending'[d] = pending[d]
  BY <1>1, <1>4, <1>5
<1>7. KnowInv'
  BY <1>1, <1>6, SameRow DEF ClientInv, KnowInv
<1>8. \A d : (InFlight(d)' = InFlight(d)) /\ (Told(d)' <=> Told(d))
  BY <1>1 DEF InFlight, Told, NoJob
<1>9. CountInv'
  <2> SUFFICES ASSUME NEW d \in Clients
               PROVE  /\ Len(pending'[d]) = Len(up'[d]) + InFlight(d) + Cardinality(Results(down[d]))
                      /\ d \notin connected' => pending'[d] = <<>>
    BY <1>1, <1>8 DEF CountInv
  <2>1. /\ Len(pending[d]) = Len(up[d]) + InFlight(d) + Cardinality(Results(down[d]))
        /\ d \notin connected => pending[d] = <<>>
    BY DEF ClientInv, CountInv
  <2>2. /\ Len(pending[d]) \in Nat /\ Len(up[d]) \in Nat /\ InFlight(d) \in {0, 1}
        /\ Cardinality(Results(down[d])) \in Nat
    BY CountTypes DEF ClientInv
  <2>3. CASE d = c
    <3>1. Len(pending[d]) = 0
      BY <1>1, <2>1, <2>3
    <3> QED
      BY <1>1, <1>4, <1>6, <2>1, <2>2, <2>3, <3>1
  <2>4. CASE d # c
    BY <1>1, <1>6, <2>1, <2>4
  <2> QED
    BY <2>3, <2>4
<1>10. FreshInv'
  <2>1. up'[c] # <<>>
    BY <1>4, <1>6
  <2>2. \A d \in connected : up[d] = up'[d]
    BY <1>1, <1>6 DEF ClientInv, KnowInv
  <2> QED
    BY <1>1, <1>8, <2>1, <2>2 DEF ClientInv, FreshInv, NoJob
<1> QED
  BY <1>7, <1>9, <1>10 DEF ClientInv

LEMMA DisconnectStep ==
    ASSUME ClientInv, NEW c \in Clients, Disconnect(c)
    PROVE  ClientInv'
<1>1. /\ connected' = connected \ {c}
      /\ orphans' = orphans \cup {[client |-> c, req |-> up[c][i]] : i \in {k \in DOMAIN up[c] : up[c][k].op # "status"}}
      /\ up' = [up EXCEPT ![c] = <<>>] /\ down' = [down EXCEPT ![c] = <<>>]
      /\ pending' = [pending EXCEPT ![c] = <<>>]
      /\ job' = IF job # NoJob /\ job.client = c THEN [job EXCEPT !.live = FALSE] ELSE job
      /\ UNCHANGED <<time, lease, admin, connects, releases, crossed>>
  BY DEF Disconnect
<1>2. /\ up \in [Clients -> Seq(KnownControls)] /\ down \in [Clients -> Seq(KnownFrames)]
      /\ pending \in [Clients -> Seq(KnownPending)]
  BY DEF ClientInv, KnowInv
<1>3. /\ up' \in [Clients -> Seq(KnownControls)] /\ down' \in [Clients -> Seq(KnownFrames)]
      /\ pending' \in [Clients -> Seq(KnownPending)]
      /\ up'[c] = <<>> /\ down'[c] = <<>> /\ pending'[c] = <<>>
      /\ \A d \in Clients \ {c} : up'[d] = up[d] /\ down'[d] = down[d] /\ pending'[d] = pending[d]
  <2>1. <<>> \in Seq(KnownControls) /\ <<>> \in Seq(KnownFrames) /\ <<>> \in Seq(KnownPending)
    OBVIOUS
  <2> QED
    BY <1>1, <1>2, <2>1
<1>4. orphans' \subseteq KnownOrphans
  <2>1. \A i \in DOMAIN up[c] : up[c][i] \in KnownControls
    BY <1>2
  <2>2. \A i \in DOMAIN up[c] : [client |-> c, req |-> up[c][i]] \in KnownOrphans
    BY <2>1 DEF KnownOrphans
  <2> QED
    BY <1>1, <2>2 DEF ClientInv, KnowInv
<1>5. /\ job' \in KnownJobs \cup {NoJob} /\ (job' = NoJob <=> job = NoJob)
      /\ job # NoJob => (job'.record = job.record /\ IsNews(job) = IsNews(job') /\ job'.client = job.client)
      /\ job # NoJob /\ job.client # c => job' = job
      /\ job # NoJob /\ job.client = c => job'.live = FALSE
  <2>1. CASE job = NoJob
    BY <1>1, <2>1
  <2>2. CASE job # NoJob /\ job.client # c
    BY <1>1, <2>2 DEF ClientInv, KnowInv
  <2>3. CASE job # NoJob /\ job.client = c
    <3>1. job' = [job EXCEPT !.live = FALSE] /\ job \in KnownJobs
      BY <1>1, <2>3 DEF ClientInv, KnowInv
    <3>2. /\ job' \in KnownJobs /\ job'.record = job.record /\ job'.client = job.client /\ job'.live = FALSE
          /\ job'.err = job.err /\ job'.req = job.req
      BY <3>1 DEF KnownJobs
    <3>3. job' # NoJob
      BY <3>2, NoJobFacts
    <3> QED
      BY <2>3, <3>2, <3>3 DEF IsNews
  <2> QED
    BY <2>1, <2>2, <2>3
<1>6. /\ view' \in [Clients -> KnownViews] /\ timer' \in [Clients -> 0..lease.epoch]
      /\ \A d \in Clients \ {c} : view'[d] = view[d]
  <2>1. CASE view' = view /\ timer' = timer
    BY <2>1 DEF ClientInv, KnowInv
  <2>2. ASSUME NEW i \in DOMAIN pending[c],
               SetLease(c, [NoView EXCEPT !.state = "lost", !.epoch = pending[c][i].since], FALSE)
        PROVE  /\ view' \in [Clients -> KnownViews] /\ timer' \in [Clients -> 0..lease.epoch]
               /\ \A d \in Clients \ {c} : view'[d] = view[d]
    <3> DEFINE v == [NoView EXCEPT !.state = "lost", !.epoch = pending[c][i].since]
               s == FALSE
    <3>1. pending[c][i].since \in 0..lease.epoch
      <4>1. pending[c][i] \in KnownPending
        BY <1>2, <2>2
      <4> QED
        BY <4>1 DEF KnownPending
    <3>2. v \in KnownViews
      BY <3>1, LostViews DEF ClientInv, KnowInv
    <3>3. s \in BOOLEAN /\ SetLease(c, v, s)
      BY <2>2
    <3> HIDE DEF v, s
    <3> QED
      BY <3>2, <3>3, SetLeaseFacts DEF ClientInv
  <2> QED
    BY <2>1, <2>2 DEF Disconnect
<1>7. KnowInv'
  BY <1>1, <1>3, <1>4, <1>5, <1>6, SameRow DEF ClientInv, KnowInv
<1>8. InFlight(c)' = 0 /\ \A d \in Clients \ {c} : (InFlight(d)' = InFlight(d)) /\ (Told(d)' <=> Told(d))
  <2>1. InFlight(c)' = 0
    BY <1>5 DEF InFlight, NoJob
  <2>2. \A d \in Clients \ {c} : InFlight(d)' = InFlight(d)
    BY <1>5 DEF InFlight, NoJob
  <2>3. \A d \in Clients \ {c} : (Told(d)' <=> Told(d))
    BY <1>1, <1>3, <1>6 DEF Told
  <2> QED
    BY <2>1, <2>2, <2>3
<1>9. CountInv'
  <2> SUFFICES ASSUME NEW d \in Clients
               PROVE  /\ Len(pending'[d]) = Len(up'[d]) + InFlight(d)' + Cardinality(Results(down'[d]))
                      /\ d \notin connected' => pending'[d] = <<>>
    BY DEF CountInv
  <2>1. CASE d = c
    BY <1>3, <1>8, <2>1, ResultsEmpty
  <2>2. CASE d # c
    <3>1. /\ Len(pending[d]) = Len(up[d]) + InFlight(d) + Cardinality(Results(down[d]))
          /\ d \notin connected => pending[d] = <<>>
      BY DEF ClientInv, CountInv
    <3> QED
      BY <1>1, <1>3, <1>8, <2>2, <3>1
  <2> QED
    BY <2>1, <2>2
<1>10. FreshInv'
  <2> SUFFICES ASSUME ~crossed
               PROVE  /\ admin.at # "idle" => job' = NoJob
                      /\ admin.at = "announce" => admin.record.epoch = lease.epoch
                      /\ job' # NoJob => job'.record.epoch = lease.epoch
                      /\ \A d \in connected' :
                            \/ up'[d] # <<>> \/ InFlight(d)' = 1
                            \/ (job' # NoJob /\ IsNews(job')) \/ admin.at # "idle" \/ Told(d)'
    BY <1>1 DEF FreshInv, NoJob
  <2>1. /\ admin.at # "idle" => job = NoJob
        /\ admin.at = "announce" => admin.record.epoch = lease.epoch
        /\ job # NoJob => job.record.epoch = lease.epoch
        /\ \A d \in connected :
              \/ up[d] # <<>> \/ InFlight(d) = 1
              \/ (job # NoJob /\ IsNews(job)) \/ admin.at # "idle" \/ Told(d)
    BY DEF ClientInv, FreshInv
  <2>2. \A d \in connected' : d \in connected /\ d \in Clients \ {c}
    BY <1>1 DEF ClientInv, KnowInv
  <2>3. /\ job' # NoJob => job'.record.epoch = lease.epoch
        /\ admin.at # "idle" => job' = NoJob
    BY <1>5, <2>1
  <2>4. ASSUME NEW d \in connected'
        PROVE  \/ up'[d] # <<>> \/ InFlight(d)' = 1
               \/ (job' # NoJob /\ IsNews(job')) \/ admin.at # "idle" \/ Told(d)'
    <3>1. up'[d] = up[d] /\ (InFlight(d)' = InFlight(d)) /\ (Told(d)' <=> Told(d))
      BY <1>3, <1>8, <2>2
    <3>2. (job # NoJob /\ IsNews(job)) => (job' # NoJob /\ IsNews(job'))
      BY <1>5
    <3>3. \/ up[d] # <<>> \/ InFlight(d) = 1
          \/ (job # NoJob /\ IsNews(job)) \/ admin.at # "idle" \/ Told(d)
      BY <2>1, <2>2
    <3> QED
      BY <3>1, <3>2, <3>3
  <2> QED
    BY <2>1, <2>3, <2>4
<1> QED
  BY <1>7, <1>9, <1>10 DEF ClientInv

-----------------------------------------------------------------------------
(* Steps of the Server *)

\* A transaction: from there on the browsers wait for its announcement, if it
\* moved the row on, or need none.
LEMMA TransactFresh ==
    ASSUME ClientInv, NEW c \in Clients, NEW r \in KnownControls, NEW live \in BOOLEAN, Transact(c, r, live),
           \A d \in Clients : up[d] # up'[d] => live /\ d = c
    PROVE  FreshInv'
<1>1. /\ job = NoJob /\ job' # NoJob /\ job'.client = c /\ job'.live = live
      /\ job'.record.epoch = lease'.epoch
      /\ lease'.epoch = lease.epoch \/ IsNews(job')
      /\ ~crossed' => ~crossed /\ admin.at = "idle"
      /\ UNCHANGED <<time, connected, down, pending, admin, view, timer, connects, releases>>
  <2>1. job' # NoJob
    BY TransactFacts, NoJobFacts DEF ClientInv, NoJob, KnownJobs
  <2> QED
    BY <2>1, TransactFacts DEF ClientInv
<1> SUFFICES ASSUME ~crossed, admin.at = "idle", NEW d \in connected
             PROVE  \/ up'[d] # <<>> \/ InFlight(d)' = 1
                    \/ IsNews(job') \/ Told(d)'
  BY <1>1 DEF FreshInv, NoJob
<1>2. up[d] # <<>> \/ Told(d)
  BY <1>1 DEF ClientInv, FreshInv, InFlight
<1>3. (lease'.epoch = lease.epoch => (Told(d)' <=> Told(d))) /\ d \in Clients
  BY <1>1 DEF Told, ClientInv, KnowInv
<1>4. up'[d] # up[d] => InFlight(d)' = 1
  BY <1>1, <1>3 DEF InFlight, NoJob
<1> QED
  BY <1>1, <1>2, <1>3, <1>4

LEMMA HandleStep ==
    ASSUME ClientInv, NEW c \in Clients, Handle(c)
    PROVE  ClientInv'
<1> DEFINE r == Head(up[c])
           live == TRUE
<1>1. up[c] # <<>> /\ Transact(c, r, live) /\ up' = [up EXCEPT ![c] = Tail(up[c])] /\ orphans' = orphans
  BY DEF Handle
<1>2. up \in [Clients -> Seq(KnownControls)]
  BY DEF ClientInv, KnowInv
<1>3. /\ r \in KnownControls /\ Tail(up[c]) \in Seq(KnownControls)
      /\ Len(Tail(up[c])) = Len(up[c]) - 1 /\ Len(up[c]) \in Nat
  BY <1>1, <1>2
<1>4. live \in BOOLEAN /\ live = TRUE
  OBVIOUS
<1> HIDE DEF r, live
<1>5. /\ job = NoJob /\ lease' \in Rows /\ NextRow(lease, lease')
      /\ job' \in KnownJobs' /\ job'.client = c /\ job'.live = live /\ crossed' \in BOOLEAN
      /\ UNCHANGED <<time, connected, down, pending, admin, view, timer, connects, releases>>
  BY <1>1, <1>3, <1>4, TransactFacts DEF ClientInv
<1>6. /\ up' \in [Clients -> Seq(KnownControls)] /\ up'[c] = Tail(up[c])
      /\ \A d \in Clients \ {c} : up'[d] = up[d]
  BY <1>1, <1>2, <1>3
<1>7. KnowInv'
  <2>1. KnownControls \subseteq KnownControls'
    BY <1>5, KnowledgeLasts DEF ClientInv, KnowInv
  <2>2. up' \in [Clients -> Seq(KnownControls')]
    BY <1>6, <2>1, QueuesLast
  <2>3. /\ down \in [Clients -> Seq(KnownFrames')]
        /\ pending \in [Clients -> Seq(KnownPending')] /\ orphans \subseteq KnownOrphans'
        /\ view \in [Clients -> KnownViews']
        /\ admin \in [at : {"idle", "read", "announce"}, record : KnownRecords']
        /\ timer \in [Clients -> 0..lease'.epoch]
    BY <1>5, KnowStays DEF ClientInv
  <2> QED
    BY <1>1, <1>5, <2>2, <2>3 DEF ClientInv, KnowInv
<1>8. job' # NoJob'
  <2>1. job'.client \in Clients
    BY <1>5
  <2> QED
    BY <2>1 DEF NoJob
<1>9. CountInv'
  <2> SUFFICES ASSUME NEW d \in Clients
               PROVE  /\ Len(pending[d]) = Len(up'[d]) + InFlight(d)' + Cardinality(Results(down[d]))
                      /\ d \notin connected => pending[d] = <<>>
    BY <1>5 DEF CountInv
  <2>1. /\ Len(pending[d]) = Len(up[d]) + InFlight(d) + Cardinality(Results(down[d]))
        /\ d \notin connected => pending[d] = <<>>
    BY DEF ClientInv, CountInv
  <2>2. /\ Len(pending[d]) \in Nat /\ Len(up[d]) \in Nat /\ Cardinality(Results(down[d])) \in Nat
    BY CountTypes DEF ClientInv
  <2>3. InFlight(d) = 0 /\ InFlight(d)' = (IF d = c THEN 1 ELSE 0)
    BY <1>4, <1>5, <1>8 DEF InFlight
  <2>4. CASE d = c
    <3>1. Len(up'[d]) = Len(up[d]) - 1
      BY <1>3, <1>6, <2>4
    <3> QED
      BY <2>1, <2>2, <2>3, <2>4, <3>1
  <2>5. CASE d # c
    BY <1>6, <2>1, <2>2, <2>3, <2>5
  <2> QED
    BY <2>4, <2>5
<1>10. FreshInv'
  BY <1>1, <1>3, <1>4, <1>6, TransactFresh
<1> QED
  BY <1>7, <1>9, <1>10 DEF ClientInv

LEMMA OrphanStep ==
    ASSUME ClientInv, NEW o \in orphans, HandleOrphan(o)
    PROVE  ClientInv'
<1> DEFINE c == o.client
           r == o.req
           live == FALSE
<1>1. Transact(c, r, live) /\ orphans' = orphans \ {o} /\ up' = up
  BY DEF HandleOrphan
<1>2. c \in Clients /\ r \in KnownControls
  BY DEF ClientInv, KnowInv, KnownOrphans
<1>3. live \in BOOLEAN /\ live = FALSE
  OBVIOUS
<1> HIDE DEF c, r, live
<1>4. /\ job = NoJob /\ lease' \in Rows /\ NextRow(lease, lease')
      /\ job' \in KnownJobs' /\ job'.live = live /\ crossed' \in BOOLEAN
      /\ UNCHANGED <<time, connected, down, pending, admin, view, timer, connects, releases>>
  BY <1>1, <1>2, <1>3, TransactFacts DEF ClientInv
<1>5. KnowInv'
  <2>1. /\ up \in [Clients -> Seq(KnownControls')] /\ down \in [Clients -> Seq(KnownFrames')]
        /\ pending \in [Clients -> Seq(KnownPending')] /\ orphans \subseteq KnownOrphans'
        /\ view \in [Clients -> KnownViews']
        /\ admin \in [at : {"idle", "read", "announce"}, record : KnownRecords']
        /\ timer \in [Clients -> 0..lease'.epoch]
    BY <1>4, KnowStays DEF ClientInv
  <2> QED
    BY <1>1, <1>4, <2>1 DEF ClientInv, KnowInv
<1>6. \A d \in Clients : (InFlight(d)' = 0) /\ InFlight(d) = 0
  BY <1>3, <1>4 DEF InFlight
<1>7. CountInv'
  BY <1>1, <1>4, <1>6 DEF ClientInv, CountInv
<1>8. FreshInv'
  BY <1>1, <1>2, <1>3, TransactFresh
<1> QED
  BY <1>5, <1>7, <1>8 DEF ClientInv

LEMMA AdminReleasesStep ==
    ASSUME ClientInv, AdminReleases
    PROVE  ClientInv'
<1>1. /\ lease' = Cleared(lease) /\ admin' = [admin EXCEPT !.at = "read"]
      /\ crossed' = (crossed \/ job # NoJob)
      /\ UNCHANGED <<time, connected, up, down, pending, orphans, job, view, timer, connects>>
  BY DEF AdminReleases
<1>2. lease' \in Rows /\ NextRow(lease, lease')
  BY <1>1 DEF ClientInv, KnowInv, Rows, Cleared, NextRow
<1>3. /\ up \in [Clients -> Seq(KnownControls')] /\ down \in [Clients -> Seq(KnownFrames')]
      /\ pending \in [Clients -> Seq(KnownPending')] /\ orphans \subseteq KnownOrphans'
      /\ job \in KnownJobs' \cup {NoJob} /\ view \in [Clients -> KnownViews']
      /\ admin \in [at : {"idle", "read", "announce"}, record : KnownRecords']
      /\ timer \in [Clients -> 0..lease'.epoch]
  BY <1>2, KnowStays DEF ClientInv
<1>4. admin' \in [at : {"idle", "read", "announce"}, record : KnownRecords'] /\ admin'.at = "read"
  BY <1>1, <1>3
<1>5. KnowInv'
  <2>1. crossed' \in BOOLEAN
    BY <1>1
  <2> QED
    BY <1>1, <1>2, <1>3, <1>4, <2>1 DEF ClientInv, KnowInv, NoJob
<1>6. CountInv'
  BY <1>1 DEF ClientInv, CountInv, InFlight, NoJob
<1>7. FreshInv'
  BY <1>1, <1>4 DEF FreshInv, NoJob
<1> QED
  BY <1>5, <1>6, <1>7 DEF ClientInv

LEMMA FrameAdded ==
    ASSUME NEW q \in Seq(KnownFrames), NEW f \in KnownFrames
    PROVE  /\ q \o <<f>> \in Seq(KnownFrames) /\ q \o <<f>> # <<>>
           /\ (q \o <<f>>)[Len(q \o <<f>>)] = f
           /\ Cardinality(Results(q \o <<f>>)) = Cardinality(Results(q)) + (IF f.kind = "result" THEN 1 ELSE 0)
<1>1. q \o <<f>> = Append(q, f)
  BY AppendIsConcat
<1>2. /\ Append(q, f) \in Seq(KnownFrames) /\ Append(q, f)[Len(q) + 1] = f
      /\ Len(Append(q, f)) = Len(q) + 1 /\ Len(q) \in Nat
  OBVIOUS
<1>3. Cardinality(Results(Append(q, f))) = Cardinality(Results(q)) + (IF f.kind = "result" THEN 1 ELSE 0)
  BY ResultsAppend
<1>4. Append(q, f) # <<>> /\ Append(q, f)[Len(Append(q, f))] = f
  BY <1>2
<1> QED
  BY <1>1, <1>2, <1>3, <1>4, Zenon

\* Announcement and answer carry the row's epoch.
LEMMA AnswerStep ==
    ASSUME ClientInv, Answer
    PROVE  ClientInv'
<1> DEFINE nf == Changed(job.record)
           rf == [kind |-> "result", err |-> job.err, record |-> job.record]
           news(c) == IF IsNews(job) /\ c \in connected THEN <<nf>> ELSE <<>>
           result(c) == IF job.live /\ job.client = c THEN <<rf>> ELSE <<>>
<1>1. /\ job # NoJob /\ job' = NoJob /\ down' = [c \in Clients |-> down[c] \o news(c) \o result(c)]
      /\ UNCHANGED <<time, lease, connected, up, pending, orphans, admin, view, timer, connects, releases, crossed>>
  BY DEF Answer
<1>2. job \in KnownJobs
  BY <1>1 DEF ClientInv, KnowInv
<1>3. nf \in KnownFrames /\ nf.kind = "changed" /\ nf.record = job.record
  BY <1>2 DEF Changed, KnownJobs, KnownFrames, Errors
<1>4. rf \in KnownFrames /\ rf.kind = "result" /\ rf.record = job.record
  BY <1>2 DEF KnownJobs, KnownFrames
<1> HIDE DEF nf, rf
<1>5. ASSUME NEW d \in Clients
      PROVE  /\ down'[d] \in Seq(KnownFrames)
             /\ Cardinality(Results(down'[d])) = Cardinality(Results(down[d])) + InFlight(d)
             /\ \/ down'[d] = down[d] /\ ~(IsNews(job) /\ d \in connected) /\ InFlight(d) = 0
                \/ down'[d] # <<>> /\ down'[d][Len(down'[d])].record = job.record
  <2> DEFINE q == down[d] \o news(d)
  <2>1. down'[d] = q \o result(d)
    BY <1>1
  <2>2. down[d] \in Seq(KnownFrames) /\ Cardinality(Results(down[d])) \in Nat
    BY CountTypes DEF ClientInv, KnowInv
  <2>3. /\ q \in Seq(KnownFrames) /\ Cardinality(Results(q)) = Cardinality(Results(down[d]))
        /\ \/ q = down[d] /\ ~(IsNews(job) /\ d \in connected)
           \/ q # <<>> /\ q[Len(q)].record = job.record
    <3>1. CASE IsNews(job) /\ d \in connected
      <4>1. q = down[d] \o <<nf>>
        BY <3>1
      <4> HIDE DEF q
      <4> QED
        BY <1>3, <2>2, <4>1, FrameAdded
    <3>2. CASE ~(IsNews(job) /\ d \in connected)
      <4>1. q = down[d] \o <<>>
        BY <3>2
      <4>2. q = down[d]
        BY <2>2, <4>1, ConcatEmptySeq
      <4> HIDE DEF q
      <4> QED
        BY <2>2, <3>2, <4>2
    <3> QED
      BY <3>1, <3>2
  <2> HIDE DEF q
  <2>4. CASE job.live /\ job.client = d
    <3>1. down'[d] = q \o <<rf>> /\ InFlight(d) = 1
      BY <1>1, <2>1, <2>4 DEF InFlight
    <3> QED
      BY <1>4, <2>2, <2>3, <3>1, FrameAdded
  <2>5. CASE ~(job.live /\ job.client = d)
    <3>1. down'[d] = q \o <<>> /\ InFlight(d) = 0
      BY <1>1, <2>1, <2>5 DEF InFlight
    <3>2. down'[d] = q
      BY <2>3, <3>1
    <3> QED
      BY <2>2, <2>3, <3>1, <3>2
  <2> QED
    BY <2>4, <2>5
<1>6. down' \in [Clients -> Seq(KnownFrames)]
  <2>1. DOMAIN down' = Clients /\ down' = [c \in Clients |-> down'[c]]
    BY <1>1
  <2> QED
    BY <1>5, <2>1
<1> HIDE DEF news, result
<1>7. KnowInv'
  BY <1>1, <1>6, SameRow DEF ClientInv, KnowInv
<1>8. \A d : InFlight(d)' = 0
  BY <1>1 DEF InFlight, NoJob
<1>9. CountInv'
  <2> SUFFICES ASSUME NEW d \in Clients
               PROVE  /\ Len(pending[d]) = Len(up[d]) + 0 + Cardinality(Results(down'[d]))
                      /\ d \notin connected => pending[d] = <<>>
    BY <1>1, <1>8 DEF CountInv
  <2>1. /\ Len(pending[d]) = Len(up[d]) + InFlight(d) + Cardinality(Results(down[d]))
        /\ d \notin connected => pending[d] = <<>>
    BY DEF ClientInv, CountInv
  <2>2. /\ Len(up[d]) \in Nat /\ InFlight(d) \in {0, 1} /\ Cardinality(Results(down[d])) \in Nat
    BY CountTypes DEF ClientInv
  <2>3. Cardinality(Results(down'[d])) = Cardinality(Results(down[d])) + InFlight(d)
    BY <1>5
  <2> QED
    BY <2>1, <2>2, <2>3
<1>10. FreshInv'
  <2> SUFFICES ASSUME ~crossed
               PROVE  admin.at = "idle" /\ \A d \in connected : up[d] # <<>> \/ Told(d)'
    BY <1>1 DEF FreshInv, NoJob
  <2>1. admin.at = "idle" /\ job.record.epoch = lease.epoch
    BY <1>1 DEF ClientInv, FreshInv, KnowInv
  <2>2. ASSUME NEW d \in connected PROVE up[d] # <<>> \/ Told(d)'
    <3>1. d \in Clients
      BY DEF ClientInv, KnowInv
    <3>2. CASE down'[d] # <<>> /\ down'[d][Len(down'[d])].record = job.record
      BY <1>1, <2>1, <3>2 DEF Told
    <3>3. CASE down'[d] = down[d] /\ ~IsNews(job) /\ InFlight(d) = 0
      <4>1. view'[d] = view[d]
        BY <1>1
      <4>2. Told(d)' <=> Told(d)
        BY <1>1, <3>3, <4>1 DEF Told
      <4> QED
        BY <2>1, <3>3, <4>2 DEF ClientInv, FreshInv
    <3> QED
      BY <1>5, <3>1, <3>2, <3>3
  <2> QED
    BY <2>1, <2>2
<1> QED
  BY <1>7, <1>9, <1>10 DEF ClientInv

\* The answer of a store that failed takes the place of the request.
LEMMA HandleFailsStep ==
    ASSUME ClientInv, NEW c \in Clients, HandleFails(c)
    PROVE  ClientInv'
<1> DEFINE f == [kind |-> "result", err |-> "internal", record |-> Failed(lease).record]
<1>1. /\ up[c] # <<>> /\ job = NoJob
      /\ up' = [up EXCEPT ![c] = Tail(up[c])] /\ down' = [down EXCEPT ![c] = Append(down[c], f)]
      /\ UNCHANGED <<time, lease, connected, pending, orphans, job, admin, view, timer, connects,
                     releases, crossed>>
  BY DEF HandleFails, MutexFree
<1>2. f \in KnownFrames /\ f.kind = "result" /\ Blank(f)
  <2>1. Failed(lease).record = Record(NoRow, "zero")
    BY DEF Failed
  <2>2. Record(NoRow, "zero") \in KnownRecords
    BY DEF Record, NoRow, KnownRecords, Records, RecordStates, Known, ClientInv, KnowInv, Rows
  <2>3. Record(NoRow, "zero").state = "zero" /\ Record(NoRow, "zero").epoch = 0
    BY DEF Record, NoRow
  <2> QED
    BY <2>1, <2>2, <2>3 DEF KnownFrames, Errors, Blank
<1> HIDE DEF f
<1>3. up \in [Clients -> Seq(KnownControls)] /\ down \in [Clients -> Seq(KnownFrames)]
  BY DEF ClientInv, KnowInv
<1>4. /\ up' \in [Clients -> Seq(KnownControls)] /\ Len(up'[c]) = Len(up[c]) - 1
      /\ \A d \in Clients \ {c} : up'[d] = up[d]
  <2>1. Tail(up[c]) \in Seq(KnownControls) /\ Len(Tail(up[c])) = Len(up[c]) - 1
    BY <1>1, <1>3
  <2> QED
    BY <1>1, <1>3, <2>1
<1>5. /\ down' \in [Clients -> Seq(KnownFrames)]
      /\ down'[c] # <<>> /\ down'[c][Len(down'[c])] = f
      /\ Cardinality(Results(down'[c])) = Cardinality(Results(down[c])) + 1
      /\ \A d \in Clients \ {c} : down'[d] = down[d]
  <2>1. down[c] \in Seq(KnownFrames)
    BY <1>3
  <2>2. /\ Append(down[c], f) \in Seq(KnownFrames) /\ Append(down[c], f) # <<>>
        /\ Append(down[c], f)[Len(Append(down[c], f))] = f
    BY <1>2, <2>1
  <2>3. Cardinality(Results(Append(down[c], f))) = Cardinality(Results(down[c])) + 1
    BY <1>2, <2>1, ResultsAppend
  <2> QED
    BY <1>1, <1>3, <2>2, <2>3
<1>6. KnowInv'
  BY <1>1, <1>4, <1>5, SameRow DEF ClientInv, KnowInv
<1>7. \A d : InFlight(d) = 0 /\ InFlight(d)' = 0
  BY <1>1 DEF InFlight, NoJob
<1>8. CountInv'
  <2> SUFFICES ASSUME NEW d \in Clients
               PROVE  /\ Len(pending[d]) = Len(up'[d]) + 0 + Cardinality(Results(down'[d]))
                      /\ d \notin connected => pending[d] = <<>>
    BY <1>1, <1>7 DEF CountInv
  <2>1. /\ Len(pending[d]) = Len(up[d]) + InFlight(d) + Cardinality(Results(down[d]))
        /\ d \notin connected => pending[d] = <<>>
    BY DEF ClientInv, CountInv
  <2>2. /\ Len(up[d]) \in Nat /\ Cardinality(Results(down[d])) \in Nat
    BY CountTypes DEF ClientInv
  <2>3. CASE d = c
    <3>1. InFlight(d) = 0
      BY <1>7
    <3>2. Len(pending[d]) = Len(up[d]) + 0 + Cardinality(Results(down[d]))
      BY <2>1, <3>1
    <3>3. Len(up'[d]) = Len(up[d]) - 1 /\ Cardinality(Results(down'[d])) = Cardinality(Results(down[d])) + 1
      BY <1>4, <1>5, <2>3
    <3> QED
      BY <2>1, <2>2, <3>2, <3>3
  <2>4. CASE d # c
    BY <1>4, <1>5, <1>7, <2>1, <2>2, <2>4
  <2> QED
    BY <2>3, <2>4
<1>9. FreshInv'
  <2>1. Told(c)'
    BY <1>2, <1>5 DEF Told
  <2>2. \A d \in Clients \ {c} : (Told(d)' <=> Told(d))
    BY <1>1, <1>5 DEF Told
  <2>3. connected \subseteq Clients
    BY DEF ClientInv, KnowInv
  <2> QED
    BY <1>1, <1>4, <1>7, <2>1, <2>2, <2>3 DEF ClientInv, FreshInv, NoJob
<1> QED
  BY <1>6, <1>8, <1>9 DEF ClientInv

LEMMA AdminAnnounceStep ==
    ASSUME ClientInv, AdminAnnounce
    PROVE  ClientInv'
<1> DEFINE nf == Changed(admin.record)
<1>1. /\ admin.at = "announce" /\ admin' = [at |-> "idle", record |-> Record(NoRow, "none")]
      /\ down' = [c \in Clients |-> IF c \in connected THEN Append(down[c], nf) ELSE down[c]]
      /\ UNCHANGED <<time, lease, connected, up, pending, orphans, job, view, timer, connects, releases, crossed>>
  BY DEF AdminAnnounce
<1>2. nf \in KnownFrames /\ nf.kind = "changed"
  BY DEF Changed, KnownFrames, Errors, ClientInv, KnowInv
<1> HIDE DEF nf
<1>3. Record(NoRow, "none") \in KnownRecords
  BY DEF Record, NoRow, KnownRecords, Records, RecordStates, Known, ClientInv, KnowInv, Rows
<1>4. \A d \in Clients : /\ down'[d] \in Seq(KnownFrames)
                         /\ Cardinality(Results(down'[d])) = Cardinality(Results(down[d]))
  <2> TAKE d \in Clients
  <2>1. down[d] \in Seq(KnownFrames) /\ Cardinality(Results(down[d])) \in Nat
    BY CountTypes DEF ClientInv, KnowInv
  <2>2. CASE d \in connected
    <3>1. down'[d] = Append(down[d], nf)
      BY <1>1, <2>2
    <3>2. Append(down[d], nf) \in Seq(KnownFrames)
      BY <1>2, <2>1
    <3> QED
      BY <1>2, <2>1, <3>1, <3>2, ResultsAppend
  <2>3. CASE d \notin connected
    BY <1>1, <2>1, <2>3
  <2> QED
    BY <2>2, <2>3
<1>5. down' \in [Clients -> Seq(KnownFrames)]
  <2>1. DOMAIN down' = Clients /\ down' = [c \in Clients |-> down'[c]]
    BY <1>1
  <2> QED
    BY <1>4, <2>1
<1>6. admin' \in [at : {"idle", "read", "announce"}, record : KnownRecords]
  BY <1>1, <1>3
<1>7. KnowInv'
  BY <1>1, <1>5, <1>6, SameRow DEF ClientInv, KnowInv
<1>8. \A d : InFlight(d)' = InFlight(d)
  BY <1>1 DEF InFlight, NoJob
<1>9. CountInv'
  BY <1>1, <1>4, <1>8 DEF ClientInv, CountInv
<1>10. ASSUME ~crossed, NEW d \in connected
       PROVE  job = NoJob /\ Told(d)'
  <2>1. job = NoJob /\ nf.record.epoch = lease.epoch
    BY <1>1, <1>10 DEF ClientInv, FreshInv, nf, Changed
  <2>2. d \in Clients /\ down[d] \in Seq(KnownFrames) /\ down'[d] = Append(down[d], nf)
    BY <1>1, <1>10 DEF ClientInv, KnowInv
  <2>3. down'[d] # <<>> /\ down'[d][Len(down'[d])] = nf
    BY <2>2
  <2> QED
    BY <1>1, <2>1, <2>3 DEF Told
<1>11. FreshInv'
  <2>1. ~crossed => job = NoJob
    BY <1>1 DEF ClientInv, FreshInv
  <2> QED
    BY <1>1, <1>10, <2>1 DEF FreshInv, NoJob
<1> QED
  BY <1>7, <1>9, <1>11 DEF ClientInv

-----------------------------------------------------------------------------
(* Theorems about the browsers *)

LEMMA ClientStart == ClientInit => ClientInv
<1> SUFFICES ASSUME ClientInit PROVE ClientInv
  OBVIOUS
<1>1. NoRow \in Rows /\ lease = NoRow /\ lease.epoch = 0
  BY DEF ClientInit, NoRow, Rows
<1>2. Record(NoRow, "none") \in KnownRecords
  BY <1>1 DEF Record, NoRow, KnownRecords, Records, RecordStates, Known
<1>3. NoView \in KnownViews /\ NoView.epoch = 0
  BY <1>1 DEF NoView, KnownViews, Holders, Known
<1>4. /\ <<>> \in Seq(KnownControls) /\ <<>> \in Seq(KnownFrames) /\ <<>> \in Seq(KnownPending)
      /\ 0 \in 0..lease.epoch
  BY <1>1
<1>5. /\ up \in [Clients -> Seq(KnownControls)] /\ down \in [Clients -> Seq(KnownFrames)]
      /\ pending \in [Clients -> Seq(KnownPending)]
      /\ view \in [Clients -> KnownViews] /\ timer \in [Clients -> 0..lease.epoch]
  BY <1>3, <1>4 DEF ClientInit
<1>6. admin \in [at : {"idle", "read", "announce"}, record : KnownRecords] /\ admin.at = "idle"
  BY <1>2 DEF ClientInit
<1>7. KnowInv
  BY <1>1, <1>5, <1>6 DEF ClientInit, KnowInv
<1>8. CountInv
  <2>1. \A c \in Clients : up[c] = <<>> /\ down[c] = <<>> /\ pending[c] = <<>> /\ InFlight(c) = 0
    BY DEF ClientInit, InFlight
  <2>2. \A c \in Clients : Cardinality(Results(down[c])) = 0
    BY <2>1, ResultsEmpty, Zenon
  <2>3. \A c \in Clients : Len(pending[c]) = 0 /\ Len(up[c]) = 0
    BY <2>1
  <2>4. \A c \in Clients : Len(pending[c]) = Len(up[c]) + InFlight(c) + Cardinality(Results(down[c]))
    <3> TAKE c \in Clients
    <3> DEFINE n == Cardinality(Results(down[c]))
    <3>1. n = 0
      BY <2>2
    <3> HIDE DEF n
    <3>2. Len(pending[c]) = Len(up[c]) + InFlight(c) + n
      BY <2>1, <2>3, <3>1
    <3> QED
      BY <3>2 DEF n
  <2> QED
    BY <2>1, <2>4 DEF CountInv
<1>9. FreshInv
  BY <1>6 DEF ClientInit, FreshInv
<1> QED
  BY <1>7, <1>8, <1>9 DEF ClientInv

LEMMA ClientStep == ClientInv /\ [ClientNext]_clientVars => ClientInv'
<1> SUFFICES ASSUME ClientInv, [ClientNext]_clientVars PROVE ClientInv'
  OBVIOUS
<1>1. /\ time \in Nat /\ lease.epoch \in Nat /\ 0 \in 0..lease.epoch /\ timer \in [Clients -> 0..lease.epoch]
      /\ admin \in [at : {"idle", "read", "announce"}, record : KnownRecords]
      /\ crossed \in BOOLEAN
  BY DEF ClientInv, KnowInv, Rows, FreshInv
<1>2. \A c \in Clients : view[c].epoch \in Nat
  BY DEF ClientInv, KnowInv, KnownViews
<1>3. \A c \in Clients : [timer EXCEPT ![c] = 0] \in [Clients -> 0..lease.epoch]
  BY <1>1
<1>4. ASSUME NEW c \in Clients, Authenticated(c) PROVE ClientInv'
  BY <1>4, AuthenticatedStep
<1>5. ASSUME NEW c \in Clients, Disconnect(c) PROVE ClientInv'
  BY <1>5, DisconnectStep
<1>6. ASSUME NEW c \in Clients, Acquire(c) PROVE ClientInv'
  <2>1. Send(c, "acquire", view[c].epoch, 0) /\ view' = view /\ timer' = timer
    BY <1>6 DEF Acquire
  <2> QED
    BY <1>1, <1>2, <2>1, SendStep DEF ControlOps
<1>7. ASSUME NEW c \in Clients, Takeover(c) PROVE ClientInv'
  <2>1. Send(c, "takeover", view[c].epoch, 0) /\ view' = view /\ timer' = timer
    BY <1>7 DEF Takeover
  <2> QED
    BY <1>1, <1>2, <2>1, SendStep DEF ControlOps
<1>8. ASSUME NEW c \in Clients, Release(c) PROVE ClientInv'
  <2>1. Send(c, "release", AnyEpoch, 0) /\ view' = view /\ timer' = [timer EXCEPT ![c] = 0]
    BY <1>8 DEF Release
  <2> QED
    BY <1>1, <1>3, <2>1, SendStep DEF ControlOps
<1>9. ASSUME NEW c \in Clients, LoadThread(c) PROVE ClientInv'
  <2>1. Send(c, "status", AnyEpoch, 0) /\ view' = view /\ timer' = timer
    BY <1>9 DEF LoadThread
  <2> QED
    BY <1>1, <2>1, SendStep DEF ControlOps
<1>10. ASSUME NEW c \in Clients, RenewTimer(c) PROVE ClientInv'
  <2>1. view' = view /\ timer' = [timer EXCEPT ![c] = 0] /\ timer[c] \in 0..lease.epoch
    BY <1>1, <1>10 DEF RenewTimer
  <2>2. CASE Send(c, "renew", AnyEpoch, timer[c])
    BY <1>3, <2>1, <2>2, SendStep DEF ControlOps
  <2>3. CASE UNCHANGED <<time, lease, connected, up, down, pending, orphans, job, admin, connects, releases, crossed>>
    BY <1>1, <1>3, <2>1, <2>3, NoExchangeStep
  <2> QED
    BY <1>10, <2>2, <2>3 DEF RenewTimer
<1>11. ASSUME NEW c \in Clients, ReceiveFrame(c) PROVE ClientInv'
  BY <1>11, ReceiveStep
<1>12. ASSUME NEW c \in Clients, Handle(c) PROVE ClientInv'
  BY <1>12, HandleStep
<1>13. ASSUME NEW o \in orphans, HandleOrphan(o) PROVE ClientInv'
  BY <1>13, OrphanStep
<1>14. ASSUME NEW o \in orphans, DropOrphan(o) PROVE ClientInv'
  BY <1>1, <1>14, NoExchangeStep DEF DropOrphan
<1>15. CASE Answer
  BY <1>15, AnswerStep
<1>16. CASE AdminReleases
  BY <1>16, AdminReleasesStep
<1>17. CASE AdminReads
  <2> DEFINE r == Lease(lease, time).record
  <2>1. r \in Records /\ r.epoch = lease.epoch /\ r.holder = lease.holder
    <3>1. lease \in Rows /\ State(lease, time) \in RecordStates
      BY <1>1, StateType DEF ClientInv, KnowInv
    <3> QED
      BY <3>1 DEF Lease, Outcome, Record, Records, Rows
  <2>2. /\ admin' = [at |-> "announce", record |-> r] /\ admin.at = "read"
        /\ UNCHANGED <<time, lease, connected, up, down, pending, orphans, job, view, timer, connects, releases, crossed>>
    BY <1>17 DEF AdminReads
  <2> HIDE DEF r
  <2>3. /\ admin' \in [at : {"idle", "read", "announce"}, record : KnownRecords]
        /\ admin'.at = "announce" /\ admin'.record.epoch = lease.epoch
    BY <1>1, <2>1, <2>2 DEF KnownRecords, Known
  <2> QED
    BY <1>1, <2>2, <2>3, NoExchangeStep
<1>21. CASE AdminReadFails
  <2>1. admin' \in [at : {"idle", "read", "announce"}, record : KnownRecords]
    BY <1>1, <1>21 DEF AdminReadFails
  <2> QED
    BY <1>1, <1>21, <2>1, NoExchangeStep DEF AdminReadFails
<1>22. ASSUME NEW c \in Clients, HandleFails(c) PROVE ClientInv'
  BY <1>22, HandleFailsStep
<1>18. CASE AdminAnnounce
  BY <1>18, AdminAnnounceStep
<1>19. CASE TimePasses
  BY <1>1, <1>19, NoExchangeStep DEF TimePasses
<1>20. CASE UNCHANGED clientVars
  BY <1>1, <1>20, NoExchangeStep DEF clientVars
<1> QED
  BY <1>4, <1>5, <1>6, <1>7, <1>8, <1>9, <1>10, <1>11, <1>12, <1>13, <1>14, <1>15, <1>16, <1>17, <1>18,
     <1>19, <1>20, <1>21, <1>22 DEF ClientNext

LEMMA ClientInvHolds == ClientSpec => []ClientInv
  BY ClientStart, ClientStep, PTL DEF ClientSpec

\* A browser whose exchange with the Server has settled shows the row's epoch, or
\* the blind view a failed store left it, in spite of broken connections, late
\* handlers, dropped announcements and the administrator's releases, as long as
\* no handler ran between a release and its announcement (control-client.ts,
\* leaseFromResult, applyLeaseChanged; handleServerControl's announcements).
THEOREM SettledBrowsersAgree == ClientSpec => []SettledViewIsCurrent
<1>1. ClientInv => SettledViewIsCurrent
  <2> SUFFICES ASSUME ClientInv, NEW c \in Clients, Settled(c), ~crossed
               PROVE  view[c].epoch = lease.epoch \/ Blind(view[c])
    BY DEF SettledViewIsCurrent
  <2>1. c \in connected /\ Len(pending[c]) = 0 /\ down[c] = <<>> /\ job = NoJob /\ admin.at = "idle"
    BY DEF Settled
  <2>2. InFlight(c) = 0
    BY <2>1 DEF InFlight
  <2>3. Len(up[c]) = 0
    BY <2>1, <2>2, CountTypes DEF ClientInv, CountInv
  <2>4. up[c] = <<>>
    BY <2>3, EmptySeq DEF ClientInv, KnowInv
  <2> QED
    BY <2>1, <2>2, <2>4 DEF ClientInv, FreshInv, Told
<1> QED
  BY <1>1, ClientInvHolds, PTL

\* A confirmed takeover never takes the lease from another holder than the one
\* the user was shown: the request carries the epoch of that view, and of every
\* epoch there is one holder at most (AcquireLease's expectedEpoch).
THEOREM TakeoverIsAsConfirmed == ClientSpec => TakeoverAsConfirmed
<1> DEFINE Safe == job = NoJob /\ job' # NoJob
                   /\ job'.req.op = "takeover" /\ job'.err = "none" /\ job'.req.seen # NoClient
                   => lease.holder = job'.req.seen
<1>1. ClientInv /\ [ClientNext]_clientVars => [Safe]_job
  <2> SUFFICES ASSUME ClientInv, ClientNext, job = NoJob, job' # NoJob,
                      job'.req.op = "takeover", job'.err = "none", job'.req.seen # NoClient
               PROVE  lease.holder = job'.req.seen
    BY DEF clientVars
  <2>1. ASSUME NEW c \in Clients, NEW r \in KnownControls, NEW live \in BOOLEAN, Transact(c, r, live)
        PROVE  lease.holder = job'.req.seen
    BY <2>1, TransactFacts DEF ClientInv
  <2>2. ASSUME NEW c \in Clients, Handle(c) PROVE lease.holder = job'.req.seen
    <3> DEFINE r == Head(up[c])
               live == TRUE
    <3>1. up[c] \in Seq(KnownControls) /\ up[c] # <<>> /\ Transact(c, r, live)
      BY <2>2 DEF Handle, ClientInv, KnowInv
    <3>2. r \in KnownControls /\ live \in BOOLEAN
      BY <3>1
    <3> HIDE DEF r, live
    <3> QED
      BY <2>1, <3>1, <3>2
  <2>3. ASSUME NEW o \in orphans, HandleOrphan(o) PROVE lease.holder = job'.req.seen
    <3> DEFINE live == FALSE
    <3>1. o.client \in Clients /\ o.req \in KnownControls /\ live \in BOOLEAN /\ Transact(o.client, o.req, live)
      BY <2>3 DEF HandleOrphan, ClientInv, KnowInv, KnownOrphans
    <3> HIDE DEF live
    <3> QED
      BY <2>1, <3>1
  <2>4. ASSUME NEW c \in Clients,
               \/ Authenticated(c) \/ Disconnect(c) \/ Acquire(c) \/ Takeover(c) \/ Release(c)
               \/ LoadThread(c) \/ RenewTimer(c) \/ ReceiveFrame(c) \/ HandleFails(c)
        PROVE  job' = job
    BY <2>4 DEF Authenticated, Disconnect, Acquire, Takeover, Release, LoadThread, RenewTimer, ReceiveFrame, HandleFails, Send
  <2>5. ASSUME \/ \E o \in orphans : DropOrphan(o)
               \/ Answer \/ AdminReleases \/ AdminReads \/ AdminReadFails \/ AdminAnnounce \/ TimePasses
        PROVE  job' = job \/ job' = NoJob
    BY <2>5 DEF DropOrphan, Answer, AdminReleases, AdminReads, AdminReadFails, AdminAnnounce, TimePasses
  <2> QED
    BY <2>2, <2>3, <2>4, <2>5 DEF ClientNext
<1> QED
  BY <1>1, ClientInvHolds, PTL DEF ClientSpec, TakeoverAsConfirmed
=============================================================================
