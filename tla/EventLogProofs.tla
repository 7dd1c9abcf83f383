--------------------------- MODULE EventLogProofs ---------------------------
(***************************************************************************)
(* Proofs about EventLog for every clock, frame size, retention setting,   *)
(* page size and bound; then about EventStream: what the browser's handlers *)
(* do to its buffer, for every log, page size and limit.  What the sum of  *)
(* the frame sizes is at every moment is an induction over the log and is  *)
(* not proved.                                                             *)
(***************************************************************************)
EXTENDS EventLog, EventStream, FiniteSetTheorems, SequenceTheorems, NaturalsInduction, WellFoundedInduction, TLAPS

USE EventStoreAssumption, EventLogAssumption

-----------------------------------------------------------------------------
(* The least element of a set of naturals *)

LEMMA MinFacts ==
    ASSUME NEW S \in SUBSET Nat, S # {}
    PROVE  Min(S) \in S /\ \A y \in S : Min(S) <= y
<1> DEFINE less == {ss \in Nat \X Nat : ss[1] < ss[2]}
<1>1. IsWellFoundedOn(less, Nat)
  BY NatLessThanWellFounded, Zenon DEF OpToRel
<1> HIDE DEF less
<1>2. PICK x \in S : \A y \in S : ~(<<y, x>> \in less)
  BY <1>1, WFMin, Zenon
<1>3. ASSUME NEW y \in S, NEW z \in S, y < z
      PROVE  <<y, z>> \in less
  <2>1. <<y, z>> \in Nat \X Nat
    OBVIOUS
  <2>2. <<y, z>>[1] = y /\ <<y, z>>[2] = z
    OBVIOUS
  <2> QED
    BY <1>3, <2>1, <2>2 DEF less
<1>4. \A y \in S : ~(y < x)
  BY <1>2, <1>3, Zenon
<1>5. \A y \in S : x <= y
  BY <1>4
<1> QED
  BY <1>5 DEF Min

-----------------------------------------------------------------------------
(* The stream *)

\* EXCEPT on a stream keeps its fields.
Shape(st) ==
    st = [latest |-> st.latest, total |-> st.total, log |-> st.log,
          outbox |-> st.outbox, pending |-> st.pending, acked |-> st.acked]

\* Retained rows are a suffix, mirrored by the outbox, with the unacknowledged
\* ones beyond the cursor.
StreamInv(st) ==
    /\ Shape(st)
    /\ st.latest \in Nat
    /\ st.acked \in 0..st.latest
    /\ DOMAIN st.log \subseteq 1..st.latest
    /\ \A s \in DOMAIN st.log : st.log[s] \in Rows
    /\ \A s \in DOMAIN st.log : s..st.latest \subseteq DOMAIN st.log
    /\ st.outbox = DOMAIN st.log
    /\ st.pending = {s \in st.outbox : s > st.acked}

\* A transaction keeps the committed rows it does not delete and adds at most the
\* next one.
Extends(new, st) ==
    \A s \in DOMAIN new.log :
       IF s \in DOMAIN st.log THEN new.log[s] = st.log[s] ELSE s = st.latest + 1

LEMMA InsertedFacts ==
    ASSUME NEW st, StreamInv(st), NEW row \in Rows
    PROVE  /\ StreamInv(Inserted(st, row))
           /\ Inserted(st, row).latest = st.latest + 1
           /\ Extends(Inserted(st, row), st)
           /\ DOMAIN Inserted(st, row).log = DOMAIN st.log \cup {st.latest + 1}
<1> DEFINE n == Inserted(st, row)
           q == st.latest + 1
<1>1. n = [latest |-> q, total |-> st.total + row.size,
           log |-> [s \in DOMAIN st.log \cup {q} |->
                       IF s = q THEN row ELSE st.log[s]],
           outbox |-> st.outbox \cup {q}, pending |-> st.pending \cup {q},
           acked |-> st.acked]
  BY DEF StreamInv, Shape, Inserted
<1>2. /\ n.latest = q /\ n.acked = st.acked
      /\ DOMAIN n.log = DOMAIN st.log \cup {q}
      /\ n.outbox = st.outbox \cup {q}
      /\ n.pending = st.pending \cup {q}
      /\ \A s \in DOMAIN n.log : n.log[s] = IF s = q THEN row ELSE st.log[s]
  BY <1>1
<1>3. Shape(n)
  BY <1>1 DEF Shape
<1> HIDE DEF n
<1>4. q \notin DOMAIN st.log /\ q \in Nat
  BY DEF StreamInv
<1>5. \A s \in DOMAIN n.log : s..n.latest \subseteq DOMAIN n.log
  BY <1>2 DEF StreamInv
<1>6. n.pending = {s \in n.outbox : s > n.acked}
  BY <1>2 DEF StreamInv
<1>7. \A s \in DOMAIN n.log : n.log[s] \in Rows
  BY <1>2 DEF StreamInv
<1>8. /\ n.latest \in Nat /\ n.acked \in 0..n.latest
      /\ DOMAIN n.log \subseteq 1..n.latest /\ n.outbox = DOMAIN n.log
  BY <1>2 DEF StreamInv
<1>9. StreamInv(n)
  BY <1>3, <1>5, <1>6, <1>7, <1>8 DEF StreamInv
<1>10. Extends(n, st)
  BY <1>2, <1>4 DEF Extends
<1> QED
  BY <1>2, <1>9, <1>10 DEF n

LEMMA PruneFacts ==
    ASSUME NEW st, StreamInv(st), NEW cutoff, NEW maxBytes
    PROVE  /\ StreamInv(pruneEvents(st, cutoff, maxBytes))
           /\ pruneEvents(st, cutoff, maxBytes).latest = st.latest
           /\ DOMAIN pruneEvents(st, cutoff, maxBytes).log \subseteq DOMAIN st.log
           /\ \A s \in DOMAIN pruneEvents(st, cutoff, maxBytes).log :
                 pruneEvents(st, cutoff, maxBytes).log[s] = st.log[s]
<1> DEFINE kept == Retained(st, cutoff, maxBytes)
           gone == DOMAIN st.log \ kept
           n == pruneEvents(st, cutoff, maxBytes)
<1>1. n = [latest |-> st.latest, total |-> st.total - Bytes(st.log, gone),
           log |-> [s \in kept |-> st.log[s]],
           outbox |-> st.outbox \ gone, pending |-> st.pending \ gone,
           acked |-> st.acked]
  BY DEF StreamInv, Shape, pruneEvents
<1>2. /\ n.latest = st.latest /\ n.acked = st.acked
      /\ DOMAIN n.log = kept
      /\ n.outbox = st.outbox \ gone
      /\ n.pending = st.pending \ gone
      /\ \A s \in kept : n.log[s] = st.log[s]
  BY <1>1
<1>3. Shape(n)
  BY <1>1 DEF Shape
<1> HIDE DEF n
<1>4. kept \subseteq DOMAIN st.log
  BY DEF Retained
\* A row after a retained one is retained: the loop stopped no later than there.
<1>5. ASSUME NEW s \in kept, NEW t \in s..st.latest
      PROVE  t \in kept
  <2>1. PICK k \in DOMAIN st.log : k <= s /\ Stops(st, k, cutoff, maxBytes)
    BY DEF Retained
  <2>2. t \in DOMAIN st.log
    BY <1>4 DEF StreamInv
  <2>3. k <= t
    BY <2>1, <2>2, <1>4 DEF StreamInv
  <2> QED
    BY <2>1, <2>2, <2>3 DEF Retained
<1> HIDE DEF kept
<1>6. n.outbox = kept
  BY <1>2, <1>4 DEF StreamInv
<1>7. n.pending = {s \in n.outbox : s > n.acked}
  BY <1>2, <1>4, <1>6 DEF StreamInv
<1>8. \A s \in DOMAIN n.log : n.log[s] \in Rows
  BY <1>2, <1>4 DEF StreamInv
<1>9. \A s \in DOMAIN n.log : s..n.latest \subseteq DOMAIN n.log
  BY <1>2, <1>5
<1>10. StreamInv(n)
  BY <1>2, <1>3, <1>4, <1>6, <1>7, <1>8, <1>9 DEF StreamInv
<1> QED
  BY <1>2, <1>4, <1>10 DEF n

LEMMA AppendFacts ==
    ASSUME NEW st, StreamInv(st), NEW row \in Rows, NEW ret
    PROVE  /\ StreamInv(appendEvent(st, row, ret))
           /\ appendEvent(st, row, ret).latest = st.latest + 1
           /\ Extends(appendEvent(st, row, ret), st)
<1> DEFINE i == Inserted(st, row)
           n == appendEvent(st, row, ret)
<1>1. /\ StreamInv(i) /\ i.latest = st.latest + 1 /\ Extends(i, st)
      /\ DOMAIN i.log = DOMAIN st.log \cup {st.latest + 1}
  BY InsertedFacts
<1> HIDE DEF i
<1>2. n = pruneEvents(i, row.at - ret.age, ret.bytes)
  BY DEF appendEvent, i
<1> HIDE DEF n
<1>3. /\ StreamInv(n) /\ n.latest = i.latest
      /\ DOMAIN n.log \subseteq DOMAIN i.log
      /\ \A s \in DOMAIN n.log : n.log[s] = i.log[s]
  BY <1>1, <1>2, PruneFacts
<1>4. Extends(n, st)
  BY <1>1, <1>3 DEF Extends
<1> QED
  BY <1>1, <1>3, <1>4 DEF n

LEMMA AcknowledgeFacts ==
    ASSUME NEW st, StreamInv(st), NEW sequence \in Nat, CanAcknowledge(st, sequence)
    PROVE  /\ StreamInv(AcknowledgeEvents(st, sequence))
           /\ AcknowledgeEvents(st, sequence).latest = st.latest
           /\ AcknowledgeEvents(st, sequence).log = st.log
<1> DEFINE n == AcknowledgeEvents(st, sequence)
<1>1. n = [latest |-> st.latest, total |-> st.total, log |-> st.log,
           outbox |-> st.outbox, pending |-> {s \in st.pending : s > sequence},
           acked |-> sequence]
  BY DEF StreamInv, Shape, AcknowledgeEvents
<1>2. /\ n.latest = st.latest /\ n.acked = sequence /\ n.log = st.log
      /\ n.outbox = st.outbox /\ n.pending = {s \in st.pending : s > sequence}
  BY <1>1
<1>3. Shape(n)
  BY <1>1 DEF Shape
<1> HIDE DEF n
<1>4. n.pending = {s \in n.outbox : s > n.acked}
  BY <1>2 DEF StreamInv, CanAcknowledge
<1> QED
  BY <1>2, <1>3, <1>4 DEF StreamInv, CanAcknowledge, n

-----------------------------------------------------------------------------
(* The store under the steps of the Node *)

Appends == \E row \in Rows : Append1(row)

LEMMA StreamStep ==
    ASSUME StreamInv(stream), [Next]_vars
    PROVE  /\ StreamInv(stream')
           /\ stream'.latest \in {stream.latest, stream.latest + 1}
           /\ Extends(stream', stream)
<1>1. ASSUME Appends
      PROVE  /\ StreamInv(stream')
             /\ stream'.latest = stream.latest + 1
             /\ Extends(stream', stream)
  <2>1. PICK row \in Rows : stream' = appendEvent(stream, row, retention)
    BY <1>1 DEF Appends, Append1
  <2> QED
    BY <2>1, AppendFacts
<1>2. ASSUME Acknowledge
      PROVE  /\ StreamInv(stream')
             /\ stream'.latest = stream.latest
             /\ stream'.log = stream.log
  <2>1. PICK q \in Cursors : /\ CanAcknowledge(stream, q)
                             /\ stream' = AcknowledgeEvents(stream, q)
    BY <1>2 DEF Acknowledge
  <2>2. q \in Nat
    BY <2>1
  <2> QED
    BY <2>1, <2>2, AcknowledgeFacts
<1>3. stream' = stream \/ Appends \/ Acknowledge
  BY DEF Next, vars, Appends, PumpPublish, PumpLocks, PumpSends, ReceiveControl,
         HandlerPublish, HandlerLocks, HandlerSends, ReceiveReplay, ReplayHead,
         ReplayRowsRead, RecoverPublishesGap, RecoverPublishesSnapshot, SendRecord,
         RecordsSent, CompleteControl, SendResult, Bind, Unbind, UpdateRetention, Crash
<1>4. CASE stream' = stream
  BY <1>4 DEF Extends
<1>5. CASE Appends
  BY <1>1, <1>5
<1>6. CASE Acknowledge
  BY <1>2, <1>6 DEF Extends
<1> QED
  BY <1>3, <1>4, <1>5, <1>6

-----------------------------------------------------------------------------
(* The inductive invariant *)

Handlers == [pc : HandlerPCs, kind : {"other", "replay"}, after : Nat,
             target : {"none", "thread"}, pass : {"replay", "recover"},
             earliest : Nat, batch : SUBSET Nat, seq : Nat]

StateOK ==
    /\ retention \in Retentions
    /\ gate \in Holders
    /\ transport \in Transports
    /\ frame \in [seq : Nat, by : {"none", "pump", "handler"}]
    /\ pump \in [pc : PumpPCs, seq : Nat]
    /\ handler \in Handlers

\* A replay holds deliveryMu from its first step to its last.
GateOK ==
    /\ handler.kind = "replay" => gate = "handler"
    /\ handler.pc \in {"receive", "publish", "send"} => handler.kind = "other"

\* The head a replay has read is stale but never ahead of the log.
EarliestOK ==
    /\ (handler.pc \in {"rows", "gap"} /\ handler.earliest > 0)
          => /\ handler.earliest <= stream.latest
             /\ \A s \in DOMAIN stream.log : handler.earliest <= s
    /\ handler.pc = "gap" => Gap(handler)

\* What is left of a batch lies beyond what was sent of it.
RecordsOK ==
    /\ handler.pc \in {"head", "rows"} => handler.seq = 0
    /\ handler.pc = "snapshot" => handler.seq > 0
    /\ handler.pc = "records" => \A b \in handler.batch : b > handler.seq

LogInv == StreamInv(stream) /\ StateOK /\ GateOK /\ EarliestOK /\ RecordsOK

LEMMA LogInit == Init => LogInv
<1> SUFFICES ASSUME Init PROVE LogInv
  OBVIOUS
<1> USE DEF Init
<1>1. StreamInv(stream)
  BY DEF StreamInv, Shape, EmptyStream
<1>2. handler \in Handlers /\ handler.pc = "receive" /\ handler.kind = "other"
  BY DEF Idle, Handlers, HandlerPCs
<1>3. StateOK
  BY <1>2 DEF StateOK, Holders, Transports, NoFrame, PumpPCs
<1> QED
  BY <1>1, <1>2, <1>3 DEF LogInv, GateOK, EarliestOK, RecordsOK

LEMMA HeadFacts ==
    ASSUME StreamInv(stream)
    PROVE  LET e == readEventHead(stream).earliest
           IN  /\ e \in Nat
               /\ e > 0 => /\ e <= stream.latest
                           /\ \A s \in DOMAIN stream.log : e <= s
<1>1. readEventHead(stream).earliest =
          IF DOMAIN stream.log = {} THEN 0 ELSE Min(DOMAIN stream.log)
  BY DEF readEventHead
<1>2. DOMAIN stream.log \in SUBSET Nat
  BY DEF StreamInv
<1>3. CASE DOMAIN stream.log = {}
  BY <1>1, <1>3
<1>4. CASE DOMAIN stream.log # {}
  <2>1. /\ Min(DOMAIN stream.log) \in DOMAIN stream.log
        /\ \A s \in DOMAIN stream.log : Min(DOMAIN stream.log) <= s
    BY <1>2, <1>4, MinFacts
  <2> QED
    BY <1>1, <1>4, <2>1 DEF StreamInv
<1> QED
  BY <1>3, <1>4

\* A step that leaves the handler where it was keeps what was read true.
LEMMA HandlerRests ==
    ASSUME LogInv, [Next]_vars, handler' = handler
    PROVE  EarliestOK' /\ RecordsOK'
<1>1. /\ StreamInv(stream') /\ Extends(stream', stream)
      /\ stream'.latest \in {stream.latest, stream.latest + 1}
  BY StreamStep DEF LogInv
<1>2. stream.latest \in Nat /\ handler.earliest \in Nat
  BY DEF LogInv, StreamInv, StateOK, Handlers
<1>3. EarliestOK'
  BY <1>1, <1>2 DEF LogInv, EarliestOK, Extends, Gap
<1> QED
  BY <1>3 DEF LogInv, RecordsOK

LEMMA LogNext == LogInv /\ [Next]_vars => LogInv'
<1> SUFFICES ASSUME LogInv, [Next]_vars PROVE LogInv'
  OBVIOUS
<1>0. /\ StreamInv(stream) /\ StateOK /\ GateOK /\ EarliestOK /\ RecordsOK
      /\ StreamInv(stream') /\ stream.latest \in Nat
  BY StreamStep DEF LogInv, StreamInv
<1>1. ASSUME handler' = handler, StateOK', GateOK' PROVE LogInv'
  BY <1>0, <1>1, HandlerRests DEF LogInv
<1>2. ASSUME StateOK', GateOK', EarliestOK', RecordsOK' PROVE LogInv'
  BY <1>0, <1>2 DEF LogInv
<1>3. Idle \in Handlers /\ Idle.pc = "receive" /\ Idle.kind = "other"
  BY DEF Idle, Handlers, HandlerPCs
<1>4. ASSUME handler' = Idle PROVE GateOK' /\ EarliestOK' /\ RecordsOK'
  BY <1>3, <1>4 DEF GateOK, EarliestOK, RecordsOK
<1> USE <1>0 DEF Holders, Transports, PumpPCs
<1> DEFINE q == stream.latest + 1
<1>q. q \in Nat /\ q > 0
  OBVIOUS
<1> HIDE DEF q
<1>5. CASE PumpPublish
  BY <1>1, <1>5 DEF PumpPublish, StateOK, GateOK
<1>6. CASE PumpLocks
  BY <1>1, <1>6 DEF PumpLocks, StateOK, GateOK
<1>7. CASE PumpSends
  BY <1>1, <1>7 DEF PumpSends, Delivered, NotDelivered, StateOK, GateOK
<1>8. CASE ReceiveControl
  <2>1. /\ handler' \in Handlers
        /\ handler'.pc \in {"publish", "complete"} /\ handler'.kind = "other"
    BY <1>8 DEF ReceiveControl, Handlers, HandlerPCs, ReplayPCs, StateOK, Idle
  <2>2. StateOK'
    BY <1>8, <2>1 DEF ReceiveControl, Delivered, NotDelivered, StateOK
  <2>3. GateOK'
    BY <1>8, <2>1 DEF ReceiveControl, GateOK
  <2>4. EarliestOK' /\ RecordsOK'
    BY <1>8, <2>1 DEF EarliestOK, RecordsOK, Gap
  <2> QED
    BY <1>2, <2>2, <2>3, <2>4
<1>9. CASE HandlerPublish
  <2>a. /\ handler \in Handlers /\ handler.pc = "publish"
        /\ handler' = [handler EXCEPT !.pc = "send", !.seq = q]
    BY <1>9 DEF HandlerPublish, StateOK, q
  <2>1. /\ handler' \in Handlers
        /\ handler'.pc = "send" /\ handler'.kind = handler.kind /\ handler'.seq > 0
    BY <1>q, <2>a DEF Handlers, HandlerPCs, ReplayPCs
  <2>2. StateOK'
    BY <1>9, <2>1 DEF HandlerPublish, Delivered, NotDelivered, StateOK
  <2>3. GateOK'
    BY <1>9, <2>1 DEF HandlerPublish, GateOK
  <2>4. EarliestOK' /\ RecordsOK'
    BY <1>9, <2>1 DEF EarliestOK, RecordsOK, Gap
  <2> QED
    BY <1>2, <2>2, <2>3, <2>4
<1>10. CASE HandlerLocks
  BY <1>1, <1>10 DEF HandlerLocks, StateOK, GateOK
<1>11. CASE HandlerSends
  BY <1>2, <1>11 DEF HandlerSends, Delivered, NotDelivered, Handlers, HandlerPCs,
                     ReplayPCs, StateOK, GateOK, EarliestOK, RecordsOK, Gap
<1>12. CASE ReceiveReplay
  <2>1. PICK after \in Cursors, target \in {"none", "thread"} :
           handler' = [Idle EXCEPT !.pc = "head", !.kind = "replay",
                                   !.after = after, !.target = target]
    BY <1>12 DEF ReceiveReplay
  <2>2. /\ handler' \in Handlers
        /\ handler'.pc = "head" /\ handler'.seq = 0
    BY <2>1 DEF Idle, Handlers, HandlerPCs, ReplayPCs
  <2>3. StateOK' /\ GateOK'
    BY <1>12, <2>2 DEF ReceiveReplay, StateOK, GateOK
  <2>4. EarliestOK' /\ RecordsOK'
    BY <2>2 DEF EarliestOK, RecordsOK
  <2> QED
    BY <1>2, <2>3, <2>4
<1>13. CASE ReplayHead
  BY <1>2, <1>13, HeadFacts
     DEF ReplayHead, Handlers, HandlerPCs, ReplayPCs, StateOK, GateOK, EarliestOK,
         RecordsOK, Gap
<1>14. CASE ReplayRowsRead
  <2> DEFINE rows == ReplayRows(stream, handler.after, ReplayLimit)
  <2>1. rows \in SUBSET (1..stream.latest)
    BY DEF ReplayRows, StreamInv
  <2>2. rows \in SUBSET Nat /\ \A b \in rows : b > 0
    BY <2>1
  <2> HIDE DEF rows
  <2>3. \/ /\ handler' = [handler EXCEPT !.pc = "records", !.batch = rows]
        \/ /\ handler' = [handler EXCEPT !.pc = "complete"]
        \/ /\ handler' = [handler EXCEPT !.pc = "head", !.pass = "recover"]
        \/ /\ handler' = [handler EXCEPT !.pc = "gap"]
           /\ Gap(handler)
    BY <1>14 DEF ReplayRowsRead, rows
  <2>4. handler \in Handlers /\ handler.pc = "rows" /\ handler.seq = 0
    BY <1>14 DEF ReplayRowsRead, StateOK, RecordsOK
  <2>5. /\ handler' \in Handlers
        /\ handler'.pc \in {"records", "complete", "head", "gap"}
        /\ handler'.kind = handler.kind /\ handler'.seq = 0
        /\ handler'.earliest = handler.earliest /\ handler'.after = handler.after
        /\ handler'.pc = "records" => handler'.batch = rows
        /\ handler'.pc = "gap" => Gap(handler)
    BY <2>2, <2>3, <2>4 DEF Handlers, HandlerPCs, ReplayPCs
  <2>6. StateOK' /\ GateOK'
    BY <1>14, <2>5 DEF ReplayRowsRead, StateOK, GateOK
  <2>7. EarliestOK'
    BY <1>14, <2>4, <2>5 DEF ReplayRowsRead, EarliestOK, Gap
  <2>8. RecordsOK'
    BY <2>2, <2>5 DEF RecordsOK
  <2> QED
    BY <1>2, <2>6, <2>7, <2>8
<1>15. CASE RecoverPublishesGap
  <2>a. /\ handler \in Handlers /\ handler.pc = "gap"
        /\ handler' = [handler EXCEPT !.pc = "snapshot", !.seq = q]
    BY <1>15 DEF RecoverPublishesGap, StateOK, q
  <2>1. /\ handler' \in Handlers
        /\ handler'.pc = "snapshot" /\ handler'.kind = handler.kind /\ handler'.seq > 0
    BY <1>q, <2>a DEF Handlers, HandlerPCs, ReplayPCs
  <2>2. StateOK'
    BY <1>15, <2>1 DEF RecoverPublishesGap, Delivered, NotDelivered, StateOK
  <2>3. GateOK'
    BY <1>15, <2>1 DEF RecoverPublishesGap, GateOK
  <2>4. EarliestOK' /\ RecordsOK'
    BY <1>15, <2>1 DEF EarliestOK, RecordsOK, Gap
  <2> QED
    BY <1>2, <2>2, <2>3, <2>4
<1>16. CASE RecoverPublishesSnapshot
  <2>1. handler \in Handlers /\ handler.pc = "snapshot" /\ handler.seq > 0
    BY <1>16 DEF RecoverPublishesSnapshot, StateOK, RecordsOK
  <2>2. \/ handler' = [handler EXCEPT !.pc = "complete"]
        \/ handler' = [handler EXCEPT !.pc = "records",
                                      !.batch = {handler.seq, q},
                                      !.seq = 0]
    BY <1>16 DEF RecoverPublishesSnapshot, q
  <2> DEFINE batch == {handler.seq, q}
  <2>a. batch \in SUBSET Nat /\ \A b \in batch : b > 0
    BY <1>q, <2>1 DEF Handlers
  <2> HIDE DEF batch
  <2>3. /\ handler' \in Handlers
        /\ handler'.pc \in {"complete", "records"} /\ handler'.kind = handler.kind
        /\ handler'.pc = "records" => \A b \in handler'.batch : b > handler'.seq
    <3>1. CASE handler' = [handler EXCEPT !.pc = "complete"]
      BY <2>1, <3>1 DEF Handlers, HandlerPCs, ReplayPCs
    <3>2. CASE handler' = [handler EXCEPT !.pc = "records", !.batch = batch, !.seq = 0]
      <4>1. /\ handler'.batch = batch /\ handler'.seq = 0 /\ handler'.pc = "records"
            /\ handler'.kind = handler.kind
        BY <2>1, <3>2 DEF Handlers
      <4>2. handler' \in Handlers
        BY <2>1, <2>a, <3>2 DEF Handlers, HandlerPCs, ReplayPCs
      <4> QED
        BY <4>1, <4>2, <2>a
    <3> QED
      BY <2>2, <3>1, <3>2 DEF batch
  <2>4. StateOK' /\ GateOK'
    BY <1>16, <2>3 DEF RecoverPublishesSnapshot, StateOK, GateOK
  <2>5. EarliestOK' /\ RecordsOK'
    BY <2>3 DEF EarliestOK, RecordsOK
  <2> QED
    BY <1>2, <2>4, <2>5
<1>17. CASE SendRecord
  <2> DEFINE m == Min(handler.batch)
  <2>1. handler \in Handlers /\ handler.pc = "records" /\ handler.batch # {}
    BY <1>17 DEF SendRecord, StateOK
  <2>2. handler.batch \in SUBSET Nat
    BY <2>1 DEF Handlers
  <2>3. m \in handler.batch /\ \A b \in handler.batch : m <= b
    BY <2>1, <2>2, MinFacts
  <2>4. handler' = [handler EXCEPT !.batch = handler.batch \ {m}, !.seq = m]
    BY <1>17 DEF SendRecord
  <2>5. frame' = frame \/ frame' = [seq |-> m, by |-> "handler"]
    BY <1>17 DEF SendRecord, Delivered, NotDelivered
  <2> HIDE DEF m
  <2>6. m \in Nat
    BY <2>2, <2>3
  <2>7. /\ handler' \in Handlers
        /\ handler'.pc = "records" /\ handler'.kind = handler.kind
        /\ handler'.batch = handler.batch \ {m} /\ handler'.seq = m
    BY <2>1, <2>2, <2>4, <2>6 DEF Handlers
  <2>8. \A b \in handler'.batch : b > handler'.seq
    BY <2>2, <2>3, <2>6, <2>7
  <2>9. StateOK' /\ GateOK'
    BY <1>17, <2>1, <2>5, <2>6, <2>7
       DEF SendRecord, Delivered, NotDelivered, StateOK, GateOK
  <2>10. EarliestOK' /\ RecordsOK'
    BY <2>7, <2>8 DEF EarliestOK, RecordsOK
  <2> QED
    BY <1>2, <2>9, <2>10
<1>18. CASE RecordsSent
  BY <1>2, <1>18 DEF RecordsSent, Handlers, HandlerPCs, ReplayPCs, StateOK, GateOK,
                     EarliestOK, RecordsOK, Gap
<1>19. CASE CompleteControl
  <2>a. /\ handler \in Handlers /\ handler.pc = "complete"
        /\ handler' = [handler EXCEPT !.pc = "result", !.seq = q]
    BY <1>19 DEF CompleteControl, StateOK, q
  <2>1. /\ handler' \in Handlers
        /\ handler'.pc = "result" /\ handler'.kind = handler.kind /\ handler'.seq > 0
    BY <1>q, <2>a DEF Handlers, HandlerPCs, ReplayPCs
  <2>2. StateOK'
    BY <1>19, <2>1 DEF CompleteControl, Delivered, NotDelivered, StateOK
  <2>3. GateOK'
    BY <1>19, <2>1 DEF CompleteControl, GateOK
  <2>4. EarliestOK' /\ RecordsOK'
    BY <1>19, <2>1 DEF EarliestOK, RecordsOK, Gap
  <2> QED
    BY <1>2, <2>2, <2>3, <2>4
<1>20. CASE SendResult
  BY <1>2, <1>3, <1>4, <1>20 DEF SendResult, Delivered, Handlers, StateOK
<1>21. CASE Bind
  BY <1>1, <1>21 DEF Bind, NoFrame, StateOK, GateOK
<1>22. CASE Unbind
  BY <1>1, <1>22 DEF Unbind, StateOK, GateOK
<1>23. CASE UpdateRetention
  BY <1>1, <1>23 DEF UpdateRetention, StateOK, GateOK
<1>24. CASE Acknowledge
  BY <1>1, <1>24 DEF Acknowledge, StateOK, GateOK
<1>25. CASE Crash
  BY <1>2, <1>3, <1>4, <1>25 DEF Crash, NoFrame, StateOK
<1>26. CASE UNCHANGED vars
  BY <1>1, <1>26 DEF vars, StateOK, GateOK
<1> QED
  BY <1>5, <1>6, <1>7, <1>8, <1>9, <1>10, <1>11, <1>12, <1>13, <1>14, <1>15,
     <1>16, <1>17, <1>18, <1>19, <1>20, <1>21, <1>22, <1>23, <1>24, <1>25, <1>26
     DEF Next

\* The inductive invariant of the store, the gate and the replay under way.
THEOREM LogInvariant == Spec => []LogInv
BY LogInit, LogNext, PTL DEF Spec

-----------------------------------------------------------------------------
(* The properties *)

\* Every store, handler and pump state stays within its type: in particular no
\* cursor is acknowledged beyond the last committed event.
THEOREM LogTyping == Spec => []TypeOK
<1>1. LogInv => TypeOK
  BY DEF LogInv, StreamInv, StateOK, Handlers, TypeOK
<1> QED
  BY <1>1, LogInvariant, PTL

\* Whatever the clock and the retention settings did, the retained events are an
\* unbroken suffix of the appended ones, and the outbox and its acknowledgements
\* agree with them.
THEOREM SuffixRetained == Spec => [](RetainedSuffix /\ OutboxMirrorsLog)
<1>1. LogInv => RetainedSuffix /\ OutboxMirrorsLog
  BY DEF LogInv, StreamInv, RetainedSuffix, OutboxMirrorsLog
<1> QED
  BY <1>1, LogInvariant, PTL

\* Sequences are allocated one by one and committed events never change, across
\* crashes.
THEOREM LogAppendOnly == Spec => AppendOnly
<1>1. LogInv /\ [Next]_vars =>
         [/\ stream'.latest \in {stream.latest, stream.latest + 1}
          /\ \A s \in DOMAIN stream'.log :
                IF s \in DOMAIN stream.log THEN stream'.log[s] = stream.log[s]
                ELSE s = stream.latest + 1]_stream
  BY StreamStep DEF LogInv, Extends
<1> QED
  BY <1>1, LogInvariant, PTL DEF Spec, AppendOnly

\* A head read before concurrent appends and pruning never makes a replay report
\* a gap the log does not have.
THEOREM GapsAreReal == Spec => []GapIsReal
<1>1. ASSUME LogInv PROVE GapIsReal
  <2> SUFFICES ASSUME handler.pc = "gap" \/ (handler.pc = "rows" /\ Gap(handler))
               PROVE  handler.after + 1 \notin DOMAIN stream.log
    BY DEF GapIsReal
  <2>1. handler.pc \in {"rows", "gap"} /\ Gap(handler)
    BY <1>1 DEF LogInv, EarliestOK
  <2>2. handler.after \in Nat /\ handler.earliest \in Nat
    BY <1>1 DEF LogInv, StateOK, Handlers
  <2>3. \A s \in DOMAIN stream.log : handler.earliest <= s
    BY <1>1, <2>1 DEF LogInv, EarliestOK, Gap
  <2>4. DOMAIN stream.log \subseteq Nat
    BY <1>1 DEF LogInv, StreamInv
  <2> QED
    BY <2>1, <2>2, <2>3, <2>4 DEF Gap
<1> QED
  BY <1>1, LogInvariant, PTL

\* While a replay is served nobody else's frame reaches the transport, and its
\* records leave in sequence order.
THEOREM ReplayKeepsTheGate == Spec => ReplayUninterrupted
<1> DEFINE A == handler.kind = "replay" /\ frame' # frame /\ frame' # NoFrame
                  => /\ frame'.by = "handler"
                     /\ handler'.pc = "records" /\ frame.by = "handler"
                        /\ handler.seq = frame.seq
                           => frame'.seq > frame.seq
<1>1. ASSUME LogInv, [Next]_vars PROVE [A]_vars
  <2> SUFFICES ASSUME handler.kind = "replay", frame' # frame, frame' # NoFrame
               PROVE  /\ frame'.by = "handler"
                      /\ (/\ handler'.pc = "records" /\ frame.by = "handler"
                          /\ handler.seq = frame.seq)
                            => frame'.seq > frame.seq
    OBVIOUS
  <2>1. gate = "handler" /\ handler.pc \notin {"receive", "publish", "send"}
    BY <1>1 DEF LogInv, GateOK
  <2>2. SendRecord \/ SendResult
    BY <1>1, <2>1
       DEF Next, vars, PumpPublish, PumpLocks, PumpSends, ReceiveControl,
           HandlerPublish, HandlerLocks, HandlerSends, ReceiveReplay, ReplayHead,
           ReplayRowsRead, RecoverPublishesGap, RecoverPublishesSnapshot,
           RecordsSent, CompleteControl, Bind, Unbind, UpdateRetention, Acknowledge,
           Crash
  <2>3. CASE SendResult
    BY <2>3 DEF SendResult, Delivered, Idle
  <2>4. CASE SendRecord
    <3>1. handler.batch \in SUBSET Nat /\ handler.batch # {}
      BY <1>1, <2>4 DEF SendRecord, LogInv, StateOK, Handlers
    <3>2. Min(handler.batch) \in handler.batch
      BY <3>1, MinFacts
    <3>3. Min(handler.batch) > handler.seq
      BY <1>1, <2>4, <3>2 DEF SendRecord, LogInv, RecordsOK
    <3>4. frame' = [seq |-> Min(handler.batch), by |-> "handler"]
      BY <2>4 DEF SendRecord, Delivered, NotDelivered
    <3> QED
      BY <3>3, <3>4
  <2> QED
    BY <2>2, <2>3, <2>4
<1> QED
  BY <1>1, LogInvariant, PTL DEF Spec, ReplayUninterrupted

-----------------------------------------------------------------------------
(* The browser's buffer *)

Kinds == {"events.replay", "snapshot.request"}
Bodies == [kind : Kinds \cup {"runtime"}, id : Nat,
           status : {"none", "confirmed", "rejected", "conflict", "history_gap"}]
Requests == [kind : Kinds, id : Nat, after : Nat]
Browsers == [cursor : Nat, pending : SUBSET Nat, gapped : BOOLEAN, replay : Nat, count : Nat,
             snapshot : Nat, target : BOOLEAN, nextId : Nat, online : BOOLEAN, refused : BOOLEAN,
             requests : Seq(Requests)]

\* A browser whose buffer holds nothing it has applied and not the next event of
\* a log with n events.
Buffered(b, n) ==
    /\ b \in Browsers /\ b.cursor <= n
    /\ b.pending \subseteq (b.cursor + 2)..n
    /\ Cardinality(b.pending) <= PendingLimit

LEMMA BoundedSets ==
    ASSUME NEW i \in Int, NEW n \in Int, NEW S, S \subseteq i..n
    PROVE  IsFiniteSet(S) /\ Cardinality(S) \in Nat
<1>1. IsFiniteSet(i..n)
  BY FS_Interval
<1> QED
  BY <1>1, FS_Subset, FS_CardinalityType

\* A set that holds with every number all those from k + 1 on is an interval.
LEMMA RunIsInterval ==
    ASSUME NEW k \in Nat, NEW n \in Nat, k <= n, NEW R, R \subseteq (k + 1)..n,
           \A s \in R : (k + 1)..s \subseteq R
    PROVE  /\ Cardinality(R) \in Nat /\ k + Cardinality(R) <= n
           /\ R = (k + 1)..(k + Cardinality(R))
<1> DEFINE S == {m \in Nat : m > k /\ m \notin R}
<1>1. n + 1 \in S /\ S \in SUBSET Nat
  OBVIOUS
<1>2. Min(S) \in S /\ \A y \in S : Min(S) <= y
  BY <1>1, MinFacts
<1> DEFINE m == Min(S)
<1>3. m \in Nat /\ m > k /\ m \notin R /\ m <= n + 1
  BY <1>1, <1>2
<1>4. \A x \in (k + 1)..(m - 1) : x \in R
  BY <1>2, <1>3
<1> HIDE DEF m, S
<1>5. \A x \in R : x \in (k + 1)..(m - 1)
  <2> SUFFICES ASSUME NEW x \in R, x >= m
               PROVE  FALSE
    BY <1>3
  <2>1. m \in (k + 1)..x
    BY <1>3
  <2> QED
    BY <1>3, <2>1
<1>6. R = (k + 1)..(m - 1)
  BY <1>4, <1>5
<1>7. Cardinality((k + 1)..(m - 1)) = m - 1 - k
  BY <1>3, FS_Interval
<1> QED
  BY <1>3, <1>6, <1>7

LEMMA FlushFacts ==
    ASSUME NEW b \in Browsers, NEW n \in Nat, b.cursor <= n, b.pending \subseteq (b.cursor + 1)..n, NEW bad
    PROVE  LET f == flushPending(b, bad)
           IN  /\ f \in Browsers /\ f.cursor <= n
               /\ f.pending \subseteq (f.cursor + 2)..n
               /\ f.pending \subseteq b.pending \ {b.cursor + 1}
<1> DEFINE k == b.cursor
           ready == Ready(b, bad)
           cursor == k + Cardinality(ready)
           threw == cursor + 1 = bad /\ bad \in b.pending
           rest == b.pending \ (ready \cup (IF threw THEN {bad} ELSE {}))
           answers == {s \in ready : log[s].kind = "snapshot.request" /\ log[s].id = b.snapshot}
           healed == \E s \in answers : log[s].status = "confirmed"
           target == b.target \/ \E s \in ready : NamesThread(log[s])
           online == b.online \/ ready # {}
           snapshot == IF answers # {} THEN 0 ELSE b.snapshot
           gapped == rest # {} /\ (threw \/ (b.gapped /\ ~healed))
           f == [b EXCEPT !.cursor = cursor, !.pending = rest, !.target = target, !.online = online,
                          !.snapshot = snapshot, !.gapped = gapped]
<1>1. flushPending(b, bad) = f
  BY DEF flushPending
<1>2. k \in Nat /\ b.pending \subseteq Nat
  BY DEF Browsers
<1>3. /\ ready \subseteq b.pending
      /\ \A s \in b.pending : s \in ready <=> (k + 1)..s \subseteq b.pending \ {bad}
  BY DEF Ready
<1>4. \A s \in ready : (k + 1)..s \subseteq ready
  <2> SUFFICES ASSUME NEW s \in ready, NEW x \in (k + 1)..s
               PROVE  x \in ready
    OBVIOUS
  <2>1. s \in Nat /\ s >= k + 1 /\ (k + 1)..s \subseteq b.pending \ {bad}
    BY <1>2, <1>3
  <2>2. x \in b.pending /\ (k + 1)..x \subseteq (k + 1)..s
    BY <1>2, <2>1
  <2> QED
    BY <1>3, <2>1, <2>2
<1> HIDE DEF ready
<1>5. Cardinality(ready) \in Nat /\ cursor <= n /\ ready = (k + 1)..cursor
  BY <1>2, <1>3, <1>4, RunIsInterval
<1>6. cursor \in Nat /\ cursor >= k
  BY <1>2, <1>5
<1> HIDE DEF cursor
<1>7. bad \notin ready
  <2> SUFFICES ASSUME bad \in ready
               PROVE  FALSE
    OBVIOUS
  <2>1. bad \in (k + 1)..bad /\ (k + 1)..bad \subseteq b.pending \ {bad}
    BY <1>2, <1>3
  <2> QED
    BY <2>1
<1>8. cursor + 1 \notin rest
  <2> SUFFICES ASSUME cursor + 1 \in rest
               PROVE  FALSE
    OBVIOUS
  <2>1. cursor + 1 \in b.pending /\ cursor + 1 # bad
    OBVIOUS
  <2>2. (k + 1)..(cursor + 1) \subseteq b.pending \ {bad}
    BY <1>3, <1>5, <1>6, <1>7, <2>1, <1>2
  <2>3. cursor + 1 \in ready
    BY <1>3, <2>1, <2>2
  <2> QED
    BY <1>5, <1>6, <2>3
<1>9. rest \subseteq b.pending /\ rest \cap ready = {}
  OBVIOUS
<1>10. rest \subseteq (cursor + 2)..n
  <2> SUFFICES ASSUME NEW x \in rest
               PROVE  x \in (cursor + 2)..n
    OBVIOUS
  <2>1. x \in (k + 1)..n /\ x \notin (k + 1)..cursor /\ x # cursor + 1
    BY <1>5, <1>8, <1>9
  <2> QED
    BY <1>2, <1>6, <2>1
<1>11. k + 1 \notin rest
  BY <1>2, <1>6, <1>10
<1>12. rest \in SUBSET Nat /\ target \in BOOLEAN /\ online \in BOOLEAN
       /\ gapped \in BOOLEAN /\ snapshot \in Nat
  BY <1>2, <1>9 DEF Browsers
<1> HIDE DEF rest, target, online, gapped, snapshot
<1>13. f \in Browsers /\ f.cursor = cursor /\ f.pending = rest
  BY <1>6, <1>12 DEF Browsers
<1> QED
  BY <1>1, <1>5, <1>9, <1>10, <1>11, <1>13

LEMMA FlushKeepsBuffer ==
    ASSUME NEW n \in Nat, NEW b, Buffered(b, n), NEW bad
    PROVE  Buffered(flushPending(b, bad), n)
<1>1. b \in Browsers /\ b.cursor + 1 \in Int /\ b.pending \subseteq (b.cursor + 1)..n
  BY DEF Buffered, Browsers
<1>2. /\ flushPending(b, bad) \in Browsers /\ flushPending(b, bad).cursor <= n
      /\ flushPending(b, bad).pending \subseteq (flushPending(b, bad).cursor + 2)..n
      /\ flushPending(b, bad).pending \subseteq b.pending
  BY <1>1, FlushFacts DEF Buffered
<1>3. IsFiniteSet(b.pending) /\ Cardinality(b.pending) \in Nat
  <2>1. n \in Int
    OBVIOUS
  <2> QED
    BY <1>1, <2>1, BoundedSets, Zenon
<1>4. Cardinality(flushPending(b, bad).pending) <= Cardinality(b.pending) /\ Cardinality(flushPending(b, bad).pending) \in Nat
  <2>1. IsFiniteSet(flushPending(b, bad).pending) /\ Cardinality(flushPending(b, bad).pending) <= Cardinality(b.pending)
    BY <1>2, <1>3, FS_Subset, Zenon
  <2> QED
    BY <2>1, FS_CardinalityType, Zenon
<1> QED
  BY <1>2, <1>3, <1>4, EventStreamAssumption DEF Buffered

-----------------------------------------------------------------------------
(* The browser's handlers keep it *)

\* What does not touch the cursor or the buffer.
LEMMA SameBuffer ==
    ASSUME NEW n \in Nat, NEW b, Buffered(b, n), NEW f \in Browsers, f.cursor = b.cursor, f.pending = b.pending
    PROVE  Buffered(f, n)
  BY DEF Buffered

LEMMA RequestFacts ==
    ASSUME NEW b \in Browsers, NEW kind \in Kinds
    PROVE  Request(b, kind) \in Browsers /\ Request(b, kind).cursor = b.cursor /\ Request(b, kind).pending = b.pending
<1>1. [kind |-> kind, id |-> b.nextId, after |-> b.cursor] \in Requests
  BY DEF Browsers, Requests
<1> DEFINE requests == Append(b.requests, [kind |-> kind, id |-> b.nextId, after |-> b.cursor])
<1>2. requests \in Seq(Requests)
  BY <1>1 DEF Browsers
<1>3. Request(b, kind) = [b EXCEPT !.nextId = b.nextId + 1, !.requests = requests]
  BY DEF Request
<1> HIDE DEF requests
<1>4. b.nextId + 1 \in Nat
  BY DEF Browsers
<1>5. [b EXCEPT !.nextId = b.nextId + 1, !.requests = requests] \in Browsers
  BY <1>2, <1>4 DEF Browsers
<1>6. /\ [b EXCEPT !.nextId = b.nextId + 1, !.requests = requests].cursor = b.cursor
      /\ [b EXCEPT !.nextId = b.nextId + 1, !.requests = requests].pending = b.pending
  BY DEF Browsers
<1> QED
  BY <1>3, <1>5, <1>6

LEMMA RecoveryKeepsBuffer ==
    ASSUME NEW n \in Nat, NEW b, Buffered(b, n)
    PROVE  Buffered(startReplayForNode(b), n) /\ Buffered(requestSnapshots(b), n)
<1> DEFINE held == [b EXCEPT !.refused = TRUE]
<1>1. b \in Browsers /\ b.nextId \in Nat
  BY DEF Buffered, Browsers
<1>0. held \in Browsers /\ held.cursor = b.cursor /\ held.pending = b.pending
  BY <1>1 DEF Browsers
<1>2. Buffered(startReplayForNode(b), n)
  <2> DEFINE r == Request(b, "events.replay")
             f == [r EXCEPT !.replay = b.nextId, !.count = 0]
  <2>1. r \in Browsers /\ r.cursor = b.cursor /\ r.pending = b.pending
    BY <1>1, RequestFacts DEF Kinds
  <2> HIDE DEF r
  <2>2. f \in Browsers /\ f.cursor = b.cursor /\ f.pending = b.pending
    BY <1>1, <2>1 DEF Browsers
  <2>3. startReplayForNode(b) \in {b, held, f}
    BY DEF startReplayForNode, r
  <2> HIDE DEF f, held
  <2> QED
    BY <1>0, <2>2, <2>3, SameBuffer
<1>3. Buffered(requestSnapshots(b), n)
  <2> DEFINE r == Request(b, "snapshot.request")
             f == [r EXCEPT !.snapshot = b.nextId]
  <2>1. r \in Browsers /\ r.cursor = b.cursor /\ r.pending = b.pending
    BY <1>1, RequestFacts DEF Kinds
  <2> HIDE DEF r
  <2>2. f \in Browsers /\ f.cursor = b.cursor /\ f.pending = b.pending
    BY <1>1, <2>1 DEF Browsers
  <2>3. requestSnapshots(b) \in {b, held, f}
    BY DEF requestSnapshots, r
  <2> HIDE DEF f, held
  <2> QED
    BY <1>0, <2>2, <2>3, SameBuffer
<1> QED
  BY <1>2, <1>3

LEMMA ApplyKeepsBuffer ==
    ASSUME NEW n \in Nat, NEW b, Buffered(b, n), NEW s \in 1..n, s > b.cursor, NEW bad, NEW recover \in BOOLEAN
    PROVE  Buffered(applyOrBuffer(b, s, bad, recover), n)
<1> DEFINE buffered == [b EXCEPT !.pending = b.pending \cup {s}]
           gapped == [buffered EXCEPT !.gapped = TRUE]
           emptied == [gapped EXCEPT !.pending = {}]
<1>1. b \in Browsers /\ b.cursor \in Nat /\ b.pending \subseteq (b.cursor + 2)..n /\ b.cursor <= n
  BY DEF Buffered, Browsers
<1>2. IsFiniteSet(b.pending) /\ Cardinality(b.pending) \in Nat
  <2>1. b.cursor + 2 \in Int /\ n \in Int
    BY <1>1
  <2> QED
    BY <1>1, <2>1, BoundedSets, Zenon
<1>3. buffered \in Browsers /\ buffered.cursor = b.cursor /\ buffered.pending = b.pending \cup {s}
  <2> DEFINE more == b.pending \cup {s}
  <2>1. more \in SUBSET Nat
    BY <1>1 DEF Browsers
  <2> HIDE DEF more
  <2>2. /\ [b EXCEPT !.pending = more] \in Browsers /\ [b EXCEPT !.pending = more].cursor = b.cursor
        /\ [b EXCEPT !.pending = more].pending = more
    BY <1>1, <2>1 DEF Browsers
  <2> QED
    BY <2>2 DEF more
<1>4. applyOrBuffer(b, s, bad, recover) =
         IF s = b.cursor + 1 THEN flushPending(buffered, bad)
         ELSE IF Cardinality(gapped.pending) > PendingLimit THEN requestSnapshots(emptied)
         ELSE IF recover THEN startReplayForNode(gapped) ELSE gapped
  BY DEF applyOrBuffer
<1> HIDE DEF buffered
<1>5. gapped \in Browsers /\ gapped.cursor = b.cursor /\ gapped.pending = b.pending \cup {s}
  BY <1>3 DEF Browsers
<1> HIDE DEF gapped
<1>6. emptied \in Browsers /\ emptied.cursor = b.cursor /\ emptied.pending = {}
  BY <1>5 DEF Browsers
<1> HIDE DEF emptied
<1>7. CASE s = b.cursor + 1
  <2> DEFINE f == flushPending(buffered, bad)
  <2>1. buffered.pending \subseteq (buffered.cursor + 1)..n
    BY <1>1, <1>3, <1>7
  <2>2. /\ f \in Browsers /\ f.cursor <= n /\ f.pending \subseteq (f.cursor + 2)..n
        /\ f.pending \subseteq (b.pending \cup {s}) \ {b.cursor + 1}
    BY <1>1, <1>3, <2>1, FlushFacts
  <2> HIDE DEF f
  <2>3. f.pending \subseteq b.pending
    BY <1>7, <2>2
  <2>4. Cardinality(f.pending) <= Cardinality(b.pending) /\ Cardinality(f.pending) \in Nat
    BY <1>2, <2>3, FS_Subset, FS_CardinalityType
  <2>5. Buffered(f, n)
    BY <1>2, <2>2, <2>4, EventStreamAssumption DEF Buffered
  <2> QED
    BY <1>4, <1>7, <2>5 DEF f
<1>8. CASE s # b.cursor + 1 /\ Cardinality(gapped.pending) > PendingLimit
  <2>1. Buffered(emptied, n)
    BY <1>1, <1>6, FS_EmptySet, EventStreamAssumption DEF Buffered
  <2> QED
    BY <1>4, <1>8, <2>1, RecoveryKeepsBuffer
<1>9. CASE s # b.cursor + 1 /\ ~(Cardinality(gapped.pending) > PendingLimit)
  <2>1. gapped.pending \subseteq (b.cursor + 2)..n
    BY <1>1, <1>5, <1>9
  <2>2. b.cursor + 2 \in Int
    BY <1>1
  <2>3. Cardinality(gapped.pending) \in Nat
    BY <2>1, <2>2, BoundedSets
  <2>4. Buffered(gapped, n)
    BY <1>1, <1>5, <1>9, <2>1, <2>3, EventStreamAssumption DEF Buffered
  <2> QED
    BY <1>4, <1>9, <2>4, RecoveryKeepsBuffer
<1> QED
  BY <1>7, <1>8, <1>9

LEMMA FinishKeepsBuffer ==
    ASSUME NEW n \in Nat, NEW b, Buffered(b, n), NEW body
    PROVE  Buffered(finishReplay(b, body), n)
<1> DEFINE flushed == flushPending(b, 0)
           done == [flushed EXCEPT !.replay = 0]
           restart == [b EXCEPT !.cursor = 0, !.pending = {}, !.replay = 0]
           ended == [b EXCEPT !.replay = 0]
<1>1. Buffered(flushed, n) /\ flushed \in Browsers
  BY FlushKeepsBuffer DEF Buffered
<1>2. Buffered(done, n)
  <2>1. done \in Browsers /\ done.cursor = flushed.cursor /\ done.pending = flushed.pending
    BY <1>1 DEF Browsers
  <2> HIDE DEF done
  <2> QED
    BY <1>1, <2>1, SameBuffer
<1>3. Buffered(restart, n)
  <2>1. restart \in Browsers /\ restart.cursor = 0 /\ restart.pending = {}
    BY DEF Buffered, Browsers
  <2> HIDE DEF restart
  <2> QED
    BY <2>1, FS_EmptySet, EventStreamAssumption DEF Buffered
<1>4. Buffered(ended, n)
  <2>1. ended \in Browsers /\ ended.cursor = b.cursor /\ ended.pending = b.pending
    BY DEF Buffered, Browsers
  <2> HIDE DEF ended
  <2> QED
    BY <2>1, SameBuffer
<1>5. finishReplay(b, body) \in {startReplayForNode(restart), requestSnapshots(ended), startReplayForNode(done),
                                 requestSnapshots(done), done}
  BY DEF finishReplay
<1> HIDE DEF done, restart, ended
<1> QED
  BY <1>2, <1>3, <1>4, <1>5, RecoveryKeepsBuffer

LEMMA HandleKeepsBuffer ==
    ASSUME NEW n \in Nat, NEW b, Buffered(b, n), NEW s \in 1..n, NEW bad
    PROVE  Buffered(handleEvent(b, s, bad), n)
<1>1. b \in Browsers /\ b.cursor \in Nat
  BY DEF Buffered, Browsers
<1>2. CASE s <= b.cursor
  BY <1>2 DEF handleEvent
<1>3. CASE ~(s <= b.cursor) /\ IsReplayResult(b, s)
  <2> DEFINE recover == TRUE
  <2>1. recover \in BOOLEAN /\ handleEvent(b, s, bad) = finishReplay(applyOrBuffer(b, s, bad, recover), log[s])
    BY <1>3 DEF handleEvent
  <2> HIDE DEF recover
  <2>2. Buffered(applyOrBuffer(b, s, bad, recover), n)
    BY <1>1, <1>3, <2>1, ApplyKeepsBuffer
  <2> QED
    BY <2>1, <2>2, FinishKeepsBuffer
<1>4. CASE ~(s <= b.cursor) /\ ~IsReplayResult(b, s)
  <2> DEFINE f == [b EXCEPT !.count = IF b.replay # 0 THEN b.count + 1 ELSE b.count]
             recover == b.replay = 0
  <2>1. f \in Browsers /\ f.cursor = b.cursor /\ f.pending = b.pending /\ recover \in BOOLEAN
    <3> DEFINE count == IF b.replay # 0 THEN b.count + 1 ELSE b.count
    <3>1. count \in Nat
      BY <1>1 DEF Browsers
    <3> HIDE DEF count
    <3>2. /\ [b EXCEPT !.count = count] \in Browsers /\ [b EXCEPT !.count = count].cursor = b.cursor
          /\ [b EXCEPT !.count = count].pending = b.pending
      BY <1>1, <3>1 DEF Browsers
    <3> QED
      BY <3>2 DEF count
  <2>2. handleEvent(b, s, bad) = applyOrBuffer(f, s, bad, recover)
    BY <1>4 DEF handleEvent
  <2> HIDE DEF f, recover
  <2> QED
    BY <1>1, <1>4, <2>1, <2>2, SameBuffer, ApplyKeepsBuffer
<1> QED
  BY <1>2, <1>3, <1>4

-----------------------------------------------------------------------------
(* Frames *)

LEMMA FramesStay ==
    ASSUME NEW m \in Nat, NEW n \in Nat, m <= n, NEW q \in Seq(1..m)
    PROVE  q \in Seq(1..n)
<1>1. 1..m \subseteq 1..n
  OBVIOUS
<1>2. q \in [1..Len(q) -> 1..m] /\ Len(q) \in Nat
  OBVIOUS
<1> QED
  BY <1>1, <1>2

\* A page holds events of the log.
LEMMA PageFacts ==
    ASSUME log \in Seq(Bodies), NEW after \in Nat
    PROVE  Page(after) \in Seq(1..Len(log))
<1> DEFINE n == Len(log)
           first == IF after + 1 < Earliest THEN Earliest ELSE after + 1
           last == IF first + PageSize <= n THEN first + PageSize - 1 ELSE n
<1>1. n \in Nat /\ first \in Nat /\ first >= 1 /\ PageSize \in Nat
  BY EventStreamAssumption DEF Earliest
<1> HIDE DEF first
<1>2. last \in Nat /\ last <= n
  BY <1>1, EventStreamAssumption
<1> HIDE DEF last
<1> DEFINE k == last - first + 1
           page == [i \in 1..k |-> first + i - 1]
<1>3. page = Page(after)
  BY DEF Page, first, last
<1>4. k \in Int /\ \A i \in 1..k : first + i - 1 \in 1..n
  BY <1>1, <1>2
<1> HIDE DEF k
<1>5. CASE k \in Nat
  <2>1. page \in [1..k -> 1..n]
    BY <1>4
  <2> QED
    BY <1>3, <1>5, <2>1, SeqDef
<1>6. CASE k \notin Nat
  <2>1. 1..k = 1..0
    BY <1>4, <1>6
  <2>2. page = [i \in 1..0 |-> first + i - 1]
    BY <2>1
  <2>3. [i \in 1..0 |-> first + i - 1] \in [1..0 -> 1..n]
    OBVIOUS
  <2>4. \E m \in Nat : page \in [1..m -> 1..n]
    <3>1. 0 \in Nat /\ page \in [1..0 -> 1..n]
      BY <2>2, <2>3
    <3> HIDE DEF page
    <3> QED
      BY <3>1
  <2> HIDE DEF page
  <2> QED
    BY <1>3, <2>4, SeqDef
<1> QED
  BY <1>5, <1>6

-----------------------------------------------------------------------------
(* The stream as a whole *)

\* The control the Node is at, of a log with n events.
Jobs == [at : {"none", "rows", "publish", "send", "complete", "result"}, kind : Kinds, id : Nat, after : Nat,
         status : {"none", "confirmed", "rejected", "conflict", "history_gap"}, seq : Nat]

JobOK(j, n) ==
    /\ j \in Jobs /\ j.seq <= n
    /\ j.at \in {"send", "result"} => j.seq # 0

WireOK ==
    /\ log \in Seq(Bodies)
    /\ unsent \in 0..Len(log)
    /\ JobOK(job, Len(log))
    /\ up \in Seq(Requests)
    /\ down \in Seq(1..Len(log))

BrowserInv == WireOK /\ Buffered(browser, Len(log))

LEMMA BufferStays ==
    ASSUME NEW m \in Nat, NEW n \in Nat, m <= n, NEW b, Buffered(b, m)
    PROVE  Buffered(b, n)
<1>1. b.cursor \in Nat
  BY DEF Buffered, Browsers
<1>2. (b.cursor + 2)..m \subseteq (b.cursor + 2)..n
  BY <1>1
<1> QED
  BY <1>1, <1>2 DEF Buffered

LEMMA SentFacts ==
    ASSUME WireOK, NEW b, Buffered(b, Len(log)), Sent(b)
    PROVE  up' \in Seq(Requests) /\ Buffered(browser', Len(log))
<1>1. b \in Browsers /\ b.requests \in Seq(Requests)
  BY DEF Buffered, Browsers
<1>2. up' \in Seq(Requests)
  BY <1>1 DEF Sent, WireOK
<1>3. browser' \in Browsers /\ browser'.cursor = b.cursor /\ browser'.pending = b.pending
  <2> DEFINE empty == <<>>
  <2>1. empty \in Seq(Requests) /\ browser' = [b EXCEPT !.requests = empty]
    BY DEF Sent
  <2> HIDE DEF empty
  <2> QED
    BY <1>1, <2>1 DEF Browsers
<1> QED
  BY <1>2, <1>3, SameBuffer DEF WireOK

\* Frames that reach the browser, all of them or those before a failure.
LEMMA SendFacts ==
    ASSUME WireOK, NEW frames \in Seq(1..Len(log)), Arrives(frames) \/ Muted \/ Breaks(frames)
    PROVE  down' \in Seq(1..Len(log))
<1>1. down \in Seq(1..Len(log))
  BY DEF WireOK
<1>2. ASSUME NEW q \in Seq(1..Len(log)), down' = Reached(q)
      PROVE  down' \in Seq(1..Len(log))
  <2>1. down \o q \in Seq(1..Len(log))
    BY <1>1, ConcatProperties
  <2> QED
    BY <1>1, <1>2, <2>1 DEF Reached
<1>3. CASE Arrives(frames)
  BY <1>2, <1>3 DEF Arrives
<1>4. CASE Muted
  BY <1>1, <1>4 DEF Muted
<1>5. CASE Breaks(frames)
  <2>1. PICK k \in 0..(Len(frames) - 1) : down' = Reached(SubSeq(frames, 1, k))
    BY <1>5 DEF Breaks
  <2>2. SubSeq(frames, 1, k) \in Seq(1..Len(log))
    OBVIOUS
  <2> QED
    BY <1>2, <2>1, <2>2
<1> QED
  BY <1>3, <1>4, <1>5

LEMMA JobStays ==
    ASSUME NEW m \in Nat, NEW n \in Nat, m <= n, NEW j, JobOK(j, m)
    PROVE  JobOK(j, n)
  BY DEF JobOK, Jobs

LEMMA IdleJob == ASSUME NEW n \in Nat PROVE JobOK(NoJob, n)
  BY DEF JobOK, Jobs, NoJob, Kinds

LEMMA JobAppends ==
    ASSUME NEW n \in Nat, NEW j, JobOK(j, n), NEW at \in {"send", "result"}
    PROVE  JobOK([j EXCEPT !.at = at, !.seq = n + 1], n + 1)
<1> DEFINE seq == n + 1
<1>1. seq \in Nat /\ seq # 0 /\ j \in Jobs
  BY DEF JobOK
<1> HIDE DEF seq
<1>2. [j EXCEPT !.at = at, !.seq = seq] \in Jobs /\ [j EXCEPT !.at = at, !.seq = seq].seq = seq
  BY <1>1 DEF Jobs
<1>3. JobOK([j EXCEPT !.at = at, !.seq = seq], seq)
  BY <1>1, <1>2 DEF JobOK
<1> QED
  BY <1>3 DEF seq

LEMMA BeganFacts ==
    ASSUME NEW kind \in Kinds, NEW id \in Nat, NEW after \in Nat, NEW n \in Nat
    PROVE  JobOK(Began(kind, id, after), n)
<1> DEFINE at == IF Verdict(after) = "confirmed" THEN "rows" ELSE "complete"
           status == Verdict(after)
<1>1. at \in {"rows", "complete"} /\ status \in {"confirmed", "conflict", "history_gap"}
  BY DEF Verdict
<1> HIDE DEF at, status
<1>2. JobOK([at |-> "publish", kind |-> kind, id |-> id, after |-> 0,
              status |-> "confirmed", seq |-> 0], n)
  BY DEF JobOK, Jobs
<1>3. JobOK([at |-> at, kind |-> kind, id |-> id, after |-> after,
              status |-> status, seq |-> 0], n)
  BY <1>1 DEF JobOK, Jobs
<1> QED
  BY <1>2, <1>3 DEF Began, at, status

LEMMA BrowserInit == StreamInit => BrowserInv
<1> SUFFICES ASSUME StreamInit
             PROVE  BrowserInv
  OBVIOUS
<1> DEFINE n == budget.backlog
<1>1. n \in Nat
  BY EventStreamAssumption DEF StreamInit
<1>2. log = [i \in 1..n |-> Runtime]
  BY DEF StreamInit
<1> HIDE DEF n
<1>3. log \in Seq(Bodies) /\ Len(log) = n
  <2>1. Runtime \in Bodies
    BY DEF Runtime, Bodies, Kinds
  <2>2. log \in [1..n -> Bodies]
    BY <1>2, <2>1
  <2>3. log \in Seq(Bodies)
    BY <1>1, <2>2, SeqDef
  <2> QED
    BY <1>1, <1>2, <2>3
<1>4. WireOK
  <2>1. unsent \in 0..n /\ JobOK(job, n)
    BY <1>1, IdleJob DEF StreamInit
  <2>2. up \in Seq(Requests) /\ down \in Seq(1..n)
    BY DEF StreamInit
  <2> QED
    BY <1>3, <2>1, <2>2 DEF WireOK
<1>5. browser \in Browsers /\ browser.cursor = 0 /\ browser.pending = {}
  <2>1. NewBrowser \in Browsers /\ NewBrowser.cursor = 0 /\ NewBrowser.pending = {}
    BY DEF NewBrowser, Browsers
  <2>2. PICK open \in BOOLEAN : browser = [NewBrowser EXCEPT !.target = open]
    BY DEF StreamInit, Loaded
  <2> QED
    BY <2>1, <2>2 DEF Browsers
<1>6. Buffered(browser, n)
  BY <1>1, <1>5, FS_EmptySet, EventStreamAssumption DEF Buffered
<1> QED
  BY <1>3, <1>4, <1>6 DEF BrowserInv

LEMMA BrowserStep == BrowserInv /\ [StreamNext]_streamVars => BrowserInv'
<1> SUFFICES ASSUME BrowserInv, [StreamNext]_streamVars
             PROVE  BrowserInv'
  OBVIOUS
<1> DEFINE n == Len(log)
<1>1. WireOK /\ Buffered(browser, n) /\ n \in Nat /\ log \in Seq(Bodies)
  BY DEF BrowserInv, WireOK
<1>2. ASSUME log' = log, unsent' = unsent, job' = job, up' \in Seq(Requests), down' \in Seq(1..n),
             Buffered(browser', n)
      PROVE  BrowserInv'
  BY <1>1, <1>2 DEF BrowserInv, WireOK
\* Steps of the Node: the browser does nothing.
<1>3. ASSUME browser' = browser, log' \in Seq(Bodies), Len(log) <= Len(log'), unsent' \in 0..Len(log'),
             JobOK(job', Len(log')), up' \in Seq(Requests), down' \in Seq(1..Len(log'))
      PROVE  BrowserInv'
  <2>1. Buffered(browser, Len(log'))
    BY <1>1, <1>3, BufferStays
  <2> QED
    BY <1>3, <2>1 DEF BrowserInv, WireOK
<1>4. CASE Connect
  <2>1. Buffered(startReplayForNode(browser), n)
    BY <1>1, RecoveryKeepsBuffer
  <2> QED
    BY <1>1, <1>2, <1>4, <2>1, SentFacts DEF Connect, WireOK
<1>5. CASE Disconnect
  <2>1. browser \in Browsers
    BY <1>1 DEF Buffered
  <2>2. CASE browser' = [browser EXCEPT !.replay = 0, !.count = 0, !.snapshot = 0, !.refused = FALSE]
    <3>1. browser' \in Browsers /\ browser'.cursor = browser.cursor /\ browser'.pending = browser.pending
      BY <2>1, <2>2 DEF Browsers
    <3>2. Buffered(browser', n)
      BY <1>1, <3>1, SameBuffer
    <3> QED
      BY <1>1, <1>2, <1>5, <3>2 DEF Disconnect
  <2>3. CASE browser' \in Loaded([NewBrowser EXCEPT !.cursor = browser.cursor, !.nextId = browser.nextId,
                                                    !.online = browser.online])
    <3>1. browser' \in Browsers /\ browser'.cursor = browser.cursor /\ browser'.pending = {}
      <4>1. browser.cursor \in Nat /\ browser.nextId \in Nat /\ browser.online \in BOOLEAN
        BY <2>1 DEF Browsers
      <4>2. NewBrowser \in Browsers /\ NewBrowser.pending = {}
        BY DEF NewBrowser, Browsers
      <4> QED
        BY <2>3, <4>1, <4>2 DEF Browsers, Loaded
    <3>2. Buffered(browser', n)
      BY <1>1, <3>1, FS_EmptySet, EventStreamAssumption DEF Buffered
    <3> QED
      BY <1>1, <1>2, <1>5, <3>2 DEF Disconnect
  <2> QED
    BY <1>5, <2>2, <2>3 DEF Disconnect
<1>6. ASSUME NEW bad, Receive(bad)
      PROVE  BrowserInv'
  <2>1. Head(down) \in 1..n /\ down' \in Seq(1..n)
    BY <1>1, <1>6 DEF Receive, WireOK
  <2>2. Buffered(handleEvent(browser, Head(down), bad), n)
    BY <1>1, <2>1, HandleKeepsBuffer
  <2> QED
    BY <1>1, <1>2, <1>6, <2>1, <2>2, SentFacts DEF Receive
<1>7. CASE Presence
  <2> DEFINE there == (node # "nil")
  <2>1. there \in BOOLEAN /\ browser \in Browsers /\ browser' = [browser EXCEPT !.online = there]
    BY <1>1, <1>7 DEF Presence, Buffered
  <2> HIDE DEF there
  <2>2. browser' \in Browsers /\ browser'.cursor = browser.cursor /\ browser'.pending = browser.pending
    BY <2>1 DEF Browsers
  <2>3. Buffered(browser', n)
    BY <1>1, <2>2, SameBuffer
  <2> QED
    BY <1>1, <1>2, <1>7, <2>3 DEF Presence, WireOK
\* The log grows by one event, or not at all.
<1>8. ASSUME NEW body \in Bodies, log' = Append(log, body), browser' = browser, down' = down, up' = up,
             unsent' \in {unsent, n + 1}, JobOK(job', n + 1)
      PROVE  BrowserInv'
  <2>1. log' \in Seq(Bodies) /\ Len(log') = n + 1
    BY <1>1, <1>8
  <2>2. down \in Seq(1..(n + 1))
    BY <1>1, FramesStay DEF WireOK
  <2> QED
    BY <1>1, <1>3, <1>8, <2>1, <2>2 DEF WireOK
<1>9. ASSUME log' = log, browser' = browser, unsent' \in {0, unsent}, JobOK(job', n), up' \in Seq(Requests),
             down' \in Seq(1..n)
      PROVE  BrowserInv'
  BY <1>1, <1>3, <1>9 DEF WireOK
<1>10. Runtime \in Bodies /\ JobOK(job, n) /\ JobOK(job, n + 1) /\ up \in Seq(Requests) /\ down \in Seq(1..n)
  BY <1>1, JobStays DEF WireOK, Runtime, Bodies, Kinds
<1>11. CASE PumpAppends
  BY <1>8, <1>10, <1>11 DEF PumpAppends
<1>12. CASE PumpDelivers
  <2>1. <<unsent>> \in Seq(1..n)
    BY <1>1, <1>12 DEF PumpDelivers, WireOK
  <2>2. down' \in Seq(1..n)
    BY <1>1, <1>12, <2>1, SendFacts DEF PumpDelivers, Sends
  <2> QED
    BY <1>9, <1>10, <1>12, <2>2 DEF PumpDelivers
<1>13. CASE Handle
  <2>1. Head(up) \in Requests /\ Tail(up) \in Seq(Requests)
    BY <1>10, <1>13 DEF Handle
  <2>2. JobOK(job', n)
    BY <1>1, <1>13, <2>1, BeganFacts DEF Handle, Requests
  <2> QED
    BY <1>9, <1>10, <1>13, <2>1, <2>2 DEF Handle
<1>14. CASE HandleOther
  <2>1. PICK after \in 0..n : job' = Began("events.replay", 0, after)
    BY <1>14 DEF HandleOther
  <2>2. JobOK(job', n)
    BY <1>1, <2>1, BeganFacts DEF Kinds
  <2> QED
    BY <1>9, <1>10, <1>14, <2>2 DEF HandleOther
<1>15. CASE SendPage
  <2>1. Page(job.after) \in Seq(1..n)
    BY <1>1, <1>10, PageFacts DEF JobOK, Jobs
  <2>2. down' \in Seq(1..n)
    BY <1>1, <1>15, <2>1, SendFacts DEF SendPage
  <2>3. \E status \in {"confirmed", "rejected"} :
           \/ job' = [job EXCEPT !.at = "complete"]
           \/ job' = [job EXCEPT !.at = "complete", !.status = status]
    BY <1>15 DEF SendPage
  <2>4. JobOK(job', n)
    BY <1>10, <2>3 DEF JobOK, Jobs
  <2> QED
    BY <1>9, <1>10, <1>15, <2>2, <2>4 DEF SendPage
<1>16. CASE Snapshot
  <2>1. CASE log' = log
    <3>1. job' = [job EXCEPT !.at = "complete", !.status = "rejected"] \/ log' = Append(log, Runtime)
      BY <1>16 DEF Snapshot
    <3>2. job' = [job EXCEPT !.at = "complete", !.status = "rejected"]
      BY <1>1, <2>1, <3>1
    <3>3. JobOK(job', n)
      BY <1>10, <3>2 DEF JobOK, Jobs
    <3> QED
      BY <1>9, <1>10, <1>16, <2>1, <3>3 DEF Snapshot
  <2>2. CASE log' = Append(log, Runtime) /\ job' = [job EXCEPT !.at = "send", !.seq = n + 1]
    <3>1. JobOK(job', n + 1)
      BY <1>1, <1>10, <2>2, JobAppends
    <3> QED
      BY <1>8, <1>10, <1>16, <2>2, <3>1 DEF Snapshot
  <2> QED
    BY <1>16, <2>1, <2>2 DEF Snapshot
<1>17. CASE SnapshotSends
  <2>1. <<job.seq>> \in Seq(1..n)
    BY <1>1, <1>10, <1>17 DEF SnapshotSends, JobOK, Jobs
  <2>2. down' \in Seq(1..n)
    BY <1>1, <1>17, <2>1, SendFacts DEF SnapshotSends, Sends
  <2>3. JobOK(job', n)
    BY <1>10, <1>17 DEF SnapshotSends, JobOK, Jobs
  <2> QED
    BY <1>9, <1>10, <1>17, <2>2, <2>3 DEF SnapshotSends
<1>18. CASE Completes
  <2>1. Result(job.kind, job.id, job.status) \in Bodies
    BY <1>10 DEF Result, Bodies, JobOK, Jobs
  <2>2. job' = [job EXCEPT !.at = "result", !.seq = n + 1]
    BY <1>18 DEF Completes
  <2>3. JobOK(job', n + 1)
    BY <1>1, <1>10, <2>2, JobAppends
  <2> QED
    BY <1>8, <1>10, <1>18, <2>1, <2>3 DEF Completes
<1>19. CASE ResultSent
  <2>1. <<job.seq>> \in Seq(1..n)
    BY <1>1, <1>10, <1>19 DEF ResultSent, JobOK, Jobs
  <2>2. down' \in Seq(1..n)
    BY <1>1, <1>19, <2>1, SendFacts DEF ResultSent
  <2> QED
    BY <1>1, <1>9, <1>10, <1>19, <2>2, IdleJob DEF ResultSent
<1>20. CASE ResultFails \/ NodeCrash
  BY <1>1, <1>9, <1>10, <1>20, IdleJob DEF ResultFails, NodeCrash
<1>21. CASE HubDrops
  <2>1. Tail(up) \in Seq(Requests)
    BY <1>10, <1>21 DEF HubDrops
  <2> QED
    BY <1>9, <1>10, <1>21, <2>1 DEF HubDrops
<1>22. CASE NodeUnbinds \/ NodeBinds \/ UNCHANGED streamVars
  BY <1>9, <1>10, <1>22 DEF NodeUnbinds, NodeBinds, streamVars
<1> QED
  BY <1>4, <1>5, <1>6, <1>7, <1>11, <1>12, <1>13, <1>14, <1>15, <1>16, <1>17, <1>18, <1>19, <1>20, <1>21, <1>22
     DEF StreamNext, ReceiveFrame, ReceiveThrows

\* CursorConsistent: whatever is repeated, lost, thrown away, replayed for
\* another browser or answered twice, the browser's buffer holds only events of
\* the Node's log beyond the next one, within its limit, and the cursor never
\* passes the log.
THEOREM BufferIsConsistent == StreamSpec => []CursorConsistent
<1>1. BrowserInv => CursorConsistent
  BY DEF BrowserInv, Buffered, CursorConsistent
<1> QED
  BY <1>1, BrowserInit, BrowserStep, PTL DEF StreamSpec
=============================================================================
