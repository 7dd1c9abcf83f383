----------------------------- MODULE EventStore -----------------------------
(***************************************************************************)
(* One event stream of the Node's SQLite store and the transactions of     *)
(* internal/node/store/events.go on it, as functions of the stream.        *)
(*                                                                         *)
(*   latest   event_streams.latest_sequence                                *)
(*   total    event_streams.total_bytes                                    *)
(*   log      event_log: sequence -> [at, size], created_at and frame_bytes*)
(*   outbox   the sequences that have an outbox row                        *)
(*   pending  those whose acknowledged_at is NULL                          *)
(*   acked    event_cursors.acknowledged_sequence (0 without a row)        *)
(*                                                                         *)
(* The frame itself is abstracted to its size: its message ID is random    *)
(* and its sequence is the key of the row.                                 *)
(***************************************************************************)
EXTENDS Integers, FiniteSets, FiniteSetsExt

CONSTANTS Times,         \* the readings of the Node's clock, which may step back
          Sizes,         \* frame sizes, at most MaxFrame
          MaxFrame,      \* MaxEventFrameBytes
          MaxSequence    \* MaxJavaScriptSequence

ASSUME EventStoreAssumption ==
    /\ Times \subseteq Int
    /\ MaxFrame \in Nat \ {0}
    /\ Sizes \subseteq 1..MaxFrame
    /\ MaxSequence \in Nat

EmptyStream == [latest |-> 0, total |-> 0, log |-> [s \in {} |-> 0],
                outbox |-> {}, pending |-> {}, acked |-> 0]

Rows == [at : Times, size : Sizes]

Bytes(log, seqs) == MapThenSumSet(LAMBDA s : log[s].size, seqs)

\* The loop of pruneEvents stops at row k: the row is not older than the cutoff
\* and the rows from k on fit.
Stops(st, k, cutoff, maxBytes) ==
    /\ st.log[k].at >= cutoff
    /\ st.total - Bytes(st.log, {s \in DOMAIN st.log : s < k}) <= maxBytes

\* Mutant: every row is judged by its own age.
RetainedEach(st, cutoff, maxBytes) ==
    {s \in DOMAIN st.log : st.log[s].at >= cutoff}

\* The rows pruneEvents leaves: everything from the first row where it stops.
Retained(st, cutoff, maxBytes) ==
    {s \in DOMAIN st.log : \E k \in DOMAIN st.log : k <= s /\ Stops(st, k, cutoff, maxBytes)}

pruneEvents(st, cutoff, maxBytes) ==
    LET kept == Retained(st, cutoff, maxBytes)
        gone == DOMAIN st.log \ kept
    IN  [latest |-> st.latest, total |-> st.total - Bytes(st.log, gone),
         log |-> [s \in kept |-> st.log[s]],
         outbox |-> st.outbox \ gone, pending |-> st.pending \ gone,
         acked |-> st.acked]

\* The event_log, outbox and event_streams rows appendEvent writes.
Inserted(st, row) ==
    LET sequence == st.latest + 1
    IN  [latest |-> sequence, total |-> st.total + row.size,
         log |-> [s \in DOMAIN st.log \cup {sequence} |->
                     IF s = sequence THEN row ELSE st.log[s]],
         outbox |-> st.outbox \cup {sequence},
         pending |-> st.pending \cup {sequence}, acked |-> st.acked]

\* appendEvent as one transaction.  An exhausted sequence is refused: see
\* CanAppend.
appendEvent(st, row, retention) ==
    pruneEvents(Inserted(st, row), row.at - retention.age, retention.bytes)

CanAppend(st) == st.latest < MaxSequence

\* readEventHead: MIN(sequence) and latest_sequence in one statement.
readEventHead(st) ==
    [earliest |-> IF DOMAIN st.log = {} THEN 0 ELSE Min(DOMAIN st.log),
     latest   |-> st.latest]

\* The second statement of ReplayEvents: the first limit rows after a sequence.
ReplayRows(st, after, limit) ==
    LET later == {s \in DOMAIN st.log : s > after}
    IN  {s \in later : Cardinality({t \in later : t < s}) < limit}

\* AcknowledgeEvents refuses a sequence beyond the head or behind the cursor.
CanAcknowledge(st, sequence) == sequence <= st.latest /\ sequence >= st.acked

AcknowledgeEvents(st, sequence) ==
    [latest |-> st.latest, total |-> st.total, log |-> st.log,
     outbox |-> st.outbox, pending |-> {s \in st.pending : s > sequence},
     acked |-> sequence]
=============================================================================
