------------------------- MODULE AgentControlProofs -------------------------
(***************************************************************************)
(* The properties of AgentControl, for any number of requests, controls,   *)
(* Turns, processes and restarts, and whatever fails.  None is inductive;  *)
(* each has an invariant of its own.                                       *)
(*                                                                         *)
(* ExecutedOnce (ExecInv): the control under way has not taken effect      *)
(* before its last step (Untaken), because the sequence it was accepted    *)
(* with was beyond every earlier one, and no control beyond highest has    *)
(* taken effect (Fresh).  A crash keeps highest and forgets the session,   *)
(* so no control is taken up again.                                        *)
(*                                                                         *)
(* AnsweredOnce and DecisionIsFinal (AskInv): until it is settled, a       *)
(* request is in exactly one place, and has neither an answer nor a        *)
(* decision, recorded or queued; in the queue of the pump its decision is  *)
(* the last event about it.                                                *)
(*                                                                         *)
(* IdleIsReal (TurnInv): one Turn at most is running or has completed      *)
(* without being consumed, and there is none when the row is idle.         *)
(***************************************************************************)
EXTENDS AgentControl, TLAPS

USE AgentControlAssumption

-----------------------------------------------------------------------------
\* The steps of a control before it takes effect.
Before == {"begin", "mark", "check", "claim", "ensure", "load", "save", "note", "call",
           "resolve", "respond"}

ExecTypes ==
    /\ highest \in 0..MaxControls
    /\ executed \in [Controls -> Nat]

\* A control under way was accepted and has not taken effect.
Untaken ==
    pc \in Before => /\ job.n \in Controls
                     /\ job.n <= highest
                     /\ executed[job.n] = 0

\* Nor has a control that was not accepted.
Fresh == \A n \in Controls : n > highest => executed[n] = 0

ExecInv == ExecTypes /\ Untaken /\ Fresh /\ ExecutedOnce

LEMMA ExecInit == Init => ExecInv
BY DEF Init, ExecInv, ExecTypes, Untaken, Fresh, ExecutedOnce, Before, Controls

\* Most steps record no effect and start no control.
LEMMA NoEffect ==
    ASSUME ExecInv, UNCHANGED <<executed, highest>>,
           \/ pc' \notin Before
           \/ pc \in Before /\ job' = job
    PROVE  ExecInv'
BY DEF ExecInv, ExecTypes, Untaken, Fresh, ExecutedOnce

\* A step that records the effect of the control under way is its last.
LEMMA OneEffect ==
    ASSUME ExecInv, pc \in Before, pc' \notin Before, UNCHANGED highest,
           \/ executed' = [executed EXCEPT ![job.n] = @ + 1]
           \/ executed' = [executed EXCEPT ![job.n] = @]
    PROVE  ExecInv'
<1>1. job.n \in Controls /\ executed[job.n] = 0 /\ job.n <= highest
  BY DEF ExecInv, Untaken
<1>2. executed' \in [Controls -> Nat] /\ \A n \in Controls : n # job.n => executed'[n] = executed[n]
  BY <1>1 DEF ExecInv, ExecTypes
<1>3. executed'[job.n] \in {0, 1}
  BY <1>1 DEF ExecInv, ExecTypes
<1>4. ExecTypes'
  BY <1>2 DEF ExecInv, ExecTypes
<1>5. Untaken'
  BY DEF Untaken
<1>6. Fresh'
  BY <1>1, <1>2 DEF ExecInv, ExecTypes, Fresh, Controls
<1>7. ExecutedOnce'
  BY <1>2, <1>3 DEF ExecInv, ExecutedOnce
<1> QED
  BY <1>4, <1>5, <1>6, <1>7 DEF ExecInv

LEMMA ExecAccept == ExecInv /\ Accept => ExecInv'
<1> SUFFICES ASSUME ExecInv, Accept PROVE ExecInv'
  OBVIOUS
<1>1. PICK n \in Controls, op \in {"read", "steer", "start", "resolve"},
           req \in {{}} \cup {{a} : a \in Requests},
           decision \in {"none"} \cup Decisions, version \in Versions :
         /\ n > highest /\ highest' = n
         /\ job' = [n |-> n, op |-> op, req |-> req, decision |-> decision, version |-> version]
  BY Zenon DEF Accept, CheckAndRecord
<1>2. job'.n = n
  BY <1>1
<1>3. executed' = executed /\ executed[n] = 0
  BY <1>1 DEF Accept, observers, ExecInv, Fresh
<1> QED
  BY <1>1, <1>2, <1>3 DEF ExecInv, ExecTypes, Untaken, Fresh, ExecutedOnce, Controls

LEMMA ExecNext == ExecInv /\ [Next]_vars => ExecInv'
<1> SUFFICES ASSUME ExecInv, [Next]_vars PROVE ExecInv'
  OBVIOUS
<1> USE DEF store, runtime, queue, session, codex, observers
<1>1. CASE Accept
  BY <1>1, ExecAccept
<1>2. CASE BeginControl
  BY <1>2, NoEffect DEF BeginControl, At, Goto, Before
<1>3. CASE MarkDispatching
  <2>1. UNCHANGED <<executed, highest>> /\ pc \in Before
    BY <1>3 DEF MarkDispatching, At, Before
  <2>2. job' = job \/ pc' = "receive"
    BY <1>3, Zenon DEF MarkDispatching, Goto, Receive
  <2> QED
    BY <2>1, <2>2, NoEffect DEF Before
<1>4. CASE CompleteControl
  BY <1>4, NoEffect DEF CompleteControl, Receive, Before
<1>5. CASE CheckThread
  BY <1>5, NoEffect DEF CheckThread, At, Goto, Finish, Return, Before
<1>6. CASE EnsureClient
  BY <1>6, NoEffect DEF EnsureClient, At, Using, Finish, Return, Before
<1>7. CASE CallRuntime
  <2>1. UNCHANGED highest /\ pc \in Before /\ pc' \notin Before
    BY <1>7 DEF CallRuntime, At, Finish, Return, Before
  <2>2. CASE executed' = executed
    BY <2>1, <2>2, NoEffect
  <2>3. CASE executed' # executed
    <3>1. \/ executed' = [executed EXCEPT ![job.n] = @ + 1]
          \/ executed' = [executed EXCEPT ![job.n] = @]
      BY <1>7, <2>3 DEF CallRuntime
    <3> QED
      BY <2>1, <3>1, OneEffect
  <2> QED
    BY <2>2, <2>3
<1>8. CASE EnsureLoaded
  BY <1>8, NoEffect DEF EnsureLoaded, At, Goto, Finish, Return, Before
<1>9. CASE SaveStarting
  BY <1>9, NoEffect DEF SaveStarting, At, Goto, Before
<1>10. CASE NoteStarting
  BY <1>10, NoEffect DEF NoteStarting, At, Goto, Before
<1>11. CASE CallTurnStart
  BY <1>11, OneEffect DEF CallTurnStart, At, Before
<1>12. CASE TurnStartFails
  BY <1>12, NoEffect DEF TurnStartFails, Finish, Return, Before
<1>13. CASE SaveActive
  BY <1>13, NoEffect DEF SaveActive, Goto, Before
<1>14. CASE NoteTurn
  BY <1>14, NoEffect DEF NoteTurn, Finish, Return, Before
<1>15. CASE ClaimApproval
  BY <1>15, NoEffect DEF ClaimApproval, At, Goto, Finish, Return, Before
<1>16. CASE TakePending
  BY <1>16, NoEffect DEF TakePending, At, Using, Return, Before
<1>17. CASE Answer
  BY <1>17, OneEffect DEF Answer, At, Finish, Return, Before
<1>18. CASE AnswerFails
  BY <1>18, NoEffect DEF AnswerFails, Return, Before
<1>19. CASE MarkApprovalAmbiguous
  BY <1>19, NoEffect DEF MarkApprovalAmbiguous, Goto, Before
<1>20. CASE \E g \in Gens : ConsumeStep(g)
  BY <1>20, NoEffect
     DEF ConsumeStep, ConsumeRequest, ConsumeCompleted, ConsumeResolved, ClientLoss
<1>21. CASE \E a \in Requests : BecomesOverdue(a) \/ ExpireApproval(a)
  BY <1>21, NoEffect DEF BecomesOverdue, ExpireApproval
<1>22. CASE PublishV1 \/ PublishV11
  BY <1>22, NoEffect DEF PublishV1, PublishV11
<1>23. CASE CodexStep
  BY <1>23, NoEffect DEF CodexStep, CodexAsks, CodexWithdraws, CodexCompletes, CodexExits
<1>24. CASE RelayClosed \/ Shutdown \/ CloseRuntime \/ Crash
  BY <1>24, NoEffect DEF RelayClosed, Shutdown, CloseRuntime, Crash, Stopped, Receive, Before
<1>25. CASE Start \/ ReconcileDefers
  BY <1>25, NoEffect DEF Start, ReconcileDefers
<1>26. CASE ReconcileTerminal \/ ReconcileAmbiguous \/ ReconcileSaves
  BY <1>26, NoEffect DEF ReconcileTerminal, ReconcileAmbiguous, ReconcileSaves, Goto, Receive, Before
<1>27. CASE UNCHANGED vars
  BY <1>27, NoEffect DEF vars
<1> QED
  BY <1>1, <1>2, <1>3, <1>4, <1>5, <1>6, <1>7, <1>8, <1>9, <1>10, <1>11, <1>12, <1>13, <1>14,
     <1>15, <1>16, <1>17, <1>18, <1>19, <1>20, <1>21, <1>22, <1>23, <1>24, <1>25, <1>26, <1>27
     DEF Next, SessionStep, HostStep

(* No control takes effect on the Agent twice, whatever the Hub delivers   *)
(* again and wherever the Node is killed or shut down while it executes    *)
(* one: CheckAndRecord, ControlSession.handle and the Codex adapter        *)
(* together, for every value of the constants.                             *)
THEOREM EffectAtMostOnce == Spec => []ExecutedOnce
<1>1. Init => ExecInv
  BY ExecInit
<1>2. ExecInv /\ [Next]_vars => ExecInv'
  BY ExecNext
<1>3. ExecInv => ExecutedOnce
  BY DEF ExecInv
<1> QED
  BY <1>1, <1>2, <1>3, PTL DEF Spec

-----------------------------------------------------------------------------
(* Types.                                                                  *)

ThreadStates == {"idle", "starting", "active", "needs_reconcile"}
Statuses == {"none", "pending", "processing", "accepted", "declined", "expired", "ambiguous"}
Rows == [status : Statuses, digest : {"none"} \cup Versions]

Messages ==
    [kind : {"request", "resolved"}, req : Requests, turn : {0}]
        \cup [kind : {"completed"}, req : {0}, turn : Nat]

Events ==
    [kind : {"requested", "resolved"}, req : Requests, decision : {"none"} \cup Decisions]

Answers == [decision : {"none"} \cup Decisions, gen : 0..MaxGens]

Processes ==
    [gen : Gens, alive : BOOLEAN, turns : SUBSET Nat, last : Nat, open : SUBSET Requests]

\* The variables the two invariants below are about.
AgentTypes ==
    /\ thread \in [state : ThreadStates, turn : Nat]
    /\ approval \in [Requests -> Rows]
    /\ client \in 0..MaxGens /\ gen \in 0..MaxGens
    /\ active \in SUBSET Nat /\ turn \in Nat
    /\ pending \in SUBSET Requests
    /\ events \in Seq(Events) /\ pump \in Seq(Events) /\ Len(pump) <= 1
    /\ job \in [n : Nat, op : {"none", "read", "steer", "start", "resolve"},
                req : SUBSET Requests, decision : {"none"} \cup Decisions,
                version : {"none"} \cup Versions]
    /\ node \in [up : {"running", "closing", "down", "recovering"}, boots : Nat, stray : BOOLEAN]
    /\ server \in Processes
    /\ inbound \in [Gens -> Seq(Messages)]
    /\ asked \in [Requests -> [turn : Nat, gen : 0..MaxGens]]
    /\ answers \in [Requests -> Seq(Answers)]

-----------------------------------------------------------------------------
(* Where an approval request is.  Until it is settled it is in one place   *)
(* only: not made yet, on its way to the consume goroutine, registered in  *)
(* Runtime.pending, or taken from there by the handler that answers it.    *)

InFlight(a) ==
    \E g \in Gens : \E i \in DOMAIN inbound[g] :
        inbound[g][i].kind = "request" /\ inbound[g][i].req = a

InHand(a) == pc = "respond" /\ a \in job.req

Unsettled(a) == asked[a] = NoRequest \/ InFlight(a) \/ a \in pending \/ InHand(a)

OnePlace ==
    \A a \in Requests :
        /\ asked[a] = NoRequest => ~InFlight(a) /\ a \notin pending /\ ~InHand(a)
        /\ InFlight(a) => a \notin pending /\ ~InHand(a)
        /\ a \in pending => ~InHand(a)

OneMessage ==
    \A g, h \in Gens : \A i \in DOMAIN inbound[g], j \in DOMAIN inbound[h] :
        inbound[g][i].kind = "request" /\ inbound[h][j].kind = "request"
            /\ inbound[g][i].req = inbound[h][j].req => g = h /\ i = j

FinalStatus == {"accepted", "declined"}

\* An unsettled request has no answer, no decision and no event of one.
NotYetDecided ==
    \A a \in Requests : Unsettled(a) =>
        /\ answers[a] = <<>>
        /\ approval[a].status \notin FinalStatus
        /\ \A i \in DOMAIN events : events[i].req = a => events[i].kind = "requested"
        /\ \A i \in DOMAIN pump : pump[i].req = a => pump[i].kind = "requested"

\* In the channel, the decision on a request is the last event about it, and
\* it is not recorded yet.
DecisionIsLast ==
    \A i \in DOMAIN events :
        /\ approval[events[i].req].status \notin FinalStatus
        /\ events[i].kind = "resolved"
              => \A j \in DOMAIN events : events[j].req = events[i].req => j <= i

\* Nor does an event follow the decision the pump is publishing, which may be
\* recorded already, for Protocol 1.0.
PumpIsLast ==
    \A i \in DOMAIN pump :
        IF pump[i].kind = "requested"
        THEN approval[pump[i].req].status \notin FinalStatus
        ELSE /\ \A j \in DOMAIN events : events[j].req # pump[i].req
             /\ approval[pump[i].req].status \in FinalStatus
                   => approval[pump[i].req].status
                         = IF pump[i].decision = "accept" THEN "accepted" ELSE "declined"

AskInv ==
    OnePlace /\ OneMessage /\ NotYetDecided /\ DecisionIsLast /\ PumpIsLast /\ AnsweredOnce

-----------------------------------------------------------------------------
(* Where a Turn is: running in the Codex process, or completed and not     *)
(* consumed.                                                               *)

Completed(g, i) == inbound[g][i].kind = "completed"

NoneCompleted == \A g \in Gens : \A i \in DOMAIN inbound[g] : ~Completed(g, i)

NoTurn == server.turns = {} /\ NoneCompleted

\* There is one Turn at most, and a completed one is not running.
OneTurn ==
    /\ \A t, u \in server.turns : t = u
    /\ server.turns = {} \/ NoneCompleted
    /\ \A g, h \in Gens : \A i \in DOMAIN inbound[g], j \in DOMAIN inbound[h] :
          Completed(g, i) /\ Completed(h, j) => g = h /\ i = j

\* An idle row means that there is none, but not while the Node shuts down.
IdleHasNone == node.up # "closing" /\ thread.state = "idle" => NoTurn

\* turn/start is sent with none, and with the row saved as starting.
StartHasNone ==
    job.op = "start" =>
        /\ pc \in {"ensure", "load", "save", "note", "call"} => NoTurn
        /\ pc \in {"note", "call"} => thread.state # "idle"

\* Nor is there one before the session serves controls.
DownHasNone == node.up \in {"down", "recovering"} => NoTurn

TurnInv == OneTurn /\ IdleHasNone /\ StartHasNone /\ DownHasNone

-----------------------------------------------------------------------------
(* Facts about the two queue operations.                                   *)

LEMMA TailFacts ==
    ASSUME NEW S, NEW s \in Seq(S), s # <<>>
    PROVE  /\ Head(s) \in S /\ Head(s) = s[1] /\ 1 \in DOMAIN s
           /\ Tail(s) \in Seq(S) /\ Len(Tail(s)) = Len(s) - 1
           /\ \A i \in DOMAIN Tail(s) : i \in Nat \ {0} /\ i + 1 \in DOMAIN s /\ Tail(s)[i] = s[i + 1]
OBVIOUS

LEMMA AppendFacts ==
    ASSUME NEW S, NEW s \in Seq(S), NEW x \in S
    PROVE  /\ Append(s, x) \in Seq(S) /\ Len(Append(s, x)) = Len(s) + 1
           /\ \A i \in DOMAIN s : i \in DOMAIN Append(s, x) /\ Append(s, x)[i] = s[i]
           /\ \A i \in DOMAIN Append(s, x) : i \in DOMAIN s \/ (i = Len(s) + 1 /\ Append(s, x)[i] = x)
           /\ \A i \in DOMAIN s : i < Len(s) + 1
OBVIOUS

LEMMA EmptyFacts ==
    ASSUME NEW S
    PROVE  <<>> \in Seq(S) /\ DOMAIN <<>> = {} /\ Len(<<>>) = 0
OBVIOUS

-----------------------------------------------------------------------------
(* Typing.                                                                 *)

LEMMA TypesInit == Init => AgentTypes
BY EmptyFacts DEF Init, AgentTypes, ThreadStates, NoApproval, Rows, Statuses, Versions, Decisions, NoJob,
       Processes, Gens, NoRequest

LEMMA TypesRespond ==
    ASSUME AgentTypes, NEW S \in SUBSET Requests, NEW d \in {"none"} \cup Decisions,
           NEW g \in 0..MaxGens, Respond(S, d, g)
    PROVE  answers' \in [Requests -> Seq(Answers)] /\ server' \in Processes
<1>1. CASE UNCHANGED <<answers, server>>
  BY <1>1 DEF AgentTypes
<1>2. CASE /\ answers' = [a \in Requests |-> IF a \in S
                            THEN Append(answers[a], [decision |-> d, gen |-> g]) ELSE answers[a]]
           /\ server' = [server EXCEPT !.open = @ \ S]
  <2>1. [decision |-> d, gen |-> g] \in Answers
    BY DEF Answers
  <2>2. \A a \in Requests : answers'[a] \in Seq(Answers)
    BY <1>2, <2>1, AppendFacts DEF AgentTypes
  <2> QED
    BY <1>2, <2>2 DEF AgentTypes, Processes
<1> QED
  BY <1>1, <1>2 DEF Respond

LEMMA TypesSetStatus ==
    ASSUME AgentTypes, NEW S, NEW from, NEW to \in Statuses, SetStatus(S, from, to)
    PROVE  approval' \in [Requests -> Rows]
<1>1. \A a \in Requests : approval[a] \in Rows
  BY DEF AgentTypes
<1>2. \A a \in Requests : [approval[a] EXCEPT !.status = to] \in Rows
  BY <1>1 DEF Rows
<1> QED
  BY <1>1, <1>2 DEF SetStatus

LEMMA TypesEmit ==
    ASSUME AgentTypes, NEW e \in Events, Emit(e)
    PROVE  events' \in Seq(Events)
<1>1. events \in Seq(Events)
  BY DEF AgentTypes
<1> QED
  BY <1>1, AppendFacts DEF Emit

LEMMA TypesSession == AgentTypes /\ (Accept \/ SessionStep) => AgentTypes'
<1> SUFFICES ASSUME AgentTypes, Accept \/ SessionStep PROVE AgentTypes'
  OBVIOUS
<1> USE DEF store, runtime, queue, session, codex, observers, At, Goto, Finish, Return, Receive, Using
<1>1. CASE Accept
  <2>1. UNCHANGED <<thread, approval, client, active, pending, events, pump, node, gen, turn, server,
                    inbound, asked, answers>>
    BY <1>1 DEF Accept
  <2>2. PICK n \in Controls, op \in {"read", "steer", "start", "resolve"},
             req \in {{}} \cup {{a} : a \in Requests},
             decision \in {"none"} \cup Decisions, version \in Versions :
           job' = [n |-> n, op |-> op, req |-> req, decision |-> decision, version |-> version]
    BY <1>1, Zenon DEF Accept
  <2>3. n \in Nat /\ req \in SUBSET Requests
    BY DEF Controls
  <2>4. job' \in [n : Nat, op : {"none", "read", "steer", "start", "resolve"},
                  req : SUBSET Requests, decision : {"none"} \cup Decisions,
                  version : {"none"} \cup Versions]
    BY <2>2, <2>3
  <2> QED
    BY <2>1, <2>4 DEF AgentTypes
<1>2. CASE BeginControl
  BY <1>2 DEF AgentTypes, BeginControl
<1>3. CASE MarkDispatching
  <2>1. UNCHANGED <<thread, approval, client, active, pending, events, pump, node, server, inbound,
                    asked, answers>>
    BY <1>3 DEF MarkDispatching
  <2>2. \/ UNCHANGED <<gen, turn, job>>
        \/ gen' = 0 /\ turn' = 0 /\ job' = NoJob
    BY <1>3, Zenon DEF MarkDispatching
  <2> QED
    BY <2>1, <2>2 DEF AgentTypes, NoJob
<1>4. CASE CompleteControl
  BY <1>4 DEF AgentTypes, CompleteControl, NoJob
<1>5. CASE CheckThread
  BY <1>5 DEF AgentTypes, CheckThread
<1>6. CASE EnsureClient
  <2>1. UNCHANGED <<thread, approval, active, pending, events, pump, node, job, turn, inbound,
                    asked, answers>>
    BY <1>6 DEF EnsureClient
  <2>2. CASE UNCHANGED <<client, server>> /\ gen' \in {gen, client}
    BY <2>1, <2>2 DEF AgentTypes
  <2>3. CASE Spawned /\ gen' = server.gen + 1
    BY <2>1, <2>3 DEF AgentTypes, Spawned, Process, Processes, Gens
  <2> QED
    BY <1>6, <2>2, <2>3 DEF EnsureClient
<1>7. CASE CallRuntime
  BY <1>7 DEF AgentTypes, CallRuntime
<1>8. CASE EnsureLoaded
  BY <1>8 DEF AgentTypes, EnsureLoaded
<1>9. CASE SaveStarting
  BY <1>9 DEF AgentTypes, SaveStarting, ThreadStates
<1>10. CASE NoteStarting
  BY <1>10 DEF AgentTypes, NoteStarting
<1>11. CASE CallTurnStart
  <2>1. UNCHANGED <<thread, approval, client, active, pending, events, pump, node, job, gen, inbound,
                    asked, answers>>
    BY <1>11 DEF CallTurnStart
  <2>2. server' = [server EXCEPT !.last = @ + 1, !.turns = @ \cup {server.last + 1}]
        /\ turn' = server.last + 1
    BY <1>11 DEF CallTurnStart
  <2>3. server' \in Processes /\ turn' \in Nat
    <3>1. server \in Processes /\ server.last \in Nat /\ server.turns \in SUBSET Nat
      BY DEF AgentTypes, Processes
    <3>2. server.last + 1 \in Nat /\ server.turns \cup {server.last + 1} \in SUBSET Nat
      BY <3>1
    <3> QED
      BY <2>2, <3>1, <3>2 DEF Processes
  <2> QED
    BY <2>1, <2>3 DEF AgentTypes
<1>12. CASE TurnStartFails
  BY <1>12 DEF AgentTypes, TurnStartFails, ThreadStates
<1>13. CASE SaveActive
  BY <1>13 DEF AgentTypes, SaveActive, ThreadStates
<1>14. CASE NoteTurn
  BY <1>14 DEF AgentTypes, NoteTurn
<1>15. CASE ClaimApproval
  <2>1. UNCHANGED <<thread, client, active, pending, events, pump, node, job, gen, turn, server,
                    inbound, asked, answers>>
    BY <1>15 DEF ClaimApproval
  <2>2. \/ UNCHANGED approval
        \/ \E S \in SUBSET Requests, to \in {"processing", "expired"} :
              SetStatus(S, {"pending"}, to)
    BY <1>15 DEF ClaimApproval, AgentTypes
  <2>3. approval' \in [Requests -> Rows]
    BY <2>2, TypesSetStatus DEF AgentTypes, Statuses
  <2> QED
    BY <2>1, <2>3 DEF AgentTypes
<1>16. CASE TakePending
  BY <1>16 DEF AgentTypes, TakePending, Taken
<1>17. CASE Answer
  <2>1. UNCHANGED <<thread, approval, client, active, pending, pump, node, job, gen, turn, inbound,
                    asked>>
    BY <1>17 DEF Answer
  <2>2. answers' \in [Requests -> Seq(Answers)] /\ server' \in Processes
    BY <1>17, TypesRespond DEF Answer, AgentTypes
  <2>3. events' \in Seq(Events)
    BY <1>17, TypesEmit DEF Answer, AgentTypes, Resolved, Events
  <2> QED
    BY <2>1, <2>2, <2>3 DEF AgentTypes
<1>18. CASE AnswerFails
  BY <1>18 DEF AgentTypes, AnswerFails
<1>19. CASE MarkApprovalAmbiguous
  <2>1. UNCHANGED <<thread, client, active, pending, events, pump, node, job, gen, turn, server,
                    inbound, asked, answers>>
    BY <1>19 DEF MarkApprovalAmbiguous
  <2>2. approval' \in [Requests -> Rows]
    BY <1>19, TypesSetStatus DEF MarkApprovalAmbiguous, Statuses
  <2> QED
    BY <2>1, <2>2 DEF AgentTypes
<1> QED
  BY <1>1, <1>2, <1>3, <1>4, <1>5, <1>6, <1>7, <1>8, <1>9, <1>10, <1>11, <1>12, <1>13, <1>14,
     <1>15, <1>16, <1>17, <1>18, <1>19 DEF SessionStep

\* What a consume goroutine takes from its queue.
LEMMA TypesHead ==
    ASSUME AgentTypes, NEW g \in Gens, NEW kind, Head1(g, kind)
    PROVE  /\ inbound' \in [Gens -> Seq(Messages)]
           /\ inbound[g] \in Seq(Messages) /\ inbound[g] # <<>>
           /\ Head(inbound[g]) \in Messages /\ Head(inbound[g]) = inbound[g][1]
           /\ Head(inbound[g]).kind = kind /\ 1 \in DOMAIN inbound[g]
           /\ inbound'[g] = Tail(inbound[g])
           /\ \A h \in Gens : h # g => inbound'[h] = inbound[h]
<1>1. inbound \in [Gens -> Seq(Messages)] /\ inbound[g] # <<>> /\ inbound[g] \in Seq(Messages)
  BY DEF AgentTypes, Head1
<1>2. inbound' = [inbound EXCEPT ![g] = Tail(@)] /\ Head(inbound[g]).kind = kind
  BY DEF Head1
<1>3. /\ Head(inbound[g]) \in Messages /\ Head(inbound[g]) = inbound[g][1] /\ 1 \in DOMAIN inbound[g]
      /\ Tail(inbound[g]) \in Seq(Messages)
  BY <1>1, TailFacts
<1> QED
  BY <1>1, <1>2, <1>3

LEMMA TypesConsume == AgentTypes /\ (\E g \in Gens : ConsumeStep(g)) => AgentTypes'
<1> SUFFICES ASSUME AgentTypes, NEW g \in Gens, ConsumeStep(g) PROVE AgentTypes'
  OBVIOUS
<1> USE DEF store, runtime, queue, session, codex, observers
<1>1. CASE ConsumeRequest(g)
  <2> DEFINE a == Head(inbound[g]).req
  <2>1. a \in Requests /\ inbound' \in [Gens -> Seq(Messages)]
    BY <1>1, TypesHead DEF ConsumeRequest, Messages
  <2>2. UNCHANGED <<thread, approval, client, active, pump, node, job, gen, turn, asked>>
    BY <1>1 DEF ConsumeRequest
  <2>3. pending' \in SUBSET Requests /\ answers' \in [Requests -> Seq(Answers)] /\ server' \in Processes
        /\ events' \in Seq(Events)
    <3>1. CASE pending' = pending \cup {a} /\ Emit(Requested(a)) /\ UNCHANGED <<answers, server>>
      <4>1. Requested(a) \in Events
        BY <2>1 DEF Requested, Events
      <4>2. events' \in Seq(Events)
        BY <3>1, <4>1, TypesEmit
      <4> QED
        BY <2>1, <3>1, <4>2 DEF AgentTypes
    <3>2. CASE Respond({a}, "decline", g) /\ UNCHANGED <<pending, events>>
      <4>1. g \in 0..MaxGens /\ {a} \in SUBSET Requests
        BY <2>1 DEF Gens
      <4>2. answers' \in [Requests -> Seq(Answers)] /\ server' \in Processes
        BY <3>2, <4>1, TypesRespond DEF Decisions
      <4> QED
        BY <3>2, <4>2 DEF AgentTypes
    <3> QED
      BY <1>1, <3>1, <3>2 DEF ConsumeRequest
  <2> QED
    BY <2>1, <2>2, <2>3 DEF AgentTypes
<1>2. CASE ConsumeCompleted(g)
  <2>1. inbound' \in [Gens -> Seq(Messages)]
    BY <1>2, TypesHead DEF ConsumeCompleted
  <2>2. UNCHANGED <<approval, client, events, pump, node, job, gen, turn, asked, server, answers>>
    BY <1>2 DEF ConsumeCompleted
  <2>3. thread' \in [state : ThreadStates, turn : Nat] /\ active' \in SUBSET Nat
        /\ pending' \in SUBSET Requests
    <3>1. thread \in [state : ThreadStates, turn : Nat] /\ active \in SUBSET Nat
          /\ pending \in SUBSET Requests
      BY DEF AgentTypes
    <3>2. thread' = thread \/ thread' = [state |-> "idle", turn |-> 0]
      BY <1>2, Zenon DEF ConsumeCompleted, IdleThread
    <3>3. active' = active \/ active' = {}
      BY <1>2, Zenon DEF ConsumeCompleted
    <3>4. pending' \subseteq pending
      BY <1>2 DEF ConsumeCompleted
    <3>5. [state |-> "idle", turn |-> 0] \in [state : ThreadStates, turn : Nat]
      BY DEF ThreadStates
    <3>6. pending' \in SUBSET Requests
      BY <3>1, <3>4
    <3> QED
      BY <3>1, <3>2, <3>3, <3>5, <3>6
  <2> QED
    BY <2>1, <2>2, <2>3 DEF AgentTypes
<1>3. CASE ConsumeResolved(g)
  <2> DEFINE a == Head(inbound[g]).req
  <2>1. a \in Requests /\ inbound' \in [Gens -> Seq(Messages)]
    BY <1>3, TypesHead DEF ConsumeResolved, Messages
  <2>2. UNCHANGED <<thread, approval, client, active, pump, node, job, gen, turn, asked, server, answers>>
    BY <1>3 DEF ConsumeResolved
  <2>3. Resolved(a, "decline") \in Events
    BY <2>1 DEF Resolved, Events, Decisions
  <2>4. events' \in Seq(Events)
    BY <1>3, <2>3, TypesEmit DEF ConsumeResolved, AgentTypes
  <2>5. pending' \in SUBSET Requests
    BY <1>3 DEF ConsumeResolved, AgentTypes
  <2> QED
    BY <2>1, <2>2, <2>4, <2>5 DEF AgentTypes
<1>4. CASE ClientLoss(g)
  <2>1. UNCHANGED <<approval, active, events, pump, node, job, gen, turn, asked, server, answers, inbound>>
    BY <1>4 DEF ClientLoss
  <2>2. client' \in 0..MaxGens /\ pending' \in SUBSET Requests
    BY <1>4 DEF ClientLoss, AgentTypes
  <2>3. active # {} => (CHOOSE t \in active : TRUE) \in active
    OBVIOUS
  <2>4. thread' \in [state : ThreadStates, turn : Nat]
    <3>1. CASE thread' = thread
      BY <3>1 DEF AgentTypes
    <3>2. CASE thread' # thread
      <4>1. active # {} /\ thread' = [state |-> "needs_reconcile",
                                      turn |-> IF thread.turn # 0 THEN thread.turn
                                               ELSE CHOOSE t \in active : TRUE]
        BY <1>4, <3>2 DEF ClientLoss
      <4>2. thread'.turn \in Nat
        BY <2>3, <4>1 DEF AgentTypes
      <4> QED
        BY <4>1, <4>2 DEF ThreadStates
    <3> QED
      BY <3>1, <3>2
  <2> QED
    BY <2>1, <2>2, <2>4 DEF AgentTypes
<1> QED
  BY <1>1, <1>2, <1>3, <1>4 DEF ConsumeStep

LEMMA TypesTimer ==
    AgentTypes /\ (\E a \in Requests : BecomesOverdue(a) \/ ExpireApproval(a)) => AgentTypes'
<1> SUFFICES ASSUME AgentTypes, NEW a \in Requests, BecomesOverdue(a) \/ ExpireApproval(a)
             PROVE AgentTypes'
  OBVIOUS
<1> USE DEF store, runtime, queue, session, codex, observers
<1>1. CASE BecomesOverdue(a)
  BY <1>1 DEF BecomesOverdue, AgentTypes
<1>2. CASE ExpireApproval(a)
  <2>1. UNCHANGED <<thread, approval, client, active, pump, node, job, gen, turn, inbound, asked>>
        /\ pending' = pending \ {a}
    BY <1>2 DEF ExpireApproval
  <2>2. answers' \in [Requests -> Seq(Answers)] /\ server' \in Processes /\ events' \in Seq(Events)
    <3>1. CASE UNCHANGED <<answers, server, events>>
      BY <3>1 DEF AgentTypes
    <3>2. CASE Declined(a)
      <4>1. Resolved(a, "decline") \in Events /\ client \in 0..MaxGens
        BY DEF Resolved, Events, Decisions, AgentTypes
      <4> QED
        BY <3>2, <4>1, TypesEmit, TypesRespond DEF Declined, Decisions
    <3> QED
      BY <1>2, <3>1, <3>2 DEF ExpireApproval
  <2> QED
    BY <2>1, <2>2 DEF AgentTypes
<1> QED
  BY <1>1, <1>2

LEMMA TypesUpdate ==
    ASSUME AgentTypes, NEW e \in Events, NEW version \in Versions, UpdateApproval(e, version)
    PROVE  approval' \in [Requests -> Rows]
<1> DEFINE r == approval[e.req]
           new == [r EXCEPT !.status = IF e.decision = "accept" THEN "accepted" ELSE "declined"]
<1>1. approval \in [Requests -> Rows] /\ e.req \in Requests /\ r \in Rows
  BY DEF AgentTypes, Events
<1>2. [status |-> "pending", digest |-> version] \in Rows
  BY DEF Rows, Statuses
<1>3. new \in Rows
  BY <1>1 DEF Rows, Statuses
<1>4. \E x \in {[status |-> "pending", digest |-> version], r, new} :
         approval' = [approval EXCEPT ![e.req] = x]
  BY DEF UpdateApproval
<1> QED
  BY <1>1, <1>2, <1>3, <1>4

\* The event the pump publishes.
LEMMA TypesHeads ==
    ASSUME AgentTypes
    PROVE  /\ events # <<>> => /\ Head(events) \in Events /\ Head(events) = events[1]
                               /\ 1 \in DOMAIN events /\ Tail(events) \in Seq(Events)
           /\ pump # <<>> => /\ Head(pump) \in Events /\ Head(pump) = pump[1]
                             /\ 1 \in DOMAIN pump
<1>1. events \in Seq(Events) /\ pump \in Seq(Events)
  BY DEF AgentTypes
<1> QED
  BY <1>1, TailFacts

LEMMA TypesPump == AgentTypes /\ (PublishV1 \/ PublishV11) => AgentTypes'
<1> SUFFICES ASSUME AgentTypes, PublishV1 \/ PublishV11 PROVE AgentTypes'
  OBVIOUS
<1> USE DEF store, runtime, queue, session, codex, observers
<1>1. UNCHANGED <<thread, client, active, pending, node, job, gen, turn, inbound, asked, server, answers>>
  BY DEF PublishV1, PublishV11
<1>2. CASE PublishV1
  <2>1. approval' \in [Requests -> Rows]
    BY <1>2, TypesUpdate, TypesHeads DEF PublishV1, Versions
  <2>2. pump' = <<Head(events)>> /\ events' = Tail(events) /\ events # <<>>
    BY <1>2 DEF PublishV1
  <2>3. events' \in Seq(Events) /\ Head(events) \in Events
    BY <2>2, TypesHeads
  <2>4. pump' \in Seq(Events) /\ Len(pump') <= 1
    BY <2>2, <2>3
  <2> QED
    BY <1>1, <2>1, <2>3, <2>4 DEF AgentTypes
<1>3. CASE PublishV11
  <2>1. approval' \in [Requests -> Rows]
    BY <1>3, TypesUpdate, TypesHeads DEF PublishV11, Versions
  <2>2. pump' = <<>> /\ events' = events
    BY <1>3 DEF PublishV11
  <2> QED
    BY <1>1, <2>1, <2>2, EmptyFacts DEF AgentTypes
<1> QED
  BY <1>2, <1>3

\* A message of Codex, at the end of the queue of its process.
LEMMA TypesAppend ==
    ASSUME AgentTypes, NEW m \in Messages,
           inbound' = [inbound EXCEPT ![server.gen] = Append(@, m)]
    PROVE  /\ inbound' \in [Gens -> Seq(Messages)] /\ server.gen \in Gens
           /\ inbound[server.gen] \in Seq(Messages)
           /\ inbound'[server.gen] = Append(inbound[server.gen], m)
           /\ \A h \in Gens : h # server.gen => inbound'[h] = inbound[h]
<1>1. inbound \in [Gens -> Seq(Messages)] /\ server.gen \in Gens
  BY DEF AgentTypes, Processes
<1>2. Append(inbound[server.gen], m) \in Seq(Messages)
  BY <1>1, AppendFacts
<1> QED
  BY <1>1, <1>2

LEMMA TypesCodex == AgentTypes /\ CodexStep => AgentTypes'
<1> SUFFICES ASSUME AgentTypes, CodexStep PROVE AgentTypes'
  OBVIOUS
<1> USE DEF store, runtime, queue, session, codex, observers
<1>1. UNCHANGED <<thread, approval, client, active, pending, events, pump, node, job, gen, turn, answers>>
  BY DEF CodexStep, CodexAsks, CodexWithdraws, CodexCompletes, CodexExits
<1>2. server \in Processes /\ server.turns \in SUBSET Nat /\ server.open \in SUBSET Requests
      /\ server.gen \in Gens
  BY DEF AgentTypes, Processes
<1>3. ASSUME NEW a \in Requests, CodexAsks(a) PROVE AgentTypes'
  <2>1. PICK t \in server.turns : asked' = [asked EXCEPT ![a] = [turn |-> t, gen |-> server.gen]]
    BY <1>3 DEF CodexAsks
  <2>2. [turn |-> t, gen |-> server.gen] \in [turn : Nat, gen : 0..MaxGens]
    BY <1>2 DEF Gens
  <2>3. asked' \in [Requests -> [turn : Nat, gen : 0..MaxGens]]
    BY <2>1, <2>2 DEF AgentTypes
  <2>4. server' \in Processes
    BY <1>2, <1>3 DEF CodexAsks, Processes
  <2>5. [kind |-> "request", req |-> a, turn |-> 0] \in Messages
    BY DEF Messages
  <2>6. inbound' \in [Gens -> Seq(Messages)]
    BY <1>3, <2>5, TypesAppend DEF CodexAsks, Notify
  <2> QED
    BY <1>1, <2>3, <2>4, <2>6 DEF AgentTypes
<1>4. ASSUME NEW a \in Requests, CodexWithdraws(a) PROVE AgentTypes'
  <2>1. server' \in Processes /\ asked' = asked
    BY <1>2, <1>4 DEF CodexWithdraws, Processes
  <2>2. [kind |-> "resolved", req |-> a, turn |-> 0] \in Messages
    BY DEF Messages
  <2>3. inbound' \in [Gens -> Seq(Messages)]
    BY <1>4, <2>2, TypesAppend DEF CodexWithdraws, Notify
  <2> QED
    BY <1>1, <2>1, <2>3 DEF AgentTypes
<1>5. CASE CodexCompletes
  <2>1. PICK t \in server.turns :
          /\ server' = [server EXCEPT !.turns = @ \ {t}, !.open = @ \ OfTurn(t)]
          /\ inbound' = [inbound EXCEPT ![server.gen] =
                           Append(@, [kind |-> "completed", req |-> 0, turn |-> t])]
    BY <1>5 DEF CodexCompletes
  <2>2. server' \in Processes
    BY <1>2, <2>1 DEF Processes
  <2>3. [kind |-> "completed", req |-> 0, turn |-> t] \in Messages
    BY <1>2 DEF Messages
  <2>4. inbound' \in [Gens -> Seq(Messages)]
    BY <2>1, <2>3, TypesAppend
  <2>5. asked' = asked
    BY <1>5 DEF CodexCompletes
  <2> QED
    BY <1>1, <2>2, <2>4, <2>5 DEF AgentTypes
<1>6. CASE CodexExits
  <2>1. server' \in Processes /\ UNCHANGED <<asked, inbound>>
    BY <1>2, <1>6 DEF CodexExits, Exited, Processes
  <2> QED
    BY <1>1, <2>1 DEF AgentTypes
<1> QED
  BY <1>3, <1>4, <1>5, <1>6 DEF CodexStep

LEMMA TypesStopped ==
    ASSUME AgentTypes, Stopped
    PROVE  /\ node' \in [up : {"running", "closing", "down", "recovering"}, boots : Nat, stray : BOOLEAN]
           /\ node'.up = "down"
           /\ client' \in 0..MaxGens /\ gen' \in 0..MaxGens
           /\ active' \in SUBSET Nat /\ turn' \in Nat /\ pending' \in SUBSET Requests
           /\ events' \in Seq(Events) /\ pump' \in Seq(Events) /\ Len(pump') <= 1
           /\ job' = NoJob
           /\ inbound' \in [Gens -> Seq(Messages)]
<1>1. /\ node' = [node EXCEPT !.up = "down", !.stray = FALSE] /\ client' = 0 /\ gen' = 0 /\ turn' = 0 /\ job' = NoJob
      /\ active' = {} /\ pending' = {} /\ events' = <<>> /\ pump' = <<>>
      /\ inbound' = [g \in Gens |-> <<>>]
  BY DEF Stopped, Receive
<1>2. events' \in Seq(Events) /\ pump' \in Seq(Events) /\ Len(pump') <= 1
  BY <1>1, EmptyFacts
<1>3. inbound' \in [Gens -> Seq(Messages)]
  BY <1>1, EmptyFacts
<1>4. node' \in [up : {"running", "closing", "down", "recovering"}, boots : Nat, stray : BOOLEAN] /\ node'.up = "down"
  BY <1>1 DEF AgentTypes
<1> QED
  BY <1>1, <1>2, <1>3, <1>4

LEMMA TypesNoJob ==
    NoJob \in [n : Nat, op : {"none", "read", "steer", "start", "resolve"},
               req : SUBSET Requests, decision : {"none"} \cup Decisions,
               version : {"none"} \cup Versions]
BY DEF NoJob

LEMMA TypesExited ==
    ASSUME AgentTypes, Exited
    PROVE  server' \in Processes /\ server'.turns = {}
<1>1. server \in Processes
  BY DEF AgentTypes
<1> QED
  BY <1>1 DEF Exited, Processes

LEMMA TypesHost == AgentTypes /\ HostStep => AgentTypes'
<1> SUFFICES ASSUME AgentTypes, HostStep PROVE AgentTypes'
  OBVIOUS
<1> USE DEF store, runtime, queue, session, codex, observers
<1>1. CASE Shutdown
  <2>1. UNCHANGED <<approval, client, server, inbound, asked, answers>>
        /\ events' = <<>> /\ pump' = <<>> /\ gen' = 0 /\ turn' = 0 /\ job' = NoJob
        /\ node' = [node EXCEPT !.up = "closing"]
    BY <1>1 DEF Shutdown, Receive
  <2>2. thread' = thread \/ thread' = [state |-> "idle", turn |-> 0]
    BY <1>1 DEF Shutdown, Cancelled
  <2>3. active' = active \/ active' = {} \/ active' = {turn}
    BY <1>1 DEF Shutdown, Cancelled
  <2>4. pending' = pending \/ pending' = pending \ job.req
    BY <1>1 DEF Shutdown, Cancelled
  <2>5. thread' \in [state : ThreadStates, turn : Nat]
    BY <2>2 DEF AgentTypes, ThreadStates
  <2>6. active' \in SUBSET Nat /\ pending' \in SUBSET Requests
    BY <2>3, <2>4 DEF AgentTypes
  <2>7. node' \in [up : {"running", "closing", "down", "recovering"}, boots : Nat, stray : BOOLEAN]
    BY <2>1 DEF AgentTypes
  <2>8. events' \in Seq(Events) /\ pump' \in Seq(Events) /\ Len(pump') <= 1
    BY <2>1, EmptyFacts
  <2>9. UNCHANGED <<approval, client, server, inbound, asked, answers>>
    BY <2>1
  <2>10. gen' \in 0..MaxGens /\ turn' \in Nat /\ job' = NoJob
    BY <2>1
  <2> QED
    BY <2>5, <2>6, <2>7, <2>8, <2>9, <2>10, TypesNoJob DEF AgentTypes
<1>2. CASE CloseRuntime
  <2>1. UNCHANGED <<approval, asked>> /\ Exited /\ Stopped
    BY <1>2 DEF CloseRuntime
  <2>2. thread' \in [state : ThreadStates, turn : Nat]
    BY <1>2 DEF CloseRuntime, AgentTypes, ThreadStates
  <2>3. [decision |-> "decline", gen |-> client] \in Answers
    BY DEF AgentTypes, Answers, Decisions
  <2>4. \A a \in Requests : answers[a] \in Seq(Answers)
                            /\ Append(answers[a], [decision |-> "decline", gen |-> client]) \in Seq(Answers)
    BY <2>3, AppendFacts DEF AgentTypes
  <2>5. answers' \in [Requests -> Seq(Answers)]
    BY <1>2, <2>4 DEF CloseRuntime
  <2> QED
    BY <2>1, <2>2, <2>5, TypesExited, TypesStopped, TypesNoJob DEF AgentTypes
<1>3. CASE Crash
  <2>1. UNCHANGED <<thread, approval, asked, answers>> /\ Exited /\ Stopped
    BY <1>3 DEF Crash
  <2> QED
    BY <2>1, TypesExited, TypesStopped, TypesNoJob DEF AgentTypes
<1>4. CASE Start
  <2>1. UNCHANGED <<thread, approval, active, pending, events, pump, job, gen, turn, inbound, asked, answers>>
    BY <1>4 DEF Start
  <2>2. server' \in Processes /\ client' \in 0..MaxGens
    BY <1>4 DEF Start, Spawned, Process, AgentTypes, Processes, Gens
  <2>3. node' \in [up : {"running", "closing", "down", "recovering"}, boots : Nat, stray : BOOLEAN]
    BY <1>4 DEF Start, AgentTypes
  <2> QED
    BY <2>1, <2>2, <2>3 DEF AgentTypes
<1>5. CASE ReconcileDefers
  BY <1>5 DEF ReconcileDefers, AgentTypes
<1>6. CASE ReconcileTerminal
  BY <1>6 DEF ReconcileTerminal, Goto, AgentTypes
<1>7. CASE ReconcileAmbiguous
  <2>1. UNCHANGED <<thread, client, active, pending, events, pump, node, job, gen, turn, server,
                    inbound, asked, answers>>
    BY <1>7 DEF ReconcileAmbiguous, Goto
  <2>2. approval' \in [Requests -> Rows]
    BY <1>7, TypesSetStatus DEF ReconcileAmbiguous, Statuses
  <2> QED
    BY <2>1, <2>2 DEF AgentTypes
<1>8. CASE ReconcileSaves
  <2>1. UNCHANGED <<approval, client, active, pending, events, pump, server, inbound, asked, answers>>
        /\ thread' = [state |-> "idle", turn |-> 0] /\ gen' = 0 /\ turn' = 0 /\ job' = NoJob
        /\ node' = [node EXCEPT !.up = "running"]
    BY <1>8 DEF ReconcileSaves, Receive
  <2>2. thread' \in [state : ThreadStates, turn : Nat]
    BY <2>1 DEF ThreadStates
  <2>3. node' \in [up : {"running", "closing", "down", "recovering"}, boots : Nat, stray : BOOLEAN]
    BY <2>1 DEF AgentTypes
  <2> QED
    BY <2>1, <2>2, <2>3, TypesNoJob DEF AgentTypes
<1>9. CASE RelayClosed
  <2>1. UNCHANGED <<approval, client, events, pump, server, inbound, asked, answers>>
        /\ gen' = 0 /\ turn' = 0 /\ job' = NoJob
    BY <1>9 DEF RelayClosed, Receive
  <2>2. thread' = thread \/ thread' = [state |-> "idle", turn |-> 0]
    BY <1>9 DEF RelayClosed, Cancelled
  <2>3. active' = active \/ active' = {} \/ active' = {turn}
    BY <1>9 DEF RelayClosed, Cancelled
  <2>4. pending' = pending \/ pending' = pending \ job.req
    BY <1>9 DEF RelayClosed, Cancelled
  <2>5. thread' \in [state : ThreadStates, turn : Nat]
    BY <2>2 DEF AgentTypes, ThreadStates
  <2>6. active' \in SUBSET Nat /\ pending' \in SUBSET Requests
    BY <2>3, <2>4 DEF AgentTypes
  <2>7. node' \in [up : {"running", "closing", "down", "recovering"}, boots : Nat, stray : BOOLEAN]
    <3> DEFINE stray == node.stray \/ (pc = "wait" /\ thread'.state = "idle")
           boots == node.boots + 1
    <3>1. node' = [node EXCEPT !.boots = boots, !.stray = stray]
      BY <1>9 DEF RelayClosed
    <3>2. stray \in BOOLEAN /\ boots \in Nat
      BY DEF AgentTypes
    <3> HIDE DEF stray, boots
    <3> QED
      BY <3>1, <3>2 DEF AgentTypes
  <2> QED
    BY <2>1, <2>5, <2>6, <2>7, TypesNoJob DEF AgentTypes
<1> QED
  BY <1>1, <1>2, <1>3, <1>4, <1>5, <1>6, <1>7, <1>8, <1>9 DEF HostStep

LEMMA TypesNext == AgentTypes /\ [Next]_vars => AgentTypes'
<1> SUFFICES ASSUME AgentTypes, [Next]_vars PROVE AgentTypes'
  OBVIOUS
<1>1. CASE UNCHANGED vars
  BY <1>1 DEF vars, AgentTypes
<1> QED
  BY <1>1, TypesSession, TypesConsume, TypesTimer, TypesPump, TypesCodex, TypesHost DEF Next

-----------------------------------------------------------------------------
(* AskInv: what a step may do to the messages, and to a request's place.   *)

LEMMA FlightTail ==
    ASSUME AgentTypes, OneMessage, NEW g \in Gens, NEW kind, Head1(g, kind)
    PROVE  /\ OneMessage'
           /\ \A a \in Requests : InFlight(a)' => InFlight(a)
           /\ kind = "request" => /\ Head(inbound[g]).req \in Requests
                                  /\ InFlight(Head(inbound[g]).req)
                                  /\ \A h \in Gens : \A i \in DOMAIN inbound'[h] :
                                        ~(inbound'[h][i].kind = "request"
                                            /\ inbound'[h][i].req = Head(inbound[g]).req)
<1>1. /\ inbound[g] \in Seq(Messages) /\ inbound[g] # <<>>
      /\ Head(inbound[g]) = inbound[g][1] /\ 1 \in DOMAIN inbound[g]
      /\ Head(inbound[g]).kind = kind /\ Head(inbound[g]) \in Messages
      /\ inbound'[g] = Tail(inbound[g])
      /\ \A h \in Gens : h # g => inbound'[h] = inbound[h]
  BY TypesHead
<1>2. \A i \in DOMAIN inbound'[g] : /\ i \in Nat \ {0} /\ i + 1 \in DOMAIN inbound[g]
                                    /\ inbound'[g][i] = inbound[g][i + 1] /\ i + 1 # 1
  BY <1>1, TailFacts
<1> DEFINE f(h, i) == IF h = g THEN i + 1 ELSE i
<1>3. \A h \in Gens : \A i \in DOMAIN inbound'[h] :
         f(h, i) \in DOMAIN inbound[h] /\ inbound'[h][i] = inbound[h][f(h, i)]
  BY <1>1, <1>2
<1>4. \A i, j \in DOMAIN inbound'[g] : i + 1 = j + 1 => i = j
  BY <1>2
<1>5. OneMessage'
  BY <1>3, <1>4 DEF OneMessage
<1>6. \A a \in Requests : InFlight(a)' => InFlight(a)
  BY <1>3 DEF InFlight
<1>7. ASSUME kind = "request"
      PROVE  /\ Head(inbound[g]).req \in Requests
             /\ InFlight(Head(inbound[g]).req)
             /\ \A h \in Gens : \A i \in DOMAIN inbound'[h] :
                   ~(inbound'[h][i].kind = "request"
                       /\ inbound'[h][i].req = Head(inbound[g]).req)
  <2>1. Head(inbound[g]).req \in Requests
    BY <1>1, <1>7 DEF Messages
  <2>2. InFlight(Head(inbound[g]).req)
    BY <1>1, <1>7 DEF InFlight
  <2>3. ASSUME NEW h \in Gens, NEW i \in DOMAIN inbound'[h], inbound'[h][i].kind = "request",
               inbound'[h][i].req = Head(inbound[g]).req
        PROVE  FALSE
    <3>1. f(h, i) \in DOMAIN inbound[h] /\ inbound[h][f(h, i)].kind = "request"
          /\ inbound[h][f(h, i)].req = inbound[g][1].req /\ inbound[g][1].kind = "request"
      BY <1>1, <1>3, <1>7, <2>3
    <3>2. h = g /\ f(h, i) = 1
      BY <1>1, <3>1 DEF OneMessage
    <3> QED
      BY <1>2, <3>2
  <2> QED
    BY <2>1, <2>2, <2>3
<1> QED
  BY <1>5, <1>6, <1>7

\* The same, with the request no longer on its way.
LEMMA FlightTaken ==
    ASSUME AgentTypes, OneMessage, NEW g \in Gens, Head1(g, "request")
    PROVE  /\ Head(inbound[g]).req \in Requests /\ InFlight(Head(inbound[g]).req)
           /\ \A a \in Requests : a = Head(inbound[g]).req => ~InFlight(a)'
<1>1. /\ Head(inbound[g]).req \in Requests /\ InFlight(Head(inbound[g]).req)
      /\ \A h \in Gens : \A i \in DOMAIN inbound'[h] :
            ~(inbound'[h][i].kind = "request" /\ inbound'[h][i].req = Head(inbound[g]).req)
  BY FlightTail
<1> QED
  BY <1>1 DEF InFlight

LEMMA FlightAppend ==
    ASSUME AgentTypes, OneMessage, NEW m \in Messages,
           inbound' = [inbound EXCEPT ![server.gen] = Append(@, m)],
           m.kind = "request" => ~InFlight(m.req)
    PROVE  /\ OneMessage'
           /\ \A a \in Requests : InFlight(a)' => InFlight(a) \/ (m.kind = "request" /\ m.req = a)
<1> DEFINE k == server.gen
<1>1. /\ k \in Gens /\ inbound[k] \in Seq(Messages) /\ inbound'[k] = Append(inbound[k], m)
      /\ \A h \in Gens : h # k => inbound'[h] = inbound[h]
  BY TypesAppend
<1>2. \A i \in DOMAIN inbound'[k] :
         \/ i \in DOMAIN inbound[k] /\ inbound'[k][i] = inbound[k][i]
         \/ i = Len(inbound[k]) + 1 /\ inbound'[k][i] = m
  BY <1>1, AppendFacts
<1>3. \A h \in Gens : \A i \in DOMAIN inbound'[h] :
         \/ i \in DOMAIN inbound[h] /\ inbound'[h][i] = inbound[h][i]
         \/ h = k /\ i = Len(inbound[k]) + 1 /\ inbound'[h][i] = m
  BY <1>1, <1>2
<1>4. m.kind = "request" => \A h \in Gens : \A i \in DOMAIN inbound[h] :
         ~(inbound[h][i].kind = "request" /\ inbound[h][i].req = m.req)
  BY DEF InFlight
<1> HIDE DEF k
<1>5. OneMessage'
  <2> SUFFICES ASSUME NEW g \in Gens, NEW h \in Gens, NEW i \in DOMAIN inbound'[g],
                      NEW j \in DOMAIN inbound'[h],
                      inbound'[g][i].kind = "request", inbound'[h][j].kind = "request",
                      inbound'[g][i].req = inbound'[h][j].req
               PROVE  g = h /\ i = j
    BY DEF OneMessage
  <2>1. CASE i \in DOMAIN inbound[g] /\ inbound'[g][i] = inbound[g][i]
             /\ j \in DOMAIN inbound[h] /\ inbound'[h][j] = inbound[h][j]
    BY <2>1 DEF OneMessage
  <2> QED
    BY <1>3, <1>4, <2>1
<1>6. \A a \in Requests : InFlight(a)' => InFlight(a) \/ (m.kind = "request" /\ m.req = a)
  BY <1>3 DEF InFlight
<1> QED
  BY <1>5, <1>6

LEMMA FlightNone ==
    ASSUME inbound' = [g \in Gens |-> <<>>]
    PROVE  OneMessage' /\ \A a \in Requests : ~InFlight(a)'
<1>1. \A g \in Gens : inbound'[g] = <<>> /\ DOMAIN inbound'[g] = {}
  OBVIOUS
<1> QED
  BY <1>1 DEF OneMessage, InFlight

LEMMA FlightKept ==
    ASSUME OneMessage, inbound' = inbound
    PROVE  OneMessage' /\ \A a \in Requests : InFlight(a)' => InFlight(a)
BY DEF OneMessage, InFlight

LEMMA EventRequests ==
    ASSUME NEW s \in Seq(Events)
    PROVE  \A i \in DOMAIN s : s[i] \in Events /\ s[i].req \in Requests
<1>1. \A i \in DOMAIN s : s[i] \in Events
  OBVIOUS
<1> QED
  BY <1>1 DEF Events

\* A step after which some requests (settled) are nowhere, and the others are
\* where they were, or nowhere.
LEMMA AskSettles ==
    ASSUME AgentTypes, AgentTypes', AskInv, OneMessage', NEW settled \in SUBSET Requests,
           UNCHANGED asked,
           \A a \in settled : a \in pending \/ InFlight(a) \/ InHand(a),
           \A a \in settled : a \notin pending' /\ ~InFlight(a)' /\ ~InHand(a)',
           \A a \in Requests : /\ InFlight(a)' => InFlight(a)
                               /\ a \in pending' => a \in pending
                               /\ InHand(a)' => InHand(a),
           \A a \in Requests : \/ answers'[a] = answers[a]
                               \/ a \in settled /\ Len(answers'[a]) <= 1,
           \A a \in Requests : approval'[a].status \in FinalStatus
                                  => approval'[a].status = approval[a].status,
           \/ UNCHANGED <<events, pump>>
           \/ events' = <<>> /\ pump' = <<>>
           \/ UNCHANGED pump /\ \E a \in settled, d \in {"none"} \cup Decisions :
                                   events' = Append(events, Resolved(a, d))
    PROVE  AskInv'
<1>1. \A a \in settled : asked[a] # NoRequest
  BY DEF AskInv, OnePlace
<1>2. \A a \in Requests : Unsettled(a)' => Unsettled(a) /\ a \notin settled
  BY <1>1 DEF Unsettled
<1>3. OnePlace'
  BY DEF AskInv, OnePlace
<1>4. AnsweredOnce'
  BY DEF AskInv, AnsweredOnce
<1>5. \A a \in settled : Unsettled(a)
  BY DEF Unsettled
<1>6. events \in Seq(Events) /\ pump \in Seq(Events)
  BY DEF AgentTypes
<1>7. CASE UNCHANGED <<events, pump>>
  <2>1. NotYetDecided'
    BY <1>2, <1>7 DEF AskInv, NotYetDecided
  <2>2. \A i \in DOMAIN events : events[i].req \in Requests
    BY <1>6, EventRequests
  <2>3. \A i \in DOMAIN pump : pump[i].req \in Requests
    BY <1>6, EventRequests
  <2>4. DecisionIsLast'
    BY <1>7, <2>2 DEF AskInv, DecisionIsLast
  <2>5. PumpIsLast'
    BY <1>7, <2>3 DEF AskInv, PumpIsLast
  <2> QED
    BY <1>3, <1>4, <2>1, <2>4, <2>5 DEF AskInv
<1>8. CASE events' = <<>> /\ pump' = <<>>
  <2>1. DOMAIN events' = {} /\ DOMAIN pump' = {}
    BY <1>8
  <2> QED
    BY <1>2, <1>3, <1>4, <2>1 DEF AskInv, NotYetDecided, DecisionIsLast, PumpIsLast
<1>9. ASSUME NEW a \in settled, NEW d \in {"none"} \cup Decisions,
             UNCHANGED pump, events' = Append(events, Resolved(a, d))
      PROVE  AskInv'
  <2>1. Resolved(a, d) \in Events /\ Resolved(a, d).req = a /\ Resolved(a, d).kind = "resolved"
    BY DEF Resolved, Events
  <2>2. \A i \in DOMAIN events' : \/ i \in DOMAIN events /\ events'[i] = events[i] /\ i < Len(events) + 1
                                  \/ i = Len(events) + 1 /\ events'[i] = Resolved(a, d)
    BY <1>6, <1>9, <2>1, AppendFacts
  <2>3. \A i \in DOMAIN events : events[i].req \in Requests
    BY <1>6, EventRequests
  <2>4. \A i \in DOMAIN pump : pump[i].req \in Requests
    BY <1>6, EventRequests
  <2>5. /\ approval[a].status \notin FinalStatus
        /\ \A i \in DOMAIN events : events[i].req = a => events[i].kind = "requested"
        /\ \A i \in DOMAIN pump : pump[i].req = a => pump[i].kind = "requested"
    BY <1>5 DEF AskInv, NotYetDecided
  <2>6. NotYetDecided'
    BY <1>2, <1>9, <2>1, <2>2 DEF AskInv, NotYetDecided
  <2>7. DecisionIsLast'
    <3> SUFFICES ASSUME NEW i \in DOMAIN events'
                 PROVE  /\ approval'[events'[i].req].status \notin FinalStatus
                        /\ events'[i].kind = "resolved" => \A j \in DOMAIN events' :
                              events'[j].req = events'[i].req => j <= i
      BY DEF DecisionIsLast
    <3>1. CASE i \in DOMAIN events /\ events'[i] = events[i] /\ i < Len(events) + 1
      BY <2>1, <2>2, <2>3, <2>5, <3>1 DEF AskInv, DecisionIsLast
    <3>2. CASE i = Len(events) + 1 /\ events'[i] = Resolved(a, d)
      <4>1. \A j \in DOMAIN events' : j <= i
        BY <1>6, <2>2, <3>2
      <4> QED
        BY <2>1, <2>5, <3>2, <4>1
    <3> QED
      BY <2>2, <3>1, <3>2
  <2>8. PumpIsLast'
    BY <1>9, <2>1, <2>2, <2>4, <2>5 DEF AskInv, PumpIsLast
  <2> QED
    BY <1>3, <1>4, <2>6, <2>7, <2>8 DEF AskInv
<1> QED
  BY <1>7, <1>8, <1>9

\* A step that settles no request and records no decision.
LEMMA AskKept ==
    ASSUME AgentTypes, AgentTypes', AskInv, OneMessage',
           UNCHANGED <<asked, answers>>,
           \A a \in Requests : InFlight(a)' => InFlight(a),
           pending' \subseteq pending,
           \A a \in Requests : InHand(a)' => InHand(a),
           \A a \in Requests : approval'[a].status \in FinalStatus
                                  => approval'[a].status = approval[a].status,
           \/ UNCHANGED <<events, pump>>
           \/ events' = <<>> /\ pump' = <<>>
    PROVE  AskInv'
<1> DEFINE none == {a \in Requests : FALSE}
<1>1. none \in SUBSET Requests /\ none = {}
  OBVIOUS
<1>2. \A a \in Requests : answers'[a] = answers[a]
  OBVIOUS
<1>3. \A a \in Requests : a \in pending' => a \in pending
  OBVIOUS
<1> HIDE DEF none
<1> QED
  BY <1>1, <1>2, <1>3, AskSettles

\* A step that moves requests from one place to the next.
LEMMA AskMoves ==
    ASSUME AskInv, OnePlace', OneMessage', UNCHANGED <<answers, approval, events, pump>>,
           \A a \in Requests : Unsettled(a)' => Unsettled(a)
    PROVE  AskInv'
BY DEF AskInv, NotYetDecided, DecisionIsLast, PumpIsLast, AnsweredOnce

\* An unsettled request gets its first answer.
LEMMA RespondOnce ==
    ASSUME AgentTypes, AskInv, NEW S \in SUBSET Requests, NEW d, NEW g, Respond(S, d, g),
           \A a \in S : Unsettled(a)
    PROVE  \A a \in Requests : answers'[a] = answers[a] \/ (a \in S /\ Len(answers'[a]) <= 1)
<1>1. \A a \in S : answers[a] = <<>>
  BY DEF AskInv, NotYetDecided
<1>2. Len(Append(<<>>, [decision |-> d, gen |-> g])) = 1
  OBVIOUS
<1> QED
  BY <1>1, <1>2 DEF Respond, AgentTypes

LEMMA AskQuiet ==
    ASSUME AgentTypes, AgentTypes', AskInv,
           UNCHANGED <<asked, answers, inbound, events, pump, approval, pending>>,
           pc' # "respond" \/ UNCHANGED <<pc, job>>
    PROVE  AskInv'
<1>1. \A a \in Requests : InHand(a)' => InHand(a)
  BY DEF InHand
<1>2. OneMessage' /\ \A a \in Requests : InFlight(a)' => InFlight(a)
  BY FlightKept DEF AskInv
<1> QED
  BY <1>1, <1>2, AskKept

LEMMA AskMarks ==
    ASSUME AgentTypes, AgentTypes', AskInv,
           UNCHANGED <<asked, answers, inbound, events, pump, pending>>,
           NEW S, NEW from, NEW to \in Statuses \ FinalStatus, SetStatus(S, from, to),
           pc' # "respond"
    PROVE  AskInv'
<1>1. \A a \in Requests : ~InHand(a)'
  BY DEF InHand
<1>2. OneMessage' /\ \A a \in Requests : InFlight(a)' => InFlight(a)
  BY FlightKept DEF AskInv
<1>3. \A a \in Requests : approval[a] \in Rows
  BY DEF AgentTypes
<1>4. \A a \in Requests : [approval[a] EXCEPT !.status = to].status = to
  BY <1>3 DEF Rows
<1>5. \A a \in Requests : approval'[a].status \in FinalStatus => approval'[a].status = approval[a].status
  BY <1>4 DEF SetStatus
<1> QED
  BY <1>1, <1>2, <1>5, AskKept

LEMMA AskSession ==
    ASSUME AgentTypes, AgentTypes', AskInv, Accept \/ SessionStep
    PROVE  AskInv'
<1> USE DEF store, runtime, queue, session, codex, observers, At, Goto, Finish, Return, Receive, Using
<1>1. CASE Accept
  BY <1>1, AskQuiet DEF Accept
<1>2. CASE BeginControl
  BY <1>2, AskQuiet DEF BeginControl
<1>3. CASE MarkDispatching
  <2>1. pc' # "respond"
    BY <1>3 DEF MarkDispatching
  <2> QED
    BY <1>3, <2>1, AskQuiet DEF MarkDispatching
<1>4. CASE CompleteControl
  BY <1>4, AskQuiet DEF CompleteControl
<1>5. CASE CheckThread
  BY <1>5, AskQuiet DEF CheckThread
<1>6. CASE EnsureClient
  BY <1>6, AskQuiet DEF EnsureClient
<1>7. CASE CallRuntime
  BY <1>7, AskQuiet DEF CallRuntime
<1>8. CASE EnsureLoaded
  BY <1>8, AskQuiet DEF EnsureLoaded
<1>9. CASE SaveStarting
  BY <1>9, AskQuiet DEF SaveStarting
<1>10. CASE NoteStarting
  BY <1>10, AskQuiet DEF NoteStarting
<1>11. CASE CallTurnStart
  BY <1>11, AskQuiet DEF CallTurnStart
<1>12. CASE TurnStartFails
  BY <1>12, AskQuiet DEF TurnStartFails
<1>13. CASE SaveActive
  BY <1>13, AskQuiet DEF SaveActive
<1>14. CASE NoteTurn
  BY <1>14, AskQuiet DEF NoteTurn
<1>15. CASE ClaimApproval
  <2>1. UNCHANGED <<asked, answers, inbound, events, pump, pending>> /\ pc' # "respond"
    BY <1>15 DEF ClaimApproval
  <2>2. \/ UNCHANGED approval
        \/ \E S \in SUBSET Requests, to \in {"processing", "expired"} :
              SetStatus(S, {"pending"}, to)
    BY <1>15 DEF ClaimApproval, AgentTypes
  <2>3. "processing" \in Statuses \ FinalStatus /\ "expired" \in Statuses \ FinalStatus
    BY DEF Statuses, FinalStatus
  <2> QED
    BY <2>1, <2>2, <2>3, AskQuiet, AskMarks
<1>16. CASE TakePending
  <2>1. CASE UNCHANGED pending /\ pc' = "undo"
    BY <1>16, <2>1, AskQuiet DEF TakePending
  <2>2. CASE job.req \subseteq pending /\ pending' = pending \ job.req /\ pc' = "respond" /\ job' = job
    <3>1. UNCHANGED <<asked, inbound, answers, approval, events, pump>> /\ pc # "respond"
      BY <1>16 DEF TakePending
    <3>2. OneMessage' /\ \A a \in Requests : InFlight(a)' <=> InFlight(a)
      BY <3>1, FlightKept DEF AskInv, InFlight
    <3>3. \A a \in Requests : InHand(a)' <=> a \in job.req
      BY <2>2 DEF InHand
    <3>4. OnePlace'
      BY <2>2, <3>1, <3>2, <3>3 DEF AskInv, OnePlace
    <3>5. \A a \in Requests : Unsettled(a)' => Unsettled(a)
      BY <2>2, <3>1, <3>2, <3>3 DEF Unsettled
    <3> QED
      BY <3>1, <3>2, <3>4, <3>5, AskMoves
  <2> QED
    BY <1>16, <2>1, <2>2 DEF TakePending, Taken
<1>17. CASE Answer
  <2>1. UNCHANGED <<asked, inbound, approval, pump, pending>> /\ pc' # "respond" /\ pc = "respond"
        /\ job.req \in SUBSET Requests /\ job.decision \in {"none"} \cup Decisions
    BY <1>17 DEF Answer, AgentTypes
  <2>2. \A a \in job.req : InHand(a) /\ Unsettled(a)
    BY <2>1 DEF InHand, Unsettled
  <2>3. \A a \in Requests : answers'[a] = answers[a] \/ (a \in job.req /\ Len(answers'[a]) <= 1)
    BY <1>17, <2>1, <2>2, RespondOnce DEF Answer
  <2>4. \/ events' = events
        \/ \E a \in job.req, d \in {"none"} \cup Decisions : events' = Append(events, Resolved(a, d))
    BY <1>17, <2>1 DEF Answer, Emit
  <2>5. \A a \in Requests : ~InHand(a)'
    BY <2>1 DEF InHand
  <2>6. OneMessage' /\ \A a \in Requests : InFlight(a)' <=> InFlight(a)
    BY <2>1, FlightKept DEF AskInv, InFlight
  <2>7. \A a \in job.req : a \notin pending /\ ~InFlight(a)
    BY <2>1, <2>2 DEF AskInv, OnePlace
  <2> QED
    BY <2>1, <2>2, <2>3, <2>4, <2>5, <2>6, <2>7, AskSettles
<1>18. CASE AnswerFails
  BY <1>18, AskQuiet DEF AnswerFails
<1>19. CASE MarkApprovalAmbiguous
  <2>1. "ambiguous" \in Statuses \ FinalStatus
    BY DEF Statuses, FinalStatus
  <2> QED
    BY <1>19, <2>1, AskMarks DEF MarkApprovalAmbiguous
<1> QED
  BY <1>1, <1>2, <1>3, <1>4, <1>5, <1>6, <1>7, <1>8, <1>9, <1>10, <1>11, <1>12, <1>13, <1>14,
     <1>15, <1>16, <1>17, <1>18, <1>19 DEF SessionStep

LEMMA AskConsume ==
    ASSUME AgentTypes, AgentTypes', AskInv, NEW g \in Gens, ConsumeStep(g)
    PROVE  AskInv'
<1> USE DEF store, runtime, queue, session, codex, observers
<1>1. CASE ConsumeRequest(g)
  <2> DEFINE a == Head(inbound[g]).req
  <2>1. UNCHANGED <<asked, approval, pump, pc, job>> /\ Head1(g, "request")
    BY <1>1 DEF ConsumeRequest
  <2>2. a \in Requests /\ InFlight(a) /\ \A b \in Requests : b = a => ~InFlight(b)'
    BY <2>1, FlightTaken DEF AskInv
  <2>3. OneMessage' /\ \A b \in Requests : InFlight(b)' => InFlight(b)
    BY <2>1, FlightTail DEF AskInv
  <2>4. \A b \in Requests : InHand(b)' <=> InHand(b)
    BY <2>1 DEF InHand
  <2>5. a \notin pending /\ ~InHand(a) /\ asked[a] # NoRequest
    BY <2>2 DEF AskInv, OnePlace
  <2> HIDE DEF a
  <2>6. CASE pending' = pending \cup {a} /\ Emit(Requested(a)) /\ UNCHANGED <<answers, server>>
    <3>1. OnePlace'
      BY <2>1, <2>2, <2>3, <2>4, <2>5, <2>6 DEF AskInv, OnePlace
    <3>2. \A b \in Requests : Unsettled(b)' => Unsettled(b)
      BY <2>1, <2>2, <2>3, <2>4, <2>6 DEF Unsettled
    <3>3. CASE UNCHANGED events
      BY <2>1, <2>3, <2>6, <3>1, <3>2, <3>3, AskMoves
    <3>4. CASE events' = Append(events, Requested(a))
      <4>1. Requested(a) \in Events /\ Requested(a).req = a /\ Requested(a).kind = "requested"
        BY <2>2 DEF Requested, Events
      <4>2. events \in Seq(Events)
        BY DEF AgentTypes
      <4>3. \A i \in DOMAIN events' : \/ i \in DOMAIN events /\ events'[i] = events[i]
                                      \/ i = Len(events) + 1 /\ events'[i] = Requested(a)
        BY <3>4, <4>1, <4>2, AppendFacts
      <4>4. /\ approval[a].status \notin FinalStatus
            /\ \A i \in DOMAIN events : events[i].req = a => events[i].kind = "requested"
            /\ \A i \in DOMAIN pump : pump[i].req = a => pump[i].kind = "requested"
        BY <2>2 DEF AskInv, NotYetDecided, Unsettled
      <4>5. NotYetDecided'
        BY <2>1, <2>6, <3>2, <4>1, <4>3 DEF AskInv, NotYetDecided
      <4>6. DecisionIsLast'
        BY <2>1, <4>1, <4>3, <4>4 DEF AskInv, DecisionIsLast
      <4>7. \A i \in DOMAIN pump : pump[i] \in Events
        BY EventRequests DEF AgentTypes
      <4>8. PumpIsLast'
        BY <2>1, <4>1, <4>3, <4>4, <4>7 DEF AskInv, PumpIsLast
      <4>9. AnsweredOnce'
        BY <2>6 DEF AskInv, AnsweredOnce
      <4> QED
        BY <2>3, <3>1, <4>5, <4>6, <4>8, <4>9 DEF AskInv
    <3> QED
      BY <2>6, <3>3, <3>4 DEF Emit
  <2>7. CASE Respond({a}, "decline", g) /\ UNCHANGED <<pending, events>>
    <3>1. {a} \in SUBSET Requests /\ \A b \in {a} : Unsettled(b)
      BY <2>2 DEF Unsettled
    <3>2. \A b \in Requests : answers'[b] = answers[b] \/ (b \in {a} /\ Len(answers'[b]) <= 1)
      BY <2>7, <3>1, RespondOnce
    <3> QED
      BY <2>1, <2>2, <2>3, <2>4, <2>5, <2>7, <3>1, <3>2, AskSettles
  <2> QED
    BY <1>1, <2>6, <2>7 DEF ConsumeRequest, a
<1>2. CASE ConsumeCompleted(g)
  <2>1. UNCHANGED <<asked, approval, events, pump, pc, job, answers>> /\ Head1(g, "completed")
    BY <1>2 DEF ConsumeCompleted
  <2>2. pending' \subseteq pending
    BY <1>2 DEF ConsumeCompleted
  <2>3. OneMessage' /\ \A b \in Requests : InFlight(b)' => InFlight(b)
    BY <2>1, FlightTail DEF AskInv
  <2>4. \A b \in Requests : InHand(b)' <=> InHand(b)
    BY <2>1 DEF InHand
  <2> QED
    BY <2>1, <2>2, <2>3, <2>4, AskKept
<1>3. CASE ConsumeResolved(g)
  <2> DEFINE a == Head(inbound[g]).req
  <2>1. UNCHANGED <<asked, approval, pump, pc, job, answers>> /\ Head1(g, "resolved")
        /\ pending' = pending \ {a}
    BY <1>3 DEF ConsumeResolved
  <2>2. OneMessage' /\ \A b \in Requests : InFlight(b)' => InFlight(b)
    BY <2>1, FlightTail DEF AskInv
  <2>3. \A b \in Requests : InHand(b)' <=> InHand(b)
    BY <2>1 DEF InHand
  <2>4. \/ UNCHANGED events
        \/ a \in pending /\ events' = Append(events, Resolved(a, "decline"))
    BY <1>3 DEF ConsumeResolved, Emit
  <2> HIDE DEF a
  <2>5. CASE UNCHANGED events
    BY <2>1, <2>2, <2>3, <2>5, AskKept
  <2>6. CASE a \in pending /\ events' = Append(events, Resolved(a, "decline"))
    <3>1. {a} \in SUBSET Requests /\ ~InFlight(a) /\ ~InHand(a) /\ a \in Requests
      BY <2>6 DEF AskInv, OnePlace, AgentTypes
    <3>2. \A b \in {a} : b \in pending /\ b \notin pending' /\ ~InFlight(b)' /\ ~InHand(b)'
      BY <2>1, <2>2, <2>3, <2>6, <3>1
    <3>3. "decline" \in {"none"} \cup Decisions
      BY DEF Decisions
    <3> QED
      BY <2>1, <2>2, <2>3, <2>6, <3>1, <3>2, <3>3, AskSettles
  <2> QED
    BY <2>4, <2>5, <2>6
<1>4. CASE ClientLoss(g)
  <2>1. UNCHANGED <<asked, approval, events, pump, pc, job, answers, inbound>>
    BY <1>4 DEF ClientLoss
  <2>2. pending' \subseteq pending
    BY <1>4 DEF ClientLoss
  <2>3. OneMessage' /\ \A b \in Requests : InFlight(b)' => InFlight(b)
    BY <2>1, FlightKept DEF AskInv
  <2>4. \A b \in Requests : InHand(b)' <=> InHand(b)
    BY <2>1 DEF InHand
  <2> QED
    BY <2>1, <2>2, <2>3, <2>4, AskKept
<1> QED
  BY <1>1, <1>2, <1>3, <1>4 DEF ConsumeStep

LEMMA AskTimer ==
    ASSUME AgentTypes, AgentTypes', AskInv, NEW a \in Requests, BecomesOverdue(a) \/ ExpireApproval(a)
    PROVE  AskInv'
<1> USE DEF store, runtime, queue, session, codex, observers
<1>1. CASE BecomesOverdue(a)
  BY <1>1, AskQuiet DEF BecomesOverdue
<1>2. CASE ExpireApproval(a)
  <2>1. UNCHANGED <<asked, approval, pump, pc, job, inbound>> /\ pending' = pending \ {a}
        /\ a \in pending
    BY <1>2 DEF ExpireApproval
  <2>2. OneMessage' /\ \A b \in Requests : InFlight(b)' => InFlight(b)
    BY <2>1, FlightKept DEF AskInv
  <2>3. \A b \in Requests : InHand(b)' <=> InHand(b)
    BY <2>1 DEF InHand
  <2>4. {a} \in SUBSET Requests /\ ~InFlight(a) /\ ~InHand(a)
    BY <2>1 DEF AskInv, OnePlace
  <2>5. \A b \in {a} : b \in pending /\ b \notin pending' /\ ~InFlight(b)' /\ ~InHand(b)' /\ Unsettled(b)
    BY <2>1, <2>2, <2>3, <2>4 DEF Unsettled
  <2>6. CASE UNCHANGED <<answers, server, events>>
    BY <2>1, <2>2, <2>3, <2>6, AskKept
  <2>7. CASE Declined(a)
    <3>1. \A b \in Requests : answers'[b] = answers[b] \/ (b \in {a} /\ Len(answers'[b]) <= 1)
      BY <2>4, <2>5, <2>7, RespondOnce DEF Declined
    <3>2. UNCHANGED events \/ events' = Append(events, Resolved(a, "decline"))
      BY <2>7 DEF Declined, Emit
    <3>3. "decline" \in {"none"} \cup Decisions
      BY DEF Decisions
    <3> QED
      BY <2>1, <2>2, <2>3, <2>4, <2>5, <3>1, <3>2, <3>3, AskSettles
  <2> QED
    BY <1>2, <2>6, <2>7 DEF ExpireApproval
<1> QED
  BY <1>1, <1>2

\* What updateApproval does to the rows.
LEMMA UpdateFacts ==
    ASSUME AgentTypes, NEW e \in Events, NEW version \in Versions, UpdateApproval(e, version)
    PROVE  /\ \A a \in Requests : a # e.req => approval'[a] = approval[a]
           /\ e.kind = "requested" => approval'[e.req].status = "pending"
           /\ e.kind = "resolved" =>
                 \/ approval[e.req].status = "none" /\ approval'[e.req] = approval[e.req]
                 \/ approval'[e.req].status = IF e.decision = "accept" THEN "accepted" ELSE "declined"
<1> DEFINE r == approval[e.req]
           new == [r EXCEPT !.status = IF e.decision = "accept" THEN "accepted" ELSE "declined"]
<1>1. approval \in [Requests -> Rows] /\ e.req \in Requests /\ r \in Rows
  BY DEF AgentTypes, Events
<1>2. new.status = IF e.decision = "accept" THEN "accepted" ELSE "declined"
  BY <1>1 DEF Rows
<1>3. approval' = [approval EXCEPT ![e.req] =
         IF e.kind = "requested" THEN [status |-> "pending", digest |-> version]
         ELSE IF ~Exists(r) THEN r ELSE new]
  BY DEF UpdateApproval
<1> HIDE DEF new
<1> QED
  BY <1>1, <1>2, <1>3 DEF Exists

LEMMA AskPump ==
    ASSUME AgentTypes, AgentTypes', AskInv, PublishV1 \/ PublishV11
    PROVE  /\ AskInv'
           /\ \A a \in Requests : approval[a].status \in FinalStatus
                 => approval'[a].status = approval[a].status
<1> USE DEF store, runtime, queue, session, codex, observers
<1>1. UNCHANGED <<asked, inbound, pending, pc, job, answers>>
  BY DEF PublishV1, PublishV11
<1>2. OneMessage' /\ OnePlace' /\ AnsweredOnce' /\ \A a \in Requests : Unsettled(a)' => Unsettled(a)
  BY <1>1 DEF AskInv, OneMessage, OnePlace, AnsweredOnce, Unsettled, InFlight, InHand
<1>3. events \in Seq(Events) /\ pump \in Seq(Events)
  BY DEF AgentTypes
<1>4. CASE PublishV1
  <2> DEFINE e == Head(events)
  <2>1. events # <<>> /\ UpdateApproval(e, "v1") /\ pump' = <<e>> /\ events' = Tail(events) /\ pump = <<>>
    BY <1>4 DEF PublishV1
  <2>2. e \in Events /\ e = events[1] /\ 1 \in DOMAIN events /\ e.req \in Requests
        /\ e.kind \in {"requested", "resolved"}
    BY <2>1, TypesHeads DEF Events
  <2>3. \A i \in DOMAIN events' : i \in Nat \ {0} /\ i + 1 \in DOMAIN events /\ events'[i] = events[i + 1]
    BY <1>3, <2>1, TailFacts
  <2>4. \A i \in DOMAIN pump' : pump'[i] = e
    BY <2>1
  <2>5. \A i \in DOMAIN events : events[i].req \in Requests
    BY <1>3, EventRequests
  <2> HIDE DEF e
  <2>6. /\ \A a \in Requests : a # e.req => approval'[a] = approval[a]
        /\ e.kind = "requested" => approval'[e.req].status = "pending"
        /\ e.kind = "resolved" =>
              \/ approval[e.req].status = "none" /\ approval'[e.req] = approval[e.req]
              \/ approval'[e.req].status = IF e.decision = "accept" THEN "accepted" ELSE "declined"
    BY <2>1, <2>2, UpdateFacts DEF Versions
  <2>7. approval[e.req].status \notin FinalStatus
    BY <2>2 DEF AskInv, DecisionIsLast
  <2>8. NotYetDecided'
    <3> SUFFICES ASSUME NEW a \in Requests, Unsettled(a)'
                 PROVE  /\ answers'[a] = <<>>
                        /\ approval'[a].status \notin FinalStatus
                        /\ \A i \in DOMAIN events' : events'[i].req = a => events'[i].kind = "requested"
                        /\ \A i \in DOMAIN pump' : pump'[i].req = a => pump'[i].kind = "requested"
      BY DEF NotYetDecided
    <3>1. /\ answers[a] = <<>> /\ approval[a].status \notin FinalStatus
          /\ \A i \in DOMAIN events : events[i].req = a => events[i].kind = "requested"
      BY <1>2 DEF AskInv, NotYetDecided
    <3>2. e.req = a => e.kind = "requested"
      BY <2>2, <3>1
    <3> QED
      BY <1>1, <2>3, <2>4, <2>6, <3>1, <3>2 DEF FinalStatus
  <2>9. e.kind = "resolved" => \A j \in DOMAIN events' : events'[j].req # e.req
    BY <2>2, <2>3 DEF AskInv, DecisionIsLast
  <2>10. DecisionIsLast'
    <3> SUFFICES ASSUME NEW i \in DOMAIN events'
                 PROVE  /\ approval'[events'[i].req].status \notin FinalStatus
                        /\ events'[i].kind = "resolved" => \A j \in DOMAIN events' :
                              events'[j].req = events'[i].req => j <= i
      BY DEF DecisionIsLast
    <3>1. i + 1 \in DOMAIN events /\ events'[i] = events[i + 1] /\ i \in Nat
      BY <2>3
    <3>2. events'[i].kind = "resolved" => \A j \in DOMAIN events' :
             events'[j].req = events'[i].req => j + 1 <= i + 1 /\ j \in Nat
      BY <2>3, <3>1 DEF AskInv, DecisionIsLast
    <3>3. approval[events'[i].req].status \notin FinalStatus /\ events'[i].req \in Requests
      BY <2>5, <3>1 DEF AskInv, DecisionIsLast
    <3>4. approval'[events'[i].req].status \notin FinalStatus
      BY <2>2, <2>6, <2>9, <3>3 DEF FinalStatus
    <3> QED
      BY <3>1, <3>2, <3>4
  <2>11. PumpIsLast'
    BY <2>2, <2>4, <2>6, <2>7, <2>9 DEF PumpIsLast, FinalStatus
  <2> QED
    BY <1>2, <2>2, <2>6, <2>7, <2>8, <2>10, <2>11 DEF AskInv
<1>5. CASE PublishV11
  <2> DEFINE e == Head(pump)
  <2>1. pump # <<>> /\ UpdateApproval(e, "v11") /\ pump' = <<>> /\ events' = events
    BY <1>5 DEF PublishV11
  <2>2. e \in Events /\ e = pump[1] /\ 1 \in DOMAIN pump /\ e.req \in Requests
        /\ e.kind \in {"requested", "resolved"}
    BY <2>1, TypesHeads DEF Events
  <2>3. DOMAIN pump' = {}
    BY <2>1
  <2>4. \A i \in DOMAIN events : events[i].req \in Requests
    BY <1>3, EventRequests
  <2> HIDE DEF e
  <2>5. /\ \A a \in Requests : a # e.req => approval'[a] = approval[a]
        /\ e.kind = "requested" => approval'[e.req].status = "pending"
        /\ e.kind = "resolved" =>
              \/ approval[e.req].status = "none" /\ approval'[e.req] = approval[e.req]
              \/ approval'[e.req].status = IF e.decision = "accept" THEN "accepted" ELSE "declined"
    BY <2>1, <2>2, UpdateFacts DEF Versions
  <2>6. /\ e.kind = "requested" => approval[e.req].status \notin FinalStatus
        /\ e.kind = "resolved" =>
              /\ \A j \in DOMAIN events : events[j].req # e.req
              /\ approval[e.req].status \in FinalStatus
                    => approval[e.req].status = IF e.decision = "accept" THEN "accepted" ELSE "declined"
    BY <2>2 DEF AskInv, PumpIsLast
  <2>7. NotYetDecided'
    <3> SUFFICES ASSUME NEW a \in Requests, Unsettled(a)'
                 PROVE  /\ answers'[a] = <<>>
                        /\ approval'[a].status \notin FinalStatus
                        /\ \A i \in DOMAIN events' : events'[i].req = a => events'[i].kind = "requested"
                        /\ \A i \in DOMAIN pump' : pump'[i].req = a => pump'[i].kind = "requested"
      BY DEF NotYetDecided
    <3>1. /\ answers[a] = <<>> /\ approval[a].status \notin FinalStatus
          /\ \A i \in DOMAIN events : events[i].req = a => events[i].kind = "requested"
          /\ e.req = a => e.kind = "requested"
      BY <1>2, <2>2 DEF AskInv, NotYetDecided
    <3> QED
      BY <1>1, <2>1, <2>3, <2>5, <3>1 DEF FinalStatus
  <2>8. DecisionIsLast'
    BY <2>1, <2>2, <2>4, <2>5, <2>6 DEF AskInv, DecisionIsLast, FinalStatus
  <2>9. PumpIsLast'
    BY <2>3 DEF PumpIsLast
  <2> QED
    BY <1>2, <2>2, <2>5, <2>6, <2>7, <2>8, <2>9 DEF AskInv, FinalStatus
<1> QED
  BY <1>4, <1>5

LEMMA AskCodex ==
    ASSUME AgentTypes, AgentTypes', AskInv, CodexStep
    PROVE  AskInv'
<1> USE DEF store, runtime, queue, session, codex, observers
<1>1. UNCHANGED <<approval, events, pump, pc, job, answers, pending>>
  BY DEF CodexStep, CodexAsks, CodexWithdraws, CodexCompletes, CodexExits
<1>2. \A b \in Requests : InHand(b)' <=> InHand(b)
  BY <1>1 DEF InHand
<1>3. server.gen \in Gens /\ server.turns \in SUBSET Nat
  BY DEF AgentTypes, Processes
<1>4. ASSUME NEW a \in Requests, CodexAsks(a) PROVE AskInv'
  <2> DEFINE m == [kind |-> "request", req |-> a, turn |-> 0]
  <2>1. asked[a] = NoRequest /\ inbound' = [inbound EXCEPT ![server.gen] = Append(@, m)]
    BY <1>4 DEF CodexAsks, Notify
  <2>2. PICK t \in server.turns : asked' = [asked EXCEPT ![a] = [turn |-> t, gen |-> server.gen]]
    BY <1>4 DEF CodexAsks
  <2>3. asked'[a] # NoRequest /\ \A b \in Requests : b # a => asked'[b] = asked[b]
    <3>1. asked \in [Requests -> [turn : Nat, gen : 0..MaxGens]]
      BY DEF AgentTypes
    <3>2. asked'[a] = [turn |-> t, gen |-> server.gen] /\ \A b \in Requests : b # a => asked'[b] = asked[b]
      BY <2>2, <3>1
    <3>3. asked'[a].gen # NoRequest.gen
      BY <1>3, <3>2 DEF NoRequest, Gens
    <3> QED
      BY <3>2, <3>3
  <2>4. m \in Messages /\ m.req = a /\ m.kind = "request"
    BY DEF Messages
  <2>5. ~InFlight(a) /\ a \notin pending /\ ~InHand(a)
    BY <2>1 DEF AskInv, OnePlace
  <2> HIDE DEF m
  <2>6. OneMessage' /\ \A b \in Requests : InFlight(b)' => InFlight(b) \/ b = a
    BY <2>1, <2>4, <2>5, FlightAppend DEF AskInv
  <2>7. OnePlace'
    BY <1>1, <1>2, <2>3, <2>5, <2>6 DEF AskInv, OnePlace
  <2>8. \A b \in Requests : Unsettled(b)' => Unsettled(b)
    BY <1>1, <1>2, <2>1, <2>3, <2>6 DEF Unsettled
  <2> QED
    BY <1>1, <2>6, <2>7, <2>8, AskMoves
<1>5. ASSUME NEW m \in Messages, m.kind # "request", UNCHANGED asked,
             inbound' = [inbound EXCEPT ![server.gen] = Append(@, m)]
      PROVE  AskInv'
  <2>1. OneMessage' /\ \A b \in Requests : InFlight(b)' => InFlight(b)
    BY <1>5, FlightAppend DEF AskInv
  <2> QED
    BY <1>1, <1>2, <1>5, <2>1, AskKept
<1>6. ASSUME NEW a \in Requests, CodexWithdraws(a) PROVE AskInv'
  <2> DEFINE m == [kind |-> "resolved", req |-> a, turn |-> 0]
  <2>1. m \in Messages /\ m.kind # "request"
    BY DEF Messages
  <2>2. UNCHANGED asked /\ inbound' = [inbound EXCEPT ![server.gen] = Append(@, m)]
    BY <1>6 DEF CodexWithdraws, Notify
  <2> QED
    BY <1>5, <2>1, <2>2
<1>7. CASE CodexCompletes
  <2>1. PICK t \in server.turns : inbound' = [inbound EXCEPT ![server.gen] =
                           Append(@, [kind |-> "completed", req |-> 0, turn |-> t])]
    BY <1>7 DEF CodexCompletes
  <2>2. [kind |-> "completed", req |-> 0, turn |-> t] \in Messages
        /\ [kind |-> "completed", req |-> 0, turn |-> t].kind # "request"
    BY <1>3 DEF Messages
  <2>3. UNCHANGED asked
    BY <1>7 DEF CodexCompletes
  <2> QED
    BY <1>5, <2>1, <2>2, <2>3
<1>8. CASE CodexExits
  BY <1>8, AskQuiet DEF CodexExits
<1> QED
  BY <1>4, <1>6, <1>7, <1>8 DEF CodexStep

LEMMA AskHost ==
    ASSUME AgentTypes, AgentTypes', AskInv, HostStep
    PROVE  AskInv'
<1> USE DEF store, runtime, queue, session, codex, observers
<1>1. CASE Shutdown
  <2>1. UNCHANGED <<asked, approval, inbound, answers>> /\ events' = <<>> /\ pump' = <<>>
        /\ pc' = "receive"
    BY <1>1 DEF Shutdown, Receive
  <2>2. pending' \subseteq pending
    BY <1>1 DEF Shutdown, Cancelled
  <2>3. OneMessage' /\ \A b \in Requests : InFlight(b)' => InFlight(b)
    BY <2>1, FlightKept DEF AskInv
  <2>4. \A b \in Requests : ~InHand(b)'
    BY <2>1 DEF InHand
  <2> QED
    BY <2>1, <2>2, <2>3, <2>4, AskKept
<1>2. ASSUME Stopped
      PROVE  /\ events' = <<>> /\ pump' = <<>> /\ pending' = {} /\ OneMessage'
             /\ \A b \in Requests : ~InFlight(b)' /\ ~InHand(b)'
  <2>1. /\ events' = <<>> /\ pump' = <<>> /\ pending' = {} /\ pc' = "receive"
        /\ inbound' = [g \in Gens |-> <<>>]
    BY <1>2 DEF Stopped, Receive
  <2> QED
    BY <2>1, FlightNone DEF InHand
<1>3. CASE CloseRuntime
  <2>1. UNCHANGED <<asked, approval>> /\ Stopped
    BY <1>3 DEF CloseRuntime
  <2>2. pending \in SUBSET Requests /\ \A a \in pending : answers[a] = <<>>
    BY DEF AgentTypes, AskInv, NotYetDecided, Unsettled
  <2>3. Len(Append(<<>>, [decision |-> "decline", gen |-> client])) = 1
    OBVIOUS
  <2>4. \A a \in Requests : answers'[a] = answers[a] \/ (a \in pending /\ Len(answers'[a]) <= 1)
    BY <1>3, <2>2, <2>3 DEF CloseRuntime
  <2> QED
    BY <1>2, <2>1, <2>2, <2>4, AskSettles
<1>4. CASE Crash
  <2>1. UNCHANGED <<asked, approval, answers>> /\ Stopped
    BY <1>4 DEF Crash
  <2> QED
    BY <1>2, <2>1, AskKept
<1>5. CASE Start
  BY <1>5, AskQuiet DEF Start
<1>6. CASE ReconcileDefers
  BY <1>6, AskQuiet DEF ReconcileDefers
<1>7. CASE ReconcileTerminal
  BY <1>7, AskQuiet DEF ReconcileTerminal, Goto
<1>8. CASE ReconcileAmbiguous
  <2>1. "ambiguous" \in Statuses \ FinalStatus
    BY DEF Statuses, FinalStatus
  <2> QED
    BY <1>8, <2>1, AskMarks DEF ReconcileAmbiguous, Goto
<1>9. CASE ReconcileSaves
  BY <1>9, AskQuiet DEF ReconcileSaves, Receive
<1>10. CASE RelayClosed
  <2>1. UNCHANGED <<asked, approval, inbound, answers, events, pump>> /\ pc' = "receive"
    BY <1>10 DEF RelayClosed, Receive
  <2>2. pending' \subseteq pending
    BY <1>10 DEF RelayClosed, Cancelled
  <2>3. OneMessage' /\ \A b \in Requests : InFlight(b)' => InFlight(b)
    BY <2>1, FlightKept DEF AskInv
  <2>4. \A b \in Requests : ~InHand(b)'
    BY <2>1 DEF InHand
  <2> QED
    BY <2>1, <2>2, <2>3, <2>4, AskKept
<1> QED
  BY <1>1, <1>3, <1>4, <1>5, <1>6, <1>7, <1>8, <1>9, <1>10 DEF HostStep

LEMMA AskInit == Init => AskInv
<1> SUFFICES ASSUME Init PROVE AskInv
  OBVIOUS
<1>1. /\ DOMAIN events = {} /\ DOMAIN pump = {} /\ pending = {} /\ pc = "receive"
      /\ \A g \in Gens : DOMAIN inbound[g] = {}
      /\ \A a \in Requests : answers[a] = <<>> /\ approval[a].status = "none"
  BY DEF Init, NoApproval
<1>2. \A a \in Requests : ~InFlight(a) /\ ~InHand(a)
  BY <1>1 DEF InFlight, InHand
<1> QED
  BY <1>1, <1>2 DEF AskInv, OnePlace, OneMessage, NotYetDecided, DecisionIsLast, PumpIsLast,
     AnsweredOnce, FinalStatus

LEMMA AskNext ==
    ASSUME AgentTypes, AgentTypes', AskInv, [Next]_vars
    PROVE  AskInv'
<1>1. CASE UNCHANGED vars
  BY <1>1, AskQuiet DEF vars
<1> QED
  BY <1>1, AskSession, AskConsume, AskTimer, AskPump, AskCodex, AskHost DEF Next

\* Only a claim, a mark and the pump touch the rows.
LEMMA RowsKept ==
    ASSUME AgentTypes, AgentTypes', AskInv, [Next]_vars
    PROVE  \A a \in Requests : approval[a].status \in FinalStatus
              => approval'[a].status = approval[a].status
<1> USE DEF store, runtime, queue, session, codex, observers
<1>1. CASE PublishV1 \/ PublishV11
  BY <1>1, AskPump
<1>2. ASSUME NEW S, NEW from \in SUBSET (Statuses \ FinalStatus), NEW to, SetStatus(S, from, to)
      PROVE  \A a \in Requests : approval[a].status \in FinalStatus
                => approval'[a].status = approval[a].status
  BY <1>2 DEF SetStatus
<1>3. CASE ClaimApproval
  <2>1. UNCHANGED approval \/ \E S \in SUBSET Requests, to \in {"processing", "expired"} :
           SetStatus(S, {"pending"}, to)
    BY <1>3 DEF ClaimApproval, AgentTypes
  <2>2. {"pending"} \in SUBSET (Statuses \ FinalStatus)
    BY DEF Statuses, FinalStatus
  <2> QED
    BY <1>2, <2>1, <2>2
<1>4. CASE MarkApprovalAmbiguous
  <2>1. {"processing"} \in SUBSET (Statuses \ FinalStatus)
    BY DEF Statuses, FinalStatus
  <2> QED
    BY <1>2, <1>4, <2>1 DEF MarkApprovalAmbiguous
<1>5. CASE ReconcileAmbiguous
  <2>1. Undecided \in SUBSET (Statuses \ FinalStatus)
    BY DEF Statuses, FinalStatus, Undecided
  <2> QED
    BY <1>2, <1>5, <2>1 DEF ReconcileAmbiguous
<1>6. CASE UNCHANGED approval
  BY <1>6
<1>7. \/ PublishV1 \/ PublishV11 \/ ClaimApproval \/ MarkApprovalAmbiguous \/ ReconcileAmbiguous
      \/ UNCHANGED approval
  <2>1. CASE UNCHANGED vars
    BY <2>1 DEF vars
  <2>2. CASE Accept \/ SessionStep
    BY <2>2 DEF Accept, SessionStep, BeginControl, MarkDispatching, CompleteControl, CheckThread,
       EnsureClient, CallRuntime, EnsureLoaded, SaveStarting, NoteStarting, CallTurnStart,
       TurnStartFails, SaveActive, NoteTurn, TakePending, Answer, AnswerFails
  <2>3. CASE \E g \in Gens : ConsumeStep(g)
    BY <2>3 DEF ConsumeStep, ConsumeRequest, ConsumeCompleted, ConsumeResolved, ClientLoss
  <2>4. CASE \E a \in Requests : BecomesOverdue(a) \/ ExpireApproval(a)
    BY <2>4 DEF BecomesOverdue, ExpireApproval
  <2>5. CASE CodexStep
    BY <2>5 DEF CodexStep, CodexAsks, CodexWithdraws, CodexCompletes, CodexExits
  <2>6. CASE HostStep
    BY <2>6 DEF HostStep, RelayClosed, Shutdown, CloseRuntime, Crash, Start, ReconcileDefers, ReconcileTerminal,
       ReconcileSaves
  <2> QED
    BY <2>1, <2>2, <2>3, <2>4, <2>5, <2>6 DEF Next
<1> QED
  BY <1>1, <1>3, <1>4, <1>5, <1>6, <1>7

(* A request for approval is answered at most once: the control that       *)
(* resolves it, the timer that declines it, the refusal of a late request  *)
(* and the Close of the Runtime all take it from one place (the message,   *)
(* Runtime.pending or the handler) under Runtime.mu, and nothing puts it   *)
(* back there.                                                             *)
THEOREM ApprovalAnsweredOnce == Spec => []AnsweredOnce
<1>1. Init => AgentTypes /\ AskInv
  BY TypesInit, AskInit
<1>2. (AgentTypes /\ AskInv) /\ [Next]_vars => (AgentTypes /\ AskInv)'
  BY TypesNext, AskNext
<1>3. AgentTypes /\ AskInv => AnsweredOnce
  BY DEF AskInv
<1> QED
  BY <1>1, <1>2, <1>3, PTL DEF Spec

(* A decision the store has recorded is never changed: the events of a     *)
(* request reach the pump with its decision last, so that neither of the   *)
(* two publications of an earlier event overwrites it, and claims, marks   *)
(* and recovery look at the status first.                                  *)
THEOREM RecordedDecisionIsFinal == Spec => DecisionIsFinal
<1>1. Init => AgentTypes /\ AskInv
  BY TypesInit, AskInit
<1>2. (AgentTypes /\ AskInv) /\ [Next]_vars => (AgentTypes /\ AskInv)'
  BY TypesNext, AskNext
<1>3. (AgentTypes /\ AskInv) /\ (AgentTypes /\ AskInv)' /\ [Next]_vars
         => [\A a \in Requests : approval[a].status \in {"accepted", "declined"}
                => approval'[a].status = approval[a].status]_vars
  BY RowsKept DEF FinalStatus
<1> QED
  BY <1>1, <1>2, <1>3, PTL DEF Spec, DecisionIsFinal

-----------------------------------------------------------------------------
(* TurnInv.                                                                *)

\* A step that neither starts nor completes a Turn, nor makes the row idle.
LEMMA TurnKept ==
    ASSUME TurnInv, UNCHANGED inbound,
           server'.turns = server.turns \/ server'.turns = {},
           node'.up = node.up \/ (node'.up = "closing" /\ pc' = "receive"),
           thread' = thread \/ thread'.state # "idle",
           \/ pc' \notin {"ensure", "load", "save", "note", "call"}
           \/ UNCHANGED <<pc, job>>
           \/ UNCHANGED job /\ pc \in {"ensure", "load"} /\ pc' \in {"load", "save"}
           \/ job'.op # "start"
    PROVE  TurnInv'
<1>1. NoneCompleted' <=> NoneCompleted
  BY DEF NoneCompleted, Completed
<1>2. NoTurn => NoTurn'
  BY <1>1 DEF NoTurn
<1>3. OneTurn'
  BY <1>1 DEF TurnInv, OneTurn, Completed
<1>4. IdleHasNone' /\ DownHasNone'
  BY <1>2 DEF TurnInv, IdleHasNone, DownHasNone
<1>5. StartHasNone'
  BY <1>2 DEF TurnInv, StartHasNone
<1> QED
  BY <1>3, <1>4, <1>5 DEF TurnInv

LEMMA TurnSession ==
    ASSUME AgentTypes, AgentTypes', TurnInv, Accept \/ SessionStep
    PROVE  TurnInv'
<1> USE DEF store, runtime, queue, session, codex, observers, At, Goto, Finish, Return, Receive, Using
<1>1. CASE Accept
  BY <1>1, TurnKept DEF Accept
<1>2. CASE BeginControl
  BY <1>2, TurnKept DEF BeginControl
<1>3. CASE MarkDispatching
  <2>1. UNCHANGED <<inbound, server, node, thread>>
    BY <1>3 DEF MarkDispatching
  <2>2. pc' \notin {"ensure", "load", "save", "note", "call"} \/ job'.op # "start"
    BY <1>3 DEF MarkDispatching
  <2> QED
    BY <2>1, <2>2, TurnKept
<1>4. CASE CompleteControl
  BY <1>4, TurnKept DEF CompleteControl
<1>5. CASE CheckThread
  <2>1. CASE pc' = "complete"
    BY <1>5, <2>1, TurnKept DEF CheckThread
  <2>2. CASE pc' = "ensure" /\ job.op # "start"
    BY <1>5, <2>2, TurnKept DEF CheckThread
  <2>3. CASE pc' = "ensure" /\ job.op = "start"
    <3>1. UNCHANGED <<inbound, server, node, thread, job>> /\ node.up = "running"
      BY <1>5 DEF CheckThread
    <3>2. thread.state = "idle"
      BY <1>5, <2>3 DEF CheckThread, ThreadReady
    <3>3. NoTurn
      BY <3>1, <3>2 DEF TurnInv, IdleHasNone
    <3> QED
      BY <2>3, <3>1, <3>3 DEF TurnInv, OneTurn, IdleHasNone, StartHasNone, DownHasNone, NoTurn,
         NoneCompleted, Completed
  <2> QED
    BY <1>5, <2>1, <2>2, <2>3 DEF CheckThread
<1>6. CASE EnsureClient
  <2>1. UNCHANGED <<inbound, node, thread, job>> /\ pc = "ensure" /\ pc' \in {"load", "call", "complete"}
        /\ (pc' = "call" => job.op # "start")
    BY <1>6 DEF EnsureClient
  <2>2. server'.turns = server.turns \/ server'.turns = {}
    BY <1>6 DEF EnsureClient, Spawned, Process
  <2> QED
    BY <2>1, <2>2, TurnKept
<1>7. CASE CallRuntime
  BY <1>7, TurnKept DEF CallRuntime
<1>8. CASE EnsureLoaded
  BY <1>8, TurnKept DEF EnsureLoaded
<1>9. CASE SaveStarting
  <2>1. UNCHANGED <<inbound, server, node, job>> /\ thread'.state = "starting" /\ pc = "save" /\ pc' = "note"
    BY <1>9 DEF SaveStarting
  <2>2. (NoTurn' <=> NoTurn) /\ (OneTurn' <=> OneTurn)
    BY <2>1 DEF NoTurn, OneTurn, NoneCompleted, Completed
  <2> QED
    BY <2>1, <2>2 DEF TurnInv, IdleHasNone, StartHasNone, DownHasNone
<1>10. CASE NoteStarting
  <2>1. UNCHANGED <<inbound, server, node, job, thread>> /\ pc = "note" /\ pc' = "call"
    BY <1>10 DEF NoteStarting
  <2>2. (NoTurn' <=> NoTurn) /\ (OneTurn' <=> OneTurn)
    BY <2>1 DEF NoTurn, OneTurn, NoneCompleted, Completed
  <2> QED
    BY <2>1, <2>2 DEF TurnInv, IdleHasNone, StartHasNone, DownHasNone
<1>11. CASE CallTurnStart
  <2>1. UNCHANGED <<inbound, node, job, thread>> /\ pc' = "wait" /\ node.up = "running"
        /\ pc = "call" /\ job.op = "start"
        /\ server' = [server EXCEPT !.last = @ + 1, !.turns = @ \cup {server.last + 1}]
    BY <1>11 DEF CallTurnStart
  <2>2. NoTurn /\ thread.state # "idle"
    BY <2>1 DEF TurnInv, StartHasNone
  <2>3. server'.turns = {server.last + 1}
    BY <2>1, <2>2 DEF NoTurn, AgentTypes, Processes
  <2>4. NoneCompleted' /\ NoneCompleted
    BY <2>1, <2>2 DEF NoTurn, NoneCompleted, Completed
  <2>5. OneTurn'
    BY <2>3, <2>4 DEF OneTurn, NoneCompleted
  <2> QED
    BY <2>1, <2>2, <2>5 DEF TurnInv, IdleHasNone, StartHasNone, DownHasNone
<1>12. CASE TurnStartFails
  <2>1. UNCHANGED <<inbound, node, job, server>> /\ pc' = "complete" /\ node.up = "running"
    BY <1>12 DEF TurnStartFails
  <2>2. CASE thread'.state = "needs_reconcile"
    BY <2>1, <2>2, TurnKept
  <2>3. CASE pc = "call" /\ job.op = "start"
    <3>1. NoTurn
      BY <2>3 DEF TurnInv, StartHasNone
    <3> QED
      BY <2>1, <3>1 DEF TurnInv, OneTurn, IdleHasNone, StartHasNone, DownHasNone, NoTurn,
         NoneCompleted, Completed
  <2> QED
    BY <1>12, <2>2, <2>3 DEF TurnStartFails
<1>13. CASE SaveActive
  <2>1. UNCHANGED <<inbound, node, job, server>> /\ pc' = "noteTurn" /\ thread'.state = "active"
    BY <1>13 DEF SaveActive
  <2> QED
    BY <2>1, TurnKept
<1>14. CASE NoteTurn
  BY <1>14, TurnKept DEF NoteTurn
<1>15. CASE ClaimApproval
  <2>1. UNCHANGED <<inbound, node, job, server, thread>> /\ pc' \in {"resolve", "complete"}
    BY <1>15 DEF ClaimApproval
  <2> QED
    BY <2>1, TurnKept
<1>16. CASE TakePending
  <2>1. UNCHANGED <<inbound, node, job, server, thread>> /\ pc' \in {"respond", "undo"}
    BY <1>16 DEF TakePending
  <2> QED
    BY <2>1, TurnKept
<1>17. CASE Answer
  <2>1. UNCHANGED <<inbound, node, job, thread>> /\ pc' = "complete"
    BY <1>17 DEF Answer
  <2>2. server'.turns = server.turns
    BY <1>17 DEF Answer, Respond, AgentTypes, Processes
  <2> QED
    BY <2>1, <2>2, TurnKept
<1>18. CASE AnswerFails
  BY <1>18, TurnKept DEF AnswerFails
<1>19. CASE MarkApprovalAmbiguous
  BY <1>19, TurnKept DEF MarkApprovalAmbiguous
<1> QED
  BY <1>1, <1>2, <1>3, <1>4, <1>5, <1>6, <1>7, <1>8, <1>9, <1>10, <1>11, <1>12, <1>13, <1>14,
     <1>15, <1>16, <1>17, <1>18, <1>19 DEF SessionStep

LEMMA TurnTail ==
    ASSUME AgentTypes, OneTurn, NEW g \in Gens, NEW kind, Head1(g, kind),
           server'.turns = server.turns
    PROVE  /\ OneTurn'
           /\ NoneCompleted => NoneCompleted'
           /\ kind = "completed" => server.turns = {} /\ NoneCompleted'
<1>1. /\ inbound[g] \in Seq(Messages) /\ inbound[g] # <<>>
      /\ Head(inbound[g]) = inbound[g][1] /\ 1 \in DOMAIN inbound[g]
      /\ Head(inbound[g]).kind = kind
      /\ inbound'[g] = Tail(inbound[g])
      /\ \A h \in Gens : h # g => inbound'[h] = inbound[h]
  BY TypesHead
<1>2. \A i \in DOMAIN inbound'[g] : /\ i \in Nat \ {0} /\ i + 1 \in DOMAIN inbound[g]
                                    /\ inbound'[g][i] = inbound[g][i + 1] /\ i + 1 # 1
  BY <1>1, TailFacts
<1> DEFINE f(h, i) == IF h = g THEN i + 1 ELSE i
<1>3. \A h \in Gens : \A i \in DOMAIN inbound'[h] :
         f(h, i) \in DOMAIN inbound[h] /\ inbound'[h][i] = inbound[h][f(h, i)]
  BY <1>1, <1>2
<1>4. \A i, j \in DOMAIN inbound'[g] : i + 1 = j + 1 => i = j
  BY <1>2
<1>5. NoneCompleted => NoneCompleted'
  BY <1>3 DEF NoneCompleted, Completed
<1>6. \A h, k \in Gens : \A i \in DOMAIN inbound'[h], j \in DOMAIN inbound'[k] :
         inbound'[h][i].kind = "completed" /\ inbound'[k][j].kind = "completed" => h = k /\ i = j
  BY <1>3, <1>4 DEF OneTurn, Completed
<1>7. OneTurn'
  BY <1>5, <1>6 DEF OneTurn, Completed
<1>8. ASSUME kind = "completed" PROVE server.turns = {} /\ NoneCompleted'
  <2>1. Completed(g, 1)
    BY <1>1, <1>8 DEF Completed
  <2>2. server.turns = {}
    BY <1>1, <2>1 DEF OneTurn, NoneCompleted
  <2>3. ASSUME NEW h \in Gens, NEW i \in DOMAIN inbound'[h], inbound'[h][i].kind = "completed"
        PROVE  FALSE
    <3>1. f(h, i) \in DOMAIN inbound[h] /\ Completed(h, f(h, i))
      BY <1>3, <2>3 DEF Completed
    <3>2. h = g /\ f(h, i) = 1
      BY <1>1, <2>1, <3>1 DEF OneTurn
    <3> QED
      BY <1>2, <3>2
  <2> QED
    BY <2>2, <2>3 DEF NoneCompleted, Completed
<1> QED
  BY <1>5, <1>7, <1>8

LEMMA TurnConsume ==
    ASSUME AgentTypes, AgentTypes', TurnInv, NEW g \in Gens, ConsumeStep(g)
    PROVE  TurnInv'
<1> USE DEF store, runtime, queue, session, codex, observers
<1>1. ASSUME NEW kind, Head1(g, kind), UNCHANGED <<node, thread, pc, job>>, server'.turns = server.turns
      PROVE  TurnInv'
  <2>1. OneTurn' /\ (NoneCompleted => NoneCompleted')
    BY <1>1, TurnTail DEF TurnInv
  <2>2. NoTurn => NoTurn'
    BY <1>1, <2>1 DEF NoTurn
  <2> QED
    BY <1>1, <2>1, <2>2 DEF TurnInv, IdleHasNone, StartHasNone, DownHasNone
<1>2. CASE ConsumeRequest(g)
  <2>1. UNCHANGED <<node, thread, pc, job>> /\ Head1(g, "request")
    BY <1>2 DEF ConsumeRequest
  <2>2. server'.turns = server.turns
    BY <1>2 DEF ConsumeRequest, Respond, AgentTypes, Processes
  <2> QED
    BY <1>1, <2>1, <2>2
<1>3. CASE ConsumeCompleted(g)
  <2>1. UNCHANGED <<node, pc, job, server>> /\ Head1(g, "completed")
    BY <1>3 DEF ConsumeCompleted
  <2>2. OneTurn' /\ NoTurn' /\ ~NoneCompleted
    <3>1. OneTurn' /\ server.turns = {} /\ NoneCompleted'
      BY <2>1, TurnTail DEF TurnInv
    <3>2. 1 \in DOMAIN inbound[g] /\ inbound[g][1].kind = "completed"
      BY <2>1, TypesHead
    <3> QED
      BY <2>1, <3>1, <3>2 DEF NoTurn, NoneCompleted, Completed
  <2>3. ~(job.op = "start" /\ pc \in {"ensure", "load", "save", "note", "call"})
    BY <2>2 DEF TurnInv, StartHasNone, NoTurn
  <2> QED
    BY <2>1, <2>2, <2>3 DEF TurnInv, IdleHasNone, StartHasNone, DownHasNone
<1>4. CASE ConsumeResolved(g)
  <2>1. UNCHANGED <<node, thread, pc, job, server>> /\ Head1(g, "resolved")
    BY <1>4 DEF ConsumeResolved
  <2> QED
    BY <1>1, <2>1
<1>5. CASE ClientLoss(g)
  <2>1. UNCHANGED <<node, pc, job, server, inbound>>
    BY <1>5 DEF ClientLoss
  <2>2. thread' = thread \/ thread'.state # "idle"
    BY <1>5 DEF ClientLoss
  <2> QED
    BY <2>1, <2>2, TurnKept
<1> QED
  BY <1>2, <1>3, <1>4, <1>5 DEF ConsumeStep

LEMMA TurnTimer ==
    ASSUME AgentTypes, AgentTypes', TurnInv,
           \/ \E a \in Requests : BecomesOverdue(a) \/ ExpireApproval(a)
           \/ PublishV1 \/ PublishV11
    PROVE  TurnInv'
<1> USE DEF store, runtime, queue, session, codex, observers
<1>1. UNCHANGED <<node, thread, pc, job, inbound>>
  BY DEF BecomesOverdue, ExpireApproval, PublishV1, PublishV11
<1>2. server'.turns = server.turns
  BY DEF BecomesOverdue, ExpireApproval, PublishV1, PublishV11, Declined, Respond, AgentTypes, Processes
<1> QED
  BY <1>1, <1>2, TurnKept

LEMMA TurnCodex ==
    ASSUME AgentTypes, AgentTypes', TurnInv, CodexStep
    PROVE  TurnInv'
<1> USE DEF store, runtime, queue, session, codex, observers
<1>1. UNCHANGED <<node, thread, pc, job>>
  BY DEF CodexStep, CodexAsks, CodexWithdraws, CodexCompletes, CodexExits
<1>2. ASSUME NEW m \in Messages, inbound' = [inbound EXCEPT ![server.gen] = Append(@, m)]
      PROVE  /\ server.gen \in Gens
             /\ \A h \in Gens : \A i \in DOMAIN inbound'[h] :
                  \/ i \in DOMAIN inbound[h] /\ inbound'[h][i] = inbound[h][i]
                  \/ h = server.gen /\ i = Len(inbound[h]) + 1 /\ inbound'[h][i] = m
  <2> DEFINE k == server.gen
  <2>1. /\ k \in Gens /\ inbound[k] \in Seq(Messages) /\ inbound'[k] = Append(inbound[k], m)
        /\ \A h \in Gens : h # k => inbound'[h] = inbound[h]
    BY <1>2, TypesAppend
  <2>2. \A i \in DOMAIN inbound'[k] :
           \/ i \in DOMAIN inbound[k] /\ inbound'[k][i] = inbound[k][i]
           \/ i = Len(inbound[k]) + 1 /\ inbound'[k][i] = m
    BY <2>1, AppendFacts
  <2> QED
    BY <2>1, <2>2
<1>3. ASSUME NEW m \in Messages, inbound' = [inbound EXCEPT ![server.gen] = Append(@, m)],
             m.kind # "completed", server'.turns = server.turns
      PROVE  TurnInv'
  <2>1. \A h \in Gens : \A i \in DOMAIN inbound'[h] : inbound'[h][i].kind = "completed"
           => i \in DOMAIN inbound[h] /\ inbound[h][i].kind = "completed"
    BY <1>2, <1>3
  <2>2. NoneCompleted => NoneCompleted'
    BY <2>1 DEF NoneCompleted, Completed
  <2>3. OneTurn'
    BY <1>3, <2>1, <2>2 DEF TurnInv, OneTurn, Completed
  <2>4. NoTurn => NoTurn'
    BY <1>3, <2>2 DEF NoTurn
  <2> QED
    BY <1>1, <2>3, <2>4 DEF TurnInv, IdleHasNone, StartHasNone, DownHasNone
<1>4. server \in Processes
  BY DEF AgentTypes
<1>5. ASSUME NEW a \in Requests, CodexAsks(a) PROVE TurnInv'
  <2> DEFINE m == [kind |-> "request", req |-> a, turn |-> 0]
  <2>1. m \in Messages /\ m.kind # "completed"
    BY DEF Messages
  <2>2. server'.turns = server.turns /\ inbound' = [inbound EXCEPT ![server.gen] = Append(@, m)]
    BY <1>4, <1>5 DEF CodexAsks, Notify, Processes
  <2> QED
    BY <1>3, <2>1, <2>2
<1>6. ASSUME NEW a \in Requests, CodexWithdraws(a) PROVE TurnInv'
  <2> DEFINE m == [kind |-> "resolved", req |-> a, turn |-> 0]
  <2>1. m \in Messages /\ m.kind # "completed"
    BY DEF Messages
  <2>2. server'.turns = server.turns /\ inbound' = [inbound EXCEPT ![server.gen] = Append(@, m)]
    BY <1>4, <1>6 DEF CodexWithdraws, Notify, Processes
  <2> QED
    BY <1>3, <2>1, <2>2
<1>7. CASE CodexCompletes
  <2>1. PICK t \in server.turns :
          /\ server' = [server EXCEPT !.turns = @ \ {t}, !.open = @ \ OfTurn(t)]
          /\ inbound' = [inbound EXCEPT ![server.gen] =
                           Append(@, [kind |-> "completed", req |-> 0, turn |-> t])]
    BY <1>7 DEF CodexCompletes
  <2>2. server'.turns = {} /\ NoneCompleted /\ server.turns # {}
    BY <1>4, <2>1 DEF TurnInv, OneTurn, Processes
  <2>3. [kind |-> "completed", req |-> 0, turn |-> t] \in Messages
    BY <1>4 DEF Messages, Processes
  <2>4. \A h \in Gens : \A i \in DOMAIN inbound'[h] : inbound'[h][i].kind = "completed"
           => h = server.gen /\ i = Len(inbound[h]) + 1
    BY <1>2, <2>1, <2>2, <2>3 DEF NoneCompleted, Completed
  <2>5. OneTurn'
    BY <2>2, <2>4 DEF OneTurn, Completed
  <2>6. ~NoTurn
    BY <2>2 DEF NoTurn
  <2> QED
    BY <1>1, <2>5, <2>6 DEF TurnInv, IdleHasNone, StartHasNone, DownHasNone
<1>8. CASE CodexExits
  <2>1. server'.turns = {} /\ UNCHANGED inbound
    BY <1>4, <1>8 DEF CodexExits, Exited, Processes
  <2> QED
    BY <1>1, <2>1, TurnKept
<1> QED
  BY <1>5, <1>6, <1>7, <1>8 DEF CodexStep

\* The end of the Node ends every Turn, stray ones too.
LEMMA TurnStopped ==
    ASSUME AgentTypes, CloseRuntime \/ Crash
    PROVE  TurnInv'
<1>1. Exited /\ Stopped
  BY DEF CloseRuntime, Crash
<1>2. server'.turns = {}
  BY <1>1, TypesExited
<1>3. pc' = "receive" /\ inbound' = [g \in Gens |-> <<>>]
  BY <1>1 DEF Stopped, Receive
<1>4. \A g \in Gens : DOMAIN inbound'[g] = {}
  BY <1>3
<1>5. NoTurn' /\ OneTurn'
  BY <1>2, <1>4 DEF NoTurn, OneTurn, NoneCompleted
<1> QED
  BY <1>3, <1>5 DEF TurnInv, IdleHasNone, StartHasNone, DownHasNone

\* A cancelled handler leaves an idle row only before the call, or a stray Turn.
LEMMA TurnCancelled ==
    ASSUME AgentTypes, TurnInv, RelayClosed
    PROVE  node'.stray \/ TurnInv'
<1> SUFFICES ASSUME ~node'.stray PROVE TurnInv'
  OBVIOUS
<1>1. UNCHANGED <<server, inbound>> /\ pc' = "receive" /\ node.up = "running"
  BY DEF RelayClosed, Receive, codex
<1>2. node'.up = node.up /\ (node'.stray <=> node.stray \/ (pc = "wait" /\ thread'.state = "idle"))
  BY DEF RelayClosed, AgentTypes
<1>3. NoTurn => NoTurn'
  BY <1>1 DEF NoTurn, NoneCompleted, Completed
<1>4. OneTurn'
  BY <1>1 DEF TurnInv, OneTurn, NoneCompleted, Completed
<1>5. thread'.state = "idle" => NoTurn
  <2>1. CASE thread' = thread
    BY <1>1, <2>1 DEF TurnInv, IdleHasNone
  <2>2. CASE job.op = "start" /\ pc \in {"note", "call", "wait"} /\ thread'.state = "idle"
    BY <1>2, <2>2 DEF TurnInv, StartHasNone
  <2> QED
    BY <2>1, <2>2 DEF RelayClosed, Cancelled
<1> QED
  BY <1>1, <1>2, <1>3, <1>4, <1>5 DEF TurnInv, IdleHasNone, StartHasNone, DownHasNone

LEMMA TurnHost ==
    ASSUME AgentTypes, AgentTypes', TurnInv, HostStep, ~RelayClosed
    PROVE  TurnInv'
<1> USE DEF store, runtime, queue, session, codex, observers
<1>1. CASE Shutdown
  <2>1. UNCHANGED <<server, inbound>> /\ pc' = "receive" /\ node'.up = "closing"
    BY <1>1 DEF Shutdown, Receive, AgentTypes
  <2>2. OneTurn'
    BY <2>1 DEF TurnInv, OneTurn, NoneCompleted, Completed
  <2> QED
    BY <2>1, <2>2 DEF TurnInv, IdleHasNone, StartHasNone, DownHasNone
<1>2. CASE CloseRuntime \/ Crash
  BY <1>2, TurnStopped
<1>3. CASE Start
  <2>1. UNCHANGED <<thread, inbound, pc, job>> /\ node.up = "down" /\ server'.turns = {}
    BY <1>3 DEF Start, Spawned, Process
  <2>2. NoTurn' /\ OneTurn'
    BY <2>1 DEF TurnInv, DownHasNone, NoTurn, OneTurn, NoneCompleted, Completed
  <2> QED
    BY <2>1, <2>2 DEF TurnInv, IdleHasNone, StartHasNone, DownHasNone
<1>4. CASE ReconcileDefers \/ ReconcileSaves
  <2>1. UNCHANGED <<inbound, server>> /\ node.up = "recovering" /\ pc' \in {"receive", "saveIdle"}
    BY <1>4 DEF ReconcileDefers, ReconcileSaves, Recovering, Receive
  <2>2. NoTurn' /\ OneTurn'
    BY <2>1 DEF TurnInv, DownHasNone, NoTurn, OneTurn, NoneCompleted, Completed
  <2> QED
    BY <2>1, <2>2 DEF TurnInv, IdleHasNone, StartHasNone, DownHasNone
<1>5. CASE ReconcileTerminal \/ ReconcileAmbiguous
  <2>1. UNCHANGED <<inbound, server, node, thread>> /\ pc' = "saveIdle"
    BY <1>5 DEF ReconcileTerminal, ReconcileAmbiguous, Goto
  <2> QED
    BY <2>1, TurnKept
<1> QED
  BY <1>1, <1>2, <1>3, <1>4, <1>5 DEF HostStep

\* A stray Turn is forgotten only when the Node stops.
LEMMA StrayKept ==
    ASSUME AgentTypes, [Next]_vars, node.stray
    PROVE  (node'.stray /\ (node'.up = "down" => node.up = "down")) \/ CloseRuntime \/ Crash \/ Start
<1> USE DEF store, runtime, queue, session, codex, observers
<1>1. CASE HostStep
  BY <1>1 DEF HostStep, RelayClosed, Shutdown, ReconcileDefers, ReconcileTerminal,
     ReconcileAmbiguous, ReconcileSaves, AgentTypes
<1>2. CASE Accept \/ SessionStep
  BY <1>2 DEF Accept, SessionStep, BeginControl, MarkDispatching, CompleteControl, CheckThread,
     EnsureClient, CallRuntime, EnsureLoaded, SaveStarting, NoteStarting, CallTurnStart,
     TurnStartFails, SaveActive, NoteTurn, ClaimApproval, TakePending, Answer, AnswerFails,
     MarkApprovalAmbiguous
<1>3. CASE \E g \in Gens : ConsumeStep(g)
  BY <1>3 DEF ConsumeStep, ConsumeRequest, ConsumeCompleted, ConsumeResolved, ClientLoss
<1>4. CASE \E a \in Requests : BecomesOverdue(a) \/ ExpireApproval(a)
  BY <1>4 DEF BecomesOverdue, ExpireApproval
<1>5. CASE PublishV1 \/ PublishV11
  BY <1>5 DEF PublishV1, PublishV11
<1>6. CASE CodexStep
  BY <1>6 DEF CodexStep, CodexAsks, CodexWithdraws, CodexCompletes, CodexExits
<1>7. CASE UNCHANGED vars
  BY <1>7 DEF vars
<1> QED
  BY <1>1, <1>2, <1>3, <1>4, <1>5, <1>6, <1>7 DEF Next

\* What holds of a run until a Turn goes stray, and again once the Node stops.
StrayInv == (node.stray /\ node.up # "down") \/ TurnInv

LEMMA TurnNext ==
    ASSUME AgentTypes, AgentTypes', StrayInv, [Next]_vars
    PROVE  StrayInv'
<1>1. ASSUME TurnInv, ~RelayClosed PROVE TurnInv'
  <2>1. CASE UNCHANGED vars
    BY <1>1, <2>1, TurnKept DEF vars
  <2> QED
    BY <1>1, <2>1, TurnSession, TurnConsume, TurnTimer, TurnCodex, TurnHost DEF Next
<1>2. CASE RelayClosed
  <2>1. node'.up = "running" /\ (node.stray => node'.stray)
    BY <1>2 DEF RelayClosed, AgentTypes
  <2> QED
    BY <1>2, <2>1, TurnCancelled DEF StrayInv
<1>3. CASE node.stray /\ node.up # "down" /\ ~RelayClosed
  <2>1. CASE CloseRuntime \/ Crash
    BY <2>1, TurnStopped DEF StrayInv
  <2>2. ~Start
    BY <1>3 DEF Start
  <2>3. CASE ~(CloseRuntime \/ Crash)
    BY <1>3, <2>2, <2>3, StrayKept DEF StrayInv
  <2> QED
    BY <2>1, <2>3
<1> QED
  BY <1>1, <1>2, <1>3 DEF StrayInv

LEMMA TurnInit == Init => TurnInv
<1> SUFFICES ASSUME Init PROVE TurnInv
  OBVIOUS
<1>1. server.turns = {} /\ \A g \in Gens : DOMAIN inbound[g] = {}
  BY DEF Init
<1>2. NoTurn /\ OneTurn
  BY <1>1 DEF NoTurn, OneTurn, NoneCompleted
<1> QED
  BY <1>2 DEF Init, TurnInv, IdleHasNone, StartHasNone, DownHasNone

(* A Node that serves controls and records its Thread as idle has no Turn  *)
(* running in Codex, whatever died, was consumed late, was cancelled  *)
(* before the call or was recovered: StartTurn saves the row before it calls      *)
(* turn/start, only the completion of the one Turn there is makes it idle  *)
(* again, and a recovery runs when there is none.  From a turn/start that  *)
(* is cancelled after Codex has it until the Node stops, nothing is said.  *)
THEOREM IdleThreadIsIdle == Spec => []IdleIsReal
<1>1. Init => AgentTypes /\ StrayInv
  BY TypesInit, TurnInit DEF StrayInv
<1>2. (AgentTypes /\ StrayInv) /\ [Next]_vars => (AgentTypes /\ StrayInv)'
  BY TypesNext, TurnNext
<1>3. AgentTypes /\ StrayInv => IdleIsReal
  BY DEF StrayInv, TurnInv, IdleHasNone, NoTurn, IdleIsReal
<1> QED
  BY <1>1, <1>2, <1>3, PTL DEF Spec
=============================================================================
