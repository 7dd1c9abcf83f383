------------------------ MODULE RuntimeRouterProofs ------------------------
(***************************************************************************)
(* The invariants of RuntimeRouter, for any number of Agent instances,     *)
(* workspaces, sessions, tasks, starts, events and any channel capacity.   *)
(*                                                                         *)
(* TaskIsItsSession: whoever holds a row of task_bindings that it means to *)
(* write back (the call under way, a pump that saves the end of a Turn)    *)
(* holds the row of the session the task was answered for (TaskInv).       *)
(*                                                                         *)
(* UncertainHasTask: the workspace of a row is the one its session was     *)
(* made in (PlaceInv), so ReplaceWorkspaces deletes a Thread and its       *)
(* bindings together, and while the host serves, no row in anybody's hands *)
(* is of a workspace that is not configured (KeptInv).                     *)
(*                                                                         *)
(* EventsInOrder: the events are also consecutive while an entry closes,   *)
(* when its pump may still forward some, and everything is empty when an   *)
(* instance is opened (OrderInv).                                          *)
(***************************************************************************)
EXTENDS RuntimeRouter, FiniteSetTheorems, TLAPS

USE ConfigAssumption

-----------------------------------------------------------------------------
Events == [n : Nat, session : Sessions \cup {None}, kind : {"status", "item", "ended"}]

TableTypes ==
    /\ bindings \in [Tasks -> Bindings \cup {None}]
    /\ told \in [Tasks -> (Instances \X Sessions) \cup {None}]
    /\ threads \in [Instances -> [Sessions -> Threads \cup {None}]]
    /\ cwd \in [Instances -> [Sessions -> Workspaces \cup {None}]]
    /\ turns \in Nat

Calls ==
    {Idle} \cup [at : {"bind"}, inst : Instances, session : Sessions, ws : Workspaces]
           \cup [at : {"list"}, inst : Instances, rest : SUBSET Sessions, ws : Workspaces]
           \cup [at : {"resumed", "starting"}, task : Tasks, row : Bindings]
           \cup [at : {"started"}, task : Tasks, row : Bindings, n : Nat]

Pumps ==
    {Receiving, [at |-> "ended"]}
        \cup [at : {"bind"}, event : Events]
        \cup [at : {"send"}, event : Events, task : {None}]
        \cup [at : {"save", "send"}, event : Events, task : Tasks, row : Bindings]

ThreadTypes == caller \in Calls /\ pump \in [Instances -> Pumps]

StreamTypes ==
    /\ queue \in [Instances -> Seq(Events)] /\ buffer \in [Instances -> Seq(Events)]
    /\ out \in Seq([inst : Instances, event : Events, task : Tasks \cup {None}])
    /\ emitted \in [Instances -> Nat] /\ seen \in [Instances -> Nat]
    /\ entry \in [Instances -> {"none", "open", "closing", "closed", "failing", "failed"}]
    /\ runtime \in [Instances -> {"none", "ready", "closing", "closed"}]

HostTypes ==
    /\ todo \in Seq(Instances) /\ order \in Seq(Instances)
    /\ boots \in Nat /\ config \in Range(Configs)

RouterTypes == TableTypes /\ ThreadTypes /\ StreamTypes /\ HostTypes

-----------------------------------------------------------------------------
\* A task was answered for the session of a row.
Owns(t, row) == told[t] = <<row.inst, row.session>>

BindingsOwned == \A t \in Tasks : bindings[t] # None => Owns(t, bindings[t])

CallerOwned == caller.at \in {"resumed", "starting", "started"} => Owns(caller.task, caller.row)

\* An event carries the task of its session.
Carries(task, i, event) == task # None => told[task] # None /\ told[task] = <<i, event.session>>

PumpOwned(i) ==
    /\ pump[i].at = "save" => Owns(pump[i].task, pump[i].row)
    /\ pump[i].at \in {"save", "send"} => Carries(pump[i].task, i, pump[i].event)

OutOwned == \A k \in 1..Len(out) : Carries(out[k].task, out[k].inst, out[k].event)

TaskInv == BindingsOwned /\ CallerOwned /\ (\A i \in Instances : PumpOwned(i)) /\ OutOwned

-----------------------------------------------------------------------------
\* A row is of the workspace its session was made in.
Placed(row) == cwd[row.inst][row.session] = row.ws

BindingsPlaced == \A t \in Tasks : bindings[t] # None => Placed(bindings[t])

ThreadsPlaced ==
    \A i \in Instances : \A s \in Sessions : threads[i][s] # None => cwd[i][s] = threads[i][s].ws

CallerPlaced ==
    /\ caller.at = "bind" => cwd[caller.inst][caller.session] = caller.ws
    /\ caller.at = "list" => \A s \in caller.rest : cwd[caller.inst][s] = caller.ws
    /\ caller.at \in {"resumed", "starting", "started"} => Placed(caller.row)

PumpsPlaced == \A i \in Instances : pump[i].at = "save" => Placed(pump[i].row)

PlaceInv == BindingsPlaced /\ ThreadsPlaced /\ CallerPlaced /\ PumpsPlaced

-----------------------------------------------------------------------------
\* From the registration on, what refers to a workspace refers to a configured one.
KeptInv ==
    phase \in {"agents", "opening", "recovering", "running"} =>
        /\ \A t \in Tasks : bindings[t] # None => bindings[t].ws \in Configured(config)
        /\ \A w \in Workspaces : links[w] # {} => w \in Configured(config)
        /\ caller.at \in {"bind", "list"} => caller.ws \in Configured(config)
        /\ caller.at \in {"resumed", "starting", "started"} => caller.row.ws \in Configured(config)
        /\ \A i \in Instances : pump[i].at = "save" => pump[i].row.ws \in Configured(config)

\* Nothing runs before the router does, and no call outside of serving.
EarlyInv ==
    /\ caller # Idle => phase \in {"running", "stopping"}
    /\ phase \in {"loading", "agents", "opening"} =>
          /\ out = <<>> /\ \A i \in Instances : pump[i].at = "ended" /\ seen[i] = 0

BoundInv ==
    /\ \A i \in Instances : \A s \in Sessions :
          threads[i][s] # None /\ threads[i][s].state # "idle" => \E t \in Tasks : Bound(t, i, s)
    /\ caller.at = "starting" => Bound(caller.task, caller.row.inst, caller.row.session)

-----------------------------------------------------------------------------
Sends == [inst : Instances, event : Events, task : Tasks \cup {None}]

\* Events of an instance among the first k of q.
Places(q, k, i) == {j \in 1..k : q[j].inst = i}
Count(q, k, i) == Cardinality(Places(q, k, i))

\* The events of an instance after number n: on their way to the control session
\* (q), behind those (b) and emitted (e), the last with number last; state is that
\* of its entry.  Also while the entry closes its pump may go on for a while.
Ordered(i, n, q, b, e, state, last) ==
    LET sent == n + Count(q, Len(q), i)
        passed == sent + Len(b) IN
    /\ \A k \in 1..Len(q) : q[k].inst = i => q[k].event.n = n + Count(q, k, i)
    /\ \A k \in 1..Len(b) : b[k].n = sent + k
    /\ state \in {"open", "closing"} => \A k \in 1..Len(e) : e[k].n = passed + k
    /\ state = "open" => last = passed + Len(e)

StreamInv(i) == Ordered(i, seen[i], out, Behind(i), queue[i], entry[i], emitted[i])

\* What an instance is opened with.
OpenInv ==
    /\ \A i \in Instances : entry[i] = "closing" => runtime[i] = "closed"
    /\ \A i \in Instances : entry[i] = "none" => buffer[i] = <<>>
    /\ phase \in {"loading", "agents"} => \A i \in Instances : entry[i] = "none"
    /\ phase = "opening" =>
          /\ \A j \in 1..Len(todo) : entry[todo[j]] = "none"
          /\ \A j, k \in 1..Len(todo) : todo[j] = todo[k] => j = k

OrderInv == OpenInv /\ \A i \in Instances : StreamInv(i)

-----------------------------------------------------------------------------
(* Calls, pumps and rows                                                   *)

LEMMA CallFacts ==
    ASSUME NEW c \in Calls
    PROVE  /\ c.at = "bind" => c \in [at : {"bind"}, inst : Instances, session : Sessions, ws : Workspaces]
           /\ c.at = "list" => c \in [at : {"list"}, inst : Instances, rest : SUBSET Sessions, ws : Workspaces]
           /\ c.at \in {"resumed", "starting"}
                 => c \in [at : {"resumed", "starting"}, task : Tasks, row : Bindings]
           /\ c.at = "started" => c \in [at : {"started"}, task : Tasks, row : Bindings, n : Nat]
           /\ c.at = "idle" => c = Idle
           /\ c.at \in {"idle", "bind", "list", "resumed", "starting", "started"}
BY DEF Calls, Idle

LEMMA IdleFacts == Idle \in Calls /\ Idle.at = "idle"
BY DEF Calls, Idle

LEMMA PumpFacts ==
    ASSUME NEW p \in Pumps
    PROVE  /\ p.at = "bind" => p \in [at : {"bind"}, event : Events]
           /\ p.at = "save" => p \in [at : {"save", "send"}, event : Events, task : Tasks, row : Bindings]
           /\ p.at = "send" => \/ p \in [at : {"send"}, event : Events, task : {None}]
                               \/ p \in [at : {"save", "send"}, event : Events, task : Tasks, row : Bindings]
           /\ p.at \in {"bind", "save", "send"} => p.event \in Events
           /\ p.at \in {"receive", "ended", "bind", "save", "send"}
<1>1. \/ p \in {Receiving, [at |-> "ended"]}
      \/ p \in [at : {"bind"}, event : Events]
      \/ p \in [at : {"send"}, event : Events, task : {None}]
      \/ p \in [at : {"save", "send"}, event : Events, task : Tasks, row : Bindings]
  BY DEF Pumps
<1> QED
  BY <1>1 DEF Receiving

LEMMA RestingFacts ==
    /\ Receiving \in Pumps /\ Receiving.at = "receive"
    /\ [at |-> "ended"] \in Pumps
BY DEF Receiving, Pumps

\* SaveRuntimeThread touches one row.
LEMMA SaveThreadFacts ==
    ASSUME TableTypes, NEW i \in Instances, NEW s \in Sessions, NEW row \in Threads,
           SaveRuntimeThread(i, s, row)
    PROVE  /\ threads' \in [Instances -> [Sessions -> Threads \cup {None}]]
           /\ threads'[i][s] = row
           /\ \A j \in Instances : \A u \in Sessions : <<j, u>> # <<i, s>> => threads'[j][u] = threads[j][u]
<1>1. threads \in [Instances -> [Sessions -> Threads \cup {None}]]
  BY DEF TableTypes
<1>2. threads' = [threads EXCEPT ![i] = [threads[i] EXCEPT ![s] = row]]
  BY DEF SaveRuntimeThread
<1> QED
  BY <1>1, <1>2

LEMMA ThreadFacts ==
    ASSUME NEW w \in Workspaces, NEW n \in Nat,
           NEW state \in {"idle", "starting", "active", "needs_reconcile"}
    PROVE  /\ Thread(w, state, n) \in Threads
           /\ Thread(w, state, n).ws = w /\ Thread(w, state, n).state = state
BY DEF Thread, Threads

\* A binding that is written back keeps its session and workspace.
LEMMA SaveBindingFacts ==
    ASSUME TableTypes, NEW t \in Tasks, NEW row \in Bindings, NEW n \in Nat, SaveBindingState(t, row, n)
    PROVE  /\ bindings' \in [Tasks -> Bindings \cup {None}]
           /\ bindings'[t] \in Bindings
           /\ bindings'[t].inst = row.inst /\ bindings'[t].session = row.session /\ bindings'[t].ws = row.ws
           /\ \A u \in Tasks : u # t => bindings'[u] = bindings[u]
<1>1. bindings \in [Tasks -> Bindings \cup {None}]
  BY DEF TableTypes
<1> DEFINE new == [row EXCEPT !.run = n]
<1>2. new \in Bindings /\ new.inst = row.inst /\ new.session = row.session /\ new.ws = row.ws
  BY DEF Bindings
<1>3. bindings' = [bindings EXCEPT ![t] = new]
  BY DEF SaveBindingState
<1> HIDE DEF new
<1> QED
  BY <1>1, <1>2, <1>3

\* bindThread answers for the session, with a task nobody else was told.
LEMMA BindFacts ==
    ASSUME TableTypes, NEW i \in Instances, NEW s \in Sessions, NEW w \in Workspaces, BindThread(i, s, w)
    PROVE  /\ bindings' \in [Tasks -> Bindings \cup {None}]
           /\ told' \in [Tasks -> (Instances \X Sessions) \cup {None}]
           /\ \A t \in Tasks : told[t] # None => told'[t] = told[t]
           /\ \A t \in Tasks : \/ bindings'[t] = bindings[t]
                               \/ /\ bindings[t] = None /\ told'[t] = <<i, s>>
                                  /\ bindings'[t] \in Bindings /\ bindings'[t].inst = i
                                  /\ bindings'[t].session = s /\ bindings'[t].ws = w
<1>1. /\ bindings \in [Tasks -> Bindings \cup {None}]
      /\ told \in [Tasks -> (Instances \X Sessions) \cup {None}]
  BY DEF TableTypes
<1>2. <<i, s>> \in Instances \X Sessions
  OBVIOUS
<1>3. CASE TaskBindingByNativeSession(i, s) # {}
  <2>1. UNCHANGED bindings /\ \E t \in TaskBindingByNativeSession(i, s) :
             told' = [told EXCEPT ![t] = IF @ = None THEN <<i, s>> ELSE @]
    BY <1>3 DEF BindThread
  <2>2. PICK t \in Tasks : told' = [told EXCEPT ![t] = IF @ = None THEN <<i, s>> ELSE @]
    BY <2>1 DEF TaskBindingByNativeSession
  <2> QED
    BY <1>1, <1>2, <2>1, <2>2
<1>4. CASE TaskBindingByNativeSession(i, s) = {}
  <2>1. PICK t \in Tasks : /\ told[t] = None /\ bindings[t] = None
                           /\ bindings' = [bindings EXCEPT ![t] = Binding(i, s, w, 0)]
                           /\ told' = [told EXCEPT ![t] = <<i, s>>]
    BY <1>4 DEF BindThread
  <2>2. /\ Binding(i, s, w, 0) \in Bindings /\ Binding(i, s, w, 0).inst = i
        /\ Binding(i, s, w, 0).session = s /\ Binding(i, s, w, 0).ws = w
    BY DEF Binding, Bindings
  <2> QED
    BY <1>1, <1>2, <2>1, <2>2
<1> QED
  BY <1>3, <1>4

\* ReplaceWorkspaces deletes rows and changes none.
LEMMA ReplaceFacts ==
    ASSUME TableTypes, NEW c, ReplaceWorkspaces(c)
    PROVE  /\ bindings' \in [Tasks -> Bindings \cup {None}]
           /\ threads' \in [Instances -> [Sessions -> Threads \cup {None}]]
           /\ \A t \in Tasks : \/ bindings'[t] = None /\ bindings[t] # None /\ bindings[t].ws \notin Configured(c)
                               \/ /\ bindings'[t] = bindings[t]
                                  /\ bindings[t] # None => bindings[t].ws \in Configured(c)
           /\ \A i \in Instances : \A s \in Sessions :
                 \/ threads'[i][s] = None
                 \/ threads'[i][s] = threads[i][s] /\ threads[i][s].ws \in Configured(c)
           /\ \A w \in Workspaces : links'[w] # {} => w \in Configured(c)
BY DEF TableTypes, ReplaceWorkspaces, ThreadsOf

\* The rows of a runtime that is closed keep their workspace.
LEMMA ClosedFacts ==
    ASSUME TableTypes, NEW i \in Instances, RuntimeClosed(i)
    PROVE  /\ threads' \in [Instances -> [Sessions -> Threads \cup {None}]]
           /\ \A j \in Instances : \A s \in Sessions :
                 \/ threads'[j][s] = threads[j][s]
                 \/ /\ threads[j][s] # None /\ threads'[j][s] # None
                    /\ threads[j][s].state \in {"starting", "active"}
                    /\ threads'[j][s].ws = threads[j][s].ws
<1> DEFINE closed(s) == IF threads[i][s] # None /\ threads[i][s].state \in {"starting", "active"}
                        THEN [threads[i][s] EXCEPT !.state = "needs_reconcile"] ELSE threads[i][s]
<1>1. threads \in [Instances -> [Sessions -> Threads \cup {None}]]
  BY DEF TableTypes
<1>2. threads' = [threads EXCEPT ![i] = [s \in Sessions |-> closed(s)]]
  BY DEF RuntimeClosed
<1>3. ASSUME NEW s \in Sessions
      PROVE  /\ closed(s) \in Threads \cup {None}
             /\ \/ closed(s) = threads[i][s]
                \/ /\ threads[i][s] # None /\ closed(s) # None
                   /\ threads[i][s].state \in {"starting", "active"}
                   /\ closed(s).ws = threads[i][s].ws
  <2>1. threads[i][s] \in Threads \cup {None}
    BY <1>1
  <2>2. CASE threads[i][s] # None /\ threads[i][s].state \in {"starting", "active"}
    <3>1. closed(s) = [threads[i][s] EXCEPT !.state = "needs_reconcile"]
      BY <2>2
    <3>2. closed(s) \in Threads /\ closed(s).ws = threads[i][s].ws
      BY <2>1, <2>2, <3>1 DEF Threads
    <3> QED
      BY <2>2, <3>2
  <2>3. CASE ~(threads[i][s] # None /\ threads[i][s].state \in {"starting", "active"})
    BY <2>1, <2>3
  <2> QED
    BY <2>2, <2>3
<1> HIDE DEF closed
<1> QED
  BY <1>1, <1>2, <1>3

\* Recovery makes Threads idle, in their workspaces.
LEMMA ReconcileFacts ==
    ASSUME TableTypes, ReconcileThreads
    PROVE  /\ threads' \in [Instances -> [Sessions -> Threads \cup {None}]]
           /\ \A i \in Instances : \A s \in Sessions :
                 \/ threads'[i][s] = threads[i][s]
                 \/ /\ threads[i][s] # None /\ threads'[i][s].state = "idle"
                    /\ threads'[i][s].ws = threads[i][s].ws
<1>1. threads \in [Instances -> [Sessions -> Threads \cup {None}]]
  BY DEF TableTypes
<1>2. ASSUME NEW i \in Instances, NEW s \in Sessions, threads[i][s] # None
      PROVE  /\ Thread(threads[i][s].ws, "idle", 0) \in Threads
             /\ Thread(threads[i][s].ws, "idle", 0).state = "idle"
             /\ Thread(threads[i][s].ws, "idle", 0).ws = threads[i][s].ws
  <2>1. threads[i][s].ws \in Workspaces
    BY <1>1, <1>2 DEF Threads
  <2> QED
    BY <2>1, ThreadFacts
<1>3. /\ DOMAIN threads' = Instances
      /\ threads' = [i \in Instances |-> [s \in Sessions |-> threads'[i][s]]]
      /\ \A i \in Instances : \A s \in Sessions :
            \/ threads'[i][s] = threads[i][s]
            \/ threads[i][s] # None /\ threads'[i][s] = Thread(threads[i][s].ws, "idle", 0)
  BY DEF ReconcileThreads
<1>4. \A i \in Instances : \A s \in Sessions : threads'[i][s] \in Threads \cup {None}
  BY <1>1, <1>2, <1>3
<1> QED
  BY <1>2, <1>3, <1>4

-----------------------------------------------------------------------------
(* Typing                                                                  *)

LEMMA TypesRequest ==
    ASSUME RouterTypes, Request
    PROVE  /\ TableTypes' /\ ThreadTypes'
           /\ UNCHANGED <<host, bindings, told, turns, links, pump, sources, out, seen>>
           /\ caller = Idle /\ phase = "running"
<1> USE DEF host, files, codex, sources, UnchangedByCall
<1>1. TableTypes /\ ThreadTypes
  BY DEF RouterTypes
<1>2. ASSUME NEW w \in Workspaces, NEW i \in Instances, ListThreads(w, i)
      PROVE  /\ TableTypes' /\ ThreadTypes'
             /\ UNCHANGED <<host, bindings, told, turns, links, pump, sources, out, seen>>
             /\ caller = Idle /\ phase = "running"
  <2>1. caller' \in [at : {"list"}, inst : Instances, rest : SUBSET Sessions, ws : Workspaces]
    BY <1>2 DEF ListThreads
  <2>2. UNCHANGED <<host, bindings, told, turns, links, pump, sources, out, seen, threads, cwd>>
        /\ caller = Idle /\ phase = "running"
    BY <1>2 DEF ListThreads, Begin
  <2> QED
    BY <1>1, <2>1, <2>2 DEF TableTypes, ThreadTypes, Calls
<1>3. ASSUME NEW w \in Workspaces, NEW i \in Instances, NEW s \in Sessions, StartThread(w, i, s)
      PROVE  /\ TableTypes' /\ ThreadTypes'
             /\ UNCHANGED <<host, bindings, told, turns, links, pump, sources, out, seen>>
             /\ caller = Idle /\ phase = "running"
  <2>1. /\ caller' \in [at : {"bind"}, inst : Instances, session : Sessions, ws : Workspaces]
        /\ cwd' = [cwd EXCEPT ![i][s] = w] /\ SaveRuntimeThread(i, s, Thread(w, "idle", 0))
    BY <1>3 DEF StartThread
  <2>2. UNCHANGED <<host, bindings, told, turns, links, pump, sources, out, seen>>
        /\ caller = Idle /\ phase = "running"
    BY <1>3 DEF StartThread, Begin
  <2>3. cwd' \in [Instances -> [Sessions -> Workspaces \cup {None}]]
    BY <1>1, <2>1 DEF TableTypes
  <2>4. threads' \in [Instances -> [Sessions -> Threads \cup {None}]]
    BY <1>1, <2>1, ThreadFacts, SaveThreadFacts
  <2> QED
    BY <1>1, <2>1, <2>2, <2>3, <2>4 DEF TableTypes, ThreadTypes, Calls
<1>4. ASSUME NEW t \in Tasks, bindings[t] # None, NEW w \in Workspaces, ResumeThread(t, w) \/ StartTurn(t, w)
      PROVE  /\ TableTypes' /\ ThreadTypes'
             /\ UNCHANGED <<host, bindings, told, turns, links, pump, sources, out, seen>>
             /\ caller = Idle /\ phase = "running"
  <2>1. bindings[t] \in Bindings /\ bindings[t].inst \in Instances /\ bindings[t].session \in Sessions
    BY <1>1, <1>4 DEF TableTypes, Bindings
  <2>2. /\ \E state \in {"idle", "starting"} :
              SaveRuntimeThread(bindings[t].inst, bindings[t].session, Thread(w, state, 0))
        /\ \E at \in {"resumed", "starting"} : caller' = [at |-> at, task |-> t, row |-> bindings[t]]
    BY <1>4 DEF ResumeThread, StartTurn, Calling
  <2>3. UNCHANGED <<host, bindings, told, turns, links, pump, sources, out, seen, cwd>>
        /\ caller = Idle /\ phase = "running"
    BY <1>4 DEF ResumeThread, StartTurn, Begin
  <2>4. threads' \in [Instances -> [Sessions -> Threads \cup {None}]]
    BY <1>1, <2>1, <2>2, ThreadFacts, SaveThreadFacts
  <2>5. caller' \in [at : {"resumed", "starting"}, task : Tasks, row : Bindings]
    BY <2>1, <2>2
  <2> QED
    BY <1>1, <2>3, <2>4, <2>5 DEF TableTypes, ThreadTypes, Calls
<1> QED
  BY <1>2, <1>3, <1>4 DEF Request

LEMMA TypesCallStep ==
    ASSUME RouterTypes, CallStep
    PROVE  /\ TableTypes' /\ ThreadTypes'
           /\ UNCHANGED <<host, links, pump, sources, out, seen, cwd>>
           /\ caller.at # "idle" /\ phase \in {"running", "stopping"}
<1> USE DEF host, files, codex, sources, UnchangedByCall
<1>1. TableTypes /\ ThreadTypes /\ caller \in Calls
  BY DEF RouterTypes, ThreadTypes
<1>2. /\ UNCHANGED <<host, links, pump, sources, out, seen, cwd>>
      /\ caller.at # "idle" /\ phase \in {"running", "stopping"}
  BY DEF CallStep, BindStarted, BindListed, SaveResumed, TurnStarts, TurnRefused, TurnAmbiguous,
     SaveStarted, CallFails, Serving
<1>3. CASE BindStarted
  <2>1. /\ caller.inst \in Instances /\ caller.session \in Sessions /\ caller.ws \in Workspaces
        /\ BindThread(caller.inst, caller.session, caller.ws) /\ caller' = Idle
        /\ UNCHANGED <<threads, turns>>
    BY <1>1, <1>3, CallFacts DEF BindStarted
  <2> QED
    BY <1>1, <1>2, <2>1, BindFacts, IdleFacts DEF TableTypes, ThreadTypes
<1>4. ASSUME NEW s \in Sessions, BindListed(s) PROVE TableTypes' /\ ThreadTypes'
  <2>1. /\ caller \in [at : {"list"}, inst : Instances, rest : SUBSET Sessions, ws : Workspaces]
        /\ BindThread(caller.inst, s, caller.ws)
        /\ caller' = Idle \/ caller' = [caller EXCEPT !.rest = @ \ {s}]
        /\ UNCHANGED <<threads, turns>>
    BY <1>1, <1>4, CallFacts DEF BindListed
  <2>2. caller.inst \in Instances /\ caller.ws \in Workspaces
    BY <2>1
  <2>3. caller' \in Calls
    <3>1. [caller EXCEPT !.rest = @ \ {s}]
              \in [at : {"list"}, inst : Instances, rest : SUBSET Sessions, ws : Workspaces]
      BY <2>1
    <3> QED
      BY <2>1, <3>1, IdleFacts DEF Calls
  <2>4. /\ bindings' \in [Tasks -> Bindings \cup {None}]
        /\ told' \in [Tasks -> (Instances \X Sessions) \cup {None}]
    BY <1>1, <2>1, <2>2, BindFacts
  <2> QED
    BY <1>1, <1>2, <2>1, <2>3, <2>4 DEF TableTypes, ThreadTypes
<1>5. CASE SaveResumed
  <2>1. /\ caller.task \in Tasks /\ caller.row \in Bindings
        /\ SaveBindingState(caller.task, caller.row, 0) /\ caller' = Idle
        /\ UNCHANGED <<threads, told, turns>>
    BY <1>1, <1>5, CallFacts DEF SaveResumed
  <2> QED
    BY <1>1, <1>2, <2>1, SaveBindingFacts, IdleFacts DEF TableTypes, ThreadTypes
<1>6. CASE SaveStarted
  <2>1. /\ caller.task \in Tasks /\ caller.row \in Bindings /\ caller.n \in Nat
        /\ SaveBindingState(caller.task, caller.row, caller.n) /\ caller' = Idle
        /\ UNCHANGED <<threads, told, turns>>
    BY <1>1, <1>6, CallFacts DEF SaveStarted
  <2> QED
    BY <1>1, <1>2, <2>1, SaveBindingFacts, IdleFacts DEF TableTypes, ThreadTypes
<1>7. CASE TurnStarts \/ TurnRefused \/ TurnAmbiguous
  <2>1. caller \in [at : {"resumed", "starting"}, task : Tasks, row : Bindings]
    BY <1>1, <1>7, CallFacts DEF TurnStarts, TurnRefused, TurnAmbiguous
  <2>2. /\ caller.task \in Tasks /\ caller.row \in Bindings /\ caller.row.inst \in Instances
        /\ caller.row.session \in Sessions /\ caller.row.ws \in Workspaces
    BY <2>1 DEF Bindings
  <2>3. turns \in Nat /\ turns + 1 \in Nat
    BY <1>1 DEF TableTypes
  <2>4. /\ \E state \in {"idle", "active", "needs_reconcile"}, n \in {0, turns + 1} :
              SaveRuntimeThread(caller.row.inst, caller.row.session, Thread(caller.row.ws, state, n))
        /\ turns' \in {turns, turns + 1} /\ UNCHANGED <<bindings, told>>
    BY <1>7 DEF TurnStarts, TurnRefused, TurnAmbiguous
  <2>5. threads' \in [Instances -> [Sessions -> Threads \cup {None}]]
    BY <1>1, <2>2, <2>3, <2>4, ThreadFacts, SaveThreadFacts
  <2>6. \/ caller' = Idle
        \/ caller' = [at |-> "started", task |-> caller.task, row |-> caller.row, n |-> turns + 1]
    BY <1>7 DEF TurnStarts, TurnRefused, TurnAmbiguous
  <2>7. caller' \in Calls
    BY <2>2, <2>3, <2>6, IdleFacts DEF Calls
  <2> QED
    BY <1>1, <1>2, <2>3, <2>4, <2>5, <2>7 DEF TableTypes, ThreadTypes
<1>8. CASE CallFails
  BY <1>1, <1>2, <1>8, IdleFacts DEF CallFails, TableTypes, ThreadTypes
<1> QED
  BY <1>2, <1>3, <1>4, <1>5, <1>6, <1>7, <1>8 DEF CallStep

LEMMA HeadFacts ==
    ASSUME NEW S, NEW q \in Seq(S), q # <<>>
    PROVE  /\ Head(q) \in S /\ Head(q) = q[1] /\ Tail(q) \in Seq(S) /\ Len(Tail(q)) = Len(q) - 1
           /\ Len(q) \in Nat \ {0}
           /\ \A k \in 1..Len(Tail(q)) : Tail(q)[k] = q[k + 1]
OBVIOUS

LEMMA AppendFacts ==
    ASSUME NEW S, NEW q \in Seq(S), NEW e \in S
    PROVE  /\ Append(q, e) \in Seq(S) /\ Len(Append(q, e)) = Len(q) + 1 /\ Len(q) \in Nat
           /\ Append(q, e)[Len(q) + 1] = e
           /\ \A k \in 1..Len(q) : Append(q, e)[k] = q[k]
OBVIOUS

\* What a pump does, apart from its own place.
LEMMA TypesPump ==
    ASSUME RouterTypes, NEW i \in Instances, RouterStep(i)
    PROVE  /\ TableTypes' /\ ThreadTypes' /\ StreamTypes'
           /\ UNCHANGED <<host, links, threads, cwd, told, caller, runtime, queue, entry, emitted, seen>>
           /\ \A j \in Instances : j # i => pump'[j] = pump[j]
<1> USE DEF host, files, codex, sources, UnchangedByPump
<1>1. TableTypes /\ ThreadTypes /\ StreamTypes /\ pump \in [Instances -> Pumps] /\ pump[i] \in Pumps
  BY DEF RouterTypes, ThreadTypes
<1>2. UNCHANGED <<host, links, threads, cwd, turns, told, caller, runtime, queue, entry, emitted, seen>>
  BY DEF RouterStep, Take, FindBinding, BindingUnavailable, SaveEnded, Send, SourceEnds
<1>3. ASSUME NEW p \in Pumps, SetPump(i, p)
      PROVE  pump' \in [Instances -> Pumps] /\ \A j \in Instances : j # i => pump'[j] = pump[j]
  BY <1>1, <1>3 DEF SetPump
<1>4. CASE Take(i)
  <2>1. buffer[i] \in Seq(Events) /\ buffer[i] # <<>>
    BY <1>1, <1>4 DEF Take, StreamTypes
  <2>2. Head(buffer[i]) \in Events /\ Tail(buffer[i]) \in Seq(Events)
    BY <2>1
  <2>3. buffer' = [buffer EXCEPT ![i] = Tail(buffer[i])] /\ UNCHANGED <<bindings, out>>
    BY <1>4 DEF Take
  <2>4. StreamTypes'
    BY <1>1, <1>2, <2>2, <2>3 DEF StreamTypes
  <2>5. \/ SetPump(i, [at |-> "send", event |-> Head(buffer[i]), task |-> None])
        \/ SetPump(i, [at |-> "bind", event |-> Head(buffer[i])])
    BY <1>4 DEF Take
  <2>6. pump' \in [Instances -> Pumps] /\ \A j \in Instances : j # i => pump'[j] = pump[j]
    <3>1. /\ [at |-> "send", event |-> Head(buffer[i]), task |-> None] \in Pumps
          /\ [at |-> "bind", event |-> Head(buffer[i])] \in Pumps
      BY <2>2 DEF Pumps
    <3> QED
      BY <1>3, <2>5, <3>1
  <2> QED
    BY <1>1, <1>2, <2>3, <2>4, <2>6 DEF TableTypes, ThreadTypes
<1>5. CASE FindBinding(i)
  <2>1. pump[i].event \in Events
    BY <1>1, <1>5, PumpFacts DEF FindBinding
  <2>2. PICK t \in TaskBindingByNativeSession(i, pump[i].event.session) :
            SetPump(i, [at |-> IF pump[i].event.kind = "ended" THEN "save" ELSE "send",
                        event |-> pump[i].event, task |-> t, row |-> bindings[t]])
    BY <1>5 DEF FindBinding
  <2>3. t \in Tasks /\ bindings[t] \in Bindings
    BY <1>1 DEF TaskBindingByNativeSession, Bound, TableTypes
  <2>4. [at |-> IF pump[i].event.kind = "ended" THEN "save" ELSE "send",
         event |-> pump[i].event, task |-> t, row |-> bindings[t]]
            \in [at : {"save", "send"}, event : Events, task : Tasks, row : Bindings]
    BY <2>1, <2>3
  <2>5. pump' \in [Instances -> Pumps] /\ \A j \in Instances : j # i => pump'[j] = pump[j]
    BY <1>3, <2>2, <2>4 DEF Pumps
  <2> QED
    BY <1>1, <1>2, <1>5, <2>5 DEF FindBinding, TableTypes, ThreadTypes, StreamTypes
<1>6. CASE BindingUnavailable(i)
  <2>1. pump[i].event \in Events
    BY <1>1, <1>6, PumpFacts DEF BindingUnavailable
  <2>2. [at |-> "send", event |-> pump[i].event, task |-> None] \in Pumps
    BY <2>1 DEF Pumps
  <2>3. pump' \in [Instances -> Pumps] /\ \A j \in Instances : j # i => pump'[j] = pump[j]
    BY <1>3, <1>6, <2>2 DEF BindingUnavailable
  <2> QED
    BY <1>1, <1>2, <1>6, <2>3 DEF BindingUnavailable, TableTypes, ThreadTypes, StreamTypes
<1>7. CASE SaveEnded(i)
  <2>1. pump[i] \in [at : {"save", "send"}, event : Events, task : Tasks, row : Bindings]
    BY <1>1, <1>7, PumpFacts DEF SaveEnded
  <2>2. pump[i].task \in Tasks /\ pump[i].row \in Bindings
    BY <2>1
  <2>3. [pump[i] EXCEPT !.at = "send"]
            \in [at : {"save", "send"}, event : Events, task : Tasks, row : Bindings]
    BY <2>1
  <2>4. pump' \in [Instances -> Pumps] /\ \A j \in Instances : j # i => pump'[j] = pump[j]
    BY <1>3, <1>7, <2>3 DEF SaveEnded, Pumps
  <2>5. UNCHANGED bindings \/ SaveBindingState(pump[i].task, pump[i].row, 0)
    BY <1>7 DEF SaveEnded
  <2>6. bindings' \in [Tasks -> Bindings \cup {None}]
    BY <1>1, <2>2, <2>5, SaveBindingFacts DEF TableTypes
  <2> QED
    BY <1>1, <1>2, <1>7, <2>4, <2>6 DEF SaveEnded, TableTypes, ThreadTypes, StreamTypes
<1>8. CASE Send(i)
  <2>1. pump[i].event \in Events /\ pump[i].task \in Tasks \cup {None}
    BY <1>1, <1>8, PumpFacts DEF Send
  <2>2. pump' \in [Instances -> Pumps] /\ \A j \in Instances : j # i => pump'[j] = pump[j]
    BY <1>3, <1>8, RestingFacts DEF Send
  <2>3. [inst |-> i, event |-> pump[i].event, task |-> pump[i].task]
            \in [inst : Instances, event : Events, task : Tasks \cup {None}]
    BY <2>1
  <2>4. out' = Append(out, [inst |-> i, event |-> pump[i].event, task |-> pump[i].task])
    BY <1>8 DEF Send
  <2>5. out' \in Seq([inst : Instances, event : Events, task : Tasks \cup {None}])
    BY <1>1, <2>3, <2>4, AppendFacts DEF StreamTypes
  <2> QED
    BY <1>1, <1>2, <1>8, <2>2, <2>5 DEF Send, TableTypes, ThreadTypes, StreamTypes
<1>9. CASE SourceEnds(i)
  <2>1. pump' \in [Instances -> Pumps] /\ \A j \in Instances : j # i => pump'[j] = pump[j]
    BY <1>3, <1>9, RestingFacts DEF SourceEnds
  <2> QED
    BY <1>1, <1>2, <1>9, <2>1 DEF SourceEnds, TableTypes, ThreadTypes, StreamTypes
<1> QED
  BY <1>2, <1>4, <1>5, <1>6, <1>7, <1>8, <1>9 DEF RouterStep

LEMMA FreshFacts ==
    ASSUME ThreadTypes, Fresh
    PROVE  StreamTypes' /\ pump' \in [Instances -> Pumps] /\ \A i \in Instances : pump'[i].at = "ended"
<1>1. pump' \in [Instances -> Pumps] /\ \A i \in Instances : pump'[i].at = "ended"
  BY RestingFacts DEF Fresh
<1>2. <<>> \in Seq(Events) /\ <<>> \in Seq([inst : Instances, event : Events, task : Tasks \cup {None}])
  OBVIOUS
<1> QED
  BY <1>1, <1>2 DEF Fresh, StreamTypes, Empty

LEMMA ConfigsFacts ==
    /\ Configs[1] \in Range(Configs)
    /\ \A n \in Nat : n < Len(Configs) => Configs[n + 1] \in Range(Configs)
    /\ \A c \in Range(Configs) : c.order \in Seq(Instances)
    /\ \A c \in Range(Configs) : \A j, k \in 1..Len(c.order) : c.order[j] = c.order[k] => j = k
<1>1. DOMAIN Configs = 1..Len(Configs) /\ Len(Configs) \in Nat \ {0}
  OBVIOUS
<1>2. \A k \in 1..Len(Configs) : Configs[k] \in Range(Configs)
  BY <1>1 DEF Range
<1>3. \A c \in Range(Configs) : c.order \in Seq(Instances) /\ IsInjective(c.order)
  OBVIOUS
<1>4. \A c \in Range(Configs) : DOMAIN c.order = 1..Len(c.order)
  BY <1>3
<1> QED
  BY <1>1, <1>2, <1>3, <1>4 DEF IsInjective

\* What the host does to the tables.
LEMMA TypesHost ==
    ASSUME RouterTypes, HostStep \/ CloseStep
    PROVE  RouterTypes'
<1> USE DEF host, files, tables, codex, sources
<1>1. TableTypes /\ ThreadTypes /\ StreamTypes /\ HostTypes
  BY DEF RouterTypes
<1>2. CASE Start
  <2>1. /\ Fresh /\ config' = Configs[boots + 1] /\ boots < Len(Configs) /\ boots' = boots + 1
        /\ UNCHANGED <<todo, order, bindings, told, threads, cwd, turns, caller>>
    BY <1>2 DEF Start
  <2>2. HostTypes'
    BY <1>1, <2>1, ConfigsFacts DEF HostTypes
  <2> QED
    BY <1>1, <2>1, <2>2, FreshFacts DEF RouterTypes, TableTypes, ThreadTypes
<1>3. CASE RegisterWorkspaces \/ ReloadWorkspaces
  <2>1. /\ ReplaceWorkspaces(config) \/ UNCHANGED <<bindings, threads>>
        /\ UNCHANGED <<todo, order, boots, config, told, cwd, turns, caller, pump, sources, out, seen>>
    BY <1>3 DEF RegisterWorkspaces, ReloadWorkspaces
  <2>2. /\ bindings' \in [Tasks -> Bindings \cup {None}]
        /\ threads' \in [Instances -> [Sessions -> Threads \cup {None}]]
    BY <1>1, <2>1, ReplaceFacts DEF TableTypes
  <2> QED
    BY <1>1, <2>1, <2>2 DEF RouterTypes, TableTypes, ThreadTypes, StreamTypes, HostTypes
<1>4. CASE RegisterAgents
  <2>1. /\ todo' = config.order
        /\ UNCHANGED <<order, boots, config, bindings, threads, told, cwd, turns, caller, pump, sources, out, seen>>
    BY <1>4 DEF RegisterAgents
  <2>2. HostTypes'
    BY <1>1, <2>1, ConfigsFacts DEF HostTypes
  <2> QED
    BY <1>1, <2>1, <2>2 DEF RouterTypes, TableTypes, ThreadTypes, StreamTypes
<1>5. CASE OpenNext
  <2>1. todo \in Seq(Instances) /\ todo # <<>> /\ order \in Seq(Instances)
    BY <1>1, <1>5 DEF OpenNext, HostTypes
  <2>2. /\ UNCHANGED <<config, boots, bindings, threads, told, cwd, turns, caller, pump, out, seen, buffer>>
        /\ todo' = Tail(todo) /\ order' = Append(order, Head(todo))
    BY <1>5 DEF OpenNext
  <2>3. Head(todo) \in Instances /\ Tail(todo) \in Seq(Instances) /\ Append(order, Head(todo)) \in Seq(Instances)
    BY <2>1
  <2>4. Event(1, None, "status") \in Events
    BY DEF Event, Events
  <2>5. <<Event(1, None, "status")>> \in Seq(Events)
    BY <2>4
  <2>6. StreamTypes'
    BY <1>1, <1>5, <2>2, <2>3, <2>5 DEF OpenNext, StreamTypes
  <2>7. HostTypes'
    BY <1>1, <2>2, <2>3 DEF HostTypes
  <2> QED
    BY <1>1, <2>2, <2>6, <2>7 DEF RouterTypes, TableTypes, ThreadTypes
<1>6. CASE OpenFails
  <2>1. todo \in Seq(Instances) /\ todo # <<>>
    BY <1>1, <1>6 DEF OpenFails, HostTypes
  <2>2. /\ UNCHANGED <<config, boots, order, bindings, threads, told, cwd, turns, caller, pump, sources, out, seen>>
        /\ todo' \in {todo, Tail(todo)}
    BY <1>6 DEF OpenFails
  <2>3. Tail(todo) \in Seq(Instances)
    BY <2>1
  <2>4. HostTypes'
    BY <1>1, <2>2, <2>3 DEF HostTypes
  <2> QED
    BY <1>1, <2>2, <2>4 DEF RouterTypes, TableTypes, ThreadTypes, StreamTypes
<1>7. CASE NewRouter
  <2>1. /\ UNCHANGED <<config, boots, order, todo, bindings, threads, told, cwd, turns, caller, sources, out, seen>>
        /\ pump' = [i \in Instances |-> IF i \in Range(order) THEN Receiving ELSE pump[i]]
    BY <1>7 DEF NewRouter
  <2>2. pump' \in [Instances -> Pumps]
    BY <1>1, <2>1, RestingFacts DEF ThreadTypes
  <2> QED
    BY <1>1, <2>1, <2>2 DEF RouterTypes, TableTypes, ThreadTypes, StreamTypes, HostTypes
<1>8. CASE ReconcileThreads
  <2>1. UNCHANGED <<config, boots, order, todo, bindings, told, cwd, turns, caller, pump, sources, out, seen>>
    BY <1>8 DEF ReconcileThreads
  <2> QED
    BY <1>1, <1>8, <2>1, ReconcileFacts DEF RouterTypes, TableTypes, ThreadTypes, StreamTypes, HostTypes
<1>9. CASE Stop \/ SessionClosed \/ Down
  BY <1>1, <1>9 DEF Stop, SessionClosed, Down, RouterTypes, TableTypes, ThreadTypes, StreamTypes, HostTypes
<1>10. CASE CloseEntry
  <2>1. order \in Seq(Instances) /\ order # <<>>
    BY <1>1, <1>10 DEF CloseEntry, HostTypes
  <2>2. Last(order) \in Instances /\ Front(order) \in Seq(Instances)
    BY <2>1 DEF Last, Front
  <2>3. /\ UNCHANGED <<config, boots, todo, bindings, told, cwd, turns, caller, pump, queue, buffer,
                       emitted, out, seen>>
        /\ order' \in {order, Front(order)}
        /\ \/ RuntimeClosed(Last(order)) /\ entry' = [entry EXCEPT ![Last(order)] = "closing"]
           \/ UNCHANGED <<runtime, threads, entry>>
    BY <1>10 DEF CloseEntry
  <2>4. threads' \in [Instances -> [Sessions -> Threads \cup {None}]]
    BY <1>1, <2>2, <2>3, ClosedFacts DEF TableTypes
  <2>5. StreamTypes'
    BY <1>1, <2>2, <2>3 DEF StreamTypes, RuntimeClosed
  <2> QED
    BY <1>1, <2>1, <2>2, <2>3, <2>4, <2>5 DEF RouterTypes, TableTypes, ThreadTypes, HostTypes
<1>11. CASE Kill
  <2>1. /\ Fresh /\ todo' = <<>> /\ order' = <<>> /\ caller' = Idle
        /\ UNCHANGED <<config, boots, bindings, told, threads, cwd, turns>>
    BY <1>11 DEF Kill
  <2> QED
    BY <1>1, <2>1, FreshFacts, IdleFacts DEF RouterTypes, TableTypes, ThreadTypes, HostTypes
<1> QED
  BY <1>2, <1>3, <1>4, <1>5, <1>6, <1>7, <1>8, <1>9, <1>10, <1>11 DEF HostStep, CloseStep

LEMMA TypesAgent ==
    ASSUME RouterTypes, NEW i \in Instances, AgentStep(i) \/ EntryStep(i) \/ FailedClose(i)
    PROVE  /\ RouterTypes'
           /\ UNCHANGED <<host, bindings, told, links, cwd, caller, pump, out, seen>>
<1> USE DEF host, files, tables, codex, sources
<1>1. TableTypes /\ ThreadTypes /\ StreamTypes /\ HostTypes
  BY DEF RouterTypes
<1>2. UNCHANGED <<host, bindings, told, links, cwd, turns, caller, pump, out, seen>>
  BY DEF AgentStep, AgentWorks, TurnEnds, EntryStep, FailedClose
<1>3. ASSUME NEW s \in Sessions, NEW kind \in {"item", "ended"}, Emit(i, s, kind) PROVE StreamTypes'
  <2>1. emitted[i] + 1 \in Nat
    BY <1>1 DEF StreamTypes
  <2>2. Event(emitted[i] + 1, s, kind) \in Events
    BY <2>1 DEF Event, Events
  <2>3. Append(queue[i], Event(emitted[i] + 1, s, kind)) \in Seq(Events)
    BY <1>1, <2>2, AppendFacts DEF StreamTypes
  <2> QED
    BY <1>1, <1>2, <1>3, <2>1, <2>3 DEF Emit, StreamTypes
<1>4. ASSUME NEW s \in Sessions, AgentWorks(i, s) PROVE RouterTypes'
  BY <1>1, <1>2, <1>3, <1>4 DEF AgentWorks, RouterTypes, TableTypes, ThreadTypes, HostTypes
<1>5. ASSUME NEW s \in Sessions, TurnEnds(i, s) PROVE RouterTypes'
  <2>1. threads[i][s] \in Threads /\ threads[i][s].ws \in Workspaces
    BY <1>1, <1>5 DEF TurnEnds, TableTypes, Threads
  <2>2. threads' \in [Instances -> [Sessions -> Threads \cup {None}]]
    BY <1>1, <1>5, <2>1, ThreadFacts, SaveThreadFacts DEF TurnEnds
  <2> QED
    BY <1>1, <1>2, <1>3, <1>5, <2>2 DEF TurnEnds, RouterTypes, TableTypes, ThreadTypes, HostTypes
<1>6. CASE EntryStep(i)
  <2>1. UNCHANGED threads
    BY <1>6 DEF EntryStep
  <2>2. queue[i] \in Seq(Events) /\ buffer[i] \in Seq(Events)
    BY <1>1 DEF StreamTypes
  <2>3. queue[i] # <<>> => Tail(queue[i]) \in Seq(Events) /\ Append(buffer[i], Head(queue[i])) \in Seq(Events)
    BY <2>2, HeadFacts, AppendFacts
  <2>4. StreamTypes'
    <3>1. CASE Forward(i)
      <4>1. /\ buffer' = [buffer EXCEPT ![i] = Append(buffer[i], Head(queue[i]))]
            /\ queue' = [queue EXCEPT ![i] = Tail(queue[i])] /\ queue[i] # <<>>
            /\ UNCHANGED <<runtime, entry, emitted>>
        BY <3>1 DEF Forward
      <4> QED
        BY <1>1, <1>2, <2>3, <4>1 DEF StreamTypes
    <3>2. CASE FailWhenFull(i)
      <4>1. /\ queue' = [queue EXCEPT ![i] = Tail(queue[i])] /\ queue[i] # <<>>
            /\ entry' = [entry EXCEPT ![i] = "failing"] /\ UNCHANGED <<runtime, emitted, buffer>>
        BY <3>2 DEF FailWhenFull
      <4> QED
        BY <1>1, <1>2, <2>3, <4>1 DEF StreamTypes
    <3>3. CASE PumpStopped(i)
      BY <1>1, <1>2, <3>3 DEF PumpStopped, StreamTypes
    <3> QED
      BY <1>6, <3>1, <3>2, <3>3 DEF EntryStep
  <2> QED
    BY <1>1, <1>2, <2>1, <2>4 DEF RouterTypes, TableTypes, ThreadTypes, HostTypes
<1>7. CASE FailedClose(i)
  <2>1. threads' \in [Instances -> [Sessions -> Threads \cup {None}]]
    BY <1>1, <1>7, ClosedFacts DEF FailedClose
  <2>2. StreamTypes'
    BY <1>1, <1>2, <1>7 DEF FailedClose, RuntimeClosed, StreamTypes
  <2> QED
    BY <1>1, <1>2, <2>1, <2>2 DEF RouterTypes, TableTypes, ThreadTypes, HostTypes
<1> QED
  BY <1>2, <1>4, <1>5, <1>6, <1>7 DEF AgentStep

LEMMA TypesConsume ==
    ASSUME RouterTypes, Consume
    PROVE  RouterTypes' /\ UNCHANGED <<host, tables, codex, sources, pump, caller, told>>
<1> USE DEF host, tables, codex, sources
<1>1. UNCHANGED <<host, tables, codex, sources, pump, caller, told>>
  BY DEF Consume
<1> DEFINE O == [inst : Instances, event : Events, task : Tasks \cup {None}]
<1>2. out \in Seq(O) /\ out # <<>> /\ out' = Tail(out)
      /\ seen' = [seen EXCEPT ![Head(out).inst] = Head(out).event.n]
  BY DEF Consume, RouterTypes, StreamTypes
<1>3. Head(out) \in O /\ Tail(out) \in Seq(O)
  <2> HIDE DEF O
  <2> QED
    BY <1>2, HeadFacts
<1>4. Head(out).event.n \in Nat
  BY <1>3 DEF Events
<1>5. StreamTypes'
  BY <1>1, <1>2, <1>3, <1>4 DEF RouterTypes, StreamTypes
<1> QED
  BY <1>1, <1>5 DEF RouterTypes, TableTypes, ThreadTypes, HostTypes

LEMMA TypesNext ==
    ASSUME RouterTypes, [Next]_vars
    PROVE  RouterTypes'
<1> USE DEF host, files, tables, codex, sources, UnchangedByCall
<1>1. CASE UNCHANGED vars
  BY <1>1 DEF vars, RouterTypes, TableTypes, ThreadTypes, StreamTypes, HostTypes
<1>2. ASSUME NEW w \in Workspaces, SwapDirectory(w) PROVE RouterTypes'
  BY <1>2 DEF SwapDirectory, RouterTypes, TableTypes, ThreadTypes, StreamTypes, HostTypes
<1>3. CASE Request
  <2>1. TableTypes' /\ ThreadTypes' /\ UNCHANGED <<host, sources, out, seen>>
    BY <1>3, TypesRequest
  <2> QED
    BY <2>1 DEF RouterTypes, StreamTypes, HostTypes
<1>4. CASE CallStep
  <2>1. TableTypes' /\ ThreadTypes' /\ UNCHANGED <<host, sources, out, seen>>
    BY <1>4, TypesCallStep
  <2> QED
    BY <2>1 DEF RouterTypes, StreamTypes, HostTypes
<1>5. ASSUME NEW i \in Instances, RouterStep(i) PROVE RouterTypes'
  <2>1. TableTypes' /\ ThreadTypes' /\ StreamTypes' /\ UNCHANGED host
    BY <1>5, TypesPump
  <2> QED
    BY <2>1 DEF RouterTypes, HostTypes
<1> QED
  BY <1>1, <1>2, <1>3, <1>4, <1>5, TypesHost, TypesAgent, TypesConsume DEF Next

LEMMA TypesInit == Init => RouterTypes
<1> SUFFICES ASSUME Init PROVE RouterTypes
  OBVIOUS
<1>1. TableTypes /\ ThreadTypes
  BY RestingFacts, IdleFacts DEF Init, TableTypes, ThreadTypes
<1>2. <<>> \in Seq(Events) /\ <<>> \in Seq([inst : Instances, event : Events, task : Tasks \cup {None}])
      /\ <<>> \in Seq(Instances)
  OBVIOUS
<1>3. StreamTypes
  BY <1>2 DEF Init, StreamTypes, Empty
<1>4. HostTypes
  BY <1>2, ConfigsFacts DEF Init, HostTypes
<1> QED
  BY <1>1, <1>3, <1>4 DEF RouterTypes

-----------------------------------------------------------------------------
(* Tasks and sessions                                                      *)

LEMMA OutFacts ==
    ASSUME RouterTypes
    PROVE  /\ Len(out) \in Nat
           /\ \A k \in 1..Len(out) : /\ out[k].task \in Tasks \cup {None} /\ out[k].inst \in Instances
                                     /\ out[k].event \in Events /\ out[k].event.n \in Nat
<1> DEFINE O == [inst : Instances, event : Events, task : Tasks \cup {None}]
<1>1. out \in Seq(O)
  BY DEF RouterTypes, StreamTypes
<1>2. Len(out) \in Nat /\ \A k \in 1..Len(out) : out[k] \in O
  <2> HIDE DEF O
  <2> QED
    BY <1>1
<1> QED
  BY <1>2 DEF Events

\* A task ID that was told is never told for another session.
LEMMA ToldGrows ==
    ASSUME RouterTypes, TaskInv, \A t \in Tasks : told[t] # None => told'[t] = told[t]
    PROVE  /\ UNCHANGED out => OutOwned'
           /\ \A i \in Instances : pump'[i] = pump[i] => PumpOwned(i)'
           /\ UNCHANGED caller => CallerOwned'
           /\ \A t \in Tasks : bindings[t] # None => told'[t] = <<bindings[t].inst, bindings[t].session>>
<1>1. \A row \in Bindings : <<row.inst, row.session>> \in Instances \X Sessions
  BY DEF Bindings
<1>2. \A t \in Tasks : \A row \in Bindings : Owns(t, row) => told'[t] = <<row.inst, row.session>>
  BY <1>1 DEF Owns
<1>3. ASSUME UNCHANGED out PROVE OutOwned'
  <2>1. \A k \in 1..Len(out) : out[k].task \in Tasks \cup {None}
    BY OutFacts
  <2> QED
    BY <1>3, <2>1 DEF TaskInv, OutOwned, Carries
<1>4. ASSUME NEW i \in Instances, pump'[i] = pump[i] PROVE PumpOwned(i)'
  <2>1. pump[i] \in Pumps
    BY DEF RouterTypes, ThreadTypes
  <2>2. pump[i].at = "save" => pump[i].task \in Tasks /\ pump[i].row \in Bindings
    BY <2>1, PumpFacts
  <2>3. pump[i].at \in {"save", "send"} => pump[i].task \in Tasks \cup {None}
    BY <2>1, PumpFacts
  <2>4. PumpOwned(i)
    BY DEF TaskInv
  <2> QED
    BY <1>2, <1>4, <2>2, <2>3, <2>4 DEF PumpOwned, Carries, Owns
<1>5. ASSUME UNCHANGED caller PROVE CallerOwned'
  <2>1. caller.at \in {"resumed", "starting", "started"} => caller.task \in Tasks /\ caller.row \in Bindings
    BY CallFacts DEF RouterTypes, ThreadTypes
  <2> QED
    BY <1>2, <1>5, <2>1 DEF TaskInv, CallerOwned, Owns
<1>6. \A t \in Tasks : bindings[t] # None => told'[t] = <<bindings[t].inst, bindings[t].session>>
  BY <1>2 DEF TaskInv, BindingsOwned, RouterTypes, TableTypes
<1> QED
  BY <1>3, <1>4, <1>5, <1>6

\* A step that writes no binding and answers nobody.
LEMMA TaskKept ==
    ASSUME RouterTypes, RouterTypes', TaskInv, UNCHANGED <<told, caller, out>>,
           \A t \in Tasks : bindings'[t] \in {bindings[t], None},
           \A i \in Instances : pump'[i] = pump[i] \/ pump'[i].at \in {"receive", "ended"}
    PROVE  TaskInv'
<1>1. /\ OutOwned' /\ CallerOwned' /\ \A i \in Instances : pump'[i] = pump[i] => PumpOwned(i)'
      /\ \A t \in Tasks : bindings[t] # None => told'[t] = <<bindings[t].inst, bindings[t].session>>
  BY ToldGrows
<1>2. BindingsOwned'
  BY <1>1 DEF BindingsOwned, Owns
<1>3. \A i \in Instances : PumpOwned(i)'
  BY <1>1 DEF PumpOwned
<1> QED
  BY <1>1, <1>2, <1>3 DEF TaskInv

LEMMA TaskRequest ==
    ASSUME RouterTypes, RouterTypes', TaskInv, Request
    PROVE  TaskInv'
<1> USE DEF host, sources
<1>1. UNCHANGED <<bindings, told, pump, out>>
  BY TypesRequest
<1>2. OutOwned' /\ \A i \in Instances : PumpOwned(i)'
  BY <1>1, ToldGrows
<1>3. BindingsOwned'
  BY <1>1 DEF TaskInv, BindingsOwned, Owns
<1>4. CallerOwned'
  <2>1. ASSUME NEW t \in Tasks, bindings[t] # None, NEW w \in Workspaces, ResumeThread(t, w) \/ StartTurn(t, w)
        PROVE  CallerOwned'
    <3>1. caller'.task = t /\ caller'.row = bindings[t]
      BY <2>1 DEF ResumeThread, StartTurn, Calling
    <3> QED
      BY <1>1, <2>1, <3>1 DEF TaskInv, BindingsOwned, CallerOwned, Owns
  <2>2. ASSUME NEW w \in Workspaces, NEW i \in Instances,
               ListThreads(w, i) \/ \E s \in Sessions : StartThread(w, i, s)
        PROVE  CallerOwned'
    <3>1. caller'.at \in {"list", "bind"}
      BY <2>2 DEF ListThreads, StartThread
    <3> QED
      BY <3>1 DEF CallerOwned
  <2> QED
    BY <2>1, <2>2 DEF Request
<1> QED
  BY <1>2, <1>3, <1>4 DEF TaskInv

LEMMA TaskCallStep ==
    ASSUME RouterTypes, RouterTypes', TaskInv, CallStep
    PROVE  TaskInv'
<1> USE DEF host, sources, UnchangedByCall, codex
<1>1. UNCHANGED <<pump, out>> /\ caller \in Calls /\ TableTypes
  BY TypesCallStep DEF RouterTypes, ThreadTypes
<1>2. ASSUME NEW i \in Instances, NEW s \in Sessions, NEW w \in Workspaces, BindThread(i, s, w),
             caller'.at \in {"idle", "list"}
      PROVE  TaskInv'
  <2>1. /\ \A t \in Tasks : told[t] # None => told'[t] = told[t]
        /\ \A t \in Tasks : \/ bindings'[t] = bindings[t]
                            \/ told'[t] = <<i, s>> /\ bindings'[t].inst = i /\ bindings'[t].session = s
    BY <1>1, <1>2, BindFacts
  <2>2. /\ OutOwned' /\ \A j \in Instances : PumpOwned(j)'
        /\ \A t \in Tasks : bindings[t] # None => told'[t] = <<bindings[t].inst, bindings[t].session>>
    BY <1>1, <2>1, ToldGrows
  <2>3. BindingsOwned'
    BY <2>1, <2>2 DEF BindingsOwned, Owns
  <2> QED
    BY <1>2, <2>2, <2>3 DEF TaskInv, CallerOwned
<1>3. ASSUME caller.at \in {"resumed", "started"}, NEW n \in Nat, UNCHANGED told, caller' = Idle,
             SaveBindingState(caller.task, caller.row, n)
      PROVE  TaskInv'
  <2>1. caller.task \in Tasks /\ caller.row \in Bindings
    BY <1>1, <1>3, CallFacts
  <2>2. /\ bindings'[caller.task].inst = caller.row.inst /\ bindings'[caller.task].session = caller.row.session
        /\ \A u \in Tasks : u # caller.task => bindings'[u] = bindings[u]
    BY <1>1, <1>3, <2>1, SaveBindingFacts
  <2>3. BindingsOwned'
    BY <1>3, <2>2 DEF TaskInv, BindingsOwned, CallerOwned, Owns
  <2>4. OutOwned' /\ \A j \in Instances : PumpOwned(j)'
    BY <1>1, <1>3, ToldGrows
  <2> QED
    BY <1>3, <2>3, <2>4, IdleFacts DEF TaskInv, CallerOwned
<1>4. CASE BindStarted
  <2>1. /\ caller.inst \in Instances /\ caller.session \in Sessions /\ caller.ws \in Workspaces
        /\ BindThread(caller.inst, caller.session, caller.ws) /\ caller' = Idle
    BY <1>1, <1>4, CallFacts DEF BindStarted
  <2> QED
    BY <1>2, <2>1, IdleFacts
<1>5. ASSUME NEW s \in Sessions, BindListed(s) PROVE TaskInv'
  <2>1. /\ caller \in [at : {"list"}, inst : Instances, rest : SUBSET Sessions, ws : Workspaces]
        /\ BindThread(caller.inst, s, caller.ws)
        /\ caller' = Idle \/ caller' = [caller EXCEPT !.rest = @ \ {s}]
    BY <1>1, <1>5, CallFacts DEF BindListed
  <2>2. caller.inst \in Instances /\ caller.ws \in Workspaces /\ caller'.at \in {"idle", "list"}
    BY <2>1, IdleFacts
  <2> QED
    BY <1>2, <2>1, <2>2
<1>6. CASE SaveResumed
  BY <1>3, <1>6 DEF SaveResumed
<1>7. CASE SaveStarted
  <2>1. caller.n \in Nat
    BY <1>1, <1>7, CallFacts DEF SaveStarted
  <2> QED
    BY <1>3, <1>7, <2>1 DEF SaveStarted
<1>8. CASE TurnStarts \/ TurnRefused \/ TurnAmbiguous \/ CallFails
  <2>1. UNCHANGED <<bindings, told>>
    BY <1>8 DEF TurnStarts, TurnRefused, TurnAmbiguous, CallFails
  <2>2. \/ caller' = Idle
        \/ caller.at = "starting" /\ caller'.task = caller.task /\ caller'.row = caller.row
    BY <1>8 DEF TurnStarts, TurnRefused, TurnAmbiguous, CallFails
  <2>3. CallerOwned'
    BY <2>1, <2>2, IdleFacts DEF TaskInv, CallerOwned, Owns
  <2>4. OutOwned' /\ (\A j \in Instances : PumpOwned(j)') /\ BindingsOwned'
    BY <1>1, <2>1, ToldGrows DEF BindingsOwned, Owns
  <2> QED
    BY <2>3, <2>4 DEF TaskInv
<1> QED
  BY <1>4, <1>5, <1>6, <1>7, <1>8 DEF CallStep

LEMMA TaskPump ==
    ASSUME RouterTypes, RouterTypes', TaskInv, NEW i \in Instances, RouterStep(i)
    PROVE  TaskInv'
<1> USE DEF host, files, codex, sources, UnchangedByPump
<1>1. UNCHANGED <<told, caller>> /\ \A j \in Instances : j # i => pump'[j] = pump[j]
  BY TypesPump
<1>2. /\ UNCHANGED out => OutOwned'
      /\ CallerOwned' /\ \A j \in Instances : j # i => PumpOwned(j)'
      /\ \A t \in Tasks : bindings[t] # None => told'[t] = <<bindings[t].inst, bindings[t].session>>
  BY <1>1, ToldGrows
<1>3. UNCHANGED bindings => BindingsOwned'
  BY <1>2 DEF BindingsOwned, Owns
<1>4. pump \in [Instances -> Pumps] /\ pump[i] \in Pumps /\ TableTypes
  BY DEF RouterTypes, ThreadTypes
<1>5. CASE Take(i) \/ BindingUnavailable(i) \/ SourceEnds(i)
  <2>1. \/ pump'[i].at \in {"bind", "ended"}
        \/ pump'[i].at = "send" /\ pump'[i].task = None
    BY <1>4, <1>5 DEF Take, BindingUnavailable, SourceEnds, SetPump
  <2>2. PumpOwned(i)'
    BY <2>1 DEF PumpOwned, Carries
  <2> QED
    BY <1>2, <1>3, <1>5, <2>2 DEF Take, BindingUnavailable, SourceEnds, TaskInv
<1>6. CASE FindBinding(i)
  <2>1. PICK t \in TaskBindingByNativeSession(i, pump[i].event.session) :
            SetPump(i, [at |-> IF pump[i].event.kind = "ended" THEN "save" ELSE "send",
                        event |-> pump[i].event, task |-> t, row |-> bindings[t]])
    BY <1>6 DEF FindBinding
  <2>2. /\ t \in Tasks /\ bindings[t] # None /\ bindings[t].inst = i /\ bindings[t].session = pump[i].event.session
        /\ bindings[t] \in Bindings
    BY <1>4 DEF TaskBindingByNativeSession, Bound, TableTypes
  <2>3. pump'[i].event = pump[i].event /\ pump'[i].task = t /\ pump'[i].row = bindings[t]
    BY <1>4, <2>1 DEF SetPump
  <2>4. told'[t] = <<i, pump[i].event.session>>
    BY <1>2, <2>2
  <2>5. <<i, pump[i].event.session>> \in Instances \X Sessions
    BY <2>2 DEF Bindings
  <2>6. PumpOwned(i)'
    BY <2>2, <2>3, <2>4, <2>5 DEF PumpOwned, Carries, Owns
  <2> QED
    BY <1>2, <1>3, <1>6, <2>6 DEF FindBinding, TaskInv
<1>7. CASE SaveEnded(i)
  <2>1. pump[i] \in [at : {"save", "send"}, event : Events, task : Tasks, row : Bindings] /\ pump[i].at = "save"
    BY <1>4, <1>7, PumpFacts DEF SaveEnded
  <2>2. pump[i].task \in Tasks /\ pump[i].row \in Bindings /\ Owns(pump[i].task, pump[i].row)
        /\ Carries(pump[i].task, i, pump[i].event)
    BY <2>1 DEF TaskInv, PumpOwned
  <2>3. pump'[i] = [pump[i] EXCEPT !.at = "send"]
    BY <1>4, <1>7 DEF SaveEnded, SetPump
  <2>4. pump'[i].at = "send" /\ pump'[i].task = pump[i].task /\ pump'[i].event = pump[i].event
    BY <2>1, <2>3
  <2>5. PumpOwned(i)'
    BY <1>1, <2>2, <2>4 DEF PumpOwned, Carries
  <2>6. UNCHANGED bindings \/ SaveBindingState(pump[i].task, pump[i].row, 0)
    BY <1>7 DEF SaveEnded
  <2>7. BindingsOwned'
    <3>1. CASE SaveBindingState(pump[i].task, pump[i].row, 0)
      <4>1. /\ bindings'[pump[i].task].inst = pump[i].row.inst
            /\ bindings'[pump[i].task].session = pump[i].row.session
            /\ \A u \in Tasks : u # pump[i].task => bindings'[u] = bindings[u]
        BY <1>4, <2>2, <3>1, SaveBindingFacts
      <4> QED
        BY <1>1, <2>2, <4>1 DEF TaskInv, BindingsOwned, Owns
    <3> QED
      BY <1>3, <2>6, <3>1
  <2> QED
    BY <1>2, <1>7, <2>5, <2>7 DEF SaveEnded, TaskInv
<1>8. CASE Send(i)
  <2>1. /\ pump'[i] = Receiving /\ UNCHANGED bindings
        /\ out' = Append(out, [inst |-> i, event |-> pump[i].event, task |-> pump[i].task])
        /\ pump[i].at = "send"
    BY <1>4, <1>8 DEF Send, SetPump
  <2>2. PumpOwned(i)'
    BY <2>1, RestingFacts DEF PumpOwned
  <2>3. Carries(pump[i].task, i, pump[i].event)
    BY <2>1 DEF TaskInv, PumpOwned
  <2>4. out \in Seq([inst : Instances, event : Events, task : Tasks \cup {None}])
    BY DEF RouterTypes, StreamTypes
  <2>5. [inst |-> i, event |-> pump[i].event, task |-> pump[i].task]
            \in [inst : Instances, event : Events, task : Tasks \cup {None}]
    BY <1>4, <2>1, PumpFacts
  <2>6. /\ Len(out') = Len(out) + 1 /\ Len(out) \in Nat
        /\ out'[Len(out) + 1] = [inst |-> i, event |-> pump[i].event, task |-> pump[i].task]
        /\ \A k \in 1..Len(out) : out'[k] = out[k]
    BY <2>1, <2>4, <2>5, AppendFacts
  <2>7. OutOwned'
    <3> SUFFICES ASSUME NEW k \in 1..Len(out') PROVE Carries(out[k].task, out[k].inst, out[k].event)'
      BY DEF OutOwned
    <3>1. CASE k = Len(out) + 1
      BY <1>1, <2>3, <2>6, <3>1 DEF Carries
    <3>2. CASE k # Len(out) + 1
      <4>1. k \in 1..Len(out)
        BY <2>6, <3>2
      <4> QED
        BY <1>1, <2>6, <4>1 DEF TaskInv, OutOwned, Carries
    <3> QED
      BY <3>1, <3>2
  <2> QED
    BY <1>2, <1>3, <2>1, <2>2, <2>7 DEF TaskInv
<1> QED
  BY <1>5, <1>6, <1>7, <1>8 DEF RouterStep

LEMMA TaskHost ==
    ASSUME RouterTypes, RouterTypes', TaskInv, HostStep \/ CloseStep
    PROVE  TaskInv'
<1> USE DEF host, files, tables, codex, sources
<1>1. UNCHANGED told
  BY DEF HostStep, CloseStep, Start, RegisterWorkspaces, RegisterAgents, OpenNext, OpenFails, NewRouter,
     ReconcileThreads, ReloadWorkspaces, Stop, Kill, SessionClosed, CloseEntry, Down
<1>2. CASE Start \/ Kill
  <2>1. out' = <<>> /\ (\A i \in Instances : pump'[i].at = "ended") /\ UNCHANGED bindings
        /\ (UNCHANGED caller \/ caller' = Idle)
    BY <1>2 DEF Start, Kill, Fresh
  <2>2. CallerOwned'
    BY <1>1, <2>1, IdleFacts DEF TaskInv, CallerOwned, Owns
  <2>3. OutOwned' /\ BindingsOwned' /\ \A i \in Instances : PumpOwned(i)'
    BY <1>1, <2>1 DEF TaskInv, OutOwned, BindingsOwned, PumpOwned, Owns
  <2> QED
    BY <2>2, <2>3 DEF TaskInv
<1>3. CASE RegisterWorkspaces \/ ReloadWorkspaces
  <2>1. (ReplaceWorkspaces(config) \/ UNCHANGED bindings) /\ UNCHANGED <<caller, pump, out>>
    BY <1>3 DEF RegisterWorkspaces, ReloadWorkspaces
  <2>2. \A t \in Tasks : bindings'[t] \in {bindings[t], None}
    BY <2>1, ReplaceFacts DEF RouterTypes
  <2> QED
    BY <1>1, <2>1, <2>2, TaskKept
<1>4. CASE NewRouter
  <2>1. UNCHANGED <<bindings, caller, out>>
        /\ pump' = [i \in Instances |-> IF i \in Range(order) THEN Receiving ELSE pump[i]]
    BY <1>4 DEF NewRouter
  <2> QED
    BY <1>1, <2>1, TaskKept, RestingFacts
<1>5. CASE RegisterAgents \/ OpenNext \/ OpenFails \/ ReconcileThreads \/ Stop \/ CloseStep
  <2>1. UNCHANGED <<bindings, caller, out, pump>>
    BY <1>5 DEF RegisterAgents, OpenNext, OpenFails, ReconcileThreads, Stop, CloseStep, SessionClosed,
       CloseEntry, Down
  <2> QED
    BY <1>1, <2>1, TaskKept
<1> QED
  BY <1>2, <1>3, <1>4, <1>5 DEF HostStep

LEMMA TaskConsume ==
    ASSUME RouterTypes, RouterTypes', TaskInv, Consume
    PROVE  TaskInv'
<1> USE DEF host, tables, codex, sources
<1>1. UNCHANGED <<bindings, told, caller, pump>>
  BY TypesConsume
<1>2. /\ out \in Seq([inst : Instances, event : Events, task : Tasks \cup {None}]) /\ out # <<>>
      /\ out' = Tail(out)
  BY DEF Consume, RouterTypes, StreamTypes
<1>3. Len(out') = Len(out) - 1 /\ Len(out) \in Nat /\ \A k \in 1..Len(out') : out'[k] = out[k + 1]
  BY <1>2, HeadFacts
<1>4. OutOwned'
  <2> SUFFICES ASSUME NEW k \in 1..Len(out') PROVE Carries(out[k].task, out[k].inst, out[k].event)'
    BY DEF OutOwned
  <2>1. k + 1 \in 1..Len(out) /\ out'[k] = out[k + 1]
    BY <1>3
  <2>2. Carries(out[k + 1].task, out[k + 1].inst, out[k + 1].event)
    BY <2>1 DEF TaskInv, OutOwned
  <2> QED
    BY <1>1, <2>1, <2>2 DEF Carries
<1>5. CallerOwned' /\ \A i \in Instances : PumpOwned(i)'
  BY <1>1, ToldGrows
<1>6. BindingsOwned'
  BY <1>1 DEF TaskInv, BindingsOwned, Owns
<1> QED
  BY <1>4, <1>5, <1>6 DEF TaskInv

LEMMA TaskNext ==
    ASSUME RouterTypes, RouterTypes', TaskInv, [Next]_vars
    PROVE  TaskInv'
<1> USE DEF host, files, tables, codex, sources
<1>1. ASSUME UNCHANGED <<bindings, told, caller, pump, out>> PROVE TaskInv'
  BY <1>1, TaskKept
<1>2. CASE UNCHANGED vars
  BY <1>1, <1>2 DEF vars
<1>3. ASSUME NEW w \in Workspaces, SwapDirectory(w) PROVE TaskInv'
  BY <1>1, <1>3 DEF SwapDirectory
<1>4. ASSUME NEW i \in Instances, AgentStep(i) \/ EntryStep(i) \/ FailedClose(i) PROVE TaskInv'
  BY <1>1, <1>4, TypesAgent
<1> QED
  BY <1>2, <1>3, <1>4, TaskRequest, TaskCallStep, TaskPump, TaskHost, TaskConsume DEF Next

LEMMA TaskInit == Init => TaskInv
BY IdleFacts DEF Init, TaskInv, BindingsOwned, CallerOwned, PumpOwned, OutOwned

-----------------------------------------------------------------------------
(* Places of rows, and what the registration keeps                         *)

\* What a call that begins does.
Listed(w, i) ==
    /\ caller'.at = "list" /\ caller'.inst = i /\ caller'.ws = w
    /\ \A s \in caller'.rest : cwd[i][s] = w
    /\ links[w] # {} /\ UNCHANGED <<threads, cwd>>

Created(w, i, s) ==
    /\ caller' = [at |-> "bind", inst |-> i, session |-> s, ws |-> w]
    /\ links[w] # {} /\ cwd[i][s] = None /\ cwd' = [cwd EXCEPT ![i][s] = w]
    /\ SaveRuntimeThread(i, s, Thread(w, "idle", 0))

Called(t, state) ==
    /\ bindings[t] # None /\ caller'.task = t /\ caller'.row = bindings[t]
    /\ caller'.at \in {"resumed", "starting"} /\ UNCHANGED cwd
    /\ SaveRuntimeThread(bindings[t].inst, bindings[t].session, Thread(bindings[t].ws, state, 0))

LEMMA RequestEffects ==
    ASSUME Request
    PROVE  \/ \E w \in Workspaces, i \in Instances : Listed(w, i)
           \/ \E w \in Workspaces, i \in Instances, s \in Sessions : Created(w, i, s)
           \/ \E t \in Tasks, state \in {"idle", "starting"} : Called(t, state)
<1> USE DEF codex, UnchangedByCall
<1>1. ASSUME NEW w \in Workspaces, NEW i \in Instances, ListThreads(w, i) PROVE Listed(w, i)
  BY <1>1 DEF ListThreads, SourceFor, Listed
<1>2. ASSUME NEW w \in Workspaces, NEW i \in Instances, NEW s \in Sessions, StartThread(w, i, s)
      PROVE  Created(w, i, s)
  BY <1>2 DEF StartThread, SourceFor, Created
<1>3. ASSUME NEW t \in Tasks, NEW w \in Workspaces, ResumeThread(t, w) PROVE Called(t, "idle")
  BY <1>3 DEF ResumeThread, ResolveTask, Calling, Called
<1>4. ASSUME NEW t \in Tasks, NEW w \in Workspaces, StartTurn(t, w) PROVE Called(t, "starting")
  BY <1>4 DEF StartTurn, ResolveTask, Calling, Called
<1> QED
  BY <1>1, <1>2, <1>3, <1>4 DEF Request

\* What a call under way does next.
BindStep(i, s, w) ==
    /\ BindThread(i, s, w) /\ cwd[i][s] = w /\ UNCHANGED threads
    /\ caller.at \in {"bind", "list"} /\ caller.ws = w
    /\ \/ caller' = Idle
       \/ /\ caller.at = "list" /\ caller'.at = "list" /\ caller'.inst = caller.inst /\ caller'.ws = w
          /\ caller'.rest \subseteq caller.rest

SaveStep(n) ==
    /\ caller.at \in {"resumed", "started"} /\ caller' = Idle /\ UNCHANGED <<threads, told>>
    /\ SaveBindingState(caller.task, caller.row, n)

TurnStep(state, n) ==
    /\ caller.at = "starting" /\ UNCHANGED <<bindings, told>>
    /\ SaveRuntimeThread(caller.row.inst, caller.row.session, Thread(caller.row.ws, state, n))
    /\ \/ caller' = Idle
       \/ caller'.at = "started" /\ caller'.task = caller.task /\ caller'.row = caller.row

LEMMA CallEffects ==
    ASSUME RouterTypes, CallerPlaced, CallStep
    PROVE  \/ \E i \in Instances, s \in Sessions, w \in Workspaces : BindStep(i, s, w)
           \/ \E n \in Nat : SaveStep(n)
           \/ \E state \in {"idle", "active", "needs_reconcile"}, n \in Nat : TurnStep(state, n)
           \/ caller' = Idle /\ UNCHANGED <<bindings, threads, told>>
<1> USE DEF codex, UnchangedByCall
<1>1. caller \in Calls /\ turns \in Nat
  BY DEF RouterTypes, ThreadTypes, TableTypes
<1>2. CASE BindStarted
  <2>1. caller.inst \in Instances /\ caller.session \in Sessions /\ caller.ws \in Workspaces
    BY <1>1, <1>2, CallFacts DEF BindStarted
  <2>2. BindStep(caller.inst, caller.session, caller.ws)
    BY <1>2 DEF BindStarted, BindStep, CallerPlaced
  <2> QED
    BY <2>1, <2>2
<1>3. ASSUME NEW s \in Sessions, BindListed(s)
      PROVE  \E i \in Instances, w \in Workspaces : BindStep(i, s, w)
  <2>1. caller \in [at : {"list"}, inst : Instances, rest : SUBSET Sessions, ws : Workspaces]
    BY <1>1, <1>3, CallFacts DEF BindListed
  <2>2. caller' = Idle \/ caller' = [caller EXCEPT !.rest = @ \ {s}]
    BY <1>3 DEF BindListed
  <2>3. \/ caller' = Idle
        \/ /\ caller'.at = "list" /\ caller'.inst = caller.inst /\ caller'.ws = caller.ws
           /\ caller'.rest \subseteq caller.rest
    BY <2>1, <2>2
  <2>4. BindStep(caller.inst, s, caller.ws)
    BY <1>3, <2>1, <2>3 DEF BindListed, BindStep, CallerPlaced
  <2> QED
    BY <2>1, <2>4
<1>4. CASE SaveResumed
  BY <1>4 DEF SaveResumed, SaveStep
<1>5. CASE SaveStarted
  <2>1. caller.n \in Nat
    BY <1>1, <1>5, CallFacts DEF SaveStarted
  <2> QED
    BY <1>5, <2>1 DEF SaveStarted, SaveStep
<1>6. CASE TurnStarts
  <2>1. TurnStep("active", turns + 1)
    BY <1>6 DEF TurnStarts, TurnStep
  <2> QED
    BY <1>1, <2>1
<1>7. CASE TurnRefused
  BY <1>7 DEF TurnRefused, TurnStep
<1>8. CASE TurnAmbiguous
  BY <1>8 DEF TurnAmbiguous, TurnStep
<1>9. CASE CallFails
  BY <1>9 DEF CallFails
<1> QED
  BY <1>2, <1>3, <1>4, <1>5, <1>6, <1>7, <1>8, <1>9 DEF CallStep

\* What a pump does to the bindings, and with what it goes on.
PumpSaves(i) ==
    /\ pump[i].at = "save" /\ phase # "down" /\ pump'[i].at = "send"
    /\ SaveBindingState(pump[i].task, pump[i].row, 0)

PumpFinds(i, t) ==
    /\ pump[i].at = "bind" /\ phase # "down" /\ UNCHANGED bindings
    /\ bindings[t] # None /\ pump'[i].row = bindings[t]

LEMMA PumpEffects ==
    ASSUME RouterTypes, NEW i \in Instances, RouterStep(i)
    PROVE  /\ pump[i].at # "ended"
           /\ \/ PumpSaves(i)
              \/ \E t \in Tasks : PumpFinds(i, t)
              \/ pump'[i].at # "save" /\ UNCHANGED bindings
<1> USE DEF UnchangedByPump
<1>1. pump \in [Instances -> Pumps] /\ pump[i] \in Pumps
  BY DEF RouterTypes, ThreadTypes
<1>2. CASE Take(i) \/ BindingUnavailable(i) \/ Send(i) \/ SourceEnds(i)
  BY <1>1, <1>2, RestingFacts DEF Take, BindingUnavailable, Send, SourceEnds, SetPump
<1>3. CASE FindBinding(i)
  <2>1. PICK t \in TaskBindingByNativeSession(i, pump[i].event.session) :
            SetPump(i, [at |-> IF pump[i].event.kind = "ended" THEN "save" ELSE "send",
                        event |-> pump[i].event, task |-> t, row |-> bindings[t]])
    BY <1>3 DEF FindBinding
  <2>2. t \in Tasks /\ bindings[t] # None
    BY DEF TaskBindingByNativeSession, Bound
  <2>3. pump'[i].row = bindings[t]
    BY <1>1, <2>1 DEF SetPump
  <2> QED
    BY <1>3, <2>2, <2>3 DEF FindBinding, PumpFinds
<1>4. CASE SaveEnded(i)
  <2>1. pump[i] \in [at : {"save", "send"}, event : Events, task : Tasks, row : Bindings]
    BY <1>1, <1>4, PumpFacts DEF SaveEnded
  <2>2. pump'[i] = [pump[i] EXCEPT !.at = "send"]
    BY <1>1, <1>4 DEF SaveEnded, SetPump
  <2>3. pump'[i].at = "send"
    BY <2>1, <2>2
  <2> QED
    BY <1>4, <2>3 DEF SaveEnded, PumpSaves
<1> QED
  BY <1>2, <1>3, <1>4 DEF RouterStep

LEMMA EarlyNext ==
    ASSUME RouterTypes, RouterTypes', EarlyInv, [Next]_vars
    PROVE  EarlyInv'
<1> USE DEF host, files, tables, codex, sources
<1>1. ASSUME UNCHANGED <<phase, caller, out, pump, seen>> PROVE EarlyInv'
  BY <1>1 DEF EarlyInv
<1>2. CASE UNCHANGED vars
  BY <1>1, <1>2 DEF vars
<1>3. ASSUME NEW w \in Workspaces, SwapDirectory(w) PROVE EarlyInv'
  BY <1>1, <1>3 DEF SwapDirectory
<1>4. ASSUME NEW i \in Instances, AgentStep(i) \/ EntryStep(i) \/ FailedClose(i) PROVE EarlyInv'
  BY <1>1, <1>4, TypesAgent
<1>5. CASE Request \/ CallStep
  <2>1. UNCHANGED phase /\ phase \in {"running", "stopping"}
    BY <1>5, TypesRequest, TypesCallStep
  <2> QED
    BY <2>1 DEF EarlyInv
<1>6. ASSUME NEW i \in Instances, RouterStep(i) PROVE EarlyInv'
  <2>1. UNCHANGED <<phase, caller>> /\ pump[i].at # "ended"
    BY <1>6, TypesPump, PumpEffects
  <2> QED
    BY <2>1 DEF EarlyInv
<1>7. CASE Consume
  <2>1. UNCHANGED <<phase, caller>> /\ phase \in {"running", "stopping"}
    BY <1>7 DEF Consume
  <2> QED
    BY <2>1 DEF EarlyInv
<1>8. CASE Start \/ Kill
  BY <1>8 DEF Start, Kill, Fresh, EarlyInv
<1>9. CASE NewRouter \/ ReconcileThreads \/ Stop \/ SessionClosed \/ Down
  <2>1. UNCHANGED caller /\ phase' \notin {"loading", "agents", "opening"}
    BY <1>9 DEF NewRouter, ReconcileThreads, Stop, SessionClosed, Down
  <2>2. caller # Idle => phase' \in {"running", "stopping"}
    BY <1>9 DEF NewRouter, ReconcileThreads, Stop, SessionClosed, Down, EarlyInv
  <2> QED
    BY <2>1, <2>2 DEF EarlyInv
<1>10. CASE RegisterWorkspaces \/ RegisterAgents \/ OpenNext \/ OpenFails
  <2>1. UNCHANGED <<caller, out, pump, seen>> /\ phase \in {"loading", "agents", "opening"}
    BY <1>10 DEF RegisterWorkspaces, RegisterAgents, OpenNext, OpenFails
  <2> QED
    BY <2>1 DEF EarlyInv
<1>11. CASE ReloadWorkspaces \/ CloseEntry
  BY <1>1, <1>11 DEF ReloadWorkspaces, CloseEntry
<1> QED
  BY <1>2, <1>3, <1>4, <1>5, <1>6, <1>7, <1>8, <1>9, <1>10, <1>11 DEF Next, HostStep, CloseStep

LEMMA EarlyInit == Init => EarlyInv
BY DEF Init, EarlyInv

\* Apart from the calls no Thread becomes uncertain, and none changes its workspace.
ThreadsTamed ==
    \A i \in Instances : \A s \in Sessions :
        \/ threads'[i][s] = None
        \/ threads'[i][s] = threads[i][s]
        \/ /\ threads[i][s] # None /\ threads'[i][s].ws = threads[i][s].ws
           /\ threads'[i][s].state = "idle" \/ threads[i][s].state # "idle"

LEMMA AgentEffects ==
    ASSUME RouterTypes, NEW i \in Instances, AgentStep(i) \/ EntryStep(i) \/ FailedClose(i)
    PROVE  ThreadsTamed
<1> USE DEF tables
<1>1. TableTypes /\ threads \in [Instances -> [Sessions -> Threads \cup {None}]]
  BY DEF RouterTypes, TableTypes
<1>2. CASE EntryStep(i)
  BY <1>2 DEF EntryStep, ThreadsTamed
<1>3. ASSUME NEW s \in Sessions, AgentWorks(i, s) PROVE ThreadsTamed
  BY <1>3 DEF AgentWorks, ThreadsTamed
<1>4. ASSUME NEW s \in Sessions, TurnEnds(i, s) PROVE ThreadsTamed
  <2> DEFINE row == Thread(threads[i][s].ws, "idle", 0)
  <2>1. threads[i][s] # None /\ SaveRuntimeThread(i, s, row)
    BY <1>4 DEF TurnEnds
  <2>2. threads[i][s].ws \in Workspaces
    BY <1>1, <2>1 DEF Threads
  <2>3. row \in Threads /\ row.ws = threads[i][s].ws /\ row.state = "idle"
    BY <2>2, ThreadFacts
  <2> HIDE DEF row
  <2>4. /\ threads'[i][s] = row
        /\ \A j \in Instances : \A u \in Sessions : <<j, u>> # <<i, s>> => threads'[j][u] = threads[j][u]
    BY <1>1, <2>1, <2>3, SaveThreadFacts
  <2> QED
    BY <2>1, <2>3, <2>4 DEF ThreadsTamed
<1>5. CASE FailedClose(i)
  <2>1. RuntimeClosed(i)
    BY <1>5 DEF FailedClose
  <2> QED
    BY <1>1, <2>1, ClosedFacts DEF ThreadsTamed
<1> QED
  BY <1>2, <1>3, <1>4, <1>5 DEF AgentStep

LEMMA HostEffects ==
    ASSUME RouterTypes, HostStep \/ CloseStep
    PROVE  /\ ThreadsTamed /\ UNCHANGED <<cwd, told>> /\ caller' \in {caller, Idle}
           /\ \A t \in Tasks : bindings'[t] \in {bindings[t], None}
           /\ \A i \in Instances : pump'[i] = pump[i] \/ pump'[i].at \in {"receive", "ended"}
<1> USE DEF host, files, tables, codex, sources
<1>1. TableTypes /\ UNCHANGED <<cwd, told>> /\ caller' \in {caller, Idle}
  BY DEF HostStep, CloseStep, Start, RegisterWorkspaces, RegisterAgents, OpenNext, OpenFails, NewRouter,
     ReconcileThreads, ReloadWorkspaces, Stop, Kill, SessionClosed, CloseEntry, Down, RouterTypes
<1>2. CASE RegisterWorkspaces \/ ReloadWorkspaces
  <2>1. (ReplaceWorkspaces(config) \/ UNCHANGED <<bindings, threads>>) /\ UNCHANGED pump
    BY <1>2 DEF RegisterWorkspaces, ReloadWorkspaces
  <2>2. /\ \A t \in Tasks : bindings'[t] \in {bindings[t], None}
        /\ \A i \in Instances : \A s \in Sessions : threads'[i][s] = None \/ threads'[i][s] = threads[i][s]
    BY <1>1, <2>1, ReplaceFacts
  <2> QED
    BY <1>1, <2>1, <2>2 DEF ThreadsTamed
<1>3. CASE Start \/ Kill
  <2>1. UNCHANGED <<bindings, threads>> /\ \A i \in Instances : pump'[i].at = "ended"
    BY <1>3 DEF Start, Kill, Fresh
  <2> QED
    BY <1>1, <2>1 DEF ThreadsTamed
<1>4. CASE NewRouter
  <2>1. UNCHANGED <<bindings, threads>>
        /\ pump' = [i \in Instances |-> IF i \in Range(order) THEN Receiving ELSE pump[i]]
    BY <1>4 DEF NewRouter
  <2> QED
    BY <1>1, <2>1, RestingFacts DEF ThreadsTamed
<1>5. CASE ReconcileThreads
  <2>1. UNCHANGED <<bindings, pump>>
    BY <1>5 DEF ReconcileThreads
  <2> QED
    BY <1>1, <1>5, <2>1, ReconcileFacts DEF ThreadsTamed
<1>6. CASE CloseEntry
  <2>1. order \in Seq(Instances) /\ order # <<>>
    BY <1>6 DEF CloseEntry, RouterTypes, HostTypes
  <2>2. Last(order) \in Instances
    BY <2>1 DEF Last
  <2>3. UNCHANGED <<bindings, pump>> /\ (RuntimeClosed(Last(order)) \/ UNCHANGED threads)
    BY <1>6 DEF CloseEntry
  <2>4. ThreadsTamed
    BY <1>1, <2>2, <2>3, ClosedFacts DEF ThreadsTamed
  <2> QED
    BY <1>1, <2>3, <2>4
<1>7. CASE RegisterAgents \/ OpenNext \/ OpenFails \/ Stop \/ SessionClosed \/ Down
  <2>1. UNCHANGED <<bindings, pump, threads>>
    BY <1>7 DEF RegisterAgents, OpenNext, OpenFails, Stop, SessionClosed, Down
  <2> QED
    BY <1>1, <2>1 DEF ThreadsTamed
<1> QED
  BY <1>2, <1>3, <1>4, <1>5, <1>6, <1>7 DEF HostStep, CloseStep

\* A session stays where it was made.
LEMMA CwdGrows ==
    ASSUME RouterTypes, PlaceInv,
           \A i \in Instances : \A s \in Sessions : cwd[i][s] # None => cwd'[i][s] = cwd[i][s]
    PROVE  /\ \A row \in Bindings : Placed(row) => cwd'[row.inst][row.session] = row.ws
           /\ UNCHANGED bindings => BindingsPlaced'
           /\ UNCHANGED pump => PumpsPlaced'
           /\ \A i \in Instances : \A s \in Sessions :
                 threads[i][s] # None => cwd'[i][s] = threads[i][s].ws
<1>1. \A row \in Bindings : row.inst \in Instances /\ row.session \in Sessions /\ row.ws \in Workspaces
  BY DEF Bindings
<1>2. \A row \in Bindings : Placed(row) => cwd'[row.inst][row.session] = row.ws
  BY <1>1 DEF Placed
<1>3. bindings \in [Tasks -> Bindings \cup {None}]
  BY DEF RouterTypes, TableTypes
<1>4. ASSUME UNCHANGED bindings PROVE BindingsPlaced'
  BY <1>2, <1>3, <1>4 DEF PlaceInv, BindingsPlaced, Placed
<1>5. \A i \in Instances : pump[i].at = "save" => pump[i].row \in Bindings
  BY PumpFacts DEF RouterTypes, ThreadTypes
<1>6. ASSUME UNCHANGED pump PROVE PumpsPlaced'
  BY <1>2, <1>5, <1>6 DEF PlaceInv, PumpsPlaced, Placed
<1>7. ASSUME NEW i \in Instances, NEW s \in Sessions, threads[i][s] # None
      PROVE  cwd'[i][s] = threads[i][s].ws
  <2>1. threads[i][s].ws \in Workspaces
    BY <1>7 DEF RouterTypes, TableTypes, Threads
  <2> QED
    BY <1>7, <2>1 DEF PlaceInv, ThreadsPlaced
<1> QED
  BY <1>2, <1>4, <1>6, <1>7

LEMMA PlaceRequest ==
    ASSUME RouterTypes, RouterTypes', PlaceInv, Request
    PROVE  PlaceInv'
<1>1. UNCHANGED <<bindings, pump>> /\ TableTypes /\ caller = Idle
  BY TypesRequest DEF RouterTypes
<1>2. ASSUME NEW w \in Workspaces, NEW i \in Instances, Listed(w, i) PROVE PlaceInv'
  <2>1. UNCHANGED <<threads, cwd>>
    BY <1>2 DEF Listed
  <2>2. CallerPlaced'
    BY <1>2 DEF Listed, CallerPlaced
  <2>3. BindingsPlaced' /\ ThreadsPlaced' /\ PumpsPlaced'
    BY <1>1, <2>1 DEF PlaceInv, BindingsPlaced, ThreadsPlaced, PumpsPlaced, Placed
  <2> QED
    BY <2>2, <2>3 DEF PlaceInv
<1>3. ASSUME NEW w \in Workspaces, NEW i \in Instances, NEW s \in Sessions, Created(w, i, s)
      PROVE  PlaceInv'
  <2>1. /\ cwd[i][s] = None /\ cwd' = [cwd EXCEPT ![i][s] = w]
        /\ SaveRuntimeThread(i, s, Thread(w, "idle", 0))
        /\ caller' = [at |-> "bind", inst |-> i, session |-> s, ws |-> w]
    BY <1>3 DEF Created
  <2>2. cwd'[i][s] = w /\ \A j \in Instances : \A u \in Sessions : <<j, u>> # <<i, s>> => cwd'[j][u] = cwd[j][u]
    BY <1>1, <2>1 DEF TableTypes
  <2>3. \A j \in Instances : \A u \in Sessions : cwd[j][u] # None => cwd'[j][u] = cwd[j][u]
    BY <2>1, <2>2
  <2>4. /\ threads'[i][s].ws = w
        /\ \A j \in Instances : \A u \in Sessions : <<j, u>> # <<i, s>> => threads'[j][u] = threads[j][u]
    BY <1>1, <2>1, SaveThreadFacts, ThreadFacts
  <2>5. /\ BindingsPlaced' /\ PumpsPlaced'
        /\ \A j \in Instances : \A u \in Sessions :
              threads[j][u] # None => cwd'[j][u] = threads[j][u].ws
    BY <1>1, <2>3, CwdGrows
  <2>6. ThreadsPlaced'
    BY <2>2, <2>4, <2>5 DEF ThreadsPlaced
  <2>7. CallerPlaced'
    BY <2>1, <2>2 DEF CallerPlaced
  <2> QED
    BY <2>5, <2>6, <2>7 DEF PlaceInv
<1>4. ASSUME NEW t \in Tasks, NEW state \in {"idle", "starting"}, Called(t, state) PROVE PlaceInv'
  <2>1. /\ bindings[t] # None /\ caller'.row = bindings[t] /\ caller'.at \in {"resumed", "starting"}
        /\ UNCHANGED cwd
        /\ SaveRuntimeThread(bindings[t].inst, bindings[t].session, Thread(bindings[t].ws, state, 0))
    BY <1>4 DEF Called
  <2>2. bindings[t].inst \in Instances /\ bindings[t].session \in Sessions /\ bindings[t].ws \in Workspaces
    BY <1>1, <2>1 DEF TableTypes, Bindings
  <2>3. Placed(bindings[t])
    BY <2>1 DEF PlaceInv, BindingsPlaced
  <2>4. /\ threads'[bindings[t].inst][bindings[t].session].ws = bindings[t].ws
        /\ \A j \in Instances : \A u \in Sessions :
              <<j, u>> # <<bindings[t].inst, bindings[t].session>> => threads'[j][u] = threads[j][u]
    BY <1>1, <2>1, <2>2, SaveThreadFacts, ThreadFacts
  <2>5. ThreadsPlaced'
    BY <2>1, <2>3, <2>4 DEF PlaceInv, ThreadsPlaced, Placed
  <2>6. BindingsPlaced' /\ PumpsPlaced' /\ CallerPlaced'
    BY <1>1, <2>1, <2>3 DEF PlaceInv, BindingsPlaced, PumpsPlaced, CallerPlaced, Placed
  <2> QED
    BY <2>5, <2>6 DEF PlaceInv
<1> QED
  BY <1>2, <1>3, <1>4, RequestEffects

LEMMA PlaceCallStep ==
    ASSUME RouterTypes, RouterTypes', PlaceInv, CallStep
    PROVE  PlaceInv'
<1>1. UNCHANGED <<pump, cwd>> /\ TableTypes /\ CallerPlaced /\ caller \in Calls
  BY TypesCallStep DEF RouterTypes, ThreadTypes, PlaceInv
<1>2. PumpsPlaced'
  BY <1>1 DEF PlaceInv, PumpsPlaced, Placed
<1>3. ASSUME caller' = Idle PROVE CallerPlaced'
  BY <1>3, IdleFacts DEF CallerPlaced
<1>4. ASSUME NEW i \in Instances, NEW s \in Sessions, NEW w \in Workspaces, BindStep(i, s, w)
      PROVE  PlaceInv'
  <2>1. BindThread(i, s, w) /\ cwd[i][s] = w /\ UNCHANGED threads
    BY <1>4 DEF BindStep
  <2>2. \A t \in Tasks : \/ bindings'[t] = bindings[t]
                         \/ bindings'[t].inst = i /\ bindings'[t].session = s /\ bindings'[t].ws = w
    BY <1>1, <2>1, BindFacts
  <2>3. BindingsPlaced' /\ ThreadsPlaced'
    BY <1>1, <2>1, <2>2 DEF PlaceInv, BindingsPlaced, ThreadsPlaced, Placed
  <2>4. CallerPlaced'
    BY <1>1, <1>3, <1>4 DEF BindStep, CallerPlaced
  <2> QED
    BY <1>2, <2>3, <2>4 DEF PlaceInv
<1>5. ASSUME NEW n \in Nat, SaveStep(n) PROVE PlaceInv'
  <2>1. caller.at \in {"resumed", "started"} /\ caller' = Idle /\ UNCHANGED threads
        /\ SaveBindingState(caller.task, caller.row, n)
    BY <1>5 DEF SaveStep
  <2>2. caller.task \in Tasks /\ caller.row \in Bindings /\ Placed(caller.row)
    BY <1>1, <2>1, CallFacts DEF CallerPlaced
  <2>3. \A u \in Tasks : \/ bindings'[u] = bindings[u]
                         \/ /\ bindings'[u].inst = caller.row.inst /\ bindings'[u].session = caller.row.session
                            /\ bindings'[u].ws = caller.row.ws
    BY <1>1, <2>1, <2>2, SaveBindingFacts
  <2>4. BindingsPlaced' /\ ThreadsPlaced'
    BY <1>1, <2>1, <2>2, <2>3 DEF PlaceInv, BindingsPlaced, ThreadsPlaced, Placed
  <2> QED
    BY <1>2, <1>3, <2>1, <2>4 DEF PlaceInv
<1>6. ASSUME NEW state \in {"idle", "active", "needs_reconcile"}, NEW n \in Nat, TurnStep(state, n)
      PROVE  PlaceInv'
  <2> DEFINE row == caller.row
  <2>1. /\ caller.at = "starting" /\ UNCHANGED bindings
        /\ SaveRuntimeThread(row.inst, row.session, Thread(row.ws, state, n))
        /\ caller' = Idle \/ (caller'.at = "started" /\ caller'.row = row)
    BY <1>6 DEF TurnStep
  <2>2. row \in Bindings /\ Placed(row)
    BY <1>1, <2>1, CallFacts DEF CallerPlaced
  <2>3. row.inst \in Instances /\ row.session \in Sessions /\ row.ws \in Workspaces
    BY <2>2 DEF Bindings
  <2>4. /\ threads'[row.inst][row.session].ws = row.ws
        /\ \A j \in Instances : \A u \in Sessions :
              <<j, u>> # <<row.inst, row.session>> => threads'[j][u] = threads[j][u]
    BY <1>1, <2>1, <2>3, SaveThreadFacts, ThreadFacts
  <2>5. BindingsPlaced' /\ ThreadsPlaced'
    BY <1>1, <2>1, <2>2, <2>4 DEF PlaceInv, BindingsPlaced, ThreadsPlaced, Placed
  <2>6. CallerPlaced'
    BY <1>1, <1>3, <2>1, <2>2 DEF CallerPlaced, Placed
  <2> QED
    BY <1>2, <2>5, <2>6 DEF PlaceInv
<1>7. ASSUME caller' = Idle /\ UNCHANGED <<bindings, threads>> PROVE PlaceInv'
  BY <1>1, <1>2, <1>3, <1>7 DEF PlaceInv, BindingsPlaced, ThreadsPlaced, Placed
<1> QED
  BY <1>1, <1>4, <1>5, <1>6, <1>7, CallEffects

LEMMA PlacePump ==
    ASSUME RouterTypes, RouterTypes', PlaceInv, NEW i \in Instances, RouterStep(i)
    PROVE  PlaceInv'
<1>1. /\ UNCHANGED <<threads, cwd, caller>> /\ TableTypes /\ pump[i] \in Pumps
      /\ \A j \in Instances : j # i => pump'[j] = pump[j]
  BY TypesPump DEF RouterTypes, ThreadTypes
<1>2. ThreadsPlaced' /\ CallerPlaced'
  BY <1>1 DEF PlaceInv, ThreadsPlaced, CallerPlaced, Placed
<1>3. CASE PumpSaves(i)
  <2>1. pump[i].at = "save" /\ pump'[i].at = "send" /\ SaveBindingState(pump[i].task, pump[i].row, 0)
    BY <1>3 DEF PumpSaves
  <2>2. pump[i].task \in Tasks /\ pump[i].row \in Bindings /\ Placed(pump[i].row)
    BY <1>1, <2>1, PumpFacts DEF PlaceInv, PumpsPlaced
  <2>3. \A u \in Tasks : \/ bindings'[u] = bindings[u]
                         \/ /\ bindings'[u].inst = pump[i].row.inst
                            /\ bindings'[u].session = pump[i].row.session
                            /\ bindings'[u].ws = pump[i].row.ws
    BY <1>1, <2>1, <2>2, SaveBindingFacts
  <2>4. BindingsPlaced' /\ PumpsPlaced'
    BY <1>1, <2>1, <2>2, <2>3 DEF PlaceInv, BindingsPlaced, PumpsPlaced, Placed
  <2> QED
    BY <1>2, <2>4 DEF PlaceInv
<1>4. ASSUME NEW t \in Tasks, PumpFinds(i, t) PROVE PlaceInv'
  BY <1>1, <1>2, <1>4 DEF PumpFinds, PlaceInv, BindingsPlaced, PumpsPlaced, Placed
<1>5. ASSUME pump'[i].at # "save" /\ UNCHANGED bindings PROVE PlaceInv'
  BY <1>1, <1>2, <1>5 DEF PlaceInv, BindingsPlaced, PumpsPlaced, Placed
<1> QED
  BY <1>3, <1>4, <1>5, PumpEffects

LEMMA PlaceNext ==
    ASSUME RouterTypes, RouterTypes', PlaceInv, [Next]_vars
    PROVE  PlaceInv'
<1> USE DEF host, files, tables, codex, sources
<1>1. ASSUME ThreadsTamed, UNCHANGED cwd, caller' \in {caller, Idle},
             \A t \in Tasks : bindings'[t] \in {bindings[t], None},
             \A i \in Instances : pump'[i] = pump[i] \/ pump'[i].at \in {"receive", "ended"}
      PROVE  PlaceInv'
  <2>1. BindingsPlaced' /\ PumpsPlaced'
    BY <1>1 DEF PlaceInv, BindingsPlaced, PumpsPlaced, Placed
  <2>2. CallerPlaced'
    BY <1>1, IdleFacts DEF PlaceInv, CallerPlaced, Placed
  <2>3. ThreadsPlaced'
    BY <1>1 DEF PlaceInv, ThreadsPlaced, ThreadsTamed
  <2> QED
    BY <2>1, <2>2, <2>3 DEF PlaceInv
<1>2. ASSUME UNCHANGED <<threads, cwd, caller, bindings, pump>> PROVE PlaceInv'
  <2>1. ThreadsTamed
    BY <1>2 DEF ThreadsTamed
  <2> QED
    BY <1>1, <1>2, <2>1
<1>3. CASE UNCHANGED vars
  BY <1>2, <1>3 DEF vars
<1>4. ASSUME NEW w \in Workspaces, SwapDirectory(w) PROVE PlaceInv'
  BY <1>2, <1>4 DEF SwapDirectory
<1>5. CASE Consume
  BY <1>2, <1>5, TypesConsume
<1>6. ASSUME NEW i \in Instances, AgentStep(i) \/ EntryStep(i) \/ FailedClose(i) PROVE PlaceInv'
  <2>1. UNCHANGED <<bindings, cwd, caller, pump>> /\ ThreadsTamed
    BY <1>6, TypesAgent, AgentEffects
  <2> QED
    BY <1>1, <2>1
<1>7. CASE HostStep \/ CloseStep
  BY <1>1, <1>7, HostEffects
<1> QED
  BY <1>3, <1>4, <1>5, <1>6, <1>7, PlaceRequest, PlaceCallStep, PlacePump DEF Next

LEMMA PlaceInit == Init => PlaceInv
BY IdleFacts DEF Init, PlaceInv, BindingsPlaced, ThreadsPlaced, CallerPlaced, PumpsPlaced

-----------------------------------------------------------------------------
Kept(w) == w \in Configured(config)

LEMMA KeptServing ==
    ASSUME RouterTypes, RouterTypes', PlaceInv, KeptInv, Request \/ CallStep
    PROVE  KeptInv'
<1>1. UNCHANGED <<phase, config, links, pump>> /\ TableTypes /\ caller \in Calls
  BY TypesRequest, TypesCallStep DEF host, RouterTypes, ThreadTypes
<1> SUFFICES ASSUME phase = "running" PROVE KeptInv'
  <2>1. phase \in {"running", "stopping"}
    BY TypesRequest, TypesCallStep
  <2> QED
    BY <1>1, <2>1 DEF KeptInv
<1>2. /\ \A t \in Tasks : bindings[t] # None => Kept(bindings[t].ws)
      /\ \A w \in Workspaces : links[w] # {} => Kept(w)
      /\ caller.at \in {"bind", "list"} => Kept(caller.ws)
      /\ caller.at \in {"resumed", "starting", "started"} => Kept(caller.row.ws)
      /\ \A i \in Instances : pump[i].at = "save" => Kept(pump[i].row.ws)
  BY DEF KeptInv, Kept
<1>3. Configured(config)' = Configured(config)
  BY <1>1 DEF Configured
<1> SUFFICES /\ \A t \in Tasks : bindings'[t] # None => Kept(bindings'[t].ws)
             /\ caller'.at \in {"bind", "list"} => Kept(caller'.ws)
             /\ caller'.at \in {"resumed", "starting", "started"} => Kept(caller'.row.ws)
  BY <1>1, <1>2, <1>3 DEF KeptInv, Kept
<1>4. CASE Request
  <2>1. UNCHANGED bindings
    BY <1>4, TypesRequest
  <2>2. ASSUME NEW w \in Workspaces, NEW i \in Instances, Listed(w, i)
        PROVE  caller'.at = "list" /\ Kept(caller'.ws)
    BY <1>2, <2>2 DEF Listed
  <2>3. ASSUME NEW w \in Workspaces, NEW i \in Instances, NEW s \in Sessions, Created(w, i, s)
        PROVE  caller'.at = "bind" /\ Kept(caller'.ws)
    BY <1>2, <2>3 DEF Created
  <2>4. ASSUME NEW t \in Tasks, NEW state \in {"idle", "starting"}, Called(t, state)
        PROVE  caller'.at \in {"resumed", "starting"} /\ Kept(caller'.row.ws)
    BY <1>2, <2>4 DEF Called
  <2> QED
    BY <1>2, <1>4, <2>1, <2>2, <2>3, <2>4, RequestEffects
<1>5. CASE CallStep
  <2>1. ASSUME NEW i \in Instances, NEW s \in Sessions, NEW w \in Workspaces, BindStep(i, s, w)
        PROVE  /\ Kept(w) /\ \A t \in Tasks : bindings'[t] = bindings[t] \/ bindings'[t].ws = w
               /\ caller' = Idle \/ (caller'.at = "list" /\ caller'.ws = w)
    BY <1>1, <1>2, <2>1, BindFacts DEF BindStep
  <2>2. ASSUME NEW n \in Nat, SaveStep(n)
        PROVE  /\ caller' = Idle /\ Kept(caller.row.ws)
               /\ \A t \in Tasks : bindings'[t] = bindings[t] \/ bindings'[t].ws = caller.row.ws
    <3>1. caller.at \in {"resumed", "started"} /\ caller' = Idle /\ SaveBindingState(caller.task, caller.row, n)
      BY <2>2 DEF SaveStep
    <3>2. caller.task \in Tasks /\ caller.row \in Bindings
      BY <1>1, <3>1, CallFacts
    <3> QED
      BY <1>1, <1>2, <3>1, <3>2, SaveBindingFacts
  <2>3. ASSUME NEW state \in {"idle", "active", "needs_reconcile"}, NEW n \in Nat, TurnStep(state, n)
        PROVE  /\ UNCHANGED bindings
               /\ caller' = Idle \/ (caller'.at = "started" /\ Kept(caller'.row.ws))
    BY <1>2, <2>3 DEF TurnStep
  <2> QED
    BY <1>2, <1>5, <2>1, <2>2, <2>3, CallEffects, IdleFacts DEF PlaceInv
<1> QED
  BY <1>4, <1>5

LEMMA KeptPump ==
    ASSUME RouterTypes, RouterTypes', KeptInv, NEW i \in Instances, RouterStep(i)
    PROVE  KeptInv'
<1>1. /\ UNCHANGED <<phase, config, links, caller>> /\ TableTypes /\ pump[i] \in Pumps
      /\ \A j \in Instances : j # i => pump'[j] = pump[j]
  BY TypesPump DEF host, RouterTypes, ThreadTypes
<1>2. Configured(config)' = Configured(config)
  BY <1>1 DEF Configured
<1>3. CASE PumpSaves(i)
  <2>1. pump[i].at = "save" /\ pump'[i].at = "send" /\ SaveBindingState(pump[i].task, pump[i].row, 0)
    BY <1>3 DEF PumpSaves
  <2>2. pump[i].task \in Tasks /\ pump[i].row \in Bindings
    BY <1>1, <2>1, PumpFacts
  <2>3. /\ bindings'[pump[i].task].ws = pump[i].row.ws
        /\ \A u \in Tasks : u # pump[i].task => bindings'[u] = bindings[u]
    BY <1>1, <2>1, <2>2, SaveBindingFacts
  <2> QED
    BY <1>1, <1>2, <2>1, <2>3 DEF KeptInv
<1>4. ASSUME NEW t \in Tasks, PumpFinds(i, t) PROVE KeptInv'
  BY <1>1, <1>2, <1>4 DEF PumpFinds, KeptInv
<1>5. ASSUME pump'[i].at # "save" /\ UNCHANGED bindings PROVE KeptInv'
  BY <1>1, <1>2, <1>5 DEF KeptInv
<1> QED
  BY <1>3, <1>4, <1>5, PumpEffects

LEMMA KeptHost ==
    ASSUME RouterTypes, RouterTypes', EarlyInv, KeptInv, HostStep \/ CloseStep
    PROVE  KeptInv'
<1> USE DEF host, files, tables, codex, sources
<1>1. TableTypes /\ HostTypes
  BY DEF RouterTypes
<1>2. CASE Start \/ Kill \/ Stop \/ CloseStep
  BY <1>2 DEF Start, Kill, Stop, CloseStep, SessionClosed, CloseEntry, Down, KeptInv
<1>3. CASE RegisterWorkspaces
  <2>1. phase = "loading" /\ UNCHANGED <<config, caller, pump>>
    BY <1>3 DEF RegisterWorkspaces
  <2>2. CASE phase' = "failed"
    BY <2>2 DEF KeptInv
  <2>3. CASE ReplaceWorkspaces(config)
    <3>1. /\ \A t \in Tasks : bindings'[t] # None => bindings'[t].ws \in Configured(config)
          /\ \A w \in Workspaces : links'[w] # {} => w \in Configured(config)
      BY <1>1, <2>3, ReplaceFacts
    <3>2. caller.at = "idle" /\ \A i \in Instances : pump[i].at = "ended"
      BY <2>1, IdleFacts DEF EarlyInv
    <3>3. Configured(config)' = Configured(config)
      BY <2>1 DEF Configured
    <3> QED
      BY <2>1, <3>1, <3>2, <3>3 DEF KeptInv
  <2> QED
    BY <1>3, <2>2, <2>3 DEF RegisterWorkspaces
<1>4. CASE RegisterAgents
  <2>1. phase = "agents" /\ UNCHANGED <<config, caller, pump, bindings>> /\ links' = config.links
    BY <1>4 DEF RegisterAgents
  <2>2. Configured(config)' = Configured(config)
    BY <2>1 DEF Configured
  <2>3. \A w \in Workspaces : links'[w] # {} => w \in Configured(config)
    BY <2>1 DEF Configured
  <2> QED
    BY <2>1, <2>2, <2>3 DEF KeptInv
<1>5. CASE ReloadWorkspaces
  <2>1. phase = "running" /\ UNCHANGED <<phase, config, caller, pump>> /\ ReplaceWorkspaces(config)
    BY <1>5 DEF ReloadWorkspaces
  <2>2. /\ \A t \in Tasks : bindings'[t] # None => bindings'[t].ws \in Configured(config)
        /\ \A w \in Workspaces : links'[w] # {} => w \in Configured(config)
    BY <1>1, <2>1, ReplaceFacts
  <2>3. Configured(config)' = Configured(config)
    BY <2>1 DEF Configured
  <2> QED
    BY <2>1, <2>2, <2>3 DEF KeptInv
<1>6. CASE OpenNext \/ OpenFails \/ NewRouter \/ ReconcileThreads
  <2>1. phase \in {"opening", "recovering"} /\ UNCHANGED <<config, caller, bindings, links>>
    BY <1>6 DEF OpenNext, OpenFails, NewRouter, ReconcileThreads
  <2>2. \A i \in Instances : pump'[i] = pump[i] \/ pump'[i].at \in {"receive", "ended"}
    BY HostEffects
  <2>3. Configured(config)' = Configured(config)
    BY <2>1 DEF Configured
  <2> QED
    BY <2>1, <2>2, <2>3 DEF KeptInv
<1> QED
  BY <1>2, <1>3, <1>4, <1>5, <1>6 DEF HostStep

LEMMA KeptNext ==
    ASSUME RouterTypes, RouterTypes', EarlyInv, PlaceInv, KeptInv, [Next]_vars
    PROVE  KeptInv'
<1> USE DEF host, files, tables, codex, sources
<1>1. ASSUME UNCHANGED <<phase, config, bindings, links, caller, pump>> PROVE KeptInv'
  BY <1>1 DEF KeptInv, Configured
<1>2. CASE UNCHANGED vars
  BY <1>1, <1>2 DEF vars
<1>3. ASSUME NEW w \in Workspaces, SwapDirectory(w) PROVE KeptInv'
  BY <1>1, <1>3 DEF SwapDirectory
<1>4. CASE Consume
  BY <1>1, <1>4, TypesConsume
<1>5. ASSUME NEW i \in Instances, AgentStep(i) \/ EntryStep(i) \/ FailedClose(i) PROVE KeptInv'
  BY <1>1, <1>5, TypesAgent
<1> QED
  BY <1>2, <1>3, <1>4, <1>5, KeptServing, KeptPump, KeptHost DEF Next

LEMMA KeptInit == Init => KeptInv
BY DEF Init, KeptInv

-----------------------------------------------------------------------------
(* Uncertain Threads and their tasks                                       *)

\* A step that takes no task's session from it.
LEMMA BoundKept ==
    ASSUME RouterTypes, BoundInv,
           \A t \in Tasks : bindings[t] # None =>
               /\ bindings'[t] # None /\ bindings'[t].inst = bindings[t].inst
               /\ bindings'[t].session = bindings[t].session
    PROVE  /\ \A t \in Tasks : \A i, s : Bound(t, i, s) => Bound(t, i, s)'
           /\ ThreadsTamed => \A i \in Instances : \A s \in Sessions :
                 threads'[i][s] # None /\ threads'[i][s].state # "idle" => \E t \in Tasks : Bound(t, i, s)'
           /\ ThreadsTamed /\ caller' \in {caller, Idle} => BoundInv'
<1>1. \A t \in Tasks : \A i, s : Bound(t, i, s) => Bound(t, i, s)'
  BY DEF Bound
<1>2. ASSUME ThreadsTamed, NEW i \in Instances, NEW s \in Sessions,
             threads'[i][s] # None, threads'[i][s].state # "idle"
      PROVE  \E t \in Tasks : Bound(t, i, s)'
  <2>1. threads[i][s] # None /\ threads[i][s].state # "idle"
    BY <1>2 DEF ThreadsTamed
  <2>2. PICK t \in Tasks : Bound(t, i, s)
    BY <2>1 DEF BoundInv
  <2> QED
    BY <1>1, <2>2
<1>3. ASSUME caller' \in {caller, Idle}, caller'.at = "starting"
      PROVE  Bound(caller.task, caller.row.inst, caller.row.session)'
  <2>1. caller' = caller /\ caller.at = "starting"
    BY <1>3, IdleFacts
  <2>2. caller.task \in Tasks /\ Bound(caller.task, caller.row.inst, caller.row.session)
    BY <2>1, CallFacts DEF BoundInv, RouterTypes, ThreadTypes
  <2> QED
    BY <2>1, <2>2 DEF Bound
<1> QED
  BY <1>1, <1>2, <1>3 DEF BoundInv

\* A row that is saved is of the session its task has.
LEMMA SaveKeepsSession ==
    ASSUME RouterTypes, TaskInv, NEW t \in Tasks, NEW row \in Bindings, NEW n \in Nat, Owns(t, row),
           SaveBindingState(t, row, n)
    PROVE  \A u \in Tasks : bindings[u] # None =>
               /\ bindings'[u] # None /\ bindings'[u].inst = bindings[u].inst
               /\ bindings'[u].session = bindings[u].session
<1>1. TableTypes
  BY DEF RouterTypes
<1>2. /\ bindings'[t] \in Bindings /\ bindings'[t].inst = row.inst /\ bindings'[t].session = row.session
      /\ \A u \in Tasks : u # t => bindings'[u] = bindings[u]
  BY <1>1, SaveBindingFacts
<1>3. bindings[t] # None => <<bindings[t].inst, bindings[t].session>> = <<row.inst, row.session>>
  BY DEF TaskInv, BindingsOwned, Owns
<1>4. bindings[t] # None => bindings[t].inst = row.inst /\ bindings[t].session = row.session
  BY <1>3
<1> QED
  BY <1>2, <1>4

LEMMA BoundRequest ==
    ASSUME RouterTypes, RouterTypes', BoundInv, Request
    PROVE  BoundInv'
<1>1. UNCHANGED bindings /\ TableTypes
  BY TypesRequest DEF RouterTypes
<1>2. \A t \in Tasks : \A i, s : Bound(t, i, s) => Bound(t, i, s)'
  BY <1>1 DEF Bound
<1>3. ASSUME ThreadsTamed, caller'.at # "starting" PROVE BoundInv'
  BY <1>1, <1>3, BoundKept DEF BoundInv
<1>4. ASSUME NEW w \in Workspaces, NEW i \in Instances, Listed(w, i) PROVE BoundInv'
  <2>1. ThreadsTamed /\ caller'.at # "starting"
    BY <1>4 DEF Listed, ThreadsTamed
  <2> QED
    BY <1>3, <2>1
<1>5. ASSUME NEW w \in Workspaces, NEW i \in Instances, NEW s \in Sessions, Created(w, i, s)
      PROVE  BoundInv'
  <2>1. SaveRuntimeThread(i, s, Thread(w, "idle", 0)) /\ caller'.at = "bind"
    BY <1>5 DEF Created
  <2>2. /\ threads'[i][s].state = "idle"
        /\ \A j \in Instances : \A u \in Sessions : <<j, u>> # <<i, s>> => threads'[j][u] = threads[j][u]
    BY <1>1, <2>1, SaveThreadFacts, ThreadFacts
  <2> QED
    BY <1>2, <2>1, <2>2 DEF BoundInv
<1>6. ASSUME NEW t \in Tasks, NEW state \in {"idle", "starting"}, Called(t, state) PROVE BoundInv'
  <2> DEFINE i == bindings[t].inst  s == bindings[t].session
  <2>1. /\ bindings[t] # None /\ caller'.task = t /\ caller'.row = bindings[t]
        /\ SaveRuntimeThread(i, s, Thread(bindings[t].ws, state, 0))
    BY <1>6 DEF Called
  <2>2. i \in Instances /\ s \in Sessions /\ bindings[t].ws \in Workspaces
    BY <1>1, <2>1 DEF TableTypes, Bindings
  <2>3. Bound(t, i, s)' /\ i' = i /\ s' = s
    BY <1>1, <2>1 DEF Bound
  <2>4. \A j \in Instances : \A u \in Sessions : <<j, u>> # <<i, s>> => threads'[j][u] = threads[j][u]
    BY <1>1, <2>1, <2>2, SaveThreadFacts, ThreadFacts
  <2>5. Bound(caller.task, caller.row.inst, caller.row.session)'
    BY <1>1, <2>1 DEF Bound
  <2>6. ASSUME NEW j \in Instances, NEW u \in Sessions,
               threads'[j][u] # None, threads'[j][u].state # "idle"
        PROVE  \E x \in Tasks : Bound(x, j, u)'
    <3>1. CASE <<j, u>> = <<i, s>>
      <4>1. Bound(t, j, u)'
        BY <1>1, <2>1, <3>1 DEF Bound
      <4> QED
        BY <4>1
    <3>2. CASE <<j, u>> # <<i, s>>
      <4>1. PICK x \in Tasks : Bound(x, j, u)
        BY <2>4, <2>6, <3>2 DEF BoundInv
      <4> QED
        BY <1>2, <4>1
    <3> QED
      BY <3>1, <3>2
  <2> QED
    BY <2>5, <2>6 DEF BoundInv
<1> QED
  BY <1>4, <1>5, <1>6, RequestEffects

LEMMA BoundCallStep ==
    ASSUME RouterTypes, RouterTypes', TaskInv, PlaceInv, BoundInv, CallStep
    PROVE  BoundInv'
<1>1. TableTypes /\ caller \in Calls /\ CallerPlaced
  BY DEF RouterTypes, ThreadTypes, PlaceInv
<1>2. ASSUME UNCHANGED threads PROVE ThreadsTamed
  BY <1>2 DEF ThreadsTamed
<1>3. ASSUME NEW i \in Instances, NEW s \in Sessions, NEW w \in Workspaces, BindStep(i, s, w)
      PROVE  BoundInv'
  <2>1. BindThread(i, s, w) /\ UNCHANGED threads /\ (caller' = Idle \/ caller'.at = "list")
    BY <1>3 DEF BindStep
  <2>2. \A t \in Tasks : bindings[t] # None => bindings'[t] = bindings[t]
    BY <1>1, <2>1, BindFacts
  <2>3. \A j \in Instances : \A u \in Sessions :
           threads'[j][u] # None /\ threads'[j][u].state # "idle" => \E t \in Tasks : Bound(t, j, u)'
    BY <1>2, <2>1, <2>2, BoundKept
  <2> QED
    BY <2>1, <2>3, IdleFacts DEF BoundInv
<1>4. ASSUME NEW n \in Nat, SaveStep(n) PROVE BoundInv'
  <2>1. /\ caller.at \in {"resumed", "started"} /\ caller' = Idle /\ UNCHANGED threads
        /\ SaveBindingState(caller.task, caller.row, n)
    BY <1>4 DEF SaveStep
  <2>2. caller.task \in Tasks /\ caller.row \in Bindings /\ Owns(caller.task, caller.row)
    BY <1>1, <2>1, CallFacts DEF TaskInv, CallerOwned
  <2>3. \A u \in Tasks : bindings[u] # None =>
            /\ bindings'[u] # None /\ bindings'[u].inst = bindings[u].inst
            /\ bindings'[u].session = bindings[u].session
    BY <2>1, <2>2, SaveKeepsSession
  <2> QED
    BY <1>2, <2>1, <2>3, BoundKept
<1>5. ASSUME NEW state \in {"idle", "active", "needs_reconcile"}, NEW n \in Nat, TurnStep(state, n)
      PROVE  BoundInv'
  <2> DEFINE i == caller.row.inst  s == caller.row.session
  <2>1. /\ caller.at = "starting" /\ UNCHANGED bindings
        /\ SaveRuntimeThread(i, s, Thread(caller.row.ws, state, n))
        /\ caller' = Idle \/ caller'.at = "started"
    BY <1>5 DEF TurnStep
  <2>2. caller.task \in Tasks /\ caller.row \in Bindings /\ Bound(caller.task, i, s)
    BY <1>1, <2>1, CallFacts DEF BoundInv
  <2>3. i \in Instances /\ s \in Sessions /\ caller.row.ws \in Workspaces
    BY <2>2 DEF Bindings
  <2>4. \A j \in Instances : \A u \in Sessions : <<j, u>> # <<i, s>> => threads'[j][u] = threads[j][u]
    BY <1>1, <2>1, <2>3, SaveThreadFacts, ThreadFacts
  <2>5. \A t \in Tasks : \A j, u : Bound(t, j, u) => Bound(t, j, u)'
    BY <2>1 DEF Bound
  <2>6. ASSUME NEW j \in Instances, NEW u \in Sessions,
               threads'[j][u] # None, threads'[j][u].state # "idle"
        PROVE  \E x \in Tasks : Bound(x, j, u)'
    <3>1. CASE <<j, u>> = <<i, s>>
      <4>1. Bound(caller.task, j, u)
        BY <2>2, <3>1
      <4> QED
        BY <2>2, <2>5, <4>1
    <3>2. CASE <<j, u>> # <<i, s>>
      <4>1. PICK x \in Tasks : Bound(x, j, u)
        BY <2>4, <2>6, <3>2 DEF BoundInv
      <4> QED
        BY <2>5, <4>1
    <3> QED
      BY <3>1, <3>2
  <2>7. caller'.at # "starting"
    BY <2>1, IdleFacts
  <2> QED
    BY <2>6, <2>7 DEF BoundInv
<1>6. ASSUME caller' = Idle /\ UNCHANGED <<bindings, threads>> PROVE BoundInv'
  BY <1>1, <1>2, <1>6, BoundKept
<1> QED
  BY <1>1, <1>3, <1>4, <1>5, <1>6, CallEffects

LEMMA BoundPump ==
    ASSUME RouterTypes, RouterTypes', TaskInv, BoundInv, NEW i \in Instances, RouterStep(i)
    PROVE  BoundInv'
<1>1. UNCHANGED <<threads, caller>> /\ pump[i] \in Pumps
  BY TypesPump DEF RouterTypes, ThreadTypes
<1>2. ThreadsTamed
  BY <1>1 DEF ThreadsTamed
<1>3. CASE PumpSaves(i)
  <2>1. pump[i].at = "save" /\ SaveBindingState(pump[i].task, pump[i].row, 0)
    BY <1>3 DEF PumpSaves
  <2>2. pump[i].task \in Tasks /\ pump[i].row \in Bindings /\ Owns(pump[i].task, pump[i].row)
    BY <1>1, <2>1, PumpFacts DEF TaskInv, PumpOwned
  <2>3. \A u \in Tasks : bindings[u] # None =>
            /\ bindings'[u] # None /\ bindings'[u].inst = bindings[u].inst
            /\ bindings'[u].session = bindings[u].session
    BY <2>1, <2>2, SaveKeepsSession
  <2> QED
    BY <1>1, <1>2, <2>3, BoundKept
<1>4. ASSUME UNCHANGED bindings PROVE BoundInv'
  BY <1>1, <1>2, <1>4, BoundKept
<1> QED
  BY <1>3, <1>4, PumpEffects DEF PumpFinds

\* The workspaces of a Thread and of its task are deleted together.
LEMMA BoundReplace ==
    ASSUME RouterTypes, RouterTypes', PlaceInv, KeptInv, EarlyInv, BoundInv,
           ReplaceWorkspaces(config), UNCHANGED caller, phase \in {"loading", "running"}
    PROVE  BoundInv'
<1>1. TableTypes
  BY DEF RouterTypes
<1>2. ASSUME NEW i \in Instances, NEW s \in Sessions, threads'[i][s] # None, threads'[i][s].state # "idle"
      PROVE  \E t \in Tasks : Bound(t, i, s)'
  <2>1. threads'[i][s] = threads[i][s] /\ threads[i][s].ws \in Configured(config)
    BY <1>1, <1>2, ReplaceFacts
  <2>2. PICK t \in Tasks : Bound(t, i, s)
    BY <1>2, <2>1 DEF BoundInv
  <2>3. bindings[t].ws = threads[i][s].ws
    BY <1>2, <2>1, <2>2 DEF PlaceInv, BindingsPlaced, ThreadsPlaced, Placed, Bound
  <2>4. bindings'[t] = bindings[t]
    BY <1>1, <2>1, <2>3, ReplaceFacts
  <2> QED
    BY <2>2, <2>4 DEF Bound
<1>3. ASSUME caller.at = "starting"
      PROVE  Bound(caller.task, caller.row.inst, caller.row.session)'
  <2>1. caller # Idle /\ phase = "running" /\ caller.task \in Tasks
    BY <1>3, IdleFacts, CallFacts DEF EarlyInv, RouterTypes, ThreadTypes
  <2>2. Bound(caller.task, caller.row.inst, caller.row.session)
    BY <1>3 DEF BoundInv
  <2>3. bindings[caller.task].ws \in Configured(config)
    BY <2>1, <2>2 DEF KeptInv, Bound
  <2>4. bindings'[caller.task] = bindings[caller.task]
    BY <1>1, <2>1, <2>3, ReplaceFacts
  <2> QED
    BY <2>2, <2>4 DEF Bound
<1> QED
  BY <1>2, <1>3 DEF BoundInv

LEMMA BoundNext ==
    ASSUME RouterTypes, RouterTypes', TaskInv, EarlyInv, PlaceInv, KeptInv, BoundInv, [Next]_vars
    PROVE  BoundInv'
<1> USE DEF host, files, tables, codex, sources
<1>1. ASSUME UNCHANGED bindings, ThreadsTamed, caller' \in {caller, Idle} PROVE BoundInv'
  BY <1>1, BoundKept
<1>2. ASSUME UNCHANGED <<bindings, threads, caller>> PROVE BoundInv'
  BY <1>1, <1>2 DEF ThreadsTamed
<1>3. CASE UNCHANGED vars
  BY <1>2, <1>3 DEF vars
<1>4. ASSUME NEW w \in Workspaces, SwapDirectory(w) PROVE BoundInv'
  BY <1>2, <1>4 DEF SwapDirectory
<1>5. CASE Consume
  BY <1>2, <1>5, TypesConsume
<1>6. ASSUME NEW i \in Instances, AgentStep(i) \/ EntryStep(i) \/ FailedClose(i) PROVE BoundInv'
  <2>1. UNCHANGED <<bindings, caller>> /\ ThreadsTamed
    BY <1>6, TypesAgent, AgentEffects
  <2> QED
    BY <1>1, <2>1
<1>7. CASE RegisterWorkspaces \/ ReloadWorkspaces
  <2>1. /\ UNCHANGED caller /\ phase \in {"loading", "running"}
        /\ ReplaceWorkspaces(config) \/ UNCHANGED <<bindings, threads>>
    BY <1>7 DEF RegisterWorkspaces, ReloadWorkspaces
  <2> QED
    BY <1>2, <2>1, BoundReplace
<1>8. CASE Start \/ RegisterAgents \/ OpenNext \/ OpenFails \/ NewRouter \/ ReconcileThreads \/ Stop \/ Kill
           \/ CloseStep
  <2>1. UNCHANGED bindings
    BY <1>8 DEF Start, RegisterAgents, OpenNext, OpenFails, NewRouter, ReconcileThreads, Stop, Kill,
       CloseStep, SessionClosed, CloseEntry, Down
  <2>2. HostStep \/ CloseStep
    BY <1>8 DEF HostStep
  <2> QED
    BY <1>1, <2>1, <2>2, HostEffects
<1> QED
  BY <1>3, <1>4, <1>5, <1>6, <1>7, <1>8, BoundRequest, BoundCallStep, BoundPump DEF Next, HostStep

LEMMA BoundInit == Init => BoundInv
BY IdleFacts DEF Init, BoundInv

-----------------------------------------------------------------------------
RowInv == RouterTypes /\ TaskInv /\ EarlyInv /\ PlaceInv /\ KeptInv /\ BoundInv

LEMMA RowInvariant == Spec => []RowInv
<1>1. Init => RowInv
  BY TypesInit, TaskInit, EarlyInit, PlaceInit, KeptInit, BoundInit DEF RowInv
<1>2. RowInv /\ [Next]_vars => RowInv'
  BY TypesNext, TaskNext, EarlyNext, PlaceNext, KeptNext, BoundNext DEF RowInv
<1> QED
  BY <1>1, <1>2, PTL DEF Spec

(* Two instances use the same native session IDs, and calls and pumps      *)
(* write back whole rows of task_bindings that they read before: for any   *)
(* number of them a task ID stands for one session of one instance for     *)
(* good, and an event carries the task of its session (bindThread,         *)
(* saveBindingState and pump in node/runtime/router.go).                   *)
THEOREM TaskKeepsItsSession == Spec => []TaskIsItsSession
<1>1. RowInv => TaskIsItsSession
  <2> SUFFICES ASSUME RowInv PROVE TaskIsItsSession
    OBVIOUS
  <2>1. TaskInv
    BY DEF RowInv
  <2> QED
    BY <2>1 DEF TaskInv, BindingsOwned, OutOwned, Owns, Carries, TaskIsItsSession
<1> QED
  BY <1>1, RowInvariant, PTL

(* Wherever the Node is killed and whatever workspaces the configurations  *)
(* drop, a Thread left uncertain in runtime_threads has a task of the same *)
(* workspace, through which recovery can read it (ReplaceWorkspaces in     *)
(* node/store/workspace.go, Reconcile in node/eventlog/manager.go).        *)
THEOREM UncertainThreadHasTask == Spec => []UncertainHasTask
<1>1. RowInv => UncertainHasTask
  <2> SUFFICES ASSUME RowInv, NEW i \in Instances, NEW s \in Sessions,
                      threads[i][s] # None, threads[i][s].state # "idle"
               PROVE  \E t \in Tasks : Bound(t, i, s) /\ bindings[t].ws = threads[i][s].ws
    BY DEF UncertainHasTask
  <2>1. PICK t \in Tasks : Bound(t, i, s)
    BY DEF RowInv, BoundInv
  <2>2. bindings[t].ws = threads[i][s].ws
    BY <2>1 DEF RowInv, PlaceInv, BindingsPlaced, ThreadsPlaced, Placed, Bound
  <2> QED
    BY <2>1, <2>2
<1> QED
  BY <1>1, RowInvariant, PTL

-----------------------------------------------------------------------------
(* Counting the events of an instance                                      *)

LEMMA CountFacts ==
    ASSUME NEW q, NEW i, NEW k \in Nat
    PROVE  /\ IsFiniteSet(Places(q, k, i)) /\ Count(q, k, i) \in Nat
           /\ Count(q, 0, i) = 0
           /\ Count(q, k + 1, i) = IF q[k + 1].inst = i THEN Count(q, k, i) + 1 ELSE Count(q, k, i)
<1> DEFINE S == {j \in 1..k : q[j].inst = i}
           T == {j \in 1..(k + 1) : q[j].inst = i}
<1>1. IsFiniteSet(1..k)
  <2>1. 1 \in Int /\ k \in Int
    OBVIOUS
  <2> QED
    BY <2>1, FS_Interval
<1>2. IsFiniteSet(S)
  <2>1. S \in SUBSET (1..k)
    OBVIOUS
  <2> HIDE DEF S
  <2> QED
    BY <1>1, <2>1, FS_Subset
<1>3. Cardinality(S) \in Nat
  BY <1>2, FS_CardinalityType
<1>4. {j \in 1..0 : q[j].inst = i} = {}
  OBVIOUS
<1>5. Count(q, 0, i) = 0
  BY <1>4, FS_EmptySet DEF Count, Places
<1>6. T = IF q[k + 1].inst = i THEN S \cup {k + 1} ELSE S
  <2>1. \A j : j \in 1..(k + 1) <=> j \in 1..k \/ j = k + 1
    OBVIOUS
  <2>2. \A j : j \in T <=> j \in S \/ (j = k + 1 /\ q[k + 1].inst = i)
    BY <2>1
  <2> HIDE DEF S, T
  <2> QED
    BY <2>2
<1>7. k + 1 \notin S
  OBVIOUS
<1>8. Cardinality(S \cup {k + 1}) = Cardinality(S) + 1
  <2> HIDE DEF S
  <2> QED
    BY <1>2, <1>7, FS_AddElement
<1>9. Cardinality(T) = IF q[k + 1].inst = i THEN Cardinality(S) + 1 ELSE Cardinality(S)
  <2> HIDE DEF S, T
  <2> QED
    BY <1>6, <1>8
<1> QED
  BY <1>2, <1>3, <1>5, <1>9 DEF Count, Places

LEMMA CountSame ==
    ASSUME NEW q, NEW r, NEW i, NEW k \in Nat, \A j \in 1..k : q[j] = r[j]
    PROVE  Count(q, k, i) = Count(r, k, i)
<1>1. {j \in 1..k : q[j].inst = i} = {j \in 1..k : r[j].inst = i}
  OBVIOUS
<1> QED
  BY <1>1 DEF Count, Places

\* One place later after the head is taken away.
LEMMA CountTail ==
    ASSUME NEW q, NEW r, NEW i, NEW k \in Nat, \A j \in 1..k : r[j] = q[j + 1]
    PROVE  Count(q, k + 1, i) = IF q[1].inst = i THEN Count(r, k, i) + 1 ELSE Count(r, k, i)
<1> DEFINE R == {j \in 1..k : r[j].inst = i}
           S == {j \in 2..(k + 1) : q[j].inst = i}
           T == {j \in 1..(k + 1) : q[j].inst = i}
           f == [j \in R |-> j + 1]
<1>1. IsFiniteSet(R)
  <2>1. IsFiniteSet(Places(r, k, i))
    BY CountFacts
  <2> QED
    BY <2>1 DEF Places
<1>2. \A j \in R : j + 1 \in S
  <2> SUFFICES ASSUME NEW j \in R PROVE j + 1 \in S
    OBVIOUS
  <2>1. j \in 1..k /\ r[j].inst = i /\ r[j] = q[j + 1]
    OBVIOUS
  <2> QED
    BY <2>1
<1>3. \A j \in S : j - 1 \in R /\ (j - 1) + 1 = j
  <2> SUFFICES ASSUME NEW j \in S PROVE j - 1 \in R /\ (j - 1) + 1 = j
    OBVIOUS
  <2>1. j \in 2..(k + 1) /\ q[j].inst = i
    OBVIOUS
  <2>2. j - 1 \in 1..k /\ (j - 1) + 1 = j
    BY <2>1
  <2>3. r[j - 1] = q[j]
    BY <2>2
  <2> QED
    BY <2>1, <2>2, <2>3
<1>4. \A j, m \in R : j + 1 = m + 1 => j = m
  OBVIOUS
<1>5. f \in Bijection(R, S)
  <2> HIDE DEF R, S
  <2>1. f \in [R -> S]
    BY <1>2
  <2>2. IsInjective(f)
    BY <1>4 DEF IsInjective
  <2>3. \A j \in S : \E m \in R : f[m] = j
    BY <1>3
  <2> QED
    BY <2>1, <2>2, <2>3 DEF Bijection, Injection, Surjection
<1>6. ExistsBijection(R, S)
  BY <1>5 DEF ExistsBijection
<1>7. IsFiniteSet(S) /\ Cardinality(S) = Cardinality(R)
  <2> HIDE DEF R, S
  <2> QED
    BY <1>1, <1>6, FS_Bijection
<1>8. T = IF q[1].inst = i THEN S \cup {1} ELSE S
  <2>1. \A j : j \in 1..(k + 1) <=> j \in 2..(k + 1) \/ j = 1
    OBVIOUS
  <2>2. \A j : j \in T <=> j \in S \/ (j = 1 /\ q[1].inst = i)
    BY <2>1
  <2> HIDE DEF S, T
  <2> QED
    BY <2>2
<1>9. 1 \notin S
  OBVIOUS
<1>10. Cardinality(S \cup {1}) = Cardinality(S) + 1
  <2> HIDE DEF S
  <2> QED
    BY <1>7, <1>9, FS_AddElement
<1>11. Cardinality(T) = IF q[1].inst = i THEN Cardinality(R) + 1 ELSE Cardinality(R)
  <2> HIDE DEF R, S, T
  <2> QED
    BY <1>7, <1>8, <1>10
<1> QED
  BY <1>11 DEF Count, Places

-----------------------------------------------------------------------------
(* The events of one instance                                              *)

IsAppend(c, b, x) ==
    /\ Len(b) \in Nat /\ Len(c) = Len(b) + 1 /\ c[Len(b) + 1] = x
    /\ \A k \in 1..Len(b) : c[k] = b[k]

IsTail(f, e) ==
    /\ Len(e) \in Nat \ {0} /\ Len(f) = Len(e) - 1
    /\ \A k \in 1..Len(f) : f[k] = e[k + 1]

LEMMA AppendIs ==
    ASSUME NEW S, NEW q \in Seq(S), NEW x \in S
    PROVE  IsAppend(Append(q, x), q, x)
BY DEF IsAppend

LEMMA TailIs ==
    ASSUME NEW S, NEW q \in Seq(S), q # <<>>
    PROVE  IsTail(Tail(q), q) /\ Head(q) = q[1] /\ Head(q) \in S
BY DEF IsTail

LEMMA OrderedForward ==
    ASSUME NEW i, NEW n \in Nat, NEW q \in Seq(Sends), NEW b, NEW c, NEW e, NEW f,
           NEW state, NEW last \in Nat, state \in {"open", "closing"},
           Ordered(i, n, q, b, e, state, last), IsAppend(c, b, e[1]), IsTail(f, e)
    PROVE  Ordered(i, n, q, c, f, state, last)
<1> DEFINE sent == n + Count(q, Len(q), i)
<1>1. Len(q) \in Nat /\ Len(b) \in Nat /\ sent \in Nat
  <2>1. Len(q) \in Nat /\ Count(q, Len(q), i) \in Nat
    BY CountFacts
  <2> QED
    BY <2>1 DEF IsAppend
<1>2. /\ Len(c) = Len(b) + 1 /\ c[Len(b) + 1] = e[1] /\ \A k \in 1..Len(b) : c[k] = b[k]
      /\ Len(f) = Len(e) - 1 /\ Len(e) \in Nat \ {0}
      /\ \A k \in 1..Len(f) : f[k] = e[k + 1]
  BY DEF IsAppend, IsTail
<1>3. /\ \A k \in 1..Len(q) : q[k].inst = i => q[k].event.n = n + Count(q, k, i)
      /\ \A k \in 1..Len(b) : b[k].n = sent + k
      /\ \A k \in 1..Len(e) : e[k].n = sent + Len(b) + k
      /\ state = "open" => last = sent + Len(b) + Len(e)
  BY DEF Ordered
<1> HIDE DEF sent
<1>4. \A k \in 1..Len(c) : c[k].n = sent + k
  <2> SUFFICES ASSUME NEW k \in 1..Len(c) PROVE c[k].n = sent + k
    OBVIOUS
  <2>1. CASE k \in 1..Len(b)
    BY <1>2, <1>3, <2>1
  <2>2. CASE k = Len(b) + 1
    <3>1. 1 \in 1..Len(e)
      BY <1>2
    <3>2. e[1].n = sent + Len(b) + 1
      BY <1>3, <3>1
    <3> QED
      BY <1>1, <1>2, <2>2, <3>2
  <2> QED
    BY <1>1, <1>2, <2>1, <2>2
<1>5. \A k \in 1..Len(f) : f[k].n = sent + Len(c) + k
  <2> SUFFICES ASSUME NEW k \in 1..Len(f) PROVE f[k].n = sent + Len(c) + k
    OBVIOUS
  <2>1. k + 1 \in 1..Len(e) /\ k \in Nat /\ f[k] = e[k + 1]
    BY <1>2
  <2> QED
    BY <1>1, <1>2, <1>3, <2>1
<1>6. state = "open" => last = sent + Len(c) + Len(f)
  BY <1>1, <1>2, <1>3
<1> QED
  BY <1>3, <1>4, <1>5, <1>6 DEF Ordered, sent

LEMMA OrderedEmit ==
    ASSUME NEW i, NEW n \in Nat, NEW q \in Seq(Sends), NEW b \in Seq(Events), NEW e, NEW f,
           NEW state, NEW last \in Nat, state # "closing", NEW x, x.n = last + 1,
           Ordered(i, n, q, b, e, state, last), IsAppend(f, e, x)
    PROVE  Ordered(i, n, q, b, f, state, last + 1)
<1> DEFINE sent == n + Count(q, Len(q), i)
<1>1. Len(q) \in Nat /\ Len(b) \in Nat /\ sent \in Nat
  <2>1. Len(q) \in Nat /\ Count(q, Len(q), i) \in Nat
    BY CountFacts
  <2> QED
    BY <2>1
<1>2. /\ Len(f) = Len(e) + 1 /\ Len(e) \in Nat /\ f[Len(e) + 1] = x /\ \A k \in 1..Len(e) : f[k] = e[k]
  BY DEF IsAppend
<1>3. /\ \A k \in 1..Len(q) : q[k].inst = i => q[k].event.n = n + Count(q, k, i)
      /\ \A k \in 1..Len(b) : b[k].n = sent + k
      /\ state = "open" => /\ \A k \in 1..Len(e) : e[k].n = sent + Len(b) + k
                           /\ last = sent + Len(b) + Len(e)
  BY DEF Ordered
<1> HIDE DEF sent
<1>4. state = "open" => /\ \A k \in 1..Len(f) : f[k].n = sent + Len(b) + k
                        /\ last + 1 = sent + Len(b) + Len(f)
  <2> SUFFICES ASSUME state = "open"
               PROVE  /\ \A k \in 1..Len(f) : f[k].n = sent + Len(b) + k
                      /\ last + 1 = sent + Len(b) + Len(f)
    OBVIOUS
  <2>1. last + 1 = sent + Len(b) + Len(f)
    BY <1>1, <1>2, <1>3
  <2>2. \A k \in 1..Len(f) : k \in 1..Len(e) \/ k = Len(e) + 1
    BY <1>2
  <2>3. f[Len(e) + 1].n = sent + Len(b) + (Len(e) + 1)
    BY <1>2, <2>1
  <2>4. \A k \in 1..Len(e) : f[k].n = sent + Len(b) + k
    BY <1>2, <1>3
  <2> QED
    BY <2>1, <2>2, <2>3, <2>4
<1> QED
  BY <1>3, <1>4 DEF Ordered, sent

LEMMA OrderedSend ==
    ASSUME NEW i, NEW n \in Nat, NEW q \in Seq(Sends), NEW r, NEW b \in Seq(Events), NEW c,
           NEW e \in Seq(Events), NEW state, NEW last \in Nat, NEW x,
           Ordered(i, n, q, b, e, state, last), IsAppend(r, q, x)
    PROVE  /\ x.inst # i => Ordered(i, n, r, b, e, state, last)
           /\ x.inst = i /\ x.event = b[1] /\ IsTail(c, b) => Ordered(i, n, r, c, e, state, last)
<1> DEFINE sent == n + Count(q, Len(q), i)
           sent2 == n + Count(r, Len(r), i)
<1>1. Len(q) \in Nat /\ Len(b) \in Nat /\ Count(q, Len(q), i) \in Nat /\ Len(e) \in Nat
  BY CountFacts
<1>2. /\ Len(r) = Len(q) + 1 /\ r[Len(q) + 1] = x /\ \A k \in 1..Len(q) : r[k] = q[k]
  BY DEF IsAppend
<1>3. ASSUME NEW k \in 0..Len(q) PROVE Count(r, k, i) = Count(q, k, i)
  <2>1. k \in Nat /\ \A j \in 1..k : r[j] = q[j]
    BY <1>1, <1>2
  <2> QED
    BY <2>1, CountSame
<1>4. Count(r, Len(q), i) = Count(q, Len(q), i)
  BY <1>1, <1>3
<1>5. Count(r, Len(r), i) = IF x.inst = i THEN Count(q, Len(q), i) + 1 ELSE Count(q, Len(q), i)
  BY <1>1, <1>2, <1>4, CountFacts
<1>6. /\ \A k \in 1..Len(q) : q[k].inst = i => q[k].event.n = n + Count(q, k, i)
      /\ \A k \in 1..Len(b) : b[k].n = sent + k
      /\ state \in {"open", "closing"} => \A k \in 1..Len(e) : e[k].n = sent + Len(b) + k
      /\ state = "open" => last = sent + Len(b) + Len(e)
  BY DEF Ordered
<1>7. \A k \in 1..Len(q) : r[k].inst = i => r[k].event.n = n + Count(r, k, i)
  BY <1>1, <1>2, <1>3, <1>6
<1>8. ASSUME x.inst # i PROVE Ordered(i, n, r, b, e, state, last)
  <2>1. sent2 = sent
    BY <1>5, <1>8
  <2>2. \A k \in 1..Len(r) : r[k].inst = i => r[k].event.n = n + Count(r, k, i)
    <3>1. \A k \in 1..Len(r) : k \in 1..Len(q) \/ k = Len(q) + 1
      BY <1>1, <1>2
    <3> QED
      BY <1>2, <1>7, <1>8, <3>1
  <2> HIDE DEF sent, sent2
  <2>3. /\ \A k \in 1..Len(b) : b[k].n = sent2 + k
        /\ state \in {"open", "closing"} => \A k \in 1..Len(e) : e[k].n = sent2 + Len(b) + k
        /\ state = "open" => last = sent2 + Len(b) + Len(e)
    BY <1>6, <2>1
  <2> QED
    BY <2>2, <2>3 DEF Ordered, sent2
<1>9. ASSUME x.inst = i, x.event = b[1], IsTail(c, b) PROVE Ordered(i, n, r, c, e, state, last)
  <2>1. Len(c) = Len(b) - 1 /\ Len(b) \in Nat \ {0} /\ \A k \in 1..Len(c) : c[k] = b[k + 1]
    BY <1>9 DEF IsTail
  <2>2. sent2 = sent + 1 /\ sent \in Nat
    BY <1>1, <1>5, <1>9
  <2>3. x.event.n = sent + 1
    BY <1>6, <1>9, <2>1
  <2>4. r[Len(r)].event.n = n + Count(r, Len(r), i)
    BY <1>2, <2>2, <2>3
  <2>5. \A k \in 1..Len(r) : r[k].inst = i => r[k].event.n = n + Count(r, k, i)
    BY <1>1, <1>2, <1>7, <2>4
  <2> HIDE DEF sent, sent2
  <2>6. \A k \in 1..Len(c) : c[k].n = sent2 + k
    <3> SUFFICES ASSUME NEW k \in 1..Len(c) PROVE c[k].n = sent2 + k
      OBVIOUS
    <3>1. k + 1 \in 1..Len(b) /\ k \in Nat /\ c[k] = b[k + 1]
      BY <2>1
    <3> QED
      BY <1>6, <2>2, <3>1
  <2>7. /\ state \in {"open", "closing"} => \A k \in 1..Len(e) : e[k].n = sent2 + Len(c) + k
        /\ state = "open" => last = sent2 + Len(c) + Len(e)
    <3>1. sent2 + Len(c) = sent + Len(b)
      BY <2>1, <2>2
    <3> QED
      BY <1>6, <3>1
  <2> QED
    BY <2>5, <2>6, <2>7 DEF Ordered, sent2
<1> QED
  BY <1>8, <1>9

LEMMA OrderedConsume ==
    ASSUME NEW i, NEW n \in Nat, NEW n2, NEW q, NEW r, NEW b, NEW e, NEW state, NEW last,
           n2 = IF q[1].inst = i THEN q[1].event.n ELSE n,
           Ordered(i, n, q, b, e, state, last), IsTail(r, q)
    PROVE  Ordered(i, n2, r, b, e, state, last)
<1>1. Len(r) = Len(q) - 1 /\ Len(q) \in Nat \ {0} /\ \A k \in 1..Len(r) : r[k] = q[k + 1]
  BY DEF IsTail
<1>2. /\ \A k \in 1..Len(q) : q[k].inst = i => q[k].event.n = n + Count(q, k, i)
      /\ \A k \in 1..Len(b) : b[k].n = n + Count(q, Len(q), i) + k
      /\ state \in {"open", "closing"} =>
            \A k \in 1..Len(e) : e[k].n = n + Count(q, Len(q), i) + Len(b) + k
      /\ state = "open" => last = n + Count(q, Len(q), i) + Len(b) + Len(e)
  BY DEF Ordered
<1>3. Count(q, 1, i) = IF q[1].inst = i THEN 1 ELSE 0
  <2>1. Count(q, 0 + 1, i) = IF q[0 + 1].inst = i THEN Count(q, 0, i) + 1 ELSE Count(q, 0, i)
    BY CountFacts
  <2>2. Count(q, 0, i) = 0
    BY CountFacts
  <2> QED
    BY <2>1, <2>2
<1>4. n2 = IF q[1].inst = i THEN n + 1 ELSE n
  BY <1>1, <1>2, <1>3
<1>5. ASSUME NEW k \in 0..Len(r) PROVE n2 + Count(r, k, i) = n + Count(q, k + 1, i)
  <2>1. k \in Nat /\ \A j \in 1..k : r[j] = q[j + 1]
    BY <1>1
  <2>2. Count(q, k + 1, i) = IF q[1].inst = i THEN Count(r, k, i) + 1 ELSE Count(r, k, i)
    BY <2>1, CountTail
  <2>3. Count(r, k, i) \in Nat
    BY <2>1, CountFacts
  <2>4. CASE q[1].inst = i
    <3>1. n2 = n + 1 /\ Count(q, k + 1, i) = Count(r, k, i) + 1
      BY <1>4, <2>2, <2>4
    <3>2. \A m \in Nat : (n + 1) + m = n + (m + 1)
      OBVIOUS
    <3>3. (n + 1) + Count(r, k, i) = n + (Count(r, k, i) + 1)
      BY <2>3, <3>2
    <3> QED
      BY <3>1, <3>3
  <2>5. CASE q[1].inst # i
    BY <1>4, <2>2, <2>5
  <2> QED
    BY <2>4, <2>5
<1>6. n2 + Count(r, Len(r), i) = n + Count(q, Len(q), i)
  <2>1. Len(r) \in 0..Len(r) /\ Len(r) + 1 = Len(q)
    BY <1>1
  <2> QED
    BY <1>5, <2>1
<1>7. \A k \in 1..Len(r) : r[k].inst = i => r[k].event.n = n2 + Count(r, k, i)
  <2> SUFFICES ASSUME NEW k \in 1..Len(r), r[k].inst = i PROVE r[k].event.n = n2 + Count(r, k, i)
    OBVIOUS
  <2>1. k + 1 \in 1..Len(q) /\ k \in 0..Len(r) /\ r[k] = q[k + 1]
    BY <1>1
  <2>2. r[k].event.n = n + Count(q, k + 1, i)
    BY <1>2, <2>1
  <2> QED
    BY <1>5, <2>1, <2>2
<1>8. /\ \A k \in 1..Len(b) : b[k].n = n2 + Count(r, Len(r), i) + k
      /\ state \in {"open", "closing"} =>
            \A k \in 1..Len(e) : e[k].n = n2 + Count(r, Len(r), i) + Len(b) + k
      /\ state = "open" => last = n2 + Count(r, Len(r), i) + Len(b) + Len(e)
  BY <1>2, <1>6
<1> QED
  BY <1>7, <1>8 DEF Ordered

\* What an entry that is not open has left does not matter.
LEMMA OrderedEnd ==
    ASSUME NEW i, NEW n, NEW q, NEW b, NEW e, NEW state, NEW last, NEW e2, NEW state2,
           Ordered(i, n, q, b, e, state, last),
           state2 \notin {"open", "closing"} \/ (e2 = e /\ state = "open" /\ state2 = "closing")
    PROVE  Ordered(i, n, q, b, e2, state2, last)
BY DEF Ordered

LEMMA OrderedNew ==
    ASSUME NEW i
    PROVE  /\ Ordered(i, 0, <<>>, <<>>, <<>>, "none", 0)
           /\ Ordered(i, 0, <<>>, <<>>, <<Event(1, None, "status")>>, "open", 1)
<1>1. Count(<<>>, 0, i) = 0
  BY CountFacts
<1>2. Event(1, None, "status").n = 1
  BY DEF Event
<1> DEFINE e == <<Event(1, None, "status")>>
<1>3. Len(<<>>) = 0 /\ Len(e) = 1 /\ e[1] = Event(1, None, "status")
  OBVIOUS
<1> HIDE DEF e
<1>4. Ordered(i, 0, <<>>, <<>>, <<>>, "none", 0)
  BY <1>1, <1>3 DEF Ordered
<1>5. Ordered(i, 0, <<>>, <<>>, e, "open", 1)
  BY <1>1, <1>2, <1>3 DEF Ordered
<1> QED
  BY <1>4, <1>5 DEF e

LEMMA ConcatFacts ==
    ASSUME NEW S, NEW p \in Seq(S), NEW q \in Seq(S), NEW x \in S
    PROVE  /\ p \o q \in Seq(S) /\ <<>> \o q = q
           /\ p \o Append(q, x) = Append(p \o q, x)
           /\ <<x>> \o q # <<>> /\ Head(<<x>> \o q) = x /\ Tail(<<x>> \o q) = q
           /\ q # <<>> => <<Head(q)>> \o Tail(q) = q
<1>1. p \o q \in Seq(S)
  OBVIOUS
<1>2. <<>> \o q = q
  OBVIOUS
<1>3. p \o Append(q, x) = Append(p \o q, x)
  OBVIOUS
<1>4. <<x>> \o q # <<>> /\ Head(<<x>> \o q) = x
  OBVIOUS
<1>5. Tail(<<x>> \o q) = q
  OBVIOUS
<1>6. ASSUME q # <<>> PROVE <<Head(q)>> \o Tail(q) = q
  BY <1>6
<1> QED
  BY <1>1, <1>2, <1>3, <1>4, <1>5, <1>6

-----------------------------------------------------------------------------
(* The events of all instances                                             *)

Holding(i) == pump[i].at \in {"bind", "save", "send"}

LEMMA BehindFacts ==
    ASSUME RouterTypes, NEW i \in Instances
    PROVE  /\ Behind(i) \in Seq(Events)
           /\ ~Holding(i) => Behind(i) = buffer[i]
           /\ Holding(i) => Behind(i) # <<>> /\ Head(Behind(i)) = pump[i].event /\ Tail(Behind(i)) = buffer[i]
<1>1. buffer[i] \in Seq(Events) /\ pump[i] \in Pumps
  BY DEF RouterTypes, StreamTypes, ThreadTypes
<1>2. CASE Holding(i)
  <2>1. pump[i].event \in Events /\ Behind(i) = <<pump[i].event>> \o buffer[i]
    BY <1>1, <1>2, PumpFacts DEF Holding, Behind, InHand
  <2>2. <<pump[i].event>> \in Seq(Events)
    BY <2>1
  <2> QED
    BY <1>1, <1>2, <2>1, <2>2, ConcatFacts
<1>3. CASE ~Holding(i)
  <2>1. Behind(i) = <<>> \o buffer[i]
    BY <1>3 DEF Holding, Behind, InHand
  <2> QED
    BY <1>1, <1>3, <2>1
<1> QED
  BY <1>2, <1>3

LEMMA SourceFacts ==
    ASSUME RouterTypes, NEW i \in Instances
    PROVE  /\ seen[i] \in Nat /\ out \in Seq(Sends) /\ emitted[i] \in Nat
           /\ queue[i] \in Seq(Events) /\ buffer[i] \in Seq(Events) /\ Behind(i) \in Seq(Events)
BY BehindFacts DEF RouterTypes, StreamTypes, Sends

LEMMA StreamSame ==
    ASSUME NEW i \in Instances, StreamInv(i), UNCHANGED <<out, seen[i], queue[i], entry[i], emitted[i]>>,
           Behind(i)' = Behind(i)
    PROVE  StreamInv(i)'
BY DEF StreamInv

LEMMA StreamAgent ==
    ASSUME RouterTypes, RouterTypes', OrderInv,
           NEW i \in Instances, AgentStep(i) \/ EntryStep(i) \/ FailedClose(i)
    PROVE  \A j \in Instances : StreamInv(j)'
<1> USE DEF codex
<1>1. UNCHANGED <<out, seen, pump>> /\ StreamTypes /\ \A j \in Instances : StreamInv(j)
  BY TypesAgent DEF RouterTypes, OrderInv
<1>2. ASSUME NEW j \in Instances, buffer'[j] = buffer[j] PROVE Behind(j)' = Behind(j)
  BY <1>1, <1>2 DEF Behind, InHand
<1>3. ASSUME NEW j \in Instances, j # i,
             UNCHANGED <<buffer[j], queue[j], entry[j], emitted[j]>>
      PROVE  StreamInv(j)'
  BY <1>1, <1>2, <1>3, StreamSame
<1>4. /\ seen[i] \in Nat /\ out \in Seq(Sends) /\ emitted[i] \in Nat
      /\ queue[i] \in Seq(Events) /\ buffer[i] \in Seq(Events) /\ Behind(i) \in Seq(Events)
  BY SourceFacts
<1>5. Ordered(i, seen[i], out, Behind(i), queue[i], entry[i], emitted[i])
  BY <1>1 DEF StreamInv
<1>6. ASSUME NEW s \in Sessions, NEW kind \in {"item", "ended"}, Emit(i, s, kind)
      PROVE  \A j \in Instances : StreamInv(j)'
  <2> DEFINE x == Event(emitted[i] + 1, s, kind)
  <2>1. /\ runtime[i] = "ready" /\ emitted' = [emitted EXCEPT ![i] = emitted[i] + 1]
        /\ queue' = [queue EXCEPT ![i] = Append(queue[i], x)]
        /\ UNCHANGED <<runtime, entry, buffer>>
    BY <1>6 DEF Emit
  <2>2. x \in Events /\ x.n = emitted[i] + 1
    BY <1>4 DEF Event, Events
  <2>3. entry[i] # "closing"
    BY <2>1 DEF OrderInv, OpenInv
  <2> HIDE DEF x
  <2>4. emitted'[i] = emitted[i] + 1 /\ queue'[i] = Append(queue[i], x)
        /\ \A j \in Instances : j # i => emitted'[j] = emitted[j] /\ queue'[j] = queue[j]
    BY <1>1, <2>1 DEF StreamTypes
  <2>5. Ordered(i, seen[i], out, Behind(i), Append(queue[i], x), entry[i], emitted[i] + 1)
    <3> DEFINE f == Append(queue[i], x)
    <3>1. IsAppend(f, queue[i], x)
      BY <1>4, <2>2, AppendIs
    <3> HIDE DEF f
    <3>2. Ordered(i, seen[i], out, Behind(i), f, entry[i], emitted[i] + 1)
      BY <1>4, <1>5, <2>2, <2>3, <3>1, OrderedEmit
    <3> QED
      BY <3>2 DEF f
  <2>6. StreamInv(i)'
    BY <1>1, <1>2, <2>1, <2>4, <2>5 DEF StreamInv
  <2>7. \A j \in Instances : j # i => StreamInv(j)'
    BY <1>3, <2>1, <2>4
  <2> QED
    BY <2>6, <2>7
<1>7. CASE AgentStep(i)
  BY <1>6, <1>7 DEF AgentStep, AgentWorks, TurnEnds
<1>8. CASE Forward(i)
  <2>1. /\ entry[i] \in {"open", "closing"} /\ queue[i] # <<>>
        /\ buffer' = [buffer EXCEPT ![i] = Append(buffer[i], Head(queue[i]))]
        /\ queue' = [queue EXCEPT ![i] = Tail(queue[i])]
        /\ UNCHANGED <<runtime, entry, emitted>>
    BY <1>8 DEF Forward
  <2>2. /\ buffer'[i] = Append(buffer[i], Head(queue[i])) /\ queue'[i] = Tail(queue[i])
        /\ \A j \in Instances : j # i => buffer'[j] = buffer[j] /\ queue'[j] = queue[j]
    BY <1>1, <2>1 DEF StreamTypes
  <2>3. Head(queue[i]) \in Events /\ InHand(i) \in Seq(Events)
    <3>1. Head(queue[i]) \in Events
      BY <1>4, <2>1, HeadFacts
    <3>2. pump[i].at \in {"bind", "save", "send"} => pump[i].event \in Events
      BY PumpFacts DEF RouterTypes, ThreadTypes
    <3>3. InHand(i) \in Seq(Events)
      BY <3>2 DEF InHand
    <3> QED
      BY <3>1, <3>3
  <2>4. InHand(i) \o Append(buffer[i], Head(queue[i])) = Append(InHand(i) \o buffer[i], Head(queue[i]))
    <3> DEFINE p == InHand(i)  b == buffer[i]  x == Head(queue[i])
    <3>1. p \in Seq(Events) /\ b \in Seq(Events) /\ x \in Events
      BY <1>4, <2>3
    <3> HIDE DEF p, b, x
    <3>2. p \o Append(b, x) = Append(p \o b, x)
      BY <3>1, ConcatFacts
    <3> QED
      BY <3>2 DEF p, b, x
  <2>5. Behind(i)' = InHand(i) \o buffer'[i]
    BY <1>1 DEF Behind, InHand
  <2>6. Behind(i)' = Append(Behind(i), Head(queue[i]))
    BY <2>2, <2>4, <2>5 DEF Behind
  <2>7. Ordered(i, seen[i], out, Append(Behind(i), Head(queue[i])), Tail(queue[i]), entry[i], emitted[i])
    <3>1. IsTail(Tail(queue[i]), queue[i]) /\ Head(queue[i]) = queue[i][1]
      BY <1>4, <2>1, TailIs
    <3>2. IsAppend(Append(Behind(i), Head(queue[i])), Behind(i), Head(queue[i]))
      BY <1>4, <2>3, AppendIs
    <3> DEFINE c == Append(Behind(i), Head(queue[i]))  f == Tail(queue[i])
    <3>3. IsTail(f, queue[i]) /\ IsAppend(c, Behind(i), queue[i][1])
      BY <3>1, <3>2
    <3> HIDE DEF c, f
    <3>4. Ordered(i, seen[i], out, c, f, entry[i], emitted[i])
      BY <1>4, <1>5, <2>1, <3>3, OrderedForward
    <3> QED
      BY <3>4 DEF c, f
  <2>8. StreamInv(i)'
    BY <1>1, <2>1, <2>2, <2>6, <2>7 DEF StreamInv
  <2>9. \A j \in Instances : j # i => StreamInv(j)'
    BY <1>3, <2>1, <2>2
  <2> QED
    BY <2>8, <2>9
<1>9. ASSUME NEW state \in {"failing", "failed", "closed"}, entry' = [entry EXCEPT ![i] = state],
             UNCHANGED <<buffer, emitted>>, \A j \in Instances : j # i => queue'[j] = queue[j]
      PROVE  \A j \in Instances : StreamInv(j)'
  <2>1. entry'[i] = state /\ \A j \in Instances : j # i => entry'[j] = entry[j]
    BY <1>1, <1>9 DEF StreamTypes
  <2>2. Ordered(i, seen[i], out, Behind(i), queue'[i], state, emitted[i])
    BY <1>5, <1>9, OrderedEnd
  <2>3. StreamInv(i)'
    BY <1>1, <1>2, <1>9, <2>1, <2>2 DEF StreamInv
  <2>4. \A j \in Instances : j # i => StreamInv(j)'
    BY <1>3, <1>9, <2>1
  <2> QED
    BY <2>3, <2>4
<1>10. CASE FailWhenFull(i)
  <2>1. /\ entry' = [entry EXCEPT ![i] = "failing"] /\ UNCHANGED <<buffer, emitted>>
        /\ queue' = [queue EXCEPT ![i] = Tail(queue[i])]
    BY <1>10 DEF FailWhenFull
  <2>2. \A j \in Instances : j # i => queue'[j] = queue[j]
    BY <1>1, <2>1 DEF StreamTypes
  <2> QED
    BY <1>9, <2>1, <2>2
<1>11. CASE PumpStopped(i)
  BY <1>9, <1>11 DEF PumpStopped
<1>12. CASE FailedClose(i)
  BY <1>9, <1>12 DEF FailedClose
<1> QED
  BY <1>7, <1>8, <1>10, <1>11, <1>12 DEF EntryStep

LEMMA StreamPump ==
    ASSUME RouterTypes, RouterTypes', OrderInv, NEW i \in Instances, RouterStep(i)
    PROVE  \A j \in Instances : StreamInv(j)'
<1> USE DEF UnchangedByPump
<1>1. /\ UNCHANGED <<queue, entry, emitted, seen>> /\ StreamTypes /\ pump \in [Instances -> Pumps]
      /\ \A j \in Instances : StreamInv(j)
      /\ \A j \in Instances : j # i => pump'[j] = pump[j]
  BY TypesPump DEF RouterTypes, ThreadTypes, OrderInv
<1>2. /\ seen[i] \in Nat /\ out \in Seq(Sends) /\ emitted[i] \in Nat
      /\ queue[i] \in Seq(Events) /\ buffer[i] \in Seq(Events) /\ Behind(i) \in Seq(Events)
  BY SourceFacts
<1>3. ASSUME NEW j \in Instances, j # i, buffer'[j] = buffer[j] PROVE Behind(j)' = Behind(j)
  BY <1>1, <1>3 DEF Behind, InHand
<1>4. ASSUME NEW j \in Instances, UNCHANGED out, Behind(j)' = Behind(j) PROVE StreamInv(j)'
  BY <1>1, <1>4, StreamSame
<1>5. CASE Take(i)
  <2>1. /\ ~Holding(i) /\ buffer[i] # <<>> /\ UNCHANGED out
        /\ buffer' = [buffer EXCEPT ![i] = Tail(buffer[i])]
    BY <1>5 DEF Take, Holding
  <2>2. buffer'[i] = Tail(buffer[i]) /\ \A j \in Instances : j # i => buffer'[j] = buffer[j]
    BY <1>1, <2>1 DEF StreamTypes
  <2>3. pump'[i].at \in {"bind", "send"} /\ pump'[i].event = Head(buffer[i])
    BY <1>1, <1>5 DEF Take, SetPump
  <2>4. Behind(i)' = <<Head(buffer[i])>> \o Tail(buffer[i])
    BY <2>2, <2>3 DEF Behind, InHand
  <2>5. <<Head(buffer[i])>> \o Tail(buffer[i]) = buffer[i]
    BY <1>2, <2>1
  <2>6. Behind(i)' = Behind(i)
    BY <2>1, <2>4, <2>5, BehindFacts
  <2> QED
    BY <1>3, <1>4, <2>1, <2>2, <2>6
<1>6. CASE FindBinding(i) \/ BindingUnavailable(i) \/ SaveEnded(i) \/ SourceEnds(i)
  <2>1. UNCHANGED <<out, buffer>>
    BY <1>6 DEF FindBinding, BindingUnavailable, SaveEnded, SourceEnds
  <2>2. ASSUME FindBinding(i) PROVE Behind(i)' = Behind(i)
    <3>1. PICK t \in TaskBindingByNativeSession(i, pump[i].event.session) :
              SetPump(i, [at |-> IF pump[i].event.kind = "ended" THEN "save" ELSE "send",
                          event |-> pump[i].event, task |-> t, row |-> bindings[t]])
      BY <2>2 DEF FindBinding
    <3>2. /\ pump[i].at = "bind" /\ pump'[i].at \in {"save", "send"} /\ pump'[i].event = pump[i].event
      BY <1>1, <2>2, <3>1 DEF FindBinding, SetPump
    <3> QED
      BY <2>1, <3>2 DEF Behind, InHand
  <2>3. ASSUME BindingUnavailable(i) PROVE Behind(i)' = Behind(i)
    <3>1. pump[i].at = "bind" /\ pump'[i].at = "send" /\ pump'[i].event = pump[i].event
      BY <1>1, <2>3 DEF BindingUnavailable, SetPump
    <3> QED
      BY <2>1, <3>1 DEF Behind, InHand
  <2>4. ASSUME SaveEnded(i) PROVE Behind(i)' = Behind(i)
    <3>1. pump[i] \in [at : {"save", "send"}, event : Events, task : Tasks, row : Bindings]
      BY <1>1, <2>4, PumpFacts DEF SaveEnded
    <3>2. pump'[i] = [pump[i] EXCEPT !.at = "send"] /\ pump[i].at = "save"
      BY <1>1, <2>4 DEF SaveEnded, SetPump
    <3>3. pump'[i].at = "send" /\ pump'[i].event = pump[i].event
      BY <3>1, <3>2
    <3> QED
      BY <2>1, <3>2, <3>3 DEF Behind, InHand
  <2>5. ASSUME SourceEnds(i) PROVE Behind(i)' = Behind(i)
    <3>1. pump[i].at = "receive" /\ pump'[i].at = "ended"
      BY <1>1, <2>5 DEF SourceEnds, SetPump
    <3> QED
      BY <2>1, <3>1 DEF Behind, InHand
  <2>6. Behind(i)' = Behind(i)
    BY <1>6, <2>2, <2>3, <2>4, <2>5
  <2> QED
    BY <1>3, <1>4, <2>1, <2>6
<1>7. CASE Send(i)
  <2> DEFINE x == [inst |-> i, event |-> pump[i].event, task |-> pump[i].task]
  <2>1. pump[i].at = "send" /\ out' = Append(out, x) /\ UNCHANGED buffer /\ pump'[i].at = "receive"
    BY <1>1, <1>7, RestingFacts DEF Send, SetPump
  <2>2. x \in Sends /\ x.inst = i /\ x.event = pump[i].event
    <3>1. pump[i].event \in Events /\ pump[i].task \in Tasks \cup {None}
      BY <1>1, <2>1, PumpFacts
    <3> QED
      BY <3>1 DEF Sends
  <2> HIDE DEF x
  <2>3. Behind(i) # <<>> /\ Head(Behind(i)) = pump[i].event /\ Tail(Behind(i)) = buffer[i]
    BY <2>1, BehindFacts DEF Holding
  <2>4. IsTail(buffer[i], Behind(i)) /\ Behind(i)[1] = pump[i].event
    BY <1>2, <2>3, TailIs
  <2>5. Behind(i)' = buffer[i]
    <3>1. ~Holding(i)'
      BY <2>1 DEF Holding
    <3>2. Behind(i)' = buffer'[i]
      BY <3>1 DEF Behind, InHand, Holding, RouterTypes, StreamTypes
    <3> QED
      BY <2>1, <3>2
  <2>6. IsAppend(out', out, x)
    BY <1>2, <2>1, <2>2, AppendIs
  <2>7. StreamInv(i)'
    <3>1. Ordered(i, seen[i], out, Behind(i), queue[i], entry[i], emitted[i])
      BY <1>1 DEF StreamInv
    <3>2. Ordered(i, seen[i], out', buffer[i], queue[i], entry[i], emitted[i])
      BY <1>2, <2>2, <2>4, <2>6, <3>1, OrderedSend
    <3> QED
      BY <1>1, <2>5, <3>2 DEF StreamInv
  <2>8. ASSUME NEW j \in Instances, j # i PROVE StreamInv(j)'
    <3>1. Ordered(j, seen[j], out, Behind(j), queue[j], entry[j], emitted[j])
      BY <1>1 DEF StreamInv
    <3>2. seen[j] \in Nat /\ emitted[j] \in Nat /\ queue[j] \in Seq(Events) /\ Behind(j) \in Seq(Events)
      BY SourceFacts
    <3>3. Ordered(j, seen[j], out', Behind(j), queue[j], entry[j], emitted[j])
      BY <1>2, <2>2, <2>6, <2>8, <3>1, <3>2, OrderedSend
    <3>4. Behind(j)' = Behind(j)
      BY <1>3, <2>1, <2>8
    <3> QED
      BY <1>1, <3>3, <3>4 DEF StreamInv
  <2> QED
    BY <2>7, <2>8
<1> QED
  BY <1>5, <1>6, <1>7 DEF RouterStep

LEMMA StreamConsume ==
    ASSUME RouterTypes, RouterTypes', OrderInv, Consume
    PROVE  \A j \in Instances : StreamInv(j)'
<1>1. UNCHANGED <<queue, buffer, entry, emitted, pump>> /\ StreamTypes
  BY TypesConsume DEF sources, RouterTypes
<1>2. /\ out \in Seq(Sends) /\ out # <<>> /\ out' = Tail(out)
      /\ seen' = [seen EXCEPT ![Head(out).inst] = Head(out).event.n]
  BY <1>1 DEF Consume, StreamTypes, Sends
<1>3. IsTail(out', out) /\ Head(out) = out[1] /\ Head(out) \in Sends
  BY <1>2, TailIs
<1>4. out[1].inst \in Instances
  BY <1>3 DEF Sends
<1>5. ASSUME NEW j \in Instances PROVE StreamInv(j)'
  <2>1. seen'[j] = IF out[1].inst = j THEN out[1].event.n ELSE seen[j]
    BY <1>1, <1>2, <1>3, <1>4 DEF StreamTypes
  <2>2. Ordered(j, seen[j], out, Behind(j), queue[j], entry[j], emitted[j]) /\ seen[j] \in Nat
    BY SourceFacts DEF OrderInv, StreamInv
  <2>3. Ordered(j, seen'[j], out', Behind(j), queue[j], entry[j], emitted[j])
    BY <1>3, <2>1, <2>2, OrderedConsume
  <2>4. Behind(j)' = Behind(j)
    BY <1>1 DEF Behind, InHand
  <2> QED
    BY <1>1, <2>3, <2>4 DEF StreamInv
<1> QED
  BY <1>5

LEMMA StreamHost ==
    ASSUME RouterTypes, RouterTypes', EarlyInv, OrderInv, HostStep \/ CloseStep
    PROVE  \A j \in Instances : StreamInv(j)'
<1> USE DEF host, files, tables, codex, sources
<1>1. StreamTypes /\ HostTypes /\ \A j \in Instances : StreamInv(j)
  BY DEF RouterTypes, OrderInv
<1>2. CASE Start \/ Kill
  <2>1. /\ out' = <<>> /\ \A j \in Instances : pump'[j].at = "ended" /\ buffer'[j] = <<>> /\ queue'[j] = <<>>
        /\ \A j \in Instances : entry'[j] = "none" /\ emitted'[j] = 0 /\ seen'[j] = 0
    BY <1>2 DEF Start, Kill, Fresh, Empty
  <2>2. ASSUME NEW j \in Instances PROVE StreamInv(j)'
    <3>1. Behind(j)' = <<>> \o <<>>
      BY <2>1 DEF Behind, InHand
    <3>2. Behind(j)' = <<>>
      BY <3>1
    <3> QED
      BY <2>1, <3>2, OrderedNew DEF StreamInv
  <2> QED
    BY <2>2
<1>3. CASE OpenNext
  <2>1. todo \in Seq(Instances) /\ todo # <<>> /\ phase = "opening"
    BY <1>1, <1>3 DEF OpenNext, HostTypes
  <2>2. PICK i \in Instances : i = Head(todo) /\ i = todo[1] /\ 1 \in 1..Len(todo)
    BY <2>1
  <2>3. entry[i] = "none" /\ buffer[i] = <<>> /\ out = <<>> /\ seen[i] = 0 /\ pump[i].at = "ended"
    BY <2>1, <2>2 DEF OrderInv, OpenInv, EarlyInv
  <2>4. /\ UNCHANGED <<buffer, pump, out, seen>>
        /\ entry' = [entry EXCEPT ![i] = "open"]
        /\ queue' = [queue EXCEPT ![i] = <<Event(1, None, "status")>>]
        /\ emitted' = [emitted EXCEPT ![i] = 1]
    BY <1>3, <2>2 DEF OpenNext
  <2>5. /\ entry'[i] = "open" /\ queue'[i] = <<Event(1, None, "status")>> /\ emitted'[i] = 1
        /\ \A j \in Instances : j # i => entry'[j] = entry[j] /\ queue'[j] = queue[j] /\ emitted'[j] = emitted[j]
    BY <1>1, <2>2, <2>4 DEF StreamTypes
  <2>6. Behind(i)' = <<>>
    <3>1. InHand(i)' = <<>> /\ buffer'[i] = <<>>
      BY <2>3, <2>4 DEF InHand
    <3> QED
      BY <3>1 DEF Behind
  <2>7. StreamInv(i)'
    BY <2>2, <2>3, <2>4, <2>5, <2>6, OrderedNew DEF StreamInv
  <2>8. ASSUME NEW j \in Instances, j # i PROVE StreamInv(j)'
    <3>1. Behind(j)' = Behind(j)
      BY <2>4 DEF Behind, InHand
    <3> QED
      BY <1>1, <2>4, <2>5, <2>8, <3>1, StreamSame
  <2> QED
    BY <2>7, <2>8
<1>4. CASE NewRouter
  <2>1. /\ phase = "opening" /\ UNCHANGED <<buffer, out, seen, queue, entry, emitted>>
        /\ pump' = [j \in Instances |-> IF j \in Range(order) THEN Receiving ELSE pump[j]]
    BY <1>4 DEF NewRouter
  <2>2. ASSUME NEW j \in Instances PROVE Behind(j)' = Behind(j)
    <3>1. pump[j].at = "ended" /\ pump'[j].at \in {"ended", "receive"}
      BY <2>1, RestingFacts DEF EarlyInv
    <3> QED
      BY <2>1, <3>1 DEF Behind, InHand
  <2> QED
    BY <1>1, <2>1, <2>2, StreamSame
<1>5. ASSUME UNCHANGED <<out, seen, pump, buffer>> PROVE \A j \in Instances : Behind(j)' = Behind(j)
  BY <1>5 DEF Behind, InHand
<1>6. CASE CloseEntry
  <2> DEFINE i == Last(order)
  <2>1. /\ UNCHANGED <<out, seen, pump, buffer, queue, emitted>>
        /\ UNCHANGED entry \/ (entry[i] = "open" /\ entry' = [entry EXCEPT ![i] = "closing"])
    BY <1>6 DEF CloseEntry
  <2>2. ASSUME NEW j \in Instances PROVE StreamInv(j)'
    <3>1. Behind(j)' = Behind(j) /\ StreamInv(j)
      BY <1>1, <1>5, <2>1
    <3>2. CASE entry'[j] = entry[j]
      BY <2>1, <3>1, <3>2, StreamSame
    <3>3. CASE entry'[j] # entry[j]
      <4>1. entry[j] = "open" /\ entry'[j] = "closing"
        BY <1>1, <2>1, <3>3 DEF StreamTypes
      <4>2. Ordered(j, seen[j], out, Behind(j), queue[j], "closing", emitted[j])
        BY <3>1, <4>1, OrderedEnd DEF StreamInv
      <4> QED
        BY <2>1, <3>1, <4>1, <4>2 DEF StreamInv
    <3> QED
      BY <3>2, <3>3
  <2> QED
    BY <2>2
<1>7. CASE RegisterWorkspaces \/ RegisterAgents \/ OpenFails \/ ReconcileThreads \/ ReloadWorkspaces \/ Stop
           \/ SessionClosed \/ Down
  <2>1. UNCHANGED <<out, seen, pump, buffer, queue, emitted, entry>>
    BY <1>7 DEF RegisterWorkspaces, RegisterAgents, OpenFails, ReconcileThreads, ReloadWorkspaces, Stop,
       SessionClosed, Down
  <2> QED
    BY <1>1, <1>5, <2>1, StreamSame
<1> QED
  BY <1>2, <1>3, <1>4, <1>6, <1>7 DEF HostStep, CloseStep

-----------------------------------------------------------------------------
(* What an instance is opened with                                         *)

LEMMA OpenKept ==
    ASSUME RouterTypes, OpenInv, UNCHANGED todo,
           phase' \in {"loading", "agents", "opening"} => phase' = phase \/ (phase = "loading" /\ phase' = "agents"),
           \A j \in Instances : entry[j] = "none" <=> entry'[j] = "none",
           \A j \in Instances : entry[j] = "none" => buffer'[j] = buffer[j],
           \A j \in Instances : entry'[j] = "closing" => runtime'[j] = "closed"
    PROVE  OpenInv'
<1>1. \A j \in 1..Len(todo) : todo[j] \in Instances
  BY DEF RouterTypes, HostTypes
<1> QED
  BY <1>1 DEF OpenInv

LEMMA OpenAgent ==
    ASSUME RouterTypes, OpenInv, NEW i \in Instances, AgentStep(i) \/ EntryStep(i) \/ FailedClose(i)
    PROVE  OpenInv'
<1> USE DEF host
<1>1. UNCHANGED <<phase, todo>> /\ StreamTypes /\ \A j \in Instances : entry[j] = "closing" => runtime[j] = "closed"
  BY TypesAgent DEF RouterTypes, OpenInv
<1>2. CASE AgentStep(i)
  <2>1. UNCHANGED <<entry, buffer, runtime>>
    BY <1>2 DEF AgentStep, AgentWorks, TurnEnds, Emit
  <2> QED
    BY <1>1, <2>1, OpenKept
<1>3. CASE Forward(i)
  <2>1. UNCHANGED <<entry, runtime>> /\ entry[i] # "none"
        /\ buffer' = [buffer EXCEPT ![i] = Append(buffer[i], Head(queue[i]))]
    BY <1>3 DEF Forward
  <2>2. \A j \in Instances : j # i => buffer'[j] = buffer[j]
    BY <1>1, <2>1 DEF StreamTypes
  <2> QED
    BY <1>1, <2>1, <2>2, OpenKept
<1>4. CASE FailWhenFull(i) \/ PumpStopped(i) \/ FailedClose(i)
  <2>1. /\ entry[i] # "none" /\ UNCHANGED buffer
        /\ \E state \in {"failing", "closed", "failed"} : entry' = [entry EXCEPT ![i] = state]
        /\ UNCHANGED runtime \/ runtime' = [runtime EXCEPT ![i] = "closed"]
    BY <1>4 DEF FailWhenFull, PumpStopped, FailedClose, RuntimeClosed
  <2>2. /\ entry'[i] \in {"failing", "closed", "failed"}
        /\ \A j \in Instances : j # i => entry'[j] = entry[j] /\ runtime'[j] = runtime[j]
    BY <1>1, <2>1 DEF StreamTypes
  <2> QED
    BY <1>1, <2>1, <2>2, OpenKept
<1> QED
  BY <1>2, <1>3, <1>4 DEF EntryStep

LEMMA OpenPump ==
    ASSUME RouterTypes, OpenInv, NEW i \in Instances, RouterStep(i)
    PROVE  OpenInv'
<1>1. /\ UNCHANGED <<phase, todo, runtime, entry>> /\ StreamTypes
      /\ \A j \in Instances : entry[j] = "closing" => runtime[j] = "closed"
  BY TypesPump DEF host, RouterTypes, OpenInv
<1>2. \A j \in Instances : entry[j] = "none" => buffer'[j] = buffer[j]
  <2>1. CASE Take(i)
    <3>1. buffer[i] # <<>> /\ buffer' = [buffer EXCEPT ![i] = Tail(buffer[i])]
      BY <2>1 DEF Take
    <3> QED
      BY <1>1, <3>1 DEF OpenInv, StreamTypes
  <2>2. CASE ~Take(i)
    <3>1. UNCHANGED buffer
      BY <2>2 DEF RouterStep, FindBinding, BindingUnavailable, SaveEnded, Send, SourceEnds
    <3> QED
      BY <3>1
  <2> QED
    BY <2>1, <2>2
<1> QED
  BY <1>1, <1>2, OpenKept

LEMMA OpenHost ==
    ASSUME RouterTypes, OpenInv, HostStep \/ CloseStep
    PROVE  OpenInv'
<1> USE DEF host, files, tables, codex, sources
<1>1. /\ StreamTypes /\ HostTypes
      /\ \A j \in Instances : entry[j] = "closing" => runtime[j] = "closed"
  BY DEF RouterTypes, OpenInv
<1>2. CASE Start \/ Kill
  <2>1. /\ phase' \in {"loading", "down"}
        /\ \A j \in Instances : entry'[j] = "none" /\ buffer'[j] = <<>>
    BY <1>2 DEF Start, Kill, Fresh, Empty
  <2> QED
    BY <2>1 DEF OpenInv
<1>3. CASE RegisterWorkspaces \/ ReconcileThreads \/ ReloadWorkspaces \/ Stop \/ SessionClosed \/ Down \/ NewRouter
  <2>1. UNCHANGED <<todo, runtime, entry, buffer>>
    BY <1>3 DEF RegisterWorkspaces, ReconcileThreads, ReloadWorkspaces, Stop, SessionClosed, Down, NewRouter
  <2>2. phase' \in {"loading", "agents", "opening"} => phase' = phase \/ (phase = "loading" /\ phase' = "agents")
    BY <1>3 DEF RegisterWorkspaces, ReconcileThreads, ReloadWorkspaces, Stop, SessionClosed, Down, NewRouter
  <2> QED
    BY <1>1, <2>1, <2>2, OpenKept
<1>4. CASE CloseEntry
  <2> DEFINE i == Last(order)
  <2>1. /\ UNCHANGED <<phase, todo, buffer>>
        /\ \/ UNCHANGED <<entry, runtime>>
           \/ /\ entry[i] = "open" /\ entry' = [entry EXCEPT ![i] = "closing"]
              /\ runtime' = [runtime EXCEPT ![i] = "closed"]
    BY <1>4 DEF CloseEntry, RuntimeClosed
  <2>2. ASSUME NEW j \in Instances
        PROVE  /\ entry[j] = "none" <=> entry'[j] = "none"
               /\ entry'[j] = "closing" => runtime'[j] = "closed"
    BY <1>1, <2>1 DEF StreamTypes
  <2> QED
    BY <2>1, <2>2, OpenKept
<1>5. CASE RegisterAgents
  <2>1. /\ phase = "agents" /\ phase' = "opening" /\ todo' = config.order
        /\ UNCHANGED <<runtime, entry, buffer>>
    BY <1>5 DEF RegisterAgents
  <2>2. /\ todo' \in Seq(Instances)
        /\ \A j, k \in 1..Len(todo') : todo'[j] = todo'[k] => j = k
    BY <1>1, <2>1, ConfigsFacts DEF HostTypes
  <2>3. \A j \in 1..Len(todo') : todo'[j] \in Instances
    BY <2>2
  <2> QED
    BY <2>1, <2>2, <2>3 DEF OpenInv
<1>6. ASSUME phase = "opening", todo # <<>>, todo' = Tail(todo), phase' = "opening", UNCHANGED buffer,
             \A j \in Instances : j # Head(todo) => entry'[j] = entry[j],
             \A j \in Instances : entry'[j] = "none" => entry[j] = "none",
             \A j \in Instances : entry'[j] = "closing" => runtime'[j] = "closed"
      PROVE  OpenInv'
  <2>1. todo \in Seq(Instances) /\ todo # <<>>
    BY <1>1, <1>6 DEF HostTypes
  <2>2. /\ Len(todo') = Len(todo) - 1 /\ Len(todo) \in Nat \ {0} /\ Head(todo) = todo[1]
        /\ \A k \in 1..Len(todo') : todo'[k] = todo[k + 1]
    BY <1>6, <2>1, HeadFacts
  <2>3. \A k \in 1..Len(todo) : todo[k] \in Instances
    BY <2>1
  <2>4. ASSUME NEW k \in 1..Len(todo')
        PROVE  k + 1 \in 1..Len(todo) /\ todo'[k] = todo[k + 1] /\ todo[k + 1] # todo[1]
    <3>1. k + 1 \in 1..Len(todo) /\ 1 \in 1..Len(todo) /\ k + 1 # 1 /\ todo'[k] = todo[k + 1]
      BY <2>2
    <3> QED
      BY <1>6, <3>1 DEF OpenInv
  <2>5. \A k \in 1..Len(todo') : entry'[todo'[k]] = "none"
    BY <1>6, <2>2, <2>3, <2>4 DEF OpenInv
  <2>6. ASSUME NEW j \in 1..Len(todo'), NEW k \in 1..Len(todo'), todo'[j] = todo'[k] PROVE j = k
    <3>1. todo[j + 1] = todo[k + 1] /\ j + 1 \in 1..Len(todo) /\ k + 1 \in 1..Len(todo)
      BY <2>4, <2>6
    <3>2. j + 1 = k + 1
      BY <1>6, <3>1 DEF OpenInv
    <3> QED
      BY <2>2, <3>2
  <2> QED
    BY <1>6, <2>5, <2>6 DEF OpenInv
<1>7. CASE OpenNext
  <2>1. /\ phase = "opening" /\ todo # <<>> /\ todo' = Tail(todo) /\ UNCHANGED <<phase, buffer>>
        /\ entry' = [entry EXCEPT ![Head(todo)] = "open"]
        /\ runtime' = [runtime EXCEPT ![Head(todo)] = "ready"]
    BY <1>7 DEF OpenNext
  <2>2. ASSUME NEW j \in Instances
        PROVE  /\ j # Head(todo) => entry'[j] = entry[j]
               /\ entry'[j] = "none" => entry[j] = "none"
               /\ entry'[j] = "closing" => runtime'[j] = "closed"
    BY <1>1, <2>1 DEF StreamTypes
  <2> QED
    BY <1>6, <2>1, <2>2
<1>8. CASE OpenFails
  <2>1. /\ phase = "opening" /\ todo # <<>> /\ UNCHANGED <<buffer, entry, runtime>>
        /\ \/ phase' = "failed" /\ UNCHANGED todo
           \/ todo' = Tail(todo) /\ UNCHANGED phase
    BY <1>8 DEF OpenFails
  <2>2. CASE phase' = "failed" /\ UNCHANGED todo
    BY <1>1, <2>1, <2>2, OpenKept
  <2>3. CASE todo' = Tail(todo) /\ UNCHANGED phase
    BY <1>1, <1>6, <2>1, <2>3
  <2> QED
    BY <2>1, <2>2, <2>3
<1> QED
  BY <1>2, <1>3, <1>4, <1>5, <1>7, <1>8 DEF HostStep, CloseStep

LEMMA OrderNext ==
    ASSUME RouterTypes, RouterTypes', EarlyInv, OrderInv, [Next]_vars
    PROVE  OrderInv'
<1> USE DEF host, files, tables, codex, sources
<1>1. OpenInv /\ \A j \in Instances : StreamInv(j) /\ (entry[j] = "closing" => runtime[j] = "closed")
  BY DEF OrderInv, OpenInv
<1>2. ASSUME UNCHANGED <<phase, todo, runtime, entry, buffer>> PROVE OpenInv'
  BY <1>1, <1>2, OpenKept
<1>3. ASSUME UNCHANGED <<phase, todo, sources, pump, out, seen>> PROVE OrderInv'
  <2>1. \A j \in Instances : Behind(j)' = Behind(j)
    BY <1>3 DEF Behind, InHand
  <2>2. \A j \in Instances : StreamInv(j)'
    BY <1>1, <1>3, <2>1, StreamSame
  <2> QED
    BY <1>2, <1>3, <2>2 DEF OrderInv
<1>4. CASE UNCHANGED vars
  BY <1>3, <1>4 DEF vars
<1>5. ASSUME NEW w \in Workspaces, SwapDirectory(w) PROVE OrderInv'
  BY <1>3, <1>5 DEF SwapDirectory
<1>6. CASE Request
  BY <1>3, <1>6, TypesRequest
<1>7. CASE CallStep
  BY <1>3, <1>7, TypesCallStep
<1>8. CASE Consume
  <2>1. UNCHANGED <<phase, todo, runtime, entry, buffer>>
    BY <1>8, TypesConsume
  <2> QED
    BY <1>2, <1>8, <2>1, StreamConsume DEF OrderInv
<1>9. ASSUME NEW i \in Instances, AgentStep(i) \/ EntryStep(i) \/ FailedClose(i) PROVE OrderInv'
  BY <1>1, <1>9, StreamAgent, OpenAgent DEF OrderInv
<1>10. ASSUME NEW i \in Instances, RouterStep(i) PROVE OrderInv'
  BY <1>1, <1>10, StreamPump, OpenPump DEF OrderInv
<1>11. CASE HostStep \/ CloseStep
  BY <1>1, <1>11, StreamHost, OpenHost DEF OrderInv
<1> QED
  BY <1>4, <1>5, <1>6, <1>7, <1>8, <1>9, <1>10, <1>11 DEF Next

LEMMA OrderInit == Init => OrderInv
<1> SUFFICES ASSUME Init PROVE OrderInv
  OBVIOUS
<1>1. OpenInv
  BY DEF Init, OpenInv, Empty
<1>2. ASSUME NEW j \in Instances PROVE StreamInv(j)
  <2>1. InHand(j) = <<>> /\ buffer[j] = <<>>
    BY DEF Init, InHand, Empty
  <2>2. Behind(j) = <<>>
    BY <2>1 DEF Behind
  <2> QED
    BY <2>2, OrderedNew DEF Init, StreamInv, Empty
<1> QED
  BY <1>1, <1>2 DEF OrderInv

LEMMA OrderInvariant == Spec => []OrderInv
<1>1. RowInv /\ RowInv' /\ OrderInv /\ [Next]_vars => OrderInv'
  BY OrderNext DEF RowInv
<1> QED
  BY <1>1, OrderInit, RowInvariant, PTL DEF Spec

(* The control session gets the events of every instance in the order in   *)
(* which its runtime emitted them and without a hole, for any number of    *)
(* instances that share the router's channel and any capacity: through     *)
(* entry.pump and Router.pump, a full buffer, a failed binding, a stop and *)
(* a restart (node/runtime/manager.go, node/runtime/router.go).            *)
THEOREM EventsStayInOrder == Spec => []EventsInOrder
<1>1. OrderInv => EventsInOrder
  <2> SUFFICES ASSUME OrderInv PROVE EventsInOrder
    OBVIOUS
  <2>1. \A j \in Instances : Ordered(j, seen[j], out, Behind(j), queue[j], entry[j], emitted[j])
    BY DEF OrderInv, StreamInv
  <2>2. \A k, j : Count(out, k, j) = Among(k, j)
    BY DEF Count, Places, Among
  <2> QED
    BY <2>1, <2>2 DEF Ordered, EventsInOrder
<1> QED
  BY <1>1, OrderInvariant, PTL
=============================================================================
