---------------------------- MODULE RuntimeRouter ----------------------------
(***************************************************************************)
(* The Agent side of a Node from start to stop: the registration of its    *)
(* workspaces and Agent instances, one managed runtime per instance with   *)
(* an event pump of its own (node/runtime/manager.go), the router that     *)
(* binds the sessions of all of them to task IDs and merges their events   *)
(* (node/runtime/router.go), and recovery after a kill.                    *)
(*                                                                         *)
(* The control session is the only caller of the router and the host's     *)
(* mutex orders starts and stops, so there is one caller; the pumps, the   *)
(* Agents and the file system run beside it.  What one Codex runtime does  *)
(* inside a call is the subject of AgentControl; here a call changes the   *)
(* runtime_threads row and the session it is about.                        *)
(***************************************************************************)
EXTENDS Naturals, Sequences, SequencesExt

CONSTANTS
    Instances,    \* configured Agent instances
    Default,      \* the default one
    Workspaces,
    Sessions,     \* native session IDs; every instance has its own of each
    Tasks,        \* task IDs
    Configs,      \* the configuration of each start: [order, links], see below
    Dirs,         \* identities of directories
    Capacity,     \* of each event channel
    MaxEvents,    \* events of each runtime
    MaxTurns,
    MaxSwaps,     \* directories replaced on disk
    None          \* no row, no directory, no session

\* Rows of task_bindings (the Turn, 0 for none) and runtime_threads.
Bindings == [inst : Instances, session : Sessions, ws : Workspaces, run : Nat]
Threads == [ws : Workspaces, state : {"idle", "starting", "active", "needs_reconcile"}, turn : Nat]

\* order: the enabled managed instances; links: the instances each workspace
\* allows, the empty set for a workspace that is not configured.
ASSUME ConfigAssumption ==
    /\ Default \in Instances
    /\ None \notin Instances \cup Workspaces \cup Sessions \cup Tasks \cup Dirs
    /\ None \notin Instances \X Sessions /\ None \notin Bindings /\ None \notin Threads
    /\ Configs \in Seq(Range(Configs)) /\ Configs # <<>>
    /\ \A c \in Range(Configs) :
        /\ c.order \in Seq(Instances) /\ Default \in Range(c.order)
        /\ IsInjective(c.order)    \* validAgentInstances
        /\ c.links \in [Workspaces -> SUBSET Range(c.order)]

VARIABLES
    phase,     \* of the host
    config,    \* the configuration it started with
    todo,      \* instances still to open
    boots, swaps,
    disk,      \* directory at each workspace's path, or None
    reg,       \* directory each workspace is registered with, or None
    links,     \* workspace_agents
    bindings,  \* task_bindings: a row or None for each task
    threads,   \* runtime_threads: a row or None for each session
    cwd,       \* workspace each native session was made in, or None
    turn,      \* Turn running in each session, 0 for none
    turns,     \* Turns started so far
    runtime,   \* "none", "ready", "closing" or "closed"
    queue,     \* events a runtime has emitted
    entry,     \* state of the manager's entry
    order,     \* entries in the order they were opened
    buffer,    \* events of the entry's handle
    pump,      \* the router's pump of each source
    out,       \* events of the router
    caller,    \* the request under way
    emitted, seen,  \* number of the last event emitted and consumed
    told       \* session each task ID was answered for, or None

host == <<phase, config, todo, boots, order>>
files == <<disk, swaps>>
tables == <<reg, links, bindings, threads>>
codex == <<cwd, turn, turns>>
sources == <<runtime, queue, entry, buffer, emitted>>
vars == <<host, files, tables, codex, sources, pump, out, caller, seen, told>>

Idle == [at |-> "idle"]
Receiving == [at |-> "receive"]
Empty == [i \in Instances |-> <<>>]

Init ==
    /\ phase = "down" /\ config = Configs[1] /\ todo = <<>> /\ boots = 0 /\ order = <<>>
    /\ swaps = 0 /\ disk = CHOOSE d \in [Workspaces -> Dirs] : IsInjective(d)
    /\ reg = [w \in Workspaces |-> None]
    /\ links = [w \in Workspaces |-> {}]
    /\ bindings = [t \in Tasks |-> None]
    /\ threads = [i \in Instances |-> [s \in Sessions |-> None]]
    /\ cwd = [i \in Instances |-> [s \in Sessions |-> None]]
    /\ turn = [i \in Instances |-> [s \in Sessions |-> 0]] /\ turns = 0
    /\ runtime = [i \in Instances |-> "none"]
    /\ queue = Empty /\ buffer = Empty /\ out = <<>>
    /\ entry = [i \in Instances |-> "none"]
    /\ pump = [i \in Instances |-> [at |-> "ended"]]
    /\ caller = Idle
    /\ emitted = [i \in Instances |-> 0] /\ seen = [i \in Instances |-> 0]
    /\ told = [t \in Tasks |-> None]

-----------------------------------------------------------------------------
(* The workspaces and the tables *)

Configured(c) == {w \in Workspaces : c.links[w] # {}}

\* Every configured directory is there and no two are the same.
Reconcilable(c) ==
    /\ \A w \in Configured(c) : disk[w] # None
    /\ \A v, w \in Configured(c) : disk[v] = disk[w] => v = w

\* The directory of a workspace is the one it was registered with.
Resolve(w) == reg[w] # None /\ disk[w] = reg[w]

\* ThreadsOf, as a likely mistake would have it.
ThreadsKept(keep) == threads

\* ReplaceWorkspaces deletes the Threads of a workspace that is gone.
ThreadsOf(keep) ==
    [i \in Instances |-> [s \in Sessions |->
        IF threads[i][s] # None /\ threads[i][s].ws \notin keep THEN None ELSE threads[i][s]]]

\* One transaction; bindings and links go with their workspace.
ReplaceWorkspaces(c) ==
    LET keep == Configured(c) IN
    /\ reg' = [w \in Workspaces |-> IF w \in keep THEN disk[w] ELSE None]
    /\ threads' = ThreadsOf(keep)
    /\ bindings' = [t \in Tasks |->
           IF bindings[t] # None /\ bindings[t].ws \notin keep THEN None ELSE bindings[t]]
    /\ links' = [w \in Workspaces |-> IF w \in keep THEN links[w] ELSE {}]

Bound(t, i, s) == bindings[t] # None /\ bindings[t].inst = i /\ bindings[t].session = s

\* TaskBindingByNativeSession, as a likely mistake would have it.
AnyInstance(i, s) == {t \in Tasks : bindings[t] # None /\ bindings[t].session = s}

TaskBindingByNativeSession(i, s) ==
    {t \in Tasks : Bound(t, i, s)}

Thread(w, state, n) == [ws |-> w, state |-> state, turn |-> n]

SaveRuntimeThread(i, s, row) == threads' = [threads EXCEPT ![i][s] = row]

RuntimeThreadsForInstance(i) == {threads[i][s] : s \in {x \in Sessions : threads[i][x] # None}}

\* Some Thread of the instance is not known to be idle.
AnyUncertainThread(i) == \E row \in RuntimeThreadsForInstance(i) : row.state # "idle"

-----------------------------------------------------------------------------
(* The host: start *)

\* A manager and a router of its own; pumps of an earlier start are left behind,
\* with channels and a database that are closed.
Fresh ==
    /\ runtime' = [i \in Instances |-> "none"] /\ entry' = [i \in Instances |-> "none"]
    /\ queue' = Empty /\ buffer' = Empty /\ out' = <<>>
    /\ pump' = [i \in Instances |-> [at |-> "ended"]]
    /\ emitted' = [i \in Instances |-> 0] /\ seen' = [i \in Instances |-> 0]

Start ==
    /\ phase = "down" /\ boots < Len(Configs)
    /\ boots' = boots + 1 /\ config' = Configs[boots + 1] /\ phase' = "loading"
    /\ Fresh
    /\ UNCHANGED <<todo, order, files, tables, codex, caller, told>>

RegisterWorkspaces ==
    /\ phase = "loading"
    /\ IF Reconcilable(config)
       THEN phase' = "agents" /\ ReplaceWorkspaces(config)
       ELSE phase' = "failed" /\ UNCHANGED tables
    /\ UNCHANGED <<config, todo, boots, order, files, codex, sources, pump, out, caller, seen, told>>

\* A crash between the two leaves workspaces without links until the next start.
RegisterAgents ==
    /\ phase = "agents"
    /\ links' = config.links
    /\ todo' = config.order /\ phase' = "opening"
    /\ UNCHANGED <<config, boots, order, files, reg, bindings, threads, codex, sources, pump,
                   out, caller, seen, told>>

Event(n, s, kind) == [n |-> n, session |-> s, kind |-> kind]

\* Open: the runtime starts, reports so in an event about no session, and its
\* entry's pump runs.
OpenNext ==
    /\ phase = "opening" /\ todo # <<>>
    /\ todo' = Tail(todo) /\ order' = Append(order, Head(todo))
    /\ runtime' = [runtime EXCEPT ![Head(todo)] = "ready"]
    /\ entry' = [entry EXCEPT ![Head(todo)] = "open"]
    /\ queue' = [queue EXCEPT ![Head(todo)] = <<Event(1, None, "status")>>]
    /\ emitted' = [emitted EXCEPT ![Head(todo)] = 1]
    /\ UNCHANGED <<phase, config, boots, files, tables, codex, buffer, pump, out, caller, seen,
                   told>>

\* Detection or the start of a runtime fails: only the default one is fatal.
OpenFails ==
    /\ phase = "opening" /\ todo # <<>>
    /\ IF Head(todo) = Default
       THEN phase' = "failed" /\ UNCHANGED todo
       ELSE todo' = Tail(todo) /\ UNCHANGED phase
    /\ UNCHANGED <<config, boots, order, files, tables, codex, sources, pump, out, caller, seen, told>>

\* Recovery is for Threads marked needs_reconcile before the runtimes start.
NewRouter ==
    /\ phase = "opening" /\ todo = <<>>
    /\ pump' = [i \in Instances |-> IF i \in Range(order) THEN Receiving ELSE pump[i]]
    /\ phase' = IF \E i \in Instances : \E row \in RuntimeThreadsForInstance(i) :
                       row.state = "needs_reconcile"
                THEN "recovering" ELSE "running"
    /\ UNCHANGED <<config, todo, boots, order, files, tables, codex, sources, out, caller, seen, told>>

\* reloadConfiguration in place: the same workspaces, registered as they are now.
ReloadWorkspaces ==
    /\ phase = "running" /\ Reconcilable(config)
    /\ ReplaceWorkspaces(config)
    /\ UNCHANGED <<host, files, codex, sources, pump, out, caller, seen, told>>

\* Somebody replaces the directory of a workspace, or moves it away.
SwapDirectory(w) ==
    /\ swaps < MaxSwaps /\ swaps' = swaps + 1
    /\ \E d \in (Dirs \cup {None}) \ {disk[w]} : disk' = [disk EXCEPT ![w] = d]
    /\ UNCHANGED <<host, tables, codex, sources, pump, out, caller, seen, told>>

-----------------------------------------------------------------------------
(* The control session's calls.  A call that is refused changes nothing. *)

Serving == phase \in {"running", "stopping"}

\* A handle refuses calls once its entry is closed.
Usable(i) == i \in Range(order) /\ entry[i] = "open"

\* The requested instance, or the workspace's default one: it has to be linked.
SourceFor(w, i) == i \in links[w] /\ Usable(i)

\* The task's session; its runtime has to be a source of this router.
ResolveTask(t, w) ==
    /\ bindings[t] # None /\ bindings[t].ws = w
    /\ Usable(bindings[t].inst)

Begin == phase = "running" /\ caller = Idle

UnchangedByCall == <<host, files, reg, links, sources, pump, out, seen>>

\* thread/start makes a session in the workspace's directory and its Thread is
\* saved.  From here on the runtime reports events of the session.
StartThread(w, i, s) ==
    /\ Begin /\ SourceFor(w, i) /\ Resolve(w) /\ cwd[i][s] = None
    /\ cwd' = [cwd EXCEPT ![i][s] = w]
    /\ SaveRuntimeThread(i, s, Thread(w, "idle", 0))
    /\ caller' = [at |-> "bind", inst |-> i, session |-> s, ws |-> w]
    /\ UNCHANGED <<UnchangedByCall, bindings, turn, turns, told>>

Binding(i, s, w, n) == [inst |-> i, session |-> s, ws |-> w, run |-> n]

\* bindThread: the session's task if it has one, else a new one.
BindThread(i, s, w) ==
    IF TaskBindingByNativeSession(i, s) # {}
    THEN /\ UNCHANGED bindings
         /\ \E t \in TaskBindingByNativeSession(i, s) :
               told' = [told EXCEPT ![t] = IF @ = None THEN <<i, s>> ELSE @]
    ELSE \E t \in Tasks :
            /\ told[t] = None /\ bindings[t] = None
            /\ bindings' = [bindings EXCEPT ![t] = Binding(i, s, w, 0)]
            /\ told' = [told EXCEPT ![t] = <<i, s>>]

BindStarted ==
    /\ caller.at = "bind" /\ Serving
    /\ BindThread(caller.inst, caller.session, caller.ws)
    /\ caller' = Idle
    /\ UNCHANGED <<UnchangedByCall, codex, threads>>

\* ListThreads: the sessions made in the workspace's directory, bound one by one.
ListThreads(w, i) ==
    /\ Begin /\ SourceFor(w, i) /\ Resolve(w)
    /\ LET found == {s \in Sessions : cwd[i][s] = w} IN
       /\ found # {}
       /\ caller' = [at |-> "list", inst |-> i, rest |-> found, ws |-> w]
    /\ UNCHANGED <<UnchangedByCall, codex, bindings, threads, told>>

BindListed(s) ==
    /\ caller.at = "list" /\ Serving /\ s \in caller.rest
    /\ BindThread(caller.inst, s, caller.ws)
    /\ caller' = IF caller.rest = {s} THEN Idle ELSE [caller EXCEPT !.rest = @ \ {s}]
    /\ UNCHANGED <<UnchangedByCall, codex, threads>>

\* Called for a task: the row of its binding stays with the call.
Calling(at, t) == [at |-> at, task |-> t, row |-> bindings[t]]

\* ResumeThread: not while a Turn runs or the Thread's state is uncertain.
ResumeThread(t, w) ==
    LET i == bindings[t].inst  s == bindings[t].session IN
    /\ Begin /\ ResolveTask(t, w) /\ Resolve(w)
    /\ cwd[i][s] = w /\ turn[i][s] = 0
    /\ threads[i][s] # None => threads[i][s].ws = w /\ threads[i][s].state = "idle"
    /\ SaveRuntimeThread(i, s, Thread(w, "idle", 0))
    /\ caller' = Calling("resumed", t)
    /\ UNCHANGED <<UnchangedByCall, codex, bindings, told>>

SaveBindingState(t, row, n) == bindings' = [bindings EXCEPT ![t] = [row EXCEPT !.run = n]]

SaveResumed ==
    /\ caller.at = "resumed" /\ Serving
    /\ SaveBindingState(caller.task, caller.row, 0)
    /\ caller' = Idle
    /\ UNCHANGED <<UnchangedByCall, codex, threads, told>>

\* StartTurn: an idle Thread of an instance without an uncertain one.
StartTurn(t, w) ==
    LET i == bindings[t].inst  s == bindings[t].session IN
    /\ Begin /\ ResolveTask(t, w) /\ Resolve(w) /\ turns < MaxTurns
    /\ threads[i][s] # None /\ threads[i][s].ws = w /\ ~AnyUncertainThread(i)
    /\ SaveRuntimeThread(i, s, Thread(w, "starting", 0))
    /\ caller' = Calling("starting", t)
    /\ UNCHANGED <<UnchangedByCall, codex, bindings, told>>

\* turn/start is answered.
TurnStarts ==
    LET i == caller.row.inst  s == caller.row.session IN
    /\ caller.at = "starting" /\ Serving
    /\ turns' = turns + 1
    /\ turn' = [turn EXCEPT ![i][s] = turns + 1]
    /\ SaveRuntimeThread(i, s, Thread(caller.row.ws, "active", turns + 1))
    /\ caller' = [at |-> "started", task |-> caller.task, row |-> caller.row, n |-> turns + 1]
    /\ UNCHANGED <<UnchangedByCall, cwd, bindings, told>>

\* turn/start is refused.
TurnRefused ==
    /\ caller.at = "starting" /\ Serving
    /\ SaveRuntimeThread(caller.row.inst, caller.row.session, Thread(caller.row.ws, "idle", 0))
    /\ caller' = Idle
    /\ UNCHANGED <<UnchangedByCall, codex, bindings, told>>

\* Its answer is lost: the Turn runs or it does not.
TurnAmbiguous ==
    LET i == caller.row.inst  s == caller.row.session IN
    /\ caller.at = "starting" /\ Serving
    /\ \/ UNCHANGED <<turn, turns>>
       \/ turns' = turns + 1 /\ turn' = [turn EXCEPT ![i][s] = turns + 1]
    /\ SaveRuntimeThread(i, s, Thread(caller.row.ws, "needs_reconcile", 0))
    /\ caller' = Idle
    /\ UNCHANGED <<UnchangedByCall, cwd, bindings, told>>

\* With the binding read before the call.
SaveStarted ==
    /\ caller.at = "started" /\ Serving
    /\ SaveBindingState(caller.task, caller.row, caller.n)
    /\ caller' = Idle
    /\ UNCHANGED <<UnchangedByCall, codex, threads, told>>

\* A write fails, or the session's context ended: the answer is an error.
CallFails ==
    /\ caller.at \in {"bind", "list", "resumed", "started"} /\ Serving
    /\ caller' = Idle
    /\ UNCHANGED <<UnchangedByCall, codex, bindings, threads, told>>

CallStep ==
    \/ BindStarted \/ \E s \in Sessions : BindListed(s)
    \/ SaveResumed \/ TurnStarts \/ TurnRefused \/ TurnAmbiguous \/ SaveStarted \/ CallFails

-----------------------------------------------------------------------------
(* Recovery, through the router: by native session and instance *)

ReadForRecovery(i, s) ==
    \E t \in TaskBindingByNativeSession(i, s) : ResolveTask(t, threads[i][s].ws)

\* Every Thread that is not idle is read; one that cannot be read is deferred.
ReconcileThreads ==
    /\ phase = "recovering" /\ phase' = "running"
    /\ threads' = [i \in Instances |-> [s \in Sessions |->
           IF threads[i][s] = None THEN None
           ELSE IF threads[i][s].state # "idle" /\ ReadForRecovery(i, s)
                   /\ Resolve(threads[i][s].ws)
           THEN Thread(threads[i][s].ws, "idle", 0) ELSE threads[i][s]]]
    /\ UNCHANGED <<config, todo, boots, order, files, reg, links, bindings, codex, sources,
                   pump, out, caller, seen, told>>

-----------------------------------------------------------------------------
(* The Agents *)

\* The codex runtime drops what does not fit; AgentControl has that case.
Emit(i, s, kind) ==
    /\ runtime[i] = "ready" /\ Len(queue[i]) < Capacity /\ emitted[i] < MaxEvents[i]
    /\ emitted' = [emitted EXCEPT ![i] = @ + 1]
    /\ queue' = [queue EXCEPT ![i] = Append(@, Event(emitted[i] + 1, s, kind))]
    /\ UNCHANGED <<runtime, entry, buffer>>

\* Events of a session the Node does not know are not reported.
AgentWorks(i, s) ==
    /\ threads[i][s] # None
    /\ Emit(i, s, "item")
    /\ UNCHANGED <<host, files, tables, codex, pump, out, caller, seen, told>>

TurnEnds(i, s) ==
    /\ turn[i][s] # 0 /\ threads[i][s] # None
    /\ Emit(i, s, "ended")
    /\ turn' = [turn EXCEPT ![i][s] = 0]
    /\ SaveRuntimeThread(i, s, Thread(threads[i][s].ws, "idle", 0))
    /\ UNCHANGED <<host, files, reg, links, bindings, cwd, turns, pump, out, caller, seen, told>>

-----------------------------------------------------------------------------
(* entry.pump: from the runtime to the handle *)

\* The handle's channel is closed: no event comes after those in its buffer.
Done(i) == entry[i] \in {"failed", "closed"}

Forward(i) ==
    /\ entry[i] \in {"open", "closing"} /\ queue[i] # <<>> /\ Len(buffer[i]) < Capacity
    /\ buffer' = [buffer EXCEPT ![i] = Append(@, Head(queue[i]))]
    /\ queue' = [queue EXCEPT ![i] = Tail(@)]
    /\ UNCHANGED <<runtime, entry, emitted>>

\* FailWhenFull, as a likely mistake would have it.
DropWhenFull(i) ==
    /\ entry[i] = "open" /\ queue[i] # <<>> /\ Len(buffer[i]) >= Capacity
    /\ queue' = [queue EXCEPT ![i] = Tail(@)]
    /\ UNCHANGED <<runtime, entry, emitted, buffer>>

\* event_backpressure: the event is lost, and the source with it.
FailWhenFull(i) ==
    /\ entry[i] = "open" /\ queue[i] # <<>> /\ Len(buffer[i]) >= Capacity
    /\ entry' = [entry EXCEPT ![i] = "failing"]
    /\ queue' = [queue EXCEPT ![i] = Tail(@)]
    /\ UNCHANGED <<runtime, emitted, buffer>>

\* PumpStopped, as a likely mistake would have it: what is left comes first.
PumpDrained(i) ==
    /\ entry[i] = "closing" /\ queue[i] = <<>>
    /\ entry' = [entry EXCEPT ![i] = "closed"]
    /\ UNCHANGED <<runtime, queue, emitted, buffer>>

PumpStopped(i) ==
    /\ entry[i] = "closing"
    /\ entry' = [entry EXCEPT ![i] = "closed"]
    /\ UNCHANGED <<runtime, queue, emitted, buffer>>

EntryStep(i) ==
    /\ Forward(i) \/ FailWhenFull(i) \/ PumpStopped(i)
    /\ UNCHANGED <<host, files, tables, codex, pump, out, caller, seen, told>>

\* Close of a runtime interrupts its Turns and leaves their Threads to recovery.
RuntimeClosed(i) ==
    /\ runtime' = [runtime EXCEPT ![i] = "closed"]
    /\ turn' = [turn EXCEPT ![i] = [s \in Sessions |-> 0]]
    /\ threads' = [threads EXCEPT ![i] = [s \in Sessions |->
           IF threads[i][s] # None /\ threads[i][s].state \in {"starting", "active"}
           THEN [threads[i][s] EXCEPT !.state = "needs_reconcile"] ELSE threads[i][s]]]

\* Close waits for the call the runtime is in.
InCall(i) == caller.at = "starting" /\ caller.row.inst = i

FailedClose(i) ==
    /\ entry[i] = "failing" /\ ~InCall(i)
    /\ RuntimeClosed(i)
    /\ entry' = [entry EXCEPT ![i] = "failed"]
    /\ UNCHANGED <<host, files, reg, links, bindings, cwd, turns, queue, buffer, emitted,
                   pump, out, caller, seen, told>>

-----------------------------------------------------------------------------
(* Router.pump: from the handles to the control session *)

UnchangedByPump == <<host, files, reg, links, threads, codex, runtime, queue, entry, emitted,
                     caller, seen, told>>

SetPump(i, state) == pump' = [pump EXCEPT ![i] = state]

Take(i) ==
    /\ pump[i].at = "receive" /\ buffer[i] # <<>>
    /\ buffer' = [buffer EXCEPT ![i] = Tail(@)]
    /\ LET event == Head(buffer[i]) IN
       SetPump(i, IF event.session = None
                  THEN [at |-> "send", event |-> event, task |-> None]
                  ELSE [at |-> "bind", event |-> event])
    /\ UNCHANGED <<UnchangedByPump, bindings, out>>

\* waitForEventBinding: the session may have been started a moment ago.
FindBinding(i) ==
    /\ pump[i].at = "bind" /\ phase # "down"
    /\ \E t \in TaskBindingByNativeSession(i, pump[i].event.session) :
          SetPump(i, [at |-> IF pump[i].event.kind = "ended" THEN "save" ELSE "send",
                      event |-> pump[i].event, task |-> t, row |-> bindings[t]])
    /\ UNCHANGED <<UnchangedByPump, bindings, out, buffer>>

\* task_binding_unavailable takes the event's place.
BindingUnavailable(i) ==
    /\ pump[i].at = "bind"
    /\ phase # "down" => TaskBindingByNativeSession(i, pump[i].event.session) = {}
    /\ SetPump(i, [at |-> "send", event |-> pump[i].event, task |-> None])
    /\ UNCHANGED <<UnchangedByPump, bindings, out, buffer>>

\* The end of a Turn, saved with the binding read before.  An error is ignored.
SaveEnded(i) ==
    /\ pump[i].at = "save"
    /\ IF phase # "down" THEN SaveBindingState(pump[i].task, pump[i].row, 0)
                         ELSE UNCHANGED bindings
    /\ SetPump(i, [pump[i] EXCEPT !.at = "send"])
    /\ UNCHANGED <<UnchangedByPump, out, buffer>>

Send(i) ==
    /\ pump[i].at = "send" /\ Len(out) < Capacity
    /\ out' = Append(out, [inst |-> i, event |-> pump[i].event, task |-> pump[i].task])
    /\ SetPump(i, Receiving)
    /\ UNCHANGED <<UnchangedByPump, bindings, buffer>>

SourceEnds(i) ==
    /\ pump[i].at = "receive" /\ buffer[i] = <<>> /\ Done(i)
    /\ SetPump(i, [at |-> "ended"])
    /\ UNCHANGED <<UnchangedByPump, bindings, out, buffer>>

RouterStep(i) ==
    \/ Take(i) \/ FindBinding(i) \/ BindingUnavailable(i) \/ SaveEnded(i) \/ Send(i)
    \/ SourceEnds(i)

\* The control session's event pump.
Consume ==
    /\ phase \in {"running", "stopping"} /\ out # <<>>
    /\ out' = Tail(out)
    /\ seen' = [seen EXCEPT ![Head(out).inst] = Head(out).event.n]
    /\ UNCHANGED <<host, files, tables, codex, sources, pump, caller, told>>

-----------------------------------------------------------------------------
(* The host: stop *)

\* A reload or the end of the program: the relay supervisor stops first.
Stop ==
    /\ phase \in {"failed", "running"}
    /\ phase' = "stopping"
    /\ UNCHANGED <<config, todo, boots, order, files, tables, codex, sources, pump, out,
                   caller, seen, told>>

\* The request under way and the event pump have ended.
SessionClosed ==
    /\ phase = "stopping" /\ caller = Idle
    /\ phase' = "closing"
    /\ UNCHANGED <<config, todo, boots, order, files, tables, codex, sources, pump, out,
                   caller, seen, told>>

\* Manager.Close, the last entry opened first.
CloseEntry ==
    LET i == Last(order) IN
    /\ phase = "closing" /\ order # <<>>
    /\ IF entry[i] = "open"
       THEN /\ RuntimeClosed(i) /\ entry' = [entry EXCEPT ![i] = "closing"]
            /\ UNCHANGED order
       ELSE /\ Done(i) /\ order' = Front(order)
            /\ UNCHANGED <<runtime, turn, threads, entry>>
    /\ UNCHANGED <<phase, config, todo, boots, files, reg, links, bindings, cwd, turns, queue,
                   buffer, emitted, pump, out, caller, seen, told>>

\* The database is closed; nobody waits for the router's pumps.
Down ==
    /\ phase = "closing" /\ order = <<>>
    /\ phase' = "down"
    /\ UNCHANGED <<config, todo, boots, order, files, tables, codex, sources, pump, out,
                   caller, seen, told>>

\* Killed: the Agents end with the Node.
Kill ==
    /\ phase # "down"
    /\ phase' = "down" /\ todo' = <<>> /\ order' = <<>> /\ caller' = Idle
    /\ turn' = [i \in Instances |-> [s \in Sessions |-> 0]]
    /\ Fresh
    /\ UNCHANGED <<config, boots, files, tables, cwd, turns, told>>

-----------------------------------------------------------------------------
Request ==
    \/ \E w \in Workspaces, i \in Instances :
          ListThreads(w, i) \/ \E s \in Sessions : StartThread(w, i, s)
    \/ \E t \in Tasks : bindings[t] # None /\
          \E w \in Workspaces : ResumeThread(t, w) \/ StartTurn(t, w)

AgentStep(i) ==
    \E s \in Sessions : AgentWorks(i, s) \/ TurnEnds(i, s)

CloseStep == SessionClosed \/ CloseEntry \/ Down

HostStep ==
    \/ Start \/ RegisterWorkspaces \/ RegisterAgents \/ OpenNext \/ OpenFails \/ NewRouter
    \/ ReconcileThreads \/ ReloadWorkspaces \/ Stop \/ Kill

Next ==
    \/ HostStep \/ CloseStep \/ Request \/ CallStep \/ Consume
    \/ \E w \in Workspaces : SwapDirectory(w)
    \/ \E i \in Instances : AgentStep(i) \/ EntryStep(i) \/ FailedClose(i) \/ RouterStep(i)

Spec == Init /\ [][Next]_vars

-----------------------------------------------------------------------------

InHand(i) == IF pump[i].at \in {"bind", "save", "send"} THEN <<pump[i].event>> ELSE <<>>

\* Events of a source in the first k places of the router's channel, and those
\* its pumps hold behind them, the oldest first.
Among(k, i) == Cardinality({j \in 1..k : out[j].inst = i})

Behind(i) == InHand(i) \o buffer[i]

(* The control session gets the events of a source in the order in which   *)
(* its runtime emitted them and without a hole, through both pumps, the    *)
(* shared channel, a full buffer (event_backpressure) and a stop; and as   *)
(* long as the source is open every event emitted is still to come.        *)
EventsInOrder ==
    \A i \in Instances :
        LET sent == seen[i] + Among(Len(out), i)
            passed == sent + Len(Behind(i)) IN
        /\ \A k \in 1..Len(out) : out[k].inst = i => out[k].event.n = seen[i] + Among(k, i)
        /\ \A k \in 1..Len(Behind(i)) : Behind(i)[k].n = sent + k
        /\ entry[i] = "open" =>
              /\ \A k \in 1..Len(queue[i]) : queue[i][k].n = passed + k
              /\ emitted[i] = passed + Len(queue[i])

(* Two instances use the same native session IDs, and bindings are written *)
(* back whole by calls and pumps that read them earlier: still a task ID   *)
(* stands for one session of one instance for good, and an event carries   *)
(* the task of the session it is about.                                    *)
TaskIsItsSession ==
    /\ \A t \in Tasks : bindings[t] # None => told[t] = <<bindings[t].inst, bindings[t].session>>
    /\ \A k \in 1..Len(out) : out[k].task # None =>
          told[out[k].task] = <<out[k].inst, out[k].event.session>>

(* Recovery reads a Thread through the router, which needs its binding: no *)
(* Thread is left uncertain in runtime_threads without a task of the same  *)
(* workspace, wherever the Node was killed and whatever workspaces the     *)
(* next configuration drops.  Such a Thread would keep its instance from   *)
(* starting Turns for good.                                                *)
UncertainHasTask ==
    \A i \in Instances, s \in Sessions :
        threads[i][s] # None /\ threads[i][s].state # "idle" =>
            \E t \in Tasks : Bound(t, i, s) /\ bindings[t].ws = threads[i][s].ws

(* A stop never waits for something that waits for the stop: until the     *)
(* Node is down the call under way can return, or an entry's pump can go   *)
(* on, or Manager.Close can.  The control session no longer consumes       *)
(* events, so a pump held up by a full buffer must not hold up the close.  *)
StopNotStuck ==
    phase \in {"stopping", "closing"} =>
        ENABLED (CallStep \/ CloseStep \/ \E i \in Instances : EntryStep(i) \/ FailedClose(i))

=============================================================================
