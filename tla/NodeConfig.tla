----------------------------- MODULE NodeConfig -----------------------------
(* The configuration of a running Node.  A browser may change harmless       *)
(* settings at once; a change of the relay or of a Workspace's permission     *)
(* waits for a confirmation on the machine.  Three threads write the file:    *)
(* the control session inside the relay supervisor, local commands under the  *)
(* host's mutex, and the host itself when it rolls a reload back or when the  *)
(* supervisor migrates a legacy credential.  Reloads load the file before     *)
(* they take the mutex and wait, holding it, for the supervisor they replace. *)
EXTENDS Naturals, FiniteSets

CONSTANTS
    Names,      \* values of the settings that are applied at once
    Relays,     \* relay addresses
    Changes,    \* rows of config_changes
    Reloaders,  \* bound: reload goroutines alive at a time
    Initials,   \* configurations the file may hold at the start
    Supervisors,  \* places for relay supervisors; the place of one that ended is used again
    MaxOps,     \* bound: updates asked for
    MaxFaults   \* bound: kills, corruptions and failed calls

Configs == [name : Names, relay : Relays, perm : {"read", "write"}, legacy : {"none", "ref"}]
Deltas == [field : {"name"}, to : Names] \cup [field : {"relay"}, to : Relays]
              \cup [field : {"perm"}, to : {"read", "write"}]

None == "none"

ASSUME ConfigAssumption ==
    /\ Initials # {} /\ Initials \subseteq Configs
    /\ None \notin Supervisors
    /\ Reloaders \cap {None, "local", "event"} = {}    \* the other values of mu
    /\ MaxOps \in Nat /\ MaxFaults \in Nat

VARIABLES
    file,       \* the configuration file and its backup
    change,     \* config_changes: state, base revision and change
    up,         \* resources of the host: down, attention, ready
    active,     \* activeConfig
    rows,       \* permission in the Workspace rows of the Node's database
    torn,       \* history: a rollback could not write these rows, and no reload since
    pump,       \* the event pump of the control session
    retention,  \* settings the event log runs with
    sup,        \* supervisors
    current,    \* h.relaySupervisor
    mu,         \* holder of the host's mutex
    reload,     \* reload goroutines
    local,      \* the local command being served
    failing,    \* handleEventFailure
    confirmed,  \* changes a local approval has let through
    ops,
    faults

host == <<up, active, rows, torn, pump, retention, current>>
threads == <<sup, reload, local, failing>>
vars == <<file, change, host, threads, mu, confirmed, ops, faults>>

Some == CHOOSE c \in Configs : TRUE
Unreadable == [Some EXCEPT !.legacy = "unreadable"]
Empty == [Some EXCEPT !.legacy = "empty"]
NoChange == [state |-> None, base |-> Empty, delta |-> [field |-> "name", to |-> Some.name]]
NoSup == [pc |-> None, relay |-> Some.relay, legacy |-> "none", next |-> Empty, closed |-> FALSE]
NoReload == [pc |-> None, to |-> Empty]
NoCommand == [pc |-> None, next |-> Empty, id |-> None]

\* The host starts: runHost begins with a full reload.
Starting == [r \in Reloaders |-> IF r = CHOOSE x \in Reloaders : TRUE THEN [NoReload EXCEPT !.pc = "relock"] ELSE NoReload]

Init ==
    /\ \E c \in Initials :
          /\ file = [main |-> c, back |-> c]
          /\ rows = c.perm /\ torn = FALSE /\ retention = c.name
    /\ change = [i \in Changes |-> NoChange]
    /\ up = "down" /\ active = Empty /\ pump = "stopped"
    /\ sup = [g \in Supervisors |-> NoSup] /\ current = None
    /\ mu = None /\ reload = Starting /\ local = NoCommand /\ failing = None
    /\ confirmed = {} /\ ops = 0 /\ faults = 0

Fault == faults < MaxFaults /\ faults' = faults + 1

-----------------------------------------------------------------------------
(* The file. *)

\* FileStore.Load falls back to the backup.
Loaded == IF file.main # Unreadable THEN file.main ELSE file.back

\* FileStore.Save: the backup gets a readable old file before the new one is
\* renamed into place.
Saved(c) == [main |-> c, back |-> Loaded]

\* A Save that is killed has replaced the backup or nothing; one that fails may
\* also have renamed the new file, when the directory is not synced after it.
HalfSaved == {file, [file EXCEPT !.back = Loaded]}
SaveFails(c) == HalfSaved \cup {Saved(c)}

\* The file is damaged from outside.
Corrupt ==
    /\ file.main # Unreadable
    /\ file' = [file EXCEPT !.main = Unreadable]
    /\ Fault
    /\ UNCHANGED <<change, host, threads, mu, confirmed, ops>>

\* What a change makes of a configuration.
Applied(c, d) ==
    CASE d.field = "name" -> [c EXCEPT !.name = d.to]
      [] d.field = "relay" -> [c EXCEPT !.relay = d.to]
      [] d.field = "perm" -> [c EXCEPT !.perm = d.to]

\* applyRemoteChanges never widens a permission.
Allowed(c, d) == ~(d.field = "perm" /\ c.perm = "read" /\ d.to = "write")

\* Sensitive, as a likely mistake would have it.
SensitivePolicy(d) == d.field = "perm"

Sensitive(d) == d.field \in {"relay", "perm"}

\* Update of a sensitive setting: CreateConfigChange.
CreateConfigChange(d) ==
    \E i \in Changes :
        /\ change[i].state = None
        /\ change' = [change EXCEPT ![i] = [state |-> "pending", base |-> Loaded, delta |-> d]]

\* go h.reloadConfiguration.
Spawned == {r \in Reloaders : reload[r].pc = None}

\* A slot is left for every reload that is already due.
SlotLeft ==
    Cardinality(Spawned) > Cardinality({g \in Supervisors : sup[g].pc \in {"save", "reply"}})
                               + (IF local.pc = None THEN 0 ELSE 1)

Spawn ==
    \E r \in Spawned : reload' = [reload EXCEPT ![r].pc = "load"]

-----------------------------------------------------------------------------
(* The relay supervisor; while it is online its goroutine serves the control *)
(* session, one message after the other.                                     *)

Alive(g) == ~sup[g].closed
To(g, pc) == sup' = [sup EXCEPT ![g].pc = pc]

\* Connect succeeds, fails, or is told that the Node is revoked.
Connect(g) ==
    /\ sup[g].pc = "connect" /\ Alive(g)
    /\ \/ sup[g].legacy = "ref" /\ To(g, "migrate")
       \/ sup[g].legacy = "none" /\ To(g, "online")
       \/ To(g, "wait")
    /\ UNCHANGED <<file, change, host, reload, local, failing, mu, confirmed, ops, faults>>

Revoked(g) ==
    /\ sup[g].pc = "connect" /\ Alive(g)
    /\ To(g, "ended")
    /\ Fault
    /\ UNCHANGED <<file, change, host, reload, local, failing, mu, confirmed, ops>>

\* migrateLegacyCredential loads the file, saves it without the reference ...
MigrateLoad(g) ==
    /\ sup[g].pc = "migrate"
    /\ sup' = [sup EXCEPT ![g].pc = IF Alive(g) /\ Loaded.legacy = "ref" THEN "forget" ELSE "online",
                          ![g].next = IF Alive(g) /\ Loaded.legacy = "ref" THEN [Loaded EXCEPT !.legacy = "none"] ELSE Empty]
    /\ UNCHANGED <<file, change, host, reload, local, failing, mu, confirmed, ops, faults>>

MigrateSave(g) ==
    /\ sup[g].pc = "forget"
    /\ file' = IF Alive(g) THEN Saved(sup[g].next) ELSE file
    /\ sup' = [sup EXCEPT ![g].pc = IF Alive(g) THEN "lock" ELSE "online", ![g].next = Empty]
    /\ UNCHANGED <<change, host, reload, local, failing, mu, confirmed, ops, faults>>

\* ... and then takes the host's mutex to correct activeConfig.
MigrateActive(g) ==
    /\ sup[g].pc = "lock" /\ mu = None
    /\ active' = IF active.legacy = "ref" THEN [active EXCEPT !.legacy = "none"] ELSE active
    /\ To(g, "online")
    /\ UNCHANGED <<file, change, up, rows, torn, pump, retention, current, reload, local, failing, mu, confirmed, ops, faults>>

\* A config.update of a browser.  One that names another revision than the
\* file's, or widens a permission, is refused and changes nothing.
RemoteUpdate(g, d) ==
    /\ sup[g].pc = "online" /\ Alive(g) /\ ops < MaxOps
    /\ Allowed(Loaded, d)
    /\ \/ Sensitive(d) /\ CreateConfigChange(d) /\ UNCHANGED sup
       \/ /\ ~Sensitive(d) /\ SlotLeft
          /\ sup' = [sup EXCEPT ![g].pc = "save", ![g].next = Applied(Loaded, d)]
          /\ UNCHANGED change
    /\ ops' = ops + 1
    /\ UNCHANGED <<file, host, reload, local, failing, mu, confirmed, faults>>

\* The save of an Update; Close cancels its context.
RemoteSave(g) ==
    /\ sup[g].pc = "save"
    /\ file' = IF Alive(g) THEN Saved(sup[g].next) ELSE file
    /\ sup' = [sup EXCEPT ![g].pc = IF Alive(g) THEN "reply" ELSE "wait", ![g].next = Empty]
    /\ UNCHANGED <<change, host, reload, local, failing, mu, confirmed, ops, faults>>

\* The file cannot be written: the browser is told, the migration is put off.
WriteFails(g) ==
    /\ sup[g].pc \in {"save", "forget"} /\ Alive(g)
    /\ file' \in SaveFails(sup[g].next)
    /\ sup' = [sup EXCEPT ![g].pc = "online", ![g].next = Empty]
    /\ Fault
    /\ UNCHANGED <<change, host, reload, local, failing, mu, confirmed, ops>>

\* The reload starts once the result is sent ...
RemoteReply(g) ==
    /\ sup[g].pc = "reply" /\ Alive(g)
    /\ Spawn
    /\ To(g, "online")
    /\ UNCHANGED <<file, change, host, local, failing, mu, confirmed, ops, faults>>

\* ... and not at all when the connection is gone by then.
Disconnect(g) ==
    /\ sup[g].pc \in {"online", "reply"}
    /\ To(g, "wait")
    /\ UNCHANGED <<file, change, host, reload, local, failing, mu, confirmed, ops, faults>>

\* The interval is over, or Reconnect wakes the supervisor.
Retry(g) ==
    /\ sup[g].pc = "wait" /\ Alive(g)
    /\ To(g, "connect")
    /\ UNCHANGED <<file, change, host, reload, local, failing, mu, confirmed, ops, faults>>

\* Ends, as a likely mistake would have it.
EndsConnected(g) == sup[g].pc \in {"connect", "online", "reply"}

\* Where a cancelled context ends the loop.
Ends(g) == sup[g].pc \in {"connect", "online", "reply", "wait"}

End(g) ==
    /\ ~Alive(g) /\ Ends(g)
    /\ To(g, "ended")
    /\ UNCHANGED <<file, change, host, reload, local, failing, mu, confirmed, ops, faults>>

\* Close cancels; its caller then waits for the goroutine's end.
Closing == IF current = None THEN sup ELSE [sup EXCEPT ![current].closed = TRUE]

\* Drained, as a likely mistake would have it.
DrainedAnyway == TRUE

Drained == current # None => sup[current].pc = "ended"

\* A new supervisor for a configuration; the caller holds the mutex.
Start(c) ==
    LET g == CHOOSE x \in Supervisors : sup[x].pc \in {None, "ended"} IN
    /\ \E x \in Supervisors : sup[x].pc \in {None, "ended"}
    /\ current' = g
    /\ sup' = [sup EXCEPT ![g] = [pc |-> "connect", relay |-> c.relay, legacy |-> c.legacy, next |-> Empty, closed |-> FALSE]]

-----------------------------------------------------------------------------
(* Local commands hold the mutex from start to end. *)

Serving(pc) == local.pc = pc /\ mu = "local"
Served == local' = NoCommand /\ mu' = None

LocalUpdate(d) ==
    /\ mu = None /\ up # "down" /\ ops < MaxOps
    /\ Allowed(Loaded, d)
    /\ ops' = ops + 1
    /\ \/ Sensitive(d) /\ CreateConfigChange(d) /\ UNCHANGED <<local, mu>>
       \/ /\ ~Sensitive(d) /\ SlotLeft
          /\ local' = [pc |-> "save", next |-> Applied(Loaded, d), id |-> None] /\ mu' = "local"
          /\ UNCHANGED change
    /\ UNCHANGED <<file, host, sup, reload, failing, confirmed, faults>>

LocalSave ==
    /\ Serving("save")
    /\ file' = Saved(local.next)
    /\ Spawn /\ Served
    /\ UNCHANGED <<change, host, sup, failing, confirmed, ops, faults>>

\* Approve: only what is pending, and only on the configuration it was made for.
Approvable(i) == change[i].state = "pending"

Stale(i) == change[i].base # Loaded \/ ~Allowed(Loaded, change[i].delta)

Approve(i) ==
    /\ mu = None /\ up # "down" /\ Approvable(i) /\ ~Stale(i) /\ SlotLeft
    /\ local' = [pc |-> "approve", next |-> Applied(Loaded, change[i].delta), id |-> i]
    /\ mu' = "local"
    /\ confirmed' = confirmed \cup {i}
    /\ UNCHANGED <<file, change, host, sup, reload, failing, ops, faults>>

\* An approval that comes too late, for another revision or for a change that
\* widens a permission, or a rejection.
Reject(i) ==
    /\ mu = None /\ up # "down" /\ change[i].state = "pending"
    /\ change' = [change EXCEPT ![i].state = "rejected"]
    /\ UNCHANGED <<file, host, threads, mu, confirmed, ops, faults>>

ApproveSave ==
    /\ Serving("approve")
    /\ file' = Saved(local.next)
    /\ local' = [local EXCEPT !.pc = "mark"]
    /\ UNCHANGED <<change, host, sup, reload, failing, mu, confirmed, ops, faults>>

\* TransitionConfigChange, and the reload.
ApproveMark ==
    /\ Serving("mark")
    /\ change' = [change EXCEPT ![local.id].state = IF @ = "pending" THEN "approved" ELSE @]
    /\ Spawn /\ Served
    /\ UNCHANGED <<file, host, sup, failing, confirmed, ops, faults>>

\* A command whose save or transition fails.
CommandFails ==
    /\ \/ (Serving("save") \/ Serving("approve")) /\ file' \in SaveFails(local.next)
       \/ Serving("mark") /\ UNCHANGED file
    /\ Served
    /\ Fault
    /\ UNCHANGED <<change, host, sup, reload, failing, confirmed, ops>>

\* The reload command, or the tray's.
AskReload ==
    /\ ops < MaxOps /\ SlotLeft
    /\ ops' = ops + 1
    /\ Spawn
    /\ UNCHANGED <<file, change, host, sup, local, failing, mu, confirmed, faults>>

-----------------------------------------------------------------------------
(* Reloads. *)

ReloadAt(r, pc) == reload[r].pc = pc
ReloadTo(r, pc) == reload' = [reload EXCEPT ![r].pc = pc]
Reloaded(r) == reload' = [reload EXCEPT ![r] = NoReload] /\ mu' = None

\* reloadConfiguration loads the file before it takes the mutex.
ReloadLoad(r) ==
    /\ ReloadAt(r, "load")
    /\ reload' = [reload EXCEPT ![r] = [pc |-> "lock", to |-> Loaded]]
    /\ UNCHANGED <<file, change, host, sup, local, failing, mu, confirmed, ops, faults>>

\* A host that is not ready is reloaded in full.  (A change of the runtime
\* boundary is no remote change and does the same.)
ReloadLock(r) ==
    /\ ReloadAt(r, "lock") /\ mu = None
    /\ \/ up = "ready" /\ ReloadTo(r, "apply") /\ mu' = r
       \/ up # "ready" /\ ReloadTo(r, "relock") /\ UNCHANGED mu
    /\ UNCHANGED <<file, change, host, sup, local, failing, confirmed, ops, faults>>

\* The Workspaces and Agents of the database come first.
ReconcileRows(r) ==
    /\ ReloadAt(r, "apply")
    /\ rows' = reload[r].to.perm
    /\ ReloadTo(r, "rest")
    /\ UNCHANGED <<file, change, up, torn, pump, active, retention, current, sup, local, failing, mu, confirmed, ops, faults>>

\* Then the retention; a relay that changed also needs a new supervisor.
SameRelay(c) == c.relay = active.relay /\ c.legacy = active.legacy

Apply(r) ==
    LET c == reload[r].to IN
    /\ ReloadAt(r, "rest")
    /\ retention' = c.name
    /\ \/ /\ SameRelay(c)
          /\ active' = c /\ torn' = FALSE /\ Reloaded(r) /\ UNCHANGED sup
       \/ /\ ~SameRelay(c)
          /\ sup' = Closing
          /\ ReloadTo(r, "await") /\ UNCHANGED <<active, torn, mu>>
    /\ UNCHANGED <<file, change, up, rows, pump, current, local, failing, confirmed, ops, faults>>

\* replaceRelayLocked: the old supervisor has ended, the new one starts.
ReplaceRelay(r) ==
    LET c == reload[r].to IN
    /\ ReloadAt(r, "await") /\ Drained
    /\ Start(c)
    /\ active' = c /\ torn' = FALSE
    /\ Reloaded(r)
    /\ UNCHANGED <<file, change, up, pump, rows, retention, local, failing, confirmed, ops, faults>>

\* The rollback, as a likely mistake would have it.
RolledBackFile(r) ==
    /\ file' = Saved(active) /\ retention' = active.name
    /\ UNCHANGED <<rows, torn>>

\* The rollback saves the previous configuration and writes its rows, and ignores
\* the error of either: what made the reload fail, a full disk or a locked
\* database, may well fail these too.  The retention of a valid configuration is
\* always accepted.
RolledBack(r) ==
    /\ file' \in SaveFails(active)
    /\ retention' = active.name
    /\ \/ rows' = active.perm /\ torn' = FALSE
       \/ rows' \in {rows, reload[r].to.perm} /\ torn' = TRUE

\* A step of the reload fails before the supervisor is touched, between the
\* Workspaces and the Agents too.
ApplyFails(r) ==
    /\ ReloadAt(r, "apply") \/ ReloadAt(r, "rest")
    /\ RolledBack(r)
    /\ Reloaded(r)
    /\ Fault
    /\ UNCHANGED <<change, up, pump, active, current, sup, local, failing, confirmed, ops>>

\* reload: closeResourcesLocked first.
FullLock(r) ==
    /\ ReloadAt(r, "relock") /\ mu = None
    /\ mu' = r /\ ReloadTo(r, "drain")
    /\ sup' = Closing
    /\ UNCHANGED <<file, change, host, local, failing, confirmed, ops, faults>>

\* Then everything is opened again from the file as it is now.
FullOpen(r) ==
    /\ ReloadAt(r, "drain") /\ Drained
    /\ rows' = Loaded.perm /\ torn' = FALSE /\ retention' = Loaded.name /\ active' = Loaded
    /\ up' = "ready" /\ pump' = "running"
    /\ Start(Loaded)
    /\ Reloaded(r)
    /\ UNCHANGED <<file, change, local, failing, confirmed, ops, faults>>

\* ... or that fails, before or after the configuration controller is there.
FullFails(r) ==
    /\ ReloadAt(r, "drain") /\ Drained
    /\ up' \in {"down", "attention"} /\ active' = Empty /\ current' = None /\ pump' = "stopped"
    /\ rows' \in {rows, Loaded.perm}
    /\ Reloaded(r)
    /\ Fault
    /\ UNCHANGED <<file, change, torn, retention, sup, local, failing, confirmed, ops>>

\* The event pump of a control session fails: handleEventFailure is started,
EventFails ==
    /\ pump = "running" /\ failing = None
    /\ failing' = "lock" /\ pump' = "stopped"
    /\ Fault
    /\ UNCHANGED <<file, change, up, active, rows, torn, retention, current, sup, reload, local, mu, confirmed, ops>>

\* takes the mutex and closes the supervisor the host has by then.
FailureLock ==
    /\ failing = "lock" /\ mu = None
    /\ failing' = "await" /\ mu' = "event" /\ sup' = Closing
    /\ UNCHANGED <<file, change, host, reload, local, confirmed, ops, faults>>

FailureEnds ==
    /\ failing = "await" /\ Drained
    /\ failing' = None /\ mu' = None /\ current' = None
    /\ UNCHANGED <<file, change, up, active, rows, torn, pump, retention, sup, reload, local, confirmed, ops, faults>>

\* Somebody is in FileStore.Save.
Saving ==
    \/ local.pc \in {"save", "approve"}
    \/ \E g \in Supervisors : sup[g].pc \in {"save", "forget"} /\ Alive(g)
    \/ \E r \in Reloaders : ReloadAt(r, "apply") \/ ReloadAt(r, "rest")

\* The Node is killed, in the middle of a Save too, and started again.
Kill ==
    /\ file' \in IF Saving THEN HalfSaved ELSE {file}
    /\ up' = "down" /\ active' = Empty /\ current' = None /\ pump' = "stopped"
    /\ sup' = [g \in Supervisors |-> NoSup]
    /\ mu' = None /\ reload' = Starting /\ local' = NoCommand /\ failing' = None
    /\ Fault
    /\ UNCHANGED <<change, rows, torn, retention, confirmed, ops>>

-----------------------------------------------------------------------------
SupervisorStep(g) ==
    \/ Connect(g)
    \/ MigrateLoad(g)
    \/ MigrateSave(g)
    \/ MigrateActive(g)
    \/ RemoteSave(g)
    \/ RemoteReply(g)
    \/ Retry(g)
    \/ End(g)

LocalStep == LocalSave \/ ApproveSave \/ ApproveMark

ReloadStep(r) ==
    \/ ReloadLoad(r)
    \/ ReloadLock(r)
    \/ ReconcileRows(r)
    \/ Apply(r)
    \/ ReplaceRelay(r)
    \/ FullLock(r)
    \/ FullOpen(r)

FailureStep == FailureLock \/ FailureEnds

\* What users, browsers and the network may do, and what may go wrong.
Environment ==
    \/ \E d \in Deltas : LocalUpdate(d) \/ \E g \in Supervisors : RemoteUpdate(g, d)
    \/ \E i \in Changes : Approve(i) \/ Reject(i)
    \/ \E g \in Supervisors : Disconnect(g) \/ Revoked(g) \/ WriteFails(g)
    \/ \E r \in Reloaders : ApplyFails(r) \/ FullFails(r)
    \/ AskReload
    \/ CommandFails
    \/ EventFails
    \/ Corrupt
    \/ Kill

Next ==
    \/ \E g \in Supervisors : SupervisorStep(g)
    \/ LocalStep
    \/ \E r \in Reloaders : ReloadStep(r)
    \/ FailureStep
    \/ Environment

\* Every goroutine that can run does; the mutex is fair to whoever keeps trying.
Fairness ==
    /\ \A g \in Supervisors : WF_vars(SupervisorStep(g))
    /\ WF_vars(LocalStep) /\ WF_vars(FailureStep)
    /\ \A r \in Reloaders : WF_vars(ReloadStep(r))

Spec == Init /\ [][Next]_vars /\ Fairness

-----------------------------------------------------------------------------
\* Whenever the host's mutex is free, the parts of a ready host run with one and
\* the same configuration: retention and relay supervisor follow activeConfig,
\* whatever reloads overlap or are rolled back half-way, and so do the Workspace
\* rows, unless a rollback could not write them and nothing was reloaded since.
AppliedTogether ==
    (mu = None /\ up = "ready") =>
        /\ retention = active.name
        /\ ~torn => rows = active.perm
        /\ current # None => sup[current].relay = active.relay

\* One control session at a time: a supervisor that was replaced has ended, so it
\* cannot serve, or save the configuration of, a browser beside its successor.
OneSupervisor ==
    \A g, h \in Supervisors :
        (g # h /\ sup[g].pc # None /\ sup[h].pc # None) => sup[g].pc = "ended" \/ sup[h].pc = "ended"

\* No relay is used, or written to the file, that was not there from the start or
\* confirmed on the machine, in whatever order loads, saves and rollbacks happen.
RelayConfirmed ==
    LET known == {c.relay : c \in Initials} \cup {change[i].delta.to : i \in {j \in confirmed : change[j].delta.field = "relay"}} IN
    /\ \A c \in {file.main, file.back, active} : c.relay \in known \/ c.legacy \in {"unreadable", "empty"}
    /\ \A g \in Supervisors : sup[g].pc \notin {None, "ended"} => sup[g].relay \in known

\* Without a legacy credential the host never hangs: whoever holds the mutex, and
\* waits for a supervisor, gives it back.
MutexIsReleased ==
    (file.main.legacy = "none") => []<>(mu = None)

=============================================================================
