-------------------------- MODULE NodeConfigProofs --------------------------
(***************************************************************************)
(* The invariants of NodeConfig, for any number of reloads, supervisors,   *)
(* pending changes, updates and failures.                                  *)
(*                                                                         *)
(* OneSupervisor rests on one fact: only the supervisor the host points to *)
(* may be running (SupInv), because a new one is started, and the old one  *)
(* forgotten, only after it has ended.                                     *)
(*                                                                         *)
(* RelayConfirmed needs that every configuration anybody still means to    *)
(* write or to apply (a load made before the mutex was taken, the next     *)
(* file of a save, the previous one of a rollback) has a known relay       *)
(* (RelayInv), and AppliedTogether what each phase of a reload has applied *)
(* so far (TogetherInv); both need that the phases hold the mutex (MuInv). *)
(***************************************************************************)
EXTENDS NodeConfig, TLAPS

USE ConfigAssumption DEF None

-----------------------------------------------------------------------------
SupPcs == {None, "connect", "migrate", "forget", "lock", "online", "save", "reply", "wait", "ended"}
ReloadPcs == {None, "load", "lock", "apply", "rest", "await", "relock", "drain"}

Sups ==
    [pc : SupPcs, relay : Relays, legacy : {"none", "ref"}, next : Configs \cup {Empty},
     closed : BOOLEAN]

FileTypes == file \in [main : Configs \cup {Unreadable}, back : Configs]

ChangeTypes ==
    /\ change \in [Changes -> [state : {None, "pending", "rejected", "approved"},
                               base : Configs \cup {Empty}, delta : Deltas]]
    /\ confirmed \in SUBSET Changes

\* Whoever is about to save, or to apply, a configuration has one.
SupTypes ==
    /\ sup \in [Supervisors -> Sups]
    /\ \A g \in Supervisors : sup[g].pc \in {"save", "forget"} => sup[g].next \in Configs

ReloadTypes ==
    /\ reload \in [Reloaders -> [pc : ReloadPcs, to : Configs \cup {Empty}]]
    /\ \A r \in Reloaders :
          reload[r].pc \in {"lock", "apply", "rest", "await"} => reload[r].to \in Configs

LocalTypes ==
    /\ local \in [pc : {None, "save", "approve", "mark"}, next : Configs \cup {Empty},
                  id : Changes \cup {None}]
    /\ local.pc # None => local.next \in Configs

HostTypes ==
    /\ up \in {"down", "attention", "ready"}
    /\ active \in Configs \cup {Empty}
    /\ current \in Supervisors \cup {None}

ConfigTypes == FileTypes /\ ChangeTypes /\ SupTypes /\ ReloadTypes /\ LocalTypes /\ HostTypes

-----------------------------------------------------------------------------
\* A supervisor that is not the host's has ended.
SupInv ==
    \A g \in Supervisors : g # current => sup[g].pc \in {None, "ended"}

-----------------------------------------------------------------------------
Holding == {"apply", "rest", "await", "drain"}

\* Who holds the mutex.
MuInv ==
    /\ \A r \in Reloaders : reload[r].pc \in Holding => mu = r
    /\ failing = "await" => mu = "event"
    /\ \A r \in Reloaders : reload[r].pc \in {"apply", "rest", "await"} => up = "ready"
    /\ up = "ready" => active \in Configs

-----------------------------------------------------------------------------
Known ==
    {c.relay : c \in Initials}
        \cup {change[i].delta.to : i \in {j \in confirmed : change[j].delta.field = "relay"}}

\* A change that was confirmed stays what it is.
ConfirmedKept == \A i \in confirmed : change[i].state # None

\* Every configuration that is in use, written, or about to be.
FileKnown ==
    /\ file.back.relay \in Known
    /\ file.main # Unreadable => file.main.relay \in Known

ActiveKnown == active # Empty => active.relay \in Known

SupsKnown ==
    \A g \in Supervisors :
        /\ sup[g].pc \notin {None, "ended"} => sup[g].relay \in Known
        /\ sup[g].pc \in {"save", "forget"} => sup[g].next.relay \in Known

ReloadsKnown ==
    \A r \in Reloaders : reload[r].pc \in {"lock", "apply", "rest", "await"}
        => reload[r].to.relay \in Known

LocalKnown == local.pc # None => local.next.relay \in Known

RelayInv ==
    ConfirmedKept /\ FileKnown /\ ActiveKnown /\ SupsKnown /\ ReloadsKnown /\ LocalKnown

-----------------------------------------------------------------------------
\* What the phases of a reload have applied.
TogetherInv ==
    up = "ready" =>
        /\ ~torn /\ (\A r \in Reloaders : reload[r].pc \notin {"rest", "await"}) => rows = active.perm
        /\ (\A r \in Reloaders : reload[r].pc # "await") => retention = active.name
        /\ \A r \in Reloaders :
              /\ reload[r].pc \in {"rest", "await"} => rows = reload[r].to.perm
              /\ reload[r].pc = "await" => retention = reload[r].to.name
        /\ current # None => sup[current].relay = active.relay

-----------------------------------------------------------------------------
(* Facts about configurations, the file and the threads.                   *)

LEMMA ConfigFacts ==
    /\ Some \in Configs
    /\ Empty \notin Configs /\ Empty.legacy = "empty" /\ Empty.relay \in Relays
    /\ Unreadable \notin Configs /\ Unreadable.legacy = "unreadable"
<1>1. Some \in Configs
  BY DEF Some
<1> QED
  BY <1>1 DEF Configs, Empty, Unreadable

LEMMA LoadedFacts ==
    ASSUME ConfigTypes
    PROVE  /\ Loaded \in Configs
           /\ Loaded = file.back \/ (file.main # Unreadable /\ Loaded = file.main)
           /\ \A c \in Configs : /\ Saved(c) \in [main : Configs \cup {Unreadable}, back : Configs]
                                 /\ Saved(c).main = c /\ Saved(c).back = Loaded
           /\ \A f \in HalfSaved : /\ f \in [main : Configs \cup {Unreadable}, back : Configs]
                                   /\ f.main = file.main /\ f.back \in {file.back, Loaded}
           /\ \A c : SaveFails(c) = HalfSaved \cup {Saved(c)}
<1>1. /\ file \in [main : Configs \cup {Unreadable}, back : Configs]
      /\ file.main \in Configs \cup {Unreadable} /\ file.back \in Configs
  BY DEF ConfigTypes, FileTypes
<1>2. Loaded \in Configs
  BY <1>1 DEF Loaded
<1> QED
  BY <1>1, <1>2 DEF Loaded, Saved, HalfSaved, SaveFails

\* What applyRemoteChanges makes of a configuration.
LEMMA AppliedFacts ==
    ASSUME NEW c \in Configs, NEW d \in Deltas
    PROVE  /\ Applied(c, d) \in Configs
           /\ d.field # "relay" => Applied(c, d).relay = c.relay
           /\ d.field = "relay" => Applied(c, d).relay = d.to
BY DEF Configs, Deltas, Applied

\* A step of one supervisor.
LEMMA ToFacts ==
    ASSUME ConfigTypes, NEW g \in Supervisors, NEW x \in SupPcs, To(g, x), x \notin {"save", "forget"}
    PROVE  /\ SupTypes' /\ sup'[g].pc = x /\ sup'[g].relay = sup[g].relay
           /\ \A h \in Supervisors : h # g => sup'[h] = sup[h]
BY DEF ConfigTypes, SupTypes, To, Sups

LEMMA SetFacts ==
    ASSUME ConfigTypes, NEW g \in Supervisors, NEW x \in SupPcs, NEW c \in Configs \cup {Empty},
           sup' = [sup EXCEPT ![g].pc = x, ![g].next = c],
           x \in {"save", "forget"} => c \in Configs
    PROVE  /\ SupTypes' /\ sup'[g].pc = x /\ sup'[g].relay = sup[g].relay /\ sup'[g].next = c
           /\ \A h \in Supervisors : h # g => sup'[h] = sup[h]
<1>1. sup \in [Supervisors -> Sups]
  BY DEF ConfigTypes, SupTypes
<1>2. /\ sup'[g] = [sup[g] EXCEPT !.pc = x, !.next = c]
      /\ \A h \in Supervisors : h # g => sup'[h] = sup[h]
      /\ DOMAIN sup' = Supervisors /\ sup' = [h \in Supervisors |-> sup'[h]]
  BY <1>1
<1>3. /\ sup'[g] \in Sups /\ sup'[g].pc = x /\ sup'[g].relay = sup[g].relay /\ sup'[g].next = c
  BY <1>1, <1>2 DEF Sups
<1>4. SupTypes'
  BY <1>1, <1>2, <1>3 DEF ConfigTypes, SupTypes
<1> QED
  BY <1>2, <1>3, <1>4

LEMMA ClosingFacts ==
    ASSUME ConfigTypes, sup' = Closing
    PROVE  /\ SupTypes'
           /\ \A h \in Supervisors : /\ sup'[h].pc = sup[h].pc /\ sup'[h].relay = sup[h].relay
                                     /\ sup'[h].next = sup[h].next
BY DEF ConfigTypes, SupTypes, HostTypes, Closing, Sups

LEMMA StartFacts ==
    ASSUME ConfigTypes, NEW c \in Configs, Start(c)
    PROVE  /\ SupTypes' /\ current' \in Supervisors
           /\ sup'[current'].relay = c.relay /\ sup'[current'].pc = "connect"
           /\ \A h \in Supervisors : h # current' => sup'[h] = sup[h]
<1> DEFINE g == CHOOSE x \in Supervisors : sup[x].pc \in {None, "ended"}
           s == [pc |-> "connect", relay |-> c.relay, legacy |-> c.legacy, next |-> Empty, closed |-> FALSE]
<1>1. g \in Supervisors /\ current' = g /\ sup' = [sup EXCEPT ![g] = s]
  BY DEF Start
<1>2. s \in Sups
  BY DEF Sups, SupPcs, Configs
<1> HIDE DEF g
<1>3. sup \in [Supervisors -> Sups]
  BY DEF ConfigTypes, SupTypes
<1>4. sup'[g] = s /\ \A h \in Supervisors : h # g => sup'[h] = sup[h]
  BY <1>1, <1>3
<1>5. SupTypes'
  BY <1>1, <1>2, <1>3, <1>4 DEF ConfigTypes, SupTypes
<1> QED
  BY <1>1, <1>4, <1>5

LEMMA SpawnFacts ==
    ASSUME ConfigTypes, Spawn
    PROVE  /\ ReloadTypes'
           /\ \A r \in Reloaders : reload'[r] = reload[r] \/ (reload[r].pc = None /\ reload'[r].pc = "load")
BY DEF ConfigTypes, ReloadTypes, Spawn, Spawned, ReloadPcs

LEMMA ReloadToFacts ==
    ASSUME ConfigTypes, NEW r \in Reloaders, NEW x \in ReloadPcs, ReloadTo(r, x),
           x \in {"lock", "apply", "rest", "await"} => reload[r].to \in Configs
    PROVE  /\ ReloadTypes' /\ reload'[r].pc = x /\ reload'[r].to = reload[r].to
           /\ \A q \in Reloaders : q # r => reload'[q] = reload[q]
BY DEF ConfigTypes, ReloadTypes, ReloadTo

LEMMA ReloadedFacts ==
    ASSUME ConfigTypes, NEW r \in Reloaders, Reloaded(r)
    PROVE  /\ ReloadTypes' /\ reload'[r].pc = None /\ mu' = None
           /\ \A q \in Reloaders : q # r => reload'[q] = reload[q]
<1>1. NoReload \in [pc : ReloadPcs, to : Configs \cup {Empty}] /\ NoReload.pc = None
  BY DEF NoReload, ReloadPcs
<1>2. reload \in [Reloaders -> [pc : ReloadPcs, to : Configs \cup {Empty}]]
  BY DEF ConfigTypes, ReloadTypes
<1>3. /\ reload' \in [Reloaders -> [pc : ReloadPcs, to : Configs \cup {Empty}]]
      /\ reload'[r] = NoReload
      /\ \A q \in Reloaders : q # r => reload'[q] = reload[q]
  BY <1>1, <1>2 DEF Reloaded
<1> QED
  BY <1>1, <1>3 DEF ConfigTypes, ReloadTypes, Reloaded

LEMMA StartingFacts ==
    ASSUME reload' = Starting
    PROVE  ReloadTypes' /\ \A r \in Reloaders : reload'[r].pc \in {None, "relock"}
<1>1. NoReload \in [pc : ReloadPcs, to : Configs \cup {Empty}]
      /\ [NoReload EXCEPT !.pc = "relock"] \in [pc : ReloadPcs, to : Configs \cup {Empty}]
      /\ NoReload.pc = None /\ [NoReload EXCEPT !.pc = "relock"].pc = "relock"
  BY DEF NoReload, ReloadPcs
<1>2. \A r \in Reloaders : reload'[r] \in {NoReload, [NoReload EXCEPT !.pc = "relock"]}
  BY DEF Starting
<1> QED
  BY <1>1, <1>2 DEF ReloadTypes, Starting

-----------------------------------------------------------------------------
(* Typing.                                                                 *)

LEMMA NoCommandFacts ==
    /\ NoCommand \in [pc : {None, "save", "approve", "mark"}, next : Configs \cup {Empty},
                      id : Changes \cup {None}]
    /\ NoCommand.pc = None
BY DEF NoCommand

LEMMA NoSupFacts == NoSup \in Sups /\ NoSup.pc = None
BY ConfigFacts DEF NoSup, Sups, SupPcs, Configs

LEMMA CreateFacts ==
    ASSUME ConfigTypes, NEW d \in Deltas, CreateConfigChange(d)
    PROVE  /\ change' \in [Changes -> [state : {None, "pending", "rejected", "approved"},
                                       base : Configs \cup {Empty}, delta : Deltas]]
           /\ \A i \in Changes : change'[i] = change[i] \/ (change[i].state = None /\ change'[i].state = "pending")
<1>1. change \in [Changes -> [state : {None, "pending", "rejected", "approved"},
                               base : Configs \cup {Empty}, delta : Deltas]]
  BY DEF ConfigTypes, ChangeTypes
<1> DEFINE n == [state |-> "pending", base |-> Loaded, delta |-> d]
<1>2. n \in [state : {None, "pending", "rejected", "approved"},
             base : Configs \cup {Empty}, delta : Deltas] /\ n.state = "pending"
  BY LoadedFacts
<1>3. PICK i \in Changes : change[i].state = None /\ change' = [change EXCEPT ![i] = n]
  BY DEF CreateConfigChange
<1> HIDE DEF n
<1> QED
  BY <1>1, <1>2, <1>3

\* TransitionConfigChange and a rejection leave what was asked for.
LEMMA StateFacts ==
    ASSUME ConfigTypes, NEW i, NEW s \in {None, "pending", "rejected", "approved"},
           change' = [change EXCEPT ![i].state = s],
           i \in Changes => s # None
    PROVE  /\ change' \in [Changes -> [state : {None, "pending", "rejected", "approved"},
                                       base : Configs \cup {Empty}, delta : Deltas]]
           /\ \A j \in Changes : /\ change'[j].delta = change[j].delta
                                 /\ change'[j] = change[j] \/ change'[j].state # None
BY DEF ConfigTypes, ChangeTypes

LEMMA TypesSupervisor ==
    ASSUME ConfigTypes, MuInv, NEW g \in Supervisors, SupervisorStep(g)
    PROVE  ConfigTypes'
<1> USE DEF host, threads
<1>1. UNCHANGED <<change, up, current, local, confirmed>>
  BY DEF SupervisorStep, Connect, MigrateLoad, MigrateSave, MigrateActive, RemoteSave, RemoteReply,
     Retry, End, To
<1>2. sup[g].pc \in {"save", "forget"} => sup[g].next \in Configs
  BY DEF ConfigTypes, SupTypes
<1>3. Empty \in Configs \cup {Empty}
  OBVIOUS
<1>4. HostTypes'
  <2>1. CASE active' = active
    BY <1>1, <2>1 DEF ConfigTypes, HostTypes
  <2>2. CASE MigrateActive(g)
    <3>1. active' = active \/ (active.legacy = "ref" /\ active' = [active EXCEPT !.legacy = "none"])
      BY <2>2 DEF MigrateActive
    <3>2. active' \in Configs \cup {Empty}
      BY <3>1, ConfigFacts DEF ConfigTypes, HostTypes, Configs
    <3> QED
      BY <1>1, <3>2 DEF ConfigTypes, HostTypes
  <2> QED
    BY <2>1, <2>2 DEF SupervisorStep, Connect, MigrateLoad, MigrateSave, RemoteSave, RemoteReply,
       Retry, End
<1>5. ReloadTypes'
  <2>1. CASE Spawn
    BY <2>1, SpawnFacts
  <2>2. CASE UNCHANGED reload
    BY <2>2 DEF ConfigTypes, ReloadTypes
  <2> QED
    BY <2>1, <2>2 DEF SupervisorStep, Connect, MigrateLoad, MigrateSave, MigrateActive, RemoteSave,
       RemoteReply, Retry, End
<1>6. FileTypes'
  <2>1. CASE UNCHANGED file
    BY <2>1 DEF ConfigTypes, FileTypes
  <2>2. CASE file' = Saved(sup[g].next) /\ sup[g].pc \in {"save", "forget"}
    BY <1>2, <2>2, LoadedFacts DEF FileTypes
  <2> QED
    BY <2>1, <2>2 DEF SupervisorStep, Connect, MigrateLoad, MigrateSave, MigrateActive, RemoteSave,
       RemoteReply, Retry, End
<1>7. SupTypes'
  <2> USE DEF SupPcs
  <2>1. CASE Connect(g) \/ RemoteReply(g) \/ Retry(g) \/ End(g) \/ MigrateActive(g)
    BY <2>1, ToFacts DEF Connect, RemoteReply, Retry, End, MigrateActive
  <2>2. CASE MigrateLoad(g)
    <3>1. [Loaded EXCEPT !.legacy = "none"] \in Configs
      BY LoadedFacts DEF Configs
    <3>2. \/ sup' = [sup EXCEPT ![g].pc = "forget", ![g].next = [Loaded EXCEPT !.legacy = "none"]]
          \/ sup' = [sup EXCEPT ![g].pc = "online", ![g].next = Empty]
      BY <2>2 DEF MigrateLoad
    <3> QED
      BY <3>1, <3>2, SetFacts
  <2>3. CASE MigrateSave(g) \/ RemoteSave(g)
    <3>1. \E x \in {"lock", "online", "reply", "wait"} : sup' = [sup EXCEPT ![g].pc = x, ![g].next = Empty]
      BY <2>3 DEF MigrateSave, RemoteSave
    <3> QED
      BY <1>3, <3>1, SetFacts
  <2> QED
    BY <2>1, <2>2, <2>3 DEF SupervisorStep
<1> QED
  BY <1>1, <1>4, <1>5, <1>6, <1>7 DEF ConfigTypes, ChangeTypes, LocalTypes

LEMMA TypesRemote ==
    ASSUME ConfigTypes, NEW g \in Supervisors,
           \/ \E d \in Deltas : RemoteUpdate(g, d)
           \/ Disconnect(g) \/ Revoked(g) \/ WriteFails(g)
    PROVE  ConfigTypes'
<1> USE DEF host, threads
<1>1. UNCHANGED <<up, active, current, local, reload, confirmed>>
  BY DEF RemoteUpdate, Disconnect, Revoked, WriteFails
<1>2. ASSUME FileTypes', ChangeTypes', SupTypes' PROVE ConfigTypes'
  BY <1>1, <1>2 DEF ConfigTypes, LocalTypes, ReloadTypes, HostTypes
<1>3. ASSUME NEW d \in Deltas, RemoteUpdate(g, d) PROVE ConfigTypes'
  <2>1. FileTypes'
    BY <1>3 DEF RemoteUpdate, ConfigTypes, FileTypes
  <2>2. CASE CreateConfigChange(d) /\ UNCHANGED sup
    <3>1. ChangeTypes'
      BY <1>1, <2>2, CreateFacts DEF ConfigTypes, ChangeTypes
    <3>2. SupTypes'
      BY <2>2 DEF ConfigTypes, SupTypes
    <3> QED
      BY <1>2, <2>1, <3>1, <3>2
  <2>3. CASE sup' = [sup EXCEPT ![g].pc = "save", ![g].next = Applied(Loaded, d)] /\ UNCHANGED change
    <3>1. ChangeTypes'
      BY <1>1, <2>3 DEF ConfigTypes, ChangeTypes
    <3>2. Applied(Loaded, d) \in Configs
      BY AppliedFacts, LoadedFacts
    <3>3. SupTypes'
      BY <2>3, <3>2, SetFacts DEF SupPcs
    <3> QED
      BY <1>2, <2>1, <3>1, <3>3
  <2> QED
    BY <1>3, <2>2, <2>3 DEF RemoteUpdate
<1>4. CASE Disconnect(g) \/ Revoked(g)
  <2>1. FileTypes' /\ ChangeTypes'
    BY <1>1, <1>4 DEF Disconnect, Revoked, ConfigTypes, FileTypes, ChangeTypes
  <2>2. SupTypes'
    BY <1>4, ToFacts DEF Disconnect, Revoked, SupPcs
  <2> QED
    BY <1>2, <2>1, <2>2
<1>5. CASE WriteFails(g)
  <2>1. ChangeTypes'
    BY <1>1, <1>5 DEF WriteFails, ConfigTypes, ChangeTypes
  <2>2. FileTypes'
    <3>1. sup[g].next \in Configs /\ file' \in HalfSaved \cup {Saved(sup[g].next)}
      BY <1>5 DEF WriteFails, SaveFails, ConfigTypes, SupTypes
    <3> QED
      BY <3>1, LoadedFacts DEF FileTypes
  <2>3. sup' = [sup EXCEPT ![g].pc = "online", ![g].next = Empty] /\ Empty \in Configs \cup {Empty}
    BY <1>5 DEF WriteFails
  <2>4. SupTypes'
    BY <2>3, SetFacts DEF SupPcs
  <2> QED
    BY <1>2, <2>1, <2>2, <2>4
<1> QED
  BY <1>3, <1>4, <1>5

LEMMA TypesLocal ==
    ASSUME ConfigTypes,
           \/ LocalStep
           \/ \E d \in Deltas : LocalUpdate(d)
           \/ \E i \in Changes : Approve(i) \/ Reject(i)
           \/ CommandFails \/ AskReload \/ Corrupt
    PROVE  ConfigTypes'
<1> USE DEF host, threads
<1>1. UNCHANGED <<up, active, current, sup>>
  BY DEF LocalStep, LocalSave, ApproveSave, ApproveMark, LocalUpdate, Approve, Reject, CommandFails,
     AskReload, Corrupt
<1>2. SupTypes' /\ HostTypes'
  BY <1>1 DEF ConfigTypes, SupTypes, HostTypes
<1>3. ReloadTypes'
  <2>1. CASE Spawn
    BY <2>1, SpawnFacts
  <2>2. CASE UNCHANGED reload
    BY <2>2 DEF ConfigTypes, ReloadTypes
  <2> QED
    BY <2>1, <2>2 DEF LocalStep, LocalSave, ApproveSave, ApproveMark, LocalUpdate, Approve, Reject,
       CommandFails, AskReload, Corrupt
<1>4. FileTypes'
  <2>1. CASE UNCHANGED file
    BY <2>1 DEF ConfigTypes, FileTypes
  <2>2. CASE file' = Saved(local.next) /\ local.pc # None
    <3>1. local.next \in Configs
      BY <2>2 DEF ConfigTypes, LocalTypes
    <3> QED
      BY <2>2, <3>1, LoadedFacts DEF FileTypes
  <2>3. CASE file' \in HalfSaved
    BY <2>3, LoadedFacts DEF FileTypes
  <2>4. CASE Corrupt
    BY <2>4 DEF Corrupt, ConfigTypes, FileTypes
  <2> QED
    BY <2>1, <2>2, <2>3, <2>4 DEF LocalStep, LocalSave, ApproveSave, ApproveMark, LocalUpdate, Approve,
       Reject, CommandFails, SaveFails, AskReload, Serving
<1>5. ChangeTypes'
  <2>1. CASE UNCHANGED <<change, confirmed>>
    BY <2>1 DEF ConfigTypes, ChangeTypes
  <2>2. ASSUME NEW d \in Deltas, CreateConfigChange(d), UNCHANGED confirmed PROVE ChangeTypes'
    BY <2>2, CreateFacts DEF ConfigTypes, ChangeTypes
  <2>3. ASSUME NEW i \in Changes, Approve(i) PROVE ChangeTypes'
    BY <2>3 DEF Approve, ConfigTypes, ChangeTypes
  <2>4. ASSUME NEW i \in Changes, Reject(i) PROVE ChangeTypes'
    BY <2>4, StateFacts DEF Reject, ConfigTypes, ChangeTypes
  <2>5. CASE ApproveMark
    <3>1. change' = [change EXCEPT ![local.id].state = IF @ = "pending" THEN "approved" ELSE @]
          /\ UNCHANGED confirmed
      BY <2>5 DEF ApproveMark
    <3> QED
      BY <3>1 DEF ConfigTypes, ChangeTypes
  <2> QED
    BY <2>1, <2>2, <2>3, <2>4, <2>5 DEF LocalStep, LocalSave, ApproveSave, LocalUpdate, CommandFails,
       AskReload, Corrupt
<1>6. LocalTypes'
  <2>1. CASE UNCHANGED local
    BY <2>1 DEF ConfigTypes, LocalTypes
  <2>2. CASE local' = NoCommand
    BY <2>2, NoCommandFacts DEF LocalTypes
  <2>3. ASSUME NEW d \in Deltas, LocalUpdate(d), local' # local PROVE LocalTypes'
    <3>1. local' = [pc |-> "save", next |-> Applied(Loaded, d), id |-> None]
      BY <2>3 DEF LocalUpdate
    <3> QED
      BY <3>1, AppliedFacts, LoadedFacts DEF LocalTypes
  <2>4. ASSUME NEW i \in Changes, Approve(i) PROVE LocalTypes'
    <3>1. local' = [pc |-> "approve", next |-> Applied(Loaded, change[i].delta), id |-> i]
      BY <2>4 DEF Approve
    <3>2. change[i].delta \in Deltas
      BY DEF ConfigTypes, ChangeTypes
    <3> QED
      BY <3>1, <3>2, AppliedFacts, LoadedFacts DEF LocalTypes
  <2>5. CASE ApproveSave
    BY <2>5 DEF ApproveSave, Serving, ConfigTypes, LocalTypes
  <2> QED
    BY <2>1, <2>2, <2>3, <2>4, <2>5 DEF LocalStep, LocalSave, ApproveMark, Reject, CommandFails,
       AskReload, Corrupt, Served
<1> QED
  BY <1>2, <1>3, <1>4, <1>5, <1>6 DEF ConfigTypes

LEMMA TypesReload ==
    ASSUME ConfigTypes, MuInv, NEW r \in Reloaders, ReloadStep(r) \/ ApplyFails(r) \/ FullFails(r)
    PROVE  ConfigTypes'
<1> USE DEF host, threads, ReloadAt
<1>1. UNCHANGED <<change, local, confirmed>>
  BY DEF ReloadStep, ReloadLoad, ReloadLock, ReconcileRows, Apply, ReplaceRelay, FullLock, FullOpen,
     ApplyFails, FullFails
<1>2. ChangeTypes' /\ LocalTypes'
  BY <1>1 DEF ConfigTypes, ChangeTypes, LocalTypes
<1>3. reload[r].pc \in {"lock", "apply", "rest", "await"} => reload[r].to \in Configs
  BY DEF ConfigTypes, ReloadTypes
<1>4. Loaded \in Configs
  BY LoadedFacts
<1>5. FileTypes'
  <2>1. CASE UNCHANGED file
    BY <2>1 DEF ConfigTypes, FileTypes
  <2>2. CASE ApplyFails(r)
    <3>1. active \in Configs
      BY <2>2 DEF ApplyFails, MuInv
    <3>2. file' \in HalfSaved \cup {Saved(active)}
      BY <2>2 DEF ApplyFails, RolledBack, SaveFails
    <3> QED
      BY <3>1, <3>2, LoadedFacts DEF FileTypes
  <2> QED
    BY <2>1, <2>2 DEF ReloadStep, ReloadLoad, ReloadLock, ReconcileRows, Apply, ReplaceRelay, FullLock,
       FullOpen, FullFails
<1>6. SupTypes'
  <2>1. CASE UNCHANGED sup
    BY <2>1 DEF ConfigTypes, SupTypes
  <2>2. CASE sup' = Closing
    BY <2>2, ClosingFacts
  <2>3. CASE ReplaceRelay(r)
    BY <1>3, <2>3, StartFacts DEF ReplaceRelay
  <2>4. CASE FullOpen(r)
    BY <1>4, <2>4, StartFacts DEF FullOpen
  <2> QED
    BY <2>1, <2>2, <2>3, <2>4 DEF ReloadStep, ReloadLoad, ReloadLock, ReconcileRows, Apply, FullLock,
       ApplyFails, FullFails
<1>7. ReloadTypes'
  <2> USE DEF ReloadPcs
  <2>1. CASE Reloaded(r)
    BY <2>1, ReloadedFacts
  <2>2. CASE ReloadLoad(r)
    <3>1. reload' = [reload EXCEPT ![r] = [pc |-> "lock", to |-> Loaded]]
      BY <2>2 DEF ReloadLoad
    <3> QED
      BY <1>4, <3>1 DEF ConfigTypes, ReloadTypes
  <2>3. CASE ReloadLock(r) \/ ReconcileRows(r) \/ FullLock(r)
    BY <1>3, <2>3, ReloadToFacts DEF ReloadLock, ReconcileRows, FullLock
  <2>4. CASE Apply(r) /\ ReloadTo(r, "await")
    BY <1>3, <2>4, ReloadToFacts DEF Apply
  <2> QED
    BY <2>1, <2>2, <2>3, <2>4 DEF ReloadStep, Apply, ReplaceRelay, FullOpen, ApplyFails, FullFails
<1>8. HostTypes'
  <2>1. CASE UNCHANGED <<up, active, current>>
    BY <2>1 DEF ConfigTypes, HostTypes
  <2>2. CASE Apply(r)
    <3>1. UNCHANGED <<up, current>> /\ active' \in {active, reload[r].to}
      BY <2>2 DEF Apply
    <3> QED
      BY <1>3, <2>2, <3>1 DEF Apply, ConfigTypes, HostTypes
  <2>3. CASE ReplaceRelay(r)
    <3>1. UNCHANGED up /\ active' = reload[r].to /\ reload[r].to \in Configs /\ current' \in Supervisors
      BY <1>3, <2>3, StartFacts DEF ReplaceRelay
    <3> QED
      BY <3>1 DEF ConfigTypes, HostTypes
  <2>4. CASE FullOpen(r)
    <3>1. up' = "ready" /\ active' = Loaded /\ current' \in Supervisors
      BY <1>4, <2>4, StartFacts DEF FullOpen
    <3> QED
      BY <1>4, <3>1 DEF HostTypes
  <2>5. CASE FullFails(r)
    BY <2>5 DEF FullFails, HostTypes
  <2> QED
    BY <2>1, <2>2, <2>3, <2>4, <2>5 DEF ReloadStep, ReloadLoad, ReloadLock, ReconcileRows, FullLock,
       ApplyFails
<1> QED
  BY <1>2, <1>5, <1>6, <1>7, <1>8 DEF ConfigTypes

LEMMA TypesFailure ==
    ASSUME ConfigTypes, FailureStep \/ EventFails \/ Kill
    PROVE  ConfigTypes'
<1> USE DEF host, threads
<1>1. CASE EventFails
  BY <1>1 DEF EventFails, ConfigTypes, FileTypes, ChangeTypes, SupTypes, ReloadTypes, LocalTypes, HostTypes
<1>2. CASE FailureLock
  <2>1. UNCHANGED <<file, change, up, active, current, reload, local, confirmed>> /\ sup' = Closing
    BY <1>2 DEF FailureLock
  <2> QED
    BY <2>1, ClosingFacts DEF ConfigTypes, FileTypes, ChangeTypes, ReloadTypes, LocalTypes, HostTypes
<1>3. CASE FailureEnds
  BY <1>3 DEF FailureEnds, ConfigTypes, FileTypes, ChangeTypes, SupTypes, ReloadTypes, LocalTypes, HostTypes
<1>4. CASE Kill
  <2>1. UNCHANGED <<change, confirmed>> /\ up' = "down" /\ active' = Empty /\ current' = None
        /\ sup' = [g \in Supervisors |-> NoSup] /\ local' = NoCommand /\ reload' = Starting
    BY <1>4 DEF Kill
  <2>2. file' = file \/ file' \in HalfSaved
    BY <1>4 DEF Kill
  <2>3. FileTypes'
    BY <2>2, LoadedFacts DEF ConfigTypes, FileTypes
  <2>4. SupTypes'
    BY <2>1, NoSupFacts DEF SupTypes
  <2>5. ReloadTypes' /\ LocalTypes'
    BY <2>1, StartingFacts, NoCommandFacts DEF LocalTypes
  <2>6. ChangeTypes' /\ HostTypes'
    BY <2>1 DEF ConfigTypes, ChangeTypes, HostTypes
  <2> QED
    BY <2>3, <2>4, <2>5, <2>6 DEF ConfigTypes
<1> QED
  BY <1>1, <1>2, <1>3, <1>4 DEF FailureStep

LEMMA TypesNext ==
    ASSUME ConfigTypes, MuInv, [Next]_vars
    PROVE  ConfigTypes'
<1>1. CASE UNCHANGED vars
  BY <1>1 DEF vars, host, threads, ConfigTypes, FileTypes, ChangeTypes, SupTypes, ReloadTypes, LocalTypes,
     HostTypes
<1> QED
  BY <1>1, TypesSupervisor, TypesRemote, TypesLocal, TypesReload, TypesFailure DEF Next, Environment

LEMMA TypesInit == Init => ConfigTypes
<1> SUFFICES ASSUME Init PROVE ConfigTypes
  OBVIOUS
<1>1. PICK c \in Initials : file = [main |-> c, back |-> c]
  BY DEF Init
<1>2. c \in Configs
  OBVIOUS
<1>3. NoChange \in [state : {None, "pending", "rejected", "approved"},
                    base : Configs \cup {Empty}, delta : Deltas]
  BY ConfigFacts DEF NoChange, Deltas, Configs
<1>4. FileTypes /\ ChangeTypes
  BY <1>1, <1>2, <1>3 DEF Init, FileTypes, ChangeTypes
<1>5. SupTypes /\ LocalTypes /\ HostTypes
  BY NoSupFacts, NoCommandFacts DEF Init, SupTypes, LocalTypes, HostTypes
<1>6. NoReload \in [pc : ReloadPcs, to : Configs \cup {Empty}]
      /\ [NoReload EXCEPT !.pc = "relock"] \in [pc : ReloadPcs, to : Configs \cup {Empty}]
      /\ NoReload.pc = None /\ [NoReload EXCEPT !.pc = "relock"].pc = "relock"
  BY DEF NoReload, ReloadPcs
<1>7. \A r \in Reloaders : reload[r] \in {NoReload, [NoReload EXCEPT !.pc = "relock"]}
  BY DEF Init, Starting
<1>8. ReloadTypes
  BY <1>6, <1>7 DEF Init, Starting, ReloadTypes
<1> QED
  BY <1>4, <1>5, <1>8 DEF ConfigTypes

-----------------------------------------------------------------------------
(* The mutex.                                                              *)

\* A step that starts no phase, and gives the mutex back only where no reload
\* has it.
LEMMA MuKept ==
    ASSUME MuInv, UNCHANGED <<up, failing>>,
           \/ UNCHANGED mu
           \/ mu \in {None, "local"} /\ failing # "await",
           \A r \in Reloaders : reload'[r].pc \in Holding => reload'[r] = reload[r],
           active' = active \/ active' \in Configs
    PROVE  MuInv'
BY DEF MuInv, Holding

LEMMA MuOthers ==
    ASSUME ConfigTypes, ConfigTypes', MuInv,
           \/ \E g \in Supervisors : SupervisorStep(g) \/ Disconnect(g) \/ Revoked(g) \/ WriteFails(g)
           \/ \E d \in Deltas : LocalUpdate(d) \/ \E g \in Supervisors : RemoteUpdate(g, d)
           \/ \E i \in Changes : Approve(i) \/ Reject(i)
           \/ LocalStep \/ CommandFails \/ AskReload \/ Corrupt
    PROVE  MuInv'
<1> USE DEF host, threads
<1>1. UNCHANGED <<up, failing>>
  BY DEF SupervisorStep, Connect, MigrateLoad, MigrateSave, MigrateActive, RemoteSave, RemoteReply,
     Retry, End, Disconnect, Revoked, WriteFails, LocalUpdate, RemoteUpdate, Approve, Reject, LocalStep,
     LocalSave, ApproveSave, ApproveMark, CommandFails, AskReload, Corrupt
<1>2. UNCHANGED mu \/ mu \in {None, "local"}
  BY DEF SupervisorStep, Connect, MigrateLoad, MigrateSave, MigrateActive, RemoteSave, RemoteReply,
     Retry, End, Disconnect, Revoked, WriteFails, LocalUpdate, RemoteUpdate, Approve, Reject, LocalStep,
     LocalSave, ApproveSave, ApproveMark, CommandFails, AskReload, Corrupt, Serving
<1>3. mu \in {None, "local"} => failing # "await"
  BY DEF MuInv
<1>4. Spawn \/ UNCHANGED reload
  BY DEF SupervisorStep, Connect, MigrateLoad, MigrateSave, MigrateActive, RemoteSave, RemoteReply,
     Retry, End, Disconnect, Revoked, WriteFails, LocalUpdate, RemoteUpdate, Approve, Reject, LocalStep,
     LocalSave, ApproveSave, ApproveMark, CommandFails, AskReload, Corrupt
<1>5. \A r \in Reloaders : reload'[r].pc \in Holding => reload'[r] = reload[r]
  BY <1>4, SpawnFacts DEF Holding
<1>6. active' = active \/ active' \in Configs
  <2>1. CASE active' = active
    BY <2>1
  <2>2. ASSUME NEW g \in Supervisors, MigrateActive(g) PROVE active' = active \/ active' \in Configs
    <3>1. active' = active \/ (active.legacy = "ref" /\ active' = [active EXCEPT !.legacy = "none"])
      BY <2>2 DEF MigrateActive
    <3>2. active.legacy = "ref" => active \in Configs
      BY ConfigFacts DEF ConfigTypes, HostTypes
    <3> QED
      BY <3>1, <3>2 DEF Configs
  <2> QED
    BY <2>1, <2>2 DEF SupervisorStep, Connect, MigrateLoad, MigrateSave, RemoteSave, RemoteReply,
       Retry, End, Disconnect, Revoked, WriteFails, LocalUpdate, RemoteUpdate, Approve, Reject,
       LocalStep, LocalSave, ApproveSave, ApproveMark, CommandFails, AskReload, Corrupt
<1> QED
  BY <1>1, <1>2, <1>3, <1>5, <1>6, MuKept

LEMMA MuReload ==
    ASSUME ConfigTypes, ConfigTypes', MuInv, NEW r \in Reloaders,
           ReloadStep(r) \/ ApplyFails(r) \/ FullFails(r)
    PROVE  MuInv'
<1> USE DEF host, threads, ReloadAt
<1>1. UNCHANGED failing
  BY DEF ReloadStep, ReloadLoad, ReloadLock, ReconcileRows, Apply, ReplaceRelay, FullLock, FullOpen,
     ApplyFails, FullFails
<1>2. reload[r].pc \in {"lock", "apply", "rest", "await"} => reload[r].to \in Configs
  BY DEF ConfigTypes, ReloadTypes
<1>3. \A q \in Reloaders : reload[q].pc \in Holding /\ mu = r => q = r
  BY DEF MuInv
<1>4. mu = None => failing # "await" /\ \A q \in Reloaders : reload[q].pc \notin Holding
  BY DEF MuInv
<1>5. mu = r => failing # "await"
  BY DEF MuInv
<1>6. ASSUME Reloaded(r), reload[r].pc \in Holding,
             (up' = "ready" => active' \in Configs)
      PROVE  MuInv'
  <2>1. mu = r
    BY <1>6 DEF MuInv
  <2>2. \A q \in Reloaders : reload'[q].pc \notin Holding
    BY <1>3, <1>6, <2>1, ReloadedFacts DEF Holding
  <2> QED
    BY <1>1, <1>5, <1>6, <2>1, <2>2 DEF MuInv, Holding
<1>7. CASE ReloadLoad(r)
  <2>1. UNCHANGED <<mu, up, active>> /\ reload' = [reload EXCEPT ![r] = [pc |-> "lock", to |-> Loaded]]
    BY <1>7 DEF ReloadLoad
  <2>2. \A q \in Reloaders : reload'[q].pc \in Holding => reload'[q] = reload[q]
    BY <2>1 DEF ConfigTypes, ReloadTypes, Holding
  <2> QED
    BY <1>1, <2>1, <2>2, MuKept
<1>8. CASE ReloadLock(r)
  <2>1. mu = None /\ UNCHANGED <<up, active>>
    BY <1>8 DEF ReloadLock
  <2>2. CASE up = "ready" /\ ReloadTo(r, "apply") /\ mu' = r
    <3>1. reload'[r].pc = "apply" /\ \A q \in Reloaders : q # r => reload'[q] = reload[q]
      BY <1>2, <1>8, <2>2, ReloadToFacts DEF ReloadLock, ReloadPcs
    <3> QED
      BY <1>1, <1>4, <2>1, <2>2, <3>1 DEF MuInv, Holding
  <2>3. CASE ReloadTo(r, "relock") /\ UNCHANGED mu
    <3>1. reload'[r].pc = "relock" /\ \A q \in Reloaders : q # r => reload'[q] = reload[q]
      BY <2>3, ReloadToFacts DEF ReloadPcs
    <3>2. \A q \in Reloaders : reload'[q].pc \in Holding => reload'[q] = reload[q]
      BY <3>1 DEF Holding
    <3> QED
      BY <1>1, <2>1, <2>3, <3>2, MuKept
  <2> QED
    BY <1>8, <2>2, <2>3 DEF ReloadLock
<1>9. CASE ReconcileRows(r)
  <2>1. UNCHANGED <<mu, up, active>> /\ reload[r].pc = "apply"
    BY <1>9 DEF ReconcileRows
  <2>2. reload'[r].pc = "rest" /\ \A q \in Reloaders : q # r => reload'[q] = reload[q]
    BY <1>2, <1>9, ReloadToFacts DEF ReconcileRows, ReloadPcs
  <2> QED
    BY <1>1, <2>1, <2>2 DEF MuInv, Holding
<1>10. CASE Apply(r)
  <2>1. UNCHANGED up /\ reload[r].pc = "rest"
    BY <1>10 DEF Apply
  <2>2. CASE active' = reload[r].to /\ Reloaded(r)
    BY <1>2, <1>6, <2>1, <2>2 DEF Holding
  <2>3. CASE ReloadTo(r, "await") /\ UNCHANGED <<active, mu>>
    <3>1. reload'[r].pc = "await" /\ \A q \in Reloaders : q # r => reload'[q] = reload[q]
      BY <1>2, <2>1, <2>3, ReloadToFacts DEF ReloadPcs
    <3> QED
      BY <1>1, <2>1, <2>3, <3>1 DEF MuInv, Holding
  <2> QED
    BY <1>10, <2>2, <2>3 DEF Apply
<1>11. CASE ReplaceRelay(r)
  BY <1>2, <1>6, <1>11 DEF ReplaceRelay, Holding
<1>12. CASE ApplyFails(r)
  BY <1>6, <1>12 DEF ApplyFails, Holding, MuInv
<1>13. CASE FullLock(r)
  <2>1. mu = None /\ mu' = r /\ UNCHANGED <<up, active>>
    BY <1>13 DEF FullLock
  <2>2. reload'[r].pc = "drain" /\ \A q \in Reloaders : q # r => reload'[q] = reload[q]
    BY <1>13, ReloadToFacts DEF FullLock, ReloadPcs
  <2> QED
    BY <1>1, <1>4, <2>1, <2>2 DEF MuInv, Holding
<1>14. CASE FullOpen(r)
  BY <1>6, <1>14, LoadedFacts DEF FullOpen, Holding
<1>15. CASE FullFails(r)
  BY <1>6, <1>15 DEF FullFails, Holding
<1> QED
  BY <1>7, <1>8, <1>9, <1>10, <1>11, <1>12, <1>13, <1>14, <1>15 DEF ReloadStep

LEMMA MuFailure ==
    ASSUME ConfigTypes, ConfigTypes', MuInv, FailureStep \/ EventFails \/ Kill
    PROVE  MuInv'
<1> USE DEF host, threads
<1>1. CASE EventFails
  BY <1>1 DEF EventFails, MuInv, Holding
<1>2. CASE FailureLock
  BY <1>2 DEF FailureLock, MuInv, Holding
<1>3. CASE FailureEnds
  BY <1>3 DEF FailureEnds, MuInv, Holding
<1>4. CASE Kill
  BY <1>4, StartingFacts DEF Kill, MuInv, Holding
<1> QED
  BY <1>1, <1>2, <1>3, <1>4 DEF FailureStep

LEMMA MuNext ==
    ASSUME ConfigTypes, ConfigTypes', MuInv, [Next]_vars
    PROVE  MuInv'
<1>1. CASE UNCHANGED vars
  BY <1>1 DEF vars, host, threads, MuInv
<1> QED
  BY <1>1, MuOthers, MuReload, MuFailure DEF Next, Environment

LEMMA MuInit == Init => MuInv
<1> SUFFICES ASSUME Init PROVE MuInv
  OBVIOUS
<1>1. NoReload.pc = None /\ [NoReload EXCEPT !.pc = "relock"].pc = "relock"
  BY DEF NoReload
<1>2. \A r \in Reloaders : reload[r] \in {NoReload, [NoReload EXCEPT !.pc = "relock"]}
  BY DEF Init, Starting
<1>3. \A r \in Reloaders : reload[r].pc \in {None, "relock"}
  BY <1>1, <1>2
<1> QED
  BY <1>3 DEF Init, MuInv, Holding

-----------------------------------------------------------------------------
(* The supervisors.                                                        *)

\* A supervisor that has not ended takes a step.
Moved(g) ==
    /\ sup[g].pc \notin {None, "ended"} /\ sup'[g].relay = sup[g].relay
    /\ \A h \in Supervisors : h # g => sup'[h] = sup[h]

LEMMA SupMoves ==
    ASSUME ConfigTypes, NEW g \in Supervisors,
           \/ SupervisorStep(g) \/ Disconnect(g) \/ Revoked(g) \/ WriteFails(g)
           \/ \E d \in Deltas : RemoteUpdate(g, d)
    PROVE  /\ UNCHANGED <<current, up, rows, torn, retention, local, confirmed>>
           /\ UNCHANGED sup \/ Moved(g)
<1> USE DEF host, threads
<1>1. UNCHANGED <<current, up, rows, torn, retention, local, confirmed>>
  BY DEF SupervisorStep, Connect, MigrateLoad, MigrateSave, MigrateActive, RemoteSave, RemoteReply,
     Retry, End, Disconnect, Revoked, WriteFails, RemoteUpdate
<1> USE DEF SupPcs
<1>2. CASE Connect(g) \/ RemoteReply(g) \/ Retry(g) \/ End(g) \/ MigrateActive(g) \/ Disconnect(g)
           \/ Revoked(g)
  BY <1>1, <1>2, ToFacts DEF Connect, RemoteReply, Retry, End, Ends, MigrateActive, Disconnect, Revoked, Moved
<1>3. [Loaded EXCEPT !.legacy = "none"] \in Configs
  BY LoadedFacts DEF Configs
<1>4. CASE MigrateLoad(g)
  <2>1. \/ sup' = [sup EXCEPT ![g].pc = "forget", ![g].next = [Loaded EXCEPT !.legacy = "none"]]
        \/ sup' = [sup EXCEPT ![g].pc = "online", ![g].next = Empty]
    BY <1>4 DEF MigrateLoad
  <2>2. sup[g].pc = "migrate" /\ Empty \in Configs \cup {Empty}
    BY <1>4 DEF MigrateLoad
  <2> QED
    BY <1>1, <1>3, <2>1, <2>2, SetFacts DEF Moved
<1>5. CASE MigrateSave(g) \/ RemoteSave(g) \/ WriteFails(g)
  <2>1. \E x \in {"lock", "online", "reply", "wait"} : sup' = [sup EXCEPT ![g].pc = x, ![g].next = Empty]
    BY <1>5 DEF MigrateSave, RemoteSave, WriteFails
  <2>2. sup[g].pc \notin {None, "ended"} /\ Empty \in Configs \cup {Empty}
    BY <1>5 DEF MigrateSave, RemoteSave, WriteFails
  <2> QED
    BY <1>1, <2>1, <2>2, SetFacts DEF Moved
<1>6. ASSUME NEW d \in Deltas, RemoteUpdate(g, d) PROVE UNCHANGED sup \/ Moved(g)
  <2>1. UNCHANGED sup \/ sup' = [sup EXCEPT ![g].pc = "save", ![g].next = Applied(Loaded, d)]
    BY <1>6 DEF RemoteUpdate
  <2>2. sup[g].pc = "online" /\ Applied(Loaded, d) \in Configs
    BY <1>6, AppliedFacts, LoadedFacts DEF RemoteUpdate
  <2> QED
    BY <2>1, <2>2, SetFacts DEF Moved
<1> QED
  BY <1>1, <1>2, <1>4, <1>5, <1>6 DEF SupervisorStep

LEMMA SupNext ==
    ASSUME ConfigTypes, ConfigTypes', SupInv, [Next]_vars
    PROVE  SupInv'
<1> USE DEF host, threads
<1>1. ASSUME UNCHANGED <<sup, current>> PROVE SupInv'
  BY <1>1 DEF SupInv
<1>2. ASSUME sup' = Closing, UNCHANGED current PROVE SupInv'
  BY <1>2, ClosingFacts DEF SupInv
<1>3. ASSUME Drained, UNCHANGED sup, current' = None PROVE SupInv'
  BY <1>3 DEF SupInv, Drained
<1>4. ASSUME Drained, NEW c \in Configs, Start(c) PROVE SupInv'
  <2>1. \A h \in Supervisors : sup[h].pc \in {None, "ended"}
    BY <1>4 DEF SupInv, Drained
  <2> QED
    BY <1>4, <2>1, StartFacts DEF SupInv
<1>5. ASSUME NEW g \in Supervisors,
             \/ SupervisorStep(g) \/ Disconnect(g) \/ Revoked(g) \/ WriteFails(g)
             \/ \E d \in Deltas : RemoteUpdate(g, d)
      PROVE  SupInv'
  <2>1. UNCHANGED current /\ (UNCHANGED sup \/ Moved(g))
    BY <1>5, SupMoves
  <2> QED
    BY <2>1 DEF SupInv, Moved
<1>6. CASE LocalStep \/ (\E d \in Deltas : LocalUpdate(d)) \/ (\E i \in Changes : Approve(i) \/ Reject(i))
           \/ CommandFails \/ AskReload \/ Corrupt \/ EventFails
  BY <1>1, <1>6 DEF LocalStep, LocalSave, ApproveSave, ApproveMark, LocalUpdate, Approve, Reject,
     CommandFails, AskReload, Corrupt, EventFails
<1>7. ASSUME NEW r \in Reloaders, ReloadStep(r) \/ ApplyFails(r) \/ FullFails(r) PROVE SupInv'
  <2>1. CASE ReloadLoad(r) \/ ReloadLock(r) \/ ReconcileRows(r) \/ ApplyFails(r)
    BY <1>1, <2>1 DEF ReloadLoad, ReloadLock, ReconcileRows, ApplyFails
  <2>2. CASE Apply(r) \/ FullLock(r)
    BY <1>1, <1>2, <2>2 DEF Apply, FullLock
  <2>3. CASE ReplaceRelay(r)
    <3>1. reload[r].to \in Configs
      BY <2>3 DEF ReplaceRelay, ReloadAt, ConfigTypes, ReloadTypes
    <3> QED
      BY <1>4, <2>3, <3>1 DEF ReplaceRelay
  <2>4. CASE FullOpen(r)
    BY <1>4, <2>4, LoadedFacts DEF FullOpen
  <2>5. CASE FullFails(r)
    BY <1>3, <2>5 DEF FullFails
  <2> QED
    BY <1>7, <2>1, <2>2, <2>3, <2>4, <2>5 DEF ReloadStep
<1>8. CASE FailureStep
  BY <1>2, <1>3, <1>8 DEF FailureStep, FailureLock, FailureEnds
<1>9. CASE Kill
  BY <1>9, NoSupFacts DEF Kill, SupInv
<1>10. CASE UNCHANGED vars
  BY <1>1, <1>10 DEF vars
<1> QED
  BY <1>5, <1>6, <1>7, <1>8, <1>9, <1>10 DEF Next, Environment

LEMMA SupInit == Init => SupInv
BY NoSupFacts DEF Init, SupInv

-----------------------------------------------------------------------------
(* The relays.                                                             *)

LEMMA KnownKept ==
    ASSUME ConfigTypes, ConfirmedKept, UNCHANGED confirmed,
           \A i \in Changes : change[i].state # None
              => change'[i].delta = change[i].delta /\ change'[i].state # None
    PROVE  Known' = Known /\ ConfirmedKept'
<1>1. \A i \in confirmed : i \in Changes /\ change[i].state # None
  BY DEF ConfigTypes, ChangeTypes, ConfirmedKept
<1> QED
  BY <1>1 DEF Known, ConfirmedKept

\* What the file makes readable, and what a save leaves.
LEMMA FileKept ==
    ASSUME ConfigTypes, FileKnown, Known' = Known
    PROVE  /\ Loaded.relay \in Known
           /\ \A c \in Configs : c.relay \in Known /\ file' = Saved(c) => FileKnown'
           /\ file' \in HalfSaved => FileKnown'
           /\ UNCHANGED file => FileKnown'
<1>1. Loaded.relay \in Known
  BY LoadedFacts DEF FileKnown
<1> QED
  BY <1>1, LoadedFacts DEF FileKnown

LEMMA RelaySupervisor ==
    ASSUME ConfigTypes, ConfigTypes', MuInv, RelayInv, NEW g \in Supervisors,
           \/ SupervisorStep(g) \/ Disconnect(g) \/ Revoked(g) \/ WriteFails(g)
           \/ \E d \in Deltas : RemoteUpdate(g, d)
    PROVE  RelayInv'
<1> USE DEF host, threads
<1>1. UNCHANGED <<local, confirmed>> /\ (UNCHANGED sup \/ Moved(g))
  BY SupMoves
<1>2. \A i \in Changes : change'[i] = change[i] \/ change[i].state = None
  BY CreateFacts DEF SupervisorStep, Connect, MigrateLoad, MigrateSave, MigrateActive, RemoteSave,
     RemoteReply, Retry, End, Disconnect, Revoked, WriteFails, RemoteUpdate
<1>3. Known' = Known /\ ConfirmedKept'
  BY <1>1, <1>2, KnownKept DEF RelayInv
<1>4. LocalKnown'
  BY <1>1, <1>3 DEF RelayInv, LocalKnown
<1>5. ReloadsKnown'
  <2>1. Spawn \/ UNCHANGED reload
    BY DEF SupervisorStep, Connect, MigrateLoad, MigrateSave, MigrateActive, RemoteSave, RemoteReply,
       Retry, End, Disconnect, Revoked, WriteFails, RemoteUpdate
  <2> QED
    BY <1>3, <2>1, SpawnFacts DEF RelayInv, ReloadsKnown
<1>6. sup[g].pc \in {"save", "forget"} => sup[g].next \in Configs /\ sup[g].next.relay \in Known
  BY DEF ConfigTypes, SupTypes, RelayInv, SupsKnown
<1>7. FileKnown'
  <2>1. \/ UNCHANGED file \/ file' \in HalfSaved
        \/ (file' = Saved(sup[g].next) /\ sup[g].pc \in {"save", "forget"})
    BY DEF SupervisorStep, Connect, MigrateLoad, MigrateSave, MigrateActive, RemoteSave,
       RemoteReply, Retry, End, Disconnect, Revoked, WriteFails, SaveFails, RemoteUpdate
  <2> QED
    BY <1>3, <1>6, <2>1, FileKept DEF RelayInv
<1>8. ActiveKnown'
  <2>1. CASE active' = active
    BY <1>3, <2>1 DEF RelayInv, ActiveKnown
  <2>2. CASE MigrateActive(g)
    <3>1. active' = active \/ (active.legacy = "ref" /\ active' = [active EXCEPT !.legacy = "none"])
      BY <2>2 DEF MigrateActive
    <3>2. active.legacy = "ref" => active \in Configs /\ active # Empty
      BY ConfigFacts DEF ConfigTypes, HostTypes
    <3>3. active'.relay = active.relay /\ (active' # Empty => active # Empty)
      BY <3>1, <3>2 DEF Configs
    <3> QED
      BY <1>3, <3>3 DEF RelayInv, ActiveKnown
  <2> QED
    BY <2>1, <2>2 DEF SupervisorStep, Connect, MigrateLoad, MigrateSave, RemoteSave,
       RemoteReply, Retry, End, Disconnect, Revoked, WriteFails, RemoteUpdate
<1>9. SupsKnown'
  <2>1. Loaded.relay \in Known /\ Loaded \in Configs
    BY <1>3, FileKept, LoadedFacts DEF RelayInv
  <2>2. [Loaded EXCEPT !.legacy = "none"] \in Configs
        /\ [Loaded EXCEPT !.legacy = "none"].relay = Loaded.relay
    BY <2>1 DEF Configs
  <2>3. CASE UNCHANGED sup
    BY <1>3, <2>3 DEF RelayInv, SupsKnown
  <2>4. ASSUME Moved(g), sup'[g].pc \in {"save", "forget"} => sup'[g].next.relay \in Known
        PROVE  SupsKnown'
    BY <1>3, <2>4 DEF RelayInv, SupsKnown, Moved
  <2> USE DEF SupPcs
  <2>5. CASE Connect(g) \/ RemoteReply(g) \/ Retry(g) \/ End(g) \/ MigrateActive(g) \/ Disconnect(g)
             \/ Revoked(g)
    <3>1. sup'[g].pc \notin {"save", "forget"}
      BY <2>5, ToFacts DEF Connect, RemoteReply, Retry, End, MigrateActive, Disconnect, Revoked
    <3> QED
      BY <1>1, <2>3, <2>4, <3>1
  <2>6. CASE MigrateLoad(g)
    <3>1. \/ sup' = [sup EXCEPT ![g].pc = "forget", ![g].next = [Loaded EXCEPT !.legacy = "none"]]
          \/ sup' = [sup EXCEPT ![g].pc = "online", ![g].next = Empty]
      BY <2>6 DEF MigrateLoad
    <3>2. sup'[g].pc = "online" \/ sup'[g].next.relay = Loaded.relay
      BY <2>2, <3>1, SetFacts
    <3> QED
      BY <1>1, <2>1, <2>3, <2>4, <3>2
  <2>7. CASE MigrateSave(g) \/ RemoteSave(g) \/ WriteFails(g)
    <3>1. \E x \in {"lock", "online", "reply", "wait"} : sup' = [sup EXCEPT ![g].pc = x, ![g].next = Empty]
      BY <2>7 DEF MigrateSave, RemoteSave, WriteFails
    <3>2. Empty \in Configs \cup {Empty}
      OBVIOUS
    <3>3. sup'[g].pc \notin {"save", "forget"}
      BY <3>1, <3>2, SetFacts
    <3> QED
      BY <1>1, <2>3, <2>4, <3>3
  <2>8. ASSUME NEW d \in Deltas, RemoteUpdate(g, d) PROVE SupsKnown'
    <3>1. UNCHANGED sup \/ (~Sensitive(d) /\ sup' = [sup EXCEPT ![g].pc = "save", ![g].next = Applied(Loaded, d)])
      BY <2>8 DEF RemoteUpdate
    <3>2. Applied(Loaded, d) \in Configs /\ (~Sensitive(d) => Applied(Loaded, d).relay = Loaded.relay)
      BY <2>1, AppliedFacts DEF Sensitive
    <3>3. UNCHANGED sup \/ sup'[g].next.relay = Loaded.relay
      BY <3>1, <3>2, SetFacts
    <3> QED
      BY <1>1, <2>1, <2>3, <2>4, <3>3
  <2> QED
    BY <2>5, <2>6, <2>7, <2>8 DEF SupervisorStep
<1> QED
  BY <1>3, <1>4, <1>5, <1>7, <1>8, <1>9 DEF RelayInv

\* Everything a growing set of known relays keeps.
LEMMA KnownGrows ==
    ASSUME RelayInv, Known \subseteq Known', UNCHANGED <<file, active, sup, reload>>
    PROVE  FileKnown' /\ ActiveKnown' /\ SupsKnown' /\ ReloadsKnown'
BY DEF RelayInv, FileKnown, ActiveKnown, SupsKnown, ReloadsKnown

LEMMA RelayApprove ==
    ASSUME ConfigTypes, ConfigTypes', RelayInv, NEW i \in Changes, Approve(i)
    PROVE  RelayInv'
<1> USE DEF host, threads
<1> DEFINE d == change[i].delta
           n == [pc |-> "approve", next |-> Applied(Loaded, d), id |-> i]
<1>1. /\ local' = n /\ change[i].state = "pending" /\ confirmed' = confirmed \cup {i}
      /\ UNCHANGED <<file, active, change, sup, reload>>
  BY DEF Approve, Approvable
<1>2. d \in Deltas /\ Loaded \in Configs
  BY LoadedFacts DEF ConfigTypes, ChangeTypes
<1>3. Known \subseteq Known' /\ (d.field = "relay" => d.to \in Known') /\ ConfirmedKept'
  BY <1>1 DEF Known, RelayInv, ConfirmedKept
<1>4. FileKnown' /\ ActiveKnown' /\ SupsKnown' /\ ReloadsKnown'
  BY <1>1, <1>3, KnownGrows
<1>5. Loaded.relay \in Known
  BY LoadedFacts DEF RelayInv, FileKnown
<1>6. Applied(Loaded, d).relay \in Known'
  BY <1>2, <1>3, <1>5, AppliedFacts
<1>7. LocalKnown'
  BY <1>1, <1>6 DEF LocalKnown
<1> QED
  BY <1>3, <1>4, <1>7 DEF RelayInv

LEMMA RelayLocal ==
    ASSUME ConfigTypes, ConfigTypes', RelayInv,
           \/ LocalStep \/ (\E d \in Deltas : LocalUpdate(d)) \/ (\E i \in Changes : Reject(i))
           \/ CommandFails \/ AskReload \/ Corrupt
    PROVE  RelayInv'
<1> USE DEF host, threads
<1>1. UNCHANGED <<active, sup, confirmed>>
  BY DEF LocalStep, LocalSave, ApproveSave, ApproveMark, LocalUpdate, Reject, CommandFails, AskReload, Corrupt
<1>2. \A i \in Changes : change[i].state # None
          => change'[i].delta = change[i].delta /\ change'[i].state # None
  <2>1. CASE UNCHANGED change
    BY <2>1
  <2>2. CASE \E d \in Deltas : CreateConfigChange(d)
    BY <2>2, CreateFacts
  <2>3. ASSUME NEW i \in Changes, Reject(i) PROVE change' = [change EXCEPT ![i].state = "rejected"]
    BY <2>3 DEF Reject
  <2>4. CASE ApproveMark
    BY <2>4 DEF ApproveMark, ConfigTypes, ChangeTypes
  <2>5. CASE \E i \in Changes : Reject(i)
    BY <2>3, <2>5 DEF ConfigTypes, ChangeTypes
  <2> QED
    BY <2>1, <2>2, <2>4, <2>5 DEF LocalStep, LocalSave, ApproveSave, LocalUpdate, CommandFails,
       AskReload, Corrupt
<1>3. Known' = Known /\ ConfirmedKept'
  BY <1>1, <1>2, KnownKept DEF RelayInv
<1>4. ActiveKnown' /\ SupsKnown'
  BY <1>1, <1>3 DEF RelayInv, ActiveKnown, SupsKnown
<1>5. ReloadsKnown'
  <2>1. Spawn \/ UNCHANGED reload
    BY DEF LocalStep, LocalSave, ApproveSave, ApproveMark, LocalUpdate, Reject, CommandFails, AskReload, Corrupt
  <2> QED
    BY <1>3, <2>1, SpawnFacts DEF RelayInv, ReloadsKnown
<1>6. FileKnown'
  <2>1. local.pc # None => local.next \in Configs /\ local.next.relay \in Known
    BY DEF RelayInv, LocalKnown, ConfigTypes, LocalTypes
  <2>2. CASE Corrupt
    <3>1. file' = [file EXCEPT !.main = Unreadable]
      BY <2>2 DEF Corrupt
    <3>2. file'.main = Unreadable /\ file'.back = file.back
      BY <3>1 DEF ConfigTypes, FileTypes
    <3> QED
      BY <1>3, <3>2 DEF RelayInv, FileKnown, Unreadable, Some, Configs
  <2>3. CASE ~Corrupt
    <3>1. \/ UNCHANGED file \/ file' \in HalfSaved
          \/ (file' = Saved(local.next) /\ local.pc # None)
      BY <2>3 DEF LocalStep, LocalSave, ApproveSave, ApproveMark, LocalUpdate, Reject, CommandFails, SaveFails,
         AskReload, Serving
    <3> QED
      BY <1>3, <2>1, <3>1, FileKept DEF RelayInv
  <2> QED
    BY <2>2, <2>3
<1>7. LocalKnown'
  <2>1. CASE UNCHANGED local
    BY <1>3, <2>1 DEF RelayInv, LocalKnown
  <2>2. CASE Served
    BY <2>2, NoCommandFacts DEF Served, LocalKnown
  <2>3. CASE ApproveSave
    <3>1. local.pc = "approve" /\ local' = [local EXCEPT !.pc = "mark"]
      BY <2>3 DEF ApproveSave, Serving
    <3>2. local'.next = local.next
      BY <3>1 DEF ConfigTypes, LocalTypes
    <3> QED
      BY <1>3, <3>1, <3>2 DEF RelayInv, LocalKnown
  <2>4. ASSUME NEW d \in Deltas, LocalUpdate(d), local' # local PROVE LocalKnown'
    <3>1. ~Sensitive(d) /\ local' = [pc |-> "save", next |-> Applied(Loaded, d), id |-> None]
      BY <2>4 DEF LocalUpdate
    <3>2. Loaded \in Configs /\ Loaded.relay \in Known
      BY <1>3, FileKept, LoadedFacts DEF RelayInv
    <3>3. Applied(Loaded, d).relay \in Known
      BY <3>1, <3>2, AppliedFacts DEF Sensitive
    <3> QED
      BY <1>3, <3>1, <3>3 DEF LocalKnown
  <2> QED
    BY <2>1, <2>2, <2>3, <2>4 DEF LocalStep, LocalSave, ApproveMark, LocalUpdate, Reject, CommandFails,
       AskReload, Corrupt
<1> QED
  BY <1>3, <1>4, <1>5, <1>6, <1>7 DEF RelayInv

LEMMA RelayReload ==
    ASSUME ConfigTypes, ConfigTypes', MuInv, RelayInv, NEW r \in Reloaders,
           ReloadStep(r) \/ ApplyFails(r) \/ FullFails(r)
    PROVE  RelayInv'
<1> USE DEF host, threads
<1>1. UNCHANGED <<change, confirmed, local>>
  BY DEF ReloadStep, ReloadLoad, ReloadLock, ReconcileRows, Apply, ReplaceRelay, FullLock, FullOpen,
     ApplyFails, FullFails
<1>2. Known' = Known /\ ConfirmedKept' /\ LocalKnown'
  BY <1>1 DEF Known, RelayInv, ConfirmedKept, LocalKnown
<1>3. /\ Loaded \in Configs /\ Loaded.relay \in Known
      /\ UNCHANGED file => FileKnown'
  BY <1>2, FileKept, LoadedFacts DEF RelayInv
<1>4. reload[r].pc \in {"lock", "apply", "rest", "await"}
          => reload[r].to \in Configs /\ reload[r].to.relay \in Known
  BY DEF ConfigTypes, ReloadTypes, RelayInv, ReloadsKnown
<1>5. UNCHANGED sup => SupsKnown'
  BY <1>2 DEF RelayInv, SupsKnown
<1>6. UNCHANGED active => ActiveKnown'
  BY <1>2 DEF RelayInv, ActiveKnown
<1>7. sup' = Closing => SupsKnown'
  BY <1>2, ClosingFacts DEF RelayInv, SupsKnown
<1>8. ASSUME NEW c \in Configs, c.relay \in Known, Start(c) PROVE SupsKnown'
  <2>1. /\ sup'[current'].relay = c.relay /\ sup'[current'].pc = "connect"
        /\ \A h \in Supervisors : h # current' => sup'[h] = sup[h]
    BY <1>8, StartFacts
  <2> QED
    BY <1>2, <1>8, <2>1 DEF RelayInv, SupsKnown
<1>9. Reloaded(r) => ReloadsKnown'
  BY <1>2, ReloadedFacts DEF RelayInv, ReloadsKnown
<1>10. ASSUME NEW x \in ReloadPcs, ReloadTo(r, x),
              x \in {"lock", "apply", "rest", "await"} => reload[r].pc \in {"lock", "apply", "rest", "await"}
       PROVE  ReloadsKnown'
  <2>1. /\ reload'[r].pc = x /\ reload'[r].to = reload[r].to
        /\ \A q \in Reloaders : q # r => reload'[q] = reload[q]
    BY <1>4, <1>10, ReloadToFacts
  <2> QED
    BY <1>2, <1>4, <1>10, <2>1 DEF RelayInv, ReloadsKnown
<1> USE DEF ReloadPcs, ReloadAt
<1>11. CASE ReloadLoad(r)
  <2>1. UNCHANGED <<file, active, sup>> /\ reload' = [reload EXCEPT ![r] = [pc |-> "lock", to |-> Loaded]]
    BY <1>11 DEF ReloadLoad
  <2>2. ReloadsKnown'
    BY <1>2, <1>3, <2>1 DEF ConfigTypes, ReloadTypes, RelayInv, ReloadsKnown
  <2> QED
    BY <1>2, <1>3, <1>5, <1>6, <2>1, <2>2 DEF RelayInv
<1>12. CASE ReloadLock(r)
  <2>1. ReloadsKnown'
    BY <1>10, <1>12 DEF ReloadLock
  <2> QED
    BY <1>2, <1>3, <1>5, <1>6, <1>12, <2>1 DEF ReloadLock, RelayInv
<1>13. CASE ReconcileRows(r)
  <2>1. ReloadsKnown'
    BY <1>10, <1>13 DEF ReconcileRows
  <2> QED
    BY <1>2, <1>3, <1>5, <1>6, <1>13, <2>1 DEF ReconcileRows, RelayInv
<1>14. CASE Apply(r)
  <2>1. UNCHANGED file /\ reload[r].pc = "rest"
    BY <1>14 DEF Apply
  <2>2. CASE active' = reload[r].to /\ Reloaded(r) /\ UNCHANGED sup
    <3>1. ActiveKnown'
      BY <1>2, <1>4, <2>1, <2>2 DEF ActiveKnown
    <3> QED
      BY <1>2, <1>3, <1>5, <1>9, <2>1, <2>2, <3>1 DEF RelayInv
  <2>3. CASE sup' = Closing /\ ReloadTo(r, "await") /\ UNCHANGED active
    <3>1. ReloadsKnown'
      BY <1>10, <2>1, <2>3
    <3> QED
      BY <1>2, <1>3, <1>6, <1>7, <2>1, <2>3, <3>1 DEF RelayInv
  <2> QED
    BY <1>14, <2>2, <2>3 DEF Apply
<1>15. CASE ReplaceRelay(r)
  <2>1. /\ reload[r].pc = "await" /\ Start(reload[r].to) /\ active' = reload[r].to /\ Reloaded(r)
        /\ UNCHANGED file
    BY <1>15 DEF ReplaceRelay
  <2>2. ActiveKnown' /\ SupsKnown'
    BY <1>2, <1>4, <1>8, <2>1 DEF ActiveKnown
  <2> QED
    BY <1>2, <1>3, <1>9, <2>1, <2>2 DEF RelayInv
<1>16. CASE ApplyFails(r)
  <2>1. /\ reload[r].pc \in {"apply", "rest"} /\ file' \in HalfSaved \cup {Saved(active)} /\ Reloaded(r)
        /\ UNCHANGED <<active, sup>>
    BY <1>16 DEF ApplyFails, RolledBack, SaveFails
  <2>2. active \in Configs /\ active # Empty
    BY <2>1, ConfigFacts DEF MuInv
  <2>3. FileKnown'
    BY <1>2, <2>1, <2>2, FileKept DEF RelayInv, ActiveKnown
  <2> QED
    BY <1>2, <1>5, <1>6, <1>9, <2>1, <2>3 DEF RelayInv
<1>17. CASE FullLock(r)
  <2>1. ReloadsKnown'
    BY <1>10, <1>17 DEF FullLock
  <2> QED
    BY <1>2, <1>3, <1>6, <1>7, <1>17, <2>1 DEF FullLock, RelayInv
<1>18. CASE FullOpen(r)
  <2>1. Start(Loaded) /\ active' = Loaded /\ Reloaded(r) /\ UNCHANGED file
    BY <1>18 DEF FullOpen
  <2>2. ActiveKnown' /\ SupsKnown'
    BY <1>2, <1>3, <1>8, <2>1 DEF ActiveKnown
  <2> QED
    BY <1>2, <1>3, <1>9, <2>1, <2>2 DEF RelayInv
<1>19. CASE FullFails(r)
  <2>1. active' = Empty /\ Reloaded(r) /\ UNCHANGED <<file, sup>>
    BY <1>19 DEF FullFails
  <2>2. Empty' = Empty
    BY DEF Empty, Some, Configs
  <2>3. ActiveKnown'
    BY <2>1, <2>2 DEF ActiveKnown
  <2> QED
    BY <1>2, <1>3, <1>5, <1>9, <2>1, <2>3 DEF RelayInv
<1> QED
  BY <1>11, <1>12, <1>13, <1>14, <1>15, <1>16, <1>17, <1>18, <1>19 DEF ReloadStep

LEMMA RelayFailure ==
    ASSUME ConfigTypes, ConfigTypes', RelayInv, FailureStep \/ EventFails \/ Kill
    PROVE  RelayInv'
<1> USE DEF host, threads
<1>1. UNCHANGED <<change, confirmed>>
  BY DEF FailureStep, FailureLock, FailureEnds, EventFails, Kill
<1>2. Known' = Known /\ ConfirmedKept'
  BY <1>1 DEF Known, RelayInv, ConfirmedKept
<1>3. CASE EventFails \/ FailureEnds \/ FailureLock
  <2>1. UNCHANGED <<file, active, reload, local>> /\ (UNCHANGED sup \/ sup' = Closing)
    BY <1>3 DEF EventFails, FailureEnds, FailureLock
  <2>2. SupsKnown'
    BY <1>2, <2>1, ClosingFacts DEF RelayInv, SupsKnown
  <2> QED
    BY <1>2, <2>1, <2>2 DEF RelayInv, FileKnown, ActiveKnown, ReloadsKnown, LocalKnown
<1>4. CASE Kill
  <2>1. /\ UNCHANGED file \/ file' \in HalfSaved
        /\ active' = Empty /\ sup' = [g \in Supervisors |-> NoSup]
        /\ reload' = Starting /\ local' = NoCommand
    BY <1>4 DEF Kill
  <2>2. FileKnown'
    BY <1>2, <2>1, FileKept DEF RelayInv
  <2>3. SupsKnown' /\ LocalKnown'
    BY <2>1, NoSupFacts, NoCommandFacts DEF SupsKnown, LocalKnown
  <2>4. ReloadsKnown'
    BY <2>1, StartingFacts DEF ReloadsKnown
  <2>5. ActiveKnown'
    BY <2>1 DEF ActiveKnown, Empty, Some, Configs
  <2> QED
    BY <1>2, <2>2, <2>3, <2>4, <2>5 DEF RelayInv
<1> QED
  BY <1>3, <1>4 DEF FailureStep

LEMMA RelayNext ==
    ASSUME ConfigTypes, ConfigTypes', MuInv, RelayInv, [Next]_vars
    PROVE  RelayInv'
<1>1. CASE UNCHANGED vars
  BY <1>1 DEF vars, host, threads, RelayInv, ConfirmedKept, FileKnown, ActiveKnown, SupsKnown,
     ReloadsKnown, LocalKnown, Known
<1> QED
  BY <1>1, RelaySupervisor, RelayApprove, RelayLocal, RelayReload, RelayFailure DEF Next, Environment

LEMMA RelayInit == Init => RelayInv
<1> SUFFICES ASSUME Init PROVE RelayInv
  OBVIOUS
<1>1. PICK c \in Initials : file = [main |-> c, back |-> c]
  BY DEF Init
<1>2. FileKnown
  BY <1>1 DEF FileKnown, Known
<1>3. /\ active = Empty /\ confirmed = {} /\ sup = [g \in Supervisors |-> NoSup]
      /\ reload = Starting /\ local = NoCommand
  BY DEF Init
<1>4. NoReload.pc = None /\ [NoReload EXCEPT !.pc = "relock"].pc = "relock"
  BY DEF NoReload
<1>5. \A r \in Reloaders : reload[r] \in {NoReload, [NoReload EXCEPT !.pc = "relock"]}
  BY <1>3 DEF Starting
<1>6. ReloadsKnown
  BY <1>4, <1>5 DEF ReloadsKnown
<1>7. ConfirmedKept /\ ActiveKnown /\ SupsKnown /\ LocalKnown
  BY <1>3, NoSupFacts, NoCommandFacts DEF ConfirmedKept, ActiveKnown, SupsKnown, LocalKnown
<1> QED
  BY <1>2, <1>6, <1>7 DEF RelayInv

-----------------------------------------------------------------------------
(* What runs together.                                                     *)

\* A step that applies nothing.
LEMMA TogetherKept ==
    ASSUME ConfigTypes, TogetherInv, UNCHANGED <<up, rows, torn, retention>>,
           up = "ready" => /\ active'.perm = active.perm /\ active'.name = active.name
                           /\ active'.relay = active.relay,
           current' \in {current, None},
           \A g \in Supervisors : sup'[g].relay = sup[g].relay,
           \A r \in Reloaders : \/ reload'[r] = reload[r]
                                \/ {reload[r].pc, reload'[r].pc} \cap {"rest", "await"} = {}
    PROVE  TogetherInv'
<1> SUFFICES ASSUME up' = "ready" PROVE TogetherInv'
  BY DEF TogetherInv
<1>1. \A r \in Reloaders :
          /\ reload'[r].pc \in {"rest", "await"} => reload'[r] = reload[r]
          /\ reload[r].pc \in {"rest", "await"} => reload'[r] = reload[r]
  OBVIOUS
<1>2. /\ ~torn' /\ (\A r \in Reloaders : reload'[r].pc \notin {"rest", "await"}) => rows' = active'.perm
      /\ (\A r \in Reloaders : reload'[r].pc # "await") => retention' = active'.name
  BY <1>1 DEF TogetherInv
<1>3. \A r \in Reloaders :
          /\ reload'[r].pc \in {"rest", "await"} => rows' = reload'[r].to.perm
          /\ reload'[r].pc = "await" => retention' = reload'[r].to.name
  BY <1>1 DEF TogetherInv
<1>4. current' # None => sup'[current'].relay = active'.relay
  BY DEF TogetherInv, ConfigTypes, HostTypes
<1> QED
  BY <1>2, <1>3, <1>4 DEF TogetherInv

\* The end of a reload: with the mutex given back, none is under way.
LEMMA TogetherEnds ==
    ASSUME ConfigTypes, MuInv, NEW r \in Reloaders, Reloaded(r), reload[r].pc \in Holding,
           ~torn' => rows' = active'.perm, retention' = active'.name,
           current' # None => sup'[current'].relay = active'.relay
    PROVE  TogetherInv'
<1>1. \A q \in Reloaders : reload[q].pc \in Holding => q = r
  BY DEF MuInv
<1>2. \A q \in Reloaders : reload'[q].pc \notin {"rest", "await"}
  BY <1>1, ReloadedFacts DEF Holding
<1> QED
  BY <1>2 DEF TogetherInv

LEMMA TogetherOthers ==
    ASSUME ConfigTypes, ConfigTypes', MuInv, TogetherInv,
           \/ \E g \in Supervisors : \/ SupervisorStep(g) \/ Disconnect(g) \/ Revoked(g) \/ WriteFails(g)
                                     \/ \E d \in Deltas : RemoteUpdate(g, d)
           \/ LocalStep \/ (\E d \in Deltas : LocalUpdate(d))
           \/ (\E i \in Changes : Approve(i) \/ Reject(i))
           \/ CommandFails \/ AskReload \/ Corrupt \/ EventFails \/ FailureStep
    PROVE  TogetherInv'
<1> USE DEF host, threads
<1>1. UNCHANGED <<up, rows, torn, retention>> /\ current' \in {current, None} /\ (Spawn \/ UNCHANGED reload)
  BY DEF SupervisorStep, Connect, MigrateLoad, MigrateSave, MigrateActive, RemoteSave, RemoteReply,
     Retry, End, Disconnect, Revoked, WriteFails, RemoteUpdate, LocalStep, LocalSave, ApproveSave,
     ApproveMark, LocalUpdate, Approve, Reject, CommandFails, AskReload, Corrupt, EventFails,
     FailureStep, FailureLock, FailureEnds
<1>2. \A r \in Reloaders : \/ reload'[r] = reload[r]
                           \/ {reload[r].pc, reload'[r].pc} \cap {"rest", "await"} = {}
  BY <1>1, SpawnFacts
<1>3. \A h \in Supervisors : sup'[h].relay = sup[h].relay
  <2>1. CASE UNCHANGED sup \/ sup' = Closing
    BY <2>1, ClosingFacts
  <2>2. CASE \E g \in Supervisors : Moved(g)
    BY <2>2 DEF Moved
  <2> QED
    BY <2>1, <2>2, SupMoves DEF LocalStep, LocalSave, ApproveSave,
     ApproveMark, LocalUpdate, Approve, Reject, CommandFails, AskReload, Corrupt, EventFails,
     FailureStep, FailureLock, FailureEnds
<1>4. ASSUME up = "ready"
      PROVE  active'.perm = active.perm /\ active'.name = active.name /\ active'.relay = active.relay
  <2>1. active \in Configs
    BY <1>4 DEF MuInv
  <2>2. active' = active \/ active' = [active EXCEPT !.legacy = "none"]
    BY DEF SupervisorStep, Connect, MigrateLoad, MigrateSave, MigrateActive, RemoteSave, RemoteReply,
     Retry, End, Disconnect, Revoked, WriteFails, RemoteUpdate, LocalStep, LocalSave, ApproveSave,
     ApproveMark, LocalUpdate, Approve, Reject, CommandFails, AskReload, Corrupt, EventFails,
     FailureStep, FailureLock, FailureEnds
  <2> QED
    BY <2>1, <2>2 DEF Configs
<1> QED
  BY <1>1, <1>2, <1>3, <1>4, TogetherKept

LEMMA TogetherReload ==
    ASSUME ConfigTypes, ConfigTypes', MuInv, TogetherInv, NEW r \in Reloaders,
           ReloadStep(r) \/ ApplyFails(r) \/ FullFails(r)
    PROVE  TogetherInv'
<1> USE DEF host, threads, ReloadPcs, ReloadAt
<1>1. reload[r].pc \in {"lock", "apply", "rest", "await"} => reload[r].to \in Configs
  BY DEF ConfigTypes, ReloadTypes
<1>2. reload[r].pc \in Holding => \A q \in Reloaders : reload[q].pc \in Holding => q = r
  BY DEF MuInv
<1>3. CASE ReloadLoad(r)
  <2>1. /\ UNCHANGED <<up, rows, torn, retention, active, current, sup>> /\ reload[r].pc = "load"
        /\ reload' = [reload EXCEPT ![r] = [pc |-> "lock", to |-> Loaded]]
    BY <1>3 DEF ReloadLoad
  <2>2. reload'[r].pc = "lock" /\ \A q \in Reloaders : q # r => reload'[q] = reload[q]
    BY <2>1 DEF ConfigTypes, ReloadTypes
  <2> QED
    BY <2>1, <2>2, TogetherKept
<1>4. CASE ReloadLock(r)
  <2>1. /\ UNCHANGED <<up, rows, torn, retention, active, current, sup>> /\ reload[r].pc = "lock"
        /\ \E x \in {"apply", "relock"} : ReloadTo(r, x)
    BY <1>4 DEF ReloadLock
  <2>2. reload'[r].pc \in {"apply", "relock"} /\ \A q \in Reloaders : q # r => reload'[q] = reload[q]
    BY <1>1, <2>1, ReloadToFacts
  <2> QED
    BY <2>1, <2>2, TogetherKept
<1>5. CASE ReconcileRows(r)
  <2>1. /\ UNCHANGED <<up, retention, active, current, sup>> /\ reload[r].pc = "apply"
        /\ rows' = reload[r].to.perm /\ ReloadTo(r, "rest") /\ UNCHANGED torn
    BY <1>5 DEF ReconcileRows
  <2>2. /\ reload'[r].pc = "rest" /\ reload'[r].to = reload[r].to
        /\ \A q \in Reloaders : q # r => reload'[q] = reload[q]
    BY <1>1, <2>1, ReloadToFacts
  <2>3. \A q \in Reloaders : reload[q].pc # "await" /\ reload'[q].pc # "await"
                             /\ (reload'[q].pc = "rest" => q = r)
    BY <1>2, <2>1, <2>2 DEF Holding
  <2> QED
    BY <2>1, <2>2, <2>3 DEF TogetherInv
<1>6. CASE Apply(r)
  <2>1. /\ UNCHANGED <<up, rows, current>> /\ reload[r].pc = "rest" /\ retention' = reload[r].to.name
    BY <1>6 DEF Apply
  <2>2. up = "ready" /\ rows = reload[r].to.perm /\ (current # None => sup[current].relay = active.relay)
    BY <2>1 DEF MuInv, TogetherInv
  <2>3. CASE SameRelay(reload[r].to) /\ active' = reload[r].to /\ Reloaded(r) /\ UNCHANGED sup
    <3>1. current' # None => sup'[current'].relay = active'.relay
      BY <2>1, <2>2, <2>3 DEF SameRelay
    <3> QED
      BY <2>1, <2>2, <2>3, <3>1, TogetherEnds DEF Holding
  <2>4. CASE sup' = Closing /\ ReloadTo(r, "await") /\ UNCHANGED active
    <3>1. /\ reload'[r].pc = "await" /\ reload'[r].to = reload[r].to
          /\ \A q \in Reloaders : q # r => reload'[q] = reload[q]
      BY <1>1, <2>1, <2>4, ReloadToFacts
    <3>2. \A q \in Reloaders : reload'[q].pc \in {"rest", "await"} => q = r
      BY <1>2, <2>1, <3>1 DEF Holding
    <3>3. current' # None => sup'[current'].relay = active'.relay
      BY <2>1, <2>2, <2>4, ClosingFacts DEF ConfigTypes, HostTypes
    <3> QED
      BY <2>1, <2>2, <3>1, <3>2, <3>3 DEF TogetherInv
  <2> QED
    BY <1>6, <2>3, <2>4 DEF Apply
<1>7. CASE ReplaceRelay(r)
  <2>1. /\ reload[r].pc = "await" /\ Start(reload[r].to) /\ active' = reload[r].to /\ Reloaded(r)
        /\ UNCHANGED <<up, rows, retention>>
    BY <1>7 DEF ReplaceRelay
  <2>2. rows = reload[r].to.perm /\ retention = reload[r].to.name
    BY <2>1 DEF MuInv, TogetherInv
  <2>3. sup'[current'].relay = active'.relay
    BY <1>1, <2>1, StartFacts
  <2> QED
    BY <2>1, <2>2, <2>3, TogetherEnds DEF Holding
<1>8. CASE ApplyFails(r)
  <2>1. /\ reload[r].pc \in {"apply", "rest"} /\ retention' = active.name /\ Reloaded(r)
        /\ ~torn' => rows' = active.perm
        /\ UNCHANGED <<up, active, sup, current>>
    BY <1>8 DEF ApplyFails, RolledBack
  <2>2. current # None => sup[current].relay = active.relay
    BY <2>1 DEF MuInv, TogetherInv
  <2> QED
    BY <2>1, <2>2, TogetherEnds DEF Holding
<1>9. CASE FullLock(r)
  <2>1. /\ UNCHANGED <<up, rows, torn, retention, active, current>> /\ reload[r].pc = "relock"
        /\ sup' = Closing /\ ReloadTo(r, "drain")
    BY <1>9 DEF FullLock
  <2>2. reload'[r].pc = "drain" /\ \A q \in Reloaders : q # r => reload'[q] = reload[q]
    BY <2>1, ReloadToFacts
  <2>3. \A g \in Supervisors : sup'[g].relay = sup[g].relay
    BY <2>1, ClosingFacts
  <2> QED
    BY <2>1, <2>2, <2>3, TogetherKept
<1>10. CASE FullOpen(r)
  <2>1. /\ reload[r].pc = "drain" /\ Start(Loaded) /\ active' = Loaded /\ Reloaded(r)
        /\ rows' = Loaded.perm /\ retention' = Loaded.name
    BY <1>10 DEF FullOpen
  <2>2. sup'[current'].relay = active'.relay
    BY <2>1, StartFacts, LoadedFacts
  <2> QED
    BY <2>1, <2>2, TogetherEnds DEF Holding
<1>11. CASE FullFails(r)
  BY <1>11 DEF FullFails, TogetherInv
<1> QED
  BY <1>3, <1>4, <1>5, <1>6, <1>7, <1>8, <1>9, <1>10, <1>11 DEF ReloadStep

LEMMA TogetherNext ==
    ASSUME ConfigTypes, ConfigTypes', MuInv, TogetherInv, [Next]_vars
    PROVE  TogetherInv'
<1>1. CASE UNCHANGED vars
  BY <1>1 DEF vars, host, threads, TogetherInv
<1>2. CASE Kill
  BY <1>2 DEF Kill, TogetherInv
<1> QED
  BY <1>1, <1>2, TogetherOthers, TogetherReload DEF Next, Environment

LEMMA TogetherInit == Init => TogetherInv
BY DEF Init, TogetherInv

-----------------------------------------------------------------------------
ConfigInv == ConfigTypes /\ MuInv /\ SupInv /\ RelayInv /\ TogetherInv

LEMMA ConfigInvariant == Spec => []ConfigInv
<1>1. Init => ConfigInv
  BY TypesInit, MuInit, SupInit, RelayInit, TogetherInit DEF ConfigInv
<1>2. ConfigInv /\ [Next]_vars => ConfigInv'
  BY TypesNext, MuNext, SupNext, RelayNext, TogetherNext DEF ConfigInv
<1> QED
  BY <1>1, <1>2, PTL DEF Spec

\* Whatever order reloads, event failures, closes and kills take: a supervisor
\* that relay_supervisor.go no longer counts as the host's has ended.
THEOREM SupervisorIsAlone == Spec => []OneSupervisor
<1>1. ConfigInv => OneSupervisor
  BY DEF ConfigInv, SupInv, OneSupervisor
<1> QED
  BY <1>1, ConfigInvariant, PTL

\* A relay in the file, its backup, activeConfig or a running supervisor was
\* there from the start or approved on the machine: no stale load, rollback or
\* half-finished save brings in one that was only asked for.
THEOREM RelayIsConfirmed == Spec => []RelayConfirmed
<1>1. ConfigInv => RelayConfirmed
  <2> SUFFICES ASSUME ConfigInv PROVE RelayConfirmed
    OBVIOUS
  <2>1. /\ file.main \in Configs \cup {Unreadable} /\ file.back \in Configs
        /\ active \in Configs \cup {Empty}
    BY DEF ConfigInv, ConfigTypes, FileTypes, HostTypes
  <2>2. \A c \in {file.main, file.back, active} : c.relay \in Known \/ c.legacy \in {"unreadable", "empty"}
    BY <2>1, ConfigFacts DEF ConfigInv, RelayInv, FileKnown, ActiveKnown
  <2>3. \A g \in Supervisors : sup[g].pc \notin {None, "ended"} => sup[g].relay \in Known
    BY DEF ConfigInv, RelayInv, SupsKnown
  <2> QED
    BY <2>2, <2>3 DEF RelayConfirmed, Known
<1> QED
  BY <1>1, ConfigInvariant, PTL

\* With the mutex free, a ready host's retention and supervisor follow
\* activeConfig, however many reloads overlapped or were rolled back half-way, and
\* the Workspace rows too, unless the last rollback could not write them.
THEOREM PartsRunTogether == Spec => []AppliedTogether
<1>1. ConfigInv => AppliedTogether
  <2> SUFFICES ASSUME ConfigInv, mu = None, up = "ready"
               PROVE  /\ retention = active.name /\ (~torn => rows = active.perm)
                      /\ current # None => sup[current].relay = active.relay
    BY DEF AppliedTogether
  <2>1. \A r \in Reloaders : reload[r].pc \notin {"rest", "await"}
    BY DEF ConfigInv, MuInv, Holding
  <2> QED
    BY <2>1 DEF ConfigInv, TogetherInv
<1> QED
  BY <1>1, ConfigInvariant, PTL
=============================================================================
