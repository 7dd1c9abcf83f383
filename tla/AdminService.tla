---------------------------- MODULE AdminService ----------------------------
(* The Server's administration API.  A paired control client signs a login   *)
(* challenge and gets a session; a destructive operation also needs an       *)
(* action challenge signed for exactly its method, path and body.  Requests  *)
(* pass an idempotency cache.  Between the checks of a request, its          *)
(* transaction, the clean-up after it and its audit record, other requests   *)
(* run, clients connect to the Hub or are revoked, calls fail and the        *)
(* Server restarts.                                                          *)
EXTENDS Naturals, FiniteSets

CONSTANTS
    Clients,      \* control clients, all paired and active at the start
    Ops,          \* operations: [by, what, target]
    Requests,     \* HTTP requests
    OpOf,         \* the operation a request asks for
    KeyOf,        \* its client and Idempotency-Key, the key of the cache
    MaxSessions,  \* bound: sessions created
    MaxRelays,    \* bound: relay connections opened
    MaxFaults     \* bound: failed calls, expiries and restarts

Keys == {KeyOf[r] : r \in Requests}
Kinds == {"revoke", "admit", "invite", "cancel"}

ASSUME AdminAssumption ==
    /\ Clients # {} /\ IsFiniteSet(Clients)
    /\ Ops \subseteq [by : Clients, what : Kinds, target : Clients]
    /\ OpOf \in [Requests -> Ops]
    /\ \A r, q \in Requests : KeyOf[r] = KeyOf[q] => OpOf[r].by = OpOf[q].by
    /\ MaxSessions \in Nat /\ MaxRelays \in Nat /\ MaxFaults \in Nat

VARIABLES
    active,    \* control_clients with status active
    settings,  \* server_security_settings: the revision
    open,      \* access requests that can be cancelled, named by their operation
    login,     \* createSession of a client: none, challenged, checked
    sessions,  \* admin sessions in memory: id and client
    drawn,     \* sessions created so far
    shaking,   \* clients whose relay connection is being authenticated
    relays,    \* clients with a registered relay connection
    stray,     \* of these, the ones revoked before it was registered
    dropping,  \* clients revoked by a Node whose connection is still to be closed
    dialed,    \* relay connections opened so far
    proof,     \* the session an operation's action challenge is pending for, 0 for none
    base,      \* the settings revision the signed body names, 0 before it is signed
    cache,     \* idempotency cache
    req,       \* requests: pc, the session in their cookie, their answer
    done,      \* operations whose transaction committed, with the times it did
    audit,     \* operations with an audit record of success
    late,      \* requests that were sent after the revocation of their client
    faults

rows == <<active, settings, open>>
hub == <<shaking, relays, stray, dropping, dialed>>
memory == <<login, sessions, proof, cache>>
vars == <<rows, memory, hub, drawn, base, req, done, audit, late, faults>>

None == "none"
Answers == {"ok", "refused", "failed", "unknown", "empty"}
PCs == {"idle", "gate", "waiting", "handler", "do", "after", "audit", "rejected", "finish", "answered"}
NoEntry == [state |-> None, run |-> None, answer |-> None]
NoRequest == [pc |-> "idle", session |-> 0, on |-> None, answer |-> None]

Entries == [state : {None, "running", "done"}, run : Requests \cup {None}, answer : Answers \cup {None}]
RequestRows == [pc : PCs, session : 0 .. MaxSessions, on : Requests \cup {None}, answer : Answers \cup {None}]

TypeOK ==
    /\ active \subseteq Clients /\ open \subseteq Ops
    /\ settings \in Nat
    /\ login \in [Clients -> {None, "challenged", "checked"}]
    /\ sessions \subseteq [id : 1 .. MaxSessions, of : Clients] /\ drawn \in 0 .. MaxSessions
    /\ shaking \subseteq Clients /\ relays \subseteq Clients /\ stray \subseteq relays
    /\ dropping \subseteq Clients
    /\ dialed \in 0 .. MaxRelays
    /\ proof \in [Ops -> 0 .. MaxSessions] /\ base \in [Ops -> Nat]
    /\ cache \in [Keys -> Entries]
    /\ req \in [Requests -> RequestRows]
    /\ done \in [Ops -> Nat] /\ audit \subseteq Ops /\ late \subseteq Requests
    /\ faults \in 0 .. MaxFaults

Init ==
    /\ active = Clients /\ settings = 1
    /\ open = {o \in Ops : o.what = "cancel"}
    /\ login = [c \in Clients |-> None] /\ sessions = {} /\ drawn = 0
    /\ shaking = {} /\ relays = {} /\ stray = {} /\ dropping = {} /\ dialed = 0
    /\ proof = [o \in Ops |-> 0] /\ base = [o \in Ops |-> 0]
    /\ cache = [k \in Keys |-> NoEntry]
    /\ req = [r \in Requests |-> NoRequest]
    /\ done = [o \in Ops |-> 0] /\ audit = {} /\ late = {} /\ faults = 0

By(r) == OpOf[r].by
At(r, pc) == req[r].pc = pc
Go(r, pc) == req' = [req EXCEPT ![r].pc = pc]
Reply(r, answer) == req' = [req EXCEPT ![r].pc = "answered", ![r].answer = answer]
Fault == faults < MaxFaults /\ faults' = faults + 1

-----------------------------------------------------------------------------
(* Sessions. *)

\* issueChallenge: only for an active client.
IssueChallenge(c) ==
    /\ login[c] = None /\ c \in active /\ drawn < MaxSessions
    /\ login' = [login EXCEPT ![c] = "challenged"]
    /\ UNCHANGED <<rows, hub, sessions, proof, cache, drawn, base, req, done, audit, late, faults>>

\* createSession uses the challenge up, then verifies the signature and reads
\* the client's status ...
CheckChallenge(c) ==
    /\ login[c] = "challenged"
    /\ login' = [login EXCEPT ![c] = IF c \in active THEN "checked" ELSE None]
    /\ UNCHANGED <<rows, hub, sessions, proof, cache, drawn, base, req, done, audit, late, faults>>

\* ... and adds the session later.
CreateSession(c) ==
    /\ login[c] = "checked" /\ drawn < MaxSessions
    /\ login' = [login EXCEPT ![c] = None]
    /\ drawn' = drawn + 1
    /\ sessions' = sessions \cup {[id |-> drawn + 1, of |-> c]}
    /\ UNCHANGED <<rows, hub, proof, cache, base, req, done, audit, late, faults>>

\* closeClientSessions.
Closed(c) == {s \in sessions : s.of # c}

\* requireSession, as a likely mistake would have it.
AnySession(id, c) == [id |-> id, of |-> c] \in sessions

\* requireSession: the token is known, and the client it belongs to still active.
RequireSession(id, c) == [id |-> id, of |-> c] \in sessions /\ c \in active

\* A session that is presented by a client no longer active closes all of them.
Presented(id, c) == IF RequireSession(id, c) \/ c \in active THEN sessions ELSE Closed(c)

\* The read-only views pass requireSession and change nothing else.
ReadView(s) ==
    /\ s \in sessions
    /\ sessions' = Presented(s.id, s.of)
    /\ UNCHANGED <<rows, hub, login, proof, cache, drawn, base, req, done, audit, late, faults>>

\* deleteSession, or the idle or maximal time of a session is over.
DeleteSession(s) ==
    /\ s \in sessions
    /\ sessions' = sessions \ {s}
    /\ Fault
    /\ UNCHANGED <<rows, hub, login, proof, cache, drawn, base, req, done, audit, late>>

-----------------------------------------------------------------------------
(* Connections to the Hub. *)

UnchangedByHub == <<rows, memory, drawn, base, req, done, audit, late, faults>>

\* ControlHandler reads the client's row, then the connection is authenticated ...
ControlHandler(c) ==
    /\ dialed < MaxRelays /\ c \in active \ shaking
    /\ shaking' = shaking \cup {c} /\ dialed' = dialed + 1
    /\ UNCHANGED <<UnchangedByHub, relays, stray, dropping>>

\* ... and registered without a second look; an older one is closed.
Register(c) ==
    /\ c \in shaking
    /\ shaking' = shaking \ {c} /\ relays' = relays \cup {c}
    /\ stray' = IF c \in active THEN stray \ {c} ELSE stray \cup {c}
    /\ UNCHANGED <<UnchangedByHub, dropping, dialed>>

\* The signature does not verify, or the handshake takes too long.
AuthenticationFails(c) ==
    /\ c \in shaking
    /\ shaking' = shaking \ {c}
    /\ UNCHANGED <<UnchangedByHub, relays, stray, dropping, dialed>>

\* The browser goes away.
Unregister(c) ==
    /\ c \in relays
    /\ relays' = relays \ {c} /\ stray' = stray \ {c}
    /\ UNCHANGED <<UnchangedByHub, shaking, dropping, dialed>>

\* disconnect
DisconnectControl(c) ==
    /\ relays' = relays \ {c} /\ stray' = stray \ {c}
    /\ UNCHANGED <<shaking, dialed>>

\* PairingService.revokeClient: a Node revokes a client, the last one too, since
\* Store.RevokeControlClient counts nothing; the sessions stay ...
NodeRevokesClient(c) ==
    /\ c \in active
    /\ active' = active \ {c} /\ dropping' = dropping \cup {c}
    /\ UNCHANGED <<settings, open, memory, shaking, relays, stray, dialed,
                   drawn, base, req, done, audit, late, faults>>

\* ... and then the Hub closes its connection.
NodeDisconnectsClient(c) ==
    /\ c \in dropping
    /\ dropping' = dropping \ {c}
    /\ DisconnectControl(c)
    /\ UNCHANGED UnchangedByHub

-----------------------------------------------------------------------------
(* A request. *)

HighRisk(o) == o.what # "cancel"

\* issueActionChallenge for the session that asks.  The browser signs it with
\* the revision it saw last; the body is fixed from then on.
IssueActionChallenge(o) ==
    /\ HighRisk(o) /\ base[o] = 0
    /\ \E s \in sessions :
          /\ s.of = o.by /\ RequireSession(s.id, o.by)
          /\ proof' = [proof EXCEPT ![o] = s.id]
    /\ \E seen \in 1 .. settings : base' = [base EXCEPT ![o] = seen]
    /\ UNCHANGED <<rows, hub, login, sessions, cache, drawn, req, done, audit, late, faults>>

\* cleanupLocked, or a challenge older than a minute.
ActionChallengeExpires(o) ==
    /\ proof[o] # 0
    /\ proof' = [proof EXCEPT ![o] = 0]
    /\ Fault
    /\ UNCHANGED <<rows, hub, login, sessions, cache, drawn, base, req, done, audit, late>>

\* idempotencyMiddleware: requireMutation comes first.
Send(r) ==
    LET c == By(r) IN
    /\ At(r, "idle")
    /\ HighRisk(OpOf[r]) => base[OpOf[r]] # 0
    /\ \E id \in 1 .. drawn :
          /\ req' = [req EXCEPT ![r] = IF RequireSession(id, c)
                                       THEN [NoRequest EXCEPT !.pc = "gate", !.session = id]
                                       ELSE [NoRequest EXCEPT !.pc = "answered", !.session = id, !.answer = "refused"]]
          /\ sessions' = Presented(id, c)
    /\ late' = IF c \in active THEN late ELSE late \cup {r}
    /\ UNCHANGED <<rows, hub, login, proof, cache, drawn, base, done, audit, faults>>

\* The digest is of the body alone, and a cancellation has an empty one: what it
\* cancels is in the path.
SameBody(k, r) ==
    \/ OpOf[cache[k].run] = OpOf[r]
    \/ ~HighRisk(OpOf[cache[k].run]) /\ ~HighRisk(OpOf[r])

\* The cache is looked up: another body conflicts, a running or finished
\* execution is waited for, otherwise this request executes.

LookUp(r) ==
    LET k == KeyOf[r] IN
    /\ At(r, "gate")
    /\ \/ /\ cache[k].state # None /\ ~SameBody(k, r)
          /\ Reply(r, "refused") /\ UNCHANGED cache
       \/ /\ cache[k].state # None /\ SameBody(k, r)
          /\ req' = [req EXCEPT ![r].pc = "waiting", ![r].on = cache[k].run]
          /\ UNCHANGED cache
       \/ /\ cache[k].state = None
          /\ cache' = [cache EXCEPT ![k] = [state |-> "running", run |-> r, answer |-> None]]
          /\ Go(r, "handler")
    /\ UNCHANGED <<rows, hub, login, sessions, proof, drawn, base, done, audit, late, faults>>

\* The entry as it is read again: gone, or with the answer it holds.  It may be
\* one that another request made in the meantime, whose body is not compared; it
\* holds no status yet while that runs, and writing status 0 ends the connection
\* without an answer.
Found(k) ==
    CASE cache[k].state = None -> "unknown"
      [] cache[k].state = "running" -> "empty"
      [] cache[k].state = "done" -> cache[k].answer

\* The execution waited for has ended; the entry is looked up again under the lock.
WakeUp(r) ==
    LET k == KeyOf[r] IN
    /\ At(r, "waiting")
    /\ ~(cache[k].state = "running" /\ cache[k].run = req[r].on)
    /\ Reply(r, Found(k))
    /\ UNCHANGED <<rows, hub, memory, drawn, base, done, audit, late, faults>>

\* The caller goes away while it waits.
GiveUp(r) ==
    /\ At(r, "waiting")
    /\ Reply(r, "refused")
    /\ Fault
    /\ UNCHANGED <<rows, hub, memory, drawn, base, done, audit, late>>

\* The challenge of a proof that was used, as a likely mistake would leave it.
StillPending(o) == proof

\* requireHighRisk deletes the challenge whether the proof holds or not.
UsedUp(o) == [proof EXCEPT ![o] = 0]

\* requireMutation again, and requireHighRisk: the challenge is pending for the
\* session of the request, and the client is still active.
Authorize(r) ==
    LET o == OpOf[r]
        id == req[r].session
        passed == /\ RequireSession(id, o.by)
                  /\ HighRisk(o) => proof[o] = id
    IN  /\ At(r, "handler")
        /\ proof' = IF HighRisk(o) /\ RequireSession(id, o.by) THEN UsedUp(o) ELSE proof
        /\ sessions' = Presented(id, o.by)
        /\ req' = [req EXCEPT ![r].pc = IF passed THEN "do" ELSE "finish", ![r].answer = IF passed THEN None ELSE "refused"]
        /\ UNCHANGED <<rows, hub, login, cache, drawn, base, done, audit, late, faults>>

\* AdminRevokeControlClient counts the active clients in its transaction.
Revocable(c) == Cardinality(active) > 1 /\ c \in active

\* Applicable, as a likely mistake would have it.
ApplicableStale(o) ==
    CASE o.what = "revoke" -> Revocable(o.target)
      [] o.what = "admit" -> TRUE
      [] o.what = "invite" -> TRUE
      [] o.what = "cancel" -> o \in open

\* What the transaction of an operation needs: UpdateSecuritySettings that the
\* revision is the one in the body, CancelAdminAccessRequest an open request.
Applicable(o) ==
    CASE o.what = "revoke" -> Revocable(o.target)
      [] o.what = "admit" -> settings = base[o]
      [] o.what = "invite" -> TRUE
      [] o.what = "cancel" -> o \in open

Transact(r) ==
    LET o == OpOf[r] IN
    /\ At(r, "do")
    /\ IF Applicable(o)
       THEN /\ active' = IF o.what = "revoke" THEN active \ {o.target} ELSE active
            /\ settings' = IF o.what = "admit" THEN settings + 1 ELSE settings
            /\ open' = open \ {o}
            /\ done' = [done EXCEPT ![o] = @ + 1]
            /\ Go(r, "after")
       ELSE Go(r, "rejected") /\ UNCHANGED <<rows, done>>
    /\ UNCHANGED <<memory, hub, drawn, base, audit, late, faults>>

\* The transaction fails: finishMutation answers a 5xx.
TransactFails(r) ==
    /\ At(r, "do")
    /\ req' = [req EXCEPT ![r].pc = "finish", ![r].answer = "failed"]
    /\ Fault
    /\ UNCHANGED <<rows, hub, memory, drawn, base, done, audit, late>>

\* After a revocation the client's connection and sessions are closed.
Afterwards(r) ==
    LET o == OpOf[r] IN
    /\ At(r, "after")
    /\ IF o.what = "revoke"
       THEN sessions' = Closed(o.target) /\ DisconnectControl(o.target) /\ UNCHANGED dropping
       ELSE UNCHANGED <<sessions, hub>>
    /\ Go(r, "audit")
    /\ UNCHANGED <<rows, login, proof, cache, drawn, base, done, audit, late, faults>>

\* finishMutation of an operation that was refused: the audit of a refusal may
\* fail unnoticed.
Reject(r) ==
    /\ At(r, "rejected")
    /\ req' = [req EXCEPT ![r].pc = "finish", ![r].answer = "refused"]
    /\ UNCHANGED <<rows, hub, memory, drawn, base, done, audit, late, faults>>

\* writeAudit; without the record there is no success.
Audit(r) ==
    /\ At(r, "audit")
    /\ audit' = audit \cup {OpOf[r]}
    /\ req' = [req EXCEPT ![r].pc = "finish", ![r].answer = "ok"]
    /\ UNCHANGED <<rows, hub, memory, drawn, base, done, late, faults>>

\* AuditFails, as a likely mistake would have it.
AuditIgnored(r) ==
    /\ At(r, "audit")
    /\ req' = [req EXCEPT ![r].pc = "finish", ![r].answer = "ok"]
    /\ Fault
    /\ UNCHANGED <<rows, hub, memory, drawn, base, done, audit, late>>

\* The record cannot be saved, or the old ones not purged after it.
AuditFails(r) ==
    /\ At(r, "audit")
    /\ audit' \in {audit, audit \cup {OpOf[r]}}
    /\ req' = [req EXCEPT ![r].pc = "finish", ![r].answer = "failed"]
    /\ Fault
    /\ UNCHANGED <<rows, hub, memory, drawn, base, done, late>>

\* The middleware stores an answer below 500 and forgets any other.
Finish(r) ==
    LET k == KeyOf[r] IN
    /\ At(r, "finish")
    /\ cache' = [cache EXCEPT ![k] = IF req[r].answer = "failed" THEN NoEntry
                                     ELSE [@ EXCEPT !.state = "done", !.answer = req[r].answer]]
    /\ Go(r, "answered")
    /\ UNCHANGED <<rows, hub, login, sessions, proof, drawn, base, done, audit, late, faults>>

\* Ten minutes later the cached answer is dropped.
CacheExpires(k) ==
    /\ cache[k].state = "done"
    /\ cache' = [cache EXCEPT ![k] = NoEntry]
    /\ Fault
    /\ UNCHANGED <<rows, hub, login, sessions, proof, drawn, base, req, done, audit, late>>

\* A restart loses what is in memory and every request under way.
Restart ==
    /\ login' = [c \in Clients |-> None] /\ sessions' = {}
    /\ proof' = [o \in Ops |-> 0] /\ cache' = [k \in Keys |-> NoEntry]
    /\ shaking' = {} /\ relays' = {} /\ stray' = {} /\ dropping' = {}
    /\ req' = [r \in Requests |-> IF req[r].pc \in {"idle", "answered"} THEN req[r]
                                  ELSE [req[r] EXCEPT !.pc = "answered", !.answer = "failed"]]
    /\ Fault
    /\ UNCHANGED <<rows, dialed, drawn, base, done, audit, late>>

-----------------------------------------------------------------------------
SessionStep ==
    \/ \E c \in Clients : IssueChallenge(c) \/ CheckChallenge(c) \/ CreateSession(c)
    \/ \E c \in Clients : ControlHandler(c) \/ Register(c) \/ AuthenticationFails(c) \/ Unregister(c)
    \/ \E c \in Clients : NodeRevokesClient(c) \/ NodeDisconnectsClient(c)
    \/ \E s \in sessions : ReadView(s) \/ DeleteSession(s)
    \/ \E o \in Ops : IssueActionChallenge(o) \/ ActionChallengeExpires(o)
    \/ \E k \in Keys : CacheExpires(k)
    \/ Restart

RequestStep(r) ==
    \/ Send(r)
    \/ LookUp(r)
    \/ WakeUp(r)
    \/ GiveUp(r)
    \/ Authorize(r)
    \/ Transact(r)
    \/ TransactFails(r)
    \/ Afterwards(r)
    \/ Reject(r)
    \/ Audit(r)
    \/ AuditFails(r)
    \/ Finish(r)

Next == SessionStep \/ \E r \in Requests : RequestStep(r)

Spec == Init /\ [][Next]_vars

-----------------------------------------------------------------------------
\* No change of the settings is lost: two that took effect were never made from
\* the same revision, although both may have been signed and authorized before
\* either transaction.
NoLostUpdate ==
    \A o, p \in Ops :
        /\ o.what = "admit" /\ p.what = "admit" /\ o # p
        /\ done[o] > 0 /\ done[p] > 0
        => base[o] # base[p]

\* One signature, one execution: a destructive operation takes effect at most
\* once, although its request is repeated under the same or another key, its
\* cached answer expires or the Server forgets it.
CarriedOutOnce ==
    \A o \in Ops : done[o] <= 1

\* An operation sent under a key took effect and has its audit record.
Recorded(k) ==
    \E r \in Requests : KeyOf[r] = k /\ done[OpOf[r]] = 1 /\ OpOf[r] \in audit

\* A success that anybody was told of, the first caller or a repeated one, is the
\* success of an operation under that key which took effect and has its audit
\* record.  (A client that uses a key for one operation only is told of that one.)
SuccessIsRecorded ==
    \A r \in Requests : req[r].answer = "ok" => Recorded(KeyOf[r])

\* What a revoked client sends comes to nothing, also in a session that was
\* created while the revocation closed the others, and in the ones a Node's
\* revocation leaves open; and once the revocation has been audited, or answered
\* to the Node, its relay connection is gone, unless that was still being
\* authenticated when the client was revoked.
RevokedIsLockedOut ==
    /\ \A r \in late : req[r].pc \notin {"do", "after", "audit"}
    /\ \A c \in relays \ (active \cup stray \cup dropping) :
          \E r \in Requests : At(r, "after") /\ OpOf[r].what = "revoke" /\ OpOf[r].target = c

=============================================================================
