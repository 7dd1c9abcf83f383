------------------------- MODULE AdminServiceProofs -------------------------
(***************************************************************************)
(* Proofs about AdminService for any clients, operations and requests, and *)
(* any number of sessions, connections and faults; then about the Server's *)
(* files that administration works on (ServerFiles), for any sequence of   *)
(* commands, providers, faults and kills.                                  *)
(***************************************************************************)
EXTENDS AdminService, ServerFiles, FiniteSetTheorems, TLAPS

-----------------------------------------------------------------------------
(* The parts of the inductive invariant *)

\* A request that passed the gate names a session.
Named == \A r \in Requests : req[r].pc \in {"gate", "handler"} => req[r].session # 0

\* A high-risk operation has its one permit in one place: not signed yet,
\* pending as a challenge, held by the one request that may execute, or spent.
Permitted(o) ==
    /\ base[o] = 0 => proof[o] = 0 /\ done[o] = 0
    /\ base[o] = 0 \/ proof[o] # 0 =>
          \A r \in Requests : OpOf[r] = o => req[r].pc # "do"
    /\ proof[o] # 0 => done[o] = 0
    /\ \A r \in Requests : OpOf[r] = o /\ req[r].pc = "do" => done[o] = 0
    /\ \A r, q \in Requests :
          OpOf[r] = o /\ OpOf[q] = o /\ req[r].pc = "do" /\ req[q].pc = "do" => r = q

OnceInv ==
    /\ settings # 0
    /\ Named
    /\ \A o \in Ops : done[o] <= 1
    /\ \A o \in Ops : HighRisk(o) => Permitted(o)
    /\ \A o \in Ops : ~HighRisk(o) /\ o \in open => done[o] = 0

\* An execution that committed and has not answered yet took effect, and every
\* success, told or cached, has its record.
RecordInv ==
    /\ \A r \in Requests : req[r].pc \in {"after", "audit"} => done[OpOf[r]] = 1
    /\ \A k \in Keys : cache[k].answer = "ok" => Recorded(k)
    /\ SuccessIsRecorded

\* A request sent after the revocation of its client finds no session.
LateInv == \A r \in late : By(r) \notin active

\* A change that took effect was made from a revision that is over.
UpdateInv ==
    /\ \A o \in Ops : o.what = "admit" /\ done[o] > 0 => base[o] < settings
    /\ NoLostUpdate

AdminInv ==
    /\ TypeOK
    /\ UpdateInv
    /\ OnceInv
    /\ RecordInv
    /\ LateInv
    /\ RevokedIsLockedOut

-----------------------------------------------------------------------------
(* Typing *)

LEMMA KeyType == \A r \in Requests : KeyOf[r] \in Keys /\ OpOf[r] \in Ops /\ By(r) \in Clients
BY AdminAssumption DEF Keys, By

LEMMA NoRequestType == NoRequest \in RequestRows /\ NoEntry \in Entries
BY AdminAssumption DEF NoRequest, NoEntry, RequestRows, Entries, PCs, None

\* The ways the row of a request changes keep its type.
LEMMA RequestMoves ==
    ASSUME TypeOK, NEW r \in Requests, NEW pc \in PCs, NEW answer \in Answers \cup {None},
           NEW q \in Requests \cup {None}
    PROVE  /\ [req EXCEPT ![r].pc = pc] \in [Requests -> RequestRows]
           /\ [req EXCEPT ![r].pc = pc, ![r].answer = answer] \in [Requests -> RequestRows]
           /\ [req EXCEPT ![r].pc = pc, ![r].on = q] \in [Requests -> RequestRows]
<1>1. req[r] \in RequestRows /\ req \in [Requests -> RequestRows]
  BY DEF TypeOK
<1>2. /\ [req[r] EXCEPT !.pc = pc] \in RequestRows
      /\ [req[r] EXCEPT !.pc = pc, !.answer = answer] \in RequestRows
      /\ [req[r] EXCEPT !.pc = pc, !.on = q] \in RequestRows
  BY <1>1 DEF RequestRows
<1> QED
  BY <1>1, <1>2

LEMMA InitTypeOK == Init => TypeOK
<1> SUFFICES ASSUME Init PROVE TypeOK
  OBVIOUS
<1>1. open \subseteq Ops /\ proof \in [Ops -> 0 .. MaxSessions] /\ base \in [Ops -> Nat]
      /\ 0 \in 0 .. MaxSessions /\ 0 \in 0 .. MaxRelays /\ 0 \in 0 .. MaxFaults
  BY AdminAssumption DEF Init
<1>2. /\ login \in [Clients -> {None, "challenged", "checked"}]
      /\ cache \in [Keys -> Entries]
      /\ req \in [Requests -> RequestRows]
  BY NoRequestType DEF Init
<1> QED
  BY <1>1, <1>2 DEF Init, TypeOK

LEMMA NextTypeOK == TypeOK /\ [Next]_vars => TypeOK'
<1> SUFFICES ASSUME TypeOK, [Next]_vars PROVE TypeOK'
  OBVIOUS
<1> USE DEF rows, hub, memory, UnchangedByHub
<1>0. MaxSessions \in Nat /\ MaxRelays \in Nat /\ MaxFaults \in Nat
  BY AdminAssumption
<1>1. ASSUME NEW c \in Clients, IssueChallenge(c) \/ CheckChallenge(c) PROVE TypeOK'
  BY <1>0, <1>1 DEF TypeOK, IssueChallenge, CheckChallenge
<1>2. ASSUME NEW c \in Clients, CreateSession(c) PROVE TypeOK'
  <2>1. drawn + 1 \in 1 .. MaxSessions
    BY <1>0, <1>2 DEF TypeOK, CreateSession
  <2> QED
    BY <1>0, <1>2, <2>1 DEF TypeOK, CreateSession
<1>3. ASSUME NEW c \in Clients,
             ControlHandler(c) \/ Register(c) \/ AuthenticationFails(c) \/ Unregister(c)
      PROVE  TypeOK'
  BY <1>0, <1>3 DEF TypeOK, ControlHandler, Register, AuthenticationFails, Unregister
<1>18. ASSUME NEW c \in Clients, NodeRevokesClient(c) \/ NodeDisconnectsClient(c) PROVE TypeOK'
  BY <1>0, <1>18 DEF TypeOK, NodeRevokesClient, NodeDisconnectsClient, DisconnectControl
<1>4. ASSUME NEW x \in sessions, ReadView(x) \/ DeleteSession(x) PROVE TypeOK'
  BY <1>0, <1>4 DEF TypeOK, ReadView, DeleteSession, Presented, Closed, Fault
<1>5. ASSUME NEW o \in Ops, IssueActionChallenge(o) \/ ActionChallengeExpires(o) PROVE TypeOK'
  BY <1>0, <1>5 DEF TypeOK, IssueActionChallenge, ActionChallengeExpires, Fault
<1>6. ASSUME NEW k \in Keys, CacheExpires(k) PROVE TypeOK'
  BY <1>0, <1>6, NoRequestType DEF TypeOK, CacheExpires, Fault
<1>7. CASE Restart
  <2>1. req' \in [Requests -> RequestRows]
    <3>1. \A r \in Requests : /\ req[r] \in RequestRows
                              /\ [req[r] EXCEPT !.pc = "answered", !.answer = "failed"] \in RequestRows
      BY <1>0 DEF TypeOK, RequestRows, PCs, Answers
    <3> QED
      BY <1>0, <1>7, <3>1 DEF TypeOK, Restart
  <2>2. /\ login' \in [Clients -> {None, "challenged", "checked"}]
        /\ cache' \in [Keys -> Entries]
    BY <1>7, NoRequestType DEF Restart
  <2>3. proof' \in [Ops -> 0 .. MaxSessions]
    <3>1. 0 \in 0 .. MaxSessions
      BY <1>0
    <3>2. proof' = [o \in Ops |-> 0]
      BY <1>7 DEF Restart
    <3> QED
      BY <3>1, <3>2
  <2>4. faults' \in 0 .. MaxFaults
    <3>1. faults < MaxFaults /\ faults' = faults + 1
      BY <1>7 DEF Restart, Fault
    <3>2. faults \in 0 .. MaxFaults
      BY DEF TypeOK
    <3> QED
      BY <1>0, <3>1, <3>2
  <2> QED
    BY <1>7, <2>1, <2>2, <2>3, <2>4 DEF TypeOK, Restart
<1>8. ASSUME NEW r \in Requests, Send(r) PROVE TypeOK'
  <2>1. PICK id \in 1 .. drawn :
          /\ req' = [req EXCEPT ![r] = IF RequireSession(id, By(r))
                          THEN [NoRequest EXCEPT !.pc = "gate", !.session = id]
                          ELSE [NoRequest EXCEPT !.pc = "answered", !.session = id, !.answer = "refused"]]
          /\ sessions' = Presented(id, By(r))
    BY <1>0, <1>8 DEF TypeOK, Send
  <2>2. id \in 0 .. MaxSessions
    BY <1>0 DEF TypeOK
  <2>3. /\ [NoRequest EXCEPT !.pc = "gate", !.session = id] \in RequestRows
        /\ [NoRequest EXCEPT !.pc = "answered", !.session = id, !.answer = "refused"] \in RequestRows
    BY <1>0, <2>2 DEF TypeOK, NoRequest, RequestRows, PCs, Answers
  <2>4. sessions' \subseteq [id : 1 .. MaxSessions, of : Clients]
    BY <1>0, <2>1 DEF TypeOK, Presented, Closed
  <2>5. req' \in [Requests -> RequestRows]
    BY <1>0, <2>1, <2>3 DEF TypeOK
  <2> QED
    BY <1>0, <1>8, <2>4, <2>5 DEF TypeOK, Send
<1>9. ASSUME NEW r \in Requests, LookUp(r) PROVE TypeOK'
  <2>1. KeyOf[r] \in Keys /\ cache[KeyOf[r]].run \in Requests \cup {None}
    BY <1>0, KeyType DEF TypeOK, Entries
  <2>2. {"answered", "waiting", "handler"} \subseteq PCs /\ "refused" \in Answers
    BY <1>0 DEF TypeOK, PCs, Answers
  <2>3. req' \in [Requests -> RequestRows]
    <3>1. CASE Reply(r, "refused")
      BY <2>1, <2>2, <3>1, RequestMoves DEF Reply
    <3>2. CASE req' = [req EXCEPT ![r].pc = "waiting", ![r].on = cache[KeyOf[r]].run]
      BY <2>1, <2>2, <3>2, RequestMoves
    <3>3. CASE Go(r, "handler")
      BY <2>1, <2>2, <3>3, RequestMoves DEF Go
    <3> QED
      BY <1>9, <3>1, <3>2, <3>3 DEF LookUp
  <2>4. cache' \in [Keys -> Entries]
    <3>1. [state |-> "running", run |-> r, answer |-> None] \in Entries
      BY <1>0 DEF TypeOK, Entries
    <3> QED
      BY <1>0, <1>9, <3>1 DEF TypeOK, LookUp
  <2> QED
    BY <1>0, <1>9, <2>3, <2>4 DEF TypeOK, LookUp
<1>10. ASSUME NEW r \in Requests, WakeUp(r) PROVE TypeOK'
  <2>1. Found(KeyOf[r]) \in Answers \cup {None}
    BY <1>0, KeyType DEF TypeOK, Found, Answers, Entries, None
  <2>2. req' \in [Requests -> RequestRows]
    BY <1>10, <2>1, RequestMoves DEF WakeUp, Reply, PCs
  <2> QED
    BY <1>0, <1>10, <2>2 DEF TypeOK, WakeUp
<1>11. ASSUME NEW r \in Requests, GiveUp(r) \/ TransactFails(r) \/ Reject(r)
       PROVE  TypeOK'
  <2>1. {"answered", "finish"} \subseteq PCs /\ {"refused", "failed"} \subseteq Answers
    BY <1>0 DEF TypeOK, PCs, Answers
  <2>2. req' \in [Requests -> RequestRows]
    <3>1. CASE GiveUp(r)
      BY <2>1, <3>1, RequestMoves DEF GiveUp, Reply
    <3>2. CASE TransactFails(r)
      BY <2>1, <3>2, RequestMoves DEF TransactFails
    <3>3. CASE Reject(r)
      BY <2>1, <3>3, RequestMoves DEF Reject
    <3> QED
      BY <1>11, <3>1, <3>2, <3>3
  <2> QED
    BY <1>0, <1>11, <2>2 DEF TypeOK, GiveUp, TransactFails, Reject, Fault
<1>12. ASSUME NEW r \in Requests, Authorize(r) PROVE TypeOK'
  <2>1. req' \in [Requests -> RequestRows]
    <3>1. PICK pc \in {"do", "finish"}, answer \in {None, "refused"} :
              req' = [req EXCEPT ![r].pc = pc, ![r].answer = answer]
      BY <1>12 DEF Authorize
    <3>2. pc \in PCs /\ answer \in Answers \cup {None}
      BY DEF PCs, Answers
    <3> QED
      BY <3>1, <3>2, RequestMoves
  <2>2. sessions' \subseteq [id : 1 .. MaxSessions, of : Clients]
    BY <1>0, <1>12 DEF TypeOK, Authorize, Presented, Closed
  <2>3. proof' \in [Ops -> 0 .. MaxSessions]
    <3>1. [proof EXCEPT ![OpOf[r]] = 0] \in [Ops -> 0 .. MaxSessions]
      <4>1. 0 \in 0 .. MaxSessions /\ proof \in [Ops -> 0 .. MaxSessions]
        BY <1>0 DEF TypeOK
      <4> QED
        BY <4>1
    <3> QED
      BY <1>12, <3>1 DEF TypeOK, Authorize, UsedUp
  <2> QED
    BY <1>0, <1>12, <2>1, <2>2, <2>3 DEF TypeOK, Authorize
<1>13. ASSUME NEW r \in Requests, Transact(r) PROVE TypeOK'
  <2>1. req' \in [Requests -> RequestRows]
    <3>1. PICK pc \in {"after", "rejected"} : req' = [req EXCEPT ![r].pc = pc]
      BY <1>13 DEF Transact, Go
    <3>2. pc \in PCs
      BY DEF PCs
    <3> QED
      BY <3>1, <3>2, RequestMoves
  <2>2. done' \in [Ops -> Nat] /\ active' \subseteq Clients /\ open' \subseteq Ops /\ settings' \in Nat
    BY <1>0, <1>13, KeyType DEF TypeOK, Transact
  <2> QED
    BY <1>0, <1>13, <2>1, <2>2 DEF TypeOK, Transact
<1>14. ASSUME NEW r \in Requests, Afterwards(r) PROVE TypeOK'
  <2>1. req' \in [Requests -> RequestRows]
    BY <1>14, RequestMoves DEF Afterwards, Go, PCs
  <2>2. /\ sessions' \subseteq [id : 1 .. MaxSessions, of : Clients]
        /\ shaking' \subseteq Clients /\ relays' \subseteq Clients /\ stray' \subseteq relays'
        /\ dialed' = dialed
    BY <1>0, <1>14 DEF TypeOK, Afterwards, DisconnectControl, Closed
  <2> QED
    BY <1>0, <1>14, <2>1, <2>2 DEF TypeOK, Afterwards
<1>15. ASSUME NEW r \in Requests, Audit(r) \/ AuditFails(r) PROVE TypeOK'
  <2>1. req' \in [Requests -> RequestRows]
    <3>1. PICK answer \in {"ok", "failed"} :
              req' = [req EXCEPT ![r].pc = "finish", ![r].answer = answer]
      BY <1>15 DEF Audit, AuditFails
    <3>2. "finish" \in PCs /\ answer \in Answers
      BY DEF PCs, Answers
    <3> QED
      BY <3>1, <3>2, RequestMoves
  <2>2. audit' \subseteq Ops
    BY <1>0, <1>15, KeyType DEF TypeOK, Audit, AuditFails
  <2> QED
    BY <1>0, <1>15, <2>1, <2>2 DEF TypeOK, Audit, AuditFails, Fault
<1>16. ASSUME NEW r \in Requests, Finish(r) PROVE TypeOK'
  <2>1. req' \in [Requests -> RequestRows]
    BY <1>16, RequestMoves DEF Finish, Go, PCs
  <2>2. cache' \in [Keys -> Entries]
    <3>1. cache[KeyOf[r]] \in Entries /\ req[r] \in RequestRows
      BY KeyType DEF TypeOK
    <3>2. req[r].answer \in Answers \cup {None}
      BY <3>1 DEF RequestRows
    <3>3. [cache[KeyOf[r]] EXCEPT !.state = "done", !.answer = req[r].answer] \in Entries
      BY <3>1, <3>2 DEF Entries
    <3> QED
      BY <1>16, <3>3, NoRequestType, KeyType DEF TypeOK, Finish
  <2> QED
    BY <1>0, <1>16, <2>1, <2>2 DEF TypeOK, Finish
<1>17. CASE UNCHANGED vars
  BY <1>0, <1>17 DEF TypeOK, vars
<1> QED
  BY <1>1, <1>2, <1>3, <1>4, <1>5, <1>6, <1>7, <1>8, <1>9, <1>10, <1>11, <1>12,
     <1>13, <1>14, <1>15, <1>16, <1>17, <1>18
  DEF Next, SessionStep, RequestStep

-----------------------------------------------------------------------------
(* Which step changes what *)

\* The settings, the open requests and the effects change in transactions only,
\* and the clients in these and when a Node revokes one.
LEMMA RowsMove ==
    ASSUME [Next]_vars
    PROVE  \/ UNCHANGED <<active, settings, open, done>>
           \/ \E r \in Requests : Transact(r)
           \/ UNCHANGED <<settings, open, done>> /\ \E c \in Clients : NodeRevokesClient(c)
BY DEF Next, SessionStep, RequestStep, IssueChallenge, CheckChallenge, CreateSession,
   ControlHandler, Register, AuthenticationFails, Unregister,
   NodeRevokesClient, NodeDisconnectsClient, ReadView, DeleteSession,
   IssueActionChallenge, ActionChallengeExpires, CacheExpires, Restart, Send, LookUp, WakeUp,
   GiveUp, Authorize, TransactFails, Afterwards, Reject, Audit, AuditFails, Finish, vars, rows,
   memory, UnchangedByHub

\* What a step may do to the row of a request.
LEMMA RequestsMove ==
    ASSUME TypeOK, [Next]_vars, NEW r \in Requests
    PROVE  \/ req'[r] = req[r]
           \/ Send(r) /\ req'[r].pc \in {"gate", "answered"} /\ req'[r].session # 0
                      /\ req'[r].answer \in {None, "refused"}
                      /\ (By(r) \notin active => req'[r].pc = "answered")
           \/ LookUp(r) /\ req'[r].pc \in {"waiting", "handler"} /\ req[r].pc = "gate"
                        /\ req'[r].session = req[r].session /\ req'[r].answer = req[r].answer
           \/ WakeUp(r) /\ req'[r].pc = "answered" /\ req'[r].answer = Found(KeyOf[r])
           \/ Authorize(r) /\ req'[r].pc \in {"do", "finish"}
                           /\ req'[r].answer \in {None, "refused"}
           \/ Transact(r) /\ req[r].pc = "do" /\ req'[r].pc \in {"after", "rejected"}
                          /\ req'[r].answer = req[r].answer
           \/ Afterwards(r) /\ req[r].pc = "after" /\ req'[r].pc = "audit"
                            /\ req'[r].answer = req[r].answer
           \/ Audit(r) /\ req[r].pc = "audit" /\ req'[r].pc = "finish" /\ req'[r].answer = "ok"
           \/ Finish(r) /\ req'[r].pc = "answered" /\ req'[r].answer = req[r].answer
           \/ req'[r].pc \in {"answered", "finish"} /\ req'[r].answer \in {"refused", "failed"}
                          /\ req[r].pc # "idle"
                          /\ (req[r].pc = "after" => Restart)
<1>1. req \in [Requests -> RequestRows] /\ req[r] \in RequestRows /\ drawn \in Nat
  BY AdminAssumption DEF TypeOK
<1>2. DOMAIN req[r] = {"pc", "session", "on", "answer"}
  BY <1>1 DEF RequestRows
<1>3. CASE SessionStep \/ UNCHANGED vars
  <2>1. CASE Restart
    BY <1>1, <1>2, <2>1 DEF Restart
  <2>2. CASE ~Restart
    BY <1>3, <2>2 DEF SessionStep, IssueChallenge, CheckChallenge, CreateSession,
       ControlHandler, Register, AuthenticationFails, Unregister,
       NodeRevokesClient, NodeDisconnectsClient, ReadView, DeleteSession,
       IssueActionChallenge, ActionChallengeExpires, CacheExpires, vars, rows, memory,
       UnchangedByHub
  <2> QED
    BY <2>1, <2>2
<1>4. ASSUME NEW q \in Requests, RequestStep(q), q # r PROVE req'[r] = req[r]
  BY <1>1, <1>4 DEF RequestStep, Send, LookUp, WakeUp, GiveUp, Authorize, Transact,
     TransactFails, Afterwards, Reject, Audit, AuditFails, Finish, Go, Reply
<1>5. CASE Send(r)
  <2>1. PICK id \in 1 .. drawn :
          req' = [req EXCEPT ![r] = IF RequireSession(id, By(r))
                          THEN [NoRequest EXCEPT !.pc = "gate", !.session = id]
                          ELSE [NoRequest EXCEPT !.pc = "answered", !.session = id, !.answer = "refused"]]
    BY <1>5 DEF Send
  <2>2. id # 0
    BY <1>1
  <2> QED
    BY <1>1, <1>5, <2>1, <2>2 DEF NoRequest, RequireSession
<1>6. CASE LookUp(r)
  BY <1>1, <1>2, <1>6 DEF LookUp, Go, Reply, At
<1>7. CASE WakeUp(r)
  BY <1>1, <1>2, <1>7 DEF WakeUp, Reply
<1>8. CASE Authorize(r)
  BY <1>1, <1>2, <1>8 DEF Authorize
<1>9. CASE Transact(r)
  BY <1>1, <1>2, <1>9 DEF Transact, Go, At
<1>10. CASE Afterwards(r)
  BY <1>1, <1>2, <1>10 DEF Afterwards, Go, At
<1>11. CASE Audit(r)
  BY <1>1, <1>2, <1>11 DEF Audit, At
<1>12. CASE Finish(r)
  BY <1>1, <1>2, <1>12 DEF Finish, Go
<1>13. CASE GiveUp(r) \/ TransactFails(r) \/ Reject(r) \/ AuditFails(r)
  BY <1>1, <1>2, <1>13 DEF GiveUp, TransactFails, Reject, AuditFails, Reply, At
<1> QED
  BY <1>3, <1>4, <1>5, <1>6, <1>7, <1>8, <1>9, <1>10, <1>11, <1>12, <1>13
  DEF Next, RequestStep

-----------------------------------------------------------------------------
(* No change of the settings is lost *)

LEMMA ActiveShrinks ==
    ASSUME [Next]_vars
    PROVE  active' \subseteq active
BY RowsMove DEF Transact, NodeRevokesClient, rows

\* The revision a change was made from stays, once it has taken effect.
LEMMA BasesStay ==
    ASSUME TypeOK, OnceInv, [Next]_vars, NEW o \in Ops, o.what = "admit"
    PROVE  /\ base[o] \in Nat /\ base'[o] \in Nat
           /\ done[o] > 0 => base'[o] = base[o]
           /\ (\E r \in Requests : Transact(r)) => base'[o] = base[o]
<1>1. base \in [Ops -> Nat] /\ done \in [Ops -> Nat] /\ settings \in Nat
  BY DEF TypeOK
<1>2. CASE base' = base
  BY <1>1, <1>2
<1>3. ASSUME NEW q \in Ops, IssueActionChallenge(q)
      PROVE  base'[o] \in Nat /\ (done[o] > 0 => base'[o] = base[o])
  <2>1. PICK seen \in 1 .. settings : base' = [base EXCEPT ![q] = seen]
    BY <1>3 DEF IssueActionChallenge
  <2>2. base[q] = 0 /\ HighRisk(q)
    BY <1>3 DEF IssueActionChallenge
  <2>3. done[q] = 0
    BY <2>2 DEF OnceInv, Permitted
  <2>4. base'[o] = base[o] \/ (q = o /\ base'[o] = seen)
    BY <1>1, <2>1
  <2> QED
    BY <1>1, <2>3, <2>4
<1>4. base' = base \/ \E q \in Ops : IssueActionChallenge(q)
  BY DEF Next, SessionStep, RequestStep, IssueChallenge, CheckChallenge, CreateSession,
     ControlHandler, Register, AuthenticationFails, Unregister,
     NodeRevokesClient, NodeDisconnectsClient, ReadView, DeleteSession,
     ActionChallengeExpires, CacheExpires, Restart, Send, LookUp, WakeUp,
     GiveUp, Authorize, Transact, TransactFails, Afterwards, Reject, Audit, AuditFails, Finish,
     vars, UnchangedByHub
<1>5. (\E r \in Requests : Transact(r)) => base' = base
  BY DEF Transact
<1> QED
  BY <1>1, <1>2, <1>3, <1>4, <1>5

LEMMA StepUpdates ==
    ASSUME TypeOK, OnceInv, UpdateInv, [Next]_vars
    PROVE  UpdateInv'
<1>0. done \in [Ops -> Nat] /\ settings \in Nat
  BY DEF TypeOK
<1>1. CASE UNCHANGED <<settings, done>>
  <2>1. ASSUME NEW o \in Ops, o.what = "admit", done'[o] > 0 PROVE base'[o] < settings'
    BY <1>1, <2>1, BasesStay DEF UpdateInv
  <2>2. ASSUME NEW o \in Ops, NEW p \in Ops, o.what = "admit", p.what = "admit", o # p,
               done'[o] > 0, done'[p] > 0
        PROVE  base'[o] # base'[p]
    BY <1>1, <2>2, BasesStay DEF UpdateInv, NoLostUpdate
  <2> QED
    BY <2>1, <2>2 DEF UpdateInv, NoLostUpdate
<1>2. ASSUME NEW r \in Requests, Transact(r), ~UNCHANGED <<settings, done>> PROVE UpdateInv'
  <2> DEFINE x == OpOf[r]
  <2>1. /\ x \in Ops /\ Applicable(x) /\ done' = [done EXCEPT ![x] = done[x] + 1]
        /\ settings' = IF x.what = "admit" THEN settings + 1 ELSE settings
    BY <1>2, KeyType DEF Transact, rows
  <2>2. /\ \A o \in Ops : o # x => done'[o] = done[o]
        /\ settings' \in Nat /\ settings <= settings'
        /\ x.what = "admit" => base[x] = settings /\ settings' = settings + 1
    <3>1. x.what = "admit" => base[x] = settings
      BY <2>1 DEF Applicable
    <3>2. \A o \in Ops : o # x => done'[o] = done[o]
      BY <1>0, <2>1
    <3> QED
      BY <1>0, <2>1, <3>1, <3>2
  <2>3. \A o \in Ops : o.what = "admit" => base'[o] = base[o] /\ base[o] \in Nat
    BY <1>2, BasesStay
  <2>4. \A o \in Ops : o.what = "admit" /\ o # x /\ done'[o] > 0 => base'[o] < settings
    BY <2>2, <2>3 DEF UpdateInv
  <2>5. ASSUME NEW o \in Ops, o.what = "admit", done'[o] > 0 PROVE base'[o] < settings'
    BY <1>0, <2>2, <2>3, <2>4, <2>5
  <2>6. ASSUME NEW o \in Ops, NEW p \in Ops, o.what = "admit", p.what = "admit", o # p,
               done'[o] > 0, done'[p] > 0
        PROVE  base'[o] # base'[p]
    <3>1. CASE o = x
      BY <1>0, <2>2, <2>3, <2>4, <2>6, <3>1
    <3>2. CASE p = x
      BY <1>0, <2>2, <2>3, <2>4, <2>6, <3>2
    <3>3. CASE o # x /\ p # x
      BY <2>2, <2>3, <2>6, <3>3 DEF UpdateInv, NoLostUpdate
    <3> QED
      BY <3>1, <3>2, <3>3
  <2> QED
    BY <2>5, <2>6 DEF UpdateInv, NoLostUpdate
<1> QED
  BY <1>1, <1>2, RowsMove

-----------------------------------------------------------------------------
(* One signature, one effect *)

LEMMA StepNamed ==
    ASSUME TypeOK, Named, [Next]_vars
    PROVE  Named'
<1> SUFFICES ASSUME NEW r \in Requests, req'[r].pc \in {"gate", "handler"}
             PROVE  req'[r].session # 0
  BY DEF Named
<1> QED
  BY RequestsMove DEF Named

\* A step that issues no challenge, authorizes nobody and commits nothing moves
\* no permit forward.
LEMMA OnceQuiet ==
    ASSUME OnceInv, Named', UNCHANGED <<settings, open, base, done>>,
           \A o \in Ops : proof'[o] \in {proof[o], 0},
           \A r \in Requests : req'[r].pc = "do" => req[r].pc = "do"
    PROVE  OnceInv'
BY DEF OnceInv, Permitted

LEMMA StepOnce ==
    ASSUME TypeOK, OnceInv, [Next]_vars
    PROVE  OnceInv'
<1>1. Named'
  BY StepNamed DEF OnceInv
<1>2. /\ proof \in [Ops -> 0 .. MaxSessions] /\ base \in [Ops -> Nat] /\ done \in [Ops -> Nat]
      /\ settings \in Nat
  BY DEF TypeOK
<1>3. ASSUME NEW o \in Ops, IssueActionChallenge(o) PROVE OnceInv'
  <2>1. /\ base[o] = 0 /\ \E seen \in 1 .. settings : base' = [base EXCEPT ![o] = seen]
        /\ UNCHANGED <<req, done, settings, open>>
    BY <1>3 DEF IssueActionChallenge, rows
  <2>2. \E id : proof' = [proof EXCEPT ![o] = id]
    BY <1>3 DEF IssueActionChallenge
  <2>3. base'[o] # 0 /\ \A x \in Ops : x # o => base'[x] = base[x] /\ proof'[x] = proof[x]
    BY <1>2, <2>1, <2>2 DEF OnceInv
  <2>4. HighRisk(o) => Permitted(o)'
    BY <2>1, <2>3 DEF OnceInv, Permitted
  <2>5. \A x \in Ops : x # o /\ HighRisk(x) => Permitted(x)'
    BY <2>1, <2>3 DEF OnceInv, Permitted
  <2> QED
    BY <1>1, <2>1, <2>4, <2>5 DEF OnceInv
<1>4. ASSUME NEW r \in Requests, Authorize(r) PROVE OnceInv'
  <2> DEFINE o == OpOf[r]
  <2>1. o \in Ops /\ UNCHANGED <<base, done, settings, open>>
    BY <1>4, KeyType DEF Authorize, rows
  <2>2. \A q \in Requests : q # r => req'[q] = req[q]
    BY <1>4 DEF Authorize, TypeOK
  <2>3. \A x \in Ops : proof'[x] \in {proof[x], 0}
    BY <1>2, <1>4 DEF Authorize, UsedUp
  <2>4. CASE req'[r].pc # "do"
    BY <1>1, <2>1, <2>2, <2>3, <2>4, OnceQuiet
  <2>5. CASE req'[r].pc = "do" /\ HighRisk(o)
    <3>1. RequireSession(req[r].session, o.by) /\ proof[o] = req[r].session
      BY <1>4, <2>5 DEF Authorize, TypeOK, RequestRows
    <3>2. proof[o] # 0
      BY <1>4, <3>1 DEF OnceInv, Named, Authorize, At
    <3>3. proof'[o] = 0
      BY <1>2, <1>4, <2>1, <2>5, <3>1 DEF Authorize, UsedUp
    <3>4. base[o] # 0 /\ done[o] = 0 /\ \A q \in Requests : OpOf[q] = o => req[q].pc # "do"
      BY <2>1, <2>5, <3>2 DEF OnceInv, Permitted
    <3>5. Permitted(o)'
      BY <2>1, <2>2, <3>3, <3>4 DEF Permitted
    <3>6. \A x \in Ops : x # o /\ HighRisk(x) => Permitted(x)'
      BY <2>1, <2>2, <2>3 DEF OnceInv, Permitted
    <3> QED
      BY <1>1, <2>1, <3>5, <3>6 DEF OnceInv
  <2>6. CASE ~HighRisk(o)
    <3>1. \A x \in Ops : HighRisk(x) => Permitted(x)'
      BY <2>1, <2>2, <2>3, <2>6 DEF OnceInv, Permitted
    <3> QED
      BY <1>1, <2>1, <3>1 DEF OnceInv
  <2> QED
    BY <2>4, <2>5, <2>6
<1>5. ASSUME NEW r \in Requests, Transact(r) PROVE OnceInv'
  <2> DEFINE o == OpOf[r]
  <2>1. o \in Ops /\ UNCHANGED <<base, proof>> /\ req[r].pc = "do" /\ req'[r].pc # "do"
    BY <1>5, KeyType DEF Transact, memory, At, Go, TypeOK, RequestRows
  <2>2. \A q \in Requests : q # r => req'[q] = req[q]
    BY <1>5 DEF Transact, Go, TypeOK
  <2>3. CASE ~Applicable(o)
    <3>1. UNCHANGED <<settings, open, done>>
      BY <1>5, <2>3 DEF Transact, rows
    <3> QED
      BY <1>1, <2>1, <2>2, <3>1, OnceQuiet
  <2>4. CASE Applicable(o)
    <3>1. /\ open' = open \ {o} /\ done' = [done EXCEPT ![o] = done[o] + 1]
          /\ settings' # 0
      BY <1>2, <1>5, <2>4 DEF Transact, OnceInv
    <3>2. done[o] = 0
      <4>1. CASE HighRisk(o)
        BY <2>1, <4>1 DEF OnceInv, Permitted
      <4>2. CASE ~HighRisk(o)
        BY <2>1, <2>4, <4>2 DEF OnceInv, HighRisk, Applicable
      <4> QED
        BY <4>1, <4>2
    <3>3. done'[o] = 1 /\ \A x \in Ops : x # o => done'[x] = done[x]
      BY <1>2, <2>1, <3>1, <3>2
    <3>4. HighRisk(o) => Permitted(o)'
      <4> SUFFICES ASSUME HighRisk(o) PROVE Permitted(o)'
        OBVIOUS
      <4>1. base[o] # 0 /\ proof[o] = 0 /\ \A q \in Requests : OpOf[q] = o => req'[q].pc # "do"
        BY <2>1, <2>2 DEF OnceInv, Permitted
      <4> QED
        BY <2>1, <4>1 DEF Permitted
    <3>5. \A x \in Ops : x # o /\ HighRisk(x) => Permitted(x)'
      BY <2>1, <2>2, <3>3 DEF OnceInv, Permitted
    <3> QED
      BY <1>1, <2>1, <3>1, <3>3, <3>4, <3>5 DEF OnceInv
  <2> QED
    BY <2>3, <2>4
<1>6. ASSUME \A o \in Ops : ~IssueActionChallenge(o),
             \A r \in Requests : ~Authorize(r) /\ ~Transact(r)
      PROVE  OnceInv'
  <2>1. UNCHANGED <<settings, open, done>>
    BY <1>6, RowsMove
  <2>2. UNCHANGED base /\ \A o \in Ops : proof'[o] \in {proof[o], 0}
    BY <1>2, <1>6 DEF Next, SessionStep, RequestStep, IssueChallenge, CheckChallenge,
       CreateSession, ControlHandler, Register, AuthenticationFails, Unregister,
       NodeRevokesClient, NodeDisconnectsClient, ReadView,
       DeleteSession, ActionChallengeExpires, CacheExpires, Restart, Send, LookUp, WakeUp,
       GiveUp, TransactFails, Afterwards, Reject, Audit, AuditFails, Finish, vars, memory,
       UnchangedByHub
  <2>3. \A r \in Requests : req'[r].pc = "do" => req[r].pc = "do"
    BY <1>6, RequestsMove
  <2> QED
    BY <1>1, <2>1, <2>2, <2>3, OnceQuiet
<1> QED
  BY <1>3, <1>4, <1>5, <1>6

-----------------------------------------------------------------------------
(* A success that was told is recorded *)

\* Effects and records stay.
LEMMA RecordsStay ==
    ASSUME TypeOK, OnceInv, OnceInv', [Next]_vars
    PROVE  /\ \A o \in Ops : done[o] = 1 => done'[o] = 1
           /\ audit \subseteq audit'
           /\ \A k \in Keys : Recorded(k) => Recorded(k)'
<1>1. \A o \in Ops : done[o] = 1 => done'[o] = 1
  <2>1. done \in [Ops -> Nat] /\ \A o \in Ops : done'[o] <= 1
    BY DEF TypeOK, OnceInv
  <2>2. CASE done' = done
    BY <2>2
  <2>3. CASE \E r \in Requests : Transact(r)
    BY <2>1, <2>3 DEF Transact
  <2> QED
    BY <2>2, <2>3, RowsMove
<1>2. audit \subseteq audit'
  BY DEF Next, SessionStep, RequestStep, IssueChallenge, CheckChallenge, CreateSession,
     ControlHandler, Register, AuthenticationFails, Unregister,
     NodeRevokesClient, NodeDisconnectsClient, ReadView, DeleteSession,
     IssueActionChallenge, ActionChallengeExpires, CacheExpires, Restart, Send, LookUp, WakeUp,
     GiveUp, Authorize, Transact, TransactFails, Afterwards, Reject, Audit, AuditFails, Finish,
     vars, UnchangedByHub
<1> QED
  BY <1>1, <1>2, KeyType DEF Recorded

LEMMA StepRecorded ==
    ASSUME TypeOK, TypeOK', OnceInv, OnceInv', RecordInv, [Next]_vars
    PROVE  RecordInv'
<1>1. ASSUME NEW r \in Requests, req'[r].pc \in {"after", "audit"}
      PROVE  done'[OpOf[r]] = 1
  <2>1. CASE req[r].pc \in {"after", "audit"}
    BY <2>1, RecordsStay, KeyType DEF RecordInv
  <2>2. CASE Transact(r) /\ req[r].pc = "do" /\ req'[r].pc \in {"after", "rejected"}
    <3>1. Applicable(OpOf[r])
      BY <1>1, <2>2 DEF Transact, Go, TypeOK, RequestRows
    <3>2. done' = [done EXCEPT ![OpOf[r]] = done[OpOf[r]] + 1]
      BY <2>2, <3>1 DEF Transact
    <3>3. OpOf[r] \in Ops /\ done \in [Ops -> Nat] /\ done'[OpOf[r]] <= 1
      BY KeyType DEF TypeOK, OnceInv
    <3> QED
      BY <3>2, <3>3
  <2> QED
    BY <1>1, <2>1, <2>2, RequestsMove
<1>2. ASSUME NEW k \in Keys, cache'[k].answer = "ok" PROVE Recorded(k)'
  <2>1. CASE cache[k].answer = "ok"
    BY <2>1, RecordsStay DEF RecordInv
  <2>2. CASE cache[k].answer # "ok"
    <3>1. cache \in [Keys -> Entries] /\ cache[k] \in Entries
      BY DEF TypeOK
    <3>2. \E r \in Requests : Finish(r) /\ KeyOf[r] = k /\ req[r].answer = "ok"
      <4>1. ASSUME NEW r \in Requests, Finish(r)
            PROVE  KeyOf[r] = k /\ req[r].answer = "ok"
        <5>1. cache' = [cache EXCEPT ![KeyOf[r]] =
                          IF req[r].answer = "failed" THEN NoEntry
                          ELSE [cache[KeyOf[r]] EXCEPT !.state = "done", !.answer = req[r].answer]]
          BY <4>1 DEF Finish
        <5>2. KeyOf[r] = k
          BY <1>2, <2>2, <3>1, <5>1
        <5> QED
          BY <1>2, <3>1, <5>1, <5>2 DEF NoEntry, Entries, None
      <4>2. ASSUME \A r \in Requests : ~Finish(r)
            PROVE  cache'[k] = cache[k] \/ cache'[k].answer = None
        <5>1. \/ UNCHANGED cache
              \/ Restart
              \/ \E q \in Keys : CacheExpires(q)
              \/ \E r \in Requests : LookUp(r)
          BY <4>2 DEF Next, SessionStep, RequestStep, IssueChallenge, CheckChallenge,
             CreateSession, ControlHandler, Register, AuthenticationFails, Unregister,
             NodeRevokesClient, NodeDisconnectsClient, ReadView,
             DeleteSession, IssueActionChallenge, ActionChallengeExpires, Send, WakeUp, GiveUp,
             Authorize, Transact, TransactFails, Afterwards, Reject, Audit, AuditFails, vars,
             memory, UnchangedByHub
        <5>2. NoEntry.answer = None
          BY DEF NoEntry
        <5>3. CASE Restart
          BY <5>2, <5>3 DEF Restart
        <5>4. CASE \E q \in Keys : CacheExpires(q)
          BY <3>1, <5>2, <5>4 DEF CacheExpires
        <5>5. CASE \E r \in Requests : LookUp(r)
          BY <3>1, <5>5, KeyType DEF LookUp
        <5> QED
          BY <5>1, <5>3, <5>4, <5>5
      <4> QED
        BY <1>2, <2>2, <4>1, <4>2 DEF None
    <3> QED
      BY <3>2, RecordsStay DEF RecordInv, SuccessIsRecorded
  <2> QED
    BY <2>1, <2>2
<1>3. ASSUME NEW r \in Requests, req'[r].answer = "ok" PROVE Recorded(KeyOf[r])'
  <2>1. CASE req[r].answer = "ok"
    BY <2>1, RecordsStay, KeyType DEF RecordInv, SuccessIsRecorded
  <2>2. CASE WakeUp(r) /\ req'[r].answer = Found(KeyOf[r])
    <3>1. cache[KeyOf[r]].answer = "ok"
      BY <1>3, <2>2, KeyType DEF Found, TypeOK, Entries, None
    <3> QED
      BY <3>1, RecordsStay, KeyType DEF RecordInv
  <2>3. CASE Audit(r)
    <3>1. done[OpOf[r]] = 1
      BY <2>3 DEF Audit, At, RecordInv
    <3>2. done' = done /\ OpOf[r] \in audit'
      BY <2>3 DEF Audit
    <3> QED
      BY <3>1, <3>2 DEF Recorded
  <2> QED
    BY <1>3, <2>1, <2>2, <2>3, RequestsMove DEF None
<1> QED
  BY <1>1, <1>2, <1>3 DEF RecordInv, SuccessIsRecorded

-----------------------------------------------------------------------------
(* A revoked client is locked out *)

LEMMA StepLate ==
    ASSUME LateInv, [Next]_vars
    PROVE  LateInv'
<1>1. \A r \in late' : r \in late \/ By(r) \notin active
  BY DEF Next, SessionStep, RequestStep, IssueChallenge, CheckChallenge, CreateSession,
     ControlHandler, Register, AuthenticationFails, Unregister,
     NodeRevokesClient, NodeDisconnectsClient, ReadView, DeleteSession,
     IssueActionChallenge, ActionChallengeExpires, CacheExpires, Restart, Send, LookUp, WakeUp,
     GiveUp, Authorize, Transact, TransactFails, Afterwards, Reject, Audit, AuditFails, Finish,
     vars, UnchangedByHub
<1> QED
  BY <1>1, ActiveShrinks DEF LateInv

LEMMA StepLockedOut ==
    ASSUME TypeOK, TypeOK', LateInv, LateInv', RevokedIsLockedOut, [Next]_vars
    PROVE  RevokedIsLockedOut'
<1>1. ASSUME NEW r \in late' PROVE req'[r].pc \notin {"do", "after", "audit"}
  <2>1. r \in Requests
    BY DEF TypeOK
  <2>2. CASE r \in late
    <3>1. By(r) \notin active /\ req[r].pc \notin {"do", "after", "audit"}
      BY <2>2 DEF LateInv, RevokedIsLockedOut
    <3>2. Authorize(r) => req'[r].pc # "do"
      BY <2>1, <3>1 DEF Authorize, RequireSession, By, TypeOK, RequestRows
    <3> QED
      BY <2>1, <3>1, <3>2, RequestsMove
  <2>3. CASE r \notin late
    <3>1. Send(r) /\ By(r) \notin active
      BY <2>3 DEF Next, SessionStep, RequestStep, IssueChallenge, CheckChallenge, CreateSession,
         ControlHandler, Register, AuthenticationFails, Unregister,
         NodeRevokesClient, NodeDisconnectsClient, ReadView, DeleteSession,
         IssueActionChallenge, ActionChallengeExpires, CacheExpires, Restart, Send, LookUp,
         WakeUp, GiveUp, Authorize, Transact, TransactFails, Afterwards, Reject, Audit,
         AuditFails, Finish, vars, UnchangedByHub
    <3>2. req'[r].pc \in {"gate", "answered"}
      BY <2>1, <3>1 DEF Send, TypeOK, NoRequest
    <3> QED
      BY <3>2
  <2> QED
    BY <2>2, <2>3
<1>2. ASSUME NEW c \in relays' \ (active' \cup stray' \cup dropping')
      PROVE  \E r \in Requests : At(r, "after")' /\ OpOf[r].what = "revoke" /\ OpOf[r].target = c
  <2>1. (c \in relays /\ c \notin stray) \/ Register(c)
    <3>1. ASSUME NEW d \in Clients,
                 \/ ControlHandler(d) \/ Register(d) \/ AuthenticationFails(d) \/ Unregister(d)
                 \/ NodeRevokesClient(d) \/ NodeDisconnectsClient(d)
          PROVE  (c \in relays /\ c \notin stray) \/ Register(c)
      BY <1>2, <3>1 DEF ControlHandler, Register, AuthenticationFails, Unregister,
         NodeRevokesClient, NodeDisconnectsClient, DisconnectControl
    <3>2. CASE Restart \/ UNCHANGED hub
      BY <1>2, <3>2 DEF Restart, hub
    <3>3. ASSUME NEW r \in Requests, Afterwards(r) PROVE c \in relays /\ c \notin stray
      BY <1>2, <3>3 DEF Afterwards, hub, DisconnectControl
    <3> QED
      BY <3>1, <3>2, <3>3 DEF Next, SessionStep, RequestStep, IssueChallenge, CheckChallenge,
         CreateSession, ReadView, DeleteSession, IssueActionChallenge, ActionChallengeExpires,
         CacheExpires, Send, LookUp, WakeUp, GiveUp, Authorize, Transact, TransactFails, Reject,
         Audit, AuditFails, Finish, vars
  <2>2. ~Register(c)
    BY <1>2 DEF Register, UnchangedByHub, rows
  <2>3. ~Restart
    BY <1>2 DEF Restart
  <2>4. CASE c \in active
    <3>1. PICK r \in Requests : Transact(r) /\ active' = active \ {c}
                                /\ OpOf[r].what = "revoke" /\ OpOf[r].target = c
      BY <1>2, <2>4, RowsMove DEF Transact, NodeRevokesClient, rows
    <3>2. req'[r].pc = "after"
      BY <1>2, <2>4, <3>1 DEF Transact, Go, TypeOK, RequestRows, rows
    <3> QED
      BY <3>1, <3>2 DEF At
  <2>5. CASE c \notin active
    <3>0. c \notin dropping
      BY <1>2, <2>3 DEF Next, SessionStep, RequestStep, IssueChallenge, CheckChallenge,
         CreateSession, ControlHandler, Register, AuthenticationFails, Unregister,
         NodeRevokesClient, NodeDisconnectsClient, ReadView, DeleteSession,
         IssueActionChallenge, ActionChallengeExpires, CacheExpires, Send, LookUp,
         WakeUp, GiveUp, Authorize, Transact, TransactFails, Afterwards, Reject, Audit,
         AuditFails, Finish, vars, hub, DisconnectControl
    <3>1. PICK r \in Requests : At(r, "after") /\ OpOf[r].what = "revoke" /\ OpOf[r].target = c
      BY <2>1, <2>2, <2>5, <3>0 DEF RevokedIsLockedOut
    <3>2. ~Afterwards(r)
      BY <1>2, <3>1 DEF Afterwards, DisconnectControl
    <3>3. req'[r].pc = "after"
      BY <2>3, <3>1, <3>2, RequestsMove
      DEF At, Send, WakeUp, Authorize, Finish
    <3> QED
      BY <3>1, <3>3 DEF At
  <2> QED
    BY <2>4, <2>5
<1> QED
  BY <1>1, <1>2 DEF RevokedIsLockedOut

-----------------------------------------------------------------------------
LEMMA InitAdminInv == Init => AdminInv
<1> SUFFICES ASSUME Init PROVE AdminInv
  OBVIOUS
<1>1. TypeOK
  BY InitTypeOK
<1>2. UpdateInv
  BY DEF Init, UpdateInv, NoLostUpdate
<1>3. \A r \in Requests : req[r].pc = "idle" /\ req[r].answer # "ok"
  BY DEF Init, NoRequest, None
<1>4. OnceInv
  BY <1>3 DEF Init, OnceInv, Named, Permitted
<1>5. RecordInv
  BY <1>3 DEF Init, RecordInv, SuccessIsRecorded, NoEntry, None
<1>6. LateInv /\ RevokedIsLockedOut
  BY DEF Init, LateInv, RevokedIsLockedOut
<1> QED
  BY <1>1, <1>2, <1>4, <1>5, <1>6 DEF AdminInv

LEMMA NextAdminInv == AdminInv /\ [Next]_vars => AdminInv'
<1> SUFFICES ASSUME AdminInv, [Next]_vars PROVE AdminInv'
  OBVIOUS
<1>1. TypeOK /\ TypeOK'
  BY NextTypeOK DEF AdminInv
<1>3. OnceInv /\ OnceInv'
  BY <1>1, StepOnce DEF AdminInv
<1>2. UpdateInv'
  BY <1>1, <1>3, StepUpdates DEF AdminInv
<1>4. RecordInv'
  BY <1>1, <1>3, StepRecorded DEF AdminInv
<1>5. LateInv /\ LateInv'
  BY StepLate DEF AdminInv
<1>6. RevokedIsLockedOut'
  BY <1>1, <1>5, StepLockedOut DEF AdminInv
<1> QED
  BY <1>1, <1>2, <1>3, <1>4, <1>5, <1>6 DEF AdminInv

LEMMA AdminInvariance == Spec => []AdminInv
BY InitAdminInv, NextAdminInv, PTL DEF Spec

\* However many browsers change the settings from views of any age, no change that
\* took effect is overwritten by one made from the same revision.
THEOREM UpdatesAreKept == Spec => []NoLostUpdate
<1>1. AdminInv => NoLostUpdate
  BY DEF AdminInv, UpdateInv
<1> QED
  BY <1>1, AdminInvariance, PTL

\* A signed operation takes effect at most once, whatever is repeated, expires or
\* is forgotten: its one permit is in one place.
THEOREM OnePermit == Spec => []CarriedOutOnce
<1>1. AdminInv => CarriedOutOnce
  BY DEF AdminInv, OnceInv, CarriedOutOnce
<1> QED
  BY <1>1, AdminInvariance, PTL

\* A success is told, first or from the cache, only with effect and record.
THEOREM Recording == Spec => []SuccessIsRecorded
<1>1. AdminInv => SuccessIsRecorded
  BY DEF AdminInv, RecordInv
<1> QED
  BY <1>1, AdminInvariance, PTL

\* What a revoked client sends is not carried out, and its connection is closed.
THEOREM Revocation == Spec => []RevokedIsLockedOut
<1>1. AdminInv => RevokedIsLockedOut
  BY DEF AdminInv
<1> QED
  BY <1>1, AdminInvariance, PTL

-----------------------------------------------------------------------------
(* Types *)

ManagedStates == {"prepare", "look", "load", "check"} \cup Writes
AcmeStates == {"account", "accountkey", "registration", "register", "obtain"}
Providers == [at : ManagedStates \cup AcmeStates \cup {"reload", "idle", "failed"}, mode : Modes,
              host : ConfigHosts, force : BOOLEAN, again : BOOLEAN, ca : Ids,
              leaf : Ids \cup Certificates]
Commands == [kind : {"init", "restoreca", "renew", "restoredb"},
             at : Steps \cup {"provider", "extract", "copy", "install"}, cfg : Configs,
             staged : Ids \cup Directories, had : BOOLEAN, last : Ids]

DiskTypes ==
    /\ config \in Configs \cup {Nothing}
    /\ cur \in Directories \cup {Nothing} /\ moved \in Directories \cup {Nothing}
    /\ ext \in [cert : Certificates \cup {Nothing}, key : Ids]
    /\ acct \in [key : Ids, reg : Ids, bundle : Certificates \cup {Nothing}]
    /\ archive \subseteq Nat /\ db \in Nat /\ wal \in Ids /\ vacuumed \in Ids /\ snaps \subseteq Nat

ProcessTypes ==
    /\ DOMAIN budget = Counters \cup {"ops", "configs"} /\ budget.configs \subseteq Configs
    /\ now \in Nat /\ next \in Nat
    /\ proc \in [Actors -> Providers \cup {Off}] /\ cmd \in Commands \cup {Off}
    /\ served \in Pairs \cup {Nothing} /\ given \subseteq Nat /\ latest \in Ids

FilesTypes == DiskTypes /\ ProcessTypes

-----------------------------------------------------------------------------
(* The lock and the shape of a command *)

\* Whoever holds server.lock holds it alone, and the configuration of a running
\* Server does not change under it.
LockInv ==
    /\ cmd # Off => proc["server"] = Off
    /\ proc["command"] # Off => cmd.at = "provider"
    /\ proc["server"] = Off => served = Nothing
    /\ proc["server"] # Off =>
          config # Nothing /\ proc["server"].mode = config.mode /\ proc["server"].host = config.host
    /\ served # Nothing => served.key = served.cert.n /\ served.cert.host = config.host

\* A provider does what the mode it was built for says.
ModeInv ==
    \A a \in Actors :
        /\ proc[a].at \in ManagedStates => proc[a].mode = "managed"
        /\ proc[a].at \in AcmeStates => proc[a].mode = "acme"
        /\ proc[a].at = "reload" => proc[a].mode # "managed"
        /\ proc[a] # Off /\ proc[a].again => proc[a].mode = "managed"
        /\ proc[a].at \in Writes \ {"rootkey", "rootcert"} => proc[a].leaf \in Certificates
        /\ proc[a].at \in {"rootkey", "rootcert", "accountkey", "registration", "register"} =>
              proc[a].ca # Nothing

\* A directory with a root of which the key is there, and a certificate of it.
Complete(d) ==
    /\ d \in Directories /\ d.ca # Nothing /\ d.cakey = d.ca
    /\ d.cert # Nothing /\ d.cert.issuer = d.ca

\* A command that has a new pki/managed to install and is not done with it.
Installing == cmd.at \in Steps /\ cmd.staged # Nothing

CommandInv ==
    /\ cmd.at \in {"extract", "copy", "install"} <=> cmd # Off /\ cmd.kind = "restoredb"
    /\ cmd.at \in {"copy", "install"} => cmd.staged \in Nat
    /\ cmd.at \in Steps => cmd.kind \in {"init", "restoreca"}
    /\ cmd.at \in {"save", "commit", "remove"} => cmd.kind = "init"
    /\ cmd.at = "undo" => cmd.kind = "restoreca"
    /\ cmd.at \in Steps \ {"save", "commit"} => cmd.staged # Nothing
    /\ Installing => Complete(cmd.staged)

ControlInv == LockInv /\ ModeInv /\ CommandInv

-----------------------------------------------------------------------------
(* The database *)

\* A restore that met no leftover log has none until it is over, and copies the
\* database before it replaces it.
RestoreInv ==
    Without({"restore"}) =>
        /\ Visible = truth /\ replaced \subseteq pre
        /\ cmd.at \in {"extract", "copy", "install"} => wal = Nothing
        /\ cmd.at = "install" => db \in pre

-----------------------------------------------------------------------------
(* The ACME account *)

\* The one provider of the account works with the key that is stored.
AccountInv ==
    Without({"acme"}) =>
        /\ acct.reg # Nothing => acct.reg = acct.key
        /\ \A a, b \in Actors :
              proc[a] # Off /\ proc[b] # Off /\ proc[a].mode = "acme" /\ proc[b].mode = "acme" => a = b
        /\ \A a \in Actors :
              /\ proc[a].at = "accountkey" => acct.key = Nothing
              /\ proc[a].at \in {"registration", "register"} => acct.key = proc[a].ca

-----------------------------------------------------------------------------
(* The managed CA *)

Managed(a) == proc[a] # Off /\ proc[a].mode = "managed"
Rooting(a) == proc[a].at \in {"rootkey", "rootcert"}

\* The directory a command replaces, or Nothing.
Old == IF cmd.at = "stash" THEN cur ELSE moved

\* What is on disk at each step of a command.
InstallInv ==
    /\ Installing => \A a \in Actors : ~Managed(a)
    /\ ~Installing => moved = Nothing
    /\ Installing =>
          /\ cmd.had <=> Old # Nothing
          /\ cmd.at = "stash" => cur # Nothing /\ moved = Nothing
          /\ cmd.at \in {"swap", "putback"} => cur = Nothing
          /\ cmd.at \in {"sync", "save", "commit", "remove", "undo"} => cur = cmd.staged
          /\ cmd.kind = "init" /\ Old # Nothing => cmd.staged.ca = Old.ca

\* Without a command at work nobody takes the directory from a provider, and
\* one at a time gives it a root.
RootInv ==
    /\ \A a \in Actors : Managed(a) /\ proc[a].at # "prepare" => cur # Nothing
    /\ \A a \in Actors : Rooting(a) => cur.ca = Nothing
    /\ \A a, b \in Actors : Rooting(a) /\ Rooting(b) => a = b

\* Where the roots that clients have are.
CopyInv ==
    /\ Installing => given \subseteq kept \cup archive \cup {d.ca : d \in {Old} \ {Nothing}}
    /\ ~Installing => given \subseteq kept \cup archive \cup {d.ca : d \in {cur} \ {Nothing}}

LossInv == Without({"overlap", "roots"}) => InstallInv /\ RootInv /\ CopyInv

\* Every file in a directory goes with its root.
Sound(d) ==
    d # Nothing =>
        /\ d.ca # Nothing => d.cakey = d.ca
        /\ d.cert # Nothing => d.ca # Nothing /\ d.cert.issuer = d.ca

Continues(d, root) == root # Nothing => CAUsable(d) /\ d.ca = root

SoundInv ==
    /\ Sound(cur) /\ Sound(moved)
    /\ \A a \in Actors :
          /\ proc[a].at = "rootcert" => cur.cakey = proc[a].ca
          /\ proc[a].at \in {"writekey", "writecert"} =>
                cur.ca # Nothing /\ proc[a].leaf.issuer = cur.ca
    /\ served # Nothing /\ config.mode = "managed" =>
          cur # Nothing /\ cur.ca # Nothing /\ served.cert.issuer = cur.ca

LatestInv ==
    /\ ~Installing => Continues(cur, latest)
    /\ Installing =>
          /\ Continues(Old, cmd.last)
          /\ latest = IF cmd.at \in {"sync", "undo"} /\ cmd.kind = "restoreca" /\ cmd.last # Nothing
                      THEN cmd.staged.ca ELSE cmd.last

ContinuityInv ==
    Without({"overlap", "roots", "swap", "rollback"}) => SoundInv /\ LatestInv

-----------------------------------------------------------------------------
(* Values *)

LEMMA NothingFacts ==
    /\ Nothing \notin Nat /\ Nothing \notin Certificates /\ Nothing \notin Directories
    /\ Nothing \notin Pairs /\ Nothing \in Ids /\ Nat \subseteq Ids
  BY NothingAssumption DEF Ids

LEMMA ConfigFacts ==
    ASSUME NEW c \in Configs
    PROVE  c.mode \in Modes /\ c.host \in ConfigHosts
  BY BudgetAssumption DEF Configs, ConfigHosts

LEMMA LeafFacts ==
    ASSUME now \in Nat, NEW n \in Nat, NEW i \in Ids, NEW h \in ConfigHosts
    PROVE  /\ Leaf(n, i, h) \in Certificates
           /\ Leaf(n, i, h).n = n /\ Leaf(n, i, h).issuer = i /\ Leaf(n, i, h).host = h
  BY DEF Leaf, Certificates

LEMMA DirectoryFacts == Directory \in Directories /\ Directory.ca = Nothing /\ Directory.cert = Nothing
  BY DEF Directory, Directories, Ids

LEMMA PairFacts ==
    ASSUME NEW cert \in Certificates \cup {Nothing}, NEW k, NEW h, Valid(cert, k, h)
    PROVE  Pair(cert, k) \in Pairs /\ k = cert.n /\ cert.host = h /\ cert \in Certificates
  BY DEF Valid, Pair, Pairs, Certificates

LEMMA ProviderFacts ==
    ASSUME NEW c \in Configs, NEW again \in BOOLEAN
    PROVE  /\ Provider(c, again) \in Providers
           /\ Provider(c, again).mode = c.mode /\ Provider(c, again).host = c.host
           /\ Provider(c, again).again = again
           /\ Provider(c, again).at = CASE c.mode = "managed" -> "prepare" [] c.mode = "acme" -> "account"
                                         [] c.mode = "external" -> "reload" [] OTHER -> "idle"
<1>1. c.mode \in Modes /\ c.host \in ConfigHosts
  BY ConfigFacts
<1> QED
  BY <1>1 DEF Provider, Providers, ManagedStates, AcmeStates, Ids

LEMMA OffFacts == Off \notin Providers /\ Off \notin Commands /\ Off.at = "off"
  BY DEF Off, Providers, Commands, ManagedStates, AcmeStates, Steps, Writes

LEMMA WrittenFacts ==
    ASSUME NEW a \in Actors, cur \in Directories, proc[a] \in Providers, proc[a].at \in Writes,
           proc[a].at \in {"writekey", "writecert"} => proc[a].leaf \in Certificates
    PROVE  Written(a) \in Directories
<1>1. CASE proc[a].at = "rootkey"
  BY <1>1 DEF Written, IsAt, Directories, Providers
<1>2. CASE proc[a].at = "rootcert"
  BY <1>2 DEF Written, IsAt, Directories, Providers
<1>3. CASE proc[a].at = "writekey"
  BY <1>3, NothingFacts DEF Written, IsAt, Directories, Certificates
<1>4. CASE proc[a].at = "writecert"
  BY <1>4 DEF Written, IsAt, Directories
<1> QED
  BY <1>1, <1>2, <1>3, <1>4 DEF Writes

LEMMA RemnantFacts ==
    ASSUME NEW d \in Directories, NEW r \in Remnants(d)
    PROVE  r \in Directories
<1>1. PICK F \in SUBSET DOMAIN d : r = [f \in DOMAIN d |-> IF f \in F THEN d[f] ELSE Nothing]
  BY DEF Remnants
<1>2. DOMAIN d = {"ca", "cakey", "cert", "key"}
  BY DEF Directories
<1> QED
  BY <1>1, <1>2, NothingFacts DEF Directories

-----------------------------------------------------------------------------
(* A step of a provider *)

Advances(a) ==
    /\ proc[a] \in Providers
    /\ proc' \in [Actors -> Providers \cup {Off}] /\ \A b \in Actors \ {a} : proc'[b] = proc[b]
    /\ proc'[a] # Off =>
          /\ proc'[a].mode = proc[a].mode /\ proc'[a].host = proc[a].host
          /\ proc'[a].again => proc[a].again
    /\ a = "server" => proc'[a] # Off

LEMMA DoneFacts ==
    ASSUME ProcessTypes, NEW a \in Actors, proc[a] \in Providers, NEW pair \in Pairs \cup {Nothing},
           ProviderDone(a, pair)
    PROVE  /\ Advances(a)
           /\ \/ proc'[a] = Off \/ proc'[a].at \in {"idle", "failed"}
              \/ proc'[a].at = "load" /\ proc[a].again
           /\ served' = IF a = "server" /\ pair # Nothing THEN pair ELSE served
           /\ served' \in Pairs \cup {Nothing}
<1> DEFINE s == IF pair = Nothing /\ served = Nothing /\ proc[a].mode # "acme" THEN "failed" ELSE "idle"
<1> DEFINE q == IF a = "server"
                THEN [proc[a] EXCEPT !.ca = Nothing, !.leaf = Nothing, !.at = s]
                ELSE IF proc[a].again /\ pair # Nothing
                THEN [proc[a] EXCEPT !.at = "load", !.force = TRUE, !.again = FALSE, !.leaf = Nothing]
                ELSE Off
<1>1. /\ q \in Providers \cup {Off} /\ (a = "server" => q \in Providers)
      /\ q # Off => q.mode = proc[a].mode /\ q.host = proc[a].host /\ (q.again => proc[a].again)
      /\ q = Off \/ q.at \in {"idle", "failed"} \/ (q.at = "load" /\ proc[a].again)
  <2>1. s \in {"idle", "failed"}
    OBVIOUS
  <2> HIDE DEF s
  <2>2. /\ [proc[a] EXCEPT !.ca = Nothing, !.leaf = Nothing, !.at = s] \in Providers
        /\ [proc[a] EXCEPT !.at = "load", !.force = TRUE, !.again = FALSE, !.leaf = Nothing] \in Providers
    BY <2>1, NothingFacts DEF Providers, ManagedStates, AcmeStates
  <2>3. CASE a = "server"
    BY <2>1, <2>2, <2>3 DEF Providers
  <2>4. CASE a # "server" /\ proc[a].again /\ pair # Nothing
    BY <2>2, <2>4 DEF Providers
  <2>5. CASE a # "server" /\ ~(proc[a].again /\ pair # Nothing)
    BY <2>5
  <2> QED
    BY <2>3, <2>4, <2>5
<1>2. proc' = [proc EXCEPT ![a] = q] /\ proc'[a] = q
  BY DEF ProviderDone, ProcessTypes
<1>3. served' = IF a = "server" /\ pair # Nothing THEN pair ELSE served
  BY DEF ProviderDone
<1> HIDE DEF q
<1>4. Advances(a)
  BY <1>1, <1>2, OffFacts DEF Advances, ProcessTypes
<1> QED
  BY <1>1, <1>2, <1>3, <1>4 DEF ProcessTypes

LEMMA ToFacts ==
    ASSUME ProcessTypes, NEW a \in Actors, proc[a] \in Providers,
           NEW s \in ManagedStates \cup AcmeStates \cup {"reload"}, To(a, s)
    PROVE  /\ Advances(a) /\ proc'[a] = [proc[a] EXCEPT !.at = s]
           /\ proc'[a] \in Providers /\ proc'[a].at = s /\ proc'[a].ca = proc[a].ca
           /\ proc'[a].leaf = proc[a].leaf
<1>1. proc'[a] = [proc[a] EXCEPT !.at = s] /\ proc' = [proc EXCEPT ![a] = proc'[a]]
  BY DEF To, ProcessTypes
<1>2. /\ proc'[a] \in Providers /\ proc'[a].mode = proc[a].mode /\ proc'[a].host = proc[a].host
      /\ proc'[a].again = proc[a].again /\ proc'[a].at = s /\ proc'[a].ca = proc[a].ca
      /\ proc'[a].leaf = proc[a].leaf
  BY <1>1 DEF Providers
<1> QED
  BY <1>1, <1>2, OffFacts DEF Advances, ProcessTypes

LEMMA ActiveFacts ==
    ASSUME ProcessTypes, NEW a \in Actors, proc[a].at # "off"
    PROVE  proc[a] \in Providers /\ proc[a] # Off
  BY OffFacts DEF ProcessTypes

LEMMA AdvanceKeepsModes ==
    ASSUME ProcessTypes, ModeInv, NEW a \in Actors, Advances(a),
           proc'[a].at \in ManagedStates => proc[a].mode = "managed",
           proc'[a].at \in AcmeStates => proc[a].mode = "acme",
           proc'[a].at = "reload" => proc[a].mode # "managed",
           proc'[a].at \in {"writekey", "writecert"} => proc'[a].leaf \in Certificates,
           proc'[a].at \in {"rootkey", "rootcert", "accountkey", "registration", "register"} =>
              proc'[a].ca # Nothing
    PROVE  ModeInv'
<1> SUFFICES ASSUME NEW b \in Actors
             PROVE  /\ proc'[b].at \in ManagedStates => proc'[b].mode = "managed"
                    /\ proc'[b].at \in AcmeStates => proc'[b].mode = "acme"
                    /\ proc'[b].at = "reload" => proc'[b].mode # "managed"
                    /\ proc'[b] # Off /\ proc'[b].again => proc'[b].mode = "managed"
                    /\ proc'[b].at \in Writes \ {"rootkey", "rootcert"} => proc'[b].leaf \in Certificates
                    /\ proc'[b].at \in {"rootkey", "rootcert", "accountkey", "registration", "register"} =>
                          proc'[b].ca # Nothing
  BY DEF ModeInv
<1>1. CASE b # a
  BY <1>1 DEF ModeInv, Advances
<1>2. CASE b = a /\ proc'[a] = Off
  BY <1>2, OffFacts DEF ManagedStates, AcmeStates, Writes
<1>3. CASE b = a /\ proc'[a] # Off
  BY <1>3, OffFacts DEF ModeInv, Advances, Writes
<1> QED
  BY <1>1, <1>2, <1>3

LEMMA ManagedStepFacts ==
    ASSUME FilesTypes, ModeInv, NEW a \in Actors, ManagedStep(a)
    PROVE  FilesTypes' /\ ModeInv' /\ Advances(a)
<1> USE DEF FilesTypes
<1>1. CASE Prepare(a)
  <2>1. proc[a] \in Providers /\ proc[a].mode = "managed"
    BY <1>1, ActiveFacts DEF Prepare, IsAt, ModeInv, ManagedStates
  <2>2. Advances(a) /\ proc'[a].at = "look"
    BY <1>1, <2>1, ToFacts DEF Prepare, ManagedStates
  <2>3. ModeInv'
    BY <2>1, <2>2, AdvanceKeepsModes DEF AcmeStates
  <2> QED
    BY <1>1, <2>2, <2>3, DirectoryFacts
    DEF Prepare, Advances, DiskTypes, ProcessTypes, UnchangedByProvider, data, clients
<1>2. CASE Look(a)
  <2>1. proc[a] \in Providers /\ proc[a].mode = "managed"
    BY <1>2, ActiveFacts DEF Look, IsAt, ModeInv, ManagedStates
  <2>2. CASE cur = Nothing \/ cur.ca = Nothing
    <3>1. proc' = [proc EXCEPT ![a].at = "rootkey", ![a].ca = next] /\ next' = next + 1
      BY <1>2, <2>2 DEF Look, New
    <3>2. proc'[a] = [proc[a] EXCEPT !.at = "rootkey", !.ca = next] /\ proc' = [proc EXCEPT ![a] = proc'[a]]
      BY <3>1 DEF ProcessTypes
    <3>3. /\ proc'[a] \in Providers /\ proc'[a].mode = proc[a].mode /\ proc'[a].host = proc[a].host
          /\ proc'[a].again = proc[a].again /\ proc'[a].at = "rootkey" /\ proc'[a].ca = next
      BY <2>1, <3>2, NothingFacts DEF Providers, ProcessTypes, ManagedStates, Writes
    <3>4. Advances(a)
      BY <2>1, <3>2, <3>3, OffFacts DEF Advances, ProcessTypes
    <3>5. ModeInv'
      BY <2>1, <3>3, <3>4, NothingFacts, AdvanceKeepsModes DEF AcmeStates, ProcessTypes
    <3> QED
      BY <1>2, <3>1, <3>4, <3>5
      DEF Look, Advances, DiskTypes, ProcessTypes, UnchangedByProvider, data, clients
  <2>3. CASE ~(cur = Nothing \/ cur.ca = Nothing)
    <3>1. To(a, "load") /\ next' = next
      BY <1>2, <2>3 DEF Look
    <3>2. Advances(a) /\ proc'[a].at = "load"
      BY <2>1, <3>1, ToFacts DEF ManagedStates
    <3>3. ModeInv'
      BY <2>1, <3>2, AdvanceKeepsModes DEF AcmeStates
    <3> QED
      BY <1>2, <3>1, <3>2, <3>3
      DEF Look, Advances, DiskTypes, ProcessTypes, UnchangedByProvider, data, clients
  <2> QED
    BY <2>2, <2>3
<1>3. CASE LoadManaged(a)
  <2>1. proc[a] \in Providers /\ proc[a].mode = "managed"
    BY <1>3, ActiveFacts DEF LoadManaged, IsAt, ModeInv, ManagedStates
  <2>2. CASE CAUsable(cur) /\ New /\ served' = served
                /\ proc' = [proc EXCEPT ![a].at = "writekey", ![a].leaf = Leaf(next, cur.ca, proc[a].host)]
    <3>1. Leaf(next, cur.ca, proc[a].host) \in Certificates
      BY <2>1, <2>2, LeafFacts DEF CAUsable, DiskTypes, ProcessTypes, Directories, Providers
    <3>2. /\ proc'[a] = [proc[a] EXCEPT !.at = "writekey", !.leaf = Leaf(next, cur.ca, proc[a].host)]
          /\ proc' = [proc EXCEPT ![a] = proc'[a]]
      BY <2>2 DEF ProcessTypes
    <3>3. /\ proc'[a] \in Providers /\ proc'[a].mode = proc[a].mode /\ proc'[a].host = proc[a].host
          /\ proc'[a].again = proc[a].again /\ proc'[a].at = "writekey" /\ proc'[a].leaf \in Certificates
      BY <2>1, <3>1, <3>2 DEF Providers, ManagedStates, Writes
    <3>4. Advances(a)
      BY <2>1, <3>2, <3>3, OffFacts DEF Advances, ProcessTypes
    <3>5. ModeInv'
      BY <2>1, <3>3, <3>4, NothingFacts, AdvanceKeepsModes DEF AcmeStates, ProcessTypes
    <3> QED
      BY <1>3, <2>2, <3>4, <3>5
      DEF LoadManaged, New, Advances, DiskTypes, ProcessTypes, UnchangedByProvider, data, clients
  <2>3. CASE UNCHANGED next /\ \E pair \in Pairs \cup {Nothing} : ProviderDone(a, pair)
    <3>1. /\ Advances(a) /\ served' \in Pairs \cup {Nothing}
          /\ proc'[a] = Off \/ proc'[a].at \in {"idle", "failed", "load"}
      BY <2>1, <2>3, DoneFacts
    <3>2. ModeInv'
      BY <2>1, <3>1, OffFacts, AdvanceKeepsModes DEF AcmeStates, ManagedStates, Writes
    <3> QED
      BY <1>3, <2>3, <3>1, <3>2
      DEF LoadManaged, Advances, DiskTypes, ProcessTypes, UnchangedByProvider, data, clients
  <2>4. \/ CAUsable(cur) /\ New /\ served' = served
              /\ proc' = [proc EXCEPT ![a].at = "writekey", ![a].leaf = Leaf(next, cur.ca, proc[a].host)]
        \/ UNCHANGED next /\ \E pair \in Pairs \cup {Nothing} : ProviderDone(a, pair)
    <3>1. cur # Nothing /\ Valid(cur.cert, cur.key, proc[a].host) =>
             Pair(cur.cert, cur.key) \in Pairs \cup {Nothing}
      BY PairFacts DEF DiskTypes, Directories
    <3> QED
      BY <1>3, <3>1 DEF LoadManaged
  <2> QED
    BY <2>2, <2>3, <2>4
<1>4. CASE WriteFile(a)
  <2>1. proc[a] \in Providers /\ proc[a].mode = "managed" /\ proc[a].at \in Writes
    BY <1>4, ActiveFacts DEF WriteFile, IsAt, ModeInv, ManagedStates, Writes
  <2>2. Written(a) \in Directories
    BY <1>4, <2>1, WrittenFacts DEF WriteFile, ModeInv, Writes, DiskTypes
  <2>3. AfterWrite[proc[a].at] \in {"rootcert", "load", "writecert", "check"}
        /\ (AfterWrite[proc[a].at] = "rootcert" => proc[a].at = "rootkey")
        /\ (AfterWrite[proc[a].at] = "writecert" => proc[a].at = "writekey")
    BY <2>1 DEF AfterWrite, Writes
  <2>4. /\ Advances(a) /\ proc'[a].at = AfterWrite[proc[a].at]
        /\ proc'[a].ca = proc[a].ca /\ proc'[a].leaf = proc[a].leaf
    BY <1>4, <2>1, <2>3, ToFacts DEF WriteFile, ManagedStates, Writes
  <2>5. ModeInv'
    <3>1. proc'[a].at \in {"writekey", "writecert"} => proc'[a].leaf \in Certificates
      BY <2>3, <2>4 DEF ModeInv, Writes
    <3>2. proc'[a].at \in {"rootkey", "rootcert", "accountkey", "registration", "register"} =>
              proc'[a].ca # Nothing
      BY <2>3, <2>4 DEF ModeInv
    <3>3. proc'[a].at \notin AcmeStates \cup {"reload"}
      BY <2>3, <2>4 DEF AcmeStates
    <3> QED
      BY <2>1, <2>4, <3>1, <3>2, <3>3, AdvanceKeepsModes
  <2> QED
    BY <1>4, <2>2, <2>4, <2>5
    DEF WriteFile, Advances, DiskTypes, ProcessTypes, UnchangedByProvider, data, clients
<1>5. CASE WriteFails(a)
  <2>1. proc[a] \in Providers /\ proc[a].mode = "managed" /\ proc[a].at \in Writes
    BY <1>5, ActiveFacts DEF WriteFails, IsAt, ModeInv, ManagedStates, Writes
  <2>2. cur' \in Directories \cup {Nothing}
    BY <1>5, <2>1, WrittenFacts DEF WriteFails, ModeInv, Writes, DiskTypes
  <2>3. /\ Advances(a) /\ served' \in Pairs \cup {Nothing}
        /\ proc'[a] = Off \/ proc'[a].at \in {"idle", "failed", "load"}
    BY <1>5, <2>1, DoneFacts DEF WriteFails
  <2>4. ModeInv'
    BY <2>1, <2>3, OffFacts, AdvanceKeepsModes DEF AcmeStates, ManagedStates, Writes
  <2>5. DOMAIN budget' = Counters \cup {"ops", "configs"} /\ budget'.configs \subseteq Configs
    BY <1>5 DEF WriteFails, Spend, ProcessTypes, Counters
  <2> QED
    BY <1>5, <2>2, <2>3, <2>4, <2>5
    DEF WriteFails, Advances, DiskTypes, ProcessTypes, UnchangedByProvider, data, clients
<1>6. CASE CheckManaged(a)
  <2>1. proc[a] \in Providers /\ proc[a].mode = "managed"
    BY <1>6, ActiveFacts DEF CheckManaged, IsAt, ModeInv, ManagedStates
  <2>2. \E pair \in Pairs \cup {Nothing} : ProviderDone(a, pair)
    <3>1. cur # Nothing /\ Valid(cur.cert, cur.key, proc[a].host) => Pair(cur.cert, cur.key) \in Pairs
      BY PairFacts DEF DiskTypes, Directories
    <3> QED
      BY <1>6, <3>1 DEF CheckManaged
  <2>3. /\ Advances(a) /\ served' \in Pairs \cup {Nothing}
        /\ proc'[a] = Off \/ proc'[a].at \in {"idle", "failed", "load"}
    BY <2>1, <2>2, DoneFacts
  <2>4. ModeInv'
    BY <2>1, <2>3, OffFacts, AdvanceKeepsModes DEF AcmeStates, ManagedStates, Writes
  <2> QED
    BY <1>6, <2>3, <2>4
    DEF CheckManaged, Advances, DiskTypes, ProcessTypes, UnchangedByProvider, data, clients
<1> QED
  BY <1>1, <1>2, <1>3, <1>4, <1>5, <1>6 DEF ManagedStep

LEMMA ReloadFacts ==
    ASSUME FilesTypes, ModeInv, NEW a \in Actors, ReloadExternal(a)
    PROVE  FilesTypes' /\ ModeInv' /\ Advances(a)
<1> USE DEF FilesTypes
<1>1. proc[a] \in Providers
  BY ActiveFacts DEF ReloadExternal, IsAt
<1>2. \E pair \in Pairs \cup {Nothing} : ProviderDone(a, pair)
  <2>1. Valid(ext.cert, ext.key, proc[a].host) => Pair(ext.cert, ext.key) \in Pairs
    BY PairFacts DEF DiskTypes
  <2> QED
    BY <2>1 DEF ReloadExternal
<1>3. /\ Advances(a) /\ served' \in Pairs \cup {Nothing}
      /\ \/ proc'[a] = Off \/ proc'[a].at \in {"idle", "failed"}
         \/ proc'[a].at = "load" /\ proc[a].again
  BY <1>1, <1>2, DoneFacts
<1>4. proc'[a].at \in ManagedStates => proc[a].mode = "managed"
  BY <1>1, <1>3, OffFacts DEF ModeInv, ManagedStates, Writes
<1>5. ModeInv'
  BY <1>1, <1>3, <1>4, OffFacts, AdvanceKeepsModes DEF AcmeStates, ManagedStates, Writes
<1> QED
  BY <1>3, <1>5
  DEF ReloadExternal, Advances, DiskTypes, ProcessTypes, UnchangedByProvider, data, clients

LEMMA AcmeStepFacts ==
    ASSUME FilesTypes, ModeInv, NEW a \in Actors, AcmeStep(a)
    PROVE  FilesTypes' /\ ModeInv' /\ Advances(a)
<1> USE DEF FilesTypes
<1>0. proc[a].at \in AcmeStates /\ proc[a] \in Providers /\ proc[a].mode = "acme" /\ proc[a].ca \in Ids
  <2>1. proc[a].at \in AcmeStates
    BY DEF AcmeStep, LoadAccount, StoreAccount, LoadRegistration, RegisterAccount, Obtain, AcmeFails,
           IsAt, AcmeStates
  <2>2. proc[a] \in Providers
    BY <2>1, ActiveFacts DEF AcmeStates
  <2> QED
    BY <2>1, <2>2 DEF ModeInv, Providers
<1>1. CASE LoadAccount(a)
  <2>1. PICK k \in Nat, s \in {"registration", "accountkey"} :
           proc' = [proc EXCEPT ![a].at = s, ![a].ca = k] /\ next' \in Nat
    BY <1>1 DEF LoadAccount, New, DiskTypes, ProcessTypes, Ids
  <2>2. proc'[a] = [proc[a] EXCEPT !.at = s, !.ca = k] /\ proc' = [proc EXCEPT ![a] = proc'[a]]
    BY <2>1 DEF ProcessTypes
  <2>3. /\ proc'[a] \in Providers /\ proc'[a].mode = proc[a].mode /\ proc'[a].host = proc[a].host
        /\ proc'[a].again = proc[a].again /\ proc'[a].at = s /\ proc'[a].ca = k
    BY <1>0, <2>2, NothingFacts DEF Providers, AcmeStates
  <2>4. Advances(a)
    BY <1>0, <2>2, <2>3, OffFacts DEF Advances, ProcessTypes
  <2>5. ModeInv'
    BY <1>0, <2>3, <2>4, NothingFacts, AdvanceKeepsModes DEF ManagedStates, Writes
  <2> QED
    BY <1>1, <2>1, <2>4, <2>5
    DEF LoadAccount, Advances, DiskTypes, ProcessTypes, UnchangedByProvider, data, clients
<1>2. CASE StoreAccount(a)
  <2>1. Advances(a) /\ proc'[a].at = "registration" /\ proc'[a].ca = proc[a].ca
    BY <1>0, <1>2, ToFacts DEF StoreAccount, AcmeStates
  <2>2. ModeInv'
    <3>1. proc'[a].ca # Nothing
      BY <1>2, <2>1 DEF StoreAccount, IsAt, ModeInv
    <3> QED
      BY <1>0, <2>1, <3>1, AdvanceKeepsModes DEF ManagedStates, Writes
  <2> QED
    BY <1>0, <1>2, <2>1, <2>2
    DEF StoreAccount, Advances, DiskTypes, ProcessTypes, UnchangedByProvider, data, clients
<1>3. CASE LoadRegistration(a)
  <2>1. PICK s \in {"register", "obtain"} : proc' = [proc EXCEPT ![a].at = s, ![a].leaf = acct.reg]
    BY <1>3 DEF LoadRegistration
  <2>2. /\ proc'[a] = [proc[a] EXCEPT !.at = s, !.leaf = acct.reg] /\ proc' = [proc EXCEPT ![a] = proc'[a]]
        /\ acct.reg \in Ids
    BY <2>1 DEF ProcessTypes, DiskTypes
  <2>3. /\ proc'[a] \in Providers /\ proc'[a].mode = proc[a].mode /\ proc'[a].host = proc[a].host
        /\ proc'[a].again = proc[a].again /\ proc'[a].at = s /\ proc'[a].ca = proc[a].ca
    BY <1>0, <2>2 DEF Providers, AcmeStates
  <2>4. Advances(a)
    BY <1>0, <2>2, <2>3, OffFacts DEF Advances, ProcessTypes
  <2>5. ModeInv'
    <3>1. proc'[a].ca # Nothing
      BY <1>3, <2>3 DEF LoadRegistration, IsAt, ModeInv
    <3> QED
      BY <1>0, <2>3, <2>4, <3>1, AdvanceKeepsModes DEF ManagedStates, Writes
  <2> QED
    BY <1>3, <2>4, <2>5
    DEF LoadRegistration, Advances, DiskTypes, ProcessTypes, UnchangedByProvider, data, clients
<1>4. CASE RegisterAccount(a)
  <2>1. proc' = [proc EXCEPT ![a].at = "obtain", ![a].leaf = proc[a].ca]
    BY <1>4 DEF RegisterAccount
  <2>2. /\ proc'[a] = [proc[a] EXCEPT !.at = "obtain", !.leaf = proc[a].ca]
        /\ proc' = [proc EXCEPT ![a] = proc'[a]]
    BY <2>1 DEF ProcessTypes
  <2>3. /\ proc'[a] \in Providers /\ proc'[a].mode = proc[a].mode /\ proc'[a].host = proc[a].host
        /\ proc'[a].again = proc[a].again /\ proc'[a].at = "obtain"
    BY <1>0, <2>2 DEF Providers, AcmeStates
  <2>4. Advances(a)
    BY <1>0, <2>2, <2>3, OffFacts DEF Advances, ProcessTypes
  <2>5. ModeInv'
    BY <1>0, <2>3, <2>4, AdvanceKeepsModes DEF ManagedStates, Writes
  <2> QED
    BY <1>0, <1>4, <2>4, <2>5
    DEF RegisterAccount, Advances, DiskTypes, ProcessTypes, UnchangedByProvider, data, clients
<1>5. CASE Obtain(a)
  <2> DEFINE leaf == Leaf(next, Nothing, proc[a].host)
  <2>1. leaf \in Certificates /\ leaf.n = next
    BY <1>0, LeafFacts, NothingFacts DEF ProcessTypes, Providers
  <2>2. Pair(leaf, leaf.n) \in Pairs
    BY <2>1 DEF Pair, Pairs, Certificates
  <2> HIDE DEF leaf
  <2>3. acct' = [acct EXCEPT !.bundle = leaf] /\ ProviderDone(a, Pair(leaf, leaf.n)) /\ next' = next + 1
    BY <1>5 DEF Obtain, New, leaf
  <2>4. /\ Advances(a) /\ served' \in Pairs \cup {Nothing}
        /\ \/ proc'[a] = Off \/ proc'[a].at \in {"idle", "failed"}
           \/ proc'[a].at = "load" /\ proc[a].again
    BY <1>0, <2>2, <2>3, DoneFacts
  <2>5. proc'[a].at \in ManagedStates => proc[a].mode = "managed"
    BY <1>0, <2>4, OffFacts DEF ModeInv, ManagedStates, Writes
  <2>6. ModeInv'
    BY <1>0, <2>4, <2>5, OffFacts, AdvanceKeepsModes DEF AcmeStates, ManagedStates, Writes
  <2> QED
    BY <1>5, <2>1, <2>3, <2>4, <2>6
    DEF Obtain, Advances, DiskTypes, ProcessTypes, UnchangedByProvider, data, clients
<1>6. CASE AcmeFails(a)
  <2>1. /\ Advances(a) /\ served' \in Pairs \cup {Nothing}
        /\ \/ proc'[a] = Off \/ proc'[a].at \in {"idle", "failed"}
           \/ proc'[a].at = "load" /\ proc[a].again
    BY <1>0, <1>6, DoneFacts DEF AcmeFails
  <2>2. proc'[a].at \in ManagedStates => proc[a].mode = "managed"
    BY <1>0, <2>1, OffFacts DEF ModeInv, ManagedStates, Writes
  <2>3. ModeInv'
    BY <1>0, <2>1, <2>2, OffFacts, AdvanceKeepsModes DEF AcmeStates, ManagedStates, Writes
  <2>4. DOMAIN budget' = Counters \cup {"ops", "configs"} /\ budget'.configs \subseteq Configs
    BY <1>6 DEF AcmeFails, Spend, ProcessTypes, Counters
  <2>5. acct' \in [key : Ids, reg : Ids, bundle : Certificates \cup {Nothing}]
    <3>1. CASE acct' = [acct EXCEPT !.bundle = Leaf(next, Nothing, proc[a].host)]
      <4>1. Leaf(next, Nothing, proc[a].host) \in Certificates
        BY <1>0, LeafFacts, NothingFacts DEF ProcessTypes, Providers
      <4> QED
        BY <3>1, <4>1 DEF DiskTypes
    <3> QED
      BY <1>0, <1>6, <3>1 DEF AcmeFails, DiskTypes
  <2>6. next' = next \/ next' = next + 1
    BY <1>6 DEF AcmeFails, New
  <2> QED
    BY <1>6, <2>1, <2>3, <2>4, <2>5, <2>6
    DEF AcmeFails, Advances, DiskTypes, ProcessTypes, UnchangedByProvider, data, clients
<1> QED
  BY <1>1, <1>2, <1>3, <1>4, <1>5, <1>6 DEF AcmeStep

\* The steps of a provider, and what they leave alone.
ProviderStep(a) == ManagedStep(a) \/ ReloadExternal(a) \/ AcmeStep(a)

LEMMA ProviderStepFacts ==
    ASSUME FilesTypes, ModeInv, NEW a \in Actors, ProviderStep(a)
    PROVE  /\ FilesTypes' /\ ModeInv' /\ Advances(a)
           /\ UNCHANGED UnchangedByProvider
<1>1. UNCHANGED UnchangedByProvider
  BY DEF ProviderStep, ManagedStep, Prepare, Look, LoadManaged, WriteFile, WriteFails, CheckManaged,
         ReloadExternal, AcmeStep, LoadAccount, StoreAccount, LoadRegistration, RegisterAccount, Obtain,
         AcmeFails
<1> QED
  BY <1>1, ManagedStepFacts, ReloadFacts, AcmeStepFacts DEF ProviderStep

-----------------------------------------------------------------------------
(* Types, the lock and the shape of a command are kept *)

LEMMA SpendFacts ==
    ASSUME ProcessTypes, NEW k \in Counters, Spend(k)
    PROVE  DOMAIN budget' = Counters \cup {"ops", "configs"} /\ budget'.configs \subseteq Configs
  BY DEF Spend, ProcessTypes, Counters

LEMMA ControlFrame ==
    ASSUME ControlInv, UNCHANGED <<proc, cmd, config, served>>
    PROVE  ControlInv'
  BY DEF ControlInv, LockInv, ModeInv, CommandInv, Installing, Complete, Off

LEMMA CommandFrame ==
    ASSUME CommandInv, UNCHANGED cmd
    PROVE  CommandInv'
  BY DEF CommandInv, Installing, Complete, Off

LEMMA ModeFrame ==
    ASSUME ModeInv, NEW a \in Actors, proc' \in [Actors -> Providers \cup {Off}], proc \in [Actors -> Providers \cup {Off}],
           \A b \in Actors \ {a} : proc'[b] = proc[b],
           \/ proc'[a] = Off
           \/ \E c \in Configs, again \in BOOLEAN :
                 proc'[a] = Provider(c, again) /\ (again => c.mode = "managed")
    PROVE  ModeInv'
<1>1. SUFFICES ASSUME NEW b \in Actors
               PROVE  /\ proc'[b].at \in ManagedStates => proc'[b].mode = "managed"
                      /\ proc'[b].at \in AcmeStates => proc'[b].mode = "acme"
                      /\ proc'[b].at = "reload" => proc'[b].mode # "managed"
                      /\ proc'[b] # Off /\ proc'[b].again => proc'[b].mode = "managed"
                      /\ proc'[b].at \notin {"writekey", "writecert", "rootkey", "rootcert", "accountkey",
                                             "registration", "register"} \/ proc'[b] = proc[b]
  BY DEF ModeInv, Writes
<1>2. CASE b # a
  BY <1>2 DEF ModeInv
<1>3. CASE b = a /\ proc'[a] = Off
  BY <1>3, OffFacts DEF ManagedStates, AcmeStates, Writes
<1>4. CASE b = a /\ proc'[a] # Off
  <2>1. PICK c \in Configs, again \in BOOLEAN :
           proc'[a] = Provider(c, again) /\ (again => c.mode = "managed")
    BY <1>4
  <2>2. /\ proc'[a].mode = c.mode /\ proc'[a].again = again
        /\ proc'[a].at = CASE c.mode = "managed" -> "prepare" [] c.mode = "acme" -> "account"
                           [] c.mode = "external" -> "reload" [] OTHER -> "idle"
    BY <2>1, ProviderFacts
  <2>3. CASE c.mode = "managed"
    <3>1. proc'[a].at = "prepare"
      BY <2>2, <2>3
    <3> QED
      BY <1>4, <2>2, <2>3, <3>1 DEF ManagedStates, AcmeStates, Writes
  <2>4. CASE c.mode = "acme"
    <3>1. proc'[a].at = "account"
      BY <2>2, <2>4
    <3> QED
      BY <1>4, <2>1, <2>2, <2>4, <3>1 DEF ManagedStates, AcmeStates, Writes
  <2>5. CASE c.mode = "external"
    <3>1. proc'[a].at = "reload"
      BY <2>2, <2>5
    <3> QED
      BY <1>4, <2>1, <2>2, <2>5, <3>1 DEF ManagedStates, AcmeStates, Writes
  <2>6. CASE c.mode \notin {"managed", "acme", "external"}
    <3>1. proc'[a].at = "idle"
      BY <2>2, <2>6
    <3> QED
      BY <1>4, <2>1, <2>2, <2>6, <3>1 DEF ManagedStates, AcmeStates, Writes
  <2> QED
    BY <2>3, <2>4, <2>5, <2>6
<1> QED
  BY <1>2, <1>3, <1>4

LEMMA ProviderStepKeepsControl ==
    ASSUME FilesTypes, ControlInv, NEW a \in Actors, ProviderStep(a)
    PROVE  FilesTypes' /\ ControlInv'
<1> USE DEF FilesTypes
<1>1. FilesTypes' /\ ModeInv' /\ Advances(a) /\ UNCHANGED UnchangedByProvider
  BY ProviderStepFacts DEF ControlInv
<1>2. CommandInv'
  BY <1>1, CommandFrame DEF ControlInv, UnchangedByProvider
<1>3. \/ UNCHANGED served
      \/ a = "server" /\ served' \in Pairs /\ served'.key = served'.cert.n
              /\ served'.cert.host = proc[a].host
  <2>1. proc[a] \in Providers
    BY <1>1 DEF Advances
  <2>2. \A pair \in Pairs \cup {Nothing} : ProviderDone(a, pair) =>
            served' = IF a = "server" /\ pair # Nothing THEN pair ELSE served
    BY <2>1, DoneFacts
  <2>3. ProviderDone(a, Nothing) => UNCHANGED served
    BY <2>2
  <2>4. \A cert \in Certificates \cup {Nothing} : \A k : Valid(cert, k, proc[a].host) =>
            /\ Pair(cert, k) \in Pairs
            /\ Pair(cert, k).key = Pair(cert, k).cert.n /\ Pair(cert, k).cert.host = proc[a].host
    BY PairFacts DEF Pair
  <2>5. CASE ManagedStep(a)
    <3>1. cur # Nothing => cur.cert \in Certificates \cup {Nothing}
      BY DEF DiskTypes, Directories
    <3>2. CASE LoadManaged(a)
      BY <2>2, <2>3, <2>4, <3>1, <3>2 DEF LoadManaged
    <3>3. CASE CheckManaged(a)
      BY <2>2, <2>3, <2>4, <3>1, <3>3 DEF CheckManaged
    <3>4. CASE WriteFails(a)
      BY <2>3, <3>4 DEF WriteFails
    <3> QED
      BY <2>5, <3>2, <3>3, <3>4 DEF ManagedStep, Prepare, Look, WriteFile
  <2>6. CASE ReloadExternal(a)
    <3>1. ext.cert \in Certificates \cup {Nothing}
      BY DEF DiskTypes
    <3> QED
      BY <2>2, <2>3, <2>4, <2>6, <3>1 DEF ReloadExternal
  <2>7. CASE AcmeStep(a)
    <3>1. CASE Obtain(a)
      <4> DEFINE leaf == Leaf(next, Nothing, proc[a].host)
      <4>1. leaf \in Certificates /\ leaf.n = next /\ leaf.host = proc[a].host
        BY <2>1, LeafFacts, NothingFacts DEF ProcessTypes, Providers
      <4>2. ProviderDone(a, Pair(leaf, leaf.n))
        BY <3>1 DEF Obtain
      <4> HIDE DEF leaf
      <4>3. Pair(leaf, leaf.n) \in Pairs /\ Pair(leaf, leaf.n).cert = leaf /\ Pair(leaf, leaf.n).key = leaf.n
        BY <4>1 DEF Pair, Pairs, Certificates
      <4> QED
        BY <2>2, <4>1, <4>2, <4>3
    <3>2. CASE AcmeFails(a)
      BY <2>3, <3>2 DEF AcmeFails
    <3> QED
      BY <2>7, <3>1, <3>2
      DEF AcmeStep, LoadAccount, StoreAccount, LoadRegistration, RegisterAccount
  <2> QED
    BY <2>5, <2>6, <2>7 DEF ProviderStep
<1>4. UNCHANGED <<cmd, config>>
  BY <1>1 DEF UnchangedByProvider
<1>5. LockInv'
  <2>1. proc[a] # Off
    BY <1>1, OffFacts DEF Advances
  <2>2. \A b \in {"server", "command"} : proc'[b] # Off => proc[b] # Off /\ (b = "server" =>
                proc'[b].mode = proc[b].mode /\ proc'[b].host = proc[b].host)
    BY <1>1, <2>1 DEF Advances, Actors
  <2>3. proc'["server"] = Off <=> proc["server"] = Off
    BY <1>1, <2>1 DEF Advances, Actors
  <2>4. (proc["server"] = Off => served' = Nothing)
    BY <1>3, <2>1 DEF ControlInv, LockInv
  <2>5. served' # Nothing => served'.key = served'.cert.n /\ served'.cert.host = config.host
    <3>1. CASE UNCHANGED served
      BY <3>1 DEF ControlInv, LockInv
    <3>2. CASE a = "server" /\ served'.key = served'.cert.n /\ served'.cert.host = proc[a].host
      BY <2>1, <3>2 DEF ControlInv, LockInv
    <3> QED
      BY <1>3, <3>1, <3>2
  <2> QED
    BY <1>4, <2>2, <2>3, <2>4, <2>5 DEF ControlInv, LockInv, Off
<1> QED
  BY <1>1, <1>2, <1>5 DEF ControlInv

\* What happens beside the processes.
Aside ==
    \/ \E h \in Hosts : ReplaceExternalCert(h)
    \/ ReplaceExternalKey \/ Tick \/ Write \/ BackupSnapshot \/ BackupPack
    \/ SetupOpen \/ SetupExchange \/ SetupInvite \/ SetupEnds \/ HandOut \/ BackupCA

LEMMA AsideKeepsControl ==
    ASSUME FilesTypes, ControlInv, Aside
    PROVE  FilesTypes' /\ ControlInv'
<1> USE DEF FilesTypes
<1>1. UNCHANGED <<proc, cmd, config, served>>
  BY DEF Aside, ReplaceExternalCert, ReplaceExternalKey, Tick, Write, BackupSnapshot, BackupPack, SetupOpen,
         SetupExchange, SetupInvite, SetupEnds, HandOut, BackupCA
<1>2. ControlInv'
  BY <1>1, ControlFrame
<1>3. ASSUME NEW h \in Hosts, ReplaceExternalCert(h)
      PROVE  FilesTypes'
  <2>1. h \in ConfigHosts
    BY DEF Hosts, ConfigHosts, ProcessTypes
  <2>2. Leaf(next, Nothing, h) \in Certificates
    BY <2>1, LeafFacts, NothingFacts DEF ProcessTypes
  <2> QED
    BY <1>3, <2>2 DEF ReplaceExternalCert, New, DiskTypes, ProcessTypes, pki, data, clients
<1>4. CASE ReplaceExternalKey
  <2>1. ext.cert.n \in Ids
    BY <1>4, NothingFacts DEF ReplaceExternalKey, DiskTypes, Certificates
  <2> QED
    BY <1>2, <1>4, <2>1 DEF ReplaceExternalKey, DiskTypes, ProcessTypes, pki, data, clients
<1>5. CASE Tick \/ SetupOpen \/ BackupSnapshot
  <2>1. DOMAIN budget' = Counters \cup {"ops", "configs"} /\ budget'.configs \subseteq Configs
    BY <1>5, SpendFacts DEF Tick, SetupOpen, BackupSnapshot, Counters
  <2>2. Visible \in Nat
    BY DEF Visible, DiskTypes, Ids
  <2> QED
    <3>1. CASE Tick
      BY <1>2, <2>1, <3>1 DEF Tick, DiskTypes, ProcessTypes, pki, data, clients
    <3>2. CASE SetupOpen
      BY <1>2, <2>1, <3>2 DEF SetupOpen, DiskTypes, ProcessTypes, pki, data, clients
    <3>3. CASE BackupSnapshot
      <4>1. db' \in Nat /\ wal' \in Ids /\ vacuumed' \in Ids
        BY <2>2, <3>3, NothingFacts DEF BackupSnapshot, Checkpoint, DiskTypes
      <4> QED
        BY <1>2, <2>1, <3>3, <4>1 DEF BackupSnapshot, DiskTypes, ProcessTypes, pki, data, clients
    <3> QED
      BY <1>5, <3>1, <3>2, <3>3
<1>6. CASE Write \/ SetupInvite
  <2>1. db' \in Nat /\ wal' \in Ids /\ next' \in Nat
    BY <1>6, NothingFacts DEF Write, SetupInvite, New, DiskTypes, ProcessTypes
  <2> QED
    BY <1>2, <1>6, <2>1 DEF Write, SetupInvite, DiskTypes, ProcessTypes, pki, data, clients
<1>7. CASE BackupPack \/ SetupExchange \/ SetupEnds
  BY <1>2, <1>7, NothingFacts DEF BackupPack, SetupExchange, SetupEnds, DiskTypes, ProcessTypes, pki, data, clients, Ids
<1>8. CASE HandOut \/ BackupCA
  <2>1. cur # Nothing /\ cur.ca \in Nat
    BY <1>8, NothingFacts DEF HandOut, BackupCA, CAUsable, DiskTypes, Directories, Ids
  <2>2. CASE HandOut
    BY <1>2, <2>1, <2>2, NothingFacts DEF HandOut, DiskTypes, ProcessTypes, pki, data, clients
  <2>3. CASE BackupCA
    BY <1>2, <2>1, <2>3 DEF BackupCA, DiskTypes, ProcessTypes, pki, data, clients
  <2> QED
    BY <1>8, <2>2, <2>3
<1> QED
  BY <1>2, <1>3, <1>4, <1>5, <1>6, <1>7, <1>8 DEF Aside

\* Processes that come and go.
ProcessAction ==
    \/ ServerStart \/ Watch \/ ServerStop \/ StatusStart \/ StatusEnds \/ \E a \in Actors : Kill(a)

LEMMA ServerStartFacts ==
    ASSUME FilesTypes, ControlInv, ServerStart
    PROVE  /\ FilesTypes' /\ ControlInv'
           /\ proc["server"] = Off /\ cmd = Off /\ config \in Configs
           /\ \A b \in Actors \ {"server"} : proc'[b] = proc[b]
           /\ proc'["server"] # Off /\ proc'["server"].mode = config.mode
           /\ proc'["server"].at \in {"prepare", "account", "reload", "idle"}
           /\ proc'["server"].at = "idle" => config.mode # "managed"
           /\ config.mode # "acme" => served' = Nothing
<1> USE DEF FilesTypes
<1> DEFINE p == Provider(config, FALSE)
<1>1. config \in Configs /\ proc["server"] = Off /\ cmd = Off
  BY DEF ServerStart, Loaded, Unlocked, DiskTypes
<1>2. /\ p \in Providers /\ p.mode = config.mode /\ p.host = config.host /\ p.again = FALSE
      /\ p.at = CASE config.mode = "managed" -> "prepare" [] config.mode = "acme" -> "account"
                  [] config.mode = "external" -> "reload" [] OTHER -> "idle"
  BY <1>1, ProviderFacts
<1>3. p.at \in {"prepare", "account", "reload", "idle"} /\ (p.at = "idle" => config.mode # "managed")
  BY <1>2
<1> HIDE DEF p
<1>4. /\ [p EXCEPT !.at = "idle"] \in Providers /\ [p EXCEPT !.at = "idle"].mode = config.mode
      /\ [p EXCEPT !.at = "idle"].host = config.host /\ [p EXCEPT !.at = "idle"].again = FALSE
      /\ [p EXCEPT !.at = "idle"].at = "idle"
  BY <1>2 DEF Providers
<1>5. /\ proc' \in [Actors -> Providers \cup {Off}] /\ \A b \in Actors \ {"server"} : proc'[b] = proc[b]
      /\ proc'["server"] \in Providers /\ proc'["server"].mode = config.mode
      /\ proc'["server"].host = config.host /\ proc'["server"].again = FALSE
      /\ proc'["server"] = [p EXCEPT !.at = "idle"] \/ proc'["server"] = p
      /\ config.mode # "acme" => proc'["server"] = p
      /\ config.mode = "acme" => proc'["server"].at = "idle"
  <2>1. /\ proc' = [proc EXCEPT !["server"] = IF config.mode = "acme" THEN [p EXCEPT !.at = "idle"] ELSE p]
        /\ "server" \in Actors
    BY DEF ServerStart, p, Actors
  <2> QED
    BY <1>2, <1>4, <2>1 DEF ProcessTypes
<1>6. proc'["server"].at \in {"prepare", "reload", "idle"} /\ proc'["server"] # Off
      /\ (proc'["server"].at = "idle" => config.mode # "managed")
      /\ (proc'["server"].at = "prepare" => config.mode = "managed")
      /\ (proc'["server"].at = "reload" => config.mode # "managed")
  <2>1. CASE config.mode = "acme"
    BY <1>5, <2>1, OffFacts
  <2>2. CASE config.mode # "acme"
    <3>1. /\ p.at # "account" /\ (p.at = "prepare" => config.mode = "managed")
          /\ p.at = "reload" => config.mode # "managed"
      BY <1>2, <2>2
    <3> QED
      BY <1>3, <1>5, <2>2, <3>1, OffFacts
  <2> QED
    BY <2>1, <2>2
<1>7. ModeInv'
  <2> SUFFICES ASSUME NEW b \in Actors
               PROVE  /\ proc'[b].at \in ManagedStates => proc'[b].mode = "managed"
                      /\ proc'[b].at \in AcmeStates => proc'[b].mode = "acme"
                      /\ proc'[b].at = "reload" => proc'[b].mode # "managed"
                      /\ proc'[b] # Off /\ proc'[b].again => proc'[b].mode = "managed"
                      /\ proc'[b].at \in Writes \ {"rootkey", "rootcert"} => proc'[b].leaf \in Certificates
                      /\ proc'[b].at \in {"rootkey", "rootcert", "accountkey", "registration", "register"} =>
                            proc'[b].ca # Nothing
    BY DEF ModeInv
  <2>1. CASE b = "server"
    BY <1>5, <1>6, <2>1 DEF ManagedStates, AcmeStates, Writes
  <2>2. CASE b # "server"
    BY <1>5, <2>2 DEF ControlInv, ModeInv
  <2> QED
    BY <2>1, <2>2
<1>8. /\ served' \in Pairs \cup {Nothing}
      /\ served' # Nothing => served'.key = served'.cert.n /\ served'.cert.host = config.host
  <2>1. CASE served' = Nothing
    BY <2>1
  <2>2. CASE served' # Nothing
    <3>1. Valid(acct.bundle, acct.bundle.n, config.host) /\ served' = Pair(acct.bundle, acct.bundle.n)
      BY <2>2 DEF ServerStart
    <3>2. acct.bundle \in Certificates \cup {Nothing}
      BY DEF DiskTypes
    <3>3. Pair(acct.bundle, acct.bundle.n) \in Pairs /\ acct.bundle.host = config.host
      BY <3>1, <3>2, PairFacts
    <3> QED
      BY <3>1, <3>3 DEF Pair
  <2> QED
    BY <2>1, <2>2
<1>9. LockInv'
  <2>1. UNCHANGED <<config, cmd>> /\ proc'["command"] = proc["command"]
    BY <1>5 DEF ServerStart, Actors
  <2> QED
    BY <1>1, <1>5, <1>6, <1>8, <2>1 DEF ControlInv, LockInv, Off, ServerStart, Loaded
<1>10. DOMAIN budget' = Counters \cup {"ops", "configs"} /\ budget'.configs \subseteq Configs
  BY SpendFacts DEF ServerStart, Counters
<1>11. FilesTypes'
  BY <1>5, <1>8, <1>10 DEF ServerStart, DiskTypes, ProcessTypes, pki, data, clients
<1>12. CommandInv'
  BY CommandFrame DEF ControlInv, ServerStart
<1> QED
  BY <1>1, <1>5, <1>6, <1>7, <1>9, <1>11, <1>12 DEF ControlInv, ServerStart

LEMMA WatchFacts ==
    ASSUME FilesTypes, ControlInv, Watch
    PROVE  /\ FilesTypes' /\ ControlInv' /\ Advances("server")
           /\ proc["server"].at = "idle" /\ proc'["server"].at \in {"load", "account", "reload"}
           /\ UNCHANGED <<UnchangedByProvider, cur, served, acct, mishaps>>
<1> USE DEF FilesTypes
<1>1. proc["server"] \in Providers /\ proc["server"].at = "idle" /\ "server" \in Actors
  BY ActiveFacts DEF Watch, Serving, Actors
<1>2. PICK s \in {"load", "account", "reload"} :
         /\ To("server", s) /\ (s = "load" => proc["server"].mode = "managed")
         /\ (s = "account" => proc["server"].mode = "acme")
         /\ (s = "reload" => proc["server"].mode # "managed")
  <2> DEFINE mode == proc["server"].mode
  <2>1. To("server", CASE mode = "managed" -> "load" [] mode = "acme" -> "account" [] OTHER -> "reload")
    BY DEF Watch
  <2>2. CASE mode = "managed"
    BY <2>1, <2>2
  <2>3. CASE mode = "acme"
    BY <2>1, <2>3
  <2>4. CASE mode # "managed" /\ mode # "acme"
    BY <2>1, <2>4
  <2> QED
    BY <2>2, <2>3, <2>4
<1>3. Advances("server") /\ proc'["server"].at = s
  BY <1>1, <1>2, ToFacts DEF ManagedStates, AcmeStates
<1>4. ModeInv'
  BY <1>1, <1>2, <1>3, AdvanceKeepsModes DEF ManagedStates, AcmeStates, Writes, ControlInv
<1>5. UNCHANGED <<UnchangedByProvider, budget, next, cur, served, acct, mishaps>>
  BY DEF Watch
<1>6. FilesTypes'
  BY <1>3, <1>5 DEF Advances, DiskTypes, ProcessTypes, UnchangedByProvider, data, clients
<1>7. CommandInv'
  BY <1>5, CommandFrame DEF ControlInv, UnchangedByProvider
<1>8. LockInv'
  BY <1>1, <1>3, <1>5, OffFacts DEF Advances, ControlInv, LockInv, UnchangedByProvider, Actors, Off
<1> QED
  BY <1>1, <1>2, <1>3, <1>4, <1>5, <1>6, <1>7, <1>8 DEF ControlInv

LEMMA ServerStopFacts ==
    ASSUME FilesTypes, ControlInv, ServerStop
    PROVE  /\ FilesTypes' /\ ControlInv' /\ proc["server"] # Off /\ served' = Nothing
           /\ proc' \in [Actors -> Providers \cup {Off}] /\ proc'["server"] = Off
           /\ \A b \in Actors \ {"server"} : proc'[b] = proc[b]
<1> USE DEF FilesTypes
<1>1. proc["server"] \in Providers /\ proc["server"] # Off /\ "server" \in Actors
  BY ActiveFacts DEF ServerStop, Actors
<1>2. /\ proc' \in [Actors -> Providers \cup {Off}] /\ proc'["server"] = Off /\ served' = Nothing
      /\ \A b \in Actors \ {"server"} : proc'[b] = proc[b]
  BY <1>1 DEF ServerStop, ProcessTypes
<1>3. ModeInv'
  BY <1>1, <1>2, ModeFrame DEF ControlInv, ProcessTypes
<1>4. db' \in Nat /\ wal' \in Ids
  BY NothingFacts DEF ServerStop, Checkpoint, Visible, DiskTypes, Ids
<1>5. FilesTypes'
  BY <1>2, <1>4, NothingFacts DEF ServerStop, DiskTypes, ProcessTypes, pki, data, clients
<1>6. CommandInv'
  BY CommandFrame DEF ControlInv, ServerStop
<1>7. LockInv'
  BY <1>2 DEF ServerStop, ControlInv, LockInv, Off, Actors
<1> QED
  BY <1>1, <1>2, <1>3, <1>5, <1>6, <1>7 DEF ControlInv

LEMMA StatusFacts ==
    ASSUME FilesTypes, ControlInv, StatusStart \/ StatusEnds
    PROVE  /\ FilesTypes' /\ ControlInv'
           /\ proc' \in [Actors -> Providers \cup {Off}]
           /\ \A b \in Actors \ {"unlocked"} : proc'[b] = proc[b]
           /\ StatusStart => /\ config \in Configs /\ proc'["unlocked"] = Provider(config, FALSE)
                             /\ proc["unlocked"] = Off
           /\ StatusEnds => proc'["unlocked"] = Off
<1> USE DEF FilesTypes
<1>1. StatusStart => config \in Configs /\ Provider(config, FALSE) \in Providers
  BY ProviderFacts DEF StatusStart, Loaded, DiskTypes
<1>2. /\ proc' \in [Actors -> Providers \cup {Off}]
      /\ \A b \in Actors \ {"unlocked"} : proc'[b] = proc[b]
      /\ StatusStart => proc'["unlocked"] = Provider(config, FALSE) /\ proc["unlocked"] = Off
      /\ StatusEnds => proc'["unlocked"] = Off
  BY <1>1 DEF StatusStart, StatusEnds, ProcessTypes, Actors
<1>3. ModeInv'
  BY <1>1, <1>2, ModeFrame DEF ControlInv, ProcessTypes, Actors
<1>4. DOMAIN budget' = Counters \cup {"ops", "configs"} /\ budget'.configs \subseteq Configs
  BY SpendFacts DEF StatusStart, StatusEnds, Counters, ProcessTypes
<1>5. FilesTypes'
  BY <1>2, <1>4 DEF StatusStart, StatusEnds, DiskTypes, ProcessTypes, pki, data, clients
<1>6. UNCHANGED <<cmd, config, served>>
  BY DEF StatusStart, StatusEnds
<1>7. CommandInv'
  BY <1>6, CommandFrame DEF ControlInv
<1>8. LockInv'
  BY <1>2, <1>6 DEF ControlInv, LockInv, Off, Actors
<1> QED
  BY <1>1, <1>2, <1>3, <1>5, <1>7, <1>8 DEF ControlInv

LEMMA NoCommandIsSound ==
    ASSUME cmd = Off
    PROVE  CommandInv /\ ~Installing
  BY OffFacts DEF CommandInv, Installing, Steps

LEMMA KillFacts ==
    ASSUME FilesTypes, ControlInv, NEW a \in Actors, Kill(a)
    PROVE  /\ FilesTypes' /\ ControlInv'
           /\ proc' \in [Actors -> Providers \cup {Off}] /\ proc'[a] = Off
           /\ \A b \in Actors \ {a} : proc'[b] = proc[b]
<1> USE DEF FilesTypes
<1>1. /\ proc' \in [Actors -> Providers \cup {Off}] /\ proc'[a] = Off
      /\ \A b \in Actors \ {a} : proc'[b] = proc[b]
  BY DEF Kill, ProcessTypes
<1>2. ModeInv'
  BY <1>1, ModeFrame DEF ControlInv, ProcessTypes
<1>3. DOMAIN budget' = Counters \cup {"ops", "configs"} /\ budget'.configs \subseteq Configs
  BY SpendFacts DEF Kill, Counters
<1>4. served' = IF a = "server" THEN Nothing ELSE served
  BY DEF Kill
<1>5. cmd' = IF a = "command" THEN Off ELSE cmd
  BY DEF Kill
<1>6. cur' \in Directories \cup {Nothing} /\ moved' \in Directories \cup {Nothing}
  <2>1. cur # Nothing => Remnants(cur) \subseteq Directories
    BY RemnantFacts DEF DiskTypes
  <2>2. cur' = cur \/ (cur # Nothing /\ cur' \in Remnants(cur))
    BY DEF Kill, pki
  <2> QED
    BY <2>1, <2>2 DEF Kill, pki, DiskTypes
<1>7. UNCHANGED <<now, next, config, ext, acct, archive, data, clients>>
  BY DEF Kill
<1>8. FilesTypes'
  BY <1>1, <1>3, <1>4, <1>5, <1>6, <1>7 DEF DiskTypes, ProcessTypes, data, clients
<1>9. CommandInv'
  <2>1. CASE a = "command"
    BY <1>5, <2>1, NoCommandIsSound, OffFacts DEF CommandInv, Installing, Steps, Off
  <2>2. CASE a # "command"
    BY <1>5, <2>2, CommandFrame DEF ControlInv
  <2> QED
    BY <2>1, <2>2
<1>10. LockInv'
  BY <1>1, <1>4, <1>5, <1>7 DEF ControlInv, LockInv, Off, Actors
<1> QED
  BY <1>1, <1>2, <1>8, <1>9, <1>10 DEF ControlInv

LEMMA ProcessActionKeepsControl ==
    ASSUME FilesTypes, ControlInv, ProcessAction
    PROVE  FilesTypes' /\ ControlInv'
  BY ServerStartFacts, WatchFacts, ServerStopFacts, StatusFacts, KillFacts DEF ProcessAction

-----------------------------------------------------------------------------
(* Steps of a command *)

LEMMA CmdActive ==
    ASSUME ProcessTypes, cmd.at # "off"
    PROVE  cmd \in Commands /\ cmd # Off
  BY OffFacts DEF ProcessTypes

LEMMA CmdToFacts ==
    ASSUME cmd \in Commands, NEW s \in Steps \cup {"provider", "extract", "copy", "install"}, CmdTo(s)
    PROVE  /\ cmd' \in Commands /\ cmd' # Off /\ cmd'.at = s /\ cmd'.kind = cmd.kind /\ cmd'.cfg = cmd.cfg
           /\ cmd'.staged = cmd.staged /\ cmd'.had = cmd.had /\ cmd'.last = cmd.last
<1>1. /\ cmd' \in Commands /\ cmd'.at = s /\ cmd'.kind = cmd.kind /\ cmd'.cfg = cmd.cfg
      /\ cmd'.staged = cmd.staged /\ cmd'.had = cmd.had /\ cmd'.last = cmd.last
  BY DEF CmdTo, Commands
<1> QED
  BY <1>1, OffFacts

LEMMA StagedFacts ==
    ASSUME FilesTypes, NEW c \in Configs, cur # Nothing => CAUsable(cur)
    PROVE  Complete(Staged(c)) /\ (cur # Nothing => Staged(c).ca = cur.ca)
<1> DEFINE root == IF cur = Nothing THEN next ELSE cur.ca
<1>1. root \in Nat /\ next + 1 \in Nat /\ c.host \in ConfigHosts
  BY ConfigFacts DEF FilesTypes, DiskTypes, ProcessTypes, CAUsable, Directories, Ids
<1>2. Staged(c) = [ca |-> root, cakey |-> root, cert |-> Leaf(next + 1, root, c.host), key |-> next + 1]
  BY DEF Staged
<1>3. cur # Nothing => root = cur.ca
  OBVIOUS
<1> HIDE DEF root
<1>4. Leaf(next + 1, root, c.host) \in Certificates /\ Leaf(next + 1, root, c.host).issuer = root
  <2>1. now \in Nat /\ root \in Ids
    BY <1>1, NothingFacts DEF FilesTypes, ProcessTypes
  <2> QED
    BY <1>1, <2>1, LeafFacts
<1> QED
  BY <1>1, <1>2, <1>3, <1>4, NothingFacts DEF Complete, Directories

\* What every command of the CLI and the set-up page begins with.
LEMMA BeginFacts ==
    ASSUME FilesTypes, ControlInv, Unlocked
    PROVE  proc["server"] = Off /\ proc["command"] = Off /\ cmd = Off /\ served = Nothing /\ ~Installing
  BY OffFacts, NoCommandIsSound DEF ControlInv, LockInv, Unlocked

LEMMA BeginKeepsControl ==
    ASSUME FilesTypes, ControlInv, Unlocked, UNCHANGED <<config, proc, served>>, CommandInv'
    PROVE  ControlInv'
<1>1. proc["server"] = Off /\ proc["command"] = Off /\ served = Nothing
  BY BeginFacts
<1>2. ModeInv'
  BY DEF ControlInv, ModeInv, Off
<1>3. LockInv'
  BY <1>1 DEF LockInv, Off
<1> QED
  BY <1>2, <1>3 DEF ControlInv

LEMMA InitializeFacts ==
    ASSUME FilesTypes, ControlInv, NEW c \in budget.configs, Initialize(c)
    PROVE  /\ FilesTypes' /\ ControlInv' /\ Unlocked /\ UNCHANGED proc
           /\ cmd' \in Commands /\ cmd'.kind = "init" /\ cmd'.last = latest
           /\ c.mode = "managed" =>
                 /\ cur # Nothing => CAUsable(cur)
                 /\ cmd'.at = (IF cur # Nothing THEN "stash" ELSE "swap")
                 /\ Complete(cmd'.staged) /\ (cur # Nothing => cmd'.staged.ca = cur.ca)
                 /\ cmd'.had = (cur # Nothing)
           /\ c.mode # "managed" => cmd'.at = "save" /\ cmd'.staged = Nothing
<1> USE DEF FilesTypes
<1>1. c \in Configs /\ Unlocked
  BY DEF ProcessTypes, Initialize
<1>2. proc["server"] = Off /\ proc["command"] = Off /\ cmd = Off /\ served = Nothing
  BY <1>1, BeginFacts
<1>3. UNCHANGED <<UnchangedByCommand, config, pki, proc, clients>>
  BY DEF Initialize
<1>6. /\ DOMAIN budget' = Counters \cup {"ops", "configs"} /\ budget'.configs \subseteq Configs
      /\ next' \in Nat
  <2>1. DOMAIN budget' = Counters \cup {"ops", "configs"} /\ budget'.configs \subseteq Configs
    BY SpendFacts DEF Initialize, Counters
  <2>2. next' \in Nat
    <3>1. next' = next + 2 \/ next' = next
      BY DEF Initialize
    <3> QED
      BY <3>1 DEF ProcessTypes
  <2> QED
    BY <2>1, <2>2
<1>4. CASE c.mode = "managed"
  <2>1. cur # Nothing => CAUsable(cur)
    BY <1>4 DEF Initialize
  <2>2. Complete(Staged(c)) /\ (cur # Nothing => Staged(c).ca = cur.ca) /\ Staged(c) \in Directories
    BY <1>1, <2>1, StagedFacts DEF Complete
  <2> DEFINE s == IF cur # Nothing THEN "stash" ELSE "swap"
  <2>3. s \in Steps /\ s \in {"stash", "swap"}
    BY DEF Steps
  <2>4. cmd' = Command("init", s, c, Staged(c), cur # Nothing)
    BY <1>4 DEF Initialize
  <2> HIDE DEF s
  <2>5. /\ cmd' \in Commands /\ cmd' # Off /\ cmd'.kind = "init" /\ cmd'.at = s /\ cmd'.staged = Staged(c)
        /\ cmd'.had = (cur # Nothing) /\ cmd'.last = latest
    BY <1>1, <2>2, <2>3, <2>4, OffFacts DEF Command, Commands, ProcessTypes
  <2>6. CommandInv'
    <3>1. Complete(cmd.staged)'
      BY <2>2, <2>5 DEF Complete
    <3>2. cmd'.staged # Nothing
      BY <2>2, <2>5, NothingFacts
    <3> QED
      BY <2>3, <2>5, <3>1, <3>2 DEF CommandInv, Installing, Steps
  <2>7. ControlInv'
    BY <1>1, <1>3, <2>6, BeginKeepsControl DEF UnchangedByCommand
  <2>8. FilesTypes'
    BY <1>3, <1>6, <2>5 DEF DiskTypes, ProcessTypes, UnchangedByCommand, pki, data, clients
  <2> QED
    BY <1>1, <1>3, <1>4, <2>1, <2>2, <2>5, <2>7, <2>8 DEF s
<1>5. CASE c.mode # "managed"
  <2>1. cmd' = Command("init", "save", c, Nothing, FALSE)
    BY <1>5 DEF Initialize
  <2>2. /\ cmd' \in Commands /\ cmd' # Off /\ cmd'.kind = "init" /\ cmd'.at = "save"
        /\ cmd'.staged = Nothing /\ cmd'.last = latest
    BY <1>1, <2>1, OffFacts, NothingFacts DEF Command, Commands, ProcessTypes, Steps
  <2>3. CommandInv'
    BY <2>2 DEF CommandInv, Installing, Complete, Steps
  <2>4. ControlInv'
    BY <1>1, <1>3, <2>3, BeginKeepsControl DEF UnchangedByCommand
  <2>5. FilesTypes'
    BY <1>3, <1>6, <2>2 DEF DiskTypes, ProcessTypes, UnchangedByCommand, pki, data, clients
  <2> QED
    BY <1>1, <1>3, <1>5, <2>2, <2>4, <2>5
<1> QED
  BY <1>4, <1>5

LEMMA RestoreCAStartFacts ==
    ASSUME FilesTypes, ControlInv, RestoreCAStart
    PROVE  /\ FilesTypes' /\ ControlInv' /\ Unlocked /\ UNCHANGED proc
           /\ cmd' \in Commands /\ cmd'.kind = "restoreca" /\ cmd'.last = latest
           /\ cmd'.at = (IF cur # Nothing THEN "stash" ELSE "swap")
           /\ Complete(cmd'.staged) /\ cmd'.had = (cur # Nothing)
<1> USE DEF FilesTypes
<1>1. config \in Configs /\ Unlocked
  BY DEF RestoreCAStart, Loaded, DiskTypes
<1>2. PICK root \in archive :
         cmd' = Command("restoreca", IF cur # Nothing THEN "stash" ELSE "swap", config,
                        [ca |-> root, cakey |-> root, cert |-> Leaf(next, root, config.host), key |-> next],
                        cur # Nothing)
  BY DEF RestoreCAStart
<1> DEFINE d == [ca |-> root, cakey |-> root, cert |-> Leaf(next, root, config.host), key |-> next]
<1>3. Complete(d) /\ d \in Directories
  <2>1. root \in Nat /\ next \in Nat /\ config.host \in ConfigHosts /\ now \in Nat
    BY <1>1, ConfigFacts DEF DiskTypes, ProcessTypes
  <2>2. Leaf(next, root, config.host) \in Certificates /\ Leaf(next, root, config.host).issuer = root
    BY <2>1, LeafFacts, NothingFacts
  <2> QED
    BY <2>1, <2>2, NothingFacts DEF Complete, Directories
<1> HIDE DEF d
<1> DEFINE s == IF cur # Nothing THEN "stash" ELSE "swap"
<1>4. s \in Steps /\ s \in {"stash", "swap"}
  BY DEF Steps
<1>5. cmd' = Command("restoreca", s, config, d, cur # Nothing)
  BY <1>2 DEF d
<1> HIDE DEF s
<1>6. /\ cmd' \in Commands /\ cmd' # Off /\ cmd'.kind = "restoreca" /\ cmd'.at = s /\ cmd'.staged = d
      /\ cmd'.had = (cur # Nothing) /\ cmd'.last = latest
  BY <1>1, <1>3, <1>4, <1>5, OffFacts DEF Command, Commands, ProcessTypes
<1>7. CommandInv'
  <2>1. Complete(cmd.staged)'
    BY <1>3, <1>6 DEF Complete
  <2>2. cmd'.staged # Nothing
    BY <1>3, <1>6, NothingFacts
  <2> QED
    BY <1>4, <1>6, <2>1, <2>2 DEF CommandInv, Installing, Steps
<1>8. ControlInv'
  BY <1>1, <1>7, BeginKeepsControl DEF RestoreCAStart, UnchangedByCommand
<1>9. DOMAIN budget' = Counters \cup {"ops", "configs"} /\ budget'.configs \subseteq Configs
  BY SpendFacts DEF RestoreCAStart, Counters
<1>10. next' \in Nat
  BY DEF RestoreCAStart, New, ProcessTypes
<1>11. FilesTypes'
  BY <1>6, <1>9, <1>10 DEF RestoreCAStart, DiskTypes, ProcessTypes, UnchangedByCommand, pki, data, clients
<1> QED
  BY <1>1, <1>3, <1>6, <1>8, <1>11 DEF s, RestoreCAStart

LEMMA RenewStartFacts ==
    ASSUME FilesTypes, ControlInv, RenewStart
    PROVE  /\ FilesTypes' /\ ControlInv' /\ Unlocked /\ config \in Configs
           /\ proc' \in [Actors -> Providers \cup {Off}]
           /\ \A b \in Actors \ {"command"} : proc'[b] = proc[b]
           /\ proc'["command"] = Provider(config, config.mode = "managed") /\ proc["command"] = Off
           /\ cmd' \in Commands /\ cmd'.at = "provider"
<1> USE DEF FilesTypes
<1>1. config \in Configs /\ Unlocked /\ proc["command"] = Off /\ "command" \in Actors
  BY BeginFacts DEF RenewStart, Loaded, DiskTypes, Actors
<1>2. Provider(config, config.mode = "managed") \in Providers
  BY <1>1, ProviderFacts
<1>3. /\ proc' \in [Actors -> Providers \cup {Off}] /\ \A b \in Actors \ {"command"} : proc'[b] = proc[b]
      /\ proc'["command"] = Provider(config, config.mode = "managed")
  BY <1>1, <1>2 DEF RenewStart, ProcessTypes
<1>4. /\ cmd' \in Commands /\ cmd' # Off /\ cmd'.kind = "renew" /\ cmd'.at = "provider"
  BY <1>1, NothingFacts, OffFacts DEF RenewStart, Command, Commands, ProcessTypes
<1>5. CommandInv'
  BY <1>4 DEF CommandInv, Installing, Steps
<1>6. ModeInv'
  BY <1>1, <1>3, ModeFrame DEF ControlInv, ProcessTypes
<1>7. LockInv'
  <2>1. proc'["server"] = Off /\ served = Nothing
    BY <1>1, <1>3, BeginFacts DEF Actors
  <2> QED
    BY <1>4, <2>1 DEF RenewStart, LockInv, Off, UnchangedByCommand
<1>8. DOMAIN budget' = Counters \cup {"ops", "configs"} /\ budget'.configs \subseteq Configs
  BY SpendFacts DEF RenewStart, Counters
<1>9. FilesTypes'
  BY <1>3, <1>4, <1>8 DEF RenewStart, DiskTypes, ProcessTypes, UnchangedByCommand, pki, data, clients
<1> QED
  BY <1>1, <1>3, <1>4, <1>5, <1>6, <1>7, <1>9 DEF ControlInv

LEMMA RestoreStartFacts ==
    ASSUME FilesTypes, ControlInv, RestoreStart
    PROVE  /\ FilesTypes' /\ ControlInv' /\ Unlocked
           /\ cmd' \in Commands /\ cmd'.at = "extract"
<1> USE DEF FilesTypes
<1>1. config \in Configs /\ Unlocked
  BY DEF RestoreStart, Loaded, DiskTypes
<1>2. /\ cmd' \in Commands /\ cmd' # Off /\ cmd'.kind = "restoredb" /\ cmd'.at = "extract"
  BY <1>1, NothingFacts, OffFacts DEF RestoreStart, Command, Commands, ProcessTypes
<1>3. CommandInv'
  BY <1>2 DEF CommandInv, Installing, Steps
<1>4. ControlInv'
  BY <1>1, <1>3, BeginKeepsControl DEF RestoreStart
<1>5. DOMAIN budget' = Counters \cup {"ops", "configs"} /\ budget'.configs \subseteq Configs
  BY SpendFacts DEF RestoreStart, Counters
<1>6. FilesTypes'
  BY <1>2, <1>5 DEF RestoreStart, DiskTypes, ProcessTypes, pki, data, clients
<1> QED
  BY <1>1, <1>2, <1>4, <1>6

\* While a command works, and when it ends, the Server is down.
LEMMA WorkKeepsControl ==
    ASSUME FilesTypes, ControlInv, cmd \in Commands, cmd.at # "provider", UNCHANGED served,
           proc' = proc \/ (ModeInv' /\ proc'["server"] = Off /\ cmd'.at = "provider"),
           CommandInv'
    PROVE  ControlInv'
<1>1. proc["server"] = Off /\ served = Nothing /\ proc["command"] = Off
  BY OffFacts DEF ControlInv, LockInv
<1>2. ModeInv'
  BY DEF ControlInv, ModeInv, Off
<1>3. LockInv'
  BY <1>1, OffFacts DEF LockInv, Off
<1> QED
  BY <1>2, <1>3 DEF ControlInv

LEMMA MoveOnFacts ==
    ASSUME ProcessTypes, CommandInv, cmd.at \in Steps, NEW s \in Steps \cup {"provider"}, CmdTo(s),
           s \in {"save", "commit", "remove"} => cmd.kind = "init",
           s = "undo" => cmd.kind = "restoreca",
           s \in Steps \ {"save", "commit"} => cmd.staged # Nothing
    PROVE  /\ CommandInv' /\ cmd \in Commands /\ cmd' \in Commands /\ cmd' # Off
           /\ cmd'.at = s /\ cmd'.kind = cmd.kind /\ cmd'.cfg = cmd.cfg
           /\ cmd'.staged = cmd.staged /\ cmd'.had = cmd.had /\ cmd'.last = cmd.last
<1>1. cmd \in Commands /\ cmd # Off
  BY CmdActive DEF Steps
<1>2. /\ cmd' \in Commands /\ cmd' # Off /\ cmd'.at = s /\ cmd'.kind = cmd.kind /\ cmd'.cfg = cmd.cfg
      /\ cmd'.staged = cmd.staged /\ cmd'.had = cmd.had /\ cmd'.last = cmd.last
  BY <1>1, CmdToFacts
<1>3. cmd.kind \in {"init", "restoreca"}
  BY DEF CommandInv
<1>4. cmd.staged # Nothing => Complete(cmd'.staged)
  BY <1>2 DEF CommandInv, Installing
<1>5. CommandInv'
  <2>1. Installing' => Complete(cmd.staged)'
    BY <1>2, <1>4 DEF Installing, Complete
  <2> QED
    BY <1>2, <1>3, <2>1 DEF CommandInv, Steps
<1> QED
  BY <1>1, <1>2, <1>5

LEMMA EndFacts ==
    ASSUME NEW ok, Ended(ok)
    PROVE  cmd' = Off /\ CommandInv' /\ ~Installing'
  BY OffFacts DEF Ended, CommandInv, Installing, Steps, Off

\* The steps of a command after its first.
Work ==
    \/ Stash \/ Swap \/ SwapFails \/ Sync \/ SyncFails \/ Save \/ SaveFails \/ Commit
    \/ Remove \/ Undo \/ PutBack \/ RemoveFails

LEMMA WorkFacts ==
    ASSUME FilesTypes, ControlInv, Work
    PROVE  /\ CommandInv' /\ cmd \in Commands /\ cmd.at \in Steps
           /\ \/ cmd' = Off
              \/ /\ cmd' \in Commands /\ cmd'.kind = cmd.kind /\ cmd'.cfg = cmd.cfg
                 /\ cmd'.staged = cmd.staged /\ cmd'.had = cmd.had /\ cmd'.last = cmd.last
                 /\ cmd'.at \in Steps \cup {"provider"}
<1> USE DEF FilesTypes
<1>1. cmd.at \in Steps /\ CommandInv
  BY DEF Work, Stash, Swap, SwapFails, Sync, SyncFails, Save, SaveFails, Commit, Remove, Undo, PutBack,
         RemoveFails, Steps, ControlInv
<1>2. cmd \in Commands /\ cmd.kind \in {"init", "restoreca"}
  BY <1>1, CmdActive DEF Steps, CommandInv
<1> DEFINE Goal ==
       /\ CommandInv'
       /\ \/ cmd' = Off
          \/ /\ cmd' \in Commands /\ cmd'.kind = cmd.kind /\ cmd'.cfg = cmd.cfg
             /\ cmd'.staged = cmd.staged /\ cmd'.had = cmd.had /\ cmd'.last = cmd.last
             /\ cmd'.at \in Steps \cup {"provider"}
<1>3. ASSUME NEW ok, Ended(ok)
      PROVE  Goal
  BY <1>3, EndFacts
<1>4. ASSUME NEW s \in Steps \cup {"provider"}, CmdTo(s),
             s \in {"save", "commit", "remove"} => cmd.kind = "init",
             s = "undo" => cmd.kind = "restoreca",
             s \in Steps \ {"save", "commit"} => cmd.staged # Nothing
      PROVE  Goal
  BY <1>1, <1>4, MoveOnFacts
<1> HIDE DEF Goal
<1>5. CASE Stash
  BY <1>1, <1>2, <1>4, <1>5 DEF Stash, CommandInv, Steps, Goal
<1>6. CASE Swap
  BY <1>1, <1>2, <1>4, <1>6 DEF Swap, CommandInv, Steps, Goal
<1>7. CASE SwapFails \/ PutBack \/ RemoveFails
  BY <1>1, <1>2, <1>3, <1>7 DEF SwapFails, PutBack, RemoveFails, Goal
<1>8. CASE Sync
  BY <1>1, <1>2, <1>3, <1>4, <1>8 DEF Sync, CommandInv, Steps, Goal
<1>9. CASE SyncFails
  <2>1. CASE cmd.kind = "init"
    BY <1>1, <1>2, <1>4, <1>9, <2>1 DEF SyncFails, CommandInv, Steps, Goal
  <2>2. CASE cmd.kind = "restoreca"
    BY <1>1, <1>2, <1>4, <1>9, <2>2 DEF SyncFails, CommandInv, Steps, Goal
  <2> QED
    BY <1>2, <2>1, <2>2
<1>10. CASE Save
  BY <1>1, <1>2, <1>4, <1>10 DEF Save, CommandInv, Steps, Goal
<1>11. CASE SaveFails
  BY <1>1, <1>2, <1>3, <1>4, <1>11 DEF SaveFails, CommandInv, Steps, Goal
<1>12. CASE Commit
  BY <1>1, <1>2, <1>3, <1>4, <1>12 DEF Commit, CommandInv, Steps, Goal
<1>13. CASE Remove
  BY <1>1, <1>2, <1>3, <1>4, <1>13 DEF Remove, CommandInv, Steps, Goal
<1>14. CASE Undo
  BY <1>1, <1>2, <1>4, <1>14 DEF Undo, CommandInv, Steps, Goal
<1> QED
  BY <1>5, <1>6, <1>7, <1>8, <1>9, <1>10, <1>11, <1>12, <1>13, <1>14 DEF Work

LEMMA CommitFacts ==
    ASSUME FilesTypes, ControlInv, Commit
    PROVE  /\ cmd \in Commands /\ moved' = Nothing
           /\ \/ UNCHANGED proc /\ cmd' = Off
              \/ /\ proc' \in [Actors -> Providers \cup {Off}] /\ proc["command"] = Off
                 /\ \A b \in Actors \ {"command"} : proc'[b] = proc[b]
                 /\ cmd'.at = "provider" /\ cmd.cfg \in Configs
                 /\ proc'["command"] = Provider(cmd.cfg, FALSE) /\ cmd.cfg.mode \in {"managed", "external"}
<1> USE DEF FilesTypes
<1>1. cmd \in Commands /\ cmd.cfg \in Configs
  BY CmdActive DEF Commit, Commands
<1>2. proc["command"] = Off /\ "command" \in Actors
  BY DEF Commit, ControlInv, LockInv, Actors
<1>3. Provider(cmd.cfg, FALSE) \in Providers
  BY <1>1, ProviderFacts
<1>4. CASE cmd.cfg.mode \in {"managed", "external"}
  <2>1. proc' = [proc EXCEPT !["command"] = Provider(cmd.cfg, FALSE)] /\ CmdTo("provider")
    BY <1>4 DEF Commit
  <2>2. cmd'.at = "provider"
    BY <1>1, <2>1, CmdToFacts
  <2> QED
    BY <1>1, <1>2, <1>3, <1>4, <2>1, <2>2 DEF ProcessTypes, Commit
<1>5. CASE cmd.cfg.mode \notin {"managed", "external"}
  BY <1>1, <1>5, EndFacts DEF Commit
<1> QED
  BY <1>4, <1>5

LEMMA WorkKeepsAll ==
    ASSUME FilesTypes, ControlInv, Work
    PROVE  FilesTypes' /\ ControlInv'
<1> USE DEF FilesTypes
<1>1. CommandInv' /\ cmd \in Commands /\ cmd.at \in Steps /\ cmd' \in Commands \cup {Off}
  BY WorkFacts
<1>2. UNCHANGED <<now, ext, acct, archive, data, served, next, given>>
  BY DEF Work, Stash, Swap, SwapFails, Sync, SyncFails, Save, SaveFails, Commit, Remove, Undo, PutBack,
         RemoveFails, UnchangedByCommand, clients
<1>3. DOMAIN budget' = Counters \cup {"ops", "configs"} /\ budget'.configs \subseteq Configs
  <2>1. budget' = budget \/ Spend("faults")
    BY DEF Work, Stash, Swap, SwapFails, Sync, SyncFails, Save, SaveFails, Commit, Remove, Undo, PutBack,
           RemoveFails
  <2> QED
    BY <2>1, SpendFacts DEF Counters, ProcessTypes
<1>4. config' \in Configs \cup {Nothing}
  BY <1>1 DEF Work, Stash, Swap, SwapFails, Sync, SyncFails, Save, SaveFails, Commit, Remove, Undo, PutBack,
         RemoveFails, DiskTypes, Commands
<1>5. cur' \in Directories \cup {Nothing} /\ moved' \in Directories \cup {Nothing}
  <2>1. CASE RemoveFails
    BY <2>1, RemnantFacts DEF RemoveFails, DiskTypes
  <2>2. CASE Swap
    <3>1. cmd.staged \in Directories
      BY <2>2 DEF Swap, ControlInv, CommandInv, Installing, Complete, Steps
    <3> QED
      BY <2>2, <3>1 DEF Swap, DiskTypes
  <2>3. CASE SwapFails \/ PutBack
    BY <2>3 DEF SwapFails, PutBack, MovedBack, DiskTypes
  <2>4. CASE Stash \/ Sync \/ SyncFails \/ Save \/ SaveFails
    BY <2>4 DEF Stash, Sync, SyncFails, Save, SaveFails, DiskTypes, pki
  <2>5. CASE Commit \/ Remove \/ Undo
    BY <2>5 DEF Commit, Remove, Undo, DiskTypes, pki
  <2> QED
    BY <2>1, <2>2, <2>3, <2>4, <2>5 DEF Work
<1>6. latest' \in Ids
  <2>1. CASE Swap
    <3>1. cmd.staged.ca \in Ids
      BY <2>1 DEF Swap, ControlInv, CommandInv, Installing, Complete, Steps, Directories
    <3> QED
      BY <2>1, <3>1 DEF Swap, ProcessTypes
  <2>2. CASE Undo
    BY <1>1, <2>2 DEF Undo, Commands
  <2> QED
    BY <2>1, <2>2 DEF Work, Stash, SwapFails, Sync, SyncFails, Save, SaveFails, Commit, Remove, PutBack,
           RemoveFails, clients, ProcessTypes
<1>7. proc' = proc \/ Commit
  BY DEF Work, Stash, Swap, SwapFails, Sync, SyncFails, Save, SaveFails, Remove, Undo, PutBack, RemoveFails
<1>8. proc' \in [Actors -> Providers \cup {Off}]
  BY <1>7, CommitFacts DEF ProcessTypes
<1>9. FilesTypes'
  BY <1>1, <1>2, <1>3, <1>4, <1>5, <1>6, <1>8 DEF DiskTypes, ProcessTypes, data
<1>10. \/ proc' = proc
       \/ ModeInv' /\ proc'["server"] = Off /\ cmd'.at = "provider"
  <2>1. CASE Commit /\ ~UNCHANGED proc
    <3>1. /\ proc' \in [Actors -> Providers \cup {Off}] /\ proc["command"] = Off
          /\ \A b \in Actors \ {"command"} : proc'[b] = proc[b]
          /\ cmd'.at = "provider" /\ cmd.cfg \in Configs
          /\ proc'["command"] = Provider(cmd.cfg, FALSE)
      BY <2>1, CommitFacts
    <3>2. ModeInv'
      BY <3>1, ModeFrame DEF ProcessTypes, ControlInv, Actors
    <3>3. proc'["server"] = Off
      BY <1>1, <3>1, OffFacts DEF ControlInv, LockInv, Actors
    <3> QED
      BY <3>1, <3>2, <3>3
  <2> QED
    BY <1>7, <2>1
<1>11. ControlInv'
  BY <1>1, <1>2, <1>10, WorkKeepsControl DEF Steps
<1> QED
  BY <1>9, <1>11

\* The steps of a restore after its first, and the end of a provider.
RestoreWork == RestoreExtract \/ RestoreFails \/ RestoreCopy \/ RestoreInstall \/ ProviderEnds

LEMMA RestoreWorkFacts ==
    ASSUME FilesTypes, ControlInv, RestoreWork
    PROVE  /\ FilesTypes' /\ ControlInv' /\ UNCHANGED <<proc, pki, config, served, clients, archive, mishaps, acct>>
           /\ ~Installing /\ ~Installing' /\ cmd # Off
<1> USE DEF FilesTypes
<1>1. cmd.at \in {"extract", "copy", "install", "provider"}
  BY DEF RestoreWork, RestoreExtract, RestoreFails, RestoreCopy, RestoreInstall, ProviderEnds
<1>2. cmd \in Commands /\ cmd # Off /\ ~Installing
  BY <1>1, CmdActive DEF Installing, Steps
<1>3. UNCHANGED <<proc, pki, config, served, clients, archive, mishaps, budget, now, next, ext, acct, wal, vacuumed, snaps>>
  BY DEF RestoreWork, RestoreExtract, RestoreFails, RestoreCopy, RestoreInstall, ProviderEnds,
         UnchangedByRestore, UnchangedByCommand, data
<1>4. /\ CommandInv' /\ cmd' \in Commands \cup {Off} /\ ~Installing' /\ db' \in Nat
      /\ cmd.at = "provider" => cmd' = Off
  <2>1. CASE ProviderEnds
    BY <2>1, EndFacts DEF ProviderEnds, UnchangedByCommand, data, DiskTypes
  <2>2. CASE RestoreFails
    BY <2>2, EndFacts DEF RestoreFails, DiskTypes
  <2>3. CASE RestoreInstall
    BY <2>3, EndFacts DEF RestoreInstall, ControlInv, CommandInv
  <2>4. CASE RestoreCopy
    <3>1. cmd' \in Commands /\ cmd' # Off /\ cmd'.at = "install" /\ cmd'.kind = cmd.kind /\ cmd'.staged = cmd.staged
      BY <1>2, <2>4, CmdToFacts DEF RestoreCopy
    <3>2. cmd.kind = "restoredb" /\ cmd.staged \in Nat
      BY <1>2, <2>4 DEF RestoreCopy, ControlInv, CommandInv
    <3> QED
      BY <2>4, <3>1, <3>2 DEF RestoreCopy, CommandInv, Installing, Steps, DiskTypes
  <2>5. CASE RestoreExtract
    <3>1. PICK s \in snaps : cmd' = [cmd EXCEPT !.at = "copy", !.staged = s]
      BY <2>5 DEF RestoreExtract
    <3>2. s \in Nat /\ s \in Ids
      BY NothingFacts DEF DiskTypes
    <3>3. cmd' \in Commands /\ cmd'.at = "copy" /\ cmd'.kind = cmd.kind /\ cmd'.staged = s
      BY <1>2, <3>1, <3>2 DEF Commands
    <3>4. cmd.kind = "restoredb" /\ cmd' # Off
      BY <1>2, <2>5, <3>3, OffFacts DEF RestoreExtract, ControlInv, CommandInv
    <3> QED
      BY <2>5, <3>2, <3>3, <3>4 DEF RestoreExtract, CommandInv, Installing, Steps, DiskTypes
  <2> QED
    BY <2>1, <2>2, <2>3, <2>4, <2>5 DEF RestoreWork
<1>5. FilesTypes'
  BY <1>3, <1>4 DEF DiskTypes, ProcessTypes, pki, clients
<1>6. ControlInv'
  <2>1. CASE cmd.at # "provider"
    BY <1>2, <1>3, <1>4, <2>1, WorkKeepsControl
  <2>2. CASE cmd.at = "provider"
    <3>1. proc["command"] = Off
      BY <1>1, <2>2 DEF RestoreWork, RestoreExtract, RestoreFails, RestoreCopy, RestoreInstall, ProviderEnds
    <3>2. LockInv'
      BY <1>3, <1>4, <2>2, <3>1 DEF ControlInv, LockInv, Off
    <3>3. ModeInv'
      BY <1>3 DEF ControlInv, ModeInv, Off
    <3> QED
      BY <1>4, <3>2, <3>3 DEF ControlInv
  <2> QED
    BY <2>1, <2>2
<1> QED
  BY <1>2, <1>3, <1>4, <1>5, <1>6

\* The first step of a command.
Begin == InitStart \/ Apply \/ RestoreCAStart \/ RenewStart \/ RestoreStart

LEMMA StepKinds ==
    ASSUME FilesNext
    PROVE  \/ \E a \in Actors : ProviderStep(a)
           \/ Aside \/ ProcessAction \/ Begin \/ Work \/ RestoreWork
  BY DEF FilesNext, ProviderStep, Aside, ProcessAction, Begin, Work, RestoreWork, CommandStep

LEMMA BeginKeepsAll ==
    ASSUME FilesTypes, ControlInv, Begin
    PROVE  FilesTypes' /\ ControlInv' /\ Unlocked
<1>1. CASE InitStart \/ Apply
  BY <1>1, InitializeFacts DEF InitStart, Apply
<1> QED
  BY <1>1, RestoreCAStartFacts, RenewStartFacts, RestoreStartFacts DEF Begin

LEMMA InitControl ==
    ASSUME FilesInit
    PROVE  FilesTypes /\ ControlInv
<1>1. cmd = Off /\ proc = [a \in Actors |-> Off]
  BY DEF FilesInit
<1>2. FilesTypes
  BY <1>1, BudgetAssumption, NothingFacts DEF FilesInit, FilesTypes, DiskTypes, ProcessTypes, Configs
<1>3. CommandInv
  BY <1>1, NoCommandIsSound
<1>4. LockInv
  BY <1>1 DEF LockInv, FilesInit, Actors
<1>5. ModeInv
  BY <1>1, OffFacts DEF ModeInv, ManagedStates, AcmeStates, Writes
<1> QED
  BY <1>2, <1>3, <1>4, <1>5 DEF ControlInv

LEMMA StepControl ==
    ASSUME FilesTypes, ControlInv, [FilesNext]_filesVars
    PROVE  FilesTypes' /\ ControlInv'
<1>1. CASE UNCHANGED filesVars
  <2>1. FilesTypes'
    BY <1>1 DEF FilesTypes, DiskTypes, ProcessTypes, filesVars, pki, data, clients
  <2> QED
    BY <1>1, <2>1, ControlFrame DEF filesVars
<1>2. CASE FilesNext
  BY <1>2, StepKinds, ProviderStepKeepsControl, AsideKeepsControl, ProcessActionKeepsControl, BeginKeepsAll,
     WorkKeepsAll, RestoreWorkFacts
<1> QED
  BY <1>1, <1>2

-----------------------------------------------------------------------------
(* What has gone wrong stays recorded *)

LEMMA MishapsGrow ==
    ASSUME [FilesNext]_filesVars
    PROVE  mishaps \subseteq mishaps'
<1>1. CASE UNCHANGED filesVars
  BY <1>1 DEF filesVars
<1>2. ASSUME NEW a \in Actors, ProviderStep(a)
      PROVE  mishaps \subseteq mishaps'
  BY <1>2 DEF ProviderStep, ManagedStep, Prepare, Look, LoadManaged, WriteFile, WriteFails, CheckManaged,
     ReloadExternal, AcmeStep, LoadAccount, StoreAccount, LoadRegistration, RegisterAccount, Obtain, AcmeFails
<1>3. CASE Aside
  BY <1>3 DEF Aside, ReplaceExternalCert, ReplaceExternalKey, Tick, Write, BackupSnapshot, BackupPack, SetupOpen,
     SetupExchange, SetupInvite, SetupEnds, HandOut, BackupCA
<1>4. CASE ProcessAction
  BY <1>4 DEF ProcessAction, ServerStart, Watch, ServerStop, StatusStart, StatusEnds, Kill, TwoAccounts
<1>5. CASE Begin
  BY <1>5 DEF Begin, InitStart, Apply, Initialize, RestoreCAStart, RenewStart, RestoreStart, TwoAccounts
<1>6. CASE Work
  BY <1>6 DEF Work, Stash, Swap, SwapFails, Sync, SyncFails, Save, SaveFails, Commit, Remove, Undo, PutBack,
     RemoveFails
<1>7. CASE RestoreWork
  BY <1>7 DEF RestoreWork, RestoreExtract, RestoreFails, RestoreCopy, RestoreInstall, ProviderEnds, UnchangedByRestore
<1> QED
  BY <1>1, <1>2, <1>3, <1>4, <1>5, <1>6, <1>7, StepKinds

LEMMA StillWithout ==
    ASSUME NEW bad, mishaps \subseteq mishaps', Without(bad)'
    PROVE  Without(bad)
  BY DEF Without

-----------------------------------------------------------------------------
(* The database *)

LEMMA RestoreFrame ==
    ASSUME RestoreInv, mishaps \subseteq mishaps', UNCHANGED <<db, wal, truth, replaced, pre>>,
           cmd' = cmd \/ cmd'.at \notin {"extract", "copy", "install"}
    PROVE  RestoreInv'
  BY StillWithout DEF RestoreInv, Visible, Without

LEMMA StepRestore ==
    ASSUME FilesTypes, ControlInv, RestoreInv, [FilesNext]_filesVars
    PROVE  RestoreInv'
<1> USE DEF FilesTypes
<1>0. mishaps \subseteq mishaps'
  BY MishapsGrow
<1>1. CASE UNCHANGED filesVars
  BY <1>0, <1>1, RestoreFrame DEF filesVars, data
<1>2. ASSUME NEW a \in Actors, ProviderStep(a)
      PROVE  RestoreInv'
  <2>1. UNCHANGED UnchangedByProvider
    BY <1>2, ProviderStepFacts DEF ControlInv
  <2> QED
    BY <1>0, <2>1, RestoreFrame DEF UnchangedByProvider, data
<1>3. CASE Aside
  <2>1. CASE Write
    <3>1. proc["server"] # Off /\ cmd = Off
      BY <2>1 DEF Write, Serving, ControlInv, LockInv
    <3>2. wal' # Nothing /\ wal' = truth' /\ UNCHANGED <<cmd, replaced, pre, mishaps>> /\ cmd.at = "off"
      BY <2>1, <3>1, NothingFacts, OffFacts DEF Write, ProcessTypes
    <3> QED
      BY <3>2 DEF RestoreInv, Visible, Without
  <2>2. CASE SetupInvite
    <3>1. Visible' = truth' /\ UNCHANGED <<cmd, replaced, pre>>
      BY <2>2, NothingFacts DEF SetupInvite, New, ProcessTypes, Visible
    <3>2. Without({"restore"})' => cmd.at \notin {"extract", "copy", "install"}
      BY <2>2 DEF SetupInvite, Without, ControlInv, CommandInv
    <3>3. CASE Without({"restore"})'
      BY <1>0, <3>1, <3>2, <3>3, StillWithout DEF RestoreInv
    <3> QED
      BY <3>3 DEF RestoreInv
  <2>3. CASE BackupSnapshot
    <3>1. UNCHANGED <<cmd, truth, replaced, pre, mishaps>>
      BY <2>3 DEF BackupSnapshot
    <3>2. UNCHANGED <<db, wal>> \/ (db' = Visible /\ wal' = Nothing)
      BY <2>3 DEF BackupSnapshot, Checkpoint
    <3>3. CASE db' = Visible /\ wal' = Nothing
      <4>1. Visible' = Visible /\ (wal = Nothing => db' = db)
        BY <3>3 DEF Visible
      <4> QED
        BY <3>1, <3>3, <4>1 DEF RestoreInv, Without
    <3>4. CASE UNCHANGED <<db, wal>>
      BY <1>0, <3>1, <3>4, RestoreFrame
    <3> QED
      BY <3>2, <3>3, <3>4
  <2>4. CASE UNCHANGED <<db, wal, truth, replaced, pre>> /\ UNCHANGED cmd
    BY <1>0, <2>4, RestoreFrame
  <2> QED
    BY <1>3, <2>1, <2>2, <2>3, <2>4
    DEF Aside, ReplaceExternalCert, ReplaceExternalKey, Tick, BackupPack, SetupOpen,
        SetupExchange, SetupEnds, HandOut, BackupCA, data
<1>4. CASE ProcessAction
  <2>1. CASE ServerStop
    <3>1. proc["server"] # Off /\ cmd = Off /\ cmd.at = "off"
      BY <2>1, ServerStopFacts, OffFacts DEF ControlInv, LockInv
    <3>2. UNCHANGED <<cmd, truth, replaced, pre, mishaps>> /\ Visible' = Visible
      BY <2>1 DEF ServerStop, Checkpoint, Visible
    <3> QED
      BY <3>1, <3>2 DEF RestoreInv, Without
  <2>2. CASE \E a \in Actors : Kill(a)
    <3>1. UNCHANGED <<db, wal, truth, replaced, pre>> /\ (cmd' = cmd \/ cmd' = Off)
      BY <2>2 DEF Kill, data
    <3> QED
      BY <1>0, <3>1, RestoreFrame, OffFacts
  <2>3. CASE UNCHANGED <<db, wal, truth, replaced, pre>> /\ UNCHANGED cmd
    BY <1>0, <2>3, RestoreFrame
  <2> QED
    BY <1>4, <2>1, <2>2, <2>3
    DEF ProcessAction, ServerStart, Watch, StatusStart, StatusEnds, UnchangedByProvider, data
<1>5. CASE Begin
  <2>1. CASE RestoreStart
    <3>1. UNCHANGED <<db, wal, truth, replaced, pre>> /\ cmd'.at = "extract"
          /\ (wal # Nothing => "restore" \in mishaps')
      BY <2>1, RestoreStartFacts DEF RestoreStart, data
    <3> QED
      BY <1>0, <3>1, StillWithout DEF RestoreInv, Visible, Without
  <2>2. CASE RestoreCAStart
    <3>1. cmd'.at \notin {"extract", "copy", "install"}
      BY <2>2, RestoreCAStartFacts
    <3> QED
      BY <1>0, <2>2, <3>1, RestoreFrame DEF RestoreCAStart, UnchangedByCommand, data
  <2>3. CASE RenewStart
    <3>1. cmd'.at \notin {"extract", "copy", "install"}
      BY <2>3, RenewStartFacts
    <3> QED
      BY <1>0, <2>3, <3>1, RestoreFrame DEF RenewStart, UnchangedByCommand, data
  <2>4. CASE InitStart \/ Apply
    <3>1. PICK c \in budget.configs : Initialize(c)
      BY <2>4 DEF InitStart, Apply
    <3>2. cmd'.at \notin {"extract", "copy", "install"}
      BY <3>1, InitializeFacts
    <3> QED
      BY <1>0, <3>1, <3>2, RestoreFrame DEF Initialize, UnchangedByCommand, data
  <2> QED
    BY <1>5, <2>1, <2>2, <2>3, <2>4 DEF Begin
<1>6. CASE Work
  <2>1. cmd'.at \notin {"extract", "copy", "install"}
    BY <1>6, WorkFacts, OffFacts DEF Steps
  <2>2. UNCHANGED data
    BY <1>6 DEF Work, Stash, Swap, SwapFails, Sync, SyncFails, Save, SaveFails, Commit, Remove, Undo, PutBack,
       RemoveFails, UnchangedByCommand
  <2> QED
    BY <1>0, <2>1, <2>2, RestoreFrame DEF data
<1>7. CASE RestoreWork
  <2>1. UNCHANGED <<wal, mishaps>>
    BY <1>7 DEF RestoreWork, RestoreExtract, RestoreFails, RestoreCopy, RestoreInstall, ProviderEnds,
       UnchangedByRestore, UnchangedByCommand, data
  <2>2. CASE RestoreInstall
    <3>1. /\ db' = cmd.staged /\ truth' = cmd.staged /\ replaced' = replaced \cup {Visible} /\ pre' = pre
          /\ cmd' = Off /\ cmd'.at = "off" /\ cmd.at = "install"
      BY <2>2, EndFacts, OffFacts DEF RestoreInstall
    <3> QED
      BY <2>1, <3>1 DEF RestoreInv, Visible, Without
  <2>3. CASE RestoreCopy
    <3>1. cmd'.at = "install" /\ pre' = pre \cup {db} /\ UNCHANGED <<db, truth, replaced>> /\ cmd.at = "copy"
      <4>1. cmd \in Commands
        BY <2>3, CmdActive DEF RestoreCopy
      <4> QED
        BY <2>3, <4>1, CmdToFacts DEF RestoreCopy
    <3> QED
      BY <2>1, <3>1 DEF RestoreInv, Visible, Without
  <2>4. CASE RestoreExtract
    <3>1. cmd \in Commands /\ cmd.at = "extract"
      BY <2>4, CmdActive DEF RestoreExtract
    <3>2. cmd'.at = "copy" /\ UNCHANGED <<pre, db, truth, replaced>>
      BY <2>4, <3>1 DEF RestoreExtract, Commands
    <3> QED
      BY <2>1, <3>1, <3>2 DEF RestoreInv, Visible, Without
  <2>5. CASE RestoreFails \/ ProviderEnds
    <3>1. cmd'.at = "off" /\ UNCHANGED <<pre, db, truth, replaced>>
      BY <2>5, EndFacts, OffFacts DEF RestoreFails, ProviderEnds, UnchangedByCommand, data
    <3> QED
      BY <1>0, <2>1, <3>1, RestoreFrame
  <2> QED
    BY <1>7, <2>2, <2>3, <2>4, <2>5 DEF RestoreWork
<1> QED
  BY <1>1, <1>2, <1>3, <1>4, <1>5, <1>6, <1>7, StepKinds

-----------------------------------------------------------------------------
(* The ACME account *)

LEMMA AccountSame ==
    ASSUME AccountInv, mishaps \subseteq mishaps', UNCHANGED <<proc, acct>>
    PROVE  AccountInv'
  BY StillWithout DEF AccountInv, Without, Off

\* A provider that is not between the files of the account comes, goes or stays.
LEMMA AccountFrame ==
    ASSUME ProcessTypes, AccountInv, mishaps \subseteq mishaps', acct' = acct, NEW a \in Actors,
           \A b \in Actors \ {a} : proc'[b] = proc[b],
           proc'[a].at \notin {"accountkey", "registration", "register"},
           \/ proc'[a] = Off
           \/ proc[a] # Off /\ proc'[a].mode = proc[a].mode
           \/ proc'[a].mode # "acme"
           \/ \A b \in Actors \ {a} : proc[b] = Off
           \/ "acme" \in mishaps'
    PROVE  AccountInv'
<1> SUFFICES ASSUME Without({"acme"})'
             PROVE  /\ acct.reg # Nothing => acct.reg = acct.key
                    /\ \A b, c \in Actors : proc'[b] # Off /\ proc'[c] # Off /\ proc'[b].mode = "acme"
                                               /\ proc'[c].mode = "acme" => b = c
                    /\ \A b \in Actors :
                          /\ proc'[b].at = "accountkey" => acct.key = Nothing
                          /\ proc'[b].at \in {"registration", "register"} => acct.key = proc'[b].ca
  BY DEF AccountInv, Off
<1>1. Without({"acme"}) /\ "acme" \notin mishaps'
  BY StillWithout DEF Without
<1>2. /\ acct.reg # Nothing => acct.reg = acct.key
      /\ \A b, c \in Actors : proc[b] # Off /\ proc[c] # Off /\ proc[b].mode = "acme"
                                               /\ proc[c].mode = "acme" => b = c
      /\ \A b \in Actors :
            /\ proc[b].at = "accountkey" => acct.key = Nothing
            /\ proc[b].at \in {"registration", "register"} => acct.key = proc[b].ca
  BY <1>1 DEF AccountInv
<1>3. ASSUME NEW b \in Actors
      PROVE  /\ proc'[b].at = "accountkey" => acct.key = Nothing
             /\ proc'[b].at \in {"registration", "register"} => acct.key = proc'[b].ca
  BY <1>2, <1>3
<1>4. ASSUME NEW b \in Actors, NEW c \in Actors, proc'[b] # Off, proc'[c] # Off, proc'[b].mode = "acme",
             proc'[c].mode = "acme"
      PROVE  b = c
  BY <1>1, <1>2, <1>4
<1> QED
  BY <1>2, <1>3, <1>4

LEMMA AcmeStepKeepsAccount ==
    ASSUME FilesTypes, ControlInv, AccountInv, NEW a \in Actors, AcmeStep(a), mishaps \subseteq mishaps'
    PROVE  AccountInv'
<1> USE DEF FilesTypes
<1>1. Advances(a) /\ proc[a] # Off /\ FilesTypes'
  BY AcmeStepFacts, OffFacts DEF ControlInv, Advances
<1>2. proc[a].mode = "acme" /\ proc[a].at \in AcmeStates
  BY DEF AcmeStep, LoadAccount, StoreAccount, LoadRegistration, RegisterAccount, Obtain, AcmeFails, IsAt,
         AcmeStates, ControlInv, ModeInv
<1> SUFFICES ASSUME Without({"acme"})'
             PROVE  /\ acct'.reg # Nothing => acct'.reg = acct'.key
                    /\ proc'[a].at = "accountkey" => acct'.key = Nothing
                    /\ proc'[a].at \in {"registration", "register"} => acct'.key = proc'[a].ca
  <2>1. CASE Without({"acme"})'
    <3>1. Without({"acme"})
      BY <2>1, StillWithout
    <3>2. \A b, c \in Actors : proc'[b] # Off /\ proc'[c] # Off /\ proc'[b].mode = "acme"
                                               /\ proc'[c].mode = "acme" => b = c
      BY <1>1, <3>1 DEF AccountInv, Advances
    <3>3. \A b \in Actors \ {a} : proc'[b].at \notin AcmeStates
      <4>1. \A b \in Actors \ {a} : proc[b].at \in AcmeStates => proc[b] # Off /\ proc[b].mode = "acme"
        BY OffFacts DEF ControlInv, ModeInv, AcmeStates
      <4> QED
        BY <1>1, <1>2, <3>1, <4>1 DEF AccountInv, Advances
    <3> QED
      BY <2>1, <3>2, <3>3 DEF AccountInv, Off, AcmeStates
  <2> QED
    BY <2>1 DEF AccountInv
<1>3. /\ acct.reg # Nothing => acct.reg = acct.key
      /\ proc[a].at = "accountkey" => acct.key = Nothing
      /\ proc[a].at \in {"registration", "register"} => acct.key = proc[a].ca
  BY StillWithout DEF AccountInv
<1>4. acct \in [key : Ids, reg : Ids, bundle : Certificates \cup {Nothing}] /\ proc[a] \in Providers
  BY <1>1 DEF DiskTypes, Advances
<1>5. CASE LoadAccount(a)
  <2>1. acct' = acct
    BY <1>5 DEF LoadAccount
  <2>2. CASE acct.key # Nothing
    <3>1. proc' = [proc EXCEPT ![a].at = "registration", ![a].ca = acct.key]
      BY <1>5, <2>2 DEF LoadAccount
    <3>2. proc'[a].at = "registration" /\ proc'[a].ca = acct.key
      BY <1>4, <3>1 DEF Providers, ProcessTypes
    <3> QED
      BY <1>3, <2>1, <3>2
  <2>3. CASE acct.key = Nothing
    <3>1. proc' = [proc EXCEPT ![a].at = "accountkey", ![a].ca = next]
      BY <1>5, <2>3 DEF LoadAccount
    <3>2. proc'[a].at = "accountkey"
      BY <1>4, <3>1 DEF Providers, ProcessTypes
    <3> QED
      BY <1>3, <2>1, <2>3, <3>2
  <2> QED
    BY <2>2, <2>3
<1>6. CASE StoreAccount(a)
  <2>1. proc'[a].at = "registration" /\ proc'[a].ca = proc[a].ca
    BY <1>4, <1>6, ToFacts DEF StoreAccount, AcmeStates
  <2>2. acct'.key = proc[a].ca /\ acct'.reg = acct.reg
    BY <1>4, <1>6 DEF StoreAccount
  <2>3. acct.reg = Nothing
    BY <1>3, <1>6 DEF StoreAccount, IsAt
  <2> QED
    BY <2>1, <2>2, <2>3
<1>7. CASE LoadRegistration(a)
  <2>1. acct' = acct /\ acct.key = proc[a].ca
    BY <1>3, <1>7 DEF LoadRegistration, IsAt
  <2>2. proc'[a].at \in {"register", "obtain"} /\ proc'[a].ca = proc[a].ca
    BY <1>4, <1>7 DEF LoadRegistration, Providers, ProcessTypes
  <2> QED
    BY <1>3, <2>1, <2>2
<1>8. CASE RegisterAccount(a)
  <2>1. acct'.reg = proc[a].ca /\ acct'.key = acct.key /\ acct.key = proc[a].ca
    BY <1>3, <1>4, <1>8 DEF RegisterAccount, IsAt
  <2>2. proc'[a].at = "obtain"
    BY <1>4, <1>8 DEF RegisterAccount, Providers, ProcessTypes
  <2> QED
    BY <2>1, <2>2
<1>9. CASE Obtain(a)
  <2>1. acct'.reg = acct.reg /\ acct'.key = acct.key
    BY <1>4, <1>9 DEF Obtain
  <2> DEFINE leaf == Leaf(next, Nothing, proc[a].host)
  <2>2. leaf \in Certificates
    BY <1>4, LeafFacts, NothingFacts DEF ProcessTypes, Providers
  <2>3. Pair(leaf, leaf.n) \in Pairs
    BY <2>2 DEF Pair, Pairs, Certificates
  <2>4. ProviderDone(a, Pair(leaf, leaf.n))
    BY <1>9 DEF Obtain
  <2> HIDE DEF leaf
  <2>5. proc'[a] = Off \/ proc'[a].at \in {"idle", "failed", "load"}
    BY <1>4, <2>3, <2>4, DoneFacts
  <2> QED
    BY <1>3, <2>1, <2>5, OffFacts
<1>10. CASE AcmeFails(a)
  <2>1. proc'[a] = Off \/ proc'[a].at \in {"idle", "failed", "load"}
    BY <1>4, <1>10, DoneFacts DEF AcmeFails
  <2>2. CASE acct' = acct
    BY <1>3, <2>1, <2>2, OffFacts
  <2>3. CASE IsAt(a, "accountkey") /\ acct' = [acct EXCEPT !.key = proc[a].ca]
    <3>1. acct'.reg = acct.reg /\ acct.reg = Nothing
      BY <1>3, <1>4, <2>3 DEF IsAt
    <3> QED
      BY <2>1, <3>1, OffFacts
  <2>4. CASE IsAt(a, "register") /\ acct' = [acct EXCEPT !.reg = proc[a].ca]
    <3>1. acct'.reg = proc[a].ca /\ acct'.key = proc[a].ca
      BY <1>3, <1>4, <2>4 DEF IsAt
    <3> QED
      BY <2>1, <3>1, OffFacts
  <2>5. CASE acct' = [acct EXCEPT !.bundle = Leaf(next, Nothing, proc[a].host)]
    <3>1. acct'.reg = acct.reg /\ acct'.key = acct.key
      BY <1>4, <2>5
    <3> QED
      BY <1>3, <2>1, <3>1, OffFacts
  <2> QED
    BY <1>10, <2>2, <2>3, <2>4, <2>5 DEF AcmeFails
<1> QED
  BY <1>5, <1>6, <1>7, <1>8, <1>9, <1>10 DEF AcmeStep

LEMMA ProviderStarts ==
    ASSUME NEW c \in Configs, NEW again \in BOOLEAN, NEW p, p = Provider(c, again)
    PROVE  /\ p \in Providers /\ p # Off /\ p.mode = c.mode
           /\ p.at \in {"prepare", "account", "reload", "idle"}
           /\ c.mode = "managed" => p.at = "prepare"
<1>1. /\ p \in Providers /\ p # Off /\ p.mode = c.mode
      /\ p.at = CASE c.mode = "managed" -> "prepare" [] c.mode = "acme" -> "account"
                  [] c.mode = "external" -> "reload" [] OTHER -> "idle"
  BY ProviderFacts, OffFacts
<1>2. CASE c.mode = "managed"
  BY <1>1, <1>2
<1>3. CASE c.mode # "managed"
  BY <1>1, <1>3
<1> QED
  BY <1>1, <1>2, <1>3

LEMMA StepAccount ==
    ASSUME FilesTypes, ControlInv, AccountInv, [FilesNext]_filesVars
    PROVE  AccountInv'
<1> USE DEF FilesTypes
<1>0. mishaps \subseteq mishaps'
  BY MishapsGrow
<1>1. CASE UNCHANGED filesVars
  BY <1>0, <1>1, AccountSame DEF filesVars
<1>2. ASSUME NEW a \in Actors, ProviderStep(a)
      PROVE  AccountInv'
  <2>1. Advances(a) /\ proc[a] # Off /\ ModeInv'
    BY <1>2, ProviderStepFacts, OffFacts DEF ControlInv, Advances
  <2>2. CASE AcmeStep(a)
    BY <1>0, <2>2, AcmeStepKeepsAccount
  <2>3. CASE ManagedStep(a) \/ ReloadExternal(a)
    <3>1. acct' = acct
      BY <2>3 DEF ManagedStep, Prepare, Look, LoadManaged, WriteFile, WriteFails, CheckManaged, ReloadExternal
    <3>2. proc'[a].at \notin AcmeStates
      <4>1. CASE ManagedStep(a)
        <5>1. proc[a].mode = "managed"
          BY <4>1 DEF ManagedStep, Prepare, Look, LoadManaged, WriteFile, WriteFails, CheckManaged, IsAt,
                      ControlInv, ModeInv, ManagedStates
        <5> QED
          BY <2>1, <5>1, OffFacts DEF ModeInv, Advances, AcmeStates
      <4>2. CASE ReloadExternal(a)
        <5>1. \E pair \in Pairs \cup {Nothing} : ProviderDone(a, pair)
          <6>1. Valid(ext.cert, ext.key, proc[a].host) => Pair(ext.cert, ext.key) \in Pairs
            BY PairFacts DEF DiskTypes
          <6> QED
            BY <4>2, <6>1 DEF ReloadExternal
        <5>2. proc'[a] = Off \/ proc'[a].at \in {"idle", "failed", "load"}
          BY <2>1, <5>1, DoneFacts DEF Advances
        <5> QED
          BY <5>2, OffFacts DEF AcmeStates
      <4> QED
        BY <2>3, <4>1, <4>2
    <3>3. proc'[a].at \notin {"accountkey", "registration", "register"}
      BY <3>2 DEF AcmeStates
    <3> QED
      BY <1>0, <2>1, <3>1, <3>3, AccountFrame DEF Advances
  <2> QED
    BY <1>2, <2>2, <2>3 DEF ProviderStep
<1>3. CASE Aside \/ RestoreWork
  <2>1. UNCHANGED <<proc, acct>>
    BY <1>3 DEF Aside, ReplaceExternalCert, ReplaceExternalKey, Tick, Write, BackupSnapshot, BackupPack, SetupOpen,
       SetupExchange, SetupInvite, SetupEnds, HandOut, BackupCA, RestoreWork, RestoreExtract, RestoreFails,
       RestoreCopy, RestoreInstall, ProviderEnds, UnchangedByRestore, UnchangedByCommand
  <2> QED
    BY <1>0, <2>1, AccountSame
<1>4. CASE ProcessAction
  <2>1. CASE ServerStart
    <3>1. /\ acct' = acct /\ \A b \in Actors \ {"server"} : proc'[b] = proc[b]
          /\ proc'["server"].at \notin {"accountkey", "registration", "register"}
          /\ proc'["server"].mode = config.mode /\ "server" \in Actors
      BY <2>1, ServerStartFacts DEF ServerStart, Actors
    <3>2. \/ config.mode # "acme" \/ "acme" \in mishaps'
          \/ \A b \in Actors \ {"server"} : proc[b] = Off
      BY <2>1 DEF ServerStart, TwoAccounts
    <3> QED
      BY <1>0, <3>1, <3>2, AccountFrame
  <2>2. CASE Watch
    <3>1. /\ acct' = acct /\ Advances("server") /\ proc["server"] # Off /\ proc'["server"] # Off
          /\ proc'["server"].at \notin {"accountkey", "registration", "register"} /\ "server" \in Actors
      BY <2>2, WatchFacts, OffFacts DEF Watch, Advances, Actors
    <3> QED
      BY <1>0, <3>1, AccountFrame DEF Advances
  <2>3. CASE ServerStop
    <3>1. acct' = acct /\ proc'["server"] = Off /\ \A b \in Actors \ {"server"} : proc'[b] = proc[b]
      BY <2>3, ServerStopFacts DEF ServerStop
    <3> QED
      BY <1>0, <3>1, AccountFrame, OffFacts DEF Actors
  <2>4. CASE StatusEnds
    <3>1. acct' = acct /\ proc'["unlocked"] = Off /\ \A b \in Actors \ {"unlocked"} : proc'[b] = proc[b]
      BY <2>4, StatusFacts DEF StatusEnds
    <3> QED
      BY <1>0, <3>1, AccountFrame, OffFacts DEF Actors
  <2>5. CASE StatusStart
    <3>1. /\ acct' = acct /\ config \in Configs
          /\ \A b \in Actors \ {"unlocked"} : proc'[b] = proc[b]
          /\ proc'["unlocked"] = Provider(config, FALSE) /\ "unlocked" \in Actors
      BY <2>5, StatusFacts DEF StatusStart, Actors
    <3>2. /\ proc'["unlocked"].at \notin {"accountkey", "registration", "register"}
          /\ proc'["unlocked"].mode = config.mode
      BY <3>1, ProviderStarts DEF Actors
    <3>3. \/ config.mode # "acme" \/ "acme" \in mishaps'
          \/ \A b \in Actors \ {"unlocked"} : proc[b] = Off
      BY <2>5 DEF StatusStart, TwoAccounts
    <3> QED
      BY <1>0, <3>1, <3>2, <3>3, AccountFrame
  <2>6. CASE \E a \in Actors : Kill(a)
    <3>1. PICK a \in Actors : Kill(a)
      BY <2>6
    <3>2. acct' = acct /\ proc'[a] = Off /\ \A b \in Actors \ {a} : proc'[b] = proc[b]
      BY <3>1, KillFacts DEF Kill
    <3> QED
      BY <1>0, <3>2, AccountFrame, OffFacts
  <2> QED
    BY <1>4, <2>1, <2>2, <2>3, <2>4, <2>5, <2>6 DEF ProcessAction
<1>5. CASE Begin
  <2>1. CASE RenewStart
    <3> DEFINE forced == config.mode = "managed"
    <3>1. /\ acct' = acct /\ config \in Configs /\ forced \in BOOLEAN
          /\ \A b \in Actors \ {"command"} : proc'[b] = proc[b]
          /\ proc'["command"] = Provider(config, forced) /\ "command" \in Actors
      BY <2>1, RenewStartFacts DEF RenewStart, Actors, UnchangedByCommand
    <3> HIDE DEF forced
    <3>2. /\ proc'["command"].at \notin {"accountkey", "registration", "register"}
          /\ proc'["command"].mode = config.mode
      BY <3>1, ProviderStarts
    <3>3. \/ config.mode # "acme" \/ "acme" \in mishaps'
          \/ \A b \in Actors \ {"command"} : proc[b] = Off
      BY <2>1 DEF RenewStart, TwoAccounts
    <3> QED
      BY <1>0, <3>1, <3>2, <3>3, AccountFrame
  <2>2. CASE ~RenewStart
    <3>1. UNCHANGED <<proc, acct>>
      BY <1>5, <2>2 DEF Begin, InitStart, Apply, Initialize, RestoreCAStart, RestoreStart, UnchangedByCommand
    <3> QED
      BY <1>0, <3>1, AccountSame
  <2> QED
    BY <2>1, <2>2
<1>6. CASE Work
  <2>1. acct' = acct
    BY <1>6 DEF Work, Stash, Swap, SwapFails, Sync, SyncFails, Save, SaveFails, Commit, Remove, Undo, PutBack,
       RemoveFails, UnchangedByCommand
  <2>2. CASE UNCHANGED proc
    BY <1>0, <2>1, <2>2, AccountSame
  <2>3. CASE Commit /\ ~UNCHANGED proc
    <3>1. /\ \A b \in Actors \ {"command"} : proc'[b] = proc[b]
          /\ cmd.cfg \in Configs /\ "command" \in Actors
          /\ proc'["command"] = Provider(cmd.cfg, FALSE) /\ cmd.cfg.mode \in {"managed", "external"}
      BY <2>3, CommitFacts DEF Actors
    <3>2. /\ proc'["command"].at \notin {"accountkey", "registration", "register"}
          /\ proc'["command"].mode = cmd.cfg.mode
      BY <3>1, ProviderStarts
    <3> QED
      BY <1>0, <2>1, <3>1, <3>2, AccountFrame
  <2>4. UNCHANGED proc \/ Commit
    BY <1>6 DEF Work, Stash, Swap, SwapFails, Sync, SyncFails, Save, SaveFails, Remove, Undo, PutBack, RemoveFails
  <2> QED
    BY <2>2, <2>3, <2>4
<1> QED
  BY <1>1, <1>2, <1>3, <1>4, <1>5, <1>6, StepKinds

-----------------------------------------------------------------------------
(* The managed CA: what a provider does to pki/managed *)

LEMMA CurFacts ==
    ASSUME FilesTypes, ControlInv, NEW a \in Actors, ManagedStep(a)
    PROVE  /\ Managed(a)
           /\ \/ cur' = cur
              \/ cur = Nothing /\ cur' = Directory /\ proc[a].at = "prepare"
              \/ /\ cur \in Directories /\ proc[a].at = "rootkey" /\ proc'[a].at # "rootkey"
                 /\ cur' = [cur EXCEPT !.cakey = proc[a].ca]
              \/ /\ cur \in Directories /\ proc[a].at = "rootcert" /\ ~Rooting(a)'
                 /\ cur' = [cur EXCEPT !.ca = proc[a].ca]
              \/ cur \in Directories /\ proc[a].at = "writekey" /\ cur' = [cur EXCEPT !.key = proc[a].leaf.n]
              \/ cur \in Directories /\ proc[a].at = "writecert" /\ cur' = [cur EXCEPT !.cert = proc[a].leaf]
           /\ proc[a].at = "prepare" => cur' # Nothing /\ ~Rooting(a)' /\ proc'[a].at = "look"
           /\ proc'[a].at # "prepare"
           /\ Rooting(a)' =>
                 \/ /\ proc[a].at = "look" /\ proc'[a].at = "rootkey" /\ cur' = cur
                    /\ cur = Nothing \/ cur.ca = Nothing
                    /\ (\E b \in Actors \ {a} : Rooting(b)) => "roots" \in mishaps'
                 \/ /\ proc[a].at = "rootkey" /\ proc'[a].at = "rootcert" /\ cur \in Directories
                    /\ cur' = [cur EXCEPT !.cakey = proc[a].ca] /\ proc'[a].ca = proc[a].ca
<1> USE DEF FilesTypes
<1>1. proc[a] \in Providers /\ Managed(a)
  <2>1. proc[a].at \in ManagedStates
    BY DEF ManagedStep, Prepare, Look, LoadManaged, WriteFile, WriteFails, CheckManaged, IsAt, ManagedStates
  <2>2. proc[a] \in Providers /\ proc[a] # Off
    BY <2>1, ActiveFacts DEF ManagedStates, Writes
  <2> QED
    BY <2>1, <2>2 DEF Managed, ControlInv, ModeInv
<1>2. cur # Nothing => cur \in Directories
  BY DEF DiskTypes
<1>3. CASE Prepare(a)
  <2>1. proc[a].at = "prepare" /\ proc'[a].at = "look"
    BY <1>1, <1>3, ToFacts DEF Prepare, IsAt, ManagedStates
  <2>2. cur' = cur \/ (cur = Nothing /\ cur' = Directory)
    BY <1>3 DEF Prepare
  <2>3. cur' # Nothing
    BY <1>3, DirectoryFacts, NothingFacts DEF Prepare
  <2> QED
    BY <1>1, <2>1, <2>2, <2>3 DEF Rooting
<1>4. CASE Look(a)
  <2>1. proc[a].at = "look" /\ cur' = cur
    BY <1>4 DEF Look, IsAt
  <2>2. CASE cur = Nothing \/ cur.ca = Nothing
    <3>1. proc' = [proc EXCEPT ![a].at = "rootkey", ![a].ca = next]
      BY <1>4, <2>2 DEF Look
    <3>2. proc'[a].at = "rootkey"
      BY <1>1, <3>1 DEF Providers, ProcessTypes
    <3>3. (\E b \in Actors \ {a} : Rooting(b)) => "roots" \in mishaps'
      BY <1>4, <2>2 DEF Look, Rooting
    <3> QED
      BY <1>1, <2>1, <2>2, <3>2, <3>3
  <2>3. CASE ~(cur = Nothing \/ cur.ca = Nothing)
    <3>1. proc'[a].at = "load"
      BY <1>1, <1>4, <2>3, ToFacts DEF Look, ManagedStates
    <3> QED
      BY <1>1, <2>1, <3>1 DEF Rooting
  <2> QED
    BY <2>2, <2>3
<1>5. CASE LoadManaged(a)
  <2>1. proc[a].at = "load" /\ cur' = cur
    BY <1>5 DEF LoadManaged, IsAt
  <2>2. proc'[a] = Off \/ proc'[a].at \in {"idle", "failed", "load", "writekey"}
    <3>1. CASE proc' = [proc EXCEPT ![a].at = "writekey", ![a].leaf = Leaf(next, cur.ca, proc[a].host)]
      BY <1>1, <3>1 DEF Providers, ProcessTypes
    <3>2. CASE \E pair \in Pairs \cup {Nothing} : ProviderDone(a, pair)
      BY <1>1, <3>2, DoneFacts
    <3>3. cur # Nothing /\ Valid(cur.cert, cur.key, proc[a].host) =>
             Pair(cur.cert, cur.key) \in Pairs \cup {Nothing}
      BY PairFacts DEF DiskTypes, Directories
    <3> QED
      BY <1>5, <3>1, <3>2, <3>3 DEF LoadManaged
  <2> QED
    BY <1>1, <2>1, <2>2, OffFacts DEF Rooting
<1>6. ASSUME cur \in Directories, proc[a].at \in Writes
      PROVE  /\ proc[a].at = "rootkey" => Written(a) = [cur EXCEPT !.cakey = proc[a].ca]
             /\ proc[a].at = "rootcert" => Written(a) = [cur EXCEPT !.ca = proc[a].ca]
             /\ proc[a].at = "writekey" => Written(a) = [cur EXCEPT !.key = proc[a].leaf.n]
             /\ proc[a].at = "writecert" => Written(a) = [cur EXCEPT !.cert = proc[a].leaf]
  <2>1. CASE proc[a].at = "rootkey"
    BY <2>1 DEF Written, IsAt
  <2>2. CASE proc[a].at = "rootcert"
    BY <2>2 DEF Written, IsAt
  <2>3. CASE proc[a].at = "writekey"
    BY <2>3 DEF Written, IsAt
  <2>4. CASE proc[a].at = "writecert"
    BY <2>4 DEF Written, IsAt
  <2> QED
    BY <1>6, <2>1, <2>2, <2>3, <2>4 DEF Writes
<1>7. CASE WriteFile(a)
  <2>1. cur \in Directories /\ proc[a].at \in Writes /\ cur' = Written(a)
    BY <1>2, <1>7 DEF WriteFile
  <2>2. AfterWrite[proc[a].at] \in ManagedStates
    BY <2>1 DEF AfterWrite, Writes, ManagedStates
  <2>3. proc'[a].at = AfterWrite[proc[a].at] /\ proc'[a].ca = proc[a].ca
    BY <1>1, <1>7, <2>2, ToFacts DEF WriteFile
  <2>4. /\ proc[a].at = "rootkey" => proc'[a].at = "rootcert"
        /\ proc[a].at # "rootkey" => proc'[a].at \in {"load", "writecert", "check"}
    BY <2>1, <2>3 DEF AfterWrite, Writes
  <2> QED
    BY <1>1, <1>6, <2>1, <2>3, <2>4 DEF Rooting, Writes
<1>8. CASE WriteFails(a)
  <2>1. proc[a].at \in Writes /\ (cur' = cur \/ (cur \in Directories /\ cur' = Written(a)))
    BY <1>2, <1>8 DEF WriteFails
  <2>2. proc'[a] = Off \/ proc'[a].at \in {"idle", "failed", "load"}
    BY <1>1, <1>8, DoneFacts DEF WriteFails
  <2>3. ~Rooting(a)' /\ proc'[a].at \notin {"prepare", "rootkey"}
    BY <2>2, OffFacts DEF Rooting
  <2> QED
    BY <1>1, <1>6, <2>1, <2>3 DEF Writes
<1>9. CASE CheckManaged(a)
  <2>1. proc[a].at = "check" /\ cur' = cur
    BY <1>9 DEF CheckManaged, IsAt
  <2>2. \E pair \in Pairs \cup {Nothing} : ProviderDone(a, pair)
    <3>1. cur # Nothing /\ Valid(cur.cert, cur.key, proc[a].host) => Pair(cur.cert, cur.key) \in Pairs
      BY PairFacts DEF DiskTypes, Directories
    <3> QED
      BY <1>9, <3>1 DEF CheckManaged
  <2>3. proc'[a] = Off \/ proc'[a].at \in {"idle", "failed", "load"}
    BY <1>1, <2>2, DoneFacts
  <2> QED
    BY <1>1, <2>1, <2>3, OffFacts DEF Rooting
<1> QED
  BY <1>3, <1>4, <1>5, <1>7, <1>8, <1>9 DEF ManagedStep

-----------------------------------------------------------------------------
(* No copy is lost *)

Calm == Without({"overlap", "roots"})

Kept(d) == {e.ca : e \in {d} \ {Nothing}}

LEMMA KeptFacts ==
    /\ Kept(Nothing) = {} /\ \A d : d # Nothing => Kept(d) = {d.ca}
  BY DEF Kept

LEMMA CopyForm ==
    CopyInv <=> /\ Installing => given \subseteq kept \cup archive \cup Kept(Old)
                /\ ~Installing => given \subseteq kept \cup archive \cup Kept(cur)
  BY DEF CopyInv, Kept

LEMMA RootingFacts ==
    ASSUME FilesTypes, ControlInv, NEW a \in Actors, Rooting(a)
    PROVE  Managed(a) /\ proc[a].at # "prepare"
<1>1. proc[a] # Off
  BY ActiveFacts DEF FilesTypes, Rooting
<1> QED
  BY <1>1 DEF Rooting, Managed, ControlInv, ModeInv, ManagedStates, Writes

LEMMA LossSame ==
    ASSUME InstallInv, RootInv, CopyInv, UNCHANGED <<proc, cmd, cur, moved, kept, given>>,
           archive \subseteq archive'
    PROVE  InstallInv' /\ RootInv' /\ CopyInv'
<1>1. Installing' = Installing /\ Old' = Old
  BY DEF Installing, Old
<1>2. CopyInv'
  BY <1>1, CopyForm DEF CopyInv, Old, Installing
<1> QED
  BY <1>2 DEF InstallInv, RootInv, Installing, Old, Managed, Rooting, Off

LEMMA ProviderStepKeepsCopies ==
    ASSUME FilesTypes, ControlInv, InstallInv, RootInv, CopyInv, NEW a \in Actors, ProviderStep(a), Calm'
    PROVE  InstallInv' /\ RootInv' /\ CopyInv'
<1> USE DEF FilesTypes
<1>1. Advances(a) /\ UNCHANGED <<cmd, moved, kept, archive, given>> /\ FilesTypes' /\ ControlInv'
  BY ProviderStepFacts, ProviderStepKeepsControl DEF ControlInv, UnchangedByProvider, clients
<1>2. proc[a] # Off /\ \A b \in Actors : Managed(b)' => Managed(b)
  BY <1>1, OffFacts DEF Advances, Managed, Off
<1>3. \A b \in Actors \ {a} : (Rooting(b)' <=> Rooting(b)) /\ (Managed(b)' <=> Managed(b)) /\ proc'[b].at = proc[b].at
  BY <1>1 DEF Advances, Rooting, Managed, Off
<1>4. CASE ManagedStep(a)
  <2>1. Managed(a) /\ ~Installing /\ ~Installing'
    BY <1>1, <1>4, CurFacts DEF InstallInv, Installing
  <2>2. InstallInv'
    BY <1>1, <2>1 DEF InstallInv
  <2>3. /\ cur # Nothing => cur' # Nothing /\ (proc[a].at # "rootcert" => cur'.ca = cur.ca)
        /\ proc[a].at # "prepare" => cur # Nothing
        /\ cur' = Nothing => cur = Nothing
    <3>1. proc[a].at # "prepare" => cur # Nothing
      BY <2>1 DEF RootInv
    <3> QED
      <4>1. CASE cur' = cur
        BY <3>1, <4>1
      <4>2. CASE cur = Nothing /\ cur' = Directory /\ proc[a].at = "prepare"
        BY <4>2, DirectoryFacts, NothingFacts
      <4>3. CASE cur \in Directories /\ proc[a].at = "rootkey" /\ cur' = [cur EXCEPT !.cakey = proc[a].ca]
        <5>1. cur' \in Directories /\ cur'.ca = cur.ca
          BY <1>1, <4>3, NothingFacts DEF Directories, Advances, Providers
        <5> QED
          BY <3>1, <4>3, <5>1, NothingFacts
      <4>4. CASE cur \in Directories /\ proc[a].at = "rootcert" /\ cur' = [cur EXCEPT !.ca = proc[a].ca]
        <5>1. cur' \in Directories
          BY <1>1, <4>4, NothingFacts DEF Directories, Advances, Providers
        <5> QED
          BY <3>1, <4>4, <5>1, NothingFacts
      <4>5. CASE cur \in Directories /\ proc[a].at = "writekey" /\ cur' = [cur EXCEPT !.key = proc[a].leaf.n]
        <5>1. cur'.ca = cur.ca
          BY <4>5 DEF Directories
        <5>2. proc[a].leaf \in Certificates
          BY <4>5 DEF ControlInv, ModeInv, Writes
        <5>3. cur' \in Directories
          BY <4>5, <5>2, NothingFacts DEF Directories, Certificates
        <5> QED
          BY <3>1, <4>5, <5>1, <5>3, NothingFacts
      <4>6. CASE cur \in Directories /\ proc[a].at = "writecert" /\ cur' = [cur EXCEPT !.cert = proc[a].leaf]
        <5>1. proc[a].leaf \in Certificates
          BY <4>6 DEF ControlInv, ModeInv, Writes
        <5>2. cur' \in Directories /\ cur'.ca = cur.ca
          BY <4>6, <5>1 DEF Directories
        <5> QED
          BY <3>1, <4>6, <5>2, NothingFacts
      <4> QED
        BY <1>4, <4>1, <4>2, <4>3, <4>4, <4>5, <4>6, CurFacts
  <2>4. given \subseteq kept \cup archive \cup Kept(cur) /\ given \subseteq Nat
    BY <2>1, CopyForm DEF ProcessTypes
  <2>5. given \subseteq kept \cup archive \cup Kept(cur')
    <3>1. CASE cur = Nothing
      BY <2>4, <3>1, KeptFacts
    <3>2. CASE cur # Nothing /\ proc[a].at # "rootcert"
      BY <2>3, <2>4, <3>2, KeptFacts
    <3>3. CASE cur # Nothing /\ proc[a].at = "rootcert"
      <4>1. cur.ca = Nothing
        BY <3>3 DEF RootInv, Rooting
      <4> QED
        BY <2>4, <3>3, <4>1, KeptFacts, NothingFacts
    <3> QED
      BY <3>1, <3>2, <3>3
  <2>6. CopyInv'
    <3>1. (~Installing => given \subseteq kept \cup archive \cup {d.ca : d \in {cur} \ {Nothing}})'
      BY <1>1, <2>5 DEF Kept
    <3> QED
      BY <2>1, <3>1 DEF CopyInv
  <2>7. ASSUME NEW b \in Actors, Managed(b)', proc'[b].at # "prepare"
        PROVE  cur' # Nothing
    BY <1>2, <1>3, <1>4, <2>3, <2>7, CurFacts DEF RootInv
  <2>8. ASSUME NEW b \in Actors, Rooting(b)'
        PROVE  cur'.ca = Nothing /\ (b # a => ~Rooting(a)')
    <3>1. CASE b = a
      <4>1. cur # Nothing /\ cur'.ca = cur.ca
        <5>1. proc[a].at # "prepare" /\ proc[a].at # "rootcert"
          BY <1>4, <2>8, <3>1, CurFacts
        <5> QED
          BY <2>3, <5>1
      <4>2. cur.ca = Nothing
        BY <1>4, <2>8, <3>1, <4>1, CurFacts DEF RootInv, Rooting
      <4> QED
        BY <3>1, <4>1, <4>2
    <3>2. CASE b # a
      <4>1. Rooting(b) /\ ~Rooting(a) /\ cur.ca = Nothing /\ cur # Nothing
        BY <1>3, <2>8, <3>2, RootingFacts DEF RootInv
      <4>2. cur'.ca = Nothing
        BY <2>3, <4>1 DEF Rooting
      <4>3. ~Rooting(a)'
        <5>1. SUFFICES ASSUME Rooting(a)' PROVE FALSE
          OBVIOUS
        <5>2. "roots" \in mishaps' \/ Rooting(a)
          BY <1>4, <3>2, <4>1, <5>1, CurFacts DEF Rooting
        <5> QED
          BY <4>1, <5>2 DEF Calm, Without
      <4> QED
        BY <4>2, <4>3
    <3> QED
      BY <3>1, <3>2
  <2>9. \A b, c \in Actors : Rooting(b)' /\ Rooting(c)' => b = c
    BY <1>3, <2>8 DEF RootInv
  <2>10. RootInv'
    BY <2>7, <2>8, <2>9 DEF RootInv
  <2> QED
    BY <2>2, <2>6, <2>10
<1>5. CASE ReloadExternal(a) \/ AcmeStep(a)
  <2>1. cur' = cur
    BY <1>5 DEF ReloadExternal, AcmeStep, LoadAccount, StoreAccount, LoadRegistration, RegisterAccount, Obtain, AcmeFails
  <2>2. proc[a].mode # "managed"
    BY <1>5 DEF ReloadExternal, AcmeStep, LoadAccount, StoreAccount, LoadRegistration, RegisterAccount, Obtain,
       AcmeFails, IsAt, ControlInv, ModeInv, AcmeStates
  <2>3. ~Managed(a)' /\ ~Rooting(a)'
    <3>1. ~Managed(a)'
      BY <1>1, <2>2 DEF Managed, Advances, Off
    <3>2. proc'[a].at \in {"rootkey", "rootcert"} => proc'[a] # Off /\ proc'[a].mode = "managed"
      BY <1>1, OffFacts DEF ControlInv, ModeInv, ManagedStates, Writes
    <3> QED
      BY <3>1, <3>2 DEF Rooting, Managed, Off
  <2>4. RootInv'
    BY <1>3, <2>1, <2>3 DEF RootInv
  <2>5. Installing' = Installing /\ Old' = Old
    BY <1>1, <2>1 DEF Installing, Old
  <2>6. InstallInv'
    BY <1>1, <1>2, <2>1, <2>5 DEF InstallInv
  <2>7. CopyInv'
    BY <1>1, <2>1, <2>5 DEF CopyInv
  <2> QED
    BY <2>4, <2>6, <2>7
<1> QED
  BY <1>4, <1>5 DEF ProviderStep

\* A provider comes, goes or is at rest while nobody installs a directory.
LEMMA LossFrame ==
    ASSUME FilesTypes, ControlInv, InstallInv, RootInv, CopyInv, NEW a \in Actors,
           \A b \in Actors \ {a} : proc'[b] = proc[b],
           UNCHANGED <<cmd, cur, moved, kept, archive, given>>,
           ~Rooting(a)',
           Managed(a)' => ~Installing /\ (proc'[a].at = "prepare" \/ cur # Nothing)
    PROVE  InstallInv' /\ RootInv' /\ CopyInv'
<1>1. \A b \in Actors \ {a} : (Rooting(b)' <=> Rooting(b)) /\ (Managed(b)' <=> Managed(b)) /\ proc'[b].at = proc[b].at
  BY DEF Rooting, Managed, Off
<1>2. Installing' = Installing /\ Old' = Old
  BY DEF Installing, Old
<1>3. InstallInv'
  BY <1>1, <1>2 DEF InstallInv
<1>4. RootInv'
  BY <1>1 DEF RootInv
<1>5. CopyInv'
  BY <1>2 DEF CopyInv
<1> QED
  BY <1>3, <1>4, <1>5

LEMMA AsideKeepsCopies ==
    ASSUME FilesTypes, ControlInv, InstallInv, RootInv, CopyInv, Aside, Calm'
    PROVE  InstallInv' /\ RootInv' /\ CopyInv'
<1>1. CASE HandOut
  <2>1. UNCHANGED <<proc, cmd, cur, moved, kept, archive>> /\ given' = given \cup {cur.ca} /\ cur # Nothing
    BY <1>1 DEF HandOut, pki
  <2>2. ~Installing
    BY <1>1, OffFacts DEF HandOut, Swapping, Installing, Calm, Without, ControlInv, CommandInv, Steps
  <2>3. Installing' = Installing /\ Old' = Old
    BY <2>1 DEF Installing, Old
  <2>4. given \subseteq kept \cup archive \cup Kept(cur) /\ Kept(cur) = {cur.ca}
    BY <2>1, <2>2, CopyForm, KeptFacts
  <2>5. (given \subseteq kept \cup archive \cup {d.ca : d \in {cur} \ {Nothing}})'
    BY <2>1, <2>4 DEF Kept
  <2>6. CopyInv'
    BY <2>2, <2>3, <2>5 DEF CopyInv
  <2>7. InstallInv' /\ RootInv'
    BY <2>1, <2>3 DEF InstallInv, RootInv, Managed, Rooting, Off
  <2> QED
    BY <2>6, <2>7
<1>2. CASE UNCHANGED <<proc, cmd, cur, moved, kept, given>> /\ archive \subseteq archive'
  BY <1>2, LossSame
<1> QED
  BY <1>1, <1>2 DEF Aside, ReplaceExternalCert, ReplaceExternalKey, Tick, Write, BackupSnapshot, BackupPack,
     SetupOpen, SetupExchange, SetupInvite, SetupEnds, BackupCA, pki, clients

LEMMA KillKeepsCopies ==
    ASSUME FilesTypes, ControlInv, InstallInv, RootInv, CopyInv, Kill("command"), Calm'
    PROVE  InstallInv' /\ RootInv' /\ CopyInv'
<1>1. /\ proc'["command"] = Off /\ \A b \in Actors \ {"command"} : proc'[b] = proc[b]
      /\ cmd' = Off /\ moved' = Nothing /\ UNCHANGED <<archive, given>>
      /\ kept' = kept \cup Kept(moved)
      /\ cur' = cur \/ (cmd.at = "remove" /\ cur # Nothing /\ cur' \in Remnants(cur))
  <2>1. "command" \in Actors
    BY DEF Actors
  <2>2. proc'["command"] = Off /\ \A b \in Actors \ {"command"} : proc'[b] = proc[b]
    BY <2>1, KillFacts
  <2>3. kept' = kept \cup Kept(moved)
    BY KeptFacts DEF Kill
  <2> QED
    BY <2>2, <2>3 DEF Kill, clients
<1>2. ~Installing'
  BY <1>1, OffFacts DEF Installing, Steps, Off
<1>3. cmd.at = "remove" => Installing
  BY DEF ControlInv, CommandInv, Installing, Steps
<1>4. \A b \in Actors : (Managed(b)' => Managed(b) /\ proc'[b].at = proc[b].at) /\ (Rooting(b)' => Rooting(b))
  BY <1>1, OffFacts DEF Managed, Rooting, Off
<1>5. InstallInv'
  BY <1>1, <1>2 DEF InstallInv
<1>6. RootInv'
  <2>1. CASE cur' = cur
    BY <1>4, <2>1 DEF RootInv
  <2>2. CASE cur' # cur
    <3>1. \A b \in Actors : ~Managed(b) /\ ~Rooting(b)
      BY <1>1, <1>3, <2>2, RootingFacts DEF InstallInv
    <3> QED
      BY <1>4, <3>1 DEF RootInv
  <2> QED
    BY <2>1, <2>2
<1>7. given \subseteq kept' \cup archive \cup Kept(cur')
  <2>1. CASE ~Installing
    BY <1>1, <1>3, <2>1, CopyForm
  <2>2. CASE Installing /\ cmd.at = "stash"
    BY <1>1, <2>2, CopyForm DEF Old
  <2>3. CASE Installing /\ cmd.at # "stash"
    BY <1>1, <2>3, CopyForm DEF Old
  <2> QED
    BY <2>1, <2>2, <2>3
<1>8. CopyInv'
  <2>1. (given \subseteq kept \cup archive \cup {d.ca : d \in {cur} \ {Nothing}})'
    BY <1>1, <1>7 DEF Kept
  <2> QED
    BY <1>2, <2>1 DEF CopyInv
<1> QED
  BY <1>5, <1>6, <1>8

LEMMA ProcessActionKeepsCopies ==
    ASSUME FilesTypes, ControlInv, InstallInv, RootInv, CopyInv, ProcessAction, Calm'
    PROVE  InstallInv' /\ RootInv' /\ CopyInv'
<1>1. CASE ServerStart
  <2>1. /\ cmd = Off /\ proc'["server"].at \in {"prepare", "account", "reload", "idle"}
        /\ proc'["server"].at # "prepare" => proc'["server"].mode # "managed"
        /\ \A b \in Actors \ {"server"} : proc'[b] = proc[b]
    <3>1. FilesTypes' /\ ControlInv'
      BY <1>1, ServerStartFacts
    <3>2. "server" \in Actors
      BY DEF Actors
    <3> QED
      BY <1>1, <3>1, <3>2, ServerStartFacts DEF ControlInv, ModeInv, AcmeStates
  <2>2. ~Installing
    BY <2>1, NoCommandIsSound
  <2>3. UNCHANGED <<cmd, cur, moved, kept, archive, given>>
    BY <1>1 DEF ServerStart, pki, clients
  <2> QED
    BY <2>1, <2>2, <2>3, LossFrame DEF Rooting, Managed, Off, Actors
<1>2. CASE Watch
  <2>1. UNCHANGED <<cmd, cur, moved, kept, archive, given>>
    BY <1>2 DEF Watch, UnchangedByProvider, clients
  <2>2. /\ Advances("server") /\ proc["server"] # Off /\ proc["server"].at = "idle"
        /\ proc'["server"].at \in {"load", "account", "reload"} /\ proc'["server"].mode = proc["server"].mode
    BY <1>2, WatchFacts, OffFacts DEF Advances
  <2>3. ~Installing
    BY <2>2, NoCommandIsSound DEF ControlInv, LockInv
  <2>4. Managed("server")' => cur # Nothing
    BY <2>2 DEF RootInv, Managed, Actors, Off
  <2> QED
    BY <2>1, <2>2, <2>3, <2>4, LossFrame DEF Rooting, Actors, Advances
<1>3. CASE ServerStop
  <2>1. UNCHANGED <<cmd, cur, moved, kept, archive, given>>
    BY <1>3 DEF ServerStop, pki, clients
  <2>2. proc'["server"] = Off /\ \A b \in Actors \ {"server"} : proc'[b] = proc[b]
    BY <1>3, ServerStopFacts
  <2> QED
    BY <2>1, <2>2, LossFrame, OffFacts DEF Rooting, Managed, Actors, Off
<1>4. CASE StatusEnds
  <2>1. UNCHANGED <<cmd, cur, moved, kept, archive, given>>
    BY <1>4 DEF StatusEnds, pki, clients
  <2>2. proc'["unlocked"] = Off /\ \A b \in Actors \ {"unlocked"} : proc'[b] = proc[b]
    BY <1>4, StatusFacts
  <2> QED
    BY <2>1, <2>2, LossFrame, OffFacts DEF Rooting, Managed, Actors, Off
<1>5. CASE StatusStart
  <2>1. UNCHANGED <<cmd, cur, moved, kept, archive, given>>
    BY <1>5 DEF StatusStart, pki, clients
  <2>2. /\ proc'["unlocked"] = Provider(config, FALSE) /\ config \in Configs
        /\ \A b \in Actors \ {"unlocked"} : proc'[b] = proc[b]
    BY <1>5, StatusFacts
  <2>3. /\ proc'["unlocked"].mode = config.mode /\ (config.mode = "managed" => proc'["unlocked"].at = "prepare")
        /\ proc'["unlocked"].at \in {"prepare", "account", "reload", "idle"}
    BY <2>2, ProviderStarts
  <2>4. config.mode = "managed" => ~Installing
    BY <1>5, OffFacts DEF StatusStart, Swapping, Installing, Calm, Without, ControlInv, CommandInv, Steps
  <2> QED
    BY <2>1, <2>2, <2>3, <2>4, LossFrame DEF Rooting, Managed, Actors, Off
<1>6. ASSUME NEW a \in Actors, Kill(a), a # "command"
      PROVE  InstallInv' /\ RootInv' /\ CopyInv'
  <2>1. UNCHANGED <<cmd, cur, moved, kept, archive, given>>
    BY <1>6 DEF Kill, pki, clients
  <2>2. proc'[a] = Off /\ \A b \in Actors \ {a} : proc'[b] = proc[b]
    BY <1>6, KillFacts
  <2> QED
    BY <2>1, <2>2, LossFrame, OffFacts DEF Rooting, Managed, Off
<1> QED
  BY <1>1, <1>2, <1>3, <1>4, <1>5, <1>6, KillKeepsCopies DEF ProcessAction

\* A command that is going to replace pki/managed finds nobody at work on it.
LEMMA InstallBegins ==
    ASSUME FilesTypes, ControlInv, InstallInv, RootInv, CopyInv, Unlocked,
           UNCHANGED <<proc, cur, moved, kept, archive, given>>, proc["unlocked"] = Off,
           cmd' \in Commands, cmd'.at = (IF cur # Nothing THEN "stash" ELSE "swap"),
           Complete(cmd'.staged), cmd'.had = (cur # Nothing),
           cmd'.kind = "init" /\ cur # Nothing => cmd'.staged.ca = cur.ca
    PROVE  Installing' /\ InstallInv' /\ RootInv' /\ CopyInv' /\ Old' = cur
<1>1. cmd'.at \in {"stash", "swap"} /\ (cmd'.at = "stash" <=> cur # Nothing)
  OBVIOUS
<1>2. Installing' /\ ~Installing /\ moved = Nothing
  <2>1. cmd'.staged # Nothing
    BY NothingFacts DEF Complete
  <2>2. ~Installing
    BY BeginFacts
  <2> QED
    BY <1>1, <2>1, <2>2 DEF Installing, Steps, InstallInv
<1>3. Old' = cur
  BY <1>1, <1>2 DEF Old
<1>4. \A a \in Actors : proc[a] = Off
  BY BeginFacts DEF Actors
<1>5. InstallInv'
  <2>1. (\A a \in Actors : ~Managed(a))'
    BY <1>4 DEF Managed, Off
  <2> QED
    BY <1>1, <1>2, <1>3, <2>1 DEF InstallInv
<1>6. RootInv'
  BY DEF RootInv, Managed, Rooting, Off
<1>7. CopyInv'
  BY <1>2, <1>3 DEF CopyInv
<1> QED
  BY <1>2, <1>3, <1>5, <1>6, <1>7

LEMMA BeginKeepsCopies ==
    ASSUME FilesTypes, ControlInv, InstallInv, RootInv, CopyInv, Begin, Calm'
    PROVE  InstallInv' /\ RootInv' /\ CopyInv'
<1> USE DEF FilesTypes
<1>1. Unlocked /\ FilesTypes' /\ ControlInv'
  BY BeginKeepsAll
<1>2. ~Installing /\ moved = Nothing /\ given \subseteq kept \cup archive \cup Kept(cur)
  BY <1>1, BeginFacts, CopyForm DEF InstallInv
<1>3. ASSUME ~Installing', UNCHANGED <<cur, moved, kept, archive, given>>,
             \/ UNCHANGED proc
             \/ /\ \A b \in Actors \ {"command"} : proc'[b] = proc[b]
                /\ proc'["command"].at \in {"prepare", "account", "reload", "idle"}
                /\ Managed("command")' => proc'["command"].at = "prepare"
      PROVE  InstallInv' /\ RootInv' /\ CopyInv'
  <2>1. InstallInv'
    BY <1>2, <1>3 DEF InstallInv
  <2>2. CopyInv'
    BY <1>2, <1>3 DEF CopyInv, Kept
  <2>3. CASE UNCHANGED proc
    BY <1>3, <2>1, <2>2, <2>3 DEF RootInv, Managed, Rooting, Off
  <2>4. CASE ~UNCHANGED proc
    <3>1. \A b \in Actors \ {"command"} : (Rooting(b)' <=> Rooting(b)) /\ (Managed(b)' <=> Managed(b)) /\ proc'[b].at = proc[b].at
      BY <1>3, <2>4 DEF Rooting, Managed, Off
    <3>2. ~Rooting("command")' /\ (Managed("command")' => proc'["command"].at = "prepare")
      BY <1>3, <2>4 DEF Rooting
    <3>3. RootInv'
      BY <1>3, <3>1, <3>2 DEF RootInv
    <3> QED
      BY <2>1, <2>2, <3>3
  <2> QED
    BY <2>3, <2>4
<1>4. CASE InitStart \/ Apply
  <2>1. PICK c \in budget.configs : Initialize(c)
    BY <1>4 DEF InitStart, Apply
  <2>2. UNCHANGED <<proc, cur, moved, kept, archive, given>>
    BY <2>1 DEF Initialize, UnchangedByCommand, pki, clients
  <2>3. CASE c.mode = "managed"
    <3>1. proc["unlocked"] = Off
      BY <2>1, <2>3 DEF Initialize, Calm, Without
    <3> QED
      BY <1>1, <2>1, <2>2, <2>3, <3>1, InitializeFacts, InstallBegins
  <2>4. CASE c.mode # "managed"
    <3>1. ~Installing'
      BY <2>1, <2>4, InitializeFacts DEF Installing
    <3> QED
      BY <1>3, <2>2, <3>1
  <2> QED
    BY <2>3, <2>4
<1>5. CASE RestoreCAStart
  <2>1. UNCHANGED <<proc, cur, moved, kept, archive, given>>
    BY <1>5 DEF RestoreCAStart, UnchangedByCommand, pki, clients
  <2>2. proc["unlocked"] = Off
    BY <1>5 DEF RestoreCAStart, Calm, Without
  <2>3. cmd'.kind # "init"
    BY <1>5, RestoreCAStartFacts
  <2> QED
    BY <1>1, <1>5, <2>1, <2>2, <2>3, RestoreCAStartFacts, InstallBegins
<1>6. CASE RenewStart
  <2>1. UNCHANGED <<cur, moved, kept, archive, given>>
    BY <1>6 DEF RenewStart, UnchangedByCommand, pki, clients
  <2> DEFINE forced == config.mode = "managed"
  <2>2. /\ config \in Configs /\ forced \in BOOLEAN /\ proc'["command"] = Provider(config, forced)
        /\ cmd'.at = "provider" /\ \A b \in Actors \ {"command"} : proc'[b] = proc[b]
    BY <1>6, RenewStartFacts
  <2> HIDE DEF forced
  <2>3. /\ proc'["command"].mode = config.mode /\ (config.mode = "managed" => proc'["command"].at = "prepare")
        /\ proc'["command"].at \in {"prepare", "account", "reload", "idle"}
    BY <2>2, ProviderStarts
  <2>4. ~Installing' /\ (Managed("command")' => proc'["command"].at = "prepare")
    BY <2>2, <2>3 DEF Installing, Steps, Managed
  <2> QED
    BY <1>3, <2>1, <2>2, <2>3, <2>4
<1>7. CASE RestoreStart
  <2>1. UNCHANGED <<proc, cur, moved, kept, archive, given>> /\ ~Installing'
    BY <1>7, RestoreStartFacts DEF RestoreStart, pki, clients, Installing, Steps
  <2> QED
    BY <1>3, <2>1
<1> QED
  BY <1>4, <1>5, <1>6, <1>7 DEF Begin

LEMMA RestoreWorkKeepsCopies ==
    ASSUME FilesTypes, ControlInv, InstallInv, RootInv, CopyInv, RestoreWork
    PROVE  InstallInv' /\ RootInv' /\ CopyInv'
<1>1. UNCHANGED <<proc, cur, moved, kept, given, archive>> /\ ~Installing /\ ~Installing'
  BY RestoreWorkFacts DEF pki, clients
<1>2. InstallInv' /\ CopyInv'
  BY <1>1 DEF InstallInv, CopyInv
<1> QED
  BY <1>1, <1>2 DEF RootInv, Managed, Rooting, Off

\* What the steps of a command do to pki/managed once it has begun to replace it.
LEMMA InstallStep ==
    ASSUME FilesTypes, ControlInv, InstallInv, Installing, Work
    PROVE  /\ UNCHANGED <<given, archive>>
           /\ \/ /\ Stash /\ Installing' /\ cmd'.at = "swap" /\ moved' = cur /\ cur' = Nothing /\ kept' = kept
                 /\ UNCHANGED <<proc, latest>>
              \/ /\ Swap /\ Installing' /\ cmd'.at = "sync" /\ cur' = cmd.staged /\ UNCHANGED <<proc, moved, kept>>
                 /\ latest' = IF cmd.kind = "restoreca" /\ latest # Nothing THEN cmd.staged.ca ELSE latest
              \/ /\ SwapFails \/ PutBack
                 /\ ~Installing' /\ cur' = moved /\ moved' = Nothing /\ UNCHANGED <<proc, kept, latest>>
              \/ /\ Sync \/ SyncFails \/ Save \/ SaveFails
                 /\ Installing' /\ cmd'.at \in {"save", "remove", "undo", "commit"}
                 /\ cmd.at \in {"sync", "save"} /\ UNCHANGED <<proc, cur, moved, kept, latest>>
                 /\ cmd'.at = "undo" => cmd.at = "sync"
              \/ /\ Sync /\ ~Installing' /\ cmd.kind = "restoreca" /\ moved' = Nothing
                 /\ kept' = kept \cup Kept(moved) /\ UNCHANGED <<proc, cur, latest>>
              \/ /\ Commit /\ ~Installing' /\ moved' = Nothing /\ UNCHANGED <<cur, kept, latest>>
              \/ /\ Remove /\ cur' = Nothing /\ UNCHANGED <<proc, moved, kept, latest>>
                 /\ moved # Nothing => Installing' /\ cmd'.at = "putback"
                 /\ moved = Nothing => ~Installing'
              \/ /\ Undo /\ Installing' /\ cmd'.at = "putback" /\ cur' = Nothing /\ latest' = cmd.last
                 /\ UNCHANGED <<proc, moved, kept>>
              \/ /\ RemoveFails /\ ~Installing' /\ moved' = Nothing /\ kept' = kept \cup Kept(moved)
                 /\ "rollback" \in mishaps' /\ UNCHANGED <<proc, latest>>
           /\ Installing' => /\ cmd'.staged = cmd.staged /\ cmd'.had = cmd.had /\ cmd'.last = cmd.last
                             /\ cmd'.kind = cmd.kind
<1> USE DEF FilesTypes
<1>1. cmd \in Commands /\ CommandInv /\ cmd.at \in Steps
  BY WorkFacts DEF ControlInv
<1>2. Installing' => cmd'.staged = cmd.staged /\ cmd'.had = cmd.had /\ cmd'.last = cmd.last /\ cmd'.kind = cmd.kind
  BY WorkFacts, OffFacts DEF Installing, Steps, Off
<1>3. ASSUME NEW s \in Steps, CmdTo(s)
      PROVE  Installing' /\ cmd'.at = s
  BY <1>1, <1>3, CmdToFacts DEF Installing
<1>4. ASSUME NEW ok, Ended(ok)
      PROVE  ~Installing'
  BY <1>4, EndFacts
<1>5. UNCHANGED <<given, archive>>
  BY DEF Work, Stash, Swap, SwapFails, Sync, SyncFails, Save, SaveFails, Commit, Remove, Undo, PutBack,
         RemoveFails, UnchangedByCommand, clients
<1>6. CASE Stash
  <2>1. Installing' /\ cmd'.at = "swap"
    BY <1>3, <1>6 DEF Stash, Steps
  <2> QED
    BY <1>2, <1>5, <1>6, <2>1 DEF Stash, clients
<1>7. CASE Swap
  <2>1. Installing' /\ cmd'.at = "sync"
    BY <1>3, <1>7 DEF Swap, Steps
  <2> QED
    BY <1>2, <1>5, <1>7, <2>1 DEF Swap
<1>8. CASE SwapFails \/ PutBack
  <2>1. ~Installing'
    BY <1>4, <1>8 DEF SwapFails, PutBack
  <2>2. cur = Nothing /\ Vacant
    BY <1>8 DEF SwapFails, PutBack, InstallInv, Vacant
  <2>3. cur' = moved /\ moved' = Nothing /\ kept' = kept
    BY <1>8, <2>2 DEF SwapFails, PutBack, MovedBack
  <2> QED
    BY <1>5, <1>8, <2>1, <2>3 DEF SwapFails, PutBack, clients
<1>9. CASE Sync /\ cmd.kind = "init"
  <2>1. Installing' /\ cmd'.at = "save"
    BY <1>3, <1>9 DEF Sync, Steps
  <2> QED
    BY <1>2, <1>5, <1>9, <2>1 DEF Sync, clients
<1>10. CASE Sync /\ cmd.kind # "init"
  <2>1. ~Installing' /\ cmd.kind = "restoreca"
    BY <1>1, <1>4, <1>10 DEF Sync, CommandInv
  <2>2. moved' = Nothing /\ kept' = kept \cup Kept(moved)
    BY <1>10, KeptFacts DEF Sync
  <2> QED
    BY <1>5, <1>10, <2>1, <2>2 DEF Sync, clients
<1>11. CASE SyncFails
  <2>1. Installing' /\ cmd'.at \in {"remove", "undo"}
    BY <1>3, <1>11 DEF SyncFails, Steps
  <2> QED
    BY <1>2, <1>5, <1>11, <2>1 DEF SyncFails, clients, pki
<1>12. CASE Save
  <2>1. Installing' /\ cmd'.at = "commit"
    BY <1>3, <1>12 DEF Save, Steps
  <2> QED
    BY <1>2, <1>5, <1>12, <2>1 DEF Save, clients, pki
<1>13. CASE SaveFails
  <2>1. Installing' /\ cmd'.at = "remove"
    BY <1>3, <1>13 DEF SaveFails, Steps, Installing
  <2> QED
    BY <1>2, <1>5, <1>13, <2>1 DEF SaveFails, clients, pki
<1>14. CASE Commit
  <2>1. ~Installing'
    BY <1>14, CommitFacts, OffFacts DEF Installing, Steps, Off
  <2> QED
    BY <1>5, <1>14, <2>1 DEF Commit, clients
<1>15. CASE Remove
  <2>1. /\ moved # Nothing => Installing' /\ cmd'.at = "putback"
        /\ moved = Nothing => ~Installing'
    <3>1. cmd.had <=> moved # Nothing
      BY <1>15 DEF Remove, InstallInv, Old
    <3> QED
      BY <1>3, <1>4, <1>15, <3>1 DEF Remove, Steps
  <2> QED
    BY <1>2, <1>5, <1>15, <2>1 DEF Remove, clients
<1>16. CASE Undo
  <2>1. Installing' /\ cmd'.at = "putback"
    BY <1>3, <1>16 DEF Undo, Steps
  <2> QED
    BY <1>2, <1>5, <1>16, <2>1 DEF Undo
<1>17. CASE RemoveFails
  <2>1. ~Installing'
    BY <1>4, <1>17 DEF RemoveFails
  <2>2. moved' = Nothing /\ kept' = kept \cup Kept(moved) /\ "rollback" \in mishaps'
    BY <1>17, KeptFacts DEF RemoveFails
  <2> QED
    BY <1>5, <1>17, <2>1, <2>2 DEF RemoveFails, clients
<1> QED
  BY <1>6, <1>7, <1>8, <1>9, <1>10, <1>11, <1>12, <1>13, <1>14, <1>15, <1>16, <1>17 DEF Work

LEMMA PlainWork ==
    ASSUME FilesTypes, ControlInv, InstallInv, ~Installing, Work
    PROVE  /\ ~Installing' /\ moved' = Nothing /\ UNCHANGED <<cur, kept, archive, given, latest>>
           /\ proc' = proc \/ Commit
<1> USE DEF FilesTypes
<1>1. cmd.at \in Steps /\ cmd.staged = Nothing
  BY WorkFacts DEF Installing
<1>2. cmd.at \in {"save", "commit"} /\ moved = Nothing
  BY <1>1 DEF ControlInv, CommandInv, InstallInv
<1>3. Save \/ SaveFails \/ Commit
  BY <1>2 DEF Work, Stash, Swap, SwapFails, Sync, SyncFails, Remove, Undo, PutBack, RemoveFails
<1>4. ~Installing'
  BY <1>1, WorkFacts, OffFacts DEF Installing, Steps, Off
<1> QED
  BY <1>2, <1>3, <1>4 DEF Save, SaveFails, Commit, UnchangedByCommand, clients, pki

LEMMA CommitKeepsRoots ==
    ASSUME FilesTypes, ControlInv, RootInv, Commit, cur' = cur
    PROVE  RootInv'
<1>1. CASE UNCHANGED proc
  BY <1>1 DEF RootInv, Managed, Rooting, Off
<1>2. CASE ~UNCHANGED proc
  <2>1. /\ \A b \in Actors \ {"command"} : proc'[b] = proc[b]
        /\ cmd.cfg \in Configs /\ proc'["command"] = Provider(cmd.cfg, FALSE)
    BY <1>2, CommitFacts
  <2>2. /\ proc'["command"].mode = cmd.cfg.mode /\ (cmd.cfg.mode = "managed" => proc'["command"].at = "prepare")
        /\ proc'["command"].at \in {"prepare", "account", "reload", "idle"}
    BY <2>1, ProviderStarts
  <2>3. ~Rooting("command")' /\ (Managed("command")' => proc'["command"].at = "prepare")
    BY <2>2 DEF Rooting, Managed
  <2>4. \A b \in Actors \ {"command"} : (Rooting(b)' <=> Rooting(b)) /\ (Managed(b)' <=> Managed(b)) /\ proc'[b].at = proc[b].at
    BY <2>1 DEF Rooting, Managed, Off
  <2> QED
    BY <2>3, <2>4 DEF RootInv
<1> QED
  BY <1>1, <1>2

LEMMA WorkKeepsCopies ==
    ASSUME FilesTypes, ControlInv, InstallInv, RootInv, CopyInv, Work
    PROVE  InstallInv' /\ RootInv' /\ CopyInv'
<1> USE DEF FilesTypes
<1>1. CASE ~Installing
  <2>1. /\ ~Installing' /\ moved' = Nothing /\ UNCHANGED <<cur, kept, archive, given>>
        /\ proc' = proc \/ Commit
    BY <1>1, PlainWork
  <2>2. InstallInv' /\ CopyInv'
    BY <1>1, <2>1 DEF InstallInv, CopyInv
  <2>3. CASE UNCHANGED proc
    BY <2>1, <2>2, <2>3 DEF RootInv, Managed, Rooting, Off
  <2>4. CASE Commit
    BY <2>1, <2>2, <2>4, CommitKeepsRoots
  <2> QED
    BY <2>1, <2>3, <2>4
<1>2. CASE Installing
  <2>1. UNCHANGED <<given, archive>> /\ \A a \in Actors : ~Managed(a) /\ ~Rooting(a)
    BY <1>2, InstallStep, RootingFacts DEF InstallInv
  <2>2. given \subseteq kept \cup archive \cup Kept(Old)
    BY <1>2, CopyForm
  <2>3. (\A a \in Actors : ~Managed(a))' \/ Commit
    BY <1>2, <2>1, InstallStep DEF Managed, Off
  <2>4. RootInv'
    <3>1. CASE Commit
      BY <1>2, <3>1, CommitKeepsRoots DEF Commit
    <3>2. CASE ~Commit
      <4>1. UNCHANGED proc
        BY <1>2, <3>2, InstallStep
      <4> QED
        BY <2>1, <4>1 DEF RootInv, Managed, Rooting, Off
    <3> QED
      BY <3>1, <3>2
  <2>5. Complete(cmd.staged) /\ cmd.staged # Nothing
    BY <1>2, NothingFacts DEF ControlInv, CommandInv, Complete
  <2>6. ASSUME ~Installing', moved' = Nothing, given \subseteq kept' \cup archive \cup Kept(cur')
        PROVE  InstallInv' /\ CopyInv'
    <3>1. (given \subseteq kept \cup archive \cup {d.ca : d \in {cur} \ {Nothing}})'
      BY <2>1, <2>6 DEF Kept
    <3> QED
      BY <2>6, <3>1 DEF InstallInv, CopyInv
  <2>7. ASSUME Installing', Old' = Old, kept' = kept, (\A a \in Actors : ~Managed(a))',
               cmd'.at # "stash",
               cmd'.at \in {"swap", "putback"} => cur' = Nothing,
               cmd'.at \in {"sync", "save", "commit", "remove", "undo"} => cur' = cmd.staged
        PROVE  InstallInv' /\ CopyInv'
    <3>1. cmd'.staged = cmd.staged /\ cmd'.had = cmd.had /\ cmd'.kind = cmd.kind
      BY <1>2, <2>7, InstallStep
    <3>2. InstallInv'
      BY <1>2, <2>7, <3>1 DEF InstallInv
    <3>3. CopyInv'
      BY <1>2, <2>1, <2>7 DEF CopyInv
    <3> QED
      BY <3>2, <3>3
  <2>8. CASE Stash
    <3>1. Installing' /\ cmd'.at = "swap" /\ moved' = cur /\ cur' = Nothing /\ kept' = kept /\ UNCHANGED proc
      BY <1>2, <2>8, InstallStep DEF Stash, Swap, SwapFails, PutBack, Sync, SyncFails, Save, SaveFails, Commit,
         Remove, Undo, RemoveFails
    <3>2. Old' = Old
      BY <2>8, <3>1 DEF Old, Stash
    <3>3. (\A a \in Actors : ~Managed(a))'
      BY <2>1, <3>1 DEF Managed, Off
    <3> QED
      BY <2>4, <2>7, <3>1, <3>2, <3>3
  <2>9. CASE ~Stash
    <3>1. cmd.at # "stash" /\ Old = moved
      BY <2>9 DEF Work, Stash, Swap, SwapFails, PutBack, Sync, SyncFails, Save, SaveFails, Commit, Remove, Undo,
         RemoveFails, Old
    <3>2. CASE Swap /\ Installing' /\ cmd'.at = "sync" /\ cur' = cmd.staged /\ UNCHANGED <<proc, moved, kept>>
      <4>1. Old' = Old /\ (\A a \in Actors : ~Managed(a))'
        BY <2>1, <3>1, <3>2 DEF Old, Managed, Off
      <4> QED
        BY <2>4, <2>7, <3>2, <4>1
    <3>3. CASE ~Installing' /\ cur' = moved /\ moved' = Nothing /\ UNCHANGED <<proc, kept>>
      BY <2>2, <2>4, <2>6, <3>1, <3>3
    <3>4. CASE /\ Installing' /\ cmd'.at \in {"save", "remove", "undo", "commit"}
               /\ cmd.at \in {"sync", "save"} /\ UNCHANGED <<proc, cur, moved, kept>>
      <4>1. Old' = Old /\ (\A a \in Actors : ~Managed(a))'
        BY <2>1, <3>1, <3>4 DEF Old, Managed, Off
      <4>2. cur = cmd.staged
        BY <1>2, <3>4 DEF InstallInv
      <4> QED
        BY <2>4, <2>7, <3>4, <4>1, <4>2
    <3>5. CASE ~Installing' /\ moved' = Nothing /\ kept' = kept \cup Kept(moved)
      BY <2>2, <2>4, <2>6, <3>1, <3>5
    <3>6. CASE Commit /\ ~Installing' /\ moved' = Nothing /\ UNCHANGED <<cur, kept>>
      <4>1. cur = cmd.staged /\ cmd.kind = "init"
        BY <1>2, <3>6 DEF Commit, InstallInv, ControlInv, CommandInv
      <4>2. Kept(moved) \subseteq Kept(cur)
        BY <1>2, <2>5, <3>1, <4>1, KeptFacts DEF InstallInv
      <4> QED
        BY <2>2, <2>4, <2>6, <3>1, <3>6, <4>2
    <3>7. CASE /\ Remove /\ cur' = Nothing /\ UNCHANGED <<proc, moved, kept>>
               /\ moved # Nothing => Installing' /\ cmd'.at = "putback"
               /\ moved = Nothing => ~Installing'
      <4>1. CASE moved # Nothing
        <5>1. Old' = Old /\ (\A a \in Actors : ~Managed(a))'
          BY <2>1, <3>1, <3>7, <4>1 DEF Old, Managed, Off
        <5> QED
          BY <2>4, <2>7, <3>7, <4>1, <5>1
      <4>2. CASE moved = Nothing
        BY <2>2, <2>4, <2>6, <3>1, <3>7, <4>2
      <4> QED
        BY <4>1, <4>2
    <3>8. CASE Undo /\ Installing' /\ cmd'.at = "putback" /\ cur' = Nothing /\ UNCHANGED <<proc, moved, kept>>
      <4>1. Old' = Old /\ (\A a \in Actors : ~Managed(a))'
        BY <2>1, <3>1, <3>8 DEF Old, Managed, Off
      <4> QED
        BY <2>4, <2>7, <3>8, <4>1
    <3> QED
      BY <1>2, <2>9, <3>2, <3>3, <3>4, <3>5, <3>6, <3>7, <3>8, InstallStep
  <2> QED
    BY <2>8, <2>9
<1> QED
  BY <1>1, <1>2

LEMMA StepLoss ==
    ASSUME FilesTypes, ControlInv, LossInv, [FilesNext]_filesVars
    PROVE  LossInv'
<1> SUFFICES ASSUME Calm'
             PROVE  InstallInv' /\ RootInv' /\ CopyInv'
  BY DEF LossInv, Calm
<1>1. InstallInv /\ RootInv /\ CopyInv
  BY MishapsGrow, StillWithout DEF LossInv, Calm
<1>2. CASE UNCHANGED filesVars
  BY <1>1, <1>2, LossSame DEF filesVars, pki, clients
<1> QED
  BY <1>1, <1>2, StepKinds, ProviderStepKeepsCopies, AsideKeepsCopies, ProcessActionKeepsCopies, BeginKeepsCopies,
     WorkKeepsCopies, RestoreWorkKeepsCopies

-----------------------------------------------------------------------------
(* The Server goes on with the root clients were given *)

Quiet == Without({"overlap", "roots", "swap", "rollback"})

LEMMA LeafStep ==
    ASSUME FilesTypes, ControlInv, NEW a \in Actors, ManagedStep(a)
    PROVE  /\ proc'[a].at \in {"writekey", "writecert"} =>
                 \/ /\ proc[a].at = "load" /\ cur' = cur /\ CAUsable(cur)
                    /\ proc'[a].leaf.issuer = cur.ca
                 \/ proc[a].at = "writekey" /\ proc'[a].leaf = proc[a].leaf
           /\ \/ served' = served
              \/ /\ a = "server" /\ cur' = cur /\ cur # Nothing /\ cur.cert \in Certificates
                 /\ served'.cert = cur.cert
<1> USE DEF FilesTypes
<1>1. proc[a] \in Providers /\ Advances(a)
  BY ManagedStepFacts DEF Advances, ControlInv
<1>2. ASSUME NEW pair \in Pairs \cup {Nothing}, ProviderDone(a, pair)
      PROVE  /\ proc'[a].at \notin {"writekey", "writecert"}
             /\ served' = IF a = "server" /\ pair # Nothing THEN pair ELSE served
  BY <1>1, <1>2, DoneFacts, OffFacts
<1>3. ASSUME cur # Nothing, Valid(cur.cert, cur.key, proc[a].host)
      PROVE  /\ Pair(cur.cert, cur.key) \in Pairs /\ cur.cert \in Certificates
             /\ Pair(cur.cert, cur.key).cert = cur.cert
  BY <1>3, PairFacts DEF DiskTypes, Directories, Pair
<1>4. CASE LoadManaged(a)
  <2>1. proc[a].at = "load" /\ cur' = cur
    BY <1>4 DEF LoadManaged, IsAt
  <2>2. CASE CAUsable(cur) /\ served' = served
                /\ proc' = [proc EXCEPT ![a].at = "writekey", ![a].leaf = Leaf(next, cur.ca, proc[a].host)]
    <3>1. Leaf(next, cur.ca, proc[a].host).issuer = cur.ca
      BY DEF Leaf
    <3>2. proc'[a].leaf = Leaf(next, cur.ca, proc[a].host)
      BY <1>1, <2>2 DEF ProcessTypes, Providers
    <3> QED
      BY <2>1, <2>2, <3>1, <3>2
  <2>3. CASE ProviderDone(a, Nothing)
    BY <1>2, <2>3
  <2>4. CASE cur # Nothing /\ Valid(cur.cert, cur.key, proc[a].host) /\ ProviderDone(a, Pair(cur.cert, cur.key))
    BY <1>2, <1>3, <2>1, <2>4
  <2> QED
    BY <1>4, <2>2, <2>3, <2>4 DEF LoadManaged
<1>5. CASE CheckManaged(a)
  <2>1. cur' = cur
    BY <1>5 DEF CheckManaged
  <2>2. CASE cur # Nothing /\ Valid(cur.cert, cur.key, proc[a].host)
    BY <1>2, <1>3, <1>5, <2>1, <2>2 DEF CheckManaged
  <2>3. CASE ~(cur # Nothing /\ Valid(cur.cert, cur.key, proc[a].host))
    BY <1>2, <1>5, <2>3 DEF CheckManaged
  <2> QED
    BY <2>2, <2>3
<1>6. CASE WriteFails(a)
  BY <1>2, <1>6 DEF WriteFails
<1>7. CASE WriteFile(a)
  <2>1. AfterWrite[proc[a].at] \in ManagedStates /\ proc[a].at \in Writes
    BY <1>7 DEF WriteFile, AfterWrite, Writes, ManagedStates
  <2>2. proc'[a].at = AfterWrite[proc[a].at] /\ proc'[a].leaf = proc[a].leaf
    BY <1>1, <1>7, <2>1, ToFacts DEF WriteFile
  <2> QED
    BY <1>7, <2>1, <2>2 DEF WriteFile, AfterWrite, Writes
<1>8. CASE Prepare(a)
  <2>1. proc'[a].at = "look"
    BY <1>1, <1>8, ToFacts DEF Prepare, ManagedStates
  <2> QED
    BY <1>8, <2>1 DEF Prepare
<1>9. CASE Look(a)
  <2>1. proc'[a].at \in {"rootkey", "load"}
    <3>1. CASE To(a, "load")
      BY <1>1, <3>1, ToFacts DEF ManagedStates
    <3>2. CASE proc' = [proc EXCEPT ![a].at = "rootkey", ![a].ca = next]
      BY <1>1, <3>2 DEF ProcessTypes, Providers
    <3> QED
      BY <1>9, <3>1, <3>2 DEF Look
  <2> QED
    BY <1>9, <2>1 DEF Look
<1> QED
  BY <1>4, <1>5, <1>6, <1>7, <1>8, <1>9 DEF ManagedStep

LEMMA ManagedStepKeepsRoot ==
    ASSUME FilesTypes, ControlInv, InstallInv, RootInv, SoundInv, LatestInv, NEW a \in Actors, ManagedStep(a),
           Calm'
    PROVE  SoundInv' /\ LatestInv'
<1> USE DEF FilesTypes
<1>1. Advances(a) /\ UNCHANGED <<cmd, moved, config, latest>> /\ proc[a] \in Providers
  <2>1. ProviderStep(a)
    BY DEF ProviderStep
  <2> QED
    BY <2>1, ProviderStepFacts DEF ControlInv, UnchangedByProvider, clients, Advances
<1>2. Managed(a) /\ ~Installing /\ ~Installing'
  BY <1>1, CurFacts DEF InstallInv, Installing
<1>3. proc[a].at # "prepare" => cur # Nothing
  BY <1>2 DEF RootInv
<1>4. cur # Nothing => cur \in Directories
  BY DEF DiskTypes
<1>5. proc[a].at \in {"writekey", "writecert"} => proc[a].leaf \in Certificates /\ proc[a].leaf # Nothing
  BY NothingFacts DEF ControlInv, ModeInv, Writes
\* How each write changes the directory.
<1>6. /\ cur' = Nothing => cur = Nothing
      /\ cur # Nothing => cur' # Nothing
      /\ cur # Nothing /\ ~Rooting(a) => cur'.ca = cur.ca /\ cur'.cakey = cur.cakey
      /\ cur # Nothing /\ proc[a].at # "writecert" => cur'.cert = cur.cert
      /\ proc[a].at = "rootkey" /\ cur' # cur => cur'.ca = cur.ca /\ cur'.cakey = proc[a].ca
      /\ proc[a].at = "rootcert" /\ cur' # cur => cur'.ca = proc[a].ca /\ cur'.cakey = cur.cakey
      /\ proc[a].at = "writecert" /\ cur' # cur => cur'.cert = proc[a].leaf
      /\ cur = Nothing => cur' = cur \/ cur' = Directory
  <2>1. CASE cur' = cur
    BY <1>3, <2>1 DEF Rooting
  <2>2. CASE cur = Nothing /\ cur' = Directory /\ proc[a].at = "prepare"
    BY <2>2, DirectoryFacts, NothingFacts
  <2>3. CASE cur \in Directories /\ proc[a].at = "rootkey" /\ cur' = [cur EXCEPT !.cakey = proc[a].ca]
    <3>1. cur' \in Directories /\ cur'.ca = cur.ca /\ cur'.cakey = proc[a].ca /\ cur'.cert = cur.cert
      BY <1>1, <2>3 DEF Directories, Providers
    <3> QED
      BY <2>3, <3>1, NothingFacts DEF Rooting
  <2>4. CASE cur \in Directories /\ proc[a].at = "rootcert" /\ cur' = [cur EXCEPT !.ca = proc[a].ca]
    <3>1. cur' \in Directories /\ cur'.ca = proc[a].ca /\ cur'.cakey = cur.cakey /\ cur'.cert = cur.cert
      BY <1>1, <2>4 DEF Directories, Providers
    <3> QED
      BY <2>4, <3>1, NothingFacts DEF Rooting
  <2>5. CASE cur \in Directories /\ proc[a].at = "writekey" /\ cur' = [cur EXCEPT !.key = proc[a].leaf.n]
    <3>1. cur' \in Directories
      BY <1>5, <2>5, NothingFacts DEF Directories, Certificates
    <3>2. cur'.ca = cur.ca /\ cur'.cakey = cur.cakey /\ cur'.cert = cur.cert
      BY <2>5 DEF Directories
    <3> QED
      BY <2>5, <3>1, <3>2, NothingFacts DEF Rooting
  <2>6. CASE cur \in Directories /\ proc[a].at = "writecert" /\ cur' = [cur EXCEPT !.cert = proc[a].leaf]
    <3>1. cur' \in Directories /\ cur'.ca = cur.ca /\ cur'.cakey = cur.cakey /\ cur'.cert = proc[a].leaf
      BY <1>5, <2>6 DEF Directories
    <3> QED
      BY <2>6, <3>1, NothingFacts DEF Rooting
  <2> QED
    BY <2>1, <2>2, <2>3, <2>4, <2>5, <2>6, CurFacts
<1>7. Rooting(a) => cur.ca = Nothing /\ \A b \in Actors \ {a} : ~Rooting(b)
  BY DEF RootInv
<1>8. Sound(cur')
  <2>1. CASE cur = Nothing
    BY <1>6, <2>1, DirectoryFacts DEF Sound, SoundInv
  <2>2. CASE cur # Nothing /\ ~Rooting(a)
    <3>1. CASE proc[a].at # "writecert"
      BY <1>6, <2>2, <3>1 DEF Sound, SoundInv
    <3>2. CASE proc[a].at = "writecert"
      BY <1>6, <2>2, <3>2 DEF Sound, SoundInv
    <3> QED
      BY <3>1, <3>2
  <2>3. CASE cur # Nothing /\ Rooting(a)
    <3>1. cur.ca = Nothing /\ cur.cert = Nothing
      BY <1>7, <2>3 DEF Sound, SoundInv
    <3>2. cur'.cert = Nothing
      BY <1>6, <2>3, <3>1 DEF Rooting
    <3>3. cur'.ca # Nothing => cur'.cakey = cur'.ca
      BY <1>6, <2>3, <3>1 DEF Rooting, SoundInv
    <3> QED
      BY <3>2, <3>3 DEF Sound
  <2> QED
    BY <2>1, <2>2, <2>3
<1>9. ASSUME NEW b \in Actors, proc'[b].at = "rootcert"
      PROVE  cur'.cakey = proc'[b].ca
  <2>1. CASE b = a
    <3>1. proc[a].at = "rootkey" /\ cur \in Directories /\ cur' = [cur EXCEPT !.cakey = proc[a].ca] /\ proc'[a].ca = proc[a].ca
      BY <1>9, <2>1, CurFacts DEF Rooting
    <3> QED
      BY <2>1, <3>1 DEF Directories
  <2>2. CASE b # a
    <3>1. proc'[b] = proc[b] /\ Rooting(b) /\ cur.cakey = proc[b].ca /\ ~Rooting(a)
      BY <1>1, <1>7, <1>9, <2>2 DEF Advances, Rooting, SoundInv
    <3>2. cur # Nothing
      BY <3>1, RootingFacts DEF RootInv
    <3> QED
      BY <1>6, <3>1, <3>2
  <2> QED
    BY <2>1, <2>2
<1>10. ASSUME NEW b \in Actors, proc'[b].at \in {"writekey", "writecert"}
       PROVE  cur'.ca # Nothing /\ proc'[b].leaf.issuer = cur'.ca
  <2>1. CASE b = a
    <3>1. CASE proc[a].at = "load" /\ cur' = cur /\ CAUsable(cur) /\ proc'[a].leaf.issuer = cur.ca
      BY <2>1, <3>1 DEF CAUsable
    <3>2. CASE proc[a].at = "writekey" /\ proc'[a].leaf = proc[a].leaf
      BY <1>3, <1>6, <2>1, <3>2 DEF SoundInv, Rooting
    <3> QED
      BY <1>10, <2>1, <3>1, <3>2, LeafStep
  <2>2. CASE b # a
    <3>1. proc'[b] = proc[b] /\ cur.ca # Nothing /\ proc[b].leaf.issuer = cur.ca
      BY <1>1, <1>10, <2>2 DEF Advances, SoundInv
    <3>2. ~Rooting(a) /\ cur # Nothing
      <4>1. Managed(b) /\ proc[b].at # "prepare"
        BY <1>10, <3>1, ActiveFacts DEF Managed, ControlInv, ModeInv, ManagedStates, Writes
      <4> QED
        BY <1>7, <3>1, <4>1 DEF RootInv
    <3> QED
      BY <1>6, <3>1, <3>2
  <2> QED
    BY <2>1, <2>2
<1>11. ASSUME served' # Nothing, config.mode = "managed"
       PROVE  cur' # Nothing /\ cur'.ca # Nothing /\ served'.cert.issuer = cur'.ca
  <2>1. CASE served' = served
    <3>1. cur # Nothing /\ cur.ca # Nothing /\ served.cert.issuer = cur.ca
      BY <1>11, <2>1 DEF SoundInv
    <3> QED
      BY <1>6, <1>7, <2>1, <3>1
  <2>2. CASE cur' = cur /\ cur # Nothing /\ cur.cert \in Certificates /\ served'.cert = cur.cert
    BY <2>2, NothingFacts DEF SoundInv, Sound
  <2> QED
    BY <2>1, <2>2, LeafStep
<1>12. SoundInv'
  BY <1>1, <1>8, <1>9, <1>10, <1>11 DEF SoundInv, Sound
<1>13. LatestInv'
  <2>1. Continues(cur, latest)
    BY <1>2 DEF LatestInv
  <2>2. Continues(cur', latest)
    <3>1. CASE latest = Nothing
      BY <3>1 DEF Continues
    <3>2. CASE latest # Nothing
      <4>1. CAUsable(cur) /\ cur.ca = latest
        BY <2>1, <3>2 DEF Continues
      <4>2. cur # Nothing /\ ~Rooting(a)
        BY <1>7, <3>2, <4>1 DEF CAUsable
      <4> QED
        BY <1>6, <4>1, <4>2 DEF CAUsable, Continues
    <3> QED
      BY <3>1, <3>2
  <2> QED
    BY <1>1, <1>2, <2>2 DEF LatestInv, Continues, CAUsable
<1> QED
  BY <1>12, <1>13

\* Processes that come, go or have nothing of pki/managed in hand.
LEMMA RootFrame ==
    ASSUME SoundInv, LatestInv, NEW a \in Actors,
           \A b \in Actors \ {a} : proc'[b] = proc[b],
           proc'[a].at \notin {"rootcert", "writekey", "writecert"} \/ proc'[a] = proc[a],
           UNCHANGED <<cur, moved, latest>>,
           UNCHANGED cmd \/ (~Installing /\ ~Installing'),
           served' = Nothing \/ config'.mode # "managed" \/ UNCHANGED <<served, config>>
    PROVE  SoundInv' /\ LatestInv'
<1>1. Sound(cur)' /\ Sound(moved)'
  BY DEF SoundInv, Sound
<1>2. ASSUME NEW b \in Actors
      PROVE  /\ proc'[b].at = "rootcert" => cur'.cakey = proc'[b].ca
             /\ proc'[b].at \in {"writekey", "writecert"} => cur'.ca # Nothing /\ proc'[b].leaf.issuer = cur'.ca
  <2>1. proc'[b] = proc[b] \/ proc'[b].at \notin {"rootcert", "writekey", "writecert"}
    OBVIOUS
  <2> QED
    BY <2>1 DEF SoundInv
<1>3. (served # Nothing /\ config.mode = "managed" => cur # Nothing /\ cur.ca # Nothing /\ served.cert.issuer = cur.ca)'
  BY DEF SoundInv
<1>4. SoundInv'
  BY <1>1, <1>2, <1>3 DEF SoundInv
<1>5. Continues(cur, latest)' <=> Continues(cur, latest)
  BY DEF Continues, CAUsable
<1>6. LatestInv'
  <2>1. CASE UNCHANGED cmd
    <3>1. Installing' <=> Installing
      BY <2>1 DEF Installing
    <3>2. Continues(Old, cmd.last)' <=> Continues(Old, cmd.last)
      BY <2>1 DEF Continues, CAUsable, Old
    <3> QED
      BY <1>5, <2>1, <3>1, <3>2 DEF LatestInv
  <2>2. CASE ~Installing /\ ~Installing'
    BY <1>5, <2>2 DEF LatestInv
  <2> QED
    BY <2>1, <2>2
<1> QED
  BY <1>4, <1>6

LEMMA ProviderStepKeepsRoot ==
    ASSUME FilesTypes, ControlInv, InstallInv, RootInv, SoundInv, LatestInv, NEW a \in Actors, ProviderStep(a),
           Calm'
    PROVE  SoundInv' /\ LatestInv'
<1> USE DEF FilesTypes
<1>1. CASE ManagedStep(a)
  BY <1>1, ManagedStepKeepsRoot
<1>2. CASE ReloadExternal(a) \/ AcmeStep(a)
  <2>1. ModeInv' /\ Advances(a) /\ UNCHANGED <<cmd, moved, config, latest>> /\ proc[a] \in Providers
    BY ProviderStepFacts DEF ControlInv, UnchangedByProvider, clients, Advances
  <2>2. proc[a].mode # "managed"
    BY <1>2 DEF ReloadExternal, AcmeStep, LoadAccount, StoreAccount, LoadRegistration, RegisterAccount, Obtain,
       AcmeFails, IsAt, ControlInv, ModeInv, AcmeStates
  <2>3. proc'[a].at \notin {"rootcert", "writekey", "writecert"}
    <3>1. proc'[a] = Off \/ proc'[a].mode # "managed"
      BY <2>1, <2>2 DEF Advances
    <3> QED
      BY <2>1, <3>1, OffFacts DEF ModeInv, ManagedStates, Writes
  <2>4. cur' = cur
    BY <1>2 DEF ReloadExternal, AcmeStep, LoadAccount, StoreAccount, LoadRegistration, RegisterAccount, Obtain,
       AcmeFails
  <2>5. CASE a = "server"
    <3>1. config.mode # "managed"
      BY <2>1, <2>2, <2>5, OffFacts DEF ControlInv, LockInv
    <3> QED
      BY <2>1, <2>3, <2>4, <3>1, RootFrame DEF Advances
  <2>6. CASE a # "server"
    <3>1. served' = served
      BY <1>2, <2>6 DEF ReloadExternal, AcmeStep, LoadAccount, StoreAccount, LoadRegistration, RegisterAccount, Obtain,
         AcmeFails, ProviderDone
    <3> QED
      BY <2>1, <2>3, <2>4, <3>1, RootFrame DEF Advances
  <2> QED
    BY <2>5, <2>6
<1> QED
  BY <1>1, <1>2 DEF ProviderStep

LEMMA AsideKeepsRoot ==
    ASSUME FilesTypes, ControlInv, SoundInv, LatestInv, Aside, Calm'
    PROVE  SoundInv' /\ LatestInv'
<1>1. UNCHANGED <<proc, cmd, cur, moved, served, config>>
  BY DEF Aside, ReplaceExternalCert, ReplaceExternalKey, Tick, Write, BackupSnapshot, BackupPack,
     SetupOpen, SetupExchange, SetupInvite, SetupEnds, HandOut, BackupCA, pki
<1>2. SoundInv'
  BY <1>1 DEF SoundInv, Sound
<1>3. CASE HandOut
  <2>1. ~Installing
    BY <1>3, OffFacts DEF HandOut, Swapping, Installing, Calm, Without, ControlInv, CommandInv, Steps
  <2>2. ~Installing'
    BY <1>1, <2>1 DEF Installing
  <2>3. CAUsable(cur) /\ latest' = cur.ca
    BY <1>3 DEF HandOut, SoundInv, Sound, CAUsable
  <2>4. Continues(cur, latest)'
    BY <1>1, <2>3 DEF Continues, CAUsable
  <2> QED
    BY <1>2, <2>2, <2>4 DEF LatestInv
<1>4. CASE ~HandOut
  <2>1. UNCHANGED latest
    BY <1>4 DEF Aside, ReplaceExternalCert, ReplaceExternalKey, Tick, Write, BackupSnapshot, BackupPack,
       SetupOpen, SetupExchange, SetupInvite, SetupEnds, BackupCA, clients
  <2> QED
    BY <1>1, <2>1, RootFrame DEF Actors
<1> QED
  BY <1>3, <1>4

\* A new directory that is in place has the root clients were given.
LEMMA InstalledContinues ==
    ASSUME ControlInv, InstallInv, LatestInv, Installing, cmd.at \in {"sync", "save", "commit", "undo"}
    PROVE  Continues(cur, latest) /\ Sound(cmd.staged)
<1>1. cur = cmd.staged /\ Complete(cmd.staged)
  BY DEF InstallInv, ControlInv, CommandInv
<1>2. CAUsable(cur) /\ Sound(cmd.staged)
  BY <1>1, NothingFacts DEF CAUsable, Complete, Sound
<1>3. CASE cmd.kind = "init"
  <2>1. latest = cmd.last /\ Continues(Old, latest)
    BY <1>3 DEF LatestInv
  <2> QED
    BY <1>1, <1>2, <1>3, <2>1 DEF Continues, CAUsable, InstallInv
<1>4. CASE cmd.kind # "init"
  <2>1. cmd.kind = "restoreca" /\ cmd.at \in {"sync", "undo"}
    BY <1>4 DEF ControlInv, CommandInv, Steps
  <2> QED
    BY <1>1, <1>2, <2>1 DEF LatestInv, Continues
<1> QED
  BY <1>2, <1>3, <1>4

LEMMA KillKeepsRoot ==
    ASSUME FilesTypes, ControlInv, InstallInv, RootInv, SoundInv, LatestInv, Kill("command"), Quiet'
    PROVE  SoundInv' /\ LatestInv'
<1>1. /\ proc'["command"] = Off /\ \A b \in Actors \ {"command"} : proc'[b] = proc[b]
      /\ cmd' = Off /\ moved' = Nothing /\ cur' = cur /\ UNCHANGED <<served, config, latest>>
      /\ cmd.at # "remove" /\ ~(moved # Nothing /\ Vacant)
  <2>1. "command" \in Actors
    BY DEF Actors
  <2>2. proc'["command"] = Off /\ \A b \in Actors \ {"command"} : proc'[b] = proc[b]
    BY <2>1, KillFacts
  <2>3. mishaps' = mishaps \cup (IF cmd.at = "remove" THEN {"rollback"} ELSE {})
                            \cup (IF moved # Nothing /\ Vacant THEN {"swap"} ELSE {})
    BY DEF Kill
  <2>4. cmd.at # "remove" /\ ~(moved # Nothing /\ Vacant)
    BY <2>3 DEF Quiet, Without
  <2> QED
    BY <2>2, <2>4 DEF Kill, clients
<1>2. ~Installing'
  BY <1>1, OffFacts DEF Installing, Steps, Off
<1>3. SoundInv'
  <2>1. Sound(moved)' /\ Sound(cur)'
    BY <1>1 DEF Sound, SoundInv
  <2>2. ASSUME NEW b \in Actors
        PROVE  /\ proc'[b].at = "rootcert" => cur'.cakey = proc'[b].ca
               /\ proc'[b].at \in {"writekey", "writecert"} => cur'.ca # Nothing /\ proc'[b].leaf.issuer = cur'.ca
    <3>1. proc'[b] = proc[b] \/ proc'[b].at \notin {"rootcert", "writekey", "writecert"}
      BY <1>1, OffFacts
    <3> QED
      BY <1>1, <3>1 DEF SoundInv
  <2> QED
    BY <1>1, <2>1, <2>2 DEF SoundInv
<1>4. Continues(cur, latest)
  <2>1. CASE ~Installing
    BY <2>1 DEF LatestInv
  <2>2. CASE Installing /\ cmd.at = "stash"
    BY <2>2 DEF LatestInv, Old
  <2>3. CASE Installing /\ cmd.at \in {"swap", "putback"}
    <3>1. moved = Nothing /\ Old = Nothing
      BY <1>1, <2>3 DEF InstallInv, Vacant, Old
    <3>2. latest = Nothing
      BY <2>3, <3>1 DEF LatestInv, Continues, CAUsable
    <3> QED
      BY <3>2 DEF Continues
  <2>4. CASE Installing /\ cmd.at \in {"sync", "save", "commit", "undo"}
    BY <2>4, InstalledContinues
  <2> QED
    BY <1>1, <2>1, <2>2, <2>3, <2>4 DEF Installing, Steps
<1>5. Continues(cur, latest)'
  BY <1>1, <1>4 DEF Continues, CAUsable
<1> QED
  BY <1>2, <1>3, <1>5 DEF LatestInv

LEMMA ProcessActionKeepsRoot ==
    ASSUME FilesTypes, ControlInv, InstallInv, RootInv, SoundInv, LatestInv, ProcessAction, Quiet'
    PROVE  SoundInv' /\ LatestInv'
<1> USE DEF Actors
<1>1. CASE ServerStart
  <2>1. UNCHANGED <<cmd, cur, moved, latest, config>>
    BY <1>1 DEF ServerStart, pki, clients
  <2>2. /\ proc'["server"].at \in {"prepare", "account", "reload", "idle"}
        /\ \A b \in Actors \ {"server"} : proc'[b] = proc[b]
        /\ served' = Nothing \/ config.mode = "acme"
    BY <1>1, ServerStartFacts
  <2> QED
    BY <2>1, <2>2, RootFrame
<1>2. CASE Watch
  <2>1. UNCHANGED <<cmd, cur, moved, latest, config, served>>
    BY <1>2 DEF Watch, UnchangedByProvider, clients
  <2>2. proc'["server"].at \in {"load", "account", "reload"} /\ \A b \in Actors \ {"server"} : proc'[b] = proc[b]
    BY <1>2, WatchFacts DEF Advances
  <2> QED
    BY <2>1, <2>2, RootFrame
<1>3. CASE ServerStop
  <2>1. UNCHANGED <<cmd, cur, moved, latest>>
    BY <1>3 DEF ServerStop, pki, clients
  <2>2. proc'["server"] = Off /\ served' = Nothing /\ \A b \in Actors \ {"server"} : proc'[b] = proc[b]
    BY <1>3, ServerStopFacts
  <2> QED
    BY <2>1, <2>2, RootFrame, OffFacts
<1>4. CASE StatusEnds
  <2>1. UNCHANGED <<cmd, cur, moved, latest, served, config>>
    BY <1>4 DEF StatusEnds, pki, clients
  <2>2. proc'["unlocked"] = Off /\ \A b \in Actors \ {"unlocked"} : proc'[b] = proc[b]
    BY <1>4, StatusFacts
  <2> QED
    BY <2>1, <2>2, RootFrame, OffFacts
<1>5. CASE StatusStart
  <2>1. UNCHANGED <<cmd, cur, moved, latest, served, config>>
    BY <1>5 DEF StatusStart, pki, clients
  <2>2. /\ proc'["unlocked"] = Provider(config, FALSE) /\ config \in Configs
        /\ \A b \in Actors \ {"unlocked"} : proc'[b] = proc[b]
    BY <1>5, StatusFacts
  <2>3. proc'["unlocked"].at \in {"prepare", "account", "reload", "idle"}
    BY <2>2, ProviderStarts
  <2> QED
    BY <2>1, <2>2, <2>3, RootFrame
<1>6. ASSUME NEW a \in Actors, Kill(a), a # "command"
      PROVE  SoundInv' /\ LatestInv'
  <2>1. UNCHANGED <<cmd, cur, moved, latest, config>> /\ (served' = Nothing \/ served' = served)
    BY <1>6 DEF Kill, pki, clients
  <2>2. proc'[a] = Off /\ \A b \in Actors \ {a} : proc'[b] = proc[b]
    BY <1>6, KillFacts
  <2> QED
    BY <2>1, <2>2, RootFrame, OffFacts
<1> QED
  BY <1>1, <1>2, <1>3, <1>4, <1>5, <1>6, KillKeepsRoot DEF ProcessAction

LEMMA BeginKeepsRoot ==
    ASSUME FilesTypes, ControlInv, InstallInv, RootInv, CopyInv, SoundInv, LatestInv, Begin, Calm'
    PROVE  SoundInv' /\ LatestInv'
<1> USE DEF FilesTypes, Actors
<1>1. Unlocked
  BY BeginKeepsAll
<1>2. ~Installing /\ Continues(cur, latest) /\ served = Nothing
  BY <1>1, BeginFacts DEF LatestInv
<1>3. UNCHANGED <<cur, moved, latest, served, config>>
  BY DEF Begin, InitStart, Apply, Initialize, RestoreCAStart, RenewStart, RestoreStart, UnchangedByCommand, pki,
     clients
<1>4. ASSUME UNCHANGED proc, Installing', Old' = cur, cmd'.last = latest, cmd'.at \in {"stash", "swap"}
      PROVE  SoundInv' /\ LatestInv'
  <2>1. SoundInv'
    BY <1>3, <1>4 DEF SoundInv, Sound
  <2>2. Continues(Old, cmd.last)'
    BY <1>2, <1>4 DEF Continues, CAUsable
  <2> QED
    BY <1>3, <1>4, <2>1, <2>2 DEF LatestInv
<1>5. CASE InitStart \/ Apply
  <2>1. PICK c \in budget.configs : Initialize(c)
    BY <1>5 DEF InitStart, Apply
  <2>2. UNCHANGED <<proc, cur, moved, kept, archive, given>> /\ cmd'.last = latest
    BY <2>1, InitializeFacts DEF Initialize, UnchangedByCommand, pki, clients
  <2>3. CASE c.mode = "managed"
    <3>1. proc["unlocked"] = Off
      BY <2>1, <2>3 DEF Initialize, Calm, Without
    <3>2. Installing' /\ Old' = cur /\ cmd'.at \in {"stash", "swap"}
      BY <1>1, <2>1, <2>2, <2>3, <3>1, InitializeFacts, InstallBegins
    <3> QED
      BY <1>4, <2>2, <3>2
  <2>4. CASE c.mode # "managed"
    <3>1. ~Installing'
      BY <2>1, <2>4, InitializeFacts DEF Installing
    <3> QED
      BY <1>2, <1>3, <2>2, <3>1, RootFrame
  <2> QED
    BY <2>3, <2>4
<1>6. CASE RestoreCAStart
  <2>1. UNCHANGED <<proc, cur, moved, kept, archive, given>> /\ cmd'.last = latest /\ cmd'.kind # "init"
    BY <1>6, RestoreCAStartFacts DEF RestoreCAStart, UnchangedByCommand, pki, clients
  <2>2. proc["unlocked"] = Off
    BY <1>6 DEF RestoreCAStart, Calm, Without
  <2>3. Installing' /\ Old' = cur /\ cmd'.at \in {"stash", "swap"}
    BY <1>1, <1>6, <2>1, <2>2, RestoreCAStartFacts, InstallBegins
  <2> QED
    BY <1>4, <2>1, <2>3
<1>7. CASE RenewStart
  <2> DEFINE forced == config.mode = "managed"
  <2>1. /\ config \in Configs /\ forced \in BOOLEAN /\ proc'["command"] = Provider(config, forced)
        /\ cmd'.at = "provider" /\ \A b \in Actors \ {"command"} : proc'[b] = proc[b]
    BY <1>7, RenewStartFacts
  <2> HIDE DEF forced
  <2>2. proc'["command"].at \in {"prepare", "account", "reload", "idle"}
    BY <2>1, ProviderStarts
  <2>3. ~Installing'
    BY <2>1 DEF Installing, Steps
  <2> QED
    BY <1>2, <1>3, <2>1, <2>2, <2>3, RootFrame
<1>8. CASE RestoreStart
  <2>1. UNCHANGED proc /\ ~Installing'
    BY <1>8, RestoreStartFacts DEF RestoreStart, Installing, Steps
  <2> QED
    BY <1>2, <1>3, <2>1, RootFrame
<1> QED
  BY <1>5, <1>6, <1>7, <1>8 DEF Begin

LEMMA RestoreWorkKeepsRoot ==
    ASSUME FilesTypes, ControlInv, SoundInv, LatestInv, RestoreWork
    PROVE  SoundInv' /\ LatestInv'
<1>1. UNCHANGED <<proc, cur, moved, latest, served, config>> /\ ~Installing /\ ~Installing'
  BY RestoreWorkFacts DEF pki, clients
<1> QED
  BY <1>1, RootFrame DEF Actors

\* The state of a provider that a command starts once it has done its work.
LEMMA CommitStarts ==
    ASSUME FilesTypes, ControlInv, Commit
    PROVE  /\ \A b \in Actors \ {"command"} : proc'[b] = proc[b]
           /\ proc'["command"].at \notin {"rootcert", "writekey", "writecert"} \/ proc'["command"] = proc["command"]
<1>1. CASE UNCHANGED proc
  BY <1>1
<1>2. CASE ~UNCHANGED proc
  <2>1. /\ \A b \in Actors \ {"command"} : proc'[b] = proc[b]
        /\ cmd.cfg \in Configs /\ proc'["command"] = Provider(cmd.cfg, FALSE)
    BY <1>2, CommitFacts
  <2>2. proc'["command"].at \in {"prepare", "account", "reload", "idle"}
    BY <2>1, ProviderStarts
  <2> QED
    BY <2>1, <2>2
<1> QED
  BY <1>1, <1>2

LEMMA WorkKeepsRoot ==
    ASSUME FilesTypes, ControlInv, InstallInv, RootInv, SoundInv, LatestInv, Work, Quiet'
    PROVE  SoundInv' /\ LatestInv'
<1> USE DEF FilesTypes
<1>1. served = Nothing /\ served' = Nothing
  <2>1. cmd # Off
    BY WorkFacts, OffFacts DEF Steps
  <2> QED
    BY <2>1 DEF ControlInv, LockInv, Work, Stash, Swap, SwapFails, Sync, SyncFails, Save, SaveFails, Commit, Remove,
       Undo, PutBack, RemoveFails, UnchangedByCommand
<1>2. /\ \A b \in Actors \ {"command"} : proc'[b] = proc[b]
      /\ proc'["command"].at \notin {"rootcert", "writekey", "writecert"} \/ proc'["command"] = proc["command"]
  <2>1. CASE Commit
    BY <2>1, CommitStarts
  <2>2. CASE ~Commit
    BY <2>2, InstallStep, PlainWork
  <2> QED
    BY <2>1, <2>2
<1>3. CASE ~Installing
  <2>1. ~Installing' /\ moved' = moved /\ UNCHANGED <<cur, latest>>
    BY <1>3, PlainWork DEF InstallInv
  <2> QED
    BY <1>1, <1>2, <1>3, <2>1, RootFrame DEF Actors
<1>4. CASE Installing
  <2>1. Complete(cmd.staged) /\ cmd.staged # Nothing /\ CAUsable(cmd.staged) /\ Sound(cmd.staged)
    BY <1>4, NothingFacts DEF ControlInv, CommandInv, Complete, CAUsable, Sound
  <2>2. Sound(Nothing) /\ Sound(cur) /\ Sound(moved)
    BY DEF Sound, SoundInv
  <2>3. \A b \in Actors : ~Managed(b) /\ proc[b].at \notin {"rootcert", "writekey", "writecert"}
    BY <1>4, RootingFacts, ActiveFacts DEF InstallInv, Managed, ControlInv, ModeInv, ManagedStates, Writes
  <2>4. ASSUME Sound(cur'), Sound(moved')
        PROVE  SoundInv'
    <3>1. \A b \in Actors : proc'[b].at \notin {"rootcert", "writekey", "writecert"}
      BY <1>2, <2>3
    <3>2. Sound(cur)' /\ Sound(moved)'
      BY <2>4 DEF Sound
    <3> QED
      BY <1>1, <3>1, <3>2 DEF SoundInv
  <2>5. ASSUME ~Installing', Continues(cur', latest')
        PROVE  LatestInv'
    BY <2>5 DEF LatestInv, Continues, CAUsable
  <2>6. Continues(Old, cmd.last)
    BY <1>4 DEF LatestInv
  <2>7. ASSUME Installing', Old' = Old,
               latest' = IF cmd'.at \in {"sync", "undo"} /\ cmd.kind = "restoreca" /\ cmd.last # Nothing
                         THEN cmd.staged.ca ELSE cmd.last
        PROVE  LatestInv'
    <3>1. cmd'.staged = cmd.staged /\ cmd'.last = cmd.last /\ cmd'.kind = cmd.kind
      BY <1>4, <2>7, InstallStep
    <3>2. Continues(Old, cmd.last)'
      BY <2>6, <2>7, <3>1 DEF Continues, CAUsable
    <3> QED
      BY <2>7, <3>1, <3>2 DEF LatestInv
  <2>8. CASE Stash
    <3>1. Installing' /\ cmd'.at = "swap" /\ moved' = cur /\ cur' = Nothing /\ latest' = latest
      BY <1>4, <2>8, InstallStep DEF Stash, Swap, SwapFails, PutBack, Sync, SyncFails, Save, SaveFails, Commit,
         Remove, Undo, RemoveFails
    <3>2. Old' = Old /\ latest = cmd.last
      BY <1>4, <2>8, <3>1 DEF Old, Stash, LatestInv
    <3> QED
      BY <2>2, <2>4, <2>7, <3>1, <3>2
  <2>9. CASE ~Stash
    <3>1. cmd.at # "stash" /\ Old = moved
      BY <2>9 DEF Work, Stash, Swap, SwapFails, PutBack, Sync, SyncFails, Save, SaveFails, Commit, Remove, Undo,
         RemoveFails, Old
    <3>2. ASSUME moved' = moved, cmd'.at # "stash"
          PROVE  Old' = Old
      BY <3>1, <3>2 DEF Old
    <3>3. CASE /\ Swap /\ Installing' /\ cmd'.at = "sync" /\ cur' = cmd.staged /\ moved' = moved
               /\ latest' = IF cmd.kind = "restoreca" /\ latest # Nothing THEN cmd.staged.ca ELSE latest
      <4>1. latest = cmd.last
        BY <1>4, <3>3 DEF Swap, LatestInv
      <4> QED
        BY <2>1, <2>2, <2>4, <2>7, <3>2, <3>3, <4>1
    <3>4. CASE (SwapFails \/ PutBack) /\ ~Installing' /\ cur' = moved /\ moved' = Nothing /\ latest' = latest
      <4>1. latest = cmd.last
        BY <1>4, <3>4 DEF SwapFails, PutBack, LatestInv
      <4> QED
        BY <2>2, <2>4, <2>5, <2>6, <3>1, <3>4, <4>1
    <3>5. CASE /\ Installing' /\ cmd'.at \in {"save", "remove", "undo", "commit"}
               /\ cmd.at \in {"sync", "save"} /\ UNCHANGED <<cur, moved, latest>>
               /\ cmd'.at = "undo" => cmd.at = "sync"
      <4>1. CASE cmd.kind = "restoreca"
        <5>1. cmd'.at = "undo" /\ cmd.at = "sync"
          <6>1. CommandInv' /\ cmd'.kind = cmd.kind
            BY <1>4, <3>5, WorkFacts, InstallStep
          <6> QED
            BY <3>5, <4>1, <6>1 DEF CommandInv
        <5> QED
          BY <1>4, <2>2, <2>4, <2>7, <3>2, <3>5, <4>1, <5>1 DEF LatestInv
      <4>2. CASE cmd.kind # "restoreca"
        BY <1>4, <2>2, <2>4, <2>7, <3>2, <3>5, <4>2 DEF LatestInv
      <4> QED
        BY <4>1, <4>2
    <3>6. CASE (Sync \/ Commit) /\ ~Installing' /\ moved' = Nothing /\ UNCHANGED <<cur, latest>>
      <4>1. Continues(cur, latest)
        BY <1>4, <3>6, InstalledContinues DEF Sync, Commit
      <4> QED
        BY <2>2, <2>4, <2>5, <3>6, <4>1
    <3>7. CASE /\ Remove /\ cur' = Nothing /\ UNCHANGED <<moved, latest>>
               /\ moved # Nothing => Installing' /\ cmd'.at = "putback"
               /\ moved = Nothing => ~Installing'
      <4>1. latest = cmd.last
        BY <1>4, <3>7 DEF Remove, LatestInv
      <4>2. CASE moved # Nothing
        BY <2>2, <2>4, <2>7, <3>2, <3>7, <4>1, <4>2
      <4>3. CASE moved = Nothing
        BY <2>2, <2>4, <2>5, <2>6, <3>1, <3>7, <4>1, <4>3
      <4> QED
        BY <4>2, <4>3
    <3>8. CASE Undo /\ Installing' /\ cmd'.at = "putback" /\ cur' = Nothing /\ latest' = cmd.last /\ moved' = moved
      BY <2>2, <2>4, <2>7, <3>2, <3>8
    <3>9. "rollback" \notin mishaps'
      BY DEF Quiet, Without
    <3> QED
      BY <1>4, <2>9, <3>3, <3>4, <3>5, <3>6, <3>7, <3>8, <3>9, InstallStep
  <2> QED
    BY <2>8, <2>9
<1> QED
  BY <1>3, <1>4

LEMMA StepContinuity ==
    ASSUME FilesTypes, ControlInv, LossInv, ContinuityInv, [FilesNext]_filesVars
    PROVE  ContinuityInv'
<1> SUFFICES ASSUME Quiet'
             PROVE  SoundInv' /\ LatestInv'
  BY DEF ContinuityInv, Quiet
<1>1. Calm' /\ Quiet /\ Calm
  BY MishapsGrow, StillWithout DEF Quiet, Calm, Without
<1>2. InstallInv /\ RootInv /\ CopyInv /\ SoundInv /\ LatestInv
  BY <1>1 DEF LossInv, ContinuityInv, Quiet, Calm
<1>3. CASE UNCHANGED filesVars
  BY <1>2, <1>3, RootFrame DEF filesVars, pki, clients, Actors
<1> QED
  BY <1>1, <1>2, <1>3, StepKinds, ProviderStepKeepsRoot, AsideKeepsRoot, ProcessActionKeepsRoot, BeginKeepsRoot,
     WorkKeepsRoot, RestoreWorkKeepsRoot

-----------------------------------------------------------------------------
(* The theorems *)

FilesInv == FilesTypes /\ ControlInv /\ RestoreInv /\ AccountInv /\ LossInv /\ ContinuityInv

LEMMA FilesInvHolds == FilesSpec => []FilesInv
<1>1. ASSUME FilesInit
      PROVE  FilesInv
  <2>1. FilesTypes /\ ControlInv
    BY <1>1, InitControl
  <2>2. RestoreInv
    BY <1>1, OffFacts DEF FilesInit, RestoreInv, Visible
  <2>3. cmd = Off /\ \A a \in Actors : proc[a] = Off
    BY <1>1 DEF FilesInit
  <2>4. AccountInv
    BY <1>1, <2>3, OffFacts DEF FilesInit, AccountInv
  <2>5. ~Installing
    BY <2>3, NoCommandIsSound
  <2>6. LossInv
    BY <1>1, <2>3, <2>5, OffFacts DEF FilesInit, LossInv, InstallInv, RootInv, CopyInv, Managed, Rooting
  <2>7. ContinuityInv
    BY <1>1, <2>3, <2>5, OffFacts DEF FilesInit, ContinuityInv, SoundInv, LatestInv, Sound, Continues
  <2> QED
    BY <2>1, <2>2, <2>4, <2>6, <2>7 DEF FilesInv
<1>2. ASSUME FilesInv, [FilesNext]_filesVars
      PROVE  FilesInv'
  BY <1>2, StepControl, StepRestore, StepAccount, StepLoss, StepContinuity DEF FilesInv
<1> QED
  BY <1>1, <1>2, PTL DEF FilesSpec

\* CANotLost: whatever init, restore-ca, a fault, a rollback or a kill does to
\* pki/managed, a root clients were given is still in a directory or in a
\* recovery package.
THEOREM GivenRootsAreKept == FilesSpec => []CANotLost
<1>1. ASSUME FilesInv
      PROVE  CANotLost
  <2> SUFFICES ASSUME Calm
               PROVE  given \subseteq kept \cup archive \cup {d.ca : d \in {cur, moved} \ {Nothing}}
    BY DEF CANotLost, Calm
  <2>1. CopyInv
    BY <1>1 DEF FilesInv, LossInv, Calm
  <2>2. given \subseteq kept \cup archive \cup Kept(Old) \/ given \subseteq kept \cup archive \cup Kept(cur)
    BY <2>1 DEF CopyInv, Kept
  <2> QED
    BY <2>2 DEF Kept, Old
<1> QED
  BY <1>1, FilesInvHolds, PTL

\* CAContinuity: between commands the Server has the root clients were given
\* last, with its key, after any sequence of inits, restores, renewals,
\* rollbacks and kills outside the moments the mishaps name.
THEOREM RootContinues == FilesSpec => []CAContinuity
<1>1. ASSUME FilesInv
      PROVE  CAContinuity
  <2>1. cmd = Off => ~Installing
    BY NoCommandIsSound
  <2>2. Quiet => LatestInv
    BY <1>1 DEF FilesInv, ContinuityInv, Quiet
  <2> QED
    BY <2>1, <2>2 DEF CAContinuity, LatestInv, Continues, Quiet
<1> QED
  BY <1>1, FilesInvHolds, PTL

\* ServedChains: the certificate a running Server serves has its own key and
\* the host of the configuration, and the current root has issued it.
THEOREM ServedIsOwn == FilesSpec => []ServedChains
<1>1. ASSUME FilesInv
      PROVE  ServedChains
  <2>1. served # Nothing => served.key = served.cert.n /\ served.cert.host = config.host
    BY <1>1 DEF FilesInv, ControlInv, LockInv
  <2>2. Quiet => SoundInv
    BY <1>1 DEF FilesInv, ContinuityInv, Quiet
  <2> QED
    BY <2>1, <2>2 DEF ServedChains, SoundInv, Quiet
<1> QED
  BY <1>1, FilesInvHolds, PTL

\* RestoreIsExact: a restore without a leftover log or a writer leaves the
\* content of the package, and a copy of what it replaced.
THEOREM RestoredAsPacked == FilesSpec => []RestoreIsExact
<1>1. ASSUME FilesInv
      PROVE  RestoreIsExact
  BY <1>1 DEF FilesInv, RestoreInv, RestoreIsExact
<1> QED
  BY <1>1, FilesInvHolds, PTL

\* AccountMatches: the stored registration is that of the stored account key.
THEOREM AccountIsConsistent == FilesSpec => []AccountMatches
<1>1. ASSUME FilesInv
      PROVE  AccountMatches
  BY <1>1 DEF FilesInv, AccountInv, AccountMatches
<1> QED
  BY <1>1, FilesInvHolds, PTL
=============================================================================
