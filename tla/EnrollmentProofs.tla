-------------------------- MODULE EnrollmentProofs --------------------------
(***************************************************************************)
(* Proofs about Enrollment for any Nodes, candidates and enrollments, and  *)
(* any number of requests between their authentication and transaction;    *)
(* then about NodeSetup, the other way into the Node table, for any        *)
(* machines, submissions, secrets and failures.                            *)
(***************************************************************************)
EXTENDS Enrollment, NodeSetup, FiniteSetTheorems, TLAPS

Statuses == {None, "pending", "claimed", "approved", "declined", "expired"}

Proofs == [by : Candidates \cup {None}, cred : Nat, decision : {None, "accept", "decline"}]

EnrollmentRows == [status : Statuses, issuer : Nodes \cup {None}, by : Candidates \cup {None},
                   cred : Nat, proof : Proofs]

RequestRows == [kind : {"create", "decide", "revoke", "drop"}, node : Nodes, id : Ids,
                proof : Proofs]

CandidateRows == [stored : Nat, drawn : Nat, cred : Nat, on : Enrollments \cup {None},
                  bound : Enrollments \cup {None}, ended : BOOLEAN]

Types ==
    /\ st \in [Ids -> {None, "active", "revoked"}]
    /\ keyOf \in [Enrollments -> Candidates \cup {None}]
    /\ enr \in [Enrollments -> EnrollmentRows]
    /\ req \subseteq RequestRows
    /\ \A r \in req : r.kind \in {"create", "decide"} => r.id \in Enrollments
    /\ cand \in [Candidates -> CandidateRows]

\* An enrollment that is still open has an active issuer.
OpenIsIssued ==
    \A e \in Enrollments :
        enr[e].status \in {"pending", "claimed"} =>
            enr[e].issuer \in Nodes /\ st[enr[e].issuer] = "active"

\* A request that is under way still fits the row it was authenticated for: the
\* row to create does not exist, and a decision about a claimed enrollment is
\* about that claim, although claims are repeated.
Fitting(r) ==
    /\ r.kind = "create" => enr[r.id].status = None
    /\ r.kind = "decide" =>
          /\ enr[r.id].status \notin {None, "pending"}
          /\ r.proof.decision \in {"accept", "decline"}
          /\ enr[r.id].status = "claimed" =>
                r.proof.by = enr[r.id].by /\ r.proof.cred = enr[r.id].cred

RequestsFit ==
    /\ \A r \in req : Fitting(r)
    /\ \A r, q \in req : r.kind = "create" /\ q.kind = "create" /\ r.id = q.id => r = q

EnrollmentInv ==
    /\ Types
    /\ OpenIsIssued
    /\ RequestsFit
    /\ AdmittedAsSigned
    /\ OneNodeLeft

-----------------------------------------------------------------------------
(* Which step changes what *)

\* The rows change in the transactions of requests and of the administrator,
\* by expiry and by claims.
LEMMA RowsMove ==
    ASSUME [Next]_vars
    PROVE  \/ UNCHANGED <<st, keyOf, enr>>
           \/ \E r \in req : CreateNodeEnrollment(r) \/ ResolveNodeEnrollment(r) \/ RevokeNode(r)
           \/ \E i \in Ids : AdminRevokeNode(i)
           \/ \E e \in Enrollments : CancelAdminAccessRequest(e) \/ NodeEnrollmentExpires(e)
           \/ \E c \in Candidates, e \in Enrollments : Join(c, e) \/ JoinAnswerLost(c, e)
           \/ \E n \in Invited : InvitedNodeJoins(n)
BY DEF Next, LinkStep, AskStep, ServeStep, AdminStep, CandidateStep, Hello, Register, Disconnect,
   SessionExpires, RefreshNodeSession, AskCreate, AskDecide, AskRevoke, Ask, DisconnectNode, Lapse,
   UpdateEnrollmentSetting, MonitorRefused, MonitorApproved, StopCandidate,
   vars, rows

\* Requests are added by their authentication; a revocation leaves a disconnection.
LEMMA RequestsMove ==
    ASSUME [Next]_vars
    PROVE  \/ req' \subseteq req
           \/ \E n \in Nodes, e \in Enrollments : AskCreate(n, e)
           \/ \E n \in Nodes, e \in Enrollments, d \in {"accept", "decline"} : AskDecide(n, e, d)
           \/ \E n \in Nodes, i \in Ids : AskRevoke(n, i)
           \/ \E r \in req : RevokeNode(r) /\ r.kind = "revoke"
BY DEF Next, LinkStep, AskStep, ServeStep, AdminStep, CandidateStep, Hello, Register, Disconnect,
   SessionExpires, RefreshNodeSession, CreateNodeEnrollment, ResolveNodeEnrollment, RevokeNode,
   DisconnectNode, AdminRevokeNode, CancelAdminAccessRequest, Lapse, NodeEnrollmentExpires,
   UpdateEnrollmentSetting, InvitedNodeJoins, Join, JoinAnswerLost, MonitorRefused,
   MonitorApproved, StopCandidate, vars

\* Revocation, by whomever, expires what the revoked Node has open and touches
\* no other field of an enrollment.
LEMMA ClosedFacts ==
    ASSUME Types, NEW t
    PROVE  /\ Closed(t) \in [Enrollments -> EnrollmentRows]
           /\ \A e \in Enrollments :
                /\ Closed(t)[e].issuer = enr[e].issuer /\ Closed(t)[e].by = enr[e].by
                /\ Closed(t)[e].cred = enr[e].cred /\ Closed(t)[e].proof = enr[e].proof
                /\ \/ Closed(t)[e].status = enr[e].status
                   \/ Closed(t)[e].status = "expired" /\ enr[e].status \in {"pending", "claimed"}
                /\ Closed(t)[e].status \in {"pending", "claimed"} => enr[e].issuer # t
<1>1. \A e \in Enrollments : /\ enr[e] \in EnrollmentRows
                             /\ [enr[e] EXCEPT !.status = "expired"] \in EnrollmentRows
  BY DEF Types, EnrollmentRows, Statuses
<1>2. \A e \in Enrollments :
          Closed(t)[e] = IF enr[e].issuer = t /\ enr[e].status \in {"pending", "claimed"}
                         THEN [enr[e] EXCEPT !.status = "expired"] ELSE enr[e]
  BY DEF Closed
<1>3. Closed(t) \in [Enrollments -> EnrollmentRows]
  BY <1>1 DEF Closed
<1> QED
  BY <1>1, <1>2, <1>3 DEF EnrollmentRows

\* The ways the rows change.
Created(r) ==
    /\ r \in req /\ r.kind = "create" /\ st[r.node] = "active"
    /\ enr' = [enr EXCEPT ![r.id] = [NoEnrollment EXCEPT !.status = "pending", !.issuer = r.node]]
    /\ req' = req \ {r}
    /\ UNCHANGED <<st, keyOf>>

DecidedNo(r) ==
    /\ r \in req /\ r.kind = "decide" /\ enr[r.id].status = "claimed"
    /\ enr' = [enr EXCEPT ![r.id].status = "declined", ![r.id].proof = r.proof]
    /\ UNCHANGED <<st, keyOf>>

DecidedYes(r) ==
    /\ r \in req /\ r.kind = "decide" /\ enr[r.id].status = "claimed"
    /\ r.proof.decision = "accept" /\ Admissible(r.id)
    /\ enr' = [enr EXCEPT ![r.id].status = "approved", ![r.id].proof = r.proof]
    /\ st' = [st EXCEPT ![r.id] = "active"]
    /\ keyOf' = [keyOf EXCEPT ![r.id] = enr[r.id].by]

NodeRevoked(t) ==
    /\ st[t] = "active" /\ Cardinality(Active) > 1
    /\ st' = [st EXCEPT ![t] = "revoked"]
    /\ enr' = Closed(t)
    /\ UNCHANGED keyOf

ExpiredNow(e) ==
    /\ enr[e].status \in {"pending", "claimed"}
    /\ enr' = [enr EXCEPT ![e].status = "expired"]
    /\ UNCHANGED <<st, keyOf>>

ClaimedNow(c, e) ==
    /\ enr[e].status = "pending" \/ SameClaim(e, c)
    /\ enr' = Claimed(e, c)
    /\ UNCHANGED <<st, keyOf>>

InvitedIn(n) ==
    /\ st[n] = None
    /\ st' = [st EXCEPT ![n] = "active"]
    /\ UNCHANGED <<keyOf, enr>>

LEMMA Moves ==
    ASSUME Types, [Next]_vars
    PROVE  \/ UNCHANGED <<st, keyOf, enr>>
           \/ \E r \in req : Created(r)
           \/ \E r \in req : DecidedNo(r)
           \/ \E r \in req : DecidedYes(r)
           \/ \E t \in Ids : NodeRevoked(t)
           \/ \E e \in Enrollments : ExpiredNow(e)
           \/ \E c \in Candidates, e \in Enrollments : ClaimedNow(c, e)
           \/ \E n \in Invited : InvitedIn(n)
<1>1. CASE UNCHANGED <<st, keyOf, enr>>
  BY <1>1
<1>2. ASSUME NEW r \in req, CreateNodeEnrollment(r)
      PROVE  UNCHANGED <<st, keyOf, enr>> \/ Created(r)
  BY <1>2 DEF CreateNodeEnrollment, Created, IssuerActive
<1>3. ASSUME NEW r \in req, ResolveNodeEnrollment(r)
      PROVE  UNCHANGED <<st, keyOf, enr>> \/ DecidedNo(r) \/ DecidedYes(r)
  BY <1>3 DEF ResolveNodeEnrollment, DecidedNo, DecidedYes, Resolvable
<1>4. ASSUME NEW r \in req, RevokeNode(r)
      PROVE  UNCHANGED <<st, keyOf, enr>> \/ NodeRevoked(r.id)
  BY <1>4 DEF RevokeNode, NodeRevoked, Revocable
<1>5. ASSUME NEW i \in Ids, AdminRevokeNode(i) PROVE NodeRevoked(i)
  BY <1>5 DEF AdminRevokeNode, NodeRevoked
<1>6. ASSUME NEW e \in Enrollments, CancelAdminAccessRequest(e) \/ NodeEnrollmentExpires(e)
      PROVE  ExpiredNow(e)
  BY <1>6 DEF CancelAdminAccessRequest, NodeEnrollmentExpires, ExpiredNow
<1>7. ASSUME NEW c \in Candidates, NEW e \in Enrollments, Join(c, e) \/ JoinAnswerLost(c, e)
      PROVE  ClaimedNow(c, e)
  BY <1>7 DEF Join, JoinAnswerLost, ClaimedNow, Claimable
<1>8. \A r \in req : r.id \in Ids
  BY DEF Types, RequestRows
<1>9. ASSUME NEW n \in Invited, InvitedNodeJoins(n) PROVE InvitedIn(n)
  BY <1>9 DEF InvitedNodeJoins, InvitedIn
<1> QED
  BY <1>1, <1>2, <1>3, <1>4, <1>5, <1>6, <1>7, <1>8, <1>9, RowsMove

\* A request that appears fits the row it is authenticated against, or is a
\* revocation or a disconnection.
LEMMA NewRequest ==
    ASSUME Types, [Next]_vars, NEW q \in req', q \notin req
    PROVE  /\ q \in RequestRows
           /\ \/ q.kind \in {"revoke", "drop"}
              \/ /\ q.kind \in {"create", "decide"} /\ q.id \in Enrollments
                 /\ UNCHANGED <<st, keyOf, enr>>
                 /\ req' = req \cup {q}
                 /\ Fitting(q)
                 /\ q.kind = "create" => \A r \in req : r.id # q.id
<1>1. NoProof \in Proofs
  BY DEF NoProof, Proofs
<1>2. ASSUME NEW n \in Nodes, NEW e \in Enrollments, AskCreate(n, e)
      PROVE  /\ q = [kind |-> "create", node |-> n, id |-> e, proof |-> NoProof]
             /\ UNCHANGED <<st, keyOf, enr>> /\ req' = req \cup {q}
             /\ enr[e].status = None /\ \A r \in req : r.id # e
  BY <1>2 DEF AskCreate, Ask, rows
<1>3. ASSUME NEW n \in Nodes, NEW e \in Enrollments, NEW d \in {"accept", "decline"},
             AskDecide(n, e, d)
      PROVE  /\ q = [kind |-> "decide", node |-> n, id |-> e, proof |-> Signed(e, d)]
             /\ UNCHANGED <<st, keyOf, enr>> /\ req' = req \cup {q}
             /\ enr[e].status \in {"claimed", "approved", "declined"}
  BY <1>3 DEF AskDecide, Ask, rows
<1>4. ASSUME NEW e \in Enrollments, NEW d \in {"accept", "decline"}
      PROVE  /\ Signed(e, d) \in Proofs
             /\ Signed(e, d).by = enr[e].by /\ Signed(e, d).cred = enr[e].cred
             /\ Signed(e, d).decision = d
  BY DEF Signed, Proofs, Types, EnrollmentRows
<1>5. ASSUME NEW n \in Nodes, NEW i \in Ids, AskRevoke(n, i)
      PROVE  q = [kind |-> "revoke", node |-> n, id |-> i, proof |-> NoProof]
  BY <1>5 DEF AskRevoke, Ask
<1>6. ASSUME NEW r \in req, RevokeNode(r)
      PROVE  q = [r EXCEPT !.kind = "drop"] /\ r \in RequestRows
  BY <1>6 DEF RevokeNode, Types
<1>7. CASE \E n \in Nodes, e \in Enrollments : AskCreate(n, e)
  <2> PICK n \in Nodes, e \in Enrollments : AskCreate(n, e)
    BY <1>7
  <2>1. /\ q = [kind |-> "create", node |-> n, id |-> e, proof |-> NoProof]
        /\ UNCHANGED <<st, keyOf, enr>> /\ req' = req \cup {q}
        /\ enr[e].status = None /\ \A r \in req : r.id # e
    BY <1>2
  <2>2. q.kind = "create" /\ q.id = e /\ q \in RequestRows
    BY <2>1, <1>1 DEF RequestRows, Ids
  <2> QED
    BY <2>1, <2>2 DEF Fitting
<1>8. CASE \E n \in Nodes, e \in Enrollments, d \in {"accept", "decline"} : AskDecide(n, e, d)
  <2> PICK n \in Nodes, e \in Enrollments, d \in {"accept", "decline"} : AskDecide(n, e, d)
    BY <1>8
  <2>1. /\ q = [kind |-> "decide", node |-> n, id |-> e, proof |-> Signed(e, d)]
        /\ UNCHANGED <<st, keyOf, enr>> /\ req' = req \cup {q}
        /\ enr[e].status \in {"claimed", "approved", "declined"}
    BY <1>3
  <2>2. q.kind = "decide" /\ q.id = e /\ q.proof = Signed(e, d) /\ q \in RequestRows
    BY <2>1, <1>4 DEF RequestRows, Ids
  <2> QED
    BY <2>1, <2>2, <1>4 DEF Fitting, None
<1>9. CASE \E n \in Nodes, i \in Ids : AskRevoke(n, i)
  BY <1>9, <1>5, <1>1 DEF RequestRows
<1>10. CASE \E r \in req : RevokeNode(r)
  BY <1>10, <1>6 DEF RequestRows
<1> QED
  BY <1>7, <1>8, <1>9, <1>10, RequestsMove

-----------------------------------------------------------------------------
(* Each part of the invariant is kept *)

LEMMA StepTypes ==
    ASSUME EnrollmentInv, [Next]_vars
    PROVE  Types'
<1> USE DEF EnrollmentInv
<1>1. \A r \in req : /\ r \in RequestRows /\ r.node \in Nodes /\ r.proof \in Proofs
                     /\ r.kind \in {"create", "decide"} => r.id \in Enrollments
  BY DEF Types, RequestRows
<1>2. /\ st' \in [Ids -> {None, "active", "revoked"}]
      /\ keyOf' \in [Enrollments -> Candidates \cup {None}]
      /\ enr' \in [Enrollments -> EnrollmentRows]
  <2>0. /\ st \in [Ids -> {None, "active", "revoked"}]
        /\ keyOf \in [Enrollments -> Candidates \cup {None}]
        /\ enr \in [Enrollments -> EnrollmentRows]
    BY DEF Types
  <2>1. CASE UNCHANGED <<st, keyOf, enr>>
    BY <2>0, <2>1
  <2>2. ASSUME NEW r \in req, Created(r) PROVE <1>2!1 /\ <1>2!2 /\ <1>2!3
    <3>1. [NoEnrollment EXCEPT !.status = "pending", !.issuer = r.node] \in EnrollmentRows
      BY <1>1 DEF NoEnrollment, NoProof, EnrollmentRows, Statuses, Proofs
    <3> QED
      BY <2>0, <2>2, <3>1 DEF Created
  <2>3. ASSUME NEW r \in req, DecidedNo(r) PROVE <1>2!1 /\ <1>2!2 /\ <1>2!3
    <3>1. [enr[r.id] EXCEPT !.status = "declined", !.proof = r.proof] \in EnrollmentRows
      BY <1>1, <2>0, <2>3 DEF DecidedNo, EnrollmentRows, Statuses
    <3> QED
      BY <2>0, <2>3, <3>1 DEF DecidedNo
  <2>4. ASSUME NEW r \in req, DecidedYes(r) PROVE <1>2!1 /\ <1>2!2 /\ <1>2!3
    <3>1. /\ [enr[r.id] EXCEPT !.status = "approved", !.proof = r.proof] \in EnrollmentRows
          /\ enr[r.id].by \in Candidates \cup {None}
      BY <1>1, <2>0, <2>4 DEF DecidedYes, EnrollmentRows, Statuses
    <3> QED
      BY <2>0, <2>4, <3>1 DEF DecidedYes
  <2>5. ASSUME NEW t \in Ids, NodeRevoked(t) PROVE <1>2!1 /\ <1>2!2 /\ <1>2!3
    BY <2>0, <2>5, ClosedFacts DEF NodeRevoked
  <2>6. ASSUME NEW e \in Enrollments, ExpiredNow(e) PROVE <1>2!1 /\ <1>2!2 /\ <1>2!3
    <3>1. [enr[e] EXCEPT !.status = "expired"] \in EnrollmentRows
      BY <2>0 DEF EnrollmentRows, Statuses
    <3> QED
      BY <2>0, <2>6, <3>1 DEF ExpiredNow
  <2>7. ASSUME NEW c \in Candidates, NEW e \in Enrollments, ClaimedNow(c, e)
        PROVE  <1>2!1 /\ <1>2!2 /\ <1>2!3
    <3>1. Credential(c) \in Nat
      BY DEF Types, CandidateRows, Credential
    <3>2. [enr[e] EXCEPT !.status = "claimed", !.by = c, !.cred = Credential(c)] \in EnrollmentRows
      BY <2>0, <3>1 DEF EnrollmentRows, Statuses
    <3> QED
      BY <2>0, <2>7, <3>2 DEF ClaimedNow, Claimed
  <2>8. ASSUME NEW n \in Invited, InvitedIn(n) PROVE <1>2!1 /\ <1>2!2 /\ <1>2!3
    BY <2>0, <2>8 DEF InvitedIn
  <2> QED
    BY <2>1, <2>2, <2>3, <2>4, <2>5, <2>6, <2>7, <2>8, Moves
<1>3. \A q \in req' : q \in RequestRows /\ (q.kind \in {"create", "decide"} => q.id \in Enrollments)
  <2> SUFFICES ASSUME NEW q \in req'
               PROVE  q \in RequestRows /\ (q.kind \in {"create", "decide"} => q.id \in Enrollments)
    OBVIOUS
  <2>1. CASE q \in req
    BY <2>1, <1>1
  <2>2. CASE q \notin req
    BY <2>2, NewRequest
  <2> QED
    BY <2>1, <2>2
<1>4. cand' \in [Candidates -> CandidateRows]
  <2>0. cand \in [Candidates -> CandidateRows]
    BY DEF Types
  <2>1. ASSUME NEW c \in Candidates
        PROVE  /\ Credential(c) \in Nat /\ Drawn(c) \in Nat
               /\ cand[c] \in CandidateRows
    BY <2>0 DEF CandidateRows, Credential, Drawn
  <2>2. CASE UNCHANGED cand
    BY <2>0, <2>2
  <2>3. ASSUME NEW c \in Candidates, NEW e \in Enrollments, Join(c, e) \/ JoinAnswerLost(c, e)
        PROVE  cand' \in [Candidates -> CandidateRows]
    <3>1. /\ [cand[c] EXCEPT !.drawn = Drawn(c)] \in CandidateRows
          /\ [cand[c] EXCEPT !.stored = Credential(c), !.drawn = Drawn(c), !.cred = Credential(c),
                              !.on = e, !.ended = FALSE] \in CandidateRows
      BY <2>1 DEF CandidateRows
    <3>2. CASE Join(c, e)
      BY <2>0, <3>1, <3>2 DEF Join
    <3>3. CASE JoinAnswerLost(c, e)
      BY <2>0, <3>1, <3>3 DEF JoinAnswerLost
    <3> QED
      BY <2>3, <3>2, <3>3
  <2>4. ASSUME NEW c \in Candidates,
               MonitorRefused(c) \/ MonitorApproved(c) \/ StopCandidate(c)
        PROVE  cand' \in [Candidates -> CandidateRows]
    BY <2>0, <2>1, <2>4 DEF MonitorRefused, MonitorApproved, StopCandidate, ProofHolds,
       TrustSyncAccepted, CandidateRows
  <2> QED
    BY <2>2, <2>3, <2>4 DEF Next, LinkStep, AskStep, ServeStep, AdminStep, CandidateStep, Hello,
       Register, Disconnect, SessionExpires, RefreshNodeSession, AskCreate, AskDecide, AskRevoke,
       Ask, CreateNodeEnrollment, ResolveNodeEnrollment, RevokeNode, DisconnectNode,
       AdminRevokeNode, CancelAdminAccessRequest, Lapse, NodeEnrollmentExpires,
       UpdateEnrollmentSetting, InvitedNodeJoins, vars
<1> QED
  BY <1>2, <1>3, <1>4 DEF Types

\* An enrollment is created for an active issuer and closed with its revocation.
LEMMA StepOpen ==
    ASSUME EnrollmentInv, [Next]_vars
    PROVE  OpenIsIssued'
<1> USE DEF EnrollmentInv
<1>0. /\ st \in [Ids -> {None, "active", "revoked"}] /\ enr \in [Enrollments -> EnrollmentRows]
      /\ Nodes \subseteq Ids
  BY DEF Types, Ids
<1>1. SUFFICES ASSUME NEW e \in Enrollments, enr'[e].status \in {"pending", "claimed"}
               PROVE  enr'[e].issuer \in Nodes /\ st'[enr'[e].issuer] = "active"
  BY DEF OpenIsIssued
<1>2. enr[e].status \in {"pending", "claimed"} =>
          enr[e].issuer \in Nodes /\ st[enr[e].issuer] = "active"
  BY DEF OpenIsIssued
<1>3. CASE UNCHANGED <<st, keyOf, enr>>
  BY <1>1, <1>2, <1>3
<1>4. ASSUME NEW r \in req, Created(r)
      PROVE  enr'[e].issuer \in Nodes /\ st'[enr'[e].issuer] = "active"
  <2>1. r.node \in Nodes
    BY DEF Types, RequestRows
  <2>2. CASE r.id = e
    <3>1. enr'[e] = [NoEnrollment EXCEPT !.status = "pending", !.issuer = r.node]
      BY <1>0, <1>4, <2>2 DEF Created
    <3>2. enr'[e].issuer = r.node
      BY <3>1 DEF NoEnrollment
    <3> QED
      BY <1>4, <2>1, <3>2 DEF Created
  <2>3. CASE r.id # e
    BY <1>0, <1>1, <1>2, <1>4, <2>3 DEF Created
  <2> QED
    BY <2>2, <2>3
<1>5. ASSUME NEW r \in req, DecidedNo(r)
      PROVE  enr'[e].issuer \in Nodes /\ st'[enr'[e].issuer] = "active"
  BY <1>0, <1>1, <1>2, <1>5 DEF DecidedNo, EnrollmentRows
<1>6. ASSUME NEW r \in req, DecidedYes(r)
      PROVE  enr'[e].issuer \in Nodes /\ st'[enr'[e].issuer] = "active"
  <2>1. r.id # e /\ r.id \in Ids
    BY <1>0, <1>1, <1>6 DEF DecidedYes, EnrollmentRows, Types, RequestRows
  <2>2. enr'[e] = enr[e]
    BY <1>0, <1>6, <2>1 DEF DecidedYes
  <2>3. \A i \in Ids : st[i] = "active" => st'[i] = "active"
    BY <1>0, <1>6 DEF DecidedYes
  <2> QED
    BY <1>0, <1>1, <1>2, <2>2, <2>3
<1>7. ASSUME NEW t \in Ids, NodeRevoked(t)
      PROVE  enr'[e].issuer \in Nodes /\ st'[enr'[e].issuer] = "active"
  <2>1. /\ enr'[e].issuer = enr[e].issuer /\ enr[e].issuer # t
        /\ enr[e].status \in {"pending", "claimed"}
    BY <1>1, <1>7, ClosedFacts DEF NodeRevoked
  <2>2. \A i \in Ids \ {t} : st'[i] = st[i]
    BY <1>0, <1>7 DEF NodeRevoked
  <2> QED
    BY <1>0, <1>2, <2>1, <2>2
<1>8. ASSUME NEW f \in Enrollments, ExpiredNow(f)
      PROVE  enr'[e].issuer \in Nodes /\ st'[enr'[e].issuer] = "active"
  BY <1>0, <1>1, <1>2, <1>8 DEF ExpiredNow, EnrollmentRows
<1>9. ASSUME NEW c \in Candidates, NEW f \in Enrollments, ClaimedNow(c, f)
      PROVE  enr'[e].issuer \in Nodes /\ st'[enr'[e].issuer] = "active"
  <2>1. CASE f = e
    <3>1. enr'[e] = [enr[e] EXCEPT !.status = "claimed", !.by = c, !.cred = Credential(c)]
      BY <1>0, <1>9, <2>1 DEF ClaimedNow, Claimed
    <3>2. enr'[e].issuer = enr[e].issuer /\ enr[e].status \in {"pending", "claimed"}
      <4>1. enr[e].status \in {"pending", "claimed"}
        BY <1>9, <2>1 DEF ClaimedNow, SameClaim
      <4>2. enr[e] \in EnrollmentRows
        BY <1>0
      <4> QED
        BY <3>1, <4>1, <4>2 DEF EnrollmentRows
    <3> QED
      BY <1>2, <1>9, <3>2 DEF ClaimedNow
  <2>2. CASE f # e
    BY <1>0, <1>1, <1>2, <1>9, <2>2 DEF ClaimedNow, Claimed
  <2> QED
    BY <2>1, <2>2
<1>10. ASSUME NEW n \in Invited, InvitedIn(n)
       PROVE  enr'[e].issuer \in Nodes /\ st'[enr'[e].issuer] = "active"
  <2>1. enr' = enr /\ \A i \in Ids : st[i] = "active" => st'[i] = "active"
    BY <1>0, <1>10 DEF InvitedIn
  <2> QED
    BY <1>0, <1>1, <1>2, <2>1
<1> QED
  BY <1>3, <1>4, <1>5, <1>6, <1>7, <1>8, <1>9, <1>10, Moves

\* No row goes back to "none" or "pending", and a claim is repeated only by
\* whoever made it.
LEMMA FitStays ==
    ASSUME EnrollmentInv, [Next]_vars, NEW q \in req, q \in req'
    PROVE  Fitting(q)'
<1> USE DEF EnrollmentInv
<1>0. /\ enr \in [Enrollments -> EnrollmentRows] /\ Fitting(q)
      /\ q.kind \in {"create", "decide"} => q.id \in Enrollments
  BY DEF Types, RequestsFit
<1>1. CASE q.kind \notin {"create", "decide"}
  BY <1>1 DEF Fitting
<1>2. CASE q.kind \in {"create", "decide"} /\ enr'[q.id] = enr[q.id]
  BY <1>0, <1>2 DEF Fitting
<1>3. CASE q.kind \in {"create", "decide"} /\ enr'[q.id] # enr[q.id]
  <2> DEFINE e == q.id
  <2>0. e \in Enrollments /\ enr[e] \in EnrollmentRows
    BY <1>0, <1>3
  <2>1. ASSUME NEW r \in req, Created(r) PROVE Fitting(q)'
    <3>1. r.id = e
      BY <1>0, <1>3, <2>1 DEF Created
    <3>2. enr[r.id].status = None /\ q # r
      BY <2>1 DEF Created, RequestsFit, Fitting
    <3>3. FALSE
      <4>1. CASE q.kind = "create"
        BY <3>1, <3>2, <2>1, <4>1 DEF Created, RequestsFit
      <4>2. CASE q.kind = "decide"
        BY <3>1, <3>2, <1>0, <4>2 DEF Fitting
      <4> QED
        BY <1>3, <4>1, <4>2
    <3> QED
      BY <3>3
  <2>2. ASSUME NEW r \in req, DecidedNo(r) PROVE Fitting(q)'
    <3>1. r.id = e /\ enr[e].status = "claimed"
      BY <1>0, <1>3, <2>2 DEF DecidedNo
    <3>2. enr'[e].status = "declined"
      BY <1>0, <2>0, <2>2, <3>1 DEF DecidedNo, EnrollmentRows
    <3> QED
      BY <1>0, <3>1, <3>2 DEF Fitting, None
  <2>3. ASSUME NEW r \in req, DecidedYes(r) PROVE Fitting(q)'
    <3>1. r.id = e /\ enr[e].status = "claimed"
      BY <1>0, <1>3, <2>3 DEF DecidedYes
    <3>2. enr'[e].status = "approved"
      BY <1>0, <2>0, <2>3, <3>1 DEF DecidedYes, EnrollmentRows
    <3> QED
      BY <1>0, <3>1, <3>2 DEF Fitting, None
  <2>4. ASSUME NEW t \in Ids, NodeRevoked(t) PROVE Fitting(q)'
    <3>1. /\ enr'[e].by = enr[e].by /\ enr'[e].cred = enr[e].cred
          /\ \/ enr'[e].status = enr[e].status
             \/ enr'[e].status = "expired" /\ enr[e].status \in {"pending", "claimed"}
      BY <2>0, <2>4, ClosedFacts DEF NodeRevoked
    <3> QED
      BY <1>0, <3>1 DEF Fitting, None
  <2>5. ASSUME NEW f \in Enrollments, ExpiredNow(f) PROVE Fitting(q)'
    <3>1. f = e /\ enr[e].status \in {"pending", "claimed"}
      BY <1>0, <1>3, <2>5 DEF ExpiredNow
    <3>2. enr'[e].status = "expired"
      BY <1>0, <2>0, <2>5, <3>1 DEF ExpiredNow, EnrollmentRows
    <3> QED
      BY <1>0, <3>1, <3>2 DEF Fitting, None
  <2>6. ASSUME NEW c \in Candidates, NEW f \in Enrollments, ClaimedNow(c, f) PROVE Fitting(q)'
    <3>1. f = e /\ (enr[e].status = "pending" \/ SameClaim(e, c))
      BY <1>0, <1>3, <2>6 DEF ClaimedNow, Claimed
    <3>2. enr'[e].status = "claimed" /\ enr'[e].by = c /\ enr'[e].cred = Credential(c)
      BY <1>0, <2>0, <2>6, <3>1 DEF ClaimedNow, Claimed, EnrollmentRows
    <3> QED
      BY <1>0, <3>1, <3>2 DEF Fitting, SameClaim, None
  <2>7. ASSUME NEW n \in Invited, InvitedIn(n) PROVE Fitting(q)'
    BY <1>3, <2>7 DEF InvitedIn
  <2> QED
    BY <1>3, <2>1, <2>2, <2>3, <2>4, <2>5, <2>6, <2>7, Moves
<1> QED
  BY <1>1, <1>2, <1>3

LEMMA StepFit ==
    ASSUME EnrollmentInv, [Next]_vars
    PROVE  RequestsFit'
<1> USE DEF EnrollmentInv
<1>1. ASSUME NEW q \in req' PROVE Fitting(q)'
  <2>1. CASE q \in req
    BY <2>1, FitStays
  <2>2. CASE q \notin req /\ q.kind \in {"revoke", "drop"}
    BY <2>2 DEF Fitting
  <2>3. CASE q \notin req /\ Fitting(q) /\ UNCHANGED enr
    BY <2>3 DEF Fitting
  <2> QED
    BY <2>1, <2>2, <2>3, NewRequest
<1>2. ASSUME NEW r \in req', NEW q \in req', r.kind = "create", q.kind = "create", r.id = q.id
      PROVE  r = q
  <2>1. CASE r \in req /\ q \in req
    BY <1>2, <2>1 DEF RequestsFit
  <2>2. CASE r \notin req
    <3>1. req' = req \cup {r} /\ \A x \in req : x.id # r.id
      BY <1>2, <2>2, NewRequest
    <3> QED
      BY <1>2, <3>1
  <2>3. CASE q \notin req
    <3>1. req' = req \cup {q} /\ \A x \in req : x.id # q.id
      BY <1>2, <2>3, NewRequest
    <3> QED
      BY <1>2, <3>1
  <2> QED
    BY <2>1, <2>2, <2>3
<1> QED
  BY <1>1, <1>2 DEF RequestsFit

\* Admission copies the claim of the row and a proof that fits it; afterwards
\* nothing about the row changes except that the Node may be revoked.
LEMMA StepAdmitted ==
    ASSUME EnrollmentInv, [Next]_vars
    PROVE  AdmittedAsSigned'
<1> USE DEF EnrollmentInv
<1> DEFINE Good(s, k, e) ==
              /\ s # None => e.status = "approved"
              /\ e.status = "approved" =>
                   /\ k = e.by
                   /\ e.proof = [by |-> e.by, cred |-> e.cred, decision |-> "accept"]
<1>0. /\ st \in [Ids -> {None, "active", "revoked"}] /\ enr \in [Enrollments -> EnrollmentRows]
      /\ keyOf \in [Enrollments -> Candidates \cup {None}] /\ Enrollments \subseteq Ids
  BY DEF Types, Ids
<1>1. SUFFICES ASSUME NEW e \in Enrollments
               PROVE  Good(st'[e], keyOf'[e], enr'[e])
  BY DEF AdmittedAsSigned
<1>2. Good(st[e], keyOf[e], enr[e]) /\ enr[e] \in EnrollmentRows
  BY <1>0 DEF AdmittedAsSigned
<1>3. CASE UNCHANGED <<st, keyOf, enr>>
  BY <1>2, <1>3
<1>4. CASE \E r \in req : Created(r)
  <2> PICK r \in req : Created(r)
    BY <1>4
  <2>1. CASE r.id = e
    <3>1. enr[e].status = None /\ st' = st
      BY <2>1 DEF RequestsFit, Fitting, Created
    <3>2. enr'[e].status = "pending"
      BY <1>0, <2>1 DEF Created, NoEnrollment
    <3> QED
      BY <1>2, <3>1, <3>2 DEF None
  <2>2. CASE r.id # e
    BY <1>0, <1>2, <2>2 DEF Created
  <2> QED
    BY <2>1, <2>2
<1>5. CASE \E r \in req : DecidedNo(r)
  <2> PICK r \in req : DecidedNo(r)
    BY <1>5
  <2>1. CASE r.id = e
    <3>1. enr[e].status = "claimed" /\ st' = st
      BY <2>1 DEF DecidedNo
    <3>2. enr'[e].status = "declined"
      BY <1>0, <1>2, <2>1 DEF DecidedNo, EnrollmentRows
    <3> QED
      BY <1>2, <3>1, <3>2 DEF None
  <2>2. CASE r.id # e
    BY <1>0, <1>2, <2>2 DEF DecidedNo
  <2> QED
    BY <2>1, <2>2
<1>6. CASE \E r \in req : DecidedYes(r)
  <2> PICK r \in req : DecidedYes(r)
    BY <1>6
  <2>1. CASE r.id = e
    <3>1. /\ r.proof.by = enr[e].by /\ r.proof.cred = enr[e].cred
          /\ r.proof.decision = "accept" /\ r.proof \in Proofs
      BY <2>1 DEF DecidedYes, RequestsFit, Fitting, Types, RequestRows
    <3>2. r.proof = [by |-> enr[e].by, cred |-> enr[e].cred, decision |-> "accept"]
      BY <3>1 DEF Proofs
    <3>3. enr'[e] = [enr[e] EXCEPT !.status = "approved", !.proof = r.proof]
      BY <1>0, <2>1 DEF DecidedYes
    <3>4. /\ enr'[e].status = "approved" /\ enr'[e].by = enr[e].by
          /\ enr'[e].cred = enr[e].cred /\ enr'[e].proof = r.proof
      BY <1>2, <3>3 DEF EnrollmentRows
    <3>5. keyOf'[e] = enr[e].by
      BY <1>0, <2>1 DEF DecidedYes
    <3> QED
      BY <3>2, <3>4, <3>5
  <2>2. CASE r.id # e
    BY <1>0, <1>2, <2>2 DEF DecidedYes
  <2> QED
    BY <2>1, <2>2
<1>7. CASE \E t \in Ids : NodeRevoked(t)
  <2> PICK t \in Ids : NodeRevoked(t)
    BY <1>7
  <2>1. /\ enr'[e].by = enr[e].by /\ enr'[e].cred = enr[e].cred /\ enr'[e].proof = enr[e].proof
        /\ \/ enr'[e].status = enr[e].status
           \/ enr'[e].status = "expired" /\ enr[e].status \in {"pending", "claimed"}
    BY ClosedFacts DEF NodeRevoked
  <2>2. keyOf' = keyOf /\ (st'[e] # None => st[e] # None)
    BY <1>0 DEF NodeRevoked, None
  <2> QED
    BY <1>2, <2>1, <2>2
<1>8. CASE \E f \in Enrollments : ExpiredNow(f)
  <2> PICK f \in Enrollments : ExpiredNow(f)
    BY <1>8
  <2>1. CASE f = e
    <3>1. enr[e].status \in {"pending", "claimed"} /\ st' = st
      BY <2>1 DEF ExpiredNow
    <3>2. enr'[e].status = "expired"
      BY <1>0, <1>2, <2>1 DEF ExpiredNow, EnrollmentRows
    <3> QED
      BY <1>2, <3>1, <3>2 DEF None
  <2>2. CASE f # e
    BY <1>0, <1>2, <2>2 DEF ExpiredNow
  <2> QED
    BY <2>1, <2>2
<1>9. CASE \E c \in Candidates, f \in Enrollments : ClaimedNow(c, f)
  <2> PICK c \in Candidates, f \in Enrollments : ClaimedNow(c, f)
    BY <1>9
  <2>1. CASE f = e
    <3>1. enr[e].status \in {"pending", "claimed"} /\ st' = st
      BY <2>1 DEF ClaimedNow, SameClaim
    <3>2. enr'[e].status = "claimed"
      BY <1>0, <1>2, <2>1 DEF ClaimedNow, Claimed, EnrollmentRows
    <3> QED
      BY <1>2, <3>1, <3>2 DEF None
  <2>2. CASE f # e
    BY <1>0, <1>2, <2>2 DEF ClaimedNow, Claimed
  <2> QED
    BY <2>1, <2>2
<1>10. CASE \E n \in Invited : InvitedIn(n)
  <2> PICK n \in Invited : InvitedIn(n)
    BY <1>10
  <2>1. n # e
    BY EnrollmentAssumption
  <2> QED
    BY <1>0, <1>2, <2>1 DEF InvitedIn
<1> QED
  BY <1>3, <1>4, <1>5, <1>6, <1>7, <1>8, <1>9, <1>10, Moves

\* Admission adds one Node below the limit, revocation takes one of several, and
\* an invitation adds one that is not counted.
LEMMA StepOneNode ==
    ASSUME EnrollmentInv, [Next]_vars
    PROVE  OneNodeLeft'
<1> USE DEF EnrollmentInv
<1>0. /\ st \in [Ids -> {None, "active", "revoked"}] /\ Enrollments \subseteq Ids
      /\ MaxActive \in Nat
  BY EnrollmentAssumption DEF Types, Ids
<1> DEFINE Counted == Active \ Invited
<1>1. /\ IsFiniteSet(Active) /\ IsFiniteSet(Counted)
      /\ Cardinality(Active) \in Nat /\ Cardinality(Counted) \in Nat
      /\ Cardinality(Counted) <= Cardinality(Active)
      /\ Active # {} /\ Cardinality(Counted) <= MaxActive
  <2>1. IsFiniteSet(Ids)
    BY EnrollmentAssumption, FS_Union DEF Ids
  <2>2. IsFiniteSet(Active)
    BY <2>1, FS_Subset DEF Active
  <2>3. IsFiniteSet(Counted) /\ Cardinality(Counted) <= Cardinality(Active)
    BY <2>2, FS_Subset
  <2> QED
    BY <2>2, <2>3, FS_CardinalityType DEF OneNodeLeft
<1>2. CASE st' = st
  BY <1>1, <1>2 DEF OneNodeLeft, Active
<1>3. CASE \E r \in req : DecidedYes(r)
  <2> PICK r \in req : DecidedYes(r)
    BY <1>3
  <2>1. r.id \in Ids /\ st[r.id] = None /\ Cardinality(Active) < MaxActive
    BY DEF DecidedYes, Admissible, Types, RequestRows
  <2>2. Active' = Active \cup {r.id} /\ r.id \notin Active
    BY <1>0, <2>1 DEF DecidedYes, Active, None
  <2>3. r.id \notin Invited
    <3>1. r.id \in Enrollments
      BY DEF Types, DecidedYes
    <3> QED
      BY <3>1, EnrollmentAssumption
  <2>4. Counted' = Counted \cup {r.id} /\ r.id \notin Counted
    BY <2>2, <2>3
  <2>5. Cardinality(Counted') = Cardinality(Counted) + 1
    BY <1>1, <2>4, FS_AddElement
  <2> QED
    BY <1>0, <1>1, <2>1, <2>2, <2>5 DEF OneNodeLeft
<1>4. CASE \E t \in Ids : NodeRevoked(t)
  <2> PICK t \in Ids : NodeRevoked(t)
    BY <1>4
  <2>1. t \in Active /\ Cardinality(Active) > 1
    BY DEF NodeRevoked, Active
  <2>2. Active' = Active \ {t}
    BY <1>0 DEF NodeRevoked, Active
  <2>3. Cardinality(Active') = Cardinality(Active) - 1
    BY <1>1, <2>1, <2>2, FS_RemoveElement
  <2>4. Active' # {}
    BY <1>1, <2>1, <2>3, FS_EmptySet
  <2>5. Cardinality(Counted') <= Cardinality(Counted) /\ Cardinality(Counted') \in Nat
    <3>1. Counted' \subseteq Counted
      BY <2>2
    <3> QED
      BY <1>1, <3>1, FS_Subset, FS_CardinalityType
  <2> QED
    BY <1>0, <1>1, <2>4, <2>5 DEF OneNodeLeft
<1>5. CASE \E n \in Invited : InvitedIn(n)
  <2> PICK n \in Invited : InvitedIn(n)
    BY <1>5
  <2>1. n \in Ids
    BY EnrollmentAssumption DEF Ids
  <2>2. Active' = Active \cup {n}
    BY <1>0, <2>1 DEF InvitedIn, Active
  <2>3. Active' # {} /\ Counted' = Counted
    BY <2>2
  <2> QED
    BY <1>1, <2>3 DEF OneNodeLeft
<1> QED
  BY <1>2, <1>3, <1>4, <1>5, Moves DEF Created, DecidedNo, ExpiredNow, ClaimedNow

LEMMA Initially == Init => EnrollmentInv
<1> SUFFICES ASSUME Init PROVE EnrollmentInv
  OBVIOUS
<1>0. NoEnrollment \in EnrollmentRows /\ NoEnrollment.status = None
  BY DEF NoEnrollment, NoProof, EnrollmentRows, Statuses, Proofs
<1>1. Types
  BY <1>0 DEF Init, Types, CandidateRows
<1>2. OpenIsIssued
  BY <1>0 DEF Init, OpenIsIssued, None
<1>3. RequestsFit
  BY DEF Init, RequestsFit
<1>4. AdmittedAsSigned
  <2>1. \A e \in Enrollments : st[e] = None
    BY EnrollmentAssumption DEF Init, Ids
  <2> QED
    BY <1>0, <2>1 DEF Init, AdmittedAsSigned, None
<1>5. OneNodeLeft
  <2>1. Active = Nodes \ Invited
    BY DEF Init, Active, Ids, None
  <2>2. Active # {} /\ Active \ Invited = Nodes \ Invited
    BY <2>1, EnrollmentAssumption
  <2> QED
    BY <2>2, EnrollmentAssumption DEF OneNodeLeft
<1> QED
  BY <1>1, <1>2, <1>3, <1>4, <1>5 DEF EnrollmentInv

LEMMA Invariance == Spec => []EnrollmentInv
<1>1. EnrollmentInv /\ [Next]_vars => EnrollmentInv'
  BY StepTypes, StepOpen, StepFit, StepAdmitted, StepOneNode DEF EnrollmentInv
<1> QED
  BY <1>1, Initially, PTL DEF Spec

-----------------------------------------------------------------------------
\* Revocations of Nodes by Nodes and by the administrator leave one, and approvals
\* decided at the same time keep the enrolled Nodes within the limit, however many
\* come in by invitations.
THEOREM NodesBounded == Spec => []OneNodeLeft
BY Invariance, PTL DEF EnrollmentInv

\* The key of an admitted Node, its claim and the proof of its issuer belong
\* together, whoever repeats a claim or claims the same enrollment.
THEOREM SignedAdmission == Spec => []AdmittedAsSigned
BY Invariance, PTL DEF EnrollmentInv

\* A decision under way when its issuer is revoked admits nobody: revocation closes
\* the enrollment in its own transaction, and admission needs an open one.
THEOREM NoLateAdmission == Spec => RevokedIssuerAdmitsNobody
<1>1. ASSUME EnrollmentInv, [Next]_vars
      PROVE  [\A e \in Enrollments :
                 st[e] # "active" /\ st'[e] = "active" => st[enr[e].issuer] = "active"]_vars
  <2> SUFFICES ASSUME NEW e \in Enrollments, st[e] # "active", st'[e] = "active"
               PROVE  st[enr[e].issuer] = "active"
    OBVIOUS
  <2>1. st \in [Ids -> {None, "active", "revoked"}] /\ e \in Ids
    BY <1>1 DEF EnrollmentInv, Types, Ids
  <2>2. CASE \E r \in req : DecidedYes(r)
    <3> PICK r \in req : DecidedYes(r)
      BY <2>2
    <3>1. r.id = e /\ enr[e].status = "claimed"
      BY <2>1 DEF DecidedYes
    <3> QED
      BY <1>1, <3>1 DEF EnrollmentInv, OpenIsIssued
  <2>3. CASE \E t \in Ids : NodeRevoked(t)
    BY <2>1, <2>3 DEF NodeRevoked
  <2>4. CASE st' = st
    BY <2>4
  <2>5. Types
    BY <1>1 DEF EnrollmentInv
  <2>6. CASE \E n \in Invited : InvitedIn(n)
    <3>1. \A n \in Invited : n # e
      BY EnrollmentAssumption
    <3> QED
      BY <2>1, <2>6, <3>1 DEF InvitedIn
  <2> QED
    BY <1>1, <2>2, <2>3, <2>4, <2>5, <2>6, Moves DEF Created, DecidedNo, ExpiredNow, ClaimedNow
<1> QED
  BY <1>1, Invariance, PTL DEF Spec, RevokedIssuerAdmitsNobody

-----------------------------------------------------------------------------
(* Types *)

SetupKeys == {NoKey} \cup (Machines \X Nat)
IdentityRows == [key : SetupKeys, ref : {Absent, "file", "legacy"}, node : Nat, owner : Nat]
SavedConfigs == [is : {Absent, "current", "legacy"}, ca : Jobs \cup {Absent}]
SetupJobs == [pc : PCs, method : Methods, previous : Jobs \cup {Absent}, wrote : BOOLEAN,
              created : BOOLEAN, answer : Nat]
BackUps == [config : SavedConfigs, row : IdentityRows, ca : Jobs \cup {Absent}, key : Nat]

BootRows == [status : {Absent, "pending", "completed"}, secret : Nat, issued : Nat,
             digest : SetupKeys, node : Nat, retry : BOOLEAN]
Processes == [run : {"up", "down", "repair"}, active : BOOLEAN, force : BOOLEAN]
FileMoves == [n : 0 .. 4, kept : BackUps]

ServerTypes ==
    /\ owner \in Nat
    /\ nodes \in Seq([key : SetupKeys, via : Methods])
    /\ boot \in BootRows
    /\ invite \in [Invites -> {Absent, "pending", "used", "cancelled", "expired"}]

MachineTypes ==
    /\ key \in [Machines -> Nat] /\ seeds \in [Machines -> Nat]
    /\ row \in [Machines -> IdentityRows]
    /\ config \in [Machines -> SavedConfigs]
    /\ ca \in [Machines -> Jobs \cup {Absent}]
    /\ node \in [Machines -> Processes]
    /\ moved \in [Machines -> FileMoves]
    /\ torn \in SUBSET Machines /\ parted \in SUBSET Machines

JobTypes ==
    /\ job \in [Jobs -> SetupJobs]
    /\ late \in SUBSET [key : SetupKeys, method : Methods]

SetupTypes == ServerTypes /\ MachineTypes /\ JobTypes

-----------------------------------------------------------------------------
(* The identity of a machine *)

\* A submission runs only while the machine is up; one at a time is between the
\* key and its row, and then there is a key and no row; afterwards there is a row
\* of this format.
JobsPlaced ==
    \A j \in Jobs :
        /\ Running(j) => Up(JobOf[j])
        /\ job[j].pc = "commit" =>
              /\ row[JobOf[j]].ref = Absent /\ key[JobOf[j]] # 0
              /\ \A o \in Jobs : JobOf[o] = JobOf[j] /\ job[o].pc = "commit" => o = j
        /\ job[j].pc \in {"claim", "answered", "config", "save"} => row[JobOf[j]].ref = "file"

\* A repair knows what it has moved.
RepairPlaced ==
    \A m \in Machines : node[m].run = "repair" =>
        /\ moved[m].n = 0 => config[m].is = "legacy"
        /\ moved[m].n >= 1 => moved[m].kept.config.is = "legacy"
        /\ moved[m].n >= 2 =>
              /\ row[m].ref = Absent
              /\ moved[m].n <= 3 /\ moved[m].kept.row.ref = "file" => Verifies(m, moved[m].kept.row)

IdentityInv == JobsPlaced /\ RepairPlaced /\ KeyMatchesRow

-----------------------------------------------------------------------------
(* Bindings *)

OwnRow(r) ==
    r.node # 0 => r.node \in DOMAIN nodes /\ nodes[r.node].key = r.key /\ r.owner = owner

\* Nobody is admitted before there is an owner, and the answer a claim is given
\* is the row of the key that claimed.
AdmissionInv ==
    /\ nodes # << >> => owner # 0
    /\ \A i \in Invites \ InitialInvites : invite[i] # Absent => owner # 0
    /\ boot.retry => boot.node \in DOMAIN nodes /\ nodes[boot.node].key = boot.digest

BindingInv ==
    /\ AdmissionInv
    /\ \A j \in Jobs : job[j].pc = "answered" /\ job[j].answer # 0 =>
          job[j].answer \in DOMAIN nodes /\ nodes[job[j].answer].key = row[JobOf[j]].key
    /\ \A m \in Machines : OwnRow(row[m]) /\ OwnRow(moved[m].kept.row)

-----------------------------------------------------------------------------
(* The relay's CA *)

\* What the machine's configuration says of a CA.
Suits(m, c) == config[m].ca # Absent => c = config[m].ca

\* A legacy configuration has none, and so nothing is at stake in a repair.
RepairHasNoCA(m) ==
    /\ config[m].is = "legacy" => config[m].ca = Absent
    /\ moved[m].kept.config.ca = Absent
    /\ node[m].run = "repair" => config[m].ca = Absent

\* On a machine without a mishap the one submission under way either has its own
\* CA on disk and remembers the one to put back, or has not touched it.
OneSubmission(m) ==
    \A j, o \in Jobs : JobOf[j] = m /\ JobOf[o] = m /\ Running(j) /\ Running(o) => j = o

SubmissionCA(m) ==
    /\ (\A j \in Jobs : JobOf[j] = m => ~Running(j)) => Suits(m, ca[m])
    /\ \A j \in Jobs : JobOf[j] = m /\ Running(j) =>
          /\ job[j].pc = "ca" => ~job[j].wrote /\ job[j].previous = ca[m]
          /\ ~job[j].wrote => Suits(m, ca[m])
          /\ job[j].wrote => ca[m] = j /\ Suits(m, job[j].previous)

Mishap == torn \cup parted

MachineCA(m) == RepairHasNoCA(m) /\ (m \notin Mishap => OneSubmission(m) /\ SubmissionCA(m))

CAInv == \A m \in Machines : MachineCA(m)

-----------------------------------------------------------------------------
(* Types hold *)

LEMMA ClaimKeepsServerTypes ==
    ASSUME ServerTypes, NEW k \in SetupKeys, NEW method \in Methods, NEW answer \in Nat,
           Claim(k, method, answer)
    PROVE  ServerTypes'
<1>1. NoKey \in SetupKeys /\ boot.issued \in Nat /\ Len(nodes) + 1 \in Nat
  BY DEF ServerTypes, SetupKeys, BootRows
<1>2. Append(nodes, [key |-> k, via |-> method]) \in Seq([key : SetupKeys, via : Methods])
  BY DEF ServerTypes
<1>3. CASE method \in Bootstraps /\ ClaimBootstrap(k, method, answer)
  <2>1. /\ [boot EXCEPT !.secret = 0, !.digest = NoKey] \in BootRows
        /\ [boot EXCEPT !.status = "completed", !.digest = k, !.node = answer, !.retry = TRUE] \in BootRows
    BY <1>1 DEF ServerTypes, BootRows
  <2> QED
    BY <1>2, <1>3, <2>1 DEF ServerTypes, ClaimBootstrap, Admit, server
<1>4. CASE method \in Invitations /\ ClaimNodeInvitation(k, method, answer)
  <2>1. Completed(answer) \in BootRows
    BY <1>1 DEF ServerTypes, BootRows, Completed
  <2> QED
    BY <1>2, <1>4, <2>1 DEF ServerTypes, ClaimNodeInvitation, Admit, server
<1> QED
  BY <1>3, <1>4 DEF Claim

LEMMA ServerStepKeepsTypes ==
    ASSUME SetupTypes, ServerStep
    PROVE  SetupTypes'
<1>1. NoKey \in SetupKeys
  BY DEF SetupKeys
<1>2. CASE \E c \in late : ServeLate(c)
  <2>1. PICK c \in late : ServeLate(c)
    BY <1>2
  <2>2. PICK answer \in 0 .. MaxNodes : Claim(c.key, c.method, answer)
    BY <2>1 DEF ServeLate
  <2>3. c.key \in SetupKeys /\ c.method \in Methods
    BY DEF SetupTypes, JobTypes
  <2>4. ServerTypes'
    BY <2>2, <2>3, ClaimKeepsServerTypes, SetupAssumption DEF SetupTypes
  <2> QED
    BY <2>1, <2>4 DEF SetupTypes, MachineTypes, JobTypes, ServeLate, files
<1>3. CASE ~\E c \in late : ServeLate(c)
  <2>1. boot' \in BootRows
    <3>1. boot \in BootRows /\ boot.issued + 1 \in Nat
      BY DEF SetupTypes, ServerTypes, BootRows
    <3>2. /\ [status |-> "pending", secret |-> boot.issued + 1, issued |-> boot.issued + 1,
               digest |-> NoKey, node |-> 0, retry |-> FALSE] \in BootRows
          /\ [boot EXCEPT !.secret = 0, !.digest = NoKey] \in BootRows
          /\ [boot EXCEPT !.retry = FALSE] \in BootRows
      BY <1>1, <3>1 DEF BootRows
    <3> QED
      BY <1>3, <3>1, <3>2 DEF ServerStep, RotateBootstrap, RetryWindowEnds, UpdateAdmission, IssueNodeInvitation, CancelNodeInvitation, NodeInvitationExpires, ReissueNodeInvitation
  <2>2. invite' \in [Invites -> {Absent, "pending", "used", "cancelled", "expired"}]
    BY <1>3 DEF ServerStep, SetupTypes, ServerTypes, RotateBootstrap, RetryWindowEnds,
       UpdateAdmission, IssueNodeInvitation, CancelNodeInvitation, NodeInvitationExpires, ReissueNodeInvitation
  <2>3. UNCHANGED <<owner, nodes, files, node, moved, job, late, torn, parted>>
    BY <1>3 DEF ServerStep, RotateBootstrap, RetryWindowEnds, UpdateAdmission, IssueNodeInvitation,
       CancelNodeInvitation, NodeInvitationExpires, ReissueNodeInvitation
  <2> QED
    BY <2>1, <2>2, <2>3 DEF SetupTypes, ServerTypes, MachineTypes, JobTypes, files
<1> QED
  BY <1>2, <1>3

LEMMA SubmissionKeepsTypes ==
    ASSUME SetupTypes, NEW j \in Jobs, SubmissionStep(j)
    PROVE  SetupTypes'
<1> DEFINE m == JobOf[j]
<1> USE SetupAssumption
<1>0. /\ m \in Machines /\ job[j] \in SetupJobs /\ row[m] \in IdentityRows /\ key[m] \in Nat
      /\ Idle \in SetupJobs /\ Joining \in Methods /\ NoRow \in IdentityRows
      /\ \A x \in Nat : <<m, x>> \in SetupKeys
  BY DEF SetupTypes, MachineTypes, JobTypes, Idle, SetupJobs, PCs, Methods, NoRow, IdentityRows, SetupKeys
<1>0a. CleanUp(j) => job' \in [Jobs -> SetupJobs] /\ ca' \in [Machines -> Jobs \cup {Absent}]
  BY <1>0 DEF CleanUp, Restored, SetupTypes, JobTypes, MachineTypes, SetupJobs
<1>1. Fail(j) => /\ job' \in [Jobs -> SetupJobs] /\ ca' \in [Machines -> Jobs \cup {Absent}]
                 /\ parted' \in SUBSET Machines
  BY <1>0, <1>0a DEF Fail, SetupTypes, MachineTypes
<1>a. CASE \E method \in Methods : Begin(j, method)
  <2>1. PICK method \in Methods : Begin(j, method)
    BY <1>a
  <2>2. [Idle EXCEPT !.pc = "ca", !.method = method, !.previous = ca[m]] \in SetupJobs
    BY <1>0 DEF SetupTypes, MachineTypes, SetupJobs, PCs
  <2>3. job' \in [Jobs -> SetupJobs] /\ torn' \in SUBSET Machines
    BY <1>0, <2>1, <2>2 DEF Begin, SetupTypes, MachineTypes, JobTypes
  <2> QED
    BY <2>1, <2>3 DEF Begin, SetupTypes, ServerTypes, MachineTypes, JobTypes, server, files
<1>b. CASE WriteCA(j)
  <2>1. ca' \in [Machines -> Jobs \cup {Absent}]
    BY <1>0, <1>b DEF WriteCA, SetupTypes, MachineTypes
  <2>2. \A b \in BOOLEAN : [job[j] EXCEPT !.pc = "identity", !.wrote = b,
                                          !.previous = IF b THEN @ ELSE Absent] \in SetupJobs
    BY <1>0 DEF SetupJobs, PCs
  <2>3. job' = [job EXCEPT ![j] = [job[j] EXCEPT !.pc = "identity", !.wrote = (j \in Bundles),
                                          !.previous = IF j \in Bundles THEN @ ELSE Absent]]
    BY <1>0, <1>b DEF WriteCA, SetupTypes, JobTypes, SetupJobs
  <2>4. job' \in [Jobs -> SetupJobs]
    <3>1. (j \in Bundles) \in BOOLEAN
      OBVIOUS
    <3>2. [job[j] EXCEPT !.pc = "identity", !.wrote = (j \in Bundles),
                         !.previous = IF j \in Bundles THEN @ ELSE Absent] \in SetupJobs
      BY <3>1, <2>2
    <3> QED
      BY <3>2, <2>3 DEF SetupTypes, JobTypes
  <2> QED
    BY <1>b, <2>1, <2>4 DEF WriteCA, SetupTypes, ServerTypes, MachineTypes, JobTypes, server
<1>c. CASE EnsureExisting(j)
  <2>1. job' \in [Jobs -> SetupJobs]
    BY <1>0, <1>c DEF EnsureExisting, AfterIdentity, SetupTypes, JobTypes, SetupJobs, PCs
  <2> QED
    BY <1>c, <2>1 DEF EnsureExisting, SetupTypes, ServerTypes, MachineTypes, JobTypes, server, files
<1>d. CASE EnsurePut(j)
  <2>1. job' \in [Jobs -> SetupJobs]
    BY <1>0, <1>d DEF EnsurePut, SetupTypes, JobTypes, SetupJobs, PCs, HasKey
  <2>2. key' \in [Machines -> Nat] /\ seeds' \in [Machines -> Nat]
    <3>1. seeds[m] + 1 \in Nat
      BY <1>0 DEF SetupTypes, MachineTypes
    <3> QED
      BY <1>0, <1>d, <3>1 DEF EnsurePut, PutKey, SetupTypes, MachineTypes
  <2> QED
    BY <1>d, <2>1, <2>2 DEF EnsurePut, SetupTypes, ServerTypes, MachineTypes, JobTypes, server
<1>e. CASE EnsureCommit(j)
  <2>1. job' \in [Jobs -> SetupJobs]
    BY <1>0, <1>e DEF EnsureCommit, AfterIdentity, SetupTypes, JobTypes, SetupJobs, PCs
  <2>2. [NoRow EXCEPT !.key = <<m, key[m]>>, !.ref = "file"] \in IdentityRows
    BY <1>0 DEF IdentityRows
  <2>3. row' \in [Machines -> IdentityRows]
    BY <1>0, <1>e, <2>2 DEF EnsureCommit, SetupTypes, MachineTypes
  <2> QED
    BY <1>e, <2>1, <2>3 DEF EnsureCommit, SetupTypes, ServerTypes, MachineTypes, JobTypes, server
<1>f. CASE EnsureFails(j)
  <2>1. key' \in [Machines -> Nat]
    BY <1>0, <1>f DEF EnsureFails, SetupTypes, MachineTypes
  <2> QED
    BY <1>f, <1>1, <2>1 DEF EnsureFails, SetupTypes, ServerTypes, MachineTypes, JobTypes, server
<1>g. CASE Answered(j)
  <2>1. PICK answer \in 0 .. MaxNodes :
          /\ Claim(row[JobOf[j]].key, job[j].method, answer)
          /\ job' = [job EXCEPT ![j].pc = "answered", ![j].answer = answer, ![j].method = Joining]
    BY <1>g DEF Answered
  <2>2. ServerTypes'
    BY <1>0, <2>1, ClaimKeepsServerTypes DEF SetupTypes, IdentityRows, SetupJobs
  <2>3. job' \in [Jobs -> SetupJobs]
    <3>1. answer \in Nat
      OBVIOUS
    <3> QED
      BY <1>0, <2>1, <3>1 DEF SetupTypes, JobTypes, SetupJobs, PCs
  <2> QED
    BY <1>g, <2>2, <2>3 DEF Answered, SetupTypes, MachineTypes, JobTypes, files
<1>h. CASE Abandon(j)
  <2>1. [key |-> row[JobOf[j]].key, method |-> job[j].method] \in [key : SetupKeys, method : Methods]
    BY <1>0 DEF IdentityRows, SetupJobs
  <2> QED
    BY <1>h, <1>1, <2>1 DEF Abandon, SetupTypes, ServerTypes, MachineTypes, JobTypes, server
<1>i. CASE Bind(j)
  <2>1. job' \in [Jobs -> SetupJobs] /\ job[j].answer \in Nat
    BY <1>0, <1>i DEF Bind, SetupTypes, JobTypes, SetupJobs, PCs
  <2>2. row' \in [Machines -> IdentityRows]
    BY <1>0, <1>i, <2>1 DEF Bind, SetupTypes, MachineTypes, ServerTypes, IdentityRows
  <2> QED
    BY <1>i, <2>1, <2>2 DEF Bind, SetupTypes, ServerTypes, MachineTypes, JobTypes, server
<1>j. CASE CheckConfig(j)
  <2>1. job' \in [Jobs -> SetupJobs]
    BY <1>0, <1>j DEF CheckConfig, SetupTypes, JobTypes, SetupJobs, PCs
  <2> QED
    BY <1>j, <2>1 DEF CheckConfig, SetupTypes, ServerTypes, MachineTypes, JobTypes, server, files
<1>k. CASE Save(j)
  <2>1. job' \in [Jobs -> SetupJobs]
    BY <1>0, <1>k DEF Save, SetupTypes, JobTypes
  <2>2. config' \in [Machines -> SavedConfigs]
    BY <1>0, <1>k DEF Save, Saved, SetupTypes, MachineTypes, SavedConfigs
  <2>3. node' \in [Machines -> Processes]
    BY <1>0, <1>k DEF Save, SetupTypes, MachineTypes, Processes
  <2> QED
    BY <1>k, <2>1, <2>2, <2>3 DEF Save, SetupTypes, ServerTypes, MachineTypes, JobTypes, server
<1>l. CASE Refused(j) \/ SubmissionFails(j)
  BY <1>l, <1>1 DEF Refused, SubmissionFails, SetupTypes, ServerTypes, MachineTypes, JobTypes, server
<1>m. CASE SaveFailsLate(j)
  <2>1. config' \in [Machines -> SavedConfigs]
    BY <1>0, <1>m DEF SaveFailsLate, Saved, SetupTypes, MachineTypes, SavedConfigs
  <2>2. parted' \in SUBSET Machines
    BY <1>0, <1>m DEF SaveFailsLate, SetupTypes, MachineTypes
  <2> QED
    BY <1>0a, <1>m, <2>1, <2>2 DEF SaveFailsLate, SetupTypes, ServerTypes, MachineTypes, JobTypes, server
<1> QED
  BY <1>a, <1>b, <1>c, <1>d, <1>e, <1>f, <1>g, <1>h, <1>i, <1>j, <1>k, <1>l, <1>m
     DEF SubmissionStep, CallBootstrap, CallInvitation

LEMMA MachineKeepsTypes ==
    ASSUME SetupTypes, NEW m \in Machines, MachineStep(m)
    PROVE  SetupTypes'
<1>0. /\ Idle \in SetupJobs /\ NoRow \in IdentityRows /\ NoConfig \in SavedConfigs /\ NothingMoved \in BackUps
      /\ moved[m] \in FileMoves /\ moved[m].kept \in BackUps
      /\ config[m] \in SavedConfigs /\ row[m] \in IdentityRows /\ ca[m] \in Jobs \cup {Absent} /\ key[m] \in Nat
      /\ moved[m].kept.config \in SavedConfigs /\ moved[m].kept.row \in IdentityRows
      /\ moved[m].kept.ca \in Jobs \cup {Absent} /\ moved[m].kept.key \in Nat
      /\ node[m] \in Processes
  BY DEF SetupTypes, MachineTypes, Idle, SetupJobs, PCs, Methods, Joining, NoRow, NoConfig, NothingMoved, IdentityRows,
     SetupKeys, SavedConfigs, BackUps, FileMoves
<1>a. CASE \E force \in BOOLEAN : StartNode(m, force)
  BY <1>0, <1>a DEF StartNode, SetupTypes, ServerTypes, MachineTypes, Processes, JobTypes, server, files
<1>b. CASE Kill(m)
  BY <1>0, <1>b DEF Kill, SetupTypes, ServerTypes, MachineTypes, Processes, JobTypes, server, files
<1>c. CASE BeginRepair(m)
  <2>1. [n |-> 0, kept |-> NothingMoved] \in FileMoves /\ [node[m] EXCEPT !.run = "repair"] \in Processes
    BY <1>0 DEF FileMoves, Processes
  <2> QED
    BY <2>1, <1>c DEF BeginRepair, SetupTypes, ServerTypes, MachineTypes, JobTypes, server, files
<1>d. CASE MoveFile(m)
  <2>0. moved' = [moved EXCEPT ![m] = [n |-> moved[m].n + 1, kept |-> Backed(m, Files[moved[m].n + 1])]]
    BY <1>0, <1>d DEF MoveFile, SetupTypes, MachineTypes, FileMoves
  <2>1. moved[m].n \in 0 .. 3
    BY <1>0, <1>d DEF MoveFile, Files, FileMoves
  <2>2. Files[moved[m].n + 1] \in {"config", "row", "ca", "key"}
    BY <2>1 DEF Files
  <2>3. /\ config' \in [Machines -> SavedConfigs] /\ row' \in [Machines -> IdentityRows]
        /\ ca' \in [Machines -> Jobs \cup {Absent}] /\ key' \in [Machines -> Nat]
    BY <1>0, <1>d DEF MoveFile, SetupTypes, MachineTypes
  <2>4. \E x \in BackUps : moved' = [moved EXCEPT ![m] = [n |-> moved[m].n + 1, kept |-> x]]
    <3>1. CASE Files[moved[m].n + 1] = "config"
      <4>1. [moved[m].kept EXCEPT !.config = config[m]] \in BackUps
        BY <1>0 DEF BackUps
      <4> QED
        BY <2>0, <4>1, <3>1 DEF Backed
    <3>2. CASE Files[moved[m].n + 1] = "row"
      <4>1. [moved[m].kept EXCEPT !.row = row[m]] \in BackUps
        BY <1>0 DEF BackUps
      <4> QED
        BY <2>0, <4>1, <3>2 DEF Backed
    <3>3. CASE Files[moved[m].n + 1] = "ca"
      <4>1. [moved[m].kept EXCEPT !.ca = ca[m]] \in BackUps
        BY <1>0 DEF BackUps
      <4> QED
        BY <2>0, <4>1, <3>3 DEF Backed
    <3>4. CASE Files[moved[m].n + 1] = "key"
      <4>1. [moved[m].kept EXCEPT !.key = key[m]] \in BackUps
        BY <1>0 DEF BackUps
      <4> QED
        BY <2>0, <4>1, <3>4 DEF Backed
    <3> QED
      BY <2>2, <3>1, <3>2, <3>3, <3>4
  <2>5. moved' \in [Machines -> FileMoves]
    BY <2>1, <2>4 DEF SetupTypes, MachineTypes, FileMoves
  <2> QED
    BY <1>d, <2>3, <2>5 DEF MoveFile, SetupTypes, ServerTypes, MachineTypes, JobTypes, server
<1>e. CASE RepairFails(m)
  <2>1. [n |-> 0, kept |-> NothingMoved] \in FileMoves /\ [node[m] EXCEPT !.run = "down"] \in Processes
    BY <1>0 DEF FileMoves, Processes
  <2> QED
    BY <1>0, <2>1, <1>e DEF RepairFails, SetupTypes, ServerTypes, MachineTypes, JobTypes, server
<1>f. CASE RepairDone(m) \/ RepairKilled(m)
  <2>1. [node[m] EXCEPT !.run = "down"] \in Processes
    BY <1>0 DEF Processes
  <2> QED
    BY <2>1, <1>f DEF RepairDone, RepairKilled, SetupTypes, ServerTypes, MachineTypes, JobTypes, server, files
<1> QED
  BY <1>a, <1>b, <1>c, <1>d, <1>e, <1>f DEF MachineStep

\* The types hold in every state.
LEMMA SetupTypesStep ==
    ASSUME SetupTypes, [SetupNext]_setupVars
    PROVE  SetupTypes'
<1>1. CASE UNCHANGED setupVars
  BY <1>1 DEF SetupTypes, ServerTypes, MachineTypes, JobTypes, setupVars, server, files
<1> QED
  BY <1>1, ServerStepKeepsTypes, SubmissionKeepsTypes, MachineKeepsTypes DEF SetupNext

LEMMA SetupTypesInit ==
    SetupInit => SetupTypes
<1> SUFFICES ASSUME SetupInit PROVE SetupTypes
  OBVIOUS
<1>1. NoKey \in SetupKeys /\ Joining \in Methods
  BY DEF SetupKeys, Methods
<1>2. NoRow \in IdentityRows /\ [NoRow EXCEPT !.ref = "legacy"] \in IdentityRows
  BY <1>1 DEF NoRow, IdentityRows
<1>3. NoConfig \in SavedConfigs /\ [NoConfig EXCEPT !.is = "legacy"] \in SavedConfigs
  BY DEF NoConfig, SavedConfigs
<1>4. Idle \in SetupJobs
  BY <1>1 DEF Idle, SetupJobs, PCs
<1>5. NothingMoved \in BackUps
  BY <1>2, <1>3 DEF NothingMoved, BackUps
<1>6. ServerTypes
  BY <1>1 DEF SetupInit, ServerTypes, BootRows
<1>7. MachineTypes
  BY <1>2, <1>3, <1>5 DEF SetupInit, MachineTypes, Processes, FileMoves
<1>8. JobTypes
  BY <1>4 DEF SetupInit, JobTypes
<1> QED
  BY <1>6, <1>7, <1>8 DEF SetupTypes

-----------------------------------------------------------------------------
(* What the steps of a repair change *)

LEMMA MoveFileCases ==
    ASSUME SetupTypes, NEW m \in Machines, MoveFile(m)
    PROVE  /\ node[m].run = "repair"
           /\ UNCHANGED <<node, job, torn, server, late>>
           /\ \/ /\ moved[m].n = 0
                 /\ moved' = [moved EXCEPT ![m] = [n |-> 1, kept |-> [moved[m].kept EXCEPT !.config = config[m]]]]
                 /\ config' = [config EXCEPT ![m] = NoConfig] /\ UNCHANGED <<row, ca, key>>
              \/ /\ moved[m].n = 1
                 /\ moved' = [moved EXCEPT ![m] = [n |-> 2, kept |-> [moved[m].kept EXCEPT !.row = row[m]]]]
                 /\ row' = [row EXCEPT ![m] = NoRow] /\ UNCHANGED <<config, ca, key>>
              \/ /\ moved[m].n = 2
                 /\ moved' = [moved EXCEPT ![m] = [n |-> 3, kept |-> [moved[m].kept EXCEPT !.ca = ca[m]]]]
                 /\ ca' = [ca EXCEPT ![m] = Absent] /\ UNCHANGED <<config, row, key>>
              \/ /\ moved[m].n = 3
                 /\ moved' = [moved EXCEPT ![m] = [n |-> 4, kept |-> [moved[m].kept EXCEPT !.key = key[m]]]]
                 /\ key' = [key EXCEPT ![m] = 0] /\ UNCHANGED <<config, row, ca>>
<1>1. moved[m].n \in 0 .. 3
  BY DEF MoveFile, Files, FileMoves, SetupTypes, MachineTypes
<1>2. /\ Files[1] = "config" /\ Files[2] = "row" /\ Files[3] = "ca" /\ Files[4] = "key"
  BY DEF Files
<1>3. /\ Backed(m, "config") = [moved[m].kept EXCEPT !.config = config[m]]
      /\ Backed(m, "row") = [moved[m].kept EXCEPT !.row = row[m]]
      /\ Backed(m, "ca") = [moved[m].kept EXCEPT !.ca = ca[m]]
      /\ Backed(m, "key") = [moved[m].kept EXCEPT !.key = key[m]]
  BY DEF Backed
<1>4. CASE moved[m].n = 0
  <2>1. moved[m].n + 1 = 1 /\ Files[moved[m].n + 1] = "config"
    BY <1>2, <1>4
  <2> QED
    BY <1>3, <1>4, <2>1 DEF MoveFile
<1>5. CASE moved[m].n = 1
  <2>1. moved[m].n + 1 = 2 /\ Files[moved[m].n + 1] = "row"
    BY <1>2, <1>5
  <2> QED
    BY <1>3, <1>5, <2>1 DEF MoveFile
<1>6. CASE moved[m].n = 2
  <2>1. moved[m].n + 1 = 3 /\ Files[moved[m].n + 1] = "ca"
    BY <1>2, <1>6
  <2> QED
    BY <1>3, <1>6, <2>1 DEF MoveFile
<1>7. CASE moved[m].n = 3
  <2>1. moved[m].n + 1 = 4 /\ Files[moved[m].n + 1] = "key"
    BY <1>2, <1>7
  <2> QED
    BY <1>3, <1>7, <2>1 DEF MoveFile
<1> QED
  BY <1>1, <1>4, <1>5, <1>6, <1>7

LEMMA RepairFailsCases ==
    ASSUME SetupTypes, NEW m \in Machines, RepairFails(m)
    PROVE  /\ node[m].run = "repair" /\ moved[m].n \in 0 .. 3
           /\ config' = IF moved[m].n >= 1 THEN [config EXCEPT ![m] = moved[m].kept.config] ELSE config
           /\ row' = IF moved[m].n >= 2 THEN [row EXCEPT ![m] = moved[m].kept.row] ELSE row
           /\ UNCHANGED key
           /\ moved' = [moved EXCEPT ![m] = [n |-> 0, kept |-> NothingMoved]]
           /\ node' = [node EXCEPT ![m].run = "down"]
           /\ UNCHANGED <<server, seeds, job, late, torn>>
<1>1. moved[m].n \in 0 .. 3
  BY DEF RepairFails, Files, FileMoves, SetupTypes, MachineTypes
<1>2. /\ Files[1] = "config" /\ Files[2] = "row" /\ Files[3] = "ca" /\ Files[4] = "key"
  BY DEF Files
<1>3. /\ PutBack(m, "config") <=> moved[m].n >= 1
      /\ PutBack(m, "row") <=> moved[m].n >= 2
      /\ ~PutBack(m, "key")
  <2>1. \A f : PutBack(m, f) <=> \E i \in 1 .. moved[m].n : f = Files[i]
    BY DEF PutBack
  <2>2. \A i \in 1 .. moved[m].n : i = 1 \/ i = 2 \/ i = 3
    BY <1>1
  <2> QED
    BY <1>1, <1>2, <2>1, <2>2
<1> QED
  BY <1>1, <1>3 DEF RepairFails

-----------------------------------------------------------------------------
(* The identity of a machine *)

\* A submission moves on and nothing on disk changes.
LEMMA SubmissionMoves ==
    ASSUME SetupTypes, IdentityInv, NEW j \in Jobs, NEW r,
           job' = [job EXCEPT ![j] = r],
           UNCHANGED <<key, row, config, moved>>,
           \A m \in Machines : node'[m].run = node[m].run,
           torn \subseteq torn',
           r.pc # "commit",
           r.pc # "idle" => Up(JobOf[j]),
           r.pc \in {"claim", "answered", "config", "save"} => row[JobOf[j]].ref = "file"
    PROVE  IdentityInv'
<1> USE SetupAssumption
<1>1. JobsPlaced'
  <2> SUFFICES ASSUME NEW o \in Jobs
               PROVE  JobsPlaced!(o)'
    BY DEF JobsPlaced
  <2>1. \A q \in Jobs : q # j => job'[q] = job[q]
    BY DEF SetupTypes, JobTypes
  <2>2. job'[j] = r
    BY DEF SetupTypes, JobTypes
  <2>3. JobOf[o] \in Machines
    OBVIOUS
  <2>4. JobsPlaced!(o)
    BY DEF IdentityInv, JobsPlaced
  <2> QED
    BY <2>1, <2>2, <2>3, <2>4 DEF Running, Up
<1>2. RepairPlaced'
  BY DEF IdentityInv, RepairPlaced, Verifies, HasKey
<1>3. KeyMatchesRow'
  BY DEF IdentityInv, KeyMatchesRow, Verifies, HasKey
<1> QED
  BY <1>1, <1>2, <1>3 DEF IdentityInv

LEMMA SubmissionKeepsIdentity ==
    ASSUME SetupTypes, IdentityInv, NEW j \in Jobs, SubmissionStep(j)
    PROVE  IdentityInv'
<1> DEFINE m == JobOf[j]
<1> USE SetupAssumption
<1>0. /\ m \in Machines /\ job[j] \in SetupJobs /\ row[m] \in IdentityRows /\ key[m] \in Nat
      /\ Idle.pc = "idle" /\ JobsPlaced!(j) /\ job \in [Jobs -> SetupJobs]
      /\ \A o \in Jobs : JobOf[o] \in Machines
  BY DEF SetupTypes, MachineTypes, JobTypes, Idle, IdentityInv, JobsPlaced
<1>1. CASE Fail(j) /\ UNCHANGED <<key, row, config, moved, node, torn>>
  <2>1. job' = [job EXCEPT ![j] = Idle]
    BY <1>1 DEF Fail, CleanUp
  <2> QED
    BY <1>0, <1>1, <2>1, SubmissionMoves
<1>a. CASE \E method \in Methods : Begin(j, method)
  <2>1. PICK method \in Methods : Begin(j, method)
    BY <1>a
  <2> DEFINE r == [Idle EXCEPT !.pc = "ca", !.method = method, !.previous = ca[m]]
  <2>2. r.pc = "ca"
    BY DEF Idle
  <2>3. job' = [job EXCEPT ![j] = r] /\ Up(m) /\ torn \subseteq torn' /\ UNCHANGED <<key, row, config, moved, node>>
    BY <2>1 DEF Begin, Required, files
  <2> HIDE DEF r
  <2> QED
    BY <2>2, <2>3, SubmissionMoves
<1>b. CASE WriteCA(j)
  <2> DEFINE r == [job[j] EXCEPT !.pc = "identity", !.wrote = (j \in Bundles),
                                 !.previous = IF j \in Bundles THEN @ ELSE Absent]
  <2>1. job' = [job EXCEPT ![j] = r] /\ Up(m) /\ UNCHANGED <<key, row, config, moved, node, torn>>
    BY <1>0, <1>b DEF WriteCA, At, SetupJobs
  <2>2. r.pc = "identity"
    BY <1>0 DEF SetupJobs
  <2> HIDE DEF r
  <2> QED
    BY <2>1, <2>2, SubmissionMoves
<1>c. CASE EnsureExisting(j)
  <2> DEFINE r == [job[j] EXCEPT !.pc = AfterIdentity(job[j].method)]
  <2>1. /\ job' = [job EXCEPT ![j] = r] /\ Up(m) /\ UNCHANGED <<key, row, config, moved, node, torn>>
        /\ row[m].ref = "file"
    BY <1>0, <1>c DEF EnsureExisting, At, Verifies, files
  <2>2. r.pc \in {"config", "claim"}
    BY <1>0 DEF SetupJobs, AfterIdentity
  <2> HIDE DEF r
  <2> QED
    BY <2>1, <2>2, SubmissionMoves
<1>d. CASE EnsurePut(j)
  <2>1. /\ job[j].pc = "identity" /\ Up(m) /\ row[m].ref = Absent /\ NoCreator(m)
        /\ UNCHANGED <<row, config, moved, node, torn>>
    BY <1>0, <1>d DEF EnsurePut, At, NoRow
  <2>2. \A o \in Jobs : o # j => job'[o] = job[o]
    BY <1>0, <1>d DEF EnsurePut
  <2>3. job'[j].pc = "commit"
    BY <1>0, <1>d DEF EnsurePut, SetupJobs
  <2>4. key'[m] # 0 /\ \A q \in Machines : q # m => key'[q] = key[q]
    <3>1. seeds[m] \in Nat /\ key \in [Machines -> Nat]
      BY <1>0 DEF SetupTypes, MachineTypes
    <3> QED
      BY <1>0, <1>d, <3>1 DEF EnsurePut, HasKey, PutKey
  <2>5. JobsPlaced'
    <3> SUFFICES ASSUME NEW o \in Jobs
                 PROVE  JobsPlaced!(o)'
      BY DEF JobsPlaced
    <3>1. JobsPlaced!(o)
      BY DEF IdentityInv, JobsPlaced
    <3> QED
      BY <1>0, <2>1, <2>2, <2>3, <2>4, <3>1 DEF Running, Up, NoCreator
  <2>6. RepairPlaced'
    BY <1>0, <2>1, <2>4 DEF IdentityInv, RepairPlaced, Verifies, HasKey, Up
  <2>7. KeyMatchesRow'
    BY <1>0, <2>1, <2>4 DEF IdentityInv, KeyMatchesRow, Verifies, HasKey, Absent
  <2> QED
    BY <2>5, <2>6, <2>7 DEF IdentityInv
<1>e. CASE EnsureCommit(j)
  <2>1. /\ job[j].pc = "commit" /\ Up(m) /\ row[m].ref = Absent /\ key[m] # 0
        /\ UNCHANGED <<key, config, moved, node, torn>>
    BY <1>0, <1>e DEF EnsureCommit, At
  <2>2. \A o \in Jobs : o # j => job'[o] = job[o]
    BY <1>0, <1>e DEF EnsureCommit
  <2>3. job'[j].pc \in {"config", "claim"}
    BY <1>0, <1>e DEF EnsureCommit, SetupJobs, AfterIdentity
  <2>4. /\ row'[m].ref = "file" /\ row'[m].key = <<m, key[m]>>
        /\ \A q \in Machines : q # m => row'[q] = row[q]
    <3>1. row \in [Machines -> IdentityRows]
      BY DEF SetupTypes, MachineTypes
    <3> QED
      BY <1>0, <1>e, <3>1 DEF EnsureCommit, NoRow
  <2>5. JobsPlaced'
    <3> SUFFICES ASSUME NEW o \in Jobs
                 PROVE  JobsPlaced!(o)'
      BY DEF JobsPlaced
    <3>1. JobsPlaced!(o)
      BY DEF IdentityInv, JobsPlaced
    <3> QED
      BY <1>0, <2>1, <2>2, <2>3, <2>4, <3>1 DEF Running, Up
  <2>6. RepairPlaced'
    BY <1>0, <2>1, <2>4 DEF IdentityInv, RepairPlaced, Verifies, HasKey, Up
  <2>7. KeyMatchesRow'
    BY <1>0, <2>1, <2>4 DEF IdentityInv, KeyMatchesRow, Verifies, HasKey
  <2> QED
    BY <2>5, <2>6, <2>7 DEF IdentityInv
<1>f. CASE EnsureFails(j)
  <2>1. /\ job[j].pc = "commit" /\ Up(m) /\ row[m].ref = Absent
        /\ UNCHANGED <<row, config, moved, node, torn>>
    BY <1>0, <1>f DEF EnsureFails, At
  <2>2. \A o \in Jobs : o # j => job'[o] = job[o]
    BY <1>0, <1>f DEF EnsureFails, Fail, CleanUp
  <2>3. job'[j].pc = "idle"
    BY <1>0, <1>f DEF EnsureFails, Fail, CleanUp
  <2>4. \A q \in Machines : q # m => key'[q] = key[q]
    <3>1. key \in [Machines -> Nat]
      BY DEF SetupTypes, MachineTypes
    <3> QED
      BY <1>0, <1>f, <3>1 DEF EnsureFails
  <2>5. JobsPlaced'
    <3> SUFFICES ASSUME NEW o \in Jobs
                 PROVE  JobsPlaced!(o)'
      BY DEF JobsPlaced
    <3>1. JobsPlaced!(o)
      BY DEF IdentityInv, JobsPlaced
    <3> QED
      BY <1>0, <2>1, <2>2, <2>3, <2>4, <3>1 DEF Running, Up
  <2>6. RepairPlaced'
    BY <1>0, <2>1, <2>4 DEF IdentityInv, RepairPlaced, Verifies, HasKey, Up
  <2>7. KeyMatchesRow'
    BY <1>0, <2>1, <2>4 DEF IdentityInv, KeyMatchesRow, Verifies, HasKey, Absent
  <2> QED
    BY <2>5, <2>6, <2>7 DEF IdentityInv
<1>g. CASE At(j, "claim") /\ Answered(j)
  <2>1. PICK answer : job' = [job EXCEPT ![j].pc = "answered", ![j].answer = answer, ![j].method = Joining]
    BY <1>g DEF Answered
  <2> DEFINE r == [job[j] EXCEPT !.pc = "answered", !.answer = answer, !.method = Joining]
  <2>2. job' = [job EXCEPT ![j] = r] /\ Up(m) /\ row[m].ref = "file" /\ UNCHANGED <<key, row, config, moved, node, torn>>
    BY <1>0, <1>g, <2>1 DEF Answered, At, files
  <2>3. r.pc = "answered"
    BY <1>0 DEF SetupJobs
  <2> HIDE DEF r
  <2> QED
    BY <2>2, <2>3, SubmissionMoves
<1>h. CASE Abandon(j) \/ Refused(j) \/ SubmissionFails(j)
  BY <1>1, <1>h DEF Abandon, Refused, SubmissionFails
<1>i. CASE Bind(j)
  <2>1. /\ job[j].pc = "answered" /\ Up(m) /\ row[m].ref = "file"
        /\ UNCHANGED <<key, config, moved, node, torn>>
    BY <1>0, <1>i DEF Bind, At
  <2>2. \A o \in Jobs : o # j => job'[o] = job[o]
    BY <1>0, <1>i DEF Bind
  <2>3. job'[j].pc = "config"
    BY <1>0, <1>i DEF Bind, SetupJobs
  <2>4. \A q \in Machines : row'[q].ref = row[q].ref /\ row'[q].key = row[q].key
    <3>1. row \in [Machines -> IdentityRows]
      BY DEF SetupTypes, MachineTypes
    <3> QED
      BY <1>0, <1>i, <3>1 DEF Bind, IdentityRows
  <2>5. JobsPlaced'
    <3> SUFFICES ASSUME NEW o \in Jobs
                 PROVE  JobsPlaced!(o)'
      BY DEF JobsPlaced
    <3>1. JobsPlaced!(o)
      BY DEF IdentityInv, JobsPlaced
    <3> QED
      BY <1>0, <2>1, <2>2, <2>3, <2>4, <3>1 DEF Running, Up
  <2>6. RepairPlaced'
    BY <1>0, <2>1, <2>4 DEF IdentityInv, RepairPlaced, Verifies, HasKey
  <2>7. KeyMatchesRow'
    BY <1>0, <2>1, <2>4 DEF IdentityInv, KeyMatchesRow, Verifies, HasKey
  <2> QED
    BY <2>5, <2>6, <2>7 DEF IdentityInv
<1>j. CASE CheckConfig(j)
  <2> DEFINE r == [job[j] EXCEPT !.pc = "save"]
  <2>1. job' = [job EXCEPT ![j] = r] /\ Up(m) /\ row[m].ref = "file" /\ UNCHANGED <<key, row, config, moved, node, torn>>
    BY <1>0, <1>j DEF CheckConfig, At, files
  <2>2. r.pc = "save"
    BY <1>0 DEF SetupJobs
  <2> HIDE DEF r
  <2> QED
    BY <2>1, <2>2, SubmissionMoves
<1>k. CASE Save(j) \/ SaveFailsLate(j)
  <2>1. /\ job[j].pc = "save" /\ Up(m) /\ row[m].ref = "file"
        /\ UNCHANGED <<key, row, moved, torn>>
    BY <1>0, <1>k DEF Save, SaveFailsLate, At
  <2>2. \A o \in Jobs : o # j => job'[o] = job[o]
    BY <1>0, <1>k DEF Save, SaveFailsLate, CleanUp
  <2>3. job'[j].pc = "idle"
    BY <1>0, <1>k DEF Save, SaveFailsLate, CleanUp
  <2>4. \A q \in Machines : node'[q].run = node[q].run /\ (q # m => config'[q] = config[q])
    <3>1. node \in [Machines -> Processes] /\ config \in [Machines -> SavedConfigs]
      BY DEF SetupTypes, MachineTypes
    <3> QED
      BY <1>0, <1>k, <3>1 DEF Save, SaveFailsLate, Processes
  <2>5. JobsPlaced'
    <3> SUFFICES ASSUME NEW o \in Jobs
                 PROVE  JobsPlaced!(o)'
      BY DEF JobsPlaced
    <3>1. JobsPlaced!(o)
      BY DEF IdentityInv, JobsPlaced
    <3> QED
      BY <1>0, <2>1, <2>2, <2>3, <2>4, <3>1 DEF Running, Up
  <2>6. RepairPlaced'
    BY <1>0, <2>1, <2>4 DEF IdentityInv, RepairPlaced, Verifies, HasKey, Up
  <2>7. KeyMatchesRow'
    BY <1>0, <2>1, <2>4 DEF IdentityInv, KeyMatchesRow, Verifies, HasKey
  <2> QED
    BY <2>5, <2>6, <2>7 DEF IdentityInv
<1> QED
  BY <1>a, <1>b, <1>c, <1>d, <1>e, <1>f, <1>g, <1>h, <1>i, <1>j, <1>k
     DEF SubmissionStep, CallBootstrap, CallInvitation

\* A machine that is not up has no submission under way.
LEMMA DownIsIdle ==
    ASSUME IdentityInv, NEW m \in Machines, ~Up(m), NEW j \in Jobs, JobOf[j] = m
    PROVE  job[j].pc = "idle"
BY DEF IdentityInv, JobsPlaced, Running

LEMMA MachineKeepsIdentity ==
    ASSUME SetupTypes, IdentityInv, NEW m \in Machines, MachineStep(m)
    PROVE  IdentityInv'
<1> USE SetupAssumption
<1>0. /\ node \in [Machines -> Processes] /\ moved \in [Machines -> FileMoves] /\ row \in [Machines -> IdentityRows]
      /\ config \in [Machines -> SavedConfigs] /\ key \in [Machines -> Nat]
      /\ \A o \in Jobs : JobOf[o] \in Machines
      /\ job \in [Jobs -> SetupJobs]
  BY DEF SetupTypes, MachineTypes, JobTypes
<1>a. CASE \E force \in BOOLEAN : StartNode(m, force)
  <2>1. /\ UNCHANGED <<key, row, config, moved, job, torn>> /\ node[m].run = "down" /\ node'[m].run = "up"
        /\ \A q \in Machines : q # m => node'[q] = node[q]
    BY <1>0, <1>a DEF StartNode, files
  <2>2. JobsPlaced'
    BY <1>0, <2>1 DEF IdentityInv, JobsPlaced, Running, Up
  <2>3. RepairPlaced'
    BY <2>1 DEF IdentityInv, RepairPlaced, Verifies, HasKey
  <2>4. KeyMatchesRow'
    BY <2>1 DEF IdentityInv, KeyMatchesRow, Verifies, HasKey
  <2> QED
    BY <2>2, <2>3, <2>4 DEF IdentityInv
<1>b. CASE Kill(m)
  <2>1. /\ UNCHANGED <<key, row, config, moved>> /\ torn \subseteq torn' /\ node[m].run = "up" /\ node'[m].run = "down"
        /\ \A q \in Machines : q # m => node'[q] = node[q]
    BY <1>0, <1>b DEF Kill, files, Up
  <2>2. \A j \in Jobs : job'[j] = IF JobOf[j] = m THEN Idle ELSE job[j]
    BY <1>b DEF Kill
  <2>3. Idle.pc = "idle"
    BY DEF Idle
  <2>4. JobsPlaced'
    <3> SUFFICES ASSUME NEW o \in Jobs
                 PROVE  JobsPlaced!(o)'
      BY DEF JobsPlaced
    <3>1. JobsPlaced!(o)
      BY DEF IdentityInv, JobsPlaced
    <3> QED
      BY <1>0, <2>1, <2>2, <2>3, <3>1 DEF Running, Up
  <2>5. RepairPlaced'
    BY <2>1 DEF IdentityInv, RepairPlaced, Verifies, HasKey
  <2>6. KeyMatchesRow'
    BY <2>1 DEF IdentityInv, KeyMatchesRow, Verifies, HasKey
  <2> QED
    BY <2>4, <2>5, <2>6 DEF IdentityInv
<1>c. CASE BeginRepair(m)
  <2>1. /\ UNCHANGED <<key, row, config, job, torn>> /\ node[m].run = "down" /\ node'[m].run = "repair"
        /\ config[m].is = "legacy" /\ moved'[m].n = 0
        /\ \A q \in Machines : q # m => node'[q] = node[q] /\ moved'[q] = moved[q]
    BY <1>0, <1>c DEF BeginRepair, files, Processes
  <2>2. JobsPlaced'
    BY <1>0, <2>1 DEF IdentityInv, JobsPlaced, Running, Up
  <2>3. RepairPlaced'
    BY <2>1 DEF IdentityInv, RepairPlaced, Verifies, HasKey
  <2>4. KeyMatchesRow'
    BY <2>1 DEF IdentityInv, KeyMatchesRow, Verifies, HasKey
  <2> QED
    BY <2>2, <2>3, <2>4 DEF IdentityInv
<1>d. CASE MoveFile(m)
  <2>1. node[m].run = "repair" /\ UNCHANGED <<node, job, torn>>
    BY <1>d, MoveFileCases
  <2>2. \A o \in Jobs : JobOf[o] = m => job[o].pc = "idle"
    BY <2>1, DownIsIdle DEF Up
  <2>3. /\ \A q \in Machines : q # m => /\ moved'[q] = moved[q] /\ config'[q] = config[q] /\ row'[q] = row[q]
                                        /\ key'[q] = key[q]
    BY <1>0, <1>d, MoveFileCases
  <2>4. JobsPlaced'
    <3> SUFFICES ASSUME NEW o \in Jobs
                 PROVE  JobsPlaced!(o)'
      BY DEF JobsPlaced
    <3>1. JobsPlaced!(o)
      BY DEF IdentityInv, JobsPlaced
    <3> QED
      BY <1>0, <2>1, <2>2, <2>3, <3>1 DEF Running, Up
  <2>5. /\ RepairPlaced!(m) /\ KeyMatchesRow!(m) /\ moved[m].kept \in BackUps
    BY <1>0 DEF IdentityInv, RepairPlaced, KeyMatchesRow, FileMoves
  <2>6. RepairPlaced!(m)'
    <3>1. CASE moved[m].n = 0
      BY <1>0, <1>d, <2>1, <2>5, <3>1, MoveFileCases DEF BackUps, Verifies, HasKey
    <3>2. CASE moved[m].n = 1
      BY <1>0, <1>d, <2>1, <2>5, <3>2, MoveFileCases DEF BackUps, Verifies, HasKey, NoRow
    <3>3. CASE moved[m].n = 2
      BY <1>0, <1>d, <2>1, <2>5, <3>3, MoveFileCases DEF BackUps, Verifies, HasKey
    <3>4. CASE moved[m].n = 3
      BY <1>0, <1>d, <2>1, <2>5, <3>4, MoveFileCases DEF BackUps, Verifies, HasKey
    <3> QED
      BY <1>d, <3>1, <3>2, <3>3, <3>4, MoveFileCases
  <2>7. RepairPlaced'
    BY <2>1, <2>3, <2>6 DEF IdentityInv, RepairPlaced, Verifies, HasKey
  <2>8. KeyMatchesRow!(m)'
    BY <1>0, <1>d, <2>1, <2>5, MoveFileCases DEF Verifies, HasKey, NoRow, Absent
  <2>9. KeyMatchesRow'
    BY <2>1, <2>3, <2>8 DEF IdentityInv, KeyMatchesRow, Verifies, HasKey
  <2> QED
    BY <2>4, <2>7, <2>9 DEF IdentityInv
<1>e. CASE RepairFails(m)
  <2>1. /\ node[m].run = "repair" /\ node'[m].run = "down" /\ UNCHANGED <<job, torn, key>>
        /\ \A q \in Machines : q # m => node'[q] = node[q]
    BY <1>0, <1>e, RepairFailsCases DEF Processes
  <2>2. \A o \in Jobs : JobOf[o] = m => job[o].pc = "idle"
    BY <2>1, DownIsIdle DEF Up
  <2>3. /\ \A q \in Machines : q # m => /\ moved'[q] = moved[q] /\ config'[q] = config[q] /\ row'[q] = row[q]
    BY <1>0, <1>e, RepairFailsCases
  <2>4. JobsPlaced'
    <3> SUFFICES ASSUME NEW o \in Jobs
                 PROVE  JobsPlaced!(o)'
      BY DEF JobsPlaced
    <3>1. JobsPlaced!(o)
      BY DEF IdentityInv, JobsPlaced
    <3> QED
      BY <1>0, <2>1, <2>2, <2>3, <3>1 DEF Running, Up
  <2>5. RepairPlaced'
    BY <2>1, <2>3 DEF IdentityInv, RepairPlaced, Verifies, HasKey
  <2>6. /\ RepairPlaced!(m) /\ KeyMatchesRow!(m) /\ moved[m].n \in 0 .. 3
    BY <1>e, RepairFailsCases DEF IdentityInv, RepairPlaced, KeyMatchesRow
  <2>7. KeyMatchesRow!(m)'
    <3>1. CASE moved[m].n = 0
      BY <1>0, <1>e, <2>1, <2>6, <3>1, RepairFailsCases DEF Verifies, HasKey
    <3>2. CASE moved[m].n = 1
      BY <1>0, <1>e, <2>1, <2>6, <3>2, RepairFailsCases DEF Verifies, HasKey
    <3>3. CASE moved[m].n \in 2 .. 3
      BY <1>0, <1>e, <2>1, <2>6, <3>3, RepairFailsCases DEF Verifies, HasKey
    <3> QED
      BY <2>6, <3>1, <3>2, <3>3
  <2>8. KeyMatchesRow'
    BY <2>1, <2>3, <2>7 DEF IdentityInv, KeyMatchesRow, Verifies, HasKey
  <2> QED
    BY <2>4, <2>5, <2>8 DEF IdentityInv
<1>f. CASE RepairDone(m) \/ RepairKilled(m)
  <2>1. /\ node[m].run = "repair" /\ node'[m].run = "down" /\ UNCHANGED <<key, row, config, moved, job>>
        /\ \A q \in Machines : q # m => node'[q] = node[q]
        /\ torn \subseteq torn' /\ (m \in torn' \/ moved[m].n = 4)
    BY <1>0, <1>f DEF RepairDone, RepairKilled, files, Processes, Files
  <2>2. JobsPlaced'
    BY <1>0, <2>1 DEF IdentityInv, JobsPlaced, Running, Up
  <2>3. RepairPlaced'
    BY <2>1 DEF IdentityInv, RepairPlaced, Verifies, HasKey
  <2>4. KeyMatchesRow'
    BY <2>1 DEF IdentityInv, RepairPlaced, KeyMatchesRow, Verifies, HasKey, Absent
  <2> QED
    BY <2>2, <2>3, <2>4 DEF IdentityInv
<1> QED
  BY <1>a, <1>b, <1>c, <1>d, <1>e, <1>f DEF MachineStep

LEMMA IdentityStep ==
    ASSUME SetupTypes, IdentityInv, [SetupNext]_setupVars
    PROVE  IdentityInv'
<1>1. CASE UNCHANGED <<files, node, moved, job, torn>>
  <2>1. JobsPlaced'
    BY <1>1 DEF IdentityInv, JobsPlaced, Running, Up, files
  <2>2. RepairPlaced'
    BY <1>1 DEF IdentityInv, RepairPlaced, Verifies, HasKey, files
  <2>3. KeyMatchesRow'
    BY <1>1 DEF IdentityInv, KeyMatchesRow, Verifies, HasKey, files
  <2> QED
    BY <2>1, <2>2, <2>3 DEF IdentityInv
<1>2. CASE ServerStep
  BY <1>1, <1>2 DEF ServerStep, RotateBootstrap, RetryWindowEnds, UpdateAdmission, IssueNodeInvitation,
     CancelNodeInvitation, NodeInvitationExpires, ReissueNodeInvitation, ServeLate
<1> QED
  BY <1>1, <1>2, SubmissionKeepsIdentity, MachineKeepsIdentity DEF SetupNext, setupVars

LEMMA IdentityInit ==
    SetupInit => IdentityInv
BY SetupAssumption DEF SetupInit, IdentityInv, JobsPlaced, RepairPlaced, KeyMatchesRow, Running, Idle, NoRow, NoConfig,
   Absent

\* The identity row and the key file of every machine agree, and a legacy row
\* keeps its configuration: set-up and repair may fail, overlap or be killed
\* between any two of their steps.
THEOREM IdentityKeepsItsKey ==
    SetupSpec => []KeyMatchesRow
<1> DEFINE Inv == SetupTypes /\ IdentityInv
<1>1. SetupInit => Inv
  BY SetupTypesInit, IdentityInit
<1>2. Inv /\ [SetupNext]_setupVars => Inv'
  BY SetupTypesStep, IdentityStep
<1>3. Inv => KeyMatchesRow
  BY DEF IdentityInv
<1> QED
  BY <1>1, <1>2, <1>3, PTL DEF SetupSpec

\* A configuration of this format has its row, and there is none during a repair.
ConfigInv ==
    \A m \in Machines : config[m].is = "current" => row[m].ref = "file" /\ node[m].run # "repair"

LEMMA ConfigStep ==
    ASSUME SetupTypes, IdentityInv, ConfigInv, [SetupNext]_setupVars
    PROVE  ConfigInv'
<1> USE SetupAssumption
<1>1. CASE UNCHANGED <<config, row>> /\ \A m \in Machines : node'[m].run = "repair" => node[m].run = "repair"
  BY <1>1 DEF ConfigInv
<1>2. CASE ServerStep
  BY <1>1, <1>2 DEF ServerStep, RotateBootstrap, RetryWindowEnds, UpdateAdmission, IssueNodeInvitation,
     CancelNodeInvitation, NodeInvitationExpires, ReissueNodeInvitation, ServeLate, files
<1>3. ASSUME NEW j \in Jobs, SubmissionStep(j) PROVE ConfigInv'
  <2> DEFINE m == JobOf[j]
  <2>0. /\ m \in Machines /\ config \in [Machines -> SavedConfigs] /\ row \in [Machines -> IdentityRows]
        /\ node \in [Machines -> Processes]
    BY DEF SetupTypes, MachineTypes
  <2>1. CASE Save(j) \/ SaveFailsLate(j)
    <3>1. /\ UNCHANGED row /\ row[m].ref = "file" /\ node[m].run = "up"
          /\ \A q \in Machines : node'[q].run = node[q].run /\ (q # m => config'[q] = config[q])
      BY <2>0, <2>1 DEF Save, SaveFailsLate, At, Up, IdentityInv, JobsPlaced, Processes
    <3> QED
      BY <2>0, <3>1 DEF ConfigInv
  <2>2. CASE EnsureCommit(j) \/ Bind(j)
    <3>1. UNCHANGED <<config, node>> /\ \A q \in Machines : row[q].ref = "file" => row'[q].ref = "file"
      <4>1. CASE EnsureCommit(j)
        BY <2>0, <4>1 DEF EnsureCommit, NoRow
      <4>2. CASE Bind(j)
        BY <2>0, <4>2 DEF Bind, IdentityRows
      <4> QED
        BY <2>2, <4>1, <4>2
    <3> QED
      BY <3>1 DEF ConfigInv
  <2>3. CASE ~(Save(j) \/ SaveFailsLate(j) \/ EnsureCommit(j) \/ Bind(j))
    <3>1. UNCHANGED <<config, row, node>>
      BY <1>3, <2>3 DEF SubmissionStep, Begin, WriteCA, EnsureExisting, EnsurePut, EnsureFails, CallBootstrap,
         CallInvitation, Answered, Abandon, CheckConfig, Refused, SubmissionFails, files
    <3> QED
      BY <1>1, <3>1
  <2> QED
    BY <2>1, <2>2, <2>3
<1>4. ASSUME NEW m \in Machines, MachineStep(m) PROVE ConfigInv'
  <2>0. /\ config \in [Machines -> SavedConfigs] /\ row \in [Machines -> IdentityRows]
        /\ node \in [Machines -> Processes] /\ NoConfig.is # "current"
    BY DEF SetupTypes, MachineTypes, NoConfig, Absent
  <2>1. CASE (\E force \in BOOLEAN : StartNode(m, force)) \/ Kill(m) \/ RepairDone(m) \/ RepairKilled(m)
    BY <1>1, <2>0, <2>1 DEF StartNode, Kill, RepairDone, RepairKilled, files
  <2>2. CASE BeginRepair(m)
    BY <2>0, <2>2 DEF BeginRepair, ConfigInv, files
  <2>3. CASE MoveFile(m)
    <3>1. /\ node[m].run = "repair" /\ UNCHANGED node /\ config'[m] \in {config[m], NoConfig}
          /\ \A q \in Machines : q # m => config'[q] = config[q] /\ row'[q] = row[q]
      BY <2>0, <2>3 DEF MoveFile
    <3> QED
      BY <2>0, <3>1 DEF ConfigInv
  <2>4. CASE RepairFails(m)
    <3>1. /\ node[m].run = "repair" /\ config'[m].is = "legacy"
          /\ \A q \in Machines : q # m => config'[q] = config[q] /\ row'[q] = row[q] /\ node'[q] = node[q]
      <4>1. \A q \in Machines : q # m => config'[q] = config[q] /\ row'[q] = row[q] /\ node'[q] = node[q]
        BY <2>0, <2>4 DEF RepairFails
      <4>2. /\ node[m].run = "repair" /\ moved[m].n \in 0 .. 3
            /\ config' = IF moved[m].n >= 1 THEN [config EXCEPT ![m] = moved[m].kept.config] ELSE config
        BY <2>4, RepairFailsCases
      <4>3. config'[m].is = "legacy"
        BY <2>0, <4>2 DEF IdentityInv, RepairPlaced
      <4> QED
        BY <4>1, <4>2, <4>3
    <3> QED
      BY <2>0, <3>1 DEF ConfigInv
  <2> QED
    BY <1>4, <2>1, <2>2, <2>3, <2>4 DEF MachineStep
<1> QED
  BY <1>1, <1>2, <1>3, <1>4 DEF SetupNext, setupVars, files

\* A saved configuration has the identity the Node starts with: the row is in
\* place before a submission can reach its save, and a repair takes the
\* configuration away first.
THEOREM SavedNodesHaveIdentity ==
    SetupSpec => []ConfigHasIdentity
<1> DEFINE Inv == SetupTypes /\ IdentityInv /\ ConfigInv
<1>1. SetupInit => Inv
  BY SetupTypesInit, IdentityInit DEF SetupInit, ConfigInv, NoConfig, Absent
<1>2. Inv /\ [SetupNext]_setupVars => Inv'
  BY SetupTypesStep, IdentityStep, ConfigStep
<1>3. Inv => ConfigHasIdentity
  BY DEF IdentityInv, KeyMatchesRow, ConfigInv, ConfigHasIdentity
<1> QED
  BY <1>1, <1>2, <1>3, PTL DEF SetupSpec

-----------------------------------------------------------------------------
(* Bindings *)

\* Rows of nodes are only added, and the owner never changes.
NodesGrow ==
    /\ DOMAIN nodes \subseteq DOMAIN nodes'
    /\ \A n \in DOMAIN nodes : nodes'[n] = nodes[n]
    /\ owner # 0 => owner' = owner

\* A claim is answered with the row of the key that claimed.
LEMMA ClaimBinds ==
    ASSUME SetupTypes, AdmissionInv, NEW k \in SetupKeys, NEW method \in Methods, NEW answer \in Nat,
           Claim(k, method, answer)
    PROVE  /\ AdmissionInv' /\ NodesGrow
           /\ answer # 0 => answer \in DOMAIN nodes' /\ nodes'[answer].key = k
<1>0. /\ nodes \in Seq([key : SetupKeys, via : Methods]) /\ boot \in BootRows /\ owner \in Nat
      /\ invite \in [Invites -> {Absent, "pending", "used", "cancelled", "expired"}]
  BY DEF SetupTypes, ServerTypes
<1> DEFINE n == Len(nodes) + 1
<1>1. ASSUME nodes' = Append(nodes, [key |-> k, via |-> method])
      PROVE  /\ DOMAIN nodes' = 1 .. n /\ DOMAIN nodes = 1 .. Len(nodes) /\ Len(nodes) \in Nat
             /\ \A i \in 1 .. Len(nodes) : nodes'[i] = nodes[i]
             /\ nodes'[n].key = k
  BY <1>0, <1>1
<1>2. CASE UNCHANGED <<owner, nodes, invite>> /\ (boot'.retry => boot' = boot) /\ answer = 0
  BY <1>0, <1>2 DEF AdmissionInv, NodesGrow
<1>3. CASE method \in Bootstraps /\ ClaimBootstrap(k, method, answer)
  <2>1. CASE boot.status = "completed"
    <3>1. /\ UNCHANGED <<owner, nodes, invite>> /\ (boot'.retry => boot' = boot)
          /\ answer # 0 => boot.retry /\ boot.digest = k /\ answer = boot.node
      BY <1>0, <1>3, <2>1 DEF ClaimBootstrap, Replays, BootRows
    <3> QED
      BY <1>0, <3>1 DEF AdmissionInv, NodesGrow
  <2>2. CASE boot.status # "completed" /\ answer = 0 /\ UNCHANGED server
    BY <1>2, <2>2 DEF server
  <2>3. CASE /\ owner = 0 /\ answer = n /\ owner' = answer /\ Admit(k, method)
             /\ boot' = [boot EXCEPT !.status = "completed", !.digest = k, !.node = answer, !.retry = TRUE]
             /\ UNCHANGED <<invite, admission>>
    <3>1. boot'.node = n /\ boot'.digest = k
      BY <1>0, <2>3 DEF BootRows
    <3>2. nodes' = Append(nodes, [key |-> k, via |-> method])
      BY <2>3 DEF Admit
    <3> QED
      BY <1>0, <1>1, <2>3, <3>1, <3>2 DEF AdmissionInv, NodesGrow
  <2> QED
    BY <1>3, <2>1, <2>2, <2>3 DEF ClaimBootstrap
<1>4. CASE method \in Invitations /\ ClaimNodeInvitation(k, method, answer)
  <2> DEFINE i == method.with
             initial == i \in InitialInvites
  <2>0. i \in Invites
    BY <1>4 DEF Invitations
  <2>1. CASE answer = 0 /\ UNCHANGED server
    BY <1>2, <2>1 DEF server
  <2>2. CASE /\ invite[i] = "pending" /\ (initial => owner = 0)
             /\ answer = n /\ Admit(k, method)
             /\ owner' = IF initial THEN answer ELSE owner
             /\ boot' = IF initial THEN Completed(answer) ELSE boot
             /\ invite' = [invite EXCEPT ![i] = "used"]
    <3>1. nodes' = Append(nodes, [key |-> k, via |-> method])
      BY <2>2 DEF Admit
    <3>2. boot'.retry => boot' = boot
      BY <1>0, <2>2 DEF BootRows, Completed
    <3>3. ~initial => owner # 0
      BY <2>0, <2>2 DEF AdmissionInv, Absent
    <3>4. owner' # 0 /\ (owner # 0 => owner' = owner)
      BY <1>1, <2>2, <3>1, <3>3
    <3>5. NodesGrow
      BY <1>1, <3>1, <3>4 DEF NodesGrow
    <3>6. AdmissionInv'
      BY <1>0, <1>1, <2>2, <3>1, <3>2, <3>4 DEF AdmissionInv
    <3> QED
      BY <1>1, <2>2, <3>1, <3>5, <3>6
  <2> QED
    BY <1>4, <2>1, <2>2 DEF ClaimNodeInvitation
<1> QED
  BY <1>3, <1>4 DEF Claim

\* What was bound to its own row stays so.
LEMMA OwnRowStays ==
    ASSUME AdmissionInv, NodesGrow, NEW r, OwnRow(r)
    PROVE  r.node # 0 => r.node \in DOMAIN nodes' /\ nodes'[r.node].key = r.key /\ r.owner = owner'
<1>1. r.node # 0 => owner # 0
  BY DEF AdmissionInv, OwnRow
<1> QED
  BY <1>1 DEF OwnRow, NodesGrow

\* The Server moves on and the machines do not.
LEMMA ServerBinds ==
    ASSUME SetupTypes, BindingInv, NodesGrow, AdmissionInv', UNCHANGED <<row, moved>>,
           \A j \in Jobs : job'[j].pc = "answered" /\ job'[j].answer # 0 =>
              \/ job'[j] = job[j]
              \/ job'[j].answer \in DOMAIN nodes' /\ nodes'[job'[j].answer].key = row[JobOf[j]].key
    PROVE  BindingInv'
<1>1. \A m \in Machines : OwnRow(row[m])' /\ OwnRow(moved[m].kept.row)'
  <2> SUFFICES ASSUME NEW m \in Machines PROVE OwnRow(row[m])' /\ OwnRow(moved[m].kept.row)'
    OBVIOUS
  <2>1. OwnRow(row[m]) /\ OwnRow(moved[m].kept.row)
    BY DEF BindingInv
  <2> QED
    BY <2>1, OwnRowStays DEF BindingInv, OwnRow
<1>2. \A j \in Jobs : job'[j].pc = "answered" /\ job'[j].answer # 0 =>
          job'[j].answer \in DOMAIN nodes' /\ nodes'[job'[j].answer].key = row'[JobOf[j]].key
  BY DEF BindingInv, NodesGrow
<1> QED
  BY <1>1, <1>2 DEF BindingInv

LEMMA ServerStepBinds ==
    ASSUME SetupTypes, AdmissionInv, ServerStep
    PROVE  AdmissionInv' /\ NodesGrow /\ UNCHANGED <<row, moved, job>>
<1>0. boot \in BootRows /\ invite \in [Invites -> {Absent, "pending", "used", "cancelled", "expired"}]
  BY DEF SetupTypes, ServerTypes
<1>1. CASE \E c \in late : ServeLate(c)
  <2>1. PICK c \in late : ServeLate(c)
    BY <1>1
  <2>2. PICK answer \in 0 .. MaxNodes : Claim(c.key, c.method, answer)
    BY <2>1 DEF ServeLate
  <2>3. c.key \in SetupKeys /\ c.method \in Methods
    BY DEF SetupTypes, JobTypes
  <2> QED
    BY <2>1, <2>2, <2>3, ClaimBinds, SetupAssumption DEF ServeLate, files
<1>2. CASE RotateBootstrap \/ RetryWindowEnds
  <2>1. boot'.retry => boot' = boot
    <3>1. /\ ~[boot EXCEPT !.retry = FALSE].retry
          /\ [boot EXCEPT !.secret = 0, !.digest = NoKey].retry = boot.retry
      BY <1>0 DEF BootRows
    <3>2. CASE RotateBootstrap
      BY <3>1, <3>2 DEF RotateBootstrap
    <3> QED
      BY <1>2, <3>1, <3>2 DEF RetryWindowEnds
  <2>2. UNCHANGED <<owner, nodes, invite, row, moved, job>>
    BY <1>2 DEF RotateBootstrap, RetryWindowEnds, files
  <2> QED
    BY <2>1, <2>2 DEF AdmissionInv, NodesGrow
<1>3. CASE UpdateAdmission
  BY <1>3 DEF UpdateAdmission, AdmissionInv, NodesGrow, files
<1>4. CASE \E i \in Invites : IssueNodeInvitation(i) \/ CancelNodeInvitation(i) \/ NodeInvitationExpires(i)
  <2>1. PICK i \in Invites : IssueNodeInvitation(i) \/ CancelNodeInvitation(i) \/ NodeInvitationExpires(i)
    BY <1>4
  <2>2. UNCHANGED <<owner, nodes, boot, row, moved, job>>
    BY <2>1 DEF IssueNodeInvitation, CancelNodeInvitation, NodeInvitationExpires, files
  <2>3. \A q \in Invites : q # i => invite'[q] = invite[q]
    BY <1>0, <2>1 DEF IssueNodeInvitation, CancelNodeInvitation, NodeInvitationExpires
  <2>4. owner # 0 \/ invite[i] # Absent
    BY <2>1 DEF IssueNodeInvitation, CancelNodeInvitation, NodeInvitationExpires, Issuable, Absent
  <2> QED
    BY <2>2, <2>3, <2>4 DEF AdmissionInv, NodesGrow
<1>5. CASE \E i, new \in Invites : ReissueNodeInvitation(i, new)
  <2>1. owner # 0 /\ UNCHANGED <<owner, nodes, boot, row, moved, job>>
    BY <1>5 DEF ReissueNodeInvitation, Issuable, files
  <2> QED
    BY <2>1 DEF AdmissionInv, NodesGrow
<1> QED
  BY <1>1, <1>2, <1>3, <1>4, <1>5 DEF ServerStep

LEMMA SubmissionBinds ==
    ASSUME SetupTypes, IdentityInv, BindingInv, NEW j \in Jobs, SubmissionStep(j)
    PROVE  BindingInv'
<1> DEFINE m == JobOf[j]
<1> USE SetupAssumption
<1>0. /\ m \in Machines /\ job[j] \in SetupJobs /\ row[m] \in IdentityRows
      /\ Idle.pc = "idle" /\ JobsPlaced!(j) /\ job \in [Jobs -> SetupJobs] /\ row \in [Machines -> IdentityRows]
      /\ \A o \in Jobs : JobOf[o] \in Machines
  BY DEF SetupTypes, MachineTypes, JobTypes, Idle, IdentityInv, JobsPlaced
<1>1. CASE /\ UNCHANGED <<server, row, moved>>
           /\ \A o \in Jobs : o # j => job'[o] = job[o]
           /\ job'[j].pc # "answered"
  <2>1. AdmissionInv' /\ NodesGrow
    BY <1>1 DEF BindingInv, AdmissionInv, NodesGrow, server
  <2> QED
    BY <1>1, <2>1, ServerBinds
<1>a. CASE \/ \E method \in Methods : Begin(j, method)
           \/ WriteCA(j) \/ EnsureExisting(j) \/ EnsurePut(j) \/ EnsureFails(j)
           \/ Abandon(j) \/ CheckConfig(j) \/ Save(j) \/ SaveFailsLate(j)
           \/ Refused(j) \/ SubmissionFails(j)
  <2>1. UNCHANGED <<server, row, moved>>
    BY <1>a DEF Begin, WriteCA, EnsureExisting, EnsurePut, EnsureFails, Abandon, CheckConfig, Save, Refused,
       SaveFailsLate, SubmissionFails, files
  <2>2. \A o \in Jobs : o # j => job'[o] = job[o]
    BY <1>0, <1>a DEF Begin, WriteCA, EnsureExisting, EnsurePut, EnsureFails, Abandon, CheckConfig, Save, Refused,
       SaveFailsLate, SubmissionFails, Fail, CleanUp
  <2>3. job'[j].pc # "answered"
    <3>1. CASE \E method \in Methods : Begin(j, method)
      BY <1>0, <3>1 DEF Begin, Idle
    <3>2. CASE WriteCA(j)
      BY <1>0, <3>2 DEF WriteCA, SetupJobs
    <3>3. CASE EnsureExisting(j) \/ EnsurePut(j)
      BY <1>0, <3>3 DEF EnsureExisting, EnsurePut, SetupJobs, AfterIdentity
    <3>4. CASE CheckConfig(j) \/ Save(j)
      BY <1>0, <3>4 DEF CheckConfig, Save, SetupJobs
    <3>5. CASE EnsureFails(j) \/ Abandon(j) \/ Refused(j) \/ SubmissionFails(j) \/ SaveFailsLate(j)
      BY <1>0, <3>5 DEF EnsureFails, Abandon, Refused, SubmissionFails, SaveFailsLate, Fail, CleanUp
    <3> QED
      BY <1>a, <3>1, <3>2, <3>3, <3>4, <3>5
  <2> QED
    BY <1>1, <2>1, <2>2, <2>3
<1>b. CASE EnsureCommit(j)
  <2>1. /\ UNCHANGED <<server, moved>> /\ job[j].pc = "commit" /\ row[m].ref = Absent
        /\ row'[m].node = 0
        /\ \A q \in Machines : q # m => row'[q] = row[q]
        /\ \A o \in Jobs : o # j => job'[o] = job[o]
    BY <1>0, <1>b DEF EnsureCommit, At, NoRow
  <2>2. job'[j].pc # "answered"
    BY <1>0, <1>b DEF EnsureCommit, SetupJobs, AfterIdentity
  <2>3. AdmissionInv'
    BY <2>1 DEF BindingInv, AdmissionInv, server
  <2>4. \A o \in Jobs : job[o].pc = "answered" => JobOf[o] # m
    BY <2>1 DEF IdentityInv, JobsPlaced, Absent
  <2>5. \A o \in Jobs : job'[o].pc = "answered" /\ job'[o].answer # 0 =>
          job'[o].answer \in DOMAIN nodes' /\ nodes'[job'[o].answer].key = row'[JobOf[o]].key
    BY <1>0, <2>1, <2>2, <2>4 DEF BindingInv, server
  <2>6. \A q \in Machines : OwnRow(row[q])' /\ OwnRow(moved[q].kept.row)'
    BY <2>1 DEF BindingInv, OwnRow, server
  <2> QED
    BY <2>3, <2>5, <2>6 DEF BindingInv
<1>c. CASE At(j, "claim") /\ Answered(j)
  <2>1. PICK answer \in 0 .. MaxNodes :
          /\ Claim(row[m].key, job[j].method, answer)
          /\ job' = [job EXCEPT ![j].pc = "answered", ![j].answer = answer, ![j].method = Joining]
    BY <1>c DEF Answered
  <2>2. row[m].key \in SetupKeys /\ job[j].method \in Methods /\ answer \in Nat
    BY <1>0 DEF IdentityRows, SetupJobs
  <2>3. /\ AdmissionInv' /\ NodesGrow
        /\ answer # 0 => answer \in DOMAIN nodes' /\ nodes'[answer].key = row[m].key
    BY <2>1, <2>2, ClaimBinds DEF BindingInv
  <2>4. job'[j].answer = answer /\ \A o \in Jobs : o # j => job'[o] = job[o]
    BY <1>0, <2>1 DEF SetupJobs
  <2>5. UNCHANGED <<row, moved>>
    BY <1>c DEF Answered, files
  <2> QED
    BY <2>3, <2>4, <2>5, ServerBinds
<1>d. CASE Bind(j)
  <2> DEFINE n == job[j].answer
  <2>1. /\ UNCHANGED <<server, moved>> /\ job[j].pc = "answered" /\ n # 0
        /\ row'[m].node = n /\ row'[m].owner = owner /\ row'[m].key = row[m].key
        /\ \A q \in Machines : q # m => row'[q] = row[q]
        /\ \A o \in Jobs : o # j => job'[o] = job[o]
    BY <1>0, <1>d DEF Bind, At, IdentityRows
  <2>2. job'[j].pc # "answered"
    BY <1>0, <1>d DEF Bind, SetupJobs
  <2>3. AdmissionInv'
    BY <2>1 DEF BindingInv, AdmissionInv, server
  <2>4. n \in DOMAIN nodes /\ nodes[n].key = row[m].key
    BY <2>1 DEF BindingInv
  <2>5. \A o \in Jobs : job'[o].pc = "answered" /\ job'[o].answer # 0 =>
          job'[o].answer \in DOMAIN nodes' /\ nodes'[job'[o].answer].key = row'[JobOf[o]].key
    BY <1>0, <2>1, <2>2 DEF BindingInv, server
  <2>6. \A q \in Machines : OwnRow(row[q])' /\ OwnRow(moved[q].kept.row)'
    BY <2>1, <2>4 DEF BindingInv, OwnRow, server
  <2> QED
    BY <2>3, <2>5, <2>6 DEF BindingInv
<1> QED
  BY <1>a, <1>b, <1>c, <1>d DEF SubmissionStep, CallBootstrap, CallInvitation

LEMMA MachineBinds ==
    ASSUME SetupTypes, IdentityInv, BindingInv, NEW m \in Machines, MachineStep(m)
    PROVE  BindingInv'
<1> USE SetupAssumption
<1>0. /\ moved \in [Machines -> FileMoves] /\ row \in [Machines -> IdentityRows]
      /\ moved[m].kept \in BackUps /\ NoRow.node = 0 /\ NothingMoved.row = NoRow /\ Idle.pc = "idle"
      /\ \A o \in Jobs : JobOf[o] \in Machines
  BY DEF SetupTypes, MachineTypes, FileMoves, NoRow, NothingMoved, Idle
<1>1. UNCHANGED server
  BY DEF MachineStep, StartNode, Kill, BeginRepair, MoveFile, RepairFails, RepairDone, RepairKilled
<1>2. AdmissionInv'
  BY <1>1 DEF BindingInv, AdmissionInv, server
<1>3. OwnRow(NoRow)' /\ OwnRow(row[m]) /\ OwnRow(moved[m].kept.row)
  BY <1>0 DEF BindingInv, OwnRow
<1>4. \A o \in Jobs : job'[o] = job[o] \/ job'[o].pc = "idle"
  BY <1>0 DEF MachineStep, StartNode, Kill, BeginRepair, MoveFile, RepairFails, RepairDone, RepairKilled
<1>5. \A q \in Machines : q # m => row'[q] = row[q] /\ moved'[q] = moved[q]
  BY <1>0 DEF MachineStep, StartNode, Kill, BeginRepair, MoveFile, RepairFails, RepairDone, RepairKilled, files
<1>6. (Up(m) \/ node[m].run = "down") => UNCHANGED row
  BY DEF MachineStep, StartNode, Kill, BeginRepair, MoveFile, RepairFails, RepairDone, RepairKilled, files, Up
<1>7. \A o \in Jobs : job'[o].pc = "answered" => job'[o] = job[o] /\ row'[JobOf[o]] = row[JobOf[o]]
  BY <1>0, <1>4, <1>5, <1>6, DownIsIdle DEF Up
<1>8. row'[m] \in {row[m], NoRow, moved[m].kept.row}
  <2>1. CASE MoveFile(m)
    BY <1>0, <2>1, MoveFileCases
  <2>2. CASE RepairFails(m)
    BY <1>0, <2>2, RepairFailsCases
  <2> QED
    BY <1>0, <2>1, <2>2 DEF MachineStep, StartNode, Kill, BeginRepair, RepairDone, RepairKilled, files
<1>9. moved'[m].kept.row \in {row[m], NoRow, moved[m].kept.row}
  <2>1. CASE MoveFile(m)
    <3>1. CASE moved[m].n = 0
      BY <1>0, <2>1, <3>1, MoveFileCases DEF BackUps, FileMoves
    <3>2. CASE moved[m].n = 1
      BY <1>0, <2>1, <3>2, MoveFileCases DEF BackUps, FileMoves
    <3>3. CASE moved[m].n = 2
      BY <1>0, <2>1, <3>3, MoveFileCases DEF BackUps, FileMoves
    <3>4. CASE moved[m].n = 3
      BY <1>0, <2>1, <3>4, MoveFileCases DEF BackUps, FileMoves
    <3> QED
      BY <2>1, <3>1, <3>2, <3>3, <3>4, MoveFileCases
  <2>2. CASE RepairFails(m) \/ BeginRepair(m)
    BY <1>0, <2>2 DEF RepairFails, BeginRepair
  <2> QED
    BY <1>0, <2>1, <2>2 DEF MachineStep, StartNode, Kill, RepairDone, RepairKilled
<1>10. \A q \in Machines : OwnRow(row[q])' /\ OwnRow(moved[q].kept.row)'
  <2>1. \A r : OwnRow(r) => (r.node # 0 => r.node \in DOMAIN nodes' /\ nodes'[r.node].key = r.key /\ r.owner = owner')
    BY <1>1 DEF OwnRow, server
  <2>2. OwnRow(NoRow)
    BY <1>0 DEF OwnRow
  <2>3. \A q \in Machines : OwnRow(row[q]) /\ OwnRow(moved[q].kept.row)
    BY DEF BindingInv
  <2>4. \A q \in Machines : \E r, t : /\ OwnRow(r) /\ OwnRow(t)
                                      /\ row'[q] = r /\ moved'[q].kept.row = t
    BY <1>3, <1>5, <1>8, <1>9, <2>2, <2>3
  <2> QED
    BY <2>1, <2>4 DEF OwnRow
<1> QED
  BY <1>1, <1>2, <1>7, <1>10 DEF BindingInv, server

LEMMA BindingStep ==
    ASSUME SetupTypes, IdentityInv, BindingInv, [SetupNext]_setupVars
    PROVE  BindingInv'
<1>1. CASE UNCHANGED setupVars
  BY <1>1 DEF BindingInv, AdmissionInv, OwnRow, setupVars, server, files
<1>2. CASE ServerStep
  BY <1>2, ServerStepBinds, ServerBinds DEF BindingInv
<1> QED
  BY <1>1, <1>2, SubmissionBinds, MachineBinds DEF SetupNext

LEMMA BindingInit ==
    SetupInit => BindingInv
BY SetupAssumption DEF SetupInit, BindingInv, AdmissionInv, OwnRow, Idle, NoRow, NothingMoved

\* A machine is bound to the row that holds its own key, under the one owner,
\* for any number of machines, secrets and invitations, and any claims that are
\* repeated, abandoned or carried out late.
THEOREM BindingIsOwn ==
    SetupSpec => []BoundToOwnRow
<1> DEFINE Inv == SetupTypes /\ IdentityInv /\ BindingInv
<1>1. SetupInit => Inv
  BY SetupTypesInit, IdentityInit, BindingInit
<1>2. Inv /\ [SetupNext]_setupVars => Inv'
  BY SetupTypesStep, IdentityStep, BindingStep
<1>3. Inv => BoundToOwnRow
  BY DEF BindingInv, BoundToOwnRow, OwnRow
<1> QED
  BY <1>1, <1>2, <1>3, PTL DEF SetupSpec

-----------------------------------------------------------------------------
(* The relay's CA *)

\* A machine nothing happens on.
LEMMA ElsewhereCA ==
    ASSUME NEW q \in Machines, MachineCA(q),
           config'[q] = config[q], ca'[q] = ca[q], node'[q].run = node[q].run, moved'[q] = moved[q],
           q \in Mishap => q \in Mishap',
           \A o \in Jobs : JobOf[o] = q => job'[o] = job[o]
    PROVE  MachineCA(q)'
<1>1. RepairHasNoCA(q)'
  BY DEF MachineCA, RepairHasNoCA
<1>2. ASSUME q \notin Mishap' PROVE OneSubmission(q)'
  BY <1>2 DEF MachineCA, OneSubmission, Running
<1>3. ASSUME q \notin Mishap' PROVE SubmissionCA(q)'
  BY <1>3 DEF MachineCA, SubmissionCA, Running, Suits
<1> QED
  BY <1>1, <1>2, <1>3 DEF MachineCA

\* What a submission does on its machine suffices.
LEMMA HereCA ==
    ASSUME SetupTypes, CAInv, NEW j \in Jobs,
           \A q \in Machines : q # JobOf[j] =>
              /\ config'[q] = config[q] /\ ca'[q] = ca[q] /\ (q \in Mishap => q \in Mishap'),
           \A q \in Machines : node'[q].run = node[q].run,
           UNCHANGED moved,
           \A o \in Jobs : o # j => job'[o] = job[o],
           MachineCA(JobOf[j])'
    PROVE  CAInv'
BY ElsewhereCA DEF CAInv

LEMMA SubmissionKeepsCA ==
    ASSUME SetupTypes, IdentityInv, CAInv, NEW j \in Jobs, SubmissionStep(j)
    PROVE  CAInv'
<1> DEFINE m == JobOf[j]
<1> USE SetupAssumption DEF Mishap
<1>0. /\ m \in Machines /\ job[j] \in SetupJobs /\ job \in [Jobs -> SetupJobs] /\ ca \in [Machines -> Jobs \cup {Absent}]
      /\ config \in [Machines -> SavedConfigs] /\ node \in [Machines -> Processes]
      /\ Idle.pc = "idle" /\ MachineCA(m) /\ RepairHasNoCA(m)
  BY DEF SetupTypes, MachineTypes, JobTypes, Idle, CAInv, MachineCA
<1>1. UNCHANGED moved /\ Mishap \subseteq Mishap' /\ \A q \in Machines : node'[q].run = node[q].run
  <2>1. CASE Save(j)
    BY <1>0, <2>1 DEF Save, Processes
  <2> QED
    BY <2>1 DEF SubmissionStep, Begin, WriteCA, EnsureExisting, EnsurePut, EnsureCommit, EnsureFails, CallBootstrap,
       CallInvitation, Answered, Abandon, Bind, CheckConfig, Refused, SubmissionFails, SaveFailsLate, Fail
<1>2. \A o \in Jobs : o # j => job'[o] = job[o]
  BY <1>0 DEF SubmissionStep, Begin, WriteCA, EnsureExisting, EnsurePut, EnsureCommit, EnsureFails, CallBootstrap,
     CallInvitation, Answered, Abandon, Bind, CheckConfig, Save, Refused, SubmissionFails, Fail,
     SaveFailsLate, CleanUp
<1>3. \A q \in Machines : q # m => config'[q] = config[q] /\ ca'[q] = ca[q]
  BY <1>0 DEF SubmissionStep, Begin, WriteCA, EnsureExisting, EnsurePut, EnsureCommit, EnsureFails, CallBootstrap,
     CallInvitation, Answered, Abandon, Bind, CheckConfig, Save, Refused, SubmissionFails, Fail,
     SaveFailsLate, CleanUp, files
<1>4. SUFFICES MachineCA(m)'
  BY <1>0, <1>1, <1>2, <1>3, HereCA
<1>5. CASE config'[m] = config[m] /\ m \in Mishap'
  BY <1>0, <1>1, <1>5 DEF MachineCA, RepairHasNoCA
<1>6. CASE Fail(j) /\ Running(j) /\ UNCHANGED <<config, torn>>
  <2>1. SUFFICES ASSUME m \notin Mishap' PROVE MachineCA(m)'
    BY <1>5, <1>6
  <2>2. OneSubmission(m) /\ SubmissionCA(m)
    BY <1>0, <1>1, <2>1 DEF MachineCA
  <2>3. \A o \in Jobs : JobOf[o] = m => job'[o].pc = "idle"
    BY <1>0, <1>2, <1>6, <2>2 DEF Fail, CleanUp, OneSubmission, Running
  <2>4. ca'[m] = IF job[j].wrote THEN job[j].previous ELSE ca[m]
    BY <1>0, <1>6, <2>1 DEF Fail, Restored
  <2>5. Suits(m, ca[m])'
    BY <1>6, <2>2, <2>4 DEF SubmissionCA, Suits
  <2> QED
    BY <1>0, <1>1, <1>6, <2>3, <2>5 DEF MachineCA, RepairHasNoCA, OneSubmission, SubmissionCA, Running
<1>7. CASE /\ Running(j) /\ UNCHANGED <<config, Mishap, ca>>
           /\ job'[j].pc \notin {"idle", "ca"} /\ job'[j].wrote = job[j].wrote /\ job'[j].previous = job[j].previous
  <2>1. SUFFICES ASSUME m \notin Mishap PROVE MachineCA(m)'
    BY <1>5, <1>7
  <2>2. OneSubmission(m) /\ SubmissionCA(m)
    BY <1>0, <2>1 DEF MachineCA
  <2>3. OneSubmission(m)'
    BY <1>2, <1>7, <2>2 DEF OneSubmission, Running
  <2>4. SubmissionCA(m)'
    BY <1>2, <1>7, <2>2 DEF SubmissionCA, OneSubmission, Running, Suits
  <2> QED
    BY <1>0, <1>1, <1>7, <2>3, <2>4 DEF MachineCA, RepairHasNoCA
<1>a. CASE \E method \in Methods : Begin(j, method)
  <2>1. PICK method \in Methods : Begin(j, method)
    BY <1>a
  <2>2. /\ job'[j].pc = "ca" /\ ~job'[j].wrote /\ job'[j].previous = ca[m] /\ UNCHANGED <<config, ca>>
        /\ ~Running(j)
    BY <1>0, <2>1 DEF Begin, Idle, Selectable, files
  <2>3. SUFFICES ASSUME m \notin Mishap' PROVE MachineCA(m)'
    BY <1>5, <2>2
  <2>4. Others(j) = {} /\ Mishap' = Mishap
    BY <2>1, <2>3 DEF Begin
  <2>5. \A o \in Jobs : JobOf[o] = m => ~Running(o)
    BY <2>2, <2>4 DEF Others
  <2>6. OneSubmission(m) /\ SubmissionCA(m)
    BY <1>0, <2>3, <2>4 DEF MachineCA
  <2>7. OneSubmission(m)'
    BY <1>2, <2>5 DEF OneSubmission, Running
  <2>8. SubmissionCA(m)'
    BY <1>2, <2>2, <2>5, <2>6 DEF SubmissionCA, Running, Suits
  <2> QED
    BY <1>0, <1>1, <2>2, <2>7, <2>8 DEF MachineCA, RepairHasNoCA
<1>b. CASE WriteCA(j)
  <2>1. /\ job[j].pc = "ca" /\ Running(j) /\ UNCHANGED <<config, Mishap>>
        /\ ca'[m] = IF j \in Bundles THEN j ELSE ca[m]
    BY <1>0, <1>b DEF WriteCA, At, Running
  <2>2. /\ job'[j].pc = "identity" /\ job'[j].wrote = (j \in Bundles)
        /\ job'[j].previous = IF j \in Bundles THEN job[j].previous ELSE Absent
    BY <1>0, <1>b DEF WriteCA, SetupJobs
  <2>3. SUFFICES ASSUME m \notin Mishap PROVE MachineCA(m)'
    BY <1>5, <2>1
  <2>4. OneSubmission(m) /\ SubmissionCA(m)
    BY <1>0, <2>3 DEF MachineCA
  <2>5. OneSubmission(m)'
    BY <1>2, <2>1, <2>4 DEF OneSubmission, Running
  <2>6. SubmissionCA(m)'
    BY <1>2, <2>1, <2>2, <2>4 DEF SubmissionCA, OneSubmission, Running, Suits
  <2> QED
    BY <1>0, <1>1, <2>1, <2>5, <2>6 DEF MachineCA, RepairHasNoCA
<1>c. CASE EnsureExisting(j)
  BY <1>0, <1>7, <1>c DEF EnsureExisting, At, Running, SetupJobs, AfterIdentity, files
<1>d. CASE EnsurePut(j)
  BY <1>0, <1>7, <1>d DEF EnsurePut, At, Running, SetupJobs
<1>e. CASE EnsureCommit(j)
  BY <1>0, <1>7, <1>e DEF EnsureCommit, At, Running, SetupJobs, AfterIdentity
<1>f. CASE At(j, "claim") /\ Answered(j)
  BY <1>0, <1>7, <1>f DEF Answered, At, Running, SetupJobs, files
<1>g. CASE Bind(j)
  BY <1>0, <1>7, <1>g DEF Bind, At, Running, SetupJobs
<1>h. CASE CheckConfig(j)
  BY <1>0, <1>7, <1>h DEF CheckConfig, At, Running, SetupJobs, files
<1>i. CASE Save(j)
  <2>1. /\ job[j].pc = "save" /\ Running(j) /\ Up(m) /\ UNCHANGED <<ca, Mishap>> /\ job'[j].pc = "idle"
        /\ config'[m] = [is |-> "current", ca |-> IF job[j].wrote THEN j ELSE Absent]
    BY <1>0, <1>i DEF Save, Saved, At, Running
  <2>2. RepairHasNoCA(m)'
    BY <1>0, <1>1, <2>1 DEF RepairHasNoCA, Up
  <2>3. SUFFICES ASSUME m \notin Mishap PROVE OneSubmission(m)' /\ SubmissionCA(m)'
    BY <2>1, <2>2 DEF MachineCA
  <2>4. OneSubmission(m) /\ SubmissionCA(m)
    BY <1>0, <2>3 DEF MachineCA
  <2>5. \A o \in Jobs : JobOf[o] = m => job'[o].pc = "idle"
    BY <1>2, <2>1, <2>4 DEF OneSubmission, Running
  <2>6. Suits(m, ca[m])'
    BY <2>1, <2>4 DEF SubmissionCA, Suits
  <2> QED
    BY <2>5, <2>6 DEF OneSubmission, SubmissionCA, Running
<1>j. CASE EnsureFails(j) \/ Abandon(j) \/ Refused(j) \/ SubmissionFails(j)
  BY <1>6, <1>j DEF EnsureFails, Abandon, Refused, Refuses, SubmissionFails, At, Running
<1>k. CASE SaveFailsLate(j)
  <2>1. m \in Mishap' /\ Up(m) /\ config'[m].is = "current"
    BY <1>0, <1>k DEF SaveFailsLate, Saved, At
  <2> QED
    BY <1>0, <1>1, <2>1 DEF MachineCA, RepairHasNoCA, Up
<1> QED
  BY <1>a, <1>b, <1>c, <1>d, <1>e, <1>f, <1>g, <1>h, <1>i, <1>j, <1>k DEF SubmissionStep, CallBootstrap, CallInvitation

LEMMA MachineKeepsCA ==
    ASSUME SetupTypes, IdentityInv, CAInv, NEW m \in Machines, MachineStep(m)
    PROVE  CAInv'
<1> USE SetupAssumption DEF Mishap
<1>0. /\ node \in [Machines -> Processes] /\ moved \in [Machines -> FileMoves] /\ config \in [Machines -> SavedConfigs]
      /\ ca \in [Machines -> Jobs \cup {Absent}] /\ moved[m].kept \in BackUps
      /\ \A o \in Jobs : JobOf[o] \in Machines
      /\ MachineCA(m) /\ RepairHasNoCA(m)
      /\ Idle.pc = "idle" /\ NothingMoved.config.ca = Absent /\ NoConfig.ca = Absent
  BY DEF SetupTypes, MachineTypes, FileMoves, CAInv, MachineCA, Idle, NothingMoved, NoConfig
<1>1. /\ \A q \in Machines : q # m => /\ config'[q] = config[q] /\ ca'[q] = ca[q] /\ node'[q] = node[q]
                                      /\ moved'[q] = moved[q] /\ (q \in Mishap => q \in Mishap')
      /\ Mishap \subseteq Mishap'
  BY <1>0 DEF MachineStep, StartNode, Kill, BeginRepair, MoveFile, RepairFails, RepairDone, RepairKilled, files
<1>2. \A o \in Jobs : JobOf[o] # m => job'[o] = job[o]
  BY DEF MachineStep, StartNode, Kill, BeginRepair, MoveFile, RepairFails, RepairDone, RepairKilled
<1>3. SUFFICES MachineCA(m)'
  BY <1>1, <1>2, ElsewhereCA DEF CAInv
<1>4. CASE /\ RepairHasNoCA(m)' /\ UNCHANGED job /\ node[m].run # "up" /\ config'[m].ca = Absent
  <2>1. \A o \in Jobs : JobOf[o] = m => job'[o].pc = "idle"
    BY <1>0, <1>4, DownIsIdle DEF Up
  <2> QED
    BY <1>4, <2>1 DEF MachineCA, OneSubmission, SubmissionCA, Running, Suits
<1>a. CASE \E force \in BOOLEAN : StartNode(m, force)
  <2>1. UNCHANGED <<config, ca, moved, job, Mishap>> /\ node'[m].run = "up"
    BY <1>0, <1>a DEF StartNode, files
  <2> QED
    BY <1>0, <2>1 DEF MachineCA, RepairHasNoCA, OneSubmission, SubmissionCA, Running, Suits
<1>b. CASE Kill(m)
  <2>1. UNCHANGED <<config, ca, moved>> /\ node'[m].run = "down"
    BY <1>0, <1>b DEF Kill, files
  <2>2. \A o \in Jobs : JobOf[o] = m => job'[o].pc = "idle"
    BY <1>0, <1>b DEF Kill
  <2>3. ASSUME m \notin Mishap' PROVE m \notin Mishap /\ \A o \in Jobs : JobOf[o] = m => ~Running(o)
    BY <1>b, <2>3 DEF Kill
  <2> QED
    BY <1>0, <2>1, <2>2, <2>3 DEF MachineCA, RepairHasNoCA, OneSubmission, SubmissionCA, Running, Suits
<1>c. CASE BeginRepair(m)
  <2>1. /\ UNCHANGED <<config, job>> /\ node[m].run = "down" /\ config[m].is = "legacy"
        /\ moved'[m].kept.config.ca = Absent
    BY <1>0, <1>c DEF BeginRepair, files
  <2> QED
    BY <1>0, <1>4, <2>1 DEF RepairHasNoCA
<1>d. CASE MoveFile(m)
  <2>1. node[m].run = "repair" /\ UNCHANGED <<node, job>> /\ config[m].ca = Absent
    BY <1>0, <1>d, MoveFileCases DEF RepairHasNoCA
  <2>2. config'[m] \in {config[m], NoConfig}
    BY <1>0, <1>d, MoveFileCases
  <2>3. moved'[m].kept.config \in {config[m], moved[m].kept.config}
    <3>1. CASE moved[m].n = 0
      BY <1>0, <1>d, <3>1, MoveFileCases DEF BackUps, FileMoves
    <3>2. CASE moved[m].n = 1
      BY <1>0, <1>d, <3>2, MoveFileCases DEF BackUps, FileMoves
    <3>3. CASE moved[m].n = 2
      BY <1>0, <1>d, <3>3, MoveFileCases DEF BackUps, FileMoves
    <3>4. CASE moved[m].n = 3
      BY <1>0, <1>d, <3>4, MoveFileCases DEF BackUps, FileMoves
    <3> QED
      BY <1>d, <3>1, <3>2, <3>3, <3>4, MoveFileCases
  <2> QED
    BY <1>0, <1>4, <2>1, <2>2, <2>3 DEF RepairHasNoCA
<1>e. CASE RepairFails(m)
  <2>1. node[m].run = "repair" /\ UNCHANGED job /\ config[m].ca = Absent
    BY <1>0, <1>e, RepairFailsCases DEF RepairHasNoCA
  <2>2. config'[m] \in {config[m], moved[m].kept.config} /\ moved'[m].kept.config.ca = Absent
    BY <1>0, <1>e, RepairFailsCases
  <2> QED
    BY <1>0, <1>4, <2>1, <2>2 DEF RepairHasNoCA
<1>f. CASE RepairDone(m) \/ RepairKilled(m)
  <2>1. node[m].run = "repair" /\ UNCHANGED <<job, config, moved>> /\ config[m].ca = Absent
    BY <1>0, <1>f DEF RepairHasNoCA, RepairDone, RepairKilled, files
  <2> QED
    BY <1>0, <1>4, <2>1 DEF RepairHasNoCA
<1> QED
  BY <1>a, <1>b, <1>c, <1>d, <1>e, <1>f DEF MachineStep

LEMMA CAStep ==
    ASSUME SetupTypes, IdentityInv, CAInv, [SetupNext]_setupVars
    PROVE  CAInv'
<1>1. CASE UNCHANGED <<files, node, moved, job, torn, parted>>
  BY <1>1, ElsewhereCA DEF CAInv, files, Mishap
<1>2. CASE ServerStep
  BY <1>1, <1>2 DEF ServerStep, RotateBootstrap, RetryWindowEnds, UpdateAdmission, IssueNodeInvitation,
     CancelNodeInvitation, NodeInvitationExpires, ReissueNodeInvitation, ServeLate
<1> QED
  BY <1>1, <1>2, SubmissionKeepsCA, MachineKeepsCA DEF SetupNext, setupVars

LEMMA CAInit ==
    SetupInit => CAInv
BY SetupAssumption DEF SetupInit, CAInv, MachineCA, RepairHasNoCA, OneSubmission, SubmissionCA, Suits, Running, Idle,
   NoConfig, NothingMoved

\* The CA a configuration was saved with stays on disk through failed set-ups
\* and repairs.  It does not where two submissions overlap, one is killed, a save
\* takes effect and reports an error, or a clean-up fails; nothing else parts them.
THEOREM CAStaysWithConfig ==
    SetupSpec => []CAFollowsConfig
<1> DEFINE Inv == SetupTypes /\ IdentityInv /\ CAInv
<1>1. SetupInit => Inv
  BY SetupTypesInit, IdentityInit, CAInit
<1>2. Inv /\ [SetupNext]_setupVars => Inv'
  BY SetupTypesStep, IdentityStep, CAStep
<1>3. Inv => CAFollowsConfig
  BY DEF CAInv, MachineCA, SubmissionCA, Suits, CAFollowsConfig, Mishap
<1> QED
  BY <1>1, <1>2, <1>3, PTL DEF SetupSpec

\* A saved configuration has its identity, and outside the four ways above its
\* CA, after any failed, overlapping or killed set-ups and repairs.
THEOREM SavedConfigIsUsable ==
    SetupSpec => []ConfigIsUsable
<1>1. ConfigHasIdentity /\ CAFollowsConfig => ConfigIsUsable
  BY DEF ConfigIsUsable
<1> QED
  BY <1>1, SavedNodesHaveIdentity, CAStaysWithConfig, PTL
=============================================================================
