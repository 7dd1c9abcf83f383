----------------------------- MODULE Enrollment -----------------------------
(* A further Node joins through one that is enrolled already.  The issuer    *)
(* creates an enrollment, the candidate claims it with its key and the hash  *)
(* of a credential, the person at the issuer decides, and the candidate      *)
(* polls until it is admitted.  Requests of Nodes are authenticated by the   *)
(* session of their relay connection; between that check and the transaction *)
(* of the request, Nodes are revoked, connections end and enrollments lapse. *)
EXTENDS Naturals, FiniteSets

CONSTANTS
    Nodes,        \* Nodes that connect
    Invited,      \* those of them that join by an invitation; the others are enrolled
    Candidates,   \* machines that join
    Enrollments,  \* enrollments; each also names the Node id drawn for its candidate
    MaxActive,    \* MaxActiveNodes
    MaxConns,     \* bound: connections that exist or are named by a session
    MaxRequests,  \* bound: requests between authentication and transaction
    MaxCreds,     \* bound: credentials a candidate draws
    MaxFaults     \* bound: lost answers and expiries

ASSUME EnrollmentAssumption ==
    /\ Invited \subseteq Nodes /\ Invited # Nodes
    /\ IsFiniteSet(Nodes) /\ IsFiniteSet(Enrollments)
    /\ Nodes \cap Enrollments = {}
    /\ MaxActive \in Nat /\ Cardinality(Nodes \ Invited) <= MaxActive
    /\ MaxConns \in Nat /\ MaxRequests \in Nat /\ MaxCreds \in Nat /\ MaxFaults \in Nat

VARIABLES
    st,       \* nodes: the status of every Node id
    keyOf,    \* nodes: the candidate whose key an admitted row holds
    enr,      \* node_enrollments
    lapsed,   \* enrollments whose expires_at has passed
    enabled,  \* node_enrollment_enabled
    conn,     \* the relay connection of a Node, 0 when it has none
    tokens,   \* connections a Node holds an HTTP session for
    hello,    \* Nodes whose connection has passed its status check
    req,      \* requests past their authentication
    cand,     \* the candidates
    faults

rows == <<st, keyOf, enr>>
links == <<conn, tokens, hello>>
vars == <<rows, lapsed, enabled, links, req, cand, faults>>

None == "none"
Ids == Nodes \cup Enrollments

\* What an issuer signs: the candidate's key, its credential hash, the decision.
NoProof == [by |-> None, cred |-> 0, decision |-> None]
NoEnrollment == [status |-> None, issuer |-> None, by |-> None, cred |-> 0, proof |-> NoProof]

Init ==
    /\ st = [i \in Ids |-> IF i \in Nodes \ Invited THEN "active" ELSE None]
    /\ keyOf = [e \in Enrollments |-> None]
    /\ enr = [e \in Enrollments |-> NoEnrollment]
    /\ lapsed = {} /\ enabled = TRUE
    /\ conn = [n \in Nodes |-> 0] /\ hello = {}
    /\ tokens = [n \in Nodes |-> {}]
    /\ req = {} /\ faults = 0
    /\ cand = [c \in Candidates |-> [stored |-> 0, drawn |-> 0, cred |-> 0, on |-> None, bound |-> None,
                                     ended |-> FALSE]]

Active == {i \in Ids : st[i] = "active"}
Fault == faults < MaxFaults /\ faults' = faults + 1

-----------------------------------------------------------------------------
(* Connections and the HTTP sessions bound to them. *)

\* The status check of a connecting Node; registration follows later.
Hello(n) ==
    /\ st[n] = "active" /\ conn[n] = 0 /\ n \notin hello
    /\ hello' = hello \cup {n}
    /\ UNCHANGED <<rows, lapsed, enabled, conn, tokens, req, cand, faults>>

\* A connection id is new: no connection has it and no session names it.
Unused == {c \in 1 .. MaxConns : \A n \in Nodes : conn[n] # c /\ c \notin tokens[n]}

\* registerNodeSession and register.
Register(n) ==
    /\ n \in hello
    /\ hello' = hello \ {n}
    /\ \E c \in Unused :
          /\ \A u \in Unused : c <= u
          /\ conn' = [conn EXCEPT ![n] = c]
          /\ tokens' = [tokens EXCEPT ![n] = @ \cup {c}]
    /\ UNCHANGED <<rows, lapsed, enabled, req, cand, faults>>

\* The connection ends, or DisconnectNode closes it: its sessions are removed.
Dropped(n) == /\ conn' = [conn EXCEPT ![n] = 0]
              /\ tokens' = [tokens EXCEPT ![n] = @ \ {conn[n]}]

Disconnect(n) ==
    /\ conn[n] # 0
    /\ Dropped(n)
    /\ UNCHANGED <<rows, lapsed, enabled, hello, req, cand, faults>>

\* A session passes its TTL.  A refresh issues one for the connection of its
\* request, which matters where that connection has ended in the meantime.
SessionExpires(n) ==
    /\ \E c \in tokens[n] :
          /\ tokens' = [tokens EXCEPT ![n] = @ \ {c}]
          /\ IF c = conn[n] THEN Fault ELSE UNCHANGED faults
    /\ UNCHANGED <<rows, lapsed, enabled, conn, hello, req, cand>>

RefreshNodeSession(n) ==
    /\ \E c \in Unused : tokens' = [tokens EXCEPT ![n] = @ \cup {c}]
    /\ Fault
    /\ UNCHANGED <<rows, lapsed, enabled, conn, hello, req, cand>>

\* AuthenticateNodeRequest: a session of the current connection of an active Node.
Authenticated(n) == st[n] = "active" /\ conn[n] # 0 /\ conn[n] \in tokens[n]

-----------------------------------------------------------------------------
(* Requests of Nodes: authentication first, the transaction later. *)

Ask(r) ==
    /\ r \notin req /\ Cardinality(req) < MaxRequests
    /\ req' = req \cup {r}
    /\ UNCHANGED <<rows, lapsed, enabled, links, cand, faults>>

AskCreate(n, e) ==
    /\ Authenticated(n) /\ enabled /\ enr[e].status = None
    /\ \A r \in req : r.id # e
    /\ Ask([kind |-> "create", node |-> n, id |-> e, proof |-> NoProof])

\* Store.CreateNodeEnrollment inserts only for an active issuer.
IssuerActive(n) == st[n] = "active"

CreateNodeEnrollment(r) ==
    /\ r.kind = "create"
    /\ enr' = IF IssuerActive(r.node)
              THEN [enr EXCEPT ![r.id] = [NoEnrollment EXCEPT !.status = "pending", !.issuer = r.node]]
              ELSE enr
    /\ req' = req \ {r}
    /\ UNCHANGED <<st, keyOf, lapsed, enabled, links, cand, faults>>

\* The issuer signs what it lists: the claim of a claimed enrollment.
Signed(e, decision) == [by |-> enr[e].by, cred |-> enr[e].cred, decision |-> decision]

\* The Server verifies the signature against the row it reads.
AskDecide(n, e, decision) ==
    /\ Authenticated(n)
    /\ enr[e].issuer = n /\ enr[e].status \in {"claimed", "approved", "declined"}
    /\ Ask([kind |-> "decide", node |-> n, id |-> e, proof |-> Signed(e, decision)])

\* Store.ResolveNodeEnrollment: an identical decision is answered again, and a new
\* one needs an enrollment that is still claimed.
Resolvable(e) == enr[e].status = "claimed" /\ e \notin lapsed

\* Admissible, as a likely mistake would have it.
AdmissibleOneMore(e) ==
    /\ Cardinality(Active) <= MaxActive
    /\ st[e] = None
    /\ \A o \in Enrollments : keyOf[o] # enr[e].by

\* INSERT INTO nodes: below the limit, and the key is unique.
Admissible(e) ==
    /\ Cardinality(Active) < MaxActive
    /\ st[e] = None
    /\ \A o \in Enrollments : keyOf[o] # enr[e].by

ResolveNodeEnrollment(r) ==
    LET e == r.id
        accept == r.proof.decision = "accept"
        done == Resolvable(e) /\ (accept => Admissible(e))
    IN  /\ r.kind = "decide"
        /\ req' = req \ {r}
        /\ enr' = IF done
                  THEN [enr EXCEPT ![e].status = IF accept THEN "approved" ELSE "declined", ![e].proof = r.proof]
                  ELSE enr
        /\ st' = IF done /\ accept THEN [st EXCEPT ![e] = "active"] ELSE st
        /\ keyOf' = IF done /\ accept THEN [keyOf EXCEPT ![e] = enr[e].by] ELSE keyOf
        /\ UNCHANGED <<lapsed, enabled, links, cand, faults>>

AskRevoke(n, target) ==
    /\ Authenticated(n) /\ target # n /\ st[target] # None
    /\ Ask([kind |-> "revoke", node |-> n, id |-> target, proof |-> NoProof])

\* Closed, as a likely mistake would have it.
ClosedUnclaimed(target) ==
    [e \in Enrollments |->
        IF enr[e].issuer = target /\ enr[e].status = "pending"
        THEN [enr[e] EXCEPT !.status = "expired"] ELSE enr[e]]

\* The enrollments a revoked Node has open are closed in the same transaction.
Closed(target) ==
    [e \in Enrollments |->
        IF enr[e].issuer = target /\ enr[e].status \in {"pending", "claimed"}
        THEN [enr[e] EXCEPT !.status = "expired"] ELSE enr[e]]

\* Never the last active Node, and only by one that is active itself.
Revocable(n, target) == Cardinality(Active) > 1 /\ st[n] = "active" /\ st[target] = "active"

RevokeNode(r) ==
    LET done == Revocable(r.node, r.id) IN
    /\ r.kind = "revoke"
    /\ st' = IF done THEN [st EXCEPT ![r.id] = "revoked"] ELSE st
    /\ enr' = IF done THEN Closed(r.id) ELSE enr
    /\ req' = (req \ {r}) \cup (IF done /\ r.id \in Nodes THEN {[r EXCEPT !.kind = "drop"]} ELSE {})
    /\ UNCHANGED <<keyOf, lapsed, enabled, links, cand, faults>>

\* Hub.DisconnectNode after the transaction.
DisconnectNode(r) ==
    /\ r.kind = "drop"
    /\ req' = req \ {r}
    /\ IF conn[r.id] = 0 THEN UNCHANGED <<conn, tokens>> ELSE Dropped(r.id)
    /\ UNCHANGED <<rows, lapsed, enabled, hello, cand, faults>>

-----------------------------------------------------------------------------
\* Store.ClaimNodeInvitation inserts an active Node as well, whatever their number
\* (what comes before it is NodeSetup).
InvitedNodeJoins(n) ==
    /\ st[n] = None /\ enabled
    /\ st' = [st EXCEPT ![n] = "active"]
    /\ UNCHANGED <<keyOf, enr, lapsed, enabled, links, req, cand, faults>>

-----------------------------------------------------------------------------
(* The administrator. *)

AdminRevokeNode(target) ==
    /\ st[target] = "active" /\ Cardinality(Active) > 1
    /\ st' = [st EXCEPT ![target] = "revoked"]
    /\ enr' = Closed(target)
    /\ Fault
    /\ UNCHANGED <<keyOf, lapsed, enabled, links, req, cand>>

CancelAdminAccessRequest(e) ==
    /\ enr[e].status \in {"pending", "claimed"}
    /\ enr' = [enr EXCEPT ![e].status = "expired"]
    /\ Fault
    /\ UNCHANGED <<st, keyOf, lapsed, enabled, links, req, cand>>

UpdateEnrollmentSetting ==
    /\ enabled' = ~enabled
    /\ Fault
    /\ UNCHANGED <<rows, lapsed, links, req, cand>>

\* Five minutes have passed; whoever reads the row next records it.
Lapse(e) ==
    /\ enr[e].status \in {"pending", "claimed"} /\ e \notin lapsed
    /\ lapsed' = lapsed \cup {e}
    /\ Fault
    /\ UNCHANGED <<rows, enabled, links, req, cand>>

NodeEnrollmentExpires(e) ==
    /\ e \in lapsed /\ enr[e].status \in {"pending", "claimed"}
    /\ enr' = [enr EXCEPT ![e].status = "expired"]
    /\ UNCHANGED <<st, keyOf, lapsed, enabled, links, req, cand, faults>>

-----------------------------------------------------------------------------
(* The candidate: Join and monitor. *)

\* The credential Join uses: the stored one, or one it draws and stores.
Credential(c) == IF cand[c].stored # 0 THEN cand[c].stored ELSE cand[c].drawn + 1
Drawn(c) == IF cand[c].stored # 0 THEN cand[c].drawn ELSE cand[c].drawn + 1

\* ClaimNodeEnrollment accepts a pending enrollment, or the same claim again.
SameClaim(e, c) == enr[e].status = "claimed" /\ enr[e].by = c /\ enr[e].cred = Credential(c)

\* Claimable, as a likely mistake would have it.
ClaimableAgain(e, c) == e \notin lapsed /\ enabled /\ enr[e].status \in {"pending", "claimed"}

Claimable(e, c) == e \notin lapsed /\ enabled /\ (enr[e].status = "pending" \/ SameClaim(e, c))

\* What Store.ClaimNodeEnrollment writes.
Claimed(e, c) == [enr EXCEPT ![e].status = "claimed", ![e].by = c, ![e].cred = Credential(c)]

\* The claim succeeds; an earlier monitor of this machine is cancelled.
Join(c, e) ==
    /\ cand[c].bound = None
    /\ Drawn(c) <= MaxCreds
    /\ Claimable(e, c)
    /\ enr' = Claimed(e, c)
    /\ cand' = [cand EXCEPT ![c] = [@ EXCEPT !.stored = Credential(c), !.drawn = Drawn(c),
                                            !.cred = Credential(c), !.on = e, !.ended = FALSE]]
    /\ UNCHANGED <<st, keyOf, lapsed, enabled, links, req, faults>>

\* The claim succeeds at the Server and its answer is lost: a credential drawn
\* for this call is deleted again, so the next attempt is a different claim.
JoinAnswerLost(c, e) ==
    /\ cand[c].bound = None
    /\ Drawn(c) <= MaxCreds
    /\ Claimable(e, c)
    /\ enr' = Claimed(e, c)
    /\ cand' = [cand EXCEPT ![c].drawn = Drawn(c)]
    /\ Fault
    /\ UNCHANGED <<st, keyOf, lapsed, enabled, links, req>>

\* monitor reads a final refusal: the credential is deleted and polling ends.
MonitorRefused(c) ==
    LET e == cand[c].on IN
    /\ e # None
    /\ enr[e].status \in {"declined", "expired"}
    /\ cand' = [cand EXCEPT ![c].stored = 0, ![c].cred = 0, ![c].on = None]
    /\ UNCHANGED <<rows, lapsed, enabled, links, req, faults>>

\* The approval carries the issuer's signature over this candidate's own claim.
ProofHolds(c, e) ==
    enr[e].proof = [by |-> c, cred |-> cand[c].cred, decision |-> "accept"]

\* syncOwnerTrust sends the credential as a bearer token.  The Server
\* authenticates Nodes by the session of a relay connection only, and a candidate
\* that is not bound yet has none.
TrustSyncAccepted(e) == FALSE

\* An approval is verified; then the manifest is fetched, and only then is the
\* identity bound.  Either way the monitor ends.
MonitorApproved(c) ==
    LET e == cand[c].on IN
    /\ e # None
    /\ enr[e].status = "approved"
    /\ cand' = [cand EXCEPT ![c].on = None, ![c].cred = 0, ![c].ended = ProofHolds(c, e),
                            ![c].bound = IF ProofHolds(c, e) /\ TrustSyncAccepted(e) THEN e ELSE @]
    /\ UNCHANGED <<rows, lapsed, enabled, links, req, faults>>

\* The machine stops: the monitor is gone, the stored credential stays.
StopCandidate(c) ==
    /\ cand[c].on # None
    /\ cand' = [cand EXCEPT ![c].on = None, ![c].cred = 0]
    /\ Fault
    /\ UNCHANGED <<rows, lapsed, enabled, links, req>>

-----------------------------------------------------------------------------
LinkStep ==
    \E n \in Nodes :
        \/ Hello(n)
        \/ Register(n)
        \/ Disconnect(n)
        \/ SessionExpires(n)
        \/ RefreshNodeSession(n)

AskStep ==
    \E n \in Nodes :
        \/ \E e \in Enrollments : AskCreate(n, e)
        \/ \E e \in Enrollments, d \in {"accept", "decline"} : AskDecide(n, e, d)
        \/ \E i \in Ids : AskRevoke(n, i)

ServeStep ==
    \E r \in req :
        \/ CreateNodeEnrollment(r)
        \/ ResolveNodeEnrollment(r)
        \/ RevokeNode(r)
        \/ DisconnectNode(r)

AdminStep ==
    \/ \E i \in Ids : AdminRevokeNode(i)
    \/ \E e \in Enrollments : CancelAdminAccessRequest(e) \/ Lapse(e) \/ NodeEnrollmentExpires(e)
    \/ UpdateEnrollmentSetting
    \/ \E n \in Invited : InvitedNodeJoins(n)

CandidateStep ==
    \E c \in Candidates :
        \/ \E e \in Enrollments : Join(c, e) \/ JoinAnswerLost(c, e)
        \/ MonitorRefused(c)
        \/ MonitorApproved(c)
        \/ StopCandidate(c)

Next == LinkStep \/ AskStep \/ ServeStep \/ AdminStep \/ CandidateStep

Spec == Init /\ [][Next]_vars

-----------------------------------------------------------------------------
\* However revocations by Nodes and by the administrator interleave, also two
\* Nodes that revoke each other, some Node stays active.  Approvals decided at the
\* same time never bring the Nodes that were enrolled above the limit; the
\* invited ones come on top, since a claim of an invitation counts nothing.
OneNodeLeft ==
    /\ Active # {}
    /\ Cardinality(Active \ Invited) <= MaxActive

\* A revoked Node admits nobody: a decision that was authenticated before the
\* revocation of its issuer comes to nothing after it.
RevokedIssuerAdmitsNobody ==
    [][\A e \in Enrollments :
          st[e] # "active" /\ st'[e] = "active" => st[enr[e].issuer] = "active"]_vars

\* The Node admitted is the one its issuer signed for: the row's key, the claim
\* and the proof the candidate will verify are of the same claim, although claims
\* are repeated and two machines claim one enrollment.
AdmittedAsSigned ==
    \A e \in Enrollments :
        /\ st[e] # None => enr[e].status = "approved"
        /\ enr[e].status = "approved" =>
               /\ keyOf[e] = enr[e].by
               /\ enr[e].proof = [by |-> enr[e].by, cred |-> enr[e].cred, decision |-> "accept"]

=============================================================================
