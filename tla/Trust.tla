------------------------------- MODULE Trust -------------------------------
(***************************************************************************)
(* Which control clients an Owner's Nodes obey.  A Node creates a pairing  *)
(* on the Server, a client claims it, a person at the Node accepts or      *)
(* declines it, and every Node copies the resulting list of clients by     *)
(* polling a numbered manifest.                                            *)
(*                                                                         *)
(* The Server keeps the pairings, the clients and the trust revision of    *)
(* one Owner.  A Node keeps the keys it obeys and the revision of the last *)
(* manifest it applied.  Between them are HTTP calls that may fail before  *)
(* or after the Server acted, or be carried out after the Node gave up; a  *)
(* Node may also stop in the middle of one.  A client stands for its id,   *)
(* its key id and its public key; a Server that refuses a call for other   *)
(* reasons (the Node's session, a disabled setting) is a lost call.        *)
(***************************************************************************)
EXTENDS Integers, FiniteSets

CONSTANTS Nodes, Clients, Pairings,
          Deciders,    \* the requests of the Control Center that decide pairings
          NoNode, NoClient,
          Others,      \* active clients of the owner that take no part
          MaxSyncs,    \* bound: manifests one Node is fetching at a time
          MaxLate,     \* bound: calls given up that the Server may still carry out
          MaxCrashes   \* bound: stops of a Node and failures of its database

ASSUME TrustAssumption ==
    /\ NoNode \notin Nodes /\ NoClient \notin Clients
    /\ Others \in Nat /\ MaxSyncs \in Nat /\ MaxLate \in Nat /\ MaxCrashes \in Nat

VARIABLES
    pairing,    \* the pairings of the Server
    clients,    \* status of each row of control_clients
    revision,   \* owners.trust_revision
    revokedAt,  \* the revision that revoked a client, 0 before that
    trusted,    \* status of each row of a Node's trusted_clients
    applied,    \* the revision of a Node's trust_manifests row, -1 without one
    decide,     \* the calls of Decide, by decider
    fetching,   \* per Node, revisions of manifests whose rows are not read yet
    manifests,  \* per Node, manifests on their way to it
    revoking,   \* DELETE calls on their way to the Server
    late,       \* decisions on their way to the Server that nobody waits for
    stranded,   \* history: keys put by a Decide that could not withdraw them
    crashes     \* history: stops and failures of a Node so far

server == <<pairing, clients, revision, revokedAt>>
node == <<trusted, applied, stranded>>
calls == <<decide, fetching, manifests, revoking, late>>
vars == <<pairing, clients, revision, revokedAt, trusted, applied,
          decide, fetching, manifests, revoking, late, stranded, crashes>>

Statuses == {"none", "active", "revoked"}
PairingStatuses == {"none", "pending", "claimed", "approved", "declined", "expired"}
Decisions == {"accept", "decline"}

Requests == [node : Nodes, pairing : Pairings, client : Clients, decision : Decisions]
Idle == [pc |-> "idle"]
Manifests == [rev : Nat, rows : [Clients -> Statuses]]

NoPairing == [status |-> "none", node |-> NoNode, client |-> NoClient]

Init ==
    /\ pairing = [p \in Pairings |-> NoPairing]
    /\ clients = [c \in Clients |-> "none"]
    /\ revision = 0
    /\ revokedAt = [c \in Clients |-> 0]
    /\ trusted = [n \in Nodes |-> [c \in Clients |-> "none"]]
    /\ applied = [n \in Nodes |-> -1]
    /\ decide = [d \in Deciders |-> Idle]
    /\ fetching = [n \in Nodes |-> {}]
    /\ manifests = [n \in Nodes |-> {}]
    /\ revoking = {}
    /\ late = {}
    /\ stranded = {}
    /\ crashes = 0

----------------------------------------------------------------------------
(* The pairings of the Server.                                              *)

Open(p) == pairing[p].status \in {"pending", "claimed"}

\* POST /v1/control-client-pairings
Create(n, p) ==
    /\ pairing[p] = NoPairing
    /\ pairing' = [pairing EXCEPT ![p] = [status |-> "pending", node |-> n, client |-> NoClient]]
    /\ UNCHANGED <<clients, revision, revokedAt, node, calls, crashes>>

\* What a claim may take: nobody claimed the pairing yet.
Claimable(p) == pairing[p].status = "pending"

\* POST /v1/control-client-pairings/{id}/claim.  The same claim again changes
\* nothing and is answered like the first.
ClaimPairing(c, p) ==
    /\ Claimable(p)
    /\ pairing' = [pairing EXCEPT ![p] = [status |-> "claimed", node |-> @.node, client |-> c]]
    /\ UNCHANGED <<clients, revision, revokedAt, node, calls, crashes>>

\* The five minutes of a pairing pass, or the administrator cancels it.  The
\* Server writes the expiry down when it next reads the pairing, and every
\* call that reads one does so first.
ExpirePairing(p) ==
    /\ Open(p)
    /\ pairing' = [pairing EXCEPT ![p].status = "expired"]
    /\ UNCHANGED <<clients, revision, revokedAt, node, calls, crashes>>

----------------------------------------------------------------------------
(* Decide: list the claimed pairings, trust the key, tell the Server, and   *)
(* withdraw the key if the Server did not confirm.                          *)

\* The Node lists its claimed pairings and finds the one to decide on.
Pending(d, n, p, decision) ==
    /\ decide[d] = Idle
    /\ pairing[p].node = n /\ pairing[p].status = "claimed"
    /\ decide' = [decide EXCEPT ![d] = [pc |-> IF decision = "accept" THEN "trust" ELSE "post",
                    node |-> n, pairing |-> p, client |-> pairing[p].client, decision |-> decision]]
    /\ UNCHANGED <<server, node, fetching, manifests, revoking, late, crashes>>

PutTrustedKey(d) ==
    /\ decide[d].pc = "trust"
    /\ trusted' = [trusted EXCEPT ![decide[d].node][decide[d].client] = "active"]
    /\ decide' = [decide EXCEPT ![d].pc = "post"]
    /\ UNCHANGED <<server, applied, stranded, fetching, manifests, revoking, late, crashes>>

RequestOf(d) == [node |-> decide[d].node, pairing |-> decide[d].pairing,
                 client |-> decide[d].client, decision |-> decide[d].decision]

\* ResolvePairing refuses a pairing that is not claimed, and an accept
\* whose client exists and is no longer active.
Resolvable(r) ==
    /\ pairing[r.pairing].node = r.node /\ pairing[r.pairing].status = "claimed"
    /\ pairing[r.pairing].client = r.client
    /\ r.decision = "accept" => clients[r.client] # "revoked"

\* The client a decision adds to control_clients.
Admits(r) == r.decision = "accept" /\ clients[r.client] = "none"

\* POST .../decision, whose signature binds the client the Node saw.
Resolve(r) ==
    /\ Resolvable(r)
    /\ pairing' = [pairing EXCEPT ![r.pairing].status =
                     IF r.decision = "accept" THEN "approved" ELSE "declined"]
    /\ clients' = IF Admits(r) THEN [clients EXCEPT ![r.client] = "active"] ELSE clients
    /\ revision' = IF Admits(r) THEN revision + 1 ELSE revision
    /\ UNCHANGED revokedAt

\* The call is answered, or the answer is lost.
ServerResolves(d) ==
    /\ decide[d].pc = "post"
    /\ Resolve(RequestOf(d))
    /\ \/ decide' = [decide EXCEPT ![d] = Idle]
       \/ decide' = [decide EXCEPT ![d].pc = "failed"]
    /\ UNCHANGED <<node, fetching, manifests, revoking, late, crashes>>

\* The Server refuses the call, or it fails on the way; in the latter case
\* the Server may still carry it out.
CallFails(d) ==
    /\ decide[d].pc = "post"
    /\ decide' = [decide EXCEPT ![d].pc = "failed"]
    /\ \/ UNCHANGED late
       \/ /\ Cardinality(late) < MaxLate
          /\ late' = late \union {RequestOf(d)}
    /\ UNCHANGED <<server, node, fetching, manifests, revoking, crashes>>

\* A decision nobody waits for is carried out, refused or lost.
ServerDecidesLate(r) ==
    /\ Resolve(r) \/ UNCHANGED server
    /\ late' = late \ {r}
    /\ UNCHANGED <<node, decide, fetching, manifests, revoking, crashes>>

\* Mistakes: Decide does not withdraw the key when its call fails, or writes
\* the word for a pairing as the status of the key.
Kept(n, c) == "active"

\* What a Decide whose call failed leaves of the key it put.
Withdrawn(n, c) == "revoked"

\* RevokeTrustedKey after a failed accept.
Withdraw(d) ==
    /\ decide[d].pc = "failed"
    /\ LET n == decide[d].node
           c == decide[d].client
       IN IF decide[d].decision = "accept"
          THEN /\ trusted' = [trusted EXCEPT ![n][c] = Withdrawn(n, c)]
               /\ stranded' = stranded \ {<<n, c>>}
          ELSE UNCHANGED <<trusted, stranded>>
    /\ decide' = [decide EXCEPT ![d] = Idle]
    /\ UNCHANGED <<server, applied, fetching, manifests, revoking, late, crashes>>

\* Decide drops the error of RevokeTrustedKey: a database that fails it keeps
\* the key as it is.
WithdrawFails(d) ==
    /\ decide[d].pc = "failed" /\ decide[d].decision = "accept"
    /\ crashes < MaxCrashes
    /\ crashes' = crashes + 1
    /\ stranded' = stranded \union {<<decide[d].node, decide[d].client>>}
    /\ decide' = [decide EXCEPT ![d] = Idle]
    /\ UNCHANGED <<server, trusted, applied, fetching, manifests, revoking, late>>

----------------------------------------------------------------------------
(* Revocation: at the Node first and then at the Server, or by the          *)
(* administrator at the Server.                                             *)

\* Mistake: a revocation keeps the revision.
SameRevision == revision

\* Every change of control_clients takes the next revision.
NextRevision == revision + 1

RevokeAtServer(c) ==
    /\ clients[c] = "active"
    /\ clients' = [clients EXCEPT ![c] = "revoked"]
    /\ revision' = NextRevision
    /\ revokedAt' = [revokedAt EXCEPT ![c] = revision + 1]

Revoke(n, c) ==
    /\ trusted[n][c] # "none"
    /\ trusted' = [trusted EXCEPT ![n][c] = "revoked"]
    /\ stranded' = stranded \ {<<n, c>>}
    /\ revoking' = revoking \union {c}
    /\ UNCHANGED <<server, applied, decide, fetching, manifests, late, crashes>>

\* DELETE /v1/control-clients/{id}, or its loss.
ServerRevokes(c) ==
    /\ c \in revoking
    /\ revoking' = revoking \ {c}
    /\ RevokeAtServer(c) \/ UNCHANGED <<clients, revision, revokedAt>>
    /\ UNCHANGED <<pairing, node, decide, fetching, manifests, late, crashes>>

\* The administrator may not revoke the last active client.
AdminRevokeControlClient(c) ==
    /\ Others + Cardinality({k \in Clients : clients[k] = "active"}) > 1
    /\ RevokeAtServer(c)
    /\ UNCHANGED <<pairing, node, calls, crashes>>

----------------------------------------------------------------------------
(* SyncTrust.  The Server reads the revision and the rows one after the     *)
(* other; several calls of one Node may overlap.                            *)

StartSync(n) ==
    /\ Cardinality(fetching[n]) + Cardinality(manifests[n]) < MaxSyncs
    /\ fetching' = [fetching EXCEPT ![n] = @ \union {revision}]
    /\ UNCHANGED <<server, node, decide, manifests, revoking, late, crashes>>

ReadRows(n, r) ==
    /\ fetching' = [fetching EXCEPT ![n] = @ \ {r}]
    /\ manifests' = [manifests EXCEPT ![n] = @ \union {[rev |-> r, rows |-> clients]}]
    /\ UNCHANGED <<server, node, decide, revoking, late, crashes>>

SyncFails(n) ==
    /\ \/ \E r \in fetching[n] : fetching' = [fetching EXCEPT ![n] = @ \ {r}] /\ UNCHANGED manifests
       \/ \E m \in manifests[n] : manifests' = [manifests EXCEPT ![n] = @ \ {m}] /\ UNCHANGED fetching
    /\ UNCHANGED <<server, node, decide, revoking, late, crashes>>

\* Mistake: a manifest of any other revision is applied.
AppliesAnyway(n, m) == m.rev # applied[n]

\* Older manifests are a conflict, one with the same revision changes nothing.
Applies(n, m) == m.rev > applied[n]

\* A manifest revokes every active key and then writes its own rows.
Reconciled(n, m) ==
    [c \in Clients |-> IF m.rows[c] # "none" THEN m.rows[c]
                       ELSE IF trusted[n][c] = "active" THEN "revoked"
                       ELSE trusted[n][c]]

ReconcileTrustManifest(n, m) ==
    /\ manifests' = [manifests EXCEPT ![n] = @ \ {m}]
    /\ IF Applies(n, m)
       THEN /\ trusted' = [trusted EXCEPT ![n] = Reconciled(n, m)]
            /\ applied' = [applied EXCEPT ![n] = m.rev]
            /\ stranded' = {s \in stranded : s[1] # n}
       ELSE UNCHANGED node
    /\ UNCHANGED <<server, decide, fetching, revoking, late, crashes>>

----------------------------------------------------------------------------
(* The Node stops: its calls are gone, what they sent may still arrive.     *)

At(n, pcs) == {d \in Deciders : decide[d].pc \in pcs /\ decide[d].node = n}

Crash(n) ==
    /\ crashes < MaxCrashes
    /\ crashes' = crashes + 1
    /\ late' = late \union {RequestOf(d) : d \in At(n, {"post"})}
    /\ stranded' = stranded \union
         {<<n, decide[d].client>> : d \in {e \in At(n, {"post", "failed"}) : decide[e].decision = "accept"}}
    /\ decide' = [d \in Deciders |-> IF decide[d] # Idle /\ decide[d].node = n THEN Idle ELSE decide[d]]
    /\ fetching' = [fetching EXCEPT ![n] = {}]
    /\ manifests' = [manifests EXCEPT ![n] = {}]
    /\ UNCHANGED <<server, trusted, applied, revoking>>

----------------------------------------------------------------------------

PairingStep ==
    \/ \E n \in Nodes, p \in Pairings : Create(n, p)
    \/ \E c \in Clients, p \in Pairings : ClaimPairing(c, p)
    \/ \E p \in Pairings : ExpirePairing(p)

DecideStep(d) ==
    PutTrustedKey(d) \/ ServerResolves(d) \/ CallFails(d) \/ Withdraw(d) \/ WithdrawFails(d)

SyncStep(n) ==
    \/ StartSync(n) \/ SyncFails(n)
    \/ \E r \in fetching[n] : ReadRows(n, r)
    \/ \E m \in manifests[n] : ReconcileTrustManifest(n, m)

Next ==
    \/ PairingStep
    \/ \E d \in Deciders, n \in Nodes, p \in Pairings, decision \in Decisions : Pending(d, n, p, decision)
    \/ \E d \in Deciders : DecideStep(d)
    \/ \E r \in late : ServerDecidesLate(r)
    \/ \E n \in Nodes, c \in Clients : Revoke(n, c)
    \/ \E c \in Clients : ServerRevokes(c) \/ AdminRevokeControlClient(c)
    \/ \E n \in Nodes : SyncStep(n) \/ Crash(n)

\* A Decide ends: every call has a timeout.  A Node polls the manifest every
\* 30 seconds, and an outage of the Server does not last for ever.
Fairness ==
    /\ \A d \in Deciders : WF_vars(DecideStep(d))
    /\ \A n \in Nodes :
         /\ SF_vars(StartSync(n))
         /\ SF_vars(\E r \in fetching[n] : ReadRows(n, r))
         /\ SF_vars(\E m \in manifests[n] : ReconcileTrustManifest(n, m))

Spec == Init /\ [][Next]_vars

FairSpec == Spec /\ Fairness

----------------------------------------------------------------------------

Jobs == [pc : {"trust", "post", "failed"}, node : Nodes,
         pairing : Pairings, client : Clients, decision : Decisions]

\* The types of the two stores, of the calls between them and of the history.
TypeOK ==
    /\ pairing \in [Pairings -> [status : PairingStatuses, node : Nodes \union {NoNode},
                                 client : Clients \union {NoClient}]]
    /\ clients \in [Clients -> Statuses]
    /\ revision \in Nat
    /\ revokedAt \in [Clients -> Nat]
    /\ trusted \in [Nodes -> [Clients -> Statuses]]
    /\ applied \in [Nodes -> Nat \union {-1}]
    /\ decide \in [Deciders -> Jobs \union {Idle}]
    /\ fetching \in [Nodes -> SUBSET Nat]
    /\ manifests \in [Nodes -> SUBSET Manifests]
    /\ revoking \subseteq Clients
    /\ late \subseteq Requests
    /\ stranded \subseteq Nodes \X Clients
    /\ crashes \in Nat

\* A Decide that has put the key of c at n and not ended.
Deciding(n, c) ==
    \E d \in Deciders : /\ decide[d].pc \in {"post", "failed"}
                        /\ decide[d].node = n /\ decide[d].client = c
                        /\ decide[d].decision = "accept"

\* A key a Node obeys is backed by the Server, unless a Decide about it is
\* under way, was cut off by a stop of the Node or could not withdraw the
\* key: a Node that has applied the revision of a revocation (or a later one)
\* does not obey the key, and an acceptance the Server did not confirm leaves
\* nothing else behind.
TrustIsBacked ==
    \A n \in Nodes, c \in Clients :
        trusted[n][c] = "active" =>
            \/ clients[c] = "active"
            \/ clients[c] = "revoked" /\ applied[n] < revokedAt[c]
            \/ Deciding(n, c)
            \/ <<n, c>> \in stranded

\* A key that a Node revoked knowing of the Server's revocation comes back
\* only when a person at that Node accepts the client again: "Older
\* revisions can never restore revoked keys", whatever the order in which
\* overlapping manifests arrive.
RevocationSticks ==
    [][\A n \in Nodes, c \in Clients :
         (/\ clients[c] = "revoked" /\ applied[n] >= revokedAt[c]
          /\ trusted[n][c] # "active" /\ trusted'[n][c] = "active")
             => \E d \in Deciders : /\ decide[d].pc = "trust" /\ decide'[d].pc = "post"
                                    /\ decide[d].node = n /\ decide[d].client = c]_vars

\* Every Node stops obeying a revoked client, through failed polls, lost
\* answers and late decisions; the key that was not withdrawn is the exception
\* TrustIsBacked names.
RevocationReaches ==
    \A c \in Clients, n \in Nodes :
        clients[c] = "revoked" ~> (trusted[n][c] # "active" \/ <<n, c>> \in stranded)

=============================================================================
