---------------------------- MODULE TrustProofs ----------------------------
(***************************************************************************)
(* The safety properties of Trust, for any Nodes, clients, pairings and    *)
(* calls, and without the bounds of the model checker.                     *)
(***************************************************************************)
EXTENDS Trust, TLAPS

USE TrustAssumption

-----------------------------------------------------------------------------
(* Types.  A claimed pairing names a client, which is what a Decide reads.   *)

ClaimedHasClient ==
    \A p \in Pairings : pairing[p].status = "claimed" => pairing[p].client \in Clients

Types == TypeOK /\ ClaimedHasClient

LEMMA IdleIsNoJob == Idle \notin Jobs /\ \A j \in Jobs : j.pc # "idle"
BY DEF Idle, Jobs

\* A call under way is a job with the fields of one.
LEMMA JobFields ==
    ASSUME TypeOK, NEW d \in Deciders, decide[d].pc # "idle"
    PROVE  /\ decide[d] \in Jobs
           /\ decide[d].node \in Nodes /\ decide[d].client \in Clients
           /\ decide[d].pairing \in Pairings /\ decide[d].decision \in Decisions
           /\ RequestOf(d) \in Requests
<1>1. decide[d] \in Jobs \union {Idle} /\ decide[d] # Idle
  BY DEF TypeOK, Idle
<1>2. decide[d] \in Jobs
  BY <1>1
<1>3. /\ decide[d].node \in Nodes /\ decide[d].client \in Clients
      /\ decide[d].pairing \in Pairings /\ decide[d].decision \in Decisions
  BY <1>2 DEF Jobs
<1> QED
  BY <1>2, <1>3 DEF RequestOf, Requests

\* What a call may become.
LEMMA JobMoves ==
    ASSUME TypeOK, NEW d \in Deciders, NEW pc \in {"post", "failed"}, decide[d].pc # "idle"
    PROVE  /\ [decide EXCEPT ![d].pc = pc] \in [Deciders -> Jobs \union {Idle}]
           /\ [decide EXCEPT ![d] = Idle] \in [Deciders -> Jobs \union {Idle}]
<1>1. decide[d] \in Jobs /\ decide \in [Deciders -> Jobs \union {Idle}]
  BY JobFields DEF TypeOK
<1>2. [decide[d] EXCEPT !.pc = pc] \in Jobs
  BY <1>1 DEF Jobs
<1> QED
  BY <1>1, <1>2

Rows == [status : PairingStatuses, node : Nodes \union {NoNode}, client : Clients \union {NoClient}]

\* Closing a pairing changes its status only.
LEMMA CloseTypes ==
    ASSUME Types, NEW p \in Pairings, NEW s \in {"approved", "declined", "expired"},
           pairing' = [pairing EXCEPT ![p].status = s]
    PROVE  /\ pairing' \in [Pairings -> Rows]
           /\ ClaimedHasClient'
           /\ pairing'[p].status = s
           /\ \A q \in Pairings : q # p => pairing'[q] = pairing[q]
<1>1. pairing \in [Pairings -> Rows] /\ pairing[p] \in Rows
  BY DEF Types, TypeOK, Rows
<1>2. [pairing[p] EXCEPT !.status = s] \in Rows
  BY <1>1 DEF Rows, PairingStatuses
<1>3. pairing' = [pairing EXCEPT ![p] = [pairing[p] EXCEPT !.status = s]]
  OBVIOUS
<1>4. pairing' \in [Pairings -> Rows]
  BY <1>1, <1>2, <1>3
<1>5. [pairing[p] EXCEPT !.status = s].status = s
  BY <1>1 DEF Rows
<1>6. pairing'[p].status = s
  BY <1>1, <1>3, <1>5
<1>7. \A q \in Pairings : q # p => pairing'[q] = pairing[q]
  BY <1>1, <1>3
<1>8. ClaimedHasClient'
  BY <1>6, <1>7 DEF Types, ClaimedHasClient
<1> QED
  BY <1>4, <1>6, <1>7, <1>8

LEMMA ResolveTypes ==
    ASSUME Types, NEW r \in Requests, Resolve(r)
    PROVE  /\ pairing' \in [Pairings -> Rows]
           /\ ClaimedHasClient'
           /\ clients' \in [Clients -> Statuses]
           /\ revision' \in Nat
           /\ revokedAt' \in [Clients -> Nat]
<1>1. r.pairing \in Pairings /\ r.client \in Clients
  BY DEF Requests
<1>2. PICK s \in {"approved", "declined", "expired"} : pairing' = [pairing EXCEPT ![r.pairing].status = s]
  BY DEF Resolve
<1>3. pairing' \in [Pairings -> Rows] /\ ClaimedHasClient'
  BY <1>1, <1>2, CloseTypes
<1> QED
  BY <1>1, <1>3 DEF Resolve, Types, TypeOK, Statuses

LEMMA RevokeTypes ==
    ASSUME Types, NEW c \in Clients, RevokeAtServer(c)
    PROVE  /\ clients' \in [Clients -> Statuses]
           /\ revision' \in Nat
           /\ revokedAt' \in [Clients -> Nat]
BY DEF RevokeAtServer, NextRevision, Types, TypeOK, Statuses

LEMMA TypesInit == Init => Types
BY DEF Init, Types, TypeOK, ClaimedHasClient, Statuses, PairingStatuses, NoPairing

\* One step per action.
LEMMA TypesNext == Types /\ [Next]_vars => Types'
<1> SUFFICES ASSUME Types, [Next]_vars PROVE Types'
  OBVIOUS
<1> USE DEF server, node, calls
<1>1. ASSUME NEW n \in Nodes, NEW p \in Pairings, Create(n, p) PROVE Types'
  BY <1>1 DEF Create, Types, TypeOK, ClaimedHasClient, PairingStatuses
<1>2. ASSUME NEW c \in Clients, NEW p \in Pairings, ClaimPairing(c, p) PROVE Types'
  <2>1. pairing[p].node \in Nodes \union {NoNode}
    BY DEF Types, TypeOK
  <2>2. pairing' = [pairing EXCEPT ![p] = [status |-> "claimed", node |-> pairing[p].node, client |-> c]]
    BY <1>2 DEF ClaimPairing
  <2>3. [status |-> "claimed", node |-> pairing[p].node, client |-> c] \in Rows
    BY <2>1 DEF Rows, PairingStatuses
  <2>4. pairing' \in [Pairings -> Rows]
    BY <2>2, <2>3 DEF Types, TypeOK, Rows
  <2>5. ClaimedHasClient'
    BY <2>2 DEF Types, TypeOK, ClaimedHasClient
  <2> QED
    BY <1>2, <2>4, <2>5 DEF ClaimPairing, Types, TypeOK, Rows
<1>3. ASSUME NEW p \in Pairings, ExpirePairing(p) PROVE Types'
  <2>1. pairing' \in [Pairings -> Rows] /\ ClaimedHasClient'
    BY <1>3, CloseTypes DEF ExpirePairing
  <2> QED
    BY <1>3, <2>1 DEF ExpirePairing, Types, TypeOK, Rows
<1>4. ASSUME NEW d \in Deciders, NEW n \in Nodes, NEW p \in Pairings, NEW decision \in Decisions,
             Pending(d, n, p, decision)
      PROVE  Types'
  <2>1. pairing[p].client \in Clients
    BY <1>4 DEF Pending, Types, ClaimedHasClient
  <2>2. ASSUME NEW pc \in {"trust", "post"}
        PROVE  [pc |-> pc, node |-> n, pairing |-> p, client |-> pairing[p].client,
                decision |-> decision] \in Jobs
    BY <2>1 DEF Jobs
  <2>3. PICK pc \in {"trust", "post"} :
            decide' = [decide EXCEPT ![d] = [pc |-> pc, node |-> n, pairing |-> p,
                                  client |-> pairing[p].client, decision |-> decision]]
    BY <1>4 DEF Pending
  <2>4. decide' \in [Deciders -> Jobs \union {Idle}]
    BY <2>2, <2>3 DEF Types, TypeOK
  <2> QED
    BY <1>4, <2>4 DEF Pending, Types, TypeOK, ClaimedHasClient
<1>5. ASSUME NEW d \in Deciders, PutTrustedKey(d) PROVE Types'
  <2>1. decide[d].node \in Nodes /\ decide[d].client \in Clients
    BY <1>5, JobFields DEF PutTrustedKey, Types
  <2>2. decide' \in [Deciders -> Jobs \union {Idle}]
    BY <1>5, JobMoves DEF PutTrustedKey, Types
  <2>3. trusted' \in [Nodes -> [Clients -> Statuses]]
    BY <1>5, <2>1 DEF PutTrustedKey, Types, TypeOK, Statuses
  <2> QED
    BY <1>5, <2>2, <2>3 DEF PutTrustedKey, Types, TypeOK, ClaimedHasClient
<1>6. ASSUME NEW d \in Deciders, ServerResolves(d) PROVE Types'
  <2>1. RequestOf(d) \in Requests
    BY <1>6, JobFields DEF ServerResolves, Types
  <2>2. decide' \in [Deciders -> Jobs \union {Idle}]
    BY <1>6, JobMoves DEF ServerResolves, Types
  <2>3. Resolve(RequestOf(d))
    BY <1>6 DEF ServerResolves
  <2> QED
    BY <1>6, <2>1, <2>2, <2>3, ResolveTypes DEF ServerResolves, Types, TypeOK, Rows
<1>7. ASSUME NEW d \in Deciders, CallFails(d) PROVE Types'
  <2>1. RequestOf(d) \in Requests
    BY <1>7, JobFields DEF CallFails, Types
  <2>2. decide' \in [Deciders -> Jobs \union {Idle}]
    BY <1>7, JobMoves DEF CallFails, Types
  <2>3. late' \subseteq Requests
    BY <1>7, <2>1 DEF CallFails, Types, TypeOK
  <2> QED
    BY <1>7, <2>2, <2>3 DEF CallFails, Types, TypeOK, ClaimedHasClient
<1>8. ASSUME NEW d \in Deciders, Withdraw(d) PROVE Types'
  <2>1. decide[d].node \in Nodes /\ decide[d].client \in Clients
    BY <1>8, JobFields DEF Withdraw, Types
  <2>2. decide' \in [Deciders -> Jobs \union {Idle}]
    BY <1>8, JobMoves DEF Withdraw, Types
  <2>3. \/ trusted' = trusted
        \/ trusted' = [trusted EXCEPT ![decide[d].node][decide[d].client] = "revoked"]
    BY <1>8 DEF Withdraw, Withdrawn
  <2>4. trusted' \in [Nodes -> [Clients -> Statuses]]
    <3>1. trusted \in [Nodes -> [Clients -> Statuses]] /\ "revoked" \in Statuses
      BY DEF Types, TypeOK, Statuses
    <3>2. ASSUME NEW n \in Nodes, NEW c \in Clients
          PROVE  [trusted EXCEPT ![n][c] = "revoked"] \in [Nodes -> [Clients -> Statuses]]
      BY <3>1
    <3> QED
      BY <2>1, <2>3, <3>1, <3>2
  <2>5. stranded' \subseteq stranded
    BY <1>8 DEF Withdraw
  <2> QED
    BY <1>8, <2>2, <2>4, <2>5 DEF Withdraw, Types, TypeOK, ClaimedHasClient
<1>19. ASSUME NEW d \in Deciders, WithdrawFails(d) PROVE Types'
  <2>1. decide[d].node \in Nodes /\ decide[d].client \in Clients
    BY <1>19, JobFields DEF WithdrawFails, Types
  <2>2. decide' \in [Deciders -> Jobs \union {Idle}]
    BY <1>19, JobMoves DEF WithdrawFails, Types
  <2>3. stranded' \subseteq Nodes \X Clients
    BY <1>19, <2>1 DEF WithdrawFails, Types, TypeOK
  <2> QED
    BY <1>19, <2>2, <2>3 DEF WithdrawFails, Types, TypeOK, ClaimedHasClient
<1>9. ASSUME NEW r \in late, ServerDecidesLate(r) PROVE Types'
  <2>1. r \in Requests /\ late' \subseteq Requests
    BY <1>9 DEF ServerDecidesLate, Types, TypeOK
  <2>2. CASE Resolve(r)
    BY <1>9, <2>1, <2>2, ResolveTypes DEF ServerDecidesLate, Types, TypeOK, Rows
  <2>3. CASE UNCHANGED server
    BY <1>9, <2>1, <2>3 DEF ServerDecidesLate, Types, TypeOK, ClaimedHasClient
  <2> QED
    BY <1>9, <2>2, <2>3 DEF ServerDecidesLate
<1>10. ASSUME NEW n \in Nodes, NEW c \in Clients, Revoke(n, c) PROVE Types'
  BY <1>10 DEF Revoke, Types, TypeOK, ClaimedHasClient, Statuses
<1>11. ASSUME NEW c \in Clients, ServerRevokes(c) PROVE Types'
  <2>1. CASE RevokeAtServer(c)
    BY <1>11, <2>1, RevokeTypes DEF ServerRevokes, Types, TypeOK, ClaimedHasClient
  <2>2. CASE UNCHANGED <<clients, revision, revokedAt>>
    BY <1>11, <2>2 DEF ServerRevokes, Types, TypeOK, ClaimedHasClient
  <2> QED
    BY <1>11, <2>1, <2>2 DEF ServerRevokes
<1>12. ASSUME NEW c \in Clients, AdminRevokeControlClient(c) PROVE Types'
  <2>1. RevokeAtServer(c)
    BY <1>12 DEF AdminRevokeControlClient
  <2> QED
    BY <1>12, <2>1, RevokeTypes DEF AdminRevokeControlClient, Types, TypeOK, ClaimedHasClient
<1>13. ASSUME NEW n \in Nodes, StartSync(n) PROVE Types'
  BY <1>13 DEF StartSync, Types, TypeOK, ClaimedHasClient
<1>14. ASSUME NEW n \in Nodes, NEW r \in fetching[n], ReadRows(n, r) PROVE Types'
  <2>1. r \in Nat /\ clients \in [Clients -> Statuses]
    BY DEF Types, TypeOK
  <2>2. [rev |-> r, rows |-> clients] \in Manifests
    BY <2>1 DEF Manifests
  <2>3. manifests' \in [Nodes -> SUBSET Manifests]
    BY <1>14, <2>2 DEF ReadRows, Types, TypeOK
  <2> QED
    BY <1>14, <2>3 DEF ReadRows, Types, TypeOK, ClaimedHasClient
<1>15. ASSUME NEW n \in Nodes, SyncFails(n) PROVE Types'
  <2>1. CASE \E r \in fetching[n] : fetching' = [fetching EXCEPT ![n] = @ \ {r}] /\ UNCHANGED manifests
    <3>1. fetching' \in [Nodes -> SUBSET Nat] /\ UNCHANGED manifests
      BY <2>1 DEF Types, TypeOK
    <3> QED
      BY <1>15, <3>1 DEF SyncFails, Types, TypeOK, ClaimedHasClient
  <2>2. CASE \E m \in manifests[n] : manifests' = [manifests EXCEPT ![n] = @ \ {m}] /\ UNCHANGED fetching
    <3>1. manifests' \in [Nodes -> SUBSET Manifests] /\ UNCHANGED fetching
      BY <2>2 DEF Types, TypeOK
    <3> QED
      BY <1>15, <3>1 DEF SyncFails, Types, TypeOK, ClaimedHasClient
  <2> QED
    BY <1>15, <2>1, <2>2 DEF SyncFails
<1>16. ASSUME NEW n \in Nodes, NEW m \in manifests[n], ReconcileTrustManifest(n, m) PROVE Types'
  <2>1. m.rev \in Nat /\ m.rows \in [Clients -> Statuses]
    BY DEF Types, TypeOK, Manifests
  <2>2. Reconciled(n, m) \in [Clients -> Statuses]
    BY <2>1 DEF Reconciled, Types, TypeOK, Statuses
  <2>3. /\ trusted' \in [Nodes -> [Clients -> Statuses]]
        /\ applied' \in [Nodes -> Nat \union {-1}]
        /\ stranded' \subseteq stranded
    <3> trusted \in [Nodes -> [Clients -> Statuses]] /\ applied \in [Nodes -> Nat \union {-1}]
      BY DEF Types, TypeOK
    <3>1. CASE Applies(n, m)
      <4>1. /\ trusted' = [trusted EXCEPT ![n] = Reconciled(n, m)]
            /\ applied' = [applied EXCEPT ![n] = m.rev]
            /\ stranded' = {s \in stranded : s[1] # n}
        BY <1>16, <3>1, Zenon DEF ReconcileTrustManifest
      <4>2. trusted' \in [Nodes -> [Clients -> Statuses]]
        BY <2>2, <4>1
      <4>3. applied' \in [Nodes -> Nat \union {-1}]
        BY <2>1, <4>1
      <4> QED
        BY <4>1, <4>2, <4>3, Zenon
    <3>2. CASE ~Applies(n, m)
      BY <1>16, <3>2 DEF ReconcileTrustManifest, Types, TypeOK
    <3> QED
      BY <3>1, <3>2
  <2>4. manifests' \in [Nodes -> SUBSET Manifests]
    BY <1>16 DEF ReconcileTrustManifest, Types, TypeOK
  <2> QED
    BY <1>16, <2>3, <2>4 DEF ReconcileTrustManifest, Types, TypeOK, ClaimedHasClient
<1>17. ASSUME NEW n \in Nodes, Crash(n) PROVE Types'
  <2>1. \A d \in Deciders : decide[d].pc \in {"post", "failed"} =>
            RequestOf(d) \in Requests /\ decide[d].client \in Clients
    BY JobFields DEF Types
  <2>2. late' \subseteq Requests
    BY <1>17, <2>1 DEF Crash, At, Types, TypeOK
  <2>3. stranded' \subseteq Nodes \X Clients
    BY <1>17, <2>1 DEF Crash, At, Types, TypeOK
  <2>4. decide' \in [Deciders -> Jobs \union {Idle}]
    BY <1>17 DEF Crash, Types, TypeOK
  <2> QED
    BY <1>17, <2>2, <2>3, <2>4 DEF Crash, Types, TypeOK, ClaimedHasClient
<1>18. CASE UNCHANGED vars
  BY <1>18 DEF vars, Types, TypeOK, ClaimedHasClient
<1> QED
  BY <1>1, <1>2, <1>3, <1>4, <1>5, <1>6, <1>7, <1>8, <1>9, <1>10, <1>11, <1>12, <1>13, <1>14,
     <1>15, <1>16, <1>17, <1>18, <1>19 DEF Next, PairingStep, DecideStep, SyncStep

\* The state of Trust keeps its types: calls carry the fields of the pairing
\* they are about, and the stores hold known statuses only.
THEOREM TypeCorrect == Spec => []TypeOK
<1>1. Types => TypeOK
  BY DEF Types
<1> QED
  BY TypesInit, TypesNext, <1>1, PTL DEF Spec

-----------------------------------------------------------------------------
(* How the Server's clients change in one step: a client is admitted once   *)
(* and revoked once, by a revision beyond every earlier one.                *)

Progress ==
    /\ revision' >= revision
    /\ \A c \in Clients :
          \/ clients'[c] = clients[c] /\ revokedAt'[c] = revokedAt[c]
          \/ clients[c] = "none" /\ clients'[c] = "active"
          \/ clients[c] = "active" /\ clients'[c] = "revoked" /\ revokedAt'[c] > revision

LEMMA SameClients ==
    ASSUME Types, UNCHANGED <<clients, revision, revokedAt>>
    PROVE  Progress
BY DEF Progress, Types, TypeOK

LEMMA ResolveProgress ==
    ASSUME Types, NEW r \in Requests, Resolve(r)
    PROVE  Progress /\ (r.decision = "accept" => clients'[r.client] = "active")
<1>1. r.client \in Clients /\ clients \in [Clients -> Statuses] /\ revision \in Nat
  BY DEF Requests, Types, TypeOK
<1>2. revokedAt' = revokedAt
  BY DEF Resolve
<1>3. CASE Admits(r)
  <2>1. clients' = [clients EXCEPT ![r.client] = "active"] /\ revision' = revision + 1
    BY <1>3 DEF Resolve
  <2>2. clients[r.client] = "none"
    BY <1>3 DEF Admits
  <2> QED
    BY <1>1, <1>2, <2>1, <2>2 DEF Progress
<1>4. CASE ~Admits(r)
  <2>1. clients' = clients /\ revision' = revision
    BY <1>4 DEF Resolve
  <2>2. r.decision = "accept" => clients[r.client] = "active"
    BY <1>1, <1>4 DEF Resolve, Resolvable, Admits, Statuses
  <2> QED
    BY <1>1, <1>2, <2>1, <2>2 DEF Progress
<1> QED
  BY <1>3, <1>4

LEMMA RevokeProgress ==
    ASSUME Types, NEW c \in Clients, RevokeAtServer(c)
    PROVE  Progress
BY DEF RevokeAtServer, NextRevision, Progress, Types, TypeOK

LEMMA ClientsMove == Types /\ [Next]_vars => Progress
<1> SUFFICES ASSUME Types, [Next]_vars PROVE Progress
  OBVIOUS
<1> USE DEF server, node, calls
<1>1. ASSUME NEW d \in Deciders, ServerResolves(d) PROVE Progress
  <2>1. RequestOf(d) \in Requests /\ Resolve(RequestOf(d))
    BY <1>1, JobFields DEF ServerResolves, Types
  <2> QED
    BY <2>1, ResolveProgress
<1>2. ASSUME NEW r \in late, ServerDecidesLate(r) PROVE Progress
  <2>1. r \in Requests
    BY DEF Types, TypeOK
  <2> QED
    BY <1>2, <2>1, ResolveProgress, SameClients DEF ServerDecidesLate
<1>3. ASSUME NEW c \in Clients, ServerRevokes(c) PROVE Progress
  BY <1>3, RevokeProgress, SameClients DEF ServerRevokes
<1>4. ASSUME NEW c \in Clients, AdminRevokeControlClient(c) PROVE Progress
  BY <1>4, RevokeProgress DEF AdminRevokeControlClient
<1>5. CASE UNCHANGED <<clients, revision, revokedAt>>
  BY <1>5, SameClients
<1>6. ASSUME NEW n \in Nodes, NEW p \in Pairings, Create(n, p) PROVE UNCHANGED <<clients, revision, revokedAt>>
  BY <1>6 DEF Create
<1>7. ASSUME NEW c \in Clients, NEW p \in Pairings, ClaimPairing(c, p) PROVE UNCHANGED <<clients, revision, revokedAt>>
  BY <1>7 DEF ClaimPairing
<1>8. ASSUME NEW p \in Pairings, ExpirePairing(p) PROVE UNCHANGED <<clients, revision, revokedAt>>
  BY <1>8 DEF ExpirePairing
<1>9. ASSUME NEW d \in Deciders, NEW n \in Nodes, NEW p \in Pairings, NEW decision \in Decisions,
             Pending(d, n, p, decision)
      PROVE  UNCHANGED <<clients, revision, revokedAt>>
  BY <1>9 DEF Pending
<1>10. ASSUME NEW d \in Deciders, PutTrustedKey(d) \/ CallFails(d) \/ Withdraw(d) \/ WithdrawFails(d)
       PROVE  UNCHANGED <<clients, revision, revokedAt>>
  BY <1>10 DEF PutTrustedKey, CallFails, Withdraw, WithdrawFails
<1>11. ASSUME NEW n \in Nodes, NEW c \in Clients, Revoke(n, c) PROVE UNCHANGED <<clients, revision, revokedAt>>
  BY <1>11 DEF Revoke
<1>12. ASSUME NEW n \in Nodes, SyncStep(n) PROVE UNCHANGED <<clients, revision, revokedAt>>
  BY <1>12 DEF SyncStep, StartSync, SyncFails, ReadRows, ReconcileTrustManifest
<1>13. ASSUME NEW n \in Nodes, Crash(n) PROVE UNCHANGED <<clients, revision, revokedAt>>
  BY <1>13 DEF Crash
<1>14. CASE UNCHANGED vars
  BY <1>5, <1>14 DEF vars
<1> QED
  BY <1>1, <1>2, <1>3, <1>4, <1>5, <1>6, <1>7, <1>8, <1>9, <1>10, <1>11, <1>12, <1>13, <1>14
     DEF Next, PairingStep, DecideStep

-----------------------------------------------------------------------------
(* Manifests on their way.  The revision is read before the rows, so a row  *)
(* that says active is out of date only when the revocation has a revision  *)
(* beyond the manifest's.                                                   *)

Backed(c, r) == clients[c] = "active" \/ (clients[c] = "revoked" /\ r < revokedAt[c])

Recent ==
    /\ \A n \in Nodes : applied[n] <= revision
    /\ \A n \in Nodes : \A r \in fetching[n] : r <= revision
    /\ \A n \in Nodes : \A m \in manifests[n] :
          m.rev <= revision /\ \A c \in Clients : m.rows[c] = "active" => Backed(c, m.rev)

\* How the calls of SyncTrust and the revision of a Node change in one step.
SyncMoves(n) ==
    /\ \A r \in fetching'[n] : r \in fetching[n] \/ r = revision
    /\ \A m \in manifests'[n] :
          \/ m \in manifests[n]
          \/ m.rev \in fetching[n] /\ m.rows = clients
    /\ applied'[n] = applied[n] \/ \E m \in manifests[n] : applied'[n] = m.rev

LEMMA NoSync ==
    ASSUME UNCHANGED <<fetching, manifests, applied>>, NEW n \in Nodes
    PROVE  SyncMoves(n)
BY DEF SyncMoves

LEMMA SyncsMove == Types /\ [Next]_vars => \A n \in Nodes : SyncMoves(n)
<1> SUFFICES ASSUME Types, [Next]_vars, NEW k \in Nodes PROVE SyncMoves(k)
  OBVIOUS
<1> USE DEF server, node, calls
<1>0. /\ fetching \in [Nodes -> SUBSET Nat] /\ manifests \in [Nodes -> SUBSET Manifests]
      /\ applied \in [Nodes -> Nat \union {-1}]
  BY DEF Types, TypeOK
<1>1. ASSUME NEW n \in Nodes, StartSync(n) PROVE SyncMoves(k)
  BY <1>0, <1>1 DEF StartSync, SyncMoves
<1>2. ASSUME NEW n \in Nodes, NEW r \in fetching[n], ReadRows(n, r) PROVE SyncMoves(k)
  BY <1>0, <1>2 DEF ReadRows, SyncMoves
<1>3. ASSUME NEW n \in Nodes, SyncFails(n) PROVE SyncMoves(k)
  <2>1. applied' = applied
    BY <1>3 DEF SyncFails
  <2>2. CASE \E r \in fetching[n] : fetching' = [fetching EXCEPT ![n] = @ \ {r}] /\ UNCHANGED manifests
    BY <1>0, <2>1, <2>2 DEF SyncMoves
  <2>3. CASE \E m \in manifests[n] : manifests' = [manifests EXCEPT ![n] = @ \ {m}] /\ UNCHANGED fetching
    BY <1>0, <2>1, <2>3 DEF SyncMoves
  <2> QED
    BY <1>3, <2>2, <2>3 DEF SyncFails
<1>4. ASSUME NEW n \in Nodes, NEW m \in manifests[n], ReconcileTrustManifest(n, m) PROVE SyncMoves(k)
  <2>1. fetching' = fetching /\ manifests' = [manifests EXCEPT ![n] = @ \ {m}]
    BY <1>4 DEF ReconcileTrustManifest
  <2>2. applied' = applied \/ applied' = [applied EXCEPT ![n] = m.rev]
    BY <1>4 DEF ReconcileTrustManifest
  <2> QED
    BY <1>0, <2>1, <2>2 DEF SyncMoves
<1>5. ASSUME NEW n \in Nodes, Crash(n) PROVE SyncMoves(k)
  <2>1. /\ fetching' = [fetching EXCEPT ![n] = {}] /\ manifests' = [manifests EXCEPT ![n] = {}]
        /\ applied' = applied
    BY <1>5 DEF Crash
  <2> QED
    BY <1>0, <2>1 DEF SyncMoves
<1>6. ASSUME NEW n \in Nodes, NEW p \in Pairings, Create(n, p) PROVE SyncMoves(k)
  BY <1>6, NoSync DEF Create
<1>7. ASSUME NEW c \in Clients, NEW p \in Pairings, ClaimPairing(c, p) PROVE SyncMoves(k)
  BY <1>7, NoSync DEF ClaimPairing
<1>8. ASSUME NEW p \in Pairings, ExpirePairing(p) PROVE SyncMoves(k)
  BY <1>8, NoSync DEF ExpirePairing
<1>9. ASSUME NEW d \in Deciders, NEW n \in Nodes, NEW p \in Pairings, NEW decision \in Decisions,
             Pending(d, n, p, decision)
      PROVE  SyncMoves(k)
  BY <1>9, NoSync DEF Pending
<1>10. ASSUME NEW d \in Deciders, DecideStep(d) PROVE SyncMoves(k)
  BY <1>10, NoSync DEF DecideStep, PutTrustedKey, ServerResolves, CallFails, Withdraw, WithdrawFails
<1>11. ASSUME NEW r \in late, ServerDecidesLate(r) PROVE SyncMoves(k)
  BY <1>11, NoSync DEF ServerDecidesLate
<1>12. ASSUME NEW n \in Nodes, NEW c \in Clients, Revoke(n, c) PROVE SyncMoves(k)
  BY <1>12, NoSync DEF Revoke
<1>13. ASSUME NEW c \in Clients, ServerRevokes(c) \/ AdminRevokeControlClient(c) PROVE SyncMoves(k)
  BY <1>13, NoSync DEF ServerRevokes, AdminRevokeControlClient
<1>14. CASE UNCHANGED vars
  BY <1>14, NoSync DEF vars
<1> QED
  BY <1>1, <1>2, <1>3, <1>4, <1>5, <1>6, <1>7, <1>8, <1>9, <1>10, <1>11, <1>12, <1>13, <1>14
     DEF Next, PairingStep, SyncStep

\* What backs a revision backs it after the step.
LEMMA StaysBacked ==
    ASSUME Types, Types', Progress, NEW c \in Clients, NEW r \in Int, r <= revision, Backed(c, r)
    PROVE  Backed(c, r)'
<1>1. revision \in Nat /\ revokedAt[c] \in Nat /\ revokedAt'[c] \in Nat
  BY DEF Types, TypeOK
<1>2. \/ clients'[c] = clients[c] /\ revokedAt'[c] = revokedAt[c]
      \/ clients[c] = "none" /\ clients'[c] = "active"
      \/ clients[c] = "active" /\ clients'[c] = "revoked" /\ revokedAt'[c] > revision
  BY DEF Progress
<1> QED
  BY <1>1, <1>2 DEF Backed

LEMMA RecentNext == Types /\ Types' /\ Recent /\ [Next]_vars => Recent'
<1> SUFFICES ASSUME Types, Types', Recent, [Next]_vars PROVE Recent'
  OBVIOUS
<1>1. Progress /\ \A n \in Nodes : SyncMoves(n)
  BY ClientsMove, SyncsMove
<1>2. revision \in Nat /\ revision' \in Nat /\ revision' >= revision
  BY <1>1 DEF Progress, Types, TypeOK
<1>3. ASSUME NEW n \in Nodes, NEW r \in fetching'[n] PROVE r <= revision'
  <2>1. r \in Nat
    BY DEF Types, TypeOK
  <2>2. r <= revision
    BY <1>1, <1>2, <2>1 DEF SyncMoves, Recent
  <2> QED
    BY <1>2, <2>1, <2>2
<1>4. ASSUME NEW n \in Nodes, NEW m \in manifests'[n]
      PROVE  m.rev <= revision' /\ \A c \in Clients : m.rows[c] = "active" => Backed(c, m.rev)'
  <2>0. m.rev \in Nat
    BY DEF Types, TypeOK, Manifests
  <2>1. m.rev <= revision /\ \A c \in Clients : m.rows[c] = "active" => Backed(c, m.rev)
    BY <1>1 DEF SyncMoves, Recent, Backed
  <2>2. m.rev <= revision'
    BY <1>2, <2>0, <2>1
  <2>3. ASSUME NEW c \in Clients, m.rows[c] = "active" PROVE Backed(c, m.rev)'
    BY <1>1, <2>0, <2>1, <2>3, StaysBacked
  <2> QED
    BY <2>2, <2>3
<1>5. ASSUME NEW n \in Nodes PROVE applied'[n] <= revision'
  <2>1. applied'[n] \in Int /\ applied[n] \in Int
    BY DEF Types, TypeOK
  <2>2. applied'[n] <= revision
    BY <1>1 DEF SyncMoves, Recent
  <2> QED
    BY <1>2, <2>1, <2>2
<1> QED
  BY <1>3, <1>4, <1>5 DEF Recent

-----------------------------------------------------------------------------
(* Calls of Decide.  Only an accept puts a key.                              *)

Trusting == \A d \in Deciders : decide[d].pc = "trust" => decide[d].decision = "accept"

LEMMA PcOnly ==
    ASSUME TypeOK, NEW d \in Deciders, decide[d].pc # "idle", NEW pc \in {"post", "failed"},
           decide' = [decide EXCEPT ![d].pc = pc]
    PROVE  /\ decide'[d].pc = pc
           /\ decide'[d].node = decide[d].node /\ decide'[d].client = decide[d].client
           /\ decide'[d].decision = decide[d].decision
           /\ \A e \in Deciders : e # d => decide'[e] = decide[e]
<1>1. decide[d] \in Jobs /\ decide \in [Deciders -> Jobs \union {Idle}]
  BY JobFields DEF TypeOK
<1>2. decide'[d] = [decide[d] EXCEPT !.pc = pc] /\ \A e \in Deciders : e # d => decide'[e] = decide[e]
  BY <1>1
<1>3. /\ [decide[d] EXCEPT !.pc = pc].pc = pc
      /\ [decide[d] EXCEPT !.pc = pc].node = decide[d].node
      /\ [decide[d] EXCEPT !.pc = pc].client = decide[d].client
      /\ [decide[d] EXCEPT !.pc = pc].decision = decide[d].decision
  BY <1>1 DEF Jobs
<1> QED
  BY <1>2, <1>3

LEMMA ToIdle ==
    ASSUME TypeOK, NEW d \in Deciders, decide' = [decide EXCEPT ![d] = Idle]
    PROVE  decide'[d].pc = "idle" /\ \A e \in Deciders : e # d => decide'[e] = decide[e]
BY DEF TypeOK, Idle

LEMMA TrustingNext == Types /\ Trusting /\ [Next]_vars => Trusting'
<1> SUFFICES ASSUME Types, Trusting, [Next]_vars PROVE Trusting'
  OBVIOUS
<1> USE DEF server, node, calls
<1>0. decide \in [Deciders -> Jobs \union {Idle}] /\ TypeOK
  BY DEF Types, TypeOK
<1>1. ASSUME NEW d \in Deciders, NEW n \in Nodes, NEW p \in Pairings, NEW decision \in Decisions,
             Pending(d, n, p, decision)
      PROVE  Trusting'
  BY <1>0, <1>1 DEF Pending, Trusting, Decisions
<1>2. ASSUME NEW d \in Deciders, PutTrustedKey(d) PROVE Trusting'
  BY <1>0, <1>2, PcOnly DEF PutTrustedKey, Trusting
<1>3. ASSUME NEW d \in Deciders, ServerResolves(d) PROVE Trusting'
  BY <1>0, <1>3, PcOnly, ToIdle DEF ServerResolves, Trusting
<1>4. ASSUME NEW d \in Deciders, CallFails(d) PROVE Trusting'
  BY <1>0, <1>4, PcOnly DEF CallFails, Trusting
<1>5. ASSUME NEW d \in Deciders, Withdraw(d) PROVE Trusting'
  BY <1>0, <1>5, ToIdle DEF Withdraw, Trusting
<1>18. ASSUME NEW d \in Deciders, WithdrawFails(d) PROVE Trusting'
  BY <1>0, <1>18, ToIdle DEF WithdrawFails, Trusting
<1>6. ASSUME NEW n \in Nodes, Crash(n) PROVE Trusting'
  BY <1>0, <1>6 DEF Crash, Trusting, Idle
<1>7. CASE decide' = decide
  BY <1>7 DEF Trusting
<1>8. ASSUME NEW n \in Nodes, NEW p \in Pairings, Create(n, p) PROVE decide' = decide
  BY <1>8 DEF Create
<1>9. ASSUME NEW c \in Clients, NEW p \in Pairings, ClaimPairing(c, p) PROVE decide' = decide
  BY <1>9 DEF ClaimPairing
<1>10. ASSUME NEW p \in Pairings, ExpirePairing(p) PROVE decide' = decide
  BY <1>10 DEF ExpirePairing
<1>11. ASSUME NEW r \in late, ServerDecidesLate(r) PROVE decide' = decide
  BY <1>11 DEF ServerDecidesLate
<1>12. ASSUME NEW n \in Nodes, NEW c \in Clients, Revoke(n, c) PROVE decide' = decide
  BY <1>12 DEF Revoke
<1>13. ASSUME NEW c \in Clients, ServerRevokes(c) \/ AdminRevokeControlClient(c) PROVE decide' = decide
  BY <1>13 DEF ServerRevokes, AdminRevokeControlClient
<1>14. ASSUME NEW n \in Nodes, SyncStep(n) PROVE decide' = decide
  BY <1>14 DEF SyncStep, StartSync, SyncFails, ReadRows, ReconcileTrustManifest
<1>15. CASE UNCHANGED vars
  BY <1>7, <1>15 DEF vars
<1> QED
  BY <1>1, <1>2, <1>3, <1>4, <1>5, <1>6, <1>7, <1>8, <1>9, <1>10, <1>11, <1>12, <1>13, <1>14, <1>15,
     <1>18 DEF Next, PairingStep, DecideStep

-----------------------------------------------------------------------------
(* How a key comes to be active, or stays so.                                *)

KeyMoves(n, c) ==
    trusted'[n][c] = "active" =>
        \/ Deciding(n, c)'
        \/ \E m \in manifests[n] :
              /\ m.rows[c] = "active" /\ applied'[n] = m.rev /\ m.rev > applied[n]
              /\ UNCHANGED <<clients, revokedAt>>
        \/ /\ trusted[n][c] = "active" /\ applied'[n] = applied[n]
           /\ Deciding(n, c) => (clients'[c] = "active" \/ <<n, c>> \in stranded')
           /\ <<n, c>> \in stranded => <<n, c>> \in stranded'

LEMMA NoKeys ==
    ASSUME UNCHANGED <<trusted, applied, decide, stranded>>, NEW n \in Nodes, NEW c \in Clients
    PROVE  KeyMoves(n, c)
BY DEF KeyMoves, Deciding

\* A step that changes the call d and no other keeps the other acceptances.
LEMMA OtherDecides ==
    ASSUME NEW d \in Deciders, NEW n \in Nodes, NEW c \in Clients,
           \A e \in Deciders : e # d => decide'[e] = decide[e],
           Deciding(n, c), ~Deciding(n, c)'
    PROVE  /\ decide[d].pc \in {"post", "failed"}
           /\ decide[d].node = n /\ decide[d].client = c
           /\ decide[d].decision = "accept"
<1>1. PICK e \in Deciders : /\ decide[e].pc \in {"post", "failed"}
                            /\ decide[e].node = n /\ decide[e].client = c
                            /\ decide[e].decision = "accept"
  BY DEF Deciding
<1>2. e = d
  BY <1>1 DEF Deciding
<1> QED
  BY <1>1, <1>2

LEMMA KeysMove == Types /\ Trusting /\ [Next]_vars => \A n \in Nodes, c \in Clients : KeyMoves(n, c)
<1> SUFFICES ASSUME Types, Trusting, [Next]_vars, NEW k \in Nodes, NEW a \in Clients PROVE KeyMoves(k, a)
  OBVIOUS
<1> USE DEF server, node, calls
<1>0. /\ trusted \in [Nodes -> [Clients -> Statuses]] /\ applied \in [Nodes -> Nat \union {-1}]
      /\ decide \in [Deciders -> Jobs \union {Idle}] /\ TypeOK
  BY DEF Types, TypeOK
<1>1. ASSUME NEW d \in Deciders, NEW n \in Nodes, NEW p \in Pairings, NEW decision \in Decisions,
             Pending(d, n, p, decision)
      PROVE  KeyMoves(k, a)
  <2>1. UNCHANGED <<trusted, applied, stranded>> /\ decide[d] = Idle
    BY <1>1 DEF Pending
  <2>2. \A e \in Deciders : e # d => decide'[e] = decide[e]
    BY <1>0, <1>1 DEF Pending
  <2>3. Deciding(k, a) => Deciding(k, a)'
    BY <2>1, <2>2, OtherDecides DEF Idle
  <2> QED
    BY <2>1, <2>3 DEF KeyMoves
<1>2. ASSUME NEW d \in Deciders, PutTrustedKey(d) PROVE KeyMoves(k, a)
  <2>1. /\ trusted' = [trusted EXCEPT ![decide[d].node][decide[d].client] = "active"]
        /\ UNCHANGED <<applied, stranded>> /\ decide' = [decide EXCEPT ![d].pc = "post"]
        /\ decide[d].pc = "trust" /\ decide[d].decision = "accept"
    BY <1>2 DEF PutTrustedKey, Trusting
  <2>2. decide[d].node \in Nodes /\ decide[d].client \in Clients
    BY <1>0, <2>1, JobFields
  <2>3. /\ decide'[d].pc = "post" /\ decide'[d].node = decide[d].node
        /\ decide'[d].client = decide[d].client /\ decide'[d].decision = "accept"
        /\ \A e \in Deciders : e # d => decide'[e] = decide[e]
    BY <1>0, <2>1, PcOnly
  <2>4. CASE k = decide[d].node /\ a = decide[d].client
    BY <2>3, <2>4 DEF KeyMoves, Deciding
  <2>5. CASE ~(k = decide[d].node /\ a = decide[d].client)
    <3>1. trusted'[k][a] = trusted[k][a]
      BY <1>0, <2>1, <2>2, <2>5
    <3>2. Deciding(k, a) => Deciding(k, a)'
      BY <2>1, <2>3, OtherDecides
    <3> QED
      BY <2>1, <3>1, <3>2 DEF KeyMoves
  <2> QED
    BY <2>4, <2>5
<1>3. ASSUME NEW d \in Deciders, ServerResolves(d) PROVE KeyMoves(k, a)
  <2>1. UNCHANGED <<trusted, applied, stranded>> /\ decide[d].pc = "post"
    BY <1>3 DEF ServerResolves
  <2>2. RequestOf(d) \in Requests /\ Resolve(RequestOf(d))
    BY <1>0, <1>3, <2>1, JobFields DEF ServerResolves
  <2>3. decide[d].decision = "accept" => clients'[decide[d].client] = "active"
    BY <2>2, ResolveProgress DEF RequestOf
  <2>4. \A e \in Deciders : e # d => decide'[e] = decide[e]
    BY <1>0, <1>3, <2>1, PcOnly, ToIdle DEF ServerResolves
  <2>5. Deciding(k, a) => Deciding(k, a)' \/ clients'[a] = "active"
    BY <2>3, <2>4, OtherDecides
  <2> QED
    BY <2>1, <2>5 DEF KeyMoves
<1>4. ASSUME NEW d \in Deciders, CallFails(d) PROVE KeyMoves(k, a)
  <2>1. /\ UNCHANGED <<trusted, applied, stranded>> /\ decide[d].pc = "post"
        /\ decide' = [decide EXCEPT ![d].pc = "failed"]
    BY <1>4 DEF CallFails
  <2>2. /\ decide'[d].pc = "failed" /\ decide'[d].node = decide[d].node
        /\ decide'[d].client = decide[d].client /\ decide'[d].decision = decide[d].decision
        /\ \A e \in Deciders : e # d => decide'[e] = decide[e]
    BY <1>0, <2>1, PcOnly
  <2>3. Deciding(k, a) => Deciding(k, a)'
    BY <2>2, OtherDecides DEF Deciding
  <2> QED
    BY <2>1, <2>3 DEF KeyMoves
<1>5. ASSUME NEW d \in Deciders, Withdraw(d) PROVE KeyMoves(k, a)
  <2>1. /\ decide[d].pc = "failed" /\ applied' = applied /\ decide' = [decide EXCEPT ![d] = Idle]
    BY <1>5 DEF Withdraw
  <2>2. decide[d].node \in Nodes /\ decide[d].client \in Clients
    BY <1>0, <2>1, JobFields
  <2>3. \A e \in Deciders : e # d => decide'[e] = decide[e]
    BY <1>0, <2>1, ToIdle
  <2>4. CASE decide[d].decision = "accept"
    <3>1. /\ trusted' = [trusted EXCEPT ![decide[d].node][decide[d].client] = "revoked"]
          /\ stranded' = stranded \ {<<decide[d].node, decide[d].client>>}
      BY <1>5, <2>4 DEF Withdraw, Withdrawn
    <3>2. CASE k = decide[d].node /\ a = decide[d].client
      <4>1. trusted'[k][a] = "revoked"
        BY <1>0, <2>2, <3>1, <3>2
      <4> QED
        BY <4>1 DEF KeyMoves
    <3>3. CASE ~(k = decide[d].node /\ a = decide[d].client)
      <4>1. trusted'[k][a] = trusted[k][a]
        BY <1>0, <2>2, <3>1, <3>3
      <4>2. Deciding(k, a) => Deciding(k, a)'
        BY <2>3, <3>3, OtherDecides
      <4>3. <<k, a>> \in stranded => <<k, a>> \in stranded'
        BY <3>1, <3>3
      <4> QED
        BY <2>1, <4>1, <4>2, <4>3 DEF KeyMoves
    <3> QED
      BY <3>2, <3>3
  <2>5. CASE decide[d].decision # "accept"
    <3>1. UNCHANGED <<trusted, stranded>>
      BY <1>5, <2>5 DEF Withdraw
    <3>2. Deciding(k, a) => Deciding(k, a)'
      BY <2>3, <2>5, OtherDecides
    <3> QED
      BY <2>1, <3>1, <3>2 DEF KeyMoves
  <2> QED
    BY <2>4, <2>5
<1>17. ASSUME NEW d \in Deciders, WithdrawFails(d) PROVE KeyMoves(k, a)
  <2>1. /\ decide[d].pc = "failed" /\ UNCHANGED <<trusted, applied>>
        /\ decide' = [decide EXCEPT ![d] = Idle]
        /\ stranded' = stranded \union {<<decide[d].node, decide[d].client>>}
    BY <1>17 DEF WithdrawFails
  <2>2. \A e \in Deciders : e # d => decide'[e] = decide[e]
    BY <1>0, <2>1, ToIdle
  <2>3. CASE k = decide[d].node /\ a = decide[d].client
    BY <2>1, <2>3 DEF KeyMoves
  <2>4. CASE ~(k = decide[d].node /\ a = decide[d].client)
    <3>1. Deciding(k, a) => Deciding(k, a)'
      BY <2>2, <2>4, OtherDecides
    <3> QED
      BY <2>1, <3>1 DEF KeyMoves
  <2> QED
    BY <2>3, <2>4
<1>6. ASSUME NEW n \in Nodes, NEW m \in manifests[n], ReconcileTrustManifest(n, m) PROVE KeyMoves(k, a)
  <2>1. UNCHANGED <<clients, revokedAt, decide>>
    BY <1>6 DEF ReconcileTrustManifest
  <2>2. CASE ~Applies(n, m)
    BY <1>6, <2>1, <2>2, NoKeys DEF ReconcileTrustManifest
  <2>3. CASE Applies(n, m)
    <3>1. /\ trusted' = [trusted EXCEPT ![n] = Reconciled(n, m)]
          /\ applied' = [applied EXCEPT ![n] = m.rev]
          /\ stranded' = {s \in stranded : s[1] # n}
      BY <1>6, <2>3, Zenon DEF ReconcileTrustManifest
    <3>2. CASE k = n
      <4>1. trusted'[k][a] = Reconciled(n, m)[a] /\ applied'[k] = m.rev
        BY <1>0, <3>1, <3>2
      <4>2. Reconciled(n, m)[a] = "active" => m.rows[a] = "active"
        BY DEF Reconciled
      <4> QED
        BY <2>1, <2>3, <3>2, <4>1, <4>2 DEF KeyMoves, Applies
    <3>3. CASE k # n
      <4>1. trusted'[k] = trusted[k] /\ applied'[k] = applied[k]
        BY <1>0, <3>1, <3>3
      <4>2. <<k, a>> \in stranded => <<k, a>> \in stranded'
        BY <3>1, <3>3
      <4>3. Deciding(k, a) => Deciding(k, a)'
        BY <2>1 DEF Deciding
      <4> QED
        BY <4>1, <4>2, <4>3 DEF KeyMoves
    <3> QED
      BY <3>2, <3>3
  <2> QED
    BY <2>2, <2>3
<1>7. ASSUME NEW n \in Nodes, NEW c \in Clients, Revoke(n, c) PROVE KeyMoves(k, a)
  <2>1. /\ trusted' = [trusted EXCEPT ![n][c] = "revoked"] /\ stranded' = stranded \ {<<n, c>>}
        /\ UNCHANGED <<applied, decide>>
    BY <1>7 DEF Revoke
  <2>2. CASE k = n /\ a = c
    <3>1. trusted'[k][a] = "revoked"
      BY <1>0, <2>1, <2>2
    <3> QED
      BY <3>1 DEF KeyMoves
  <2>3. CASE ~(k = n /\ a = c)
    <3>1. trusted'[k][a] = trusted[k][a]
      BY <1>0, <2>1, <2>3
    <3>2. <<k, a>> \in stranded => <<k, a>> \in stranded'
      BY <2>1, <2>3
    <3>3. Deciding(k, a) => Deciding(k, a)'
      BY <2>1 DEF Deciding
    <3> QED
      BY <2>1, <3>1, <3>2, <3>3 DEF KeyMoves
  <2> QED
    BY <2>2, <2>3
<1>8. ASSUME NEW n \in Nodes, Crash(n) PROVE KeyMoves(k, a)
  <2>1. /\ UNCHANGED <<trusted, applied>> /\ stranded \subseteq stranded'
        /\ \A d \in Deciders : (decide[d] # Idle /\ decide[d].node = n) \/ decide'[d] = decide[d]
    BY <1>8 DEF Crash
  <2>2. ASSUME Deciding(k, a) PROVE Deciding(k, a)' \/ <<k, a>> \in stranded'
    <3>1. PICK e \in Deciders : /\ decide[e].pc \in {"post", "failed"}
                                /\ decide[e].node = k /\ decide[e].client = a
                                /\ decide[e].decision = "accept"
      BY <2>2 DEF Deciding
    <3>2. CASE k = n
      <4>1. e \in {x \in At(n, {"post", "failed"}) : decide[x].decision = "accept"}
        BY <3>1, <3>2 DEF At
      <4>2. <<n, decide[e].client>> \in stranded'
        BY <1>8, <4>1 DEF Crash
      <4> QED
        BY <3>1, <3>2, <4>2
    <3>3. CASE k # n
      BY <2>1, <3>1, <3>3 DEF Deciding
    <3> QED
      BY <3>2, <3>3
  <2> QED
    BY <2>1, <2>2 DEF KeyMoves
<1>9. ASSUME NEW n \in Nodes, NEW p \in Pairings, Create(n, p) PROVE KeyMoves(k, a)
  BY <1>9, NoKeys DEF Create
<1>10. ASSUME NEW c \in Clients, NEW p \in Pairings, ClaimPairing(c, p) PROVE KeyMoves(k, a)
  BY <1>10, NoKeys DEF ClaimPairing
<1>11. ASSUME NEW p \in Pairings, ExpirePairing(p) PROVE KeyMoves(k, a)
  BY <1>11, NoKeys DEF ExpirePairing
<1>12. ASSUME NEW r \in late, ServerDecidesLate(r) PROVE KeyMoves(k, a)
  BY <1>12, NoKeys DEF ServerDecidesLate
<1>13. ASSUME NEW c \in Clients, ServerRevokes(c) \/ AdminRevokeControlClient(c) PROVE KeyMoves(k, a)
  BY <1>13, NoKeys DEF ServerRevokes, AdminRevokeControlClient
<1>14. ASSUME NEW n \in Nodes, StartSync(n) \/ SyncFails(n) PROVE KeyMoves(k, a)
  BY <1>14, NoKeys DEF StartSync, SyncFails
<1>15. ASSUME NEW n \in Nodes, NEW r \in fetching[n], ReadRows(n, r) PROVE KeyMoves(k, a)
  BY <1>15, NoKeys DEF ReadRows
<1>16. CASE UNCHANGED vars
  BY <1>16, NoKeys DEF vars
<1> QED
  BY <1>1, <1>2, <1>3, <1>4, <1>5, <1>6, <1>7, <1>8, <1>9, <1>10, <1>11, <1>12, <1>13, <1>14,
     <1>15, <1>16, <1>17 DEF Next, PairingStep, DecideStep, SyncStep

-----------------------------------------------------------------------------
(* The inductive invariant.  TrustIsBacked is not inductive by itself: a    *)
(* manifest on its way may make a key active, so what it says must already  *)
(* be backed when it arrives.                                               *)

TrustInv == Types /\ Recent /\ Trusting /\ TrustIsBacked

LEMMA TrustInvInit == Init => TrustInv
<1> SUFFICES ASSUME Init PROVE TrustInv
  OBVIOUS
<1>1. Types
  BY TypesInit
<1>2. Recent
  BY DEF Init, Recent
<1>3. Trusting
  BY DEF Init, Trusting, Idle
<1>4. TrustIsBacked
  BY DEF Init, TrustIsBacked
<1> QED
  BY <1>1, <1>2, <1>3, <1>4 DEF TrustInv

LEMMA TrustInvNext == TrustInv /\ [Next]_vars => TrustInv'
<1> SUFFICES ASSUME TrustInv, [Next]_vars PROVE TrustInv'
  OBVIOUS
<1>1. Types /\ Recent /\ Trusting /\ TrustIsBacked
  BY DEF TrustInv
<1>2. Types'
  BY <1>1, TypesNext
<1>3. Recent'
  BY <1>1, <1>2, RecentNext
<1>4. Trusting'
  BY <1>1, TrustingNext
<1>5. ASSUME NEW n \in Nodes, NEW c \in Clients, trusted'[n][c] = "active"
      PROVE  Backed(c, applied[n])' \/ Deciding(n, c)' \/ <<n, c>> \in stranded'
  <2>1. KeyMoves(n, c) /\ Progress
    BY <1>1, KeysMove, ClientsMove
  <2>2. ASSUME NEW m \in manifests[n], m.rows[c] = "active", applied'[n] = m.rev,
               UNCHANGED <<clients, revokedAt>>
        PROVE  Backed(c, applied[n])'
    BY <1>1, <2>2 DEF Recent, Backed
  <2>3. ASSUME trusted[n][c] = "active", applied'[n] = applied[n],
               Deciding(n, c) => (clients'[c] = "active" \/ <<n, c>> \in stranded'),
               <<n, c>> \in stranded => <<n, c>> \in stranded'
        PROVE  Backed(c, applied[n])' \/ <<n, c>> \in stranded'
    <3>1. Backed(c, applied[n]) \/ Deciding(n, c) \/ <<n, c>> \in stranded
      BY <1>1, <2>3 DEF TrustIsBacked, Backed
    <3>2. applied[n] \in Int /\ applied[n] <= revision
      BY <1>1 DEF Types, TypeOK, Recent
    <3>3. ASSUME Backed(c, applied[n]) PROVE Backed(c, applied[n])'
      <4>1. PICK r \in Int : r = applied[n]
        BY <3>2
      <4>2. Backed(c, r)'
        BY <1>1, <1>2, <2>1, <3>2, <3>3, <4>1, StaysBacked
      <4> QED
        BY <2>3, <4>1, <4>2 DEF Backed
    <3>4. ASSUME clients'[c] = "active" PROVE Backed(c, applied[n])'
      BY <3>4 DEF Backed
    <3> QED
      BY <2>3, <3>1, <3>3, <3>4
  <2> QED
    BY <1>5, <2>1, <2>2, <2>3 DEF KeyMoves
<1>6. TrustIsBacked'
  BY <1>5 DEF TrustIsBacked, Backed
<1> QED
  BY <1>1, <1>2, <1>3, <1>4, <1>6 DEF TrustInv

\* A key a Node obeys is backed by the Server, up to the revision the Node
\* has applied, or belongs to a Decide under way, cut off by a stop of the
\* Node or unable to withdraw the key: with any number of Nodes, overlapping
\* manifests and late calls.
THEOREM Backing == Spec => []TrustIsBacked
<1>1. TrustInv => TrustIsBacked
  BY DEF TrustInv
<1> QED
  BY TrustInvInit, TrustInvNext, <1>1, PTL DEF Spec

-----------------------------------------------------------------------------
(* How a key that was not active becomes so.                                 *)

PutBy(n, c) ==
    \E d \in Deciders : /\ decide[d].pc = "trust" /\ decide'[d].pc = "post"
                        /\ decide[d].node = n /\ decide[d].client = c

KeyRises(n, c) ==
    trusted[n][c] # "active" /\ trusted'[n][c] = "active" =>
        \/ PutBy(n, c)
        \/ \E m \in manifests[n] : m.rows[c] = "active" /\ m.rev > applied[n]

LEMMA KeysRise == Types /\ [Next]_vars => \A n \in Nodes, c \in Clients : KeyRises(n, c)
<1> SUFFICES ASSUME Types, [Next]_vars, NEW k \in Nodes, NEW a \in Clients PROVE KeyRises(k, a)
  OBVIOUS
<1> USE DEF server, node, calls
<1>0. /\ trusted \in [Nodes -> [Clients -> Statuses]]
      /\ decide \in [Deciders -> Jobs \union {Idle}] /\ TypeOK
  BY DEF Types, TypeOK
<1>1. ASSUME NEW d \in Deciders, PutTrustedKey(d) PROVE KeyRises(k, a)
  <2>1. /\ trusted' = [trusted EXCEPT ![decide[d].node][decide[d].client] = "active"]
        /\ decide' = [decide EXCEPT ![d].pc = "post"] /\ decide[d].pc = "trust"
    BY <1>1 DEF PutTrustedKey
  <2>2. decide[d].node \in Nodes /\ decide[d].client \in Clients /\ decide'[d].pc = "post"
    BY <1>0, <2>1, JobFields, PcOnly
  <2>3. CASE k = decide[d].node /\ a = decide[d].client
    BY <2>1, <2>2, <2>3 DEF KeyRises, PutBy
  <2>4. CASE ~(k = decide[d].node /\ a = decide[d].client)
    <3>1. trusted'[k][a] = trusted[k][a]
      BY <1>0, <2>1, <2>2, <2>4
    <3> QED
      BY <3>1 DEF KeyRises
  <2> QED
    BY <2>3, <2>4
<1>2. ASSUME NEW d \in Deciders, Withdraw(d) PROVE KeyRises(k, a)
  <2>1. decide[d].node \in Nodes /\ decide[d].client \in Clients
    BY <1>0, <1>2, JobFields DEF Withdraw
  <2>2. \/ trusted' = [trusted EXCEPT ![decide[d].node][decide[d].client] = "revoked"]
        \/ trusted' = trusted
    BY <1>2 DEF Withdraw, Withdrawn
  <2> QED
    BY <1>0, <2>1, <2>2 DEF KeyRises
<1>3. ASSUME NEW n \in Nodes, NEW c \in Clients, Revoke(n, c) PROVE KeyRises(k, a)
  <2>1. trusted' = [trusted EXCEPT ![n][c] = "revoked"]
    BY <1>3 DEF Revoke
  <2> QED
    BY <1>0, <2>1 DEF KeyRises
<1>4. ASSUME NEW n \in Nodes, NEW m \in manifests[n], ReconcileTrustManifest(n, m) PROVE KeyRises(k, a)
  <2>1. CASE ~Applies(n, m)
    BY <1>4, <2>1 DEF ReconcileTrustManifest, KeyRises
  <2>2. CASE Applies(n, m)
    <3>1. trusted' = [trusted EXCEPT ![n] = Reconciled(n, m)]
      BY <1>4, <2>2, Zenon DEF ReconcileTrustManifest
    <3>2. Reconciled(n, m)[a] = "active" => m.rows[a] = "active"
      BY DEF Reconciled
    <3> QED
      BY <1>0, <2>2, <3>1, <3>2 DEF KeyRises, Applies
  <2> QED
    BY <2>1, <2>2
<1>5. CASE trusted' = trusted
  BY <1>5 DEF KeyRises
<1>6. ASSUME PairingStep PROVE trusted' = trusted
  BY <1>6 DEF PairingStep, Create, ClaimPairing, ExpirePairing
<1>7. ASSUME NEW d \in Deciders, NEW n \in Nodes, NEW p \in Pairings, NEW decision \in Decisions,
             Pending(d, n, p, decision)
      PROVE  trusted' = trusted
  BY <1>7 DEF Pending
<1>8. ASSUME NEW d \in Deciders, ServerResolves(d) \/ CallFails(d) \/ WithdrawFails(d)
      PROVE  trusted' = trusted
  BY <1>8 DEF ServerResolves, CallFails, WithdrawFails
<1>9. ASSUME NEW r \in late, ServerDecidesLate(r) PROVE trusted' = trusted
  BY <1>9 DEF ServerDecidesLate
<1>10. ASSUME NEW c \in Clients, ServerRevokes(c) \/ AdminRevokeControlClient(c) PROVE trusted' = trusted
  BY <1>10 DEF ServerRevokes, AdminRevokeControlClient
<1>11. ASSUME NEW n \in Nodes, StartSync(n) \/ SyncFails(n) \/ Crash(n) PROVE trusted' = trusted
  BY <1>11 DEF StartSync, SyncFails, Crash
<1>12. ASSUME NEW n \in Nodes, NEW r \in fetching[n], ReadRows(n, r) PROVE trusted' = trusted
  BY <1>12 DEF ReadRows
<1>13. CASE UNCHANGED vars
  BY <1>5, <1>13 DEF vars
<1> QED
  BY <1>1, <1>2, <1>3, <1>4, <1>5, <1>6, <1>7, <1>8, <1>9, <1>10, <1>11, <1>12, <1>13
     DEF Next, DecideStep, SyncStep

\* A Node that applied the revision of a revocation makes the key active
\* again only when a person at that Node accepts the client anew; no order
\* of overlapping manifests restores it.
THEOREM Sticking == Spec => RevocationSticks
<1>1. ASSUME TrustInv, [Next]_vars, NEW n \in Nodes, NEW c \in Clients,
             clients[c] = "revoked", applied[n] >= revokedAt[c],
             trusted[n][c] # "active", trusted'[n][c] = "active"
      PROVE  PutBy(n, c)
  <2>1. KeyRises(n, c)
    BY <1>1, KeysRise DEF TrustInv
  <2>2. ASSUME NEW m \in manifests[n], m.rows[c] = "active", m.rev > applied[n] PROVE FALSE
    <3>1. m.rev < revokedAt[c]
      BY <1>1, <2>2 DEF TrustInv, Recent, Backed
    <3>2. m.rev \in Nat /\ revokedAt[c] \in Nat /\ applied[n] \in Int
      BY <1>1 DEF TrustInv, Types, TypeOK, Manifests
    <3> QED
      BY <1>1, <2>2, <3>1, <3>2
  <2> QED
    BY <1>1, <2>1, <2>2 DEF KeyRises
<1>2. TrustInv /\ [Next]_vars =>
        [\A n \in Nodes, c \in Clients :
         (/\ clients[c] = "revoked" /\ applied[n] >= revokedAt[c]
          /\ trusted[n][c] # "active" /\ trusted'[n][c] = "active")
             => \E d \in Deciders : /\ decide[d].pc = "trust" /\ decide'[d].pc = "post"
                                    /\ decide[d].node = n /\ decide[d].client = c]_vars
  BY <1>1 DEF PutBy
<1> QED
  BY TrustInvInit, TrustInvNext, <1>2, PTL DEF Spec, RevocationSticks

=============================================================================
