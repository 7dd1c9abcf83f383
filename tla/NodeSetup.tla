----------------------------- MODULE NodeSetup -----------------------------
(* First set-up of a Node.  A machine picks a workspace, writes the relay's  *)
(* CA, creates its identity key, is admitted by the Server (by the bootstrap *)
(* secret or by an invitation), binds its identity to the answer and saves   *)
(* its configuration.  The submissions of one machine (setup_complete of     *)
(* two browser tabs) are not serialised, every call may be lost or carried   *)
(* out late, and the machine may be killed between any two steps.  The       *)
(* repair of a legacy identity moves the same files out of the way.          *)
EXTENDS Naturals, Sequences, FiniteSets

CONSTANTS
    Machines,       \* computers a Node is set up on
    Jobs,           \* submissions of setup_complete
    JobOf,          \* the machine a submission runs on
    Bundles,        \* the submissions that bring a CA bundle
    Legacy,         \* machines that still have a configuration of the old format
    Invites,        \* invitations
    InitialInvites, \* the invitations the Server's own set-up issued (no owner yet)
    MaxSecrets,     \* bound: bootstrap secrets issued
    MaxNodes,       \* bound: rows of nodes
    MaxSeeds,       \* bound: identity seeds generated per machine
    MaxFailures     \* bound: failures, losses and kills

ASSUME SetupAssumption ==
    /\ JobOf \in [Jobs -> Machines]
    /\ Legacy \subseteq Machines /\ Bundles \subseteq Jobs
    /\ InitialInvites \subseteq Invites
    /\ MaxSecrets \in Nat /\ MaxNodes \in Nat /\ MaxSeeds \in Nat /\ MaxFailures \in Nat

VARIABLES
    owner,     \* the row of nodes whose admission created the owner, 0 for none
    nodes,     \* nodes in order of admission: public key, what admitted it
    boot,      \* the bootstrap row
    invite,    \* the status of every invitation
    admission, \* node_enrollment_enabled
    key,       \* identity.key of a machine: a seed, 0 when there is none
    row,       \* the identity row in node.db
    config,    \* the saved configuration
    ca,        \* relay-ca.pem: the submission whose bundle it holds
    seeds,     \* seeds generated so far
    node,      \* the process: "up", "down", "repair"; active, force
    moved,     \* what an identity repair has moved to its backup
    job,       \* the submissions
    late,      \* claims whose caller gave up
    torn,      \* machines where two submissions overlapped, or that were cut short
    parted,    \* machines whose CA was not put back, or was although the save took effect
    failures   \* failures so far

server == <<owner, nodes, boot, invite, admission>>
files == <<key, row, config, ca, seeds>>
setupVars == <<server, files, node, moved, job, late, torn, parted, failures>>

Absent == "none"

NoKey == << >>
NoRow == [key |-> NoKey, ref |-> Absent, node |-> 0, owner |-> 0]
NoConfig == [is |-> Absent, ca |-> Absent]
Files == <<"config", "row", "ca", "key">>
NothingMoved == [config |-> NoConfig, row |-> NoRow, ca |-> Absent, key |-> 0]

Bootstraps == {[by |-> "bootstrap", with |-> s] : s \in 1 .. MaxSecrets}
Invitations == {[by |-> "invitation", with |-> i] : i \in Invites}
Joining == [by |-> "join", with |-> 0]
Methods == Bootstraps \cup Invitations \cup {Joining}

Idle == [pc |-> "idle", method |-> Joining, previous |-> Absent, wrote |-> FALSE,
         created |-> FALSE, answer |-> 0]
PCs == {"idle", "ca", "identity", "commit", "claim", "answered", "config", "save"}

SetupInit ==
    /\ owner = 0 /\ nodes = << >> /\ admission = TRUE
    /\ boot = [status |-> Absent, secret |-> 0, issued |-> 0, digest |-> NoKey, node |-> 0, retry |-> FALSE]
    /\ invite = [i \in Invites |-> IF i \in InitialInvites THEN "pending" ELSE Absent]
    /\ key = [m \in Machines |-> 0] /\ seeds = [m \in Machines |-> 0]
    /\ row = [m \in Machines |-> IF m \in Legacy THEN [NoRow EXCEPT !.ref = "legacy"] ELSE NoRow]
    /\ config = [m \in Machines |-> IF m \in Legacy THEN [NoConfig EXCEPT !.is = "legacy"] ELSE NoConfig]
    /\ ca = [m \in Machines |-> Absent]
    /\ node = [m \in Machines |-> [run |-> "down", active |-> FALSE, force |-> FALSE]]
    /\ moved = [m \in Machines |-> [n |-> 0, kept |-> NothingMoved]]
    /\ job = [j \in Jobs |-> Idle]
    /\ late = {} /\ torn = {} /\ parted = {} /\ failures = 0

-----------------------------------------------------------------------------
(* The Server's side: bootstrap and invitations. *)

\* The environment's failures are bounded; nothing else is.
Failure == failures < MaxFailures /\ failures' = failures + 1

\* BootstrapService.Rotate at every start of the Server: an uninitialised one
\* gets a new secret, an initialised one only forgets an expired retry window.
RotateBootstrap ==
    /\ boot' = IF owner = 0
               THEN [status |-> "pending", secret |-> boot.issued + 1, issued |-> boot.issued + 1,
                     digest |-> NoKey, node |-> 0, retry |-> FALSE]
               ELSE IF boot.retry THEN boot ELSE [boot EXCEPT !.secret = 0, !.digest = NoKey]
    /\ owner = 0 => boot.issued < MaxSecrets
    /\ UNCHANGED <<owner, nodes, invite, admission, files, node, moved, job, late, torn, parted, failures>>

\* The five minutes in which the same claim is answered again are over.
RetryWindowEnds ==
    /\ boot.retry
    /\ boot' = [boot EXCEPT !.retry = FALSE]
    /\ UNCHANGED <<owner, nodes, invite, admission, files, node, moved, job, late, torn, parted, failures>>

\* Replays, as a likely mistake would have it.
AnyReplay(k, s) == boot.retry /\ boot.secret = s

\* A repeated claim: the secret and the digest of the whole request match.
Replays(k, s) == boot.retry /\ boot.secret = s /\ boot.digest = k

\* INSERT INTO nodes: the public key is unique.
Insertable(k) == Len(nodes) < MaxNodes /\ \A n \in DOMAIN nodes : nodes[n].key # k

Admit(k, method) == nodes' = Append(nodes, [key |-> k, via |-> method])

\* Store.ClaimBootstrap; "answer" is the row named in the reply, 0 for an error.
ClaimBootstrap(k, method, answer) ==
    \/ /\ boot.status = "completed"
       /\ answer = IF Replays(k, method.with) THEN boot.node ELSE 0
       /\ boot' = IF boot.retry THEN boot ELSE [boot EXCEPT !.secret = 0, !.digest = NoKey]
       /\ UNCHANGED <<owner, nodes, invite, admission>>
    \/ /\ boot.status # "completed"
       /\ boot.status # "pending" \/ boot.secret # method.with \/ owner # 0 \/ ~Insertable(k)
       /\ answer = 0
       /\ UNCHANGED server
    \/ /\ boot.status = "pending" /\ boot.secret = method.with /\ owner = 0 /\ Insertable(k)
       /\ answer = Len(nodes) + 1
       /\ owner' = answer
       /\ Admit(k, method)
       /\ boot' = [boot EXCEPT !.status = "completed", !.digest = k, !.node = answer, !.retry = TRUE]
       /\ UNCHANGED <<invite, admission>>

\* Store.ClaimNodeInvitation: an invitation without an owner creates the owner
\* and completes the bootstrap in the same transaction.
Completed(n) == [boot EXCEPT !.status = "completed", !.secret = 0, !.digest = NoKey, !.node = n, !.retry = FALSE]

ClaimNodeInvitation(k, method, answer) ==
    LET i == method.with
        initial == i \in InitialInvites
        admits == /\ invite[i] = "pending"
                  /\ initial => owner = 0
                  /\ ~initial => admission
                  /\ Insertable(k)
    IN  \/ ~admits /\ answer = 0 /\ UNCHANGED server
        \/ /\ admits
           /\ answer = Len(nodes) + 1
           /\ Admit(k, method)
           /\ owner' = IF initial THEN answer ELSE owner
           /\ boot' = IF initial THEN Completed(answer) ELSE boot
           /\ invite' = [invite EXCEPT ![i] = "used"]
           /\ UNCHANGED admission

Claim(k, method, answer) ==
    \/ method \in Bootstraps /\ ClaimBootstrap(k, method, answer)
    \/ method \in Invitations /\ ClaimNodeInvitation(k, method, answer)

\* The administrator issues an invitation, where admission is open.
Issuable(i) == owner # 0 /\ admission /\ invite[i] = Absent

IssueNodeInvitation(i) ==
    /\ Issuable(i)
    /\ invite' = [invite EXCEPT ![i] = "pending"]
    /\ UNCHANGED <<owner, nodes, boot, admission, files, node, moved, job, late, torn, parted, failures>>

CancelNodeInvitation(i) ==
    /\ invite[i] = "pending" /\ i \notin InitialInvites
    /\ invite' = [invite EXCEPT ![i] = "cancelled"]
    /\ Failure
    /\ UNCHANGED <<owner, nodes, boot, admission, files, node, moved, job, late, torn, parted>>

\* Expiry refuses a claim at once; the row records it when it is listed next.
NodeInvitationExpires(i) ==
    /\ invite[i] = "pending"
    /\ invite' = [invite EXCEPT ![i] = "expired"]
    /\ Failure
    /\ UNCHANGED <<owner, nodes, boot, admission, files, node, moved, job, late, torn, parted>>

\* Reissue ignores whether the old invitation could still be cancelled.
ReissueNodeInvitation(i, new) ==
    /\ invite[i] # Absent /\ i \notin InitialInvites /\ Issuable(new)
    /\ invite' = [invite EXCEPT ![i] = IF @ = "pending" THEN "cancelled" ELSE @, ![new] = "pending"]
    /\ Failure
    /\ UNCHANGED <<owner, nodes, boot, admission, files, node, moved, job, late, torn, parted>>

UpdateAdmission ==
    /\ owner # 0
    /\ admission' = ~admission
    /\ Failure
    /\ UNCHANGED <<owner, nodes, boot, invite, files, node, moved, job, late, torn, parted>>

-----------------------------------------------------------------------------
(* The machine: nodeSetupController.complete. *)

Up(m) == node[m].run = "up"
Running(j) == job[j].pc # "idle"
Others(j) == {o \in Jobs \ {j} : JobOf[o] = JobOf[j] /\ Running(o)}

\* handle: set-up commands are served while set-up is required.
Required(m) == Up(m) /\ node[m].active

\* The workspace token of a submission (setup_pick) belongs to one session and
\* is in use while the submission runs: the same one is never run twice at once.
Selectable(j) == ~Running(j)

\* handle and the head of complete: set-up is still required, one
\* enrollment method, the previous CA is remembered.
Begin(j, method) ==
    LET m == JobOf[j] IN
    /\ Required(m) /\ Selectable(j)
    /\ method \in Bootstraps => method.with <= boot.issued
    /\ method \in Invitations => invite[method.with] # Absent
    /\ job' = [job EXCEPT ![j] = [Idle EXCEPT !.pc = "ca", !.method = method, !.previous = ca[m]]]
    /\ torn' = IF Others(j) = {} THEN torn ELSE torn \cup {m}
    /\ UNCHANGED <<server, files, node, moved, late, parted, failures>>

At(j, pc) == job[j].pc = pc /\ Up(JobOf[j])

\* Restored, as a likely mistake would have it.
NotRestored(j) == ca[JobOf[j]]

\* The deferred clean-up of a submission that did not save.
Restored(j) == IF job[j].wrote THEN job[j].previous ELSE ca[JobOf[j]]

\* complete returns an error.  The clean-up ignores its own error: the CA may
\* stay.
CleanUp(j) ==
    /\ job' = [job EXCEPT ![j] = Idle]
    /\ \E left \in {Restored(j), ca[JobOf[j]]} : ca' = [ca EXCEPT ![JobOf[j]] = left]

Fail(j) ==
    /\ CleanUp(j)
    /\ parted' = IF ca'[JobOf[j]] = Restored(j) THEN parted ELSE parted \cup {JobOf[j]}

\* writeRelayCABundle, where the request has a bundle.
WriteCA(j) ==
    LET bundle == j \in Bundles IN
    /\ At(j, "ca")
    /\ ca' = IF bundle THEN [ca EXCEPT ![JobOf[j]] = j] ELSE ca
    /\ job' = [job EXCEPT ![j].pc = "identity", ![j].wrote = bundle, ![j].previous = IF bundle THEN @ ELSE Absent]
    /\ UNCHANGED <<server, key, row, config, seeds, node, moved, late, torn, parted, failures>>

\* BEGIN IMMEDIATE: one submission at a time is inside LoadOrCreateIdentity.
NoCreator(m) == \A o \in Jobs : JobOf[o] = m => job[o].pc # "commit"

AfterIdentity(method) == IF method = Joining THEN "config" ELSE "claim"

\* FileKeyStore.Get and Put: a key is written beside its place and renamed into
\* it, and an existing one is never replaced.
HasKey(m) == key[m] # 0

PutKey(m) ==
    /\ seeds[m] < MaxSeeds
    /\ seeds' = [seeds EXCEPT ![m] = @ + 1]
    /\ key' = [key EXCEPT ![m] = seeds[m] + 1]

\* Manager.verify: the row must name the key file, and the key in it.
Verifies(m, r) == r.ref = "file" /\ HasKey(m) /\ r.key = <<m, key[m]>>

\* Ensure finds a row, or a key left by an earlier attempt, or creates a seed.
EnsureExisting(j) ==
    LET m == JobOf[j] IN
    /\ At(j, "identity") /\ NoCreator(m)
    /\ config[m].is # "legacy"
    /\ row[m] # NoRow /\ Verifies(m, row[m])
    /\ job' = [job EXCEPT ![j].pc = AfterIdentity(job[j].method)]
    /\ UNCHANGED <<server, files, node, moved, late, torn, parted, failures>>

EnsurePut(j) ==
    LET m == JobOf[j] IN
    /\ At(j, "identity") /\ NoCreator(m)
    /\ config[m].is # "legacy"
    /\ row[m] = NoRow
    /\ IF HasKey(m) THEN UNCHANGED <<key, seeds>> ELSE PutKey(m)
    /\ job' = [job EXCEPT ![j].pc = "commit", ![j].created = ~HasKey(m)]
    /\ UNCHANGED <<server, row, config, ca, node, moved, late, torn, parted, failures>>

EnsureCommit(j) ==
    LET m == JobOf[j] IN
    /\ At(j, "commit")
    /\ row' = [row EXCEPT ![m] = [NoRow EXCEPT !.key = <<m, key[m]>>, !.ref = "file"]]
    /\ job' = [job EXCEPT ![j].pc = AfterIdentity(job[j].method), ![j].created = FALSE]
    /\ UNCHANGED <<server, key, config, ca, seeds, node, moved, late, torn, parted, failures>>

\* The insert fails: the rollback deletes the key, if this call created it.
RollsBack(j) == job[j].created

EnsureFails(j) ==
    LET m == JobOf[j] IN
    /\ At(j, "commit")
    /\ key' = IF RollsBack(j) THEN [key EXCEPT ![m] = 0] ELSE key
    /\ Fail(j)
    /\ Failure
    /\ UNCHANGED <<server, row, config, seeds, node, moved, late, torn>>

\* The claim reaches the Server, which answers: claimBootstrap, whose request id
\* derives from the key, so that a repeated call is the same request, and
\* claimNodeInvitation.
Answered(j) ==
    /\ \E answer \in 0 .. MaxNodes :
          /\ Claim(row[JobOf[j]].key, job[j].method, answer)
          /\ job' = [job EXCEPT ![j].pc = "answered", ![j].answer = answer, ![j].method = Joining]
    /\ UNCHANGED <<files, node, moved, late, torn, parted, failures>>

CallBootstrap(j) == At(j, "claim") /\ job[j].method \in Bootstraps /\ Answered(j)

CallInvitation(j) == At(j, "claim") /\ job[j].method \in Invitations /\ Answered(j)

\* The call times out; the Server may still carry it out.
Abandon(j) ==
    /\ At(j, "claim")
    /\ late' = late \cup {[key |-> row[JobOf[j]].key, method |-> job[j].method]}
    /\ Fail(j)
    /\ Failure
    /\ UNCHANGED <<server, key, row, config, seeds, node, moved, torn>>

ServeLate(c) ==
    /\ late' = late \ {c}
    /\ \E answer \in 0 .. MaxNodes : Claim(c.key, c.method, answer)
    /\ UNCHANGED <<files, node, moved, job, torn, parted, failures>>

\* Manager.Bind: only an unbound row, or one bound to the same pair.
Bindable(r, n) == r.node = 0 \/ (r.node = n /\ r.owner = owner)

Bind(j) ==
    LET m == JobOf[j]
        n == job[j].answer IN
    /\ At(j, "answered") /\ n # 0
    /\ Bindable(row[m], n)
    /\ row' = [row EXCEPT ![m].node = n, ![m].owner = owner]
    /\ job' = [job EXCEPT ![j].pc = "config", ![j].answer = 0]
    /\ UNCHANGED <<server, key, config, ca, seeds, node, moved, late, torn, parted, failures>>

\* Without force, an existing configuration is never replaced.
CheckConfig(j) ==
    LET m == JobOf[j] IN
    /\ At(j, "config")
    /\ node[m].force \/ config[m].is = Absent
    /\ job' = [job EXCEPT ![j].pc = "save"]
    /\ UNCHANGED <<server, files, node, moved, late, torn, parted, failures>>

Saved(j) == [is |-> "current", ca |-> IF job[j].wrote THEN j ELSE Absent]

Save(j) ==
    LET m == JobOf[j] IN
    /\ At(j, "save")
    /\ config' = [config EXCEPT ![m] = Saved(j)]
    /\ node' = [node EXCEPT ![m].active = FALSE]
    /\ job' = [job EXCEPT ![j] = Idle]
    /\ UNCHANGED <<server, key, row, ca, seeds, moved, late, torn, parted, failures>>

\* atomicWriteFile reports an error after its rename: the configuration is
\* there, the clean-up takes its CA away, and set-up goes on being required.
SaveFailsLate(j) ==
    LET m == JobOf[j] IN
    /\ At(j, "save")
    /\ config' = [config EXCEPT ![m] = Saved(j)]
    /\ CleanUp(j)
    /\ parted' = parted \cup {m}
    /\ Failure
    /\ UNCHANGED <<server, key, row, seeds, node, moved, late, torn>>

\* complete's own refusals: a legacy configuration, an identity that does not
\* verify, a claim the Server rejected, a binding that conflicts, a
\* configuration that exists.
Refuses(j) ==
    LET m == JobOf[j] IN
    \/ /\ At(j, "identity") /\ NoCreator(m)
       /\ config[m].is = "legacy" \/ (row[m] # NoRow /\ ~Verifies(m, row[m]))
    \/ At(j, "answered") /\ (job[j].answer = 0 \/ ~Bindable(row[m], job[j].answer))
    \/ At(j, "config") /\ ~node[m].force /\ config[m].is # Absent

Refused(j) ==
    /\ Refuses(j)
    /\ Fail(j)
    /\ UNCHANGED <<server, key, row, config, seeds, node, moved, late, torn, failures>>

\* A call or a write that fails, and an answer that is lost on its way back.
SubmissionFails(j) ==
    /\ \E pc \in PCs \ {"idle", "commit"} : At(j, pc)
    /\ ~Refuses(j)
    /\ Failure
    /\ Fail(j)
    /\ UNCHANGED <<server, key, row, config, seeds, node, moved, late, torn>>

-----------------------------------------------------------------------------
(* The process, and the repair of a legacy identity. *)

StartNode(m, force) ==
    /\ node[m].run = "down"
    /\ node' = [node EXCEPT ![m] = [run |-> "up", force |-> force,
                                    active |-> force \/ config[m].is = Absent]]
    /\ UNCHANGED <<server, files, moved, job, late, torn, parted, failures>>

\* The machine stops between two steps: an open transaction is rolled back, the
\* files stay as they are.
Kill(m) ==
    LET cut == \E j \in Jobs : JobOf[j] = m /\ Running(j) IN
    /\ Up(m)
    /\ node' = [node EXCEPT ![m] = [run |-> "down", active |-> FALSE, force |-> FALSE]]
    /\ job' = [j \in Jobs |-> IF JobOf[j] = m THEN Idle ELSE job[j]]
    /\ IF cut THEN Failure /\ torn' = torn \cup {m} ELSE UNCHANGED <<torn, failures>>
    /\ UNCHANGED <<server, files, moved, late, parted>>

\* prepareNodeIdentityRepair: the Node is stopped and the configuration legacy.
BeginRepair(m) ==
    /\ node[m].run = "down" /\ config[m].is = "legacy"
    /\ node' = [node EXCEPT ![m].run = "repair"]
    /\ moved' = [moved EXCEPT ![m] = [n |-> 0, kept |-> NothingMoved]]
    /\ UNCHANGED <<server, files, job, late, torn, parted, failures>>

\* The backup with the file f in it.
Backed(m, f) ==
    CASE f = "config" -> [moved[m].kept EXCEPT !.config = config[m]]
      [] f = "row" -> [moved[m].kept EXCEPT !.row = row[m]]
      [] f = "ca" -> [moved[m].kept EXCEPT !.ca = ca[m]]
      [] f = "key" -> [moved[m].kept EXCEPT !.key = key[m]]

\* os.Rename of the next file.
MoveFile(m) ==
    LET f == Files[moved[m].n + 1] IN
    /\ node[m].run = "repair" /\ moved[m].n < Len(Files)
    /\ moved' = [moved EXCEPT ![m] = [n |-> @.n + 1, kept |-> Backed(m, f)]]
    /\ config' = IF f = "config" THEN [config EXCEPT ![m] = NoConfig] ELSE config
    /\ row' = IF f = "row" THEN [row EXCEPT ![m] = NoRow] ELSE row
    /\ ca' = IF f = "ca" THEN [ca EXCEPT ![m] = Absent] ELSE ca
    /\ key' = IF f = "key" THEN [key EXCEPT ![m] = 0] ELSE key
    /\ UNCHANGED <<server, seeds, node, job, late, torn, parted, failures>>

\* PutBack, as a likely mistake would have it.
PutBackNext(m, f) == f \in {Files[n] : n \in 2 .. moved[m].n}

\* A rename fails: what was moved is renamed back.
PutBack(m, f) == f \in {Files[n] : n \in 1 .. moved[m].n}

RepairFails(m) ==
    LET kept == moved[m].kept IN
    /\ node[m].run = "repair" /\ moved[m].n < Len(Files)
    /\ config' = IF PutBack(m, "config") THEN [config EXCEPT ![m] = kept.config] ELSE config
    /\ row' = IF PutBack(m, "row") THEN [row EXCEPT ![m] = kept.row] ELSE row
    /\ ca' = IF PutBack(m, "ca") THEN [ca EXCEPT ![m] = kept.ca] ELSE ca
    /\ key' = IF PutBack(m, "key") THEN [key EXCEPT ![m] = kept.key] ELSE key
    /\ moved' = [moved EXCEPT ![m] = [n |-> 0, kept |-> NothingMoved]]
    /\ node' = [node EXCEPT ![m].run = "down"]
    /\ Failure
    /\ UNCHANGED <<server, seeds, job, late, torn, parted>>

\* Everything is in the backup; set-up starts afresh.
RepairDone(m) ==
    /\ node[m].run = "repair" /\ moved[m].n = Len(Files)
    /\ node' = [node EXCEPT ![m].run = "down"]
    /\ UNCHANGED <<server, files, moved, job, late, torn, parted, failures>>

\* Killed between two renames: the first of them took the configuration away.
RepairKilled(m) ==
    /\ node[m].run = "repair" /\ moved[m].n \in 1 .. Len(Files) - 1
    /\ node' = [node EXCEPT ![m].run = "down"]
    /\ torn' = torn \cup {m}
    /\ Failure
    /\ UNCHANGED <<server, files, moved, job, late, parted>>

-----------------------------------------------------------------------------
ServerStep ==
    \/ RotateBootstrap
    \/ RetryWindowEnds
    \/ UpdateAdmission
    \/ \E i \in Invites : IssueNodeInvitation(i) \/ CancelNodeInvitation(i) \/ NodeInvitationExpires(i)
    \/ \E i, new \in Invites : ReissueNodeInvitation(i, new)
    \/ \E c \in late : ServeLate(c)

SubmissionStep(j) ==
    \/ \E method \in Methods : Begin(j, method)
    \/ WriteCA(j)
    \/ EnsureExisting(j)
    \/ EnsurePut(j)
    \/ EnsureCommit(j)
    \/ EnsureFails(j)
    \/ CallBootstrap(j)
    \/ CallInvitation(j)
    \/ Abandon(j)
    \/ Bind(j)
    \/ CheckConfig(j)
    \/ Save(j)
    \/ SaveFailsLate(j)
    \/ Refused(j)
    \/ SubmissionFails(j)

MachineStep(m) ==
    \/ \E force \in BOOLEAN : StartNode(m, force)
    \/ Kill(m)
    \/ BeginRepair(m)
    \/ MoveFile(m)
    \/ RepairFails(m)
    \/ RepairDone(m)
    \/ RepairKilled(m)

SetupNext ==
    \/ ServerStep
    \/ \E j \in Jobs : SubmissionStep(j)
    \/ \E m \in Machines : MachineStep(m)

SetupSpec == SetupInit /\ [][SetupNext]_setupVars

-----------------------------------------------------------------------------
\* A machine is only ever bound to the row that holds its own key, under the
\* one owner, whichever secret it used, however often it tried, and whatever
\* the Server carried out after the machine had given up.
BoundToOwnRow ==
    \A m \in Machines :
        row[m].node # 0 => /\ row[m].node \in DOMAIN nodes
                           /\ nodes[row[m].node].key = row[m].key
                           /\ row[m].owner = owner

\* The CA a configuration was saved with is the one on disk, so that a failed
\* second set-up does not take the relay's CA from a working Node.  There are
\* four ways out of this and no other: submissions that overlap, one that is
\* killed, a save that takes effect and fails, a clean-up that fails.
CAFollowsConfig ==
    \A m \in Machines \ (torn \cup parted) :
        (node[m].run # "repair" /\ \A j \in Jobs : JobOf[j] = m => ~Running(j))
            => (config[m].ca # Absent => ca[m] = config[m].ca)

\* A saved configuration has the identity the Node starts with, after overlapping,
\* killed, half-failed and repeated set-ups and repairs.
ConfigHasIdentity ==
    \A m \in Machines : config[m].is = "current" => row[m].ref = "file" /\ Verifies(m, row[m])

\* What a saved configuration needs is there: its identity always, its CA outside
\* the four ways CAFollowsConfig names, whatever set-ups failed, overlapped or
\* were killed.
ConfigIsUsable == ConfigHasIdentity /\ CAFollowsConfig

\* The identity row and the key file agree: a row of this format has its key,
\* through failed inserts, killed set-ups and repairs that were rolled back; and
\* a legacy row keeps the configuration that makes its repair possible.
KeyMatchesRow ==
    \A m \in Machines :
        /\ row[m].ref = "file" => Verifies(m, row[m])
        /\ (row[m].ref = "legacy" /\ node[m].run # "repair" /\ m \notin torn) => config[m].is = "legacy"
=============================================================================
