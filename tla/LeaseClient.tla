---------------------------- MODULE LeaseClient ----------------------------
(***************************************************************************)
(* Browsers and the Server around one lease scope: what each browser       *)
(* believes about the lease (web/src/relay/control-client.ts,              *)
(* web/src/workbench/ThreadDetail.tsx) while announcements, answers,       *)
(* disconnections and the administrator's release race.                    *)
(*                                                                         *)
(* LeaseHub shows that the handlers of a scope exclude each other and put  *)
(* their frames on every connection in order, so a handler is two steps    *)
(* here: the transaction, and everything it then sends.  The administrator *)
(* is not ordered with it.  Requests that were under way when a connection *)
(* broke may still be handled, unanswered, at any later time.              *)
(*                                                                         *)
(* Browser and Server read one clock: skew only moves the moment at which  *)
(* a browser stops using a lease that the Server checks anyway.            *)
(***************************************************************************)
EXTENDS LeaseTable, Sequences

CONSTANTS LastEpoch,   \* bound: requests that raise the epoch stop here
          MaxTime,     \* bound: the clock stops here
          MaxPending,  \* bound: unanswered requests of a browser
          MaxQueue,    \* bound: a handler starts only while every browser has at
                       \* most so many frames to read
          MaxConnects, \* bound: connections made in a behaviour
          MaxAdmin     \* bound: administrator's releases in a behaviour

VARIABLES time,      \* the Server's and the browsers' time
          lease,     \* the scope's row of control_leases
          connected, \* the browsers with an authenticated connection
          up,        \* requests on their way to the Server, per browser
          down,      \* frames on their way to each browser
          pending,   \* pendingControls of each browser, in sending order
          orphans,   \* requests of broken connections the Server may hold (but
                     \* look-ups, which nobody would notice)
          job,       \* the handler inside the scope's mutex, or NoJob
          admin,     \* the administrator's release: its place and its record
          view,      \* this.leases.get(scope) of each browser
          timer,     \* epoch a renewal is scheduled for, 0 when there is none
          connects,  \* connections made so far
          releases,  \* administrator's releases so far
          crossed    \* an administrator's release met a handler, or was not told

clientVars == <<time, lease, connected, up, down, pending, orphans, job, admin, view,
          timer, connects, releases, crossed>>

NoView == [state |-> "none", holder |-> NoClient, epoch |-> 0, expires |-> 0]

NoJob == [client |-> NoClient]

ClientInit ==
    /\ time = 0
    /\ lease = NoRow
    /\ connected = {}
    /\ up = [c \in Clients |-> <<>>]
    /\ down = [c \in Clients |-> <<>>]
    /\ pending = [c \in Clients |-> <<>>]
    /\ orphans = {}
    /\ job = NoJob
    /\ admin = [at |-> "idle", record |-> Record(NoRow, "none")]
    /\ view = [c \in Clients |-> NoView]
    /\ timer = [c \in Clients |-> 0]
    /\ connects = 0
    /\ releases = 0
    /\ crossed = FALSE

-----------------------------------------------------------------------------
(* What a browser makes of a lease record *)

Seen(state, r) == [state |-> state, holder |-> r.holder, epoch |-> r.epoch,
                   expires |-> r.expires]

\* leaseFromResult
LeaseFromResult(c, err, r) ==
    IF r.state = "held" /\ err = "none" THEN Seen("held", r)
    ELSE IF err = "expired" THEN Seen("expired", r)
    ELSE IF r.state \in {"none", "released"} THEN [NoView EXCEPT !.epoch = r.epoch]
    ELSE IF r.state = "held" /\ r.holder # c THEN Seen("occupied", r)
    ELSE Seen("lost", r)

\* applyLeaseChanged, which drops what is older than the view
LeaseFromChange(c, r) ==
    IF r.epoch < view[c].epoch THEN view[c]
    ELSE IF r.state = "held" THEN Seen(IF r.holder = c THEN "held" ELSE "occupied", r)
    ELSE IF r.state = "expired" THEN [Seen("expired", r) EXCEPT !.expires = 0]
    ELSE [NoView EXCEPT !.epoch = r.epoch]

\* setLease; a view that is not "held" has no renewal timer.
SetLease(c, v, scheduled) ==
    /\ view' = [view EXCEPT ![c] = v]
    /\ timer' = [timer EXCEPT ![c] =
                   IF v.state # "held" THEN 0 ELSE IF scheduled THEN v.epoch ELSE @]

CanMutate(c) == view[c].state = "held" /\ view[c].expires > time

-----------------------------------------------------------------------------
(* Browser *)

Raises(op) == op \in {"acquire", "takeover", "release"}

\* sendControl; since is the epoch a renewal was scheduled for, seen the holder
\* the browser showed when the user asked.
Send(c, op, expected, since) ==
    /\ c \in connected
    /\ Len(pending[c]) < MaxPending
    /\ Raises(op) => lease.epoch < LastEpoch
    /\ up' = [up EXCEPT ![c] = Append(@, [op |-> op, expected |-> expected,
                                          epoch |-> view[c].epoch, seen |-> view[c].holder])]
    /\ pending' = [pending EXCEPT ![c] = Append(@, [op |-> op, since |-> since])]
    /\ UNCHANGED <<time, lease, connected, down, orphans, job, admin, connects, releases, crossed>>

\* authenticated: the scope is looked up, never reacquired.
Authenticated(c) ==
    /\ c \notin connected
    /\ connects < MaxConnects
    /\ connects' = connects + 1
    /\ connected' = connected \cup {c}
    /\ up' = [up EXCEPT ![c] = <<[op |-> "status", expected |-> AnyEpoch,
                                  epoch |-> 0, seen |-> NoClient]>>]
    /\ pending' = [pending EXCEPT ![c] = <<[op |-> "status", since |-> 0]>>]
    /\ UNCHANGED <<time, lease, down, orphans, job, admin, view, timer, releases, crossed>>

\* handleClose rejects what is pending; the catch clause of a scheduled renewal
\* then marks the lease lost, with the epoch it was scheduled for.
Disconnect(c) ==
    /\ c \in connected
    /\ connected' = connected \ {c}
    /\ orphans' = orphans \cup {[client |-> c, req |-> up[c][i]] :
                     i \in {k \in DOMAIN up[c] : up[c][k].op # "status"}}
    /\ up' = [up EXCEPT ![c] = <<>>]
    /\ down' = [down EXCEPT ![c] = <<>>]
    /\ pending' = [pending EXCEPT ![c] = <<>>]
    /\ job' = IF job # NoJob /\ job.client = c THEN [job EXCEPT !.live = FALSE] ELSE job
    /\ LET renewals == {i \in DOMAIN pending[c] : pending[c][i].op = "renew"}
       IN  \/ renewals = {} /\ UNCHANGED <<view, timer>>
           \/ \E i \in renewals :
                /\ \A k \in renewals : k <= i
                /\ SetLease(c, [NoView EXCEPT !.state = "lost", !.epoch = pending[c][i].since], FALSE)
    /\ UNCHANGED <<time, lease, admin, connects, releases, crossed>>

\* ThreadDetail: what the user may ask for, always against the epoch shown.
Acquire(c) ==
    /\ ~CanMutate(c) /\ view[c].state # "occupied"
    /\ Send(c, "acquire", view[c].epoch, 0)
    /\ UNCHANGED <<view, timer>>

\* Offered for an occupied lease; the confirmation may outlive that view.
Takeover(c) ==
    /\ view[c].epoch # 0
    /\ Send(c, "takeover", view[c].epoch, 0)
    /\ UNCHANGED <<view, timer>>

Release(c) ==
    /\ CanMutate(c)
    /\ Send(c, "release", AnyEpoch, 0)
    /\ timer' = [timer EXCEPT ![c] = 0]
    /\ UNCHANGED view

\* loadThread: registerLeaseScope on a live connection.
LoadThread(c) ==
    /\ Send(c, "status", AnyEpoch, 0)
    /\ UNCHANGED <<view, timer>>

\* scheduleLeaseRenew's callback does nothing on a broken connection.
RenewTimer(c) ==
    /\ timer[c] # 0
    /\ timer' = [timer EXCEPT ![c] = 0]
    /\ UNCHANGED view
    /\ \/ Send(c, "renew", AnyEpoch, timer[c])
       \/ /\ c \notin connected
          /\ UNCHANGED <<time, lease, connected, up, down, pending, orphans, job, admin,
                         connects, releases, crossed>>

\* handleEvent: an answer belongs to the oldest pending request.
ReceiveFrame(c) ==
    /\ down[c] # <<>>
    /\ down' = [down EXCEPT ![c] = Tail(@)]
    /\ LET f == Head(down[c])
       IN  \/ /\ f.kind = "result"
              /\ pending' = [pending EXCEPT ![c] = Tail(@)]
              /\ SetLease(c, LeaseFromResult(c, f.err, f.record),
                          Head(pending[c]).op \in {"acquire", "takeover", "renew"})
           \/ /\ f.kind = "changed"
              /\ SetLease(c, LeaseFromChange(c, f.record), FALSE)
              /\ UNCHANGED pending
    /\ UNCHANGED <<time, lease, connected, up, orphans, job, admin, connects, releases, crossed>>

-----------------------------------------------------------------------------
(* Server *)

StoreCall(c, r) ==
    CASE r.op \in {"acquire", "takeover"} -> AcquireLease(lease, c, r.op, r.expected, time)
      [] r.op = "renew"   -> RenewLease(lease, c, r.epoch, time)
      [] r.op = "release" -> ReleaseLease(lease, c, r.epoch)
      [] r.op = "status"  -> Lease(lease, time)

MutexFree == job = NoJob /\ \A d \in Clients : Len(down[d]) <= MaxQueue

Transact(c, r, live) ==
    LET out == StoreCall(c, r)
    IN  /\ MutexFree
        /\ lease' = out.row
        /\ job' = [client |-> c, live |-> live, req |-> r, err |-> out.err,
                   record |-> out.record]
        /\ crossed' = (crossed \/ admin.at # "idle")
        /\ UNCHANGED <<time, connected, down, pending, admin, view, timer, connects, releases>>

Handle(c) ==
    /\ up[c] # <<>>
    /\ Transact(c, Head(up[c]), TRUE)
    /\ up' = [up EXCEPT ![c] = Tail(@)]
    /\ UNCHANGED orphans

\* The store fails: the row stays, and the answer, whenever it is sent, is a
\* refusal with the empty record.  (Of an orphan nothing is seen: DropOrphan.)
HandleFails(c) ==
    /\ up[c] # <<>>
    /\ MutexFree
    /\ up' = [up EXCEPT ![c] = Tail(@)]
    /\ down' = [down EXCEPT ![c] =
                  Append(@, [kind |-> "result", err |-> "internal", record |-> Failed(lease).record])]
    /\ UNCHANGED <<time, lease, connected, pending, orphans, job, admin, view, timer, connects,
                   releases, crossed>>

HandleOrphan(o) ==
    /\ Transact(o.client, o.req, FALSE)
    /\ orphans' = orphans \ {o}
    /\ UNCHANGED up

DropOrphan(o) ==
    /\ orphans' = orphans \ {o}
    /\ UNCHANGED <<time, lease, connected, up, down, pending, job, admin, view, timer,
                   connects, releases, crossed>>

Changed(record) == [kind |-> "changed", err |-> "none", record |-> record]

\* Mutant: only a held lease is news.
HeldIsNews(j) ==
    j.err = "none" /\ j.req.op # "status" /\ j.record.state = "held"

\* A change is announced, a look-up is not.
IsNews(j) ==
    j.err = "none" /\ j.req.op # "status" /\ j.record.state \in {"held", "released"}

\* handleServerControl after the transaction: announce, then answer.
Answer ==
    /\ job # NoJob
    /\ LET news(c)   == IF IsNews(job) /\ c \in connected THEN <<Changed(job.record)>> ELSE <<>>
           result(c) == IF job.live /\ job.client = c
                        THEN <<[kind |-> "result", err |-> job.err, record |-> job.record]>>
                        ELSE <<>>
       IN  down' = [c \in Clients |-> down[c] \o news(c) \o result(c)]
    /\ job' = NoJob
    /\ UNCHANGED <<time, lease, connected, up, pending, orphans, admin, view, timer,
                   connects, releases, crossed>>

\* releaseLease of the administrator: UPDATE, read, announce; no mutex.
AdminReleases ==
    /\ admin.at = "idle"
    /\ releases < MaxAdmin
    /\ AdminMatches(lease, lease.epoch)
    /\ lease' = Cleared(lease)
    /\ releases' = releases + 1
    /\ crossed' = (crossed \/ job # NoJob)
    /\ admin' = [admin EXCEPT !.at = "read"]
    /\ UNCHANGED <<time, connected, up, down, pending, orphans, job, view, timer, connects>>

AdminReads ==
    /\ admin.at = "read"
    /\ admin' = [at |-> "announce", record |-> Lease(lease, time).record]
    /\ UNCHANGED <<time, lease, connected, up, down, pending, orphans, job, view, timer,
                   connects, releases, crossed>>

\* When that read fails the release stands and nobody is told.
AdminReadFails ==
    /\ admin.at = "read"
    /\ admin' = [admin EXCEPT !.at = "idle"]
    /\ crossed' = TRUE
    /\ UNCHANGED <<time, lease, connected, up, down, pending, orphans, job, view, timer,
                   connects, releases>>

AdminAnnounce ==
    /\ admin.at = "announce"
    /\ down' = [c \in Clients |->
                  IF c \in connected THEN Append(down[c], Changed(admin.record)) ELSE down[c]]
    /\ admin' = [at |-> "idle", record |-> Record(NoRow, "none")]
    /\ UNCHANGED <<time, lease, connected, up, pending, orphans, job, view, timer, connects,
                   releases, crossed>>

TimePasses ==
    /\ time < MaxTime
    /\ time' = time + 1
    /\ UNCHANGED <<lease, connected, up, down, pending, orphans, job, admin, view, timer,
                   connects, releases, crossed>>

ClientNext ==
    \/ \E c \in Clients :
        \/ Authenticated(c) \/ Disconnect(c)
        \/ Acquire(c) \/ Takeover(c) \/ Release(c) \/ LoadThread(c) \/ RenewTimer(c)
        \/ ReceiveFrame(c) \/ Handle(c) \/ HandleFails(c)
    \/ \E o \in orphans : HandleOrphan(o) \/ DropOrphan(o)
    \/ Answer
    \/ AdminReleases \/ AdminReads \/ AdminReadFails \/ AdminAnnounce
    \/ TimePasses

ClientSpec == ClientInit /\ [][ClientNext]_clientVars

-----------------------------------------------------------------------------
(* Properties *)

\* Nothing is under way between the Server and a connected browser.
Settled(c) ==
    /\ c \in connected
    /\ pending[c] = <<>> /\ down[c] = <<>>
    /\ job = NoJob /\ admin.at = "idle"

\* What leaseFromResult makes of the empty record of a store that failed: the
\* browser offers to acquire the lease against epoch 0, which the Server refuses
\* with the row as it is.
Blind(v) == v.state = "lost" /\ v.epoch = 0

\* Every change reaches every connected browser: when its exchange with the
\* Server has settled its view has the row's epoch, or is the blind one that a
\* failed store left it, never an epoch that has passed; in spite of
\* reconnections, of handlers that outlive theirs and of the administrator, as
\* long as no handler ran between a release of his and its announcement.
SettledViewIsCurrent ==
    \A c \in Clients :
        Settled(c) /\ ~crossed => view[c].epoch = lease.epoch \/ Blind(view[c])

\* A user who takes over from the holder shown takes over from that holder:
\* had the lease moved on meanwhile, the expected epoch refuses the takeover.
TakeoverAsConfirmed ==
    [][/\ job = NoJob /\ job' # NoJob
       /\ job'.req.op = "takeover" /\ job'.err = "none" /\ job'.req.seen # NoClient
       => lease.holder = job'.req.seen]_job

=============================================================================
