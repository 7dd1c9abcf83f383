----------------------------- MODULE LeaseTable -----------------------------
(***************************************************************************)
(* The row of control_leases for one scope (owner, Node, workspace,        *)
(* Thread) and the transactions of internal/server/store/leases.go and     *)
(* internal/server/store/admin.go on it.  Each transaction is a function   *)
(* of the row, the request and the Server's clock; it returns the error    *)
(* class, the row it commits and the record handed to the caller.          *)
(*                                                                         *)
(* A row with epoch 0 is a row that does not exist yet.  The lease ID is a *)
(* fresh 16-byte random value per acquisition and every acquisition makes  *)
(* a new epoch, so a row's epoch determines its lease ID: lease_id is NULL *)
(* exactly when holder_client_id is, and a claimed (leaseId, epoch) pair   *)
(* is either the pair issued at some epoch, written as that epoch, or one  *)
(* that matches no row, written as epoch 0.                                *)
(***************************************************************************)
EXTENDS Integers

CONSTANTS Clients,   \* control clients of the owner
          NoClient,  \* the NULL holder_client_id
          TTL        \* DefaultLeaseTTL in clock ticks

ASSUME LeaseTableAssumption ==
    /\ NoClient \notin Clients
    /\ TTL \in Nat \ {0}

AnyEpoch == -1 \* an acquire request without expectedEpoch

Rows == [holder : Clients \cup {NoClient}, epoch : Nat, expires : Nat]

NoRow == [holder |-> NoClient, epoch |-> 0, expires |-> 0]

\* "zero" is the empty State of Go's zero LeaseRecord.
RecordStates == {"zero", "none", "released", "expired", "held"}

\* scanLeaseRow, and the readers' default for a row that does not exist.
Stored(r) ==
    IF r.epoch = 0 THEN "none"
    ELSE IF r.holder = NoClient THEN "released"
    ELSE "held"

\* The expiry test that AcquireLease and Lease add to it.
State(r, now) ==
    IF Stored(r) = "held" /\ r.expires <= now THEN "expired" ELSE Stored(r)

\* The record a caller gets.
Record(r, state) == [state |-> state, holder |-> r.holder,
                     epoch |-> r.epoch, expires |-> r.expires]

Records == [state : RecordStates, holder : Clients \cup {NoClient},
            epoch : Nat, expires : Nat]

Errors == {"none", "conflict", "expired", "internal"}

Outcome(err, r, state) == [err |-> err, row |-> r, record |-> Record(r, state)]

\* An internal error of any operation (a statement, the scan or the commit
\* failed): the transaction is rolled back and the caller gets LeaseRecord{}.
Failed(r) == [err |-> "internal", row |-> r, record |-> Record(NoRow, "zero")]

Granted(r, c, now) == [holder |-> c, epoch |-> r.epoch + 1, expires |-> now + TTL]

\* Cleared, as a likely mistake would have it: the epoch stays.
ClearedInPlace(r) == [holder |-> NoClient, epoch |-> r.epoch, expires |-> 0]

Cleared(r) == [holder |-> NoClient, epoch |-> r.epoch + 1, expires |-> 0]

\* The holder, lease ID and epoch a renewal or a release must present.
Matches(r, c, epoch) ==
    /\ r.holder = c
    /\ r.epoch = epoch

\* Mutant: a takeover does not look at the expected epoch.
BlindTakeover(r, c, mode, expected, now) ==
    LET occupied == State(r, now) = "held" /\ mode # "takeover"
        stale == expected # AnyEpoch /\ expected # r.epoch /\ mode # "takeover"
    IN  IF stale \/ (occupied /\ r.holder # c)
        THEN Outcome("conflict", r, State(r, now))
        ELSE Outcome("none", IF occupied THEN r ELSE Granted(r, c, now), "held")

\* mode "takeover" is an acquire request with force set.
AcquireLease(r, c, mode, expected, now) ==
    LET occupied == State(r, now) = "held" /\ mode # "takeover"
    IN  IF \/ expected # AnyEpoch /\ expected # r.epoch
           \/ occupied /\ r.holder # c
        THEN Outcome("conflict", r, State(r, now))
        ELSE IF occupied
        THEN Outcome("none", r, "held")
        ELSE Outcome("none", Granted(r, c, now), "held")

\* A renewal or a release that does not match is refused with the row as it is
\* stored: a lease that has run out is reported as held.
RenewLease(r, c, epoch, now) ==
    IF r.epoch = 0 THEN Outcome("conflict", r, "zero")
    ELSE IF ~Matches(r, c, epoch) THEN Outcome("conflict", r, Stored(r))
    ELSE IF r.expires <= now THEN Outcome("expired", r, "expired")
    ELSE Outcome("none", [r EXCEPT !.expires = now + TTL], "held")

\* Releasing a missing row succeeds; an expired lease can still be released by
\* its holder.
ReleaseLease(r, c, epoch) ==
    IF r.epoch = 0 THEN Outcome("none", r, "released")
    ELSE IF ~Matches(r, c, epoch) THEN Outcome("conflict", r, Stored(r))
    ELSE Outcome("none", Cleared(r), "released")

\* lease.status: a read.
Lease(r, now) == Outcome("none", r, State(r, now))

\* AdminReleaseLease: one UPDATE guarded by the epoch the administrator saw.
AdminMatches(r, epoch) == r.holder # NoClient /\ r.epoch = epoch
=============================================================================
