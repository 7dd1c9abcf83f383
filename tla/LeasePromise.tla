---------------------------- MODULE LeasePromise ----------------------------
(***************************************************************************)
(* What the Server promises about one lease scope, without its mutex, its  *)
(* connections, its clock and its messages.  LeaseHub implements it.       *)
(*                                                                         *)
(* A lease has an epoch and a holder.  A control of the holder gets a      *)
(* permit, which is used or dropped before anybody else obtains the lease. *)
(* Ending the lease does not recall a permit that is out.                  *)
(***************************************************************************)
EXTENDS Integers

CONSTANTS Clients,   \* control clients of the owner
          NoClient   \* nobody: not a client

VARIABLES lease,     \* holder and epoch
          permit,    \* the control that may be delivered
          last       \* the control delivered most recently

promiseVars == <<lease, permit, last>>

Nothing == [client |-> NoClient, epoch |-> 0]

Init ==
    /\ lease = Nothing
    /\ permit = Nothing
    /\ last = Nothing

\* A client obtains the lease: a new epoch, and no permit of the old one is out.
Obtain(c) ==
    /\ permit = Nothing
    /\ lease' = [client |-> c, epoch |-> lease.epoch + 1]
    /\ UNCHANGED <<permit, last>>

\* The holder or the administrator ends the lease.
End ==
    /\ lease.client # NoClient
    /\ lease' = [client |-> NoClient, epoch |-> lease.epoch + 1]
    /\ UNCHANGED <<permit, last>>

\* A control of the holder is let through ...
Permit ==
    /\ permit = Nothing
    /\ lease.client # NoClient
    /\ permit' = lease
    /\ UNCHANGED <<lease, last>>

\* ... and delivered, or lost on the way.
Deliver ==
    /\ permit # Nothing
    /\ last' = permit
    /\ permit' = Nothing
    /\ UNCHANGED lease

Drop ==
    /\ permit # Nothing
    /\ permit' = Nothing
    /\ UNCHANGED <<lease, last>>

Next == (\E c \in Clients : Obtain(c)) \/ End \/ Permit \/ Deliver \/ Drop

Spec == Init /\ [][Next]_promiseVars
=============================================================================
