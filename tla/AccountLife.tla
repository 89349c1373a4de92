---------------------------- MODULE AccountLife ----------------------------
(***************************************************************************)
(* What accounts promise: an email address gets one account, by proving    *)
(* the address, by an administrator, or by one invitation, which puts it   *)
(* into the organization that invited; the address, once proven, stays     *)
(* proven; and only somebody who accepted no invitation founds an          *)
(* organization.                                                           *)
(***************************************************************************)
CONSTANTS Emails, Orgs, Invites, Nowhere, Nobody

VARIABLES
    account,    \* [verified, home] of each email, or Nobody
    joinedBy    \* the invitation that made the account, or Nobody

life == <<account, joinedBy>>

LifeInit ==
    /\ account \in [Emails -> {Nobody, [verified |-> FALSE, home |-> Nowhere]}]
    /\ joinedBy = [m \in Emails |-> Nobody]

Prove(m) ==
    /\ account' = [account EXCEPT ![m] =
                     IF @ = Nobody THEN [verified |-> TRUE, home |-> Nowhere]
                                   ELSE [verified |-> TRUE, home |-> @.home]]
    /\ UNCHANGED joinedBy

Join(m, i, o) ==
    /\ account[m] = Nobody
    /\ account' = [account EXCEPT ![m] = [verified |-> FALSE, home |-> o]]
    /\ joinedBy' = [joinedBy EXCEPT ![m] = i]

Add(m, o) ==
    /\ account[m] = Nobody
    /\ account' = [account EXCEPT ![m] = [verified |-> FALSE, home |-> o]]
    /\ UNCHANGED joinedBy

Found(m, o) ==
    /\ account[m] # Nobody
    /\ account[m].verified
    /\ joinedBy[m] = Nobody
    /\ account' = [account EXCEPT ![m].home = o]
    /\ UNCHANGED joinedBy

LifeNext ==
    \/ \E m \in Emails : Prove(m)
    \/ \E m \in Emails, i \in Invites, o \in Orgs : Join(m, i, o)
    \/ \E m \in Emails, o \in Orgs : Add(m, o) \/ Found(m, o)

LifeSpec == LifeInit /\ [][LifeNext]_life
=============================================================================
