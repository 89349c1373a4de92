------------------------------ MODULE Accounts ------------------------------
(***************************************************************************)
(* How an email address becomes an account and signs in: registration and  *)
(* the proof of the address (auth.service.ts), invitations                 *)
(* (invitations.service.ts), the founding of an organization               *)
(* (organization.service.ts, and a provisioning run), what administrators  *)
(* do to users (users.service.ts), and the sign-in of the platform's own   *)
(* administrators (admin-auth.service.ts).                                 *)
(*                                                                         *)
(* A request reads, and writes later; each write of several rows in one    *)
(* step is a transaction of the code. Rows of users are never deleted.     *)
(***************************************************************************)
EXTENDS FiniteSets

CONSTANTS
    Emails,
    Requests,
    Hosts,      \* organizations that invite
    Founded,    \* organizations that users found
    Invites,    \* identities of Invitation rows
    Tokens,     \* identities of RefreshToken rows
    Nowhere,    \* no organization
    Nobody,     \* no email
    Idle

ASSUME AccountsAssumption ==
    /\ Hosts \cap Founded = {}
    /\ Nowhere \notin Hosts \cup Founded
    /\ Nobody \notin Emails
    /\ Nobody \notin [verified : BOOLEAN, home : Hosts \cup Founded \cup {Nowhere}]
    /\ Idle \notin {"register", "mail", "consume", "discard", "promote", "bind", "drop",
                    "enter", "signIn", "found", "deactivate", "rotate", "renew", "invite",
                    "revoke", "expire", "accept"}

VARIABLES
    user,       \* the User row of each email
    claim,      \* its PendingRegistration
    code,       \* whether a verification code of it is stored
    members,    \* OrganizationMember rows
    invite,     \* Invitation rows
    token,      \* RefreshToken rows: whose, and which sign-in they go back to
    bound,      \* emails whose onboarding session, if any, is bound to the user
    req         \* what each request is doing

rows == <<user, claim, code, members, invite, token, bound>>
vars == <<req, rows>>

Orgs == Hosts \cup Founded
\* super: the role is SUPER_ADMIN.
UserRows == [there : BOOLEAN, verified : BOOLEAN, active : BOOLEAN, super : BOOLEAN,
             org : Orgs \cup {Nowhere}]
NoUser == [there |-> FALSE, verified |-> FALSE, active |-> FALSE, super |-> FALSE,
           org |-> Nowhere]
NewUser(verified, o) ==
    [there |-> TRUE, verified |-> verified, active |-> TRUE, super |-> FALSE, org |-> o]
SeededAdmin == [NewUser(FALSE, Nowhere) EXCEPT !.super = TRUE]
NoInvite == [status |-> "NONE", of |-> Nobody, org |-> Nowhere, late |-> FALSE,
             joined |-> FALSE]
InviteRows == [status : {"PENDING", "ACCEPTED", "REVOKED", "EXPIRED"},
               of : Emails, org : Hosts, late : BOOLEAN, joined : BOOLEAN]
NoToken == [of |-> Nobody, root |-> Nobody]

RequestStates ==
    {[pc |-> Idle]}
    \cup [pc : {"register", "mail", "consume", "discard", "promote", "bind", "drop", "enter",
                "signIn", "found", "deactivate"}, of : Emails]
    \cup [pc : {"rotate"}, token : Tokens, of : Emails, root : Tokens]
    \cup [pc : {"renew"}, of : Emails, root : Tokens]
    \cup [pc : {"invite"}, of : Emails, org : Hosts]
    \cup [pc : {"revoke", "expire", "accept"}, invite : Invites]

TypeOK ==
    /\ req \in [Requests -> RequestStates]
    /\ user \in [Emails -> UserRows]
    /\ claim \in [Emails -> {"none", "valid", "expired"}]
    /\ code \in [Emails -> BOOLEAN]
    /\ members \subseteq Emails \X Orgs
    /\ invite \in [Invites -> InviteRows \cup {NoInvite}]
    /\ token \in [Tokens -> [of : Emails, root : Tokens] \cup {NoToken}]
    /\ bound \subseteq Emails

\* Some users were created before addresses had to be proven; the seed makes
\* the administrators of the platform, with addresses nobody proved.
Init ==
    /\ req = [r \in Requests |-> [pc |-> Idle]]
    /\ user \in [Emails -> {NoUser, NewUser(FALSE, Nowhere), SeededAdmin}]
    /\ claim = [m \in Emails |-> "none"]
    /\ code = [m \in Emails |-> FALSE]
    /\ members = {}
    /\ invite = [i \in Invites |-> NoInvite]
    /\ token = [t \in Tokens |-> NoToken]
    /\ bound = {}

Usable(m) == user[m].there /\ user[m].active
MaySignIn(m) == Usable(m) /\ user[m].verified
Joined(m, o) == members' = members \cup {<<m, o>>}
Pending(m) == {i \in Invites : invite[i].status = "PENDING" /\ invite[i].of = m}
Goto(r, state) == req' = [req EXCEPT ![r] = state]
Free(r) == req[r].pc = Idle
Finish(r) == Goto(r, [pc |-> Idle])
Step(r, pc, m) == Goto(r, [pc |-> pc, of |-> m])

-----------------------------------------------------------------------------
(* Registration: a claim on the address and a code by mail.                *)

RegisterReads(r, m) ==
    /\ Free(r)
    /\ ~user[m].verified
    /\ user[m].there => user[m].active
    /\ Pending(m) = {}
    /\ Step(r, "register", m)
    /\ UNCHANGED rows

\* A claim that is still valid is prolonged, an expired one is replaced.
RegisterWrites(r) ==
    /\ req[r].pc = "register"
    /\ claim' = [claim EXCEPT ![req[r].of] = "valid"]
    /\ Step(r, "mail", req[r].of)
    /\ UNCHANGED <<user, code, members, invite, token, bound>>

SendCode(r) ==
    /\ req[r].pc = "mail"
    /\ code' = [code EXCEPT ![req[r].of] = TRUE]
    /\ Finish(r)
    /\ UNCHANGED <<user, claim, members, invite, token, bound>>

Resend(r, m) ==
    /\ Free(r)
    /\ claim[m] = "valid"
    /\ Step(r, "mail", m)
    /\ UNCHANGED rows

ResendDrops(m) ==
    /\ claim[m] = "expired"
    /\ claim' = [claim EXCEPT ![m] = "none"]
    /\ UNCHANGED <<req, user, code, members, invite, token, bound>>

ClaimExpires(m) ==
    /\ claim[m] = "valid"
    /\ claim' = [claim EXCEPT ![m] = "expired"]
    /\ UNCHANGED <<req, user, code, members, invite, token, bound>>

CodeExpires(m) ==
    /\ code[m]
    /\ code' = [code EXCEPT ![m] = FALSE]
    /\ UNCHANGED <<req, user, claim, members, invite, token, bound>>

-----------------------------------------------------------------------------
(* The code comes back: verifyEmailByCode, statement by statement.         *)

VerifyReads(r, m) ==
    /\ Free(r)
    /\ code[m]
    /\ \/ claim[m] = "valid" /\ Step(r, "consume", m)
       \/ claim[m] = "expired" /\ Step(r, "discard", m)
    /\ UNCHANGED rows

Discard(r) ==
    /\ req[r].pc = "discard"
    /\ code' = [code EXCEPT ![req[r].of] = FALSE]
    /\ claim' = [claim EXCEPT ![req[r].of] = "none"]
    /\ Finish(r)
    /\ UNCHANGED <<user, members, invite, token, bound>>

ConsumeCode(r) ==
    /\ req[r].pc = "consume"
    /\ code' = [code EXCEPT ![req[r].of] = FALSE]
    /\ Step(r, "promote", req[r].of)
    /\ UNCHANGED <<user, claim, members, invite, token, bound>>

\* FAULT: the row is written over, as an upsert would.
PromotedOver(row) == NewUser(TRUE, Nowhere)

\* FAULT: the address is taken, and the row there is left as it is.
PromotedUnchanged(row) ==
    IF row.there THEN row ELSE NewUser(TRUE, Nowhere)

\* A new row, or, as the address is unique, the one there is, verified in place.
Promoted(row) ==
    IF row.there THEN [row EXCEPT !.verified = TRUE] ELSE NewUser(TRUE, Nowhere)

Promote(r) ==
    /\ req[r].pc = "promote"
    /\ user' = [user EXCEPT ![req[r].of] = Promoted(@)]
    /\ Step(r, "bind", req[r].of)
    /\ UNCHANGED <<claim, code, members, invite, token, bound>>

Bind(r) ==
    /\ req[r].pc = "bind"
    /\ bound' = bound \cup {req[r].of}
    /\ Step(r, "drop", req[r].of)
    /\ UNCHANGED <<user, claim, code, members, invite, token>>

DropClaim(r) ==
    /\ req[r].pc = "drop"
    /\ claim' = [claim EXCEPT ![req[r].of] = "none"]
    /\ Step(r, "enter", req[r].of)
    /\ UNCHANGED <<user, code, members, invite, token, bound>>

\* issueAuthenticatedSession reads the user again.
Enter(r) ==
    /\ req[r].pc = "enter"
    /\ MaySignIn(req[r].of)
    /\ Step(r, "signIn", req[r].of)
    /\ UNCHANGED rows

\* A link that was mailed before codes were.
VerifyByLink(m) ==
    /\ Usable(m)
    /\ user' = [user EXCEPT ![m].verified = TRUE]
    /\ UNCHANGED <<req, claim, code, members, invite, token, bound>>

-----------------------------------------------------------------------------
(* Signing in, and the rotation of refresh tokens.                         *)

Login(r, m) ==
    /\ Free(r)
    /\ MaySignIn(m)
    /\ Step(r, "signIn", m)
    /\ UNCHANGED rows

\* FAULT: the console lets any active user in.
ConsoleAny(m) == Usable(m)
ConsoleAdmits(m) == Usable(m) /\ user[m].super

\* The platform console asks for the role, and not for a proven address.
AdminLogin(r, m) ==
    /\ Free(r)
    /\ ConsoleAdmits(m)
    /\ Step(r, "signIn", m)
    /\ UNCHANGED rows

Live(t) == token[t] # NoToken
Presented(t) == \E r \in Requests : req[r].pc = "rotate" /\ req[r].token = t
IsRoot(t) == (\E u \in Tokens : token[u].root = t)
             \/ \E r \in Requests : req[r].pc \in {"rotate", "renew"} /\ req[r].root = t

\* A row's identity is new: nobody holds it.
NewToken(r, t, root) ==
    /\ ~Live(t) /\ ~Presented(t)
    /\ token' = [token EXCEPT ![t] = [of |-> req[r].of, root |-> root]]
    /\ Finish(r)
    /\ UNCHANGED <<user, claim, code, members, invite, bound>>

SignIn(r, t) == req[r].pc = "signIn" /\ ~IsRoot(t) /\ NewToken(r, t, t)
Renew(r, t) == req[r].pc = "renew" /\ NewToken(r, t, req[r].root)

RefreshReads(r, t) ==
    /\ Free(r)
    /\ Live(t)
    /\ MaySignIn(token[t].of)
    /\ Goto(r, [pc |-> "rotate", token |-> t, of |-> token[t].of, root |-> token[t].root])
    /\ UNCHANGED rows

RefreshRefused(t) ==
    /\ Live(t)
    /\ ~MaySignIn(token[t].of)
    /\ token' = [token EXCEPT ![t] = NoToken]
    /\ UNCHANGED <<req, user, claim, code, members, invite, bound>>

\* FAULT: deleteMany does not mind when the row is gone.
DeletableAny(t) == TRUE
Deletable(t) == Live(t)

\* The deletion of a row that is gone throws: one refresh of two wins.
Rotate(r) ==
    /\ req[r].pc = "rotate"
    /\ Deletable(req[r].token)
    /\ token' = [token EXCEPT ![req[r].token] = NoToken]
    /\ Goto(r, [pc |-> "renew", of |-> req[r].of, root |-> req[r].root])
    /\ UNCHANGED <<user, claim, code, members, invite, bound>>

SignedOut(m) == [t \in Tokens |->
    IF token[t].of = m THEN NoToken ELSE token[t]]

\* Logging out, and a new password, end all sign-ins of the user.
Logout(m) ==
    /\ user[m].there
    /\ token' = SignedOut(m)
    /\ UNCHANGED <<req, user, claim, code, members, invite, bound>>

-----------------------------------------------------------------------------
(* An administrator adds a user to the organization, or deactivates one,   *)
(* or activates.                                                           *)

\* The address is unique.
AddressFree(m) == ~user[m].there

\* Checked before and, by the unique address, in the transaction: one step, as
\* an address that is free then was free before.
AddUser(m, o) ==
    /\ AddressFree(m)
    /\ \E active \in BOOLEAN :
         user' = [user EXCEPT ![m] = [NewUser(FALSE, o) EXCEPT !.active = active]]
    /\ Joined(m, o)
    /\ UNCHANGED <<req, claim, code, invite, token, bound>>

\* updateStatus ends the sign-ins first, update does not.
Deactivates(r, m) ==
    /\ Free(r)
    /\ Usable(m) /\ user[m].org # Nowhere
    /\ token' \in {SignedOut(m), token}
    /\ Step(r, "deactivate", m)
    /\ UNCHANGED <<user, claim, code, members, invite, bound>>

SetActive(m, active) ==
    /\ user' = [user EXCEPT ![m].active = active]
    /\ UNCHANGED <<claim, code, members, invite, token, bound>>

DeactivateWrites(r) ==
    /\ req[r].pc = "deactivate"
    /\ SetActive(req[r].of, FALSE)
    /\ Finish(r)

Activate(m) ==
    /\ user[m].there /\ ~user[m].active
    /\ SetActive(m, TRUE)
    /\ UNCHANGED req

\* update gives a member of the organization any role but SUPER_ADMIN.
Demote(m) ==
    /\ user[m].super /\ user[m].org # Nowhere
    /\ user' = [user EXCEPT ![m].super = FALSE]
    /\ UNCHANGED <<req, claim, code, members, invite, token, bound>>

-----------------------------------------------------------------------------
(* A user founds an organization: the check, then the transaction, and a   *)
(* sign-in to it. A provisioning run (Provisioning) claims the user under  *)
(* a condition.                                                            *)

New(o) == o \in Founded /\ \A row \in members : row[2] # o

FoundReads(r, m) ==
    /\ Free(r)
    /\ user[m].there /\ user[m].verified /\ user[m].org = Nowhere
    /\ Step(r, "found", m)
    /\ UNCHANGED rows

FoundCommits(r, o) ==
    /\ req[r].pc = "found"
    /\ New(o)
    /\ Joined(req[r].of, o)
    /\ user' = [user EXCEPT ![req[r].of].org = o]
    /\ Step(r, "signIn", req[r].of)
    /\ UNCHANGED <<claim, code, invite, token, bound>>

\* FAULT: the claim is not conditioned on the user's organization.
ClaimableAny(m) == user[m].verified
Claimable(m) == user[m].verified /\ user[m].org = Nowhere

Provision(m, o) ==
    /\ m \in bound
    /\ Claimable(m)
    /\ New(o)
    /\ Joined(m, o)
    /\ user' = [user EXCEPT ![m].org = o]
    /\ UNCHANGED <<req, claim, code, invite, token, bound>>

-----------------------------------------------------------------------------
(* Invitations.                                                            *)

InviteReads(r, m, o) ==
    /\ Free(r)
    /\ ~user[m].there
    /\ \A i \in Pending(m) : invite[i].org # o
    /\ Goto(r, [pc |-> "invite", of |-> m, org |-> o])
    /\ UNCHANGED rows

InviteCreates(r, i) ==
    /\ req[r].pc = "invite"
    /\ invite[i].status = "NONE"
    /\ invite' = [invite EXCEPT ![i] = [NoInvite EXCEPT !.status = "PENDING",
                                        !.of = req[r].of, !.org = req[r].org]]
    /\ Finish(r)
    /\ UNCHANGED <<user, claim, code, members, token, bound>>

LinkExpires(i) ==
    /\ invite[i].status = "PENDING" /\ ~invite[i].late
    /\ invite' = [invite EXCEPT ![i].late = TRUE]
    /\ UNCHANGED <<req, user, claim, code, members, token, bound>>

\* revoke, and verifyToken on a late link, write what they decided on an
\* invitation they found PENDING.
InviteCall(r, call, i) ==
    /\ Free(r)
    /\ invite[i].status = "PENDING"
    /\ call = "expire" => invite[i].late
    /\ Goto(r, [pc |-> call, invite |-> i])
    /\ UNCHANGED rows

\* FAULT: the status is named after the call.
DecidedAsCalled(call) == call
Decided(call) == IF call = "revoke" THEN "REVOKED" ELSE "EXPIRED"

InviteWrites(r) ==
    /\ req[r].pc \in {"revoke", "expire"}
    /\ invite' = [invite EXCEPT ![req[r].invite].status = Decided(req[r].pc)]
    /\ Finish(r)
    /\ UNCHANGED <<user, claim, code, members, token, bound>>

AcceptReads(r, i) ==
    /\ Free(r)
    /\ invite[i].status = "PENDING" /\ ~invite[i].late
    /\ ~user[invite[i].of].there
    /\ Goto(r, [pc |-> "accept", invite |-> i])
    /\ UNCHANGED rows

AcceptCommits(r) ==
    /\ req[r].pc = "accept"
    /\ LET i == req[r].invite
           m == invite[i].of
           o == invite[i].org IN
       /\ AddressFree(m)
       /\ user' = [user EXCEPT ![m] = NewUser(FALSE, o)]
       /\ Joined(m, o)
       /\ invite' = [invite EXCEPT ![i].status = "ACCEPTED", ![i].joined = TRUE]
    /\ Finish(r)
    /\ UNCHANGED <<claim, code, token, bound>>

-----------------------------------------------------------------------------
\* A check fails, a statement throws or the process dies.
RequestFails(r) ==
    /\ ~Free(r)
    /\ Finish(r)
    /\ UNCHANGED rows

VerifyNext(r) ==
    \/ \E m \in Emails : RegisterReads(r, m) \/ Resend(r, m) \/ VerifyReads(r, m)
    \/ RegisterWrites(r) \/ SendCode(r) \/ Discard(r) \/ ConsumeCode(r) \/ Promote(r)
    \/ Bind(r) \/ DropClaim(r) \/ Enter(r)

TokenNext(r) ==
    \/ \E m \in Emails : Login(r, m) \/ AdminLogin(r, m)
    \/ \E t \in Tokens : SignIn(r, t) \/ Renew(r, t) \/ RefreshReads(r, t)
    \/ Rotate(r)

JoinNext(r) ==
    \/ \E m \in Emails : Deactivates(r, m) \/ FoundReads(r, m)
    \/ \E m \in Emails, o \in Hosts : InviteReads(r, m, o)
    \/ \E i \in Invites : InviteCreates(r, i) \/ AcceptReads(r, i)
    \/ \E i \in Invites, call \in {"revoke", "expire"} : InviteCall(r, call, i)
    \/ \E o \in Founded : FoundCommits(r, o)
    \/ InviteWrites(r) \/ AcceptCommits(r) \/ DeactivateWrites(r)

Next ==
    \/ \E r \in Requests : VerifyNext(r) \/ TokenNext(r) \/ JoinNext(r) \/ RequestFails(r)
    \/ \E m \in Emails :
         ResendDrops(m) \/ ClaimExpires(m) \/ CodeExpires(m) \/ VerifyByLink(m)
         \/ Logout(m) \/ Activate(m) \/ Demote(m)
    \/ \E m \in Emails, o \in Founded : Provision(m, o)
    \/ \E m \in Emails, o \in Hosts : AddUser(m, o)
    \/ \E t \in Tokens : RefreshRefused(t)
    \/ \E i \in Invites : LinkExpires(i)

Spec == Init /\ [][Next]_vars

-----------------------------------------------------------------------------
(* However refreshes of one token, log-outs and deactivations race, a      *)
(* sign-in has at most one refresh token at a time, rotated and not        *)
(* multiplied.                                                             *)
OneTokenPerSignIn ==
    \A t, u \in Tokens : Live(t) /\ Live(u) /\ token[t].root = token[u].root => t = u

(* However an account came to be, changed and was taken over by the one    *)
(* who proved the address: it is signed in only when its address is proven *)
(* or it is an administrator of the platform, and has an onboarding        *)
(* session to provision only when its address is proven.                   *)
OnlyProven ==
    /\ \A t \in Tokens : Live(t) =>
         user[token[t].of].verified \/ user[token[t].of].super
    /\ \A m \in bound : user[m].verified

(* An address is invited by several organizations, added by another,       *)
(* registers, is verified and provisioned at the same time: at most one    *)
(* invitation makes the account, and who joined by an invitation stays in  *)
(* the organization that sent it.                                          *)
AcceptedJoins ==
    \A i \in Invites : invite[i].joined =>
        /\ user[invite[i].of].there
        /\ user[invite[i].of].org = invite[i].org
        /\ <<invite[i].of, invite[i].org>> \in members
        /\ \A j \in Invites : invite[j].joined /\ invite[j].of = invite[i].of => i = j

Joining(m) == {i \in Invites : invite[i].joined /\ invite[i].of = m}

accountView == [m \in Emails |->
    IF user[m].there THEN [verified |-> user[m].verified, home |-> user[m].org] ELSE Nobody]
Joiner(joining) == IF joining = {} THEN Nobody ELSE CHOOSE i \in joining : TRUE
joinedView == [m \in Emails |-> Joiner(Joining(m))]

Life == INSTANCE AccountLife WITH account <- accountView, joinedBy <- joinedView

(* Registration, verification, invitations, administrators and founding,   *)
(* interleaved, implement the life of an account.                          *)
ImplementsAccountLife == Life!LifeSpec
=============================================================================
