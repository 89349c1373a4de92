--------------------------- MODULE AccountsProofs ---------------------------
(***************************************************************************)
(* Proofs about Accounts.                                                  *)
(***************************************************************************)
EXTENDS Accounts, TLAPS

EmailCalls == {"register", "mail", "consume", "discard", "promote", "bind", "drop", "enter",
               "signIn", "found", "deactivate"}

\* What a request carries from what it read to what it writes.
LEMMA Carried ==
    ASSUME req \in [Requests -> RequestStates], NEW r \in Requests
    PROVE  /\ req[r].pc \in EmailCalls \cup {"rotate", "renew", "invite"} => req[r].of \in Emails
           /\ req[r].pc = "rotate" => req[r].token \in Tokens
           /\ req[r].pc \in {"rotate", "renew"} => req[r].root \in Tokens
           /\ req[r].pc = "invite" => req[r].org \in Hosts
           /\ req[r].pc \in {"revoke", "expire", "accept"} => req[r].invite \in Invites
<1> req[r] \in RequestStates
    OBVIOUS
<1> QED
    BY AccountsAssumption DEF RequestStates, EmailCalls

LEMMA StepTyped ==
    ASSUME req \in [Requests -> RequestStates], NEW r \in Requests, NEW m \in Emails,
           NEW pc \in EmailCalls, Step(r, pc, m)
    PROVE  req' \in [Requests -> RequestStates]
BY DEF Step, Goto, RequestStates, EmailCalls

LEMMA FinishTyped ==
    ASSUME req \in [Requests -> RequestStates], NEW r \in Requests, Finish(r)
    PROVE  req' \in [Requests -> RequestStates]
BY DEF Finish, Goto, RequestStates

(* An invitation that a request was going to write to is a row.            *)
Noted == \A r \in Requests : req[r].pc \in {"revoke", "expire", "accept"} =>
            req[r].invite \in Invites /\ invite[req[r].invite] # NoInvite

LEMMA VerifyTyped ==
    ASSUME TypeOK, NEW r \in Requests, VerifyNext(r)
    PROVE  TypeOK'
<1> USE DEF TypeOK, rows, EmailCalls
<1>1. ASSUME NEW m \in Emails, RegisterReads(r, m) \/ Resend(r, m) \/ VerifyReads(r, m)
      PROVE  TypeOK'
    BY <1>1, StepTyped DEF RegisterReads, Resend, VerifyReads
<1>2. CASE RegisterWrites(r)
    BY <1>2, StepTyped, Carried DEF RegisterWrites
<1>3. CASE SendCode(r)
    BY <1>3, FinishTyped, Carried DEF SendCode
<1>4. CASE Discard(r)
    BY <1>4, FinishTyped, Carried DEF Discard
<1>5. CASE ConsumeCode(r)
    BY <1>5, StepTyped, Carried DEF ConsumeCode
<1>6. CASE Promote(r)
    <2>1. req[r].of \in Emails
        BY <1>6, Carried DEF Promote
    <2>2. user[req[r].of] \in UserRows
        BY <2>1
    <2>3. Promoted(user[req[r].of]) \in UserRows
        BY <2>2 DEF Promoted, NewUser, UserRows
    <2>4. user' \in [Emails -> UserRows] /\ req' \in [Requests -> RequestStates]
        BY <1>6, <2>1, <2>3, StepTyped DEF Promote
    <2> QED
        BY <1>6, <2>4 DEF Promote
<1>7. CASE Bind(r)
    BY <1>7, StepTyped, Carried DEF Bind
<1>8. CASE DropClaim(r)
    BY <1>8, StepTyped, Carried DEF DropClaim
<1>9. CASE Enter(r)
    BY <1>9, StepTyped, Carried DEF Enter
<1> QED
    BY <1>1, <1>2, <1>3, <1>4, <1>5, <1>6, <1>7, <1>8, <1>9 DEF VerifyNext

LEMMA TokenTyped ==
    ASSUME TypeOK, NEW r \in Requests, TokenNext(r)
    PROVE  TypeOK'
<1> USE DEF TypeOK, rows
<1>1. ASSUME NEW m \in Emails, Login(r, m) \/ AdminLogin(r, m)
      PROVE  TypeOK'
    BY <1>1, StepTyped DEF Login, AdminLogin, EmailCalls
<1>2. ASSUME NEW t \in Tokens, SignIn(r, t) \/ Renew(r, t)
      PROVE  TypeOK'
    <2>1. req[r].of \in Emails /\ (req[r].pc = "renew" => req[r].root \in Tokens)
        BY <1>2, Carried DEF SignIn, Renew, EmailCalls
    <2> QED
        BY <1>2, <2>1, FinishTyped DEF SignIn, Renew, NewToken, NoToken
<1>3. ASSUME NEW t \in Tokens, RefreshReads(r, t)
      PROVE  TypeOK'
    <2>1. token[t].of \in Emails /\ token[t].root \in Tokens
        BY <1>3 DEF RefreshReads, Live
    <2> QED
        BY <1>3, <2>1 DEF RefreshReads, Goto, RequestStates
<1>4. CASE Rotate(r)
    <2>1. req[r].of \in Emails /\ req[r].root \in Tokens /\ req[r].token \in Tokens
        BY <1>4, Carried DEF Rotate
    <2>2. req' \in [Requests -> RequestStates]
        BY <1>4, <2>1 DEF Rotate, Goto, RequestStates
    <2> QED
        BY <1>4, <2>1, <2>2 DEF Rotate, NoToken
<1> QED
    BY <1>1, <1>2, <1>3, <1>4 DEF TokenNext
LEMMA JoinTyped ==
    ASSUME TypeOK, Noted, NEW r \in Requests, JoinNext(r)
    PROVE  TypeOK'
<1> USE DEF TypeOK, rows
<1>1. ASSUME NEW m \in Emails, Deactivates(r, m)
      PROVE  TypeOK'
    <2>1. SignedOut(m) \in [Tokens -> [of : Emails, root : Tokens] \cup {NoToken}]
        BY DEF SignedOut
    <2> QED
        BY <1>1, <2>1, StepTyped DEF Deactivates, EmailCalls
<1>2. ASSUME NEW m \in Emails, FoundReads(r, m)
      PROVE  TypeOK'
    BY <1>2, StepTyped DEF FoundReads, EmailCalls
<1>3. ASSUME NEW m \in Emails, NEW o \in Hosts, InviteReads(r, m, o)
      PROVE  TypeOK'
    BY <1>3 DEF InviteReads, Goto, RequestStates
<1>4. ASSUME NEW i \in Invites, InviteCreates(r, i)
      PROVE  TypeOK'
    <2>1. req[r].of \in Emails /\ req[r].org \in Hosts
        BY <1>4, Carried DEF InviteCreates
    <2>2. invite' \in [Invites -> InviteRows \cup {NoInvite}]
        BY <1>4, <2>1 DEF InviteCreates, NoInvite, InviteRows
    <2> QED
        BY <1>4, <2>2, FinishTyped DEF InviteCreates
<1>5. ASSUME NEW i \in Invites, AcceptReads(r, i)
      PROVE  TypeOK'
    BY <1>5 DEF AcceptReads, Goto, RequestStates
<1>6. ASSUME NEW i \in Invites, NEW call \in {"revoke", "expire"}, InviteCall(r, call, i)
      PROVE  TypeOK'
    BY <1>6 DEF InviteCall, Goto, RequestStates
<1>7. ASSUME NEW o \in Founded, FoundCommits(r, o)
      PROVE  TypeOK'
    <2>1. req[r].of \in Emails
        BY <1>7, Carried DEF FoundCommits, EmailCalls
    <2>2. req' \in [Requests -> RequestStates]
        BY <1>7, <2>1, StepTyped DEF FoundCommits, EmailCalls
    <2>3. user' \in [Emails -> UserRows]
        BY <1>7, <2>1 DEF FoundCommits, UserRows, Orgs
    <2>4. members' \subseteq Emails \X Orgs
        BY <1>7, <2>1 DEF FoundCommits, Joined, Orgs
    <2> QED
        BY <1>7, <2>2, <2>3, <2>4 DEF FoundCommits
<1>8. CASE InviteWrites(r)
    <2>1. req[r].invite \in Invites /\ invite[req[r].invite] \in InviteRows
        BY <1>8 DEF InviteWrites, Noted
    <2>2. invite' \in [Invites -> InviteRows \cup {NoInvite}]
        BY <1>8, <2>1 DEF InviteWrites, Decided, InviteRows
    <2> QED
        BY <1>8, <2>2, FinishTyped DEF InviteWrites
<1>9. CASE AcceptCommits(r)
    <2> DEFINE i == req[r].invite
    <2>1. i \in Invites /\ invite[i] \in InviteRows
        BY <1>9 DEF AcceptCommits, Noted
    <2>2. invite[i].of \in Emails /\ invite[i].org \in Hosts
        BY <2>1 DEF InviteRows
    <2>3. invite' \in [Invites -> InviteRows \cup {NoInvite}]
        BY <1>9, <2>1 DEF AcceptCommits, InviteRows
    <2> DEFINE row == NewUser(FALSE, invite[i].org)
    <2>4. row \in UserRows
        BY <2>2 DEF NewUser, UserRows, Orgs
    <2>5. user' = [user EXCEPT ![invite[i].of] = row]
          /\ members' = members \cup {<<invite[i].of, invite[i].org>>}
        BY <1>9 DEF AcceptCommits, Joined
    <2> HIDE DEF row
    <2>6. user' \in [Emails -> UserRows]
        BY <2>2, <2>4, <2>5
    <2>7. members' \subseteq Emails \X Orgs
        BY <2>2, <2>5 DEF Orgs
    <2> QED
        BY <1>9, <2>3, <2>6, <2>7, FinishTyped DEF AcceptCommits
<1>10. CASE DeactivateWrites(r)
    <2>1. req[r].of \in Emails
        BY <1>10, Carried DEF DeactivateWrites, EmailCalls
    <2> QED
        BY <1>10, <2>1, FinishTyped DEF DeactivateWrites, SetActive, UserRows
<1> QED
    BY <1>1, <1>2, <1>3, <1>4, <1>5, <1>6, <1>7, <1>8, <1>9, <1>10 DEF JoinNext
LEMMA TypedNext ==
    ASSUME TypeOK, Noted, Next
    PROVE  TypeOK'
<1>1. ASSUME NEW r \in Requests, RequestFails(r)
      PROVE  TypeOK'
    BY <1>1, FinishTyped DEF TypeOK, RequestFails, rows
<1>2. ASSUME NEW m \in Emails,
             ResendDrops(m) \/ ClaimExpires(m) \/ CodeExpires(m) \/ VerifyByLink(m)
             \/ Logout(m) \/ Activate(m) \/ Demote(m)
      PROVE  TypeOK'
    <2>1. SignedOut(m) \in [Tokens -> [of : Emails, root : Tokens] \cup {NoToken}]
        BY DEF SignedOut, TypeOK
    <2>2. CASE ResendDrops(m) \/ ClaimExpires(m) \/ CodeExpires(m) \/ Logout(m)
        BY <2>1, <2>2 DEF TypeOK, ResendDrops, ClaimExpires, CodeExpires, Logout
    <2>3. CASE VerifyByLink(m)
        BY <2>3 DEF TypeOK, VerifyByLink, UserRows
    <2>4. CASE Activate(m)
        BY <2>4 DEF TypeOK, Activate, SetActive, UserRows
    <2>5. CASE Demote(m)
        BY <2>5 DEF TypeOK, Demote, UserRows
    <2> QED
        BY <1>2, <2>2, <2>3, <2>4, <2>5
<1>3. ASSUME NEW t \in Tokens, RefreshRefused(t)
      PROVE  TypeOK'
    BY <1>3 DEF TypeOK, RefreshRefused
<1>4. ASSUME NEW i \in Invites, LinkExpires(i)
      PROVE  TypeOK'
    <2>1. invite[i] \in InviteRows
        BY <1>4 DEF TypeOK, LinkExpires, NoInvite
    <2>2. invite' \in [Invites -> InviteRows \cup {NoInvite}]
        BY <1>4, <2>1 DEF TypeOK, LinkExpires, InviteRows
    <2> QED
        BY <1>4, <2>2 DEF TypeOK, LinkExpires
<1>5. ASSUME NEW m \in Emails, NEW o \in Hosts, AddUser(m, o)
      PROVE  TypeOK'
    <2>1. /\ \A active \in BOOLEAN : [NewUser(FALSE, o) EXCEPT !.active = active] \in UserRows
          /\ <<m, o>> \in Emails \X Orgs
        BY DEF NewUser, UserRows, Orgs
    <2>2. user' \in [Emails -> UserRows]
        BY <1>5, <2>1 DEF TypeOK, AddUser
    <2> QED
        BY <1>5, <2>1, <2>2 DEF TypeOK, AddUser, Joined
<1>6. ASSUME NEW m \in Emails, NEW o \in Founded, Provision(m, o)
      PROVE  TypeOK'
    BY <1>6 DEF TypeOK, Provision, Joined, UserRows, Orgs
<1> QED
    BY <1>1, <1>2, <1>3, <1>4, <1>5, <1>6, VerifyTyped, TokenTyped, JoinTyped DEF Next

-----------------------------------------------------------------------------
(* Where a request that carries something comes from.                      *)

Same(q) == req'[q] = req[q]
Proving == {"bind", "drop", "enter"}
OnInvite == {"revoke", "expire", "accept"}

Origins(q) ==
    /\ req'[q].pc = "rotate" => Same(q) \/ \E t \in Tokens : RefreshReads(q, t)
    /\ req'[q].pc = "renew" => Same(q) \/ Rotate(q)
    /\ req'[q].pc = "found" => Same(q) \/ \E m \in Emails : FoundReads(q, m)
    /\ req'[q].pc \in OnInvite =>
         Same(q) \/ (req'[q].invite \in Invites /\ invite[req'[q].invite].status = "PENDING")
    /\ req'[q].pc \in Proving =>
         \/ req[q].pc \in Proving /\ req[q].of = req'[q].of
         \/ Promote(q)
    /\ req'[q].pc = "signIn" =>
         \/ req[q].pc \in {"found", "signIn"} /\ req[q].of = req'[q].of
         \/ MaySignIn(req'[q].of)
         \/ user[req'[q].of].super

LEMMA StepOrigins ==
    ASSUME TypeOK, Next, NEW q \in Requests
    PROVE  Origins(q)
<1> USE AccountsAssumption DEF Origins, Same, Proving, OnInvite, Step, Goto, Finish, TypeOK
<1>1. ASSUME UNCHANGED req
      PROVE  Origins(q)
    BY <1>1
<1>2. ASSUME NEW r \in Requests, Finish(r)
      PROVE  Origins(q)
    BY <1>2
<1>3. ASSUME NEW r \in Requests, NEW m \in Emails,
             NEW pc \in {"register", "mail", "consume", "discard", "promote", "deactivate"},
             Step(r, pc, m)
      PROVE  Origins(q)
    BY <1>3
<1>4. ASSUME NEW r \in Requests, VerifyNext(r)
      PROVE  Origins(q)
    <2>1. ASSUME NEW m \in Emails, RegisterReads(r, m) \/ Resend(r, m) \/ VerifyReads(r, m)
          PROVE  Origins(q)
        BY <2>1, <1>3 DEF RegisterReads, Resend, VerifyReads
    <2>2. CASE RegisterWrites(r) \/ ConsumeCode(r)
        <3>1. req[r].of \in Emails
            BY <2>2, Carried DEF RegisterWrites, ConsumeCode, EmailCalls
        <3> QED
            BY <2>2, <3>1, <1>3 DEF RegisterWrites, ConsumeCode
    <2>3. CASE SendCode(r) \/ Discard(r)
        BY <2>3, <1>2 DEF SendCode, Discard
    <2>4. CASE Promote(r)
        BY <2>4 DEF Promote
    <2>5. CASE Bind(r) \/ DropClaim(r) \/ Enter(r)
        BY <2>5 DEF Bind, DropClaim, Enter
    <2> QED
        BY <1>4, <2>1, <2>2, <2>3, <2>4, <2>5 DEF VerifyNext
<1>5. ASSUME NEW r \in Requests, TokenNext(r)
      PROVE  Origins(q)
    <2>1. ASSUME NEW m \in Emails, Login(r, m) \/ AdminLogin(r, m)
          PROVE  Origins(q)
        BY <2>1 DEF Login, AdminLogin, ConsoleAdmits
    <2>2. ASSUME NEW t \in Tokens, SignIn(r, t) \/ Renew(r, t)
          PROVE  Origins(q)
        BY <2>2, <1>2 DEF SignIn, Renew, NewToken
    <2>3. ASSUME NEW t \in Tokens, RefreshReads(r, t)
          PROVE  Origins(q)
        BY <2>3 DEF RefreshReads
    <2>4. CASE Rotate(r)
        BY <2>4 DEF Rotate
    <2> QED
        BY <1>5, <2>1, <2>2, <2>3, <2>4 DEF TokenNext
<1>6. ASSUME NEW r \in Requests, JoinNext(r)
      PROVE  Origins(q)
    <2>1. ASSUME NEW m \in Emails, Deactivates(r, m)
          PROVE  Origins(q)
        BY <2>1, <1>3 DEF Deactivates
    <2>2. ASSUME NEW m \in Emails, FoundReads(r, m)
          PROVE  Origins(q)
        BY <2>2 DEF FoundReads
    <2>3. ASSUME NEW m \in Emails, NEW o \in Hosts, InviteReads(r, m, o)
          PROVE  Origins(q)
        BY <2>3 DEF InviteReads
    <2>4. ASSUME NEW i \in Invites, InviteCreates(r, i)
          PROVE  Origins(q)
        BY <2>4, <1>2 DEF InviteCreates
    <2>5. ASSUME NEW i \in Invites, AcceptReads(r, i)
          PROVE  Origins(q)
        BY <2>5 DEF AcceptReads
    <2>6. ASSUME NEW i \in Invites, NEW call \in {"revoke", "expire"}, InviteCall(r, call, i)
          PROVE  Origins(q)
        BY <2>6 DEF InviteCall
    <2>7. ASSUME NEW o \in Founded, FoundCommits(r, o)
          PROVE  Origins(q)
        BY <2>7 DEF FoundCommits
    <2>8. CASE InviteWrites(r) \/ AcceptCommits(r) \/ DeactivateWrites(r)
        BY <2>8, <1>2 DEF InviteWrites, AcceptCommits, DeactivateWrites
    <2> QED
        BY <1>6, <2>1, <2>2, <2>3, <2>4, <2>5, <2>6, <2>7, <2>8 DEF JoinNext
<1>7. ASSUME NEW r \in Requests, RequestFails(r)
      PROVE  Origins(q)
    BY <1>7, <1>2 DEF RequestFails
<1>8. ASSUME NEW m \in Emails,
             ResendDrops(m) \/ ClaimExpires(m) \/ CodeExpires(m) \/ VerifyByLink(m)
             \/ Logout(m) \/ Activate(m) \/ Demote(m)
      PROVE  Origins(q)
    BY <1>8, <1>1
    DEF ResendDrops, ClaimExpires, CodeExpires, VerifyByLink, Logout, Activate, Demote
<1> QED
    BY <1>1, <1>4, <1>5, <1>6, <1>7, <1>8
    DEF Next, RefreshRefused, LinkExpires, AddUser, Provision

-----------------------------------------------------------------------------
(* What a step does to users, tokens and invitations.                      *)

\* A platform administrator belongs to no organization before proving the address.
Homeless(m) == user[m].super =>
    user[m].there /\ (user[m].verified \/ user[m].org = Nowhere)

\* Users come to be and prove their addresses, and never the reverse.
Grown(m) ==
    /\ user[m].there => user'[m].there
    /\ user[m].verified => user'[m].verified
    /\ user'[m].verified => user'[m].there
    /\ user[m].super => user'[m].super \/ user[m].verified
    /\ Homeless(m) => Homeless(m)'

Present == \A m \in Emails : user[m].verified => user[m].there

Administrators == \A m \in Emails : Homeless(m)

\* Only who joined by no invitation is about to found an organization.
Founders == \A r \in Requests : req[r].pc = "found" =>
    /\ user[req[r].of].there /\ user[req[r].of].verified
    /\ \A i \in Invites : invite[i].joined => invite[i].of # req[r].of

UserSteps ==
    \/ UNCHANGED user
    \/ \E r \in Requests : Promote(r) \/ AcceptCommits(r) \/ DeactivateWrites(r)
    \/ \E r \in Requests, o \in Founded : FoundCommits(r, o)
    \/ \E m \in Emails : VerifyByLink(m) \/ Activate(m) \/ Demote(m)
    \/ \E m \in Emails, o \in Hosts : AddUser(m, o)
    \/ \E m \in Emails, o \in Founded : Provision(m, o)

TokenSteps ==
    \/ UNCHANGED token
    \/ \E r \in Requests, t \in Tokens : SignIn(r, t) \/ Renew(r, t)
    \/ \E r \in Requests : Rotate(r)
    \/ \E t \in Tokens : RefreshRefused(t)
    \/ \E m \in Emails : token' = SignedOut(m)

InviteSteps ==
    \/ UNCHANGED invite
    \/ \E r \in Requests, i \in Invites : InviteCreates(r, i)
    \/ \E i \in Invites : LinkExpires(i)
    \/ \E r \in Requests : InviteWrites(r) \/ AcceptCommits(r)

LEMMA StepKinds ==
    ASSUME Next
    PROVE  UserSteps /\ TokenSteps /\ InviteSteps
<1> USE DEF rows, UserSteps, TokenSteps, InviteSteps
<1>1. ASSUME NEW r \in Requests, VerifyNext(r)
      PROVE  UserSteps /\ TokenSteps /\ InviteSteps
    BY <1>1 DEF VerifyNext, RegisterReads, Resend, VerifyReads, RegisterWrites, SendCode, Discard,
       ConsumeCode, Bind, DropClaim, Enter, Promote
<1>2. ASSUME NEW r \in Requests, TokenNext(r)
      PROVE  UserSteps /\ TokenSteps /\ InviteSteps
    BY <1>2 DEF TokenNext, Login, AdminLogin, SignIn, Renew, NewToken, RefreshReads, Rotate
<1>3. ASSUME NEW r \in Requests, JoinNext(r)
      PROVE  UserSteps /\ TokenSteps /\ InviteSteps
    BY <1>3 DEF JoinNext, Deactivates, FoundReads, InviteReads, InviteCreates, AcceptReads,
       InviteCall, FoundCommits, InviteWrites, AcceptCommits, DeactivateWrites, SetActive
<1>4. ASSUME NEW m \in Emails,
             ResendDrops(m) \/ ClaimExpires(m) \/ CodeExpires(m) \/ VerifyByLink(m)
             \/ Logout(m) \/ Activate(m) \/ Demote(m)
      PROVE  UserSteps /\ TokenSteps /\ InviteSteps
    BY <1>4 DEF ResendDrops, ClaimExpires, CodeExpires, VerifyByLink, Logout, Activate,
       SetActive, Demote
<1> QED
    BY <1>1, <1>2, <1>3, <1>4
    DEF Next, RequestFails, RefreshRefused, LinkExpires, AddUser, Provision

LEMMA UsersGrow ==
    ASSUME TypeOK, Noted, Present, Founders, Administrators, Next, NEW m \in Emails
    PROVE  Grown(m)
<1> USE DEF TypeOK, Grown, Present, Homeless, Administrators
<1>1. ASSUME NEW r \in Requests, Promote(r)
      PROVE  Grown(m)
    <2>1. req[r].of \in Emails
        BY <1>1, Carried DEF Promote, EmailCalls
    <2>2. user[req[r].of] \in UserRows
        BY <2>1
    <2>3. /\ Promoted(user[req[r].of]).there /\ Promoted(user[req[r].of]).verified
          /\ user[req[r].of].there => Promoted(user[req[r].of]).super = user[req[r].of].super
        BY <2>2 DEF Promoted, NewUser, UserRows
    <2> QED
        BY <1>1, <2>1, <2>3 DEF Promote
<1>2. ASSUME NEW r \in Requests, AcceptCommits(r)
      PROVE  Grown(m)
    BY <1>2 DEF AcceptCommits, AddressFree, NewUser
<1>3. ASSUME NEW r \in Requests, NEW o \in Founded, FoundCommits(r, o)
      PROVE  Grown(m)
    <2>1. user[m] \in UserRows
        OBVIOUS
    <2>2. user[req[r].of].verified
        BY <1>3 DEF FoundCommits, Founders
    <2> QED
        BY <1>3, <2>1, <2>2 DEF FoundCommits, UserRows
<1>4. ASSUME NEW r \in Requests, DeactivateWrites(r)
      PROVE  Grown(m)
    <2>1. user[m] \in UserRows
        OBVIOUS
    <2> QED
        BY <1>4, <2>1 DEF DeactivateWrites, SetActive, UserRows
<1>5. ASSUME NEW n \in Emails, VerifyByLink(n) \/ Activate(n) \/ Demote(n)
      PROVE  Grown(m)
    <2>1. user[m] \in UserRows
        OBVIOUS
    <2> QED
        BY <1>5, <2>1 DEF VerifyByLink, Activate, SetActive, Usable, Demote, UserRows
<1>6. ASSUME NEW n \in Emails, NEW o \in Hosts, AddUser(n, o)
      PROVE  Grown(m)
    BY <1>6 DEF AddUser, AddressFree, NewUser
<1>7. ASSUME NEW n \in Emails, NEW o \in Founded, Provision(n, o)
      PROVE  Grown(m)
    <2>1. user[m] \in UserRows
        OBVIOUS
    <2> QED
        BY <1>7, <2>1 DEF Provision, Claimable, UserRows
<1> QED
    BY <1>1, <1>2, <1>3, <1>4, <1>5, <1>6, <1>7, StepKinds DEF UserSteps

-----------------------------------------------------------------------------
(* The inductive invariant.                                                *)

\* Who may be signed in.
Entitled(m) == user[m].verified \/ user[m].super

\* Requests that are past the check of the address, or of the administrator.
Entered == \A r \in Requests :
    /\ req[r].pc \in Proving \cup {"rotate", "renew"} => user[req[r].of].verified
    /\ req[r].pc = "signIn" => Entitled(req[r].of)

\* A refresh that is under way remembers its token; one that deleted it stands
\* for the sign-in alone.
Chains ==
    /\ \A r \in Requests : req[r].pc = "rotate" /\ Live(req[r].token) =>
         token[req[r].token].of = req[r].of /\ token[req[r].token].root = req[r].root
    /\ \A r \in Requests, t \in Tokens :
         req[r].pc = "renew" /\ Live(t) => token[t].root # req[r].root
    /\ \A r, q \in Requests :
         req[r].pc = "renew" /\ req[q].pc = "renew" /\ req[r].root = req[q].root => r = q

IInv ==
    /\ TypeOK /\ Noted /\ Present /\ Administrators /\ Entered /\ Founders
    /\ Chains /\ OneTokenPerSignIn
    /\ OnlyProven
    /\ AcceptedJoins

(* A row of an invitation keeps its address and organization; it is marked *)
(* as joined by an acceptance alone, and for good.                         *)
InviteGrown(i) ==
    /\ invite[i] # NoInvite =>
         invite'[i] # NoInvite /\ invite'[i].of = invite[i].of /\ invite'[i].org = invite[i].org
    /\ invite[i].joined => invite'[i].joined
    /\ invite'[i].joined =>
         invite[i].joined \/ \E r \in Requests : AcceptCommits(r) /\ req[r].invite = i

LEMMA InvitesGrow ==
    ASSUME TypeOK, Noted, Next, NEW i \in Invites
    PROVE  InviteGrown(i)
<1> USE DEF TypeOK, InviteGrown
<1>1. CASE UNCHANGED invite
    BY <1>1
<1>2. ASSUME NEW r \in Requests, NEW j \in Invites, InviteCreates(r, j)
      PROVE  InviteGrown(i)
    <2>1. CASE i = j
        <3>1. invite[i] = NoInvite
            BY <1>2, <2>1 DEF InviteCreates, InviteRows
        <3>2. invite'[i] = [NoInvite EXCEPT !.status = "PENDING",
                            !.of = req[r].of, !.org = req[r].org]
            BY <1>2, <2>1 DEF InviteCreates
        <3>3. ~invite'[i].joined
            BY <3>2 DEF NoInvite
        <3> QED
            BY <3>1, <3>3 DEF NoInvite
    <2>2. CASE i # j
        BY <1>2, <2>2 DEF InviteCreates
    <2> QED
        BY <2>1, <2>2
<1>3. ASSUME NEW j \in Invites, LinkExpires(j)
      PROVE  InviteGrown(i)
    <2>1. CASE i = j
        <3>1. invite[i] \in InviteRows /\ invite'[i] = [invite[i] EXCEPT !.late = TRUE]
            BY <1>3, <2>1 DEF LinkExpires, NoInvite
        <3> QED
            BY <3>1 DEF InviteRows, NoInvite
    <2>2. CASE i # j
        BY <1>3, <2>2 DEF LinkExpires
    <2> QED
        BY <2>1, <2>2
<1>4. ASSUME NEW r \in Requests, InviteWrites(r)
      PROVE  InviteGrown(i)
    <2>1. CASE i = req[r].invite
        <3>1. invite[i] \in InviteRows
              /\ invite'[i] = [invite[i] EXCEPT !.status = Decided(req[r].pc)]
            BY <1>4, <2>1 DEF InviteWrites, Noted
        <3> QED
            BY <3>1 DEF InviteRows, NoInvite, Decided
    <2>2. CASE i # req[r].invite
        BY <1>4, <2>2 DEF InviteWrites
    <2> QED
        BY <2>1, <2>2
<1>5. ASSUME NEW r \in Requests, AcceptCommits(r)
      PROVE  InviteGrown(i)
    <2>1. CASE i = req[r].invite
        <3>1. invite[i] \in InviteRows
              /\ invite'[i] = [invite[i] EXCEPT !.status = "ACCEPTED", !.joined = TRUE]
            BY <1>5, <2>1 DEF AcceptCommits, Noted
        <3>2. /\ invite'[i].of = invite[i].of /\ invite'[i].org = invite[i].org
              /\ invite'[i].status = "ACCEPTED" /\ invite'[i].joined
            BY <3>1 DEF InviteRows
        <3>3. invite'[i] # NoInvite
            BY <3>2 DEF NoInvite
        <3> QED
            BY <1>5, <2>1, <3>2, <3>3
    <2>2. CASE i # req[r].invite
        BY <1>5, <2>2 DEF AcceptCommits
    <2> QED
        BY <2>1, <2>2
<1> QED
    BY <1>1, <1>2, <1>3, <1>4, <1>5, StepKinds DEF InviteSteps

LEMMA NotedKept == IInv /\ Next => Noted'
<1> SUFFICES ASSUME IInv, Next, NEW q \in Requests, req'[q].pc \in OnInvite
             PROVE  req'[q].invite \in Invites /\ invite'[req'[q].invite] # NoInvite
    BY DEF Noted, OnInvite
<1>1. req'[q].invite \in Invites /\ invite[req'[q].invite] # NoInvite
    <2>1. CASE Same(q)
        BY <2>1 DEF IInv, Noted, OnInvite, Same
    <2>2. CASE req'[q].invite \in Invites /\ invite[req'[q].invite].status = "PENDING"
        BY <2>2 DEF NoInvite
    <2> QED
        BY <2>1, <2>2, StepOrigins DEF IInv, Origins
<1> QED
    BY <1>1, InvitesGrow DEF IInv, InviteGrown

LEMMA EnteredKept == IInv /\ Next => Entered'
<1> SUFFICES ASSUME IInv, Next, NEW q \in Requests,
                    req'[q].pc \in Proving \cup {"rotate", "renew", "signIn"}
             PROVE  \/ user'[req'[q].of].verified
                    \/ req'[q].pc = "signIn" /\ user'[req'[q].of].super
    BY DEF Entered, Entitled, Proving
<1>1. TypeOK' /\ Origins(q)
    BY TypedNext, StepOrigins DEF IInv
<1>2. req'[q].of \in Emails
    <2>1. req' \in [Requests -> RequestStates]
        BY <1>1 DEF TypeOK
    <2> QED
        BY <2>1, AccountsAssumption DEF RequestStates, Proving
<1>3. ASSUME user[req'[q].of].verified
      PROVE  user'[req'[q].of].verified
    BY <1>2, <1>3, UsersGrow DEF IInv, Grown
<1>4. CASE req'[q].pc \in Proving
    <2>1. CASE Promote(q)
        <3>1. req[q].of \in Emails /\ req'[q].of = req[q].of
            BY <2>1, Carried DEF Promote, EmailCalls, IInv, TypeOK, Step, Goto
        <3>2. user[req[q].of] \in UserRows
            BY <3>1 DEF IInv, TypeOK
        <3>3. Promoted(user[req[q].of]).verified
            BY <3>2 DEF Promoted, NewUser, UserRows
        <3> QED
            BY <2>1, <3>1, <3>3 DEF Promote, IInv, TypeOK
    <2> QED
        BY <1>1, <1>3, <1>4, <2>1 DEF Origins, IInv, Entered, Proving
<1>5. CASE req'[q].pc = "rotate"
    <2>1. ASSUME NEW t \in Tokens, RefreshReads(q, t)
          PROVE  user[req'[q].of].verified
        BY <2>1 DEF RefreshReads, MaySignIn, Goto, IInv, TypeOK
    <2> QED
        BY <1>1, <1>3, <1>5, <2>1 DEF Origins, IInv, Entered, Same
<1>6. CASE req'[q].pc = "renew"
    <2>1. CASE Rotate(q)
        BY <1>3, <2>1 DEF Rotate, Goto, IInv, TypeOK, Entered
    <2> QED
        BY <1>1, <1>3, <1>6, <2>1 DEF Origins, IInv, Entered, Same
<1>7. CASE req'[q].pc = "signIn"
    <2>1. Entitled(req'[q].of)
        BY <1>1, <1>7 DEF Origins, IInv, Entered, Founders, Entitled, MaySignIn
    <2>2. user'[req'[q].of].verified \/ user'[req'[q].of].super
        BY <1>2, <2>1, UsersGrow DEF IInv, Grown, Entitled
    <2> QED
        BY <1>7, <2>2
<1> QED
    BY <1>4, <1>5, <1>6, <1>7 DEF Proving

LEMMA FoundersKept == IInv /\ Next => Founders'
<1> SUFFICES ASSUME IInv, Next, NEW q \in Requests, req'[q].pc = "found"
             PROVE  /\ user'[req'[q].of].there /\ user'[req'[q].of].verified
                    /\ \A i \in Invites : invite'[i].joined => invite'[i].of # req'[q].of
    BY DEF Founders
<1> DEFINE Fit(m) == /\ m \in Emails
                     /\ user[m].there /\ user[m].verified
                     /\ \A i \in Invites : invite[i].joined => invite[i].of # m
<1>1. Fit(req'[q].of)
    <2>1. CASE Same(q)
        BY <2>1, Carried DEF Same, IInv, Founders, TypeOK, EmailCalls
    <2>2. ASSUME NEW m \in Emails, FoundReads(q, m)
          PROVE  Fit(req'[q].of)
        <3>1. req'[q].of = m
            BY <2>2 DEF FoundReads, Step, Goto, IInv, TypeOK
        <3>2. ASSUME NEW i \in Invites, invite[i].joined, invite[i].of = m
              PROVE  FALSE
            <4>1. invite[i] \in InviteRows
                BY <3>2 DEF IInv, TypeOK, NoInvite
            <4>2. user[m].org \in Hosts
                BY <3>2, <4>1 DEF IInv, AcceptedJoins, InviteRows
            <4> QED
                BY <2>2, <4>2, AccountsAssumption DEF FoundReads
        <3> QED
            BY <2>2, <3>1, <3>2 DEF FoundReads
    <2>3. Same(q) \/ \E m \in Emails : FoundReads(q, m)
        BY StepOrigins DEF IInv, Origins
    <2> HIDE DEF Fit
    <2> QED
        BY <2>1, <2>2, <2>3
<1>2. user'[req'[q].of].there /\ user'[req'[q].of].verified
    BY <1>1, UsersGrow DEF IInv, Grown
<1>3. ASSUME NEW i \in Invites, invite'[i].joined, invite'[i].of = req'[q].of
      PROVE  FALSE
    <2>1. InviteGrown(i)
        BY InvitesGrow DEF IInv
    <2>2. CASE invite[i].joined
        <3>1. invite[i] # NoInvite
            BY <2>2 DEF NoInvite
        <3> QED
            BY <1>1, <1>3, <2>1, <2>2, <3>1 DEF InviteGrown
    <2>3. ASSUME NEW r \in Requests, AcceptCommits(r), req[r].invite = i
          PROVE  FALSE
        <3>1. invite[i] # NoInvite
            BY <2>3 DEF IInv, Noted, AcceptCommits
        <3>2. invite[i].of = req'[q].of
            BY <1>3, <2>1, <3>1 DEF InviteGrown
        <3> QED
            BY <1>1, <2>3, <3>2 DEF AcceptCommits, AddressFree
    <2> QED
        BY <1>3, <2>1, <2>2, <2>3 DEF InviteGrown
<1> QED
    BY <1>2, <1>3

LEMMA PresentKept == IInv /\ Next => Present' /\ Administrators'
BY UsersGrow DEF IInv, Present, Administrators, Grown

-----------------------------------------------------------------------------
(* Sign-ins.                                                               *)

\* What the tokens of a step are: kept, deleted, or one new one.
Kept == \A t \in Tokens : token'[t] = token[t] \/ token'[t] = NoToken

LEMMA TokenKinds ==
    ASSUME TypeOK, Next
    PROVE  Kept \/ \E r \in Requests, t \in Tokens : SignIn(r, t) \/ Renew(r, t)
<1> USE DEF Kept, TypeOK
<1>1. ASSUME NEW r \in Requests, Rotate(r)
      PROVE  Kept
    BY <1>1, Carried DEF Rotate
<1>2. ASSUME NEW t \in Tokens, RefreshRefused(t)
      PROVE  Kept
    BY <1>2 DEF RefreshRefused
<1>3. ASSUME NEW m \in Emails, token' = SignedOut(m)
      PROVE  Kept
    BY <1>3 DEF SignedOut
<1> QED
    BY <1>1, <1>2, <1>3, StepKinds DEF TokenSteps

LEMMA ChainsKept == IInv /\ Next => Chains' /\ OneTokenPerSignIn'
<1> SUFFICES ASSUME IInv, Next
             PROVE  Chains' /\ OneTokenPerSignIn'
    OBVIOUS
<1> USE DEF Live
<1>1. TypeOK /\ TypeOK' /\ \A q \in Requests : Origins(q)
    BY TypedNext, StepOrigins DEF IInv
<1>2. CASE Kept
    <2>1. OneTokenPerSignIn'
        BY <1>2 DEF Kept, IInv, OneTokenPerSignIn
    <2>2. ASSUME NEW r \in Requests, req'[r].pc = "rotate", token'[req'[r].token] # NoToken
          PROVE  token'[req'[r].token].of = req'[r].of /\ token'[req'[r].token].root = req'[r].root
        <3>1. req'[r].token \in Tokens
            BY <1>1, <2>2, AccountsAssumption DEF TypeOK, RequestStates
        <3>2. token'[req'[r].token] = token[req'[r].token]
            BY <1>2, <2>2, <3>1 DEF Kept
        <3>3. CASE Same(r)
            BY <2>2, <3>2, <3>3 DEF Same, IInv, Chains
        <3>4. ASSUME NEW t \in Tokens, RefreshReads(r, t)
              PROVE  token[req'[r].token].of = req'[r].of /\ token[req'[r].token].root = req'[r].root
            BY <3>4, <1>1 DEF RefreshReads, Goto, TypeOK
        <3> QED
            BY <1>1, <2>2, <3>2, <3>3, <3>4 DEF Origins
    <2>3. ASSUME NEW r \in Requests, NEW t \in Tokens, req'[r].pc = "renew", token'[t] # NoToken
          PROVE  token'[t].root # req'[r].root
        <3>1. token'[t] = token[t] /\ token[t] # NoToken
            BY <1>2, <2>3 DEF Kept
        <3>2. CASE Same(r)
            BY <2>3, <3>1, <3>2 DEF Same, IInv, Chains
        <3>3. CASE Rotate(r)
            <4>1. req[r].token \in Tokens /\ token[req[r].token] # NoToken
                BY <1>1, <3>3, Carried DEF Rotate, Deletable, TypeOK
            <4>2. token[req[r].token].root = req[r].root
                BY <3>3, <4>1 DEF Rotate, IInv, Chains
            <4>3. req'[r].root = req[r].root
                BY <1>1, <3>3 DEF Rotate, Goto, TypeOK
            <4>4. t # req[r].token
                BY <1>1, <2>3, <3>3, <4>1 DEF Rotate, TypeOK
            <4> QED
                BY <3>1, <4>1, <4>2, <4>3, <4>4 DEF IInv, OneTokenPerSignIn
        <3> QED
            BY <1>1, <2>3, <3>2, <3>3 DEF Origins
    <2>4. ASSUME NEW r \in Requests, NEW q \in Requests, Rotate(r), q # r, req'[q].pc = "renew"
          PROVE  req'[q].root # req'[r].root
        <3>1. req[r].token \in Tokens /\ token[req[r].token] # NoToken
            BY <1>1, <2>4, Carried DEF Rotate, Deletable, TypeOK
        <3>2. token[req[r].token].root = req[r].root
            BY <2>4, <3>1 DEF Rotate, IInv, Chains
        <3>3. req'[r].root = req[r].root /\ req'[q] = req[q]
            BY <1>1, <2>4 DEF Rotate, Goto, TypeOK
        <3> QED
            BY <2>4, <3>1, <3>2, <3>3 DEF IInv, Chains
    <2>5. ASSUME NEW r \in Requests, NEW q \in Requests, req'[r].pc = "renew",
                 req'[q].pc = "renew", req'[r].root = req'[q].root
          PROVE  r = q
        <3>1. (Same(r) \/ Rotate(r)) /\ (Same(q) \/ Rotate(q))
            BY <1>1, <2>5 DEF Origins
        <3>2. CASE Same(r) /\ Same(q)
            BY <2>5, <3>2 DEF Same, IInv, Chains
        <3> QED
            BY <2>4, <2>5, <3>1, <3>2
    <2> QED
        BY <2>1, <2>2, <2>3, <2>5 DEF Chains
<1>3. ASSUME NEW s \in Requests, NEW u \in Tokens, SignIn(s, u) \/ Renew(s, u)
      PROVE  Chains' /\ OneTokenPerSignIn'
    <2> DEFINE root == token'[u].root
    <2>1. /\ ~Live(u) /\ ~Presented(u)
          /\ req' = [req EXCEPT ![s] = [pc |-> Idle]]
          /\ \A t \in Tokens : t # u => token'[t] = token[t]
        BY <1>1, <1>3 DEF SignIn, Renew, NewToken, Finish, Goto, TypeOK
    <2>2. \/ SignIn(s, u) /\ root = u
          \/ Renew(s, u) /\ root = req[s].root
        BY <1>1, <1>3 DEF SignIn, Renew, NewToken, TypeOK
    <2>3. ASSUME NEW t \in Tokens, t # u, Live(t)
          PROVE  token[t].root # root
        <3>1. CASE SignIn(s, u) /\ root = u
            BY <2>3, <3>1 DEF SignIn, IsRoot
        <3>2. CASE Renew(s, u) /\ root = req[s].root
            BY <2>3, <3>2 DEF Renew, IInv, Chains
        <3> QED
            BY <2>2, <3>1, <3>2
    <2>4. \A r \in Requests : r # s => req'[r] = req[r]
        BY <1>1, <2>1 DEF TypeOK
    <2>5. req'[s].pc = Idle
        BY <1>1, <2>1 DEF TypeOK
    <2> HIDE DEF root
    <2>6. OneTokenPerSignIn'
        BY <2>1, <2>3 DEF IInv, OneTokenPerSignIn, root
    <2>7. ASSUME NEW r \in Requests, req'[r].pc = "rotate", token'[req'[r].token] # NoToken
          PROVE  token'[req'[r].token].of = req'[r].of /\ token'[req'[r].token].root = req'[r].root
        <3>1. r # s
            BY <2>5, <2>7, AccountsAssumption
        <3>2. req[r].token \in Tokens /\ req[r].token # u
            BY <1>1, <2>1, <2>4, <2>7, <3>1, Carried DEF TypeOK, Presented
        <3> QED
            BY <2>1, <2>4, <2>7, <3>1, <3>2 DEF IInv, Chains
    <2>8. ASSUME NEW r \in Requests, NEW t \in Tokens, req'[r].pc = "renew", token'[t] # NoToken
          PROVE  token'[t].root # req'[r].root
        <3>1. r # s /\ req[r].pc = "renew" /\ req'[r] = req[r]
            BY <2>4, <2>5, <2>8, AccountsAssumption
        <3>2. CASE t # u
            BY <2>1, <2>8, <3>1, <3>2 DEF IInv, Chains
        <3>3. CASE t = u
            <4>1. CASE SignIn(s, u) /\ root = u
                BY <3>1, <3>3, <4>1 DEF SignIn, IsRoot, root
            <4>2. CASE Renew(s, u) /\ root = req[s].root
                BY <3>1, <3>3, <4>2 DEF Renew, IInv, Chains, root
            <4> QED
                BY <2>2, <4>1, <4>2
        <3> QED
            BY <3>2, <3>3
    <2>9. ASSUME NEW r \in Requests, NEW q \in Requests, req'[r].pc = "renew",
                 req'[q].pc = "renew", req'[r].root = req'[q].root
          PROVE  r = q
        <3>1. r # s /\ q # s
            BY <2>5, <2>9, AccountsAssumption
        <3> QED
            BY <2>4, <2>9, <3>1 DEF IInv, Chains
    <2> QED
        BY <2>6, <2>7, <2>8, <2>9 DEF Chains
<1> QED
    BY <1>1, <1>2, <1>3, TokenKinds

BoundSteps == bound' = bound \/ \E r \in Requests : Bind(r)

LEMMA BoundKinds ==
    ASSUME Next
    PROVE  BoundSteps
<1> USE DEF rows, BoundSteps
<1>1. ASSUME NEW r \in Requests, VerifyNext(r)
      PROVE  BoundSteps
    BY <1>1 DEF VerifyNext, RegisterReads, Resend, VerifyReads, RegisterWrites, SendCode, Discard,
       ConsumeCode, DropClaim, Enter, Promote
<1>2. ASSUME NEW r \in Requests, TokenNext(r)
      PROVE  BoundSteps
    BY <1>2 DEF TokenNext, Login, AdminLogin, SignIn, Renew, NewToken, RefreshReads, Rotate
<1>3. ASSUME NEW r \in Requests, JoinNext(r)
      PROVE  BoundSteps
    BY <1>3 DEF JoinNext, Deactivates, FoundReads, InviteReads, InviteCreates, AcceptReads,
       InviteCall, FoundCommits, InviteWrites, AcceptCommits, DeactivateWrites, SetActive
<1>4. ASSUME NEW m \in Emails,
             ResendDrops(m) \/ ClaimExpires(m) \/ CodeExpires(m) \/ VerifyByLink(m)
             \/ Logout(m) \/ Activate(m) \/ Demote(m)
      PROVE  BoundSteps
    BY <1>4 DEF ResendDrops, ClaimExpires, CodeExpires, VerifyByLink, Logout, Activate,
       SetActive, Demote
<1> QED
    BY <1>1, <1>2, <1>3, <1>4
    DEF Next, RequestFails, RefreshRefused, LinkExpires, AddUser, Provision

LEMMA ProvenKept == IInv /\ Next => OnlyProven'
<1> SUFFICES ASSUME IInv, Next
             PROVE  OnlyProven'
    OBVIOUS
<1> USE DEF Live
<1>1. \A m \in Emails : user[m].verified => user'[m].verified
    BY UsersGrow DEF IInv, Grown
<1>2. \A m \in Emails : Entitled(m) => Entitled(m)'
    BY UsersGrow DEF IInv, Grown, Entitled
<1>3. ASSUME NEW t \in Tokens, token'[t] # NoToken
      PROVE  user'[token'[t].of].verified \/ user'[token'[t].of].super
    <2>1. CASE token'[t] = token[t]
        <3>1. token[t].of \in Emails /\ Entitled(token[t].of)
            BY <1>3, <2>1 DEF IInv, TypeOK, OnlyProven, Entitled
        <3> QED
            BY <1>2, <2>1, <3>1 DEF Entitled
    <2>2. ASSUME NEW r \in Requests, NEW u \in Tokens, SignIn(r, u) \/ Renew(r, u),
                 token'[t] # token[t]
          PROVE  user'[token'[t].of].verified \/ user'[token'[t].of].super
        <3>1. token'[t].of = req[r].of /\ req[r].pc \in {"signIn", "renew"}
            BY <2>2 DEF SignIn, Renew, NewToken, IInv, TypeOK
        <3>2. req[r].of \in Emails
            BY <3>1, Carried DEF IInv, TypeOK, EmailCalls
        <3>3. Entitled(req[r].of)
            BY <3>1 DEF IInv, Entered, Entitled
        <3> QED
            BY <1>2, <3>1, <3>2, <3>3 DEF Entitled
    <2> QED
        BY <1>3, <2>1, <2>2, TokenKinds DEF Kept, IInv
<1>4. ASSUME NEW m \in bound'
      PROVE  user'[m].verified
    <2>1. CASE m \in bound
        BY <1>1, <2>1 DEF IInv, OnlyProven, TypeOK
    <2>2. ASSUME NEW r \in Requests, Bind(r), m = req[r].of
          PROVE  user'[m].verified
        <3>1. m \in Emails
            BY <2>2, Carried DEF Bind, IInv, TypeOK, EmailCalls
        <3> QED
            BY <1>1, <2>2, <3>1 DEF Bind, IInv, Entered, Proving
    <2> QED
        BY <1>4, <2>1, <2>2, BoundKinds DEF BoundSteps, Bind
<1> QED
    BY <1>3, <1>4 DEF OnlyProven

-----------------------------------------------------------------------------
(* Joining.                                                                *)

MemberSteps ==
    \/ members' = members
    \/ \E r \in Requests : AcceptCommits(r)
    \/ \E r \in Requests, o \in Founded : FoundCommits(r, o)
    \/ \E m \in Emails, o \in Hosts : AddUser(m, o)
    \/ \E m \in Emails, o \in Founded : Provision(m, o)

LEMMA MemberKinds ==
    ASSUME Next
    PROVE  MemberSteps
<1> USE DEF rows, MemberSteps
<1>1. ASSUME NEW r \in Requests, VerifyNext(r)
      PROVE  MemberSteps
    BY <1>1 DEF VerifyNext, RegisterReads, Resend, VerifyReads, RegisterWrites, SendCode, Discard,
       ConsumeCode, Bind, DropClaim, Enter, Promote
<1>2. ASSUME NEW r \in Requests, TokenNext(r)
      PROVE  MemberSteps
    BY <1>2 DEF TokenNext, Login, AdminLogin, SignIn, Renew, NewToken, RefreshReads, Rotate
<1>3. ASSUME NEW r \in Requests, JoinNext(r)
      PROVE  MemberSteps
    BY <1>3 DEF JoinNext, Deactivates, FoundReads, InviteReads, InviteCreates, AcceptReads,
       InviteCall, InviteWrites, DeactivateWrites, SetActive
<1>4. ASSUME NEW m \in Emails,
             ResendDrops(m) \/ ClaimExpires(m) \/ CodeExpires(m) \/ VerifyByLink(m)
             \/ Logout(m) \/ Activate(m) \/ Demote(m)
      PROVE  MemberSteps
    BY <1>4 DEF ResendDrops, ClaimExpires, CodeExpires, VerifyByLink, Logout, Activate,
       SetActive, Demote
<1> QED
    BY <1>1, <1>2, <1>3, <1>4
    DEF Next, RequestFails, RefreshRefused, LinkExpires, AddUser, Provision

\* Whose account an invitation made stays where it joined.
LEMMA JoinedStays ==
    ASSUME IInv, Next, NEW i \in Invites, invite[i].joined
    PROVE  /\ invite[i] \in InviteRows /\ invite[i].of \in Emails
           /\ user'[invite[i].of].there
           /\ user'[invite[i].of].org = invite[i].org
           /\ <<invite[i].of, invite[i].org>> \in members'
           /\ invite'[i].of = invite[i].of /\ invite'[i].org = invite[i].org
<1> DEFINE m == invite[i].of
<1>1. invite[i] \in InviteRows /\ invite[i] # NoInvite
    BY DEF IInv, TypeOK, NoInvite
<1>2. m \in Emails
    BY <1>1 DEF InviteRows
<1>3. user[m].there /\ user[m].org = invite[i].org /\ <<m, invite[i].org>> \in members
    BY DEF IInv, AcceptedJoins
<1>4. invite'[i].of = m /\ invite'[i].org = invite[i].org
    BY <1>1, InvitesGrow DEF IInv, InviteGrown
<1>5. user[m] \in UserRows
    BY <1>2 DEF IInv, TypeOK
<1> HIDE DEF m
<1>6. user'[m].org = user[m].org
    <2>1. ASSUME NEW r \in Requests, Promote(r)
          PROVE  user'[m].org = user[m].org
        <3>1. Promoted(user[m]).org = user[m].org
            BY <1>3, <1>5 DEF Promoted, UserRows
        <3> QED
            BY <1>2, <2>1, <3>1 DEF Promote, IInv, TypeOK
    <2>2. ASSUME NEW r \in Requests, AcceptCommits(r)
          PROVE  user'[m].org = user[m].org
        <3>1. invite[req[r].invite].of # m
            BY <1>3, <2>2 DEF AcceptCommits, AddressFree
        <3> QED
            BY <1>2, <2>2, <3>1 DEF AcceptCommits, IInv, TypeOK
    <2>3. ASSUME NEW r \in Requests, DeactivateWrites(r)
          PROVE  user'[m].org = user[m].org
        BY <1>2, <1>5, <2>3 DEF DeactivateWrites, SetActive, UserRows, IInv, TypeOK
    <2>4. ASSUME NEW r \in Requests, NEW o \in Founded, FoundCommits(r, o)
          PROVE  user'[m].org = user[m].org
        <3>1. req[r].of # m
            BY <2>4 DEF FoundCommits, IInv, Founders, m
        <3> QED
            BY <1>2, <2>4, <3>1 DEF FoundCommits, IInv, TypeOK
    <2>5. ASSUME NEW n \in Emails, VerifyByLink(n) \/ Activate(n) \/ Demote(n)
          PROVE  user'[m].org = user[m].org
        BY <1>2, <1>5, <2>5 DEF VerifyByLink, Activate, SetActive, Demote, UserRows, IInv, TypeOK
    <2>6. ASSUME NEW n \in Emails, NEW o \in Hosts, AddUser(n, o)
          PROVE  user'[m].org = user[m].org
        <3>1. n # m
            BY <1>3, <2>6 DEF AddUser, AddressFree
        <3> QED
            BY <1>2, <2>6, <3>1 DEF AddUser, IInv, TypeOK
    <2>7. ASSUME NEW n \in Emails, NEW o \in Founded, Provision(n, o)
          PROVE  user'[m].org = user[m].org
        <3>1. invite[i].org \in Hosts
            BY <1>1 DEF InviteRows
        <3>2. n # m
            BY <1>3, <2>7, <3>1, AccountsAssumption DEF Provision, Claimable
        <3> QED
            BY <1>2, <2>7, <3>2 DEF Provision, IInv, TypeOK
    <2> QED
        BY <2>1, <2>2, <2>3, <2>4, <2>5, <2>6, <2>7, StepKinds DEF UserSteps
<1>7. user'[m].there
    BY <1>2, <1>3, UsersGrow DEF IInv, Grown
<1>8. members \subseteq members'
    BY MemberKinds DEF MemberSteps, AcceptCommits, FoundCommits, AddUser, Provision, Joined
<1> QED
    BY <1>1, <1>2, <1>3, <1>4, <1>6, <1>7, <1>8 DEF m

LEMMA JoinsKept == IInv /\ Next => AcceptedJoins'
<1> SUFFICES ASSUME IInv, Next, NEW i \in Invites, invite'[i].joined
             PROVE  /\ user'[invite'[i].of].there
                    /\ user'[invite'[i].of].org = invite'[i].org
                    /\ <<invite'[i].of, invite'[i].org>> \in members'
                    /\ \A j \in Invites : invite'[j].joined /\ invite'[j].of = invite'[i].of
                          => i = j
    BY DEF AcceptedJoins
<1>1. \A j \in Invites : invite'[j].joined =>
        invite[j].joined \/ \E r \in Requests : AcceptCommits(r) /\ req[r].invite = j
    BY InvitesGrow DEF IInv, InviteGrown
<1>2. ASSUME NEW r \in Requests, NEW k \in Invites, AcceptCommits(r), req[r].invite = k
      PROVE  /\ invite'[k].of = invite[k].of /\ invite'[k].org = invite[k].org
             /\ invite[k].of \in Emails /\ ~user[invite[k].of].there
             /\ \A j \in Invites : j # k => invite'[j] = invite[j]
    <2>1. invite[k] # NoInvite /\ invite[k] \in InviteRows
        BY <1>2 DEF IInv, Noted, TypeOK, AcceptCommits
    <2>2. invite'[k].of = invite[k].of /\ invite'[k].org = invite[k].org
        BY <2>1, InvitesGrow DEF IInv, InviteGrown
    <2>3. ~user[invite[k].of].there
        BY <1>2 DEF AcceptCommits, AddressFree
    <2>4. \A j \in Invites : j # k => invite'[j] = invite[j]
        BY <1>2 DEF AcceptCommits, IInv, TypeOK
    <2> QED
        BY <2>1, <2>2, <2>3, <2>4 DEF InviteRows
<1>3. CASE invite[i].joined
    <2>1. ASSUME NEW j \in Invites, invite'[j].joined, invite'[j].of = invite'[i].of
          PROVE  i = j
        <3>1. CASE invite[j].joined
            BY <1>3, <2>1, <3>1, JoinedStays DEF IInv, AcceptedJoins
        <3>2. ASSUME NEW r \in Requests, AcceptCommits(r), req[r].invite = j
              PROVE  FALSE
            <4>1. user[invite[i].of].there
                BY <1>3 DEF IInv, AcceptedJoins
            <4>2. invite'[i].of = invite[i].of
                BY <1>3, JoinedStays
            <4> QED
                BY <1>2, <2>1, <3>2, <4>1, <4>2
        <3> QED
            BY <1>1, <2>1, <3>1, <3>2
    <2> QED
        BY <1>3, <2>1, JoinedStays
<1>4. ASSUME NEW r \in Requests, AcceptCommits(r), req[r].invite = i
      PROVE  /\ user'[invite'[i].of].there
             /\ user'[invite'[i].of].org = invite'[i].org
             /\ <<invite'[i].of, invite'[i].org>> \in members'
             /\ \A j \in Invites : invite'[j].joined /\ invite'[j].of = invite'[i].of => i = j
    <2>1. /\ user'[invite[i].of] = NewUser(FALSE, invite[i].org)
          /\ <<invite[i].of, invite[i].org>> \in members'
        BY <1>2, <1>4 DEF AcceptCommits, Joined, IInv, TypeOK
    <2>2. ASSUME NEW j \in Invites, invite'[j].joined, invite'[j].of = invite'[i].of, i # j
          PROVE  FALSE
        <3>1. invite[j] = invite'[j]
            BY <1>2, <1>4, <2>2
        <3>2. user[invite[j].of].there
            BY <2>2, <3>1 DEF IInv, AcceptedJoins
        <3> QED
            BY <1>2, <1>4, <2>2, <3>1, <3>2
    <2> QED
        BY <1>2, <1>4, <2>1, <2>2 DEF NewUser
<1> QED
    BY <1>1, <1>3, <1>4

-----------------------------------------------------------------------------
LEMMA IInvInit == Init => IInv
<1> SUFFICES ASSUME Init
             PROVE  IInv
    OBVIOUS
<1> USE AccountsAssumption DEF Init
<1>1. TypeOK
    <2>1. /\ NoUser \in UserRows /\ NewUser(FALSE, Nowhere) \in UserRows
          /\ SeededAdmin \in UserRows
        BY DEF UserRows, NoUser, NewUser, SeededAdmin
    <2>2. user \in [Emails -> UserRows]
        BY <2>1
    <2> QED
        BY <2>2 DEF TypeOK, RequestStates
<1>2. Noted /\ Entered /\ Founders
    BY DEF Noted, Entered, Proving, Founders
<1>3. Present /\ Administrators
    <2>1. ASSUME NEW m \in Emails
          PROVE  ~user[m].verified /\ Homeless(m)
        <3>1. user[m] \in {NoUser, NewUser(FALSE, Nowhere), SeededAdmin}
            OBVIOUS
        <3> QED
            BY <3>1 DEF Homeless, NoUser, NewUser, SeededAdmin
    <2> QED
        BY <2>1 DEF Present, Administrators
<1>4. Chains /\ OneTokenPerSignIn /\ OnlyProven
    BY DEF Chains, OneTokenPerSignIn, OnlyProven, Live
<1>5. AcceptedJoins
    BY DEF AcceptedJoins, NoInvite
<1> QED
    BY <1>1, <1>2, <1>3, <1>4, <1>5 DEF IInv

LEMMA IInvNext == IInv /\ [Next]_vars => IInv'
<1>1. CASE Next
    BY <1>1, TypedNext, NotedKept, PresentKept, EnteredKept, FoundersKept, ChainsKept,
       ProvenKept, JoinsKept DEF IInv
<1>2. ASSUME IInv, UNCHANGED vars
      PROVE  IInv'
    BY <1>2 DEF vars, rows, IInv, TypeOK, Noted, Present, Administrators, Homeless, Entered,
       Entitled, Founders, Chains, OneTokenPerSignIn, OnlyProven, AcceptedJoins, Live
<1> QED
    BY <1>1, <1>2

LEMMA IInvAlways == Spec => []IInv
BY IInvInit, IInvNext, PTL DEF Spec

\* Every row and every request keeps to its type, whatever races.
THEOREM TypeCorrect == Spec => []TypeOK
<1>1. IInv => TypeOK
    BY DEF IInv
<1> QED
    BY <1>1, IInvAlways, PTL

\* A sign-in has one refresh token at a time: refreshes that race on one token do
\* not multiply it.
THEOREM OneToken == Spec => []OneTokenPerSignIn
<1>1. IInv => OneTokenPerSignIn
    BY DEF IInv
<1> QED
    BY <1>1, IInvAlways, PTL

\* Only who proved the address, or administers the platform, holds a refresh token,
\* and only who proved it a bound onboarding session.
THEOREM ProvenOnly == Spec => []OnlyProven
<1>1. IInv => OnlyProven
    BY DEF IInv
<1> QED
    BY <1>1, IInvAlways, PTL

\* An accepted invitation makes the one account, and it stays where it joined.
THEOREM JoinsStand == Spec => []AcceptedJoins
<1>1. IInv => AcceptedJoins
    BY DEF IInv
<1> QED
    BY <1>1, IInvAlways, PTL

-----------------------------------------------------------------------------
(* Refinement.                                                             *)

JoinKept == \A i \in Invites :
    /\ invite'[i].joined = invite[i].joined
    /\ invite[i].joined => invite'[i].of = invite[i].of

LEMMA JoinedViewKept ==
    ASSUME JoinKept
    PROVE  joinedView' = joinedView
<1>1. \A m : Joining(m)' = Joining(m)
    BY DEF JoinKept, Joining
<1> QED
    BY <1>1 DEF joinedView

LEMMA QuietJoin ==
    ASSUME IInv, Next, \A r \in Requests : ~AcceptCommits(r)
    PROVE  JoinKept
<1> SUFFICES ASSUME NEW i \in Invites
             PROVE  /\ invite'[i].joined = invite[i].joined
                    /\ invite[i].joined => invite'[i].of = invite[i].of
    BY DEF JoinKept
<1>1. InviteGrown(i) /\ TypeOK /\ TypeOK'
    BY InvitesGrow, TypedNext DEF IInv
<1>2. invite[i].joined \in BOOLEAN /\ invite'[i].joined \in BOOLEAN
    <2>1. \A row \in InviteRows : row.joined \in BOOLEAN
        BY DEF InviteRows
    <2>2. NoInvite.joined \in BOOLEAN
        BY DEF NoInvite
    <2> QED
        BY <1>1, <2>1, <2>2 DEF TypeOK
<1>3. invite[i].joined => invite[i] # NoInvite
    BY DEF NoInvite
<1> QED
    BY <1>1, <1>2, <1>3 DEF InviteGrown

\* The account of an address, as the abstract specification sees it.
Account(m) == IF user[m].there THEN [verified |-> user[m].verified, home |-> user[m].org]
                               ELSE Nobody

LEMMA AccountTyped ==
    ASSUME TypeOK, NEW m \in Emails
    PROVE  user[m].there <=> Account(m) # Nobody
<1>1. user[m] \in UserRows
    BY DEF TypeOK
<1>2. [verified |-> user[m].verified, home |-> user[m].org]
        \in [verified : BOOLEAN, home : Hosts \cup Founded \cup {Nowhere}]
    BY <1>1 DEF UserRows, Orgs
<1> QED
    BY <1>2, AccountsAssumption DEF Account

LEMMA LifeStep ==
    ASSUME IInv, [Next]_vars
    PROVE  [Life!LifeNext]_(Life!life)
<1>1. accountView = [m \in Emails |-> Account(m)] /\ accountView' = [m \in Emails |-> Account(m)']
    BY DEF accountView, Account
<1>2. ASSUME NEW m \in Emails, \A n \in Emails : n # m => user'[n] = user[n]
      PROVE  accountView' = [accountView EXCEPT ![m] = Account(m)']
    <2>1. \A n \in Emails : n # m => Account(n)' = Account(n)
        BY <1>2 DEF Account
    <2> DEFINE a == Account(m)'
    <2>2. \A n \in Emails : accountView'[n] = IF n = m THEN a ELSE accountView[n]
        BY <1>1, <2>1
    <2> HIDE DEF a
    <2>3. accountView' = [accountView EXCEPT ![m] = a]
        BY <1>1, <2>2
    <2> QED
        BY <2>3 DEF a
<1>3. ASSUME UNCHANGED vars
      PROVE  UNCHANGED Life!life
    <2>1. accountView' = accountView
        BY <1>3 DEF vars, rows, accountView
    <2>2. joinedView' = joinedView
        BY <1>3, JoinedViewKept DEF vars, rows, JoinKept
    <2> QED
        BY <2>1, <2>2 DEF Life!life
<1>4. CASE Next
    <2>1. ASSUME NEW r \in Requests, AcceptCommits(r), NEW i, NEW m, NEW o,
                 i = req[r].invite, m = invite[i].of, o = invite[i].org
          PROVE  Life!LifeNext
        <3>1. i \in Invites /\ invite[i] \in InviteRows /\ invite[i] # NoInvite
            BY <2>1 DEF AcceptCommits, IInv, Noted, TypeOK
        <3>2. m \in Emails /\ o \in Orgs
            BY <2>1, <3>1 DEF InviteRows, Orgs
        <3>3. ~user[m].there /\ user' = [user EXCEPT ![m] = NewUser(FALSE, o)]
            BY <2>1 DEF AcceptCommits, AddressFree
        <3>4. Account(m)' = [verified |-> FALSE, home |-> o]
            BY <3>2, <3>3 DEF Account, NewUser, IInv, TypeOK
        <3>5. accountView[m] = Nobody
            BY <1>1, <3>2, <3>3 DEF Account
        <3>6. \A n \in Emails : n # m => user'[n] = user[n]
            BY <3>3 DEF IInv, TypeOK
        <3>7. accountView' = [accountView EXCEPT ![m] = [verified |-> FALSE, home |-> o]]
            BY <1>2, <3>2, <3>4, <3>6
        <3>8. Joining(m)' = {i} /\ \A n \in Emails : n # m => Joining(n)' = Joining(n)
            <4>0. invite'[i].of = m
                BY <1>4, <2>1, <3>1, InvitesGrow DEF IInv, InviteGrown
            <4>1. \A j \in Invites : j # i => invite'[j] = invite[j]
                BY <2>1, <3>1 DEF AcceptCommits, IInv, TypeOK
            <4>2. invite'[i].joined
                BY <2>1, <3>1 DEF AcceptCommits, IInv, TypeOK, InviteRows
            <4>3. \A j \in Invites : invite[j].joined => invite[j].of # m
                BY <3>3 DEF IInv, AcceptedJoins
            <4>4. \A j \in Invites : (invite'[j].joined /\ invite'[j].of = m) <=> j = i
                BY <4>0, <4>1, <4>2, <4>3
            <4>5. Joining(m)' = {i}
                BY <3>1, <4>4 DEF Joining
            <4>6. ASSUME NEW n \in Emails, n # m
                  PROVE  Joining(n)' = Joining(n)
                <5>1. invite[i].of # n
                    BY <2>1, <4>6
                <5>2. \A j \in Invites : (invite'[j].joined /\ invite'[j].of = n)
                                          <=> (invite[j].joined /\ invite[j].of = n)
                    BY <3>1, <4>0, <4>1, <4>6, <5>1
                <5> QED
                    BY <5>2 DEF Joining
            <4> QED
                BY <4>5, <4>6
        <3>9. joinedView' = [joinedView EXCEPT ![m] = i]
            <4>1. (CHOOSE j \in {i} : TRUE) = i
                OBVIOUS
            <4>2. joinedView'[m] = i
                BY <3>2, <3>8, <4>1 DEF joinedView, Joiner
            <4>3. \A n \in Emails : n # m => joinedView'[n] = joinedView[n]
                BY <3>8 DEF joinedView
            <4>4. \A n \in Emails : joinedView'[n] = IF n = m THEN i ELSE joinedView[n]
                BY <4>2, <4>3
            <4>5. joinedView = [n \in Emails |-> joinedView[n]]
                  /\ joinedView' = [n \in Emails |-> joinedView'[n]]
                BY DEF joinedView
            <4> QED
                BY <4>4, <4>5
        <3>10. Life!Join(m, i, o)
            BY <3>5, <3>7, <3>9 DEF Life!Join
        <3> QED
            BY <3>1, <3>2, <3>10 DEF Life!LifeNext
    <2>2. CASE \A r \in Requests : ~AcceptCommits(r)
        <3>1. joinedView' = joinedView
            BY <1>4, <2>2, QuietJoin, JoinedViewKept
        <3>2. ASSUME UNCHANGED user
              PROVE  UNCHANGED Life!life
            <4>1. accountView' = accountView
                BY <3>2 DEF accountView
            <4> QED
                BY <3>1, <4>1 DEF Life!life
        <3>3. ASSUME NEW m \in Emails, user' = [user EXCEPT ![m] = Promoted(@)]
              PROVE  Life!LifeNext
            <4>1. user[m] \in UserRows
                BY DEF IInv, TypeOK
            <4>2. user'[m] = Promoted(user[m]) /\ \A n \in Emails : n # m => user'[n] = user[n]
                BY <3>3 DEF IInv, TypeOK
            <4>3. Account(m)' = [verified |-> TRUE,
                                 home |-> IF user[m].there THEN user[m].org ELSE Nowhere]
                <5>1. Promoted(user[m]).there /\ Promoted(user[m]).verified
                      /\ Promoted(user[m]).org = IF user[m].there THEN user[m].org ELSE Nowhere
                    BY <4>1 DEF Promoted, NewUser, UserRows
                <5>2. Promoted(user[m]).verified = TRUE
                    BY <4>1 DEF Promoted, NewUser, UserRows
                <5> QED
                    BY <4>2, <5>1, <5>2 DEF Account
            <4>4. Account(m)' = IF accountView[m] = Nobody
                                THEN [verified |-> TRUE, home |-> Nowhere]
                                ELSE [verified |-> TRUE, home |-> accountView[m].home]
                BY <1>1, <4>3, AccountTyped DEF Account, IInv
            <4>5. Life!Prove(m)
                <5>1. accountView' = [accountView EXCEPT ![m] = Account(m)']
                    BY <1>2, <4>2
                <5> QED
                    BY <1>1, <3>1, <4>4, <5>1 DEF Life!Prove
            <4> QED
                BY <4>5 DEF Life!LifeNext
        <3>4. ASSUME NEW r \in Requests, Promote(r)
              PROVE  Life!LifeNext
            <4>1. req[r].of \in Emails
                BY <3>4, Carried DEF Promote, EmailCalls, IInv, TypeOK
            <4> QED
                BY <3>3, <3>4, <4>1 DEF Promote
        <3>5. ASSUME NEW m \in Emails, VerifyByLink(m)
              PROVE  Life!LifeNext
            <4>1. Promoted(user[m]) = [user[m] EXCEPT !.verified = TRUE]
                BY <3>5 DEF Promoted, VerifyByLink, Usable
            <4>2. user' = [user EXCEPT ![m] = Promoted(@)]
                BY <3>5, <4>1 DEF VerifyByLink
            <4> QED
                BY <3>3, <4>2
        <3>6. ASSUME NEW m \in Emails, NEW o \in Founded, user[m].there, user[m].verified,
                     \A i \in Invites : invite[i].joined => invite[i].of # m,
                     user' = [user EXCEPT ![m].org = o]
              PROVE  Life!LifeNext
            <4>1. user[m].there /\ user[m].verified
                  /\ \A i \in Invites : invite[i].joined => invite[i].of # m
                BY <3>6
            <4>2. user[m] \in UserRows
                BY <4>1 DEF IInv, TypeOK
            <4>3. user'[m] = [user[m] EXCEPT !.org = o]
                  /\ \A n \in Emails : n # m => user'[n] = user[n]
                BY <3>6 DEF IInv, TypeOK
            <4>4. accountView[m] = [verified |-> TRUE, home |-> user[m].org]
                BY <1>1, <4>1, <4>2 DEF Account, UserRows
            <4>5. Account(m)' = [verified |-> TRUE, home |-> o]
                <5>1. user'[m].there /\ user'[m].verified = TRUE /\ user'[m].org = o
                    BY <4>1, <4>2, <4>3 DEF UserRows
                <5> QED
                    BY <5>1 DEF Account
            <4>6. accountView' = [accountView EXCEPT ![m].home = o]
                <5>1. accountView' = [accountView EXCEPT ![m] = Account(m)']
                    BY <1>2, <4>1, <4>3
                <5>2. [accountView EXCEPT ![m].home = o]
                        = [accountView EXCEPT ![m] = [verified |-> TRUE, home |-> o]]
                    <6>0. ASSUME NEW t, NEW h
                          PROVE  [[verified |-> t, home |-> h] EXCEPT !.home = o]
                                   = [verified |-> t, home |-> o]
                        OBVIOUS
                    <6>1. [accountView[m] EXCEPT !.home = o] = [verified |-> TRUE, home |-> o]
                        BY <4>4, <6>0
                    <6> QED
                        BY <6>1
                <5> QED
                    BY <4>5, <5>1, <5>2
            <4>7. joinedView[m] = Nobody
                BY <4>1 DEF joinedView, Joining, Joiner
            <4>8. accountView[m] # Nobody
                BY <1>1, <4>1, AccountTyped DEF IInv
            <4>9. Life!Found(m, o)
                BY <3>1, <4>4, <4>6, <4>7, <4>8 DEF Life!Found
            <4> QED
                BY <4>1, <4>9 DEF Life!LifeNext, Orgs
        <3>7. ASSUME NEW m \in Emails, NEW active \in BOOLEAN, SetActive(m, active)
              PROVE  UNCHANGED Life!life
            <4>1. \A n \in Emails : Account(n)' = Account(n)
                <5> SUFFICES ASSUME NEW n \in Emails PROVE Account(n)' = Account(n)
                    OBVIOUS
                <5>1. user[n] \in UserRows
                    BY DEF IInv, TypeOK
                <5>2. /\ user'[n].there = user[n].there
                      /\ user'[n].verified = user[n].verified
                      /\ user'[n].org = user[n].org
                    BY <3>7, <5>1 DEF SetActive, UserRows, IInv, TypeOK
                <5> QED
                    BY <5>2 DEF Account
            <4> QED
                BY <1>1, <3>1, <4>1 DEF Life!life
        <3>8. ASSUME NEW r \in Requests, DeactivateWrites(r)
              PROVE  UNCHANGED Life!life
            BY <3>7, <3>8, Carried DEF DeactivateWrites, EmailCalls, IInv, TypeOK
        <3>9. ASSUME NEW m \in Emails, Activate(m)
              PROVE  UNCHANGED Life!life
            BY <3>7, <3>9 DEF Activate
        <3>10. ASSUME NEW r \in Requests, NEW o \in Founded, FoundCommits(r, o)
               PROVE  Life!LifeNext
            <4>1. req[r].of \in Emails /\ user[req[r].of].there /\ user[req[r].of].verified
                  /\ \A i \in Invites : invite[i].joined => invite[i].of # req[r].of
                BY <3>10, Carried DEF FoundCommits, EmailCalls, IInv, TypeOK, Founders
            <4> QED
                BY <3>6, <3>10, <4>1 DEF FoundCommits
        <3>11. ASSUME NEW m \in Emails, NEW o \in Founded, Provision(m, o)
               PROVE  Life!LifeNext
            <4>1. user[m].there /\ user[m].verified
                BY <3>11 DEF Provision, Claimable, IInv, Present
            <4>2. \A i \in Invites : invite[i].joined => invite[i].of # m
                <5> SUFFICES ASSUME NEW i \in Invites, invite[i].joined, invite[i].of = m
                             PROVE  FALSE
                    OBVIOUS
                <5>1. invite[i] \in InviteRows
                    BY DEF IInv, TypeOK, NoInvite
                <5>2. user[m].org \in Hosts
                    BY <5>1 DEF IInv, AcceptedJoins, InviteRows
                <5> QED
                    BY <3>11, <5>2, AccountsAssumption DEF Provision, Claimable
            <4> QED
                BY <3>6, <3>11, <4>1, <4>2 DEF Provision
        <3>12. ASSUME NEW m \in Emails, NEW o \in Hosts, AddUser(m, o)
               PROVE  Life!LifeNext
            <4>1. PICK active \in BOOLEAN :
                    /\ ~user[m].there
                    /\ user' = [user EXCEPT ![m] = [NewUser(FALSE, o) EXCEPT !.active = active]]
                BY <3>12 DEF AddUser, AddressFree
            <4>2. Account(m)' = [verified |-> FALSE, home |-> o]
                BY <4>1 DEF Account, NewUser, IInv, TypeOK
            <4>3. accountView[m] = Nobody
                BY <1>1, <4>1 DEF Account
            <4>4. \A n \in Emails : n # m => user'[n] = user[n]
                BY <4>1 DEF IInv, TypeOK
            <4>5. accountView' = [accountView EXCEPT ![m] = [verified |-> FALSE, home |-> o]]
                BY <1>2, <4>2, <4>4
            <4>6. Life!Add(m, o)
                BY <3>1, <4>3, <4>5 DEF Life!Add
            <4> QED
                BY <4>6 DEF Life!LifeNext, Orgs
        <3>13. ASSUME NEW m \in Emails, Demote(m)
               PROVE  UNCHANGED Life!life
            <4>1. \A n \in Emails : Account(n)' = Account(n)
                <5> SUFFICES ASSUME NEW n \in Emails PROVE Account(n)' = Account(n)
                    OBVIOUS
                <5>1. user[n] \in UserRows
                    BY DEF IInv, TypeOK
                <5>2. /\ user'[n].there = user[n].there
                      /\ user'[n].verified = user[n].verified
                      /\ user'[n].org = user[n].org
                    BY <3>13, <5>1 DEF Demote, UserRows, IInv, TypeOK
                <5> QED
                    BY <5>2 DEF Account
            <4> QED
                BY <1>1, <3>1, <4>1 DEF Life!life
        <3> QED
            BY <1>4, <2>2, <3>2, <3>4, <3>5, <3>8, <3>9, <3>10, <3>11, <3>12, <3>13, StepKinds
            DEF UserSteps
    <2> QED
        BY <2>1, <2>2
<1> QED
    BY <1>3, <1>4

\* Registration, verification, invitations and founding, interleaved, implement the
\* life of an account.
THEOREM Refinement == Spec => ImplementsAccountLife
<1>1. Init => Life!LifeInit
    <2> SUFFICES ASSUME Init
                 PROVE  Life!LifeInit
        OBVIOUS
    <2>1. accountView \in [Emails -> {Nobody, [verified |-> FALSE, home |-> Nowhere]}]
        <3> SUFFICES ASSUME NEW m \in Emails
                     PROVE  accountView[m] \in {Nobody, [verified |-> FALSE, home |-> Nowhere]}
            BY DEF accountView
        <3>1. user[m] \in {NoUser, NewUser(FALSE, Nowhere), SeededAdmin}
            BY DEF Init
        <3> QED
            <4>1. CASE user[m] = NoUser
                BY <4>1 DEF accountView, NoUser
            <4>2. CASE user[m] \in {NewUser(FALSE, Nowhere), SeededAdmin}
                <5>1. user[m].there /\ user[m].verified = FALSE /\ user[m].org = Nowhere
                    BY <4>2 DEF NewUser, SeededAdmin
                <5> QED
                    BY <5>1 DEF accountView
            <4> QED
                BY <3>1, <4>1, <4>2
    <2>2. \A m : Joining(m) = {}
        BY DEF Init, Joining, NoInvite
    <2>3. joinedView = [m \in Emails |-> Nobody]
        BY <2>2 DEF joinedView, Joiner
    <2> QED
        BY <2>1, <2>3 DEF Life!LifeInit
<1> QED
    BY <1>1, LifeStep, IInvAlways, PTL DEF Spec, ImplementsAccountLife, Life!LifeSpec
=============================================================================
