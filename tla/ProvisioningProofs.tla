-------------------------- MODULE ProvisioningProofs --------------------------
(***************************************************************************)
(* Proofs about Provisioning: types, the binding of sessions to the        *)
(* organization of their user, and the refinement of Workspaces.           *)
(*                                                                         *)
(* The invariant follows one organization from the id an attempt gives it  *)
(* to its commit.  While a request may still create one, the ids it has    *)
(* not used up are free (CallInv 3, 4), so what is created is new; an id    *)
(* that is held but not committed is the holder's own (CallInv 2), so a    *)
(* commit changes no other request's view; and two claims of one user      *)
(* exclude each other (ClaimsExclude) until the first commits or rolls     *)
(* back, so a claim that held when it was made holds at the commit.        *)
(***************************************************************************)
EXTENDS Provisioning, TLAPS

USE ProvisioningAssumption DEF Tasks, Orgs, FailedTasks, NoTask, Unnamed

\* The steps from which a request can still create an organization.
Unspent == {"idle", "progress", "recover", "finalize", "check", "start", "load", "begin", "tx"}

\* The steps at which the organization in memory is committed.
Settled == {"flush", "complete", "finalize"}

CallInv(c) ==
    /\ call[c].step # "idle" => call[c].for \in Sessions
    /\ call[c].org # NoOrg =>
        /\ call[c].step # "idle"
        /\ IF org[call[c].org] = {}
           THEN \E n \in 0..call[c].retry : call[c].org = <<c, n>>
           ELSE owner[User(c)] = call[c].org
    /\ call[c].step \in Unspent =>
        \A n \in 0..MaxRetries : n >= call[c].retry => org[<<c, n>>] = {}
    /\ call[c].step \in Unspent \ {"tx"} => call[c].org # <<c, call[c].retry>>
    /\ call[c].step \in Settled => call[c].org # NoOrg /\ org[call[c].org] # {}
    /\ InTx(c) => call[c].from \in Tasks /\ call[c].at >= call[c].from
    /\ Created(c) => call[c].from = 1 /\ call[c].at >= 2
    /\ Claimed(c) => MayClaim(c)

Whole == \A o \in Orgs : org[o] \in {{}, Tasks}

OwnersHaveOrg == \A u \in Users : owner[u] # NoOrg => org[owner[u]] = Tasks

ClaimsExclude ==
    \A c, d \in Calls : Claimed(c) /\ Claimed(d) /\ User(c) = User(d) => c = d

IInv ==
    /\ TypeOK
    /\ Whole
    /\ OwnersHaveOrg
    /\ SessionsOwnTheirOrg
    /\ ClaimsExclude
    /\ \A c \in Calls : CallInv(c)

-----------------------------------------------------------------------------
THEOREM InitInv == Init => IInv
<1> SUFFICES ASSUME Init PROVE IInv
  OBVIOUS
<1>1. TypeOK
  BY DEF Init, TypeOK, SessionRows, Requests, Statuses, Steps, Waiting
<1>2. Whole /\ OwnersHaveOrg /\ SessionsOwnTheirOrg
  BY DEF Init, Whole, OwnersHaveOrg, SessionsOwnTheirOrg
<1>3. \A c \in Calls : ~InTx(c) /\ ~Claimed(c) /\ ~Created(c)
  BY DEF Init, Waiting, InTx, Claimed, Created
<1>4. ClaimsExclude
  BY <1>3 DEF ClaimsExclude
<1>5. \A c \in Calls : CallInv(c)
  <2> SUFFICES ASSUME NEW c \in Calls PROVE CallInv(c)
    OBVIOUS
  <2>1. call[c] = Waiting
    BY DEF Init
  <2>2. call[c].org = NoOrg /\ call[c].step = "idle" /\ call[c].retry = 0
    BY <2>1 DEF Waiting
  <2>3. \A n \in 0..MaxRetries : <<c, n>> \in Orgs /\ org[<<c, n>>] = {}
    BY DEF Init
  <2>4. call[c].org # <<c, call[c].retry>>
    BY <2>2, <2>3
  <2> QED
    BY <2>2, <2>3, <2>4, <1>3 DEF CallInv, Settled, Unspent
<1> QED
  BY <1>1, <1>2, <1>4, <1>5 DEF IInv

-----------------------------------------------------------------------------
(* Steps that leave organizations and owners alone.                         *)

\* Another request's part of the invariant is not touched by such a step.
LEMMA OthersKeep ==
    ASSUME NEW c \in Calls, NEW d \in Calls, UNCHANGED <<owner, org>>,
           call'[d] = call[d], CallInv(d)
    PROVE  CallInv(d)' /\ (Claimed(d)' <=> Claimed(d)) /\ User(d)' = User(d)
BY DEF CallInv, Claimed, Created, InTx, Sees, User, MayClaim

\* A step of one request that leaves them alone is settled by the request's own
\* part, and by its claim if it has one.
LEMMA LocalStep ==
    ASSUME IInv, NEW c \in Calls, NEW r \in Requests,
           call' = [call EXCEPT ![c] = r],
           UNCHANGED <<owner, org>>,
           session' \in [Sessions -> SessionRows],
           SessionsOwnTheirOrg',
           CallInv(c)',
           Claimed(c)' => \A d \in Calls \ {c} : Claimed(d) => User(d) # User(c)'
    PROVE  IInv'
<1>1. \A d \in Calls : d # c => call'[d] = call[d]
  BY DEF IInv, TypeOK
<1>2. \A d \in Calls : d # c => CallInv(d)' /\ (Claimed(d)' <=> Claimed(d)) /\ User(d)' = User(d)
  BY <1>1, OthersKeep DEF IInv
<1>3. TypeOK'
  BY DEF IInv, TypeOK
<1>4. ClaimsExclude'
  BY <1>2 DEF IInv, ClaimsExclude
<1>5. Whole' /\ OwnersHaveOrg'
  BY DEF IInv, Whole, OwnersHaveOrg
<1>6. \A d \in Calls : CallInv(d)'
  BY <1>2
<1> QED
  BY <1>3, <1>4, <1>5, <1>6 DEF IInv
\* A step of the engine outside the transaction.
LEMMA PlainStep ==
    ASSUME IInv, NEW c \in Calls, NEW r \in Requests,
           call' = [call EXCEPT ![c] = r],
           UNCHANGED <<owner, org>>,
           session' \in [Sessions -> SessionRows],
           SessionsOwnTheirOrg',
           call[c].step # "idle", r.step \notin {"idle", "tx"},
           r.for = call[c].for, r.retry = call[c].retry,
           r.org \in {call[c].org, NoOrg},
           r.step \in Unspent => call[c].step \in Unspent \ {"tx"},
           r.step \in Settled => r.org # NoOrg /\ org[r.org] # {}
    PROVE  IInv'
<1>1. call'[c] = r
  BY DEF IInv, TypeOK
<1>2. ~InTx(c)' /\ ~Created(c)' /\ ~Claimed(c)'
  BY <1>1 DEF InTx, Created, Claimed
<1>3. CallInv(c) /\ call[c] \in Requests
  BY DEF IInv, TypeOK
<1>4. NoOrg # <<c, call[c].retry>>
  BY <1>3 DEF Requests
<1>5. CallInv(c)'
  BY <1>1, <1>2, <1>3, <1>4 DEF CallInv, User
<1> QED
  BY <1>2, <1>5, LocalStep

\* The codes of recorded tasks and the counters' zeros.
LEMMA Codes ==
    /\ NoTask \in FailedTasks /\ Unnamed \in FailedTasks /\ Tasks \subseteq FailedTasks
    /\ 1 \in Tasks /\ 2 \in Tasks
    /\ 0 \in 0..LastTask /\ 0 \in 0..LastTask + 1
OBVIOUS

LEMMA LeaveInv ==
    ASSUME IInv, NEW c \in Calls, Leave(c), call[c].step # "idle",
           UNCHANGED <<owner, org>>,
           session' \in [Sessions -> SessionRows], SessionsOwnTheirOrg'
    PROVE  IInv'
<1> DEFINE r == [call[c] EXCEPT !.step = "done", !.org = NoOrg, !.failed = NoTask,
                                !.from = 0, !.at = 0]
<1>1. call[c] \in Requests
  BY DEF IInv, TypeOK
<1>2. r \in Requests
  <2> HIDE DEF FailedTasks, NoTask, Orgs
  <2> QED
    BY <1>1, Codes DEF Requests, Steps
<1>3. r.step = "done" /\ r.org = NoOrg /\ r.for = call[c].for /\ r.retry = call[c].retry
  BY <1>1 DEF Requests
<1>4. call' = [call EXCEPT ![c] = r]
  BY DEF Leave
<1> HIDE DEF r
<1> QED
  BY <1>2, <1>3, <1>4, PlainStep DEF Unspent, Settled

LEMMA GoToInv ==
    ASSUME IInv, NEW c \in Calls, NEW step \in Steps, GoTo(c, step),
           call[c].step # "idle", step \notin {"idle", "tx"},
           UNCHANGED <<owner, org>>,
           session' \in [Sessions -> SessionRows], SessionsOwnTheirOrg',
           step \in Unspent => call[c].step \in Unspent \ {"tx"},
           step \in Settled => call[c].org # NoOrg /\ org[call[c].org] # {}
    PROVE  IInv'
<1> DEFINE r == [call[c] EXCEPT !.step = step]
<1>1. call[c] \in Requests
  BY DEF IInv, TypeOK
<1>2. r \in Requests /\ r.step = step /\ r.org = call[c].org /\ r.for = call[c].for
      /\ r.retry = call[c].retry
  BY <1>1 DEF Requests
<1>3. call' = [call EXCEPT ![c] = r]
  BY DEF GoTo
<1> HIDE DEF r
<1> QED
  BY <1>2, <1>3, PlainStep

\* The organization a session row names is committed, and of the session's user.
LEMMA TasksNotEmpty == Tasks # {}
<1>1. 1 \in Tasks
  OBVIOUS
<1> QED
  BY <1>1

LEMMA SessionOrg ==
    ASSUME IInv, NEW s \in Sessions, session[s].org # NoOrg
    PROVE  /\ session[s].org \in Orgs
           /\ org[session[s].org] = Tasks
           /\ owner[UserOf[s]] = session[s].org
BY DEF IInv, TypeOK, SessionRows, SessionsOwnTheirOrg, OwnersHaveOrg

\* A session row changed in its status and recorded task only.
LEMMA SameBinding ==
    ASSUME IInv, NEW s \in Sessions,
           NEW status \in Statuses, NEW failed \in FailedTasks,
           status = "COMPLETED" => session[s].status = "COMPLETED",
           session' = [session EXCEPT ![s].status = status, ![s].failed = failed],
           UNCHANGED owner
    PROVE  session' \in [Sessions -> SessionRows] /\ SessionsOwnTheirOrg'
<1>1. session \in [Sessions -> SessionRows] /\ SessionsOwnTheirOrg
  BY DEF IInv, TypeOK
<1> DEFINE row == [session[s] EXCEPT !.status = status, !.failed = failed]
<1>2. session' = [session EXCEPT ![s] = row]
  BY <1>1
<1>3. row \in SessionRows /\ row.org = session[s].org /\ row.status = status
  <2> HIDE DEF FailedTasks, Orgs
  <2> QED
    BY <1>1 DEF SessionRows
<1> HIDE DEF row
<1>4. session' \in [Sessions -> SessionRows]
  BY <1>1, <1>2, <1>3
<1>5. \A t \in Sessions : /\ session'[t].org = session[t].org
                         /\ session'[t].status = "COMPLETED" => session[t].status = "COMPLETED"
  BY <1>1, <1>2, <1>3
<1> QED
  BY <1>1, <1>4, <1>5 DEF SessionsOwnTheirOrg

\* Reading a session anew: at the request's start and in the orchestrator.
LEMMA ReadInv ==
    ASSUME IInv, NEW c \in Calls, NEW s \in Sessions, NEW step \in Steps, NEW failed \in FailedTasks,
           step \in {"done", "progress", "check", "begin"},
           call[c].step \in {"idle", "load"},
           call' = [call EXCEPT ![c].for = s, ![c].org = session[s].org,
                                ![c].failed = failed, ![c].step = step],
           UNCHANGED <<session, owner, org>>
    PROVE  IInv'
<1> DEFINE r == [call[c] EXCEPT !.for = s, !.org = session[s].org, !.failed = failed, !.step = step]
<1>1. call[c] \in Requests /\ CallInv(c) /\ session[s] \in SessionRows
  BY DEF IInv, TypeOK
<1>2. r \in Requests /\ r.step = step /\ r.org = session[s].org /\ r.for = s
      /\ r.retry = call[c].retry
  BY <1>1 DEF Requests, SessionRows
<1>3. call' = [call EXCEPT ![c] = r]
  BY DEF IInv, TypeOK
<1> HIDE DEF r
<1>4. call'[c] = r
  BY <1>3 DEF IInv, TypeOK
<1>5. ~InTx(c)' /\ ~Created(c)' /\ ~Claimed(c)'
  BY <1>2, <1>4 DEF InTx, Created, Claimed
<1>6. \A n \in 0..MaxRetries : n >= call[c].retry => org[<<c, n>>] = {}
  BY <1>1 DEF CallInv, Unspent
<1>7. call[c].retry \in 0..MaxRetries
  BY <1>1 DEF Requests
<1>8. r.org # <<c, call[c].retry>>
  <2>1. CASE r.org = NoOrg
    BY <2>1, <1>7
  <2>2. CASE r.org # NoOrg
    <3>1. org[r.org] = Tasks
      BY <2>2, <1>2, SessionOrg
    <3>2. org[<<c, call[c].retry>>] = {}
      BY <1>6, <1>7
    <3> QED
      BY <3>1, <3>2, TasksNotEmpty
  <2> QED
    BY <2>1, <2>2
<1>9. r.org # NoOrg => org[r.org] # {} /\ owner[UserOf[s]] = r.org
  BY <1>2, SessionOrg, TasksNotEmpty
<1>10. CallInv(c)'
  BY <1>2, <1>4, <1>5, <1>6, <1>8, <1>9 DEF CallInv, User, Settled
<1>11. session' \in [Sessions -> SessionRows] /\ SessionsOwnTheirOrg'
  BY DEF IInv, TypeOK, SessionsOwnTheirOrg
<1> QED
  BY <1>2, <1>3, <1>5, <1>10, <1>11, LocalStep

-----------------------------------------------------------------------------
(* The engine.                                                              *)

LEMMA SameSessions ==
    ASSUME IInv, UNCHANGED <<session, owner>>
    PROVE  session' \in [Sessions -> SessionRows] /\ SessionsOwnTheirOrg'
BY DEF IInv, TypeOK, SessionsOwnTheirOrg

LEMMA BeginInv == ASSUME IInv, NEW c \in Calls, Begin(c) PROVE IInv'
<1>1. PICK s \in Sessions :
        call' = [call EXCEPT ![c] =
            [@ EXCEPT !.for = s,
                      !.org = session[s].org,
                      !.step = CASE session[s].status = "COMPLETED" -> "done"
                                 [] session[s].status = "PROVISIONING" -> "progress"
                                 [] OTHER -> "check"]]
  BY DEF Begin
<1> DEFINE step == CASE session[s].status = "COMPLETED" -> "done"
                     [] session[s].status = "PROVISIONING" -> "progress"
                     [] OTHER -> "check"
<1>2. step \in {"done", "progress", "check"}
  OBVIOUS
<1> HIDE DEF step
<1>3. call[c] \in Requests /\ call[c].failed \in FailedTasks
  BY DEF IInv, TypeOK, Requests
<1>4. call' = [call EXCEPT ![c].for = s, ![c].org = session[s].org,
                           ![c].failed = call[c].failed, ![c].step = step]
  <2>1. [call[c] EXCEPT !.for = s, !.org = session[s].org, !.step = step]
          = [call[c] EXCEPT !.for = s, !.org = session[s].org, !.failed = call[c].failed, !.step = step]
    BY <1>3 DEF Requests
  <2>2. call' = [call EXCEPT ![c] = [call[c] EXCEPT !.for = s, !.org = session[s].org, !.step = step]]
    BY <1>1 DEF step
  <2> QED
    BY <2>1, <2>2 DEF IInv, TypeOK
<1>5. step \in Steps
  BY <1>2 DEF Steps
<1> QED
  BY <1>2, <1>3, <1>4, <1>5, ReadInv DEF Begin

LEMMA LoadInv == ASSUME IInv, NEW c \in Calls, Load(c) PROVE IInv'
<1> DEFINE s == call[c].for
           failed == session[s].failed
<1>1. call[c] \in Requests /\ s \in Sessions /\ call[c].step = "load"
  BY DEF IInv, TypeOK, CallInv, Load
<1>2. failed \in FailedTasks
  BY <1>1 DEF IInv, TypeOK, SessionRows
<1>3. [call[c] EXCEPT !.step = "begin", !.org = session[s].org, !.failed = failed]
        = [call[c] EXCEPT !.for = s, !.org = session[s].org, !.failed = failed, !.step = "begin"]
  BY <1>1 DEF Requests
<1>4. call' = [call EXCEPT ![c].for = s, ![c].org = session[s].org,
                           ![c].failed = failed, ![c].step = "begin"]
  BY <1>3 DEF Load, SessionOf, IInv, TypeOK
<1>5. "begin" \in Steps
  BY DEF Steps
<1> QED
  BY <1>1, <1>2, <1>4, <1>5, ReadInv DEF Load

LEMMA GetProgressInv == ASSUME IInv, NEW c \in Calls, GetProgress(c) PROVE IInv'
<1>1. PICK step \in {"recover", "check"} : GoTo(c, step)
  BY DEF GetProgress
<1>2. step \in Steps
  BY <1>1 DEF Steps
<1> QED
  BY <1>1, <1>2, GoToInv, SameSessions DEF GetProgress, Unspent, Settled

LEMMA RecoverInv == ASSUME IInv, NEW c \in Calls, Recover(c) PROVE IInv'
<1>1. CASE Committed(call[c].org, User(c))
  <2>1. GoTo(c, "finalize") /\ "finalize" \in Steps
    BY <1>1 DEF Recover, Steps
  <2> QED
    BY <1>1, <2>1, GoToInv, SameSessions DEF Recover, Committed, Unspent
<1>2. CASE ~Committed(call[c].org, User(c))
  BY <1>2, LeaveInv, SameSessions DEF Recover
<1> QED
  BY <1>1, <1>2

LEMMA CheckOwnerInv == ASSUME IInv, NEW c \in Calls, CheckOwner(c) PROVE IInv'
<1>1. CASE owner[User(c)] \in {NoOrg, call[c].org}
  <2>1. GoTo(c, "start") /\ "start" \in Steps
    BY <1>1 DEF CheckOwner, Steps
  <2> QED
    BY <2>1, GoToInv, SameSessions DEF CheckOwner, Unspent, Settled
<1>2. CASE owner[User(c)] \notin {NoOrg, call[c].org}
  BY <1>2, LeaveInv, SameSessions DEF CheckOwner
<1> QED
  BY <1>1, <1>2

\* A running request's session, and the row it may write.
LEMMA Running ==
    ASSUME IInv, NEW c \in Calls, call[c].step # "idle"
    PROVE  /\ SessionOf(c) \in Sessions
           /\ session[SessionOf(c)] \in SessionRows
           /\ session \in [Sessions -> SessionRows]
BY DEF IInv, TypeOK, CallInv, SessionOf

LEMMA StartInv == ASSUME IInv, NEW c \in Calls, Start(c) PROVE IInv'
<1> DEFINE s == SessionOf(c)
<1>1. call[c].step = "start" /\ GoTo(c, "load") /\ "load" \in Steps
  BY DEF Start, Steps
<1>2. s \in Sessions /\ session[s] \in SessionRows
  BY <1>1, Running
<1>3. session[s].failed \in FailedTasks /\ "PROVISIONING" \in Statuses
  BY <1>2 DEF SessionRows, Statuses
<1>4. [session[s] EXCEPT !.status = "PROVISIONING"]
        = [session[s] EXCEPT !.status = "PROVISIONING", !.failed = session[s].failed]
  BY <1>2 DEF SessionRows
<1>5. session' = [session EXCEPT ![s].status = "PROVISIONING", ![s].failed = session[s].failed]
  BY <1>1, <1>2, <1>4, Running DEF Start
<1>6. session' \in [Sessions -> SessionRows] /\ SessionsOwnTheirOrg'
  BY <1>2, <1>3, <1>5, SameBinding DEF Start
<1> QED
  BY <1>1, <1>6, GoToInv DEF Start, Unspent, Settled

LEMMA FlushInv == ASSUME IInv, NEW c \in Calls, Flush(c) PROVE IInv'
<1> DEFINE s == SessionOf(c)
<1>1. PICK step \in {"flush", "complete"} : GoTo(c, step)
  BY DEF Flush
<1>2. call[c].step = "flush" /\ step \in Steps
  BY <1>1 DEF Flush, Steps
<1>3. s \in Sessions /\ session[s] \in SessionRows
  BY <1>2, Running
<1>4. session[s].status \in Statuses /\ NoTask \in FailedTasks
  BY <1>3, Codes DEF SessionRows
<1>5. CASE session' = session
  BY <1>1, <1>2, <1>5, GoToInv, SameSessions DEF Flush, Unspent, Settled, IInv, CallInv
<1>6. CASE session' = [session EXCEPT ![s].failed = NoTask]
  <2>1. session' = [session EXCEPT ![s].status = session[s].status, ![s].failed = NoTask]
    <3>1. [session[s] EXCEPT !.failed = NoTask]
            = [session[s] EXCEPT !.status = session[s].status, !.failed = NoTask]
      BY <1>3 DEF SessionRows
    <3> QED
      BY <1>2, <1>3, <1>6, <3>1, Running
  <2>2. session' \in [Sessions -> SessionRows] /\ SessionsOwnTheirOrg'
    BY <1>3, <1>4, <2>1, SameBinding DEF Flush
  <2> QED
    BY <1>1, <1>2, <2>2, GoToInv DEF Flush, Unspent, Settled, IInv, CallInv
<1> QED
  BY <1>5, <1>6 DEF Flush

LEMMA LoseObservationInv == ASSUME IInv, NEW c \in Calls, LoseObservation(c) PROVE IInv'
<1>1. call[c].step = "flush" /\ GoTo(c, "complete") /\ "complete" \in Steps
  BY DEF LoseObservation, Steps
<1> QED
  BY <1>1, GoToInv, SameSessions DEF LoseObservation, Unspent, Settled, IInv, CallInv

\* Marking a failure: FAILED, unless the session is COMPLETED.
LEMMA FailRow ==
    ASSUME IInv, NEW c \in Calls, call[c].step # "idle", UNCHANGED owner,
           session' = IF session[SessionOf(c)].status = "COMPLETED" THEN session
                      ELSE [session EXCEPT ![SessionOf(c)].status = "FAILED",
                                           ![SessionOf(c)].failed = call[c].failed]
    PROVE  session' \in [Sessions -> SessionRows] /\ SessionsOwnTheirOrg'
<1>1. call[c].failed \in FailedTasks /\ "FAILED" \in Statuses
  BY DEF IInv, TypeOK, Requests, Statuses
<1> QED
  BY <1>1, Running, SameBinding, SameSessions

LEMMA MarkFailedInv == ASSUME IInv, NEW c \in Calls, MarkFailed(c) PROVE IInv'
<1>1. call[c].step = "fail" /\ GoTo(c, "rollback") /\ "rollback" \in Steps
  BY DEF MarkFailed, Steps
<1>2. session' \in [Sessions -> SessionRows] /\ SessionsOwnTheirOrg'
  BY <1>1, FailRow DEF MarkFailed
<1> QED
  BY <1>1, <1>2, GoToInv DEF MarkFailed, Unspent, Settled

LEMMA CompensateInv == ASSUME IInv, NEW c \in Calls, Compensate(c) PROVE IInv'
<1>1. call[c].step = "compensate" /\ Leave(c)
  BY DEF Compensate
<1>2. session' \in [Sessions -> SessionRows] /\ SessionsOwnTheirOrg'
  BY <1>1, FailRow DEF Compensate
<1> QED
  BY <1>1, <1>2, LeaveInv DEF Compensate

\* Failing over to another step with another recorded task.
LEMMA RecordInv ==
    ASSUME IInv, NEW c \in Calls, NEW step \in {"fail", "compensate"}, NEW failed \in FailedTasks,
           call[c].step # "idle",
           call' = [call EXCEPT ![c].step = step, ![c].failed = failed],
           UNCHANGED <<session, owner, org>>
    PROVE  IInv'
<1> DEFINE r == [call[c] EXCEPT !.step = step, !.failed = failed]
<1>1. call[c] \in Requests /\ step \in Steps
  BY DEF IInv, TypeOK, Steps
<1>2. r \in Requests /\ r.step = step /\ r.org = call[c].org /\ r.for = call[c].for
      /\ r.retry = call[c].retry
  <2> HIDE DEF FailedTasks
  <2> QED
    BY <1>1 DEF Requests
<1>3. call' = [call EXCEPT ![c] = r]
  BY DEF IInv, TypeOK
<1> HIDE DEF r
<1> QED
  BY <1>2, <1>3, PlainStep, SameSessions DEF Unspent, Settled

LEMMA RollbackInv == ASSUME IInv, NEW c \in Calls, Rollback(c) PROVE IInv'
<1>1. session[SessionOf(c)].failed \in FailedTasks /\ call[c].step = "rollback"
  BY Running DEF Rollback, SessionRows
<1> QED
  BY <1>1, RecordInv DEF Rollback

LEMMA StepFailsInv == ASSUME IInv, NEW c \in Calls, StepFails(c) PROVE IInv'
BY Codes, RecordInv DEF StepFails

LEMMA MarkCompletedInv == ASSUME IInv, NEW c \in Calls, MarkCompleted(c) PROVE IInv'
<1> DEFINE s == SessionOf(c)
           row == [status |-> "COMPLETED", failed |-> NoTask, org |-> call[c].org]
<1>1. call[c].step \in {"complete", "finalize"} /\ call[c] \in Requests /\ CallInv(c)
  BY DEF MarkCompleted, IInv, TypeOK
<1>2. s \in Sessions /\ session \in [Sessions -> SessionRows]
  BY <1>1, Running
<1>3. call[c].org # NoOrg /\ owner[UserOf[s]] = call[c].org
  BY <1>1 DEF CallInv, Settled, User, SessionOf
<1>4. row \in SessionRows
  <2> HIDE DEF FailedTasks, NoTask, Orgs
  <2> QED
    BY <1>1, Codes DEF SessionRows, Statuses, Requests
<1>5. session' = [session EXCEPT ![s] = row]
  BY DEF MarkCompleted
<1>6. session' \in [Sessions -> SessionRows] /\ SessionsOwnTheirOrg'
  <2>1. row.org = call[c].org
    OBVIOUS
  <2> HIDE DEF row
  <2>2. session' \in [Sessions -> SessionRows]
    BY <1>2, <1>4, <1>5
  <2>3. \A t \in Sessions : session'[t] = IF t = s THEN row ELSE session[t]
    BY <1>2, <1>5
  <2> QED
    BY <1>3, <2>1, <2>2, <2>3 DEF SessionsOwnTheirOrg, IInv, MarkCompleted
<1>7. CASE call[c].step = "complete"
  <2>1. GoTo(c, "checklist") /\ "checklist" \in Steps
    BY <1>7 DEF MarkCompleted, Steps
  <2> QED
    BY <1>1, <1>6, <2>1, GoToInv DEF MarkCompleted, Unspent, Settled
<1>8. CASE call[c].step # "complete"
  BY <1>1, <1>6, <1>8, LeaveInv DEF MarkCompleted
<1> QED
  BY <1>7, <1>8

-----------------------------------------------------------------------------
(* The attempt.                                                             *)

LEMMA AttemptFailedInv ==
    ASSUME IInv, NEW c \in Calls, call[c].step \in {"begin", "tx"},
           NEW task \in FailedTasks, NEW transient \in BOOLEAN,
           AttemptFailed(c, task, transient)
    PROVE  IInv'
<1>1. call[c] \in Requests /\ CallInv(c) /\ call[c].retry \in 0..MaxRetries
  BY DEF IInv, TypeOK, Requests
<1>2. UNCHANGED <<session, owner, org>>
  BY DEF AttemptFailed
<1>3. session' \in [Sessions -> SessionRows] /\ SessionsOwnTheirOrg'
  BY <1>2, SameSessions
<1>4. CASE transient /\ call[c].retry < MaxRetries
  <2> DEFINE r == [call[c] EXCEPT !.step = "begin", !.retry = call[c].retry + 1,
                                  !.from = 0, !.at = 0]
  <2>1. call' = [call EXCEPT ![c] = r]
    BY <1>4 DEF AttemptFailed
  <2>2. r \in Requests
    <3>1. call[c].retry + 1 \in 0..MaxRetries /\ "begin" \in Steps
      BY <1>1, <1>4 DEF Steps
    <3> HIDE DEF FailedTasks, Orgs
    <3> QED
      BY <1>1, <3>1, Codes DEF Requests
  <2>3. r.step = "begin" /\ r.org = call[c].org /\ r.for = call[c].for
        /\ r.retry = call[c].retry + 1
    BY <1>1 DEF Requests
  <2> HIDE DEF r
  <2>4. call'[c] = r
    BY <2>1 DEF IInv, TypeOK
  <2>5. ~InTx(c)' /\ ~Created(c)' /\ ~Claimed(c)'
    BY <2>3, <2>4 DEF InTx, Created, Claimed
  <2>6. \A n \in 0..MaxRetries : n >= call[c].retry => org[<<c, n>>] = {}
    BY <1>1 DEF CallInv, Unspent
  <2>7. r.org # <<c, r.retry>>
    <3>1. <<c, r.retry>> \in Orgs /\ org[<<c, r.retry>>] = {}
      BY <1>1, <1>4, <2>3, <2>6
    <3>2. CASE r.org = NoOrg
      BY <3>1, <3>2
    <3>3. CASE r.org # NoOrg /\ org[r.org] = {}
      <4>1. PICK n \in 0..call[c].retry : r.org = <<c, n>>
        BY <1>1, <2>3, <3>3 DEF CallInv
      <4> QED
        BY <1>1, <2>3, <4>1
    <3>4. CASE r.org # NoOrg /\ org[r.org] # {}
      BY <3>1, <3>4
    <3> QED
      BY <3>2, <3>3, <3>4
  <2>8. CallInv(c)'
    <3>1. call[c].retry \in Nat
      BY <1>1
    <3>2. r.org # NoOrg =>
            IF org[r.org] = {} THEN \E n \in 0..r.retry : r.org = <<c, n>>
                               ELSE owner[UserOf[r.for]] = r.org
      <4>1. \A n \in 0..call[c].retry : n \in 0..r.retry
        BY <2>3, <3>1
      <4> QED
        BY <1>1, <2>3, <4>1 DEF CallInv, User
    <3>3. \A n \in 0..MaxRetries : n >= r.retry => org[<<c, n>>] = {}
      BY <2>3, <2>6, <3>1
    <3>4. r.for \in Sessions
      BY <1>1, <2>3 DEF CallInv
    <3> QED
      BY <1>2, <2>3, <2>4, <2>5, <2>7, <3>2, <3>3, <3>4 DEF CallInv, User, Settled
  <2> QED
    BY <1>2, <1>3, <2>1, <2>2, <2>5, <2>8, LocalStep
<1>5. CASE ~(transient /\ call[c].retry < MaxRetries)
  <2> DEFINE r == [call[c] EXCEPT !.step = "fail", !.failed = task, !.from = 0, !.at = 0]
  <2>1. call' = [call EXCEPT ![c] = r]
    BY <1>5 DEF AttemptFailed
  <2>2. r \in Requests
    <3>1. "fail" \in Steps
      BY DEF Steps
    <3> HIDE DEF FailedTasks, Orgs
    <3> QED
      BY <1>1, <3>1, Codes DEF Requests
  <2>3. r.step = "fail" /\ r.org = call[c].org /\ r.for = call[c].for
        /\ r.retry = call[c].retry
    BY <1>1 DEF Requests
  <2> HIDE DEF r
  <2> QED
    BY <1>2, <1>3, <2>1, <2>2, <2>3, PlainStep DEF Unspent, Settled
<1> QED
  BY <1>4, <1>5

LEMMA AttemptFailsInv == ASSUME IInv, NEW c \in Calls, AttemptFails(c) PROVE IInv'
<1>1. PICK transient \in BOOLEAN :
        AttemptFailed(c, IF call[c].at \in Tasks THEN call[c].at ELSE Unnamed, transient)
  BY DEF AttemptFails
<1>2. (IF call[c].at \in Tasks THEN call[c].at ELSE Unnamed) \in FailedTasks
  BY Codes
<1> QED
  BY <1>1, <1>2, AttemptFailedInv DEF AttemptFails

LEMMA NoResultInv == ASSUME IInv, NEW c \in Calls, NoResult(c) PROVE IInv'
BY Codes, AttemptFailedInv DEF NoResult, InTx

LEMMA BeginTxInv == ASSUME IInv, NEW c \in Calls, BeginTx(c) PROVE IInv'
<1> DEFINE k == StartCheckpoint(c)
           r == [call[c] EXCEPT !.step = "tx", !.from = k, !.at = k]
<1>1. call[c] \in Requests /\ CallInv(c) /\ call[c].step = "begin"
  BY DEF IInv, TypeOK, BeginTx
<1>2. k \in Tasks
  BY Codes DEF StartCheckpoint
<1>3. r \in Requests
  <2>1. k \in 0..LastTask /\ k \in 0..LastTask + 1 /\ "tx" \in Steps
    BY <1>2 DEF Steps
  <2> HIDE DEF k, FailedTasks, Orgs
  <2> QED
    BY <1>1, <2>1 DEF Requests
<1>4. r.step = "tx" /\ r.org = call[c].org /\ r.for = call[c].for
      /\ r.retry = call[c].retry /\ r.from = k /\ r.at = k
  BY <1>1 DEF Requests
<1>5. call' = [call EXCEPT ![c] = r]
  BY <1>1 DEF BeginTx, IInv, TypeOK
<1> HIDE DEF r, k
<1>6. call'[c] = r
  BY <1>5 DEF IInv, TypeOK
<1>7. call[c].org # <<c, call[c].retry>>
  BY <1>1 DEF CallInv, Unspent
<1>8. ~Created(c)' /\ ~Claimed(c)'
  BY <1>2, <1>4, <1>6, <1>7 DEF Created, Claimed
<1>9. UNCHANGED <<session, owner, org>>
  BY DEF BeginTx
<1>10. CallInv(c)'
  BY <1>1, <1>2, <1>4, <1>6, <1>8, <1>9 DEF CallInv, User, Settled, Unspent, InTx
<1>11. session' \in [Sessions -> SessionRows] /\ SessionsOwnTheirOrg'
  BY <1>9, SameSessions
<1> QED
  BY <1>3, <1>5, <1>8, <1>9, <1>10, <1>11, LocalStep

\* A checkpoint that is through, in a transaction that goes on.
LEMMA AdvanceInv ==
    ASSUME IInv, NEW c \in Calls, InTx(c), call[c].at \in Tasks, Advance(c),
           UNCHANGED <<session, owner, org>>,
           call[c].at = 2 /\ Sees(c) => MayClaim(c) /\ ~UserLocked(User(c), c),
           call[c].at # 1 \/ Sees(c)
    PROVE  IInv'
<1> DEFINE r == [call[c] EXCEPT !.at = call[c].at + 1]
<1>1. call[c] \in Requests /\ CallInv(c) /\ call[c].step = "tx"
  BY DEF IInv, TypeOK, InTx
<1>2. r \in Requests
  <2>1. call[c].at + 1 \in 0..LastTask + 1
    OBVIOUS
  <2> HIDE DEF FailedTasks, Orgs
  <2> QED
    BY <1>1, <2>1 DEF Requests
<1>3. r.step = "tx" /\ r.org = call[c].org /\ r.for = call[c].for
      /\ r.retry = call[c].retry /\ r.from = call[c].from /\ r.at = call[c].at + 1
  BY <1>1 DEF Requests
<1>4. call' = [call EXCEPT ![c] = r]
  BY DEF Advance
<1> HIDE DEF r
<1>5. call'[c] = r
  BY <1>4 DEF IInv, TypeOK
<1>6. (Created(c)' <=> Created(c)) /\ (Sees(c)' <=> Sees(c)) /\ User(c)' = User(c)
      /\ (MayClaim(c)' <=> MayClaim(c)) /\ InTx(c)'
  BY <1>1, <1>3, <1>5 DEF Created, Sees, User, MayClaim, InTx
<1>7. Claimed(c)' => Claimed(c) \/ (call[c].at = 2 /\ Sees(c))
  BY <1>3, <1>5, <1>6 DEF Claimed
<1>8. Claimed(c)' => MayClaim(c)
  BY <1>1, <1>7 DEF CallInv
<1>9. Claimed(c)' => \A d \in Calls \ {c} : Claimed(d) => User(d) # User(c)'
  BY <1>6, <1>7 DEF UserLocked, IInv, ClaimsExclude
<1>10. call[c].from \in Tasks /\ call[c].at >= call[c].from
  BY <1>1 DEF CallInv, InTx
<1>11. CallInv(c)'
  <2>1. r.at >= r.from /\ (call[c].at >= 2 => r.at >= 2)
    BY <1>3, <1>10
  <2> QED
    BY <1>1, <1>3, <1>5, <1>6, <1>8, <1>10, <2>1 DEF CallInv, User, Settled, Unspent
<1>12. session' \in [Sessions -> SessionRows] /\ SessionsOwnTheirOrg'
  BY SameSessions
<1> QED
  BY <1>2, <1>4, <1>9, <1>11, <1>12, LocalStep

LEMMA CreateOrgInv == ASSUME IInv, NEW c \in Calls, CreateOrg(c) PROVE IInv'
<1>1. InTx(c) /\ call[c].at = 1 /\ call[c].step \in {"begin", "tx"}
  BY DEF CreateOrg, InTx
<1>2. CASE Sees(c)
  BY <1>1, <1>2, Codes, AdvanceInv DEF CreateOrg
<1>3. CASE ~Sees(c) /\ NameTaken(NameOf[SessionOf(c)])
  BY <1>1, <1>3, Codes, AttemptFailedInv DEF CreateOrg
<1>4. CASE ~Sees(c) /\ ~NameTaken(NameOf[SessionOf(c)])
  <2> DEFINE r == [call[c] EXCEPT !.at = 2, !.org = <<c, call[c].retry>>]
  <2>1. call[c] \in Requests /\ CallInv(c) /\ call[c].retry \in 0..MaxRetries
    BY DEF IInv, TypeOK, Requests
  <2>2. r \in Requests
    <3>1. 2 \in 0..LastTask + 1 /\ <<c, call[c].retry>> \in Orgs
      BY <2>1
    <3> HIDE DEF FailedTasks, Orgs
    <3> QED
      BY <2>1, <3>1 DEF Requests
  <2>3. r.step = "tx" /\ r.org = <<c, call[c].retry>> /\ r.for = call[c].for
        /\ r.retry = call[c].retry /\ r.from = call[c].from /\ r.at = 2
    BY <1>1, <2>1 DEF Requests, InTx
  <2>4. call' = [call EXCEPT ![c] = r] /\ UNCHANGED <<session, owner, org>>
    BY <1>4 DEF CreateOrg, IInv, TypeOK
  <2> HIDE DEF r
  <2>5. call'[c] = r
    BY <2>4 DEF IInv, TypeOK
  <2>6. call[c].from = 1
    BY <1>1, <2>1 DEF CallInv, InTx
  <2>7. \A n \in 0..MaxRetries : n >= call[c].retry => org[<<c, n>>] = {}
    BY <1>1, <2>1 DEF CallInv, Unspent, InTx
  <2>8. org[r.org] = {} /\ call[c].retry \in 0..call[c].retry
    BY <2>1, <2>3, <2>7
  <2>9. ~Claimed(c)'
    BY <2>3, <2>5 DEF Claimed
  <2>10. CallInv(c)'
    BY <1>1, <2>1, <2>3, <2>4, <2>5, <2>6, <2>7, <2>8, <2>9
       DEF CallInv, Settled, Unspent, InTx, Created
  <2>11. session' \in [Sessions -> SessionRows] /\ SessionsOwnTheirOrg'
    BY <2>4, SameSessions
  <2> QED
    BY <2>2, <2>4, <2>9, <2>10, <2>11, LocalStep
<1> QED
  BY <1>2, <1>3, <1>4

LEMMA AssignOwnerInv == ASSUME IInv, NEW c \in Calls, AssignOwner(c) PROVE IInv'
<1>1. InTx(c) /\ call[c].at = 2 /\ call[c].step \in {"begin", "tx"}
      /\ (Sees(c) => ~UserLocked(User(c), c))
  BY DEF AssignOwner, InTx
<1>2. CASE Sees(c) /\ ~MayClaim(c)
  BY <1>1, <1>2, Codes, AttemptFailedInv DEF AssignOwner
<1>3. CASE ~(Sees(c) /\ ~MayClaim(c))
  <2>1. Advance(c) /\ UNCHANGED <<session, owner, org>>
    BY <1>3 DEF AssignOwner
  <2>2. call[c].at # 1 /\ call[c].at \in Tasks
    BY <1>1, Codes
  <2> QED
    BY <1>1, <1>3, <2>1, <2>2, AdvanceInv
<1> QED
  BY <1>2, <1>3

LEMMA RunTaskInv == ASSUME IInv, NEW c \in Calls, RunTask(c) PROVE IInv'
<1>1. call[c].at \in Tasks /\ call[c].at # 1 /\ call[c].at # 2
  BY DEF RunTask
<1> QED
  BY <1>1, AdvanceInv DEF RunTask

-----------------------------------------------------------------------------
(* The commit.                                                              *)

\* An attempt that works on a committed organization changes nothing by its
\* commit.
LEMMA CommitAgain ==
    ASSUME IInv, NEW c \in Calls, Commit(c), ~Created(c)
    PROVE  UNCHANGED <<session, owner, org>>
<1> DEFINE o == call[c].org
<1>1. call[c] \in Requests /\ CallInv(c) /\ InTx(c) /\ Sees(c)
  BY DEF IInv, TypeOK, Commit
<1>2. o \in Orgs /\ org[o] # {} /\ owner[User(c)] = o
  BY <1>1 DEF Sees, CallInv, Requests
<1>3. org[o] = Tasks /\ org \in [Orgs -> SUBSET Tasks] /\ owner \in [Users -> Orgs \cup {NoOrg}]
  BY <1>2 DEF IInv, Whole, TypeOK
<1>4. call[c].from \in Tasks
  BY <1>1 DEF CallInv
<1>5. org[o] \cup call[c].from..LastTask = org[o]
  BY <1>3, <1>4
<1>6. org' = org
  BY <1>2, <1>3, <1>5 DEF Commit
<1>7. owner' = owner
  BY <1>2, <1>3 DEF Commit
<1> QED
  BY <1>6, <1>7 DEF Commit

\* An attempt that has created its organization founds it for its user.
LEMMA CommitNew ==
    ASSUME IInv, NEW c \in Calls, Commit(c), Created(c)
    PROVE  LET o == <<c, call[c].retry>>
               u == User(c)
           IN  /\ call[c].org = o /\ o \in Orgs /\ u \in Users /\ SessionOf(c) \in Sessions
               /\ Claimed(c)
               /\ org[o] = {} /\ owner[u] = NoOrg
               /\ org' = [org EXCEPT ![o] = Tasks]
               /\ owner' = [owner EXCEPT ![u] = o]
               /\ session' = [session EXCEPT ![SessionOf(c)].org = o]
<1> DEFINE o == <<c, call[c].retry>>
           u == User(c)
<1>1. call[c] \in Requests /\ CallInv(c) /\ InTx(c) /\ Sees(c) /\ call[c].org = o
  BY DEF IInv, TypeOK, Commit, Created
<1>2. o \in Orgs /\ org[o] = {}
  BY <1>1 DEF Requests, CallInv, Unspent, InTx
<1>3. SessionOf(c) \in Sessions /\ u \in Users
  BY <1>1 DEF CallInv, InTx, User, SessionOf
<1>4. call[c].from = 1 /\ call[c].at = LastTask + 1
  BY <1>1 DEF CallInv, Commit
<1>5. Claimed(c)
  BY <1>1, <1>4 DEF Claimed
<1>6. owner[u] = NoOrg
  <2>1. owner[u] \in {NoOrg, o}
    BY <1>1, <1>5 DEF CallInv, MayClaim
  <2>2. owner[u] # o
    BY <1>2, <1>3, TasksNotEmpty DEF IInv, OwnersHaveOrg
  <2> QED
    BY <2>1, <2>2
<1>7. org[o] \cup call[c].from..LastTask = Tasks
  BY <1>2, <1>4
<1> QED
  BY <1>1, <1>2, <1>3, <1>5, <1>6, <1>7 DEF Commit

\* A founded organization is no other request's business.
LEMMA OthersKeepNew ==
    ASSUME IInv, NEW c \in Calls, NEW d \in Calls, d # c, Commit(c), Created(c)
    PROVE  CallInv(d)' /\ (Claimed(d)' <=> Claimed(d)) /\ User(d)' = User(d)
<1> DEFINE o == <<c, call[c].retry>>
           u == User(c)
<1>1. /\ o \in Orgs /\ u \in Users /\ org[o] = {} /\ owner[u] = NoOrg
      /\ org' = [org EXCEPT ![o] = Tasks]
      /\ owner' = [owner EXCEPT ![u] = o]
      /\ Claimed(c)
  BY CommitNew
<1>2. call'[d] = call[d]
  BY DEF Commit, IInv, TypeOK
<1>3. call[d] \in Requests /\ CallInv(d)
  BY DEF IInv, TypeOK
<1>4. org \in [Orgs -> SUBSET Tasks] /\ owner \in [Users -> Orgs \cup {NoOrg}]
  BY DEF IInv, TypeOK
<1>5. User(d)' = User(d) /\ InTx(d)' = InTx(d) /\ Created(d)' = Created(d)
  BY <1>2 DEF User, InTx, Created
<1>6. call[d].org # NoOrg =>
        /\ call[d].org \in Orgs /\ call[d].org # o
        /\ org'[call[d].org] = org[call[d].org]
        /\ org[call[d].org] # {} => owner'[User(d)] = owner[User(d)]
  <2> SUFFICES ASSUME call[d].org # NoOrg
               PROVE  /\ call[d].org \in Orgs /\ call[d].org # o
                      /\ org'[call[d].org] = org[call[d].org]
                      /\ org[call[d].org] # {} => owner'[User(d)] = owner[User(d)]
    OBVIOUS
  <2>1. call[d].org \in Orgs
    BY <1>3 DEF Requests
  <2>2. call[d].org # o
    <3>1. CASE org[call[d].org] = {}
      <4>1. PICK n \in 0..call[d].retry : call[d].org = <<d, n>>
        BY <1>3, <3>1 DEF CallInv
      <4> QED
        BY <4>1
    <3>2. CASE org[call[d].org] # {}
      BY <1>1, <3>2
    <3> QED
      BY <3>1, <3>2
  <2>3. org'[call[d].org] = org[call[d].org]
    BY <1>1, <1>4, <2>1, <2>2
  <2>4. ASSUME org[call[d].org] # {} PROVE owner'[User(d)] = owner[User(d)]
    <3>1. owner[User(d)] = call[d].org
      BY <1>3, <2>4 DEF CallInv
    <3>2. User(d) # u
      BY <1>1, <3>1
    <3>3. User(d) \in Users
      BY <1>3 DEF CallInv, User
    <3> QED
      BY <1>1, <1>4, <3>2, <3>3
  <2> QED
    BY <2>1, <2>2, <2>3, <2>4
<1>7. Sees(d)' = Sees(d)
  BY <1>2, <1>5, <1>6 DEF Sees
<1>8. Claimed(d)' = Claimed(d)
  BY <1>2, <1>5, <1>7 DEF Claimed
<1>9. Claimed(d) => MayClaim(d)'
  <2> SUFFICES ASSUME Claimed(d) PROVE MayClaim(d)'
    OBVIOUS
  <2>1. User(d) # u
    BY <1>1 DEF IInv, ClaimsExclude
  <2>2. User(d) \in Users
    BY <1>3 DEF CallInv, User, Claimed, InTx
  <2>3. owner'[User(d)] = owner[User(d)]
    BY <1>1, <1>4, <2>1, <2>2
  <2> QED
    BY <1>2, <1>3, <1>5, <2>3 DEF CallInv, MayClaim
<1>10. \A n \in 0..MaxRetries : org'[<<d, n>>] = org[<<d, n>>]
  BY <1>1, <1>4
<1>11. CallInv(d)'
  BY <1>2, <1>3, <1>5, <1>6, <1>7, <1>8, <1>9, <1>10 DEF CallInv
<1> QED
  BY <1>5, <1>8, <1>11

LEMMA CommitInv == ASSUME IInv, NEW c \in Calls, Commit(c) PROVE IInv'
<1> DEFINE r == [call[c] EXCEPT !.step = "flush", !.from = 0, !.at = 0]
<1>1. call[c] \in Requests /\ CallInv(c) /\ call[c].step = "tx" /\ Sees(c)
  BY DEF IInv, TypeOK, Commit, InTx
<1>2. r \in Requests
  <2>1. "flush" \in Steps
    BY DEF Steps
  <2> HIDE DEF FailedTasks, Orgs
  <2> QED
    BY <1>1, <2>1, Codes DEF Requests
<1>3. r.step = "flush" /\ r.org = call[c].org /\ r.for = call[c].for /\ r.retry = call[c].retry
  BY <1>1 DEF Requests
<1>4. call' = [call EXCEPT ![c] = r]
  BY DEF Commit
<1> HIDE DEF r
<1>5. CASE ~Created(c)
  <2>1. UNCHANGED <<session, owner, org>>
    BY <1>5, CommitAgain
  <2>2. r.org # NoOrg /\ org[r.org] # {}
    BY <1>1, <1>3, <1>5 DEF Sees
  <2>3. session' \in [Sessions -> SessionRows] /\ SessionsOwnTheirOrg'
    BY <2>1, SameSessions
  <2> QED
    BY <1>1, <1>2, <1>3, <1>4, <2>1, <2>2, <2>3, PlainStep DEF Unspent
<1>6. CASE Created(c)
  <2> DEFINE o == <<c, call[c].retry>>
             u == User(c)
             s == SessionOf(c)
  <2>1. /\ call[c].org = o /\ o \in Orgs /\ u \in Users /\ s \in Sessions
        /\ org[o] = {} /\ owner[u] = NoOrg
        /\ org' = [org EXCEPT ![o] = Tasks]
        /\ owner' = [owner EXCEPT ![u] = o]
        /\ session' = [session EXCEPT ![s].org = o]
    BY <1>6, CommitNew
  <2>2. /\ session \in [Sessions -> SessionRows] /\ owner \in [Users -> Orgs \cup {NoOrg}]
        /\ org \in [Orgs -> SUBSET Tasks] /\ call \in [Calls -> Requests]
    BY DEF IInv, TypeOK
  <2>3. u = UserOf[s]
    BY DEF User, SessionOf
  <2>4. o # NoOrg
    BY <2>1
  <2> HIDE DEF o, u, s
  <2>5. TypeOK'
    <3>1. [session[s] EXCEPT !.org = o] \in SessionRows
      <4> HIDE DEF Orgs, FailedTasks
      <4> QED
        BY <2>1, <2>2 DEF SessionRows
    <3>2. session' \in [Sessions -> SessionRows]
      BY <2>1, <2>2, <3>1
    <3> QED
      BY <1>2, <1>4, <2>1, <2>2, <3>2 DEF TypeOK
  <2>6. Whole'
    BY <2>1, <2>2 DEF IInv, Whole
  <2>7. OwnersHaveOrg'
    BY <2>1, <2>2, TasksNotEmpty DEF IInv, OwnersHaveOrg
  <2>8. SessionsOwnTheirOrg'
    <3> SUFFICES ASSUME NEW t \in Sessions
                 PROVE  /\ session'[t].org # NoOrg => owner'[UserOf[t]] = session'[t].org
                        /\ session'[t].status = "COMPLETED" => session'[t].org # NoOrg
      BY DEF SessionsOwnTheirOrg
    <3>1. CASE t = s
      <4>1. session'[t].org = o
        BY <2>1, <2>2, <3>1 DEF SessionRows
      <4> QED
        BY <2>1, <2>2, <2>3, <2>4, <3>1, <4>1
    <3>2. CASE t # s
      <4>1. session'[t] = session[t]
        BY <2>1, <2>2, <3>2
      <4>2. UserOf[t] \in Users
        OBVIOUS
      <4>3. session[t].org # NoOrg => owner[UserOf[t]] = session[t].org
        BY DEF IInv, SessionsOwnTheirOrg
      <4>4. session[t].org # NoOrg => UserOf[t] # u
        BY <2>1, <4>3
      <4>5. session[t].org # NoOrg => owner'[UserOf[t]] = session[t].org
        BY <2>1, <2>2, <4>2, <4>3, <4>4
      <4> QED
        BY <4>1, <4>5 DEF IInv, SessionsOwnTheirOrg
    <3> QED
      BY <3>1, <3>2
  <2>9. call'[c] = r
    BY <1>4, <2>2
  <2>10. ~InTx(c)' /\ ~Created(c)' /\ ~Claimed(c)'
    BY <1>3, <2>9 DEF InTx, Created, Claimed
  <2>11. CallInv(c)'
    <3>1. org'[o] = Tasks /\ owner'[u] = o
      BY <2>1, <2>2
    <3>2. User(c)' = u
      BY <1>3, <2>9 DEF User, u
    <3>3. r.for \in Sessions
      BY <1>1, <1>3 DEF CallInv
    <3> QED
      BY <1>3, <2>1, <2>4, <2>9, <2>10, <3>1, <3>2, <3>3, TasksNotEmpty DEF CallInv, Unspent, Settled
  <2>12. \A d \in Calls : d # c => CallInv(d)' /\ (Claimed(d)' <=> Claimed(d)) /\ User(d)' = User(d)
    BY <1>6, OthersKeepNew
  <2>13. ClaimsExclude'
    BY <2>10, <2>12 DEF IInv, ClaimsExclude
  <2>14. \A d \in Calls : CallInv(d)'
    BY <2>11, <2>12
  <2> QED
    BY <2>5, <2>6, <2>7, <2>8, <2>13, <2>14 DEF IInv
<1> QED
  BY <1>5, <1>6

-----------------------------------------------------------------------------
(* The theorems.                                                            *)

THEOREM StepInv == IInv /\ [Next]_vars => IInv'
<1> SUFFICES ASSUME IInv, [Next]_vars PROVE IInv'
  OBVIOUS
<1>1. CASE UNCHANGED vars
  BY <1>1 DEF vars, IInv, TypeOK, Whole, OwnersHaveOrg, SessionsOwnTheirOrg, ClaimsExclude,
              CallInv, InTx, Created, Claimed, Sees, User, MayClaim
<1>2. CASE Rest
  BY <1>1, <1>2 DEF Rest
<1>3. ASSUME NEW c \in Calls, Begin(c) PROVE IInv'
  BY <1>3, BeginInv
<1>4. ASSUME NEW c \in Calls, Crash(c) PROVE IInv'
  BY <1>4, LeaveInv, SameSessions DEF Crash
<1>5. ASSUME NEW c \in Calls, EngineNext(c) PROVE IInv'
  <2>1. CASE InitChecklist(c)
    BY <2>1, LeaveInv, SameSessions DEF InitChecklist
  <2> QED
    BY <1>5, <2>1, GetProgressInv, RecoverInv, CheckOwnerInv, StartInv, LoadInv, FlushInv,
       LoseObservationInv, MarkCompletedInv, MarkFailedInv, RollbackInv, CompensateInv,
       StepFailsInv DEF EngineNext
<1>6. ASSUME NEW c \in Calls, AttemptNext(c) PROVE IInv'
  BY <1>6, BeginTxInv, CreateOrgInv, AssignOwnerInv, RunTaskInv, CommitInv, NoResultInv,
     AttemptFailsInv DEF AttemptNext
<1> QED
  BY <1>1, <1>2, <1>3, <1>4, <1>5, <1>6 DEF Next, CallNext

THEOREM Invariance == Spec => []IInv
BY InitInv, StepInv, PTL DEF Spec

\* Every table and every request keeps its type.
THEOREM TypeCorrect == Spec => []TypeOK
<1>1. IInv => TypeOK
  BY DEF IInv
<1> QED
  BY Invariance, <1>1, PTL

\* A session is bound to its user's organization only, and to it if COMPLETED.
THEOREM SessionsBound == Spec => []SessionsOwnTheirOrg
<1>1. IInv => SessionsOwnTheirOrg
  BY DEF IInv
<1> QED
  BY Invariance, <1>1, PTL

\* Only the commit of an attempt that created its organization shows in the
\* organizations and owners, and it founds one workspace.
LEMMA StepFounds ==
    ASSUME IInv, [Next]_vars
    PROVE  [\E u \in Users, o \in Orgs : W!Found(u, o)]_(W!Workspace)
<1>1. CASE UNCHANGED <<owner, org>>
  BY <1>1 DEF W!Workspace
<1>2. ASSUME NEW c \in Calls, Commit(c)
      PROVE  [\E u \in Users, o \in Orgs : W!Found(u, o)]_(W!Workspace)
  <2>1. CASE ~Created(c)
    BY <1>1, <1>2, <2>1, CommitAgain
  <2>2. CASE Created(c)
    <3> DEFINE o == <<c, call[c].retry>>
               u == User(c)
    <3>1. /\ o \in Orgs /\ u \in Users /\ org[o] = {} /\ owner[u] = NoOrg
          /\ org' = [org EXCEPT ![o] = Tasks] /\ owner' = [owner EXCEPT ![u] = o]
      BY <1>2, <2>2, CommitNew
    <3> HIDE DEF o, u
    <3>2. W!Found(u, o)
      BY <3>1 DEF W!Found
    <3> QED
      BY <3>1, <3>2
  <2> QED
    BY <2>1, <2>2
<1>3. ASSUME NEW c \in Calls, EngineNext(c) PROVE UNCHANGED <<owner, org>>
  BY <1>3 DEF EngineNext, GetProgress, Recover, CheckOwner, Start, Load, Flush, LoseObservation,
     MarkCompleted, InitChecklist, MarkFailed, Rollback, Compensate, StepFails
<1>4. ASSUME NEW c \in Calls, AttemptNext(c), ~Commit(c) PROVE UNCHANGED <<owner, org>>
  BY <1>4 DEF AttemptNext, BeginTx, CreateOrg, AssignOwner, RunTask, NoResult, AttemptFails,
     AttemptFailed
<1>5. ASSUME NEW c \in Calls, Begin(c) \/ Crash(c) PROVE UNCHANGED <<owner, org>>
  BY <1>5 DEF Begin, Crash
<1>6. CASE Rest \/ UNCHANGED vars
  BY <1>1, <1>6 DEF Rest, vars
<1> QED
  BY <1>1, <1>2, <1>3, <1>4, <1>5, <1>6 DEF Next, CallNext

\* A user gets one organization, whole, in one step: Provisioning implements
\* Workspaces.
THEOREM Refinement == Spec => ImplementsWorkspaces
<1>1. Init => W!WorkspacesInit
  BY DEF Init, W!WorkspacesInit
<1>2. IInv /\ [Next]_vars => [\E u \in Users, o \in Orgs : W!Found(u, o)]_(W!Workspace)
  BY StepFounds
<1> QED
  BY Invariance, <1>1, <1>2, PTL DEF Spec, ImplementsWorkspaces, W!WorkspacesSpec

=============================================================================
