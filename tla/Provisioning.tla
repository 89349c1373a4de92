----------------------------- MODULE Provisioning -----------------------------
(***************************************************************************)
(* Provisioning of an organization at the end of onboarding: engine,       *)
(* orchestrator, executor, retry, progress and compensation services of    *)
(* onboarding/provisioning.                                                *)
(*                                                                         *)
(* A call is one POST /onboarding/sessions/:id/provision.  It is suspended *)
(* at every await, so an action is one database statement outside the      *)
(* transaction, or one checkpoint inside it.  The checkpoints of an        *)
(* attempt share one interactive transaction (read committed): what they   *)
(* wrote shows in the tables only when Commit publishes it, and until then *)
(* the transaction holds the row locks of what it has written, on which    *)
(* the statements of other calls wait.                                     *)
(*                                                                         *)
(* Sessions reach this point with their user, industry and organization    *)
(* name filled in, and the user's e-mail verified; a session that lacks    *)
(* one of these is rejected before anything is written.                    *)
(***************************************************************************)
EXTENDS Integers

CONSTANTS
    Sessions,       \* onboarding sessions
    Users,          \* accounts
    Names,          \* organization names; a name stands for its slug as well
    UserOf,         \* the account a session is bound to
    NameOf,         \* the organization name a session asks for
    Calls,          \* provision requests
    LastTry,        \* requests made when nothing else runs, which meet no fault
    LastTask,       \* number of checkpoints (7 in CHECKPOINT_TASKS)
    MaxRetries,     \* retries after the first attempt (3 in DEFAULT_CONFIG)
    NoOrg,
    NoSession

Tasks == 1..LastTask

\* provisionData.failedTask: a checkpoint, the word 'provisioning' that no
\* checkpoint carries, or absent.
Unnamed == 0
NoTask == -1
FailedTasks == Tasks \cup {Unnamed, NoTask}

\* An attempt that creates an organization gives it an id never used before.
Orgs == Calls \X (0..MaxRetries)

ASSUME ProvisioningAssumption ==
    /\ LastTask \in Nat /\ LastTask >= 2
    /\ MaxRetries \in Nat
    /\ UserOf \in [Sessions -> Users]
    /\ NameOf \in [Sessions -> Names]
    /\ LastTry \subseteq Calls
    /\ NoOrg \notin Orgs
    /\ NoSession \notin Sessions

VARIABLES
    session,        \* OnboardingSession rows: provisionStatus, failedTask, organizationId
    owner,          \* User.organizationId
    org,            \* per organization, the checkpoints whose rows are committed
    call            \* what each request is about to do and the data it holds

vars == <<session, owner, org, call>>

Statuses == {"PENDING", "PROVISIONING", "COMPLETED", "FAILED"}
Steps == {"idle", "progress", "recover", "finalize", "check", "start", "load", "begin", "tx",
          "flush", "complete", "checklist", "fail", "rollback", "compensate", "done"}

SessionRows == [status: Statuses, failed: FailedTasks, org: Orgs \cup {NoOrg}]
Requests == [step: Steps,
             for: Sessions \cup {NoSession},
             org: Orgs \cup {NoOrg},        \* session.organizationId in memory
             failed: FailedTasks,           \* failedTask in memory, or of the error
             retry: 0..MaxRetries,
             from: 0..LastTask,             \* first checkpoint of the attempt
             at: 0..LastTask + 1]           \* next checkpoint of the attempt

TypeOK ==
    /\ session \in [Sessions -> SessionRows]
    /\ owner \in [Users -> Orgs \cup {NoOrg}]
    /\ org \in [Orgs -> SUBSET Tasks]
    /\ call \in [Calls -> Requests]

Waiting == [step |-> "idle", for |-> NoSession, org |-> NoOrg, failed |-> NoTask,
            retry |-> 0, from |-> 0, at |-> 0]

Init ==
    /\ session = [s \in Sessions |-> [status |-> "PENDING", failed |-> NoTask, org |-> NoOrg]]
    /\ owner = [u \in Users |-> NoOrg]
    /\ org = [o \in Orgs |-> {}]
    /\ call = [c \in Calls |-> Waiting]

-----------------------------------------------------------------------------
(* The transaction of an attempt: what it has written and what it locks.    *)

InTx(c) == call[c].step = "tx"
SessionOf(c) == call[c].for
User(c) == UserOf[call[c].for]

\* The attempt has created the organization it works on.
Created(c) == InTx(c) /\ call[c].org = <<c, call[c].retry>>

\* organization.findUnique of the executor: committed, or written by itself.
Sees(c) == call[c].org # NoOrg /\ (org[call[c].org] # {} \/ Created(c))

\* The attempt has claimed its user.
Claimed(c) == InTx(c) /\ Sees(c) /\ call[c].from <= 2 /\ call[c].at > 2

SessionLocked(s, c) == \E d \in Calls \ {c} : Created(d) /\ SessionOf(d) = s
UserLocked(u, c) == \E d \in Calls \ {c} : Claimed(d) /\ User(d) = u
NameLocked(n, c) == \E d \in Calls \ {c} : Created(d) /\ NameOf[SessionOf(d)] = n
NameTaken(n) == \E o \in Orgs : org[o] # {} /\ NameOf[SessionOf(o[1])] = n

-----------------------------------------------------------------------------
(* The engine, up to the dispatch.                                          *)

GoTo(c, step) == call' = [call EXCEPT ![c].step = step]

\* A request that is over forgets what it held; its session stays on record
\* for the names of the organizations it created.
Leave(c) == call' = [call EXCEPT ![c] =
    [@ EXCEPT !.step = "done", !.org = NoOrg, !.failed = NoTask, !.from = 0, !.at = 0]]

\* A last try starts when nothing else runs, and nothing starts after it.
MayBegin(c) ==
    IF c \in LastTry THEN \A d \in Calls \ {c} : call[d].step \in {"idle", "done"}
                     ELSE \A d \in LastTry : call[d].step = "idle"

\* provision reads the session; a COMPLETED one is answered right away.
Begin(c) ==
    /\ call[c].step = "idle"
    /\ MayBegin(c)
    /\ \E s \in Sessions :
        call' = [call EXCEPT ![c] =
            [@ EXCEPT !.for = s,
                      !.org = session[s].org,
                      !.step = CASE session[s].status = "COMPLETED" -> "done"
                                 [] session[s].status = "PROVISIONING" -> "progress"
                                 [] OTHER -> "check"]]
    /\ UNCHANGED <<session, owner, org>>

\* A session in PROVISIONING goes on only if a checkpoint is recorded as failed.
GetProgress(c) ==
    /\ call[c].step = "progress"
    /\ GoTo(c, IF session[SessionOf(c)].failed = NoTask THEN "recover" ELSE "check")
    /\ UNCHANGED <<session, owner, org>>

\* tryRecoverCommittedProvision: the run died between its commit and its last
\* write.  The rows read here never change once they qualify, so its reads are
\* one step.
CommittedAnyOrg(o, u) == owner[u] = o  \* FAULT: a session without organization counts

Committed(o, u) == o # NoOrg /\ org[o] # {} /\ owner[u] = o

RecoverNever(c) ==  \* FAULT: a run in progress is always another request's
    /\ call[c].step = "recover"
    /\ Leave(c)
    /\ UNCHANGED <<session, owner, org>>

Recover(c) ==
    /\ call[c].step = "recover"
    /\ IF Committed(call[c].org, User(c)) THEN GoTo(c, "finalize") ELSE Leave(c)
    /\ UNCHANGED <<session, owner, org>>

CheckOwner(c) ==
    /\ call[c].step = "check"
    /\ IF owner[User(c)] \in {NoOrg, call[c].org} THEN GoTo(c, "start") ELSE Leave(c)
    /\ UNCHANGED <<session, owner, org>>

\* The update to PROVISIONING has no condition and keeps provisionData.
Start(c) ==
    /\ call[c].step = "start"
    /\ ~SessionLocked(SessionOf(c), c)
    /\ session' = [session EXCEPT ![SessionOf(c)].status = "PROVISIONING"]
    /\ GoTo(c, "load")
    /\ UNCHANGED <<owner, org>>

\* orchestrate reads the session again, once for all attempts.
Load(c) ==
    /\ call[c].step = "load"
    /\ call' = [call EXCEPT ![c].step = "begin",
                            ![c].org = session[SessionOf(c)].org,
                            ![c].failed = session[SessionOf(c)].failed]
    /\ UNCHANGED <<session, owner, org>>

-----------------------------------------------------------------------------
(* One attempt of the orchestrator: a transaction over the checkpoints.     *)

\* Resume at the failed checkpoint if the session in memory has an
\* organization; a task that no checkpoint carries gives index 0, and the
\* executor then runs them all.
StartCheckpoint(c) ==
    IF call[c].failed \in Tasks /\ call[c].org # NoOrg THEN call[c].failed ELSE 1

BeginTx(c) ==
    /\ call[c].step = "begin"
    /\ call' = [call EXCEPT ![c].step = "tx",
                            ![c].from = StartCheckpoint(c),
                            ![c].at = StartCheckpoint(c)]
    /\ UNCHANGED <<session, owner, org>>

\* The transaction rolls back; the session in memory keeps its organizationId.
\* A transient error is tried again until the retries are used up, any other
\* goes to the engine with the checkpoint that was in flight.
AttemptFailedLate(c, task, transient) ==  \* FAULT: one retry too many
    /\ call' = [call EXCEPT ![c] =
        IF transient /\ @.retry <= MaxRetries
        THEN [@ EXCEPT !.step = "begin", !.retry = call[c].retry + 1, !.from = 0, !.at = 0]
        ELSE [@ EXCEPT !.step = "fail", !.failed = task, !.from = 0, !.at = 0]]
    /\ UNCHANGED <<session, owner, org>>

AttemptFailedUncounted(c, task, transient) ==  \* FAULT: the retries are not counted
    /\ call' = [call EXCEPT ![c] =
        IF transient THEN [@ EXCEPT !.step = "begin", !.from = 0, !.at = 0]
        ELSE [@ EXCEPT !.step = "fail", !.failed = task, !.from = 0, !.at = 0]]
    /\ UNCHANGED <<session, owner, org>>

AttemptFailed(c, task, transient) ==
    /\ call' = [call EXCEPT ![c] =
        IF transient /\ @.retry < MaxRetries
        THEN [@ EXCEPT !.step = "begin", !.retry = call[c].retry + 1,
                       !.from = 0, !.at = 0]
        ELSE [@ EXCEPT !.step = "fail", !.failed = task, !.from = 0, !.at = 0]]
    /\ UNCHANGED <<session, owner, org>>

Advance(c) == call' = [call EXCEPT ![c].at = @ + 1]

\* doCreateOrg: the session's own organization, or a new one, bound to the
\* session row and to the session in memory.
CreateOrg(c) ==
    LET name == NameOf[SessionOf(c)] IN
    /\ InTx(c) /\ call[c].at = 1
    /\ IF Sees(c)
       THEN Advance(c) /\ UNCHANGED <<session, owner, org>>
       ELSE /\ ~NameLocked(name, c)
            /\ IF NameTaken(name)
               THEN AttemptFailed(c, 1, FALSE)
               ELSE /\ ~SessionLocked(SessionOf(c), c)
                    /\ call' = [call EXCEPT ![c].at = 2, ![c].org = <<c, call[c].retry>>]
                    /\ UNCHANGED <<session, owner, org>>

\* doAssignOwner: the conditional updateMany claims the user for this
\* organization, or finds no row and the whole attempt fails.
MayClaimAlways(c) == TRUE  \* FAULT: the update has no condition on the user's organization

MayClaim(c) == owner[User(c)] \in {NoOrg, call[c].org}

AssignOwner(c) ==
    /\ InTx(c) /\ call[c].at = 2
    /\ Sees(c) => ~UserLocked(User(c), c)
    /\ IF Sees(c) /\ ~MayClaim(c)
       THEN AttemptFailed(c, 2, FALSE)
       ELSE Advance(c) /\ UNCHANGED <<session, owner, org>>

\* Owner role, departments, subscription, settings, industry lifecycle: each
\* returns silently if the organization is not there, and writes its rows so
\* that a second run changes nothing of them but the subscription.
RunTask(c) ==
    /\ InTx(c) /\ call[c].at \in 3..LastTask
    /\ Advance(c)
    /\ UNCHANGED <<session, owner, org>>

\* All checkpoints are through and the organization is there: commit.
Commit(c) ==
    /\ InTx(c) /\ call[c].at = LastTask + 1
    /\ Sees(c)
    /\ org' = [org EXCEPT ![call[c].org] = @ \cup call[c].from..LastTask]
    /\ owner' = IF Claimed(c) THEN [owner EXCEPT ![User(c)] = call[c].org] ELSE owner
    /\ session' = IF Created(c) THEN [session EXCEPT ![SessionOf(c)].org = call[c].org] ELSE session
    /\ call' = [call EXCEPT ![c].step = "flush", ![c].from = 0, ![c].at = 0]

\* buildProvisionResult throws: 'Organization not created during transaction'.
NoResult(c) ==
    /\ InTx(c) /\ call[c].at = LastTask + 1
    /\ ~Sees(c)
    /\ AttemptFailed(c, Unnamed, TRUE)

-----------------------------------------------------------------------------
(* After the commit, and after a failure.                                   *)

\* updateProgress for each observation, best effort: the write may get lost.
\* It replaces provisionData, and is void once the session is COMPLETED or FAILED.
Flush(c) ==
    /\ call[c].step = "flush"
    /\ ~SessionLocked(SessionOf(c), c)
    /\ session' = IF session[SessionOf(c)].status \in {"COMPLETED", "FAILED"} THEN session
                  ELSE [session EXCEPT ![SessionOf(c)].failed = NoTask]
    /\ \E step \in {"flush", "complete"} : GoTo(c, step)
    /\ UNCHANGED <<owner, org>>

LoseObservation(c) ==
    /\ call[c].step = "flush"
    /\ c \notin LastTry
    /\ GoTo(c, "complete")
    /\ UNCHANGED <<session, owner, org>>

\* markCompleted has no condition.  The engine then creates the checklist.
MarkCompleted(c) ==
    /\ call[c].step \in {"complete", "finalize"}
    /\ ~SessionLocked(SessionOf(c), c)
    /\ session' = [session EXCEPT ![SessionOf(c)] =
                      [status |-> "COMPLETED", failed |-> NoTask, org |-> call[c].org]]
    /\ IF call[c].step = "complete" THEN GoTo(c, "checklist") ELSE Leave(c)
    /\ UNCHANGED <<owner, org>>

InitChecklist(c) ==
    /\ call[c].step = "checklist"
    /\ Leave(c)
    /\ UNCHANGED <<session, owner, org>>

\* markFailed: a COMPLETED session stays COMPLETED.
MarkFailed(c) ==
    /\ call[c].step = "fail"
    /\ ~SessionLocked(SessionOf(c), c)
    /\ session' = IF session[SessionOf(c)].status = "COMPLETED" THEN session
                  ELSE [session EXCEPT ![SessionOf(c)].status = "FAILED",
                                       ![SessionOf(c)].failed = call[c].failed]
    /\ GoTo(c, "rollback")
    /\ UNCHANGED <<owner, org>>

\* CompensationManager.rollback reads provisionData and writes it back with its
\* own marks; the executor registers no compensations.
Rollback(c) ==
    /\ call[c].step = "rollback"
    /\ call' = [call EXCEPT ![c].step = "compensate", ![c].failed = session[SessionOf(c)].failed]
    /\ UNCHANGED <<session, owner, org>>

Compensate(c) ==
    /\ call[c].step = "compensate"
    /\ ~SessionLocked(SessionOf(c), c)
    /\ session' = IF session[SessionOf(c)].status = "COMPLETED" THEN session
                  ELSE [session EXCEPT ![SessionOf(c)].status = "FAILED",
                                       ![SessionOf(c)].failed = call[c].failed]
    /\ Leave(c)
    /\ UNCHANGED <<owner, org>>

-----------------------------------------------------------------------------
(* Faults.                                                                  *)

\* A statement of the transaction fails, transiently or for good.
AttemptFails(c) ==
    /\ call[c].step \in {"begin", "tx"}
    /\ c \notin LastTry
    /\ \E transient \in BOOLEAN :
        AttemptFailed(c, IF call[c].at \in Tasks THEN call[c].at ELSE Unnamed, transient)

\* A statement fails that the engine runs inside its try block.
StepFails(c) ==
    /\ call[c].step \in {"load", "flush", "complete", "checklist"}
    /\ c \notin LastTry
    /\ call' = [call EXCEPT ![c].step = "fail", ![c].failed = Unnamed]
    /\ UNCHANGED <<session, owner, org>>

\* The process dies, or a statement fails that no try block surrounds: an open
\* transaction rolls back and the request leaves everything as it is.
Crash(c) ==
    /\ call[c].step \notin {"idle", "done"}
    /\ c \notin LastTry
    /\ Leave(c)
    /\ UNCHANGED <<session, owner, org>>

-----------------------------------------------------------------------------
EngineNext(c) ==
    \/ GetProgress(c) \/ Recover(c) \/ CheckOwner(c) \/ Start(c) \/ Load(c)
    \/ Flush(c) \/ LoseObservation(c) \/ MarkCompleted(c) \/ InitChecklist(c)
    \/ MarkFailed(c) \/ Rollback(c) \/ Compensate(c) \/ StepFails(c)

AttemptNext(c) ==
    \/ BeginTx(c) \/ CreateOrg(c) \/ AssignOwner(c) \/ RunTask(c)
    \/ Commit(c) \/ NoResult(c) \/ AttemptFails(c)

CallNext(c) == EngineNext(c) \/ AttemptNext(c)

\* All requests are over, or came too late.
Rest ==
    /\ \A c \in Calls : call[c].step = "done" \/ (call[c].step = "idle" /\ ~MayBegin(c))
    /\ UNCHANGED vars

Next == (\E c \in Calls : Begin(c) \/ CallNext(c) \/ Crash(c)) \/ Rest

Spec == Init /\ [][Next]_vars

\* A request that runs goes on; the user does try again in the end.
FairSpec ==
    /\ Spec
    /\ \A c \in Calls : WF_vars(CallNext(c))
    /\ \A c \in LastTry : WF_vars(Begin(c))

-----------------------------------------------------------------------------
(* What must hold.                                                          *)

\* An organization a session is bound to is the one its user belongs to, and a
\* COMPLETED session is bound to one: nobody enters the application without a
\* workspace, or with somebody else's (markCompleted, tryRecoverCommittedProvision
\* and the claim of doAssignOwner).
SessionsOwnTheirOrg ==
    \A s \in Sessions :
        /\ session[s].org # NoOrg => owner[UserOf[s]] = session[s].org
        /\ session[s].status = "COMPLETED" => session[s].org # NoOrg

\* Calls wait for each other's row locks and retry, and still all of them end.
CallsEnd == \A c \in Calls : call[c].step # "idle" ~> call[c].step = "done"

\* If the organization of a session is committed, then however the run that
\* committed it ended, one more try leaves the session COMPLETED, which is what
\* lets the user in (tryRecoverCommittedProvision, checkpoint resume).
CommittedIsUsable ==
    <>[](\A s \in Sessions : session[s].org # NoOrg => session[s].status = "COMPLETED")

-----------------------------------------------------------------------------
W == INSTANCE Workspaces WITH Parts <- Tasks, belongs <- owner, content <- org

\* Whatever calls, retries, resumes and crashes do, a user gets at most one
\* organization, whole and in one step (the claim of doAssignOwner, the
\* $transaction of the orchestrator, the resume at a failed checkpoint).
ImplementsWorkspaces == W!WorkspacesSpec
=============================================================================
