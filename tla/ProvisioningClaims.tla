------------------------- MODULE ProvisioningClaims -------------------------
(***************************************************************************)
(* What comments, tests and documents of the onboarding code say of        *)
(* provisioning, as properties of Provisioning that TLC refutes.           *)
(***************************************************************************)
EXTENDS Provisioning

\* "a losing concurrent request cannot change COMPLETED -> FAILED" (the
\* concurrency test of provisioning): a completed session is never FAILED later.
CompletedNeverFails ==
    \A s \in Sessions :
        [](session[s].status = "COMPLETED" => [](session[s].status # "FAILED"))

\* "Failures at any point must roll back cleanly. The system must support retry"
\* (ADR-003): a session does not stay in PROVISIONING once its calls are over
\* and the user tries again.
RetryFreesSession == <>[](\A s \in Sessions : session[s].status # "PROVISIONING")
=============================================================================
