----------------------------- MODULE Workspaces -----------------------------
(***************************************************************************)
(* What provisioning promises: a user gets one organization, once, and it  *)
(* appears with everything the checkpoints put into it, or not at all.     *)
(***************************************************************************)
CONSTANTS Users, Orgs, Parts, NoOrg

VARIABLES
    belongs,        \* the organization of each user
    content         \* what exists of each organization

Workspace == <<belongs, content>>

WorkspacesInit ==
    /\ belongs = [u \in Users |-> NoOrg]
    /\ content = [o \in Orgs |-> {}]

Found(u, o) ==
    /\ belongs[u] = NoOrg
    /\ content[o] = {}
    /\ belongs' = [belongs EXCEPT ![u] = o]
    /\ content' = [content EXCEPT ![o] = Parts]

WorkspacesSpec ==
    WorkspacesInit /\ [][\E u \in Users, o \in Orgs : Found(u, o)]_Workspace
=============================================================================
