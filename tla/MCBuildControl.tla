-------------------------- MODULE MCBuildControl ---------------------------
(***************************************************************************)
(* Small instances of BuildControl: one workspace, because the workspaces  *)
(* share nothing but the coordinator's slot.                               *)
(***************************************************************************)
EXTENDS BuildControl, TLC

CONSTANTS w1, b1, b2, k1, k2

MCWorkspaces  == {w1}
MCBuilds      == {b1, b2}
MCWorkspaceOf == [b \in MCBuilds |-> w1]

\* Two conversations, so that either Build may be reverted.
MCConversations  == {k1, k2}
MCConversationOf == (b1 :> k1) @@ (b2 :> k2)

=============================================================================
