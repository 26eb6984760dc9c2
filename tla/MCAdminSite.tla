---------------------------- MODULE MCAdminSite ----------------------------
(* Constants for the run of AdminSite. *)
EXTENDS AdminSite

MCWorkspaceOf == [f \in Forms |-> CHOOSE ws \in Workspaces : TRUE]
=============================================================================
