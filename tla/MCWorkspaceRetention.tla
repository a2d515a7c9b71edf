----------------------- MODULE MCWorkspaceRetention -----------------------
(* Small instances of WorkspaceRetention for TLC. *)
EXTENDS WorkspaceRetention
=============================================================================
