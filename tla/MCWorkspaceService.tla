------------------------ MODULE MCWorkspaceService ------------------------
(* Small instances of WorkspaceService for TLC. *)
EXTENDS WorkspaceService, TLC

\* Workspaces are interchangeable: no definition tells one from another.
Symmetry == Permutations(Workspaces)
=============================================================================
