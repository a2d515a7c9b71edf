----------------------------- MODULE MCHoldings -----------------------------
(***************************************************************************)
(* Instances for TLC of what the system holds for the owner: checkpoints,  *)
(* the Git index, encrypted rows, secrets, and Codex and GitHub credentials.*)
(*                                                                         *)
(* The parts share no state.  A behaviour is one of one part, which `part` *)
(* names from the start, while the others stay in their initial states: a  *)
(* run explores the state space of every part.                             *)
(***************************************************************************)
EXTENDS Checkpoints, GitIndex, KeyRotation, SecretGrants, CodexAuth, GitHubAuthority

VARIABLE part   \* the part of the system this behaviour is about

Parts == {"checkpoints", "git", "rotation", "secrets", "codex", "github"}
partVars == <<part, checkpointVars, gitVars, rotationVars, grantVars, codexVars,
              authorityVars>>

Init ==
    /\ part \in Parts
    /\ CheckpointsInit
    /\ GitIndexInit
    /\ KeyRotationInit
    /\ SecretGrantsInit
    /\ CodexAuthInit
    /\ AuthorityInit
    /\ part # "checkpoints" => jsons = {}
    /\ part # "rotation" => \A r \in Rows : envelope[r] = NoKey
    /\ part # "rotation" => keyFile = CHOOSE k \in MasterKeys : TRUE
    /\ part # "secrets" => \A s \in Secrets : value[s] = 0
    /\ part # "github" => ~install.known

Next ==
    /\ UNCHANGED part
    /\ \/ /\ part = "checkpoints" /\ CheckpointsNext
          /\ UNCHANGED <<gitVars, rotationVars, grantVars, codexVars, authorityVars>>
       \/ /\ part = "git" /\ GitIndexNext
          /\ UNCHANGED <<checkpointVars, rotationVars, grantVars, codexVars,
                         authorityVars>>
       \/ /\ part = "rotation" /\ KeyRotationNext
          /\ UNCHANGED <<checkpointVars, gitVars, grantVars, codexVars, authorityVars>>
       \/ /\ part = "secrets" /\ SecretGrantsNext
          /\ UNCHANGED <<checkpointVars, gitVars, rotationVars, codexVars,
                         authorityVars>>
       \/ /\ part = "codex" /\ CodexAuthNext
          /\ UNCHANGED <<checkpointVars, gitVars, rotationVars, grantVars,
                         authorityVars>>
       \/ /\ part = "github" /\ AuthorityNext
          /\ UNCHANGED <<checkpointVars, gitVars, rotationVars, grantVars, codexVars>>

Spec == Init /\ [][Next]_partVars

\* Interchangeable values of the parts; they are drawn from the same two or
\* three pools of model values, so that one permutation serves every part.
Symmetry == Permutations(Natives) \cup Permutations(Secrets)
=============================================================================
