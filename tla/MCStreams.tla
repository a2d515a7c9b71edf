----------------------------- MODULE MCStreams ------------------------------
(***************************************************************************)
(* Instances for TLC of what a terminal tab carries: input and receipts,   *)
(* output and its replay, and the initial prompt.                          *)
(*                                                                         *)
(* The parts share no state.  A behaviour is one of one part, which `part` *)
(* names from the start, while the others stay in their initial states: a  *)
(* run explores the state space of every part.                             *)
(***************************************************************************)
EXTENDS TerminalInput, TerminalReplay, InitialPrompt, TLC

VARIABLE part   \* the part of the system this behaviour is about

Parts == {"input", "replay", "prompt"}
partVars == <<part, inputVars, replayVars, promptVars>>

Init ==
    /\ part \in Parts
    /\ InputInit
    /\ ReplayInit
    /\ PromptInit

Next ==
    /\ UNCHANGED part
    /\ \/ /\ part = "input" /\ InputNext
          /\ UNCHANGED <<replayVars, promptVars>>
       \/ /\ part = "replay" /\ ReplayNext
          /\ UNCHANGED <<inputVars, promptVars>>
       \/ /\ part = "prompt" /\ PromptNext
          /\ UNCHANGED <<inputVars, replayVars>>

Spec == Init /\ [][Next]_partVars

\* Interchangeable values of the parts; they are drawn from the same two or
\* three pools of model values, so that one permutation serves every part.
Symmetry == Permutations(Phones) \cup Permutations(Links) \cup Permutations(Drafts)
=============================================================================
