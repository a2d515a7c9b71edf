----------------------------- MODULE MCProgress -----------------------------
(***************************************************************************)
(* Instances for TLC of what must come to an end: calls of the terminal    *)
(* gateway, and the wait of a workspace at the setup boundary.             *)
(*                                                                         *)
(* The two share no state.  A behaviour is one of one of them, which       *)
(* `part` names from the start, while the other stays in its initial       *)
(* state; each is under its own fairness.                                  *)
(***************************************************************************)
EXTENDS Terminal, SetupReview

VARIABLE part

progressVars == <<part, vars, setupVars>>

ProgressInit ==
    /\ part \in {"terminal", "setup"}
    /\ Init /\ SetupInit

ProgressNext ==
    /\ UNCHANGED part
    /\ \/ part = "terminal" /\ Next /\ UNCHANGED setupVars
       \/ part = "setup" /\ SetupNext /\ UNCHANGED vars

\* CallFairness, ConnectionFairness and the fairness of SetupSpec, each for the
\* behaviours of its part.
ProgressFairness ==
    /\ \A d \in Devices :
         /\ SF_vars(part = "terminal" /\ (ConnectLock(d) \/ ConnectGate(d) \/ ConnectReturns(d)))
         /\ WF_vars(part = "terminal" /\ (RevokeSession(d) \/ Sweep(d) \/ RevokeReturns(d)))
    /\ WF_vars(part = "terminal" /\ (Unregister \/ CloseRuntime \/ CloseReturns))
    /\ \A c \in Conns :
         /\ WF_vars(part = "terminal" /\
                (Handler(c) \/ Handling(c) \/ (conn[c].cancelled /\ ReadFails(c))))
         /\ WF_vars(part = "terminal" /\ Writing(c))
    /\ WF_setupVars(part = "setup" /\ Ensure)

ProgressSpec == ProgressInit /\ [][ProgressNext]_progressVars /\ ProgressFairness
=============================================================================
