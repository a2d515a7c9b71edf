---------------------------- MODULE SetupReview ----------------------------
(***************************************************************************)
(* Reviews of repository setup (setupreview/reconciler.go,                 *)
(* ApplicationStore.EnsureSetupReview / ResolveSafetyEvent, and            *)
(* Application.ResolveApproval): one workspace reaches the stopped setup   *)
(* boundary, is given a durable review, and several devices decide it.     *)
(*                                                                         *)
(* The workspace is its setup flag and the part of its state the reviews   *)
(* depend on; WorkspaceService has the rest.  "provisioning" stands for a  *)
(* queued workspace too.                                                   *)
(***************************************************************************)
EXTENDS Integers, FiniteSets, Sequences

CONSTANTS
    Resolvers,      \* ResolveApproval calls
    MaxReviews      \* bound: reviews ever created

ASSUME SetupReviewAssumption == MaxReviews \in Nat \ {0}

VARIABLES
    setup,          \* the workspace: [state, approved]
    reviews,        \* safety events in creation order: "requested", "approved" or "denied"
    announced,      \* reviews whose activity row exists
    resolver,       \* ResolveApproval calls: step, decision, review
    deniedOnce         \* history: reviews open while the workspace's setup was denied

setupVars == <<setup, reviews, announced, resolver, deniedOnce>>

NoDecision == [at |-> "idle", decision |-> "none", review |-> 0]
OpenReviews == {n \in DOMAIN reviews : reviews[n] = "requested"}
ResolverIs(k, record) == resolver' = [resolver EXCEPT ![k] = record]

-----------------------------------------------------------------------------
(* The workspace *)

\* provision: repository setup that was not approved stops at the boundary,
\* approved setup runs to the end, and any attempt may fail.
Provision ==
    /\ setup.state = "provisioning"
    /\ \E s \in {IF setup.approved THEN "running" ELSE "awaiting", "failed"} :
        setup' = [setup EXCEPT !.state = s]
    /\ UNCHANGED <<reviews, announced, resolver, deniedOnce>>

\* Retry of a failed workspace, a denied one included; or the start of one that
\* was suspended.
RetrySetup ==
    /\ setup.state \in {"failed", "denied", "running"}
    /\ setup' = [setup EXCEPT !.state = "provisioning"]
    /\ UNCHANGED <<reviews, announced, resolver, deniedOnce>>

-----------------------------------------------------------------------------
(* Reconciler.Ensure *)

\* The event and its activity as two writes, the second of which may be lost.
EnsureHalfMutant ==
    /\ setup.state = "awaiting" /\ OpenReviews = {} /\ Len(reviews) < MaxReviews
    /\ reviews' = Append(reviews, "requested")
    /\ announced' \in {announced, announced \cup {Len(reviews) + 1}}
    /\ UNCHANGED <<setup, resolver, deniedOnce>>

\* With the workspace row locked and still awaiting: the open review is kept or
\* one is created, and so is its activity.
Ensure ==
    /\ setup.state = "awaiting"
    /\ \/ OpenReviews # {} /\ reviews' = reviews
       \/ /\ OpenReviews = {} /\ Len(reviews) < MaxReviews
          /\ reviews' = Append(reviews, "requested")
    /\ announced' = announced \cup {n \in DOMAIN reviews' : reviews'[n] = "requested"}
    /\ UNCHANGED <<setup, resolver, deniedOnce>>

-----------------------------------------------------------------------------
(* Application.ResolveApproval *)

\* The event is read: one that is already decided ends the call at once.  The
\* last review within the bound is not denied.
ResolveBegins(k, n, d) ==
    /\ resolver[k].at = "idle" /\ reviews[n] = "requested"
    /\ n = MaxReviews => d = "approved"
    /\ ResolverIs(k, [at |-> "read", decision |-> d, review |-> n])
    /\ UNCHANGED <<setup, reviews, announced, deniedOnce>>

\* The workspace is read: a decision that is durable already is not repeated.
ReadSetup(k) ==
    /\ resolver[k].at = "read"
    /\ ResolverIs(k, [resolver[k] EXCEPT
           !.at = IF \/ resolver[k].decision = "approved" /\ setup.approved
                     \/ resolver[k].decision = "denied" /\ setup.state = "denied"
                  THEN "decided" ELSE "deciding"])
    /\ UNCHANGED <<setup, reviews, announced, deniedOnce>>

\* Service.ApproveSetup under the workspace gate: approved already, or the flag
\* and the reservation in one save.
ApproveSetup(k) ==
    /\ resolver[k].at = "deciding" /\ resolver[k].decision = "approved"
    /\ \/ setup.approved /\ setup' = setup
       \/ /\ setup.state = "awaiting"
          /\ setup' = [state |-> "provisioning", approved |-> TRUE]
    /\ ResolverIs(k, [resolver[k] EXCEPT !.at = "decided"])
    /\ UNCHANGED <<reviews, announced, deniedOnce>>

ApproveFailsMutant(k) ==
    /\ resolver[k].at = "deciding" /\ resolver[k].decision = "approved"
    /\ ResolverIs(k, [resolver[k] EXCEPT !.at = "decided"])
    /\ UNCHANGED <<setup, reviews, announced, deniedOnce>>

\* ApproveSetup returned an error: the decision counts if the flag was persisted.
ApproveFails(k) ==
    /\ resolver[k].at = "deciding" /\ resolver[k].decision = "approved"
    /\ ResolverIs(k, IF setup.approved THEN [resolver[k] EXCEPT !.at = "decided"] ELSE NoDecision)
    /\ UNCHANGED <<setup, reviews, announced, deniedOnce>>

\* Service.DenySetup under the workspace gate.
DenySetup(k) ==
    /\ resolver[k].at = "deciding" /\ resolver[k].decision = "denied"
    /\ \/ setup.state = "denied" /\ setup' = setup
       \/ /\ setup.state = "awaiting" /\ ~setup.approved
          /\ setup' = [setup EXCEPT !.state = "denied"]
    /\ deniedOnce' = deniedOnce \cup OpenReviews
    /\ ResolverIs(k, [resolver[k] EXCEPT !.at = "decided"])
    /\ UNCHANGED <<reviews, announced>>

\* Under the application gate the event is read again and ResolveSafetyEvent
\* compares and sets it; a conflicting decision fails.
ResolveEvent(k) ==
    /\ resolver[k].at = "decided"
    /\ reviews' = [reviews EXCEPT ![resolver[k].review] =
           IF @ = "requested" THEN resolver[k].decision ELSE @]
    /\ ResolverIs(k, NoDecision)
    /\ UNCHANGED <<setup, announced, deniedOnce>>

\* The call fails, or the process stops, between any two of its steps.
ResolveEnds(k) ==
    /\ resolver[k].at # "idle"
    /\ ResolverIs(k, NoDecision)
    /\ UNCHANGED <<setup, reviews, announced, deniedOnce>>

SetupInit ==
    /\ setup = [state |-> "provisioning", approved |-> FALSE]
    /\ reviews = << >> /\ announced = {} /\ deniedOnce = {}
    /\ resolver = [k \in Resolvers |-> NoDecision]

SetupNext ==
    \/ Provision \/ RetrySetup \/ Ensure
    \/ \E k \in Resolvers :
        \/ \E n \in DOMAIN reviews, d \in {"approved", "denied"} : ResolveBegins(k, n, d)
        \/ ReadSetup(k) \/ ApproveSetup(k) \/ ApproveFails(k) \/ DenySetup(k)
        \/ ResolveEvent(k) \/ ResolveEnds(k)

\* Every scan of the lifecycle coordinator reconciles awaiting workspaces.
SetupSpec == SetupInit /\ [][SetupNext]_setupVars /\ WF_setupVars(Ensure)

SetupTypeOK ==
    /\ setup \in [state : {"provisioning", "awaiting", "running", "failed", "denied"},
                  approved : BOOLEAN]
    /\ reviews \in Seq({"requested", "approved", "denied"}) /\ Len(reviews) <= MaxReviews
    /\ announced \subseteq DOMAIN reviews /\ deniedOnce \subseteq DOMAIN reviews
    /\ resolver \in [Resolvers ->
           [at : {"idle", "read", "deciding", "decided"},
            decision : {"none", "approved", "denied"}, review : 0 .. MaxReviews]]

\* A review is resolved only once the decision was durable on the workspace: an
\* approved one means the setup is approved, a denied one that it was denied
\* while the review was open; and a workspace never has two open reviews
\* (ResolveApproval, EnsureSetupReview).
ReviewMatchesDecision ==
    /\ Cardinality(OpenReviews) <= 1
    /\ \A n \in DOMAIN reviews :
        /\ reviews[n] = "approved" => setup.approved
        /\ reviews[n] = "denied" => n \in deniedOnce

\* What keeps it.  A call past the decision has it on the workspace, where an
\* approval is never taken back; and a review that is open while the workspace
\* is denied was open when it was denied, because none is created then.
SoundDecision(x) ==
    /\ x.at # "idle" => x.decision # "none" /\ x.review \in DOMAIN reviews
    /\ x.at = "decided" /\ x.decision = "approved" => setup.approved
    /\ x.at = "decided" /\ x.decision = "denied" /\ x.review \in OpenReviews => x.review \in deniedOnce
SetupInvariant ==
    /\ SetupTypeOK
    /\ \A m, n \in OpenReviews : m = n
    /\ \A n \in DOMAIN reviews :
        /\ reviews[n] = "approved" => setup.approved
        /\ reviews[n] = "denied" => n \in deniedOnce
    /\ setup.state = "denied" => OpenReviews \subseteq deniedOnce
    /\ \A k \in Resolvers : SoundDecision(resolver[k])

\* A workspace that stays at the setup boundary has an open, announced review in
\* the end, whatever crashed in between (Reconciler.Ensure, the coordinator's
\* scan).
BoundaryIsReviewable ==
    []<>(setup.state # "awaiting" \/ OpenReviews \cap announced # {})

\* What ADR 0019 says of decisions ("serializes decisions for that workspace ...
\* a conflicting decision fails closed"): no review is resolved as denied when
\* its workspace's setup is approved.
ConflictFailsClosed ==
    [][\A n \in DOMAIN reviews :
        reviews[n] = "requested" /\ reviews'[n] = "denied" => ~setup.approved]_setupVars
=============================================================================
