------------------------- MODULE SetupReviewProofs -------------------------
(***************************************************************************)
(* Proofs about SetupReview, for any number of calls that decide reviews.  *)
(*                                                                         *)
(* SetupInvariant is inductive: one lemma for the workspace's own steps,   *)
(* one for the reconciler and one for each step of Application.            *)
(* ResolveApproval.                                                        *)
(***************************************************************************)
EXTENDS SetupReview, TLAPS, FiniteSetTheorems

Statuses == {"requested", "approved", "denied"}
DecisionRecord == [at : {"idle", "read", "deciding", "decided"},
                   decision : {"none", "approved", "denied"}, review : 0 .. MaxReviews]

LEMMA InitSetup == SetupInit => SetupInvariant
BY SetupReviewAssumption DEF SetupInit, SetupInvariant, SetupTypeOK, SoundDecision, NoDecision, OpenReviews

\* Where the reviews stay as they are and the decisions hold, so does the rest.
LEMMA DecisionsKeepSetup ==
    ASSUME SetupInvariant, NEW k \in Resolvers, NEW x \in DecisionRecord, ResolverIs(k, x),
           UNCHANGED <<reviews, announced>>,
           setup' \in [state : {"provisioning", "awaiting", "running", "failed", "denied"}, approved : BOOLEAN],
           setup.approved => setup'.approved,
           deniedOnce \subseteq deniedOnce', deniedOnce' \subseteq DOMAIN reviews,
           setup'.state = "denied" => OpenReviews \subseteq deniedOnce',
           SoundDecision(x)'
    PROVE  SetupInvariant'
<1>1. /\ resolver' \in [Resolvers -> DecisionRecord] /\ resolver'[k] = x
      /\ \A u \in Resolvers \ {k} : resolver'[u] = resolver[u]
  BY DEF ResolverIs, SetupInvariant, SetupTypeOK, DecisionRecord
<1>2. SetupTypeOK'
  BY <1>1 DEF SetupInvariant, SetupTypeOK, DecisionRecord
<1>3. OpenReviews' = OpenReviews
  BY DEF OpenReviews
<1>4. \A u \in Resolvers \ {k} : SoundDecision(resolver[u])'
  BY <1>1, <1>3 DEF SetupInvariant, SoundDecision
<1>5. SoundDecision(resolver[k])'
  BY <1>1, <1>3 DEF SoundDecision
<1>6. \A n \in DOMAIN reviews' :
        /\ reviews'[n] = "approved" => setup'.approved
        /\ reviews'[n] = "denied" => n \in deniedOnce'
  BY DEF SetupInvariant
<1> QED BY <1>2, <1>3, <1>4, <1>5, <1>6 DEF SetupInvariant

\* The workspace provisions, fails, and is tried again.
LEMMA WorkspaceKeepsSetup ==
    ASSUME SetupInvariant, Provision \/ RetrySetup
    PROVE  SetupInvariant'
<1>1. PICK s \in {"running", "awaiting", "failed", "provisioning"} : setup' = [setup EXCEPT !.state = s]
  BY DEF Provision, RetrySetup
<1>2. UNCHANGED <<reviews, announced, resolver, deniedOnce>>
  BY DEF Provision, RetrySetup
<1>3. /\ setup' \in [state : {"provisioning", "awaiting", "running", "failed", "denied"}, approved : BOOLEAN]
      /\ setup'.state # "denied" /\ setup'.approved = setup.approved
  BY <1>1 DEF SetupInvariant, SetupTypeOK
<1>4. OpenReviews' = OpenReviews
  BY <1>2 DEF OpenReviews
<1>5. SetupTypeOK'
  BY <1>2, <1>3 DEF SetupInvariant, SetupTypeOK
<1>6. \A k \in Resolvers : SoundDecision(resolver[k])'
  BY <1>2, <1>3, <1>4 DEF SetupInvariant, SoundDecision
<1> QED BY <1>2, <1>3, <1>4, <1>5, <1>6 DEF SetupInvariant

\* The reconciler creates a review only when none is open.
LEMMA EnsureKeepsSetup ==
    ASSUME SetupInvariant, Ensure
    PROVE  SetupInvariant'
<1>1. /\ setup.state = "awaiting" /\ UNCHANGED <<setup, resolver, deniedOnce>>
      /\ announced' = announced \cup {n \in DOMAIN reviews' : reviews'[n] = "requested"}
  BY DEF Ensure
<1>2. CASE OpenReviews # {} /\ reviews' = reviews
  <2>1. OpenReviews' = OpenReviews
    BY <1>2 DEF OpenReviews
  <2>2. SetupTypeOK'
    BY <1>1, <1>2 DEF SetupInvariant, SetupTypeOK
  <2>3. \A k \in Resolvers : SoundDecision(resolver[k])'
    BY <1>1, <1>2, <2>1 DEF SetupInvariant, SoundDecision
  <2> QED BY <1>1, <1>2, <2>1, <2>2, <2>3 DEF SetupInvariant
<1>3. CASE OpenReviews = {} /\ Len(reviews) < MaxReviews /\ reviews' = Append(reviews, "requested")
  <2>0. reviews \in Seq(Statuses) /\ Len(reviews) \in Nat /\ DOMAIN reviews = 1..Len(reviews)
    BY DEF SetupInvariant, SetupTypeOK, Statuses
  <2>1. /\ reviews' \in Seq(Statuses) /\ Len(reviews') = Len(reviews) + 1
        /\ DOMAIN reviews' = DOMAIN reviews \cup {Len(reviews) + 1}
        /\ \A n \in DOMAIN reviews : reviews'[n] = reviews[n]
        /\ reviews'[Len(reviews) + 1] = "requested"
    BY <1>3, <2>0 DEF Statuses
  <2>2. OpenReviews' = {Len(reviews) + 1}
    BY <1>3, <2>1 DEF OpenReviews
  <2>3. SetupTypeOK'
    BY <1>1, <1>3, <2>1, SetupReviewAssumption DEF SetupInvariant, SetupTypeOK, Statuses
  <2>4. \A k \in Resolvers : resolver[k].at # "idle" => resolver[k].review # Len(reviews) + 1
    BY <2>0 DEF SetupInvariant, SoundDecision
  <2>5. \A k \in Resolvers : SoundDecision(resolver[k])'
    BY <1>1, <2>1, <2>2, <2>4 DEF SetupInvariant, SoundDecision
  <2>6. \A n \in DOMAIN reviews' :
          /\ reviews'[n] = "approved" => setup'.approved
          /\ reviews'[n] = "denied" => n \in deniedOnce'
    BY <1>1, <2>1 DEF SetupInvariant
  <2> QED BY <1>1, <2>2, <2>3, <2>5, <2>6 DEF SetupInvariant
<1> QED BY <1>2, <1>3 DEF Ensure

\* A call reads an open review and then the workspace.
LEMMA ReadsKeepSetup ==
    ASSUME SetupInvariant, NEW k \in Resolvers,
           \/ \E n \in DOMAIN reviews, d \in {"approved", "denied"} : ResolveBegins(k, n, d)
           \/ ReadSetup(k)
    PROVE  SetupInvariant'
<1>0. resolver[k] \in DecisionRecord /\ SoundDecision(resolver[k])
  BY DEF SetupInvariant, SetupTypeOK, DecisionRecord
<1>1. ASSUME NEW n \in DOMAIN reviews, NEW d \in {"approved", "denied"}, ResolveBegins(k, n, d)
      PROVE  SetupInvariant'
  <2> DEFINE x == [at |-> "read", decision |-> d, review |-> n]
  <2>1. ResolverIs(k, x) /\ UNCHANGED <<setup, reviews, announced, deniedOnce>>
    BY <1>1 DEF ResolveBegins
  <2>2. x \in DecisionRecord
    BY SetupReviewAssumption DEF SetupInvariant, SetupTypeOK, DecisionRecord
  <2>3. SoundDecision(x)'
    BY <2>1 DEF SoundDecision
  <2> HIDE DEF x
  <2> QED BY <2>1, <2>2, <2>3, DecisionsKeepSetup DEF SetupInvariant, SetupTypeOK
<1>2. CASE ReadSetup(k)
  <2> DEFINE a == IF \/ resolver[k].decision = "approved" /\ setup.approved
                     \/ resolver[k].decision = "denied" /\ setup.state = "denied"
                  THEN "decided" ELSE "deciding"
  <2>0. PICK x : x = [resolver[k] EXCEPT !.at = a]
    OBVIOUS
  <2>1. ResolverIs(k, x) /\ resolver[k].at = "read" /\ UNCHANGED <<setup, reviews, announced, deniedOnce>>
    BY <1>2, <2>0 DEF ReadSetup
  <2>2. /\ a \in {"decided", "deciding"}
        /\ a = "decided" => \/ resolver[k].decision = "approved" /\ setup.approved
                            \/ resolver[k].decision = "denied" /\ setup.state = "denied"
    OBVIOUS
  <2> HIDE DEF a
  <2>3. x \in DecisionRecord /\ x.at = a /\ x.decision = resolver[k].decision /\ x.review = resolver[k].review
    BY <1>0, <2>0, <2>2 DEF DecisionRecord
  <2>4. OpenReviews' = OpenReviews
    BY <2>1 DEF OpenReviews
  <2>5. SoundDecision(x)'
    BY <1>0, <2>1, <2>2, <2>3, <2>4 DEF SoundDecision, SetupInvariant
  <2> QED BY <2>1, <2>3, <2>5, DecisionsKeepSetup DEF SetupInvariant, SetupTypeOK
<1> QED BY <1>1, <1>2

\* The decision is made durable on the workspace, or fails.
LEMMA DecidingKeepsSetup ==
    ASSUME SetupInvariant, NEW k \in Resolvers, ApproveSetup(k) \/ ApproveFails(k) \/ DenySetup(k)
    PROVE  SetupInvariant'
<1>x. PICK x : x = [resolver[k] EXCEPT !.at = "decided"]
  OBVIOUS
<1>0. /\ resolver[k] \in DecisionRecord /\ SoundDecision(resolver[k])
      /\ setup \in [state : {"provisioning", "awaiting", "running", "failed", "denied"}, approved : BOOLEAN]
  BY DEF SetupInvariant, SetupTypeOK, DecisionRecord
<1>1. x \in DecisionRecord /\ x.at = "decided" /\ x.decision = resolver[k].decision /\ x.review = resolver[k].review
  BY <1>0, <1>x DEF DecisionRecord
<1>2. NoDecision \in DecisionRecord /\ NoDecision.at = "idle"
  BY SetupReviewAssumption DEF NoDecision, DecisionRecord
<1>3. resolver[k].at = "deciding" /\ UNCHANGED <<reviews, announced>>
  BY DEF ApproveSetup, ApproveFails, DenySetup
<1>4. OpenReviews' = OpenReviews
  BY <1>3 DEF OpenReviews
<1>5. CASE ApproveSetup(k)
  <2>1. /\ ResolverIs(k, x) /\ resolver[k].decision = "approved" /\ UNCHANGED deniedOnce
        /\ \/ setup.approved /\ setup' = setup
           \/ setup' = [state |-> "provisioning", approved |-> TRUE]
    BY <1>5, <1>x DEF ApproveSetup
  <2>2. /\ setup' \in [state : {"provisioning", "awaiting", "running", "failed", "denied"}, approved : BOOLEAN]
        /\ setup'.approved /\ (setup'.state = "denied" => setup.state = "denied")
    <3>1. CASE setup.approved /\ setup' = setup
      BY <1>0, <3>1
    <3>2. CASE setup' = [state |-> "provisioning", approved |-> TRUE]
      BY <3>2
    <3> QED BY <2>1, <3>1, <3>2
  <2>3. SoundDecision(x)'
    BY <1>0, <1>1, <1>3, <2>1, <2>2 DEF SoundDecision
  <2> QED BY <1>1, <1>3, <2>1, <2>2, <2>3, DecisionsKeepSetup DEF SetupInvariant, SetupTypeOK
<1>6. CASE ApproveFails(k)
  <2>1. /\ resolver[k].decision = "approved" /\ UNCHANGED <<setup, deniedOnce>>
        /\ ResolverIs(k, IF setup.approved THEN x ELSE NoDecision)
    BY <1>6, <1>x DEF ApproveFails
  <2>2. CASE setup.approved
    <3>1. SoundDecision(x)'
      BY <1>0, <1>1, <1>3, <2>1, <2>2 DEF SoundDecision
    <3> QED BY <1>1, <1>3, <2>1, <2>2, <3>1, DecisionsKeepSetup DEF SetupInvariant, SetupTypeOK
  <2>3. CASE ~setup.approved
    <3>1. SoundDecision(NoDecision)'
      BY DEF NoDecision, SoundDecision
    <3> QED BY <1>2, <1>3, <2>1, <2>3, <3>1, DecisionsKeepSetup DEF SetupInvariant, SetupTypeOK
  <2> QED BY <2>2, <2>3
<1>7. CASE DenySetup(k)
  <2>1. /\ ResolverIs(k, x) /\ resolver[k].decision = "denied" /\ deniedOnce' = deniedOnce \cup OpenReviews
        /\ \/ setup.state = "denied" /\ setup' = setup
           \/ setup' = [setup EXCEPT !.state = "denied"]
    BY <1>7, <1>x DEF DenySetup
  <2>2. /\ setup' \in [state : {"provisioning", "awaiting", "running", "failed", "denied"}, approved : BOOLEAN]
        /\ setup'.approved = setup.approved
    BY <1>0, <2>1
  <2>3. SoundDecision(x)'
    BY <1>0, <1>1, <1>3, <1>4, <2>1 DEF SoundDecision
  <2>4. OpenReviews \subseteq DOMAIN reviews
    BY DEF OpenReviews
  <2> QED BY <1>1, <1>3, <2>1, <2>2, <2>3, <2>4, DecisionsKeepSetup DEF SetupInvariant, SetupTypeOK
<1> QED BY <1>5, <1>6, <1>7

\* The review is resolved by a decision that holds.
LEMMA ResolvingKeepsSetup ==
    ASSUME SetupInvariant, NEW k \in Resolvers, ResolveEvent(k)
    PROVE  SetupInvariant'
<1> DEFINE m == resolver[k].review
           d == resolver[k].decision
           v == IF reviews[m] = "requested" THEN d ELSE reviews[m]
<1>0. /\ resolver[k] \in DecisionRecord /\ SoundDecision(resolver[k]) /\ resolver[k].at = "decided"
      /\ reviews \in Seq(Statuses) /\ DOMAIN reviews = 1..Len(reviews) /\ Len(reviews) \in Nat
  BY DEF SetupInvariant, SetupTypeOK, DecisionRecord, ResolveEvent, Statuses
<1>1. m \in DOMAIN reviews /\ d \in {"approved", "denied"}
  BY <1>0 DEF SoundDecision, DecisionRecord
<1>2. v \in Statuses /\ (v = "requested" => reviews[m] = "requested")
  BY <1>0, <1>1 DEF Statuses
<1>3. /\ reviews' = [reviews EXCEPT ![m] = v] /\ ResolverIs(k, NoDecision)
      /\ UNCHANGED <<setup, announced, deniedOnce>>
  BY DEF ResolveEvent
<1>4. v = "approved" => setup.approved
  BY <1>0, <1>1 DEF SoundDecision, SetupInvariant
<1>5. v = "denied" => m \in deniedOnce
  BY <1>0, <1>1 DEF SoundDecision, SetupInvariant, OpenReviews
<1> HIDE DEF v
<1>6. /\ reviews' \in Seq(Statuses) /\ Len(reviews') = Len(reviews) /\ DOMAIN reviews' = DOMAIN reviews
      /\ reviews'[m] = v /\ \A n \in DOMAIN reviews \ {m} : reviews'[n] = reviews[n]
  BY <1>0, <1>1, <1>2, <1>3
<1>7. OpenReviews' \subseteq OpenReviews
  BY <1>2, <1>6 DEF OpenReviews
<1>8. NoDecision \in DecisionRecord /\ NoDecision.at = "idle"
  BY SetupReviewAssumption DEF NoDecision, DecisionRecord
<1>9. /\ resolver' \in [Resolvers -> DecisionRecord] /\ resolver'[k] = NoDecision
      /\ \A u \in Resolvers \ {k} : resolver'[u] = resolver[u]
  BY <1>3, <1>8 DEF ResolverIs, SetupInvariant, SetupTypeOK, DecisionRecord
<1>10. SetupTypeOK'
  BY <1>3, <1>6, <1>9 DEF SetupInvariant, SetupTypeOK, DecisionRecord, Statuses
<1>11. \A u \in Resolvers \ {k} : SoundDecision(resolver[u])'
  BY <1>3, <1>6, <1>7, <1>9 DEF SetupInvariant, SoundDecision
<1>12. SoundDecision(resolver[k])'
  BY <1>8, <1>9 DEF SoundDecision
<1>13. \A n \in DOMAIN reviews' :
        /\ reviews'[n] = "approved" => setup'.approved
        /\ reviews'[n] = "denied" => n \in deniedOnce'
  BY <1>3, <1>4, <1>5, <1>6 DEF SetupInvariant
<1> QED BY <1>3, <1>7, <1>10, <1>11, <1>12, <1>13 DEF SetupInvariant

LEMMA EndKeepsSetup ==
    ASSUME SetupInvariant, NEW k \in Resolvers, ResolveEnds(k)
    PROVE  SetupInvariant'
<1>1. ResolverIs(k, NoDecision) /\ UNCHANGED <<setup, reviews, announced, deniedOnce>>
  BY DEF ResolveEnds
<1>2. NoDecision \in DecisionRecord /\ SoundDecision(NoDecision)'
  BY SetupReviewAssumption DEF NoDecision, DecisionRecord, SoundDecision
<1> QED BY <1>1, <1>2, DecisionsKeepSetup DEF SetupInvariant, SetupTypeOK

LEMMA StutterKeepsSetup ==
    ASSUME SetupInvariant, UNCHANGED setupVars
    PROVE  SetupInvariant'
BY DEF setupVars, SetupInvariant, SetupTypeOK, SoundDecision, OpenReviews

LEMMA StepsKeepSetup == SetupInvariant /\ [SetupNext]_setupVars => SetupInvariant'
<1> SUFFICES ASSUME SetupInvariant, [SetupNext]_setupVars PROVE SetupInvariant'
  OBVIOUS
<1>1. CASE Provision \/ RetrySetup
  BY <1>1, WorkspaceKeepsSetup
<1>2. CASE Ensure
  BY <1>2, EnsureKeepsSetup
<1>3. CASE \E k \in Resolvers :
             \/ \E n \in DOMAIN reviews, d \in {"approved", "denied"} : ResolveBegins(k, n, d)
             \/ ReadSetup(k)
  BY <1>3, ReadsKeepSetup
<1>4. CASE \E k \in Resolvers : ApproveSetup(k) \/ ApproveFails(k) \/ DenySetup(k)
  BY <1>4, DecidingKeepsSetup
<1>5. CASE \E k \in Resolvers : ResolveEvent(k)
  BY <1>5, ResolvingKeepsSetup
<1>6. CASE \E k \in Resolvers : ResolveEnds(k)
  BY <1>6, EndKeepsSetup
<1>7. CASE UNCHANGED setupVars
  BY <1>7, StutterKeepsSetup
<1> QED BY <1>1, <1>2, <1>3, <1>4, <1>5, <1>6, <1>7 DEF SetupNext

LEMMA OneOpenReview ==
    ASSUME SetupInvariant
    PROVE  Cardinality(OpenReviews) <= 1
<1>1. CASE OpenReviews = {}
  BY <1>1, FS_EmptySet
<1>2. CASE OpenReviews # {}
  <2>1. PICK n : n \in OpenReviews
    BY <1>2
  <2>2. OpenReviews = {n}
    BY <2>1 DEF SetupInvariant
  <2> QED BY <2>2, FS_Singleton
<1> QED BY <1>1, <1>2

(* For any number of devices deciding at once, with calls that fail or stop at *)
(* any step: a review is resolved only with the decision that is durable on    *)
(* the workspace, and there are never two open ones (ResolveApproval,          *)
(* EnsureSetupReview).                                                         *)
THEOREM ReviewsAreDecidedOnce == SetupSpec => []ReviewMatchesDecision
<1>1. SetupInvariant => ReviewMatchesDecision
  BY OneOpenReview DEF SetupInvariant, ReviewMatchesDecision
<1> QED BY <1>1, InitSetup, StepsKeepSetup, PTL DEF SetupSpec
=============================================================================
