------------------------------ MODULE MCAccess ------------------------------
(***************************************************************************)
(* Instances for TLC of what admits, enrols and revokes an owner's devices.*)
(*                                                                         *)
(* The parts share no state.  A behaviour is one of one part, which `part` *)
(* names from the start, while the others stay in their initial states: a  *)
(* run explores the state space of every part.                             *)
(***************************************************************************)
EXTENDS LoginAdmission, Sessions, Enrollment, Previews, Notifications, TLC

VARIABLE part   \* the part of the system this behaviour is about

Parts == {"admission", "sessions", "enrollment", "previews", "notifications"}
partVars == <<part, admissionVars, sessionVars, enrollmentVars, previewVars,
              notificationVars>>

Init ==
    /\ part \in Parts
    /\ AdmissionInit
    /\ SessionsInit
    /\ EnrollmentInit
    /\ PreviewsInit
    /\ NotificationsInit
    /\ part # "admission" => storedApps = {}
    /\ part # "sessions" => \A f, g \in Families : family[f] = family[g]
    /\ part # "previews" => listed = {}

Next ==
    /\ UNCHANGED part
    /\ \/ /\ part = "admission" /\ AdmissionNext
          /\ UNCHANGED <<sessionVars, enrollmentVars, previewVars, notificationVars>>
       \/ /\ part = "sessions" /\ SessionsNext
          /\ UNCHANGED <<admissionVars, enrollmentVars, previewVars, notificationVars>>
       \/ /\ part = "enrollment" /\ EnrollmentNext
          /\ UNCHANGED <<admissionVars, sessionVars, previewVars, notificationVars>>
       \/ /\ part = "previews" /\ PreviewsNext
          /\ UNCHANGED <<admissionVars, sessionVars, enrollmentVars, notificationVars>>
       \/ /\ part = "notifications" /\ NotificationsNext
          /\ UNCHANGED <<admissionVars, sessionVars, enrollmentVars, previewVars>>

Spec == Init /\ [][Next]_partVars

\* Interchangeable values of the parts; they are drawn from the same two or
\* three pools of model values, so that one permutation serves every part.
Symmetry == Permutations(Apps) \cup Permutations(Calls) \cup Permutations(CeremonyIds)
=============================================================================
