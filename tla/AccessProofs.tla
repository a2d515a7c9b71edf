---------------------------- MODULE AccessProofs ----------------------------
(***************************************************************************)
(* Proofs about what admits, enrols and revokes the owner's devices: push  *)
(* endpoints (Notifications), refresh families (Sessions), passkeys and    *)
(* their bootstraps (Enrollment), previews (Previews) and the ceremony     *)
(* table (LoginAdmission).                                                 *)
(***************************************************************************)
EXTENDS Notifications, Sessions, Enrollment, Previews, LoginAdmission, TLAPS,
        FiniteSetTheorems, SequenceTheorems

-----------------------------------------------------------------------------
(* Notifications *)

RegistrationRecord ==
    [at : {"idle", "gated", "locked", "committing"}, phone : SUBSET PushDevices,
     token : SUBSET PushTokens, rotated : SUBSET Endpoints, gate : BOOLEAN]

LEMMA EndpointIsPair ==
    ASSUME NEW e \in Endpoints
    PROVE  e[1] \in PushDevices /\ e[2] \in PushTokens /\ e = <<e[1], e[2]>>
BY DEF Endpoints

LEMMA NoRegistrationIsRecord == NoRegistration \in RegistrationRecord
BY DEF NoRegistration, RegistrationRecord

\* Only the dispatcher moves, and marks can only disable an endpoint.
LEMMA DispatchKeepsEndpoints ==
    ASSUME NotificationsInvariant, EndpointsTypeOK', UNCHANGED <<retired, registration>>,
           \A e \in Endpoints : endpoint'[e] = "enabled" => endpoint[e] = "enabled"
    PROVE  NotificationsInvariant'
<1>1. \A r \in Registrations : SoundCall(r, registration[r])'
  BY DEF NotificationsInvariant, SoundCall
<1> QED BY <1>1 DEF NotificationsInvariant

\* One registration moves on, and no endpoint with it.
LEMMA RegistrationKeepsEndpoints ==
    ASSUME NotificationsInvariant, UNCHANGED <<retired, endpoint>>,
           NEW r \in Registrations, NEW c \in RegistrationRecord, registration' = [registration EXCEPT ![r] = c],
           SoundCall(r, c)
    PROVE  NotificationsInvariant'
<1>1. /\ registration \in [Registrations -> RegistrationRecord] /\ registration'[r] = c
      /\ \A s \in Registrations \ {r} : registration'[s] = registration[s]
      /\ registration' \in [Registrations -> RegistrationRecord]
  BY DEF NotificationsInvariant, EndpointsTypeOK, RegistrationRecord
<1>2. EndpointsTypeOK'
  BY <1>1 DEF NotificationsInvariant, EndpointsTypeOK, RegistrationRecord
<1>3. SoundCall(r, registration[r])'
  BY <1>1 DEF SoundCall
<1>4. ASSUME NEW s \in Registrations \ {r}
      PROVE  SoundCall(s, registration[s])'
  <2>1. SoundCall(s, registration[s]) /\ registration'[s] = registration[s]
    BY <1>1 DEF NotificationsInvariant
  <2>2. ASSUME registration[s].at \in {"locked", "committing"}, NEW u \in Registrations \ {s}, registration'[u].at # "gated"
        PROVE  registration'[u].phone \cap registration[s].phone = {}
    <3>0. /\ c.at = "idle" => c.phone = {}
          /\ c.at \in {"locked", "committing"} => (registration[s].at # "gated" => registration[s].phone \cap c.phone = {})
      BY <1>4 DEF SoundCall
    <3>1. CASE u # r
      BY <1>1, <2>1, <2>2, <3>1 DEF SoundCall
    <3>2. CASE u = r /\ c.at = "idle"
      BY <1>1, <3>0, <3>2
    <3>3. CASE u = r /\ c.at # "idle"
      <4>1. c.at \in {"locked", "committing"}
        BY <1>1, <2>2, <3>3 DEF RegistrationRecord
      <4>2. registration[s].phone \cap c.phone = {}
        BY <2>2, <3>0, <4>1
      <4> QED BY <1>1, <3>3, <4>2
    <3> QED BY <3>1, <3>2, <3>3
  <2> QED BY <2>1, <2>2 DEF SoundCall
<1> QED BY <1>2, <1>3, <1>4 DEF NotificationsInvariant

LEMMA RegisterKeepsEndpoints ==
    ASSUME NotificationsInvariant, NEW r \in Registrations,
           \/ \E p \in PushDevices, t \in PushTokens : RegisterBegins(r, p, t)
           \/ RegisterLocks(r) \/ RegisterRotates(r) \/ RegisterLeaves(r)
    PROVE  NotificationsInvariant'
<1>1. registration[r] \in RegistrationRecord /\ SoundCall(r, registration[r])
  BY DEF NotificationsInvariant, EndpointsTypeOK, RegistrationRecord
<1>2. UNCHANGED <<retired, endpoint>>
  BY DEF RegisterBegins, RegisterLocks, RegisterRotates, RegisterLeaves
<1>3. CASE registration' = [registration EXCEPT ![r] = NoRegistration]
  <2>1. SoundCall(r, NoRegistration)
    BY DEF NoRegistration, SoundCall
  <2> QED BY <1>2, <1>3, <2>1, NoRegistrationIsRecord, RegistrationKeepsEndpoints
<1>4. ASSUME NEW p \in PushDevices, NEW t \in PushTokens, RegisterBegins(r, p, t)
      PROVE  NotificationsInvariant'
  <2> DEFINE c == [at |-> "gated", phone |-> {p}, token |-> {t}, rotated |-> {}, gate |-> TRUE]
  <2>1. registration' = [registration EXCEPT ![r] = c]
    BY <1>4 DEF RegisterBegins, RegistrationIs
  <2>2. c \in RegistrationRecord /\ c.at = "gated" /\ c.phone = {p} /\ c.token = {t}
    BY DEF RegistrationRecord
  <2> HIDE DEF c
  <2>3. SoundCall(r, c)
    BY <2>2 DEF SoundCall
  <2> QED BY <1>2, <2>1, <2>2, <2>3, RegistrationKeepsEndpoints
<1>5. CASE /\ RegisterLocks(r) /\ ~(registration[r].phone \subseteq retired)
           /\ registration' = [registration EXCEPT ![r] = [registration[r] EXCEPT !.at = "locked"]]
  <2> DEFINE c == [registration[r] EXCEPT !.at = "locked"]
  <2>1. /\ c \in RegistrationRecord /\ c.at = "locked" /\ c.phone = registration[r].phone
        /\ c.token = registration[r].token
    BY <1>1 DEF RegistrationRecord
  <2>2. registration' = [registration EXCEPT ![r] = c] /\ registration[r].at = "gated"
    BY <1>5 DEF RegisterLocks
  <2> HIDE DEF c
  <2>3. PICK p \in PushDevices, t \in PushTokens : c.phone = {p} /\ c.token = {t}
    BY <1>1, <2>1, <2>2 DEF SoundCall
  <2>4. p \notin retired /\ DeviceRowFree(p)
    BY <1>5, <2>1, <2>3 DEF RegisterLocks
  <2>5. \A s \in Registrations \ {r} : registration[s].at # "gated" => registration[s].phone \cap c.phone = {}
    BY <2>3, <2>4 DEF DeviceRowFree
  <2>6. SoundCall(r, c)
    BY <2>1, <2>3, <2>4, <2>5 DEF SoundCall
  <2> QED BY <1>2, <2>1, <2>2, <2>6, RegistrationKeepsEndpoints
<1>6. CASE RegisterRotates(r)
  <2> DEFINE R == {e \in Endpoints : /\ e[1] \in registration[r].phone
                                     /\ e[2] \notin registration[r].token
                                     /\ endpoint[e] = "enabled"}
             c == [registration[r] EXCEPT !.at = "committing", !.rotated = R]
  <2>1. registration' = [registration EXCEPT ![r] = c] /\ registration[r].at = "locked"
    BY <1>6 DEF RegisterRotates, RegistrationIs
  <2>2. R \in SUBSET Endpoints
    OBVIOUS
  <2>3. \A e \in Endpoints :
          /\ e \in R => e[1] \in registration[r].phone
          /\ endpoint[e] = "enabled" /\ e[1] \in registration[r].phone /\ e[2] \notin registration[r].token => e \in R
    OBVIOUS
  <2> HIDE DEF R
  <2>4. /\ c \in RegistrationRecord /\ c.at = "committing" /\ c.phone = registration[r].phone
        /\ c.token = registration[r].token /\ c.rotated = R
    BY <1>1, <2>2 DEF RegistrationRecord
  <2> HIDE DEF c
  <2>5. /\ c.phone \cap retired = {}
        /\ \A s \in Registrations \ {r} : registration[s].at # "gated" => registration[s].phone \cap c.phone = {}
        /\ \E p \in PushDevices, t \in PushTokens : c.phone = {p} /\ c.token = {t}
    BY <1>1, <2>1, <2>4 DEF SoundCall
  <2>6. SoundCall(r, c)
    BY <2>3, <2>4, <2>5 DEF SoundCall
  <2> QED BY <1>2, <2>1, <2>4, <2>6, RegistrationKeepsEndpoints
<1>7. CASE /\ registration[r].at = "committing"
           /\ registration' = [registration EXCEPT ![r] = [registration[r] EXCEPT !.gate = FALSE]]
  <2>0. PICK no : no = FALSE
    OBVIOUS
  <2> DEFINE c == [registration[r] EXCEPT !.gate = no]
  <2>1. registration' = [registration EXCEPT ![r] = c] /\ no \in BOOLEAN
    BY <1>7, <2>0
  <2>2. /\ c \in RegistrationRecord /\ c.at = "committing" /\ c.phone = registration[r].phone
        /\ c.token = registration[r].token /\ c.rotated = registration[r].rotated
    BY <1>1, <1>7, <2>1 DEF RegistrationRecord
  <2> HIDE DEF c
  <2>3. SoundCall(r, c)
    BY <1>1, <1>7, <2>2 DEF SoundCall
  <2> QED BY <1>2, <2>1, <2>2, <2>3, RegistrationKeepsEndpoints
<1> QED BY <1>3, <1>4, <1>5, <1>6, <1>7 DEF RegisterLocks, RegisterLeaves, RegistrationIs

\* The upsert: the new token is the only one of its device that is enabled.
LEMMA CommitKeepsEndpoints ==
    ASSUME NotificationsInvariant, NEW r \in Registrations, RegisterCommits(r)
    PROVE  NotificationsInvariant'
<1> DEFINE c == registration[r]
<1>1. /\ c \in RegistrationRecord /\ SoundCall(r, registration[r]) /\ c.at = "committing"
      /\ endpoint \in [Endpoints -> {"none", "enabled", "revoked"}]
      /\ registration \in [Registrations -> RegistrationRecord]
  BY DEF NotificationsInvariant, EndpointsTypeOK, RegistrationRecord, RegisterCommits
<1>2. /\ endpoint' = [e \in Endpoints |-> IF e \in c.phone \X c.token THEN "enabled"
                                          ELSE IF e \in c.rotated THEN "revoked" ELSE endpoint[e]]
      /\ registration' = [registration EXCEPT ![r] = NoRegistration] /\ retired' = retired
  BY DEF RegisterCommits, RegistrationIs
<1>3. PICK p \in PushDevices, t \in PushTokens : c.phone = {p} /\ c.token = {t}
  BY <1>1 DEF SoundCall
<1>4. /\ p \notin retired
      /\ \A s \in Registrations \ {r} : registration[s].at # "gated" => p \notin registration[s].phone
      /\ \A e \in Endpoints : /\ e \in c.rotated => e[1] = p
                              /\ endpoint[e] = "enabled" /\ e[1] = p /\ e[2] # t => e \in c.rotated
  BY <1>1, <1>3 DEF SoundCall
<1>5. \A e \in Endpoints : e \in c.phone \X c.token <=> (e[1] = p /\ e[2] = t)
  BY <1>3, EndpointIsPair
<1>6. \A e \in Endpoints :
        /\ e[1] = p => (endpoint'[e] = "enabled" => e[2] = t)
        /\ e[1] # p => endpoint'[e] = endpoint[e]
  BY <1>2, <1>4, <1>5
<1> HIDE DEF c
<1>7. /\ registration'[r] = NoRegistration /\ registration' \in [Registrations -> RegistrationRecord]
      /\ \A s \in Registrations \ {r} : registration'[s] = registration[s]
  BY <1>1, <1>2, NoRegistrationIsRecord
<1>8. EndpointsTypeOK'
  <2>1. endpoint' \in [Endpoints -> {"none", "enabled", "revoked"}]
    BY <1>1, <1>2
  <2> QED BY <1>2, <1>7, <2>1 DEF NotificationsInvariant, EndpointsTypeOK, RegistrationRecord
<1>9. SoundCall(r, registration[r])'
  BY <1>7 DEF SoundCall, NoRegistration
<1>10. ASSUME NEW s \in Registrations \ {r}
       PROVE  SoundCall(s, registration[s])'
  <2>1. SoundCall(s, registration[s]) /\ registration'[s] = registration[s]
    BY <1>7 DEF NotificationsInvariant
  <2>2. registration[s].at \in {"locked", "committing"} =>
          \A u \in Registrations \ {s} : registration'[u].at # "gated" => registration'[u].phone \cap registration[s].phone = {}
    BY <1>7, <2>1 DEF SoundCall, NoRegistration
  <2>3. ASSUME registration[s].at = "committing", NEW e \in Endpoints, endpoint'[e] = "enabled",
               e[1] \in registration[s].phone, e[2] \notin registration[s].token
        PROVE  e \in registration[s].rotated
    <3>1. e[1] # p
      BY <1>4, <2>3
    <3> QED BY <1>6, <2>1, <2>3, <3>1 DEF SoundCall
  <2>4. registration[s].at = "committing" => \A e \in Endpoints : e \in registration[s].rotated => e[1] \in registration[s].phone
    BY <2>1 DEF SoundCall
  <2> QED BY <1>2, <2>1, <2>2, <2>3, <2>4 DEF SoundCall
<1>11. ASSUME NEW e \in Endpoints, NEW f \in Endpoints, endpoint'[e] = "enabled", endpoint'[f] = "enabled", e[1] = f[1]
       PROVE  e = f
  <2>1. CASE e[1] = p
    <3>1. e[2] = t
      BY <1>6, <1>11, <2>1
    <3>2. f[1] = p
      BY <1>11, <2>1
    <3>3. f[2] = t
      BY <1>6, <1>11, <3>2
    <3>4. e = <<e[1], e[2]>> /\ f = <<f[1], f[2]>>
      BY EndpointIsPair
    <3> QED BY <2>1, <3>1, <3>2, <3>3, <3>4
  <2>2. CASE e[1] # p
    BY <1>6, <1>11, <2>2 DEF NotificationsInvariant
  <2> QED BY <2>1, <2>2
<1>12. \A e \in Endpoints : endpoint'[e] = "enabled" => e[1] \notin retired
  BY <1>4, <1>6 DEF NotificationsInvariant
<1> QED BY <1>2, <1>8, <1>9, <1>10, <1>11, <1>12 DEF NotificationsInvariant

\* A device is revoked with its endpoints, while no registration holds its row.
LEMMA RetireKeepsEndpoints ==
    ASSUME NotificationsInvariant, NEW p \in PushDevices, RetirePhone(p)
    PROVE  NotificationsInvariant'
<1>1. /\ DeviceRowFree(p) /\ retired' = retired \cup {p} /\ registration' = registration
      /\ endpoint' = [e \in Endpoints |-> IF e[1] = p /\ endpoint[e] # "none" THEN "revoked" ELSE endpoint[e]]
      /\ EndpointsTypeOK
  BY DEF RetirePhone, NotificationsInvariant
<1>2. \A e \in Endpoints : endpoint'[e] = "enabled" => endpoint[e] = "enabled" /\ e[1] # p
  BY <1>1
<1>3. EndpointsTypeOK'
  <2>1. endpoint' \in [Endpoints -> {"none", "enabled", "revoked"}]
    BY <1>1 DEF EndpointsTypeOK
  <2> QED BY <1>1, <2>1 DEF EndpointsTypeOK
<1>4. ASSUME NEW r \in Registrations
      PROVE  SoundCall(r, registration[r])'
  <2>1. SoundCall(r, registration[r])
    BY DEF NotificationsInvariant
  <2>2. registration[r].at \in {"locked", "committing"} => registration[r].phone \cap retired' = {}
    BY <1>1, <2>1 DEF SoundCall, DeviceRowFree
  <2> QED BY <1>1, <1>2, <2>1, <2>2 DEF SoundCall
<1>5. \A e, f \in Endpoints : endpoint'[e] = "enabled" /\ endpoint'[f] = "enabled" /\ e[1] = f[1] => e = f
  BY <1>2 DEF NotificationsInvariant
<1>6. \A e \in Endpoints : endpoint'[e] = "enabled" => e[1] \notin retired'
  BY <1>1, <1>2 DEF NotificationsInvariant
<1> QED BY <1>3, <1>4, <1>5, <1>6 DEF NotificationsInvariant

LEMMA DispatcherKeepsEndpoints ==
    ASSUME NotificationsInvariant,
           \/ Enqueue \/ TakeTask \/ ListEndpoints \/ PushEnds \/ SetQuietHours \/ CloseDispatcher
           \/ \E e \in Endpoints : SendPush(e) \/ Unregistered(e)
    PROVE  NotificationsInvariant'
<1>1. CASE endpointVars' = endpointVars
  <2>1. UNCHANGED <<retired, endpoint, registration>>
    BY <1>1 DEF endpointVars
  <2> QED BY <2>1, DispatchKeepsEndpoints DEF NotificationsInvariant, EndpointsTypeOK
<1>2. ASSUME NEW e \in Endpoints, Unregistered(e)
      PROVE  NotificationsInvariant'
  <2>1. endpoint' = [endpoint EXCEPT ![e] = "revoked"] /\ retired' = retired /\ registration' = registration
    BY <1>2, Zenon DEF Unregistered
  <2>2. EndpointsTypeOK
    BY DEF NotificationsInvariant
  <2>3. EndpointsTypeOK' /\ \A f \in Endpoints : endpoint'[f] = "enabled" => endpoint[f] = "enabled"
    BY <2>1, <2>2 DEF EndpointsTypeOK
  <2> QED BY <2>1, <2>3, DispatchKeepsEndpoints
<1>3. (Enqueue \/ TakeTask \/ ListEndpoints \/ PushEnds \/ SetQuietHours \/ CloseDispatcher \/ \E e \in Endpoints : SendPush(e))
        => endpointVars' = endpointVars
  BY Zenon DEF Enqueue, TakeTask, ListEndpoints, PushEnds, SetQuietHours, CloseDispatcher, SendPush
<1> QED BY <1>1, <1>2, <1>3

(* For any devices, tokens and registrations under way: a revoked device has   *)
(* no enabled endpoint and any device one at most (RegisterNotification        *)
(* against SessionStore.RevokeDevice and MarkNotificationFailed).              *)
THEOREM EndpointsStayFollowed == NotificationsSpec => []EndpointsFollowDevices
<1>1. NotificationsInit => NotificationsInvariant
  <2> SUFFICES ASSUME NotificationsInit PROVE NotificationsInvariant
    OBVIOUS
  <2>1. EndpointsTypeOK
    BY NoRegistrationIsRecord DEF NotificationsInit, EndpointsTypeOK, RegistrationRecord
  <2> QED BY <2>1 DEF NotificationsInit, NotificationsInvariant, SoundCall, NoRegistration
<1>2. NotificationsInvariant /\ [NotificationsNext]_notificationVars => NotificationsInvariant'
  <2> SUFFICES ASSUME NotificationsInvariant, [NotificationsNext]_notificationVars PROVE NotificationsInvariant'
    OBVIOUS
  <2>1. CASE UNCHANGED notificationVars
    <3>1. EndpointsTypeOK'
      BY <2>1 DEF notificationVars, NotificationsInvariant, EndpointsTypeOK
    <3> QED BY <2>1, <3>1, DispatchKeepsEndpoints DEF notificationVars
  <2> QED BY <2>1, RegisterKeepsEndpoints, CommitKeepsEndpoints, RetireKeepsEndpoints, DispatcherKeepsEndpoints
          DEF NotificationsNext
<1>3. NotificationsInvariant => EndpointsFollowDevices
  <2> SUFFICES ASSUME NotificationsInvariant, NEW p \in PushDevices
               PROVE  Cardinality(Enabled(p)) <= IF p \in retired THEN 0 ELSE 1
    BY DEF EndpointsFollowDevices
  <2>1. \A t \in PushTokens : <<p, t>> \in Endpoints /\ <<p, t>>[1] = p /\ <<p, t>>[2] = t
    BY DEF Endpoints
  <2>0. \A t \in Enabled(p) : t \in PushTokens /\ endpoint[<<p, t>>] = "enabled"
    BY Zenon DEF Enabled
  <2>2. ASSUME NEW t \in Enabled(p), NEW u \in Enabled(p)
        PROVE  t = u
    <3>1. PICK e \in Endpoints, f \in Endpoints : e = <<p, t>> /\ f = <<p, u>>
      BY <2>0, <2>1
    <3>2. e[1] = p /\ f[1] = p /\ e[2] = t /\ f[2] = u
      BY <3>1
    <3>3. endpoint[e] = "enabled" /\ endpoint[f] = "enabled"
      BY <2>0, <3>1
    <3>4. e = f
      BY <3>2, <3>3 DEF NotificationsInvariant
    <3> QED BY <3>2, <3>4
  <2>3. p \in retired => Enabled(p) = {}
    <3> SUFFICES ASSUME p \in retired, NEW t \in Enabled(p) PROVE FALSE
      OBVIOUS
    <3>1. PICK e \in Endpoints : e = <<p, t>>
      BY <2>0, <2>1
    <3>2. e[1] = p /\ endpoint[e] = "enabled"
      BY <2>0, <3>1
    <3> QED BY <3>2 DEF NotificationsInvariant
  <2>4. CASE Enabled(p) = {}
    BY <2>4, FS_EmptySet
  <2>5. CASE Enabled(p) # {}
    <3>1. PICK t : Enabled(p) = {t}
      BY <2>2, <2>5
    <3>2. Cardinality(Enabled(p)) = 1 /\ p \notin retired
      BY <2>3, <2>5, <3>1, FS_Singleton
    <3> QED BY <3>2
  <2> QED BY <2>4, <2>5
<1> QED BY <1>1, <1>2, <1>3, PTL DEF NotificationsSpec

-----------------------------------------------------------------------------
(* Sessions *)

LEMMA NoTxIsRecord ==
    /\ NoTx \in TxRecord /\ NoTx.at = "idle" /\ NoTx.locks = {} /\ NoTx.families = {} /\ NoTx.device = {}
BY SessionsAssumption DEF NoTx, TxRecord, TxSteps

LEMMA NoTxIsSound == SoundTx(NoTx) /\ \A d : TxsApart(NoTx, d) /\ TxsApart(d, NoTx)
BY NoTxIsRecord DEF SoundTx, TxsApart

LEMMA IssuedIsInterval ==
    ASSUME SessionsTypeOK
    PROVE  /\ Issued = 1..Len(pairs) /\ Len(pairs) \in Nat /\ Len(pairs) \in 0..MaxPairs
           /\ \A n \in Issued : pairs[n] \in PairRecord /\ n \in 1..MaxPairs
BY SessionsAssumption DEF SessionsTypeOK, Issued

LEMMA PairFields ==
    ASSUME NEW r \in PairRecord
    PROVE  r.family \in Families /\ r.parent \in 0..MaxPairs /\ r.used \in BOOLEAN /\ r.revoked \in BOOLEAN
BY DEF PairRecord

LEMMA TxFields ==
    ASSUME NEW c \in TxRecord
    PROVE  /\ c.pair \in 0..MaxPairs /\ c.device \in SUBSET Handsets /\ c.families \in SUBSET Families
           /\ c.seen \in SUBSET (1..MaxPairs) /\ c.locks \in SUBSET Rows /\ c.replay \in BOOLEAN
BY DEF TxRecord

\* What a step changes in the record of its transaction.
Rotating(r, a, n) == [r EXCEPT !.at = a, !.pair = n]
LockingRow(r, a, ls) == [r EXCEPT !.at = a, !.locks = ls]
Seeing(r, a, ns) == [r EXCEPT !.at = a, !.seen = ns]
LockingFamilies(r, a, fs, ls) == [r EXCEPT !.at = a, !.families = fs, !.locks = ls]
LockingDevice(r, a, ds, ls) == [r EXCEPT !.at = a, !.device = ds, !.locks = ls]
Creating(r, a, fs, ds, ls) == [r EXCEPT !.at = a, !.families = fs, !.device = ds, !.locks = ls]
Replaying(r, a, fs, b, ls) == [r EXCEPT !.at = a, !.families = fs, !.replay = b, !.locks = ls]

LEMMA TxRotates ==
    ASSUME NEW r \in TxRecord, NEW a \in TxSteps, NEW n \in 0..MaxPairs, NEW c, c = Rotating(r, a, n)
    PROVE  /\ c \in TxRecord /\ c.at = a /\ c.pair = n
           /\ c.device = r.device /\ c.families = r.families /\ c.locks = r.locks
BY DEF TxRecord, Rotating

LEMMA TxLocksRow ==
    ASSUME NEW r \in TxRecord, NEW a \in TxSteps, NEW ls \in SUBSET Rows, NEW c, c = LockingRow(r, a, ls)
    PROVE  /\ c \in TxRecord /\ c.at = a /\ c.pair = r.pair
           /\ c.device = r.device /\ c.families = r.families /\ c.locks = ls
BY DEF TxRecord, LockingRow

LEMMA TxSees ==
    ASSUME NEW r \in TxRecord, NEW a \in TxSteps, NEW ns \in SUBSET (1..MaxPairs), NEW c,
           c = Seeing(r, a, ns)
    PROVE  /\ c \in TxRecord /\ c.at = a /\ c.seen = ns
           /\ c.device = r.device /\ c.families = r.families /\ c.locks = r.locks
BY DEF TxRecord, Seeing

LEMMA TxLocksFamilies ==
    ASSUME NEW r \in TxRecord, NEW a \in TxSteps, NEW fs \in SUBSET Families, NEW ls \in SUBSET Rows, NEW c,
           c = LockingFamilies(r, a, fs, ls)
    PROVE  c \in TxRecord /\ c.at = a /\ c.families = fs /\ c.device = r.device /\ c.locks = ls
BY DEF TxRecord, LockingFamilies

LEMMA TxLocksDevice ==
    ASSUME NEW r \in TxRecord, NEW a \in TxSteps, NEW ds \in SUBSET Handsets, NEW ls \in SUBSET Rows, NEW c,
           c = LockingDevice(r, a, ds, ls)
    PROVE  c \in TxRecord /\ c.at = a /\ c.families = r.families /\ c.device = ds /\ c.locks = ls
BY DEF TxRecord, LockingDevice

LEMMA TxCreates ==
    ASSUME NEW r \in TxRecord, NEW a \in TxSteps, NEW fs \in SUBSET Families, NEW ds \in SUBSET Handsets,
           NEW ls \in SUBSET Rows, NEW c, c = Creating(r, a, fs, ds, ls)
    PROVE  c \in TxRecord /\ c.at = a /\ c.families = fs /\ c.device = ds /\ c.locks = ls
BY DEF TxRecord, Creating

LEMMA TxReplays ==
    ASSUME NEW r \in TxRecord, NEW a \in TxSteps, NEW fs \in SUBSET Families, NEW b \in BOOLEAN,
           NEW ls \in SUBSET Rows, NEW c, c = Replaying(r, a, fs, b, ls)
    PROVE  c \in TxRecord /\ c.at = a /\ c.families = fs /\ c.device = r.device /\ c.locks = ls
BY DEF TxRecord, Replaying

LEMMA StepNames ==
    /\ "create" \in TxSteps /\ "rotate" \in TxSteps /\ "replay" \in TxSteps /\ "advance" \in TxSteps
    /\ "device" \in TxSteps /\ "families" \in TxSteps /\ "tokens" \in TxSteps
BY DEF TxSteps

LEMMA RowTypes ==
    /\ \A h \in Handsets : {<<"device", h>>} \in SUBSET Rows
    /\ \A n \in 1..MaxPairs : {<<"pair", n>>} \in SUBSET Rows
    /\ \A fs \in SUBSET Families : FamilyRows(fs) \in SUBSET Rows
BY DEF Rows, FamilyRows

LEMMA UsedRecord ==
    ASSUME NEW r \in PairRecord, NEW b \in BOOLEAN
    PROVE  LET q == [r EXCEPT !.used = b] IN
           q \in PairRecord /\ q.family = r.family /\ q.parent = r.parent /\ q.used = b /\ q.revoked = r.revoked
BY DEF PairRecord

LEMMA RevokedRecord ==
    ASSUME NEW r \in PairRecord, NEW b \in BOOLEAN
    PROVE  LET q == [r EXCEPT !.revoked = b] IN
           q \in PairRecord /\ q.family = r.family /\ q.parent = r.parent /\ q.used = r.used /\ q.revoked = b
BY DEF PairRecord

LEMMA RowsDiffer ==
    \A x, y : <<"pair", x>> # <<"family", y>> /\ <<"pair", x>> # <<"device", y>> /\ <<"family", x>> # <<"device", y>>
OBVIOUS

\* A transaction takes a step and the tables stay as they are.
LEMMA TxStepKeepsSessions ==
    ASSUME SessionsInvariant, UNCHANGED <<handset, family, pairs, replayed>>,
           NEW t \in Txs, NEW c \in TxRecord, tx' = [tx EXCEPT ![t] = c], SoundTx(c),
           \A u \in Txs \ {t} : TxsApart(c, tx[u])
    PROVE  SessionsInvariant'
<1>1. /\ tx \in [Txs -> TxRecord] /\ tx'[t] = c /\ tx' \in [Txs -> TxRecord]
      /\ \A u \in Txs \ {t} : tx'[u] = tx[u]
  BY DEF SessionsInvariant, SessionsTypeOK
<1>2. SessionsTypeOK'
  BY <1>1 DEF SessionsInvariant, SessionsTypeOK
<1>3. SoundPairs' /\ SoundFamilies'
  BY DEF SessionsInvariant, SoundPairs, SoundFamilies, Issued
<1>4. \A d : SoundTx(d) => SoundTx(d)'
  BY ZenonT(60) DEF SoundTx, Issued, PairsOf, FamiliesOf
<1>5. \A u \in Txs : SoundTx(tx[u])'
  <2> SUFFICES ASSUME NEW u \in Txs PROVE SoundTx(tx[u])'
    OBVIOUS
  <2>1. PICK d : d = tx'[u]
    OBVIOUS
  <2>2. SoundTx(d)
    BY <1>1, <2>1 DEF SessionsInvariant
  <2>3. SoundTx(d)'
    BY <1>4, <2>2
  <2> QED BY <2>1, <2>3, ZenonT(60) DEF SoundTx, Issued, PairsOf, FamiliesOf
<1>6. \A u, v \in Txs : u # v => TxsApart(tx'[u], tx'[v])
  <2>1. \A d : TxsApart(c, d) => TxsApart(d, c)
    BY DEF TxsApart
  <2> QED BY <1>1, <2>1 DEF SessionsInvariant
<1>7. \A u, v \in Txs : u # v => TxsApart(tx[u], tx[v])'
  BY <1>6 DEF TxsApart
<1> QED BY <1>2, <1>3, <1>5, <1>7 DEF SessionsInvariant

\* A transaction ends and the tables change: what remains to be shown.
LEMMA TxEndKeepsSessions ==
    ASSUME SessionsInvariant, NEW t \in Txs, tx' = [tx EXCEPT ![t] = NoTx],
           handset' \in [Handsets -> {"active", "revoked"}],
           family' \in [Families -> [device : Handsets, at : {"none", "live", "revoked"}]],
           pairs' \in Seq(PairRecord), Len(pairs') <= MaxPairs, replayed' \subseteq Families,
           SoundPairs', SoundFamilies',
           \A u \in Txs \ {t} : \A d : d = tx[u] => SoundTx(d)'
    PROVE  SessionsInvariant'
<1>1. /\ tx \in [Txs -> TxRecord] /\ tx'[t] = NoTx /\ tx' \in [Txs -> TxRecord]
      /\ \A u \in Txs \ {t} : tx'[u] = tx[u]
  BY NoTxIsRecord DEF SessionsInvariant, SessionsTypeOK
<1>2. SessionsTypeOK'
  BY <1>1 DEF SessionsTypeOK
<1>3. \A u \in Txs : SoundTx(tx[u])'
  <2> SUFFICES ASSUME NEW u \in Txs PROVE SoundTx(tx[u])'
    OBVIOUS
  <2>1. CASE u = t
    <3>1. tx'[u].at = "idle"
      BY <1>1, <2>1, NoTxIsRecord
    <3> QED BY <3>1 DEF SoundTx
  <2>2. CASE u # t
    <3>1. PICK d : d = tx[u]
      OBVIOUS
    <3>2. SoundTx(d)' /\ tx'[u] = d
      BY <1>1, <2>2, <3>1
    <3> QED BY <3>2, ZenonT(60) DEF SoundTx, Issued, PairsOf, FamiliesOf
  <2> QED BY <2>1, <2>2
<1>4. \A u, v \in Txs : u # v => TxsApart(tx'[u], tx'[v])
  BY <1>1, NoTxIsSound DEF SessionsInvariant
<1>5. \A u, v \in Txs : u # v => TxsApart(tx[u], tx[v])'
  BY <1>4 DEF TxsApart
<1> QED BY <1>2, <1>3, <1>5 DEF SessionsInvariant

\* What another transaction has not locked is in no other's locks.
LEMMA UnlockedIsFree ==
    ASSUME NEW t \in Txs, NEW row, ~Locked(t, row)
    PROVE  \A u \in Txs \ {t} : row \notin tx[u].locks
BY DEF Locked

LEMMA FailKeepsSessions ==
    ASSUME SessionsInvariant, NEW t \in Txs, tx' = [tx EXCEPT ![t] = NoTx],
           UNCHANGED <<handset, family, pairs, replayed>>
    PROVE  SessionsInvariant'
BY NoTxIsSound, NoTxIsRecord, TxStepKeepsSessions

LEMMA CreateLocksKeepsSessions ==
    ASSUME SessionsInvariant, NEW t \in Txs, NEW f \in Families, NEW h \in Handsets, CreateLocks(t, f, h)
    PROVE  SessionsInvariant'
<1>2. PICK a \in TxSteps, fs \in SUBSET Families, ds \in SUBSET Handsets, ls \in SUBSET Rows :
        a = "create" /\ fs = {f} /\ ds = {h} /\ ls = {<<"device", h>>}
  BY StepNames, RowTypes
<1>0. PICK c : c = Creating(NoTx, a, fs, ds, ls)
  OBVIOUS
<1>1. /\ tx' = [tx EXCEPT ![t] = c] /\ UNCHANGED <<handset, family, pairs, replayed>>
      /\ family[f].at = "none" /\ handset[h] = "active" /\ ~Locked(t, <<"device", h>>)
      /\ \A u \in Txs : f \notin tx[u].families
  BY <1>0, <1>2, Zenon DEF CreateLocks, TxIs, Creating
<1>6. c \in TxRecord /\ c.at = a /\ c.families = fs /\ c.device = ds /\ c.locks = ls
  BY <1>0, NoTxIsRecord, TxCreates
<1>3. c \in TxRecord /\ c.at = "create" /\ c.families = {f} /\ c.device = {h} /\ c.locks = {<<"device", h>>}
  BY <1>2, <1>6
<1>4. SoundTx(c)
  BY <1>1, <1>3 DEF SoundTx
<1>5. \A u \in Txs \ {t} : TxsApart(c, tx[u])
  BY <1>1, <1>3, UnlockedIsFree DEF TxsApart
<1> QED BY <1>1, <1>3, <1>4, <1>5, TxStepKeepsSessions

LEMMA RotateStartsKeepsSessions ==
    ASSUME SessionsInvariant, NEW t \in Txs, NEW n \in 1..MaxPairs, RotateStarts(t, n)
    PROVE  SessionsInvariant'
<1>0. PICK a : a = IF pairs[n].used THEN "replay" ELSE "rotate"
  OBVIOUS
<1>1. PICK c : c = Rotating(NoTx, a, n)
  OBVIOUS
<1>2. tx' = [tx EXCEPT ![t] = c] /\ n \in Issued /\ UNCHANGED <<handset, family, pairs, replayed>>
  BY <1>0, <1>1, Zenon DEF RotateStarts, TxIs, Rotating
<1>3. n \in 0..MaxPairs /\ a \in TxSteps /\ a \in {"replay", "rotate"}
  BY <1>0, SessionsAssumption, StepNames
<1>4. /\ c \in TxRecord /\ c.at = a /\ c.pair = n
      /\ c.device = NoTx.device /\ c.families = NoTx.families /\ c.locks = NoTx.locks
  BY <1>1, <1>3, NoTxIsRecord, TxRotates
<1>5. c.device = {} /\ c.families = {} /\ c.locks = {}
  BY <1>4, NoTxIsRecord
<1>6. SoundTx(c)
  BY <1>2, <1>3, <1>4, <1>5 DEF SoundTx
<1>7. \A u \in Txs \ {t} : TxsApart(c, tx[u])
  BY <1>5 DEF TxsApart
<1> QED BY <1>2, <1>4, <1>6, <1>7, TxStepKeepsSessions

LEMMA RotateLocksKeepsSessions ==
    ASSUME SessionsInvariant, NEW t \in Txs, RotateLocks(t)
    PROVE  SessionsInvariant'
<1>0. PICK n : n = tx[t].pair
  OBVIOUS
<1>1. PICK a : a = IF pairs[n].used THEN "replay" ELSE "advance"
  OBVIOUS
<1>2. PICK c : c = LockingRow(tx[t], a, {<<"pair", n>>})
  OBVIOUS
<1>3. /\ tx' = [tx EXCEPT ![t] = NoTx] \/ tx' = [tx EXCEPT ![t] = c]
      /\ UNCHANGED <<handset, family, pairs, replayed>> /\ ~Locked(t, <<"pair", n>>) /\ tx[t].at = "rotate"
  BY <1>0, <1>1, <1>2, Zenon DEF RotateLocks, TxIs, LockingRow
<1>4. tx[t] \in TxRecord /\ SoundTx(tx[t]) /\ SessionsTypeOK
  BY DEF SessionsInvariant, SessionsTypeOK
<1>5. n \in Issued /\ n \in 1..MaxPairs /\ tx[t].device = {}
  BY <1>0, <1>3, <1>4, IssuedIsInterval DEF SoundTx
<1>6. /\ a \in TxSteps /\ a \in {"replay", "advance"} /\ {<<"pair", n>>} \in SUBSET Rows
      /\ a = "advance" => ~pairs[n].used
  BY <1>1, <1>5, StepNames, RowTypes
<1>7. /\ c \in TxRecord /\ c.at = a /\ c.pair = tx[t].pair
      /\ c.device = tx[t].device /\ c.families = tx[t].families /\ c.locks = {<<"pair", n>>}
  BY <1>2, <1>4, <1>6, TxLocksRow
<1>8. c.pair = n /\ c.device = {}
  BY <1>0, <1>5, <1>7
<1>9. SoundTx(c)
  BY <1>5, <1>6, <1>7, <1>8 DEF SoundTx
<1>10. ASSUME NEW u \in Txs \ {t}
       PROVE  TxsApart(c, tx[u])
  <2>1. TxsApart(tx[t], tx[u])
    BY DEF SessionsInvariant
  <2>2. <<"pair", n>> \notin tx[u].locks
    BY <1>3, UnlockedIsFree
  <2> QED BY <1>6, <1>7, <2>1, <2>2 DEF TxsApart
<1> QED BY <1>3, <1>7, <1>9, <1>10, TxStepKeepsSessions, FailKeepsSessions

\* A revocation has locked its families, beside what it had locked.
LEMMA FamiliesLockedKeepsSessions ==
    ASSUME SessionsInvariant, NEW t \in Txs, NEW c \in TxRecord, NEW old \in TxRecord,
           SoundTx(old), \A u \in Txs \ {t} : TxsApart(old, tx[u]),
           tx' = [tx EXCEPT ![t] = c], UNCHANGED <<handset, family, pairs, replayed>>,
           c.at = "families", c.device = old.device, c.locks = old.locks \cup FamilyRows(c.families),
           \A f \in c.families : family[f].at # "none" /\ ~Locked(t, <<"family", f>>),
           \A h \in c.device : <<"device", h>> \in old.locks /\ FamiliesOf(h) \subseteq c.families
    PROVE  SessionsInvariant'
<1>1. \A row : row \in FamilyRows(c.families) <=> \E f \in c.families : row = <<"family", f>>
  BY DEF FamilyRows
<1>2. SoundTx(c)
  BY <1>1 DEF SoundTx
<1>3. ASSUME NEW u \in Txs \ {t}
      PROVE  TxsApart(c, tx[u])
  <2>1. c.locks \cap tx[u].locks = {}
    BY <1>1, UnlockedIsFree DEF TxsApart
  <2>2. tx[u].at = "create" => c.families \cap tx[u].families = {}
    <3>1. SoundTx(tx[u])
      BY DEF SessionsInvariant
    <3> QED BY <3>1 DEF SoundTx
  <2> QED BY <2>1, <2>2 DEF TxsApart
<1> QED BY <1>2, <1>3, TxStepKeepsSessions

LEMMA RevokeStartsKeepsSessions ==
    ASSUME SessionsInvariant, NEW t \in Txs, NEW f \in Families, RevokeStarts(t, f)
    PROVE  SessionsInvariant'
<1>2. PICK a \in TxSteps, fs \in SUBSET Families : a = "families" /\ fs = {f}
  BY StepNames
<1>6. PICK ls \in SUBSET Rows : ls = FamilyRows(fs)
  BY RowTypes
<1>0. PICK c : c = LockingFamilies(NoTx, a, fs, ls)
  OBVIOUS
<1>1. /\ tx' = [tx EXCEPT ![t] = c] /\ UNCHANGED <<handset, family, pairs, replayed>>
      /\ family[f].at # "none" /\ ~Locked(t, <<"family", f>>)
  BY <1>0, <1>2, <1>6, Zenon DEF RevokeStarts, TxIs, LockingFamilies
<1>7. c \in TxRecord /\ c.at = a /\ c.families = fs /\ c.device = NoTx.device /\ c.locks = ls
  BY <1>0, NoTxIsRecord, TxLocksFamilies
<1>3. c \in TxRecord /\ c.at = "families" /\ c.families = {f} /\ c.device = NoTx.device /\ c.locks = FamilyRows({f})
  BY <1>2, <1>6, <1>7
<1>4. c.locks = NoTx.locks \cup FamilyRows(c.families) /\ c.device = {}
  BY <1>3, NoTxIsRecord
<1>5. \A g \in c.families : family[g].at # "none" /\ ~Locked(t, <<"family", g>>)
  BY <1>1, <1>3
<1> QED BY <1>1, <1>3, <1>4, <1>5, NoTxIsRecord, NoTxIsSound, FamiliesLockedKeepsSessions

LEMMA ReplayRevokesKeepsSessions ==
    ASSUME SessionsInvariant, NEW t \in Txs, ReplayRevokes(t)
    PROVE  SessionsInvariant'
<1>1. /\ tx[t] \in TxRecord /\ SoundTx(tx[t]) /\ SessionsTypeOK /\ SoundPairs
      /\ \A u \in Txs \ {t} : TxsApart(tx[t], tx[u])
  BY DEF SessionsInvariant, SessionsTypeOK
<1>2. PICK f : f = pairs[tx[t].pair].family
  OBVIOUS
<1>3. PICK ls : ls = tx[t].locks \cup FamilyRows({f})
  OBVIOUS
<1>13. PICK fs : fs = {f}
  OBVIOUS
<1>11. PICK a \in TxSteps, b \in BOOLEAN : a = "families" /\ b = TRUE
  BY StepNames
<1>4. PICK c : c = Replaying(tx[t], a, fs, b, ls)
  OBVIOUS
<1>5. /\ tx' = [tx EXCEPT ![t] = c] /\ UNCHANGED <<handset, family, pairs, replayed>>
      /\ tx[t].at = "replay" /\ ~Locked(t, <<"family", f>>)
  BY <1>2, <1>3, <1>4, <1>11, <1>13, Zenon DEF ReplayRevokes, TxIs, Replaying
<1>6. tx[t].pair \in Issued /\ tx[t].device = {}
  BY <1>1, <1>5 DEF SoundTx
<1>7. f \in Families /\ family[f].at # "none"
  BY <1>1, <1>2, <1>6, IssuedIsInterval, PairFields DEF SoundPairs
<1>8. fs \in SUBSET Families /\ ls \in SUBSET Rows
  BY <1>1, <1>3, <1>7, <1>13, RowTypes, TxFields
<1>12. c \in TxRecord /\ c.at = a /\ c.families = fs /\ c.device = tx[t].device /\ c.locks = ls
  BY <1>1, <1>4, <1>8, TxReplays
<1>9. c \in TxRecord /\ c.at = "families" /\ c.families = {f} /\ c.device = tx[t].device /\ c.locks = ls
  BY <1>11, <1>12, <1>13
<1>10. /\ c.locks = tx[t].locks \cup FamilyRows(c.families) /\ c.device = {}
       /\ \A g \in c.families : family[g].at # "none" /\ ~Locked(t, <<"family", g>>)
  BY <1>3, <1>5, <1>6, <1>7, <1>9
<1> QED BY <1>1, <1>5, <1>9, <1>10, FamiliesLockedKeepsSessions

LEMMA RevokeDeviceFamiliesKeepsSessions ==
    ASSUME SessionsInvariant, NEW t \in Txs, RevokeDeviceFamilies(t)
    PROVE  SessionsInvariant'
<1>1. /\ tx[t] \in TxRecord /\ SoundTx(tx[t]) /\ SessionsTypeOK
      /\ \A u \in Txs \ {t} : TxsApart(tx[t], tx[u])
  BY DEF SessionsInvariant, SessionsTypeOK
<1>2. PICK fs : fs = UNION {FamiliesOf(h) : h \in tx[t].device}
  OBVIOUS
<1>3. PICK ls : ls = tx[t].locks \cup FamilyRows(fs)
  OBVIOUS
<1>4. PICK c : c = LockingFamilies(tx[t], "families", fs, ls)
  OBVIOUS
<1>5. /\ tx' = [tx EXCEPT ![t] = c] /\ UNCHANGED <<handset, family, pairs, replayed>>
      /\ tx[t].at = "device" /\ \A f \in fs : ~Locked(t, <<"family", f>>)
  BY <1>2, <1>3, <1>4, Zenon DEF RevokeDeviceFamilies, TxIs, LockingFamilies
<1>6. /\ fs \in SUBSET Families /\ \A f \in fs : family[f].at # "none"
      /\ \A h \in tx[t].device : FamiliesOf(h) \subseteq fs
  BY <1>2 DEF FamiliesOf
<1>7. ls \in SUBSET Rows
  BY <1>1, <1>3, <1>6, RowTypes, TxFields
<1>8. c \in TxRecord /\ c.at = "families" /\ c.families = fs /\ c.device = tx[t].device /\ c.locks = ls
  BY <1>1, <1>4, <1>6, <1>7, StepNames, TxLocksFamilies
<1>9. \A h \in tx[t].device : <<"device", h>> \in tx[t].locks
  <2>1. PICK d : d = tx[t]
    OBVIOUS
  <2>2. SoundTx(d) /\ d.at = "device"
    BY <1>1, <1>5, <2>1
  <2> QED BY <2>1, <2>2, Zenon DEF SoundTx
<1>10. /\ c.locks = tx[t].locks \cup FamilyRows(c.families)
       /\ \A h \in c.device : <<"device", h>> \in tx[t].locks /\ FamiliesOf(h) \subseteq c.families
       /\ \A g \in c.families : family[g].at # "none" /\ ~Locked(t, <<"family", g>>)
  BY <1>3, <1>5, <1>6, <1>8, <1>9
<1> QED BY <1>1, <1>5, <1>8, <1>10, FamiliesLockedKeepsSessions

LEMMA RevokeDeviceStartsKeepsSessions ==
    ASSUME SessionsInvariant, NEW t \in Txs, NEW h \in Handsets, RevokeDeviceStarts(t, h)
    PROVE  SessionsInvariant'
<1>0. PICK c : c = LockingDevice(NoTx, "device", {h}, {<<"device", h>>})
  OBVIOUS
<1>1. /\ tx' = [tx EXCEPT ![t] = c] /\ UNCHANGED <<handset, family, pairs, replayed>>
      /\ ~Locked(t, <<"device", h>>)
  BY <1>0, Zenon DEF RevokeDeviceStarts, TxIs, LockingDevice
<1>2. {h} \in SUBSET Handsets /\ {<<"device", h>>} \in SUBSET Rows
  BY RowTypes
<1>3. c \in TxRecord /\ c.at = "device" /\ c.families = NoTx.families /\ c.device = {h} /\ c.locks = {<<"device", h>>}
  BY <1>0, <1>2, StepNames, NoTxIsRecord, TxLocksDevice
<1>4. SoundTx(c)
  BY <1>1, <1>3 DEF SoundTx
<1>5. c.families = {}
  BY <1>3, NoTxIsRecord
<1>6. \A u \in Txs \ {t} : TxsApart(c, tx[u])
  BY <1>1, <1>3, <1>5, UnlockedIsFree DEF TxsApart
<1> QED BY <1>1, <1>3, <1>4, <1>6, TxStepKeepsSessions

LEMMA SeesTokensKeepsSessions ==
    ASSUME SessionsInvariant, NEW t \in Txs, RevokeSeesTokens(t)
    PROVE  SessionsInvariant'
<1>1. /\ tx[t] \in TxRecord /\ SoundTx(tx[t]) /\ SessionsTypeOK
      /\ \A u \in Txs \ {t} : TxsApart(tx[t], tx[u])
  BY DEF SessionsInvariant, SessionsTypeOK
<1>2. PICK ns : ns = PairsOf(tx[t].families)
  OBVIOUS
<1>3. ns \in SUBSET (1..MaxPairs)
  BY <1>1, <1>2, IssuedIsInterval DEF PairsOf
<1>4. PICK c : c = Seeing(tx[t], "tokens", ns)
  OBVIOUS
<1>5. tx' = [tx EXCEPT ![t] = c] /\ tx[t].at = "families" /\ UNCHANGED <<handset, family, pairs, replayed>>
  BY <1>2, <1>4, Zenon DEF RevokeSeesTokens, TxIs, Seeing
<1>6. /\ c \in TxRecord /\ c.at = "tokens" /\ c.seen = ns
      /\ c.device = tx[t].device /\ c.families = tx[t].families /\ c.locks = tx[t].locks
  BY <1>1, <1>3, <1>4, StepNames, TxSees
<1>7. SoundTx(c)
  BY <1>1, <1>2, <1>5, <1>6 DEF SoundTx
<1>8. \A u \in Txs \ {t} : TxsApart(c, tx[u])
  BY <1>1, <1>5, <1>6 DEF TxsApart
<1> QED BY <1>5, <1>6, <1>7, <1>8, TxStepKeepsSessions

FamilyRecord == [device : Handsets, at : {"none", "live", "revoked"}]
SameBut(p, q) == p.family = q.family /\ p.parent = q.parent /\ p.revoked = q.revoked

LEMMA InsertIsRecord ==
    ASSUME NEW f \in Families, NEW n \in 0..MaxPairs
    PROVE  Insert(f, n) \in PairRecord /\ Insert(f, n).family = f /\ Insert(f, n).parent = n
BY DEF Insert, PairRecord

\* A pair is appended, and of those before it at most one becomes used.
LEMMA AppendedPairs ==
    ASSUME SessionsTypeOK, NEW q \in Seq(PairRecord), Len(q) = Len(pairs),
           NEW r \in PairRecord, pairs' = Append(q, r), Len(pairs) < MaxPairs
    PROVE  /\ pairs' \in Seq(PairRecord) /\ Len(pairs') <= MaxPairs
           /\ Issued' = 1..(Len(pairs) + 1) /\ Len(pairs) \in Nat /\ Issued = 1..Len(pairs)
           /\ \A n \in Issued : n \in Issued' /\ pairs'[n] = q[n]
           /\ pairs'[Len(pairs) + 1] = r
           /\ \A n \in Issued' : n \in Issued \/ n = Len(pairs) + 1
<1>1. Len(pairs) \in Nat /\ Issued = 1..Len(pairs)
  BY IssuedIsInterval
<1>2. pairs' \in Seq(PairRecord) /\ Len(pairs') = Len(pairs) + 1
  BY <1>1
<1>3. Issued' = 1..(Len(pairs) + 1)
  BY <1>2 DEF Issued
<1>4. pairs'[Len(pairs) + 1] = r /\ \A n \in 1..Len(pairs) : pairs'[n] = q[n]
  BY <1>1
<1> QED BY <1>1, <1>2, <1>3, <1>4, SessionsAssumption

\* The records are those of before, or the new one of a family that is live.
LEMMA GrowthKeepsPairs ==
    ASSUME SessionsInvariant, NEW r \in PairRecord, NEW m, m \notin Issued, m \in Issued',
           Issued \subseteq Issued', \A n \in Issued' : n \in Issued \/ n = m, pairs'[m] = r,
           \A n \in Issued : SameBut(pairs'[n], pairs[n]) /\ (pairs[n].used => pairs'[n].used),
           \A f \in Families : family[f].at # "none" => family'[f].at = family[f].at,
           family'[r.family].at = "live",
           r.parent # 0 => /\ r.parent \in Issued /\ pairs'[r.parent].used
                           /\ \A n \in Issued : pairs[n].parent # r.parent
    PROVE  SoundPairs'
<1>1. SoundPairs /\ SessionsTypeOK
  BY DEF SessionsInvariant
<1>2. \A n \in Issued : /\ pairs'[n].family = pairs[n].family /\ pairs'[n].parent = pairs[n].parent
                        /\ pairs'[n].revoked = pairs[n].revoked
                        /\ pairs[n].family \in Families /\ family[pairs[n].family].at # "none"
                        /\ (family[pairs[n].family].at = "revoked" => pairs[n].revoked)
  BY <1>1, IssuedIsInterval, PairFields DEF SameBut, SoundPairs
<1>3. ASSUME NEW n \in Issued'
      PROVE  /\ family'[pairs'[n].family].at # "none"
             /\ family'[pairs'[n].family].at = "revoked" => pairs'[n].revoked
             /\ pairs'[n].parent # 0 => pairs'[n].parent \in Issued' /\ pairs'[pairs'[n].parent].used
  <2>1. CASE n \in Issued
    <3>1. family'[pairs'[n].family].at = family[pairs[n].family].at
      BY <1>2, <2>1
    <3>2. pairs[n].parent # 0 => pairs[n].parent \in Issued /\ pairs[pairs[n].parent].used
      BY <1>1, <2>1 DEF SoundPairs
    <3>3. pairs[n].parent # 0 => pairs[n].parent \in Issued' /\ pairs'[pairs[n].parent].used
      BY <3>2
    <3> QED BY <1>2, <2>1, <3>1, <3>3
  <2>2. CASE n = m
    BY <2>2
  <2> QED BY <2>1, <2>2
<1>4. ASSUME NEW n \in Issued', NEW k \in Issued', n # k, pairs'[n].parent = pairs'[k].parent
      PROVE  pairs'[n].parent = 0
  <2>1. CASE n \in Issued /\ k \in Issued
    BY <1>1, <1>2, <1>4, <2>1 DEF SoundPairs
  <2>2. CASE n = m /\ k \in Issued
    BY <1>2, <1>4, <2>2
  <2>3. CASE k = m /\ n \in Issued
    BY <1>2, <1>4, <2>3
  <2> QED BY <1>4, <2>1, <2>2, <2>3
<1> QED BY <1>3, <1>4 DEF SoundPairs

\* Another transaction is as sound as it was when a pair is appended to a family
\* whose row it does not hold.
LEMMA GrowthKeepsOthers ==
    ASSUME NEW d \in TxRecord, SoundTx(d), NEW g \in Families, NEW m, UNCHANGED handset,
           Issued \subseteq Issued', \A n \in Issued' : n \in Issued \/ (n = m /\ pairs'[n].family = g),
           \A n \in Issued : pairs'[n].family = pairs[n].family,
           \A n \in Issued : <<"pair", n>> \in d.locks => pairs'[n].used = pairs[n].used,
           \A f \in Families \ {g} : family'[f] = family[f],
           d.at \in {"create", "families", "tokens"} => g \notin d.families,
           family'[g].at # "none",
           family'[g] = family[g] \/ <<"device", family'[g].device>> \notin d.locks
    PROVE  SoundTx(d)'
<1>1. d.families \subseteq Families /\ d.device \subseteq Handsets
  BY TxFields
<1>2. d.at = "create" =>
        \E f \in Families, h \in Handsets :
            /\ d.families = {f} /\ family'[f].at = "none"
            /\ d.device = {h} /\ handset'[h] = "active" /\ <<"device", h>> \in d.locks
  BY DEF SoundTx
<1>3. d.at \in {"rotate", "replay", "advance"} => d.pair \in Issued' /\ d.device = {}
  BY DEF SoundTx
<1>4. d.at = "advance" => <<"pair", d.pair>> \in d.locks /\ ~pairs'[d.pair].used
  <2>1. d.at = "advance" => d.pair \in Issued /\ <<"pair", d.pair>> \in d.locks /\ ~pairs[d.pair].used
    BY Zenon DEF SoundTx
  <2> QED BY <2>1
<1>5. d.at = "device" => \A h \in d.device : <<"device", h>> \in d.locks
  BY Zenon DEF SoundTx
<1>6. d.at \in {"families", "tokens"} => \A f \in d.families : family'[f].at # "none" /\ <<"family", f>> \in d.locks
  <2>1. d.at \in {"families", "tokens"} => \A f \in d.families : family[f].at # "none" /\ <<"family", f>> \in d.locks
    BY Zenon DEF SoundTx
  <2>2. ASSUME d.at \in {"families", "tokens"}, NEW f \in d.families
        PROVE  family'[f].at # "none"
    <3>1. f \in Families \ {g} /\ family[f].at # "none"
      BY <1>1, <2>1, <2>2
    <3> QED BY <3>1
  <2> QED BY <2>1, <2>2, Zenon
<1>7. ASSUME d.at \in {"families", "tokens"}, NEW h \in d.device
      PROVE  <<"device", h>> \in d.locks /\ FamiliesOf(h)' \subseteq d.families
  <2>1. <<"device", h>> \in d.locks /\ FamiliesOf(h) \subseteq d.families
    BY <1>7 DEF SoundTx
  <2>2. \A f \in FamiliesOf(h)' : f \in Families /\ family'[f].at # "none" /\ family'[f].device = h
    BY DEF FamiliesOf
  <2>3. \A f \in Families : family[f].at # "none" /\ family[f].device = h => f \in FamiliesOf(h)
    BY DEF FamiliesOf
  <2>4. ASSUME NEW f \in FamiliesOf(h)'
        PROVE  f \in d.families
    <3>1. family'[f] = family[f]
      BY <2>1, <2>2
    <3> QED BY <2>1, <2>2, <2>3, <3>1
  <2> QED BY <2>1, <2>4
<1>8. ASSUME d.at = "tokens"
      PROVE  PairsOf(d.families)' \subseteq d.seen
  <2>1. PairsOf(d.families) \subseteq d.seen /\ g \notin d.families
    BY <1>8 DEF SoundTx
  <2>2. \A n \in PairsOf(d.families)' : n \in Issued' /\ pairs'[n].family \in d.families
    BY DEF PairsOf
  <2>3. \A n \in PairsOf(d.families)' : n \in Issued /\ pairs[n].family \in d.families
    BY <2>1, <2>2
  <2> QED BY <2>1, <2>3 DEF PairsOf
<1> QED BY <1>2, <1>3, <1>4, <1>5, <1>6, <1>7, <1>8 DEF SoundTx

LEMMA CreateCommitsKeepsSessions ==
    ASSUME SessionsInvariant, NEW t \in Txs, CreateCommits(t)
    PROVE  SessionsInvariant'
<1>1. /\ tx[t] \in TxRecord /\ SoundTx(tx[t]) /\ SessionsTypeOK /\ SoundPairs /\ SoundFamilies
      /\ family \in [Families -> FamilyRecord] /\ handset \in [Handsets -> {"active", "revoked"}]
  BY DEF SessionsInvariant, SessionsTypeOK, FamilyRecord
<1>2. /\ tx[t].at = "create" /\ Len(pairs) < MaxPairs /\ tx' = [tx EXCEPT ![t] = NoTx]
      /\ UNCHANGED <<handset, replayed>>
  BY DEF CreateCommits, TxIs
<1>3. PICK f \in tx[t].families, h \in tx[t].device :
        /\ family' = [family EXCEPT ![f] = [device |-> h, at |-> "live"]]
        /\ pairs' = Append(pairs, Insert(f, 0))
  BY DEF CreateCommits
<1>4. /\ f \in Families /\ h \in Handsets /\ tx[t].families = {f} /\ family[f].at = "none"
      /\ handset[h] = "active" /\ <<"device", h>> \in tx[t].locks
  <2>1. PICK g \in Families, k \in Handsets :
          /\ tx[t].families = {g} /\ family[g].at = "none"
          /\ tx[t].device = {k} /\ handset[k] = "active" /\ <<"device", k>> \in tx[t].locks
    BY <1>1, <1>2 DEF SoundTx
  <2>2. f = g /\ h = k
    BY <1>3, <2>1
  <2> QED BY <2>1, <2>2
<1>5. PICK r \in PairRecord : r = Insert(f, 0) /\ r.family = f /\ r.parent = 0
  <2>1. 0 \in 0..MaxPairs
    BY SessionsAssumption
  <2> QED BY <1>4, <2>1, InsertIsRecord
<1>6. PICK m : m = Len(pairs) + 1
  OBVIOUS
<1>7. /\ pairs' \in Seq(PairRecord) /\ Len(pairs') <= MaxPairs
      /\ Issued' = 1..(Len(pairs) + 1) /\ Len(pairs) \in Nat /\ Issued = 1..Len(pairs)
      /\ \A n \in Issued : n \in Issued' /\ pairs'[n] = pairs[n]
      /\ pairs'[Len(pairs) + 1] = r
      /\ \A n \in Issued' : n \in Issued \/ n = Len(pairs) + 1
  <2>1. pairs \in Seq(PairRecord) /\ pairs' = Append(pairs, r)
    BY <1>1, <1>3, <1>5 DEF SessionsTypeOK
  <2> QED BY <1>1, <1>2, <2>1, AppendedPairs
<1>8. m \notin Issued /\ m \in Issued' /\ pairs'[m] = r /\ Issued \subseteq Issued' /\ \A n \in Issued' : n \in Issued \/ n = m
  BY <1>6, <1>7
<1>9. /\ \A n \in Issued : SameBut(pairs'[n], pairs[n]) /\ pairs'[n].used = pairs[n].used
  BY <1>7 DEF SameBut
<1>10. /\ \A g \in Families \ {f} : family'[g] = family[g]
       /\ family'[f].at = "live" /\ family'[f].device = h
       /\ family' \in [Families -> FamilyRecord]
  <2>1. [device |-> h, at |-> "live"] \in FamilyRecord
    BY <1>4 DEF FamilyRecord
  <2> QED BY <1>1, <1>3, <1>4, <2>1
<1>11. \A g \in Families : family[g].at # "none" => family'[g].at = family[g].at
  BY <1>4, <1>10
<1>12. SoundPairs'
  BY <1>5, <1>8, <1>9, <1>10, <1>11, GrowthKeepsPairs
<1>13. SoundFamilies'
  <2>1. \A g \in Families : family'[g].at # "none" /\ handset'[family'[g].device] = "revoked" => family'[g].at = "revoked"
    BY <1>1, <1>2, <1>4, <1>10 DEF SoundFamilies
  <2>2. replayed \subseteq Families /\ \A g \in replayed : family[g].at = "revoked"
    BY <1>1 DEF SoundFamilies, SessionsTypeOK
  <2>3. \A g \in replayed' : family'[g].at = "revoked"
    BY <1>2, <1>11, <2>2
  <2> QED BY <2>1, <2>3 DEF SoundFamilies
<1>14. ASSUME NEW u \in Txs \ {t}, NEW d, d = tx[u]
       PROVE  SoundTx(d)'
  <2>1. d \in TxRecord /\ SoundTx(d) /\ TxsApart(tx[t], d)
    BY <1>14 DEF SessionsInvariant, SessionsTypeOK
  <2>2. f \notin d.families /\ <<"device", h>> \notin d.locks
    BY <1>2, <1>4, <2>1 DEF TxsApart
  <2>3. family'[f].at # "none" /\ <<"device", family'[f].device>> \notin d.locks
    BY <1>10, <2>2
  <2>4. \A n \in Issued' : n \in Issued \/ (n = m /\ pairs'[n].family = f)
    BY <1>5, <1>8
  <2>5. \A n \in Issued : pairs'[n].family = pairs[n].family
    BY <1>7
  <2> QED BY <1>2, <1>4, <1>8, <1>9, <1>10, <2>1, <2>2, <2>3, <2>4, <2>5, GrowthKeepsOthers, SMTT(60)
<1>15. replayed' \subseteq Families /\ handset' \in [Handsets -> {"active", "revoked"}]
  BY <1>1, <1>2 DEF SessionsTypeOK
<1> QED BY <1>2, <1>7, <1>10, <1>12, <1>13, <1>14, <1>15, TxEndKeepsSessions DEF FamilyRecord

LEMMA RotateCommitsKeepsSessions ==
    ASSUME SessionsInvariant, NEW t \in Txs, RotateCommits(t)
    PROVE  SessionsInvariant'
<1>0. PICK k : k = tx[t].pair
  OBVIOUS
<1>1. /\ tx[t] \in TxRecord /\ SoundTx(tx[t]) /\ SessionsTypeOK /\ SoundPairs /\ SoundFamilies
      /\ family \in [Families -> FamilyRecord]
  BY DEF SessionsInvariant, SessionsTypeOK, FamilyRecord
<1>2. /\ tx[t].at = "advance" /\ Len(pairs) < MaxPairs /\ tx' = [tx EXCEPT ![t] = NoTx]
      /\ UNCHANGED <<handset, family, replayed>> /\ ~Locked(t, <<"family", pairs[k].family>>)
  BY <1>0 DEF RotateCommits, TxIs
<1>3. k \in Issued /\ <<"pair", k>> \in tx[t].locks /\ ~pairs[k].used /\ pairs[k] \in PairRecord /\ k \in 1..MaxPairs
  BY <1>0, <1>1, <1>2, IssuedIsInterval DEF SoundTx
<1>4. PICK f \in Families : f = pairs[k].family /\ family[f].at # "none"
  BY <1>1, <1>3, PairFields DEF SoundPairs
<1>5. CASE family[f].at = "revoked"
  <2>1. pairs' = pairs
    BY <1>0, <1>4, <1>5 DEF RotateCommits
  <2> QED BY <1>2, <2>1, FailKeepsSessions
<1>6. CASE family[f].at # "revoked"
  <2>1. family[f].at = "live"
    BY <1>1, <1>4, <1>6 DEF FamilyRecord
  <2>2. PICK q : q = [pairs EXCEPT ![k].used = TRUE]
    OBVIOUS
  <2>3. pairs' = Append(q, Insert(f, k))
    BY <1>0, <1>4, <1>6, <2>2, Zenon DEF RotateCommits
  <2>4. /\ q \in Seq(PairRecord) /\ Len(q) = Len(pairs) /\ \A n \in Issued \ {k} : q[n] = pairs[n]
        /\ SameBut(q[k], pairs[k]) /\ q[k].used
    <3>1. PICK p \in PairRecord : p = pairs[k]
      BY <1>3
    <3>2. PICK yes \in BOOLEAN : yes = TRUE
      OBVIOUS
    <3>3. PICK o : o = [p EXCEPT !.used = yes]
      OBVIOUS
    <3>4. o \in PairRecord /\ o.family = p.family /\ o.parent = p.parent /\ o.used = yes /\ o.revoked = p.revoked
      BY <3>3, UsedRecord
    <3>5. q = [pairs EXCEPT ![k] = o]
      BY <2>2, <3>1, <3>2, <3>3
    <3>6. pairs \in Seq(PairRecord) /\ k \in 1..Len(pairs) /\ Issued = 1..Len(pairs)
      BY <1>1, <1>3, IssuedIsInterval DEF SessionsTypeOK
    <3>7. q \in Seq(PairRecord) /\ Len(q) = Len(pairs) /\ q[k] = o /\ \A n \in Issued \ {k} : q[n] = pairs[n]
      BY <3>4, <3>5, <3>6
    <3> QED BY <3>1, <3>2, <3>4, <3>7 DEF SameBut
  <2>5. PICK r \in PairRecord : r = Insert(f, k) /\ r.family = f /\ r.parent = k
    <3>1. k \in 0..MaxPairs
      BY <1>3, SessionsAssumption
    <3> QED BY <3>1, InsertIsRecord
  <2>6. PICK m : m = Len(pairs) + 1
    OBVIOUS
  <2>7. /\ pairs' \in Seq(PairRecord) /\ Len(pairs') <= MaxPairs
        /\ Issued' = 1..(Len(pairs) + 1) /\ Len(pairs) \in Nat /\ Issued = 1..Len(pairs)
        /\ \A n \in Issued : n \in Issued' /\ pairs'[n] = q[n]
        /\ pairs'[Len(pairs) + 1] = r
        /\ \A n \in Issued' : n \in Issued \/ n = Len(pairs) + 1
    <3>1. pairs' = Append(q, r)
      BY <2>3, <2>5
    <3> QED BY <1>1, <1>2, <2>4, <3>1, AppendedPairs
  <2>8. m \notin Issued /\ m \in Issued' /\ pairs'[m] = r /\ Issued \subseteq Issued' /\ \A n \in Issued' : n \in Issued \/ n = m
    BY <2>6, <2>7
  <2>9. /\ \A n \in Issued \ {k} : pairs'[n] = pairs[n]
        /\ SameBut(pairs'[k], pairs[k]) /\ pairs'[k].used
    BY <1>3, <2>4, <2>7
  <2>10. \A n \in Issued : SameBut(pairs'[n], pairs[n]) /\ (pairs[n].used => pairs'[n].used)
    BY <2>9 DEF SameBut
  <2>11. \A n \in Issued : pairs[n].parent # k
    <3>1. k # 0
      BY <1>3, SessionsAssumption
    <3> QED BY <1>1, <1>3, <3>1 DEF SoundPairs
  <2>12. SoundPairs'
    BY <1>2, <1>3, <2>1, <2>5, <2>8, <2>9, <2>10, <2>11, GrowthKeepsPairs
  <2>13. SoundFamilies'
    BY <1>1, <1>2 DEF SoundFamilies
  <2>14. ASSUME NEW u \in Txs \ {t}, NEW d, d = tx[u]
         PROVE  SoundTx(d)'
    <3>1. d \in TxRecord /\ SoundTx(d) /\ TxsApart(tx[t], d) /\ <<"family", f>> \notin d.locks
      BY <1>2, <1>4, <2>14, UnlockedIsFree DEF SessionsInvariant, SessionsTypeOK
    <3>2. d.at \in {"create", "families", "tokens"} => f \notin d.families
      <4>1. d.at \in {"families", "tokens"} => \A g \in d.families : <<"family", g>> \in d.locks
        BY <3>1, Zenon DEF SoundTx
      <4>2. d.at = "create" => \A g \in d.families : family[g].at = "none"
        BY <3>1 DEF SoundTx
      <4> QED BY <1>4, <3>1, <4>1, <4>2
    <3>3. <<"pair", k>> \notin d.locks
      BY <1>3, <3>1 DEF TxsApart
    <3>4. \A n \in Issued : <<"pair", n>> \in d.locks => pairs'[n].used = pairs[n].used
      BY <2>9, <3>3
    <3>5. \A n \in Issued' : n \in Issued \/ (n = m /\ pairs'[n].family = f)
      BY <2>5, <2>8
    <3>6. \A n \in Issued : pairs'[n].family = pairs[n].family
      BY <2>10 DEF SameBut
    <3>7. family'[f].at # "none" /\ family'[f] = family[f] /\ \A g \in Families \ {f} : family'[g] = family[g]
      BY <1>2, <1>4
    <3> QED BY <1>2, <2>8, <3>1, <3>2, <3>4, <3>5, <3>6, <3>7, GrowthKeepsOthers
  <2>15. /\ replayed' \subseteq Families /\ handset' \in [Handsets -> {"active", "revoked"}]
         /\ family' \in [Families -> [device : Handsets, at : {"none", "live", "revoked"}]]
    BY <1>1, <1>2 DEF SessionsTypeOK
  <2> QED BY <1>2, <2>7, <2>12, <2>13, <2>14, <2>15, TxEndKeepsSessions
<1> QED BY <1>5, <1>6

\* The families a revocation holds, their pairs and the device are revoked together.
LEMMA RevokeCommitsKeepsSessions ==
    ASSUME SessionsInvariant, NEW t \in Txs, RevokeCommits(t)
    PROVE  SessionsInvariant'
<1>0. PICK c : c = tx[t]
  OBVIOUS
<1>1. /\ c \in TxRecord /\ SoundTx(c) /\ SessionsTypeOK /\ SoundPairs /\ SoundFamilies
      /\ family \in [Families -> FamilyRecord] /\ handset \in [Handsets -> {"active", "revoked"}]
  BY <1>0 DEF SessionsInvariant, SessionsTypeOK, FamilyRecord
<1>2. /\ c.at = "tokens" /\ tx' = [tx EXCEPT ![t] = NoTx]
      /\ family' = [f \in Families |->
            IF f \in c.families THEN [family[f] EXCEPT !.at = "revoked"] ELSE family[f]]
      /\ pairs' = [n \in Issued |->
            IF n \in c.seen THEN [pairs[n] EXCEPT !.revoked = TRUE] ELSE pairs[n]]
      /\ handset' = [h \in Handsets |-> IF h \in c.device THEN "revoked" ELSE handset[h]]
  BY <1>0, Zenon DEF RevokeCommits, TxIs
<1>3. replayed' = replayed \/ replayed' = replayed \cup c.families
  BY <1>0, Zenon DEF RevokeCommits
<1>4. /\ \A f \in c.families : f \in Families /\ family[f].at # "none" /\ <<"family", f>> \in c.locks
      /\ \A h \in c.device : <<"device", h>> \in c.locks /\ FamiliesOf(h) \subseteq c.families
      /\ PairsOf(c.families) \subseteq c.seen
  <2>1. /\ \A f \in c.families : family[f].at # "none" /\ <<"family", f>> \in c.locks
        /\ \A h \in c.device : <<"device", h>> \in c.locks /\ FamiliesOf(h) \subseteq c.families
        /\ PairsOf(c.families) \subseteq c.seen
    BY <1>1, <1>2, Zenon DEF SoundTx
  <2> QED BY <1>1, <2>1, TxFields
<1>5. \A f \in Families : /\ family'[f] \in FamilyRecord /\ family'[f].device = family[f].device
                          /\ f \in c.families => family'[f].at = "revoked"
                          /\ f \notin c.families => family'[f].at = family[f].at
  BY <1>1, <1>2 DEF FamilyRecord
<1>6. family' \in [Families -> FamilyRecord]
  BY <1>2, <1>5
<1>7. \A h \in Handsets : handset'[h] = IF h \in c.device THEN "revoked" ELSE handset[h]
  BY <1>2
<1>8. handset' \in [Handsets -> {"active", "revoked"}]
  BY <1>1, <1>2
<1>9. ASSUME NEW n \in Issued
      PROVE  /\ pairs'[n] \in PairRecord /\ pairs'[n].family = pairs[n].family
             /\ pairs'[n].parent = pairs[n].parent /\ pairs'[n].used = pairs[n].used
             /\ n \in c.seen => pairs'[n].revoked
             /\ n \notin c.seen => pairs'[n].revoked = pairs[n].revoked
  <2>1. PICK p \in PairRecord : p = pairs[n]
    BY <1>1, IssuedIsInterval
  <2>2. PICK yes \in BOOLEAN : yes = TRUE
    OBVIOUS
  <2>3. PICK o : o = [p EXCEPT !.revoked = yes]
    OBVIOUS
  <2>4. o \in PairRecord /\ o.family = p.family /\ o.parent = p.parent /\ o.used = p.used /\ o.revoked = yes
    BY <2>3, RevokedRecord
  <2>5. pairs'[n] = IF n \in c.seen THEN o ELSE p
    BY <1>2, <2>1, <2>2, <2>3
  <2> QED BY <2>1, <2>2, <2>4, <2>5
<1>10. pairs' \in Seq(PairRecord) /\ Len(pairs') = Len(pairs) /\ Issued' = Issued
  <2>1. Issued = 1..Len(pairs) /\ Len(pairs) \in Nat
    BY <1>1, IssuedIsInterval
  <2>2. DOMAIN pairs' = 1..Len(pairs) /\ pairs' = [n \in 1..Len(pairs) |-> pairs'[n]]
    BY <1>2, <2>1
  <2>3. pairs' \in [1..Len(pairs) -> PairRecord]
    BY <1>9, <2>1, <2>2
  <2>4. pairs' \in Seq(PairRecord)
    BY <2>1, <2>3, SeqDef
  <2>5. Len(pairs') = Len(pairs)
    BY <2>1, <2>2, <2>4, LenProperties
  <2> QED BY <2>1, <2>2, <2>4, <2>5 DEF Issued
<1>11. SoundPairs'
  <2>1. ASSUME NEW n \in Issued'
        PROVE  /\ family'[pairs'[n].family].at # "none"
               /\ family'[pairs'[n].family].at = "revoked" => pairs'[n].revoked
               /\ pairs'[n].parent # 0 => pairs'[n].parent \in Issued' /\ pairs'[pairs'[n].parent].used
    <3>1. PICK f \in Families : f = pairs[n].family /\ n \in Issued /\ pairs'[n].family = f
      BY <1>1, <1>9, <1>10, IssuedIsInterval, PairFields
    <3>2. family[f].at # "none" /\ (family[f].at = "revoked" => pairs[n].revoked)
      BY <1>1, <3>1 DEF SoundPairs
    <3>3. f \in c.families => n \in c.seen
      BY <1>4, <3>1 DEF PairsOf
    <3>4. pairs[n].revoked => pairs'[n].revoked
      BY <1>9, <3>1
    <3>5. family'[f].at # "none" /\ (family'[f].at = "revoked" => pairs'[n].revoked)
      BY <1>5, <1>9, <3>1, <3>2, <3>3, <3>4
    <3>6. pairs[n].parent # 0 => pairs[n].parent \in Issued /\ pairs[pairs[n].parent].used
      BY <1>1, <3>1 DEF SoundPairs
    <3> QED BY <1>9, <1>10, <3>1, <3>5, <3>6
  <2>2. \A n, k \in Issued' : n # k /\ pairs'[n].parent = pairs'[k].parent => pairs'[n].parent = 0
    BY <1>1, <1>9, <1>10 DEF SoundPairs
  <2> QED BY <2>1, <2>2 DEF SoundPairs
<1>12. SoundFamilies'
  <2>1. ASSUME NEW f \in Families, family'[f].at # "none", handset'[family'[f].device] = "revoked"
        PROVE  family'[f].at = "revoked"
    <3>1. PICK h \in Handsets : h = family[f].device
      BY <1>1 DEF FamilyRecord
    <3>2. CASE f \in c.families
      BY <1>5, <3>2
    <3>3. CASE f \notin c.families
      <4>1. family[f].at # "none" /\ handset'[h] = "revoked"
        BY <1>5, <2>1, <3>1, <3>3
      <4>2. h \notin c.device
        BY <1>4, <3>1, <3>3, <4>1 DEF FamiliesOf
      <4>3. handset[h] = "revoked"
        BY <1>7, <4>1, <4>2
      <4> QED BY <1>1, <1>5, <3>1, <3>3, <4>1, <4>3 DEF SoundFamilies
    <3> QED BY <3>2, <3>3
  <2>2. ASSUME NEW f \in replayed'
        PROVE  family'[f].at = "revoked"
    <3>1. f \in Families /\ (f \in c.families \/ family[f].at = "revoked")
      BY <1>1, <1>3, <1>4 DEF SoundFamilies, SessionsTypeOK
    <3> QED BY <1>5, <3>1
  <2> QED BY <2>1, <2>2 DEF SoundFamilies
<1>13. ASSUME NEW u \in Txs \ {t}, NEW d, d = tx[u]
       PROVE  SoundTx(d)'
  <2>1. d \in TxRecord /\ SoundTx(d) /\ TxsApart(c, d)
    BY <1>0, <1>13 DEF SessionsInvariant, SessionsTypeOK
  <2>2. d.families \subseteq Families /\ d.device \subseteq Handsets
    BY <2>1, TxFields
  <2>3. ASSUME d.at = "create"
        PROVE  \E f \in Families, h \in Handsets :
                   /\ d.families = {f} /\ family'[f].at = "none"
                   /\ d.device = {h} /\ handset'[h] = "active" /\ <<"device", h>> \in d.locks
    <3>1. PICK f \in Families, h \in Handsets :
            /\ d.families = {f} /\ family[f].at = "none"
            /\ d.device = {h} /\ handset[h] = "active" /\ <<"device", h>> \in d.locks
      BY <2>1, <2>3 DEF SoundTx
    <3>2. f \notin c.families
      BY <1>4, <3>1
    <3>3. h \notin c.device
      BY <1>4, <2>1, <3>1 DEF TxsApart
    <3> QED BY <1>5, <1>7, <3>1, <3>2, <3>3
  <2>4. d.at \in {"rotate", "replay", "advance"} => d.pair \in Issued' /\ d.device = {}
    BY <1>10, <2>1 DEF SoundTx
  <2>5. d.at = "advance" => <<"pair", d.pair>> \in d.locks /\ ~pairs'[d.pair].used
    <3>1. d.at = "advance" => d.pair \in Issued /\ <<"pair", d.pair>> \in d.locks /\ ~pairs[d.pair].used
      BY <2>1, Zenon DEF SoundTx
    <3> QED BY <1>9, <3>1
  <2>6. d.at = "device" => \A h \in d.device : <<"device", h>> \in d.locks
    BY <2>1, Zenon DEF SoundTx
  <2>7. ASSUME d.at \in {"families", "tokens"}
        PROVE  /\ \A f \in d.families : family[f].at # "none" /\ <<"family", f>> \in d.locks
               /\ \A h \in d.device : <<"device", h>> \in d.locks /\ FamiliesOf(h) \subseteq d.families
    BY <2>1, <2>7, Zenon DEF SoundTx
  <2>8. \A f \in Families : family'[f].at # "none" <=> family[f].at # "none"
    BY <1>4, <1>5
  <2>9. \A h : FamiliesOf(h)' = FamiliesOf(h)
    BY <1>5, <2>8 DEF FamiliesOf
  <2>10. ASSUME d.at \in {"families", "tokens"}
         PROVE  /\ \A f \in d.families : family'[f].at # "none" /\ <<"family", f>> \in d.locks
                /\ \A h \in d.device : <<"device", h>> \in d.locks /\ FamiliesOf(h)' \subseteq d.families
    BY <2>2, <2>7, <2>8, <2>9, <2>10
  <2>11. PairsOf(d.families)' = PairsOf(d.families)
    BY <1>9, <1>10 DEF PairsOf
  <2>12. d.at = "tokens" => PairsOf(d.families)' \subseteq d.seen
    BY <2>1, <2>11 DEF SoundTx
  <2> QED BY <2>3, <2>4, <2>5, <2>6, <2>10, <2>12, Zenon DEF SoundTx
<1>14. replayed' \subseteq Families /\ Len(pairs') <= MaxPairs
  BY <1>1, <1>3, <1>4, <1>10 DEF SessionsTypeOK
<1>15. family' \in [Families -> [device : Handsets, at : {"none", "live", "revoked"}]]
  BY <1>6 DEF FamilyRecord
<1>16. tx' = [tx EXCEPT ![t] = NoTx]
  BY <1>2
<1> QED BY <1>8, <1>10, <1>11, <1>12, <1>13, <1>14, <1>15, <1>16, TxEndKeepsSessions

(* For any devices, families, transactions and bound on pairs: however issue,  *)
(* rotation, replay and revocation interleave, no credential of a revoked      *)
(* family or device is usable, a refresh credential has one successor at most, *)
(* and a family with a reported replay is revoked (session.Manager on          *)
(* postgres.SessionStore).                                                     *)
THEOREM RevokedStaysDead == SessionsSpec => []RevokedMeansDead
<1>1. SessionsInit => SessionsInvariant
  <2> SUFFICES ASSUME SessionsInit PROVE SessionsInvariant
    OBVIOUS
  <2>1. /\ handset = [h \in Handsets |-> "active"] /\ pairs = <<>> /\ replayed = {}
        /\ family \in [Families -> [device : Handsets, at : {"none"}]]
        /\ tx = [t \in Txs |-> NoTx]
    BY DEF SessionsInit
  <2>2. SessionsTypeOK
    <3>1. family \in [Families -> [device : Handsets, at : {"none", "live", "revoked"}]]
      BY <2>1
    <3>2. pairs \in Seq(PairRecord) /\ Len(pairs) <= MaxPairs
      BY <2>1, SessionsAssumption
    <3>3. tx \in [Txs -> TxRecord]
      BY <2>1, NoTxIsRecord
    <3> QED BY <2>1, <3>1, <3>2, <3>3 DEF SessionsTypeOK
  <2>3. SoundPairs
    <3>1. Issued = {}
      BY <2>1 DEF Issued
    <3> QED BY <3>1 DEF SoundPairs
  <2>4. SoundFamilies
    BY <2>1 DEF SoundFamilies
  <2>5. \A t \in Txs : tx[t] = NoTx
    BY <2>1
  <2> QED BY <2>2, <2>3, <2>4, <2>5, NoTxIsSound DEF SessionsInvariant
<1>2. SessionsInvariant /\ [SessionsNext]_sessionVars => SessionsInvariant'
  <2> SUFFICES ASSUME SessionsInvariant, [SessionsNext]_sessionVars PROVE SessionsInvariant'
    OBVIOUS
  <2>1. CASE UNCHANGED sessionVars
    <3>1. UNCHANGED <<handset, family, pairs, tx, replayed>>
      BY <2>1 DEF sessionVars
    <3>2. SessionsTypeOK'
      BY <3>1 DEF SessionsInvariant, SessionsTypeOK
    <3>3. SoundPairs' /\ SoundFamilies'
      BY <3>1 DEF SessionsInvariant, SoundPairs, SoundFamilies, Issued
    <3>4. ASSUME NEW t \in Txs
          PROVE  SoundTx(tx[t])'
      <4>1. SoundTx(tx[t])
        BY DEF SessionsInvariant
      <4> QED BY <3>1, <4>1, Zenon DEF SoundTx, Issued, PairsOf, FamiliesOf
    <3>5. \A t, u \in Txs : t # u => TxsApart(tx[t], tx[u])'
      BY <3>1 DEF SessionsInvariant, TxsApart
    <3> QED BY <3>2, <3>3, <3>4, <3>5 DEF SessionsInvariant
  <2>2. ASSUME NEW t \in Txs, Fail(t)
        PROVE  SessionsInvariant'
    BY <2>2, FailKeepsSessions DEF Fail, TxIs
  <2>3. CASE SessionsNext
    BY <2>2, <2>3, RevokeStartsKeepsSessions, CreateLocksKeepsSessions, CreateCommitsKeepsSessions,
       RotateStartsKeepsSessions, RotateLocksKeepsSessions, RotateCommitsKeepsSessions,
       ReplayRevokesKeepsSessions, RevokeDeviceStartsKeepsSessions, RevokeDeviceFamiliesKeepsSessions,
       SeesTokensKeepsSessions, RevokeCommitsKeepsSessions, Zenon
       DEF SessionsNext
  <2> QED BY <2>1, <2>3
<1>3. SessionsInvariant => RevokedMeansDead
  <2> SUFFICES ASSUME SessionsInvariant PROVE RevokedMeansDead
    OBVIOUS
  <2>1. SoundPairs /\ SoundFamilies /\ SessionsTypeOK
    BY DEF SessionsInvariant
  <2>2. \A n \in Issued : pairs[n].family \in Families
    BY <2>1, IssuedIsInterval, PairFields
  <2> QED BY <2>1, <2>2 DEF RevokedMeansDead, SoundPairs, SoundFamilies
<1> QED BY <1>1, <1>2, <1>3, PTL DEF SessionsSpec

-----------------------------------------------------------------------------
(* Enrollment *)

LEMMA NoTablesIsTables == NoTables \in Tables
BY DEF NoTables, Tables

LEMMA NoRequestIsRequest ==
    /\ NoRequest \in EnrollmentRequest /\ NoRequest.at = "idle" /\ NoRequest.recovery = FALSE
    /\ NoRequest.token = {} /\ NoRequest.key = {} /\ NoRequest.seen \in Tables
BY NoTablesIsTables DEF NoRequest, EnrollmentRequest

LEMMA NoCommandIsCommand ==
    NoCommand \in [at : {"idle", "checked", "replace", "reset"}, seen : Tables]
    /\ NoCommand.at = "idle"
BY NoTablesIsTables DEF NoCommand

LEMMA SnapshotIsTables ==
    ASSUME EnrollmentInvariant
    PROVE  Snapshot \in Tables /\ Snapshot.passkeys = passkeys
BY DEF EnrollmentInvariant, OwnerFacts, CredentialFacts, Snapshot, Tables

LEMMA IdleIsSound ==
    ASSUME NEW credentials, NEW keys, NEW q, q.at = "idle"
    PROVE  SoundRequest(q, credentials, keys)
BY DEF SoundRequest

\* What other requests hold stays sound when credentials only move on, and a
\* first passkey appears only when none is open for a recovery any more.
LEMMA SoundStays ==
    ASSUME NEW old \in [Bootstraps -> Credential], NEW new \in [Bootstraps -> Credential],
           NEW before, NEW after, NEW q \in EnrollmentRequest, SoundRequest(q, old, before),
           \A b \in Bootstraps : old[b].at # "none" =>
               /\ new[b].at # "none" /\ new[b].recovery = old[b].recovery
               /\ new[b].at = "open" => old[b].at = "open",
           \/ before # {} \/ after = {}
           \/ \A b \in Bootstraps : new[b].recovery => new[b].at # "open"
    PROVE  SoundRequest(q, new, after)
<1>1. ASSUME q.at \in {"begin", "ceremony", "enrol", "consume"}
      PROVE  \E b \in Bootstraps : /\ q.token = {b} /\ old[b].at # "none" /\ new[b].at # "none"
                                   /\ new[b].recovery = q.recovery
                                   /\ new[b].at = "open" => old[b].at = "open"
  BY <1>1 DEF SoundRequest
<1>2. ASSUME q.at = "enrol", q.recovery, q.seen.passkeys = {}, after # {}
      PROVE  \A b \in q.token : new[b].at # "open"
  <2>1. PICK b \in Bootstraps : /\ q.token = {b} /\ new[b].recovery = q.recovery
                                /\ new[b].at = "open" => old[b].at = "open"
    BY <1>1, <1>2
  <2>2. CASE before # {}
    BY <1>2, <2>1, <2>2 DEF SoundRequest
  <2>3. CASE \A c \in Bootstraps : new[c].recovery => new[c].at # "open"
    BY <1>2, <2>1, <2>3
  <2> QED BY <1>2, <2>2, <2>3
<1>3. q.at \in {"enrol", "consume", "add", "revoke"} => \E k \in Passkeys : q.key = {k}
  BY DEF SoundRequest
<1> QED BY <1>1, <1>2, <1>3 DEF SoundRequest

\* One request moves on or ends.
LEMMA RequestsStaySound ==
    ASSUME EnrollmentInvariant, NEW r \in Requests, NEW q \in EnrollmentRequest, RequestIs(r, q),
           SoundRequest(q, bootstrap', passkeys'), bootstrap' \in [Bootstraps -> Credential],
           \A b \in Bootstraps : bootstrap[b].at # "none" =>
               /\ bootstrap'[b].at # "none" /\ bootstrap'[b].recovery = bootstrap[b].recovery
               /\ bootstrap'[b].at = "open" => bootstrap[b].at = "open",
           \/ passkeys # {} \/ passkeys' = {}
           \/ \A b \in Bootstraps : bootstrap'[b].recovery => bootstrap'[b].at # "open"
    PROVE  /\ request' \in [Requests -> EnrollmentRequest]
           /\ \A s \in Requests : SoundRequest(request'[s], bootstrap', passkeys')
           /\ \A s \in Requests : s # r => request'[s] = request[s]
           /\ request'[r] = q
<1>1. /\ request \in [Requests -> EnrollmentRequest] /\ bootstrap \in [Bootstraps -> Credential]
      /\ \A s \in Requests : SoundRequest(request[s], bootstrap, passkeys)
  BY DEF EnrollmentInvariant, CredentialFacts
<1>2. request' = [request EXCEPT ![r] = q]
  BY DEF RequestIs
<1>3. /\ request' \in [Requests -> EnrollmentRequest] /\ request'[r] = q
      /\ \A s \in Requests : s # r => request'[s] = request[s]
  BY <1>1, <1>2
<1>4. ASSUME NEW s \in Requests, s # r
      PROVE  SoundRequest(request'[s], bootstrap', passkeys')
  <2>1. request[s] \in EnrollmentRequest /\ SoundRequest(request[s], bootstrap, passkeys)
    BY <1>1
  <2>2. SoundRequest(request[s], bootstrap', passkeys')
    BY <1>1, <2>1, SoundStays
  <2> QED BY <1>3, <1>4, <2>2
<1> QED BY <1>3, <1>4

\* A step of a request that leaves every table alone.
LEMMA RequestStepKeeps ==
    ASSUME EnrollmentInvariant, NEW r \in Requests, NEW q \in EnrollmentRequest, RequestIs(r, q),
           SoundRequest(q, bootstrap, passkeys), serving \/ q.at = "idle",
           UNCHANGED <<tables, command, serving>>
    PROVE  EnrollmentInvariant'
<1>1. UNCHANGED <<owners, bootstrap, passkeys, spent, recovering, command, serving>>
  BY DEF tables
<1>2. bootstrap \in [Bootstraps -> Credential]
  BY DEF EnrollmentInvariant, CredentialFacts
<1>3. /\ request' \in [Requests -> EnrollmentRequest]
      /\ \A s \in Requests : SoundRequest(request'[s], bootstrap', passkeys')
      /\ \A s \in Requests : s # r => request'[s] = request[s]
      /\ request'[r] = q
  BY <1>1, <1>2, RequestsStaySound
<1>4. OwnerFacts' /\ CredentialFacts'
  BY <1>1 DEF EnrollmentInvariant, OwnerFacts, CredentialFacts, Usable
<1>5. ~serving' => \A s \in Requests : request'[s].at = "idle"
  BY <1>1, <1>3 DEF EnrollmentInvariant
<1> QED BY <1>1, <1>3, <1>4, <1>5 DEF EnrollmentInvariant

LEMMA RequestTyped ==
    ASSUME EnrollmentInvariant, NEW r \in Requests
    PROVE  /\ request[r] \in EnrollmentRequest /\ SoundRequest(request[r], bootstrap, passkeys)
           /\ request[r].at # "idle" => serving
           /\ bootstrap \in [Bootstraps -> Credential]
BY DEF EnrollmentInvariant, CredentialFacts

LEMMA UnusedIsPasskey ==
    ASSUME Unused # {}
    PROVE  NewPasskey \in Passkeys
BY DEF Unused, NewPasskey

LEMMA BeginReadsTokenKeeps ==
    ASSUME EnrollmentInvariant, NEW r \in Requests, NEW b \in Bootstraps, BeginReadsToken(r, b)
    PROVE  EnrollmentInvariant'
<1> DEFINE q == [NoRequest EXCEPT !.at = "begin", !.token = {b}, !.recovery = bootstrap[b].recovery]
<1>1. bootstrap \in [Bootstraps -> Credential] /\ bootstrap[b].recovery \in BOOLEAN
      /\ bootstrap[b].at = "open"
  BY RequestTyped DEF Credential, BeginReadsToken, Usable
<1>2. q \in EnrollmentRequest /\ q.at = "begin" /\ q.token = {b} /\ q.recovery = bootstrap[b].recovery
  BY <1>1, NoRequestIsRequest DEF EnrollmentRequest
<1>3. RequestIs(r, q) /\ serving /\ UNCHANGED <<tables, command, serving>>
  BY DEF BeginReadsToken
<1> HIDE DEF q
<1>4. SoundRequest(q, bootstrap, passkeys)
  BY <1>1, <1>2 DEF SoundRequest
<1> QED BY <1>2, <1>3, <1>4, RequestStepKeeps

LEMMA FinishValidatesKeeps ==
    ASSUME EnrollmentInvariant, NEW r \in Requests, FinishValidates(r)
    PROVE  EnrollmentInvariant'
<1>1. /\ request[r] \in EnrollmentRequest /\ request[r].at = "ceremony" /\ serving
      /\ SoundRequest(request[r], bootstrap, passkeys) /\ UNCHANGED <<tables, command, serving>>
  BY RequestTyped DEF FinishValidates
<1>2. PICK b \in Bootstraps : /\ request[r].token = {b} /\ bootstrap[b].at # "none"
                              /\ bootstrap[b].recovery = request[r].recovery
  BY <1>1 DEF SoundRequest
<1>3. CASE RequestEnds(r)
  <2>1. RequestIs(r, NoRequest) /\ SoundRequest(NoRequest, bootstrap, passkeys)
    BY <1>3, NoRequestIsRequest, IdleIsSound DEF RequestEnds
  <2> QED BY <1>1, <2>1, NoRequestIsRequest, RequestStepKeeps
<1>4. CASE ~RequestEnds(r)
  <2> DEFINE q == [request[r] EXCEPT !.at = "enrol", !.key = {NewPasskey}, !.seen = Snapshot]
  <2>1. Unused # {} /\ RequestIs(r, q)
    BY <1>2, <1>4, Zenon DEF FinishValidates
  <2>2. NewPasskey \in Passkeys /\ Snapshot \in Tables /\ Snapshot.passkeys = passkeys
    BY <2>1, UnusedIsPasskey, SnapshotIsTables
  <2>3. /\ q \in EnrollmentRequest /\ q.at = "enrol" /\ q.key = {NewPasskey} /\ q.seen = Snapshot
        /\ q.token = {b} /\ q.recovery = bootstrap[b].recovery
    BY <1>1, <1>2, <2>2 DEF EnrollmentRequest
  <2> HIDE DEF q
  <2>4. SoundRequest(q, bootstrap, passkeys)
    BY <1>2, <2>2, <2>3 DEF SoundRequest
  <2> QED BY <1>1, <2>1, <2>3, <2>4, RequestStepKeeps
<1> QED BY <1>3, <1>4

LEMMA AddBeginsKeeps ==
    ASSUME EnrollmentInvariant, NEW r \in Requests, AddBegins(r)
    PROVE  EnrollmentInvariant'
<1> DEFINE q == [NoRequest EXCEPT !.at = "add", !.key = {NewPasskey}]
<1>1. RequestIs(r, q) /\ serving /\ Unused # {} /\ UNCHANGED <<tables, command, serving>>
  BY DEF AddBegins
<1>2. NewPasskey \in Passkeys
  BY <1>1, UnusedIsPasskey
<1>3. q \in EnrollmentRequest /\ q.at = "add" /\ q.key = {NewPasskey}
  BY <1>2, NoRequestIsRequest DEF EnrollmentRequest
<1> HIDE DEF q
<1>4. SoundRequest(q, bootstrap, passkeys)
  BY <1>2, <1>3 DEF SoundRequest
<1> QED BY <1>1, <1>3, <1>4, RequestStepKeeps

LEMMA RevokeBeginsKeeps ==
    ASSUME EnrollmentInvariant, NEW r \in Requests, NEW k \in Passkeys, RevokeBegins(r, k)
    PROVE  EnrollmentInvariant'
<1> DEFINE q == [NoRequest EXCEPT !.at = "revoke", !.key = {k}, !.seen = Snapshot]
<1>1. RequestIs(r, q) /\ serving /\ UNCHANGED <<tables, command, serving>>
  BY DEF RevokeBegins
<1>2. q \in EnrollmentRequest /\ q.at = "revoke" /\ q.key = {k}
  BY SnapshotIsTables, NoRequestIsRequest DEF EnrollmentRequest
<1> HIDE DEF q
<1>3. SoundRequest(q, bootstrap, passkeys)
  BY <1>2 DEF SoundRequest
<1> QED BY <1>1, <1>2, <1>3, RequestStepKeeps

\* Credentials that are disabled or expire: none opens, none is a new one.
LEMMA DisabledMovesOn ==
    ASSUME NEW bs \in [Bootstraps -> Credential]
    PROVE  /\ Disabled(bs) \in [Bootstraps -> Credential]
           /\ \A b \in Bootstraps : /\ Disabled(bs)[b].recovery = bs[b].recovery
                                    /\ Disabled(bs)[b].at # "open"
                                    /\ Disabled(bs)[b].at = "none" <=> bs[b].at = "none"
<1>1. ASSUME NEW b \in Bootstraps
      PROVE  /\ Disabled(bs)[b] \in Credential /\ Disabled(bs)[b].recovery = bs[b].recovery
             /\ Disabled(bs)[b].at # "open"
             /\ Disabled(bs)[b].at = "none" <=> bs[b].at = "none"
  <2>1. bs[b] \in Credential
    OBVIOUS
  <2>2. CASE bs[b].at \in {"open", "expired"}
    <3>1. Disabled(bs)[b] = [bs[b] EXCEPT !.at = "disabled"]
      BY <2>2 DEF Disabled
    <3> QED BY <2>1, <2>2, <3>1 DEF Credential
  <2>3. CASE bs[b].at \notin {"open", "expired"}
    <3>1. Disabled(bs)[b] = bs[b]
      BY <2>3 DEF Disabled
    <3> QED BY <2>1, <2>3, <3>1
  <2> QED BY <2>2, <2>3
<1>2. Disabled(bs) = [b \in Bootstraps |-> Disabled(bs)[b]]
  BY DEF Disabled
<1> QED BY <1>1, <1>2

LEMMA CredentialsMoveOn ==
    ASSUME CredentialFacts, UNCHANGED <<owners, spent>>, bootstrap' \in [Bootstraps -> Credential],
           \A b \in Bootstraps : /\ bootstrap'[b].recovery = bootstrap[b].recovery
                                 /\ bootstrap'[b].at = "none" <=> bootstrap[b].at = "none"
                                 /\ bootstrap'[b].at = "open" => bootstrap[b].at = "open"
    PROVE  CredentialFacts'
BY DEF CredentialFacts, Usable

LEMMA OwnerLeftAlone ==
    ASSUME OwnerFacts, UNCHANGED <<owners, passkeys, recovering, spent>>
    PROVE  OwnerFacts'
BY DEF OwnerFacts

\* A request ends, or moves on, with a statement on the credentials.
LEMMA RequestWithCredentials ==
    ASSUME EnrollmentInvariant, NEW r \in Requests, RequestEnds(r),
           UNCHANGED <<owners, passkeys, spent, recovering, command, serving>>,
           bootstrap' \in [Bootstraps -> Credential],
           \A b \in Bootstraps : /\ bootstrap'[b].recovery = bootstrap[b].recovery
                                 /\ bootstrap'[b].at = "none" <=> bootstrap[b].at = "none"
                                 /\ bootstrap'[b].at = "open" => bootstrap[b].at = "open"
    PROVE  EnrollmentInvariant'
<1>1. OwnerFacts' /\ CredentialFacts'
  BY OwnerLeftAlone, CredentialsMoveOn DEF EnrollmentInvariant
<1>2. RequestIs(r, NoRequest) /\ SoundRequest(NoRequest, bootstrap', passkeys')
  BY NoRequestIsRequest, IdleIsSound DEF RequestEnds
<1>3. /\ request' \in [Requests -> EnrollmentRequest]
      /\ \A s \in Requests : SoundRequest(request'[s], bootstrap', passkeys')
      /\ \A s \in Requests : s # r => request'[s] = request[s]
      /\ request'[r] = NoRequest
  BY <1>2, NoRequestIsRequest, RequestsStaySound
<1>4. ~serving' => \A s \in Requests : request'[s].at = "idle"
  BY <1>3, NoRequestIsRequest DEF EnrollmentInvariant
<1> QED BY <1>1, <1>3, <1>4 DEF EnrollmentInvariant

LEMMA BeginReadsOwnerKeeps ==
    ASSUME EnrollmentInvariant, NEW r \in Requests, BeginReadsOwner(r)
    PROVE  EnrollmentInvariant'
<1>1. /\ request[r] \in EnrollmentRequest /\ request[r].at = "begin" /\ serving
      /\ SoundRequest(request[r], bootstrap, passkeys) /\ bootstrap \in [Bootstraps -> Credential]
      /\ UNCHANGED <<owners, passkeys, spent, device, recovering, command, serving>>
  BY RequestTyped DEF BeginReadsOwner
<1>2. CASE bootstrap' = Disabled(bootstrap) /\ RequestEnds(r)
  BY <1>1, <1>2, DisabledMovesOn, RequestWithCredentials
<1>3. CASE UNCHANGED bootstrap /\ RequestEnds(r)
  BY <1>1, <1>3, RequestWithCredentials
<1>4. CASE UNCHANGED bootstrap /\ RequestIs(r, [request[r] EXCEPT !.at = "ceremony"])
  <2> DEFINE q == [request[r] EXCEPT !.at = "ceremony"]
  <2>1. /\ q \in EnrollmentRequest /\ q.at = "ceremony" /\ q.token = request[r].token
        /\ q.recovery = request[r].recovery
    BY <1>1 DEF EnrollmentRequest
  <2>2. RequestIs(r, q)
    BY <1>4
  <2> HIDE DEF q
  <2>3. SoundRequest(q, bootstrap, passkeys)
    BY <1>1, <2>1 DEF SoundRequest
  <2>4. UNCHANGED <<tables, command, serving>>
    BY <1>1, <1>4 DEF tables
  <2> QED BY <1>1, <2>1, <2>2, <2>3, <2>4, RequestStepKeeps
<1> QED BY <1>2, <1>3, <1>4, Zenon DEF BeginReadsOwner

\* One credential changes its state and stays what it is for.
LEMMA OneMovesOn ==
    ASSUME NEW bs \in [Bootstraps -> Credential], NEW b \in Bootstraps, bs[b].at # "none",
           NEW at \in {"consumed", "expired"}, NEW new, new = [bs EXCEPT ![b].at = at]
    PROVE  /\ new \in [Bootstraps -> Credential] /\ new[b].at = at
           /\ \A c \in Bootstraps : /\ new[c].recovery = bs[c].recovery
                                    /\ new[c].at = "none" <=> bs[c].at = "none"
                                    /\ new[c].at = "open" => bs[c].at = "open"
<1>1. bs[b] \in Credential
  OBVIOUS
<1>2. [bs[b] EXCEPT !.at = at] \in Credential /\ [bs[b] EXCEPT !.at = at].at = at
      /\ [bs[b] EXCEPT !.at = at].recovery = bs[b].recovery
  BY <1>1 DEF Credential
<1>3. new[b] = [bs[b] EXCEPT !.at = at] /\ \A c \in Bootstraps : c # b => new[c] = bs[c]
  OBVIOUS
<1>4. new \in [Bootstraps -> Credential]
  BY <1>2
<1>5. ASSUME NEW c \in Bootstraps
      PROVE  /\ new[c].recovery = bs[c].recovery /\ new[c].at = "none" <=> bs[c].at = "none"
             /\ new[c].at = "open" => bs[c].at = "open"
  <2>1. CASE c = b
    BY <1>2, <1>3, <2>1
  <2>2. CASE c # b
    BY <1>3, <2>2
  <2> QED BY <2>1, <2>2
<1>6. new[b].at = at
  BY <1>2, <1>3
<1> QED BY <1>4, <1>5, <1>6

LEMMA ConsumeTokenKeeps ==
    ASSUME EnrollmentInvariant, NEW r \in Requests, ConsumeToken(r)
    PROVE  EnrollmentInvariant'
<1>1. /\ request[r].at = "consume" /\ RequestEnds(r) /\ bootstrap \in [Bootstraps -> Credential]
      /\ SoundRequest(request[r], bootstrap, passkeys)
      /\ UNCHANGED <<owners, passkeys, spent, recovering, command, serving>>
  BY RequestTyped DEF ConsumeToken
<1>2. PICK b \in Bootstraps : request[r].token = {b} /\ bootstrap[b].at # "none"
  BY <1>1 DEF SoundRequest
<1>3. CASE bootstrap' = [bootstrap EXCEPT ![b].at = "consumed"]
  <2>1. /\ bootstrap' \in [Bootstraps -> Credential]
        /\ \A c \in Bootstraps : /\ bootstrap'[c].recovery = bootstrap[c].recovery
                                 /\ bootstrap'[c].at = "none" <=> bootstrap[c].at = "none"
                                 /\ bootstrap'[c].at = "open" => bootstrap[c].at = "open"
    BY <1>1, <1>2, <1>3, OneMovesOn
  <2> QED BY <1>1, <2>1, RequestWithCredentials
<1>4. CASE bootstrap' = Disabled(bootstrap)
  BY <1>1, <1>4, DisabledMovesOn, RequestWithCredentials
<1> QED BY <1>2, <1>3, <1>4, Zenon DEF ConsumeToken

\* A step that leaves the requests alone.
LEMMA TablesStep ==
    ASSUME EnrollmentInvariant, UNCHANGED request, OwnerFacts', CredentialFacts',
           \A b \in Bootstraps : bootstrap[b].at # "none" =>
               /\ bootstrap'[b].at # "none" /\ bootstrap'[b].recovery = bootstrap[b].recovery
               /\ bootstrap'[b].at = "open" => bootstrap[b].at = "open",
           passkeys' \subseteq passkeys
    PROVE  \A r \in Requests : SoundRequest(request'[r], bootstrap', passkeys')
<1> TAKE r \in Requests
<1>1. /\ request[r] \in EnrollmentRequest /\ SoundRequest(request[r], bootstrap, passkeys)
      /\ bootstrap \in [Bootstraps -> Credential] /\ bootstrap' \in [Bootstraps -> Credential]
      /\ request'[r] = request[r]
  BY RequestTyped DEF CredentialFacts
<1>2. passkeys # {} \/ passkeys' = {}
  OBVIOUS
<1>3. SoundRequest(request[r], bootstrap', passkeys')
  BY <1>1, <1>2, SoundStays
<1> QED BY <1>1, <1>3

LEMMA BootstrapExpiresKeeps ==
    ASSUME EnrollmentInvariant, NEW b \in Bootstraps, BootstrapExpires(b)
    PROVE  EnrollmentInvariant'
<1>1. /\ bootstrap \in [Bootstraps -> Credential] /\ bootstrap[b].at # "none"
      /\ bootstrap' = [bootstrap EXCEPT ![b].at = "expired"]
      /\ UNCHANGED <<owners, passkeys, spent, recovering, request, command, serving>>
  BY DEF EnrollmentInvariant, CredentialFacts, BootstrapExpires, Usable
<1>2. /\ bootstrap' \in [Bootstraps -> Credential]
      /\ \A c \in Bootstraps : /\ bootstrap'[c].recovery = bootstrap[c].recovery
                               /\ bootstrap'[c].at = "none" <=> bootstrap[c].at = "none"
                               /\ bootstrap'[c].at = "open" => bootstrap[c].at = "open"
  BY <1>1, OneMovesOn
<1>3. OwnerFacts' /\ CredentialFacts'
  BY <1>1, <1>2, OwnerLeftAlone, CredentialsMoveOn DEF EnrollmentInvariant
<1>4. \A r \in Requests : SoundRequest(request'[r], bootstrap', passkeys')
  BY <1>1, <1>2, <1>3, TablesStep
<1> QED BY <1>1, <1>3, <1>4 DEF EnrollmentInvariant

\* Nothing of the invariant's moves but the command.
LEMMA CommandStepKeeps ==
    ASSUME EnrollmentInvariant,
           UNCHANGED <<owners, bootstrap, passkeys, spent, recovering, request>>,
           serving' = serving \/ serving',
           command' \in [at : {"idle", "checked", "replace", "reset"}, seen : Tables],
           command'.at = "reset" => /\ ~serving' /\ owners = 1
                                    /\ passkeys \subseteq command'.seen.passkeys
    PROVE  EnrollmentInvariant'
<1>1. OwnerFacts' /\ CredentialFacts'
  BY DEF EnrollmentInvariant, OwnerFacts, CredentialFacts, Usable
<1>2. ~serving' => \A r \in Requests : request'[r].at = "idle"
  BY DEF EnrollmentInvariant
<1> QED BY <1>1, <1>2 DEF EnrollmentInvariant

LEMMA BootstrapChecksKeeps ==
    ASSUME EnrollmentInvariant, BootstrapChecks
    PROVE  EnrollmentInvariant'
<1>1. /\ command' = [NoCommand EXCEPT !.at = "checked"]
      /\ UNCHANGED <<owners, bootstrap, passkeys, spent, recovering, request, serving>>
  BY DEF BootstrapChecks, tables
<1>2. /\ command' \in [at : {"idle", "checked", "replace", "reset"}, seen : Tables]
      /\ command'.at = "checked"
  BY <1>1, NoCommandIsCommand
<1> QED BY <1>1, <1>2, CommandStepKeeps

LEMMA ReplaceBeginsKeeps ==
    ASSUME EnrollmentInvariant, ReplaceBegins
    PROVE  EnrollmentInvariant'
<1>1. /\ command' = [at |-> "replace", seen |-> Snapshot]
      /\ UNCHANGED <<owners, bootstrap, passkeys, spent, recovering, request, serving>>
  BY DEF ReplaceBegins, tables
<1>2. /\ command' \in [at : {"idle", "checked", "replace", "reset"}, seen : Tables]
      /\ command'.at = "replace"
  BY <1>1, SnapshotIsTables
<1> QED BY <1>1, <1>2, CommandStepKeeps

LEMMA ResetBeginsKeeps ==
    ASSUME EnrollmentInvariant, ResetBegins
    PROVE  EnrollmentInvariant'
<1>1. /\ command' = [at |-> "reset", seen |-> Snapshot] /\ ~serving /\ owners > 0
      /\ UNCHANGED <<owners, bootstrap, passkeys, spent, recovering, request, serving>>
  BY DEF ResetBegins, tables
<1>2. /\ command' \in [at : {"idle", "checked", "replace", "reset"}, seen : Tables]
      /\ command'.seen.passkeys = passkeys
  BY <1>1, SnapshotIsTables
<1>3. owners = 1
  BY <1>1 DEF EnrollmentInvariant, OwnerFacts
<1> QED BY <1>1, <1>2, <1>3, CommandStepKeeps

LEMMA ServeStartsKeeps ==
    ASSUME EnrollmentInvariant, ServeStarts
    PROVE  EnrollmentInvariant'
<1>1. /\ command.at # "reset" /\ serving'
      /\ UNCHANGED <<owners, bootstrap, passkeys, spent, recovering, request, command>>
  BY DEF ServeStarts, tables
<1>2. command' \in [at : {"idle", "checked", "replace", "reset"}, seen : Tables]
  BY <1>1 DEF EnrollmentInvariant
<1> QED BY <1>1, <1>2, CommandStepKeeps

\* Logins and revocations of the device, or nothing at all.
LEMMA DeviceStepKeeps ==
    ASSUME EnrollmentInvariant,
           UNCHANGED <<owners, bootstrap, passkeys, spent, recovering, request, command, serving>>
    PROVE  EnrollmentInvariant'
<1>1. /\ command' \in [at : {"idle", "checked", "replace", "reset"}, seen : Tables]
      /\ command'.at = "reset" => /\ ~serving' /\ owners = 1
                                  /\ passkeys \subseteq command'.seen.passkeys
  BY DEF EnrollmentInvariant
<1> QED BY <1>1, CommandStepKeeps

LEMMA ServeStopsKeeps ==
    ASSUME EnrollmentInvariant, ServeStops
    PROVE  EnrollmentInvariant'
<1>1. /\ UNCHANGED <<owners, bootstrap, passkeys, spent, recovering, command>> /\ ~serving'
      /\ request' = [r \in Requests |-> NoRequest]
  BY DEF ServeStops, tables
<1>2. OwnerFacts' /\ CredentialFacts'
  BY <1>1 DEF EnrollmentInvariant, OwnerFacts, CredentialFacts, Usable
<1>3. request' \in [Requests -> EnrollmentRequest] /\ \A r \in Requests : request'[r].at = "idle"
  BY <1>1, NoRequestIsRequest
<1>4. \A r \in Requests : SoundRequest(request'[r], bootstrap', passkeys')
  BY <1>3, IdleIsSound
<1> QED BY <1>1, <1>2, <1>3, <1>4 DEF EnrollmentInvariant

\* The only credential that is open after Replace or Reset is a new one.
LEMMA NewCredential ==
    ASSUME NEW bs \in [Bootstraps -> Credential], NEW b \in Bootstraps, NEW recovery \in BOOLEAN
    PROVE  LET new == [Disabled(bs) EXCEPT ![b] = [at |-> "open", recovery |-> recovery]] IN
           /\ new \in [Bootstraps -> Credential]
           /\ new[b].at = "open" /\ new[b].recovery = recovery
           /\ \A c \in Bootstraps \ {b} : /\ new[c].recovery = bs[c].recovery
                                          /\ new[c].at # "open"
                                          /\ new[c].at = "none" <=> bs[c].at = "none"
<1> DEFINE fresh == [at |-> "open", recovery |-> recovery]
<1>1. fresh \in Credential /\ fresh.at = "open" /\ fresh.recovery = recovery
  BY DEF Credential
<1> HIDE DEF fresh
<1>2. PICK old \in [Bootstraps -> Credential] :
        /\ old = Disabled(bs)
        /\ \A c \in Bootstraps : /\ old[c].recovery = bs[c].recovery /\ old[c].at # "open"
                                 /\ old[c].at = "none" <=> bs[c].at = "none"
  BY DisabledMovesOn
<1>3. /\ [old EXCEPT ![b] = fresh] \in [Bootstraps -> Credential]
      /\ [old EXCEPT ![b] = fresh][b] = fresh
      /\ \A c \in Bootstraps \ {b} : [old EXCEPT ![b] = fresh][c] = old[c]
  BY <1>1
<1>4. LET new == [old EXCEPT ![b] = fresh] IN
      /\ new \in [Bootstraps -> Credential]
      /\ new[b].at = "open" /\ new[b].recovery = recovery
      /\ \A c \in Bootstraps \ {b} : /\ new[c].recovery = bs[c].recovery
                                     /\ new[c].at # "open"
                                     /\ new[c].at = "none" <=> bs[c].at = "none"
  BY <1>1, <1>2, <1>3
<1> USE DEF fresh
<1> QED BY <1>2, <1>4

\* Replace and Reset end with what the new credential leaves behind.
LEMMA CommandCommits ==
    ASSUME EnrollmentInvariant, NEW recovery \in BOOLEAN, recovery => owners = 1, Generates,
           bootstrap' = [Disabled(bootstrap) EXCEPT
                           ![NewBootstrap] = [at |-> "open", recovery |-> recovery]],
           passkeys' \subseteq passkeys, UNCHANGED <<owners, spent, request, serving>>,
           command' = NoCommand, OwnerFacts'
    PROVE  EnrollmentInvariant'
<1>1. PICK b \in Bootstraps : b = NewBootstrap /\ bootstrap[b].at = "none"
  BY DEF Generates, NewBootstrap
<1>2. bootstrap \in [Bootstraps -> Credential] /\ CredentialFacts
  BY DEF EnrollmentInvariant, CredentialFacts
<1>3. /\ bootstrap' \in [Bootstraps -> Credential]
      /\ bootstrap'[b].at = "open" /\ bootstrap'[b].recovery = recovery
      /\ \A c \in Bootstraps \ {b} : /\ bootstrap'[c].recovery = bootstrap[c].recovery
                                     /\ bootstrap'[c].at # "open"
                                     /\ bootstrap'[c].at = "none" <=> bootstrap[c].at = "none"
  BY <1>1, <1>2, NewCredential
<1>4. CredentialFacts'
  BY <1>1, <1>2, <1>3 DEF CredentialFacts, Usable
<1>5. \A r \in Requests : SoundRequest(request'[r], bootstrap', passkeys')
  <2>1. \A c \in Bootstraps : bootstrap[c].at # "none" =>
               /\ bootstrap'[c].at # "none" /\ bootstrap'[c].recovery = bootstrap[c].recovery
               /\ bootstrap'[c].at = "open" => bootstrap[c].at = "open"
    BY <1>1, <1>3
  <2> QED BY <1>4, <2>1, TablesStep
<1> QED BY <1>4, <1>5, NoCommandIsCommand DEF EnrollmentInvariant

LEMMA ReplaceKeeps ==
    ASSUME EnrollmentInvariant, Replace
    PROVE  EnrollmentInvariant'
<1>1. /\ UNCHANGED <<owners, passkeys, spent, recovering, request, serving>>
      /\ command' = NoCommand
  BY DEF Replace
<1>2. CASE UNCHANGED bootstrap
  BY <1>1, <1>2, NoCommandIsCommand, CommandStepKeeps
<1>3. CASE /\ Generates
           /\ bootstrap' = [Disabled(bootstrap) EXCEPT
                              ![NewBootstrap] = [at |-> "open", recovery |-> FALSE]]
  <2>1. OwnerFacts' /\ passkeys' \subseteq passkeys
    BY <1>1, OwnerLeftAlone DEF EnrollmentInvariant
  <2> QED BY <1>1, <1>3, <2>1, CommandCommits
<1> QED BY <1>2, <1>3, Zenon DEF Replace

LEMMA ResetKeeps ==
    ASSUME EnrollmentInvariant, Reset
    PROVE  EnrollmentInvariant'
<1>1. /\ UNCHANGED <<owners, spent, request, serving>> /\ command' = NoCommand
      /\ command.at = "reset"
  BY DEF Reset
<1>2. CASE UNCHANGED <<bootstrap, passkeys, device, recovering>>
  BY <1>1, <1>2, NoCommandIsCommand, CommandStepKeeps
<1>3. CASE /\ Generates
           /\ bootstrap' = [Disabled(bootstrap) EXCEPT
                              ![NewBootstrap] = [at |-> "open", recovery |-> TRUE]]
           /\ passkeys' = passkeys \ command.seen.passkeys /\ recovering' = TRUE
  <2>1. owners = 1 /\ passkeys \subseteq command.seen.passkeys
    BY <1>1 DEF EnrollmentInvariant
  <2>2. passkeys' = {} /\ passkeys' \subseteq passkeys
    BY <1>3, <2>1
  <2>3. OwnerFacts'
    BY <1>1, <1>3, <2>1, <2>2, FS_EmptySet, EnrollmentAssumption DEF OwnerFacts
  <2> QED BY <1>1, <1>3, <2>1, <2>2, <2>3, CommandCommits
<1> QED BY <1>2, <1>3, Zenon DEF Reset

\* A passkey leaves, and never the last one.
LEMMA RevokeCredentialKeeps ==
    ASSUME EnrollmentInvariant, NEW r \in Requests, RevokeCredential(r)
    PROVE  EnrollmentInvariant'
<1>1. /\ request[r].at = "revoke" /\ RequestEnds(r) /\ serving
      /\ SoundRequest(request[r], bootstrap, passkeys) /\ bootstrap \in [Bootstraps -> Credential]
      /\ UNCHANGED <<owners, bootstrap, spent, recovering, command, serving>>
  BY RequestTyped DEF RevokeCredential
<1>2. CASE UNCHANGED passkeys
  BY <1>1, <1>2, RequestWithCredentials
<1>3. CASE Cardinality(passkeys) > 1 /\ passkeys' = passkeys \ request[r].key
  <2>1. PICK k \in Passkeys : request[r].key = {k}
    BY <1>1 DEF SoundRequest
  <2>2. /\ passkeys \in SUBSET Passkeys /\ IsFiniteSet(passkeys)
        /\ Cardinality(passkeys) <= MaxPasskeys /\ Cardinality(passkeys) \in Nat
        /\ owners \in {0, 1} /\ (recovering => passkeys = {})
        /\ (owners = 0 => passkeys = {} /\ ~recovering /\ DOMAIN spent = {})
    BY FS_CardinalityType DEF EnrollmentInvariant, OwnerFacts
  <2>3. /\ IsFiniteSet(passkeys') /\ Cardinality(passkeys') \in Nat
        /\ Cardinality(passkeys') >= Cardinality(passkeys) - 1
        /\ Cardinality(passkeys') <= Cardinality(passkeys)
    <3>1. passkeys' = passkeys \ {k}
      BY <1>3, <2>1
    <3>2. /\ IsFiniteSet(passkeys \ {k})
          /\ \/ Cardinality(passkeys \ {k}) = Cardinality(passkeys) - 1
             \/ Cardinality(passkeys \ {k}) = Cardinality(passkeys)
      BY <2>2, FS_RemoveElement
    <3>3. Cardinality(passkeys \ {k}) \in Nat
      BY <3>2, FS_CardinalityType
    <3> QED BY <2>2, <3>1, <3>2, <3>3
  <2>4. passkeys' # {} /\ passkeys # {}
    BY <1>3, <2>2, <2>3, FS_EmptySet
  <2>5. passkeys' \subseteq passkeys
    BY <1>3
  <2>6. Cardinality(passkeys') <= MaxPasskeys
    BY <2>2, <2>3, EnrollmentAssumption
  <2>7. OwnerFacts'
    BY <1>1, <2>2, <2>3, <2>4, <2>5, <2>6 DEF OwnerFacts
  <2>8. CredentialFacts'
    BY <1>1, CredentialsMoveOn DEF EnrollmentInvariant
  <2>9. RequestIs(r, NoRequest) /\ SoundRequest(NoRequest, bootstrap', passkeys')
    BY <1>1, NoRequestIsRequest, IdleIsSound DEF RequestEnds
  <2>10. /\ request' \in [Requests -> EnrollmentRequest]
         /\ \A s \in Requests : SoundRequest(request'[s], bootstrap', passkeys')
    BY <1>1, <2>4, <2>9, NoRequestIsRequest, RequestsStaySound
  <2> QED BY <1>1, <2>5, <2>7, <2>8, <2>10 DEF EnrollmentInvariant
<1> QED BY <1>2, <1>3 DEF RevokeCredential

LEMMA SpendAddsOne ==
    ASSUME NEW k, NEW token, Spend({k}, token)
    PROVE  /\ DOMAIN spent' = DOMAIN spent \cup {k}
           /\ \A l \in DOMAIN spent : spent'[l] = spent[l]
           /\ k \notin DOMAIN spent => spent'[k] = token
BY DEF Spend

LEMMA AddCommitsKeeps ==
    ASSUME EnrollmentInvariant, NEW r \in Requests, AddCommits(r)
    PROVE  EnrollmentInvariant'
<1>1. /\ request[r].at = "add" /\ RequestEnds(r) /\ serving
      /\ SoundRequest(request[r], bootstrap, passkeys) /\ bootstrap \in [Bootstraps -> Credential]
      /\ UNCHANGED <<owners, bootstrap, recovering, command, serving>>
  BY RequestTyped DEF AddCommits
<1>2. CASE UNCHANGED <<passkeys, spent>>
  BY <1>1, <1>2, RequestWithCredentials
<1>3. CASE /\ Cardinality(passkeys) \in 1..(MaxPasskeys - 1)
           /\ passkeys' = passkeys \cup request[r].key /\ Spend(request[r].key, {})
  <2>1. PICK k \in Passkeys : request[r].key = {k}
    BY <1>1 DEF SoundRequest
  <2>2. /\ passkeys \in SUBSET Passkeys /\ IsFiniteSet(passkeys)
        /\ owners \in {0, 1} /\ (recovering => passkeys = {}) /\ (owners = 0 => passkeys = {})
        /\ CredentialFacts
    BY DEF EnrollmentInvariant, OwnerFacts
  <2>3. passkeys # {} /\ passkeys' # {} /\ passkeys' = passkeys \cup {k} /\ owners = 1
    BY <1>3, <2>1, <2>2, FS_EmptySet
  <2>4. IsFiniteSet(passkeys') /\ Cardinality(passkeys') <= MaxPasskeys
    <3>1. /\ IsFiniteSet(passkeys \cup {k})
          /\ \/ Cardinality(passkeys \cup {k}) = Cardinality(passkeys) + 1
             \/ Cardinality(passkeys \cup {k}) = Cardinality(passkeys)
      BY <2>2, FS_AddElement
    <3>2. Cardinality(passkeys) \in 1..(MaxPasskeys - 1)
      BY <1>3
    <3>3. Cardinality(passkeys \cup {k}) <= MaxPasskeys
      BY <3>1, <3>2, EnrollmentAssumption
    <3>4. passkeys' = passkeys \cup {k}
      BY <2>3
    <3> QED BY <3>1, <3>3, <3>4, Zenon
  <2>5. OwnerFacts'
    BY <1>1, <2>2, <2>3, <2>4 DEF OwnerFacts
  <2>6. /\ DOMAIN spent' = DOMAIN spent \cup {k} /\ \A l \in DOMAIN spent : spent'[l] = spent[l]
        /\ k \notin DOMAIN spent => spent'[k] = {}
    <3>1. Spend({k}, {})
      BY <1>3, <2>1
    <3> QED BY <3>1, SpendAddsOne
  <2>7. CredentialFacts'
    BY <1>1, <2>2, <2>6 DEF CredentialFacts, Usable
  <2>8. RequestIs(r, NoRequest) /\ SoundRequest(NoRequest, bootstrap', passkeys')
    BY <1>1, NoRequestIsRequest, IdleIsSound DEF RequestEnds
  <2>9. /\ request' \in [Requests -> EnrollmentRequest]
        /\ \A s \in Requests : SoundRequest(request'[s], bootstrap', passkeys')
    BY <1>1, <2>3, <2>8, NoRequestIsRequest, RequestsStaySound
  <2>10. command.at # "reset"
    BY <1>1 DEF EnrollmentInvariant
  <2> QED BY <1>1, <2>5, <2>7, <2>9, <2>10 DEF EnrollmentInvariant
<1> QED BY <1>2, <1>3 DEF AddCommits

\* A passkey enrolled where there was none, with a credential that enrolled none.
LEMMA FirstPasskey ==
    ASSUME OwnerFacts, CredentialFacts, passkeys = {}, NEW k \in Passkeys, NEW b \in Bootstraps,
           passkeys' = passkeys \cup {k}, Spend({k}, {b}), owners' = 1, recovering' = FALSE,
           \A l \in DOMAIN spent : spent[l] # {b},
           bootstrap' \in [Bootstraps -> Credential], bootstrap'[b].at # "none",
           ~(bootstrap'[b].at = "open" /\ bootstrap'[b].recovery),
           \A c \in Bootstraps : /\ bootstrap'[c].recovery = bootstrap[c].recovery
                                 /\ bootstrap'[c].at = "none" <=> bootstrap[c].at = "none"
                                 /\ bootstrap'[c].at = "open" => bootstrap[c].at = "open"
    PROVE  OwnerFacts' /\ CredentialFacts'
<1>1. passkeys' = {k} /\ IsFiniteSet(passkeys') /\ Cardinality(passkeys') = 1
  <2>1. IsFiniteSet({k}) /\ Cardinality({k}) = 1
    BY FS_Singleton
  <2>2. passkeys' = {k}
    OBVIOUS
  <2> QED BY <2>1, <2>2
<1>2. OwnerFacts'
  BY <1>1, EnrollmentAssumption DEF OwnerFacts
<1>3. /\ DOMAIN spent' = DOMAIN spent \cup {k} /\ \A l \in DOMAIN spent : spent'[l] = spent[l]
      /\ k \notin DOMAIN spent => spent'[k] = {b}
  BY SpendAddsOne
<1>4. \A l, m \in DOMAIN spent' : l # m /\ spent'[l] = spent'[m] => spent'[l] = {}
  BY <1>3 DEF CredentialFacts
<1>5. ASSUME NEW c \in Bootstraps,
             bootstrap'[c].at = "none" \/ (bootstrap'[c].at = "open" /\ bootstrap'[c].recovery)
      PROVE  \A l \in DOMAIN spent' : spent'[l] # {c}
  <2>1. c # b
    BY <1>5
  <2>2. \A l \in DOMAIN spent : spent[l] # {c}
    BY <1>5 DEF CredentialFacts, Usable
  <2> QED BY <1>3, <2>1, <2>2
<1>6. \A c, d \in Bootstraps : bootstrap'[c].at = "open" /\ bootstrap'[d].at = "open" => c = d
  BY DEF CredentialFacts, Usable
<1>7. CredentialFacts'
  BY <1>4, <1>5, <1>6 DEF CredentialFacts, Usable
<1> QED BY <1>2, <1>7

LEMMA CreateOwnerKeeps ==
    ASSUME EnrollmentInvariant, NEW r \in Requests, CreateOwner(r)
    PROVE  EnrollmentInvariant'
<1>1. /\ request[r] \in EnrollmentRequest /\ request[r].at = "enrol" /\ ~request[r].recovery
      /\ serving /\ SoundRequest(request[r], bootstrap, passkeys)
      /\ bootstrap \in [Bootstraps -> Credential]
      /\ UNCHANGED <<bootstrap, recovering, command, serving>> /\ OwnerFacts /\ CredentialFacts
  BY RequestTyped DEF CreateOwner, EnrollmentInvariant
<1>2. CASE RequestEnds(r) /\ UNCHANGED <<owners, passkeys, spent, device>>
  BY <1>1, <1>2, RequestWithCredentials
<1>3. CASE /\ owners = 0 /\ owners' = owners + 1 /\ Enrolled(r)
           /\ RequestIs(r, [request[r] EXCEPT !.at = "consume"])
  <2>1. PICK b \in Bootstraps : /\ request[r].token = {b} /\ bootstrap[b].at # "none"
                                /\ bootstrap[b].recovery = request[r].recovery
    BY <1>1 DEF SoundRequest
  <2>2. PICK k \in Passkeys : request[r].key = {k}
    BY <1>1 DEF SoundRequest
  <2>3. passkeys = {} /\ ~recovering /\ DOMAIN spent = {} /\ owners' = 1
    BY <1>1, <1>3 DEF OwnerFacts
  <2>4. passkeys' = passkeys \cup {k} /\ Spend({k}, {b})
    BY <1>3, <2>1, <2>2 DEF Enrolled
  <2>5. recovering' = FALSE
    BY <1>1, <2>3 DEF EnrollmentInvariant
  <2>6. OwnerFacts' /\ CredentialFacts'
    BY <1>1, <2>1, <2>3, <2>4, <2>5, FirstPasskey
  <2> DEFINE q == [request[r] EXCEPT !.at = "consume"]
  <2>7. /\ q \in EnrollmentRequest /\ q.at = "consume" /\ q.key = request[r].key
        /\ q.token = request[r].token /\ q.recovery = request[r].recovery
    BY <1>1 DEF EnrollmentRequest
  <2>8. RequestIs(r, q)
    BY <1>3
  <2> HIDE DEF q
  <2>9. SoundRequest(q, bootstrap', passkeys')
    BY <1>1, <2>1, <2>2, <2>7 DEF SoundRequest
  <2>10. \A c \in Bootstraps : bootstrap'[c].recovery => bootstrap'[c].at # "open"
    <3>1. \A c \in Bootstraps : ~bootstrap[c].recovery
      BY <1>1, <1>3 DEF CredentialFacts
    <3> QED BY <1>1, <3>1
  <2>11. /\ request' \in [Requests -> EnrollmentRequest]
         /\ \A s \in Requests : SoundRequest(request'[s], bootstrap', passkeys')
    BY <1>1, <2>7, <2>8, <2>9, <2>10, RequestsStaySound
  <2>12. command.at # "reset"
    BY <1>1 DEF EnrollmentInvariant
  <2> QED BY <1>1, <2>6, <2>11, <2>12 DEF EnrollmentInvariant
<1> QED BY <1>2, <1>3 DEF CreateOwner

LEMMA CreateRecoveredKeeps ==
    ASSUME EnrollmentInvariant, NEW r \in Requests, CreateRecovered(r)
    PROVE  EnrollmentInvariant'
<1>1. /\ request[r] \in EnrollmentRequest /\ request[r].at = "enrol" /\ request[r].recovery
      /\ serving /\ SoundRequest(request[r], bootstrap, passkeys)
      /\ bootstrap \in [Bootstraps -> Credential] /\ RequestEnds(r)
      /\ UNCHANGED <<owners, command, serving>> /\ OwnerFacts /\ CredentialFacts
  BY RequestTyped DEF CreateRecovered, EnrollmentInvariant
<1>2. CASE UNCHANGED <<bootstrap, passkeys, spent, device, recovering>>
  BY <1>1, <1>2, RequestWithCredentials
<1>3. CASE /\ \A b \in request[r].token : Usable(b)
           /\ request[r].seen.passkeys = {} /\ Enrolled(r) /\ recovering' = FALSE
           /\ bootstrap' = [b \in Bootstraps |->
                 IF b \in request[r].token THEN [bootstrap[b] EXCEPT !.at = "consumed"]
                 ELSE bootstrap[b]]
  <2>1. PICK b \in Bootstraps : /\ request[r].token = {b} /\ bootstrap[b].at # "none"
                                /\ bootstrap[b].recovery = request[r].recovery
    BY <1>1 DEF SoundRequest
  <2>2. PICK k \in Passkeys : request[r].key = {k}
    BY <1>1 DEF SoundRequest
  <2>3. bootstrap[b].at = "open" /\ bootstrap[b].recovery
    BY <1>1, <1>3, <2>1 DEF Usable
  <2>4. passkeys = {}
    BY <1>1, <1>3, <2>1, <2>3 DEF SoundRequest
  <2>5. owners' = 1 /\ \A l \in DOMAIN spent : spent[l] # {b}
    BY <1>1, <2>3 DEF CredentialFacts, Usable
  <2>6. passkeys' = passkeys \cup {k} /\ Spend({k}, {b})
    BY <1>3, <2>1, <2>2 DEF Enrolled
  <2>7. bootstrap' = [bootstrap EXCEPT ![b].at = "consumed"]
    <3>1. bootstrap' = [c \in Bootstraps |->
                          IF c = b THEN [bootstrap[c] EXCEPT !.at = "consumed"] ELSE bootstrap[c]]
      BY <1>3, <2>1
    <3>2. bootstrap'[b] = [bootstrap[b] EXCEPT !.at = "consumed"]
      BY <3>1
    <3>3. \A c \in Bootstraps : c # b => bootstrap'[c] = bootstrap[c]
      BY <3>1
    <3>4. bootstrap' = [bootstrap EXCEPT ![b] = [bootstrap[b] EXCEPT !.at = "consumed"]]
      BY <1>1, <3>1, <3>2, <3>3
    <3> QED BY <3>4, Zenon
  <2>8. /\ bootstrap' \in [Bootstraps -> Credential] /\ bootstrap'[b].at = "consumed"
        /\ \A c \in Bootstraps : /\ bootstrap'[c].recovery = bootstrap[c].recovery
                                 /\ bootstrap'[c].at = "none" <=> bootstrap[c].at = "none"
                                 /\ bootstrap'[c].at = "open" => bootstrap[c].at = "open"
    BY <1>1, <2>1, <2>7, OneMovesOn
  <2>9. OwnerFacts' /\ CredentialFacts'
    BY <1>1, <1>3, <2>1, <2>4, <2>5, <2>6, <2>8, FirstPasskey, ZenonT(60)
  <2>10. \A c \in Bootstraps : bootstrap'[c].recovery => bootstrap'[c].at # "open"
    BY <1>1, <2>3, <2>8 DEF CredentialFacts, Usable
  <2>11. RequestIs(r, NoRequest) /\ SoundRequest(NoRequest, bootstrap', passkeys')
    BY <1>1, NoRequestIsRequest, IdleIsSound DEF RequestEnds
  <2>12. /\ request' \in [Requests -> EnrollmentRequest]
         /\ \A s \in Requests : SoundRequest(request'[s], bootstrap', passkeys')
    BY <2>8, <2>10, <2>11, NoRequestIsRequest, RequestsStaySound
  <2>13. command.at # "reset"
    BY <1>1 DEF EnrollmentInvariant
  <2> QED BY <1>1, <2>9, <2>12, <2>13 DEF EnrollmentInvariant
<1> QED BY <1>2, <1>3, Zenon DEF CreateRecovered

LEMMA EnrollmentInitHolds == EnrollmentInit => EnrollmentInvariant
<1> SUFFICES ASSUME EnrollmentInit PROVE EnrollmentInvariant
  OBVIOUS
<1>1. /\ owners = 0 /\ passkeys = {} /\ DOMAIN spent = {} /\ ~recovering
      /\ bootstrap = [b \in Bootstraps |-> [at |-> "none", recovery |-> FALSE]]
      /\ request = [r \in Requests |-> NoRequest] /\ command = NoCommand
  BY DEF EnrollmentInit
<1>2. OwnerFacts
  BY <1>1, FS_EmptySet, EnrollmentAssumption DEF OwnerFacts
<1>3. CredentialFacts
  BY <1>1 DEF CredentialFacts, Credential, Usable
<1>4. request \in [Requests -> EnrollmentRequest] /\ \A r \in Requests : request[r].at = "idle"
  BY <1>1, NoRequestIsRequest
<1>5. \A r \in Requests : SoundRequest(request[r], bootstrap, passkeys)
  BY <1>4, IdleIsSound
<1> QED BY <1>1, <1>2, <1>3, <1>4, <1>5, NoCommandIsCommand DEF EnrollmentInvariant

LEMMA EnrollmentNextKeeps ==
    ASSUME EnrollmentInvariant, [EnrollmentNext]_enrollmentVars
    PROVE  EnrollmentInvariant'
<1>1. CASE UNCHANGED enrollmentVars
  BY <1>1, DeviceStepKeeps DEF enrollmentVars
<1>2. CASE BootstrapChecks
  BY <1>2, BootstrapChecksKeeps
<1>3. CASE ReplaceBegins
  BY <1>3, ReplaceBeginsKeeps
<1>4. CASE Replace
  BY <1>4, ReplaceKeeps
<1>5. CASE ResetBegins
  BY <1>5, ResetBeginsKeeps
<1>6. CASE Reset
  BY <1>6, ResetKeeps
<1>7. ASSUME NEW r \in Requests, NEW b \in Bootstraps, BeginReadsToken(r, b)
      PROVE  EnrollmentInvariant'
  BY <1>7, BeginReadsTokenKeeps
<1>8. ASSUME NEW r \in Requests, BeginReadsOwner(r) PROVE EnrollmentInvariant'
  BY <1>8, BeginReadsOwnerKeeps
<1>9. ASSUME NEW r \in Requests, FinishValidates(r) PROVE EnrollmentInvariant'
  BY <1>9, FinishValidatesKeeps
<1>10. ASSUME NEW r \in Requests, CreateOwner(r) PROVE EnrollmentInvariant'
  BY <1>10, CreateOwnerKeeps
<1>11. ASSUME NEW r \in Requests, ConsumeToken(r) PROVE EnrollmentInvariant'
  BY <1>11, ConsumeTokenKeeps
<1>12. ASSUME NEW r \in Requests, CreateRecovered(r) PROVE EnrollmentInvariant'
  BY <1>12, CreateRecoveredKeeps
<1>13. ASSUME NEW r \in Requests, AddBegins(r) PROVE EnrollmentInvariant'
  BY <1>13, AddBeginsKeeps
<1>14. ASSUME NEW r \in Requests, AddCommits(r) PROVE EnrollmentInvariant'
  BY <1>14, AddCommitsKeeps
<1>15. ASSUME NEW r \in Requests, NEW k \in Passkeys, RevokeBegins(r, k) PROVE EnrollmentInvariant'
  BY <1>15, RevokeBeginsKeeps
<1>16. ASSUME NEW r \in Requests, RevokeCredential(r) PROVE EnrollmentInvariant'
  BY <1>16, RevokeCredentialKeeps
<1>17. CASE Login
  BY <1>17, DeviceStepKeeps DEF Login
<1>18. CASE DeviceRevoked
  BY <1>18, DeviceStepKeeps DEF DeviceRevoked
<1>19. CASE ServeStarts
  BY <1>19, ServeStartsKeeps
<1>20. CASE ServeStops
  BY <1>20, ServeStopsKeeps
<1>21. ASSUME NEW b \in Bootstraps, BootstrapExpires(b) PROVE EnrollmentInvariant'
  BY <1>21, BootstrapExpiresKeeps
<1> QED BY <1>1, <1>2, <1>3, <1>4, <1>5, <1>6, <1>7, <1>8, <1>9, <1>10, <1>11, <1>12, <1>13,
           <1>14, <1>15, <1>16, <1>17, <1>18, <1>19, <1>20, <1>21, Zenon DEF EnrollmentNext

(* However bootstraps, recoveries, further registrations, revocations and the  *)
(* administrator's commands interleave, for any number of requests: there is   *)
(* one owner at most, it keeps a passkey except between a reset and the        *)
(* recovery, a reset leaves no earlier passkey, and a credential enrols one    *)
(* passkey at most (postgres/passkeys.go:51-350, recovery.go:29-115).          *)
THEOREM OwnerAlwaysKeepsAccess == EnrollmentSpec => []OwnerKeepsAccess
<1>1. EnrollmentInvariant => OwnerKeepsAccess
  BY DEF EnrollmentInvariant, OwnerFacts, CredentialFacts, OwnerKeepsAccess
<1> QED BY <1>1, EnrollmentInitHolds, EnrollmentNextKeeps, PTL DEF EnrollmentSpec

-----------------------------------------------------------------------------
(* Previews *)

LEMMA NoJobIsJob ==
    /\ NoJob \in PreviewJob /\ NoJob.at = "idle" /\ NoJob.cancels = {} /\ NoJob.route = {}
BY DEF NoJob, PreviewJob

LEMMA NoVisitIsVisit == NoVisit \in PreviewVisit /\ NoVisit.at = "idle"
BY DEF NoVisit, PreviewVisit

LEMMA CancelledVisits ==
    ASSUME visit \in [Visits -> PreviewVisit], NEW vs
    PROVE  /\ Cancelled(vs) \in [Visits -> PreviewVisit]
           /\ \A v \in Visits :
                /\ Cancelled(vs)[v].at = visit[v].at /\ Cancelled(vs)[v].ticket = visit[v].ticket
                /\ visit[v].cancelled => Cancelled(vs)[v].cancelled
                /\ v \in vs /\ visit[v].at # "idle" => Cancelled(vs)[v].cancelled
<1>1. ASSUME NEW v \in Visits
      PROVE  /\ Cancelled(vs)[v] \in PreviewVisit
             /\ Cancelled(vs)[v].at = visit[v].at /\ Cancelled(vs)[v].ticket = visit[v].ticket
             /\ visit[v].cancelled => Cancelled(vs)[v].cancelled
             /\ v \in vs /\ visit[v].at # "idle" => Cancelled(vs)[v].cancelled
  <2>1. visit[v] \in PreviewVisit
    OBVIOUS
  <2>2. CASE v \in vs /\ visit[v].at # "idle"
    <3>1. Cancelled(vs)[v] = [visit[v] EXCEPT !.cancelled = TRUE]
      BY <2>2 DEF Cancelled
    <3> QED BY <2>1, <3>1 DEF PreviewVisit
  <2>3. CASE ~(v \in vs /\ visit[v].at # "idle")
    <3>1. Cancelled(vs)[v] = visit[v]
      BY <2>3 DEF Cancelled
    <3> QED BY <2>1, <2>3, <3>1
  <2> QED BY <2>2, <2>3
<1>2. Cancelled(vs) = [v \in Visits |-> Cancelled(vs)[v]]
  BY DEF Cancelled
<1> QED BY <1>1, <1>2

\* The count stays exact when requests leave.
LEMMA CountWithout ==
    ASSUME IsFiniteSet(active), activeCount = Cardinality(active), NEW vs \in SUBSET active
    PROVE  /\ IsFiniteSet(active \ vs) /\ activeCount - Cardinality(vs) = Cardinality(active \ vs)
           /\ Cardinality(active \ vs) \in Nat
<1>1. active \cap vs = vs
  OBVIOUS
<1>2. IsFiniteSet(active \ vs) /\ Cardinality(active \ vs) = Cardinality(active) - Cardinality(active \cap vs)
  BY FS_Difference
<1>3. Cardinality(active \ vs) \in Nat
  BY <1>2, FS_CardinalityType
<1> QED BY <1>1, <1>2, <1>3

\* No grant and no request with a live context is new, except one with a grant.
LEMMA RoutesStay ==
    ASSUME PreviewsInvariant, UNCHANGED <<tickets, quiet, raced>>, valid' \subseteq valid,
           tunnel' \in [Routes -> {"none", "starting", "ready"}],
           \A r \in Routes : tunnel[r] = "none" /\ tunnel'[r] # "none" =>
               \E v \in Visits : Running(v) /\ tickets[visit[v].ticket].route = r,
           \A v \in Visits : visit'[v].at \in Served /\ ~visit'[v].cancelled =>
               visit'[v].ticket = visit[v].ticket /\ (Running(v) \/ visit[v].ticket \in valid),
           job'.at \in {"cancel", "tunnel"} =>
               /\ job.at \in {"cancel", "tunnel"} /\ job'.route = job.route
               /\ \A v \in Visits : v \in job.cancels /\ visit'[v].at \in Served
                                    /\ ~visit'[v].cancelled => v \in job'.cancels
    PROVE  RouteFacts'
<1>1. RouteFacts /\ quiet' \in SUBSET Routes
  BY DEF PreviewsInvariant, RouteFacts
<1>2. ASSUME NEW r \in job'.route, job'.at \in {"cancel", "tunnel"}
      PROVE  /\ \A t \in valid' : tickets'[t].route # r
             /\ \A v \in Visits :
                  r \notin raced' /\ visit'[v].at \in Served /\ ~visit'[v].cancelled
                  /\ tickets'[visit'[v].ticket].route = r => v \in job'.cancels
  <2>1. \A t \in valid : tickets[t].route # r
    BY <1>1, <1>2 DEF RouteFacts
  <2>2. \A v \in Visits : r \notin raced /\ Running(v) /\ tickets[visit[v].ticket].route = r =>
              v \in job.cancels
    BY <1>1, <1>2 DEF RouteFacts
  <2> QED BY <1>2, <2>1, <2>2
<1>3. ASSUME NEW r \in quiet' \ raced'
      PROVE  /\ tunnel'[r] = "none" /\ \A t \in valid' : tickets'[t].route # r
             /\ \A v \in Visits : visit'[v].at \in Served /\ ~visit'[v].cancelled =>
                  tickets'[visit'[v].ticket].route # r
  <2>1. /\ tunnel[r] = "none" /\ \A t \in valid : tickets[t].route # r
        /\ \A v \in Visits : Running(v) => tickets[visit[v].ticket].route # r
        /\ r \in Routes
    BY <1>1, <1>3 DEF RouteFacts
  <2> QED BY <2>1
<1> QED BY <1>1, <1>2, <1>3 DEF RouteFacts, Running

LEMMA DevicesStay ==
    ASSUME PreviewsInvariant, UNCHANGED tickets, valid' \subseteq valid,
           \A d \in Handhelds : farewell'[d] \in {"cancel", "done"} =>
               farewell[d] \in {"cancel", "done"},
           \A v \in active' : /\ visit'[v].ticket = visit[v].ticket
                              /\ v \in active \/ visit[v].ticket \in valid
    PROVE  DeviceFacts'
BY DEF PreviewsInvariant, DeviceFacts

\* A step of an operation under the gate that changes nothing but its record.
LEMMA GateStepKeeps ==
    ASSUME PreviewsInvariant, RoutesUnchanged, job' \in PreviewJob, job'.cancels = {},
           job.at # "cancel", job'.at \notin {"cancel", "tunnel"},
           job'.at = "issue" => \A d \in job'.by : farewell[d] = "none",
           listed' \in SUBSET Routes
    PROVE  PreviewsInvariant'
<1>1. UNCHANGED <<tickets, valid, visit, active, activeCount, tunnel, farewell, parting, quiet, raced>>
  BY DEF RoutesUnchanged
<1>2. VisitFacts'
  BY <1>1 DEF PreviewsInvariant, VisitFacts, IssuedTickets
<1>3. PendingFacts'
  BY <1>1 DEF PreviewsInvariant, PendingFacts, Running
<1>4. RouteFacts'
  <2>1. RouteFacts
    BY DEF PreviewsInvariant
  <2> QED BY <1>1, <2>1 DEF RouteFacts, Running
<1>5. DeviceFacts'
  BY <1>1 DEF PreviewsInvariant, DeviceFacts
<1> QED BY <1>2, <1>3, <1>4, <1>5 DEF PreviewsInvariant

LEMMA JobTyped ==
    ASSUME PreviewsInvariant
    PROVE  job \in PreviewJob /\ (job.at # "cancel" => job.cancels = {})
BY DEF PreviewsInvariant, PendingFacts

LEMMA ListPreviewsKeeps ==
    ASSUME PreviewsInvariant, NEW ports \in SUBSET Routes, ListPreviews(ports)
    PROVE  PreviewsInvariant'
<1>1. /\ job.at = "idle" /\ RoutesUnchanged
      /\ job' = [NoJob EXCEPT !.kind = "list", !.at = "next", !.todo = listed \ ports, !.by = {}]
  BY DEF ListPreviews, Jobs
<1>0. listed \in SUBSET Routes /\ listed' = ports
  BY DEF PreviewsInvariant, ListPreviews
<1>2. job' \in PreviewJob /\ job'.cancels = {} /\ job'.at = "next"
  BY <1>0, <1>1, NoJobIsJob DEF PreviewJob
<1> QED BY <1>0, <1>1, <1>2, GateStepKeeps

LEMMA ListFailsKeeps ==
    ASSUME PreviewsInvariant, NEW ports \in SUBSET Routes, ListFails(ports)
    PROVE  PreviewsInvariant'
<1>1. job.at = "idle" /\ RoutesUnchanged /\ job' = job /\ listed' \in SUBSET Routes
  BY DEF ListFails
<1> QED BY <1>1, JobTyped, GateStepKeeps

LEMMA BeginRevocationKeeps ==
    ASSUME PreviewsInvariant, NEW rs \in SUBSET Routes, NEW kind \in {"revoke", "drain", "delete"},
           BeginRevocation(kind, rs)
    PROVE  PreviewsInvariant'
<1>1. /\ job.at = "idle" /\ RoutesUnchanged
      /\ job' = [NoJob EXCEPT !.kind = kind, !.at = "next", !.todo = rs, !.by = {}]
      /\ listed' \in SUBSET Routes
  BY DEF BeginRevocation, Jobs, PreviewsInvariant
<1>2. job' \in PreviewJob /\ job'.cancels = {} /\ job'.at = "next"
  BY <1>1, NoJobIsJob DEF PreviewJob
<1> QED BY <1>1, <1>2, GateStepKeeps

LEMMA RecordRevocationKeeps ==
    ASSUME PreviewsInvariant, RecordRevocation
    PROVE  PreviewsInvariant'
<1>1. job.at = "record" /\ RoutesUnchanged /\ job' = [job EXCEPT !.at = "next"]
      /\ listed' \in SUBSET Routes
  BY DEF RecordRevocation, PreviewsInvariant
<1>2. job' \in PreviewJob /\ job'.cancels = {} /\ job'.at = "next"
  BY <1>1, JobTyped DEF PreviewJob
<1> QED BY <1>1, <1>2, GateStepKeeps

LEMMA EndJobKeeps ==
    ASSUME PreviewsInvariant, EndJob
    PROVE  PreviewsInvariant'
<1>1. job.at = "next" /\ RoutesUnchanged /\ job' = NoJob /\ listed' \in SUBSET Routes
  BY DEF EndJob, PreviewsInvariant
<1> QED BY <1>1, NoJobIsJob, GateStepKeeps

LEMMA BeginAccessKeeps ==
    ASSUME PreviewsInvariant, NEW d \in Handhelds, NEW r \in Routes, BeginAccess(d, r)
    PROVE  PreviewsInvariant'
<1>1. /\ job.at = "idle" /\ RoutesUnchanged /\ farewell[d] = "none"
      /\ job' = [NoJob EXCEPT !.kind = "access", !.at = "issue", !.todo = {r}, !.by = {d}]
      /\ listed' \in SUBSET Routes
  BY DEF BeginAccess, Jobs, PreviewsInvariant
<1>2. job' \in PreviewJob /\ job'.cancels = {} /\ job'.at = "issue" /\ job'.by = {d}
  BY <1>1, NoJobIsJob DEF PreviewJob
<1> QED BY <1>1, <1>2, GateStepKeeps


LEMMA VisitsTyped ==
    ASSUME PreviewsInvariant
    PROVE  /\ tickets \in Seq([route : Routes, device : Handhelds]) /\ valid \subseteq DOMAIN tickets
           /\ visit \in [Visits -> PreviewVisit]
           /\ \A v \in Visits : visit[v].at # "idle" => visit[v].ticket \in DOMAIN tickets
           /\ active \in SUBSET Visits /\ IsFiniteSet(active) /\ activeCount = Cardinality(active)
           /\ \A v \in active : visit[v].at \in Served
           /\ \A t \in DOMAIN tickets : tickets[t].route \in Routes /\ tickets[t].device \in Handhelds
<1>1. VisitFacts
  BY DEF PreviewsInvariant
<1>2. \A t \in DOMAIN tickets : tickets[t] \in [route : Routes, device : Handhelds]
  <2> DEFINE grants == [route : Routes, device : Handhelds]
  <2>1. tickets \in Seq(grants)
    BY <1>1 DEF VisitFacts
  <2> HIDE DEF grants
  <2>2. DOMAIN tickets = 1..Len(tickets) /\ \A t \in 1..Len(tickets) : tickets[t] \in grants
    BY <2>1
  <2> QED BY <2>2 DEF grants
<1> QED BY <1>1, <1>2 DEF VisitFacts, IssuedTickets

\* What leaves with a set of grants, and with what has expired.
LEMMA LeavingVisits ==
    ASSUME PreviewsInvariant, NEW ts, Removes(ts \cup Swept, VisitsOf(ts) \cup SweptVisits)
    PROVE  /\ VisitsOf(ts) \cup SweptVisits \in SUBSET active
           /\ \A v \in active : visit[v].ticket \in ts => v \in VisitsOf(ts)
           /\ active' = active \ (VisitsOf(ts) \cup SweptVisits)
           /\ IsFiniteSet(active') /\ activeCount' = Cardinality(active')
           /\ valid' \subseteq valid /\ \A t \in valid' : t \notin ts
<1>1. /\ VisitsOf(ts) \cup SweptVisits \in SUBSET active
      /\ \A v \in active : visit[v].ticket \in ts => v \in VisitsOf(ts)
  BY DEF VisitsOf, SweptVisits
<1>2. /\ valid' = valid \ (ts \cup Swept) /\ active' = active \ (VisitsOf(ts) \cup SweptVisits)
      /\ activeCount' = activeCount - Cardinality(VisitsOf(ts) \cup SweptVisits)
  BY DEF Removes
<1>3. IsFiniteSet(active') /\ activeCount' = Cardinality(active')
  <2>1. IsFiniteSet(active) /\ activeCount = Cardinality(active)
    BY VisitsTyped
  <2> DEFINE vs == VisitsOf(ts) \cup SweptVisits
  <2> HIDE DEF vs
  <2>2. IsFiniteSet(active \ vs) /\ activeCount - Cardinality(vs) = Cardinality(active \ vs)
    BY <1>1, <2>1, CountWithout DEF vs
  <2> QED BY <1>2, <2>2 DEF vs
<1> QED BY <1>1, <1>2, <1>3

LEMMA RevokeRouteKeeps ==
    ASSUME PreviewsInvariant, NEW r \in Routes, RevokeRoute(r)
    PROVE  PreviewsInvariant'
<1> DEFINE gone == VisitsOf(OfRoute(r)) \cup SweptVisits
<1>1. /\ job.at = "next" /\ Removes(OfRoute(r) \cup Swept, gone)
      /\ job' = [job EXCEPT !.at = "cancel", !.route = {r}, !.todo = @ \ {r}, !.cancels = gone]
      /\ UNCHANGED <<listed, tickets, visit, tunnel, farewell, parting>> /\ quiet' = quiet \ {r}
  BY DEF RevokeRoute
<1>2. /\ gone \in SUBSET active /\ \A v \in active : visit[v].ticket \in OfRoute(r) => v \in gone
      /\ active' = active \ gone /\ IsFiniteSet(active') /\ activeCount' = Cardinality(active')
      /\ valid' \subseteq valid /\ \A t \in valid' : t \notin OfRoute(r)
  BY <1>1, LeavingVisits
<1> HIDE DEF gone
<1>3. /\ job' \in PreviewJob /\ job'.at = "cancel" /\ job'.route = {r} /\ job'.cancels = gone
      /\ job.cancels = {}
  BY <1>1, <1>2, JobTyped, VisitsTyped DEF PreviewJob
<1>4. /\ visit \in [Visits -> PreviewVisit] /\ active \in SUBSET Visits
      /\ valid \subseteq DOMAIN tickets
      /\ \A v \in Visits : visit[v].at # "idle" => visit[v].ticket \in DOMAIN tickets
  BY VisitsTyped
<1>5. VisitFacts'
  BY <1>1, <1>2 DEF PreviewsInvariant, VisitFacts, IssuedTickets
<1>6. PendingFacts'
  BY <1>1, <1>2, <1>3 DEF PreviewsInvariant, PendingFacts, Running
<1>7. ASSUME NEW v \in Visits, r \notin raced', Running(v), tickets[visit[v].ticket].route = r
      PROVE  v \in gone
  <2>1. visit[v].ticket \in OfRoute(r)
    BY <1>4, <1>7 DEF OfRoute, IssuedTickets, Running, Served
  <2>2. ~\E d \in Handhelds : \E w \in parting[d] : visit[w].ticket \in OfRoute(r)
    BY <1>7 DEF RevokeRoute
  <2>3. v \in active \/ v \in job.cancels \/ \E d \in Handhelds : v \in parting[d]
    BY <1>7 DEF PreviewsInvariant, PendingFacts
  <2> QED BY <1>2, <1>3, <2>1, <2>2, <2>3
<1>8. \A t \in valid' : tickets'[t].route # r
  BY <1>1, <1>2, <1>4 DEF OfRoute, IssuedTickets
<1>9. ASSUME NEW q \in quiet' \ raced'
      PROVE  /\ tunnel'[q] = "none" /\ \A t \in valid' : tickets'[t].route # q
             /\ \A v \in Visits : Running(v) => tickets[visit[v].ticket].route # q
  <2>1. q \in quiet \ raced
    BY <1>1, <1>9 DEF RevokeRoute
  <2> QED BY <1>1, <1>2, <2>1 DEF PreviewsInvariant, RouteFacts
<1>10. /\ tunnel' \in [Routes -> {"none", "starting", "ready"}] /\ quiet' \in SUBSET Routes
       /\ listed' \in SUBSET Routes
  BY <1>1 DEF PreviewsInvariant, RouteFacts
<1>11. RouteFacts'
  BY <1>1, <1>3, <1>7, <1>8, <1>9, <1>10 DEF RouteFacts, Running
<1>12. DeviceFacts'
  BY <1>1, <1>2, DevicesStay
<1> QED BY <1>5, <1>6, <1>10, <1>11, <1>12 DEF PreviewsInvariant

LEMMA CancelAllKeeps ==
    ASSUME PreviewsInvariant, CancelAll
    PROVE  PreviewsInvariant'
<1>1. /\ job.at = "cancel" /\ visit' = Cancelled(job.cancels)
      /\ job' = [job EXCEPT !.at = "tunnel", !.cancels = {}]
      /\ UNCHANGED <<listed, tickets, valid, active, activeCount, tunnel, farewell, parting,
                     quiet, raced>>
  BY DEF CancelAll
<1>2. /\ visit \in [Visits -> PreviewVisit] /\ active \in SUBSET Visits
      /\ visit' \in [Visits -> PreviewVisit]
      /\ \A v \in Visits : /\ visit'[v].at = visit[v].at /\ visit'[v].ticket = visit[v].ticket
                           /\ visit[v].cancelled => visit'[v].cancelled
                           /\ v \in job.cancels /\ visit[v].at # "idle" => visit'[v].cancelled
  BY <1>1, VisitsTyped, CancelledVisits
<1>3. job' \in PreviewJob /\ job'.at = "tunnel" /\ job'.route = job.route /\ job'.cancels = {}
  BY <1>1, JobTyped DEF PreviewJob
<1>4. VisitFacts'
  BY <1>1, <1>2 DEF PreviewsInvariant, VisitFacts, IssuedTickets
<1>5. ASSUME NEW v \in Visits, visit'[v].at \in Served, ~visit'[v].cancelled
      PROVE  Running(v) /\ v \notin job.cancels
  BY <1>2, <1>5 DEF Running, Served
<1>6. PendingFacts'
  BY <1>1, <1>3, <1>5 DEF PreviewsInvariant, PendingFacts, Running
<1>7. RouteFacts'
  <2>1. tunnel' \in [Routes -> {"none", "starting", "ready"}] /\ tunnel' = tunnel
    BY <1>1 DEF PreviewsInvariant, RouteFacts
  <2> QED BY <1>1, <1>2, <1>3, <1>5, <2>1, RoutesStay
<1>8. DeviceFacts'
  BY <1>1, <1>2, DevicesStay
<1> QED BY <1>1, <1>4, <1>6, <1>7, <1>8 DEF PreviewsInvariant

LEMMA RevokeTunnelKeeps ==
    ASSUME PreviewsInvariant, RevokeTunnel
    PROVE  PreviewsInvariant'
<1>1. /\ job.at = "tunnel" /\ quiet' = quiet \cup job.route
      /\ tunnel' = [r \in Routes |-> IF r \in job.route THEN "none" ELSE tunnel[r]]
      /\ UNCHANGED <<listed, tickets, valid, visit, active, activeCount, farewell, parting, raced>>
  BY DEF RevokeTunnel
<1>2. PICK at \in {"record", "next"} : job' = [job EXCEPT !.at = at]
  BY DEF RevokeTunnel
<1>3. /\ job \in PreviewJob /\ job.cancels = {} /\ job' \in PreviewJob /\ job'.cancels = {}
      /\ job'.at \in {"record", "next"}
  BY <1>1, <1>2, JobTyped DEF PreviewJob
<1>4. VisitFacts'
  BY <1>1 DEF PreviewsInvariant, VisitFacts, IssuedTickets
<1>5. PendingFacts'
  BY <1>1, <1>3 DEF PreviewsInvariant, PendingFacts, Running
<1>6. RouteFacts /\ job.route \in SUBSET Routes
  BY <1>3 DEF PreviewsInvariant, PreviewJob
<1>7. /\ tunnel' \in [Routes -> {"none", "starting", "ready"}] /\ quiet' \in SUBSET Routes
      /\ \A r \in job.route : tunnel'[r] = "none"
      /\ \A r \in Routes : tunnel[r] = "none" => tunnel'[r] = "none"
  BY <1>1, <1>6 DEF RouteFacts
<1>8. ASSUME NEW r \in quiet' \ raced
      PROVE  /\ tunnel'[r] = "none" /\ \A t \in valid : tickets[t].route # r
             /\ \A v \in Visits : Running(v) => tickets[visit[v].ticket].route # r
  <2>1. CASE r \in job.route
    BY <1>1, <1>3, <1>6, <1>7, <1>8, <2>1 DEF RouteFacts
  <2>2. CASE r \in quiet
    BY <1>6, <1>7, <1>8, <2>2 DEF RouteFacts
  <2> QED BY <1>1, <2>1, <2>2
<1>9. RouteFacts'
  BY <1>1, <1>3, <1>7, <1>8 DEF RouteFacts, Running
<1>10. DeviceFacts'
  BY <1>1, DevicesStay
<1> QED BY <1>1, <1>4, <1>5, <1>9, <1>10 DEF PreviewsInvariant

LEMMA BeginFarewellKeeps ==
    ASSUME PreviewsInvariant, NEW d \in Handhelds, BeginFarewell(d)
    PROVE  PreviewsInvariant'
<1>1. /\ farewell[d] = "none" /\ ~(job.at = "issue" /\ d \in job.by)
      /\ farewell' = [farewell EXCEPT ![d] = "session"]
      /\ UNCHANGED <<listed, tickets, valid, visit, active, activeCount, tunnel, job, parting,
                     quiet, raced>>
  BY DEF BeginFarewell, AdmissionFree
<1>2. farewell \in [Handhelds -> {"none", "session", "cancel", "done"}]
  BY DEF PreviewsInvariant, PendingFacts
<1>3. /\ farewell' \in [Handhelds -> {"none", "session", "cancel", "done"}]
      /\ farewell'[d] = "session" /\ \A e \in Handhelds \ {d} : farewell'[e] = farewell[e]
  BY <1>1, <1>2
<1>4. VisitFacts'
  BY <1>1 DEF PreviewsInvariant, VisitFacts, IssuedTickets
<1>5. PendingFacts'
  <2>1. job.by \in SUBSET Handhelds
    BY JobTyped DEF PreviewJob
  <2> QED BY <1>1, <1>3, <2>1 DEF PreviewsInvariant, PendingFacts, Running
<1>6. RouteFacts'
  BY <1>1 DEF PreviewsInvariant, RouteFacts, Running
<1>7. DeviceFacts'
  BY <1>1, <1>3, DevicesStay
<1> QED BY <1>1, <1>4, <1>5, <1>6, <1>7 DEF PreviewsInvariant

LEMMA RevokeDevicePreviewsKeeps ==
    ASSUME PreviewsInvariant, NEW d \in Handhelds, RevokeDevicePreviews(d)
    PROVE  PreviewsInvariant'
<1> DEFINE gone == VisitsOf(OfDevice(d)) \cup SweptVisits
<1>1. /\ farewell[d] = "session" /\ Removes(OfDevice(d) \cup Swept, gone)
      /\ parting' = [parting EXCEPT ![d] = gone] /\ farewell' = [farewell EXCEPT ![d] = "cancel"]
      /\ UNCHANGED <<listed, tickets, visit, tunnel, job, quiet, raced>>
  BY DEF RevokeDevicePreviews
<1>2. /\ gone \in SUBSET active /\ \A v \in active : visit[v].ticket \in OfDevice(d) => v \in gone
      /\ active' = active \ gone /\ IsFiniteSet(active') /\ activeCount' = Cardinality(active')
      /\ valid' \subseteq valid /\ \A t \in valid' : t \notin OfDevice(d)
  BY <1>1, LeavingVisits
<1> HIDE DEF gone
<1>3. /\ visit \in [Visits -> PreviewVisit] /\ active \in SUBSET Visits
      /\ valid \subseteq DOMAIN tickets /\ \A v \in active : visit[v].at \in Served
      /\ \A v \in Visits : visit[v].at # "idle" => visit[v].ticket \in DOMAIN tickets
  BY VisitsTyped
<1>4. /\ farewell \in [Handhelds -> {"none", "session", "cancel", "done"}]
      /\ parting \in [Handhelds -> SUBSET Visits] /\ PendingFacts
  BY DEF PreviewsInvariant, PendingFacts
<1>5. /\ farewell' \in [Handhelds -> {"none", "session", "cancel", "done"}]
      /\ farewell'[d] = "cancel" /\ \A e \in Handhelds \ {d} : farewell'[e] = farewell[e]
      /\ parting' \in [Handhelds -> SUBSET Visits] /\ parting'[d] = gone /\ parting[d] = {}
      /\ \A e \in Handhelds \ {d} : parting'[e] = parting[e]
  BY <1>1, <1>2, <1>3, <1>4 DEF PendingFacts
<1>6. VisitFacts'
  BY <1>1, <1>2 DEF PreviewsInvariant, VisitFacts, IssuedTickets
<1>7. PendingFacts'
  <2>1. ASSUME NEW v \in Visits, Running(v)
        PROVE  v \in active' \/ v \in job.cancels \/ \E e \in Handhelds : v \in parting'[e]
    <3>1. v \in active \/ v \in job.cancels \/ \E e \in Handhelds \ {d} : v \in parting[e]
      BY <1>4, <1>5, <2>1 DEF PendingFacts
    <3> QED BY <1>2, <1>5, <3>1
  <2>2. job.by \in SUBSET Handhelds
    BY JobTyped DEF PreviewJob
  <2>3. job.at = "issue" => \A e \in job.by : farewell'[e] = "none"
    BY <1>1, <1>4, <1>5, <2>2 DEF PendingFacts
  <2>4. \A e \in Handhelds : farewell'[e] # "cancel" => parting'[e] = {}
    BY <1>4, <1>5 DEF PendingFacts
  <2> QED BY <1>1, <1>4, <1>5, <2>1, <2>3, <2>4 DEF PendingFacts, Running
<1>8. RouteFacts'
  <2>1. tunnel' \in [Routes -> {"none", "starting", "ready"}]
    BY <1>1 DEF PreviewsInvariant, RouteFacts
  <2>2. \A v \in Visits : visit'[v].at \in Served /\ ~visit'[v].cancelled => Running(v)
    BY <1>1 DEF Running
  <2> QED BY <1>1, <1>2, <2>1, <2>2, RoutesStay
<1>9. DeviceFacts'
  <2>1. ASSUME NEW e \in Handhelds, farewell'[e] \in {"cancel", "done"}
        PROVE  /\ \A t \in valid' : tickets[t].device # e
               /\ \A v \in active' : tickets[visit[v].ticket].device # e
    <3>1. CASE e = d
      <4>1. \A t \in DOMAIN tickets : tickets[t].device = d => t \in OfDevice(d)
        BY DEF OfDevice, IssuedTickets
      <4>2. \A v \in active : visit[v].ticket \in DOMAIN tickets
        BY <1>3 DEF Served
      <4> QED BY <1>2, <1>3, <3>1, <4>1, <4>2
    <3>2. CASE e # d
      BY <1>2, <1>5, <2>1, <3>2 DEF PreviewsInvariant, DeviceFacts
    <3> QED BY <3>1, <3>2
  <2> QED BY <1>1, <2>1 DEF DeviceFacts
<1> QED BY <1>1, <1>6, <1>7, <1>8, <1>9 DEF PreviewsInvariant

LEMMA CancelPartingKeeps ==
    ASSUME PreviewsInvariant, NEW d \in Handhelds, CancelParting(d)
    PROVE  PreviewsInvariant'
<1>1. /\ farewell[d] = "cancel" /\ visit' = Cancelled(parting[d])
      /\ parting' = [parting EXCEPT ![d] = {}] /\ farewell' = [farewell EXCEPT ![d] = "done"]
      /\ UNCHANGED <<listed, tickets, valid, active, activeCount, tunnel, job, quiet, raced>>
  BY DEF CancelParting
<1>2. /\ visit \in [Visits -> PreviewVisit] /\ active \in SUBSET Visits
      /\ visit' \in [Visits -> PreviewVisit]
      /\ \A v \in Visits : /\ visit'[v].at = visit[v].at /\ visit'[v].ticket = visit[v].ticket
                           /\ visit[v].cancelled => visit'[v].cancelled
                           /\ v \in parting[d] /\ visit[v].at # "idle" => visit'[v].cancelled
  BY <1>1, VisitsTyped, CancelledVisits
<1>3. /\ farewell \in [Handhelds -> {"none", "session", "cancel", "done"}]
      /\ parting \in [Handhelds -> SUBSET Visits] /\ PendingFacts
      /\ job.by \in SUBSET Handhelds
  BY JobTyped DEF PreviewsInvariant, PendingFacts, PreviewJob
<1>4. /\ farewell' \in [Handhelds -> {"none", "session", "cancel", "done"}]
      /\ farewell'[d] = "done" /\ \A e \in Handhelds \ {d} : farewell'[e] = farewell[e]
      /\ parting' \in [Handhelds -> SUBSET Visits] /\ parting'[d] = {}
      /\ \A e \in Handhelds \ {d} : parting'[e] = parting[e]
  BY <1>1, <1>3
<1>5. VisitFacts'
  BY <1>1, <1>2 DEF PreviewsInvariant, VisitFacts, IssuedTickets
<1>6. ASSUME NEW v \in Visits, visit'[v].at \in Served, ~visit'[v].cancelled
      PROVE  Running(v) /\ v \notin parting[d]
  BY <1>2, <1>6 DEF Running, Served
<1>7. PendingFacts'
  <2>1. ASSUME NEW v \in Visits, visit'[v].at \in Served, ~visit'[v].cancelled
        PROVE  v \in active \/ v \in job.cancels \/ \E e \in Handhelds : v \in parting'[e]
    <3>1. v \in active \/ v \in job.cancels \/ \E e \in Handhelds \ {d} : v \in parting[e]
      BY <1>3, <1>6, <2>1 DEF PendingFacts
    <3> QED BY <1>4, <3>1
  <2>2. job.at = "issue" => \A e \in job.by : farewell'[e] = "none"
    BY <1>1, <1>3, <1>4 DEF PendingFacts
  <2>3. \A e \in Handhelds : farewell'[e] # "cancel" => parting'[e] = {}
    BY <1>3, <1>4 DEF PendingFacts
  <2> QED BY <1>1, <1>3, <1>4, <2>1, <2>2, <2>3 DEF PendingFacts, Running
<1>8. RouteFacts'
  <2>1. tunnel' \in [Routes -> {"none", "starting", "ready"}]
    BY <1>1 DEF PreviewsInvariant, RouteFacts
  <2> QED BY <1>1, <1>2, <1>6, <2>1, RoutesStay
<1>9. DeviceFacts'
  BY <1>1, <1>2, <1>4, DevicesStay
<1> QED BY <1>1, <1>5, <1>7, <1>8, <1>9 DEF PreviewsInvariant


\* Of a request's step: one visit moves, and the count with it.
LEMMA VisitMoves ==
    ASSUME PreviewsInvariant, NEW v \in Visits, NEW w \in PreviewVisit, VisitIs(v, w),
           w.at # "idle" => w.ticket \in DOMAIN tickets,
           UNCHANGED <<listed, tickets, valid, active, activeCount, job, farewell, parting, quiet, raced>>,
           w.at \in Served /\ ~w.cancelled => Running(v) /\ w.ticket = visit[v].ticket,
           v \in active => w.at \in Served /\ w.ticket = visit[v].ticket,
           tunnel' \in [Routes -> {"none", "starting", "ready"}],
           \A r \in Routes : tunnel[r] = "none" /\ tunnel'[r] # "none" =>
               \E u \in Visits : Running(u) /\ tickets[visit[u].ticket].route = r
    PROVE  PreviewsInvariant'
<1>1. visit \in [Visits -> PreviewVisit] /\ visit' = [visit EXCEPT ![v] = w]
  BY VisitsTyped DEF VisitIs
<1>2. /\ visit' \in [Visits -> PreviewVisit] /\ visit'[v] = w
      /\ \A u \in Visits \ {v} : visit'[u] = visit[u]
  BY <1>1
<1>3. VisitFacts'
  BY <1>2, VisitsTyped DEF PreviewsInvariant, VisitFacts, IssuedTickets
<1>4. \A u \in Visits : visit'[u].at \in Served /\ ~visit'[u].cancelled =>
         visit'[u].ticket = visit[u].ticket /\ Running(u)
  BY <1>2 DEF Running
<1>5. PendingFacts'
  BY <1>4 DEF PreviewsInvariant, PendingFacts, Running
<1>6. RouteFacts'
  BY <1>4, RoutesStay
<1>7. DeviceFacts'
  <2>1. \A u \in active' : visit'[u].ticket = visit[u].ticket /\ u \in active
    BY <1>2, VisitsTyped
  <2> QED BY <2>1, DevicesStay
<1> QED BY <1>3, <1>5, <1>6, <1>7 DEF PreviewsInvariant

LEMMA ResolveKeeps ==
    ASSUME PreviewsInvariant, NEW v \in Visits, NEW t, Resolve(v, t)
    PROVE  PreviewsInvariant'
<1> DEFINE w == [NoVisit EXCEPT !.at = "resolved", !.ticket = t]
<1>1. /\ visit[v].at = "idle" /\ t \in DOMAIN tickets /\ VisitIs(v, w)
      /\ UNCHANGED <<listed, tickets, valid, active, activeCount, job, farewell, parting, quiet, raced>>
      /\ UNCHANGED tunnel
  BY DEF Resolve, IssuedTickets, VisitStep
<1>2. t \in Nat
  BY <1>1, VisitsTyped
<1>3. w \in PreviewVisit /\ w.at = "resolved" /\ w.ticket = t
  BY <1>2 DEF NoVisit, PreviewVisit
<1>4. v \notin active
  BY <1>1, VisitsTyped DEF Served
<1>5. w.at \notin Served
  BY <1>3 DEF Served
<1>6. tunnel' \in [Routes -> {"none", "starting", "ready"}] /\ tunnel' = tunnel
  BY <1>1 DEF PreviewsInvariant, RouteFacts
<1> HIDE DEF w
<1> QED BY <1>1, <1>3, <1>4, <1>5, <1>6, VisitMoves

LEMMA TargetKeeps ==
    ASSUME PreviewsInvariant, NEW v \in Visits, Target(v)
    PROVE  PreviewsInvariant'
<1> DEFINE w == [visit[v] EXCEPT !.at = "waiting"]
           r == tickets[visit[v].ticket].route
<1>1. /\ visit[v].at = "authorized" /\ ~visit[v].cancelled /\ VisitIs(v, w)
      /\ UNCHANGED <<listed, tickets, valid, active, activeCount, job, farewell, parting, quiet, raced>>
      /\ tunnel' = tunnel \/ tunnel' = [tunnel EXCEPT ![r] = "starting"]
  BY DEF Target, VisitStep
<1>2. /\ w \in PreviewVisit /\ w.at = "waiting" /\ w.ticket = visit[v].ticket
      /\ visit[v].ticket \in DOMAIN tickets /\ r \in Routes
  BY <1>1, VisitsTyped DEF PreviewVisit, Served
<1>3. Running(v) /\ w.at \in Served
  BY <1>1, <1>2 DEF Running, Served
<1>4. /\ tunnel' \in [Routes -> {"none", "starting", "ready"}]
      /\ \A q \in Routes : q # r => tunnel'[q] = tunnel[q]
  <2>1. tunnel \in [Routes -> {"none", "starting", "ready"}]
    BY DEF PreviewsInvariant, RouteFacts
  <2> QED BY <1>1, <1>2, <2>1
<1>5. \A q \in Routes : tunnel[q] = "none" /\ tunnel'[q] # "none" =>
         \E u \in Visits : Running(u) /\ tickets[visit[u].ticket].route = q
  BY <1>3, <1>4
<1> HIDE DEF w, r
<1> QED BY <1>1, <1>2, <1>3, <1>4, <1>5, VisitMoves

LEMMA ProxiesKeeps ==
    ASSUME PreviewsInvariant, NEW v \in Visits, Proxies(v)
    PROVE  PreviewsInvariant'
<1> DEFINE w == [visit[v] EXCEPT !.at = "proxied"]
<1>1. /\ visit[v].at = "waiting" /\ VisitIs(v, w) /\ UNCHANGED tunnel
      /\ UNCHANGED <<listed, tickets, valid, active, activeCount, job, farewell, parting, quiet, raced>>
  BY DEF Proxies, VisitStep
<1>2. /\ w \in PreviewVisit /\ w.at = "proxied" /\ w.ticket = visit[v].ticket
      /\ w.cancelled = visit[v].cancelled /\ visit[v].ticket \in DOMAIN tickets
  BY <1>1, VisitsTyped DEF PreviewVisit, Served
<1>3. w.at \in Served /\ (~w.cancelled => Running(v))
  BY <1>1, <1>2 DEF Running, Served
<1>4. tunnel' \in [Routes -> {"none", "starting", "ready"}] /\ tunnel' = tunnel
  BY <1>1 DEF PreviewsInvariant, RouteFacts
<1> HIDE DEF w
<1> QED BY <1>1, <1>2, <1>3, <1>4, VisitMoves

LEMMA TunnelIsKeeps ==
    ASSUME PreviewsInvariant, NEW r \in Routes, NEW s \in {"none", "ready"}, TunnelIs(r, s)
    PROVE  PreviewsInvariant'
<1>1. /\ tunnel[r] # "none" /\ tunnel' = [tunnel EXCEPT ![r] = s]
      /\ UNCHANGED <<listed, tickets, valid, visit, active, activeCount, job, farewell, parting,
                     quiet, raced>>
  BY DEF TunnelIs, VisitStep
<1>2. tunnel \in [Routes -> {"none", "starting", "ready"}]
  BY DEF PreviewsInvariant, RouteFacts
<1>3. /\ tunnel' \in [Routes -> {"none", "starting", "ready"}]
      /\ \A q \in Routes : tunnel[q] = "none" => tunnel'[q] = "none"
  BY <1>1, <1>2
<1>4. VisitFacts' /\ PendingFacts' /\ DeviceFacts'
  BY <1>1 DEF PreviewsInvariant, VisitFacts, PendingFacts, DeviceFacts, Running, IssuedTickets
<1>5. RouteFacts'
  <2>1. \A v \in Visits : visit'[v].at \in Served /\ ~visit'[v].cancelled => Running(v)
    BY <1>1 DEF Running
  <2> QED BY <1>1, <1>3, <2>1, RoutesStay
<1> QED BY <1>1, <1>4, <1>5 DEF PreviewsInvariant

LEMMA GrantExpiresKeeps ==
    ASSUME PreviewsInvariant, NEW t, GrantExpires(t)
    PROVE  PreviewsInvariant'
<1> DEFINE vs == {v \in Visits : visit[v].ticket = t /\ visit[v].at # "resolved"}
<1>1. /\ visit' = Cancelled(vs)
      /\ UNCHANGED <<listed, tickets, valid, active, activeCount, tunnel, job, farewell, parting,
                     quiet, raced>>
  BY DEF GrantExpires
<1> HIDE DEF vs
<1>2. /\ visit \in [Visits -> PreviewVisit] /\ active \in SUBSET Visits
      /\ visit' \in [Visits -> PreviewVisit]
      /\ \A v \in Visits : /\ visit'[v].at = visit[v].at /\ visit'[v].ticket = visit[v].ticket
                           /\ visit[v].cancelled => visit'[v].cancelled
  BY <1>1, VisitsTyped, CancelledVisits
<1>3. VisitFacts'
  BY <1>1, <1>2 DEF PreviewsInvariant, VisitFacts, IssuedTickets
<1>4. \A v \in Visits : visit'[v].at \in Served /\ ~visit'[v].cancelled => Running(v)
  BY <1>2 DEF Running
<1>5. PendingFacts'
  BY <1>1, <1>4 DEF PreviewsInvariant, PendingFacts, Running
<1>6. RouteFacts'
  <2>1. tunnel' \in [Routes -> {"none", "starting", "ready"}] /\ tunnel' = tunnel
    BY <1>1 DEF PreviewsInvariant, RouteFacts
  <2> QED BY <1>1, <1>2, <1>4, <2>1, RoutesStay
<1>7. DeviceFacts'
  BY <1>1, <1>2, DevicesStay
<1> QED BY <1>1, <1>3, <1>5, <1>6, <1>7 DEF PreviewsInvariant

LEMMA ReleaseKeeps ==
    ASSUME PreviewsInvariant, NEW v \in Visits, Release(v)
    PROVE  PreviewsInvariant'
<1>1. /\ active' = active \ {v} /\ activeCount' = activeCount - (IF v \in active THEN 1 ELSE 0)
      /\ visit' = [visit EXCEPT ![v] = NoVisit]
      /\ job' = [job EXCEPT !.cancels = @ \ {v}]
      /\ parting' = [d \in Handhelds |-> parting[d] \ {v}]
      /\ UNCHANGED <<listed, tickets, valid, tunnel, farewell, quiet, raced>>
  BY DEF Release, VisitIs
<1>2. /\ visit \in [Visits -> PreviewVisit] /\ active \in SUBSET Visits /\ IsFiniteSet(active)
      /\ activeCount = Cardinality(active) /\ job \in PreviewJob
  BY VisitsTyped, JobTyped
<1>3. /\ visit' \in [Visits -> PreviewVisit] /\ visit'[v].at = "idle"
      /\ \A u \in Visits \ {v} : visit'[u] = visit[u]
  BY <1>1, <1>2, NoVisitIsVisit
<1>4. /\ job' \in PreviewJob /\ job'.at = job.at /\ job'.route = job.route /\ job'.by = job.by
      /\ job'.cancels = job.cancels \ {v}
  BY <1>1, <1>2 DEF PreviewJob
<1>5. IsFiniteSet(active') /\ activeCount' = Cardinality(active')
  <2>1. /\ IsFiniteSet(active \ {v})
        /\ Cardinality(active \ {v}) = Cardinality(active) - (IF v \in active THEN 1 ELSE 0)
    <3>1. IsFiniteSet(active \ {v}) /\ Cardinality(active) \in Nat
      BY <1>2, FS_RemoveElement, FS_CardinalityType
    <3>2. CASE v \in active
      BY <1>2, <3>1, <3>2, FS_RemoveElement
    <3>3. CASE v \notin active
      BY <1>2, <3>1, <3>3, FS_RemoveElement
    <3> QED BY <3>1, <3>2, <3>3
  <2> QED BY <1>1, <1>2, <2>1, Zenon
<1>6. VisitFacts'
  <2>1. \A u \in Visits : visit'[u].at # "idle" => visit'[u].ticket \in DOMAIN tickets
    BY <1>3, VisitsTyped
  <2>2. \A u \in active' : visit'[u].at \in Served
    BY <1>1, <1>2, <1>3, VisitsTyped
  <2> QED BY <1>1, <1>2, <1>3, <1>5, <2>1, <2>2 DEF PreviewsInvariant, VisitFacts, IssuedTickets
<1>7. \A u \in Visits : visit'[u].at \in Served /\ ~visit'[u].cancelled =>
         Running(u) /\ u # v /\ visit'[u].ticket = visit[u].ticket
  BY <1>3 DEF Running, Served
<1>8. PendingFacts'
  <2>1. PendingFacts
    BY DEF PreviewsInvariant
  <2>2. parting' \in [Handhelds -> SUBSET Visits] /\ \A d \in Handhelds : parting'[d] = parting[d] \ {v}
    BY <1>1, <2>1 DEF PendingFacts
  <2>3. ASSUME NEW u \in Visits, visit'[u].at \in Served, ~visit'[u].cancelled
        PROVE  u \in active' \/ u \in job'.cancels \/ \E d \in Handhelds : u \in parting'[d]
    <3>1. u # v /\ (u \in active \/ u \in job.cancels \/ \E d \in Handhelds : u \in parting[d])
      BY <1>7, <2>1, <2>3 DEF PendingFacts
    <3> QED BY <1>1, <1>4, <2>2, <3>1
  <2> QED BY <1>1, <1>4, <2>1, <2>2, <2>3 DEF PendingFacts, Running
<1>9. RouteFacts'
  <2>1. tunnel' \in [Routes -> {"none", "starting", "ready"}] /\ tunnel' = tunnel
    BY <1>1 DEF PreviewsInvariant, RouteFacts
  <2>2. \A u \in Visits : u \in job.cancels /\ visit'[u].at \in Served /\ ~visit'[u].cancelled =>
           u \in job'.cancels
    BY <1>4, <1>7
  <2> QED BY <1>1, <1>4, <1>7, <2>1, <2>2, RoutesStay
<1>10. DeviceFacts'
  <2>1. \A u \in active' : visit'[u].ticket = visit[u].ticket /\ u \in active
    BY <1>1, <1>2, <1>3
  <2> QED BY <1>1, <2>1, DevicesStay
<1> QED BY <1>1, <1>6, <1>8, <1>9, <1>10 DEF PreviewsInvariant

LEMMA SweptIsActive ==
    ASSUME PreviewsInvariant, NEW sweep \in BOOLEAN
    PROVE  (IF sweep THEN SweptVisits ELSE {}) \in SUBSET active
BY DEF SweptVisits, VisitsOf

LEMMA AuthorizeKeeps ==
    ASSUME PreviewsInvariant, NEW v \in Visits, NEW sweep \in BOOLEAN, Authorize(v, sweep)
    PROVE  PreviewsInvariant'
<1> DEFINE gone == IF sweep THEN SweptVisits ELSE {}
           left == activeCount - Cardinality(gone)
           granted == visit[v].ticket \in valid \ expired /\ left < MaxActive
           w == IF granted THEN [visit[v] EXCEPT !.at = "authorized"] ELSE NoVisit
<1>1. /\ visit[v].at = "resolved" /\ valid' \subseteq valid
      /\ active' = (active \ gone) \cup (IF granted THEN {v} ELSE {})
      /\ activeCount' = left + IF granted THEN 1 ELSE 0
      /\ visit' = [Cancelled(gone) EXCEPT ![v] = w]
      /\ UNCHANGED <<listed, tickets, tunnel, job, farewell, parting, quiet, raced>>
  BY DEF Authorize, VisitStep
<1>2. gone \in SUBSET active
  BY SweptIsActive
<1> HIDE DEF gone
<1>3. /\ visit \in [Visits -> PreviewVisit] /\ active \in SUBSET Visits /\ IsFiniteSet(active)
      /\ activeCount = Cardinality(active) /\ \A u \in active : visit[u].at \in Served
      /\ \A u \in Visits : visit[u].at # "idle" => visit[u].ticket \in DOMAIN tickets
      /\ v \notin active /\ visit[v].ticket \in DOMAIN tickets
  BY <1>1, VisitsTyped DEF Served
<1>4. IsFiniteSet(active \ gone) /\ left = Cardinality(active \ gone) /\ left \in Nat
  BY <1>2, <1>3, CountWithout
<1> HIDE DEF left
<1>5. /\ w \in PreviewVisit /\ (granted => w.at = "authorized" /\ w.ticket = visit[v].ticket)
      /\ ~granted => w.at = "idle"
  <2>1. visit[v] \in PreviewVisit
    BY <1>3
  <2>2. CASE granted
    <3>1. w = [visit[v] EXCEPT !.at = "authorized"]
      BY <2>2
    <3> QED BY <2>1, <2>2, <3>1 DEF PreviewVisit, Served
  <2>3. CASE ~granted
    BY <2>3, NoVisitIsVisit
  <2> QED BY <2>2, <2>3
<1>6. granted => visit[v].ticket \in valid
  OBVIOUS
<1> HIDE DEF w, granted
<1>7. /\ granted => active' = (active \ gone) \cup {v} /\ activeCount' = left + 1
      /\ ~granted => active' = active \ gone /\ activeCount' = left
  <2>1. CASE granted
    BY <1>1, <2>1, Zenon
  <2>2. CASE ~granted
    <3>1. active' = (active \ gone) \cup {} /\ activeCount' = left + 0
      BY <1>1, <2>2, Zenon
    <3>2. (active \ gone) \cup {} = active \ gone /\ left + 0 = left
      BY <1>4
    <3> QED BY <2>2, <3>1, <3>2
  <2> QED BY <2>1, <2>2
<1>8. /\ Cancelled(gone) \in [Visits -> PreviewVisit]
      /\ \A u \in Visits :
           /\ Cancelled(gone)[u].at = visit[u].at /\ Cancelled(gone)[u].ticket = visit[u].ticket
           /\ visit[u].cancelled => Cancelled(gone)[u].cancelled
           /\ u \in gone /\ visit[u].at # "idle" => Cancelled(gone)[u].cancelled
  BY <1>3, CancelledVisits
<1>9. /\ visit' \in [Visits -> PreviewVisit] /\ visit'[v] = w
      /\ \A u \in Visits \ {v} : visit'[u] = Cancelled(gone)[u]
  BY <1>1, <1>5, <1>8
<1>10. /\ \A u \in Visits \ {v} :
            /\ visit'[u].at = visit[u].at /\ visit'[u].ticket = visit[u].ticket
            /\ visit[u].cancelled => visit'[u].cancelled
            /\ u \in gone => visit'[u].cancelled
  <2>1. \A u \in gone : visit[u].at # "idle"
    BY <1>2, <1>3 DEF Served
  <2> QED BY <1>8, <1>9, <2>1
<1>11. IsFiniteSet(active') /\ activeCount' = Cardinality(active')
  <2>1. CASE granted
    <3>1. v \notin active \ gone
      BY <1>3
    <3>2. IsFiniteSet((active \ gone) \cup {v}) /\ Cardinality((active \ gone) \cup {v}) = left + 1
      BY <1>4, <3>1, FS_AddElement
    <3> QED BY <1>7, <2>1, <3>2, Zenon
  <2>2. CASE ~granted
    BY <1>4, <1>7, <2>2, Zenon
  <2> QED BY <2>1, <2>2
<1>12. \A u \in active' : /\ u \in Visits /\ visit'[u].at \in Served
                          /\ visit'[u].ticket = visit[u].ticket
                          /\ u \in active \/ visit[u].ticket \in valid
  <2>1. ASSUME NEW u \in active \ gone
        PROVE  /\ u \in Visits /\ visit'[u].at \in Served /\ visit'[u].ticket = visit[u].ticket
               /\ u \in active
    BY <1>3, <1>10, <2>1
  <2>2. granted => visit'[v].at \in Served /\ visit'[v].ticket = visit[v].ticket
    BY <1>5, <1>9 DEF Served
  <2> QED BY <1>6, <1>7, <2>1, <2>2
<1>13. \A u \in Visits : visit'[u].at # "idle" => visit'[u].ticket \in DOMAIN tickets
  BY <1>3, <1>5, <1>9, <1>10
<1>14. VisitFacts'
  <2>1. tickets' \in Seq([route : Routes, device : Handhelds]) /\ valid' \subseteq DOMAIN tickets'
    BY <1>1, VisitsTyped
  <2> QED BY <1>1, <1>9, <1>11, <1>12, <1>13, <2>1 DEF VisitFacts, IssuedTickets
<1>15. ASSUME NEW u \in Visits, visit'[u].at \in Served, ~visit'[u].cancelled
       PROVE  /\ visit'[u].ticket = visit[u].ticket
              /\ \/ Running(u) /\ u \notin gone
                 \/ visit[u].ticket \in valid /\ u \in active'
  <2>1. CASE u = v
    BY <1>5, <1>6, <1>7, <1>9, <1>15, <2>1 DEF Served
  <2>2. CASE u # v
    BY <1>10, <1>15, <2>2 DEF Running
  <2> QED BY <2>1, <2>2
<1>16. PendingFacts'
  <2>1. ASSUME NEW u \in Visits, visit'[u].at \in Served, ~visit'[u].cancelled
        PROVE  u \in active' \/ u \in job.cancels \/ \E d \in Handhelds : u \in parting[d]
    <3>1. CASE u \in active'
      BY <3>1
    <3>2. CASE Running(u) /\ u \notin gone
      <4>1. u \in active \/ u \in job.cancels \/ \E d \in Handhelds : u \in parting[d]
        BY <3>2 DEF PreviewsInvariant, PendingFacts
      <4> QED BY <1>7, <3>2, <4>1
    <3> QED BY <1>15, <2>1, <3>1, <3>2
  <2> QED BY <1>1, <2>1 DEF PreviewsInvariant, PendingFacts, Running
<1>17. RouteFacts'
  <2>1. tunnel' \in [Routes -> {"none", "starting", "ready"}] /\ tunnel' = tunnel
    BY <1>1 DEF PreviewsInvariant, RouteFacts
  <2> QED BY <1>1, <1>15, <2>1, RoutesStay
<1>18. DeviceFacts'
  BY <1>1, <1>12, DevicesStay
<1> QED BY <1>1, <1>14, <1>16, <1>17, <1>18 DEF PreviewsInvariant


LEMMA TicketAppended ==
    ASSUME tickets \in Seq([route : Routes, device : Handhelds]), NEW r \in Routes,
           NEW d \in Handhelds, tickets' = Append(tickets, [route |-> r, device |-> d])
    PROVE  /\ tickets' \in Seq([route : Routes, device : Handhelds])
           /\ DOMAIN tickets' = DOMAIN tickets \cup {Len(tickets) + 1}
           /\ Len(tickets) + 1 \notin DOMAIN tickets
           /\ \A t \in DOMAIN tickets : tickets'[t] = tickets[t]
           /\ tickets'[Len(tickets) + 1].route = r /\ tickets'[Len(tickets) + 1].device = d
<1> DEFINE grants == [route : Routes, device : Handhelds]
           g == [route |-> r, device |-> d]
<1>1. g \in grants /\ g.route = r /\ g.device = d
  OBVIOUS
<1> HIDE DEF grants, g
<1>2. tickets \in Seq(grants) /\ tickets' = Append(tickets, g)
  BY DEF grants, g
<1>3. /\ tickets' \in Seq(grants) /\ Len(tickets) \in Nat /\ Len(tickets') = Len(tickets) + 1
      /\ DOMAIN tickets = 1..Len(tickets) /\ DOMAIN tickets' = 1..Len(tickets')
      /\ \A t \in 1..Len(tickets) : tickets'[t] = tickets[t]
      /\ tickets'[Len(tickets) + 1] = g
  BY <1>1, <1>2
<1>4. 1..(Len(tickets) + 1) = (1..Len(tickets)) \cup {Len(tickets) + 1}
  BY <1>3
<1>5. tickets' \in Seq([route : Routes, device : Handhelds])
  BY <1>3 DEF grants
<1> QED BY <1>1, <1>3, <1>4, <1>5

LEMMA IssueKeeps ==
    ASSUME PreviewsInvariant, NEW sweep \in BOOLEAN, Issue(sweep)
    PROVE  PreviewsInvariant'
<1> DEFINE gone == IF sweep THEN SweptVisits ELSE {}
           stale == IF sweep THEN expired ELSE {}
<1>1. /\ job.at = "issue" /\ active' = active \ gone /\ activeCount' = activeCount - Cardinality(gone)
      /\ visit' = Cancelled(gone) /\ job' = NoJob
      /\ UNCHANGED <<listed, tunnel, farewell, parting>>
  BY DEF Issue
<1>2. \/ UNCHANGED <<tickets, quiet, raced>> /\ valid' = valid \ stale
      \/ \E r \in job.todo, d \in job.by :
           /\ tickets' = Append(tickets, [route |-> r, device |-> d])
           /\ quiet' = quiet \ {r} /\ raced' = raced \ {r}
           /\ valid' = (valid \ stale) \cup {Len(tickets) + 1}
  BY Zenon DEF Issue
<1>3. gone \in SUBSET active
  BY SweptIsActive
<1> HIDE DEF gone, stale
<1>4. /\ visit \in [Visits -> PreviewVisit] /\ active \in SUBSET Visits /\ IsFiniteSet(active)
      /\ activeCount = Cardinality(active) /\ \A v \in active : visit[v].at \in Served
      /\ \A v \in Visits : visit[v].at # "idle" => visit[v].ticket \in DOMAIN tickets
      /\ tickets \in Seq([route : Routes, device : Handhelds]) /\ valid \subseteq DOMAIN tickets
  BY VisitsTyped
<1>5. IsFiniteSet(active') /\ activeCount' = Cardinality(active')
  BY <1>1, <1>3, <1>4, CountWithout, Zenon
<1>6. /\ visit' \in [Visits -> PreviewVisit]
      /\ \A v \in Visits :
           /\ visit'[v].at = visit[v].at /\ visit'[v].ticket = visit[v].ticket
           /\ visit[v].cancelled => visit'[v].cancelled
           /\ v \in gone /\ visit[v].at # "idle" => visit'[v].cancelled
  BY <1>1, <1>4, CancelledVisits
<1>7. \A v \in Visits : visit'[v].at \in Served /\ ~visit'[v].cancelled => Running(v) /\ v \notin gone
  BY <1>6 DEF Running, Served
<1>8. PendingFacts /\ RouteFacts /\ DeviceFacts /\ listed' \in SUBSET Routes
  BY <1>1 DEF PreviewsInvariant
<1>9. PendingFacts'
  <2>1. \A v \in Visits : visit'[v].at \in Served /\ ~visit'[v].cancelled =>
           v \in active' \/ \E d \in Handhelds : v \in parting'[d]
    BY <1>1, <1>7, <1>8 DEF PendingFacts
  <2> QED BY <1>1, <1>8, <2>1, NoJobIsJob DEF PendingFacts, Running
<1>10. CASE UNCHANGED <<tickets, quiet, raced>> /\ valid' = valid \ stale
  <2>1. VisitFacts'
    BY <1>1, <1>4, <1>5, <1>6, <1>10 DEF VisitFacts, IssuedTickets
  <2>2. tunnel' \in [Routes -> {"none", "starting", "ready"}] /\ tunnel' = tunnel
    BY <1>1, <1>8 DEF RouteFacts
  <2>3. RouteFacts'
    BY <1>1, <1>6, <1>7, <1>10, <2>2, NoJobIsJob, RoutesStay
  <2>4. DeviceFacts'
    BY <1>1, <1>4, <1>6, <1>10, DevicesStay
  <2> QED BY <1>8, <1>9, <2>1, <2>3, <2>4 DEF PreviewsInvariant
<1>11. CASE \E r \in job.todo, d \in job.by :
              /\ tickets' = Append(tickets, [route |-> r, device |-> d])
              /\ quiet' = quiet \ {r} /\ raced' = raced \ {r}
              /\ valid' = (valid \ stale) \cup {Len(tickets) + 1}
  <2>1. PICK r \in job.todo, d \in job.by :
              /\ tickets' = Append(tickets, [route |-> r, device |-> d])
              /\ quiet' = quiet \ {r} /\ raced' = raced \ {r}
              /\ valid' = (valid \ stale) \cup {Len(tickets) + 1}
    BY <1>11
  <2>2. r \in Routes /\ d \in Handhelds /\ farewell[d] = "none"
    BY <1>1, <1>8 DEF PendingFacts, PreviewJob
  <2>3. /\ tickets' \in Seq([route : Routes, device : Handhelds])
        /\ DOMAIN tickets' = DOMAIN tickets \cup {Len(tickets) + 1}
        /\ \A t \in DOMAIN tickets : tickets'[t] = tickets[t]
        /\ tickets'[Len(tickets) + 1].route = r /\ tickets'[Len(tickets) + 1].device = d
    BY <1>4, <2>1, <2>2, TicketAppended
  <2>4. VisitFacts'
    BY <1>1, <1>4, <1>5, <1>6, <2>1, <2>3 DEF VisitFacts, IssuedTickets
  <2>5. ASSUME NEW t \in valid'
        PROVE  \/ t \in valid /\ tickets'[t] = tickets[t]
               \/ tickets'[t].route = r /\ tickets'[t].device = d
    BY <1>4, <2>1, <2>3, <2>5
  <2>6. ASSUME NEW v \in Visits, visit[v].at # "idle"
        PROVE  tickets'[visit'[v].ticket] = tickets[visit[v].ticket]
    BY <1>4, <1>6, <2>3, <2>6
  <2>7. ASSUME NEW q \in quiet' \ raced'
        PROVE  /\ tunnel'[q] = "none" /\ \A t \in valid' : tickets'[t].route # q
               /\ \A v \in Visits : visit'[v].at \in Served /\ ~visit'[v].cancelled =>
                    tickets'[visit'[v].ticket].route # q
    <3>1. q \in quiet \ raced /\ q # r
      BY <2>1, <2>7
    <3>2. /\ tunnel[q] = "none" /\ \A t \in valid : tickets[t].route # q
          /\ \A v \in Visits : Running(v) => tickets[visit[v].ticket].route # q
      BY <1>8, <3>1 DEF RouteFacts
    <3>3. \A v \in Visits : Running(v) => visit[v].at # "idle"
      BY DEF Running, Served
    <3> QED BY <1>1, <1>7, <2>5, <2>6, <3>1, <3>2, <3>3
  <2>8. tunnel' \in [Routes -> {"none", "starting", "ready"}] /\ quiet' \in SUBSET Routes
    BY <1>1, <1>8, <2>1 DEF RouteFacts
  <2>9. RouteFacts'
    BY <1>1, <2>7, <2>8, NoJobIsJob DEF RouteFacts, Running
  <2>10. ASSUME NEW e \in Handhelds, farewell'[e] \in {"cancel", "done"}
         PROVE  /\ \A t \in valid' : tickets'[t].device # e
                /\ \A v \in active' : tickets'[visit'[v].ticket].device # e
    <3>1. e # d /\ farewell[e] \in {"cancel", "done"}
      BY <1>1, <2>2, <2>10
    <3>2. /\ \A t \in valid : tickets[t].device # e
          /\ \A v \in active : tickets[visit[v].ticket].device # e
      BY <1>8, <3>1 DEF DeviceFacts
    <3>3. \A v \in active : v \in Visits /\ visit[v].at # "idle"
      BY <1>4 DEF Served
    <3> QED BY <1>1, <2>5, <2>6, <3>1, <3>2, <3>3
  <2>11. DeviceFacts'
    BY <2>10 DEF DeviceFacts
  <2> QED BY <1>8, <1>9, <2>4, <2>9, <2>11 DEF PreviewsInvariant
<1> QED BY <1>2, <1>10, <1>11

LEMMA PreviewsInitHolds == PreviewsInit => PreviewsInvariant
<1> SUFFICES ASSUME PreviewsInit PROVE PreviewsInvariant
  OBVIOUS
<1>1. /\ listed \in SUBSET Routes /\ tickets = <<>> /\ valid = {}
      /\ visit = [v \in Visits |-> NoVisit] /\ active = {} /\ activeCount = 0
      /\ tunnel = [r \in Routes |-> "none"] /\ job = NoJob
      /\ farewell = [d \in Handhelds |-> "none"] /\ parting = [d \in Handhelds |-> {}]
      /\ quiet = {}
  BY DEF PreviewsInit
<1>2. visit \in [Visits -> PreviewVisit] /\ \A v \in Visits : visit[v].at = "idle"
  BY <1>1, NoVisitIsVisit
<1>3. VisitFacts
  <2>1. tickets \in Seq([route : Routes, device : Handhelds])
    BY <1>1
  <2>2. IsFiniteSet(active) /\ Cardinality(active) = 0
    BY <1>1, FS_EmptySet
  <2> QED BY <1>1, <1>2, <2>1, <2>2 DEF VisitFacts
<1>4. \A v \in Visits : ~Running(v)
  BY <1>2 DEF Running, Served
<1>5. PendingFacts
  BY <1>1, <1>4, NoJobIsJob DEF PendingFacts
<1>6. RouteFacts
  BY <1>1, NoJobIsJob DEF RouteFacts
<1>7. DeviceFacts
  BY <1>1 DEF DeviceFacts
<1> QED BY <1>1, <1>3, <1>5, <1>6, <1>7 DEF PreviewsInvariant

LEMMA PreviewsStutterKeeps ==
    ASSUME PreviewsInvariant, UNCHANGED previewVars
    PROVE  PreviewsInvariant'
<1>1. UNCHANGED <<listed, tickets, valid, visit, active, activeCount, tunnel, job, farewell,
                  parting, quiet, raced>>
  BY DEF previewVars
<1>2. VisitFacts' /\ PendingFacts'
  BY <1>1 DEF PreviewsInvariant, VisitFacts, PendingFacts, Running, IssuedTickets
<1>3. RouteFacts' /\ DeviceFacts'
  BY <1>1 DEF PreviewsInvariant, RouteFacts, DeviceFacts, Running
<1> QED BY <1>1, <1>2, <1>3 DEF PreviewsInvariant

LEMMA PreviewsNextKeeps ==
    ASSUME PreviewsInvariant, [PreviewsNext]_previewVars
    PROVE  PreviewsInvariant'
<1>1. CASE UNCHANGED previewVars
  BY <1>1, PreviewsStutterKeeps
<1>2. ASSUME NEW ports \in SUBSET Routes, ListPreviews(ports) PROVE PreviewsInvariant'
  BY <1>2, ListPreviewsKeeps
<1>3. ASSUME NEW ports \in SUBSET Routes, ListFails(ports) PROVE PreviewsInvariant'
  BY <1>3, ListFailsKeeps
<1>4. ASSUME NEW rs \in SUBSET Routes, NEW kind \in {"revoke", "drain", "delete"},
             BeginRevocation(kind, rs)
      PROVE  PreviewsInvariant'
  BY <1>4, BeginRevocationKeeps
<1>5. ASSUME NEW r \in Routes, RevokeRoute(r) PROVE PreviewsInvariant'
  BY <1>5, RevokeRouteKeeps
<1>6. ASSUME NEW r \in Routes, NEW s \in {"none", "ready"}, TunnelIs(r, s) PROVE PreviewsInvariant'
  BY <1>6, TunnelIsKeeps
<1>7. CASE CancelAll
  BY <1>7, CancelAllKeeps
<1>8. CASE RevokeTunnel
  BY <1>8, RevokeTunnelKeeps
<1>9. CASE RecordRevocation
  BY <1>9, RecordRevocationKeeps
<1>10. CASE EndJob
  BY <1>10, EndJobKeeps
<1>11. ASSUME NEW d \in Handhelds, NEW r \in Routes, BeginAccess(d, r) PROVE PreviewsInvariant'
  BY <1>11, BeginAccessKeeps
<1>12. ASSUME NEW d \in Handhelds, BeginFarewell(d) PROVE PreviewsInvariant'
  BY <1>12, BeginFarewellKeeps
<1>13. ASSUME NEW d \in Handhelds, RevokeDevicePreviews(d) PROVE PreviewsInvariant'
  BY <1>13, RevokeDevicePreviewsKeeps
<1>14. ASSUME NEW d \in Handhelds, CancelParting(d) PROVE PreviewsInvariant'
  BY <1>14, CancelPartingKeeps
<1>15. ASSUME NEW sweep \in BOOLEAN, Issue(sweep) PROVE PreviewsInvariant'
  BY <1>15, IssueKeeps
<1>16. ASSUME NEW sweep \in BOOLEAN, NEW v \in Visits, Authorize(v, sweep) PROVE PreviewsInvariant'
  BY <1>16, AuthorizeKeeps
<1>17. ASSUME NEW v \in Visits, Target(v) PROVE PreviewsInvariant'
  BY <1>17, TargetKeeps
<1>18. ASSUME NEW v \in Visits, Proxies(v) PROVE PreviewsInvariant'
  BY <1>18, ProxiesKeeps
<1>19. ASSUME NEW v \in Visits, Release(v) PROVE PreviewsInvariant'
  BY <1>19, ReleaseKeeps
<1>20. ASSUME NEW v \in Visits, NEW t \in 1..MaxTickets, Resolve(v, t) PROVE PreviewsInvariant'
  BY <1>20, ResolveKeeps
<1>21. ASSUME NEW t \in 1..MaxTickets, GrantExpires(t) PROVE PreviewsInvariant'
  BY <1>21, GrantExpiresKeeps
<1> QED BY <1>1, <1>2, <1>3, <1>4, <1>5, <1>6, <1>7, <1>8, <1>9, <1>10, <1>11, <1>12, <1>13,
           <1>14, <1>15, <1>16, <1>17, <1>18, <1>19, <1>20, <1>21, Zenon DEF PreviewsNext

(* Whatever requests are on their way through the gateway, and whichever of    *)
(* their grants expire: when the revocation of a route has returned the route  *)
(* has no grant, tunnel or live request until the next access is granted, a    *)
(* device that is gone has none but those being cancelled, and the count that  *)
(* limits requests is exact (preview/tokens.go:225-300, portforward.go:75-78). *)
THEOREM RevokedPreviewStaysGone == PreviewsSpec => []RevokedPreviewIsGone
<1>1. ASSUME PreviewsInvariant PROVE RevokedPreviewIsGone
  <2>1. ASSUME NEW r \in quiet \ raced
        PROVE  OfRoute(r) \cap valid = {} /\ Alive(OfRoute(r)) = {} /\ tunnel[r] = "none"
    <3>1. /\ tunnel[r] = "none" /\ \A t \in valid : tickets[t].route # r
          /\ \A v \in Visits : Running(v) => tickets[visit[v].ticket].route # r
      BY <1>1, <2>1 DEF PreviewsInvariant, RouteFacts
    <3> QED BY <3>1 DEF OfRoute, Alive, Running, Served
  <2>2. ASSUME NEW d \in Handhelds, farewell[d] = "done"
        PROVE  /\ OfDevice(d) \cap valid = {}
               /\ Alive(OfDevice(d)) \subseteq job.cancels \cup UNION {parting[e] : e \in Handhelds}
    <3>1. /\ \A t \in valid : tickets[t].device # d
          /\ \A v \in active : tickets[visit[v].ticket].device # d
      BY <1>1, <2>2 DEF PreviewsInvariant, DeviceFacts
    <3>2. ASSUME NEW v \in Alive(OfDevice(d))
          PROVE  v \in job.cancels \/ \E e \in Handhelds : v \in parting[e]
      <4>1. v \in Visits /\ Running(v) /\ tickets[visit[v].ticket].device = d
        BY <3>2 DEF Alive, OfDevice, Running, Served
      <4> QED BY <1>1, <3>1, <4>1 DEF PreviewsInvariant, PendingFacts
    <3>3. OfDevice(d) \cap valid = {}
      BY <3>1 DEF OfDevice
    <3> QED BY <3>2, <3>3
  <2>3. activeCount = Cardinality(active)
    BY <1>1, VisitsTyped
  <2> QED BY <2>1, <2>2, <2>3 DEF RevokedPreviewIsGone
<1> QED BY <1>1, PreviewsInitHolds, PreviewsNextKeeps, PTL DEF PreviewsSpec

-----------------------------------------------------------------------------
(* LoginAdmission *)

LEMMA IdleIsCall == Idle \in LoginCall /\ Idle.at = "idle" /\ ~Idle.reserved
BY DEF Idle, LoginCall

LEMMA PartCounted ==
    ASSUME NEW S, NEW T \in SUBSET S, IsFiniteSet(S)
    PROVE  /\ IsFiniteSet(S \ T) /\ IsFiniteSet(T)
           /\ Cardinality(S) \in Nat /\ Cardinality(T) \in Nat /\ Cardinality(S \ T) \in Nat
           /\ Cardinality(T) <= Cardinality(S)
           /\ Cardinality(S \ T) = Cardinality(S) - Cardinality(T)
<1>1. S \cap T = T
  OBVIOUS
<1>2. IsFiniteSet(S \ T) /\ Cardinality(S \ T) = Cardinality(S) - Cardinality(S \cap T)
  BY FS_Difference
<1>3. IsFiniteSet(T) /\ Cardinality(T) <= Cardinality(S)
  BY FS_Subset
<1> QED BY <1>1, <1>2, <1>3, FS_CardinalityType

LEMMA NewElementCounted ==
    ASSUME NEW S, NEW x, IsFiniteSet(S), x \notin S
    PROVE  IsFiniteSet(S \cup {x}) /\ Cardinality(S \cup {x}) = Cardinality(S) + 1
BY FS_AddElement

LEMMA ExchangeCounted ==
    ASSUME NEW S, NEW x \in S, NEW y, y \notin S, IsFiniteSet(S)
    PROVE  /\ IsFiniteSet((S \ {x}) \cup {y})
           /\ Cardinality((S \ {x}) \cup {y}) = Cardinality(S)
<1>1. /\ IsFiniteSet(S \ {x}) /\ Cardinality(S) \in Nat /\ Cardinality(S \ {x}) = Cardinality(S) - 1
  BY FS_RemoveElement, FS_CardinalityType
<1>2. y \notin S \ {x}
  OBVIOUS
<1>3. /\ IsFiniteSet((S \ {x}) \cup {y})
      /\ Cardinality((S \ {x}) \cup {y}) = Cardinality(S \ {x}) + 1
  BY <1>1, <1>2, NewElementCounted
<1> QED BY <1>1, <1>3

LEMMA TableCounted ==
    ASSUME NEW T, NEW A, NEW C, TableIsSound(T, A, C)
    PROVE  /\ IsFiniteSet(T) /\ IsFiniteSet(LoginsOf(T)) /\ IsFiniteSet(UnknownOf(T))
           /\ Cardinality(T) \in Nat /\ Cardinality(LoginsOf(T)) \in Nat
           /\ Cardinality(UnknownOf(T)) \in Nat
<1>1. IsFiniteSet(T)
  BY DEF TableIsSound
<1>2. LoginsOf(T) \in SUBSET T /\ UnknownOf(T) \in SUBSET T
  BY DEF LoginsOf, UnknownOf
<1>3. IsFiniteSet(LoginsOf(T)) /\ IsFiniteSet(UnknownOf(T))
  BY <1>1, <1>2, FS_Subset
<1> QED BY <1>1, <1>3, FS_CardinalityType

\* The counters of the reserved slots are none of the table's.
LEMMA TableRecounted ==
    ASSUME NEW T, NEW A, NEW C, TableIsSound(T, A, C), NEW D \in Counts,
           D.active = C.active, D.unknownActive = C.unknownActive
    PROVE  TableIsSound(T, A, D)
BY DEF TableIsSound

\* removeCeremonyLocked and cleanupCeremoniesLocked keep links and counters exact.
LEMMA TableWithout ==
    ASSUME TableIsSound(ceremonies, byActive, counts), NEW gone \in SUBSET ceremonies
    PROVE  /\ TableIsSound(ceremonies \ gone, ActiveWithout(gone), CountsWithout(gone))
           /\ CountsWithout(gone).pendingSlots = counts.pendingSlots
           /\ CountsWithout(gone).active <= counts.active
           /\ Cardinality(ceremonies \ gone) <= Cardinality(ceremonies)
           /\ \A a \in Apps : (\E c \in gone : c.kind = "login" /\ c.app = a) =>
                ActiveWithout(gone)[a] = {}
<1> DEFINE T == ceremonies \ gone
           A == ActiveWithout(gone)
           C == CountsWithout(gone)
<1>1. Linked(gone) = LoginsOf(gone)
  BY DEF Linked, LoginsOf, TableIsSound
<1>2. /\ LoginsOf(gone) \in SUBSET LoginsOf(ceremonies) /\ UnknownOf(gone) \in SUBSET UnknownOf(ceremonies)
      /\ LoginsOf(T) = LoginsOf(ceremonies) \ LoginsOf(gone)
      /\ UnknownOf(T) = UnknownOf(ceremonies) \ UnknownOf(gone)
      /\ {c \in LoginsOf(gone) : ~c.known} = UnknownOf(gone)
  BY DEF LoginsOf, UnknownOf
<1>3. /\ IsFiniteSet(ceremonies) /\ IsFiniteSet(LoginsOf(ceremonies)) /\ IsFiniteSet(UnknownOf(ceremonies))
  BY TableCounted
<1>4. /\ IsFiniteSet(T) /\ Cardinality(T) <= Cardinality(ceremonies)
  BY <1>3, PartCounted
<1>5. /\ Cardinality(LoginsOf(ceremonies)) \in Nat /\ Cardinality(LoginsOf(gone)) \in Nat
      /\ Cardinality(LoginsOf(gone)) <= Cardinality(LoginsOf(ceremonies))
      /\ Cardinality(LoginsOf(T)) = Cardinality(LoginsOf(ceremonies)) - Cardinality(LoginsOf(gone))
  BY <1>2, <1>3, PartCounted
<1>6. /\ Cardinality(UnknownOf(ceremonies)) \in Nat /\ Cardinality(UnknownOf(gone)) \in Nat
      /\ Cardinality(UnknownOf(gone)) <= Cardinality(UnknownOf(ceremonies))
      /\ Cardinality(UnknownOf(T)) = Cardinality(UnknownOf(ceremonies)) - Cardinality(UnknownOf(gone))
  BY <1>2, <1>3, PartCounted
<1>7. /\ counts \in Counts /\ counts.active = Cardinality(LoginsOf(ceremonies))
      /\ counts.unknownActive = Cardinality(UnknownOf(ceremonies))
  BY DEF TableIsSound
<1>8. C = [counts EXCEPT !.active = Less(counts.active, Cardinality(LoginsOf(gone))),
                         !.unknownActive = Less(counts.unknownActive, Cardinality(UnknownOf(gone)))]
  BY <1>1, <1>2, <1>7 DEF CountsWithout, Counts
<1>9. /\ Less(counts.active, Cardinality(LoginsOf(gone))) = Cardinality(LoginsOf(T))
      /\ Less(counts.unknownActive, Cardinality(UnknownOf(gone))) = Cardinality(UnknownOf(T))
      /\ Cardinality(LoginsOf(T)) \in Nat /\ Cardinality(UnknownOf(T)) \in Nat
      /\ Cardinality(LoginsOf(T)) <= counts.active
  BY <1>5, <1>6, <1>7 DEF Less
<1>10. /\ C \in Counts /\ C.active = Cardinality(LoginsOf(T))
       /\ C.unknownActive = Cardinality(UnknownOf(T))
       /\ C.pendingSlots = counts.pendingSlots
  BY <1>7, <1>8, <1>9 DEF Counts
<1>11. /\ ceremonies \subseteq Ceremony /\ byActive \in [Apps -> SUBSET CeremonyIds]
       /\ \A x, y \in ceremonies : x.id = y.id => x = y
       /\ \A x \in ceremonies : x.kind = "login" => x.app \in Apps /\ byActive[x.app] = {x.id}
       /\ \A a \in Apps : byActive[a] # {} =>
             \E x \in ceremonies : x.kind = "login" /\ x.app = a /\ byActive[a] = {x.id}
  BY DEF TableIsSound
<1>12. \A a \in Apps : A[a] = IF \E c \in LoginsOf(gone) : c.app = a THEN {} ELSE byActive[a]
  BY <1>1 DEF ActiveWithout
<1>13. A \in [Apps -> SUBSET CeremonyIds]
  BY <1>11 DEF ActiveWithout
<1>14. ASSUME NEW x \in T, x.kind = "login"
       PROVE  x.app \in Apps /\ A[x.app] = {x.id}
  <2>1. x \in ceremonies /\ x \notin gone /\ x.app \in Apps /\ byActive[x.app] = {x.id}
    BY <1>11, <1>14
  <2>2. ASSUME NEW c \in LoginsOf(gone), c.app = x.app PROVE FALSE
    <3>1. c \in gone /\ c \in ceremonies /\ c.kind = "login"
      BY DEF LoginsOf
    <3>2. {c.id} = {x.id}
      BY <2>1, <2>2, <3>1, <1>11
    <3>3. c.id = x.id
      BY <3>2
    <3> QED BY <2>1, <3>1, <3>3, <1>11
  <2> QED BY <2>1, <2>2, <1>12
<1>15. ASSUME NEW a \in Apps, A[a] # {}
       PROVE  \E x \in T : x.kind = "login" /\ x.app = a /\ A[a] = {x.id}
  <2>1. A[a] = byActive[a] /\ ~\E c \in LoginsOf(gone) : c.app = a
    BY <1>12, <1>15
  <2>2. PICK x \in ceremonies : x.kind = "login" /\ x.app = a /\ byActive[a] = {x.id}
    BY <2>1, <1>11, <1>15
  <2>3. x \notin gone
    BY <2>1, <2>2 DEF LoginsOf
  <2> QED BY <2>1, <2>2, <2>3
<1>16. \A a \in Apps : (\E c \in gone : c.kind = "login" /\ c.app = a) => A[a] = {}
  BY <1>12 DEF LoginsOf
<1>17. T \subseteq Ceremony /\ \A x, y \in T : x.id = y.id => x = y
  BY <1>11
<1>18. TableIsSound(T, A, C)
  BY <1>4, <1>10, <1>13, <1>14, <1>15, <1>17 DEF TableIsSound
<1> QED BY <1>4, <1>9, <1>10, <1>16, <1>18

\* commitLogin adds the one login of an app that has none.
LEMMA TableWithLogin ==
    ASSUME NEW T, NEW A, NEW C, TableIsSound(T, A, C),
           NEW a \in Apps, NEW known \in BOOLEAN, NEW id \in CeremonyIds,
           \A x \in T : x.id # id, A[a] = {},
           NEW n \in Ceremony, n.id = id, n.kind = "login", n.app = a, n.known = known,
           NEW B \in [Apps -> SUBSET CeremonyIds], B[a] = {id}, \A b \in Apps \ {a} : B[b] = A[b],
           NEW D \in Counts, D.active = C.active + 1,
           D.unknownActive = IF known THEN C.unknownActive ELSE C.unknownActive + 1
    PROVE  TableIsSound(T \cup {n}, B, D) /\ Cardinality(T \cup {n}) = Cardinality(T) + 1
<1>1. n \notin T
  OBVIOUS
<1>2. /\ IsFiniteSet(T) /\ IsFiniteSet(LoginsOf(T)) /\ IsFiniteSet(UnknownOf(T))
      /\ n \notin LoginsOf(T) /\ n \notin UnknownOf(T)
  BY <1>1, TableCounted DEF LoginsOf, UnknownOf
<1>3. IsFiniteSet(T \cup {n}) /\ Cardinality(T \cup {n}) = Cardinality(T) + 1
  BY <1>1, <1>2, NewElementCounted
<1>4. Cardinality(LoginsOf(T) \cup {n}) = Cardinality(LoginsOf(T)) + 1
  BY <1>2, NewElementCounted
<1>5. Cardinality(UnknownOf(T) \cup {n}) = Cardinality(UnknownOf(T)) + 1
  BY <1>2, NewElementCounted
<1>6. LoginsOf(T \cup {n}) = LoginsOf(T) \cup {n}
  BY <1>1 DEF LoginsOf
<1>7. UnknownOf(T \cup {n}) = IF known THEN UnknownOf(T) ELSE UnknownOf(T) \cup {n}
  BY <1>1 DEF UnknownOf
<1>8. C.active = Cardinality(LoginsOf(T)) /\ C.unknownActive = Cardinality(UnknownOf(T))
  BY DEF TableIsSound
<1>9. D.active = Cardinality(LoginsOf(T \cup {n}))
  BY <1>4, <1>6, <1>8
<1>10. D.unknownActive = Cardinality(UnknownOf(T \cup {n}))
  <2>1. CASE known
    <3>1. UnknownOf(T \cup {n}) = UnknownOf(T)
      BY <1>7, <2>1
    <3> QED BY <1>8, <2>1, <3>1
  <2>2. CASE ~known
    <3>1. UnknownOf(T \cup {n}) = UnknownOf(T) \cup {n}
      BY <1>7, <2>2
    <3> QED BY <1>5, <1>8, <2>2, <3>1
  <2> QED BY <2>1, <2>2
<1>11. /\ T \subseteq Ceremony /\ A \in [Apps -> SUBSET CeremonyIds]
       /\ \A x, y \in T : x.id = y.id => x = y
       /\ \A x \in T : x.kind = "login" => x.app \in Apps /\ A[x.app] = {x.id}
       /\ \A b \in Apps : A[b] # {} =>
             \E x \in T : x.kind = "login" /\ x.app = b /\ A[b] = {x.id}
  BY DEF TableIsSound
<1>12. B \in [Apps -> SUBSET CeremonyIds] /\ B[a] = {id} /\ \A b \in Apps \ {a} : B[b] = A[b]
  OBVIOUS
<1>13. \A x, y \in T \cup {n} : x.id = y.id => x = y
  BY <1>1, <1>11
<1>14. ASSUME NEW x \in T \cup {n}, x.kind = "login" PROVE x.app \in Apps /\ B[x.app] = {x.id}
  <2>1. CASE x = n
    BY <1>1, <1>12, <2>1
  <2>2. CASE x \in T
    <3>1. x.app \in Apps /\ A[x.app] = {x.id}
      BY <1>11, <1>14, <2>2
    <3>2. x.app # a
      BY <3>1
    <3> QED BY <1>12, <3>1, <3>2
  <2> QED BY <2>1, <2>2
<1>15. ASSUME NEW b \in Apps, B[b] # {}
       PROVE  \E x \in T \cup {n} : x.kind = "login" /\ x.app = b /\ B[b] = {x.id}
  <2>1. CASE b = a
    BY <1>1, <1>12, <2>1
  <2>2. CASE b # a
    BY <1>11, <1>12, <1>15, <2>2
  <2> QED BY <2>1, <2>2
<1>16. T \cup {n} \subseteq Ceremony
  BY <1>1, <1>11
<1>17. TableIsSound(T \cup {n}, B, D)
  BY <1>3, <1>9, <1>10, <1>12, <1>13, <1>14, <1>15, <1>16 DEF TableIsSound
<1> QED BY <1>3, <1>17

\* saveCeremony adds a registration, which is linked to no app.
LEMMA TableWithRegistration ==
    ASSUME NEW T, NEW A, NEW C, TableIsSound(T, A, C), NEW id \in CeremonyIds,
           \A x \in T : x.id # id,
           NEW n \in Ceremony, n.id = id, n.kind = "registration"
    PROVE  TableIsSound(T \cup {n}, A, C) /\ Cardinality(T \cup {n}) = Cardinality(T) + 1
<1>1. n \notin T
  OBVIOUS
<1>2. IsFiniteSet(T) /\ IsFiniteSet(T \cup {n}) /\ Cardinality(T \cup {n}) = Cardinality(T) + 1
  BY <1>1, TableCounted, NewElementCounted
<1>3. LoginsOf(T \cup {n}) = LoginsOf(T) /\ UnknownOf(T \cup {n}) = UnknownOf(T)
  BY <1>1 DEF LoginsOf, UnknownOf
<1>4. TableIsSound(T \cup {n}, A, C)
  BY <1>1, <1>2, <1>3 DEF TableIsSound
<1> QED BY <1>2, <1>4

\* A ceremony that expires stays in the table until it is next used.
LEMMA TableWithExpired ==
    ASSUME NEW T, NEW A, NEW C, TableIsSound(T, A, C), NEW c \in T, ~c.expired,
           NEW d \in Ceremony, d.id = c.id, d.kind = c.kind, d.app = c.app, d.known = c.known,
           d.expired
    PROVE  /\ TableIsSound((T \ {c}) \cup {d}, A, C)
           /\ Cardinality((T \ {c}) \cup {d}) = Cardinality(T)
<1> DEFINE U == (T \ {c}) \cup {d}
<1>1. /\ T \subseteq Ceremony /\ A \in [Apps -> SUBSET CeremonyIds] /\ C \in Counts
      /\ \A x, y \in T : x.id = y.id => x = y
      /\ \A x \in T : x.kind = "login" => x.app \in Apps /\ A[x.app] = {x.id}
      /\ \A b \in Apps : A[b] # {} =>
            \E x \in T : x.kind = "login" /\ x.app = b /\ A[b] = {x.id}
      /\ C.active = Cardinality(LoginsOf(T)) /\ C.unknownActive = Cardinality(UnknownOf(T))
  BY DEF TableIsSound
<1>2. /\ d.id = c.id /\ d.kind = c.kind /\ d.app = c.app /\ d.known = c.known
  OBVIOUS
<1>3. d \notin T
  BY <1>1, <1>2
<1>4. IsFiniteSet(T) /\ IsFiniteSet(LoginsOf(T)) /\ IsFiniteSet(UnknownOf(T))
  BY TableCounted
<1>5. IsFiniteSet(U) /\ Cardinality(U) = Cardinality(T)
  BY <1>3, <1>4, ExchangeCounted
<1>6. Cardinality(LoginsOf(U)) = Cardinality(LoginsOf(T))
  <2>1. CASE c.kind = "login"
    <3>1. c \in LoginsOf(T) /\ d \notin LoginsOf(T)
      BY <1>3, <2>1 DEF LoginsOf
    <3>2. LoginsOf(U) = (LoginsOf(T) \ {c}) \cup {d}
      BY <1>2, <2>1 DEF LoginsOf
    <3>3. Cardinality((LoginsOf(T) \ {c}) \cup {d}) = Cardinality(LoginsOf(T))
      BY <1>4, <3>1, ExchangeCounted
    <3> QED BY <3>2, <3>3
  <2>2. CASE c.kind # "login"
    <3>1. LoginsOf(U) = LoginsOf(T)
      BY <1>2, <2>2 DEF LoginsOf
    <3> QED BY <3>1
  <2> QED BY <2>1, <2>2
<1>7. Cardinality(UnknownOf(U)) = Cardinality(UnknownOf(T))
  <2>1. CASE c.kind = "login" /\ ~c.known
    <3>1. c \in UnknownOf(T) /\ d \notin UnknownOf(T)
      BY <1>3, <2>1 DEF UnknownOf
    <3>2. UnknownOf(U) = (UnknownOf(T) \ {c}) \cup {d}
      BY <1>2, <2>1 DEF UnknownOf
    <3>3. Cardinality((UnknownOf(T) \ {c}) \cup {d}) = Cardinality(UnknownOf(T))
      BY <1>4, <3>1, ExchangeCounted
    <3> QED BY <3>2, <3>3
  <2>2. CASE ~(c.kind = "login" /\ ~c.known)
    <3>1. UnknownOf(U) = UnknownOf(T)
      BY <1>2, <2>2 DEF UnknownOf
    <3> QED BY <3>1
  <2> QED BY <2>1, <2>2
<1>8. \A x, y \in U : x.id = y.id => x = y
  BY <1>1, <1>2
<1>9. \A x \in U : x.kind = "login" => x.app \in Apps /\ A[x.app] = {x.id}
  BY <1>1, <1>2
<1>10. ASSUME NEW b \in Apps, A[b] # {}
       PROVE  \E x \in U : x.kind = "login" /\ x.app = b /\ A[b] = {x.id}
  <2>1. PICK x \in T : x.kind = "login" /\ x.app = b /\ A[b] = {x.id}
    BY <1>1, <1>10
  <2>2. CASE x = c
    BY <1>2, <2>1, <2>2
  <2>3. CASE x # c
    BY <2>1, <2>3
  <2> QED BY <2>2, <2>3
<1>11. U \subseteq Ceremony
  BY <1>1, <1>2
<1>12. TableIsSound(U, A, C)
  BY <1>1, <1>5, <1>6, <1>7, <1>8, <1>9, <1>10, <1>11 DEF TableIsSound
<1> QED BY <1>5, <1>12

\* A call moves on and the slots stay with those that hold them.
LEMMA CallMoves ==
    ASSUME SlotsAreHeld, NEW p \in Calls, NEW r \in LoginCall, CallIs(p, r),
           r.at \in {"looked", "reserved", "refused"} => r.app \in Apps,
           r.at = "looked" => ~r.reserved,
           (r.at \in {"reserved", "refused"} /\ r.reserved) <=> p \in Reservations,
           counts'.pendingSlots = counts.pendingSlots
    PROVE  SlotsAreHeld'
<1>1. /\ calls \in [Calls -> LoginCall] /\ calls' \in [Calls -> LoginCall] /\ calls'[p] = r
      /\ \A q \in Calls \ {p} : calls'[q] = calls[q]
  BY DEF SlotsAreHeld, CallIs
<1>2. Reservations' = Reservations
  BY <1>1 DEF Reservations
<1>3. /\ \A q \in Calls : calls'[q].at \in {"looked", "reserved", "refused"} => calls'[q].app \in Apps
      /\ \A q \in Calls : calls'[q].at = "looked" => ~calls'[q].reserved
  BY <1>1 DEF SlotsAreHeld
<1> QED BY <1>1, <1>2, <1>3 DEF SlotsAreHeld

\* A call is given a slot.
LEMMA CallReserves ==
    ASSUME SlotsAreHeld, NEW p \in Calls, NEW r \in LoginCall, CallIs(p, r),
           r.at = "reserved", r.reserved, r.app \in Apps, p \notin Reservations,
           counts'.pendingSlots = counts.pendingSlots + 1
    PROVE  SlotsAreHeld'
<1>1. /\ calls \in [Calls -> LoginCall] /\ calls' \in [Calls -> LoginCall] /\ calls'[p] = r
      /\ \A q \in Calls \ {p} : calls'[q] = calls[q]
  BY DEF SlotsAreHeld, CallIs
<1>2. Reservations' = Reservations \cup {p}
  BY <1>1 DEF Reservations
<1>3. /\ \A q \in Calls : calls'[q].at \in {"looked", "reserved", "refused"} => calls'[q].app \in Apps
      /\ \A q \in Calls : calls'[q].at = "looked" => ~calls'[q].reserved
  BY <1>1 DEF SlotsAreHeld
<1>4. /\ IsFiniteSet(Reservations \cup {p})
      /\ Cardinality(Reservations \cup {p}) = Cardinality(Reservations) + 1
  BY NewElementCounted DEF SlotsAreHeld
<1>5. IsFiniteSet(Reservations') /\ Cardinality(Reservations') = Cardinality(Reservations) + 1
  BY <1>2, <1>4
<1>6. counts'.pendingSlots = Cardinality(Reservations')
  BY <1>5 DEF SlotsAreHeld
<1> QED BY <1>1, <1>3, <1>5, <1>6 DEF SlotsAreHeld

\* A call gives its slot back, or turns it into a ceremony.
LEMMA CallReleases ==
    ASSUME SlotsAreHeld, NEW p \in Calls, CallIs(p, Idle), p \in Reservations,
           counts'.pendingSlots = counts.pendingSlots - 1
    PROVE  SlotsAreHeld'
<1>1. /\ calls \in [Calls -> LoginCall] /\ calls' \in [Calls -> LoginCall] /\ calls'[p] = Idle
      /\ \A q \in Calls \ {p} : calls'[q] = calls[q]
  BY IdleIsCall DEF SlotsAreHeld, CallIs
<1>2. Reservations' = Reservations \ {p}
  BY <1>1, IdleIsCall DEF Reservations
<1>3. /\ \A q \in Calls : calls'[q].at \in {"looked", "reserved", "refused"} => calls'[q].app \in Apps
      /\ \A q \in Calls : calls'[q].at = "looked" => ~calls'[q].reserved
  BY <1>1, IdleIsCall DEF SlotsAreHeld
<1>4. /\ IsFiniteSet(Reservations \ {p})
      /\ Cardinality(Reservations \ {p}) = Cardinality(Reservations) - 1
  BY FS_RemoveElement DEF SlotsAreHeld
<1>5. IsFiniteSet(Reservations') /\ Cardinality(Reservations') = Cardinality(Reservations) - 1
  BY <1>2, <1>4
<1>6. counts'.pendingSlots = Cardinality(Reservations')
  BY <1>5 DEF SlotsAreHeld
<1> QED BY <1>1, <1>3, <1>5, <1>6 DEF SlotsAreHeld

\* A call that holds a slot is counted, so that releasing one is exact.
LEMMA HeldSlotIsCounted ==
    ASSUME SlotsAreHeld, counts \in Counts, NEW p \in Reservations
    PROVE  counts.pendingSlots \in Nat /\ counts.pendingSlots > 0
<1>1. IsFiniteSet(Reservations) /\ counts.pendingSlots = Cardinality(Reservations)
  BY DEF SlotsAreHeld
<1>2. Cardinality(Reservations) # 0
  BY <1>1, FS_EmptySet
<1> QED BY <1>1, <1>2 DEF Counts

\* What a call does to itself alone.
LEMMA CallsOnly ==
    ASSUME AdmissionInvariant, UNCHANGED <<ceremonies, byActive, counts>>, SlotsAreHeld'
    PROVE  AdmissionInvariant'
BY DEF AdmissionInvariant, TableIsSound, HasRoom

\* Every use of the table begins with a clean-up, which makes room.
LEMMA CleanedUp ==
    ASSUME AdmissionInvariant, NEW gone \in SUBSET ceremonies
    PROVE  /\ TableIsSound(ceremonies \ gone, ActiveWithout(gone), CountsWithout(gone))
           /\ HasRoom(ceremonies \ gone, CountsWithout(gone))
           /\ CountsWithout(gone) \in Counts
           /\ CountsWithout(gone).pendingSlots = counts.pendingSlots
           /\ \A a \in Apps : (\E c \in gone : c.kind = "login" /\ c.app = a) =>
                ActiveWithout(gone)[a] = {}
<1>1. TableIsSound(ceremonies, byActive, counts) /\ HasRoom(ceremonies, counts) /\ counts \in Counts
  BY DEF AdmissionInvariant, TableIsSound
<1>2. /\ TableIsSound(ceremonies \ gone, ActiveWithout(gone), CountsWithout(gone))
      /\ CountsWithout(gone).pendingSlots = counts.pendingSlots
      /\ CountsWithout(gone).active <= counts.active
      /\ Cardinality(ceremonies \ gone) <= Cardinality(ceremonies)
      /\ \A a \in Apps : (\E c \in gone : c.kind = "login" /\ c.app = a) =>
           ActiveWithout(gone)[a] = {}
  BY <1>1, TableWithout
<1>3. CountsWithout(gone) \in Counts
  BY <1>2 DEF TableIsSound
<1>4. Cardinality(ceremonies) \in Nat /\ Cardinality(ceremonies \ gone) \in Nat
  BY <1>1, <1>2, TableCounted
<1>5. /\ counts.active \in Nat /\ counts.pendingSlots \in Nat /\ CountsWithout(gone).active \in Nat
  BY <1>1, <1>3 DEF Counts
<1>6. HasRoom(ceremonies \ gone, CountsWithout(gone))
  BY <1>1, <1>2, <1>4, <1>5, AdmissionAssumption DEF HasRoom
<1> QED BY <1>2, <1>3, <1>6

LEMMA LookUpKeeps ==
    ASSUME AdmissionInvariant, NEW p \in Calls, NEW a \in Apps, LookUp(p, a)
    PROVE  AdmissionInvariant'
<1>1. PICK k \in BOOLEAN : k = (a \in knownApps')
  <2>1. CASE a \in knownApps'
    <3>1. TRUE = (a \in knownApps')
      BY <2>1
    <3> QED BY <3>1, Zenon
  <2>2. CASE a \notin knownApps'
    <3>1. FALSE = (a \in knownApps')
      BY <2>2
    <3> QED BY <3>1, Zenon
  <2> QED BY <2>1, <2>2
<1>2. PICK r : r = [Idle EXCEPT !.at = "looked", !.app = a, !.known = k]
  OBVIOUS
<1>3. r \in LoginCall /\ r.at = "looked" /\ r.app = a /\ ~r.reserved
  BY <1>2 DEF Idle, LoginCall
<1>4. CallIs(p, r) /\ counts' = counts
  BY <1>1, <1>2, Zenon DEF LookUp
<1>5. p \notin Reservations
  BY IdleIsCall DEF LookUp, Reservations
<1>6. SlotsAreHeld'
  BY <1>3, <1>4, <1>5, CallMoves DEF AdmissionInvariant
<1> QED BY <1>6, CallsOnly DEF LookUp

LEMMA ReserveKeeps ==
    ASSUME AdmissionInvariant, NEW p \in Calls, Reserve(p)
    PROVE  AdmissionInvariant'
<1> DEFINE a == calls[p].app
           known == calls[p].known
           T == ceremonies \ Expired
           A == ActiveWithout(Expired)
           left == CountsWithout(Expired)
<1>1. Expired \in SUBSET ceremonies
  BY DEF Expired
<1>2. /\ TableIsSound(T, A, left) /\ HasRoom(T, left) /\ left \in Counts
      /\ left.pendingSlots = counts.pendingSlots
  BY <1>1, CleanedUp
<1>3. ceremonies' = T /\ byActive' = A /\ calls[p].at = "looked"
  BY DEF Reserve
<1>4. /\ SlotsAreHeld /\ calls[p] \in LoginCall /\ a \in Apps /\ ~calls[p].reserved
      /\ p \notin Reservations
  BY <1>3 DEF AdmissionInvariant, SlotsAreHeld, Reservations
<1>5. CASE counts' = left /\ CallIs(p, Idle)
  <2>1. SlotsAreHeld'
    BY <1>2, <1>4, <1>5, IdleIsCall, CallMoves
  <2> QED BY <1>2, <1>3, <1>5, <2>1 DEF AdmissionInvariant
<1>6. CASE /\ A[a] # {} /\ counts' = left
           /\ CallIs(p, [calls[p] EXCEPT !.at = "reserved", !.reserved = FALSE])
  <2>1. PICK r : r = [calls[p] EXCEPT !.at = "reserved", !.reserved = FALSE]
    OBVIOUS
  <2>2. r \in LoginCall /\ r.at = "reserved" /\ r.app = a /\ ~r.reserved
    BY <1>4, <2>1 DEF LoginCall
  <2>3. CallIs(p, r)
    BY <1>6, <2>1
  <2>4. SlotsAreHeld'
    BY <1>2, <1>4, <1>6, <2>2, <2>3, CallMoves
  <2> QED BY <1>2, <1>3, <1>6, <2>4 DEF AdmissionInvariant
<1>7. CASE /\ ~Full(Cardinality(T), left, known)
           /\ counts' = [left EXCEPT !.pendingSlots = left.pendingSlots + 1,
                !.pendingUnknown = IF known THEN left.pendingUnknown ELSE left.pendingUnknown + 1]
           /\ CallIs(p, [calls[p] EXCEPT !.at = "reserved", !.reserved = TRUE])
  <2>1. PICK r : r = [calls[p] EXCEPT !.at = "reserved", !.reserved = TRUE]
    OBVIOUS
  <2>2. r \in LoginCall /\ r.at = "reserved" /\ r.app = a /\ r.reserved
    BY <1>4, <2>1 DEF LoginCall
  <2>3. CallIs(p, r)
    BY <1>7, <2>1
  <2>4. /\ counts' \in Counts /\ counts'.active = left.active
        /\ counts'.unknownActive = left.unknownActive
        /\ counts'.pendingSlots = left.pendingSlots + 1
        /\ left.active \in Nat /\ left.pendingSlots \in Nat
    <3>1. PICK u \in Nat :
            u = IF known THEN left.pendingUnknown ELSE left.pendingUnknown + 1
      BY <1>2 DEF Counts
    <3>2. PICK v \in Nat : v = left.pendingSlots + 1
      BY <1>2 DEF Counts
    <3>3. counts' = [left EXCEPT !.pendingSlots = v, !.pendingUnknown = u]
      BY <1>7, <3>1, <3>2, Zenon
    <3>4. /\ counts' \in Counts /\ counts'.active = left.active
          /\ counts'.unknownActive = left.unknownActive /\ counts'.pendingSlots = v
          /\ left.active \in Nat /\ left.pendingSlots \in Nat
      BY <1>2, <3>3 DEF Counts
    <3> QED BY <3>2, <3>4
  <2>5. SlotsAreHeld'
    BY <1>2, <1>4, <2>2, <2>3, <2>4, CallReserves
  <2>6. TableIsSound(T, A, counts')
    BY <1>2, <2>4, TableRecounted
  <2>7. Cardinality(T) \in Nat
    BY <1>2, TableCounted
  <2>8. Cardinality(T) + left.pendingSlots < MaxCeremonies /\ left.active + left.pendingSlots < MaxLogins
    BY <1>7, <2>4, <2>7, AdmissionAssumption DEF Full
  <2>9. HasRoom(T, counts')
    BY <2>4, <2>7, <2>8, AdmissionAssumption DEF HasRoom
  <2> QED BY <1>3, <2>5, <2>6, <2>9 DEF AdmissionInvariant
<1>8. \/ counts' = left /\ CallIs(p, Idle)
      \/ /\ A[a] # {} /\ counts' = left
         /\ CallIs(p, [calls[p] EXCEPT !.at = "reserved", !.reserved = FALSE])
      \/ /\ ~Full(Cardinality(T), left, known)
         /\ counts' = [left EXCEPT !.pendingSlots = left.pendingSlots + 1,
              !.pendingUnknown = IF known THEN left.pendingUnknown ELSE left.pendingUnknown + 1]
         /\ CallIs(p, [calls[p] EXCEPT !.at = "reserved", !.reserved = TRUE])
  <2>1. CASE A[a] # {}
    <3>1. \/ counts' = left /\ CallIs(p, Idle)
          \/ /\ counts' = left
             /\ CallIs(p, [calls[p] EXCEPT !.at = "reserved", !.reserved = ~(A[a] # {})])
      BY <2>1, Zenon DEF Reserve
    <3>2. (A[a] # {}) = TRUE
      BY <2>1
    <3>3. (~(A[a] # {})) = FALSE
      BY <2>1
    <3> QED BY <2>1, <3>1, <3>3, Zenon
  <2>2. CASE A[a] = {}
    <3>1. \/ counts' = left /\ CallIs(p, Idle)
          \/ /\ ~Full(Cardinality(T), left, known)
             /\ counts' = [left EXCEPT !.pendingSlots = @ + 1,
                                       !.pendingUnknown = IF known THEN @ ELSE @ + 1]
             /\ CallIs(p, [calls[p] EXCEPT !.at = "reserved", !.reserved = ~(A[a] # {})])
      BY <2>2, Zenon DEF Reserve
    <3>2. (~(A[a] # {})) = TRUE
      BY <2>2
    <3>3. [left EXCEPT !.pendingSlots = @ + 1, !.pendingUnknown = IF known THEN @ ELSE @ + 1]
          = [left EXCEPT !.pendingSlots = left.pendingSlots + 1,
              !.pendingUnknown = IF known THEN left.pendingUnknown ELSE left.pendingUnknown + 1]
      BY <1>2 DEF Counts
    <3> QED BY <3>1, <3>2, <3>3, Zenon
  <2> QED BY <2>1, <2>2
<1> QED BY <1>5, <1>6, <1>7, <1>8, Zenon

LEMMA ReleasedCounts ==
    ASSUME NEW c \in Counts, c.pendingSlots > 0, NEW known \in BOOLEAN
    PROVE  /\ Released(c, known) \in Counts /\ Released(c, known).active = c.active
           /\ Released(c, known).unknownActive = c.unknownActive
           /\ Released(c, known).pendingSlots = c.pendingSlots - 1
<1>1. /\ c.pendingSlots \in Nat /\ c.pendingUnknown \in Nat
      /\ Less(c.pendingSlots, 1) = c.pendingSlots - 1 /\ Less(c.pendingUnknown, 1) \in Nat
  BY DEF Counts, Less
<1>2. PICK u \in Nat : u = IF known THEN c.pendingUnknown ELSE Less(c.pendingUnknown, 1)
  BY <1>1
<1>3. Released(c, known) = [c EXCEPT !.pendingSlots = Less(c.pendingSlots, 1), !.pendingUnknown = u]
  BY <1>2 DEF Released, Counts
<1>4. PICK v \in Nat : v = c.pendingSlots - 1 /\ v = Less(c.pendingSlots, 1)
  BY <1>1
<1>5. Released(c, known) = [c EXCEPT !.pendingSlots = v, !.pendingUnknown = u]
  BY <1>3, <1>4, Zenon
<1>6. /\ Released(c, known) \in Counts /\ Released(c, known).active = c.active
      /\ Released(c, known).unknownActive = c.unknownActive
      /\ Released(c, known).pendingSlots = v
  BY <1>5 DEF Counts
<1> QED BY <1>4, <1>6

LEMMA CancelKeeps ==
    ASSUME AdmissionInvariant, NEW p \in Calls, Cancel(p)
    PROVE  AdmissionInvariant'
<1>1. /\ calls[p].at \in {"reserved", "refused"} /\ CallIs(p, Idle)
      /\ UNCHANGED <<ceremonies, byActive>>
      /\ counts' = IF calls[p].reserved THEN Released(counts, calls[p].known) ELSE counts
  BY DEF Cancel
<1>2. /\ SlotsAreHeld /\ calls[p] \in LoginCall /\ calls[p].known \in BOOLEAN
      /\ calls[p].reserved \in BOOLEAN
      /\ TableIsSound(ceremonies, byActive, counts) /\ HasRoom(ceremonies, counts)
      /\ counts \in Counts
  BY DEF AdmissionInvariant, SlotsAreHeld, LoginCall, TableIsSound
<1>3. CASE calls[p].reserved
  <2>1. p \in Reservations
    BY <1>1, <1>3 DEF Reservations
  <2>2. counts.pendingSlots \in Nat /\ counts.pendingSlots > 0
    BY <1>2, <2>1, HeldSlotIsCounted
  <2>3. counts' = Released(counts, calls[p].known)
    BY <1>1, <1>3
  <2>4. /\ counts' \in Counts /\ counts'.active = counts.active
        /\ counts'.unknownActive = counts.unknownActive
        /\ counts'.pendingSlots = counts.pendingSlots - 1
    BY <1>2, <2>2, <2>3, ReleasedCounts
  <2>5. SlotsAreHeld'
    BY <1>1, <1>2, <2>1, <2>4, CallReleases
  <2>6. TableIsSound(ceremonies, byActive, counts')
    BY <1>2, <2>4, TableRecounted
  <2>7. Cardinality(ceremonies) \in Nat /\ counts.active \in Nat
    BY <1>2, TableCounted DEF Counts
  <2>8. HasRoom(ceremonies, counts')
    BY <1>2, <2>2, <2>4, <2>7, AdmissionAssumption DEF HasRoom
  <2> QED BY <1>1, <2>5, <2>6, <2>8 DEF AdmissionInvariant
<1>4. CASE ~calls[p].reserved
  <2>1. p \notin Reservations /\ counts' = counts
    BY <1>1, <1>4 DEF Reservations
  <2>2. SlotsAreHeld'
    BY <1>1, <1>2, <2>1, IdleIsCall, CallMoves
  <2> QED BY <1>1, <2>1, <2>2, CallsOnly
<1> QED BY <1>3, <1>4

\* A login that goes leaves room for the one that replaces it.
LEMMA ReplacedMakesRoom ==
    ASSUME AdmissionInvariant, NEW gone \in SUBSET ceremonies, NEW x \in gone, x.kind = "login"
    PROVE  /\ Cardinality(ceremonies \ gone) + 1 + counts.pendingSlots <= MaxCeremonies
           /\ CountsWithout(gone).active + 1 + counts.pendingSlots <= MaxLogins
<1> DEFINE T == ceremonies \ gone
<1>1. TableIsSound(ceremonies, byActive, counts) /\ HasRoom(ceremonies, counts)
  BY DEF AdmissionInvariant
<1>2. TableIsSound(T, ActiveWithout(gone), CountsWithout(gone))
  BY CleanedUp
<1>3. /\ counts \in Counts /\ counts.active = Cardinality(LoginsOf(ceremonies))
      /\ CountsWithout(gone).active = Cardinality(LoginsOf(T))
      /\ counts.pendingSlots \in Nat
  BY <1>1, <1>2 DEF TableIsSound, Counts
<1>4. /\ IsFiniteSet(ceremonies) /\ IsFiniteSet(LoginsOf(ceremonies))
      /\ Cardinality(ceremonies) \in Nat /\ Cardinality(LoginsOf(ceremonies)) \in Nat
      /\ Cardinality(T) \in Nat /\ Cardinality(LoginsOf(T)) \in Nat
  BY <1>1, <1>2, TableCounted
<1>5. x \in ceremonies /\ x \in LoginsOf(ceremonies)
  BY DEF LoginsOf
<1>6. T \in SUBSET (ceremonies \ {x}) /\ LoginsOf(T) \in SUBSET (LoginsOf(ceremonies) \ {x})
  BY DEF LoginsOf
<1>7. /\ IsFiniteSet(ceremonies \ {x})
      /\ Cardinality(ceremonies \ {x}) = Cardinality(ceremonies) - 1
  BY <1>4, <1>5, FS_RemoveElement
<1>8. /\ IsFiniteSet(LoginsOf(ceremonies) \ {x})
      /\ Cardinality(LoginsOf(ceremonies) \ {x}) = Cardinality(LoginsOf(ceremonies)) - 1
  BY <1>4, <1>5, FS_RemoveElement
<1>9. Cardinality(T) <= Cardinality(ceremonies \ {x})
  BY <1>6, <1>7, FS_Subset
<1>10. Cardinality(LoginsOf(T)) <= Cardinality(LoginsOf(ceremonies) \ {x})
  BY <1>6, <1>8, FS_Subset
<1>11. /\ Cardinality(ceremonies) + counts.pendingSlots <= MaxCeremonies
       /\ Cardinality(LoginsOf(ceremonies)) + counts.pendingSlots <= MaxLogins
  BY <1>1, <1>3 DEF HasRoom
<1> QED BY <1>3, <1>4, <1>7, <1>8, <1>9, <1>10, <1>11, AdmissionAssumption

\* commitLogin clears the app's link, whether its login expired or is replaced.
LEMMA CommitClearsLink ==
    ASSUME AdmissionInvariant, NEW a \in Apps, NEW gone \in SUBSET ceremonies,
           \A c \in ceremonies : {c.id} = byActive[a] => c \in gone
    PROVE  ActiveWithout(gone)[a] = {}
<1>1. CASE byActive[a] = {}
  BY <1>1 DEF ActiveWithout
<1>2. CASE byActive[a] # {}
  <2>1. PICK x \in ceremonies : x.kind = "login" /\ x.app = a /\ byActive[a] = {x.id}
    BY <1>2 DEF AdmissionInvariant, TableIsSound
  <2>2. x \in gone
    BY <2>1
  <2> QED BY <2>1, <2>2, CleanedUp
<1> QED BY <1>1, <1>2

\* The parts of a committed login: its ceremony, its link and its count.
NewLogin(id, a, known) ==
    [id |-> id, kind |-> "login", app |-> a, known |-> known, expired |-> FALSE]
LinkedTo(links, a, id) == [links EXCEPT ![a] = {id}]
CountsWith(c, known) ==
    [c EXCEPT !.active = @ + 1, !.unknownActive = IF known THEN @ ELSE @ + 1]

LEMMA NewLoginParts ==
    ASSUME NEW id \in CeremonyIds, NEW a \in Apps, NEW known \in BOOLEAN
    PROVE  /\ NewLogin(id, a, known) \in Ceremony /\ NewLogin(id, a, known).id = id
           /\ NewLogin(id, a, known).kind = "login" /\ NewLogin(id, a, known).app = a
           /\ NewLogin(id, a, known).known = known
BY DEF NewLogin, Ceremony

LEMMA NewLinkParts ==
    ASSUME NEW id \in CeremonyIds, NEW a \in Apps, NEW A \in [Apps -> SUBSET CeremonyIds]
    PROVE  /\ LinkedTo(A, a, id) \in [Apps -> SUBSET CeremonyIds] /\ LinkedTo(A, a, id)[a] = {id}
           /\ \A b \in Apps \ {a} : LinkedTo(A, a, id)[b] = A[b]
BY DEF LinkedTo

LEMMA NewCountsParts ==
    ASSUME NEW c \in Counts, NEW known \in BOOLEAN
    PROVE  /\ CountsWith(c, known) \in Counts /\ CountsWith(c, known).active = c.active + 1
           /\ CountsWith(c, known).unknownActive =
                IF known THEN c.unknownActive ELSE c.unknownActive + 1
           /\ CountsWith(c, known).pendingSlots = c.pendingSlots
<1>1. c.active \in Nat /\ c.unknownActive \in Nat
  BY DEF Counts
<1>2. PICK v \in Nat : v = c.active + 1
  BY <1>1
<1>3. PICK u \in Nat : u = IF known THEN c.unknownActive ELSE c.unknownActive + 1
  BY <1>1
<1>4. CountsWith(c, known) = [c EXCEPT !.active = v, !.unknownActive = u]
  BY <1>2, <1>3 DEF CountsWith, Counts
<1>5. /\ CountsWith(c, known) \in Counts /\ CountsWith(c, known).active = v
      /\ CountsWith(c, known).unknownActive = u
      /\ CountsWith(c, known).pendingSlots = c.pendingSlots
  BY <1>4 DEF Counts
<1> QED BY <1>2, <1>3, <1>5

\* The login is put into the cleaned table, which has room for it.
LEMMA LoginIsCommitted ==
    ASSUME NEW T, NEW A, NEW L, TableIsSound(T, A, L), NEW id \in CeremonyIds,
           NEW a \in Apps, NEW known \in BOOLEAN, \A x \in T : x.id # id, A[a] = {},
           Cardinality(T) + 1 + L.pendingSlots <= MaxCeremonies,
           L.active + 1 + L.pendingSlots <= MaxLogins
    PROVE  /\ TableIsSound(T \cup {NewLogin(id, a, known)}, LinkedTo(A, a, id), CountsWith(L, known))
           /\ HasRoom(T \cup {NewLogin(id, a, known)}, CountsWith(L, known))
           /\ CountsWith(L, known).pendingSlots = L.pendingSlots
<1>1. L \in Counts /\ A \in [Apps -> SUBSET CeremonyIds]
  BY DEF TableIsSound
<1>2. /\ NewLogin(id, a, known) \in Ceremony /\ NewLogin(id, a, known).id = id
      /\ NewLogin(id, a, known).kind = "login" /\ NewLogin(id, a, known).app = a
      /\ NewLogin(id, a, known).known = known
  BY NewLoginParts
<1>3. /\ LinkedTo(A, a, id) \in [Apps -> SUBSET CeremonyIds] /\ LinkedTo(A, a, id)[a] = {id}
      /\ \A b \in Apps \ {a} : LinkedTo(A, a, id)[b] = A[b]
  BY <1>1, NewLinkParts
<1>4. /\ CountsWith(L, known) \in Counts /\ CountsWith(L, known).active = L.active + 1
      /\ CountsWith(L, known).unknownActive =
           IF known THEN L.unknownActive ELSE L.unknownActive + 1
      /\ CountsWith(L, known).pendingSlots = L.pendingSlots
  BY <1>1, NewCountsParts
<1>5. /\ TableIsSound(T \cup {NewLogin(id, a, known)}, LinkedTo(A, a, id), CountsWith(L, known))
      /\ Cardinality(T \cup {NewLogin(id, a, known)}) = Cardinality(T) + 1
  BY <1>2, <1>3, <1>4, TableWithLogin, SMTT(60)
<1>6. Cardinality(T) \in Nat /\ L.active \in Nat /\ L.pendingSlots \in Nat
  BY <1>1, TableCounted DEF Counts
<1>7. HasRoom(T \cup {NewLogin(id, a, known)}, CountsWith(L, known))
  BY <1>4, <1>5, <1>6 DEF HasRoom
<1> QED BY <1>4, <1>5, <1>7

LEMMA CommitKeeps ==
    ASSUME AdmissionInvariant, NEW p \in Calls, NEW id \in CeremonyIds, Commit(p, id)
    PROVE  AdmissionInvariant'
<1> DEFINE a == calls[p].app
           known == calls[p].known
           replaced == {c \in ceremonies \ Expired : {c.id} = byActive[a]}
           gone == Expired \cup replaced
           T == ceremonies \ gone
           A == ActiveWithout(gone)
           C == CountsWithout(gone)
           L == IF calls[p].reserved THEN Released(C, known) ELSE C
           refused == ~calls[p].reserved /\ replaced = {} /\ Full(Cardinality(T), L, known)
<1>1. calls[p].at = "reserved" /\ id \notin Ids
  BY DEF Commit
<1>2. \/ /\ ceremonies' = T /\ byActive' = A /\ counts' = L /\ ~calls[p].reserved
         /\ CallIs(p, [calls[p] EXCEPT !.at = "refused"])
      \/ /\ ceremonies' = T \cup {NewLogin(id, a, known)} /\ byActive' = LinkedTo(A, a, id)
         /\ counts' = CountsWith(L, known)
         /\ CallIs(p, Idle)
         /\ ~refused
  BY Zenon DEF Commit, NewLogin, LinkedTo, CountsWith
<1>3. gone \in SUBSET ceremonies
  BY DEF Expired
<1>4. /\ SlotsAreHeld /\ calls[p] \in LoginCall /\ a \in Apps /\ known \in BOOLEAN
      /\ calls[p].reserved \in BOOLEAN
      /\ counts \in Counts /\ (p \in Reservations <=> calls[p].reserved)
  BY <1>1 DEF AdmissionInvariant, SlotsAreHeld, LoginCall, TableIsSound, Reservations
<1>5. /\ TableIsSound(T, A, C) /\ HasRoom(T, C) /\ C \in Counts
      /\ C.pendingSlots = counts.pendingSlots
  BY <1>3, CleanedUp
<1>6. /\ C.pendingSlots \in Nat /\ C.active \in Nat /\ Cardinality(T) \in Nat
  BY <1>5, TableCounted DEF Counts
<1>7. A[a] = {}
  <2>1. \A c \in ceremonies : {c.id} = byActive[a] => c \in gone
    BY DEF Expired
  <2> QED BY <1>3, <1>4, <2>1, CommitClearsLink
<1>8. \A x \in T : x.id # id
  BY <1>1 DEF Ids
<1>9. CASE calls[p].reserved
  <2>1. L = Released(C, known)
    BY <1>9
  <2>2. counts.pendingSlots > 0
    BY <1>4, <1>9, HeldSlotIsCounted, SMTT(60)
  <2>3. /\ L \in Counts /\ L.active = C.active /\ L.unknownActive = C.unknownActive
        /\ L.pendingSlots = C.pendingSlots - 1
    BY <1>4, <1>5, <2>1, <2>2, ReleasedCounts, SMTT(60)
  <2>4. TableIsSound(T, A, L)
    BY <1>5, <2>3, TableRecounted
  <2>5. Cardinality(T) + 1 + L.pendingSlots <= MaxCeremonies /\ L.active + 1 + L.pendingSlots <= MaxLogins
    <3> HIDE DEF T, C, L
    <3> QED BY <1>5, <1>6, <2>3, AdmissionAssumption DEF HasRoom
  <2>6. /\ ceremonies' = T \cup {NewLogin(id, a, known)} /\ byActive' = LinkedTo(A, a, id)
        /\ counts' = CountsWith(L, known)
        /\ CallIs(p, Idle)
    BY <1>2, <1>9, Zenon
  <2>7. /\ TableIsSound(ceremonies', byActive', counts') /\ HasRoom(ceremonies', counts')
        /\ counts'.pendingSlots = L.pendingSlots
    <3> HIDE DEF T, A, L
    <3> QED BY <1>4, <1>7, <1>8, <2>4, <2>5, <2>6, LoginIsCommitted, SMTT(60)
  <2>8. counts'.pendingSlots = counts.pendingSlots - 1
    BY <1>5, <2>3, <2>7, Zenon
  <2>9. SlotsAreHeld'
    BY <1>4, <1>9, <2>6, <2>8, CallReleases
  <2> QED BY <2>7, <2>9 DEF AdmissionInvariant
<1>10. CASE ~calls[p].reserved
  <2>1. L = C
    BY <1>10
  <2>2. CASE /\ ceremonies' = T /\ byActive' = A /\ counts' = L
             /\ CallIs(p, [calls[p] EXCEPT !.at = "refused"])
    <3>1. PICK r : r = [calls[p] EXCEPT !.at = "refused"]
      OBVIOUS
    <3>2. r \in LoginCall /\ r.at = "refused" /\ r.app = a /\ ~r.reserved
      BY <1>4, <1>10, <3>1 DEF LoginCall
    <3>3. CallIs(p, r)
      BY <2>2, <3>1
    <3>4. counts' = C
      BY <2>1, <2>2
    <3>5. SlotsAreHeld'
      BY <1>4, <1>5, <1>10, <3>2, <3>3, <3>4, CallMoves
    <3> QED BY <1>5, <2>2, <3>4, <3>5 DEF AdmissionInvariant
  <2>3. CASE /\ ceremonies' = T \cup {NewLogin(id, a, known)} /\ byActive' = LinkedTo(A, a, id)
             /\ counts' = CountsWith(L, known)
             /\ CallIs(p, Idle)
             /\ ~refused
    <3>1. Cardinality(T) + 1 + C.pendingSlots <= MaxCeremonies /\ C.active + 1 + C.pendingSlots <= MaxLogins
      <4>1. CASE replaced # {}
        <5>1. PICK x \in ceremonies \ Expired : {x.id} = byActive[a]
          BY <4>1
        <5>2. PICK y \in ceremonies : y.kind = "login" /\ y.app = a /\ byActive[a] = {y.id}
          BY <1>4, <5>1, SMTT(60) DEF AdmissionInvariant, TableIsSound
        <5>3. y \in gone
          BY <5>2 DEF Expired
        <5> QED BY <1>3, <1>5, <5>2, <5>3, ReplacedMakesRoom
      <4>2. CASE replaced = {}
        <5>1. ~Full(Cardinality(T), C, known)
          BY <1>10, <2>1, <2>3, <4>2
        <5> QED BY <1>6, <5>1, AdmissionAssumption DEF Full
      <4> QED BY <4>1, <4>2
    <3>2. counts' = CountsWith(C, known)
      BY <2>1, <2>3, Zenon
    <3>3. /\ TableIsSound(ceremonies', byActive', counts') /\ HasRoom(ceremonies', counts')
          /\ counts'.pendingSlots = C.pendingSlots
      <4>1. ceremonies' = T \cup {NewLogin(id, a, known)} /\ byActive' = LinkedTo(A, a, id)
        BY <2>3
      <4>2. /\ TableIsSound(T \cup {NewLogin(id, a, known)}, LinkedTo(A, a, id), CountsWith(C, known))
            /\ HasRoom(T \cup {NewLogin(id, a, known)}, CountsWith(C, known))
            /\ CountsWith(C, known).pendingSlots = C.pendingSlots
        <5>1. TableIsSound(T, A, C)
          BY <1>5, SMTT(60)
        <5> HIDE DEF T, A, C, L, gone, replaced
        <5> QED BY <1>4, <1>7, <1>8, <3>1, <5>1, LoginIsCommitted
      <4> HIDE DEF T, A, C
      <4> QED BY <3>2, <4>1, <4>2
    <3>4. SlotsAreHeld'
      BY <1>4, <1>5, <1>10, <2>3, <3>3, IdleIsCall, CallMoves
    <3> QED BY <3>3, <3>4 DEF AdmissionInvariant
  <2> QED BY <1>2, <2>2, <2>3
<1> QED BY <1>4, <1>9, <1>10, SMTT(60)

LEMMA SaveRegistrationKeeps ==
    ASSUME AdmissionInvariant, NEW id \in CeremonyIds, SaveRegistration(id)
    PROVE  AdmissionInvariant'
<1> DEFINE T == ceremonies \ Expired
           A == ActiveWithout(Expired)
           C == CountsWithout(Expired)
           n == [id |-> id, kind |-> "registration", app |-> NoApp, known |-> TRUE, expired |-> FALSE]
<1>1. /\ id \notin Ids /\ byActive' = A /\ counts' = C /\ UNCHANGED calls
      /\ \/ ceremonies' = T \cup {}
         \/ ~(Cardinality(T) + counts.pendingSlots >= MaxCeremonies) /\ ceremonies' = T \cup {n}
  BY Zenon DEF SaveRegistration
<1>2. Expired \in SUBSET ceremonies
  BY DEF Expired
<1>3. /\ TableIsSound(T, A, C) /\ HasRoom(T, C) /\ C \in Counts
      /\ C.pendingSlots = counts.pendingSlots
  BY <1>2, CleanedUp
<1>4. SlotsAreHeld'
  BY <1>1, <1>3 DEF AdmissionInvariant, SlotsAreHeld, Reservations
<1>5. CASE ceremonies' = T \cup {}
  <2>1. ceremonies' = T
    BY <1>5
  <2> QED BY <1>1, <1>3, <1>4, <2>1 DEF AdmissionInvariant
<1>6. CASE ~(Cardinality(T) + counts.pendingSlots >= MaxCeremonies) /\ ceremonies' = T \cup {n}
  <2>1. n \in Ceremony /\ n.id = id /\ n.kind = "registration"
    BY DEF Ceremony
  <2>2. \A x \in T : x.id # id
    BY <1>1 DEF Ids
  <2>3. TableIsSound(T \cup {n}, A, C) /\ Cardinality(T \cup {n}) = Cardinality(T) + 1
    <3> HIDE DEF T, A, C, n
    <3> QED BY <1>3, <2>1, <2>2, TableWithRegistration
  <2>4. Cardinality(T) \in Nat /\ C.pendingSlots \in Nat
    BY <1>3, TableCounted DEF Counts
  <2>5. HasRoom(T \cup {n}, C)
    <3> HIDE DEF T, C, n
    <3> QED BY <1>3, <1>6, <2>3, <2>4, AdmissionAssumption DEF HasRoom
  <2> QED BY <1>1, <1>4, <1>6, <2>3, <2>5 DEF AdmissionInvariant
<1> QED BY <1>1, <1>5, <1>6

LEMMA ConsumeKeeps ==
    ASSUME AdmissionInvariant, NEW p \in Calls, NEW id \in CeremonyIds, Consume(p, id)
    PROVE  AdmissionInvariant'
<1> DEFINE c == CHOOSE x \in ceremonies : x.id = id
           gone == Expired \cup {c}
<1>1. id \in Ids
  BY DEF Consume
<1>2. c \in ceremonies /\ c.id = id
  BY <1>1 DEF Ids
<1>3. gone \in SUBSET ceremonies
  BY <1>2 DEF Expired
<1>4. /\ ceremonies' = ceremonies \ gone /\ byActive' = ActiveWithout(gone)
      /\ counts' = CountsWithout(gone) /\ calls[p] = Idle
      /\ \/ c.kind = "login" /\ CallIs(p, [Idle EXCEPT !.at = "resolved", !.app = c.app])
         \/ UNCHANGED calls
  BY Zenon DEF Consume
<1>5. /\ TableIsSound(ceremonies', byActive', counts') /\ HasRoom(ceremonies', counts')
      /\ counts'.pendingSlots = counts.pendingSlots
  <2> HIDE DEF gone
  <2> QED BY <1>3, <1>4, CleanedUp
<1>6. CASE UNCHANGED calls
  <2>1. SlotsAreHeld'
    BY <1>5, <1>6 DEF AdmissionInvariant, SlotsAreHeld, Reservations
  <2> QED BY <1>5, <2>1 DEF AdmissionInvariant
<1>7. CASE c.kind = "login" /\ CallIs(p, [Idle EXCEPT !.at = "resolved", !.app = c.app])
  <2>1. c.app \in Apps
    BY <1>2, <1>7 DEF AdmissionInvariant, TableIsSound
  <2>2. PICK a \in Apps : a = c.app
    BY <2>1
  <2>3. PICK r : r = [Idle EXCEPT !.at = "resolved", !.app = a]
    OBVIOUS
  <2>4. r \in LoginCall /\ r.at = "resolved"
    BY <2>3 DEF Idle, LoginCall
  <2>5. CallIs(p, r)
    BY <1>7, <2>2, <2>3, Zenon
  <2>6. p \notin Reservations
    BY <1>4, IdleIsCall DEF Reservations
  <2>7. SlotsAreHeld'
    BY <1>5, <2>4, <2>5, <2>6, CallMoves DEF AdmissionInvariant
  <2> QED BY <1>5, <2>7 DEF AdmissionInvariant
<1> QED BY <1>4, <1>6, <1>7

LEMMA RememberAppKeeps ==
    ASSUME AdmissionInvariant, NEW p \in Calls, RememberApp(p)
    PROVE  AdmissionInvariant'
<1>1. /\ calls[p].at = "resolved" /\ CallIs(p, Idle) /\ UNCHANGED <<ceremonies, byActive, counts>>
  BY DEF RememberApp
<1>2. p \notin Reservations
  BY <1>1 DEF Reservations
<1>3. SlotsAreHeld'
  BY <1>1, <1>2, IdleIsCall, CallMoves DEF AdmissionInvariant
<1> QED BY <1>1, <1>3, CallsOnly

LEMMA CeremonyExpiresKeeps ==
    ASSUME AdmissionInvariant, NEW id \in CeremonyIds, CeremonyExpires(id)
    PROVE  AdmissionInvariant'
<1>1. PICK c \in ceremonies : c.id = id /\ ~c.expired
  BY DEF CeremonyExpires
<1>2. PICK d : d = [c EXCEPT !.expired = TRUE]
  OBVIOUS
<1>3. /\ TableIsSound(ceremonies, byActive, counts) /\ HasRoom(ceremonies, counts)
      /\ c \in Ceremony /\ \A x \in ceremonies : x.id = id => x = c
  BY <1>1 DEF AdmissionInvariant, TableIsSound
<1>4. /\ d \in Ceremony /\ d.id = c.id /\ d.kind = c.kind /\ d.app = c.app /\ d.known = c.known
      /\ d.expired
  BY <1>2, <1>3 DEF Ceremony
<1>5. /\ ceremonies' = {IF x.id = id THEN [x EXCEPT !.expired = TRUE] ELSE x : x \in ceremonies}
      /\ UNCHANGED <<byActive, counts, calls>>
  BY DEF CeremonyExpires
<1>6. ceremonies' = (ceremonies \ {c}) \cup {d}
  <2>1. \A x \in ceremonies :
          (IF x.id = id THEN [x EXCEPT !.expired = TRUE] ELSE x) = IF x = c THEN d ELSE x
    BY <1>1, <1>2, <1>3, Zenon
  <2>2. ceremonies' = {IF x = c THEN d ELSE x : x \in ceremonies}
    BY <1>5, <2>1, Zenon
  <2> QED BY <1>1, <2>2
<1>7. TableIsSound(ceremonies', byActive, counts) /\ Cardinality(ceremonies') = Cardinality(ceremonies)
  BY <1>1, <1>3, <1>4, <1>6, TableWithExpired
<1>8. HasRoom(ceremonies', counts)
  BY <1>3, <1>7 DEF HasRoom
<1>9. SlotsAreHeld'
  BY <1>5 DEF AdmissionInvariant, SlotsAreHeld, Reservations
<1> QED BY <1>5, <1>7, <1>8, <1>9 DEF AdmissionInvariant

LEMMA AdmissionUntouched ==
    ASSUME AdmissionInvariant, UNCHANGED <<ceremonies, byActive, counts, calls>>
    PROVE  AdmissionInvariant'
<1>1. SlotsAreHeld'
  BY DEF AdmissionInvariant, SlotsAreHeld, Reservations
<1> QED BY <1>1, CallsOnly

LEMMA AdmissionInitHolds == AdmissionInit => AdmissionInvariant
<1> SUFFICES ASSUME AdmissionInit PROVE AdmissionInvariant
  OBVIOUS
<1>1. /\ ceremonies = {} /\ byActive = [a \in Apps |-> {}] /\ calls = [p \in Calls |-> Idle]
      /\ counts = [active |-> 0, unknownActive |-> 0, pendingSlots |-> 0, pendingUnknown |-> 0]
  BY DEF AdmissionInit
<1>2. /\ counts \in Counts /\ counts.active = 0 /\ counts.unknownActive = 0
      /\ counts.pendingSlots = 0
  BY <1>1 DEF Counts
<1>3. LoginsOf(ceremonies) = {} /\ UnknownOf(ceremonies) = {}
  BY <1>1 DEF LoginsOf, UnknownOf
<1>4. /\ IsFiniteSet(ceremonies) /\ Cardinality(ceremonies) = 0
      /\ Cardinality(LoginsOf(ceremonies)) = 0 /\ Cardinality(UnknownOf(ceremonies)) = 0
  BY <1>1, <1>3, FS_EmptySet
<1>5. /\ ceremonies \subseteq Ceremony /\ byActive \in [Apps -> SUBSET CeremonyIds]
      /\ \A x, y \in ceremonies : x.id = y.id => x = y
      /\ \A x \in ceremonies : x.kind = "login" => x.app \in Apps /\ byActive[x.app] = {x.id}
      /\ \A a \in Apps : byActive[a] = {}
  BY <1>1
<1>6. TableIsSound(ceremonies, byActive, counts)
  BY <1>2, <1>4, <1>5 DEF TableIsSound
<1>7. HasRoom(ceremonies, counts)
  BY <1>2, <1>4, AdmissionAssumption DEF HasRoom
<1>8. calls \in [Calls -> LoginCall] /\ \A p \in Calls : calls[p] = Idle
  BY <1>1, IdleIsCall
<1>9. Reservations = {}
  BY <1>8, IdleIsCall DEF Reservations
<1>10. IsFiniteSet(Reservations) /\ Cardinality(Reservations) = 0
  BY <1>9, FS_EmptySet
<1>11. SlotsAreHeld
  BY <1>2, <1>8, <1>10, IdleIsCall DEF SlotsAreHeld
<1> QED BY <1>6, <1>7, <1>11 DEF AdmissionInvariant

LEMMA AdmissionNextKeeps ==
    AdmissionInvariant /\ [AdmissionNext]_admissionVars => AdmissionInvariant'
<1> SUFFICES ASSUME AdmissionInvariant, [AdmissionNext]_admissionVars PROVE AdmissionInvariant'
  OBVIOUS
<1>1. ASSUME NEW p \in Calls, NEW a \in Apps, LookUp(p, a) PROVE AdmissionInvariant'
  BY <1>1, LookUpKeeps
<1>2. ASSUME NEW p \in Calls, Reserve(p) PROVE AdmissionInvariant'
  BY <1>2, ReserveKeeps
<1>3. ASSUME NEW p \in Calls, Cancel(p) PROVE AdmissionInvariant'
  BY <1>3, CancelKeeps
<1>4. ASSUME NEW p \in Calls, RememberApp(p) PROVE AdmissionInvariant'
  BY <1>4, RememberAppKeeps
<1>5. ASSUME NEW p \in Calls, NEW id \in CeremonyIds, Commit(p, id) PROVE AdmissionInvariant'
  BY <1>5, CommitKeeps
<1>6. ASSUME NEW p \in Calls, NEW id \in CeremonyIds, Consume(p, id) PROVE AdmissionInvariant'
  BY <1>6, ConsumeKeeps
<1>7. ASSUME NEW id \in CeremonyIds, SaveRegistration(id) PROVE AdmissionInvariant'
  BY <1>7, SaveRegistrationKeeps
<1>8. ASSUME NEW id \in CeremonyIds, CeremonyExpires(id) PROVE AdmissionInvariant'
  BY <1>8, CeremonyExpiresKeeps
<1>9. ASSUME NEW a \in Apps, RefillApp(a) PROVE AdmissionInvariant'
  BY <1>9, AdmissionUntouched DEF RefillApp
<1>10. ASSUME NEW b \in {"known", "unknown"}, RefillGlobal(b) PROVE AdmissionInvariant'
  BY <1>10, AdmissionUntouched DEF RefillGlobal
<1>11. CASE UNCHANGED admissionVars
  BY <1>11, AdmissionUntouched DEF admissionVars
<1> QED BY <1>1, <1>2, <1>3, <1>4, <1>5, <1>6, <1>7, <1>8, <1>9, <1>10, <1>11, Zenon DEF AdmissionNext

(* For any number of apps and concurrent calls: logins and the slots reserved *)
(* for them never exceed their share of the ceremony table, and the counters  *)
(* on which reserveLogin and commitLogin decide are exact.                    *)
THEOREM RegistrationsAlwaysKeepTheirReserve == AdmissionSpec => []RegistrationsKeepTheirReserve
<1>1. AdmissionInvariant => RegistrationsKeepTheirReserve
  <2> SUFFICES ASSUME AdmissionInvariant PROVE RegistrationsKeepTheirReserve
    OBVIOUS
  <2>1. /\ TableIsSound(ceremonies, byActive, counts) /\ HasRoom(ceremonies, counts)
        /\ counts.pendingSlots = Cardinality(Reservations)
    BY DEF AdmissionInvariant, SlotsAreHeld
  <2>2. Logins = LoginsOf(ceremonies) /\ {c \in Logins : ~c.known} = UnknownOf(ceremonies)
    BY DEF Logins, LoginsOf, UnknownOf
  <2>3. /\ counts.active = Cardinality(Logins)
        /\ counts.unknownActive = Cardinality({c \in Logins : ~c.known})
    BY <2>1, <2>2 DEF TableIsSound
  <2>4. /\ Cardinality(ceremonies) + Cardinality(Reservations) <= MaxCeremonies
        /\ Cardinality(Logins) + Cardinality(Reservations) <= MaxLogins
    BY <2>1, <2>3 DEF HasRoom
  <2>5. ASSUME NEW a \in Apps PROVE Cardinality({c \in Logins : c.app = a}) <= 1
    <3>1. \A x, y \in {c \in Logins : c.app = a} : x = y
      <4>1. ASSUME NEW x \in Logins, NEW y \in Logins, x.app = a, y.app = a PROVE x = y
        <5>1. x \in ceremonies /\ y \in ceremonies /\ {x.id} = {y.id}
          BY <2>1, <4>1 DEF Logins, TableIsSound
        <5>2. x.id = y.id
          BY <5>1
        <5> QED BY <2>1, <5>1, <5>2 DEF TableIsSound
      <4> QED BY <4>1
    <3>2. CASE {c \in Logins : c.app = a} = {}
      <4>1. Cardinality({c \in Logins : c.app = a}) = 0
        BY <3>2, FS_EmptySet
      <4> QED BY <4>1
    <3>3. CASE {c \in Logins : c.app = a} # {}
      <4>1. PICK x : {c \in Logins : c.app = a} = {x}
        BY <3>1, <3>3
      <4>2. Cardinality({c \in Logins : c.app = a}) = 1
        BY <4>1, FS_Singleton
      <4> QED BY <4>2
    <3> QED BY <3>2, <3>3
  <2> QED BY <2>1, <2>3, <2>4, <2>5 DEF RegistrationsKeepTheirReserve
<1> QED BY <1>1, AdmissionInitHolds, AdmissionNextKeeps, PTL DEF AdmissionSpec
=============================================================================
