--------------------------- MODULE CertManagerProofs ---------------------------
(* Theorems about CertManager, for any registries, lifetimes and bounds.   *)
EXTENDS CertManager, TLAPS

\* What renewCertSecret stores differs from what was stored only if the Secret
\* read is the one stored, is not a user's, and has to be renewed.
LEMMA RenewLemma ==
  ASSUME NEW stored, NEW read, NEW cond, NEW cert, NEW new, NEW o \in Outcome,
         renewCertSecret(stored, read, cond, cert, new, o), new # stored
  PROVE  /\ new = Managed(cert)
         /\ ~Refuses(stored)
         /\ Renewable(stored.cert) \/ cond
         /\ stored = read
  BY DEF renewCertSecret, Respond, BasedOn, Applied, Outcome

\* renewCertSecret either leaves the stored Secret or writes a managed one.
LEMMA RenewCases ==
  ASSUME NEW stored, NEW read, NEW cond, NEW cert, NEW new, NEW o \in Outcome,
         renewCertSecret(stored, read, cond, cert, new, o)
  PROVE  new \in {stored, Managed(cert)}
  BY DEF renewCertSecret

-----------------------------------------------------------------------------
(* Types.                                                                  *)

LEMMA RenewAgeNat ==
  ASSUME NEW ttl \in Nat
  PROVE  RenewAge(ttl) \in 0..ttl
  BY DEF RenewAge

LEMMA NoCertType == NoCert \in KeyPair
  BY TTLAssumption DEF NoCert, KeyPair

LEMMA SerialType ==
  ASSUME NEW s \in Secret
  PROVE  NewSerial(s) \in {0, 1}
  BY DEF NewSerial, Secret, KeyPair

LEMMA NewCAType ==
  ASSUME NEW n \in {0, 1}
  PROVE  NewSelfSignedCAKeyPair(n) \in KeyPair
  BY TTLAssumption DEF NewSelfSignedCAKeyPair, KeyPair

LEMMA ManagedType ==
  ASSUME NEW cert \in KeyPair
  PROVE  Managed(cert) \in Secret /\ Unmanaged(cert) \in Secret
  BY DEF Managed, Unmanaged, Secret

LEMMA NewServerType ==
  ASSUME NEW z \in Zone, NEW ca \in Secret, NEW n \in {0, 1}
  PROVE  NewServerKeyPair(z, ca, n) \in KeyPair
  BY TTLAssumption DEF NewServerKeyPair, KeyPair, Secret

\* Server certificates do not live longer than CAs.
LEMMA TTLType ==
  ASSUME NEW cert
  PROVE  TTL(cert) \in Nat /\ TTL(cert) <= CATTL
<1>1. CertTTL <= CATTL
  BY TTLAssumption, RenewAgeNat
<1> QED  BY <1>1, TTLAssumption DEF TTL

LEMMA OlderType ==
  ASSUME NEW cert \in KeyPair
  PROVE  Older(cert) \in KeyPair
<1>1. CASE cert = NoCert
  BY <1>1 DEF Older
<1>2. CASE cert # NoCert
  <2>1. cert.age \in 0..(CATTL + 1) /\ cert.issuerAge \in 0..(CATTL + 1)
    BY DEF KeyPair
  <2>2. (IF cert.age > TTL(cert) THEN cert.age ELSE cert.age + 1) \in 0..(CATTL + 1)
    BY <2>1, TTLType, TTLAssumption
  <2>3. (IF cert.issuerAge > CATTL THEN cert.issuerAge ELSE cert.issuerAge + 1)
          \in 0..(CATTL + 1)
    BY <2>1, TTLAssumption
  <2> QED  BY <1>2, <2>2, <2>3 DEF Older, KeyPair
<1> QED  BY <1>1, <1>2

LEMMA OlderSecretType ==
  ASSUME NEW s \in Secret
  PROVE  OlderSecret(s) \in Secret
  BY OlderType DEF OlderSecret, Secret

\* The timer is set to a time in the future.
LEMMA RequeueType ==
  ASSUME rootTimer \in 0..Never, NEW cert, Requeue(cert)
  PROVE  rootTimer' \in 0..Never
  BY TTLAssumption DEF Requeue, Never

LEMMA RespondType ==
  ASSUME faults \in 0..MaxFaults, NEW o, NEW valid, Respond(o, valid)
  PROVE  faults' \in 0..MaxFaults
  BY TTLAssumption DEF Respond

LEMMA RenewFaults ==
  ASSUME faults \in 0..MaxFaults, NEW stored, NEW read, NEW cond, NEW cert, NEW new,
         NEW o, renewCertSecret(stored, read, cond, cert, new, o)
  PROVE  faults' \in 0..MaxFaults
  BY RespondType DEF renewCertSecret

LEMMA InitType == Init => CertTypeOK
<1> SUFFICES ASSUME Init PROVE CertTypeOK
  OBVIOUS
<1>1. Absent \in Secret
  BY NoCertType DEF Absent, Secret
<1>2. /\ root \in Secret /\ rootCache \in Secret
      /\ tls \in [Registry -> Secret] /\ tlsCache \in [Registry -> Secret]
  BY <1>1 DEF Init
<1>3. /\ rootTimer \in 0..Never /\ sync \in 0..SyncPeriod
      /\ faults \in 0..MaxFaults /\ edits \in 0..MaxEdits
  BY TTLAssumption DEF Init, Never
<1> QED  BY <1>2, <1>3 DEF Init, CertTypeOK

LEMMA StartType == CertTypeOK /\ Start => CertTypeOK'
<1> SUFFICES ASSUME CertTypeOK, Start PROVE CertTypeOK'
  OBVIOUS
<1> USE DEF CertTypeOK
<1>1. root' \in Secret /\ running' \in BOOLEAN /\ faults' \in 0..MaxFaults
  <2>1. CASE Refuses(root) /\ ~Renewable(root.cert) /\ running' = TRUE /\ UNCHANGED <<root, faults>>
    BY <2>1
  <2>2. ASSUME NEW o \in Outcome,
               renewCertSecret(root, root, condCACert(root.cert),
                               NewSelfSignedCAKeyPair(NewSerial(root)), root', o),
               running' = (o = "ok")
        PROVE  root' \in Secret /\ running' \in BOOLEAN /\ faults' \in 0..MaxFaults
    BY <2>2, RenewCases, RenewFaults, ManagedType, NewCAType, SerialType
  <2> QED  BY <2>1, <2>2 DEF Start
<1>2. queue' \subseteq Request /\ sync' = 0 /\ rootCache' = root' /\ tlsCache' = tls
      /\ UNCHANGED <<tls, backoff, rootTimer, zone, edits>> /\ ~running
  BY DEF Start
<1> QED  BY <1>1, <1>2, TTLAssumption

LEMMA HandleType == ASSUME NEW q \in Request PROVE CertTypeOK /\ Handle(q) => CertTypeOK'
<1> SUFFICES ASSUME CertTypeOK, Handle(q) PROVE CertTypeOK'
  OBVIOUS
<1> USE DEF CertTypeOK, Handled, Failed
<1>1. CASE ReconcileUserCA
  BY <1>1, RequeueType DEF ReconcileUserCA, Request, secretVars, cacheVars
<1>2. CASE ReconcileRootCA
  <2> DEFINE new == NewSelfSignedCAKeyPair(NewSerial(root))
             due == Renewable(rootCache.cert) \/ condCACert(rootCache.cert)
  <2> PICK o \in Outcome :
        /\ renewCertSecret(root, rootCache, condCACert(rootCache.cert), new, root', o)
        /\ IF o = "ok" THEN Handled("root") /\ Requeue(IF due THEN new ELSE rootCache.cert)
                       ELSE Failed("root") /\ UNCHANGED rootTimer
    BY <1>2 DEF ReconcileRootCA
  <2>1. root' \in Secret /\ faults' \in 0..MaxFaults
    BY RenewCases, RenewFaults, ManagedType, NewCAType, SerialType
  <2>2. queue' \subseteq Request /\ backoff' \subseteq Request
    BY DEF Request
  <2>3. rootTimer' \in 0..Never
    BY RequeueType
  <2> QED  BY <1>2, <2>1, <2>2, <2>3 DEF ReconcileRootCA, cacheVars
<1>3. CASE q \in Registry /\ ReconcileNoCA(q)
  BY <1>3 DEF ReconcileNoCA, Request, secretVars, cacheVars
<1>4. CASE q \in Registry /\ ReconcileRefused(q)
  BY <1>4 DEF ReconcileRefused, Request, secretVars, cacheVars
<1>5. CASE q \in Registry /\ ReconcileTLSCert(q)
  <2> DEFINE cert == NewServerKeyPair(zone, rootCache, NewSerial(tls[q]))
  <2> PICK o \in Outcome, new \in {tls[q], Managed(cert)} :
        /\ renewCertSecret(tls[q], tlsCache[q], condServerCert(tlsCache[q].cert, zone),
                           cert, new, o)
        /\ tls' = [tls EXCEPT ![q] = new]
        /\ IF o = "ok" THEN Handled(q) ELSE Failed(q)
    BY <1>5 DEF ReconcileTLSCert
  <2>1. new \in Secret
    BY <1>5, ManagedType, NewServerType, SerialType
  <2>2. tls' \in [Registry -> Secret]
    BY <2>1
  <2>3. faults' \in 0..MaxFaults
    BY RenewFaults
  <2>4. queue' \subseteq Request /\ backoff' \subseteq Request
    OBVIOUS
  <2> QED  BY <1>5, <2>2, <2>3, <2>4 DEF ReconcileTLSCert, cacheVars
<1> QED  BY <1>1, <1>2, <1>3, <1>4, <1>5 DEF Handle

LEMMA UserType == CertTypeOK /\ UserWrites => CertTypeOK'
<1> SUFFICES ASSUME CertTypeOK, UserWrites PROVE CertTypeOK'
  OBVIOUS
<1> USE DEF CertTypeOK
<1>1. UserSecret \subseteq Secret
  <2>1. [NewSelfSignedCAKeyPair(0) EXCEPT !.own = FALSE] \in KeyPair
    BY NewCAType DEF KeyPair
  <2>2. Absent \in Secret
    BY NoCertType DEF Absent, Secret
  <2> QED  BY <2>1, <2>2, NoCertType, ManagedType DEF UserSecret
<1>2. root' \in Secret /\ tls' \in [Registry -> Secret]
  BY <1>1 DEF UserWrites
<1>3. edits' \in 0..MaxEdits
  BY TTLAssumption DEF UserWrites
<1> QED  BY <1>2, <1>3 DEF UserWrites, cacheVars, workVars

LEMMA TickType == CertTypeOK /\ Tick => CertTypeOK'
<1> SUFFICES ASSUME CertTypeOK, Tick PROVE CertTypeOK'
  OBVIOUS
<1> USE DEF CertTypeOK
<1>1. root' \in Secret /\ rootCache' \in Secret
  BY OlderSecretType DEF Tick
<1>2. tls' \in [Registry -> Secret] /\ tlsCache' \in [Registry -> Secret]
  BY OlderSecretType DEF Tick
<1>3. rootTimer' \in 0..Never
  <2>1. CASE running
    BY <2>1, TTLAssumption DEF Tick, Never
  <2>2. CASE ~running
    BY <2>2, TTLAssumption DEF Tick, Never
  <2> QED  BY <2>1, <2>2
<1>4. sync' \in 0..SyncPeriod
  BY TTLAssumption DEF Tick
<1> QED  BY <1>1, <1>2, <1>3, <1>4 DEF Tick

LEMMA NextType == CertTypeOK /\ [Next]_vars => CertTypeOK'
<1> SUFFICES ASSUME CertTypeOK, [Next]_vars PROVE CertTypeOK'
  OBVIOUS
<1>1. CASE Start
  BY <1>1, StartType
<1>2. CASE WatchRoot
  BY <1>2 DEF WatchRoot, CertTypeOK, Request, secretVars
<1>3. CASE RequeueAfter
  BY <1>3, TTLAssumption DEF RequeueAfter, CertTypeOK, Request, Never, secretVars, cacheVars
<1>4. CASE Resync
  <2>1. queue' \subseteq Request
    BY <1>4 DEF Resync, CertTypeOK, Request
  <2>2. sync' \in 0..SyncPeriod
    BY <1>4, TTLAssumption DEF Resync
  <2> QED  BY <1>4, <2>1, <2>2 DEF Resync, CertTypeOK, secretVars, cacheVars
<1>5. ASSUME NEW q \in Request, Handle(q) PROVE CertTypeOK'
  BY <1>5, HandleType
<1>6. ASSUME NEW q \in Request, Retry(q) PROVE CertTypeOK'
  BY <1>6 DEF Retry, CertTypeOK, secretVars, cacheVars
<1>7. ASSUME NEW r \in Registry, WatchTLS(r) PROVE CertTypeOK'
  BY <1>7 DEF WatchTLS, TLSRequests, CertTypeOK, Request, secretVars
<1>8. CASE Crash
  <2>1. sync' \in 0..SyncPeriod /\ rootTimer' \in 0..Never /\ faults' \in 0..MaxFaults
    BY <1>8, TTLAssumption DEF Crash, CertTypeOK, Never
  <2> QED  BY <1>8, <2>1 DEF Crash, CertTypeOK, secretVars, cacheVars
<1>9. CASE UserWrites
  BY <1>9, UserType
<1>10. CASE Tick
  BY <1>10, TickType
<1>11. CASE UNCHANGED vars
  BY <1>11 DEF vars, CertTypeOK
<1> QED
  BY <1>1, <1>2, <1>3, <1>4, <1>5, <1>6, <1>7, <1>8, <1>9, <1>10, <1>11 DEF Next, Operator

\* The types of CertManager: requests are for the root CA or a registry, ages
\* stay in their bounds and the timer of the CA root controller is never set to
\* a time that has passed.
THEOREM CertTypeCorrect == Spec => []CertTypeOK
<1>1. Init => CertTypeOK
  BY InitType
<1>2. CertTypeOK /\ [Next]_vars => CertTypeOK'
  BY NextType
<1> QED  BY <1>1, <1>2, PTL DEF Spec

-----------------------------------------------------------------------------
(* What a step may do to a Secret.                                         *)

\* A step that is not a user's leaves a Secret alone, ages it, or replaces one
\* that is the operator's and has to be renewed.
Replaces(s, cond, new) ==
  /\ ~Refuses(s) /\ (Renewable(s.cert) \/ cond)
  /\ \E cert \in KeyPair : new = Managed(cert)

LEMMA RootStep ==
  ASSUME CertTypeOK, [Next]_vars, edits' = edits
  PROVE  \/ root' \in {root, OlderSecret(root)}
         \/ Replaces(root, condCACert(root.cert), root')
<1> DEFINE Goal == \/ root' \in {root, OlderSecret(root)}
                   \/ Replaces(root, condCACert(root.cert), root')
<1>1. ASSUME NEW o \in Outcome, NEW read,
             renewCertSecret(root, read, condCACert(read.cert),
                             NewSelfSignedCAKeyPair(NewSerial(root)), root', o)
      PROVE  Goal
  <2> SUFFICES ASSUME root' # root PROVE Replaces(root, condCACert(root.cert), root')
    OBVIOUS
  <2>1. /\ root' = Managed(NewSelfSignedCAKeyPair(NewSerial(root)))
        /\ ~Refuses(root) /\ root = read
        /\ Renewable(root.cert) \/ condCACert(read.cert)
    BY <1>1, RenewLemma
  <2>2. NewSelfSignedCAKeyPair(NewSerial(root)) \in KeyPair
    BY NewCAType, SerialType DEF CertTypeOK
  <2> QED  BY <2>1, <2>2 DEF Replaces
<1>2. CASE Start
  BY <1>1, <1>2 DEF Start
<1>3. CASE ReconcileRootCA
  BY <1>1, <1>3 DEF ReconcileRootCA
<1>4. CASE ReconcileUserCA
  BY <1>4 DEF ReconcileUserCA, secretVars
<1>5. ASSUME NEW r \in Registry, ReconcileNoCA(r) \/ ReconcileRefused(r) PROVE Goal
  BY <1>5 DEF ReconcileNoCA, ReconcileRefused, secretVars
<1>6. ASSUME NEW r \in Registry, ReconcileTLSCert(r) PROVE Goal
  BY <1>6 DEF ReconcileTLSCert
<1>7. CASE WatchRoot \/ RequeueAfter \/ Resync \/ Crash \/ UNCHANGED vars
  BY <1>7 DEF WatchRoot, RequeueAfter, Resync, Crash, vars, secretVars
<1>8. ASSUME NEW q \in Request, Retry(q) PROVE Goal
  BY <1>8 DEF Retry, secretVars
<1>9. ASSUME NEW r \in Registry, WatchTLS(r) PROVE Goal
  BY <1>9 DEF WatchTLS, secretVars
<1>10. CASE Tick
  BY <1>10 DEF Tick
<1>11. CASE UserWrites
  BY <1>11, TTLAssumption DEF UserWrites, CertTypeOK
<1> QED
  BY <1>2, <1>3, <1>4, <1>5, <1>6, <1>7, <1>8, <1>9, <1>10, <1>11
     DEF Next, Operator, Handle

LEMMA TLSStep ==
  ASSUME CertTypeOK, [Next]_vars, edits' = edits, NEW r \in Registry
  PROVE  \/ tls'[r] \in {tls[r], OlderSecret(tls[r])}
         \/ Replaces(tls[r], condServerCert(tls[r].cert, zone), tls'[r])
<1> DEFINE Goal == \/ tls'[r] \in {tls[r], OlderSecret(tls[r])}
                   \/ Replaces(tls[r], condServerCert(tls[r].cert, zone), tls'[r])
<1>1. CASE Start
  BY <1>1 DEF Start
<1>2. CASE ReconcileRootCA \/ ReconcileUserCA
  BY <1>2 DEF ReconcileRootCA, ReconcileUserCA, secretVars
<1>3. ASSUME NEW p \in Registry, ReconcileNoCA(p) \/ ReconcileRefused(p) PROVE Goal
  BY <1>3 DEF ReconcileNoCA, ReconcileRefused, secretVars
<1>4. ASSUME NEW p \in Registry, ReconcileTLSCert(p) PROVE Goal
  <2> DEFINE cert == NewServerKeyPair(zone, rootCache, NewSerial(tls[p]))
  <2> PICK o \in Outcome, new \in {tls[p], Managed(cert)} :
        /\ renewCertSecret(tls[p], tlsCache[p], condServerCert(tlsCache[p].cert, zone),
                           cert, new, o)
        /\ tls' = [tls EXCEPT ![p] = new]
    BY <1>4 DEF ReconcileTLSCert
  <2>1. CASE p # r \/ new = tls[p]
    BY <2>1 DEF CertTypeOK
  <2>2. CASE p = r /\ new # tls[p]
    <3>1. /\ new = Managed(cert) /\ ~Refuses(tls[r]) /\ tls[r] = tlsCache[r]
          /\ Renewable(tls[r].cert) \/ condServerCert(tlsCache[r].cert, zone)
      BY <2>2, RenewLemma
    <3>2. cert \in KeyPair
      BY NewServerType, SerialType DEF CertTypeOK
    <3>3. tls'[r] = new
      BY <2>2 DEF CertTypeOK
    <3> QED  BY <3>1, <3>2, <3>3 DEF Replaces
  <2> QED  BY <2>1, <2>2
<1>5. CASE WatchRoot \/ RequeueAfter \/ Resync \/ Crash \/ UNCHANGED vars
  BY <1>5 DEF WatchRoot, RequeueAfter, Resync, Crash, vars, secretVars
<1>6. ASSUME NEW q \in Request, Retry(q) PROVE Goal
  BY <1>6 DEF Retry, secretVars
<1>7. ASSUME NEW p \in Registry, WatchTLS(p) PROVE Goal
  BY <1>7 DEF WatchTLS, secretVars
<1>8. CASE Tick
  BY <1>8 DEF Tick
<1>9. CASE UserWrites
  BY <1>9, TTLAssumption DEF UserWrites, CertTypeOK
<1> QED
  BY <1>1, <1>2, <1>3, <1>4, <1>5, <1>6, <1>7, <1>8, <1>9 DEF Next, Operator, Handle

\* The operator never writes to a Secret that users put in the place of one of
\* its own, however far its caches lag behind and whenever it is restarted.
THEOREM UsersSecretsSafe == Spec => UnmanagedKept
<1>1. CertTypeOK /\ [Next]_vars =>
        [edits' = edits =>
           Kept(root, root') /\ \A r \in Registry : Kept(tls[r], tls'[r])]_vars
  BY RootStep, TLSStep DEF Kept, Replaces, Refuses
<1> QED  BY <1>1, CertTypeCorrect, PTL DEF Spec, UnmanagedKept

-----------------------------------------------------------------------------

\* A certificate keeps its key when it gets older.
LEMMA OlderSerial ==
  ASSUME NEW s \in Secret
  PROVE  OlderSecret(s).cert.serial = s.cert.serial
<1>1. OlderSecret(s).cert = Older(s.cert)
  BY DEF OlderSecret, Secret
<1>2. CASE s.cert = NoCert
  BY <1>1, <1>2 DEF Older
<1>3. CASE s.cert # NoCert
  <2>1. s.cert \in KeyPair
    BY DEF Secret
  <2>2. Older(s.cert).serial = s.cert.serial
    BY <1>3, <2>1 DEF Older, KeyPair
  <2> QED  BY <1>1, <2>2
<1> QED  BY <1>2, <1>3

\* A usable certificate is not replaced by another before its time has come, also
\* when the caches do not show that it is there: an update fails unless it is the
\* stored Secret that has been read and found to be due.
THEOREM RenewalsDue == Spec => RenewedOnlyWhenDue
<1> DEFINE A == edits' = edits =>
       /\ root.cert.for = "ca" /\ root'.cert.serial # root.cert.serial =>
            root.cert.age > RenewAge(CATTL)
       /\ \A r \in Registry :
            tls[r].cert.for = zone /\ tls'[r].cert.serial # tls[r].cert.serial =>
              tls[r].cert.age > RenewAge(CertTTL)
<1>1. CertTypeOK /\ [Next]_vars => A
  <2> SUFFICES ASSUME CertTypeOK, [Next]_vars, edits' = edits PROVE A
    OBVIOUS
  <2>1. ASSUME root.cert.for = "ca", root'.cert.serial # root.cert.serial
        PROVE  root.cert.age > RenewAge(CATTL)
    <3>1. root \in Secret
      BY DEF CertTypeOK
    <3>2. Replaces(root, condCACert(root.cert), root')
      BY <2>1, <3>1, RootStep, OlderSerial
    <3>3. Renewable(root.cert)
      BY <2>1, <3>2 DEF Replaces, condCACert
    <3>4. root.cert # NoCert
      BY <2>1 DEF NoCert
    <3> QED  BY <2>1, <3>3, <3>4 DEF Renewable, NeedsRenewal, TTL
  <2>2. ASSUME NEW r \in Registry, tls[r].cert.for = zone,
               tls'[r].cert.serial # tls[r].cert.serial
        PROVE  tls[r].cert.age > RenewAge(CertTTL)
    <3>1. tls[r] \in Secret /\ zone \in Zone
      BY DEF CertTypeOK
    <3>2. Replaces(tls[r], condServerCert(tls[r].cert, zone), tls'[r])
      BY <2>2, <3>1, TLSStep, OlderSerial
    <3>3. Renewable(tls[r].cert)
      BY <2>2, <3>2 DEF Replaces, condServerCert
    <3>4. tls[r].cert # NoCert
      BY <2>2, <3>1, NameAssumption DEF NoCert
    <3>5. tls[r].cert.for # "ca"
      BY <2>2, <3>1, NameAssumption
    <3> QED  BY <3>3, <3>4, <3>5 DEF Renewable, NeedsRenewal, TTL
  <2> QED  BY <2>1, <2>2
<1>2. CertTypeOK /\ [Next]_vars => [A]_vars
  BY <1>1
<1> QED  BY <1>2, CertTypeCorrect, PTL DEF Spec, RenewedOnlyWhenDue

-----------------------------------------------------------------------------
(* Renewals in time.                                                       *)
(*                                                                         *)
(* Time passes for a running operator only when its queue is empty and its *)
(* caches are current.  So a root CA of the operator's that is due either  *)
(* has been renewed or has gone to the backoff queue since the last unit   *)
(* of time, which takes a fault if the cache is current.                   *)

\* A root CA is a CA certificate or no certificate at all.
CACert(s) == s.cert = NoCert \/ s.cert.for = "ca"

OnTime(s) == s.managed /\ s.cert # NoCert => s.cert.age <= RenewAge(CATTL) + 1 + faults

\* The root CA and its cached version are on time; a request will come, by an
\* event, a retry or the timer, that is not late.
RootOnTime ==
  /\ CACert(root) /\ CACert(rootCache)
  /\ OnTime(root)
  /\ running => OnTime(rootCache)
  /\ running /\ root.managed /\ root.cert # NoCert =>
       \/ "root" \in queue
       \/ rootCache # root
       \/ "root" \in backoff /\ root.cert.age <= RenewAge(CATTL) + faults
       \/ root.cert.age + rootTimer <= RenewAge(CATTL) + 1

\* A certificate's issuer is older than the certificate by what is left of the
\* CA's lifetime at most; one that is due and not being worked on has not missed
\* a resync.
TLSOnTime(r) ==
  /\ tls[r].cert.own =>
       /\ tls[r].cert.for \in Zone
       /\ tls[r].cert.age <= CertTTL =>
            tls[r].cert.issuerAge <= tls[r].cert.age + RenewAge(CATTL) + 1 + MaxFaults
  /\ running /\ tlsCache[r] # tls[r] => tls[r].cert.age = 0
  /\ running /\ tls[r].managed =>
       \/ r \in queue \cup backoff
       \/ tlsCache[r] # tls[r]
       \/ tls[r].cert.age <= RenewAge(CertTTL) + sync

CertsOnTime == RootOnTime /\ \A r \in Registry : TLSOnTime(r)

\* What time does to a Secret.
LEMMA OlderFacts ==
  ASSUME NEW s \in Secret
  PROVE  /\ OlderSecret(s).managed = s.managed
         /\ OlderSecret(s).cert.for = s.cert.for /\ OlderSecret(s).cert.own = s.cert.own
         /\ s.cert = NoCert => OlderSecret(s).cert = NoCert
         /\ OlderSecret(s).cert.age <= s.cert.age + 1
         /\ OlderSecret(s).cert.issuerAge <= s.cert.issuerAge + 1
         /\ s.cert.age <= TTL(s.cert) /\ s.cert # NoCert =>
              OlderSecret(s).cert.age = s.cert.age + 1
         /\ s.cert.age > TTL(s.cert) => OlderSecret(s).cert.age = s.cert.age
<1>1. s.cert \in KeyPair /\ s.cert.age \in Nat /\ s.cert.issuerAge \in Nat
  BY TTLAssumption DEF Secret, KeyPair
<1>2. OlderSecret(s).managed = s.managed /\ OlderSecret(s).cert = Older(s.cert)
  BY DEF OlderSecret, Secret
<1>3. CASE s.cert = NoCert
  <2>1. Older(s.cert) = s.cert
    BY <1>3 DEF Older
  <2>2. ~(s.cert.age > TTL(s.cert))
    BY <1>3, TTLType DEF NoCert
  <2> QED BY <1>1, <1>2, <1>3, <2>1, <2>2
<1>4. CASE s.cert # NoCert
  <2> DEFINE c == s.cert
  <2>1. /\ Older(c).for = c.for /\ Older(c).own = c.own
        /\ Older(c).age = IF c.age > TTL(c) THEN c.age ELSE c.age + 1
        /\ Older(c).issuerAge = IF c.issuerAge > CATTL THEN c.issuerAge ELSE c.issuerAge + 1
    BY <1>1, <1>4 DEF Older, KeyPair
  <2>2. TTL(c) \in Nat
    BY TTLType
  <2> HIDE DEF c
  <2> QED BY <1>1, <1>2, <1>4, <2>1, <2>2 DEF c
<1> QED BY <1>3, <1>4

\* Calls only add faults.
LEMMA FaultsGrow ==
  ASSUME faults \in 0..MaxFaults, NEW o, NEW valid, Respond(o, valid)
  PROVE  /\ faults' \in Nat /\ faults <= faults'
         /\ o = "lost" => faults' = faults + 1
         /\ o = "refused" => ~valid
  BY TTLAssumption DEF Respond

LEMMA RenewFaultsGrow ==
  ASSUME faults \in 0..MaxFaults, NEW stored, NEW read, NEW cond, NEW cert, NEW new,
         NEW o, renewCertSecret(stored, read, cond, cert, new, o)
  PROVE  faults' \in Nat /\ faults <= faults'
  BY FaultsGrow, TTLAssumption DEF renewCertSecret

\* Numbers that the lemmas below compare.
LEMMA TimeTypes ==
  ASSUME CertTypeOK
  PROVE  /\ root \in Secret /\ rootCache \in Secret
         /\ root.cert.age \in Nat /\ rootCache.cert.age \in Nat
         /\ rootTimer \in Nat /\ faults \in Nat /\ faults <= MaxFaults /\ MaxFaults \in Nat
         /\ sync \in Nat /\ sync <= SyncPeriod /\ SyncPeriod \in Nat
         /\ RenewAge(CATTL) \in Nat /\ RenewAge(CertTTL) \in Nat /\ CertTTL \in Nat /\ CATTL \in Nat
         /\ \A r \in Registry : /\ tls[r] \in Secret /\ tls[r].cert.age \in Nat
                                /\ tls[r].cert.issuerAge \in Nat
<1>1. \A s \in Secret : s.cert.age \in Nat /\ s.cert.issuerAge \in Nat
  BY TTLAssumption DEF Secret, KeyPair
<1>2. RenewAge(CATTL) \in Nat /\ RenewAge(CertTTL) \in Nat
  BY RenewAgeNat, TTLAssumption
<1>3. rootTimer \in Nat /\ faults \in Nat /\ faults <= MaxFaults /\ sync \in Nat /\ sync <= SyncPeriod
  BY TTLAssumption DEF CertTypeOK, Never
<1> QED BY <1>1, <1>2, <1>3, TTLAssumption DEF CertTypeOK

\* The root CA stays on time.
LEMMA RootKept ==
  ASSUME CertTypeOK, RootOnTime, [Next]_vars
  PROVE  RootOnTime'
<1> DEFINE RA == RenewAge(CATTL)
<1>t. /\ root \in Secret /\ rootCache \in Secret
      /\ root.cert.age \in Nat /\ rootCache.cert.age \in Nat
      /\ rootTimer \in Nat /\ faults \in 0..MaxFaults /\ faults \in Nat /\ RA \in Nat
  BY TimeTypes DEF CertTypeOK
<1> DEFINE ca == NewSelfSignedCAKeyPair(NewSerial(root))
<1>new. LET c == Managed(ca) IN
        c.managed /\ c.cert = ca /\ c.cert.for = "ca" /\ c.cert # NoCert /\ c.cert.age = 0
  BY DEF Managed, NewSelfSignedCAKeyPair, NoCert
<1> HIDE DEF ca
<1>same. ASSUME root' = root, rootCache' = rootCache, running' => running,
                running' => rootTimer' = rootTimer, faults' \in Nat, faults <= faults',
                running' /\ "root" \in queue => "root" \in queue',
                running' /\ "root" \in backoff => "root" \in queue' \cup backoff'
         PROVE  RootOnTime'
  <2> HIDE DEF RA
  <2>1. /\ \A a \in Nat : a <= RA + 1 + faults => a <= RA + 1 + faults'
        /\ \A a \in Nat : a <= RA + faults => a <= RA + faults'
    <3> DEFINE f == faults
               g == faults'
    <3>1. RA \in Nat /\ f \in Nat /\ g \in Nat /\ f <= g
      BY <1>t, <1>same
    <3> HIDE DEF f, g
    <3>2. /\ \A a \in Nat : a <= RA + 1 + f => a <= RA + 1 + g
          /\ \A a \in Nat : a <= RA + f => a <= RA + g
      BY <3>1
    <3> QED BY <3>2 DEF f, g
  <2>2. OnTime(root)' /\ (running' => OnTime(rootCache)')
    BY <1>t, <1>same, <2>1 DEF RootOnTime, OnTime, RA
  <2>3. CACert(root)' /\ CACert(rootCache)'
    BY <1>same DEF RootOnTime, CACert
  <2>4. ASSUME running', root'.managed, root'.cert # NoCert
        PROVE  \/ "root" \in queue'
               \/ rootCache' # root'
               \/ "root" \in backoff' /\ root'.cert.age <= RA + faults'
               \/ root'.cert.age + rootTimer' <= RA + 1
    <3>1. \/ "root" \in queue
          \/ rootCache # root
          \/ "root" \in backoff /\ root.cert.age <= RA + faults
          \/ root.cert.age + rootTimer <= RA + 1
      BY <1>same, <2>4 DEF RootOnTime, RA
    <3> QED BY <1>t, <1>same, <2>1, <2>4, <3>1
  <2> QED BY <2>2, <2>3, <2>4 DEF RootOnTime, RA
<1>1. CASE Start
  <2>1. rootCache' = root' /\ (running' => "root" \in queue')
    BY <1>1 DEF Start, Request
  <2>2. CASE /\ Refuses(root) /\ UNCHANGED root
    BY <2>1, <2>2 DEF RootOnTime, CACert, OnTime, Refuses
  <2>3. ASSUME NEW o \in Outcome,
               renewCertSecret(root, root, condCACert(root.cert),
                               ca, root', o)
        PROVE  RootOnTime'
    <3>1. root' \in {root, Managed(ca)} /\ faults' \in Nat /\ faults <= faults'
      BY <1>t, <2>3, RenewCases, RenewFaultsGrow
    <3>2. OnTime(root)' /\ CACert(root)'
      BY <1>t, <1>new, <3>1 DEF RootOnTime, OnTime, CACert
    <3> QED BY <2>1, <3>2 DEF RootOnTime, OnTime, CACert
  <2> QED BY <1>1, <2>2, <2>3 DEF Start, ca
<1>2. CASE ReconcileUserCA
  <2>1. root' = root /\ rootCache' = rootCache /\ faults' = faults /\ running' = running
    BY <1>2 DEF ReconcileUserCA, secretVars, cacheVars
  <2>2. ~rootCache.managed
    BY <1>2 DEF ReconcileUserCA, Refuses
  <2>3. root.managed => rootCache # root
    BY <2>2
  <2> QED BY <2>1, <2>3 DEF RootOnTime, OnTime, CACert
<1>3. CASE ReconcileRootCA
  <2> DEFINE due == Renewable(rootCache.cert) \/ condCACert(rootCache.cert)
  <2> PICK o \in Outcome :
        /\ renewCertSecret(root, rootCache, condCACert(rootCache.cert), ca, root', o)
        /\ IF o = "ok" THEN Handled("root") /\ Requeue(IF due THEN ca ELSE rootCache.cert)
                       ELSE Failed("root") /\ UNCHANGED rootTimer
    BY <1>3 DEF ReconcileRootCA, ca
  <2>1. rootCache' = rootCache /\ running' = running
    BY <1>3 DEF ReconcileRootCA, cacheVars
  <2>2. root' \in {root, Managed(ca)} /\ faults' \in Nat /\ faults <= faults'
    BY <1>t, RenewCases, RenewFaultsGrow
  <2>3. OnTime(root)' /\ CACert(root)' /\ CACert(rootCache)' /\ (running' => OnTime(rootCache)')
    BY <1>t, <1>new, <2>1, <2>2 DEF RootOnTime, OnTime, CACert
  \* A request will come.
  <2>4. ASSUME root'.managed, root'.cert # NoCert, rootCache' = root'
        PROVE  \/ "root" \in backoff' /\ root'.cert.age <= RA + faults'
               \/ root'.cert.age + rootTimer' <= RA + 1
    <3>1. CASE o = "ok"
      <4>1. root'.cert.age \in Nat /\ root'.cert.age <= RA
            /\ (IF due THEN ca ELSE rootCache.cert).age = root'.cert.age
        <5>1. CASE due
          BY <1>t, <1>new, <3>1, <5>1 DEF renewCertSecret, Applied
        <5>2. CASE ~due
          <6>1. root' = rootCache
            BY <2>1, <2>4
          <6>2. ~(rootCache.cert.age > RA)
            BY <5>2 DEF Renewable, NeedsRenewal, TTL, condCACert
          <6> QED BY <1>t, <5>2, <6>1, <6>2
        <5> QED BY <5>1, <5>2
      <4>2. rootTimer' = IF RA - root'.cert.age + 1 \in 1..rootTimer
                         THEN RA - root'.cert.age + 1 ELSE rootTimer
        BY <3>1, <4>1 DEF Requeue, RenewalTimer
      <4> HIDE DEF RA
      <4> QED BY <1>t, <4>1, <4>2
    <3>2. CASE o # "ok"
      <4>1. "root" \in backoff'
        BY <3>2 DEF Failed
      <4>2. Respond(o, root = rootCache)
        BY <3>2 DEF renewCertSecret, BasedOn
      <4>3. CASE root' = Managed(ca)
        BY <1>t, <1>new, <2>2, <4>1, <4>3
      <4>4. CASE root' # Managed(ca)
        <5>1. ~Applied(o) /\ root' = root
          BY <2>2, <3>2, <4>4 DEF renewCertSecret
        <5>2. o = "lost"
          BY <1>t, <2>1, <2>4, <4>2, <5>1, FaultsGrow DEF Applied, Outcome
        <5>3. faults' = faults + 1
          BY <1>t, <4>2, <5>2, FaultsGrow
        <5>4. root.cert.age <= RA + 1 + faults
          BY <2>4, <5>1 DEF RootOnTime, OnTime
        <5> HIDE DEF RA
        <5> QED BY <1>t, <4>1, <5>1, <5>3, <5>4
      <4> QED BY <4>3, <4>4
    <3> QED BY <3>1, <3>2
  <2> QED BY <2>3, <2>4 DEF RootOnTime
<1>4. CASE WatchRoot
  BY <1>4 DEF WatchRoot, RootOnTime, OnTime, CACert, secretVars
<1>5. CASE RequeueAfter
  BY <1>5 DEF RequeueAfter, RootOnTime, OnTime, CACert, secretVars, cacheVars
<1>6. ASSUME NEW r \in Registry, ReconcileNoCA(r) \/ ReconcileRefused(r)
      PROVE  RootOnTime'
  BY <1>6, <1>same, <1>t, NameAssumption
     DEF ReconcileNoCA, ReconcileRefused, secretVars, cacheVars, Failed
<1>7. ASSUME NEW r \in Registry, ReconcileTLSCert(r)
      PROVE  RootOnTime'
  <2>1. faults' \in Nat /\ faults <= faults'
    BY <1>7, <1>t, RenewFaultsGrow DEF ReconcileTLSCert
  <2> QED BY <1>7, <1>same, <2>1, NameAssumption DEF ReconcileTLSCert, cacheVars, Handled, Failed
<1>8. ASSUME NEW q \in Request, Retry(q)
      PROVE  RootOnTime'
  BY <1>8, <1>same, <1>t DEF Retry, secretVars, cacheVars
<1>9. CASE Resync \/ \E r \in Registry : WatchTLS(r)
  BY <1>9, <1>same, <1>t DEF Resync, WatchTLS, secretVars, cacheVars
<1>10. CASE Crash
  <2>1. faults' \in Nat /\ faults <= faults'
    BY <1>10, <1>t DEF Crash
  <2> QED BY <1>10, <1>same, <2>1 DEF Crash, secretVars, cacheVars
<1>11. CASE UserWrites
  <2>1. /\ UNCHANGED <<rootCache, running, rootTimer, queue, backoff, faults>>
        /\ root' = root \/ root' \in UserSecret
    BY <1>11 DEF UserWrites, cacheVars, workVars
  <2>2. CASE root' = root
    BY <1>same, <1>t, <2>1, <2>2
  <2>3. CASE root' \in UserSecret
    <3>1. /\ CACert(root)'
          /\ ~root'.managed \/ root'.cert = NoCert
      BY <2>3 DEF UserSecret, CACert, Absent, Managed, Unmanaged, NewSelfSignedCAKeyPair
    <3> QED BY <2>1, <3>1 DEF RootOnTime, OnTime, CACert
  <2> QED BY <2>1, <2>2, <2>3
<1>12. CASE Tick
  <2>1. root' = OlderSecret(root) /\ rootCache' = OlderSecret(rootCache)
    BY <1>12 DEF Tick
  <2>2. UNCHANGED <<running, faults>>
    BY <1>12 DEF Tick
  <2>3. CACert(root)' /\ CACert(rootCache)'
    BY <1>t, <2>1, OlderFacts DEF RootOnTime, CACert
  <2>4. /\ root'.managed = root.managed /\ root'.cert.age <= root.cert.age + 1
        /\ root.cert = NoCert => root'.cert = NoCert /\ root'.cert.age \in Nat
    BY <1>t, <2>1, OlderFacts DEF NoCert
  <2>5. root'.cert.age \in Nat
    BY NextType, TimeTypes, OlderSecretType, <1>t, <2>1, TTLAssumption DEF Secret, KeyPair
  <2>6. CASE ~running
    <3>1. ~root.managed
      BY <1>12, <2>6 DEF Tick, Refuses
    <3> QED BY <2>2, <2>3, <2>4, <2>6, <3>1 DEF RootOnTime, OnTime
  <2>7. CASE running
    <3>1. queue = {} /\ rootTimer # 0 /\ rootCache = root
      BY <1>12, <2>7 DEF Tick
    <3>2. /\ queue' = backoff
          /\ rootTimer' = IF rootTimer = Never THEN Never ELSE rootTimer - 1
      BY <1>12 DEF Tick
    <3>3. ASSUME root'.managed, root'.cert # NoCert
          PROVE  /\ root'.cert.age <= RA + 1 + faults
                 /\ "root" \in queue' \/ root'.cert.age + rootTimer' <= RA + 1
      <4>1. \/ "root" \in backoff /\ root.cert.age <= RA + faults
            \/ root.cert.age + rootTimer <= RA + 1
        BY <2>4, <2>7, <3>1, <3>3 DEF RootOnTime
      <4>2. CASE "root" \in backoff /\ root.cert.age <= RA + faults
        <5> HIDE DEF RA
        <5> QED BY <1>t, <2>4, <2>5, <3>2, <4>2
      <4>3. CASE root.cert.age + rootTimer <= RA + 1
        <5>1. rootTimer # Never
          BY <1>t, <4>3, RenewAgeNat, TTLAssumption DEF Never
        <5>2. rootTimer' = rootTimer - 1
          BY <3>2, <5>1
        <5> HIDE DEF RA
        <5> QED BY <1>t, <2>4, <2>5, <3>1, <4>3, <5>2
      <4> QED BY <4>1, <4>2, <4>3
    <3>4. rootCache' = root'
      BY <2>1, <3>1
    <3> QED BY <2>2, <2>3, <3>3, <3>4 DEF RootOnTime, OnTime
  <2> QED BY <2>6, <2>7
<1>13. CASE UNCHANGED vars
  BY <1>13, <1>same, <1>t DEF vars
<1> QED BY <1>1, <1>2, <1>3, <1>4, <1>5, <1>6, <1>7, <1>8, <1>9, <1>10, <1>11, <1>12, <1>13
        DEF Next, Operator, Handle

\* A registry's certificate stays in date, or somebody is about to renew it.
LEMMA TLSKept ==
  ASSUME CertTypeOK, RootOnTime, NEW r \in Registry, TLSOnTime(r), [Next]_vars
  PROVE  TLSOnTime(r)'
<1> DEFINE RA == RenewAge(CATTL)
           RS == RenewAge(CertTTL)
           x == tls[r]
<1>t. /\ x \in Secret /\ x.cert.age \in Nat /\ x.cert.issuerAge \in Nat
      /\ rootCache \in Secret /\ rootCache.cert.age \in Nat
      /\ faults \in Nat /\ faults <= MaxFaults /\ MaxFaults \in Nat
      /\ sync \in Nat /\ sync <= SyncPeriod
      /\ RA \in Nat /\ RS \in Nat /\ CertTTL \in Nat /\ CATTL \in Nat
      /\ tls \in [Registry -> Secret] /\ tlsCache \in [Registry -> Secret]
      /\ zone \in Zone /\ r # "root"
  BY TimeTypes, NameAssumption DEF CertTypeOK
<1>same. ASSUME tls'[r] = x, running' => running, tlsCache'[r] = tlsCache[r],
                running' => sync' = sync,
                running' /\ r \in queue \cup backoff => r \in queue' \cup backoff'
         PROVE  TLSOnTime(r)'
  BY <1>same DEF TLSOnTime
\* A certificate that is new, or none, is not late.
<1>fresh. ASSUME tls'[r].cert.age = 0, sync' = sync,
                 tls'[r].cert.own =>
                   /\ tls'[r].cert.for \in Zone
                   /\ tls'[r].cert.issuerAge <= RA + 1 + MaxFaults
          PROVE  TLSOnTime(r)'
  <2>1. tls'[r].cert.own => tls'[r].cert.issuerAge <= tls'[r].cert.age + RA + 1 + MaxFaults
    <3>1. 0 + RA + 1 + MaxFaults = RA + 1 + MaxFaults
      BY <1>t
    <3> QED BY <1>fresh, <3>1
  <2>2. tls'[r].cert.age <= RS + sync'
    BY <1>t, <1>fresh
  <2> QED BY <1>fresh, <2>1, <2>2 DEF TLSOnTime
<1>1. CASE Start
  <2>1. tls'[r] = x /\ tlsCache'[r] = x /\ (running' => r \in queue')
    BY <1>1 DEF Start, Request
  <2> QED BY <2>1 DEF TLSOnTime
<1>2. CASE ReconcileUserCA \/ ReconcileRootCA
  BY <1>2, <1>same, <1>t DEF ReconcileUserCA, ReconcileRootCA, Handled, Failed, secretVars,
                             cacheVars
<1>3. ASSUME NEW p \in Registry, ReconcileNoCA(p) \/ ReconcileRefused(p)
      PROVE  TLSOnTime(r)'
  BY <1>3, <1>same DEF ReconcileNoCA, ReconcileRefused, secretVars, cacheVars, Failed
<1>4. ASSUME NEW p \in Registry \ {r}, ReconcileTLSCert(p)
      PROVE  TLSOnTime(r)'
  BY <1>4, <1>t, <1>same DEF ReconcileTLSCert, cacheVars, Handled, Failed
<1>5. CASE ReconcileTLSCert(r)
  <2> DEFINE cert == NewServerKeyPair(zone, rootCache, NewSerial(tls[r]))
  <2> PICK o \in Outcome, new \in {x, Managed(cert)} :
        /\ renewCertSecret(x, tlsCache[r], condServerCert(tlsCache[r].cert, zone), cert, new, o)
        /\ tls' = [tls EXCEPT ![r] = new]
        /\ IF o = "ok" THEN Handled(r) ELSE Failed(r)
    BY <1>5 DEF ReconcileTLSCert
  <2>1. /\ running /\ rootCache.cert # NoCert /\ tls'[r] = new
        /\ UNCHANGED <<tlsCache, running, sync>>
    BY <1>5, <1>t DEF ReconcileTLSCert, cacheVars
  <2>2. CASE new = Managed(cert)
    <3>1. /\ new.cert.age = 0 /\ new.cert.for = zone /\ new.cert.issuerAge = rootCache.cert.age
          /\ new.cert.own = rootCache.managed
      BY <2>2 DEF Managed, NewServerKeyPair
    <3>2. rootCache.managed => rootCache.cert.age <= RA + 1 + faults
      BY <2>1 DEF RootOnTime, OnTime
    <3>3. rootCache.cert.age <= RA + 1 + faults => rootCache.cert.age <= RA + 1 + MaxFaults
      <4> HIDE DEF RA
      <4> QED BY <1>t
    <3> QED BY <1>t, <1>fresh, <2>1, <3>1, <3>2, <3>3
  <2>3. CASE new = x /\ new # Managed(cert)
    <3>1. CASE o = "ok"
      <4>1. ~Renewable(tlsCache[r].cert) /\ ~condServerCert(tlsCache[r].cert, zone)
        BY <2>3, <3>1 DEF renewCertSecret, Applied
      <4>2. tlsCache[r] = x => x.cert.age <= RS
        <5>1. tlsCache[r].cert.for # "ca"
          BY <1>t, <4>1, NameAssumption DEF condServerCert
        <5>2. ~(tlsCache[r].cert.age > RS)
          BY <4>1, <5>1 DEF Renewable, NeedsRenewal, TTL
        <5> HIDE DEF RS
        <5> QED BY <1>t, <5>2
      <4>3. x.cert.age <= RS => x.cert.age <= RS + sync
        <5> HIDE DEF RS
        <5> QED BY <1>t
      <4> QED BY <2>1, <2>3, <4>2, <4>3 DEF TLSOnTime
    <3>2. CASE o # "ok"
      BY <1>same, <2>1, <2>3, <3>2 DEF Failed
    <3> QED BY <3>1, <3>2
  <2> QED BY <2>2, <2>3
<1>6. CASE WatchRoot \/ RequeueAfter
  BY <1>6, <1>same DEF WatchRoot, RequeueAfter, secretVars, cacheVars
<1>7. ASSUME NEW q \in Request, Retry(q)
      PROVE  TLSOnTime(r)'
  BY <1>7, <1>same DEF Retry, secretVars, cacheVars
<1>8. CASE Resync
  <2>1. r \in queue' /\ tls'[r] = x /\ tlsCache'[r] = tlsCache[r] /\ running' = running
    BY <1>8 DEF Resync, secretVars, cacheVars
  <2> QED BY <2>1 DEF TLSOnTime
<1>9. ASSUME NEW p \in Registry, WatchTLS(p)
      PROVE  TLSOnTime(r)'
  <2>1. /\ tls'[r] = x /\ running' = running /\ sync' = sync /\ queue \subseteq queue'
        /\ backoff' = backoff
    BY <1>9 DEF WatchTLS, secretVars
  <2>2. CASE p # r
    <3>1. tlsCache'[r] = tlsCache[r]
      BY <1>9, <1>t, <2>2 DEF WatchTLS
    <3> QED BY <1>same, <2>1, <3>1
  <2>3. CASE p = r
    <3>1. tlsCache'[r] = x /\ (x.managed => r \in queue')
      BY <1>9, <1>t, <2>3 DEF WatchTLS, TLSRequests
    <3> QED BY <2>1, <3>1 DEF TLSOnTime
  <2> QED BY <2>2, <2>3
<1>10. CASE Crash
  BY <1>10, <1>same DEF Crash, secretVars, cacheVars
<1>11. CASE UserWrites
  <2>1. /\ UNCHANGED <<tlsCache, queue, backoff, sync, running>>
        /\ \/ tls' = tls
           \/ \E s \in UserSecret : \E p \in Registry : tls' = [tls EXCEPT ![p] = s]
    BY <1>11 DEF UserWrites, cacheVars, workVars
  <2>2. tls'[r] = x \/ tls'[r] \in UserSecret
    BY <1>t, <2>1
  <2>3. \A s \in UserSecret : s.cert.age = 0 /\ ~s.cert.own
    BY DEF UserSecret, Absent, Managed, Unmanaged, NoCert, NewSelfSignedCAKeyPair
  <2> QED BY <1>same, <1>fresh, <2>1, <2>2, <2>3
<1>12. CASE Tick
  <2> DEFINE y == tls'[r]
  <2>1. /\ y = OlderSecret(x) /\ running' = running /\ tlsCache'[r] = OlderSecret(tlsCache[r])
    BY <1>12 DEF Tick
  <2>2. y \in Secret /\ y.cert.age \in Nat /\ y.cert.issuerAge \in Nat
    BY <1>t, <2>1, OlderSecretType, TTLAssumption DEF Secret, KeyPair
  <2>3. /\ y.managed = x.managed /\ y.cert.for = x.cert.for /\ y.cert.own = x.cert.own
        /\ y.cert.age <= x.cert.age + 1 /\ y.cert.issuerAge <= x.cert.issuerAge + 1
    BY <1>t, <2>1, OlderFacts
  <2>4. y.cert.own =>
          /\ y.cert.for \in Zone
          /\ y.cert.age <= CertTTL =>
               y.cert.issuerAge <= y.cert.age + RA + 1 + MaxFaults
    <3> SUFFICES ASSUME y.cert.own
                 PROVE  /\ y.cert.for \in Zone
                        /\ y.cert.age <= CertTTL =>
                             y.cert.issuerAge <= y.cert.age + RA + 1 + MaxFaults
      OBVIOUS
    <3>1. /\ x.cert.for \in Zone
          /\ x.cert.age <= CertTTL =>
               x.cert.issuerAge <= x.cert.age + RA + 1 + MaxFaults
      BY <2>3 DEF TLSOnTime
    <3>2. TTL(x.cert) = CertTTL /\ x.cert # NoCert
      BY <3>1, NameAssumption DEF TTL, NoCert
    <3>3. /\ x.cert.age <= CertTTL => y.cert.age = x.cert.age + 1
          /\ x.cert.age > CertTTL => y.cert.age = x.cert.age
      BY <1>t, <2>1, <3>2, OlderFacts
    <3> HIDE DEF RA, x, y
    <3> QED BY <1>t, <2>2, <2>3, <3>1, <3>3
  <2>5. ASSUME running
        PROVE  /\ tlsCache'[r] = y
               /\ y.managed => r \in queue' \/ y.cert.age <= RS + sync'
    <3>1. queue = {} /\ tlsCache = tls /\ queue' = backoff /\ sync' = sync + 1
      BY <1>12, <2>5 DEF Tick
    <3>2. y.managed => r \in backoff \/ x.cert.age <= RS + sync
      BY <2>3, <2>5, <3>1 DEF TLSOnTime
    <3>3. x.cert.age <= RS + sync => y.cert.age <= RS + sync'
      <4> HIDE DEF RS, x, y
      <4> QED BY <1>t, <2>2, <2>3, <3>1
    <3> QED BY <2>1, <3>1, <3>2, <3>3
  <2> QED BY <2>1, <2>4, <2>5 DEF TLSOnTime
<1>13. CASE UNCHANGED vars
  BY <1>13, <1>same DEF vars
<1> QED BY <1>1, <1>2, <1>3, <1>4, <1>5, <1>6, <1>7, <1>8, <1>9, <1>10, <1>11, <1>12, <1>13
        DEF Next, Operator, Handle

\* At first there are no certificates.
LEMMA CertsFirst == Init => CertsOnTime
BY DEF Init, CertsOnTime, RootOnTime, TLSOnTime, OnTime, CACert, Absent, NoCert

LEMMA AlwaysOnTime == Spec => [](CertTypeOK /\ CertsOnTime)
<1>1. Init => CertTypeOK /\ CertsOnTime
  BY InitType, CertsFirst
<1>2. CertTypeOK /\ CertsOnTime /\ [Next]_vars => (CertTypeOK /\ CertsOnTime)'
  BY NextType, RootKept, TLSKept DEF CertsOnTime
<1> QED BY <1>1, <1>2, PTL DEF Spec

\* The root CA of the operator is renewed in the unit of time in which the
\* renewal gets due, and one later for each call that fails.
THEOREM RootOnSchedule == Spec => []RootRenewedOnTime
<1>1. CertsOnTime => RootRenewedOnTime
  <2> SUFFICES ASSUME CertsOnTime, root.managed, root.cert.for = "ca"
               PROVE  root.cert.age <= RenewAge(CATTL) + 1 + faults
    BY DEF RootRenewedOnTime
  <2>1. root.cert # NoCert
    BY DEF NoCert
  <2> QED BY <2>1 DEF CertsOnTime, RootOnTime, OnTime
<1> QED BY <1>1, AlwaysOnTime, PTL

\* No certificate in the TLS Secret of a registry outlives the CA that signed it,
\* and none expires without being worked on, however often users, failures and
\* restarts get in the way.  (When nginx loads it is not modelled.)
THEOREM ChainsInDate == Spec => []ChainInDate
<1>1. CertTypeOK /\ CertsOnTime => ChainInDate
  <2> SUFFICES ASSUME CertTypeOK, CertsOnTime, NEW r \in Registry, tls[r].managed
               PROVE  IF tls[r].cert.age <= CertTTL
                      THEN tls[r].cert.own => tls[r].cert.issuerAge <= CATTL
                      ELSE running => r \in queue \cup backoff
    BY DEF ChainInDate
  <2> DEFINE RA == RenewAge(CATTL)
             RS == RenewAge(CertTTL)
             a == tls[r].cert.age
             b == tls[r].cert.issuerAge
  <2>1. /\ a \in Nat /\ b \in Nat /\ RA \in Nat /\ RS \in Nat /\ MaxFaults \in Nat
        /\ CertTTL \in Nat /\ CATTL \in Nat /\ sync \in Nat /\ sync <= SyncPeriod
        /\ SyncPeriod \in Nat
        /\ RS + 1 + SyncPeriod + MaxFaults <= CertTTL
        /\ RA + 1 + MaxFaults + CertTTL <= CATTL
    BY TimeTypes, TTLAssumption
  <2>2. TLSOnTime(r)
    BY DEF CertsOnTime
  <2>3. CASE a <= CertTTL
    <3>1. tls[r].cert.own => b <= a + RA + 1 + MaxFaults
      BY <2>2, <2>3 DEF TLSOnTime
    <3>2. b <= a + RA + 1 + MaxFaults => b <= CATTL
      <4> HIDE DEF RA, RS, a, b
      <4> QED BY <2>1, <2>3
    <3> QED BY <2>3, <3>1, <3>2
  <2>4. CASE ~(a <= CertTTL)
    <3>1. running => a = 0 \/ r \in queue \cup backoff \/ a <= RS + sync
      BY <2>2 DEF TLSOnTime
    <3>2. a # 0 /\ ~(a <= RS + sync)
      <4> HIDE DEF RA, RS, a, b
      <4> QED BY <2>1, <2>4
    <3> QED BY <2>4, <3>1, <3>2
  <2> QED BY <2>3, <2>4
<1> QED BY <1>1, AlwaysOnTime, PTL
================================================================================
