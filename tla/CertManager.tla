----------------------------- MODULE CertManager -----------------------------
(***************************************************************************)
(* The certificate manager (pkg/certs) and its two callers: the CA root    *)
(* controller (pkg/controller/caroot), which keeps the operator's root CA, *)
(* and the task of the image registry controller that keeps a registry's   *)
(* TLS certificate, signed by that CA.                                     *)
(*                                                                         *)
(* Both keep their key pairs in Secrets and renew them in the last quarter *)
(* of their lifetime, unless the Secret belongs to a user.  The CA root    *)
(* controller asks to be called when a renewal is due; registries rely on  *)
(* the periodic resync of the informers.                                   *)
(*                                                                         *)
(* Time is discrete and kept as ages of certificates.  A unit is longer    *)
(* than it takes to handle a request, to restart the operator and to retry *)
(* after an error, so these come to an end before time passes, unless they *)
(* fail again and again.                                                   *)
(***************************************************************************)
EXTENDS Integers

CONSTANTS
  Registry,    \* ImageRegistries that have neither an issuer nor a TLS Secret
  Zone,        \* DNS zones the operator is configured with
  CATTL,       \* lifetime of a CA certificate (caTTL)
  CertTTL,     \* lifetime of a server certificate (certTTL)
  SyncPeriod,  \* time between two resyncs of the informers
  MaxFaults,   \* bound: failed API calls and operator crashes
  MaxEdits     \* bound: Secrets written or deleted by users

\* NextRenewal leaves a quarter of the lifetime.
RenewAge(ttl) == ttl - ttl \div 4

\* A quarter of a server certificate's lifetime is enough for a resync and
\* some failures, a quarter of the CA's for a server certificate's lifetime.
ASSUME TTLAssumption ==
  /\ CATTL \in Nat /\ CertTTL \in Nat /\ SyncPeriod \in Nat \ {0}
  /\ MaxFaults \in Nat /\ MaxEdits \in Nat
  /\ RenewAge(CertTTL) + 1 + SyncPeriod + MaxFaults <= CertTTL
  /\ RenewAge(CATTL) + 1 + MaxFaults + CertTTL <= CATTL

ASSUME NameAssumption ==
  Zone # {} /\ "ca" \notin Zone /\ "none" \notin Zone /\ "root" \notin Registry

VARIABLES
  root, tls,            \* the API server's Secrets: root CA, by registry TLS
  rootCache, tlsCache,  \* the informer caches
  queue,      \* requests in the work queues: "root" and registries
  backoff,    \* failed ones, waiting to be put back
  rootTimer,  \* time until "root" comes back (Never: it does not)
  sync,       \* time since the last resync
  running,    \* whether the operator has been started
  zone,       \* the DNS zone it is configured with
  faults, edits

secretVars == <<root, tls>>
cacheVars == <<rootCache, tlsCache>>
workVars == <<queue, backoff, rootTimer>>
vars == <<root, tls, rootCache, tlsCache, queue, backoff, rootTimer, sync, running,
          zone, faults, edits>>

Request == {"root"} \cup Registry

-----------------------------------------------------------------------------
(* Key pairs and Secrets.                                                  *)

\* A key pair: what its certificate is for (a CA or the names in a zone), a
\* number that stands for its key, the age of the certificate and of that of its issuer (itself
\* in the case of a CA), and whether the operator keeps the issuer.  NoCert is
\* one that certFromMap does not accept.
KeyPair == [for: Zone \cup {"ca", "none"}, serial: {0, 1}, age: 0..(CATTL + 1),
            issuerAge: 0..(CATTL + 1), own: BOOLEAN]

NoCert == [for |-> "none", serial |-> 0, age |-> 0, issuerAge |-> 0, own |-> FALSE]

NewSelfSignedCAKeyPair(n) ==
  [for |-> "ca", serial |-> n, age |-> 0, issuerAge |-> 0, own |-> TRUE]

NewServerKeyPair(dnsZone, ca, n) ==
  [for |-> dnsZone, serial |-> n, age |-> 0, issuerAge |-> ca.cert.age, own |-> ca.managed]

\* Every key pair is generated anew (genKeyPair).  Two numbers are enough to tell
\* it from the stored one that it replaces, both perhaps of age 0.
NewSerial(stored) == 1 - stored.cert.serial

\* A Secret: managed if it has the operator's label and, if it is a
\* registry's, the registry as its controller.
Secret == [exists: BOOLEAN, managed: BOOLEAN, cert: KeyPair]

Absent == [exists |-> FALSE, managed |-> FALSE, cert |-> NoCert]

Managed(cert) == [exists |-> TRUE, managed |-> TRUE, cert |-> cert]

Unmanaged(cert) == [exists |-> TRUE, managed |-> FALSE, cert |-> cert]

TTL(cert) == IF cert.for = "ca" THEN CATTL ELSE CertTTL

\* Fault: due at the end of the lifetime only.
NeedsRenewalLate(cert) == cert.age > TTL(cert)

NeedsRenewal(cert) == cert.age > RenewAge(TTL(cert))

condCACert(cert) == cert.for # "ca"

condServerCert(cert, dnsZone) == cert.for # dnsZone

\* certFromMap fails, or the certificate has to be renewed.
Renewable(cert) == cert = NoCert \/ NeedsRenewal(cert)

\* The time to the next renewal, and 30 s more: NeedsRenewal does not hold
\* yet at that very moment.
Never == CATTL + 2

\* Fault: without these 30 s.
RenewalTimerExact(cert) == RenewAge(CATTL) - cert.age

RenewalTimer(cert) == RenewAge(CATTL) - cert.age + 1

-----------------------------------------------------------------------------
(* API calls: each succeeds, is refused (the Secret is not the one that    *)
(* was read), is lost on the way or, although applied, reported as failed. *)

Outcome == {"ok", "refused", "lost", "timeout"}

Applied(o) == o \in {"ok", "timeout"}

Respond(o, valid) ==
  /\ IF valid THEN o # "refused" ELSE o \in {"refused", "lost"}
  /\ faults' = IF o \in {"lost", "timeout"} THEN faults + 1 ELSE faults
  /\ faults' <= MaxFaults

\* Fault: the label is not looked at.
RefusesNever(s) == FALSE

\* "refuse to overwrite ... unmanaged cert secret"
Refuses(s) == s.exists /\ ~s.managed

\* Fault: whatever is stored is overwritten.
BasedOnNever(stored, read) == TRUE

\* renewCertSecret writes what it has read, by CreateOrUpdate: a creation fails if
\* there is a Secret, an update if the Secret has changed since.
BasedOn(stored, read) == stored = read

\* renewCertSecret for the Secret that is read, and stored: the one to store
\* afterwards is new.  Nothing is called if nothing has to be done.
renewCertSecret(stored, read, cond, cert, new, o) ==
  /\ ~Refuses(read)
  /\ IF Renewable(read.cert) \/ cond
     THEN /\ Respond(o, BasedOn(stored, read))
          /\ new = IF Applied(o) THEN Managed(cert) ELSE stored
     ELSE o = "ok" /\ new = stored /\ UNCHANGED faults

Handled(q) == queue' = queue \ {q} /\ UNCHANGED backoff

Failed(q) == queue' = queue \ {q} /\ backoff' = backoff \cup {q}

-----------------------------------------------------------------------------
(* The CA root controller.                                                 *)

\* Add: renews the root CA with a client that has no cache.  If that fails the
\* operator exits, to be started again.  The informers then list everything.
Start ==
  /\ ~running
  /\ \/ /\ Refuses(root) /\ ~Renewable(root.cert)
        /\ running' = TRUE
        /\ UNCHANGED <<root, faults>>
     \/ \E o \in Outcome :
          /\ renewCertSecret(root, root, condCACert(root.cert),
                             NewSelfSignedCAKeyPair(NewSerial(root)), root', o)
          /\ running' = (o = "ok")
  /\ rootCache' = root' /\ tlsCache' = tls
  /\ queue' = IF running' THEN Request ELSE {}
  /\ sync' = 0
  /\ UNCHANGED <<tls, backoff, rootTimer, zone, edits>>

\* A delay that is not positive is none; of two, AddAfter keeps the shorter.
Requeue(cert) ==
  rootTimer' = IF RenewalTimer(cert) \in 1..rootTimer THEN RenewalTimer(cert) ELSE rootTimer

\* RenewRootCACertSecret: a valid Secret of a user is used as it is.
ReconcileUserCA ==
  /\ running /\ "root" \in queue
  /\ Refuses(rootCache)
  /\ IF Renewable(rootCache.cert)
     THEN Failed("root") /\ UNCHANGED rootTimer
     ELSE Handled("root") /\ Requeue(rootCache.cert)
  /\ UNCHANGED <<secretVars, cacheVars, sync, running, zone, faults, edits>>

ReconcileRootCA ==
  LET new == NewSelfSignedCAKeyPair(NewSerial(root))
      due == Renewable(rootCache.cert) \/ condCACert(rootCache.cert)
  IN
  /\ running /\ "root" \in queue
  /\ \E o \in Outcome :
       /\ renewCertSecret(root, rootCache, condCACert(rootCache.cert), new, root', o)
       /\ IF o = "ok" THEN Handled("root") /\ Requeue(IF due THEN new ELSE rootCache.cert)
                      ELSE Failed("root") /\ UNCHANGED rootTimer
  /\ UNCHANGED <<tls, cacheVars, sync, running, zone, edits>>

-----------------------------------------------------------------------------
(* reconcileTLSCert, and the tasks before it: if one of them fails, so     *)
(* does Reconcile, as with a lost call.                                    *)

\* RootCACert finds no root CA, or one that is no key pair.
ReconcileNoCA(r) ==
  /\ running /\ r \in queue
  /\ rootCache.cert = NoCert
  /\ Failed(r)
  /\ UNCHANGED <<secretVars, cacheVars, rootTimer, sync, running, zone, faults, edits>>

ReconcileRefused(r) ==
  /\ running /\ r \in queue
  /\ rootCache.cert # NoCert
  /\ Refuses(tlsCache[r])
  /\ Failed(r)
  /\ UNCHANGED <<secretVars, cacheVars, rootTimer, sync, running, zone, faults, edits>>

ReconcileTLSCert(r) ==
  LET cert == NewServerKeyPair(zone, rootCache, NewSerial(tls[r])) IN
  /\ running /\ r \in queue
  /\ rootCache.cert # NoCert
  /\ \E o \in Outcome, new \in {tls[r], Managed(cert)} :
       /\ renewCertSecret(tls[r], tlsCache[r], condServerCert(tlsCache[r].cert, zone),
                          cert, new, o)
       /\ tls' = [tls EXCEPT ![r] = new]
       /\ IF o = "ok" THEN Handled(r) ELSE Failed(r)
  /\ UNCHANGED <<root, cacheVars, rootTimer, sync, running, zone, edits>>

-----------------------------------------------------------------------------
(* Events.                                                                 *)

\* secretNameFilter: whatever happens to the root CA's Secret.
WatchRoot ==
  /\ running /\ rootCache # root
  /\ rootCache' = root
  /\ queue' = queue \cup {"root"}
  /\ UNCHANGED <<secretVars, tlsCache, backoff, rootTimer, sync, running, zone, faults, edits>>

\* Fault: the request is for the Secret, not for its controller.
TLSRequestsSelf(r) == {"tls"}

\* Only a Secret that names its registry as controller leads to a request.
TLSRequests(r) == IF tlsCache[r].managed \/ tls[r].managed THEN {r} ELSE {}

WatchTLS(r) ==
  /\ running /\ tlsCache[r] # tls[r]
  /\ tlsCache' = [tlsCache EXCEPT ![r] = tls[r]]
  /\ queue' = queue \cup TLSRequests(r)
  /\ UNCHANGED <<secretVars, rootCache, backoff, rootTimer, sync, running, zone, faults, edits>>

RequeueAfter ==
  /\ running /\ rootTimer = 0
  /\ rootTimer' = Never
  /\ queue' = queue \cup {"root"}
  /\ UNCHANGED <<secretVars, cacheVars, backoff, sync, running, zone, faults, edits>>

Retry(q) ==
  /\ running /\ q \in backoff
  /\ backoff' = backoff \ {q}
  /\ queue' = queue \cup {q}
  /\ UNCHANGED <<secretVars, cacheVars, rootTimer, sync, running, zone, faults, edits>>

\* Every object in the caches leads to an event; there is none for a root CA
\* that does not exist.
Resync ==
  /\ running /\ sync = SyncPeriod
  /\ sync' = 0
  /\ queue' = queue \cup Registry \cup {q \in {"root"} : rootCache.exists}
  /\ UNCHANGED <<secretVars, cacheVars, backoff, rootTimer, running, zone, faults, edits>>

\* The operator dies; its successor may be configured with another zone.
Crash ==
  /\ running /\ faults < MaxFaults
  /\ running' = FALSE
  /\ zone' \in Zone
  /\ queue' = {} /\ backoff' = {} /\ rootTimer' = Never /\ sync' = 0
  /\ faults' = faults + 1
  /\ UNCHANGED <<secretVars, cacheVars, edits>>

\* Users delete Secrets, damage their data or put their own in their place.
UserSecret == {Absent, Managed(NoCert), Unmanaged(NoCert),
               Unmanaged([NewSelfSignedCAKeyPair(0) EXCEPT !.own = FALSE])}

UserWrites ==
  /\ edits < MaxEdits
  /\ edits' = edits + 1
  /\ \E s \in UserSecret :
       \/ s # root /\ root' = s /\ UNCHANGED tls
       \/ \E r \in Registry : s # tls[r] /\ tls' = [tls EXCEPT ![r] = s] /\ UNCHANGED root
  /\ UNCHANGED <<cacheVars, workVars, sync, running, zone, faults>>

-----------------------------------------------------------------------------
(* Time.                                                                   *)

Older(cert) ==
  IF cert = NoCert THEN NoCert
  ELSE [cert EXCEPT !.age = IF @ > TTL(cert) THEN @ ELSE @ + 1,
                    !.issuerAge = IF @ > CATTL THEN @ ELSE @ + 1]

OlderSecret(s) == [s EXCEPT !.cert = Older(@)]

\* The operator, if it runs, has reacted to all there is, and has tried again
\* what failed; if it does not, it cannot be started.
Tick ==
  /\ IF running
     THEN /\ queue = {} /\ rootTimer # 0 /\ sync < SyncPeriod
          /\ rootCache = root /\ tlsCache = tls
     ELSE Refuses(root) /\ Renewable(root.cert)
  /\ root' = OlderSecret(root) /\ rootCache' = OlderSecret(rootCache)
  /\ tls' = [r \in Registry |-> OlderSecret(tls[r])]
  /\ tlsCache' = [r \in Registry |-> OlderSecret(tlsCache[r])]
  /\ queue' = backoff /\ backoff' = {}
  /\ rootTimer' = IF rootTimer = Never THEN Never ELSE rootTimer - 1
  /\ sync' = IF running THEN sync + 1 ELSE 0
  /\ UNCHANGED <<running, zone, faults, edits>>

Init ==
  /\ root = Absent /\ tls = [r \in Registry |-> Absent]
  /\ rootCache = root /\ tlsCache = tls
  /\ queue = {} /\ backoff = {} /\ rootTimer = Never /\ sync = 0
  /\ running = FALSE /\ zone \in Zone
  /\ faults = 0 /\ edits = 0

Handle(q) ==
  \/ q = "root" /\ (ReconcileUserCA \/ ReconcileRootCA)
  \/ q \in Registry /\ (ReconcileNoCA(q) \/ ReconcileRefused(q) \/ ReconcileTLSCert(q))

Operator ==
  \/ Start \/ WatchRoot \/ RequeueAfter \/ Resync
  \/ \E q \in Request : Handle(q) \/ Retry(q)
  \/ \E r \in Registry : WatchTLS(r)

Next == Operator \/ Crash \/ UserWrites \/ Tick

Spec == Init /\ [][Next]_vars

-----------------------------------------------------------------------------
(* Properties.                                                             *)

\* Types, among them: requests are for the root CA or for registries, and the
\* timer is never set for a moment that has passed.
CertTypeOK ==
  /\ root \in Secret /\ rootCache \in Secret
  /\ tls \in [Registry -> Secret] /\ tlsCache \in [Registry -> Secret]
  /\ queue \subseteq Request /\ backoff \subseteq Request
  /\ rootTimer \in 0..Never /\ sync \in 0..SyncPeriod
  /\ ~running => rootTimer = Never
  /\ running \in BOOLEAN /\ zone \in Zone
  /\ faults \in 0..MaxFaults /\ edits \in 0..MaxEdits

Kept(s, new) == s.exists /\ ~s.managed => new \in {s, OlderSecret(s)}

\* A Secret that is not the operator's is not written by it, not even if the
\* caches still show what had been there before ("refuse to overwrite").
UnmanagedKept ==
  [][edits' = edits =>
       Kept(root, root') /\ \A r \in Registry : Kept(tls[r], tls'[r])]_vars

\* A certificate that can be used is not replaced by another one before its time
\* has come: not by a second request, a retry or a restart that follows a renewal
\* which the caches do not show yet (a call that was applied although it failed,
\* the write of a predecessor), nor after a user has restored what the cache
\* shows as gone.  A renewed CA is one that clients do not know.
RenewedOnlyWhenDue ==
  [][edits' = edits =>
       /\ root.cert.for = "ca" /\ root'.cert.serial # root.cert.serial =>
            root.cert.age > RenewAge(CATTL)
       /\ \A r \in Registry :
            tls[r].cert.for = zone /\ tls'[r].cert.serial # tls[r].cert.serial =>
              tls[r].cert.age > RenewAge(CertTTL)]_vars

\* The operator's root CA is renewed on time, except for failed calls: the
\* request comes back when the renewal is due, not before.
RootRenewedOnTime ==
  root.managed /\ root.cert.for = "ca" => root.cert.age <= RenewAge(CATTL) + 1 + faults

\* A registry's certificate that has not expired has been signed by a CA that
\* has not either, if the CA is the operator's.  A certificate that has
\* expired is about to be replaced, or the operator cannot be started.
ChainInDate ==
  \A r \in Registry : tls[r].managed =>
    LET cert == tls[r].cert IN
    IF cert.age <= CertTTL
    THEN cert.own => cert.issuerAge <= CATTL
    ELSE running => r \in queue \cup backoff
=============================================================================
