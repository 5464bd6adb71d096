------------------------------ MODULE ImageSecret ------------------------------
(***************************************************************************)
(* The image secret reconciler (pkg/controller/imagesecret), which serves  *)
(* both the ImagePullSecret and the ImagePushSecret controller, together   *)
(* with the account controller and the parts of Kubernetes it relies on:   *)
(* the API server with its optimistic locking, the informer caches the     *)
(* reconciler reads from, the work queue and the garbage collector.        *)
(*                                                                         *)
(* For every CR the reconciler keeps an immutable ImageRegistryAccount in  *)
(* the registry's namespace and a Secret, in the CR's namespace, with the  *)
(* account's credentials.  Account names carry the rotation count kept in  *)
(* the CR's status; names, not UIDs, link the three objects.               *)
(*                                                                         *)
(* Every call of the API server is a step of its own, so users, the        *)
(* garbage collector, other controllers and crashes come in between.  All  *)
(* cache reads of one Reconcile happen in its first step: the caches of    *)
(* the kinds lag independently, so whatever reads at different times       *)
(* return can also be read at one time.                                    *)
(***************************************************************************)
EXTENDS Integers, FiniteSets

CONSTANTS
  CR,             \* names of the ImagePullSecrets and ImagePushSecrets
  Pull,           \* those among them that are ImagePullSecrets
  Dotted,         \* those with a dot in their name
  Registry,       \* namespaces with an ImageRegistry (one each)
  NoRegistry,     \* "no registry namespace", not in Registry
  DefaultRegistry,\* namespace of the operator's default registry
  RegistryRefs,   \* the spec.registryRefs users write (NoRegistry: none)
  Manual,         \* owner of accounts created by hand, not in CR
  ManualAccounts, \* registry namespaces that hold such an account
  Changes,        \* kinds of change that users and other controllers make
  MaxRotation,    \* bound: rotations per CR
  MaxUID,         \* bound: CRs created altogether
  MaxFaults,      \* bound: failed API calls and operator crashes
  MaxEdits        \* bound: changes made by users and other controllers

ASSUME RegistryAssumption ==
  /\ NoRegistry \notin Registry
  /\ DefaultRegistry \in Registry
  /\ RegistryRefs \subseteq Registry \cup {NoRegistry}
  /\ ManualAccounts \subseteq Registry

ASSUME CRAssumption == Pull \subseteq CR /\ Dotted \subseteq CR /\ Manual \notin CR

ASSUME BoundAssumption ==
  /\ MaxRotation \in Nat /\ MaxUID \in Nat
  /\ MaxFaults \in Nat   /\ MaxEdits \in Nat

VARIABLES
  cr,        \* the API server's CRs by name
  accounts,  \* the API server's ImageRegistryAccounts
  secrets,   \* the API server's Secrets, by the name of the CR they are for
  crCache, accountCache, secretCache,  \* the operator's informer caches
  registry,  \* ready condition and CA of each registry, as the caches show it
  queue,     \* requests in the work queues
  timer,     \* requests that come back after a RequeueAfter delay
  w,         \* Reconcile's local variables, per request
  due,       \* passwords of the accounts older than rotationInterval
  passwords, \* passwords generated so far
  uids,      \* CR UIDs assigned so far
  faults, edits

cacheVars == <<crCache, accountCache, secretCache>>
operatorVars == <<queue, timer, w, passwords>>
worldVars == <<registry, due, uids, edits>>
vars == <<cr, accounts, secrets, crCache, accountCache, secretCache, registry,
          queue, timer, w, due, passwords, uids, faults, edits>>

-----------------------------------------------------------------------------
(* Objects.  UID 0 stands for an object that does not exist.               *)

\* The reasons a condition can show: why Ready (or Synced) is False, "True",
\* or "none" while the condition has not been set.
Cond == {"none", "True", "RegistryUnavailable", "conflict", "outage", "bcrypt",
         "accountExists", "secretExists", "secretConflict"}

\* ImageSecret: metadata, spec.registryRef and status.
CRObject ==
  [uid: Nat, deleting: BOOLEAN, finalizer: BOOLEAN, generation: Nat,
   registryRef: Registry \cup {NoRegistry},
   rotation: Nat, statusRegistry: Registry \cup {NoRegistry},
   observedGeneration: Nat, ready: Cond, synced: Cond]

NoCR == [uid |-> 0, deleting |-> FALSE, finalizer |-> FALSE, generation |-> 0,
         registryRef |-> NoRegistry, rotation |-> 0,
         statusRegistry |-> NoRegistry, observedGeneration |-> 0,
         ready |-> "none", synced |-> "none"]

\* ImageRegistryAccount: namespace, the CR and rotation its name is made of
\* and the password its hash was made from.  creator, the UID of the CR it
\* was created for, is recorded for the properties only.
Account == [registry: Registry, cr: CR \cup {Manual}, rotation: Nat,
            password: Nat, creator: Nat]

\* Secret: the controller's owner reference, the rotation annotation
\* (0: none) and the data: registry and rotation of the account it names,
\* the registry's CA and the password.
SecretObject == [owner: Nat, annotation: Nat, registry: Registry \cup {NoRegistry},
                 rotation: Nat, ca: Nat, password: Nat]

NoSecret == [owner |-> 0, annotation |-> 0, registry |-> NoRegistry,
             rotation |-> 0, ca |-> 0, password |-> 0]

\* Reconcile's local state: the next API call, the CR as read (whose resource
\* version an update must match) and as modified since, the cached Secret, the
\* target registry, the new password, the Ready condition to report and
\* whether a RequeueAfter is returned with it.
Step == {"idle", "deleteAccounts", "removeFinalizer", "addFinalizer",
         "reportUnsynced", "deleteOldAccounts", "updateRotation",
         "createAccount", "writeSecret", "report"}

Worker == [pc: Step, base: CRObject, instance: CRObject, secret: SecretObject,
           registry: Registry \cup {NoRegistry}, ca: Nat, password: Nat,
           cond: Cond, requeueAfter: BOOLEAN]

Idle == [pc |-> "idle", base |-> NoCR, instance |-> NoCR, secret |-> NoSecret,
         registry |-> NoRegistry, ca |-> 0, password |-> 0,
         cond |-> "none", requeueAfter |-> FALSE]

ManualAccount(r) == [registry |-> r, cr |-> Manual, rotation |-> 0,
                     password |-> 0, creator |-> 0]

Init ==
  /\ cr = [c \in CR |-> NoCR]
  /\ accounts = {ManualAccount(r) : r \in ManualAccounts}
  /\ secrets = [c \in CR |-> NoSecret]
  /\ crCache = cr /\ accountCache = accounts /\ secretCache = secrets
  /\ registry = [r \in Registry |-> [ready |-> TRUE, ca |-> 1]]
  /\ queue = {} /\ timer = {}
  /\ w = [c \in CR |-> Idle]
  /\ due = {} /\ passwords = 0 /\ uids = 0 /\ faults = 0 /\ edits = 0

-----------------------------------------------------------------------------
(* API calls.  A call succeeds, is refused (a stale resource version, a    *)
(* name that is taken), is lost on the way or, although applied, reported  *)
(* as failed.                                                              *)
Outcome == {"ok", "refused", "lost", "timeout"}

Applied(o) == o \in {"ok", "timeout"}

Respond(o, valid) ==
  /\ IF valid THEN o # "refused" ELSE o \in {"refused", "lost"}
  /\ faults' = IF o \in {"lost", "timeout"} THEN faults + 1 ELSE faults
  /\ faults' <= MaxFaults

\* Fault: errors of a Reconcile's last call are dropped.
FailedNever(o) == FALSE

Failed(o) == o # "ok"

ErrorCond(o, refusal) == IF o = "refused" THEN refusal ELSE "outage"

\* client.Update and client.Status().Update of the CR.
UpdateCR(c, object, o) ==
  /\ Respond(o, cr[c] = w[c].base)
  /\ cr' = IF Applied(o) THEN [cr EXCEPT ![c] = object] ELSE cr

\* Reconcile returns: with an error (requeue), with a delay or with neither.
Return(c, requeue, after) ==
  /\ w' = [w EXCEPT ![c] = Idle]
  /\ queue' = IF requeue THEN queue \cup {c} ELSE queue
  /\ timer' = IF after THEN timer \cup {c} ELSE timer

Goto(c, step) == w' = [w EXCEPT ![c] = [@ EXCEPT !.pc = step]]

\* Go on with setSyncStatus(Ready).
GotoReport(c, cond, after) ==
  w' = [w EXCEPT ![c] = [@ EXCEPT !.pc = "report", !.cond = cond,
                                  !.requeueAfter = after]]

-----------------------------------------------------------------------------
(* Helpers of the reconciler.                                              *)

getRegistryKeyForCR(i) ==
  IF i.registryRef = NoRegistry THEN DefaultRegistry ELSE i.registryRef

\* The cached accounts with the name accountNameForCR(i), in namespace ns.
CachedAccount(c, i, ns) ==
  {a \in accountCache : a.registry = ns /\ a.cr = c /\ a.rotation = i.rotation}

\* Fault: the rotation annotation is not compared.
NeedsRotationUnannotated(c, i, s, ns) ==
  \/ CachedAccount(c, i, ns) = {} \/ s.owner = 0
  \/ \E a \in CachedAccount(c, i, ns) : a.password \in due
  \/ s.registry # ns \/ s.ca # registry[ns].ca

\* The condition under which Reconcile rotates the password.
NeedsRotation(c, i, s, ns) ==
  \/ CachedAccount(c, i, ns) = {}
  \/ s.owner = 0
  \/ s.annotation = 0 \/ s.annotation # i.rotation
  \/ \E a \in CachedAccount(c, i, ns) : a.password \in due
  \/ s.registry # ns \/ s.ca # registry[ns].ca

\* The accounts DeleteAllOf(labels.SelectorFromSet(label: "namespace/name"))
\* removes from namespace ns.  "/" is not allowed in a label value; for such
\* a set SelectorFromSet returns the selector that matches everything.
SelectedAccounts(c, ns) == {a \in accounts : a.registry = ns}

\* deleteOrphanAccounts: a failing call may have deleted some of them.
deleteOrphanAccounts(c, ns, o) ==
  /\ Respond(o, TRUE)
  /\ \E D \in SUBSET SelectedAccounts(c, ns) :
       /\ Applied(o) => D = SelectedAccounts(c, ns)
       /\ accounts' = accounts \ D

\* setSyncStatus writes the status only if it changes.  The message of
\* "accountExists" names the account, hence always differs.
setReady(c, cond, o) ==
  LET i == w[c].instance IN
  IF i.ready # cond \/ cond = "accountExists"
                    \/ i.observedGeneration # i.generation
  THEN UpdateCR(c, [i EXCEPT !.ready = cond,
                             !.observedGeneration = i.generation], o)
  ELSE o = "ok" /\ UNCHANGED <<cr, faults>>

setUnsynced(c, cond, o) ==
  LET i == w[c].instance IN
  IF i.synced # cond \/ i.observedGeneration # i.generation
  THEN UpdateCR(c, [i EXCEPT !.synced = cond,
                             !.observedGeneration = i.generation], o)
  ELSE o = "ok" /\ UNCHANGED <<cr, faults>>

-----------------------------------------------------------------------------
(* Reconcile up to its first API call.                                     *)

SameController(c, d) == (c \in Pull) = (d \in Pull)

\* Each controller has one worker.
Dequeue(c) ==
  /\ c \in queue
  /\ \A d \in CR : SameController(c, d) => w[d].pc = "idle"
  /\ queue' = queue \ {c}
  /\ UNCHANGED <<cr, accounts, secrets, cacheVars, timer, passwords, worldVars>>

Load(c, step) ==
  w' = [w EXCEPT ![c] = [Idle EXCEPT !.pc = step, !.base = crCache[c],
                                     !.instance = crCache[c]]]

ReconcileNotFound(c) ==
  /\ crCache[c].uid = 0
  /\ Dequeue(c)
  /\ UNCHANGED <<w, faults>>

ReconcileDeleted(c) ==
  LET i == crCache[c] IN
  /\ i.uid # 0 /\ i.deleting
  /\ Dequeue(c)
  /\ UNCHANGED faults
  /\ \/ ~i.finalizer /\ UNCHANGED w
     \/ i.finalizer /\ i.statusRegistry # NoRegistry /\ Load(c, "deleteAccounts")
     \/ i.finalizer /\ i.statusRegistry = NoRegistry /\ Load(c, "removeFinalizer")

ReconcileNew(c) ==
  /\ crCache[c].uid # 0 /\ ~crCache[c].deleting /\ ~crCache[c].finalizer
  /\ Dequeue(c)
  /\ UNCHANGED faults
  /\ Load(c, "addFinalizer")

\* getRegistry fails: report it and come back in 30 seconds.
ReconcileUnavailable(c) ==
  LET i == crCache[c] IN
  /\ i.uid # 0 /\ ~i.deleting /\ i.finalizer
  /\ ~registry[getRegistryKeyForCR(i)].ready
  /\ Dequeue(c)
  /\ UNCHANGED faults
  /\ w' = [w EXCEPT ![c] = [Idle EXCEPT !.pc = "report", !.base = i, !.instance = i,
                                        !.cond = "RegistryUnavailable",
                                        !.requeueAfter = TRUE]]

\* Fault: the next check is not scheduled.
RenewalTimerNever(c, i, ns) == {FALSE}

\* The delay until the next check is counted from the creation of the cached
\* account: none if there is no account; none, unless its renewal has been
\* due for less than 30 seconds, if the account is due.
RenewalTimer(c, i, ns) ==
  LET A == CachedAccount(c, i, ns) IN
  IF A = {} THEN {FALSE}
  ELSE IF \E a \in A : a.password \in due THEN BOOLEAN ELSE {TRUE}

\* Registry, account and Secret have been read; i, s and ns as in Reconcile.
Compare(c, i, s, ns, step, cond, after) ==
  /\ i.uid # 0 /\ ~i.deleting /\ i.finalizer
  /\ registry[ns].ready
  /\ Dequeue(c)
  /\ w' = [w EXCEPT ![c] =
       [Idle EXCEPT !.pc = step, !.base = i, !.instance = i, !.secret = s,
                    !.registry = ns, !.ca = registry[ns].ca,
                    !.cond = cond, !.requeueAfter = after]]

ReconcileInSync(c) ==
  LET i == crCache[c]  s == secretCache[c]  ns == getRegistryKeyForCR(i) IN
  /\ ~NeedsRotation(c, i, s, ns)
  /\ \E after \in RenewalTimer(c, i, ns) : Compare(c, i, s, ns, "report", "True", after)
  /\ UNCHANGED faults

ReconcileRotate(c) ==
  LET i == crCache[c]  s == secretCache[c]  ns == getRegistryKeyForCR(i) IN
  /\ NeedsRotation(c, i, s, ns) /\ i.rotation < MaxRotation
  /\ \E after \in RenewalTimer(c, i, ns) :
       Compare(c, i, s, ns, IF i.statusRegistry \in {NoRegistry, ns}
                            THEN "updateRotation" ELSE "deleteOldAccounts",
               "True", after)
  /\ UNCHANGED faults

\* rotatePassword gets no password: BcryptPassword returns an error.
ReconcileBcryptFails(c) ==
  LET i == crCache[c]  s == secretCache[c]  ns == getRegistryKeyForCR(i) IN
  /\ NeedsRotation(c, i, s, ns)
  /\ Compare(c, i, s, ns, "report", "bcrypt", FALSE)
  /\ Respond("lost", TRUE)

Reconcile(c) ==
  \/ ReconcileNotFound(c) \/ ReconcileDeleted(c) \/ ReconcileNew(c)
  \/ ReconcileUnavailable(c) \/ ReconcileInSync(c) \/ ReconcileRotate(c)
  \/ ReconcileBcryptFails(c)

-----------------------------------------------------------------------------
(* The API calls of Reconcile.                                             *)

\* Finalization, first call.
DeleteAccounts(c) ==
  /\ w[c].pc = "deleteAccounts"
  /\ \E o \in Outcome :
       /\ deleteOrphanAccounts(c, w[c].instance.statusRegistry, o)
       /\ IF o = "ok" THEN Goto(c, "removeFinalizer") /\ UNCHANGED <<queue, timer>>
                      ELSE Return(c, TRUE, FALSE)
  /\ UNCHANGED <<cr, secrets, cacheVars, passwords, worldVars>>

\* Finalization, second call: the API server drops a CR whose deletion has
\* been requested once it has no finalizer.
RemoveFinalizer(c) ==
  /\ w[c].pc = "removeFinalizer"
  /\ \E o \in Outcome : UpdateCR(c, NoCR, o) /\ Return(c, Failed(o), FALSE)
  /\ UNCHANGED <<accounts, secrets, cacheVars, passwords, worldVars>>

AddFinalizer(c) ==
  /\ w[c].pc = "addFinalizer"
  /\ \E o \in Outcome :
       /\ UpdateCR(c, [w[c].instance EXCEPT !.finalizer = TRUE], o)
       /\ IF o = "ok"
          THEN Return(c, FALSE, FALSE)
          ELSE /\ w' = [w EXCEPT ![c] = [@ EXCEPT !.pc = "reportUnsynced",
                                          !.cond = ErrorCond(o, "conflict")]]
               /\ UNCHANGED <<queue, timer>>
  /\ UNCHANGED <<accounts, secrets, cacheVars, passwords, worldVars>>

\* Whether or not the status can be written, the first error is returned.
ReportUnsynced(c) ==
  /\ w[c].pc = "reportUnsynced"
  /\ \E o \in Outcome : setUnsynced(c, w[c].cond, o) /\ Return(c, TRUE, FALSE)
  /\ UNCHANGED <<accounts, secrets, cacheVars, passwords, worldVars>>

\* rotatePassword, registry changed: an error is overwritten by the next call.
DeleteOldAccounts(c) ==
  /\ w[c].pc = "deleteOldAccounts"
  /\ \E o \in Outcome : deleteOrphanAccounts(c, w[c].instance.statusRegistry, o)
  /\ Goto(c, "updateRotation")
  /\ UNCHANGED <<cr, secrets, cacheVars, queue, timer, passwords, worldVars>>

\* Fault: the status does not remember the registry.
RotatedUnplaced(i, ns) == [i EXCEPT !.rotation = i.rotation + 1]

\* The status rotatePassword writes before account and secret.
Rotated(i, ns) == [i EXCEPT !.rotation = i.rotation + 1, !.statusRegistry = ns]

\* Fault: the error of the status update is dropped.
RotationStoredAssumed(o) == TRUE

\* rotatePassword goes on only if the status has been written ...
RotationStored(o) == o = "ok"

UpdateRotation(c) ==
  LET i == Rotated(w[c].instance, w[c].registry) IN
  /\ w[c].pc = "updateRotation"
  /\ \E o \in Outcome :
       /\ UpdateCR(c, i, o)
       /\ w' = [w EXCEPT ![c] =
            IF RotationStored(o)
            THEN [@ EXCEPT !.pc = "createAccount", !.base = i, !.instance = i]
            ELSE [@ EXCEPT !.pc = "report", !.instance = i, !.requeueAfter = FALSE,
                           !.cond = ErrorCond(o, "conflict")]]
  /\ UNCHANGED <<accounts, secrets, cacheVars, queue, timer, passwords, worldVars>>

\* Fault: the registryRef is used without the default.
NewAccountUnresolved(c) ==
  [registry |-> w[c].instance.registryRef, cr |-> c, rotation |-> w[c].instance.rotation,
   password |-> passwords + 1, creator |-> w[c].instance.uid]

\* The password was generated when rotatePassword began; nothing has used it
\* before this call.
NewAccount(c) ==
  [registry |-> w[c].registry, cr |-> c, rotation |-> w[c].instance.rotation,
   password |-> passwords + 1, creator |-> w[c].instance.uid]

NameTaken(x) == \E a \in accounts : /\ a.registry = x.registry /\ a.cr = x.cr
                                    /\ a.rotation = x.rotation

\* Fault: the error of the creation is dropped.
AccountCreatedAssumed(o) == TRUE

\* ... and then only if the account has been created, not if it existed.
AccountCreated(o) == o = "ok"

CreateAccount(c) ==
  /\ w[c].pc = "createAccount"
  /\ \E o \in Outcome :
       /\ Respond(o, ~NameTaken(NewAccount(c)))
       /\ accounts' = IF Applied(o) THEN accounts \cup {NewAccount(c)} ELSE accounts
       /\ w' = [w EXCEPT ![c] =
            IF AccountCreated(o)
            THEN [@ EXCEPT !.pc = "writeSecret", !.password = passwords + 1]
            ELSE [@ EXCEPT !.pc = "report", !.requeueAfter = FALSE,
                           !.cond = ErrorCond(o, "accountExists")]]
  /\ passwords' = passwords + 1
  /\ UNCHANGED <<cr, secrets, cacheVars, queue, timer, worldVars>>

\* Fault: an existing Secret keeps its password.
NewSecretPatched(c) ==
  [owner |-> w[c].instance.uid, annotation |-> w[c].instance.rotation,
   registry |-> w[c].registry, rotation |-> w[c].instance.rotation, ca |-> w[c].ca,
   password |-> IF w[c].secret = NoSecret THEN w[c].password ELSE w[c].secret.password]

NewSecret(c) ==
  [owner |-> w[c].instance.uid, annotation |-> w[c].instance.rotation,
   registry |-> w[c].registry, rotation |-> w[c].instance.rotation,
   ca |-> w[c].ca, password |-> w[c].password]

\* Create if the cache showed no Secret, otherwise update what it showed.
\* The owner reference to an earlier CR of the same name is replaced.
WriteSecret(c) ==
  /\ w[c].pc = "writeSecret"
  /\ \E o \in Outcome :
       /\ Respond(o, secrets[c] = w[c].secret)
       /\ secrets' = IF Applied(o) THEN [secrets EXCEPT ![c] = NewSecret(c)] ELSE secrets
       /\ IF o = "ok"
          THEN GotoReport(c, "True", w[c].requeueAfter)
          ELSE GotoReport(c, ErrorCond(o, IF w[c].secret = NoSecret
                                THEN "secretExists" ELSE "secretConflict"), FALSE)
  /\ UNCHANGED <<cr, accounts, cacheVars, queue, timer, passwords, worldVars>>

\* setSyncStatus(Ready) ends Reconcile; after a failed rotation its result
\* replaces the rotation's error.
Report(c) ==
  /\ w[c].pc = "report"
  /\ \E o \in Outcome :
       /\ setReady(c, w[c].cond, o)
       /\ Return(c, Failed(o), ~Failed(o) /\ w[c].requeueAfter)
  /\ UNCHANGED <<accounts, secrets, cacheVars, passwords, worldVars>>

APICall(c) ==
  \/ DeleteAccounts(c) \/ RemoveFinalizer(c) \/ AddFinalizer(c)
  \/ ReportUnsynced(c) \/ DeleteOldAccounts(c) \/ UpdateRotation(c)
  \/ CreateAccount(c) \/ WriteSecret(c) \/ Report(c)

-----------------------------------------------------------------------------
(* Events: an informer catches up with the API server and enqueues a       *)
(* request for the CR itself, the owner of the Secret or the CR that the   *)
(* account's label names.  Registries and their TLS Secrets are not        *)
(* watched.                                                                *)

WatchCR(c) ==
  /\ crCache[c] # cr[c]
  /\ crCache' = [crCache EXCEPT ![c] = cr[c]]
  /\ queue' = queue \cup {c}
  /\ UNCHANGED <<cr, accounts, secrets, accountCache, secretCache, timer, w, passwords, worldVars, faults>>

\* Fault: accounts are not watched.
RequestsForNone(A) == {}

\* LabelToRequest: the CRs the labels of the changed accounts name.  A label
\* "name.namespace" is split at its first dot: for a name with a dot in it the
\* request is for a CR in a namespace that cannot exist, and nothing comes of it.
RequestsFor(A) == {c \in CR \ Dotted : \E a \in A : a.cr = c}

WatchAccounts ==
  /\ accountCache # accounts
  /\ accountCache' = accounts
  /\ queue' = queue \cup RequestsFor((accounts \ accountCache) \cup
                                    (accountCache \ accounts))
  /\ UNCHANGED <<cr, accounts, secrets, crCache, secretCache, timer, w, passwords, worldVars, faults>>

WatchSecret(c) ==
  /\ secretCache[c] # secrets[c]
  /\ secretCache' = [secretCache EXCEPT ![c] = secrets[c]]
  /\ queue' = queue \cup {c}
  /\ UNCHANGED <<cr, accounts, secrets, crCache, accountCache, timer, w, passwords, worldVars, faults>>

RequeueAfter(c) ==
  /\ c \in timer
  /\ timer' = timer \ {c}
  /\ queue' = queue \cup {c}
  /\ UNCHANGED <<cr, accounts, secrets, cacheVars, w, passwords, worldVars, faults>>

\* The operator dies; its successor lists everything and starts from there.
Crash ==
  /\ faults < MaxFaults
  /\ faults' = faults + 1
  /\ w' = [c \in CR |-> Idle]
  /\ crCache' = cr /\ accountCache' = accounts /\ secretCache' = secrets
  /\ queue' = {c \in CR : cr[c].uid # 0}
  /\ timer' = {}
  /\ UNCHANGED <<cr, accounts, secrets, passwords, worldVars>>

-----------------------------------------------------------------------------
(* The environment: users, garbage collector, account and registry         *)
(* controllers.                                                            *)

ChangeKind == {"deleteCR", "registryRef", "secret", "age", "registry"}

Change(kind) == kind \in Changes /\ edits < MaxEdits /\ edits' = edits + 1

\* A user creates a CR; its status is empty, rotation starts at 0 again.
CreateCR(c, r) ==
  /\ cr[c].uid = 0 /\ uids < MaxUID
  /\ uids' = uids + 1
  /\ cr' = [cr EXCEPT ![c] = [NoCR EXCEPT !.uid = uids + 1, !.generation = 1,
                                          !.registryRef = r]]
  /\ UNCHANGED <<accounts, secrets, cacheVars, operatorVars, registry, due, edits, faults>>

\* A user deletes a CR: it stays, marked, as long as it has a finalizer.
DeleteCR(c) ==
  /\ cr[c].uid # 0 /\ ~cr[c].deleting
  /\ Change("deleteCR")
  /\ cr' = [cr EXCEPT ![c] = IF cr[c].finalizer THEN [cr[c] EXCEPT !.deleting = TRUE]
                             ELSE NoCR]
  /\ UNCHANGED <<accounts, secrets, cacheVars, operatorVars, registry, due, uids, faults>>

\* A user points a CR to another registry.
SetRegistryRef(c, r) ==
  /\ cr[c].uid # 0 /\ cr[c].registryRef # r
  /\ Change("registryRef")
  /\ cr' = [cr EXCEPT ![c] = [cr[c] EXCEPT !.registryRef = r,
                                           !.generation = cr[c].generation + 1]]
  /\ UNCHANGED <<accounts, secrets, cacheVars, operatorVars, registry, due, uids, faults>>

\* The Secret with other credentials (username, password, docker config: no
\* account's), and without any data.
Tampered(s) == [s EXCEPT !.password = 0]

Cleared(s) == [s EXCEPT !.registry = NoRegistry, !.rotation = 0, !.ca = 0, !.password = 0]

\* A user deletes the Secret, replaces its annotations or changes its data.
EditSecret(c) ==
  /\ secrets[c].owner # 0
  /\ Change("secret")
  /\ \E s \in {NoSecret, [secrets[c] EXCEPT !.annotation = 0],
               Tampered(secrets[c]), Cleared(secrets[c])} :
       s # secrets[c] /\ secrets' = [secrets EXCEPT ![c] = s]
  /\ UNCHANGED <<cr, accounts, cacheVars, operatorVars, registry, due, uids, faults>>

\* The garbage collector deletes a Secret whose owner is gone.
CollectGarbage(c) ==
  /\ secrets[c].owner # 0 /\ secrets[c].owner # cr[c].uid
  /\ secrets' = [secrets EXCEPT ![c] = NoSecret]
  /\ UNCHANGED <<cr, accounts, cacheVars, operatorVars, worldVars, faults>>

\* An account gets older than rotationInterval, half of its TTL ...
PassRotationInterval(a) ==
  /\ a.cr # Manual /\ a.password \notin due
  /\ Change("age")
  /\ due' = due \cup {a.password}
  /\ UNCHANGED <<cr, accounts, secrets, cacheVars, operatorVars, registry, uids, faults>>

\* ... and then older than its TTL: the account controller deletes it.
ExpireAccount(a) ==
  /\ a.password \in due
  /\ accounts' = accounts \ {a}
  /\ UNCHANGED <<cr, secrets, cacheVars, operatorVars, worldVars, faults>>

\* A registry becomes ready or unready, or gets a new CA.
ChangeRegistry(r) ==
  /\ Change("registry")
  /\ \/ registry' = [registry EXCEPT ![r].ready = ~@]
     \/ registry' = [registry EXCEPT ![r].ca = @ + 1]
  /\ UNCHANGED <<cr, accounts, secrets, cacheVars, operatorVars, due, uids, faults>>

Environment ==
  \/ \E c \in CR : \/ DeleteCR(c) \/ EditSecret(c) \/ CollectGarbage(c)
                   \/ \E r \in RegistryRefs :
                        CreateCR(c, r) \/ SetRegistryRef(c, r)
  \/ \E a \in accounts : PassRotationInterval(a) \/ ExpireAccount(a)
  \/ \E r \in Registry : ChangeRegistry(r)

Operator ==
  \/ \E c \in CR : \/ Reconcile(c) \/ APICall(c)
                   \/ WatchCR(c) \/ WatchSecret(c) \/ RequeueAfter(c)
  \/ WatchAccounts

Next == Operator \/ Crash \/ Environment

Spec == Init /\ [][Next]_vars

\* The work queues hand out requests in order, so none waits for ever; every
\* call returns; informers catch up; delays end; the garbage collector runs.
\* Users, registries and time promise nothing.
Fairness ==
  /\ \A c \in CR : /\ SF_vars(Reconcile(c)) /\ WF_vars(APICall(c))
                   /\ WF_vars(WatchCR(c)) /\ WF_vars(WatchSecret(c))
                   /\ WF_vars(RequeueAfter(c)) /\ WF_vars(CollectGarbage(c))
  /\ WF_vars(WatchAccounts)

FairSpec == Spec /\ Fairness

-----------------------------------------------------------------------------
(* Properties.                                                             *)

\* Types, among them: whatever is read, defaulted and copied on the way, every
\* account lives in the namespace of a registry and every stored condition is
\* one the reconciler reports.
TypeOK ==
  /\ cr \in [CR -> CRObject] /\ crCache \in [CR -> CRObject]
  /\ accounts \subseteq Account /\ accountCache \subseteq Account
  /\ secrets \in [CR -> SecretObject] /\ secretCache \in [CR -> SecretObject]
  /\ registry \in [Registry -> [ready: BOOLEAN, ca: Nat]]
  /\ queue \subseteq CR /\ timer \subseteq CR
  /\ w \in [CR -> Worker]
  /\ due \subseteq Nat
  /\ passwords \in Nat /\ uids \in Nat /\ faults \in Nat /\ edits \in Nat

\* Nobody has changed the credentials in the Secret.
Intact(c) == secrets[c].password # 0

\* A Secret owned by the present CR never holds a wrong password for the
\* account it names, unless a user has changed it: whatever failed or was
\* repeated while it was written and whatever accounts are left over from earlier
\* CRs of the same name.
CredentialsMatch ==
  \A c \in CR : cr[c].uid # 0 /\ secrets[c].owner = cr[c].uid /\ Intact(c) =>
    \A a \in accounts :
      a.registry = secrets[c].registry /\ a.cr = c /\ a.rotation = secrets[c].rotation
        => a.password = secrets[c].password

\* No account of the present CR has a rotation that its status does not
\* record yet: a later Reconcile never picks the name of an existing account
\* of its own (rotatePassword: "This must happen before account and secret
\* are written to avoid replacing an existing account").
RotationRecordedFirst ==
  \A a \in accounts : a.cr \in CR /\ cr[a.cr].uid # 0 /\ a.creator = cr[a.cr].uid
    => a.rotation <= cr[a.cr].rotation

\* The account a Secret of CR c names, with the password the Secret holds.
Usable(c) ==
  \E a \in accounts : /\ a.registry = secrets[c].registry /\ a.cr = c
                      /\ a.rotation = secrets[c].rotation
                      /\ a.password = secrets[c].password

\* The operator has nothing left to do for c.
Settled(c) ==
  /\ w[c].pc = "idle" /\ c \notin queue
  /\ crCache[c] = cr[c] /\ secretCache[c] = secrets[c] /\ accountCache = accounts

\* When the operator is done with a CR that is Ready and no Secret of an
\* earlier CR awaits garbage collection, the CR's Secret is there and is for the
\* registry the CR refers to; it names an existing account and has its password;
\* and the CR comes back by itself.  Accounts that other finalizers, users or the
\* TTL delete are noticed, and so are Secrets that are deleted, emptied or lose
\* their annotation.  There are two exceptions: changed credentials stay, as
\* Reconcile compares registry, CA and annotation only, and if a CR has a dot in
\* its name the loss of its account is noticed no earlier than it comes back.
SettledIsUsable ==
  \A c \in CR :
    /\ Settled(c) /\ cr[c].uid # 0 /\ ~cr[c].deleting /\ cr[c].ready = "True"
    /\ secrets[c].owner \in {0, cr[c].uid}
    => /\ secrets[c].owner # 0 /\ secrets[c].registry = getRegistryKeyForCR(cr[c])
       /\ c \in timer
       /\ Intact(c) /\ c \notin Dotted => Usable(c)

\* A CR vanishes only when the account of its current rotation and all of its
\* accounts in the namespace its status names, the only one the finalizer
\* looks at, are gone: no account was ever created behind the status' back.
FinalizedWithoutAccounts ==
  [][\A c \in CR : cr[c].uid # 0 /\ cr'[c].uid = 0 =>
       ~\E a \in accounts : /\ a.cr = c /\ a.creator = cr[c].uid
                            /\ \/ a.rotation = cr[c].rotation
                               \/ a.registry = cr[c].statusRegistry]_vars

\* The operator is expected to converge for c: the CR stays, its registry is
\* ready and the bound on rotations is not reached.
Stable(c) ==
  /\ cr[c].uid # 0 /\ ~cr[c].deleting /\ cr[c].rotation < MaxRotation
  /\ registry[getRegistryKeyForCR(cr[c])].ready

\* If the registry of a CR stays ready and users stop changing things, the
\* CR gets Ready, its Secret usable (unless its credentials stay changed) and the
\* CA in it the registry's, and this stays so.  Neither a registry's new CA nor a
\* lost account of a CR with a dot in its name leads to a request: they are found
\* by the delay that the last Reconcile has asked for.
Converges ==
  \A c \in CR : <>[]Stable(c) =>
    <>[](/\ cr[c].ready = "True" /\ (Intact(c) => Usable(c))
         /\ secrets[c].ca = registry[getRegistryKeyForCR(cr[c])].ca)

\* Every deletion of a CR is completed: its finalizer is removed in the end.
DeletionCompletes ==
  \A c \in CR : \A u \in 1..MaxUID :
    (cr[c].uid = u /\ cr[c].deleting) ~> cr[c].uid # u

\* "finalize: Delete associated ImageRegistryAccounts": deleting a CR takes
\* away accounts of this CR only.
FinalizerDeletesOwnAccounts ==
  [][\A c \in CR : w[c].pc = "deleteAccounts" /\ w'[c] # w[c] =>
       \A a \in accounts \ accounts' : a.cr = c]_vars
=============================================================================
