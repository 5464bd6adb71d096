---------------------------- MODULE ImageRegistry ----------------------------
(***************************************************************************)
(* The ImageRegistry controller (pkg/controller/imageregistry).            *)
(*                                                                         *)
(* For an ImageRegistry it keeps two certificates, a ServiceAccount with   *)
(* its Role and RoleBinding, a Service, a StatefulSet and a volume claim,  *)
(* one task after the other, and reports in the status how far it got and  *)
(* whether the pods are rolled out.  There is no finalizer: what belongs   *)
(* to a deleted registry is left to the garbage collector, and the claim   *)
(* belongs to the registry only if its spec says so.                       *)
(*                                                                         *)
(* The module is about one name, used by one registry after the other.     *)
(* The controller has one worker; a step reads the informer caches and     *)
(* makes at most one call of the API server.                               *)
(***************************************************************************)
EXTENDS Integers, Sequences

CONSTANTS
  Tasks,      \* the tasks of newReconciler that an instance has
  Specs,      \* the specs users write
  Class,      \* names of storage classes
  Unset,      \* no storage class given
  Foreign,    \* what objects have in fields that the operator did not set
  Config,     \* DNS zone and images that the operator is started with
  Changes,    \* kinds of change that users and nodes make
  MaxUID,     \* bound: registries created altogether
  MaxFaults,  \* bound: failed API calls and operator crashes
  MaxEdits    \* bound: changes

\* The list of newReconciler.
AllTasks == <<"token", "tls", "serviceAccount", "role", "roleBinding", "service",
              "statefulSet", "claim">>

Position(t) == CHOOSE i \in DOMAIN AllTasks : AllTasks[i] = t

\* A certificate comes from an issuer of cert-manager, from a Secret that the
\* user names, or, if neither is given, from the operator.
CertSpec == [issuer: BOOLEAN, secret: BOOLEAN]

ASSUME RegistryAssumption ==
  /\ Tasks \in Seq({AllTasks[i] : i \in DOMAIN AllTasks})
  /\ \A i, j \in DOMAIN Tasks : i < j => Position(Tasks[i]) < Position(Tasks[j])
  /\ \E i \in DOMAIN Tasks : Tasks[i] = "statefulSet"
  /\ Specs # {}
  /\ Specs \subseteq [replicas: Nat, tls: CertSpec, ca: CertSpec,
                      class: Class \cup {Unset}, deleteClaim: BOOLEAN]
  /\ Unset \notin Class /\ Foreign \notin Class \cup Config \cup {Unset}
  /\ MaxUID \in Nat /\ MaxFaults \in Nat /\ MaxEdits \in Nat

VARIABLES
  cr,         \* the API server's ImageRegistry
  obj,        \* the API server's other objects, by kind
  crCache, cache,   \* the operator's informer caches
  stale,      \* kinds with versions that the cache has not seen
  notify,     \* those of them with a version that names the registry
  queue,      \* whether the registry's name is in the work queue
  w,          \* Reconcile's local variables
  config,     \* the operator's DNS zone and images
  rolled,     \* history: UID and generation of registries rolled out so far
  uids, faults, edits

storeVars == <<cr, obj, stale, notify>>
cacheVars == <<crCache, cache>>
countVars == <<uids, faults, edits>>
vars == <<cr, obj, crCache, cache, stale, notify, queue, w, config, rolled, uids,
          faults, edits>>

-----------------------------------------------------------------------------
(* Objects.                                                                *)

CertKind == {"caSecret", "caCert", "tlsSecret", "tlsCert"}
Kind == CertKind \cup {"serviceAccount", "role", "roleBinding", "service",
                       "statefulSet", "claim"}

\* The object that a task keeps; a certificate the user provides needs none.
CertTarget(cert, crKind, secretKind) ==
  IF cert.issuer THEN crKind ELSE IF cert.secret THEN "none" ELSE secretKind

Target(t, spec) ==
  CASE t = "token" -> CertTarget(spec.ca, "caCert", "caSecret")
    [] t = "tls" -> CertTarget(spec.tls, "tlsCert", "tlsSecret")
    [] OTHER -> t

\* The kinds that the tasks deal with.
Handled == {k \in Kind : \E i \in DOMAIN Tasks, spec \in Specs : k = Target(Tasks[i], spec)}

\* tlsSecretNameForCR, authCASecretNameForCR
SecretName(cert) == IF cert.secret THEN "given" ELSE IF cert.issuer THEN "cm" ELSE "selfsigned"

NameSet == {"none", "given", "cm", "selfsigned"}
NoNames == [tls |-> "none", ca |-> "none"]

\* Ready: its status and reason; while pods are updated the message says how
\* many are.  Synced: True or the error, with the object it is about.
ReadyCond == {"none", "True", "FailedSync", "Updating"} \X Nat
Error == {"none", "True", "owned", "unmanaged", "refused", "outage", "noCA"} \X (Kind \cup {"none"})

NoReady == <<"none", 0>>
Ready == <<"True", 0>>
FailedSync == <<"FailedSync", 0>>
NoError == <<"none", "none">>
Synced == <<"True", "none">>

Spec0 == [replicas |-> 0, tls |-> [issuer |-> FALSE, secret |-> FALSE],
          ca |-> [issuer |-> FALSE, secret |-> FALSE], class |-> Unset,
          deleteClaim |-> FALSE]

\* ImageRegistry; UID 0 stands for none.  host stands for status.hostname.
NoCR == [uid |-> 0, generation |-> 0, spec |-> Spec0, observed |-> 0,
         ready |-> NoReady, synced |-> NoError, host |-> Unset, tlsName |-> "none"]

CRObject == [uid: Nat, generation: Nat, spec: Specs \cup {Spec0}, observed: Nat,
             ready: ReadyCond, synced: Error, host: Config \cup {Unset}, tlsName: NameSet]

\* Everything else: the UID of the controller (0: none, Other: of another
\* kind), whether it has the operator's labels and, on a claim, its annotation,
\* the part of the spec that cannot be changed and the part that can, the
\* registry's generation in a StatefulSet's annotation, and a StatefulSet's
\* generation and status.
Other == -1

Data == [replicas: Nat, names: [tls: NameSet, ca: NameSet], config: Config \cup {Unset, Foreign}]

NoData == [replicas |-> 0, names |-> NoNames, config |-> Unset]

Absent == [exists |-> FALSE, owner |-> 0, managed |-> FALSE, fixed |-> Unset,
           data |-> NoData, annotation |-> 0, generation |-> 0, observed |-> 0,
           updated |-> 0, ready |-> 0]

Object == [exists: BOOLEAN, owner: Nat \cup {Other}, managed: BOOLEAN,
           fixed: Class \cup {Unset, Foreign}, data: Data, annotation: Nat,
           generation: Nat, observed: Nat, updated: Nat, ready: Nat]

\* Kinds with a part that cannot be changed: roleRef, the selector of the
\* pods, the storage class.  (The access modes of a claim are like a storage
\* class that is given.)
Immutable == {"roleBinding", "statefulSet", "claim"}

\* Reconcile's local state: the next task, the registry as read, the Ready
\* condition set by a task and the error that ended the tasks.
Idle == [pc |-> "idle", task |-> 0, base |-> NoCR, ready |-> NoReady, error |-> NoError]

Worker == [pc: {"idle", "task", "report"}, task: 0..Len(Tasks), base: CRObject,
           ready: ReadyCond, error: Error]

Init ==
  /\ cr = NoCR /\ crCache = NoCR
  /\ obj = [k \in Handled |-> Absent] /\ cache = obj
  /\ stale = {} /\ notify = {}
  /\ queue = FALSE /\ w = Idle
  /\ config \in Config
  /\ rolled = {} /\ uids = 0 /\ faults = 0 /\ edits = 0

-----------------------------------------------------------------------------
(* API calls.  A call succeeds, is refused (a stale resource version, a    *)
(* name that is taken, an object that is gone, a field that cannot be      *)
(* changed), is lost on the way or, although applied, reported as failed.  *)
Outcome == {"ok", "refused", "lost", "timeout"}

Applied(o) == o \in {"ok", "timeout"}

Failed(o) == o # "ok"

Reason(o) == IF o = "refused" THEN "refused" ELSE "outage"

Respond(o, valid) ==
  /\ IF valid THEN o # "refused" ELSE o \in {"refused", "lost"}
  /\ faults' = IF o \in {"lost", "timeout"} THEN faults + 1 ELSE faults
  /\ faults' <= MaxFaults

\* A StatefulSet is rolled out when its controller has seen the present spec
\* and all pods are updated and ready.
RolledOut(x, replicas) ==
  x.observed = x.generation /\ x.updated = replicas /\ x.ready = replicas

\* The watch that leads from an object to the registry: by the controller
\* reference or, for a claim, by annotation.  Certificates are not watched.
WatchedKinds == Kind \ {"caCert", "tlsCert"}

\* Fault: StatefulSets are not watched.
RequestFromNoStatefulSet(k, x) == k # "statefulSet" /\ x.owner > 0

RequestFrom(k, x) ==
  /\ k \in WatchedKinds
  /\ IF k = "claim" THEN x.managed ELSE x.owner > 0

\* Any change of an object.
SetObject(k, x) ==
  /\ obj' = [obj EXCEPT ![k] = x]
  /\ stale' = stale \cup {k}
  /\ notify' = IF RequestFrom(k, obj[k]) \/ RequestFrom(k, x) THEN notify \cup {k} ELSE notify
  /\ rolled' = IF k = "statefulSet" /\ x.exists /\ RolledOut(x, x.data.replicas)
               THEN rolled \cup {<<x.owner, x.annotation>>} ELSE rolled

\* The generation of an object counts the changes of its spec.
NextGeneration(k, x, old) ==
  IF k = "statefulSet" /\ x.data # old.data THEN old.generation + 1 ELSE old.generation

-----------------------------------------------------------------------------
(* The tasks.                                                              *)

\* What depends on the registry's spec and on the operator's configuration:
\* hostname and images in the StatefulSet, DNS names in the server certificate,
\* the annotation of the Service, the names of Secrets.
Desired(k, spec) ==
  [replicas |-> IF k = "statefulSet" THEN spec.replicas ELSE 0,
   names |-> [tls |-> IF k \in {"statefulSet", "tlsCert"} THEN SecretName(spec.tls) ELSE "none",
              ca |-> IF k \in {"statefulSet", "caCert"} THEN SecretName(spec.ca) ELSE "none"],
   config |-> IF k \in {"statefulSet", "service", "tlsSecret", "tlsCert"} THEN config ELSE Unset]

\* A storage class that is not given is left as it is.
DesiredFixed(k, spec, old) ==
  IF k # "claim" THEN Unset ELSE IF spec.class = Unset THEN old.fixed ELSE spec.class

\* Fault: the claim always gets an owner.
OwnerAlways(k, i) == i.uid

\* Fault: only the claim gets an owner.
OwnerOfClaim(k, i) == IF k = "claim" /\ i.spec.deleteClaim THEN i.uid ELSE 0

\* A claim that is to be kept has none.
Owner(k, i) == IF k = "claim" /\ ~i.spec.deleteClaim THEN 0 ELSE i.uid

\* The object as the task wants it, for the registry i and the cached object.
Modify(k, i, old) ==
  [old EXCEPT !.exists = TRUE, !.managed = TRUE, !.owner = Owner(k, i),
              !.fixed = DesiredFixed(k, i.spec, old),
              !.data = Desired(k, i.spec),
              !.annotation = IF k = "statefulSet" THEN i.generation ELSE 0]

\* Errors without a call: SetControllerReference does not replace another
\* controller (the reference to an earlier registry of this name it does
\* replace), and renewCertSecret does not touch Secrets without its label.
Refusal(k, i, old) ==
  IF old.owner = Other /\ Owner(k, i) # 0 THEN "owned"
  ELSE IF k \in {"caSecret", "tlsSecret"} /\ old.exists /\ ~old.managed THEN "unmanaged"
  ELSE "none"

\* CreateOrUpdate: create the object if the cache has none, write it if it
\* differs from what the cache has.  A StatefulSet may differ, and the call fail,
\* in any case: it is sent without the values that the API server fills in.
CreateOrUpdate(k, x, o) ==
  LET old == cache[k]
      valid == IF old.exists THEN k \notin stale /\ (k \in Immutable => x.fixed = old.fixed)
                             ELSE ~obj[k].exists
  IN
  IF x = old
  THEN /\ \/ o = "ok" /\ UNCHANGED faults
          \/ k = "statefulSet" /\ Respond(o, k \notin stale)
       /\ UNCHANGED <<obj, stale, notify, rolled>>
  ELSE /\ Respond(o, valid)
       /\ IF Applied(o)
          THEN SetObject(k, [x EXCEPT !.generation = NextGeneration(k, x, old)])
          ELSE UNCHANGED <<obj, stale, notify, rolled>>

\* Fault: the generation that the StatefulSet was written for is not compared.
UpToDateObserved(x, i) == x.observed = x.generation

\* The StatefulSet was written for this generation of the registry, and its
\* controller has seen it.
UpToDate(x, i) == x.observed = x.generation /\ x.annotation = i.generation

\* The Ready condition, of the StatefulSet as it was read.
readyCondition(x, i) ==
  IF UpToDate(x, i) /\ x.updated = i.spec.replicas /\ x.ready = i.spec.replicas THEN Ready
  ELSE <<"Updating", IF x.observed = x.generation THEN x.updated ELSE 0>>

\* Fault: the loop runs past the last task.
NextTaskBeyond(x) == [x EXCEPT !.task = @ + 1]

\* The loop over the tasks goes on or ends.
NextTask(x) == IF x.task = Len(Tasks) THEN [x EXCEPT !.pc = "report"]
                                      ELSE [x EXCEPT !.task = @ + 1]

EndTasks(x, reason, k) == [x EXCEPT !.pc = "report", !.error = <<reason, k>>]

InTask(k) == w.pc = "task" /\ k = Target(Tasks[w.task], w.base.spec)

SkipTask ==
  /\ InTask("none")
  /\ w' = NextTask(w)
  /\ UNCHANGED <<storeVars, cacheVars, queue, config, rolled, countVars>>

\* RootCACert: the operator's CA, which signs server certificates, is missing.
NoRootCA ==
  /\ InTask("tlsSecret")
  /\ faults < MaxFaults /\ faults' = faults + 1
  /\ w' = EndTasks(w, "noCA", "tlsSecret")
  /\ UNCHANGED <<storeVars, cacheVars, queue, config, rolled, uids, edits>>

RefuseTask(k) ==
  /\ InTask(k) /\ Refusal(k, w.base, cache[k]) # "none"
  /\ w' = EndTasks(w, Refusal(k, w.base, cache[k]), k)
  /\ UNCHANGED <<storeVars, cacheVars, queue, config, rolled, countVars>>

\* upsert, renewCertSecret
Upsert(k) ==
  /\ InTask(k) /\ Refusal(k, w.base, cache[k]) = "none"
  /\ \E o \in Outcome :
       /\ CreateOrUpdate(k, Modify(k, w.base, cache[k]), o)
       /\ LET x == [w EXCEPT !.ready = IF k = "statefulSet" THEN readyCondition(cache[k], w.base)
                                                          ELSE @]
          IN w' = IF Failed(o) THEN EndTasks(x, Reason(o), k) ELSE NextTask(x)
  /\ UNCHANGED <<cr, cacheVars, queue, config, uids, edits>>

-----------------------------------------------------------------------------
(* Reconcile                                                               *)

Dequeue == queue /\ w.pc = "idle" /\ queue' = FALSE

ReconcileNotFound ==
  /\ Dequeue /\ crCache.uid = 0
  /\ UNCHANGED <<storeVars, cacheVars, w, config, rolled, countVars>>

Reconcile ==
  /\ Dequeue /\ crCache.uid # 0
  /\ w' = [Idle EXCEPT !.pc = "task", !.task = 1, !.base = crCache]
  /\ UNCHANGED <<storeVars, cacheVars, config, rolled, countVars>>

\* The status to report: after an error Synced is False and so is Ready.
NewStatus(i) ==
  LET failed == w.error # NoError IN
  [i EXCEPT !.ready = IF failed THEN FailedSync ELSE w.ready,
            !.synced = IF failed THEN w.error ELSE Synced,
            !.observed = i.generation, !.host = config, !.tlsName = SecretName(i.spec.tls)]

\* Fault: the result of the status update replaces the error of a task.
RequeueOnStatusError(o) == Failed(o)

\* The error of the task or, without one, that of the status update.
Requeue(o) == w.error # NoError \/ Failed(o)

\* The status is written if it changes.
Report ==
  /\ w.pc = "report"
  /\ \E o \in Outcome :
       /\ IF NewStatus(w.base) = w.base THEN o = "ok" /\ UNCHANGED <<cr, faults>>
          ELSE /\ Respond(o, cr = w.base)
               /\ cr' = IF Applied(o) THEN NewStatus(w.base) ELSE cr
       /\ queue' = (queue \/ Requeue(o))
  /\ w' = Idle
  /\ UNCHANGED <<obj, stale, notify, cacheVars, config, rolled, uids, edits>>

-----------------------------------------------------------------------------
(* Events and crashes.                                                     *)

WatchCR ==
  /\ crCache # cr
  /\ crCache' = cr /\ queue' = TRUE
  /\ UNCHANGED <<storeVars, cache, w, config, rolled, countVars>>

Watch(k) ==
  /\ k \in stale
  /\ cache' = [cache EXCEPT ![k] = obj[k]]
  /\ stale' = stale \ {k} /\ notify' = notify \ {k}
  /\ queue' = (queue \/ k \in notify)
  /\ UNCHANGED <<cr, obj, crCache, w, config, rolled, countVars>>

\* The operator dies; its successor, of the same or another version, lists
\* everything and starts from there.
Crash ==
  /\ faults < MaxFaults /\ faults' = faults + 1
  /\ config' \in Config
  /\ w' = Idle
  /\ crCache' = cr /\ cache' = obj /\ stale' = {} /\ notify' = {}
  /\ queue' = (cr.uid # 0)
  /\ UNCHANGED <<cr, obj, rolled, uids, edits>>

Operator ==
  \/ ReconcileNotFound \/ Reconcile \/ SkipTask \/ NoRootCA \/ Report \/ WatchCR
  \/ \E k \in Handled : RefuseTask(k) \/ Upsert(k) \/ Watch(k)

-----------------------------------------------------------------------------
(* Users, nodes, the StatefulSet controller and the garbage collector.     *)

ChangeKind == {"spec", "delete", "edit", "deleteObject", "foreign", "pods"}

Change(kind) == kind \in Changes /\ edits < MaxEdits /\ edits' = edits + 1

outsideVars == <<cacheVars, queue, w, config, faults>>

CreateCR(spec) ==
  /\ cr.uid = 0 /\ uids < MaxUID
  /\ uids' = uids + 1
  /\ cr' = [NoCR EXCEPT !.uid = uids + 1, !.generation = 1, !.spec = spec]
  /\ UNCHANGED <<obj, stale, notify, rolled, edits, outsideVars>>

DeleteCR ==
  /\ cr.uid # 0
  /\ Change("delete")
  /\ cr' = NoCR
  /\ UNCHANGED <<obj, stale, notify, rolled, uids, outsideVars>>

EditSpec(spec) ==
  /\ cr.uid # 0 /\ cr.spec # spec
  /\ Change("spec")
  /\ cr' = [cr EXCEPT !.spec = spec, !.generation = @ + 1]
  /\ UNCHANGED <<obj, stale, notify, rolled, uids, outsideVars>>

\* A user changes an object ...
EditObject(k) ==
  /\ obj[k].exists /\ obj[k].data.config # Foreign
  /\ Change("edit")
  /\ LET x == [obj[k] EXCEPT !.data.config = Foreign] IN
     SetObject(k, [x EXCEPT !.generation = NextGeneration(k, x, obj[k])])
  /\ UNCHANGED <<cr, uids, outsideVars>>

\* ... deletes it ...
DeleteObject(k) ==
  /\ obj[k].exists
  /\ Change("deleteObject")
  /\ SetObject(k, Absent)
  /\ UNCHANGED <<cr, uids, outsideVars>>

\* ... or creates one of that name, which another controller may own and
\* which the operator may or may not be able to turn into what it needs.
CreateForeign(k) ==
  /\ ~obj[k].exists
  /\ Change("foreign")
  /\ \E owner \in {0, Other}, fixed \in IF k \in Immutable THEN {Unset, Foreign} ELSE {Unset} :
       SetObject(k, [Absent EXCEPT !.exists = TRUE, !.owner = owner, !.fixed = fixed,
                                   !.data.config = Foreign,
                                   !.generation = IF k = "statefulSet" THEN 1 ELSE 0])
  /\ UNCHANGED <<cr, uids, outsideVars>>

ChangeStatefulSet(x) ==
  /\ SetObject("statefulSet", x)
  /\ UNCHANGED <<cr, uids, outsideVars>>

\* The StatefulSet controller takes notice of a new spec: no pod has it ...
Observe ==
  LET x == obj["statefulSet"] IN
  /\ x.exists /\ x.observed # x.generation
  /\ ChangeStatefulSet([x EXCEPT !.observed = x.generation, !.updated = 0])
  /\ UNCHANGED edits

\* ... and replaces the pods, which start when their volumes exist.
Mountable(k) == k \in Handled => obj[k].exists

Volumes(x) == {"claim"} \cup
  {k \in CertKind : \/ k = "tlsSecret" /\ x.data.names.tls = "selfsigned"
                    \/ k = "tlsCert" /\ x.data.names.tls = "cm"
                    \/ k = "caSecret" /\ x.data.names.ca = "selfsigned"
                    \/ k = "caCert" /\ x.data.names.ca = "cm"}

RollOut ==
  LET x == obj["statefulSet"] IN
  /\ x.exists /\ x.observed = x.generation /\ ~RolledOut(x, x.data.replicas)
  /\ \A k \in Volumes(x) : Mountable(k)
  /\ ChangeStatefulSet([x EXCEPT !.updated = x.data.replicas, !.ready = x.data.replicas])
  /\ UNCHANGED edits

\* Pods fail; they are updated but not ready.
PodsFail ==
  LET x == obj["statefulSet"] IN
  /\ x.ready > 0
  /\ Change("pods")
  /\ ChangeStatefulSet([x EXCEPT !.ready = 0])

\* The garbage collector deletes what belonged to a registry that is gone.
Collect(k) ==
  /\ obj[k].owner \notin {0, Other, cr.uid}
  /\ SetObject(k, Absent)
  /\ UNCHANGED <<cr, uids, edits, outsideVars>>

Environment ==
  \/ DeleteCR \/ Observe \/ RollOut \/ PodsFail
  \/ \E spec \in Specs : CreateCR(spec) \/ EditSpec(spec)
  \/ \E k \in Handled : EditObject(k) \/ DeleteObject(k) \/ CreateForeign(k) \/ Collect(k)

Next == Operator \/ Crash \/ Environment

RegistrySpec == Init /\ [][Next]_vars

\* Calls return, informers catch up, requests are handled; the StatefulSet
\* controller and the garbage collector run.  Users and nodes promise nothing.
Fairness ==
  /\ WF_vars(Reconcile) /\ WF_vars(ReconcileNotFound) /\ WF_vars(SkipTask)
  /\ WF_vars(\E k \in Handled : RefuseTask(k) \/ Upsert(k))
  /\ WF_vars(Report) /\ WF_vars(WatchCR) /\ WF_vars(Observe) /\ WF_vars(RollOut)
  /\ \A k \in Handled : WF_vars(Watch(k)) /\ WF_vars(Collect(k))

FairRegistrySpec == RegistrySpec /\ Fairness

-----------------------------------------------------------------------------
(* Properties.                                                             *)

\* Types, among them: Reconcile never runs a task beyond those of
\* newReconciler, and the caches miss changes only of objects it deals with.
RegistryTypeOK ==
  /\ cr \in CRObject /\ crCache \in CRObject
  /\ obj \in [Handled -> Object] /\ cache \in [Handled -> Object]
  /\ stale \subseteq Handled /\ notify \subseteq stale
  /\ queue \in BOOLEAN /\ w \in Worker /\ config \in Config
  /\ rolled \subseteq (Nat \cup {Other}) \X Nat
  /\ uids \in Nat /\ faults \in Nat /\ edits \in Nat

\* "A `Ready` condition is maintained by the operator" (README.md): a registry
\* that has pods and reports Ready for its present generation has had all of
\* them updated to that generation, although the condition is computed from a
\* cached StatefulSet, before that is written.  If the name was used before, the
\* pods may have been those of an earlier registry: generations start at 1 again.
ReadyIsRolledOut ==
  cr.uid # 0 /\ cr.spec.replicas # 0 /\ cr.ready = Ready /\ cr.observed = cr.generation
    => \E u \in 1..cr.uid : <<u, cr.generation>> \in rolled

\* The operator has nothing left to do.
Settled == w.pc = "idle" /\ ~queue /\ crCache = cr /\ stale = {}

\* Whatever was changed, failed or read too early: when the operator is done,
\* the status is about the present spec, names its Secret and host, says Ready
\* exactly if the pods are, and every object that is watched is as the spec
\* wants it; a claim to be kept does not belong to the registry.
SettledIsSynced ==
  Settled /\ cr.uid # 0 =>
    /\ cr.synced = Synced /\ cr.observed = cr.generation
    /\ cr.tlsName = SecretName(cr.spec.tls) /\ cr.host = config
    /\ cr.ready = Ready <=> RolledOut(obj["statefulSet"], cr.spec.replicas)
    /\ \A i \in DOMAIN Tasks :
         LET k == Target(Tasks[i], cr.spec) IN
         k \in WatchedKinds => /\ obj[k].exists
                              /\ obj[k].data = Desired(k, cr.spec)
                              /\ obj[k].owner = IF k = "claim" /\ ~cr.spec.deleteClaim
                                                THEN 0 ELSE cr.uid

\* Somebody else's object is in the way, or one with the wrong immutable part.
Blocked(k) ==
  LET x == obj[k] IN
  /\ x.exists
  /\ \/ Refusal(k, cr, x) # "none"
     \/ k \in Immutable /\ x.fixed # DesiredFixed(k, cr.spec, x)

\* A registry that stays, with nothing in its way, gets Ready for its present
\* generation and stays so: no event is missed, no error goes without a retry,
\* and conflicts with the StatefulSet controller, the garbage collector of an
\* earlier registry and users come to an end.
RegistryConverges ==
  <>[](cr.uid # 0 /\ \A k \in Handled : ~Blocked(k))
    => <>[](cr.ready = Ready /\ cr.synced = Synced /\ cr.observed = cr.generation)

\* "Owned objects are automatically garbage collected" (Reconcile): once a
\* registry is gone for good, of what the operator made nothing is left but a
\* claim without owner, although it may go on for a while creating objects for
\* a registry that only its cache still has.
OrphansCollected ==
  <>[](cr.uid = 0) =>
    <>[](\A k \in Handled : obj[k].managed => k = "claim" /\ obj[k].owner = 0)
=============================================================================
