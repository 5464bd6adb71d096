---------------------------- MODULE ImageBuildEnv ----------------------------
(***************************************************************************)
(* The ImageBuildEnv controller (pkg/controller/imagebuildenv) and the     *)
(* back reference handler it uses (pkg/backrefs).                          *)
(*                                                                         *)
(* An ImageBuildEnv names input Secrets, usually those of ImagePushSecrets.*)
(* The controller merges them into an output Secret and, on demand, runs a *)
(* redis pod.  To hear of changes of the inputs it adds owner references   *)
(* to them, after listing them in its status: a finalizer takes the        *)
(* references away again, for the garbage collector deletes objects whose  *)
(* owners are all gone.                                                    *)
(*                                                                         *)
(* The controller has one worker.  A step reads the informer caches and    *)
(* makes at most one call of the API server.                               *)
(***************************************************************************)
EXTENDS Integers, Sequences, Functions

CONSTANTS
  Env,          \* names of ImageBuildEnvs
  Secret,       \* names of the Secrets users list as inputs
  Host,         \* registries that the inputs have credentials for
  HostsOf,      \* those in each input
  Specs,        \* the specs users write
  InputsLag,    \* whether the cache of the inputs may lag when it is read
  Changes,      \* kinds of change that users and nodes make
  Failures,     \* ways in which an API call may fail
  MaxUID,       \* bound: ImageBuildEnvs created altogether
  MaxFaults,    \* bound: failed API calls and operator crashes
  MaxEdits      \* bound: changes

ASSUME EnvAssumption ==
  /\ HostsOf \in [Secret -> SUBSET Host]
  /\ Specs \subseteq [secrets: Seq(Secret), redis: BOOLEAN]
  /\ Secret \cap {"none", "env", "redis", "pod", "svc", "conf"} = {}
  /\ InputsLag \in BOOLEAN /\ Failures \subseteq {"lost", "timeout"}
  /\ MaxUID \in Nat /\ MaxFaults \in Nat /\ MaxEdits \in Nat

VARIABLES
  env,       \* the API server's ImageBuildEnvs, by name
  input,     \* the API server's input Secrets, by name
  out,       \* output Secret, redis Secret, pod and Service of each name
  envCache, inputCache, outCache,   \* the operator's informer caches
  notify,    \* per input, the owners named by versions its cache has not seen
  changed,   \* the outputs with changes that the caches have not seen
  queue,     \* requests in the work queue
  timer,     \* requests that come back after a RequeueAfter delay
  w,         \* Reconcile's local variables
  versions,  \* versions of input data and passwords generated so far
  overlooked,\* history: references that DelReference has left, not seeing them
  uids, faults, edits

storeVars == <<env, input, out, notify, changed>>
\* The caches, and what they have kept from DelReference.
cacheVars == <<envCache, inputCache, outCache, overlooked>>
workVars == <<queue, timer, w>>
vars == <<env, input, out, envCache, inputCache, outCache, notify, changed, queue,
          timer, w, versions, overlooked, uids, faults, edits>>

-----------------------------------------------------------------------------
(* Objects.  UID 0 stands for an object that does not exist.               *)

\* A condition: its reason and, for the message, the object it is about.
Cond == {"none", "True", "MissingSecret", "InvalidSecret", "Pending", "conflict",
         "exists", "notFound", "outage"}
        \X (Secret \cup {"none", "env", "redis", "pod", "svc", "conf"})

NoCond == <<"none", "none">>
Ready == <<"True", "none">>

Spec0 == [secrets |-> <<>>, redis |-> FALSE]

\* ImageBuildEnv: metadata, spec, status.secretRefs and the Ready condition.
\* The generation, a count of the changes of the spec, tells versions apart that
\* a user has edited there and back.
NoEnv == [uid |-> 0, generation |-> 0, deleting |-> FALSE, finalizer |-> FALSE,
          spec |-> Spec0, refs |-> <<>>, ready |-> NoCond]

EnvObject == [uid: Nat, generation: Nat, deleting: BOOLEAN, finalizer: BOOLEAN,
              spec: Specs \cup {Spec0}, refs: Seq(Secret), ready: Cond]

\* Input Secret: the version of its data (0: no docker config) and, by name
\* of the ImageBuildEnv, the UID in its owner reference.  There is at most one
\* per name: AddReference removes a reference by name before it adds one.
NoOwner == [e \in Env |-> 0]
NoInput == [exists |-> FALSE, data |-> 0, owners |-> NoOwner]

Input == [exists: BOOLEAN, data: Nat, owners: [Env -> Nat]]

\* What is created for an ImageBuildEnv.  owner is the UID of the controller.
\* A pod's password is the one in the redis Secret when redis was started.
NoConf == [owner |-> 0, auths |-> [h \in Host |-> 0], first |-> 0, password |-> 0]
NoRedis == [owner |-> 0, password |-> 0]
NoPod == [owner |-> 0, ready |-> FALSE, password |-> 0]
NoSvc == [owner |-> 0]
Nothing == [conf |-> NoConf, redis |-> NoRedis, pod |-> NoPod, svc |-> NoSvc]

Output == [conf: [owner: Nat, auths: [Host -> Nat], first: Nat, password: Nat],
           redis: [owner: Nat, password: Nat],
           pod: [owner: Nat, ready: BOOLEAN, password: Nat],
           svc: [owner: Nat]]

Kind == {"conf", "redis", "pod", "svc"}

\* Reconcile's local state: the next call, the request, the ImageBuildEnv as
\* read or last written and as modified since, the inputs as read, the
\* references to end up with, those still to handle, the redis password,
\* whether redis is ready and the condition to report.
Step == {"idle", "delRefs", "addRefs", "removeFinalizer",
         "addFinalizer", "reportError", "redis", "pod", "svc", "conf", "report"}

Idle == [pc |-> "idle", base |-> NoEnv, instance |-> NoEnv, inputs |-> <<>>,
         refs |-> <<>>, todo |-> <<>>, password |-> 0, ready |-> TRUE,
         cond |-> NoCond]

Worker == [pc: Step, base: EnvObject, instance: EnvObject, inputs: Seq(Input),
           refs: Seq(Secret), todo: Seq(Secret), password: Nat, ready: BOOLEAN,
           cond: Cond]

Init ==
  /\ env = [e \in Env |-> NoEnv]
  /\ input = [s \in Secret |-> [NoInput EXCEPT !.exists = TRUE, !.data = 1]]
  /\ out = [e \in Env |-> Nothing]
  /\ envCache = env /\ inputCache = input /\ outCache = out
  /\ notify = [s \in Secret |-> {}] /\ changed = [e \in Env |-> {}]
  /\ queue = {} /\ timer = {}
  /\ w = [e \in Env |-> Idle]
  /\ versions = 1 /\ overlooked = {} /\ uids = 0 /\ faults = 0 /\ edits = 0

-----------------------------------------------------------------------------
(* API calls.  A call succeeds, is refused (a stale resource version, a    *)
(* name that is taken, an object that is gone), is lost on the way or,     *)
(* although applied, reported as failed.                                   *)
Outcome == {"ok", "refused"} \cup Failures

Applied(o) == o \in {"ok", "timeout"}

Respond(o, valid) ==
  /\ IF valid THEN o # "refused" ELSE o \in {"refused", "lost"}
  /\ faults' = IF o \in {"lost", "timeout"} THEN faults + 1 ELSE faults
  /\ faults' <= MaxFaults

\* Fault: errors of a Reconcile's last call are dropped.
FailedNever(o) == FALSE

Failed(o) == o # "ok"

Reason(o, refusal) == IF o = "refused" THEN refusal ELSE "outage"

UpdateEnv(e, object, o) ==
  /\ Respond(o, env[e] = w[e].base)
  /\ env' = IF Applied(o) THEN [env EXCEPT ![e] = object] ELSE env

\* The envs that an input's owner references name.
OwnersOf(x) == {e \in Env : x.owners[e] # 0}

\* Any change of an input: its cache will get an event for this version.
SetInput(s, x) ==
  /\ input' = [input EXCEPT ![s] = x]
  /\ notify' = [notify EXCEPT ![s] = @ \cup OwnersOf(x)]

UpdateInput(s, old, x, o) ==
  /\ Respond(o, input[s] = old)
  /\ IF Applied(o) THEN SetInput(s, x) ELSE UNCHANGED <<input, notify>>

SetOutput(e, k, x) ==
  /\ out' = [out EXCEPT ![e] = [@ EXCEPT ![k] = x]]
  /\ changed' = [changed EXCEPT ![e] = @ \cup {k}]

\* CreateOrUpdate of an object of kind k: create it if the cache has none,
\* write it if it differs from what the cache has, otherwise do nothing.
CreateOrUpdate(e, k, x, o) ==
  LET cached == outCache[e][k] IN
  IF x = cached THEN o = "ok" /\ UNCHANGED <<out, changed, faults>>
  ELSE /\ Respond(o, out[e][k] = cached)
       /\ IF Applied(o) THEN SetOutput(e, k, x) ELSE UNCHANGED <<out, changed>>

Refusal(e, k) == IF outCache[e][k].owner = 0 THEN "exists" ELSE "conflict"

\* Reconcile returns: with an error (requeue), with a delay or with neither.
Return(e, requeue, after) ==
  /\ w' = [w EXCEPT ![e] = Idle]
  /\ queue' = IF requeue THEN queue \cup {e} ELSE queue
  /\ timer' = IF after THEN timer \cup {e} ELSE timer

Continue(e, x) == w' = [w EXCEPT ![e] = x] /\ UNCHANGED <<queue, timer>>

\* Go on with updateStatus.
GotoReport(e, x, cond) ==
  Continue(e, [x EXCEPT !.pc = "report", !.cond = cond])

-----------------------------------------------------------------------------
(* mergeSecretData                                                         *)

\* Fault: the first input that knows a registry wins.
MergeFirst(names, inputs) ==
  [h \in Host |->
     LET I == {i \in DOMAIN names : h \in HostsOf[names[i]]} IN
     IF I = {} THEN 0 ELSE inputs[CHOOSE i \in I : \A j \in I : i <= j].data]

\* The credentials of each registry: those of the last input that has some.
Merge(names, inputs) ==
  [h \in Host |->
     LET I == {i \in DOMAIN names : h \in HostsOf[names[i]]} IN
     IF I = {} THEN 0 ELSE inputs[CHOOSE i \in I : \A j \in I : j <= i].data]

\* All other keys come from the first input.
First(inputs) == IF inputs = <<>> THEN 0 ELSE inputs[1].data

-----------------------------------------------------------------------------
(* Reconcile up to the first call.                                         *)

\* Inputs are read from the cache.
Fresh(s) == InputsLag \/ inputCache[s] = input[s]

Dequeue(e) ==
  /\ e \in queue
  /\ \A d \in Env : w[d].pc = "idle"
  /\ queue' = queue \ {e}
  /\ UNCHANGED <<storeVars, cacheVars, timer, versions, uids, faults, edits>>

Load(e, x) ==
  w' = [w EXCEPT ![e] = [x EXCEPT !.base = envCache[e], !.instance = envCache[e]]]

ReconcileNothing(e) ==
  /\ envCache[e].uid = 0 \/ (envCache[e].deleting /\ ~envCache[e].finalizer)
  /\ Dequeue(e) /\ UNCHANGED w

\* UpdateReferences with no references, then the finalizer.
ReconcileDeleted(e) ==
  /\ envCache[e].uid # 0 /\ envCache[e].deleting /\ envCache[e].finalizer
  /\ Dequeue(e)
  /\ Load(e, [Idle EXCEPT !.pc = "delRefs", !.todo = envCache[e].refs])

ReconcileNew(e) ==
  /\ envCache[e].uid # 0 /\ ~envCache[e].deleting /\ ~envCache[e].finalizer
  /\ Dequeue(e)
  /\ Load(e, [Idle EXCEPT !.pc = "addFinalizer"])

\* diffRefs: the old references that are not among the new ones.
Dropped(old, new) == Range(old) \ Range(new)

ReconcileInputs(e) ==
  LET names == envCache[e].spec.secrets
      missing == {i \in DOMAIN names : ~inputCache[names[i]].exists}
  IN
  /\ envCache[e].uid # 0 /\ ~envCache[e].deleting /\ envCache[e].finalizer
  /\ \A i \in DOMAIN names : Fresh(names[i])
  /\ Dequeue(e)
  /\ \/ /\ missing = {}
        /\ Load(e, [Idle EXCEPT
             !.pc = "delRefs", !.refs = names,
             !.todo = envCache[e].refs,
             !.inputs = [i \in DOMAIN names |-> inputCache[names[i]]]])
     \/ \E i \in missing :
          /\ \A j \in missing : i <= j
          /\ Load(e, [Idle EXCEPT !.pc = "report",
                                  !.cond = <<"MissingSecret", names[i]>>])

Reconcile(e) ==
  ReconcileNothing(e) \/ ReconcileDeleted(e) \/ ReconcileNew(e) \/ ReconcileInputs(e)

-----------------------------------------------------------------------------
(* UpdateReferences                                                        *)

\* An error is returned by the finalizer, otherwise reported in the status,
\* with x the local state.
RefsFailed(e, x, cond) ==
  IF x.instance.deleting THEN Return(e, TRUE, FALSE) ELSE GotoReport(e, x, cond)

\* DelReference finds a reference to an env of this name.
DelReference(x, e) == x.exists /\ x.owners[e] # 0

\* The reference to e that s has all the same, if any.
Reference(s, e) == IF input[s].owners[e] = 0 THEN {} ELSE {<<s, e, input[s].owners[e]>>}

\* Fault: a failed removal is skipped.
DelRefDoneAnyway(s, o) == TRUE

\* Being told that the Secret is gone is fine.
DelRefDone(s, o) == o = "ok" \/ (o = "refused" /\ ~input[s].exists)

\* The next of the old references that is dropped.
DelRef(e) ==
  /\ w[e].pc = "delRefs"
  /\ \E i \in DOMAIN w[e].todo :
     LET s == w[e].todo[i]
         x == inputCache[s]
         next == [w[e] EXCEPT !.todo = SubSeq(@, i + 1, Len(@))]
     IN
     /\ s \in Dropped(w[e].todo, w[e].refs)
     /\ \A j \in 1..(i - 1) : w[e].todo[j] \in Range(w[e].refs)
     /\ Fresh(s)
     /\ \/ /\ ~DelReference(x, e) /\ Continue(e, next)
           /\ overlooked' = overlooked \cup Reference(s, e)
           /\ UNCHANGED <<input, notify, faults>>
        \/ /\ DelReference(x, e) /\ UNCHANGED overlooked
           /\ \E o \in Outcome :
                /\ UpdateInput(s, x, [x EXCEPT !.owners[e] = 0], o)
                /\ IF DelRefDone(s, o) THEN Continue(e, next)
                   ELSE RefsFailed(e, w[e], <<Reason(o, "conflict"), s>>)
  /\ UNCHANGED <<env, out, changed, envCache, inputCache, outCache, versions, uids, edits>>

\* Fault: added references alone do not count as a change.
RefsChangedByDrop(old, new) == Dropped(old, new) # {}

RefsChanged(old, new) == Dropped(old, new) # {} \/ Dropped(new, old) # {}

\* The status lists the references before they are set.
UpdateRefs(e) ==
  /\ w[e].pc = "delRefs" /\ Dropped(w[e].todo, w[e].refs) = {}
  /\ LET i == [w[e].instance EXCEPT !.refs = w[e].refs]
         next == [w[e] EXCEPT !.pc = "addRefs", !.todo = w[e].refs]
     IN
     \/ /\ ~RefsChanged(w[e].instance.refs, w[e].refs)
        /\ Continue(e, next)
        /\ UNCHANGED <<env, faults>>
     \/ /\ RefsChanged(w[e].instance.refs, w[e].refs)
        /\ \E o \in Outcome :
             /\ UpdateEnv(e, i, o)
             /\ IF o = "ok" THEN Continue(e, [next EXCEPT !.base = i, !.instance = i])
                ELSE RefsFailed(e, [w[e] EXCEPT !.instance = i],
                                <<Reason(o, "conflict"), "env">>)
  /\ UNCHANGED <<input, notify, out, changed, cacheVars, versions, uids, edits>>

\* AddReference adds a reference unless there is one with this UID.
AddReference(x, e) == x.owners[e] # w[e].instance.uid

AddRef(e) ==
  /\ w[e].pc = "addRefs" /\ w[e].todo # <<>>
  /\ LET s == Head(w[e].todo)
         x == w[e].inputs[Len(w[e].refs) - Len(w[e].todo) + 1]
         next == [w[e] EXCEPT !.todo = Tail(@)]
     IN
     \/ /\ ~AddReference(x, e) /\ Continue(e, next)
        /\ UNCHANGED <<input, notify, faults>>
     \/ /\ AddReference(x, e)
        /\ \E o \in Outcome :
             /\ UpdateInput(s, x, [x EXCEPT !.owners[e] = w[e].instance.uid], o)
             /\ IF o = "ok" THEN Continue(e, next)
                ELSE RefsFailed(e, w[e],
                  <<Reason(o, IF input[s].exists THEN "conflict" ELSE "notFound"), s>>)
  /\ UNCHANGED <<env, out, changed, cacheVars, versions, uids, edits>>

\* UpdateReferences is done.  The data of the inputs is merged; one without a
\* docker config is reported.
RefsDone(e) ==
  LET invalid == {i \in DOMAIN w[e].inputs : w[e].inputs[i].data = 0} IN
  /\ w[e].pc = "addRefs" /\ w[e].todo = <<>>
  /\ \/ w[e].instance.deleting /\ Continue(e, [w[e] EXCEPT !.pc = "removeFinalizer"])
     \/ /\ ~w[e].instance.deleting /\ invalid = {}
        /\ Continue(e, [w[e] EXCEPT
             !.pc = IF w[e].instance.spec.redis THEN "redis" ELSE "conf"])
     \/ /\ ~w[e].instance.deleting
        /\ \E i \in invalid : /\ \A j \in invalid : i <= j
                              /\ GotoReport(e, w[e], <<"InvalidSecret", w[e].refs[i]>>)
  /\ UNCHANGED <<storeVars, cacheVars, versions, uids, faults, edits>>

-----------------------------------------------------------------------------
(* The other calls of Reconcile.                                           *)

RemoveFinalizer(e) ==
  /\ w[e].pc = "removeFinalizer"
  /\ \E o \in Outcome : UpdateEnv(e, NoEnv, o) /\ Return(e, Failed(o), FALSE)
  /\ UNCHANGED <<input, notify, out, changed, cacheVars, versions, uids, edits>>

AddFinalizer(e) ==
  /\ w[e].pc = "addFinalizer"
  /\ \E o \in Outcome :
       /\ UpdateEnv(e, [w[e].instance EXCEPT !.finalizer = TRUE], o)
       /\ IF o = "ok" THEN Return(e, FALSE, FALSE)
          ELSE Continue(e, [w[e] EXCEPT !.pc = "reportError",
                                        !.cond = <<Reason(o, "conflict"), "env">>])
  /\ UNCHANGED <<input, notify, out, changed, cacheVars, versions, uids, edits>>

\* updateStatus writes the status if the condition changes.
updateStatus(e, o) ==
  LET i == w[e].instance IN
  IF i.ready # w[e].cond THEN UpdateEnv(e, [i EXCEPT !.ready = w[e].cond], o)
                         ELSE o = "ok" /\ UNCHANGED <<env, faults>>

\* Whether or not the status can be written, the first error is returned.
ReportError(e) ==
  /\ w[e].pc = "reportError"
  /\ \E o \in Outcome : updateStatus(e, o) /\ Return(e, TRUE, FALSE)
  /\ UNCHANGED <<input, notify, out, changed, cacheVars, versions, uids, edits>>

\* Otherwise the result of updateStatus replaces the error.
Report(e) ==
  /\ w[e].pc = "report"
  /\ \E o \in Outcome :
       /\ updateStatus(e, o)
       /\ Return(e, Failed(o), ~Failed(o) /\ w[e].cond[1] = "MissingSecret")
  /\ UNCHANGED <<input, notify, out, changed, cacheVars, versions, uids, edits>>

\* Fault: every Reconcile generates a password.
RedisPasswordAnew(e) == versions + 1

\* The redis Secret keeps its password.
RedisPassword(e) ==
  IF outCache[e].redis.password # 0 THEN outCache[e].redis.password ELSE versions + 1

\* SetControllerReference comes before CreateOrUpdate, which replaces the
\* object by an existing one: an existing owner stays.
OwnerFor(e, k) ==
  IF outCache[e][k].owner # 0 THEN outCache[e][k].owner ELSE w[e].instance.uid

\* upsertRedisSecretForCR; a password that cannot be stored is forgotten.
UpsertRedisSecret(e) ==
  /\ w[e].pc = "redis"
  /\ LET p == RedisPassword(e) IN
     /\ \E o \in Outcome :
          /\ versions' = IF Applied(o) /\ p > versions THEN p ELSE versions
          /\ CreateOrUpdate(e, "redis", [owner |-> OwnerFor(e, "redis"), password |-> p], o)
          /\ IF o = "ok" THEN Continue(e, [w[e] EXCEPT !.pc = "pod", !.password = p])
             ELSE GotoReport(e, w[e], <<Reason(o, Refusal(e, "redis")), "redis">>)
  /\ UNCHANGED <<env, input, notify, cacheVars, uids, edits>>

\* createRedisPodForCR: an existing pod is left alone.
CreateRedisPod(e) ==
  LET cached == outCache[e].pod IN
  /\ w[e].pc = "pod"
  /\ \E o \in Outcome :
       /\ CreateOrUpdate(e, "pod", IF cached.owner # 0 THEN cached
                                   ELSE [NoPod EXCEPT !.owner = w[e].instance.uid], o)
       /\ IF o = "ok" THEN Continue(e, [w[e] EXCEPT !.pc = "svc",
                                        !.ready = cached.owner # 0 /\ cached.ready])
          ELSE GotoReport(e, w[e], <<Reason(o, "exists"), "pod">>)
  /\ UNCHANGED <<env, input, notify, cacheVars, versions, uids, edits>>

\* upsertRedisServiceForCR: here the reference to an earlier ImageBuildEnv of
\* the same name is replaced.
UpsertRedisService(e) ==
  /\ w[e].pc = "svc"
  /\ \E o \in Outcome :
       /\ CreateOrUpdate(e, "svc", [owner |-> w[e].instance.uid], o)
       /\ IF o # "ok" THEN GotoReport(e, w[e], <<Reason(o, Refusal(e, "svc")), "svc">>)
          ELSE IF w[e].ready THEN Continue(e, [w[e] EXCEPT !.pc = "conf"])
          ELSE GotoReport(e, w[e], <<"Pending", "none">>)
  /\ UNCHANGED <<env, input, notify, cacheVars, versions, uids, edits>>

\* upsertMergedSecretForCR
UpsertMergedSecret(e) ==
  /\ w[e].pc = "conf"
  /\ \E o \in Outcome :
       /\ CreateOrUpdate(e, "conf",
            [owner |-> OwnerFor(e, "conf"), auths |-> Merge(w[e].refs, w[e].inputs),
             first |-> First(w[e].inputs), password |-> w[e].password], o)
       /\ GotoReport(e, w[e], IF o = "ok" THEN Ready
                              ELSE <<Reason(o, Refusal(e, "conf")), "conf">>)
  /\ UNCHANGED <<env, input, notify, cacheVars, versions, uids, edits>>

Work(e) ==
  \/ DelRef(e) \/ UpdateRefs(e) \/ AddRef(e) \/ RefsDone(e)
  \/ RemoveFinalizer(e) \/ AddFinalizer(e) \/ ReportError(e) \/ Report(e)
  \/ UpsertRedisSecret(e) \/ CreateRedisPod(e) \/ UpsertRedisService(e)
  \/ UpsertMergedSecret(e)

-----------------------------------------------------------------------------
(* Events.  An informer catches up and enqueues requests for an            *)
(* ImageBuildEnv itself or for the owners an object names.                 *)

otherVars == <<timer, w, versions, overlooked, uids, faults, edits>>

WatchEnv(e) ==
  /\ envCache[e] # env[e]
  /\ envCache' = [envCache EXCEPT ![e] = env[e]]
  /\ queue' = queue \cup {e}
  /\ UNCHANGED <<storeVars, inputCache, outCache, otherVars>>

\* Fault: the request names the Secret, not its owners.
OwnersToNotifySelf(s) == {s}

\* Fault: only owners that are controllers are notified.
OwnersToNotifyControllers(s) == {}

\* The owners in any version since the one in the cache.
OwnersToNotify(s) == OwnersOf(inputCache[s]) \cup notify[s]

WatchInput(s) ==
  /\ inputCache[s] # input[s] \/ notify[s] # {}
  /\ inputCache' = [inputCache EXCEPT ![s] = input[s]]
  /\ notify' = [notify EXCEPT ![s] = {}]
  /\ queue' = queue \cup OwnersToNotify(s)
  /\ UNCHANGED <<env, input, out, changed, envCache, outCache, otherVars>>

\* Fault: pods are not watched.
OutputRequestsNoPod(e, k) == IF k = "pod" THEN {} ELSE {e}

\* What is created for e has e as its controller.
OutputRequests(e, k) == {e}

WatchOutput(e, k) ==
  /\ k \in changed[e]
  /\ outCache' = [outCache EXCEPT ![e] = [@ EXCEPT ![k] = out[e][k]]]
  /\ changed' = [changed EXCEPT ![e] = @ \ {k}]
  /\ queue' = queue \cup OutputRequests(e, k)
  /\ UNCHANGED <<env, input, out, notify, envCache, inputCache, otherVars>>

RequeueAfter(e) ==
  /\ e \in timer
  /\ timer' = timer \ {e}
  /\ queue' = queue \cup {e}
  /\ UNCHANGED <<storeVars, cacheVars, w, versions, uids, faults, edits>>

\* The operator dies; its successor lists everything and starts from there.
Crash ==
  /\ faults < MaxFaults
  /\ faults' = faults + 1
  /\ w' = [e \in Env |-> Idle]
  /\ envCache' = env /\ inputCache' = input /\ outCache' = out
  /\ notify' = [s \in Secret |-> {}] /\ changed' = [e \in Env |-> {}]
  /\ queue' = {e \in Env : env[e].uid # 0}
  /\ timer' = {}
  /\ UNCHANGED <<env, input, out, versions, overlooked, uids, edits>>

-----------------------------------------------------------------------------
(* Users, nodes and the garbage collector.                                 *)

ChangeKind == {"deleteEnv", "spec", "data", "delete", "output", "redisSecret", "restart"}

Change(kind) == kind \in Changes /\ edits < MaxEdits /\ edits' = edits + 1

CreateEnv(e, spec) ==
  /\ env[e].uid = 0 /\ uids < MaxUID
  /\ uids' = uids + 1
  /\ env' = [env EXCEPT ![e] = [NoEnv EXCEPT !.uid = uids + 1, !.generation = 1,
                                           !.spec = spec]]
  /\ UNCHANGED <<input, notify, out, changed, cacheVars, workVars, versions, faults, edits>>

\* A deleted ImageBuildEnv stays, marked, as long as it has a finalizer.
DeleteEnv(e) ==
  /\ env[e].uid # 0 /\ ~env[e].deleting
  /\ Change("deleteEnv")
  /\ env' = [env EXCEPT ![e] = IF env[e].finalizer THEN [@ EXCEPT !.deleting = TRUE]
                               ELSE NoEnv]
  /\ UNCHANGED <<input, notify, out, changed, cacheVars, workVars, versions, uids, faults>>

EditSpec(e, spec) ==
  /\ env[e].uid # 0 /\ env[e].spec # spec
  /\ Change("spec")
  /\ env' = [env EXCEPT ![e].spec = spec, ![e].generation = @ + 1]
  /\ UNCHANGED <<input, notify, out, changed, cacheVars, workVars, versions, uids, faults>>

\* A user, or the controller of image secrets, creates an input ...
CreateInput(s) ==
  /\ ~input[s].exists
  /\ versions' = versions + 1
  /\ SetInput(s, [NoInput EXCEPT !.exists = TRUE, !.data = versions + 1])
  /\ UNCHANGED <<env, out, changed, cacheVars, workVars, uids, faults, edits>>

\* ... writes new data, or data that is no docker config, to it ...
EditInput(s) ==
  /\ input[s].exists
  /\ Change("data")
  /\ \E d \in {0, versions + 1} : /\ d # input[s].data
                                 /\ SetInput(s, [input[s] EXCEPT !.data = d])
                                 /\ versions' = IF d = 0 THEN versions ELSE d
  /\ UNCHANGED <<env, out, changed, cacheVars, workVars, uids, faults>>

\* ... or deletes it.
DeleteInput(s) ==
  /\ input[s].exists
  /\ Change("delete")
  /\ SetInput(s, NoInput)
  /\ UNCHANGED <<env, out, changed, cacheVars, workVars, versions, uids, faults>>

ChangeOutput(e, k, x) ==
  /\ SetOutput(e, k, x)
  /\ UNCHANGED <<env, input, notify, cacheVars, workVars, versions, uids, faults>>

\* Somebody deletes one of the outputs; the redis Secret is a case of its own.
DeleteOutput(e, k) ==
  /\ out[e][k].owner # 0
  /\ Change(IF k = "redis" THEN "redisSecret" ELSE "output")
  /\ ChangeOutput(e, k, Nothing[k])

\* The container of the pod starts when its volume, the redis Secret, exists.
StartPod(e) ==
  /\ out[e].pod.owner # 0 /\ ~out[e].pod.ready /\ out[e].redis.owner # 0
  /\ ChangeOutput(e, "pod", [out[e].pod EXCEPT !.ready = TRUE,
                                            !.password = out[e].redis.password])
  /\ UNCHANGED edits

RestartPod(e) ==
  /\ out[e].pod.ready
  /\ Change("restart")
  /\ ChangeOutput(e, "pod", [out[e].pod EXCEPT !.ready = FALSE, !.password = 0])

\* The garbage collector deletes what has no owner left ...
CollectOutput(e, k) ==
  /\ out[e][k].owner \notin {0, env[e].uid}
  /\ ChangeOutput(e, k, Nothing[k])
  /\ UNCHANGED edits

Dangling(s) == {e \in OwnersOf(input[s]) : input[s].owners[e] # env[e].uid}

\* ... and removes the owners that are gone from what still has others.
CollectInput(s) ==
  /\ Dangling(s) # {}
  /\ SetInput(s, IF Dangling(s) = OwnersOf(input[s]) THEN NoInput
                 ELSE [input[s] EXCEPT !.owners =
                         [e \in Env |-> IF e \in Dangling(s) THEN 0 ELSE @[e]]])
  /\ UNCHANGED <<env, out, changed, cacheVars, workVars, versions, uids, faults, edits>>

Environment ==
  \/ \E e \in Env : \/ DeleteEnv(e) \/ StartPod(e) \/ RestartPod(e)
                    \/ \E spec \in Specs : CreateEnv(e, spec) \/ EditSpec(e, spec)
                    \/ \E k \in Kind : DeleteOutput(e, k) \/ CollectOutput(e, k)
  \/ \E s \in Secret : CreateInput(s) \/ EditInput(s) \/ DeleteInput(s) \/ CollectInput(s)

Operator ==
  \/ \E e \in Env : \/ Reconcile(e) \/ Work(e) \/ WatchEnv(e) \/ RequeueAfter(e)
                    \/ \E k \in Kind : WatchOutput(e, k)
  \/ \E s \in Secret : WatchInput(s)

Next == Operator \/ Crash \/ Environment

EnvSpec == Init /\ [][Next]_vars

\* The work queue hands out requests in order; calls return; informers catch
\* up; delays end; pods start; the garbage collector runs.  Users promise
\* nothing.
Fairness ==
  /\ \A e \in Env : /\ SF_vars(Reconcile(e)) /\ WF_vars(Work(e))
                    /\ WF_vars(WatchEnv(e)) /\ WF_vars(RequeueAfter(e))
                    /\ WF_vars(StartPod(e))
                    /\ \A k \in Kind : WF_vars(WatchOutput(e, k)) /\ WF_vars(CollectOutput(e, k))
  /\ \A s \in Secret : WF_vars(WatchInput(s)) /\ WF_vars(CollectInput(s))

FairEnvSpec == EnvSpec /\ Fairness

-----------------------------------------------------------------------------
(* Properties.                                                             *)

\* Types, among them: whatever happens, the work queue holds names of
\* ImageBuildEnvs (the requests that handlers derive from Secrets, Pods and
\* Services) and the status lists names of inputs.
EnvTypeOK ==
  /\ env \in [Env -> EnvObject] /\ envCache \in [Env -> EnvObject]
  /\ input \in [Secret -> Input] /\ inputCache \in [Secret -> Input]
  /\ out \in [Env -> Output] /\ outCache \in [Env -> Output]
  /\ notify \in [Secret -> SUBSET Env] /\ changed \in [Env -> SUBSET Kind]
  /\ queue \subseteq Env /\ timer \subseteq Env
  /\ w \in [Env -> Worker]
  /\ versions \in Nat /\ overlooked \subseteq Secret \X Env \X Nat
  /\ uids \in Nat /\ faults \in Nat /\ edits \in Nat

\* An owner reference is added only to a Secret that the stored status of the
\* ImageBuildEnv lists at that time, however stale the caches are
\* (UpdateReferences: "for consistency this needs to happen before setting
\* back references"): the finalizer will look at it.
RefsRecordedFirst ==
  [][\A s \in Secret, e \in Env :
       input'[s].owners[e] \notin {0, input[s].owners[e]} =>
         input'[s].owners[e] = env[e].uid /\ s \in Range(env[e].refs)]_vars

\* The operator has nothing left to do for e.
Settled(e) ==
  /\ w[e].pc = "idle" /\ e \notin queue
  /\ envCache[e] = env[e] /\ changed[e] = {}
  /\ \A s \in Secret : inputCache[s] = input[s] /\ notify[s] = {}

\* ... and nothing it created for an earlier e awaits garbage collection.
Clean(e) == \A k \in Kind : out[e][k].owner \in {0, env[e].uid}

Done(e) == /\ env[e].uid # 0 /\ ~env[e].deleting /\ env[e].ready = Ready
           /\ Settled(e) /\ Clean(e)

\* When the operator is done with an ImageBuildEnv that is Ready, the output
\* Secret holds the present credentials of all its inputs, each registry's
\* from the last input that has some, and the inputs are being watched: no
\* change made while or after the inputs were merged went unnoticed.
SettledIsMerged ==
  \A e \in Env : Done(e) =>
    LET names == env[e].spec.secrets
        inputs == [i \in DOMAIN names |-> input[names[i]]]
    IN
    /\ \A i \in DOMAIN names : inputs[i].exists /\ inputs[i].owners[e] = env[e].uid
    /\ out[e].conf.owner # 0
    /\ out[e].conf.first = First(inputs)
    /\ \A i \in DOMAIN names : \A h \in HostsOf[names[i]] :
         (\A j \in DOMAIN names : h \in HostsOf[names[j]] => j <= i)
           => out[e].conf.auths[h] = inputs[i].data

\* When it is done with redis, the pod is ready, the Service and the redis Secret
\* are there and the output Secret has the password of the redis Secret.  Redis
\* itself runs with that password or, as nothing restarts it when the redis
\* Secret has been replaced, with an earlier one.
RedisUsable ==
  \A e \in Env : Done(e) /\ env[e].spec.redis =>
    /\ out[e].pod.owner # 0 /\ out[e].svc.owner # 0 /\ out[e].redis.owner # 0
    /\ out[e].conf.password = out[e].redis.password
    /\ out[e].pod.ready /\ out[e].pod.password <= out[e].redis.password

\* The password of a redis Secret stays as long as the Secret, so that only its
\* deletion parts it from the password redis runs with: not a stale cache, not
\* a call that fails or is repeated, and not an ImageBuildEnv of the same name.
RedisPasswordKept ==
  [][\A e \in Env : out[e].redis.owner # 0 /\ out'[e].redis.owner # 0 =>
       out'[e].redis.password = out[e].redis.password]_vars

\* "When marked as deleted finalize object: remove back references": no input
\* is left with an owner that is gone, which would get it garbage collected.
NoDanglingRefs == \A s \in Secret : Dangling(s) = {}

\* What reads its inputs from caches can promise: an input that is left with an
\* owner that is gone is one whose reference no cache showed when DelReference
\* was to remove it.  Calls that fail or conflict, crashes, lists that change while
\* they are written and followed, and names that are used again leave none.
DanglingWereOverlooked ==
  \A s \in Secret : \A e \in Dangling(s) : <<s, e, input[s].owners[e]>> \in overlooked

\* The operator can get e ready: it stays, and its inputs are there and valid.
Stable(e) ==
  /\ env[e].uid # 0 /\ ~env[e].deleting
  /\ \A s \in Range(env[e].spec.secrets) : input[s].exists /\ input[s].data # 0

\* If an ImageBuildEnv and its inputs stay, it gets Ready and stays so.
EnvConverges == \A e \in Env : <>[]Stable(e) => <>[](env[e].ready = Ready)

\* Every deletion of an ImageBuildEnv is completed.
EnvDeletionCompletes ==
  \A e \in Env : \A u \in 1..MaxUID :
    (env[e].uid = u /\ env[e].deleting) ~> env[e].uid # u
=============================================================================
