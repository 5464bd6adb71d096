# image-registry-operator: TLA+ models, checks and proofs

This directory is a verification project for the Kubernetes operator in `src/`:
TLA+ modules translated from its source, TLC configurations that check them on
small instances and TLAPS proofs that hold for every instance.
`PROJECT.json` lists components, runs, mutants, the map from definitions to
source lines, findings, hazards and theorems.

## The system

| component (source) | state it keeps | operations | interacts with |
|---|---|---|---|
| image secret reconciler (`pkg/controller/imagesecret`, used by the ImagePullSecret and the ImagePushSecret controller) | CR status (rotation count, registry namespace, conditions, observed generation), ImageRegistryAccounts, Secrets | `Reconcile`: finalize, add finalizer, look up registry, compare, `rotatePassword`, report | API server, informer caches, work queue, ImageRegistry status, account controller, garbage collector |
| account controller (`pkg/controller/imageregistryaccount`) | none of its own; deletes accounts | `Reconcile`: delete when the TTL is over or come back then | creators and finalizers of accounts |
| authenticator (`pkg/auth`, called by `docker-authn-plugin` and `cmd/authn-client`) | cache of accounts, replaced under a lock, read without | `Authenticate`, `findAccount`, `addToCache` in concurrent requests | API server (reads accounts) |
| image build env controller (`pkg/controller/imagebuildenv`) | status (secretRefs, Ready), output Secret, redis Secret, Pod, Service | `Reconcile`: finalize, load and reference inputs, merge, redis, report | input Secrets (usually of the image secret reconciler), kubelet, garbage collector |
| back reference handler (`pkg/backrefs`) | owner references on the inputs | `UpdateReferences` | called by the image build env controller |
| image registry controller (`pkg/controller/imageregistry`) | StatefulSet, Service, PVC, RBAC objects, certificates; the conditions Ready and Synced, host name and TLS Secret in the status | `Reconcile`: a list of tasks, each an upsert, and a report | certificate manager, image secret reconciler (Ready, CA), StatefulSet controller, garbage collector |
| certificate manager and CA root controller (`pkg/certs`, `pkg/controller/caroot`) | Secrets with the root CA and the certificates of registries; a renewal timer | start-up, `RenewRootCACertSecret`, `RenewServerCertSecret` | image registry controller (`reconcileTLSCert`), resync of the informers, users who bring their own Secrets |
| helpers (`pkg/registriesconf`, `pkg/passwordgen`, `pkg/merge`), process (`cmd/manager`) | none | encoders, random passwords, list upserts, start-up | all |

What is hard: every reconciler decides on informer caches that lag behind the
API server, makes several calls that can fail or be applied although they
report an error, and can die between two of them. Objects are linked by names
that are used again. Errors are sometimes replaced by the result of a status
update, so whether something is retried depends on events. In the
authenticator, threads race each other, the lifetime of the cache and the
creation and deletion of accounts. `PROJECT.json` lists these hazards at their
lines.

What makes the parts correct:

* image secrets: a Secret never has a wrong password for the account it names;
  account names are never reused within the life of a CR; a CR that is Ready
  and settled has a Secret that works; a CR that vanishes leaves no account
  its status could know of; both creation and deletion come to an end;
* build environments: an input carries a back reference only if the status
  says so; none is left whose owner is gone, unless a cache hid it; what is merged
  is current; the output Secret has redis' password as long as nobody deletes it;
* authentication: deleted accounts are not accepted for long, valid ones are
  not rejected, threads do not undo each other's work, the expiry of every
  account is scheduled;
* registries: Ready is not reported before the pods are rolled out for the
  present spec; what the spec asks for is there in the end, whatever failed or
  was changed by others; what belonged to a deleted registry goes, a claim that
  is to be kept stays;
* certificates: they are renewed in time but not early, also when a cache is
  outdated, what a registry's TLS Secret holds has not expired, nor has the CA
  that signed it, and Secrets of users are not touched.

## Modules

| module | models |
|---|---|
| `ImageSecret` | image secret reconciler; the account TTL as an event |
| `Credentials` | abstract: the life of credentials, issued, published and revoked |
| `ImageSecretCredentials` | the refinement mapping by which `ImageSecret` implements `Credentials` |
| `ImageSecretProofs` | theorems about `ImageSecret` |
| `CredentialsProofs`, `ImageSecretCredentialsProofs` | theorems about `Credentials`; that `ImageSecret` implements it |
| `RotationSchedule` | the image secret reconciler, the TTL of its accounts and the users of its Secrets in time |
| `RotationScheduleProofs` | theorems about `RotationSchedule` |
| `ImageBuildEnv` | image build env controller and back reference handler |
| `ImageBuildEnvProofs` | theorems about `ImageBuildEnv` |
| `Authenticator` | authenticator and account controller, with time |
| `AuthenticatorProofs` | theorems about `Authenticator` |
| `CertManager` | certificate manager, CA root controller and the TLS certificate task of the image registry controller, with time |
| `CertManagerProofs` | theorems about `CertManager` |
| `ImageRegistry` | image registry controller: all of its tasks and the status |
| `ImageRegistryProofs` | theorems about `ImageRegistry` |
| `MCImageSecret`, `MCImageBuildEnv`, `MCAuthenticator`, `MCCertManager`, `MCImageRegistry`, `MCRotationSchedule` | the small instances |

### Kubernetes, as the models see it

The API server, the controller runtime and the garbage collector are not part
of the repository; they are modelled from how the code uses them.

* *Objects* are records; UID 0 (or `None`) means that there is none. An update
  must be based on the stored version (optimistic locking): the model compares
  the stored object with the one the reconciler read, where the API server
  compares resource versions. The two differ where an object returns to an
  earlier content in between. For an update that makes no difference to what it
  overwrites, but it may to what happens next: `ImageBuildEnv` therefore counts
  the changes of the spec (`generation`), since with a spec that is edited and
  edited back, UIDs could be written into inputs that the status no longer lists.
* *Calls* (`Outcome`) succeed, are refused, are lost, or are applied although
  an error is reported. The last two (`ImageBuildEnv` can be given one of them
  as `Failures`) are bounded by `MaxFaults`, and so are
  crashes (`Crash`): the successor lists all objects and starts with each CR in
  its queue. One operator process runs at a time (`leader.Become`).
* *Caches* show a past state of each object until a `Watch...` step brings them
  up to date and enqueues the requests the code's event handlers derive. A cache
  that catches up right after a change shows every intermediate state, one that
  waits skips some, as an informer may. In `ImageSecret` all cache reads happen
  in the first step of `Reconcile`: the caches lag independently, so whatever is
  read later could be read then. In `ImageBuildEnv` events are remembered per
  version (`notify`, `changed`), because which requests an event enqueues
  depends on the owners the version names.
* *Work queue*: a set of requests, one worker per controller; an error puts the
  request back (`Return`), `RequeueAfter` puts it in `timer` first.
* *Users* create, edit and delete objects at any time; the number of these
  changes is bounded by `MaxEdits`, their kinds chosen by `Changes`.

### ImageSecret

`w[c]` holds `Reconcile`'s local variables and its program counter; each value
of `pc` is an API call of the code in the order of `secretreconciler.go`:
`deleteAccounts`, `removeFinalizer`, `addFinalizer`, `reportUnsynced`,
`deleteOldAccounts`, `updateRotation`, `createAccount`, `writeSecret`, `report`.
The actions `Reconcile...` are the branches up to the first call, with the
conditions of the code. Account names are the triple of registry namespace, CR
and rotation; passwords are numbers, so that "matches" is equality; `due`
stands for the age that triggers a rotation. `registry` is what the caches show
of the ImageRegistry (Ready, CA).

Two things this module is careful about because the code's comments suggest
otherwise. `EditSecret`: users may delete the Secret, empty it, reset its
annotations or change the credentials in it (password 0 stands for any that is
not an account's), and of these changes the last is not among what
`Reconcile` compares. `RequestsFor`: the label of an account is
`name.namespace`, split at its first dot, so that for the CRs in `Dotted`, whose
names have a dot, as Kubernetes allows, the event of an account enqueues nothing.

Left out: a Secret of the same name that belongs to another controller
(`SetControllerReference` then fails for ever), several registries in one
namespace, and the text of names and labels (with two exceptions: the selector
that `deleteOrphanAccounts` builds, see findings, and the dots above).

### Credentials

The abstract specification leaves only what a user of the Secrets relies on. A
credential (registry, account name, password and the UID of the CR it is for) is
issued with a password that was never used before, is valid from then on until
it is revoked, is pending until the reconciler publishes or forgets it, and is
published as a whole, at most once, in the Secret of its CR. The mapping reads
`valid` off the accounts, `published` off the Secrets and `pending` off the
worker that has created an account and is about to write the Secret. A reported
failure of the creation may leave a valid credential that is never published,
never the other way round: that is what makes it safe to retry with a new
rotation count instead of the same account.

### RotationSchedule

All steps of the reconciler are those of `ImageSecret`, conjoined with what they
read and write of the time: `age` of the accounts, `delay` of the requests and
the local `after` with the `renewalTTL` that `Reconcile` computes from the account
it has read. `due`, an event of the environment in `ImageSecret`, follows from the
ages. Two things are new: the resync of the informers, and a client, who reads
each Secret at least every `Grace` units. `Tick` waits until the operator is at
rest, so a unit is longer than what the operator does at once, and also than the
30 s that `renewalTTL` adds; the account controller deletes accounts at any time
after their TTL (that it does so is `ExpiryScheduled` of `Authenticator`).

Left out: edits, deletions and registries that are not ready, which can lock
users out by what they mean, or are checked without time in `ImageSecret`.

### ImageBuildEnv

The calls of `Reconcile` and `UpdateReferences` are steps: `delRefs` (one step
per old reference), `addRefs` (one per new reference), the status update between
them (`UpdateRefs`), the upserts of redis Secret, pod, Service and output
Secret, and the final status update. `versions` numbers data and passwords. The
output Secret is abstracted to what it was merged from: the data version per
registry, that of the first input and the redis password. Redis runs with the
password that its redis Secret had when the pod was started; a kubelet restart
picks up the present one. `InputsLag` says whether the cache of the inputs may lag
when it is read: `BuildEnvLiveness` has no lag, which shows that the observation
about `EnvConverges` needs it.

`NoDanglingRefs` does not hold with lagging caches (`BuildEnvStale`). What code that
reads from caches can promise is weaker, and said of a history: `overlooked`
collects, per input and ImageBuildEnv, the UIDs of references that an input had when
`DelReference` was to remove them, but its cached copy did not.
`DanglingWereOverlooked` says that an input never names an owner that is gone,
except for those: nothing else that can happen to a list that is read, written
and followed in separate calls leaves a dangling reference. Without lag
nothing is overlooked, and this is `NoDanglingRefs`, as `BuildEnvLiveness` checks.

### Authenticator

Each thread runs `Authenticate` in steps: look at the cache, ask the API server,
set `LastSeen`, lock and copy, store and unlock, compare. Time is a `Tick` that
increases all ages; ages stop one unit after the value that matters, so the
state space is finite although time is not bounded. A request is assumed to be
handled within `MaxDelay`; without such a bound nothing limits the age of what
a slow thread stores. The map is read without the lock: the load of its address
is atomic and, on amd64, never precedes the writes of the map's contents; other
memory models are not covered. `gone` and `valid` are history variables for the
properties. "denied" is what `Authenticate` expresses by neither labels nor an error;
the plugin then returns `true` without labels, which the ACL of the token server
(`build/auth_config.yml.tpl`) grants nothing. The account controller's `Reconcile`
reads its informer and makes at most one call.

### CertManager

`Start` is `caroot.Add`, which renews the root CA with an uncached client and
ends the process if that fails. `ReconcileRootCA` and `ReconcileUserCA` are the
outcomes of the CA root controller's `Reconcile`, which makes at most one
writing call and asks to come back when the renewal is due (`rootTimer`).
`ReconcileTLSCert`, `ReconcileRefused` and `ReconcileNoCA` are the outcomes of
`reconcileTLSCert`; nothing tells a registry that its certificate is due or that
the CA has changed, so these run when an event, a retry or the `Resync` of the
informers puts the registry in the queue. The manager is started without a
resync period of its own, so the library's default (ten hours) applies.

A key pair is what its certificate is for, how old it is, how old its issuer
is and a serial number; a renewal replaces it by one of age 0 and, as `genKeyPair`
makes a new key, of another serial than the one replaced. So a replacement shows
even where both are of age 0: `RenewedOnlyWhenDue` compares serials, since `Tick`
lets a cache lag only over what has just been written. `Tick` increases all ages, up to one
unit after the end of the lifetime, so time is not bounded. A unit is longer
than it takes to handle requests, to retry them and to restart the operator:
`Tick` waits until the operator has nothing to do except for requests that have
failed, which it tries again in the next unit. Failures that last are therefore
faults, and the properties about time allow one unit for each of them.

Left out: specs with an issuer (cert-manager then renews) or a TLS Secret of the
user (nothing to do); the CA for authentication tokens of a registry, which
`renewCertSecret` keeps in the same way, without an issuer; the contents of PEM
data; and everything behind the Secret: mounts, the restart of pods, nginx, which does
not load a renewed certificate by itself. What is said of certificates is said of
the Secrets that hold them.

### ImageRegistry

One registry name, used by one registry after the other, and the objects of its
tasks by kind. `w` is at a task or at the report; a task reads the caches and
makes at most one call (`Upsert`, through `CreateOrUpdate`), fails without a call
(`RefuseTask`, `NoRootCA`) or has nothing to do (`SkipTask`, the user provides
the certificate). `Desired`, `Owner` and `DesiredFixed` are what the `modify`
functions write: the pod template is abstracted to the number of replicas, the
names of the Secrets it mounts and the operator's configuration (DNS zone,
images), which changes when the operator restarts. `readyCondition` is computed
from the StatefulSet as it was read, before it is modified, in the order of the
code. `stale` says that the cache of a kind is behind, `notify` that a version
it has not seen names the registry, so that its event enqueues a request.
`rolled` is a history variable for `ReadyIsRolledOut`, which is about registries
that want pods: one with zero replicas can be Ready because of the StatefulSet of
an earlier registry of its name, still in the cache, and nothing is to roll out.

The parts of Kubernetes it meets are: `SetControllerReference`, which in the
version used replaces a reference to an owner of the same group, kind and name,
thus to a predecessor, and refuses any other controller; the StatefulSet
controller (`Observe`, `RollOut`), whose pods wait for their volumes; the garbage
collector (`Collect`); users who edit or delete objects or put their own in the
way.

An update that makes no difference (`CreateOrUpdate`) is not sent, except for a
StatefulSet, which lacks the values that the API server fills in: it may be sent
and may fail, or conflict with a version the cache does not show.

Left out: the finalizer that protects claims in use, claims whose size is
reduced (refused), registries with a dot in their name (whose Service is
refused, so that they never get ready; the event of their claim, which names its
registry in an annotation `name.namespace`, would be lost, see `RequestsFor`), and
`Certificate` objects other than through the definitions (no run has an issuer).

## Runs

Deadlock checking is off where the system may rest: a settled operator waits
for events, an authenticator for requests.

| run | instance | shows |
|---|---|---|
| `ImageSecretLifecycle` | 1 CR, 2 registries; created, moved, aged, its Secret deleted, emptied or its credentials changed, its registry unready, deleted and created again; a fault | `TypeOK`, `RotationRecordedFirst`, `CredentialsMatch`, `SettledIsUsable`, `FinalizedWithoutAccounts`, `ImplementsCredentials` |
| `ImageSecretLiveness` | 1 CR with a dot in its name, a fault, a change of any kind, fairness | `SettledIsUsable`, `Converges`, `DeletionCompletes` |
| `RotationTiming` | 1 CR, 3 rotations, 2 faults; TTL 8, resync 2 | `ScheduleTypeOK`, `ClientNotLockedOut`, `RenewalScheduled` |
| `BuildEnvShared` | 2 envs, or one created twice, with 1 input that is edited or deleted, lagging caches, a change | `EnvTypeOK`, `SettledIsMerged`, `DanglingWereOverlooked`, `RefsRecordedFirst` |
| `BuildEnvRedis` | 1 env name used twice, with redis; a change: the env, its redis Secret or another output deleted, or redis restarted; a crash or a call that is applied but fails | `RedisUsable`, `RedisPasswordKept` |
| `BuildEnvLiveness` | 1 env name used twice, 2 inputs that share a registry, one of them listed twice in one of the specs, current input cache, a fault, a change, fairness | `NoDanglingRefs`, `SettledIsMerged`, `EnvConverges`, `EnvDeletionCompletes` |
| `AuthRequests` | 2 threads, 2 accounts of one name, a failing call | `AuthTypeOK`, `AcceptedNotLongGone`, `NoFalseDenial`, `ExpiryScheduled` |
| `CertRenewal` | 1 registry, 2 DNS zones, a fault, a Secret written by a user; unbounded time | `CertTypeOK`, `RootRenewedOnTime`, `ChainInDate`, `UnmanagedKept`, `RenewedOnlyWhenDue` |
| `RegistryRollout` | tasks `tls` and `statefulSet`; 1 name used twice, the certificate made by the operator or given, 2 configurations, a fault or restart, a change of any kind | `RegistryTypeOK`, `ReadyIsRolledOut`, `SettledIsSynced` |
| `RegistryLiveness` | tasks `statefulSet` and `claim`; 1 name used twice, the claim kept or deleted with the registry, a change of any kind, fairness | `SettledIsSynced`, `RegistryConverges`, `OrphansCollected` |

Bounds: two UIDs or accounts per name are enough for everything that needs a
predecessor and a successor; one fault puts a failure or a crash at every point
of every Reconcile; two threads or environments are the smallest number that
interact; two or three rotations allow one that fails and one that repairs it.
Every property has a mutant, a plausible slip in the code that the run then
detects: this shows that the instances are large enough for the property to
bite. What the proofs cover holds beyond these bounds.

A CR without a dot in its name gets at least the requests that `ImageSecretLiveness`
gives one with a dot: the event of an account puts it into the queue as well.
`ImageSecretLifecycle` has such a CR, for which `SettledIsUsable` demands more.

`BuildEnvRedis` has no input Secrets, which redis has nothing to do with, and one
change, which is either the deletion of the env (followed by a new one of the
name, which takes no further change) or of its redis Secret, or another. Its calls
fail after they have been applied (`Failures`); one that is lost before leaves
what a crash before the call does, except that it is reported. Lost calls, redis
being switched on and off and combinations of changes are covered by the proofs.

`CertRenewal` scales the lifetimes down (CA 72, server certificate 16, resync 2)
but keeps what matters of 5 years, 90 days and 10 hours, stated as
`TTLAssumption`: a quarter of the certificate's lifetime is longer than a resync
period and the failures, a quarter of the CA's lifetime longer than that of a
certificate. The instance has no slack in the second inequality, so a
certificate may expire in the same unit as its CA, never later. One registry is
enough since registries do not share anything but the root CA, which they only
read.

`RotationTiming` has two faults since it takes two equal failures in a row for an
error to be dropped without a trace (see observations); three rotations are the
first one, a failing one and the one that repairs it. `ScheduleAssumption` says that
half of the TTL is longer than a resync period and the time users take to read
the Secret again: 12, 10 and at most 2 hours by default, 4, 2 and 1 units, with
one unit for the 30 s, here. With a longer resync period TLC finds users locked
out.

The registry's tasks differ in what they write, not in how they fail: all go
through `Upsert` or the certificate manager. The two instances therefore take
two tasks each, one before and one after the StatefulSet, which sets Ready: the
certificate, whose failure keeps the StatefulSet from being written, and the
claim, whose failure overrides the condition just computed.

### Findings

Two runs check what a comment of the repository says and find a behaviour of
the code that contradicts it (`findings` quotes the lines):

* `ImageSecretFinalizer`: the finalizer's label selector is invalid and thereby
  matches all accounts of the registry's namespace; deleting one CR deletes the
  accounts of others.
* `BuildEnvStale`: the finalizer can miss a back reference that its cache does
  not show yet; the garbage collector then deletes the user's Secret.

Other observations have no run of their own (see the notes in `hazards`):

* `Reconcile` calls CR, account and Secret "up-to-date" (`secretreconciler.go:238`)
  when registry, CA and rotation in the Secret are right. Credentials that
  somebody has changed in the Secret stay until the next rotation, by default up
  to 12 hours, while the CR is Ready. `SettledIsUsable` and `Converges` speak of
  Secrets whose credentials nobody has changed (`Intact`), and the former says of
  all others that the next `Reconcile` is scheduled.
* If the name of an ImagePullSecret or ImagePushSecret has a dot in it, events of
  its accounts are lost: `keytorequest.go:41` splits the label `name.namespace` at
  the first dot and the request is for a CR in a namespace that cannot exist. An account
  that is deleted is then missed until the CR comes back, after at most the
  delay that its last `Reconcile` has asked for (`Converges`).
* When a redis Secret is deleted, by a user or because the ImageBuildEnv was deleted
  and created again and the Secret still belonged to the former (its owner is
  set before `CreateOrUpdate` fetches the object), it gets a new password, and so does
  the output Secret. Nothing restarts redis, which goes on with the old one.
  `RedisUsable` allows for an earlier password of redis; that only the deletion of the
  redis Secret leads to it is `RedisPasswordKept`.
* When redis is switched off, its pod and Service stay (TODO in the code).

* When a CR moves to another registry and the deletion of its old accounts
  fails, the error is overwritten and the status forgets that registry: the
  accounts live there until their TTL is over.
* The image build env controller drops the second of two equal errors. If both
  are conflicts on an input whose new version its cache does not show yet,
  nothing enqueues the `ImageBuildEnv` again: with `InputsLag` TLC finds
  `EnvConverges` violated.
* Likewise the second of two equal failures of a rotation is dropped: the condition is
  there already, `setSyncStatus` has nothing to write, and `Reconcile` returns
  neither an error nor a delay. Only the resync of the informers brings the CR
  back, with the default TTL before the account expires. With an
  `OPERATOR_SECRET_TTL` below 20 hours, or after a third failure at the resync, the
  account expires first. `NobodyLockedOut` says how many failures a TTL has room for.
* A CR that is created anew can be Ready with the Secret of its predecessor
  until the garbage collector has removed it; `SettledIsUsable` leaves that out.
* The account controller deletes by name what its cache shows as expired, also
  when a new account has that name by then.
* A registry created anew takes over the StatefulSet of its predecessor. As
  generations start at 1 again, it can be Ready with the predecessor's pods
  for a moment; `ReadyIsRolledOut` allows for that. Likewise Ready stays True
  until the event of a StatefulSet that a new operator version has changed.
* `DESIGN_DECISIONS.md` says that removing a CR denies access immediately; the
  authenticator's cache keeps the account for ten minutes, which
  `AcceptedNotLongGone` makes precise. `README.md` says that secrets are rotated
  every 24h; the code rotates at half of the TTL, after 12h by default.

### Fairness

`FairSpec`, `FairEnvSpec` and `FairRegistrySpec` assume: requests in a work
queue are handed out in order, so none waits for ever (strong fairness of
`Reconcile(c)` where one worker serves several); a call that has begun returns;
informers catch up; delays end; the garbage collector and the StatefulSet
controller run; pods start once their volumes exist. Users, registries and nodes
promise nothing. `Authenticator`, `CertManager` and `RotationSchedule` are checked without fairness:
their properties are about time, which waits for what the code does in time.

## Proofs

`ImageSecretProofs` proves, for any sets of CRs and registries and any bounds,
from the assumptions in `ImageSecret` (`RegistryAssumption`, `CRAssumption`,
`BoundAssumption`):

* `TypeCorrect`: `Spec => []TypeOK`;
* `CredentialsCorrect`: `Spec => []CredentialsMatch`;
* `RotationFirst`: `Spec => []RotationRecordedFirst`;
* `FinalizedClean`: `Spec => FinalizedWithoutAccounts`;
* `SettledUsable`: `Spec => []SettledIsUsable`.

None of these is inductive. For the first four, the inductive invariant `Safe` adds to the types

* for the store (`StoreSafe`): UIDs and passwords in use have been assigned;
  accounts of a CR do not exceed its rotation count and are, in the current
  rotation, in the registry its status names; the Secret matches its account;
* for the caches: what they show of a CR is not younger than the CR itself;
* for each step of a worker (`WorkerSafe`): what `Reconcile` knows at that
  point, e.g. that between `updateRotation` and `createAccount` no account of
  the new rotation belongs to this CR, or that while the finalizer removes
  itself no account is left where the status points, unless its update will be
  refused because the CR has changed since it was read.

The last part is the heart of it: every worker fact is conditional on "the
stored CR is still the one I read". As any other write invalidates the
condition, only the worker's own steps can disturb the fact.

`SettledUsable` is about an operator at rest, whose caches lagged, whose calls
failed and whose work others undid on the way. Two more invariants say why nothing
is forgotten. `Informed`: a `Reconcile` whose CR has no new request works on the
version that the cache still shows, unless that is behind in the rotation count
(`Outdated`), as it is once `Reconcile` has rotated the CR itself; so its
`writeSecret` is always followed by another `Reconcile`. `AllInSync`: a CR that
`Reconcile` is about to report as Ready without a new request (`Reporting`), or
that is Ready without a request (`AtRest`), is in sync with account and Secret as
the caches show them. Only having found them in sync leads to the first state
(`StaysReporting`) and only the first leads to the second (`ComesToRest`); each
change of what the caches show enqueues the CR, except that of the accounts of a CR
with a dot in its name. For that one what remains is that it comes back: in both
states a delay is asked for or running (`AllReturning`), and a delay ends with a
request (`TimerKept`).

`ImageSecretCredentialsProofs` proves the refinement, from the same assumptions:

* `Refinement`: `Spec => ImplementsCredentials`.

Every step is mapped to a step of `Credentials` or to a stutter. All that is
needed of the state is `TypeOK`: a worker has a pending credential only in front
of `writeSecret`, so a step of any other call at most forgets it (`Discard`),
the calls that delete accounts revoke, and `createAccount` issues a number above
all earlier ones, whatever becomes of its answer.

`CredentialsProofs` proves, for any set of CRs, what that buys the users of the
Secrets:

* `PasswordsAreOwn`: `CredentialsSpec => []OwnPasswords` (credentials in use
  share no password, and each is published only for the CR it was issued to);
* `NoPasswordComesBack`: `CredentialsSpec => UpdatesAreNewer`.

The inductive invariant adds that passwords are numbered and that what is
pending is newer than what is published. No run checks these two properties:
`ImageSecretLifecycle` checks that the code implements `Credentials`.

`RotationScheduleProofs` proves, for any sets of CRs and registries, any times
and any bounds, from the assumptions of `ImageSecret` and `ScheduleAssumption`:

* `ScheduleTypeCorrect`: `ScheduleSpec => []ScheduleTypeOK`;
* `RenewalOnSchedule`: `ScheduleSpec => []RenewalScheduled`;
* `NobodyLockedOut`: `Interval + 1 + SyncPeriod * (MaxFaults - 1) + Grace <= TTL`
  implies `ScheduleSpec => []ClientNotLockedOut`.

Every step is one of `ImageSecret`, the resync, which only enqueues, or `Tick`,
which changes nothing but times (`TimeSteps`). So `Informed` holds here, too, and
with it the way to rest. `ReportsInTime` and `RestsInTime` follow the delay along
that way: computed from the cached account, the only one of its name (`Unique`),
asked for when the report succeeds, and running down as the account's age goes up.
That it is the only one follows from the rotation counts, which no account of the
CR exceeds (`Numbered`): CRs are not deleted here, so no count is repeated.
That the delay after a rotation is about the account just replaced does no harm
because the CR does not come to rest with it.

`NobodyLockedOut` puts a number on the failures that the TTL has room for: a
rotation is due at `Interval`, it starts within a unit, every failure except the
first may cost a resync period, and users read the new Secret within `Grace`. There
is no slack in the hypothesis: it is an equality in `RotationTiming`, and with one
fault more TLC finds users locked out. With the default times, 12, 10 and 24 hours,
there is room for two faults. The argument: a Ready CR without a request is in sync and comes back in time
(`AllInSync`, `RestsInTime`). Any other CR without a request has lost it
(`Unready`), and the only step that leads there is a report of an error that the
CR shows already (`ComesToUnready`): a conflict means that the cache is behind
and its event is still to come, an existing account or Secret that the CR has been
rotated since it was cached (`Reported`), and any other report writes the status.
So there have been two faults, the one that was written and the one that was not,
and a resync is less than `SyncPeriod` away (`Counted`). Hence `InUse`: after `f`
faults the password in a Secret is no older than `Latest(f)`, and the one a user
has read no older than that when it was read. Its account is still there
(`Backed`) and is the one the Secret names (`Named`), as nothing but the TTL deletes
accounts here (`Steady`).

`ImageBuildEnvProofs` proves, for any sets of environments and inputs, any specs
and any bounds, from `EnvAssumption`:

* `EnvTypeCorrect`: `EnvSpec => []EnvTypeOK`;
* `RefsAreRecorded`: `EnvSpec => RefsRecordedFirst`;
* `DanglingOnlyIfOverlooked`: `EnvSpec => []DanglingWereOverlooked`;
* `SettledMerged`: `EnvSpec => []SettledIsMerged`;
* `RedisPasswordStays`: `EnvSpec => RedisPasswordKept`;
* `RedisIsUsable`: `EnvSpec => []RedisUsable`.

The second holds whatever the caches show. Its inductive invariant `RefsKnown`
relates three versions of an environment: the stored one, the cached one and the
one that `Reconcile` has read. As long as it is the same object, the later
version keeps deletion mark and finalizer and is of the same generation or a
later one (`Older`), and it lists the same references, unless those of the
earlier version differ from what that version names (`Listed`): only `Reconcile`
changes the list, from a version that the API server has accepted as the latest
and that named other inputs than it listed. Hence a `Reconcile` that sees both
agree and goes on to add references finds them in the stored list too.

The third is about the finalizer, whatever the caches show, and only leaves out
references that were overlooked. The invariant `RefsOwned` says of all others
(`Owned`) that they are those of the present environment, which has its finalizer
and lists the input (`OwnersListed`), and that what the running `UpdateReferences`
has passed (`todo`) or is about to drop from the list has none (`DroppedUnowned`):
`DelReference` either removes a reference, fails, or overlooks it.

`NothingUnmerged`, for `SettledMerged`, says what holds of an environment `e` as
long as no request for it is queued and no event that will enqueue one is due
(`Due`): the inputs that `Reconcile` has added its reference to are as it read
them, since any change of such an input is an event for `e` (`Watched`); what it
has merged is what they contain (`Merged`); and the output Secret has that
(`Stored`). Nobody is told of a change of an input that has no reference yet, but
then the update that adds the reference, to the version read, is refused; one that
succeeds is itself such an event.
`AtIt` says this of the `Reconcile` in progress, up to where it has got, and
`AtRest` of an environment nobody works on: a `Reconcile` leaves one Ready only at
the end of that way, and otherwise with an error, a write that is watched or a
condition that is not Ready.

The theorems about redis rest on the order of passwords (`Ordered`): a redis Secret
that is created has a later password than any before, so one that replaces another
is known by it; the cached Secret is the stored one or an earlier one, and redis
runs with no later password than the redis Secret has. An update of the redis Secret
keeps the password of the Secret it is based on, which gives `RedisPasswordStays`.
For `RedisIsUsable`, `Serving` says of an environment without a queued request and
without an event that is due what `NothingUnmerged` says of its inputs: the password that
`Reconcile` has read or made is that of the cached redis Secret (`Knows`), and what
it has dealt with so far is there, the pod ready if it was found so (`Provided`). Any
deletion, of the predecessor's Secret by the garbage collector, too, is an event.

`ImageRegistryProofs` proves, for any specs, classes and configurations, any
order-preserving choice of tasks and any bounds, from `RegistryAssumption`:

* `RegistryTypeCorrect`: `RegistrySpec => []RegistryTypeOK`;
* `ReadyMeansRolledOut`: `RegistrySpec => []ReadyIsRolledOut`;
* `SettledSynced`: `RegistrySpec => []SettledIsSynced`.

The invariant `ReadyHonest` says what a StatefulSet, stored or cached, can be: if
its status is about its present generation and complete, it has been rolled out
for the registry and generation that its annotation names (`Recorded`). The
condition computed by `Reconcile` then stands for a roll-out of the version of
the registry it has read (`Earned`), as the code compares the annotation with the
generation; a status update is refused if that version is no longer current.

`NothingMissed`, for `SettledSynced`, says when the operator may rest. A task that
has dealt with an object leaves it as wanted, as far as the cache knows, or an
event about it is due (`Done`): a successful call either found it so or wrote it,
and what it writes is watched. A cached object that belongs to the registry is the
present one or an event is due (`Noticed`), so that an event that makes an object
differ from what a task saw also puts the registry into the queue. While nothing
is in the queue, this holds of all tasks done so far (`Busy`) and, when the worker
is idle and the cache has the present registry, of all its tasks (`Resting`):
`Report` leaves the queue empty only without an error, and if it writes the status,
the cache lacks that version. Users cannot undo that by an edit, as the cache is
never ahead of the API server.

`AuthenticatorProofs` proves, for any sets of users and threads and any times,
from `TimeAssumption` and `AuthAssumption`:

* `AuthTypeCorrect`: `Spec => []AuthTypeOK`, including that the map is replaced
  only by the thread that holds the lock;
* `RevokedInTime`: `Spec => []AcceptedNotLongGone`;
* `NoLostEntries`: `Spec => FreshEntriesStay` (no run checks this property:
  `AuthRequests` has one user, for whom it cannot fail);
* `DenialsExplained`: `Spec => []NoFalseDenial`;
* `ExpiryIsScheduled`: `Spec => []ExpiryScheduled`.

The inductive invariant `Timely` bounds, for each place a password can be (an
entry of the map, an account a thread has fetched, a map it has copied, an
answer), how long its account can have been gone by the age kept with it: a
fetched account by the time the request has taken, a stamped one by its age plus
`MaxDelay`. Each bound grows by one with every `Tick`, as `gone` does, and
turns into the next one where the code moves the account on. It also says that
the copy in the hands of the thread that holds the lock lacks no fresh entry of
the map, since nobody else replaces the map meanwhile. `Issued` adds that each of
these passwords was made for the user under whose name it is kept: a request
whose credentials are valid throughout is then denied only because of an earlier
account of that name. `Scheduled` adds to `ExpiryScheduled` that the informer
shows accounts that exist or existed: if it shows the password of the present
account, it shows that account.

`CertManagerProofs` proves, for any sets of registries and zones and any
lifetimes, from `TTLAssumption` and `NameAssumption`:

* `CertTypeCorrect`: `Spec => []CertTypeOK`;
* `UsersSecretsSafe`: `Spec => UnmanagedKept`;
* `RenewalsDue`: `Spec => RenewedOnlyWhenDue`;
* `RootOnSchedule`: `Spec => []RootRenewedOnTime`;
* `ChainsInDate`: `Spec => []ChainInDate`.

`CertTypeOK` is inductive. The two action properties rest on one lemma about
`renewCertSecret` (`RenewLemma`): it changes a Secret only if the one it read is
the one stored, is not a user's, and is due. An outdated cache, which may well show
that there is no certificate or one that is due, makes it generate a key pair, but the
call that is to store it is refused. (With `BasedOnNever`, an update that overwrites
whatever is there, TLC finds a new certificate replaced by a newer one.) The last two rest on `CertsOnTime`: a root CA that is overdue
is in the queue, or its event or timer is about to put it there, or it has failed
and its age exceeds the due date by no more than the failures; and a certificate
is younger than its issuer by at most the age at which the CA is renewed plus the
failures, and is back in the queue with a resync before its time is over. This is
where the inequalities of `TTLAssumption` are used.

Only model-checked: liveness and what is about fairness, which is outside the
prover's reach (`Converges`, `DeletionCompletes`, `EnvConverges`,
`EnvDeletionCompletes`, `RegistryConverges`, `OrphansCollected`), and the two
violations under findings. `NoDanglingRefs` is checked without lag of the inputs'
cache by `BuildEnvLiveness`; what is proved is the statement for all caches,
`DanglingWereOverlooked`. Every other property that a run checks is a theorem;
`NobodyLockedOut` needs the hypothesis stated with it, without which TLC finds the
property violated.

## Plan

All modules of the plan exist, are checked and have their theorems. Not to be
proved any further, as they do not hold: that redis always runs with the password of
the output Secret, `NoDanglingRefs` with lagging caches of the inputs, and
`ClientNotLockedOut` for more faults than the TTL has room for.

## Not modelled

PEM, X.509, JSON and YAML encodings, RBAC and pod templates
beyond what makes them change, metrics, start-up and flags, deployment
manifests, generated code. The encoders of docker and makisu configs
(`pkg/registriesconf`), the mapping between names and labels (`keyToRequest`) and
the merge helpers are pure; the models contain what they compute (`Merge`,
`RequestsFor`, `Desired`), not their text.
