--------------------------- MODULE RotationSchedule ---------------------------
(***************************************************************************)
(* ImageSecret in time: when the image secret reconciler comes back to     *)
(* replace a password, when the account controller deletes the account it  *)
(* belongs to, and what that means to those who use the Secret.            *)
(*                                                                         *)
(* All steps are those of ImageSecret.  Accounts have an age; a delay that *)
(* was asked for ends when its time is over, an account is due at half of  *)
(* its TTL and deleted after its TTL.  The informers' resync enqueues      *)
(* every CR, whether it changed or not.                                    *)
(*                                                                         *)
(* Time is discrete.  As in CertManager a unit is longer than it takes to  *)
(* handle requests and events, to retry what failed and to restart.        *)
(***************************************************************************)
EXTENDS ImageSecret

CONSTANTS
  TTL,         \* of the accounts (accountTTL)
  SyncPeriod,  \* time between two resyncs of the informers
  Grace        \* assumed: users of a Secret read it again within this time

\* Fault: passwords are replaced when their accounts' TTL is over.
IntervalLate == TTL

\* rotationInterval
Interval == TTL \div 2

\* What is left of an account's TTL when it is due is enough for the 30 s
\* that the timer adds, a resync and the users to read the Secret again.
ASSUME ScheduleAssumption ==
  /\ TTL \in Nat \ {0} /\ SyncPeriod \in Nat \ {0} /\ Grace \in Nat
  /\ TTL \div 2 + 1 + SyncPeriod + Grace <= TTL

VARIABLES
  age,     \* of the accounts, by password: time since they were created
  after,   \* the delay a running Reconcile will ask for
  delay,   \* time until a request comes back (Never: it does not)
  sync,    \* time since the last resync
  client   \* what a user of each Secret has read from it, and how long ago

timeVars == <<age, after, delay, sync, client>>
scheduleVars == <<vars, timeVars>>

Never == Interval + 2

Smaller(a, b) == IF a < b THEN a ELSE b

ScheduleInit ==
  /\ Init
  /\ age = <<>>
  /\ after = [c \in CR |-> Never] /\ delay = [c \in CR |-> Never]
  /\ sync = 0
  /\ client = [c \in CR |-> [password |-> 0, age |-> 0]]

-----------------------------------------------------------------------------
(* The steps of the reconciler, with the times they read and set.          *)

\* A step that does not take time: accounts just created have age 0.
Instant == age' = [p \in 1..passwords' |-> IF p <= passwords THEN age[p] ELSE 0]

\* Fault: accountTTL instead of rotationInterval.
RenewalTTLWhole(a) == TTL - age[a.password] + 1

\* renewalTTL, counted from the creation of the account that was read: zero,
\* for less than 30 s, in the unit in which the account gets due.
RenewalTTL(a) == Interval - age[a.password] + 1

\* The delay that goes with w[c].requeueAfter.  There is none for an account
\* whose time is over, nor if the CR had no account (its creation time is zero).
Delay(c) ==
  LET i == crCache[c]  ns == getRegistryKeyForCR(i)  A == CachedAccount(c, i, ns) IN
  IF ~registry[ns].ready THEN 1
  ELSE IF A = {} THEN -1 ELSE RenewalTTL(CHOOSE a \in A : TRUE)

ReconcileTimed(c) ==
  /\ Reconcile(c)
  /\ w'[c].requeueAfter => Delay(c) >= 0
  /\ after' = [after EXCEPT ![c] = IF w'[c].requeueAfter THEN Delay(c) ELSE Never]
  /\ Instant /\ UNCHANGED <<delay, sync, client>>

\* Fault: a delay is returned with an error.
DelayedAlways(c, o) ==
  IF w[c].requeueAfter THEN [delay EXCEPT ![c] = Smaller(@, after[c])] ELSE delay

\* Reconcile returns without an error.  Of two delays for the same request
\* the work queue keeps the shorter one.
Delayed(c, o) ==
  IF ~Failed(o) /\ w[c].requeueAfter
  THEN [delay EXCEPT ![c] = Smaller(@, after[c])] ELSE delay

APICallTimed(c) ==
  /\ APICall(c)
  /\ IF w[c].pc = "report"
     THEN \E o \in Outcome : setReady(c, w[c].cond, o) /\ delay' = Delayed(c, o)
     ELSE UNCHANGED delay
  /\ after' = IF w'[c].pc = "idle" THEN [after EXCEPT ![c] = Never] ELSE after
  /\ Instant /\ UNCHANGED <<sync, client>>

RequeueTimed(c) ==
  /\ delay[c] = 0
  /\ RequeueAfter(c)
  /\ delay' = [delay EXCEPT ![c] = Never]
  /\ Instant /\ UNCHANGED <<after, sync, client>>

Watch ==
  /\ WatchAccounts \/ \E c \in CR : WatchCR(c) \/ WatchSecret(c)
  /\ Instant /\ UNCHANGED <<after, delay, sync, client>>

\* Every informer hands out its objects again; that of the CRs is enough.
Resync ==
  /\ sync = SyncPeriod /\ sync' = 0
  /\ queue' = queue \cup {c \in CR : crCache[c].uid # 0}
  /\ UNCHANGED <<cr, accounts, secrets, cacheVars, timer, w, passwords, worldVars, faults>>
  /\ Instant /\ UNCHANGED <<after, delay, client>>

CrashTimed ==
  /\ Crash
  /\ after' = [c \in CR |-> Never] /\ delay' = [c \in CR |-> Never] /\ sync' = 0
  /\ Instant /\ UNCHANGED client

-----------------------------------------------------------------------------
(* The environment.                                                        *)

\* The account controller deletes accounts that are older than their TTL.
ExpireTimed(a) ==
  /\ a.cr # Manual /\ age[a.password] > TTL
  /\ ExpireAccount(a)

\* Users create CRs.  They do not change the CRs, Secrets and registries: what
\* that leads to is ImageSecret's subject.
Surroundings ==
  /\ \/ \E c \in CR, r \in RegistryRefs : CreateCR(c, r)
     \/ \E a \in accounts : ExpireTimed(a)
  /\ Instant /\ UNCHANGED <<after, delay, sync, client>>

\* A user of c's Secret reads it: a kubelet, a pod that has it mounted.
Read(c) ==
  /\ secrets[c].owner # 0
  /\ client' = [client EXCEPT ![c] = [password |-> secrets[c].password, age |-> 0]]
  /\ UNCHANGED <<vars, age, after, delay, sync>>

\* Time passes when the operator has nothing to do at once and every user has
\* read the Secret, if there is one, in time.
Tick ==
  /\ \A c \in CR : w[c].pc = "idle" /\ delay[c] # 0
  /\ queue = {} /\ sync < SyncPeriod
  /\ crCache = cr /\ accountCache = accounts /\ secretCache = secrets
  /\ \A c \in CR : secrets[c].owner # 0 => client[c].age < Grace
  /\ age' = [p \in 1..passwords |-> Smaller(age[p] + 1, TTL + 1)]
  /\ due' = {p \in 1..passwords : age'[p] > Interval}
  /\ delay' = [c \in CR |-> IF delay[c] = Never THEN Never ELSE delay[c] - 1]
  /\ sync' = sync + 1
  /\ client' = [c \in CR |-> [client[c] EXCEPT !.age = Smaller(@ + 1, Grace)]]
  /\ UNCHANGED <<cr, accounts, secrets, cacheVars, operatorVars, registry, uids,
                 faults, edits, after>>

ScheduleNext ==
  \/ \E c \in CR : ReconcileTimed(c) \/ APICallTimed(c) \/ RequeueTimed(c) \/ Read(c)
  \/ Watch \/ Resync \/ CrashTimed \/ Surroundings \/ Tick

ScheduleSpec == ScheduleInit /\ [][ScheduleNext]_scheduleVars

-----------------------------------------------------------------------------
(* Properties.                                                             *)

\* Types; and a request comes back after a delay exactly if Reconcile has
\* asked for one that is not over.
ScheduleTypeOK ==
  /\ age \in [1..passwords -> 0..(TTL + 1)]
  /\ due = {p \in 1..passwords : age[p] > Interval}
  /\ after \in [CR -> 0..Never] /\ delay \in [CR -> 0..Never]
  /\ timer = {c \in CR : delay[c] # Never}
  /\ sync \in 0..SyncPeriod
  /\ client \in [CR -> [password: 0..passwords, age: 0..Grace]]

\* Whoever reads a Secret often enough is never locked out: the account that
\* belongs to the password is not deleted, as its TTL leaves enough time to
\* replace and to spread the password, failures included ("schedule next
\* renewal check", "Delete account if expired").
ClientNotLockedOut ==
  \A c \in CR : client[c].password # 0 =>
    \E a \in accounts : a.cr = c /\ a.password = client[c].password

\* A Secret that works is never left without a date: when the operator is done
\* with a Ready CR, its request comes back no later than 30 s after the account
\* gets due, although the delay that Reconcile asks for is counted from the
\* account it has just replaced ("schedule next renewal check").
RenewalScheduled ==
  \A c \in CR : Settled(c) /\ cr[c].uid # 0 /\ cr[c].ready = "True" =>
    \A a \in accounts : a.cr = c /\ a.rotation = cr[c].rotation
                          /\ a.registry = getRegistryKeyForCR(cr[c])
      => delay[c] <= Interval + 1 - age[a.password]
=============================================================================
