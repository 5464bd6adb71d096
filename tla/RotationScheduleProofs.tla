------------------------ MODULE RotationScheduleProofs ------------------------
(***************************************************************************)
(* Proofs about RotationSchedule, for all sets of CRs and registries, all  *)
(* bounds, and all times that ScheduleAssumption allows.                   *)
(***************************************************************************)
EXTENDS RotationSchedule, ImageSecretProofs

USE DEF cacheVars, operatorVars, worldVars

-----------------------------------------------------------------------------
(* RotationSchedule is ImageSecret in time: what holds in all states of    *)
(* ImageSecret holds here.                                                 *)

\* Time passes, or the informers hand out their objects again.
LEMMA TimeSteps ==
  ASSUME [ScheduleNext]_scheduleVars
  PROVE  [Next]_vars \/ Resync \/ Tick
<1>1. ASSUME NEW c \in CR, ReconcileTimed(c) PROVE Next
  BY <1>1 DEF ReconcileTimed, Next, Operator
<1>2. ASSUME NEW c \in CR, APICallTimed(c) PROVE Next
  BY <1>2 DEF APICallTimed, Next, Operator
<1>3. ASSUME NEW c \in CR, RequeueTimed(c) PROVE Next
  BY <1>3 DEF RequeueTimed, Next, Operator
<1>4. ASSUME NEW c \in CR, Read(c) PROVE UNCHANGED vars
  BY <1>4 DEF Read
<1>5. CASE Watch
  BY <1>5 DEF Watch, Next, Operator
<1>6. CASE CrashTimed
  BY <1>6 DEF CrashTimed, Next
<1>7. CASE Surroundings
  BY <1>7 DEF Surroundings, ExpireTimed, Next, Environment
<1>8. CASE UNCHANGED scheduleVars
  BY <1>8 DEF scheduleVars
<1> QED BY <1>1, <1>2, <1>3, <1>4, <1>5, <1>6, <1>7, <1>8 DEF ScheduleNext

\* A step that changes at most work queue and due dates.
LEMMA QueueInformed ==
  ASSUME Informed, UNCHANGED <<cr, accounts, secrets, cacheVars, timer, w, passwords,
                               registry, uids, faults, edits>>,
         queue' \subseteq CR, queue \subseteq queue', due' \subseteq Nat
  PROVE  Informed'
<1>1. TypeOK /\ TypeOK' /\ Safe /\ RotationHasTarget'
  BY DEF Informed, Safe, TypeInv, TypeOK, RotationHasTarget, cacheVars
<1>2. ASSUME NEW c \in CR PROVE StoreSafe(c)' /\ WorkerSafe(c)'
  <2>1. UNCHANGED <<cr[c], crCache[c], secrets[c], w[c]>> /\ uids <= uids' /\ accounts' = accounts
    BY <1>1 DEF TypeOK, cacheVars
  <2> QED BY <1>1, <2>1, Frame
<1>3. ASSUME NEW c \in CR PROVE Versions(c)' /\ Current(c)'
  BY DEF Informed, Versions, Current, Outdated, Intact, cacheVars
<1> QED BY <1>1, <1>2, <1>3 DEF Informed, Safe, TypeInv

\* Resyncs and the passing of time do not disturb what is known of an operator
\* at work.
LEMMA ScheduleInformed == Informed /\ [ScheduleNext]_scheduleVars => Informed'
<1> SUFFICES ASSUME Informed, [ScheduleNext]_scheduleVars PROVE Informed'
  OBVIOUS
<1>1. queue \subseteq CR /\ passwords \in Nat
  BY DEF Informed, Safe, TypeInv, TypeOK
<1>2. CASE Resync
  BY <1>1, <1>2, QueueInformed, Informed DEF Resync, worldVars, Informed, Safe, TypeInv, TypeOK
<1>3. CASE Tick
  BY <1>1, <1>3, QueueInformed DEF Tick, operatorVars
<1> QED BY <1>2, <1>3, InformedStep, TimeSteps

-----------------------------------------------------------------------------
(* Types.                                                                  *)

\* The times that matter are numbers.
LEMMA Times ==
  /\ Interval \in Nat /\ Never \in Nat /\ Never = Interval + 2
  /\ TTL \in Nat \ {0} /\ SyncPeriod \in Nat \ {0} /\ Grace \in Nat
<1>1. TTL \in Nat /\ TTL \div 2 \in Nat
  BY ScheduleAssumption
<1> QED BY <1>1, ScheduleAssumption DEF Interval, Never

\* Each password in use has been generated.
Generated ==
  /\ \A a \in accounts \cup accountCache : a.cr \in CR => a.password \in 1..passwords
  /\ \A c \in CR : secrets[c].password <= passwords /\ w[c].password <= passwords

\* A delay that Reconcile will ask for is no longer than it takes an account
\* just created to get due.
Asked(c) == w[c].requeueAfter => w[c].pc # "idle" /\ after[c] <= Interval + 1

ScheduleTyped == ScheduleTypeOK /\ Generated /\ \A c \in CR : Asked(c)

\* What a call of Reconcile does to what it holds, and what it does to passwords.
LEMMA APICallKeeps ==
  ASSUME TypeOK, NEW c \in CR, APICall(c)
  PROVE  /\ \A d \in CR : d # c => w'[d] = w[d] /\ secrets'[d] = secrets[d]
         /\ w'[c] = Idle \/ (w'[c].pc # "idle" /\ (w'[c].requeueAfter => w[c].requeueAfter))
         /\ UNCHANGED <<cacheVars, worldVars>>
         /\ \/ /\ passwords' = passwords /\ accounts' \subseteq accounts
               /\ w'[c].password \in {w[c].password, 0}
               /\ secrets'[c].password \in {secrets[c].password, w[c].password}
            \/ /\ passwords' = passwords + 1 /\ secrets' = secrets
               /\ accounts' \subseteq accounts \cup {NewAccount(c)}
               /\ w'[c].password \in {w[c].password, passwords + 1}
               /\ w[c].pc = "createAccount"
               /\ w'[c].pc = "writeSecret" \/ (w'[c].pc = "report" /\ w'[c].cond # "True")
<1>0. w \in [CR -> Worker] /\ w[c] \in Worker /\ secrets \in [CR -> SecretObject]
  BY DEF TypeOK
<1>1. UNCHANGED <<cacheVars, worldVars>>
  BY DEF APICall, DeleteAccounts, RemoveFinalizer, AddFinalizer, ReportUnsynced,
     DeleteOldAccounts, UpdateRotation, CreateAccount, WriteSecret, Report
<1>2. \A d \in CR : d # c => w'[d] = w[d] /\ secrets'[d] = secrets[d]
  BY <1>0 DEF APICall, DeleteAccounts, RemoveFinalizer, AddFinalizer, ReportUnsynced,
     DeleteOldAccounts, UpdateRotation, CreateAccount, WriteSecret, Report, Goto,
     GotoReport, Return
<1> DEFINE Kept(z) == /\ z = Idle \/ (z.pc # "idle" /\ (z.requeueAfter => w[c].requeueAfter))
                      /\ z.password \in {w[c].password, 0}
<1>idle. \A requeue, then : Return(c, requeue, then) => Kept(w'[c])
  BY <1>0 DEF Return, Idle
<1>goto. \A step \in Step \ {"idle"} : Goto(c, step) => Kept(w'[c])
  BY <1>0 DEF Goto, Worker
<1>3. CASE CreateAccount(c)
  <2>1. PICK o \in Outcome :
          /\ Respond(o, ~NameTaken(NewAccount(c)))
          /\ accounts' = IF Applied(o) THEN accounts \cup {NewAccount(c)} ELSE accounts
          /\ w' = [w EXCEPT ![c] =
               IF AccountCreated(o)
               THEN [w[c] EXCEPT !.pc = "writeSecret", !.password = passwords + 1]
               ELSE [w[c] EXCEPT !.pc = "report", !.requeueAfter = FALSE,
                                 !.cond = ErrorCond(o, "accountExists")]]
    BY <1>3 DEF CreateAccount
  <2>2. /\ passwords' = passwords + 1 /\ secrets' = secrets
        /\ accounts' \subseteq accounts \cup {NewAccount(c)} /\ w[c].pc = "createAccount"
    BY <1>3, <2>1 DEF CreateAccount
  <2>3. CASE AccountCreated(o)
    <3>1. w'[c] = [w[c] EXCEPT !.pc = "writeSecret", !.password = passwords + 1]
      BY <1>0, <2>1, <2>3
    <3>2. w'[c].pc = "writeSecret" /\ w'[c].password = passwords + 1 /\ w'[c].requeueAfter = w[c].requeueAfter
      BY <1>0, <3>1 DEF Worker
    <3> QED BY <1>1, <1>2, <2>2, <3>2
  <2>4. CASE ~AccountCreated(o)
    <3>1. w'[c] = [w[c] EXCEPT !.pc = "report", !.requeueAfter = FALSE,
                                 !.cond = ErrorCond(o, "accountExists")]
      BY <1>0, <2>1, <2>4
    <3>2. /\ w'[c].pc = "report" /\ w'[c].password = w[c].password /\ ~w'[c].requeueAfter
          /\ w'[c].cond = ErrorCond(o, "accountExists")
      BY <1>0, <3>1 DEF Worker
    <3>3. ErrorCond(o, "accountExists") # "True"
      BY DEF ErrorCond
    <3> QED BY <1>1, <1>2, <2>2, <3>2, <3>3
  <2> QED BY <2>3, <2>4
<1>4. CASE ~CreateAccount(c)
  <2>1. passwords' = passwords /\ accounts' \subseteq accounts
    BY <1>4 DEF APICall, DeleteAccounts, RemoveFinalizer, AddFinalizer, ReportUnsynced,
       DeleteOldAccounts, UpdateRotation, WriteSecret, Report, deleteOrphanAccounts
  <2>2. secrets'[c].password \in {secrets[c].password, w[c].password}
    <3>1. secrets'[c] \in {secrets[c], NewSecret(c)}
      BY <1>0, <1>4 DEF APICall, DeleteAccounts, RemoveFinalizer, AddFinalizer, ReportUnsynced,
         DeleteOldAccounts, UpdateRotation, WriteSecret, Report
    <3> QED BY <3>1 DEF NewSecret
  <2>3. Kept(w'[c])
    <3>1. CASE DeleteAccounts(c)
      BY <1>idle, <1>goto, <3>1 DEF DeleteAccounts, Step
    <3>2. CASE RemoveFinalizer(c) \/ ReportUnsynced(c) \/ Report(c)
      <4>1. \E requeue, then : Return(c, requeue, then)
        BY <3>2 DEF RemoveFinalizer, ReportUnsynced, Report
      <4> QED BY <1>idle, <4>1
    <3>3. CASE AddFinalizer(c)
      <4>1. \/ \E requeue, then : Return(c, requeue, then)
            \/ \E cond : w' = [w EXCEPT ![c] = [@ EXCEPT !.pc = "reportUnsynced", !.cond = cond]]
        BY <3>3 DEF AddFinalizer
      <4>2. ASSUME NEW cond, w' = [w EXCEPT ![c] = [@ EXCEPT !.pc = "reportUnsynced", !.cond = cond]]
            PROVE  Kept(w'[c])
        BY <1>0, <4>2 DEF Worker
      <4> QED BY <1>idle, <4>1, <4>2
    <3>4. CASE DeleteOldAccounts(c)
      BY <1>goto, <3>4 DEF DeleteOldAccounts, Step
    <3>5. CASE UpdateRotation(c)
      <4> DEFINE i == Rotated(w[c].instance, w[c].registry)
      <4> HIDE DEF i
      <4>1. \/ w'[c] = [w[c] EXCEPT !.pc = "createAccount", !.base = i, !.instance = i]
            \/ \E cond : w'[c] = [w[c] EXCEPT !.pc = "report", !.instance = i,
                                              !.requeueAfter = FALSE, !.cond = cond]
        BY <1>0, <3>5 DEF UpdateRotation, i
      <4>2. ASSUME NEW cond, w'[c] = [w[c] EXCEPT !.pc = "report", !.instance = i,
                                              !.requeueAfter = FALSE, !.cond = cond]
            PROVE  Kept(w'[c])
        BY <1>0, <4>2 DEF Worker
      <4>3. CASE w'[c] = [w[c] EXCEPT !.pc = "createAccount", !.base = i, !.instance = i]
        BY <1>0, <4>3 DEF Worker
      <4> QED BY <4>1, <4>2, <4>3
    <3>6. CASE WriteSecret(c)
      <4>1. \E cond : GotoReport(c, cond, w[c].requeueAfter) \/ GotoReport(c, cond, FALSE)
        BY <3>6 DEF WriteSecret
      <4>2. /\ w'[c].pc = "report" /\ w'[c].password = w[c].password
            /\ w'[c].requeueAfter => w[c].requeueAfter
        BY <1>0, <4>1 DEF GotoReport, Worker
      <4> QED BY <4>2
    <3> QED BY <1>4, <3>1, <3>2, <3>3, <3>4, <3>5, <3>6 DEF APICall
  <2> QED BY <1>1, <1>2, <2>1, <2>2, <2>3
<1> QED BY <1>3, <1>4

\* What the other steps of ImageSecret do to passwords.
LEMMA RestKeeps ==
  ASSUME TypeOK, Rest
  PROVE  /\ passwords' = passwords /\ accounts' \subseteq accounts
         /\ accountCache' \in {accountCache, accounts}
         /\ \A d \in CR : secrets'[d].password \in {secrets[d].password, 0}
         /\ \A d \in CR : w'[d] \in {w[d], Idle}
<1>0. w \in [CR -> Worker] /\ secrets \in [CR -> SecretObject]
  BY DEF TypeOK
<1> DEFINE Kept == /\ passwords' = passwords /\ accounts' \subseteq accounts
                   /\ accountCache' \in {accountCache, accounts}
                   /\ \A d \in CR : \/ secrets'[d] = secrets[d] \/ secrets'[d] = NoSecret
                                    \/ secrets'[d] = [secrets[d] EXCEPT !.annotation = 0]
                                    \/ secrets'[d] \in {Tampered(secrets[d]), Cleared(secrets[d])}
                   /\ \A d \in CR : w'[d] \in {w[d], Idle}
<1>1. ASSUME NEW c \in CR, WatchCR(c) \/ WatchSecret(c) \/ RequeueAfter(c) PROVE Kept
  BY <1>1 DEF WatchCR, WatchSecret, RequeueAfter
<1>2. ASSUME WatchAccounts PROVE Kept
  BY <1>2 DEF WatchAccounts
<1>3. ASSUME Crash PROVE Kept
  BY <1>3 DEF Crash
<1>4. ASSUME NEW c \in CR, NEW r \in RegistryRefs, CreateCR(c, r) \/ SetRegistryRef(c, r) PROVE Kept
  BY <1>4 DEF CreateCR, SetRegistryRef
<1>5. ASSUME NEW c \in CR, DeleteCR(c) PROVE Kept
  BY <1>5 DEF DeleteCR
<1>6. ASSUME NEW c \in CR, EditSecret(c) \/ CollectGarbage(c) PROVE Kept
  BY <1>0, <1>6 DEF EditSecret, CollectGarbage
<1>7. ASSUME NEW a \in accounts, PassRotationInterval(a) \/ ExpireAccount(a) PROVE Kept
  BY <1>7 DEF PassRotationInterval, ExpireAccount
<1>8. ASSUME NEW r \in Registry, ChangeRegistry(r) PROVE Kept
  BY <1>8 DEF ChangeRegistry
<1> HIDE DEF Kept
<1>9. Kept
  <2>1. Environment => Kept
    BY <1>4, <1>5, <1>6, <1>7, <1>8 DEF Environment
  <2> QED BY <1>1, <1>2, <1>3, <2>1 DEF Rest
<1>10. /\ NoSecret.password = 0
       /\ \A s \in SecretObject : /\ [s EXCEPT !.annotation = 0].password = s.password
                                  /\ Tampered(s).password = 0 /\ Cleared(s).password = 0
  BY DEF NoSecret, SecretObject, Tampered, Cleared
<1>11. ASSUME NEW d \in CR PROVE secrets'[d].password \in {secrets[d].password, 0}
  <2>1. secrets[d] \in SecretObject
    BY <1>0
  <2> QED BY <1>9, <1>10, <2>1 DEF Kept
<1> QED BY <1>9, <1>11 DEF Kept

\* What Reconcile holds before its first call.
LEMMA ReconcileKeeps ==
  ASSUME TypeOK, NEW c \in CR, Reconcile(c)
  PROVE  /\ \A d \in CR : d # c => w'[d] = w[d]
         /\ w'[c] = w[c] \/ (w'[c].pc # "idle" /\ w'[c].password = 0)
         /\ UNCHANGED <<cr, accounts, secrets, cacheVars, worldVars, passwords, timer>>
<1>0. w \in [CR -> Worker]
  BY DEF TypeOK
<1>1. UNCHANGED <<cr, accounts, secrets, cacheVars, worldVars, passwords, timer>>
  BY DEF Reconcile, ReconcileNotFound, ReconcileDeleted, ReconcileNew, ReconcileUnavailable,
     ReconcileInSync, ReconcileRotate, ReconcileBcryptFails, Compare, Dequeue
<1>2. \/ w' = w \/ \E step \in {"deleteAccounts", "removeFinalizer", "addFinalizer"} : Load(c, step)
      \/ ReconcileUnavailable(c)
      \/ \E s, ns, cond, then : \E step \in {"report", "updateRotation", "deleteOldAccounts"} :
           Compare(c, crCache[c], s, ns, step, cond, then)
  BY DEF Reconcile, ReconcileNotFound, ReconcileDeleted, ReconcileNew, ReconcileInSync,
     ReconcileRotate, ReconcileBcryptFails
<1>3. CASE w' = w
  BY <1>1, <1>3
<1>4. ASSUME NEW step \in {"deleteAccounts", "removeFinalizer", "addFinalizer"}, Load(c, step)
      PROVE  (\A d \in CR : d # c => w'[d] = w[d]) /\ w'[c].pc # "idle" /\ w'[c].password = 0
  BY <1>0, <1>4 DEF Load, Idle
<1>5. CASE ReconcileUnavailable(c)
  <2>1. (\A d \in CR : d # c => w'[d] = w[d]) /\ w'[c].pc # "idle" /\ w'[c].password = 0
    BY <1>0, <1>5 DEF ReconcileUnavailable, Idle
  <2> QED BY <1>1, <2>1
<1>6. ASSUME NEW s, NEW ns, NEW cond, NEW then, NEW step \in {"report", "updateRotation", "deleteOldAccounts"},
             Compare(c, crCache[c], s, ns, step, cond, then)
      PROVE  (\A d \in CR : d # c => w'[d] = w[d]) /\ w'[c].pc # "idle" /\ w'[c].password = 0
  BY <1>0, <1>6 DEF Compare, Idle
<1> QED BY <1>1, <1>2, <1>3, <1>4, <1>5, <1>6

\* New accounts get new passwords.
LEMMA GeneratedKept ==
  ASSUME TypeOK, Generated, [Next]_vars
  PROVE  Generated' /\ passwords' \in {passwords, passwords + 1}
<1>0. /\ passwords \in Nat /\ w \in [CR -> Worker] /\ secrets \in [CR -> SecretObject]
      /\ \A c \in CR : w[c].password \in Nat /\ secrets[c].password \in Nat
  BY DEF TypeOK, Worker, SecretObject
<1>id. Idle.password = 0
  BY DEF Idle
<1>1. ASSUME NEW c \in CR, Reconcile(c) PROVE Generated' /\ passwords' = passwords
  <2>1. UNCHANGED <<accounts, accountCache, secrets, passwords>>
    BY <1>1, ReconcileKeeps
  <2>2. \A d \in CR : w'[d].password \in {w[d].password, 0}
    BY <1>1, ReconcileKeeps
  <2> QED BY <1>0, <2>1, <2>2 DEF Generated
<1>2. ASSUME NEW c \in CR, APICall(c) PROVE Generated' /\ passwords' \in {passwords, passwords + 1}
  <2>1. accountCache' = accountCache /\ passwords' \in {passwords, passwords + 1}
    BY <1>2, APICallKeeps
  <2>2. passwords' \in Nat /\ passwords <= passwords'
    BY <1>0, <2>1
  <2>3. \A a \in accounts' : a \in accounts \/ a.password = passwords'
    <3>1. NewAccount(c).password = passwords + 1
      BY DEF NewAccount
    <3>2. \/ accounts' \subseteq accounts
          \/ passwords' = passwords + 1 /\ accounts' \subseteq accounts \cup {NewAccount(c)}
      BY <1>2, APICallKeeps
    <3> QED BY <3>1, <3>2
  <2>4. passwords' = passwords + 1 \/ accounts' \subseteq accounts
    BY <1>2, APICallKeeps
  <2>5. \A a \in accounts' \cup accountCache' : a.cr \in CR => a.password \in 1..passwords'
    BY <1>0, <2>1, <2>2, <2>3, <2>4 DEF Generated
  <2>6. \A d \in CR : w'[d].password \in {w[d].password, 0, passwords'}
    BY <1>2, APICallKeeps, <1>id
  <2>7. \A d \in CR : secrets'[d].password \in {secrets[d].password, w[d].password}
    BY <1>2, APICallKeeps
  <2>8. \A d \in CR : secrets'[d].password <= passwords' /\ w'[d].password <= passwords'
    BY <1>0, <2>2, <2>6, <2>7 DEF Generated
  <2> QED BY <2>1, <2>5, <2>8 DEF Generated
<1>3. CASE Rest
  <2>1. \A a \in accounts' \cup accountCache' : a \in accounts \cup accountCache
    BY <1>3, RestKeeps
  <2>2. \A d \in CR : /\ secrets'[d].password \in {secrets[d].password, 0}
                      /\ w'[d].password \in {w[d].password, 0}
    BY <1>3, RestKeeps, <1>id
  <2>3. passwords' = passwords
    BY <1>3, RestKeeps
  <2> QED BY <1>0, <2>1, <2>2, <2>3 DEF Generated
<1>4. CASE UNCHANGED vars
  BY <1>4 DEF vars, Generated
<1> QED BY <1>1, <1>2, <1>3, <1>4, NextCases

\* Accounts just created have age 0, the others are as old as before.
LEMMA InstantAges ==
  ASSUME passwords \in Nat, passwords' \in {passwords, passwords + 1}, Instant, due' = due,
         age \in [1..passwords -> 0..(TTL + 1)],
         due = {p \in 1..passwords : age[p] > Interval}
  PROVE  /\ age' \in [1..passwords' -> 0..(TTL + 1)]
         /\ due' = {p \in 1..passwords' : age'[p] > Interval}
         /\ \A p \in 1..passwords : age'[p] = age[p]
<1>0. Interval \in Nat /\ TTL \in Nat
  BY Times
<1>1. \A p \in 1..passwords' : age'[p] = IF p <= passwords THEN age[p] ELSE 0
  BY DEF Instant
<1>2. \A p \in 1..passwords' : age'[p] \in 0..(TTL + 1)
  BY <1>0, <1>1
<1>3. age' \in [1..passwords' -> 0..(TTL + 1)]
  <2>1. age' = [p \in 1..passwords' |-> IF p <= passwords THEN age[p] ELSE 0]
    BY DEF Instant
  <2> QED BY <1>0, <2>1
<1>4. \A p \in 1..passwords' : age'[p] > Interval <=> p \in due
  BY <1>0, <1>1
<1>5. \A p \in due : p \in 1..passwords'
  OBVIOUS
<1> QED BY <1>0, <1>1, <1>3, <1>4, <1>5

\* Users read passwords that have been generated.
LEMMA ClientLater ==
  ASSUME passwords \in Nat, passwords' \in {passwords, passwords + 1},
         client \in [CR -> [password: 0..passwords, age: 0..Grace]], client' = client
  PROVE  client' \in [CR -> [password: 0..passwords', age: 0..Grace]]
<1>1. 0..passwords \subseteq 0..passwords'
  OBVIOUS
<1>2. [password: 0..passwords, age: 0..Grace] \subseteq [password: 0..passwords', age: 0..Grace]
  BY <1>1
<1> QED BY <1>2

\* renewalTTL is at most rotationInterval, with the 30 s.
LEMMA DelayBound ==
  ASSUME TypeOK, ScheduleTyped, NEW c \in CR, Delay(c) >= 0
  PROVE  Delay(c) \in 0..(Interval + 1)
<1> DEFINE i == crCache[c]
           ns == getRegistryKeyForCR(i)
           A == CachedAccount(c, i, ns)
           a == CHOOSE x \in A : TRUE
<1>0. Interval \in Nat /\ TTL \in Nat
  BY Times
<1>1. CASE ~registry[ns].ready
  BY <1>0, <1>1 DEF Delay
<1>2. CASE registry[ns].ready /\ A = {}
  BY <1>0, <1>2 DEF Delay
<1>3. CASE registry[ns].ready /\ A # {}
  <2>1. a \in A
    BY <1>3
  <2>2. a.password \in 1..passwords
    BY <2>1 DEF CachedAccount, ScheduleTyped, Generated
  <2>3. age[a.password] \in 0..(TTL + 1)
    BY <2>2 DEF ScheduleTyped, ScheduleTypeOK
  <2>4. Delay(c) = Interval - age[a.password] + 1
    BY <1>3 DEF Delay, RenewalTTL
  <2> HIDE DEF a
  <2> QED BY <1>0, <2>3, <2>4
<1> QED BY <1>1, <1>2, <1>3

\* Whether the status update has failed shows in what it has done.
LEMMA SameOutcome ==
  ASSUME TypeOK, NEW c \in CR, NEW cond, NEW o \in Outcome, NEW p \in Outcome,
         setReady(c, cond, o), setReady(c, cond, p)
  PROVE  Failed(o) <=> Failed(p)
<1>1. faults \in Nat
  BY DEF TypeOK
<1> DEFINE i == w[c].instance
           f == [i EXCEPT !.ready = cond, !.observedGeneration = i.generation]
<1> HIDE DEF f
<1>2. CASE i.ready # cond \/ cond = "accountExists" \/ i.observedGeneration # i.generation
  <2>1. UpdateCR(c, f, o) /\ UpdateCR(c, f, p)
    BY <1>2 DEF setReady, f
  <2> QED BY <1>1, <2>1 DEF UpdateCR, Respond, Outcome, Failed
<1>3. CASE ~(i.ready # cond \/ cond = "accountExists" \/ i.observedGeneration # i.generation)
  BY <1>3 DEF setReady, Failed
<1> QED BY <1>2, <1>3

\* Only a status update ends in a delay.
LEMMA APICallTimer ==
  ASSUME NEW c \in CR, APICall(c), w[c].pc # "report"
  PROVE  timer' = timer
BY DEF APICall, DeleteAccounts, RemoveFinalizer, AddFinalizer, ReportUnsynced,
   DeleteOldAccounts, UpdateRotation, CreateAccount, WriteSecret, Report, Return

\* What the end of Reconcile does to the delays.
LEMMA ReportTimes ==
  ASSUME TypeOK, ScheduleTyped, NEW c \in CR, APICallTimed(c), w[c].pc = "report"
  PROVE  /\ Report(c) /\ w'[c] = Idle
         /\ IF c \notin queue' /\ c \notin queue /\ w[c].requeueAfter
            THEN delay' = [delay EXCEPT ![c] = Smaller(@, after[c])]
            ELSE TRUE
         /\ \/ delay' = delay /\ timer' = timer
            \/ /\ w[c].requeueAfter /\ timer' = timer \cup {c}
               /\ delay' = [delay EXCEPT ![c] = Smaller(@, after[c])]
<1>1. Report(c)
  BY DEF APICallTimed, APICall, DeleteAccounts, RemoveFinalizer, AddFinalizer, ReportUnsynced,
     DeleteOldAccounts, UpdateRotation, CreateAccount, WriteSecret
<1>2. PICK o \in Outcome : setReady(c, w[c].cond, o) /\ Return(c, Failed(o), ~Failed(o) /\ w[c].requeueAfter)
  BY <1>1 DEF Report
<1>3. PICK p \in Outcome : setReady(c, w[c].cond, p) /\ delay' = Delayed(c, p)
  BY DEF APICallTimed
<1>4. Failed(o) <=> Failed(p)
  BY <1>2, <1>3, SameOutcome
<1>5. w'[c] = Idle
  BY <1>2 DEF Return, TypeOK
<1>6. c \notin queue' => ~Failed(o)
  BY <1>2 DEF Return
<1> QED BY <1>1, <1>2, <1>3, <1>4, <1>5, <1>6 DEF Return, Delayed

\* The delays that are running are those on the timer.
Delays ==
  /\ after \in [CR -> 0..Never] /\ delay \in [CR -> 0..Never]
  /\ timer = {c \in CR : delay[c] # Never}
  /\ \A c \in CR : Asked(c)

\* Reconcile sets at most one delay, and no delay that is running ends unnoticed.
LEMMA DelaysKept ==
  ASSUME TypeOK, TypeOK', ScheduleTyped, [ScheduleNext]_scheduleVars
  PROVE  Delays'
<1>0. /\ Interval \in Nat /\ Never \in Nat /\ Never = Interval + 2
      /\ Delays /\ w \in [CR -> Worker] /\ w' \in [CR -> Worker] /\ timer \subseteq CR
  BY Times DEF TypeOK, ScheduleTyped, ScheduleTypeOK, Delays
<1>id. Idle.pc = "idle" /\ ~Idle.requeueAfter
  BY DEF Idle
<1>frame. ASSUME UNCHANGED <<after, delay, timer>>, \A d \in CR : w'[d] \in {w[d], Idle}
          PROVE  Delays'
  BY <1>0, <1>id, <1>frame DEF Delays, Asked
<1>1. ASSUME NEW c \in CR, ReconcileTimed(c) PROVE Delays'
  <2>1. /\ \A d \in CR : d # c => w'[d] = w[d]
        /\ w'[c] = w[c] \/ w'[c].pc # "idle"
        /\ timer' = timer /\ delay' = delay
    BY <1>1, ReconcileKeeps DEF ReconcileTimed
  <2>2. w'[c].requeueAfter => Delay(c) \in 0..(Interval + 1)
    BY <1>1, DelayBound DEF ReconcileTimed
  <2>3. after' = [after EXCEPT ![c] = IF w'[c].requeueAfter THEN Delay(c) ELSE Never]
    BY <1>1 DEF ReconcileTimed
  <2>4. after' \in [CR -> 0..Never]
    BY <1>0, <2>2, <2>3 DEF Delays
  <2>5. ASSUME NEW d \in CR PROVE Asked(d)'
    <3>1. CASE d # c
      BY <1>0, <2>1, <2>3, <3>1 DEF Delays, Asked
    <3>2. CASE d = c
      <4>1. w'[c].requeueAfter => after'[c] <= Interval + 1
        BY <1>0, <2>2, <2>3 DEF Delays
      <4>2. w'[c].requeueAfter => w'[c].pc # "idle"
        BY <1>0, <2>1 DEF Delays, Asked
      <4> QED BY <3>2, <4>1, <4>2 DEF Asked
    <3> QED BY <3>1, <3>2
  <2> QED BY <1>0, <2>1, <2>4, <2>5 DEF Delays
<1>2. ASSUME NEW c \in CR, APICallTimed(c) PROVE Delays'
  <2>1. /\ \A d \in CR : d # c => w'[d] = w[d]
        /\ w'[c] = Idle \/ (w'[c].pc # "idle" /\ (w'[c].requeueAfter => w[c].requeueAfter))
    BY <1>2, APICallKeeps DEF APICallTimed
  <2>2. after' = IF w'[c].pc = "idle" THEN [after EXCEPT ![c] = Never] ELSE after
    BY <1>2 DEF APICallTimed
  <2>3. after' \in [CR -> 0..Never]
    BY <1>0, <2>2 DEF Delays
  <2>4. ASSUME NEW d \in CR PROVE Asked(d)'
    BY <1>0, <1>id, <2>1, <2>2, <2>4 DEF Delays, Asked
  <2>5. delay' \in [CR -> 0..Never] /\ timer' = {d \in CR : delay'[d] # Never}
    <3>1. CASE delay' = delay /\ timer' = timer
      BY <1>0, <3>1 DEF Delays
    <3>2. CASE /\ w[c].requeueAfter /\ timer' = timer \cup {c}
               /\ delay' = [delay EXCEPT ![c] = Smaller(@, after[c])]
      <4>1. after[c] \in 0..(Interval + 1) /\ delay[c] \in 0..Never
        BY <1>0, <3>2 DEF Delays, Asked
      <4>2. Smaller(delay[c], after[c]) \in 0..(Interval + 1)
        BY <1>0, <4>1 DEF Smaller
      <4>3. delay'[c] \in 0..Never /\ delay'[c] # Never
        BY <1>0, <3>2, <4>2 DEF Delays
      <4>4. delay' \in [CR -> 0..Never] /\ \A d \in CR : d # c => delay'[d] = delay[d]
        BY <1>0, <3>2, <4>2, <4>3 DEF Delays
      <4> QED BY <1>0, <3>2, <4>3, <4>4 DEF Delays
    <3>3. w[c].pc # "report" => delay' = delay /\ timer' = timer
      BY <1>2, APICallTimer DEF APICallTimed
    <3>4. w[c].pc = "report" =>
            \/ delay' = delay /\ timer' = timer
            \/ /\ w[c].requeueAfter /\ timer' = timer \cup {c}
               /\ delay' = [delay EXCEPT ![c] = Smaller(@, after[c])]
      BY <1>2, ReportTimes
    <3> QED BY <3>1, <3>2, <3>3, <3>4
  <2> QED BY <2>3, <2>4, <2>5 DEF Delays
<1>3. ASSUME NEW c \in CR, RequeueTimed(c) PROVE Delays'
  <2>1. /\ timer' = timer \ {c} /\ delay' = [delay EXCEPT ![c] = Never]
        /\ UNCHANGED <<w, after>>
    BY <1>3 DEF RequeueTimed, RequeueAfter
  <2>2. /\ delay' \in [CR -> 0..Never] /\ delay'[c] = Never
        /\ \A d \in CR : d # c => delay'[d] = delay[d]
    BY <1>0, <2>1 DEF Delays
  <2> QED BY <1>0, <2>1, <2>2 DEF Delays, Asked
<1>4. CASE Watch \/ Surroundings \/ Resync \/ \E c \in CR : Read(c)
  <2>1. UNCHANGED <<after, delay, timer>>
    BY <1>4 DEF Watch, Surroundings, Resync, Read, WatchAccounts, WatchCR, WatchSecret, CreateCR,
       ExpireTimed, ExpireAccount, vars
  <2>2. w' = w
    BY <1>4 DEF Watch, Surroundings, Resync, Read, WatchAccounts, WatchCR, WatchSecret, CreateCR,
       ExpireTimed, ExpireAccount, vars
  <2> QED BY <1>frame, <2>1, <2>2
<1>5. CASE CrashTimed
  <2>1. /\ w' = [c \in CR |-> Idle] /\ timer' = {} /\ after' = [c \in CR |-> Never]
        /\ delay' = [c \in CR |-> Never]
    BY <1>5 DEF CrashTimed, Crash
  <2> QED BY <1>0, <1>id, <2>1 DEF Delays, Asked
<1>6. CASE Tick
  <2>1. UNCHANGED <<w, after, timer>> /\ \A c \in CR : delay[c] # 0
    BY <1>6 DEF Tick
  <2>2. delay' = [c \in CR |-> IF delay[c] = Never THEN Never ELSE delay[c] - 1]
    BY <1>6 DEF Tick
  <2>3. \A c \in CR : delay'[c] \in 0..Never /\ (delay'[c] # Never <=> delay[c] # Never)
    BY <1>0, <2>1, <2>2 DEF Delays
  <2>4. delay' \in [CR -> 0..Never]
    BY <2>2, <2>3
  <2> QED BY <1>0, <2>1, <2>3, <2>4 DEF Delays, Asked
<1>7. CASE UNCHANGED scheduleVars
  BY <1>frame, <1>7 DEF scheduleVars, timeVars, vars
<1> QED BY <1>1, <1>2, <1>3, <1>4, <1>5, <1>6, <1>7 DEF ScheduleNext

\* Ages, due dates and what users have read.
LEMMA AgesKept ==
  ASSUME TypeOK, ScheduleTyped, [ScheduleNext]_scheduleVars,
         passwords' \in {passwords, passwords + 1}
  PROVE  /\ age' \in [1..passwords' -> 0..(TTL + 1)]
         /\ due' = {p \in 1..passwords' : age'[p] > Interval}
         /\ client' \in [CR -> [password: 0..passwords', age: 0..Grace]]
         /\ sync' \in 0..SyncPeriod
         /\ Tick \/ (\A p \in 1..passwords : age'[p] = age[p])
<1>0. /\ passwords \in Nat /\ TTL \in Nat /\ Grace \in Nat /\ SyncPeriod \in Nat \ {0}
      /\ Interval \in Nat /\ sync \in 0..SyncPeriod
      /\ age \in [1..passwords -> 0..(TTL + 1)]
      /\ due = {p \in 1..passwords : age[p] > Interval}
      /\ client \in [CR -> [password: 0..passwords, age: 0..Grace]]
  BY Times DEF TypeOK, ScheduleTyped, ScheduleTypeOK
<1> DEFINE Ages == /\ age' \in [1..passwords' -> 0..(TTL + 1)]
                   /\ due' = {p \in 1..passwords' : age'[p] > Interval}
                   /\ \A p \in 1..passwords : age'[p] = age[p]
           Readers == client' \in [CR -> [password: 0..passwords', age: 0..Grace]]
<1>ages. ASSUME Instant, due' = due PROVE Ages
  BY <1>0, <1>ages, InstantAges
<1>readers. ASSUME client' = client PROVE Readers
  BY <1>0, <1>readers, ClientLater
<1> HIDE DEF Ages, Readers
<1>1. ASSUME NEW c \in CR, ReconcileTimed(c) \/ APICallTimed(c) \/ RequeueTimed(c)
      PROVE  Ages /\ Readers /\ sync' = sync
  <2>1. Instant /\ client' = client /\ sync' = sync
    BY <1>1 DEF ReconcileTimed, APICallTimed, RequeueTimed
  <2>2. due' = due
    BY <1>1, ReconcileKeeps, APICallKeeps
       DEF ReconcileTimed, APICallTimed, RequeueTimed, RequeueAfter
  <2> QED BY <1>ages, <1>readers, <2>1, <2>2
<1>2. ASSUME Watch \/ Surroundings PROVE Ages /\ Readers /\ sync' = sync
  <2>1. Instant /\ client' = client /\ sync' = sync
    BY <1>2 DEF Watch, Surroundings
  <2>2. due' = due
    BY <1>2 DEF Watch, Surroundings, WatchAccounts, WatchCR, WatchSecret, CreateCR,
       ExpireTimed, ExpireAccount
  <2> QED BY <1>ages, <1>readers, <2>1, <2>2
<1>3. ASSUME Resync \/ CrashTimed PROVE Ages /\ Readers /\ sync' = 0
  <2>1. Instant /\ client' = client /\ sync' = 0 /\ due' = due
    BY <1>3 DEF Resync, CrashTimed, Crash
  <2> QED BY <1>ages, <1>readers, <2>1
<1>4. ASSUME NEW c \in CR, Read(c) PROVE Ages /\ Readers /\ sync' = sync
  <2>1. passwords' = passwords /\ age' = age /\ due' = due /\ sync' = sync
    BY <1>4 DEF Read, vars
  <2>2. secrets[c].password \in 0..passwords
    BY <1>0 DEF ScheduleTyped, Generated, TypeOK, SecretObject
  <2>3. client' = [client EXCEPT ![c] = [password |-> secrets[c].password, age |-> 0]]
    BY <1>4 DEF Read
  <2>4. [password |-> secrets[c].password, age |-> 0] \in [password: 0..passwords, age: 0..Grace]
    BY <1>0, <2>2
  <2>5. Readers
    BY <1>0, <2>1, <2>3, <2>4 DEF Readers
  <2> QED BY <1>0, <2>1, <2>5 DEF Ages
<1>5. ASSUME UNCHANGED scheduleVars PROVE Ages /\ Readers /\ sync' = sync
  <2>1. passwords' = passwords /\ age' = age /\ due' = due /\ sync' = sync /\ client' = client
    BY <1>5 DEF scheduleVars, timeVars, vars
  <2> QED BY <1>0, <1>readers, <2>1 DEF Ages
<1>6. CASE Tick
  <2>1. /\ passwords' = passwords /\ sync' = sync + 1 /\ sync < SyncPeriod
        /\ age' = [p \in 1..passwords |-> Smaller(age[p] + 1, TTL + 1)]
        /\ due' = {p \in 1..passwords : age'[p] > Interval}
        /\ client' = [c \in CR |-> [client[c] EXCEPT !.age = Smaller(@ + 1, Grace)]]
    BY <1>6 DEF Tick
  <2>2. \A p \in 1..passwords : Smaller(age[p] + 1, TTL + 1) \in 0..(TTL + 1)
    BY <1>0 DEF Smaller
  <2>3. ASSUME NEW c \in CR
        PROVE  [client[c] EXCEPT !.age = Smaller(@ + 1, Grace)] \in [password: 0..passwords, age: 0..Grace]
    <3>1. client[c] \in [password: 0..passwords, age: 0..Grace] /\ client[c].age \in 0..Grace
      BY <1>0
    <3>2. Smaller(client[c].age + 1, Grace) \in 0..Grace
      BY <1>0, <3>1 DEF Smaller
    <3> QED BY <3>1, <3>2
  <2>4. sync' \in 0..SyncPeriod
    BY <1>0, <2>1
  <2> QED BY <1>6, <2>1, <2>2, <2>3, <2>4
<1>7. (Ages /\ Readers /\ sync' \in {sync, 0}) \/ Tick
  BY <1>1, <1>2, <1>3, <1>4, <1>5 DEF ScheduleNext
<1> QED BY <1>0, <1>6, <1>7 DEF Ages, Readers

\* All times stay in their bounds; only Tick changes an age.
LEMMA ScheduleTypesKept ==
  ASSUME Informed, ScheduleTyped, [ScheduleNext]_scheduleVars
  PROVE  ScheduleTyped' /\ (Tick \/ \A p \in 1..passwords : age'[p] = age[p])
<1>1. TypeOK /\ TypeOK' /\ Generated
  BY ScheduleInformed DEF Informed, Safe, TypeInv, ScheduleTyped
<1>2. Generated' /\ passwords' \in {passwords, passwords + 1}
  <2>1. CASE Resync \/ Tick
    <3>1. UNCHANGED <<accounts, accountCache, secrets, w, passwords>>
      BY <2>1 DEF Resync, Tick
    <3> QED BY <1>1, <3>1 DEF Generated
  <2> QED BY <1>1, <2>1, TimeSteps, GeneratedKept
<1>3. Delays'
  BY <1>1, DelaysKept
<1>4. /\ age' \in [1..passwords' -> 0..(TTL + 1)]
      /\ due' = {p \in 1..passwords' : age'[p] > Interval}
      /\ client' \in [CR -> [password: 0..passwords', age: 0..Grace]]
      /\ sync' \in 0..SyncPeriod
      /\ Tick \/ (\A p \in 1..passwords : age'[p] = age[p])
  BY <1>1, <1>2, AgesKept
<1> QED BY <1>2, <1>3, <1>4 DEF Delays, ScheduleTyped, ScheduleTypeOK

\* At the start there are no ages and no delays.
LEMMA InitSchedule == ScheduleInit => Informed /\ ScheduleTyped
<1> SUFFICES ASSUME ScheduleInit PROVE Informed /\ ScheduleTyped
  OBVIOUS
<1>1. /\ passwords = 0 /\ age = <<>> /\ due = {} /\ timer = {} /\ sync = 0
      /\ w = [c \in CR |-> Idle] /\ secrets = [c \in CR |-> NoSecret]
      /\ after = [c \in CR |-> Never] /\ delay = [c \in CR |-> Never]
      /\ client = [c \in CR |-> [password |-> 0, age |-> 0]]
      /\ \A a \in accounts \cup accountCache : a.cr = Manual
  BY DEF ScheduleInit, Init, ManualAccount
<1>2. 1..passwords = {} /\ Never \in 0..Never /\ 0 \in 0..Grace /\ 0 \in 0..SyncPeriod /\ 0 \in 0..passwords
  BY <1>1, Times
<1>3. age \in [1..passwords -> 0..(TTL + 1)]
  <2>1. DOMAIN age = {}
    BY <1>1
  <2>2. age = [p \in {} |-> age[p]]
    BY <1>1
  <2> QED BY <1>2, <2>2
<1>4. Idle.password = 0 /\ ~Idle.requeueAfter /\ NoSecret.password = 0
  BY DEF Idle, NoSecret
<1>5. ScheduleTypeOK
  BY <1>1, <1>2, <1>3 DEF ScheduleTypeOK
<1>6. Generated /\ \A c \in CR : Asked(c)
  BY <1>1, <1>4, CRAssumption DEF Generated, Asked
<1> QED BY <1>5, <1>6, InitInformed DEF ScheduleInit, ScheduleTyped

\* Ages, delays and due dates stay in their bounds: a request comes back after
\* a delay exactly if Reconcile has asked for one that is not over, and no delay
\* is longer than rotationInterval and the 30 s.
THEOREM ScheduleTypeCorrect == ScheduleSpec => []ScheduleTypeOK
<1>1. Informed /\ ScheduleTyped /\ [ScheduleNext]_scheduleVars => (Informed /\ ScheduleTyped)'
  BY ScheduleInformed, ScheduleTypesKept
<1>2. ScheduleTyped => ScheduleTypeOK
  BY DEF ScheduleTyped
<1> QED BY <1>1, <1>2, InitSchedule, PTL DEF ScheduleSpec

-----------------------------------------------------------------------------
(* Renewals.  The delay that Reconcile asks for is about the account that  *)
(* it has found in sync; what happens until it has reported this enqueues  *)
(* a request.                                                              *)

\* The accounts there are and those the cache shows.
Accounts == accounts \cup accountCache

\* They are told apart by their names.
Unique == \A a, b \in Accounts : a.registry = b.registry /\ a.cr = b.cr /\ a.rotation = b.rotation => a = b

\* Users do not delete CRs here, ...
Alive(c) ==
  ~cr[c].deleting /\ ~crCache[c].deleting /\ (w[c].pc # "idle" => ~w[c].instance.deleting)

Undeleted(c) == w[c].pc \notin {"deleteAccounts", "removeFinalizer"}

\* ... so no rotation of a CR is ever repeated.
Numbered(c) ==
  \A a \in Accounts : a.cr = c =>
    /\ cr[c].uid # 0 /\ a.rotation <= cr[c].rotation
    /\ w[c].pc = "createAccount" => a.rotation < cr[c].rotation

Kept == Informed /\ ScheduleTyped /\ Unique
        /\ \A c \in CR : Alive(c) /\ Undeleted(c) /\ Numbered(c)

\* The accounts of c that the delay must be about, including those whose loss
\* the cache does not show yet.
Renewed(c) ==
  {a \in Accounts : /\ a.registry = getRegistryKeyForCR(crCache[c])
                    /\ a.cr = c /\ a.rotation = crCache[c].rotation}

\* Reconcile will ask for a delay that ends when the account gets due, ...
ReportsInTime(c) ==
  Reporting(c) => /\ w[c].requeueAfter
                  /\ \A a \in Renewed(c) : after[c] <= Interval + 1 - age[a.password]

\* ... and has asked for it.
RestsInTime(c) ==
  AtRest(c) => \A a \in Renewed(c) : delay[c] <= Interval + 1 - age[a.password]

\* What Reconcile writes of the CR is not marked as deleted.
LEMMA APICallAlive ==
  ASSUME TypeOK, NEW c \in CR, Alive(c), APICall(c) PROVE Alive(c)'
<1> DEFINE x == w[c]
           z == w'[c]
           i == w[c].instance
<1>0. /\ w \in [CR -> Worker] /\ x \in Worker /\ cr \in [CR -> CRObject] /\ i \in CRObject
  BY DEF TypeOK, Worker
<1>1. x.pc # "idle" /\ crCache' = crCache
  BY DEF APICall, DeleteAccounts, RemoveFinalizer, AddFinalizer, ReportUnsynced,
     DeleteOldAccounts, UpdateRotation, CreateAccount, WriteSecret, Report
<1>2. ~i.deleting /\ ~cr[c].deleting /\ ~crCache[c].deleting
  BY <1>1 DEF Alive
<1>alive. ASSUME ~cr'[c].deleting, z.pc # "idle" => ~z.instance.deleting PROVE Alive(c)'
  BY <1>1, <1>2, <1>alive DEF Alive
<1>write. ASSUME NEW f, NEW o, UpdateCR(c, f, o), ~f.deleting PROVE ~cr'[c].deleting
  BY <1>0, <1>2, <1>write DEF UpdateCR
<1>idle. Idle.pc = "idle"
  BY DEF Idle
<1>3. CASE RemoveFinalizer(c)
  <2>1. ~NoCR.deleting /\ z = Idle
    BY <1>0, <1>3 DEF NoCR, RemoveFinalizer, Return
  <2> QED BY <1>3, <1>alive, <1>write, <1>idle, <2>1 DEF RemoveFinalizer
<1>4. CASE AddFinalizer(c)
  <2>1. ~[i EXCEPT !.finalizer = TRUE].deleting
    BY <1>0, <1>2 DEF CRObject
  <2>2. z = Idle \/ \E cond : z = [x EXCEPT !.pc = "reportUnsynced", !.cond = cond]
    BY <1>0, <1>4 DEF AddFinalizer, Return
  <2>3. z = Idle \/ z.instance = i
    BY <1>0, <2>2 DEF Worker
  <2> QED BY <1>2, <1>4, <1>alive, <1>write, <1>idle, <2>1, <2>3 DEF AddFinalizer
<1>5. CASE ReportUnsynced(c)
  <2>1. ~[i EXCEPT !.synced = x.cond, !.observedGeneration = i.generation].deleting
    BY <1>0, <1>2 DEF CRObject
  <2>2. ~cr'[c].deleting
    BY <1>2, <1>5, <1>write, <2>1 DEF ReportUnsynced, setUnsynced
  <2>3. z = Idle
    BY <1>0, <1>5 DEF ReportUnsynced, Return
  <2> QED BY <1>alive, <1>idle, <2>2, <2>3
<1>6. CASE Report(c)
  <2>1. ~[i EXCEPT !.ready = x.cond, !.observedGeneration = i.generation].deleting
    BY <1>0, <1>2 DEF CRObject
  <2>2. ~cr'[c].deleting
    BY <1>2, <1>6, <1>write, <2>1 DEF Report, setReady
  <2>3. z = Idle
    BY <1>0, <1>6 DEF Report, Return
  <2> QED BY <1>alive, <1>idle, <2>2, <2>3
<1>7. CASE UpdateRotation(c)
  <2> DEFINE f == Rotated(i, x.registry)
  <2>1. ~f.deleting
    BY <1>0, <1>2 DEF Rotated, CRObject
  <2> HIDE DEF f
  <2>2. \/ z = [x EXCEPT !.pc = "createAccount", !.base = f, !.instance = f]
        \/ \E cond : z = [x EXCEPT !.pc = "report", !.instance = f, !.requeueAfter = FALSE, !.cond = cond]
    BY <1>0, <1>7 DEF UpdateRotation, f
  <2>3. z.instance = f
    BY <1>0, <2>2 DEF Worker
  <2>4. ~cr'[c].deleting
    BY <1>7, <1>write, <2>1 DEF UpdateRotation, f
  <2> QED BY <1>alive, <2>1, <2>3, <2>4
<1>8. CASE DeleteAccounts(c) \/ DeleteOldAccounts(c) \/ CreateAccount(c) \/ WriteSecret(c)
  <2>1. cr' = cr
    BY <1>8 DEF DeleteAccounts, DeleteOldAccounts, CreateAccount, WriteSecret
  <2>2. z = Idle \/ z.instance = i
    <3>1. CASE CreateAccount(c)
      BY <1>0, <3>1 DEF CreateAccount, Worker
    <3>2. CASE DeleteAccounts(c) \/ DeleteOldAccounts(c)
      BY <1>0, <3>2 DEF DeleteAccounts, DeleteOldAccounts, Goto, Return, Worker
    <3>3. CASE WriteSecret(c)
      <4>1. \E cond, again : GotoReport(c, cond, again)
        BY <3>3 DEF WriteSecret
      <4> QED BY <1>0, <4>1 DEF GotoReport, Worker
    <3> QED BY <1>8, <3>1, <3>2, <3>3
  <2> QED BY <1>2, <1>alive, <1>idle, <2>1, <2>2
<1> QED BY <1>3, <1>4, <1>5, <1>6, <1>7, <1>8 DEF APICall

\* A step of one Reconcile does not touch the other CRs.
LEMMA OthersAlone ==
  ASSUME TypeOK, NEW c \in CR, Reconcile(c) \/ APICall(c), NEW d \in CR, d # c
  PROVE  cr'[d] = cr[d] /\ crCache' = crCache /\ w'[d] = w[d]
<1>1. cr \in [CR -> CRObject] /\ w \in [CR -> Worker]
  BY DEF TypeOK
<1>2. CASE Reconcile(c)
  BY <1>2, ReconcileKeeps
<1>3. CASE APICall(c)
  <2>1. crCache' = crCache /\ w'[d] = w[d]
    BY <1>3, APICallKeeps
  <2>2. cr'[d] = cr[d]
    BY <1>1, <1>3 DEF APICall, DeleteAccounts, RemoveFinalizer, AddFinalizer, ReportUnsynced,
       DeleteOldAccounts, UpdateRotation, CreateAccount, WriteSecret, Report,
       setReady, setUnsynced, UpdateCR
  <2> QED BY <2>1, <2>2
<1> QED BY <1>2, <1>3

\* No step in time marks a CR as deleted.
LEMMA AliveKept ==
  ASSUME TypeOK, \A c \in CR : Alive(c), [ScheduleNext]_scheduleVars
  PROVE  \A c \in CR : Alive(c)'
<1>0. cr \in [CR -> CRObject] /\ crCache \in [CR -> CRObject] /\ w \in [CR -> Worker]
  BY DEF TypeOK
<1>same. ASSUME cr' = cr, crCache' = crCache, w' = w PROVE \A c \in CR : Alive(c)'
  BY <1>same DEF Alive
<1>1. ASSUME NEW c \in CR, ReconcileTimed(c) PROVE \A d \in CR : Alive(d)'
  <2>1. Reconcile(c)
    BY <1>1 DEF ReconcileTimed
  <2>2. UNCHANGED <<cr, crCache>>
    BY <2>1, ReconcileKeeps
  <2>3. w'[c] = w[c] \/ w'[c].instance = crCache[c]
    <3>1. \/ w' = w \/ \E step : Load(c, step)
          \/ ReconcileUnavailable(c)
          \/ \E s, ns, step, cond, then : Compare(c, crCache[c], s, ns, step, cond, then)
      BY <2>1 DEF Reconcile, ReconcileNotFound, ReconcileDeleted, ReconcileNew, ReconcileInSync,
         ReconcileRotate, ReconcileBcryptFails
    <3>2. ASSUME NEW step, Load(c, step) PROVE w'[c].instance = crCache[c]
      BY <1>0, <3>2 DEF Load, Idle
    <3>3. ASSUME NEW s, NEW ns, NEW step, NEW cond, NEW then,
                 Compare(c, crCache[c], s, ns, step, cond, then)
          PROVE  w'[c].instance = crCache[c]
      BY <1>0, <3>3 DEF Compare, Idle
    <3>4. ReconcileUnavailable(c) => w'[c].instance = crCache[c]
      BY <1>0 DEF ReconcileUnavailable, Idle
    <3> QED BY <3>1, <3>2, <3>3, <3>4
  <2>4. Alive(c)'
    BY <2>2, <2>3 DEF Alive
  <2>5. ASSUME NEW d \in CR, d # c PROVE Alive(d)'
    BY <2>1, <2>2, <2>5, OthersAlone DEF Alive
  <2> QED BY <2>4, <2>5
<1>2. ASSUME NEW c \in CR, APICallTimed(c) PROVE \A d \in CR : Alive(d)'
  <2>1. APICall(c)
    BY <1>2 DEF APICallTimed
  <2>2. ASSUME NEW d \in CR, d # c PROVE Alive(d)'
    BY <2>1, <2>2, OthersAlone DEF Alive
  <2> QED BY <2>1, <2>2, APICallAlive
<1>3. ASSUME NEW c \in CR, RequeueTimed(c) \/ Read(c) PROVE \A d \in CR : Alive(d)'
  <2>1. UNCHANGED <<cr, crCache, w>>
    BY <1>3 DEF RequeueTimed, RequeueAfter, Read, vars
  <2> QED BY <1>same, <2>1
<1>4. CASE Watch
  <2>1. /\ cr' = cr /\ w' = w
        /\ \A d \in CR : crCache'[d] \in {crCache[d], cr[d]}
    BY <1>0, <1>4 DEF Watch, WatchAccounts, WatchCR, WatchSecret
  <2> QED BY <2>1 DEF Alive
<1>5. CASE CrashTimed
  BY <1>5 DEF CrashTimed, Crash, Idle, Alive
<1>6. CASE Surroundings
  <2>1. ASSUME NEW d \in CR, NEW r \in RegistryRefs, CreateCR(d, r)
        PROVE  crCache' = crCache /\ w' = w /\ \A e \in CR : cr'[e] = cr[e] \/ ~cr'[e].deleting
    BY <1>0, <2>1 DEF CreateCR, NoCR
  <2>2. ASSUME NEW a \in accounts, ExpireTimed(a) PROVE UNCHANGED <<cr, crCache, w>>
    BY <2>2 DEF ExpireTimed, ExpireAccount
  <2> QED BY <1>6, <1>same, <2>1, <2>2 DEF Surroundings, Alive
<1>7. CASE Resync \/ Tick
  <2>1. UNCHANGED <<cr, crCache, w>>
    BY <1>7 DEF Resync, Tick
  <2> QED BY <1>same, <2>1
<1>8. CASE UNCHANGED scheduleVars
  BY <1>same, <1>8 DEF scheduleVars, vars
<1> QED BY <1>1, <1>2, <1>3, <1>4, <1>5, <1>6, <1>7, <1>8 DEF ScheduleNext

\* The steps in time, as one CR sees them.
LEMMA TimedStepsOf ==
  ASSUME TypeOK, ScheduleTyped, [ScheduleNext]_scheduleVars, NEW c \in CR
  PROVE  \/ ReconcileTimed(c) \/ APICallTimed(c) \/ CrashTimed
         \/ /\ w'[c] = w[c] /\ after'[c] = after[c]
            /\ delay'[c] = delay[c] \/ Tick \/ c \in queue'
<1>0. after \in [CR -> 0..Never] /\ delay \in [CR -> 0..Never]
  BY DEF ScheduleTyped, ScheduleTypeOK
<1> DEFINE Quiet == /\ w'[c] = w[c] /\ after'[c] = after[c]
                    /\ delay'[c] = delay[c] \/ Tick \/ c \in queue'
<1>1. ASSUME NEW d \in CR, d # c, ReconcileTimed(d) PROVE Quiet
  BY <1>0, <1>1, OthersAlone DEF ReconcileTimed
<1>2. ASSUME NEW d \in CR, d # c, APICallTimed(d) PROVE Quiet
  <2>1. w'[c] = w[c]
    BY <1>2, OthersAlone DEF APICallTimed
  <2>2. delay'[c] = delay[c]
    BY <1>0, <1>2 DEF APICallTimed, Delayed
  <2> QED BY <1>0, <1>2, <2>1, <2>2 DEF APICallTimed
<1>3. ASSUME NEW d \in CR, RequeueTimed(d) PROVE Quiet
  BY <1>0, <1>3 DEF RequeueTimed, RequeueAfter
<1>4. ASSUME NEW d \in CR, Read(d) PROVE Quiet
  BY <1>4 DEF Read, vars
<1>5. CASE Watch \/ Surroundings \/ Resync
  BY <1>5 DEF Watch, WatchAccounts, WatchCR, WatchSecret, Surroundings, CreateCR, ExpireTimed,
     ExpireAccount, Resync
<1>6. CASE Tick
  BY <1>6 DEF Tick
<1>7. CASE UNCHANGED scheduleVars
  BY <1>7 DEF scheduleVars, timeVars, vars
<1> QED BY <1>1, <1>2, <1>3, <1>4, <1>5, <1>6, <1>7 DEF ScheduleNext

\* Where accounts come from.
LEMMA AccountsOf ==
  ASSUME TypeOK, ScheduleTyped, [ScheduleNext]_scheduleVars, NEW c \in CR,
         NEW a \in Accounts', a.cr = c
  PROVE  \/ a \in Accounts
         \/ /\ a = NewAccount(c) /\ w[c].pc = "createAccount" /\ APICall(c)
            /\ w'[c].pc = "writeSecret" \/ (w'[c].pc = "report" /\ w'[c].cond # "True")
<1>1. ASSUME NEW d \in CR, APICall(d)
      PROVE  \/ a \in Accounts
             \/ /\ a = NewAccount(c) /\ w[c].pc = "createAccount" /\ APICall(c)
                /\ w'[c].pc = "writeSecret" \/ (w'[c].pc = "report" /\ w'[c].cond # "True")
  <2>1. NewAccount(d).cr = d
    BY DEF NewAccount
  <2> QED BY <1>1, <2>1, APICallKeeps DEF Accounts
<1>2. ASSUME NEW d \in CR, Reconcile(d) PROVE a \in Accounts
  BY <1>2, ReconcileKeeps DEF Accounts
<1>3. CASE Rest
  BY <1>3, RestKeeps DEF Accounts
<1>4. CASE Resync \/ Tick
  BY <1>4 DEF Resync, Tick, Accounts
<1>5. CASE UNCHANGED vars
  BY <1>5 DEF vars, Accounts
<1> QED BY <1>1, <1>2, <1>3, <1>4, <1>5, TimeSteps, NextCases

\* What a Reconcile of a CR that is not deleted begins with.
LEMMA StartsAt ==
  ASSUME TypeOK, NEW c \in CR, Alive(c), Reconcile(c)
  PROVE  w'[c] = w[c] \/ w'[c].pc \in {"addFinalizer", "report", "updateRotation", "deleteOldAccounts"}
<1>0. w \in [CR -> Worker]
  BY DEF TypeOK
<1>1. \/ w' = w \/ Load(c, "addFinalizer") \/ ReconcileUnavailable(c)
      \/ \E s, ns, cond, then : \E step \in {"report", "updateRotation", "deleteOldAccounts"} :
           Compare(c, crCache[c], s, ns, step, cond, then)
  BY DEF Reconcile, ReconcileNotFound, ReconcileDeleted, ReconcileNew,
     ReconcileInSync, ReconcileRotate, ReconcileBcryptFails, Alive
<1>2. ASSUME NEW s, NEW ns, NEW cond, NEW then, NEW step \in {"report", "updateRotation", "deleteOldAccounts"},
             Compare(c, crCache[c], s, ns, step, cond, then)
      PROVE  w'[c].pc = step
  BY <1>0, <1>2 DEF Compare, Idle
<1>3. Load(c, "addFinalizer") => w'[c].pc = "addFinalizer"
  BY <1>0 DEF Load, Idle
<1>4. ReconcileUnavailable(c) => w'[c].pc = "report"
  BY <1>0 DEF ReconcileUnavailable, Idle
<1> QED BY <1>1, <1>2, <1>3, <1>4

\* What it ends with.
LEMMA EndsAt ==
  ASSUME TypeOK, NEW c \in CR,
         RemoveFinalizer(c) \/ AddFinalizer(c) \/ ReportUnsynced(c) \/ Report(c)
  PROVE  w'[c].pc \in {"idle", "reportUnsynced"}
<1>0. w \in [CR -> Worker] /\ w[c] \in Worker
  BY DEF TypeOK
<1>1. \/ \E requeue, then : Return(c, requeue, then)
      \/ \E cond : w' = [w EXCEPT ![c] = [@ EXCEPT !.pc = "reportUnsynced", !.cond = cond]]
  BY DEF RemoveFinalizer, AddFinalizer, ReportUnsynced, Report
<1>2. ASSUME NEW requeue, NEW then, Return(c, requeue, then) PROVE w'[c].pc = "idle"
  BY <1>0, <1>2 DEF Return, Idle
<1>3. ASSUME NEW cond, w' = [w EXCEPT ![c] = [@ EXCEPT !.pc = "reportUnsynced", !.cond = cond]]
      PROVE  w'[c].pc = "reportUnsynced"
  BY <1>0, <1>3 DEF Worker
<1> QED BY <1>1, <1>2, <1>3

\* No finalizer runs.
LEMMA UndeletedKept ==
  ASSUME TypeOK, ScheduleTyped, [ScheduleNext]_scheduleVars, NEW c \in CR, Alive(c), Undeleted(c)
  PROVE  Undeleted(c)'
<1>0. w \in [CR -> Worker] /\ w[c] \in Worker
  BY DEF TypeOK
<1>1. CASE ReconcileTimed(c)
  BY <1>1, StartsAt DEF ReconcileTimed, Undeleted
<1>2. CASE APICallTimed(c)
  <2>1. ~DeleteAccounts(c) /\ ~RemoveFinalizer(c)
    BY DEF Undeleted, DeleteAccounts, RemoveFinalizer
  <2>2. CASE AddFinalizer(c) \/ ReportUnsynced(c) \/ Report(c)
    BY <2>2, EndsAt DEF Undeleted
  <2>3. CASE DeleteOldAccounts(c)
    BY <1>0, <2>3 DEF DeleteOldAccounts, Goto, Worker, Undeleted
  <2>4. CASE UpdateRotation(c)
    <3> DEFINE i == Rotated(w[c].instance, w[c].registry)
    <3> HIDE DEF i
    <3>1. \/ w'[c] = [w[c] EXCEPT !.pc = "createAccount", !.base = i, !.instance = i]
          \/ \E cond : w'[c] = [w[c] EXCEPT !.pc = "report", !.instance = i,
                                            !.requeueAfter = FALSE, !.cond = cond]
      BY <1>0, <2>4 DEF UpdateRotation, i
    <3>2. w'[c].pc \in {"createAccount", "report"}
      BY <1>0, <3>1 DEF Worker
    <3> QED BY <3>2 DEF Undeleted
  <2>5. CASE CreateAccount(c)
    BY <1>0, <2>5 DEF CreateAccount, Worker, Undeleted
  <2>6. CASE WriteSecret(c)
    <3>1. \E cond, again : GotoReport(c, cond, again)
      BY <2>6 DEF WriteSecret
    <3> QED BY <1>0, <3>1 DEF GotoReport, Worker, Undeleted
  <2> QED BY <1>2, <2>1, <2>2, <2>3, <2>4, <2>5, <2>6 DEF APICallTimed, APICall
<1>3. CASE CrashTimed
  BY <1>3 DEF CrashTimed, Crash, Idle, Undeleted
<1> QED BY <1>1, <1>2, <1>3, TimedStepsOf DEF Undeleted

\* The accounts that a delay is about have an age, and it is the same after a
\* step that does not take time.
LEMMA RenewedAges ==
  ASSUME Kept, NEW c \in CR, NEW a \in Renewed(c)
  PROVE  a.password \in 1..passwords /\ age[a.password] \in 0..(TTL + 1)
<1>1. a.password \in 1..passwords
  BY DEF Kept, ScheduleTyped, Generated, Renewed, Accounts
<1> QED BY <1>1 DEF Kept, ScheduleTyped, ScheduleTypeOK

\* The delay of a Reconcile that finds everything in sync.
LEMMA AsksInTime ==
  ASSUME Kept, NEW c \in CR, ReconcileInSync(c), ReconcileTimed(c)
  PROVE  /\ w'[c].requeueAfter
         /\ \A a \in Renewed(c) : after'[c] = Interval + 1 - age[a.password]
<1> DEFINE i == crCache[c]
           ns == getRegistryKeyForCR(i)
<1>0. /\ w \in [CR -> Worker] /\ after \in [CR -> 0..Never] /\ Interval \in Nat
  BY Times DEF Kept, Informed, Safe, TypeInv, TypeOK, ScheduleTyped, ScheduleTypeOK
<1>1. PICK then \in RenewalTimer(c, i, ns) :
        Compare(c, i, secretCache[c], ns, "report", "True", then)
  BY DEF ReconcileInSync
<1>2. RenewalTimer(c, i, ns) = {TRUE} /\ CachedAccount(c, i, ns) # {}
  BY DEF ReconcileInSync, NeedsRotation, RenewalTimer
<1>3. w'[c].requeueAfter /\ registry[ns].ready
  BY <1>0, <1>1, <1>2 DEF Compare, Idle
<1>4. after'[c] = Delay(c)
  BY <1>0, <1>3 DEF ReconcileTimed
<1>5. ASSUME NEW a \in Renewed(c) PROVE after'[c] = Interval + 1 - age[a.password]
  <2>1. (CHOOSE x \in CachedAccount(c, i, ns) : TRUE) = a
    BY <1>2 DEF Renewed, CachedAccount, Kept, Unique, Accounts
  <2>2. Delay(c) = Interval - age[a.password] + 1
    BY <1>2, <1>3, <2>1 DEF Delay, RenewalTTL
  <2> QED BY <1>0, <1>4, <2>2, RenewedAges
<1> QED BY <1>3, <1>5

\* What is about to be reported has a delay that is short enough.
LEMMA ReportsKept ==
  ASSUME Kept, Kept', [ScheduleNext]_scheduleVars, NEW c \in CR, ReportsInTime(c)
  PROVE  ReportsInTime(c)'
<1> SUFFICES ASSUME Reporting(c)'
             PROVE  /\ w'[c].requeueAfter
                    /\ \A a \in Renewed(c)' : after'[c] <= Interval + 1 - age'[a.password]
  BY DEF ReportsInTime
<1>0. /\ Informed /\ TypeOK /\ TypeOK' /\ ScheduleTyped /\ w \in [CR -> Worker]
  BY DEF Kept, Informed, Safe, TypeInv, TypeOK
<1>1. ~Tick
  BY DEF Tick, Reporting
<1>2. ASSUME SeenSame(c), w'[c].requeueAfter,
             \A a \in Renewed(c) : after'[c] <= Interval + 1 - age[a.password]
      PROVE  /\ w'[c].requeueAfter
             /\ \A a \in Renewed(c)' : after'[c] <= Interval + 1 - age'[a.password]
  <2>1. \A a \in Renewed(c)' : a \in Renewed(c)
    BY <1>0, <1>2, AccountsOf DEF SeenSame, Renewed, getRegistryKeyForCR, Reporting
  <2>2. \A a \in Renewed(c) : age'[a.password] = age[a.password]
    BY <1>0, <1>1, RenewedAges, ScheduleTypesKept
  <2> QED BY <1>2, <2>1, <2>2
<1>3. ASSUME Reporting(c), SeenSame(c), w'[c] = w[c], ~ReconcileTimed(c)
      PROVE  /\ w'[c].requeueAfter
             /\ \A a \in Renewed(c)' : after'[c] <= Interval + 1 - age'[a.password]
  <2>1. w[c].pc = "report"
    BY <1>3 DEF Reporting
  <2>2. ~CrashTimed
    BY <1>3, <2>1 DEF CrashTimed, Crash, Idle
  <2>3. after'[c] = after[c]
    BY <1>0, <1>3, <2>1, <2>2, TimedStepsOf DEF APICallTimed
  <2> QED BY <1>2, <1>3, <2>3 DEF ReportsInTime
<1>4. CASE [Next]_vars
  <2>1. /\ SeenSame(c)
        /\ ReconcileInSync(c) \/ (Reporting(c) /\ w'[c] = w[c] /\ ~Reconcile(c))
    BY <1>0, <1>4, StaysReporting
  <2>2. CASE ReconcileInSync(c)
    <3>1. w[c].pc = "idle" /\ w'[c].pc = "report"
      BY <2>2 DEF ReconcileInSync, Compare, Dequeue, SameController, Reporting
    <3>2. ~APICallTimed(c)
      BY <3>1 DEF APICallTimed, APICall, DeleteAccounts, RemoveFinalizer, AddFinalizer,
         ReportUnsynced, DeleteOldAccounts, UpdateRotation, CreateAccount, WriteSecret, Report
    <3>3. ~CrashTimed
      BY <3>1 DEF CrashTimed, Crash, Idle
    <3>4. ReconcileTimed(c)
      BY <1>0, <3>1, <3>2, <3>3, TimedStepsOf
    <3>5. \A a \in Renewed(c) : after'[c] <= Interval + 1 - age[a.password]
      <4>1. ASSUME NEW a \in Renewed(c) PROVE after'[c] <= Interval + 1 - age[a.password]
        <5>1. after'[c] = Interval + 1 - age[a.password]
          BY <2>2, <3>4, AsksInTime
        <5>2. Interval \in Nat /\ age[a.password] \in Int
          BY RenewedAges, Times
        <5> QED BY <5>1, <5>2
      <4> QED BY <4>1
    <3> QED BY <1>2, <2>1, <2>2, <3>4, <3>5, AsksInTime
  <2>3. CASE Reporting(c) /\ w'[c] = w[c] /\ ~Reconcile(c)
    BY <1>3, <2>1, <2>3 DEF ReconcileTimed
  <2> QED BY <2>1, <2>2, <2>3
<1>5. CASE Resync
  <2>1. /\ UNCHANGED <<w, cr, crCache, secretCache, accountCache>> /\ queue \subseteq queue'
    BY <1>5 DEF Resync
  <2>2. Reporting(c) /\ SeenSame(c)
    BY <2>1 DEF Reporting, Outdated, SeenSame
  <2>3. ~ReconcileTimed(c)
    BY <2>2 DEF Reporting, ReconcileTimed, Reconcile, ReconcileNotFound, ReconcileDeleted,
       ReconcileNew, ReconcileUnavailable, ReconcileInSync, ReconcileRotate,
       ReconcileBcryptFails, Compare, Dequeue, SameController
  <2> QED BY <1>3, <2>1, <2>2, <2>3
<1> QED BY <1>1, <1>4, <1>5, TimeSteps

\* What has been reported comes back in time.
LEMMA RestsKept ==
  ASSUME Kept, Kept', [ScheduleNext]_scheduleVars, NEW c \in CR, ReportsInTime(c), RestsInTime(c)
  PROVE  RestsInTime(c)'
<1> SUFFICES ASSUME AtRest(c)', NEW a \in Renewed(c)'
             PROVE  delay'[c] <= Interval + 1 - age'[a.password]
  BY DEF RestsInTime
<1>0. /\ Informed /\ TypeOK /\ TypeOK' /\ ScheduleTyped /\ w \in [CR -> Worker]
      /\ Interval \in Nat /\ TTL \in Nat /\ Never \in Nat /\ Never = Interval + 2
      /\ after \in [CR -> 0..Never] /\ delay \in [CR -> 0..Never]
  BY Times DEF Kept, Informed, Safe, TypeInv, TypeOK, ScheduleTyped, ScheduleTypeOK
<1>1. /\ w'[c].pc = "idle" /\ c \notin queue' /\ cr'[c].uid # 0
  BY DEF AtRest
<1>2. SeenSame(c) => a \in Renewed(c)
  BY <1>0, <1>1, AccountsOf DEF SeenSame, Renewed, getRegistryKeyForCR
<1>crash. ~CrashTimed
  BY <1>1 DEF CrashTimed, Crash
<1>3. CASE Tick
  <2>1. /\ UNCHANGED <<w, cr, crCache, secretCache, accountCache, queue>> /\ delay[c] # 0
        /\ age' = [p \in 1..passwords |-> Smaller(age[p] + 1, TTL + 1)]
        /\ delay'[c] = IF delay[c] = Never THEN Never ELSE delay[c] - 1
    BY <1>3 DEF Tick
  <2>2. AtRest(c) /\ SeenSame(c)
    BY <2>1 DEF AtRest, SeenSame
  <2>3. a.password \in 1..passwords /\ age[a.password] \in 0..(TTL + 1)
    BY <1>2, <2>2, RenewedAges
  <2>4. delay[c] <= Interval + 1 - age[a.password]
    BY <1>2, <2>2 DEF RestsInTime
  <2>5. age'[a.password] <= age[a.password] + 1 /\ age'[a.password] \in Int
    BY <1>0, <2>1, <2>3 DEF Smaller
  <2>6. delay[c] \in Nat
    BY <1>0
  <2> QED BY <1>0, <2>1, <2>3, <2>4, <2>5, <2>6
<1>4. ASSUME ~Tick, SeenSame(c), AtRest(c), ~APICallTimed(c)
      PROVE  delay'[c] <= Interval + 1 - age'[a.password]
  <2>1. age'[a.password] = age[a.password]
    BY <1>0, <1>2, <1>4, RenewedAges, ScheduleTypesKept
  <2>2. delay'[c] = delay[c]
    BY <1>0, <1>1, <1>4, <1>crash, TimedStepsOf DEF ReconcileTimed
  <2> QED BY <1>2, <1>4, <2>1, <2>2 DEF RestsInTime
<1>api. APICallTimed(c) => w[c].pc # "idle"
  BY DEF APICallTimed, APICall, DeleteAccounts, RemoveFinalizer, AddFinalizer,
     ReportUnsynced, DeleteOldAccounts, UpdateRotation, CreateAccount, WriteSecret, Report
<1>5. CASE Resync
  <2>1. /\ UNCHANGED <<w, cr, crCache, secretCache, accountCache>> /\ queue \subseteq queue'
    BY <1>5 DEF Resync
  <2>2. AtRest(c) /\ SeenSame(c)
    BY <2>1 DEF AtRest, SeenSame
  <2> QED BY <1>3, <1>4, <1>api, <2>2 DEF AtRest
<1>6. CASE ~Tick /\ [Next]_vars
  <2>1. /\ SeenSame(c)
        /\ \/ AtRest(c) /\ w'[c] = w[c]
           \/ Reporting(c) /\ Report(c)
    BY <1>0, <1>6, ComesToRest
  <2>2. CASE AtRest(c)
    BY <1>4, <1>6, <1>api, <2>1, <2>2 DEF AtRest
  <2>3. CASE Reporting(c) /\ Report(c)
    <3>1. w[c].pc = "report" /\ c \notin queue
      BY <2>3 DEF Reporting
    <3>2. ~ReconcileTimed(c)
      BY <3>1 DEF ReconcileTimed, Reconcile, ReconcileNotFound, ReconcileDeleted,
         ReconcileNew, ReconcileUnavailable, ReconcileInSync, ReconcileRotate,
         ReconcileBcryptFails, Compare, Dequeue, SameController
    <3>3. APICallTimed(c)
      BY <1>0, <1>1, <1>crash, <3>1, <3>2, TimedStepsOf
    <3>4. w[c].requeueAfter /\ after[c] <= Interval + 1 - age[a.password]
      BY <1>2, <2>1, <2>3 DEF ReportsInTime
    <3>5. delay' = [delay EXCEPT ![c] = Smaller(@, after[c])]
      BY <1>0, <1>1, <3>1, <3>3, <3>4, ReportTimes
    <3>6. delay'[c] <= after[c] /\ delay'[c] \in Nat /\ after[c] \in Nat
      BY <1>0, <3>5 DEF Smaller
    <3>7. age'[a.password] = age[a.password] /\ age[a.password] \in Int
      BY <1>0, <1>2, <1>6, <2>1, RenewedAges, ScheduleTypesKept
    <3> QED BY <1>0, <3>4, <3>6, <3>7
  <2> QED BY <2>1, <2>2, <2>3
<1> QED BY <1>3, <1>5, <1>6, TimeSteps

\* The stored version of a CR is followed by later ones; it does not vanish.
LEMMA RotationGrows ==
  ASSUME Kept, [ScheduleNext]_scheduleVars, NEW c \in CR, cr[c].uid # 0
  PROVE  cr'[c].uid = cr[c].uid /\ cr[c].rotation <= cr'[c].rotation
<1>0. /\ Informed /\ Safe /\ TypeOK /\ cr \in [CR -> CRObject] /\ cr[c] \in CRObject
      /\ Undeleted(c) /\ cr[c].rotation \in Nat
  BY DEF Kept, Informed, Safe, TypeInv, TypeOK, CRObject
<1>same. ASSUME cr'[c] = cr[c] PROVE cr'[c].uid = cr[c].uid /\ cr[c].rotation <= cr'[c].rotation
  BY <1>0, <1>same
<1>1. CASE APICall(c)
  <2> DEFINE x == w[c]
             i == w[c].instance
  <2>1. /\ x \in Worker /\ i \in CRObject /\ Versions(c)
    BY <1>0 DEF TypeOK, Worker, Informed
  <2>2. /\ Later(cr[c], cr'[c]) /\ cr'[c].uid \in {0, cr[c].uid}
    BY <1>0, <1>1, <2>1, Writes
  <2>3. x.pc # "idle"
    BY <1>1 DEF APICall, DeleteAccounts, RemoveFinalizer, AddFinalizer, ReportUnsynced,
       DeleteOldAccounts, UpdateRotation, CreateAccount, WriteSecret, Report
  <2>4. i.uid # 0
    BY <1>0, <2>3, BaseFacts
  <2>5. cr'[c] = cr[c] \/ cr'[c].uid = i.uid
    <3>1. ~RemoveFinalizer(c) /\ ~DeleteAccounts(c)
      BY <1>0 DEF Undeleted, RemoveFinalizer, DeleteAccounts
    <3>2. /\ [i EXCEPT !.finalizer = TRUE].uid = i.uid
          /\ [i EXCEPT !.synced = x.cond, !.observedGeneration = i.generation].uid = i.uid
          /\ [i EXCEPT !.ready = x.cond, !.observedGeneration = i.generation].uid = i.uid
          /\ Rotated(i, x.registry).uid = i.uid
      BY <2>1 DEF CRObject, Rotated
    <3>3. CASE AddFinalizer(c) \/ ReportUnsynced(c) \/ UpdateRotation(c) \/ Report(c)
      <4>1. cr' = cr \/ \E f \in {[i EXCEPT !.finalizer = TRUE],
                                  [i EXCEPT !.synced = x.cond, !.observedGeneration = i.generation],
                                  [i EXCEPT !.ready = x.cond, !.observedGeneration = i.generation],
                                  Rotated(i, x.registry)} : cr' = [cr EXCEPT ![c] = f]
        BY <3>3 DEF AddFinalizer, ReportUnsynced, UpdateRotation, Report, setReady, setUnsynced, UpdateCR
      <4> QED BY <1>0, <3>2, <4>1
    <3>4. CASE DeleteOldAccounts(c) \/ CreateAccount(c) \/ WriteSecret(c)
      BY <3>4 DEF DeleteOldAccounts, CreateAccount, WriteSecret
    <3> QED BY <1>1, <3>1, <3>3, <3>4 DEF APICall
  <2> QED BY <1>0, <2>2, <2>4, <2>5 DEF Later
<1>2. ASSUME NEW d \in CR, d # c, APICall(d) PROVE cr'[c] = cr[c]
  BY <1>0, <1>2, OthersAlone
<1>3. ASSUME NEW d \in CR, Reconcile(d) PROVE cr'[c] = cr[c]
  BY <1>0, <1>3, ReconcileKeeps
<1>4. CASE Watch \/ CrashTimed \/ Resync \/ Tick
  BY <1>4, <1>same DEF Watch, WatchAccounts, WatchCR, WatchSecret, CrashTimed, Crash, Resync, Tick
<1>5. CASE Surroundings
  BY <1>0, <1>5, <1>same DEF Surroundings, CreateCR, ExpireTimed, ExpireAccount
<1>6. ASSUME NEW d \in CR, RequeueTimed(d) \/ Read(d) PROVE cr'[c] = cr[c]
  BY <1>6 DEF RequeueTimed, RequeueAfter, Read, vars
<1>7. CASE UNCHANGED scheduleVars
  BY <1>7, <1>same DEF scheduleVars, vars
<1> QED BY <1>same, <1>1, <1>2, <1>3, <1>4, <1>5, <1>6, <1>7 DEF ScheduleNext, APICallTimed, ReconcileTimed

\* An account is created for a rotation that the CR has just begun.
LEMMA NumberedKept ==
  ASSUME Kept, [ScheduleNext]_scheduleVars, NEW c \in CR PROVE Numbered(c)'
<1>0. /\ Informed /\ Safe /\ TypeOK /\ TypeOK' /\ ScheduleTyped /\ WorkerSafe(c)
      /\ w \in [CR -> Worker] /\ w[c] \in Worker /\ w[c].instance \in CRObject
      /\ cr \in [CR -> CRObject] /\ cr[c] \in CRObject /\ cr'[c] \in CRObject
  BY ScheduleInformed DEF Kept, Informed, Safe, TypeInv, TypeOK, Worker
<1>1. /\ \A a \in Accounts : a.cr = c => a.rotation \in Nat
      /\ cr[c].rotation \in Nat /\ cr'[c].rotation \in Nat
  BY <1>0 DEF Accounts, TypeOK, Account, CRObject
\* The status is written before the account is created.
<1>2. ASSUME w'[c].pc = "createAccount", w[c].pc # "createAccount", cr[c].uid # 0
      PROVE  cr[c].rotation < cr'[c].rotation
  <2>1. APICall(c)
    <3>1. ~ReconcileTimed(c)
      <4>1. Alive(c)
        BY DEF Kept
      <4> QED BY <1>0, <1>2, <4>1, StartsAt DEF ReconcileTimed
    <3>2. ~CrashTimed
      BY <1>2 DEF CrashTimed, Crash, Idle
    <3> QED BY <1>0, <1>2, <3>1, <3>2, TimedStepsOf DEF APICallTimed
  <2>2. UpdateRotation(c)
    <3>1. ~DeleteAccounts(c) /\ ~DeleteOldAccounts(c)
      BY <1>0, <1>2 DEF DeleteAccounts, DeleteOldAccounts, Goto, Return, Idle, Worker
    <3>2. ~RemoveFinalizer(c) /\ ~AddFinalizer(c) /\ ~ReportUnsynced(c) /\ ~Report(c)
      BY <1>0, <1>2, EndsAt
    <3>3. ~CreateAccount(c)
      BY <1>2 DEF CreateAccount
    <3>4. ~WriteSecret(c)
      <4>1. WriteSecret(c) => \E cond, again : GotoReport(c, cond, again)
        BY DEF WriteSecret
      <4> QED BY <1>0, <1>2, <4>1 DEF GotoReport, Worker
    <3> QED BY <2>1, <3>1, <3>2, <3>3, <3>4 DEF APICall
  <2> DEFINE i == Rotated(w[c].instance, w[c].registry)
  <2>3. i.rotation = w[c].instance.rotation + 1
    BY <1>0 DEF Rotated, CRObject
  <2> HIDE DEF i
  <2>4. PICK o \in Outcome :
          /\ UpdateCR(c, i, o)
          /\ w'[c] = IF RotationStored(o)
                     THEN [w[c] EXCEPT !.pc = "createAccount", !.base = i, !.instance = i]
                     ELSE [w[c] EXCEPT !.pc = "report", !.instance = i, !.requeueAfter = FALSE,
                                       !.cond = ErrorCond(o, "conflict")]
    BY <1>0, <2>2 DEF UpdateRotation, i
  <2>5. RotationStored(o)
    BY <1>0, <1>2, <2>4 DEF Worker
  <2>6. cr[c] = w[c].base /\ cr'[c] = i
    BY <1>0, <2>4, <2>5 DEF UpdateCR, Respond, Applied, RotationStored
  <2>7. w[c].instance = w[c].base
    BY <1>0, <2>2 DEF UpdateRotation, WorkerSafe, Working
  <2> QED BY <1>1, <2>3, <2>6, <2>7
<1>3. ASSUME NEW a \in Accounts', a.cr = c, a \in Accounts
      PROVE  /\ cr'[c].uid # 0 /\ a.rotation <= cr'[c].rotation
             /\ w'[c].pc = "createAccount" => a.rotation < cr'[c].rotation
  <2>1. /\ cr[c].uid # 0 /\ a.rotation <= cr[c].rotation
        /\ w[c].pc = "createAccount" => a.rotation < cr[c].rotation
    BY <1>3 DEF Kept, Numbered
  <2>2. cr'[c].uid = cr[c].uid /\ cr[c].rotation <= cr'[c].rotation
    BY <2>1, RotationGrows
  <2> QED BY <1>1, <1>2, <1>3, <2>1, <2>2
<1>4. ASSUME NEW a \in Accounts', a = NewAccount(c), w[c].pc = "createAccount", w'[c].pc # "createAccount"
      PROVE  cr'[c].uid # 0 /\ a.rotation <= cr'[c].rotation
  <2>1. a.rotation = w[c].instance.rotation
    BY <1>4 DEF NewAccount
  <2>2. cr[c].uid = w[c].instance.uid /\ cr[c].rotation = w[c].instance.rotation
    BY <1>0, <1>4 DEF WorkerSafe, Present
  <2>3. cr[c].uid # 0
    BY <1>0, <1>4, <2>2 DEF WorkerSafe, Working
  <2> QED BY <1>1, <2>1, <2>2, <2>3, RotationGrows
<1> QED BY <1>0, <1>3, <1>4, AccountsOf DEF Numbered

\* Names of accounts are not used again.
LEMMA UniqueKept == Kept /\ [ScheduleNext]_scheduleVars => Unique'
<1> SUFFICES ASSUME Kept, [ScheduleNext]_scheduleVars, NEW a \in Accounts', NEW b \in Accounts',
                    a.registry = b.registry, a.cr = b.cr, a.rotation = b.rotation
             PROVE  a = b
  BY DEF Unique
<1>0. Informed /\ Safe /\ TypeOK /\ TypeOK' /\ ScheduleTyped
  BY ScheduleInformed DEF Kept, Informed, Safe, TypeInv
<1>1. CASE a.cr = Manual
  <2>1. ASSUME NEW x \in Accounts', x.cr = Manual PROVE x \in Accounts
    <3>1. ASSUME NEW d \in CR, APICall(d) PROVE x \in Accounts
      <4>1. NewAccount(d).cr = d
        BY DEF NewAccount
      <4> QED BY <1>0, <2>1, <3>1, <4>1, APICallKeeps, CRAssumption DEF Accounts
    <3>2. ASSUME NEW d \in CR, Reconcile(d) PROVE x \in Accounts
      BY <1>0, <3>2, ReconcileKeeps DEF Accounts
    <3>3. CASE Rest
      BY <1>0, <3>3, RestKeeps DEF Accounts
    <3>4. CASE UNCHANGED vars \/ Resync \/ Tick
      BY <3>4 DEF vars, Resync, Tick, Accounts
    <3> QED BY <3>1, <3>2, <3>3, <3>4, TimeSteps, NextCases
  <2> QED BY <1>1, <2>1 DEF Kept, Unique
<1>2. CASE a.cr \in CR
  <2> DEFINE c == a.cr
  <2>1. ASSUME NEW x \in Accounts, x.cr = c, w[c].pc = "createAccount"
        PROVE  x.rotation # NewAccount(c).rotation
    <3>1. NewAccount(c).rotation = cr[c].rotation
      BY <1>0, <1>2, <2>1 DEF Safe, WorkerSafe, Present, NewAccount
    <3>2. x.rotation < cr[c].rotation
      BY <1>2, <2>1 DEF Kept, Numbered
    <3>3. x.rotation \in Nat
      BY <1>0, <2>1 DEF Accounts, TypeOK, Account
    <3>4. cr[c].rotation \in Nat
      BY <1>0, <1>2 DEF TypeOK, CRObject
    <3> QED BY <3>1, <3>2, <3>3, <3>4
  <2>2. \A x \in {a, b} : x \in Accounts \/ (x = NewAccount(c) /\ w[c].pc = "createAccount")
    BY <1>0, <1>2, AccountsOf
  <2> QED BY <2>1, <2>2 DEF Kept, Unique
<1>3. a.cr \in CR \cup {Manual}
  BY <1>0 DEF Accounts, TypeOK, Account
<1> QED BY <1>1, <1>2, <1>3

\* What the renewals rest on holds after every step, ...
LEMMA KeptStep == Kept /\ [ScheduleNext]_scheduleVars => Kept'
<1> SUFFICES ASSUME Kept, [ScheduleNext]_scheduleVars PROVE Kept'
  OBVIOUS
<1>1. TypeOK /\ Informed /\ ScheduleTyped
  BY DEF Kept, Informed, Safe, TypeInv
<1>2. Informed' /\ ScheduleTyped' /\ \A c \in CR : Alive(c)'
  BY <1>1, ScheduleInformed, ScheduleTypesKept, AliveKept DEF Kept
<1>3. Unique' /\ \A c \in CR : Undeleted(c)' /\ Numbered(c)'
  BY <1>1, UniqueKept, NumberedKept, UndeletedKept DEF Kept
<1> QED BY <1>2, <1>3 DEF Kept

\* ... and at the start, where nothing is reported yet.
LEMMA InitKept == ScheduleInit => Kept /\ \A c \in CR : ReportsInTime(c) /\ RestsInTime(c)
<1> SUFFICES ASSUME ScheduleInit
             PROVE  Kept /\ \A c \in CR : ReportsInTime(c) /\ RestsInTime(c)
  OBVIOUS
<1>1. Init
  BY DEF ScheduleInit
<1>2. Unique /\ \A c \in CR : Numbered(c)
  BY <1>1, CRAssumption DEF Init, Unique, Numbered, Accounts, ManualAccount
<1>3. \A c \in CR : Alive(c) /\ Undeleted(c) /\ ~Reporting(c) /\ ~AtRest(c)
  BY <1>1 DEF Init, Alive, Undeleted, Reporting, AtRest, Idle, NoCR
<1> QED BY <1>2, <1>3, InitSchedule DEF Kept, ReportsInTime, RestsInTime

\* A Ready CR that the operator is done with comes back no later than 30 s
\* after its account gets due, whatever fails and however events and resyncs
\* fall: the delay is counted from the cached account, which is not the one
\* just created, but then a request is on its way.
THEOREM RenewalOnSchedule == ScheduleSpec => []RenewalScheduled
<1> DEFINE Dated == \A c \in CR : ReportsInTime(c) /\ RestsInTime(c)
<1>1. ScheduleInit => Kept /\ Dated
  BY InitKept
<1>2. Kept /\ Dated /\ [ScheduleNext]_scheduleVars => (Kept /\ Dated)'
  BY KeptStep, ReportsKept, RestsKept
<1>3. Kept /\ Dated => RenewalScheduled
  <2> SUFFICES ASSUME Kept, NEW c \in CR, RestsInTime(c),
                      Settled(c), cr[c].uid # 0, cr[c].ready = "True",
                      NEW a \in accounts, a.cr = c, a.rotation = cr[c].rotation,
                      a.registry = getRegistryKeyForCR(cr[c])
               PROVE  delay[c] <= Interval + 1 - age[a.password]
    BY DEF RenewalScheduled
  <2>1. AtRest(c)
    BY DEF Settled, AtRest, Kept, Alive
  <2>2. a \in Renewed(c)
    BY DEF Settled, Renewed, Accounts
  <2> QED BY <2>1, <2>2 DEF RestsInTime
<1> QED BY <1>1, <1>2, <1>3, PTL DEF ScheduleSpec

-----------------------------------------------------------------------------
(* Lockouts.  A password in use gets older than its due date by at most the *)
(* delay of a request that an error takes off the work queue: until the     *)
(* next resync.  That happens only if the error is the one the CR reports   *)
(* already, so that its status is not written; otherwise the request comes  *)
(* back, with the event about the status or with the error of the update.   *)

\* The conditions that a failed call or a failing bcrypt ends in.
Failures == {"outage", "bcrypt"}

\* The oldest that a password in use gets, after f faults: all but one of them
\* have taken a request off the queue.
Latest(f) == Interval + 1 + (IF f <= 1 THEN 0 ELSE SyncPeriod * (f - 1))

\* The oldest the password in the Secret of c is.
SecretBy(c, t) == secrets[c].owner # 0 => age[secrets[c].password] <= t

HasAccount(A, c, p) == \E a \in A : a.cr = c /\ a.password = p

VersionsOf(c) == {cr[c], crCache[c], w[c].base, w[c].instance}

\* Neither CRs nor Secrets are deleted, no CR changes its registry, and no
\* accounts are deleted for such a reason.
Steady(c) ==
  /\ \A x \in VersionsOf(c) : x.statusRegistry \in {NoRegistry, getRegistryKeyForCR(x)}
  /\ w[c].pc \notin {"deleteAccounts", "removeFinalizer", "deleteOldAccounts"}
  /\ w[c].pc \in Rotating => w[c].registry = getRegistryKeyForCR(w[c].instance)
  /\ secrets[c].owner # 0 => secrets[c].owner = cr[c].uid
  /\ client[c].password # 0 => secrets[c].owner # 0

\* Which of the conditions to be reported come with a request or an event.
Reported(c) ==
  w[c].pc = "report" =>
    /\ w[c].cond \notin {"none", "RegistryUnavailable"}
    /\ w[c].cond = "conflict" => cr[c] # w[c].base
    /\ w[c].cond \in {"accountExists", "secretExists", "secretConflict"} /\ c \notin queue
         => Outdated(c)

\* The passwords in use have accounts.
Backed(c) ==
  /\ secrets[c].owner # 0 => HasAccount(accounts, c, secrets[c].password)
  /\ w[c].pc = "writeSecret" => HasAccount(accounts, c, w[c].password) /\ age[w[c].password] = 0
  /\ client[c].password # 0 => HasAccount(accounts, c, client[c].password)

\* ... which are those of the CR's rotation and registry.
Named(c) ==
  /\ secrets[c].owner # 0 => \A a \in accounts : a.cr = c /\ a.password = secrets[c].password
       => a.registry = secrets[c].registry /\ a.rotation = secrets[c].rotation
  /\ w[c].pc = "writeSecret" => \A a \in accounts : a.cr = c /\ a.password = w[c].password
       => a.registry = w[c].registry /\ a.rotation = w[c].instance.rotation

\* Their ages.
InUse(c) ==
  /\ SecretBy(c, Latest(faults))
  /\ client[c].password # 0 =>
       \/ client[c].password = secrets[c].password
       \/ age[client[c].password] <= Latest(faults) + client[c].age

\* The request of a CR that is not Ready has been lost.
Unready(c) ==
  /\ w[c].pc = "idle" /\ c \notin queue /\ crCache[c] = cr[c]
  /\ cr[c].uid # 0 /\ cr[c].ready # "True"

\* The faults that brought it there: one to report the error, one to repeat it,
\* which costs the time until the next resync.
Counted(c) ==
  /\ \A x \in VersionsOf(c) : x.ready \in Failures => faults >= 1
  /\ w[c].pc = "report" /\ w[c].cond \in Failures =>
       /\ faults >= 1
       /\ w[c].instance.ready = w[c].cond => faults >= 2 /\ SecretBy(c, Latest(faults - 1))
  /\ Unready(c) => faults >= 2 /\ SecretBy(c, Latest(faults) - SyncPeriod + sync)

InTime ==
  /\ Kept /\ AllInSync /\ \A c \in CR : ReportsInTime(c) /\ RestsInTime(c)
  /\ faults <= MaxFaults /\ \A r \in Registry : registry[r].ready

Provided ==
  \A c \in CR : Steady(c) /\ Reported(c) /\ Backed(c) /\ Named(c) /\ InUse(c) /\ Counted(c)

\* Another fault costs at most another resync.
LEMMA LatestStep ==
  ASSUME NEW f \in Nat
  PROVE  /\ Latest(f) \in Nat /\ Latest(f + 1) \in Nat /\ Latest(f) <= Latest(f + 1)
         /\ Interval + 1 <= Latest(f)
         /\ f >= 1 => Latest(f + 1) = Latest(f) + SyncPeriod
<1>0. Interval \in Nat /\ SyncPeriod \in Nat
  BY Times
<1>1. CASE f <= 1
  <2>1. SyncPeriod * 0 = 0 /\ SyncPeriod * 1 = SyncPeriod
    BY <1>0
  <2>2. Latest(0) = Interval + 1 /\ Latest(1) = Interval + 1 /\ Latest(2) = Interval + 1 + SyncPeriod
    BY <1>0, <2>1 DEF Latest
  <2>3. f = 0 \/ f = 1
    BY <1>1
  <2> QED BY <1>0, <2>2, <2>3
<1>2. CASE f > 1
  <2>1. PICK k \in Nat : k = SyncPeriod * (f - 1)
    BY <1>0, <1>2
  <2>2. SyncPeriod * ((f + 1) - 1) = k + SyncPeriod
    BY <1>0, <2>1
  <2>3. Latest(f) = Interval + 1 + k
    BY <1>2, <2>1 DEF Latest
  <2>4. Latest(f + 1) = Interval + 1 + (k + SyncPeriod)
    BY <1>2, <2>2 DEF Latest
  <2> QED BY <1>0, <2>1, <2>3, <2>4
<1> QED BY <1>1, <1>2

\* More faults do not make anything earlier.
LEMMA LatestLater ==
  ASSUME NEW f \in Nat, NEW g \in Nat, f <= g PROVE Latest(f) <= Latest(g)
<1>0. Interval \in Nat /\ SyncPeriod \in Nat
  BY Times
<1>1. CASE f <= 1
  <2>1. Latest(f) = Interval + 1
    BY <1>0, <1>1 DEF Latest
  <2> QED BY <2>1, LatestStep
<1>2. CASE f > 1
  <2>1. SyncPeriod * (g - 1) = SyncPeriod * (f - 1) + SyncPeriod * (g - f)
    BY <1>0
  <2>2. SyncPeriod * (g - f) \in Nat /\ SyncPeriod * (f - 1) \in Nat
    BY <1>0, <1>2
  <2>3. SyncPeriod * (f - 1) <= SyncPeriod * (g - 1)
    BY <2>1, <2>2
  <2> QED BY <1>0, <1>2, <2>2, <2>3 DEF Latest
<1> QED BY <1>1, <1>2

\* The state of one Reconcile before and after one of its calls: i is the CR as
\* it was modified since it was read.
LEMMA CallSteps ==
  ASSUME Informed, NEW c \in CR, Steady(c), APICall(c)
  PROVE  LET x == w[c]  z == w'[c]  i == w[c].instance IN
    /\ x.pc # "idle" /\ UNCHANGED <<cacheVars, registry>> /\ (c \in queue => c \in queue')
    /\ secrets'[c] = secrets[c] \/
         /\ x.pc = "writeSecret" /\ secrets'[c].owner = cr[c].uid
         /\ secrets'[c].password = x.password /\ secrets'[c].registry = x.registry
         /\ secrets'[c].rotation = i.rotation
    /\ cr'[c] = cr[c] \/
         /\ cr'[c].uid = cr[c].uid /\ cr'[c].registryRef = i.registryRef
         /\ cr'[c].statusRegistry = i.statusRegistry \/
              (x.pc = "updateRotation" /\ cr'[c].statusRegistry = x.registry)
         /\ cr'[c].ready = i.ready \/ (x.pc = "report" /\ cr'[c].ready = x.cond)
    /\ \/ z = Idle
       \/ /\ x.pc = "addFinalizer" /\ z.pc = "reportUnsynced"
          /\ z.base = x.base /\ z.instance = i
       \/ /\ x.pc = "updateRotation" /\ z.registry = x.registry
          /\ z.instance.registryRef = i.registryRef
          /\ z.instance.statusRegistry = x.registry /\ z.instance.ready = i.ready
          /\ \/ z.pc = "createAccount" /\ z.base = z.instance
             \/ /\ z.pc = "report" /\ z.base = x.base
                /\ \/ z.cond = "outage" /\ faults' = faults + 1
                   \/ z.cond = "conflict" /\ cr'[c] = cr[c] /\ cr[c] # x.base
       \/ /\ x.pc = "createAccount" /\ z.base = x.base /\ z.instance = i /\ z.registry = x.registry
          /\ \/ /\ z.pc = "writeSecret" /\ z.password = passwords + 1
                /\ passwords' = passwords + 1 /\ NewAccount(c) \in accounts'
             \/ z.pc = "report" /\ z.cond = "outage" /\ faults' = faults + 1
             \/ z.pc = "report" /\ z.cond = "accountExists"
       \/ /\ x.pc = "writeSecret" /\ z.base = x.base /\ z.instance = i /\ z.pc = "report"
          /\ \/ z.cond = "outage" /\ faults' = faults + 1
             \/ z.cond \in {"True", "secretExists", "secretConflict"}
<1> DEFINE x == w[c]
           z == w'[c]
           i == w[c].instance
           Secret == secrets'[c] = secrets[c] \/
             /\ x.pc = "writeSecret" /\ secrets'[c].owner = cr[c].uid
             /\ secrets'[c].password = x.password /\ secrets'[c].registry = x.registry
             /\ secrets'[c].rotation = i.rotation
           Version == cr'[c] = cr[c] \/
             /\ cr'[c].uid = cr[c].uid /\ cr'[c].registryRef = i.registryRef
             /\ cr'[c].statusRegistry = i.statusRegistry \/
                  (x.pc = "updateRotation" /\ cr'[c].statusRegistry = x.registry)
             /\ cr'[c].ready = i.ready \/ (x.pc = "report" /\ cr'[c].ready = x.cond)
<1>0. /\ w \in [CR -> Worker] /\ x \in Worker /\ x.base \in CRObject /\ i \in CRObject
      /\ cr \in [CR -> CRObject] /\ secrets \in [CR -> SecretObject] /\ faults \in Nat
      /\ passwords \in Nat /\ Safe
  BY DEF Informed, Safe, TypeInv, TypeOK, Worker
<1>1. /\ x.pc # "idle" /\ UNCHANGED <<cacheVars, registry>> /\ (c \in queue => c \in queue')
  BY DEF APICall, DeleteAccounts, RemoveFinalizer, AddFinalizer, ReportUnsynced,
     DeleteOldAccounts, UpdateRotation, CreateAccount, WriteSecret, Report, Goto, Return
<1>2. i.uid = x.base.uid
  BY <1>0, <1>1, BaseFacts
<1>none. ~DeleteAccounts(c) /\ ~RemoveFinalizer(c) /\ ~DeleteOldAccounts(c)
  BY DEF Steady, DeleteAccounts, RemoveFinalizer, DeleteOldAccounts
\* A version that Reconcile writes replaces the one it has read.
<1>write. ASSUME NEW f, NEW o, UpdateCR(c, f, o), f.uid = i.uid, f.registryRef = i.registryRef,
                 f.statusRegistry = i.statusRegistry \/ (x.pc = "updateRotation" /\ f.statusRegistry = x.registry),
                 f.ready = i.ready \/ (x.pc = "report" /\ f.ready = x.cond)
          PROVE  Version
  <2>1. cr'[c] = cr[c] \/ (cr'[c] = f /\ cr[c] = x.base)
    BY <1>0, <1>write DEF UpdateCR, Respond, Applied
  <2> QED BY <1>2, <1>write, <2>1
<1>3. CASE AddFinalizer(c)
  <2> DEFINE f == [i EXCEPT !.finalizer = TRUE]
  <2>1. PICK o \in Outcome :
          /\ UpdateCR(c, f, o)
          /\ IF o = "ok" THEN Return(c, FALSE, FALSE)
             ELSE w' = [w EXCEPT ![c] = [@ EXCEPT !.pc = "reportUnsynced",
                                           !.cond = ErrorCond(o, "conflict")]]
    BY <1>3 DEF AddFinalizer
  <2>2. z = Idle \/ (z.pc = "reportUnsynced" /\ z.base = x.base /\ z.instance = i)
    BY <1>0, <2>1 DEF Return, Worker
  <2>3. /\ f.uid = i.uid /\ f.registryRef = i.registryRef
        /\ f.statusRegistry = i.statusRegistry /\ f.ready = i.ready
    BY <1>0 DEF CRObject
  <2>4. Version
    BY <1>write, <2>1, <2>3
  <2> QED BY <1>1, <1>3, <2>2, <2>4 DEF AddFinalizer
<1>4. CASE ReportUnsynced(c)
  <2> DEFINE f == [i EXCEPT !.synced = x.cond, !.observedGeneration = i.generation]
  <2>1. UNCHANGED cr \/ \E o : UpdateCR(c, f, o)
    BY <1>4 DEF ReportUnsynced, setUnsynced
  <2>2. /\ f.uid = i.uid /\ f.registryRef = i.registryRef
        /\ f.statusRegistry = i.statusRegistry /\ f.ready = i.ready
    BY <1>0 DEF CRObject
  <2>3. Version
    BY <1>write, <2>1, <2>2
  <2>4. z = Idle
    BY <1>0, <1>4 DEF ReportUnsynced, Return
  <2> QED BY <1>1, <1>4, <2>3, <2>4 DEF ReportUnsynced
<1>5. CASE Report(c)
  <2> DEFINE f == [i EXCEPT !.ready = x.cond, !.observedGeneration = i.generation]
  <2>1. UNCHANGED cr \/ \E o : UpdateCR(c, f, o)
    BY <1>5 DEF Report, setReady
  <2>2. /\ f.uid = i.uid /\ f.registryRef = i.registryRef
        /\ f.statusRegistry = i.statusRegistry /\ f.ready = x.cond
    BY <1>0 DEF CRObject
  <2>3. Version
    BY <1>5, <1>write, <2>1, <2>2 DEF Report
  <2>4. z = Idle
    BY <1>0, <1>5 DEF Report, Return
  <2> QED BY <1>1, <1>5, <2>3, <2>4 DEF Report
<1>6. CASE UpdateRotation(c)
  <2> DEFINE f == Rotated(i, x.registry)
  <2>1. /\ f.uid = i.uid /\ f.registryRef = i.registryRef
        /\ f.statusRegistry = x.registry /\ f.ready = i.ready
    BY <1>0 DEF Rotated, CRObject
  <2> HIDE DEF f
  <2>2. PICK o \in Outcome :
          /\ UpdateCR(c, f, o)
          /\ z = IF RotationStored(o)
                 THEN [x EXCEPT !.pc = "createAccount", !.base = f, !.instance = f]
                 ELSE [x EXCEPT !.pc = "report", !.instance = f, !.requeueAfter = FALSE,
                                !.cond = ErrorCond(o, "conflict")]
    BY <1>0, <1>6 DEF UpdateRotation, f
  <2>3. x.pc = "updateRotation" /\ secrets' = secrets
    BY <1>6 DEF UpdateRotation
  <2>4. Version
    BY <1>write, <2>1, <2>2, <2>3
  <2>5. z.registry = x.registry /\ z.instance = f
    BY <1>0, <2>2 DEF Worker
  <2>6. o = "ok" => z.pc = "createAccount" /\ z.base = z.instance
    BY <1>0, <2>2 DEF Worker, RotationStored
  <2>7. o # "ok" => z.pc = "report" /\ z.base = x.base /\ z.cond = ErrorCond(o, "conflict")
    BY <1>0, <2>2 DEF Worker, RotationStored
  <2>8. o = "refused" => cr' = cr /\ cr[c] # x.base
    BY <2>2 DEF UpdateCR, Respond, Applied
  <2>9. o \in {"lost", "timeout"} => faults' = faults + 1
    BY <2>2 DEF UpdateCR, Respond
  <2>10. \/ o = "ok" \/ (o = "refused" /\ ErrorCond(o, "conflict") = "conflict")
         \/ o \in {"lost", "timeout"} /\ ErrorCond(o, "conflict") = "outage"
    BY DEF Outcome, ErrorCond
  <2> QED BY <1>1, <2>1, <2>3, <2>4, <2>5, <2>6, <2>7, <2>8, <2>9, <2>10
<1>7. CASE CreateAccount(c)
  <2>1. PICK o \in Outcome :
          /\ Respond(o, ~NameTaken(NewAccount(c)))
          /\ accounts' = IF Applied(o) THEN accounts \cup {NewAccount(c)} ELSE accounts
          /\ z = IF AccountCreated(o)
                 THEN [x EXCEPT !.pc = "writeSecret", !.password = passwords + 1]
                 ELSE [x EXCEPT !.pc = "report", !.requeueAfter = FALSE,
                                !.cond = ErrorCond(o, "accountExists")]
    BY <1>0, <1>7 DEF CreateAccount
  <2>2. x.pc = "createAccount" /\ secrets' = secrets /\ cr' = cr /\ passwords' = passwords + 1
    BY <1>7 DEF CreateAccount
  <2>3. z.base = x.base /\ z.instance = i /\ z.registry = x.registry
    BY <1>0, <2>1 DEF Worker
  <2>4. o = "ok" => /\ z.pc = "writeSecret" /\ z.password = passwords + 1
                    /\ NewAccount(c) \in accounts'
    BY <1>0, <2>1 DEF Worker, AccountCreated, Applied
  <2>5. o # "ok" => z.pc = "report" /\ z.cond = ErrorCond(o, "accountExists")
    BY <1>0, <2>1 DEF Worker, AccountCreated
  <2>6. o \in {"lost", "timeout"} => faults' = faults + 1
    BY <2>1 DEF Respond
  <2>7. \/ o = "ok" \/ (o = "refused" /\ ErrorCond(o, "accountExists") = "accountExists")
        \/ o \in {"lost", "timeout"} /\ ErrorCond(o, "accountExists") = "outage"
    BY DEF Outcome, ErrorCond
  <2> QED BY <1>1, <2>2, <2>3, <2>4, <2>5, <2>6, <2>7
<1>8. CASE WriteSecret(c)
  <2> DEFINE refusal == IF x.secret = NoSecret THEN "secretExists" ELSE "secretConflict"
  <2>1. PICK o \in Outcome :
          /\ Respond(o, secrets[c] = x.secret)
          /\ secrets' = IF Applied(o) THEN [secrets EXCEPT ![c] = NewSecret(c)] ELSE secrets
          /\ IF o = "ok" THEN GotoReport(c, "True", x.requeueAfter)
             ELSE GotoReport(c, ErrorCond(o, refusal), FALSE)
    BY <1>8 DEF WriteSecret
  <2>2. x.pc = "writeSecret" /\ cr' = cr
    BY <1>8 DEF WriteSecret
  <2>3. Secret
    <3>1. cr[c].uid = i.uid
      BY <1>0, <2>2 DEF Safe, WorkerSafe, Present
    <3> QED BY <1>0, <2>1, <2>2, <3>1 DEF NewSecret
  <2>4. /\ z.base = x.base /\ z.instance = i /\ z.pc = "report"
        /\ z.cond = IF o = "ok" THEN "True" ELSE ErrorCond(o, refusal)
    <3> DEFINE cond == IF o = "ok" THEN "True" ELSE ErrorCond(o, refusal)
    <3> HIDE DEF cond
    <3>1. \E again : GotoReport(c, cond, again)
      BY <2>1 DEF cond
    <3>2. PICK again : z = [x EXCEPT !.pc = "report", !.cond = cond, !.requeueAfter = again]
      BY <1>0, <3>1 DEF GotoReport
    <3>3. z.base = x.base /\ z.instance = i /\ z.pc = "report" /\ z.cond = cond
      BY <1>0, <3>2 DEF Worker
    <3> QED BY <3>3 DEF cond
  <2>5. o \in {"lost", "timeout"} => faults' = faults + 1
    BY <2>1 DEF Respond
  <2>6. \/ o = "ok" \/ (o = "refused" /\ ErrorCond(o, refusal) \in {"secretExists", "secretConflict"})
        \/ o \in {"lost", "timeout"} /\ ErrorCond(o, refusal) = "outage"
    BY DEF Outcome, ErrorCond
  <2> QED BY <1>1, <2>2, <2>3, <2>4, <2>5, <2>6
<1> QED BY <1>none, <1>3, <1>4, <1>5, <1>6, <1>7, <1>8 DEF APICall

\* What a step other than a call of c's Reconcile does to c.
Aside(c) ==
  /\ w'[c] = w[c] /\ secrets'[c] = secrets[c]
  /\ \/ cr'[c] = cr[c]
     \/ /\ cr[c].uid = 0 /\ cr'[c].uid > uids
        /\ cr'[c].statusRegistry = NoRegistry /\ cr'[c].ready = "none"
  /\ crCache'[c] = crCache[c] \/ (crCache'[c] = cr[c] /\ c \in queue')
  /\ c \in queue => c \in queue'

\* The steps, as one CR sees them.
LEMMA StepsInTime ==
  ASSUME TypeOK, [ScheduleNext]_scheduleVars, NEW c \in CR
  PROVE  ReconcileTimed(c) \/ APICallTimed(c) \/ CrashTimed \/ Aside(c)
<1>0. /\ cr \in [CR -> CRObject] /\ crCache \in [CR -> CRObject] /\ uids \in Nat
  BY DEF TypeOK
<1>1. ASSUME NEW d \in CR, d # c, ReconcileTimed(d) PROVE Aside(c)
  <2>1. Reconcile(d)
    BY <1>1 DEF ReconcileTimed
  <2>2. queue' = queue \ {d}
    BY <2>1 DEF Reconcile, ReconcileNotFound, ReconcileDeleted, ReconcileNew,
       ReconcileUnavailable, ReconcileInSync, ReconcileRotate, ReconcileBcryptFails,
       Compare, Dequeue
  <2>3. cr'[c] = cr[c] /\ crCache' = crCache /\ w'[c] = w[c] /\ secrets' = secrets
    BY <1>1, <2>1, OthersAlone, ReconcileKeeps
  <2> QED BY <1>1, <2>2, <2>3 DEF Aside
<1>2. ASSUME NEW d \in CR, d # c, APICallTimed(d) PROVE Aside(c)
  <2>1. APICall(d)
    BY <1>2 DEF APICallTimed
  <2>2. c \in queue => c \in queue'
    BY <2>1 DEF APICall, DeleteAccounts, RemoveFinalizer, AddFinalizer, ReportUnsynced,
       DeleteOldAccounts, UpdateRotation, CreateAccount, WriteSecret, Report, Return
  <2>3. cr'[c] = cr[c] /\ crCache' = crCache /\ w'[c] = w[c] /\ secrets'[c] = secrets[c]
    BY <1>2, <2>1, OthersAlone, APICallKeeps
  <2> QED BY <2>2, <2>3 DEF Aside
<1>3. ASSUME NEW d \in CR, RequeueTimed(d) \/ Read(d) PROVE Aside(c)
  BY <1>3 DEF RequeueTimed, RequeueAfter, Read, vars, Aside
<1>4. CASE Watch
  BY <1>0, <1>4 DEF Watch, WatchAccounts, WatchCR, WatchSecret, Aside
<1>5. CASE Surroundings
  <2>1. ASSUME NEW d \in CR, NEW r \in RegistryRefs, CreateCR(d, r) PROVE Aside(c)
    <3>1. UNCHANGED <<w, secrets, crCache, queue>>
      BY <2>1 DEF CreateCR
    <3>2. d # c => cr'[c] = cr[c]
      BY <1>0, <2>1 DEF CreateCR
    <3>3. d = c => /\ cr[c].uid = 0 /\ cr'[c].uid = uids + 1
                   /\ cr'[c].statusRegistry = NoRegistry /\ cr'[c].ready = "none"
      BY <1>0, <2>1 DEF CreateCR, NoCR
    <3> QED BY <1>0, <3>1, <3>2, <3>3 DEF Aside
  <2>2. ASSUME NEW a \in accounts, ExpireTimed(a) PROVE Aside(c)
    BY <2>2 DEF ExpireTimed, ExpireAccount, Aside
  <2> QED BY <1>5, <2>1, <2>2 DEF Surroundings
<1>6. CASE Resync \/ Tick
  BY <1>6 DEF Resync, Tick, Aside
<1>7. CASE UNCHANGED scheduleVars
  BY <1>7 DEF scheduleVars, vars, Aside
<1> QED BY <1>1, <1>2, <1>3, <1>4, <1>5, <1>6, <1>7 DEF ScheduleNext

\* What the steps do to faults, resyncs and readers.
LEMMA FaultsAndReaders ==
  ASSUME TypeOK, faults <= MaxFaults, [ScheduleNext]_scheduleVars, NEW c \in CR
  PROVE  /\ registry' = registry /\ faults' \in {faults, faults + 1} /\ faults' <= MaxFaults
         /\ sync' = sync \/ Tick \/ Resync \/ CrashTimed
         /\ client' = client \/ Tick \/ \E d \in CR : Read(d)
<1>0. faults \in Nat
  BY DEF TypeOK
<1> DEFINE Counts == faults' \in {faults, faults + 1} /\ faults' <= MaxFaults
<1>same. faults' = faults => Counts
  BY <1>0
<1>respond. ASSUME NEW o, NEW valid, Respond(o, valid) PROVE Counts
  BY <1>respond DEF Respond
<1>1. ASSUME NEW d \in CR, ReconcileTimed(d)
      PROVE  Counts /\ registry' = registry /\ sync' = sync /\ client' = client
  <2>1. Reconcile(d) /\ sync' = sync /\ client' = client
    BY <1>1 DEF ReconcileTimed
  <2>2. registry' = registry
    BY <2>1, ReconcileKeeps
  <2>3. faults' = faults \/ Respond("lost", TRUE)
    BY <2>1 DEF Reconcile, ReconcileNotFound, ReconcileDeleted, ReconcileNew,
       ReconcileUnavailable, ReconcileInSync, ReconcileRotate, ReconcileBcryptFails
  <2> QED BY <1>same, <1>respond, <2>1, <2>2, <2>3
<1>2. ASSUME NEW d \in CR, APICallTimed(d)
      PROVE  Counts /\ registry' = registry /\ sync' = sync /\ client' = client
  <2>1. APICall(d) /\ sync' = sync /\ client' = client
    BY <1>2 DEF APICallTimed
  <2>2. registry' = registry
    BY <2>1, APICallKeeps
  <2>3. faults' = faults \/ \E o, valid : Respond(o, valid)
    BY <2>1 DEF APICall, DeleteAccounts, RemoveFinalizer, AddFinalizer, ReportUnsynced,
       DeleteOldAccounts, UpdateRotation, CreateAccount, WriteSecret, Report,
       setReady, setUnsynced, UpdateCR, deleteOrphanAccounts
  <2> QED BY <1>same, <1>respond, <2>1, <2>2, <2>3
<1>3. ASSUME NEW d \in CR, RequeueTimed(d)
      PROVE  Counts /\ registry' = registry /\ sync' = sync /\ client' = client
  BY <1>same, <1>3 DEF RequeueTimed, RequeueAfter
<1>4. ASSUME NEW d \in CR, Read(d) PROVE Counts /\ registry' = registry /\ sync' = sync
  BY <1>same, <1>4 DEF Read, vars
<1>5. CASE Watch \/ Surroundings \/ Resync
  <2>1. /\ faults' = faults /\ registry' = registry /\ client' = client
        /\ sync' = sync \/ Resync
    BY <1>5 DEF Watch, WatchAccounts, WatchCR, WatchSecret, Surroundings, CreateCR, ExpireTimed,
       ExpireAccount, Resync
  <2> QED BY <1>same, <2>1
<1>6. CASE CrashTimed
  BY <1>0, <1>6, BoundAssumption DEF CrashTimed, Crash
<1>7. CASE Tick
  BY <1>same, <1>7 DEF Tick
<1>8. CASE UNCHANGED scheduleVars
  BY <1>same, <1>8 DEF scheduleVars, timeVars, vars
<1> QED BY <1>1, <1>2, <1>3, <1>4, <1>5, <1>6, <1>7, <1>8 DEF ScheduleNext

\* An account within its TTL stays.
LEMMA AccountsStay ==
  ASSUME TypeOK, \A d \in CR : Steady(d), [ScheduleNext]_scheduleVars,
         NEW a \in accounts, age[a.password] \in Nat, age[a.password] <= TTL
  PROVE  a \in accounts'
<1>1. ASSUME NEW d \in CR, APICall(d) PROVE a \in accounts'
  BY <1>1 DEF APICall, DeleteAccounts, RemoveFinalizer, AddFinalizer, ReportUnsynced,
     DeleteOldAccounts, UpdateRotation, CreateAccount, WriteSecret, Report, Steady
<1>2. ASSUME NEW d \in CR, ReconcileTimed(d) PROVE a \in accounts'
  BY <1>2, ReconcileKeeps DEF ReconcileTimed
<1>3. ASSUME NEW b \in accounts, ExpireTimed(b) PROVE a \in accounts'
  <2>1. a # b
    BY <1>3, Times DEF ExpireTimed
  <2> QED BY <1>3, <2>1 DEF ExpireTimed, ExpireAccount
<1>4. CASE UNCHANGED scheduleVars
  BY <1>4 DEF scheduleVars, vars
<1>5. ASSUME NEW d \in CR, RequeueTimed(d) \/ Read(d) PROVE a \in accounts'
  BY <1>5 DEF RequeueTimed, RequeueAfter, Read, vars
<1>6. CASE Watch \/ Resync \/ CrashTimed \/ Tick
  BY <1>6 DEF Watch, WatchAccounts, WatchCR, WatchSecret, Resync, CrashTimed, Crash, Tick
<1>7. CASE Surroundings
  BY <1>3, <1>7 DEF Surroundings, CreateCR
<1> QED BY <1>1, <1>2, <1>4, <1>5, <1>6, <1>7 DEF ScheduleNext, APICallTimed

\* What a Reconcile holds after its first step.
LEMMA Begins ==
  ASSUME Kept, AllInSync, NEW c \in CR, Steady(c), \A r \in Registry : registry[r].ready, Reconcile(c)
  PROVE  LET i == crCache[c]  z == w'[c] IN
    /\ w[c].pc = "idle" /\ UNCHANGED <<cr, crCache, secrets, accounts, registry>>
    /\ \/ z = w[c] /\ i.uid = 0
       \/ /\ z.base = i /\ z.instance = i
          /\ \/ z.pc = "addFinalizer"
             \/ z.pc = "updateRotation" /\ z.registry = getRegistryKeyForCR(i)
             \/ z.pc = "report" /\ z.cond = "True"
             \/ z.pc = "report" /\ z.cond = "bcrypt" /\ faults' = faults + 1
<1> DEFINE i == crCache[c]
           z == w'[c]
           s == secretCache[c]
           ns == getRegistryKeyForCR(i)
<1>0. w \in [CR -> Worker] /\ crCache[c] \in CRObject
  BY DEF Kept, Informed, Safe, TypeInv, TypeOK
<1>1. w[c].pc = "idle" /\ UNCHANGED <<cr, crCache, secrets, accounts, registry>>
  BY DEF Reconcile, ReconcileNotFound, ReconcileDeleted, ReconcileNew,
     ReconcileUnavailable, ReconcileInSync, ReconcileRotate, ReconcileBcryptFails,
     Compare, Dequeue, SameController
<1>2. ~i.deleting /\ i.statusRegistry \in {NoRegistry, ns}
  BY DEF Kept, Alive, Steady, VersionsOf
<1>3. ns \in Registry
  BY <1>0, RegistryKeyType
<1>compare. ASSUME NEW step, NEW cond, NEW then, Compare(c, i, s, ns, step, cond, then)
            PROVE  z.base = i /\ z.instance = i /\ z.pc = step /\ z.cond = cond /\ z.registry = ns
  BY <1>0, <1>compare DEF Compare, Idle
<1>4. CASE ReconcileNotFound(c)
  BY <1>1, <1>4 DEF ReconcileNotFound
<1>5. CASE ReconcileNew(c)
  <2>1. z.base = i /\ z.instance = i /\ z.pc = "addFinalizer"
    BY <1>0, <1>5 DEF ReconcileNew, Load, Idle
  <2> QED BY <1>1, <2>1
<1>6. CASE ReconcileInSync(c)
  <2>1. PICK then : Compare(c, i, s, ns, "report", "True", then)
    BY <1>6 DEF ReconcileInSync
  <2> QED BY <1>1, <1>compare, <2>1
<1>7. CASE ReconcileRotate(c)
  <2>1. PICK then : Compare(c, i, s, ns, "updateRotation", "True", then)
    BY <1>2, <1>7 DEF ReconcileRotate
  <2> QED BY <1>1, <1>compare, <2>1
<1>8. CASE ReconcileBcryptFails(c)
  <2>1. Compare(c, i, s, ns, "report", "bcrypt", FALSE) /\ faults' = faults + 1
    BY <1>8 DEF ReconcileBcryptFails, Respond
  <2> QED BY <1>1, <1>compare, <2>1
<1>9. ~ReconcileDeleted(c) /\ ~ReconcileUnavailable(c)
  BY <1>2, <1>3 DEF ReconcileDeleted, ReconcileUnavailable
<1> QED BY <1>4, <1>5, <1>6, <1>7, <1>8, <1>9 DEF Reconcile

\* Who reads a Secret has its password.
LEMMA Readers ==
  ASSUME ScheduleTyped, [ScheduleNext]_scheduleVars, TypeOK, faults <= MaxFaults, NEW c \in CR
  PROVE  \/ client'[c] = client[c]
         \/ /\ client'[c].password = secrets[c].password /\ secrets[c].owner # 0
            /\ secrets'[c] = secrets[c]
         \/ /\ Tick /\ client'[c].password = client[c].password
            /\ client'[c].age = Smaller(client[c].age + 1, Grace)
<1>0. client \in [CR -> [password: 0..passwords, age: 0..Grace]]
  BY DEF ScheduleTyped, ScheduleTypeOK
<1>1. ASSUME NEW d \in CR, Read(d)
      PROVE  \/ client'[c] = client[c]
             \/ /\ client'[c].password = secrets[c].password /\ secrets[c].owner # 0
                /\ secrets'[c] = secrets[c]
  BY <1>0, <1>1 DEF Read, vars
<1>2. CASE Tick
  BY <1>0, <1>2 DEF Tick
<1> QED BY <1>1, <1>2, FaultsAndReaders

\* No CR changes its registry, no account is deleted before it has expired.
LEMMA SteadyKept ==
  ASSUME InTime, [ScheduleNext]_scheduleVars, NEW c \in CR, Steady(c)
  PROVE  Steady(c)'
<1>0. /\ Informed /\ Safe /\ TypeOK /\ Kept /\ AllInSync /\ faults <= MaxFaults /\ ScheduleTyped
      /\ \A r \in Registry : registry[r].ready
      /\ cr[c].uid \in Nat /\ secrets[c].owner \in Nat
  BY DEF InTime, Kept, Informed, Safe, TypeInv, TypeOK, CRObject, SecretObject
<1>idle. Idle.pc = "idle" /\ Idle.base.statusRegistry = NoRegistry /\ Idle.instance.statusRegistry = NoRegistry
  BY DEF Idle, NoCR
<1>readers. ASSUME secrets[c].owner # 0 => secrets'[c].owner # 0
            PROVE  client'[c].password # 0 => secrets'[c].owner # 0
  BY <1>0, <1>readers, Readers DEF Steady
<1>1. CASE Aside(c)
  <2>1. cr'[c] = cr[c] \/ (secrets[c].owner = 0 /\ cr'[c].statusRegistry = NoRegistry)
    BY <1>1 DEF Aside, Steady
  <2>2. w'[c] = w[c] /\ secrets'[c] = secrets[c] /\ crCache'[c] \in {crCache[c], cr[c]}
    BY <1>1 DEF Aside
  <2>3. \A x \in VersionsOf(c)' : x.statusRegistry \in {NoRegistry, getRegistryKeyForCR(x)}
    BY <2>1, <2>2 DEF VersionsOf, Steady
  <2> QED BY <1>readers, <2>1, <2>2, <2>3 DEF Steady, getRegistryKeyForCR
<1>2. CASE ReconcileTimed(c)
  <2>1. Reconcile(c)
    BY <1>2 DEF ReconcileTimed
  <2>2. /\ UNCHANGED <<cr, crCache, secrets>> /\ w[c].pc = "idle"
        /\ \/ w'[c] = w[c]
           \/ /\ w'[c].base = crCache[c] /\ w'[c].instance = crCache[c]
              /\ \/ w'[c].pc \in {"addFinalizer", "report"}
                 \/ w'[c].pc = "updateRotation" /\ w'[c].registry = getRegistryKeyForCR(crCache[c])
    BY <1>0, <2>1, Begins
  <2>3. \A x \in VersionsOf(c)' : x \in VersionsOf(c)
    BY <2>2 DEF VersionsOf
  <2>4. \A x \in VersionsOf(c)' : x.statusRegistry \in {NoRegistry, getRegistryKeyForCR(x)}
    BY <2>3 DEF Steady
  <2> QED BY <1>readers, <2>2, <2>4 DEF Steady, Rotating, getRegistryKeyForCR
<1>3. CASE APICallTimed(c)
  <2> DEFINE x == w[c]
             z == w'[c]
             i == w[c].instance
             Placing(y) == y.statusRegistry \in {NoRegistry, getRegistryKeyForCR(y)}
  <2>0. APICall(c)
    BY <1>3 DEF APICallTimed
  <2>1. /\ x.pc # "idle" /\ crCache' = crCache
        /\ secrets'[c] = secrets[c] \/ (x.pc = "writeSecret" /\ secrets'[c].owner = cr[c].uid)
        /\ cr'[c] = cr[c] \/
             /\ cr'[c].uid = cr[c].uid /\ cr'[c].registryRef = i.registryRef
             /\ cr'[c].statusRegistry = i.statusRegistry \/
                  (x.pc = "updateRotation" /\ cr'[c].statusRegistry = x.registry)
        /\ \/ z = Idle
           \/ /\ z.base = x.base /\ z.instance = i
              /\ z.pc \in {"reportUnsynced", "report"} \/
                   (x.pc = "createAccount" /\ z.pc = "writeSecret" /\ z.registry = x.registry)
           \/ /\ x.pc = "updateRotation" /\ z.registry = x.registry
              /\ z.instance.registryRef = i.registryRef /\ z.instance.statusRegistry = x.registry
              /\ z.base \in {x.base, z.instance} /\ z.pc \in {"createAccount", "report"}
    BY <1>0, <2>0, CallSteps
  <2>2. /\ Placing(cr[c]) /\ Placing(crCache[c]) /\ Placing(x.base) /\ Placing(i)
        /\ x.pc \in Rotating => x.registry = getRegistryKeyForCR(i)
    BY DEF Steady, VersionsOf
  <2>3. ASSUME NEW y, y.registryRef = i.registryRef,
               y.statusRegistry = i.statusRegistry \/
                 (x.pc = "updateRotation" /\ y.statusRegistry = x.registry)
        PROVE  Placing(y) /\ (x.pc = "updateRotation" => getRegistryKeyForCR(y) = x.registry)
    BY <2>2, <2>3 DEF getRegistryKeyForCR, Rotating
  <2>4. Placing(cr'[c])
    BY <2>1, <2>2, <2>3
  <2>5. Placing(z.base) /\ Placing(z.instance)
    <3>1. Placing(Idle.base) /\ Placing(Idle.instance)
      BY <1>idle
    <3> QED BY <2>1, <2>2, <2>3, <3>1
  <2>6. z.pc \in Rotating => z.registry = getRegistryKeyForCR(z.instance)
    BY <1>idle, <2>1, <2>2, <2>3 DEF Rotating
  <2>7. z.pc \notin {"deleteAccounts", "removeFinalizer", "deleteOldAccounts"}
    BY <1>idle, <2>1
  <2>8. x.pc = "writeSecret" => cr[c].uid # 0
    BY <1>0, <2>1, BaseFacts DEF WorkerSafe, Present
  <2>9. cr'[c].uid = cr[c].uid
    BY <2>1
  <2>10. (secrets'[c].owner # 0 => secrets'[c].owner = cr'[c].uid)
         /\ (secrets[c].owner # 0 => secrets'[c].owner # 0)
    BY <2>1, <2>8, <2>9 DEF Steady
  <2>11. \A y \in VersionsOf(c)' : Placing(y)
    BY <2>1, <2>2, <2>4, <2>5 DEF VersionsOf
  <2>12. \A y \in VersionsOf(c)' : y.statusRegistry \in {NoRegistry, getRegistryKeyForCR(y)}
    BY <2>11
  <2> QED BY <1>readers, <2>6, <2>7, <2>10, <2>12 DEF Steady, getRegistryKeyForCR
<1>4. CASE CrashTimed
  <2>1. /\ cr' = cr /\ crCache' = cr /\ w'[c] = Idle /\ secrets' = secrets
    BY <1>4 DEF CrashTimed, Crash
  <2>2. \A x \in VersionsOf(c)' : x.statusRegistry \in {NoRegistry, getRegistryKeyForCR(x)}
    BY <1>idle, <2>1 DEF VersionsOf, Steady
  <2> QED BY <1>readers, <1>idle, <2>1, <2>2 DEF Steady, Rotating, getRegistryKeyForCR
<1> QED BY <1>0, <1>1, <1>2, <1>3, <1>4, StepsInTime

\* Which conditions are reported does not depend on who is at work meanwhile.
LEMMA ReportedKept ==
  ASSUME InTime, [ScheduleNext]_scheduleVars, NEW c \in CR, Steady(c), Reported(c)
  PROVE  Reported(c)'
<1>0. /\ Informed /\ Safe /\ TypeOK /\ TypeOK' /\ Kept /\ AllInSync /\ Current(c)
      /\ \A r \in Registry : registry[r].ready
      /\ w[c].base.uid <= uids /\ w[c].base.uid \in Nat /\ uids \in Nat
  BY ScheduleInformed, Numbers DEF InTime, Kept, Informed, Safe, TypeInv, WorkerSafe
<1>outdated. ASSUME crCache'[c] = crCache[c], Outdated(c) PROVE Outdated(c)'
  <2>1. CASE Resync \/ Tick
    <3>1. cr' = cr /\ crCache' = crCache
      BY <2>1 DEF Resync, Tick
    <3> QED BY <1>outdated, <3>1 DEF Outdated
  <2> QED BY <1>0, <1>outdated, <2>1, TimeSteps, OutdatedStays
<1>1. CASE Aside(c)
  <2>1. w'[c] = w[c]
    BY <1>1 DEF Aside
  <2>2. cr[c] # w[c].base => cr'[c] # w[c].base
    BY <1>0, <1>1 DEF Aside
  <2>3. c \notin queue' => c \notin queue /\ crCache'[c] = crCache[c]
    BY <1>1 DEF Aside
  <2> QED BY <1>outdated, <2>1, <2>2, <2>3 DEF Reported
<1>2. CASE ReconcileTimed(c)
  <2>1. Reconcile(c)
    BY <1>2 DEF ReconcileTimed
  <2>2. w'[c].pc = "report" => w'[c].cond \in {"True", "bcrypt"}
    BY <1>0, <2>1, Begins
  <2> QED BY <2>2 DEF Reported
<1>3. CASE APICallTimed(c)
  <2>0. APICall(c)
    BY <1>3 DEF APICallTimed
  <2> DEFINE x == w[c]
             z == w'[c]
  <2>1. /\ crCache' = crCache /\ (c \notin queue' => c \notin queue)
        /\ z.pc = "report" =>
             \/ z.cond \in {"outage", "True"}
             \/ z.cond = "conflict" /\ z.base = x.base /\ cr'[c] = cr[c] /\ cr[c] # x.base
             \/ z.cond = "accountExists" /\ x.pc = "createAccount"
             \/ z.cond \in {"secretExists", "secretConflict"} /\ x.pc = "writeSecret"
    <3>1. Idle.pc # "report"
      BY DEF Idle
    <3> QED BY <1>0, <2>0, <3>1, CallSteps
  <2>2. x.pc \in {"createAccount", "writeSecret"} /\ c \notin queue' => Outdated(c)
    BY <1>0, <2>1 DEF Current
  <2> QED BY <1>outdated, <2>1, <2>2 DEF Reported
<1>4. CASE CrashTimed
  BY <1>4 DEF CrashTimed, Crash, Idle, Reported
<1> QED BY <1>0, <1>1, <1>2, <1>3, <1>4, StepsInTime

\* The passwords of c that matter have been generated, so they have an age.
LEMMA PasswordsOf ==
  ASSUME ScheduleTyped, NEW c \in CR, NEW p, HasAccount(accounts, c, p)
  PROVE  p \in 1..passwords /\ age[p] \in 0..(TTL + 1)
<1>1. p \in 1..passwords
  BY DEF HasAccount, ScheduleTyped, Generated
<1> QED BY <1>1 DEF ScheduleTyped, ScheduleTypeOK

\* An account within its TTL stays, and is as old as before unless time passes.
LEMMA AccountKept ==
  ASSUME InTime, \A d \in CR : Steady(d), [ScheduleNext]_scheduleVars,
         NEW c \in CR, NEW p, HasAccount(accounts, c, p)
  PROVE  /\ age[p] <= TTL => HasAccount(accounts', c, p)
         /\ age[p] \in Nat
         /\ ~Tick => age'[p] = age[p]
         /\ Tick => age'[p] \in Nat /\ age'[p] <= age[p] + 1
<1>0. TypeOK /\ ScheduleTyped /\ Informed /\ TTL \in Nat
  BY Times DEF InTime, Kept, Informed, Safe, TypeInv
<1>1. p \in 1..passwords /\ age[p] \in 0..(TTL + 1)
  BY <1>0, PasswordsOf
<1>2. age[p] <= TTL => HasAccount(accounts', c, p)
  <2>1. PICK a \in accounts : a.cr = c /\ a.password = p
    BY DEF HasAccount
  <2>2. age[p] <= TTL => a \in accounts'
    BY <1>0, <1>1, <2>1, AccountsStay
  <2> QED BY <2>1, <2>2 DEF HasAccount
<1>3. ~Tick => age'[p] = age[p]
  BY <1>0, <1>1, ScheduleTypesKept
<1>4. Tick => age'[p] \in Nat /\ age'[p] <= age[p] + 1
  BY <1>0, <1>1 DEF Tick, Smaller
<1> QED BY <1>0, <1>1, <1>2, <1>3, <1>4

\* What the bound on the faults makes of the ages: nothing in use has expired.
LEMMA WithinTTL ==
  ASSUME InTime, Latest(MaxFaults) + Grace <= TTL, NEW c \in CR, Steady(c), Backed(c), InUse(c)
  PROVE  /\ secrets[c].owner # 0 => age[secrets[c].password] <= TTL
         /\ client[c].password # 0 => age[client[c].password] <= TTL
         /\ w[c].pc = "writeSecret" => age[w[c].password] <= TTL
<1>0. /\ faults \in Nat /\ MaxFaults \in Nat /\ faults <= MaxFaults /\ ScheduleTyped
      /\ TTL \in Nat /\ Grace \in Nat
      /\ client[c].age \in 0..Grace
  BY BoundAssumption, Times
     DEF InTime, Kept, Informed, Safe, TypeInv, TypeOK, ScheduleTyped, ScheduleTypeOK
<1>1. Latest(faults) \in Nat /\ Latest(MaxFaults) \in Nat /\ Latest(faults) <= Latest(MaxFaults)
  BY <1>0, LatestStep, LatestLater
<1>2. Latest(faults) + Grace <= TTL
  BY <1>0, <1>1
<1>3. secrets[c].owner # 0 => age[secrets[c].password] \in Nat /\ age[secrets[c].password] <= TTL
  BY <1>0, <1>1, <1>2, PasswordsOf DEF InUse, SecretBy, Backed
<1>4. client[c].password # 0 => age[client[c].password] <= TTL
  <2> SUFFICES ASSUME client[c].password # 0 PROVE age[client[c].password] <= TTL
    OBVIOUS
  <2>1. CASE client[c].password = secrets[c].password
    BY <1>3, <2>1 DEF Steady
  <2>2. CASE age[client[c].password] <= Latest(faults) + client[c].age
    <3>1. age[client[c].password] \in Nat
      BY <1>0, PasswordsOf DEF Backed
    <3> QED BY <1>0, <1>1, <1>2, <2>2, <3>1
  <2> QED BY <2>1, <2>2 DEF InUse
<1>5. w[c].pc = "writeSecret" => age[w[c].password] <= TTL
  BY <1>0 DEF Backed
<1> QED BY <1>3, <1>4, <1>5

\* A new account has age 0.
LEMMA JustCreated ==
  ASSUME TypeOK, NEW c \in CR, APICallTimed(c), passwords' = passwords + 1
  PROVE  age'[passwords + 1] = 0
<1>1. passwords \in Nat /\ passwords + 1 \in 1..passwords' /\ ~(passwords + 1 <= passwords)
  BY DEF TypeOK
<1> QED BY <1>1 DEF APICallTimed, Instant

\* The accounts of the passwords in use stay.
LEMMA BackedKept ==
  ASSUME InTime, Latest(MaxFaults) + Grace <= TTL, \A d \in CR : Steady(d),
         [ScheduleNext]_scheduleVars, NEW c \in CR, Backed(c), InUse(c)
  PROVE  Backed(c)'
<1>0. /\ Informed /\ Safe /\ TypeOK /\ Kept /\ AllInSync /\ ScheduleTyped /\ faults <= MaxFaults
      /\ \A r \in Registry : registry[r].ready /\ Steady(c)
  BY DEF InTime, Kept, Informed, Safe, TypeInv
<1>secret. secrets[c].owner # 0 => HasAccount(accounts', c, secrets[c].password)
  BY <1>0, WithinTTL, AccountKept DEF Backed
<1>client. client[c].password # 0 => HasAccount(accounts', c, client[c].password)
  BY <1>0, WithinTTL, AccountKept DEF Backed
<1>new. w[c].pc = "writeSecret" =>
          /\ HasAccount(accounts', c, w[c].password)
          /\ ~Tick => age'[w[c].password] = 0
  BY <1>0, WithinTTL, AccountKept DEF Backed
<1>readers. client'[c].password # 0 => HasAccount(accounts', c, client'[c].password)
  <2>1. \/ client'[c].password = client[c].password
        \/ client'[c].password = secrets[c].password /\ secrets[c].owner # 0
    BY <1>0, Readers
  <2> QED BY <1>secret, <1>client, <2>1 DEF HasAccount
<1>1. CASE Aside(c) \/ ReconcileTimed(c) \/ CrashTimed
  <2>1. secrets'[c] = secrets[c] /\ (w'[c].pc = "writeSecret" => w'[c] = w[c] /\ ~Tick)
    <3>1. CASE Aside(c)
      BY <3>1 DEF Aside, Tick
    <3>2. CASE CrashTimed
      BY <3>2 DEF CrashTimed, Crash, Idle
    <3>3. CASE ReconcileTimed(c)
      <4>1. Reconcile(c)
        BY <3>3 DEF ReconcileTimed
      <4> QED BY <1>0, <4>1, Begins
    <3> QED BY <1>1, <3>1, <3>2, <3>3
  <2> QED BY <1>secret, <1>new, <1>readers, <2>1 DEF Backed, HasAccount
<1>2. CASE APICallTimed(c)
  <2>0. APICall(c)
    BY <1>2 DEF APICallTimed
  <2>1. /\ secrets'[c] = secrets[c] \/
             (w[c].pc = "writeSecret" /\ secrets'[c].password = w[c].password)
        /\ w'[c].pc = "writeSecret" =>
             w'[c].password = passwords + 1 /\ passwords' = passwords + 1 /\ NewAccount(c) \in accounts'
    <3>1. Idle.pc # "writeSecret"
      BY DEF Idle
    <3> QED BY <1>0, <2>0, <3>1, CallSteps
  <2>2. NewAccount(c).cr = c /\ NewAccount(c).password = passwords + 1
    BY DEF NewAccount
  <2>3. passwords' = passwords + 1 => age'[passwords + 1] = 0
    BY <1>0, <1>2, JustCreated
  <2> QED BY <1>secret, <1>new, <1>readers, <2>1, <2>2, <2>3 DEF Backed, HasAccount
<1> QED BY <1>0, <1>1, <1>2, StepsInTime

\* A password belongs to one account.
LEMMA NamedKept ==
  ASSUME InTime, \A d \in CR : Steady(d), [ScheduleNext]_scheduleVars, NEW c \in CR, Named(c)
  PROVE  Named(c)'
<1>0. /\ Informed /\ Safe /\ TypeOK /\ TypeOK' /\ Kept /\ AllInSync /\ ScheduleTyped
      /\ \A r \in Registry : registry[r].ready
      /\ Steady(c) /\ passwords \in Nat /\ secrets \in [CR -> SecretObject]
  BY ScheduleInformed DEF InTime, Kept, Informed, Safe, TypeInv, TypeOK
<1>1. ASSUME NEW a \in accounts', a.cr = c, a \notin accounts
      PROVE  /\ a = NewAccount(c) /\ w[c].pc = "createAccount" /\ APICall(c)
             /\ a.password = passwords + 1 /\ a.registry = w[c].registry
             /\ a.rotation = w[c].instance.rotation
  <2>1. ASSUME NEW d \in CR, APICall(d)
        PROVE  a = NewAccount(c) /\ w[c].pc = "createAccount" /\ APICall(c)
    <3>1. NewAccount(d).cr = d
      BY DEF NewAccount
    <3> QED BY <1>0, <1>1, <2>1, <3>1, APICallKeeps
  <2>2. ASSUME NEW d \in CR, Reconcile(d) PROVE FALSE
    BY <1>0, <1>1, <2>2, ReconcileKeeps
  <2>3. ~Rest /\ ~Resync /\ ~Tick /\ ~UNCHANGED vars
    BY <1>0, <1>1, RestKeeps DEF Resync, Tick, vars
  <2> QED BY <2>1, <2>2, <2>3, TimeSteps, NextCases DEF NewAccount
<1>2. \A a \in accounts : a.cr = c => a.password \in 1..passwords
  BY <1>0 DEF ScheduleTyped, Generated
<1>3. secrets[c].password \in Nat /\ secrets[c].password <= passwords
  BY <1>0 DEF ScheduleTyped, Generated, SecretObject
<1>4. CASE Aside(c) \/ ReconcileTimed(c) \/ CrashTimed
  <2>1. secrets'[c] = secrets[c] /\ (w'[c].pc = "writeSecret" => w'[c] = w[c])
    <3>1. CASE Aside(c)
      BY <3>1 DEF Aside
    <3>2. CASE CrashTimed
      BY <3>2 DEF CrashTimed, Crash, Idle
    <3>3. CASE ReconcileTimed(c)
      <4>1. Reconcile(c)
        BY <3>3 DEF ReconcileTimed
      <4> QED BY <1>0, <4>1, Begins
    <3> QED BY <1>4, <3>1, <3>2, <3>3
  <2>2. w'[c].pc = "writeSecret" => accounts' \cap {a \in accounts' : a.cr = c} \subseteq accounts
    <3>1. ASSUME NEW a \in accounts', a.cr = c, a \notin accounts PROVE w'[c].pc # "writeSecret"
      BY <1>1, <2>1, <3>1
    <3> QED BY <3>1
  <2>3. \A a \in accounts' : a.cr = c /\ a.password = secrets[c].password => a \in accounts
    <3>1. ASSUME NEW a \in accounts', a.cr = c, a \notin accounts PROVE a.password # secrets[c].password
      BY <1>0, <1>1, <1>3, <3>1
    <3> QED BY <3>1
  <2> QED BY <2>1, <2>2, <2>3 DEF Named
<1>5. CASE APICallTimed(c)
  <2>0. APICall(c)
    BY <1>5 DEF APICallTimed
  <2> DEFINE x == w[c]
             z == w'[c]
  <2>1. /\ secrets'[c] = secrets[c] \/
             /\ x.pc = "writeSecret" /\ secrets'[c].password = x.password
             /\ secrets'[c].registry = x.registry /\ secrets'[c].rotation = x.instance.rotation
        /\ z.pc = "writeSecret" =>
             /\ z.password = passwords + 1 /\ z.registry = x.registry /\ z.instance = x.instance
    <3>1. Idle.pc # "writeSecret"
      BY DEF Idle
    <3> QED BY <1>0, <2>0, <3>1, CallSteps
  <2>2. ASSUME secrets'[c].owner # 0, NEW a \in accounts', a.cr = c, a.password = secrets'[c].password
        PROVE  a.registry = secrets'[c].registry /\ a.rotation = secrets'[c].rotation
    <3>1. CASE a \notin accounts
      <4>1. a.password = passwords + 1 /\ x.pc = "createAccount"
        BY <1>1, <2>2, <3>1
      <4>2. secrets'[c].password = secrets[c].password
        BY <2>1, <4>1
      <4>3. passwords \in Nat /\ secrets[c].password \in Nat /\ secrets[c].password <= passwords
        BY <1>0, <1>3
      <4>4. passwords + 1 = secrets[c].password
        BY <2>2, <4>1, <4>2
      <4> QED BY <4>3, <4>4
    <3>2. CASE a \in accounts
      BY <2>1, <2>2, <3>2 DEF Named
    <3> QED BY <3>1, <3>2
  <2>3. ASSUME z.pc = "writeSecret", NEW a \in accounts', a.cr = c, a.password = z.password
        PROVE  a.registry = z.registry /\ a.rotation = z.instance.rotation
    <3>1. a \notin accounts
      BY <1>0, <1>2, <2>1, <2>3
    <3> QED BY <1>1, <2>1, <2>3, <3>1
  <2> QED BY <2>2, <2>3 DEF Named
<1> QED BY <1>0, <1>4, <1>5, StepsInTime

\* A Secret keeps its password, or gets the one just created.
LEMMA SecretAges ==
  ASSUME InTime, \A d \in CR : Steady(d), [ScheduleNext]_scheduleVars, ~Tick,
         NEW c \in CR, Backed(c), secrets'[c].owner # 0
  PROVE  \/ age'[secrets'[c].password] = 0
         \/ /\ secrets[c].owner # 0 /\ age'[secrets'[c].password] = age[secrets[c].password]
            /\ age[secrets[c].password] \in Nat
<1>0. Kept /\ Informed /\ TypeOK /\ Steady(c)
  BY DEF InTime, Kept, Informed, Safe, TypeInv
<1>1. secrets[c].owner # 0 => /\ age'[secrets[c].password] = age[secrets[c].password]
                              /\ age[secrets[c].password] \in Nat
  BY <1>0, AccountKept DEF Backed
<1>2. w[c].pc = "writeSecret" => age'[w[c].password] = 0
  BY <1>0, AccountKept DEF Backed
<1>3. secrets'[c] = secrets[c] \/
        (w[c].pc = "writeSecret" /\ secrets'[c].password = w[c].password)
  <2>1. Aside(c) \/ ReconcileTimed(c) \/ CrashTimed => secrets'[c] = secrets[c]
    BY <1>0, ReconcileKeeps DEF Aside, ReconcileTimed, CrashTimed, Crash
  <2>2. APICallTimed(c) => APICall(c)
    BY DEF APICallTimed
  <2> QED BY <1>0, <2>1, <2>2, CallSteps, StepsInTime
<1> QED BY <1>1, <1>2, <1>3

\* Time passes: a Ready CR comes back in time, another with the next resync.
LEMMA TimeLeft ==
  ASSUME InTime, Tick, NEW c \in CR, Steady(c), Backed(c), Named(c), InUse(c), Counted(c),
         secrets[c].owner # 0
  PROVE  /\ age[secrets[c].password] \in Nat
         /\ age[secrets[c].password] + 1 <= Latest(faults)
         /\ cr[c].ready # "True" => age[secrets[c].password] + 1 <= Latest(faults) - SyncPeriod + sync + 1
<1>0. /\ Kept /\ Safe /\ ScheduleTyped /\ faults \in Nat /\ SyncPeriod \in Nat /\ Interval \in Nat
      /\ sync \in Nat /\ sync < SyncPeriod /\ Never \in Nat /\ delay[c] \in 0..Never
      /\ Versions(c) /\ Match(c) /\ Alive(c) /\ RestsInTime(c) /\ AllInSync
  <2>1. Kept /\ Safe /\ ScheduleTyped /\ TypeOK /\ StoreSafe(c) /\ RestsInTime(c) /\ AllInSync
        /\ Versions(c) /\ Alive(c)
    BY DEF InTime, Kept, Informed, Safe, TypeInv
  <2>2. sync \in Nat /\ sync < SyncPeriod
    BY <2>1 DEF Tick, ScheduleTyped, ScheduleTypeOK
  <2> QED BY <2>1, <2>2, Times DEF StoreSafe, TypeOK, ScheduleTyped, ScheduleTypeOK
<1>1. age[secrets[c].password] \in Nat
  BY <1>0, PasswordsOf DEF Backed
<1>2. /\ Latest(faults) \in Nat /\ Interval + 1 <= Latest(faults)
  BY <1>0, LatestStep
<1>3. /\ w[c].pc = "idle" /\ c \notin queue /\ crCache = cr /\ accountCache = accounts
      /\ secretCache = secrets /\ delay[c] # 0
  BY DEF Tick
<1>4. cr[c].uid = secrets[c].owner /\ cr[c].uid # 0
  BY DEF Steady
<1>5. CASE cr[c].ready = "True"
  <2>1. AtRest(c)
    BY <1>0, <1>3, <1>4, <1>5 DEF AtRest, Alive
  <2>2. InSync(c)
    BY <1>0, <2>1 DEF AllInSync
  <2>3. PICK a \in accounts : a.cr = c /\ a.password = secrets[c].password
    BY DEF Backed, HasAccount
  <2>4. Intact(c)
    BY <1>0, <2>3 DEF ScheduleTyped, Generated, Intact
  <2>5. a.registry = secrets[c].registry /\ a.rotation = secrets[c].annotation
    BY <1>0, <1>3, <2>2, <2>3, <2>4 DEF Named, InSync, Versions
  <2>6. a \in Renewed(c)
    BY <1>3, <2>2, <2>3, <2>5 DEF InSync, Renewed, Accounts
  <2>7. delay[c] <= Interval + 1 - age[secrets[c].password]
    BY <1>0, <2>1, <2>3, <2>6 DEF RestsInTime
  <2> QED BY <1>0, <1>1, <1>2, <1>3, <1>5, <2>7
<1>6. CASE cr[c].ready # "True"
  <2>1. Unready(c)
    BY <1>3, <1>4, <1>6 DEF Unready
  <2>2. age[secrets[c].password] <= Latest(faults) - SyncPeriod + sync
    BY <2>1 DEF Counted, SecretBy
  <2> QED BY <1>0, <1>1, <1>2, <2>2
<1> QED BY <1>5, <1>6

\* Whatever happens, nothing in use gets older than the faults explain.
LEMMA InUseKept ==
  ASSUME InTime, \A d \in CR : Steady(d), [ScheduleNext]_scheduleVars,
         NEW c \in CR, Backed(c), Named(c), InUse(c), Counted(c)
  PROVE  InUse(c)'
<1>0. /\ Kept /\ TypeOK /\ ScheduleTyped /\ Steady(c) /\ faults \in Nat /\ faults <= MaxFaults
      /\ client \in [CR -> [password: 0..passwords, age: 0..Grace]] /\ Grace \in Nat
      /\ client[c].age \in 0..Grace
  BY Times DEF InTime, Kept, Informed, Safe, TypeInv, TypeOK, ScheduleTyped, ScheduleTypeOK
<1>1. faults' \in Nat /\ Latest(faults) \in Nat /\ Latest(faults') \in Nat /\ Latest(faults) <= Latest(faults')
  <2>1. faults' \in {faults, faults + 1}
    BY <1>0, FaultsAndReaders
  <2> QED BY <1>0, <2>1, LatestStep
<1>2. CASE ~Tick
  <2>1. SecretBy(c, Latest(faults))'
    <3> SUFFICES ASSUME secrets'[c].owner # 0 PROVE age'[secrets'[c].password] <= Latest(faults')
      BY DEF SecretBy
    <3> QED BY <1>1, <1>2, SecretAges DEF InUse, SecretBy
  <2>2. ASSUME client'[c].password # 0
        PROVE  \/ client'[c].password = secrets'[c].password
               \/ age'[client'[c].password] <= Latest(faults') + client'[c].age
    <3>1. CASE client'[c] = client[c]
      <4> DEFINE p == client[c].password
      <4>1. age[p] \in Nat /\ age'[p] = age[p]
        BY <1>0, <1>2, <2>2, <3>1, AccountKept DEF Backed
      <4>2. age[p] <= Latest(faults) + client[c].age
        <5>1. p = secrets[c].password => age[p] <= Latest(faults)
          BY <2>2, <3>1 DEF Steady, InUse, SecretBy
        <5>2. p = secrets[c].password \/ age[p] <= Latest(faults) + client[c].age
          BY <2>2, <3>1 DEF InUse
        <5> HIDE DEF p
        <5> QED BY <1>0, <1>1, <4>1, <5>1, <5>2
      <4> HIDE DEF p
      <4>3. age'[p] <= Latest(faults') + client[c].age
        BY <1>0, <1>1, <4>1, <4>2
      <4> QED BY <3>1, <4>3 DEF p
    <3>2. CASE client'[c].password = secrets[c].password /\ secrets'[c] = secrets[c]
      BY <3>2
    <3> QED BY <1>0, <1>2, <3>1, <3>2, Readers
  <2> QED BY <2>1, <2>2 DEF InUse
<1>3. CASE Tick
  <2>1. /\ secrets' = secrets /\ faults' = faults
        /\ client'[c].password = client[c].password
        /\ client'[c].age = Smaller(client[c].age + 1, Grace)
        /\ secrets[c].owner # 0 => client[c].age < Grace
    BY <1>0, <1>3 DEF Tick
  <2>2. SecretBy(c, Latest(faults))'
    <3> SUFFICES ASSUME secrets[c].owner # 0 PROVE age'[secrets[c].password] <= Latest(faults)
      BY <2>1 DEF SecretBy
    <3>1. age[secrets[c].password] \in Nat /\ age[secrets[c].password] + 1 <= Latest(faults)
      BY <1>0, <1>3, TimeLeft
    <3>2. age'[secrets[c].password] \in Nat /\ age'[secrets[c].password] <= age[secrets[c].password] + 1
      BY <1>3, AccountKept DEF Backed
    <3> QED BY <1>1, <3>1, <3>2
  <2>3. ASSUME client[c].password # 0, client[c].password # secrets[c].password
        PROVE  age'[client[c].password] <= Latest(faults) + client'[c].age
    <3>1. client'[c].age = client[c].age + 1
      BY <1>0, <2>1, <2>3 DEF Steady, Smaller
    <3>2. /\ age'[client[c].password] \in Nat /\ age[client[c].password] \in Nat
          /\ age'[client[c].password] <= age[client[c].password] + 1
      BY <1>3, <2>3, AccountKept DEF Backed
    <3>3. age[client[c].password] <= Latest(faults) + client[c].age
      BY <2>3 DEF InUse
    <3> QED BY <1>0, <1>1, <3>1, <3>2, <3>3
  <2> QED BY <2>1, <2>2, <2>3 DEF InUse
<1> QED BY <1>2, <1>3

\* The request of a CR that is not Ready is lost only by a Reconcile that has
\* failed for the reason that the CR shows already.
LEMMA ComesToUnready ==
  ASSUME InTime, [ScheduleNext]_scheduleVars, NEW c \in CR, Steady(c), Reported(c), Unready(c)'
  PROVE  \/ Aside(c) /\ Unready(c) /\ ~Resync
         \/ /\ Report(c) /\ w[c].cond \in Failures /\ w[c].instance.ready = w[c].cond
            /\ faults' = faults
<1>0. /\ Informed /\ Safe /\ TypeOK /\ TypeOK' /\ Kept /\ AllInSync /\ Current(c) /\ Versions(c)
      /\ \A r \in Registry : registry[r].ready
      /\ crCache[c].uid <= uids /\ crCache[c].uid \in Nat /\ uids \in Nat
      /\ cr \in [CR -> CRObject] /\ cr[c] \in CRObject /\ crCache[c] \in CRObject
      /\ w \in [CR -> Worker] /\ w[c] \in Worker /\ cr'[c] \in CRObject
      /\ w[c].base \in CRObject /\ w[c].instance \in CRObject /\ crCache'[c].uid \in Nat
  BY ScheduleInformed, Numbers
     DEF InTime, Kept, Informed, Safe, TypeInv, TypeOK, StoreSafe, Bounded, Worker, CRObject
<1>1. /\ w'[c].pc = "idle" /\ c \notin queue' /\ crCache'[c] = cr'[c]
      /\ cr'[c].uid # 0 /\ cr'[c].ready # "True"
  BY DEF Unready
<1>2. CASE Aside(c)
  <2>1. w'[c] = w[c] /\ c \notin queue /\ crCache'[c] = crCache[c]
    BY <1>1, <1>2 DEF Aside
  <2>2. cr'[c] = cr[c]
    BY <1>0, <1>1, <1>2, <2>1 DEF Aside
  <2>3. ~Resync
    BY <1>1, <2>1 DEF Resync
  <2> QED BY <1>1, <1>2, <2>1, <2>2, <2>3 DEF Unready
<1>3. CASE ReconcileTimed(c)
  <2>1. Reconcile(c)
    BY <1>3 DEF ReconcileTimed
  <2>2. UNCHANGED <<cr, crCache>> /\ (w'[c].pc = "idle" => crCache[c].uid = 0)
    BY <1>0, <2>1, Begins
  <2> QED BY <1>1, <2>2
<1>4. CASE CrashTimed
  BY <1>1, <1>4 DEF CrashTimed, Crash
<1>5. CASE APICallTimed(c)
  <2>0. APICall(c)
    BY <1>5 DEF APICallTimed
  <2>next. [Next]_vars
    BY <2>0 DEF Next, Operator
  <2>1. crCache' = crCache /\ c \notin queue /\ w[c].pc # "idle"
    BY <1>0, <1>1, <2>0, CallSteps
  <2>2. ~Outdated(c)
    <3>1. ~Outdated(c)'
      BY <1>0, <1>1 DEF Outdated, CRObject
    <3> QED BY <1>0, <2>1, <2>next, <3>1, OutdatedStays
  <2>3. w[c].base = crCache[c] /\ w[c].pc \notin {"createAccount", "writeSecret"}
    BY <1>0, <2>1, <2>2 DEF Current
  <2>4. /\ ~DeleteAccounts(c) /\ ~RemoveFinalizer(c) /\ ~DeleteOldAccounts(c)
        /\ ~ReportUnsynced(c)
    BY <1>1 DEF DeleteAccounts, RemoveFinalizer, DeleteOldAccounts, ReportUnsynced, Return, Steady
  <2>5. ~AddFinalizer(c)
    <3> SUFFICES ASSUME AddFinalizer(c) PROVE FALSE
      OBVIOUS
    <3>1. PICK o \in Outcome :
            /\ UpdateCR(c, [w[c].instance EXCEPT !.finalizer = TRUE], o)
            /\ IF o = "ok" THEN Return(c, FALSE, FALSE)
               ELSE w' = [w EXCEPT ![c] = [@ EXCEPT !.pc = "reportUnsynced",
                                             !.cond = ErrorCond(o, "conflict")]]
      BY DEF AddFinalizer
    <3>2. o = "ok"
      BY <1>0, <1>1, <3>1 DEF Worker
    <3>3. cr'[c] = [w[c].instance EXCEPT !.finalizer = TRUE]
      BY <1>0, <3>1, <3>2 DEF UpdateCR, Applied
    <3>4. cr'[c].finalizer /\ ~crCache[c].finalizer
      BY <1>0, <2>3, <3>3 DEF AddFinalizer, Versions, CRObject
    <3> QED BY <1>1, <2>1, <3>4
  <2>6. ~UpdateRotation(c)
    <3>1. UpdateRotation(c) => w'[c].pc # "idle"
      BY <1>0 DEF UpdateRotation, Worker
    <3> QED BY <1>1, <3>1
  <2>7. Report(c) /\ w[c].pc = "report"
    BY <2>0, <2>3, <2>4, <2>5, <2>6 DEF APICall, CreateAccount, WriteSecret, Report
  <2>8. PICK o \in Outcome : setReady(c, w[c].cond, o) /\ Return(c, Failed(o), ~Failed(o) /\ w[c].requeueAfter)
    BY <2>7 DEF Report
  <2>9. o = "ok"
    BY <1>1, <2>8 DEF Return, Failed
  <2> DEFINE f == [w[c].instance EXCEPT !.ready = w[c].cond,
                       !.observedGeneration = w[c].instance.generation]
  <2>10. f.ready = w[c].cond /\ w[c].instance.ready = w[c].base.ready
    BY <1>0, <2>1 DEF CRObject, Versions
  <2>11. \/ UpdateCR(c, f, "ok") /\ cr'[c] = f /\ cr[c] = w[c].base /\ faults' = faults
         \/ cr' = cr /\ faults' = faults /\ w[c].instance.ready = w[c].cond
    <3> HIDE DEF f
    <3>1. UpdateCR(c, f, "ok") \/ (cr' = cr /\ faults' = faults /\ w[c].instance.ready = w[c].cond)
      BY <2>8, <2>9 DEF setReady, f
    <3>2. UpdateCR(c, f, "ok") => cr'[c] = f /\ cr[c] = w[c].base /\ faults' = faults
      BY <1>0 DEF UpdateCR, Respond, Applied
    <3> QED BY <3>1, <3>2
  <2>12. w[c].instance.ready = w[c].cond /\ cr'[c].ready = w[c].cond /\ faults' = faults
         /\ cr[c] = w[c].base
    BY <1>1, <2>1, <2>3, <2>10, <2>11
  <2>13. w[c].cond \in Failures
    <3>1. w[c].cond \in Cond
      BY <1>0 DEF Worker
    <3>2. w[c].cond \notin {"none", "RegistryUnavailable", "True", "conflict"}
      BY <1>1, <2>7, <2>12 DEF Reported
    <3>3. w[c].cond \notin {"accountExists", "secretExists", "secretConflict"}
      BY <2>1, <2>2, <2>7 DEF Reported
    <3> QED BY <3>1, <3>2, <3>3 DEF Cond, Failures
  <2> QED BY <2>7, <2>12, <2>13
<1> QED BY <1>0, <1>2, <1>3, <1>4, <1>5, StepsInTime

\* What the Secret's password got by before an instant, it gets by after it.
LEMMA SecretByKept ==
  ASSUME InTime, \A d \in CR : Steady(d), [ScheduleNext]_scheduleVars, ~Tick,
         NEW c \in CR, Backed(c), NEW t \in Nat, SecretBy(c, t)
  PROVE  secrets'[c].owner # 0 => age'[secrets'[c].password] <= t
BY SecretAges DEF SecretBy

\* A CR shows that something has failed only after it has, ...
LEMMA ShownKept ==
  ASSUME InTime, [ScheduleNext]_scheduleVars, NEW c \in CR, Steady(c), Counted(c)
  PROVE  \A x \in VersionsOf(c)' : x.ready \in Failures => faults' >= 1
<1>0. /\ Informed /\ TypeOK /\ Kept /\ AllInSync /\ faults \in Nat /\ faults <= MaxFaults
      /\ \A r \in Registry : registry[r].ready /\ Versions(c)
  BY DEF InTime, Kept, Informed, Safe, TypeInv, TypeOK
<1>1. faults' \in Nat /\ faults <= faults'
  BY <1>0, FaultsAndReaders
<1>2. \A x \in VersionsOf(c) : x.ready \in Failures => faults' >= 1
  BY <1>0, <1>1 DEF Counted
<1>idle. Idle.base.ready = "none" /\ Idle.instance.ready = "none" /\ "none" \notin Failures
  BY DEF Idle, NoCR, Failures
<1>3. CASE Aside(c)
  <2>1. \A x \in VersionsOf(c)' : x \in VersionsOf(c) \/ x.ready = "none"
    BY <1>3 DEF Aside, VersionsOf
  <2> QED BY <1>2, <1>idle, <2>1
<1>4. CASE ReconcileTimed(c)
  <2>1. Reconcile(c)
    BY <1>4 DEF ReconcileTimed
  <2>2. \A x \in VersionsOf(c)' : x \in VersionsOf(c)
    BY <1>0, <2>1, Begins DEF VersionsOf
  <2> QED BY <1>2, <2>2
<1>5. CASE APICallTimed(c)
  <2>0. APICall(c)
    BY <1>5 DEF APICallTimed
  <2> DEFINE i == w[c].instance
  <2>1. /\ crCache' = crCache
        /\ cr'[c] = cr[c] \/ cr'[c].ready = i.ready \/ (w[c].pc = "report" /\ cr'[c].ready = w[c].cond)
        /\ w'[c] = Idle \/ /\ w'[c].base = w[c].base \/ w'[c].base = w'[c].instance
                           /\ w'[c].instance.ready = i.ready
    BY <1>0, <2>0, CallSteps
  <2>2. i.ready \in Failures => faults' >= 1
    BY <1>2 DEF VersionsOf
  <2>3. w[c].pc = "report" /\ w[c].cond \in Failures => faults' >= 1
    BY <1>0, <1>1 DEF Counted
  <2>4. /\ cr[c].ready \in Failures => faults' >= 1
        /\ crCache[c].ready \in Failures => faults' >= 1
        /\ w[c].base.ready \in Failures => faults' >= 1
    BY <1>2 DEF VersionsOf
  <2>5. cr'[c].ready \in Failures => faults' >= 1
    BY <2>1, <2>2, <2>3, <2>4
  <2>6. w'[c].instance.ready \in Failures => faults' >= 1
    BY <1>idle, <2>1, <2>2
  <2>7. w'[c].base.ready \in Failures => faults' >= 1
    BY <1>idle, <2>1, <2>4, <2>6
  <2> QED BY <2>1, <2>4, <2>5, <2>6, <2>7 DEF VersionsOf
<1>6. CASE CrashTimed
  <2>1. \A x \in VersionsOf(c)' : x \in VersionsOf(c) \/ x.ready = "none"
    BY <1>6, <1>idle DEF CrashTimed, Crash, VersionsOf
  <2> QED BY <1>2, <1>idle, <2>1
<1> QED BY <1>0, <1>3, <1>4, <1>5, <1>6, StepsInTime

\* ... and is about to show the same again after the second failure only.
LEMMA RepeatedKept ==
  ASSUME InTime, \A d \in CR : Steady(d), [ScheduleNext]_scheduleVars,
         NEW c \in CR, Backed(c), InUse(c), Counted(c),
         w'[c].pc = "report", w'[c].cond \in Failures
  PROVE  /\ faults' >= 1
         /\ w'[c].instance.ready = w'[c].cond => faults' >= 2 /\ SecretBy(c, Latest(faults - 1))'
<1>0. /\ Informed /\ TypeOK /\ Kept /\ AllInSync /\ faults \in Nat /\ faults <= MaxFaults
      /\ \A r \in Registry : registry[r].ready /\ Versions(c) /\ Steady(c)
  BY DEF InTime, Kept, Informed, Safe, TypeInv, TypeOK
<1>1. faults' \in Nat /\ faults <= faults'
  BY <1>0, FaultsAndReaders
<1>2. ~Tick
  BY DEF Tick
<1>failed. ASSUME faults' = faults + 1,
                  w'[c].instance.ready \in Failures => faults >= 1
           PROVE  /\ faults' >= 1
                  /\ w'[c].instance.ready = w'[c].cond => faults' >= 2 /\ SecretBy(c, Latest(faults - 1))'
  <2>1. Latest(faults) \in Nat
    BY <1>0, LatestStep
  <2>2. SecretBy(c, Latest(faults))
    BY DEF InUse
  <2>3. secrets'[c].owner # 0 => age'[secrets'[c].password] <= Latest(faults)
    BY <1>2, <2>1, <2>2, SecretByKept
  <2>4. faults' - 1 = faults
    BY <1>0, <1>failed
  <2>5. SecretBy(c, Latest(faults - 1))'
    BY <2>3, <2>4 DEF SecretBy
  <2> QED BY <1>0, <1>failed, <2>5
<1>3. CASE Aside(c)
  <2>1. w'[c] = w[c]
    BY <1>3 DEF Aside
  <2> SUFFICES ASSUME w[c].instance.ready = w[c].cond
               PROVE  faults' >= 2 /\ SecretBy(c, Latest(faults - 1))'
    BY <1>0, <1>1, <2>1 DEF Counted
  <2>2. faults >= 2 /\ SecretBy(c, Latest(faults - 1))
    BY <2>1 DEF Counted
  <2>3. Latest(faults - 1) \in Nat /\ Latest(faults' - 1) \in Nat /\ Latest(faults - 1) <= Latest(faults' - 1)
    <3>0. faults \in Nat /\ faults' \in Nat /\ faults <= faults' /\ faults >= 2
      BY <1>0, <1>1, <2>2
    <3>1. faults - 1 \in Nat /\ faults' - 1 \in Nat /\ faults - 1 <= faults' - 1
      BY <3>0
    <3> QED BY <3>1, LatestStep, LatestLater
  <2>4. secrets'[c].owner # 0 => age'[secrets'[c].password] <= Latest(faults - 1)
    BY <1>2, <2>2, <2>3, SecretByKept
  <2>5. secrets'[c].owner # 0 => \/ age'[secrets'[c].password] = 0
                                 \/ age'[secrets'[c].password] \in Nat
    BY <1>2, SecretAges
  <2>6. SecretBy(c, Latest(faults - 1))'
    BY <2>3, <2>4, <2>5 DEF SecretBy
  <2> QED BY <1>0, <1>1, <2>2, <2>6
<1>4. CASE ReconcileTimed(c)
  <2>1. Reconcile(c)
    BY <1>4 DEF ReconcileTimed
  <2>2. faults' = faults + 1 /\ w'[c].instance = crCache[c]
    BY <1>0, <2>1, Begins DEF Failures
  <2>3. crCache[c].ready \in Failures => faults >= 1
    BY DEF Counted, VersionsOf
  <2> QED BY <1>failed, <2>2, <2>3
<1>5. CASE APICallTimed(c)
  <2>1. APICall(c)
    BY <1>5 DEF APICallTimed
  <2>2. faults' = faults + 1 /\ w'[c].instance.ready = w[c].instance.ready
    <3>1. Idle.pc # "report"
      BY DEF Idle
    <3> QED BY <1>0, <2>1, <3>1, CallSteps DEF Failures
  <2>3. w[c].instance.ready \in Failures => faults >= 1
    BY DEF Counted, VersionsOf
  <2> QED BY <1>failed, <2>2, <2>3
<1>6. CASE CrashTimed
  BY <1>6 DEF CrashTimed, Crash, Idle
<1> QED BY <1>0, <1>3, <1>4, <1>5, <1>6, StepsInTime

\* A lost request has cost a fault, and costs the time until the next resync.
LEMMA LostKept ==
  ASSUME InTime, \A d \in CR : Steady(d), [ScheduleNext]_scheduleVars,
         NEW c \in CR, Reported(c), Backed(c), Named(c), InUse(c), Counted(c), Unready(c)'
  PROVE  faults' >= 2 /\ SecretBy(c, Latest(faults) - SyncPeriod + sync)'
<1>0. /\ Informed /\ TypeOK /\ Kept /\ ScheduleTyped /\ faults \in Nat /\ faults <= MaxFaults
      /\ Steady(c) /\ sync \in Nat /\ sync' \in Nat /\ SyncPeriod \in Nat
  <2>1. Kept /\ Kept'
    BY KeptStep DEF InTime
  <2>2. sync \in 0..SyncPeriod /\ sync' \in 0..SyncPeriod /\ SyncPeriod \in Nat
    BY <2>1, Times DEF Kept, ScheduleTyped, ScheduleTypeOK
  <2> QED BY <2>1, <2>2 DEF InTime, Kept, Informed, Safe, TypeInv, TypeOK
<1>1. faults' \in Nat /\ Latest(faults) \in Nat /\ Latest(faults') \in Nat /\ faults <= faults'
      /\ Latest(faults) <= Latest(faults')
  <2>1. faults' \in {faults, faults + 1}
    BY <1>0, FaultsAndReaders
  <2> QED BY <1>0, <2>1, LatestStep
<1>2. CASE Tick
  <2>1. Aside(c) /\ Unready(c)
    <3>1. ~Report(c)
      BY <1>2 DEF Report, Tick
    <3> QED BY <1>0, <3>1, ComesToUnready
  <2>2. secrets' = secrets /\ faults' = faults /\ sync' = sync + 1
    BY <1>2 DEF Tick
  <2>3. faults >= 2 /\ cr[c].ready # "True"
    BY <2>1 DEF Unready, Counted
  <2>4. ASSUME secrets[c].owner # 0
        PROVE  age'[secrets[c].password] <= Latest(faults) - SyncPeriod + (sync + 1)
    <3>1. /\ age[secrets[c].password] \in Nat
          /\ age[secrets[c].password] + 1 <= Latest(faults) - SyncPeriod + sync + 1
      BY <1>0, <1>2, <2>3, <2>4, TimeLeft
    <3>2. age'[secrets[c].password] \in Nat /\ age'[secrets[c].password] <= age[secrets[c].password] + 1
      BY <1>2, <2>4, AccountKept DEF Backed
    <3> QED BY <1>0, <1>1, <3>1, <3>2
  <2> QED BY <2>2, <2>3, <2>4 DEF SecretBy
<1>3. CASE ~Tick /\ Aside(c) /\ Unready(c) /\ ~Resync
  <2>1. faults >= 2 /\ SecretBy(c, Latest(faults) - SyncPeriod + sync)
    BY <1>3 DEF Counted
  <2>2. ~CrashTimed
    BY DEF CrashTimed, Crash, Unready
  <2>3. sync' = sync
    BY <1>0, <1>3, <2>2, FaultsAndReaders
  <2>4. Latest(faults) >= SyncPeriod
    <3>1. faults - 1 \in Nat /\ faults - 1 >= 1 /\ (faults - 1) + 1 = faults
      BY <1>0, <2>1
    <3>2. Latest(faults - 1) \in Nat /\ Latest(faults) = Latest(faults - 1) + SyncPeriod
      BY <3>1, LatestStep
    <3> QED BY <1>0, <3>2
  <2>5. Latest(faults) - SyncPeriod + sync \in Nat
    BY <1>0, <1>1, <2>4
  <2>6. secrets'[c].owner # 0 => age'[secrets'[c].password] <= Latest(faults) - SyncPeriod + sync
    BY <1>3, <2>1, <2>5, SecretByKept
  <2>7. secrets'[c].owner # 0 => age'[secrets'[c].password] \in Nat
    BY <1>3, SecretAges
  <2>8. SecretBy(c, Latest(faults) - SyncPeriod + sync)'
    BY <1>0, <1>1, <2>3, <2>6, <2>7 DEF SecretBy
  <2> QED BY <1>0, <1>1, <2>1, <2>8
<1>4. CASE ~Tick /\ Report(c) /\ w[c].cond \in Failures /\ w[c].instance.ready = w[c].cond /\ faults' = faults
  <2>1. faults >= 2 /\ SecretBy(c, Latest(faults - 1))
    BY <1>4 DEF Counted, Report
  <2>2. Latest(faults - 1) \in Nat /\ Latest(faults) = Latest(faults - 1) + SyncPeriod
    <3>1. faults - 1 \in Nat /\ faults - 1 >= 1 /\ (faults - 1) + 1 = faults
      BY <1>0, <2>1
    <3> QED BY <3>1, LatestStep
  <2>3. secrets'[c].owner # 0 => /\ age'[secrets'[c].password] <= Latest(faults - 1)
                                 /\ age'[secrets'[c].password] \in Nat
    BY <1>4, <2>1, <2>2, SecretByKept, SecretAges
  <2>4. secrets'[c].owner # 0 => age'[secrets'[c].password] <= Latest(faults') - SyncPeriod + sync'
    BY <1>0, <1>4, <2>2, <2>3
  <2> QED BY <1>4, <2>1, <2>4 DEF SecretBy
<1> QED BY <1>0, <1>2, <1>3, <1>4, ComesToUnready

\* All of it holds from one state to the next, ...
LEMMA ProvidedStep ==
  ASSUME Latest(MaxFaults) + Grace <= TTL, InTime, Provided, [ScheduleNext]_scheduleVars
  PROVE  InTime' /\ Provided'
<1>1. /\ Kept /\ AllInSync /\ Informed /\ TypeOK /\ faults \in Nat /\ faults <= MaxFaults
      /\ \A c \in CR : Steady(c)
  BY DEF InTime, Provided, Kept, Informed, Safe, TypeInv, TypeOK
<1>2. Kept' /\ \A c \in CR : ReportsInTime(c)' /\ RestsInTime(c)'
  BY <1>1, KeptStep, ReportsKept, RestsKept DEF InTime
<1>3. AllInSync'
  <2>1. CASE Resync \/ Tick
    <3> SUFFICES ASSUME NEW c \in CR, Reporting(c)' \/ AtRest(c)' PROVE InSync(c)'
      BY DEF AllInSync
    <3>1. UNCHANGED <<cr, cacheVars, w>> /\ queue \subseteq queue'
      BY <2>1 DEF Resync, Tick
    <3>2. Reporting(c) \/ AtRest(c)
      BY <3>1 DEF Reporting, AtRest, Outdated
    <3> QED BY <1>1, <3>1, <3>2 DEF AllInSync, InSync
  <2> QED BY <1>1, <2>1, TimeSteps, InSyncStep
<1>4. faults' <= MaxFaults /\ \A r \in Registry : registry'[r].ready
  <2>1. CASE CR = {}
    <3>1. UNCHANGED <<faults, registry>> \/ CrashTimed
      BY <2>1 DEF ScheduleNext, Watch, WatchAccounts, Surroundings, ExpireTimed, ExpireAccount,
         Resync, Tick, scheduleVars, vars
    <3> QED BY <1>1, <3>1, BoundAssumption DEF InTime, CrashTimed, Crash
  <2>2. CASE CR # {}
    <3>1. PICK c : c \in CR
      BY <2>2
    <3> QED BY <1>1, <3>1, FaultsAndReaders DEF InTime
  <2> QED BY <2>1, <2>2
<1>5. ASSUME NEW c \in CR PROVE Steady(c)' /\ Reported(c)' /\ Backed(c)' /\ Named(c)' /\ InUse(c)'
  BY <1>1, SteadyKept, ReportedKept, BackedKept, NamedKept, InUseKept DEF Provided
<1>6. ASSUME NEW c \in CR PROVE Counted(c)'
  <2>1. Reported(c) /\ Backed(c) /\ Named(c) /\ InUse(c) /\ Counted(c) /\ Steady(c)
    BY DEF Provided
  <2>2. \A x \in VersionsOf(c)' : x.ready \in Failures => faults' >= 1
    BY <2>1, ShownKept
  <2>3. w'[c].pc = "report" /\ w'[c].cond \in Failures =>
          /\ faults' >= 1
          /\ w'[c].instance.ready = w'[c].cond => faults' >= 2 /\ SecretBy(c, Latest(faults - 1))'
    BY <1>1, <2>1, RepeatedKept
  <2>4. Unready(c)' => faults' >= 2 /\ SecretBy(c, Latest(faults) - SyncPeriod + sync)'
    BY <1>1, <2>1, LostKept
  <2> QED BY <2>2, <2>3, <2>4 DEF Counted
<1> QED BY <1>2, <1>3, <1>4, <1>5, <1>6 DEF InTime, Provided

\* ... and at the start, where nothing is in use.
LEMMA InitProvided == ScheduleInit => InTime /\ Provided
<1> SUFFICES ASSUME ScheduleInit PROVE InTime /\ Provided
  OBVIOUS
<1>1. Init /\ client = [c \in CR |-> [password |-> 0, age |-> 0]]
  BY DEF ScheduleInit
<1>2. /\ cr = [c \in CR |-> NoCR] /\ crCache = cr /\ w = [c \in CR |-> Idle]
      /\ secrets = [c \in CR |-> NoSecret] /\ faults = 0
      /\ registry = [r \in Registry |-> [ready |-> TRUE, ca |-> 1]]
  BY <1>1 DEF Init
<1>3. /\ Idle.pc = "idle" /\ Idle.base = NoCR /\ Idle.instance = NoCR
      /\ NoCR.uid = 0 /\ NoCR.statusRegistry = NoRegistry /\ NoCR.ready = "none" /\ NoSecret.owner = 0
  BY DEF Idle, NoCR, NoSecret
<1>4. AllInSync
  BY <1>2, <1>3 DEF AllInSync, Reporting, AtRest
<1>5. InTime
  BY <1>2, <1>4, InitKept, BoundAssumption DEF InTime
<1>6. ASSUME NEW c \in CR
      PROVE  Steady(c) /\ Reported(c) /\ Backed(c) /\ Named(c) /\ InUse(c) /\ Counted(c)
  <2>1. /\ VersionsOf(c) = {NoCR} /\ w[c].pc = "idle" /\ secrets[c].owner = 0
        /\ client[c].password = 0 /\ cr[c].uid = 0
    BY <1>1, <1>2, <1>3 DEF VersionsOf
  <2> QED BY <1>3, <2>1
      DEF Steady, Rotating, Reported, Backed, Named, InUse, SecretBy, Counted, Unready, Failures
<1> QED BY <1>5, <1>6 DEF Provided

\* What is left of the TTL when an account is due must be enough for all resyncs
\* that the faults may cost and for the users to read the Secret again; for one
\* fault it is, by ScheduleAssumption.
LEMMA FaultsAllowed ==
  ASSUME Interval + 1 + SyncPeriod * (MaxFaults - 1) + Grace <= TTL
  PROVE  Latest(MaxFaults) + Grace <= TTL
<1>0. /\ Interval \in Nat /\ TTL \in Nat /\ SyncPeriod \in Nat /\ Grace \in Nat /\ MaxFaults \in Nat
      /\ Interval + 1 + SyncPeriod + Grace <= TTL
  BY Times, BoundAssumption, ScheduleAssumption DEF Interval
<1>1. CASE MaxFaults <= 1
  BY <1>0, <1>1 DEF Latest
<1>2. CASE ~(MaxFaults <= 1)
  BY <1>0, <1>2 DEF Latest
<1> QED BY <1>1, <1>2

\* Nobody who reads a Secret often enough is locked out, as long as faults are
\* few enough for the time that rotationInterval leaves of the TTL: a rotation
\* that fails is repeated at once, unless the CR shows its error already; then
\* the request waits for the next resync, whatever else the faults, the events
\* and the users' reads do.
THEOREM NobodyLockedOut ==
  ASSUME Interval + 1 + SyncPeriod * (MaxFaults - 1) + Grace <= TTL
  PROVE  ScheduleSpec => []ClientNotLockedOut
<1>1. ScheduleInit => InTime /\ Provided
  BY InitProvided
<1>2. InTime /\ Provided /\ [ScheduleNext]_scheduleVars => (InTime /\ Provided)'
  BY FaultsAllowed, ProvidedStep
<1>3. InTime /\ Provided => ClientNotLockedOut
  BY DEF Provided, Backed, HasAccount, ClientNotLockedOut
<1> QED BY <1>1, <1>2, <1>3, PTL DEF ScheduleSpec
=============================================================================
