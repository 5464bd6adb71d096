-------------------------- MODULE ImageSecretProofs --------------------------
(***************************************************************************)
(* Proofs about ImageSecret, for all sets of CRs and registries and all    *)
(* bounds.                                                                 *)
(***************************************************************************)
EXTENDS ImageSecret, TLAPS

USE DEF cacheVars, operatorVars, worldVars


-----------------------------------------------------------------------------
(* Types.  TypeOK is not inductive: that an account is created in some     *)
(* registry's namespace needs that a rotation has a target.                *)

Rotating == {"deleteOldAccounts", "updateRotation", "createAccount", "writeSecret"}

\* A Reconcile that rotates knows its target registry.
RotationHasTarget ==
  \A c \in CR : w[c].pc \in Rotating => w[c].registry \in Registry

TypeInv == TypeOK /\ RotationHasTarget

\* The absent objects and an idle worker are well-typed.
LEMMA ConstantTypes ==
  NoCR \in CRObject /\ NoSecret \in SecretObject /\ Idle \in Worker
BY RegistryAssumption DEF NoCR, CRObject, NoSecret, SecretObject, Idle, Worker, Cond, Step

\* A CR stays well-typed when a flag of its metadata changes ...
LEMMA MarkedType ==
  ASSUME NEW x \in CRObject
  PROVE  /\ [x EXCEPT !.deleting = TRUE] \in CRObject
         /\ [x EXCEPT !.finalizer = TRUE] \in CRObject
<1>1. [x EXCEPT !.deleting = TRUE] \in CRObject
  BY DEF CRObject
<1>2. [x EXCEPT !.finalizer = TRUE] \in CRObject
  BY DEF CRObject
<1> QED BY <1>1, <1>2

\* ... when a user writes another registryRef ...
LEMMA EditedType ==
  ASSUME NEW x \in CRObject, NEW n \in Nat, NEW r \in Registry \cup {NoRegistry}
  PROVE  /\ [x EXCEPT !.registryRef = r, !.generation = n] \in CRObject
         /\ [x EXCEPT !.uid = n, !.generation = 1, !.registryRef = r] \in CRObject
<1>1. [x EXCEPT !.registryRef = r, !.generation = n] \in CRObject
  BY DEF CRObject
<1>2. [x EXCEPT !.uid = n, !.generation = 1, !.registryRef = r] \in CRObject
  BY DEF CRObject
<1> QED BY <1>1, <1>2

\* ... when setSyncStatus writes a condition ...
LEMMA ReportedType ==
  ASSUME NEW x \in CRObject, NEW cond \in Cond
  PROVE  /\ [x EXCEPT !.ready = cond, !.observedGeneration = x.generation] \in CRObject
         /\ [x EXCEPT !.synced = cond, !.observedGeneration = x.generation] \in CRObject
<1>1. [x EXCEPT !.ready = cond, !.observedGeneration = x.generation] \in CRObject
  BY DEF CRObject
<1>2. [x EXCEPT !.synced = cond, !.observedGeneration = x.generation] \in CRObject
  BY DEF CRObject
<1> QED BY <1>1, <1>2

\* ... and when rotatePassword writes rotation and registry.
LEMMA RotatedType ==
  ASSUME NEW x \in CRObject, NEW r \in Registry \cup {NoRegistry}
  PROVE  Rotated(x, r) \in CRObject
<1>1. PICK m \in Nat : m = x.rotation + 1
  BY DEF CRObject
<1>2. [x EXCEPT !.rotation = m, !.statusRegistry = r] \in CRObject
  BY DEF CRObject
<1> QED BY <1>1, <1>2 DEF Rotated

\* w changes in one place only.
LEMMA WorkerType ==
  ASSUME TypeOK, NEW c \in CR, NEW x \in Worker, w' = [w EXCEPT ![c] = x]
  PROVE  w' \in [CR -> Worker]
BY DEF TypeOK

\* Reconcile's local state stays well-typed from call to call.
LEMMA GotoType ==
  ASSUME TypeOK, NEW c \in CR, NEW step \in Step, Goto(c, step)
  PROVE  w' \in [CR -> Worker]
<1>1. [w[c] EXCEPT !.pc = step] \in Worker
  BY DEF TypeOK, Worker
<1> QED BY <1>1, WorkerType DEF Goto

\* The same when it goes on to setSyncStatus.
LEMMA GotoReportType ==
  ASSUME TypeOK, NEW c \in CR, NEW cond \in Cond, NEW b \in BOOLEAN,
         GotoReport(c, cond, b)
  PROVE  w' \in [CR -> Worker]
<1>1. w[c] \in Worker
  BY DEF TypeOK
<1>2. [w[c] EXCEPT !.pc = "report", !.cond = cond, !.requeueAfter = b] \in Worker
  BY <1>1 DEF Worker, Step
<1> QED BY <1>2, WorkerType DEF GotoReport

\* The reason of an error is one of those a condition can show.
LEMMA ErrorCondType ==
  ASSUME NEW o, NEW refusal \in Cond PROVE ErrorCond(o, refusal) \in Cond
BY DEF ErrorCond, Cond

\* The initial state is well-typed.
LEMMA InitType == Init => TypeOK
<1> SUFFICES ASSUME Init PROVE TypeOK
  OBVIOUS
<1>1. accounts \subseteq Account
  BY RegistryAssumption DEF Init, Account, ManualAccount
<1> QED
  BY <1>1, ConstantTypes DEF Init, TypeOK

\* The cached CR, Secret and registry that Reconcile starts from.
LEMMA RegistryKeyType ==
  ASSUME NEW i \in CRObject PROVE getRegistryKeyForCR(i) \in Registry
BY RegistryAssumption DEF getRegistryKeyForCR, CRObject

\* Reconcile's cache reads leave every variable well-typed.
LEMMA ReconcileType ==
  ASSUME TypeOK, NEW c \in CR, Reconcile(c) PROVE TypeOK'
<1> DEFINE i == crCache[c]  s == secretCache[c]  ns == getRegistryKeyForCR(i)
<1>1. i \in CRObject /\ s \in SecretObject /\ ns \in Registry
  BY RegistryKeyType DEF TypeOK
<1>2. ASSUME Dequeue(c), faults' \in Nat, w' \in [CR -> Worker] PROVE TypeOK'
  BY <1>2 DEF TypeOK, Dequeue
<1>3. ASSUME NEW step \in Step, w' = [w EXCEPT ![c] = [Idle EXCEPT !.pc = step, !.base = i, !.instance = i]]
      PROVE w' \in [CR -> Worker]
  BY <1>1, <1>3, ConstantTypes DEF TypeOK, Worker
<1>4. CASE ReconcileNotFound(c)
  BY <1>4, <1>2 DEF ReconcileNotFound, TypeOK
<1>5. CASE ReconcileDeleted(c)
  BY <1>5, <1>2, <1>3 DEF ReconcileDeleted, Load, Step, TypeOK
<1>6. CASE ReconcileNew(c)
  BY <1>6, <1>2, <1>3 DEF ReconcileNew, Load, Step, TypeOK
<1>7. CASE ReconcileUnavailable(c)
  <2>1. w' \in [CR -> Worker]
    BY <1>1, <1>7, ConstantTypes DEF TypeOK, Worker, ReconcileUnavailable, Step, Cond
  <2> QED BY <1>2, <1>7, <2>1 DEF ReconcileUnavailable, TypeOK
<1>8. ASSUME NEW step \in Step, NEW cond \in Cond, NEW after \in BOOLEAN,
             Compare(c, i, s, ns, step, cond, after), faults' \in Nat
      PROVE TypeOK'
  <2>1. registry[ns].ca \in Nat
    BY <1>1 DEF TypeOK
  <2>2. w' \in [CR -> Worker]
    BY <1>1, <1>8, <2>1, ConstantTypes DEF TypeOK, Worker, Compare
  <2> QED BY <1>2, <1>8, <2>2 DEF Compare
<1>9. RenewalTimer(c, i, ns) \subseteq BOOLEAN
  BY DEF RenewalTimer
<1>10. CASE ReconcileInSync(c)
  BY <1>8, <1>9, <1>10 DEF ReconcileInSync, Step, Cond, TypeOK
<1>11. CASE ReconcileRotate(c)
  BY <1>8, <1>9, <1>11 DEF ReconcileRotate, Step, Cond, TypeOK
<1>12. CASE ReconcileBcryptFails(c)
  <2>1. faults' \in Nat
    BY <1>12 DEF ReconcileBcryptFails, Respond, TypeOK
  <2> QED BY <1>8, <1>12, <2>1 DEF ReconcileBcryptFails, Step, Cond
<1> QED
  BY <1>4, <1>5, <1>6, <1>7, <1>10, <1>11, <1>12 DEF Reconcile

\* An API call's response counts at most one fault.
LEMMA RespondType ==
  ASSUME TypeOK, NEW o, NEW valid, Respond(o, valid) PROVE faults' \in Nat
BY DEF Respond, TypeOK

\* Updating a CR with a well-typed object keeps the CRs well-typed.
LEMMA UpdateCRType ==
  ASSUME TypeOK, NEW c \in CR, NEW object \in CRObject, NEW o,
         UpdateCR(c, object, o)
  PROVE  cr' \in [CR -> CRObject] /\ faults' \in Nat
BY RespondType DEF UpdateCR, TypeOK

\* deleteOrphanAccounts only removes accounts.
LEMMA DeleteType ==
  ASSUME TypeOK, NEW c \in CR, NEW ns, NEW o, deleteOrphanAccounts(c, ns, o)
  PROVE  accounts' \subseteq accounts /\ faults' \in Nat
BY RespondType DEF deleteOrphanAccounts

\* A Reconcile that returns leaves queue, timers and worker well-typed.
LEMMA ReturnType ==
  ASSUME TypeOK, NEW c \in CR, NEW requeue, NEW after, Return(c, requeue, after)
  PROVE  w' \in [CR -> Worker] /\ queue' \subseteq CR /\ timer' \subseteq CR
BY ConstantTypes DEF Return, TypeOK

\* Every API call leaves a well-typed state.
LEMMA APICallType ==
  ASSUME TypeInv, NEW c \in CR, APICall(c) PROVE TypeOK'
<1> TypeOK
  BY DEF TypeInv
<1>1. w[c] \in Worker /\ w[c].instance \in CRObject /\ w[c].base \in CRObject
  BY DEF TypeOK, Worker
<1>2. CASE DeleteAccounts(c)
  <2>1. PICK o \in Outcome :
          /\ deleteOrphanAccounts(c, w[c].instance.statusRegistry, o)
          /\ IF o = "ok" THEN Goto(c, "removeFinalizer") /\ UNCHANGED <<queue, timer>>
                         ELSE Return(c, TRUE, FALSE)
    BY <1>2 DEF DeleteAccounts
  <2>2. w' \in [CR -> Worker] /\ queue' \subseteq CR /\ timer' \subseteq CR
    BY <2>1, ReturnType, GotoType DEF Step, TypeOK
  <2>3. accounts' \subseteq accounts /\ faults' \in Nat
    BY <2>1, DeleteType
  <2> QED BY <1>2, <2>2, <2>3 DEF DeleteAccounts, TypeOK
<1>3. CASE RemoveFinalizer(c)
  <2>1. cr' \in [CR -> CRObject] /\ faults' \in Nat
    BY <1>3, UpdateCRType, ConstantTypes DEF RemoveFinalizer
  <2>2. w' \in [CR -> Worker] /\ queue' \subseteq CR /\ timer' \subseteq CR
    BY <1>3, ReturnType DEF RemoveFinalizer
  <2> QED BY <1>3, <2>1, <2>2 DEF RemoveFinalizer, TypeOK
<1>4. CASE AddFinalizer(c)
  <2> DEFINE f == [w[c].instance EXCEPT !.finalizer = TRUE]
  <2>1. f \in CRObject
    BY <1>1, MarkedType
  <2>2. cr' \in [CR -> CRObject] /\ faults' \in Nat
    BY <1>4, <2>1, UpdateCRType DEF AddFinalizer
  <2>3. w' \in [CR -> Worker] /\ queue' \subseteq CR /\ timer' \subseteq CR
    <3>1. PICK o : IF o = "ok"
             THEN Return(c, FALSE, FALSE)
             ELSE /\ w' = [w EXCEPT ![c] = [@ EXCEPT !.pc = "reportUnsynced",
                                             !.cond = ErrorCond(o, "conflict")]]
                  /\ UNCHANGED <<queue, timer>>
      BY <1>4 DEF AddFinalizer
    <3>2. [w[c] EXCEPT !.pc = "reportUnsynced", !.cond = ErrorCond(o, "conflict")] \in Worker
      <4>1. PICK e \in Cond : e = ErrorCond(o, "conflict")
        BY ErrorCondType DEF Cond
      <4> QED BY <1>1, <4>1 DEF Worker, Step
    <3> QED BY <3>1, <3>2, ReturnType, WorkerType DEF TypeOK
  <2> QED BY <1>4, <2>2, <2>3 DEF AddFinalizer, TypeOK
<1>5. CASE ReportUnsynced(c)
  <2>1. ASSUME NEW o, setUnsynced(c, w[c].cond, o)
        PROVE  cr' \in [CR -> CRObject] /\ faults' \in Nat
    <3> DEFINE f == [w[c].instance EXCEPT !.synced = w[c].cond,
                        !.observedGeneration = w[c].instance.generation]
    <3>1. f \in CRObject
      BY <1>1, ReportedType DEF Worker
    <3> QED BY <2>1, <3>1, UpdateCRType DEF setUnsynced, TypeOK
  <2>2. w' \in [CR -> Worker] /\ queue' \subseteq CR /\ timer' \subseteq CR
    BY <1>5, ReturnType DEF ReportUnsynced
  <2> QED BY <1>5, <2>1, <2>2 DEF ReportUnsynced, TypeOK
<1>6. CASE DeleteOldAccounts(c)
  <2>1. accounts' \subseteq accounts /\ faults' \in Nat
    BY <1>6, DeleteType DEF DeleteOldAccounts
  <2>2. w' \in [CR -> Worker]
    BY <1>6, GotoType DEF DeleteOldAccounts, Step
  <2> QED BY <1>6, <2>1, <2>2 DEF DeleteOldAccounts, TypeOK
<1>7. CASE UpdateRotation(c)
  <2> DEFINE f == Rotated(w[c].instance, w[c].registry)
  <2>1. f \in CRObject
    BY <1>1, RotatedType DEF Worker
  <2>2. cr' \in [CR -> CRObject] /\ faults' \in Nat
    BY <1>7, <2>1, UpdateCRType DEF UpdateRotation
  <2>3. w' \in [CR -> Worker]
    <3> HIDE DEF f
    <3>1. PICK o : w' = [w EXCEPT ![c] =
            IF RotationStored(o)
            THEN [@ EXCEPT !.pc = "createAccount", !.base = f, !.instance = f]
            ELSE [@ EXCEPT !.pc = "report", !.instance = f, !.requeueAfter = FALSE,
                           !.cond = ErrorCond(o, "conflict")]]
      BY <1>7 DEF UpdateRotation, f
    <3>2. /\ [w[c] EXCEPT !.pc = "createAccount", !.base = f, !.instance = f] \in Worker
          /\ [w[c] EXCEPT !.pc = "report", !.instance = f, !.requeueAfter = FALSE,
                          !.cond = ErrorCond(o, "conflict")] \in Worker
      <4>1. PICK e \in Cond : e = ErrorCond(o, "conflict")
        BY ErrorCondType DEF Cond
      <4> QED BY <1>1, <2>1, <4>1 DEF Worker, Step
    <3> QED BY <3>1, <3>2, WorkerType
  <2> QED BY <1>7, <2>2, <2>3 DEF UpdateRotation, TypeOK
<1>8. CASE CreateAccount(c)
  <2>1. NewAccount(c) \in Account
    <3>1. w[c].registry \in Registry
      BY <1>8 DEF CreateAccount, TypeInv, RotationHasTarget, Rotating
    <3>2. w[c].instance.rotation \in Nat /\ w[c].instance.uid \in Nat
      BY <1>1 DEF CRObject
    <3>3. passwords + 1 \in Nat
      BY DEF TypeOK
    <3> QED BY <3>1, <3>2, <3>3 DEF NewAccount, Account
  <2>2. accounts' \subseteq Account /\ faults' \in Nat
    BY <1>8, <2>1, RespondType DEF CreateAccount, TypeOK
  <2>3. w' \in [CR -> Worker]
    <3>1. PICK o : w' = [w EXCEPT ![c] =
            IF AccountCreated(o)
            THEN [@ EXCEPT !.pc = "writeSecret", !.password = passwords + 1]
            ELSE [@ EXCEPT !.pc = "report", !.requeueAfter = FALSE,
                           !.cond = ErrorCond(o, "accountExists")]]
      BY <1>8 DEF CreateAccount
    <3>2. PICK p \in Nat : p = passwords + 1
      BY DEF TypeOK
    <3>3. /\ [w[c] EXCEPT !.pc = "writeSecret", !.password = p] \in Worker
          /\ [w[c] EXCEPT !.pc = "report", !.requeueAfter = FALSE,
                          !.cond = ErrorCond(o, "accountExists")] \in Worker
      <4>1. PICK e \in Cond : e = ErrorCond(o, "accountExists")
        BY ErrorCondType DEF Cond
      <4> QED BY <1>1, <4>1 DEF Worker, Step
    <3> QED BY <3>1, <3>2, <3>3, WorkerType
  <2> QED BY <1>8, <2>2, <2>3 DEF CreateAccount, TypeOK
<1>9. CASE WriteSecret(c)
  <2>1. NewSecret(c) \in SecretObject
    BY <1>1 DEF NewSecret, SecretObject, Worker, CRObject
  <2>2. secrets' \in [CR -> SecretObject] /\ faults' \in Nat
    BY <1>9, <2>1, RespondType DEF WriteSecret, TypeOK
  <2>3. w' \in [CR -> Worker]
    <3>1. PICK cond \in Cond, b \in BOOLEAN : GotoReport(c, cond, b)
      BY <1>1, <1>9, ErrorCondType DEF WriteSecret, Worker, Cond
    <3> QED BY <3>1, GotoReportType
  <2> QED BY <1>9, <2>2, <2>3 DEF WriteSecret, TypeOK
<1>10. CASE Report(c)
  <2>1. ASSUME NEW o, setReady(c, w[c].cond, o)
        PROVE  cr' \in [CR -> CRObject] /\ faults' \in Nat
    <3> DEFINE f == [w[c].instance EXCEPT !.ready = w[c].cond,
                        !.observedGeneration = w[c].instance.generation]
    <3>1. f \in CRObject
      BY <1>1, ReportedType DEF Worker
    <3> QED BY <2>1, <3>1, UpdateCRType DEF setReady, TypeOK
  <2>2. w' \in [CR -> Worker] /\ queue' \subseteq CR /\ timer' \subseteq CR
    BY <1>10, ReturnType DEF Report
  <2> QED BY <1>10, <2>1, <2>2 DEF Report, TypeOK
<1> QED
  BY <1>2, <1>3, <1>4, <1>5, <1>6, <1>7, <1>8, <1>9, <1>10 DEF APICall

\* So does everything around Reconcile.
Rest ==
  \/ \E c \in CR : WatchCR(c) \/ WatchSecret(c) \/ RequeueAfter(c)
  \/ WatchAccounts \/ Crash \/ Environment

\* The steps of the system, as the proofs below split them.
LEMMA NextCases ==
  ASSUME [Next]_vars
  PROVE  \/ \E c \in CR : Reconcile(c)
         \/ \E c \in CR : APICall(c)
         \/ Rest
         \/ UNCHANGED vars
BY DEF Next, Operator, Rest

\* Events, crashes, users and other controllers keep the types.
LEMMA RestType == ASSUME TypeOK, Rest PROVE TypeOK'
<1>1. ASSUME NEW c \in CR, WatchCR(c) PROVE TypeOK'
  BY <1>1 DEF WatchCR, TypeOK
<1>2. ASSUME NEW c \in CR, WatchSecret(c) PROVE TypeOK'
  BY <1>2 DEF WatchSecret, TypeOK
<1>3. ASSUME NEW c \in CR, RequeueAfter(c) PROVE TypeOK'
  BY <1>3 DEF RequeueAfter, TypeOK
<1>4. CASE WatchAccounts
  BY <1>4 DEF WatchAccounts, RequestsFor, TypeOK
<1>5. CASE Crash
  BY <1>5, ConstantTypes DEF Crash, TypeOK
<1>6. ASSUME NEW c \in CR, DeleteCR(c) PROVE TypeOK'
  <2>1. [cr[c] EXCEPT !.deleting = TRUE] \in CRObject
    BY MarkedType DEF TypeOK
  <2> QED BY <1>6, <2>1, ConstantTypes DEF DeleteCR, Change, TypeOK
<1>7. ASSUME NEW c \in CR, EditSecret(c) PROVE TypeOK'
  <2>1. secrets[c] \in SecretObject
    BY DEF TypeOK
  <2>2. /\ [secrets[c] EXCEPT !.annotation = 0] \in SecretObject
        /\ Tampered(secrets[c]) \in SecretObject /\ Cleared(secrets[c]) \in SecretObject
    BY <2>1 DEF Tampered, Cleared, SecretObject
  <2> QED BY <1>7, <2>2, ConstantTypes DEF EditSecret, Change, TypeOK
<1>8. ASSUME NEW c \in CR, CollectGarbage(c) PROVE TypeOK'
  BY <1>8, ConstantTypes DEF CollectGarbage, TypeOK
<1>9. ASSUME NEW c \in CR, NEW r \in RegistryRefs, CreateCR(c, r) PROVE TypeOK'
  <2>1. [NoCR EXCEPT !.uid = uids + 1, !.generation = 1, !.registryRef = r] \in CRObject
    <3>1. uids + 1 \in Nat /\ r \in Registry \cup {NoRegistry}
      BY RegistryAssumption DEF TypeOK
    <3> QED BY <3>1, ConstantTypes, EditedType
  <2> QED BY <1>9, <2>1 DEF CreateCR, TypeOK
<1>10. ASSUME NEW c \in CR, NEW r \in RegistryRefs, SetRegistryRef(c, r) PROVE TypeOK'
  <2>1. [cr[c] EXCEPT !.registryRef = r, !.generation = cr[c].generation + 1] \in CRObject
    <3>1. cr[c] \in CRObject /\ r \in Registry \cup {NoRegistry}
      BY RegistryAssumption DEF TypeOK
    <3>2. cr[c].generation + 1 \in Nat
      BY <3>1 DEF CRObject
    <3> QED BY <3>1, <3>2, EditedType
  <2> QED BY <1>10, <2>1 DEF SetRegistryRef, Change, TypeOK
<1>11. ASSUME NEW a \in accounts, PassRotationInterval(a) PROVE TypeOK'
  <2>1. a.password \in Nat
    BY DEF TypeOK, Account
  <2>2. due' = due \cup {a.password} /\ edits' = edits + 1
    BY <1>11 DEF PassRotationInterval, Change
  <2>3. due' \subseteq Nat
    BY <2>1, <2>2 DEF TypeOK
  <2>4. edits' \in Nat
    BY <2>2 DEF TypeOK
  <2> QED BY <1>11, <2>3, <2>4 DEF PassRotationInterval, TypeOK
<1>12. ASSUME NEW a \in accounts, ExpireAccount(a) PROVE TypeOK'
  BY <1>12 DEF ExpireAccount, TypeOK
<1>13. ASSUME NEW r \in Registry, ChangeRegistry(r) PROVE TypeOK'
  <2>1. registry[r] \in [ready: BOOLEAN, ca: Nat]
    BY DEF TypeOK
  <2>2. /\ [registry[r] EXCEPT !.ready = ~registry[r].ready] \in [ready: BOOLEAN, ca: Nat]
        /\ [registry[r] EXCEPT !.ca = registry[r].ca + 1] \in [ready: BOOLEAN, ca: Nat]
    <3>1. PICK b \in BOOLEAN : b = ~registry[r].ready
      OBVIOUS
    <3>2. PICK n \in Nat : n = registry[r].ca + 1
      BY <2>1
    <3>3. [registry[r] EXCEPT !.ready = b] \in [ready: BOOLEAN, ca: Nat]
      BY <2>1
    <3>4. [registry[r] EXCEPT !.ca = n] \in [ready: BOOLEAN, ca: Nat]
      BY <2>1
    <3> QED BY <3>1, <3>2, <3>3, <3>4
  <2>3. registry' \in [Registry -> [ready: BOOLEAN, ca: Nat]]
    BY <1>13, <2>2 DEF ChangeRegistry, TypeOK
  <2> QED BY <1>13, <2>3 DEF ChangeRegistry, Change, TypeOK
<1>14. CASE Environment
  BY <1>14, <1>6, <1>7, <1>8, <1>9, <1>10, <1>11, <1>12, <1>13 DEF Environment
<1> QED
  BY <1>1, <1>2, <1>3, <1>4, <1>5, <1>14 DEF Rest

\* Rotations keep their target: it is set when Reconcile starts.
LEMMA TargetStep ==
  ASSUME TypeInv, [Next]_vars PROVE RotationHasTarget'
<1> SUFFICES ASSUME NEW d \in CR, w'[d].pc \in Rotating
             PROVE  w'[d].registry \in Registry
  BY DEF RotationHasTarget
<1>1. /\ w \in [CR -> Worker] /\ w[d] \in Worker
      /\ w[d].pc \in Rotating => w[d].registry \in Registry
  BY DEF TypeInv, TypeOK, RotationHasTarget
<1>2. ASSUME NEW c \in CR, Reconcile(c) PROVE w'[d].registry \in Registry
  <2>1. getRegistryKeyForCR(crCache[c]) \in Registry
    BY RegistryKeyType DEF TypeInv, TypeOK
  <2>2. ASSUME NEW x, w' = [w EXCEPT ![c] = x],
               x.pc \in Rotating => x.registry \in Registry
        PROVE  w'[d].registry \in Registry
    BY <1>1, <2>2
  <2>3. CASE ReconcileNotFound(c)
    BY <1>1, <2>3 DEF ReconcileNotFound
  <2>4. CASE ReconcileDeleted(c)
    BY <1>1, <2>2, <2>4 DEF ReconcileDeleted, Load, Idle, Rotating
  <2>5. CASE ReconcileNew(c)
    BY <2>2, <2>5 DEF ReconcileNew, Load, Idle, Rotating
  <2>6. CASE ReconcileUnavailable(c)
    BY <2>2, <2>6 DEF ReconcileUnavailable, Idle, Rotating
  <2>7. CASE ReconcileInSync(c) \/ ReconcileRotate(c) \/ ReconcileBcryptFails(c)
    <3>1. PICK s, step, cond, after :
            Compare(c, crCache[c], s, getRegistryKeyForCR(crCache[c]), step, cond, after)
      BY <2>7 DEF ReconcileInSync, ReconcileRotate, ReconcileBcryptFails
    <3> QED BY <2>1, <2>2, <3>1 DEF Compare, Idle
  <2> QED BY <1>2, <2>3, <2>4, <2>5, <2>6, <2>7 DEF Reconcile
<1>3. ASSUME NEW c \in CR, APICall(c) PROVE w'[d].registry \in Registry
  <2>1. ASSUME NEW x, w' = [w EXCEPT ![c] = x],
               x.pc \in Rotating => x.registry \in Registry
        PROVE  w'[d].registry \in Registry
    BY <1>1, <2>1
  <2>2. /\ w[c] \in Worker
        /\ w[c].pc \in Rotating => w[c].registry \in Registry
    BY DEF TypeInv, TypeOK, RotationHasTarget
  <2>3. ASSUME NEW requeue, NEW after, Return(c, requeue, after)
        PROVE  w'[d].registry \in Registry
    BY <2>1, <2>3 DEF Return, Idle, Rotating
  <2>4. CASE DeleteAccounts(c)
    BY <2>1, <2>2, <2>3, <2>4 DEF DeleteAccounts, Goto, Rotating, Worker
  <2>5. CASE RemoveFinalizer(c)
    BY <2>3, <2>5 DEF RemoveFinalizer
  <2>6. CASE AddFinalizer(c)
    BY <2>1, <2>2, <2>3, <2>6 DEF AddFinalizer, Rotating, Worker
  <2>7. CASE ReportUnsynced(c)
    BY <2>3, <2>7 DEF ReportUnsynced
  <2>8. CASE DeleteOldAccounts(c)
    BY <2>1, <2>2, <2>8 DEF DeleteOldAccounts, Goto, Rotating, Worker
  <2>9. CASE UpdateRotation(c)
    <3>1. PICK i, o : w' = [w EXCEPT ![c] =
            IF RotationStored(o)
            THEN [@ EXCEPT !.pc = "createAccount", !.base = i, !.instance = i]
            ELSE [@ EXCEPT !.pc = "report", !.instance = i, !.requeueAfter = FALSE,
                           !.cond = ErrorCond(o, "conflict")]]
      BY <2>9 DEF UpdateRotation
    <3>2. w[c].registry \in Registry
      BY <2>2, <2>9 DEF UpdateRotation, Rotating
    <3> QED BY <2>1, <2>2, <3>1, <3>2 DEF Worker
  <2>10. CASE CreateAccount(c)
    <3>1. w[c].registry \in Registry
      BY <2>2, <2>10 DEF CreateAccount, Rotating
    <3> QED BY <2>1, <2>2, <2>10, <3>1 DEF CreateAccount, Worker
  <2>11. CASE WriteSecret(c)
    BY <2>1, <2>2, <2>11 DEF WriteSecret, GotoReport, Rotating, Worker
  <2>12. CASE Report(c)
    BY <2>3, <2>12 DEF Report
  <2> QED BY <1>3, <2>4, <2>5, <2>6, <2>7, <2>8, <2>9, <2>10, <2>11, <2>12 DEF APICall
<1>4. CASE Crash
  BY <1>4 DEF Crash, Idle, Rotating
<1>5. CASE UNCHANGED w
  BY <1>1, <1>5
<1>6. CASE Rest
  BY <1>4, <1>5, <1>6 DEF Rest, Environment, WatchAccounts, WatchCR, WatchSecret, RequeueAfter,
     DeleteCR, EditSecret, CollectGarbage, CreateCR, SetRegistryRef,
     PassRotationInterval, ExpireAccount, ChangeRegistry
<1> QED
  BY <1>2, <1>3, <1>5, <1>6, NextCases DEF vars

\* Every step of the system keeps the types.
LEMMA TypeStep == TypeInv /\ [Next]_vars => TypeInv'
<1> SUFFICES ASSUME TypeInv, [Next]_vars PROVE TypeInv'
  OBVIOUS
<1> TypeOK
  BY DEF TypeInv
<1>1. TypeOK'
  <2>1. ASSUME NEW c \in CR, Reconcile(c) PROVE TypeOK'
    BY <2>1, ReconcileType
  <2>2. ASSUME NEW c \in CR, APICall(c) PROVE TypeOK'
    BY <2>2, APICallType
  <2>3. CASE Rest
    BY <2>3, RestType
  <2>4. CASE UNCHANGED vars
    BY <2>4 DEF vars, TypeOK
  <2> QED BY <2>1, <2>2, <2>3, <2>4, NextCases
<1> QED
  BY <1>1, TargetStep DEF TypeInv

\* Every state the operator and its environment reach is well-typed: in
\* particular accounts are only ever created in the namespace of a registry.
THEOREM TypeCorrect == Spec => []TypeOK
<1>1. Init => TypeInv
  BY InitType DEF TypeInv, Init, RotationHasTarget, Rotating, Idle
<1>2. TypeInv => TypeOK
  BY DEF TypeInv
<1> QED
  BY <1>1, <1>2, TypeStep, PTL DEF Spec

-----------------------------------------------------------------------------
(* Safety.  The invariant, per CR name d.  It is about versions of the CR: *)
(* the stored one, the cached one and the one a Reconcile works with.      *)

\* Accounts and Secrets of earlier CRs are told apart by UID.
Bounded(d) ==
  /\ cr[d].uid <= uids /\ crCache[d].uid <= uids /\ secrets[d].owner <= uids
  /\ \A a \in accounts : a.cr = d => a.creator <= uids

\* The status records every rotation before account and Secret use it.
Recorded(d) ==
  cr[d].uid # 0 =>
    /\ \A a \in accounts : a.cr = d /\ a.creator = cr[d].uid
                             => a.rotation <= cr[d].rotation
    /\ secrets[d].owner = cr[d].uid => secrets[d].rotation <= cr[d].rotation

\* Version x of a CR is not ahead of version y, and the registry in the
\* status has changed only together with the rotation.
NotAhead(x, y) ==
  y.uid # 0 /\ x.uid = y.uid =>
    /\ x.rotation <= y.rotation
    /\ x.rotation = y.rotation => x.statusRegistry = y.statusRegistry

Match(d) ==
  cr[d].uid # 0 /\ secrets[d].owner = cr[d].uid /\ Intact(d) =>
    \A a \in accounts : a.registry = secrets[d].registry /\ a.cr = d
                        /\ a.rotation = secrets[d].rotation
                          => a.password = secrets[d].password

\* The account of a version's rotation is where that version says.
Placed(d, x) ==
  \A a \in accounts : x.uid # 0 /\ a.cr = d /\ a.creator = x.uid
                      /\ a.rotation = x.rotation => a.registry = x.statusRegistry

\* Without finalizer there is no account to clean up.
Guarded(d) ==
  cr[d].uid # 0 /\ ~cr[d].finalizer =>
    \A a \in accounts : ~(a.cr = d /\ a.creator = cr[d].uid)

\* What holds whether or not a Reconcile is running.
StoreSafe(d) ==
  /\ Bounded(d) /\ Recorded(d) /\ NotAhead(crCache[d], cr[d])
  /\ Match(d) /\ Placed(d, cr[d]) /\ Placed(d, crCache[d]) /\ Guarded(d)

\* What Reconcile may have changed in the version it read.
Working(d) ==
  w[d].pc # "idle" =>
    /\ w[d].base.uid # 0 /\ w[d].instance.uid = w[d].base.uid
    /\ w[d].instance.finalizer = w[d].base.finalizer
    /\ NotAhead(w[d].base, w[d].instance)
    /\ w[d].pc \in {"deleteAccounts", "removeFinalizer", "deleteOldAccounts",
                    "updateRotation"} => w[d].instance = w[d].base
    /\ w[d].pc \in {"deleteOldAccounts", "updateRotation"} => w[d].base.finalizer

\* While account and Secret are written the CR neither vanishes nor rotates.
Present(d) ==
  w[d].pc \in {"createAccount", "writeSecret"} =>
    /\ cr[d].uid = w[d].instance.uid /\ cr[d].finalizer
    /\ cr[d].rotation = w[d].instance.rotation
    /\ cr[d].statusRegistry = w[d].registry

\* Before its account is created, no Secret of the CR names it ...
Behind(d) ==
  w[d].pc = "createAccount" /\ secrets[d].owner = cr[d].uid /\ Intact(d)
    => secrets[d].rotation < cr[d].rotation

\* ... and afterwards the account has the password about to be stored.
Made(d) ==
  w[d].pc = "writeSecret" =>
    \A a \in accounts : a.registry = w[d].registry /\ a.cr = d
                        /\ a.rotation = w[d].instance.rotation
                          => a.password = w[d].password

\* The finalizer goes after the accounts.
Emptied(d) ==
  w[d].pc = "removeFinalizer" =>
    \A a \in accounts : a.cr = d /\ a.creator = w[d].base.uid =>
      a.registry # w[d].base.statusRegistry /\ a.rotation # w[d].base.rotation

\* What a running Reconcile relies on.
WorkerSafe(d) ==
  /\ w[d].base.uid <= uids /\ NotAhead(w[d].base, cr[d]) /\ Placed(d, w[d].base)
  /\ Working(d) /\ Present(d) /\ Behind(d) /\ Made(d) /\ Emptied(d)

Safe == TypeInv /\ \A d \in CR : StoreSafe(d) /\ WorkerSafe(d)

\* UIDs and rotations are numbers, accounts are in registry namespaces.
LEMMA Numbers ==
  ASSUME TypeOK, NEW d \in CR
  PROVE  /\ uids \in Nat
         /\ cr[d].uid \in Nat /\ cr[d].rotation \in Nat
         /\ crCache[d].uid \in Nat /\ crCache[d].rotation \in Nat
         /\ w[d].base.uid \in Nat /\ w[d].base.rotation \in Nat
         /\ w[d].instance.uid \in Nat /\ w[d].instance.rotation \in Nat
         /\ secrets[d].owner \in Nat /\ secrets[d].rotation \in Nat
         /\ \A a \in accounts : /\ a.rotation \in Nat /\ a.creator \in Nat
                                /\ a.registry \in Registry
<1>1. cr[d] \in CRObject /\ crCache[d] \in CRObject
  BY DEF TypeOK
<1>2. w[d] \in Worker
  BY DEF TypeOK
<1>3. w[d].base \in CRObject /\ w[d].instance \in CRObject
  BY <1>2 DEF Worker
<1>4. secrets[d] \in SecretObject
  BY DEF TypeOK
<1>5. \A a \in accounts : a \in Account
  BY DEF TypeOK
<1>6. \A x \in CRObject : x.uid \in Nat /\ x.rotation \in Nat
  BY DEF CRObject
<1>7. secrets[d].owner \in Nat /\ secrets[d].rotation \in Nat
  BY <1>4 DEF SecretObject
<1>8. \A a \in accounts : a.rotation \in Nat /\ a.creator \in Nat /\ a.registry \in Registry
  BY <1>5 DEF Account
<1> QED BY <1>1, <1>3, <1>6, <1>7, <1>8 DEF TypeOK

\* A CR that a step leaves alone, except for accounts that disappear.
LEMMA Frame ==
  ASSUME Safe, TypeOK', NEW d \in CR,
         UNCHANGED <<cr[d], crCache[d], secrets[d], w[d]>>, uids <= uids',
         \A a \in accounts' : a.cr = d => a \in accounts
  PROVE  StoreSafe(d)' /\ WorkerSafe(d)'
<1>0. TypeOK /\ StoreSafe(d) /\ WorkerSafe(d)
  BY DEF Safe, TypeInv
<1>1. uids' \in Nat
  BY DEF TypeOK
<1>2. Bounded(d)' /\ w'[d].base.uid <= uids'
  BY <1>0, <1>1, Numbers DEF StoreSafe, WorkerSafe, Bounded
<1>3. Recorded(d)'
  BY <1>0 DEF StoreSafe, Recorded
<1>4. Match(d)' /\ Guarded(d)'
  BY <1>0 DEF StoreSafe, Match, Intact, Guarded
<1>5. Placed(d, cr[d])' /\ Placed(d, crCache[d])' /\ Placed(d, w[d].base)'
  BY <1>0 DEF StoreSafe, WorkerSafe, Placed
<1>6. NotAhead(crCache[d], cr[d])' /\ NotAhead(w[d].base, cr[d])'
  BY <1>0 DEF StoreSafe, WorkerSafe, NotAhead
<1>7. Working(d)' /\ Present(d)' /\ Behind(d)'
  BY <1>0 DEF WorkerSafe, Working, Present, Behind, Intact, NotAhead
<1>8. Made(d)' /\ Emptied(d)'
  BY <1>0 DEF WorkerSafe, Made, Emptied
<1> QED
  BY <1>2, <1>3, <1>4, <1>5, <1>6, <1>7, <1>8 DEF StoreSafe, WorkerSafe

\* A CR, as Frame, whose Reconcile has ended.
LEMMA IdleSafe ==
  ASSUME TypeOK', NEW d \in CR, StoreSafe(d)', w'[d] = Idle PROVE WorkerSafe(d)'
<1>1. w'[d].pc = "idle" /\ w'[d].base.uid = 0
  BY DEF Idle, NoCR
<1>2. uids' \in Nat
  BY DEF TypeOK
<1>3. w'[d].base.uid <= uids'
  BY <1>1, <1>2
<1>4. NotAhead(w[d].base, cr[d])'
  BY <1>1 DEF NotAhead
<1>5. Placed(d, w[d].base)'
  BY <1>1 DEF Placed
<1> QED
  BY <1>1, <1>3, <1>4, <1>5 DEF WorkerSafe, Working, Present, Behind, Made, Emptied

\* The CR is replaced by a version that is based on it.
LEMMA UpdateSafe ==
  ASSUME Safe, TypeOK', NEW d \in CR, NEW object,
         cr[d].uid # 0, object.uid = cr[d].uid,
         object.finalizer \/ (object.finalizer = cr[d].finalizer),
         NotAhead(cr[d], object),
         cr'[d] = object,
         UNCHANGED <<crCache[d], secrets[d], accounts, uids>>
  PROVE  StoreSafe(d)'
<1>0. TypeOK /\ StoreSafe(d)
  BY DEF Safe, TypeInv
<1>1. cr'[d].rotation \in Nat /\ cr'[d].uid = cr[d].uid
  BY DEF TypeOK, CRObject
<1>2. /\ cr[d].rotation <= cr'[d].rotation
      /\ cr[d].rotation = cr'[d].rotation => cr[d].statusRegistry = cr'[d].statusRegistry
  BY DEF NotAhead
<1>3. Bounded(d)'
  BY <1>0, <1>1 DEF StoreSafe, Bounded
<1>4. Recorded(d)'
  BY <1>0, <1>1, <1>2, Numbers DEF StoreSafe, Recorded
<1>5. NotAhead(crCache[d], cr[d])'
  BY <1>0, <1>1, <1>2, Numbers DEF StoreSafe, NotAhead
<1>6. Match(d)'
  BY <1>0, <1>1 DEF StoreSafe, Match, Intact
<1>7. Placed(d, cr[d])'
  BY <1>0, <1>1, <1>2, Numbers DEF StoreSafe, Recorded, Placed
<1>8. Placed(d, crCache[d])'
  BY <1>0 DEF StoreSafe, Placed
<1>9. Guarded(d)'
  BY <1>0, <1>1 DEF StoreSafe, Guarded
<1> QED
  BY <1>3, <1>4, <1>5, <1>6, <1>7, <1>8, <1>9 DEF StoreSafe

\* A step that changes neither the objects nor the cached CR.
LEMMA StoreFrame ==
  ASSUME Safe, TypeOK', NEW d \in CR,
         UNCHANGED <<cr[d], crCache[d], secrets[d]>>, uids <= uids',
         \A a \in accounts' : a.cr = d => a \in accounts
  PROVE  StoreSafe(d)'
<1>0. TypeOK /\ StoreSafe(d)
  BY DEF Safe, TypeInv
<1>1. uids' \in Nat
  BY DEF TypeOK
<1>2. Bounded(d)'
  BY <1>0, <1>1, Numbers DEF StoreSafe, Bounded
<1>3. Recorded(d)' /\ Match(d)' /\ Guarded(d)'
  BY <1>0 DEF StoreSafe, Recorded, Match, Intact, Guarded
<1>4. Placed(d, cr[d])' /\ Placed(d, crCache[d])'
  BY <1>0 DEF StoreSafe, Placed
<1>5. NotAhead(crCache[d], cr[d])'
  BY <1>0 DEF StoreSafe, NotAhead
<1> QED
  BY <1>2, <1>3, <1>4, <1>5 DEF StoreSafe

\* Reconcile has read the CR and not called the API yet.
Started == {"deleteAccounts", "removeFinalizer", "addFinalizer", "report",
            "deleteOldAccounts", "updateRotation"}

\* A Reconcile that starts from the cached CR, however stale, is safe.
LEMMA LoadSafe ==
  ASSUME Safe, TypeOK', NEW d \in CR,
         UNCHANGED <<cr[d], crCache[d], secrets[d], accounts, uids>>,
         crCache[d].uid # 0, w'[d].base = crCache[d], w'[d].instance = crCache[d],
         w'[d].pc \in Started,
         w'[d].pc = "removeFinalizer" => crCache[d].statusRegistry = NoRegistry,
         w'[d].pc \in {"deleteOldAccounts", "updateRotation"} => crCache[d].finalizer
  PROVE  StoreSafe(d)' /\ WorkerSafe(d)'
<1>0. TypeOK /\ StoreSafe(d)
  BY DEF Safe, TypeInv
<1>1. StoreSafe(d)'
  BY <1>0, StoreFrame, Numbers
<1>2. w'[d].base.uid <= uids' /\ NotAhead(w[d].base, cr[d])' /\ Placed(d, w[d].base)'
  BY <1>1 DEF StoreSafe, Bounded, NotAhead, Placed
<1>3. Working(d)'
  BY <1>0, Numbers DEF Working, NotAhead
<1>4. Present(d)' /\ Behind(d)' /\ Made(d)'
  BY DEF Present, Behind, Made, Started
<1>5. Emptied(d)'
  <2> SUFFICES ASSUME w'[d].pc = "removeFinalizer", NEW a \in accounts,
                      a.cr = d, a.creator = crCache[d].uid
               PROVE  a.registry # NoRegistry /\ a.rotation # crCache[d].rotation
    BY DEF Emptied
  <2>1. a.registry # NoRegistry
    BY <1>0, Numbers, RegistryAssumption
  <2> QED BY <1>0, <2>1 DEF StoreSafe, Placed
<1> QED
  BY <1>1, <1>2, <1>3, <1>4, <1>5 DEF WorkerSafe

\* Reconcile's cache reads keep the invariant.
LEMMA ReconcileSafe ==
  ASSUME Safe, TypeOK', NEW c \in CR, Reconcile(c), NEW d \in CR
  PROVE  StoreSafe(d)' /\ WorkerSafe(d)'
<1>0. TypeOK /\ uids \in Nat
  BY DEF Safe, TypeInv, TypeOK
<1>1. Dequeue(c)
  BY DEF Reconcile, ReconcileNotFound, ReconcileDeleted, ReconcileNew,
         ReconcileUnavailable, ReconcileInSync, ReconcileRotate,
         ReconcileBcryptFails, Compare
<1>2. UNCHANGED <<cr, crCache, secrets, accounts, uids>>
  BY <1>1 DEF Dequeue
<1>3. CASE UNCHANGED w[d]
  BY <1>0, <1>2, <1>3, Frame
<1>4. ASSUME NEW x, w' = [w EXCEPT ![c] = x],
             crCache[c].uid # 0, x.base = crCache[c], x.instance = crCache[c],
             x.pc \in Started,
             x.pc = "removeFinalizer" => crCache[c].statusRegistry = NoRegistry,
             x.pc \in {"deleteOldAccounts", "updateRotation"} => crCache[c].finalizer
      PROVE  StoreSafe(d)' /\ WorkerSafe(d)'
  <2>1. w \in [CR -> Worker]
    BY <1>0 DEF TypeOK
  <2>2. CASE d # c
    BY <1>3, <1>4, <2>1, <2>2
  <2>3. CASE d = c
    <3>1. w'[d] = x
      BY <1>4, <2>1, <2>3
    <3> QED BY <1>2, <1>4, <2>3, <3>1, LoadSafe
  <2> QED BY <2>2, <2>3
<1>5. CASE ReconcileNotFound(c)
  BY <1>3, <1>5 DEF ReconcileNotFound
<1>6. CASE ReconcileDeleted(c)
  <2>1. CASE UNCHANGED w
    BY <1>3, <2>1
  <2>2. CASE Load(c, "deleteAccounts")
    BY <1>4, <1>6, <2>2 DEF ReconcileDeleted, Load, Idle, Started
  <2>3. CASE Load(c, "removeFinalizer") /\ crCache[c].statusRegistry = NoRegistry
    BY <1>4, <1>6, <2>3 DEF ReconcileDeleted, Load, Idle, Started
  <2> QED BY <1>6, <2>1, <2>2, <2>3 DEF ReconcileDeleted
<1>7. CASE ReconcileNew(c)
  BY <1>4, <1>7 DEF ReconcileNew, Load, Idle, Started
<1>8. CASE ReconcileUnavailable(c)
  BY <1>4, <1>8 DEF ReconcileUnavailable, Idle, Started
<1>9. ASSUME NEW s, NEW ns, NEW cond, NEW after,
             NEW step \in {"report", "updateRotation", "deleteOldAccounts"},
             Compare(c, crCache[c], s, ns, step, cond, after)
      PROVE  StoreSafe(d)' /\ WorkerSafe(d)'
  BY <1>4, <1>9 DEF Compare, Idle, Started
<1>10. CASE ReconcileInSync(c)
  BY <1>9, <1>10 DEF ReconcileInSync
<1>11. CASE ReconcileRotate(c)
  BY <1>9, <1>11 DEF ReconcileRotate
<1>12. CASE ReconcileBcryptFails(c)
  BY <1>9, <1>12 DEF ReconcileBcryptFails
<1> QED
  BY <1>5, <1>6, <1>7, <1>8, <1>10, <1>11, <1>12 DEF Reconcile

\* A Reconcile that ends.
LEMMA ReturnSafe ==
  ASSUME Safe, TypeOK', NEW c \in CR, NEW requeue, NEW after,
         Return(c, requeue, after), NEW d \in CR,
         d = c => StoreSafe(d)',
         d # c => /\ UNCHANGED <<cr[d], crCache[d], secrets[d]>>
                  /\ \A a \in accounts' : a.cr = d => a \in accounts,
         UNCHANGED uids
  PROVE  StoreSafe(d)' /\ WorkerSafe(d)'
<1>1. w \in [CR -> Worker] /\ uids \in Nat
  BY DEF Safe, TypeInv, TypeOK
<1>2. CASE d = c
  BY <1>1, <1>2, IdleSafe DEF Return
<1>3. CASE d # c
  BY <1>1, <1>3, Frame DEF Return
<1> QED BY <1>2, <1>3

\* The version Reconcile works with, and the stored one if an update of it
\* is applied.
LEMMA BaseFacts ==
  ASSUME Safe, NEW c \in CR, w[c].pc # "idle"
  PROVE  /\ TypeOK /\ StoreSafe(c) /\ WorkerSafe(c) /\ Working(c)
         /\ w[c].base.uid # 0 /\ w[c].instance.uid = w[c].base.uid
         /\ w[c].instance.finalizer = w[c].base.finalizer
         /\ NotAhead(w[c].base, w[c].instance)
BY DEF Safe, TypeInv, WorkerSafe, Working

\* An update of c's CR, applied or not.
LEMMA UpdateCRSafe ==
  ASSUME Safe, TypeOK', NEW c \in CR, w[c].pc # "idle", NEW object, NEW o,
         UpdateCR(c, object, o),
         object.uid = w[c].base.uid,
         object.finalizer \/ object.finalizer = w[c].base.finalizer,
         NotAhead(w[c].base, object),
         UNCHANGED <<crCache, secrets, accounts, uids>>
  PROVE  StoreSafe(c)' /\ \A d \in CR : d # c => UNCHANGED cr[d]
<1>1. /\ cr \in [CR -> CRObject] /\ uids <= uids
      /\ w[c].base.uid # 0
  BY BaseFacts DEF Safe, TypeInv, TypeOK
<1>2. CASE cr' = cr
  BY <1>1, <1>2, StoreFrame
<1>3. CASE cr[c] = w[c].base /\ cr' = [cr EXCEPT ![c] = object]
  <2>1. StoreSafe(c)'
    BY <1>1, <1>3, UpdateSafe
  <2> QED BY <1>1, <1>3, <2>1
<1> QED BY <1>2, <1>3 DEF UpdateCR, Respond, Applied

\* A Reconcile that goes on to report a condition.
LEMMA ReportingSafe ==
  ASSUME Safe, TypeOK', NEW c \in CR, w[c].pc # "idle",
         w'[c].pc \in {"report", "reportUnsynced"}, w'[c].base = w[c].base,
         w'[c].instance.uid = w[c].base.uid,
         w'[c].instance.finalizer = w[c].base.finalizer,
         NotAhead(w[c].base, w'[c].instance), NotAhead(w[c].base, cr'[c]),
         Placed(c, w[c].base)', UNCHANGED uids
  PROVE  WorkerSafe(c)'
<1>1. w[c].base.uid # 0 /\ w[c].base.uid <= uids
  BY BaseFacts DEF WorkerSafe
<1>2. w'[c].base.uid <= uids' /\ NotAhead(w[c].base, cr[c])'
  BY <1>1 DEF NotAhead
<1>3. Working(c)'
  BY <1>1 DEF Working, NotAhead
<1>4. Present(c)' /\ Behind(c)' /\ Made(c)' /\ Emptied(c)'
  BY DEF Present, Behind, Made, Emptied
<1> QED BY <1>2, <1>3, <1>4 DEF WorkerSafe

\* If no account of c is added, those of a version stay where they are.
LEMMA PlacedFrame ==
  ASSUME NEW c \in CR, Placed(c, w[c].base), w'[c].base = w[c].base,
         \A a \in accounts' : a.cr = c => a \in accounts
  PROVE  Placed(c, w[c].base)'
BY DEF Placed

\* The finalizer's DeleteAllOf leaves none of the CR's accounts in the
\* registry of its status.
LEMMA DeleteAccountsSafe ==
  ASSUME Safe, TypeOK', NEW c \in CR, DeleteAccounts(c), NEW d \in CR
  PROVE  StoreSafe(d)' /\ WorkerSafe(d)'
<1>0. w[c].pc = "deleteAccounts" /\ w[c].instance = w[c].base
  BY BaseFacts DEF DeleteAccounts, Working
<1>1. /\ w \in [CR -> Worker] /\ uids <= uids
      /\ UNCHANGED <<cr, secrets, crCache, uids>>
  BY DEF Safe, TypeInv, TypeOK, DeleteAccounts
<1>2. PICK o \in Outcome :
        /\ deleteOrphanAccounts(c, w[c].instance.statusRegistry, o)
        /\ IF o = "ok" THEN Goto(c, "removeFinalizer") /\ UNCHANGED <<queue, timer>>
                       ELSE Return(c, TRUE, FALSE)
  BY DEF DeleteAccounts
<1>3. /\ accounts' \subseteq accounts
      /\ o = "ok" => \A a \in accounts' : a.registry # w[c].base.statusRegistry
  BY <1>0, <1>2 DEF deleteOrphanAccounts, SelectedAccounts, Applied
<1>4. StoreSafe(c)'
  BY <1>1, <1>3, StoreFrame
<1>5. CASE o # "ok"
  BY <1>1, <1>2, <1>3, <1>4, <1>5, ReturnSafe
<1>6. CASE o = "ok" /\ d # c
  BY <1>1, <1>2, <1>3, <1>6, Frame DEF Goto
<1>7. CASE o = "ok" /\ d = c
  <2>1. w'[c] = [w[c] EXCEPT !.pc = "removeFinalizer"]
    BY <1>1, <1>2, <1>7 DEF Goto
  <2>2. /\ w'[c].pc = "removeFinalizer"
        /\ w'[c].base = w[c].base /\ w'[c].instance = w[c].instance
    BY <1>1, <2>1 DEF Worker
  <2>3. WorkerSafe(c) /\ Working(c)
    BY <1>0, BaseFacts
  <2>4. /\ w'[c].base.uid <= uids' /\ NotAhead(w[c].base, cr[c])' /\ Placed(c, w[c].base)'
    BY <1>1, <1>3, <2>2, <2>3 DEF WorkerSafe, NotAhead, Placed
  <2>5. Working(c)'
    BY <1>0, <2>2, <2>3 DEF Working, NotAhead
  <2>6. Emptied(c)'
    BY <1>3, <1>7, <2>2, <2>3, <2>4, BaseFacts, <1>0 DEF Emptied, Placed
  <2>7. Present(c)' /\ Behind(c)' /\ Made(c)'
    BY <2>2 DEF Present, Behind, Made
  <2> QED BY <1>4, <1>7, <2>4, <2>5, <2>6, <2>7 DEF WorkerSafe
<1> QED BY <1>5, <1>6, <1>7

\* The CR goes away with its finalizer.
LEMMA RemoveFinalizerSafe ==
  ASSUME Safe, TypeOK', NEW c \in CR, RemoveFinalizer(c), NEW d \in CR
  PROVE  StoreSafe(d)' /\ WorkerSafe(d)'
<1>1. /\ cr \in [CR -> CRObject] /\ uids \in Nat
      /\ UNCHANGED <<accounts, secrets, crCache, uids>>
  BY DEF Safe, TypeInv, TypeOK, RemoveFinalizer
<1>2. PICK o \in Outcome : UpdateCR(c, NoCR, o) /\ Return(c, Failed(o), FALSE)
  BY DEF RemoveFinalizer
<1>3. d # c => UNCHANGED cr[d]
  BY <1>1, <1>2 DEF UpdateCR
<1>4. StoreSafe(c)'
  <2>1. CASE cr' = cr
    BY <1>1, <2>1, StoreFrame
  <2>2. CASE cr' = [cr EXCEPT ![c] = NoCR]
    <3>1. cr'[c].uid = 0
      BY <1>1, <2>2 DEF NoCR
    <3>2. StoreSafe(c)
      BY DEF Safe
    <3> QED BY <1>1, <3>1, <3>2
            DEF StoreSafe, Bounded, Recorded, NotAhead, Match, Intact, Placed, Guarded
  <2> QED BY <1>2, <2>1, <2>2 DEF UpdateCR
<1> QED BY <1>1, <1>2, <1>3, <1>4, ReturnSafe

\* The finalizer is added before there is any account.
LEMMA AddFinalizerSafe ==
  ASSUME Safe, TypeOK', NEW c \in CR, AddFinalizer(c), NEW d \in CR
  PROVE  StoreSafe(d)' /\ WorkerSafe(d)'
<1> DEFINE f == [w[c].instance EXCEPT !.finalizer = TRUE]
<1>1. /\ w \in [CR -> Worker] /\ cr \in [CR -> CRObject] /\ uids <= uids
      /\ UNCHANGED <<accounts, secrets, crCache, uids>>
      /\ w[c].pc = "addFinalizer"
  BY DEF Safe, TypeInv, TypeOK, AddFinalizer
<1>2. w[c] \in Worker /\ w[c].instance \in CRObject
  BY <1>1 DEF Worker
<1>3. /\ f.uid = w[c].base.uid /\ f.finalizer = TRUE
      /\ NotAhead(w[c].base, f)
  BY <1>1, <1>2, BaseFacts DEF CRObject, NotAhead
<1>4. PICK o \in Outcome :
        /\ UpdateCR(c, f, o)
        /\ IF o = "ok"
           THEN Return(c, FALSE, FALSE)
           ELSE /\ w' = [w EXCEPT ![c] = [@ EXCEPT !.pc = "reportUnsynced",
                                           !.cond = ErrorCond(o, "conflict")]]
                /\ UNCHANGED <<queue, timer>>
  BY DEF AddFinalizer
<1> HIDE DEF f
<1>5. StoreSafe(c)' /\ \A e \in CR : e # c => UNCHANGED cr[e]
  BY <1>1, <1>3, <1>4, UpdateCRSafe
<1>6. NotAhead(w[c].base, cr'[c])
  BY <1>1, <1>3, <1>4, BaseFacts DEF UpdateCR, WorkerSafe
<1>7. CASE o = "ok"
  BY <1>1, <1>4, <1>5, <1>7, ReturnSafe
<1>8. CASE o # "ok" /\ d # c
  BY <1>1, <1>4, <1>5, <1>8, Frame
<1>9. CASE o # "ok" /\ d = c
  <2>1. /\ w'[c].pc = "reportUnsynced" /\ w'[c].base = w[c].base
        /\ w'[c].instance = w[c].instance
    <3>1. w'[c] = [w[c] EXCEPT !.pc = "reportUnsynced", !.cond = ErrorCond(o, "conflict")]
      BY <1>1, <1>4, <1>9
    <3> QED BY <1>2, <3>1 DEF Worker
  <2>2. Placed(c, w[c].base)'
    BY <1>1, <2>1, PlacedFrame, BaseFacts DEF WorkerSafe
  <2>3. WorkerSafe(c)'
    BY <1>1, <1>6, <2>1, <2>2, BaseFacts, ReportingSafe
  <2> QED BY <1>5, <1>9, <2>3
<1> QED BY <1>7, <1>8, <1>9

\* Writing a condition changes neither rotation nor registry.
LEMMA ReportSafe ==
  ASSUME Safe, TypeOK', NEW c \in CR, ReportUnsynced(c) \/ Report(c), NEW d \in CR
  PROVE  StoreSafe(d)' /\ WorkerSafe(d)'
<1>0. UNCHANGED <<accounts, secrets, crCache, uids>> /\ w[c].pc # "idle"
  BY DEF ReportUnsynced, Report
<1>1. /\ cr \in [CR -> CRObject] /\ uids <= uids
      /\ UNCHANGED <<accounts, secrets, crCache, uids>>
      /\ w[c].pc # "idle"
  BY <1>0 DEF Safe, TypeInv, TypeOK
<1>2. w[c] \in Worker /\ w[c].instance \in CRObject
  BY DEF Safe, TypeInv, TypeOK, Worker
<1>3. \E o, requeue, after :
        /\ setUnsynced(c, w[c].cond, o) \/ setReady(c, w[c].cond, o)
        /\ Return(c, requeue, after)
  <2>1. CASE ReportUnsynced(c)
    <3>1. PICK o \in Outcome : setUnsynced(c, w[c].cond, o) /\ Return(c, TRUE, FALSE)
      BY <2>1 DEF ReportUnsynced
    <3> WITNESS o, TRUE, FALSE
    <3> QED BY <3>1
  <2>2. CASE Report(c)
    <3>1. PICK o \in Outcome : /\ setReady(c, w[c].cond, o)
                               /\ Return(c, Failed(o), ~Failed(o) /\ w[c].requeueAfter)
      BY <2>2 DEF Report
    <3> WITNESS o, Failed(o), ~Failed(o) /\ w[c].requeueAfter
    <3> QED BY <3>1
  <2> QED BY <2>1, <2>2
<1>3a. PICK o, requeue, after :
         /\ setUnsynced(c, w[c].cond, o) \/ setReady(c, w[c].cond, o)
         /\ Return(c, requeue, after)
  BY <1>3
<1>4. CASE cr' = cr
  BY <1>1, <1>3a, <1>4, StoreFrame, ReturnSafe
<1>5. ASSUME NEW f, UpdateCR(c, f, o), f.uid = w[c].instance.uid,
             f.finalizer = w[c].instance.finalizer,
             f.rotation = w[c].instance.rotation,
             f.statusRegistry = w[c].instance.statusRegistry
      PROVE  StoreSafe(d)' /\ WorkerSafe(d)'
  <2>1. f.uid = w[c].base.uid /\ f.finalizer = w[c].base.finalizer /\ NotAhead(w[c].base, f)
    BY <1>1, <1>5, BaseFacts DEF NotAhead
  <2>2. StoreSafe(c)' /\ \A e \in CR : e # c => UNCHANGED cr[e]
    BY <1>1, <1>5, <2>1, UpdateCRSafe
  <2> QED BY <1>1, <1>3a, <2>2, ReturnSafe
<1>6. CASE setUnsynced(c, w[c].cond, o)
  <2> DEFINE f == [w[c].instance EXCEPT !.synced = w[c].cond,
                      !.observedGeneration = w[c].instance.generation]
  <2>1. /\ f.uid = w[c].instance.uid /\ f.finalizer = w[c].instance.finalizer
        /\ f.rotation = w[c].instance.rotation
        /\ f.statusRegistry = w[c].instance.statusRegistry
    BY <1>2 DEF CRObject
  <2>2. CASE UpdateCR(c, f, o)
    <3> HIDE DEF f
    <3> QED BY <1>5, <2>1, <2>2
  <2> QED BY <1>4, <1>6, <2>2 DEF setUnsynced
<1>7. CASE setReady(c, w[c].cond, o)
  <2> DEFINE f == [w[c].instance EXCEPT !.ready = w[c].cond,
                      !.observedGeneration = w[c].instance.generation]
  <2>1. /\ f.uid = w[c].instance.uid /\ f.finalizer = w[c].instance.finalizer
        /\ f.rotation = w[c].instance.rotation
        /\ f.statusRegistry = w[c].instance.statusRegistry
    BY <1>2 DEF CRObject
  <2>2. CASE UpdateCR(c, f, o)
    <3> HIDE DEF f
    <3> QED BY <1>5, <2>1, <2>2
  <2> QED BY <1>4, <1>7, <2>2 DEF setReady
<1> QED BY <1>3a, <1>6, <1>7

\* Deleting the old registry's accounts, even if it fails, is safe.
LEMMA DeleteOldAccountsSafe ==
  ASSUME Safe, TypeOK', NEW c \in CR, DeleteOldAccounts(c), NEW d \in CR
  PROVE  StoreSafe(d)' /\ WorkerSafe(d)'
<1>1. /\ w \in [CR -> Worker] /\ uids <= uids
      /\ UNCHANGED <<cr, secrets, crCache, uids>>
      /\ w[c].pc = "deleteOldAccounts" /\ Goto(c, "updateRotation")
  BY DEF Safe, TypeInv, TypeOK, DeleteOldAccounts
<1>2. accounts' \subseteq accounts
  BY DEF DeleteOldAccounts, deleteOrphanAccounts
<1>3. CASE d # c
  BY <1>1, <1>2, <1>3, Frame DEF Goto
<1>4. CASE d = c
  <2>1. w'[c] = [w[c] EXCEPT !.pc = "updateRotation"]
    BY <1>1 DEF Goto
  <2>2. /\ w'[c].pc = "updateRotation"
        /\ w'[c].base = w[c].base /\ w'[c].instance = w[c].instance
    BY <1>1, <2>1 DEF Worker
  <2>3. StoreSafe(c)'
    BY <1>1, <1>2, StoreFrame
  <2>4. WorkerSafe(c) /\ Working(c)
    BY <1>1, BaseFacts
  <2>5. w'[c].base.uid <= uids' /\ NotAhead(w[c].base, cr[c])' /\ Placed(c, w[c].base)'
    BY <1>1, <1>2, <2>2, <2>4 DEF WorkerSafe, NotAhead, Placed
  <2>6. Working(c)'
    BY <1>1, <2>2, <2>4 DEF Working, NotAhead
  <2>7. Present(c)' /\ Behind(c)' /\ Made(c)' /\ Emptied(c)'
    BY <2>2 DEF Present, Behind, Made, Emptied
  <2> QED BY <1>4, <2>3, <2>5, <2>6, <2>7 DEF WorkerSafe
<1> QED BY <1>3, <1>4

\* Writing the next rotation to the status, based on the version read.
LEMMA UpdateRotationSafe ==
  ASSUME Safe, TypeOK', NEW c \in CR, UpdateRotation(c), NEW d \in CR
  PROVE  StoreSafe(d)' /\ WorkerSafe(d)'
<1> DEFINE f == Rotated(w[c].instance, w[c].registry)
<1>1. /\ w \in [CR -> Worker] /\ cr \in [CR -> CRObject] /\ uids <= uids
      /\ UNCHANGED <<accounts, secrets, crCache, uids>>
      /\ w[c].pc = "updateRotation"
  BY DEF Safe, TypeInv, TypeOK, UpdateRotation
<1>2. w[c] \in Worker /\ w[c].instance \in CRObject
  BY <1>1 DEF Worker
<1>3. /\ f.uid = w[c].instance.uid /\ f.finalizer = w[c].instance.finalizer
      /\ f.rotation = w[c].instance.rotation + 1
      /\ f.statusRegistry = w[c].registry
  BY <1>2 DEF CRObject, Rotated
<1>4. /\ WorkerSafe(c) /\ StoreSafe(c) /\ TypeOK
      /\ w[c].instance = w[c].base /\ w[c].base.finalizer /\ w[c].base.uid # 0
      /\ w[c].base.rotation \in Nat
  BY <1>1, BaseFacts, Numbers DEF Working
<1>5. PICK o \in Outcome :
        /\ UpdateCR(c, f, o)
        /\ w' = [w EXCEPT ![c] =
             IF RotationStored(o)
             THEN [@ EXCEPT !.pc = "createAccount", !.base = f, !.instance = f]
             ELSE [@ EXCEPT !.pc = "report", !.instance = f, !.requeueAfter = FALSE,
                            !.cond = ErrorCond(o, "conflict")]]
  BY DEF UpdateRotation
<1> HIDE DEF f
<1>6. f.uid = w[c].base.uid /\ f.finalizer = w[c].base.finalizer /\ NotAhead(w[c].base, f)
  <2>1. w[c].instance = w[c].base /\ w[c].base.rotation \in Nat
    BY <1>4
  <2>2. f.uid = w[c].base.uid /\ f.finalizer = w[c].base.finalizer
    BY <1>3, <2>1, Zenon
  <2>3. f.rotation = w[c].base.rotation + 1
    BY <1>3, <2>1
  <2>4. NotAhead(w[c].base, f)
    BY <2>1, <2>3 DEF NotAhead
  <2> QED BY <2>2, <2>4
<1>7. StoreSafe(c)' /\ \A e \in CR : e # c => UNCHANGED cr[e]
  BY <1>1, <1>5, <1>6, UpdateCRSafe
<1>8. CASE d # c
  <2>1. w'[d] = w[d]
    BY <1>1, <1>5, <1>8
  <2> QED BY <1>1, <1>7, <1>8, <2>1, Frame
<1>9. CASE d = c /\ o # "ok"
  <2>1. /\ w'[c].pc = "report" /\ w'[c].base = w[c].base /\ w'[c].instance = f
    <3>1. w'[c] = [w[c] EXCEPT !.pc = "report", !.instance = f, !.requeueAfter = FALSE,
                               !.cond = ErrorCond(o, "conflict")]
      BY <1>1, <1>5, <1>9 DEF RotationStored
    <3> QED BY <1>2, <3>1 DEF Worker
  <2>2. NotAhead(w[c].base, cr'[c])
    BY <1>1, <1>4, <1>5, <1>6 DEF UpdateCR, WorkerSafe
  <2>3. Placed(c, w[c].base)'
    BY <1>1, <1>4, <2>1, PlacedFrame DEF WorkerSafe
  <2>4. WorkerSafe(c)'
    BY <1>1, <1>6, <2>1, <2>2, <2>3, ReportingSafe
  <2> QED BY <1>7, <1>9, <2>4
<1>10. CASE d = c /\ o = "ok"
  <2>1. cr[c] = w[c].base /\ cr'[c] = f
    BY <1>1, <1>5, <1>10 DEF UpdateCR, Respond, Applied
  <2>2. /\ w'[c].pc = "createAccount" /\ w'[c].base = f /\ w'[c].instance = f
        /\ w'[c].registry = w[c].registry
    <3>1. w'[c] = [w[c] EXCEPT !.pc = "createAccount", !.base = f, !.instance = f]
      BY <1>1, <1>5, <1>10 DEF RotationStored
    <3> QED BY <1>2, <3>1 DEF Worker
  <2>3. w'[c].base.uid <= uids' /\ NotAhead(w[c].base, cr[c])' /\ Placed(c, w[c].base)'
    BY <1>3, <1>4, <1>7, <2>1, <2>2 DEF StoreSafe, Bounded, NotAhead, Placed
  <2>4. Working(c)' /\ Present(c)'
    BY <1>3, <1>4, <2>1, <2>2 DEF Working, Present, NotAhead
  <2>5. Behind(c)'
    <3>1. secrets[c].owner = cr[c].uid => secrets[c].rotation <= cr[c].rotation
      BY <1>4, <2>1 DEF StoreSafe, Recorded
    <3> QED BY <1>1, <1>3, <1>4, <1>6, <2>1, <3>1, Numbers DEF Behind
  <2>6. Made(c)' /\ Emptied(c)'
    BY <2>2 DEF Made, Emptied
  <2> QED BY <1>7, <1>10, <2>3, <2>4, <2>5, <2>6 DEF WorkerSafe
<1> QED BY <1>8, <1>9, <1>10

\* Creating the account of the rotation that the status already records.
LEMMA CreateAccountSafe ==
  ASSUME Safe, TypeOK', NEW c \in CR, CreateAccount(c), NEW d \in CR
  PROVE  StoreSafe(d)' /\ WorkerSafe(d)'
<1> DEFINE x == NewAccount(c)
<1>1. /\ w \in [CR -> Worker] /\ uids <= uids
      /\ UNCHANGED <<cr, secrets, crCache, uids>>
      /\ w[c].pc = "createAccount"
  BY DEF Safe, TypeInv, TypeOK, CreateAccount
<1>2. w[c] \in Worker
  BY <1>1
<1>3. /\ WorkerSafe(c) /\ StoreSafe(c) /\ TypeOK
      /\ w[c].instance.uid = w[c].base.uid /\ w[c].base.uid # 0
      /\ w[c].instance.finalizer = w[c].base.finalizer
      /\ NotAhead(w[c].base, w[c].instance)
  BY <1>1, BaseFacts
<1>4. /\ cr[c].uid = w[c].instance.uid /\ cr[c].finalizer
      /\ cr[c].rotation = w[c].instance.rotation
      /\ cr[c].statusRegistry = w[c].registry
  BY <1>1, <1>3 DEF WorkerSafe, Present
<1>5. /\ x.registry = cr[c].statusRegistry /\ x.cr = c
      /\ x.rotation = cr[c].rotation /\ x.creator = cr[c].uid
      /\ x.password = passwords + 1 /\ x.registry = w[c].registry
  BY <1>4 DEF NewAccount
<1>6. PICK o \in Outcome :
        /\ Respond(o, ~NameTaken(x))
        /\ accounts' = IF Applied(o) THEN accounts \cup {x} ELSE accounts
        /\ w' = [w EXCEPT ![c] =
             IF AccountCreated(o)
             THEN [@ EXCEPT !.pc = "writeSecret", !.password = passwords + 1]
             ELSE [@ EXCEPT !.pc = "report", !.requeueAfter = FALSE,
                            !.cond = ErrorCond(o, "accountExists")]]
  BY DEF CreateAccount
<1> HIDE DEF x
<1>7. accounts' \subseteq accounts \cup {x}
  BY <1>6
<1>8. CASE d # c
  <2>1. w'[d] = w[d]
    BY <1>1, <1>6, <1>8
  <2>2. \A a \in accounts' : a.cr = d => a \in accounts
    BY <1>5, <1>7, <1>8
  <2> QED BY <1>1, <2>1, <2>2, Frame
<1>9. StoreSafe(c)'
  <2>1. Bounded(c)'
    BY <1>1, <1>3, <1>5, <1>7 DEF StoreSafe, Bounded
  <2>2. Recorded(c)'
    BY <1>1, <1>3, <1>5, <1>7, Numbers DEF StoreSafe, Recorded
  <2>3. NotAhead(crCache[c], cr[c])'
    BY <1>1, <1>3 DEF StoreSafe, NotAhead
  <2>4. Match(c)'
    <3>1. secrets[c].owner = cr[c].uid /\ Intact(c) => secrets[c].rotation # x.rotation
      BY <1>1, <1>3, <1>5, Numbers DEF WorkerSafe, Behind
    <3> QED BY <1>1, <1>3, <1>7, <3>1 DEF StoreSafe, Match, Intact
  <2>5. Placed(c, cr[c])'
    BY <1>1, <1>3, <1>5, <1>7 DEF StoreSafe, Placed
  <2>6. Placed(c, crCache[c])'
    BY <1>1, <1>3, <1>4, <1>5, <1>7 DEF StoreSafe, Placed, NotAhead
  <2>7. Guarded(c)'
    BY <1>1, <1>4 DEF Guarded
  <2> QED BY <2>1, <2>2, <2>3, <2>4, <2>5, <2>6, <2>7 DEF StoreSafe
<1>10. w'[c].base = w[c].base => Placed(c, w[c].base)'
  BY <1>3, <1>4, <1>5, <1>7 DEF WorkerSafe, Placed, NotAhead
<1>11. CASE d = c /\ o # "ok"
  <2>1. w'[c].pc = "report" /\ w'[c].base = w[c].base /\ w'[c].instance = w[c].instance
    <3>1. w'[c] = [w[c] EXCEPT !.pc = "report", !.requeueAfter = FALSE,
                               !.cond = ErrorCond(o, "accountExists")]
      BY <1>1, <1>6, <1>11 DEF AccountCreated
    <3> QED BY <1>2, <3>1 DEF Worker
  <2>2. NotAhead(w[c].base, cr'[c])
    BY <1>1, <1>3 DEF WorkerSafe
  <2>3. WorkerSafe(c)'
    BY <1>1, <1>3, <1>10, <2>1, <2>2, ReportingSafe
  <2> QED BY <1>9, <1>11, <2>3
<1>12. CASE d = c /\ o = "ok"
  <2>1. /\ w'[c].pc = "writeSecret" /\ w'[c].base = w[c].base
        /\ w'[c].instance = w[c].instance /\ w'[c].registry = w[c].registry
        /\ w'[c].password = passwords + 1
    <3>1. PICK p \in Nat : p = passwords + 1
      BY <1>3 DEF TypeOK
    <3>2. w'[c] = [w[c] EXCEPT !.pc = "writeSecret", !.password = p]
      BY <1>1, <1>6, <1>12, <3>1 DEF AccountCreated
    <3> QED BY <1>2, <3>1, <3>2 DEF Worker
  <2>2. /\ w'[c].base.uid <= uids' /\ NotAhead(w[c].base, cr[c])'
        /\ Placed(c, w[c].base)'
    BY <1>1, <1>3, <1>10, <2>1 DEF WorkerSafe, NotAhead
  <2>3. Working(c)'
    BY <1>3, <2>1 DEF Working, NotAhead
  <2>4. Present(c)'
    BY <1>1, <1>4, <2>1 DEF Present
  <2>5. Made(c)'
    <3>1. ~NameTaken(x)
      BY <1>6, <1>12 DEF Respond
    <3> QED BY <1>4, <1>5, <1>7, <2>1, <3>1 DEF Made, NameTaken
  <2>6. Behind(c)' /\ Emptied(c)'
    BY <2>1 DEF Behind, Emptied
  <2> QED BY <1>9, <1>12, <2>2, <2>3, <2>4, <2>5, <2>6 DEF WorkerSafe
<1> QED BY <1>8, <1>11, <1>12

\* Writing the Secret of the account just created.
LEMMA WriteSecretSafe ==
  ASSUME Safe, TypeOK', NEW c \in CR, WriteSecret(c), NEW d \in CR
  PROVE  StoreSafe(d)' /\ WorkerSafe(d)'
<1> DEFINE s == NewSecret(c)
<1>1. /\ w \in [CR -> Worker] /\ secrets \in [CR -> SecretObject] /\ uids <= uids
      /\ UNCHANGED <<cr, accounts, crCache, uids>>
      /\ w[c].pc = "writeSecret"
  BY DEF Safe, TypeInv, TypeOK, WriteSecret
<1>2. w[c] \in Worker
  BY <1>1
<1>3. /\ WorkerSafe(c) /\ StoreSafe(c) /\ TypeOK
      /\ w[c].instance.uid = w[c].base.uid
      /\ w[c].instance.finalizer = w[c].base.finalizer
      /\ NotAhead(w[c].base, w[c].instance)
  BY <1>1, BaseFacts
<1>4. /\ s.owner = cr[c].uid /\ s.rotation = cr[c].rotation
      /\ s.registry = w[c].registry /\ s.password = w[c].password
      /\ cr[c].rotation = w[c].instance.rotation
  BY <1>1, <1>3 DEF WorkerSafe, Present, NewSecret
<1>5. /\ secrets' = secrets \/ secrets' = [secrets EXCEPT ![c] = s]
      /\ \E cond, after : GotoReport(c, cond, after)
  BY DEF WriteSecret
<1> HIDE DEF s
<1>6. PICK cond, after : GotoReport(c, cond, after)
  BY <1>5
<1>7. CASE d # c
  <2>1. w'[d] = w[d] /\ secrets'[d] = secrets[d]
    BY <1>1, <1>5, <1>6, <1>7 DEF GotoReport
  <2> QED BY <1>1, <2>1, Frame
<1>8. CASE d = c
  <2>1. StoreSafe(c)'
    <3>1. CASE secrets' = secrets
      BY <1>1, <3>1, StoreFrame
    <3>2. CASE secrets' = [secrets EXCEPT ![c] = s]
      <4>1. secrets'[c] = s
        BY <1>1, <3>2
      <4>2. Bounded(c)'
        BY <1>1, <1>3, <1>4, <4>1 DEF StoreSafe, Bounded
      <4>3. Recorded(c)'
        BY <1>1, <1>3, <1>4, <4>1, Numbers DEF StoreSafe, Recorded
      <4>4. Match(c)'
        BY <1>1, <1>3, <1>4, <4>1 DEF WorkerSafe, Made, Match, Intact
      <4>5. /\ NotAhead(crCache[c], cr[c])' /\ Placed(c, cr[c])'
            /\ Placed(c, crCache[c])' /\ Guarded(c)'
        BY <1>1, <1>3 DEF StoreSafe, NotAhead, Placed, Guarded
      <4> QED BY <4>2, <4>3, <4>4, <4>5 DEF StoreSafe
    <3> QED BY <1>5, <3>1, <3>2
  <2>2. w'[c].pc = "report" /\ w'[c].base = w[c].base /\ w'[c].instance = w[c].instance
    <3>1. w'[c] = [w[c] EXCEPT !.pc = "report", !.cond = cond, !.requeueAfter = after]
      BY <1>1, <1>6 DEF GotoReport
    <3> QED BY <1>2, <3>1 DEF Worker
  <2>3. NotAhead(w[c].base, cr'[c]) /\ Placed(c, w[c].base)'
    BY <1>1, <1>3, <2>2, PlacedFrame DEF WorkerSafe
  <2>4. WorkerSafe(c)'
    BY <1>1, <1>3, <2>2, <2>3, ReportingSafe
  <2> QED BY <1>8, <2>1, <2>4
<1> QED BY <1>7, <1>8

\* The cache shows the stored CR: a watch event, or the list after a restart.
LEMMA CacheSafe ==
  ASSUME Safe, TypeOK', NEW d \in CR,
         UNCHANGED <<cr[d], secrets[d], accounts, uids>>, crCache'[d] = cr[d]
  PROVE  StoreSafe(d)'
<1>1. TypeOK /\ StoreSafe(d)
  BY DEF Safe, TypeInv
<1>2. Bounded(d)' /\ NotAhead(crCache[d], cr[d])'
  BY <1>1, Numbers DEF StoreSafe, Bounded, NotAhead
<1>3. Recorded(d)' /\ Match(d)' /\ Guarded(d)'
  BY <1>1 DEF StoreSafe, Recorded, Match, Intact, Guarded
<1>4. Placed(d, cr[d])' /\ Placed(d, crCache[d])'
  BY <1>1 DEF StoreSafe, Placed
<1> QED BY <1>2, <1>3, <1>4 DEF StoreSafe

\* A running Reconcile does not look at the cache again.
LEMMA WorkerFrame ==
  ASSUME Safe, NEW d \in CR, UNCHANGED <<cr[d], secrets[d], accounts, uids, w[d]>>
  PROVE  WorkerSafe(d)'
<1>1. WorkerSafe(d)
  BY DEF Safe
<1>2. w'[d].base.uid <= uids' /\ NotAhead(w[d].base, cr[d])' /\ Placed(d, w[d].base)'
  BY <1>1 DEF WorkerSafe, NotAhead, Placed
<1>3. Working(d)' /\ Present(d)' /\ Behind(d)'
  BY <1>1 DEF WorkerSafe, Working, Present, Behind, Intact, NotAhead
<1>4. Made(d)' /\ Emptied(d)'
  BY <1>1 DEF WorkerSafe, Made, Emptied
<1> QED BY <1>2, <1>3, <1>4 DEF WorkerSafe

\* A user changes what neither the status nor the finalizer depends on.
LEMMA EditSafe ==
  ASSUME Safe, TypeOK', NEW d \in CR, cr[d].uid # 0,
         cr'[d].uid = cr[d].uid, cr'[d].finalizer = cr[d].finalizer,
         cr'[d].rotation = cr[d].rotation,
         cr'[d].statusRegistry = cr[d].statusRegistry,
         UNCHANGED <<crCache[d], secrets[d], w[d], accounts, uids>>
  PROVE  StoreSafe(d)' /\ WorkerSafe(d)'
<1>1. TypeOK /\ WorkerSafe(d) /\ cr[d].rotation \in Nat
  BY Numbers DEF Safe, TypeInv
<1>2. NotAhead(cr[d], cr'[d])
  BY <1>1 DEF NotAhead
<1>3. StoreSafe(d)'
  BY <1>2, UpdateSafe
<1>4. w'[d].base.uid <= uids' /\ NotAhead(w[d].base, cr[d])' /\ Placed(d, w[d].base)'
  BY <1>1 DEF WorkerSafe, NotAhead, Placed
<1>5. Working(d)' /\ Behind(d)'
  BY <1>1 DEF WorkerSafe, Working, Behind, Intact, NotAhead
<1>6. Present(d)'
  BY <1>1 DEF WorkerSafe, Present
<1>7. Made(d)' /\ Emptied(d)'
  BY <1>1 DEF WorkerSafe, Made, Emptied
<1> QED BY <1>3, <1>4, <1>5, <1>6, <1>7 DEF WorkerSafe

\* The Secret disappears, loses its credentials, or all but these changes.
LEMMA SecretSafe ==
  ASSUME Safe, TypeOK', NEW d \in CR,
         \/ secrets'[d].owner = 0
         \/ /\ secrets'[d].owner = secrets[d].owner
            /\ secrets'[d].rotation \in {0, secrets[d].rotation}
            /\ secrets'[d].password = 0
         \/ /\ secrets'[d].owner = secrets[d].owner
            /\ secrets'[d].registry = secrets[d].registry
            /\ secrets'[d].rotation = secrets[d].rotation
            /\ secrets'[d].password = secrets[d].password,
         UNCHANGED <<cr[d], crCache[d], w[d], accounts, uids>>
  PROVE  StoreSafe(d)' /\ WorkerSafe(d)'
<1>1. TypeOK /\ StoreSafe(d) /\ WorkerSafe(d) /\ uids \in Nat
  BY DEF Safe, TypeInv, TypeOK
<1>2. Bounded(d)' /\ Recorded(d)'
  BY <1>1, Numbers DEF StoreSafe, Bounded, Recorded
<1>3. Match(d)'
  BY <1>1 DEF StoreSafe, Match, Intact
<1>4. /\ NotAhead(crCache[d], cr[d])' /\ Placed(d, cr[d])'
      /\ Placed(d, crCache[d])' /\ Guarded(d)'
  BY <1>1 DEF StoreSafe, NotAhead, Placed, Guarded
<1>5. w'[d].base.uid <= uids' /\ NotAhead(w[d].base, cr[d])' /\ Placed(d, w[d].base)'
  BY <1>1 DEF WorkerSafe, NotAhead, Placed
<1>6. Working(d)' /\ Present(d)'
  BY <1>1 DEF WorkerSafe, Working, Present, NotAhead
<1>7. Behind(d)'
  BY <1>1 DEF WorkerSafe, Working, Present, Behind, Intact
<1>8. Made(d)' /\ Emptied(d)'
  BY <1>1 DEF WorkerSafe, Made, Emptied
<1> QED
  BY <1>2, <1>3, <1>4, <1>5, <1>6, <1>7, <1>8 DEF StoreSafe, WorkerSafe

\* A CR that is new, or gone without having had a finalizer: none of what is
\* left of earlier CRs of its name has its UID.
LEMMA FreshSafe ==
  ASSUME Safe, TypeOK', NEW d \in CR, ~(w[d].pc \in {"createAccount", "writeSecret"}),
         cr'[d].uid = 0 \/ (cr'[d].uid > uids /\ cr'[d].uid <= uids'), uids <= uids',
         UNCHANGED <<crCache[d], secrets[d], w[d], accounts>>
  PROVE  StoreSafe(d)' /\ WorkerSafe(d)'
<1>1. TypeOK /\ StoreSafe(d) /\ WorkerSafe(d) /\ uids \in Nat
  BY DEF Safe, TypeInv, TypeOK
<1>2. uids' \in Nat /\ cr'[d].uid \in Nat
  BY DEF TypeOK, CRObject
<1>3. /\ crCache[d].uid \in Nat /\ crCache[d].uid <= uids
      /\ secrets[d].owner \in Nat /\ secrets[d].owner <= uids
      /\ w[d].base.uid \in Nat /\ w[d].base.uid <= uids
      /\ \A a \in accounts : a.creator \in Nat /\ (a.cr = d => a.creator <= uids)
  BY <1>1, Numbers DEF StoreSafe, WorkerSafe, Bounded
<1>4. Bounded(d)'
  BY <1>1, <1>2, <1>3 DEF Bounded
<1>5. Recorded(d)' /\ Match(d)' /\ Guarded(d)'
  BY <1>1, <1>2, <1>3 DEF Recorded, Match, Intact, Guarded
<1>6. NotAhead(crCache[d], cr[d])' /\ NotAhead(w[d].base, cr[d])'
  BY <1>1, <1>2, <1>3 DEF NotAhead
<1>7. Placed(d, cr[d])'
  BY <1>1, <1>2, <1>3 DEF Placed
<1>8. Placed(d, crCache[d])' /\ Placed(d, w[d].base)'
  BY <1>1 DEF StoreSafe, WorkerSafe, Placed
<1>9. Working(d)' /\ w'[d].base.uid <= uids'
  BY <1>1, <1>2, <1>3 DEF WorkerSafe, Working, NotAhead
<1>10. Present(d)' /\ Behind(d)' /\ Made(d)'
  BY DEF Present, Behind, Made
<1>11. Emptied(d)'
  BY <1>1 DEF WorkerSafe, Emptied
<1> QED
  BY <1>4, <1>5, <1>6, <1>7, <1>8, <1>9, <1>10, <1>11 DEF StoreSafe, WorkerSafe

\* Events, crashes, users and the other controllers keep the invariant.
LEMMA RestSafe ==
  ASSUME Safe, TypeOK', Rest, NEW d \in CR
  PROVE  StoreSafe(d)' /\ WorkerSafe(d)'
<1>0. /\ TypeOK /\ StoreSafe(d) /\ WorkerSafe(d) /\ uids \in Nat
      /\ cr \in [CR -> CRObject] /\ crCache \in [CR -> CRObject]
      /\ secrets \in [CR -> SecretObject]
  BY DEF Safe, TypeInv, TypeOK
<1>1. CASE UNCHANGED <<cr, crCache, secrets, w, uids>> /\ accounts' \subseteq accounts
  BY <1>0, <1>1, Frame
<1>2. ASSUME NEW c \in CR, WatchCR(c) PROVE StoreSafe(d)' /\ WorkerSafe(d)'
  <2>1. UNCHANGED <<cr, secrets, accounts, uids, w>>
    BY <1>2 DEF WatchCR
  <2>2. crCache'[d] = crCache[d] \/ crCache'[d] = cr[d]
    BY <1>0, <1>2 DEF WatchCR
  <2>3. CASE crCache'[d] = crCache[d]
    BY <1>0, <2>1, <2>3, Frame
  <2>4. CASE crCache'[d] = cr[d]
    BY <2>1, <2>4, CacheSafe, WorkerFrame
  <2> QED BY <2>2, <2>3, <2>4
<1>3. CASE Crash
  <2>1. UNCHANGED <<cr, secrets, accounts, uids>> /\ crCache' = cr /\ w'[d] = Idle
    BY <1>3 DEF Crash
  <2> QED BY <2>1, CacheSafe, IdleSafe
<1>4. ASSUME NEW c \in CR, NEW r \in RegistryRefs, CreateCR(c, r)
      PROVE  StoreSafe(d)' /\ WorkerSafe(d)'
  <2>1. /\ UNCHANGED <<crCache, secrets, w, accounts>> /\ uids' = uids + 1 /\ uids <= uids'
    BY <1>0, <1>4 DEF CreateCR
  <2>2. CASE d # c
    BY <1>0, <1>4, <2>1, <2>2, Frame DEF CreateCR
  <2>3. CASE d = c
    <3>1. PICK n \in Nat : n = uids + 1
      BY <1>0
    <3>2. cr'[d].uid = n
      BY <1>0, <1>4, <2>3, <3>1 DEF CreateCR, NoCR
    <3>3. ~(w[d].pc \in {"createAccount", "writeSecret"})
      BY <1>0, <1>4, <2>3 DEF CreateCR, WorkerSafe, Working, Present
    <3>4. cr'[d].uid > uids /\ cr'[d].uid <= uids'
      BY <1>0, <2>1, <3>1, <3>2
    <3> QED BY <2>1, <3>3, <3>4, FreshSafe
  <2> QED BY <2>2, <2>3
<1>5. ASSUME NEW c \in CR, DeleteCR(c) PROVE StoreSafe(d)' /\ WorkerSafe(d)'
  <2>1. UNCHANGED <<crCache, secrets, w, accounts, uids>> /\ cr[c].uid # 0
    BY <1>5 DEF DeleteCR
  <2>2. CASE d # c
    BY <1>0, <1>5, <2>1, <2>2, Frame DEF DeleteCR
  <2>3. CASE d = c /\ cr[c].finalizer
    <3>1. cr'[d] = [cr[d] EXCEPT !.deleting = TRUE] /\ cr[d] \in CRObject
      BY <1>0, <1>5, <2>3 DEF DeleteCR
    <3>2. /\ cr'[d].uid = cr[d].uid /\ cr'[d].finalizer = cr[d].finalizer
          /\ cr'[d].rotation = cr[d].rotation
          /\ cr'[d].statusRegistry = cr[d].statusRegistry
      BY <3>1 DEF CRObject
    <3> QED BY <2>1, <2>3, <3>2, EditSafe
  <2>4. CASE d = c /\ ~cr[c].finalizer
    <3>1. cr'[d] = NoCR
      BY <1>0, <1>5, <2>4 DEF DeleteCR
    <3>2. cr'[d].uid = 0
      BY <3>1 DEF NoCR
    <3>3. ~(w[d].pc \in {"createAccount", "writeSecret"})
      BY <1>0, <2>4 DEF WorkerSafe, Present
    <3>4. uids <= uids'
      BY <1>0, <2>1
    <3> QED BY <2>1, <3>2, <3>3, <3>4, FreshSafe
  <2> QED BY <2>2, <2>3, <2>4
<1>6. ASSUME NEW c \in CR, NEW r \in RegistryRefs, SetRegistryRef(c, r)
      PROVE  StoreSafe(d)' /\ WorkerSafe(d)'
  <2>1. UNCHANGED <<crCache, secrets, w, accounts, uids>> /\ cr[c].uid # 0
    BY <1>6 DEF SetRegistryRef
  <2>2. CASE d # c
    BY <1>0, <1>6, <2>1, <2>2, Frame DEF SetRegistryRef
  <2>3. CASE d = c
    <3>1. /\ cr'[d] = [cr[d] EXCEPT !.registryRef = r,
                                   !.generation = cr[d].generation + 1]
          /\ cr[d] \in CRObject
      BY <1>0, <1>6, <2>3 DEF SetRegistryRef
    <3>2. PICK n : n = cr[d].generation + 1
      OBVIOUS
    <3>3. cr'[d] = [cr[d] EXCEPT !.registryRef = r, !.generation = n]
      BY <3>1, <3>2
    <3>4. /\ cr'[d].uid = cr[d].uid /\ cr'[d].finalizer = cr[d].finalizer
          /\ cr'[d].rotation = cr[d].rotation
          /\ cr'[d].statusRegistry = cr[d].statusRegistry
      BY <3>1, <3>3 DEF CRObject
    <3> QED BY <2>1, <2>3, <3>4, EditSafe
  <2> QED BY <2>2, <2>3
<1>7. ASSUME NEW c \in CR, EditSecret(c) \/ CollectGarbage(c)
      PROVE  StoreSafe(d)' /\ WorkerSafe(d)'
  <2>1. UNCHANGED <<cr, crCache, w, accounts, uids>>
    BY <1>7 DEF EditSecret, CollectGarbage
  <2>2. PICK t \in {NoSecret, [secrets[c] EXCEPT !.annotation = 0],
                   Tampered(secrets[c]), Cleared(secrets[c])} :
          secrets' = [secrets EXCEPT ![c] = t]
    BY <1>7 DEF EditSecret, CollectGarbage
  <2>3. CASE d # c
    BY <1>0, <2>1, <2>2, <2>3, Frame
  <2>4. CASE d = c
    <3>1. secrets'[d] = t /\ secrets[d] \in SecretObject
      BY <1>0, <2>2, <2>4
    <3>2. CASE t = NoSecret
      <4>1. secrets'[d].owner = 0
        BY <3>1, <3>2 DEF NoSecret
      <4> QED BY <2>1, <4>1, SecretSafe
    <3>3. CASE t = [secrets[c] EXCEPT !.annotation = 0]
      <4>1. /\ secrets'[d].owner = secrets[d].owner
            /\ secrets'[d].registry = secrets[d].registry
            /\ secrets'[d].rotation = secrets[d].rotation
            /\ secrets'[d].password = secrets[d].password
        BY <2>4, <3>1, <3>3 DEF SecretObject
      <4> QED BY <2>1, <4>1, SecretSafe
    <3>4. CASE t \in {Tampered(secrets[c]), Cleared(secrets[c])}
      <4>1. /\ secrets'[d].owner = secrets[d].owner
            /\ secrets'[d].rotation \in {0, secrets[d].rotation}
            /\ secrets'[d].password = 0
        BY <2>4, <3>1, <3>4 DEF SecretObject, Tampered, Cleared
      <4> QED BY <2>1, <4>1, SecretSafe
    <3> QED BY <2>2, <3>2, <3>3, <3>4
  <2> QED BY <2>3, <2>4
<1>8. ASSUME NEW a \in accounts, PassRotationInterval(a) \/ ExpireAccount(a)
      PROVE  StoreSafe(d)' /\ WorkerSafe(d)'
  BY <1>1, <1>8 DEF PassRotationInterval, ExpireAccount
<1>9. ASSUME NEW r \in Registry, ChangeRegistry(r) PROVE StoreSafe(d)' /\ WorkerSafe(d)'
  BY <1>1, <1>9 DEF ChangeRegistry
<1>10. CASE WatchAccounts
  BY <1>1, <1>10 DEF WatchAccounts
<1>11. ASSUME NEW c \in CR, WatchSecret(c) \/ RequeueAfter(c)
       PROVE  StoreSafe(d)' /\ WorkerSafe(d)'
  BY <1>1, <1>11 DEF WatchSecret, RequeueAfter
<1>12. CASE Environment
  BY <1>4, <1>5, <1>6, <1>7, <1>8, <1>9, <1>12 DEF Environment
<1> QED
  BY <1>2, <1>3, <1>10, <1>11, <1>12 DEF Rest

\* Each call of the API keeps the invariant.
LEMMA APICallSafe ==
  ASSUME Safe, TypeOK', NEW c \in CR, APICall(c), NEW d \in CR
  PROVE  StoreSafe(d)' /\ WorkerSafe(d)'
BY DeleteAccountsSafe, RemoveFinalizerSafe, AddFinalizerSafe, ReportSafe,
   DeleteOldAccountsSafe, UpdateRotationSafe, CreateAccountSafe, WriteSecretSafe
   DEF APICall

\* The invariant is inductive.
LEMMA SafeStep == Safe /\ [Next]_vars => Safe'
<1> SUFFICES ASSUME Safe, [Next]_vars PROVE Safe'
  OBVIOUS
<1>1. TypeInv' /\ TypeOK'
  BY TypeStep DEF Safe, TypeInv
<1>2. ASSUME NEW d \in CR PROVE StoreSafe(d)' /\ WorkerSafe(d)'
  <2>1. ASSUME NEW c \in CR, Reconcile(c) PROVE StoreSafe(d)' /\ WorkerSafe(d)'
    BY <1>1, <2>1, ReconcileSafe
  <2>2. ASSUME NEW c \in CR, APICall(c) PROVE StoreSafe(d)' /\ WorkerSafe(d)'
    BY <1>1, <2>2, APICallSafe
  <2>3. CASE Rest
    BY <1>1, <2>3, RestSafe
  <2>4. CASE UNCHANGED vars
    <3>1. uids <= uids'
      BY <2>4 DEF vars, Safe, TypeInv, TypeOK
    <3> QED BY <1>1, <2>4, <3>1, Frame DEF vars
  <2> QED BY <2>1, <2>2, <2>3, <2>4, NextCases
<1> QED BY <1>1, <1>2 DEF Safe

\* It holds initially: there are no CRs, only accounts made by hand.
LEMMA InitSafe == Init => Safe
<1> SUFFICES ASSUME Init PROVE Safe
  OBVIOUS
<1>1. TypeInv
  BY InitType DEF TypeInv, Init, RotationHasTarget, Rotating, Idle
<1>2. ASSUME NEW d \in CR PROVE StoreSafe(d) /\ WorkerSafe(d)
  <2>1. /\ cr[d] = NoCR /\ crCache[d] = NoCR /\ secrets[d] = NoSecret
        /\ w[d] = Idle /\ uids = 0
    BY DEF Init
  <2>2. /\ cr[d].uid = 0 /\ crCache[d].uid = 0 /\ secrets[d].owner = 0
        /\ w[d].pc = "idle" /\ w[d].base.uid = 0
    BY <2>1 DEF NoCR, NoSecret, Idle
  <2>3. \A a \in accounts : a.cr # d
    BY CRAssumption DEF Init, ManualAccount
  <2>4. StoreSafe(d)
    BY <2>1, <2>2, <2>3
       DEF StoreSafe, Bounded, Recorded, NotAhead, Match, Intact, Placed, Guarded
  <2>5. WorkerSafe(d)
    BY <2>1, <2>2, <2>3
       DEF WorkerSafe, NotAhead, Placed, Working, Present, Behind, Intact, Made, Emptied
  <2> QED BY <2>4, <2>5
<1> QED BY <1>1, <1>2 DEF Safe

\* A Secret owned by the present CR never has a wrong password for the
\* account it names.
THEOREM CredentialsCorrect == Spec => []CredentialsMatch
<1>1. Safe => CredentialsMatch
  BY DEF Safe, StoreSafe, Match, CredentialsMatch
<1> QED BY <1>1, InitSafe, SafeStep, PTL DEF Spec

\* No account has a rotation that the status of its CR does not record.
THEOREM RotationFirst == Spec => []RotationRecordedFirst
<1>1. Safe => RotationRecordedFirst
  BY DEF Safe, StoreSafe, Recorded, RotationRecordedFirst
<1> QED BY <1>1, InitSafe, SafeStep, PTL DEF Spec

\* A step that makes a CR disappear leaves none of the accounts that the
\* finalizer is responsible for.
LEMMA FinalizedStep ==
  ASSUME Safe, [Next]_vars, NEW c \in CR, cr[c].uid # 0, cr'[c].uid = 0,
         NEW a \in accounts, a.cr = c, a.creator = cr[c].uid
  PROVE  a.rotation # cr[c].rotation /\ a.registry # cr[c].statusRegistry
<1>0. TypeOK /\ cr \in [CR -> CRObject] /\ StoreSafe(c)
  BY DEF Safe, TypeInv, TypeOK
<1>1. cr # cr'
  OBVIOUS
<1>2. ASSUME NEW d \in CR, DeleteCR(d)
      PROVE  a.rotation # cr[c].rotation /\ a.registry # cr[c].statusRegistry
  <2>1. c = d /\ ~cr[c].finalizer
    <3>1. c = d
      BY <1>0, <1>2 DEF DeleteCR
    <3>2. [cr[c] EXCEPT !.deleting = TRUE].uid = cr[c].uid
      BY <1>0 DEF CRObject
    <3> QED BY <1>0, <1>2, <3>1, <3>2 DEF DeleteCR
  <2> QED BY <1>0, <2>1 DEF StoreSafe, Guarded
<1>3. ASSUME NEW d \in CR, w[d].pc # "idle", NEW f, NEW o, UpdateCR(d, f, o),
             f.uid = w[d].base.uid
      PROVE  FALSE
  <2>1. w[d].base.uid # 0
    BY <1>3, BaseFacts
  <2> QED BY <1>0, <1>3, <2>1 DEF UpdateCR
<1>4. ASSUME NEW d \in CR, APICall(d)
      PROVE  a.rotation # cr[c].rotation /\ a.registry # cr[c].statusRegistry
  <2>0. /\ w[d] \in Worker /\ w[d].instance \in CRObject
    BY <1>0 DEF TypeOK, Worker
  <2>1. CASE RemoveFinalizer(d)
    <3>1. c = d /\ cr[d] = w[d].base /\ w[d].pc = "removeFinalizer"
      BY <1>0, <2>1 DEF RemoveFinalizer, UpdateCR, Respond, Applied
    <3> QED BY <3>1 DEF Safe, WorkerSafe, Emptied
  <2>2. CASE AddFinalizer(d)
    <3>1. PICK o \in Outcome : UpdateCR(d, [w[d].instance EXCEPT !.finalizer = TRUE], o)
      BY <2>2 DEF AddFinalizer
    <3>2. [w[d].instance EXCEPT !.finalizer = TRUE].uid = w[d].base.uid /\ w[d].pc # "idle"
      BY <2>0, <2>2, BaseFacts DEF AddFinalizer, CRObject
    <3> QED BY <1>3, <3>1, <3>2
  <2>3. CASE ReportUnsynced(d)
    <3> DEFINE f == [w[d].instance EXCEPT !.synced = w[d].cond,
                       !.observedGeneration = w[d].instance.generation]
    <3>1. PICK o \in Outcome : UpdateCR(d, f, o)
      BY <1>1, <2>3 DEF ReportUnsynced, setUnsynced
    <3>2. f.uid = w[d].base.uid /\ w[d].pc # "idle"
      BY <2>0, <2>3, BaseFacts DEF ReportUnsynced, CRObject
    <3> HIDE DEF f
    <3> QED BY <1>3, <3>1, <3>2
  <2>4. CASE Report(d)
    <3> DEFINE f == [w[d].instance EXCEPT !.ready = w[d].cond,
                       !.observedGeneration = w[d].instance.generation]
    <3>1. PICK o \in Outcome : UpdateCR(d, f, o)
      BY <1>1, <2>4 DEF Report, setReady
    <3>2. f.uid = w[d].base.uid /\ w[d].pc # "idle"
      BY <2>0, <2>4, BaseFacts DEF Report, CRObject
    <3> HIDE DEF f
    <3> QED BY <1>3, <3>1, <3>2
  <2>5. CASE UpdateRotation(d)
    <3> DEFINE f == Rotated(w[d].instance, w[d].registry)
    <3>1. PICK o \in Outcome : UpdateCR(d, f, o)
      BY <2>5 DEF UpdateRotation
    <3>2. f.uid = w[d].base.uid /\ w[d].pc # "idle"
      BY <2>0, <2>5, BaseFacts DEF UpdateRotation, Rotated, CRObject
    <3> HIDE DEF f
    <3> QED BY <1>3, <3>1, <3>2
  <2> QED BY <1>1, <1>4, <2>1, <2>2, <2>3, <2>4, <2>5
          DEF APICall, DeleteAccounts, DeleteOldAccounts, CreateAccount, WriteSecret
<1>5. ASSUME NEW d \in CR, Reconcile(d) PROVE FALSE
  BY <1>1, <1>5 DEF Reconcile, ReconcileNotFound, ReconcileDeleted, ReconcileNew,
     ReconcileUnavailable, ReconcileInSync, ReconcileRotate, ReconcileBcryptFails,
     Compare, Dequeue
<1>6. ASSUME NEW d \in CR, NEW r \in RegistryRefs, CreateCR(d, r) PROVE FALSE
  <2>1. CASE c = d
    BY <1>6, <2>1 DEF CreateCR
  <2>2. CASE c # d
    BY <1>0, <1>6, <2>2 DEF CreateCR
  <2> QED BY <2>1, <2>2
<1>7. ASSUME NEW d \in CR, NEW r \in RegistryRefs, SetRegistryRef(d, r) PROVE FALSE
  <2>1. PICK n : n = cr[d].generation + 1
    OBVIOUS
  <2>2. cr' = [cr EXCEPT ![d] = [cr[d] EXCEPT !.registryRef = r, !.generation = n]]
    BY <1>7, <2>1 DEF SetRegistryRef
  <2>3. cr[d] \in CRObject
    BY <1>0
  <2>4. [cr[d] EXCEPT !.registryRef = r, !.generation = n].uid = cr[d].uid
    BY <2>3 DEF CRObject
  <2> QED BY <1>0, <2>2, <2>4
<1>8. CASE Rest
  BY <1>1, <1>2, <1>6, <1>7, <1>8
     DEF Rest, Environment, WatchCR, WatchSecret, RequeueAfter, WatchAccounts, Crash,
         EditSecret, CollectGarbage, PassRotationInterval, ExpireAccount, ChangeRegistry
<1> QED BY <1>1, <1>4, <1>5, <1>8, NextCases DEF vars

\* A CR vanishes only when its finalizer has found its accounts.
THEOREM FinalizedClean == Spec => FinalizedWithoutAccounts
<1> DEFINE P == \A c \in CR : cr[c].uid # 0 /\ cr'[c].uid = 0 =>
                  ~\E a \in accounts : /\ a.cr = c /\ a.creator = cr[c].uid
                                       /\ \/ a.rotation = cr[c].rotation
                                          \/ a.registry = cr[c].statusRegistry
<1>1. Safe /\ [Next]_vars => [P]_vars
  BY FinalizedStep
<1> QED BY <1>1, InitSafe, SafeStep, PTL DEF Spec, FinalizedWithoutAccounts

-----------------------------------------------------------------------------
(* An operator at rest.  Whatever happens to a CR, its account or Secret   *)
(* after Reconcile has read them enqueues a request, but for the accounts  *)
(* of CRs with a dot in their names; what a Reconcile that returns without *)
(* error or delay has changed itself does, too, since it has changed the   *)
(* CR.                                                                     *)

\* The cache shows a version of the CR that has been rotated since.
Outdated(c) ==
  cr[c].uid # 0 /\ crCache[c].uid = cr[c].uid => crCache[c].rotation < cr[c].rotation

\* The cached version is not ahead of the stored one; the annotation of an
\* intact Secret is about the account it names; Reconcile leaves the spec alone,
\* and the Ready condition until the end.
Versions(c) ==
  /\ cr[c].uid # 0 /\ crCache[c].uid = cr[c].uid => crCache[c].generation <= cr[c].generation
  /\ Intact(c) => secrets[c].annotation \in {0, secrets[c].rotation}
  /\ w[c].pc # "idle" => /\ w[c].instance.generation = w[c].base.generation
                         /\ w[c].instance.ready = w[c].base.ready
  /\ w[c].pc = "addFinalizer" => ~w[c].base.finalizer /\ w[c].instance = w[c].base

\* A Reconcile whose CR has no new request works on what the cache still shows,
\* or has rotated the CR.
Current(c) ==
  w[c].pc # "idle" /\ c \notin queue =>
    /\ w[c].base = crCache[c] \/ Outdated(c)
    /\ w[c].pc \in {"createAccount", "writeSecret"} => Outdated(c)
    /\ w[c].pc = "report" /\ w[c].cond = "True" => Outdated(c) \/ w[c].instance = w[c].base

Informed == Safe /\ \A c \in CR : Versions(c) /\ Current(c)

\* What the caches show of c has not changed, except for accounts whose labels
\* do not lead to c.
SeenSame(c) ==
  /\ crCache'[c] = crCache[c] /\ secretCache'[c] = secretCache[c]
  /\ c \notin Dotted => \A a : a.cr = c => (a \in accountCache' <=> a \in accountCache)

\* A step of something else than a Reconcile of c.
Apart(c) ==
  /\ w'[c] = w[c] /\ crCache'[c] \in {crCache[c], cr'[c]}
  /\ c \in queue' \/ (c \notin queue /\ SeenSame(c))
  /\ \/ cr'[c] = cr[c] \/ DeleteCR(c)
     \/ \E r \in RegistryRefs : CreateCR(c, r) \/ SetRegistryRef(c, r)
  /\ \/ secrets'[c] = secrets[c] \/ secrets'[c] = NoSecret
     \/ secrets'[c] = [secrets[c] EXCEPT !.annotation = 0]
     \/ secrets'[c] \in {Tampered(secrets[c]), Cleared(secrets[c])}

\* The steps, as one CR sees them.
LEMMA StepsOf ==
  ASSUME Safe, [Next]_vars, NEW c \in CR
  PROVE  Reconcile(c) \/ APICall(c) \/ Crash \/ Apart(c)
<1>0. /\ cr \in [CR -> CRObject] /\ crCache \in [CR -> CRObject] /\ w \in [CR -> Worker]
      /\ secrets \in [CR -> SecretObject] /\ secretCache \in [CR -> SecretObject]
      /\ accounts \subseteq Account /\ accountCache \subseteq Account
      /\ uids \in Nat /\ queue \subseteq CR
  BY DEF Safe, TypeInv, TypeOK
<1> DEFINE Quiet == /\ UNCHANGED <<cr[c], crCache[c], secretCache[c], accountCache, secrets[c], w[c]>>
                    /\ c \in queue => c \in queue'
<1>quiet. ASSUME Quiet PROVE Apart(c)
  BY <1>0, <1>quiet DEF Apart, SeenSame
<1>1. ASSUME NEW d \in CR, d # c, Reconcile(d) PROVE Apart(c)
  <2>1. /\ UNCHANGED <<cr, crCache, secretCache, accountCache, secrets>>
        /\ queue' = queue \ {d}
    BY <1>1 DEF Reconcile, ReconcileNotFound, ReconcileDeleted, ReconcileNew,
       ReconcileUnavailable, ReconcileInSync, ReconcileRotate, ReconcileBcryptFails,
       Compare, Dequeue, cacheVars, worldVars
  <2>2. w'[c] = w[c]
    BY <1>0, <1>1 DEF Reconcile, ReconcileNotFound, ReconcileDeleted, ReconcileNew, Load,
       ReconcileUnavailable, ReconcileInSync, ReconcileRotate, ReconcileBcryptFails, Compare
  <2> QED BY <1>1, <1>quiet, <2>1, <2>2
<1>2. ASSUME NEW d \in CR, d # c, APICall(d) PROVE Apart(c)
  <2>1. UNCHANGED <<crCache, secretCache, accountCache>>
    BY <1>2 DEF APICall, DeleteAccounts, RemoveFinalizer, AddFinalizer, ReportUnsynced,
       DeleteOldAccounts, UpdateRotation, CreateAccount, WriteSecret, Report,
       cacheVars, worldVars
  <2>2. w'[c] = w[c] /\ (c \in queue => c \in queue')
    BY <1>0, <1>2 DEF APICall, DeleteAccounts, RemoveFinalizer, AddFinalizer, ReportUnsynced,
       DeleteOldAccounts, UpdateRotation, CreateAccount, WriteSecret, Report,
       Goto, GotoReport, Return
  <2>3. cr'[c] = cr[c] /\ secrets'[c] = secrets[c]
    BY <1>0, <1>2 DEF APICall, DeleteAccounts, RemoveFinalizer, AddFinalizer, ReportUnsynced,
       DeleteOldAccounts, UpdateRotation, CreateAccount, WriteSecret, Report,
       setReady, setUnsynced, UpdateCR
  <2> QED BY <1>quiet, <2>1, <2>2, <2>3
<1>3. CASE Rest
  <2>1. ASSUME NEW d \in CR, WatchCR(d) PROVE Apart(c)
    BY <1>0, <2>1 DEF WatchCR, Apart, SeenSame, worldVars
  <2>2. ASSUME NEW d \in CR, WatchSecret(d) PROVE Apart(c)
    BY <1>0, <2>2 DEF WatchSecret, Apart, SeenSame, worldVars
  <2>3. ASSUME NEW d \in CR, RequeueAfter(d) PROVE Apart(c)
    BY <1>quiet, <2>3 DEF RequeueAfter, cacheVars, worldVars
  <2>4. ASSUME WatchAccounts PROVE Apart(c)
    <3>1. /\ UNCHANGED <<cr, crCache, secretCache, secrets, w>>
          /\ accountCache' = accounts
          /\ queue' = queue \cup RequestsFor((accounts \ accountCache) \cup
                                              (accountCache \ accounts))
      BY <2>4 DEF WatchAccounts, worldVars
    <3>2. c \notin queue' /\ c \notin Dotted
            => \A a : a.cr = c => (a \in accountCache' <=> a \in accountCache)
      BY <3>1 DEF RequestsFor
    <3> QED BY <1>0, <3>1, <3>2 DEF Apart, SeenSame
  <2>5. ASSUME NEW d \in CR, NEW r \in RegistryRefs, CreateCR(d, r) \/ SetRegistryRef(d, r)
        PROVE  Apart(c)
    <3>1. UNCHANGED <<crCache, secretCache, accountCache, secrets, w, queue>>
      BY <1>0, <2>5 DEF CreateCR, SetRegistryRef, cacheVars, operatorVars
    <3>2. d # c => cr'[c] = cr[c]
      BY <1>0, <2>5 DEF CreateCR, SetRegistryRef
    <3> QED BY <2>5, <3>1, <3>2 DEF Apart, SeenSame
  <2>6. ASSUME NEW d \in CR, DeleteCR(d) PROVE Apart(c)
    <3>1. UNCHANGED <<crCache, secretCache, accountCache, secrets, w, queue>>
      BY <2>6 DEF DeleteCR, cacheVars, operatorVars
    <3>2. d # c => cr'[c] = cr[c]
      BY <1>0, <2>6 DEF DeleteCR
    <3> QED BY <1>0, <2>6, <3>1, <3>2 DEF Apart, SeenSame
  <2>7. ASSUME NEW d \in CR, EditSecret(d) \/ CollectGarbage(d) PROVE Apart(c)
    <3>1. UNCHANGED <<cr, crCache, secretCache, accountCache, w, queue>>
      BY <2>7 DEF EditSecret, CollectGarbage, cacheVars, operatorVars, worldVars
    <3>2. \/ secrets'[c] = secrets[c] \/ secrets'[c] = NoSecret
          \/ secrets'[c] = [secrets[c] EXCEPT !.annotation = 0]
          \/ secrets'[c] \in {Tampered(secrets[c]), Cleared(secrets[c])}
      BY <1>0, <2>7 DEF EditSecret, CollectGarbage
    <3> QED BY <1>0, <3>1, <3>2 DEF Apart, SeenSame
  <2>8. ASSUME NEW a \in accounts, PassRotationInterval(a) \/ ExpireAccount(a) PROVE Apart(c)
    BY <1>quiet, <2>8 DEF PassRotationInterval, ExpireAccount, cacheVars, operatorVars, worldVars
  <2>9. ASSUME NEW r \in Registry, ChangeRegistry(r) PROVE Apart(c)
    BY <1>quiet, <2>9 DEF ChangeRegistry, cacheVars, operatorVars
  <2> QED BY <1>3, <2>1, <2>2, <2>3, <2>4, <2>5, <2>6, <2>7, <2>8, <2>9 DEF Rest, Environment
<1>4. CASE UNCHANGED vars
  BY <1>quiet, <1>4 DEF vars
<1> QED BY <1>1, <1>2, <1>3, <1>4, NextCases

\* y is a version of what x is one of, the same or a later one.
Later(x, y) ==
  x.uid # 0 /\ x.uid = y.uid => x.rotation <= y.rotation /\ x.generation <= y.generation

\* What Reconcile writes over the version it has read.
LEMMA WrittenLater ==
  ASSUME Safe, NEW c \in CR, w[c].pc # "idle", Versions(c), NEW object, NEW o,
         UpdateCR(c, object, o),
         \/ object.uid = 0
         \/ object.uid = w[c].base.uid /\ object.generation = w[c].base.generation
            /\ object.rotation \in Nat /\ w[c].base.rotation <= object.rotation
  PROVE  Later(cr[c], cr'[c]) /\ cr'[c].uid \in {0, cr[c].uid}
<1>1. cr \in [CR -> CRObject] /\ cr[c] \in CRObject
  BY DEF Safe, TypeInv, TypeOK
<1>2. CASE cr' = cr
  BY <1>1, <1>2 DEF Later, CRObject
<1>3. CASE cr'[c] = object /\ cr[c] = w[c].base
  BY <1>1, <1>3 DEF Later, CRObject
<1> QED BY <1>1, <1>2, <1>3 DEF UpdateCR, Respond, Applied

\* What Reconcile writes: the version it has with another status or finalizer,
\* or nothing.
LEMMA Writes ==
  ASSUME Safe, NEW c \in CR, Versions(c), APICall(c)
  PROVE  Later(cr[c], cr'[c]) /\ cr'[c].uid \in {0, cr[c].uid}
<1> DEFINE x == w[c]
           i == w[c].instance
<1>pc. x.pc # "idle"
  BY DEF APICall, DeleteAccounts, RemoveFinalizer, AddFinalizer, ReportUnsynced,
     DeleteOldAccounts, UpdateRotation, CreateAccount, WriteSecret, Report
<1>1. /\ cr \in [CR -> CRObject] /\ cr[c] \in CRObject /\ i \in CRObject /\ x.base \in CRObject
      /\ x \in Worker
  BY DEF Safe, TypeInv, TypeOK, Worker
<1>2. /\ i.uid = x.base.uid /\ i.uid # 0 /\ i.rotation \in Nat /\ x.base.rotation \in Nat
      /\ x.base.rotation <= i.rotation /\ i.generation = x.base.generation
  BY <1>pc, <1>1, BaseFacts DEF NotAhead, CRObject, Versions
<1>same. ASSUME UNCHANGED cr PROVE Later(cr[c], cr'[c]) /\ cr'[c].uid \in {0, cr[c].uid}
  BY <1>1, <1>same DEF Later, CRObject
<1>write. ASSUME NEW f, NEW o, UpdateCR(c, f, o), f.uid = i.uid, f.generation = i.generation,
                 f.rotation \in {i.rotation, i.rotation + 1}
          PROVE  Later(cr[c], cr'[c]) /\ cr'[c].uid \in {0, cr[c].uid}
  <2>1. f.rotation \in Nat /\ x.base.rotation <= f.rotation
    BY <1>2, <1>write
  <2> QED BY <1>pc, <1>2, <1>write, <2>1, WrittenLater
<1>3. CASE RemoveFinalizer(c)
  <2>1. PICK o \in Outcome : UpdateCR(c, NoCR, o)
    BY <1>3 DEF RemoveFinalizer
  <2>2. NoCR.uid = 0
    BY DEF NoCR
  <2> QED BY <1>pc, <2>1, <2>2, WrittenLater
<1>4. CASE AddFinalizer(c)
  <2> DEFINE f == [i EXCEPT !.finalizer = TRUE]
  <2>1. PICK o \in Outcome : UpdateCR(c, f, o)
    BY <1>4 DEF AddFinalizer
  <2>2. f.uid = i.uid /\ f.generation = i.generation /\ f.rotation = i.rotation
    BY <1>1 DEF CRObject
  <2> QED BY <1>write, <2>1, <2>2
<1>5. CASE ReportUnsynced(c)
  <2> DEFINE f == [i EXCEPT !.synced = x.cond, !.observedGeneration = i.generation]
  <2>1. UNCHANGED cr \/ \E o : UpdateCR(c, f, o)
    BY <1>5 DEF ReportUnsynced, setUnsynced
  <2>2. f.uid = i.uid /\ f.generation = i.generation /\ f.rotation = i.rotation
    BY <1>1 DEF CRObject
  <2> QED BY <1>same, <1>write, <2>1, <2>2
<1>6. CASE Report(c)
  <2> DEFINE f == [i EXCEPT !.ready = x.cond, !.observedGeneration = i.generation]
  <2>1. UNCHANGED cr \/ \E o : UpdateCR(c, f, o)
    BY <1>6 DEF Report, setReady
  <2>2. f.uid = i.uid /\ f.generation = i.generation /\ f.rotation = i.rotation
    BY <1>1 DEF CRObject
  <2> QED BY <1>same, <1>write, <2>1, <2>2
<1>7. CASE UpdateRotation(c)
  <2> DEFINE f == Rotated(i, x.registry)
  <2>1. PICK o \in Outcome : UpdateCR(c, f, o)
    BY <1>7 DEF UpdateRotation
  <2>2. f.uid = i.uid /\ f.generation = i.generation /\ f.rotation = i.rotation + 1
    BY <1>1 DEF CRObject, Rotated
  <2> QED BY <1>write, <2>1, <2>2
<1>8. CASE DeleteAccounts(c) \/ DeleteOldAccounts(c) \/ CreateAccount(c) \/ WriteSecret(c)
  BY <1>same, <1>8 DEF DeleteAccounts, DeleteOldAccounts, CreateAccount, WriteSecret
<1> QED BY <1>3, <1>4, <1>5, <1>6, <1>7, <1>8 DEF APICall

\* Versions of a CR follow each other, and UIDs are not used again.
LEMMA Progress ==
  ASSUME Informed, [Next]_vars, NEW c \in CR
  PROVE  Later(cr[c], cr'[c]) /\ (cr'[c].uid \in {0, cr[c].uid} \/ cr'[c].uid > uids)
<1>0. /\ Safe /\ Versions(c) /\ uids \in Nat
      /\ cr \in [CR -> CRObject] /\ cr[c] \in CRObject
      /\ cr[c].uid \in Nat /\ cr[c].uid <= uids
  BY DEF Informed, Safe, TypeInv, TypeOK, StoreSafe, Bounded, CRObject
<1>1. CASE cr'[c] = cr[c]
  BY <1>0, <1>1 DEF Later, CRObject
<1>2. CASE Reconcile(c) \/ Crash
  BY <1>1, <1>2 DEF Crash, Reconcile, ReconcileNotFound, ReconcileDeleted, ReconcileNew,
     ReconcileUnavailable, ReconcileInSync, ReconcileRotate, ReconcileBcryptFails,
     Compare, Dequeue
<1>3. CASE APICall(c)
  BY <1>0, <1>3, Writes
<1>4. CASE DeleteCR(c)
  <2>1. cr'[c] \in {[cr[c] EXCEPT !.deleting = TRUE], NoCR}
    BY <1>0, <1>4 DEF DeleteCR
  <2>2. CASE cr'[c] = NoCR
    BY <1>0, <2>2 DEF NoCR, Later
  <2>3. CASE cr'[c] = [cr[c] EXCEPT !.deleting = TRUE]
    <3>1. /\ cr'[c].uid = cr[c].uid /\ cr'[c].rotation = cr[c].rotation
          /\ cr'[c].generation = cr[c].generation
      BY <1>0, <2>3 DEF CRObject
    <3> QED BY <1>0, <3>1 DEF Later, CRObject
  <2> QED BY <2>1, <2>2, <2>3
<1>5. ASSUME NEW r \in RegistryRefs, CreateCR(c, r)
      PROVE  Later(cr[c], cr'[c]) /\ cr'[c].uid > uids
  <2>1. PICK n \in Nat : n = uids + 1
    BY <1>0
  <2>2. cr[c].uid = 0 /\ cr'[c].uid = n
    BY <1>0, <1>5, <2>1 DEF CreateCR, NoCR
  <2> QED BY <1>0, <2>1, <2>2 DEF Later
<1>6. ASSUME NEW r \in RegistryRefs, SetRegistryRef(c, r)
      PROVE  Later(cr[c], cr'[c]) /\ cr'[c].uid = cr[c].uid
  <2>1. PICK n \in Nat : n = cr[c].generation + 1
    BY <1>0 DEF CRObject
  <2>2. cr'[c] = [cr[c] EXCEPT !.registryRef = r, !.generation = n]
    BY <1>0, <1>6, <2>1 DEF SetRegistryRef
  <2> QED BY <1>0, <2>1, <2>2 DEF Later, CRObject
<1> QED BY <1>0, <1>1, <1>2, <1>3, <1>4, <1>5, <1>6, StepsOf DEF Apart

\* A cached version that is outdated remains so until the cache catches up.
LEMMA OutdatedStays ==
  ASSUME Informed, TypeOK', [Next]_vars, NEW c \in CR, crCache'[c] = crCache[c]
  PROVE  /\ Outdated(c) => Outdated(c)'
         /\ cr'[c].uid # 0 /\ crCache'[c].uid = cr'[c].uid => crCache'[c].generation <= cr'[c].generation
<1>0. /\ Versions(c) /\ uids \in Nat /\ crCache[c].uid <= uids
      /\ cr[c] \in CRObject /\ crCache[c] \in CRObject /\ cr'[c] \in CRObject
  BY DEF Informed, Safe, TypeInv, TypeOK, StoreSafe, Bounded
<1>1. Later(cr[c], cr'[c]) /\ (cr'[c].uid \in {0, cr[c].uid} \/ cr'[c].uid > uids)
  BY Progress
<1>2. ASSUME cr'[c].uid # 0, crCache[c].uid = cr'[c].uid
      PROVE  cr[c].uid = cr'[c].uid
  BY <1>0, <1>1, <1>2 DEF CRObject
<1> QED BY <1>0, <1>1, <1>2 DEF Outdated, Versions, Later, CRObject

\* Reconcile's calls.
LEMMA APICallInformed ==
  ASSUME Informed, TypeOK', [Next]_vars, NEW c \in CR, APICall(c)
  PROVE  Versions(c)' /\ Current(c)'
<1> DEFINE x == w[c]
           z == w'[c]
<1>pc. x.pc # "idle"
  BY DEF APICall, DeleteAccounts, RemoveFinalizer, AddFinalizer, ReportUnsynced,
     DeleteOldAccounts, UpdateRotation, CreateAccount, WriteSecret, Report
<1>0. /\ w \in [CR -> Worker] /\ x \in Worker /\ x.base \in CRObject /\ x.instance \in CRObject
      /\ secrets \in [CR -> SecretObject] /\ cr \in [CR -> CRObject]
      /\ Safe /\ TypeOK' /\ Versions(c) /\ Current(c)
  BY DEF Informed, Safe, TypeInv, TypeOK, Worker
<1>1. UNCHANGED <<crCache, secretCache, accountCache>>
  BY DEF APICall, DeleteAccounts, RemoveFinalizer, AddFinalizer, ReportUnsynced,
     DeleteOldAccounts, UpdateRotation, CreateAccount, WriteSecret, Report, cacheVars
<1>2. /\ Outdated(c) => Outdated(c)'
      /\ cr'[c].uid # 0 /\ crCache'[c].uid = cr'[c].uid => crCache'[c].generation <= cr'[c].generation
  BY <1>0, <1>1, OutdatedStays
<1>3. c \notin queue' => c \notin queue
  BY DEF APICall, DeleteAccounts, RemoveFinalizer, AddFinalizer, ReportUnsynced,
     DeleteOldAccounts, UpdateRotation, CreateAccount, WriteSecret, Report, Return
<1>4. Intact(c)' => secrets'[c].annotation \in {0, secrets'[c].rotation}
  <2>1. secrets'[c] = secrets[c] \/ secrets'[c] = NewSecret(c)
    BY <1>0 DEF APICall, DeleteAccounts, RemoveFinalizer, AddFinalizer, ReportUnsynced,
       DeleteOldAccounts, UpdateRotation, CreateAccount, WriteSecret, Report
  <2> QED BY <1>0, <2>1 DEF Versions, NewSecret, Intact
\* Reconcile returns.
<1>idle. ASSUME z = Idle PROVE Versions(c)' /\ Current(c)'
  BY <1>2, <1>4, <1>idle DEF Idle, Versions, Current
\* Reconcile goes on with the same version of the CR.
<1>goes. ASSUME z.base = x.base, z.pc # "addFinalizer",
                z.instance.generation = x.instance.generation, z.instance.ready = x.instance.ready,
                z.pc = "writeSecret" \/ (z.pc = "report" /\ z.cond = "True")
                  => x.pc \in {"createAccount", "writeSecret"},
                z.pc # "createAccount"
         PROVE  Versions(c)' /\ Current(c)'
  <2>1. Versions(c)'
    BY <1>pc, <1>0, <1>2, <1>4, <1>goes DEF Versions
  <2>2. ASSUME c \notin queue'
        PROVE  /\ z.base = crCache'[c] \/ Outdated(c)'
               /\ x.pc \in {"createAccount", "writeSecret"} => Outdated(c)'
    BY <1>pc, <1>0, <1>1, <1>2, <1>3, <1>goes, <2>2 DEF Current
  <2> QED BY <1>goes, <2>1, <2>2 DEF Current
<1>5. CASE DeleteAccounts(c)
  <2>1. z = Idle \/ z = [x EXCEPT !.pc = "removeFinalizer"]
    BY <1>0, <1>5 DEF DeleteAccounts, Goto, Return
  <2>2. CASE z = [x EXCEPT !.pc = "removeFinalizer"]
    <3>1. z.base = x.base /\ z.instance = x.instance /\ z.pc = "removeFinalizer"
      BY <1>0, <2>2 DEF Worker
    <3> QED BY <1>goes, <3>1
  <2> QED BY <1>idle, <2>1, <2>2
<1>6. CASE AddFinalizer(c)
  <2>1. z = Idle \/ \E cond : z = [x EXCEPT !.pc = "reportUnsynced", !.cond = cond]
    BY <1>0, <1>6 DEF AddFinalizer, Return
  <2>2. ASSUME NEW cond, z = [x EXCEPT !.pc = "reportUnsynced", !.cond = cond]
        PROVE  Versions(c)' /\ Current(c)'
    <3>1. z.base = x.base /\ z.instance = x.instance /\ z.pc = "reportUnsynced"
      BY <1>0, <2>2 DEF Worker
    <3> QED BY <1>goes, <3>1
  <2> QED BY <1>idle, <2>1, <2>2
<1>7. CASE RemoveFinalizer(c) \/ ReportUnsynced(c) \/ Report(c)
  <2>1. z = Idle
    BY <1>0, <1>7 DEF RemoveFinalizer, ReportUnsynced, Report, Return
  <2> QED BY <1>idle, <2>1
<1>8. CASE DeleteOldAccounts(c)
  <2>1. z = [x EXCEPT !.pc = "updateRotation"]
    BY <1>0, <1>8 DEF DeleteOldAccounts, Goto
  <2>2. z.base = x.base /\ z.instance = x.instance /\ z.pc = "updateRotation"
    BY <1>0, <2>1 DEF Worker
  <2> QED BY <1>goes, <2>2
<1>9. CASE UpdateRotation(c)
  <2> DEFINE i == Rotated(x.instance, x.registry)
  <2>1. PICK o \in Outcome :
          /\ UpdateCR(c, i, o)
          /\ z = IF RotationStored(o)
                 THEN [x EXCEPT !.pc = "createAccount", !.base = i, !.instance = i]
                 ELSE [x EXCEPT !.pc = "report", !.instance = i, !.requeueAfter = FALSE,
                                !.cond = ErrorCond(o, "conflict")]
    BY <1>0, <1>9 DEF UpdateRotation
  <2>2. /\ i.generation = x.instance.generation /\ i.ready = x.instance.ready
        /\ i.uid = x.instance.uid /\ i.rotation = x.instance.rotation + 1
    BY <1>0 DEF Rotated, CRObject
  <2>3. x.instance = x.base
    BY <1>0, <1>9 DEF UpdateRotation, Safe, WorkerSafe, Working
  <2> HIDE DEF i
  <2>4. CASE ~RotationStored(o)
    <3>1. z.base = x.base /\ z.instance = i /\ z.pc = "report" /\ z.cond # "True"
      BY <1>0, <2>1, <2>4 DEF Worker, ErrorCond
    <3> QED BY <1>goes, <2>2, <3>1
  <2>5. CASE RotationStored(o)
    <3>1. z.base = i /\ z.instance = i /\ z.pc = "createAccount"
      BY <1>0, <2>1, <2>5 DEF Worker
    <3>2. cr'[c] = i /\ cr[c] = x.base
      BY <1>0, <2>1, <2>5 DEF UpdateCR, Respond, Applied, RotationStored
    <3>3. c \notin queue' => Outdated(c)'
      <4>1. c \notin queue' => x.base = crCache[c] \/ Outdated(c)
        BY <1>pc, <1>0, <1>3 DEF Current
      <4>2. x.base = crCache[c] => Outdated(c)'
        <5>1. ASSUME x.base = crCache[c] PROVE crCache'[c].rotation < cr'[c].rotation
          <6>1. x.base.rotation \in Nat /\ cr'[c].rotation = x.base.rotation + 1
            BY <1>0, <2>2, <2>3, <3>2 DEF CRObject
          <6> QED BY <1>1, <5>1, <6>1
        <5> QED BY <5>1 DEF Outdated
      <4> QED BY <1>2, <4>1, <4>2
    <3> QED BY <1>2, <1>4, <3>1, <3>3 DEF Versions, Current
  <2> QED BY <2>4, <2>5
<1>10. CASE CreateAccount(c)
  <2>1. PICK o \in Outcome :
          z = IF AccountCreated(o)
              THEN [x EXCEPT !.pc = "writeSecret", !.password = passwords + 1]
              ELSE [x EXCEPT !.pc = "report", !.requeueAfter = FALSE,
                             !.cond = ErrorCond(o, "accountExists")]
    BY <1>0, <1>10 DEF CreateAccount
  <2>2. /\ z.base = x.base /\ z.instance = x.instance
        /\ z.pc = "writeSecret" \/ (z.pc = "report" /\ z.cond # "True")
    BY <1>0, <2>1 DEF Worker, ErrorCond
  <2> QED BY <1>goes, <1>10, <2>2 DEF CreateAccount
<1>11. CASE WriteSecret(c)
  <2>1. \E cond, after : GotoReport(c, cond, after)
    BY <1>11 DEF WriteSecret
  <2>2. z.base = x.base /\ z.instance = x.instance /\ z.pc = "report"
    BY <1>0, <2>1 DEF GotoReport, Worker
  <2> QED BY <1>goes, <1>11, <2>2 DEF WriteSecret
<1> QED BY <1>5, <1>6, <1>7, <1>8, <1>9, <1>10, <1>11 DEF APICall

\* Reconcile up to its first call.
LEMMA ReconcileInformed ==
  ASSUME Informed, TypeOK', [Next]_vars, NEW c \in CR, Reconcile(c)
  PROVE  Versions(c)' /\ Current(c)'
<1>0. w \in [CR -> Worker] /\ crCache[c] \in CRObject /\ Versions(c) /\ Current(c)
  BY DEF Informed, Safe, TypeInv, TypeOK
<1>1. /\ UNCHANGED <<cr, crCache, secrets>> /\ c \notin queue' /\ w[c].pc = "idle"
  BY DEF Reconcile, ReconcileNotFound, ReconcileDeleted, ReconcileNew,
     ReconcileUnavailable, ReconcileInSync, ReconcileRotate, ReconcileBcryptFails,
     Compare, Dequeue, cacheVars, SameController
<1>2. CASE w'[c] = w[c]
  BY <1>0, <1>1, <1>2 DEF Versions, Intact, Current
<1>3. CASE /\ w'[c].base = crCache[c] /\ w'[c].instance = crCache[c]
           /\ w'[c].pc = "addFinalizer" => ~crCache[c].finalizer
           /\ w'[c].pc \notin {"createAccount", "writeSecret"}
  BY <1>0, <1>1, <1>3 DEF Versions, Intact, Current
<1>4. CASE ReconcileNotFound(c)
  BY <1>2, <1>4 DEF ReconcileNotFound
<1>5. CASE ReconcileDeleted(c)
  <2>1. ASSUME NEW step \in {"deleteAccounts", "removeFinalizer"}, Load(c, step)
        PROVE  w'[c].base = crCache[c] /\ w'[c].instance = crCache[c] /\ w'[c].pc = step
    BY <1>0, <2>1 DEF Load, Idle
  <2> QED BY <1>2, <1>3, <1>5, <2>1 DEF ReconcileDeleted
<1>6. CASE ReconcileNew(c)
  BY <1>0, <1>3, <1>6 DEF ReconcileNew, Load, Idle
<1>7. CASE ReconcileUnavailable(c) \/ ReconcileInSync(c) \/ ReconcileRotate(c) \/ ReconcileBcryptFails(c)
  <2>1. ASSUME NEW s, NEW ns, NEW cond, NEW after, NEW step,
               step \in {"report", "updateRotation", "deleteOldAccounts"},
               Compare(c, crCache[c], s, ns, step, cond, after)
        PROVE  /\ w'[c].base = crCache[c] /\ w'[c].instance = crCache[c]
               /\ w'[c].pc = step
    BY <1>0, <2>1 DEF Compare, Idle
  <2>2. CASE ReconcileUnavailable(c)
    BY <1>0, <1>3, <2>2 DEF ReconcileUnavailable, Idle
  <2>3. CASE ReconcileInSync(c)
    BY <1>3, <2>1, <2>3 DEF ReconcileInSync
  <2>4. CASE ReconcileRotate(c)
    <3>1. PICK step, after :
            /\ step \in {"updateRotation", "deleteOldAccounts"}
            /\ Compare(c, crCache[c], secretCache[c], getRegistryKeyForCR(crCache[c]), step, "True", after)
      BY <2>4 DEF ReconcileRotate
    <3> QED BY <1>3, <2>1, <3>1
  <2>5. CASE ReconcileBcryptFails(c)
    BY <1>3, <2>1, <2>5 DEF ReconcileBcryptFails
  <2> QED BY <1>7, <2>2, <2>3, <2>4, <2>5
<1> QED BY <1>4, <1>5, <1>6, <1>7 DEF Reconcile

\* Steps of others, and the crash.
LEMMA ApartInformed ==
  ASSUME Informed, TypeOK', [Next]_vars, NEW c \in CR, Apart(c)
  PROVE  Versions(c)' /\ Current(c)'
<1>0. /\ Versions(c) /\ Current(c) /\ secrets[c] \in SecretObject /\ cr'[c] \in CRObject
  BY DEF Informed, Safe, TypeInv, TypeOK
<1>1. crCache'[c] = crCache[c] =>
        /\ Outdated(c) => Outdated(c)'
        /\ cr'[c].uid # 0 /\ crCache'[c].uid = cr'[c].uid => crCache'[c].generation <= cr'[c].generation
  BY OutdatedStays
<1>2. cr'[c].uid # 0 /\ crCache'[c].uid = cr'[c].uid => crCache'[c].generation <= cr'[c].generation
  BY <1>0, <1>1 DEF Apart, CRObject
<1>3. Intact(c)' => secrets'[c].annotation \in {0, secrets'[c].rotation}
  <2>1. CASE secrets'[c] = secrets[c] \/ secrets'[c] = NoSecret
             \/ secrets'[c] = [secrets[c] EXCEPT !.annotation = 0]
    BY <1>0, <2>1 DEF Versions, NoSecret, SecretObject, Intact
  <2>2. CASE secrets'[c] \in {Tampered(secrets[c]), Cleared(secrets[c])}
    <3>1. secrets'[c].password = 0
      BY <1>0, <2>2 DEF SecretObject, Tampered, Cleared
    <3> QED BY <3>1 DEF Intact
  <2> QED BY <2>1, <2>2 DEF Apart
<1>4. Versions(c)'
  BY <1>0, <1>2, <1>3 DEF Apart, Versions
<1>5. ASSUME c \notin queue'
      PROVE  c \notin queue /\ w'[c] = w[c] /\ crCache'[c] = crCache[c]
  BY <1>5 DEF Apart, SeenSame
<1> QED BY <1>0, <1>1, <1>4, <1>5 DEF Current

\* Every step keeps what a Reconcile knows up to date, or enqueues a request.
LEMMA InformedStep == Informed /\ [Next]_vars => Informed'
<1> SUFFICES ASSUME Informed, [Next]_vars PROVE Informed'
  OBVIOUS
<1>1. Safe' /\ TypeOK' /\ Safe
  BY SafeStep DEF Informed, Safe, TypeInv
<1>2. ASSUME NEW c \in CR, Crash PROVE Versions(c)' /\ Current(c)'
  <2>1. /\ w'[c].pc = "idle" /\ crCache'[c] = cr'[c] /\ secrets'[c] = secrets[c]
        /\ cr'[c] \in CRObject
    BY <1>1, <1>2 DEF Crash, Idle, TypeOK
  <2> QED BY <2>1 DEF Informed, Versions, Intact, Current, CRObject
<1>3. ASSUME NEW c \in CR PROVE Versions(c)' /\ Current(c)'
  BY <1>1, <1>2, StepsOf, APICallInformed, ReconcileInformed, ApartInformed
<1> QED BY <1>1, <1>3 DEF Informed

\* At the start nothing is cached and nobody is at work.
LEMMA InitInformed == Init => Informed
<1> SUFFICES ASSUME Init PROVE Informed
  OBVIOUS
<1>1. ASSUME NEW c \in CR PROVE Versions(c) /\ Current(c)
  BY DEF Init, NoCR, NoSecret, Idle, Versions, Current
<1> QED BY <1>1, InitSafe DEF Informed

\* Reconcile is about to report that all is well with the CR the cache shows.
Reporting(c) ==
  w[c].pc = "report" /\ w[c].cond = "True" /\ c \notin queue /\ ~Outdated(c)

\* Nothing is left to do for a CR that is Ready, according to the cache.
AtRest(c) ==
  /\ w[c].pc = "idle" /\ c \notin queue /\ crCache[c] = cr[c]
  /\ cr[c].uid # 0 /\ ~cr[c].deleting /\ cr[c].ready = "True"

\* Only Reconcile itself gets to that point, by having found everything in sync.
LEMMA StaysReporting ==
  ASSUME Informed, TypeOK', [Next]_vars, NEW c \in CR, Reporting(c)'
  PROVE  /\ SeenSame(c)
         /\ ReconcileInSync(c) \/ (Reporting(c) /\ w'[c] = w[c] /\ ~Reconcile(c))
<1>0. /\ w \in [CR -> Worker] /\ w[c] \in Worker /\ Versions(c) /\ Current(c) /\ Safe
  BY DEF Informed, Safe, TypeInv, TypeOK
<1>1. CASE Crash
  BY <1>1 DEF Crash, Idle, Reporting
<1>2. CASE Reconcile(c)
  <2>1. UNCHANGED <<crCache, secretCache, accountCache>> /\ w[c].pc = "idle"
    BY <1>2 DEF Reconcile, ReconcileNotFound, ReconcileDeleted, ReconcileNew,
       ReconcileUnavailable, ReconcileInSync, ReconcileRotate, ReconcileBcryptFails,
       Compare, Dequeue, cacheVars, SameController
  <2>2. w'[c].pc = "report" /\ w'[c].cond = "True"
    BY DEF Reporting
  <2>3. ASSUME NEW step \in {"deleteAccounts", "removeFinalizer", "addFinalizer"}, Load(c, step)
        PROVE  FALSE
    BY <1>0, <2>2, <2>3 DEF Load, Idle
  <2>4. ASSUME NEW s, NEW ns, NEW cond, NEW after, NEW step,
               Compare(c, crCache[c], s, ns, step, cond, after)
        PROVE  step = "report" /\ cond = "True"
    BY <1>0, <2>2, <2>4 DEF Compare, Idle
  <2>5. ~ReconcileNotFound(c) /\ ~ReconcileDeleted(c) /\ ~ReconcileNew(c)
    BY <2>1, <2>2, <2>3 DEF ReconcileNotFound, ReconcileDeleted, ReconcileNew
  <2>6. ~ReconcileUnavailable(c)
    BY <1>0, <2>2 DEF ReconcileUnavailable, Idle
  <2>7. ~ReconcileRotate(c) /\ ~ReconcileBcryptFails(c)
    <3>1. ReconcileRotate(c) =>
            \E step \in {"updateRotation", "deleteOldAccounts"}, after \in BOOLEAN :
              Compare(c, crCache[c], secretCache[c], getRegistryKeyForCR(crCache[c]), step, "True", after)
      BY DEF ReconcileRotate, RenewalTimer
    <3>2. ReconcileBcryptFails(c) => w'[c].cond = "bcrypt"
      BY <1>0 DEF ReconcileBcryptFails, Compare, Idle
    <3>3. ~ReconcileBcryptFails(c)
      BY <2>2, <3>2
    <3>4. ~ReconcileRotate(c)
      BY <2>4, <3>1
    <3> QED BY <3>3, <3>4
  <2>8. SeenSame(c)
    BY <2>1 DEF SeenSame
  <2> QED BY <1>2, <2>5, <2>6, <2>7, <2>8 DEF Reconcile
<1>3. CASE Apart(c)
  <2>1. SeenSame(c) /\ c \notin queue /\ w'[c] = w[c]
    BY <1>3 DEF Apart, Reporting
  <2>2. ~Outdated(c)
    BY <2>1, OutdatedStays DEF SeenSame, Reporting
  <2>3. ~Reconcile(c)
    <3>1. Reconcile(c) => w[c].pc = "idle"
      BY DEF Reconcile, ReconcileNotFound, ReconcileDeleted, ReconcileNew,
         ReconcileUnavailable, ReconcileInSync, ReconcileRotate, ReconcileBcryptFails,
         Compare, Dequeue, SameController
    <3> QED BY <2>1, <3>1 DEF Reporting
  <2> QED BY <2>1, <2>2, <2>3 DEF Reporting
<1>4. CASE APICall(c)
  <2>1. UNCHANGED <<crCache, secretCache, accountCache>> /\ c \notin queue
    BY <1>4 DEF APICall, DeleteAccounts, RemoveFinalizer, AddFinalizer, ReportUnsynced,
       DeleteOldAccounts, UpdateRotation, CreateAccount, WriteSecret, Report, cacheVars,
       Return, Reporting
  <2>2. ~Outdated(c)
    BY <2>1, OutdatedStays DEF Reporting
  <2>3. w[c].pc \notin {"createAccount", "writeSecret"}
    BY <1>0, <2>1, <2>2 DEF Current
  <2>4. w'[c].pc = "report" /\ w'[c].cond = "True"
    BY DEF Reporting
  <2>5. CASE UpdateRotation(c)
    <3>1. PICK o \in Outcome :
            w'[c] = IF RotationStored(o)
                    THEN [w[c] EXCEPT !.pc = "createAccount",
                                      !.base = Rotated(w[c].instance, w[c].registry),
                                      !.instance = Rotated(w[c].instance, w[c].registry)]
                    ELSE [w[c] EXCEPT !.pc = "report",
                                      !.instance = Rotated(w[c].instance, w[c].registry),
                                      !.requeueAfter = FALSE,
                                      !.cond = ErrorCond(o, "conflict")]
      BY <1>0, <2>5 DEF UpdateRotation
    <3> QED BY <1>0, <2>4, <3>1 DEF Worker, ErrorCond
  <2>6. CASE RemoveFinalizer(c) \/ ReportUnsynced(c) \/ Report(c)
    BY <1>0, <2>4, <2>6 DEF RemoveFinalizer, ReportUnsynced, Report, Return, Idle
  <2>7. CASE DeleteAccounts(c) \/ DeleteOldAccounts(c)
    BY <1>0, <2>4, <2>7 DEF DeleteAccounts, DeleteOldAccounts, Goto, Return, Idle, Worker
  <2>8. CASE AddFinalizer(c)
    <3>1. w'[c].pc \in {"idle", "reportUnsynced"}
      <4>1. \/ \E requeue, after : Return(c, requeue, after)
            \/ \E cond : w' = [w EXCEPT ![c] = [@ EXCEPT !.pc = "reportUnsynced", !.cond = cond]]
        BY <2>8 DEF AddFinalizer
      <4>2. ASSUME NEW cond, w' = [w EXCEPT ![c] = [@ EXCEPT !.pc = "reportUnsynced", !.cond = cond]]
            PROVE  w'[c].pc = "reportUnsynced"
        BY <1>0, <4>2 DEF Worker
      <4>3. (\E requeue, after : Return(c, requeue, after)) => w'[c].pc = "idle"
        BY <1>0 DEF Return, Idle
      <4> QED BY <4>1, <4>2, <4>3
    <3> QED BY <2>4, <3>1
  <2> QED BY <1>4, <2>3, <2>5, <2>6, <2>7, <2>8 DEF APICall, CreateAccount, WriteSecret
<1> QED BY <1>0, <1>1, <1>2, <1>3, <1>4, StepsOf

\* When nothing is left to do, nothing was left to do before, or Reconcile has
\* just reported that all is well with the CR that the cache shows.
LEMMA ComesToRest ==
  ASSUME Informed, TypeOK', [Next]_vars, NEW c \in CR, AtRest(c)'
  PROVE  /\ SeenSame(c)
         /\ \/ AtRest(c) /\ w'[c] = w[c]
            \/ Reporting(c) /\ Report(c) /\ w[c].base = crCache[c] /\ w[c].instance = w[c].base
<1>0. /\ w \in [CR -> Worker] /\ w[c] \in Worker /\ Versions(c) /\ Current(c) /\ Safe
      /\ cr \in [CR -> CRObject] /\ cr[c] \in CRObject /\ cr'[c] \in CRObject /\ crCache[c] \in CRObject
      /\ w[c].base \in CRObject /\ w[c].instance \in CRObject /\ uids \in Nat
  BY DEF Informed, Safe, TypeInv, TypeOK, Worker
<1>1. /\ w'[c].pc = "idle" /\ c \notin queue' /\ crCache'[c] = cr'[c]
      /\ cr'[c].uid # 0 /\ ~cr'[c].deleting /\ cr'[c].ready = "True"
  BY DEF AtRest
<1>2. CASE Crash
  BY <1>0, <1>1, <1>2 DEF Crash
<1>3. CASE Reconcile(c)
  <2>1. UNCHANGED <<cr, crCache>>
    BY <1>3 DEF Reconcile, ReconcileNotFound, ReconcileDeleted, ReconcileNew,
       ReconcileUnavailable, ReconcileInSync, ReconcileRotate, ReconcileBcryptFails,
       Compare, Dequeue, cacheVars
  <2>2. ~ReconcileNotFound(c) /\ ~ReconcileDeleted(c)
    BY <1>1, <2>1 DEF ReconcileNotFound, ReconcileDeleted
  <2>3. ~ReconcileNew(c) /\ ~ReconcileUnavailable(c)
    BY <1>0, <1>1 DEF ReconcileNew, ReconcileUnavailable, Load, Idle
  <2>4. ASSUME NEW s, NEW ns, NEW cond, NEW after, NEW step,
               Compare(c, crCache[c], s, ns, step, cond, after)
        PROVE  step = "idle"
    BY <1>0, <1>1, <2>4 DEF Compare, Idle
  <2>5. ~ReconcileInSync(c) /\ ~ReconcileBcryptFails(c)
    BY <2>4 DEF ReconcileInSync, ReconcileBcryptFails
  <2>6. ~ReconcileRotate(c)
    BY <2>4 DEF ReconcileRotate
  <2> QED BY <1>3, <2>2, <2>3, <2>5, <2>6 DEF Reconcile
<1>4. CASE Apart(c)
  <2>1. SeenSame(c) /\ c \notin queue /\ w'[c] = w[c] /\ crCache'[c] = crCache[c]
    BY <1>1, <1>4 DEF Apart, SeenSame
  <2>2. ~DeleteCR(c)
    <3>1. DeleteCR(c) => cr'[c] \in {[cr[c] EXCEPT !.deleting = TRUE], NoCR}
      BY <1>0 DEF DeleteCR
    <3>2. [cr[c] EXCEPT !.deleting = TRUE].deleting /\ NoCR.uid = 0
      BY <1>0 DEF CRObject, NoCR
    <3> QED BY <1>1, <3>1, <3>2
  <2>3. ASSUME NEW r \in RegistryRefs, CreateCR(c, r) PROVE FALSE
    <3>1. cr'[c].ready = "none"
      BY <1>0, <2>3 DEF CreateCR, NoCR
    <3> QED BY <1>1, <3>1
  <2>4. ASSUME NEW r \in RegistryRefs, SetRegistryRef(c, r) PROVE FALSE
    <3>1. PICK n : n = cr[c].generation + 1
      OBVIOUS
    <3>2. cr'[c] = [cr[c] EXCEPT !.registryRef = r, !.generation = n]
      BY <1>0, <2>4, <3>1 DEF SetRegistryRef
    <3>3. cr'[c].uid = cr[c].uid /\ cr'[c].generation = n
      BY <1>0, <3>2 DEF CRObject
    <3>4. crCache[c].generation <= cr[c].generation /\ crCache[c].generation = n
      BY <1>0, <1>1, <2>1, <3>3 DEF Versions
    <3> QED BY <1>0, <3>1, <3>4 DEF CRObject
  <2>5. cr'[c] = cr[c]
    BY <1>4, <2>2, <2>3, <2>4 DEF Apart
  <2> QED BY <1>1, <2>1, <2>5 DEF AtRest
<1>5. CASE APICall(c)
  <2>1. UNCHANGED <<crCache, secretCache, accountCache>> /\ c \notin queue /\ w[c].pc # "idle"
    BY <1>1, <1>5 DEF APICall, DeleteAccounts, RemoveFinalizer, AddFinalizer, ReportUnsynced,
       DeleteOldAccounts, UpdateRotation, CreateAccount, WriteSecret, Report, cacheVars, Return
  <2>2. ~Outdated(c)
    <3>1. ~Outdated(c)'
      BY <1>0, <1>1 DEF Outdated, CRObject
    <3> QED BY <2>1, <3>1, OutdatedStays
  <2>3. w[c].base = crCache[c] /\ w[c].pc \notin {"createAccount", "writeSecret"}
    BY <1>0, <2>1, <2>2 DEF Current
  <2>4. ~DeleteAccounts(c) /\ ~ReportUnsynced(c) /\ ~DeleteOldAccounts(c)
    BY <1>0, <1>1 DEF DeleteAccounts, ReportUnsynced, DeleteOldAccounts, Return, Goto, Worker
  <2>5. ~RemoveFinalizer(c)
    <3>1. RemoveFinalizer(c) => cr'[c] = NoCR
      BY <1>0, <1>1 DEF RemoveFinalizer, Return, Failed, UpdateCR, Applied
    <3> QED BY <1>1, <3>1 DEF NoCR
  <2>6. ~AddFinalizer(c)
    <3> SUFFICES ASSUME AddFinalizer(c) PROVE FALSE
      OBVIOUS
    <3>1. PICK o \in Outcome :
            /\ UpdateCR(c, [w[c].instance EXCEPT !.finalizer = TRUE], o)
            /\ IF o = "ok" THEN Return(c, FALSE, FALSE)
               ELSE w' = [w EXCEPT ![c] = [@ EXCEPT !.pc = "reportUnsynced",
                                             !.cond = ErrorCond(o, "conflict")]]
      BY DEF AddFinalizer
    <3>2. o = "ok"
      BY <1>0, <1>1, <3>1 DEF Worker
    <3>3. cr'[c] = [w[c].instance EXCEPT !.finalizer = TRUE]
      BY <1>0, <3>1, <3>2 DEF UpdateCR, Applied
    <3>4. cr'[c].finalizer /\ ~crCache[c].finalizer
      BY <1>0, <2>3, <3>3 DEF AddFinalizer, Versions, CRObject
    <3> QED BY <1>1, <2>1, <3>4
  <2>7. ~UpdateRotation(c)
    <3>1. UpdateRotation(c) => w'[c].pc # "idle"
      BY <1>0 DEF UpdateRotation, Worker
    <3> QED BY <1>1, <3>1
  <2>8. Report(c)
    BY <1>5, <2>3, <2>4, <2>5, <2>6, <2>7 DEF APICall, CreateAccount, WriteSecret
  <2>9. w[c].cond = "True"
    <3> DEFINE f == [w[c].instance EXCEPT !.ready = w[c].cond,
                       !.observedGeneration = w[c].instance.generation]
    <3>1. PICK o \in Outcome : setReady(c, w[c].cond, o) /\ Return(c, Failed(o), ~Failed(o) /\ w[c].requeueAfter)
      BY <2>8 DEF Report
    <3>2. o = "ok"
      BY <1>1, <3>1 DEF Return, Failed
    <3>3. f.ready = w[c].cond
      BY <1>0 DEF CRObject
    <3>4. CASE UpdateCR(c, f, o)
      <4>1. cr'[c] = f
        BY <1>0, <3>2, <3>4 DEF UpdateCR, Applied
      <4> QED BY <1>1, <3>3, <4>1
    <3>5. CASE UNCHANGED cr /\ w[c].instance.ready = w[c].cond
      BY <1>0, <1>1, <2>1, <2>3, <3>5 DEF Versions
    <3> QED BY <3>1, <3>4, <3>5 DEF setReady
  <2>10. w[c].instance = w[c].base
    BY <1>0, <2>1, <2>2, <2>8, <2>9 DEF Current, Report
  <2>11. Reporting(c) /\ SeenSame(c)
    BY <2>1, <2>2, <2>8, <2>9 DEF Reporting, Report, SeenSame
  <2> QED BY <2>3, <2>8, <2>10, <2>11
<1> QED BY <1>0, <1>2, <1>3, <1>4, <1>5, StepsOf

\* The cached account, if its loss is noticed, and Secret belong together and to
\* the cached CR.
InSync(c) ==
  LET i == crCache[c]  s == secretCache[c]  ns == getRegistryKeyForCR(i) IN
  /\ c \notin Dotted =>
       \E a \in accountCache : a.registry = ns /\ a.cr = c /\ a.rotation = i.rotation
  /\ s.owner # 0 /\ s.annotation # 0 /\ s.annotation = i.rotation /\ s.registry = ns

AllInSync == \A c \in CR : Reporting(c) \/ AtRest(c) => InSync(c)

\* A CR that is reported or at rest is in sync: what the caches show of it does
\* not change as long as it has no request.
LEMMA InSyncStep == Informed /\ AllInSync /\ [Next]_vars => AllInSync'
<1> SUFFICES ASSUME Informed, AllInSync, [Next]_vars, NEW c \in CR,
                    Reporting(c)' \/ AtRest(c)'
             PROVE  InSync(c)'
  BY DEF AllInSync
<1>1. TypeOK'
  BY TypeStep DEF Informed, Safe, TypeInv
<1>2. ASSUME InSync(c), SeenSame(c) PROVE InSync(c)'
  BY <1>2 DEF InSync, SeenSame, getRegistryKeyForCR
<1>3. CASE Reporting(c)'
  <2>1. SeenSame(c) /\ (ReconcileInSync(c) \/ Reporting(c))
    BY <1>1, <1>3, StaysReporting
  <2>2. ReconcileInSync(c) => InSync(c)
    BY DEF ReconcileInSync, NeedsRotation, CachedAccount, InSync
  <2> QED BY <1>2, <2>1, <2>2 DEF AllInSync
<1>4. CASE AtRest(c)'
  BY <1>1, <1>2, <1>4, ComesToRest DEF AllInSync
<1> QED BY <1>3, <1>4

\* A CR that is reported or at rest comes back by itself.
AllReturning ==
  \A c \in CR : /\ Reporting(c) => w[c].requeueAfter
                /\ AtRest(c) => c \in timer

\* A delay ends with a request, unless the operator dies.
LEMMA TimerKept ==
  ASSUME [Next]_vars, ~Crash, NEW c \in CR, c \in timer, c \notin queue'
  PROVE  c \in timer'
<1>1. ASSUME NEW d \in CR, Reconcile(d) PROVE c \in timer'
  BY <1>1 DEF Reconcile, ReconcileNotFound, ReconcileDeleted, ReconcileNew,
     ReconcileUnavailable, ReconcileInSync, ReconcileRotate, ReconcileBcryptFails,
     Compare, Dequeue
<1>2. ASSUME NEW d \in CR, APICall(d) PROVE c \in timer'
  BY <1>2 DEF APICall, DeleteAccounts, RemoveFinalizer, AddFinalizer, ReportUnsynced,
     DeleteOldAccounts, UpdateRotation, CreateAccount, WriteSecret, Report, Return
<1>3. CASE Rest
  BY <1>3 DEF Rest, WatchCR, WatchSecret, RequeueAfter, WatchAccounts, Environment,
     DeleteCR, EditSecret, CollectGarbage, CreateCR, SetRegistryRef,
     PassRotationInterval, ExpireAccount, ChangeRegistry
<1> QED BY <1>1, <1>2, <1>3, NextCases DEF vars

\* Reconcile asks for a delay whenever it finds a CR in sync, and nothing but the
\* next request or a restart takes the delay away.
LEMMA ReturningStep == Informed /\ AllReturning /\ [Next]_vars => AllReturning'
<1> SUFFICES ASSUME Informed, AllReturning, [Next]_vars, NEW c \in CR
             PROVE  /\ Reporting(c)' => w'[c].requeueAfter
                    /\ AtRest(c)' => c \in timer'
  BY DEF AllReturning
<1>1. TypeOK' /\ w \in [CR -> Worker] /\ cr[c] \in CRObject /\ queue \subseteq CR
  BY TypeStep DEF Informed, Safe, TypeInv, TypeOK
<1>2. ASSUME Reporting(c)' PROVE w'[c].requeueAfter
  <2>1. CASE ReconcileInSync(c)
    <3>1. RenewalTimer(c, crCache[c], getRegistryKeyForCR(crCache[c])) = {TRUE}
      BY <2>1 DEF ReconcileInSync, NeedsRotation, RenewalTimer
    <3> QED BY <1>1, <2>1, <3>1 DEF ReconcileInSync, Compare, Idle
  <2>2. CASE Reporting(c) /\ w'[c] = w[c]
    BY <2>2 DEF AllReturning
  <2> QED BY <1>1, <1>2, <2>1, <2>2, StaysReporting
<1>3. ASSUME AtRest(c)' PROVE c \in timer'
  <2>1. c \notin queue' /\ ~Crash
    BY <1>3 DEF AtRest, Crash
  <2>2. CASE AtRest(c)
    BY <2>1, <2>2, TimerKept DEF AllReturning
  <2>3. CASE Reporting(c) /\ Report(c)
    BY <2>1, <2>3 DEF AllReturning, Report, Return
  <2> QED BY <1>1, <1>3, <2>2, <2>3, ComesToRest
<1> QED BY <1>2, <1>3

\* When the operator has nothing left to do for a Ready CR, its Secret is there and
\* works, unless users have changed its credentials, which Reconcile does not see,
\* or a dot in the CR's name keeps the loss of the account from it; in any case the
\* CR comes back.  Otherwise no change of the CR, its account or its Secret goes
\* unnoticed, although the caches lag, and no failure of a call leaves Ready as it
\* was.
THEOREM SettledUsable == Spec => []SettledIsUsable
<1> DEFINE Rests == Informed /\ AllInSync /\ AllReturning
<1>1. Init => Rests
  <2>1. Init => AllInSync /\ AllReturning
    BY DEF Init, Idle, NoCR, AllInSync, AllReturning, Reporting, AtRest
  <2> QED BY <2>1, InitInformed
<1>2. Rests /\ [Next]_vars => Rests'
  BY InformedStep, InSyncStep, ReturningStep
<1>3. Rests => SettledIsUsable
  <2> SUFFICES ASSUME Rests, NEW c \in CR,
                      Settled(c), cr[c].uid # 0, ~cr[c].deleting, cr[c].ready = "True",
                      secrets[c].owner \in {0, cr[c].uid}
               PROVE  /\ secrets[c].owner # 0 /\ secrets[c].registry = getRegistryKeyForCR(cr[c])
                      /\ c \in timer
                      /\ Intact(c) /\ c \notin Dotted => Usable(c)
    BY DEF SettledIsUsable
  <2>1. InSync(c) /\ c \in timer
    BY DEF AllInSync, AllReturning, AtRest, Settled
  <2>2. /\ secrets[c].owner = cr[c].uid /\ secrets[c].annotation # 0
        /\ Intact(c) => secrets[c].annotation = secrets[c].rotation
        /\ Match(c)
    BY <2>1 DEF Settled, InSync, Informed, Versions, Safe, StoreSafe
  <2>3. secrets[c].owner # 0 /\ secrets[c].registry = getRegistryKeyForCR(cr[c])
    BY <2>1, <2>2 DEF Settled, InSync
  <2>4. Intact(c) /\ c \notin Dotted => Usable(c)
    BY <2>1, <2>2 DEF Settled, InSync, Match, Usable
  <2> QED BY <2>1, <2>3, <2>4
<1> QED BY <1>1, <1>2, <1>3, PTL DEF Spec
=============================================================================
