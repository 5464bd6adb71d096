-------------------------- MODULE ImageRegistryProofs --------------------------
(***************************************************************************)
(* Proofs about ImageRegistry, for all lists of tasks, specs and           *)
(* configurations, and all bounds.                                         *)
(***************************************************************************)
EXTENDS ImageRegistry, SequenceTheorems, TLAPS

USE DEF storeVars, cacheVars, countVars, outsideVars

-----------------------------------------------------------------------------
(* Types.                                                                  *)

\* Every list of tasks has one that keeps the StatefulSet.
LEMMA StatefulSetHandled ==
  "statefulSet" \in Handled /\ Handled \subseteq Kind
<1>1. PICK i \in DOMAIN Tasks : Tasks[i] = "statefulSet"
  BY RegistryAssumption
<1>2. PICK spec \in Specs : TRUE
  BY RegistryAssumption
<1>3. Target("statefulSet", spec) = "statefulSet"
  BY DEF Target
<1> QED BY <1>1, <1>2, <1>3 DEF Handled, Kind

\* There is at least one task.
LEMMA TasksType ==
  /\ Tasks \in Seq({AllTasks[i] : i \in DOMAIN AllTasks})
  /\ Len(Tasks) \in Nat \ {0} /\ DOMAIN Tasks = 1..Len(Tasks)
<1>1. Tasks \in Seq({AllTasks[i] : i \in DOMAIN AllTasks})
  BY RegistryAssumption
<1>2. Len(Tasks) \in Nat /\ DOMAIN Tasks = 1..Len(Tasks)
  BY <1>1, LenProperties
<1>3. \E i \in DOMAIN Tasks : TRUE
  BY RegistryAssumption
<1> QED BY <1>1, <1>2, <1>3

\* What does not exist and an idle worker are well-typed.
LEMMA ConstantTypes ==
  /\ NoCR \in CRObject /\ NoCR.uid = 0 /\ NoCR.ready = NoReady
  /\ NoCR.observed = 0 /\ NoCR.generation = 0
  /\ Absent \in Object
  /\ Idle \in Worker /\ Idle.pc = "idle" /\ Idle.base = NoCR /\ Idle.ready = NoReady
<1>1. NoReady \in ReadyCond /\ NoError \in Error
  BY DEF NoReady, ReadyCond, NoError, Error
<1>2. NoCR \in CRObject
  BY <1>1 DEF NoCR, CRObject, NameSet
<1>3. NoData \in Data
  BY DEF NoData, Data, NoNames, NameSet
<1>4. Absent \in Object
  BY <1>3 DEF Absent, Object
<1>5. Idle \in Worker
  BY <1>1, <1>2, TasksType DEF Idle, Worker
<1> QED BY <1>2, <1>4, <1>5 DEF NoCR, Idle

\* Specs have a number of replicas, certificates and a storage class.
LEMMA SpecType ==
  ASSUME NEW spec \in Specs \cup {Spec0}
  PROVE  /\ spec.replicas \in Nat /\ spec.class \in Class \cup {Unset}
         /\ SecretName(spec.tls) \in NameSet /\ SecretName(spec.ca) \in NameSet
<1>1. spec.replicas \in Nat /\ spec.class \in Class \cup {Unset}
  BY RegistryAssumption DEF Spec0
<1> QED BY <1>1 DEF SecretName, NameSet

\* What a task wants an object to be is well-typed, and differs from what it
\* has been only where the task says so.
LEMMA ModifyType ==
  ASSUME NEW k \in Kind, NEW i \in CRObject, NEW old \in Object, config \in Config
  PROVE  LET x == Modify(k, i, old) IN
         /\ x \in Object /\ x.exists /\ x.owner = Owner(k, i)
         /\ x.annotation = (IF k = "statefulSet" THEN i.generation ELSE 0)
         /\ x.generation = old.generation /\ x.observed = old.observed
         /\ x.updated = old.updated /\ x.ready = old.ready
         /\ x.data = Desired(k, i.spec)
<1> DEFINE owner == Owner(k, i)
           fixed == DesiredFixed(k, i.spec, old)
           data == Desired(k, i.spec)
           annotation == IF k = "statefulSet" THEN i.generation ELSE 0
<1>0. i.spec \in Specs \cup {Spec0} /\ i.uid \in Nat /\ i.generation \in Nat
  BY DEF CRObject
<1>1. owner \in Nat \cup {Other} /\ annotation \in Nat
  BY <1>0 DEF Owner
<1>2. fixed \in Class \cup {Unset, Foreign}
  <2>1. i.spec.class \in Class \cup {Unset} /\ old.fixed \in Class \cup {Unset, Foreign}
    BY <1>0, SpecType DEF Object
  <2> QED BY <2>1 DEF DesiredFixed
<1>3. data \in Data
  <2>1. /\ i.spec.replicas \in Nat
        /\ SecretName(i.spec.tls) \in NameSet /\ SecretName(i.spec.ca) \in NameSet
        /\ "none" \in NameSet
    BY <1>0, SpecType DEF NameSet
  <2>2. (IF k = "statefulSet" THEN i.spec.replicas ELSE 0) \in Nat
    BY <2>1
  <2>3. /\ (IF k \in {"statefulSet", "tlsCert"} THEN SecretName(i.spec.tls) ELSE "none")
             \in NameSet
        /\ (IF k \in {"statefulSet", "caCert"} THEN SecretName(i.spec.ca) ELSE "none")
             \in NameSet
    BY <2>1
  <2>4. (IF k \in {"statefulSet", "service", "tlsSecret", "tlsCert"} THEN config ELSE Unset)
          \in Config \cup {Unset, Foreign}
    OBVIOUS
  <2> QED BY <2>2, <2>3, <2>4 DEF Desired, Data
<1>4. Modify(k, i, old) = [old EXCEPT !.exists = TRUE, !.managed = TRUE, !.owner = owner,
                             !.fixed = fixed, !.data = data, !.annotation = annotation]
  BY DEF Modify
<1> HIDE DEF owner, fixed, data, annotation
<1>5. /\ Modify(k, i, old) \in Object /\ Modify(k, i, old).exists
      /\ Modify(k, i, old).owner = owner /\ Modify(k, i, old).annotation = annotation
      /\ Modify(k, i, old).generation = old.generation
      /\ Modify(k, i, old).observed = old.observed
      /\ Modify(k, i, old).updated = old.updated /\ Modify(k, i, old).ready = old.ready
      /\ Modify(k, i, old).data = data
  BY <1>1, <1>2, <1>3, <1>4 DEF Object
<1> QED BY <1>5 DEF owner, annotation, data

\* An object as it is stored: its generation counts the changes of its spec.
LEMMA GenerationType ==
  ASSUME NEW k, NEW x \in Object, NEW old \in Object
  PROVE  LET g == NextGeneration(k, x, old)
             y == [x EXCEPT !.generation = g]
         IN /\ y \in Object /\ y.generation = g
            /\ y.exists = x.exists /\ y.owner = x.owner /\ y.annotation = x.annotation
            /\ y.observed = x.observed /\ y.updated = x.updated /\ y.ready = x.ready
            /\ y.data = x.data
<1> DEFINE g == NextGeneration(k, x, old)
<1>1. g \in Nat
  BY DEF NextGeneration, Object
<1> HIDE DEF g
<1>2. LET y == [x EXCEPT !.generation = g]
      IN /\ y \in Object /\ y.generation = g
         /\ y.exists = x.exists /\ y.owner = x.owner /\ y.annotation = x.annotation
         /\ y.observed = x.observed /\ y.updated = x.updated /\ y.ready = x.ready
         /\ y.data = x.data
  BY <1>1 DEF Object
<1> QED BY <1>2 DEF g

\* Changing an object keeps the types.
LEMMA SetObjectType ==
  ASSUME RegistryTypeOK, NEW k \in Handled, NEW x \in Object, SetObject(k, x)
  PROVE  /\ obj' \in [Handled -> Object] /\ stale' \subseteq Handled /\ notify' \subseteq stale'
         /\ rolled' \subseteq (Nat \cup {Other}) \X Nat
         /\ rolled \subseteq rolled' /\ stale \subseteq stale'
         /\ obj'[k] = x /\ \A j \in Handled \ {k} : obj'[j] = obj[j]
<1>1. x.owner \in Nat \cup {Other} /\ x.annotation \in Nat
  BY DEF Object
<1> QED BY <1>1 DEF SetObject, RegistryTypeOK

\* So does a call of CreateOrUpdate.
LEMMA CreateOrUpdateType ==
  ASSUME RegistryTypeOK, NEW k \in Handled, NEW x \in Object, NEW o \in Outcome,
         CreateOrUpdate(k, x, o)
  PROVE  /\ obj' \in [Handled -> Object] /\ stale' \subseteq Handled /\ notify' \subseteq stale'
         /\ rolled' \subseteq (Nat \cup {Other}) \X Nat /\ faults' \in Nat
         /\ \/ UNCHANGED <<obj, stale, notify, rolled>>
            \/ SetObject(k, [x EXCEPT !.generation = NextGeneration(k, x, cache[k])])
<1>1. cache[k] \in Object
  BY DEF RegistryTypeOK
<1>2. [x EXCEPT !.generation = NextGeneration(k, x, cache[k])] \in Object
  BY <1>1, GenerationType
<1>3. faults' \in Nat
  BY DEF CreateOrUpdate, Respond, RegistryTypeOK
<1>4. \/ UNCHANGED <<obj, stale, notify, rolled>>
      \/ SetObject(k, [x EXCEPT !.generation = NextGeneration(k, x, cache[k])])
  BY DEF CreateOrUpdate
<1>5. CASE UNCHANGED <<obj, stale, notify, rolled>>
  BY <1>3, <1>5 DEF RegistryTypeOK
<1>6. CASE SetObject(k, [x EXCEPT !.generation = NextGeneration(k, x, cache[k])])
  BY <1>2, <1>3, <1>6, SetObjectType
<1> QED BY <1>4, <1>5, <1>6

\* Reconcile's local state when it goes on or ends, and when the condition of
\* the StatefulSet has been computed.
LEMMA WorkerTypes ==
  ASSUME NEW x \in Worker
  PROVE  /\ x.pc = "task" =>
              /\ NextTask(x) \in Worker /\ NextTask(x).pc \in {"task", "report"}
              /\ NextTask(x).base = x.base /\ NextTask(x).ready = x.ready
         /\ \A reason \in {"owned", "unmanaged", "refused", "outage", "noCA"} :
              \A k \in Kind :
                /\ EndTasks(x, reason, k) \in Worker
                /\ EndTasks(x, reason, k).pc = "report"
                /\ EndTasks(x, reason, k).base = x.base
                /\ EndTasks(x, reason, k).ready = x.ready
         /\ \A r \in ReadyCond :
              /\ [x EXCEPT !.ready = r] \in Worker /\ [x EXCEPT !.ready = r].pc = x.pc
              /\ [x EXCEPT !.ready = r].base = x.base
              /\ [x EXCEPT !.ready = r].ready = r
<1>1. Len(Tasks) \in Nat
  BY TasksType
<1>2. ASSUME x.pc = "task"
      PROVE  /\ NextTask(x) \in Worker /\ NextTask(x).pc \in {"task", "report"}
             /\ NextTask(x).base = x.base /\ NextTask(x).ready = x.ready
  <2>1. CASE x.task = Len(Tasks)
    BY <2>1 DEF NextTask, Worker
  <2>2. CASE x.task # Len(Tasks)
    <3>1. x.task + 1 \in 0..Len(Tasks)
      BY <1>1, <2>2 DEF Worker
    <3> DEFINE n == x.task + 1
    <3>2. NextTask(x) = [x EXCEPT !.task = n]
      BY <2>2 DEF NextTask
    <3>3. n \in 0..Len(Tasks)
      BY <3>1
    <3> HIDE DEF n
    <3> QED BY <1>2, <3>2, <3>3 DEF Worker
  <2> QED BY <2>1, <2>2
<1>3. ASSUME NEW reason \in {"owned", "unmanaged", "refused", "outage", "noCA"},
             NEW k \in Kind
      PROVE  /\ EndTasks(x, reason, k) \in Worker
             /\ EndTasks(x, reason, k).pc = "report"
             /\ EndTasks(x, reason, k).base = x.base
             /\ EndTasks(x, reason, k).ready = x.ready
  <2>1. <<reason, k>> \in Error
    BY DEF Error
  <2> QED BY <2>1 DEF EndTasks, Worker
<1>4. ASSUME NEW r \in ReadyCond
      PROVE  /\ [x EXCEPT !.ready = r] \in Worker /\ [x EXCEPT !.ready = r].pc = x.pc
             /\ [x EXCEPT !.ready = r].base = x.base
             /\ [x EXCEPT !.ready = r].ready = r
  BY DEF Worker
<1> QED BY <1>2, <1>3, <1>4

\* The conditions that are reported.
LEMMA ReadyType ==
  ASSUME NEW x \in Object, NEW i
  PROVE  readyCondition(x, i) \in ReadyCond
BY DEF readyCondition, ReadyCond, Ready, Object

\* The status that is reported.
LEMMA StatusType ==
  ASSUME w \in Worker, NEW i \in CRObject, config \in Config
  PROVE  /\ NewStatus(i) \in CRObject
         /\ NewStatus(i).uid = i.uid /\ NewStatus(i).generation = i.generation
         /\ NewStatus(i).spec = i.spec /\ NewStatus(i).observed = i.generation
         /\ NewStatus(i).ready = (IF w.error # NoError THEN FailedSync ELSE w.ready)
<1> DEFINE ready == IF w.error # NoError THEN FailedSync ELSE w.ready
           synced == IF w.error # NoError THEN w.error ELSE Synced
           name == SecretName(i.spec.tls)
<1>1. ready \in ReadyCond /\ synced \in Error
  BY DEF Worker, FailedSync, ReadyCond, Synced, Error
<1>2. name \in NameSet
  BY SpecType DEF CRObject
<1>3. NewStatus(i) = [i EXCEPT !.ready = ready, !.synced = synced, !.observed = i.generation,
                               !.host = config, !.tlsName = name]
  BY DEF NewStatus
<1> HIDE DEF ready, synced, name
<1>4. /\ NewStatus(i) \in CRObject
      /\ NewStatus(i).uid = i.uid /\ NewStatus(i).generation = i.generation
      /\ NewStatus(i).spec = i.spec /\ NewStatus(i).observed = i.generation
      /\ NewStatus(i).ready = ready
  BY <1>1, <1>2, <1>3 DEF CRObject
<1> QED BY <1>4 DEF ready

\* What users, nodes and the StatefulSet controller make of an object.
LEMMA EnvironmentTypes ==
  /\ \A x \in Object :
       /\ LET y == [x EXCEPT !.data.config = Foreign]
          IN /\ y \in Object /\ y.exists = x.exists /\ y.owner = x.owner
             /\ y.annotation = x.annotation /\ y.generation = x.generation
             /\ y.observed = x.observed /\ y.updated = x.updated
             /\ y.data.config = Foreign
       /\ LET y == [x EXCEPT !.observed = x.generation, !.updated = 0]
          IN /\ y \in Object /\ y.exists = x.exists /\ y.owner = x.owner
             /\ y.annotation = x.annotation /\ y.generation = x.generation
             /\ y.observed = x.generation /\ y.updated = 0
       /\ LET y == [x EXCEPT !.updated = x.data.replicas, !.ready = x.data.replicas]
          IN /\ y \in Object /\ y.exists = x.exists /\ y.owner = x.owner
             /\ y.annotation = x.annotation /\ y.generation = x.generation
             /\ y.observed = x.observed /\ y.updated = y.data.replicas
       /\ LET y == [x EXCEPT !.ready = 0]
          IN /\ y \in Object /\ y.exists = x.exists /\ y.owner = x.owner
             /\ y.annotation = x.annotation /\ y.generation = x.generation
             /\ y.observed = x.observed /\ y.updated = x.updated /\ y.data = x.data
  /\ \A owner \in {0, Other}, fixed \in {Unset, Foreign}, g \in {0, 1} :
       LET y == [Absent EXCEPT !.exists = TRUE, !.owner = owner, !.fixed = fixed,
                               !.data.config = Foreign, !.generation = g]
       IN /\ y \in Object /\ y.exists /\ y.owner = owner /\ y.annotation = 0
          /\ y.generation = g /\ y.observed = 0 /\ y.updated = 0
<1>1. ASSUME NEW x \in Object
      PROVE  LET y == [x EXCEPT !.data.config = Foreign]
             IN /\ y \in Object /\ y.exists = x.exists /\ y.owner = x.owner
                /\ y.annotation = x.annotation /\ y.generation = x.generation
                /\ y.observed = x.observed /\ y.updated = x.updated
                /\ y.data.config = Foreign
  <2>1. x.data \in Data
    BY DEF Object
  <2>2. [x.data EXCEPT !.config = Foreign] \in Data /\ [x.data EXCEPT !.config = Foreign].config = Foreign
    BY <2>1 DEF Data
  <2> QED BY <2>2 DEF Object
<1>2. ASSUME NEW x \in Object
      PROVE  LET y == [x EXCEPT !.observed = x.generation, !.updated = 0]
             IN /\ y \in Object /\ y.exists = x.exists /\ y.owner = x.owner
                /\ y.annotation = x.annotation /\ y.generation = x.generation
                /\ y.observed = x.generation /\ y.updated = 0
  BY DEF Object
<1>3. ASSUME NEW x \in Object
      PROVE  LET y == [x EXCEPT !.updated = x.data.replicas, !.ready = x.data.replicas]
             IN /\ y \in Object /\ y.exists = x.exists /\ y.owner = x.owner
                /\ y.annotation = x.annotation /\ y.generation = x.generation
                /\ y.observed = x.observed /\ y.updated = y.data.replicas
  BY DEF Object, Data
<1>4. ASSUME NEW x \in Object
      PROVE  LET y == [x EXCEPT !.ready = 0]
             IN /\ y \in Object /\ y.exists = x.exists /\ y.owner = x.owner
                /\ y.annotation = x.annotation /\ y.generation = x.generation
                /\ y.observed = x.observed /\ y.updated = x.updated /\ y.data = x.data
  BY DEF Object
<1>5. ASSUME NEW owner \in {0, Other}, NEW fixed \in {Unset, Foreign}, NEW g \in {0, 1}
      PROVE  LET y == [Absent EXCEPT !.exists = TRUE, !.owner = owner, !.fixed = fixed,
                                     !.data.config = Foreign, !.generation = g]
             IN /\ y \in Object /\ y.exists /\ y.owner = owner /\ y.annotation = 0
                /\ y.generation = g /\ y.observed = 0 /\ y.updated = 0
  <2> DEFINE z == [Absent EXCEPT !.exists = TRUE, !.owner = owner, !.fixed = fixed,
                                 !.data.config = Foreign, !.generation = g]
  <2>1. /\ Absent \in Object /\ Absent.annotation = 0 /\ Absent.observed = 0
        /\ Absent.updated = 0
    BY ConstantTypes DEF Absent
  <2>2. owner \in Nat \cup {Other} /\ fixed \in Class \cup {Unset, Foreign} /\ g \in Nat
    OBVIOUS
  <2>3. ASSUME NEW x \in Object
        PROVE  LET y == [x EXCEPT !.exists = TRUE, !.owner = owner, !.fixed = fixed,
                                  !.data.config = Foreign, !.generation = g]
               IN /\ y \in Object /\ y.exists /\ y.owner = owner
                  /\ y.annotation = x.annotation /\ y.generation = g
                  /\ y.observed = x.observed /\ y.updated = x.updated
    <3>1. [x.data EXCEPT !.config = Foreign] \in Data
      BY DEF Object, Data
    <3> QED BY <2>2, <3>1 DEF Object
  <2> QED BY <2>1, <2>3
<1> QED BY <1>1, <1>2, <1>3, <1>4, <1>5

-----------------------------------------------------------------------------
\* Every step keeps the types.
LEMMA TypesKept ==
  ASSUME RegistryTypeOK, [Next]_vars
  PROVE  RegistryTypeOK'
<1> USE DEF RegistryTypeOK
<1>ss. "statefulSet" \in Handled /\ Handled \subseteq Kind /\ obj["statefulSet"] \in Object
  BY StatefulSetHandled
<1>none. NoCR \in CRObject /\ Absent \in Object /\ Idle \in Worker
  BY ConstantTypes
\* Whoever changes an object leaves the operator's state alone.
<1>set. ASSUME NEW k \in Handled, NEW x \in Object, SetObject(k, x), edits' \in Nat,
               UNCHANGED <<cr, uids, outsideVars>>
        PROVE  RegistryTypeOK'
  BY <1>set, SetObjectType
<1>1. CASE ReconcileNotFound
  BY <1>1 DEF ReconcileNotFound, Dequeue
<1>2. CASE Reconcile
  <2>1. [Idle EXCEPT !.pc = "task", !.task = 1, !.base = crCache] \in Worker
    <3>1. 1 \in 0..Len(Tasks)
      BY TasksType
    <3> QED BY <1>none, <3>1 DEF Worker
  <2> QED BY <1>2, <2>1 DEF Reconcile, Dequeue
<1>3. CASE SkipTask
  BY <1>3, WorkerTypes DEF SkipTask, InTask
<1>4. CASE NoRootCA
  <2>1. EndTasks(w, "noCA", "tlsSecret") \in Worker
    BY WorkerTypes DEF Kind, CertKind
  <2> QED BY <1>4, <2>1 DEF NoRootCA
<1>5. ASSUME NEW k \in Handled, RefuseTask(k)
      PROVE  RegistryTypeOK'
  <2>1. Refusal(k, w.base, cache[k]) \in {"owned", "unmanaged"}
    BY <1>5 DEF RefuseTask, Refusal
  <2>2. EndTasks(w, Refusal(k, w.base, cache[k]), k) \in Worker
    BY <1>ss, <2>1, WorkerTypes
  <2> QED BY <1>5, <2>2 DEF RefuseTask
<1>6. ASSUME NEW k \in Handled, Upsert(k)
      PROVE  RegistryTypeOK'
  <2> DEFINE m == Modify(k, w.base, cache[k])
             r == IF k = "statefulSet" THEN readyCondition(cache[k], w.base) ELSE w.ready
             x == [w EXCEPT !.ready = r]
  <2>1. PICK o \in Outcome : /\ CreateOrUpdate(k, m, o)
                             /\ w' = IF Failed(o) THEN EndTasks(x, Reason(o), k) ELSE NextTask(x)
    BY <1>6 DEF Upsert
  <2>2. w.base \in CRObject /\ cache[k] \in Object /\ k \in Kind /\ w.ready \in ReadyCond
    BY <1>ss DEF Worker
  <2>3. m \in Object
    BY <2>2, ModifyType
  <2>4. /\ obj' \in [Handled -> Object] /\ stale' \subseteq Handled /\ notify' \subseteq stale'
        /\ rolled' \subseteq (Nat \cup {Other}) \X Nat /\ faults' \in Nat
    BY <2>1, <2>3, CreateOrUpdateType
  <2>5. r \in ReadyCond
    BY <2>2, ReadyType
  <2> HIDE DEF m, r
  <2>6. x \in Worker /\ x.pc = "task"
    BY <1>6, <2>5, WorkerTypes DEF Upsert, InTask
  <2>7. Reason(o) \in {"refused", "outage"}
    BY DEF Reason
  <2> HIDE DEF x
  <2>8. w' \in Worker
    BY <2>1, <2>2, <2>6, <2>7, WorkerTypes
  <2> QED BY <1>6, <2>4, <2>8 DEF Upsert
<1>7. CASE Report
  <2>1. NewStatus(w.base) \in CRObject
    BY StatusType DEF Worker
  <2>2. cr' \in CRObject /\ faults' \in Nat /\ queue' \in BOOLEAN
    BY <1>7, <2>1 DEF Report, Respond
  <2> QED BY <1>7, <1>none, <2>2 DEF Report
<1>8. CASE WatchCR
  BY <1>8 DEF WatchCR
<1>9. ASSUME NEW k \in Handled, Watch(k)
      PROVE  RegistryTypeOK'
  BY <1>9 DEF Watch
<1>10. CASE Crash
  BY <1>10, <1>none DEF Crash
<1>11. ASSUME NEW spec \in Specs, CreateCR(spec)
       PROVE  RegistryTypeOK'
  <2>1. ASSUME NEW n \in Nat
        PROVE  [NoCR EXCEPT !.uid = n, !.generation = 1, !.spec = spec] \in CRObject
    BY <1>none DEF CRObject
  <2>2. uids + 1 \in Nat
    OBVIOUS
  <2>3. cr' \in CRObject /\ uids' \in Nat
    BY <1>11, <2>1, <2>2 DEF CreateCR
  <2> QED BY <1>11, <2>3 DEF CreateCR
<1>12. CASE DeleteCR
  BY <1>12, <1>none DEF DeleteCR, Change
<1>13. ASSUME NEW spec \in Specs, EditSpec(spec)
       PROVE  RegistryTypeOK'
  <2>1. ASSUME NEW n \in Nat
        PROVE  [cr EXCEPT !.spec = spec, !.generation = n] \in CRObject
    BY DEF CRObject
  <2>2. cr.generation + 1 \in Nat
    BY DEF CRObject
  <2>3. cr' \in CRObject
    BY <1>13, <2>1, <2>2 DEF EditSpec
  <2> QED BY <1>13, <2>3 DEF EditSpec, Change
<1>14. ASSUME NEW k \in Handled, EditObject(k)
       PROVE  RegistryTypeOK'
  <2> DEFINE x == [obj[k] EXCEPT !.data.config = Foreign]
             y == [x EXCEPT !.generation = NextGeneration(k, x, obj[k])]
  <2>1. x \in Object
    BY EnvironmentTypes
  <2>2. y \in Object
    <3> HIDE DEF x
    <3> QED BY <2>1, GenerationType
  <2>3. SetObject(k, y)
    BY <1>14 DEF EditObject
  <2> HIDE DEF x, y
  <2> QED BY <1>14, <1>set, <2>2, <2>3 DEF EditObject, Change
<1>15. ASSUME NEW k \in Handled, DeleteObject(k)
       PROVE  RegistryTypeOK'
  BY <1>15, <1>set, <1>none DEF DeleteObject, Change
<1>16. ASSUME NEW k \in Handled, CreateForeign(k)
       PROVE  RegistryTypeOK'
  <2>1. PICK owner \in {0, Other}, fixed \in {Unset, Foreign}, g \in {0, 1} :
          SetObject(k, [Absent EXCEPT !.exists = TRUE, !.owner = owner, !.fixed = fixed,
                                      !.data.config = Foreign, !.generation = g])
    BY <1>16 DEF CreateForeign
  <2>2. [Absent EXCEPT !.exists = TRUE, !.owner = owner, !.fixed = fixed,
                       !.data.config = Foreign, !.generation = g] \in Object
    BY EnvironmentTypes
  <2>3. edits' \in Nat /\ UNCHANGED <<cr, uids, outsideVars>>
    BY <1>16 DEF CreateForeign, Change
  <2> QED BY <1>set, <2>1, <2>2, <2>3
<1>17. CASE Observe
  BY <1>17, <1>set, <1>ss, EnvironmentTypes DEF Observe, ChangeStatefulSet
<1>18. CASE RollOut
  BY <1>18, <1>set, <1>ss, EnvironmentTypes DEF RollOut, ChangeStatefulSet
<1>19. CASE PodsFail
  <2>1. [obj["statefulSet"] EXCEPT !.ready = 0] \in Object
    BY <1>ss, EnvironmentTypes
  <2>2. edits' \in Nat /\ UNCHANGED <<cr, uids, outsideVars>>
    BY <1>19 DEF PodsFail, ChangeStatefulSet, Change
  <2> QED BY <1>19, <1>set, <1>ss, <2>1, <2>2 DEF PodsFail, ChangeStatefulSet
<1>20. ASSUME NEW k \in Handled, Collect(k)
       PROVE  RegistryTypeOK'
  BY <1>20, <1>set, <1>none DEF Collect
<1>21. CASE UNCHANGED vars
  BY <1>21 DEF vars
<1> QED
  BY <1>1, <1>2, <1>3, <1>4, <1>5, <1>6, <1>7, <1>8, <1>9, <1>10, <1>11, <1>12, <1>13,
     <1>14, <1>15, <1>16, <1>17, <1>18, <1>19, <1>20, <1>21 DEF Next, Operator, Environment

\* The initial state is well-typed.
LEMMA InitTypes == Init => RegistryTypeOK
<1> SUFFICES ASSUME Init
             PROVE  RegistryTypeOK
  OBVIOUS
<1>1. obj \in [Handled -> Object] /\ cache \in [Handled -> Object]
  BY ConstantTypes DEF Init
<1>2. cr \in CRObject /\ crCache \in CRObject /\ w \in Worker
  BY ConstantTypes DEF Init
<1> QED BY <1>1, <1>2 DEF Init, RegistryTypeOK

\* Every reachable state is well-typed: Reconcile runs no task beyond those of
\* newReconciler, and an event is due for every version that a cache lacks.
THEOREM RegistryTypeCorrect == RegistrySpec => []RegistryTypeOK
<1>1. RegistryTypeOK /\ [Next]_vars => RegistryTypeOK'
  BY TypesKept
<1> QED BY <1>1, InitTypes, PTL DEF RegistrySpec

-----------------------------------------------------------------------------
(* The Ready condition.  It is computed from a cached StatefulSet, before   *)
(* that is written, and reported later: each version of a StatefulSet says  *)
(* no more than what has been rolled out, whoever wrote it, and that does   *)
(* not change while it waits in a cache, or the condition in the worker (n  *)
(* and R are what uids and rolled are, now or later).                       *)

\* The annotation names a registry that there has been; pods count as updated
\* only for the spec that the StatefulSet controller has seen.
Plausible(x, n) ==
  /\ x.owner <= n
  /\ x.annotation # 0 => x.owner >= 1
  /\ x.observed <= x.generation
  /\ ~x.exists => x = Absent
  /\ x.observed = x.generation => x.updated \in {0, x.data.replicas}

Recorded(x, R) ==
  x.exists /\ RolledOut(x, x.data.replicas) => <<x.owner, x.annotation>> \in R

\* The registry i may say that it is Ready.
Earned(i, n, R) == i.spec.replicas # 0 => \E u \in 1..n : <<u, i.generation>> \in R

RegistryHonest(i, n) ==
  i.uid <= n /\ i.observed <= i.generation /\ (i.uid # 0 => i.generation # 0)

WorkerHonest(x, n, R) ==
  /\ RegistryHonest(x.base, n)
  /\ x.pc # "idle" => x.base.uid # 0
  /\ x.ready = Ready => Earned(x.base, n, R)

ReadyHonest ==
  /\ RegistryTypeOK
  /\ RegistryHonest(cr, uids) /\ RegistryHonest(crCache, uids)
  /\ cr.uid # 0 => cr.uid = uids
  /\ WorkerHonest(w, uids, rolled)
  /\ Plausible(obj["statefulSet"], uids) /\ Recorded(obj["statefulSet"], rolled)
  /\ Plausible(cache["statefulSet"], uids) /\ Recorded(cache["statefulSet"], rolled)
  /\ cr.uid # 0 /\ cr.ready = Ready /\ cr.observed = cr.generation
       => Earned(cr, uids, rolled)

\* What has been rolled out stays so, and registries are told apart.
LEMMA EarnedLater ==
  ASSUME NEW n \in Nat, NEW m \in Nat, n <= m, NEW R, NEW S, R \subseteq S
  PROVE  /\ \A i : Earned(i, n, R) => Earned(i, m, S)
         /\ \A i \in CRObject : RegistryHonest(i, n) => RegistryHonest(i, m)
         /\ \A x \in Worker : WorkerHonest(x, n, R) => WorkerHonest(x, m, S)
         /\ \A x \in Object : Plausible(x, n) => Plausible(x, m)
         /\ \A x : Recorded(x, R) => Recorded(x, S)
<1>1. \A i : Earned(i, n, R) => Earned(i, m, S)
  BY DEF Earned
<1>2. \A i \in CRObject : RegistryHonest(i, n) => RegistryHonest(i, m)
  BY DEF RegistryHonest, CRObject
<1>3. \A x \in Worker : x.base \in CRObject
  BY DEF Worker
<1>4. \A x \in Worker : WorkerHonest(x, n, R) => WorkerHonest(x, m, S)
  BY <1>1, <1>2, <1>3 DEF WorkerHonest
<1>5. \A x \in Object : Plausible(x, n) => Plausible(x, m)
  <2>1. \A x \in Object : x.owner \in Int
    BY DEF Object, Other
  <2> QED BY <2>1 DEF Plausible
<1>6. \A x : Recorded(x, R) => Recorded(x, S)
  BY DEF Recorded
<1> QED BY <1>1, <1>2, <1>4, <1>5, <1>6

\* A StatefulSet that is up to date and has the pods that the registry wants
\* has been rolled out for it.
LEMMA ReadyEarned ==
  ASSUME NEW x \in Object, NEW i \in CRObject, NEW n \in Nat, NEW R,
         Plausible(x, n), Recorded(x, R), i.generation # 0,
         readyCondition(x, i) = Ready
  PROVE  Earned(i, n, R)
<1> SUFFICES ASSUME i.spec.replicas # 0
             PROVE  \E u \in 1..n : <<u, i.generation>> \in R
  BY DEF Earned
<1>1. /\ x.observed = x.generation /\ x.annotation = i.generation
      /\ x.updated = i.spec.replicas /\ x.ready = i.spec.replicas
  <2>1. "Updating" # "True"
    OBVIOUS
  <2> QED BY <2>1 DEF readyCondition, Ready, UpToDate
<1>2. x.updated = x.data.replicas
  BY <1>1 DEF Plausible
<1>3. x.exists
  BY <1>1 DEF Plausible, Absent
<1>4. <<x.owner, i.generation>> \in R
  BY <1>1, <1>2, <1>3 DEF Recorded, RolledOut
<1>5. x.owner >= 1 /\ x.owner <= n /\ x.owner \in Int
  BY <1>1 DEF Plausible, Object, Other
<1> QED BY <1>4, <1>5

\* Writing a StatefulSet for a registry keeps what is said of it.
LEMMA ModifyPlausible ==
  ASSUME NEW i \in CRObject, NEW old \in Object, NEW n \in Nat, config \in Config,
         RegistryHonest(i, n), i.uid # 0, Plausible(old, n)
  PROVE  LET x == Modify("statefulSet", i, old)
         IN  Plausible([x EXCEPT !.generation = NextGeneration("statefulSet", x, old)], n)
<1> DEFINE x == Modify("statefulSet", i, old)
           y == [x EXCEPT !.generation = NextGeneration("statefulSet", x, old)]
<1>1. "statefulSet" \in Kind
  BY DEF Kind
<1>2. /\ x \in Object /\ x.exists /\ x.owner = i.uid /\ x.annotation = i.generation
      /\ x.generation = old.generation /\ x.observed = old.observed
      /\ x.updated = old.updated
  BY <1>1, ModifyType DEF Owner
<1> HIDE DEF x
<1>3. /\ y.exists /\ y.owner = i.uid /\ y.annotation = i.generation
      /\ y.observed = old.observed /\ y.updated = old.updated /\ y.data = x.data
      /\ y.generation = NextGeneration("statefulSet", x, old)
  BY <1>2, GenerationType
<1>4. /\ old.generation \in Nat /\ old.observed \in Nat /\ i.uid \in Nat
      /\ old.observed <= old.generation
      /\ old.observed = old.generation => old.updated \in {0, old.data.replicas}
  BY DEF Object, CRObject, Plausible
<1>5. y.generation = IF x.data # old.data THEN old.generation + 1 ELSE old.generation
  BY <1>3 DEF NextGeneration
<1> HIDE DEF y
<1>6. Plausible(y, n)
  <2>1. y.observed <= y.generation
    BY <1>3, <1>4, <1>5
  <2>2. ASSUME y.observed = y.generation
        PROVE  y.updated \in {0, y.data.replicas}
    <3>1. x.data = old.data
      BY <1>3, <1>4, <1>5, <2>2
    <3> QED BY <1>3, <1>4, <1>5, <2>2, <3>1
  <2>3. y.owner <= n /\ y.owner >= 1
    BY <1>3, <1>4 DEF RegistryHonest
  <2> QED BY <1>3, <2>1, <2>2, <2>3 DEF Plausible
<1> QED BY <1>6 DEF x, y

\* Every step keeps ReadyHonest.
LEMMA HonestKept ==
  ASSUME ReadyHonest, [Next]_vars
  PROVE  ReadyHonest'
<1>types. RegistryTypeOK /\ RegistryTypeOK'
  BY TypesKept DEF ReadyHonest
<1>0. /\ cr \in CRObject /\ crCache \in CRObject /\ w \in Worker /\ w.base \in CRObject
      /\ obj \in [Handled -> Object] /\ cache \in [Handled -> Object]
      /\ uids \in Nat /\ uids' \in Nat /\ config \in Config
      /\ obj["statefulSet"] \in Object /\ cache["statefulSet"] \in Object
      /\ "statefulSet" \in Handled
  BY <1>types, StatefulSetHandled DEF RegistryTypeOK, Worker
<1>1. /\ RegistryHonest(cr, uids) /\ RegistryHonest(crCache, uids)
      /\ cr.uid # 0 => cr.uid = uids
      /\ WorkerHonest(w, uids, rolled)
      /\ Plausible(obj["statefulSet"], uids) /\ Recorded(obj["statefulSet"], rolled)
      /\ Plausible(cache["statefulSet"], uids) /\ Recorded(cache["statefulSet"], rolled)
      /\ cr.uid # 0 /\ cr.ready = Ready /\ cr.observed = cr.generation
           => Earned(cr, uids, rolled)
  BY DEF ReadyHonest
<1>absent. \A n \in Nat : Plausible(Absent, n) /\ RegistryHonest(NoCR, n)
  BY DEF Plausible, Absent, RegistryHonest, NoCR
<1>idle. \A n \in Nat : \A R : WorkerHonest(Idle, n, R)
  BY <1>absent, ConstantTypes DEF WorkerHonest, NoReady, Ready
\* What is said of the caches and the registry holds on when more is rolled out.
<1>more. ASSUME rolled \subseteq rolled', uids' = uids
         PROVE  /\ WorkerHonest(w, uids', rolled')
                /\ Recorded(obj["statefulSet"], rolled')
                /\ Recorded(cache["statefulSet"], rolled')
                /\ \A i : Earned(i, uids, rolled) => Earned(i, uids', rolled')
  BY <1>0, <1>1, <1>more, EarnedLater
\* A call changes an object, whoever makes it.
<1>set. ASSUME NEW k \in Handled, NEW x \in Object, SetObject(k, x),
               k = "statefulSet" => Plausible(x, uids)
        PROVE  /\ Plausible(obj'["statefulSet"], uids)
               /\ Recorded(obj'["statefulSet"], rolled') /\ rolled \subseteq rolled'
  <2>1. /\ rolled \subseteq rolled' /\ obj'[k] = x
        /\ \A j \in Handled \ {k} : obj'[j] = obj[j]
    BY <1>types, <1>set, SetObjectType
  <2>2. CASE k = "statefulSet"
    <3>1. Recorded(x, rolled')
      BY <1>set, <2>2 DEF SetObject, Recorded
    <3> QED BY <1>set, <2>1, <2>2, <3>1
  <2>3. CASE k # "statefulSet"
    <3>1. obj'["statefulSet"] = obj["statefulSet"]
      BY <1>0, <2>1, <2>3
    <3>2. Recorded(obj["statefulSet"], rolled')
      BY <1>1, <2>1 DEF Recorded
    <3> QED BY <1>1, <2>1, <3>1, <3>2
  <2> QED BY <2>2, <2>3
<1>env. ASSUME NEW k \in Handled, NEW x \in Object, SetObject(k, x),
               k = "statefulSet" => Plausible(x, uids),
               UNCHANGED <<cr, uids, outsideVars>>
        PROVE  ReadyHonest'
  <2>1. /\ Plausible(obj'["statefulSet"], uids) /\ Recorded(obj'["statefulSet"], rolled')
        /\ rolled \subseteq rolled'
    BY <1>env, <1>set
  <2> QED BY <1>1, <1>env, <1>types, <1>more, <2>1 DEF ReadyHonest
\* A step of the operator on its own.
<1>own. ASSUME UNCHANGED <<cr, obj, cache, rolled, uids>>,
               RegistryHonest(crCache', uids), WorkerHonest(w', uids, rolled)
        PROVE  ReadyHonest'
  BY <1>1, <1>own, <1>types DEF ReadyHonest
<1>2. CASE ReconcileNotFound \/ WatchCR
  BY <1>1, <1>2, <1>own DEF ReconcileNotFound, Dequeue, WatchCR
<1>3. CASE Reconcile
  <2> DEFINE x == [Idle EXCEPT !.pc = "task", !.task = 1, !.base = crCache]
  <2>1. x.base = crCache /\ x.ready = NoReady /\ crCache.uid # 0 /\ w' = x
    BY <1>3 DEF Reconcile, Idle
  <2> HIDE DEF x
  <2>2. WorkerHonest(x, uids, rolled)
    BY <1>1, <2>1 DEF WorkerHonest, NoReady, Ready
  <2> QED BY <1>1, <1>3, <1>own, <2>1, <2>2 DEF Reconcile
<1>on. ASSUME NEW x, x.base = w.base, x.ready = w.ready, w.pc = "task"
       PROVE  WorkerHonest(x, uids, rolled)
  BY <1>1, <1>on DEF WorkerHonest
<1>4. CASE SkipTask
  <2>1. w.pc = "task" /\ w' = NextTask(w)
    BY <1>4 DEF SkipTask, InTask
  <2>2. NextTask(w).base = w.base /\ NextTask(w).ready = w.ready
    BY <1>0, <2>1, WorkerTypes
  <2>3. WorkerHonest(w', uids, rolled)
    BY <1>on, <2>1, <2>2
  <2> QED BY <1>1, <1>4, <1>own, <2>3 DEF SkipTask
<1>5. CASE NoRootCA
  <2>1. w.pc = "task" /\ w' = EndTasks(w, "noCA", "tlsSecret")
    BY <1>5 DEF NoRootCA, InTask
  <2>2. w'.base = w.base /\ w'.ready = w.ready
    BY <1>0, <2>1, WorkerTypes DEF Kind, CertKind
  <2>3. WorkerHonest(w', uids, rolled)
    BY <1>on, <2>1, <2>2
  <2> QED BY <1>1, <1>5, <1>own, <2>3 DEF NoRootCA
<1>6. ASSUME NEW k \in Handled, RefuseTask(k)
      PROVE  ReadyHonest'
  <2>1. w.pc = "task" /\ w' = EndTasks(w, Refusal(k, w.base, cache[k]), k)
    BY <1>6 DEF RefuseTask, InTask
  <2>2. Refusal(k, w.base, cache[k]) \in {"owned", "unmanaged"} /\ k \in Kind
    BY <1>6, StatefulSetHandled DEF RefuseTask, Refusal
  <2>3. w'.base = w.base /\ w'.ready = w.ready
    BY <1>0, <2>1, <2>2, WorkerTypes
  <2>4. WorkerHonest(w', uids, rolled)
    BY <1>on, <2>1, <2>3
  <2> QED BY <1>1, <1>6, <1>own, <2>4 DEF RefuseTask
\* The condition is that of the StatefulSet in the cache; what is written is
\* that StatefulSet as the registry wants it.
<1>7. ASSUME NEW k \in Handled, Upsert(k)
      PROVE  ReadyHonest'
  <2> DEFINE m == Modify(k, w.base, cache[k])
             y == [m EXCEPT !.generation = NextGeneration(k, m, cache[k])]
             r == IF k = "statefulSet" THEN readyCondition(cache[k], w.base) ELSE w.ready
             x == [w EXCEPT !.ready = r]
  <2>1. PICK o \in Outcome : /\ CreateOrUpdate(k, m, o)
                             /\ w' = IF Failed(o) THEN EndTasks(x, Reason(o), k) ELSE NextTask(x)
    BY <1>7 DEF Upsert
  <2>2. /\ w.pc = "task" /\ UNCHANGED <<cr, crCache, cache, uids>> /\ k \in Kind
    BY <1>7, StatefulSetHandled DEF Upsert, InTask
  <2>3. RegistryHonest(w.base, uids) /\ w.base.uid # 0 /\ w.base.generation # 0
    BY <1>1, <2>2 DEF WorkerHonest, RegistryHonest
  <2>4. m \in Object /\ y \in Object
    <3>1. m \in Object
      BY <1>0, <2>2, ModifyType
    <3> HIDE DEF m
    <3> QED BY <1>0, <3>1, GenerationType
  <2>5. k = "statefulSet" => Plausible(y, uids)
    BY <1>0, <1>1, <2>3, ModifyPlausible
  <2>6. /\ Plausible(obj'["statefulSet"], uids) /\ Recorded(obj'["statefulSet"], rolled')
        /\ rolled \subseteq rolled'
    <3>1. UNCHANGED <<obj, rolled>> \/ SetObject(k, y)
      BY <2>1 DEF CreateOrUpdate
    <3> HIDE DEF y, m
    <3> QED BY <1>1, <1>set, <2>4, <2>5, <3>1
  <2>7. r \in ReadyCond /\ (r = Ready => Earned(w.base, uids, rolled))
    <3>1. CASE k = "statefulSet"
      BY <1>0, <1>1, <2>3, <3>1, ReadyEarned, ReadyType
    <3>2. CASE k # "statefulSet"
      BY <1>0, <1>1, <3>2 DEF WorkerHonest, Worker
    <3> QED BY <3>1, <3>2
  <2> HIDE DEF r
  <2>8. x \in Worker /\ x.pc = "task" /\ x.base = w.base /\ x.ready = r
    BY <1>0, <2>2, <2>7, WorkerTypes
  <2> HIDE DEF x
  <2>9. w'.base = w.base /\ w'.ready = r
    <3>1. Reason(o) \in {"refused", "outage"}
      BY DEF Reason
    <3> QED BY <2>1, <2>2, <2>8, <3>1, WorkerTypes
  <2>10. WorkerHonest(w', uids, rolled)
    BY <2>3, <2>7, <2>9 DEF WorkerHonest
  <2>11. WorkerHonest(w', uids', rolled')
    <3>1. w' \in Worker
      BY <1>types DEF RegistryTypeOK
    <3>2. uids \in Nat /\ uids' = uids /\ uids <= uids /\ rolled \subseteq rolled'
      BY <1>0, <2>2, <2>6
    <3>3. \A z \in Worker : WorkerHonest(z, uids, rolled) => WorkerHonest(z, uids, rolled')
      BY <3>2, EarnedLater
    <3>4. WorkerHonest(w', uids, rolled')
      BY <2>10, <3>1, <3>3
    <3> QED BY <3>2, <3>4
  <2>12. /\ Recorded(cache["statefulSet"], rolled')
         /\ \A i : Earned(i, uids, rolled) => Earned(i, uids', rolled')
    BY <1>more, <2>2, <2>6
  <2> QED BY <1>1, <1>types, <2>2, <2>6, <2>11, <2>12 DEF ReadyHonest
<1>8. CASE Report
  <2>1. /\ w.pc = "report" /\ w' = Idle
        /\ UNCHANGED <<obj, crCache, cache, rolled, uids>>
        /\ cr' = cr \/ (cr = w.base /\ cr' = NewStatus(w.base))
    BY <1>8 DEF Report, Respond, Applied
  <2>2. CASE cr' = cr
    BY <1>1, <1>idle, <1>0, <1>own, <2>1, <2>2
  <2>3. CASE cr = w.base /\ cr' = NewStatus(w.base)
    <3>1. /\ cr'.uid = cr.uid /\ cr'.generation = cr.generation /\ cr'.spec = cr.spec
          /\ cr'.observed = cr.generation
          /\ cr'.ready = Ready => w.ready = Ready
      BY <1>0, <2>3, StatusType DEF FailedSync, Ready
    <3>2. RegistryHonest(cr', uids)
      BY <1>0, <1>1, <3>1 DEF RegistryHonest, CRObject
    <3>3. cr'.ready = Ready => Earned(cr', uids, rolled)
      BY <1>1, <2>3, <3>1 DEF WorkerHonest, Earned
    <3> QED BY <1>0, <1>1, <1>idle, <1>types, <2>1, <3>1, <3>2, <3>3 DEF ReadyHonest
  <2> QED BY <2>1, <2>2, <2>3
<1>9. ASSUME NEW k \in Handled, Watch(k)
      PROVE  ReadyHonest'
  <2>1. cache'["statefulSet"] \in {cache["statefulSet"], obj["statefulSet"]}
    BY <1>0, <1>9 DEF Watch
  <2> QED BY <1>1, <1>9, <1>types, <2>1 DEF Watch, ReadyHonest
<1>10. CASE Crash
  BY <1>0, <1>1, <1>10, <1>idle, <1>types DEF Crash, ReadyHonest
<1>11. ASSUME NEW spec \in Specs, CreateCR(spec)
       PROVE  ReadyHonest'
  <2>1. /\ uids' = uids + 1 /\ UNCHANGED <<obj, crCache, cache, w, rolled>>
        /\ cr'.uid = uids + 1 /\ cr'.generation = 1 /\ cr'.observed = 0
        /\ cr'.ready = NoReady
    BY <1>11 DEF CreateCR, NoCR
  <2>2. RegistryHonest(cr', uids') /\ cr'.ready # Ready
    BY <1>0, <2>1 DEF RegistryHonest, NoReady, Ready
  <2>3. /\ RegistryHonest(crCache, uids') /\ WorkerHonest(w, uids', rolled)
        /\ Plausible(obj["statefulSet"], uids') /\ Plausible(cache["statefulSet"], uids')
    <3>1. uids <= uids'
      BY <1>0, <2>1
    <3> QED BY <1>0, <1>1, <3>1, EarnedLater
  <2> QED BY <1>1, <1>types, <2>1, <2>2, <2>3 DEF ReadyHonest
<1>12. CASE DeleteCR
  <2>1. cr' = NoCR /\ NoCR.uid = 0 /\ UNCHANGED <<obj, crCache, cache, w, rolled, uids>>
    BY <1>12, ConstantTypes DEF DeleteCR
  <2> QED BY <1>0, <1>1, <1>absent, <1>types, <2>1 DEF ReadyHonest
<1>13. ASSUME NEW spec \in Specs, EditSpec(spec)
       PROVE  ReadyHonest'
  <2>1. /\ cr'.uid = cr.uid /\ cr'.generation = cr.generation + 1
        /\ cr'.observed = cr.observed /\ cr.observed \in Nat /\ cr.generation \in Nat
        /\ cr.uid \in Nat /\ UNCHANGED <<obj, crCache, cache, w, rolled, uids>>
    BY <1>0, <1>13 DEF EditSpec, CRObject
  <2>2. RegistryHonest(cr', uids) /\ cr'.observed # cr'.generation
    BY <1>1, <2>1 DEF RegistryHonest
  <2> QED BY <1>1, <1>types, <2>1, <2>2 DEF ReadyHonest
<1>14. ASSUME NEW k \in Handled, EditObject(k)
       PROVE  ReadyHonest'
  <2> DEFINE x == [obj[k] EXCEPT !.data.config = Foreign]
             y == [x EXCEPT !.generation = NextGeneration(k, x, obj[k])]
  <2>1. /\ x \in Object /\ x.data.config = Foreign /\ obj[k] \in Object
        /\ x.exists = obj[k].exists /\ x.owner = obj[k].owner
        /\ x.annotation = obj[k].annotation /\ x.observed = obj[k].observed
    BY <1>0, EnvironmentTypes
  <2>2. SetObject(k, y) /\ obj[k].data.config # Foreign /\ obj[k].exists
    BY <1>14 DEF EditObject
  <2> HIDE DEF x
  <2>3. /\ y \in Object /\ y.exists /\ y.owner = obj[k].owner
        /\ y.annotation = obj[k].annotation /\ y.observed = obj[k].observed
        /\ y.generation = NextGeneration(k, x, obj[k])
    <3>1. /\ y \in Object /\ y.exists = x.exists /\ y.owner = x.owner
          /\ y.annotation = x.annotation /\ y.observed = x.observed
          /\ y.generation = NextGeneration(k, x, obj[k])
      BY <2>1, GenerationType
    <3> HIDE DEF y
    <3> QED BY <2>1, <2>2, <3>1
  <2> HIDE DEF y
  <2>4. ASSUME k = "statefulSet"
        PROVE  Plausible(y, uids)
    <3>1. y.generation = obj[k].generation + 1
      BY <2>1, <2>2, <2>3, <2>4 DEF NextGeneration
    <3>2. obj[k].generation \in Nat /\ obj[k].observed \in Nat
      BY <2>1 DEF Object
    <3> QED BY <1>1, <2>3, <2>4, <3>1, <3>2 DEF Plausible
  <2> QED BY <1>14, <1>env, <2>2, <2>3, <2>4 DEF EditObject
<1>15. ASSUME NEW k \in Handled, DeleteObject(k) \/ Collect(k)
       PROVE  ReadyHonest'
  BY <1>0, <1>15, <1>env, <1>absent, ConstantTypes DEF DeleteObject, Collect
<1>16. ASSUME NEW k \in Handled, CreateForeign(k)
       PROVE  ReadyHonest'
  <2>1. PICK owner \in {0, Other}, fixed \in {Unset, Foreign}, g \in {0, 1} :
          SetObject(k, [Absent EXCEPT !.exists = TRUE, !.owner = owner, !.fixed = fixed,
                                      !.data.config = Foreign, !.generation = g])
    BY <1>16 DEF CreateForeign
  <2> DEFINE y == [Absent EXCEPT !.exists = TRUE, !.owner = owner, !.fixed = fixed,
                                 !.data.config = Foreign, !.generation = g]
  <2>3. /\ y \in Object /\ y.exists /\ y.owner = owner /\ y.annotation = 0
        /\ y.observed = 0 /\ y.updated = 0 /\ y.generation = g
    <3>1. y \in Object
      BY EnvironmentTypes
    <3>2. /\ Absent \in Object /\ Absent.annotation = 0 /\ Absent.observed = 0
          /\ Absent.updated = 0
      BY ConstantTypes DEF Absent
    <3>3. /\ y.annotation = 0 /\ y.observed = 0 /\ y.updated = 0
          /\ y.owner = owner /\ y.exists /\ y.generation = g
      BY <3>2 DEF Object
    <3> QED BY <3>1, <3>3
  <2>4. SetObject(k, y)
    BY <2>1
  <2> HIDE DEF y
  <2>5. k = "statefulSet" => Plausible(y, uids)
    BY <1>0, <2>3 DEF Plausible, Other
  <2> QED BY <1>16, <1>env, <2>3, <2>4, <2>5 DEF CreateForeign
<1>17. CASE Observe
  <2> DEFINE x == obj["statefulSet"]
             y == [x EXCEPT !.observed = x.generation, !.updated = 0]
  <2>1. SetObject("statefulSet", y) /\ x.exists /\ UNCHANGED <<cr, uids, outsideVars>>
    BY <1>17 DEF Observe, ChangeStatefulSet
  <2>2. /\ y \in Object /\ y.exists = x.exists /\ y.owner = x.owner
        /\ y.annotation = x.annotation /\ y.generation = x.generation
        /\ y.observed = x.generation /\ y.updated = 0 /\ x.generation \in Nat
    <3>1. x \in Object
      BY <1>0
    <3>2. x.generation \in Nat
      BY <3>1 DEF Object
    <3> HIDE DEF x
    <3> QED BY <3>1, <3>2, EnvironmentTypes
  <2> HIDE DEF y
  <2>3. Plausible(y, uids)
    BY <1>1, <2>1, <2>2 DEF Plausible
  <2> QED BY <1>0, <1>env, <2>1, <2>2, <2>3
<1>18. CASE RollOut
  <2> DEFINE x == obj["statefulSet"]
             y == [x EXCEPT !.updated = x.data.replicas, !.ready = x.data.replicas]
  <2>1. SetObject("statefulSet", y) /\ x.exists /\ UNCHANGED <<cr, uids, outsideVars>>
    BY <1>18 DEF RollOut, ChangeStatefulSet
  <2>2. /\ y \in Object /\ y.exists = x.exists /\ y.owner = x.owner
        /\ y.annotation = x.annotation /\ y.generation = x.generation
        /\ y.observed = x.observed /\ y.updated = y.data.replicas
    BY <1>0, EnvironmentTypes
  <2> HIDE DEF y
  <2>3. Plausible(y, uids)
    BY <1>1, <2>1, <2>2 DEF Plausible
  <2> QED BY <1>0, <1>env, <2>1, <2>2, <2>3
<1>19. CASE PodsFail
  <2> DEFINE x == obj["statefulSet"]
             y == [x EXCEPT !.ready = 0]
  <2>1. SetObject("statefulSet", y) /\ x.ready > 0 /\ UNCHANGED <<cr, uids, outsideVars>>
    BY <1>19 DEF PodsFail, ChangeStatefulSet
  <2>2. /\ y \in Object /\ y.exists = x.exists /\ y.owner = x.owner
        /\ y.annotation = x.annotation /\ y.generation = x.generation
        /\ y.observed = x.observed /\ y.updated = x.updated /\ y.data = x.data
    BY <1>0, EnvironmentTypes
  <2>3. x.exists
    BY <1>1, <2>1 DEF Plausible, Absent
  <2> HIDE DEF y
  <2>4. Plausible(y, uids)
    BY <1>1, <2>2, <2>3 DEF Plausible
  <2> QED BY <1>0, <1>env, <2>1, <2>2, <2>4
<1>20. CASE UNCHANGED vars
  BY <1>1, <1>20, <1>types DEF vars, ReadyHonest
<1> QED
  BY <1>2, <1>3, <1>4, <1>5, <1>6, <1>7, <1>8, <1>9, <1>10, <1>11, <1>12, <1>13, <1>14,
     <1>15, <1>16, <1>17, <1>18, <1>19, <1>20 DEF Next, Operator, Environment

\* There is no registry in the initial state.
LEMMA HonestFirst == Init => ReadyHonest
<1> SUFFICES ASSUME Init
             PROVE  ReadyHonest
  OBVIOUS
<1>1. RegistryTypeOK
  BY InitTypes
<1>2. /\ cr = NoCR /\ crCache = NoCR /\ w = Idle /\ uids = 0
      /\ obj["statefulSet"] = Absent /\ cache["statefulSet"] = Absent
  BY StatefulSetHandled DEF Init
<1>3. RegistryHonest(NoCR, 0) /\ Plausible(Absent, 0) /\ \A R : Recorded(Absent, R)
  BY DEF RegistryHonest, NoCR, Plausible, Recorded, Absent
<1>4. \A R : WorkerHonest(Idle, 0, R)
  BY <1>3, ConstantTypes DEF WorkerHonest, NoReady, Ready
<1> QED BY <1>1, <1>2, <1>3, <1>4, ConstantTypes DEF ReadyHonest

\* A registry that has pods and reports Ready has been rolled out, however old
\* the StatefulSet was from which the condition has been computed.
THEOREM ReadyMeansRolledOut == RegistrySpec => []ReadyIsRolledOut
<1>1. ReadyHonest /\ [Next]_vars => ReadyHonest'
  BY HonestKept
<1>2. ReadyHonest => ReadyIsRolledOut
  BY DEF ReadyHonest, ReadyIsRolledOut, Earned
<1> QED BY <1>1, <1>2, HonestFirst, PTL DEF RegistrySpec

-----------------------------------------------------------------------------
(* Nothing is missed.  What the operator has not put right it will hear of, *)
(* or it is at it: an object that a task has dealt with is as it should be, *)
(* as far as the cache knows, or an event about it is due.                  *)

\* The object x is as the registry i wants it.
Wanted(k, i, x) ==
  /\ x.exists /\ x.managed /\ x.owner = Owner(k, i) /\ x.data = Desired(k, i.spec)
  /\ k = "statefulSet" => x.annotation = i.generation

\* A task of i has dealt with k; ready is the condition that it has computed.
Done(k, i, ready) ==
  /\ k \in Handled
  /\ \/ k \in notify
     \/ Wanted(k, i, cache[k]) /\ (k = "statefulSet" => ready = readyCondition(cache[k], i))

AllDone(i, ready, T) ==
  \A j \in T : LET k == Target(Tasks[j], i.spec) IN k \in WatchedKinds => Done(k, i, ready)

\* A cached object that belongs to the registry is the present one, or an event
\* is due.
Noticed ==
  \A k \in Handled : /\ k \notin stale => cache[k] = obj[k]
                     /\ k \in stale /\ RequestFrom(k, cache[k]) => k \in notify

\* The tasks that Reconcile has done.
Past == IF w.pc = "report" THEN DOMAIN Tasks ELSE 1..(w.task - 1)

Busy ==
  w.pc # "idle" =>
    /\ w.pc = "task" => w.error = NoError /\ w.task # 0
    /\ ~queue => /\ w.base = crCache
                 /\ w.error = NoError => AllDone(w.base, w.ready, Past)

Resting ==
  w.pc = "idle" /\ ~queue /\ crCache = cr /\ cr.uid # 0 =>
    /\ cr.synced = Synced /\ cr.observed = cr.generation
    /\ cr.tlsName = SecretName(cr.spec.tls) /\ cr.host = config
    /\ AllDone(cr, cr.ready, DOMAIN Tasks)

\* ReadyHonest bounds the UIDs; the cache is not ahead of the API server.
NothingMissed ==
  /\ ReadyHonest /\ Noticed /\ Busy /\ Resting
  /\ cr.uid = crCache.uid /\ cr.uid # 0 => crCache.generation <= cr.generation

\* What a task writes is what it wants.
LEMMA ModifyWanted ==
  ASSUME NEW k \in Kind, NEW i \in CRObject, NEW old \in Object, config \in Config
  PROVE  Wanted(k, i, Modify(k, i, old))
<1>1. Modify(k, i, old).managed
  BY DEF Modify, Object
<1> QED BY <1>1, ModifyType DEF Wanted

\* Events about it lead to the registry.
LEMMA WantedWatched ==
  ASSUME NEW k \in WatchedKinds, NEW i \in CRObject, i.uid # 0, NEW x,
         x.managed, x.owner = Owner(k, i)
  PROVE  RequestFrom(k, x)
<1>1. i.uid > 0
  BY DEF CRObject
<1> QED BY <1>1 DEF RequestFrom, Owner

\* Only one task keeps the StatefulSet.
LEMMA OneStatefulSet ==
  ASSUME NEW i \in DOMAIN Tasks, NEW j \in DOMAIN Tasks, NEW spec,
         Target(Tasks[i], spec) = "statefulSet", Target(Tasks[j], spec) = "statefulSet"
  PROVE  i = j
<1>1. ASSUME NEW t, Target(t, spec) = "statefulSet"
      PROVE  t = "statefulSet"
  BY <1>1 DEF Target, CertTarget
<1>2. Tasks[i] = "statefulSet" /\ Tasks[j] = "statefulSet"
  BY <1>1
<1>3. Position("statefulSet") \in Int
  <2>1. DOMAIN AllTasks = 1..8 /\ AllTasks[7] = "statefulSet"
    BY DEF AllTasks
  <2>2. \E n \in DOMAIN AllTasks : AllTasks[n] = "statefulSet"
    BY <2>1
  <2>3. Position("statefulSet") \in DOMAIN AllTasks
    BY <2>2 DEF Position
  <2> QED BY <2>1, <2>3
<1>4. ~(i < j) /\ ~(j < i)
  BY <1>2, <1>3, RegistryAssumption
<1> QED BY <1>4, TasksType

\* What users, nodes and the StatefulSet controller do leaves the operator
\* alone; each of them changes the registry or one object.
LEMMA OutsideSteps ==
  ASSUME RegistryTypeOK, Environment
  PROVE  /\ UNCHANGED <<crCache, cache, queue, w, config>>
         /\ \/ UNCHANGED <<obj, stale, notify>>
            \/ cr' = cr /\ \E k \in Handled, x \in Object : SetObject(k, x)
<1> DEFINE OneObject == cr' = cr /\ \E k \in Handled, x \in Object : SetObject(k, x)
<1>0. "statefulSet" \in Handled /\ obj["statefulSet"] \in Object /\ Absent \in Object
  BY StatefulSetHandled, ConstantTypes DEF RegistryTypeOK
<1>1. ASSUME NEW spec \in Specs, CreateCR(spec) \/ DeleteCR \/ EditSpec(spec)
      PROVE  UNCHANGED <<crCache, cache, queue, w, config, obj, stale, notify>>
  BY <1>1 DEF CreateCR, DeleteCR, EditSpec
<1>2. ASSUME Observe \/ RollOut \/ PodsFail
      PROVE  UNCHANGED <<crCache, cache, queue, w, config>> /\ OneObject
  <2>1. \E x \in Object : ChangeStatefulSet(x)
    BY <1>0, <1>2, EnvironmentTypes DEF Observe, RollOut, PodsFail
  <2> QED BY <1>0, <2>1 DEF ChangeStatefulSet
<1>3. ASSUME NEW k \in Handled, EditObject(k)
      PROVE  UNCHANGED <<crCache, cache, queue, w, config>> /\ OneObject
  <2> DEFINE x == [obj[k] EXCEPT !.data.config = Foreign]
             y == [x EXCEPT !.generation = NextGeneration(k, x, obj[k])]
  <2>1. x \in Object /\ obj[k] \in Object
    BY EnvironmentTypes DEF RegistryTypeOK
  <2>2. SetObject(k, y)
    BY <1>3 DEF EditObject
  <2> HIDE DEF x
  <2>3. y \in Object
    BY <2>1, GenerationType
  <2> HIDE DEF y
  <2> QED BY <1>3, <2>2, <2>3 DEF EditObject
<1>4. ASSUME NEW k \in Handled, DeleteObject(k) \/ Collect(k)
      PROVE  UNCHANGED <<crCache, cache, queue, w, config>> /\ OneObject
  BY <1>0, <1>4 DEF DeleteObject, Collect
<1>5. ASSUME NEW k \in Handled, CreateForeign(k)
      PROVE  UNCHANGED <<crCache, cache, queue, w, config>> /\ OneObject
  <2>1. PICK owner \in {0, Other}, fixed \in {Unset, Foreign}, g \in {0, 1} :
          SetObject(k, [Absent EXCEPT !.exists = TRUE, !.owner = owner, !.fixed = fixed,
                                      !.data.config = Foreign, !.generation = g])
    BY <1>5 DEF CreateForeign
  <2>2. [Absent EXCEPT !.exists = TRUE, !.owner = owner, !.fixed = fixed,
                       !.data.config = Foreign, !.generation = g] \in Object
    BY EnvironmentTypes
  <2>3. \E x \in Object : SetObject(k, x)
    BY <2>1, <2>2
  <2> QED BY <1>5, <2>3 DEF CreateForeign
<1> QED
  <2>1. PICK spec \in Specs : TRUE
    BY RegistryAssumption
  <2> HIDE DEF OneObject
  <2>2. UNCHANGED <<crCache, cache, queue, w, config>> /\ (UNCHANGED <<obj, stale, notify>> \/ OneObject)
    BY <1>1, <1>2, <1>3, <1>4, <1>5, <2>1 DEF Environment
  <2> QED BY <2>2 DEF OneObject

\* Nor does a step of the operator change more than one object.
LEMMA UpsertObject ==
  ASSUME RegistryTypeOK, NEW k \in Handled, Upsert(k)
  PROVE  UNCHANGED <<obj, stale, notify>> \/ \E x \in Object : SetObject(k, x)
<1> DEFINE m == Modify(k, w.base, cache[k])
<1>1. PICK o \in Outcome : CreateOrUpdate(k, m, o)
  BY DEF Upsert
<1>2. m \in Object /\ cache[k] \in Object
  BY StatefulSetHandled, ModifyType DEF RegistryTypeOK, Worker
<1> HIDE DEF m
<1>3. [m EXCEPT !.generation = NextGeneration(k, m, cache[k])] \in Object
  BY <1>2, GenerationType
<1> QED BY <1>1, <1>3 DEF CreateOrUpdate

\* Every step keeps Noticed.
LEMMA NoticedKept ==
  ASSUME RegistryTypeOK, Noticed, [Next]_vars
  PROVE  Noticed'
<1> USE DEF Noticed
<1>1. ASSUME NEW k \in Handled, NEW x \in Object, SetObject(k, x), cache' = cache
      PROVE  Noticed'
  <2>1. \A j \in Handled \ {k} : obj'[j] = obj[j]
    BY <1>1, SetObjectType
  <2>2. /\ stale' = stale \cup {k} /\ notify \subseteq notify'
        /\ RequestFrom(k, obj[k]) => k \in notify'
    BY <1>1 DEF SetObject
  <2> QED BY <1>1, <2>1, <2>2
<1>2. ASSUME UNCHANGED <<obj, cache, stale, notify>>
      PROVE  Noticed'
  BY <1>2
<1>3. ASSUME NEW k \in Handled, Watch(k)
      PROVE  Noticed'
  BY <1>3 DEF Watch, RegistryTypeOK
<1>4. CASE Crash
  BY <1>4 DEF Crash
<1>5. CASE Environment
  BY <1>1, <1>2, <1>5, OutsideSteps
<1>6. ASSUME NEW k \in Handled, Upsert(k)
      PROVE  Noticed'
  <2>1. cache' = cache
    BY <1>6 DEF Upsert
  <2> QED BY <1>1, <1>2, <1>6, <2>1, UpsertObject
<1>7. ASSUME \/ ReconcileNotFound \/ Reconcile \/ SkipTask \/ NoRootCA \/ Report \/ WatchCR
             \/ UNCHANGED vars \/ \E k \in Handled : RefuseTask(k)
      PROVE  Noticed'
  <2>1. UNCHANGED <<obj, cache, stale, notify>>
    BY <1>7 DEF ReconcileNotFound, Dequeue, Reconcile, SkipTask, NoRootCA, Report, WatchCR,
                RefuseTask, vars
  <2> QED BY <1>2, <2>1
<1> QED BY <1>3, <1>4, <1>5, <1>6, <1>7 DEF Next, Operator

\* What has been done stays so while other objects change, and until an event
\* says otherwise.
LEMMA StillDone ==
  ASSUME RegistryTypeOK, Noticed, NEW i \in CRObject, i.uid # 0, NEW r, NEW T,
         AllDone(i, r, T), config' = config,
         \/ cache' = cache /\ notify \subseteq notify'
         \/ ~queue' /\ \E k \in Handled : Watch(k)
  PROVE  AllDone(i, r, T)'
<1> SUFFICES ASSUME NEW j \in T, Target(Tasks[j], i.spec) \in WatchedKinds
             PROVE  Done(Target(Tasks[j], i.spec), i, r)'
  BY DEF AllDone
<1> DEFINE k == Target(Tasks[j], i.spec)
<1>1. Done(k, i, r) /\ k \in Handled /\ k \in WatchedKinds
  BY DEF AllDone, Done
<1> HIDE DEF k
<1>2. ASSUME cache'[k] = cache[k], k \in notify => k \in notify'
      PROVE  Done(k, i, r)'
  BY <1>1, <1>2 DEF Done, Wanted, Desired, Owner, readyCondition, UpToDate
<1>3. ASSUME ~queue', NEW l \in Handled, Watch(l)
      PROVE  Done(k, i, r)'
  <2>1. l \in stale /\ l \notin notify
    BY <1>3 DEF Watch
  <2>2. k # l
    <3> SUFFICES ASSUME k = l
                 PROVE  FALSE
      OBVIOUS
    <3>1. Wanted(k, i, cache[k])
      BY <1>1, <2>1 DEF Done
    <3>2. RequestFrom(k, cache[k])
      BY <1>1, <3>1, WantedWatched DEF Wanted
    <3> QED BY <1>1, <2>1, <3>2 DEF Noticed
  <2>3. cache'[k] = cache[k] /\ (k \in notify => k \in notify')
    BY <1>1, <1>3, <2>2 DEF Watch, RegistryTypeOK
  <2> QED BY <1>2, <2>3
<1>4. k \in Handled => Done(k, i, r)'
  BY <1>2, <1>3
<1> QED BY <1>1, <1>4 DEF k

\* A call that succeeds leaves what the task wants in the cache, or an event is
\* due.
LEMMA UpsertDone ==
  ASSUME RegistryTypeOK, NEW k \in Handled, k \in WatchedKinds,
         NEW i \in CRObject, i.uid # 0, NEW r,
         k = "statefulSet" => r = readyCondition(cache[k], i),
         CreateOrUpdate(k, Modify(k, i, cache[k]), "ok"), UNCHANGED <<cache, config>>
  PROVE  Done(k, i, r)'
<1> DEFINE m == Modify(k, i, cache[k])
           y == [m EXCEPT !.generation = NextGeneration(k, m, cache[k])]
<1>1. k \in Kind /\ cache[k] \in Object /\ config \in Config
  BY StatefulSetHandled DEF RegistryTypeOK
<1>2. m \in Object /\ Wanted(k, i, m)
  BY <1>1, ModifyType, ModifyWanted
<1>3. CASE m = cache[k]
  BY <1>2, <1>3 DEF Done, Wanted, Desired, Owner, readyCondition, UpToDate
<1>4. CASE m # cache[k]
  <2>1. SetObject(k, y)
    BY <1>4 DEF CreateOrUpdate, Applied
  <2> HIDE DEF m
  <2>2. y.managed /\ y.owner = Owner(k, i)
    <3>1. m.managed /\ m.owner = Owner(k, i)
      BY <1>2 DEF Wanted
    <3>2. y.managed = m.managed /\ y.owner = m.owner
      BY <1>2 DEF Object
    <3> QED BY <3>1, <3>2
  <2> HIDE DEF y
  <2>3. RequestFrom(k, y)
    BY <1>1, <2>2, WantedWatched
  <2>4. k \in notify'
    BY <2>1, <2>3 DEF SetObject
  <2> QED BY <2>4 DEF Done
<1> QED BY <1>3, <1>4

\* The loop goes on to the next task or ends.
LEMMA OneMoreTask ==
  ASSUME w \in Worker, w.task # 0, w.pc = "task", w.error = NoError,
         NEW r \in ReadyCond, w' = NextTask([w EXCEPT !.ready = r])
  PROVE  /\ w.task \in DOMAIN Tasks /\ Past = 1..(w.task - 1) /\ Past' = 1..w.task
         /\ w'.pc # "idle" /\ w'.base = w.base /\ w'.ready = r
         /\ w'.pc = "task" => w'.error = NoError /\ w'.task # 0
<1>1. w.task \in 1..Len(Tasks) /\ Len(Tasks) \in Nat /\ DOMAIN Tasks = 1..Len(Tasks)
  BY TasksType DEF Worker
<1> DEFINE x == [w EXCEPT !.ready = r]
<1>2. /\ x \in Worker /\ x.pc = "task" /\ x.task = w.task /\ x.base = w.base
      /\ x.ready = r /\ x.error = NoError
  BY DEF Worker
<1> HIDE DEF x
<1>3. CASE w.task = Len(Tasks)
  <2>1. w' = [x EXCEPT !.pc = "report"]
    BY <1>2, <1>3 DEF NextTask, x
  <2>2. w'.pc = "report" /\ w'.base = w.base /\ w'.ready = r
    BY <1>2, <2>1 DEF Worker
  <2> QED BY <1>1, <1>3, <2>2 DEF Past
<1>4. CASE w.task # Len(Tasks)
  <2> DEFINE n == w.task + 1
  <2>1. w' = [x EXCEPT !.task = n]
    BY <1>2, <1>4 DEF NextTask, x
  <2>2. n \in Nat /\ n # 0 /\ n - 1 = w.task
    BY <1>1
  <2> HIDE DEF n
  <2>3. /\ w'.pc = "task" /\ w'.base = w.base /\ w'.ready = r /\ w'.error = NoError
        /\ w'.task = n
    BY <1>2, <2>1 DEF Worker
  <2> QED BY <1>1, <2>2, <2>3 DEF Past
<1> QED BY <1>3, <1>4

\* The loop ends with an error.
LEMMA TasksEnded ==
  ASSUME w \in Worker, NEW x \in Worker, NEW k,
         NEW reason \in {"owned", "unmanaged", "refused", "outage", "noCA"},
         x.base = w.base, w' = EndTasks(x, reason, k)
  PROVE  w'.pc = "report" /\ w'.base = w.base /\ w'.error # NoError
<1>1. w'.pc = "report" /\ w'.base = w.base /\ w'.error = <<reason, k>>
  BY DEF EndTasks, Worker
<1>2. <<reason, k>> # NoError
  BY DEF NoError
<1> QED BY <1>1, <1>2

\* Every step keeps Busy.
LEMMA BusyKept ==
  ASSUME NothingMissed, [Next]_vars
  PROVE  Busy'
<1>0. /\ RegistryTypeOK /\ Noticed /\ w \in Worker /\ w.base \in CRObject
      /\ w.pc # "idle" => w.base.uid # 0
  BY DEF NothingMissed, ReadyHonest, WorkerHonest, RegistryTypeOK, Worker
<1>b. Busy
  BY DEF NothingMissed
\* A step that the worker has no part in.
<1>1. ASSUME UNCHANGED <<w, config>>, ~queue' => ~queue /\ crCache' = crCache,
             \/ cache' = cache /\ notify \subseteq notify'
             \/ ~queue' /\ \E k \in Handled : Watch(k)
             \/ queue'
      PROVE  Busy'
  <2> SUFFICES ASSUME w.pc # "idle", ~queue', w.error = NoError
               PROVE  AllDone(w.base, w.ready, Past)'
    BY <1>b, <1>1 DEF Busy
  <2>1. PICK i, r, T : i = w.base /\ r = w.ready /\ T = Past
    OBVIOUS
  <2>2. AllDone(i, r, T) /\ i \in CRObject /\ i.uid # 0
    BY <1>0, <1>b, <1>1, <2>1 DEF Busy
  <2>3. w'.base = i /\ w'.ready = r /\ Past' = T
    BY <1>1, <2>1 DEF Past
  <2>4. AllDone(i, r, T)'
    BY <1>0, <1>1, <2>2, StillDone
  <2> QED BY <2>3, <2>4 DEF AllDone
<1>2. ASSUME w'.pc = "idle"
      PROVE  Busy'
  BY <1>2 DEF Busy
<1>3. ASSUME w.pc = "task", UNCHANGED <<crCache, queue>>, w'.pc = "report",
             w'.base = w.base, w'.error # NoError
      PROVE  Busy'
  BY <1>b, <1>3 DEF Busy
\* A task is done: those before it are still, and it is.
<1>4. ASSUME w.pc = "task", UNCHANGED <<crCache, cache, queue, config>>,
             notify \subseteq notify', NEW i, i = w.base, NEW n, n = w.task,
             NEW r \in ReadyCond, w' = NextTask([w EXCEPT !.ready = r]),
             r # w.ready => Target(Tasks[n], i.spec) = "statefulSet",
             Target(Tasks[n], i.spec) \in WatchedKinds => Done(Target(Tasks[n], i.spec), i, r)'
      PROVE  Busy'
  <2>1. w.error = NoError /\ n # 0
    BY <1>b, <1>4 DEF Busy
  <2>2. /\ n \in DOMAIN Tasks /\ Past = 1..(n - 1) /\ Past' = 1..n
        /\ w'.pc # "idle" /\ w'.base = i /\ w'.ready = r
        /\ w'.pc = "task" => w'.error = NoError /\ w'.task # 0
    BY <1>0, <1>4, <2>1, OneMoreTask
  <2>3. n \in Nat /\ DOMAIN Tasks = 1..Len(Tasks) /\ Len(Tasks) \in Nat
    BY <2>2, TasksType
  <2>4. ASSUME ~queue
        PROVE  i = crCache /\ AllDone(i, r, 1..n)'
    <3>1. i = crCache /\ AllDone(i, w.ready, 1..(n - 1)) /\ i.uid # 0
      BY <1>0, <1>b, <1>4, <2>1, <2>2, <2>4 DEF Busy
    <3>2. AllDone(i, r, 1..(n - 1))
      <4> SUFFICES ASSUME NEW j \in 1..(n - 1), Target(Tasks[j], i.spec) \in WatchedKinds
                   PROVE  Done(Target(Tasks[j], i.spec), i, r)
        BY DEF AllDone
      <4>1. Done(Target(Tasks[j], i.spec), i, w.ready)
        BY <3>1 DEF AllDone
      <4>2. r # w.ready => Target(Tasks[j], i.spec) # "statefulSet"
        <5>1. j \in DOMAIN Tasks /\ j # n
          BY <2>2, <2>3
        <5> QED BY <1>4, <2>2, <5>1, OneStatefulSet
      <4> QED BY <4>1, <4>2 DEF Done
    <3>3. AllDone(i, r, 1..(n - 1))'
      BY <1>0, <1>4, <3>1, <3>2, StillDone
    <3>4. 1..n = (1..(n - 1)) \cup {n}
      BY <2>2, <2>3
    <3> QED BY <1>4, <3>1, <3>3, <3>4 DEF AllDone
  <2> QED BY <1>4, <2>2, <2>4 DEF Busy, AllDone
<1>5. CASE ReconcileNotFound \/ Report \/ Crash
  <2>1. w'.pc = "idle"
    BY <1>5, ConstantTypes DEF ReconcileNotFound, Dequeue, Report, Crash
  <2> QED BY <1>2, <2>1
<1>6. CASE Reconcile
  <2> DEFINE x == [Idle EXCEPT !.pc = "task", !.task = 1, !.base = crCache]
  <2>1. w' = x /\ crCache' = crCache
    BY <1>6 DEF Reconcile
  <2>2. /\ x.pc = "task" /\ x.task = 1 /\ x.base = crCache /\ x.error = NoError
    BY DEF Idle
  <2> HIDE DEF x
  <2>3. Past' = {}
    BY <2>1, <2>2 DEF Past
  <2> QED BY <2>1, <2>2, <2>3 DEF Busy, AllDone
<1>7. CASE SkipTask
  <2>1. PICK i, n, r : i = w.base /\ n = w.task /\ r = w.ready
    OBVIOUS
  <2>2. /\ w.pc = "task" /\ Target(Tasks[n], i.spec) = "none" /\ w' = NextTask(w)
        /\ UNCHANGED <<crCache, cache, queue, config, notify>>
    BY <1>7, <2>1 DEF SkipTask, InTask
  <2>3. w = [w EXCEPT !.ready = r] /\ r \in ReadyCond
    BY <1>0, <2>1 DEF Worker
  <2>4. "none" \notin WatchedKinds
    BY DEF WatchedKinds, Kind, CertKind
  <2> QED BY <1>4, <2>1, <2>2, <2>3, <2>4
<1>8. ASSUME NoRootCA \/ \E k \in Handled : RefuseTask(k)
      PROVE  Busy'
  <2>1. /\ w.pc = "task" /\ UNCHANGED <<crCache, queue>>
        /\ \E reason \in {"owned", "unmanaged", "refused", "outage", "noCA"}, k \in Kind :
             w' = EndTasks(w, reason, k)
    <3>1. "tlsSecret" \in Kind
      BY DEF Kind, CertKind
    <3> QED BY <1>8, <3>1, StatefulSetHandled DEF NoRootCA, RefuseTask, InTask, Refusal
  <2>2. w'.pc = "report" /\ w'.base = w.base /\ w'.error # NoError
    BY <1>0, <2>1, TasksEnded
  <2> QED BY <1>3, <2>1, <2>2
<1>9. ASSUME NEW k \in Handled, Upsert(k)
      PROVE  Busy'
  <2>1. PICK i, n, r : /\ i = w.base /\ n = w.task
                       /\ r = IF k = "statefulSet" THEN readyCondition(cache[k], i) ELSE w.ready
    OBVIOUS
  <2>2. PICK o \in Outcome :
          /\ CreateOrUpdate(k, Modify(k, i, cache[k]), o)
          /\ w' = IF Failed(o) THEN EndTasks([w EXCEPT !.ready = r], Reason(o), k)
                               ELSE NextTask([w EXCEPT !.ready = r])
    BY <1>9, <2>1 DEF Upsert
  <2>3. /\ w.pc = "task" /\ UNCHANGED <<crCache, cache, queue, config>>
        /\ k = Target(Tasks[n], i.spec)
    BY <1>9, <2>1 DEF Upsert, InTask
  <2>4. r \in ReadyCond /\ i \in CRObject /\ i.uid # 0
    BY <1>0, <2>1, <2>3, ReadyType DEF RegistryTypeOK, Worker
  <2>5. CASE Failed(o)
    <3>1. Reason(o) \in {"refused", "outage"} /\ [w EXCEPT !.ready = r] \in Worker
      BY <1>0, <2>4, WorkerTypes DEF Reason
    <3>2. [w EXCEPT !.ready = r].base = w.base
      BY <1>0 DEF Worker
    <3>3. w'.pc = "report" /\ w'.base = w.base /\ w'.error # NoError
      BY <1>0, <2>2, <2>5, <3>1, <3>2, TasksEnded
    <3> QED BY <1>3, <2>3, <3>3
  <2>6. CASE ~Failed(o)
    <3>1. k \in WatchedKinds => Done(k, i, r)'
      BY <1>0, <2>1, <2>2, <2>3, <2>4, <2>6, UpsertDone DEF Failed
    <3>2. notify \subseteq notify'
      BY <1>0, <1>9, UpsertObject DEF SetObject
    <3> QED BY <1>4, <2>1, <2>2, <2>3, <2>4, <2>6, <3>1, <3>2
  <2> QED BY <2>5, <2>6
<1>10. CASE WatchCR
  BY <1>1, <1>10 DEF WatchCR
<1>11. ASSUME NEW k \in Handled, Watch(k)
       PROVE  Busy'
  BY <1>0, <1>1, <1>11 DEF Watch, RegistryTypeOK
<1>12. CASE Environment
  <2>1. UNCHANGED <<crCache, cache, queue, w, config>> /\ notify \subseteq notify'
    BY <1>0, <1>12, OutsideSteps DEF SetObject
  <2> QED BY <1>1, <2>1
<1>13. CASE UNCHANGED vars
  BY <1>1, <1>13 DEF vars
<1> QED
  BY <1>5, <1>6, <1>7, <1>8, <1>9, <1>10, <1>11, <1>12, <1>13 DEF Next, Operator

\* Every step keeps Resting: the status that Report leaves behind is of the
\* registry in the cache; one that it had to write the cache has not seen.
LEMMA RestingKept ==
  ASSUME NothingMissed, [Next]_vars
  PROVE  Resting'
<1>0. /\ RegistryTypeOK /\ Noticed /\ w \in Worker /\ w.base \in CRObject
      /\ cr \in CRObject /\ crCache \in CRObject /\ config \in Config /\ uids \in Nat
      /\ w.pc # "idle" => w.base.uid # 0
      /\ crCache.uid <= uids
      /\ cr.uid = crCache.uid /\ cr.uid # 0 => crCache.generation <= cr.generation
  BY DEF NothingMissed, ReadyHonest, WorkerHonest, RegistryHonest, RegistryTypeOK, Worker
<1>b. Busy /\ Resting
  BY DEF NothingMissed
\* A step that leaves the registry and the worker alone.
<1>1. ASSUME UNCHANGED <<cr, crCache, w, config>>, ~queue' => ~queue,
             \/ cache' = cache /\ notify \subseteq notify'
             \/ ~queue' /\ \E k \in Handled : Watch(k)
             \/ queue'
      PROVE  Resting'
  <2> SUFFICES ASSUME w.pc = "idle", ~queue', crCache = cr, cr.uid # 0
               PROVE  AllDone(cr, cr.ready, DOMAIN Tasks)'
    BY <1>b, <1>1 DEF Resting
  <2>1. PICK i, r : i = cr /\ r = cr.ready
    OBVIOUS
  <2>2. AllDone(i, r, DOMAIN Tasks) /\ i \in CRObject /\ i.uid # 0
    BY <1>0, <1>b, <1>1, <2>1 DEF Resting
  <2>3. AllDone(i, r, DOMAIN Tasks)'
    BY <1>0, <1>1, <2>2, StillDone
  <2> QED BY <1>1, <2>1, <2>3 DEF AllDone
\* The operator has something to do, or the registry is gone.
<1>2. ASSUME w'.pc # "idle" \/ queue' \/ crCache' # cr' \/ cr'.uid = 0
      PROVE  Resting'
  BY <1>2 DEF Resting
<1>3. CASE ReconcileNotFound
  <2>1. crCache' = crCache /\ cr' = cr /\ crCache.uid = 0
    BY <1>3 DEF ReconcileNotFound
  <2> QED BY <1>2, <2>1
<1>4. CASE Reconcile
  <2>1. w'.pc # "idle"
    BY <1>4 DEF Reconcile, Idle
  <2> QED BY <1>2, <2>1
<1>5. ASSUME SkipTask \/ NoRootCA \/ \E k \in Handled : RefuseTask(k) \/ Upsert(k)
      PROVE  Resting'
  <2>1. w.pc = "task"
    BY <1>5 DEF SkipTask, NoRootCA, RefuseTask, Upsert, InTask
  <2>2. w'.pc # "idle"
    <3>1. CASE SkipTask
      BY <1>0, <2>1, <3>1, WorkerTypes DEF SkipTask
    <3>2. CASE NoRootCA \/ \E k \in Handled : RefuseTask(k)
      BY <3>2, <1>0 DEF NoRootCA, RefuseTask, EndTasks, Worker
    <3>3. ASSUME NEW k \in Handled, Upsert(k)
          PROVE  w'.pc # "idle"
      <4>1. PICK r \in ReadyCond, o \in Outcome :
              w' = IF Failed(o) THEN EndTasks([w EXCEPT !.ready = r], Reason(o), k)
                                ELSE NextTask([w EXCEPT !.ready = r])
        <5>1. w.ready \in ReadyCond /\ readyCondition(cache[k], w.base) \in ReadyCond
          BY <1>0, ReadyType DEF Worker, RegistryTypeOK
        <5> QED BY <3>3, <5>1 DEF Upsert
      <4>2. [w EXCEPT !.ready = r] \in Worker /\ [w EXCEPT !.ready = r].pc = "task"
        BY <1>0, <2>1, WorkerTypes
      <4> DEFINE x == [w EXCEPT !.ready = r]
      <4> HIDE DEF x
      <4>3. NextTask(x).pc \in {"task", "report"} /\ EndTasks(x, Reason(o), k).pc = "report"
        <5>1. x \in Worker /\ x.pc = "task"
          BY <4>2 DEF x
        <5>2. k \in Kind /\ Reason(o) \in {"refused", "outage"}
          BY StatefulSetHandled DEF Reason
        <5> QED BY <5>1, <5>2, WorkerTypes
      <4> QED BY <4>1, <4>3 DEF x
    <3> QED BY <1>5, <3>1, <3>2, <3>3
  <2> QED BY <1>2, <2>2
<1>6. CASE Report
  <2>1. /\ w.pc = "report" /\ w'.pc = "idle"
        /\ UNCHANGED <<cache, crCache, notify, config>>
    BY <1>6, ConstantTypes DEF Report
  <2> SUFFICES ASSUME ~queue', crCache' = cr', cr'.uid # 0
               PROVE  Resting'
    BY <1>2
  <2>2. PICK o \in Outcome :
          /\ IF NewStatus(w.base) = w.base THEN o = "ok" /\ UNCHANGED <<cr, faults>>
             ELSE /\ Respond(o, cr = w.base)
                  /\ cr' = IF Applied(o) THEN NewStatus(w.base) ELSE cr
          /\ queue' = (queue \/ Requeue(o))
    BY <1>6 DEF Report
  <2>3. ~queue /\ w.error = NoError /\ o = "ok"
    BY <2>2 DEF Requeue, Failed
  <2>4. w.base = crCache /\ AllDone(w.base, w.ready, DOMAIN Tasks)
    BY <1>b, <2>1, <2>3 DEF Busy, Past
  <2>5. NewStatus(w.base) = w.base /\ cr' = cr
    BY <2>1, <2>2, <2>3, <2>4 DEF Respond, Applied
  <2>6. cr = NewStatus(cr) /\ cr = w.base
    BY <2>1, <2>4, <2>5
  <2>7. /\ cr.ready = w.ready /\ cr.synced = Synced /\ cr.observed = cr.generation
        /\ cr.tlsName = SecretName(cr.spec.tls) /\ cr.host = config
    <3>1. PICK i \in CRObject : i = cr
      BY <1>0
    <3>2. /\ NewStatus(i).ready = w.ready /\ NewStatus(i).synced = Synced
          /\ NewStatus(i).observed = i.generation
          /\ NewStatus(i).tlsName = SecretName(i.spec.tls) /\ NewStatus(i).host = config
      BY <2>3 DEF NewStatus, CRObject
    <3> QED BY <2>6, <3>1, <3>2
  <2>8. AllDone(cr, cr.ready, DOMAIN Tasks)'
    <3>1. PICK i, r : i = cr /\ r = cr.ready
      OBVIOUS
    <3>2. AllDone(i, r, DOMAIN Tasks) /\ i \in CRObject /\ i.uid # 0
      BY <1>0, <2>1, <2>4, <2>6, <2>7, <3>1
    <3>3. AllDone(i, r, DOMAIN Tasks)'
      BY <1>0, <2>1, <3>2, StillDone
    <3> QED BY <2>5, <3>1, <3>3 DEF AllDone
  <2> QED BY <2>1, <2>5, <2>7, <2>8 DEF Resting
<1>7. CASE WatchCR
  BY <1>2, <1>7 DEF WatchCR
<1>8. ASSUME NEW k \in Handled, Watch(k)
      PROVE  Resting'
  BY <1>0, <1>1, <1>8 DEF Watch, RegistryTypeOK
<1>9. CASE Crash
  <2>1. queue' \/ cr'.uid = 0
    BY <1>9 DEF Crash
  <2> QED BY <1>2, <2>1
\* No user makes the registry what the cache says it is.
<1>10. CASE Environment
  <2>1. UNCHANGED <<crCache, cache, queue, w, config>> /\ notify \subseteq notify'
    BY <1>0, <1>10, OutsideSteps DEF SetObject
  <2>2. CASE cr' = cr
    BY <1>1, <2>1, <2>2
  <2>3. ASSUME NEW spec \in Specs, CreateCR(spec)
        PROVE  Resting'
    <3>1. cr'.uid = uids + 1
      BY <2>3 DEF CreateCR, NoCR
    <3>2. crCache.uid \in Nat
      BY <1>0 DEF CRObject
    <3>3. crCache' # cr'
      BY <1>0, <2>1, <3>1, <3>2
    <3> QED BY <1>2, <3>3
  <2>4. CASE DeleteCR
    BY <1>2, <2>4, ConstantTypes DEF DeleteCR
  <2>5. ASSUME NEW spec \in Specs, EditSpec(spec)
        PROVE  Resting'
    <3>1. cr'.uid = cr.uid /\ cr'.generation = cr.generation + 1 /\ cr.uid # 0
      BY <1>0, <2>5 DEF EditSpec, CRObject
    <3>2. cr.generation \in Nat /\ crCache.generation \in Nat
      BY <1>0 DEF CRObject
    <3>3. crCache' # cr'
      BY <1>0, <2>1, <3>1, <3>2
    <3> QED BY <1>2, <3>3
  <2>6. cr' = cr \/ DeleteCR \/ \E spec \in Specs : CreateCR(spec) \/ EditSpec(spec)
    BY <1>10 DEF Environment, Observe, RollOut, PodsFail, ChangeStatefulSet, EditObject,
                 DeleteObject, CreateForeign, Collect
  <2> QED BY <2>2, <2>3, <2>4, <2>5, <2>6
<1>11. CASE UNCHANGED vars
  BY <1>1, <1>11 DEF vars
<1> QED
  BY <1>3, <1>4, <1>5, <1>6, <1>7, <1>8, <1>9, <1>10, <1>11 DEF Next, Operator

\* Every step keeps NothingMissed.
LEMMA NothingMissedKept ==
  ASSUME NothingMissed, [Next]_vars
  PROVE  NothingMissed'
<1>0. /\ ReadyHonest /\ Noticed /\ RegistryTypeOK
      /\ cr \in CRObject /\ crCache \in CRObject /\ w.base \in CRObject /\ uids \in Nat
      /\ w \in Worker /\ config \in Config /\ crCache.uid <= uids
      /\ cr.uid = crCache.uid /\ cr.uid # 0 => crCache.generation <= cr.generation
  BY DEF NothingMissed, ReadyHonest, RegistryHonest, RegistryTypeOK, Worker
<1>1. ReadyHonest' /\ Noticed' /\ Busy' /\ Resting'
  BY <1>0, HonestKept, NoticedKept, BusyKept, RestingKept
<1> DEFINE Behind == cr.uid = crCache.uid /\ cr.uid # 0 => crCache.generation <= cr.generation
<1>2. Behind'
  <2>1. ASSUME crCache' = crCache, cr'.uid = cr.uid, cr'.generation = cr.generation
        PROVE  Behind'
    BY <1>0, <2>1
  <2>2. CASE Report
    <3>1. crCache' = crCache /\ (cr' = cr \/ (cr = w.base /\ cr' = NewStatus(w.base)))
      BY <2>2 DEF Report, Respond, Applied
    <3> QED BY <1>0, <2>1, <3>1, StatusType
  <2>3. CASE WatchCR \/ Crash
    <3>1. crCache' = cr' /\ cr' = cr /\ cr.generation \in Nat
      BY <1>0, <2>3 DEF WatchCR, Crash, CRObject
    <3> QED BY <3>1
  <2>4. ASSUME NEW spec \in Specs, CreateCR(spec) \/ EditSpec(spec)
        PROVE  Behind'
    <3>1. /\ crCache' = crCache /\ crCache.uid \in Nat
          /\ crCache.generation \in Nat /\ cr.generation \in Nat
      BY <1>0, <2>4 DEF CreateCR, EditSpec, CRObject
    <3>2. \/ cr'.uid = uids + 1
          \/ cr'.uid = cr.uid /\ cr'.generation = cr.generation + 1
      BY <1>0, <2>4 DEF CreateCR, EditSpec, CRObject, NoCR
    <3> QED BY <1>0, <3>1, <3>2
  <2>5. CASE DeleteCR
    BY <2>5, ConstantTypes DEF DeleteCR
  <2>6. \/ Report \/ WatchCR \/ Crash \/ DeleteCR
        \/ \E spec \in Specs : CreateCR(spec) \/ EditSpec(spec)
        \/ UNCHANGED <<cr, crCache>>
    BY DEF Next, Operator, Environment, ReconcileNotFound, Reconcile, SkipTask, NoRootCA,
           RefuseTask, Upsert, Watch, Observe, RollOut, PodsFail, ChangeStatefulSet,
           EditObject, DeleteObject, CreateForeign, Collect, vars
  <2> QED BY <2>1, <2>2, <2>3, <2>4, <2>5, <2>6
<1> QED BY <1>1, <1>2 DEF NothingMissed

\* In the initial state there is no registry and nothing to do.
LEMMA NothingMissedFirst == Init => NothingMissed
<1> SUFFICES ASSUME Init
             PROVE  NothingMissed
  OBVIOUS
<1>1. Noticed
  BY DEF Init, Noticed
<1>2. Busy /\ Resting /\ cr.uid = 0
  BY ConstantTypes DEF Init, Busy, Resting
<1> QED BY <1>1, <1>2, HonestFirst DEF NothingMissed

\* When the operator has nothing left to do, the registry's status is true and
\* every object that is watched is as its present spec wants it, whatever was
\* changed, failed or read too early: the object is cached, and nobody has
\* changed it without an event.
THEOREM SettledSynced == RegistrySpec => []SettledIsSynced
<1>1. NothingMissed /\ [Next]_vars => NothingMissed'
  BY NothingMissedKept
<1>2. NothingMissed => SettledIsSynced
  <2> SUFFICES ASSUME NothingMissed, Settled, cr.uid # 0
               PROVE  /\ cr.synced = Synced /\ cr.observed = cr.generation
                      /\ cr.tlsName = SecretName(cr.spec.tls) /\ cr.host = config
                      /\ cr.ready = Ready <=> RolledOut(obj["statefulSet"], cr.spec.replicas)
                      /\ \A i \in DOMAIN Tasks :
                           LET k == Target(Tasks[i], cr.spec) IN
                           k \in WatchedKinds =>
                             /\ obj[k].exists
                             /\ obj[k].data = Desired(k, cr.spec)
                             /\ obj[k].owner = IF k = "claim" /\ ~cr.spec.deleteClaim
                                               THEN 0 ELSE cr.uid
    BY DEF SettledIsSynced
  <2>1. /\ cr.synced = Synced /\ cr.observed = cr.generation
        /\ cr.tlsName = SecretName(cr.spec.tls) /\ cr.host = config
        /\ AllDone(cr, cr.ready, DOMAIN Tasks)
    BY DEF NothingMissed, Settled, Resting
  <2>2. notify = {} /\ \A k \in Handled : cache[k] = obj[k]
    BY DEF NothingMissed, Settled, Noticed, ReadyHonest, RegistryTypeOK
  <2>3. ASSUME NEW i \in DOMAIN Tasks, NEW k, k = Target(Tasks[i], cr.spec),
               k \in WatchedKinds
        PROVE  /\ Wanted(k, cr, obj[k])
               /\ k = "statefulSet" => cr.ready = readyCondition(obj[k], cr)
    BY <2>1, <2>2, <2>3 DEF AllDone, Done
  <2>4. cr.ready = Ready <=> RolledOut(obj["statefulSet"], cr.spec.replicas)
    <3>1. PICK i \in DOMAIN Tasks : Tasks[i] = "statefulSet"
      BY RegistryAssumption
    <3>2. Target(Tasks[i], cr.spec) = "statefulSet" /\ "statefulSet" \in WatchedKinds
      BY <3>1 DEF Target, WatchedKinds, Kind
    <3> DEFINE x == obj["statefulSet"]
    <3>3. cr.ready = readyCondition(x, cr) /\ x.annotation = cr.generation
      BY <2>3, <3>2 DEF Wanted
    <3> HIDE DEF x
    <3>4. "Updating" # "True"
      OBVIOUS
    <3>5. readyCondition(x, cr) = Ready <=> RolledOut(x, cr.spec.replicas)
      BY <3>3, <3>4 DEF readyCondition, UpToDate, RolledOut, Ready
    <3> QED BY <3>3, <3>5 DEF x
  <2>5. \A i \in DOMAIN Tasks :
          LET k == Target(Tasks[i], cr.spec) IN
          k \in WatchedKinds => /\ obj[k].exists /\ obj[k].data = Desired(k, cr.spec)
                                /\ obj[k].owner = IF k = "claim" /\ ~cr.spec.deleteClaim
                                                  THEN 0 ELSE cr.uid
    BY <2>3 DEF Wanted, Owner
  <2> QED BY <2>1, <2>4, <2>5
<1> QED BY <1>1, <1>2, NothingMissedFirst, PTL DEF RegistrySpec
=============================================================================
