-------------------------- MODULE ImageBuildEnvProofs --------------------------
(***************************************************************************)
(* Proofs about ImageBuildEnv, for all sets of ImageBuildEnvs and inputs,  *)
(* all specs, and all bounds.                                              *)
(***************************************************************************)
EXTENDS ImageBuildEnv, SequenceTheorems, WellFoundedInduction, TLAPS

USE DEF storeVars, cacheVars, workVars, otherVars

-----------------------------------------------------------------------------
(* Types.                                                                  *)

\* What a condition can be about, and what errors of calls are reported as.
About == Secret \cup {"none", "env", "redis", "pod", "svc", "conf"}
Refusals == {"conflict", "exists", "notFound"}

\* What does not exist, an idle worker and conditions are well-typed.
LEMMA ConstantTypes ==
  /\ NoEnv \in EnvObject /\ NoEnv.uid = 0
  /\ NoInput \in Input /\ ~NoInput.exists /\ NoInput.owners = NoOwner
  /\ Nothing \in Output /\ Nothing = [conf |-> NoConf, redis |-> NoRedis, pod |-> NoPod, svc |-> NoSvc]
  /\ Idle \in Worker /\ Idle.pc = "idle" /\ Idle.inputs = <<>> /\ Idle.refs = <<>>
  /\ Ready \in Cond /\ <<"Pending", "none">> \in Cond
  /\ \A s \in Secret : <<"MissingSecret", s>> \in Cond /\ <<"InvalidSecret", s>> \in Cond
  /\ \A o \in Outcome : \A r \in Refusals : \A s \in About : <<Reason(o, r), s>> \in Cond
<1>1. NoCond \in Cond /\ Ready \in Cond /\ <<"Pending", "none">> \in Cond
  BY DEF NoCond, Cond, Ready
<1>2. \A s \in Secret : <<"MissingSecret", s>> \in Cond /\ <<"InvalidSecret", s>> \in Cond
  BY DEF Cond
<1>3. \A o \in Outcome : \A r \in Refusals : \A s \in About : <<Reason(o, r), s>> \in Cond
  BY DEF Reason, Cond, Refusals, About
<1>4. <<>> \in Seq(Secret) /\ <<>> \in Seq(Input)
  BY EmptySeq
<1>5. NoEnv \in EnvObject
  BY <1>1, <1>4 DEF NoEnv, EnvObject
<1>6. NoInput \in Input
  BY DEF NoInput, NoOwner, Input
<1>7. Nothing \in Output
  BY DEF Nothing, Output, NoConf, NoRedis, NoPod, NoSvc
<1>8. Idle \in Worker
  BY <1>1, <1>4, <1>5 DEF Idle, Worker, Step
<1> QED BY <1>1, <1>2, <1>3, <1>5, <1>6, <1>7, <1>8 DEF NoEnv, NoInput, Nothing, Idle

\* Versions of an ImageBuildEnv are well-typed.
LEMMA EnvObjectTypes ==
  ASSUME NEW x \in EnvObject
  PROVE  /\ \A refs \in Seq(Secret) :
              LET y == [x EXCEPT !.refs = refs]
              IN y \in EnvObject /\ y.refs = refs /\ \A z \in EnvObject :
                   z = [y EXCEPT !.refs = z.refs] <=> z = [x EXCEPT !.refs = z.refs]
         /\ [x EXCEPT !.finalizer = TRUE] \in EnvObject
         /\ [x EXCEPT !.deleting = TRUE] \in EnvObject
         /\ \A c \in Cond : [x EXCEPT !.ready = c] \in EnvObject
         /\ \A spec \in Specs, n \in Nat :
              [x EXCEPT !.spec = spec, !.generation = n] \in EnvObject
         /\ x.spec.secrets \in Seq(Secret) /\ x.spec.redis \in BOOLEAN
<1>1. x.spec.secrets \in Seq(Secret) /\ x.spec.redis \in BOOLEAN
  <2>1. x.spec \in [secrets: Seq(Secret), redis: BOOLEAN] \cup {Spec0}
    BY EnvAssumption DEF EnvObject
  <2>2. Spec0 \in [secrets: Seq(Secret), redis: BOOLEAN]
    BY EmptySeq DEF Spec0
  <2> QED BY <2>1, <2>2
<1>2. ASSUME NEW refs \in Seq(Secret)
      PROVE  LET y == [x EXCEPT !.refs = refs]
             IN y \in EnvObject /\ y.refs = refs /\ \A z \in EnvObject :
                  z = [y EXCEPT !.refs = z.refs] <=> z = [x EXCEPT !.refs = z.refs]
  BY DEF EnvObject
<1>3. [x EXCEPT !.finalizer = TRUE] \in EnvObject /\ [x EXCEPT !.deleting = TRUE] \in EnvObject
  BY DEF EnvObject
<1>4. ASSUME NEW c \in Cond
      PROVE  [x EXCEPT !.ready = c] \in EnvObject
  BY DEF EnvObject
<1>5. ASSUME NEW spec \in Specs, NEW n \in Nat
      PROVE  [x EXCEPT !.spec = spec, !.generation = n] \in EnvObject
  BY DEF EnvObject
<1> QED BY <1>1, <1>2, <1>3, <1>4, <1>5

\* So are versions of an input.
LEMMA InputTypes ==
  ASSUME NEW x \in Input
  PROVE  /\ \A e \in Env, n \in Nat :
              LET y == [x EXCEPT !.owners[e] = n]
              IN /\ y \in Input /\ y.exists = x.exists /\ y.owners[e] = n
                 /\ \A d \in Env \ {e} : y.owners[d] = x.owners[d]
         /\ \A d \in Nat : [x EXCEPT !.data = d] \in Input
         /\ \A E : [x EXCEPT !.owners = [e \in Env |-> IF e \in E THEN 0 ELSE @[e]]] \in Input
<1>1. ASSUME NEW e \in Env, NEW n \in Nat
      PROVE  LET y == [x EXCEPT !.owners[e] = n]
             IN /\ y \in Input /\ y.exists = x.exists /\ y.owners[e] = n
                /\ \A d \in Env \ {e} : y.owners[d] = x.owners[d]
  <2>1. x.owners \in [Env -> Nat]
    BY DEF Input
  <2>2. [x.owners EXCEPT ![e] = n] \in [Env -> Nat]
    BY <2>1
  <2> QED BY <2>1, <2>2 DEF Input
<1>2. ASSUME NEW d \in Nat
      PROVE  [x EXCEPT !.data = d] \in Input
  BY DEF Input
<1>3. ASSUME NEW E
      PROVE  [x EXCEPT !.owners = [e \in Env |-> IF e \in E THEN 0 ELSE @[e]]] \in Input
  BY DEF Input
<1> QED BY <1>1, <1>2, <1>3

\* A set of positions has a last one.
LEMMA LastPosition ==
  ASSUME NEW n \in Nat, NEW I \in SUBSET (1..n), I # {}
  PROVE  \E i \in I : \A j \in I : j <= i
<1> DEFINE R == OpToRel(<, Nat)
           T == {n - i : i \in I}
<1>1. T \subseteq Nat /\ T # {}
  <2>1. \A i \in I : n - i \in Nat
    OBVIOUS
  <2>2. PICK i \in I : TRUE
    OBVIOUS
  <2>3. n - i \in T
    OBVIOUS
  <2> QED BY <2>1, <2>3
<1>2. IsWellFoundedOn(R, Nat)
  BY NatLessThanWellFounded
<1>3. \A x, y \in Nat : y < x <=> <<y, x>> \in R
  BY DEF OpToRel
<1> HIDE DEF R, T
<1>4. PICK x \in T : \A y \in T : ~(<<y, x>> \in R)
  BY <1>1, <1>2, WFMin
<1>5. ASSUME NEW y \in T
      PROVE  x <= y
  <2>1. x \in Nat /\ y \in Nat
    BY <1>1
  <2>2. ~(y < x)
    BY <1>3, <1>4, <2>1
  <2> QED BY <2>1, <2>2
<1>6. PICK i \in I : x = n - i
  BY DEF T
<1>7. \A j \in I : n - i <= n - j
  BY <1>5, <1>6 DEF T
<1> QED BY <1>7

\* So merging inputs picks one of them for each registry.
LEMMA MergeType ==
  ASSUME NEW names \in Seq(Secret), NEW inputs \in Seq(Input), Len(inputs) = Len(names)
  PROVE  Merge(names, inputs) \in [Host -> Nat] /\ First(inputs) \in Nat
<1>1. /\ Len(names) \in Nat /\ DOMAIN names = 1..Len(names) /\ DOMAIN inputs = 1..Len(names)
      /\ \A i \in 1..Len(names) : inputs[i] \in Input
  BY LenProperties
<1>2. \A i \in 1..Len(names) : inputs[i].data \in Nat
  BY <1>1 DEF Input
<1>3. First(inputs) \in Nat
  <2>1. CASE inputs = <<>>
    BY <2>1 DEF First
  <2>2. CASE inputs # <<>>
    <3>1. 1 \in 1..Len(names)
      BY <1>1, <2>2, EmptySeq
    <3> QED BY <1>2, <2>2, <3>1 DEF First
  <2> QED BY <2>1, <2>2
<1>4. ASSUME NEW h \in Host
      PROVE  Merge(names, inputs)[h] \in Nat
  <2> DEFINE I == {i \in DOMAIN names : h \in HostsOf[names[i]]}
             last == CHOOSE i \in I : \A j \in I : j <= i
  <2>1. Merge(names, inputs)[h] = IF I = {} THEN 0 ELSE inputs[last].data
    BY DEF Merge
  <2>2. I \in SUBSET (1..Len(names))
    BY <1>1
  <2> HIDE DEF I
  <2>3. CASE I = {}
    BY <2>1, <2>3
  <2>4. CASE I # {}
    <3>1. last \in I
      BY <1>1, <2>2, <2>4, LastPosition
    <3> QED BY <1>2, <2>1, <2>2, <2>4, <3>1
  <2> QED BY <2>3, <2>4
<1>5. Merge(names, inputs) = [h \in Host |-> Merge(names, inputs)[h]]
  BY DEF Merge
<1> QED BY <1>3, <1>4, <1>5

\* Reconcile has read each of the inputs that it refers to; those still to
\* handle are the last ones.
Aligned(x) ==
  /\ Len(x.inputs) = Len(x.refs)
  /\ \A i \in DOMAIN x.inputs : x.inputs[i].exists
  /\ x.pc = "addRefs" =>
       /\ Len(x.todo) <= Len(x.refs)
       /\ \A i \in 1..Len(x.todo) : x.todo[i] = x.refs[Len(x.refs) - Len(x.todo) + i]

Typed(x) == x \in Worker /\ Aligned(x)

EnvTyped == EnvTypeOK /\ \A e \in Env : Aligned(w[e])

\* Reconcile's local state as it goes on.
LEMMA WorkerTypes ==
  ASSUME NEW x, Typed(x)
  PROVE  /\ Typed(Idle)
         /\ \A p \in Step \ {"addRefs"} : Typed([x EXCEPT !.pc = p])
         /\ \A p \in Step \ {"addRefs"}, c \in Cond : Typed([x EXCEPT !.pc = p, !.cond = c])
         /\ \A n \in Nat : Typed([x EXCEPT !.pc = "pod", !.password = n])
         /\ \A b \in BOOLEAN : Typed([x EXCEPT !.pc = "svc", !.ready = b])
         /\ \A i \in EnvObject : /\ Typed([x EXCEPT !.instance = i])
                                  /\ Typed([x EXCEPT !.base = i, !.instance = i])
         /\ x.pc # "addRefs" => \A t \in Seq(Secret) : Typed([x EXCEPT !.todo = t])
         /\ Typed([x EXCEPT !.pc = "addRefs", !.todo = x.refs])
         /\ x.pc = "addRefs" /\ x.todo # <<>> =>
              /\ Typed([x EXCEPT !.todo = Tail(@)])
              /\ Head(x.todo) \in Secret
              /\ x.inputs[Len(x.refs) - Len(x.todo) + 1] \in Input
              /\ x.inputs[Len(x.refs) - Len(x.todo) + 1].exists
              /\ Head(x.todo) \in Range(x.refs)
<1> USE DEF Typed
<1>1. Typed(Idle)
  BY ConstantTypes, EmptySeq DEF Aligned
<1>2. ASSUME NEW p \in Step \ {"addRefs"}
      PROVE  /\ Typed([x EXCEPT !.pc = p])
             /\ \A c \in Cond : Typed([x EXCEPT !.pc = p, !.cond = c])
  BY DEF Worker, Aligned
<1>3. \A n \in Nat : Typed([x EXCEPT !.pc = "pod", !.password = n])
  BY DEF Worker, Aligned, Step
<1>4. \A b \in BOOLEAN : Typed([x EXCEPT !.pc = "svc", !.ready = b])
  BY DEF Worker, Aligned, Step
<1>5. ASSUME NEW i \in EnvObject
      PROVE  Typed([x EXCEPT !.instance = i]) /\ Typed([x EXCEPT !.base = i, !.instance = i])
  BY DEF Worker, Aligned
<1>6. x.pc # "addRefs" => \A t \in Seq(Secret) : Typed([x EXCEPT !.todo = t])
  BY DEF Worker, Aligned
<1>7. /\ x.refs \in Seq(Secret) /\ x.inputs \in Seq(Input) /\ x.todo \in Seq(Secret)
      /\ Len(x.refs) \in Nat /\ Len(x.todo) \in Nat /\ DOMAIN x.inputs = 1..Len(x.refs)
      /\ DOMAIN x.refs = 1..Len(x.refs)
  BY LenProperties DEF Worker, Aligned
<1>8. Typed([x EXCEPT !.pc = "addRefs", !.todo = x.refs])
  <2> DEFINE y == [x EXCEPT !.pc = "addRefs", !.todo = x.refs]
  <2>1. y \in Worker /\ y.inputs = x.inputs /\ y.refs = x.refs /\ y.todo = x.refs
    BY <1>7 DEF Worker, Step
  <2> HIDE DEF y
  <2>2. \A i \in 1..Len(y.todo) : y.todo[i] = y.refs[Len(y.refs) - Len(y.todo) + i]
    BY <1>7, <2>1
  <2>3. Aligned(y)
    BY <1>7, <2>1, <2>2 DEF Aligned
  <2> QED BY <2>1, <2>3 DEF y
<1>9. ASSUME x.pc = "addRefs" /\ x.todo # <<>>
      PROVE  /\ Typed([x EXCEPT !.todo = Tail(@)])
             /\ Head(x.todo) \in Secret
             /\ x.inputs[Len(x.refs) - Len(x.todo) + 1] \in Input
             /\ x.inputs[Len(x.refs) - Len(x.todo) + 1].exists
             /\ Head(x.todo) \in Range(x.refs)
  <2> DEFINE t == Tail(x.todo)
             y == [x EXCEPT !.todo = t]
             n == Len(x.refs) - Len(x.todo)
  <2>1. /\ t \in Seq(Secret) /\ Len(t) = Len(x.todo) - 1 /\ Len(x.todo) >= 1
        /\ \A i \in 1..Len(t) : t[i] = x.todo[i + 1]
        /\ Head(x.todo) \in Secret /\ Head(x.todo) = x.todo[1]
    BY <1>7, <1>9, HeadTailProperties, EmptySeq
  <2>2. /\ Len(x.todo) <= Len(x.refs)
        /\ \A i \in 1..Len(x.todo) : x.todo[i] = x.refs[n + i]
    BY <1>9 DEF Aligned
  <2> HIDE DEF t
  <2>3. y \in Worker /\ y.inputs = x.inputs /\ y.refs = x.refs /\ y.todo = t
    BY <2>1 DEF Worker
  <2> HIDE DEF y
  <2>n. /\ Len(x.refs) \in Nat /\ Len(x.todo) \in Nat /\ Len(t) = Len(x.todo) - 1
        /\ Len(x.todo) >= 1 /\ Len(x.todo) <= Len(x.refs)
    BY <1>7, <2>1, <2>2
  <2>a. \A r, m \in Nat : m >= 1 /\ m <= r =>
          /\ (r - m) + 1 \in 1..r /\ 1 \in 1..m /\ m - 1 <= r
          /\ \A l, i \in Int : l = m - 1 => (r - m) + (i + 1) = r - l + i
    OBVIOUS
  <2>4. ASSUME NEW i \in 1..Len(t)
        PROVE  t[i] = x.refs[Len(x.refs) - Len(t) + i]
    <3>1. i + 1 \in 1..Len(x.todo) /\ t[i] = x.todo[i + 1]
      BY <2>n, <2>1
    <3>2. n + (i + 1) = Len(x.refs) - Len(t) + i
      <4>1. i \in Int /\ Len(t) \in Int
        BY <2>n
      <4> QED BY <4>1, <2>n, <2>a
    <3> QED BY <2>2, <3>1, <3>2
  <2>5. Aligned(y)
    <3>1. Len(t) <= Len(x.refs)
      BY <2>n
    <3>2. Len(x.inputs) = Len(x.refs) /\ \A i \in DOMAIN x.inputs : x.inputs[i].exists
      BY DEF Aligned
    <3> QED BY <2>3, <2>4, <3>1, <3>2 DEF Aligned
  <2>6. n + 1 \in 1..Len(x.refs) /\ 1 \in 1..Len(x.todo)
    BY <2>n, <2>a
  <2>7. x.inputs[n + 1] \in Input /\ x.inputs[n + 1].exists
    <3>1. DOMAIN x.inputs = 1..Len(x.refs) /\ \A i \in DOMAIN x.inputs : x.inputs[i].exists
      BY <1>7 DEF Aligned
    <3>2. n + 1 \in DOMAIN x.inputs
      BY <2>6, <3>1
    <3> HIDE DEF n
    <3>3. x.inputs[n + 1] \in Input
      BY <1>7, <2>6, ElementOfSeq
    <3> QED BY <3>1, <3>2, <3>3
  <2>8. Head(x.todo) = x.refs[n + 1]
    BY <2>1, <2>2, <2>6
  <2>9. Head(x.todo) \in Range(x.refs)
    BY <1>7, <2>6, <2>8 DEF Range
  <2> QED BY <2>1, <2>3, <2>5, <2>7, <2>9 DEF t, y
<1> QED BY <1>1, <1>2, <1>3, <1>4, <1>5, <1>6, <1>8, <1>9

\* Outputs are well-typed, each of its kind.
LEMMA OutputTypes ==
  ASSUME NEW y \in Output
  PROVE  /\ \A z \in Output, k \in Kind : [y EXCEPT ![k] = z[k]] \in Output
         /\ \A owner \in Nat, auths \in [Host -> Nat], first \in Nat, password \in Nat :
              [y EXCEPT !["conf"] = [owner |-> owner, auths |-> auths, first |-> first,
                                     password |-> password]] \in Output
         /\ \A owner \in Nat, password \in Nat :
              [y EXCEPT !["redis"] = [owner |-> owner, password |-> password]] \in Output
         /\ \A owner \in Nat : [y EXCEPT !["pod"] = [NoPod EXCEPT !.owner = owner]] \in Output
         /\ \A password \in Nat : [y EXCEPT !["pod"] = [y.pod EXCEPT !.ready = TRUE, !.password = password]] \in Output
         /\ [y EXCEPT !["pod"] = [y.pod EXCEPT !.ready = FALSE, !.password = 0]] \in Output
         /\ \A owner \in Nat : [y EXCEPT !["svc"] = [owner |-> owner]] \in Output
         /\ \A k \in Kind : y[k].owner \in Nat
         /\ y.redis.password \in Nat /\ y.pod.ready \in BOOLEAN
<1> USE DEF Output, Kind
<1>1. ASSUME NEW z \in Output, NEW k \in Kind
      PROVE  [y EXCEPT ![k] = z[k]] \in Output
  <2>1. CASE k = "conf"
    BY <2>1
  <2>2. CASE k = "redis"
    BY <2>2
  <2>3. CASE k = "pod"
    BY <2>3
  <2>4. CASE k = "svc"
    BY <2>4
  <2> QED BY <2>1, <2>2, <2>3, <2>4
<1>2. \A owner \in Nat, auths \in [Host -> Nat], first \in Nat, password \in Nat :
        [y EXCEPT !["conf"] = [owner |-> owner, auths |-> auths, first |-> first,
                               password |-> password]] \in Output
  OBVIOUS
<1>3. \A owner \in Nat, password \in Nat :
        [y EXCEPT !["redis"] = [owner |-> owner, password |-> password]] \in Output
  OBVIOUS
<1>4. \A owner \in Nat : [y EXCEPT !["pod"] = [NoPod EXCEPT !.owner = owner]] \in Output
  BY DEF NoPod
<1>5. \A password \in Nat :
        [y EXCEPT !["pod"] = [y.pod EXCEPT !.ready = TRUE, !.password = password]] \in Output
  OBVIOUS
<1>6. [y EXCEPT !["pod"] = [y.pod EXCEPT !.ready = FALSE, !.password = 0]] \in Output
  OBVIOUS
<1>7. \A owner \in Nat : [y EXCEPT !["svc"] = [owner |-> owner]] \in Output
  OBVIOUS
<1>8. \A k \in Kind : y[k].owner \in Nat
  OBVIOUS
<1> QED BY <1>1, <1>2, <1>3, <1>4, <1>5, <1>6, <1>7, <1>8

\* API calls keep types.
LEMMA CallTypes ==
  ASSUME EnvTypeOK, NEW e \in Env
  PROVE  /\ \A object \in EnvObject, o \in Outcome :
              UpdateEnv(e, object, o) => env' \in [Env -> EnvObject] /\ faults' \in Nat
         /\ \A s \in Secret, old, x \in Input, o \in Outcome :
              UpdateInput(s, old, x, o) => /\ input' \in [Secret -> Input]
                                           /\ notify' \in [Secret -> SUBSET Env]
                                           /\ faults' \in Nat
         /\ \A s \in Secret, x \in Input :
              SetInput(s, x) => /\ input' \in [Secret -> Input]
                                /\ notify' \in [Secret -> SUBSET Env]
         /\ \A k \in Kind : \A x :
              SetOutput(e, k, x) /\ [out[e] EXCEPT ![k] = x] \in Output =>
                /\ out' \in [Env -> Output] /\ changed' \in [Env -> SUBSET Kind]
         /\ \A k \in Kind : \A x : \A o \in Outcome :
              CreateOrUpdate(e, k, x, o) /\ [out[e] EXCEPT ![k] = x] \in Output =>
                /\ out' \in [Env -> Output] /\ changed' \in [Env -> SUBSET Kind]
                /\ faults' \in Nat
<1> USE DEF EnvTypeOK
<1>1. \A o, valid : Respond(o, valid) => faults' \in Nat
  BY DEF Respond
<1>2. \A object \in EnvObject, o \in Outcome :
        UpdateEnv(e, object, o) => env' \in [Env -> EnvObject] /\ faults' \in Nat
  BY <1>1 DEF UpdateEnv
<1>3. ASSUME NEW s \in Secret, NEW x \in Input, SetInput(s, x)
      PROVE  input' \in [Secret -> Input] /\ notify' \in [Secret -> SUBSET Env]
  <2>1. OwnersOf(x) \in SUBSET Env
    BY DEF OwnersOf
  <2> QED BY <1>3, <2>1 DEF SetInput
<1>4. \A s \in Secret, old, x \in Input, o \in Outcome :
        UpdateInput(s, old, x, o) => /\ input' \in [Secret -> Input]
                                     /\ notify' \in [Secret -> SUBSET Env]
                                     /\ faults' \in Nat
  BY <1>1, <1>3 DEF UpdateInput
<1>5. ASSUME NEW k \in Kind, NEW x, SetOutput(e, k, x), [out[e] EXCEPT ![k] = x] \in Output
      PROVE  out' \in [Env -> Output] /\ changed' \in [Env -> SUBSET Kind]
  BY <1>5 DEF SetOutput
<1>6. ASSUME NEW k \in Kind, NEW x, NEW o \in Outcome, CreateOrUpdate(e, k, x, o),
             [out[e] EXCEPT ![k] = x] \in Output
      PROVE  /\ out' \in [Env -> Output] /\ changed' \in [Env -> SUBSET Kind]
             /\ faults' \in Nat
  BY <1>1, <1>5, <1>6 DEF CreateOrUpdate
<1> QED BY <1>2, <1>3, <1>4, <1>5, <1>6

\* So does going on with Reconcile, however it goes on.
Proceeds ==
  /\ w' \in [Env -> Worker] /\ \A d \in Env : Aligned(w'[d])
  /\ queue' \subseteq Env /\ timer' \subseteq Env

LEMMA ProceedTypes ==
  ASSUME EnvTyped, NEW e \in Env
  PROVE  /\ \A x : Typed(x) /\ Continue(e, x) => Proceeds
         /\ \A x : \A c \in Cond : Typed(x) /\ GotoReport(e, x, c) => Proceeds
         /\ \A x : \A c \in Cond : Typed(x) /\ RefsFailed(e, x, c) => Proceeds
         /\ \A requeue, after : Return(e, requeue, after) => Proceeds
<1> USE DEF EnvTyped, EnvTypeOK
<1>1. ASSUME NEW x, Typed(x), w' = [w EXCEPT ![e] = x]
      PROVE  w' \in [Env -> Worker] /\ \A d \in Env : Aligned(w'[d])
  BY <1>1 DEF Typed
<1>2. ASSUME NEW x, Typed(x), Continue(e, x)
      PROVE  Proceeds
  BY <1>1, <1>2 DEF Continue, Proceeds
<1>3. ASSUME NEW x, NEW c \in Cond, Typed(x), GotoReport(e, x, c)
      PROVE  Proceeds
  <2>1. Typed([x EXCEPT !.pc = "report", !.cond = c])
    BY <1>3, WorkerTypes DEF Step
  <2> QED BY <1>2, <1>3, <2>1 DEF GotoReport
<1>4. ASSUME NEW requeue, NEW after, Return(e, requeue, after)
      PROVE  Proceeds
  <2>1. Typed(Idle)
    BY WorkerTypes DEF Typed
  <2>2. w' = [w EXCEPT ![e] = Idle]
    BY <1>4 DEF Return
  <2>3. queue' \subseteq Env /\ timer' \subseteq Env
    BY <1>4 DEF Return
  <2> QED BY <1>1, <2>1, <2>2, <2>3 DEF Proceeds
<1>5. ASSUME NEW x, NEW c \in Cond, Typed(x), RefsFailed(e, x, c)
      PROVE  Proceeds
  BY <1>3, <1>4, <1>5 DEF RefsFailed
<1> QED BY <1>2, <1>3, <1>4, <1>5

\* What Reconcile reads is well-typed; it refers to the inputs it has read.
LEMMA ReconcileTypes ==
  ASSUME EnvTyped, NEW e \in Env, Reconcile(e)
  PROVE  EnvTyped'
<1> USE DEF EnvTyped, EnvTypeOK
<1>1. \A x : Typed(x) /\ Dequeue(e) /\ Load(e, x) => EnvTyped'
  <2> SUFFICES ASSUME NEW x, Typed(x), Dequeue(e), Load(e, x)
               PROVE  EnvTyped'
    OBVIOUS
  <2>1. Typed([x EXCEPT !.base = envCache[e], !.instance = envCache[e]])
    BY WorkerTypes
  <2> QED BY <2>1 DEF Dequeue, Load, Typed
<1>2. Typed(Idle) /\ \A p \in Step \ {"addRefs"}, c \in Cond : Typed([Idle EXCEPT !.pc = p, !.cond = c])
  BY WorkerTypes DEF Typed
<1>3. envCache[e].refs \in Seq(Secret) /\ envCache[e].spec.secrets \in Seq(Secret)
  <2>1. envCache[e] \in EnvObject
    OBVIOUS
  <2> QED BY <2>1, EnvObjectTypes DEF EnvObject
<1>4. CASE ReconcileNothing(e)
  BY <1>4 DEF ReconcileNothing, Dequeue
<1>5. CASE ReconcileDeleted(e)
  <2>1. Typed([Idle EXCEPT !.pc = "delRefs", !.todo = envCache[e].refs])
    BY <1>2, <1>3 DEF Typed, Worker, Aligned, Step
  <2> QED BY <1>1, <1>5, <2>1 DEF ReconcileDeleted
<1>6. CASE ReconcileNew(e)
  <2>1. Typed([Idle EXCEPT !.pc = "addFinalizer"])
    BY <1>2, WorkerTypes DEF Step
  <2> QED BY <1>1, <1>6, <2>1 DEF ReconcileNew
<1>7. CASE ReconcileInputs(e)
  <2> DEFINE names == envCache[e].spec.secrets
             inputs == [i \in DOMAIN names |-> inputCache[names[i]]]
             x == [Idle EXCEPT !.pc = "delRefs", !.refs = names, !.todo = envCache[e].refs,
                               !.inputs = inputs]
  <2>1. /\ names \in Seq(Secret) /\ DOMAIN names = 1..Len(names) /\ Len(names) \in Nat
        /\ \A i \in DOMAIN names : names[i] \in Secret
    BY <1>3, LenProperties
  <2>2. CASE /\ \A i \in DOMAIN names : inputCache[names[i]].exists
             /\ Dequeue(e) /\ Load(e, x)
    <3>1. inputs \in Seq(Input) /\ Len(inputs) = Len(names)
          /\ \A i \in DOMAIN inputs : inputs[i].exists
      <4>1. inputs \in [1..Len(names) -> Input]
        BY <2>1
      <4>2. inputs \in Seq(Input)
        BY <2>1, <4>1
      <4>3. DOMAIN inputs = 1..Len(inputs) /\ Len(inputs) \in Nat
        BY <4>2, LenProperties
      <4>4. Len(inputs) = Len(names)
        BY <2>1, <4>1, <4>3
      <4> QED BY <2>2, <4>2, <4>4
    <3> HIDE DEF names, inputs
    <3>2. Typed(x)
      BY <1>2, <1>3, <2>1, <3>1 DEF Typed, Worker, Aligned, Step
    <3> HIDE DEF x
    <3> QED BY <1>1, <2>2, <3>2
  <2>3. CASE \E i \in DOMAIN names :
               /\ Dequeue(e)
               /\ Load(e, [Idle EXCEPT !.pc = "report", !.cond = <<"MissingSecret", names[i]>>])
    <3>1. PICK i \in DOMAIN names :
               /\ Dequeue(e)
               /\ Load(e, [Idle EXCEPT !.pc = "report", !.cond = <<"MissingSecret", names[i]>>])
      BY <2>3
    <3>2. <<"MissingSecret", names[i]>> \in Cond
      BY <2>1, ConstantTypes
    <3>3. Typed([Idle EXCEPT !.pc = "report", !.cond = <<"MissingSecret", names[i]>>])
      BY <1>2, <3>2 DEF Step
    <3> QED BY <1>1, <3>1, <3>3
  <2> QED BY <1>7, <2>2, <2>3 DEF ReconcileInputs
<1> QED BY <1>4, <1>5, <1>6, <1>7 DEF Reconcile

\* Work keeps the types.
LEMMA WorkTypes ==
  ASSUME EnvTyped, NEW e \in Env, Work(e)
  PROVE  EnvTyped'
<1> DEFINE x == w[e]
<1>x. /\ Typed(x) /\ x \in Worker /\ x.instance \in EnvObject /\ x.base \in EnvObject
      /\ x.cond \in Cond /\ x.refs \in Seq(Secret) /\ x.inputs \in Seq(Input)
      /\ x.todo \in Seq(Secret) /\ x.password \in Nat /\ x.ready \in BOOLEAN
      /\ Len(x.inputs) = Len(x.refs)
  BY DEF EnvTyped, EnvTypeOK, Typed, Worker, Aligned
<1>i. x.instance.uid \in Nat
  BY <1>x DEF EnvObject
<1>c. \A o \in Outcome, r \in Refusals, s \in About : <<Reason(o, r), s>> \in Cond
  BY ConstantTypes
<1>o. out[e] \in Output /\ outCache[e] \in Output /\ versions \in Nat
  BY DEF EnvTyped, EnvTypeOK
<1>own. \A k \in Kind : OwnerFor(e, k) \in Nat
  BY <1>i, <1>o, OutputTypes DEF OwnerFor
<1>ref. \A k \in Kind : Refusal(e, k) \in Refusals
  BY DEF Refusal, Refusals
\* A step that writes none of the objects, the ImageBuildEnv, an input or an
\* output.
<1>none. ASSUME Proceeds, UNCHANGED <<storeVars, cacheVars, versions, uids, faults, edits>>
         PROVE  EnvTyped'
  BY <1>none DEF Proceeds, EnvTyped, EnvTypeOK
<1>env. ASSUME Proceeds, env' \in [Env -> EnvObject], faults' \in Nat,
               UNCHANGED <<input, notify, out, changed, cacheVars, versions, uids, edits>>
        PROVE  EnvTyped'
  BY <1>env DEF Proceeds, EnvTyped, EnvTypeOK
<1>input. ASSUME Proceeds, input' \in [Secret -> Input], notify' \in [Secret -> SUBSET Env],
                 faults' \in Nat, UNCHANGED <<env, out, changed, cacheVars, versions, uids, edits>>
          PROVE  EnvTyped'
  BY <1>input DEF Proceeds, EnvTyped, EnvTypeOK
<1>out. ASSUME Proceeds, out' \in [Env -> Output], changed' \in [Env -> SUBSET Kind],
               faults' \in Nat, versions' \in Nat,
               UNCHANGED <<env, input, notify, cacheVars, uids, edits>>
        PROVE  EnvTyped'
  BY <1>out DEF Proceeds, EnvTyped, EnvTypeOK
<1>1. CASE DelRef(e)
  <2>1. PICK i \in DOMAIN x.todo :
          LET s == x.todo[i]
              next == [x EXCEPT !.todo = SubSeq(@, i + 1, Len(@))]
          IN
          /\ x.pc = "delRefs"
          /\ \/ Continue(e, next) /\ UNCHANGED <<input, notify, faults>>
             \/ \E o \in Outcome :
                  /\ UpdateInput(s, inputCache[s], [inputCache[s] EXCEPT !.owners[e] = 0], o)
                  /\ \/ Continue(e, next)
                     \/ RefsFailed(e, x, <<Reason(o, "conflict"), s>>)
    BY <1>1 DEF DelRef
  <2> DEFINE s == x.todo[i]
             next == [x EXCEPT !.todo = SubSeq(@, i + 1, Len(@))]
             y == [inputCache[s] EXCEPT !.owners[e] = 0]
  <2>2. s \in Secret /\ i \in 1..Len(x.todo) /\ Len(x.todo) \in Nat
    BY <1>x, LenProperties, ElementOfSeq
  <2>3. SubSeq(x.todo, i + 1, Len(x.todo)) \in Seq(Secret)
    <3>1. \A j \in (i + 1)..Len(x.todo) : x.todo[j] \in Secret
      BY <1>x, <2>2, ElementOfSeq
    <3>2. i + 1 \in Int /\ Len(x.todo) \in Int
      BY <2>2
    <3> QED BY <3>1, <3>2, SubSeqProperties
  <2>4. Typed(next)
    BY <1>x, <2>1, <2>3, WorkerTypes
  <2>5. inputCache[s] \in Input /\ y \in Input
    <3>1. inputCache[s] \in Input
      BY <2>2 DEF EnvTyped, EnvTypeOK
    <3> QED BY <3>1, InputTypes
  <2>6. \A o \in Outcome : <<Reason(o, "conflict"), s>> \in Cond
    BY <1>c, <2>2 DEF Refusals, About
  <2> HIDE DEF s, y, next
  <2>7. Proceeds
    BY <1>x, <2>1, <2>4, <2>6, ProceedTypes DEF s, next
  <2>8. /\ input' \in [Secret -> Input] /\ notify' \in [Secret -> SUBSET Env]
        /\ faults' \in Nat
    <3>1. \/ UNCHANGED <<input, notify, faults>>
          \/ \E o \in Outcome : UpdateInput(s, inputCache[s], y, o)
      BY <2>1 DEF s, y
    <3>2. EnvTypeOK
      BY DEF EnvTyped
    <3> QED BY <2>2, <2>5, <3>1, <3>2, CallTypes DEF EnvTypeOK
  <2>9. UNCHANGED <<env, out, changed, envCache, inputCache, outCache, versions, uids, edits>>
    BY <1>1 DEF DelRef
  <2>10. overlooked' \subseteq Secret \X Env \X Nat
    <3>1. \A t \in Secret : Reference(t, e) \subseteq Secret \X Env \X Nat
      <4> SUFFICES ASSUME NEW t \in Secret
                   PROVE  Reference(t, e) \subseteq Secret \X Env \X Nat
        OBVIOUS
      <4>1. input[t].owners[e] \in Nat
        BY DEF EnvTyped, EnvTypeOK, Input
      <4> QED BY <4>1 DEF Reference
    <3>2. \/ UNCHANGED overlooked
          \/ \E t \in Secret : overlooked' = overlooked \cup Reference(t, e)
      <4>1. \A j \in DOMAIN x.todo : x.todo[j] \in Secret
        BY <1>x, LenProperties, ElementOfSeq
      <4> QED BY <1>1, <4>1 DEF DelRef
    <3> QED BY <3>1, <3>2 DEF EnvTyped, EnvTypeOK
  <2> QED BY <2>7, <2>8, <2>9, <2>10 DEF Proceeds, EnvTyped, EnvTypeOK
<1>2. CASE UpdateRefs(e)
  <2> DEFINE i == [x.instance EXCEPT !.refs = x.refs]
             next == [x EXCEPT !.pc = "addRefs", !.todo = x.refs]
  <2>1. i \in EnvObject
    BY <1>x, EnvObjectTypes
  <2>2. Typed(next) /\ Typed([next EXCEPT !.base = i, !.instance = i]) /\ Typed([x EXCEPT !.instance = i])
    <3>1. Typed(next)
      BY <1>x, WorkerTypes
    <3> HIDE DEF next, i
    <3> QED BY <1>x, <2>1, <3>1, WorkerTypes
  <2>3. \A o \in Outcome : <<Reason(o, "conflict"), "env">> \in Cond
    BY <1>c DEF Refusals, About
  <2>4. \/ Continue(e, next) /\ UNCHANGED <<env, faults>>
        \/ \E o \in Outcome :
             /\ UpdateEnv(e, i, o)
             /\ \/ Continue(e, [next EXCEPT !.base = i, !.instance = i])
                \/ RefsFailed(e, [x EXCEPT !.instance = i], <<Reason(o, "conflict"), "env">>)
    BY <1>2 DEF UpdateRefs
  <2> HIDE DEF next, i
  <2>5. Proceeds
    BY <2>2, <2>3, <2>4, ProceedTypes
  <2>6. env' \in [Env -> EnvObject] /\ faults' \in Nat
    BY <2>1, <2>4, CallTypes DEF EnvTyped, EnvTypeOK
  <2> QED BY <1>2, <1>env, <2>5, <2>6 DEF UpdateRefs
<1>3. CASE AddRef(e)
  <2> DEFINE s == Head(x.todo)
             old == x.inputs[Len(x.refs) - Len(x.todo) + 1]
             y == [old EXCEPT !.owners[e] = x.instance.uid]
             next == [x EXCEPT !.todo = Tail(@)]
  <2>1. x.pc = "addRefs" /\ x.todo # <<>>
    BY <1>3 DEF AddRef
  <2>2. Typed(next) /\ s \in Secret /\ old \in Input
    BY <1>x, <2>1, WorkerTypes
  <2>3. \/ Continue(e, next) /\ UNCHANGED <<input, notify, faults>>
        \/ \E o \in Outcome, r \in Refusals :
             /\ UpdateInput(s, old, y, o)
             /\ Continue(e, next) \/ RefsFailed(e, x, <<Reason(o, r), s>>)
    BY <1>3 DEF AddRef, Refusals
  <2>4. y \in Input
    BY <1>i, <2>2, InputTypes
  <2>5. \A o \in Outcome, r \in Refusals : <<Reason(o, r), s>> \in Cond
    BY <1>c, <2>2 DEF About
  <2> HIDE DEF s, old, y, next
  <2>6. Proceeds
    BY <1>x, <2>2, <2>3, <2>5, ProceedTypes
  <2>7. /\ input' \in [Secret -> Input] /\ notify' \in [Secret -> SUBSET Env]
        /\ faults' \in Nat
    <3>1. EnvTypeOK
      BY DEF EnvTyped
    <3> QED BY <2>2, <2>3, <2>4, <3>1, CallTypes DEF EnvTypeOK
  <2> QED BY <1>3, <1>input, <2>6, <2>7 DEF AddRef
<1>4. CASE RefsDone(e)
  <2>1. \/ \E p \in Step \ {"addRefs"} : Continue(e, [x EXCEPT !.pc = p])
        \/ \E j \in DOMAIN x.inputs : GotoReport(e, x, <<"InvalidSecret", x.refs[j]>>)
    BY <1>4 DEF RefsDone, Step
  <2>2. \A j \in DOMAIN x.inputs : <<"InvalidSecret", x.refs[j]>> \in Cond
    <3>1. \A j \in DOMAIN x.inputs : x.refs[j] \in Secret
      BY <1>x, LenProperties, ElementOfSeq
    <3> QED BY <3>1, ConstantTypes
  <2>3. \A p \in Step \ {"addRefs"} : Typed([x EXCEPT !.pc = p])
    BY <1>x, WorkerTypes
  <2> HIDE DEF x
  <2>4. Proceeds
    BY <1>x, <2>1, <2>2, <2>3, ProceedTypes
  <2> QED BY <1>4, <1>none, <2>4 DEF RefsDone
<1>5. CASE RemoveFinalizer(e) \/ AddFinalizer(e)
  <2>1. \E o \in Outcome, object \in {NoEnv, [x.instance EXCEPT !.finalizer = TRUE]} :
          /\ UpdateEnv(e, object, o)
          /\ \/ \E requeue, after \in BOOLEAN : Return(e, requeue, after)
             \/ Continue(e, [x EXCEPT !.pc = "reportError", !.cond = <<Reason(o, "conflict"), "env">>])
    BY <1>5 DEF RemoveFinalizer, AddFinalizer, Failed
  <2>2. NoEnv \in EnvObject /\ [x.instance EXCEPT !.finalizer = TRUE] \in EnvObject
    BY <1>x, EnvObjectTypes, ConstantTypes
  <2>3. \A o \in Outcome :
          Typed([x EXCEPT !.pc = "reportError", !.cond = <<Reason(o, "conflict"), "env">>])
    BY <1>c, <1>x, WorkerTypes DEF Refusals, About, Step
  <2> HIDE DEF x
  <2>4. Proceeds
    BY <2>1, <2>3, ProceedTypes
  <2>5. env' \in [Env -> EnvObject] /\ faults' \in Nat
    <3>1. EnvTypeOK
      BY DEF EnvTyped
    <3> QED BY <2>1, <2>2, <3>1, CallTypes
  <2> QED BY <1>5, <1>env, <2>4, <2>5 DEF RemoveFinalizer, AddFinalizer
<1>6. CASE ReportError(e) \/ Report(e)
  <2>1. \E o \in Outcome : updateStatus(e, o)
    BY <1>6 DEF ReportError, Report
  <2>2. \E requeue, after \in BOOLEAN : Return(e, requeue, after)
    BY <1>6 DEF ReportError, Report, Failed
  <2>3. [x.instance EXCEPT !.ready = x.cond] \in EnvObject
    BY <1>x, EnvObjectTypes
  <2>4. \/ UNCHANGED <<env, faults>>
        \/ \E o \in Outcome : UpdateEnv(e, [x.instance EXCEPT !.ready = x.cond], o)
    BY <2>1 DEF updateStatus
  <2> HIDE DEF x
  <2>5. Proceeds
    BY <2>2, ProceedTypes
  <2>6. env' \in [Env -> EnvObject] /\ faults' \in Nat
    BY <2>3, <2>4, CallTypes DEF EnvTyped, EnvTypeOK
  <2> QED BY <1>6, <1>env, <2>5, <2>6 DEF ReportError, Report
<1>7. CASE UpsertRedisSecret(e)
  <2> DEFINE p == RedisPassword(e)
             y == [owner |-> OwnerFor(e, "redis"), password |-> p]
  <2>1. PICK o \in Outcome :
          /\ versions' = IF Applied(o) /\ p > versions THEN p ELSE versions
          /\ CreateOrUpdate(e, "redis", y, o)
          /\ \/ Continue(e, [x EXCEPT !.pc = "pod", !.password = p])
             \/ GotoReport(e, x, <<Reason(o, Refusal(e, "redis")), "redis">>)
    BY <1>7 DEF UpsertRedisSecret
  <2>2. p \in Nat
    <3>1. outCache[e].redis.password \in Nat
      BY <1>o, OutputTypes
    <3> QED BY <1>o, <3>1 DEF RedisPassword
  <2>3. [out[e] EXCEPT !["redis"] = y] \in Output
    BY <1>o, <1>own, <2>2, OutputTypes DEF Kind
  <2>4. Typed([x EXCEPT !.pc = "pod", !.password = p])
    BY <1>x, <2>2, WorkerTypes
  <2>5. <<Reason(o, Refusal(e, "redis")), "redis">> \in Cond
    BY <1>c, <1>ref DEF Kind, About
  <2> HIDE DEF p, x, y
  <2>6. Proceeds
    BY <1>x, <2>1, <2>4, <2>5, ProceedTypes
  <2>7. /\ out' \in [Env -> Output] /\ changed' \in [Env -> SUBSET Kind]
        /\ faults' \in Nat
    BY <2>1, <2>3, CallTypes DEF EnvTyped, Kind
  <2>8. versions' \in Nat
    BY <1>o, <2>1, <2>2
  <2> QED BY <1>7, <1>out, <2>6, <2>7, <2>8 DEF UpsertRedisSecret
<1>8. CASE CreateRedisPod(e)
  <2> DEFINE cached == outCache[e].pod
             y == IF cached.owner # 0 THEN cached ELSE [NoPod EXCEPT !.owner = x.instance.uid]
             b == cached.owner # 0 /\ cached.ready
  <2>1. PICK o \in Outcome :
          /\ CreateOrUpdate(e, "pod", y, o)
          /\ \/ Continue(e, [x EXCEPT !.pc = "svc", !.ready = b])
             \/ GotoReport(e, x, <<Reason(o, "exists"), "pod">>)
    BY <1>8 DEF CreateRedisPod
  <2>2. [out[e] EXCEPT !["pod"] = y] \in Output
    <3>1. [out[e] EXCEPT !["pod"] = outCache[e]["pod"]] \in Output
      BY <1>o, OutputTypes DEF Kind
    <3>2. [out[e] EXCEPT !["pod"] = [NoPod EXCEPT !.owner = x.instance.uid]] \in Output
      BY <1>o, <1>i, OutputTypes
    <3> QED BY <3>1, <3>2
  <2>3. b \in BOOLEAN
    BY <1>o, OutputTypes
  <2>4. Typed([x EXCEPT !.pc = "svc", !.ready = b])
    BY <1>x, <2>3, WorkerTypes
  <2>5. <<Reason(o, "exists"), "pod">> \in Cond
    BY <1>c DEF Refusals, About
  <2> HIDE DEF x, y, b
  <2>6. Proceeds
    BY <1>x, <2>1, <2>4, <2>5, ProceedTypes
  <2>7. /\ out' \in [Env -> Output] /\ changed' \in [Env -> SUBSET Kind]
        /\ faults' \in Nat
    BY <2>1, <2>2, CallTypes DEF EnvTyped, Kind
  <2> QED BY <1>8, <1>o, <1>out, <2>6, <2>7 DEF CreateRedisPod
<1>9. CASE UpsertRedisService(e)
  <2> DEFINE y == [owner |-> x.instance.uid]
  <2>1. PICK o \in Outcome :
          /\ CreateOrUpdate(e, "svc", y, o)
          /\ \/ Continue(e, [x EXCEPT !.pc = "conf"])
             \/ GotoReport(e, x, <<Reason(o, Refusal(e, "svc")), "svc">>)
             \/ GotoReport(e, x, <<"Pending", "none">>)
    BY <1>9 DEF UpsertRedisService
  <2>2. [out[e] EXCEPT !["svc"] = y] \in Output
    BY <1>o, <1>i, OutputTypes
  <2>3. Typed([x EXCEPT !.pc = "conf"])
    BY <1>x, WorkerTypes DEF Step
  <2>4. <<Reason(o, Refusal(e, "svc")), "svc">> \in Cond /\ <<"Pending", "none">> \in Cond
    BY <1>c, <1>ref, ConstantTypes DEF Kind, About
  <2> HIDE DEF x, y
  <2>5. Proceeds
    BY <1>x, <2>1, <2>3, <2>4, ProceedTypes
  <2>6. /\ out' \in [Env -> Output] /\ changed' \in [Env -> SUBSET Kind]
        /\ faults' \in Nat
    BY <2>1, <2>2, CallTypes DEF EnvTyped, Kind
  <2> QED BY <1>9, <1>o, <1>out, <2>5, <2>6 DEF UpsertRedisService
<1>10. CASE UpsertMergedSecret(e)
  <2> DEFINE y == [owner |-> OwnerFor(e, "conf"), auths |-> Merge(x.refs, x.inputs),
                   first |-> First(x.inputs), password |-> x.password]
  <2>1. PICK o \in Outcome :
          /\ CreateOrUpdate(e, "conf", y, o)
          /\ GotoReport(e, x, IF o = "ok" THEN Ready
                              ELSE <<Reason(o, Refusal(e, "conf")), "conf">>)
    BY <1>10 DEF UpsertMergedSecret
  <2>2. Merge(x.refs, x.inputs) \in [Host -> Nat] /\ First(x.inputs) \in Nat
    BY <1>x, MergeType
  <2>3. [out[e] EXCEPT !["conf"] = y] \in Output
    BY <1>o, <1>own, <1>x, <2>2, OutputTypes DEF Kind
  <2>4. (IF o = "ok" THEN Ready ELSE <<Reason(o, Refusal(e, "conf")), "conf">>) \in Cond
    BY <1>c, <1>ref, ConstantTypes DEF Kind, About
  <2> HIDE DEF x, y
  <2>5. Proceeds
    BY <1>x, <2>1, <2>4, ProceedTypes
  <2>6. /\ out' \in [Env -> Output] /\ changed' \in [Env -> SUBSET Kind]
        /\ faults' \in Nat
    BY <2>1, <2>3, CallTypes DEF EnvTyped, Kind
  <2> QED BY <1>10, <1>o, <1>out, <2>5, <2>6 DEF UpsertMergedSecret
<1> QED BY <1>1, <1>2, <1>3, <1>4, <1>5, <1>6, <1>7, <1>8, <1>9, <1>10 DEF Work

\* So do events, and what users, nodes and the garbage collector do.
LEMMA OutsideTypes ==
  ASSUME EnvTyped, Next, \A e \in Env : ~Reconcile(e) /\ ~Work(e)
  PROVE  EnvTyped'
<1>ok. /\ EnvTypeOK /\ \A e \in Env : Aligned(w[e]) /\ Typed(w[e])
       /\ \A e \in Env : out[e] \in Output /\ outCache[e] \in Output /\ env[e] \in EnvObject
       /\ \A s \in Secret : input[s] \in Input
  BY DEF EnvTyped, EnvTypeOK, Typed
\* Only an ImageBuildEnv, an input or an output changes.
<1>env. ASSUME env' \in [Env -> EnvObject], uids' \in Nat, edits' \in Nat,
               UNCHANGED <<input, notify, out, changed, cacheVars, workVars, versions, faults>>
        PROVE  EnvTyped'
  BY <1>env DEF EnvTyped, EnvTypeOK
<1>input. ASSUME NEW s \in Secret, NEW x \in Input, SetInput(s, x), versions' \in Nat,
                 edits' \in Nat, UNCHANGED <<env, out, changed, cacheVars, workVars, uids, faults>>
          PROVE  EnvTyped'
  <2>1. input' \in [Secret -> Input] /\ notify' \in [Secret -> SUBSET Env]
    <3>1. OwnersOf(x) \in SUBSET Env
      BY DEF OwnersOf
    <3> QED BY <1>ok, <1>input, <3>1 DEF SetInput, EnvTypeOK
  <2> QED BY <1>input, <2>1 DEF EnvTyped, EnvTypeOK
<1>out. ASSUME NEW e \in Env, NEW k \in Kind, NEW x, ChangeOutput(e, k, x),
               [out[e] EXCEPT ![k] = x] \in Output, edits' \in Nat
        PROVE  EnvTyped'
  <2>1. out' \in [Env -> Output] /\ changed' \in [Env -> SUBSET Kind]
    BY <1>ok, <1>out, CallTypes DEF ChangeOutput
  <2> QED BY <1>out, <2>1 DEF ChangeOutput, EnvTyped, EnvTypeOK
<1>1. ASSUME NEW e \in Env, WatchEnv(e) \/ RequeueAfter(e)
      PROVE  EnvTyped'
  BY <1>1 DEF WatchEnv, RequeueAfter, EnvTyped, EnvTypeOK
<1>2. ASSUME NEW e \in Env, NEW k \in Kind, WatchOutput(e, k)
      PROVE  EnvTyped'
  <2>1. [outCache[e] EXCEPT ![k] = out[e][k]] \in Output
    BY <1>ok, OutputTypes
  <2>2. outCache' = [outCache EXCEPT ![e] = [@ EXCEPT ![k] = out[e][k]]]
    BY <1>2 DEF WatchOutput
  <2>3. outCache' \in [Env -> Output]
    BY <2>1, <2>2 DEF EnvTyped, EnvTypeOK
  <2> QED BY <1>2, <2>3 DEF WatchOutput, OutputRequests, EnvTyped, EnvTypeOK
<1>3. ASSUME NEW s \in Secret, WatchInput(s)
      PROVE  EnvTyped'
  <2>1. OwnersToNotify(s) \subseteq Env
    BY DEF OwnersToNotify, OwnersOf, EnvTyped, EnvTypeOK
  <2> QED BY <1>3, <2>1 DEF WatchInput, EnvTyped, EnvTypeOK
<1>4. CASE Crash
  <2>1. Idle \in Worker /\ Aligned(Idle)
    BY ConstantTypes, EmptySeq DEF Aligned
  <2>2. w' = [e \in Env |-> Idle] /\ faults' \in Nat
    BY <1>4 DEF Crash, EnvTyped, EnvTypeOK
  <2> QED BY <1>4, <2>1, <2>2 DEF Crash, EnvTyped, EnvTypeOK
<1>5. ASSUME NEW e \in Env, DeleteEnv(e)
      PROVE  EnvTyped'
  <2>1. [env[e] EXCEPT !.deleting = TRUE] \in EnvObject /\ NoEnv \in EnvObject
    BY <1>ok, EnvObjectTypes, ConstantTypes
  <2>2. env' \in [Env -> EnvObject]
    BY <1>5, <1>ok, <2>1 DEF DeleteEnv, EnvTypeOK
  <2> QED BY <1>5, <1>ok, <1>env, <2>2 DEF DeleteEnv, Change, EnvTypeOK
<1>6. ASSUME NEW e \in Env, NEW spec \in Specs, CreateEnv(e, spec)
      PROVE  EnvTyped'
  <2>1. ASSUME NEW n \in Nat
        PROVE  [NoEnv EXCEPT !.uid = n, !.generation = 1, !.spec = spec] \in EnvObject
    BY ConstantTypes DEF EnvObject
  <2>2. uids + 1 \in Nat
    BY <1>ok DEF EnvTypeOK
  <2>3. [NoEnv EXCEPT !.uid = uids + 1, !.generation = 1, !.spec = spec] \in EnvObject
    BY <2>1, <2>2
  <2>4. env' \in [Env -> EnvObject]
    BY <1>6, <1>ok, <2>3 DEF CreateEnv, EnvTypeOK
  <2> QED BY <1>6, <1>ok, <1>env, <2>2, <2>4 DEF CreateEnv, EnvTypeOK
<1>7. ASSUME NEW e \in Env, NEW spec \in Specs, EditSpec(e, spec)
      PROVE  EnvTyped'
  <2>1. env[e].generation + 1 \in Nat
    BY <1>ok DEF EnvObject
  <2>2. [env[e] EXCEPT !.spec = spec, !.generation = env[e].generation + 1] \in EnvObject
    <3> DEFINE n == env[e].generation + 1
    <3>1. n \in Nat
      BY <2>1
    <3> HIDE DEF n
    <3>2. [env[e] EXCEPT !.spec = spec, !.generation = n] \in EnvObject
      BY <1>ok, <3>1, EnvObjectTypes
    <3> QED BY <3>2 DEF n
  <2> DEFINE y == [env[e] EXCEPT !.spec = spec, !.generation = env[e].generation + 1]
  <2>3. env' = [env EXCEPT ![e] = y]
    BY <1>7, <1>ok DEF EditSpec, EnvObject, EnvTypeOK
  <2> HIDE DEF y
  <2>4. env' \in [Env -> EnvObject]
    BY <1>ok, <2>2, <2>3 DEF EnvTypeOK, y
  <2> QED BY <1>7, <1>ok, <1>env, <2>4 DEF EditSpec, Change, EnvTypeOK
<1>8. ASSUME NEW s \in Secret, CreateInput(s) \/ EditInput(s) \/ DeleteInput(s)
      PROVE  EnvTyped'
  <2>1. versions + 1 \in Nat /\ versions \in Nat /\ edits \in Nat /\ NoInput \in Input
    BY <1>ok, ConstantTypes DEF EnvTypeOK
  <2>2. CASE CreateInput(s)
    <3>1. ASSUME NEW n \in Nat
          PROVE  [NoInput EXCEPT !.exists = TRUE, !.data = n] \in Input
      BY <2>1 DEF Input
    <3>2. [NoInput EXCEPT !.exists = TRUE, !.data = versions + 1] \in Input
      BY <2>1, <3>1
    <3> QED BY <1>input, <2>1, <2>2, <3>2 DEF CreateInput
  <2>3. CASE EditInput(s)
    <3>1. PICK d \in {0, versions + 1} : /\ SetInput(s, [input[s] EXCEPT !.data = d])
                                         /\ versions' = IF d = 0 THEN versions ELSE d
      BY <2>3 DEF EditInput
    <3>2. d \in Nat
      BY <2>1
    <3>3. [input[s] EXCEPT !.data = d] \in Input
      BY <1>ok, <3>2, InputTypes
    <3>4. versions' \in Nat /\ edits' \in Nat
      BY <2>1, <2>3, <3>1, <3>2 DEF EditInput, Change
    <3> QED BY <1>input, <2>3, <3>1, <3>3, <3>4 DEF EditInput
  <2>4. CASE DeleteInput(s)
    BY <1>input, <2>1, <2>4 DEF DeleteInput, Change
  <2> QED BY <1>8, <2>2, <2>3, <2>4
<1>9. ASSUME NEW s \in Secret, CollectInput(s)
      PROVE  EnvTyped'
  <2> DEFINE x == [input[s] EXCEPT !.owners =
                     [e \in Env |-> IF e \in Dangling(s) THEN 0 ELSE @[e]]]
  <2>1. x \in Input /\ NoInput \in Input
    <3>1. input[s] \in Input /\ input[s].owners \in [Env -> Nat]
      BY <1>ok DEF Input
    <3>2. [e \in Env |-> IF e \in Dangling(s) THEN 0 ELSE input[s].owners[e]] \in [Env -> Nat]
      BY <3>1
    <3>3. x \in Input
      BY <3>1, <3>2 DEF Input
    <3> QED BY <3>3, ConstantTypes
  <2>2. SetInput(s, NoInput) \/ SetInput(s, x)
    BY <1>9 DEF CollectInput
  <2>3. versions' \in Nat /\ edits' \in Nat
    BY <1>9, <1>ok DEF CollectInput, EnvTypeOK
  <2> HIDE DEF x
  <2> QED BY <1>9, <1>input, <2>1, <2>2, <2>3 DEF CollectInput
<1>10. ASSUME NEW e \in Env, NEW k \in Kind, DeleteOutput(e, k) \/ CollectOutput(e, k)
       PROVE  EnvTyped'
  <2>1. [out[e] EXCEPT ![k] = Nothing[k]] \in Output
    BY <1>ok, OutputTypes, ConstantTypes
  <2>2. ChangeOutput(e, k, Nothing[k]) /\ edits' \in Nat
    BY <1>10, <1>ok DEF DeleteOutput, CollectOutput, Change, EnvTypeOK
  <2> QED BY <1>out, <2>1, <2>2
<1>11. ASSUME NEW e \in Env, StartPod(e) \/ RestartPod(e)
       PROVE  EnvTyped'
  <2>1. "pod" \in Kind /\ edits' \in Nat
    BY <1>11, <1>ok DEF StartPod, RestartPod, Change, Kind, EnvTypeOK
  <2>2. CASE StartPod(e)
    <3>1. out[e].redis.password \in Nat
      BY <1>ok, OutputTypes
    <3>2. [out[e] EXCEPT !["pod"] = [out[e].pod EXCEPT !.ready = TRUE,
                                       !.password = out[e].redis.password]] \in Output
      BY <1>ok, <3>1, OutputTypes
    <3> QED BY <1>out, <2>1, <2>2, <3>2 DEF StartPod
  <2>3. CASE RestartPod(e)
    <3>1. [out[e] EXCEPT !["pod"] = [out[e].pod EXCEPT !.ready = FALSE, !.password = 0]]
            \in Output
      BY <1>ok, OutputTypes
    <3> QED BY <1>out, <2>1, <2>3, <3>1 DEF RestartPod
  <2> QED BY <1>11, <2>2, <2>3
<1>12. CASE Operator
  BY <1>12, <1>1, <1>2, <1>3 DEF Operator
<1>13. CASE Environment
  BY <1>13, <1>5, <1>6, <1>7, <1>8, <1>9, <1>10, <1>11 DEF Environment
<1> QED BY <1>4, <1>12, <1>13 DEF Next

\* Every step keeps the types.
LEMMA TypesKept ==
  ASSUME EnvTyped, [Next]_vars
  PROVE  EnvTyped'
<1>1. CASE \E e \in Env : Reconcile(e) \/ Work(e)
  BY <1>1, ReconcileTypes, WorkTypes
<1>2. CASE Next /\ \A e \in Env : ~Reconcile(e) /\ ~Work(e)
  BY <1>2, OutsideTypes
<1>3. CASE UNCHANGED vars
  BY <1>3 DEF vars, EnvTyped, EnvTypeOK
<1> QED BY <1>1, <1>2, <1>3

\* The operator starts with inputs that exist and nothing else.
LEMMA TypesFirst == Init => EnvTyped
<1> SUFFICES ASSUME Init PROVE EnvTyped
  OBVIOUS
<1>1. [NoInput EXCEPT !.exists = TRUE, !.data = 1] \in Input
  BY ConstantTypes DEF Input
<1>2. Idle \in Worker /\ Aligned(Idle)
  BY ConstantTypes, EmptySeq DEF Aligned
<1> QED BY <1>1, <1>2, ConstantTypes DEF Init, EnvTyped, EnvTypeOK

\* The types hold always, with what they depend on.
LEMMA AlwaysTyped == EnvSpec => []EnvTyped
<1>1. Init => EnvTyped
  BY TypesFirst
<1>2. EnvTyped /\ [Next]_vars => EnvTyped'
  BY TypesKept
<1> QED BY <1>1, <1>2, PTL DEF EnvSpec

\* Whatever the numbers of ImageBuildEnvs, inputs, faults and edits, the status
\* lists inputs and the work queue holds names of ImageBuildEnvs; Reconcile
\* never looks for an input that it has not read.
THEOREM EnvTypeCorrect == EnvSpec => []EnvTypeOK
<1>1. EnvTyped => EnvTypeOK
  BY DEF EnvTyped
<1> QED BY <1>1, AlwaysTyped, PTL

-----------------------------------------------------------------------------
(* References are recorded first.                                          *)
(*                                                                         *)
(* Reconcile sets references to the inputs that its version of the         *)
(* ImageBuildEnv names.  That version may be old, and if it lists these    *)
(* inputs already, nothing is written that the API server could refuse.    *)
(* The argument: in the meantime, only Reconcile itself can have changed   *)
(* the list.  It has done so from a version that it had from the cache,    *)
(* that the API server accepted as the latest, and that listed other       *)
(* inputs than it named.  So the cache was at least at that version, and   *)
(* cannot go back to one before it.                                        *)

\* x is a version of an object and y the same or a later one, unless another
\* object or none has taken its place.
Older(x, y) ==
  x.uid # 0 /\ x.uid = y.uid =>
    /\ x.generation <= y.generation
    /\ x.deleting => y.deleting
    /\ x.finalizer => y.finalizer

\* A version that will have references set is one of the present object, and
\* lists what that lists or else not the inputs that it names.
Listed(x, y) ==
  x.uid # 0 /\ x.finalizer /\ ~x.deleting =>
    /\ y.uid = x.uid /\ y.finalizer
    /\ y.refs = x.refs \/ RefsChanged(x.refs, x.spec.secrets)

\* What a Reconcile with local state x knows about the ImageBuildEnv y, of which
\* the cache has version c, when n of them have been created.
WorkerRefs(y, c, x, n) ==
  /\ x.base.uid # 0 /\ x.base.uid <= n
  /\ x.instance = [x.base EXCEPT !.refs = x.instance.refs]
  /\ Older(x.base, c) /\ Older(x.base, y)
  /\ x.instance.refs # x.base.refs =>
       /\ x.pc = "report" /\ x.base.finalizer /\ ~x.base.deleting
       /\ x.instance.refs = x.base.spec.secrets
       /\ RefsChanged(x.base.refs, x.base.spec.secrets)
       /\ x.base = y => c = y
  /\ x.pc = "delRefs" =>
       /\ x.base.finalizer /\ Listed(x.base, y)
       /\ x.base = y => c = y
       /\ x.refs = IF x.base.deleting THEN <<>> ELSE x.base.spec.secrets
  /\ x.pc = "addRefs" =>
       IF x.base.deleting THEN x.refs = <<>>
       ELSE y.uid = x.base.uid /\ y.finalizer /\ Range(y.refs) = Range(x.refs)
  /\ x.pc = "removeFinalizer" => x.base.deleting

RefsOf(y, c, x, n) ==
  /\ y.uid <= n /\ c.uid <= n
  /\ Older(c, y) /\ Listed(c, y)
  /\ x.pc # "idle" => WorkerRefs(y, c, x, n)

RefsKnown == \A e \in Env : RefsOf(env[e], envCache[e], w[e], uids)

\* A step is about one ImageBuildEnv, or the operator dies.
LEMMA StepsOf ==
  ASSUME EnvTyped, [Next]_vars, NEW e \in Env
  PROVE  \/ /\ env'[e] = env[e] /\ envCache'[e] = envCache[e] /\ w'[e] = w[e]
            /\ uids' \in Nat /\ uids <= uids'
         \/ WatchEnv(e) \/ Crash \/ Reconcile(e) \/ Work(e) \/ DeleteEnv(e)
         \/ \E spec \in Specs : CreateEnv(e, spec) \/ EditSpec(e, spec)
<1> DEFINE Same == /\ env'[e] = env[e] /\ envCache'[e] = envCache[e] /\ w'[e] = w[e]
                   /\ uids' \in Nat /\ uids <= uids'
<1>ok. uids \in Nat /\ EnvTypeOK
  BY DEF EnvTyped, EnvTypeOK
<1>1. UNCHANGED <<env, envCache, w, uids>> => Same
  BY <1>ok
<1>2. ASSUME NEW d \in Env \ {e}, Reconcile(d)
      PROVE  Same
  <2>1. UNCHANGED <<env, envCache, uids>>
    BY <1>2 DEF Reconcile, ReconcileNothing, ReconcileDeleted, ReconcileNew, ReconcileInputs,
                Dequeue
  <2>2. \A x : Load(d, x) => w'[e] = w[e]
    BY <1>ok DEF Load, EnvTypeOK
  <2>3. w'[e] = w[e]
    BY <1>2, <2>2 DEF Reconcile, ReconcileNothing, ReconcileDeleted, ReconcileNew,
                      ReconcileInputs
  <2> QED BY <1>ok, <2>1, <2>3
<1>3. ASSUME NEW d \in Env \ {e}, Work(d)
      PROVE  Same
  <2>1. UNCHANGED <<envCache, uids>>
    BY <1>3 DEF Work, DelRef, UpdateRefs, AddRef, RefsDone, RemoveFinalizer, AddFinalizer,
                ReportError, Report, UpsertRedisSecret, CreateRedisPod, UpsertRedisService,
                UpsertMergedSecret
  <2>2. \A x, o : UpdateEnv(d, x, o) => env'[e] = env[e]
    BY <1>ok DEF UpdateEnv, EnvTypeOK
  <2>3. env'[e] = env[e]
    BY <1>3, <2>2 DEF Work, DelRef, UpdateRefs, AddRef, RefsDone, RemoveFinalizer, AddFinalizer,
                ReportError, Report, UpsertRedisSecret, CreateRedisPod, UpsertRedisService,
                UpsertMergedSecret, updateStatus
  <2>4. /\ \A x : Continue(d, x) => w'[e] = w[e]
        /\ \A requeue, after : Return(d, requeue, after) => w'[e] = w[e]
    BY <1>ok DEF Continue, Return, EnvTypeOK
  <2>5. /\ \A x, c : GotoReport(d, x, c) => w'[e] = w[e]
        /\ \A x, c : RefsFailed(d, x, c) => w'[e] = w[e]
    BY <2>4 DEF GotoReport, RefsFailed
  <2>6. w'[e] = w[e]
    BY <1>3, <2>4, <2>5 DEF Work, DelRef, UpdateRefs, AddRef, RefsDone, RemoveFinalizer, AddFinalizer,
                ReportError, Report, UpsertRedisSecret, CreateRedisPod, UpsertRedisService,
                UpsertMergedSecret
  <2> QED BY <1>ok, <2>1, <2>3, <2>6
<1>4. ASSUME NEW d \in Env \ {e}, WatchEnv(d)
      PROVE  Same
  BY <1>ok, <1>4 DEF WatchEnv, EnvTypeOK
<1>5. ASSUME NEW d \in Env, \/ RequeueAfter(d) \/ StartPod(d) \/ RestartPod(d)
                            \/ \E k \in Kind : \/ WatchOutput(d, k) \/ DeleteOutput(d, k)
                                               \/ CollectOutput(d, k)
      PROVE  Same
  BY <1>1, <1>5 DEF RequeueAfter, WatchOutput, StartPod, RestartPod, DeleteOutput, CollectOutput,
                    ChangeOutput
<1>6. ASSUME NEW s \in Secret, \/ WatchInput(s) \/ CreateInput(s) \/ EditInput(s)
                               \/ DeleteInput(s) \/ CollectInput(s)
      PROVE  Same
  BY <1>1, <1>6 DEF WatchInput, CreateInput, EditInput, DeleteInput, CollectInput
<1>7. ASSUME NEW d \in Env \ {e}, \/ DeleteEnv(d)
                                  \/ \E spec \in Specs : CreateEnv(d, spec) \/ EditSpec(d, spec)
      PROVE  Same
  <2>1. CASE DeleteEnv(d)
    BY <1>ok, <2>1 DEF DeleteEnv, EnvTypeOK
  <2>2. ASSUME NEW spec \in Specs, CreateEnv(d, spec)
        PROVE  Same
    <3>1. uids' = uids + 1 /\ env'[e] = env[e] /\ UNCHANGED <<envCache, w>>
      BY <1>ok, <2>2 DEF CreateEnv, EnvTypeOK
    <3> QED BY <1>ok, <3>1
  <2>3. ASSUME NEW spec \in Specs, EditSpec(d, spec)
        PROVE  Same
    <3>1. uids' = uids /\ env'[e] = env[e] /\ UNCHANGED <<envCache, w>>
      BY <1>ok, <2>3 DEF EditSpec, EnvTypeOK
    <3> QED BY <1>ok, <3>1
  <2> QED BY <1>7, <2>1, <2>2, <2>3
<1> HIDE DEF Same
<1>8. CASE Operator
  BY <1>8, <1>2, <1>3, <1>4, <1>5, <1>6 DEF Operator, Same
<1>9. CASE Environment
  BY <1>9, <1>5, <1>6, <1>7 DEF Environment, Same
<1>10. CASE UNCHANGED vars
  BY <1>1, <1>10 DEF vars, Same
<1> QED BY <1>8, <1>9, <1>10 DEF Next, Same

\* A version of an object, and one that differs in the condition or has got the
\* finalizer.
LEMMA Rewritten ==
  ASSUME NEW y \in EnvObject, NEW z \in EnvObject, z.uid = y.uid, z.generation = y.generation,
         z.deleting = y.deleting, z.refs = y.refs, y.finalizer => z.finalizer
  PROVE  \A x \in EnvObject : /\ Older(x, y) => Older(x, z)
                              /\ Listed(x, y) => Listed(x, z)
BY DEF Older, Listed

\* Reconcile goes on with the same versions, or returns.
LEMMA Moved ==
  ASSUME NEW y, NEW c, NEW n, NEW x, NEW z, RefsOf(y, c, x, n), x.pc # "idle",
         \/ z.pc = "idle"
         \/ /\ z.base = x.base /\ z.instance = x.instance /\ z.refs = x.refs
            /\ \/ z.pc = x.pc
               \/ /\ z.pc \notin {"delRefs", "addRefs", "removeFinalizer"}
                  /\ z.pc = "report" \/ x.pc # "report"
  PROVE  RefsOf(y, c, z, n)
<1>1. CASE z.pc = "idle"
  BY <1>1 DEF RefsOf
<1>2. CASE z.pc # "idle"
  <2>1. WorkerRefs(y, c, x, n)
    BY DEF RefsOf
  <2>2. /\ z.base = x.base /\ z.instance = x.instance /\ z.refs = x.refs
        /\ \/ z.pc = x.pc
           \/ /\ z.pc \notin {"delRefs", "addRefs", "removeFinalizer"}
              /\ z.pc = "report" \/ x.pc # "report"
    BY <1>2
  <2>3. WorkerRefs(y, c, z, n)
    BY <2>1, <2>2 DEF WorkerRefs
  <2> QED BY <2>3 DEF RefsOf
<1> QED BY <1>1, <1>2

\* Reading the present version, from the cache or from the API server.
LEMMA Present ==
  ASSUME NEW y \in EnvObject
  PROVE  Older(y, y) /\ Listed(y, y)
BY DEF Older, Listed, EnvObject

\* What users do to an ImageBuildEnv makes it different from all versions that
\* the operator has.
LEMMA UserRefs ==
  ASSUME NEW y \in EnvObject, NEW c \in EnvObject, NEW x \in Worker, NEW n \in Nat,
         NEW z \in EnvObject, NEW m \in Nat, RefsOf(y, c, x, n),
         \/ y.uid = 0 /\ z.uid = n + 1 /\ m = n + 1
         \/ m = n /\ z = NoEnv /\ ~y.finalizer /\ y.uid # 0
         \/ m = n /\ z = [y EXCEPT !.deleting = TRUE] /\ y.uid # 0 /\ ~y.deleting
         \/ /\ m = n /\ z.uid = y.uid /\ z.deleting = y.deleting /\ z.finalizer = y.finalizer
            /\ z.refs = y.refs /\ z.generation = y.generation + 1 /\ y.uid # 0
  PROVE  RefsOf(z, c, x, m)
<1>0. /\ NoEnv.uid = 0 /\ y.uid \in Nat /\ c.uid \in Nat /\ y.uid <= n /\ c.uid <= n
      /\ n <= m /\ Older(c, y) /\ Listed(c, y)
  BY ConstantTypes DEF RefsOf, EnvObject
<1>1. ASSUME NEW v \in EnvObject, v.uid <= n
      PROVE  /\ Older(v, y) => Older(v, z) /\ (v.uid # 0 => v # z)
             /\ Listed(v, y) => Listed(v, z)
  <2>0. /\ v.uid \in Nat /\ v.generation \in Nat /\ v.deleting \in BOOLEAN
        /\ v.finalizer \in BOOLEAN /\ y.generation \in Nat
    BY DEF EnvObject
  <2>1. CASE y.uid = 0 /\ z.uid = n + 1 /\ m = n + 1
    BY <1>1, <2>0, <2>1 DEF Older, Listed
  <2>2. CASE z = NoEnv /\ ~y.finalizer /\ y.uid # 0
    <3>1. z.uid = 0
      BY <1>0, <2>2
    <3> QED BY <2>0, <2>2, <3>1 DEF Older, Listed
  <2>3. CASE z = [y EXCEPT !.deleting = TRUE] /\ y.uid # 0 /\ ~y.deleting
    <3>1. /\ z.uid = y.uid /\ z.generation = y.generation /\ z.deleting
          /\ z.finalizer = y.finalizer /\ z.refs = y.refs
      BY <2>3 DEF EnvObject
    <3> QED BY <2>0, <2>3, <3>1 DEF Older, Listed
  <2>4. CASE /\ z.uid = y.uid /\ z.deleting = y.deleting /\ z.finalizer = y.finalizer
             /\ z.refs = y.refs /\ z.generation = y.generation + 1 /\ y.uid # 0
    BY <2>0, <2>4 DEF Older, Listed
  <2> QED BY <2>1, <2>2, <2>3, <2>4
<1>2. Older(c, z) /\ Listed(c, z) /\ z.uid <= m /\ c.uid <= m
  <2>1. z.uid <= m
    BY <1>0 DEF EnvObject
  <2> QED BY <1>0, <1>1, <2>1
<1>3. ASSUME x.pc # "idle"
      PROVE  WorkerRefs(z, c, x, m)
  <2>1. WorkerRefs(y, c, x, n) /\ x.base \in EnvObject
    BY <1>3 DEF RefsOf, Worker
  <2>2. x.base.uid \in Nat /\ x.base.uid # 0 /\ x.base.uid <= n /\ x.base.uid <= m
    BY <1>0, <2>1 DEF WorkerRefs, EnvObject
  <2>3. /\ Older(x.base, z) /\ x.base # z
        /\ Listed(x.base, y) => Listed(x.base, z)
    BY <1>1, <2>1, <2>2 DEF WorkerRefs
  <2>4. y.uid = x.base.uid /\ y.finalizer => z.uid = y.uid /\ z.finalizer /\ z.refs = y.refs
    BY <2>2 DEF EnvObject
  <2>5. /\ x.base.uid # 0 /\ x.base.uid <= m
        /\ x.instance = [x.base EXCEPT !.refs = x.instance.refs]
        /\ Older(x.base, c) /\ Older(x.base, z)
        /\ x.pc = "removeFinalizer" => x.base.deleting
    BY <2>1, <2>2, <2>3 DEF WorkerRefs
  <2>6. x.instance.refs # x.base.refs =>
          /\ x.pc = "report" /\ x.base.finalizer /\ ~x.base.deleting
          /\ x.instance.refs = x.base.spec.secrets
          /\ RefsChanged(x.base.refs, x.base.spec.secrets)
          /\ x.base = z => c = z
    BY <2>1, <2>3 DEF WorkerRefs
  <2>7. x.pc = "delRefs" =>
          /\ x.base.finalizer /\ Listed(x.base, z)
          /\ x.base = z => c = z
          /\ x.refs = IF x.base.deleting THEN <<>> ELSE x.base.spec.secrets
    BY <2>1, <2>3 DEF WorkerRefs
  <2>8. x.pc = "addRefs" =>
          IF x.base.deleting THEN x.refs = <<>>
          ELSE z.uid = x.base.uid /\ z.finalizer /\ Range(z.refs) = Range(x.refs)
    BY <2>1, <2>4 DEF WorkerRefs
  <2> QED BY <2>5, <2>6, <2>7, <2>8 DEF WorkerRefs
<1> QED BY <1>2, <1>3 DEF RefsOf

\* Reconcile takes over what is known of the cache.
LEMMA ReconcileRefs ==
  ASSUME EnvTyped, NEW e \in Env, RefsOf(env[e], envCache[e], w[e], uids), Reconcile(e)
  PROVE  RefsOf(env'[e], envCache'[e], w'[e], uids')
<1> DEFINE c == envCache[e]
<1>0. /\ c \in EnvObject /\ env[e] \in EnvObject /\ w \in [Env -> Worker]
      /\ Older(c, c) /\ Older(c, env[e]) /\ Listed(c, env[e]) /\ c.uid <= uids
      /\ UNCHANGED <<env, envCache, uids>>
  BY Present DEF EnvTyped, EnvTypeOK, RefsOf, Reconcile, ReconcileNothing, ReconcileDeleted,
                 ReconcileNew, ReconcileInputs, Dequeue
<1>1. c = [c EXCEPT !.refs = c.refs]
  BY <1>0 DEF EnvObject
<1>read. ASSUME NEW x, x.base = c, x.instance = c, w'[e] = x, c.uid # 0,
                \/ x.pc \in {"report", "addFinalizer"}
                \/ /\ x.pc = "delRefs" /\ c.finalizer
                   /\ x.refs = IF c.deleting THEN <<>> ELSE c.spec.secrets
         PROVE  RefsOf(env'[e], envCache'[e], w'[e], uids')
  <2>1. WorkerRefs(env[e], c, x, uids)
    BY <1>0, <1>1, <1>read DEF WorkerRefs
  <2> QED BY <1>0, <1>read, <2>1 DEF RefsOf
<1>load. \A x \in Worker : Load(e, x) =>
           /\ w'[e].base = c /\ w'[e].instance = c /\ w'[e].pc = x.pc /\ w'[e].refs = x.refs
  BY <1>0 DEF Load, Worker
<1>idle. Idle \in Worker /\ Idle.refs = <<>>
  BY ConstantTypes
<1>2. CASE ReconcileNothing(e)
  BY <1>0, <1>2 DEF ReconcileNothing
<1>3. CASE ReconcileDeleted(e)
  <2> DEFINE x == [Idle EXCEPT !.pc = "delRefs", !.todo = c.refs]
  <2>1. x \in Worker /\ x.pc = "delRefs" /\ x.refs = <<>>
    BY <1>0, <1>idle DEF Worker, Step, EnvObject
  <2>2. Load(e, x) /\ c.uid # 0 /\ c.deleting /\ c.finalizer
    BY <1>3 DEF ReconcileDeleted
  <2> HIDE DEF x, c
  <2> QED BY <1>load, <1>read, <2>1, <2>2
<1>4. CASE ReconcileNew(e)
  <2> DEFINE x == [Idle EXCEPT !.pc = "addFinalizer"]
  <2>1. x \in Worker /\ x.pc = "addFinalizer"
    BY <1>idle DEF Worker, Step
  <2>2. Load(e, x) /\ c.uid # 0
    BY <1>4 DEF ReconcileNew
  <2> HIDE DEF x, c
  <2> QED BY <1>load, <1>read, <2>1, <2>2
<1>5. CASE ReconcileInputs(e)
  <2> DEFINE names == c.spec.secrets
  <2>1. c.uid # 0 /\ ~c.deleting /\ c.finalizer
    BY <1>5 DEF ReconcileInputs
  <2>2. CASE Load(e, [Idle EXCEPT !.pc = "delRefs", !.refs = names, !.todo = c.refs,
                        !.inputs = [i \in DOMAIN names |-> inputCache[names[i]]]])
    <3>1. /\ w'[e].base = c /\ w'[e].instance = c /\ w'[e].pc = "delRefs" /\ w'[e].refs = names
      BY <1>0, <1>idle, <2>2 DEF Load, Worker
    <3> QED BY <1>read, <2>1, <3>1
  <2>3. CASE \E i \in DOMAIN names :
               Load(e, [Idle EXCEPT !.pc = "report", !.cond = <<"MissingSecret", names[i]>>])
    <3>1. w'[e].base = c /\ w'[e].instance = c /\ w'[e].pc = "report"
      BY <1>0, <1>idle, <2>3 DEF Load, Worker
    <3> QED BY <1>read, <2>1, <3>1
  <2> QED BY <1>5, <2>2, <2>3 DEF ReconcileInputs
<1> QED BY <1>2, <1>3, <1>4, <1>5 DEF Reconcile

\* Work writes the ImageBuildEnv, if at all, in the version that it has read and
\* modified.
LEMMA WorkRefs ==
  ASSUME EnvTyped, NEW e \in Env, RefsOf(env[e], envCache[e], w[e], uids), Work(e)
  PROVE  RefsOf(env'[e], envCache'[e], w'[e], uids')
<1> DEFINE y == env[e]
           c == envCache[e]
           x == w[e]
<1>0. /\ y \in EnvObject /\ c \in EnvObject /\ x \in Worker /\ x.base \in EnvObject
      /\ x.instance \in EnvObject /\ w \in [Env -> Worker] /\ env \in [Env -> EnvObject]
      /\ x.cond \in Cond /\ x.refs \in Seq(Secret)
  BY DEF EnvTyped, EnvTypeOK, Worker
<1>1. x.pc # "idle" /\ UNCHANGED <<envCache, uids>>
  BY DEF Work, DelRef, UpdateRefs, AddRef, RefsDone, RemoveFinalizer, AddFinalizer,
         ReportError, Report, UpsertRedisSecret, CreateRedisPod, UpsertRedisService,
         UpsertMergedSecret
<1>2. WorkerRefs(y, c, x, uids) /\ y.uid <= uids /\ c.uid <= uids /\ Older(c, y) /\ Listed(c, y)
  BY <1>1 DEF RefsOf
<1>3. /\ x.instance.uid = x.base.uid /\ x.instance.generation = x.base.generation
      /\ x.instance.deleting = x.base.deleting /\ x.instance.finalizer = x.base.finalizer
      /\ x.instance.spec = x.base.spec /\ x.base.uid # 0
  <2>1. x.instance = [x.base EXCEPT !.refs = x.instance.refs] /\ x.base.uid # 0
    BY <1>2 DEF WorkerRefs
  <2> QED BY <1>0, <2>1 DEF EnvObject
<1>4. x.instance.refs # x.base.refs =>
        /\ x.pc = "report" /\ ~x.base.deleting
        /\ RefsChanged(x.base.refs, x.base.spec.secrets)
        /\ x.base = y => c = y
  BY <1>2 DEF WorkerRefs
<1>cont. /\ \A z : Continue(e, z) => w'[e] = z
         /\ \A requeue, after : Return(e, requeue, after) => w'[e] = Idle
  BY <1>0 DEF Continue, Return
<1>idle. Idle.pc = "idle"
  BY ConstantTypes
\* Reconcile goes on or returns without writing.
<1>moved. ASSUME NEW z, w'[e] = z, env'[e] = y,
                 \/ z.pc = "idle"
                 \/ /\ z.base = x.base /\ z.instance = x.instance /\ z.refs = x.refs
                    /\ \/ z.pc = x.pc
                       \/ /\ z.pc \notin {"delRefs", "addRefs", "removeFinalizer"}
                          /\ z.pc = "report" \/ x.pc # "report"
          PROVE  RefsOf(env'[e], envCache'[e], w'[e], uids')
  <2> HIDE DEF x, y, c
  <2>1. RefsOf(y, c, z, uids)
    BY <1>1, <1>moved, Moved DEF x, y, c
  <2> QED BY <1>1, <1>moved, <2>1 DEF y, c
\* A write that is applied replaces the version that Reconcile has.
<1>write. ASSUME NEW v, NEW o \in Outcome, UpdateEnv(e, v, o)
          PROVE  env'[e] = y \/ (Applied(o) /\ env'[e] = v /\ x.base = y)
  <2>1. Applied(o) => x.base = y
    BY <1>write DEF UpdateEnv, Respond, Applied
  <2> QED BY <1>0, <1>write, <2>1 DEF UpdateEnv
<1>written. ASSUME NEW v \in EnvObject, x.base = y, env'[e] = v, w'[e].pc = "idle",
                   v.uid = y.uid, v.generation = y.generation, v.deleting = y.deleting,
                   y.finalizer => v.finalizer, v.refs = x.instance.refs
            PROVE  RefsOf(env'[e], envCache'[e], w'[e], uids')
  <2>1. Older(c, v) /\ Listed(c, v)
    <3>1. CASE x.instance.refs = x.base.refs
      BY <1>0, <1>2, <1>written, <3>1, Rewritten
    <3>2. CASE x.instance.refs # x.base.refs
      <4>1. c = y /\ RefsChanged(y.refs, y.spec.secrets)
        BY <1>4, <1>written, <3>2
      <4>2. Older(y, y)
        BY <1>0, Present
      <4> QED BY <1>written, <4>1, <4>2 DEF Older, Listed
    <3> QED BY <3>1, <3>2
  <2> QED BY <1>1, <1>2, <1>written, <2>1 DEF RefsOf
<1>5. CASE DelRef(e)
  <2>1. /\ x.pc = "delRefs" /\ env' = env
        /\ \/ \E t : Continue(e, [x EXCEPT !.todo = t])
           \/ \E r : RefsFailed(e, x, r)
    BY <1>5 DEF DelRef
  <2>2. CASE \E t : Continue(e, [x EXCEPT !.todo = t])
    <3>1. PICK t : w'[e] = [x EXCEPT !.todo = t]
      BY <1>cont, <2>2
    <3>2. /\ w'[e].base = x.base /\ w'[e].instance = x.instance /\ w'[e].refs = x.refs
          /\ w'[e].pc = x.pc
      BY <1>0, <3>1 DEF Worker
    <3> QED BY <1>moved, <2>1, <3>2
  <2>3. CASE \E r : RefsFailed(e, x, r)
    <3>1. w'[e] = Idle \/ \E r : w'[e] = [x EXCEPT !.pc = "report", !.cond = r]
      BY <1>cont, <2>3 DEF RefsFailed, GotoReport
    <3>2. w'[e].pc = "idle" \/ (/\ w'[e].base = x.base /\ w'[e].instance = x.instance
                                /\ w'[e].refs = x.refs /\ w'[e].pc = "report")
      BY <1>0, <1>idle, <3>1 DEF Worker
    <3> QED BY <1>moved, <2>1, <3>2
  <2> QED BY <2>1, <2>2, <2>3
<1>6. CASE UpdateRefs(e)
  <2> DEFINE i == [x.instance EXCEPT !.refs = x.refs]
             next == [x EXCEPT !.pc = "addRefs", !.todo = x.refs]
  <2>1. /\ x.pc = "delRefs" /\ x.instance = x.base /\ x.base.finalizer /\ Listed(x.base, y)
        /\ x.base = y => c = y
    <3>1. x.pc = "delRefs"
      BY <1>6 DEF UpdateRefs
    <3>2. x.instance.refs = x.base.refs
      BY <1>4, <3>1
    <3>3. x.instance = [x.base EXCEPT !.refs = x.base.refs]
      BY <1>2, <3>2 DEF WorkerRefs
    <3>4. x.instance = x.base
      BY <1>0, <3>3 DEF EnvObject
    <3> QED BY <1>2, <3>1, <3>4 DEF WorkerRefs
  <2>2. x.refs = IF x.base.deleting THEN <<>> ELSE x.base.spec.secrets
    BY <1>2, <2>1 DEF WorkerRefs
  <2>3. /\ i \in EnvObject /\ i.refs = x.refs /\ i.uid = x.base.uid
        /\ i.generation = x.base.generation /\ i.deleting = x.base.deleting
        /\ i.finalizer = x.base.finalizer /\ i.spec = x.base.spec
        /\ i = [x.base EXCEPT !.refs = i.refs] /\ i = [i EXCEPT !.refs = i.refs]
    BY <1>0, <2>1 DEF EnvObject
  <2>4. /\ next.base = x.base /\ next.instance = x.base /\ next.refs = x.refs
        /\ next.pc = "addRefs" /\ next \in Worker
    BY <1>0, <2>1 DEF Worker, Step
  <2> HIDE DEF i, next
  <2>5. CASE /\ ~RefsChanged(x.instance.refs, x.refs)
             /\ Continue(e, next) /\ env' = env
    <3>1. ~x.base.deleting => /\ y.uid = x.base.uid /\ y.finalizer
                              /\ Range(y.refs) = Range(x.refs)
      <4>1. ASSUME ~x.base.deleting
            PROVE  /\ y.uid = x.base.uid /\ y.finalizer /\ y.refs = x.base.refs
                   /\ ~RefsChanged(x.base.refs, x.refs)
        BY <1>3, <2>1, <2>2, <2>5, <4>1 DEF Listed
      <4> QED BY <4>1 DEF RefsChanged, Dropped
    <3>2. WorkerRefs(y, c, next, uids)
      BY <1>0, <1>2, <2>1, <2>2, <2>4, <3>1 DEF WorkerRefs
    <3>3. RefsOf(y, c, next, uids)
      BY <1>2, <3>2 DEF RefsOf
    <3> QED BY <1>1, <1>cont, <2>5, <3>3
  <2>6. CASE /\ RefsChanged(x.instance.refs, x.refs)
             /\ \E o \in Outcome :
                  /\ UpdateEnv(e, i, o)
                  /\ \/ o = "ok" /\ Continue(e, [next EXCEPT !.base = i, !.instance = i])
                     \/ o # "ok" /\ \E r : RefsFailed(e, [x EXCEPT !.instance = i], r)
    <3>1. PICK o \in Outcome :
                  /\ UpdateEnv(e, i, o)
                  /\ \/ o = "ok" /\ Continue(e, [next EXCEPT !.base = i, !.instance = i])
                     \/ o # "ok" /\ \E r : RefsFailed(e, [x EXCEPT !.instance = i], r)
      BY <2>6
    \* The list is written: the version in the cache is the one that was replaced.
    <3>2. ASSUME env'[e] = i, x.base = y
          PROVE  Older(c, i) /\ Listed(c, i) /\ i.uid <= uids
      <4>1. c = x.base /\ Older(c, c)
        BY <1>0, <2>1, <3>2, Present
      <4> QED BY <1>2, <2>1, <2>2, <2>3, <2>6, <3>2, <4>1 DEF Older, Listed
    <3>3. CASE o = "ok"
      <4> DEFINE z == [next EXCEPT !.base = i, !.instance = i]
      <4>1. /\ z.base = i /\ z.instance = i /\ z.refs = x.refs /\ z.pc = "addRefs"
        BY <2>4 DEF Worker
      <4>2. w'[e] = z
        BY <1>cont, <3>1, <3>3
      <4>3. env'[e] = i /\ x.base = y
        BY <1>0, <3>1, <3>3 DEF UpdateEnv, Respond, Applied
      <4>4. Older(i, c) /\ Older(i, i)
        <5>1. c = x.base
          BY <2>1, <4>3
        <5>2. Older(c, c) /\ Older(i, i)
          BY <1>0, <2>3, Present
        <5> QED BY <2>3, <5>1, <5>2 DEF Older
      <4> HIDE DEF z
      <4>5. WorkerRefs(i, c, z, uids)
        BY <1>2, <1>3, <2>1, <2>2, <2>3, <4>1, <4>3, <4>4 DEF WorkerRefs
      <4> QED BY <1>1, <1>2, <3>2, <4>2, <4>3, <4>5 DEF RefsOf
    <3>4. CASE o # "ok"
      <4>1. \/ w'[e] = Idle
            \/ /\ ~x.base.deleting
               /\ \E r : w'[e] = [[x EXCEPT !.instance = i] EXCEPT !.pc = "report", !.cond = r]
        <5>1. [x EXCEPT !.instance = i].instance = i
          BY <1>0 DEF Worker
        <5> QED BY <1>cont, <2>3, <3>1, <3>4, <5>1 DEF RefsFailed, GotoReport
      <4>2. \/ w'[e].pc = "idle"
            \/ /\ ~x.base.deleting
               /\ w'[e].base = x.base /\ w'[e].instance = i /\ w'[e].refs = x.refs
               /\ w'[e].pc = "report"
        BY <1>0, <1>idle, <4>1 DEF Worker
      <4>3. i # x.base
        BY <2>1, <2>3, <2>6 DEF RefsChanged, Dropped
      <4>4. /\ env'[e] = y \/ (env'[e] = i /\ x.base = y)
            /\ env'[e].uid <= uids /\ Older(c, env'[e]) /\ Listed(c, env'[e])
            /\ Older(x.base, env'[e])
        <5>1. env'[e] = y \/ (env'[e] = i /\ x.base = y)
          BY <1>write, <3>1
        <5>2. CASE env'[e] = y
          BY <1>2, <5>2 DEF WorkerRefs
        <5>3. CASE env'[e] = i /\ x.base = y
          <6>1. Older(x.base, x.base)
            BY <1>0, Present
          <6> QED BY <2>3, <3>2, <5>3, <6>1 DEF Older
        <5> QED BY <5>1, <5>2, <5>3
      <4>5. w'[e].pc # "idle" => WorkerRefs(env'[e], c, w'[e], uids)
        <5> SUFFICES ASSUME w'[e].pc # "idle"
                     PROVE  WorkerRefs(env'[e], c, w'[e], uids)
          OBVIOUS
        <5> DEFINE z == w'[e]
                   v == env'[e]
        <5>1. /\ ~x.base.deleting /\ z.base = x.base /\ z.instance = i /\ z.pc = "report"
          BY <4>2
        <5>2. x.base = v => c = v
          BY <2>1, <4>3, <4>4
        <5>3. RefsChanged(x.base.refs, x.base.spec.secrets) /\ i.refs = x.base.spec.secrets
          BY <2>1, <2>2, <2>3, <2>6, <5>1
        <5>4. Older(x.base, c) /\ x.base.uid # 0 /\ x.base.uid <= uids
          BY <1>2 DEF WorkerRefs
        <5>5. Older(x.base, v)
          BY <4>4
        <5> HIDE DEF z, v
        <5>6. WorkerRefs(v, c, z, uids)
          BY <2>1, <2>3, <5>1, <5>2, <5>3, <5>4, <5>5 DEF WorkerRefs
        <5> QED BY <5>6 DEF z, v
      <4> QED BY <1>1, <1>2, <4>4, <4>5 DEF RefsOf
    <3> QED BY <3>3, <3>4
  <2> QED BY <1>6, <2>5, <2>6 DEF UpdateRefs, i, next
<1>7. CASE AddRef(e)
  <2>1. /\ x.pc = "addRefs" /\ env' = env
        /\ \/ Continue(e, [x EXCEPT !.todo = Tail(@)])
           \/ \E r : RefsFailed(e, x, r)
    BY <1>7 DEF AddRef
  <2>2. w'[e] \in {Idle, [x EXCEPT !.todo = Tail(@)]} \/ \E r : w'[e] = [x EXCEPT !.pc = "report", !.cond = r]
    BY <1>cont, <2>1 DEF RefsFailed, GotoReport
  <2>3. w'[e].pc = "idle" \/ (/\ w'[e].base = x.base /\ w'[e].instance = x.instance
                              /\ w'[e].refs = x.refs /\ w'[e].pc \in {"report", x.pc})
    BY <1>0, <1>idle, <2>2 DEF Worker
  <2> QED BY <1>moved, <2>1, <2>3
<1>8. CASE RefsDone(e)
  <2>1. /\ x.pc = "addRefs" /\ env' = env
        /\ \/ x.instance.deleting /\ Continue(e, [x EXCEPT !.pc = "removeFinalizer"])
           \/ \E p \in {"redis", "conf"} : Continue(e, [x EXCEPT !.pc = p])
           \/ \E r : GotoReport(e, x, r)
    BY <1>8 DEF RefsDone
  <2>2. CASE x.instance.deleting /\ Continue(e, [x EXCEPT !.pc = "removeFinalizer"])
    <3> DEFINE z == [x EXCEPT !.pc = "removeFinalizer"]
    <3>1. /\ z.base = x.base /\ z.instance = x.instance /\ z.refs = x.refs
          /\ z.pc = "removeFinalizer"
      BY <1>0 DEF Worker
    <3>2. w'[e] = z
      BY <1>cont, <2>2
    <3> HIDE DEF z
    <3>3. WorkerRefs(y, c, z, uids)
      BY <1>2, <1>3, <2>1, <2>2, <3>1 DEF WorkerRefs
    <3>4. RefsOf(y, c, z, uids)
      BY <1>2, <3>3 DEF RefsOf
    <3> QED BY <1>1, <2>1, <3>2, <3>4
  <2>3. CASE \/ \E p \in {"redis", "conf"} : Continue(e, [x EXCEPT !.pc = p])
             \/ \E r : GotoReport(e, x, r)
    <3>1. \/ \E p \in {"redis", "conf"} : w'[e] = [x EXCEPT !.pc = p]
          \/ \E r : w'[e] = [x EXCEPT !.pc = "report", !.cond = r]
      BY <1>cont, <2>3 DEF GotoReport
    <3>2. /\ w'[e].base = x.base /\ w'[e].instance = x.instance /\ w'[e].refs = x.refs
          /\ w'[e].pc \in {"report", "redis", "conf"}
      BY <1>0, <3>1 DEF Worker
    <3> QED BY <1>moved, <2>1, <3>2
  <2> QED BY <2>1, <2>2, <2>3
\* The finalizer is removed when the version in the cache is marked as deleted.
<1>9. CASE RemoveFinalizer(e)
  <2>1. PICK o \in Outcome : UpdateEnv(e, NoEnv, o)
    BY <1>9 DEF RemoveFinalizer
  <2>2. w'[e].pc = "idle" /\ x.pc = "removeFinalizer"
    BY <1>9, <1>cont, <1>idle DEF RemoveFinalizer
  <2>3. CASE env'[e] = y
    BY <1>moved, <2>2, <2>3
  <2>4. CASE env'[e] = NoEnv /\ x.base = y
    <3>1. y.deleting /\ y.uid # 0 /\ Older(y, c)
      BY <1>2, <2>2, <2>4 DEF WorkerRefs
    <3>2. ~(c.uid # 0 /\ c.finalizer /\ ~c.deleting)
      BY <1>2, <3>1 DEF Listed, Older
    <3>3. NoEnv.uid = 0 /\ uids \in Nat
      BY ConstantTypes DEF EnvTyped, EnvTypeOK
    <3>4. Older(c, NoEnv) /\ Listed(c, NoEnv) /\ NoEnv.uid <= uids
      BY <3>2, <3>3 DEF Older, Listed
    <3> QED BY <1>1, <1>2, <2>2, <2>4, <3>4 DEF RefsOf
  <2> QED BY <1>write, <2>1, <2>3, <2>4
<1>10. CASE AddFinalizer(e)
  <2> DEFINE v == [x.instance EXCEPT !.finalizer = TRUE]
  <2>1. PICK o \in Outcome :
          /\ UpdateEnv(e, v, o)
          /\ \/ \E requeue, after : Return(e, requeue, after)
             \/ \E r : Continue(e, [x EXCEPT !.pc = "reportError", !.cond = r])
    BY <1>10 DEF AddFinalizer
  <2>2. x.pc = "addFinalizer"
    BY <1>10 DEF AddFinalizer
  <2>3. w'[e].pc = "idle" \/ (/\ w'[e].base = x.base /\ w'[e].instance = x.instance
                              /\ w'[e].refs = x.refs /\ w'[e].pc = "reportError")
    <3>1. w'[e] = Idle \/ \E r : w'[e] = [x EXCEPT !.pc = "reportError", !.cond = r]
      BY <1>cont, <2>1
    <3> QED BY <1>0, <1>idle, <3>1 DEF Worker
  <2>4. CASE env'[e] = y
    BY <1>moved, <2>2, <2>3, <2>4
  <2>5. CASE env'[e] = v /\ x.base = y
    <3>1. /\ v \in EnvObject /\ v.uid = y.uid /\ v.generation = y.generation
          /\ v.deleting = y.deleting /\ v.finalizer /\ v.refs = y.refs
      BY <1>0, <1>3, <1>4, <2>2, <2>5 DEF EnvObject
    <3> HIDE DEF v
    <3>2. /\ Older(c, v) /\ Listed(c, v) /\ Older(y, v)
      <4>1. Older(y, y)
        BY <1>0, Present
      <4> QED BY <1>0, <1>2, <3>1, <4>1, Rewritten
    <3>3. WorkerRefs(v, c, x, uids)
      BY <1>2, <1>4, <2>2, <2>5, <3>2 DEF WorkerRefs
    <3>4. RefsOf(v, c, x, uids)
      BY <1>2, <3>1, <3>2, <3>3 DEF RefsOf
    <3> HIDE DEF x, c, y
    <3>5. RefsOf(v, c, w'[e], uids)
      BY <1>1, <2>2, <2>3, <3>4, Moved
    <3> QED BY <1>1, <2>5, <3>5 DEF c
  <2> QED BY <1>write, <2>1, <2>4, <2>5
<1>11. CASE ReportError(e) \/ Report(e)
  <2> DEFINE v == [x.instance EXCEPT !.ready = x.cond]
  <2>1. w'[e].pc = "idle"
    BY <1>11, <1>cont, <1>idle DEF ReportError, Report
  <2>2. PICK o \in Outcome : env' = env \/ UpdateEnv(e, v, o)
    BY <1>11 DEF ReportError, Report, updateStatus
  <2>3. CASE env'[e] = y
    BY <1>1, <1>2, <2>1, <2>3 DEF RefsOf
  <2>4. CASE env'[e] = v /\ x.base = y
    <3>1. /\ v \in EnvObject /\ v.uid = y.uid /\ v.generation = y.generation
          /\ v.deleting = y.deleting /\ v.finalizer = y.finalizer /\ v.refs = x.instance.refs
      BY <1>0, <1>3, <2>4 DEF EnvObject
    <3> HIDE DEF v
    <3> QED BY <1>written, <2>1, <2>4, <3>1
  <2> QED BY <1>write, <2>2, <2>3, <2>4
<1>12. CASE UpsertRedisSecret(e) \/ CreateRedisPod(e) \/ UpsertRedisService(e) \/ UpsertMergedSecret(e)
  <2>1. /\ env' = env /\ x.pc \in {"redis", "pod", "svc", "conf"}
        /\ \/ \E p : Continue(e, [x EXCEPT !.pc = "pod", !.password = p])
           \/ \E b : Continue(e, [x EXCEPT !.pc = "svc", !.ready = b])
           \/ Continue(e, [x EXCEPT !.pc = "conf"])
           \/ \E r : GotoReport(e, x, r)
    BY <1>12 DEF UpsertRedisSecret, CreateRedisPod, UpsertRedisService, UpsertMergedSecret
  <2>2. \/ \E p : w'[e] = [x EXCEPT !.pc = "pod", !.password = p]
        \/ \E b : w'[e] = [x EXCEPT !.pc = "svc", !.ready = b]
        \/ w'[e] = [x EXCEPT !.pc = "conf"]
        \/ \E r : w'[e] = [x EXCEPT !.pc = "report", !.cond = r]
    BY <1>cont, <2>1 DEF GotoReport
  <2>3. /\ w'[e].base = x.base /\ w'[e].instance = x.instance /\ w'[e].refs = x.refs
        /\ w'[e].pc \in {"pod", "svc", "conf", "report"}
    BY <1>0, <2>2 DEF Worker
  <2> QED BY <1>moved, <2>1, <2>3
<1> QED BY <1>5, <1>6, <1>7, <1>8, <1>9, <1>10, <1>11, <1>12 DEF Work

\* What is known is not lost.
LEMMA RefsKept ==
  ASSUME EnvTyped, RefsKnown, [Next]_vars
  PROVE  RefsKnown'
<1> SUFFICES ASSUME NEW e \in Env
             PROVE  RefsOf(env'[e], envCache'[e], w'[e], uids')
  BY DEF RefsKnown
<1> DEFINE y == env[e]
           c == envCache[e]
           x == w[e]
           n == uids
<1>1. RefsOf(y, c, x, n)
  BY DEF RefsKnown
<1>2. /\ y \in EnvObject /\ c \in EnvObject /\ x \in Worker /\ n \in Nat
      /\ env \in [Env -> EnvObject] /\ Specs \subseteq Specs \cup {Spec0} /\ Idle.pc = "idle"
  BY ConstantTypes DEF EnvTyped, EnvTypeOK
<1>3. ASSUME env'[e] = y, envCache'[e] = c, w'[e] = x, uids' \in Nat, uids <= uids'
      PROVE  RefsOf(env'[e], envCache'[e], w'[e], uids')
  <2> DEFINE m == uids'
  <2>1. m \in Nat /\ n <= m
    BY <1>3
  <2>2. x.base.uid \in Nat /\ y.uid \in Nat /\ c.uid \in Nat
    BY <1>2 DEF Worker, EnvObject
  <2> HIDE DEF x, y, c, n, m
  <2>3. RefsOf(y, c, x, m)
    BY <1>1, <1>2, <2>1, <2>2 DEF RefsOf, WorkerRefs
  <2> QED BY <1>3, <2>3 DEF x, y, c, m
<1>4. CASE WatchEnv(e)
  <2>1. env' = env /\ envCache'[e] = y /\ w' = w /\ uids' = uids
    BY <1>4 DEF WatchEnv, storeVars, otherVars, EnvTyped, EnvTypeOK
  <2> HIDE DEF x, y, c, n
  <2>2. RefsOf(y, y, x, n)
    BY <1>1, <1>2, Present DEF RefsOf, WorkerRefs
  <2> QED BY <2>1, <2>2 DEF x, y, n
<1>5. CASE Crash
  <2>1. env' = env /\ envCache'[e] = y /\ w'[e] = Idle /\ uids' = uids
    BY <1>5 DEF Crash
  <2> HIDE DEF x, y, c, n
  <2>2. RefsOf(y, y, Idle, n)
    BY <1>1, <1>2, Present DEF RefsOf
  <2> QED BY <2>1, <2>2 DEF y, n
<1>6. CASE DeleteEnv(e) \/ \E spec \in Specs : CreateEnv(e, spec) \/ EditSpec(e, spec)
  <2> DEFINE z == env'[e]
             m == uids'
  <2>1. /\ envCache' = envCache /\ w' = w
        /\ \/ y.uid = 0 /\ z.uid = n + 1 /\ m = n + 1
           \/ m = n /\ z = NoEnv /\ ~y.finalizer /\ y.uid # 0
           \/ m = n /\ z = [y EXCEPT !.deleting = TRUE] /\ y.uid # 0 /\ ~y.deleting
           \/ /\ m = n /\ z.uid = y.uid /\ z.deleting = y.deleting
              /\ z.finalizer = y.finalizer /\ z.refs = y.refs
              /\ z.generation = y.generation + 1 /\ y.uid # 0
    <3>1. CASE DeleteEnv(e)
      BY <1>2, <3>1 DEF DeleteEnv, cacheVars, workVars
    <3>2. ASSUME NEW spec \in Specs, CreateEnv(e, spec)
          PROVE  /\ envCache' = envCache /\ w' = w
                 /\ y.uid = 0 /\ z.uid = n + 1 /\ m = n + 1
      BY <1>2, <3>2 DEF CreateEnv, cacheVars, workVars, NoEnv
    <3>3. ASSUME NEW spec \in Specs, EditSpec(e, spec)
          PROVE  /\ envCache' = envCache /\ w' = w
                 /\ m = n /\ z.uid = y.uid /\ z.deleting = y.deleting
                 /\ z.finalizer = y.finalizer /\ z.refs = y.refs
                 /\ z.generation = y.generation + 1 /\ y.uid # 0
      <4>1. z = [y EXCEPT !.spec = spec, !.generation = @ + 1]
        BY <1>2, <3>3 DEF EditSpec
      <4>2. /\ z.uid = y.uid /\ z.deleting = y.deleting
            /\ z.finalizer = y.finalizer /\ z.refs = y.refs
            /\ z.generation = y.generation + 1
        BY <1>2, <4>1 DEF EnvObject
      <4> QED BY <3>3, <4>2 DEF EditSpec, cacheVars, workVars
    <3> QED BY <1>6, <3>1, <3>2, <3>3
  <2>2. z \in EnvObject /\ m \in Nat
    BY TypesKept DEF EnvTyped, EnvTypeOK
  <2> HIDE DEF x, y, c, n, z, m
  <2>3. RefsOf(z, c, x, m)
    BY <1>1, <1>2, <2>1, <2>2, UserRefs
  <2> QED BY <2>1, <2>3 DEF x, c, z, m
<1>7. CASE Reconcile(e) \/ Work(e)
  BY <1>1, <1>7, ReconcileRefs, WorkRefs
<1> QED BY <1>3, <1>4, <1>5, <1>6, <1>7, StepsOf

\* At first there are no ImageBuildEnvs.
LEMMA RefsFirst == Init => RefsKnown
BY ConstantTypes DEF Init, RefsKnown, RefsOf, Older, Listed

\* The types and what is known of the references hold always.
LEMMA AlwaysKnown == EnvSpec => [](EnvTyped /\ RefsKnown)
<1>1. Init => EnvTyped /\ RefsKnown
  BY TypesFirst, RefsFirst
<1>2. EnvTyped /\ RefsKnown /\ [Next]_vars => (EnvTyped /\ RefsKnown)'
  BY TypesKept, RefsKept
<1> QED BY <1>1, <1>2, PTL DEF EnvSpec

\* No call but AddReference's writes an owner that has not been there.
LEMMA OwnersAdded ==
  ASSUME EnvTyped, [Next]_vars, NEW s \in Secret, NEW e \in Env,
         input'[s].owners[e] \notin {0, input[s].owners[e]}
  PROVE  /\ AddRef(e) /\ s = Head(w[e].todo) /\ input'[s].owners[e] = w[e].instance.uid
<1>ok. input \in [Secret -> Input] /\ inputCache \in [Secret -> Input] /\ w \in [Env -> Worker]
  BY DEF EnvTyped, EnvTypeOK
<1>no. NoInput.owners = NoOwner /\ NoOwner[e] = 0
  BY DEF NoInput, NoOwner
<1>changed. input'[s] # input[s]
  OBVIOUS
<1>set. \A t \in Secret : \A v : SetInput(t, v) => s = t /\ input'[s] = v
  BY <1>ok, <1>changed DEF SetInput
<1>update. \A t \in Secret : \A old, v, o : UpdateInput(t, old, v, o) =>
             s = t /\ input'[s] = v /\ input[s] = old
  <2> SUFFICES ASSUME NEW t \in Secret, NEW old, NEW v, NEW o, UpdateInput(t, old, v, o)
               PROVE  s = t /\ input'[s] = v /\ input[s] = old
    OBVIOUS
  <2>1. Applied(o)
    BY <1>changed DEF UpdateInput
  <2>2. input[t] = old
    BY <2>1 DEF UpdateInput, Respond, Applied
  <2> QED BY <1>set, <2>1, <2>2 DEF UpdateInput
<1>1. ASSUME NEW d \in Env, DelRef(d)
      PROVE  FALSE
  <2>1. PICK t \in Secret, o \in Outcome :
          UpdateInput(t, inputCache[t], [inputCache[t] EXCEPT !.owners[d] = 0], o)
    <3>1. \A i \in DOMAIN w[d].todo : w[d].todo[i] \in Secret
      BY <1>ok DEF Worker
    <3> QED BY <1>1, <1>changed, <3>1 DEF DelRef
  <2>2. /\ input[s] = inputCache[t] /\ input'[s] = [input[s] EXCEPT !.owners[d] = 0]
    BY <1>update, <2>1
  <2>3. input'[s].owners = [input[s].owners EXCEPT ![d] = 0]
    BY <1>ok, <2>2 DEF Input
  <2> QED BY <1>ok, <2>3 DEF Input
<1>2. ASSUME NEW d \in Env, AddRef(d)
      PROVE  /\ AddRef(e) /\ s = Head(w[e].todo) /\ input'[s].owners[e] = w[e].instance.uid
  <2> DEFINE t == Head(w[d].todo)
  <2>1. t \in Secret
    BY <1>ok, <1>2 DEF AddRef, Worker
  <2>2. PICK x : \E o \in Outcome :
          UpdateInput(t, x, [x EXCEPT !.owners[d] = w[d].instance.uid], o)
    BY <1>2, <1>changed DEF AddRef
  <2>3. s = t /\ input'[s] = [input[s] EXCEPT !.owners[d] = w[d].instance.uid]
    BY <1>update, <2>1, <2>2
  <2>4. input'[s].owners = [input[s].owners EXCEPT ![d] = w[d].instance.uid]
    BY <1>ok, <2>3 DEF Input
  <2>5. d = e
    BY <1>ok, <2>4 DEF Input
  <2> QED BY <1>2, <1>ok, <2>3, <2>4, <2>5 DEF Input
<1>3. ASSUME NEW t \in Secret, CreateInput(t) \/ DeleteInput(t) \/ EditInput(t) \/ CollectInput(t)
      PROVE  FALSE
  <2>1. CASE CreateInput(t)
    <3>1. input'[s] = [NoInput EXCEPT !.exists = TRUE, !.data = versions + 1]
      BY <1>set, <2>1 DEF CreateInput
    <3>2. input'[s].owners = NoOwner
      BY <3>1 DEF NoInput
    <3> QED BY <1>no, <3>2
  <2>2. CASE DeleteInput(t)
    <3>1. input'[s] = NoInput
      BY <1>set, <2>2 DEF DeleteInput
    <3> QED BY <1>no, <3>1
  <2>3. CASE EditInput(t)
    <3>1. PICK d : SetInput(t, [input[t] EXCEPT !.data = d])
      BY <2>3 DEF EditInput
    <3>2. input'[s] = [input[s] EXCEPT !.data = d]
      BY <1>set, <3>1
    <3>3. input'[s].owners = input[s].owners
      BY <1>ok, <3>2 DEF Input
    <3> QED BY <3>3
  <2>4. CASE CollectInput(t)
    <3>1. \/ SetInput(t, NoInput)
          \/ SetInput(t, [input[t] EXCEPT !.owners =
                            [d \in Env |-> IF d \in Dangling(t) THEN 0 ELSE @[d]]])
      BY <2>4 DEF CollectInput
    <3>2. CASE SetInput(t, NoInput)
      BY <1>set, <1>no, <3>2
    <3>3. CASE SetInput(t, [input[t] EXCEPT !.owners =
                            [d \in Env |-> IF d \in Dangling(t) THEN 0 ELSE @[d]]])
      <4>1. input'[s] = [input[s] EXCEPT !.owners =
                            [d \in Env |-> IF d \in Dangling(s) THEN 0 ELSE @[d]]]
        BY <1>set, <3>3
      <4>2. input'[s].owners = [d \in Env |-> IF d \in Dangling(s) THEN 0
                                              ELSE input[s].owners[d]]
        BY <1>ok, <4>1 DEF Input
      <4> QED BY <4>2
    <3> QED BY <3>1, <3>2, <3>3
  <2> QED BY <1>3, <2>1, <2>2, <2>3, <2>4
<1>4. input' # input
  BY <1>changed
<1>5. CASE Next
  <2>1. ASSUME NEW d \in Env, Reconcile(d) \/ WatchEnv(d) \/ RequeueAfter(d)
                              \/ \E k \in Kind : WatchOutput(d, k)
        PROVE  FALSE
    BY <1>4, <2>1 DEF Reconcile, ReconcileNothing, ReconcileDeleted, ReconcileNew,
                      ReconcileInputs, Dequeue, WatchEnv, RequeueAfter, WatchOutput, storeVars
  <2>2. ASSUME NEW d \in Env, Work(d)
        PROVE  DelRef(d) \/ AddRef(d)
    BY <1>4, <2>2 DEF Work, UpdateRefs, RefsDone, RemoveFinalizer, AddFinalizer, ReportError,
                      Report, UpsertRedisSecret, CreateRedisPod, UpsertRedisService,
                      UpsertMergedSecret
  <2>3. ASSUME NEW d \in Env,
               \/ DeleteEnv(d) \/ StartPod(d) \/ RestartPod(d)
               \/ \E spec \in Specs : CreateEnv(d, spec) \/ EditSpec(d, spec)
               \/ \E k \in Kind : DeleteOutput(d, k) \/ CollectOutput(d, k)
        PROVE  FALSE
    BY <1>4, <2>3 DEF DeleteEnv, StartPod, RestartPod, CreateEnv, EditSpec, DeleteOutput,
                      CollectOutput, ChangeOutput
  <2>4. ~Crash /\ \A t \in Secret : ~WatchInput(t)
    BY <1>4 DEF Crash, WatchInput
  <2> QED BY <1>1, <1>2, <1>3, <1>5, <2>1, <2>2, <2>3, <2>4 DEF Next, Operator, Environment
<1> QED BY <1>4, <1>5 DEF vars

\* AddReference writes the UID of the present ImageBuildEnv into an input that
\* its stored status lists.
LEMMA OwnersRecorded ==
  ASSUME EnvTyped, RefsKnown, [Next]_vars, NEW s \in Secret, NEW e \in Env,
         input'[s].owners[e] \notin {0, input[s].owners[e]}
  PROVE  /\ input'[s].owners[e] = env[e].uid /\ s \in Range(env[e].refs)
         /\ w[e].refs # <<>>
<1> DEFINE x == w[e]
<1>1. AddRef(e) /\ s = Head(x.todo) /\ input'[s].owners[e] = x.instance.uid
  BY OwnersAdded
<1>2. /\ x.pc = "addRefs" /\ x.todo # <<>> /\ x.base \in EnvObject
      /\ x.refs \in Seq(Secret) /\ x.todo \in Seq(Secret) /\ Aligned(x)
  BY <1>1 DEF AddRef, EnvTyped, EnvTypeOK, Worker
<1>3. WorkerRefs(env[e], envCache[e], x, uids)
  BY <1>2 DEF RefsKnown, RefsOf
<1>4. x.instance.uid = x.base.uid
  BY <1>2, <1>3 DEF WorkerRefs, EnvObject
<1>5. Head(x.todo) \in Range(x.refs)
  <2> DEFINE r == Len(x.refs)
             m == Len(x.todo)
  <2>1. /\ m \in Nat /\ m # 0 /\ r \in Nat /\ DOMAIN x.refs = 1..r
        /\ Head(x.todo) = x.todo[1]
    BY <1>2
  <2>2. m <= r /\ \A i \in 1..m : x.todo[i] = x.refs[r - m + i]
    BY <1>2 DEF Aligned
  <2> HIDE DEF r, m
  <2>3. 1 \in 1..m /\ r - m + 1 \in 1..r
    BY <2>1, <2>2
  <2>4. Head(x.todo) = x.refs[r - m + 1] /\ r - m + 1 \in DOMAIN x.refs
    BY <2>1, <2>2, <2>3
  <2> QED BY <2>4 DEF Range
<1>6. x.refs # <<>>
  BY <1>5 DEF Range
<1> QED BY <1>1, <1>2, <1>3, <1>4, <1>5, <1>6 DEF WorkerRefs

\* However stale the caches are, and whatever calls fail: AddReference writes the
\* UID of the present ImageBuildEnv into an input that its stored status lists,
\* so that the finalizer will look at the input.
THEOREM RefsAreRecorded == EnvSpec => RefsRecordedFirst
<1>1. EnvTyped /\ RefsKnown /\ [Next]_vars =>
        [\A s \in Secret, e \in Env :
           input'[s].owners[e] \notin {0, input[s].owners[e]} =>
             input'[s].owners[e] = env[e].uid /\ s \in Range(env[e].refs)]_vars
  BY OwnersRecorded
<1> QED BY <1>1, AlwaysKnown, PTL DEF EnvSpec, RefsRecordedFirst

-----------------------------------------------------------------------------
(* No owner reference dangles, unless it was overlooked.                   *)
(*                                                                         *)
(* A reference to an ImageBuildEnv is in an input that its stored status   *)
(* lists, because it is recorded first, and leaves the status after it has *)
(* left the input or been overlooked: DelReference does nothing if the     *)
(* cache does not show the reference.                                      *)

\* Input s has a reference to e, which has not been overlooked.
Owned(e, s) == input[s].owners[e] # 0 /\ <<s, e, input[s].owners[e]>> \notin overlooked

Unowned(e, S) == \A s \in S : ~Owned(e, s)

\* References to e are those to the present ImageBuildEnv, in inputs that it
\* lists and will look at.
OwnersListed(e) ==
  \A s \in Secret : Owned(e, s) =>
    input[s].owners[e] = env[e].uid /\ env[e].finalizer /\ s \in Range(env[e].refs)

\* What Reconcile has passed, or is about to drop from the list, is no longer
\* owned.
DroppedUnowned(e) ==
  /\ w[e].pc = "delRefs" =>
       Unowned(e, Dropped(w[e].base.refs, w[e].refs) \ Range(w[e].todo))
  /\ w[e].instance.refs # w[e].base.refs =>
       Unowned(e, Dropped(w[e].base.refs, w[e].instance.refs))
  /\ w[e].pc \in {"addRefs", "removeFinalizer"} /\ w[e].base.deleting => w[e].base.refs = <<>>

NoInputOwned == \A s \in Secret : input[s].exists \/ input[s].owners = NoOwner

RefsOwned == NoInputOwned /\ \A e \in Env : OwnersListed(e) /\ DroppedUnowned(e)

\* What has been overlooked is not forgotten.
LEMMA OverlookedStays ==
  ASSUME [Next]_vars
  PROVE  overlooked \subseteq overlooked'
<1>1. ASSUME NEW e \in Env, Work(e)
      PROVE  overlooked \subseteq overlooked'
  BY <1>1 DEF Work, DelRef, AddRef, UpdateRefs, RefsDone, RemoveFinalizer, AddFinalizer,
              ReportError, Report, UpsertRedisSecret, CreateRedisPod, UpsertRedisService,
              UpsertMergedSecret, cacheVars
<1>2. ASSUME NEW e \in Env, Reconcile(e) \/ WatchEnv(e) \/ RequeueAfter(e)
                            \/ \E k \in Kind : WatchOutput(e, k)
      PROVE  UNCHANGED overlooked
  BY <1>2 DEF Reconcile, ReconcileNothing, ReconcileDeleted, ReconcileNew, ReconcileInputs,
              Dequeue, WatchEnv, RequeueAfter, WatchOutput, otherVars, cacheVars
<1>3. ASSUME NEW e \in Env,
             \/ DeleteEnv(e) \/ StartPod(e) \/ RestartPod(e)
             \/ \E spec \in Specs : CreateEnv(e, spec) \/ EditSpec(e, spec)
             \/ \E k \in Kind : DeleteOutput(e, k) \/ CollectOutput(e, k)
      PROVE  UNCHANGED overlooked
  BY <1>3 DEF DeleteEnv, StartPod, RestartPod, CreateEnv, EditSpec, DeleteOutput,
              CollectOutput, ChangeOutput, cacheVars
<1>4. ASSUME NEW s \in Secret, \/ WatchInput(s) \/ CreateInput(s) \/ EditInput(s)
                               \/ DeleteInput(s) \/ CollectInput(s)
      PROVE  UNCHANGED overlooked
  BY <1>4 DEF WatchInput, CreateInput, EditInput, DeleteInput, CollectInput, otherVars, cacheVars
<1>5. Crash => UNCHANGED overlooked
  BY DEF Crash
<1> QED BY <1>1, <1>2, <1>3, <1>4, <1>5 DEF Next, Operator, Environment, vars

\* A step that adds no reference leaves those that there are, or fewer.
LEMMA OwnedStays ==
  ASSUME [Next]_vars, NEW e \in Env, NEW s \in Secret,
         input'[s].owners[e] \in {0, input[s].owners[e]}, Owned(e, s)'
  PROVE  Owned(e, s) /\ input'[s].owners[e] = input[s].owners[e]
<1>1. input'[s].owners[e] = input[s].owners[e] /\ input[s].owners[e] # 0
  BY DEF Owned
<1>2. overlooked \subseteq overlooked'
  BY OverlookedStays
<1> QED BY <1>1, <1>2 DEF Owned

\* An input that is deleted leaves no owners.
LEMMA AbsentKept ==
  ASSUME EnvTyped, NoInputOwned, [Next]_vars
  PROVE  NoInputOwned'
<1> SUFFICES ASSUME NEW s \in Secret
             PROVE  input'[s].exists \/ input'[s].owners = NoOwner
  BY DEF NoInputOwned
<1>ok. input \in [Secret -> Input] /\ inputCache \in [Secret -> Input] /\ w \in [Env -> Worker]
  BY DEF EnvTyped, EnvTypeOK
<1>old. input[s].exists \/ input[s].owners = NoOwner
  BY DEF NoInputOwned
<1>no. NoInput.owners = NoOwner
  BY DEF NoInput
<1>set. ASSUME NEW t \in Secret, NEW v, SetInput(t, v), v.exists \/ v = NoInput
        PROVE  input'[s].exists \/ input'[s].owners = NoOwner
  <2>1. input'[s] = input[s] \/ input'[s] = v
    BY <1>ok, <1>set DEF SetInput
  <2> QED BY <1>old, <1>no, <1>set, <2>1
<1>same. input' = input => input'[s].exists \/ input'[s].owners = NoOwner
  BY <1>old
<1>update. ASSUME NEW t \in Secret, NEW old \in Input, NEW d \in Env, NEW u, NEW o, old.exists,
                  UpdateInput(t, old, [old EXCEPT !.owners[d] = u], o)
           PROVE  input'[s].exists \/ input'[s].owners = NoOwner
  <2>1. [old EXCEPT !.owners[d] = u].exists
    BY <1>update DEF Input
  <2> QED BY <1>set, <1>same, <1>update, <2>1 DEF UpdateInput
<1>1. ASSUME NEW d \in Env, DelRef(d)
      PROVE  input'[s].exists \/ input'[s].owners = NoOwner
  <2>1. \A i \in DOMAIN w[d].todo : w[d].todo[i] \in Secret
    BY <1>ok DEF Worker
  <2>2. CASE UNCHANGED input
    BY <1>same, <2>2
  <2>3. CASE \E t \in Secret : /\ inputCache[t].exists
                               /\ \E o \in Outcome :
                                    UpdateInput(t, inputCache[t],
                                                [inputCache[t] EXCEPT !.owners[d] = 0], o)
    <3>1. PICK t \in Secret : /\ inputCache[t].exists /\ inputCache[t] \in Input
                               /\ \E o \in Outcome :
                                    UpdateInput(t, inputCache[t],
                                                [inputCache[t] EXCEPT !.owners[d] = 0], o)
      BY <1>ok, <2>3
    <3> QED BY <1>update, <3>1
  <2> QED BY <1>1, <2>1, <2>2, <2>3 DEF DelRef, DelReference
<1>2. ASSUME NEW d \in Env, AddRef(d)
      PROVE  input'[s].exists \/ input'[s].owners = NoOwner
  <2> DEFINE t == Head(w[d].todo)
             i == Len(w[d].refs) - Len(w[d].todo) + 1
             x == w[d].inputs[i]
  <2>1. /\ t \in Secret /\ w[d].refs \in Seq(Secret) /\ w[d].todo \in Seq(Secret)
        /\ w[d].inputs \in Seq(Input) /\ Aligned(w[d])
        /\ w[d].pc = "addRefs" /\ w[d].todo # <<>>
    BY <1>ok, <1>2 DEF AddRef, Worker, EnvTyped
  <2>2. i \in DOMAIN w[d].inputs
    <3> DEFINE r == Len(w[d].refs)
               m == Len(w[d].todo)
    <3>1. /\ m \in Nat /\ m # 0 /\ r \in Nat
          /\ DOMAIN w[d].inputs = 1..Len(w[d].inputs)
      BY <2>1
    <3>2. m <= r /\ Len(w[d].inputs) = r
      BY <2>1 DEF Aligned
    <3> HIDE DEF r, m
    <3>3. r - m + 1 \in 1..r
      BY <3>1, <3>2
    <3> QED BY <3>1, <3>2, <3>3 DEF r, m
  <2>3. x \in Input /\ x.exists
    <3>1. \A j \in DOMAIN w[d].inputs : w[d].inputs[j] \in Input /\ w[d].inputs[j].exists
      BY <2>1 DEF Aligned
    <3> HIDE DEF i
    <3> QED BY <2>2, <3>1
  <2>4. input' = input \/ \E o \in Outcome :
          UpdateInput(t, x, [x EXCEPT !.owners[d] = w[d].instance.uid], o)
    BY <1>2 DEF AddRef
  <2> HIDE DEF t, x
  <2> QED BY <1>same, <1>update, <2>1, <2>3, <2>4
<1>3. ASSUME NEW t \in Secret, CreateInput(t) \/ DeleteInput(t) \/ EditInput(t) \/ CollectInput(t)
      PROVE  input'[s].exists \/ input'[s].owners = NoOwner
  <2>1. CASE CreateInput(t)
    <3>1. [NoInput EXCEPT !.exists = TRUE, !.data = versions + 1].exists
      BY DEF NoInput
    <3> QED BY <1>set, <2>1, <3>1 DEF CreateInput
  <2>2. CASE DeleteInput(t)
    BY <1>set, <2>2 DEF DeleteInput
  <2>3. CASE EditInput(t)
    <3>1. PICK d : SetInput(t, [input[t] EXCEPT !.data = d]) /\ input[t].exists
      BY <2>3 DEF EditInput
    <3>2. [input[t] EXCEPT !.data = d].exists
      BY <1>ok, <3>1 DEF Input
    <3> QED BY <1>set, <3>1, <3>2
  <2>4. CASE CollectInput(t)
    <3> DEFINE v == [input[t] EXCEPT !.owners =
                       [d \in Env |-> IF d \in Dangling(t) THEN 0 ELSE @[d]]]
    <3>1. SetInput(t, NoInput) \/ SetInput(t, v)
      BY <2>4 DEF CollectInput
    <3>2. v.exists = input[t].exists
      BY <1>ok DEF Input
    <3>3. input[t].exists
      <4>1. PICK d \in Env : input[t].owners[d] # 0
        BY <2>4 DEF CollectInput, Dangling, OwnersOf
      <4>2. NoOwner[d] = 0
        BY DEF NoOwner
      <4> QED BY <4>1, <4>2 DEF NoInputOwned
    <3> HIDE DEF v
    <3> QED BY <1>set, <3>1, <3>2, <3>3
  <2> QED BY <1>3, <2>1, <2>2, <2>3, <2>4
<1>4. CASE Next
  <2>1. ASSUME NEW d \in Env, Reconcile(d) \/ WatchEnv(d) \/ RequeueAfter(d)
                              \/ \E k \in Kind : WatchOutput(d, k)
        PROVE  input' = input
    BY <2>1 DEF Reconcile, ReconcileNothing, ReconcileDeleted, ReconcileNew,
                ReconcileInputs, Dequeue, WatchEnv, RequeueAfter, WatchOutput, storeVars
  <2>2. ASSUME NEW d \in Env, Work(d)
        PROVE  DelRef(d) \/ AddRef(d) \/ input' = input
    BY <2>2 DEF Work, UpdateRefs, RefsDone, RemoveFinalizer, AddFinalizer, ReportError,
                Report, UpsertRedisSecret, CreateRedisPod, UpsertRedisService,
                UpsertMergedSecret
  <2>3. ASSUME NEW d \in Env,
               \/ DeleteEnv(d) \/ StartPod(d) \/ RestartPod(d)
               \/ \E spec \in Specs : CreateEnv(d, spec) \/ EditSpec(d, spec)
               \/ \E k \in Kind : DeleteOutput(d, k) \/ CollectOutput(d, k)
        PROVE  input' = input
    BY <2>3 DEF DeleteEnv, StartPod, RestartPod, CreateEnv, EditSpec, DeleteOutput,
                CollectOutput, ChangeOutput
  <2>4. Crash \/ (\E t \in Secret : WatchInput(t)) => input' = input
    BY DEF Crash, WatchInput
  <2> QED BY <1>1, <1>2, <1>3, <1>same, <1>4, <2>1, <2>2, <2>3, <2>4
        DEF Next, Operator, Environment
<1> QED BY <1>4, <1>same DEF vars

\* AddReference adds references to what is listed.
LEMMA AddRefOwned ==
  ASSUME EnvTyped, RefsKnown, RefsOwned, [Next]_vars, NEW e \in Env, AddRef(e)
  PROVE  OwnersListed(e)' /\ DroppedUnowned(e)'
<1> DEFINE x == w[e]
<1>1. AddRef(e) /\ x.pc = "addRefs"
  BY DEF AddRef
<1>2. /\ w \in [Env -> Worker] /\ x \in Worker /\ UNCHANGED env
      /\ Idle.pc = "idle" /\ Idle.instance.refs = Idle.base.refs
  BY <1>1 DEF EnvTyped, EnvTypeOK, AddRef, Idle
<1>3. WorkerRefs(env[e], envCache[e], x, uids) /\ x.instance.refs = x.base.refs
  BY <1>1 DEF RefsKnown, RefsOf, WorkerRefs
<1>4. OwnersListed(e)'
  <2>1. SUFFICES ASSUME NEW s \in Secret, Owned(e, s)'
                 PROVE  /\ input'[s].owners[e] = env[e].uid /\ env[e].finalizer
                        /\ s \in Range(env[e].refs)
    BY <1>2 DEF OwnersListed
  <2>2. CASE input'[s].owners[e] = input[s].owners[e]
    BY <2>1, <2>2, OwnedStays DEF RefsOwned, OwnersListed
  <2>3. CASE input'[s].owners[e] \notin {0, input[s].owners[e]}
    <3>1. input'[s].owners[e] = env[e].uid /\ s \in Range(env[e].refs)
      BY <2>3, OwnersRecorded
    <3>2. x.refs # <<>>
      BY <2>3, OwnersRecorded
    <3> QED BY <1>1, <1>3, <3>1, <3>2 DEF WorkerRefs
  <2> QED BY <2>1, <2>2, <2>3 DEF Owned
<1>5. DroppedUnowned(e)'
  <2>1. \/ w'[e] = Idle \/ w'[e] = [x EXCEPT !.todo = Tail(@)]
        \/ \E r : w'[e] = [x EXCEPT !.pc = "report", !.cond = r]
    BY <1>1, <1>2 DEF AddRef, Continue, RefsFailed, Return, GotoReport
  <2>2. \/ w'[e] = Idle
        \/ w'[e].pc \in {"addRefs", "report"} /\ w'[e].base = x.base /\ w'[e].instance = x.instance
    BY <1>1, <1>2, <2>1 DEF Worker
  <2>3. w'[e].instance.refs = w'[e].base.refs /\ w'[e].pc \notin {"delRefs", "removeFinalizer"}
    BY <1>2, <1>3, <2>2
  <2>4. w'[e].pc = "addRefs" => w'[e].base = x.base
    BY <1>2, <2>2
  <2> QED BY <1>1, <2>3, <2>4 DEF DroppedUnowned, RefsOwned
<1> QED BY <1>4, <1>5

\* Steps of others, and of Reconcile when it starts.
LEMMA OutsideOwned ==
  ASSUME EnvTyped, RefsKnown, RefsOwned, [Next]_vars, NEW e \in Env, ~Work(e),
         \A s \in Secret : input'[s].owners[e] \in {0, input[s].owners[e]}
  PROVE  OwnersListed(e)' /\ DroppedUnowned(e)'
<1> DEFINE y == env[e]
           c == envCache[e]
           x == w[e]
           Listing == \A s \in Secret : Owned(e, s) =>
                        /\ input[s].owners[e] = env'[e].uid /\ env'[e].finalizer
                        /\ s \in Range(env'[e].refs)
<1>1. /\ OwnersListed(e) /\ DroppedUnowned(e) /\ y \in EnvObject /\ c \in EnvObject
      /\ x \in Worker /\ w \in [Env -> Worker] /\ env \in [Env -> EnvObject]
  BY DEF RefsOwned, EnvTyped, EnvTypeOK
<1>2. /\ x.base \in EnvObject /\ x.refs \in Seq(Secret) /\ x.instance \in EnvObject
  BY <1>1 DEF Worker
<1>idle. /\ Idle.pc = "idle" /\ Idle.instance.refs = Idle.base.refs
         /\ Idle \in Worker
  BY ConstantTypes DEF Idle
<1>listed. Listing => OwnersListed(e)'
  BY OwnedStays DEF OwnersListed
<1>same. env'[e] = y => Listing
  BY <1>1 DEF OwnersListed
<1>dropped. w'[e] = x => DroppedUnowned(e)'
  <2>1. ASSUME NEW S, S \subseteq Secret, Unowned(e, S)
        PROVE  Unowned(e, S)'
    BY <2>1, OwnedStays DEF Unowned
  <2>2. /\ Dropped(x.base.refs, x.refs) \subseteq Secret
        /\ Dropped(x.base.refs, x.instance.refs) \subseteq Secret
    BY <1>2 DEF Dropped, Range, EnvObject
  <2>3. ASSUME w'[e] = x
        PROVE  DroppedUnowned(e)'
    <3> HIDE DEF x
    <3>1. /\ x.pc = "delRefs" => Unowned(e, Dropped(x.base.refs, x.refs) \ Range(x.todo))
          /\ x.instance.refs # x.base.refs => Unowned(e, Dropped(x.base.refs, x.instance.refs))
          /\ x.pc \in {"addRefs", "removeFinalizer"} /\ x.base.deleting => x.base.refs = <<>>
      BY <1>1 DEF DroppedUnowned, x
    <3>2. \A s \in Secret : Owned(e, s)' => Owned(e, s)
      BY OwnedStays
    <3> QED BY <2>2, <2>3, <3>1, <3>2 DEF DroppedUnowned, Unowned
  <2> QED BY <2>3
<1>idling. w'[e] = Idle => DroppedUnowned(e)'
  BY <1>idle DEF DroppedUnowned
<1>3. CASE env'[e] = y /\ w'[e] = x
  BY <1>3, <1>listed, <1>same, <1>dropped
<1>4. CASE WatchEnv(e)
  BY <1>4, <1>3 DEF WatchEnv, storeVars, otherVars
<1>5. CASE Crash
  BY <1>5, <1>listed, <1>same, <1>idling DEF Crash
<1>6. CASE DeleteEnv(e)
  <2>1. w' = w /\ y.uid # 0
    BY <1>6 DEF DeleteEnv, workVars
  <2>2. CASE y.finalizer
    <3>1. env'[e] = [y EXCEPT !.deleting = TRUE]
      BY <1>1, <1>6, <2>2 DEF DeleteEnv
    <3>2. env'[e].uid = y.uid /\ env'[e].finalizer = y.finalizer /\ env'[e].refs = y.refs
      BY <1>1, <3>1 DEF EnvObject
    <3>3. Listing
      BY <1>1, <3>2 DEF OwnersListed
    <3> QED BY <1>listed, <1>dropped, <2>1, <3>3
  <2>3. CASE ~y.finalizer
    <3>1. Listing
      BY <1>1, <2>3 DEF OwnersListed
    <3> QED BY <1>listed, <1>dropped, <2>1, <3>1
  <2> QED BY <2>2, <2>3
<1>7. ASSUME NEW spec \in Specs, CreateEnv(e, spec)
      PROVE  OwnersListed(e)' /\ DroppedUnowned(e)'
  <2>1. w' = w /\ y.uid = 0
    BY <1>7 DEF CreateEnv, workVars
  <2>2. ~\E s \in Secret : Owned(e, s)
    BY <1>1, <2>1 DEF OwnersListed, Owned
  <2>3. Listing
    BY <2>2
  <2> QED BY <1>listed, <1>dropped, <2>1, <2>3
<1>8. ASSUME NEW spec \in Specs, EditSpec(e, spec)
      PROVE  OwnersListed(e)' /\ DroppedUnowned(e)'
  <2>1. w' = w
    BY <1>8 DEF EditSpec, workVars
  <2>2. env'[e] = [y EXCEPT !.spec = spec, !.generation = @ + 1]
    BY <1>1, <1>8 DEF EditSpec
  <2>3. env'[e].uid = y.uid /\ env'[e].finalizer = y.finalizer /\ env'[e].refs = y.refs
    BY <1>1, <2>2 DEF EnvObject
  <2>4. Listing
    BY <1>1, <2>3 DEF OwnersListed
  <2> QED BY <1>listed, <1>dropped, <2>1, <2>4
\* At first, all references in the status are still to be looked at.
<1>9. CASE Reconcile(e)
  <2>1. env' = env
    BY <1>9 DEF Reconcile, ReconcileNothing, ReconcileDeleted, ReconcileNew, ReconcileInputs,
                Dequeue, storeVars
  <2>2. ASSUME NEW z \in Worker, Load(e, z),
               z.pc \notin {"addRefs", "removeFinalizer"}, z.pc = "delRefs" => z.todo = c.refs
        PROVE  DroppedUnowned(e)'
    <3>1. w'[e] = [z EXCEPT !.base = c, !.instance = c]
      BY <1>1, <2>2 DEF Load
    <3>2. /\ w'[e].base = c /\ w'[e].instance = c /\ w'[e].pc = z.pc /\ w'[e].todo = z.todo
      BY <2>2, <3>1 DEF Worker
    <3>3. w'[e].pc = "delRefs" =>
            Dropped(w'[e].base.refs, w'[e].refs) \ Range(w'[e].todo) = {}
      BY <2>2, <3>2 DEF Dropped
    <3> HIDE DEF c
    <3> QED BY <2>2, <3>2, <3>3 DEF DroppedUnowned, Unowned
  <2>3. CASE w' = w
    BY <1>3, <2>1, <2>3
  <2>4. CASE ReconcileDeleted(e)
    <3> DEFINE z == [Idle EXCEPT !.pc = "delRefs", !.todo = c.refs]
    <3>1. z \in Worker /\ z.pc = "delRefs" /\ z.todo = c.refs
      BY <1>1, <1>idle DEF Worker, Step, EnvObject
    <3>2. Load(e, z)
      BY <2>4 DEF ReconcileDeleted
    <3> HIDE DEF z
    <3> QED BY <1>listed, <1>same, <2>1, <2>2, <3>1, <3>2
  <2>5. CASE ReconcileNew(e)
    <3> DEFINE z == [Idle EXCEPT !.pc = "addFinalizer"]
    <3>1. z \in Worker /\ z.pc = "addFinalizer"
      BY <1>idle DEF Worker, Step
    <3>2. Load(e, z)
      BY <2>5 DEF ReconcileNew
    <3> HIDE DEF z
    <3> QED BY <1>listed, <1>same, <2>1, <2>2, <3>1, <3>2
  <2>6. CASE ReconcileInputs(e)
    <3> DEFINE names == c.spec.secrets
    <3>1. \/ Load(e, [Idle EXCEPT !.pc = "delRefs", !.refs = names, !.todo = c.refs,
                        !.inputs = [i \in DOMAIN names |-> inputCache[names[i]]]])
          \/ \E i \in DOMAIN names :
               Load(e, [Idle EXCEPT !.pc = "report", !.cond = <<"MissingSecret", names[i]>>])
      BY <2>6 DEF ReconcileInputs
    <3>2. /\ w'[e].base = c /\ w'[e].instance = c
          /\ w'[e].pc = "report" \/ (w'[e].pc = "delRefs" /\ w'[e].todo = c.refs)
      <4>1. CASE Load(e, [Idle EXCEPT !.pc = "delRefs", !.refs = names, !.todo = c.refs,
                        !.inputs = [i \in DOMAIN names |-> inputCache[names[i]]]])
        BY <1>1, <1>idle, <4>1 DEF Load, Worker
      <4>2. CASE \E i \in DOMAIN names :
               Load(e, [Idle EXCEPT !.pc = "report", !.cond = <<"MissingSecret", names[i]>>])
        BY <1>1, <1>idle, <4>2 DEF Load, Worker
      <4> QED BY <3>1, <4>1, <4>2
    <3>3. w'[e].pc = "delRefs" =>
            Dropped(w'[e].base.refs, w'[e].refs) \ Range(w'[e].todo) = {}
      BY <3>2 DEF Dropped
    <3> HIDE DEF c
    <3>4. DroppedUnowned(e)'
      BY <3>2, <3>3 DEF DroppedUnowned, Unowned
    <3> QED BY <1>listed, <1>same, <2>1, <3>4
  <2> QED BY <1>9, <2>3, <2>4, <2>5, <2>6 DEF Reconcile, ReconcileNothing
<1> QED BY <1>3, <1>4, <1>5, <1>6, <1>7, <1>8, <1>9, StepsOf

\* What follows a position of a sequence.
LEMMA LaterPositions ==
  ASSUME NEW S, NEW q \in Seq(S), NEW i \in DOMAIN q, NEW j \in DOMAIN q, j > i
  PROVE  q[j] \in Range(SubSeq(q, i + 1, Len(q)))
<1> DEFINE m == Len(q)
           t == SubSeq(q, i + 1, m)
<1>1. m \in Nat /\ i \in 1..m /\ j \in 1..m /\ \A k \in 1..m : q[k] \in S
  OBVIOUS
<1>2. \A k \in (i + 1)..m : q[k] \in S
  BY <1>1
<1> HIDE DEF m
<1>3. /\ t \in Seq(S)
      /\ Len(t) = IF i + 1 <= m THEN m - (i + 1) + 1 ELSE 0
      /\ \A k \in 1..(m - (i + 1) + 1) : t[k] = q[(i + 1) + k - 1]
  BY <1>1, <1>2, SubSeqProperties
<1>4. /\ j - i \in 1..(m - (i + 1) + 1) /\ (i + 1) + (j - i) - 1 = j
      /\ i + 1 <= m
  BY <1>1
<1> HIDE DEF t
<1>5. t[j - i] = q[j]
  BY <1>3, <1>4
<1>6. j - i \in DOMAIN t
  BY <1>3, <1>4
<1> QED BY <1>5, <1>6 DEF Range, t, m

\* Reconcile's calls.
LEMMA WorkOwned ==
  ASSUME EnvTyped, RefsKnown, RefsOwned, [Next]_vars, NEW e \in Env, Work(e),
         \A s \in Secret : input'[s].owners[e] \in {0, input[s].owners[e]}
  PROVE  (OwnersListed(e)' /\ DroppedUnowned(e)') \/ AddRef(e)
<1> DEFINE y == env[e]
           c == envCache[e]
           x == w[e]
           Gone(S) == \A s \in S : ~Owned(e, s)'
<1>1. /\ OwnersListed(e) /\ DroppedUnowned(e) /\ y \in EnvObject /\ c \in EnvObject
      /\ x \in Worker /\ w \in [Env -> Worker] /\ env \in [Env -> EnvObject]
      /\ input \in [Secret -> Input]
  BY DEF RefsOwned, EnvTyped, EnvTypeOK
<1>2. /\ x.base \in EnvObject /\ x.refs \in Seq(Secret) /\ x.instance \in EnvObject
      /\ x.todo \in Seq(Secret) /\ x.base.refs \in Seq(Secret)
  BY <1>1 DEF Worker, EnvObject
<1>3. WorkerRefs(y, c, x, uids)
  BY DEF Work, DelRef, UpdateRefs, AddRef, RefsDone, RemoveFinalizer, AddFinalizer,
         ReportError, Report, UpsertRedisSecret, CreateRedisPod, UpsertRedisService,
         UpsertMergedSecret, RefsKnown, RefsOf
<1>4. /\ x.instance = [x.base EXCEPT !.refs = x.instance.refs]
      /\ x.instance.refs # x.base.refs => x.pc = "report"
  BY <1>3 DEF WorkerRefs
<1>idle. Idle.pc = "idle" /\ Idle.instance.refs = Idle.base.refs
  BY DEF Idle
<1>cont. /\ \A z : Continue(e, z) => w'[e] = z
         /\ \A requeue, after : Return(e, requeue, after) => w'[e] = Idle
  BY <1>1 DEF Continue, Return
\* A write that is applied replaces the version that Reconcile has.
<1>write. ASSUME NEW v, NEW o \in Outcome, UpdateEnv(e, v, o)
          PROVE  env'[e] = y \/ (Applied(o) /\ env'[e] = v /\ x.base = y)
  <2>1. Applied(o) => x.base = y
    BY <1>write DEF UpdateEnv, Respond, Applied
  <2> QED BY <1>1, <1>write, <2>1 DEF UpdateEnv
\* The references to e, if the list has lost none that was needed.
<1>same. env'[e] = y => OwnersListed(e)'
  BY <1>1, OwnedStays DEF OwnersListed
<1>written. ASSUME NEW v, env'[e] = v, v.uid = y.uid, y.finalizer => v.finalizer,
                   Gone(Dropped(y.refs, v.refs))
            PROVE  OwnersListed(e)'
  <2> SUFFICES ASSUME NEW s \in Secret, Owned(e, s)'
               PROVE  input'[s].owners[e] = v.uid /\ v.finalizer /\ s \in Range(v.refs)
    BY <1>written DEF OwnersListed
  <2>1. input'[s].owners[e] = y.uid /\ y.finalizer /\ s \in Range(y.refs)
    BY <1>1, OwnedStays DEF OwnersListed
  <2>2. s \notin Dropped(y.refs, v.refs)
    BY <1>written
  <2> QED BY <1>written, <2>1, <2>2 DEF Dropped
<1>unowned. ASSUME NEW S, S \subseteq Secret, Unowned(e, S)
            PROVE  Gone(S)
  BY <1>unowned, OwnedStays DEF Unowned
\* Reconcile goes on, or returns, with the version that it has.
<1>moved. ASSUME NEW z, w'[e] = z, z.instance.refs = z.base.refs,
                 z.pc \notin {"delRefs", "addRefs", "removeFinalizer"}
          PROVE  DroppedUnowned(e)'
  BY <1>moved DEF DroppedUnowned
<1>5. CASE DelRef(e)
  <2>1. /\ x.pc = "delRefs" /\ env'[e] = y /\ x.instance.refs = x.base.refs
    BY <1>4, <1>5 DEF DelRef
  <2> DEFINE z(i) == [x EXCEPT !.todo = SubSeq(@, i + 1, Len(@))]
  <2>2. PICK i \in DOMAIN x.todo, s \in Secret :
          /\ s = x.todo[i] /\ s \in Dropped(x.todo, x.refs)
          /\ \A j \in 1..(i - 1) : x.todo[j] \in Range(x.refs)
          /\ \/ /\ ~DelReference(inputCache[s], e) /\ input' = input
                /\ Continue(e, z(i)) /\ overlooked' = overlooked \cup Reference(s, e)
             \/ /\ DelReference(inputCache[s], e)
                /\ \E o \in Outcome :
                     /\ UpdateInput(s, inputCache[s], [inputCache[s] EXCEPT !.owners[e] = 0], o)
                     /\ IF DelRefDone(s, o) THEN Continue(e, z(i))
                        ELSE RefsFailed(e, x, <<Reason(o, "conflict"), s>>)
    <3>1. \A i \in DOMAIN x.todo : x.todo[i] \in Secret
      BY <1>2
    <3> QED BY <1>5, <3>1 DEF DelRef
  <2>3. inputCache[s] \in Input
    BY <2>2 DEF EnvTyped, EnvTypeOK
\* The reference is gone, or it is one that the cache does not show.
  <2>4. \/ Continue(e, z(i)) /\ ~Owned(e, s)'
        \/ \E r : RefsFailed(e, x, r)
    <3>1. CASE ~DelReference(inputCache[s], e)
      <4>1. Continue(e, z(i)) /\ input' = input
        BY <2>2, <3>1
      <4>2. overlooked' = overlooked \cup Reference(s, e)
        BY <2>2, <3>1
      <4> QED BY <4>1, <4>2 DEF Owned, Reference
    <3>2. CASE DelReference(inputCache[s], e)
      <4>1. PICK o \in Outcome :
              /\ UpdateInput(s, inputCache[s], [inputCache[s] EXCEPT !.owners[e] = 0], o)
              /\ IF DelRefDone(s, o) THEN Continue(e, z(i))
                 ELSE RefsFailed(e, x, <<Reason(o, "conflict"), s>>)
        BY <2>2, <3>2
      <4>2. CASE o = "ok"
        <5>1. input'[s] = [inputCache[s] EXCEPT !.owners[e] = 0]
          BY <1>1, <2>3, <4>1, <4>2 DEF UpdateInput, Applied, SetInput
        <5>2. input'[s].owners[e] = 0
          BY <2>3, <5>1 DEF Input
        <5> QED BY <4>1, <4>2, <5>2 DEF DelRefDone, Owned
      <4>3. CASE o = "refused" /\ ~input[s].exists
        <5>1. input' = input
          BY <4>1, <4>3 DEF UpdateInput, Applied
        <5>2. input[s].owners[e] = 0
          BY <2>3, <4>3 DEF RefsOwned, NoInputOwned, NoOwner
        <5> QED BY <4>1, <4>3, <5>1, <5>2 DEF DelRefDone, Owned
      <4> QED BY <4>1, <4>2, <4>3 DEF DelRefDone
    <3> QED BY <3>1, <3>2
  <2>5. CASE Continue(e, z(i)) /\ ~Owned(e, s)'
    <3> DEFINE t == SubSeq(x.todo, i + 1, Len(x.todo))
               S == Dropped(x.base.refs, x.refs)
    <3>1. /\ w'[e].pc = "delRefs" /\ w'[e].base = x.base /\ w'[e].instance = x.instance
          /\ w'[e].refs = x.refs /\ w'[e].todo = t
      BY <1>1, <1>cont, <2>1, <2>5 DEF Worker
    <3>2. \A d \in Range(x.todo) : d \in Range(t) \/ d = s \/ d \in Range(x.refs)
      <4> SUFFICES ASSUME NEW j \in DOMAIN x.todo
                   PROVE  x.todo[j] \in Range(t) \/ x.todo[j] = s \/ x.todo[j] \in Range(x.refs)
        BY DEF Range
      <4> DEFINE m == Len(x.todo)
      <4>1. /\ m \in Nat /\ i \in 1..m /\ j \in 1..m
        BY <1>2, <2>2
      <4>2. CASE j > i
        BY <1>2, <2>2, <4>2, LaterPositions
      <4>3. CASE j < i
        BY <2>2, <4>1, <4>3
      <4> QED BY <2>2, <4>1, <4>2, <4>3
    <3>3. S \subseteq Secret /\ \A d \in S : d \notin Range(x.refs)
      BY <1>2 DEF Dropped, Range
    <3>4. Unowned(e, S \ Range(x.todo))
      BY <1>1, <2>1 DEF DroppedUnowned
    <3>5. Gone(S \ Range(t))
      <4> HIDE DEF t, S
      <4>1. Gone(S \ Range(x.todo))
        BY <1>unowned, <3>3, <3>4
      <4> QED BY <2>5, <3>2, <3>3, <4>1
    <3> HIDE DEF x, t
    <3>6. DroppedUnowned(e)'
      BY <2>1, <3>1, <3>5 DEF DroppedUnowned, Unowned
    <3> QED BY <1>same, <2>1, <3>6
  <2>6. CASE \E r : RefsFailed(e, x, r)
    <3>1. w'[e] = Idle \/ \E r : w'[e] = [x EXCEPT !.pc = "report", !.cond = r]
      BY <1>cont, <2>6 DEF RefsFailed, GotoReport
    <3>2. w'[e] = Idle \/ (/\ w'[e].base = x.base /\ w'[e].instance = x.instance
                           /\ w'[e].pc = "report")
      BY <1>1, <3>1 DEF Worker
    <3>3. w'[e].instance.refs = w'[e].base.refs /\ w'[e].pc \in {"idle", "report"}
      BY <1>idle, <2>1, <3>2
    <3> QED BY <1>same, <1>moved, <2>1, <3>3
  <2> QED BY <2>4, <2>5, <2>6
<1>6. CASE UpdateRefs(e)
  <2> DEFINE i == [x.instance EXCEPT !.refs = x.refs]
             next == [x EXCEPT !.pc = "addRefs", !.todo = x.refs]
             D == Dropped(x.base.refs, x.refs)
  <2>1. x.pc = "delRefs" /\ Dropped(x.todo, x.refs) = {}
    BY <1>6 DEF UpdateRefs
  <2>2. /\ x.instance = x.base
        /\ x.refs = IF x.base.deleting THEN <<>> ELSE x.base.spec.secrets
    <3>1. x.instance.refs = x.base.refs
      BY <1>4, <2>1
    <3>2. x.instance = [x.base EXCEPT !.refs = x.base.refs]
      BY <1>4, <3>1
    <3>3. x.instance = x.base
      BY <1>2, <3>2 DEF EnvObject
    <3> QED BY <1>3, <2>1, <3>3 DEF WorkerRefs
  <2>3. Gone(D)
    <3>1. D \subseteq Secret /\ D \ Range(x.todo) = D
      <4>1. Range(x.base.refs) \subseteq Secret
        BY <1>2 DEF Range
      <4>2. D \subseteq Range(x.base.refs) /\ D \cap Range(x.refs) = {}
        BY DEF Dropped
      <4>3. Range(x.todo) \subseteq Range(x.refs)
        BY <2>1 DEF Dropped
      <4> QED BY <4>1, <4>2, <4>3
    <3>2. Unowned(e, D)
      BY <1>1, <2>1, <3>1 DEF DroppedUnowned
    <3> QED BY <1>unowned, <3>1, <3>2
  <2>4. /\ i.refs = x.refs /\ i.uid = x.base.uid /\ i.finalizer = x.base.finalizer
        /\ i.deleting = x.base.deleting
    BY <1>2, <2>2 DEF EnvObject
  <2>5. /\ next.base = x.base /\ next.instance = x.base /\ next.pc = "addRefs"
        /\ next \in Worker
    BY <1>1, <1>2, <2>2 DEF Worker, Step
  <2> HIDE DEF i, next
  <2>6. CASE ~RefsChanged(x.instance.refs, x.refs) /\ Continue(e, next) /\ env' = env
    <3>1. x.base.deleting => x.base.refs = <<>>
      <4> SUFFICES ASSUME x.base.deleting
                   PROVE  x.base.refs = <<>>
        OBVIOUS
      <4>1. Dropped(x.base.refs, <<>>) = {}
        BY <2>2, <2>6 DEF RefsChanged
      <4>2. Range(<<>>) = {}
        BY DEF Range
      <4>3. Range(x.base.refs) = {}
        BY <4>1, <4>2 DEF Dropped
      <4>4. Len(x.base.refs) # 0 => x.base.refs[1] \in Range(x.base.refs)
        BY <1>2 DEF Range
      <4> QED BY <1>2, <4>3, <4>4, EmptySeq
    <3>2. w'[e] = next
      BY <1>cont, <2>6
    <3>3. DroppedUnowned(e)'
      BY <2>5, <3>1, <3>2 DEF DroppedUnowned
    <3> QED BY <1>same, <2>6, <3>3
  <2>7. CASE \E o \in Outcome :
               /\ UpdateEnv(e, i, o)
               /\ \/ o = "ok" /\ Continue(e, [next EXCEPT !.base = i, !.instance = i])
                  \/ o # "ok" /\ \E r : RefsFailed(e, [x EXCEPT !.instance = i], r)
    <3>1. PICK o \in Outcome :
               /\ UpdateEnv(e, i, o)
               /\ \/ o = "ok" /\ Continue(e, [next EXCEPT !.base = i, !.instance = i])
                  \/ o # "ok" /\ \E r : RefsFailed(e, [x EXCEPT !.instance = i], r)
      BY <2>7
    <3>2. OwnersListed(e)'
      <4>1. CASE env'[e] = y
        BY <1>same, <4>1
      <4>2. CASE env'[e] = i /\ x.base = y
        <5>1. i.uid = y.uid /\ i.finalizer = y.finalizer /\ Gone(Dropped(y.refs, i.refs))
          BY <2>3, <2>4, <4>2
        <5> HIDE DEF y
        <5> QED BY <1>written, <4>2, <5>1
      <4> QED BY <1>write, <3>1, <4>1, <4>2
    <3>3. CASE o = "ok"
      <4>1. w'[e] = [next EXCEPT !.base = i, !.instance = i]
        BY <1>cont, <3>1, <3>3
      <4>2. w'[e].base = i /\ w'[e].instance = i /\ w'[e].pc = "addRefs"
        BY <2>5, <4>1 DEF Worker
      <4>3. i.deleting => i.refs = <<>>
        BY <2>2, <2>4
      <4>4. DroppedUnowned(e)'
        BY <4>2, <4>3 DEF DroppedUnowned
      <4> QED BY <3>2, <4>4
    <3>4. CASE o # "ok"
      <4>1. \/ w'[e] = Idle
            \/ \E r : w'[e] = [[x EXCEPT !.instance = i] EXCEPT !.pc = "report", !.cond = r]
        BY <1>cont, <3>1, <3>4 DEF RefsFailed, GotoReport
      <4>2. \/ w'[e] = Idle
            \/ w'[e].base = x.base /\ w'[e].instance = i /\ w'[e].pc = "report"
        BY <1>1, <4>1 DEF Worker
      <4>3. CASE w'[e] = Idle
        BY <1>idle, <1>moved, <3>2, <4>3
      <4>4. CASE w'[e].base = x.base /\ w'[e].instance = i /\ w'[e].pc = "report"
        <5>1. DroppedUnowned(e)'
          BY <2>3, <2>4, <4>4 DEF DroppedUnowned, Unowned
        <5> QED BY <3>2, <5>1
      <4> QED BY <4>2, <4>3, <4>4
    <3> QED BY <3>3, <3>4
  <2> QED BY <1>6, <2>6, <2>7 DEF UpdateRefs, i, next
<1>7. CASE RefsDone(e)
  <2>1. /\ x.pc = "addRefs" /\ env' = env
        /\ \/ x.instance.deleting /\ Continue(e, [x EXCEPT !.pc = "removeFinalizer"])
           \/ \E p \in {"redis", "conf"} : Continue(e, [x EXCEPT !.pc = p])
           \/ \E r : GotoReport(e, x, r)
    BY <1>7 DEF RefsDone
  <2>2. \/ w'[e] = [x EXCEPT !.pc = "removeFinalizer"]
        \/ \E p \in {"redis", "conf"} : w'[e] = [x EXCEPT !.pc = p]
        \/ \E r : w'[e] = [x EXCEPT !.pc = "report", !.cond = r]
    BY <1>cont, <2>1 DEF GotoReport
  <2>3. /\ w'[e].base = x.base /\ w'[e].instance = x.instance
        /\ w'[e].pc \in {"removeFinalizer", "redis", "conf", "report"}
    BY <1>1, <2>2 DEF Worker
  <2>4. x.base.deleting => x.base.refs = <<>>
    BY <1>1, <2>1 DEF DroppedUnowned
  <2>5. DroppedUnowned(e)'
    BY <1>4, <2>1, <2>3, <2>4 DEF DroppedUnowned
  <2> QED BY <1>same, <2>1, <2>5
\* The finalizer is removed when the list is empty.
<1>8. CASE RemoveFinalizer(e)
  <2>1. PICK o \in Outcome : UpdateEnv(e, NoEnv, o)
    BY <1>8 DEF RemoveFinalizer
  <2>2. w'[e] = Idle /\ x.pc = "removeFinalizer"
    BY <1>8, <1>cont DEF RemoveFinalizer
  <2>3. x.base.refs = <<>>
    BY <1>1, <1>3, <2>2 DEF DroppedUnowned, WorkerRefs
  <2>4. x.base = y => OwnersListed(e)'
    BY <1>1, <2>3, OwnedStays DEF OwnersListed, Range
  <2>5. OwnersListed(e)'
    BY <1>write, <1>same, <2>1, <2>4
  <2> QED BY <1>idle, <1>moved, <2>2, <2>5
<1>9. CASE AddFinalizer(e)
  <2> DEFINE v == [x.instance EXCEPT !.finalizer = TRUE]
  <2>1. PICK o \in Outcome :
          /\ UpdateEnv(e, v, o)
          /\ \/ \E requeue, after : Return(e, requeue, after)
             \/ \E r : Continue(e, [x EXCEPT !.pc = "reportError", !.cond = r])
    BY <1>9 DEF AddFinalizer
  <2>2. x.pc = "addFinalizer" /\ x.instance.refs = x.base.refs
    BY <1>4, <1>9 DEF AddFinalizer
  <2>3. w'[e] = Idle \/ (/\ w'[e].base = x.base /\ w'[e].instance = x.instance
                         /\ w'[e].pc = "reportError")
    <3>1. w'[e] = Idle \/ \E r : w'[e] = [x EXCEPT !.pc = "reportError", !.cond = r]
      BY <1>cont, <2>1
    <3> QED BY <1>1, <3>1 DEF Worker
  <2>4. w'[e].instance.refs = w'[e].base.refs /\ w'[e].pc \in {"idle", "reportError"}
    BY <1>idle, <2>2, <2>3
  <2>5. v.uid = x.base.uid /\ v.finalizer /\ v.refs = x.base.refs
    BY <1>2, <1>4, <2>2 DEF EnvObject
  <2>6. OwnersListed(e)'
    <3>1. CASE env'[e] = v /\ x.base = y
      <4>1. v.uid = y.uid /\ v.finalizer /\ Gone(Dropped(y.refs, v.refs))
        BY <2>5, <3>1 DEF Dropped
      <4> HIDE DEF v, y
      <4> QED BY <1>written, <3>1, <4>1
    <3> QED BY <1>write, <1>same, <2>1, <3>1
  <2> QED BY <1>moved, <2>4, <2>6
\* An error may be reported along with a list that has not been written.
<1>10. CASE ReportError(e) \/ Report(e)
  <2> DEFINE v == [x.instance EXCEPT !.ready = x.cond]
  <2>1. w'[e] = Idle
    BY <1>10, <1>cont DEF ReportError, Report
  <2>2. PICK o \in Outcome : env' = env \/ UpdateEnv(e, v, o)
    BY <1>10 DEF ReportError, Report, updateStatus
  <2>3. v.uid = x.base.uid /\ v.finalizer = x.base.finalizer /\ v.refs = x.instance.refs
    BY <1>2, <1>4 DEF EnvObject
  <2>4. Gone(Dropped(x.base.refs, x.instance.refs))
    <3>1. CASE x.instance.refs = x.base.refs
      BY <3>1 DEF Dropped
    <3>2. CASE x.instance.refs # x.base.refs
      <4>1. Dropped(x.base.refs, x.instance.refs) \subseteq Secret
        BY <1>2 DEF Dropped, Range
      <4> QED BY <1>1, <1>unowned, <3>2, <4>1 DEF DroppedUnowned
    <3> QED BY <3>1, <3>2
  <2>5. OwnersListed(e)'
    <3>1. CASE env'[e] = v /\ x.base = y
      <4>1. v.uid = y.uid /\ v.finalizer = y.finalizer /\ Gone(Dropped(y.refs, v.refs))
        BY <2>3, <2>4, <3>1
      <4> HIDE DEF v, y
      <4> QED BY <1>written, <3>1, <4>1
    <3> QED BY <1>write, <1>same, <2>2, <3>1
  <2> QED BY <1>idle, <1>moved, <2>1, <2>5
<1>11. CASE UpsertRedisSecret(e) \/ CreateRedisPod(e) \/ UpsertRedisService(e) \/ UpsertMergedSecret(e)
  <2>1. /\ env' = env /\ x.pc \in {"redis", "pod", "svc", "conf"}
        /\ \/ \E p : Continue(e, [x EXCEPT !.pc = "pod", !.password = p])
           \/ \E b : Continue(e, [x EXCEPT !.pc = "svc", !.ready = b])
           \/ Continue(e, [x EXCEPT !.pc = "conf"])
           \/ \E r : GotoReport(e, x, r)
    BY <1>11 DEF UpsertRedisSecret, CreateRedisPod, UpsertRedisService, UpsertMergedSecret
  <2>2. \/ \E p : w'[e] = [x EXCEPT !.pc = "pod", !.password = p]
        \/ \E b : w'[e] = [x EXCEPT !.pc = "svc", !.ready = b]
        \/ w'[e] = [x EXCEPT !.pc = "conf"]
        \/ \E r : w'[e] = [x EXCEPT !.pc = "report", !.cond = r]
    BY <1>cont, <2>1 DEF GotoReport
  <2>3. /\ w'[e].base = x.base /\ w'[e].instance = x.instance
        /\ w'[e].pc \in {"pod", "svc", "conf", "report"}
    BY <1>1, <2>2 DEF Worker
  <2>4. x.instance.refs = x.base.refs
    BY <1>4, <2>1
  <2>5. w'[e].instance.refs = w'[e].base.refs
    BY <2>3, <2>4
  <2> QED BY <1>same, <1>moved, <2>1, <2>3, <2>5
<1> QED BY <1>5, <1>6, <1>7, <1>8, <1>9, <1>10, <1>11 DEF Work

\* The invariant is kept.
LEMMA OwnedKept ==
  ASSUME EnvTyped, RefsKnown, RefsOwned, [Next]_vars
  PROVE  RefsOwned'
<1>1. CASE UNCHANGED vars
  BY <1>1 DEF vars, RefsOwned, NoInputOwned, OwnersListed, DroppedUnowned, Unowned, Owned
<1>2. CASE Next
  <2>1. NoInputOwned'
    BY <1>2, AbsentKept DEF RefsOwned
  <2>2. ASSUME NEW e \in Env
        PROVE  OwnersListed(e)' /\ DroppedUnowned(e)'
    <3>1. CASE /\ \A s \in Secret : input'[s].owners[e] \in {0, input[s].owners[e]}
               /\ ~AddRef(e)
      BY <1>2, <3>1, WorkOwned, OutsideOwned
    <3>2. CASE AddRef(e)
      BY <1>2, <3>2, AddRefOwned
    <3> QED BY <1>2, <3>1, <3>2, OwnersAdded
  <2> QED BY <2>1, <2>2 DEF RefsOwned
<1> QED BY <1>1, <1>2

\* At first nothing is owned.
LEMMA OwnedFirst == Init => RefsOwned
<1> SUFFICES ASSUME Init
             PROVE  RefsOwned
  OBVIOUS
<1>1. \A s \in Secret : input[s].exists /\ input[s].owners = NoOwner
  BY DEF Init, NoInput
<1>2. \A e \in Env : w[e] = Idle /\ NoOwner[e] = 0
  BY DEF Init, NoOwner
<1>3. Idle.pc = "idle" /\ Idle.instance.refs = Idle.base.refs
  BY DEF Idle
<1> QED BY <1>1, <1>2, <1>3 DEF RefsOwned, NoInputOwned, OwnersListed, DroppedUnowned, Owned

\* "When marked as deleted finalize object: remove back references": an input
\* names an owner that is gone only if no cache showed that reference when
\* DelReference was to remove it, whatever calls fail, when the operator crashes,
\* however stale the caches are and however the ImageBuildEnvs and inputs change
\* meanwhile.
THEOREM DanglingOnlyIfOverlooked == EnvSpec => []DanglingWereOverlooked
<1>1. EnvTyped /\ RefsKnown /\ RefsOwned /\ [Next]_vars => RefsOwned'
  BY OwnedKept
<1>2. RefsOwned => DanglingWereOverlooked
  BY DEF RefsOwned, OwnersListed, Owned, DanglingWereOverlooked, Dangling, OwnersOf
<1> QED BY OwnedFirst, <1>1, <1>2, AlwaysKnown, PTL DEF EnvSpec

-----------------------------------------------------------------------------
(* What is merged is current.                                              *)
(*                                                                         *)
(* The inputs are read at the start of a Reconcile; what they hold may      *)
(* change before references to them are set, and after.  The argument: as   *)
(* long as no request for the ImageBuildEnv is queued and no event is due   *)
(* that will bring one, an input with a reference is still as it was read.  *)

\* An event is due that Reconcile(e) will be asked for, or that is about an
\* output of e.
Due(e) == changed[e] # {} \/ \E s \in Secret : e \in notify[s]

\* The inputs at the positions in T are as they were read, and are watched for
\* the ImageBuildEnv with UID u.
Current(e, u, names, inputs, T) ==
  Due(e) \/ \A j \in T : inputs[j] = inputCache[names[j]] /\ inputs[j].owners[e] = u

\* The output Secret has their data.
Stored(e, names, inputs) ==
  LET x == outCache[e].conf IN
  Due(e) \/ (x.owner # 0 /\ x.first = First(inputs) /\ x.auths = Merge(names, inputs))

\* The inputs that had the reference already when they were read.
Watched(e, x) == {j \in DOMAIN x.refs : x.inputs[j].owners[e] = x.instance.uid}

Upserts == {"redis", "pod", "svc", "conf"}

\* What a Reconcile with local state x has achieved for e, of which the cache
\* has version c.
Working(e, x, c) ==
  LET i == x.instance IN
  /\ i = [c EXCEPT !.refs = i.refs]
  /\ x.pc = "addFinalizer" => ~i.finalizer
  /\ x.pc \in {"delRefs", "addRefs"} /\ ~i.deleting =>
       /\ x.refs = i.spec.secrets
       /\ Current(e, i.uid, x.refs, x.inputs, Watched(e, x))
  /\ x.pc = "addRefs" /\ ~i.deleting =>
       Current(e, i.uid, x.refs, x.inputs, 1..(Len(x.refs) - Len(x.todo)))
  /\ x.pc \in Upserts => ~i.deleting
  /\ x.pc \in Upserts \/ (x.pc = "report" /\ x.cond = Ready) =>
       x.refs = i.spec.secrets /\ Current(e, i.uid, x.refs, x.inputs, DOMAIN x.refs)
  /\ x.pc = "report" /\ x.cond = Ready => Stored(e, x.refs, x.inputs)

\* What remains when Reconcile has reported Ready for the version c.
Merged(e, c) ==
  \E inputs \in Seq(Input) :
    /\ Len(inputs) = Len(c.spec.secrets)
    /\ \A j \in DOMAIN inputs : inputs[j].exists
    /\ Current(e, c.uid, c.spec.secrets, inputs, DOMAIN c.spec.secrets)
    /\ Stored(e, c.spec.secrets, inputs)

\* A request for e is queued, or Reconcile is at it, or it is done.
AtIt(e) == w[e].pc # "idle" /\ e \notin queue => Working(e, w[e], envCache[e])

AtRest(e) ==
  w[e].pc = "idle" /\ e \notin queue /\ env[e] = envCache[e] /\ env[e].uid # 0
    /\ ~env[e].deleting /\ env[e].ready = Ready
    => Merged(e, env[e])

\* A cached output is the present one, or an event is due.
OutputsCached == \A e \in Env, k \in Kind : k \notin changed[e] => outCache[e][k] = out[e][k]

NothingUnmerged == OutputsCached /\ \A e \in Env : AtIt(e) /\ AtRest(e)

\* A step that the caches have no part in, as far as e is concerned.
Aside(e) ==
  /\ inputCache' = inputCache /\ outCache'[e] = outCache[e] /\ changed[e] \subseteq changed'[e]
  /\ \A s \in Secret : notify[s] \subseteq notify'[s]

\* Caches change only with an event, or in a crash.
LEMMA CacheSteps ==
  ASSUME EnvTyped, [Next]_vars, NEW e \in Env
  PROVE  \/ Crash \/ Aside(e)
         \/ \E s \in Secret : WatchInput(s)
         \/ \E k \in Kind : WatchOutput(e, k)
<1>ok. /\ notify \in [Secret -> SUBSET Env] /\ changed \in [Env -> SUBSET Kind]
       /\ outCache \in [Env -> Output]
  BY DEF EnvTyped, EnvTypeOK
<1>1. ASSUME UNCHANGED <<inputCache, outCache, changed, notify>>
      PROVE  Aside(e)
  BY <1>1 DEF Aside
<1>set. ASSUME NEW s \in Secret, NEW x, SetInput(s, x), UNCHANGED <<inputCache, outCache, changed>>
        PROVE  Aside(e)
  BY <1>ok, <1>set DEF SetInput, Aside
<1>output. ASSUME NEW d \in Env, NEW k, NEW x, SetOutput(d, k, x),
                  UNCHANGED <<inputCache, outCache, notify>>
           PROVE  Aside(e)
  BY <1>ok, <1>output DEF SetOutput, Aside
<1>2. ASSUME NEW d \in Env, \/ Reconcile(d) \/ RefsDone(d) \/ UpdateRefs(d) \/ RemoveFinalizer(d)
                            \/ AddFinalizer(d) \/ ReportError(d) \/ Report(d) \/ WatchEnv(d)
                            \/ RequeueAfter(d) \/ DeleteEnv(d)
                            \/ \E spec \in Specs : CreateEnv(d, spec) \/ EditSpec(d, spec)
      PROVE  Aside(e)
  BY <1>1, <1>2 DEF Reconcile, ReconcileNothing, ReconcileDeleted, ReconcileNew, ReconcileInputs,
                    Dequeue, RefsDone, UpdateRefs, RemoveFinalizer, AddFinalizer, ReportError,
                    Report, WatchEnv, RequeueAfter, DeleteEnv, CreateEnv, EditSpec
<1>3. ASSUME NEW d \in Env, DelRef(d) \/ AddRef(d)
      PROVE  Aside(e)
  <2>1. ASSUME NEW s \in Secret, NEW old, NEW x, NEW o, UpdateInput(s, old, x, o),
               UNCHANGED <<inputCache, outCache, changed>>
        PROVE  Aside(e)
    BY <1>1, <1>set, <2>1 DEF UpdateInput
  <2>2. w[d].todo \in Seq(Secret)
    BY DEF EnvTyped, EnvTypeOK, Worker
  <2>3. CASE DelRef(d)
    <3>1. \A i \in DOMAIN w[d].todo : w[d].todo[i] \in Secret
      BY <2>2, LenProperties
    <3> QED BY <1>1, <2>1, <2>3, <3>1 DEF DelRef
  <2>4. CASE AddRef(d)
    <3>1. Head(w[d].todo) \in Secret
      BY <2>2, <2>4, HeadTailProperties DEF AddRef
    <3> QED BY <1>1, <2>1, <2>4, <3>1 DEF AddRef
  <2> QED BY <1>3, <2>3, <2>4
<1>4. ASSUME NEW d \in Env, \/ UpsertRedisSecret(d) \/ CreateRedisPod(d) \/ UpsertRedisService(d)
                            \/ UpsertMergedSecret(d)
      PROVE  Aside(e)
  <2>1. ASSUME NEW k, NEW x, NEW o, CreateOrUpdate(d, k, x, o),
               UNCHANGED <<inputCache, outCache, notify>>
        PROVE  Aside(e)
    BY <1>1, <1>output, <2>1 DEF CreateOrUpdate
  <2> QED BY <1>4, <2>1 DEF UpsertRedisSecret, CreateRedisPod, UpsertRedisService,
                            UpsertMergedSecret
<1>5. ASSUME NEW s \in Secret, CreateInput(s) \/ EditInput(s) \/ DeleteInput(s) \/ CollectInput(s)
      PROVE  Aside(e)
  BY <1>5, <1>set DEF CreateInput, EditInput, DeleteInput, CollectInput
<1>6. ASSUME NEW d \in Env, \/ StartPod(d) \/ RestartPod(d)
                            \/ \E k \in Kind : DeleteOutput(d, k) \/ CollectOutput(d, k)
      PROVE  Aside(e)
  BY <1>6, <1>output DEF StartPod, RestartPod, DeleteOutput, CollectOutput, ChangeOutput
<1>7. ASSUME NEW d \in Env \ {e}, NEW k \in Kind, WatchOutput(d, k)
      PROVE  Aside(e)
  BY <1>ok, <1>7 DEF WatchOutput, Aside
<1> HIDE DEF Aside
<1> QED
  BY <1>1, <1>2, <1>3, <1>4, <1>5, <1>6, <1>7 DEF Next, Operator, Environment, Work, vars

\* A request stays in the queue until it is handled.
LEMMA QueueSteps ==
  ASSUME EnvTyped, [Next]_vars, NEW e \in Env, e \in queue
  PROVE  e \in queue' \/ Reconcile(e) \/ Crash
<1>1. ASSUME NEW d \in Env \ {e}, Reconcile(d)
      PROVE  e \in queue'
  BY <1>1 DEF Reconcile, ReconcileNothing, ReconcileDeleted, ReconcileNew, ReconcileInputs, Dequeue
<1>2. ASSUME NEW d \in Env, Work(d)
      PROVE  queue \subseteq queue'
  <2>1. \A x : Continue(d, x) => queue' = queue
    BY DEF Continue
  <2>2. \A requeue, after : Return(d, requeue, after) => queue \subseteq queue'
    BY DEF Return
  <2>3. /\ \A x, c : GotoReport(d, x, c) => queue \subseteq queue'
        /\ \A x, c : RefsFailed(d, x, c) => queue \subseteq queue'
    BY <2>1, <2>2 DEF GotoReport, RefsFailed
  <2> QED BY <1>2, <2>1, <2>2, <2>3 DEF Work, DelRef, UpdateRefs, AddRef, RefsDone, RemoveFinalizer,
                AddFinalizer, ReportError, Report, UpsertRedisSecret, CreateRedisPod,
                UpsertRedisService, UpsertMergedSecret
<1>3. ASSUME NEW d \in Env, \/ WatchEnv(d) \/ RequeueAfter(d) \/ DeleteEnv(d) \/ StartPod(d)
                            \/ RestartPod(d)
                            \/ \E spec \in Specs : CreateEnv(d, spec) \/ EditSpec(d, spec)
                            \/ \E k \in Kind : \/ WatchOutput(d, k) \/ DeleteOutput(d, k)
                                               \/ CollectOutput(d, k)
      PROVE  queue \subseteq queue'
  BY <1>3 DEF WatchEnv, RequeueAfter, DeleteEnv, StartPod, RestartPod, CreateEnv, EditSpec,
              WatchOutput, DeleteOutput, CollectOutput, ChangeOutput
<1>4. ASSUME NEW s \in Secret, \/ WatchInput(s) \/ CreateInput(s) \/ EditInput(s)
                               \/ DeleteInput(s) \/ CollectInput(s)
      PROVE  queue \subseteq queue'
  BY <1>4 DEF WatchInput, CreateInput, EditInput, DeleteInput, CollectInput
<1> QED BY <1>1, <1>2, <1>3, <1>4 DEF Next, Operator, Environment, vars

\* What has been read and written stays so, or a request is queued.
LEMMA StillMerged ==
  ASSUME EnvTyped, [Next]_vars, ~Crash, NEW e \in Env, e \notin queue',
         NEW u, u # 0, NEW names, NEW inputs
  PROVE  /\ \A T : (\A j \in T : names[j] \in Secret) /\ Current(e, u, names, inputs, T)
                     => Current(e, u, names, inputs, T)'
         /\ Stored(e, names, inputs) => Stored(e, names, inputs)'
<1>ok. /\ notify \in [Secret -> SUBSET Env] /\ changed \in [Env -> SUBSET Kind]
       /\ inputCache \in [Secret -> Input] /\ outCache \in [Env -> Output]
  BY DEF EnvTyped, EnvTypeOK
<1>1. CASE Aside(e)
  BY <1>1 DEF Aside, Current, Stored, Due
<1>2. ASSUME NEW s \in Secret, WatchInput(s)
      PROVE  /\ \A T : (\A j \in T : names[j] \in Secret) /\ Current(e, u, names, inputs, T)
                         => Current(e, u, names, inputs, T)'
             /\ Stored(e, names, inputs) => Stored(e, names, inputs)'
  <2>1. e \notin notify[s] /\ inputCache[s].owners[e] = 0
    BY <1>2 DEF WatchInput, OwnersToNotify, OwnersOf
  <2>2. /\ UNCHANGED <<outCache, changed>>
        /\ \A t \in Secret \ {s} : notify'[t] = notify[t] /\ inputCache'[t] = inputCache[t]
    BY <1>ok, <1>2 DEF WatchInput
  <2>3. Due(e) => Due(e)'
    BY <2>1, <2>2 DEF Due
  <2>4. Stored(e, names, inputs) => Stored(e, names, inputs)'
    BY <2>2, <2>3 DEF Stored
  <2>5. ASSUME NEW T, \A j \in T : names[j] \in Secret, Current(e, u, names, inputs, T)
        PROVE  Current(e, u, names, inputs, T)'
    <3>1. CASE Due(e)
      BY <2>3, <3>1 DEF Current
    <3>2. CASE ~Due(e)
      <4>1. \A j \in T : inputs[j] = inputCache[names[j]] /\ inputs[j].owners[e] = u
        BY <2>5, <3>2 DEF Current
      <4>2. \A j \in T : names[j] # s
        BY <2>1, <4>1
      <4> QED BY <2>2, <2>5, <4>1, <4>2 DEF Current
    <3> QED BY <3>1, <3>2
  <2> QED BY <2>4, <2>5
<1>3. ASSUME NEW k \in Kind, WatchOutput(e, k)
      PROVE  FALSE
  BY <1>3 DEF WatchOutput, OutputRequests
<1> QED BY <1>1, <1>2, <1>3, CacheSteps

\* What Reconcile has achieved, or left, stays so until a request is queued.
LEMMA WorkingStill ==
  ASSUME EnvTyped, [Next]_vars, ~Crash, NEW e \in Env, e \notin queue',
         NEW x \in Worker, NEW c, x.instance.uid # 0, Working(e, x, c)
  PROVE  Working(e, x, c)'
<1> DEFINE i == x.instance
<1>1. /\ x.refs \in Seq(Secret) /\ Len(x.refs) \in Nat /\ DOMAIN x.refs = 1..Len(x.refs)
      /\ \A j \in DOMAIN x.refs : x.refs[j] \in Secret
      /\ Len(x.todo) \in Nat
  BY LenProperties DEF Worker
<1>2. ASSUME NEW T, T \subseteq DOMAIN x.refs, Current(e, i.uid, x.refs, x.inputs, T)
      PROVE  Current(e, i.uid, x.refs, x.inputs, T)'
  <2>1. \A j \in T : x.refs[j] \in Secret
    BY <1>1, <1>2
  <2> HIDE DEF i
  <2>2. i.uid # 0
    BY DEF i
  <2>3. \A u, names, inputs :
          u # 0 => \A S : (\A j \in S : names[j] \in Secret) /\ Current(e, u, names, inputs, S)
                            => Current(e, u, names, inputs, S)'
    BY StillMerged
  <2> QED BY <1>2, <2>1, <2>2, <2>3
<1>3. Stored(e, x.refs, x.inputs) => Stored(e, x.refs, x.inputs)'
  <2>1. \A names, inputs : Stored(e, names, inputs) => Stored(e, names, inputs)'
    BY StillMerged
  <2> QED BY <2>1
<1>4. Watched(e, x) \subseteq DOMAIN x.refs /\ Watched(e, x)' = Watched(e, x)
  BY DEF Watched
<1>5. 1..(Len(x.refs) - Len(x.todo)) \subseteq DOMAIN x.refs
  <2>1. \A n, m \in Nat : 1..(n - m) \subseteq 1..n
    OBVIOUS
  <2>2. 1..(Len(x.refs) - Len(x.todo)) \subseteq 1..Len(x.refs)
    BY <1>1, <2>1
  <2> QED BY <1>1, <2>2
<1> QED BY <1>2, <1>3, <1>4, <1>5 DEF Working, i

LEMMA MergedStill ==
  ASSUME EnvTyped, [Next]_vars, ~Crash, NEW e \in Env, e \notin queue',
         NEW c \in EnvObject, c.uid # 0, Merged(e, c)
  PROVE  Merged(e, c)'
<1>1. PICK inputs \in Seq(Input) :
        /\ Len(inputs) = Len(c.spec.secrets)
        /\ \A j \in DOMAIN inputs : inputs[j].exists
        /\ Current(e, c.uid, c.spec.secrets, inputs, DOMAIN c.spec.secrets)
        /\ Stored(e, c.spec.secrets, inputs)
  BY DEF Merged
<1>2. \A j \in DOMAIN c.spec.secrets : c.spec.secrets[j] \in Secret
  <2>1. c.spec.secrets \in Seq(Secret)
    BY EnvObjectTypes
  <2> QED BY <2>1, LenProperties
<1>3. \A u, names, ii :
        /\ u # 0 => \A S : (\A j \in S : names[j] \in Secret) /\ Current(e, u, names, ii, S)
                            => Current(e, u, names, ii, S)'
        /\ u # 0 => (Stored(e, names, ii) => Stored(e, names, ii)')
  BY StillMerged
<1>4. /\ Current(e, c.uid, c.spec.secrets, inputs, DOMAIN c.spec.secrets)'
      /\ Stored(e, c.spec.secrets, inputs)'
  BY <1>1, <1>2, <1>3
<1> QED BY <1>1, <1>4 DEF Merged

\* The present outputs are cached or changed.
LEMMA OutputsKept ==
  ASSUME EnvTyped, OutputsCached, [Next]_vars
  PROVE  OutputsCached'
<1>ok. /\ changed \in [Env -> SUBSET Kind] /\ outCache \in [Env -> Output]
       /\ out \in [Env -> Output]
  BY DEF EnvTyped, EnvTypeOK
<1>one. ASSUME NEW y \in Output, NEW k \in Kind, NEW x
        PROVE  /\ [y EXCEPT ![k] = x][k] = x
               /\ \A j \in Kind \ {k} : [y EXCEPT ![k] = x][j] = y[j]
  <2>1. DOMAIN y = Kind
    BY DEF Output, Kind
  <2> QED BY <2>1, Zenon
<1>1. ASSUME UNCHANGED <<out, outCache, changed>>
      PROVE  OutputsCached'
  BY <1>1 DEF OutputsCached
<1>output. ASSUME NEW d \in Env, NEW k \in Kind, NEW x, SetOutput(d, k, x),
                  UNCHANGED outCache
           PROVE  OutputsCached'
  <2> SUFFICES ASSUME NEW e \in Env, NEW j \in Kind, j \notin changed'[e]
               PROVE  outCache[e][j] = out'[e][j]
    BY <1>output DEF OutputsCached
  <2>1. CASE e # d
    BY <1>ok, <1>output, <2>1 DEF OutputsCached, SetOutput
  <2>2. CASE e = d
    <3>1. j \notin changed[e] /\ j # k /\ out'[e] = [out[e] EXCEPT ![k] = x]
      BY <1>ok, <1>output, <2>2 DEF SetOutput
    <3>2. out'[e][j] = out[e][j]
      <4>1. out[e] \in Output /\ j \in Kind \ {k}
        BY <1>ok, <3>1
      <4>2. [out[e] EXCEPT ![k] = x][j] = out[e][j]
        BY <1>one, <4>1
      <4> QED BY <3>1, <4>2
    <3> QED BY <3>1, <3>2 DEF OutputsCached
  <2> QED BY <2>1, <2>2
<1>2. ASSUME NEW d \in Env, \/ Reconcile(d) \/ DelRef(d) \/ UpdateRefs(d) \/ AddRef(d) \/ RefsDone(d)
                            \/ RemoveFinalizer(d) \/ AddFinalizer(d) \/ ReportError(d) \/ Report(d)
                            \/ WatchEnv(d) \/ RequeueAfter(d) \/ DeleteEnv(d)
                            \/ \E spec \in Specs : CreateEnv(d, spec) \/ EditSpec(d, spec)
      PROVE  OutputsCached'
  BY <1>1, <1>2 DEF Reconcile, ReconcileNothing, ReconcileDeleted, ReconcileNew, ReconcileInputs,
                    Dequeue, DelRef, UpdateRefs, AddRef, RefsDone, RemoveFinalizer, AddFinalizer,
                    ReportError, Report, WatchEnv, RequeueAfter, DeleteEnv, CreateEnv, EditSpec
<1>3. ASSUME NEW s \in Secret, \/ WatchInput(s) \/ CreateInput(s) \/ EditInput(s)
                               \/ DeleteInput(s) \/ CollectInput(s)
      PROVE  OutputsCached'
  BY <1>1, <1>3 DEF WatchInput, CreateInput, EditInput, DeleteInput, CollectInput
<1>4. ASSUME NEW d \in Env, \/ UpsertRedisSecret(d) \/ CreateRedisPod(d) \/ UpsertRedisService(d)
                            \/ UpsertMergedSecret(d)
      PROVE  OutputsCached'
  <2>1. ASSUME NEW k \in Kind, NEW x, NEW o, CreateOrUpdate(d, k, x, o), UNCHANGED outCache
        PROVE  OutputsCached'
    BY <1>1, <1>output, <2>1 DEF CreateOrUpdate
  <2>2. "redis" \in Kind /\ "pod" \in Kind /\ "svc" \in Kind /\ "conf" \in Kind
    BY DEF Kind
  <2> QED BY <1>4, <2>1, <2>2 DEF UpsertRedisSecret, CreateRedisPod, UpsertRedisService,
                            UpsertMergedSecret
<1>5. ASSUME NEW d \in Env, \/ StartPod(d) \/ RestartPod(d)
                            \/ \E k \in Kind : DeleteOutput(d, k) \/ CollectOutput(d, k)
      PROVE  OutputsCached'
  <2>1. "pod" \in Kind
    BY DEF Kind
  <2> QED BY <1>5, <1>output, <2>1 DEF StartPod, RestartPod, DeleteOutput, CollectOutput, ChangeOutput
<1>6. ASSUME NEW d \in Env, NEW k \in Kind, WatchOutput(d, k)
      PROVE  OutputsCached'
  <2> SUFFICES ASSUME NEW e \in Env, NEW j \in Kind, j \notin changed'[e]
               PROVE  outCache'[e][j] = out[e][j]
    BY <1>6 DEF OutputsCached, WatchOutput
  <2>1. CASE e # d
    BY <1>ok, <1>6, <2>1 DEF OutputsCached, WatchOutput
  <2>2. CASE e = d
    <3>1. /\ outCache'[e] = [outCache[e] EXCEPT ![k] = out[e][k]]
          /\ changed'[e] = changed[e] \ {k}
      BY <1>ok, <1>6, <2>2 DEF WatchOutput
    <3>2. CASE j = k
      <4>1. outCache[e] \in Output
        BY <1>ok
      <4>2. [outCache[e] EXCEPT ![k] = out[e][k]][k] = out[e][k]
        BY <1>one, <4>1
      <4> QED BY <3>1, <3>2, <4>2
    <3>3. CASE j # k
      <4>1. outCache'[e][j] = outCache[e][j] /\ j \notin changed[e]
        BY <1>ok, <1>one, <3>1, <3>3
      <4> QED BY <4>1 DEF OutputsCached
    <3> QED BY <3>2, <3>3
  <2> QED BY <2>1, <2>2
<1>7. CASE Crash
  BY <1>7 DEF Crash, OutputsCached
<1> QED
  BY <1>1, <1>2, <1>3, <1>4, <1>5, <1>6, <1>7 DEF Next, Operator, Environment, Work, vars


\* Reconcile reads the inputs, which thereby are current.
LEMMA ReconcileMerged ==
  ASSUME EnvTyped, NEW e \in Env, Reconcile(e)
  PROVE  AtIt(e)' /\ AtRest(e)'
<1>c. PICK c : c = envCache[e]
  OBVIOUS
<1>z. PICK z : z = w'[e]
  OBVIOUS
<1>0. /\ c \in EnvObject /\ w \in [Env -> Worker] /\ e \notin queue' /\ w[e].pc = "idle"
      /\ UNCHANGED <<env, envCache, inputCache, outCache, notify, changed>>
  BY <1>c DEF EnvTyped, EnvTypeOK, Reconcile, ReconcileNothing, ReconcileDeleted,
         ReconcileNew, ReconcileInputs, Dequeue
<1>1. c = [c EXCEPT !.refs = c.refs]
  BY <1>0 DEF EnvObject
<1>load. \A x \in Worker : Load(e, x) =>
           /\ z.instance = c /\ z.pc = x.pc /\ z.refs = x.refs
           /\ z.inputs = x.inputs /\ z.cond = x.cond
  BY <1>0, <1>c, <1>z DEF Load, Worker
<1>idle. Idle \in Worker
  BY ConstantTypes
<1>loaded. ASSUME z.pc # "idle", Working(e, z, c)'
           PROVE  AtIt(e)' /\ AtRest(e)'
  <2>1. Working(e, w[e], envCache[e])'
    BY <1>0, <1>c, <1>z, <1>loaded
  <2> QED BY <1>z, <1>loaded, <2>1 DEF AtIt, AtRest
<1>2. CASE ReconcileNothing(e)
  <2>1. env'[e] = envCache'[e] => env'[e].uid = 0 \/ env'[e].deleting
    BY <1>0, <1>c, <1>2 DEF ReconcileNothing
  <2>2. w'[e].pc = "idle"
    BY <1>0, <1>2 DEF ReconcileNothing
  <2> QED BY <2>1, <2>2 DEF AtIt, AtRest
<1>3. CASE ReconcileDeleted(e)
  <2> DEFINE x == [Idle EXCEPT !.pc = "delRefs", !.todo = c.refs]
  <2>1. x \in Worker /\ x.pc = "delRefs"
    BY <1>0, <1>c, <1>z, <1>idle DEF Worker, Step, EnvObject
  <2>2. Load(e, x) /\ c.deleting
    BY <1>c, <1>3 DEF ReconcileDeleted
  <2> HIDE DEF x
  <2>3. z.instance = c /\ z.pc = "delRefs"
    BY <1>load, <2>1, <2>2
  <2>4. Working(e, z, c)'
    BY <1>0, <1>1, <2>2, <2>3 DEF Working, Upserts
  <2> QED BY <1>loaded, <2>3, <2>4
<1>4. CASE ReconcileNew(e)
  <2> DEFINE x == [Idle EXCEPT !.pc = "addFinalizer"]
  <2>1. x \in Worker /\ x.pc = "addFinalizer"
    BY <1>idle DEF Worker, Step
  <2>2. Load(e, x) /\ ~c.finalizer
    BY <1>c, <1>4 DEF ReconcileNew
  <2> HIDE DEF x
  <2>3. z.instance = c /\ z.pc = "addFinalizer"
    BY <1>load, <2>1, <2>2
  <2>4. Working(e, z, c)'
    BY <1>0, <1>1, <2>2, <2>3 DEF Working, Upserts
  <2> QED BY <1>loaded, <2>3, <2>4
<1>5. CASE ReconcileInputs(e)
  <2> DEFINE names == c.spec.secrets
  <2>in. PICK inputs : inputs = [i \in DOMAIN names |-> inputCache[names[i]]]
    OBVIOUS
  <2>1. ~c.deleting
    BY <1>c, <1>5 DEF ReconcileInputs
  <2>2. CASE Load(e, [Idle EXCEPT !.pc = "delRefs", !.refs = names, !.todo = c.refs,
                        !.inputs = inputs])
    <3>1. /\ z.instance = c /\ z.pc = "delRefs" /\ z.refs = names
          /\ z.inputs = inputs
      BY <1>0, <1>c, <1>z, <1>idle, <2>2 DEF Load, Worker
    <3>2. Current(e, c.uid, names, inputs, Watched(e, z))'
      <4>1. \A j \in Watched(e, z) : inputs[j] = inputCache'[names[j]] /\ inputs[j].owners[e] = c.uid
        BY <1>0, <2>in, <3>1 DEF Watched
      <4> QED BY <1>0, <4>1 DEF Current
    <3>3. Working(e, z, c)'
      BY <1>0, <1>1, <2>1, <3>1, <3>2 DEF Working, Upserts
    <3> QED BY <1>loaded, <3>1, <3>3
  <2>3. CASE \E i \in DOMAIN names :
               Load(e, [Idle EXCEPT !.pc = "report", !.cond = <<"MissingSecret", names[i]>>])
    <3>1. /\ z.instance = c /\ z.pc = "report" /\ z.cond # Ready
      <4>1. PICK i \in DOMAIN names :
              Load(e, [Idle EXCEPT !.pc = "report", !.cond = <<"MissingSecret", names[i]>>])
        BY <2>3
      <4>2. z.cond = <<"MissingSecret", names[i]>>
        BY <1>0, <1>c, <1>z, <1>idle, <4>1 DEF Load, Worker
      <4>3. z.cond # Ready
        BY <4>2 DEF Ready
      <4> QED BY <1>0, <1>c, <1>z, <1>idle, <4>1, <4>3 DEF Load, Worker
    <3>3. Working(e, z, c)'
      BY <1>0, <1>1, <3>1 DEF Working, Upserts
    <3> QED BY <1>loaded, <3>1, <3>3
  <2> QED BY <1>c, <1>5, <2>in, <2>2, <2>3 DEF ReconcileInputs
<1> QED BY <1>2, <1>3, <1>4, <1>5 DEF Reconcile

\* What users write is not Ready, or not cached.
LEMMA UsersUnready ==
  ASSUME EnvTyped, RefsKnown, NEW e \in Env, NEW spec \in Specs, CreateEnv(e, spec) \/ EditSpec(e, spec)
  PROVE  /\ w' = w /\ UNCHANGED <<envCache, out, outCache, notify, changed>>
         /\ env'[e].ready # Ready \/ env'[e] # envCache[e]
<1>0. /\ env \in [Env -> EnvObject] /\ envCache \in [Env -> EnvObject]
      /\ Older(envCache[e], env[e])
  BY DEF EnvTyped, EnvTypeOK, RefsKnown, RefsOf
<1>1. CASE CreateEnv(e, spec)
  <2>1. env'[e] = [NoEnv EXCEPT !.uid = uids + 1, !.generation = 1, !.spec = spec]
    BY <1>0, <1>1 DEF CreateEnv
  <2>2. env'[e].ready # Ready
    BY <2>1 DEF NoEnv, NoCond, Ready
  <2> QED BY <1>1, <2>2 DEF CreateEnv
<1>2. CASE EditSpec(e, spec)
  <2>a. PICK y, c, z : y = env[e] /\ c = envCache[e] /\ z = env'[e]
    OBVIOUS
  <2>1. y.uid # 0 /\ z = [y EXCEPT !.spec = spec, !.generation = @ + 1]
    BY <1>0, <1>2, <2>a DEF EditSpec
  <2>2. z.uid = y.uid /\ z.generation = y.generation + 1 /\ y.generation \in Nat
    BY <1>0, <2>1, <2>a DEF EnvObject
  <2>3. c.uid = y.uid => c.generation <= y.generation /\ c.generation \in Nat
    BY <1>0, <2>1, <2>a DEF Older, EnvObject
  <2>4. z # c
    <3> SUFFICES ASSUME c.uid = y.uid, c.generation = y.generation + 1
                 PROVE  FALSE
      BY <2>2
    <3>1. \A m, n \in Nat : ~(m <= n /\ m = n + 1)
      OBVIOUS
    <3> QED BY <2>2, <2>3, <3>1
  <2> QED BY <1>2, <2>4, <2>a DEF EditSpec
<1> QED BY <1>1, <1>2

\* The steps of others than Reconcile(e).
LEMMA OutsideMerged ==
  ASSUME EnvTyped, RefsKnown, NothingUnmerged, [Next]_vars, NEW e \in Env, ~Reconcile(e), ~Work(e)
  PROVE  AtIt(e)' /\ AtRest(e)'
<1>0. /\ env \in [Env -> EnvObject] /\ envCache \in [Env -> EnvObject] /\ w \in [Env -> Worker]
      /\ RefsOf(env[e], envCache[e], w[e], uids)
  BY DEF EnvTyped, EnvTypeOK, RefsKnown
<1>1. CASE Crash
  <2>1. w'[e] = Idle /\ (env'[e].uid # 0 => e \in queue')
    BY <1>1 DEF Crash
  <2> QED BY <2>1, ConstantTypes DEF AtIt, AtRest
<1>2. CASE e \in queue'
  BY <1>2 DEF AtIt, AtRest
<1>3. CASE ~Crash /\ e \notin queue'
  <2>0. e \notin queue
    BY <1>3, QueueSteps
  <2>1. PICK x, c, y : x = w[e] /\ c = envCache[e] /\ y = env[e]
    OBVIOUS
  <2>2. /\ x \in Worker /\ c \in EnvObject /\ y \in EnvObject
        /\ x.pc # "idle" => x.instance.uid # 0
    <3>1. x.pc # "idle" => x.base.uid # 0 /\ x.instance = [x.base EXCEPT !.refs = x.instance.refs]
      BY <1>0, <2>1 DEF RefsOf, WorkerRefs
    <3>2. x \in Worker /\ c \in EnvObject /\ y \in EnvObject
      BY <1>0, <2>1
    <3>3. x.base \in EnvObject
      BY <3>2 DEF Worker
    <3> QED BY <3>1, <3>2, <3>3 DEF EnvObject
  <2>3. ASSUME w'[e] = x, envCache'[e] = c
        PROVE  AtIt(e)'
    <3>1. CASE x.pc = "idle"
      BY <2>3, <3>1 DEF AtIt
    <3>2. CASE x.pc # "idle"
      <4>1. Working(e, x, c)
        BY <2>0, <2>1, <3>2 DEF NothingUnmerged, AtIt
      <4>2. Working(e, x, c)'
        BY <1>3, <2>2, <3>2, <4>1, WorkingStill
      <4>3. Working(e, w[e], envCache[e])'
        BY <2>3, <4>2
      <4> QED BY <4>3 DEF AtIt
    <3> QED BY <3>1, <3>2
  <2>4. ASSUME env'[e] = y, w'[e] = x, envCache'[e] = c
        PROVE  AtRest(e)'
    <3> SUFFICES ASSUME AtRest(e)' = FALSE
                 PROVE  FALSE
      BY DEF AtRest
    <3>1. x.pc = "idle" /\ y = c /\ y.uid # 0 /\ ~y.deleting /\ y.ready = Ready /\ ~Merged(e, env[e])'
      BY <2>4 DEF AtRest
    <3>2. Merged(e, y)
      BY <2>0, <2>1, <3>1 DEF NothingUnmerged, AtRest
    <3>3. Merged(e, y)'
      BY <1>3, <2>2, <3>1, <3>2, MergedStill
    <3> QED BY <2>4, <3>1, <3>3
  <2>5. CASE WatchEnv(e)
    BY <1>3, <2>5 DEF WatchEnv
  <2>6. ASSUME DeleteEnv(e) \/ \E spec \in Specs : CreateEnv(e, spec) \/ EditSpec(e, spec)
        PROVE  AtIt(e)' /\ AtRest(e)'
    <3>1. w'[e] = x /\ envCache'[e] = c
      BY <2>1, <2>6 DEF DeleteEnv, CreateEnv, EditSpec
    <3>2. CASE DeleteEnv(e)
      <4>1. env'[e] = [y EXCEPT !.deleting = TRUE] \/ env'[e] = NoEnv
        BY <1>0, <2>1, <3>2 DEF DeleteEnv
      <4>2. env'[e].deleting \/ env'[e].uid = 0
        BY <2>2, <4>1, ConstantTypes DEF EnvObject
      <4> QED BY <2>3, <3>1, <4>2 DEF AtRest
    <3>3. ASSUME NEW spec \in Specs, CreateEnv(e, spec) \/ EditSpec(e, spec)
          PROVE  AtIt(e)' /\ AtRest(e)'
      <4>1. env'[e].ready # Ready \/ env'[e] # c
        BY <2>1, <3>3, UsersUnready
      <4> QED BY <2>3, <3>1, <4>1 DEF AtRest
    <3> QED BY <2>6, <3>2, <3>3
  <2> QED BY <1>3, <2>1, <2>3, <2>4, <2>5, <2>6, StepsOf
<1> QED BY <1>1, <1>2, <1>3

\* Reconcile achieves it, or a request for e is queued.
LEMMA WorkMerged ==
  ASSUME EnvTyped, RefsKnown, NothingUnmerged, [Next]_vars, NEW e \in Env, Work(e)
  PROVE  AtIt(e)' /\ AtRest(e)'
<1>a. PICK x, c, z : x = w[e] /\ c = envCache[e] /\ z = w'[e]
  OBVIOUS
<1> DEFINE i == x.instance
<1>0. /\ w \in [Env -> Worker] /\ env \in [Env -> EnvObject] /\ x \in Worker /\ c \in EnvObject
      /\ notify \in [Secret -> SUBSET Env] /\ changed \in [Env -> SUBSET Kind] /\ Aligned(x)
      /\ outCache \in [Env -> Output] /\ i \in EnvObject
  BY <1>a DEF EnvTyped, EnvTypeOK, Worker
<1>1. x.pc # "idle" /\ envCache'[e] = c /\ UNCHANGED <<inputCache, outCache>>
  BY <1>a DEF Work, DelRef, UpdateRefs, AddRef, RefsDone, RemoveFinalizer, AddFinalizer,
              ReportError, Report, UpsertRedisSecret, CreateRedisPod, UpsertRedisService,
              UpsertMergedSecret
<1>2. i.uid # 0
  <2>1. x.base.uid # 0 /\ i = [x.base EXCEPT !.refs = i.refs]
    BY <1>a, <1>1 DEF RefsKnown, RefsOf, WorkerRefs
  <2>2. x.base \in EnvObject
    BY <1>0 DEF Worker
  <2> QED BY <2>1, <2>2 DEF EnvObject
<1>crash. CASE Crash
  <2>1. w'[e] = Idle /\ (env'[e].uid # 0 => e \in queue')
    BY <1>crash DEF Crash
  <2> QED BY <2>1, ConstantTypes DEF AtIt, AtRest
<1>queue. CASE e \in queue'
  BY <1>queue DEF AtIt, AtRest
<1> SUFFICES ASSUME ~Crash, e \notin queue'
             PROVE  AtIt(e)' /\ AtRest(e)'
  BY <1>crash, <1>queue
<1>3. Working(e, x, c)'
  <2>1. \A r : Reconcile(e) => w[e].pc = "idle"
    BY DEF Reconcile, ReconcileNothing, ReconcileDeleted, ReconcileNew, ReconcileInputs, Dequeue
  <2>2. e \notin queue
    BY <1>a, <1>1, <2>1, QueueSteps
  <2>3. Working(e, x, c)
    BY <1>a, <1>1, <2>2 DEF NothingUnmerged, AtIt
  <2> QED BY <1>0, <1>2, <2>3, WorkingStill
<1>4. /\ i = [c EXCEPT !.refs = i.refs]
      /\ c.uid = i.uid /\ c.deleting = i.deleting /\ c.finalizer = i.finalizer
      /\ c.spec = i.spec /\ c.ready = i.ready
  <2>1. i = [c EXCEPT !.refs = i.refs]
    BY <1>3 DEF Working
  <2> QED BY <1>0, <2>1 DEF EnvObject
<1>going. ASSUME z.pc # "idle", Working(e, z, c)'
          PROVE  AtIt(e)' /\ AtRest(e)'
  <2>1. Working(e, w[e], envCache[e])'
    BY <1>a, <1>1, <1>going
  <2> QED BY <1>a, <1>going, <2>1 DEF AtIt, AtRest
<1>done. ASSUME z = Idle, env'[e] = c /\ c.ready = Ready => Merged(e, c)'
         PROVE  AtIt(e)' /\ AtRest(e)'
  <2>1. env'[e] = c /\ c.ready = Ready => Merged(e, env[e])'
    BY <1>done
  <2> QED BY <1>a, <1>1, <1>done, <2>1, ConstantTypes DEF AtIt, AtRest
<1>goto. /\ \A v : Continue(e, v) => z = v
         /\ \A v, r : GotoReport(e, v, r) => z = [v EXCEPT !.pc = "report", !.cond = r]
         /\ \A requeue, after : Return(e, requeue, after) => z = Idle /\ ~requeue
  BY <1>0, <1>a DEF Continue, GotoReport, Return
\* It has failed, which is reported.
<1>report. ASSUME z.pc \in {"report", "reportError", "removeFinalizer"}, z.cond # Ready \/ z.pc # "report",
                  z.instance = [c EXCEPT !.refs = z.instance.refs]
           PROVE  AtIt(e)' /\ AtRest(e)'
  <2>1. Working(e, z, c)'
    BY <1>report DEF Working, Upserts
  <2> QED BY <1>report, <1>going, <2>1
<1>failed. ASSUME NEW v \in Worker, v.instance = [c EXCEPT !.refs = v.instance.refs],
                  NEW r, NEW s, r # "True",
                  RefsFailed(e, v, <<r, s>>) \/ GotoReport(e, v, <<r, s>>)
           PROVE  AtIt(e)' /\ AtRest(e)'
  <2>1. z = [v EXCEPT !.pc = "report", !.cond = <<r, s>>]
    BY <1>failed, <1>goto DEF RefsFailed
  <2>2. z.pc = "report" /\ z.cond # Ready /\ z.instance = v.instance
    BY <1>failed, <2>1 DEF Worker, Ready
  <2> QED BY <1>failed, <1>report, <2>2
<1>reason. \A o, r : r # "True" => Reason(o, r) # "True"
  BY DEF Reason
<1>5. CASE DelRef(e)
  <2>1. x.pc = "delRefs"
    BY <1>5, <1>a DEF DelRef
  <2>2. CASE \E t : Continue(e, [x EXCEPT !.todo = t])
    <3>1. /\ z.pc = "delRefs" /\ z.instance = i /\ z.refs = x.refs /\ z.inputs = x.inputs
      BY <1>0, <1>goto, <2>1, <2>2 DEF Worker
    <3>2. Working(e, z, c)'
      BY <1>3, <2>1, <3>1 DEF Working, Watched, Upserts
    <3> QED BY <1>going, <3>1, <3>2
  <2>3. CASE \E s, o : RefsFailed(e, x, <<Reason(o, "conflict"), s>>)
    BY <1>0, <1>4, <1>failed, <1>reason, <2>3
  <2> QED BY <1>5, <1>a, <2>2, <2>3 DEF DelRef
<1>6. CASE UpdateRefs(e)
  <2>1. x.pc = "delRefs"
    BY <1>6, <1>a DEF UpdateRefs
  <2>j. PICK j : j = [i EXCEPT !.refs = x.refs]
    OBVIOUS
  <2>2. /\ j = [c EXCEPT !.refs = j.refs]
        /\ j.uid = i.uid /\ j.deleting = i.deleting /\ j.spec = i.spec /\ j \in EnvObject
    BY <1>0, <1>4, <2>j DEF EnvObject, Worker
  <2>3. CASE \/ Continue(e, [x EXCEPT !.pc = "addRefs", !.todo = x.refs])
             \/ Continue(e, [[x EXCEPT !.pc = "addRefs", !.todo = x.refs]
                               EXCEPT !.base = j, !.instance = j])
    <3>1. /\ z.pc = "addRefs" /\ z.instance \in {i, j} /\ z.refs = x.refs /\ z.inputs = x.inputs
          /\ z.todo = x.refs
      BY <1>0, <1>goto, <2>3 DEF Worker
    <3>2. 1..(Len(z.refs) - Len(z.todo)) = {}
      <4>1. Len(z.refs) \in Nat /\ Len(z.todo) = Len(z.refs)
        BY <1>0, <3>1, LenProperties DEF Worker
      <4> QED BY <4>1
    <3>3. z.instance = [c EXCEPT !.refs = z.instance.refs] /\ z.instance.uid = i.uid
          /\ z.instance.deleting = i.deleting /\ z.instance.spec = i.spec
      BY <1>4, <2>2, <3>1
    <3>4. Watched(e, z) = Watched(e, x)
      BY <3>1, <3>3 DEF Watched
    <3>5. Current(e, z.instance.uid, z.refs, z.inputs, 1..(Len(z.refs) - Len(z.todo)))'
      <4>1. Current(e, z.instance.uid, z.refs, z.inputs, {})'
        BY DEF Current
      <4> QED BY <3>2, <4>1
    <3>6. ~i.deleting => /\ x.refs = i.spec.secrets
                         /\ Current(e, i.uid, x.refs, x.inputs, Watched(e, x))'
      BY <1>3, <2>1 DEF Working
    <3> HIDE DEF i
    <3>7. Working(e, z, c)'
      BY <3>1, <3>3, <3>4, <3>5, <3>6 DEF Working, Upserts
    <3> QED BY <1>going, <3>1, <3>7
  <2>4. CASE \E o : RefsFailed(e, [x EXCEPT !.instance = j], <<Reason(o, "conflict"), "env">>)
    <3>1. PICK v : v = [x EXCEPT !.instance = j]
      OBVIOUS
    <3>2. v \in Worker /\ v.instance = j
      BY <1>0, <2>2, <3>1 DEF Worker
    <3> QED BY <1>failed, <1>reason, <2>2, <2>4, <3>1, <3>2
  <2> QED BY <1>6, <1>a, <2>j, <2>3, <2>4 DEF UpdateRefs
<1>7. CASE AddRef(e)
  <2> DEFINE n == Len(x.refs) - Len(x.todo) + 1
             y == [x EXCEPT !.todo = Tail(@)]
  <2>1. x.pc = "addRefs" /\ x.todo # <<>>
    BY <1>7, <1>a DEF AddRef
  <2>2. \/ ~AddReference(x.inputs[n], e) /\ Continue(e, y)
        \/ \E o \in Outcome :
             /\ UpdateInput(Head(x.todo), x.inputs[n],
                            [x.inputs[n] EXCEPT !.owners[e] = i.uid], o)
             /\ \/ o = "ok" /\ Continue(e, y)
                \/ \E r \in {"conflict", "notFound"} : \E s :
                     RefsFailed(e, x, <<Reason(o, r), s>>)
    BY <1>7, <1>a DEF AddRef
  <2>3. /\ Typed(x) /\ Head(x.todo) \in Secret
        /\ x.inputs[n] \in Input
    BY <1>0, <2>1, WorkerTypes DEF Typed
  <2>4. /\ Len(x.refs) \in Nat /\ Len(x.todo) \in Nat /\ Len(Tail(x.todo)) = Len(x.todo) - 1
        /\ Len(x.todo) >= 1 /\ Len(x.todo) <= Len(x.refs) /\ DOMAIN x.refs = 1..Len(x.refs)
    <3>1. x.refs \in Seq(Secret) /\ x.todo \in Seq(Secret)
      BY <1>0 DEF Worker
    <3>2. Len(x.todo) <= Len(x.refs)
      BY <1>0, <2>1 DEF Aligned
    <3> QED BY <2>1, <3>1, <3>2, LenProperties, HeadTailProperties, EmptySeq
  <2>5. n \in DOMAIN x.refs
    <3>1. \A l, m \in Nat : m >= 1 /\ m <= l => l - m + 1 \in 1..l
      OBVIOUS
    <3> QED BY <2>4, <3>1
  <2>6. 1..(Len(x.refs) - Len(Tail(x.todo))) \subseteq (1..(Len(x.refs) - Len(x.todo))) \cup {n}
    <3>1. \A l, m \in Nat : 1..(l - (m - 1)) \subseteq (1..(l - m)) \cup {l - m + 1}
      OBVIOUS
    <3> QED BY <2>4, <3>1
  <2> HIDE DEF n
  <2>7. ASSUME Continue(e, y),
               ~i.deleting => Current(e, i.uid, x.refs, x.inputs, {n})'
        PROVE  AtIt(e)' /\ AtRest(e)'
    <3>1. /\ z.pc = "addRefs" /\ z.instance = i /\ z.refs = x.refs /\ z.inputs = x.inputs
          /\ z.todo = Tail(x.todo)
      BY <1>0, <1>goto, <2>1, <2>7 DEF Worker
    <3> HIDE DEF i, y
    <3>2. ~i.deleting => Current(e, i.uid, x.refs, x.inputs, 1..(Len(x.refs) - Len(x.todo)))'
      BY <1>3, <2>1 DEF Working, i
    <3>3. ~i.deleting => Current(e, i.uid, x.refs, x.inputs, 1..(Len(x.refs) - Len(z.todo)))'
      BY <2>6, <2>7, <3>1, <3>2 DEF Current
    <3>4. Watched(e, z) = Watched(e, x)
      BY <3>1 DEF Watched, i
    <3>5. ~i.deleting => /\ x.refs = i.spec.secrets
                         /\ Current(e, i.uid, x.refs, x.inputs, Watched(e, x))'
      BY <1>3, <2>1 DEF Working, i
    <3>6. Working(e, z, c)'
      BY <1>4, <3>1, <3>3, <3>4, <3>5 DEF Working, Upserts
    <3> QED BY <1>going, <3>1, <3>6
  \* An input that has the reference is watched; one that gets it makes an event.
  <2>8. CASE ~AddReference(x.inputs[n], e) /\ Continue(e, y)
    <3>1. n \in Watched(e, x)
      BY <1>a, <2>5, <2>8 DEF Watched, AddReference
    <3>2. ~i.deleting => Current(e, i.uid, x.refs, x.inputs, Watched(e, x))'
      BY <1>3, <2>1 DEF Working
    <3>3. ~i.deleting => Current(e, i.uid, x.refs, x.inputs, {n})'
      BY <3>1, <3>2 DEF Current
    <3> QED BY <2>7, <2>8, <3>3
  <2>9. ASSUME UpdateInput(Head(x.todo), x.inputs[n],
                           [x.inputs[n] EXCEPT !.owners[e] = i.uid], "ok"),
               Continue(e, y)
        PROVE  AtIt(e)' /\ AtRest(e)'
    <3>1. [x.inputs[n] EXCEPT !.owners[e] = i.uid].owners[e] = i.uid
      BY <2>3 DEF Input
    <3>2. e \in OwnersOf([x.inputs[n] EXCEPT !.owners[e] = i.uid])
      BY <1>2, <3>1 DEF OwnersOf
    <3>3. e \in notify'[Head(x.todo)]
      BY <1>0, <2>3, <2>9, <3>2 DEF UpdateInput, Applied, SetInput
    <3>4. Current(e, i.uid, x.refs, x.inputs, {n})'
      BY <2>3, <3>3 DEF Current, Due
    <3> QED BY <2>7, <2>9, <3>4
  <2>10. ASSUME NEW o, NEW r \in {"conflict", "notFound"}, NEW s,
                RefsFailed(e, x, <<Reason(o, r), s>>)
         PROVE  AtIt(e)' /\ AtRest(e)'
    BY <1>0, <1>4, <1>failed, <1>reason, <2>10
  <2> QED BY <2>2, <2>8, <2>9, <2>10
<1>8. CASE RefsDone(e)
  <2>1. x.pc = "addRefs" /\ x.todo = <<>>
    BY <1>8, <1>a DEF RefsDone
  <2>2. 1..(Len(x.refs) - Len(x.todo)) = DOMAIN x.refs
    <3>1. Len(x.refs) \in Nat /\ Len(x.todo) = 0 /\ DOMAIN x.refs = 1..Len(x.refs)
      BY <1>0, <2>1, LenProperties, EmptySeq DEF Worker
    <3> QED BY <3>1
  <2>3. CASE Continue(e, [x EXCEPT !.pc = "removeFinalizer"])
    <3>1. z.pc = "removeFinalizer" /\ z.instance = i
      BY <1>0, <1>goto, <2>3 DEF Worker
    <3> QED BY <1>4, <1>report, <3>1
  <2>4. ASSUME NEW p \in {"redis", "conf"}, ~i.deleting, Continue(e, [x EXCEPT !.pc = p])
        PROVE  AtIt(e)' /\ AtRest(e)'
    <3>1. z.pc = p /\ z.instance = i /\ z.refs = x.refs /\ z.inputs = x.inputs
      BY <1>0, <1>goto, <2>4 DEF Worker
    <3>2. x.refs = i.spec.secrets
      BY <1>3, <2>1, <2>4 DEF Working
    <3>3. Current(e, i.uid, x.refs, x.inputs, DOMAIN x.refs)'
      <4>1. Current(e, i.uid, x.refs, x.inputs, 1..(Len(x.refs) - Len(x.todo)))'
        BY <1>3, <2>1, <2>4 DEF Working
      <4> QED BY <2>2, <4>1
    <3> HIDE DEF i
    <3>4. Working(e, z, c)'
      BY <1>4, <2>4, <3>1, <3>2, <3>3 DEF Working, Upserts
    <3> QED BY <1>going, <3>1, <3>4
  <2>5. ASSUME NEW s, GotoReport(e, x, <<"InvalidSecret", s>>)
        PROVE  AtIt(e)' /\ AtRest(e)'
    BY <1>0, <1>4, <1>failed, <2>5
  <2> QED BY <1>8, <1>a, <2>3, <2>4, <2>5 DEF RefsDone
<1>9. CASE RemoveFinalizer(e)
  <2>1. PICK o \in Outcome : UpdateEnv(e, NoEnv, o) /\ Return(e, Failed(o), FALSE)
    BY <1>9 DEF RemoveFinalizer
  <2>2. z = Idle /\ o = "ok"
    BY <1>goto, <2>1 DEF Failed
  <2>3. env'[e].uid = 0
    BY <1>0, <2>1, <2>2, ConstantTypes DEF UpdateEnv, Applied
  <2> QED BY <1>2, <1>4, <1>done, <2>2, <2>3
<1>10. CASE AddFinalizer(e)
  <2>1. x.pc = "addFinalizer"
    BY <1>10, <1>a DEF AddFinalizer
  <2>2. PICK o \in Outcome :
          /\ UpdateEnv(e, [i EXCEPT !.finalizer = TRUE], o)
          /\ IF o = "ok" THEN Return(e, FALSE, FALSE)
             ELSE Continue(e, [x EXCEPT !.pc = "reportError",
                                        !.cond = <<Reason(o, "conflict"), "env">>])
    BY <1>10, <1>a DEF AddFinalizer
  <2>3. CASE o = "ok"
    <3>1. z = Idle
      BY <1>goto, <2>2, <2>3
    <3>2. env'[e].finalizer
      <4>1. env'[e] = [i EXCEPT !.finalizer = TRUE]
        BY <1>0, <2>2, <2>3 DEF UpdateEnv, Applied
      <4> QED BY <1>0, <4>1 DEF EnvObject
    <3>3. ~c.finalizer
      BY <1>3, <1>4, <2>1 DEF Working
    <3> QED BY <1>done, <3>1, <3>2, <3>3
  <2>4. CASE o # "ok"
    <3>1. z = [x EXCEPT !.pc = "reportError", !.cond = <<Reason(o, "conflict"), "env">>]
      BY <1>goto, <2>2, <2>4
    <3>2. z.pc = "reportError" /\ z.instance = i
      BY <1>0, <3>1 DEF Worker
    <3> QED BY <1>4, <1>report, <3>2
  <2> QED BY <2>3, <2>4
<1>11. CASE ReportError(e)
  BY <1>11, <1>goto DEF ReportError
<1>12. CASE Report(e)
  <2>1. x.pc = "report"
    BY <1>12, <1>a DEF Report
  <2>2. z = Idle /\ \E o \in Outcome : updateStatus(e, o) /\ o = "ok"
    BY <1>12, <1>goto DEF Report, Failed
  <2>3. CASE i.ready # x.cond
    <3>1. env'[e] = [i EXCEPT !.ready = x.cond]
      BY <1>0, <1>a, <2>2, <2>3 DEF updateStatus, UpdateEnv, Applied
    <3>2. env'[e].ready = x.cond
      BY <1>0, <3>1 DEF EnvObject
    <3>3. env'[e] # c
      BY <1>4, <2>3, <3>2
    <3> QED BY <1>done, <2>2, <3>3
  <2>4. CASE i.ready = x.cond
    <3> SUFFICES ASSUME c.ready = Ready
                 PROVE  Merged(e, c)'
      BY <1>done, <2>2
    <3>1. x.cond = Ready
      BY <1>4, <2>4
    <3>2. x.refs = c.spec.secrets
      BY <1>3, <1>4, <2>1, <3>1 DEF Working
    <3>3. Current(e, c.uid, c.spec.secrets, x.inputs, DOMAIN c.spec.secrets)'
      <4>1. Current(e, i.uid, x.refs, x.inputs, DOMAIN x.refs)'
        BY <1>3, <2>1, <3>1 DEF Working
      <4> QED BY <1>4, <3>2, <4>1
    <3>4. Stored(e, c.spec.secrets, x.inputs)'
      <4>1. Stored(e, x.refs, x.inputs)'
        BY <1>3, <2>1, <3>1 DEF Working
      <4> QED BY <3>2, <4>1
    <3>5. /\ x.inputs \in Seq(Input) /\ Len(x.inputs) = Len(c.spec.secrets)
          /\ \A j \in DOMAIN x.inputs : x.inputs[j].exists
      BY <1>0, <3>2 DEF Worker, Aligned
    <3> QED BY <3>3, <3>4, <3>5 DEF Merged
  <2> QED BY <2>3, <2>4
\* Creating the outputs.
<1>upsert. ASSUME x.pc \in Upserts, z.instance = i, z.refs = x.refs, z.inputs = x.inputs,
                  \/ z.pc \in Upserts
                  \/ z.pc = "report" /\ (z.cond = Ready => Stored(e, x.refs, x.inputs)')
           PROVE  AtIt(e)' /\ AtRest(e)'
  <2>1. /\ ~i.deleting /\ x.refs = i.spec.secrets
        /\ Current(e, i.uid, x.refs, x.inputs, DOMAIN x.refs)'
    BY <1>3, <1>upsert DEF Working
  <2> HIDE DEF i
  <2>2. Working(e, z, c)'
    BY <1>4, <1>upsert, <2>1 DEF Working, Upserts
  <2>3. z.pc # "idle"
    BY <1>upsert DEF Upserts
  <2> QED BY <1>going, <2>2, <2>3
<1>13. CASE UpsertRedisSecret(e) \/ CreateRedisPod(e) \/ UpsertRedisService(e)
  <2>1. x.pc \in Upserts
    BY <1>13, <1>a DEF UpsertRedisSecret, CreateRedisPod, UpsertRedisService, Upserts
  <2>2. \/ \E p : Continue(e, [x EXCEPT !.pc = "pod", !.password = p])
        \/ \E b : Continue(e, [x EXCEPT !.pc = "svc", !.ready = b])
        \/ Continue(e, [x EXCEPT !.pc = "conf"])
        \/ GotoReport(e, x, <<"Pending", "none">>)
        \/ \E r \in {"conflict", "exists"}, k \in Kind : \E o :
             GotoReport(e, x, <<Reason(o, r), k>>)
    BY <1>13, <1>a DEF UpsertRedisSecret, CreateRedisPod, UpsertRedisService, Refusal, Kind
  <2>3. CASE \/ \E p : z = [x EXCEPT !.pc = "pod", !.password = p]
             \/ \E b : z = [x EXCEPT !.pc = "svc", !.ready = b]
             \/ z = [x EXCEPT !.pc = "conf"]
    <3>1. z.instance = i /\ z.refs = x.refs /\ z.inputs = x.inputs /\ z.pc \in Upserts
      BY <1>0, <2>3 DEF Worker, Upserts
    <3> QED BY <1>upsert, <2>1, <3>1
  <2>4. CASE GotoReport(e, x, <<"Pending", "none">>)
    BY <1>0, <1>4, <1>failed, <2>4
  <2>5. ASSUME NEW r \in {"conflict", "exists"}, NEW k \in Kind, NEW o,
               GotoReport(e, x, <<Reason(o, r), k>>)
        PROVE  AtIt(e)' /\ AtRest(e)'
    BY <1>0, <1>4, <1>failed, <1>reason, <2>5
  <2> QED BY <1>goto, <2>2, <2>3, <2>4, <2>5
<1>14. CASE UpsertMergedSecret(e)
  <2> DEFINE y == [owner |-> OwnerFor(e, "conf"), auths |-> Merge(x.refs, x.inputs),
                   first |-> First(x.inputs), password |-> x.password]
  <2>1. x.pc = "conf" /\ x.pc \in Upserts
    BY <1>14, <1>a DEF UpsertMergedSecret, Upserts
  <2>2. PICK o \in Outcome :
          /\ CreateOrUpdate(e, "conf", y, o)
          /\ GotoReport(e, x, IF o = "ok" THEN Ready
                              ELSE <<Reason(o, Refusal(e, "conf")), "conf">>)
    BY <1>14, <1>a DEF UpsertMergedSecret
  <2>3. CASE o = "ok"
    <3>1. /\ z.pc = "report" /\ z.instance = i /\ z.refs = x.refs /\ z.inputs = x.inputs
      <4>1. z = [x EXCEPT !.pc = "report", !.cond = Ready]
        BY <1>goto, <2>2, <2>3
      <4> QED BY <1>0, <4>1 DEF Worker
    <3>2. Stored(e, x.refs, x.inputs)'
      <4>1. CASE y = outCache[e]["conf"]
        <5>1. OwnerFor(e, "conf") # 0
          BY <1>2, <1>a DEF OwnerFor
        <5>2. /\ outCache'[e].conf.owner # 0 /\ outCache'[e].conf.first = First(x.inputs)
              /\ outCache'[e].conf.auths = Merge(x.refs, x.inputs)
          BY <1>1, <4>1, <5>1
        <5> QED BY <5>2 DEF Stored
      <4>2. CASE y # outCache[e]["conf"]
        <5>1. "conf" \in changed'[e]
          BY <1>0, <2>2, <2>3, <4>2 DEF CreateOrUpdate, Applied, SetOutput, Kind
        <5> QED BY <5>1 DEF Stored, Due
      <4> QED BY <4>1, <4>2
    <3> QED BY <1>upsert, <2>1, <3>1, <3>2
  <2>4. CASE o # "ok"
    <3>1. Refusal(e, "conf") # "True"
      BY DEF Refusal
    <3> QED BY <1>0, <1>4, <1>failed, <1>reason, <2>2, <2>4, <3>1
  <2> QED BY <2>3, <2>4
<1> QED
  BY <1>5, <1>6, <1>7, <1>8, <1>9, <1>10, <1>11, <1>12, <1>13, <1>14 DEF Work

\* It is kept by every step.
LEMMA UnmergedKept ==
  ASSUME EnvTyped, RefsKnown, NothingUnmerged, [Next]_vars
  PROVE  NothingUnmerged'
<1>1. OutputsCached'
  BY OutputsKept DEF NothingUnmerged
<1>2. \A e \in Env : AtIt(e)' /\ AtRest(e)'
  BY ReconcileMerged, OutsideMerged, WorkMerged
<1> QED BY <1>1, <1>2 DEF NothingUnmerged

\* At first there is nothing to merge.
LEMMA UnmergedFirst == Init => NothingUnmerged
BY ConstantTypes DEF Init, NothingUnmerged, OutputsCached, AtIt, AtRest

\* What is merged and current is what is asked for.
LEMMA MergedSettled ==
  ASSUME EnvTyped, NothingUnmerged
  PROVE  SettledIsMerged
<1> SUFFICES ASSUME NEW e \in Env, Done(e)
             PROVE  LET names == env[e].spec.secrets
                        inputs == [i \in DOMAIN names |-> input[names[i]]]
                    IN
                    /\ \A i \in DOMAIN names : inputs[i].exists /\ inputs[i].owners[e] = env[e].uid
                    /\ out[e].conf.owner # 0
                    /\ out[e].conf.first = First(inputs)
                    /\ \A i \in DOMAIN names : \A h \in HostsOf[names[i]] :
                         (\A j \in DOMAIN names : h \in HostsOf[names[j]] => j <= i)
                           => out[e].conf.auths[h] = inputs[i].data
  BY DEF SettledIsMerged
<1> DEFINE names == env[e].spec.secrets
           inputs == [i \in DOMAIN names |-> input[names[i]]]
<1>1. /\ env[e].uid # 0 /\ ~env[e].deleting /\ env[e].ready = Ready /\ w[e].pc = "idle"
      /\ e \notin queue /\ envCache[e] = env[e] /\ changed[e] = {}
      /\ \A s \in Secret : inputCache[s] = input[s] /\ notify[s] = {}
  BY DEF Done, Settled
<1>2. ~Due(e)
  BY <1>1 DEF Due
<1>3. Merged(e, env[e])
  BY <1>1 DEF NothingUnmerged, AtRest
<1>4. names \in Seq(Secret) /\ Len(names) \in Nat /\ DOMAIN names = 1..Len(names)
      /\ \A j \in DOMAIN names : names[j] \in Secret
  <2>1. env[e] \in EnvObject
    BY DEF EnvTyped, EnvTypeOK
  <2>2. names \in Seq(Secret)
    BY <2>1, EnvObjectTypes
  <2> QED BY <2>2, LenProperties
<1>5. PICK read \in Seq(Input) :
        /\ Len(read) = Len(names)
        /\ \A j \in DOMAIN read : read[j].exists
        /\ Current(e, env[e].uid, names, read, DOMAIN names)
        /\ Stored(e, names, read)
  BY <1>3 DEF Merged
<1> HIDE DEF names
<1>6. \A j \in DOMAIN names : read[j] = input[names[j]] /\ read[j].owners[e] = env[e].uid
  BY <1>1, <1>2, <1>4, <1>5 DEF Current
<1>7. DOMAIN read = DOMAIN names /\ read = [i \in DOMAIN read |-> read[i]]
  BY <1>4, <1>5, LenProperties
<1>8. read = inputs
  BY <1>6, <1>7
<1>9. outCache[e].conf = out[e].conf
  BY <1>1 DEF NothingUnmerged, OutputsCached, Kind
<1> HIDE DEF inputs
<1>10. /\ out[e].conf.owner # 0 /\ out[e].conf.first = First(inputs)
       /\ out[e].conf.auths = Merge(names, inputs)
  BY <1>2, <1>5, <1>8, <1>9 DEF Stored
\* The position that Merge chooses is the last with the registry.
<1>11. ASSUME NEW i \in DOMAIN names, NEW h \in HostsOf[names[i]],
              \A j \in DOMAIN names : h \in HostsOf[names[j]] => j <= i
       PROVE  out[e].conf.auths[h] = inputs[i].data
  <2> DEFINE I == {j \in DOMAIN names : h \in HostsOf[names[j]]}
             last == CHOOSE j \in I : \A k \in I : k <= j
  <2>1. h \in Host
    BY <1>4, EnvAssumption
  <2>2. i \in I /\ (\A k \in I : k <= i) /\ I \subseteq Int
    BY <1>4, <1>11
  <2>3. Merge(names, inputs)[h] = IF I = {} THEN 0 ELSE inputs[last].data
    BY <2>1 DEF Merge
  <2> HIDE DEF I
  <2>4. last \in I /\ \A k \in I : k <= last
    BY <2>2
  <2>5. last = i
    <3> HIDE DEF last
    <3>1. last \in Int /\ i \in Int /\ last <= i /\ i <= last
      BY <2>2, <2>4
    <3> QED BY <3>1
  <2> QED BY <1>10, <2>2, <2>3, <2>5
<1>12. \A i \in DOMAIN names : inputs[i].exists /\ inputs[i].owners[e] = env[e].uid
  BY <1>5, <1>6, <1>7, <1>8
<1> QED BY <1>10, <1>11, <1>12 DEF names, inputs

\* When the operator is done with an ImageBuildEnv that is Ready, its output
\* Secret has the present credentials of all inputs and these are watched: no
\* change made while Reconcile or after it merged them goes unnoticed, whichever
\* calls fail, however stale the caches are and whenever the operator crashes.
THEOREM SettledMerged == EnvSpec => []SettledIsMerged
<1>1. Init => NothingUnmerged
  BY UnmergedFirst
<1>2. EnvTyped /\ RefsKnown /\ NothingUnmerged /\ [Next]_vars => NothingUnmerged'
  BY UnmergedKept
<1>3. EnvTyped /\ NothingUnmerged => SettledIsMerged
  BY MergedSettled
<1> QED BY <1>1, <1>2, <1>3, AlwaysKnown, PTL DEF EnvSpec

-----------------------------------------------------------------------------
(* Redis is usable.                                                        *)
(*                                                                         *)
(* What Reconcile provides is in the cache, or an event is due that starts *)
(* another Reconcile; the output Secret gets the password that the cache   *)
(* has.  That of a redis Secret never changes, and each redis Secret that  *)
(* is created has a later password than the one before, which redis may    *)
(* still run with.                                                         *)

\* The redis Secrets have passwords generated so far, those of o and its version
\* v in the cache, and redis runs with the present or an earlier one.
Ordered(o, v, n) ==
  /\ \A y \in {o.redis, v.redis} : y = NoRedis \/ (y.owner # 0 /\ y.password \in 1..n)
  /\ o.pod.ready => /\ o.pod.password \in 0..n
                    /\ o.redis # NoRedis => o.pod.password <= o.redis.password

\* Whether Reconcile has read or generated the password.
HasPassword(x) == x.pc \in {"pod", "svc"} \/ (x.pc = "conf" /\ x.instance.spec.redis)

\* The password is the one in the cache, or an event is due.
Knows(e, x) == HasPassword(x) => Due(e) \/ x.password = outCache[e].redis.password

\* Outputs are there, the pod is ready and the output Secret has the password of
\* the redis Secret, or an event is due.
Provided(e, K) ==
  Due(e) \/ \A k \in K :
    CASE k = "password" -> outCache[e].conf.password = outCache[e].redis.password
      [] k = "ready" -> outCache[e].pod.ready
      [] OTHER -> outCache[e][k].owner # 0

Everything == {"redis", "pod", "ready", "svc", "password"}

\* Those that Reconcile has provided.
ProvidedBy(x) ==
  CASE x.pc = "pod" -> {"redis"}
    [] x.pc = "svc" -> {"redis", "pod"} \cup (IF x.ready THEN {"ready"} ELSE {})
    [] x.pc = "conf" -> {"redis", "pod", "ready", "svc"}
    [] x.pc = "report" /\ x.cond = Ready -> Everything
    [] OTHER -> {}

Serving(e) ==
  /\ w[e].pc # "idle" /\ e \notin queue /\ w[e].instance.spec.redis
       => Provided(e, ProvidedBy(w[e])) /\ Knows(e, w[e])
  /\ w[e].pc = "idle" /\ e \notin queue /\ env[e] = envCache[e] /\ env[e].uid # 0
       /\ ~env[e].deleting /\ env[e].ready = Ready /\ env[e].spec.redis
       => Provided(e, Everything)

\* How a Reconcile with local state x may have returned, or gone on to z.
Returns(e, x) ==
  \/ e \in queue'
  \/ UpdateEnv(e, NoEnv, "ok")
  \/ x.pc = "addFinalizer" /\ UpdateEnv(e, [x.instance EXCEPT !.finalizer = TRUE], "ok")
  \/ x.pc = "report" /\ updateStatus(e, "ok")

Moves(e, x, z) ==
  \/ z = Idle /\ Returns(e, x)
  \/ /\ z.instance.uid = x.instance.uid /\ z.instance.spec = x.instance.spec
     /\ \/ z.pc \in {"delRefs", "addRefs", "removeFinalizer", "redis", "reportError"}
        \/ z.pc = "conf" /\ ~z.instance.spec.redis
        \/ z.pc = "report" /\ z.cond # Ready
        \/ /\ z.pc = "pod" /\ z.password = RedisPassword(e)
           /\ CreateOrUpdate(e, "redis", [owner |-> OwnerFor(e, "redis"),
                                          password |-> z.password], "ok")
        \/ /\ x.pc = "pod" /\ z.pc = "svc" /\ z.password = x.password
           /\ z.ready => outCache[e].pod.ready
           /\ CreateOrUpdate(e, "pod", IF outCache[e].pod.owner # 0 THEN outCache[e].pod
                                       ELSE [NoPod EXCEPT !.owner = x.instance.uid], "ok")
        \/ /\ x.pc = "svc" /\ z.pc = "conf" /\ z.password = x.password /\ x.ready
           /\ CreateOrUpdate(e, "svc", [owner |-> x.instance.uid], "ok")
        \/ /\ x.pc = "conf" /\ z.pc = "report"
           /\ \E y : y.password = x.password /\ CreateOrUpdate(e, "conf", y, "ok")

LEMMA WorkMoves ==
  ASSUME EnvTyped, NEW e \in Env, Work(e), NEW x, x = w[e], NEW z, z = w'[e]
  PROVE  Moves(e, x, z)
<1> DEFINE i == x.instance
<1>0. w \in [Env -> Worker] /\ x \in Worker /\ i \in EnvObject
  BY DEF EnvTyped, EnvTypeOK, Worker
<1>goto. /\ \A v : Continue(e, v) => z = v
         /\ \A v, r : GotoReport(e, v, r) => z = [v EXCEPT !.pc = "report", !.cond = r]
         /\ \A requeue, after : Return(e, requeue, after) => z = Idle /\ (requeue => e \in queue')
  BY <1>0 DEF Continue, GotoReport, Return
<1>failed. ASSUME NEW v \in Worker, v.instance.uid = i.uid, v.instance.spec = i.spec,
                  NEW r, NEW s, r # "True",
                  RefsFailed(e, v, <<r, s>>) \/ GotoReport(e, v, <<r, s>>)
           PROVE  Moves(e, x, z)
  <2>1. (z = Idle /\ e \in queue') \/ z = [v EXCEPT !.pc = "report", !.cond = <<r, s>>]
    BY <1>failed, <1>goto DEF RefsFailed
  <2>2. (z = Idle /\ e \in queue') \/ (z.pc = "report" /\ z.cond # Ready /\ z.instance = v.instance)
    <3>1. CASE z = [v EXCEPT !.pc = "report", !.cond = <<r, s>>]
      BY <1>failed, <3>1 DEF Worker, Ready
    <3> QED BY <2>1, <3>1
  <2> QED BY <1>failed, <2>2 DEF Moves, Returns
<1>reason. \A o, r : r # "True" => Reason(o, r) # "True"
  BY DEF Reason
<1>1. CASE RemoveFinalizer(e) \/ ReportError(e) \/ Report(e)
  BY <1>1, <1>goto DEF RemoveFinalizer, ReportError, Report, Moves, Returns, Failed
<1>2. CASE DelRef(e)
  <2>1. x.pc = "delRefs"
    BY <1>2 DEF DelRef
  <2>2. CASE \E t : Continue(e, [x EXCEPT !.todo = t])
    <3>1. z.pc = "delRefs" /\ z.instance = i
      BY <1>0, <1>goto, <2>1, <2>2 DEF Worker
    <3> QED BY <3>1 DEF Moves
  <2>3. CASE \E s, o : RefsFailed(e, x, <<Reason(o, "conflict"), s>>)
    BY <1>0, <1>failed, <1>reason, <2>3
  <2> QED BY <1>2, <2>2, <2>3 DEF DelRef
<1>3. CASE UpdateRefs(e)
  <2>1. PICK j : j = [i EXCEPT !.refs = x.refs]
    OBVIOUS
  <2>2. j.uid = i.uid /\ j.spec = i.spec /\ j \in EnvObject
    BY <1>0, <2>1 DEF EnvObject, Worker
  <2>3. CASE \/ Continue(e, [x EXCEPT !.pc = "addRefs", !.todo = x.refs])
             \/ Continue(e, [[x EXCEPT !.pc = "addRefs", !.todo = x.refs]
                               EXCEPT !.base = j, !.instance = j])
    <3>1. z.pc = "addRefs" /\ z.instance \in {i, j}
      BY <1>0, <1>goto, <2>3 DEF Worker
    <3> QED BY <2>2, <3>1 DEF Moves
  <2>4. CASE \E o : RefsFailed(e, [x EXCEPT !.instance = j], <<Reason(o, "conflict"), "env">>)
    <3>1. PICK v : v = [x EXCEPT !.instance = j]
      OBVIOUS
    <3>2. v \in Worker /\ v.instance = j
      BY <1>0, <2>2, <3>1 DEF Worker
    <3> QED BY <1>failed, <1>reason, <2>2, <2>4, <3>1, <3>2
  <2> QED BY <1>3, <2>1, <2>3, <2>4 DEF UpdateRefs
<1>4. CASE AddRef(e)
  <2>1. CASE Continue(e, [x EXCEPT !.todo = Tail(@)]) /\ x.pc = "addRefs"
    <3>1. z.pc = "addRefs" /\ z.instance = i
      BY <1>0, <1>goto, <2>1 DEF Worker
    <3> QED BY <3>1 DEF Moves
  <2>2. CASE \E r \in {"conflict", "notFound"} : \E s, o : RefsFailed(e, x, <<Reason(o, r), s>>)
    BY <1>0, <1>failed, <1>reason, <2>2
  <2> QED BY <1>4, <2>1, <2>2 DEF AddRef
<1>5. CASE RefsDone(e)
  <2>1. CASE \/ Continue(e, [x EXCEPT !.pc = "removeFinalizer"])
             \/ Continue(e, [x EXCEPT !.pc = IF i.spec.redis THEN "redis" ELSE "conf"])
    <3>1. /\ z.instance = i
          /\ z.pc \in {"removeFinalizer", "redis"} \/ (z.pc = "conf" /\ ~i.spec.redis)
      BY <1>0, <1>goto, <2>1 DEF Worker
    <3> QED BY <3>1 DEF Moves
  <2>2. ASSUME NEW s, GotoReport(e, x, <<"InvalidSecret", s>>)
        PROVE  Moves(e, x, z)
    BY <1>0, <1>failed, <2>2
  <2> QED BY <1>5, <2>1, <2>2 DEF RefsDone
<1>6. CASE AddFinalizer(e)
  <2>1. x.pc = "addFinalizer"
    BY <1>6 DEF AddFinalizer
  <2>2. \/ UpdateEnv(e, [i EXCEPT !.finalizer = TRUE], "ok") /\ z = Idle
        \/ \E r : z = [x EXCEPT !.pc = "reportError", !.cond = r]
    BY <1>6, <1>goto DEF AddFinalizer
  <2>3. (\E r : z = [x EXCEPT !.pc = "reportError", !.cond = r])
          => z.pc = "reportError" /\ z.instance = i
    BY <1>0 DEF Worker
  <2> QED BY <2>1, <2>2, <2>3 DEF Moves, Returns
<1>fails. ASSUME NEW r \in {"conflict", "exists"}, NEW k, NEW o, GotoReport(e, x, <<Reason(o, r), k>>)
          PROVE  Moves(e, x, z)
  BY <1>0, <1>failed, <1>reason, <1>fails
<1>refusal. \A k : Refusal(e, k) \in {"conflict", "exists"}
  BY DEF Refusal
<1>7. CASE UpsertRedisSecret(e)
  <2>1. \/ /\ Continue(e, [x EXCEPT !.pc = "pod", !.password = RedisPassword(e)])
           /\ CreateOrUpdate(e, "redis", [owner |-> OwnerFor(e, "redis"),
                                          password |-> RedisPassword(e)], "ok")
        \/ \E o : GotoReport(e, x, <<Reason(o, Refusal(e, "redis")), "redis">>)
    BY <1>7 DEF UpsertRedisSecret
  <2>2. ASSUME Continue(e, [x EXCEPT !.pc = "pod", !.password = RedisPassword(e)])
        PROVE  z.pc = "pod" /\ z.password = RedisPassword(e) /\ z.instance = i
    BY <1>0, <1>goto, <2>2 DEF Worker
  <2> QED BY <1>fails, <1>refusal, <2>1, <2>2 DEF Moves
<1>8. CASE CreateRedisPod(e)
  <2> DEFINE y == IF outCache[e].pod.owner # 0 THEN outCache[e].pod
                  ELSE [NoPod EXCEPT !.owner = i.uid]
  <2>1. \/ /\ x.pc = "pod" /\ CreateOrUpdate(e, "pod", y, "ok")
           /\ \E b \in {FALSE, outCache[e].pod.ready} :
                Continue(e, [x EXCEPT !.pc = "svc", !.ready = b])
        \/ \E o : GotoReport(e, x, <<Reason(o, "exists"), "pod">>)
    BY <1>8 DEF CreateRedisPod
  <2>2. ASSUME NEW b, Continue(e, [x EXCEPT !.pc = "svc", !.ready = b])
        PROVE  z.pc = "svc" /\ z.password = x.password /\ z.ready = b /\ z.instance = i
    BY <1>0, <1>goto, <2>2 DEF Worker
  <2>4. CASE \E o : GotoReport(e, x, <<Reason(o, "exists"), "pod">>)
    BY <1>fails, <2>4
  <2> HIDE DEF y
  <2>5. CASE \E b \in {FALSE, outCache[e].pod.ready} :
               Continue(e, [x EXCEPT !.pc = "svc", !.ready = b])
    <3>1. /\ z.pc = "svc" /\ z.password = x.password /\ z.instance = i
          /\ z.ready = FALSE \/ z.ready = outCache[e].pod.ready
      BY <2>2, <2>5
    <3>2. CASE x.pc = "pod" /\ CreateOrUpdate(e, "pod", y, "ok")
      BY <3>1, <3>2 DEF Moves, y
    <3> QED BY <2>1, <2>4, <3>2
  <2> QED BY <2>1, <2>4, <2>5
<1>9. CASE UpsertRedisService(e)
  <2>1. \/ /\ x.pc = "svc" /\ x.ready /\ Continue(e, [x EXCEPT !.pc = "conf"])
           /\ CreateOrUpdate(e, "svc", [owner |-> i.uid], "ok")
        \/ GotoReport(e, x, <<"Pending", "none">>)
        \/ \E o : GotoReport(e, x, <<Reason(o, Refusal(e, "svc")), "svc">>)
    BY <1>9 DEF UpsertRedisService
  <2>2. ASSUME Continue(e, [x EXCEPT !.pc = "conf"])
        PROVE  z.pc = "conf" /\ z.password = x.password /\ z.instance = i
    BY <1>0, <1>goto, <2>2 DEF Worker
  <2>3. GotoReport(e, x, <<"Pending", "none">>) => Moves(e, x, z)
    BY <1>0, <1>failed
  <2> QED BY <1>fails, <1>refusal, <2>1, <2>2, <2>3 DEF Moves
<1>10. CASE UpsertMergedSecret(e)
  <2>1. \/ /\ x.pc = "conf" /\ GotoReport(e, x, Ready)
           /\ \E y : y.password = x.password /\ CreateOrUpdate(e, "conf", y, "ok")
        \/ \E o : GotoReport(e, x, <<Reason(o, Refusal(e, "conf")), "conf">>)
    <3>1. PICK o \in Outcome :
            /\ CreateOrUpdate(e, "conf",
                 [owner |-> OwnerFor(e, "conf"), auths |-> Merge(x.refs, x.inputs),
                  first |-> First(x.inputs), password |-> x.password], o)
            /\ GotoReport(e, x, IF o = "ok" THEN Ready
                                ELSE <<Reason(o, Refusal(e, "conf")), "conf">>)
      BY <1>10 DEF UpsertMergedSecret
    <3>2. x.pc = "conf"
      BY <1>10 DEF UpsertMergedSecret
    <3>3. PICK y : y = [owner |-> OwnerFor(e, "conf"), auths |-> Merge(x.refs, x.inputs),
                        first |-> First(x.inputs), password |-> x.password]
      OBVIOUS
    <3>4. y.password = x.password
      BY <3>3
    <3> QED BY <3>1, <3>2, <3>3, <3>4
  <2>2. GotoReport(e, x, Ready) => z.pc = "report" /\ z.instance = i
    <3>1. GotoReport(e, x, Ready) => z = [x EXCEPT !.pc = "report", !.cond = Ready]
      BY <1>goto
    <3> QED BY <1>0, <3>1 DEF Worker
  <2> QED BY <1>fails, <1>refusal, <2>1, <2>2 DEF Moves
<1> QED BY <1>1, <1>2, <1>3, <1>4, <1>5, <1>6, <1>7, <1>8, <1>9, <1>10 DEF Work

\* Outputs change in these steps only.
LEMMA OutputSteps ==
  ASSUME EnvTyped, [Next]_vars, NEW e \in Env
  PROVE  \/ out'[e] = out[e] /\ outCache'[e] = outCache[e]
         \/ Crash \/ StartPod(e) \/ RestartPod(e)
         \/ UpsertRedisSecret(e) \/ CreateRedisPod(e) \/ UpsertRedisService(e)
         \/ UpsertMergedSecret(e)
         \/ \E k \in Kind : WatchOutput(e, k) \/ DeleteOutput(e, k) \/ CollectOutput(e, k)
<1> DEFINE Same == out'[e] = out[e] /\ outCache'[e] = outCache[e]
<1>ok. outCache \in [Env -> Output] /\ out \in [Env -> Output]
  BY DEF EnvTyped, EnvTypeOK
<1>1. ASSUME UNCHANGED <<out, outCache>>
      PROVE  Same
  BY <1>1
<1>2. ASSUME NEW d \in Env, \/ Reconcile(d) \/ DelRef(d) \/ UpdateRefs(d) \/ AddRef(d) \/ RefsDone(d)
                            \/ RemoveFinalizer(d) \/ AddFinalizer(d) \/ ReportError(d) \/ Report(d)
                            \/ WatchEnv(d) \/ RequeueAfter(d) \/ DeleteEnv(d)
                            \/ \E spec \in Specs : CreateEnv(d, spec) \/ EditSpec(d, spec)
      PROVE  Same
  BY <1>1, <1>2 DEF Reconcile, ReconcileNothing, ReconcileDeleted, ReconcileNew, ReconcileInputs,
                    Dequeue, DelRef, UpdateRefs, AddRef, RefsDone, RemoveFinalizer, AddFinalizer,
                    ReportError, Report, WatchEnv, RequeueAfter, DeleteEnv, CreateEnv, EditSpec
<1>3. ASSUME NEW s \in Secret, \/ WatchInput(s) \/ CreateInput(s) \/ EditInput(s)
                               \/ DeleteInput(s) \/ CollectInput(s)
      PROVE  Same
  BY <1>1, <1>3 DEF WatchInput, CreateInput, EditInput, DeleteInput, CollectInput
<1>4. ASSUME NEW d \in Env \ {e}, \/ UpsertRedisSecret(d) \/ CreateRedisPod(d)
                                  \/ UpsertRedisService(d) \/ UpsertMergedSecret(d)
      PROVE  Same
  <2>1. ASSUME NEW k, NEW x, NEW o, CreateOrUpdate(d, k, x, o), UNCHANGED outCache
        PROVE  Same
    BY <1>ok, <2>1 DEF CreateOrUpdate, SetOutput
  <2> QED BY <1>4, <2>1 DEF UpsertRedisSecret, CreateRedisPod, UpsertRedisService,
                            UpsertMergedSecret
<1>5. ASSUME NEW d \in Env \ {e}, \/ StartPod(d) \/ RestartPod(d)
                                  \/ \E k \in Kind : \/ DeleteOutput(d, k) \/ CollectOutput(d, k)
                                                     \/ WatchOutput(d, k)
      PROVE  Same
  BY <1>ok, <1>5 DEF StartPod, RestartPod, DeleteOutput, CollectOutput, ChangeOutput, SetOutput,
                     WatchOutput
<1> HIDE DEF Same
<1>6. CASE Operator
  BY <1>6, <1>2, <1>3, <1>4, <1>5 DEF Operator, Work, Same
<1>7. CASE Environment
  BY <1>7, <1>2, <1>3, <1>5 DEF Environment, Same
<1> QED BY <1>1, <1>6, <1>7 DEF Next, vars, Same

\* Changing one output.
LEMMA OneOutput ==
  ASSUME NEW y \in Output, NEW k \in Kind, NEW x
  PROVE  /\ [y EXCEPT ![k] = x][k] = x
         /\ \A j \in Kind \ {k} : [y EXCEPT ![k] = x][j] = y[j]
<1>1. DOMAIN y = Kind
  BY DEF Output, Kind
<1> QED BY <1>1, Zenon

\* Versions count up.
LEMMA VersionsGrow ==
  ASSUME EnvTyped, [Next]_vars
  PROVE  versions \in Nat /\ versions' \in Nat /\ versions <= versions'
<1>0. versions \in Nat
  BY DEF EnvTyped, EnvTypeOK
<1>same. versions' = versions => versions' \in Nat /\ versions <= versions'
  BY <1>0
<1>1. ASSUME NEW d \in Env, \/ Reconcile(d) \/ DelRef(d) \/ UpdateRefs(d) \/ AddRef(d) \/ RefsDone(d)
                            \/ RemoveFinalizer(d) \/ AddFinalizer(d) \/ ReportError(d) \/ Report(d)
                            \/ CreateRedisPod(d) \/ UpsertRedisService(d) \/ UpsertMergedSecret(d)
      PROVE  versions' = versions
  BY <1>1 DEF Reconcile, ReconcileNothing, ReconcileDeleted, ReconcileNew, ReconcileInputs, Dequeue,
              DelRef, UpdateRefs, AddRef, RefsDone, RemoveFinalizer, AddFinalizer, ReportError,
              Report, CreateRedisPod, UpsertRedisService, UpsertMergedSecret
<1>2. ASSUME NEW d \in Env, \/ WatchEnv(d) \/ RequeueAfter(d) \/ DeleteEnv(d) \/ StartPod(d) \/ RestartPod(d)
                            \/ \E spec \in Specs : CreateEnv(d, spec) \/ EditSpec(d, spec)
                            \/ \E k \in Kind : \/ DeleteOutput(d, k) \/ CollectOutput(d, k)
                                               \/ WatchOutput(d, k)
      PROVE  versions' = versions
  BY <1>2 DEF WatchEnv, RequeueAfter, DeleteEnv, StartPod, RestartPod, CreateEnv, EditSpec,
              DeleteOutput, CollectOutput, ChangeOutput, WatchOutput
<1>3. ASSUME NEW s \in Secret, WatchInput(s) \/ DeleteInput(s) \/ CollectInput(s)
      PROVE  versions' = versions
  BY <1>3 DEF WatchInput, DeleteInput, CollectInput
<1>4. ASSUME NEW s \in Secret, CreateInput(s) \/ EditInput(s)
      PROVE  versions' \in {versions, versions + 1}
  BY <1>4 DEF CreateInput, EditInput
<1>5. ASSUME NEW d \in Env, UpsertRedisSecret(d)
      PROVE  versions' \in Nat /\ versions <= versions'
  <2>1. PICK p : p = RedisPassword(d)
    OBVIOUS
  <2>2. versions' = versions \/ (versions' = p /\ p > versions)
    BY <1>5, <2>1 DEF UpsertRedisSecret
  <2>3. p \in Nat
    BY <1>0, <2>1 DEF RedisPassword, EnvTyped, EnvTypeOK, Output
  <2> QED BY <1>0, <2>2, <2>3
<1>6. UNCHANGED vars \/ Crash => versions' = versions
  BY DEF vars, Crash
<1> QED BY <1>0, <1>same, <1>1, <1>2, <1>3, <1>4, <1>5, <1>6
      DEF Next, Operator, Environment, Work

\* The order of passwords is kept, and a redis Secret keeps its password.
LEMMA OrderedKept ==
  ASSUME EnvTyped, RefsKnown, [Next]_vars, NEW e \in Env, Ordered(out[e], outCache[e], versions)
  PROVE  /\ Ordered(out'[e], outCache'[e], versions')
         /\ out[e].redis = NoRedis \/ out'[e].redis \in {NoRedis, out[e].redis}
<1>a. PICK o, v, n, p, q, m : /\ o = out[e] /\ v = outCache[e] /\ n = versions
                             /\ p = out'[e] /\ q = outCache'[e] /\ m = versions'
  OBVIOUS
<1> DEFINE Goal == Ordered(p, q, m) /\ (o.redis = NoRedis \/ p.redis \in {NoRedis, o.redis})
<1> SUFFICES Goal
  BY <1>a
<1>0. /\ out \in [Env -> Output] /\ outCache \in [Env -> Output] /\ o \in Output /\ v \in Output
      /\ n \in Nat /\ m \in Nat /\ n <= m
  BY <1>a, VersionsGrow DEF EnvTyped, EnvTypeOK
<1>ok. o \in Output /\ v \in Output
  BY <1>0
<1>kinds. Kind = {"conf", "redis", "pod", "svc"} /\ NoRedis.owner = 0 /\ NoRedis.password = 0
  BY DEF Kind, NoRedis
<1>1. Ordered(o, v, n) /\ Ordered(o, v, m)
  <2>1. 1..n \subseteq 1..m /\ 0..n \subseteq 0..m
    BY <1>0
  <2> QED BY <1>a, <2>1 DEF Ordered
<1>same. p = o /\ q = v => Goal
  BY <1>1
<1> HIDE DEF Goal
<1>set. ASSUME NEW k \in Kind, NEW x, SetOutput(e, k, x)
        PROVE  p[k] = x /\ \A j \in Kind \ {k} : p[j] = o[j]
  <2>1. p = [o EXCEPT ![k] = x]
    BY <1>0, <1>a, <1>set DEF SetOutput
  <2>2. /\ [o EXCEPT ![k] = x][k] = x
        /\ \A j \in Kind \ {k} : [o EXCEPT ![k] = x][j] = o[j]
    BY <1>ok, OneOutput
  <2> QED BY <2>1, <2>2
\* An output is created, changed or deleted, but the redis Secret.
<1>other. ASSUME NEW k \in Kind \ {"redis"}, NEW x, SetOutput(e, k, x), outCache' = outCache,
                 k = "pod" => (x.ready => /\ x.password \in 0..m
                                          /\ o.redis # NoRedis => x.password <= o.redis.password)
          PROVE  Goal
  <2>1. p[k] = x /\ (\A j \in Kind \ {k} : p[j] = o[j]) /\ q = v
    BY <1>a, <1>other, <1>set
  <2>2. p["redis"] = o["redis"] /\ (p["pod"] = o["pod"] \/ (k = "pod" /\ p["pod"] = x))
    BY <1>kinds, <2>1
  <2>3. CASE p["pod"] = o["pod"]
    BY <1>1, <2>1, <2>2, <2>3 DEF Ordered, Goal
  <2>4. CASE k = "pod" /\ p["pod"] = x
    <3>1. x.ready => x.password \in 0..m /\ (o.redis # NoRedis => x.password <= o.redis.password)
      BY <1>other, <2>4
    <3> QED BY <1>1, <2>1, <2>2, <2>4, <3>1 DEF Ordered, Goal
  <2> QED BY <2>2, <2>3, <2>4
<1>upsert. ASSUME NEW k \in Kind \ {"redis"}, NEW x, NEW r, CreateOrUpdate(e, k, x, r),
                  outCache' = outCache, k = "pod" => x = outCache[e][k] \/ ~x.ready
           PROVE  Goal
  BY <1>a, <1>same, <1>other, <1>upsert DEF CreateOrUpdate
<1>2. CASE Crash
  <2>1. p = o /\ q = o
    BY <1>0, <1>2, <1>a DEF Crash
  <2> QED BY <1>1, <2>1 DEF Ordered, Goal
<1>3. CASE StartPod(e)
  <2>1. /\ SetOutput(e, "pod", [o.pod EXCEPT !.ready = TRUE, !.password = o.redis.password])
        /\ outCache' = outCache /\ o.redis.owner # 0
    BY <1>3, <1>a DEF StartPod, ChangeOutput
  <2>2. PICK x : x = [o.pod EXCEPT !.ready = TRUE, !.password = o.redis.password]
    OBVIOUS
  <2>3. x.password = o.redis.password /\ o.redis.password \in 1..m
    BY <1>0, <1>1, <1>kinds, <2>1, <2>2 DEF Output, Ordered
  <2>4. x.password \in 0..m /\ x.password <= o.redis.password
    BY <1>0, <2>3
  <2> QED BY <1>kinds, <1>other, <2>1, <2>2, <2>4
<1>4. CASE RestartPod(e)
  <2>1. /\ SetOutput(e, "pod", [o.pod EXCEPT !.ready = FALSE, !.password = 0])
        /\ outCache' = outCache
    BY <1>4, <1>a DEF RestartPod, ChangeOutput
  <2>2. PICK x : x = [o.pod EXCEPT !.ready = FALSE, !.password = 0]
    OBVIOUS
  <2>3. ~x.ready
    BY <1>0, <2>2 DEF Output
  <2> QED BY <1>kinds, <1>other, <2>1, <2>2, <2>3
\* The redis Secret is written only where there is none, with a new password.
<1>5. CASE UpsertRedisSecret(e)
  <2> DEFINE x == [owner |-> OwnerFor(e, "redis"), password |-> RedisPassword(e)]
  <2>1. PICK r \in Outcome :
          /\ CreateOrUpdate(e, "redis", x, r)
          /\ versions' = IF Applied(r) /\ RedisPassword(e) > versions THEN RedisPassword(e)
                                                                      ELSE versions
    BY <1>5 DEF UpsertRedisSecret
  <2>2. q = v /\ w[e].instance.uid # 0
    <3>1. w[e].pc # "idle" /\ outCache' = outCache
      BY <1>5 DEF UpsertRedisSecret
    <3>2. /\ w[e].base.uid # 0 /\ w[e].base \in EnvObject
          /\ w[e].instance = [w[e].base EXCEPT !.refs = w[e].instance.refs]
      BY <3>1 DEF RefsKnown, RefsOf, WorkerRefs, EnvTyped, EnvTypeOK, Worker
    <3> QED BY <1>a, <3>1, <3>2 DEF EnvObject
  <2>3. CASE p = o
    BY <1>same, <2>2, <2>3
  <2>4. CASE SetOutput(e, "redis", x) /\ o["redis"] = v["redis"] /\ x # v["redis"] /\ Applied(r)
    <3>1. o.redis = NoRedis /\ v.redis = NoRedis
      <4> SUFFICES ASSUME v.redis # NoRedis
                   PROVE  x = v["redis"]
        BY <2>4
      <4>1. v.redis.owner # 0 /\ v.redis.password # 0
        BY <1>1 DEF Ordered
      <4>2. x.owner = v.redis.owner /\ x.password = v.redis.password
        BY <1>a, <4>1 DEF OwnerFor, RedisPassword
      <4> QED BY <1>0, <4>2 DEF Output
    <3>2. RedisPassword(e) = n + 1 /\ m = n + 1
      <4>1. RedisPassword(e) = n + 1
        BY <1>a, <1>kinds, <3>1 DEF RedisPassword
      <4> QED BY <1>0, <1>a, <2>1, <2>4, <4>1
    <3>3. x.owner # 0 /\ x.password \in 1..m
      BY <1>0, <1>a, <2>2, <3>2 DEF OwnerFor
    <3>4. p["redis"] = x /\ p["pod"] = o["pod"]
      BY <1>kinds, <1>set, <2>4
    <3>5. x.password = m
      BY <3>2
    <3> HIDE DEF x
    <3>6. o.pod.ready => o.pod.password \in 0..m /\ o.pod.password <= x.password
      BY <1>0, <1>1, <3>5 DEF Ordered
    <3> QED BY <2>2, <3>1, <3>3, <3>4, <3>6 DEF Ordered, Goal
  <2>5. p = o \/ (/\ SetOutput(e, "redis", x) /\ o["redis"] = v["redis"]
                  /\ x # v["redis"] /\ Applied(r))
    <3> HIDE DEF x
    <3> QED BY <1>a, <2>1 DEF CreateOrUpdate, Respond, Applied
  <2> QED BY <2>3, <2>4, <2>5
<1>6. CASE CreateRedisPod(e)
  <2>1. PICK x, r : /\ CreateOrUpdate(e, "pod", x, r) /\ outCache' = outCache
                    /\ x = outCache[e].pod \/ x = [NoPod EXCEPT !.owner = w[e].instance.uid]
    BY <1>6 DEF CreateRedisPod
  <2>2. x = outCache[e]["pod"] \/ ~x.ready
    BY <2>1 DEF NoPod
  <2> QED BY <1>kinds, <1>upsert, <2>1, <2>2
<1>7. CASE UpsertRedisService(e) \/ UpsertMergedSecret(e)
  <2>1. outCache' = outCache /\ \E k \in {"svc", "conf"} : \E x, r : CreateOrUpdate(e, k, x, r)
    BY <1>7 DEF UpsertRedisService, UpsertMergedSecret
  <2> QED BY <1>kinds, <1>upsert, <2>1
<1>8. ASSUME NEW k \in Kind, WatchOutput(e, k)
      PROVE  Goal
  <2>1. p = o /\ q = [v EXCEPT ![k] = o[k]]
    BY <1>0, <1>a, <1>8 DEF WatchOutput
  <2>2. q[k] = o[k] /\ \A j \in Kind \ {k} : q[j] = v[j]
    <3>1. /\ [v EXCEPT ![k] = o[k]][k] = o[k]
          /\ \A j \in Kind \ {k} : [v EXCEPT ![k] = o[k]][j] = v[j]
      BY <1>ok, OneOutput
    <3> QED BY <2>1, <3>1
  <2>3. q["redis"] = o["redis"] \/ q["redis"] = v["redis"]
    BY <1>kinds, <2>2
  <2> QED BY <1>1, <2>1, <2>3 DEF Ordered, Goal
\* What is deleted is not there.
<1>gone. ASSUME NEW k \in Kind, SetOutput(e, k, Nothing[k]), outCache' = outCache
         PROVE  Goal
  <2>1. CASE k = "redis"
    <3>1. p["redis"] = NoRedis /\ p["pod"] = o["pod"] /\ q = v
      BY <1>a, <1>gone, <1>kinds, <1>set, <2>1 DEF Nothing
    <3> QED BY <1>1, <3>1 DEF Ordered, Goal
  <2>2. CASE k # "redis"
    <3>1. k = "pod" => ~Nothing[k].ready
      BY DEF Nothing, NoPod
    <3> QED BY <1>gone, <1>other, <2>2, <3>1
  <2> QED BY <2>1, <2>2
<1>9. ASSUME NEW k \in Kind, DeleteOutput(e, k) \/ CollectOutput(e, k)
      PROVE  Goal
  BY <1>9, <1>gone DEF DeleteOutput, CollectOutput, ChangeOutput
<1>10. out'[e] = out[e] /\ outCache'[e] = outCache[e] => Goal
  BY <1>a, <1>same
<1> QED BY <1>2, <1>3, <1>4, <1>5, <1>6, <1>7, <1>8, <1>9, <1>10, OutputSteps

\* Reconcile starts with the cached version.
LEMMA ReconcileLoads ==
  ASSUME EnvTyped, NEW e \in Env, Reconcile(e)
  PROVE  /\ w[e].pc = "idle" /\ e \notin queue'
         /\ UNCHANGED <<env, envCache, out, outCache, notify, changed>>
         /\ \/ w' = w /\ (envCache[e].uid = 0 \/ envCache[e].deleting)
            \/ /\ envCache[e].uid # 0 /\ w'[e].instance = envCache[e]
               /\ \/ w'[e].pc \in {"delRefs", "addFinalizer"}
                  \/ w'[e].pc = "report" /\ w'[e].cond # Ready
<1>c. PICK c, z : c = envCache[e] /\ z = w'[e]
  OBVIOUS
<1>0. w \in [Env -> Worker] /\ Idle \in Worker
  BY ConstantTypes DEF EnvTyped, EnvTypeOK
<1>1. /\ w[e].pc = "idle" /\ e \notin queue'
      /\ UNCHANGED <<env, envCache, out, outCache, notify, changed>>
  BY DEF Reconcile, ReconcileNothing, ReconcileDeleted, ReconcileNew, ReconcileInputs, Dequeue
<1>2. CASE ReconcileNothing(e)
  BY <1>1, <1>2 DEF ReconcileNothing
<1>3. CASE ReconcileDeleted(e)
  <2>1. c.uid # 0 /\ Load(e, [Idle EXCEPT !.pc = "delRefs", !.todo = c.refs])
    BY <1>3, <1>c DEF ReconcileDeleted
  <2>2. z.instance = c /\ z.pc = "delRefs"
    BY <1>0, <1>c, <2>1 DEF Load, Worker
  <2> QED BY <1>1, <1>c, <2>1, <2>2
<1>4. CASE ReconcileNew(e)
  <2>1. c.uid # 0 /\ Load(e, [Idle EXCEPT !.pc = "addFinalizer"])
    BY <1>4, <1>c DEF ReconcileNew
  <2>2. z.instance = c /\ z.pc = "addFinalizer"
    BY <1>0, <1>c, <2>1 DEF Load, Worker
  <2> QED BY <1>1, <1>c, <2>1, <2>2
<1>5. CASE ReconcileInputs(e)
  <2>1. c.uid # 0
    BY <1>5, <1>c DEF ReconcileInputs
  <2>2. \/ \E names, inputs : Load(e, [Idle EXCEPT !.pc = "delRefs", !.refs = names,
                                           !.todo = c.refs, !.inputs = inputs])
        \/ \E s : Load(e, [Idle EXCEPT !.pc = "report", !.cond = <<"MissingSecret", s>>])
    BY <1>5, <1>c DEF ReconcileInputs
  <2>3. \A names, inputs : Load(e, [Idle EXCEPT !.pc = "delRefs", !.refs = names,
                                        !.todo = c.refs, !.inputs = inputs])
          => z.instance = c /\ z.pc = "delRefs"
    BY <1>0, <1>c DEF Load, Worker
  <2>4. ASSUME NEW s, Load(e, [Idle EXCEPT !.pc = "report", !.cond = <<"MissingSecret", s>>])
        PROVE  z.instance = c /\ z.pc = "report" /\ z.cond # Ready
    <3>1. z.instance = c /\ z.pc = "report" /\ z.cond = <<"MissingSecret", s>>
      BY <1>0, <1>c, <2>4 DEF Load, Worker
    <3> QED BY <3>1 DEF Ready
  <2> QED BY <1>1, <1>c, <2>1, <2>2, <2>3, <2>4
<1> QED BY <1>2, <1>3, <1>4, <1>5 DEF Reconcile

\* Reconcile works on an ImageBuildEnv that exists, or has existed.
LEMMA WorkUid ==
  ASSUME EnvTyped, RefsKnown, NEW e \in Env, Work(e)
  PROVE  /\ w[e].pc # "idle" /\ w[e].instance.uid # 0
         /\ envCache' = envCache /\ outCache' = outCache
<1>1. w[e].pc # "idle" /\ envCache' = envCache /\ outCache' = outCache
  BY DEF Work, DelRef, UpdateRefs, AddRef, RefsDone, RemoveFinalizer, AddFinalizer, ReportError,
         Report, UpsertRedisSecret, CreateRedisPod, UpsertRedisService, UpsertMergedSecret
<1>2. /\ w[e].base.uid # 0 /\ w[e].base \in EnvObject
      /\ w[e].instance = [w[e].base EXCEPT !.refs = w[e].instance.refs]
  BY <1>1 DEF RefsKnown, RefsOf, WorkerRefs, EnvTyped, EnvTypeOK, Worker
<1> QED BY <1>1, <1>2 DEF EnvObject

\* The cache of the outputs of e changes with a request for e.
LEMMA DueStays ==
  ASSUME EnvTyped, [Next]_vars, ~Crash, NEW e \in Env, e \notin queue'
  PROVE  outCache'[e] = outCache[e] /\ (Due(e) => Due(e)')
<1>1. CASE Aside(e)
  BY <1>1 DEF Aside, Due
<1>2. ASSUME NEW s \in Secret, WatchInput(s)
      PROVE  outCache'[e] = outCache[e] /\ (Due(e) => Due(e)')
  <2>1. e \notin notify[s]
    BY <1>2 DEF WatchInput, OwnersToNotify
  <2>2. UNCHANGED <<outCache, changed>> /\ \A t \in Secret \ {s} : notify'[t] = notify[t]
    BY <1>2 DEF WatchInput, EnvTyped, EnvTypeOK
  <2> QED BY <2>1, <2>2 DEF Due
<1>3. \A k \in Kind : ~WatchOutput(e, k)
  BY DEF WatchOutput, OutputRequests
<1> QED BY <1>1, <1>2, <1>3, CacheSteps

\* Outputs are provided.
LEMMA ServingKept ==
  ASSUME EnvTyped, RefsKnown, NothingUnmerged, [Next]_vars, NEW e \in Env, Serving(e)
  PROVE  Serving(e)'
<1>0. /\ env \in [Env -> EnvObject] /\ envCache \in [Env -> EnvObject] /\ w \in [Env -> Worker]
      /\ changed \in [Env -> SUBSET Kind] /\ outCache \in [Env -> Output]
  BY DEF EnvTyped, EnvTypeOK
<1>1. CASE Crash
  <2>1. w'[e] = Idle /\ (env'[e].uid # 0 => e \in queue')
    BY <1>1 DEF Crash
  <2> QED BY <2>1, ConstantTypes DEF Serving
<1>2. CASE e \in queue'
  BY <1>2 DEF Serving
<1> SUFFICES ASSUME ~Crash, e \notin queue'
             PROVE  Serving(e)'
  BY <1>1, <1>2
<1>a. PICK x, c, z, y : x = w[e] /\ c = envCache[e] /\ z = w'[e] /\ y = env[e]
  OBVIOUS
<1>3. e \in queue => Reconcile(e)
  BY QueueSteps
<1>stays. /\ \A K : Provided(e, K) => Provided(e, K)'
          /\ Knows(e, x) => Knows(e, x)'
  BY DueStays DEF Provided, Knows
<1>busy. ASSUME e \notin queue, z = x, z.pc # "idle", z.instance.spec.redis
         PROVE  Provided(e, ProvidedBy(w[e]))' /\ Knows(e, w[e])'
  <2>1. Provided(e, ProvidedBy(x)) /\ Knows(e, x)
    BY <1>a, <1>busy DEF Serving
  <2>2. Provided(e, ProvidedBy(x))' /\ Knows(e, x)'
    BY <1>stays, <2>1
  <2> QED BY <1>a, <1>busy, <2>2
<1>none. ASSUME ProvidedBy(z) = {}, ~HasPassword(z)
         PROVE  Provided(e, ProvidedBy(w[e]))' /\ Knows(e, w[e])'
  <2>1. Provided(e, {})' /\ Knows(e, z)'
    BY <1>none DEF Provided, Knows
  <2>2. ProvidedBy(w[e])' = {}
    BY <1>a, <1>none
  <2> QED BY <1>a, <2>1, <2>2
<1>4. CASE env'[e] = env[e] /\ envCache'[e] = envCache[e] /\ w'[e] = w[e]
  <2>1. CASE Reconcile(e)
    <3>1. envCache[e].uid = 0 \/ envCache[e].deleting \/ w'[e].pc # "idle"
      BY <2>1, ReconcileLoads
    <3>2. w[e].pc = "idle"
      BY <2>1, ReconcileLoads
    <3> QED BY <1>4, <3>1, <3>2 DEF Serving
  <2>2. CASE ~Reconcile(e)
    <3>1. e \notin queue
      BY <1>3, <2>2
    <3>2. w[e].pc = "idle" /\ env[e] = envCache[e] /\ env[e].uid # 0 /\ ~env[e].deleting
            /\ env[e].ready = Ready /\ env[e].spec.redis => Provided(e, Everything)'
      <4>1. Provided(e, Everything) => Provided(e, Everything)'
        BY <1>stays
      <4> QED BY <3>1, <4>1 DEF Serving
    <3>3. z.pc # "idle" /\ z.instance.spec.redis
            => Provided(e, ProvidedBy(w[e]))' /\ Knows(e, w[e])'
      BY <1>4, <1>a, <1>busy, <3>1
    <3> QED BY <1>4, <1>a, <3>2, <3>3 DEF Serving
  <2> QED BY <2>1, <2>2
<1>5. CASE Reconcile(e)
  <2>1. /\ w[e].pc = "idle" /\ env' = env /\ envCache' = envCache
        /\ \/ w' = w
           \/ z.pc \in {"delRefs", "addFinalizer"} \/ (z.pc = "report" /\ z.cond # Ready)
    BY <1>5, <1>a, ReconcileLoads
  <2>2. CASE w' = w
    BY <1>4, <2>1, <2>2
  <2>3. CASE z.pc \in {"delRefs", "addFinalizer"} \/ (z.pc = "report" /\ z.cond # Ready)
    <3>1. ProvidedBy(z) = {} /\ z.pc # "idle" /\ ~HasPassword(z)
      BY <2>3 DEF ProvidedBy, HasPassword
    <3> QED BY <1>a, <1>none, <3>1 DEF Serving
  <2> QED BY <2>1, <2>2, <2>3
<1>6. CASE WatchEnv(e)
  BY <1>6 DEF WatchEnv
<1>7. ASSUME w' = w, env'[e] # y,
             \/ env'[e].uid = 0 \/ env'[e].deleting \/ env'[e].ready # Ready
             \/ env'[e] # envCache'[e]
      PROVE  Serving(e)'
  <2>1. CASE Reconcile(e)
    BY <1>5, <2>1
  <2>2. CASE ~Reconcile(e)
    <3>1. z.pc # "idle" /\ z.instance.spec.redis
            => Provided(e, ProvidedBy(w[e]))' /\ Knows(e, w[e])'
      BY <1>3, <1>7, <1>a, <1>busy, <2>2
    <3> QED BY <1>7, <1>a, <3>1 DEF Serving
  <2> QED BY <2>1, <2>2
<1>8. CASE DeleteEnv(e)
  <2>1. /\ w' = w /\ ~y.deleting /\ y.uid # 0
        /\ env'[e] = NoEnv \/ env'[e] = [y EXCEPT !.deleting = TRUE]
    BY <1>0, <1>8, <1>a DEF DeleteEnv
  <2>2. [y EXCEPT !.deleting = TRUE].deleting
    BY <1>0, <1>a DEF EnvObject
  <2> QED BY <1>7, <2>1, <2>2, ConstantTypes
<1>9. ASSUME NEW spec \in Specs, CreateEnv(e, spec) \/ EditSpec(e, spec)
      PROVE  Serving(e)'
  <2>1. /\ w' = w /\ envCache' = envCache
        /\ env'[e].ready # Ready \/ env'[e] # envCache[e]
    BY <1>9, UsersUnready
  <2> QED BY <1>4, <1>7, <1>a, <2>1
<1>10. CASE Work(e)
  <2>0. /\ envCache' = envCache /\ outCache' = outCache /\ x \in Worker /\ c \in EnvObject
        /\ x.pc # "idle" /\ x.instance.uid # 0 /\ x.instance \in EnvObject
    BY <1>0, <1>10, <1>a, WorkUid DEF Worker
  <2>1. Moves(e, x, z)
    BY <1>10, <1>a, WorkMoves
  <2>2. e \notin queue
    BY <1>3, <1>a, <2>0, ReconcileLoads
  <2>3. x.instance = [c EXCEPT !.refs = x.instance.refs]
        /\ (x.pc = "addFinalizer" => ~x.instance.finalizer)
    BY <1>a, <2>0, <2>2 DEF NothingUnmerged, AtIt, Working
  <2>4. /\ x.instance.uid = c.uid /\ x.instance.spec = c.spec /\ x.instance.ready = c.ready
        /\ x.instance.finalizer = c.finalizer
    BY <2>0, <2>3 DEF EnvObject
  <2>5. x.instance.spec.redis => Provided(e, ProvidedBy(x))' /\ Knows(e, x)'
    BY <1>a, <1>stays, <2>0, <2>2 DEF Serving
  <2>upserted. ASSUME NEW k \in Kind, NEW v, CreateOrUpdate(e, k, v, "ok")
               PROVE  v = outCache[e][k] \/ Due(e)'
    <3>1. SetOutput(e, k, v) => k \in changed'[e]
      BY <1>0 DEF SetOutput
    <3> QED BY <2>upserted, <3>1 DEF CreateOrUpdate, Applied, Due
  <2>kinds. Kind = {"conf", "redis", "pod", "svc"}
    BY DEF Kind
  <2>6. CASE z = Idle /\ Returns(e, x)
    <3> SUFFICES ASSUME env'[e] = c, c.ready = Ready, c.spec.redis
                 PROVE  Provided(e, Everything)'
      BY <1>a, <2>0, <2>6, ConstantTypes DEF Serving
    <3>1. ~UpdateEnv(e, NoEnv, "ok")
      BY <1>0, <2>0, <2>4, ConstantTypes DEF UpdateEnv, Applied
    <3>2. ~(x.pc = "addFinalizer" /\ UpdateEnv(e, [x.instance EXCEPT !.finalizer = TRUE], "ok"))
      <4>1. [x.instance EXCEPT !.finalizer = TRUE].finalizer
        BY <2>0 DEF EnvObject
      <4> QED BY <1>0, <2>3, <2>4, <4>1 DEF UpdateEnv, Applied
    <3>3. x.pc = "report" /\ updateStatus(e, "ok")
      BY <2>6, <3>1, <3>2 DEF Returns
    <3>4. x.cond = Ready
      <4> SUFFICES ASSUME x.instance.ready # x.cond
                   PROVE  FALSE
        BY <2>4
      <4>1. env'[e] = [x.instance EXCEPT !.ready = x.cond]
        BY <1>0, <1>a, <3>3 DEF updateStatus, UpdateEnv, Applied
      <4>2. env'[e].ready = x.cond
        BY <2>0, <4>1 DEF EnvObject
      <4> QED BY <2>4, <4>2
    <3>5. ProvidedBy(x) = Everything
      BY <3>3, <3>4 DEF ProvidedBy
    <3>6. Provided(e, ProvidedBy(x))'
      BY <2>4, <2>5
    <3> QED BY <3>5, <3>6
  <2>goes. ASSUME z.pc # "idle",
                  z.instance.spec.redis => Provided(e, ProvidedBy(z))' /\ Knows(e, z)'
           PROVE  Serving(e)'
    <3>1. z.instance.spec.redis => Provided(e, ProvidedBy(w[e]))' /\ Knows(e, w[e])'
      BY <1>a, <2>goes
    <3> QED BY <1>a, <2>goes, <3>1 DEF Serving
\* What is known already remains so when Reconcile goes on with the password.
  <2>known. ASSUME x.instance.spec.redis, HasPassword(x), z.password = x.password
            PROVE  Knows(e, z)'
    BY <2>5, <2>known DEF Knows
  <2>7. CASE \/ z.pc \in {"delRefs", "addRefs", "removeFinalizer", "redis", "reportError"}
             \/ z.pc = "conf" /\ ~z.instance.spec.redis
             \/ z.pc = "report" /\ z.cond # Ready
    <3>1. z.pc # "idle" /\ (z.instance.spec.redis => ProvidedBy(z) = {} /\ ~HasPassword(z))
      BY <2>7 DEF ProvidedBy, HasPassword
    <3>2. Provided(e, {})' /\ (~HasPassword(z) => Knows(e, z)')
      BY DEF Provided, Knows
    <3> QED BY <2>goes, <3>1, <3>2
  <2>8. CASE /\ z.pc = "pod" /\ z.password = RedisPassword(e)
             /\ CreateOrUpdate(e, "redis", [owner |-> OwnerFor(e, "redis"),
                                            password |-> z.password], "ok")
    <3>1. PICK v : /\ v = [owner |-> OwnerFor(e, "redis"), password |-> z.password]
                   /\ CreateOrUpdate(e, "redis", v, "ok")
      BY <2>8
    <3>2. v.owner # 0 /\ v.password = z.password
      BY <1>a, <2>0, <3>1 DEF OwnerFor
    <3>3. Due(e)' \/ (outCache'[e]["redis"].owner # 0 /\ z.password = outCache'[e].redis.password)
      BY <2>0, <2>kinds, <2>upserted, <3>1, <3>2
    <3>4. Provided(e, {"redis"})' /\ Knows(e, z)'
      BY <3>3 DEF Provided, Knows
    <3>5. ProvidedBy(z) = {"redis"}
      BY <2>8 DEF ProvidedBy
    <3> QED BY <2>8, <2>goes, <3>4, <3>5
  <2>9. CASE /\ x.pc = "pod" /\ z.pc = "svc" /\ z.instance.spec = x.instance.spec
             /\ z.password = x.password /\ (z.ready => outCache[e].pod.ready)
             /\ CreateOrUpdate(e, "pod", IF outCache[e].pod.owner # 0 THEN outCache[e].pod
                                         ELSE [NoPod EXCEPT !.owner = x.instance.uid], "ok")
    <3>1. PICK v : /\ v = IF outCache[e].pod.owner # 0 THEN outCache[e].pod
                          ELSE [NoPod EXCEPT !.owner = x.instance.uid]
                   /\ CreateOrUpdate(e, "pod", v, "ok")
      BY <2>9
    <3>2. v.owner # 0
      BY <2>0, <3>1 DEF NoPod
    <3>3. Due(e)' \/ (outCache'[e]["pod"].owner # 0 /\ (z.ready => outCache'[e].pod.ready))
      BY <2>0, <2>9, <2>kinds, <2>upserted, <3>1, <3>2
    <3>4. z.instance.spec.redis => Provided(e, {"redis"})'
      <4>1. ProvidedBy(x) = {"redis"}
        BY <2>9 DEF ProvidedBy
      <4> QED BY <2>5, <2>9, <4>1
    <3>5. z.instance.spec.redis => Provided(e, ProvidedBy(z))'
      <4>1. ProvidedBy(z) = {"redis", "pod"} \cup (IF z.ready THEN {"ready"} ELSE {})
        BY <2>9 DEF ProvidedBy
      <4> QED BY <3>3, <3>4, <4>1 DEF Provided
    <3>6. z.instance.spec.redis => Knows(e, z)'
      BY <2>9, <2>known DEF HasPassword
    <3> QED BY <2>9, <2>goes, <3>5, <3>6
  <2>10. CASE /\ x.pc = "svc" /\ z.pc = "conf" /\ z.instance.spec = x.instance.spec
              /\ z.password = x.password /\ x.ready
              /\ CreateOrUpdate(e, "svc", [owner |-> x.instance.uid], "ok")
    <3>1. outCache'[e]["svc"].owner # 0 \/ Due(e)'
      <4>1. [owner |-> x.instance.uid].owner # 0
        BY <2>0
      <4> QED BY <2>0, <2>kinds, <2>upserted, <2>10, <4>1
    <3>2. z.instance.spec.redis => Provided(e, {"redis", "pod", "ready"})'
      <4>1. ProvidedBy(x) = {"redis", "pod", "ready"}
        BY <2>10 DEF ProvidedBy
      <4> QED BY <2>5, <2>10, <4>1
    <3>3. z.instance.spec.redis => Provided(e, {"redis", "pod", "ready", "svc"})'
      BY <3>1, <3>2 DEF Provided
    <3>4. ProvidedBy(z) = {"redis", "pod", "ready", "svc"}
      BY <2>10 DEF ProvidedBy
    <3>5. z.instance.spec.redis => Knows(e, z)'
      BY <2>10, <2>known DEF HasPassword
    <3> QED BY <2>10, <2>goes, <3>3, <3>4, <3>5
  <2>11. CASE /\ x.pc = "conf" /\ z.pc = "report" /\ z.instance.spec = x.instance.spec
              /\ \E v : v.password = x.password /\ CreateOrUpdate(e, "conf", v, "ok")
    <3>1. PICK v : v.password = x.password /\ CreateOrUpdate(e, "conf", v, "ok")
      BY <2>11
    <3>2. x.instance.spec.redis => Due(e)' \/ x.password = outCache'[e].redis.password
      BY <2>5, <2>11 DEF Knows, HasPassword
    <3>3. x.instance.spec.redis
            => Due(e)' \/ outCache'[e].conf.password = outCache'[e].redis.password
      <4>1. v = outCache[e]["conf"] \/ Due(e)'
        BY <2>kinds, <2>upserted, <3>1
      <4> QED BY <2>0, <3>1, <3>2, <4>1
    <3>4. x.instance.spec.redis => Provided(e, {"redis", "pod", "ready", "svc"})'
      <4>1. ProvidedBy(x) = {"redis", "pod", "ready", "svc"}
        BY <2>11 DEF ProvidedBy
      <4> QED BY <2>5, <4>1
    <3>5. x.instance.spec.redis => Provided(e, Everything)' /\ Provided(e, {})'
      BY <3>3, <3>4 DEF Provided, Everything
    <3>6. ProvidedBy(z) \in {Everything, {}} /\ ~HasPassword(z)
      BY <2>11 DEF ProvidedBy, HasPassword
    <3>7. Knows(e, z)'
      BY <3>6 DEF Knows
    <3> QED BY <2>11, <2>goes, <3>5, <3>6, <3>7
  <2> QED BY <2>1, <2>6, <2>7, <2>8, <2>9, <2>10, <2>11 DEF Moves
<1> QED BY <1>4, <1>5, <1>6, <1>8, <1>9, <1>10, StepsOf

AllOrdered == \A e \in Env : Ordered(out[e], outCache[e], versions)

\* At first there are no passwords, and nothing to provide.
LEMMA ServingFirst == Init => AllOrdered /\ \A e \in Env : Serving(e)
<1> SUFFICES ASSUME Init
             PROVE  AllOrdered /\ \A e \in Env : Serving(e)
  OBVIOUS
<1>1. ASSUME NEW e \in Env
      PROVE  /\ env[e] = NoEnv /\ out[e] = Nothing /\ outCache[e] = Nothing /\ w[e] = Idle
  BY DEF Init
<1>2. \A n : Ordered(Nothing, Nothing, n)
  BY DEF Ordered, Nothing, NoPod
<1>3. NoEnv.uid = 0 /\ Idle.pc = "idle"
  BY DEF NoEnv, Idle
<1> QED BY <1>1, <1>2, <1>3 DEF AllOrdered, Serving

\* The password of a redis Secret stays as long as the Secret, whichever calls
\* fail, however stale the caches are and whenever the operator crashes.
THEOREM RedisPasswordStays == EnvSpec => RedisPasswordKept
<1> DEFINE Kept == \A e \in Env : out[e].redis.owner # 0 /\ out'[e].redis.owner # 0 =>
                     out'[e].redis.password = out[e].redis.password
<1>1. Init => AllOrdered
  BY ServingFirst
<1>2. EnvTyped /\ RefsKnown /\ AllOrdered /\ [Next]_vars => AllOrdered'
  BY OrderedKept DEF AllOrdered
<1>3. EnvTyped /\ RefsKnown /\ AllOrdered /\ [Next]_vars => [Kept]_vars
  <2> SUFFICES ASSUME EnvTyped, RefsKnown, AllOrdered, [Next]_vars, NEW e \in Env,
                      out[e].redis.owner # 0, out'[e].redis.owner # 0
               PROVE  out'[e].redis.password = out[e].redis.password
    OBVIOUS
  <2>1. out[e].redis = NoRedis \/ out'[e].redis \in {NoRedis, out[e].redis}
    BY OrderedKept DEF AllOrdered
  <2> QED BY <2>1 DEF NoRedis
<1> QED BY <1>1, <1>2, <1>3, AlwaysKnown, PTL DEF EnvSpec, RedisPasswordKept

\* When the operator is done with an ImageBuildEnv with redis, the redis Secret,
\* the Service and a ready pod are there, the output Secret has the password of the
\* redis Secret, and redis runs with that password or one that an earlier redis
\* Secret had, whichever calls fail, however stale the caches are, whenever the
\* operator crashes and whatever is deleted meanwhile.
THEOREM RedisIsUsable == EnvSpec => []RedisUsable
<1> DEFINE Serves == AllOrdered /\ \A e \in Env : Serving(e)
<1>1. Init => NothingUnmerged /\ Serves
  BY UnmergedFirst, ServingFirst
<1>2. EnvTyped /\ RefsKnown /\ NothingUnmerged /\ Serves /\ [Next]_vars
        => (NothingUnmerged /\ Serves)'
  BY UnmergedKept, OrderedKept, ServingKept DEF AllOrdered
<1>3. NothingUnmerged /\ Serves => RedisUsable
  <2> SUFFICES ASSUME NothingUnmerged, Serves, NEW e \in Env, Done(e), env[e].spec.redis
               PROVE  /\ out[e].pod.owner # 0 /\ out[e].svc.owner # 0 /\ out[e].redis.owner # 0
                      /\ out[e].conf.password = out[e].redis.password
                      /\ out[e].pod.ready /\ out[e].pod.password <= out[e].redis.password
    BY DEF RedisUsable
  <2>1. /\ env[e].uid # 0 /\ ~env[e].deleting /\ env[e].ready = Ready /\ w[e].pc = "idle"
        /\ e \notin queue /\ envCache[e] = env[e] /\ changed[e] = {}
        /\ \A s \in Secret : notify[s] = {}
    BY DEF Done, Settled
  <2>2. ~Due(e) /\ \A k \in Kind : outCache[e][k] = out[e][k]
    BY <2>1 DEF Due, NothingUnmerged, OutputsCached
  <2>3. Provided(e, Everything)
    BY <2>1 DEF Serving
  <2>4. /\ outCache[e]["pod"].owner # 0 /\ outCache[e]["svc"].owner # 0
        /\ outCache[e]["redis"].owner # 0 /\ outCache[e].pod.ready
        /\ outCache[e].conf.password = outCache[e].redis.password
    BY <2>2, <2>3 DEF Provided, Everything
  <2>5. /\ out[e].pod.owner # 0 /\ out[e].svc.owner # 0 /\ out[e].redis.owner # 0
        /\ out[e].pod.ready /\ out[e].conf.password = out[e].redis.password
    BY <2>2, <2>4 DEF Kind
  <2>6. out[e].redis # NoRedis
    BY <2>5 DEF NoRedis
  <2> QED BY <2>5, <2>6 DEF AllOrdered, Ordered
<1> QED BY <1>1, <1>2, <1>3, AlwaysKnown, PTL DEF EnvSpec

=============================================================================
