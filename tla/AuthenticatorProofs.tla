------------------------- MODULE AuthenticatorProofs -------------------------
(***************************************************************************)
(* Proofs about Authenticator, for all sets of users and threads, all      *)
(* times and all bounds.                                                   *)
(***************************************************************************)
EXTENDS Authenticator, SequenceTheorems, TLAPS

USE DEF controllerVars, authVars

-----------------------------------------------------------------------------
(* Types.                                                                  *)

AccountObject == [password: 0..MaxAccounts, age: AccountAge]

\* What does not exist and an idle thread are well-typed.
LEMMA ConstantTypes ==
  /\ None \in Entry /\ None \in AccountObject
  /\ Idle \in Local /\ Idle.pc = "idle" /\ Idle.copy = [u \in User |-> None]
  /\ Idle.answer = "none" /\ Idle.elapsed = 0 /\ Idle.found = None
<1>1. None \in Entry /\ None \in AccountObject
  BY TimeAssumption, AuthAssumption
  DEF None, Entry, EntryAge, AccountObject, AccountAge
<1>2. (CHOOSE u \in User : TRUE) \in User
  BY AuthAssumption
<1>3. [u \in User |-> None] \in [User -> Entry]
  BY <1>1
<1>4. 0 \in 0..MaxAccounts /\ 0 \in 0..MaxDelay
  BY TimeAssumption, AuthAssumption
<1> QED BY <1>1, <1>2, <1>3, <1>4 DEF Idle, Local

\* A thread's variables stay well-typed when it looks something up, ...
LEMMA FoundType ==
  ASSUME NEW x \in Local, NEW y \in Entry
  PROVE  /\ [x EXCEPT !.pc = "match", !.found = y] \in Local
         /\ [x EXCEPT !.pc = "stamp", !.found = y] \in Local
         /\ [x EXCEPT !.pc = "get"] \in Local
<1>1. [x EXCEPT !.pc = "match", !.found = y] \in Local
  BY DEF Local
<1>2. [x EXCEPT !.pc = "stamp", !.found = y] \in Local
  BY DEF Local
<1>3. [x EXCEPT !.pc = "get"] \in Local
  BY DEF Local
<1> QED BY <1>1, <1>2, <1>3

\* ... when it stamps what it found ...
LEMMA StampType ==
  ASSUME NEW x \in Local
  PROVE  LET y == [x EXCEPT !.pc = "lock", !.found.age = 0] IN
         /\ y \in Local /\ y.pc = "lock" /\ y.password = x.password
         /\ y.found.password = x.found.password /\ y.found.age = 0
         /\ y.elapsed = x.elapsed /\ y.answer = x.answer
<1>1. [x.found EXCEPT !.age = 0] \in Entry
  BY TimeAssumption DEF Local, Entry, EntryAge
<1>2. /\ [x.found EXCEPT !.age = 0].password = x.found.password
      /\ [x.found EXCEPT !.age = 0].age = 0
  BY DEF Local, Entry
<1> QED BY <1>1, <1>2 DEF Local

\* ... when it copies the map ...
LEMMA CopyType ==
  ASSUME NEW x \in Local, NEW m \in [User -> Entry]
  PROVE  LET y == [x EXCEPT !.pc = "store", !.copy = m] IN
         /\ y \in Local /\ y.pc = "store" /\ y.copy = m /\ y.password = x.password
         /\ y.found = x.found /\ y.elapsed = x.elapsed /\ y.answer = x.answer
BY DEF Local

\* ... and forgets the copy ...
LEMMA ForgetType ==
  ASSUME NEW x \in Local, NEW m \in [User -> Entry]
  PROVE  LET y == [x EXCEPT !.pc = "match", !.copy = m] IN
         /\ y \in Local /\ y.pc = "match" /\ y.copy = m /\ y.password = x.password
         /\ y.found = x.found /\ y.elapsed = x.elapsed /\ y.answer = x.answer
BY DEF Local

\* ... or answers.
LEMMA AnswerType ==
  ASSUME NEW x \in Local, NEW a \in {"accepted", "denied", "error"}
  PROVE  [x EXCEPT !.pc = "done", !.answer = a, !.found = None] \in Local
BY ConstantTypes DEF Local

\* A new request is well-typed.
LEMMA RequestType ==
  ASSUME NEW u \in User, NEW p \in 0..MaxAccounts, NEW b \in BOOLEAN,
         NEW s \in {"done", "find"}, NEW a \in {"none", "denied"}
  PROVE  [Idle EXCEPT !.pc = s, !.answer = a, !.user = u, !.password = p, !.valid = b]
           \in Local
BY ConstantTypes DEF Local

\* Ages stay within their bounds, and what does not exist has no age.
LEMMA OlderType ==
  ASSUME NEW max \in Nat \ {0}, NEW n \in Nat, NEW x \in [password: 0..n, age: 0..max]
  PROVE  /\ Older(x, max) \in [password: 0..n, age: 0..max]
         /\ Older(x, max).password = x.password
         /\ x # None => /\ Older(x, max).age = Smaller(x.age + 1, max)
                        /\ Older(x, max) # None
<1>1. CASE x = None
  BY <1>1 DEF Older
<1>2. CASE x # None
  BY <1>2 DEF Older, Smaller, None
<1> QED BY <1>1, <1>2

\* The same for entries of the map ...
LEMMA OlderEntry ==
  ASSUME NEW x \in Entry
  PROVE  /\ Older(x, Lifetime + 1) \in Entry
         /\ Older(x, Lifetime + 1).password = x.password
         /\ x # None => /\ Older(x, Lifetime + 1).age = Smaller(x.age + 1, Lifetime + 1)
                        /\ Older(x, Lifetime + 1) # None
BY OlderType, TimeAssumption, AuthAssumption DEF Entry, EntryAge

\* ... and for accounts in the API server.
LEMMA OlderAccount ==
  ASSUME NEW x \in AccountObject
  PROVE  /\ Older(x, TTL + 1) \in AccountObject
         /\ Older(x, TTL + 1).password = x.password
         /\ x = None => Older(x, TTL + 1) = None
<1>1. Older(x, TTL + 1) \in AccountObject /\ Older(x, TTL + 1).password = x.password
  BY OlderType, TimeAssumption, AuthAssumption DEF AccountObject, AccountAge
<1> QED BY <1>1 DEF Older

\* What a Tick does to a thread.
LEMMA OlderThreadType ==
  ASSUME NEW x \in Local, x.pc # "idle" => x.elapsed < MaxDelay
  PROVE  /\ OlderThread(x) \in Local
         /\ OlderThread(x).pc = x.pc /\ OlderThread(x).answer = x.answer
         /\ OlderThread(x).password = x.password
         /\ x.pc # "idle" =>
              /\ OlderThread(x).elapsed = x.elapsed + 1
              /\ OlderThread(x).found = Older(x.found, Lifetime + 1)
              /\ \A u \in User : OlderThread(x).copy[u] = Older(x.copy[u], Lifetime + 1)
<1>1. CASE x.pc = "idle"
  BY <1>1 DEF OlderThread
<1>2. CASE x.pc # "idle"
  <2> DEFINE f == Older(x.found, Lifetime + 1)
             m == [u \in User |-> Older(x.copy[u], Lifetime + 1)]
             n == x.elapsed + 1
  <2>1. x.found \in Entry /\ x.copy \in [User -> Entry] /\ x.elapsed \in 0..MaxDelay
    BY DEF Local
  <2>2. f \in Entry /\ m \in [User -> Entry]
    BY <2>1, OlderEntry
  <2>3. n \in 0..MaxDelay
    BY <2>1, <1>2, TimeAssumption
  <2>4. OlderThread(x) = [x EXCEPT !.elapsed = n, !.found = f, !.copy = m]
    BY <1>2 DEF OlderThread
  <2> HIDE DEF f, m, n
  <2>5. /\ OlderThread(x) \in Local
        /\ OlderThread(x).pc = x.pc /\ OlderThread(x).answer = x.answer
        /\ OlderThread(x).password = x.password
        /\ OlderThread(x).elapsed = n /\ OlderThread(x).found = f
        /\ OlderThread(x).copy = m
    BY <2>2, <2>3, <2>4 DEF Local
  <2> QED BY <2>5 DEF f, m, n
<1> QED BY <1>1, <1>2
-----------------------------------------------------------------------------
\* Every step keeps the types, and that only the holder of the lock is about to
\* store a map.
LEMMA TypesKept ==
  ASSUME AuthTypeOK, [Next]_vars
  PROVE  AuthTypeOK'
<1> USE DEF AccountObject
<1>0. /\ account \in [User -> AccountObject] /\ informer \in [User -> AccountObject]
      /\ queue \subseteq User /\ delay \in [User -> 0..Never]
      /\ cache \in [User -> Entry]
      /\ lock \in Thread \cup {"free"} /\ th \in [Thread -> Local]
      /\ \A t \in Thread : th[t].pc = "store" <=> lock = t
      /\ made \in Seq(User) /\ Len(made) \in 0..MaxAccounts
      /\ gone \in [Password -> 0..(Window + 1)] /\ faults \in Nat
  <2>1. Len(made) \in Nat
    BY LenProperties DEF AuthTypeOK
  <2> QED BY <2>1, AuthAssumption DEF AuthTypeOK
<1> USE DEF AuthTypeOK
<1>times. /\ TTL \in Nat \ {0} /\ Slack \in Nat \ {0} /\ Lifetime \in Nat /\ MaxDelay \in Nat
          /\ MaxAccounts \in Nat /\ Never \in Nat /\ Window \in Nat
  BY TimeAssumption, AuthAssumption DEF Never, Window
<1>none. None \in Entry /\ None \in AccountObject
  BY ConstantTypes
\* A step of one thread other than one that takes or gives back the lock.
<1>th. ASSUME NEW t \in Thread, NEW x \in Local, Goto(t, x), lock' = lock,
              th[t].pc # "store", x.pc # "store"
       PROVE  /\ th' \in [Thread -> Local]
              /\ \A s \in Thread : th'[s].pc = "store" <=> lock' = s
  BY <1>0, <1>th DEF Goto
<1>inv. ASSUME NEW u \in User, Invalidate(u)
        PROVE  /\ th' \in [Thread -> Local]
               /\ \A t \in Thread : th'[t].pc = th[t].pc
  <2>1. \A x \in Local : /\ [x EXCEPT !.valid = FALSE] \in Local
                         /\ [x EXCEPT !.valid = FALSE].pc = x.pc
    BY DEF Local
  <2> QED BY <1>0, <1>inv, <2>1 DEF Invalidate
<1>1. ASSUME NEW u \in User, CreateAccount(u)
      PROVE  AuthTypeOK'
  <2>1. made' \in Seq(User) /\ Len(made') = Len(made) + 1 /\ Len(made') <= MaxAccounts
    BY <1>0, <1>1, <1>times, AppendProperties DEF CreateAccount
  <2>2. [password |-> Len(made) + 1, age |-> 0] \in AccountObject
    BY <1>0, <2>1, <1>times, <1>1 DEF AccountAge, CreateAccount
  <2> QED BY <1>0, <1>1, <2>1, <2>2 DEF CreateAccount
<1>2. ASSUME NEW u \in User, DeleteAccount(u)
      PROVE  AuthTypeOK'
  BY <1>0, <1>2, <1>inv, <1>none DEF DeleteAccount
<1>3. ASSUME NEW u \in User, Watch(u)
      PROVE  AuthTypeOK'
  BY <1>0, <1>3 DEF Watch
<1>4. ASSUME NEW u \in User, ReconcileAlive(u)
      PROVE  AuthTypeOK'
  <2>1. CASE informer[u] = None \/ u \in Permanent
    BY <1>0, <1>4, <2>1 DEF ReconcileAlive
  <2>2. CASE informer[u] # None /\ u \notin Permanent
    <3>1. informer[u].age \in 0..(TTL + 1) /\ ~(informer[u].age > TTL)
      BY <1>0, <1>4, <2>2 DEF ReconcileAlive, Expired, AccountAge
    <3>2. TTL - informer[u].age + Slack \in 0..Never
      BY <3>1, <1>times DEF Never
    <3>3. Smaller(delay[u], TTL - informer[u].age + Slack) \in 0..Never
      BY <3>2, <1>0 DEF Smaller
    <3> QED BY <1>0, <1>4, <2>2, <3>3 DEF ReconcileAlive
  <2> QED BY <2>1, <2>2
<1>5. ASSUME NEW u \in User, ReconcileExpired(u)
      PROVE  AuthTypeOK'
  <2>1. PICK o \in Outcome :
          /\ Outage(o)
          /\ IF Applied(o) THEN account' = [account EXCEPT ![u] = None] /\ Invalidate(u)
                           ELSE UNCHANGED <<account, th>>
          /\ queue' = IF Failed(o) THEN queue ELSE queue \ {u}
    BY <1>5 DEF ReconcileExpired
  <2>2. faults' \in Nat
    BY <1>0, <2>1 DEF Outage
  <2>3. /\ account' \in [User -> AccountObject] /\ th' \in [Thread -> Local]
        /\ \A t \in Thread : th'[t].pc = th[t].pc
    BY <1>0, <2>1, <1>inv, <1>none
  <2>4. queue' \subseteq User
    BY <1>0, <2>1
  <2> QED BY <1>0, <1>5, <2>2, <2>3, <2>4 DEF ReconcileExpired
<1>6. ASSUME NEW u \in User, RequeueAfter(u)
      PROVE  AuthTypeOK'
  <2>1. Never \in 0..Never
    BY <1>times
  <2> QED BY <1>0, <1>6, <2>1 DEF RequeueAfter
<1>7. ASSUME NEW t \in Thread, NEW u \in User, NEW p \in 0..Len(made), Request(t, u, p)
      PROVE  AuthTypeOK'
  <2> DEFINE s == IF p = 0 THEN "done" ELSE "find"
             a == IF p = 0 THEN "denied" ELSE "none"
             b == p # 0 /\ account[u].password = p
             x == [Idle EXCEPT !.pc = s, !.answer = a, !.user = u, !.password = p, !.valid = b]
  <2>1. p \in 0..MaxAccounts
    BY <1>0, <1>times
  <2>2. s \in {"done", "find"} /\ a \in {"none", "denied"} /\ b \in BOOLEAN
    OBVIOUS
  <2>3. x \in Local
    BY <2>1, <2>2, RequestType
  <2>4. x.pc = s
    BY ConstantTypes DEF Local
  <2>5. Goto(t, x) /\ th[t].pc = "idle"
    BY <1>7 DEF Request
  <2> HIDE DEF x, s, a, b
  <2>6. x.pc # "store" /\ lock' = lock
    BY <2>2, <2>4, <1>7 DEF Request
  <2> QED BY <1>0, <1>7, <1>th, <2>3, <2>5, <2>6 DEF Request
<1>8. ASSUME NEW t \in Thread, FindCached(t)
      PROVE  AuthTypeOK'
  <2> DEFINE x == IF cache[th[t].user] # None /\ ~CacheExpired(cache[th[t].user])
                  THEN [th[t] EXCEPT !.pc = "match", !.found = cache[th[t].user]]
                  ELSE [th[t] EXCEPT !.pc = "get"]
  <2>1. th[t] \in Local /\ cache[th[t].user] \in Entry
    BY <1>0 DEF Local
  <2>2. x \in Local
    BY <2>1, FoundType
  <2>3. x.pc \in {"match", "get"}
    BY <2>1 DEF Local
  <2>4. Goto(t, x) /\ th[t].pc = "find"
    BY <1>8 DEF FindCached
  <2> HIDE DEF x
  <2> QED BY <1>0, <1>8, <1>th, <2>2, <2>3, <2>4 DEF FindCached
<1>9. ASSUME NEW t \in Thread, Get(t)
      PROVE  AuthTypeOK'
  <2> DEFINE y == [password |-> account[th[t].user].password, age |-> 0]
             z == [th[t] EXCEPT !.pc = "stamp", !.found = y]
  <2>1. th[t] \in Local /\ account[th[t].user] \in AccountObject
    BY <1>0 DEF Local
  <2>2. y \in Entry
    BY <2>1, <1>times DEF Entry, EntryAge
  <2>3. z \in Local /\ z.pc = "stamp"
    BY <2>1, <2>2, FoundType DEF Local
  <2>4. \A a \in {"error", "denied"} :
          LET q == [th[t] EXCEPT !.pc = "done", !.answer = a, !.found = None]
          IN  q \in Local /\ q.pc = "done"
    BY <2>1, AnswerType DEF Local
  <2>5. /\ th[t].pc = "get" /\ faults' \in Nat
        /\ Answer(t, "error") \/ Answer(t, "denied") \/ Goto(t, z)
    BY <1>0, <1>9 DEF Get, Outage
  <2>6. \E q \in Local : Goto(t, q) /\ q.pc # "store"
    <3> HIDE DEF z
    <3> QED BY <2>3, <2>4, <2>5 DEF Answer
  <2>7. lock' = lock
    BY <1>9 DEF Get
  <2>8. /\ th' \in [Thread -> Local]
        /\ \A s \in Thread : th'[s].pc = "store" <=> lock' = s
    BY <2>5, <2>6, <2>7, <1>th
  <2> QED BY <1>0, <1>9, <2>5, <2>8 DEF Get
<1>10. ASSUME NEW t \in Thread, Stamp(t)
       PROVE  AuthTypeOK'
  <2> DEFINE x == [th[t] EXCEPT !.pc = "lock", !.found.age = 0]
  <2>1. x \in Local /\ x.pc = "lock"
    BY <1>0, StampType
  <2>2. Goto(t, x) /\ th[t].pc = "stamp"
    BY <1>10 DEF Stamp
  <2> HIDE DEF x
  <2> QED BY <1>0, <1>10, <1>th, <2>1, <2>2 DEF Stamp
<1>11. ASSUME NEW t \in Thread, CopyCache(t)
       PROVE  AuthTypeOK'
  <2> DEFINE m == [u \in User |-> IF CacheExpired(cache[u]) THEN None ELSE cache[u]]
             x == [th[t] EXCEPT !.pc = "store", !.copy = m]
  <2>1. m \in [User -> Entry]
    BY <1>0, <1>none
  <2>2. x \in Local /\ x.pc = "store"
    <3>1. th[t] \in Local
      BY <1>0
    <3> HIDE DEF m
    <3> QED BY <3>1, <2>1, CopyType, Zenon
  <2>3. Goto(t, x) /\ lock = "free" /\ lock' = t
    BY <1>11 DEF CopyCache, LockFree
  <2> HIDE DEF x
  <2>4. /\ th' \in [Thread -> Local]
        /\ \A s \in Thread : th'[s].pc = "store" <=> lock' = s
    BY <1>0, <2>2, <2>3, AuthAssumption DEF Goto
  <2> QED BY <1>0, <1>11, <2>3, <2>4 DEF CopyCache
<1>12. ASSUME NEW t \in Thread, StoreCache(t)
       PROVE  AuthTypeOK'
  <2> DEFINE x == [th[t] EXCEPT !.pc = "match", !.copy = Idle.copy]
  <2>1. th[t] \in Local /\ th[t].copy \in [User -> Entry] /\ th[t].found \in Entry
    BY <1>0 DEF Local
  <2>2. x \in Local /\ x.pc = "match"
    <3>1. PICK m \in [User -> Entry] : m = Idle.copy
      BY ConstantTypes
    <3>2. /\ [th[t] EXCEPT !.pc = "match", !.copy = m] \in Local
          /\ [th[t] EXCEPT !.pc = "match", !.copy = m].pc = "match"
      <4>1. th[t] \in Local
        BY <2>1
      <4>2. m \in [User -> Entry]
        BY <3>1
      <4> QED BY <4>1, <4>2, ForgetType, Zenon
    <3> QED BY <3>1, <3>2, Zenon
  <2>3. Goto(t, x) /\ th[t].pc = "store" /\ lock' = "free"
    BY <1>12 DEF StoreCache, Unlocked
  <2> HIDE DEF x
  <2>4. /\ th' \in [Thread -> Local]
        /\ \A s \in Thread : th'[s].pc = "store" <=> lock' = s
    BY <1>0, <2>2, <2>3, AuthAssumption DEF Goto
  <2>5. cache' \in [User -> Entry]
    BY <1>12, <2>1 DEF StoreCache
  <2> QED BY <1>0, <1>12, <2>3, <2>4, <2>5 DEF StoreCache
<1>13. ASSUME NEW t \in Thread, Match(t)
       PROVE  AuthTypeOK'
  <2> DEFINE a == IF th[t].found.password = th[t].password THEN "accepted" ELSE "denied"
             x == [th[t] EXCEPT !.pc = "done", !.answer = a, !.found = None]
  <2>1. x \in Local /\ x.pc = "done"
    BY <1>0, AnswerType DEF Local
  <2>2. Goto(t, x) /\ th[t].pc = "match"
    BY <1>13 DEF Match, Answer
  <2> HIDE DEF x
  <2> QED BY <1>0, <1>13, <1>th, <2>1, <2>2 DEF Match
<1>14. ASSUME NEW t \in Thread, Respond(t)
       PROVE  AuthTypeOK'
  BY <1>0, <1>14, <1>th, ConstantTypes DEF Respond
<1>15. ASSUME Tick
       PROVE  AuthTypeOK'
  <2>1. account' \in [User -> AccountObject] /\ informer' \in [User -> AccountObject]
    BY <1>0, <1>15, OlderAccount DEF Tick
  <2>2. delay' \in [User -> 0..Never]
    <3>1. ASSUME NEW d \in 0..Never
          PROVE  (IF d \in {0, Never} THEN d ELSE d - 1) \in 0..Never
      BY <1>times
    <3> QED BY <1>0, <1>15, <3>1 DEF Tick
  <2>3. cache' \in [User -> Entry]
    BY <1>0, <1>15, OlderEntry DEF Tick
  <2>4. th' \in [Thread -> Local] /\ \A t \in Thread : th'[t].pc = th[t].pc
    BY <1>0, <1>15, OlderThreadType DEF Tick
  <2>5. gone' \in [Password -> 0..(Window + 1)]
    <3>1. ASSUME NEW g \in 0..(Window + 1)
          PROVE  Smaller(g + 1, Window + 1) \in 0..(Window + 1)
      BY <1>times DEF Smaller
    <3> QED BY <1>0, <1>15, <3>1 DEF Tick
  <2> QED BY <1>0, <1>15, <2>1, <2>2, <2>3, <2>4, <2>5 DEF Tick
<1>16. CASE UNCHANGED vars
  BY <1>0, <1>16 DEF vars
<1> QED
  BY <1>1, <1>2, <1>3, <1>4, <1>5, <1>6, <1>7, <1>8, <1>9, <1>10, <1>11, <1>12, <1>13,
     <1>14, <1>15, <1>16 DEF Next, Controller, Handle

\* The initial state is well-typed.
LEMMA InitTypes == Init => AuthTypeOK
<1> SUFFICES ASSUME Init
             PROVE  AuthTypeOK
  OBVIOUS
<1>1. /\ MaxAccounts \in Nat /\ Never \in Nat /\ Window \in Nat
      /\ 0 \in 0..(Window + 1) /\ Never \in 0..Never
  BY TimeAssumption, AuthAssumption DEF Never, Window
<1>2. <<>> \in Seq(User) /\ Len(<<>>) = 0
  OBVIOUS
<1> QED BY <1>1, <1>2, ConstantTypes, AuthAssumption DEF Init, AuthTypeOK, AccountObject

\* Every reachable state is well-typed, and only the holder of the lock is about
\* to store a map (addToCache).
THEOREM AuthTypeCorrect == Spec => []AuthTypeOK
<1>1. AuthTypeOK /\ [Next]_vars => AuthTypeOK'
  BY TypesKept
<1> QED BY <1>1, InitTypes, PTL DEF Spec

-----------------------------------------------------------------------------
(* Revocation.  A deleted account is accepted for a limited time because    *)
(* every copy of it has an age that grows as fast as the time since it has  *)
(* been deleted (g, what gone is now or will be).                          *)

\* An entry that has not expired was valid at most MaxDelay before LastSeen.
Recent(g, y) == y.password # 0 /\ y.age <= Lifetime => g[y.password] <= y.age + MaxDelay

\* The copy m of the map c lacks none of the entries that have not expired.
Kept(c, m) == \A u \in User : c[u] # None /\ ~CacheExpired(c[u]) => m[u] # None

\* What a thread knows at each step.
ThreadTimely(x, g, c) ==
  /\ x.pc \in {"find", "get", "stamp", "lock", "store", "match"} => x.password # 0
  /\ x.pc \in {"stamp", "lock", "store"} =>
       x.found.password # 0 /\ g[x.found.password] <= x.elapsed
  /\ x.pc \in {"lock", "store"} => Recent(g, x.found)
  /\ x.pc = "store" => Kept(c, x.copy) /\ \A u \in User : Recent(g, x.copy[u])
  /\ x.pc = "match" =>
       (x.found.password # 0 => g[x.found.password] <= Lifetime + MaxDelay + x.elapsed)
  /\ x.answer = "accepted" =>
       /\ x.pc # "idle" /\ x.password # 0
       /\ g[x.password] <= Lifetime + MaxDelay + x.elapsed

\* What the API server and the map have.
StoreTimely ==
  /\ \A u \in User : Recent(gone, cache[u])
  /\ \A u \in User : account[u] # None => account[u].password # 0
  /\ \A u \in User : account[u].password # 0 => gone[account[u].password] = 0
  /\ \A p \in Password : p > Len(made) => gone[p] = 0

Timely ==
  AuthTypeOK /\ StoreTimely /\ \A t \in Thread : ThreadTimely(th[t], gone, cache)

\* Entries stay recent while time passes.
LEMMA RecentLater ==
  ASSUME NEW g \in [Password -> Nat], NEW h \in [Password -> Nat], NEW y \in Entry,
         \A p \in Password : h[p] <= g[p] + 1, Recent(g, y)
  PROVE  Recent(h, Older(y, Lifetime + 1))
<1> DEFINE z == Older(y, Lifetime + 1)
<1>0. y.password \in 0..MaxAccounts /\ y.age \in 0..(Lifetime + 1) /\ Lifetime \in Nat
      /\ MaxDelay \in Nat
  BY TimeAssumption DEF Entry, EntryAge
<1>1. CASE y = None
  <2>1. z.password = 0
    BY <1>1 DEF Older, None
  <2> QED BY <2>1 DEF Recent
<1>2. CASE y # None
  <2>1. z.password = y.password /\ z.age = Smaller(y.age + 1, Lifetime + 1)
    BY <1>2, OlderEntry
  <2> HIDE DEF z
  <2>2. SUFFICES ASSUME z.password # 0, z.age <= Lifetime
                 PROVE  h[z.password] <= z.age + MaxDelay
    BY DEF Recent, z
  <2>3. z.age = y.age + 1 /\ y.age <= Lifetime
    BY <2>1, <2>2, <1>0 DEF Smaller
  <2>4. y.password \in Password
    BY <2>1, <2>2, <1>0, AuthAssumption DEF Password
  <2>5. g[y.password] <= y.age + MaxDelay
    BY <2>1, <2>2, <2>3 DEF Recent
  <2>6. h[y.password] <= g[y.password] + 1 /\ g[y.password] \in Nat /\ h[y.password] \in Nat
    BY <2>4
  <2> QED BY <1>0, <2>1, <2>3, <2>5, <2>6
<1> QED BY <1>1, <1>2

\* A map that is up to date stays so while time passes.
LEMMA KeptLater ==
  ASSUME NEW c \in [User -> Entry], NEW m \in [User -> Entry], Kept(c, m),
         NEW d, \A u \in User : d[u] = Older(c[u], Lifetime + 1),
         NEW n, \A u \in User : n[u] = Older(m[u], Lifetime + 1)
  PROVE  Kept(d, n)
<1> SUFFICES ASSUME NEW u \in User, d[u] # None, ~CacheExpired(d[u])
             PROVE  n[u] # None
  BY DEF Kept
<1>1. c[u] # None
  BY DEF Older
<1>2. d[u].age = Smaller(c[u].age + 1, Lifetime + 1)
  BY <1>1, OlderEntry
<1>3. c[u].age \in 0..(Lifetime + 1) /\ Lifetime \in Nat
  BY TimeAssumption DEF Entry, EntryAge
<1>4. ~CacheExpired(c[u])
  BY <1>2, <1>3 DEF CacheExpired, Smaller
<1>5. m[u] # None
  BY <1>1, <1>4 DEF Kept
<1> QED BY <1>5, OlderEntry

\* So does what a thread knows.
LEMMA ThreadLater ==
  ASSUME NEW g \in [Password -> Nat], NEW h \in [Password -> Nat],
         \A p \in Password : h[p] <= g[p] + 1,
         NEW c \in [User -> Entry], NEW d, \A u \in User : d[u] = Older(c[u], Lifetime + 1),
         NEW x \in Local, x.pc # "idle" => x.elapsed < MaxDelay, ThreadTimely(x, g, c)
  PROVE  ThreadTimely(OlderThread(x), h, d)
<1> DEFINE y == OlderThread(x)
<1>0. /\ y.pc = x.pc /\ y.answer = x.answer /\ y.password = x.password
      /\ x.pc # "idle" => /\ y.elapsed = x.elapsed + 1
                          /\ y.found = Older(x.found, Lifetime + 1)
                          /\ \A u \in User : y.copy[u] = Older(x.copy[u], Lifetime + 1)
  BY OlderThreadType
<1>1. /\ x.found \in Entry /\ x.copy \in [User -> Entry] /\ x.elapsed \in Nat
      /\ x.password \in 0..MaxAccounts /\ x.found.password \in 0..MaxAccounts
      /\ MaxAccounts \in Nat /\ Lifetime \in Nat /\ MaxDelay \in Nat
  BY TimeAssumption, AuthAssumption DEF Local, Entry
<1>2. Older(x.found, Lifetime + 1).password = x.found.password
  BY <1>1, OlderEntry
<1>3. \A p \in 0..MaxAccounts : p # 0 =>
         p \in Password /\ h[p] <= g[p] + 1 /\ g[p] \in Nat /\ h[p] \in Nat
  BY <1>1 DEF Password
<1> HIDE DEF y
<1>4. y.pc \in {"find", "get", "stamp", "lock", "store", "match"} => y.password # 0
  BY <1>0 DEF ThreadTimely
<1>5. y.pc \in {"stamp", "lock", "store"} =>
        y.found.password # 0 /\ h[y.found.password] <= y.elapsed
  <2> SUFFICES ASSUME y.pc \in {"stamp", "lock", "store"}
               PROVE  y.found.password # 0 /\ h[y.found.password] <= y.elapsed
    OBVIOUS
  <2>1. x.found.password # 0 /\ g[x.found.password] <= x.elapsed
    BY <1>0 DEF ThreadTimely
  <2> QED BY <1>0, <1>1, <1>2, <1>3, <2>1
<1>6. y.pc \in {"lock", "store"} => Recent(h, y.found)
  BY <1>0, <1>1, RecentLater DEF ThreadTimely
<1>7. y.pc = "store" => Kept(d, y.copy) /\ \A u \in User : Recent(h, y.copy[u])
  <2> SUFFICES ASSUME y.pc = "store"
               PROVE  Kept(d, y.copy) /\ \A u \in User : Recent(h, y.copy[u])
    OBVIOUS
  <2>1. Kept(c, x.copy) /\ \A u \in User : Recent(g, x.copy[u])
    BY <1>0 DEF ThreadTimely
  <2>2. \A u \in User : y.copy[u] = Older(x.copy[u], Lifetime + 1)
    BY <1>0
  <2>3. Kept(d, y.copy)
    BY <1>1, <2>1, <2>2, KeptLater
  <2>4. ASSUME NEW u \in User
        PROVE  Recent(h, y.copy[u])
    <3>1. x.copy[u] \in Entry /\ Recent(g, x.copy[u])
      BY <1>1, <2>1
    <3>2. Recent(h, Older(x.copy[u], Lifetime + 1))
      BY <3>1, RecentLater
    <3> QED BY <2>2, <3>2
  <2> QED BY <2>3, <2>4
<1>8. y.pc = "match" =>
       (y.found.password # 0 => h[y.found.password] <= Lifetime + MaxDelay + y.elapsed)
  <2> SUFFICES ASSUME y.pc = "match", y.found.password # 0
               PROVE  h[y.found.password] <= Lifetime + MaxDelay + y.elapsed
    OBVIOUS
  <2>1. y.found.password = x.found.password /\ y.elapsed = x.elapsed + 1
    BY <1>0, <1>2
  <2>2. g[x.found.password] <= Lifetime + MaxDelay + x.elapsed
    BY <1>0, <2>1 DEF ThreadTimely
  <2> QED BY <1>1, <1>3, <2>1, <2>2
<1>9. y.answer = "accepted" =>
       /\ y.pc # "idle" /\ y.password # 0
       /\ h[y.password] <= Lifetime + MaxDelay + y.elapsed
  <2> SUFFICES ASSUME y.answer = "accepted"
               PROVE  /\ y.pc # "idle" /\ y.password # 0
                      /\ h[y.password] <= Lifetime + MaxDelay + y.elapsed
    OBVIOUS
  <2>1. x.pc # "idle" /\ x.password # 0 /\ g[x.password] <= Lifetime + MaxDelay + x.elapsed
    BY <1>0 DEF ThreadTimely
  <2> QED BY <1>0, <1>1, <1>3, <2>1
<1>10. ThreadTimely(y, h, d)
  BY <1>4, <1>5, <1>6, <1>7, <1>8, <1>9 DEF ThreadTimely
<1> QED BY <1>10 DEF y

\* Every step keeps Timely.
LEMMA TimelyKept ==
  ASSUME Timely, [Next]_vars
  PROVE  Timely'
<1>0. /\ account \in [User -> AccountObject] /\ cache \in [User -> Entry]
      /\ th \in [Thread -> Local] /\ \A t \in Thread : th[t].pc = "store" <=> lock = t
      /\ Len(made) \in 0..MaxAccounts /\ gone \in [Password -> 0..(Window + 1)]
  <2>1. made \in Seq(User) /\ Len(made) <= MaxAccounts
    BY DEF Timely, AuthTypeOK
  <2>2. Len(made) \in Nat
    BY <2>1, LenProperties
  <2> QED BY <2>1, <2>2, AuthAssumption DEF Timely, AuthTypeOK, AccountObject
<1>times. /\ Lifetime \in Nat /\ MaxDelay \in Nat /\ MaxAccounts \in Nat /\ Window \in Nat
  BY TimeAssumption, AuthAssumption DEF Window
<1>gone. \A p \in 0..MaxAccounts : p # 0 => p \in Password /\ gone[p] \in Nat
  BY <1>0, <1>times DEF Password
<1>types. AuthTypeOK'
  BY TypesKept DEF Timely
<1>store. /\ \A u \in User : Recent(gone, cache[u])
          /\ \A u \in User : account[u] # None => account[u].password # 0
          /\ \A u \in User : account[u].password # 0 => gone[account[u].password] = 0
          /\ \A p \in Password : p > Len(made) => gone[p] = 0
  BY DEF Timely, StoreTimely
<1>threads. \A t \in Thread : th[t] \in Local /\ ThreadTimely(th[t], gone, cache)
  BY <1>0 DEF Timely
\* Most steps change one thread, and nothing it or another one relies on.
<1>th. ASSUME NEW t \in Thread, NEW x, Goto(t, x), ThreadTimely(x, gone, cache),
              UNCHANGED <<account, cache, made, gone>>
       PROVE  Timely'
  <2>1. StoreTimely'
    BY <1>store, <1>th DEF StoreTimely
  <2>2. ASSUME NEW s \in Thread
        PROVE  ThreadTimely(th'[s], gone', cache')
    <3>1. th'[s] = IF s = t THEN x ELSE th[s]
      BY <1>0, <1>th DEF Goto
    <3> QED BY <3>1, <1>th, <1>threads
  <2> QED BY <1>types, <2>1, <2>2 DEF Timely
\* The facts about a thread do not depend on its history variable.
<1>inv. ASSUME NEW u \in User, Invalidate(u) \/ UNCHANGED th, UNCHANGED <<cache, gone>>
        PROVE  \A t \in Thread : ThreadTimely(th'[t], gone', cache')
  <2>1. ASSUME NEW x \in Local, ThreadTimely(x, gone, cache)
        PROVE  ThreadTimely([x EXCEPT !.valid = FALSE], gone, cache)
    <3> DEFINE y == [x EXCEPT !.valid = FALSE]
    <3>1. /\ y.pc = x.pc /\ y.password = x.password /\ y.found = x.found
          /\ y.copy = x.copy /\ y.elapsed = x.elapsed /\ y.answer = x.answer
      BY DEF Local
    <3> HIDE DEF y
    <3>2. ThreadTimely(y, gone, cache)
      BY <2>1, <3>1 DEF ThreadTimely
    <3> QED BY <3>2 DEF y
  <2>2. CASE UNCHANGED th
    BY <1>inv, <1>threads, <2>2
  <2>3. CASE Invalidate(u)
    <3> SUFFICES ASSUME NEW t \in Thread
                 PROVE  ThreadTimely(th'[t], gone, cache)
      BY <1>inv
    <3>1. th'[t] = IF th[t].user = u THEN [th[t] EXCEPT !.valid = FALSE] ELSE th[t]
      BY <2>3 DEF Invalidate
    <3>2. ThreadTimely([th[t] EXCEPT !.valid = FALSE], gone, cache)
      BY <1>threads, <2>1
    <3> QED BY <3>1, <3>2, <1>threads
  <2> QED BY <1>inv, <2>2, <2>3
\* Accounts that are deleted are no longer of interest.
<1>del. ASSUME NEW u \in User, account' = [account EXCEPT ![u] = None] \/ UNCHANGED account,
               UNCHANGED <<cache, made, gone>>
        PROVE  StoreTimely'
  <2>1. ASSUME NEW v \in User
        PROVE  account'[v] \in {account[v], None}
    BY <1>0, <1>del
  <2>2. None.password = 0
    BY DEF None
  <2>3. /\ \A v \in User : account'[v] # None => account'[v].password # 0
        /\ \A v \in User : account'[v].password # 0 => gone[account'[v].password] = 0
    BY <1>store, <2>1, <2>2
  <2> QED BY <1>store, <1>del, <2>3 DEF StoreTimely
\* Steps of the account controller that change nothing here.
<1>idle. ASSUME UNCHANGED <<account, cache, th, made, gone>>
         PROVE  Timely'
  BY <1>idle, <1>types, <1>store, <1>threads DEF Timely, StoreTimely
<1>1. ASSUME NEW u \in User, CreateAccount(u)
      PROVE  Timely'
  <2>1. /\ account' = [account EXCEPT ![u] = [password |-> Len(made) + 1, age |-> 0]]
        /\ Len(made') = Len(made) + 1 /\ Len(made) + 1 \in Password
        /\ UNCHANGED <<cache, th, gone>>
    <3>1. made \in Seq(User) /\ made' = Append(made, u) /\ Len(made) < MaxAccounts
      BY <1>1 DEF CreateAccount, Timely, AuthTypeOK
    <3> QED BY <1>0, <1>1, <1>times, <3>1, AppendProperties DEF CreateAccount, Password
  <2>2. \A p \in Password : p > Len(made) + 1 => p > Len(made)
    BY <1>0 DEF Password
  <2>3. gone[Len(made) + 1] = 0
    BY <1>0, <1>store, <2>1
  <2>4. ASSUME NEW v \in User
        PROVE  /\ account'[v] # None => account'[v].password # 0
               /\ account'[v].password # 0 => gone[account'[v].password] = 0
    <3>1. CASE v = u
      BY <1>0, <2>1, <2>3, <3>1
    <3>2. CASE v # u
      BY <1>0, <1>store, <2>1, <3>2
    <3> QED BY <3>1, <3>2
  <2>5. StoreTimely'
    BY <1>store, <2>1, <2>2, <2>4 DEF StoreTimely
  <2> QED BY <1>types, <1>threads, <2>1, <2>5 DEF Timely
<1>2. ASSUME NEW u \in User, DeleteAccount(u)
      PROVE  Timely'
  BY <1>2, <1>types, <1>inv, <1>del DEF DeleteAccount, Timely
<1>3. ASSUME NEW u \in User, Watch(u) \/ ReconcileAlive(u) \/ RequeueAfter(u)
      PROVE  Timely'
  BY <1>3, <1>idle DEF Watch, ReconcileAlive, RequeueAfter
<1>4. ASSUME NEW u \in User, ReconcileExpired(u)
      PROVE  Timely'
  <2>1. /\ account' = [account EXCEPT ![u] = None] \/ UNCHANGED account
        /\ Invalidate(u) \/ UNCHANGED th
        /\ UNCHANGED <<cache, made, gone>>
    BY <1>4 DEF ReconcileExpired
  <2>2. StoreTimely'
    BY <2>1, <1>del
  <2>3. \A t \in Thread : ThreadTimely(th'[t], gone', cache')
    BY <2>1, <1>inv
  <2> QED BY <1>types, <2>2, <2>3 DEF Timely
<1>5. ASSUME NEW t \in Thread, NEW u \in User, NEW p \in 0..Len(made), Request(t, u, p)
      PROVE  Timely'
  <2> DEFINE x == [Idle EXCEPT !.pc = IF p = 0 THEN "done" ELSE "find",
                               !.answer = IF p = 0 THEN "denied" ELSE "none",
                               !.user = u, !.password = p,
                               !.valid = p # 0 /\ account[u].password = p]
  <2>1. /\ x.pc = (IF p = 0 THEN "done" ELSE "find") /\ x.password = p
        /\ x.answer = (IF p = 0 THEN "denied" ELSE "none")
    BY ConstantTypes DEF Local
  <2>2. Goto(t, x) /\ UNCHANGED <<account, cache, made, gone>>
    BY <1>5 DEF Request
  <2> HIDE DEF x
  <2>3. ThreadTimely(x, gone, cache)
    BY <2>1 DEF ThreadTimely
  <2> QED BY <1>th, <2>2, <2>3
<1>6. ASSUME NEW t \in Thread, FindCached(t)
      PROVE  Timely'
  <2> DEFINE y == cache[th[t].user]
             m == [th[t] EXCEPT !.pc = "match", !.found = y]
             n == [th[t] EXCEPT !.pc = "get"]
  <2>1. y \in Entry /\ Recent(gone, y) /\ th[t] \in Local /\ th[t].pc = "find"
    BY <1>0, <1>6, <1>store DEF Local, FindCached
  <2>2. /\ UNCHANGED <<account, cache, made, gone>>
        /\ (Goto(t, m) /\ ~CacheExpired(y)) \/ Goto(t, n)
    BY <1>6 DEF FindCached
  <2>3. /\ m.pc = "match" /\ m.found = y /\ m.password = th[t].password
        /\ m.elapsed = th[t].elapsed /\ m.answer = th[t].answer
        /\ n.pc = "get" /\ n.password = th[t].password
        /\ n.elapsed = th[t].elapsed /\ n.answer = th[t].answer
    BY <2>1 DEF Local
  <2>4. th[t].elapsed \in Nat /\ y.age \in Nat /\ y.password \in 0..MaxAccounts
    BY <2>1, <1>times DEF Local, Entry, EntryAge
  <2>5. ThreadTimely(th[t], gone, cache)
    BY <1>threads
  <2> HIDE DEF m, n, y
  <2>6. CASE Goto(t, m) /\ ~CacheExpired(y)
    <3>1. y.password # 0 => gone[y.password] <= Lifetime + MaxDelay + th[t].elapsed
      <4> SUFFICES ASSUME y.password # 0
                   PROVE  gone[y.password] <= Lifetime + MaxDelay + th[t].elapsed
        OBVIOUS
      <4>1. y.age <= Lifetime
        BY <2>6, <2>4, <1>times DEF CacheExpired
      <4>2. gone[y.password] <= y.age + MaxDelay /\ gone[y.password] \in Nat
        BY <4>1, <2>1, <2>4, <1>gone DEF Recent
      <4> QED BY <4>1, <4>2, <2>4, <1>times
    <3>2. ThreadTimely(m, gone, cache)
      BY <2>1, <2>3, <2>5, <3>1 DEF ThreadTimely
    <3> QED BY <1>th, <2>2, <2>6, <3>2
  <2>7. CASE Goto(t, n)
    <3>1. ThreadTimely(n, gone, cache)
      BY <2>1, <2>3, <2>5 DEF ThreadTimely
    <3> QED BY <1>th, <2>2, <2>7, <3>1
  <2> QED BY <2>2, <2>6, <2>7
<1>7. ASSUME NEW t \in Thread, Get(t)
      PROVE  Timely'
  <2> DEFINE a == account[th[t].user]
             y == [password |-> a.password, age |-> 0]
             z == [th[t] EXCEPT !.pc = "stamp", !.found = y]
             q(r) == [th[t] EXCEPT !.pc = "done", !.answer = r, !.found = None]
  <2>1. /\ th[t] \in Local /\ th[t].pc = "get" /\ a \in AccountObject
        /\ th[t].elapsed \in Nat
        /\ a # None => a.password # 0 /\ gone[a.password] = 0
    BY <1>0, <1>7, <1>store, <1>times DEF Local, Get
  <2>2. /\ UNCHANGED <<account, cache, made, gone>>
        /\ Goto(t, q("error")) \/ Goto(t, q("denied")) \/ (a # None /\ Goto(t, z))
    BY <1>7 DEF Get, Answer
  <2>3. /\ z.pc = "stamp" /\ z.found = y /\ z.password = th[t].password
        /\ z.elapsed = th[t].elapsed /\ z.answer = th[t].answer
    BY <2>1 DEF Local
  <2>4. ASSUME NEW r \in {"error", "denied"}
        PROVE  ThreadTimely(q(r), gone, cache)
    <3>1. q(r).pc = "done" /\ q(r).answer = r
      BY <2>1 DEF Local
    <3> HIDE DEF q
    <3> QED BY <3>1 DEF ThreadTimely
  <2>5. ThreadTimely(th[t], gone, cache)
    BY <1>threads
  <2>6. CASE a # None /\ Goto(t, z)
    <3>1. y.password # 0 /\ gone[y.password] = 0
      BY <2>1, <2>6
    <3> HIDE DEF z, y
    <3>2. ThreadTimely(z, gone, cache)
      BY <2>1, <2>3, <2>5, <3>1 DEF ThreadTimely
    <3> QED BY <1>th, <2>2, <2>6, <3>2
  <2>7. CASE Goto(t, q("error")) \/ Goto(t, q("denied"))
    <3> HIDE DEF q
    <3> QED BY <1>th, <2>2, <2>4, <2>7
  <2> QED BY <2>2, <2>6, <2>7
<1>8. ASSUME NEW t \in Thread, Stamp(t)
      PROVE  Timely'
  <2> DEFINE x == [th[t] EXCEPT !.pc = "lock", !.found.age = 0]
  <2>1. /\ x.pc = "lock" /\ x.password = th[t].password
        /\ x.found.password = th[t].found.password /\ x.found.age = 0
        /\ x.elapsed = th[t].elapsed /\ x.answer = th[t].answer
    BY <1>threads, StampType
  <2>2. Goto(t, x) /\ th[t].pc = "stamp" /\ UNCHANGED <<account, cache, made, gone>>
    BY <1>8 DEF Stamp
  <2>3. ThreadTimely(th[t], gone, cache) /\ th[t] \in Local
    BY <1>threads
  <2>4. th[t].elapsed \in 0..MaxDelay /\ th[t].found.password \in 0..MaxAccounts
    BY <2>3 DEF Local, Entry
  <2> HIDE DEF x
  <2>5. th[t].found.password # 0 /\ gone[th[t].found.password] <= th[t].elapsed
    BY <2>2, <2>3 DEF ThreadTimely
  <2>6. Recent(gone, x.found)
    BY <2>1, <2>4, <2>5, <1>gone, <1>times DEF Recent
  <2>7. ThreadTimely(x, gone, cache)
    BY <2>1, <2>2, <2>3, <2>5, <2>6 DEF ThreadTimely
  <2> QED BY <1>th, <2>2, <2>7
<1>9. ASSUME NEW t \in Thread, CopyCache(t)
      PROVE  Timely'
  <2> DEFINE m == [u \in User |-> IF CacheExpired(cache[u]) THEN None ELSE cache[u]]
             x == [th[t] EXCEPT !.pc = "store", !.copy = m]
  <2>1. m \in [User -> Entry]
    BY <1>0, ConstantTypes
  <2>2. Kept(cache, m)
    BY <1>0 DEF Kept
  <2>3. \A u \in User : Recent(gone, m[u])
    BY <1>0, <1>store DEF Recent, None
  <2>4. Goto(t, x) /\ th[t].pc = "lock" /\ UNCHANGED <<account, cache, made, gone>>
    BY <1>9 DEF CopyCache
  <2>5. ThreadTimely(th[t], gone, cache) /\ th[t] \in Local
    BY <1>threads
  <2> HIDE DEF m
  <2>6. /\ x.pc = "store" /\ x.copy = m /\ x.password = th[t].password
        /\ x.found = th[t].found /\ x.elapsed = th[t].elapsed /\ x.answer = th[t].answer
    BY <2>5 DEF Local
  <2> HIDE DEF x
  <2>7. ThreadTimely(x, gone, cache)
    BY <2>2, <2>3, <2>4, <2>5, <2>6 DEF ThreadTimely
  <2> QED BY <1>th, <2>4, <2>7
<1>10. ASSUME NEW t \in Thread, StoreCache(t)
       PROVE  Timely'
  <2> DEFINE x == [th[t] EXCEPT !.pc = "match", !.copy = Idle.copy]
  <2>1. /\ Goto(t, x) /\ th[t].pc = "store" /\ UNCHANGED <<account, made, gone>>
        /\ cache' = [th[t].copy EXCEPT ![th[t].user] = th[t].found]
    BY <1>10 DEF StoreCache
  <2>2. ThreadTimely(th[t], gone, cache) /\ th[t] \in Local
    BY <1>threads
  <2>3. /\ x.pc = "match" /\ x.password = th[t].password /\ x.found = th[t].found
        /\ x.elapsed = th[t].elapsed /\ x.answer = th[t].answer
    BY <2>2 DEF Local
  <2>4. /\ th[t].copy \in [User -> Entry] /\ th[t].elapsed \in Nat
        /\ th[t].found.password \in 0..MaxAccounts
    BY <2>2, <1>times DEF Local, Entry
  <2> HIDE DEF x
  <2>5. /\ th[t].found.password # 0 /\ gone[th[t].found.password] <= th[t].elapsed
        /\ Recent(gone, th[t].found) /\ \A u \in User : Recent(gone, th[t].copy[u])
    BY <2>1, <2>2 DEF ThreadTimely
  <2>6. \A u \in User : Recent(gone, cache'[u])
    BY <2>1, <2>4, <2>5
  <2>7. StoreTimely'
    BY <1>store, <2>1, <2>6 DEF StoreTimely
  <2>8. gone[x.found.password] <= Lifetime + MaxDelay + x.elapsed
    BY <2>3, <2>4, <2>5, <1>gone, <1>times
  <2>9. ThreadTimely(x, gone, cache')
    BY <2>1, <2>2, <2>3, <2>8 DEF ThreadTimely
  <2>10. ASSUME NEW s \in Thread
         PROVE  ThreadTimely(th'[s], gone', cache')
    <3>1. CASE s = t
      BY <1>0, <2>1, <2>9, <3>1 DEF Goto
    <3>2. CASE s # t
      <4>1. th'[s] = th[s] /\ th[s].pc # "store"
        BY <1>0, <2>1, <3>2 DEF Goto
      <4>2. ThreadTimely(th[s], gone, cache)
        BY <1>threads
      <4>3. ThreadTimely(th[s], gone, cache')
        BY <4>1, <4>2 DEF ThreadTimely
      <4> QED BY <2>1, <4>1, <4>3
    <3> QED BY <3>1, <3>2
  <2> QED BY <1>types, <2>7, <2>10 DEF Timely
<1>11. ASSUME NEW t \in Thread, Match(t)
       PROVE  Timely'
  <2> DEFINE a == IF th[t].found.password = th[t].password THEN "accepted" ELSE "denied"
             x == [th[t] EXCEPT !.pc = "done", !.answer = a, !.found = None]
  <2>1. Goto(t, x) /\ th[t].pc = "match" /\ UNCHANGED <<account, cache, made, gone>>
    BY <1>11 DEF Match, Answer
  <2>2. ThreadTimely(th[t], gone, cache) /\ th[t] \in Local
    BY <1>threads
  <2>3. /\ x.pc = "done" /\ x.password = th[t].password
        /\ x.elapsed = th[t].elapsed /\ x.answer = a
    BY <2>2 DEF Local
  <2> HIDE DEF x
  <2>4. /\ th[t].password # 0
        /\ th[t].found.password # 0 =>
             gone[th[t].found.password] <= Lifetime + MaxDelay + th[t].elapsed
    BY <2>1, <2>2 DEF ThreadTimely
  <2>5. ThreadTimely(x, gone, cache)
    BY <2>3, <2>4 DEF ThreadTimely
  <2> QED BY <1>th, <2>1, <2>5
<1>12. ASSUME NEW t \in Thread, Respond(t)
       PROVE  Timely'
  <2>1. ThreadTimely(Idle, gone, cache)
    BY ConstantTypes DEF ThreadTimely
  <2> QED BY <1>12, <1>th, <2>1 DEF Respond
<1>13. ASSUME Tick
       PROVE  Timely'
  <2>1. /\ \A u \in User : account'[u] = Older(account[u], TTL + 1)
        /\ \A u \in User : cache'[u] = Older(cache[u], Lifetime + 1)
        /\ \A t \in Thread : th'[t] = OlderThread(th[t])
        /\ \A t \in Thread : th[t].pc # "idle" => th[t].elapsed < MaxDelay
        /\ made' = made
    BY <1>13 DEF Tick
  <2>2. gone \in [Password -> Nat] /\ gone' \in [Password -> Nat]
    <3>1. gone \in [Password -> 0..(Window + 1)] /\ gone' \in [Password -> 0..(Window + 1)]
      BY <1>0, <1>types DEF AuthTypeOK
    <3>2. 0..(Window + 1) \subseteq Nat
      BY <1>times
    <3> QED BY <3>1, <3>2
  <2>3. \A p \in Password :
          /\ gone'[p] <= gone[p] + 1
          /\ p > Len(made) \/ (\E u \in User : account[u].password = p) => gone'[p] = gone[p]
    <3> SUFFICES ASSUME NEW p \in Password
                 PROVE  /\ gone'[p] <= gone[p] + 1
                        /\ p > Len(made) \/ (\E u \in User : account[u].password = p)
                             => gone'[p] = gone[p]
      OBVIOUS
    <3> DEFINE kept == p > Len(made) \/ \E u \in User : account[u].password = p
    <3>1. gone'[p] = IF kept THEN gone[p] ELSE Smaller(gone[p] + 1, Window + 1)
      BY <1>13 DEF Tick
    <3>2. gone[p] \in Nat
      BY <2>2
    <3> HIDE DEF kept
    <3>3. gone'[p] <= gone[p] + 1 /\ (kept => gone'[p] = gone[p])
      BY <3>1, <3>2, <1>times DEF Smaller
    <3> QED BY <3>3 DEF kept
  <2>4. \A u \in User : Recent(gone', cache'[u])
    <3>1. \A p \in Password : gone'[p] <= gone[p] + 1
      BY <2>3
    <3>2. ASSUME NEW u \in User
          PROVE  Recent(gone', Older(cache[u], Lifetime + 1))
      <4>1. cache[u] \in Entry /\ Recent(gone, cache[u])
        BY <1>0, <1>store
      <4> QED BY <2>2, <3>1, <4>1, RecentLater
    <3> QED BY <2>1, <3>2
  <2>5. ASSUME NEW u \in User
        PROVE  /\ account'[u] # None => account'[u].password # 0
               /\ account'[u].password # 0 => gone'[account'[u].password] = 0
    <3>1. /\ account'[u].password = account[u].password
          /\ account[u] = None => account'[u] = None
      BY <1>0, <2>1, OlderAccount
    <3>2. account[u].password # 0 => account[u].password \in Password
      BY <1>0, <1>gone DEF AccountObject
    <3> QED BY <1>store, <2>3, <3>1, <3>2
  <2>6. StoreTimely'
    BY <1>store, <2>1, <2>3, <2>4, <2>5 DEF StoreTimely
  <2>7. ASSUME NEW t \in Thread
        PROVE  ThreadTimely(th'[t], gone', cache')
    <3>1. ThreadTimely(OlderThread(th[t]), gone', cache')
      <4>1. \A p \in Password : gone'[p] <= gone[p] + 1
        BY <2>3
      <4>2. th[t] \in Local /\ ThreadTimely(th[t], gone, cache)
        BY <1>threads
      <4> QED BY <1>0, <2>1, <2>2, <4>1, <4>2, ThreadLater
    <3> QED BY <2>1, <3>1
  <2> QED BY <1>types, <2>6, <2>7 DEF Timely
<1>14. CASE UNCHANGED vars
  BY <1>14, <1>idle DEF vars
<1> QED
  BY <1>1, <1>2, <1>3, <1>4, <1>5, <1>6, <1>7, <1>8, <1>9, <1>10, <1>11, <1>12, <1>13,
     <1>14 DEF Next, Controller, Handle

\* The initial state is timely: there is no account yet.
LEMMA TimelyFirst == Init => Timely
<1> SUFFICES ASSUME Init
             PROVE  Timely
  OBVIOUS
<1>1. AuthTypeOK
  BY InitTypes
<1>2. None.password = 0
  BY DEF None
<1>3. StoreTimely
  <2>1. \A p \in Password : gone[p] = 0
    BY DEF Init
  <2>2. \A u \in User : account[u] = None /\ cache[u] = None
    BY DEF Init
  <2> QED BY <1>2, <2>1, <2>2 DEF StoreTimely, Recent
<1>4. ASSUME NEW t \in Thread
      PROVE  ThreadTimely(th[t], gone, cache)
  <2>1. th[t] = Idle
    BY DEF Init
  <2> QED BY <2>1, ConstantTypes DEF ThreadTimely
<1> QED BY <1>1, <1>3, <1>4 DEF Timely

\* The credentials of a deleted account are accepted for at most the lifetime
\* of a cache entry and twice the time a request takes (findAccount).
THEOREM RevokedInTime == Spec => []AcceptedNotLongGone
<1>1. Timely /\ [Next]_vars => Timely'
  BY TimelyKept
<1>2. Timely => AcceptedNotLongGone
  <2> SUFFICES ASSUME Timely, NEW t \in Thread, th[t].answer = "accepted"
               PROVE  gone[th[t].password] <= Window
    BY DEF AcceptedNotLongGone
  <2>1. /\ th[t].password # 0
        /\ gone[th[t].password] <= Lifetime + MaxDelay + th[t].elapsed
    BY DEF Timely, ThreadTimely
  <2>2. th[t].elapsed \in 0..MaxDelay /\ th[t].password \in 0..MaxAccounts
    BY DEF Timely, AuthTypeOK, Local
  <2>3. gone[th[t].password] \in 0..(Window + 1)
    <3>1. th[t].password \in Password
      BY <2>1, <2>2, AuthAssumption DEF Password
    <3> QED BY <3>1 DEF Timely, AuthTypeOK
  <2> QED BY <2>1, <2>2, <2>3, TimeAssumption DEF Window
<1> QED BY <1>1, <1>2, TimelyFirst, PTL DEF Spec

\* Threads that add accounts to the map at the same time do not undo each
\* other's work (addToCache): only expired entries are dropped.
THEOREM NoLostEntries == Spec => FreshEntriesStay
<1>1. Timely /\ [Next]_vars => Timely'
  BY TimelyKept
<1>2. ASSUME Timely, [Next]_vars, NEW u \in User,
             cache[u] # None, ~CacheExpired(cache[u])
      PROVE  cache'[u] # None
  <2>0. cache \in [User -> Entry] /\ th \in [Thread -> Local]
    BY <1>2 DEF Timely, AuthTypeOK
  <2>1. CASE UNCHANGED cache
    BY <1>2, <2>1
  <2>2. CASE Tick
    <3>1. cache'[u] = Older(cache[u], Lifetime + 1) /\ cache[u] \in Entry
      BY <2>0, <2>2 DEF Tick
    <3> QED BY <1>2, <3>1, OlderEntry
  <2>3. ASSUME NEW t \in Thread, StoreCache(t)
        PROVE  cache'[u] # None
    <3>1. cache' = [th[t].copy EXCEPT ![th[t].user] = th[t].found] /\ th[t].pc = "store"
      BY <2>3 DEF StoreCache
    <3>2. th[t].copy \in [User -> Entry]
      BY <2>0 DEF Local
    <3>3. th[t].found.password # 0 /\ Kept(cache, th[t].copy)
      BY <1>2, <3>1 DEF Timely, ThreadTimely
    <3>4. th[t].found # None
      BY <3>3 DEF None
    <3>5. th[t].copy[u] # None
      BY <1>2, <3>3 DEF Kept
    <3> QED BY <3>1, <3>2, <3>4, <3>5
  <2>4. UNCHANGED cache \/ Tick \/ \E t \in Thread : StoreCache(t)
    BY <1>2 DEF Next, vars, Controller, Handle, CreateAccount, DeleteAccount, Watch,
                ReconcileAlive, ReconcileExpired, RequeueAfter, Request, FindCached, Get,
                Stamp, CopyCache, Match, Respond
  <2> QED BY <2>1, <2>2, <2>3, <2>4
<1>3. Timely /\ [Next]_vars
        => [\A u \in User : cache[u] # None /\ ~CacheExpired(cache[u]) => cache'[u] # None]_vars
  BY <1>2
<1> QED BY <1>1, <1>3, TimelyFirst, PTL DEF Spec, FreshEntriesStay

-----------------------------------------------------------------------------
(* Expiry.  The controller's copy of an account is told from the account by *)
(* its password: as long as they have the same, they are of the same age,   *)
(* and the delay that was computed from the copy fits the account.          *)

InformerSeen ==
  \A u \in User :
    /\ account[u].password = 0 => account[u] = None
    /\ informer[u].password = 0 => informer[u] = None
    /\ account[u].password <= Len(made) /\ informer[u].password <= Len(made)
    /\ informer[u].password = account[u].password => informer[u] = account[u]

Scheduled == AuthTypeOK /\ InformerSeen /\ ExpiryScheduled

\* Accounts are told apart by their passwords while they grow older, and what
\* exists grows older by one.
LEMMA OlderSeen ==
  ASSUME NEW x \in AccountObject, x.password = 0 => x = None
  PROVE  /\ Older(x, TTL + 1).password = 0 => Older(x, TTL + 1) = None
         /\ Older(x, TTL + 1) # None => x # None /\ Older(x, TTL + 1).age <= x.age + 1
<1>1. Older(x, TTL + 1).password = x.password
  BY OlderAccount
<1>2. CASE x = None
  BY <1>2 DEF Older
<1>3. CASE x # None
  <2>1. Older(x, TTL + 1).age = Smaller(x.age + 1, TTL + 1)
    BY <1>3 DEF Older, AccountObject
  <2>2. x.age \in Nat /\ TTL \in Nat
    BY TimeAssumption DEF AccountObject, AccountAge
  <2> QED BY <1>1, <1>3, <2>1, <2>2 DEF Smaller
<1> QED BY <1>2, <1>3

\* Every step keeps Scheduled.
LEMMA ScheduledKept ==
  ASSUME Scheduled, [Next]_vars
  PROVE  Scheduled'
<1>0. /\ account \in [User -> AccountObject] /\ informer \in [User -> AccountObject]
      /\ queue \subseteq User /\ delay \in [User -> 0..Never]
      /\ made \in Seq(User) /\ Len(made) \in Nat
  <2>1. made \in Seq(User)
    BY DEF Scheduled, AuthTypeOK
  <2>2. Len(made) \in Nat
    BY <2>1, LenProperties
  <2> QED BY <2>1, <2>2 DEF Scheduled, AuthTypeOK, AccountObject
<1>times. /\ TTL \in Nat \ {0} /\ Slack \in Nat \ {0} /\ Never = TTL + Slack + 1
  BY TimeAssumption DEF Never
<1>age. \A u \in User : /\ account[u].age \in 0..(TTL + 1) /\ informer[u].age \in 0..(TTL + 1)
                        /\ account[u].password \in Nat /\ informer[u].password \in Nat
                        /\ delay[u] \in 0..Never
  <2>1. \A x \in AccountObject : x.age \in 0..(TTL + 1) /\ x.password \in Nat
    BY AuthAssumption DEF AccountObject, AccountAge
  <2> QED BY <1>0, <2>1
<1>none. None.password = 0 /\ None.age = 0
  BY DEF None
<1>types. AuthTypeOK'
  BY TypesKept DEF Scheduled
<1>seen. InformerSeen /\ ExpiryScheduled
  BY DEF Scheduled
\* Nothing that happens to one account is of interest to the others.
<1>one. ASSUME NEW u \in User, Len(made) <= Len(made'),
               \A v \in User \ {u} : /\ account'[v] = account[v] /\ informer'[v] = informer[v]
                                     /\ delay'[v] = delay[v]
                                     /\ v \in queue => v \in queue',
               /\ account'[u].password = 0 => account'[u] = None
               /\ informer'[u].password = 0 => informer'[u] = None
               /\ account'[u].password <= Len(made') /\ informer'[u].password <= Len(made')
               /\ informer'[u].password = account'[u].password => informer'[u] = account'[u],
               Len(made') \in Nat,
               u \notin Permanent /\ account'[u] # None =>
                 \/ informer'[u] # account'[u] \/ u \in queue'
                 \/ delay'[u] <= TTL + Slack - account'[u].age
        PROVE  Scheduled'
  <2>1. ASSUME NEW v \in User
        PROVE  /\ account'[v].password = 0 => account'[v] = None
               /\ informer'[v].password = 0 => informer'[v] = None
               /\ account'[v].password <= Len(made') /\ informer'[v].password <= Len(made')
               /\ informer'[v].password = account'[v].password => informer'[v] = account'[v]
    <3>1. CASE v = u
      BY <1>one, <3>1
    <3>2. CASE v # u
      <4>1. account'[v] = account[v] /\ informer'[v] = informer[v]
        BY <1>one, <3>2
      <4> QED BY <1>0, <1>age, <1>seen, <1>one, <4>1 DEF InformerSeen
    <3> QED BY <3>1, <3>2
  <2>2. InformerSeen'
    BY <2>1 DEF InformerSeen
  <2>3. ASSUME NEW v \in User \ Permanent, account'[v] # None
        PROVE  \/ informer'[v] # account'[v] \/ v \in queue'
               \/ delay'[v] <= TTL + Slack - account'[v].age
    <3>1. CASE v = u
      BY <1>one, <2>3, <3>1
    <3>2. CASE v # u
      <4>1. /\ account'[v] = account[v] /\ informer'[v] = informer[v]
            /\ delay'[v] = delay[v]
            /\ v \in queue => v \in queue'
        BY <1>one, <3>2
      <4> QED BY <1>seen, <2>3, <4>1 DEF ExpiryScheduled
    <3> QED BY <3>1, <3>2
  <2>4. ExpiryScheduled'
    BY <2>3 DEF ExpiryScheduled
  <2> QED BY <1>types, <2>2, <2>4 DEF Scheduled
<1>same. ASSUME UNCHANGED <<account, informer, queue, delay, made>>
         PROVE  Scheduled'
  BY <1>same, <1>types, <1>seen DEF Scheduled, InformerSeen, ExpiryScheduled
<1>1. ASSUME NEW u \in User, CreateAccount(u)
      PROVE  Scheduled'
  <2>1. Len(made') = Len(made) + 1
    BY <1>0, <1>1, AppendProperties DEF CreateAccount
  <2>2. account'[u].password = Len(made) + 1
    BY <1>0, <1>1 DEF CreateAccount
  <2>3. informer[u].password <= Len(made) /\ informer'[u] = informer[u]
    BY <1>seen, <1>1 DEF InformerSeen, CreateAccount
  <2>4. informer'[u].password # account'[u].password /\ account'[u].password # 0
    BY <1>0, <1>age, <2>2, <2>3
  <2>5. /\ account'[u].password <= Len(made') /\ informer'[u].password <= Len(made')
        /\ Len(made) <= Len(made') /\ Len(made') \in Nat
    BY <1>0, <1>age, <2>1, <2>2, <2>3
  <2>6. \A v \in User \ {u} : account'[v] = account[v]
    BY <1>0, <1>1 DEF CreateAccount
  <2>7. informer[u].password = 0 => informer[u] = None
    BY <1>seen DEF InformerSeen
  <2>8. UNCHANGED <<informer, queue, delay>>
    BY <1>1 DEF CreateAccount
  <2>9. informer'[u] # account'[u]
    BY <2>4
  <2> QED BY <1>one, <2>3, <2>4, <2>5, <2>6, <2>7, <2>8, <2>9
<1>del. ASSUME NEW u \in User, account' = [account EXCEPT ![u] = None],
               \A v \in User \ {u} : v \in queue => v \in queue',
               UNCHANGED <<informer, delay, made>>
        PROVE  Scheduled'
  <2>1. account'[u] = None /\ \A v \in User \ {u} : account'[v] = account[v]
    BY <1>0, <1>del
  <2>2. /\ informer[u].password = 0 => informer[u] = None
        /\ informer[u].password <= Len(made)
    BY <1>seen DEF InformerSeen
  <2> QED BY <1>0, <1>del, <1>one, <1>none, <2>1, <2>2
<1>2. ASSUME NEW u \in User, DeleteAccount(u)
      PROVE  Scheduled'
  BY <1>2, <1>del DEF DeleteAccount
<1>3. ASSUME NEW u \in User, Watch(u)
      PROVE  Scheduled'
  <2>1. informer'[u] = account[u] /\ \A v \in User \ {u} : informer'[v] = informer[v]
    BY <1>0, <1>3 DEF Watch
  <2>2. account[u].password <= Len(made)
    BY <1>seen DEF InformerSeen
  <2> QED BY <1>0, <1>3, <1>one, <1>seen, <2>1, <2>2 DEF Watch, InformerSeen
<1>4. ASSUME NEW u \in User, ReconcileAlive(u)
      PROVE  Scheduled'
  <2>1. /\ UNCHANGED <<account, informer, made>> /\ queue' = queue \ {u}
        /\ informer[u] = None \/ ~Expired(u, informer[u])
    BY <1>4 DEF ReconcileAlive
  <2>2. \A v \in User \ {u} : v \in queue => v \in queue'
    BY <2>1
  <2>3. ASSUME u \notin Permanent, account[u] # None, informer[u] = account[u]
        PROVE  delay'[u] <= TTL + Slack - account[u].age
    <3>1. delay'[u] = Smaller(delay[u], TTL - informer[u].age + Slack)
      BY <1>0, <1>4, <2>3 DEF ReconcileAlive
    <3> QED BY <1>age, <1>times, <2>3, <3>1 DEF Smaller
  <2>4. \A v \in User \ {u} : delay'[v] = delay[v]
    BY <1>0, <1>4 DEF ReconcileAlive
  <2> QED BY <1>0, <1>one, <1>seen, <2>1, <2>2, <2>3, <2>4 DEF InformerSeen
<1>5. ASSUME NEW u \in User, ReconcileExpired(u)
      PROVE  Scheduled'
  <2>1. PICK o \in Outcome :
          /\ IF Applied(o) THEN account' = [account EXCEPT ![u] = None] ELSE UNCHANGED account
          /\ IF account[u] = None THEN o \in {"refused", "lost"} ELSE o # "refused"
          /\ queue' = IF Failed(o) THEN queue ELSE queue \ {u}
    BY <1>5 DEF ReconcileExpired
  <2>2. UNCHANGED <<informer, delay, made>>
    BY <1>5 DEF ReconcileExpired
  <2>3. CASE Applied(o)
    BY <1>del, <2>1, <2>2, <2>3
  <2>4. CASE ~Applied(o)
    <3>1. UNCHANGED <<account, queue>>
      BY <2>1, <2>4 DEF Applied, Failed
    <3> QED BY <1>same, <2>2, <3>1
  <2> QED BY <2>3, <2>4
<1>6. ASSUME NEW u \in User, RequeueAfter(u)
      PROVE  Scheduled'
  <2>1. /\ UNCHANGED <<account, informer, made>> /\ queue' = queue \cup {u}
        /\ \A v \in User \ {u} : delay'[v] = delay[v]
    BY <1>0, <1>6 DEF RequeueAfter
  <2> QED BY <1>0, <1>one, <1>seen, <2>1 DEF InformerSeen
<1>7. ASSUME Tick
      PROVE  Scheduled'
  <2>1. /\ \A u \in User : account'[u] = Older(account[u], TTL + 1)
        /\ \A u \in User : informer'[u] = Older(informer[u], TTL + 1)
        /\ \A u \in User : delay'[u] = IF delay[u] \in {0, Never} THEN delay[u]
                                         ELSE delay[u] - 1
        /\ UNCHANGED <<queue, made>>
    BY <1>7 DEF Tick
  <2>2. ASSUME NEW u \in User
        PROVE  /\ account'[u].password = account[u].password
               /\ informer'[u].password = informer[u].password
               /\ account'[u].password = 0 => account'[u] = None
               /\ informer'[u].password = 0 => informer'[u] = None
               /\ account'[u] # None =>
                    account[u] # None /\ account'[u].age <= account[u].age + 1
    <3>1. /\ account[u] \in AccountObject /\ informer[u] \in AccountObject
          /\ account[u].password = 0 => account[u] = None
          /\ informer[u].password = 0 => informer[u] = None
      BY <1>0, <1>seen DEF InformerSeen
    <3> QED BY <2>1, <3>1, OlderAccount, OlderSeen
  <2>3. InformerSeen'
    BY <1>seen, <2>1, <2>2 DEF InformerSeen
  <2>4. ASSUME NEW u \in User \ Permanent, account'[u] # None, informer'[u] = account'[u],
               u \notin queue'
        PROVE  delay'[u] <= TTL + Slack - account'[u].age
    <3>1. account[u] # None /\ informer[u] = account[u] /\ u \notin queue
      BY <1>seen, <2>1, <2>2, <2>4 DEF InformerSeen
    <3>2. delay[u] <= TTL + Slack - account[u].age
      BY <1>seen, <3>1 DEF ExpiryScheduled
    <3>3. account'[u].age <= account[u].age + 1 /\ account'[u].age \in 0..(TTL + 1)
      BY <1>types, <2>2, <2>4 DEF AuthTypeOK, AccountAge
    <3>4. CASE delay[u] = 0
      BY <1>times, <2>1, <3>3, <3>4
    <3>5. CASE delay[u] # 0
      <4>1. delay[u] # Never
        BY <1>age, <1>times, <3>2
      <4> QED BY <1>age, <1>times, <2>1, <3>2, <3>3, <3>5, <4>1
    <3> QED BY <3>4, <3>5
  <2>5. ExpiryScheduled'
    BY <2>4 DEF ExpiryScheduled
  <2> QED BY <1>types, <2>3, <2>5 DEF Scheduled
<1>8. ASSUME NEW t \in Thread, Handle(t) \/ \E u \in User, p \in 0..Len(made) : Request(t, u, p)
      PROVE  Scheduled'
  BY <1>8, <1>same DEF Handle, Request, FindCached, Get, Stamp, CopyCache, StoreCache,
                       Match, Respond
<1>9. CASE UNCHANGED vars
  BY <1>9, <1>same DEF vars
<1> QED
  BY <1>1, <1>2, <1>3, <1>4, <1>5, <1>6, <1>7, <1>8, <1>9 DEF Next, Controller

\* There is no account in the initial state.
LEMMA ScheduledFirst == Init => Scheduled
<1>1. None.password = 0 /\ Len(<<>>) = 0
  BY DEF None
<1> QED BY <1>1, InitTypes DEF Init, Scheduled, InformerSeen, ExpiryScheduled

\* An account with a TTL never waits for its expiry in vain, although deletes
\* fail, names are used again and the work queue keeps one delay per name
\* ("Delete account if expired").
THEOREM ExpiryIsScheduled == Spec => []ExpiryScheduled
<1>1. Scheduled /\ [Next]_vars => Scheduled'
  BY ScheduledKept
<1>2. Scheduled => ExpiryScheduled
  BY DEF Scheduled
<1> QED BY <1>1, <1>2, ScheduledFirst, PTL DEF Spec

-----------------------------------------------------------------------------
(* Denials.  Whatever is stored, cached or copied for a user is an account  *)
(* that was made for that user, and a valid request is for the one that the *)
(* API server has: a denial can only come from another account of the same  *)
(* name, and Timely says how long that has been gone.                       *)

Issued(m, u, y) == y # None => y.password \in 1..Len(m) /\ m[y.password] = u

\* A denial of valid credentials is due to an account that was there recently.
DeniedByOlder(x, m, g) ==
  x.pc # "idle" /\ \E q \in 1..Len(m) : /\ q # x.password /\ m[q] = x.user
                                        /\ g[q] <= Lifetime + MaxDelay + x.elapsed

ThreadIssued(x, a, m, g) ==
  /\ x.pc \in {"stamp", "lock", "store", "match"} =>
       x.found # None /\ Issued(m, x.user, x.found)
  /\ x.pc = "store" => \A u \in User : Issued(m, u, x.copy[u])
  /\ x.valid => x.password # 0 /\ a[x.user].password = x.password
  /\ x.answer = "denied" /\ x.valid => DeniedByOlder(x, m, g)

AllIssued ==
  /\ Timely
  /\ \A u \in User : Issued(made, u, cache[u]) /\ Issued(made, u, account[u])
  /\ \A t \in Thread : ThreadIssued(th[t], account, made, gone)

\* An account keeps its name and its password while it grows older.
LEMMA IssuedLater ==
  ASSUME NEW m, NEW u, NEW x \in Entry, Issued(m, u, x)
  PROVE  Issued(m, u, Older(x, Lifetime + 1))
<1>1. CASE x = None
  BY <1>1 DEF Older, Issued
<1>2. CASE x # None
  <2>1. Older(x, Lifetime + 1).password = x.password
    BY OlderEntry
  <2> QED BY <1>2, <2>1 DEF Issued
<1> QED BY <1>1, <1>2

\* What a Tick does to the rest of a thread.
LEMMA OlderThreadRest ==
  ASSUME NEW x \in Local
  PROVE  OlderThread(x).user = x.user /\ OlderThread(x).valid = x.valid
BY DEF OlderThread, Local

\* Every step keeps AllIssued.
LEMMA IssuedKept ==
  ASSUME AllIssued, [Next]_vars
  PROVE  AllIssued'
<1>0. /\ account \in [User -> AccountObject] /\ cache \in [User -> Entry]
      /\ th \in [Thread -> Local] /\ made \in Seq(User) /\ Len(made) \in 0..MaxAccounts
      /\ gone \in [Password -> 0..(Window + 1)]
  <2>1. made \in Seq(User) /\ Len(made) <= MaxAccounts
    BY DEF AllIssued, Timely, AuthTypeOK
  <2>2. Len(made) \in Nat
    BY <2>1, LenProperties
  <2> QED BY <2>1, <2>2, AuthAssumption DEF AllIssued, Timely, AuthTypeOK, AccountObject
<1>times. /\ Lifetime \in Nat /\ MaxDelay \in Nat /\ MaxAccounts \in Nat /\ Window \in Nat
  BY TimeAssumption, AuthAssumption DEF Window
<1>timely. Timely'
  BY TimelyKept DEF AllIssued
<1>none. None.password = 0
  BY DEF None
<1>store. \A u \in User : Issued(made, u, cache[u]) /\ Issued(made, u, account[u])
  BY DEF AllIssued
<1>threads. \A t \in Thread : /\ th[t] \in Local /\ ThreadIssued(th[t], account, made, gone)
                              /\ ThreadTimely(th[t], gone, cache)
  BY <1>0 DEF AllIssued, Timely
\* A step of one thread that leaves the shared state alone.
<1>th. ASSUME NEW t \in Thread, NEW x, Goto(t, x), ThreadIssued(x, account, made, gone),
              UNCHANGED <<account, cache, made, gone>>
       PROVE  AllIssued'
  <2>1. ASSUME NEW s \in Thread
        PROVE  ThreadIssued(th'[s], account', made', gone')
    <3>1. th'[s] = IF s = t THEN x ELSE th[s]
      BY <1>0, <1>th DEF Goto
    <3> QED BY <3>1, <1>th, <1>threads
  <2> QED BY <1>timely, <1>store, <1>th, <2>1 DEF AllIssued
<1>same. ASSUME UNCHANGED <<account, cache, th, made, gone>>
         PROVE  AllIssued'
  BY <1>same, <1>timely, <1>store, <1>threads DEF AllIssued
\* An account is deleted: no request for it is valid any more.
<1>del. ASSUME NEW u \in User, account' = [account EXCEPT ![u] = None], Invalidate(u),
               UNCHANGED <<cache, made, gone>>
        PROVE  AllIssued'
  <2>1. /\ account'[u] = None
        /\ \A v \in User : v # u => account'[v] = account[v]
    BY <1>0, <1>del
  <2>2. \A v \in User : Issued(made, v, account'[v])
    BY <1>store, <2>1 DEF Issued
  <2>3. ASSUME NEW t \in Thread
        PROVE  ThreadIssued(th'[t], account', made, gone)
    <3>1. th[t] \in Local /\ ThreadIssued(th[t], account, made, gone) /\ th[t].user \in User
      BY <1>threads DEF Local
    <3>2. CASE th[t].user = u
      <4> DEFINE y == [th[t] EXCEPT !.valid = FALSE]
      <4>1. /\ y.pc = th[t].pc /\ y.user = th[t].user /\ y.found = th[t].found
            /\ y.copy = th[t].copy /\ ~y.valid
        BY <3>1 DEF Local
      <4>2. th'[t] = y
        BY <1>del, <3>2 DEF Invalidate
      <4> HIDE DEF y
      <4>3. ThreadIssued(y, account', made, gone)
        BY <3>1, <4>1 DEF ThreadIssued
      <4> QED BY <4>2, <4>3
    <3>3. CASE th[t].user # u
      <4>1. th'[t] = th[t] /\ account'[th[t].user] = account[th[t].user]
        BY <1>del, <2>1, <3>1, <3>3 DEF Invalidate
      <4> QED BY <3>1, <4>1 DEF ThreadIssued
    <3> QED BY <3>2, <3>3
  <2> QED BY <1>timely, <1>store, <1>del, <2>2, <2>3 DEF AllIssued
<1>1. ASSUME NEW u \in User, CreateAccount(u)
      PROVE  AllIssued'
  <2> DEFINE n == Len(made) + 1
  <2>1. /\ account[u] = None /\ made' = Append(made, u)
        /\ account' = [account EXCEPT ![u] = [password |-> n, age |-> 0]]
        /\ UNCHANGED <<cache, th, gone>>
    BY <1>1 DEF CreateAccount
  <2>2. /\ Len(made') = n /\ n \in 1..n /\ made'[n] = u
        /\ \A q \in 1..Len(made) : q \in 1..n /\ made'[q] = made[q]
    BY <1>0, <2>1, AppendProperties
  <2>3. \A v, y : Issued(made, v, y) => Issued(made', v, y)
    BY <2>2 DEF Issued
  <2>4. ASSUME NEW v \in User
        PROVE  Issued(made', v, cache[v]) /\ Issued(made', v, account'[v])
    <3>1. CASE v = u
      BY <1>0, <1>store, <2>1, <2>2, <2>3, <3>1 DEF Issued
    <3>2. CASE v # u
      BY <1>0, <1>store, <2>1, <2>3, <3>2
    <3> QED BY <3>1, <3>2
  <2>5. ASSUME NEW t \in Thread
        PROVE  ThreadIssued(th[t], account', made', gone)
    <3> DEFINE x == th[t]
    <3>1. x \in Local /\ ThreadIssued(x, account, made, gone) /\ x.user \in User
      BY <1>threads DEF Local
    <3> HIDE DEF x
    <3>2. x.valid => x.password # 0 /\ account'[x.user].password = x.password
      <4>1. x.valid => x.user # u
        BY <1>none, <2>1, <3>1 DEF ThreadIssued
      <4> QED BY <1>0, <2>1, <3>1, <4>1 DEF ThreadIssued
    <3>3. x.answer = "denied" /\ x.valid => DeniedByOlder(x, made', gone)
      BY <2>2, <3>1 DEF ThreadIssued, DeniedByOlder
    <3>4. ThreadIssued(x, account', made', gone)
      BY <2>3, <3>1, <3>2, <3>3 DEF ThreadIssued
    <3> QED BY <3>4 DEF x
  <2> QED BY <1>timely, <2>1, <2>4, <2>5 DEF AllIssued
<1>2. ASSUME NEW u \in User, DeleteAccount(u)
      PROVE  AllIssued'
  BY <1>2, <1>del DEF DeleteAccount
<1>3. ASSUME NEW u \in User, Watch(u) \/ ReconcileAlive(u) \/ RequeueAfter(u)
      PROVE  AllIssued'
  BY <1>3, <1>same DEF Watch, ReconcileAlive, RequeueAfter
<1>4. ASSUME NEW u \in User, ReconcileExpired(u)
      PROVE  AllIssued'
  <2>1. /\ \/ account' = [account EXCEPT ![u] = None] /\ Invalidate(u)
           \/ UNCHANGED <<account, th>>
        /\ UNCHANGED <<cache, made, gone>>
    BY <1>4 DEF ReconcileExpired
  <2> QED BY <1>del, <1>same, <2>1
<1>5. ASSUME NEW t \in Thread, NEW u \in User, NEW p \in 0..Len(made), Request(t, u, p)
      PROVE  AllIssued'
  <2> DEFINE x == [Idle EXCEPT !.pc = IF p = 0 THEN "done" ELSE "find",
                               !.answer = IF p = 0 THEN "denied" ELSE "none",
                               !.user = u, !.password = p,
                               !.valid = p # 0 /\ account[u].password = p]
  <2>1. /\ x.pc = (IF p = 0 THEN "done" ELSE "find") /\ x.password = p /\ x.user = u
        /\ x.answer = (IF p = 0 THEN "denied" ELSE "none")
        /\ x.valid = (p # 0 /\ account[u].password = p)
    BY ConstantTypes DEF Local
  <2>2. Goto(t, x) /\ UNCHANGED <<account, cache, made, gone>>
    BY <1>5 DEF Request
  <2> HIDE DEF x
  <2>3. ThreadIssued(x, account, made, gone)
    BY <2>1 DEF ThreadIssued
  <2> QED BY <1>th, <2>2, <2>3
\* A thread that goes on without answering.
<1>on. ASSUME NEW t \in Thread, NEW x, Goto(t, x), UNCHANGED <<account, cache, made, gone>>,
              x.user = th[t].user, x.password = th[t].password, x.valid = th[t].valid,
              x.elapsed = th[t].elapsed, x.answer = th[t].answer, x.pc # "idle",
              x.pc \in {"stamp", "lock", "store", "match"} =>
                x.found # None /\ Issued(made, x.user, x.found),
              x.pc = "store" => \A u \in User : Issued(made, u, x.copy[u])
       PROVE  AllIssued'
  <2>1. ThreadIssued(th[t], account, made, gone)
    BY <1>threads
  <2>2. x.answer = "denied" /\ x.valid => DeniedByOlder(x, made, gone)
    BY <1>on, <2>1 DEF ThreadIssued, DeniedByOlder
  <2>3. ThreadIssued(x, account, made, gone)
    BY <1>on, <2>1, <2>2 DEF ThreadIssued
  <2> QED BY <1>on, <1>th, <2>3
<1>6. ASSUME NEW t \in Thread, FindCached(t)
      PROVE  AllIssued'
  <2> DEFINE y == cache[th[t].user]
             m == [th[t] EXCEPT !.pc = "match", !.found = y]
             n == [th[t] EXCEPT !.pc = "get"]
  <2>1. th[t] \in Local /\ y \in Entry /\ Issued(made, th[t].user, y)
    BY <1>0, <1>store DEF Local
  <2>2. /\ UNCHANGED <<account, cache, made, gone>>
        /\ (Goto(t, m) /\ y # None) \/ Goto(t, n)
    BY <1>6 DEF FindCached
  <2>3. /\ m.pc = "match" /\ m.found = y /\ m.user = th[t].user /\ m.valid = th[t].valid
        /\ m.password = th[t].password /\ m.elapsed = th[t].elapsed
        /\ m.answer = th[t].answer
        /\ n.pc = "get" /\ n.user = th[t].user /\ n.valid = th[t].valid
        /\ n.password = th[t].password /\ n.elapsed = th[t].elapsed
        /\ n.answer = th[t].answer
    BY <2>1 DEF Local
  <2> HIDE DEF m, n, y
  <2> QED BY <1>on, <2>1, <2>2, <2>3
<1>7. ASSUME NEW t \in Thread, Get(t)
      PROVE  AllIssued'
  <2> DEFINE a == account[th[t].user]
             y == [password |-> a.password, age |-> 0]
             z == [th[t] EXCEPT !.pc = "stamp", !.found = y]
             q(r) == [th[t] EXCEPT !.pc = "done", !.answer = r, !.found = None]
  <2>1. /\ th[t] \in Local /\ a \in AccountObject /\ Issued(made, th[t].user, a)
        /\ ThreadIssued(th[t], account, made, gone)
    BY <1>0, <1>store, <1>threads DEF Local
  <2>2. /\ UNCHANGED <<account, cache, made, gone>>
        /\ Goto(t, q("error")) \/ (a = None /\ Goto(t, q("denied"))) \/ (a # None /\ Goto(t, z))
    BY <1>7 DEF Get, Answer
  <2>3. CASE a # None /\ Goto(t, z)
    <3>1. /\ z.pc = "stamp" /\ z.found = y /\ z.user = th[t].user /\ z.valid = th[t].valid
          /\ z.password = th[t].password /\ z.elapsed = th[t].elapsed
          /\ z.answer = th[t].answer
      BY <2>1 DEF Local
    <3>2. a.password \in 1..Len(made) /\ made[a.password] = th[t].user
      BY <2>1, <2>3 DEF Issued
    <3>3. y # None /\ Issued(made, th[t].user, y)
      BY <1>none, <3>2 DEF Issued
    <3> HIDE DEF z, y
    <3> QED BY <1>on, <2>2, <2>3, <3>1, <3>3
  <2>4. ASSUME NEW r \in {"error", "denied"}, Goto(t, q(r)), r = "denied" => a = None
        PROVE  AllIssued'
    <3>1. /\ q(r).pc = "done" /\ q(r).answer = r /\ q(r).user = th[t].user
          /\ q(r).password = th[t].password /\ q(r).valid = th[t].valid
      BY <2>1 DEF Local
    <3> HIDE DEF q
    <3>2. q(r).valid => q(r).password # 0 /\ account[q(r).user].password = q(r).password
      BY <2>1, <3>1 DEF ThreadIssued
    <3>3. r = "denied" => ~q(r).valid
      BY <1>none, <2>4, <3>1, <3>2
    <3>4. ThreadIssued(q(r), account, made, gone)
      BY <3>1, <3>2, <3>3 DEF ThreadIssued
    <3> QED BY <1>th, <2>2, <2>4, <3>4
  <2> QED
    <3> HIDE DEF q, z, a
    <3> QED BY <2>2, <2>3, <2>4
<1>8. ASSUME NEW t \in Thread, Stamp(t)
      PROVE  AllIssued'
  <2> DEFINE x == [th[t] EXCEPT !.pc = "lock", !.found.age = 0]
  <2>1. /\ th[t] \in Local /\ ThreadIssued(th[t], account, made, gone)
        /\ ThreadTimely(th[t], gone, cache)
    BY <1>threads
  <2>2. /\ x.pc = "lock" /\ x.password = th[t].password
        /\ x.found.password = th[t].found.password
        /\ x.elapsed = th[t].elapsed /\ x.answer = th[t].answer
    BY <2>1, StampType
  <2>3. x.user = th[t].user /\ x.valid = th[t].valid
    BY <2>1 DEF Local
  <2>4. Goto(t, x) /\ th[t].pc = "stamp" /\ UNCHANGED <<account, cache, made, gone>>
    BY <1>8 DEF Stamp
  <2> HIDE DEF x
  <2>5. x.found # None /\ Issued(made, x.user, x.found)
    BY <1>none, <2>1, <2>2, <2>3, <2>4 DEF ThreadIssued, ThreadTimely, Issued
  <2> QED BY <1>on, <2>2, <2>3, <2>4, <2>5
<1>9. ASSUME NEW t \in Thread, CopyCache(t)
      PROVE  AllIssued'
  <2> DEFINE m == [u \in User |-> IF CacheExpired(cache[u]) THEN None ELSE cache[u]]
             x == [th[t] EXCEPT !.pc = "store", !.copy = m]
  <2>1. th[t] \in Local /\ ThreadIssued(th[t], account, made, gone)
    BY <1>threads
  <2>2. \A u \in User : Issued(made, u, m[u])
    BY <1>store DEF Issued
  <2>3. Goto(t, x) /\ th[t].pc = "lock" /\ UNCHANGED <<account, cache, made, gone>>
    BY <1>9 DEF CopyCache
  <2> HIDE DEF m
  <2>4. /\ x.pc = "store" /\ x.copy = m /\ x.password = th[t].password
        /\ x.found = th[t].found /\ x.elapsed = th[t].elapsed /\ x.answer = th[t].answer
        /\ x.user = th[t].user /\ x.valid = th[t].valid
    BY <2>1 DEF Local
  <2> HIDE DEF x
  <2>5. x.found # None /\ Issued(made, x.user, x.found)
    BY <2>1, <2>3, <2>4 DEF ThreadIssued
  <2> QED BY <1>on, <2>2, <2>3, <2>4, <2>5
<1>10. ASSUME NEW t \in Thread, StoreCache(t)
       PROVE  AllIssued'
  <2> DEFINE x == [th[t] EXCEPT !.pc = "match", !.copy = Idle.copy]
  <2>1. /\ Goto(t, x) /\ th[t].pc = "store" /\ UNCHANGED <<account, made, gone>>
        /\ cache' = [th[t].copy EXCEPT ![th[t].user] = th[t].found]
    BY <1>10 DEF StoreCache
  <2>2. /\ th[t] \in Local /\ ThreadIssued(th[t], account, made, gone)
        /\ th[t].copy \in [User -> Entry]
    BY <1>threads DEF Local
  <2>3. /\ x.pc = "match" /\ x.password = th[t].password /\ x.found = th[t].found
        /\ x.elapsed = th[t].elapsed /\ x.answer = th[t].answer
        /\ x.user = th[t].user /\ x.valid = th[t].valid
    BY <2>2 DEF Local
  <2> HIDE DEF x
  <2>4. ASSUME NEW u \in User
        PROVE  Issued(made, u, cache'[u])
    <3>1. cache'[u] = IF u = th[t].user THEN th[t].found ELSE th[t].copy[u]
      BY <2>1, <2>2
    <3> QED BY <2>1, <2>2, <3>1 DEF ThreadIssued
  <2>5. x.answer = "denied" /\ x.valid => DeniedByOlder(x, made, gone)
    BY <2>2, <2>3 DEF ThreadIssued, DeniedByOlder
  <2>6. ThreadIssued(x, account, made, gone)
    BY <2>1, <2>2, <2>3, <2>5 DEF ThreadIssued
  <2>7. ASSUME NEW s \in Thread
        PROVE  ThreadIssued(th'[s], account, made, gone)
    <3>1. th'[s] = IF s = t THEN x ELSE th[s]
      BY <1>0, <2>1 DEF Goto
    <3> QED BY <1>threads, <2>6, <3>1
  <2> QED BY <1>timely, <1>store, <2>1, <2>4, <2>7 DEF AllIssued
<1>11. ASSUME NEW t \in Thread, Match(t)
       PROVE  AllIssued'
  <2> DEFINE a == IF th[t].found.password = th[t].password THEN "accepted" ELSE "denied"
             x == [th[t] EXCEPT !.pc = "done", !.answer = a, !.found = None]
  <2>1. Goto(t, x) /\ th[t].pc = "match" /\ UNCHANGED <<account, cache, made, gone>>
    BY <1>11 DEF Match, Answer
  <2>2. /\ th[t] \in Local /\ ThreadIssued(th[t], account, made, gone)
        /\ ThreadTimely(th[t], gone, cache)
    BY <1>threads
  <2>3. /\ x.pc = "done" /\ x.password = th[t].password /\ x.user = th[t].user
        /\ x.elapsed = th[t].elapsed /\ x.answer = a /\ x.valid = th[t].valid
    BY <2>2 DEF Local
  <2> HIDE DEF x
  <2> DEFINE q == th[t].found.password
  <2>4. q \in 1..Len(made) /\ made[q] = th[t].user
    BY <2>1, <2>2 DEF ThreadIssued, Issued
  <2>5. gone[q] <= Lifetime + MaxDelay + th[t].elapsed
    BY <1>0, <2>1, <2>2, <2>4 DEF ThreadTimely
  <2>6. x.answer = "denied" => q # x.password
    BY <2>3
  <2> HIDE DEF q, a
  <2>7. x.answer = "denied" => DeniedByOlder(x, made, gone)
    BY <2>3, <2>4, <2>5, <2>6 DEF DeniedByOlder
  <2>8. ThreadIssued(x, account, made, gone)
    BY <2>2, <2>3, <2>7 DEF ThreadIssued
  <2> QED BY <1>th, <2>1, <2>8
<1>12. ASSUME NEW t \in Thread, Respond(t)
       PROVE  AllIssued'
  <2>1. Idle.pc = "idle" /\ Idle.answer = "none" /\ ~Idle.valid
    BY ConstantTypes DEF Idle
  <2>2. ThreadIssued(Idle, account, made, gone)
    BY <2>1 DEF ThreadIssued
  <2> QED BY <1>12, <1>th, <2>2 DEF Respond
<1>13. ASSUME Tick
       PROVE  AllIssued'
  <2>1. /\ \A u \in User : account'[u] = Older(account[u], TTL + 1)
        /\ \A u \in User : cache'[u] = Older(cache[u], Lifetime + 1)
        /\ \A t \in Thread : th'[t] = OlderThread(th[t])
        /\ \A t \in Thread : th[t].pc # "idle" => th[t].elapsed < MaxDelay
        /\ made' = made
    BY <1>13 DEF Tick
  <2>2. ASSUME NEW q \in 1..Len(made)
        PROVE  gone[q] \in Nat /\ gone'[q] \in Nat /\ gone'[q] <= gone[q] + 1
    <3>1. q \in Password /\ gone[q] \in 0..(Window + 1)
      BY <1>0, <1>times DEF Password
    <3>2. gone'[q] \in {gone[q], Smaller(gone[q] + 1, Window + 1)}
      BY <1>13, <3>1 DEF Tick
    <3> QED BY <1>times, <3>1, <3>2 DEF Smaller
  <2>3. \A u \in User : account'[u].password = account[u].password
    BY <1>0, <2>1, OlderAccount
  <2>4. ASSUME NEW u \in User
        PROVE  Issued(made, u, cache'[u]) /\ Issued(made, u, account'[u])
    <3>1. Issued(made, u, cache'[u])
      BY <1>0, <1>store, <2>1, IssuedLater
    <3>2. Issued(made, u, account'[u])
      <4>1. account[u] = None => account'[u] = None
        BY <2>1 DEF Older
      <4> QED BY <1>store, <2>3, <4>1 DEF Issued
    <3> QED BY <3>1, <3>2
  <2>5. ASSUME NEW t \in Thread
        PROVE  ThreadIssued(th'[t], account', made, gone')
    <3> DEFINE x == th[t]
               y == OlderThread(x)
    <3>1. /\ x \in Local /\ ThreadIssued(x, account, made, gone)
          /\ x.found \in Entry /\ x.copy \in [User -> Entry] /\ x.user \in User
          /\ x.elapsed \in Nat
      BY <1>times, <1>threads DEF Local
    <3>2. /\ y.pc = x.pc /\ y.answer = x.answer /\ y.password = x.password
          /\ y.user = x.user /\ y.valid = x.valid
          /\ x.pc # "idle" => /\ y.elapsed = x.elapsed + 1
                              /\ y.found = Older(x.found, Lifetime + 1)
                              /\ \A u \in User : y.copy[u] = Older(x.copy[u], Lifetime + 1)
      BY <2>1, <3>1, OlderThreadType, OlderThreadRest
    <3>3. th'[t] = y
      BY <2>1
    <3> HIDE DEF x, y
    <3>4. ASSUME y.pc \in {"stamp", "lock", "store", "match"}
          PROVE  y.found # None /\ Issued(made, y.user, y.found)
      BY <3>1, <3>2, <3>4, OlderEntry, IssuedLater DEF ThreadIssued
    <3>5. ASSUME y.pc = "store", NEW u \in User
          PROVE  Issued(made, u, y.copy[u])
      BY <3>1, <3>2, <3>5, IssuedLater DEF ThreadIssued
    <3>6. y.valid => y.password # 0 /\ account'[y.user].password = y.password
      BY <2>3, <3>1, <3>2 DEF ThreadIssued
    <3>7. ASSUME y.answer = "denied", y.valid
          PROVE  DeniedByOlder(y, made, gone')
      <4>1. DeniedByOlder(x, made, gone)
        BY <3>1, <3>2, <3>7 DEF ThreadIssued
      <4>2. PICK q \in 1..Len(made) : /\ q # x.password /\ made[q] = x.user
                                      /\ gone[q] <= Lifetime + MaxDelay + x.elapsed
        BY <4>1 DEF DeniedByOlder
      <4>3. y.elapsed = x.elapsed + 1 /\ y.pc # "idle"
        BY <3>2, <4>1 DEF DeniedByOlder
      <4>4. gone'[q] <= Lifetime + MaxDelay + y.elapsed
        BY <1>times, <2>2, <3>1, <4>2, <4>3
      <4> QED BY <3>2, <4>2, <4>3, <4>4 DEF DeniedByOlder
    <3>8. ThreadIssued(y, account', made, gone')
      BY <3>4, <3>5, <3>6, <3>7 DEF ThreadIssued
    <3> QED BY <3>3, <3>8
  <2> QED BY <1>timely, <2>1, <2>4, <2>5 DEF AllIssued
<1>14. CASE UNCHANGED vars
  BY <1>14, <1>same DEF vars
<1> QED
  BY <1>1, <1>2, <1>3, <1>4, <1>5, <1>6, <1>7, <1>8, <1>9, <1>10, <1>11, <1>12, <1>13,
     <1>14 DEF Next, Controller, Handle

\* Nothing has been made in the initial state.
LEMMA IssuedFirst == Init => AllIssued
<1>1. Idle.pc = "idle" /\ Idle.answer = "none" /\ ~Idle.valid
  BY ConstantTypes DEF Idle
<1>2. \A a, m, g : ThreadIssued(Idle, a, m, g)
  BY <1>1 DEF ThreadIssued
<1> QED BY <1>2, TimelyFirst DEF Init, AllIssued, Issued

\* Credentials that stay valid while a request is handled are denied only if a
\* deleted account of the same name may still be cached (findAccount,
\* addToCache): never because the account was not there before.
THEOREM DenialsExplained == Spec => []NoFalseDenial
<1>1. AllIssued /\ [Next]_vars => AllIssued'
  BY IssuedKept
<1>2. AllIssued => NoFalseDenial
  <2> SUFFICES ASSUME AllIssued, NEW t \in Thread, th[t].answer = "denied", th[t].valid
               PROVE  \E q \in 1..Len(made) : /\ q # th[t].password /\ made[q] = th[t].user
                                              /\ gone[q] <= Window
    BY DEF NoFalseDenial
  <2>1. AuthTypeOK /\ ThreadIssued(th[t], account, made, gone)
    BY DEF AllIssued, Timely
  <2>2. PICK q \in 1..Len(made) :
          /\ q # th[t].password /\ made[q] = th[t].user
          /\ gone[q] <= Lifetime + MaxDelay + th[t].elapsed
    BY <2>1 DEF ThreadIssued, DeniedByOlder
  <2>3. th[t].elapsed \in 0..MaxDelay /\ Len(made) \in 0..MaxAccounts
    <3>1. made \in Seq(User) /\ Len(made) <= MaxAccounts
      BY <2>1 DEF AuthTypeOK
    <3>2. Len(made) \in Nat
      BY <3>1, LenProperties
    <3> QED BY <2>1, <3>1, <3>2, AuthAssumption DEF AuthTypeOK, Local
  <2>4. gone[q] \in 0..(Window + 1)
    <3>1. q \in Password
      BY <2>3, AuthAssumption DEF Password
    <3> QED BY <2>1, <3>1 DEF AuthTypeOK
  <2>5. gone[q] <= Window
    BY <2>2, <2>3, <2>4, TimeAssumption DEF Window
  <2> QED BY <2>2, <2>5
<1> QED BY <1>1, <1>2, IssuedFirst, PTL DEF Spec
=============================================================================
