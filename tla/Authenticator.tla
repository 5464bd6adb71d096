---------------------------- MODULE Authenticator ----------------------------
(***************************************************************************)
(* The Authenticator (pkg/auth), which the registry's token service asks   *)
(* whether a user name and a password belong to an ImageRegistryAccount,   *)
(* and the account controller (pkg/controller/imageregistryaccount), which *)
(* deletes accounts when their TTL is over.                                *)
(*                                                                         *)
(* The Authenticator keeps what it finds for ten minutes in a map that is  *)
(* replaced, never changed: it is read without the lock that writers take. *)
(* Requests run in threads; a thread can be overtaken between any two of   *)
(* its steps by others, by time and by the accounts' creators.             *)
(*                                                                         *)
(* Time is discrete and kept as ages: of accounts since they were created, *)
(* of cached accounts since LastSeen, of requests since they came in.      *)
(***************************************************************************)
EXTENDS Integers, Sequences

CONSTANTS
  User,         \* names of accounts
  Permanent,    \* those of accounts made by hand, which have no TTL
  Thread,       \* threads that handle requests
  TTL,          \* time to live of an account
  Slack,        \* how much later than that the controller looks again
  Lifetime,     \* of an entry of the Authenticator's cache
  MaxDelay,     \* assumed: a request is handled within this time
  MaxAccounts,  \* bound: accounts created altogether
  MaxFaults     \* bound: failed API calls

ASSUME TimeAssumption ==
  /\ TTL \in Nat \ {0} /\ Slack \in Nat \ {0}
  /\ Lifetime \in Nat /\ MaxDelay \in Nat

ASSUME AuthAssumption ==
  /\ User # {} /\ Permanent \subseteq User /\ "free" \notin Thread
  /\ MaxAccounts \in Nat /\ MaxFaults \in Nat

VARIABLES
  account,   \* the API server's account of each name
  informer,  \* the account controller's cached copy of it
  queue,     \* requests in the account controller's work queue
  delay,     \* time left until a request comes back (Never: none does)
  cache,     \* the Authenticator's cache
  lock,      \* the thread that holds its lock
  th,        \* local variables of the threads
  made,      \* names of the accounts created so far, in order
  gone,      \* per account created, the time since it has been deleted
  faults

controllerVars == <<informer, queue, delay>>
authVars == <<cache, lock, th>>
vars == <<account, informer, queue, delay, cache, lock, th, made, gone, faults>>

-----------------------------------------------------------------------------
(* Accounts are told apart by their passwords, numbered from 1 in the order *)
(* of their creation.  0 is the empty password.                            *)

Password == 1..MaxAccounts

\* Ages are not counted beyond the time that makes a difference.
AccountAge == 0..(TTL + 1)
EntryAge == 0..(Lifetime + 1)

\* The longest time that a deleted account can still be taken for valid.
Window == Lifetime + 2 * MaxDelay

Never == TTL + Slack + 1

\* An account in the API server, or an entry of the cache.
None == [password |-> 0, age |-> 0]

\* A request's local state: its next step, user and password, the account
\* found (password, age of LastSeen), the map it copied, how long it has been
\* handled, the answer and, for the properties, whether the credentials have
\* been valid since it came in.
Idle == [pc |-> "idle", user |-> CHOOSE u \in User : TRUE, password |-> 0,
         found |-> None, copy |-> [u \in User |-> None], elapsed |-> 0,
         answer |-> "none", valid |-> FALSE]

Init ==
  /\ account = [u \in User |-> None]
  /\ informer = account
  /\ queue = {} /\ delay = [u \in User |-> Never]
  /\ cache = [u \in User |-> None]
  /\ lock = "free"
  /\ th = [t \in Thread |-> Idle]
  /\ made = <<>> /\ gone = [p \in Password |-> 0]
  /\ faults = 0

\* An API call succeeds, is refused (there is no account), is lost on the way
\* or, although applied, reported as failed.
Outcome == {"ok", "refused", "lost", "timeout"}

Applied(o) == o \in {"ok", "timeout"}

Outage(o) ==
  /\ faults' = IF o \in {"lost", "timeout"} THEN faults + 1 ELSE faults
  /\ faults' <= MaxFaults

\* Fault: the error of a call is dropped.
FailedNever(o) == FALSE

Failed(o) == o # "ok"

-----------------------------------------------------------------------------
(* Accounts: the operator, or a user, creates them; finalizers delete them *)
(* at any time.  A name is used again when a CR is created anew.           *)

CreateAccount(u) ==
  /\ account[u] = None /\ Len(made) < MaxAccounts
  /\ made' = Append(made, u)
  /\ account' = [account EXCEPT ![u] = [password |-> Len(made) + 1, age |-> 0]]
  /\ UNCHANGED <<controllerVars, authVars, gone, faults>>

\* No request has had valid credentials all the time once u is deleted.
Invalidate(u) ==
  th' = [t \in Thread |-> IF th[t].user = u THEN [th[t] EXCEPT !.valid = FALSE] ELSE th[t]]

DeleteAccount(u) ==
  /\ account[u] # None
  /\ account' = [account EXCEPT ![u] = None]
  /\ Invalidate(u)
  /\ UNCHANGED <<controllerVars, cache, lock, made, gone, faults>>

-----------------------------------------------------------------------------
(* The account controller.                                                 *)

Watch(u) ==
  /\ informer[u] # account[u]
  /\ informer' = [informer EXCEPT ![u] = account[u]]
  /\ queue' = queue \cup {u}
  /\ UNCHANGED <<account, delay, authVars, made, gone, faults>>

\* Expired: Now is after the creation time plus TTL.
Expired(u, a) == u \notin Permanent /\ a.age > TTL

Smaller(a, b) == IF a < b THEN a ELSE b

\* Nothing to delete: come back when the TTL is over, if there is one.  Of
\* two delays for the same request the work queue keeps the shorter one.
ReconcileAlive(u) ==
  /\ u \in queue
  /\ informer[u] = None \/ ~Expired(u, informer[u])
  /\ queue' = queue \ {u}
  /\ delay' = IF informer[u] = None \/ u \in Permanent THEN delay
              ELSE [delay EXCEPT ![u] = Smaller(@, TTL - informer[u].age + Slack)]
  /\ UNCHANGED <<account, informer, authVars, made, gone, faults>>

\* Delete the account of this name.  If that fails (there is none, or the
\* call is lost), the error is returned and the request comes back.
ReconcileExpired(u) ==
  /\ u \in queue
  /\ informer[u] # None /\ Expired(u, informer[u])
  /\ \E o \in Outcome :
       /\ IF account[u] = None THEN o \in {"refused", "lost"} ELSE o # "refused"
       /\ Outage(o)
       /\ IF Applied(o) THEN account' = [account EXCEPT ![u] = None] /\ Invalidate(u)
                        ELSE UNCHANGED <<account, th>>
       /\ queue' = IF Failed(o) THEN queue ELSE queue \ {u}
  /\ UNCHANGED <<informer, delay, cache, lock, made, gone>>

RequeueAfter(u) ==
  /\ delay[u] = 0
  /\ delay' = [delay EXCEPT ![u] = Never]
  /\ queue' = queue \cup {u}
  /\ UNCHANGED <<account, informer, authVars, made, gone, faults>>

Controller(u) == ReconcileAlive(u) \/ ReconcileExpired(u)

-----------------------------------------------------------------------------
(* Authenticate                                                            *)

Goto(t, x) == th' = [th EXCEPT ![t] = x]

\* "denied" stands for no labels and no error, which the plugin hands on as a
\* success without labels: the registry's ACL grants nothing to that.
Answer(t, x) == Goto(t, [th[t] EXCEPT !.pc = "done", !.answer = x, !.found = None])

\* A request with an empty password is denied, any other is looked up.
Request(t, u, p) ==
  /\ th[t].pc = "idle"
  /\ Goto(t, [Idle EXCEPT !.pc = IF p = 0 THEN "done" ELSE "find",
                          !.answer = IF p = 0 THEN "denied" ELSE "none",
                          !.user = u, !.password = p,
                          !.valid = p # 0 /\ account[u].password = p])
  /\ UNCHANGED <<account, controllerVars, cache, lock, made, gone, faults>>

\* Fault: entries do not expire.
CacheExpiredNever(x) == FALSE

CacheExpired(x) == x.age > Lifetime

\* findAccount: a.cache is read without the lock.
FindCached(t) ==
  LET x == cache[th[t].user] IN
  /\ th[t].pc = "find"
  /\ Goto(t, IF x # None /\ ~CacheExpired(x)
             THEN [th[t] EXCEPT !.pc = "match", !.found = x]
             ELSE [th[t] EXCEPT !.pc = "get"])
  /\ UNCHANGED <<account, controllerVars, cache, lock, made, gone, faults>>

\* The API server is asked.  That there is no account is not remembered.
Get(t) ==
  LET x == account[th[t].user] IN
  /\ th[t].pc = "get"
  /\ \E o \in {"ok", "lost"} :
       /\ Outage(o)
       /\ IF o = "lost" THEN Answer(t, "error")
          ELSE IF x = None THEN Answer(t, "denied")
          ELSE Goto(t, [th[t] EXCEPT !.pc = "stamp",
                                     !.found = [password |-> x.password, age |-> 0]])
  /\ UNCHANGED <<account, controllerVars, cache, lock, made, gone>>

\* LastSeen is set when the answer has arrived.
Stamp(t) ==
  /\ th[t].pc = "stamp"
  /\ Goto(t, [th[t] EXCEPT !.pc = "lock", !.found.age = 0])
  /\ UNCHANGED <<account, controllerVars, cache, lock, made, gone, faults>>

\* Fault: addToCache does not lock.
LockFreeAlways == TRUE

LockFree == lock = "free"

\* addToCache: lock and copy the entries that have not expired ...
CopyCache(t) ==
  /\ th[t].pc = "lock"
  /\ LockFree
  /\ lock' = t
  /\ Goto(t, [th[t] EXCEPT !.pc = "store",
                !.copy = [u \in User |-> IF CacheExpired(cache[u]) THEN None ELSE cache[u]]])
  /\ UNCHANGED <<account, controllerVars, cache, made, gone, faults>>

Unlocked(t) == "free"

\* ... add the new one, replace the map and unlock.
StoreCache(t) ==
  /\ th[t].pc = "store"
  /\ cache' = [th[t].copy EXCEPT ![th[t].user] = th[t].found]
  /\ lock' = Unlocked(t)
  /\ Goto(t, [th[t] EXCEPT !.pc = "match", !.copy = Idle.copy])
  /\ UNCHANGED <<account, controllerVars, made, gone, faults>>

\* MatchPassword against the hash found: one password has it.
Match(t) ==
  /\ th[t].pc = "match"
  /\ Answer(t, IF th[t].found.password = th[t].password THEN "accepted" ELSE "denied")
  /\ UNCHANGED <<account, controllerVars, cache, lock, made, gone, faults>>

Respond(t) ==
  /\ th[t].pc = "done"
  /\ Goto(t, Idle)
  /\ UNCHANGED <<account, controllerVars, cache, lock, made, gone, faults>>

Handle(t) ==
  \/ FindCached(t) \/ Get(t) \/ Stamp(t) \/ CopyCache(t) \/ StoreCache(t)
  \/ Match(t) \/ Respond(t)

-----------------------------------------------------------------------------
(* Time passes for everything that has an age or a delay.                  *)

Older(x, max) == IF x = None THEN None ELSE [x EXCEPT !.age = Smaller(@ + 1, max)]

OlderThread(x) ==
  IF x.pc = "idle" THEN x
  ELSE [x EXCEPT !.elapsed = @ + 1,
                 !.found = Older(@, Lifetime + 1),
                 !.copy = [u \in User |-> Older(@[u], Lifetime + 1)]]

Tick ==
  /\ \A t \in Thread : th[t].pc # "idle" => th[t].elapsed < MaxDelay
  /\ account' = [u \in User |-> Older(account[u], TTL + 1)]
  /\ informer' = [u \in User |-> Older(informer[u], TTL + 1)]
  /\ delay' = [u \in User |-> IF delay[u] \in {0, Never} THEN delay[u] ELSE delay[u] - 1]
  /\ cache' = [u \in User |-> Older(cache[u], Lifetime + 1)]
  /\ th' = [t \in Thread |-> OlderThread(th[t])]
  /\ gone' = [p \in Password |->
                IF p > Len(made) \/ \E u \in User : account[u].password = p THEN gone[p]
                ELSE Smaller(gone[p] + 1, Window + 1)]
  /\ UNCHANGED <<queue, lock, made, faults>>

Next ==
  \/ \E u \in User : CreateAccount(u) \/ DeleteAccount(u)
                     \/ Watch(u) \/ Controller(u) \/ RequeueAfter(u)
  \/ \E t \in Thread : \/ \E u \in User, p \in 0..Len(made) : Request(t, u, p)
                       \/ Handle(t)
  \/ Tick

Spec == Init /\ [][Next]_vars

-----------------------------------------------------------------------------
(* Properties.                                                             *)

Entry == [password: 0..MaxAccounts, age: EntryAge]

Local == [pc: {"idle", "find", "get", "stamp", "lock", "store", "match", "done"},
          user: User, password: 0..MaxAccounts, found: Entry, copy: [User -> Entry],
          elapsed: 0..MaxDelay, answer: {"none", "accepted", "denied", "error"},
          valid: BOOLEAN]

\* Types; and the map is replaced only by the one thread that holds the lock
\* (addToCache).
AuthTypeOK ==
  /\ account \in [User -> [password: 0..MaxAccounts, age: AccountAge]]
  /\ informer \in [User -> [password: 0..MaxAccounts, age: AccountAge]]
  /\ queue \subseteq User /\ delay \in [User -> 0..Never]
  /\ cache \in [User -> Entry]
  /\ lock \in Thread \cup {"free"} /\ th \in [Thread -> Local]
  /\ \A t \in Thread : th[t].pc = "store" <=> lock = t
  /\ made \in Seq(User) /\ Len(made) <= MaxAccounts
  /\ gone \in [Password -> 0..(Window + 1)] /\ faults \in Nat

\* The credentials of a deleted account are accepted no longer than the cache
\* lifetime allows: ten minutes, the time between fetching the account and
\* setting LastSeen and the time the request itself takes (findAccount).
AcceptedNotLongGone ==
  \A t \in Thread : th[t].answer = "accepted" => gone[th[t].password] <= Window

\* Credentials that are valid all the time a request is handled are denied
\* only when a deleted account of the same name may still be cached: that an
\* account does not exist is never cached, and a slow thread cannot bring back
\* an outdated account for long (findAccount, addToCache).
NoFalseDenial ==
  \A t \in Thread : th[t].answer = "denied" /\ th[t].valid =>
    \E q \in 1..Len(made) : /\ q # th[t].password /\ made[q] = th[t].user
                            /\ gone[q] <= Window

\* A cached account is dropped only when it has expired: threads that add
\* accounts at the same time do not undo each other's work (addToCache).
FreshEntriesStay ==
  [][\A u \in User : cache[u] # None /\ ~CacheExpired(cache[u]) => cache'[u] # None]_vars

\* An account with a TTL never waits for its expiry in vain: unless the
\* controller's cache is behind or its request is queued, a delay is running
\* that ends at most Slack after the account's TTL, even if a delete call has
\* failed and the name was used before ("Delete account if expired").
ExpiryScheduled ==
  \A u \in User \ Permanent : account[u] # None =>
    \/ informer[u] # account[u] \/ u \in queue
    \/ delay[u] <= TTL + Slack - account[u].age
=============================================================================
