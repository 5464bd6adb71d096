--------------------- MODULE ImageSecretCredentialsProofs ---------------------
(***************************************************************************)
(* ImageSecret implements Credentials, for all sets of CRs and registries  *)
(* and all bounds.                                                         *)
(***************************************************************************)
EXTENDS ImageSecretCredentials, ImageSecretProofs

-----------------------------------------------------------------------------
(* The steps of a worker, as the refinement mapping shows them.            *)

\* A step of c's worker, which is not about to write a Secret then.
Forgets(c) == w' = [w EXCEPT ![c] = w'[c]] /\ w'[c].pc # "writeSecret"

\* A worker that is not about to write a Secret has no pending credential.
LEMMA Forget ==
  ASSUME TypeOK, NEW c \in CR, Forgets(c)
  PROVE  /\ \A d \in CR : PendingCredential(d)' \in {PendingCredential(d), NoCredential}
         /\ w[c].pc # "writeSecret" =>
              \A d \in CR : PendingCredential(d)' = PendingCredential(d)
<1>1. PendingCredential(c)' = NoCredential
  BY DEF Forgets, PendingCredential, NoCredential
<1>2. ASSUME NEW d \in CR, d # c PROVE PendingCredential(d)' = PendingCredential(d)
  <2>1. w'[d] = w[d]
    BY <1>2 DEF TypeOK, Forgets
  <2> QED BY <2>1 DEF PendingCredential, NoCredential
<1>3. w[c].pc # "writeSecret" => PendingCredential(c) = NoCredential
  BY DEF PendingCredential
<1> QED BY <1>1, <1>2, <1>3

\* Steps that touch neither accounts nor Secrets and issue no password.
LEMMA DiscardStep ==
  ASSUME UNCHANGED <<passwords, accounts, secrets>>,
         \A d \in CR : PendingCredential(d)' \in {PendingCredential(d), NoCredential}
  PROVE  Abstract!Discard
BY DEF Abstract!Discard, AccountCredentials, SecretCredential

\* Steps that delete accounts.
LEMMA RevokeStep ==
  ASSUME accounts' \subseteq accounts, UNCHANGED <<passwords, secrets>>,
         \A d \in CR : PendingCredential(d)' = PendingCredential(d)
  PROVE  Abstract!Revoke
<1>1. AccountCredentials' \subseteq AccountCredentials
  BY DEF AccountCredentials
<1>2. \A d \in CR : SecretCredential(d)' = SecretCredential(d)
  BY DEF SecretCredential, NoCredential
<1> QED BY <1>1, <1>2 DEF Abstract!Revoke

\* The reconciler's first step loads what it will need, and publishes nothing.
LEMMA ReconcileRefines ==
  ASSUME TypeOK, NEW c \in CR, Reconcile(c)
  PROVE  Abstract!Discard
<1>1. UNCHANGED <<passwords, accounts, secrets>>
  BY DEF Reconcile, ReconcileNotFound, ReconcileDeleted, ReconcileNew, ReconcileUnavailable,
         ReconcileInSync, ReconcileRotate, ReconcileBcryptFails, Compare, Dequeue
<1>2. \/ UNCHANGED w
      \/ Forgets(c)
  <2>1. CASE ReconcileNotFound(c)
    BY <2>1 DEF ReconcileNotFound
  <2>2. CASE ReconcileDeleted(c)
    <3>1. ASSUME NEW step, step # "writeSecret", Load(c, step) PROVE Forgets(c)
      BY <3>1 DEF Load, Idle, TypeOK, Forgets
    <3> QED BY <2>2, <3>1 DEF ReconcileDeleted
  <2>3. CASE ReconcileNew(c)
    BY <2>3 DEF ReconcileNew, Load, Idle, TypeOK, Forgets
  <2>4. CASE ReconcileUnavailable(c)
    BY <2>4 DEF ReconcileUnavailable, Idle, TypeOK, Forgets
  <2>5. CASE ReconcileInSync(c)
    BY <2>5 DEF ReconcileInSync, Compare, Idle, TypeOK, Forgets
  <2>6. CASE ReconcileRotate(c)
    BY <2>6 DEF ReconcileRotate, Compare, Idle, TypeOK, Forgets
  <2>7. CASE ReconcileBcryptFails(c)
    BY <2>7 DEF ReconcileBcryptFails, Compare, Idle, TypeOK, Forgets
  <2> QED BY <2>1, <2>2, <2>3, <2>4, <2>5, <2>6, <2>7 DEF Reconcile
<1>3. CASE UNCHANGED w
  <2>1. \A d \in CR : PendingCredential(d)' = PendingCredential(d)
    BY <1>3 DEF PendingCredential, NoCredential
  <2> QED BY <1>1, <2>1, DiscardStep
<1>4. CASE Forgets(c)
  BY <1>1, <1>4, Forget, DiscardStep
<1> QED BY <1>2, <1>3, <1>4

\* A worker that returns has nothing to publish.
LEMMA ReturnForgets ==
  ASSUME TypeOK, NEW c \in CR, NEW a, NEW b, Return(c, a, b)
  PROVE  Forgets(c)
BY DEF Return, Idle, TypeOK, Forgets

\* Nor has one on the way to any other call than that of the Secret.
LEMMA GotoForgets ==
  ASSUME TypeOK, NEW c \in CR, NEW step, step # "writeSecret", Goto(c, step)
  PROVE  Forgets(c)
<1>1. [w[c] EXCEPT !.pc = step].pc = step
  BY DEF TypeOK, Worker
<1> QED BY <1>1 DEF Goto, TypeOK, Forgets

\* Nor has one on the way to the final status update.
LEMMA GotoReportForgets ==
  ASSUME TypeOK, NEW c \in CR, NEW a, NEW b, GotoReport(c, a, b)
  PROVE  Forgets(c)
<1>1. [w[c] EXCEPT !.pc = "report", !.cond = a, !.requeueAfter = b].pc = "report"
  BY DEF TypeOK, Worker
<1> QED BY <1>1 DEF GotoReport, TypeOK, Forgets

\* The calls that delete accounts revoke credentials.
LEMMA DeleteRefines ==
  ASSUME TypeOK, NEW c \in CR, DeleteAccounts(c) \/ DeleteOldAccounts(c)
  PROVE  Abstract!Revoke
<1>1. accounts' \subseteq accounts /\ UNCHANGED <<passwords, secrets>>
  BY DEF DeleteAccounts, DeleteOldAccounts, deleteOrphanAccounts
<1>2. w[c].pc # "writeSecret"
  BY DEF DeleteAccounts, DeleteOldAccounts
<1>3. Forgets(c)
  <2>1. CASE DeleteAccounts(c)
    <3>1. Goto(c, "removeFinalizer") \/ Return(c, TRUE, FALSE)
      BY <2>1 DEF DeleteAccounts
    <3> QED BY <3>1, GotoForgets, ReturnForgets
  <2>2. CASE DeleteOldAccounts(c)
    <3>1. Goto(c, "updateRotation")
      BY <2>2 DEF DeleteOldAccounts
    <3> QED BY <3>1, GotoForgets
  <2> QED BY <2>1, <2>2
<1>4. \A d \in CR : PendingCredential(d)' = PendingCredential(d)
  BY <1>2, <1>3, Forget
<1> QED BY <1>1, <1>4, RevokeStep

\* The calls that write the CR publish and revoke nothing.
LEMMA UpdateRefines ==
  ASSUME TypeOK, NEW c \in CR,
         \/ RemoveFinalizer(c) \/ AddFinalizer(c) \/ ReportUnsynced(c)
         \/ UpdateRotation(c) \/ Report(c)
  PROVE  Abstract!Discard
<1>1. UNCHANGED <<passwords, accounts, secrets>>
  BY DEF RemoveFinalizer, AddFinalizer, ReportUnsynced, UpdateRotation, Report
<1>2. Forgets(c)
  <2>1. CASE RemoveFinalizer(c) \/ Report(c) \/ ReportUnsynced(c)
    <3>1. \E a, b : Return(c, a, b)
      BY <2>1 DEF RemoveFinalizer, Report, ReportUnsynced
    <3> QED BY <3>1, ReturnForgets
  <2>2. CASE AddFinalizer(c)
    <3>1. PICK o : IF o = "ok" THEN Return(c, FALSE, FALSE)
                   ELSE w' = [w EXCEPT ![c] = [w[c] EXCEPT !.pc = "reportUnsynced",
                                                           !.cond = ErrorCond(o, "conflict")]]
      BY <2>2 DEF AddFinalizer
    <3>2. CASE o = "ok"
      BY <3>1, <3>2, ReturnForgets
    <3>3. CASE o # "ok"
      <4>1. w' = [w EXCEPT ![c] = [w[c] EXCEPT !.pc = "reportUnsynced",
                                               !.cond = ErrorCond(o, "conflict")]]
        BY <3>1, <3>3
      <4> QED BY <4>1 DEF TypeOK, Worker, Forgets
    <3> QED BY <3>2, <3>3
  <2>3. CASE UpdateRotation(c)
    <3> DEFINE i == Rotated(w[c].instance, w[c].registry)
    <3>1. PICK o : w' = [w EXCEPT ![c] =
            IF RotationStored(o)
            THEN [w[c] EXCEPT !.pc = "createAccount", !.base = i, !.instance = i]
            ELSE [w[c] EXCEPT !.pc = "report", !.instance = i, !.requeueAfter = FALSE,
                              !.cond = ErrorCond(o, "conflict")]]
      BY <2>3 DEF UpdateRotation
    <3> HIDE DEF i
    <3>2. CASE RotationStored(o)
      BY <3>1, <3>2 DEF TypeOK, Worker, Forgets
    <3>3. CASE ~RotationStored(o)
      BY <3>1, <3>3 DEF TypeOK, Worker, Forgets
    <3> QED BY <3>2, <3>3
  <2> QED BY <2>1, <2>2, <2>3
<1> QED BY <1>1, <1>2, Forget, DiscardStep

-----------------------------------------------------------------------------
(* The steps that issue and publish.                                       *)

\* A pending credential, or one in a Secret, is not the absent one.
LEMMA CredentialExists ==
  ASSUME NEW r \in Registry, NEW c, NEW n, NEW p, NEW u
  PROVE  Credential(r, c, n, p, u) # NoCredential
<1>1. Credential(r, c, n, p, u).registry = r /\ NoCredential.registry = NoRegistry
  BY DEF Credential, NoCredential
<1> QED BY <1>1, RegistryAssumption

\* createAccount issues a credential: that its name is not taken is the API
\* server's answer, that it becomes pending only after this answer is
\* AccountCreated.
LEMMA CreateAccountRefines ==
  ASSUME TypeInv, NEW c \in CR, CreateAccount(c)
  PROVE  Abstract!Issue
<1> TypeOK
  BY DEF TypeInv
<1> DEFINE x == Credential(w[c].registry, c, w[c].instance.rotation, passwords + 1,
                           w[c].instance.uid)
<1>1. passwords' = passwords + 1 /\ UNCHANGED secrets
  BY DEF CreateAccount
<1>2. \A d \in CR : SecretCredential(d)' = SecretCredential(d)
  BY <1>1 DEF SecretCredential, NoCredential
<1>3. PICK o \in Outcome :
        /\ Respond(o, ~NameTaken(NewAccount(c)))
        /\ accounts' = IF Applied(o) THEN accounts \cup {NewAccount(c)} ELSE accounts
        /\ w' = [w EXCEPT ![c] =
             IF AccountCreated(o)
             THEN [w[c] EXCEPT !.pc = "writeSecret", !.password = passwords + 1]
             ELSE [w[c] EXCEPT !.pc = "report", !.requeueAfter = FALSE,
                               !.cond = ErrorCond(o, "accountExists")]]
  BY DEF CreateAccount
<1>4. w[c] \in Worker /\ w[c].pc = "createAccount"
  BY DEF CreateAccount, TypeOK
<1>5. \A d \in CR \ {c} : PendingCredential(d)' = PendingCredential(d)
  <2>1. \A d \in CR \ {c} : w'[d] = w[d]
    BY <1>3 DEF TypeOK
  <2> QED BY <2>1 DEF PendingCredential, NoCredential
<1>6. AccountCreated(o) => PendingCredential(c)' = x
  <2>1. ASSUME AccountCreated(o)
        PROVE  /\ w'[c].pc = "writeSecret" /\ w'[c].registry = w[c].registry
               /\ w'[c].instance = w[c].instance /\ w'[c].password = passwords + 1
    BY <1>3, <1>4, <2>1 DEF TypeOK, Worker
  <2> QED BY <2>1 DEF PendingCredential
<1>7. ~AccountCreated(o) => \A d \in CR : PendingCredential(d)' = PendingCredential(d)
  <2>1. ASSUME ~AccountCreated(o) PROVE w'[c].pc = "report"
    BY <1>3, <1>4, <2>1 DEF TypeOK, Worker
  <2>2. PendingCredential(c) = NoCredential
    BY <1>4 DEF PendingCredential
  <2> QED BY <1>5, <2>1, <2>2 DEF PendingCredential, NoCredential
<1>8. CASE Applied(o)
  <2>1. ~NameTaken(NewAccount(c))
    BY <1>3, <1>8 DEF Respond, Applied
  <2>2. AccountCredentials' = AccountCredentials \cup {x}
    <3>1. c # Manual
      BY CRAssumption
    <3> QED BY <1>3, <1>8, <3>1 DEF AccountCredentials, NewAccount
  <2>3. ~\E y \in AccountCredentials : Abstract!SameName(x, y)
    <3> SUFFICES ASSUME NEW a \in accounts,
                        Abstract!SameName(x, Credential(a.registry, a.cr, a.rotation,
                                                        a.password, a.creator))
                 PROVE  FALSE
      BY DEF AccountCredentials
    <3> QED BY <2>1 DEF Abstract!SameName, NameTaken, NewAccount, Credential
  <2>4. x.cr = c /\ x.password = passwords + 1
    BY DEF Credential
  <2> HIDE DEF x
  <2>5. [d \in CR |-> PendingCredential(d)]' \in
          {[d \in CR |-> PendingCredential(d)],
           [[d \in CR |-> PendingCredential(d)] EXCEPT ![x.cr] = x]}
    BY <1>5, <1>6, <1>7, <2>4
  <2> QED BY <1>1, <1>2, <2>2, <2>3, <2>4, <2>5 DEF Abstract!Issue
<1>9. CASE ~Applied(o)
  <2>1. ~AccountCreated(o)
    BY <1>9 DEF AccountCreated, Applied
  <2>2. AccountCredentials' = AccountCredentials
    BY <1>3, <1>9 DEF AccountCredentials
  <2> QED BY <1>1, <1>2, <1>7, <2>1, <2>2 DEF Abstract!Issue
<1> QED BY <1>8, <1>9

\* What is pending has a password: it tells the credentials in a Secret that
\* users have left alone.
PendingHavePasswords ==
  \A c \in CR : PendingCredential(c) # NoCredential => PendingCredential(c).password # 0

\* writeSecret publishes what is pending or, if it is not applied, forgets it.
LEMMA WriteSecretRefines ==
  ASSUME TypeInv, PendingHavePasswords, NEW c \in CR, WriteSecret(c)
  PROVE  Abstract!Publish(c) \/ Abstract!Discard
<1> TypeOK
  BY DEF TypeInv
<1>1. UNCHANGED <<passwords, accounts>>
  BY DEF WriteSecret
<1>2. PICK o \in Outcome :
        /\ secrets' = IF Applied(o) THEN [secrets EXCEPT ![c] = NewSecret(c)] ELSE secrets
        /\ \E a, b : GotoReport(c, a, b)
  BY DEF WriteSecret
<1>3. Forgets(c)
  BY <1>2, GotoReportForgets
<1>4. AccountCredentials' = AccountCredentials
  BY <1>1 DEF AccountCredentials
<1>5. CASE Applied(o)
  <2>1. w[c].pc = "writeSecret" /\ w[c].registry \in Registry
    BY DEF WriteSecret, TypeInv, RotationHasTarget, Rotating
  <2>2. PendingCredential(c) # NoCredential
    BY <2>1, CredentialExists DEF PendingCredential
  <2>3. secrets'[c] = NewSecret(c) /\ \A d \in CR \ {c} : secrets'[d] = secrets[d]
    BY <1>2, <1>5 DEF TypeOK
  <2>4. w[c].password # 0
    BY <2>1, <2>2 DEF PendingHavePasswords, PendingCredential, Credential
  <2>5. SecretCredential(c)' = PendingCredential(c)
    BY <2>1, <2>3, <2>4 DEF SecretCredential, PendingCredential, NewSecret
  <2>6. \A d \in CR \ {c} : SecretCredential(d)' = SecretCredential(d)
    BY <2>3 DEF SecretCredential, NoCredential
  <2>7. PendingCredential(c)' = NoCredential
    BY <1>3 DEF Forgets, PendingCredential, NoCredential
  <2>8. \A d \in CR \ {c} : PendingCredential(d)' = PendingCredential(d)
    <3>1. \A d \in CR \ {c} : w'[d] = w[d]
      BY <1>3 DEF Forgets, TypeOK
    <3> QED BY <3>1 DEF PendingCredential, NoCredential
  <2> QED BY <1>1, <1>4, <2>2, <2>5, <2>6, <2>7, <2>8 DEF Abstract!Publish
<1>6. CASE ~Applied(o)
  BY <1>1, <1>2, <1>3, <1>6, Forget, DiscardStep
<1> QED BY <1>5, <1>6

-----------------------------------------------------------------------------
(* The rest.                                                               *)

\* Caches, timers, crashes, users and other controllers: what they do to
\* credentials is to withdraw, to revoke or to forget them.
LEMMA RestRefines ==
  ASSUME TypeInv, Rest
  PROVE  Abstract!Discard \/ Abstract!Revoke \/ \E c \in CR : Abstract!Withdraw(c)
<1> TypeOK
  BY DEF TypeInv
<1>1. ASSUME UNCHANGED w
      PROVE  \A d \in CR : PendingCredential(d)' = PendingCredential(d)
  BY <1>1 DEF PendingCredential, NoCredential
<1>2. ASSUME UNCHANGED <<w, passwords, accounts, secrets>>
      PROVE  Abstract!Discard
  BY <1>1, <1>2, DiscardStep
<1>3. CASE \/ \E c \in CR : \/ WatchCR(c) \/ WatchSecret(c) \/ RequeueAfter(c)
                            \/ DeleteCR(c) \/ \E r \in RegistryRefs : CreateCR(c, r) \/ SetRegistryRef(c, r)
           \/ WatchAccounts \/ \E a \in accounts : PassRotationInterval(a)
           \/ \E r \in Registry : ChangeRegistry(r)
  <2>1. UNCHANGED <<w, passwords, accounts, secrets>>
    BY <1>3 DEF WatchCR, WatchSecret, RequeueAfter, DeleteCR, CreateCR, SetRegistryRef,
                WatchAccounts, PassRotationInterval, ChangeRegistry, operatorVars
  <2> QED BY <1>2, <2>1
<1>4. CASE Crash
  <2>1. UNCHANGED <<passwords, accounts, secrets>> /\ w' = [c \in CR |-> Idle]
    BY <1>4 DEF Crash
  <2>2. \A d \in CR : PendingCredential(d)' = NoCredential
    BY <2>1 DEF PendingCredential, Idle, NoCredential
  <2> QED BY <2>1, <2>2, DiscardStep
<1>5. ASSUME NEW a \in accounts, ExpireAccount(a)
      PROVE  Abstract!Revoke
  <2>1. UNCHANGED <<w, passwords, secrets>> /\ accounts' \subseteq accounts
    BY <1>5 DEF ExpireAccount, operatorVars
  <2> QED BY <1>1, <2>1, RevokeStep
<1>6. ASSUME NEW c \in CR, EditSecret(c) \/ CollectGarbage(c)
      PROVE  Abstract!Discard \/ Abstract!Withdraw(c)
  <2>1. UNCHANGED <<w, passwords, accounts>>
    BY <1>6 DEF EditSecret, CollectGarbage, operatorVars
  <2>2. PICK s \in {NoSecret, [secrets[c] EXCEPT !.annotation = 0],
                   Tampered(secrets[c]), Cleared(secrets[c])} :
          secrets' = [secrets EXCEPT ![c] = s] /\ secrets[c].owner # 0
    BY <1>6 DEF EditSecret, CollectGarbage
  <2>3. AccountCredentials' = AccountCredentials
    BY <2>1 DEF AccountCredentials
  <2>4. \A d \in CR \ {c} : SecretCredential(d)' = SecretCredential(d)
    <3>1. \A d \in CR \ {c} : secrets'[d] = secrets[d]
      BY <2>2 DEF TypeOK
    <3> QED BY <3>1 DEF SecretCredential, NoCredential
  <2>5. secrets'[c] = s
    BY <2>2 DEF TypeOK
  <2>6. CASE s \in {NoSecret, Tampered(secrets[c]), Cleared(secrets[c])}
    <3>0. s.password = 0
      <4>1. secrets[c] \in SecretObject
        BY DEF TypeOK
      <4>2. /\ NoSecret.password = 0 /\ Tampered(secrets[c]).password = 0
            /\ Cleared(secrets[c]).password = 0
        BY <4>1 DEF NoSecret, Tampered, Cleared, SecretObject
      <4> QED BY <2>6, <4>2
    <3>1. SecretCredential(c)' = NoCredential
      BY <2>5, <3>0 DEF SecretCredential
    <3> QED BY <1>1, <2>1, <2>3, <2>4, <3>1 DEF Abstract!Withdraw
  <2>7. CASE s = [secrets[c] EXCEPT !.annotation = 0]
    <3>1. /\ s.owner = secrets[c].owner /\ s.registry = secrets[c].registry
          /\ s.rotation = secrets[c].rotation /\ s.password = secrets[c].password
      BY <2>7 DEF TypeOK, SecretObject
    <3>3. SecretCredential(c)' = SecretCredential(c)
      BY <2>5, <3>1 DEF SecretCredential
    <3> QED BY <1>1, <2>1, <2>3, <2>4, <3>3 DEF Abstract!Discard
  <2> QED BY <2>2, <2>6, <2>7
<1> QED BY <1>3, <1>4, <1>5, <1>6 DEF Rest, Environment

\* Passwords are generated before accounts are created.
LEMMA PendingStep ==
  TypeInv /\ PendingHavePasswords /\ [Next]_vars => PendingHavePasswords'
<1> SUFFICES ASSUME TypeInv, PendingHavePasswords, [Next]_vars PROVE PendingHavePasswords'
  OBVIOUS
<1> TypeOK
  BY DEF TypeInv
<1>1. ASSUME \A d \in CR : PendingCredential(d)' \in {PendingCredential(d), NoCredential}
      PROVE  PendingHavePasswords'
  <2> SUFFICES ASSUME NEW d \in CR, PendingCredential(d)' # NoCredential
               PROVE  PendingCredential(d)'.password # 0
    BY DEF PendingHavePasswords, NoCredential
  <2>1. PendingCredential(d)' = PendingCredential(d)
    BY <1>1
  <2> QED BY <2>1 DEF PendingHavePasswords
<1>2. ASSUME Abstract!Discard \/ Abstract!Revoke \/ \E c \in CR : Abstract!Withdraw(c)
      PROVE  PendingHavePasswords'
  <2>1. \A d \in CR : PendingCredential(d)' \in {PendingCredential(d), NoCredential}
    BY <1>2 DEF Abstract!Discard, Abstract!Revoke, Abstract!Withdraw
  <2> QED BY <1>1, <2>1
<1>3. ASSUME NEW c \in CR, CreateAccount(c) PROVE PendingHavePasswords'
  <2>1. PICK o : w' = [w EXCEPT ![c] =
             IF AccountCreated(o)
             THEN [w[c] EXCEPT !.pc = "writeSecret", !.password = passwords + 1]
             ELSE [w[c] EXCEPT !.pc = "report", !.requeueAfter = FALSE,
                               !.cond = ErrorCond(o, "accountExists")]]
    BY <1>3 DEF CreateAccount
  <2>2. w[c] \in Worker /\ passwords + 1 # 0
    BY DEF TypeOK
  <2>3. w'[c].pc = "writeSecret" => w'[c].password # 0
    BY <2>1, <2>2 DEF TypeOK, Worker
  <2>4. \A d \in CR \ {c} : PendingCredential(d)' = PendingCredential(d)
    <3>1. \A d \in CR \ {c} : w'[d] = w[d]
      BY <2>1 DEF TypeOK
    <3> QED BY <3>1 DEF PendingCredential, NoCredential
  <2>5. PendingCredential(c)' # NoCredential => PendingCredential(c)'.password # 0
    BY <2>3 DEF PendingCredential, Credential, NoCredential
  <2> QED BY <2>4, <2>5 DEF PendingHavePasswords, NoCredential
<1>4. ASSUME NEW c \in CR, WriteSecret(c) PROVE PendingHavePasswords'
  <2>1. \E a, b : GotoReport(c, a, b)
    BY <1>4 DEF WriteSecret
  <2> QED BY <1>1, <2>1, GotoReportForgets, Forget
<1>5. ASSUME NEW c \in CR, APICall(c) PROVE PendingHavePasswords'
  BY <1>2, <1>3, <1>4, <1>5, DeleteRefines, UpdateRefines DEF APICall
<1>6. CASE UNCHANGED vars
  BY <1>6 DEF vars, PendingHavePasswords, PendingCredential, NoCredential
<1> QED BY <1>2, <1>5, <1>6, NextCases, ReconcileRefines, RestRefines

\* ImageSecret implements Credentials: whatever fails, is repeated or comes
\* late, accounts, Secrets and generated passwords behave as promised.
THEOREM Refinement == Spec => ImplementsCredentials
<1>1. Init => Abstract!CredentialsInit
  <2> SUFFICES ASSUME Init PROVE Abstract!CredentialsInit
    OBVIOUS
  <2>1. passwords = 0 /\ AccountCredentials = {}
    BY DEF Init, AccountCredentials, ManualAccount
  <2>2. \A c \in CR : PendingCredential(c) = NoCredential /\ SecretCredential(c) = NoCredential
    BY DEF Init, PendingCredential, SecretCredential, Idle, NoSecret
  <2> QED BY <2>1, <2>2 DEF Abstract!CredentialsInit
<1>2. TypeInv /\ PendingHavePasswords /\ [Next]_vars
        => [Abstract!CredentialsNext]_(Abstract!credentialVars)
  <2> SUFFICES ASSUME TypeInv, PendingHavePasswords, [Next]_vars
               PROVE  [Abstract!CredentialsNext]_(Abstract!credentialVars)
    OBVIOUS
  <2> TypeOK
    BY DEF TypeInv
  <2>1. ASSUME NEW c \in CR, Reconcile(c) PROVE Abstract!CredentialsNext
    BY <2>1, ReconcileRefines DEF Abstract!CredentialsNext
  <2>2. ASSUME NEW c \in CR, APICall(c) PROVE Abstract!CredentialsNext
    BY <2>2, DeleteRefines, UpdateRefines, CreateAccountRefines, WriteSecretRefines
    DEF APICall, Abstract!CredentialsNext
  <2>3. CASE Rest
    BY <2>3, RestRefines DEF Abstract!CredentialsNext
  <2>4. CASE UNCHANGED vars
    BY <2>4 DEF vars, Abstract!credentialVars, AccountCredentials, PendingCredential,
                SecretCredential, NoCredential
  <2> QED BY <2>1, <2>2, <2>3, <2>4, NextCases
<1>3. Init => TypeInv /\ PendingHavePasswords
  BY InitType DEF TypeInv, Init, RotationHasTarget, Rotating, Idle,
                  PendingHavePasswords, PendingCredential
<1> QED
  BY <1>1, <1>2, <1>3, TypeStep, PendingStep, PTL
  DEF Spec, ImplementsCredentials, Abstract!CredentialsSpec
=============================================================================
