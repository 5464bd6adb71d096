--------------------------- MODULE CredentialsProofs ---------------------------
(***************************************************************************)
(* What Credentials promises holds for any set of CRs.                     *)
(***************************************************************************)
EXTENDS Credentials, TLAPS

\* A credential that can be seen has a password issued so far, and only one
\* has it; what is pending is newer than what is published.
Counted ==
  /\ issued \in Nat
  /\ pending = [c \in CR |-> pending[c]] /\ published = [c \in CR |-> published[c]]
  /\ \A x \in InUse : x.password \in 1..issued
  /\ \A c \in CR : pending[c] # NoCredential =>
       /\ pending[c].cr = c
       /\ published[c] # NoCredential => published[c].password < pending[c].password

CredentialsInv == Counted /\ OwnPasswords

\* What is in use after a step was so before, but for one new credential.
LEMMA InUseMember ==
  ASSUME NEW x
  PROVE  x \in InUse <=> /\ x # NoCredential
                         /\ \/ x \in valid
                            \/ \E c \in CR : x = pending[c] \/ x = published[c]
BY DEF InUse

\* Steps that only take away.
LEMMA LessInUse ==
  ASSUME CredentialsInv, UNCHANGED issued, InUse' \subseteq InUse,
         pending' = [c \in CR |-> pending'[c]], published' = [c \in CR |-> published'[c]],
         \A c \in CR : /\ pending'[c] \in {pending[c], NoCredential}
                       /\ published'[c] \in {published[c], NoCredential}
  PROVE  CredentialsInv'
BY DEF CredentialsInv, Counted, OwnPasswords

\* Passwords are numbered, so a new one is no other's.
LEMMA IssueInv == CredentialsInv /\ Issue => CredentialsInv'
<1> SUFFICES ASSUME CredentialsInv, Issue PROVE CredentialsInv'
  OBVIOUS
<1>1. issued' = issued + 1 /\ issued \in Nat /\ UNCHANGED published
  BY DEF Issue, CredentialsInv, Counted
<1>2. CASE UNCHANGED <<valid, pending>>
  <2>1. InUse' = InUse
    BY <1>1, <1>2 DEF InUse
  <2> QED BY <1>1, <1>2, <2>1 DEF CredentialsInv, Counted, OwnPasswords
<1>3. ASSUME NEW x, x.cr \in CR, x.password = issued', valid' = valid \cup {x},
             pending' \in {pending, [pending EXCEPT ![x.cr] = x]}
      PROVE  CredentialsInv'
  <2>1. /\ pending' = [c \in CR |-> pending'[c]] /\ published' = [c \in CR |-> published'[c]]
        /\ \A c \in CR : \/ pending'[c] = pending[c]
                         \/ pending'[c] = x /\ c = x.cr
    BY <1>1, <1>3 DEF CredentialsInv, Counted
  <2>2. \A y \in InUse' : y \in InUse \/ y = x
    BY <1>1, <1>3, <2>1 DEF InUse
  <2>3. \A y \in InUse : y.password \in 1..issued
    BY DEF CredentialsInv, Counted
  <2>4. \A y \in InUse' : y.password \in 1..issued'
    BY <1>1, <1>3, <2>2, <2>3
  <2>5. \A y, z \in InUse' : y.password = z.password => y = z
    <3> SUFFICES ASSUME NEW y \in InUse', NEW z \in InUse', y.password = z.password
                 PROVE  y = z
      OBVIOUS
    <3>1. CASE y \in InUse /\ z \in InUse
      BY <3>1 DEF CredentialsInv, OwnPasswords
    <3>2. CASE y = x \/ z = x
      BY <1>1, <1>3, <2>2, <2>3, <3>2
    <3> QED BY <2>2, <3>1, <3>2
  <2>6. \A c \in CR : published[c] # NoCredential => published[c] \in InUse
    BY DEF InUse
  <2>7. \A c \in CR : pending'[c] # NoCredential =>
          /\ pending'[c].cr = c
          /\ published'[c] # NoCredential => published'[c].password < pending'[c].password
    BY <1>1, <1>3, <2>1, <2>3, <2>6 DEF CredentialsInv, Counted
  <2> QED BY <1>1, <2>1, <2>4, <2>5, <2>7 DEF CredentialsInv, Counted, OwnPasswords
<1> QED BY <1>2, <1>3 DEF Issue

\* Publishing moves a credential; nothing comes into use.
LEMMA PublishInv ==
  ASSUME CredentialsInv, NEW c \in CR, Publish(c)
  PROVE  CredentialsInv'
<1>1. /\ pending' = [d \in CR |-> pending'[d]] /\ published' = [d \in CR |-> published'[d]]
      /\ published'[c] = pending[c] /\ pending'[c] = NoCredential
      /\ \A d \in CR \ {c} : pending'[d] = pending[d] /\ published'[d] = published[d]
  BY DEF Publish, CredentialsInv, Counted
<1>2. InUse' \subseteq InUse
  BY <1>1 DEF Publish, InUse
<1> QED BY <1>1, <1>2 DEF Publish, CredentialsInv, Counted, OwnPasswords

\* The invariant is inductive: whatever does not issue only takes away.
LEMMA StepInv == CredentialsInv /\ [CredentialsNext]_credentialVars => CredentialsInv'
<1> SUFFICES ASSUME CredentialsInv, [CredentialsNext]_credentialVars PROVE CredentialsInv'
  OBVIOUS
<1>1. CASE Issue
  BY <1>1, IssueInv
<1>2. CASE Discard
  <2>1. InUse' \subseteq InUse
    BY <1>2 DEF Discard, InUse
  <2> QED BY <1>2, <2>1, LessInUse DEF Discard, CredentialsInv, Counted
<1>3. CASE Revoke
  <2>1. InUse' \subseteq InUse
    BY <1>3 DEF Revoke, InUse
  <2> QED BY <1>3, <2>1, LessInUse DEF Revoke, CredentialsInv, Counted
<1>4. ASSUME NEW c \in CR, Publish(c) PROVE CredentialsInv'
  BY <1>4, PublishInv
<1>5. ASSUME NEW c \in CR, Withdraw(c) PROVE CredentialsInv'
  <2>1. /\ published' = [d \in CR |-> published'[d]]
        /\ \A d \in CR : published'[d] \in {published[d], NoCredential}
    BY <1>5 DEF Withdraw, CredentialsInv, Counted
  <2>2. InUse' \subseteq InUse
    BY <1>5, <2>1 DEF Withdraw, InUse
  <2> QED BY <1>5, <2>1, <2>2, LessInUse DEF Withdraw, CredentialsInv, Counted
<1>6. CASE UNCHANGED credentialVars
  BY <1>6 DEF credentialVars, CredentialsInv, Counted, OwnPasswords, InUse
<1> QED BY <1>1, <1>2, <1>3, <1>4, <1>5, <1>6 DEF CredentialsNext

\* Nothing is in use at first.
LEMMA InitInv == CredentialsInit => CredentialsInv
BY DEF CredentialsInit, CredentialsInv, Counted, OwnPasswords, InUse

\* Secrets hold the credentials of their own CRs and share no password, with
\* each other or with any other account.
THEOREM PasswordsAreOwn == CredentialsSpec => []OwnPasswords
<1>1. CredentialsInv => OwnPasswords
  BY DEF CredentialsInv
<1> QED BY <1>1, InitInv, StepInv, PTL DEF CredentialsSpec

\* An update of a Secret never brings back an earlier password.
THEOREM NoPasswordComesBack == CredentialsSpec => UpdatesAreNewer
<1> DEFINE Newer == \A c \in CR :
       published[c] # NoCredential /\ published'[c] \notin {NoCredential, published[c]}
         => published'[c].password > published[c].password
<1>1. CredentialsInv /\ [CredentialsNext]_credentialVars => [Newer]_credentialVars
  <2> SUFFICES ASSUME CredentialsInv, CredentialsNext PROVE Newer
    BY DEF credentialVars
  <2>1. ASSUME NEW c \in CR, Publish(c) PROVE Newer
    <3>1. pending[c] # NoCredential /\ published' = [published EXCEPT ![c] = pending[c]]
      BY <2>1 DEF Publish
    <3>2. \A d \in CR : published[d] # NoCredential => published[d] \in InUse
      BY DEF InUse
    <3>3. pending[c] \in InUse
      BY <3>1 DEF InUse
    <3> QED BY <3>1, <3>2, <3>3 DEF CredentialsInv, Counted
  <2>2. ASSUME NEW c \in CR, Withdraw(c) PROVE Newer
    BY <2>2 DEF Withdraw, CredentialsInv, Counted
  <2>3. CASE Issue \/ Discard \/ Revoke
    BY <2>3 DEF Issue, Discard, Revoke
  <2> QED BY <2>1, <2>2, <2>3 DEF CredentialsNext
<1> QED BY <1>1, InitInv, StepInv, PTL DEF CredentialsSpec, UpdatesAreNewer
=============================================================================
