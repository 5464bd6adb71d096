----------------------------- MODULE Credentials -----------------------------
(***************************************************************************)
(* What the image secret reconciler promises to those who use its Secrets: *)
(* the life of credentials, without CR status, caches, queues or names of  *)
(* steps.  A credential is issued once, with a password of its own, is     *)
(* valid from then on until it is revoked, and is published, whole and     *)
(* only after it has become valid, in the Secret of the CR it was issued   *)
(* for.  What is withdrawn or revoked does not come back.                  *)
(***************************************************************************)
EXTENDS Integers

CONSTANTS
  CR,            \* names of the CRs
  NoCredential   \* "no credential", which is not a credential

VARIABLES
  issued,    \* passwords generated so far
  valid,     \* the credentials a registry accepts
  pending,   \* per CR, the credential that is to be published next
  published  \* per CR, the credential its Secret holds

credentialVars == <<issued, valid, pending, published>>

CredentialsInit ==
  /\ issued = 0 /\ valid = {}
  /\ pending = [c \in CR |-> NoCredential]
  /\ published = [c \in CR |-> NoCredential]

\* The user name that x.registry knows a credential by.
SameName(x, y) == x.registry = y.registry /\ x.cr = y.cr /\ x.rotation = y.rotation

\* A password is generated.  Unless that is in vain, a credential with it
\* becomes valid; the issuer may not learn of it, then it stays unpublished.
Issue ==
  /\ issued' = issued + 1
  /\ \/ UNCHANGED <<valid, pending>>
     \/ \E x \in valid' :
          /\ x.cr \in CR /\ x.password = issued'
          /\ ~\E y \in valid : SameName(x, y)
          /\ valid' = valid \cup {x}
          /\ pending' \in {pending, [pending EXCEPT ![x.cr] = x]}
  /\ UNCHANGED published

\* The pending credential replaces what the CR's Secret held before.
Publish(c) ==
  /\ pending[c] # NoCredential
  /\ published' = [published EXCEPT ![c] = pending[c]]
  /\ pending' = [pending EXCEPT ![c] = NoCredential]
  /\ UNCHANGED <<issued, valid>>

\* Pending credentials are forgotten, as after a failure or a crash.
Discard ==
  /\ \A c \in CR : pending'[c] \in {pending[c], NoCredential}
  /\ pending' = [c \in CR |-> pending'[c]]
  /\ UNCHANGED <<issued, valid, published>>

\* A Secret is deleted, or a user spoils the credentials in it.
Withdraw(c) ==
  /\ published' = [published EXCEPT ![c] = NoCredential]
  /\ UNCHANGED <<issued, valid, pending>>

\* Credentials cease to be valid: they expire, are outdated or their CR is
\* deleted.
Revoke ==
  /\ valid' \subseteq valid
  /\ UNCHANGED <<issued, pending, published>>

CredentialsNext ==
  \/ Issue \/ Discard \/ Revoke
  \/ \E c \in CR : Publish(c) \/ Withdraw(c)

CredentialsSpec == CredentialsInit /\ [][CredentialsNext]_credentialVars

-----------------------------------------------------------------------------
(* What follows for those who use the Secrets.                             *)

\* The credentials that are valid, pending or published.
InUse == (valid \cup {pending[c] : c \in CR} \cup {published[c] : c \in CR}) \ {NoCredential}

\* A Secret holds the credential of its own CR, and no password is shared: who
\* has the Secret of one CR learns nothing about any other account.
OwnPasswords ==
  /\ \A c \in CR : published[c] # NoCredential => published[c].cr = c
  /\ \A x, y \in InUse : x.password = y.password => x = y

\* Where a Secret is updated its password is newer than the one before: an
\* update that comes late does not bring back what was replaced.
UpdatesAreNewer ==
  [][\A c \in CR :
       published[c] # NoCredential /\ published'[c] \notin {NoCredential, published[c]}
         => published'[c].password > published[c].password]_credentialVars
=============================================================================
