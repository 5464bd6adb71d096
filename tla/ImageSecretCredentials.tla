------------------------ MODULE ImageSecretCredentials ------------------------
(***************************************************************************)
(* The image secret reconciler implements Credentials.  A credential is    *)
(* what an account and a Secret have in common: the registry, the parts of *)
(* the account's name, the password and the UID of the CR it is for, which *)
(* a Secret carries as its owner.                                          *)
(***************************************************************************)
EXTENDS ImageSecret

Credential(r, c, n, p, u) ==
  [registry |-> r, cr |-> c, rotation |-> n, password |-> p, holder |-> u]

NoCredential == Credential(NoRegistry, Manual, 0, 0, 0)

\* Accounts made by hand are not the reconciler's.
AccountCredentials ==
  {Credential(a.registry, a.cr, a.rotation, a.password, a.creator) :
     a \in {a \in accounts : a.cr # Manual}}

\* rotatePassword has created the account and is about to write the Secret.
PendingCredential(c) ==
  IF w[c].pc = "writeSecret"
  THEN Credential(w[c].registry, c, w[c].instance.rotation, w[c].password,
                  w[c].instance.uid)
  ELSE NoCredential

SecretCredential(c) ==
  LET s == secrets[c] IN
  IF s.password = 0 THEN NoCredential
  ELSE Credential(s.registry, c, s.rotation, s.password, s.owner)

Abstract == INSTANCE Credentials WITH
  issued <- passwords,
  valid <- AccountCredentials,
  pending <- [c \in CR |-> PendingCredential(c)],
  published <- [c \in CR |-> SecretCredential(c)]

\* Whatever fails, is repeated or comes late while Reconcile rotates the
\* password: accounts, Secrets and generated passwords behave as Credentials
\* says.  Among others a Secret only ever gets, as a whole and once, the
\* credentials of an account that has been created for the CR
\* that owns the Secret.
ImplementsCredentials == Abstract!CredentialsSpec
=============================================================================
