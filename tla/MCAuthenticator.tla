---------------------------- MODULE MCAuthenticator ----------------------------
(* Authenticator on a small instance: one name, used for several accounts, *)
(* and two threads.                                                        *)
EXTENDS Authenticator, TLC

CONSTANTS alice, t1, t2

OneUser == {alice}
Nobody == {}
TwoThreads == {t1, t2}

ThreadSymmetry == Permutations(Thread)
================================================================================
