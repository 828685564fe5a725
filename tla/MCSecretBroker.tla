-------------------------- MODULE MCSecretBroker --------------------------
(* Two concurrent invocations for TLC.                                     *)
EXTENDS SecretBroker, TLC

CONSTANTS s1, s2, a1

Interchangeable == Permutations(Sessions)
=============================================================================
