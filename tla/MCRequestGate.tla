-------------------------- MODULE MCRequestGate --------------------------
(* Three concurrent requests over three hosts for TLC.                     *)
EXTENDS RequestGate, TLC

CONSTANTS q1, q2, q3, h1, h2, h3

Interchangeable == Permutations(Requests) \cup Permutations(Approved)
=============================================================================
