-------------------------- MODULE MCChatwootAdmin --------------------------
(* Small instances of ChatwootAdmin: requests are interchangeable.         *)
EXTENDS ChatwootAdmin, TLC

CONSTANTS r1, r2, r3, created, typing, other, profile

Symmetry == Permutations(Requests)

=============================================================================
