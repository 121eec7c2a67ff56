---------------------------- MODULE MCRedisLock ----------------------------
(* Instances of RedisLock for TLC. *)
EXTENDS RedisLock, TLC

CONSTANTS c1, c2, r1, r2, o1, o2, o3, o4

TwoClients == {c1, c2}
OneResource == {r1}
TwoOwners == {o1, o2}
FourOwners == {o1, o2, o3, o4}

\* Owner IDs are interchangeable, and so are clients.
Symmetry == Permutations(TwoClients) \cup Permutations(FourOwners)
=============================================================================
