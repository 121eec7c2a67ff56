----------------------------- MODULE LeaseLock -----------------------------
(***************************************************************************)
(* What a leased distributed lock promises its users, whatever the store   *)
(* behind it: at any time at most one client is entitled to act on a       *)
(* resource.  A client is entitled from the moment it may believe it holds *)
(* the lease until it releases it, crashes, or the lease lapses.  Leases   *)
(* of several resources may lapse in one step, because a clock tick is     *)
(* common to all of them.                                                  *)
(***************************************************************************)
CONSTANTS Clients, Resources

VARIABLE entitled    \* entitled[r]: the clients that may act on resource r

Init == entitled = [r \in Resources |-> {}]

\* A client becomes entitled only when nobody is.
Enter(c, r) ==
    /\ entitled[r] = {}
    /\ entitled' = [entitled EXCEPT ![r] = {c}]

\* Entitlements end; none is created.
Leave ==
    /\ entitled' \in [Resources -> SUBSET Clients]
    /\ \A r \in Resources : entitled'[r] \subseteq entitled[r]

Next == Leave \/ \E c \in Clients, r \in Resources : Enter(c, r)

Spec == Init /\ [][Next]_entitled
=============================================================================
