------------------------------ MODULE MCStores ------------------------------
EXTENDS Stores, TLC

CONSTANTS c1, c2, c3, p1, p2, tenant, Shared

TwoTenants == (c1 :> tenant) @@ (c2 :> tenant) @@ (c3 :> Shared)
SmallLimits == [region |-> 2, global |-> 1]

\* One setting of the limiter is on at a time, and the first job of the
\* semantic audit is the first process's: bounds, the second by symmetry.
MCInit ==
  /\ Init
  /\ part = "semantic" => at[c1] = p1
  /\ part = "limiter" => Cardinality({s \in DOMAIN mode : mode[s]}) <= 1

MCSpec == MCInit /\ [][Next]_vars /\ Fairness
=============================================================================
