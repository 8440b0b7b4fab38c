----------------------------- MODULE MCSpendPool -----------------------------
EXTENDS SpendPool, TLC

CONSTANTS r1, r2, r3

\* One call per proxy; the stdio call is the larger one.
MixedVia == r1 :> "stdio" @@ r2 :> "sse" @@ r3 :> "stream"
MixedEst == r1 :> 2 @@ r2 :> 1 @@ r3 :> 1

\* The stdio proxy alone, with a working Redis.
StdioVia == [r \in Requests |-> "stdio"]
TwoEst == [r \in Requests |-> 1]
=============================================================================
