------------------------------ MODULE MCGrants ------------------------------
EXTENDS Grants

LOCAL INSTANCE TLC

CONSTANTS phone, laptop, key, other

TwoCallers == {phone, laptop}
TwoKeys == {key, other}
Interchangeable == Permutations(TwoCallers) \union Permutations(TwoKeys)

SmallTokens == {"r1", "r2"}
SmallQueueOf == [r1 |-> "requests", r2 |-> "requests"]
SmallWorth == [r1 |-> 1, r2 |-> 1]

=============================================================================
