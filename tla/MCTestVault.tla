---------------------------- MODULE MCTestVault -----------------------------
(* TestVault on small instances.                                           *)
EXTENDS TestVault, TLC

CONSTANTS w1, w2, k1, c1, pool

MCKeyLen  == [k \in PubKeys |-> 33]
MCCredLen == [c \in CredIds |-> 16]

\* Withdrawals by a wallet of its own registry, to itself or back to the pool.
MCArgs == [pool: Pools, destination: {w1} \cup Pools, registry: {w1}, amount: {1, 2}]
OneDestination == [pool: Pools, destination: {w1}, registry: Wallets, amount: {1, 2}]

VaultPolicies == {[id |-> "trana.not_before", bound |-> 0],
                  [id |-> "trana.limit",      bound |-> WITHDRAW_LIMIT]}

=============================================================================
