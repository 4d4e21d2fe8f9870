---------------------------- MODULE MCTranaGuard ----------------------------
(* TranaGuard on small instances.                                          *)
EXTENDS GuardRefinement, TLC

CONSTANTS w1, w2, k1, k2, kLong, c1, c2

\* k1 and k2 are 33-byte P-256 points, kLong is longer than the account allows.
MCKeyLen  == [k \in PubKeys |-> IF k = kLong THEN 34 ELSE 33]
MCCredLen == [c \in CredIds |-> 16]

OneArg == [amount: {1}]

OnlyRequire == {[id |-> "trana.require", bound |-> 0]}
Conditional == {[id |-> "trana.not_after", bound |-> 0],
                [id |-> "trana.limit",     bound |-> 1],
                [id |-> "trana.limit",     bound |-> 2]}

Symmetry == Permutations({k1, k2}) \cup Permutations({c1, c2})

=============================================================================
