-------------------------- MODULE MCTranaAuthority --------------------------
(* TranaAuthority on small instances.                                      *)
EXTENDS TranaAuthority, TLC

CONSTANTS w1, w2, k1, c1, p1, b1, v1, v2

MCKeyLen  == [k \in PubKeys |-> 33]
MCCredLen == [c \in CredIds |-> 16]

\* Upgrades, and hand-overs to a wallet or back to a record.
MCArgs == UpgradeArgs \cup [op: {"reclaim_authority"}, target: Targets,
                            new_authority: {w1, Pda(w1, p1)}]

=============================================================================
