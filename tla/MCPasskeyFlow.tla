--------------------------- MODULE MCPasskeyFlow ---------------------------
(* PasskeyFlow on a small instance.                                        *)
EXTENDS PasskeyFlow

CONSTANTS wallet, k1, k2, a, b

MCEntries    == {[pubkey |-> k1, cred |-> "c1"], [pubkey |-> k2, cred |-> "c2"]}
MCSignatures == {}
MCCallIx     == [c \in Calls |-> [program |-> "app", op |-> "protected", arg |-> c]]

=============================================================================
