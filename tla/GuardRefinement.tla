--------------------------- MODULE GuardRefinement --------------------------
(***************************************************************************)
(* TranaGuard implements PasskeyAuthorization: forgetting slots, fees,     *)
(* instruction positions and policies, every step of the program is a step *)
(* of the abstract specification or changes nothing it sees.               *)
(***************************************************************************)
EXTENDS TranaGuard

KeySets(r)  == [w \in Wallets |-> {r[w].keys[i] : i \in DOMAIN r[w].keys}]
Nonces(r)   == [w \in Wallets |-> r[w].nonce]
Requests(g) == [i \in DOMAIN g |-> [s   |-> [key |-> g[i].key, intent |-> g[i].intent],
                                    era |-> g[i].epoch]]

Authorization ==
  INSTANCE PasskeyAuthorization WITH
    Holders    <- Wallets,
    Entries    <- Entry,
    Signatures <- Approvals,
    GuardId    <- Guard,
    keys       <- KeySets(registry),
    nonce      <- Nonces(registry),
    era        <- epoch,
    accepted   <- Requests(log),
    signed     <- approvals,
    now        <- clock.time,
    saved      <- [keys     |-> KeySets(committed.registry),
                   nonce    |-> Nonces(committed.registry),
                   era      |-> committed.epoch,
                   accepted |-> Requests(committed.log)]

\* The program keeps every promise of the abstract specification: in particular
\* an added or removed key is the one the accepted request names, unless the
\* request names an instruction of another program.
AuthorizationImplemented == Authorization!AuthorSpec

=============================================================================
