------------------------ MODULE PasskeyAuthorization ------------------------
(***************************************************************************)
(* What the guard promises to the clients of its registries, without       *)
(* accounts, instruction positions, fees or policies: a wallet has a set   *)
(* of keys and a nonce; a request a key has signed is accepted at most     *)
(* once per nonce, before it expires; keys change by an accepted request   *)
(* or by the wallet's own registration and recovery; a transaction that    *)
(* fails leaves nothing behind.                                            *)
(*                                                                         *)
(* TranaGuard implements this specification (GuardRefinement).  The models *)
(* of the clients take it as their chain.                                  *)
(***************************************************************************)
EXTENDS Integers, Sequences

CONSTANTS
  Holders,     \* wallets
  Entries,     \* what a registry holds of a key: [pubkey, cred]
  Signatures,  \* what a device may sign: [key, intent]; an intent has at least
               \* the fields wallet, ix, nonce and expiry
  GuardId      \* the program of instructions that change a registry

VARIABLES
  keys,      \* registered entries of each wallet
  nonce,     \* next nonce of each wallet
  era,       \* how often each wallet has recovered
  accepted,  \* requests accepted, oldest first
  signed,    \* signatures made by devices
  now,       \* seconds
  saved      \* the ledger of the last transaction that succeeded

chain     == <<keys, nonce, era, accepted>>
authorVars == <<chain, signed, now, saved>>

Ledger == [keys |-> keys, nonce |-> nonce, era |-> era, accepted |-> accepted]

AuthorInit ==
  /\ keys     = [w \in Holders |-> {}]
  /\ nonce    = [w \in Holders |-> 0]
  /\ era      = [w \in Holders |-> 0]
  /\ accepted = <<>>
  /\ signed   = {}
  /\ now      = 0
  /\ saved    = Ledger

-----------------------------------------------------------------------------
(* Ledger steps.                                                           *)

RegisterKey(w, e) ==
  /\ keys[w] = {}
  /\ keys' = [keys EXCEPT ![w] = {e}]
  /\ UNCHANGED <<nonce, era, accepted>>

Recover(w, e) ==
  /\ keys'  = [keys EXCEPT ![w] = {e}]
  /\ nonce' = [nonce EXCEPT ![w] = 0]
  /\ era'   = [era EXCEPT ![w] = @ + 1]
  /\ UNCHANGED accepted

\* A registered key has signed this request, for this nonce, and it is not too late.
Acceptable(s) ==
  LET w == s.intent.wallet
  IN /\ s \in signed
     /\ w \in Holders
     /\ s.intent.nonce = nonce[w]
     /\ now < s.intent.expiry
     /\ \E e \in keys[w] : e.pubkey = s.key

AcceptedAgain(s) ==
  /\ Acceptable(s)
  /\ accepted' = Append(accepted, [s |-> s, era |-> era[s.intent.wallet]])
  /\ UNCHANGED <<nonce, era>>

Accepted(s) ==
  LET w == s.intent.wallet
  IN /\ Acceptable(s)
     /\ nonce'    = [nonce EXCEPT ![w] = @ + 1]
     /\ accepted' = Append(accepted, [s |-> s, era |-> era[w]])
     /\ UNCHANGED era

\* An instruction of another program carries the request, and that program decides.
Accept(s) == Accepted(s) /\ UNCHANGED keys

\* The request names the change, or names an instruction of another program that
\* then makes the change on the wallet's behalf.
Allows(s, op, arg) ==
  s.intent.ix.program = GuardId => s.intent.ix.op = op /\ s.intent.ix.arg = arg

AddKey(s, e) ==
  /\ Accepted(s)
  /\ Allows(s, "add_passkey", e)
  /\ keys' = [keys EXCEPT ![s.intent.wallet] = @ \cup {e}]

RemoveKey(s, c) ==
  /\ Accepted(s)
  /\ Allows(s, "remove_passkey", [cred |-> c])
  /\ keys' = [keys EXCEPT ![s.intent.wallet] = {e \in @ : e.cred # c}]

LedgerStep ==
  \/ \E w \in Holders, e \in Entries : RegisterKey(w, e) \/ Recover(w, e)
  \/ \E s \in signed : Accept(s)
  \/ \E s \in signed, e \in Entries : AddKey(s, e) \/ RemoveKey(s, e.cred)

-----------------------------------------------------------------------------
(* Transactions, devices, time.                                            *)

Publish  == saved' = [keys |-> keys', nonce |-> nonce', era |-> era',
                      accepted |-> accepted']

\* Nothing of a transaction that fails remains.
Rollback ==
  /\ keys' = saved.keys
  /\ nonce' = saved.nonce
  /\ era' = saved.era
  /\ accepted' = saved.accepted

Sign == \E s \in signed' \ signed : s \in Signatures /\ signed' = signed \cup {s}

Pass == now' \in Nat /\ now' > now

AuthorNext ==
  \/ LedgerStep /\ UNCHANGED <<signed, now, saved>>
  \/ Publish    /\ UNCHANGED <<chain, signed, now>>
  \/ Rollback   /\ UNCHANGED <<signed, now, saved>>
  \/ Sign       /\ UNCHANGED <<chain, now, saved>>
  \/ Pass       /\ UNCHANGED <<chain, signed, saved>>

AuthorSpec == AuthorInit /\ [][AuthorNext]_authorVars

=============================================================================
