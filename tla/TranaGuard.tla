----------------------------- MODULE TranaGuard -----------------------------
(***************************************************************************)
(* The trana_guard program: one PasskeyRegistry account per wallet, a      *)
(* global fee config, and the checks that let a protected instruction run  *)
(* only with a passkey's signature on exactly that instruction.            *)
(*                                                                         *)
(* A transaction is a sequence of top-level instructions.  The module runs *)
(* it one instruction at a time on the working ledger (config, registry,   *)
(* lamports, log, epoch); Commit publishes the working ledger, Abort is    *)
(* the runtime's rollback after any handler has returned an error.  The    *)
(* program looks only backwards in the instruction list, so the next       *)
(* instruction may be chosen when it runs.                                 *)
(*                                                                         *)
(* The order of a registry's keys is never read by the program, so the     *)
(* vector is a partial function from slots to entries.                     *)
(*                                                                         *)
(* An intent hash is modelled by the record it encodes: the encoding has   *)
(* fixed widths and length prefixes and SHA-256 is taken as injective.     *)
(***************************************************************************)
EXTENDS Integers, Sequences, FiniteSets

CONSTANTS
  Wallets,        \* wallet public keys
  Treasuries,     \* accounts that may be configured as the fee treasury
  PubKeys,        \* byte strings offered as pubkey_bytes
  KeyLen,         \* their lengths
  CredIds,        \* byte strings offered as credential_id
  CredLen,        \* their lengths
  Programs,       \* programs that call enforce() by CPI
  AppArgs,        \* parameters and accounts of a protected instruction; the field
                  \* amount is the u64 that Policy::Limit reads
  Policies,       \* policies passed to enforce: [id, bound]
  Fees,           \* fee values used in the config
  Ttls,           \* proof validity windows used by clients
  MAX_KEYS,       \* registry capacity
  MaxNonce,       \* largest nonce the registry's integer holds
  \* bounds of the explored instance
  InitialLamports, MaxTime, MaxSlot, MaxIx, MaxApprovals, MaxEpoch,
  UnsignedOps     \* operations for which unsigned client data is submitted

PolicyIds == {"trana.require", "trana.not_before", "trana.not_after", "trana.limit"}

ASSUME ConstantsAssumption ==
  /\ KeyLen \in [PubKeys -> Nat]
  /\ CredLen \in [CredIds -> Nat]
  /\ \A a \in AppArgs : "amount" \in DOMAIN a => a.amount \in Nat
  /\ Fees \subseteq Nat
  /\ Ttls \subseteq Nat
  /\ Policies \subseteq [id: PolicyIds, bound: Nat]
  /\ MAX_KEYS \in Nat \ {0}
  /\ MaxNonce \in Nat
  /\ InitialLamports \in Nat

VARIABLES
  config,     \* the TranaConfig account
  registry,   \* the PasskeyRegistry account of each wallet
  lamports,   \* balances
  log,        \* ProofVerified events, oldest first
  epoch,      \* history: how often each registry was recovered
  committed,  \* the ledger as of the last committed transaction
  tx,         \* top-level instructions of the running transaction, so far
  approvals,  \* signatures made by passkey devices
  clock       \* the Clock sysvar

ledger == <<config, registry, lamports, log, epoch>>
vars   == <<ledger, committed, tx, approvals, clock>>

-----------------------------------------------------------------------------
(* Instructions.                                                           *)

Guard == "trana_guard"

ZeroKey == "zero"     \* the Pubkey fields of an account that is not written yet
NoArg   == [none |-> ZeroKey]

Entry == [pubkey: PubKeys, cred: CredIds]

Calls ==
  [kind: {"call"}, program: {Guard}, op: {"add_passkey"}, wallet: Wallets, arg: Entry]
    \cup
  [kind: {"call"}, program: {Guard}, op: {"remove_passkey"}, wallet: Wallets,
   arg: [cred: CredIds]]
    \cup
  [kind: {"call"}, program: Programs, op: {"protected"}, wallet: Wallets,
   arg: AppArgs]

GuardCall(op, w, arg) ==
  [kind |-> "call", program |-> Guard, op |-> op, wallet |-> w, arg |-> arg]

\* What a passkey signs: the canonical description of one protected instruction.
Intent(w, policy, ix, nonce, expiry) ==
  [wallet |-> w, policy |-> policy, ix |-> ix, nonce |-> nonce, expiry |-> expiry]

\* The two instructions that carry a proof.
Secp256r1Ix(k, message) == [kind |-> "secp256r1", key |-> k, message |-> message]
RecordProofIx(policy, expiry, challenge) ==
  [kind |-> "record_proof", policy |-> policy, expiry |-> expiry, challenge |-> challenge]

\* The pair a client puts in front of the instruction a device has signed.
ProofIxs(a) == <<Secp256r1Ix(a.key, a.intent),
                 RecordProofIx(a.intent.policy, a.intent.expiry, a.intent)>>

\* A top-level instruction of an application that no passkey signs.
PlainCall(program, op, w) ==
  [kind |-> "call", program |-> program, op |-> op, wallet |-> w, arg |-> NoArg]

Current(t) == t[Len(t)]

\* A guard instruction runs at top level, or by CPI inside an application call.
Frames(top) ==
  (IF Len(tx) < MaxIx THEN {Append(tx, top)} ELSE {})
    \cup {t \in {tx} : /\ t # <<>>
                       /\ Current(t).kind = "call"
                       /\ Current(t).program # Guard}

-----------------------------------------------------------------------------
(* Accounts.                                                               *)

Accounts == Wallets \cup Treasuries

EmptyRegistry == [exists |-> FALSE, owner |-> ZeroKey, nonce |-> 0, keys |-> <<>>]

EmptyConfig == [exists |-> FALSE, authority |-> ZeroKey, treasury |-> ZeroKey,
                register_fee |-> 0, add_key_fee |-> 0]

\* Vec::push and Vec::len on the key slots; a push beyond the capacity is possible
\* and takes the one slot past it.
FreeSlot(keys) ==
  CHOOSE i \in 1..MAX_KEYS + 1 :
    i \notin DOMAIN keys /\ (i > MAX_KEYS => 1..MAX_KEYS \subseteq DOMAIN keys)
Pushed(keys, e) == [i \in DOMAIN keys \cup {FreeSlot(keys)} |->
                      IF i \in DOMAIN keys THEN keys[i] ELSE e]
KeyCount(w) == Cardinality(DOMAIN registry[w].keys)

\* retain(|k| k.credential_id != credential_id)
Retained(keys, cred) == [i \in {j \in DOMAIN keys : keys[j].cred # cred} |-> keys[i]]

RegistryKeys(r) == {registry[r].keys[i].pubkey : i \in DOMAIN registry[r].keys}

ValidKeyInputs(e) == KeyLen[e.pubkey] <= 33 /\ CredLen[e.cred] <= 128

\* collect_fee: a system transfer; a zero fee transfers nothing.
Charged(from, to, fee) == [[lamports EXCEPT ![from] = @ - fee] EXCEPT ![to] = @ + fee]

-----------------------------------------------------------------------------
(* Verification: verify_at_idx and run_verification.                       *)

\* The signing key is one of the registry's.
AnyKey(r, k) == TRUE
KnownKey(r, k) == k \in RegistryKeys(r)

\* The message the precompile verified is the client data record_proof carries.
AnyMessage(secp, challenge) == TRUE
SignedOver(secp, challenge) == secp.message = challenge

\* checked_add on the nonce.
NonceUnchecked(r) == TRUE
NonceAvailable(r) == registry[r].nonce < MaxNonce

\* The proof pair at ix[N-2], ix[N-1] authorizes the current instruction t[N]
\* for wallet w, against registry account r.
ProofAccepted(t, w, r, policy) ==
  /\ Len(t) > 2
  /\ LET proof == t[Len(t) - 1]
         secp  == t[Len(t) - 2]
     IN /\ proof.kind = "record_proof"
        /\ proof.policy = policy
        /\ clock.time < proof.expiry
        /\ proof.challenge =
             Intent(w, policy, Current(t), registry[r].nonce, proof.expiry)
        /\ secp.kind = "secp256r1"
        /\ KnownKey(r, secp.key)
        /\ SignedOver(secp, proof.challenge)
  /\ NonceAvailable(r)

\* The emitted ProofVerified event, with the history the properties refer to.
ProofVerified(t, w, r) ==
  [owner |-> w, registry |-> r, key |-> t[Len(t) - 2].key,
   intent |-> t[Len(t) - 1].challenge, epoch |-> epoch[r]]

NonceKept(r) == registry
NonceConsumed(r) == [registry EXCEPT ![r].nonce = @ + 1]

-----------------------------------------------------------------------------
(* The program's instructions.                                             *)

Init ==
  /\ config    = EmptyConfig
  /\ registry  = [w \in Wallets |-> EmptyRegistry]
  /\ lamports  = [a \in Accounts |-> InitialLamports]
  /\ log       = <<>>
  /\ epoch     = [w \in Wallets |-> 0]
  /\ committed = [config |-> config, registry |-> registry, lamports |-> lamports,
                  log |-> log, epoch |-> epoch]
  /\ tx        = <<>>
  /\ approvals = {}
  /\ clock     = [slot |-> 0, time |-> 0]

PlainOps == {"init_config", "update_config", "register_passkey", "recover_registry"}

\* Instructions that no passkey signs: their parameters are not in the intent.
TopLevel(op, w) == tx' \in Frames(GuardCall(op, w, NoArg))

\* init_config: `init` fails when the account exists.
InitConfig(w, register_fee, add_key_fee, treasury) ==
  /\ TopLevel("init_config", w)
  /\ ~config.exists
  /\ config' = [exists |-> TRUE, authority |-> w, treasury |-> treasury,
                register_fee |-> register_fee, add_key_fee |-> add_key_fee]
  /\ UNCHANGED <<registry, lamports, log, epoch, committed, approvals, clock>>

\* update_config: has_one = authority, who signs.
UpdateConfig(w, register_fee, add_key_fee, treasury) ==
  /\ TopLevel("update_config", w)
  /\ config.exists
  /\ config.authority = w
  /\ config' = [config EXCEPT !.treasury = treasury,
                              !.register_fee = register_fee,
                              !.add_key_fee = add_key_fee]
  /\ UNCHANGED <<registry, lamports, log, epoch, committed, approvals, clock>>

\* require!(r.keys.is_empty())
RegistryAny(w) == TRUE
RegistryVacant(w) == DOMAIN registry[w].keys = {}

RegisteredAfresh(w, e) ==
  [registry EXCEPT ![w] = [exists |-> TRUE, owner |-> w, nonce |-> 0, keys |-> <<e>>]]
RegisteredUnowned(w, e) ==
  [registry EXCEPT ![w].exists = TRUE, ![w].keys = Pushed(@, e)]
Registered(w, e) ==
  [registry EXCEPT ![w].exists = TRUE, ![w].owner = w, ![w].keys = Pushed(@, e)]

\* register_passkey: creates the account if needed, and only fills an empty one.
RegisterPasskey(w, e, treasury) ==
  /\ TopLevel("register_passkey", w)
  /\ config.exists
  /\ treasury = config.treasury
  /\ ValidKeyInputs(e)
  /\ RegistryVacant(w)
  /\ lamports[w] >= config.register_fee
  /\ lamports' = Charged(w, treasury, config.register_fee)
  /\ registry' = Registered(w, e)
  /\ UNCHANGED <<config, log, epoch, committed, approvals, clock>>

RecoveredSameNonce(w, e) == [registry EXCEPT ![w].keys = Pushed(<<>>, e), ![w].owner = w]
Recovered(w, e) == [registry EXCEPT ![w].keys = Pushed(<<>>, e), ![w].nonce = 0, ![w].owner = w]

\* recover_registry: the wallet's signature alone replaces every key and
\* restarts the nonce.
RecoverRegistry(w, e) ==
  /\ epoch[w] < MaxEpoch
  /\ TopLevel("recover_registry", w)
  /\ registry[w].exists
  /\ ValidKeyInputs(e)
  /\ registry' = Recovered(w, e)
  /\ epoch'    = [epoch EXCEPT ![w] = @ + 1]
  /\ UNCHANGED <<config, lamports, log, committed, approvals, clock>>

HasRoomForOneMore(w) == KeyCount(w) <= MAX_KEYS
HasRoom(w) == KeyCount(w) < MAX_KEYS

\* add_passkey: the proof is verified before the fee is taken and the key pushed.
AddPasskey(w, e, treasury) ==
  /\ tx' \in Frames(GuardCall("add_passkey", w, e))
  /\ registry[w].exists
  /\ config.exists
  /\ treasury = config.treasury
  /\ ValidKeyInputs(e)
  /\ HasRoom(w)
  /\ ProofAccepted(tx', w, w, "trana.require")
  /\ log' = Append(log, ProofVerified(tx', w, w))
  /\ lamports[w] >= config.add_key_fee
  /\ lamports' = Charged(w, treasury, config.add_key_fee)
  /\ registry' = [NonceConsumed(w) EXCEPT ![w].keys = Pushed(@, e)]
  /\ UNCHANGED <<config, epoch, committed, approvals, clock>>

\* remove_passkey: `retain` drops every entry with that credential id.
RemovePasskey(w, cred) ==
  /\ tx' \in Frames(GuardCall("remove_passkey", w, [cred |-> cred]))
  /\ registry[w].exists
  /\ KeyCount(w) > 1                                   \* LastKeyCannotBeRemoved
  /\ ProofAccepted(tx', w, w, "trana.require")
  /\ log' = Append(log, ProofVerified(tx', w, w))
  /\ \E i \in DOMAIN registry[w].keys : registry[w].keys[i].cred = cred
                                                       \* CredentialNotFound
  /\ registry' = [NonceConsumed(w) EXCEPT ![w].keys = Retained(@, cred)]
  /\ UNCHANGED <<config, lamports, epoch, committed, approvals, clock>>

\* The condition of a policy: when it holds, enforce() asks for a proof.
ProofRequired(p, ix) ==
  \/ p.id = "trana.require"
  \/ p.id = "trana.not_before" /\ clock.slot < p.bound
  \/ p.id = "trana.not_after"  /\ clock.slot > p.bound
  \/ p.id = "trana.limit"      /\ ix.arg.amount >= p.bound

\* with_registry: the account's owner field, not its address, is compared.
AnyRegistry(r, w) == TRUE
OwnsRegistry(r, w) == registry[r].owner = w

\* enforce, while the last instruction of t runs, for a wallet that signed t.  r is
\* the registry account passed in: its seeds are not checked, its owner field is.
Enforced(t, w, r, p) ==
  \/ /\ ProofRequired(p, Current(t))
     /\ registry[r].exists
     /\ OwnsRegistry(r, w)
     /\ ProofAccepted(t, w, r, p.id)
     /\ log'      = Append(log, ProofVerified(t, w, r))
     /\ registry' = NonceConsumed(r)
  \/ ~ProofRequired(p, Current(t)) /\ UNCHANGED <<log, registry>>

\* A CPI of enforce from the application call that is running.
Enforce(w, r, p) ==
  /\ tx # <<>>
  /\ Current(tx).kind = "call"
  /\ Current(tx).program \in Programs
  /\ Current(tx).wallet = w
  /\ Enforced(tx, w, r, p)
  /\ UNCHANGED <<config, lamports, epoch, committed, tx, approvals, clock>>

-----------------------------------------------------------------------------
(* The runtime, the devices and the clock.                                 *)

\* The native precompile: succeeds only on a signature a device has made.
Secp256r1(a) ==
  /\ Len(tx) < MaxIx
  /\ tx' = Append(tx, Secp256r1Ix(a.key, a.intent))
  /\ UNCHANGED <<ledger, committed, approvals, clock>>

\* record_proof carries the claimed policy and expiry beside the client data;
\* only version 1 returns Ok.
RecordProof(policy, expiry, challenge) ==
  /\ Len(tx) < MaxIx
  /\ tx' = Append(tx, RecordProofIx(policy, expiry, challenge))
  /\ UNCHANGED <<ledger, committed, approvals, clock>>

\* A top-level call of an application program.
ProtectedCall(ix) ==
  /\ Len(tx) < MaxIx
  /\ ix.program \in Programs
  /\ tx' = Append(tx, ix)
  /\ UNCHANGED <<ledger, committed, approvals, clock>>

\* Every instruction returned Ok.
Commit ==
  /\ tx # <<>>
  /\ committed' = [config |-> config, registry |-> registry, lamports |-> lamports,
                   log |-> log, epoch |-> epoch]
  /\ tx' = <<>>
  /\ UNCHANGED <<ledger, approvals, clock>>

\* Some instruction returned an error, or the runtime dropped the transaction.
Abort ==
  /\ tx # <<>>
  /\ config'   = committed.config
  /\ registry' = committed.registry
  /\ lamports' = committed.lamports
  /\ log'      = committed.log
  /\ epoch'    = committed.epoch
  /\ tx' = <<>>
  /\ UNCHANGED <<committed, approvals, clock>>

\* buildIntent: the committed nonce, and an expiry ttl seconds ahead.
BuildIntent(ix, policy, ttl) ==
  Intent(ix.wallet, policy, ix, committed.registry[ix.wallet].nonce, clock.time + ttl)

\* A device signs an intent the client built.
Approve(k, ix, policy, ttl) ==
  /\ Cardinality(approvals) < MaxApprovals
  /\ KeyLen[k] = 33
  /\ committed.registry[ix.wallet].exists
  /\ approvals' = approvals \cup {[key |-> k, intent |-> BuildIntent(ix, policy, ttl)]}
  /\ UNCHANGED <<ledger, committed, tx, clock>>

\* One Clock per transaction.  Slots and seconds advance at no fixed ratio.
Tick ==
  /\ tx = <<>>
  /\ \/ clock.slot < MaxSlot /\ clock' = [clock EXCEPT !.slot = @ + 1]
     \/ clock.time < MaxTime /\ clock' = [clock EXCEPT !.time = @ + 1]
  /\ UNCHANGED <<ledger, committed, tx, approvals>>

SignedPolicies == {"trana.require"} \cup {p.id : p \in Policies}

\* Instructions that change the accounts of the program.
GuardInstruction ==
  \/ \E w \in Wallets, f1, f2 \in Fees, t \in Treasuries : InitConfig(w, f1, f2, t)
  \/ \E w \in Wallets, f1, f2 \in Fees, t \in Treasuries : UpdateConfig(w, f1, f2, t)
  \/ \E w \in Wallets, e \in Entry, t \in Treasuries : RegisterPasskey(w, e, t)
  \/ \E w \in Wallets, e \in Entry : RecoverRegistry(w, e)
  \/ \E w \in Wallets, e \in Entry, t \in Treasuries : AddPasskey(w, e, t)
  \/ \E w \in Wallets, c \in CredIds : RemovePasskey(w, c)

\* The instructions that carry a proof.  Client data nobody has signed is
\* submitted for the operations in UnsignedOps.
ProofPair ==
  \/ \E a \in approvals : Secp256r1(a)
  \/ \E p \in SignedPolicies, a, b \in approvals :
        RecordProof(p, a.intent.expiry, b.intent)
  \/ \E ix \in Calls, p \in SignedPolicies, ttl \in Ttls :
        /\ ix.op \in UnsignedOps
        /\ RecordProof(p, clock.time + ttl, BuildIntent(ix, p, ttl))

Sign == \E k \in PubKeys, ix \in Calls, p \in SignedPolicies, ttl \in Ttls :
          Approve(k, ix, p, ttl)

Next ==
  \/ GuardInstruction
  \/ ProofPair
  \/ \E ix \in Calls : ProtectedCall(ix)
  \/ \E w, r \in Wallets, p \in Policies : Enforce(w, r, p)
  \/ Commit
  \/ Abort
  \/ Sign
  \/ Tick

Spec == Init /\ [][Next]_vars

-----------------------------------------------------------------------------
(* Properties.  Each is stated of a ledger, for the working copy and for   *)
(* what has been committed.                                                *)

Keys == UNION {[slots -> Entry] : slots \in SUBSET (1..MAX_KEYS)}

Registry == [exists: BOOLEAN, owner: Wallets \cup {ZeroKey}, nonce: 0..MaxNonce,
             keys: Keys]

Config == [exists: BOOLEAN, authority: Wallets \cup {ZeroKey},
           treasury: Treasuries \cup {ZeroKey}, register_fee: Nat, add_key_fee: Nat]

Intents == [wallet: Wallets, policy: PolicyIds, ix: Calls, nonce: 0..MaxNonce, expiry: Nat]

Approvals == [key: PubKeys, intent: Intents]

Events == [owner: Wallets, registry: Wallets, key: PubKeys, intent: Intents, epoch: Nat]

Instructions ==
  Calls \cup [kind: {"call"}, program: {Guard}, op: PlainOps, wallet: Wallets, arg: {NoArg}]
        \cup [kind: {"secp256r1"}, key: PubKeys, message: Intents]
        \cup [kind: {"record_proof"}, policy: PolicyIds, expiry: Nat, challenge: Intents]

LedgerOK(c, r, l, g, e) ==
  /\ c \in Config
  /\ r \in [Wallets -> Registry]
  /\ l \in [Accounts -> Nat]
  /\ g \in Seq(Events)
  /\ e \in [Wallets -> Nat]

\* Types of the accounts, the event log, the device signatures and the running
\* transaction; nonces stay within their integer and keys within the capacity
\* the account was allocated for.
TypeOK ==
  /\ LedgerOK(config, registry, lamports, log, epoch)
  /\ LedgerOK(committed.config, committed.registry, committed.lamports,
              committed.log, committed.epoch)
  /\ tx \in Seq(Instructions)
  /\ approvals \in SUBSET Approvals
  /\ clock \in [slot: Nat, time: Nat]

BoundToSeeds(r) ==
  \A w \in Wallets : r[w].exists \/ DOMAIN r[w].keys # {} => r[w].owner = w

\* A registry that has been created belongs to the wallet of its seeds: enforce()
\* relies on the owner field alone and never derives the account's address.
RegistryBoundToSeeds == BoundToSeeds(registry) /\ BoundToSeeds(committed.registry)

Signed(g) ==
  \A i \in DOMAIN g :
    /\ [key |-> g[i].key, intent |-> g[i].intent] \in approvals
    /\ g[i].intent.wallet = g[i].owner
    /\ g[i].registry = g[i].owner

\* Every ProofVerified event rests on a device's signature over exactly the
\* intent that was verified, for the wallet whose registry was charged.
EveryProofWasSigned == Signed(log) /\ Signed(committed.log)

NoncesIncrease(g) ==
  \A i, j \in DOMAIN g :
    i < j /\ g[i].registry = g[j].registry /\ g[i].epoch = g[j].epoch =>
      g[i].intent.nonce < g[j].intent.nonce

\* Between two recoveries of a registry no nonce, hence no signature, is
\* accepted twice: the nonces of its events strictly increase.
NoReplay == NoncesIncrease(log) /\ NoncesIncrease(committed.log)

Accounted(r, g, e) ==
  \A w \in Wallets : \A n \in 0..MaxNonce :
    n < r[w].nonce <=>
      \E i \in DOMAIN g : /\ g[i].registry = w
                          /\ g[i].epoch = e[w]
                          /\ g[i].intent.nonce = n

\* The audit trail is complete: since the last recovery, the consumed nonces of
\* a registry are exactly those of its events, also after rollbacks.
AuditTrailComplete ==
  /\ Accounted(registry, log, epoch)
  /\ Accounted(committed.registry, committed.log, committed.epoch)

EpochsPassed(g, e) == \A i \in DOMAIN g : g[i].epoch <= e[g[i].registry]

\* What the proofs add to make the conjunction inductive: a running transaction
\* holds only signatures a device has made, and no event is of an epoch to come.
IInv ==
  /\ RegistryBoundToSeeds
  /\ EveryProofWasSigned
  /\ NoReplay
  /\ AuditTrailComplete
  /\ \A i \in DOMAIN tx : tx[i].kind = "secp256r1" =>
        [key |-> tx[i].key, intent |-> tx[i].message] \in approvals
  /\ EpochsPassed(log, epoch)
  /\ EpochsPassed(committed.log, committed.epoch)

NewEvents == {committed'.log[i] : i \in Len(committed.log) + 1 .. Len(committed'.log)}

\* A transaction changes the keys of a registry that has some only if it also
\* carries an accepted proof for that registry, or recovers it.
KeysChangeOnlyWithProof ==
  [][\A w \in Wallets :
       committed'.registry[w].keys # committed.registry[w].keys =>
         \/ DOMAIN committed.registry[w].keys = {}
         \/ committed'.epoch[w] > committed.epoch[w]
         \/ \E v \in NewEvents : v.registry = w]_committed

\* Events are never lost or rewritten by a later transaction, and a registry's
\* nonce goes back only when the registry is recovered.
HistoryOnlyGrows ==
  [][/\ Len(committed.log) <= Len(committed'.log)
     /\ \A i \in DOMAIN committed.log : committed'.log[i] = committed.log[i]
     /\ \A w \in Wallets :
          committed'.registry[w].nonce < committed.registry[w].nonce =>
            committed'.epoch[w] > committed.epoch[w]]_committed

(* What the program's own text says of it, and its code does not do.       *)

\* remove_passkey's documentation: "Cannot remove the last key - at least one
\* must remain" (trana_guard/src/lib.rs:258).
AtLeastOneKeyRemains ==
  \A w \in Wallets :
    committed.registry[w].owner # ZeroKey => DOMAIN committed.registry[w].keys # {}

\* ProofVerified's documentation: the consumed nonce is "now invalid - cannot be
\* replayed" (trana_guard/src/events.rs:17): no signature is accepted twice, also
\* across recoveries.
ConsumedNonceStaysInvalid ==
  \A i, j \in DOMAIN committed.log :
    i # j => \/ committed.log[i].intent # committed.log[j].intent
             \/ committed.log[i].key # committed.log[j].key

=============================================================================
