# Trana: models, checks and proofs

Trana puts a passkey (WebAuthn, P-256) in front of Solana transactions. A wallet
registers passkeys on chain; a program that wants a second factor calls
`trana_guard::enforce` by CPI, and the guard lets the instruction continue only
if a registered passkey has signed exactly that instruction, once, recently.
This directory holds TLA+ models of the on-chain programs and of the clients
that talk to them, TLC runs on small instances, and proofs about both that hold for
every instance.

## 1. The system

| Component | State | Operations | Modelled in |
|---|---|---|---|
| `programs/trana_guard` | one `PasskeyRegistry` (owner, nonce, keys) per wallet; one `TranaConfig` (authority, treasury, fees); `ProofVerified` events | `init_config`, `update_config`, `register_passkey`, `recover_registry`, `add_passkey`, `remove_passkey`, `record_proof`, `enforce` | `TranaGuard`, abstractly `PasskeyAuthorization` |
| `programs/trana_test_vault` | `Pool` and its lamports; `UserDeposit` per user and pool | `initialize_pool`, `deposit`, `withdraw` | `TestVault` |
| `programs/trana_authority` | `AuthorityRecord` per (owner, target); through it the loader's upgrade authority | `register`, `execute_upgrade`, `reclaim_authority` | `TranaAuthority` |
| `packages/sdk/src/core`, `types` | none | intents, proof instructions, DER and key conversions; the IDLs | `Interface`, `Encodings`, `ClientData` |
| `packages/sdk/src/guard`, `authority` | none on chain; reads config, registry and nonce | `fetchRegistry`, `registerPasskey`, `buildProof`; the authority's builders | `CounterApp`; `Interface`, used by `Scripts` and `TryPage` |
| `packages/sdk/src/react` | modal phase, one pending promise, cached registry | `authorizeAndSend`: detection by simulation, registration, review, approval, submission with retry | `PasskeyFlow` |
| `packages/sdk/src/*.ts` (legacy), `testing` | none | client of a bridge server; software key for tests | the policy mirrors and `ensureLowS` only |
| `scripts/*.mjs` | none; keys derived from the wallet's | register, add, remove, recover, init config, init vault, secure, upgrade, reclaim | `Scripts` |
| `apps/landing` try page | credential in `passkeyRef`, polled deposit, a lock | withdraw, deposit, upgrade, generate, add, secure | `TryPage` |
| `apps/landing` illustrations, slides | loops of animation beats, stop flags, the deck's timers | start, stop, next, previous | `Illustrations` |
| `examples/counter` | a counter on chain; wallets and handles in `localStorage`; `run.mjs` and its fresh ledger | `initialize`, `increment`, register, switch wallets, reload | `CounterApp`; `increment` also as `ProtectedCall; Enforce` of `TranaGuard` |

**Interaction.** A protected transaction has the shape

    ix[N-2]  secp256r1 precompile   (a signature over authenticator and client data)
    ix[N-1]  trana_guard::record_proof   (policy, expiry, client data)
    ix[N]    the protected instruction; its program calls enforce by CPI

`record_proof` does nothing when it runs. `enforce` reads the two instructions
before the current top-level one through the instructions sysvar, rebuilds the
intent (wallet, guard program, target program, policy, discriminator, account
hash, parameter hash, nonce, expiry), compares it with the challenge in the
client data, compares the precompile's key and message, and increments the
registry's nonce. Config, registries, vault accounts and loader accounts are
shared by all transactions; a failing instruction rolls its transaction back.
Every client works the same way: read registry and nonce, simulate or know the
policy, build the intent, wait for the device, send, wait for confirmation; each
of these is an await during which other clients, the clock and the cluster act.

**What is hard here.** Rollback after a nonce has been consumed; one proof and
several protected instructions, or several attempts to use one signature; CPI,
where the guard sees the caller's top-level instruction; a nonce that a recovery
sends back to 0; a client whose view of nonce, fees, unlock slot or buffer is
stale by the time the transaction lands; two clocks (slots and seconds) with no
fixed ratio; a second program (the loader) that may refuse after the proof has
been accepted; retries while the first attempt may still land; handlers and
modals that share one slot; scripts stopped between two steps; a browser that
remembers a ledger that is gone; loops told to stop that have not looked yet.
`PROJECT.json` lists each with its line.

**What makes each part correct.**

* Guard: no signature is accepted twice; nothing is accepted that a device has not
  signed for that wallet; registered keys change only with a proof or a recovery;
  the nonce and the event log tell the same story after any rollback.
* Vault: a pool can pay all its users; a withdrawal is free exactly when amount,
  window and cooldown allow it; a signature pays once.
* Authority: a program under a record is upgraded or given away only with a proof
  by the record's owner that names it; a refused call costs no nonce; the image
  that is deployed is the one that was signed for, once its buffer is frozen.
* React flow: one call executes its instruction at most once, with a proof the user
  has seen described, and every call settles.
* Scripts and pages: they leave no program without an upgrader, report what is so,
  spend proofs on what they looked at, and keep the keys they register.
* All clients: what they encode is what the programs decode.

## 2. Modules

| Module | Models | Builds on |
|---|---|---|
| `TranaGuard` | the guard, devices, transactions, clocks | |
| `TranaGuardProofs` | theorems about its states | `TranaGuard` |
| `PasskeyAuthorization` | what the guard promises, with no accounts, positions, fees or policies | |
| `GuardRefinement` | the mapping from `TranaGuard` to `PasskeyAuthorization` | `TranaGuard`, `INSTANCE ... WITH` |
| `GuardRefinementProofs` | theorems about what a commit changes, and the proof that `TranaGuard` implements it | `GuardRefinement`, `TranaGuardProofs` |
| `TestVault`, `TranaAuthority` | the two programs on top of the guard | `TranaGuard` |
| `VaultProofs`, `AuthorityProofs` | theorems about them | the program, `TranaGuardProofs` |
| `Interface` | instructions and layouts of the IDLs, and every instruction a client assembles | |
| `Encodings` | DER, low-S and key conversions, in each of their copies | |
| `ClientData` | types, events, errors, registry bytes, policies, logs, as programs and as clients describe them | |
| `PasskeyFlow` | the React flow | `PasskeyAuthorization` as its chain, `Interface` |
| `Scripts` | nine scripts in terminals | `Interface` |
| `TryPage` | the try page's handlers | `Interface`, `Encodings` |
| `Illustrations` | animation loops, deck | |
| `LandingApp` | the visitor's route: page or illustration | `TryPage`, `Illustrations` |
| `CounterApp` | the counter example | |
| `FlowProofs`, `ScriptsProofs`, `LandingProofs`, `CounterProofs` | theorems about the clients: `PasskeyFlow`, `Scripts`, `LandingApp` (page and illustrations), `CounterApp` | the client, library theorems |
| `MC...` | constants of the runs | the module named |

### Transactions

A transaction is the sequence `tx` of the top-level instructions run so far.
Each handler is one action on the working ledger; `Commit` copies it to
`committed`, `Abort` restores it. A handler that returns an error is not an
action of its own: after every step `Abort` is possible, which is exactly the
state the error leaves. The guard only looks backwards in a transaction, so
choosing the next instruction when it runs loses nothing. Transactions are
sequential because Solana serialises those that write the same registry, and a
device may sign at any time, also while a transaction runs.

### TranaGuard

| Model | Code |
|---|---|
| `registry[w]` | account at seeds `["passkey", w]`; `exists` is "initialised", `keys` the vector as a map from slots (order is never read) |
| `config`, `lamports` | `TranaConfig`, balances (rent is left out) |
| `log` | `ProofVerified` events; each also records key, registry and epoch, which the properties need |
| `epoch[w]` | history only: number of recoveries, bounded by `MaxEpoch` |
| `approvals` | signatures devices have made (`Approve`: `buildProof` up to the WebAuthn answer) |
| `Intent(...)` | `compute_intent_hash` / `hashIntent`, as the record it encodes |
| `ProofAccepted`, `NonceConsumed` | `verify_at_idx`, `run_verification`, in the code's order of checks |
| `Enforced`, `Enforce` | `enforce` and `with_registry`; the registry account passed in is arbitrary |
| `Frames` | a guard instruction runs at top level or by CPI inside an application call |

Assumptions, beside those of `ConstantsAssumption`: SHA-256 on intents is
injective (fields have fixed width or a length prefix); the precompile verifies
the key and message that the guard reads from the same instruction (the offsets
point into its own data); an application program passes the wallet that signed.
`KeyKind` is never read by the program and is left out. `UnsignedOps` names
operations for which `record_proof` carries client data nobody has signed.

### TestVault

Users start with a registered passkey. `WithdrawPolicy` is the `match` on the
pool kind, `AfterWithdrawal` the second `match`, with `proof_used` computed as in
the code (from window and amount, not from what the guard did). `destination`
may be another account of the program, the pool itself included. `withdrawals` is
the `Withdrawn` event with the clock and the accepted intent added as history.
`PolicyStatus` is the landing page's reading of the same record.

### TranaAuthority

`Pda(w, t)` is the record's address and the authority it holds. The loader is
external and modelled by the checks the program relies on: the upgrade authority
must sign, the buffer's authority must equal it, an upgrade uses up the buffer.
Wallets write buffers, hand buffers and programs over, and upgrade directly while
they hold the authority. `reclaim_authority` may name any new authority, a record
included, and closes the record.

`AuthorityRespected` speaks of a whole transaction. One that carries several proofs
may hand a program from record to record, so it asks of such a chain that the first
hand-over is by the record's owner and the last one names the holder. Transactions
of the run have three instructions and so one proof; the theorem covers the chains.

### PasskeyAuthorization and GuardRefinement

The abstract specification has a set of keys, a nonce and an era (number of
recoveries) per wallet, the requests accepted so far and the signatures made. A
request is accepted if a registered key signed it for the current nonce and it is
not too late; keys change by a request that names the change, or one addressed to
another program, or by registration and recovery. The mapping forgets key slots,
fees, positions and policies and takes the committed ledger for `saved`. TLC checks
`AuthorizationImplemented` in `guard_keys`, where keys change, run out and are recovered;
`GuardRefinementProofs` proves it for every instance.

### PasskeyFlow

One `authorizeAndSend` per element of `Calls`, with a program counter whose values
are the awaits of `useTrana.ts`; they share `phase` (the reducer), `pending`
(`pendingRef`) and `cache` (the subscription). `tasks` are the modal's ceremonies,
which keep running when another modal replaces theirs. `mempool` holds submitted
transactions; each may land or be dropped at any time, also after a retry. Other
clients of the wallet use its keys, register and recover. `deployed` chooses between
the guard the package was written for and the guard of this repository, whose
registry it cannot parse and whose registration instruction it does not know.

### Scripts, TryPage, CounterApp

Each models one wallet with its scripts or handlers as programs whose steps are the
stretches between awaits, a set of transactions in flight that land or expire, and
the ledger as far as it decides whether such a transaction succeeds. Instructions
are taken from `Interface`: one that `Dispatched` refuses can never succeed.
`Scripts` may be interrupted anywhere. `TryPage` has two handlers at once, an
authenticator that may decline, and another session. In `CounterApp` run.mjs starts
the ledger anew, requests fail, and reloads overtake each other.

### Interface, Encodings, ClientData

These have no state: what the code computes is compared with a reference over
bounded inputs by assumptions TLC evaluates (`EncodersAgree`, `IdlsAreCurrent`,
`ReadersFindTheKeys`, `MirrorsAgree`, `DetectorNamesTheDemand`, `ErrorsAreNamed`).
Numbers in `Encodings` are two bytes wide over an order with its top bit set, so
short, full and negative-looking numbers all occur; `ClientData` uses the real
widths of the registry, with one or two entries of differing lengths, each list
written over each other list.

### Illustrations

A loop is a list of beats, each with its writes and with the places where the code
looks at the stop flag. Sections have a flag per effect; panels and the slide share
one ref between all effects of a component, so a loop told to stop can be revived
by the next effect. What is drawn is reduced to five facts a viewer can misread.

## 3. Runs

Deadlock checking is off in every run: the bounds (instructions, approvals,
nonces, clicks) end every behaviour, and an idle ledger, page or terminal is a legal
state. "Size" is distinct states.

| Run | Checks | Bounds and why they suffice | Size |
|---|---|---|---|
| `guard_keys` | `RegistryBoundToSeeds`, `AuditTrailComplete`, `NoReplay`, `AuthorizationImplemented`, `KeysChangeOnlyWithProof`, `HistoryOnlyGrows` | one wallet, two keys plus one over-long key, two credential ids, capacity 2, nonces to 2, four instructions, two signatures, one recovery: a proof pair with an instruction after it, two accepted proofs, an emptied registry registered again, a recovery after proofs | 1.4 M |
| `guard_wallets` | `TypeOK`, `IInv`, `EveryProofWasSigned` | two wallets passing either registry, conditional policies at both sides of slot, second and amount, client data nobody signed; a fee of all a wallet has; the last nonce is 1, so overflow is met | 1.6 M |
| `vault_policies` | `VaultTypeOK`, `CooldownNeedsProof`, `DrainWindowNeedsProof`, `WindowStaysBelowLimit`, `LargeNeedsProofOutsideWindow`, `SignaturePaysOnce`, `Solvent` | either kind of pool; limit, window and cooldown 2, so every boundary lies inside the clock's range; withdrawals to the wallet and back into the pool | 1.2 M |
| `authority_life` | `AuthorityTypeOK`, `ProofConsumedOnlyByAction`, `SignedImageDeployed`, `AuthorityRespected` | two wallets with records for one program, one buffer, two images, three instructions: buffers rewritten between signature and upgrade, reclaim to a record, re-registration | 3.8 M |
| `sdk_flow` | `FlowTypeOK`, `ModalMatchesPromise`, `ExecutedOnce`, `AuthorizedWasShown`, `NothingPassesHere`, `CallsSettle` | two concurrent calls, one with a conditional policy, two ceremonies, nonces to 2, one recovery, expiry after one second: both can wait at once, be replaced, retry and land late | 0.8 M |
| `scripts` | `RecordBehindAuthority`, `ReportsAreTrue`, `ProofsFollowReads` | two terminals, three scripts, two treasuries, one recovery: any script beside any other, stopped and started again | 1.6 M |
| `landing_app` | `PageTypeOK`, `CalmProofsAccepted`, `PageKeepsRecord`, `LockMatchesRun`, `OutcomesAreTrue`; `OneLoopPerSection`, `StoryIsTrue`, `LoopsStopSoon` | two handlers at once and one thing done elsewhere; three effects of a component and three presses, so a loop can be stopped, revived and overlapped, and several timers pend | 2.4 M |
| `counter_app` | `HandleKept`, `ScreenFollowsWallet`, `BusyClears` | two wallets and credentials, two overlapping reloads; a first start and load and one more event (restart, page load, failed request, change elsewhere) | 1.4 M |

Every property has a mutant: a plausible slip in the mapped code (a nonce not
incremented, an owner not compared, a window boundary made inclusive, a promise
dropped, a lock released late) under which the run finds it violated.

**Fairness.** Two runs state liveness. `CallsSettle` assumes that an await that can
finish does (each `CallStep`) and that a user does something with a modal, if only
to cancel it (`UserActs`); it assumes nothing of the chain, of other clients or of
what the user chooses. `BusyClears` assumes that the page's code runs on
(`JobStep`, `JobReloadStep`) and that a transaction lands or its blockhash expires,
which the cluster guarantees. Everything else is safety and needs no fairness.

Runs that end in a violation show where the code does other than its own text:

| Run | Statement | What happens |
|---|---|---|
| `guard_lastkey` | lib.rs:258 "at least one must remain" | two entries share a credential id; the guard counts two, `retain` drops both |
| `guard_nonce_reset` | events.rs:17 "now invalid — cannot be replayed" | recovery resets the nonce; with the same key registered again an unexpired signature is accepted a second time |
| `vault_large_free` | vault lib.rs:9 "passkey for >= 1 SOL" | in the drain window only the cooldown counts; 150 slots can pass in less than 60 s |
| `script_upgrade` | upgrade-program.mjs:5 "Upgrade a program whose upgrade authority is a Trana Authority PDA" | the accounts are not in the program's order, so the instruction is refused in every state |

**What the properties exclude, and why.** Several properties name the exception
the code really has; the model reaches each of them.

* `ExecutedOnce`: a recovery between a retry and its landing lets the retry be
  accepted again; a conditional policy that asks for no proof promises nothing.
* `CallsSettle`: a second call replaces `pendingRef`, and the first waits for ever.
* `ProofsFollowReads`: a recovery, or a registration into an emptied registry,
  leaves the nonce a script has read valid for other keys.
* `CalmProofsAccepted`: a handler that shares `passkeyRef` with another may prove
  with a credential that was never registered; in an emptied registry
  `fetchFirstPasskey` finds the bytes of the removed key.
* `OutcomesAreTrue`: a deposit's error is never looked at, and a withdrawal without
  a signature is judged by the wallet's latest transaction.
* `HandleKept`: a failed read of the registry counts as "not registered" and
  removes the only handle of a key; a failed `getTransaction` never saves it.
* `StoryIsTrue`: holds while one loop writes; the panels and the slide can have two.

Smaller disagreements that were met and are not runs:

* README.md:148 says `recover_registry` requires a proof and README.md:190 that it
  has a fee (the code asks for the wallet's signature and nothing else);
  state.rs:163 asks for a proof by a *remaining* key (any registered key will do);
  state.rs:191 says `enforce` validates the registry's derivation (it compares the
  owner field; theorem `BoundRegistries` shows that this is enough).
* Vault: state.rs:48 says the first pull is always free (not below slot 150);
  lib.rs:126 says the unlock slot "ends up signed inside the WebAuthn challenge" (the
  intent has no such field). The try page's live policy shows `trana.not_before` only
  for a window at the limit, which `WindowStaysBelowLimit` shows never to happen; it
  shows `trana.limit` while the program asks for `trana.not_before`.
* `codeToMsg` takes every program's error codes for the guard's: the vault's
  "Insufficient balance" is told as a tampered payload. The modal knows an error,
  and parseTranaError a marker, that the guard does not have (`ErrorsAreNamed`).
* The React package parses a registry layout of one key with the nonce last; on
  this repository's registries it throws (for nonces below 256), and its modal sends
  `register_two_fa`, which the guard no longer has (`NothingPassesHere`).
* A rerun of secure-upgrade-authority.mjs after a stop between its steps fails at
  step 1; reclaim-authority.mjs has the account order of upgrade-program.mjs and a
  target that is not writable, so neither can succeed.
* The testing helper `ensureLowS` returns zeros for s when s was high.
* `TranaGuardClient.fetchRegistry` (client.ts:138) says null means "not yet
  registered"; it also means that the request failed.

## 4. Proofs

Every safety property of the passing runs is a theorem: it holds for all values of
the constants that the named assumptions allow, and nothing bounds the length of a
transaction or of a behaviour. Bounds such as `MaxRuns`, `MaxEffects` or `MaxNonce`
are only natural numbers here.

**Assumptions.** `ConstantsAssumption` gives the guard's constants their types.
`VaultAssumption` adds that there are finitely many wallets (addresses have 32
bytes; without it the sum a pool owes need not exist). `AuthorityAssumption` adds
that a record's address is no wallet's (program addresses lie off the curve) and
that the all-zero key is none. `FlowAssumption` says that different calls carry
different instructions, which is what makes "executed once" a statement about a call.
`ScriptsAssumption`, `PageAssumption`, `ShowAssumption` and `CounterAssumption` only
type their bounds. `LandingProofs` also cites `EncodersAgree`, a fact without
parameters that TLC evaluates: a device's signature reaches the precompile in the
form it takes.

| Module | Theorem | Statement |
|---|---|---|
| `TranaGuardProofs` | `Invariance` | `Spec => [](TypeOK /\ IInv)` |
| | `TypeCorrect` | `Spec => []TypeOK` |
| | `BoundRegistries` | `Spec => []RegistryBoundToSeeds` |
| | `ProofsWereSigned` | `Spec => []EveryProofWasSigned` |
| | `ReplayProtection` | `Spec => []NoReplay` |
| | `AuditTrail` | `Spec => []AuditTrailComplete` |
| `GuardRefinementProofs` | `KeysAreProtected` | `Spec => KeysChangeOnlyWithProof` |
| | `HistoryIsKept` | `Spec => HistoryOnlyGrows` |
| | `Refinement` | `Spec => AuthorizationImplemented` |
| `AuthorityProofs` | `AuthorityTypes` | `AuthoritySpec => []AuthorityTypeOK` |
| | `ProofBuysAction` | `AuthoritySpec => []ProofConsumedOnlyByAction` |
| | `UpgradesDeployWhatWasSigned` | `AuthoritySpec => []SignedImageDeployed` |
| | `AuthorityIsRespected` | `AuthoritySpec => AuthorityRespected` |
| `VaultProofs` | `VaultInvariance` | `VaultSpec => []VaultInv` |
| | `CooldownHolds` | `VaultSpec => []CooldownNeedsProof` |
| | `DrainWindowHolds` | `VaultSpec => []DrainWindowNeedsProof` |
| | `LargeWithdrawals` | `VaultSpec => []LargeNeedsProofOutsideWindow` |
| | `SignaturesPayOnce` | `VaultSpec => []SignaturePaysOnce` |
| | `WindowsStaySmall` | `VaultSpec => []WindowStaysBelowLimit` |
| | `FundsInvariance`, `PoolsStaySolvent`, `VaultStateTypes` | `VaultSpec => []FundsInv`, `[]Solvent`, `[]VaultTypeOK` |
| `FlowProofs` | `FlowStateTypes` | `FlowSpec => []FlowTypeOK` |
| | `ModalsMatchPromises` | `FlowSpec => []ModalMatchesPromise` |
| | `CallsExecuteOnce` | `FlowSpec => []ExecutedOnce` |
| | `OnlyShownIsAuthorized` | `FlowSpec => []AuthorizedWasShown` |
| | `ReactFlowPassesNothing` | `FlowSpec => []NothingPassesHere` |
| `ScriptsProofs` | `AuthorityNeverLost` | `Spec => []RecordBehindAuthority` |
| | `ScriptsReportTruly` | `Spec => ReportsAreTrue` |
| | `ProofsSpentOnKeysRead` | `Spec => ProofsFollowReads` |
| `LandingProofs` | `PageStateTypes` | `LandingSpec => []PageTypeOK` |
| | `LockFollowsHandler` | `LandingSpec => []LockMatchesRun` |
| | `PageNeverStrandsAuthority` | `LandingSpec => []PageKeepsRecord` |
| | `PageReportsTruly` | `LandingSpec => OutcomesAreTrue` |
| | `CalmHandlersPass` | `LandingSpec => []CalmProofsAccepted` |
| | `OneLoopAtWork` | `LandingSpec => []OneLoopPerSection` |
| | `LoopsNotice` | `LandingSpec => []LoopsStopSoon` |
| | `StoriesAreTrue` | `LandingSpec => []StoryIsTrue` |
| `CounterProofs` | `CounterInvariance` | `CounterSpec => []CounterInv` |
| | `HandlesAreKept` | `CounterSpec => []HandleKept` |
| | `ScreenShowsTheWallet` | `CounterSpec => []ScreenFollowsWallet` |

**Guard, states.** `NoReplay` alone is not inductive: that a new event's nonce exceeds
the earlier ones of its epoch needs `AuditTrailComplete` (the nonces consumed since
the last recovery are exactly those below the registry's nonce), which in turn,
when a recovery opens a new epoch, needs that no event of that epoch exists
(`EpochsPassed`). `EveryProofWasSigned` needs that the precompile instructions in
a running transaction hold real signatures, and, for the wallet charged to be the
wallet that signed, `RegistryBoundToSeeds`, since `enforce` compares an owner
field and not an address. `IInv` is the conjunction, each part stated for the
working and the committed ledger, so that `Abort` restores it. `TypeStep` and
`InvStep` have one step per action; what the actions share is proved once: an
accepted proof yields a signed event (`AcceptedProof`), appending that event while
its nonce advances keeps a ledger's invariant (`EventAppended`, `ProofAppended`),
and so does a change of keys alone (`SameNonces`, `BoundKept`). Facts about key
slots (`PushedType`, `RetainedType`) bound the keys by the account's capacity.

**Guard, commits.** Both action properties compare two commits, between which a
transaction takes many steps. `WorkingFollows` says how far the working ledger may
have come from the committed one: its log extends it, a nonce went back only with
an epoch, keys changed only with an epoch or an event. The relation is reflexive
(`FollowsItself`, for `Commit` and `Abort`) and transitive (`FollowsInTurn`), so each
action need only be shown to follow the state before it.

**Guard, refinement.** Each action maps to one abstract step or to a stutter. The
mapping turns key vectors into sets, so `PushedEntries` and `RetainedEntries` say
what a push and a `retain` do to the set; `IInv` supplies that an accepted proof has
a signature the abstract state knows, and that the wallet it names is the owner.

**Authority.** `ProofConsumedOnlyByAction` (log and actions agree one for one) is
inductive once the guard's part of the ledger is typed. `AuthorityRespected` needs
`WorkingRespects`: at any point of a transaction, what it has done to a program so
far is what the program's holder at its start allowed. A further step extends a
chain of hand-overs at its end only. `SignedImageDeployed` looks back to a signature
made any number of commits and rollbacks ago. `StandsFor` says what such a signature
still means: if its buffer belonged to the record when it was made, then either its
nonce has been spent or the buffer is untouched, because only an upgrade through that
record, which spends the nonce, can change it; and every upgrade that was accepted
for it deployed the image it held. `SignedInv` asks this of every signature made and of
every one that could be made now (`Signable`), so that signing adds nothing to prove, against
the working and, for those made, the committed ledger. It needs that accepted nonces
are spent (`NoncesSpent`) and that a buffer that is used up has no owner
(`UnusedUnheld`).

**Vault.** The properties relate withdrawals any number of steps apart, while the
program sees one record per user and pool. `VaultInv` says what that record
remembers: it is as late as each of the user's withdrawals (`SlotsKept`); the window
of a free withdrawal is open until one that counts as proved (`WindowsKept`); an open
window was opened by a free withdrawal (`WindowsOpened`) and has counted less than
the limit (`WindowsSmall`); a pool keeps its kind (`KindsKept`); the proofs of earlier
withdrawals have smaller nonces (`ProofsNamed`). Each is stated for the working and
for the stored accounts, and the stored withdrawals are a prefix of the working
ones, so that `VaultAbort` restores everything (`WithdrawalsCut`).

**Vault, funds.** `Solvent` compares a pool's lamports with a sum over its users.
The sum is a fold of the community modules, a recursive function on sets, and that
such a function exists at all is what `SumsExist` proves: were there a size up to
which sets have no sums there would be a least one, and from the sums of sets one
element smaller it would have them after all. With that, `OwedChange` says
that when one user's balance changes, the sum changes by as much. `FundsInv` adds
`FundsOK` (types, and lamports cover what is owed) for the working and the stored
accounts to `VaultInv`; each action changes one balance and one pool's lamports by
the same amount, or, for a withdrawal back into the pool, only lowers what is owed.

**React flow.** `FlowTypes` carries, with the types, that the open modal is the one
whose promise is pending and that a call past its review holds the intent reviewed.
`ExecutedOnce` follows from `OnceInv`: whatever of a call is in flight or accepted is
the one answer that the call got (`OneAnswer`), so a retry resends the same
signature; a signature is accepted once per era (`OncePerEra`), since its nonce is
then spent; and landings are counted by acceptances (`Counted`). `AuthorizedWasShown`
follows an intent from the review step through the device to the chain (`ShownInv`). Two
lemmas describe all steps: `Moves` what one step of a call may do to calls, tasks and
mempool, `Settles` what the answer of a modal may.

**Scripts.** `ScriptsInv` has a part for the ledger (`LedgerOk`: authority under a
record implies the record), for each terminal (`RunOk`) and for each transaction in
flight (`TxOk`), and ties a transaction to at most one terminal, which waits for it
(`Waits`). The secure script's two steps need `Holds`: between them the record is
there and the authority still the wallet's, and one terminal at most is between
them. What the ledger can
do under a script is one relation, `Onward`, under which everything a script has
read stays true or becomes visibly outdated (`FreshRead`); each landing is shown to
follow it once.

**Try page.** `PageInv` types the chain, the transactions and the handlers and says
that the lock is held exactly by a secure handler under way. `OutcomesAreTrue` and
`PageKeepsRecord` follow from it step by step. `CalmProofsAccepted` needs `CalmInv`:
`Informed` lists, for each await of a handler, what the handler knows then that is
still so if nobody has interfered (its credential is registered, its policy is the one
demanded, its nonce the current one); whoever changes any of it marks the handler as
not calm.

**Illustrations.** What a script shows after each of its beats is written down as
the intervals of beats at which each fact is shown (`Span`), and one lemma per script
proves that its writes produce them and that they never tell an untruth (`Story`). The
invariant `ShowInv` then says where the loops are: with one loop begun, the page is
what its script tells at its beat, or the slide has wiped the page and raised the flag
the loop will find (`LoopsFollow`); a late loop in a section is one that must look at
its next wait (`Lateness`, from `Watched`: the scripts look at the flag at least after
every second write); every effect of a section but the last has been told to stop and has at
most one loop (`EffectsOk`).

**Counter.** `CounterInv` relates the page's handler, its reloads, the transaction in
flight and the browser's store. `KeysHeld`, the reason for `HandleKept`, is not
inductive alone: that no reload wipes a handle needs that no answer which has been
read says "not registered" of a registered wallet (`AnswersTrue`), and that in turn
needs that a page nobody disturbs does one thing at a time (`Orderly`). `ScreenOk`
gives `ScreenFollowsWallet`. The many steps of a handler are covered by a few lemmas
by what they have in common: those that only move on (`HandlerMoves`), that end it
(`HandlerEnds`), a reload that goes (`ReloadGone`), and what happens outside the page
(`OutsideKeeps`).

**Only model-checked.** The two liveness properties, `CallsSettle` and `BusyClears`:
the prover handles neither fairness nor ENABLED. What the folds and recursive
readings of `Encodings` and `ClientData` compute is evaluated by TLC on bounded inputs
only: that needs induction over data. The statements that the four remaining runs
refute are false, so there is nothing to prove.

## 5. Not modelled

* SHA-256, base64, JSON: abstracted to the record they encode. Rent, transaction
  fees, compute limits, the label of a pool, logging beyond the two lines the
  clients read.
* The React package's `useBackupNudge` (its busy phases are never entered, so it
  never shows) and `useTranaPasskeys` (throws "coming in v1.1").
* Of the try page: `handleUpgradeLeak`, which nothing calls, the authority pages'
  being marked "soon" (their handlers are modelled as if reachable), and layout.
* The legacy SDK files beyond the policy mirrors: they talk to a bridge server that is
  not in the repository, and the guard has no instruction that takes its proof.
* The rest of the landing app (static markup, and panels under `try-it-live` that no
  page imports), build and deployment scripts, tests and prose documentation.

## 6. Plan

1. Programs, their proofs, the abstract specification, the React flow, the scripts,
   the try page, the illustrations, the counter example, the data contracts: done.
2. Theorems about the programs: the guard's invariants, its commits and its
   refinement; the vault's withdrawals and funds; the authority's proofs, hand-overs
   and deployed images: done.
3. Theorems about the clients: every safety property of the React flow, the scripts,
   the landing app and the counter: done.
4. Next: that the React flow's use of `PasskeyAuthorization` and the guard's
   refinement of it compose, so that `CallsExecuteOnce` can be read as a theorem
   about the guard itself.
