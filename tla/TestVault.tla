----------------------------- MODULE TestVault ------------------------------
(***************************************************************************)
(* The trana_test_vault program on top of trana_guard: pools that many     *)
(* users share, where each withdrawal asks the guard to enforce a policy   *)
(* chosen from the user's own withdrawal history.                          *)
(*                                                                         *)
(* A transaction is that of TranaGuard.  The program's accounts are        *)
(* published and rolled back with the guard's.  Every user has already     *)
(* registered a passkey, without fees.                                     *)
(***************************************************************************)
EXTENDS TranaGuard, FiniteSetsExt

CONSTANTS
  Pools,            \* pool accounts; each stands for its authority's seeds
  PoolKinds,        \* kinds of pool that are created
  Deposited,        \* amounts that are deposited
  WITHDRAW_LIMIT,   \* lamports, see Policy::Limit
  DRAIN_WINDOW,     \* seconds
  COOLDOWN_SLOTS,   \* slots
  StartSlot         \* the slot at which the program is deployed

ASSUME VaultAssumption ==
  /\ IsFiniteSet(Wallets)   \* addresses of 32 bytes
  /\ AppArgs \subseteq [pool: Pools, destination: Wallets \cup Pools, registry: Wallets,
                        amount: Nat]
  /\ PoolKinds \subseteq {"Limit", "TimeLocked"}
  /\ Deposited \subseteq Nat
  /\ WITHDRAW_LIMIT \in Nat /\ DRAIN_WINDOW \in Nat /\ COOLDOWN_SLOTS \in Nat
  /\ StartSlot \in Nat

VARIABLES
  pools,        \* the Pool account of each pool
  deposits,     \* the UserDeposit account of each user in each pool
  held,         \* each pool's lamports above its rent
  withdrawals,  \* Withdrawn events, oldest first, with their history
  stored        \* pools, deposits, held and withdrawals as last committed

accounts  == <<pools, deposits, held, withdrawals>>
vaultVars == <<accounts, stored>>
allVars   == <<vars, vaultVars>>

Vault == "trana_test_vault"

NoPool    == [exists |-> FALSE, kind |-> ZeroKey]
NoDeposit == [exists |-> FALSE, balance |-> 0, last_withdraw_slot |-> 0,
              window_withdrawn |-> 0, last_withdraw_at |-> 0]

Stored == [pools |-> pools, deposits |-> deposits, held |-> held,
                      withdrawals |-> withdrawals]

-----------------------------------------------------------------------------
(* The choice of policy.                                                   *)

Unlock(ud) == ud.last_withdraw_slot + COOLDOWN_SLOTS

\* The boundary of the drain window is exclusive, and 0 stands for no withdrawal.
WindowInclusive(ud) == ud.last_withdraw_at > 0 /\ clock.time - ud.last_withdraw_at <= DRAIN_WINDOW
InWindow(ud) == ud.last_withdraw_at > 0 /\ clock.time - ud.last_withdraw_at < DRAIN_WINDOW

WithdrawPolicy(kind, ud) ==
  IF kind = "TimeLocked" \/ InWindow(ud)
  THEN [id |-> "trana.not_before", bound |-> Unlock(ud)]
  ELSE [id |-> "trana.limit", bound |-> WITHDRAW_LIMIT]

ProofUsed(kind, ud, amount) ==
  kind = "Limit" /\ (InWindow(ud) \/ amount >= WITHDRAW_LIMIT)

\* The user's record after a withdrawal.
SlotForgotten(kind, ud, amount) ==
  [ud EXCEPT !.balance = @ - amount,
             !.last_withdraw_slot = IF kind = "Limit" THEN clock.slot ELSE @,
             !.window_withdrawn = amount,
             !.last_withdraw_at = IF ProofUsed(kind, ud, amount) THEN 0 ELSE clock.time]
AlwaysFresh(kind, ud, amount) ==
  [ud EXCEPT !.balance = @ - amount, !.last_withdraw_slot = clock.slot]
BalanceKept(kind, ud, amount) ==
  [ud EXCEPT !.last_withdraw_slot = clock.slot,
             !.last_withdraw_at = IF ProofUsed(kind, ud, amount) THEN 0 ELSE clock.time]
\* A window that counts what a proved withdrawal takes, and stays open.
WindowOutlivesProof(kind, ud, amount) ==
  LET taken == [ud EXCEPT !.balance = @ - amount, !.last_withdraw_slot = clock.slot]
  IN IF kind = "TimeLocked"
     THEN taken
     ELSE [taken EXCEPT !.window_withdrawn = IF InWindow(ud) THEN @ + amount ELSE amount,
                        !.last_withdraw_at = clock.time]
AfterWithdrawal(kind, ud, amount) ==
  LET taken == [ud EXCEPT !.balance = @ - amount, !.last_withdraw_slot = clock.slot]
  IN CASE kind = "TimeLocked" -> taken
       [] kind = "Limit" /\ ProofUsed(kind, ud, amount) ->
            [taken EXCEPT !.window_withdrawn = 0, !.last_withdraw_at = 0]
       [] OTHER ->
            [taken EXCEPT !.window_withdrawn = IF InWindow(ud) THEN @ + amount ELSE amount,
                          !.last_withdraw_at = clock.time]

\* The policy the landing page shows as the one in force for a user of its pool.
PolicyStatus(ud) ==
  IF InWindow(ud) /\ ud.window_withdrawn >= WITHDRAW_LIMIT
  THEN "trana.not_before"
  ELSE "trana.limit"

-----------------------------------------------------------------------------
(* The program's instructions.                                             *)

VaultInit ==
  /\ \E e \in Entry :
       /\ KeyLen[e.pubkey] = 33 /\ ValidKeyInputs(e)
       /\ registry = [w \in Wallets |-> [exists |-> TRUE, owner |-> w, nonce |-> 0,
                                         keys |-> Pushed(<<>>, e)]]
  /\ \E w \in Wallets, t \in Treasuries :
       config = [exists |-> TRUE, authority |-> w, treasury |-> t,
                 register_fee |-> 0, add_key_fee |-> 0]
  /\ lamports  = [a \in Accounts |-> InitialLamports]
  /\ log       = <<>>
  /\ epoch     = [w \in Wallets |-> 0]
  /\ committed = [config |-> config, registry |-> registry, lamports |-> lamports,
                  log |-> log, epoch |-> epoch]
  /\ tx        = <<>>
  /\ approvals = {}
  /\ clock     = [slot |-> StartSlot, time |-> 1]
  /\ pools     = [p \in Pools |-> NoPool]
  /\ deposits  = [p \in Pools |-> [u \in Wallets |-> NoDeposit]]
  /\ held      = [p \in Pools |-> 0]
  /\ withdrawals = <<>>
  /\ stored    = Stored

\* A top-level instruction of the vault that no passkey signs.
Plain(op, u) ==
  /\ Len(tx) < MaxIx
  /\ tx' = Append(tx, PlainCall(Vault, op, u))

\* initialize_pool: `init` fails when the pool exists.
InitializePool(p, kind, u) ==
  /\ Plain("initialize_pool", u)
  /\ ~pools[p].exists
  /\ pools' = [pools EXCEPT ![p] = [exists |-> TRUE, kind |-> kind]]
  /\ UNCHANGED <<ledger, committed, approvals, clock, deposits, held, withdrawals,
                 stored>>

\* deposit: creates the user's record on the first one.
Deposit(u, p, amount) ==
  /\ Plain("deposit", u)
  /\ amount > 0
  /\ pools[p].exists
  /\ lamports[u] >= amount
  /\ lamports' = [lamports EXCEPT ![u] = @ - amount]
  /\ held'     = [held EXCEPT ![p] = @ + amount]
  /\ deposits' = [deposits EXCEPT ![p][u].exists = TRUE, ![p][u].balance = @ + amount]
  /\ UNCHANGED <<config, registry, log, epoch, committed, approvals, clock, pools,
                 withdrawals, stored>>

\* Lamports arriving at an account, if it is among those of the balances.
Credited(balances, to, amount) ==
  [a \in DOMAIN balances |-> IF a = to THEN balances[a] + amount ELSE balances[a]]

HasSomething(ud, amount) == ud.balance > 0
HasBalance(ud, amount)   == ud.balance >= amount

\* withdraw: the destination may be any account, the pool itself included.
Withdraw(ix) ==
  LET u == ix.wallet
      p == ix.arg.pool
      amount == ix.arg.amount
      ud == deposits[p][u]
      kind == pools[p].kind
      to == ix.arg.destination
      policy == WithdrawPolicy(kind, ud)
  IN /\ ix.op = "protected"
     /\ Len(tx) < MaxIx
     /\ tx' = Append(tx, ix)
     /\ amount > 0
     /\ pools[p].exists
     /\ ud.exists
     /\ HasBalance(ud, amount)
     /\ Enforced(tx', u, ix.arg.registry, policy)
     /\ held'     = Credited([held EXCEPT ![p] = @ - amount], to, amount)
     /\ lamports' = Credited(lamports, to, amount)
     /\ deposits' = [deposits EXCEPT ![p][u] = AfterWithdrawal(kind, ud, amount)]
     /\ withdrawals' = Append(withdrawals,
          [pool |-> p, user |-> u, amount |-> amount, kind |-> kind,
           proof_used |-> ProofUsed(kind, ud, amount),
           intent |-> IF log' = log THEN {} ELSE {log'[Len(log')].intent},
           slot |-> clock.slot, time |-> clock.time])
     /\ UNCHANGED <<config, epoch, committed, approvals, clock, pools, stored>>

-----------------------------------------------------------------------------
(* Steps of the environment, with the vault's part of them.                *)

VaultCommit ==
  /\ Commit
  /\ stored' = Stored
  /\ UNCHANGED <<accounts>>

VaultAbort ==
  /\ Abort
  /\ pools'       = stored.pools
  /\ deposits'    = stored.deposits
  /\ held'        = stored.held
  /\ withdrawals' = stored.withdrawals
  /\ UNCHANGED <<stored>>

\* A device signs a withdrawal; what it signs does not mention the unlock slot.
SignWithdrawal(k, ix, policy, ttl) ==
  /\ Approve(k, ix, policy, ttl)
  /\ UNCHANGED <<accounts, stored>>

\* The pair buildProof returns for a signature.
AttachProof(a) ==
  /\ Len(tx) + 2 <= MaxIx
  /\ tx' = tx \o ProofIxs(a)
  /\ UNCHANGED <<ledger, committed, approvals, clock, vaultVars>>

WithdrawCalls == {ix \in Calls : ix.op = "protected"}

VaultNext ==
  \/ \E p \in Pools, kind \in PoolKinds, u \in Wallets : InitializePool(p, kind, u)
  \/ \E u \in Wallets, p \in Pools, amount \in Deposited : Deposit(u, p, amount)
  \/ \E ix \in WithdrawCalls : Withdraw(ix)
  \/ \E k \in PubKeys, ix \in WithdrawCalls, p \in Policies, ttl \in Ttls :
        SignWithdrawal(k, ix, p.id, ttl)
  \/ \E a \in approvals : AttachProof(a)
  \/ Tick /\ UNCHANGED vaultVars
  \/ VaultCommit
  \/ VaultAbort

VaultSpec == VaultInit /\ [][VaultNext]_allVars

-----------------------------------------------------------------------------
(* Properties.                                                             *)

VaultTypeOK ==
  /\ pools \in [Pools -> [exists: BOOLEAN, kind: PoolKinds \cup {ZeroKey}]]
  /\ deposits \in [Pools -> [Wallets ->
       [exists: BOOLEAN, balance: Nat, last_withdraw_slot: Nat, window_withdrawn: Nat,
        last_withdraw_at: Nat]]]
  /\ held \in [Pools -> Nat]

\* The balances in a pool's records of its users, together.
Owed(records) == MapThenSumSet(LAMBDA u : records[u].balance, Wallets)

\* A pool never owes its users together more than it holds, whoever withdrew to
\* where, and whatever was rolled back in between.
Solvent ==
  \A p \in Pools : /\ Owed(deposits[p]) <= held[p]
                   /\ Owed(stored.deposits[p]) <= stored.held[p]

Proved(w) == w.intent # {}

\* Withdrawals i and j, in this order, of one user from one pool.
Successive(i, j) ==
  /\ i < j
  /\ withdrawals[i].pool = withdrawals[j].pool
  /\ withdrawals[i].user = withdrawals[j].user

Elapsed(i, j) == withdrawals[j].time - withdrawals[i].time
CooledDown(i, j) == withdrawals[j].slot >= withdrawals[i].slot + COOLDOWN_SLOTS

\* TimeLocked pools: within the cooldown after any withdrawal of a user, only a
\* passkey's signature lets the user withdraw again.
CooldownNeedsProof ==
  \A i, j \in DOMAIN withdrawals :
    Successive(i, j) /\ withdrawals[j].kind = "TimeLocked" /\ ~CooledDown(i, j) =>
      Proved(withdrawals[j])

\* Limit pools: the window a free withdrawal opens holds until a withdrawal that
\* counts as proved closes it; inside it, and before the cooldown, a signature is
\* needed.
DrainWindowNeedsProof ==
  \A i, j \in DOMAIN withdrawals :
    /\ Successive(i, j)
    /\ withdrawals[j].kind = "Limit"
    /\ ~withdrawals[i].proof_used
    /\ Elapsed(i, j) < DRAIN_WINDOW
    /\ ~CooledDown(i, j)
    => \/ Proved(withdrawals[j])
       \/ \E k \in i + 1 .. j - 1 : Successive(i, k) /\ withdrawals[k].proof_used

\* Limit pools: a withdrawal of the limit or more without a signature happens only
\* inside a drain window whose cooldown has already passed.
LargeNeedsProofOutsideWindow ==
  \A j \in DOMAIN withdrawals :
    /\ withdrawals[j].kind = "Limit"
    /\ withdrawals[j].amount >= WITHDRAW_LIMIT
    /\ ~Proved(withdrawals[j])
    => \E i \in DOMAIN withdrawals :
         /\ Successive(i, j)
         /\ ~withdrawals[i].proof_used
         /\ Elapsed(i, j) < DRAIN_WINDOW
         /\ CooledDown(i, j)

\* One signature pays out once, to the user, pool and amount that were signed.
SignaturePaysOnce ==
  \A j \in DOMAIN withdrawals : \A v \in withdrawals[j].intent :
    /\ v.wallet = withdrawals[j].user
    /\ v.ix.arg.pool = withdrawals[j].pool
    /\ v.ix.arg.amount = withdrawals[j].amount
    /\ \A i \in DOMAIN withdrawals : i # j => v \notin withdrawals[i].intent

\* A window never adds up to the limit: the withdrawal that opens it is below the
\* limit, and the next one inside it closes it.  So the landing page, which takes a
\* window at the limit for the sign of trana.not_before, never shows that policy,
\* though the program asks for it in every open window.
WindowStaysBelowLimit ==
  \A p \in Pools, u \in Wallets : PolicyStatus(deposits[p][u]) = "trana.limit"

(* What the program's own text says of it, and its code does not do.       *)

\* "passkey for >= 1 SOL or a drain burst" (trana_test_vault/src/lib.rs:9).
LargeNeedsProof ==
  \A j \in DOMAIN withdrawals :
    withdrawals[j].kind = "Limit" /\ withdrawals[j].amount >= WITHDRAW_LIMIT =>
      Proved(withdrawals[j])

=============================================================================
