---------------------------- MODULE VaultProofs -----------------------------
(***************************************************************************)
(* Theorems about trana_test_vault, for any number of users, pools and     *)
(* withdrawals and any limit, drain window and cooldown.                   *)
(***************************************************************************)
EXTENDS TestVault, TranaGuardProofs, WellFoundedInduction

-----------------------------------------------------------------------------
(* The inductive invariant.                                                *)

VaultInstructions ==
  Calls \cup [kind: {"call"}, program: {Vault}, op: {"initialize_pool", "deposit"},
              wallet: Wallets, arg: {NoArg}]
        \cup [kind: {"secp256r1"}, key: PubKeys, message: Intents]
        \cup [kind: {"record_proof"}, policy: PolicyIds, expiry: Nat, challenge: Intents]

\* Every registry exists and is its wallet's own.
RegistriesTyped(r) ==
  r \in [Wallets -> Registry] /\ \A w \in Wallets : r[w].owner = w

EnvironmentTyped ==
  /\ tx \in Seq(VaultInstructions)
  /\ approvals \in SUBSET Approvals
  /\ clock \in [slot: Nat, time: Nat] /\ clock.time > 0
  /\ log \in Seq(Events) /\ committed.log \in Seq(Events)
  /\ epoch \in [Wallets -> Nat] /\ committed.epoch \in [Wallets -> Nat]
  /\ RegistriesTyped(registry) /\ RegistriesTyped(committed.registry)

Kinds == {"Limit", "TimeLocked"}

UserDeposits == [exists: BOOLEAN, balance: Nat, last_withdraw_slot: Nat,
                 window_withdrawn: Nat, last_withdraw_at: Nat]

Withdrawals == [pool: Pools, user: Wallets, amount: Nat, kind: Kinds, proof_used: BOOLEAN,
                intent: SUBSET Intents, slot: Nat, time: Nat \ {0}]

RecordsTyped(ps, ds, ws) ==
  /\ ps \in [Pools -> [exists: BOOLEAN, kind: Kinds \cup {ZeroKey}]]
  /\ \A p \in Pools : ps[p].exists => ps[p].kind \in Kinds
  /\ ds \in [Pools -> [Wallets -> UserDeposits]]
  /\ ws \in Seq(Withdrawals)

\* A pool keeps the kind its withdrawals were made under.
KindsKept(ps, ws) ==
  \A i \in DOMAIN ws : ps[ws[i].pool].exists /\ ps[ws[i].pool].kind = ws[i].kind

\* A user's record is as late as each of the user's withdrawals, and not later
\* than the clock.
SlotsKept(c, ds, ws) ==
  /\ \A i \in DOMAIN ws : ws[i].slot <= ds[ws[i].pool][ws[i].user].last_withdraw_slot
  /\ \A p \in Pools, u \in Wallets : /\ ds[p][u].last_withdraw_slot <= c.slot
                                     /\ ds[p][u].last_withdraw_at <= c.time

\* A free withdrawal's window is open until a withdrawal that counts as proved.
WindowsKept(ds, ws) ==
  \A i \in DOMAIN ws :
    ws[i].kind = "Limit" /\ ~ws[i].proof_used =>
      \/ ds[ws[i].pool][ws[i].user].last_withdraw_at >= ws[i].time
      \/ \E k \in DOMAIN ws : /\ i < k
                              /\ ws[k].pool = ws[i].pool /\ ws[k].user = ws[i].user
                              /\ ws[k].proof_used

\* An open window was opened by a free withdrawal.
WindowsOpened(ds, ws) ==
  \A p \in Pools, u \in Wallets :
    ds[p][u].last_withdraw_at > 0 =>
      \E i \in DOMAIN ws : /\ ws[i].pool = p /\ ws[i].user = u
                           /\ ~ws[i].proof_used
                           /\ ws[i].time = ds[p][u].last_withdraw_at
                           /\ ws[i].slot <= ds[p][u].last_withdraw_slot

\* What a window has counted is below the limit.
WindowsSmall(ds) ==
  \A p \in Pools, u \in Wallets :
    ds[p][u].last_withdraw_at > 0 => ds[p][u].window_withdrawn < WITHDRAW_LIMIT

\* A withdrawal's proof named that withdrawal, with a nonce consumed since.
ProofsNamed(r, ws) ==
  \A j \in DOMAIN ws : \A v \in ws[j].intent :
    /\ v.wallet = ws[j].user
    /\ v.ix.arg.pool = ws[j].pool
    /\ v.ix.arg.amount = ws[j].amount
    /\ v.nonce < r[v.wallet].nonce

RecordsOK(c, r, ps, ds, ws) ==
  /\ RecordsTyped(ps, ds, ws)
  /\ KindsKept(ps, ws)
  /\ SlotsKept(c, ds, ws)
  /\ WindowsKept(ds, ws)
  /\ WindowsOpened(ds, ws)
  /\ WindowsSmall(ds)
  /\ ProofsNamed(r, ws)

IsPrefixOf(s, t) == Len(s) <= Len(t) /\ \A i \in DOMAIN s : t[i] = s[i]

\* The properties of withdrawals the runs check.
WithdrawalsOK ==
  /\ CooldownNeedsProof
  /\ DrainWindowNeedsProof
  /\ LargeNeedsProofOutsideWindow
  /\ SignaturePaysOnce

VaultInv ==
  /\ EnvironmentTyped
  /\ RecordsOK(clock, registry, pools, deposits, withdrawals)
  /\ RecordsOK(clock, committed.registry, stored.pools, stored.deposits, stored.withdrawals)
  /\ IsPrefixOf(stored.withdrawals, withdrawals)
  /\ WithdrawalsOK

-----------------------------------------------------------------------------
(* A withdrawal, as the invariant sees it.                                 *)

Taken(ix, intent) ==
  LET p == ix.arg.pool
      u == ix.wallet
  IN [pool |-> p, user |-> u, amount |-> ix.arg.amount, kind |-> pools[p].kind,
      proof_used |-> ProofUsed(pools[p].kind, deposits[p][u], ix.arg.amount),
      intent |-> intent, slot |-> clock.slot, time |-> clock.time]

\* The withdrawal's policy asked for no proof, and none was taken.
Free(ix, intent) ==
  /\ intent = {}
  /\ ~ProofRequired(WithdrawPolicy(pools[ix.arg.pool].kind,
                                   deposits[ix.arg.pool][ix.wallet]), ix)
  /\ registry' = registry

\* The proof of one request for exactly this withdrawal was consumed.
Paid(ix, intent) ==
  \E v \in Intents : /\ intent = {v}
                     /\ v.wallet = ix.wallet /\ v.ix = ix
                     /\ v.nonce = registry[ix.wallet].nonce
                     /\ registry[ix.wallet].nonce < MaxNonce
                     /\ registry' = NonceConsumed(ix.wallet)

LEMMA CallFacts ==
  ASSUME NEW ix \in WithdrawCalls
  PROVE  /\ ix \in Calls /\ ix \in VaultInstructions
         /\ ix.kind = "call" /\ ix.wallet \in Wallets
         /\ ix.arg.pool \in Pools /\ ix.arg.registry \in Wallets /\ ix.arg.amount \in Nat
<1>1. ix \in Calls /\ ix.op = "protected"
  BY DEF WithdrawCalls
<1>2. ix \in [kind: {"call"}, program: Programs, op: {"protected"}, wallet: Wallets,
              arg: AppArgs]
  BY <1>1 DEF Calls
<1>3. ix.arg \in [pool: Pools, destination: Wallets \cup Pools, registry: Wallets,
                  amount: Nat]
  BY <1>2, VaultAssumption
<1> QED
  BY <1>1, <1>2, <1>3 DEF VaultInstructions

LEMMA WithdrawalTaken ==
  ASSUME EnvironmentTyped, NEW ix \in WithdrawCalls, Withdraw(ix)
  PROVE  /\ tx' \in Seq(VaultInstructions) /\ log' \in Seq(Events)
         /\ \E intent \in SUBSET Intents :
              /\ withdrawals' = Append(withdrawals, Taken(ix, intent))
              /\ Free(ix, intent) \/ Paid(ix, intent)
<1> DEFINE w      == ix.wallet
           r      == ix.arg.registry
           t      == Append(tx, ix)
           policy == WithdrawPolicy(pools[ix.arg.pool].kind, deposits[ix.arg.pool][w])
           intent == IF log' = log THEN {} ELSE {log'[Len(log')].intent}
<1>1. w \in Wallets /\ r \in Wallets /\ ix \in VaultInstructions
  BY CallFacts
<1>2. t \in Seq(VaultInstructions) /\ Current(t) = ix /\ tx' = t
  BY <1>1 DEF EnvironmentTyped, Current, Withdraw
<1>3. Enforced(t, w, r, policy)
  BY <1>2 DEF Withdraw
<1>4. withdrawals' = Append(withdrawals, Taken(ix, intent))
  BY DEF Withdraw, Taken
<1>5. CASE ~ProofRequired(policy, ix) /\ UNCHANGED <<log, registry>>
  <2>1. intent = {} /\ Free(ix, {})
    BY <1>5 DEF Free
  <2> QED
    BY <1>2, <1>4, <1>5, <2>1 DEF EnvironmentTyped
<1>6. CASE /\ OwnsRegistry(r, w)
           /\ ProofAccepted(t, w, r, policy.id)
           /\ log' = Append(log, ProofVerified(t, w, r))
           /\ registry' = NonceConsumed(r)
  <2> DEFINE proof == t[Len(t) - 1]
             secp  == t[Len(t) - 2]
             v     == ProofVerified(t, w, r)
  <2>1. r = w
    BY <1>1, <1>6 DEF OwnsRegistry, EnvironmentTyped, RegistriesTyped
  <2>2. /\ Len(t) - 1 \in DOMAIN t /\ Len(t) - 2 \in DOMAIN t
        /\ proof.kind = "record_proof" /\ secp.kind = "secp256r1"
        /\ proof.challenge = Intent(w, policy.id, ix, registry[w].nonce, proof.expiry)
        /\ registry[w].nonce < MaxNonce
    BY <1>2, <1>6, <2>1 DEF ProofAccepted, NonceAvailable
  <2>3. proof \in VaultInstructions /\ secp \in VaultInstructions
    BY <1>2, <2>2
  <2>4. proof.challenge \in Intents /\ secp.key \in PubKeys
    BY <2>2, <2>3 DEF VaultInstructions, Calls
  <2>5. /\ proof.challenge.wallet = w /\ proof.challenge.ix = ix
        /\ proof.challenge.nonce = registry[w].nonce
    BY <2>2 DEF Intent
  <2>6. v = [owner |-> w, registry |-> w, key |-> secp.key, intent |-> proof.challenge,
             epoch |-> epoch[w]]
    BY <2>1 DEF ProofVerified
  <2>7. v \in Events /\ v.intent = proof.challenge
    <3>1. epoch[w] \in Nat
      BY <1>1 DEF EnvironmentTyped
    <3> HIDE DEF v, secp, proof
    <3>2. v \in Events
      BY <1>1, <2>4, <2>6, <3>1 DEF Events
    <3>3. v.intent = proof.challenge
      BY <2>6
    <3> QED
      BY <3>2, <3>3
  <2> HIDE DEF v, proof, secp
  <2>8. log' = Append(log, v) /\ log \in Seq(Events)
    BY <1>6 DEF v, EnvironmentTyped
  <2>9. /\ log' \in Seq(Events) /\ log' # log
        /\ log'[Len(log')] = v
    <3>1. Len(log') = Len(log) + 1 /\ log'[Len(log) + 1] = v
      BY <2>7, <2>8
    <3> QED
      BY <2>7, <2>8, <3>1
  <2>10. intent = {proof.challenge}
    BY <2>7, <2>9
  <2>11. Paid(ix, intent)
    BY <1>6, <2>1, <2>2, <2>4, <2>5, <2>10 DEF Paid
  <2> QED
    BY <1>2, <1>4, <2>4, <2>9, <2>10, <2>11
<1> QED
  BY <1>2, <1>3, <1>5, <1>6 DEF Enforced

\* A user's record after a withdrawal has been taken from it, and after its
\* window has changed.
Debited(ud, b, s) == [ud EXCEPT !.balance = b, !.last_withdraw_slot = s]
Moved(ud, n, t)   == [ud EXCEPT !.window_withdrawn = n, !.last_withdraw_at = t]

LEMMA RecordDebited ==
  ASSUME NEW ud \in UserDeposits, NEW b \in Nat, NEW s \in Nat
  PROVE  /\ Debited(ud, b, s) \in UserDeposits
         /\ Debited(ud, b, s).last_withdraw_slot = s
         /\ Debited(ud, b, s).last_withdraw_at = ud.last_withdraw_at
         /\ Debited(ud, b, s).window_withdrawn = ud.window_withdrawn
         /\ Debited(ud, b, s).balance = b
BY DEF UserDeposits, Debited

LEMMA WindowMoved ==
  ASSUME NEW ud \in UserDeposits, NEW n \in Nat, NEW t \in Nat
  PROVE  /\ Moved(ud, n, t) \in UserDeposits
         /\ Moved(ud, n, t).last_withdraw_slot = ud.last_withdraw_slot
         /\ Moved(ud, n, t).last_withdraw_at = t
         /\ Moved(ud, n, t).window_withdrawn = n
         /\ Moved(ud, n, t).balance = ud.balance
BY DEF UserDeposits, Moved

\* Replacing one user's record in one pool.
LEMMA DepositReplaced ==
  ASSUME NEW ds \in [Pools -> [Wallets -> UserDeposits]],
         NEW p \in Pools, NEW u \in Wallets, NEW x \in UserDeposits
  PROVE  LET d == [ds EXCEPT ![p][u] = x]
         IN /\ d \in [Pools -> [Wallets -> UserDeposits]]
            /\ d[p][u] = x
            /\ \A q \in Pools, y \in Wallets : q # p \/ y # u => d[q][y] = ds[q][y]
<1> DEFINE row == [ds[p] EXCEPT ![u] = x]
           d   == [ds EXCEPT ![p] = row]
<1>1. row \in [Wallets -> UserDeposits] /\ row[u] = x
  OBVIOUS
<1>2. \A y \in Wallets : y # u => row[y] = ds[p][y]
  OBVIOUS
<1> HIDE DEF row
<1>3. /\ d \in [Pools -> [Wallets -> UserDeposits]] /\ d[p] = row
      /\ \A q \in Pools : q # p => d[q] = ds[q]
  BY <1>1
<1>4. [ds EXCEPT ![p][u] = x] = d
  BY DEF row
<1> HIDE DEF d
<1> QED
  BY <1>1, <1>2, <1>3, <1>4

\* The user's record after a withdrawal.
LEMMA DepositAfter ==
  ASSUME EnvironmentTyped, RecordsTyped(pools, deposits, withdrawals),
         NEW ix \in WithdrawCalls, Withdraw(ix)
  PROVE  LET p  == ix.arg.pool
             u  == ix.wallet
             ud == deposits[p][u]
             new == deposits'[p][u]
             used == ProofUsed(pools[p].kind, ud, ix.arg.amount)
         IN /\ pools[p].exists /\ pools[p].kind \in Kinds
            /\ deposits' \in [Pools -> [Wallets -> UserDeposits]]
            /\ ix.arg.amount <= ud.balance /\ new.balance = ud.balance - ix.arg.amount
            /\ new.last_withdraw_slot = clock.slot
            /\ pools[p].kind = "TimeLocked" =>
                 /\ new.last_withdraw_at = ud.last_withdraw_at
                 /\ new.window_withdrawn = ud.window_withdrawn
            /\ pools[p].kind = "Limit" /\ used => new.last_withdraw_at = 0
            /\ pools[p].kind = "Limit" /\ ~used => /\ new.last_withdraw_at = clock.time
                                                   /\ new.window_withdrawn < WITHDRAW_LIMIT
            /\ \A q \in Pools, x \in Wallets :
                 q # p \/ x # u => deposits'[q][x] = deposits[q][x]
<1> DEFINE p  == ix.arg.pool
           u  == ix.wallet
           amount == ix.arg.amount
           ud == deposits[p][u]
           b  == ud.balance - amount
           kind == pools[p].kind
           new == AfterWithdrawal(kind, ud, amount)
           taken == Debited(ud, b, clock.slot)
<1>1. p \in Pools /\ u \in Wallets /\ amount \in Nat
  BY CallFacts
<1>2. /\ pools[p].exists /\ ud.balance >= amount
      /\ deposits' = [deposits EXCEPT ![p][u] = new]
  BY DEF Withdraw, HasBalance
<1>3. /\ deposits \in [Pools -> [Wallets -> UserDeposits]]
      /\ ud \in UserDeposits /\ kind \in Kinds
  BY <1>1, <1>2 DEF RecordsTyped
<1>4. b \in Nat
  <2>1. ud.balance \in Nat
    BY <1>3 DEF UserDeposits
  <2> QED
    BY <1>1, <1>2, <2>1
<1>5. clock.slot \in Nat /\ clock.time \in Nat
  BY DEF EnvironmentTyped
<1>6. /\ taken \in UserDeposits /\ taken.balance = b
      /\ taken.last_withdraw_slot = clock.slot
      /\ taken.last_withdraw_at = ud.last_withdraw_at
      /\ taken.window_withdrawn = ud.window_withdrawn
  <2> HIDE DEF ud, b
  <2> DEFINE slot == clock.slot
  <2>1. ud \in UserDeposits /\ b \in Nat /\ slot \in Nat
    BY <1>3, <1>4, <1>5
  <2> HIDE DEF slot
  <2>2. /\ Debited(ud, b, slot) \in UserDeposits /\ Debited(ud, b, slot).balance = b
        /\ Debited(ud, b, slot).last_withdraw_slot = slot
        /\ Debited(ud, b, slot).last_withdraw_at = ud.last_withdraw_at
        /\ Debited(ud, b, slot).window_withdrawn = ud.window_withdrawn
    BY <2>1, RecordDebited
  <2> QED
    BY <2>2 DEF slot
<1>7. /\ new \in UserDeposits /\ new.balance = b
      /\ new.last_withdraw_slot = clock.slot
      /\ kind = "TimeLocked" => /\ new.last_withdraw_at = ud.last_withdraw_at
                                /\ new.window_withdrawn = ud.window_withdrawn
      /\ kind = "Limit" /\ ProofUsed(kind, ud, amount) => new.last_withdraw_at = 0
      /\ kind = "Limit" /\ ~ProofUsed(kind, ud, amount) =>
            new.last_withdraw_at = clock.time /\ new.window_withdrawn < WITHDRAW_LIMIT
  <2> HIDE DEF ud, kind, amount
  <2>1. CASE kind = "TimeLocked"
    <3>1. new = taken
      BY <2>1 DEF AfterWithdrawal, Debited
    <3> HIDE DEF new, taken
    <3> QED
      BY <1>6, <2>1, <3>1
  <2>2. CASE kind = "Limit" /\ ProofUsed(kind, ud, amount)
    <3>1. new = Moved(taken, 0, 0)
      BY <2>2 DEF AfterWithdrawal, Debited, Moved
    <3> HIDE DEF new, taken
    <3> QED
      BY <1>6, <2>2, <3>1, WindowMoved
  <2>3. CASE kind = "Limit" /\ ~ProofUsed(kind, ud, amount)
    <3>1. ~InWindow(ud) /\ ~(amount >= WITHDRAW_LIMIT)
      BY <2>3 DEF ProofUsed
    <3>2. new = Moved(taken, amount, clock.time)
      BY <2>3, <3>1 DEF AfterWithdrawal, Debited, Moved
    <3>3. amount \in Nat /\ amount < WITHDRAW_LIMIT
      BY <1>1, <3>1, VaultAssumption DEF amount
    <3> HIDE DEF new, taken
    <3> QED
      BY <1>5, <1>6, <2>3, <3>2, <3>3, WindowMoved
  <2> QED
    BY <1>3, <2>1, <2>2, <2>3 DEF Kinds
<1> HIDE DEF new
<1>8. /\ deposits' \in [Pools -> [Wallets -> UserDeposits]]
      /\ deposits'[p][u] = new
      /\ \A q \in Pools, x \in Wallets :
           q # p \/ x # u => deposits'[q][x] = deposits[q][x]
  BY <1>1, <1>2, <1>3, <1>7, DepositReplaced
<1> QED
  BY <1>2, <1>3, <1>7, <1>8

\* What a withdrawal without a proof says of the user's record.
LEMMA FreeWithdrawal ==
  ASSUME NEW ix, NEW intent, Free(ix, intent)
  PROVE  LET kind == pools[ix.arg.pool].kind
             ud   == deposits[ix.arg.pool][ix.wallet]
         IN IF kind = "TimeLocked" \/ InWindow(ud)
            THEN ~(clock.slot < ud.last_withdraw_slot + COOLDOWN_SLOTS)
            ELSE ~(ix.arg.amount >= WITHDRAW_LIMIT)
BY DEF Free, ProofRequired, WithdrawPolicy, Unlock

-----------------------------------------------------------------------------
(* The records are kept.                                                   *)

LaterClock(c, c2) == /\ c2.slot \in Nat /\ c2.time \in Nat
                     /\ c.slot \in Nat /\ c.time \in Nat
                     /\ c.slot <= c2.slot /\ c.time <= c2.time

SameWindow(ud, ud2) == /\ ud2.last_withdraw_slot = ud.last_withdraw_slot
                       /\ ud2.last_withdraw_at = ud.last_withdraw_at
                       /\ ud2.window_withdrawn = ud.window_withdrawn

NoncesGrow(r, r2) == \A w \in Wallets : /\ r[w].nonce \in Nat /\ r2[w].nonce \in Nat
                                        /\ r[w].nonce <= r2[w].nonce

LEMMA WithdrawalParts ==
  ASSUME NEW ws \in Seq(Withdrawals), NEW i \in DOMAIN ws
  PROVE  /\ ws[i].pool \in Pools /\ ws[i].user \in Wallets
         /\ ws[i].intent \in SUBSET Intents
         /\ ws[i].amount \in Nat /\ ws[i].slot \in Nat
         /\ ws[i].time \in Nat /\ ws[i].time > 0
<1>1. ws[i] \in Withdrawals
  OBVIOUS
<1> QED
  BY <1>1 DEF Withdrawals

\* A new pool, a deposit, a consumed nonce or a later clock changes nothing that the
\* withdrawals so far rest on.
LEMMA RecordsKept ==
  ASSUME NEW c, NEW c2, NEW r, NEW r2, NEW ps, NEW ps2, NEW ds, NEW ds2, NEW ws,
         RecordsOK(c, r, ps, ds, ws), LaterClock(c, c2), NoncesGrow(r, r2),
         RecordsTyped(ps2, ds2, ws),
         \A p \in Pools : ps[p].exists => ps2[p] = ps[p],
         \A p \in Pools, u \in Wallets : SameWindow(ds[p][u], ds2[p][u])
  PROVE  RecordsOK(c2, r2, ps2, ds2, ws)
<1>0. /\ RecordsTyped(ps, ds, ws) /\ KindsKept(ps, ws) /\ SlotsKept(c, ds, ws)
      /\ WindowsKept(ds, ws) /\ WindowsOpened(ds, ws) /\ WindowsSmall(ds)
      /\ ProofsNamed(r, ws)
  BY DEF RecordsOK
<1>1. \A i \in DOMAIN ws : /\ ws[i].pool \in Pools /\ ws[i].user \in Wallets
                           /\ ws[i].intent \in SUBSET Intents
  <2>1. ws \in Seq(Withdrawals)
    BY <1>0 DEF RecordsTyped
  <2> QED
    BY <2>1, WithdrawalParts
<1>2. \A p \in Pools, u \in Wallets : /\ ds[p][u].last_withdraw_slot \in Nat
                                       /\ ds[p][u].last_withdraw_at \in Nat
  BY <1>0 DEF RecordsTyped, UserDeposits
<1>3. KindsKept(ps2, ws)
  BY <1>0, <1>1 DEF KindsKept
<1>4. SlotsKept(c2, ds2, ws)
  BY <1>0, <1>1, <1>2 DEF SlotsKept, LaterClock, SameWindow
<1>5. WindowsKept(ds2, ws)
  BY <1>0, <1>1 DEF WindowsKept, SameWindow
<1>6. WindowsOpened(ds2, ws)
  <2> SUFFICES ASSUME NEW p \in Pools, NEW u \in Wallets, ds2[p][u].last_withdraw_at > 0
               PROVE  \E i \in DOMAIN ws : /\ ws[i].pool = p /\ ws[i].user = u
                                           /\ ~ws[i].proof_used
                                           /\ ws[i].time = ds2[p][u].last_withdraw_at
                                           /\ ws[i].slot <= ds2[p][u].last_withdraw_slot
    BY DEF WindowsOpened
  <2>1. SameWindow(ds[p][u], ds2[p][u])
    OBVIOUS
  <2> QED
    BY <1>0, <2>1 DEF WindowsOpened, SameWindow
<1>7. WindowsSmall(ds2)
  BY <1>0 DEF WindowsSmall, SameWindow
<1>8. ProofsNamed(r2, ws)
  <2> SUFFICES ASSUME NEW j \in DOMAIN ws, NEW v \in ws[j].intent
               PROVE  /\ v.wallet = ws[j].user
                      /\ v.ix.arg.pool = ws[j].pool
                      /\ v.ix.arg.amount = ws[j].amount
                      /\ v.nonce < r2[v.wallet].nonce
    BY DEF ProofsNamed
  <2>1. v \in Intents
    BY <1>1
  <2>2. v.wallet \in Wallets /\ v.nonce \in Nat
    BY <2>1, ConstantsAssumption DEF Intents
  <2> QED
    BY <1>0, <2>2 DEF ProofsNamed, NoncesGrow
<1> QED
  BY <1>3, <1>4, <1>5, <1>6, <1>7, <1>8 DEF RecordsOK

\* What Append does, as the withdrawals' properties see it.
LEMMA Appended ==
  ASSUME NEW S, NEW ws \in Seq(S), NEW x \in S
  PROVE  LET n == Len(ws)
             ws2 == Append(ws, x)
         IN /\ n \in Nat /\ DOMAIN ws = 1..n /\ DOMAIN ws2 = 1..n + 1
            /\ ws2 \in Seq(S)
            /\ ws2[n + 1] = x
            /\ \A i \in DOMAIN ws : ws2[i] = ws[i] /\ i < n + 1 /\ i \in DOMAIN ws2
            /\ \A i \in DOMAIN ws2 : i = n + 1 \/ i \in DOMAIN ws
OBVIOUS

\* The nonces after a withdrawal.
LEMMA NoncesAfter ==
  ASSUME RegistriesTyped(registry), NEW ix \in WithdrawCalls, NEW intent,
         Free(ix, intent) \/ Paid(ix, intent)
  PROVE  /\ RegistriesTyped(registry')
         /\ NoncesGrow(registry, registry')
         /\ Paid(ix, intent) => registry'[ix.wallet].nonce = registry[ix.wallet].nonce + 1
<1>1. ix.wallet \in Wallets
  BY CallFacts
<1>2. registry \in [Wallets -> Registry]
  BY DEF RegistriesTyped
<1>3. \A w \in Wallets : registry[w].nonce \in Nat
  BY <1>2, ConstantsAssumption DEF Registry
<1>4. CASE Free(ix, intent) /\ ~Paid(ix, intent)
  BY <1>3, <1>4 DEF Free, NoncesGrow
<1>5. CASE Paid(ix, intent)
  <2>1. registry' = NonceConsumed(ix.wallet) /\ registry[ix.wallet].nonce < MaxNonce
    BY <1>5 DEF Paid
  <2>2. /\ registry' \in [Wallets -> Registry]
        /\ registry'[ix.wallet].nonce = registry[ix.wallet].nonce + 1
        /\ \A w \in Wallets : /\ registry'[w].owner = registry[w].owner
                              /\ w # ix.wallet => registry'[w] = registry[w]
    BY <1>1, <1>2, <2>1, ConsumedType
  <2> QED
    BY <1>1, <1>3, <2>2 DEF RegistriesTyped, NoncesGrow
<1> QED
  BY <1>4, <1>5

-----------------------------------------------------------------------------
(* A withdrawal keeps the records.                                         *)

LEMMA WithdrawalAdded ==
  ASSUME EnvironmentTyped, RecordsOK(clock, registry, pools, deposits, withdrawals),
         NEW ix \in WithdrawCalls, Withdraw(ix), NEW intent \in SUBSET Intents,
         withdrawals' = Append(withdrawals, Taken(ix, intent)),
         Free(ix, intent) \/ Paid(ix, intent)
  PROVE  RecordsOK(clock', registry', pools', deposits', withdrawals')
<1> DEFINE p  == ix.arg.pool
           u  == ix.wallet
           ud == deposits[p][u]
           x  == Taken(ix, intent)
           n  == Len(withdrawals)
<1>0. /\ RecordsTyped(pools, deposits, withdrawals) /\ KindsKept(pools, withdrawals)
      /\ SlotsKept(clock, deposits, withdrawals)
      /\ WindowsKept(deposits, withdrawals) /\ WindowsOpened(deposits, withdrawals)
      /\ WindowsSmall(deposits)
      /\ ProofsNamed(registry, withdrawals)
      /\ withdrawals \in Seq(Withdrawals)
  BY DEF RecordsOK, RecordsTyped
<1>1. p \in Pools /\ u \in Wallets /\ ix.arg.amount \in Nat
  BY CallFacts
<1>2. clock' = clock /\ pools' = pools
  BY DEF Withdraw
<1>3. /\ clock.slot \in Nat /\ clock.time \in Nat /\ clock.time > 0
      /\ RegistriesTyped(registry)
  BY DEF EnvironmentTyped
<1>4. /\ x.pool = p /\ x.user = u /\ x.amount = ix.arg.amount
      /\ x.kind = pools[p].kind /\ x.intent = intent
      /\ x.proof_used = ProofUsed(pools[p].kind, ud, ix.arg.amount)
      /\ x.slot = clock.slot /\ x.time = clock.time
  BY DEF Taken
<1>5. /\ pools[p].exists /\ x.kind \in Kinds
      /\ deposits' \in [Pools -> [Wallets -> UserDeposits]]
      /\ deposits'[p][u].last_withdraw_slot = clock.slot
      /\ x.kind = "TimeLocked" => /\ deposits'[p][u].last_withdraw_at = ud.last_withdraw_at
                                  /\ deposits'[p][u].window_withdrawn = ud.window_withdrawn
      /\ x.kind = "Limit" /\ x.proof_used => deposits'[p][u].last_withdraw_at = 0
      /\ x.kind = "Limit" /\ ~x.proof_used =>
           /\ deposits'[p][u].last_withdraw_at = clock.time
           /\ deposits'[p][u].window_withdrawn < WITHDRAW_LIMIT
      /\ \A q \in Pools, y \in Wallets :
           q # p \/ y # u => deposits'[q][y] = deposits[q][y]
  BY <1>0, <1>4, DepositAfter
<1>6. x \in Withdrawals
  BY <1>1, <1>3, <1>5 DEF Taken, Withdrawals, ProofUsed
<1> HIDE DEF x
<1>7. /\ n \in Nat /\ DOMAIN withdrawals = 1..n /\ DOMAIN withdrawals' = 1..n + 1
      /\ withdrawals' \in Seq(Withdrawals)
      /\ withdrawals'[n + 1] = x
      /\ \A i \in DOMAIN withdrawals : /\ withdrawals'[i] = withdrawals[i]
                                       /\ i < n + 1 /\ i \in DOMAIN withdrawals'
      /\ \A i \in DOMAIN withdrawals' : i = n + 1 \/ i \in DOMAIN withdrawals
  <2>1. withdrawals' = Append(withdrawals, x)
    BY DEF x
  <2> QED
    BY <1>0, <1>6, <2>1, Appended
<1> HIDE DEF n, p, u, ud
<1>8. \A i \in DOMAIN withdrawals :
        /\ withdrawals[i].pool \in Pools /\ withdrawals[i].user \in Wallets
        /\ withdrawals[i].intent \in SUBSET Intents
        /\ withdrawals[i].slot \in Nat
        /\ withdrawals[i].time \in Nat /\ withdrawals[i].time > 0
  BY <1>0, WithdrawalParts
<1>9. \A q \in Pools, y \in Wallets : /\ deposits[q][y].last_withdraw_slot \in Nat
                                      /\ deposits[q][y].last_withdraw_at \in Nat
                                      /\ deposits[q][y].last_withdraw_slot <= clock.slot
                                      /\ deposits[q][y].last_withdraw_at <= clock.time
                                      /\ deposits'[q][y].last_withdraw_slot \in Nat
  BY <1>0, <1>5 DEF RecordsTyped, UserDeposits, SlotsKept
<1>10. RecordsTyped(pools', deposits', withdrawals')
  BY <1>0, <1>2, <1>5, <1>7 DEF RecordsTyped
<1>11. KindsKept(pools', withdrawals')
  BY <1>0, <1>2, <1>4, <1>5, <1>7 DEF KindsKept
<1>12. SlotsKept(clock', deposits', withdrawals')
  <2>1. ASSUME NEW i \in DOMAIN withdrawals'
        PROVE  withdrawals'[i].slot <=
                 deposits'[withdrawals'[i].pool][withdrawals'[i].user].last_withdraw_slot
    <3>1. CASE i = n + 1
      BY <1>3, <1>4, <1>5, <1>7, <3>1
    <3>2. CASE i \in DOMAIN withdrawals
      <4>1. withdrawals'[i] = withdrawals[i]
        BY <1>7, <3>2
      <4>2. withdrawals[i].slot <=
              deposits[withdrawals[i].pool][withdrawals[i].user].last_withdraw_slot
        BY <1>0, <3>2 DEF SlotsKept
      <4>3. CASE withdrawals[i].pool = p /\ withdrawals[i].user = u
        BY <1>1, <1>3, <1>5, <1>8, <1>9, <3>2, <4>1, <4>2, <4>3
      <4>4. CASE withdrawals[i].pool # p \/ withdrawals[i].user # u
        BY <1>5, <1>8, <3>2, <4>1, <4>2, <4>4
      <4> QED
        BY <4>3, <4>4
    <3> QED
      BY <1>7, <3>1, <3>2
  <2>2. ASSUME NEW q \in Pools, NEW y \in Wallets
        PROVE  /\ deposits'[q][y].last_withdraw_slot <= clock.slot
               /\ deposits'[q][y].last_withdraw_at <= clock.time
    <3>1. CASE q # p \/ y # u
      BY <1>5, <1>9, <3>1
    <3>2. CASE q = p /\ y = u
      <4>1. ud.last_withdraw_at <= clock.time
        BY <1>1, <1>9 DEF ud
      <4> QED
        BY <1>3, <1>5, <3>2, <4>1 DEF Kinds
    <3> QED
      BY <3>1, <3>2
  <2> QED
    BY <1>2, <2>1, <2>2 DEF SlotsKept
<1>13. WindowsKept(deposits', withdrawals')
  <2> SUFFICES ASSUME NEW i \in DOMAIN withdrawals',
                      withdrawals'[i].kind = "Limit", ~withdrawals'[i].proof_used
               PROVE  LET w == withdrawals'[i]
                      IN \/ deposits'[w.pool][w.user].last_withdraw_at >= w.time
                         \/ \E k \in DOMAIN withdrawals' :
                              /\ i < k
                              /\ withdrawals'[k].pool = w.pool
                              /\ withdrawals'[k].user = w.user
                              /\ withdrawals'[k].proof_used
    BY DEF WindowsKept
  <2>1. CASE i = n + 1
    BY <1>3, <1>4, <1>5, <1>7, <2>1
  <2>2. CASE i \in DOMAIN withdrawals
    <3>1. withdrawals'[i] = withdrawals[i]
      BY <1>7, <2>2
    <3>2. CASE \E k \in DOMAIN withdrawals : /\ i < k
                                            /\ withdrawals[k].pool = withdrawals[i].pool
                                            /\ withdrawals[k].user = withdrawals[i].user
                                            /\ withdrawals[k].proof_used
      BY <1>7, <3>1, <3>2
    <3>3. CASE deposits[withdrawals[i].pool][withdrawals[i].user].last_withdraw_at
                 >= withdrawals[i].time
      <4>1. CASE withdrawals[i].pool # p \/ withdrawals[i].user # u
        BY <1>5, <1>8, <2>2, <3>1, <3>3, <4>1
      <4>2. CASE /\ withdrawals[i].pool = p /\ withdrawals[i].user = u
        <5>1. x.kind = "Limit"
          BY <1>0, <1>4, <2>2, <3>1, <4>2 DEF KindsKept
        <5>2. CASE x.proof_used
          BY <1>4, <1>7, <2>2, <3>1, <4>2, <5>2
        <5>3. CASE ~x.proof_used
          <6>1. withdrawals[i].time <= clock.time
            BY <1>1, <1>3, <1>8, <1>9, <2>2, <3>3, <4>2
          <6> QED
            BY <1>3, <1>5, <1>8, <2>2, <3>1, <4>2, <5>1, <5>3, <6>1
        <5> QED
          BY <5>2, <5>3
      <4> QED
        BY <4>1, <4>2
    <3> QED
      BY <1>0, <2>2, <3>1, <3>2, <3>3 DEF WindowsKept
  <2> QED
    BY <1>7, <2>1, <2>2
<1>14. WindowsOpened(deposits', withdrawals')
  <2> SUFFICES ASSUME NEW q \in Pools, NEW y \in Wallets,
                      deposits'[q][y].last_withdraw_at > 0
               PROVE  \E i \in DOMAIN withdrawals' :
                        /\ withdrawals'[i].pool = q /\ withdrawals'[i].user = y
                        /\ ~withdrawals'[i].proof_used
                        /\ withdrawals'[i].time = deposits'[q][y].last_withdraw_at
                        /\ withdrawals'[i].slot <= deposits'[q][y].last_withdraw_slot
    BY DEF WindowsOpened
  <2>1. CASE /\ q = p /\ y = u /\ x.kind = "Limit"
    <3>1. ~x.proof_used
      BY <1>5, <2>1
    <3> QED
      BY <1>3, <1>4, <1>5, <1>7, <2>1, <3>1
  <2>2. CASE q # p \/ y # u \/ x.kind = "TimeLocked"
    <3>1. /\ deposits'[q][y].last_withdraw_at = deposits[q][y].last_withdraw_at
          /\ deposits[q][y].last_withdraw_slot <= deposits'[q][y].last_withdraw_slot
      <4>1. CASE q # p \/ y # u
        BY <1>5, <1>9, <4>1
      <4>2. CASE q = p /\ y = u /\ x.kind = "TimeLocked"
        BY <1>5, <1>9, <4>2 DEF ud
      <4> QED
        BY <2>2, <4>1, <4>2
    <3>2. PICK i \in DOMAIN withdrawals :
            /\ withdrawals[i].pool = q /\ withdrawals[i].user = y
            /\ ~withdrawals[i].proof_used
            /\ withdrawals[i].time = deposits[q][y].last_withdraw_at
            /\ withdrawals[i].slot <= deposits[q][y].last_withdraw_slot
      BY <1>0, <3>1 DEF WindowsOpened
    <3>3. withdrawals[i].slot <= deposits'[q][y].last_withdraw_slot
      BY <1>8, <1>9, <3>1, <3>2
    <3> QED
      BY <1>7, <3>1, <3>2, <3>3
  <2> QED
    BY <1>5, <2>1, <2>2 DEF Kinds
<1>15. WindowsSmall(deposits')
  <2> SUFFICES ASSUME NEW q \in Pools, NEW y \in Wallets,
                      deposits'[q][y].last_withdraw_at > 0
               PROVE  deposits'[q][y].window_withdrawn < WITHDRAW_LIMIT
    BY DEF WindowsSmall
  <2>1. CASE q # p \/ y # u
    BY <1>0, <1>5, <2>1 DEF WindowsSmall
  <2>2. CASE q = p /\ y = u
    BY <1>0, <1>5, <2>2 DEF WindowsSmall, Kinds, ud
  <2> QED
    BY <2>1, <2>2
<1>16. ProofsNamed(registry', withdrawals')
  <2>0. /\ NoncesGrow(registry, registry')
        /\ Paid(ix, intent) => registry'[u].nonce = registry[u].nonce + 1
    BY <1>3, NoncesAfter DEF u
  <2> SUFFICES ASSUME NEW j \in DOMAIN withdrawals', NEW v \in withdrawals'[j].intent
               PROVE  /\ v.wallet = withdrawals'[j].user
                      /\ v.ix.arg.pool = withdrawals'[j].pool
                      /\ v.ix.arg.amount = withdrawals'[j].amount
                      /\ v.nonce < registry'[v.wallet].nonce
    BY DEF ProofsNamed
  <2>1. CASE j = n + 1
    <3>1. v \in intent /\ withdrawals'[j] = x
      BY <1>4, <1>7, <2>1
    <3>2. Paid(ix, intent)
      BY <3>1 DEF Free
    <3>3. v.wallet = u /\ v.ix = ix /\ v.nonce = registry[u].nonce
      BY <3>1, <3>2 DEF Paid, u
    <3>4. registry[u].nonce \in Nat
      BY <1>1, <2>0 DEF NoncesGrow
    <3> QED
      BY <1>4, <2>0, <3>1, <3>2, <3>3, <3>4 DEF p
  <2>2. CASE j \in DOMAIN withdrawals
    <3>1. withdrawals'[j] = withdrawals[j]
      BY <1>7, <2>2
    <3>2. v \in Intents
      BY <1>8, <2>2, <3>1
    <3>3. v.wallet \in Wallets /\ v.nonce \in Nat
      BY <3>2, ConstantsAssumption DEF Intents
    <3> QED
      BY <1>0, <2>0, <2>2, <3>1, <3>3, SMTT(30) DEF ProofsNamed, NoncesGrow
  <2> QED
    BY <1>7, <2>1, <2>2
<1> QED
  BY <1>10, <1>11, <1>12, <1>13, <1>14, <1>15, <1>16 DEF RecordsOK

-----------------------------------------------------------------------------
(* A withdrawal is justified by those before it.                           *)

LEMMA WithdrawalJustified ==
  ASSUME EnvironmentTyped, RecordsOK(clock, registry, pools, deposits, withdrawals),
         WithdrawalsOK, NEW ix \in WithdrawCalls, Withdraw(ix), NEW intent \in SUBSET Intents,
         withdrawals' = Append(withdrawals, Taken(ix, intent)),
         Free(ix, intent) \/ Paid(ix, intent)
  PROVE  WithdrawalsOK'
<1> DEFINE p  == ix.arg.pool
           u  == ix.wallet
           ud == deposits[p][u]
           x  == Taken(ix, intent)
           n  == Len(withdrawals)
<1>0. /\ RecordsTyped(pools, deposits, withdrawals) /\ KindsKept(pools, withdrawals)
      /\ SlotsKept(clock, deposits, withdrawals)
      /\ WindowsKept(deposits, withdrawals) /\ WindowsOpened(deposits, withdrawals)
      /\ ProofsNamed(registry, withdrawals)
      /\ withdrawals \in Seq(Withdrawals)
  BY DEF RecordsOK, RecordsTyped
<1>1. p \in Pools /\ u \in Wallets /\ ix.arg.amount \in Nat
  BY CallFacts
<1>2. /\ clock.slot \in Nat /\ clock.time \in Nat /\ clock.time > 0
      /\ COOLDOWN_SLOTS \in Nat /\ DRAIN_WINDOW \in Nat
  BY VaultAssumption DEF EnvironmentTyped
<1>3. /\ x.pool = p /\ x.user = u /\ x.amount = ix.arg.amount
      /\ x.kind = pools[p].kind /\ x.intent = intent
      /\ x.proof_used = ProofUsed(pools[p].kind, ud, ix.arg.amount)
      /\ x.slot = clock.slot /\ x.time = clock.time
  BY DEF Taken
<1>4. pools[p].exists /\ x.kind \in Kinds
  BY <1>0, <1>3, DepositAfter
<1>5. x \in Withdrawals
  BY <1>1, <1>2, <1>4 DEF Taken, Withdrawals, ProofUsed
<1>6. /\ ud.last_withdraw_slot \in Nat /\ ud.last_withdraw_at \in Nat
  BY <1>0, <1>1 DEF RecordsTyped, UserDeposits
<1>7. intent = {} =>
        IF x.kind = "TimeLocked" \/ InWindow(ud)
        THEN clock.slot >= ud.last_withdraw_slot + COOLDOWN_SLOTS
        ELSE ~(x.amount >= WITHDRAW_LIMIT)
  <2> SUFFICES ASSUME intent = {}
               PROVE  IF x.kind = "TimeLocked" \/ InWindow(ud)
                      THEN clock.slot >= ud.last_withdraw_slot + COOLDOWN_SLOTS
                      ELSE ~(x.amount >= WITHDRAW_LIMIT)
    OBVIOUS
  <2>1. Free(ix, intent)
    BY DEF Paid
  <2>2. IF x.kind = "TimeLocked" \/ InWindow(ud)
        THEN ~(clock.slot < ud.last_withdraw_slot + COOLDOWN_SLOTS)
        ELSE ~(x.amount >= WITHDRAW_LIMIT)
    <3>1. x.kind = pools[ix.arg.pool].kind /\ x.amount = ix.arg.amount
      BY <1>3
    <3> HIDE DEF x
    <3> QED
      BY <2>1, <3>1, FreeWithdrawal
  <2>3. ~(clock.slot < ud.last_withdraw_slot + COOLDOWN_SLOTS) =>
          clock.slot >= ud.last_withdraw_slot + COOLDOWN_SLOTS
    <3> HIDE DEF ud
    <3> QED
      BY <1>2, <1>6
  <2> HIDE DEF x, ud
  <2> QED
    BY <2>2, <2>3
<1> HIDE DEF x
<1>8. /\ n \in Nat /\ DOMAIN withdrawals = 1..n /\ DOMAIN withdrawals' = 1..n + 1
      /\ withdrawals' \in Seq(Withdrawals)
      /\ withdrawals'[n + 1] = x
      /\ \A i \in DOMAIN withdrawals : /\ withdrawals'[i] = withdrawals[i]
                                       /\ i < n + 1 /\ i \in DOMAIN withdrawals'
      /\ \A i \in DOMAIN withdrawals' : i = n + 1 \/ i \in DOMAIN withdrawals
  <2>1. withdrawals' = Append(withdrawals, x)
    BY DEF x
  <2> QED
    BY <1>0, <1>5, <2>1, Appended
<1>9. \A i \in DOMAIN withdrawals :
        /\ withdrawals[i].pool \in Pools /\ withdrawals[i].user \in Wallets
        /\ withdrawals[i].intent \in SUBSET Intents
        /\ withdrawals[i].slot \in Nat
        /\ withdrawals[i].time \in Nat /\ withdrawals[i].time > 0
  BY <1>0, WithdrawalParts
<1> HIDE DEF n, p, u, ud
\* An earlier withdrawal of the same user from the same pool.
<1>10. ASSUME NEW i \in DOMAIN withdrawals, withdrawals[i].pool = p, withdrawals[i].user = u
       PROVE  /\ withdrawals[i].kind = x.kind
              /\ withdrawals[i].slot <= ud.last_withdraw_slot
  BY <1>0, <1>3, <1>10 DEF KindsKept, SlotsKept, ud
<1>11. CooldownNeedsProof'
  <2> SUFFICES ASSUME NEW i \in DOMAIN withdrawals', NEW j \in DOMAIN withdrawals',
                      Successive(i, j)', withdrawals'[j].kind = "TimeLocked",
                      ~CooledDown(i, j)'
               PROVE  Proved(withdrawals'[j])
    BY DEF CooldownNeedsProof
  <2>1. i \in DOMAIN withdrawals
    BY <1>8 DEF Successive
  <2>2. CASE j \in DOMAIN withdrawals
    <3>1. Successive(i, j) /\ ~CooledDown(i, j) /\ withdrawals[j].kind = "TimeLocked"
      BY <1>8, <2>1, <2>2 DEF Successive, CooledDown
    <3>2. Proved(withdrawals[j])
      BY <2>1, <2>2, <3>1 DEF WithdrawalsOK, CooldownNeedsProof
    <3> QED
      BY <1>8, <2>2, <3>2
  <2>3. CASE j = n + 1
    <3>1. withdrawals[i].slot <= ud.last_withdraw_slot
      BY <1>3, <1>8, <1>10, <2>1, <2>3 DEF Successive
    <3>2. ~(clock.slot >= withdrawals[i].slot + COOLDOWN_SLOTS)
      BY <1>3, <1>8, <2>1, <2>3 DEF CooledDown
    <3>3. ~(clock.slot >= ud.last_withdraw_slot + COOLDOWN_SLOTS)
      BY <1>2, <1>6, <1>9, <2>1, <3>1, <3>2
    <3> QED
      BY <1>3, <1>7, <1>8, <2>3, <3>3 DEF Proved
  <2> QED
    BY <1>8, <2>2, <2>3
<1>12. DrainWindowNeedsProof'
  <2> SUFFICES ASSUME NEW i \in DOMAIN withdrawals', NEW j \in DOMAIN withdrawals',
                      Successive(i, j)', withdrawals'[j].kind = "Limit",
                      ~withdrawals'[i].proof_used,
                      Elapsed(i, j)' < DRAIN_WINDOW,
                      ~CooledDown(i, j)', ~Proved(withdrawals'[j])
               PROVE  \E k \in i + 1 .. j - 1 : Successive(i, k)' /\ withdrawals'[k].proof_used
    BY DEF DrainWindowNeedsProof
  <2>1. i \in DOMAIN withdrawals /\ withdrawals'[i] = withdrawals[i]
    BY <1>8 DEF Successive
  <2>2. CASE j \in DOMAIN withdrawals
    <3>1. /\ Successive(i, j) /\ ~CooledDown(i, j) /\ withdrawals[j].kind = "Limit"
          /\ ~withdrawals[i].proof_used /\ Elapsed(i, j) < DRAIN_WINDOW
          /\ ~Proved(withdrawals[j])
      BY <1>8, <2>1, <2>2 DEF Successive, CooledDown, Elapsed
    <3>2. PICK k \in i + 1 .. j - 1 : Successive(i, k) /\ withdrawals[k].proof_used
      BY <2>1, <2>2, <3>1 DEF WithdrawalsOK, DrainWindowNeedsProof
    <3>3. k \in DOMAIN withdrawals
      BY <1>8, <2>1, <2>2
    <3> QED
      BY <1>8, <2>1, <3>2, <3>3 DEF Successive
  <2>3. CASE j = n + 1
    <3>1. /\ withdrawals[i].pool = p /\ withdrawals[i].user = u
          /\ x.kind = "Limit" /\ intent = {}
      BY <1>3, <1>8, <2>1, <2>3 DEF Successive, Proved
    <3>2. /\ withdrawals[i].kind = "Limit" /\ ~withdrawals[i].proof_used
          /\ withdrawals[i].slot <= ud.last_withdraw_slot
      BY <1>10, <2>1, <3>1
    <3>3. CASE ud.last_withdraw_at >= withdrawals[i].time
      <4>1. clock.time - withdrawals[i].time < DRAIN_WINDOW
        BY <1>3, <1>8, <2>1, <2>3 DEF Elapsed
      <4>2. InWindow(ud)
        BY <1>2, <1>6, <1>9, <2>1, <3>3, <4>1 DEF InWindow
      <4>3. ~(clock.slot >= withdrawals[i].slot + COOLDOWN_SLOTS)
        BY <1>3, <1>8, <2>1, <2>3 DEF CooledDown
      <4> QED
        BY <1>2, <1>6, <1>7, <1>9, <2>1, <3>1, <3>2, <4>2, <4>3
    <3>4. CASE \E k \in DOMAIN withdrawals : /\ i < k
                                            /\ withdrawals[k].pool = p
                                            /\ withdrawals[k].user = u
                                            /\ withdrawals[k].proof_used
      <4>1. PICK k \in DOMAIN withdrawals : /\ i < k
                                           /\ withdrawals[k].pool = p
                                           /\ withdrawals[k].user = u
                                           /\ withdrawals[k].proof_used
        BY <3>4
      <4>2. k \in i + 1 .. j - 1
        BY <1>8, <2>1, <2>3, <4>1
      <4> QED
        BY <1>8, <2>1, <3>1, <4>1, <4>2 DEF Successive
    <3> QED
      BY <1>0, <2>1, <3>1, <3>2, <3>3, <3>4 DEF WindowsKept, ud
  <2> QED
    BY <1>8, <2>2, <2>3
<1>13. LargeNeedsProofOutsideWindow'
  <2> SUFFICES ASSUME NEW j \in DOMAIN withdrawals', withdrawals'[j].kind = "Limit",
                      withdrawals'[j].amount >= WITHDRAW_LIMIT, ~Proved(withdrawals'[j])
               PROVE  \E i \in DOMAIN withdrawals' :
                        /\ Successive(i, j)' /\ ~withdrawals'[i].proof_used
                        /\ Elapsed(i, j)' < DRAIN_WINDOW
                        /\ CooledDown(i, j)'
    BY DEF LargeNeedsProofOutsideWindow
  <2>1. CASE j \in DOMAIN withdrawals
    <3>1. PICK i \in DOMAIN withdrawals :
            /\ Successive(i, j) /\ ~withdrawals[i].proof_used
            /\ Elapsed(i, j) < DRAIN_WINDOW
            /\ CooledDown(i, j)
      BY <1>8, <2>1 DEF WithdrawalsOK, LargeNeedsProofOutsideWindow
    <3> QED
      BY <1>8, <2>1, <3>1 DEF Successive, Elapsed, CooledDown
  <2>2. CASE j = n + 1
    <3>1. x.kind = "Limit" /\ x.amount >= WITHDRAW_LIMIT /\ intent = {}
      BY <1>3, <1>8, <2>2 DEF Proved
    <3>2. InWindow(ud) /\ clock.slot >= ud.last_withdraw_slot + COOLDOWN_SLOTS
      BY <1>7, <3>1
    <3>3. PICK i \in DOMAIN withdrawals :
            /\ withdrawals[i].pool = p /\ withdrawals[i].user = u
            /\ ~withdrawals[i].proof_used
            /\ withdrawals[i].time = ud.last_withdraw_at
            /\ withdrawals[i].slot <= ud.last_withdraw_slot
      BY <1>0, <1>1, <3>2 DEF WindowsOpened, InWindow, ud, p, u
    <3>4. /\ withdrawals'[i] = withdrawals[i] /\ i < j /\ i \in DOMAIN withdrawals'
          /\ withdrawals'[j] = x
      BY <1>8, <2>2
    <3>5. Successive(i, j)'
      BY <1>3, <3>3, <3>4 DEF Successive
    <3>6. Elapsed(i, j)' < DRAIN_WINDOW
      BY <1>3, <3>2, <3>3, <3>4 DEF Elapsed, InWindow
    <3>7. CooledDown(i, j)'
      BY <1>2, <1>3, <1>6, <1>9, <3>2, <3>3, <3>4 DEF CooledDown
    <3> QED
      BY <3>3, <3>4, <3>5, <3>6, <3>7
  <2> QED
    BY <1>8, <2>1, <2>2
<1>14. SignaturePaysOnce'
  <2> SUFFICES ASSUME NEW j \in DOMAIN withdrawals', NEW v \in withdrawals'[j].intent
               PROVE  /\ v.wallet = withdrawals'[j].user
                      /\ v.ix.arg.pool = withdrawals'[j].pool
                      /\ v.ix.arg.amount = withdrawals'[j].amount
                      /\ \A i \in DOMAIN withdrawals' :
                           i # j => v \notin withdrawals'[i].intent
    BY DEF SignaturePaysOnce
  \* The new withdrawal's proof has the registry's nonce, every earlier one less.
  <2>1. ASSUME NEW i \in DOMAIN withdrawals, NEW y \in withdrawals[i].intent
        PROVE  y \notin intent
    <3> SUFFICES ASSUME y \in intent PROVE FALSE
      OBVIOUS
    <3>1. Paid(ix, intent)
      BY DEF Free
    <3>2. y.wallet = u /\ y.nonce = registry[u].nonce
      BY <3>1 DEF Paid, u
    <3>3. y.nonce < registry[u].nonce
      BY <1>0, <2>1, <3>2 DEF ProofsNamed
    <3>4. registry[u].nonce \in Nat
      BY <1>1, ConstantsAssumption DEF EnvironmentTyped, RegistriesTyped, Registry
    <3> QED
      BY <3>2, <3>3, <3>4
  <2>2. CASE j \in DOMAIN withdrawals
    <3>1. v \in withdrawals[j].intent
      BY <1>8, <2>2
    <3>2. /\ v.wallet = withdrawals[j].user
          /\ v.ix.arg.pool = withdrawals[j].pool
          /\ v.ix.arg.amount = withdrawals[j].amount
          /\ \A i \in DOMAIN withdrawals : i # j => v \notin withdrawals[i].intent
      BY <2>2, <3>1 DEF WithdrawalsOK, SignaturePaysOnce
    <3>3. v \notin intent
      BY <2>1, <2>2, <3>1
    <3> QED
      BY <1>3, <1>8, <2>2, <3>2, <3>3
  <2>3. CASE j = n + 1
    <3>1. v \in intent /\ withdrawals'[j] = x
      BY <1>3, <1>8, <2>3
    <3>2. Paid(ix, intent)
      BY <3>1 DEF Free
    <3>3. v.wallet = u /\ v.ix = ix
      BY <3>1, <3>2 DEF Paid, u
    <3>4. \A i \in DOMAIN withdrawals' : i # j => v \notin withdrawals'[i].intent
      BY <1>8, <2>1, <2>3, <3>1
    <3> QED
      BY <1>3, <3>1, <3>3, <3>4 DEF p
  <2> QED
    BY <1>8, <2>2, <2>3
<1> QED
  BY <1>11, <1>12, <1>13, <1>14 DEF WithdrawalsOK

\* What holds of withdrawals holds of those up to an earlier one.
LEMMA WithdrawalsCut ==
  ASSUME withdrawals \in Seq(Withdrawals), withdrawals' \in Seq(Withdrawals),
         WithdrawalsOK, IsPrefixOf(withdrawals', withdrawals)
  PROVE  WithdrawalsOK'
<1>1. /\ Len(withdrawals) \in Nat /\ Len(withdrawals') \in Nat
      /\ Len(withdrawals') <= Len(withdrawals)
      /\ DOMAIN withdrawals = 1..Len(withdrawals)
      /\ DOMAIN withdrawals' = 1..Len(withdrawals')
  BY DEF IsPrefixOf
<1>2. \A i \in DOMAIN withdrawals' : i \in DOMAIN withdrawals /\ withdrawals'[i] = withdrawals[i]
  BY <1>1 DEF IsPrefixOf
<1>3. CooldownNeedsProof'
  BY <1>2 DEF WithdrawalsOK, CooldownNeedsProof, Successive, CooledDown
<1>4. DrainWindowNeedsProof'
  <2> SUFFICES ASSUME NEW i \in DOMAIN withdrawals', NEW j \in DOMAIN withdrawals',
                      Successive(i, j)', withdrawals'[j].kind = "Limit",
                      ~withdrawals'[i].proof_used,
                      Elapsed(i, j)' < DRAIN_WINDOW,
                      ~CooledDown(i, j)', ~Proved(withdrawals'[j])
               PROVE  \E k \in i + 1 .. j - 1 : Successive(i, k)' /\ withdrawals'[k].proof_used
    BY DEF DrainWindowNeedsProof
  <2>1. PICK k \in i + 1 .. j - 1 : Successive(i, k) /\ withdrawals[k].proof_used
    BY <1>2 DEF WithdrawalsOK, DrainWindowNeedsProof, Successive, CooledDown, Elapsed
  <2>2. k \in DOMAIN withdrawals'
    BY <1>1
  <2> QED
    BY <1>2, <2>1, <2>2 DEF Successive
<1>5. LargeNeedsProofOutsideWindow'
  <2> SUFFICES ASSUME NEW j \in DOMAIN withdrawals', withdrawals'[j].kind = "Limit",
                      withdrawals'[j].amount >= WITHDRAW_LIMIT, ~Proved(withdrawals'[j])
               PROVE  \E i \in DOMAIN withdrawals' :
                        /\ Successive(i, j)' /\ ~withdrawals'[i].proof_used
                        /\ Elapsed(i, j)' < DRAIN_WINDOW
                        /\ CooledDown(i, j)'
    BY DEF LargeNeedsProofOutsideWindow
  <2>1. PICK i \in DOMAIN withdrawals :
          /\ Successive(i, j) /\ ~withdrawals[i].proof_used
          /\ Elapsed(i, j) < DRAIN_WINDOW
          /\ CooledDown(i, j)
    BY <1>2 DEF WithdrawalsOK, LargeNeedsProofOutsideWindow
  <2>2. i \in DOMAIN withdrawals'
    BY <1>1, <2>1 DEF Successive
  <2> QED
    BY <1>2, <2>1, <2>2 DEF Successive, Elapsed, CooledDown
<1>6. SignaturePaysOnce'
  BY <1>2 DEF WithdrawalsOK, SignaturePaysOnce
<1> QED
  BY <1>3, <1>4, <1>5, <1>6 DEF WithdrawalsOK

-----------------------------------------------------------------------------
(* The invariant.                                                          *)

LEMMA InitialRecords ==
  VaultInit => VaultInv
<1> SUFFICES ASSUME VaultInit PROVE VaultInv
  OBVIOUS
<1>1. RegistriesTyped(registry) /\ \A w \in Wallets : registry[w].nonce \in Nat
  <2>1. PICK e \in Entry :
          registry = [w \in Wallets |-> [exists |-> TRUE, owner |-> w, nonce |-> 0,
                                        keys |-> Pushed(<<>>, e)]]
    BY DEF VaultInit
  <2>2. Cardinality(DOMAIN <<>>) < MAX_KEYS
    BY NoKeysType, FS_EmptySet, ConstantsAssumption
  <2>3. Pushed(<<>>, e) \in Keys
    BY <2>2, NoKeysType, PushedType
  <2>4. \A w \in Wallets : [exists |-> TRUE, owner |-> w, nonce |-> 0,
                            keys |-> Pushed(<<>>, e)] \in Registry
    BY <2>3, ConstantsAssumption DEF Registry
  <2> QED
    BY <2>1, <2>4 DEF RegistriesTyped
<1>2. EnvironmentTyped
  <2>1. /\ tx = <<>> /\ approvals = {} /\ clock = [slot |-> StartSlot, time |-> 1]
        /\ log = <<>> /\ committed.log = <<>>
        /\ epoch = [w \in Wallets |-> 0] /\ committed.epoch = epoch
        /\ committed.registry = registry
    BY DEF VaultInit
  <2> QED
    BY <1>1, <2>1, VaultAssumption DEF EnvironmentTyped
<1>3. /\ pools = [p \in Pools |-> NoPool]
      /\ deposits = [p \in Pools |-> [u \in Wallets |-> NoDeposit]]
      /\ withdrawals = <<>>
      /\ stored.pools = pools /\ stored.deposits = deposits
      /\ stored.withdrawals = withdrawals
      /\ committed.registry = registry
  BY DEF VaultInit, Stored
<1>4. NoDeposit \in UserDeposits /\ NoDeposit.last_withdraw_at = 0
      /\ NoDeposit.last_withdraw_slot = 0
  BY DEF NoDeposit, UserDeposits
<1>5. RecordsTyped(pools, deposits, withdrawals)
  BY <1>3, <1>4 DEF RecordsTyped, NoPool
<1>6. \A p \in Pools, u \in Wallets : /\ deposits[p][u].last_withdraw_at = 0
                                      /\ deposits[p][u].last_withdraw_slot = 0
  BY <1>3, <1>4
<1>7. DOMAIN withdrawals = {}
  BY <1>3
<1>8. RecordsOK(clock, registry, pools, deposits, withdrawals)
  BY <1>2, <1>5, <1>6, <1>7 DEF RecordsOK, KindsKept, SlotsKept, WindowsKept, WindowsOpened,
     WindowsSmall, ProofsNamed, EnvironmentTyped
<1>9. WithdrawalsOK /\ IsPrefixOf(withdrawals, withdrawals)
  BY <1>3, <1>7 DEF WithdrawalsOK, CooldownNeedsProof, DrainWindowNeedsProof,
     LargeNeedsProofOutsideWindow, SignaturePaysOnce, IsPrefixOf
<1> QED
  BY <1>2, <1>3, <1>8, <1>9 DEF VaultInv

\* A call of the vault that no passkey signs extends a transaction.
LEMMA PlainGoesOn ==
  ASSUME tx \in Seq(VaultInstructions), NEW op \in {"initialize_pool", "deposit"},
         NEW u \in Wallets, Plain(op, u)
  PROVE  tx' \in Seq(VaultInstructions)
<1>1. PlainCall(Vault, op, u) \in VaultInstructions
  BY DEF PlainCall, VaultInstructions
<1> QED
  BY <1>1 DEF Plain

\* The intent a client builds from committed state is well typed.
LEMMA SignedIntent ==
  ASSUME EnvironmentTyped, NEW ix \in WithdrawCalls, NEW p \in Policies, NEW ttl \in Ttls
  PROVE  BuildIntent(ix, p.id, ttl) \in Intents
<1>1. ix \in Calls /\ ix.wallet \in Wallets
  BY CallFacts
<1>2. committed.registry[ix.wallet].nonce \in 0..MaxNonce
  BY <1>1 DEF EnvironmentTyped, RegistriesTyped, Registry
<1>3. clock.time + ttl \in Nat /\ p.id \in PolicyIds
  BY ConstantsAssumption DEF EnvironmentTyped
<1> QED
  BY <1>1, <1>2, <1>3 DEF BuildIntent, Intent, Intents

\* The pair that carries a signature is of the vault's instructions.
LEMMA ProofIxsTyped ==
  ASSUME NEW a \in Approvals
  PROVE  ProofIxs(a) \in Seq(VaultInstructions)
<1>1. a.key \in PubKeys /\ a.intent \in Intents
  BY DEF Approvals
<1>2. a.intent.policy \in PolicyIds /\ a.intent.expiry \in Nat
  BY <1>1 DEF Intents
<1>3. Secp256r1Ix(a.key, a.intent) \in VaultInstructions
  BY <1>1 DEF Secp256r1Ix, VaultInstructions
<1>4. RecordProofIx(a.intent.policy, a.intent.expiry, a.intent) \in VaultInstructions
  BY <1>1, <1>2 DEF RecordProofIx, VaultInstructions
<1> QED
  BY <1>3, <1>4 DEF ProofIxs

\* The reflexive cases of what RecordsKept asks.
LEMMA NothingChanged ==
  ASSUME EnvironmentTyped
  PROVE  /\ LaterClock(clock, clock)
         /\ NoncesGrow(registry, registry)
         /\ NoncesGrow(committed.registry, committed.registry)
         /\ \A ds : \A p \in Pools, u \in Wallets : SameWindow(ds[p][u], ds[p][u])
BY ConstantsAssumption DEF EnvironmentTyped, LaterClock, NoncesGrow, RegistriesTyped, Registry,
   SameWindow

LEMMA VaultStep ==
  VaultInv /\ [VaultNext]_allVars => VaultInv'
<1> SUFFICES ASSUME VaultInv, [VaultNext]_allVars PROVE VaultInv'
  OBVIOUS
<1> USE DEF ledger, vaultVars, accounts
<1>0. /\ EnvironmentTyped
      /\ RecordsOK(clock, registry, pools, deposits, withdrawals)
      /\ RecordsOK(clock, committed.registry, stored.pools, stored.deposits,
                   stored.withdrawals)
      /\ IsPrefixOf(stored.withdrawals, withdrawals)
      /\ WithdrawalsOK
      /\ RecordsTyped(pools, deposits, withdrawals)
      /\ withdrawals \in Seq(Withdrawals)
      /\ stored.withdrawals \in Seq(Withdrawals)
  BY DEF VaultInv, RecordsOK, RecordsTyped
<1>a. IsPrefixOf(withdrawals, withdrawals)
  BY <1>0 DEF IsPrefixOf
\* Steps that take nothing out.
<1>b. ASSUME UNCHANGED withdrawals PROVE WithdrawalsOK'
  BY <1>0, <1>a, <1>b, WithdrawalsCut
<1>1. ASSUME NEW p \in Pools, NEW kind \in PoolKinds, NEW u \in Wallets,
             InitializePool(p, kind, u)
      PROVE  VaultInv'
  <2>1. /\ ~pools[p].exists /\ pools' = [pools EXCEPT ![p] = [exists |-> TRUE, kind |-> kind]]
        /\ Plain("initialize_pool", u)
        /\ UNCHANGED <<log, epoch, registry, committed, approvals, clock, deposits,
                       withdrawals, stored>>
    BY <1>1 DEF InitializePool
  <2>2. kind \in Kinds
    BY VaultAssumption DEF Kinds
  <2>3. RecordsTyped(pools', deposits', withdrawals')
    BY <1>0, <2>1, <2>2 DEF RecordsTyped
  <2>4. \A q \in Pools : pools[q].exists => pools'[q] = pools[q]
    BY <1>0, <2>1 DEF RecordsTyped
  <2>5. RecordsOK(clock', registry', pools', deposits', withdrawals')
    BY <1>0, <2>1, <2>3, <2>4, NothingChanged, RecordsKept, ZenonT(40)
  <2>6. tx' \in Seq(VaultInstructions)
    BY <1>0, <2>1, PlainGoesOn DEF EnvironmentTyped
  <2> QED
    BY <1>0, <1>b, <2>1, <2>5, <2>6 DEF VaultInv, EnvironmentTyped
<1>2. ASSUME NEW u \in Wallets, NEW p \in Pools, NEW amount \in Deposited,
             Deposit(u, p, amount)
      PROVE  VaultInv'
  <2>1. /\ deposits' = [deposits EXCEPT ![p][u].exists = TRUE, ![p][u].balance = @ + amount]
        /\ Plain("deposit", u)
        /\ UNCHANGED <<log, epoch, registry, committed, approvals, clock, pools,
                       withdrawals, stored>>
    BY <1>2 DEF Deposit
  <2> DEFINE ud  == deposits[p][u]
             new == [ud EXCEPT !.exists = TRUE, !.balance = @ + amount]
  <2>2. ud \in UserDeposits /\ amount \in Nat
    BY <1>0, VaultAssumption DEF RecordsTyped
  <2>3. new \in UserDeposits /\ SameWindow(ud, new)
    <3> HIDE DEF ud
    <3>1. ud.balance \in Nat
      BY <2>2 DEF UserDeposits
    <3>2. ud.balance + amount \in Nat
      BY <2>2, <3>1
    <3> QED
      BY <2>2, <3>2 DEF UserDeposits, SameWindow
  <2>4. deposits' = [deposits EXCEPT ![p][u] = new]
    BY <1>0, <2>1, <2>2 DEF RecordsTyped, UserDeposits
  <2> HIDE DEF new
  <2>5. /\ deposits' \in [Pools -> [Wallets -> UserDeposits]]
        /\ deposits'[p][u] = new
        /\ \A q \in Pools, y \in Wallets : q # p \/ y # u => deposits'[q][y] = deposits[q][y]
    BY <1>0, <2>3, <2>4, DepositReplaced DEF RecordsTyped
  <2>6. RecordsTyped(pools', deposits', withdrawals')
    BY <1>0, <2>1, <2>5 DEF RecordsTyped
  <2>7. \A q \in Pools, y \in Wallets : SameWindow(deposits[q][y], deposits'[q][y])
    BY <2>3, <2>5 DEF SameWindow
  <2>8. RecordsOK(clock', registry', pools', deposits', withdrawals')
    BY <1>0, <2>1, <2>6, <2>7, NothingChanged, RecordsKept
  <2>9. tx' \in Seq(VaultInstructions)
    BY <1>0, <2>1, PlainGoesOn DEF EnvironmentTyped
  <2> QED
    BY <1>0, <1>b, <2>1, <2>8, <2>9 DEF VaultInv, EnvironmentTyped
<1>3. ASSUME NEW ix \in WithdrawCalls, Withdraw(ix)
      PROVE  VaultInv'
  <2>1. PICK intent \in SUBSET Intents :
          /\ withdrawals' = Append(withdrawals, Taken(ix, intent))
          /\ Free(ix, intent) \/ Paid(ix, intent)
    BY <1>0, <1>3, WithdrawalTaken
  <2>2. tx' \in Seq(VaultInstructions) /\ log' \in Seq(Events)
    BY <1>0, <1>3, WithdrawalTaken
  <2>3. RecordsOK(clock', registry', pools', deposits', withdrawals')
    BY <1>0, <1>3, <2>1, WithdrawalAdded
  <2>4. WithdrawalsOK'
    BY <1>0, <1>3, <2>1, WithdrawalJustified
  <2>5. RegistriesTyped(registry')
    BY <1>0, <2>1, NoncesAfter DEF EnvironmentTyped
  <2>6. UNCHANGED <<epoch, committed, approvals, clock, stored>>
    BY <1>3 DEF Withdraw
  <2>7. IsPrefixOf(stored'.withdrawals, withdrawals')
    BY <1>0, <2>1, <2>6 DEF IsPrefixOf
  <2> QED
    BY <1>0, <2>2, <2>3, <2>4, <2>5, <2>6, <2>7 DEF VaultInv, EnvironmentTyped
<1>4. ASSUME NEW k \in PubKeys, NEW ix \in WithdrawCalls, NEW p \in Policies, NEW ttl \in Ttls,
             SignWithdrawal(k, ix, p.id, ttl)
      PROVE  VaultInv'
  <2>1. /\ approvals' = approvals \cup {[key |-> k, intent |-> BuildIntent(ix, p.id, ttl)]}
        /\ UNCHANGED <<log, epoch, registry, committed, tx, clock, pools, deposits,
                       withdrawals, stored>>
    BY <1>4 DEF SignWithdrawal, Approve
  <2>2. BuildIntent(ix, p.id, ttl) \in Intents
    BY <1>0, SignedIntent
  <2>3. approvals' \in SUBSET Approvals
    BY <1>0, <2>1, <2>2 DEF EnvironmentTyped, Approvals
  <2> QED
    BY <1>0, <1>b, <2>1, <2>3 DEF VaultInv, EnvironmentTyped
<1>5. ASSUME NEW a \in approvals, AttachProof(a)
      PROVE  VaultInv'
  <2>1. /\ tx' = tx \o ProofIxs(a)
        /\ UNCHANGED <<log, epoch, registry, committed, approvals, clock, pools, deposits,
                       withdrawals, stored>>
    BY <1>5 DEF AttachProof
  <2>2. ProofIxs(a) \in Seq(VaultInstructions)
    BY <1>0, ProofIxsTyped DEF EnvironmentTyped
  <2>3. tx' \in Seq(VaultInstructions)
    BY <1>0, <2>1, <2>2 DEF EnvironmentTyped
  <2> QED
    BY <1>0, <1>b, <2>1, <2>3 DEF VaultInv, EnvironmentTyped
<1>6. CASE Tick /\ UNCHANGED vaultVars
  <2>1. /\ clock' = [clock EXCEPT !.slot = @ + 1] \/ clock' = [clock EXCEPT !.time = @ + 1]
        /\ UNCHANGED <<log, epoch, registry, committed, tx, approvals, pools, deposits,
                       withdrawals, stored>>
    BY <1>6 DEF Tick
  <2>2. clock' \in [slot: Nat, time: Nat] /\ clock'.time > 0 /\ LaterClock(clock, clock')
    <3>1. /\ clock \in [slot: Nat, time: Nat] /\ clock.time > 0
          /\ clock.slot \in Nat /\ clock.time \in Nat
      BY <1>0 DEF EnvironmentTyped
    <3>2. CASE clock' = [clock EXCEPT !.slot = @ + 1]
      BY <3>1, <3>2 DEF LaterClock
    <3>3. CASE clock' = [clock EXCEPT !.time = @ + 1]
      BY <3>1, <3>3 DEF LaterClock
    <3> QED
      BY <2>1, <3>2, <3>3
  <2>3. RecordsOK(clock', registry', pools', deposits', withdrawals')
    BY <1>0, <2>1, <2>2, NothingChanged, RecordsKept
  <2>4. RecordsTyped(stored.pools, stored.deposits, stored.withdrawals)
    BY <1>0 DEF RecordsOK
  <2>5. RecordsOK(clock', committed'.registry, stored'.pools, stored'.deposits,
                  stored'.withdrawals)
    BY <1>0, <2>1, <2>2, <2>4, NothingChanged, RecordsKept
  <2> QED
    BY <1>0, <1>b, <2>1, <2>2, <2>3, <2>5 DEF VaultInv, EnvironmentTyped
<1>7. CASE VaultCommit
  <2>1. /\ committed'.registry = registry /\ committed'.log = log /\ committed'.epoch = epoch
        /\ stored'.pools = pools /\ stored'.deposits = deposits
        /\ stored'.withdrawals = withdrawals
        /\ tx' = <<>>
        /\ UNCHANGED <<log, epoch, registry, approvals, clock, pools, deposits, withdrawals>>
    BY <1>7 DEF VaultCommit, Commit, Stored
  <2>2. tx' \in Seq(VaultInstructions)
    BY <2>1
  <2> QED
    BY <1>0, <1>a, <1>b, <2>1, <2>2 DEF VaultInv, EnvironmentTyped
<1>8. CASE VaultAbort
  <2>1. /\ registry' = committed.registry /\ log' = committed.log /\ epoch' = committed.epoch
        /\ pools' = stored.pools /\ deposits' = stored.deposits
        /\ withdrawals' = stored.withdrawals
        /\ tx' = <<>>
        /\ UNCHANGED <<committed, approvals, clock, stored>>
    BY <1>8 DEF VaultAbort, Abort
  <2>2. tx' \in Seq(VaultInstructions)
    BY <2>1
  <2>3. WithdrawalsOK'
    BY <1>0, <2>1, WithdrawalsCut
  <2>4. IsPrefixOf(stored'.withdrawals, withdrawals')
    BY <1>0, <2>1 DEF IsPrefixOf
  <2> QED
    BY <1>0, <2>1, <2>2, <2>3, <2>4 DEF VaultInv, EnvironmentTyped
<1>9. CASE UNCHANGED allVars
  BY <1>0, <1>b, <1>9 DEF allVars, vars, VaultInv, EnvironmentTyped
<1> QED
  BY <1>1, <1>2, <1>3, <1>4, <1>5, <1>6, <1>7, <1>8, <1>9 DEF VaultNext

-----------------------------------------------------------------------------
(* What a pool owes its users together.                                    *)

\* The least number in a set of them.
LEMMA LeastNumber ==
  ASSUME NEW T \in SUBSET Nat, T # {}
  PROVE  \E n \in T : \A m \in T : n <= m
<1> DEFINE Less == {ss \in Nat \X Nat : ss[1] < ss[2]}
<1>1. IsWellFoundedOn(Less, Nat)
  BY NatLessThanWellFounded DEF OpToRel
<1> HIDE DEF Less
<1>2. PICK n \in T : \A m \in T : ~(<<m, n>> \in Less)
  BY <1>1, WFMin
<1>3. ASSUME NEW m \in T PROVE n <= m
  <2>1. <<m, n>> \notin Less
    BY <1>2
  <2>2. m \in Nat /\ n \in Nat
    OBVIOUS
  <2> QED
    BY <2>1, <2>2 DEF Less
<1> QED
  BY <1>3

\* The user whose balance the sum over s takes next.
Any(s) == CHOOSE u \in s : TRUE

LEMMA CardinalitiesOfUsers ==
  ASSUME NEW s \in SUBSET Wallets
  PROVE  Cardinality(s) \in Nat
BY FS_Subset, FS_CardinalityType, VaultAssumption

\* Removing it leaves fewer users.
LEMMA OneLess ==
  ASSUME NEW s \in SUBSET Wallets, s # {}
  PROVE  /\ Any(s) \in s
         /\ s \ {Any(s)} \in SUBSET Wallets
         /\ Cardinality(s) \in Nat \ {0}
         /\ Cardinality(s \ {Any(s)}) = Cardinality(s) - 1
<1>1. IsFiniteSet(s)
  BY FS_Subset, VaultAssumption
<1>2. Any(s) \in s
  BY DEF Any
<1>3. Cardinality(s) \in Nat /\ Cardinality(s) # 0
  BY <1>1, FS_CardinalityType, FS_EmptySet
<1> QED
  BY <1>1, <1>2, <1>3, FS_RemoveElement

\* What holds of no user, and of some users once it holds of all of them but one,
\* holds of all sets of users.
LEMMA SetsOfUsers ==
  ASSUME NEW P, {} \in P,
         \A s \in SUBSET Wallets : s # {} /\ s \ {Any(s)} \in P => s \in P
  PROVE  \A s \in SUBSET Wallets : s \in P
<1> DEFINE Bad == {n \in Nat : \E s \in SUBSET Wallets : s \notin P /\ Cardinality(s) = n}
<1> SUFFICES ASSUME NEW r \in SUBSET Wallets, r \notin P PROVE FALSE
  OBVIOUS
<1>1. Cardinality(r) \in Bad
  BY OneLess
<1>2. PICK n \in Bad : \A m \in Bad : n <= m
  BY <1>1, LeastNumber
<1>3. PICK s \in SUBSET Wallets : s \notin P /\ Cardinality(s) = n
  BY <1>2
<1>4. s \ {Any(s)} \notin P
  BY <1>3
<1>5. s \ {Any(s)} \in SUBSET Wallets /\ Cardinality(s \ {Any(s)}) = n - 1 /\ n \in Nat \ {0}
  BY <1>3, OneLess
<1>6. n - 1 \in Bad
  BY <1>4, <1>5
<1> QED
  BY <1>2, <1>5, <1>6

\* g gives the sum of the balances in row over every set of users in D.
Sums(row, D, g) ==
  g = [s \in D |-> IF s = {} THEN 0 ELSE row[Any(s)].balance + g[s \ {Any(s)}]]

UpTo(n) == {s \in SUBSET Wallets : Cardinality(s) <= n}

\* The sum is defined.
LEMMA SumsExist ==
  ASSUME NEW row
  PROVE  \E g : Sums(row, SUBSET Wallets, g)
<1> DEFINE Bad == {n \in Nat : ~ \E g : Sums(row, UpTo(n), g)}
<1>1. ASSUME NEW n \in Nat, n = 0
      PROVE  Sums(row, UpTo(n), [s \in UpTo(n) |-> 0])
  <2>1. ASSUME NEW s \in UpTo(n) PROVE s = {}
    <3> SUFFICES ASSUME s # {} PROVE FALSE
      OBVIOUS
    <3>1. Cardinality(s) \in Nat \ {0} /\ Cardinality(s) <= 0
      BY <1>1, OneLess DEF UpTo
    <3> QED
      BY <3>1
  <2> QED
    BY <2>1 DEF Sums
<1>2. ASSUME NEW n \in Nat, NEW g, Sums(row, UpTo(n), g)
      PROVE  \E h : Sums(row, UpTo(n + 1), h)
  <2> DEFINE h == [s \in UpTo(n + 1) |->
                     IF s = {} THEN 0 ELSE row[Any(s)].balance + g[s \ {Any(s)}]]
  <2>1. \A s \in UpTo(n) : s \in UpTo(n + 1) /\ h[s] = g[s]
    <3>1. \A s \in UpTo(n) : Cardinality(s) \in Nat
      BY CardinalitiesOfUsers DEF UpTo
    <3>2. \A s \in UpTo(n) : s \in UpTo(n + 1)
      BY <3>1 DEF UpTo
    <3> QED
      BY <1>2, <3>2 DEF Sums
  <2>2. \A s \in UpTo(n + 1) : s # {} => s \ {Any(s)} \in UpTo(n)
    BY OneLess DEF UpTo
  <2>3. \A s \in UpTo(n + 1) :
          h[s] = IF s = {} THEN 0 ELSE row[Any(s)].balance + h[s \ {Any(s)}]
    BY <2>1, <2>2
  <2>4. Sums(row, UpTo(n + 1), h)
    <3> DEFINE k == [s \in UpTo(n + 1) |->
                       IF s = {} THEN 0 ELSE row[Any(s)].balance + h[s \ {Any(s)}]]
    <3>1. \A s \in UpTo(n + 1) : h[s] = k[s]
      BY <2>3
    <3>2. h = k
      BY <3>1, Zenon
    <3> QED
      BY <3>2 DEF Sums
  <2> QED
    BY <2>4
<1>3. Bad = {}
  <2> SUFFICES ASSUME Bad # {} PROVE FALSE
    OBVIOUS
  <2>1. PICK n \in Bad : \A m \in Bad : n <= m
    BY LeastNumber
  <2>2. n # 0
    BY <1>1, <2>1
  <2>3. n - 1 \in Nat /\ n - 1 \notin Bad
    BY <2>1, <2>2
  <2>4. \E g : Sums(row, UpTo(n), g)
    <3>1. PICK g : Sums(row, UpTo(n - 1), g)
      BY <2>3
    <3>2. \E h : Sums(row, UpTo((n - 1) + 1), h)
      BY <1>2, <2>3, <3>1
    <3>3. (n - 1) + 1 = n
      BY <2>1
    <3> QED
      BY <3>2, <3>3
  <2> QED
    BY <2>1, <2>4
<1>4. Cardinality(Wallets) \in Nat /\ UpTo(Cardinality(Wallets)) = SUBSET Wallets
  BY FS_CardinalityType, FS_Subset, VaultAssumption DEF UpTo
<1> HIDE DEF Bad
<1>5. \E g : Sums(row, UpTo(Cardinality(Wallets)), g)
  BY <1>3, <1>4 DEF Bad
<1> QED
  BY <1>4, <1>5

\* What the sums of a pool's records are.
Totals(row, g) ==
  /\ g \in [SUBSET Wallets -> Nat]
  /\ g[{}] = 0
  /\ \A s \in SUBSET Wallets : s # {} => g[s] = row[Any(s)].balance + g[s \ {Any(s)}]

LEMMA OwedTotals ==
  ASSUME NEW row \in [Wallets -> UserDeposits]
  PROVE  \E g : Totals(row, g) /\ Owed(row) = g[Wallets]
<1> DEFINE g == CHOOSE h : Sums(row, SUBSET Wallets, h)
<1>1. Owed(row) = g[Wallets]
  BY DEF Owed, MapThenSumSet, MapThenFoldSet, Sums, Any
<1>2. Sums(row, SUBSET Wallets, g)
  BY SumsExist
<1> HIDE DEF g
<1>3. /\ DOMAIN g = SUBSET Wallets
      /\ g[{}] = 0
      /\ \A s \in SUBSET Wallets : s # {} => g[s] = row[Any(s)].balance + g[s \ {Any(s)}]
  BY <1>2 DEF Sums
<1>4. \A s \in SUBSET Wallets : g[s] \in Nat
  <2> DEFINE P == {s \in SUBSET Wallets : g[s] \in Nat}
  <2>1. ASSUME NEW s \in SUBSET Wallets, s # {}, s \ {Any(s)} \in P PROVE s \in P
    BY <1>3, <2>1, OneLess DEF UserDeposits
  <2>2. {} \in P
    BY <1>3
  <2>3. \A s \in SUBSET Wallets : s \in P
    <3> HIDE DEF P
    <3> QED  BY <2>1, <2>2, SetsOfUsers
  <2> QED
    BY <2>3
<1>5. g = [s \in SUBSET Wallets |-> g[s]]
  BY <1>2 DEF Sums
<1>6. g \in [SUBSET Wallets -> Nat]
  BY <1>4, <1>5
<1> QED
  BY <1>1, <1>3, <1>6 DEF Totals

\* Nothing is owed when no balance is positive.
LEMMA NothingOwed ==
  ASSUME NEW row \in [Wallets -> UserDeposits], \A u \in Wallets : row[u].balance = 0
  PROVE  Owed(row) = 0
<1>1. PICK g : Totals(row, g) /\ Owed(row) = g[Wallets]
  BY OwedTotals
<1> DEFINE P == {s \in SUBSET Wallets : g[s] = 0}
<1>2. {} \in P
  BY <1>1 DEF Totals
<1>3. ASSUME NEW s \in SUBSET Wallets, s # {}, s \ {Any(s)} \in P PROVE s \in P
  <2>1. Any(s) \in Wallets /\ row[Any(s)].balance = 0 /\ g[s \ {Any(s)}] = 0
    BY <1>3, OneLess
  <2>2. g[s] = 0 + 0
    BY <1>1, <1>3, <2>1 DEF Totals
  <2> QED
    BY <2>2<1>4. \A s \in SUBSET Wallets : s \in P
  <2> HIDE DEF P
  <2> QED  BY <1>2, <1>3, SetsOfUsers
<1> QED
  BY <1>1, <1>4

\* A pool owes each of its users alone no more than all of them together, and a
\* change of one user's balance changes the whole by as much.
LEMMA OwedChange ==
  ASSUME NEW row \in [Wallets -> UserDeposits], NEW row2 \in [Wallets -> UserDeposits],
         NEW u \in Wallets, \A v \in Wallets : v # u => row2[v].balance = row[v].balance
  PROVE  /\ Owed(row) \in Nat /\ Owed(row2) \in Nat
         /\ row[u].balance <= Owed(row)
         /\ Owed(row2) + row[u].balance = Owed(row) + row2[u].balance
<1>1. PICK g : Totals(row, g) /\ Owed(row) = g[Wallets]
  BY OwedTotals
<1>2. PICK h : Totals(row2, h) /\ Owed(row2) = h[Wallets]
  BY OwedTotals
<1> DEFINE Holds(s) == IF u \in s
                       THEN /\ row[u].balance <= g[s]
                            /\ h[s] + row[u].balance = g[s] + row2[u].balance
                       ELSE h[s] = g[s]
           P == {s \in SUBSET Wallets : Holds(s)}
<1>3. {} \in P
  BY <1>1, <1>2 DEF Totals
<1>4. ASSUME NEW s \in SUBSET Wallets, s # {}, s \ {Any(s)} \in P PROVE s \in P
  <2> DEFINE t == s \ {Any(s)}
  <2>1. Any(s) \in s /\ t \in SUBSET Wallets
    BY <1>4, OneLess
  <2>2. /\ g[s] = row[Any(s)].balance + g[t] /\ h[s] = row2[Any(s)].balance + h[t]
        /\ g[t] \in Nat /\ h[t] \in Nat
    BY <1>1, <1>2, <1>4, <2>1 DEF Totals
  <2>3. \A v \in Wallets : row[v].balance \in Nat /\ row2[v].balance \in Nat
    BY DEF UserDeposits
  <2>4. Holds(t) /\ (u \in t <=> u \in s /\ u # Any(s))
    BY <1>4
  <2> HIDE DEF t
  <2>5. CASE u = Any(s)
    BY <2>1, <2>2, <2>3, <2>4, <2>5
  <2>6. CASE u # Any(s)
    <3>1. row[Any(s)].balance = row2[Any(s)].balance
      BY <2>1, <2>6
    <3> QED
      BY <2>1, <2>2, <2>3, <2>4, <2>6, <3>1
  <2> QED
    BY <2>5, <2>6
<1>5. \A s \in SUBSET Wallets : s \in P
  <2> HIDE DEF P
  <2> QED  BY <1>3, <1>4, SetsOfUsers
<1>6. Owed(row) \in Nat /\ Owed(row2) \in Nat
  BY <1>1, <1>2 DEF Totals
<1> QED
  BY <1>1, <1>2, <1>5, <1>6

-----------------------------------------------------------------------------
(* The pools' funds.                                                       *)

\* What a pool holds covers what it owes, and its kind is one that is created.
FundsOK(ps, ds, hs) ==
  /\ hs \in [Pools -> Nat]
  /\ \A p \in Pools : Owed(ds[p]) <= hs[p]
  /\ \A p \in Pools : ps[p].kind \in PoolKinds \cup {ZeroKey}

FundsInv ==
  /\ VaultInv
  /\ FundsOK(pools, deposits, held)
  /\ FundsOK(stored.pools, stored.deposits, stored.held)

\* Where the balance of one user in one pool changes, what the pool owes changes by
\* as much; what the other pools owe does not.
LEMMA BalanceChange ==
  ASSUME NEW ds \in [Pools -> [Wallets -> UserDeposits]],
         NEW d2 \in [Pools -> [Wallets -> UserDeposits]],
         NEW p \in Pools, NEW u \in Wallets,
         \A q \in Pools, x \in Wallets : q # p \/ x # u => d2[q][x] = ds[q][x]
  PROVE  /\ Owed(ds[p]) \in Nat /\ Owed(d2[p]) \in Nat
         /\ ds[p][u].balance \in Nat /\ d2[p][u].balance \in Nat
         /\ ds[p][u].balance <= Owed(ds[p])
         /\ Owed(d2[p]) + ds[p][u].balance = Owed(ds[p]) + d2[p][u].balance
         /\ \A q \in Pools : q # p => Owed(d2[q]) = Owed(ds[q])
<1>1. ds[p] \in [Wallets -> UserDeposits] /\ d2[p] \in [Wallets -> UserDeposits]
  OBVIOUS
<1>2. \A v \in Wallets : v # u => d2[p][v].balance = ds[p][v].balance
  OBVIOUS
<1>3. ds[p][u].balance \in Nat /\ d2[p][u].balance \in Nat
  BY DEF UserDeposits
<1>4. ASSUME NEW q \in Pools, q # p PROVE Owed(d2[q]) = Owed(ds[q])
  <2>1. d2[q] \in [Wallets -> UserDeposits] /\ ds[q] \in [Wallets -> UserDeposits]
    OBVIOUS
  <2>2. \A x \in Wallets : d2[q][x] = ds[q][x]
    BY <1>4
  <2>3. d2[q] = ds[q]
    BY <2>1, <2>2
  <2> QED
    BY <2>3
<1> QED
  BY <1>1, <1>2, <1>3, <1>4, OwedChange

\* Lamports credited to some account leave the others alone and take nothing away.
LEMMA CreditAdds ==
  ASSUME NEW hs \in [Pools -> Nat], NEW to, NEW amount \in Nat
  PROVE  /\ Credited(hs, to, amount) \in [Pools -> Nat]
         /\ \A p \in Pools : hs[p] <= Credited(hs, to, amount)[p]
BY DEF Credited

LEMMA InitialFunds ==
  VaultInit => FundsInv
<1> SUFFICES ASSUME VaultInit PROVE FundsInv
  OBVIOUS
<1>1. /\ pools = [p \in Pools |-> NoPool]
      /\ deposits = [p \in Pools |-> [u \in Wallets |-> NoDeposit]]
      /\ held = [p \in Pools |-> 0]
      /\ stored.pools = pools /\ stored.deposits = deposits /\ stored.held = held
  BY DEF VaultInit, Stored
<1>2. NoDeposit \in UserDeposits /\ NoDeposit.balance = 0
  BY DEF NoDeposit, UserDeposits
<1>3. \A p \in Pools : Owed(deposits[p]) = 0
  <2> SUFFICES ASSUME NEW p \in Pools PROVE Owed(deposits[p]) = 0
    OBVIOUS
  <2> DEFINE row == [u \in Wallets |-> NoDeposit]
  <2>1. row \in [Wallets -> UserDeposits] /\ \A u \in Wallets : row[u].balance = 0
    BY <1>2
  <2>2. deposits[p] = row
    BY <1>1
  <2> HIDE DEF row
  <2> QED
    BY <2>1, <2>2, NothingOwed
<1>4. FundsOK(pools, deposits, held)
  BY <1>1, <1>3 DEF FundsOK, NoPool
<1>5. FundsOK(stored.pools, stored.deposits, stored.held)
  BY <1>1, <1>4
<1> QED
  BY <1>4, <1>5, InitialRecords DEF FundsInv

LEMMA FundsStep ==
  FundsInv /\ [VaultNext]_allVars => FundsInv'
<1> SUFFICES ASSUME FundsInv, [VaultNext]_allVars PROVE FundsInv'
  OBVIOUS
<1> USE DEF ledger, vaultVars, accounts
<1>0. /\ VaultInv /\ VaultInv'
      /\ FundsOK(pools, deposits, held)
      /\ FundsOK(stored.pools, stored.deposits, stored.held)
      /\ EnvironmentTyped
      /\ RecordsTyped(pools, deposits, withdrawals)
      /\ RecordsTyped(pools', deposits', withdrawals')
  <2>1. VaultInv /\ VaultInv'
    BY VaultStep DEF FundsInv
  <2> QED
    BY <2>1 DEF FundsInv, VaultInv, RecordsOK
<1>a. /\ deposits \in [Pools -> [Wallets -> UserDeposits]]
      /\ deposits' \in [Pools -> [Wallets -> UserDeposits]]
      /\ held \in [Pools -> Nat]
  BY <1>0 DEF RecordsTyped, FundsOK
<1>1. ASSUME NEW p \in Pools, NEW kind \in PoolKinds, NEW u \in Wallets,
             InitializePool(p, kind, u)
      PROVE  FundsInv'
  <2>1. /\ pools' = [pools EXCEPT ![p] = [exists |-> TRUE, kind |-> kind]]
        /\ UNCHANGED <<deposits, held, stored>>
    BY <1>1 DEF InitializePool
  <2>2. \A q \in Pools : pools'[q].kind \in PoolKinds \cup {ZeroKey}
    BY <1>0, <2>1 DEF FundsOK, RecordsTyped
  <2> QED
    BY <1>0, <2>1, <2>2 DEF FundsInv, FundsOK
<1>2. ASSUME NEW u \in Wallets, NEW p \in Pools, NEW amount \in Deposited,
             Deposit(u, p, amount)
      PROVE  FundsInv'
  <2>1. /\ held' = [held EXCEPT ![p] = @ + amount]
        /\ deposits' = [deposits EXCEPT ![p][u].exists = TRUE, ![p][u].balance = @ + amount]
        /\ UNCHANGED <<pools, stored>>
    BY <1>2 DEF Deposit
  <2>2. amount \in Nat
    BY VaultAssumption
  <2>3. /\ deposits'[p][u].balance = deposits[p][u].balance + amount
        /\ \A q \in Pools, x \in Wallets : q # p \/ x # u => deposits'[q][x] = deposits[q][x]
    BY <1>a, <2>1 DEF UserDeposits
  <2>4. /\ held' \in [Pools -> Nat] /\ held'[p] = held[p] + amount
        /\ \A q \in Pools : q # p => held'[q] = held[q]
    BY <1>a, <2>1, <2>2
  <2>5. \A q \in Pools : Owed(deposits'[q]) <= held'[q]
    <3>1. /\ Owed(deposits[p]) \in Nat /\ Owed(deposits'[p]) \in Nat
          /\ deposits[p][u].balance \in Nat
          /\ Owed(deposits'[p]) + deposits[p][u].balance
               = Owed(deposits[p]) + deposits'[p][u].balance
          /\ \A q \in Pools : q # p => Owed(deposits'[q]) = Owed(deposits[q])
      BY <1>a, <2>3, BalanceChange
    <3>2. Owed(deposits'[p]) <= held'[p]
      <4>1. Owed(deposits'[p]) = Owed(deposits[p]) + amount
        BY <2>2, <2>3, <3>1
      <4>2. Owed(deposits[p]) <= held[p] /\ held[p] \in Nat
        BY <1>0, <1>a DEF FundsOK
      <4> QED
        BY <2>2, <2>4, <3>1, <4>1, <4>2
    <3> QED
      BY <1>0, <2>4, <3>1, <3>2 DEF FundsOK
  <2> QED
    BY <1>0, <2>1, <2>4, <2>5 DEF FundsInv, FundsOK
<1>3. ASSUME NEW ix \in WithdrawCalls, Withdraw(ix)
      PROVE  FundsInv'
  <2> DEFINE p == ix.arg.pool
             u == ix.wallet
             amount == ix.arg.amount
             less == [held EXCEPT ![p] = @ - amount]
  <2>1. p \in Pools /\ u \in Wallets /\ amount \in Nat
    BY CallFacts
  <2>2. /\ held' = Credited(less, ix.arg.destination, amount)
        /\ UNCHANGED <<pools, stored>>
    BY <1>3 DEF Withdraw
  <2>3. /\ amount <= deposits[p][u].balance
        /\ deposits'[p][u].balance = deposits[p][u].balance - amount
        /\ \A q \in Pools, x \in Wallets : q # p \/ x # u => deposits'[q][x] = deposits[q][x]
    BY <1>0, <1>3, DepositAfter
  <2> HIDE DEF p, u, amount
  <2>4. /\ Owed(deposits[p]) \in Nat /\ Owed(deposits'[p]) \in Nat
        /\ deposits[p][u].balance \in Nat
        /\ deposits[p][u].balance <= Owed(deposits[p])
        /\ Owed(deposits'[p]) + deposits[p][u].balance
             = Owed(deposits[p]) + deposits'[p][u].balance
        /\ \A q \in Pools : q # p => Owed(deposits'[q]) = Owed(deposits[q])
    BY <1>a, <2>1, <2>3, BalanceChange, ZenonT(40)
  <2>5. /\ Owed(deposits'[p]) = Owed(deposits[p]) - amount
        /\ amount <= Owed(deposits[p])
    BY <2>1, <2>3, <2>4
  <2>6. Owed(deposits[p]) <= held[p] /\ held[p] \in Nat
    BY <1>0, <1>a, <2>1 DEF FundsOK
  <2>7. held[p] - amount \in Nat
    BY <2>1, <2>4, <2>5, <2>6
  <2>8. /\ less \in [Pools -> Nat] /\ less[p] = held[p] - amount
        /\ \A q \in Pools : q # p => less[q] = held[q]
    BY <1>a, <2>1, <2>7
  <2> HIDE DEF less
  <2>9. held' \in [Pools -> Nat] /\ \A q \in Pools : less[q] <= held'[q]
    BY <2>1, <2>2, <2>8, CreditAdds
  <2>10. Owed(deposits'[p]) <= held'[p]
    <3>1. Owed(deposits'[p]) <= less[p] /\ less[p] \in Nat /\ held'[p] \in Nat
          /\ less[p] <= held'[p]
      BY <2>1, <2>4, <2>5, <2>6, <2>8, <2>9
    <3> QED
      BY <2>4, <3>1
  <2>11. ASSUME NEW q \in Pools, q # p PROVE Owed(deposits'[q]) <= held'[q]
    <3>1. /\ Owed(deposits'[q]) = Owed(deposits[q]) /\ less[q] = held[q]
          /\ less[q] <= held'[q]
          /\ held[q] \in Nat /\ held'[q] \in Nat
      BY <1>a, <2>4, <2>8, <2>9, <2>11
    <3>2. Owed(deposits[q]) <= held[q]
      BY <1>0 DEF FundsOK
    <3>3. Owed(deposits[q]) \in Nat
      BY <1>a, <2>1, OwedChange
    <3> QED
      BY <3>1, <3>2, <3>3
  <2> QED
    BY <1>0, <2>2, <2>9, <2>10, <2>11 DEF FundsInv, FundsOK
<1>4. CASE UNCHANGED <<pools, deposits, held, stored>>
  BY <1>0, <1>4 DEF FundsInv, FundsOK
<1>5. CASE VaultCommit
  <2>1. /\ UNCHANGED <<pools, deposits, held>>
        /\ stored'.pools = pools /\ stored'.deposits = deposits /\ stored'.held = held
    BY <1>5 DEF VaultCommit, Stored
  <2> QED
    BY <1>0, <2>1 DEF FundsInv, FundsOK
<1>6. CASE VaultAbort
  <2>1. /\ pools' = stored.pools /\ deposits' = stored.deposits /\ held' = stored.held
        /\ UNCHANGED stored
    BY <1>6 DEF VaultAbort
  <2> QED
    BY <1>0, <2>1 DEF FundsInv, FundsOK
<1>7. ASSUME NEW k \in PubKeys, NEW ix \in WithdrawCalls, NEW p \in Policies, NEW ttl \in Ttls,
             SignWithdrawal(k, ix, p.id, ttl)
      PROVE  UNCHANGED <<pools, deposits, held, stored>>
  BY <1>7 DEF SignWithdrawal
<1>8. ASSUME NEW a \in approvals, AttachProof(a)
      PROVE  UNCHANGED <<pools, deposits, held, stored>>
  BY <1>8 DEF AttachProof
<1> QED
  BY <1>1, <1>2, <1>3, <1>4, <1>5, <1>6, <1>7, <1>8 DEF VaultNext, allVars

-----------------------------------------------------------------------------
(* The theorems.                                                           *)

\* The invariant: what a user's record remembers of the user's withdrawals, and which
\* nonce their proofs had.
THEOREM VaultInvariance == VaultSpec => []VaultInv
  BY InitialRecords, VaultStep, PTL DEF VaultSpec

\* In a TimeLocked pool, no two withdrawals of a user within a cooldown without a
\* signature, for any interleaving of users, deposits and rolled back transactions.
THEOREM CooldownHolds == VaultSpec => []CooldownNeedsProof
<1>1. VaultInv => CooldownNeedsProof
  BY DEF VaultInv, WithdrawalsOK
<1> QED
  BY <1>1, VaultInvariance, PTL

\* In a Limit pool, no withdrawal without a signature inside an open drain window
\* and before the cooldown.
THEOREM DrainWindowHolds == VaultSpec => []DrainWindowNeedsProof
<1>1. VaultInv => DrainWindowNeedsProof
  BY DEF VaultInv, WithdrawalsOK
<1> QED
  BY <1>1, VaultInvariance, PTL

\* The one case in which a large withdrawal from a Limit pool needs no signature is
\* an open drain window after the cooldown.
THEOREM LargeWithdrawals == VaultSpec => []LargeNeedsProofOutsideWindow
<1>1. VaultInv => LargeNeedsProofOutsideWindow
  BY DEF VaultInv, WithdrawalsOK
<1> QED
  BY <1>1, VaultInvariance, PTL

\* A signature pays out at most once, and only what was signed.
THEOREM SignaturesPayOnce == VaultSpec => []SignaturePaysOnce
<1>1. VaultInv => SignaturePaysOnce
  BY DEF VaultInv, WithdrawalsOK
<1> QED
  BY <1>1, VaultInvariance, PTL

\* The status the landing page derives never shows trana.not_before.
THEOREM WindowsStaySmall == VaultSpec => []WindowStaysBelowLimit
<1>1. VaultInv => WindowStaysBelowLimit
  <2> SUFFICES ASSUME VaultInv, NEW p \in Pools, NEW u \in Wallets
               PROVE  ~(InWindow(deposits[p][u])
                        /\ deposits[p][u].window_withdrawn >= WITHDRAW_LIMIT)
    BY DEF WindowStaysBelowLimit, PolicyStatus
  <2>1. deposits[p][u] \in UserDeposits /\ WindowsSmall(deposits)
    BY DEF VaultInv, RecordsOK, RecordsTyped
  <2>2. deposits[p][u].window_withdrawn \in Nat /\ deposits[p][u].last_withdraw_at \in Nat
    BY <2>1 DEF UserDeposits
  <2> QED
    BY <2>1, <2>2, VaultAssumption DEF InWindow, WindowsSmall
<1> QED
  BY <1>1, VaultInvariance, PTL

\* The invariant with the pools' funds: what a pool owes is the sum of the records the
\* first invariant keeps track of.
THEOREM FundsInvariance == VaultSpec => []FundsInv
  BY InitialFunds, FundsStep, PTL DEF VaultSpec

\* Every pool holds at least what it owes all its users together, for any number of
\* users, pools, deposits and withdrawals, the ones back into a pool included, and
\* after any rolled back transaction.
THEOREM PoolsStaySolvent == VaultSpec => []Solvent
<1>1. FundsInv => Solvent
  BY DEF FundsInv, FundsOK, Solvent
<1> QED
  BY <1>1, FundsInvariance, PTL

\* No balance and no pool goes below zero.
THEOREM VaultStateTypes == VaultSpec => []VaultTypeOK
<1>1. FundsInv => VaultTypeOK
  <2> SUFFICES ASSUME FundsInv PROVE VaultTypeOK
    OBVIOUS
  <2>1. RecordsTyped(pools, deposits, withdrawals) /\ FundsOK(pools, deposits, held)
    BY DEF FundsInv, VaultInv, RecordsOK
  <2>2. pools \in [Pools -> [exists: BOOLEAN, kind: PoolKinds \cup {ZeroKey}]]
    <3>1. \A p \in Pools : pools[p] \in [exists: BOOLEAN, kind: PoolKinds \cup {ZeroKey}]
      BY <2>1 DEF RecordsTyped, FundsOK
    <3> QED
      BY <2>1, <3>1 DEF RecordsTyped
  <2> QED
    BY <2>1, <2>2 DEF VaultTypeOK, RecordsTyped, FundsOK, UserDeposits
<1> QED
  BY <1>1, FundsInvariance, PTL

=============================================================================
