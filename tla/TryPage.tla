------------------------------ MODULE TryPage ------------------------------
(***************************************************************************)
(* The "try" page of the landing app, for one connected wallet: its button *)
(* handlers as steps between awaits, the state they share (the credential  *)
(* kept in passkeyRef, the polled deposit, the lock of handleAuthSecure),  *)
(* the wallet, the device and the cluster.  Handlers overlap: nothing      *)
(* keeps a second click from starting while the first still waits.         *)
(*                                                                         *)
(* The programs are as much of trana_guard, trana_authority and the vault  *)
(* (a Limit pool) as decides whether a transaction of the page succeeds.   *)
(***************************************************************************)
EXTENDS Interface, Encodings, FiniteSets

CONSTANTS
  Slots,         \* handlers that may be under way at once
  Handlers,      \* the buttons there are
  MaxRuns,       \* bound: clicks that start a handler
  MaxNonce,      \* bound: proofs accepted
  MaxElsewhere   \* bound: things the wallet does outside the page

AllHandlers == {"withdraw", "deposit", "upgrade", "generate", "add", "secure"}

ASSUME PageAssumption ==
  /\ Handlers \subseteq AllHandlers
  /\ {MaxRuns, MaxNonce, MaxElsewhere} \subseteq Nat

VARIABLES
  chain,    \* the accounts of the wallet, and its latest transaction
  net,      \* transactions submitted, neither landed nor expired
  run,      \* the handler under way in each slot
  ref,      \* passkeyRef
  device,   \* credentials this device holds
  cache,    \* userDeposit.balance, as last polled
  lock,     \* authRunning
  started, elsewhere

vars == <<chain, net, run, ref, device, cache, lock, started, elsewhere>>

-----------------------------------------------------------------------------

Limit   == 2                  \* WITHDRAW_LIMIT
Funds   == 3                  \* what the wallet has, in hand and deposited
Own     == MaxRuns + 1        \* this device's credential, registered earlier
Backup  == MaxRuns + 2        \* a credential of another device
\* A run names the credential it creates after itself.
Creds   == 0..Backup

Idle == [handler |-> "none", id |-> 0, pc |-> "done", amount |-> 0, cred |-> 0,
         made |-> 0, key |-> 0, nonce |-> 0, policy |-> "none", good |-> TRUE,
         result |-> "none", claim |-> "none", calm |-> TRUE]

\* first: the bytes where a registry's first entry is, current or left behind.
Ledger(keys, owner) ==
  [registered |-> keys # <<>>, keys |-> keys, first |-> IF keys = <<>> THEN 0 ELSE keys[1],
   nonce |-> 0, purse |-> 1, balance |-> Funds - 1, window |-> FALSE, cooling |-> FALSE,
   record |-> owner = "record", authority |-> owner, version |-> 0, recent |-> "old"]

Init ==
  /\ chain \in {Ledger(<<>>, "wallet"), Ledger(<<Own>>, "wallet"),
                Ledger(<<Own>>, "record")}
  /\ net = {}
  /\ run = [h \in Slots |-> Idle]
  /\ ref = chain.first
  /\ device = {Own}
  /\ cache = chain.balance
  /\ lock = FALSE
  /\ started = 0 /\ elsewhere = 0

-----------------------------------------------------------------------------
(* The programs.                                                           *)

\* withdraw's policy, and the one enforce then asks a proof for.
Demand(c, amount) ==
  IF c.window
  THEN IF c.cooling THEN "trana.not_before" ELSE "none"
  ELSE IF amount >= Limit THEN "trana.limit" ELSE "none"

Asked(c, tx) ==
  CASE tx.handler = "withdraw" -> Demand(c, tx.amount)
    [] tx.handler \in {"upgrade", "add"} -> "trana.require"
    [] OTHER -> "none"

Ix(handler) ==
  CASE handler = "withdraw" -> WithdrawPageIx
    [] handler = "deposit"  -> DepositPageIx
    [] handler = "upgrade"  -> ExecuteUpgradeClientIx
    [] handler = "add"      -> AddPageIx
    [] handler = "secure"   -> RegisterClientIx
    [] handler = "register" -> RegisterPageIx

Reaches == {h \in (AllHandlers \ {"generate"}) \cup {"register"} : Dispatched(Ix(h))}
Checks  == {h \in {"withdraw", "upgrade", "add"} : Verifiable(SdkProof(Ix(h)), Ix(h))}

\* The guard's verification of a proof that goes with the transaction.
Approved(c, tx) ==
  \/ Asked(c, tx) = "none"
  \/ /\ tx.policy = Asked(c, tx)
     /\ tx.handler \in Checks /\ tx.good
     /\ \E i \in DOMAIN c.keys : c.keys[i] = tx.key
     /\ tx.nonce = c.nonce

Permitted(c, tx) ==
  CASE tx.handler = "withdraw" -> c.registered /\ c.balance >= tx.amount
    [] tx.handler = "deposit"  -> c.purse >= tx.amount
    [] tx.handler = "upgrade"  -> c.record /\ c.authority = "record"
    [] tx.handler = "add"      -> c.registered
    [] tx.handler = "register" -> c.keys = <<>>
    [] tx.handler = "secure"   -> ~c.record /\ c.authority = "wallet"

Succeeds(c, tx) ==
  /\ tx.handler \in Reaches
  /\ Approved(c, tx)
  /\ Permitted(c, tx)

WithKeys(c, keys) ==
  [c EXCEPT !.keys = keys, !.registered = TRUE,
            !.first = IF keys = <<>> THEN @ ELSE keys[1]]

\* Variant: the deposit keeps what was paid out.
BalanceKept(c, amount) == [c EXCEPT !.purse = @ + amount]

AfterWithdrawal(c, amount) ==
  LET proofUsed == c.window \/ amount >= Limit
  IN [c EXCEPT !.balance = @ - amount, !.purse = @ + amount,
               !.window = ~proofUsed, !.cooling = ~proofUsed]

\* Variant: the page's transaction sets the authority without registering the record.
AuthorityAlone(c) == [c EXCEPT !.authority = "record"]

\* register and the loader's SetAuthority are in one transaction.
Secured(c) == [c EXCEPT !.record = TRUE, !.authority = "record"]

After(c, tx) ==
  LET d == [c EXCEPT !.nonce = IF Asked(c, tx) = "none" THEN @ ELSE @ + 1] IN
  CASE tx.handler = "withdraw" -> AfterWithdrawal(d, tx.amount)
    [] tx.handler = "deposit"  -> [d EXCEPT !.purse = @ - tx.amount,
                                            !.balance = @ + tx.amount]
    [] tx.handler = "upgrade"  -> [d EXCEPT !.version = 1]
    [] tx.handler = "add"      -> WithKeys(d, Append(d.keys, tx.made))
    [] tx.handler = "register" -> WithKeys(d, <<tx.made>>)
    [] tx.handler = "secure"   -> Secured(d)

-----------------------------------------------------------------------------
(* Steps all handlers share.                                               *)

At(h, pc) == run[h].pc = pc

\* Whatever changes what other handlers have read ends their calm.
Disturbed(h) ==
  [x \in Slots |-> IF x = h THEN run[x] ELSE [run[x] EXCEPT !.calm = FALSE]]

Go(h, r) ==
  /\ run' = [run EXCEPT ![h] = r]
  /\ UNCHANGED <<chain, net, ref, device, cache, lock, started, elsewhere>>

GoTo(h, pc) == Go(h, [run[h] EXCEPT !.pc = pc])

\* passkeyRef is assigned.
GoWithRef(h, r, cred) ==
  /\ ref' = cred
  /\ run' = IF cred = ref THEN [run EXCEPT ![h] = r] ELSE [Disturbed(h) EXCEPT ![h] = r]
  /\ UNCHANGED <<chain, net, cache, lock, started, elsewhere>>

\* Variant: an early return of handleAuthSecure keeps the lock.
UnlockedLate(h) == lock /\ (run[h].handler # "secure" \/ run[h].pc = "authority")

\* The lock is released on every path out of handleAuthSecure.
Unlocked(h) == lock /\ run[h].handler # "secure"

Ended(h, claim) == [Idle EXCEPT !.claim = claim]

End(h, claim) ==
  /\ run' = [run EXCEPT ![h] = Ended(h, claim)]
  /\ lock' = Unlocked(h)
  /\ UNCHANGED <<chain, net, ref, device, cache, started, elsewhere>>

Tx(r, handler) ==
  [handler |-> handler, id |-> r.id, amount |-> r.amount, made |-> r.made,
   key |-> r.key, nonce |-> r.nonce, policy |-> r.policy, good |-> r.good]

\* The wallet submits, whatever it then answers.
Submits(h, handler, r) ==
  /\ net' = net \cup {Tx(run[h], handler)}
  /\ run' = [run EXCEPT ![h] = r]
  /\ lock' = IF r.pc = "done" THEN Unlocked(h) ELSE lock
  /\ UNCHANGED <<chain, ref, device, cache, started, elsewhere>>

-----------------------------------------------------------------------------
(* A click, up to the handler's first await.                               *)

FirstStep(handler) ==
  CASE handler \in {"withdraw", "upgrade"} -> "look"
    [] handler = "deposit"  -> "send"
    [] handler = "generate" -> "create"
    [] handler = "add"      -> "first"
    [] handler = "secure"   -> "authority"

\* Variant: handleAuthSecure does not look at authRunning.
MayClickTwice(handler, amount) == handler = "withdraw" => cache >= amount

\* The checks made before anything is read from the cluster; the pool holds
\* every balance, so its own check adds nothing.
MayClick(handler, amount) ==
  /\ handler = "withdraw" => cache >= amount
  /\ handler = "secure" => ~lock

Click(h, handler, amount) ==
  /\ At(h, "done")
  /\ started < MaxRuns
  /\ MayClick(handler, amount)
  /\ started' = started + 1
  /\ run' = [run EXCEPT ![h] = [Idle EXCEPT !.handler = handler, !.amount = amount,
                                            !.id = started + 1, !.pc = FirstStep(handler)]]
  /\ lock' = (lock \/ handler = "secure")
  /\ UNCHANGED <<chain, net, ref, device, cache, elsewhere>>

-----------------------------------------------------------------------------
(* A credential and its registration: withdraw and upgrade.                *)

LooksForRegistry(h) ==
  /\ At(h, "look")
  /\ GoTo(h, IF chain.registered THEN "first" ELSE "create")

\* fetchFirstPasskey does not look at the number of entries.
FirstPasskey(c) == c.first

\* What the handler does once it has a credential.
Provided(r, cred) ==
  IF r.handler = "withdraw"
  THEN [r EXCEPT !.pc = "simulate"]
  ELSE [r EXCEPT !.pc = "nonce", !.cred = cred, !.policy = "trana.require"]

ReadsFirstPasskey(h) ==
  /\ At(h, "first")
  /\ \/ /\ run[h].handler = "add" /\ ~chain.registered
        /\ End(h, "err")
     \/ /\ chain.registered
        /\ UNCHANGED device
        /\ GoWithRef(h, IF run[h].handler = "add" THEN [run[h] EXCEPT !.pc = "create"]
                        ELSE Provided(run[h], FirstPasskey(chain)),
                     FirstPasskey(chain))

\* The device creates a credential, or the user declines.
DeclinesCredential(h) == At(h, "create") /\ End(h, "err")

CreatesCredential(h) ==
  /\ At(h, "create") /\ run[h].handler \in {"withdraw", "upgrade"}
  /\ device' = device \cup {run[h].id}
  /\ GoWithRef(h, [run[h] EXCEPT !.made = run[h].id, !.pc = "register"], run[h].id)

\* handleAddPasskey leaves passkeyRef alone until the key is registered.
CreatesSecond(h) ==
  /\ At(h, "create") /\ run[h].handler = "add"
  /\ device' = device \cup {run[h].id}
  /\ run' = [run EXCEPT ![h].made = run[h].id, ![h].policy = "trana.require",
                        ![h].pc = "nonce"]
  /\ UNCHANGED <<chain, net, ref, cache, lock, started, elsewhere>>

Generates(h) ==
  /\ At(h, "create") /\ run[h].handler = "generate"
  /\ device' = device \cup {run[h].id}
  /\ run' = [run EXCEPT ![h] = Ended(h, "ok")]
  /\ UNCHANGED <<chain, net, ref, cache, lock, started, elsewhere>>

SendsRegistration(h) ==
  /\ At(h, "register")
  /\ \/ End(h, "err")
     \/ Submits(h, "register", [run[h] EXCEPT !.pc = "registering"])
     \/ Submits(h, "register", Ended(h, "err"))

\* An error, an expiry and a lost connection all throw.
RegistrationConfirmed(h) ==
  /\ At(h, "registering")
  /\ \/ /\ run[h].result = "ok"
        /\ Go(h, Provided([run[h] EXCEPT !.result = "none"], ref))
     \/ End(h, "err")

-----------------------------------------------------------------------------
(* The proof.                                                              *)

\* Variant: every proof is made under the limit policy.
LimitOnly(demand) == "trana.limit"

\* The label found in the simulation's logs.
ProofPolicy(demand) ==
  IF demand = "trana.not_before" THEN "trana.not_before" ELSE "trana.limit"

\* The plain transaction is simulated; the credential is whatever passkeyRef holds then.
Simulates(h) ==
  LET r == run[h]
      demand == Demand(chain, r.amount)
  IN
  /\ At(h, "simulate")
  /\ \/ chain.balance < r.amount /\ End(h, "err")
     \/ chain.balance >= r.amount /\ demand = "none" /\ GoTo(h, "send")
     \/ /\ chain.balance >= r.amount /\ demand # "none"
        /\ Go(h, [r EXCEPT !.pc = "nonce", !.policy = ProofPolicy(demand), !.cred = ref])

ReadsNonce(h) ==
  /\ At(h, "nonce")
  /\ Go(h, [run[h] EXCEPT !.nonce = chain[PageNonce], !.pc = "sign"])

\* Whether the precompile takes what signIntent makes of a device's signature.
SignatureOutcomes ==
  {PrecompileAccepts(NormalizeLowS(DerToCompact(Der(rs))), rs) : rs \in Signatures}

\* The credential asked for, or any of this device's when none is named.
Allowed(r) == IF r.handler = "add" THEN device ELSE device \cap {r.cred}

Signs(h) ==
  /\ At(h, "sign")
  /\ \/ End(h, "err")
     \/ \E k \in Allowed(run[h]), good \in SignatureOutcomes :
          Go(h, [run[h] EXCEPT !.key = k, !.good = good,
                   !.pc = IF run[h].handler = "add" THEN "match" ELSE "send"])

\* The public key is looked up by the credential that signed.
MatchesKey(h) ==
  /\ At(h, "match")
  /\ IF \E i \in DOMAIN chain.keys : chain.keys[i] = run[h].key
     THEN GoTo(h, "send")
     ELSE End(h, "err")

-----------------------------------------------------------------------------
(* Sending and confirming.                                                 *)

ReadsAuthority(h) ==
  /\ At(h, "authority")
  /\ IF chain.authority = "wallet" THEN GoTo(h, "send") ELSE End(h, "err")

\* Sent without skipPreflight.
Preflighted == {"deposit", "secure"}

\* The wallet throws without a signature: withdraw looks further, the others give up.
Thrown(h) ==
  IF run[h].handler = "withdraw" THEN [run[h] EXCEPT !.pc = "recent"] ELSE Ended(h, "err")

WalletRefuses(h) ==
  /\ At(h, "send")
  /\ \/ run[h].handler = "withdraw" /\ Go(h, Thrown(h))
     \/ run[h].handler # "withdraw" /\ End(h, "err")

WalletSends(h) ==
  LET handler == run[h].handler IN
  /\ At(h, "send")
  /\ handler \in Preflighted => Succeeds(chain, Tx(run[h], handler))
  /\ \/ Submits(h, handler, [run[h] EXCEPT !.pc = "wait"])
     \/ Submits(h, handler, Thrown(h))

\* The wallet's latest transaction, if it is young and went through, is taken for ours.
ChecksRecent(h) ==
  /\ At(h, "recent")
  /\ run' = [run EXCEPT ![h] = Ended(h, IF chain.recent = "ok" THEN "ok" ELSE "err")]
  /\ cache' = IF chain.recent = "ok" THEN chain.balance ELSE cache
  /\ UNCHANGED <<chain, net, ref, device, lock, started, elsewhere>>

\* Variant: handleAddPasskey does not look at the error either.
UncheckedToo(r) ==
  IF r.result = "ok" \/ (r.handler \in {"deposit", "add"} /\ r.result = "error")
  THEN "ok" ELSE "err"

\* handleDeposit does not look at result.value.err.
ConfirmClaim(r) ==
  IF r.result = "ok" \/ (r.handler = "deposit" /\ r.result = "error")
  THEN "ok" ELSE "err"

\* confirmTransaction returns, or throws once the blockhash has expired.
Confirms(h) ==
  LET claim == ConfirmClaim(run[h]) IN
  /\ At(h, "wait")
  /\ run[h].result # "none"
  /\ run' = [IF run[h].handler = "add" /\ claim = "ok" THEN Disturbed(h) ELSE run
               EXCEPT ![h] = Ended(h, claim)]
  /\ ref' = IF run[h].handler = "add" /\ claim = "ok" THEN run[h].made ELSE ref
  /\ lock' = Unlocked(h)
  /\ cache' = IF run[h].handler \in {"withdraw", "add"} /\ claim = "ok"
              THEN chain.balance ELSE cache
  /\ UNCHANGED <<chain, net, device, started, elsewhere>>

\* The connection fails meanwhile: withdraw and upgrade look up the signature's status.
ConfirmThrows(h) ==
  /\ At(h, "wait")
  /\ End(h, IF run[h].handler \in {"withdraw", "upgrade"} /\ run[h].result = "ok"
            THEN "ok" ELSE "err")

-----------------------------------------------------------------------------
(* The cluster, and what the wallet does outside the page.                 *)

InBounds(c) == c.nonce <= MaxNonce

Settled(r, tx, res) ==
  [h \in Slots |-> IF r[h].id = tx.id THEN [r[h] EXCEPT !.result = res] ELSE r[h]]

\* Handlers other than the sender find the accounts changed.
Shaken(tx) ==
  [h \in Slots |-> IF run[h].id = tx.id THEN run[h] ELSE [run[h] EXCEPT !.calm = FALSE]]

Lands(tx) ==
  /\ net' = net \ {tx}
  /\ \/ /\ Succeeds(chain, tx) /\ InBounds(After(chain, tx))
        /\ chain' = [After(chain, tx) EXCEPT !.recent = "ok"]
        /\ run' = Settled(Shaken(tx), tx, "ok")
     \/ /\ ~Succeeds(chain, tx)
        /\ chain' = [chain EXCEPT !.recent = "error"]
        /\ run' = Settled(run, tx, "error")
  /\ UNCHANGED <<ref, device, cache, lock, started, elsewhere>>

Expires(tx) ==
  /\ net' = net \ {tx}
  /\ run' = Settled(run, tx, "expired")
  /\ UNCHANGED <<chain, ref, device, cache, lock, started, elsewhere>>

Changes(c) ==
  /\ c # chain
  /\ chain' = c
  /\ run' = [h \in Slots |-> [run[h] EXCEPT !.calm = FALSE]]
  /\ UNCHANGED <<net, ref, device, cache, lock, started>>

\* The cooldown and the window end, in either order; recent transactions age.
TimePasses ==
  /\ \E c \in {[chain EXCEPT !.cooling = FALSE],
               [chain EXCEPT !.window = FALSE, !.cooling = FALSE],
               [chain EXCEPT !.recent = "old"]} : Changes(c)
  /\ UNCHANGED elsewhere

\* Something this wallet does in another tab, on another device or with the CLI.
Elsewhere(c) ==
  /\ elsewhere < MaxElsewhere
  /\ elsewhere' = elsewhere + 1
  /\ InBounds(c)
  /\ Changes([c EXCEPT !.recent = "ok"])

\* Another session adds a key, removes this device's, or removes one id that all share.
KeysElsewhere ==
  /\ chain.keys # <<>>
  /\ \E keys \in {Append(chain.keys, Backup), <<Backup>>, <<>>} :
       Elsewhere([WithKeys(chain, keys) EXCEPT !.nonce = @ + 2])

RecoversElsewhere ==
  chain.registered /\ Elsewhere([WithKeys(chain, <<Backup>>) EXCEPT !.nonce = 0])

ReclaimsElsewhere ==
  /\ chain.record /\ chain.authority = "record" /\ chain.keys # <<>>
  /\ Elsewhere([chain EXCEPT !.record = FALSE, !.authority = "wallet", !.nonce = @ + 1])

SpendsElsewhere ==
  chain.purse > 0 /\ Elsewhere([chain EXCEPT !.purse = @ - 1])

Polls ==
  /\ cache # chain.balance
  /\ cache' = chain.balance
  /\ UNCHANGED <<chain, net, run, ref, device, lock, started, elsewhere>>

HandlerStep(h) ==
  \/ LooksForRegistry(h) \/ ReadsFirstPasskey(h)
  \/ DeclinesCredential(h) \/ CreatesCredential(h) \/ CreatesSecond(h) \/ Generates(h)
  \/ SendsRegistration(h) \/ RegistrationConfirmed(h)
  \/ Simulates(h) \/ ReadsNonce(h) \/ Signs(h) \/ MatchesKey(h)
  \/ ReadsAuthority(h) \/ WalletRefuses(h) \/ WalletSends(h)
  \/ ChecksRecent(h) \/ Confirms(h) \/ ConfirmThrows(h)

Next ==
  \/ \E h \in Slots : HandlerStep(h)
  \/ \E h \in Slots, handler \in Handlers, amount \in 1..Limit :
       /\ handler # "withdraw" => amount = 1
       /\ Click(h, handler, amount)
  \/ \E tx \in net : Lands(tx) \/ Expires(tx)
  \/ TimePasses \/ Polls
  \/ KeysElsewhere \/ RecoversElsewhere \/ ReclaimsElsewhere \/ SpendsElsewhere

Spec == Init /\ [][Next]_vars

-----------------------------------------------------------------------------
(* Properties.                                                             *)

(* Every account, transaction and handler is in a state the code can       *)
(* describe; funds never exceed what there was.                            *)
PageTypeOK ==
  /\ chain.keys \in Seq(Creds) /\ chain.first \in Creds
  /\ chain.nonce \in 0..MaxNonce
  /\ chain.purse \in 0..Funds /\ chain.balance \in 0..Funds
  /\ chain.purse + chain.balance <= Funds
  /\ chain.authority \in {"wallet", "record"} /\ chain.recent \in {"ok", "error", "old"}
  /\ ref \in Creds /\ device \subseteq Creds /\ cache \in 0..Funds
  /\ \A tx \in net : tx.id \in 1..started /\ tx.nonce \in 0..MaxNonce
  /\ \A h \in Slots :
       /\ run[h].pc \in {"look", "first", "create", "register", "registering",
                         "simulate", "nonce", "sign", "match", "authority", "send",
                         "recent", "wait", "done"}
       /\ run[h].claim \in {"none", "ok", "err"}

(* A handler that nobody interferes with makes a proof the guard accepts:  *)
(* as long as no other handler, session or clock changed what it read,     *)
(* its transaction in flight carries the right policy, the current nonce,  *)
(* a registered key and a signature the precompile takes.  Against a       *)
(* registry that was emptied fetchFirstPasskey still finds the old key,    *)
(* and the proof is refused.                                               *)
CalmProofsAccepted ==
  \A tx \in net : \A h \in Slots :
    (run[h].id = tx.id /\ run[h].calm /\ tx.handler # "register") =>
      Approved(chain, tx) \/ chain.keys = <<>>

(* Whoever can upgrade the program still can: the page hands the authority *)
(* to the record's address only together with registering the record, also *)
(* when a reclaim elsewhere came between its read and its transaction.     *)
PageKeepsRecord == chain.authority = "record" => chain.record

(* The lock of handleAuthSecure is held exactly while that handler runs:   *)
(* two never overlap, and no error path or early return leaves it behind.  *)
LockMatchesRun ==
  /\ lock <=> \E h \in Slots : run[h].handler = "secure"
  /\ \A g, h \in Slots :
       run[g].handler = "secure" /\ run[h].handler = "secure" => g = h

(* What the page shows is so.  "ok" means the transaction went through,    *)
(* save that a deposit's error is not looked at and that a withdrawal      *)
(* without a signature is judged by the wallet's latest transaction.       *)
(* "err" from a withdrawal or an upgrade whose signature is known means    *)
(* that it had not gone through.                                           *)
OutcomeTrue ==
  \A h \in Slots :
    LET r == run[h] IN
    (r.pc # "done" /\ run'[h].pc = "done") =>
      /\ run'[h].claim = "ok" =>
           \/ r.result = "ok"
           \/ r.handler = "generate"
           \/ r.handler = "deposit" /\ r.result = "error"
           \/ r.pc = "recent" /\ chain.recent = "ok"
      /\ (run'[h].claim = "err" /\ r.pc = "wait"
            /\ r.handler \in {"withdraw", "upgrade"}) => r.result # "ok"

OutcomesAreTrue == [][OutcomeTrue]_vars

=============================================================================
