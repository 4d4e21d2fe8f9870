-------------------------- MODULE AuthorityProofs ---------------------------
(***************************************************************************)
(* Theorems about trana_authority, for any number of wallets, programs,    *)
(* buffers and images, and transactions of any length.                     *)
(***************************************************************************)
EXTENDS TranaAuthority, TranaGuardProofs

-----------------------------------------------------------------------------
(* The inductive invariant.                                                *)

PlainOpsHere == {"register", "upgrade", "set_authority", "write", "set_buffer_authority"}

AuthorityInstructions ==
  Calls \cup [kind: {"call"}, program: {Authority, Loader}, op: PlainOpsHere,
              wallet: Wallets, arg: {NoArg}]
        \cup [kind: {"secp256r1"}, key: PubKeys, message: Intents]
        \cup [kind: {"record_proof"}, policy: PolicyIds, expiry: Nat, challenge: Intents]

\* The guard's part of a ledger.
GuardTyped(r, g, e) ==
  r \in [Wallets -> Registry] /\ g \in Seq(Events) /\ e \in [Wallets -> Nat]

EnvironmentTyped ==
  /\ tx \in Seq(AuthorityInstructions)
  /\ approvals \in SUBSET Approvals
  /\ clock \in [slot: Nat, time: Nat]

Actions == [op: {"execute_upgrade", "reclaim_authority"}, owner: Wallets,
            target: Targets, code: Codes]

\* The program's part: the types, and that a buffer in use holds an image.
AccountsTyped(rs, up, co, bs, as) ==
  /\ rs \subseteq Pdas
  /\ up \in [Targets -> Wallets \cup Pdas]
  /\ co \in [Targets -> Codes]
  /\ bs \in [Buffers -> [exists: BOOLEAN, code: Codes \cup {ZeroKey},
                         authority: Wallets \cup Pdas \cup {NoAuthority}]]
  /\ \A b \in Buffers : bs[b].exists => bs[b].code \in Codes
  /\ as \in Seq(Actions)

AuthorityInv ==
  /\ GuardTyped(registry, log, epoch)
  /\ GuardTyped(committed.registry, committed.log, committed.epoch)
  /\ EnvironmentTyped
  /\ AccountsTyped(records, upgrader, code, buffers, actions)
  /\ AccountsTyped(stored.records, stored.upgrader, stored.code, stored.buffers,
                   stored.actions)
  /\ ProofConsumedOnlyByAction

\* The parts a step of the loader or of a client leaves alone.
GuardPart ==
  /\ GuardTyped(registry, log, epoch)
  /\ GuardTyped(committed.registry, committed.log, committed.epoch)
  /\ ProofConsumedOnlyByAction

-----------------------------------------------------------------------------
(* Instructions.                                                           *)

LEMMA CallFacts ==
  ASSUME NEW ix \in ProtectedCalls
  PROVE  /\ ix \in Calls /\ ix \in AuthorityInstructions
         /\ ix.kind = "call" /\ ix.wallet \in Wallets
         /\ ix.arg \in UpgradeArgs \cup ReclaimArgs
         /\ ix.arg.target \in Targets
         /\ ix.arg.op = "execute_upgrade" => ix.arg.buffer \in Buffers
         /\ ix.arg.op = "reclaim_authority" => ix.arg.new_authority \in Wallets \cup Pdas
<1>1. ix \in Calls /\ ix.op = "protected"
  BY DEF ProtectedCalls
<1>2. ix \in [kind: {"call"}, program: Programs, op: {"protected"}, wallet: Wallets,
              arg: AppArgs]
  BY <1>1 DEF Calls
<1>3. ix.arg \in UpgradeArgs \cup ReclaimArgs
  BY <1>2, AuthorityAssumption
<1> QED
  BY <1>1, <1>2, <1>3 DEF AuthorityInstructions, UpgradeArgs, ReclaimArgs

LEMMA PlainFacts ==
  ASSUME EnvironmentTyped, NEW program \in {Authority, Loader}, NEW op \in PlainOpsHere,
         NEW w \in Wallets, Plain(program, op, w)
  PROVE  tx' \in Seq(AuthorityInstructions)
BY DEF EnvironmentTyped, Plain, PlainCall, AuthorityInstructions

\* A protected instruction that passed its checks: the guard has recorded one event
\* for exactly this instruction, of the record's owner.
LEMMA EnforcedEvent ==
  ASSUME GuardTyped(registry, log, epoch), EnvironmentTyped,
         NEW ix \in ProtectedCalls, ProofEnforced(ix)
  PROVE  \E v \in Events : /\ log' = Append(log, v)
                           /\ v.owner = ix.wallet
                           /\ v.intent.wallet = ix.wallet
                           /\ v.intent.ix = ix
                           /\ v.intent.nonce = registry[ix.wallet].nonce
                           /\ registry[ix.wallet].nonce < MaxNonce
                           /\ registry' = NonceConsumed(ix.wallet)
                           /\ registry' \in [Wallets -> Registry]
                           /\ tx' = Append(tx, ix)
                           /\ tx' \in Seq(AuthorityInstructions)
<1> DEFINE w     == ix.wallet
           t     == Append(tx, ix)
           v     == ProofVerified(t, w, w)
           proof == t[Len(t) - 1]
           secp  == t[Len(t) - 2]
<1>1. /\ w \in Wallets /\ ix \in AuthorityInstructions
      /\ tx \in Seq(AuthorityInstructions)
  BY CallFacts DEF EnvironmentTyped
<1>2. t \in Seq(AuthorityInstructions) /\ Current(t) = ix /\ tx' = t
  BY <1>1 DEF Current, ProofEnforced
<1>3. /\ ProofAccepted(t, w, w, "trana.require")
      /\ log' = Append(log, v)
      /\ registry' = NonceConsumed(w)
  BY <1>2 DEF ProofEnforced, Enforced, ProofRequired, ActionPolicy
<1>4. /\ Len(t) - 1 \in DOMAIN t /\ Len(t) - 2 \in DOMAIN t
      /\ proof.kind = "record_proof" /\ secp.kind = "secp256r1"
      /\ proof.challenge = Intent(w, "trana.require", Current(t), registry[w].nonce,
                                  proof.expiry)
      /\ registry[w].nonce < MaxNonce
  BY <1>2, <1>3 DEF ProofAccepted, NonceAvailable
<1>5. proof \in AuthorityInstructions /\ secp \in AuthorityInstructions
  BY <1>2, <1>4
<1>6. proof.challenge \in Intents /\ secp.key \in PubKeys
  BY <1>4, <1>5 DEF AuthorityInstructions, Calls
<1>7. /\ proof.challenge.wallet = w /\ proof.challenge.ix = ix
      /\ proof.challenge.nonce = registry[w].nonce
  BY <1>2, <1>4 DEF Intent
<1>8. v = [owner |-> w, registry |-> w, key |-> secp.key, intent |-> proof.challenge,
           epoch |-> epoch[w]]
  BY DEF ProofVerified
<1>9. epoch[w] \in Nat
  BY <1>1 DEF GuardTyped
<1> HIDE DEF proof, secp, v
<1>10. /\ v \in Events /\ v.owner = w /\ v.intent.wallet = w /\ v.intent.ix = ix
       /\ v.intent.nonce = registry[w].nonce
  BY <1>1, <1>6, <1>7, <1>8, <1>9 DEF Events
<1>11. registry' \in [Wallets -> Registry]
  BY <1>1, <1>3, <1>4, ConsumedType DEF GuardTyped
<1> QED
  BY <1>2, <1>3, <1>4, <1>10, <1>11

\* One more event with one more action of the same kind, owner and program.
LEMMA ActsOnAppended ==
  ASSUME log \in Seq(Events), actions \in Seq(Actions), ActsOn(log, actions),
         NEW v \in Events, NEW a \in Actions,
         v.intent.wallet = a.owner, v.intent.ix.arg.op = a.op,
         v.intent.ix.arg.target = a.target
  PROVE  ActsOn(Append(log, v), Append(actions, a))
BY DEF ActsOn

-----------------------------------------------------------------------------
(* Preservation.                                                           *)

\* Steps that leave the guard's ledger and the actions alone.
LEMMA GuardPartKept ==
  ASSUME GuardPart, UNCHANGED <<ledger, committed, actions, stored>>
  PROVE  GuardPart'
BY DEF GuardPart, GuardTyped, ledger, ProofConsumedOnlyByAction, ActsOn

LEMMA UpgradedTypes ==
  ASSUME AccountsTyped(records, upgrader, code, buffers, actions),
         NEW t \in Targets, NEW b \in Buffers, NEW holder, Upgraded(t, b, holder),
         NEW as \in Seq(Actions)
  PROVE  /\ AccountsTyped(records, upgrader', code', buffers', as)
         /\ buffers[b].code \in Codes
BY DEF AccountsTyped, Upgraded, NoBuffer

LEMMA AuthorityInitInv == AuthorityInit => AuthorityInv
<1> SUFFICES ASSUME AuthorityInit PROVE AuthorityInv
  OBVIOUS
<1>1. PICK e \in Entry : registry = [w \in Wallets |-> [exists |-> TRUE, owner |-> w,
                                       nonce |-> 0, keys |-> Pushed(<<>>, e)]]
  BY DEF AuthorityInit
<1>2. Pushed(<<>>, e) \in Keys
  BY NoKeysType, PushedType, FS_EmptySet, ConstantsAssumption
<1>3. GuardTyped(registry, log, epoch)
  BY <1>1, <1>2, ConstantsAssumption DEF AuthorityInit, GuardTyped, Registry
<1>4. EnvironmentTyped
  BY DEF AuthorityInit, EnvironmentTyped
<1>5. AccountsTyped(records, upgrader, code, buffers, actions)
  <2>1. NoBuffer \in [exists: BOOLEAN, code: Codes \cup {ZeroKey},
                      authority: Wallets \cup Pdas \cup {NoAuthority}] /\ ~NoBuffer.exists
    BY DEF NoBuffer
  <2> QED
    BY <2>1 DEF AuthorityInit, AccountsTyped
<1>6. ActsOn(log, actions)
  BY DEF AuthorityInit, ActsOn
<1>7. /\ committed.registry = registry /\ committed.log = log /\ committed.epoch = epoch
      /\ stored.records = records /\ stored.upgrader = upgrader /\ stored.code = code
      /\ stored.buffers = buffers /\ stored.actions = actions
  BY DEF AuthorityInit, Stored
<1> QED
  BY <1>3, <1>4, <1>5, <1>6, <1>7 DEF AuthorityInv, ProofConsumedOnlyByAction

LEMMA AuthorityStepInv == AuthorityInv /\ [AuthorityNext]_allVars => AuthorityInv'
<1> SUFFICES ASSUME AuthorityInv, [AuthorityNext]_allVars PROVE AuthorityInv'
  OBVIOUS
<1> DEFINE StoredTyped == AccountsTyped(stored.records, stored.upgrader, stored.code,
                                        stored.buffers, stored.actions)
           AllTyped == AccountsTyped(records, upgrader, code, buffers, actions)
<1>0. /\ GuardPart /\ EnvironmentTyped /\ AllTyped /\ StoredTyped
      /\ GuardTyped(registry, log, epoch)
      /\ GuardTyped(committed.registry, committed.log, committed.epoch)
      /\ ActsOn(log, actions) /\ ActsOn(committed.log, stored.actions)
  BY DEF AuthorityInv, GuardPart, ProofConsumedOnlyByAction
<1>a. ASSUME GuardPart', EnvironmentTyped', AllTyped', StoredTyped' PROVE AuthorityInv'
  BY <1>a DEF AuthorityInv, GuardPart
<1>b. ASSUME UNCHANGED <<ledger, committed, approvals, clock, actions, stored>>,
             tx' \in Seq(AuthorityInstructions), AllTyped'
      PROVE  AuthorityInv'
  BY <1>0, <1>a, <1>b, GuardPartKept DEF EnvironmentTyped, ledger
<1>1. ASSUME NEW w \in Wallets, NEW t \in Targets, NEW b \in Buffers, DirectUpgrade(w, t, b)
      PROVE  AuthorityInv'
  <2>1. tx' \in Seq(AuthorityInstructions)
    BY <1>0, <1>1, PlainFacts DEF DirectUpgrade, PlainOpsHere
  <2>2. AccountsTyped(records, upgrader', code', buffers', actions)
    BY <1>0, <1>1, UpgradedTypes DEF DirectUpgrade, AccountsTyped
  <2> QED
    BY <1>1, <1>b, <2>1, <2>2 DEF DirectUpgrade, AccountsTyped
<1>2. ASSUME NEW w \in Wallets, NEW t \in Targets, NEW new \in Wallets \cup Pdas,
             SetUpgradeAuthority(w, t, new)
      PROVE  AuthorityInv'
  <2>1. tx' \in Seq(AuthorityInstructions)
    BY <1>0, <1>2, PlainFacts DEF SetUpgradeAuthority, PlainOpsHere
  <2>2. AllTyped'
    BY <1>0, <1>2 DEF SetUpgradeAuthority, HandedOver, AccountsTyped
  <2> QED
    BY <1>2, <1>b, <2>1, <2>2 DEF SetUpgradeAuthority
<1>3. ASSUME NEW w \in Wallets, NEW b \in Buffers, NEW c \in Codes, WriteBuffer(w, b, c)
      PROVE  AuthorityInv'
  <2>1. tx' \in Seq(AuthorityInstructions)
    BY <1>0, <1>3, PlainFacts DEF WriteBuffer, PlainOpsHere
  <2>2. AllTyped'
    BY <1>0, <1>3 DEF WriteBuffer, AccountsTyped
  <2> QED
    BY <1>3, <1>b, <2>1, <2>2 DEF WriteBuffer
<1>4. ASSUME NEW w \in Wallets, NEW b \in Buffers, NEW new \in Wallets \cup Pdas,
             SetBufferAuthority(w, b, new)
      PROVE  AuthorityInv'
  <2>1. tx' \in Seq(AuthorityInstructions)
    BY <1>0, <1>4, PlainFacts DEF SetBufferAuthority, PlainOpsHere
  <2>2. AllTyped'
    BY <1>0, <1>4 DEF SetBufferAuthority, AccountsTyped
  <2> QED
    BY <1>4, <1>b, <2>1, <2>2 DEF SetBufferAuthority
<1>5. ASSUME NEW w \in Wallets, NEW t \in Targets, Register(w, t)
      PROVE  AuthorityInv'
  <2>1. tx' \in Seq(AuthorityInstructions)
    BY <1>0, <1>5, PlainFacts DEF Register, PlainOpsHere
  <2>2. AllTyped'
    BY <1>0, <1>5 DEF Register, AccountsTyped, loader, Pdas
  <2> QED
    BY <1>5, <1>b, <2>1, <2>2 DEF Register
<1>6. ASSUME NEW ix \in ProtectedCalls, ExecuteUpgrade(ix)
      PROVE  AuthorityInv'
  <2>1. PICK v \in Events : /\ log' = Append(log, v)
                            /\ v.intent.wallet = ix.wallet
                            /\ v.intent.ix = ix
                            /\ registry' \in [Wallets -> Registry]
                            /\ tx' \in Seq(AuthorityInstructions)
    BY <1>0, <1>6, EnforcedEvent DEF ExecuteUpgrade
  <2>2. /\ ix.wallet \in Wallets /\ ix.arg.target \in Targets /\ ix.arg.buffer \in Buffers
        /\ ix.arg.op = "execute_upgrade"
    BY <1>6, CallFacts DEF ExecuteUpgrade
  <2>3. /\ Upgraded(ix.arg.target, ix.arg.buffer, Pda(ix.wallet, ix.arg.target))
        /\ actions' = Append(actions, UpgradeEvent(ix))
        /\ UNCHANGED <<records, epoch, committed, approvals, clock, stored>>
    BY <1>6 DEF ExecuteUpgrade, UpgradeInvoked, ProofEnforced
  <2>4. buffers[ix.arg.buffer].code \in Codes /\ actions \in Seq(Actions)
    BY <1>0, <2>2, <2>3, UpgradedTypes DEF AccountsTyped
  <2>5. UpgradeEvent(ix) \in Actions
    BY <2>2, <2>4 DEF UpgradeEvent, Actions
  <2>6. actions' \in Seq(Actions)
    BY <2>3, <2>4, <2>5
  <2>7. AllTyped'
    BY <1>0, <2>2, <2>3, <2>6, UpgradedTypes DEF AccountsTyped
  <2>8. ActsOn(log', actions')
    <3>1. /\ UpgradeEvent(ix).owner = ix.wallet
          /\ UpgradeEvent(ix).op = "execute_upgrade"
          /\ UpgradeEvent(ix).target = ix.arg.target
      BY DEF UpgradeEvent
    <3>2. log \in Seq(Events)
      BY <1>0 DEF GuardTyped
    <3> QED
      BY <1>0, <2>1, <2>2, <2>3, <2>4, <2>5, <3>1, <3>2, ActsOnAppended
  <2>9. GuardPart'
    BY <1>0, <2>1, <2>3, <2>8 DEF GuardPart, GuardTyped, ProofConsumedOnlyByAction
  <2> QED
    BY <1>0, <1>a, <2>1, <2>3, <2>7, <2>9 DEF EnvironmentTyped
<1>7. ASSUME NEW ix \in ProtectedCalls, ReclaimAuthority(ix)
      PROVE  AuthorityInv'
  <2> DEFINE a == [op |-> "reclaim_authority", owner |-> ix.wallet,
                   target |-> ix.arg.target, code |-> code[ix.arg.target]]
  <2>1. PICK v \in Events : /\ log' = Append(log, v)
                            /\ v.intent.wallet = ix.wallet
                            /\ v.intent.ix = ix
                            /\ registry' \in [Wallets -> Registry]
                            /\ tx' \in Seq(AuthorityInstructions)
    BY <1>0, <1>7, EnforcedEvent DEF ReclaimAuthority
  <2>2. /\ ix.wallet \in Wallets /\ ix.arg.target \in Targets
        /\ ix.arg.new_authority \in Wallets \cup Pdas
        /\ ix.arg.op = "reclaim_authority"
    BY <1>7, CallFacts DEF ReclaimAuthority
  <2>3. /\ HandedOver(ix.arg.target, Pda(ix.wallet, ix.arg.target), ix.arg.new_authority)
        /\ actions' = Append(actions, a)
        /\ records' = records \ {Pda(ix.wallet, ix.arg.target)}
        /\ UNCHANGED <<epoch, committed, approvals, clock, stored>>
    BY <1>7 DEF ReclaimAuthority, ProofEnforced
  <2>4. a \in Actions /\ actions \in Seq(Actions)
    BY <1>0, <2>2 DEF AccountsTyped, Actions
  <2>5. a.owner = ix.wallet /\ a.op = "reclaim_authority" /\ a.target = ix.arg.target
    OBVIOUS
  <2> HIDE DEF a
  <2>6. AllTyped'
    <3>1. upgrader' \in [Targets -> Wallets \cup Pdas] /\ UNCHANGED <<code, buffers>>
      BY <1>0, <2>2, <2>3 DEF HandedOver, AccountsTyped
    <3>2. actions' \in Seq(Actions)
      BY <2>3, <2>4
    <3> QED
      BY <1>0, <2>3, <3>1, <3>2 DEF AccountsTyped
  <2>7. ActsOn(log', actions')
    <3>1. log \in Seq(Events)
      BY <1>0 DEF GuardTyped
    <3> QED
      BY <1>0, <2>1, <2>2, <2>3, <2>4, <2>5, <3>1, ActsOnAppended
  <2>8. GuardPart'
    BY <1>0, <2>1, <2>3, <2>7 DEF GuardPart, GuardTyped, ProofConsumedOnlyByAction
  <2> QED
    BY <1>0, <1>a, <2>1, <2>3, <2>6, <2>8 DEF EnvironmentTyped
<1>8. ASSUME NEW k \in PubKeys, NEW ix \in ProtectedCalls, NEW ttl \in Ttls,
             SignAction(k, ix, ttl)
      PROVE  AuthorityInv'
  <2>1. /\ approvals' = approvals \cup
                          {[key |-> k, intent |-> BuildIntent(ix, ActionPolicy.id, ttl)]}
        /\ UNCHANGED <<ledger, committed, tx, clock, accounts, stored>>
    BY <1>8 DEF SignAction, Approve
  <2>2. BuildIntent(ix, ActionPolicy.id, ttl) \in Intents
    <3>1. ix \in Calls /\ ix.wallet \in Wallets
      BY CallFacts
    <3>2. committed.registry[ix.wallet].nonce \in 0..MaxNonce
      BY <1>0, <3>1 DEF GuardTyped, Registry
    <3>3. clock.time + ttl \in Nat
      BY <1>0, ConstantsAssumption DEF EnvironmentTyped
    <3> QED
      BY <3>1, <3>2, <3>3 DEF BuildIntent, Intent, Intents, ActionPolicy, PolicyIds
  <2>3. approvals' \in SUBSET Approvals
    BY <1>0, <2>1, <2>2 DEF EnvironmentTyped, Approvals
  <2>4. GuardPart'
    BY <1>0, <2>1, GuardPartKept DEF accounts
  <2> QED
    BY <1>0, <1>a, <2>1, <2>3, <2>4 DEF EnvironmentTyped, accounts, loader
<1>9. ASSUME NEW a \in approvals, AttachProof(a)
      PROVE  AuthorityInv'
  <2>1. a \in Approvals
    BY <1>0 DEF EnvironmentTyped
  <2>2. a.key \in PubKeys /\ a.intent \in Intents
    BY <2>1 DEF Approvals
  <2>3. a.intent.policy \in PolicyIds /\ a.intent.expiry \in Nat
    BY <2>2 DEF Intents
  <2>4. ProofIxs(a) \in Seq(AuthorityInstructions)
    <3>1. Secp256r1Ix(a.key, a.intent) \in AuthorityInstructions
      BY <2>2 DEF Secp256r1Ix, AuthorityInstructions
    <3>2. RecordProofIx(a.intent.policy, a.intent.expiry, a.intent) \in AuthorityInstructions
      BY <2>2, <2>3 DEF RecordProofIx, AuthorityInstructions
    <3> QED
      BY <3>1, <3>2 DEF ProofIxs
  <2>5. tx' \in Seq(AuthorityInstructions)
    BY <1>0, <1>9, <2>4 DEF AttachProof, EnvironmentTyped
  <2> QED
    BY <1>0, <1>9, <1>b, <2>5 DEF AttachProof, authorityVars, accounts, loader
<1>10. CASE AuthorityCommit
  <2>1. /\ committed' = [config |-> config, registry |-> registry, lamports |-> lamports,
                         log |-> log, epoch |-> epoch]
        /\ stored' = Stored /\ tx' = <<>>
        /\ UNCHANGED <<registry, log, epoch, approvals, clock, records, upgrader, code,
                       buffers, actions>>
    BY <1>10 DEF AuthorityCommit, Commit, ledger, accounts, loader
  <2>2. EnvironmentTyped'
    BY <1>0, <2>1 DEF EnvironmentTyped
  <2>3. GuardPart'
    BY <1>0, <2>1 DEF GuardPart, ProofConsumedOnlyByAction, Stored
  <2>4. StoredTyped' /\ AllTyped'
    BY <1>0, <2>1 DEF Stored
  <2> QED
    BY <1>a, <2>2, <2>3, <2>4
<1>11. CASE AuthorityAbort
  <2>1. /\ registry' = committed.registry /\ log' = committed.log /\ epoch' = committed.epoch
        /\ records' = stored.records /\ upgrader' = stored.upgrader
        /\ code' = stored.code /\ buffers' = stored.buffers /\ actions' = stored.actions
        /\ tx' = <<>>
        /\ UNCHANGED <<committed, approvals, clock, stored>>
    BY <1>11 DEF AuthorityAbort, Abort
  <2>2. EnvironmentTyped'
    BY <1>0, <2>1 DEF EnvironmentTyped
  <2>3. GuardPart'
    BY <1>0, <2>1 DEF GuardPart, ProofConsumedOnlyByAction
  <2>4. StoredTyped' /\ AllTyped'
    BY <1>0, <2>1
  <2> QED
    BY <1>a, <2>2, <2>3, <2>4
<1>12. CASE UNCHANGED allVars
  BY <1>0, <1>12, <1>b DEF allVars, vars, authorityVars, accounts, loader, EnvironmentTyped
<1> QED
  BY <1>1, <1>2, <1>3, <1>4, <1>5, <1>6, <1>7, <1>8, <1>9, <1>10, <1>11, <1>12
     DEF AuthorityNext

THEOREM AuthorityInvariance == AuthoritySpec => []AuthorityInv
BY AuthorityInitInv, AuthorityStepInv, PTL DEF AuthoritySpec

\* Records, authorities, images, buffers and events keep their types.
THEOREM AuthorityTypes == AuthoritySpec => []AuthorityTypeOK
<1>1. AuthorityInv => AuthorityTypeOK
  BY DEF AuthorityInv, AccountsTyped, AuthorityTypeOK, Actions
<1> QED
  BY <1>1, AuthorityInvariance, PTL

\* A proof is consumed exactly when the loader carried out what it names.
THEOREM ProofBuysAction == AuthoritySpec => []ProofConsumedOnlyByAction
<1>1. AuthorityInv => ProofConsumedOnlyByAction
  BY DEF AuthorityInv
<1> QED
  BY <1>1, AuthorityInvariance, PTL

-----------------------------------------------------------------------------
(* What a transaction may do to a program's code and authority.            *)

\* Events since the last commit.
EventsSince == {log[i] : i \in Len(committed.log) + 1 .. Len(log)}

\* AuthorityRespected, for the working accounts at any point of a transaction.
Respected(t) ==
  \/ code[t] = stored.code[t] /\ upgrader[t] = stored.upgrader[t]
  \/ \E w \in Wallets : stored.upgrader[t] = w /\ LoaderCalledBy(w)
  \/ AuthorizedChange(EventsSince, t, stored.upgrader[t], upgrader[t])

WorkingRespects ==
  /\ Len(committed.log) <= Len(log)
  /\ \A t \in Targets : Respected(t)

\* A step inside a transaction only adds events and instructions.
TransactionGoesOn ==
  /\ UNCHANGED <<committed, stored>>
  /\ EventsSince \subseteq EventsSince'
  /\ \A w : LoaderCalledBy(w) => LoaderCalledBy(w)'

LEMMA LaterCalls ==
  ASSUME EnvironmentTyped, NEW x \in AuthorityInstructions, tx' = Append(tx, x)
  PROVE  /\ \A w : LoaderCalledBy(w) => LoaderCalledBy(w)'
         /\ x.kind = "call" /\ x.program = Loader => LoaderCalledBy(x.wallet)'
<1>1. /\ \A i \in DOMAIN tx : i \in DOMAIN tx' /\ tx'[i] = tx[i]
      /\ Len(tx) + 1 \in DOMAIN tx' /\ tx'[Len(tx) + 1] = x
  BY DEF EnvironmentTyped
<1> QED
  BY <1>1 DEF LoaderCalledBy

\* A transaction with the same events and one more instruction that no passkey signs.
LEMMA PlainGoesOn ==
  ASSUME EnvironmentTyped, NEW program \in {Authority, Loader}, NEW op \in PlainOpsHere,
         NEW w \in Wallets, Plain(program, op, w), UNCHANGED <<log, committed, stored>>
  PROVE  TransactionGoesOn /\ (program = Loader => LoaderCalledBy(w)')
<1>1. /\ PlainCall(program, op, w) \in AuthorityInstructions
      /\ tx' = Append(tx, PlainCall(program, op, w))
  BY DEF Plain, PlainCall, AuthorityInstructions
<1>2. /\ PlainCall(program, op, w).kind = "call"
      /\ PlainCall(program, op, w).program = program
      /\ PlainCall(program, op, w).wallet = w
  BY DEF PlainCall
<1> QED
  BY <1>1, <1>2, LaterCalls DEF TransactionGoesOn, EventsSince

\* One more event, in a transaction with one more instruction.
LEMMA ProofGoesOn ==
  ASSUME EnvironmentTyped, log \in Seq(Events), committed.log \in Seq(Events),
         Len(committed.log) <= Len(log), NEW x \in AuthorityInstructions,
         tx' = Append(tx, x), NEW v \in Events, log' = Append(log, v),
         UNCHANGED <<committed, stored>>
  PROVE  TransactionGoesOn /\ v \in EventsSince' /\ Len(committed'.log) <= Len(log')
<1>1. /\ \A i \in 1..Len(log) : log'[i] = log[i]
      /\ log'[Len(log) + 1] = v /\ Len(log') = Len(log) + 1
      /\ Len(log) \in Nat /\ Len(committed.log) \in Nat
  OBVIOUS
<1>2. EventsSince \subseteq EventsSince' /\ v \in EventsSince'
  BY <1>1 DEF EventsSince
<1> QED
  BY <1>1, <1>2, LaterCalls DEF TransactionGoesOn

\* A program nothing happens to.
LEMMA RespectedKept ==
  ASSUME NEW t \in Targets, Respected(t), TransactionGoesOn,
         code'[t] = code[t], upgrader'[t] = upgrader[t]
  PROVE  Respected(t)'
BY DEF Respected, TransactionGoesOn, AuthorizedChange, NamedBy, HandsOver

\* The wallet that holds a program's authority does what it likes by the loader.
LEMMA RespectedByWallet ==
  ASSUME NEW t \in Targets, Respected(t), TransactionGoesOn,
         NEW w \in Wallets, upgrader[t] = w, LoaderCalledBy(w)'
  PROVE  Respected(t)'
<1>1. CASE stored.upgrader[t] = w
  BY <1>1 DEF Respected, TransactionGoesOn
<1>2. CASE \E x \in Wallets : stored.upgrader[t] = x /\ LoaderCalledBy(x)
  BY <1>2 DEF Respected, TransactionGoesOn
<1>3. CASE /\ stored.upgrader[t] # w
           /\ AuthorizedChange(EventsSince, t, stored.upgrader[t], upgrader[t])
  <2>1. PICK o \in EventsSince : /\ stored.upgrader[t] = Pda(o.owner, t)
                                 /\ o.intent.ix.arg.target = t
                                 /\ HandsOver(o, t)
    BY <1>3 DEF AuthorizedChange
  <2>2. PICK v \in EventsSince : HandsOver(v, t) /\ NamedBy(v, upgrader[t])
    BY <1>3 DEF AuthorizedChange
  <2>3. o \in EventsSince' /\ v \in EventsSince' /\ stored'.upgrader = stored.upgrader
    BY DEF TransactionGoesOn
  <2>4. LoaderCalledBy(v.intent.ix.arg.new_authority)'
    BY <2>2 DEF NamedBy, TransactionGoesOn
  <2>5. NamedBy(v, upgrader[t])'
    BY <2>4 DEF NamedBy
  <2> QED
    BY <2>1, <2>2, <2>3, <2>5 DEF Respected, AuthorizedChange, HandsOver
<1> QED
  BY <1>1, <1>2, <1>3 DEF Respected

\* An accepted proof of the owner of the record that holds the program: for an upgrade,
\* or for a hand-over to the authority it names.
LEMMA RespectedByProof ==
  ASSUME NEW t \in Targets, Respected(t), TransactionGoesOn,
         NEW v \in EventsSince', upgrader[t] = Pda(v.owner, t),
         v.intent.ix.arg.target = t,
         \/ upgrader'[t] = upgrader[t]
         \/ HandsOver(v, t) /\ v.intent.ix.arg.new_authority = upgrader'[t]
  PROVE  Respected(t)'
<1>0. stored' = stored /\ EventsSince \subseteq EventsSince'
  BY DEF TransactionGoesOn
<1>1. CASE stored.upgrader[t] = upgrader[t]
  <2>1. CASE upgrader'[t] = upgrader[t]
    BY <1>0, <1>1, <2>1 DEF Respected, AuthorizedChange
  <2>2. CASE HandsOver(v, t) /\ v.intent.ix.arg.new_authority = upgrader'[t]
    BY <1>0, <1>1, <2>2 DEF Respected, AuthorizedChange, HandsOver, NamedBy
  <2> QED
    BY <2>1, <2>2
<1>2. CASE \E x \in Wallets : stored.upgrader[t] = x /\ LoaderCalledBy(x)
  BY <1>2 DEF Respected, TransactionGoesOn
<1>3. CASE /\ stored.upgrader[t] # upgrader[t]
           /\ AuthorizedChange(EventsSince, t, stored.upgrader[t], upgrader[t])
  <2>1. PICK o \in EventsSince : /\ stored.upgrader[t] = Pda(o.owner, t)
                                 /\ o.intent.ix.arg.target = t
                                 /\ HandsOver(o, t)
    BY <1>3 DEF AuthorizedChange
  <2>2. PICK u \in EventsSince : HandsOver(u, t) /\ NamedBy(u, upgrader[t])
    BY <1>3 DEF AuthorizedChange
  <2>3. o \in EventsSince' /\ u \in EventsSince'
    BY <1>0
  <2>4. CASE upgrader'[t] = upgrader[t]
    <3>1. NamedBy(u, upgrader[t])'
      BY <2>2, <2>4 DEF NamedBy, TransactionGoesOn
    <3> QED
      BY <1>0, <2>1, <2>2, <2>3, <3>1 DEF Respected, AuthorizedChange, HandsOver
  <2>5. CASE HandsOver(v, t) /\ v.intent.ix.arg.new_authority = upgrader'[t]
    <3>1. NamedBy(v, upgrader[t])'
      BY <2>5 DEF NamedBy
    <3> QED
      BY <1>0, <2>1, <2>3, <2>5, <3>1 DEF Respected, AuthorizedChange, HandsOver
  <2> QED
    BY <2>4, <2>5
<1> QED
  BY <1>1, <1>2, <1>3 DEF Respected

LEMMA RespectsStep ==
  AuthorityInv /\ WorkingRespects /\ [AuthorityNext]_allVars => WorkingRespects'
<1> SUFFICES ASSUME AuthorityInv, WorkingRespects, [AuthorityNext]_allVars
             PROVE  WorkingRespects'
  OBVIOUS
<1>0. /\ EnvironmentTyped /\ log \in Seq(Events) /\ committed.log \in Seq(Events)
      /\ upgrader \in [Targets -> Wallets \cup Pdas] /\ code \in [Targets -> Codes]
      /\ Len(committed.log) <= Len(log) /\ \A t \in Targets : Respected(t)
  BY DEF AuthorityInv, GuardTyped, AccountsTyped, WorkingRespects
<1>1. ASSUME TransactionGoesOn, UNCHANGED <<log, code, upgrader>>
      PROVE  WorkingRespects'
  <2>1. \A t \in Targets : Respected(t)'
    BY <1>0, <1>1, RespectedKept
  <2> QED
    BY <1>0, <1>1, <2>1 DEF WorkingRespects, TransactionGoesOn
<1>2. ASSUME NEW w \in Wallets, NEW t \in Targets, NEW b \in Buffers, DirectUpgrade(w, t, b)
      PROVE  WorkingRespects'
  <2>1. TransactionGoesOn /\ LoaderCalledBy(w)' /\ UNCHANGED <<log, committed>>
    BY <1>0, <1>2, PlainGoesOn DEF DirectUpgrade, PlainOpsHere, ledger
  <2>2. /\ upgrader[t] = w /\ upgrader' = upgrader
        /\ \A x \in Targets : x # t => code'[x] = code[x]
    BY <1>0, <1>2 DEF DirectUpgrade, Upgraded, IsUpgrader
  <2>3. ASSUME NEW x \in Targets PROVE Respected(x)'
    BY <1>0, <2>1, <2>2, RespectedKept, RespectedByWallet
  <2> QED
    BY <1>0, <2>1, <2>3 DEF WorkingRespects
<1>3. ASSUME NEW w \in Wallets, NEW t \in Targets, NEW new, SetUpgradeAuthority(w, t, new)
      PROVE  WorkingRespects'
  <2>1. TransactionGoesOn /\ LoaderCalledBy(w)' /\ UNCHANGED <<log, committed>>
    BY <1>0, <1>3, PlainGoesOn DEF SetUpgradeAuthority, PlainOpsHere, ledger
  <2>2. /\ upgrader[t] = w /\ code' = code
        /\ \A x \in Targets : x # t => upgrader'[x] = upgrader[x]
    BY <1>0, <1>3 DEF SetUpgradeAuthority, HandedOver, IsUpgrader
  <2>3. ASSUME NEW x \in Targets PROVE Respected(x)'
    BY <1>0, <2>1, <2>2, RespectedKept, RespectedByWallet
  <2> QED
    BY <1>0, <2>1, <2>3 DEF WorkingRespects
<1>4. ASSUME NEW w \in Wallets, NEW b, NEW c, WriteBuffer(w, b, c) \/ SetBufferAuthority(w, b, c)
      PROVE  WorkingRespects'
  <2>1. /\ TransactionGoesOn
        /\ UNCHANGED <<log, code, upgrader>>
    BY <1>0, <1>4, PlainGoesOn DEF WriteBuffer, SetBufferAuthority, PlainOpsHere, ledger
  <2> QED
    BY <1>1, <2>1
<1>5. ASSUME NEW w \in Wallets, NEW t \in Targets, Register(w, t)
      PROVE  WorkingRespects'
  <2>1. TransactionGoesOn /\ UNCHANGED <<log, code, upgrader>>
    BY <1>0, <1>5, PlainGoesOn DEF Register, PlainOpsHere, ledger, loader
  <2> QED
    BY <1>1, <2>1
<1>6. ASSUME NEW ix \in ProtectedCalls, ExecuteUpgrade(ix) \/ ReclaimAuthority(ix)
      PROVE  WorkingRespects'
  <2>0. /\ ProofEnforced(ix) /\ UNCHANGED <<committed, stored>>
        /\ ix \in AuthorityInstructions /\ ix.arg.target \in Targets
        /\ GuardTyped(registry, log, epoch)
    BY <1>6, CallFacts DEF ExecuteUpgrade, ReclaimAuthority, ProofEnforced, AuthorityInv
  <2>1. PICK v \in Events : /\ log' = Append(log, v)
                            /\ v.owner = ix.wallet
                            /\ v.intent.ix = ix
                            /\ tx' = Append(tx, ix)
    BY <1>0, <2>0, EnforcedEvent
  <2>2. TransactionGoesOn /\ v \in EventsSince' /\ Len(committed'.log) <= Len(log')
    BY <1>0, <2>0, <2>1, ProofGoesOn
  <2> DEFINE t == ix.arg.target
  <2>3. /\ upgrader[t] = Pda(v.owner, t)
        /\ \/ upgrader'[t] = upgrader[t]
           \/ HandsOver(v, t) /\ v.intent.ix.arg.new_authority = upgrader'[t]
        /\ \A x \in Targets : x # t => upgrader'[x] = upgrader[x] /\ code'[x] = code[x]
    <3>1. CASE ExecuteUpgrade(ix)
      BY <1>0, <2>0, <2>1, <3>1 DEF ExecuteUpgrade, UpgradeInvoked, Upgraded, IsUpgrader
    <3>2. CASE ReclaimAuthority(ix)
      BY <1>0, <2>0, <2>1, <3>2 DEF ReclaimAuthority, HandedOver, IsUpgrader, HandsOver
    <3> QED
      BY <1>6, <3>1, <3>2
  <2>4. v.intent.ix.arg.target = t /\ t \in Targets
    BY <2>0, <2>1
  <2> HIDE DEF t
  <2>5. ASSUME NEW x \in Targets PROVE Respected(x)'
    <3>1. CASE x = t
      <4>1. Respected(t)'
        BY <1>0, <2>2, <2>3, <2>4, RespectedByProof
      <4> QED
        BY <3>1, <4>1
    <3>2. CASE x # t
      BY <1>0, <2>2, <2>3, <3>2, RespectedKept
    <3> QED
      BY <3>1, <3>2
  <2> QED
    BY <2>2, <2>5 DEF WorkingRespects
<1>7. ASSUME NEW k \in PubKeys, NEW ix, NEW ttl, SignAction(k, ix, ttl)
      PROVE  WorkingRespects'
  <2>1. UNCHANGED <<log, committed, stored, tx, code, upgrader>>
    BY <1>7 DEF SignAction, Approve, ledger, accounts, loader
  <2> QED
    BY <1>1, <2>1 DEF TransactionGoesOn, EventsSince, LoaderCalledBy
<1>8. ASSUME NEW a, AttachProof(a)
      PROVE  WorkingRespects'
  <2>1. /\ tx' = tx \o ProofIxs(a)
        /\ UNCHANGED <<log, committed, stored, code, upgrader>>
    BY <1>8 DEF AttachProof, ledger, authorityVars, accounts, loader
  <2>2. \A i \in DOMAIN tx : i \in DOMAIN tx' /\ tx'[i] = tx[i]
    BY <1>0, <2>1 DEF EnvironmentTyped, ProofIxs
  <2> QED
    BY <1>1, <2>1, <2>2 DEF TransactionGoesOn, EventsSince, LoaderCalledBy
<1>9. CASE AuthorityCommit
  <2>1. /\ committed'.log = log' /\ stored'.code = code' /\ stored'.upgrader = upgrader'
        /\ log' = log
    BY <1>9 DEF AuthorityCommit, Commit, Stored, accounts, loader, ledger
  <2> QED
    BY <1>0, <2>1 DEF WorkingRespects, Respected
<1>10. CASE AuthorityAbort
  <2>1. /\ committed'.log = log' /\ stored'.code = code' /\ stored'.upgrader = upgrader'
        /\ log' = committed.log
    BY <1>10 DEF AuthorityAbort, Abort
  <2> QED
    BY <1>0, <2>1 DEF WorkingRespects, Respected
<1>11. CASE UNCHANGED allVars
  <2>1. UNCHANGED <<log, committed, stored, tx, code, upgrader>>
    BY <1>11 DEF allVars, vars, ledger, authorityVars, accounts, loader
  <2> QED
    BY <1>1, <2>1 DEF TransactionGoesOn, EventsSince, LoaderCalledBy
<1> QED
  BY <1>2, <1>3, <1>4, <1>5, <1>6, <1>7, <1>8, <1>9, <1>10, <1>11 DEF AuthorityNext

\* At any point of a transaction, what it has done to a program so far is what the
\* program's holder allowed.
THEOREM TransactionsRespectAuthority == AuthoritySpec => []WorkingRespects
<1>1. AuthorityInit => WorkingRespects
  BY DEF AuthorityInit, WorkingRespects, Respected, Stored
<1> QED
  BY <1>1, RespectsStep, AuthorityInvariance, PTL DEF AuthoritySpec

\* A commit changes code and authority of a program only as its holder allowed, in
\* transactions with any number of proofs.
THEOREM AuthorityIsRespected == AuthoritySpec => AuthorityRespected
<1> DEFINE A == \A t \in Targets :
             \/ stored'.code[t] = stored.code[t] /\ stored'.upgrader[t] = stored.upgrader[t]
             \/ \E w \in Wallets : stored.upgrader[t] = w /\ LoaderCalledBy(w)
             \/ AuthorizedChange(NewEvents, t, stored.upgrader[t], stored'.upgrader[t])
<1>1. ASSUME WorkingRespects, [AuthorityNext]_allVars, stored' # stored
      PROVE  A
  <2>1. AuthorityCommit
    BY <1>1 DEF AuthorityNext, allVars, authorityVars, DirectUpgrade, SetUpgradeAuthority,
       WriteBuffer, SetBufferAuthority, Register, ExecuteUpgrade, ReclaimAuthority,
       ProofEnforced, SignAction, AttachProof, AuthorityAbort
  <2>2. /\ stored'.code = code /\ stored'.upgrader = upgrader /\ committed'.log = log
    BY <2>1 DEF AuthorityCommit, Commit, Stored
  <2>3. NewEvents = EventsSince
    BY <2>2 DEF NewEvents, EventsSince
  <2> QED
    BY <1>1, <2>2, <2>3 DEF WorkingRespects, Respected
<1>2. WorkingRespects /\ [AuthorityNext]_allVars => [A]_stored
  BY <1>1
<1> QED
  BY <1>2, TransactionsRespectAuthority, PTL DEF AuthoritySpec, AuthorityRespected

-----------------------------------------------------------------------------
(* What a device's signature on an upgrade stands for.                     *)

BufferAccounts == [exists: BOOLEAN, code: Codes \cup {ZeroKey},
                   authority: Wallets \cup Pdas \cup {NoAuthority}]

UpgradeIntents == {i \in Intents : /\ i.ix \in ProtectedCalls
                                   /\ i.ix.arg.op = "execute_upgrade"
                                   /\ i.ix.wallet = i.wallet}

Signatures == [intent: UpgradeIntents, buffer: BufferAccounts]

\* What a device may sign now: it reads the committed ledger, also while a
\* transaction runs.
Signable == {s \in Signatures :
               /\ s.intent.nonce = committed.registry[s.intent.wallet].nonce
               /\ s.buffer = stored.buffers[s.intent.ix.arg.buffer]}

\* The buffer belonged to the record of the upgraded program when the device signed.
HeldByRecord(s) == s.buffer.authority = Pda(s.intent.wallet, s.intent.ix.arg.target)

\* A signature against a ledger: its nonce is not one of the future; while it is
\* unused the buffer is as it was; an upgrade it has bought deployed that image.
StandsFor(s, r, g, as, bs) ==
  /\ s.intent.nonce <= r[s.intent.wallet].nonce
  /\ HeldByRecord(s) =>
       /\ s.intent.nonce < r[s.intent.wallet].nonce \/ bs[s.intent.ix.arg.buffer] = s.buffer
       /\ \A i \in DOMAIN g :
            as[i].op = "execute_upgrade" /\ g[i].intent = s.intent =>
              as[i].code = s.buffer.code

NoncesSpent(r, g) == \A i \in DOMAIN g : g[i].intent.nonce < r[g[i].intent.wallet].nonce

\* A buffer that does not exist belongs to nobody.
UnusedUnheld(bs) == \A b \in Buffers : bs[b].exists \/ bs[b] = NoBuffer

SignedInv ==
  /\ signedBuffer \subseteq Signatures
  /\ NoncesSpent(registry, log)
  /\ NoncesSpent(committed.registry, committed.log)
  /\ UnusedUnheld(buffers)
  /\ UnusedUnheld(stored.buffers)
  /\ \A s \in signedBuffer \cup Signable :
       StandsFor(s, registry, log, actions, buffers)
  /\ \A s \in signedBuffer :
       StandsFor(s, committed.registry, committed.log, stored.actions, stored.buffers)

LEMMA SignatureFacts ==
  ASSUME NEW s \in Signatures
  PROVE  /\ s.intent \in Intents /\ s.intent.wallet \in Wallets
         /\ s.intent.ix.wallet = s.intent.wallet
         /\ s.intent.ix.arg.target \in Targets /\ s.intent.ix.arg.buffer \in Buffers
         /\ s.intent.nonce \in Nat
         /\ s.buffer \in BufferAccounts
         /\ Pda(s.intent.wallet, s.intent.ix.arg.target) \in Pdas
<1>1. s.intent \in UpgradeIntents /\ s.buffer \in BufferAccounts
  BY DEF Signatures
<1>2. /\ s.intent \in Intents /\ s.intent.ix \in ProtectedCalls
      /\ s.intent.ix.arg.op = "execute_upgrade" /\ s.intent.ix.wallet = s.intent.wallet
  BY <1>1 DEF UpgradeIntents
<1>3. s.intent.ix.arg.target \in Targets /\ s.intent.ix.arg.buffer \in Buffers
  BY <1>2, CallFacts
<1>4. s.intent.wallet \in Wallets /\ s.intent.nonce \in 0..MaxNonce
  BY <1>2 DEF Intents
<1>5. s.intent.nonce \in Nat
  BY <1>4
<1> QED
  BY <1>1, <1>2, <1>3, <1>4, <1>5 DEF Pdas

\* A record, the owner of no wallet, and nobody are three different authorities.
LEMMA HoldersDiffer ==
  ASSUME NEW p \in Pdas
  PROVE  p \notin Wallets /\ p # NoAuthority /\ NoBuffer.authority # p
<1>1. p \notin Wallets
  BY AuthorityAssumption
<1>2. PICK w \in Wallets, t \in Targets : p = Pda(w, t)
  BY DEF Pdas
<1>3. p.owner = w /\ NoAuthority.owner = ZeroKey
  BY <1>2 DEF Pda, NoAuthority
<1>4. p # NoAuthority
  BY <1>3, AuthorityAssumption
<1> QED
  BY <1>1, <1>4 DEF NoBuffer

LEMMA PdaInjective ==
  ASSUME NEW w1, NEW t1, NEW w2, NEW t2, Pda(w1, t1) = Pda(w2, t2)
  PROVE  w1 = w2 /\ t1 = t2
<1>1. Pda(w1, t1).owner = w1 /\ Pda(w2, t2).owner = w2
      /\ Pda(w1, t1).target = t1 /\ Pda(w2, t2).target = t2
  BY DEF Pda
<1> QED
  BY <1>1

\* A step that consumes no nonce and touches no buffer a record holds.
LEMMA StandsUntouched ==
  ASSUME NEW s \in Signatures, StandsFor(s, registry, log, actions, buffers),
         UNCHANGED <<registry, log, actions>>,
         \A b \in Buffers : buffers[b].authority \in Pdas => buffers'[b] = buffers[b]
  PROVE  StandsFor(s, registry', log', actions', buffers')
<1>1. /\ s.intent.ix.arg.buffer \in Buffers
      /\ Pda(s.intent.wallet, s.intent.ix.arg.target) \in Pdas
  BY SignatureFacts
<1>2. ASSUME HeldByRecord(s), buffers[s.intent.ix.arg.buffer] = s.buffer
      PROVE  buffers'[s.intent.ix.arg.buffer] = s.buffer
  BY <1>1, <1>2 DEF HeldByRecord
<1> QED
  BY <1>2 DEF StandsFor

\* Consuming a nonce raises it by one and lowers no other.
LEMMA ConsumedNonces ==
  ASSUME registry \in [Wallets -> Registry], NEW w \in Wallets,
         registry[w].nonce < MaxNonce, registry' = NonceConsumed(w)
  PROVE  /\ registry'[w].nonce = registry[w].nonce + 1
         /\ \A x \in Wallets : /\ registry[x].nonce \in Nat /\ registry'[x].nonce \in Nat
                              /\ registry[x].nonce <= registry'[x].nonce
<1>1. registry'[w].nonce = registry[w].nonce + 1
  BY ConsumedType
<1>2. \A x \in Wallets : x # w => registry'[x] = registry[x]
  BY DEF NonceConsumed
<1>3. \A x \in Wallets : registry[x].nonce \in 0..MaxNonce
  BY DEF Registry
<1> QED
  BY <1>1, <1>2, <1>3, ConstantsAssumption

\* A protected instruction consumes its owner's nonce, acts once, and as for buffers
\* only uses up the one it names, held by the record whose proof it carries.
LEMMA StandsConsumed ==
  ASSUME NEW s \in Signatures, StandsFor(s, registry, log, actions, buffers),
         registry \in [Wallets -> Registry], log \in Seq(Events), actions \in Seq(Actions),
         Len(log) = Len(actions), NoncesSpent(registry, log),
         NEW ix \in ProtectedCalls, registry[ix.wallet].nonce < MaxNonce,
         registry' = NonceConsumed(ix.wallet),
         NEW v \in Events, log' = Append(log, v),
         v.intent.ix = ix, v.intent.wallet = ix.wallet,
         v.intent.nonce = registry[ix.wallet].nonce,
         NEW a \in Actions, actions' = Append(actions, a),
         a.op = "execute_upgrade" =>
           ix.arg.op = "execute_upgrade" /\ a.code = buffers[ix.arg.buffer].code,
         \A b \in Buffers : \/ buffers'[b] = buffers[b]
                            \/ buffers[b].authority = Pda(ix.wallet, ix.arg.target)
  PROVE  StandsFor(s, registry', log', actions', buffers')
<1> DEFINE w == s.intent.wallet
           b == s.intent.ix.arg.buffer
<1>1. /\ w \in Wallets /\ b \in Buffers /\ s.intent.ix.wallet = w
      /\ s.intent.nonce \in Nat /\ ix.wallet \in Wallets
  BY SignatureFacts, CallFacts
<1>2. /\ registry'[ix.wallet].nonce = registry[ix.wallet].nonce + 1
      /\ registry[w].nonce \in Nat /\ registry'[w].nonce \in Nat
      /\ registry[w].nonce <= registry'[w].nonce
  BY <1>1, ConsumedNonces
<1>3. s.intent.nonce <= registry[w].nonce
  BY DEF StandsFor
<1>4. s.intent.nonce <= registry'[w].nonce
  BY <1>1, <1>2, <1>3
<1>5. ASSUME HeldByRecord(s)
      PROVE  s.intent.nonce < registry'[w].nonce \/ buffers'[b] = s.buffer
  <2>1. CASE s.intent.nonce < registry[w].nonce
    BY <1>1, <1>2, <2>1
  <2>2. CASE buffers[b] = s.buffer /\ buffers'[b] = buffers[b]
    BY <2>2
  <2>3. CASE /\ buffers[b] = s.buffer
             /\ buffers[b].authority = Pda(ix.wallet, ix.arg.target)
    <3>1. w = ix.wallet
      <4>1. Pda(w, s.intent.ix.arg.target) = Pda(ix.wallet, ix.arg.target)
        BY <1>5, <2>3 DEF HeldByRecord
      <4> HIDE DEF w
      <4> QED
        BY <4>1, PdaInjective
    <3> QED
      BY <1>1, <1>2, <1>3, <3>1
  <2> QED
    BY <1>1, <1>5, <2>1, <2>2, <2>3 DEF StandsFor
<1>6. ASSUME HeldByRecord(s), NEW i \in DOMAIN log', actions'[i].op = "execute_upgrade",
             log'[i].intent = s.intent
      PROVE  actions'[i].code = s.buffer.code
  <2>1. CASE i \in DOMAIN log
    <3>1. log'[i] = log[i] /\ actions'[i] = actions[i]
      BY <2>1
    <3> QED
      BY <1>6, <2>1, <3>1 DEF StandsFor
  <2>2. CASE i = Len(log) + 1
    <3>1. log'[i] = v /\ actions'[i] = a
      BY <2>2
    <3>2. v.intent = s.intent /\ a.op = "execute_upgrade"
      BY <1>6, <3>1
    <3>3. /\ w = ix.wallet /\ b = ix.arg.buffer
          /\ s.intent.nonce = registry[w].nonce
      BY <1>1, <3>2
    <3>4. buffers[b] = s.buffer
      BY <1>1, <1>2, <1>6, <3>3 DEF StandsFor
    <3> QED
      BY <3>1, <3>2, <3>3, <3>4
  <2>3. DOMAIN log' = DOMAIN log \cup {Len(log) + 1}
    OBVIOUS
  <2> QED
    BY <1>6, <2>1, <2>2, <2>3
<1> HIDE DEF w, b
<1> QED
  BY <1>4, <1>5, <1>6 DEF StandsFor, w, b

\* The nonce an instruction consumes is one of its registry's past from then on.
LEMMA SpentConsumed ==
  ASSUME registry \in [Wallets -> Registry], log \in Seq(Events),
         NoncesSpent(registry, log), NEW w \in Wallets, registry[w].nonce < MaxNonce,
         registry' = NonceConsumed(w), NEW v \in Events, log' = Append(log, v),
         v.intent.wallet = w, v.intent.nonce = registry[w].nonce
  PROVE  NoncesSpent(registry', log')
<1>1. /\ registry'[w].nonce = registry[w].nonce + 1
      /\ \A x \in Wallets : /\ registry[x].nonce \in Nat /\ registry'[x].nonce \in Nat
                           /\ registry[x].nonce <= registry'[x].nonce
  BY ConsumedNonces
<1>2. ASSUME NEW i \in DOMAIN log'
      PROVE  log'[i].intent.nonce < registry'[log'[i].intent.wallet].nonce
  <2>1. CASE i \in DOMAIN log
    <3>1. log'[i] = log[i] /\ log[i] \in Events
      BY <2>1
    <3>2. log[i].intent \in Intents
      BY <3>1 DEF Events
    <3>3. log[i].intent.wallet \in Wallets /\ log[i].intent.nonce \in 0..MaxNonce
      BY <3>2 DEF Intents
    <3>4. log[i].intent.nonce < registry[log[i].intent.wallet].nonce
      BY <2>1 DEF NoncesSpent
    <3> DEFINE x == log[i].intent.wallet
               n == log[i].intent.nonce
    <3>5. /\ registry[x].nonce \in Nat /\ registry'[x].nonce \in Nat /\ n \in Nat
          /\ registry[x].nonce <= registry'[x].nonce /\ n < registry[x].nonce
      BY <1>1, <3>3, <3>4
    <3>6. n < registry'[x].nonce
      BY <3>5
    <3> QED
      BY <3>1, <3>6
  <2>2. CASE i = Len(log) + 1
    <3>1. log'[i] = v
      BY <2>2
    <3> QED
      BY <1>1, <3>1
  <2>3. DOMAIN log' = DOMAIN log \cup {Len(log) + 1}
    OBVIOUS
  <2> QED
    BY <2>1, <2>2, <2>3
<1> QED
  BY <1>2 DEF NoncesSpent

\* What may be signed before a transaction runs stands for the ledger it starts from.
LEMMA SignableStands ==
  ASSUME NEW s \in Signatures, NEW r, NEW g, NEW as, NEW bs,
         r \in [Wallets -> Registry], g \in Seq(Events), NoncesSpent(r, g),
         s.intent.nonce = r[s.intent.wallet].nonce,
         s.buffer = bs[s.intent.ix.arg.buffer]
  PROVE  StandsFor(s, r, g, as, bs)
<1>1. s.intent.wallet \in Wallets /\ s.intent.nonce \in Nat
  BY SignatureFacts
<1>2. \A i \in DOMAIN g : g[i].intent # s.intent
  BY <1>1 DEF NoncesSpent
<1>3. s.intent.nonce <= r[s.intent.wallet].nonce
  BY <1>1
<1> QED
  BY <1>2, <1>3 DEF StandsFor

LEMMA SignedInit == AuthorityInit => SignedInv
<1> SUFFICES ASSUME AuthorityInit PROVE SignedInv
  OBVIOUS
<1>0. AuthorityInv
  BY AuthorityInitInv
<1>1. /\ signedBuffer = {} /\ log = <<>> /\ committed.log = <<>>
      /\ committed.registry = registry /\ stored.buffers = buffers
      /\ buffers = [b \in Buffers |-> NoBuffer]
  BY DEF AuthorityInit, Stored
<1>2. NoncesSpent(registry, log) /\ NoncesSpent(committed.registry, committed.log)
  BY <1>1 DEF NoncesSpent
<1>3. UnusedUnheld(buffers) /\ UnusedUnheld(stored.buffers)
  BY <1>1 DEF UnusedUnheld
<1>4. ASSUME NEW s \in Signable PROVE StandsFor(s, registry, log, actions, buffers)
  <2>1. /\ s \in Signatures /\ s.intent.nonce = registry[s.intent.wallet].nonce
        /\ s.buffer = buffers[s.intent.ix.arg.buffer]
    BY <1>1 DEF Signable
  <2> QED
    BY <1>0, <1>2, <2>1, SignableStands DEF AuthorityInv, GuardTyped
<1> QED
  BY <1>1, <1>2, <1>3, <1>4 DEF SignedInv

LEMMA SignedStep == AuthorityInv /\ SignedInv /\ [AuthorityNext]_allVars => SignedInv'
<1> SUFFICES ASSUME AuthorityInv, SignedInv, [AuthorityNext]_allVars PROVE SignedInv'
  OBVIOUS
<1>0. /\ GuardTyped(registry, log, epoch) /\ EnvironmentTyped
      /\ GuardTyped(committed.registry, committed.log, committed.epoch)
      /\ AccountsTyped(records, upgrader, code, buffers, actions)
      /\ AccountsTyped(stored.records, stored.upgrader, stored.code, stored.buffers,
                       stored.actions)
      /\ Len(log) = Len(actions)
  BY DEF AuthorityInv, ProofConsumedOnlyByAction, ActsOn
<1>0a. /\ signedBuffer \subseteq Signatures /\ Signable \subseteq Signatures
       /\ NoncesSpent(registry, log) /\ NoncesSpent(committed.registry, committed.log)
       /\ UnusedUnheld(buffers) /\ UnusedUnheld(stored.buffers)
       /\ \A s \in signedBuffer \cup Signable :
            StandsFor(s, registry, log, actions, buffers)
       /\ \A s \in signedBuffer :
            StandsFor(s, committed.registry, committed.log, stored.actions, stored.buffers)
  BY DEF SignedInv, Signable
<1>a. ASSUME UNCHANGED <<committed, stored, signedBuffer>>,
             NoncesSpent(registry', log'), UnusedUnheld(buffers'),
             \A s \in signedBuffer \cup Signable :
               StandsFor(s, registry', log', actions', buffers')
      PROVE  SignedInv'
  <2>1. Signable' = Signable
    BY <1>a DEF Signable
  <2> QED
    BY <1>0a, <1>a, <2>1 DEF SignedInv
<1>b. ASSUME UNCHANGED <<registry, log, actions, committed, stored, signedBuffer>>,
             UnusedUnheld(buffers'),
             \A b \in Buffers : buffers[b].authority \in Pdas => buffers'[b] = buffers[b]
      PROVE  SignedInv'
  <2>1. \A s \in signedBuffer \cup Signable :
          StandsFor(s, registry', log', actions', buffers')
    BY <1>0a, <1>b, StandsUntouched
  <2> QED
    BY <1>0a, <1>a, <1>b, <2>1
<1>1. ASSUME NEW w \in Wallets, NEW t \in Targets, NEW b \in Buffers, DirectUpgrade(w, t, b)
      PROVE  SignedInv'
  <2>1. /\ buffers[b].authority = w /\ buffers' = [buffers EXCEPT ![b] = NoBuffer]
        /\ UNCHANGED <<registry, log, actions, committed, stored, signedBuffer>>
    BY <1>1 DEF DirectUpgrade, Upgraded, ledger
  <2>2. w \notin Pdas
    BY AuthorityAssumption
  <2>3. UnusedUnheld(buffers')
    BY <1>0, <1>0a, <2>1 DEF UnusedUnheld, AccountsTyped
  <2> QED
    BY <1>0, <1>b, <2>1, <2>2, <2>3 DEF AccountsTyped
<1>2. ASSUME NEW w, NEW t, NEW new, SetUpgradeAuthority(w, t, new)
      PROVE  SignedInv'
  <2>1. UNCHANGED <<registry, log, actions, committed, stored, signedBuffer, buffers>>
    BY <1>2 DEF SetUpgradeAuthority, HandedOver, ledger
  <2> QED
    BY <1>0a, <1>b, <2>1
<1>3. ASSUME NEW w \in Wallets, NEW b \in Buffers, NEW c \in Codes, WriteBuffer(w, b, c)
      PROVE  SignedInv'
  <2>1. /\ buffers[b].exists => buffers[b].authority = w
        /\ buffers' = [buffers EXCEPT ![b] = [exists |-> TRUE, code |-> c, authority |-> w]]
        /\ UNCHANGED <<registry, log, actions, committed, stored, signedBuffer>>
    BY <1>3 DEF WriteBuffer, ledger
  <2>2. buffers[b].authority \notin Pdas
    <3>1. CASE buffers[b].exists
      BY <2>1, <3>1, AuthorityAssumption
    <3>2. CASE buffers[b] = NoBuffer
      BY <3>2, HoldersDiffer
    <3> QED
      BY <1>0a, <3>1, <3>2 DEF UnusedUnheld
  <2>3. UnusedUnheld(buffers')
    BY <1>0, <1>0a, <2>1 DEF UnusedUnheld, AccountsTyped
  <2> QED
    BY <1>0, <1>b, <2>1, <2>2, <2>3 DEF AccountsTyped
<1>4. ASSUME NEW w \in Wallets, NEW b \in Buffers, NEW new, SetBufferAuthority(w, b, new)
      PROVE  SignedInv'
  <2>1. /\ buffers[b].exists /\ buffers[b].authority = w
        /\ buffers' = [buffers EXCEPT ![b].authority = new]
        /\ UNCHANGED <<registry, log, actions, committed, stored, signedBuffer>>
    BY <1>4 DEF SetBufferAuthority, ledger
  <2>2. buffers[b].authority \notin Pdas
    BY <2>1, AuthorityAssumption
  <2>3. UnusedUnheld(buffers')
    BY <1>0, <1>0a, <2>1 DEF UnusedUnheld, AccountsTyped
  <2> QED
    BY <1>0, <1>b, <2>1, <2>2, <2>3 DEF AccountsTyped
<1>5. ASSUME NEW w, NEW t, Register(w, t)
      PROVE  SignedInv'
  <2>1. UNCHANGED <<registry, log, actions, committed, stored, signedBuffer, buffers>>
    BY <1>5 DEF Register, ledger, loader
  <2> QED
    BY <1>0a, <1>b, <2>1
<1>c. ASSUME NEW ix \in ProtectedCalls, ProofEnforced(ix),
             NEW a \in Actions, actions' = Append(actions, a),
             a.op = "execute_upgrade" =>
               ix.arg.op = "execute_upgrade" /\ a.code = buffers[ix.arg.buffer].code,
             \A b \in Buffers : \/ buffers'[b] = buffers[b]
                                \/ buffers[b].authority = Pda(ix.wallet, ix.arg.target),
             UnusedUnheld(buffers'), UNCHANGED signedBuffer
      PROVE  SignedInv'
  <2>1. PICK v \in Events : /\ log' = Append(log, v)
                            /\ v.intent.wallet = ix.wallet
                            /\ v.intent.ix = ix
                            /\ v.intent.nonce = registry[ix.wallet].nonce
                            /\ registry[ix.wallet].nonce < MaxNonce
                            /\ registry' = NonceConsumed(ix.wallet)
    BY <1>0, <1>c, EnforcedEvent
  <2>2. /\ registry \in [Wallets -> Registry] /\ log \in Seq(Events)
        /\ actions \in Seq(Actions) /\ ix.wallet \in Wallets
    BY <1>0, CallFacts DEF GuardTyped, AccountsTyped
  <2>3. NoncesSpent(registry', log')
    BY <1>0a, <2>1, <2>2, SpentConsumed
  <2>4. ASSUME NEW s \in signedBuffer \cup Signable
        PROVE  StandsFor(s, registry', log', actions', buffers')
    <3>1. s \in Signatures /\ StandsFor(s, registry, log, actions, buffers)
      BY <1>0a
    <3> QED
      BY <1>0, <1>0a, <1>c, <2>1, <2>2, <3>1, StandsConsumed
  <2>5. UNCHANGED <<committed, stored>>
    BY <1>c DEF ProofEnforced
  <2> QED
    BY <1>a, <1>c, <2>3, <2>4, <2>5
<1>6. ASSUME NEW ix \in ProtectedCalls, ExecuteUpgrade(ix)
      PROVE  SignedInv'
  <2>1. /\ ix.wallet \in Wallets /\ ix.arg.target \in Targets /\ ix.arg.buffer \in Buffers
        /\ ix.arg.op = "execute_upgrade"
    BY <1>6, CallFacts DEF ExecuteUpgrade
  <2>2. /\ ProofEnforced(ix)
        /\ Upgraded(ix.arg.target, ix.arg.buffer, Pda(ix.wallet, ix.arg.target))
        /\ actions' = Append(actions, UpgradeEvent(ix))
        /\ UNCHANGED signedBuffer
    BY <1>6 DEF ExecuteUpgrade, UpgradeInvoked, ProofEnforced
  <2>3. /\ buffers[ix.arg.buffer].authority = Pda(ix.wallet, ix.arg.target)
        /\ buffers' = [buffers EXCEPT ![ix.arg.buffer] = NoBuffer]
    BY <2>2 DEF Upgraded
  <2>4. UnusedUnheld(buffers')
    BY <1>0, <1>0a, <2>1, <2>3 DEF UnusedUnheld, AccountsTyped
  <2>5. \A b \in Buffers : \/ buffers'[b] = buffers[b]
                           \/ buffers[b].authority = Pda(ix.wallet, ix.arg.target)
    BY <1>0, <2>1, <2>3 DEF AccountsTyped
  <2>6. actions \in Seq(Actions)
    BY <1>0 DEF AccountsTyped
  <2>7. buffers[ix.arg.buffer].code \in Codes
    BY <1>0, <2>1, <2>2, <2>6, UpgradedTypes
  <2>8. /\ UpgradeEvent(ix) \in Actions
        /\ UpgradeEvent(ix).code = buffers[ix.arg.buffer].code
    BY <2>1, <2>7 DEF UpgradeEvent, Actions
  <2> QED
    BY <1>c, <2>1, <2>2, <2>4, <2>5, <2>8
<1>7. ASSUME NEW ix \in ProtectedCalls, ReclaimAuthority(ix)
      PROVE  SignedInv'
  <2> DEFINE a == [op |-> "reclaim_authority", owner |-> ix.wallet,
                   target |-> ix.arg.target, code |-> code[ix.arg.target]]
  <2>1. ix.wallet \in Wallets /\ ix.arg.target \in Targets
    BY CallFacts
  <2>2. /\ ProofEnforced(ix)
        /\ UNCHANGED <<buffers, signedBuffer>>
        /\ actions' = Append(actions, a)
    BY <1>7 DEF ReclaimAuthority, ProofEnforced, HandedOver
  <2>3. a \in Actions /\ a.op # "execute_upgrade"
    BY <1>0, <2>1 DEF AccountsTyped, Actions
  <2> HIDE DEF a
  <2> QED
    BY <1>0a, <1>c, <2>2, <2>3
<1>8. ASSUME NEW k \in PubKeys, NEW ix \in ProtectedCalls, NEW ttl \in Ttls,
             SignAction(k, ix, ttl)
      PROVE  SignedInv'
  <2> DEFINE i == BuildIntent(ix, ActionPolicy.id, ttl)
             s == [intent |-> i, buffer |-> stored.buffers[ix.arg.buffer]]
  <2>1. /\ UNCHANGED <<registry, log, actions, buffers, committed, stored>>
        /\ signedBuffer' = signedBuffer \cup
              IF ix.arg.op = "execute_upgrade" THEN {s} ELSE {}
    BY <1>8 DEF SignAction, Approve, ledger, accounts, loader
  <2>2. Signable' = Signable
    BY <2>1 DEF Signable
  <2>3. ASSUME ix.arg.op = "execute_upgrade" PROVE s \in Signable
    <3>1. /\ ix \in Calls /\ ix.wallet \in Wallets /\ ix.arg.buffer \in Buffers
      BY <2>3, CallFacts
    <3>2. committed.registry[ix.wallet].nonce \in 0..MaxNonce
      BY <1>0, <3>1 DEF GuardTyped, Registry
    <3>3. clock.time + ttl \in Nat
      BY <1>0, ConstantsAssumption DEF EnvironmentTyped
    <3>4. /\ i \in Intents /\ i.ix = ix /\ i.wallet = ix.wallet
          /\ i.nonce = committed.registry[ix.wallet].nonce
      BY <3>1, <3>2, <3>3 DEF BuildIntent, Intent, Intents, ActionPolicy, PolicyIds
    <3> HIDE DEF i
    <3>5. i \in UpgradeIntents
      BY <2>3, <3>4 DEF UpgradeIntents
    <3>6. stored.buffers[ix.arg.buffer] \in BufferAccounts
      BY <1>0, <3>1 DEF AccountsTyped, BufferAccounts
    <3> QED
      BY <3>4, <3>5, <3>6 DEF Signable, Signatures
  <2>4. ASSUME NEW x \in Signable
        PROVE  StandsFor(x, committed.registry, committed.log, stored.actions,
                         stored.buffers)
    BY <1>0, <1>0a, SignableStands DEF Signable, GuardTyped
  <2> HIDE DEF s
  <2>5. signedBuffer' \subseteq signedBuffer \cup Signable
    BY <2>1, <2>3
  <2> QED
    BY <1>0a, <2>1, <2>2, <2>4, <2>5 DEF SignedInv
<1>9. ASSUME NEW a, AttachProof(a)
      PROVE  SignedInv'
  <2>1. UNCHANGED <<registry, log, actions, committed, stored, signedBuffer, buffers>>
    BY <1>9 DEF AttachProof, ledger, authorityVars, accounts, loader
  <2> QED
    BY <1>0a, <1>b, <2>1
<1>d. ASSUME UNCHANGED signedBuffer, committed'.registry = registry', committed'.log = log',
             stored'.actions = actions', stored'.buffers = buffers',
             GuardTyped(registry', log', epoch'), NoncesSpent(registry', log'),
             UnusedUnheld(buffers'),
             \A s \in signedBuffer : StandsFor(s, registry', log', actions', buffers')
      PROVE  SignedInv'
  <2>1. ASSUME NEW s \in Signable' PROVE StandsFor(s, registry', log', actions', buffers')
    <3>1. /\ s \in Signatures /\ s.intent.nonce = registry'[s.intent.wallet].nonce
          /\ s.buffer = buffers'[s.intent.ix.arg.buffer]
      BY <1>d, <2>1 DEF Signable
    <3> QED
      BY <1>d, <3>1, SignableStands DEF GuardTyped
  <2> QED
    BY <1>0a, <1>d, <2>1 DEF SignedInv
<1>10. CASE AuthorityCommit
  <2>1. /\ UNCHANGED <<registry, log, epoch, actions, buffers, signedBuffer>>
        /\ committed'.registry = registry' /\ committed'.log = log'
        /\ stored'.actions = actions' /\ stored'.buffers = buffers'
    BY <1>10 DEF AuthorityCommit, Commit, Stored, ledger, accounts, loader
  <2> QED
    BY <1>0, <1>0a, <1>d, <2>1
<1>11. CASE AuthorityAbort
  <2>1. /\ registry' = committed.registry /\ log' = committed.log
        /\ epoch' = committed.epoch
        /\ buffers' = stored.buffers /\ actions' = stored.actions
        /\ UNCHANGED <<committed, stored, signedBuffer>>
    BY <1>11 DEF AuthorityAbort, Abort
  <2> QED
    BY <1>0, <1>0a, <1>d, <2>1
<1>12. CASE UNCHANGED allVars
  <2>1. UNCHANGED <<registry, log, actions, committed, stored, signedBuffer, buffers>>
    BY <1>12 DEF allVars, vars, ledger, authorityVars, accounts, loader
  <2> QED
    BY <1>0a, <1>b, <2>1
<1> QED
  BY <1>1, <1>2, <1>3, <1>4, <1>5, <1>6, <1>7, <1>8, <1>9, <1>10, <1>11, <1>12
     DEF AuthorityNext

\* Whatever is signed, committed or rolled back in between, a signature keeps standing
\* for the image its buffer held.
THEOREM SignaturesStand == AuthoritySpec => []SignedInv
BY SignedInit, SignedStep, AuthorityInvariance, PTL DEF AuthoritySpec

\* An upgrade signed when the buffer already belonged to the record deploys the image
\* the buffer held at that moment.
THEOREM UpgradesDeployWhatWasSigned == AuthoritySpec => []SignedImageDeployed
<1>1. AuthorityInv /\ SignedInv => SignedImageDeployed
  <2> SUFFICES ASSUME AuthorityInv, SignedInv, NEW i \in DOMAIN actions,
                      actions[i].op = "execute_upgrade", NEW s \in signedBuffer,
                      s.intent = log[i].intent,
                      s.buffer.authority = Pda(actions[i].owner, actions[i].target)
               PROVE  s.buffer.code = actions[i].code
    BY DEF SignedImageDeployed
  <2>1. ActsOn(log, actions) /\ log \in Seq(Events) /\ actions \in Seq(Actions)
    BY DEF AuthorityInv, ProofConsumedOnlyByAction, GuardTyped, AccountsTyped
  <2>2. /\ i \in DOMAIN log /\ log[i].intent.wallet = actions[i].owner
        /\ log[i].intent.ix.arg.target = actions[i].target
    BY <2>1 DEF ActsOn
  <2>3. HeldByRecord(s)
    BY <2>2 DEF HeldByRecord
  <2>4. StandsFor(s, registry, log, actions, buffers)
    BY DEF SignedInv
  <2> QED
    BY <2>2, <2>3, <2>4 DEF StandsFor
<1> QED
  BY <1>1, SignaturesStand, AuthorityInvariance, PTL

=============================================================================
