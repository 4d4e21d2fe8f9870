-------------------------- MODULE TranaGuardProofs --------------------------
(***************************************************************************)
(* Theorems about trana_guard, for any number of wallets, keys, programs   *)
(* and nonces.                                                             *)
(***************************************************************************)
EXTENDS TranaGuard, FiniteSetTheorems, TLAPS

-----------------------------------------------------------------------------
(* Facts about the operators the actions are built from.                   *)

\* No keys: what a created or cleared registry holds.
LEMMA NoKeysType == <<>> \in Keys /\ DOMAIN <<>> = {}
<1>1. <<>> \in [{} -> Entry] /\ DOMAIN <<>> = {}
  OBVIOUS
<1> QED
  BY <1>1 DEF Keys

\* While the vector is below capacity, a slot within it is free.
LEMMA FreeSlotIsFree ==
  ASSUME NEW k \in Keys, Cardinality(DOMAIN k) < MAX_KEYS
  PROVE  FreeSlot(k) \in (1..MAX_KEYS) \ DOMAIN k
<1>1. PICK slots \in SUBSET (1..MAX_KEYS) : k \in [slots -> Entry]
  BY DEF Keys
<1>2. \E i \in 1..MAX_KEYS : i \notin slots
  <2>1. SUFFICES ASSUME slots = 1..MAX_KEYS PROVE FALSE
    BY <1>1
  <2>2. Cardinality(1..MAX_KEYS) = MAX_KEYS
    BY FS_Interval, ConstantsAssumption
  <2>3. DOMAIN k = 1..MAX_KEYS
    BY <1>1, <2>1
  <2>4. Cardinality(DOMAIN k) = MAX_KEYS
    BY <2>2, <2>3
  <2> QED
    BY <2>4, ConstantsAssumption
<1> QED
  BY <1>1, <1>2, ConstantsAssumption DEF FreeSlot

\* A push into a vector below capacity takes a slot within it.
LEMMA PushedType ==
  ASSUME NEW k \in Keys, NEW e \in Entry, Cardinality(DOMAIN k) < MAX_KEYS
  PROVE  Pushed(k, e) \in Keys
<1>1. PICK slots \in SUBSET (1..MAX_KEYS) : k \in [slots -> Entry]
  BY DEF Keys
<1>2. FreeSlot(k) \in 1..MAX_KEYS
  BY FreeSlotIsFree
<1>3. Pushed(k, e) \in [slots \cup {FreeSlot(k)} -> Entry]
  BY <1>1 DEF Pushed
<1> QED
  BY <1>2, <1>3 DEF Keys

\* Rejecting entries keeps a registry's keys well typed.
LEMMA RetainedType ==
  ASSUME NEW k \in Keys, NEW cred
  PROVE  Retained(k, cred) \in Keys
<1>1. PICK slots \in SUBSET (1..MAX_KEYS) : k \in [slots -> Entry]
  BY DEF Keys
<1>2. Retained(k, cred) \in [{j \in slots : k[j].cred # cred} -> Entry]
  BY <1>1 DEF Retained
<1> QED
  BY <1>2 DEF Keys

\* The fee transfer keeps balances natural when the payer can afford it.
LEMMA ChargedType ==
  ASSUME lamports \in [Accounts -> Nat], NEW from \in Accounts, NEW to \in Accounts,
         NEW fee \in Nat, lamports[from] >= fee
  PROVE  Charged(from, to, fee) \in [Accounts -> Nat]
BY DEF Charged

\* A frame for a call is a well-typed transaction and brings in no signature.
LEMMA FramesType ==
  ASSUME TypeOK, NEW top \in Instructions, top.kind = "call", NEW t \in Frames(top)
  PROVE  /\ t \in Seq(Instructions)
         /\ \A i \in DOMAIN t :
              t[i].kind = "secp256r1" => i \in DOMAIN tx /\ t[i] = tx[i]
<1>1. CASE t = tx
  BY <1>1 DEF TypeOK
<1>2. CASE t = Append(tx, top)
  BY <1>2 DEF TypeOK
<1> QED
  BY <1>1, <1>2 DEF Frames

-----------------------------------------------------------------------------
(* What a successful verification establishes.                             *)

TxSigned(t) ==
  \A i \in DOMAIN t : t[i].kind = "secp256r1" =>
    [key |-> t[i].key, intent |-> t[i].message] \in approvals

\* An accepted proof yields a well-typed event that a device has signed, for
\* the registry's current nonce.
LEMMA AcceptedProof ==
  ASSUME TypeOK, NEW t \in Seq(Instructions), TxSigned(t),
         NEW w \in Wallets, NEW r \in Wallets, NEW policy,
         ProofAccepted(t, w, r, policy)
  PROVE  LET v == ProofVerified(t, w, r)
         IN /\ v \in Events
            /\ [key |-> v.key, intent |-> v.intent] \in approvals
            /\ v.owner = w /\ v.intent.wallet = w
            /\ v.registry = r /\ v.epoch = epoch[r]
            /\ v.intent.nonce = registry[r].nonce
            /\ registry[r].nonce < MaxNonce
<1> DEFINE secp  == t[Len(t) - 2]
           proof == t[Len(t) - 1]
<1>1. /\ Len(t) - 2 \in DOMAIN t /\ Len(t) - 1 \in DOMAIN t
      /\ secp.kind = "secp256r1"
      /\ secp.message = proof.challenge
      /\ proof.challenge =
           Intent(w, policy, Current(t), registry[r].nonce, proof.expiry)
      /\ registry[r].nonce < MaxNonce
  BY DEF ProofAccepted, SignedOver, NonceAvailable
<1>2. [key |-> secp.key, intent |-> proof.challenge] \in approvals
  BY <1>1 DEF TxSigned
<1>3. [key |-> secp.key, intent |-> proof.challenge] \in Approvals
  BY <1>2 DEF TypeOK
<1>4. secp.key \in PubKeys /\ proof.challenge \in Intents
  BY <1>3 DEF Approvals
<1>5. epoch[r] \in Nat
  BY DEF TypeOK, LedgerOK
<1>6. proof.challenge.wallet = w /\ proof.challenge.nonce = registry[r].nonce
  BY <1>1 DEF Intent
<1>7. ProofVerified(t, w, r) =
        [owner |-> w, registry |-> r, key |-> secp.key,
         intent |-> proof.challenge, epoch |-> epoch[r]]
  BY DEF ProofVerified
<1> HIDE DEF secp, proof
<1> QED
  BY <1>1, <1>2, <1>4, <1>5, <1>6, <1>7 DEF Events

\* Consuming a nonce changes that one field of that one registry.
LEMMA ConsumedType ==
  ASSUME registry \in [Wallets -> Registry], NEW r \in Wallets,
         registry[r].nonce < MaxNonce
  PROVE  /\ NonceConsumed(r) \in [Wallets -> Registry]
         /\ NonceConsumed(r)[r].nonce = registry[r].nonce + 1
         /\ NonceConsumed(r)[r].keys = registry[r].keys
         /\ \A w \in Wallets : /\ NonceConsumed(r)[w].exists = registry[w].exists
                               /\ NonceConsumed(r)[w].owner = registry[w].owner
                               /\ NonceConsumed(r)[w].keys = registry[w].keys
                               /\ w # r => NonceConsumed(r)[w] = registry[w]
BY ConstantsAssumption DEF NonceConsumed, Registry

-----------------------------------------------------------------------------
(* Type correctness.                                                       *)

LEMMA InitType == Init => TypeOK
<1> SUFFICES ASSUME Init PROVE TypeOK
  OBVIOUS
<1>1. EmptyRegistry \in Registry
  BY NoKeysType, ConstantsAssumption DEF EmptyRegistry, Registry
<1>2. EmptyConfig \in Config
  BY DEF EmptyConfig, Config
<1>3. LedgerOK(config, registry, lamports, log, epoch)
  BY <1>1, <1>2, ConstantsAssumption DEF Init, LedgerOK
<1> QED
  BY <1>3 DEF Init, TypeOK

\* A call of an instruction no passkey signs is an instruction.
LEMMA PlainCallType ==
  ASSUME NEW op \in PlainOps, NEW w \in Wallets
  PROVE  GuardCall(op, w, NoArg) \in Instructions
BY DEF GuardCall, Instructions

\* The instructions that change keys under a proof are instructions.
LEMMA KeyCallType ==
  ASSUME NEW w \in Wallets
  PROVE  /\ \A e \in Entry : GuardCall("add_passkey", w, e) \in Instructions
         /\ \A c \in CredIds : GuardCall("remove_passkey", w, [cred |-> c]) \in Instructions
BY DEF GuardCall, Instructions, Calls

\* A frame for a call extends a signed transaction to a signed transaction.
LEMMA SignedFrames ==
  ASSUME TypeOK, IInv, NEW op, NEW w, NEW arg, GuardCall(op, w, arg) \in Instructions,
         NEW t \in Frames(GuardCall(op, w, arg))
  PROVE  t \in Seq(Instructions) /\ TxSigned(t)
<1>1. GuardCall(op, w, arg).kind = "call"
  BY DEF GuardCall
<1>2. /\ t \in Seq(Instructions)
      /\ \A i \in DOMAIN t :
           t[i].kind = "secp256r1" => i \in DOMAIN tx /\ t[i] = tx[i]
  BY <1>1, FramesType
<1> QED
  BY <1>2 DEF TxSigned, IInv

\* The policies a client names are policy ids of the program.
LEMMA SignedPoliciesType == SignedPolicies \subseteq PolicyIds
BY ConstantsAssumption DEF SignedPolicies, PolicyIds

\* The intent a client builds from committed state is well typed.
LEMMA BuildIntentType ==
  ASSUME TypeOK, NEW ix \in Calls, NEW p \in SignedPolicies, NEW ttl \in Ttls
  PROVE  BuildIntent(ix, p, ttl) \in Intents
<1>1. ix.wallet \in Wallets
  BY DEF Calls
<1>2. committed.registry[ix.wallet].nonce \in 0..MaxNonce
  BY <1>1 DEF TypeOK, LedgerOK, Registry
<1>3. clock.time + ttl \in Nat
  BY ConstantsAssumption DEF TypeOK
<1> QED
  BY <1>1, <1>2, <1>3, SignedPoliciesType DEF BuildIntent, Intent, Intents

LEMMA TypeStep == TypeOK /\ IInv /\ [Next]_vars => TypeOK'
<1> SUFFICES ASSUME TypeOK, IInv, [Next]_vars PROVE TypeOK'
  OBVIOUS
<1> USE DEF ledger
<1>0. LedgerOK(config, registry, lamports, log, epoch)
  BY DEF TypeOK
<1>1. ASSUME NEW w \in Wallets, NEW f1 \in Fees, NEW f2 \in Fees, NEW t \in Treasuries,
             InitConfig(w, f1, f2, t)
      PROVE  TypeOK'
  <2>1. tx' \in Seq(Instructions)
    BY <1>1, FramesType, PlainCallType DEF InitConfig, TopLevel, PlainOps, GuardCall
  <2>2. config' \in Config
    BY <1>1, ConstantsAssumption DEF InitConfig, Config
  <2> QED
    BY <1>1, <2>1, <2>2 DEF InitConfig, TypeOK, LedgerOK
<1>2. ASSUME NEW w \in Wallets, NEW f1 \in Fees, NEW f2 \in Fees, NEW t \in Treasuries,
             UpdateConfig(w, f1, f2, t)
      PROVE  TypeOK'
  <2>1. tx' \in Seq(Instructions)
    BY <1>2, FramesType, PlainCallType DEF UpdateConfig, TopLevel, PlainOps, GuardCall
  <2>2. config' \in Config
    BY <1>0, <1>2, ConstantsAssumption DEF UpdateConfig, Config, LedgerOK
  <2> QED
    BY <1>2, <2>1, <2>2 DEF UpdateConfig, TypeOK, LedgerOK
<1>3. ASSUME NEW w \in Wallets, NEW e \in Entry, NEW t \in Treasuries,
             RegisterPasskey(w, e, t)
      PROVE  TypeOK'
  <2>1. tx' \in Seq(Instructions)
    BY <1>3, FramesType, PlainCallType DEF RegisterPasskey, TopLevel, PlainOps, GuardCall
  <2>2. Pushed(registry[w].keys, e) \in Keys
    <3>1. Cardinality(DOMAIN registry[w].keys) = 0
      BY <1>3, FS_EmptySet DEF RegisterPasskey, RegistryVacant
    <3> QED
      BY <1>0, <3>1, PushedType, ConstantsAssumption DEF LedgerOK, Registry
  <2>3. registry' \in [Wallets -> Registry]
    BY <1>0, <1>3, <2>2 DEF RegisterPasskey, Registered, LedgerOK, Registry
  <2>4. lamports' \in [Accounts -> Nat]
    BY <1>0, <1>3, ChargedType DEF RegisterPasskey, LedgerOK, Config, Accounts
  <2> QED
    BY <1>3, <2>1, <2>3, <2>4 DEF RegisterPasskey, TypeOK, LedgerOK
<1>4. ASSUME NEW w \in Wallets, NEW e \in Entry, RecoverRegistry(w, e)
      PROVE  TypeOK'
  <2>1. tx' \in Seq(Instructions)
    BY <1>4, FramesType, PlainCallType DEF RecoverRegistry, TopLevel, PlainOps, GuardCall
  <2>2. Pushed(<<>>, e) \in Keys
    BY NoKeysType, PushedType, FS_EmptySet, ConstantsAssumption
  <2>3. registry' \in [Wallets -> Registry]
    <3>1. 0 \in 0..MaxNonce
      BY ConstantsAssumption
    <3>2. registry \in [Wallets -> Registry] /\ registry' = Recovered(w, e)
      BY <1>0, <1>4 DEF LedgerOK, RecoverRegistry
    <3> QED
      BY <2>2, <3>1, <3>2 DEF Recovered, Registry
  <2>4. epoch' \in [Wallets -> Nat]
    BY <1>0, <1>4 DEF RecoverRegistry, LedgerOK
  <2> QED
    BY <1>4, <2>1, <2>3, <2>4 DEF RecoverRegistry, TypeOK, LedgerOK
<1>5. ASSUME NEW w \in Wallets, NEW e \in Entry, NEW t \in Treasuries, AddPasskey(w, e, t)
      PROVE  TypeOK'
  <2>1. /\ tx' \in Seq(Instructions)
        /\ TxSigned(tx')
    BY <1>5, SignedFrames, KeyCallType DEF AddPasskey
  <2>2. log' \in Seq(Events) /\ registry[w].nonce < MaxNonce
    <3>1. ProofAccepted(tx', w, w, "trana.require") /\ log' = Append(log, ProofVerified(tx', w, w))
      BY <1>5 DEF AddPasskey
    <3>2. ProofVerified(tx', w, w) \in Events /\ registry[w].nonce < MaxNonce
      BY <2>1, <3>1, AcceptedProof
    <3> QED
      BY <1>0, <3>1, <3>2 DEF LedgerOK
  <2>3. Pushed(registry[w].keys, e) \in Keys
    BY <1>0, <1>5, PushedType DEF AddPasskey, HasRoom, KeyCount, LedgerOK, Registry
  <2>4. registry' \in [Wallets -> Registry]
    <3>1. /\ NonceConsumed(w) \in [Wallets -> Registry]
          /\ NonceConsumed(w)[w].keys = registry[w].keys
      BY <1>0, <2>2, ConsumedType DEF LedgerOK
    <3> QED
      BY <1>5, <2>3, <3>1 DEF AddPasskey, Registry
  <2>5. lamports' \in [Accounts -> Nat]
    BY <1>0, <1>5, ChargedType DEF AddPasskey, LedgerOK, Config, Accounts
  <2> QED
    BY <1>5, <2>1, <2>2, <2>4, <2>5 DEF AddPasskey, TypeOK, LedgerOK
<1>6. ASSUME NEW w \in Wallets, NEW c \in CredIds, RemovePasskey(w, c)
      PROVE  TypeOK'
  <2>1. /\ tx' \in Seq(Instructions)
        /\ TxSigned(tx')
    BY <1>6, SignedFrames, KeyCallType DEF RemovePasskey
  <2>2. log' \in Seq(Events) /\ registry[w].nonce < MaxNonce
    <3>1. ProofAccepted(tx', w, w, "trana.require") /\ log' = Append(log, ProofVerified(tx', w, w))
      BY <1>6 DEF RemovePasskey
    <3>2. ProofVerified(tx', w, w) \in Events /\ registry[w].nonce < MaxNonce
      BY <2>1, <3>1, AcceptedProof
    <3> QED
      BY <1>0, <3>1, <3>2 DEF LedgerOK
  <2>3. Retained(registry[w].keys, c) \in Keys
    BY <1>0, RetainedType DEF LedgerOK, Registry
  <2>4. registry' \in [Wallets -> Registry]
    <3>1. /\ NonceConsumed(w) \in [Wallets -> Registry]
          /\ NonceConsumed(w)[w].keys = registry[w].keys
      BY <1>0, <2>2, ConsumedType DEF LedgerOK
    <3> QED
      BY <1>6, <2>3, <3>1 DEF RemovePasskey, Registry
  <2> QED
    BY <1>6, <2>1, <2>2, <2>4 DEF RemovePasskey, TypeOK, LedgerOK
<1>7. ASSUME NEW w \in Wallets, NEW r \in Wallets, NEW p \in Policies, Enforce(w, r, p)
      PROVE  TypeOK'
  <2>1. CASE UNCHANGED <<log, registry>>
    BY <1>7, <2>1 DEF Enforce, TypeOK
  <2>2. CASE ProofAccepted(tx, w, r, p.id) /\ log' = Append(log, ProofVerified(tx, w, r))
                /\ registry' = NonceConsumed(r)
    <3>1. tx \in Seq(Instructions) /\ TxSigned(tx)
      BY DEF TypeOK, IInv, TxSigned
    <3>2. ProofVerified(tx, w, r) \in Events /\ registry[r].nonce < MaxNonce
      BY <2>2, <3>1, AcceptedProof
    <3>3. registry' \in [Wallets -> Registry]
      BY <1>0, <2>2, <3>2, ConsumedType DEF LedgerOK
    <3> QED
      BY <1>7, <2>2, <3>2, <3>3 DEF Enforce, TypeOK, LedgerOK
  <2> QED
    BY <1>7, <2>1, <2>2 DEF Enforce, Enforced
<1>8. ASSUME NEW a \in approvals, Secp256r1(a)
      PROVE  TypeOK'
  BY <1>8 DEF Secp256r1, Secp256r1Ix, TypeOK, Instructions, Approvals
<1>9. ASSUME NEW p \in SignedPolicies, NEW expiry \in Nat, NEW i \in Intents,
             RecordProof(p, expiry, i)
      PROVE  TypeOK'
  BY <1>9, SignedPoliciesType DEF RecordProof, RecordProofIx, TypeOK, Instructions
<1>10. ASSUME NEW ix \in Calls, ProtectedCall(ix)
       PROVE  TypeOK'
  BY <1>10 DEF ProtectedCall, TypeOK, Instructions
<1>11. ASSUME Commit
       PROVE  TypeOK'
  BY <1>11 DEF Commit, TypeOK, LedgerOK
<1>12. ASSUME Abort
       PROVE  TypeOK'
  BY <1>12 DEF Abort, TypeOK, LedgerOK
<1>13. ASSUME NEW k \in PubKeys, NEW ix \in Calls, NEW p \in SignedPolicies,
              NEW ttl \in Ttls, Approve(k, ix, p, ttl)
       PROVE  TypeOK'
  <2>1. BuildIntent(ix, p, ttl) \in Intents
    BY BuildIntentType
  <2> QED
    BY <1>13, <2>1 DEF Approve, TypeOK, Approvals
<1>14. ASSUME Tick
       PROVE  TypeOK'
  BY <1>14 DEF Tick, TypeOK
<1>15. CASE UNCHANGED vars
  BY <1>15 DEF vars, TypeOK
<1>16. ASSUME NEW p \in SignedPolicies, NEW a \in approvals, NEW b \in approvals,
              RecordProof(p, a.intent.expiry, b.intent)
       PROVE  TypeOK'
  BY <1>9, <1>16 DEF TypeOK, Approvals, Intents
<1>17. ASSUME NEW ix \in Calls, NEW p \in SignedPolicies, NEW ttl \in Ttls,
              RecordProof(p, clock.time + ttl, BuildIntent(ix, p, ttl))
       PROVE  TypeOK'
  <2>1. clock.time + ttl \in Nat
    BY ConstantsAssumption DEF TypeOK
  <2>2. BuildIntent(ix, p, ttl) \in Intents
    BY BuildIntentType
  <2> QED
    BY <1>9, <1>17, <2>1, <2>2
<1> QED
  BY <1>1, <1>2, <1>3, <1>4, <1>5, <1>6, <1>7, <1>8, <1>10, <1>11, <1>12, <1>13,
     <1>14, <1>15, <1>16, <1>17 DEF Next, GuardInstruction, ProofPair, Sign

-----------------------------------------------------------------------------
(* The inductive invariant.                                                *)

\* Its part about one ledger, for the working copy and the committed one.
LedgerInv(r, g, e) ==
  BoundToSeeds(r) /\ Signed(g) /\ NoncesIncrease(g) /\ Accounted(r, g, e) /\ EpochsPassed(g, e)

LEMMA IInvParts ==
  IInv <=> /\ LedgerInv(registry, log, epoch)
           /\ LedgerInv(committed.registry, committed.log, committed.epoch)
           /\ TxSigned(tx)
BY DEF IInv, LedgerInv, RegistryBoundToSeeds, EveryProofWasSigned, NoReplay,
       AuditTrailComplete, TxSigned

\* Appending the event of an accepted proof and advancing the nonce it consumed
\* keeps the log signed, increasing and complete.
LEMMA EventAppended ==
  ASSUME TypeOK, LedgerInv(registry, log, epoch),
         NEW w \in Wallets, NEW v \in Events,
         [key |-> v.key, intent |-> v.intent] \in approvals,
         v.owner = w, v.intent.wallet = w, v.registry = w, v.epoch = epoch[w],
         v.intent.nonce = registry[w].nonce,
         NEW r, r[w].nonce = registry[w].nonce + 1,
         \A x \in Wallets : x # w => r[x].nonce = registry[x].nonce,
         BoundToSeeds(r)
  PROVE  LedgerInv(r, Append(log, v), epoch)
<1> DEFINE g == Append(log, v)
<1>1. /\ log \in Seq(Events) /\ g \in Seq(Events)
      /\ DOMAIN g = DOMAIN log \cup {Len(log) + 1}
      /\ g[Len(log) + 1] = v
      /\ \A i \in DOMAIN log : g[i] = log[i] /\ i < Len(log) + 1 /\ i \in Nat
      /\ Len(log) + 1 \in Nat /\ Len(log) + 1 \notin DOMAIN log
  BY DEF TypeOK, LedgerOK
<1>2. \A i \in DOMAIN log : log[i] \in Events /\ log[i].intent.nonce \in 0..MaxNonce
  <2>1. \A i \in DOMAIN log : log[i] \in Events
    BY <1>1
  <2> QED
    BY <2>1 DEF Events, Intents
<1>3. registry[w].nonce \in 0..MaxNonce /\ \A x \in Wallets : registry[x].nonce \in 0..MaxNonce
  BY DEF TypeOK, LedgerOK, Registry
<1> HIDE DEF g
<1>4. Signed(g)
  BY <1>1 DEF LedgerInv, Signed
<1>5. \A i \in DOMAIN log :
        log[i].registry = w /\ log[i].epoch = epoch[w] =>
          log[i].intent.nonce < registry[w].nonce
  BY <1>2 DEF LedgerInv, Accounted
<1>6. NoncesIncrease(g)
  <2> SUFFICES ASSUME NEW i \in DOMAIN g, NEW j \in DOMAIN g, i < j,
                      g[i].registry = g[j].registry, g[i].epoch = g[j].epoch
               PROVE  g[i].intent.nonce < g[j].intent.nonce
    BY DEF NoncesIncrease
  <2>1. i \in DOMAIN log /\ g[i] = log[i]
    BY <1>1
  <2>2. CASE j \in DOMAIN log
    BY <1>1, <2>1, <2>2 DEF LedgerInv, NoncesIncrease
  <2>3. CASE j = Len(log) + 1
    BY <1>1, <1>5, <2>1, <2>3
  <2> QED
    BY <1>1, <2>2, <2>3
<1>7. Accounted(r, g, epoch)
  <2> SUFFICES ASSUME NEW x \in Wallets, NEW n \in 0..MaxNonce
               PROVE  n < r[x].nonce <=>
                        \E i \in DOMAIN g : /\ g[i].registry = x
                                            /\ g[i].epoch = epoch[x]
                                            /\ g[i].intent.nonce = n
    BY DEF Accounted
  <2>1. n < registry[x].nonce <=>
          \E i \in DOMAIN log : /\ log[i].registry = x
                                /\ log[i].epoch = epoch[x]
                                /\ log[i].intent.nonce = n
    BY DEF LedgerInv, Accounted
  <2>2. (\E i \in DOMAIN g : /\ g[i].registry = x
                             /\ g[i].epoch = epoch[x]
                             /\ g[i].intent.nonce = n)
          <=> \/ n < registry[x].nonce
              \/ v.registry = x /\ v.epoch = epoch[x] /\ v.intent.nonce = n
    BY <1>1, <2>1
  <2>3. CASE x = w
    BY <1>3, <2>2, <2>3
  <2>4. CASE x # w
    BY <2>2, <2>4
  <2> QED
    BY <2>3, <2>4
<1>8. EpochsPassed(g, epoch)
  <2>1. epoch[w] \in Nat
    BY DEF TypeOK, LedgerOK
  <2> QED
    BY <1>1, <2>1 DEF LedgerInv, EpochsPassed
<1> QED
  BY <1>4, <1>6, <1>7, <1>8 DEF LedgerInv, g

\* A step that keeps owners and existence, and touches the keys of an existing
\* registry only, keeps registries bound to their wallets.
LEMMA BoundKept ==
  ASSUME BoundToSeeds(registry), NEW w \in Wallets, registry[w].exists, NEW r,
         \A x \in Wallets : /\ r[x].owner = registry[x].owner
                            /\ x # w => r[x] = registry[x]
  PROVE  BoundToSeeds(r)
<1> SUFFICES ASSUME NEW x \in Wallets, r[x].exists \/ DOMAIN r[x].keys # {}
             PROVE  r[x].owner = x
  BY DEF BoundToSeeds
<1>1. registry[x].exists \/ DOMAIN registry[x].keys # {} => registry[x].owner = x
  BY DEF BoundToSeeds
<1>2. CASE x = w
  BY <1>1, <1>2
<1>3. CASE x # w
  BY <1>1, <1>3
<1> QED
  BY <1>2, <1>3

\* An accepted proof for the wallet's own registry: its event joins the log while
\* the nonce advances.
LEMMA ProofAppended ==
  ASSUME TypeOK, LedgerInv(registry, log, epoch),
         NEW t \in Seq(Instructions), TxSigned(t), NEW w \in Wallets, NEW policy,
         ProofAccepted(t, w, w, policy),
         NEW r, BoundToSeeds(r), r[w].nonce = registry[w].nonce + 1,
         \A x \in Wallets : x # w => r[x].nonce = registry[x].nonce
  PROVE  LedgerInv(r, Append(log, ProofVerified(t, w, w)), epoch)
<1> DEFINE v == ProofVerified(t, w, w)
<1>1. /\ v \in Events
      /\ [key |-> v.key, intent |-> v.intent] \in approvals
      /\ v.owner = w /\ v.intent.wallet = w
      /\ v.registry = w /\ v.epoch = epoch[w]
      /\ v.intent.nonce = registry[w].nonce
  BY AcceptedProof
<1> HIDE DEF v
<1>2. LedgerInv(r, Append(log, v), epoch)
  BY <1>1, EventAppended
<1> QED
  BY <1>2 DEF v

\* The invariant of a ledger depends only on owners, existence, emptiness and
\* nonces of its registries.
LEMMA SameNonces ==
  ASSUME LedgerInv(registry, log, epoch), NEW r, BoundToSeeds(r),
         \A x \in Wallets : r[x].nonce = registry[x].nonce
  PROVE  LedgerInv(r, log, epoch)
BY DEF LedgerInv, Accounted

LEMMA InitInv == Init => IInv
<1> SUFFICES ASSUME Init PROVE IInv
  OBVIOUS
<1>1. BoundToSeeds(registry)
  BY NoKeysType DEF Init, BoundToSeeds, EmptyRegistry
<1>2. /\ DOMAIN log = {} /\ DOMAIN tx = {}
      /\ committed.registry = registry /\ committed.log = log /\ committed.epoch = epoch
  BY DEF Init
<1>3. Accounted(registry, log, epoch)
  BY <1>2 DEF Init, Accounted, EmptyRegistry
<1>4. LedgerInv(registry, log, epoch)
  BY <1>1, <1>2, <1>3 DEF LedgerInv, Signed, NoncesIncrease, EpochsPassed
<1> QED
  BY <1>2, <1>4, IInvParts DEF TxSigned

\* Signatures are never withdrawn, so it is enough to establish the invariant of
\* the next state against the signatures made so far.
LEMMA InvPrime ==
  ASSUME approvals \subseteq approvals',
         LedgerInv(registry', log', epoch'),
         LedgerInv(committed'.registry, committed'.log, committed'.epoch),
         TxSigned(tx')
  PROVE  IInv'
<1>1. LedgerInv(registry, log, epoch)'
  BY DEF LedgerInv, BoundToSeeds, Signed, NoncesIncrease, Accounted, EpochsPassed
<1>2. LedgerInv(committed.registry, committed.log, committed.epoch)'
  BY DEF LedgerInv, BoundToSeeds, Signed, NoncesIncrease, Accounted, EpochsPassed
<1>3. TxSigned(tx)'
  BY DEF TxSigned
<1> QED
  BY <1>1, <1>2, <1>3 DEF IInv, LedgerInv, RegistryBoundToSeeds, EveryProofWasSigned,
     NoReplay, AuditTrailComplete, TxSigned

LEMMA InvStep == TypeOK /\ IInv /\ [Next]_vars => IInv'
<1> SUFFICES ASSUME TypeOK, IInv, [Next]_vars PROVE IInv'
  OBVIOUS
<1> USE DEF ledger
<1>0. /\ LedgerInv(registry, log, epoch)
      /\ LedgerInv(committed.registry, committed.log, committed.epoch)
      /\ TxSigned(tx)
  BY IInvParts
<1>1. /\ registry \in [Wallets -> Registry]
      /\ epoch \in [Wallets -> Nat]
      /\ log \in Seq(Events)
      /\ tx \in Seq(Instructions)
  BY DEF TypeOK, LedgerOK
<1>2. ASSUME NEW w \in Wallets, NEW f1 \in Fees, NEW f2 \in Fees, NEW t \in Treasuries,
             InitConfig(w, f1, f2, t) \/ UpdateConfig(w, f1, f2, t)
      PROVE  IInv'
  <2>1. TxSigned(tx')
    BY <1>2, SignedFrames, PlainCallType DEF InitConfig, UpdateConfig, TopLevel, PlainOps
  <2> QED
    BY <1>0, <1>2, <2>1, InvPrime DEF InitConfig, UpdateConfig
<1>3. ASSUME NEW w \in Wallets, NEW e \in Entry, NEW t \in Treasuries,
             RegisterPasskey(w, e, t)
      PROVE  IInv'
  <2>1. TxSigned(tx')
    BY <1>3, SignedFrames, PlainCallType DEF RegisterPasskey, TopLevel, PlainOps
  <2>2. BoundToSeeds(registry')
    BY <1>0, <1>1, <1>3 DEF RegisterPasskey, Registered, LedgerInv, BoundToSeeds, Registry
  <2>3. \A x \in Wallets : registry'[x].nonce = registry[x].nonce
    BY <1>1, <1>3 DEF RegisterPasskey, Registered, Registry
  <2>4. LedgerInv(registry', log, epoch)
    BY <1>0, <2>2, <2>3, SameNonces
  <2> QED
    BY <1>0, <1>3, <2>1, <2>4, InvPrime DEF RegisterPasskey
<1>4. ASSUME NEW w \in Wallets, NEW e \in Entry, RecoverRegistry(w, e)
      PROVE  IInv'
  <2>1. TxSigned(tx')
    BY <1>4, SignedFrames, PlainCallType DEF RecoverRegistry, TopLevel, PlainOps
  <2>2. /\ registry'[w].nonce = 0
        /\ registry'[w].owner = w
        /\ epoch'[w] = epoch[w] + 1
        /\ \A x \in Wallets : x # w => registry'[x] = registry[x] /\ epoch'[x] = epoch[x]
        /\ log' = log
    BY <1>1, <1>4 DEF RecoverRegistry, Recovered, Registry
  <2>3. BoundToSeeds(registry')
    BY <1>0, <2>2 DEF LedgerInv, BoundToSeeds
  <2>4. \A i \in DOMAIN log : log[i].registry \in Wallets /\ log[i].epoch \in Nat
    <3>1. \A i \in DOMAIN log : log[i] \in Events
      BY <1>1
    <3> QED
      BY <3>1 DEF Events
  <2>5. \A i \in DOMAIN log : log[i].registry = w => log[i].epoch # epoch'[w]
    BY <1>0, <1>1, <2>2, <2>4 DEF LedgerInv, EpochsPassed
  <2>6. Accounted(registry', log', epoch')
    <3> SUFFICES ASSUME NEW x \in Wallets, NEW n \in 0..MaxNonce
                 PROVE  n < registry'[x].nonce <=>
                          \E i \in DOMAIN log : /\ log[i].registry = x
                                                /\ log[i].epoch = epoch'[x]
                                                /\ log[i].intent.nonce = n
      BY <2>2 DEF Accounted
    <3>1. CASE x = w
      BY <2>2, <2>5, <3>1
    <3>2. CASE x # w
      BY <1>0, <2>2, <3>2 DEF LedgerInv, Accounted
    <3> QED
      BY <3>1, <3>2
  <2>7. EpochsPassed(log', epoch')
    BY <1>0, <1>1, <2>2, <2>4 DEF LedgerInv, EpochsPassed
  <2>8. LedgerInv(registry', log', epoch')
    BY <1>0, <2>2, <2>3, <2>6, <2>7 DEF LedgerInv
  <2> QED
    BY <1>0, <1>4, <2>1, <2>8, InvPrime DEF RecoverRegistry
<1>5. ASSUME NEW w \in Wallets, NEW e \in Entry, NEW t \in Treasuries, AddPasskey(w, e, t)
      PROVE  IInv'
  <2>1. tx' \in Seq(Instructions) /\ TxSigned(tx')
    BY <1>5, SignedFrames, KeyCallType DEF AddPasskey
  <2>2. ProofAccepted(tx', w, w, "trana.require") /\ log' = Append(log, ProofVerified(tx', w, w))
    BY <1>5 DEF AddPasskey
  <2>3. registry[w].nonce < MaxNonce
    BY <2>1, <2>2, AcceptedProof
  <2>4. /\ registry'[w].nonce = registry[w].nonce + 1
        /\ \A x \in Wallets : /\ registry'[x].owner = registry[x].owner
                              /\ x # w => registry'[x] = registry[x]
        /\ registry[w].exists
    BY <1>1, <1>5, <2>3 DEF AddPasskey, NonceConsumed, Registry
  <2>5. BoundToSeeds(registry')
    BY <1>0, <2>4, BoundKept DEF LedgerInv
  <2>6. LedgerInv(registry', log', epoch)
    BY <1>0, <2>1, <2>2, <2>4, <2>5, ProofAppended
  <2> QED
    BY <1>0, <1>5, <2>1, <2>6, InvPrime DEF AddPasskey
<1>6. ASSUME NEW w \in Wallets, NEW c \in CredIds, RemovePasskey(w, c)
      PROVE  IInv'
  <2>1. tx' \in Seq(Instructions) /\ TxSigned(tx')
    BY <1>6, SignedFrames, KeyCallType DEF RemovePasskey
  <2>2. ProofAccepted(tx', w, w, "trana.require") /\ log' = Append(log, ProofVerified(tx', w, w))
    BY <1>6 DEF RemovePasskey
  <2>3. registry[w].nonce < MaxNonce
    BY <2>1, <2>2, AcceptedProof
  <2>4. /\ registry'[w].nonce = registry[w].nonce + 1
        /\ \A x \in Wallets : /\ registry'[x].owner = registry[x].owner
                              /\ x # w => registry'[x] = registry[x]
        /\ registry[w].exists
    BY <1>1, <1>6, <2>3 DEF RemovePasskey, NonceConsumed, Registry
  <2>5. BoundToSeeds(registry')
    BY <1>0, <2>4, BoundKept DEF LedgerInv
  <2>6. LedgerInv(registry', log', epoch)
    BY <1>0, <2>1, <2>2, <2>4, <2>5, ProofAppended
  <2> QED
    BY <1>0, <1>6, <2>1, <2>6, InvPrime DEF RemovePasskey
<1>7. ASSUME NEW w \in Wallets, NEW r \in Wallets, NEW p \in Policies, Enforce(w, r, p)
      PROVE  IInv'
  <2>1. CASE UNCHANGED <<log, registry>>
    BY <1>0, <1>7, <2>1, InvPrime DEF Enforce
  <2>2. CASE /\ registry[r].exists /\ registry[r].owner = w
             /\ ProofAccepted(tx, w, r, p.id)
             /\ log' = Append(log, ProofVerified(tx, w, r))
             /\ registry' = NonceConsumed(r)
    <3>1. r = w
      BY <1>0, <2>2 DEF LedgerInv, BoundToSeeds
    <3>2. ProofAccepted(tx, w, w, p.id) /\ registry[w].nonce < MaxNonce
      <4>1. ProofAccepted(tx, w, w, p.id)
        BY <2>2, <3>1
      <4> QED
        BY <1>0, <1>1, <4>1, AcceptedProof
    <3>3. /\ registry'[w].nonce = registry[w].nonce + 1
          /\ \A x \in Wallets : /\ registry'[x].owner = registry[x].owner
                                /\ registry'[x].keys = registry[x].keys
                                /\ x # w => registry'[x] = registry[x]
      BY <1>1, <2>2, <3>1, <3>2, ConsumedType
    <3>4. BoundToSeeds(registry')
      BY <1>0, <2>2, <3>1, <3>3, BoundKept DEF LedgerInv
    <3>5. LedgerInv(registry', log', epoch)
      BY <1>0, <1>1, <2>2, <3>1, <3>2, <3>3, <3>4, ProofAppended
    <3> QED
      BY <1>0, <1>7, <3>5, InvPrime DEF Enforce
  <2> QED
    BY <1>7, <2>1, <2>2 DEF Enforce, Enforced, OwnsRegistry
<1>8. ASSUME NEW a \in approvals, Secp256r1(a)
      PROVE  IInv'
  <2>1. [key |-> a.key, intent |-> a.intent] \in approvals
    BY DEF TypeOK, Approvals
  <2>2. TxSigned(tx')
    BY <1>0, <1>1, <1>8, <2>1 DEF Secp256r1, Secp256r1Ix, TxSigned
  <2> QED
    BY <1>0, <1>8, <2>2, InvPrime DEF Secp256r1
<1>9. ASSUME NEW p, NEW expiry, NEW i, RecordProof(p, expiry, i)
      PROVE  IInv'
  <2>1. TxSigned(tx')
    BY <1>0, <1>1, <1>9 DEF RecordProof, RecordProofIx, TxSigned
  <2> QED
    BY <1>0, <1>9, <2>1, InvPrime DEF RecordProof
<1>10. ASSUME NEW ix \in Calls, ProtectedCall(ix)
       PROVE  IInv'
  <2>1. ix.kind = "call"
    BY DEF Calls
  <2>2. TxSigned(tx')
    BY <1>0, <1>1, <1>10, <2>1 DEF ProtectedCall, TxSigned
  <2> QED
    BY <1>0, <1>10, <2>2, InvPrime DEF ProtectedCall
<1>11. ASSUME Commit
       PROVE  IInv'
  <2>1. TxSigned(tx')
    BY <1>11 DEF Commit, TxSigned
  <2> QED
    BY <1>0, <1>11, <2>1, InvPrime DEF Commit
<1>12. ASSUME Abort
       PROVE  IInv'
  <2>1. TxSigned(tx')
    BY <1>12 DEF Abort, TxSigned
  <2> QED
    BY <1>0, <1>12, <2>1, InvPrime DEF Abort
<1>13. ASSUME NEW k \in PubKeys, NEW ix \in Calls, NEW p \in SignedPolicies,
              NEW ttl \in Ttls, Approve(k, ix, p, ttl)
       PROVE  IInv'
  BY <1>0, <1>13, InvPrime DEF Approve
<1>14. ASSUME Tick
       PROVE  IInv'
  BY <1>0, <1>14, InvPrime DEF Tick
<1>15. CASE UNCHANGED vars
  BY <1>0, <1>15, InvPrime DEF vars
<1> QED
  BY <1>2, <1>3, <1>4, <1>5, <1>6, <1>7, <1>8, <1>9, <1>10, <1>11, <1>12, <1>13,
     <1>14, <1>15 DEF Next, GuardInstruction, ProofPair, Sign

-----------------------------------------------------------------------------
(* The theorems.                                                           *)

\* The inductive invariant holds of every reachable state.
THEOREM Invariance == Spec => [](TypeOK /\ IInv)
<1>1. Init => TypeOK /\ IInv
  BY InitType, InitInv
<1>2. TypeOK /\ IInv /\ [Next]_vars => TypeOK' /\ IInv'
  BY TypeStep, InvStep
<1> QED
  BY <1>1, <1>2, PTL DEF Spec

\* Accounts keep their types; nonces and key vectors stay within their bounds.
THEOREM TypeCorrect == Spec => []TypeOK
BY Invariance, PTL

\* enforce() may rely on the owner field alone: a registry that exists belongs to
\* the wallet whose address derives it.
THEOREM BoundRegistries == Spec => []RegistryBoundToSeeds
<1>1. IInv => RegistryBoundToSeeds
  BY DEF IInv
<1> QED
  BY <1>1, Invariance, PTL

\* The program's single guarantee: every accepted proof is a device's signature on
\* exactly the verified intent, charged to the registry of its own wallet.
THEOREM ProofsWereSigned == Spec => []EveryProofWasSigned
<1>1. IInv => EveryProofWasSigned
  BY DEF IInv
<1> QED
  BY <1>1, Invariance, PTL

\* No signature is accepted twice between two recoveries of a registry.
THEOREM ReplayProtection == Spec => []NoReplay
<1>1. IInv => NoReplay
  BY DEF IInv
<1> QED
  BY <1>1, Invariance, PTL

\* The nonces consumed since the last recovery are those of the events, no fewer
\* and no more.
THEOREM AuditTrail == Spec => []AuditTrailComplete
<1>1. IInv => AuditTrailComplete
  BY DEF IInv
<1> QED
  BY <1>1, Invariance, PTL

=============================================================================
