----------------------- MODULE GuardRefinementProofs ------------------------
(***************************************************************************)
(* What the steps of TranaGuard do, for any number of wallets, keys,       *)
(* programs and nonces.  First: it implements PasskeyAuthorization, each   *)
(* action mapping to a step of the abstract specification or to a stutter, *)
(* under the inductive invariant.  Then: what one commit may change of the *)
(* ledger of the commit before it.                                         *)
(***************************************************************************)
EXTENDS GuardRefinement, TranaGuardProofs, SequenceTheorems

-----------------------------------------------------------------------------
(* How the mapping sees a change of one registry.                          *)

EntriesOf(k) == {k[i] : i \in DOMAIN k}

\* A push below the capacity adds its entry to the set of keys.
LEMMA PushedEntries ==
  ASSUME NEW k \in Keys, NEW e \in Entry, Cardinality(DOMAIN k) < MAX_KEYS
  PROVE  EntriesOf(Pushed(k, e)) = EntriesOf(k) \cup {e}
<1>1. FreeSlot(k) \notin DOMAIN k
  BY FreeSlotIsFree
<1> QED
  BY <1>1 DEF Pushed, EntriesOf

\* retain drops the entries with the given credential id and no other.
LEMMA RetainedEntries ==
  ASSUME NEW k, NEW cred
  PROVE  EntriesOf(Retained(k, cred)) = {e \in EntriesOf(k) : e.cred # cred}
BY DEF Retained, EntriesOf

\* A registry array that differs at w only, in its keys and its nonce.
LEMMA MappedAt ==
  ASSUME registry \in [Wallets -> Registry], NEW w \in Wallets, NEW r,
         \A x \in Wallets : x # w => r[x] = registry[x]
  PROVE  /\ KeySets(r)  = [KeySets(registry) EXCEPT ![w] = EntriesOf(r[w].keys)]
         /\ Nonces(r)   = [Nonces(registry)  EXCEPT ![w] = r[w].nonce]
         /\ KeySets(registry)[w] = EntriesOf(registry[w].keys)
         /\ Nonces(registry)[w]  = registry[w].nonce
BY DEF KeySets, Nonces, EntriesOf

\* The same, as updates of the abstract variables.
LEMMA MappedSame ==
  ASSUME NEW r, \A x \in Wallets : /\ r[x].keys = registry[x].keys
                                   /\ r[x].nonce = registry[x].nonce
  PROVE  KeySets(r) = KeySets(registry) /\ Nonces(r) = Nonces(registry)
BY DEF KeySets, Nonces

\* Append, as the function it builds.
LEMMA AppendIsFunction ==
  ASSUME NEW T, NEW q \in Seq(T), NEW x \in T
  PROVE  Append(q, x) = [i \in 1..Len(q) + 1 |-> IF i = Len(q) + 1 THEN x ELSE q[i]]
<1> DEFINE p == Append(q, x)
<1>1. /\ p \in Seq(T) /\ Len(p) = Len(q) + 1
      /\ \A i \in 1..Len(q) : p[i] = q[i]
      /\ p[Len(q) + 1] = x
  BY AppendProperties
<1>2. Len(q) \in Nat
  OBVIOUS
<1> HIDE DEF p
<1>3. p \in [1..Len(q) + 1 -> T]
  BY <1>1
<1>4. \A i \in 1..Len(q) + 1 : p[i] = IF i = Len(q) + 1 THEN x ELSE q[i]
  BY <1>1, <1>2
<1>5. p = [i \in 1..Len(q) + 1 |-> IF i = Len(q) + 1 THEN x ELSE q[i]]
  BY <1>3, <1>4
<1> QED
  BY <1>5 DEF p

\* The request behind an event.
RequestOf(v) == [s |-> [key |-> v.key, intent |-> v.intent], era |-> v.epoch]

\* An event joins the abstract history as its request.
LEMMA RequestAppended ==
  ASSUME log \in Seq(Events), NEW v \in Events
  PROVE  Requests(Append(log, v)) = Append(Requests(log), RequestOf(v))
<1>1. /\ DOMAIN Append(log, v) = 1..Len(log) + 1
      /\ \A i \in 1..Len(log) : Append(log, v)[i] = log[i]
      /\ Append(log, v)[Len(log) + 1] = v
      /\ DOMAIN log = 1..Len(log) /\ Len(log) \in Nat
  OBVIOUS
<1>2. /\ DOMAIN Requests(log) = 1..Len(log)
      /\ Requests(log) \in Seq({RequestOf(x) : x \in Events})
  <2>1. \A i \in 1..Len(log) : log[i] \in Events
    BY <1>1
  <2>2. Requests(log) = [i \in 1..Len(log) |-> RequestOf(log[i])]
    BY <1>1 DEF Requests, RequestOf
  <2> QED
    BY <1>1, <2>1, <2>2
<1>3. Len(Requests(log)) = Len(log)
  BY <1>1, <1>2
<1>4. Append(Requests(log), RequestOf(v)) =
        [i \in 1..Len(log) + 1 |-> IF i = Len(log) + 1 THEN RequestOf(v) ELSE Requests(log)[i]]
  <2> DEFINE T == {RequestOf(x) : x \in Events}
             q == Requests(log)
             y == RequestOf(v)
  <2>1. q \in Seq(T) /\ y \in T /\ Len(q) = Len(log)
    BY <1>2, <1>3
  <2> HIDE DEF T, q, y
  <2>2. Append(q, y) = [i \in 1..Len(q) + 1 |-> IF i = Len(q) + 1 THEN y ELSE q[i]]
    BY <2>1, AppendIsFunction
  <2>3. Append(q, y) = [i \in 1..Len(log) + 1 |-> IF i = Len(log) + 1 THEN y ELSE q[i]]
    BY <2>1, <2>2
  <2> QED
    BY <2>3 DEF q, y
<1>5. \A i \in 1..Len(log) : Requests(log)[i] = RequestOf(log[i])
  BY <1>1 DEF Requests, RequestOf
<1>6. Requests(Append(log, v)) = [i \in 1..Len(log) + 1 |-> RequestOf(Append(log, v)[i])]
  BY <1>1 DEF Requests, RequestOf
<1> QED
  BY <1>1, <1>4, <1>5, <1>6

\* What the verification checks is what the abstract specification asks of a
\* request: a registered key signed it, for the current nonce, in time.
LEMMA RequestAcceptable ==
  ASSUME TypeOK, NEW t \in Seq(Instructions), TxSigned(t), NEW w \in Wallets,
         NEW policy, ProofAccepted(t, w, w, policy)
  PROVE  LET v == ProofVerified(t, w, w)
             s == [key |-> v.key, intent |-> v.intent]
         IN /\ s \in approvals
            /\ Authorization!Acceptable(s)
            /\ s.intent.wallet = w
            /\ s.intent.ix = Current(t)
            /\ v \in Events
            /\ RequestOf(v) = [s |-> s, era |-> epoch[w]]
            /\ log \in Seq(Events)
<1> DEFINE v     == ProofVerified(t, w, w)
           s     == [key |-> v.key, intent |-> v.intent]
           proof == t[Len(t) - 1]
<1>1. /\ s \in approvals /\ v \in Events
      /\ v.intent.wallet = w /\ v.epoch = epoch[w]
      /\ v.intent.nonce = registry[w].nonce
  BY AcceptedProof
<1>2. v.key = t[Len(t) - 2].key /\ v.intent = proof.challenge
  BY DEF ProofVerified
<1>3. /\ proof.challenge = Intent(w, policy, Current(t), registry[w].nonce, proof.expiry)
      /\ clock.time < proof.expiry
      /\ t[Len(t) - 2].key \in RegistryKeys(w)
  BY DEF ProofAccepted, KnownKey
<1>4. v.intent.ix = Current(t) /\ clock.time < v.intent.expiry
  BY <1>2, <1>3 DEF Intent
<1>5. \E e \in KeySets(registry)[w] : e.pubkey = v.key
  BY <1>2, <1>3 DEF RegistryKeys, KeySets
<1>6. Nonces(registry)[w] = registry[w].nonce
  BY DEF Nonces
<1>7. log \in Seq(Events)
  BY DEF TypeOK, LedgerOK
<1> HIDE DEF v
<1>8. Authorization!Acceptable(s)
  BY <1>1, <1>4, <1>5, <1>6 DEF Authorization!Acceptable
<1> QED
  BY <1>1, <1>4, <1>7, <1>8 DEF v, RequestOf

-----------------------------------------------------------------------------
(* One lemma per instruction the abstract specification sees.              *)

\* What no step of the running transaction changes.
LEMMA LedgerStepSuffices ==
  ASSUME Authorization!LedgerStep, UNCHANGED <<approvals, committed, clock>>
  PROVE  Authorization!AuthorNext
BY DEF Authorization!AuthorNext

\* A step that keeps what the mapping reads is a stutter.
LEMMA Stutter ==
  ASSUME UNCHANGED <<registry, epoch, log, approvals, committed, clock>>
  PROVE  UNCHANGED Authorization!authorVars
BY DEF Authorization!authorVars, Authorization!chain, KeySets, Nonces, Requests

\* register_passkey fills an empty set of keys.
LEMMA RegisterStep ==
  ASSUME TypeOK, NEW w \in Wallets, NEW e \in Entry, NEW t \in Treasuries,
         RegisterPasskey(w, e, t)
  PROVE  Authorization!AuthorNext
<1>1. /\ registry \in [Wallets -> Registry]
      /\ registry' = Registered(w, e)
      /\ DOMAIN registry[w].keys = {}
      /\ UNCHANGED <<log, epoch, committed, approvals, clock>>
  BY DEF RegisterPasskey, RegistryVacant, TypeOK, LedgerOK
<1>2. /\ registry'[w].keys = Pushed(registry[w].keys, e)
      /\ registry'[w].nonce = registry[w].nonce
      /\ \A x \in Wallets : x # w => registry'[x] = registry[x]
  BY <1>1 DEF Registered, Registry
<1>3. EntriesOf(registry[w].keys) = {} /\ EntriesOf(registry'[w].keys) = {e}
  <2>1. Cardinality(DOMAIN registry[w].keys) < MAX_KEYS /\ registry[w].keys \in Keys
    BY <1>1, FS_EmptySet, ConstantsAssumption DEF Registry
  <2>2. EntriesOf(registry[w].keys) = {}
    BY <1>1 DEF EntriesOf
  <2> QED
    BY <1>2, <2>1, <2>2, PushedEntries
<1>4. /\ KeySets(registry)[w] = {}
      /\ KeySets(registry') = [KeySets(registry) EXCEPT ![w] = {e}]
      /\ Nonces(registry') = Nonces(registry)
  <2>1. Nonces(registry') = Nonces(registry)
    BY <1>2 DEF Nonces
  <2> QED
    BY <1>1, <1>2, <1>3, <2>1, MappedAt
<1>5. Authorization!RegisterKey(w, e)
  BY <1>1, <1>4 DEF Authorization!RegisterKey, Requests, KeySets, Nonces
<1>6. Authorization!LedgerStep
  BY <1>5 DEF Authorization!LedgerStep
<1> QED
  BY <1>1, <1>6, LedgerStepSuffices

\* recover_registry replaces the set of keys and starts an era.
LEMMA RecoverStep ==
  ASSUME TypeOK, NEW w \in Wallets, NEW e \in Entry, RecoverRegistry(w, e)
  PROVE  Authorization!AuthorNext
<1>1. /\ registry \in [Wallets -> Registry]
      /\ registry' = Recovered(w, e)
      /\ epoch' = [epoch EXCEPT ![w] = @ + 1]
      /\ UNCHANGED <<log, committed, approvals, clock>>
  BY DEF RecoverRegistry, TypeOK, LedgerOK
<1>2. /\ registry'[w].keys = Pushed(<<>>, e)
      /\ registry'[w].nonce = 0
      /\ \A x \in Wallets : x # w => registry'[x] = registry[x]
  BY <1>1 DEF Recovered, Registry
<1>3. EntriesOf(registry'[w].keys) = {e}
  <2>1. Cardinality(DOMAIN <<>>) < MAX_KEYS /\ <<>> \in Keys /\ EntriesOf(<<>>) = {}
    BY NoKeysType, FS_EmptySet, ConstantsAssumption DEF EntriesOf
  <2> QED
    BY <1>2, <2>1, PushedEntries
<1>4. /\ KeySets(registry') = [KeySets(registry) EXCEPT ![w] = {e}]
      /\ Nonces(registry') = [Nonces(registry) EXCEPT ![w] = 0]
  BY <1>1, <1>2, <1>3, MappedAt
<1>5. Authorization!Recover(w, e)
  BY <1>1, <1>4 DEF Authorization!Recover, Requests
<1>6. Authorization!LedgerStep
  BY <1>5 DEF Authorization!LedgerStep
<1> QED
  BY <1>1, <1>6, LedgerStepSuffices

\* The running instruction of a frame for a guard call is that call, or an
\* instruction of another program that makes it.
LEMMA FrameAllows ==
  ASSUME TypeOK, NEW op, NEW w, NEW arg, GuardCall(op, w, arg) \in Instructions,
         NEW t \in Frames(GuardCall(op, w, arg)), NEW s, s.intent.ix = Current(t)
  PROVE  Authorization!Allows(s, op, arg)
<1>1. CASE t = Append(tx, GuardCall(op, w, arg))
  <2>1. Current(t) = GuardCall(op, w, arg)
    BY <1>1 DEF TypeOK, Current
  <2> QED
    BY <2>1 DEF GuardCall, Authorization!Allows
<1>2. CASE Current(t).program # Guard
  BY <1>2 DEF Authorization!Allows
<1> QED
  BY <1>1, <1>2 DEF Frames

\* An accepted proof, as the abstract history and nonces record it.
LEMMA AcceptedStep ==
  ASSUME TypeOK, NEW t \in Seq(Instructions), TxSigned(t), NEW w \in Wallets,
         NEW policy, ProofAccepted(t, w, w, policy),
         log' = Append(log, ProofVerified(t, w, w)),
         registry'[w].nonce = registry[w].nonce + 1,
         \A x \in Wallets : x # w => registry'[x] = registry[x],
         UNCHANGED <<epoch, committed, approvals, clock>>
  PROVE  \E s \in approvals : /\ Authorization!Accepted(s)
                              /\ s.intent.wallet = w
                              /\ s.intent.ix = Current(t)
<1> DEFINE v == ProofVerified(t, w, w)
           s == [key |-> v.key, intent |-> v.intent]
<1>1. /\ s \in approvals
      /\ Authorization!Acceptable(s)
      /\ s.intent.wallet = w
      /\ s.intent.ix = Current(t)
      /\ v \in Events
      /\ RequestOf(v) = [s |-> s, era |-> epoch[w]]
      /\ log \in Seq(Events)
  BY RequestAcceptable
<1>2. registry \in [Wallets -> Registry]
  BY DEF TypeOK, LedgerOK
<1>3. Nonces(registry') = [Nonces(registry) EXCEPT ![w] = @ + 1]
  BY <1>2, MappedAt
<1>4. Requests(log') = Append(Requests(log), [s |-> s, era |-> epoch[w]])
  <2> HIDE DEF v
  <2>1. log' = Append(log, v)
    BY DEF v
  <2>2. Requests(Append(log, v)) = Append(Requests(log), RequestOf(v))
    BY <1>1, RequestAppended
  <2> QED
    BY <1>1, <2>1, <2>2
<1> HIDE DEF s
<1>5. Authorization!Accepted(s)
  BY <1>1, <1>3, <1>4 DEF Authorization!Accepted
<1> QED
  BY <1>1, <1>5

\* add_passkey adds the key the request names, or another program's instruction
\* carries the request.
LEMMA AddStep ==
  ASSUME TypeOK, IInv, NEW w \in Wallets, NEW e \in Entry, NEW t \in Treasuries,
         AddPasskey(w, e, t)
  PROVE  Authorization!AuthorNext
<1>1. /\ registry \in [Wallets -> Registry]
      /\ tx' \in Seq(Instructions) /\ TxSigned(tx')
      /\ ProofAccepted(tx', w, w, "trana.require")
      /\ log' = Append(log, ProofVerified(tx', w, w))
      /\ registry' = [NonceConsumed(w) EXCEPT ![w].keys = Pushed(@, e)]
      /\ Cardinality(DOMAIN registry[w].keys) < MAX_KEYS
      /\ UNCHANGED <<epoch, committed, approvals, clock>>
  BY SignedFrames, KeyCallType DEF AddPasskey, HasRoom, KeyCount, TypeOK, LedgerOK
<1>2. registry[w].nonce < MaxNonce
  BY <1>1, AcceptedProof
<1>3. /\ registry'[w].nonce = registry[w].nonce + 1
      /\ registry'[w].keys = Pushed(registry[w].keys, e)
      /\ \A x \in Wallets : x # w => registry'[x] = registry[x]
  BY <1>1, <1>2 DEF NonceConsumed, Registry
<1>4. PICK s \in approvals : /\ Authorization!Accepted(s)
                             /\ s.intent.wallet = w
                             /\ s.intent.ix = Current(tx')
  BY <1>1, <1>3, AcceptedStep
<1>5. Authorization!Allows(s, "add_passkey", e)
  BY <1>4, FrameAllows, KeyCallType DEF AddPasskey
<1>6. KeySets(registry') = [KeySets(registry) EXCEPT ![w] = @ \cup {e}]
  <2>1. registry[w].keys \in Keys
    BY <1>1 DEF Registry
  <2>2. EntriesOf(registry'[w].keys) = EntriesOf(registry[w].keys) \cup {e}
    BY <1>1, <1>3, <2>1, PushedEntries
  <2>3. /\ KeySets(registry') = [KeySets(registry) EXCEPT ![w] = EntriesOf(registry'[w].keys)]
       /\ KeySets(registry)[w] = EntriesOf(registry[w].keys)
    <3>1. registry \in [Wallets -> Registry]
      BY <1>1
    <3>2. \A x \in Wallets : x # w => registry'[x] = registry[x]
      BY <1>3
    <3> QED
      BY <3>1, <3>2, MappedAt
  <2> QED
    BY <2>2, <2>3
<1>7. Authorization!AddKey(s, e)
  BY <1>4, <1>5, <1>6 DEF Authorization!AddKey
<1>8. Authorization!LedgerStep
  BY <1>7 DEF Authorization!LedgerStep
<1> QED
  BY <1>1, <1>8, LedgerStepSuffices

\* remove_passkey drops the keys with the credential id the request names.
LEMMA RemoveStep ==
  ASSUME TypeOK, IInv, NEW w \in Wallets, NEW c \in CredIds, RemovePasskey(w, c)
  PROVE  Authorization!AuthorNext
<1>1. /\ registry \in [Wallets -> Registry]
      /\ tx' \in Seq(Instructions) /\ TxSigned(tx')
      /\ ProofAccepted(tx', w, w, "trana.require")
      /\ log' = Append(log, ProofVerified(tx', w, w))
      /\ registry' = [NonceConsumed(w) EXCEPT ![w].keys = Retained(@, c)]
      /\ UNCHANGED <<epoch, committed, approvals, clock>>
  BY SignedFrames, KeyCallType DEF RemovePasskey, TypeOK, LedgerOK
<1>2. registry[w].nonce < MaxNonce
  BY <1>1, AcceptedProof
<1>3. /\ registry'[w].nonce = registry[w].nonce + 1
      /\ registry'[w].keys = Retained(registry[w].keys, c)
      /\ \A x \in Wallets : x # w => registry'[x] = registry[x]
  BY <1>1, <1>2 DEF NonceConsumed, Registry
<1>4. PICK s \in approvals : /\ Authorization!Accepted(s)
                             /\ s.intent.wallet = w
                             /\ s.intent.ix = Current(tx')
  BY <1>1, <1>3, AcceptedStep
<1>5. Authorization!Allows(s, "remove_passkey", [cred |-> c])
  BY <1>4, FrameAllows, KeyCallType DEF RemovePasskey
<1>6. KeySets(registry') = [KeySets(registry) EXCEPT ![w] = {e \in @ : e.cred # c}]
  <2>1. EntriesOf(registry'[w].keys) = {e \in EntriesOf(registry[w].keys) : e.cred # c}
    BY <1>3, RetainedEntries
  <2>2. /\ KeySets(registry') = [KeySets(registry) EXCEPT ![w] = EntriesOf(registry'[w].keys)]
       /\ KeySets(registry)[w] = EntriesOf(registry[w].keys)
    <3>1. registry \in [Wallets -> Registry]
      BY <1>1
    <3>2. \A x \in Wallets : x # w => registry'[x] = registry[x]
      BY <1>3
    <3> QED
      BY <3>1, <3>2, MappedAt
  <2> QED
    BY <2>1, <2>2
<1>7. Authorization!RemoveKey(s, c)
  BY <1>4, <1>5, <1>6 DEF Authorization!RemoveKey
<1>8. PICK e \in Entry : e.cred = c
  <2>1. PICK i \in DOMAIN registry[w].keys : registry[w].keys[i].cred = c
    BY DEF RemovePasskey
  <2>2. registry[w].keys \in Keys
    BY <1>1 DEF Registry
  <2> QED
    BY <2>1, <2>2 DEF Keys
<1>9. Authorization!LedgerStep
  BY <1>7, <1>8 DEF Authorization!LedgerStep
<1> QED
  BY <1>1, <1>9, LedgerStepSuffices

\* enforce accepts a request and changes no key; when its policy asks for no proof
\* it changes nothing.
LEMMA EnforceStep ==
  ASSUME TypeOK, IInv, NEW w \in Wallets, NEW r \in Wallets, NEW p \in Policies,
         Enforce(w, r, p)
  PROVE  Authorization!AuthorNext \/ UNCHANGED Authorization!authorVars
<1>1. /\ registry \in [Wallets -> Registry]
      /\ tx \in Seq(Instructions) /\ TxSigned(tx)
      /\ UNCHANGED <<epoch, committed, approvals, clock>>
  BY DEF Enforce, TypeOK, LedgerOK, IInv, TxSigned
<1>2. CASE UNCHANGED <<log, registry>>
  BY <1>1, <1>2, Stutter
<1>3. CASE /\ registry[r].exists /\ registry[r].owner = w
           /\ ProofAccepted(tx, w, r, p.id)
           /\ log' = Append(log, ProofVerified(tx, w, r))
           /\ registry' = NonceConsumed(r)
  <2>1. r = w
    BY <1>3 DEF IInv, RegistryBoundToSeeds, BoundToSeeds
  <2>2. ProofAccepted(tx, w, w, p.id) /\ log' = Append(log, ProofVerified(tx, w, w))
    BY <1>3, <2>1
  <2>3. registry[w].nonce < MaxNonce
    BY <1>1, <2>2, AcceptedProof
  <2>4. /\ registry'[w].nonce = registry[w].nonce + 1
        /\ \A x \in Wallets : /\ registry'[x].keys = registry[x].keys
                              /\ x # w => registry'[x] = registry[x]
    BY <1>1, <1>3, <2>1, <2>3, ConsumedType
  <2>5. PICK s \in approvals : Authorization!Accepted(s)
    BY <1>1, <2>2, <2>4, AcceptedStep
  <2>6. KeySets(registry') = KeySets(registry)
    BY <2>4 DEF KeySets
  <2>7. Authorization!LedgerStep
    BY <2>5, <2>6 DEF Authorization!LedgerStep, Authorization!Accept
  <2> QED
    BY <1>1, <2>7, LedgerStepSuffices
<1> QED
  BY <1>2, <1>3 DEF Enforce, Enforced, OwnsRegistry

-----------------------------------------------------------------------------
(* The refinement.                                                         *)

LEMMA InitMaps == Init => Authorization!AuthorInit
<1> SUFFICES ASSUME Init PROVE Authorization!AuthorInit
  OBVIOUS
<1>1. KeySets(registry) = [w \in Wallets |-> {}]
  BY NoKeysType DEF Init, KeySets, EmptyRegistry
<1>2. Nonces(registry) = [w \in Wallets |-> 0] /\ Requests(log) = <<>>
  BY DEF Init, Nonces, Requests, EmptyRegistry
<1> QED
  BY <1>1, <1>2 DEF Init, Authorization!AuthorInit, Authorization!Ledger

LEMMA StepMaps ==
  TypeOK /\ IInv /\ [Next]_vars => [Authorization!AuthorNext]_(Authorization!authorVars)
<1> SUFFICES ASSUME TypeOK, IInv, [Next]_vars
             PROVE  Authorization!AuthorNext \/ UNCHANGED Authorization!authorVars
  OBVIOUS
<1> USE DEF ledger
<1>1. ASSUME NEW w \in Wallets, NEW f1 \in Fees, NEW f2 \in Fees, NEW t \in Treasuries,
             InitConfig(w, f1, f2, t) \/ UpdateConfig(w, f1, f2, t)
      PROVE  UNCHANGED Authorization!authorVars
  BY <1>1, Stutter DEF InitConfig, UpdateConfig
<1>2. ASSUME NEW a, Secp256r1(a)
      PROVE  UNCHANGED Authorization!authorVars
  BY <1>2, Stutter DEF Secp256r1
<1>3. ASSUME NEW p, NEW expiry, NEW i, RecordProof(p, expiry, i)
      PROVE  UNCHANGED Authorization!authorVars
  BY <1>3, Stutter DEF RecordProof
<1>4. ASSUME NEW ix, ProtectedCall(ix)
      PROVE  UNCHANGED Authorization!authorVars
  BY <1>4, Stutter DEF ProtectedCall
<1>5. CASE Commit
  <2>1. Authorization!Publish /\ UNCHANGED <<registry, epoch, log, approvals, clock>>
    BY <1>5 DEF Commit, Authorization!Publish
  <2> QED
    BY <2>1 DEF Authorization!AuthorNext, Authorization!chain
<1>6. CASE Abort
  <2>1. Authorization!Rollback /\ UNCHANGED <<approvals, clock, committed>>
    BY <1>6 DEF Abort, Authorization!Rollback
  <2> QED
    BY <2>1 DEF Authorization!AuthorNext
<1>7. ASSUME NEW k \in PubKeys, NEW ix \in Calls, NEW p \in SignedPolicies,
             NEW ttl \in Ttls, Approve(k, ix, p, ttl)
      PROVE  Authorization!AuthorNext \/ UNCHANGED Authorization!authorVars
  <2> DEFINE s == [key |-> k, intent |-> BuildIntent(ix, p, ttl)]
  <2>1. s \in Approvals
    BY BuildIntentType DEF Approvals
  <2> HIDE DEF s
  <2>2. /\ approvals' = approvals \cup {s}
        /\ UNCHANGED <<registry, epoch, log, committed, clock>>
    BY <1>7 DEF Approve, s
  <2>3. CASE s \in approvals
    BY <2>2, <2>3, Stutter
  <2>4. CASE s \notin approvals
    <3>1. Authorization!Sign
      BY <2>1, <2>2, <2>4 DEF Authorization!Sign
    <3> QED
      BY <2>2, <3>1 DEF Authorization!AuthorNext, Authorization!chain
  <2> QED
    BY <2>3, <2>4
<1>8. CASE Tick
  <2>1. UNCHANGED <<registry, epoch, log, committed, approvals>>
    BY <1>8 DEF Tick
  <2>2. CASE clock' = [clock EXCEPT !.slot = @ + 1]
    <3>1. clock'.time = clock.time
      BY <2>2 DEF TypeOK
    <3> QED
      BY <2>1, <3>1 DEF Authorization!authorVars, Authorization!chain
  <2>3. CASE clock' = [clock EXCEPT !.time = @ + 1]
    <3>1. clock'.time \in Nat /\ clock'.time > clock.time
      BY <2>3 DEF TypeOK
    <3> QED
      BY <2>1, <3>1 DEF Authorization!AuthorNext, Authorization!Pass, Authorization!chain
  <2> QED
    BY <1>8, <2>2, <2>3 DEF Tick
<1>9. CASE UNCHANGED vars
  BY <1>9, Stutter DEF vars
<1> QED
  BY <1>1, <1>2, <1>3, <1>4, <1>5, <1>6, <1>7, <1>8, <1>9, RegisterStep, RecoverStep,
     AddStep, RemoveStep, EnforceStep DEF Next, GuardInstruction, ProofPair, Sign

\* The program keeps every promise of the abstract specification, for any number of
\* wallets, keys, programs and nonces.
THEOREM Refinement == Spec => AuthorizationImplemented
<1>1. Init => Authorization!AuthorInit
  BY InitMaps
<1>2. TypeOK /\ IInv /\ [Next]_vars => [Authorization!AuthorNext]_(Authorization!authorVars)
  BY StepMaps
<1> QED
  BY <1>1, <1>2, Invariance, PTL DEF Spec, AuthorizationImplemented, Authorization!AuthorSpec

-----------------------------------------------------------------------------
(***************************************************************************)
(* What a committed transaction may do to the ledger before it: theorems   *)
(* about two commits of trana_guard, from an invariant that relates the    *)
(* working ledger to the committed one.                                    *)
(***************************************************************************)
-----------------------------------------------------------------------------
(* One ledger after another: registries r, log g and epochs e of each.     *)

LogGrows(g1, g2) ==
  Len(g1) <= Len(g2) /\ \A i \in DOMAIN g1 : g2[i] = g1[i]

\* A nonce goes back only with a recovery.
NoncesGrow(r1, e1, r2, e2) ==
  \A w \in Wallets : /\ e1[w] <= e2[w]
                     /\ r2[w].nonce < r1[w].nonce => e1[w] < e2[w]

\* Keys of a registry that has some change only with a recovery or an event.
KeysJustified(r1, g1, e1, r2, g2, e2) ==
  \A w \in Wallets :
    r2[w].keys # r1[w].keys =>
      \/ DOMAIN r1[w].keys = {}
      \/ e1[w] < e2[w]
      \/ \E i \in Len(g1) + 1 .. Len(g2) : g2[i].registry = w

Follows(r1, g1, e1, r2, g2, e2) ==
  /\ LogGrows(g1, g2)
  /\ NoncesGrow(r1, e1, r2, e2)
  /\ KeysJustified(r1, g1, e1, r2, g2, e2)

\* The working ledger follows the committed one, at any point of a transaction.
WorkingFollows ==
  Follows(committed.registry, committed.log, committed.epoch, registry, log, epoch)

Typed(r, g, e) ==
  r \in [Wallets -> Registry] /\ g \in Seq(Events) /\ e \in [Wallets -> Nat]

LEMMA LedgersTyped ==
  TypeOK => /\ Typed(registry, log, epoch)
            /\ Typed(committed.registry, committed.log, committed.epoch)
BY DEF TypeOK, LedgerOK, Typed

LEMMA FollowsItself ==
  ASSUME NEW r, NEW g, NEW e, Typed(r, g, e)
  PROVE  Follows(r, g, e, r, g, e)
BY DEF Typed, Follows, LogGrows, NoncesGrow, KeysJustified, Registry

\* A ledger that follows one which follows a third follows the third.
LEMMA FollowsInTurn ==
  ASSUME NEW r1, NEW g1, NEW e1, Typed(r1, g1, e1),
         NEW r2, NEW g2, NEW e2, Typed(r2, g2, e2),
         NEW r3, NEW g3, NEW e3, Typed(r3, g3, e3),
         Follows(r1, g1, e1, r2, g2, e2), Follows(r2, g2, e2, r3, g3, e3)
  PROVE  Follows(r1, g1, e1, r3, g3, e3)
<1>1. /\ Len(g1) \in Nat /\ Len(g2) \in Nat /\ Len(g3) \in Nat
      /\ DOMAIN g1 = 1..Len(g1) /\ DOMAIN g2 = 1..Len(g2) /\ DOMAIN g3 = 1..Len(g3)
  BY DEF Typed
<1>2. LogGrows(g1, g3)
  BY <1>1 DEF Follows, LogGrows
<1>3. \A w \in Wallets : /\ e1[w] \in Nat /\ e2[w] \in Nat /\ e3[w] \in Nat
                         /\ e1[w] <= e2[w] /\ e2[w] <= e3[w]
  BY DEF Follows, NoncesGrow, Typed
<1>4. NoncesGrow(r1, e1, r3, e3)
  <2>1. \A w \in Wallets : /\ r1[w].nonce \in 0..MaxNonce /\ r2[w].nonce \in 0..MaxNonce
                           /\ r3[w].nonce \in 0..MaxNonce
    BY DEF Typed, Registry
  <2> QED
    BY <1>3, <2>1, ConstantsAssumption DEF Follows, NoncesGrow
<1>5. KeysJustified(r1, g1, e1, r3, g3, e3)
  <2> SUFFICES ASSUME NEW w \in Wallets, r3[w].keys # r1[w].keys,
                      DOMAIN r1[w].keys # {}, ~(e1[w] < e3[w])
               PROVE  \E i \in Len(g1) + 1 .. Len(g3) : g3[i].registry = w
    BY DEF KeysJustified
  <2>1. ~(e1[w] < e2[w]) /\ ~(e2[w] < e3[w])
    BY <1>3
  <2>2. CASE r2[w].keys # r1[w].keys
    <3>1. PICK i \in Len(g1) + 1 .. Len(g2) : g2[i].registry = w
      BY <2>1, <2>2 DEF Follows, KeysJustified
    <3>2. i \in Len(g1) + 1 .. Len(g3) /\ g3[i] = g2[i]
      BY <1>1 DEF Follows, LogGrows
    <3> QED
      BY <3>1, <3>2
  <2>3. CASE r2[w].keys = r1[w].keys
    <3>1. PICK i \in Len(g2) + 1 .. Len(g3) : g3[i].registry = w
      BY <2>1, <2>3 DEF Follows, KeysJustified
    <3>2. i \in Len(g1) + 1 .. Len(g3)
      BY <1>1 DEF Follows, LogGrows
    <3> QED
      BY <3>1, <3>2
  <2> QED
    BY <2>2, <2>3
<1> QED
  BY <1>2, <1>4, <1>5 DEF Follows

-----------------------------------------------------------------------------
(* Each instruction leaves a ledger that follows the one it found.         *)

\* An instruction that charges a proof to w: its event justifies any change of
\* w's keys.
LEMMA FollowsByProof ==
  ASSUME TypeOK, NEW t \in Seq(Instructions), TxSigned(t), NEW w \in Wallets,
         NEW policy, ProofAccepted(t, w, w, policy),
         log' = Append(log, ProofVerified(t, w, w)), epoch' = epoch,
         registry'[w].nonce = registry[w].nonce + 1,
         \A x \in Wallets : x # w => registry'[x] = registry[x]
  PROVE  Follows(registry, log, epoch, registry', log', epoch')
<1> DEFINE v == ProofVerified(t, w, w)
<1>1. v \in Events /\ v.registry = w
  BY AcceptedProof
<1>2. Typed(registry, log, epoch)
  BY LedgersTyped
<1> HIDE DEF v
<1>3. /\ Len(log') = Len(log) + 1 /\ Len(log) \in Nat
      /\ log'[Len(log) + 1] = v
      /\ \A i \in DOMAIN log : log'[i] = log[i]
  BY <1>1, <1>2 DEF Typed, v
<1>4. LogGrows(log, log')
  BY <1>3 DEF LogGrows
<1>5. NoncesGrow(registry, epoch, registry', epoch')
  <2>1. \A x \in Wallets : registry[x].nonce \in Nat /\ epoch[x] \in Nat
    BY <1>2, ConstantsAssumption DEF Typed, Registry
  <2>2. ASSUME NEW x \in Wallets
        PROVE  epoch[x] <= epoch'[x] /\ ~(registry'[x].nonce < registry[x].nonce)
    <3>1. registry'[x].nonce = registry[x].nonce \/ registry'[x].nonce = registry[x].nonce + 1
      OBVIOUS
    <3> QED
      BY <2>1, <3>1
  <2> QED
    BY <2>2 DEF NoncesGrow
<1>6. KeysJustified(registry, log, epoch, registry', log', epoch')
  BY <1>1, <1>3 DEF KeysJustified
<1> QED
  BY <1>4, <1>5, <1>6 DEF Follows

\* An instruction that leaves events, nonces and epochs alone, and fills only an
\* empty registry.
LEMMA FollowsByFilling ==
  ASSUME TypeOK, log' = log, epoch' = epoch,
         \A x \in Wallets : /\ registry'[x].nonce = registry[x].nonce
                            /\ \/ registry'[x].keys = registry[x].keys
                               \/ DOMAIN registry[x].keys = {}
  PROVE  Follows(registry, log, epoch, registry', log', epoch')
<1>1. /\ \A x \in Wallets : registry[x].nonce \in Int /\ epoch[x] \in Nat
      /\ Len(log) \in Nat
  BY ConstantsAssumption, LedgersTyped DEF Typed, Registry
<1> QED
  BY <1>1 DEF Follows, LogGrows, NoncesGrow, KeysJustified

LEMMA FollowsByRecovery ==
  ASSUME TypeOK, NEW w \in Wallets, NEW e \in Entry, RecoverRegistry(w, e)
  PROVE  Follows(registry, log, epoch, registry', log', epoch')
<1>1. Typed(registry, log, epoch)
  BY LedgersTyped
<1>2. /\ log' = log
      /\ epoch'[w] = epoch[w] + 1
      /\ \A x \in Wallets : x # w => registry'[x] = registry[x] /\ epoch'[x] = epoch[x]
  BY <1>1 DEF RecoverRegistry, Recovered, Typed, Registry
<1>3. /\ \A x \in Wallets : registry[x].nonce \in Int /\ epoch[x] \in Nat
      /\ Len(log) \in Nat
  BY <1>1, ConstantsAssumption DEF Typed, Registry
<1> QED
  BY <1>2, <1>3 DEF Follows, LogGrows, NoncesGrow, KeysJustified

\* Every instruction, on the working ledger.
LEMMA InstructionFollows ==
  ASSUME TypeOK, IInv, GuardInstruction \/ (\E w, r \in Wallets, p \in Policies : Enforce(w, r, p))
  PROVE  Follows(registry, log, epoch, registry', log', epoch') /\ committed' = committed
<1>0. registry \in [Wallets -> Registry]
  BY DEF TypeOK, LedgerOK
<1>1. ASSUME NEW w \in Wallets, NEW f1 \in Fees, NEW f2 \in Fees, NEW t \in Treasuries,
             InitConfig(w, f1, f2, t) \/ UpdateConfig(w, f1, f2, t)
      PROVE  Follows(registry, log, epoch, registry', log', epoch') /\ committed' = committed
  BY <1>1, FollowsByFilling DEF InitConfig, UpdateConfig
<1>2. ASSUME NEW w \in Wallets, NEW e \in Entry, NEW t \in Treasuries,
             RegisterPasskey(w, e, t)
      PROVE  Follows(registry, log, epoch, registry', log', epoch') /\ committed' = committed
  <2>1. \A x \in Wallets : /\ registry'[x].nonce = registry[x].nonce
                           /\ \/ registry'[x].keys = registry[x].keys
                              \/ DOMAIN registry[x].keys = {}
    BY <1>0, <1>2 DEF RegisterPasskey, RegistryVacant, Registered, Registry
  <2> QED
    BY <1>2, <2>1, FollowsByFilling DEF RegisterPasskey
<1>3. ASSUME NEW w \in Wallets, NEW e \in Entry, RecoverRegistry(w, e)
      PROVE  Follows(registry, log, epoch, registry', log', epoch') /\ committed' = committed
  BY <1>3, FollowsByRecovery DEF RecoverRegistry
<1>4. ASSUME NEW w \in Wallets, NEW e \in Entry, NEW t \in Treasuries, AddPasskey(w, e, t)
      PROVE  Follows(registry, log, epoch, registry', log', epoch') /\ committed' = committed
  <2>1. /\ tx' \in Seq(Instructions) /\ TxSigned(tx')
        /\ ProofAccepted(tx', w, w, "trana.require")
        /\ log' = Append(log, ProofVerified(tx', w, w))
        /\ epoch' = epoch /\ committed' = committed
    BY <1>4, SignedFrames, KeyCallType DEF AddPasskey
  <2>2. /\ registry'[w].nonce = registry[w].nonce + 1
        /\ \A x \in Wallets : x # w => registry'[x] = registry[x]
    BY <1>0, <1>4 DEF AddPasskey, NonceConsumed, Registry
  <2> QED
    BY <2>1, <2>2, FollowsByProof
<1>5. ASSUME NEW w \in Wallets, NEW c \in CredIds, RemovePasskey(w, c)
      PROVE  Follows(registry, log, epoch, registry', log', epoch') /\ committed' = committed
  <2>1. /\ tx' \in Seq(Instructions) /\ TxSigned(tx')
        /\ ProofAccepted(tx', w, w, "trana.require")
        /\ log' = Append(log, ProofVerified(tx', w, w))
        /\ epoch' = epoch /\ committed' = committed
    BY <1>5, SignedFrames, KeyCallType DEF RemovePasskey
  <2>2. /\ registry'[w].nonce = registry[w].nonce + 1
        /\ \A x \in Wallets : x # w => registry'[x] = registry[x]
    BY <1>0, <1>5 DEF RemovePasskey, NonceConsumed, Registry
  <2> QED
    BY <2>1, <2>2, FollowsByProof
<1>6. ASSUME NEW w \in Wallets, NEW r \in Wallets, NEW p \in Policies, Enforce(w, r, p)
      PROVE  Follows(registry, log, epoch, registry', log', epoch') /\ committed' = committed
  <2>1. epoch' = epoch /\ committed' = committed /\ tx \in Seq(Instructions) /\ TxSigned(tx)
    BY <1>6 DEF Enforce, TypeOK, IInv, TxSigned
  <2>2. CASE UNCHANGED <<log, registry>>
    BY <2>1, <2>2, FollowsByFilling
  <2>3. CASE /\ registry[r].exists /\ registry[r].owner = w
             /\ ProofAccepted(tx, w, r, p.id)
             /\ log' = Append(log, ProofVerified(tx, w, r))
             /\ registry' = NonceConsumed(r)
    <3>1. r = w
      BY <2>3 DEF IInv, RegistryBoundToSeeds, BoundToSeeds
    <3>2. ProofAccepted(tx, w, w, p.id) /\ log' = Append(log, ProofVerified(tx, w, w))
      BY <2>3, <3>1
    <3>3. /\ registry'[w].nonce = registry[w].nonce + 1
          /\ \A x \in Wallets : x # w => registry'[x] = registry[x]
      BY <1>0, <2>3, <3>1 DEF NonceConsumed, Registry
    <3> QED
      BY <2>1, <3>2, <3>3, FollowsByProof
  <2> QED
    BY <1>6, <2>2, <2>3 DEF Enforce, Enforced, OwnsRegistry
<1> QED
  BY <1>1, <1>2, <1>3, <1>4, <1>5, <1>6 DEF GuardInstruction

-----------------------------------------------------------------------------
(* The theorems.                                                           *)

\* What no instruction of the guard does: commit, abort, or none of the ledger.
LEMMA OtherSteps ==
  ASSUME [Next]_vars, ~GuardInstruction, ~\E w, r \in Wallets, p \in Policies : Enforce(w, r, p)
  PROVE  Commit \/ Abort \/ UNCHANGED <<registry, log, epoch, committed>>
BY DEF Next, ProofPair, Sign, Secp256r1, RecordProof, ProtectedCall, Approve, Tick,
       vars, ledger

LEMMA FollowsStep == TypeOK /\ TypeOK' /\ IInv /\ WorkingFollows /\ [Next]_vars => WorkingFollows'
<1> SUFFICES ASSUME TypeOK, TypeOK', IInv, WorkingFollows, [Next]_vars
             PROVE  Follows(committed'.registry, committed'.log, committed'.epoch,
                            registry', log', epoch')
  BY DEF WorkingFollows
<1>0. /\ Typed(registry, log, epoch)
      /\ Typed(committed.registry, committed.log, committed.epoch)
      /\ Typed(registry', log', epoch')
  BY LedgersTyped DEF TypeOK, LedgerOK, Typed
<1>1. CASE GuardInstruction \/ \E w, r \in Wallets, p \in Policies : Enforce(w, r, p)
  <2>1. Follows(registry, log, epoch, registry', log', epoch') /\ committed' = committed
    BY <1>1, InstructionFollows
  <2> QED
    BY <1>0, <2>1, FollowsInTurn DEF WorkingFollows
<1>2. CASE Commit
  BY <1>0, <1>2, FollowsItself DEF Commit, ledger
<1>3. CASE Abort
  BY <1>0, <1>3, FollowsItself DEF Abort
<1>4. CASE UNCHANGED <<registry, log, epoch, committed>>
  BY <1>4 DEF WorkingFollows
<1> QED
  BY <1>1, <1>2, <1>3, <1>4, OtherSteps

LEMMA InitFollows == Init => WorkingFollows
<1> SUFFICES ASSUME Init PROVE WorkingFollows
  OBVIOUS
<1>1. Typed(registry, log, epoch)
  BY InitType, LedgersTyped
<1> QED
  BY <1>1, FollowsItself DEF Init, WorkingFollows

\* At every point of a transaction the working ledger is one that may replace the
\* committed one.
THEOREM WorkingLedgerFollows == Spec => []WorkingFollows
<1>1. Init => WorkingFollows
  BY InitFollows
<1>2. TypeOK /\ TypeOK' /\ IInv /\ WorkingFollows /\ [Next]_vars => WorkingFollows'
  BY FollowsStep
<1> QED
  BY <1>1, <1>2, Invariance, PTL DEF Spec

\* Only Commit replaces the committed ledger, and by the working one.
LEMMA CommitPublishes ==
  ASSUME TypeOK, IInv, WorkingFollows, [Next]_vars, committed' # committed
  PROVE  Follows(committed.registry, committed.log, committed.epoch,
                 committed'.registry, committed'.log, committed'.epoch)
<1>1. Commit
  <2>1. ~(GuardInstruction \/ \E w, r \in Wallets, p \in Policies : Enforce(w, r, p))
    BY InstructionFollows
  <2> QED
    BY <2>1, OtherSteps DEF Abort
<1> QED
  BY <1>1 DEF Commit, WorkingFollows

\* A committed transaction changes the keys of a registry that has some only with an
\* accepted proof for it, or by recovering it.
THEOREM KeysAreProtected == Spec => KeysChangeOnlyWithProof
<1> DEFINE A == \A w \in Wallets :
                  committed'.registry[w].keys # committed.registry[w].keys =>
                    \/ DOMAIN committed.registry[w].keys = {}
                    \/ committed'.epoch[w] > committed.epoch[w]
                    \/ \E v \in NewEvents : v.registry = w
<1>1. ASSUME TypeOK, TypeOK', IInv, WorkingFollows, [Next]_vars, committed' # committed
      PROVE  A
  <2>1. KeysJustified(committed.registry, committed.log, committed.epoch,
                      committed'.registry, committed'.log, committed'.epoch)
    BY <1>1, CommitPublishes DEF Follows
  <2>2. \A w \in Wallets : committed.epoch[w] \in Nat /\ committed'.epoch[w] \in Nat
    BY <1>1 DEF TypeOK, LedgerOK
  <2> QED
    BY <2>1, <2>2 DEF KeysJustified, NewEvents
<1>2. TypeOK /\ TypeOK' /\ IInv /\ WorkingFollows /\ [Next]_vars => [A]_committed
  BY <1>1
<1> QED
  BY <1>2, Invariance, WorkingLedgerFollows, PTL DEF Spec, KeysChangeOnlyWithProof

\* No later transaction loses or rewrites an event, and a nonce goes back only with
\* a recovery.
THEOREM HistoryIsKept == Spec => HistoryOnlyGrows
<1> DEFINE A == /\ Len(committed.log) <= Len(committed'.log)
                /\ \A i \in DOMAIN committed.log : committed'.log[i] = committed.log[i]
                /\ \A w \in Wallets :
                     committed'.registry[w].nonce < committed.registry[w].nonce =>
                       committed'.epoch[w] > committed.epoch[w]
<1>1. ASSUME TypeOK, TypeOK', IInv, WorkingFollows, [Next]_vars, committed' # committed
      PROVE  A
  <2>1. /\ LogGrows(committed.log, committed'.log)
        /\ NoncesGrow(committed.registry, committed.epoch, committed'.registry, committed'.epoch)
    BY <1>1, CommitPublishes DEF Follows
  <2>2. \A w \in Wallets : committed.epoch[w] \in Nat /\ committed'.epoch[w] \in Nat
    BY <1>1 DEF TypeOK, LedgerOK
  <2> QED
    BY <2>1, <2>2 DEF LogGrows, NoncesGrow
<1>2. TypeOK /\ TypeOK' /\ IInv /\ WorkingFollows /\ [Next]_vars => [A]_committed
  BY <1>1
<1> QED
  BY <1>2, Invariance, WorkingLedgerFollows, PTL DEF Spec, HistoryOnlyGrows

=============================================================================
