----------------------------- MODULE FlowProofs -----------------------------
(***************************************************************************)
(* Theorems about the SDK's React flow, for any number of calls, any       *)
(* number of ceremonies and retries, and either guard.                     *)
(***************************************************************************)
EXTENDS PasskeyFlow, FiniteSetTheorems, TLAPS

-----------------------------------------------------------------------------
(* Types.                                                                  *)

Pcs == {"idle", "detect", "direct", "lookup", "fetch", "registering", "registered",
        "confirming", "confirmed", "approving", "approved", "sent", "failed"}

Registries == [kind: {"registry"}, entry: Entries, nonce: Nat]
Intents == [wallet: {me}, ix: {CallIx[c] : c \in Calls}, nonce: Nat, expiry: Nat]
Answers == [key: {e.pubkey : e \in Entries}, intent: Intents]

CallRecords == [pc: Pcs, reason: {"", "no-registry", "missing-proof"},
                registry: {None} \cup Registries, intent: {None} \cup Intents,
                approval: {None} \cup Answers, attempt: 0..MAX_BLOCKHASH_RETRIES - 1]

Kinds == {"registration", "confirmation", "approval"}
Phases == [name: {"idle", "needs-registration", "needs-confirmation", "needs-approval"},
           intent: {None} \cup Intents]

RegisterTxs == [kind: {"register"}, entry: Entries]
PlainTxs == [kind: {"plain"}, call: Calls]
ProvedTxs == [kind: {"proved"}, call: Calls, key: {e.pubkey : e \in Entries},
                     by: Answers, expiry: Nat,
                     attempt: 0..MAX_BLOCKHASH_RETRIES - 1]

Setups == [kind: {"setup"}, step: {"device", "confirm"}, on: {None} \cup RegisterTxs,
           own: BOOLEAN]
Approvings == [kind: {"approval"}, step: {"device"}, own: BOOLEAN,
               on: [cred: {e.cred : e \in Entries}, intent: Intents]]

ChainTyped ==
  /\ keys \in [Holders -> SUBSET Entries]
  /\ nonce \in [Holders -> Nat]
  /\ nonce[me] <= MaxNonce
  /\ era \in [Holders -> Nat]
  /\ accepted \in Seq([s: Answers, era: Nat])
  /\ signed \subseteq Answers
  /\ now \in Nat

UiTyped ==
  /\ phase \in Phases
  /\ pending \in {None} \cup [kind: Kinds, call: Calls]
  /\ tasks \subseteq Setups \cup Approvings

ClientTyped ==
  /\ deployed \in {"sdk", "repo"}
  /\ call \in [Calls -> CallRecords]
  /\ cache \in {None} \cup Registries
  /\ mempool \subseteq RegisterTxs \cup PlainTxs \cup ProvedTxs
  /\ landed \in [Calls -> Nat]

FlowTyped == ChainTyped /\ UiTyped /\ ClientTyped

\* The three modals.
LEMMA PhaseNames ==
  /\ DOMAIN Phase = Kinds /\ DOMAIN Waiting = Kinds
  /\ Phase["registration"] = "needs-registration"
  /\ Phase["confirmation"] = "needs-confirmation"
  /\ Phase["approval"] = "needs-approval"
  /\ Waiting["registration"] = "registering"
  /\ Waiting["confirmation"] = "confirming"
  /\ Waiting["approval"] = "approving"
BY DEF Phase, Waiting, Kinds

LEMMA NoneDiffers ==
  /\ None \notin Registries /\ None \notin Intents /\ None \notin Answers
  /\ None \notin [kind: Kinds, call: Calls]
  /\ None.kind = "none"
  /\ \A r \in {None} \cup Registries : r.kind = "none" <=> r = None
  /\ \A p \in {None} \cup [kind: Kinds, call: Calls] : p.kind = "none" <=> p = None
<1>1. None.kind = "none" /\ DOMAIN None = {"kind"}
  BY DEF None
<1>2. None \notin Registries /\ None \notin [kind: Kinds, call: Calls]
  BY <1>1 DEF Registries, Kinds
<1>3. \A i \in Intents : "wallet" \in DOMAIN i
  BY DEF Intents
<1>4. \A i \in Answers : "key" \in DOMAIN i
  BY DEF Answers
<1>5. None \notin Intents /\ None \notin Answers
  BY <1>1, <1>3, <1>4
<1>6. \A r \in {None} \cup Registries : r.kind = "none" <=> r = None
  BY <1>1 DEF Registries
<1>7. \A p \in {None} \cup [kind: Kinds, call: Calls] : p.kind = "none" <=> p = None
  BY <1>1 DEF Kinds
<1> QED
  BY <1>1, <1>2, <1>5, <1>6, <1>7

\* What the SDK reads of a registry: nothing from a guard it does not fit.
LEMMA FetchFacts ==
  ASSUME ChainTyped, deployed \in {"sdk", "repo"}
  PROVE  /\ FetchRegistry.kind \in {"none", "registry", "throws"}
         /\ FetchRegistry.kind = "registry" => FetchRegistry \in Registries /\ deployed = "sdk"
         /\ FetchRegistry.kind = "none" => FetchRegistry = None
<1> DEFINE e == CHOOSE x \in keys[me] : TRUE
<1>0. me \in Holders /\ nonce[me] \in Nat
  BY FlowAssumption DEF ChainTyped
<1>1. CASE keys[me] = {}
  BY <1>1, NoneDiffers DEF FetchRegistry
<1>2. CASE keys[me] # {} /\ deployed = "sdk"
  <2>1. e \in Entries
    BY <1>0, <1>2 DEF ChainTyped
  <2>2. FetchRegistry = [kind |-> "registry", entry |-> e, nonce |-> nonce[me]]
    BY <1>2 DEF FetchRegistry, ParseRegistry
  <2> QED
    BY <1>0, <1>2, <2>1, <2>2 DEF Registries
<1>3. CASE keys[me] # {} /\ deployed # "sdk"
  BY <1>3 DEF FetchRegistry, ParseRegistry
<1> QED
  BY <1>1, <1>2, <1>3

-----------------------------------------------------------------------------
(* One call moves; the others stay where they are.                         *)

\* Call c is at `to` and keeps what its device has answered, if anything.
LEMMA PcMoved ==
  ASSUME call \in [Calls -> CallRecords], NEW c \in Calls, NEW to \in Pcs,
         call' = [call EXCEPT ![c].pc = to]
  PROVE  /\ call' \in [Calls -> CallRecords]
         /\ call'[c].pc = to /\ call'[c].intent = call[c].intent
         /\ call'[c].approval = call[c].approval /\ call'[c].registry = call[c].registry
         /\ \A d \in Calls : d # c => call'[d] = call[d]
BY DEF CallRecords

LEMMA ReasonGiven ==
  ASSUME call \in [Calls -> CallRecords], NEW c \in Calls,
         NEW r \in {"no-registry", "missing-proof"},
         call' = [call EXCEPT ![c].pc = "fetch", ![c].reason = r]
  PROVE  /\ call' \in [Calls -> CallRecords]
         /\ call'[c].pc = "fetch"
         /\ \A d \in Calls : d # c => call'[d] = call[d]
BY ZenonT(40) DEF CallRecords, Pcs

Stores(c, r, i) ==
  call' = [call EXCEPT ![c].pc = "confirming", ![c].registry = r, ![c].intent = i]

LEMMA IntentBuilt ==
  ASSUME call \in [Calls -> CallRecords], NEW c \in Calls, NEW r \in Registries,
         NEW i \in Intents, Stores(c, r, i)
  PROVE  /\ call' \in [Calls -> CallRecords]
         /\ call'[c].pc = "confirming" /\ call'[c].intent = i
         /\ call'[c].registry = r
         /\ \A d \in Calls : d # c => call'[d] = call[d]
<1> DEFINE x == [[[call[c] EXCEPT !.pc = "confirming"] EXCEPT !.registry = r] EXCEPT !.intent = i]
<1>1. call' = [call EXCEPT ![c] = x]
  BY DEF Stores
<1>2. x \in CallRecords /\ x.pc = "confirming" /\ x.intent = i /\ x.registry = r
  <2>1. [call[c] EXCEPT !.pc = "confirming"] \in CallRecords
    BY DEF CallRecords, Pcs
  <2> DEFINE y == [call[c] EXCEPT !.pc = "confirming"]
  <2>2. y.pc = "confirming"
    BY DEF CallRecords
  <2> HIDE DEF y
  <2>3. /\ [[y EXCEPT !.registry = r] EXCEPT !.intent = i] \in CallRecords
        /\ [[y EXCEPT !.registry = r] EXCEPT !.intent = i].pc = y.pc
        /\ [[y EXCEPT !.registry = r] EXCEPT !.intent = i].intent = i
        /\ [[y EXCEPT !.registry = r] EXCEPT !.intent = i].registry = r
    BY <2>1 DEF CallRecords, y
  <2> QED
    BY <2>2, <2>3 DEF y
<1> HIDE DEF x
<1> QED
  BY <1>1, <1>2

LEMMA AnswerGiven ==
  ASSUME call \in [Calls -> CallRecords], NEW c \in Calls, NEW to \in Pcs,
         NEW a \in {None} \cup Answers,
         call' = [call EXCEPT ![c].pc = to, ![c].approval = a]
  PROVE  /\ call' \in [Calls -> CallRecords]
         /\ call'[c].pc = to /\ call'[c].intent = call[c].intent
         /\ call'[c].approval = a /\ call'[c].registry = call[c].registry
         /\ \A d \in Calls : d # c => call'[d] = call[d]
BY DEF CallRecords

LEMMA TriedAgain ==
  ASSUME call \in [Calls -> CallRecords], NEW c \in Calls, MayRetry(c),
         call' = [call EXCEPT ![c].attempt = @ + 1]
  PROVE  /\ call' \in [Calls -> CallRecords]
         /\ call'[c].pc = call[c].pc /\ call'[c].intent = call[c].intent
         /\ call'[c].approval = call[c].approval /\ call'[c].registry = call[c].registry
         /\ \A d \in Calls : d # c => call'[d] = call[d]
<1>0. call[c] \in CallRecords
  OBVIOUS
<1>0a. call[c].attempt \in 0..MAX_BLOCKHASH_RETRIES - 1
  BY <1>0 DEF CallRecords
<1>1. call[c].attempt \in 0..1 /\ call[c].attempt < 1
  BY <1>0a DEF MayRetry, MAX_BLOCKHASH_RETRIES
<1>2. call[c].attempt + 1 \in 0..MAX_BLOCKHASH_RETRIES - 1
  BY <1>1 DEF MAX_BLOCKHASH_RETRIES
<1> QED
  BY <1>2 DEF CallRecords

-----------------------------------------------------------------------------
(* The provider's promise.                                                 *)

\* A call that is past the review has the intent it showed, the registry it read and,
\* once approved, the device's answer.
Reviewed(r) ==
  /\ r.pc \in {"confirming", "confirmed", "approving", "approved"} =>
       r.intent \in Intents /\ r.registry \in Registries
  /\ r.pc = "approved" => r.approval \in Answers

FlowTypes ==
  /\ FlowTyped
  /\ ModalMatchesPromise
  /\ \A c \in Calls : Reviewed(call[c])

LEMMA DisownedTyped ==
  ASSUME NEW T, T \subseteq Setups \cup Approvings
  PROVE  {[t EXCEPT !.own = FALSE] : t \in T} \subseteq Setups \cup Approvings
<1> SUFFICES ASSUME NEW t \in Setups \cup Approvings
             PROVE  [t EXCEPT !.own = FALSE] \in Setups \cup Approvings
  OBVIOUS
<1>1. CASE t \in Setups
  BY <1>1 DEF Setups
<1>2. CASE t \in Approvings
  BY <1>2 DEF Approvings
<1> QED
  BY <1>1, <1>2

\* Whoever opens a modal waits for it, and it shows what that call is about.
LEMMA Triggered ==
  ASSUME UiTyped, NEW c \in Calls, NEW kind \in Kinds, NEW i \in {None} \cup Intents,
         Trigger(c, kind, i), call'[c].pc = Waiting[kind],
         kind # "registration" => call'[c].intent = i
  PROVE  UiTyped' /\ ModalMatchesPromise'
<1>1. /\ phase' = [name |-> Phase[kind], intent |-> i]
      /\ pending' = [kind |-> kind, call |-> c]
      /\ tasks' \in {tasks, Disowned}
  BY DEF Trigger
<1>2. Phase[kind] \in {"needs-registration", "needs-confirmation", "needs-approval"}
  BY PhaseNames DEF Kinds
<1>3. phase' \in Phases
  BY <1>1, <1>2 DEF Phases
<1>4. pending' \in [kind: Kinds, call: Calls] /\ pending' # None
  BY <1>1, NoneDiffers
<1>5. tasks' \subseteq Setups \cup Approvings
  BY <1>1, DisownedTyped DEF UiTyped, Disowned
<1>6. ModalMatchesPromise'
  BY <1>1, <1>4 DEF ModalMatchesPromise
<1> QED
  BY <1>3, <1>4, <1>5, <1>6 DEF UiTyped

\* What a pending promise says of the call that waits on it.
LEMMA PendingFacts ==
  ASSUME UiTyped, ModalMatchesPromise, NEW kind \in Kinds, pending.kind = kind
  PROVE  /\ pending.call \in Calls
         /\ call[pending.call].pc = Waiting[kind]
         /\ phase.name = Phase[kind]
         /\ kind # "registration" => phase.intent = call[pending.call].intent
<1>1. pending # None
  BY NoneDiffers DEF Kinds
<1>2. pending \in [kind: Kinds, call: Calls]
  BY <1>1 DEF UiTyped
<1> QED
  BY <1>1, <1>2 DEF ModalMatchesPromise

\* A modal of one kind is open exactly while a promise of that kind is pending.
LEMMA ModalFacts ==
  ASSUME UiTyped, ModalMatchesPromise, NEW kind \in Kinds, phase.name = Phase[kind]
  PROVE  pending.kind = kind
<1>1. Idle.name = "idle"
  BY DEF Idle
<1>2. pending # None
  BY <1>1, PhaseNames DEF ModalMatchesPromise, Kinds
<1>3. pending.kind \in Kinds
  BY <1>2 DEF UiTyped
<1> QED
  BY <1>1, <1>2, <1>3, PhaseNames DEF ModalMatchesPromise, Kinds

\* An answer resumes the call that waits for one of that kind, if any does.
LEMMA Resolved ==
  ASSUME UiTyped, ModalMatchesPromise, call \in [Calls -> CallRecords],
         NEW kind \in Kinds, NEW rest, rest \subseteq Setups \cup Approvings,
         NEW next \in Pcs, NEW a \in {None} \cup Answers, Resolve(kind, rest, next, a)
  PROVE  /\ UiTyped' /\ ModalMatchesPromise'
         /\ call' \in [Calls -> CallRecords]
         /\ \/ pending.kind # kind /\ UNCHANGED call
            \/ /\ pending.kind = kind
               /\ call'[pending.call].pc = next
               /\ call'[pending.call].intent = call[pending.call].intent
               /\ call'[pending.call].registry = call[pending.call].registry
               /\ call'[pending.call].approval = a
               /\ \A d \in Calls : d # pending.call => call'[d] = call[d]
<1>1. CASE pending.kind = kind
  <2>1. pending.call \in Calls
    BY <1>1, PendingFacts
  <2>2. /\ call' = [call EXCEPT ![pending.call].pc = next, ![pending.call].approval = a]
        /\ pending' = None /\ phase' = Idle
        /\ tasks' = {[t EXCEPT !.own = FALSE] : t \in rest}
    BY <1>1 DEF Resolve
  <2>3. UiTyped' /\ ModalMatchesPromise'
    BY <2>2, DisownedTyped DEF UiTyped, ModalMatchesPromise, Idle, Phases
  <2>4. /\ call' \in [Calls -> CallRecords]
        /\ call'[pending.call].pc = next
        /\ call'[pending.call].intent = call[pending.call].intent
        /\ call'[pending.call].registry = call[pending.call].registry
        /\ call'[pending.call].approval = a
        /\ \A d \in Calls : d # pending.call => call'[d] = call[d]
    <3> DEFINE p == pending.call
    <3>1. p \in Calls /\ call' = [call EXCEPT ![p].pc = next, ![p].approval = a]
      BY <2>1, <2>2
    <3> HIDE DEF p
    <3>2. /\ call' \in [Calls -> CallRecords]
          /\ call'[p].pc = next /\ call'[p].intent = call[p].intent
          /\ call'[p].approval = a /\ call'[p].registry = call[p].registry
          /\ \A d \in Calls : d # p => call'[d] = call[d]
      BY <3>1, AnswerGiven
    <3> QED
      BY <3>2 DEF p
  <2> QED
    BY <1>1, <2>3, <2>4
<1>2. CASE pending.kind # kind
  <2>1. tasks' = rest /\ UNCHANGED <<call, pending, phase>>
    BY <1>2 DEF Resolve
  <2> QED
    BY <1>2, <2>1 DEF UiTyped, ModalMatchesPromise
<1> QED
  BY <1>1, <1>2

\* A step that leaves the modal alone, and every call that waits on one.
LEMMA ModalUntouched ==
  ASSUME UiTyped, ModalMatchesPromise, UNCHANGED <<phase, pending>>,
         \A c \in Calls : call[c].pc \in {"registering", "confirming", "approving"} =>
                            call'[c] = call[c]
  PROVE  ModalMatchesPromise'
<1>1. CASE phase = Idle /\ pending = None
  BY <1>1 DEF ModalMatchesPromise
<1>2. CASE pending # None /\ ModalMatchesPromise
  <2>1. pending.kind \in Kinds /\ pending.call \in Calls
    BY <1>2 DEF UiTyped
  <2>2. call'[pending.call] = call[pending.call]
    <3>1. call[pending.call].pc = Waiting[pending.kind]
      BY <2>1, PendingFacts
    <3> QED
      BY <2>1, <3>1, PhaseNames DEF Kinds
  <2> QED
    BY <1>2, <2>1, <2>2 DEF ModalMatchesPromise
<1> QED
  BY <1>1, <1>2 DEF ModalMatchesPromise

-----------------------------------------------------------------------------
(* Types are kept, and the modal always matches the promise.               *)

LEMMA FlowInitTypes == FlowInit => FlowTypes
<1> SUFFICES ASSUME FlowInit PROVE FlowTypes
  OBVIOUS
<1>1. ChainTyped
  <2>1. /\ keys = [w \in Holders |-> {}] /\ nonce = [w \in Holders |-> 0]
        /\ era = [w \in Holders |-> 0] /\ accepted = <<>> /\ signed = {} /\ now = 0
    BY DEF FlowInit, AuthorInit
  <2>2. me \in Holders /\ MaxNonce \in Nat
    BY FlowAssumption
  <2>3. nonce[me] <= MaxNonce
    BY <2>1, <2>2
  <2> QED
    BY <2>1, <2>3 DEF ChainTyped
<1>2. UiTyped
  BY DEF FlowInit, UiTyped, Idle, Phases
<1>3. call \in [Calls -> CallRecords] /\ \A c \in Calls : Reviewed(call[c])
  <2> DEFINE r == [pc |-> "idle", reason |-> "", registry |-> None, intent |-> None,
                   approval |-> None, attempt |-> 0]
  <2>1. 0 \in 0..MAX_BLOCKHASH_RETRIES - 1
    BY DEF MAX_BLOCKHASH_RETRIES
  <2>2. r \in CallRecords /\ Reviewed(r)
    BY <2>1 DEF CallRecords, Pcs, Reviewed
  <2>3. call = [c \in Calls |-> r]
    BY DEF FlowInit
  <2> HIDE DEF r
  <2> QED
    BY <2>2, <2>3
<1>4. ClientTyped
  BY <1>3, FlowAssumption DEF FlowInit, ClientTyped
<1>5. ModalMatchesPromise
  BY DEF FlowInit, ModalMatchesPromise
<1> QED
  BY <1>1, <1>2, <1>3, <1>4, <1>5 DEF FlowTypes, FlowTyped

\* Steps of calls, users and modals: nothing on chain.
OffChain == UNCHANGED <<chain, now, saved, deployed, landed>>

LEMMA CallMovedTypes ==
  ASSUME FlowTypes, NEW c \in Calls, NEW from, NEW to \in Pcs, Goes(c, from, to),
         from \notin {"registering", "confirming", "approving"},
         to \notin {"confirming", "confirmed", "approving", "approved"},
         UNCHANGED ui
  PROVE  /\ call' \in [Calls -> CallRecords]
         /\ UiTyped' /\ ModalMatchesPromise'
         /\ \A d \in Calls : Reviewed(call'[d])
<1>1. call' = [call EXCEPT ![c].pc = to] /\ call[c].pc = from
  BY DEF Goes
<1>2. /\ call' \in [Calls -> CallRecords] /\ call'[c].pc = to
      /\ \A d \in Calls : d # c => call'[d] = call[d]
  BY <1>1, PcMoved DEF FlowTypes, FlowTyped, ClientTyped
<1>3. UiTyped' /\ UNCHANGED <<phase, pending>>
  BY DEF FlowTypes, FlowTyped, UiTyped, ui
<1>4. ModalMatchesPromise'
  BY <1>1, <1>2, <1>3, ModalUntouched DEF FlowTypes, FlowTyped
<1>5. \A d \in Calls : Reviewed(call'[d])
  BY <1>2 DEF FlowTypes, Reviewed
<1> QED
  BY <1>2, <1>3, <1>4, <1>5

LEMMA BuiltIntentType ==
  ASSUME ChainTyped, NEW c \in Calls, NEW r \in Registries
  PROVE  BuildIntent(c, r) \in Intents
<1>1. CallIx[c] \in {CallIx[d] : d \in Calls} /\ r.nonce \in Nat /\ now + Ttl \in Nat
  BY FlowAssumption DEF ChainTyped, Registries
<1> QED
  BY <1>1 DEF BuildIntent, Intents

\* The review of an intent just built.
LEMMA ReviewTypes ==
  ASSUME FlowTypes, NEW c \in Calls, NEW r \in Registries, Review(c, r)
  PROVE  /\ call' \in [Calls -> CallRecords]
         /\ call'[c].pc = "confirming"
         /\ \A d \in Calls : d # c => call'[d] = call[d]
         /\ UiTyped' /\ ModalMatchesPromise'
         /\ \A d \in Calls : Reviewed(call'[d])
<1> DEFINE i == BuildIntent(c, r)
<1>1. i \in Intents /\ Stores(c, r, i) /\ Trigger(c, "confirmation", i)
  BY BuiltIntentType DEF Review, FlowTypes, FlowTyped, Stores
<1> HIDE DEF i
<1>2. /\ call' \in [Calls -> CallRecords] /\ call'[c].pc = "confirming"
      /\ call'[c].intent = i /\ call'[c].registry = r
      /\ \A d \in Calls : d # c => call'[d] = call[d]
  <2>1. call \in [Calls -> CallRecords]
    BY DEF FlowTypes, FlowTyped, ClientTyped
  <2> QED
    BY <1>1, <2>1, IntentBuilt
<1>3. UiTyped' /\ ModalMatchesPromise'
  BY <1>1, <1>2, Triggered, PhaseNames DEF FlowTypes, FlowTyped, Kinds
<1>4. \A d \in Calls : Reviewed(call'[d])
  BY <1>1, <1>2 DEF FlowTypes, Reviewed
<1> QED
  BY <1>2, <1>3, <1>4

LEMMA ProvedTxType ==
  ASSUME FlowTypes, NEW c \in Calls, call[c].pc = "approved"
  PROVE  ProvedTx(c) \in ProvedTxs
<1>1. /\ call[c] \in CallRecords /\ call[c].intent \in Intents
      /\ call[c].registry \in Registries /\ call[c].approval \in Answers
  BY DEF FlowTypes, FlowTyped, ClientTyped, Reviewed
<1>2. /\ call[c].intent.expiry \in Nat /\ call[c].attempt \in 0..MAX_BLOCKHASH_RETRIES - 1
      /\ call[c].registry.entry.pubkey \in {e.pubkey : e \in Entries}
  BY <1>1 DEF Intents, Registries, CallRecords
<1> QED
  BY <1>1, <1>2 DEF ProvedTx, ProvedTxs

LEMMA CallStepTypes ==
  ASSUME FlowTypes, NEW c \in Calls, Start(c) \/ CallStep(c)
  PROVE  FlowTypes'
<1>0. ChainTyped /\ UiTyped /\ ClientTyped /\ ModalMatchesPromise
  BY DEF FlowTypes, FlowTyped
<1>a. ASSUME UNCHANGED clientOnly, call' \in [Calls -> CallRecords],
             UiTyped', ModalMatchesPromise', \A d \in Calls : Reviewed(call'[d])
      PROVE  FlowTypes'
  <2>1. ChainTyped'
    BY <1>0, <1>a DEF clientOnly, authorVars, chain, ChainTyped
  <2>2. ClientTyped'
    BY <1>0, <1>a DEF clientOnly, ClientTyped
  <2> QED
    BY <1>a, <2>1, <2>2 DEF FlowTypes, FlowTyped
<1>b. ASSUME NEW from, NEW to \in Pcs, Goes(c, from, to), UNCHANGED <<clientOnly, ui>>,
             from \notin {"registering", "confirming", "approving"},
             to \notin {"confirming", "confirmed", "approving", "approved"}
      PROVE  FlowTypes'
  BY <1>a, <1>b, CallMovedTypes
<1>c. ASSUME call' \in [Calls -> CallRecords],
             UiTyped', ModalMatchesPromise', \A d \in Calls : Reviewed(call'[d]),
             UNCHANGED <<authorVars, deployed, cache, landed>>,
             mempool' \subseteq mempool \cup PlainTxs \cup ProvedTxs
      PROVE  FlowTypes'
  <2>1. ChainTyped'
    BY <1>0, <1>c DEF authorVars, chain, ChainTyped
  <2>2. ClientTyped'
    BY <1>0, <1>c DEF ClientTyped
  <2> QED
    BY <1>c, <2>1, <2>2 DEF FlowTypes, FlowTyped
<1>1. CASE Start(c)
  BY <1>1, <1>b DEF Start, Pcs
<1>2. CASE DetectEnforcement(c)
  BY <1>2, <1>b DEF DetectEnforcement, Pcs
<1>3. CASE DetectRegistry(c)
  <2> DEFINE why == IF keys[me] = {} THEN "no-registry" ELSE "missing-proof"
  <2>1. /\ call[c].pc = "lookup"
        /\ call' = [call EXCEPT ![c].pc = "fetch", ![c].reason = why]
        /\ why \in {"no-registry", "missing-proof"}
        /\ UNCHANGED <<clientOnly, ui>>
    BY <1>3 DEF DetectRegistry
  <2> HIDE DEF why
  <2>2. /\ call' \in [Calls -> CallRecords] /\ call'[c].pc = "fetch"
        /\ \A d \in Calls : d # c => call'[d] = call[d]
    BY <1>0, <2>1, ReasonGiven DEF ClientTyped
  <2>3. UiTyped' /\ UNCHANGED <<phase, pending>>
    BY <1>0, <2>1 DEF UiTyped, ui
  <2>4. ModalMatchesPromise'
    BY <1>0, <2>1, <2>2, <2>3, ModalUntouched
  <2>5. \A d \in Calls : Reviewed(call'[d])
    BY <2>2 DEF FlowTypes, Reviewed
  <2> QED
    BY <1>a, <2>1, <2>2, <2>3, <2>4, <2>5
<1>4. CASE EnsureRegistry(c)
  <2> DEFINE r == FetchRegistry
  <2>0. UNCHANGED clientOnly
    BY <1>4 DEF EnsureRegistry
  <2>1. CASE Goes(c, "fetch", "failed") /\ UNCHANGED ui
    BY <1>b, <2>0, <2>1 DEF Pcs
  <2>2. CASE Goes(c, "fetch", "registering") /\ Trigger(c, "registration", None)
    <3>1. /\ call' \in [Calls -> CallRecords] /\ call'[c].pc = "registering"
          /\ \A d \in Calls : d # c => call'[d] = call[d]
      BY <1>0, <2>2, PcMoved DEF Goes, Pcs, ClientTyped
    <3>2. UiTyped' /\ ModalMatchesPromise'
      BY <1>0, <2>2, <3>1, Triggered, PhaseNames DEF Kinds
    <3>3. \A d \in Calls : Reviewed(call'[d])
      BY <3>1 DEF FlowTypes, Reviewed
    <3> QED
      BY <1>a, <2>0, <3>1, <3>2, <3>3
  <2>3. CASE r.kind = "registry" /\ Review(c, r)
    BY <1>0, <1>a, <2>0, <2>3, FetchFacts, ReviewTypes DEF ClientTyped
  <2> QED
    BY <1>4, <2>1, <2>2, <2>3 DEF EnsureRegistry
<1>5. CASE RefetchRegistry(c)
  <2> DEFINE r == FetchRegistry
  <2>0. UNCHANGED clientOnly
    BY <1>5 DEF RefetchRegistry
  <2>1. CASE Goes(c, "registered", "failed") /\ UNCHANGED ui
    BY <1>b, <2>0, <2>1 DEF Pcs
  <2>2. CASE r.kind = "registry" /\ Review(c, r)
    BY <1>0, <1>a, <2>0, <2>2, FetchFacts, ReviewTypes DEF ClientTyped
  <2> QED
    BY <1>5, <2>1, <2>2 DEF RefetchRegistry
<1>6. CASE AskApproval(c)
  <2>1. /\ call[c].pc = "confirmed" /\ call' = [call EXCEPT ![c].pc = "approving"]
        /\ Trigger(c, "approval", call[c].intent) /\ UNCHANGED clientOnly
    BY <1>6 DEF AskApproval, Goes
  <2>2. /\ call' \in [Calls -> CallRecords] /\ call'[c].pc = "approving"
        /\ call'[c].intent = call[c].intent /\ call'[c].registry = call[c].registry
        /\ \A d \in Calls : d # c => call'[d] = call[d]
    BY <1>0, <2>1, PcMoved DEF Pcs, ClientTyped
  <2>3. call[c].intent \in Intents
    BY <2>1 DEF FlowTypes, Reviewed
  <2>4. UiTyped' /\ ModalMatchesPromise'
    BY <1>0, <2>1, <2>2, <2>3, Triggered, PhaseNames DEF Kinds
  <2>5. \A d \in Calls : Reviewed(call'[d])
    BY <2>1, <2>2 DEF FlowTypes, Reviewed
  <2> QED
    BY <1>a, <2>1, <2>2, <2>4, <2>5
<1>7. CASE Send(c)
  <2>1. /\ call[c].pc = "approved"
        /\ mempool' \subseteq mempool \cup {ProvedTx(c)}
        /\ UNCHANGED <<authorVars, deployed, ui, cache, landed>>
    BY <1>7 DEF Send, Submitted
  <2>2. mempool' \subseteq mempool \cup PlainTxs \cup ProvedTxs
    BY <2>1, ProvedTxType
  <2>3. CASE Goes(c, "approved", "sent") \/ Goes(c, "approved", "failed")
    <3>1. /\ call' \in [Calls -> CallRecords] /\ UiTyped' /\ ModalMatchesPromise'
          /\ \A d \in Calls : Reviewed(call'[d])
      BY <2>1, <2>3, CallMovedTypes DEF Pcs
    <3> QED
      BY <1>c, <2>1, <2>2, <3>1
  <2>4. CASE MayRetry(c) /\ call' = [call EXCEPT ![c].attempt = @ + 1]
    <3>1. /\ call' \in [Calls -> CallRecords]
          /\ call'[c].pc = call[c].pc /\ call'[c].intent = call[c].intent
          /\ call'[c].approval = call[c].approval
          /\ call'[c].registry = call[c].registry
          /\ \A d \in Calls : d # c => call'[d] = call[d]
      BY <1>0, <2>4, TriedAgain DEF ClientTyped
    <3>2. UiTyped' /\ UNCHANGED <<phase, pending>>
      BY <1>0, <2>1 DEF UiTyped, ui
    <3>3. ModalMatchesPromise'
      BY <1>0, <2>1, <3>1, <3>2, ModalUntouched
    <3>4. \A d \in Calls : Reviewed(call'[d])
      BY <3>1 DEF FlowTypes, Reviewed
    <3> QED
      BY <1>c, <2>1, <2>2, <3>1, <3>2, <3>3, <3>4
  <2> QED
    BY <1>7, <2>3, <2>4 DEF Send
<1>8. CASE SendDirect(c)
  <2>1. /\ mempool' \subseteq mempool \cup {PlainTx(c)}
        /\ UNCHANGED <<authorVars, deployed, ui, cache, landed>>
        /\ Goes(c, "direct", "sent") \/ Goes(c, "direct", "failed")
    BY <1>8 DEF SendDirect, Submitted
  <2>2. PlainTx(c) \in PlainTxs
    BY DEF PlainTx, PlainTxs
  <2>3. /\ call' \in [Calls -> CallRecords] /\ UiTyped' /\ ModalMatchesPromise'
        /\ \A d \in Calls : Reviewed(call'[d])
    BY <2>1, CallMovedTypes DEF Pcs
  <2> QED
    BY <1>c, <2>1, <2>2, <2>3
<1> QED
  BY <1>1, <1>2, <1>3, <1>4, <1>5, <1>6, <1>7, <1>8 DEF CallStep

\* What a step leaves alone, part by part.
ChainPart == <<chain, signed, now>>
ClientPart == <<deployed, call, cache, mempool, landed>>

LEMMA PartsKept ==
  ASSUME FlowTypes
  PROVE  /\ UNCHANGED ChainPart => ChainTyped'
         /\ UNCHANGED ui => UiTyped'
         /\ UNCHANGED ClientPart => ClientTyped'
         /\ UNCHANGED call => \A c \in Calls : Reviewed(call'[c])
         /\ UNCHANGED <<phase, pending, call>> => ModalMatchesPromise'
<1>1. ChainTyped /\ UiTyped /\ ClientTyped /\ ModalMatchesPromise
      /\ \A c \in Calls : Reviewed(call[c])
  BY DEF FlowTypes, FlowTyped
<1>2. UNCHANGED ChainPart => ChainTyped'
  BY <1>1 DEF ChainPart, chain, ChainTyped
<1>3. UNCHANGED ui => UiTyped'
  BY <1>1 DEF ui, UiTyped
<1>4. UNCHANGED ClientPart => ClientTyped'
  BY <1>1 DEF ClientPart, ClientTyped
<1>5. UNCHANGED <<phase, pending, call>> => ModalMatchesPromise'
  BY <1>1 DEF ModalMatchesPromise
<1> QED
  BY <1>1, <1>2, <1>3, <1>4, <1>5

\* An answer leaves calls well formed if it is one the device gave, or none is needed.
LEMMA ResolvedReviewed ==
  ASSUME FlowTypes, NEW kind \in Kinds, NEW rest, rest \subseteq Setups \cup Approvings,
         NEW next \in Pcs, NEW a \in {None} \cup Answers, Resolve(kind, rest, next, a),
         \/ next = "registered"
         \/ kind = "confirmation" /\ next = "confirmed"
         \/ kind = "approval" /\ next = "approved" /\ a \in Answers
  PROVE  \A c \in Calls : Reviewed(call'[c])
<1>0. UiTyped /\ ModalMatchesPromise /\ call \in [Calls -> CallRecords]
  BY DEF FlowTypes, FlowTyped, ClientTyped
<1>1. CASE pending.kind # kind /\ UNCHANGED call
  BY <1>1 DEF FlowTypes
<1>2. CASE /\ pending.kind = kind
           /\ call'[pending.call].pc = next
           /\ call'[pending.call].intent = call[pending.call].intent
           /\ call'[pending.call].registry = call[pending.call].registry
           /\ call'[pending.call].approval = a
           /\ \A d \in Calls : d # pending.call => call'[d] = call[d]
  <2>1. pending.call \in Calls /\ call[pending.call].pc = Waiting[kind]
    BY <1>0, <1>2, PendingFacts
  <2>2. kind \in {"confirmation", "approval"} =>
          call[pending.call].intent \in Intents /\ call[pending.call].registry \in Registries
    BY <2>1, PhaseNames DEF FlowTypes, Reviewed
  <2>3. Reviewed(call'[pending.call])
    BY <1>2, <2>2 DEF Reviewed
  <2> QED
    BY <1>2, <2>1, <2>3 DEF FlowTypes
<1> QED
  BY <1>0, <1>1, <1>2, Resolved

\* Settling the modal keeps everything well typed.
LEMMA ResolveTypes ==
  ASSUME FlowTypes, NEW kind \in Kinds, NEW rest, rest \subseteq Setups \cup Approvings,
         NEW next \in Pcs, NEW a \in {None} \cup Answers, Resolve(kind, rest, next, a),
         \/ next = "registered"
         \/ kind = "confirmation" /\ next = "confirmed"
         \/ kind = "approval" /\ next = "approved" /\ a \in Answers,
         ChainTyped', UNCHANGED <<deployed, cache, mempool, landed>>
  PROVE  FlowTypes'
<1>0. UiTyped /\ ModalMatchesPromise /\ ClientTyped /\ call \in [Calls -> CallRecords]
  BY DEF FlowTypes, FlowTyped, ClientTyped
<1>1. UiTyped' /\ ModalMatchesPromise' /\ call' \in [Calls -> CallRecords]
  BY <1>0, Resolved
<1>2. \A c \in Calls : Reviewed(call'[c])
  BY ResolvedReviewed
<1>3. ClientTyped'
  BY <1>0, <1>1 DEF ClientTyped
<1> QED
  BY <1>1, <1>2, <1>3 DEF FlowTypes, FlowTyped

LEMMA UserTypes == FlowTypes /\ UserActs => FlowTypes'
<1> SUFFICES ASSUME FlowTypes, UserActs PROVE FlowTypes'
  OBVIOUS
<1>0. ChainTyped /\ UiTyped /\ ClientTyped /\ ModalMatchesPromise
  BY DEF FlowTypes, FlowTyped
<1>a. ASSUME NEW t \in Setups \cup Approvings, StartTask(t) PROVE FlowTypes'
  <2>1. /\ tasks' = tasks \cup {t}
        /\ UNCHANGED <<ChainPart, ClientPart, phase, pending, call>>
    BY <1>a DEF StartTask, authorVars, ChainPart, ClientPart
  <2>2. UiTyped'
    BY <1>0, <1>a, <2>1 DEF UiTyped
  <2> QED
    BY <2>1, <2>2, PartsKept DEF FlowTypes, FlowTyped
<1>1. CASE StartSetup
  <2>1. [kind |-> "setup", step |-> "device", on |-> None, own |-> TRUE] \in Setups
    BY DEF Setups
  <2> QED
    BY <1>1, <1>a, <2>1 DEF StartSetup
<1>2. CASE Confirm
  <2>1. /\ Resolve("confirmation", tasks, "confirmed", None)
        /\ UNCHANGED <<ChainPart, deployed, cache, mempool, landed>>
    BY <1>2 DEF Confirm, authorVars, ChainPart
  <2>2. "confirmation" \in Kinds /\ "confirmed" \in Pcs /\ ChainTyped'
    BY <2>1, PartsKept DEF Kinds, Pcs
  <2>3. tasks \subseteq Setups \cup Approvings
    BY <1>0 DEF UiTyped
  <2> QED
    BY <2>1, <2>2, <2>3, ResolveTypes
<1>3. CASE StartApproval
  <2>1. /\ phase.name = Phase["approval"] /\ cache # None
        /\ StartTask([kind |-> "approval", step |-> "device", own |-> TRUE,
                      on |-> [cred |-> cache.entry.cred, intent |-> phase.intent]])
    BY <1>3 DEF StartApproval
  <2>2. cache.entry \in Entries
    BY <1>0, <2>1 DEF ClientTyped, Registries
  <2>3. phase.intent \in Intents
    <3>1. "approval" \in Kinds
      BY DEF Kinds
    <3>2. pending.kind = "approval"
      BY <1>0, <2>1, <3>1, ModalFacts
    <3>3. /\ pending.call \in Calls /\ call[pending.call].pc = "approving"
          /\ phase.intent = call[pending.call].intent
      BY <1>0, <3>1, <3>2, PendingFacts, PhaseNames
    <3> QED
      BY <3>3 DEF FlowTypes, Reviewed
  <2>4. [kind |-> "approval", step |-> "device", own |-> TRUE,
         on |-> [cred |-> cache.entry.cred, intent |-> phase.intent]] \in Approvings
    BY <2>2, <2>3 DEF Approvings
  <2> QED
    BY <1>a, <2>1, <2>4
<1>4. CASE Cancel
  <2>1. /\ phase # Idle /\ phase' = Idle /\ pending' = None /\ tasks' = Disowned
        /\ call' = [call EXCEPT ![pending.call].pc = "failed"]
        /\ UNCHANGED <<ChainPart, deployed, cache, mempool, landed>>
    BY <1>4 DEF Cancel, Rejected, PromiseDropped, authorVars, ChainPart
  <2>2. pending # None
    BY <1>0, <2>1 DEF ModalMatchesPromise
  <2>3. pending.call \in Calls
    BY <1>0, <2>2 DEF UiTyped
  <2>4. /\ call' \in [Calls -> CallRecords] /\ call'[pending.call].pc = "failed"
        /\ \A d \in Calls : d # pending.call => call'[d] = call[d]
    <3> DEFINE p == pending.call
    <3>1. p \in Calls /\ call' = [call EXCEPT ![p].pc = "failed"]
      BY <2>1, <2>3
    <3> HIDE DEF p
    <3>2. /\ call' \in [Calls -> CallRecords] /\ call'[p].pc = "failed"
          /\ \A d \in Calls : d # p => call'[d] = call[d]
      BY <1>0, <3>1, PcMoved DEF ClientTyped, Pcs
    <3> QED
      BY <3>2 DEF p
  <2>5. \A c \in Calls : Reviewed(call'[c])
    BY <2>4 DEF FlowTypes, Reviewed
  <2>6. UiTyped' /\ ModalMatchesPromise'
    BY <1>0, <2>1, DisownedTyped DEF UiTyped, Disowned, Idle, Phases, ModalMatchesPromise
  <2>7. ClientTyped' /\ ChainTyped'
    BY <1>0, <2>1, <2>4, PartsKept DEF ClientTyped
  <2> QED
    BY <2>5, <2>6, <2>7 DEF FlowTypes, FlowTyped
<1> QED
  BY <1>1, <1>2, <1>3, <1>4 DEF UserActs

LEMMA TaskTypes ==
  ASSUME FlowTypes, NEW t \in tasks, TaskStep(t)
  PROVE  FlowTypes'
<1>0. /\ ChainTyped /\ UiTyped /\ ClientTyped /\ ModalMatchesPromise
      /\ t \in Setups \cup Approvings
      /\ tasks \ {t} \subseteq Setups \cup Approvings
  BY DEF FlowTypes, FlowTyped, UiTyped
<1>1. ASSUME NEW e \in Entries, CreatePasskey(t, e) PROVE FlowTypes'
  <2>1. /\ \/ tasks' = (tasks \ {t}) \cup {[t EXCEPT !.step = "confirm", !.on = RegisterTx(e)]}
           \/ tasks' = tasks \ {t}
        /\ mempool' \subseteq mempool \cup {RegisterTx(e)}
        /\ t.kind = "setup"
        /\ UNCHANGED <<ChainPart, deployed, call, cache, landed, phase, pending>>
    BY <1>1 DEF CreatePasskey, authorVars, ChainPart
  <2>2. RegisterTx(e) \in RegisterTxs
    BY DEF RegisterTx, RegisterTxs
  <2>3. t \in Setups
    BY <1>0, <2>1 DEF Approvings
  <2>4. [t EXCEPT !.step = "confirm", !.on = RegisterTx(e)] \in Setups
    BY <2>2, <2>3 DEF Setups
  <2>5. UiTyped'
    BY <1>0, <2>1, <2>4 DEF UiTyped
  <2>6. ClientTyped'
    BY <1>0, <2>1, <2>2 DEF ClientTyped
  <2> QED
    BY <2>1, <2>5, <2>6, PartsKept DEF FlowTypes, FlowTyped
<1>2. CASE SetupConfirmed(t)
  <2>1. /\ Resolve("registration", tasks \ {t}, "registered", None)
        /\ UNCHANGED <<ChainPart, deployed, cache, mempool, landed>>
    BY <1>2 DEF SetupConfirmed, authorVars, ChainPart
  <2>2. "registration" \in Kinds /\ "registered" \in Pcs /\ ChainTyped'
    BY <2>1, PartsKept DEF Kinds, Pcs
  <2> QED
    BY <1>0, <2>1, <2>2, ResolveTypes
<1>3. CASE DeviceSigns(t)
  <2>1. PICK e \in Entries :
          /\ t.kind = "approval"
          /\ signed' = signed \cup {[key |-> e.pubkey, intent |-> t.on.intent]}
          /\ Resolve("approval", tasks \ {t}, "approved",
                     [key |-> e.pubkey, intent |-> t.on.intent])
    BY <1>3 DEF DeviceSigns
  <2>2. UNCHANGED <<chain, now, deployed, cache, mempool, landed>>
    BY <1>3 DEF DeviceSigns
  <2>3. t \in Approvings
    BY <1>0, <2>1 DEF Setups
  <2>4. t.on.intent \in Intents
    BY <2>3 DEF Approvings
  <2>5. [key |-> e.pubkey, intent |-> t.on.intent] \in Answers
    BY <2>4 DEF Answers
  <2>6. ChainTyped'
    BY <1>0, <2>1, <2>2, <2>5 DEF ChainTyped, chain
  <2>7. "approval" \in Kinds /\ "approved" \in Pcs
    BY DEF Kinds, Pcs
  <2> QED
    BY <1>0, <2>1, <2>2, <2>5, <2>6, <2>7, ResolveTypes
<1>4. CASE TaskFails(t)
  <2>1. /\ tasks' = tasks \ {t}
        /\ UNCHANGED <<ChainPart, ClientPart, phase, pending, call>>
    BY <1>4 DEF TaskFails, authorVars, ChainPart, ClientPart
  <2>2. UiTyped'
    BY <1>0, <2>1 DEF UiTyped
  <2> QED
    BY <2>1, <2>2, PartsKept DEF FlowTypes, FlowTyped
<1> QED
  BY <1>1, <1>2, <1>3, <1>4 DEF TaskStep

\* An accepted request is one a device signed, of the connected wallet, for the call
\* whose transaction landed.
LEMMA AcceptedFacts ==
  ASSUME FlowTypes, NEW t \in mempool, t.kind = "proved", Lands(t), t.by.intent = Expected(t),
         Accept(t.by)
  PROVE  /\ t \in ProvedTxs /\ t.call \in Calls
         /\ t.by \in signed /\ t.by \in Answers
         /\ t.by.intent.wallet = me /\ t.by.intent.ix = CallIx[t.call]
         /\ t.by.intent.nonce = nonce[me]
         /\ nonce' = [nonce EXCEPT ![me] = @ + 1]
         /\ accepted' = Append(accepted, [s |-> t.by, era |-> era[me]])
         /\ UNCHANGED <<era, keys>>
<1>1. t \in ProvedTxs
  BY DEF FlowTypes, FlowTyped, ClientTyped, RegisterTxs, PlainTxs
<1>2. t.call \in Calls /\ t.by \in Answers
  BY <1>1 DEF ProvedTxs
<1>3. /\ t.by.intent.wallet = me /\ t.by.intent.ix = CallIx[t.call]
      /\ t.by.intent.nonce = nonce[me]
  BY DEF Expected
<1>4. /\ t.by \in signed
      /\ nonce' = [nonce EXCEPT ![me] = @ + 1]
      /\ accepted' = Append(accepted, [s |-> t.by, era |-> era[me]])
      /\ UNCHANGED <<era, keys>>
  BY <1>3 DEF Accept, Accepted, Acceptable
<1> QED
  BY <1>1, <1>2, <1>3, <1>4

\* The three ways a transaction takes effect.
Registers(t) == t.kind = "register" /\ RegisterKey(me, t.entry) /\ UNCHANGED landed
Proves(t) ==
  /\ t.kind = "proved"
  /\ t.by.intent = Expected(t)
  /\ nonce[me] < MaxNonce
  /\ Accept(t.by)
  /\ landed' = [landed EXCEPT ![t.call] = @ + 1]
Passes(t) ==
  /\ t.kind \in {"plain", "proved"}
  /\ t.call \in Conditional
  /\ landed' = [landed EXCEPT ![t.call] = @ + 1]
  /\ UNCHANGED chain

LEMMA LandsFacts ==
  ASSUME NEW t, Lands(t)
  PROVE  /\ mempool' \subseteq mempool
         /\ UNCHANGED <<deployed, call, ui, cache, shown, signed, now>>
         /\ Registers(t) \/ Proves(t) \/ Passes(t)
BY DEF Lands, chainOnly, authorVars, Registers, Proves, Passes

LEMMA ClusterTypes ==
  ASSUME FlowTypes,
         \/ \E t \in mempool : Lands(t) \/ Dropped(t)
         \/ Subscription \/ Other \/ Tick
         \/ UNCHANGED flowVars
  PROVE  FlowTypes'
<1>0. /\ ChainTyped /\ UiTyped /\ ClientTyped /\ ModalMatchesPromise
      /\ me \in Holders /\ nonce[me] \in Nat
  BY FlowAssumption DEF FlowTypes, FlowTyped, ChainTyped
<1>a. ASSUME UNCHANGED <<call, ui>>, ChainTyped', ClientTyped' PROVE FlowTypes'
  <2>1. UiTyped' /\ ModalMatchesPromise' /\ \A c \in Calls : Reviewed(call'[c])
    BY <1>a, PartsKept DEF ui
  <2> QED
    BY <1>a, <2>1 DEF FlowTypes, FlowTyped
<1>b. ASSUME NEW e \in Entries, RegisterKey(me, e), UNCHANGED <<signed, now>>
      PROVE  ChainTyped'
  <2>1. /\ keys' = [keys EXCEPT ![me] = {e}]
        /\ UNCHANGED <<nonce, era, accepted>>
    BY <1>b DEF RegisterKey
  <2> QED
    BY <1>0, <1>b, <2>1 DEF ChainTyped
<1>1. ASSUME NEW t \in mempool, Lands(t) PROVE FlowTypes'
  <2>0. /\ mempool' \subseteq mempool
        /\ UNCHANGED <<deployed, call, ui, cache, signed, now>>
    BY <1>1, LandsFacts
  <2>1. CASE Registers(t)
    <3>1. t \in RegisterTxs
      BY <1>0, <2>1 DEF ClientTyped, PlainTxs, ProvedTxs, Registers
    <3>2. t.entry \in Entries
      BY <3>1 DEF RegisterTxs
    <3>3. ChainTyped'
      BY <1>b, <2>0, <2>1, <3>2 DEF Registers
    <3>4. ClientTyped'
      BY <1>0, <2>0, <2>1 DEF ClientTyped, Registers
    <3> QED
      BY <1>a, <2>0, <3>3, <3>4
  <2>2. CASE Proves(t)
    <3>1. /\ t.call \in Calls /\ t.by \in Answers
          /\ nonce' = [nonce EXCEPT ![me] = @ + 1]
          /\ accepted' = Append(accepted, [s |-> t.by, era |-> era[me]])
          /\ UNCHANGED <<era, keys>>
      BY <1>1, <2>2, AcceptedFacts DEF Proves
    <3>2. nonce'[me] <= MaxNonce /\ nonce' \in [Holders -> Nat]
      BY <1>0, <2>2, <3>1, FlowAssumption DEF ChainTyped, Proves
    <3>3. [s |-> t.by, era |-> era[me]] \in [s: Answers, era: Nat]
      BY <1>0, <3>1 DEF ChainTyped
    <3>4. accepted' \in Seq([s: Answers, era: Nat])
      BY <1>0, <3>1, <3>3 DEF ChainTyped
    <3>5. ChainTyped'
      BY <1>0, <2>0, <3>1, <3>2, <3>4 DEF ChainTyped
    <3>6. landed' \in [Calls -> Nat]
      BY <1>0, <2>2, <3>1 DEF ClientTyped, Proves
    <3>7. ClientTyped'
      BY <1>0, <2>0, <3>6 DEF ClientTyped
    <3> QED
      BY <1>a, <2>0, <3>5, <3>7
  <2>3. CASE Passes(t)
    <3>1. t.call \in Calls
      BY <2>3, FlowAssumption DEF Passes
    <3>2. landed' \in [Calls -> Nat]
      BY <1>0, <2>3, <3>1 DEF ClientTyped, Passes
    <3>3. ClientTyped'
      BY <1>0, <2>0, <3>2 DEF ClientTyped
    <3>4. ChainTyped'
      BY <2>0, <2>3, PartsKept DEF ChainPart, Passes
    <3> QED
      BY <1>a, <2>0, <3>3, <3>4
  <2> QED
    BY <1>1, <2>1, <2>2, <2>3, LandsFacts
<1>2. ASSUME NEW t \in mempool, Dropped(t) PROVE FlowTypes'
  <2>1. /\ mempool' \subseteq mempool
        /\ UNCHANGED <<ChainPart, deployed, call, ui, cache, landed>>
    BY <1>2 DEF Dropped, chainOnly, authorVars, ChainPart
  <2>2. ChainTyped' /\ ClientTyped'
    BY <1>0, <2>1, PartsKept DEF ClientTyped
  <2> QED
    BY <1>a, <2>1, <2>2
<1>3. CASE Subscription
  <2>1. /\ cache' = IF FetchRegistry.kind = "registry" THEN FetchRegistry ELSE None
        /\ UNCHANGED <<ChainPart, deployed, call, ui, mempool, landed>>
    BY <1>3 DEF Subscription, authorVars, ChainPart
  <2>2. cache' \in {None} \cup Registries
    BY <1>0, <2>1, FetchFacts DEF ClientTyped
  <2>3. ChainTyped' /\ ClientTyped'
    BY <1>0, <2>1, <2>2, PartsKept DEF ClientTyped
  <2> QED
    BY <1>a, <2>1, <2>3
<1>4. CASE Other
  <2>1. /\ UNCHANGED <<signed, now, ClientPart, ui>>
        /\ \E e \in Entries : RegisterKey(me, e) \/ Recover(me, e)
    BY <1>4 DEF Other, chainOnly, ClientPart
  <2>2. ASSUME NEW e \in Entries, Recover(me, e) PROVE ChainTyped'
    <3>1. /\ keys' = [keys EXCEPT ![me] = {e}] /\ nonce' = [nonce EXCEPT ![me] = 0]
          /\ era' = [era EXCEPT ![me] = @ + 1] /\ UNCHANGED accepted
      BY <2>2 DEF Recover
    <3>2. nonce' \in [Holders -> Nat] /\ nonce'[me] <= MaxNonce
      BY <1>0, <3>1, FlowAssumption DEF ChainTyped
    <3>3. keys' \in [Holders -> SUBSET Entries] /\ era' \in [Holders -> Nat]
      BY <1>0, <3>1 DEF ChainTyped
    <3> QED
      BY <1>0, <2>1, <3>1, <3>2, <3>3 DEF ChainTyped
  <2>3. ChainTyped'
    BY <1>b, <2>1, <2>2
  <2> QED
    BY <1>a, <2>1, <2>3, PartsKept DEF ClientPart
<1>5. CASE Tick
  <2>1. now' = now + 1 /\ UNCHANGED <<chain, signed, ClientPart, ui>>
    BY <1>5 DEF Tick, chainOnly, ClientPart
  <2>2. ChainTyped'
    BY <1>0, <2>1 DEF ChainTyped, chain
  <2> QED
    BY <1>a, <2>1, <2>2, PartsKept DEF ClientPart
<1>6. CASE UNCHANGED flowVars
  BY <1>6, <1>a, PartsKept DEF flowVars, authorVars, ChainPart, ClientPart
<1> QED
  BY <1>1, <1>2, <1>3, <1>4, <1>5, <1>6

LEMMA FlowTypesStep == FlowTypes /\ [FlowNext]_flowVars => FlowTypes'
BY CallStepTypes, UserTypes, TaskTypes, ClusterTypes DEF FlowNext

LEMMA FlowTypesInvariance == FlowSpec => []FlowTypes
BY FlowInitTypes, FlowTypesStep, PTL DEF FlowSpec

\* The SDK's records keep their types: attempts stay within the limit, and a registry
\* that could not be parsed is never kept.
THEOREM FlowStateTypes == FlowSpec => []FlowTypeOK
<1>1. FlowTypes => FlowTypeOK
  <2> SUFFICES ASSUME FlowTypes PROVE FlowTypeOK
    OBVIOUS
  <2>0. ChainTyped /\ UiTyped /\ ClientTyped /\ me \in Holders /\ MaxNonce \in Nat
    BY FlowAssumption DEF FlowTypes, FlowTyped
  <2>1. ASSUME NEW c \in Calls
        PROVE  /\ call[c].attempt \in 0..MAX_BLOCKHASH_RETRIES - 1
               /\ call[c].registry.kind \in {"none", "registry"}
    <3>1. call[c] \in CallRecords
      BY <2>0 DEF ClientTyped
    <3>2. /\ call[c].registry \in {None} \cup Registries
          /\ call[c].attempt \in 0..MAX_BLOCKHASH_RETRIES - 1
      BY <3>1 DEF CallRecords
    <3> QED
      BY <3>2, NoneDiffers DEF Registries
  <2>2. phase.name \in {"idle"} \cup {Phase[k] : k \in DOMAIN Phase}
    BY <2>0, PhaseNames DEF UiTyped, Phases, Kinds
  <2>3. pending = None \/ pending \in [kind: DOMAIN Phase, call: Calls]
    BY <2>0, PhaseNames DEF UiTyped
  <2>4. cache.kind \in {"none", "registry"}
    BY <2>0, NoneDiffers DEF ClientTyped, Registries
  <2>5. nonce[me] \in 0..MaxNonce
    BY <2>0 DEF ChainTyped
  <2>6. DOMAIN call = Calls
    BY <2>0 DEF ClientTyped
  <2> QED
    BY <2>1, <2>2, <2>3, <2>4, <2>5, <2>6 DEF FlowTypeOK
<1> QED
  BY <1>1, FlowTypesInvariance, PTL

\* An answer never resumes a call for something the user did not see.
THEOREM ModalsMatchPromises == FlowSpec => []ModalMatchesPromise
<1>1. FlowTypes => ModalMatchesPromise
  BY DEF FlowTypes
<1> QED
  BY <1>1, FlowTypesInvariance, PTL

-----------------------------------------------------------------------------
(* How a call moves.                                                       *)

\* The user has confirmed what the call is about.
Authorized == {"confirmed", "approving", "approved"}

\* A device has answered for the call, or the call has given up.
Answered == {"approved", "sent", "failed"}

\* What any step of the running calls amounts to: an answer is kept, an authorized call
\* was authorized for the same intent before, a review starts only where registries
\* can be read, and only an approved call submits a proof.
Moves(c) ==
  /\ \A d \in Calls : d # c => call'[d] = call[d]
  /\ call[c].pc \in Answered =>
       call'[c].pc \in Answered /\ call'[c].approval = call[c].approval
  /\ call'[c].pc \in Authorized =>
       call[c].pc \in Authorized /\ call'[c].intent = call[c].intent
  /\ call'[c].pc \in {"confirming"} \cup Authorized =>
       deployed = "sdk" \/ call[c].pc \in Authorized
  /\ \A t \in mempool' : \/ t \in mempool
                         \/ t \in PlainTxs
                         \/ t = ProvedTx(c) /\ call[c].pc = "approved"
  /\ tasks' \in {tasks, Disowned}
  /\ UNCHANGED <<authorVars, deployed, cache, shown, landed>>

LEMMA CallMoves ==
  ASSUME FlowTypes, NEW c \in Calls, Start(c) \/ CallStep(c)
  PROVE  Moves(c)
<1>0. /\ ChainTyped /\ ClientTyped /\ call \in [Calls -> CallRecords]
  BY DEF FlowTypes, FlowTyped, ClientTyped
<1> USE DEF Moves, Answered, Authorized
<1>a. ASSUME NEW from, NEW to \in Pcs, Goes(c, from, to), UNCHANGED <<clientOnly, tasks>>,
             from \notin Answered, to \notin {"confirming"} \cup Authorized
      PROVE  Moves(c)
  <2>1. /\ call[c].pc = from /\ call'[c].pc = to
        /\ \A d \in Calls : d # c => call'[d] = call[d]
    BY <1>0, <1>a, PcMoved DEF Goes
  <2> QED
    BY <1>a, <2>1 DEF clientOnly
<1>b. ASSUME NEW r, r = FetchRegistry, r.kind = "registry", Review(c, r),
             call[c].pc \notin Answered, UNCHANGED clientOnly
      PROVE  Moves(c)
  <2>1. r \in Registries /\ deployed = "sdk"
    BY <1>0, <1>b, FetchFacts DEF ClientTyped
  <2>2. /\ call'[c].pc = "confirming" /\ \A d \in Calls : d # c => call'[d] = call[d]
    BY <1>b, <2>1, ReviewTypes
  <2>3. tasks' \in {tasks, Disowned}
    BY <1>b DEF Review, Trigger
  <2> QED
    BY <1>b, <2>1, <2>2, <2>3 DEF clientOnly
<1>1. CASE Start(c)
  BY <1>1, <1>a DEF Start, Pcs, ui
<1>2. CASE DetectEnforcement(c)
  BY <1>2, <1>a DEF DetectEnforcement, Pcs, ui
<1>3. CASE DetectRegistry(c)
  <2> DEFINE why == IF keys[me] = {} THEN "no-registry" ELSE "missing-proof"
  <2>1. /\ call[c].pc = "lookup" /\ why \in {"no-registry", "missing-proof"}
        /\ call' = [call EXCEPT ![c].pc = "fetch", ![c].reason = why]
        /\ UNCHANGED <<clientOnly, tasks>>
    BY <1>3 DEF DetectRegistry, ui
  <2> HIDE DEF why
  <2>2. call'[c].pc = "fetch" /\ \A d \in Calls : d # c => call'[d] = call[d]
    BY <1>0, <2>1, ReasonGiven
  <2> QED
    BY <2>1, <2>2 DEF clientOnly
<1>4. CASE EnsureRegistry(c)
  <2>0. UNCHANGED clientOnly
    BY <1>4 DEF EnsureRegistry
  <2>1. CASE Goes(c, "fetch", "failed") /\ UNCHANGED ui
    BY <1>a, <2>0, <2>1 DEF Pcs, ui
  <2>2. CASE Goes(c, "fetch", "registering") /\ Trigger(c, "registration", None)
    <3>1. /\ call[c].pc = "fetch" /\ call'[c].pc = "registering"
          /\ \A d \in Calls : d # c => call'[d] = call[d]
      BY <1>0, <2>2, PcMoved DEF Goes, Pcs
    <3>2. tasks' \in {tasks, Disowned}
      BY <2>2 DEF Trigger
    <3> QED
      BY <2>0, <3>1, <3>2 DEF clientOnly
  <2>3. CASE call[c].pc = "fetch" /\ FetchRegistry.kind = "registry" /\ Review(c, FetchRegistry)
    BY <1>b, <2>0, <2>3
  <2> QED
    BY <1>4, <2>1, <2>2, <2>3 DEF EnsureRegistry
<1>5. CASE RefetchRegistry(c)
  <2>0. UNCHANGED clientOnly
    BY <1>5 DEF RefetchRegistry
  <2>1. CASE Goes(c, "registered", "failed") /\ UNCHANGED ui
    BY <1>a, <2>0, <2>1 DEF Pcs, ui
  <2>2. CASE call[c].pc = "registered" /\ FetchRegistry.kind = "registry" /\ Review(c, FetchRegistry)
    BY <1>b, <2>0, <2>2
  <2> QED
    BY <1>5, <2>1, <2>2 DEF RefetchRegistry
<1>6. CASE AskApproval(c)
  <2>1. /\ call[c].pc = "confirmed" /\ call' = [call EXCEPT ![c].pc = "approving"]
        /\ tasks' \in {tasks, Disowned} /\ UNCHANGED clientOnly
    BY <1>6 DEF AskApproval, Goes, Trigger
  <2>2. /\ call'[c].pc = "approving" /\ call'[c].intent = call[c].intent
        /\ \A d \in Calls : d # c => call'[d] = call[d]
    BY <1>0, <2>1, PcMoved DEF Pcs
  <2> QED
    BY <2>1, <2>2 DEF clientOnly
<1>7. CASE Send(c)
  <2>1. /\ call[c].pc = "approved"
        /\ mempool' \subseteq mempool \cup {ProvedTx(c)}
        /\ UNCHANGED <<authorVars, deployed, tasks, cache, shown, landed>>
    BY <1>7 DEF Send, Submitted, ui
  <2>2. CASE Goes(c, "approved", "sent") \/ Goes(c, "approved", "failed")
    <3>1. /\ call'[c].pc \in {"sent", "failed"} /\ call'[c].approval = call[c].approval
          /\ \A d \in Calls : d # c => call'[d] = call[d]
      BY <1>0, <2>2, PcMoved DEF Goes, Pcs
    <3> QED
      BY <2>1, <3>1
  <2>3. CASE MayRetry(c) /\ call' = [call EXCEPT ![c].attempt = @ + 1]
    <3>1. /\ call'[c].pc = call[c].pc /\ call'[c].intent = call[c].intent
          /\ call'[c].approval = call[c].approval
          /\ \A d \in Calls : d # c => call'[d] = call[d]
      BY <1>0, <2>3, TriedAgain
    <3> QED
      BY <2>1, <3>1
  <2> QED
    BY <1>7, <2>2, <2>3 DEF Send
<1>8. CASE SendDirect(c)
  <2>1. /\ mempool' \subseteq mempool \cup {PlainTx(c)}
        /\ UNCHANGED <<authorVars, deployed, tasks, cache, shown, landed>>
        /\ Goes(c, "direct", "sent") \/ Goes(c, "direct", "failed")
    BY <1>8 DEF SendDirect, Submitted, ui
  <2>2. PlainTx(c) \in PlainTxs
    BY DEF PlainTx, PlainTxs
  <2>3. /\ call[c].pc = "direct" /\ call'[c].pc \in {"sent", "failed"}
        /\ \A d \in Calls : d # c => call'[d] = call[d]
    BY <1>0, <2>1, PcMoved DEF Goes, Pcs
  <2> QED
    BY <2>1, <2>2, <2>3
<1> QED
  BY <1>1, <1>2, <1>3, <1>4, <1>5, <1>6, <1>7, <1>8 DEF CallStep

\* What the user and the devices do to the calls: at most one call changes, the one
\* whose modal is open, and it had no answer yet.
Settles(c) ==
  /\ \A d \in Calls : d # c => call'[d] = call[d]
  /\ call'[c] # call[c] =>
       /\ c \in Calls
       /\ call[c].pc \in {"registering", "confirming", "approving"}
       /\ call'[c].pc \in {"confirming"} \cup Authorized =>
            \/ /\ call[c].pc = "confirming" /\ call'[c].pc = "confirmed"
               /\ call'[c].intent = call[c].intent /\ phase.intent = call[c].intent
            \/ /\ call[c].pc = "approving" /\ call'[c].pc = "approved"
               /\ call'[c].intent = call[c].intent

LEMMA ResolveSettles ==
  ASSUME FlowTypes, NEW kind \in Kinds, NEW rest, rest \subseteq Setups \cup Approvings,
         NEW next \in Pcs, NEW a \in {None} \cup Answers, Resolve(kind, rest, next, a),
         \/ next = "registered"
         \/ kind = "confirmation" /\ next = "confirmed"
         \/ kind = "approval" /\ next = "approved" /\ a \in Answers
  PROVE  Settles(pending.call)
<1>0. UiTyped /\ ModalMatchesPromise /\ call \in [Calls -> CallRecords]
  BY DEF FlowTypes, FlowTyped, ClientTyped
<1>1. CASE pending.kind # kind /\ UNCHANGED call
  BY <1>1 DEF Settles
<1>2. CASE /\ pending.kind = kind
           /\ call'[pending.call].pc = next
           /\ call'[pending.call].intent = call[pending.call].intent
           /\ \A d \in Calls : d # pending.call => call'[d] = call[d]
  <2>1. /\ pending.call \in Calls /\ call[pending.call].pc = Waiting[kind]
        /\ kind # "registration" => phase.intent = call[pending.call].intent
    BY <1>0, <1>2, PendingFacts
  <2> QED
    BY <1>2, <2>1, PhaseNames DEF Settles, Kinds, Authorized
<1> QED
  BY <1>0, <1>1, <1>2, Resolved

\* A modal that is settled, or closed, at most disowns ceremonies.
LEMMA TasksOnlyDisowned ==
  ASSUME NEW T, T \subseteq Setups \cup Approvings, NEW S,
         \A t \in T : t.kind = "approval" => t.on.intent \in S
  PROVE  \A t \in {[x EXCEPT !.own = FALSE] : x \in T} :
           t.kind = "approval" => t.on.intent \in S
<1> SUFFICES ASSUME NEW x \in T, [x EXCEPT !.own = FALSE].kind = "approval"
             PROVE  [x EXCEPT !.own = FALSE].on.intent \in S
  OBVIOUS
<1>1. CASE x \in Setups
  BY <1>1 DEF Setups
<1>2. CASE x \in Approvings
  <2>1. [x EXCEPT !.own = FALSE].on = x.on /\ x.kind = "approval"
    BY <1>2 DEF Approvings
  <2> QED
    BY <2>1
<1> QED
  BY <1>1, <1>2

LEMMA CancelSettles ==
  ASSUME FlowTypes, Cancel
  PROVE  Settles(pending.call) /\ \A c \in Calls : call'[c].pc = "confirmed" => call'[c] = call[c]
<1>0. ClientTyped /\ UiTyped /\ ModalMatchesPromise /\ call \in [Calls -> CallRecords]
  BY DEF FlowTypes, FlowTyped, ClientTyped
<1>1. phase # Idle /\ call' = [call EXCEPT ![pending.call].pc = "failed"]
  BY DEF Cancel, Rejected
<1>2. pending # None
  BY <1>0, <1>1 DEF ModalMatchesPromise
<1>3. pending.kind \in Kinds /\ pending.call \in Calls
  BY <1>0, <1>2 DEF UiTyped
<1>4. call[pending.call].pc \in {"registering", "confirming", "approving"}
  BY <1>0, <1>3, PendingFacts, PhaseNames DEF Kinds
<1>5. /\ call'[pending.call].pc = "failed"
      /\ \A d \in Calls : d # pending.call => call'[d] = call[d]
  <2> DEFINE p == pending.call
  <2>1. p \in Calls /\ call' = [call EXCEPT ![p].pc = "failed"]
    BY <1>1, <1>3
  <2> HIDE DEF p
  <2>2. call'[p].pc = "failed" /\ \A d \in Calls : d # p => call'[d] = call[d]
    BY <1>0, <2>1, PcMoved DEF Pcs
  <2> QED
    BY <2>2 DEF p
<1> QED
  BY <1>3, <1>4, <1>5 DEF Settles, Authorized

\* Every step: a call moves, a modal settles, a transaction lands, or the wallet's
\* other clients act.
LEMMA StepCases ==
  ASSUME FlowTypes, [FlowNext]_flowVars
  PROVE  \/ \E c \in Calls : Moves(c)
         \/ /\ \E c : Settles(c)
            /\ mempool' \subseteq mempool \cup RegisterTxs
            /\ UNCHANGED <<chain, deployed, landed>>
         \/ /\ UNCHANGED <<call, deployed>>
            /\ mempool' \subseteq mempool
            /\ \/ \E t \in mempool : Lands(t)
               \/ \E e \in Entries : Recover(me, e) /\ UNCHANGED landed
               \/ UNCHANGED <<nonce, era, accepted, landed>>
<1> DEFINE Settled1 == /\ \E c : Settles(c)
                       /\ mempool' \subseteq mempool \cup RegisterTxs
                       /\ UNCHANGED <<chain, deployed, landed>>
           Elsewhere == /\ UNCHANGED <<call, deployed>>
                        /\ mempool' \subseteq mempool
                        /\ \/ \E t \in mempool : Lands(t)
                           \/ \E e \in Entries : Recover(me, e) /\ UNCHANGED landed
                           \/ UNCHANGED <<nonce, era, accepted, landed>>
<1>0. UiTyped
  BY DEF FlowTypes, FlowTyped
<1>a. ASSUME UNCHANGED call PROVE \E c : Settles(c)
  BY <1>a DEF Settles
<1>1. ASSUME NEW c \in Calls, Start(c) \/ CallStep(c) PROVE Moves(c)
  BY <1>1, CallMoves
<1>2. CASE UserActs
  <2>1. CASE StartSetup \/ StartApproval
    <3>1. UNCHANGED <<authorVars, deployed, call, mempool, landed>>
      BY <2>1 DEF StartSetup, StartApproval, StartTask
    <3> QED
      BY <1>a, <3>1 DEF authorVars
  <2>2. CASE Confirm
    <3>1. /\ Resolve("confirmation", tasks, "confirmed", None)
          /\ UNCHANGED <<authorVars, deployed, mempool, landed>>
      BY <2>2 DEF Confirm
    <3>2. Settles(pending.call)
      <4>1. "confirmation" \in Kinds /\ "confirmed" \in Pcs
        BY DEF Kinds, Pcs
      <4> QED
        BY <1>0, <3>1, <4>1, ResolveSettles DEF UiTyped
    <3> QED
      BY <3>1, <3>2 DEF authorVars
  <2>3. CASE Cancel
    <3>1. UNCHANGED <<authorVars, deployed, mempool, landed>>
      BY <2>3 DEF Cancel
    <3> QED
      BY <2>3, <3>1, CancelSettles DEF authorVars
  <2> QED
    BY <1>2, <2>1, <2>2, <2>3 DEF UserActs
<1>3. ASSUME NEW t \in tasks, TaskStep(t) PROVE Settled1
  <2>0. tasks \ {t} \subseteq Setups \cup Approvings /\ t \in Setups \cup Approvings
    BY <1>0 DEF UiTyped
  <2>1. ASSUME NEW e \in Entries, CreatePasskey(t, e) PROVE Settled1
    <3>1. /\ UNCHANGED <<authorVars, deployed, call, landed>>
          /\ mempool' \subseteq mempool \cup {RegisterTx(e)}
      BY <2>1 DEF CreatePasskey
    <3>2. RegisterTx(e) \in RegisterTxs
      BY DEF RegisterTx, RegisterTxs
    <3> QED
      BY <1>a, <3>1, <3>2 DEF authorVars
  <2>2. CASE SetupConfirmed(t)
    <3>1. /\ Resolve("registration", tasks \ {t}, "registered", None)
          /\ UNCHANGED <<authorVars, deployed, mempool, landed>>
      BY <2>2 DEF SetupConfirmed
    <3>2. "registration" \in Kinds /\ "registered" \in Pcs
      BY DEF Kinds, Pcs
    <3>3. Settles(pending.call)
      BY <2>0, <3>1, <3>2, ResolveSettles
    <3> QED
      BY <3>1, <3>3 DEF authorVars
  <2>3. CASE DeviceSigns(t)
    <3>1. PICK a \in Answers : Resolve("approval", tasks \ {t}, "approved", a)
      <4>1. PICK e \in Entries :
              /\ t.kind = "approval"
              /\ Resolve("approval", tasks \ {t}, "approved",
                         [key |-> e.pubkey, intent |-> t.on.intent])
        BY <2>3 DEF DeviceSigns
      <4>2. t.on.intent \in Intents
        BY <2>0, <4>1 DEF Setups, Approvings
      <4>3. [key |-> e.pubkey, intent |-> t.on.intent] \in Answers
        BY <4>2 DEF Answers
      <4> QED
        BY <4>1, <4>3
    <3>2. "approval" \in Kinds /\ "approved" \in Pcs
      BY DEF Kinds, Pcs
    <3>3. Settles(pending.call)
      BY <2>0, <3>1, <3>2, ResolveSettles
    <3>4. UNCHANGED <<chain, deployed, mempool, landed>>
      BY <2>3 DEF DeviceSigns
    <3> QED
      BY <3>3, <3>4
  <2>4. CASE TaskFails(t)
    <3>1. UNCHANGED <<authorVars, deployed, call, mempool, landed>>
      BY <2>4 DEF TaskFails
    <3> QED
      BY <1>a, <3>1 DEF authorVars
  <2> QED
    BY <1>3, <2>1, <2>2, <2>3, <2>4 DEF TaskStep
<1>4. ASSUME NEW t \in mempool, Lands(t) PROVE Elsewhere
  BY <1>4, LandsFacts
<1>5. ASSUME NEW t \in mempool, Dropped(t) PROVE Elsewhere
  BY <1>5 DEF Dropped, chainOnly, authorVars, chain
<1>6. CASE Other
  BY <1>6 DEF Other, chainOnly, RegisterKey
<1>7. CASE Subscription \/ Tick \/ UNCHANGED flowVars
  BY <1>7 DEF Subscription, Tick, flowVars, chainOnly, authorVars, chain
<1> QED
  BY <1>1, <1>2, <1>3, <1>4, <1>5, <1>6, <1>7 DEF FlowNext

\* Who has been answered keeps the answer.
LEMMA AnswersKept ==
  ASSUME \/ \E c \in Calls : Moves(c)
         \/ \E c : Settles(c)
         \/ UNCHANGED call
  PROVE  \A d \in Calls : call[d].pc \in Answered =>
           call'[d].pc \in Answered /\ call'[d].approval = call[d].approval
<1> SUFFICES ASSUME NEW d \in Calls, call[d].pc \in Answered
             PROVE  call'[d].pc \in Answered /\ call'[d].approval = call[d].approval
  OBVIOUS
<1>1. ASSUME NEW c \in Calls, Moves(c)
      PROVE  call'[d].pc \in Answered /\ call'[d].approval = call[d].approval
  BY <1>1 DEF Moves
<1>2. ASSUME NEW c, Settles(c)
      PROVE  call'[d].pc \in Answered /\ call'[d].approval = call[d].approval
  BY <1>2 DEF Settles, Answered
<1> QED
  BY <1>1, <1>2

-----------------------------------------------------------------------------
(* The guard of this repository.                                           *)

\* Where registries cannot be read no call reaches the review, and no proof is sent.
NothingPassesInv ==
  /\ deployed = "repo" =>
       /\ \A c \in Calls : call[c].pc \notin {"confirming"} \cup Authorized
       /\ \A t \in mempool : t.kind # "proved"
  /\ NothingPassesHere

LEMMA NothingPassesStep ==
  FlowTypes /\ NothingPassesInv /\ [FlowNext]_flowVars => NothingPassesInv'
<1> SUFFICES ASSUME FlowTypes, NothingPassesInv, [FlowNext]_flowVars, deployed' = "repo"
             PROVE  /\ \A c \in Calls : call'[c].pc \notin {"confirming"} \cup Authorized
                    /\ \A t \in mempool' : t.kind # "proved"
                    /\ \A c \in Calls \ Conditional : landed'[c] = 0
  BY DEF NothingPassesInv, NothingPassesHere
<1>0. deployed = "repo"
  BY StepCases DEF Moves
<1>1. /\ \A c \in Calls : call[c].pc \notin {"confirming"} \cup Authorized
      /\ \A t \in mempool : t.kind # "proved"
      /\ \A c \in Calls \ Conditional : landed[c] = 0
      /\ landed \in [Calls -> Nat]
  BY <1>0 DEF NothingPassesInv, NothingPassesHere, FlowTypes, FlowTyped, ClientTyped
<1>2. /\ \A t \in RegisterTxs : t.kind # "proved"
      /\ \A t \in PlainTxs : t.kind # "proved"
  BY DEF RegisterTxs, PlainTxs
<1>3. ASSUME NEW c \in Calls, Moves(c)
      PROVE  /\ \A d \in Calls : call'[d].pc \notin {"confirming"} \cup Authorized
             /\ \A t \in mempool' : t.kind # "proved"
             /\ UNCHANGED landed
  BY <1>0, <1>1, <1>2, <1>3 DEF Moves, Authorized
<1>4. ASSUME NEW c, Settles(c)
      PROVE  \A d \in Calls : call'[d].pc \notin {"confirming"} \cup Authorized
  BY <1>1, <1>4 DEF Settles, Authorized
<1>5. ASSUME NEW t \in mempool, Lands(t)
      PROVE  \A c \in Calls \ Conditional : landed'[c] = 0
  <2>1. Registers(t) \/ Passes(t)
    BY <1>1, <1>5, LandsFacts DEF Proves
  <2>2. CASE Registers(t)
    BY <1>1, <2>2 DEF Registers
  <2>3. CASE Passes(t)
    BY <1>1, <2>3 DEF Passes
  <2> QED
    BY <2>1, <2>2, <2>3
<1>6. CASE \E c \in Calls : Moves(c)
  BY <1>1, <1>3, <1>6
<1>7. CASE /\ \E c : Settles(c)
           /\ mempool' \subseteq mempool \cup RegisterTxs
           /\ UNCHANGED <<chain, deployed, landed>>
  BY <1>1, <1>2, <1>4, <1>7
<1>8. CASE /\ UNCHANGED <<call, deployed>>
           /\ mempool' \subseteq mempool
           /\ \/ \E t \in mempool : Lands(t)
              \/ \E e \in Entries : Recover(me, e) /\ UNCHANGED landed
              \/ UNCHANGED <<nonce, era, accepted, landed>>
  BY <1>1, <1>5, <1>8
<1> QED
  BY <1>6, <1>7, <1>8, StepCases

\* Against this repository's guard the React flow gets nothing protected through.
THEOREM ReactFlowPassesNothing == FlowSpec => []NothingPassesHere
<1>1. FlowInit => NothingPassesInv
  <2> SUFFICES ASSUME FlowInit PROVE NothingPassesInv
    OBVIOUS
  <2>1. /\ \A c \in Calls : call[c].pc = "idle" /\ landed[c] = 0
        /\ mempool = {}
    BY DEF FlowInit
  <2> QED
    BY <2>1 DEF NothingPassesInv, NothingPassesHere, Authorized
<1>2. NothingPassesInv => NothingPassesHere
  BY DEF NothingPassesInv
<1> QED
  BY <1>1, <1>2, NothingPassesStep, FlowTypesInvariance, PTL DEF FlowSpec

-----------------------------------------------------------------------------
(* Executed once.                                                          *)

\* Every proof in flight, and every request accepted for a call, is the one answer the
\* call has got; a request accepted since the last recovery is behind the nonce.
OneAnswer ==
  /\ \A t \in mempool : t.kind = "proved" =>
       call[t.call].pc \in Answered /\ t.by = call[t.call].approval
  /\ \A i \in DOMAIN accepted :
       /\ accepted[i].s.intent.wallet = me
       /\ accepted[i].era <= era[me]
       /\ accepted[i].era = era[me] => accepted[i].s.intent.nonce < nonce[me]
       /\ \A c \in Calls : accepted[i].s.intent.ix = CallIx[c] =>
            call[c].pc \in Answered /\ accepted[i].s = call[c].approval

\* The executions of an instruction, by their place in the log of accepted requests.
Executions(g, ix) == {i \in DOMAIN g : g[i].s.intent.ix = ix}

OncePerEra ==
  \A i, j \in DOMAIN accepted :
    i # j /\ accepted[i].s.intent.ix = accepted[j].s.intent.ix =>
      accepted[i].era # accepted[j].era

Counted ==
  \A c \in Calls \ Conditional : landed[c] = Cardinality(Executions(accepted, CallIx[c]))

OnceInv == OneAnswer /\ OncePerEra /\ Counted

\* One more request in the log.
LEMMA AcceptedAppended ==
  ASSUME FlowTypes, NEW a \in [s: Answers, era: Nat], accepted' = Append(accepted, a)
  PROVE  /\ Len(accepted) \in Nat /\ DOMAIN accepted = 1..Len(accepted)
         /\ DOMAIN accepted' = DOMAIN accepted \cup {Len(accepted) + 1}
         /\ Len(accepted) + 1 \notin DOMAIN accepted
         /\ accepted'[Len(accepted) + 1] = a
         /\ \A i \in DOMAIN accepted : accepted'[i] = accepted[i]
<1>1. accepted \in Seq([s: Answers, era: Nat])
  BY DEF FlowTypes, FlowTyped, ChainTyped
<1> QED
  BY <1>1

LEMMA ExecutionCounted ==
  ASSUME FlowTypes, NEW a \in [s: Answers, era: Nat], accepted' = Append(accepted, a), NEW ix
  PROVE  Cardinality(Executions(accepted', ix)) =
           IF a.s.intent.ix = ix THEN Cardinality(Executions(accepted, ix)) + 1
                                 ELSE Cardinality(Executions(accepted, ix))
<1> DEFINE E == Executions(accepted, ix)
           n == Len(accepted) + 1
<1>1. /\ Len(accepted) \in Nat /\ DOMAIN accepted = 1..Len(accepted)
      /\ DOMAIN accepted' = DOMAIN accepted \cup {n} /\ n \notin DOMAIN accepted
      /\ accepted'[n] = a /\ \A i \in DOMAIN accepted : accepted'[i] = accepted[i]
  BY AcceptedAppended
<1>2. E \subseteq 1..Len(accepted) /\ n \notin E
  BY <1>1 DEF Executions
<1>3. IsFiniteSet(E)
  <2>1. IsFiniteSet(1..Len(accepted))
    BY <1>1, FS_Interval
  <2> QED
    BY <1>2, <2>1, FS_Subset
<1>4. CASE a.s.intent.ix = ix
  <2>1. Executions(accepted', ix) = E \cup {n}
    BY <1>1, <1>4 DEF Executions
  <2>2. Cardinality(E \cup {n}) = Cardinality(E) + 1
    BY <1>2, <1>3, FS_AddElement
  <2> QED
    BY <1>4, <2>1, <2>2
<1>5. CASE a.s.intent.ix # ix
  <2>1. Executions(accepted', ix) = E
    BY <1>1, <1>5 DEF Executions
  <2> QED
    BY <1>5, <2>1
<1> QED
  BY <1>4, <1>5

\* What a log holds.
LEMMA ElementType ==
  ASSUME NEW S, NEW q \in Seq(S), NEW i \in DOMAIN q
  PROVE  q[i] \in S
OBVIOUS

LEMMA OneAnswerStep ==
  FlowTypes /\ OneAnswer /\ [FlowNext]_flowVars => OneAnswer'
<1> SUFFICES ASSUME FlowTypes, OneAnswer, [FlowNext]_flowVars PROVE OneAnswer'
  OBVIOUS
<1>0. /\ me \in Holders /\ nonce \in [Holders -> Nat] /\ era \in [Holders -> Nat]
      /\ accepted \in Seq([s: Answers, era: Nat])
      /\ mempool \subseteq RegisterTxs \cup PlainTxs \cup ProvedTxs
  BY FlowAssumption DEF FlowTypes, FlowTyped, ChainTyped, ClientTyped
<1>1. /\ \A t \in RegisterTxs : t.kind # "proved"
      /\ \A t \in PlainTxs : t.kind # "proved"
      /\ \A t \in ProvedTxs : t.call \in Calls
      /\ \A a \in [s: Answers, era: Nat] : a.s.intent.nonce \in Nat /\ a.era \in Nat
  BY DEF RegisterTxs, PlainTxs, ProvedTxs, Answers, Intents
<1>2. ASSUME NEW t \in mempool, t.kind = "proved"
      PROVE  t.call \in Calls /\ call[t.call].pc \in Answered /\ t.by = call[t.call].approval
  <2>1. t \in ProvedTxs
    BY <1>0, <1>1, <1>2
  <2> QED
    BY <1>1, <1>2, <2>1 DEF OneAnswer
<1>3. \A d \in Calls : call[d].pc \in Answered =>
         call'[d].pc \in Answered /\ call'[d].approval = call[d].approval
  BY StepCases, AnswersKept
<1>4. ASSUME NEW t \in mempool, t.kind = "proved"
      PROVE  call'[t.call].pc \in Answered /\ t.by = call'[t.call].approval
  BY <1>2, <1>3, <1>4
<1>5. ASSUME NEW i \in DOMAIN accepted, NEW c \in Calls,
             accepted[i].s.intent.ix = CallIx[c]
      PROVE  call'[c].pc \in Answered /\ accepted[i].s = call'[c].approval
  BY <1>3, <1>5 DEF OneAnswer
<1>6. ASSUME \A t \in mempool' : t \in mempool \/ t.kind # "proved"
      PROVE  \A t \in mempool' : t.kind = "proved" =>
               call'[t.call].pc \in Answered /\ t.by = call'[t.call].approval
  BY <1>4, <1>6
<1>7. ASSUME UNCHANGED <<nonce, era, accepted>>,
             \A t \in mempool' : t.kind = "proved" =>
               call'[t.call].pc \in Answered /\ t.by = call'[t.call].approval
      PROVE  OneAnswer'
  BY <1>5, <1>7 DEF OneAnswer
<1>8. ASSUME NEW c \in Calls, Moves(c) PROVE OneAnswer'
  <2>1. UNCHANGED <<nonce, era, accepted>>
    BY <1>8 DEF Moves, authorVars, chain
  <2>2. ASSUME NEW t \in mempool', t.kind = "proved"
        PROVE  call'[t.call].pc \in Answered /\ t.by = call'[t.call].approval
    <3>1. CASE t \in mempool
      BY <1>4, <2>2, <3>1
    <3>2. CASE t = ProvedTx(c) /\ call[c].pc = "approved"
      <4>1. t.call = c /\ t.by = call[c].approval
        BY <3>2 DEF ProvedTx
      <4> QED
        BY <1>3, <3>2, <4>1 DEF Answered
    <3> QED
      BY <1>1, <1>8, <2>2, <3>1, <3>2 DEF Moves
  <2> QED
    BY <1>7, <2>1, <2>2
<1>9. CASE /\ \E c : Settles(c)
           /\ mempool' \subseteq mempool \cup RegisterTxs
           /\ UNCHANGED <<chain, deployed, landed>>
  BY <1>1, <1>6, <1>7, <1>9 DEF chain
<1>10. ASSUME NEW e, Recover(me, e), mempool' \subseteq mempool
       PROVE  OneAnswer'
  <2>1. /\ era' = [era EXCEPT ![me] = @ + 1] /\ UNCHANGED accepted
    BY <1>10 DEF Recover
  <2>2. era'[me] = era[me] + 1 /\ era[me] \in Nat
    BY <1>0, <2>1
  <2>3. ASSUME NEW i \in DOMAIN accepted
        PROVE  accepted[i].era <= era'[me] /\ accepted[i].era # era'[me]
    <3>1. accepted[i] \in [s: Answers, era: Nat]
      BY <1>0, ElementType
    <3>2. accepted[i].era \in Nat
      BY <3>1
    <3>3. accepted[i].era <= era[me]
      BY DEF OneAnswer
    <3> QED
      BY <2>2, <3>2, <3>3
  <2> QED
    BY <1>5, <1>6, <1>10, <2>1, <2>3 DEF OneAnswer
<1>11. ASSUME NEW t \in mempool, Lands(t), UNCHANGED call PROVE OneAnswer'
  <2>0. mempool' \subseteq mempool
    BY <1>11, LandsFacts
  <2>1. CASE Registers(t) \/ Passes(t)
    <3>1. UNCHANGED <<nonce, era, accepted>>
      BY <2>1 DEF Registers, RegisterKey, Passes, chain
    <3> QED
      BY <1>6, <1>7, <2>0, <3>1
  <2>2. CASE Proves(t)
    <3> DEFINE a == [s |-> t.by, era |-> era[me]]
    <3>1. /\ t.call \in Calls /\ t.by \in Answers
          /\ t.by.intent.wallet = me /\ t.by.intent.ix = CallIx[t.call]
          /\ t.by.intent.nonce = nonce[me]
          /\ nonce' = [nonce EXCEPT ![me] = @ + 1]
          /\ accepted' = Append(accepted, a)
          /\ UNCHANGED <<era, keys>>
      BY <1>11, <2>2, AcceptedFacts DEF Proves
    <3>2. a \in [s: Answers, era: Nat] /\ a.s = t.by /\ a.era = era[me]
      BY <1>0, <3>1
    <3>3. nonce'[me] = nonce[me] + 1 /\ nonce[me] \in Nat
      BY <1>0, <3>1
    <3> HIDE DEF a
    <3>4. /\ DOMAIN accepted' = DOMAIN accepted \cup {Len(accepted) + 1}
          /\ accepted'[Len(accepted) + 1] = a
          /\ \A i \in DOMAIN accepted : accepted'[i] = accepted[i]
      BY <3>1, <3>2, AcceptedAppended
    <3>5. call[t.call].pc \in Answered /\ t.by = call[t.call].approval
      BY <1>2, <2>2 DEF Proves
    <3>6. ASSUME NEW i \in DOMAIN accepted
          PROVE  /\ accepted[i].s.intent.wallet = me
                 /\ accepted[i].era <= era[me]
                 /\ accepted[i].era = era[me] => accepted[i].s.intent.nonce < nonce'[me]
      <4>1. accepted[i].s.intent.nonce \in Nat
        <5>1. accepted[i] \in [s: Answers, era: Nat]
          BY <1>0, ElementType
        <5> QED
          BY <1>1, <5>1
      <4>2. /\ accepted[i].s.intent.wallet = me
            /\ accepted[i].era <= era[me]
            /\ accepted[i].era = era[me] => accepted[i].s.intent.nonce < nonce[me]
        BY DEF OneAnswer
      <4> QED
        BY <3>3, <4>1, <4>2
    <3>7. /\ a.s.intent.wallet = me /\ a.era <= era[me]
          /\ a.s.intent.nonce < nonce'[me]
          /\ \A c \in Calls : a.s.intent.ix = CallIx[c] =>
               call[c].pc \in Answered /\ a.s = call[c].approval
      BY <1>0, <3>1, <3>2, <3>3, <3>5, FlowAssumption
    <3>8. ASSUME NEW i \in DOMAIN accepted'
          PROVE  /\ accepted'[i].s.intent.wallet = me
                 /\ accepted'[i].era <= era'[me]
                 /\ accepted'[i].era = era'[me] => accepted'[i].s.intent.nonce < nonce'[me]
                 /\ \A c \in Calls : accepted'[i].s.intent.ix = CallIx[c] =>
                      call'[c].pc \in Answered /\ accepted'[i].s = call'[c].approval
      <4>1. CASE i \in DOMAIN accepted
        BY <1>5, <3>1, <3>4, <3>6, <4>1
      <4>2. CASE i = Len(accepted) + 1
        BY <1>11, <3>1, <3>4, <3>7, <4>2
      <4> QED
        BY <3>4, <4>1, <4>2
    <3> QED
      BY <1>6, <2>0, <3>8 DEF OneAnswer
  <2> QED
    BY <1>11, <2>1, <2>2, LandsFacts
<1>12. CASE /\ UNCHANGED <<call, deployed>>
            /\ mempool' \subseteq mempool
            /\ \/ \E t \in mempool : Lands(t)
               \/ \E e \in Entries : Recover(me, e) /\ UNCHANGED landed
               \/ UNCHANGED <<nonce, era, accepted, landed>>
  BY <1>6, <1>7, <1>10, <1>11, <1>12
<1> QED
  BY <1>8, <1>9, <1>12, StepCases

LEMMA OncePerEraStep ==
  FlowTypes /\ OneAnswer /\ OncePerEra /\ [FlowNext]_flowVars => OncePerEra'
<1> SUFFICES ASSUME FlowTypes, OneAnswer, OncePerEra, [FlowNext]_flowVars
             PROVE  OncePerEra'
  OBVIOUS
<1>0. accepted \in Seq([s: Answers, era: Nat]) /\ me \in Holders /\ era[me] \in Nat
  BY FlowAssumption DEF FlowTypes, FlowTyped, ChainTyped
<1>1. CASE UNCHANGED accepted
  BY <1>1 DEF OncePerEra
<1>2. ASSUME NEW t \in mempool, Lands(t), Proves(t) PROVE OncePerEra'
  <2> DEFINE a == [s |-> t.by, era |-> era[me]]
             n == Len(accepted) + 1
  <2>1. /\ t.call \in Calls /\ t.by \in Answers
        /\ t.by.intent.nonce = nonce[me] /\ t.by.intent.ix = CallIx[t.call]
        /\ accepted' = Append(accepted, a) /\ t.kind = "proved"
    BY <1>2, AcceptedFacts DEF Proves
  <2>2. a \in [s: Answers, era: Nat] /\ a.s = t.by /\ a.era = era[me]
    BY <1>0, <2>1
  <2>3. nonce[me] \in Nat
    BY <1>0 DEF FlowTypes, FlowTyped, ChainTyped
  <2> HIDE DEF a
  <2>4. /\ DOMAIN accepted' = DOMAIN accepted \cup {n}
        /\ accepted'[n] = a
        /\ \A i \in DOMAIN accepted : accepted'[i] = accepted[i]
    BY <2>1, <2>2, AcceptedAppended
  <2>5. ASSUME NEW i \in DOMAIN accepted, accepted[i].s.intent.ix = a.s.intent.ix
        PROVE  accepted[i].era # a.era
    <3>1. accepted[i].s = call[t.call].approval /\ t.by = call[t.call].approval
      BY <1>2, <2>1, <2>2, <2>5 DEF OneAnswer
    <3>2. accepted[i].s.intent.nonce = nonce[me]
      BY <2>1, <3>1
    <3>3. accepted[i].era = era[me] => accepted[i].s.intent.nonce < nonce[me]
      BY DEF OneAnswer
    <3>4. accepted[i].era # era[me]
      BY <2>3, <3>2, <3>3
    <3> QED
      BY <2>2, <3>4
  <2> HIDE DEF n
  <2>6. ASSUME NEW i \in DOMAIN accepted', NEW j \in DOMAIN accepted', i # j,
               accepted'[i].s.intent.ix = accepted'[j].s.intent.ix
        PROVE  accepted'[i].era # accepted'[j].era
    <3>1. CASE i \in DOMAIN accepted /\ j \in DOMAIN accepted
      BY <2>4, <2>6, <3>1 DEF OncePerEra
    <3>2. CASE i \in DOMAIN accepted /\ j = n
      BY <2>4, <2>5, <2>6, <3>2
    <3>3. CASE i = n /\ j \in DOMAIN accepted
      BY <2>4, <2>5, <2>6, <3>3
    <3> QED
      BY <2>4, <2>6, <3>1, <3>2, <3>3
  <2> QED
    BY <2>6 DEF OncePerEra
<1>3. ASSUME NEW c \in Calls, Moves(c) PROVE UNCHANGED accepted
  BY <1>3 DEF Moves, authorVars, chain
<1>4. CASE UNCHANGED chain
  BY <1>1, <1>4 DEF chain
<1>5. ASSUME NEW t \in mempool, Lands(t) PROVE OncePerEra'
  <2>1. CASE Registers(t) \/ Passes(t)
    <3>1. UNCHANGED accepted
      BY <2>1 DEF Registers, RegisterKey, Passes, chain
    <3> QED
      BY <1>1, <3>1
  <2> QED
    BY <1>2, <1>5, <2>1, LandsFacts
<1>6. ASSUME NEW e, Recover(me, e) PROVE UNCHANGED accepted
  BY <1>6 DEF Recover
<1> QED
  BY <1>1, <1>3, <1>4, <1>5, <1>6, StepCases

LEMMA CountedStep ==
  FlowTypes /\ Counted /\ [FlowNext]_flowVars => Counted'
<1> SUFFICES ASSUME FlowTypes, Counted, [FlowNext]_flowVars,
                    NEW c \in Calls, c \notin Conditional
             PROVE  landed'[c] = Cardinality(Executions(accepted', CallIx[c]))
  BY DEF Counted
<1>0. /\ landed \in [Calls -> Nat] /\ me \in Holders /\ era[me] \in Nat
      /\ landed[c] = Cardinality(Executions(accepted, CallIx[c]))
  BY FlowAssumption DEF FlowTypes, FlowTyped, ChainTyped, ClientTyped, Counted
<1>1. CASE UNCHANGED <<accepted, landed>>
  BY <1>0, <1>1
<1>2. ASSUME NEW t \in mempool, Lands(t), Proves(t)
      PROVE  landed'[c] = Cardinality(Executions(accepted', CallIx[c]))
  <2> DEFINE a == [s |-> t.by, era |-> era[me]]
  <2>1. /\ t.call \in Calls /\ t.by \in Answers /\ t.by.intent.ix = CallIx[t.call]
        /\ accepted' = Append(accepted, a)
        /\ landed' = [landed EXCEPT ![t.call] = @ + 1]
    BY <1>2, AcceptedFacts DEF Proves
  <2>2. a \in [s: Answers, era: Nat] /\ a.s = t.by
    BY <1>0, <2>1
  <2> HIDE DEF a
  <2>3. Cardinality(Executions(accepted', CallIx[c])) =
          IF a.s.intent.ix = CallIx[c] THEN Cardinality(Executions(accepted, CallIx[c])) + 1
                                       ELSE Cardinality(Executions(accepted, CallIx[c]))
    BY <2>1, <2>2, ExecutionCounted
  <2>4. a.s.intent.ix = CallIx[c] <=> t.call = c
    BY <2>1, <2>2, FlowAssumption
  <2>5. landed'[c] = IF t.call = c THEN landed[c] + 1 ELSE landed[c]
    BY <1>0, <2>1
  <2> QED
    BY <1>0, <2>3, <2>4, <2>5
<1>3. ASSUME NEW d \in Calls, Moves(d) PROVE UNCHANGED <<accepted, landed>>
  BY <1>3 DEF Moves, authorVars, chain
<1>4. CASE UNCHANGED <<chain, landed>>
  BY <1>1, <1>4 DEF chain
<1>5. ASSUME NEW t \in mempool, Lands(t)
      PROVE  landed'[c] = Cardinality(Executions(accepted', CallIx[c]))
  <2>1. CASE Registers(t)
    <3>1. UNCHANGED <<accepted, landed>>
      BY <2>1 DEF Registers, RegisterKey
    <3> QED
      BY <1>1, <3>1
  <2>2. CASE Passes(t)
    <3>1. accepted' = accepted /\ landed'[c] = landed[c]
      BY <1>0, <2>2 DEF Passes, chain
    <3> QED
      BY <1>0, <3>1
  <2> QED
    BY <1>2, <1>5, <2>1, <2>2, LandsFacts
<1>6. ASSUME NEW e, Recover(me, e), UNCHANGED landed PROVE UNCHANGED <<accepted, landed>>
  BY <1>6 DEF Recover
<1> QED
  BY <1>1, <1>3, <1>4, <1>5, <1>6, StepCases

\* One execution per call and recovery, each by its own accepted proof.
THEOREM CallsExecuteOnce == FlowSpec => []ExecutedOnce
<1>1. FlowInit => OnceInv
  <2> SUFFICES ASSUME FlowInit PROVE OnceInv
    OBVIOUS
  <2>1. mempool = {} /\ accepted = <<>> /\ \A c \in Calls : landed[c] = 0
    BY DEF FlowInit, AuthorInit
  <2>2. DOMAIN accepted = {}
    BY <2>1
  <2>3. \A ix : Executions(accepted, ix) = {}
    BY <2>2 DEF Executions
  <2>4. Cardinality({}) = 0
    BY FS_EmptySet
  <2> QED
    BY <2>1, <2>2, <2>3, <2>4 DEF OnceInv, OneAnswer, OncePerEra, Counted
<1>2. FlowTypes /\ OnceInv /\ [FlowNext]_flowVars => OnceInv'
  BY OneAnswerStep, OncePerEraStep, CountedStep DEF OnceInv
<1>3. OnceInv => ExecutedOnce
  <2> SUFFICES ASSUME OnceInv, NEW c \in Calls \ Conditional
               PROVE  /\ landed[c] = Cardinality(Executions(accepted, CallIx[c]))
                      /\ \A i, j \in Executions(accepted, CallIx[c]) :
                           i # j => accepted[i].era # accepted[j].era
    BY DEF ExecutedOnce, Executions
  <2> QED
    BY DEF OnceInv, Counted, OncePerEra, Executions
<1> QED
  BY <1>1, <1>2, <1>3, FlowTypesInvariance, PTL DEF FlowSpec

-----------------------------------------------------------------------------
(* Shown before it is authorized.                                          *)

\* An intent that a call carries after the review, that a device is asked to sign, or
\* that a device has signed, is one the user has confirmed.
CallsShown == \A c \in Calls : call[c].pc \in Authorized => call[c].intent \in shown
TasksShown == \A t \in tasks : t.kind = "approval" => t.on.intent \in shown
SignedShown == \A s \in signed : s.intent \in shown

ShownInv == CallsShown /\ TasksShown /\ SignedShown /\ AuthorizedWasShown

\* A modal that is settled authorizes nothing but what the user has just confirmed.
LEMMA ResolveShown ==
  ASSUME FlowTypes, CallsShown, TasksShown, shown \subseteq shown',
         NEW kind \in Kinds, NEW rest, rest \subseteq tasks,
         NEW next \in Pcs, NEW a \in {None} \cup Answers, Resolve(kind, rest, next, a),
         \/ next = "registered"
         \/ kind = "confirmation" /\ phase.intent \in shown'
         \/ kind = "approval"
  PROVE  CallsShown' /\ TasksShown'
<1>0. /\ UiTyped /\ ModalMatchesPromise /\ call \in [Calls -> CallRecords]
      /\ rest \subseteq Setups \cup Approvings
  BY DEF FlowTypes, FlowTyped, ClientTyped, UiTyped
<1>1. TasksShown'
  <2>1. \A t \in rest : t.kind = "approval" => t.on.intent \in shown'
    BY DEF TasksShown
  <2>2. tasks' \in {rest, {[t EXCEPT !.own = FALSE] : t \in rest}}
    BY DEF Resolve
  <2>3. \A t \in {[x EXCEPT !.own = FALSE] : x \in rest} :
          t.kind = "approval" => t.on.intent \in shown'
    BY <1>0, <2>1, TasksOnlyDisowned
  <2> QED
    BY <2>1, <2>2, <2>3 DEF TasksShown
<1>2. CASE UNCHANGED call
  BY <1>1, <1>2 DEF CallsShown
<1>3. CASE /\ pending.kind = kind
           /\ call'[pending.call].pc = next
           /\ call'[pending.call].intent = call[pending.call].intent
           /\ \A d \in Calls : d # pending.call => call'[d] = call[d]
  <2> DEFINE p == pending.call
  <2>1. /\ p \in Calls /\ call[p].pc = Waiting[kind]
        /\ kind # "registration" => phase.intent = call[p].intent
    BY <1>0, <1>3, PendingFacts
  <2>2. call'[p].pc \in Authorized => call'[p].intent \in shown'
    <3>1. CASE next = "registered"
      BY <1>3, <3>1 DEF Authorized
    <3>2. CASE kind = "confirmation" /\ phase.intent \in shown'
      BY <1>3, <2>1, <3>2
    <3>3. CASE kind = "approval"
      BY <1>3, <2>1, <3>3, PhaseNames DEF CallsShown, Authorized
    <3> QED
      BY <3>1, <3>2, <3>3
  <2>3. \A d \in Calls : d # p => (call'[d].pc \in Authorized => call'[d].intent \in shown')
    BY <1>3 DEF CallsShown
  <2> QED
    BY <1>1, <2>2, <2>3 DEF CallsShown
<1> QED
  BY <1>0, <1>2, <1>3, Resolved

LEMMA UserShows ==
  ASSUME FlowTypes, ShownInv, UserActs
  PROVE  ShownInv'
<1>0. /\ UiTyped /\ ModalMatchesPromise /\ tasks \subseteq Setups \cup Approvings
      /\ CallsShown /\ TasksShown /\ SignedShown /\ AuthorizedWasShown
  BY DEF FlowTypes, FlowTyped, UiTyped, ShownInv
<1>a. ASSUME UNCHANGED <<accepted, signed>>, shown \subseteq shown', CallsShown', TasksShown'
      PROVE  ShownInv'
  BY <1>0, <1>a DEF ShownInv, SignedShown, AuthorizedWasShown
<1>1. CASE StartSetup
  <2>1. /\ UNCHANGED <<authorVars, call, shown>>
        /\ tasks' = tasks \cup {[kind |-> "setup", step |-> "device", on |-> None, own |-> TRUE]}
    BY <1>1 DEF StartSetup, StartTask
  <2>2. CallsShown' /\ TasksShown'
    BY <1>0, <2>1 DEF CallsShown, TasksShown
  <2> QED
    BY <1>a, <2>1, <2>2 DEF authorVars, chain
<1>2. CASE Confirm
  <2>1. /\ UNCHANGED authorVars /\ shown' = shown \cup {phase.intent}
        /\ Resolve("confirmation", tasks, "confirmed", None)
    BY <1>2 DEF Confirm
  <2>2. "confirmation" \in Kinds /\ "confirmed" \in Pcs
    BY DEF Kinds, Pcs
  <2>3. CallsShown' /\ TasksShown'
    BY <1>0, <2>1, <2>2, ResolveShown
  <2> QED
    BY <1>a, <2>1, <2>3 DEF authorVars, chain
<1>3. CASE StartApproval
  <2> DEFINE on == [cred |-> cache.entry.cred, intent |-> phase.intent]
             t == [kind |-> "approval", step |-> "device", own |-> TRUE, on |-> on]
  <2>1. /\ UNCHANGED <<authorVars, call, shown>> /\ phase.name = Phase["approval"]
        /\ tasks' = tasks \cup {t}
    BY <1>3 DEF StartApproval, StartTask
  <2>2. t.on.intent = phase.intent
    OBVIOUS
  <2> HIDE DEF t
  <2>3. phase.intent \in shown
    <3>1. pending.kind = "approval"
      BY <1>0, <2>1, ModalFacts DEF Kinds
    <3>2. /\ pending.call \in Calls /\ call[pending.call].pc = "approving"
          /\ phase.intent = call[pending.call].intent
      BY <1>0, <3>1, PendingFacts, PhaseNames DEF Kinds
    <3> QED
      BY <1>0, <3>2 DEF CallsShown, Authorized
  <2>4. CallsShown' /\ TasksShown'
    BY <1>0, <2>1, <2>2, <2>3 DEF CallsShown, TasksShown
  <2> QED
    BY <1>a, <2>1, <2>4 DEF authorVars, chain
<1>4. CASE Cancel
  <2>1. UNCHANGED <<authorVars, shown>> /\ tasks' = Disowned
    BY <1>4 DEF Cancel
  <2>2. TasksShown'
    <3>1. \A x \in tasks : x.kind = "approval" => x.on.intent \in shown
      BY <1>0 DEF TasksShown
    <3>2. \A x \in Disowned : x.kind = "approval" => x.on.intent \in shown
      BY <1>0, <3>1, TasksOnlyDisowned DEF Disowned
    <3> QED
      BY <2>1, <3>2 DEF TasksShown
  <2>3. CallsShown'
    BY <1>0, <1>4, <2>1, CancelSettles DEF Settles, CallsShown, Authorized
  <2> QED
    BY <1>a, <2>1, <2>2, <2>3 DEF authorVars, chain
<1> QED
  BY <1>1, <1>2, <1>3, <1>4 DEF UserActs

LEMMA TasksShow ==
  ASSUME FlowTypes, ShownInv, NEW t \in tasks, TaskStep(t)
  PROVE  ShownInv'
<1>0. /\ tasks \subseteq Setups \cup Approvings
      /\ CallsShown /\ TasksShown /\ SignedShown /\ AuthorizedWasShown
  BY DEF FlowTypes, FlowTyped, UiTyped, ShownInv
<1>a. ASSUME UNCHANGED <<accepted, signed, shown>>, CallsShown', TasksShown'
      PROVE  ShownInv'
  BY <1>0, <1>a DEF ShownInv, SignedShown, AuthorizedWasShown
<1>1. ASSUME NEW e \in Entries, CreatePasskey(t, e) PROVE ShownInv'
  <2>1. /\ t.kind = "setup" /\ UNCHANGED <<authorVars, call, shown>>
        /\ \/ tasks' = tasks \ {t}
           \/ tasks' = (tasks \ {t}) \cup {[t EXCEPT !.step = "confirm", !.on = RegisterTx(e)]}
    BY <1>1 DEF CreatePasskey
  <2>2. [t EXCEPT !.step = "confirm", !.on = RegisterTx(e)].kind = "setup"
    <3>1. t \in Setups
      BY <1>0, <2>1 DEF Approvings
    <3> QED
      BY <2>1, <3>1 DEF Setups
  <2>3. CallsShown' /\ TasksShown'
    BY <1>0, <2>1, <2>2 DEF CallsShown, TasksShown
  <2> QED
    BY <1>a, <2>1, <2>3 DEF authorVars, chain
<1>2. CASE SetupConfirmed(t)
  <2>1. /\ Resolve("registration", tasks \ {t}, "registered", None)
        /\ UNCHANGED <<authorVars, shown>>
    BY <1>2 DEF SetupConfirmed
  <2>2. "registration" \in Kinds /\ "registered" \in Pcs
    BY DEF Kinds, Pcs
  <2>3. CallsShown' /\ TasksShown'
    BY <1>0, <2>1, <2>2, ResolveShown
  <2> QED
    BY <1>a, <2>1, <2>3 DEF authorVars, chain
<1>3. CASE DeviceSigns(t)
  <2>1. PICK s : /\ t.kind = "approval" /\ s \in Answers /\ s.intent = t.on.intent
                 /\ signed' = signed \cup {s}
                 /\ Resolve("approval", tasks \ {t}, "approved", s)
    <3>1. PICK e \in Entries :
            /\ t.kind = "approval"
            /\ signed' = signed \cup {[key |-> e.pubkey, intent |-> t.on.intent]}
            /\ Resolve("approval", tasks \ {t}, "approved",
                       [key |-> e.pubkey, intent |-> t.on.intent])
      BY <1>3 DEF DeviceSigns
    <3>2. t.on.intent \in Intents
      BY <1>0, <3>1 DEF Setups, Approvings
    <3>3. [key |-> e.pubkey, intent |-> t.on.intent] \in Answers
      BY <3>2 DEF Answers
    <3> QED
      BY <3>1, <3>3
  <2>2. UNCHANGED <<accepted, shown>>
    BY <1>3 DEF DeviceSigns, chain
  <2>3. "approval" \in Kinds /\ "approved" \in Pcs
    BY DEF Kinds, Pcs
  <2>4. CallsShown' /\ TasksShown'
    BY <1>0, <2>1, <2>2, <2>3, ResolveShown
  <2>5. s.intent \in shown
    BY <1>0, <2>1 DEF TasksShown
  <2>6. SignedShown'
    BY <1>0, <2>1, <2>2, <2>5 DEF SignedShown
  <2> QED
    BY <1>0, <2>2, <2>4, <2>6 DEF ShownInv, AuthorizedWasShown
<1>4. CASE TaskFails(t)
  <2>1. tasks' = tasks \ {t} /\ UNCHANGED <<authorVars, call, shown>>
    BY <1>4 DEF TaskFails
  <2>2. CallsShown' /\ TasksShown'
    BY <1>0, <2>1 DEF CallsShown, TasksShown
  <2> QED
    BY <1>a, <2>1, <2>2 DEF authorVars, chain
<1> QED
  BY <1>1, <1>2, <1>3, <1>4 DEF TaskStep

LEMMA ShownStep == FlowTypes /\ ShownInv /\ [FlowNext]_flowVars => ShownInv'
<1> SUFFICES ASSUME FlowTypes, ShownInv, [FlowNext]_flowVars PROVE ShownInv'
  OBVIOUS
<1>0. /\ tasks \subseteq Setups \cup Approvings
      /\ CallsShown /\ TasksShown /\ SignedShown /\ AuthorizedWasShown
  BY DEF FlowTypes, FlowTyped, UiTyped, ShownInv
<1>1. ASSUME NEW c \in Calls, Start(c) \/ CallStep(c) PROVE ShownInv'
  <2>1. Moves(c)
    BY <1>1, CallMoves
  <2>2. TasksShown'
    <3>1. \A x \in tasks : x.kind = "approval" => x.on.intent \in shown
      BY <1>0 DEF TasksShown
    <3>2. \A x \in Disowned : x.kind = "approval" => x.on.intent \in shown
      BY <1>0, <3>1, TasksOnlyDisowned DEF Disowned
    <3> QED
      BY <2>1, <3>1, <3>2 DEF TasksShown, Moves
  <2>3. CallsShown'
    BY <1>0, <2>1 DEF CallsShown, Moves
  <2>4. UNCHANGED <<signed, accepted, shown>>
    BY <2>1 DEF Moves, authorVars, chain
  <2> QED
    BY <1>0, <2>2, <2>3, <2>4 DEF ShownInv, SignedShown, AuthorizedWasShown
<1>a. ASSUME UNCHANGED <<call, tasks, signed, shown, accepted>> PROVE ShownInv'
  BY <1>a DEF ShownInv, CallsShown, TasksShown, SignedShown, AuthorizedWasShown
<1>2. ASSUME NEW t \in mempool, Lands(t) PROVE ShownInv'
  <2>1. UNCHANGED <<call, tasks, signed, shown>>
    BY <1>2, LandsFacts DEF ui
  <2>2. CASE Registers(t) \/ Passes(t)
    <3>1. UNCHANGED accepted
      BY <2>2 DEF Registers, RegisterKey, Passes, chain
    <3> QED
      BY <1>a, <2>1, <3>1
  <2>3. CASE Proves(t)
    <3> DEFINE a == [s |-> t.by, era |-> era[me]]
    <3>1. /\ t.by \in signed /\ t.by \in Answers /\ accepted' = Append(accepted, a)
      BY <1>2, <2>3, AcceptedFacts DEF Proves
    <3>2. a \in [s: Answers, era: Nat] /\ a.s = t.by
      BY <3>1, FlowAssumption DEF FlowTypes, FlowTyped, ChainTyped
    <3> HIDE DEF a
    <3>3. /\ DOMAIN accepted' = DOMAIN accepted \cup {Len(accepted) + 1}
          /\ accepted'[Len(accepted) + 1] = a
          /\ \A i \in DOMAIN accepted : accepted'[i] = accepted[i]
      BY <3>1, <3>2, AcceptedAppended
    <3>4. a.s.intent \in shown
      BY <1>0, <3>1, <3>2 DEF SignedShown
    <3>5. AuthorizedWasShown'
      BY <1>0, <2>1, <3>3, <3>4 DEF AuthorizedWasShown
    <3>6. CallsShown' /\ TasksShown' /\ SignedShown'
      BY <1>0, <2>1 DEF CallsShown, TasksShown, SignedShown
    <3> QED
      BY <3>5, <3>6 DEF ShownInv
  <2> QED
    BY <1>2, <2>2, <2>3, LandsFacts
<1>3. ASSUME NEW t \in mempool, Dropped(t) PROVE ShownInv'
  BY <1>3, <1>a DEF Dropped, chainOnly, authorVars, chain, ui
<1>4. CASE Other
  BY <1>4, <1>a DEF Other, RegisterKey, Recover, chainOnly, ui
<1>5. CASE Subscription \/ Tick \/ UNCHANGED flowVars
  BY <1>5, <1>a DEF Subscription, Tick, flowVars, chainOnly, authorVars, chain, ui
<1> QED
  BY <1>1, <1>2, <1>3, <1>4, <1>5, UserShows, TasksShow DEF FlowNext

\* Nothing is authorized on chain that the user did not see in the review step.
THEOREM OnlyShownIsAuthorized == FlowSpec => []AuthorizedWasShown
<1>1. FlowInit => ShownInv
  <2> SUFFICES ASSUME FlowInit PROVE ShownInv
    OBVIOUS
  <2>1. /\ \A c \in Calls : call[c].pc = "idle"
        /\ tasks = {} /\ signed = {} /\ accepted = <<>>
    BY DEF FlowInit, AuthorInit
  <2> QED
    BY <2>1 DEF ShownInv, CallsShown, TasksShown, SignedShown, AuthorizedWasShown, Authorized
<1>2. ShownInv => AuthorizedWasShown
  BY DEF ShownInv
<1> QED
  BY <1>1, <1>2, ShownStep, FlowTypesInvariance, PTL DEF FlowSpec

=============================================================================
