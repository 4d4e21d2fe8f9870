---------------------------- MODULE PasskeyFlow ----------------------------
(***************************************************************************)
(* The SDK's React flow: authorizeAndSend (useTrana), the provider's       *)
(* single pending promise, the modal and its device ceremonies, detection  *)
(* by simulation, and submission with a retry.                             *)
(*                                                                         *)
(* Every await is a step of its own.  Several calls may run at once; they  *)
(* share the provider.  The chain is PasskeyAuthorization, with other      *)
(* clients of the same wallet acting on it at any time.                    *)
(*                                                                         *)
(* The React package is written for a guard whose registry holds one key   *)
(* and which logs TRANA_MISSING_PROOF without a registry too ("sdk").      *)
(* The guard of this repository ("repo") lays its registry out             *)
(* differently and does not know the modal's registration instruction.     *)
(* Init chooses which of the two is deployed.                              *)
(***************************************************************************)
EXTENDS PasskeyAuthorization, FiniteSets

Contract == INSTANCE Interface

CONSTANTS
  Calls,        \* calls of authorizeAndSend
  me,           \* the connected wallet
  CallIx,       \* the instruction each call protects, one of its own, so that
                \* executions can be told apart
  Conditional,  \* calls whose policy may ask for a proof or not
  Deployments,  \* the guards that may be deployed
  Ttl,          \* expiryTtlSec
  \* bounds of the explored instance
  MaxNow, MaxNonce, MaxEra, MaxPrompts

ASSUME FlowAssumption ==
  /\ me \in Holders
  /\ CallIx \in [Calls -> {CallIx[c] : c \in Calls}]
  /\ \A c, d \in Calls : CallIx[c] = CallIx[d] => c = d
  /\ Conditional \subseteq Calls
  /\ Deployments \subseteq {"sdk", "repo"}
  /\ Ttl \in Nat
  /\ MaxNonce \in Nat

VARIABLES
  deployed,     \* which guard is on chain
  call,         \* per call: [pc, reason, registry, intent, approval, attempt]
  phase,        \* TranaState: which modal is shown, for which intent
  pending,      \* pendingRef: whose promise the modal will settle
  cache,        \* the provider's subscribed registry
  tasks,        \* ceremonies a modal has started and awaits
  mempool,      \* transactions submitted and neither landed nor dropped
  prompts,      \* ceremonies started so far
  \* history
  shown,        \* intents the user has confirmed
  overwritten,  \* calls whose pending promise was replaced
  landed        \* how often each call's instruction was executed

ui       == <<phase, pending, tasks, overwritten>>
flowVars == <<authorVars, deployed, call, ui, cache, mempool, prompts, shown, landed>>

MAX_BLOCKHASH_RETRIES == 2

None == [kind |-> "none"]
Idle == [name |-> "idle", intent |-> None]

Settled == {"sent", "failed"}

\* pendingRef and the visible phase are set together.
Phase == [registration |-> "needs-registration", confirmation |-> "needs-confirmation",
          approval |-> "needs-approval"]

FlowInit ==
  /\ AuthorInit
  /\ deployed \in Deployments
  /\ call = [c \in Calls |-> [pc |-> "idle", reason |-> "", registry |-> None,
                              intent |-> None, approval |-> None, attempt |-> 0]]
  /\ phase = Idle
  /\ pending = None
  /\ cache = None
  /\ tasks = {}
  /\ mempool = {}
  /\ prompts = 0
  /\ shown = {}
  /\ overwritten = {}
  /\ landed = [c \in Calls |-> 0]

-----------------------------------------------------------------------------
(* The registry as the SDK reads it.                                       *)

\* parseRegistryAccount reads the one-key layout; on this repository's account its
\* offsets run past the end of the data and the DataView throws.
ParseLoose(e) == [kind |-> "registry", entry |-> e, nonce |-> nonce[me]]
ParseRegistry(e) ==
  IF deployed = "sdk" THEN [kind |-> "registry", entry |-> e, nonce |-> nonce[me]]
                      ELSE [kind |-> "throws"]

FetchRegistry ==
  IF keys[me] = {} THEN None ELSE ParseRegistry(CHOOSE e \in keys[me] : TRUE)

-----------------------------------------------------------------------------
(* The provider.                                                           *)

\* A modal that is unmounted leaves its ceremony running.
Disowned == {[t EXCEPT !.own = FALSE] : t \in tasks}

\* _triggerX: dispatch, then replace whatever promise was pending.
Trigger(c, kind, intent) ==
  /\ phase'   = [name |-> Phase[kind], intent |-> intent]
  /\ pending' = [kind |-> kind, call |-> c]
  /\ overwritten' = overwritten \cup (IF pending = None THEN {} ELSE {pending.call})
  /\ tasks' = IF phase.name = Phase[kind] THEN tasks ELSE Disowned

\* _resolveX settles the pending promise if it is of its kind, whoever waits on it.
Resolve(kind, rest, next, approval) ==
  IF pending.kind = kind
  THEN /\ call' = [call EXCEPT ![pending.call].pc = next,
                               ![pending.call].approval = approval]
       /\ pending' = None
       /\ phase'   = Idle
       /\ tasks'   = {[t EXCEPT !.own = FALSE] : t \in rest}
       /\ UNCHANGED overwritten
  ELSE tasks' = rest /\ UNCHANGED <<call, pending, phase, overwritten>>

\* _rejectPending
RejectedSilently == UNCHANGED call
Rejected == call' = [call EXCEPT ![pending.call].pc = "failed"]

PromiseKept == UNCHANGED pending
PromiseDropped == pending' = None

Cancel ==
  /\ phase # Idle
  /\ Rejected
  /\ PromiseDropped
  /\ phase' = Idle
  /\ tasks' = Disowned
  /\ UNCHANGED <<authorVars, deployed, overwritten, cache, mempool, prompts, shown, landed>>

\* The initial fetch and the account subscription.
Subscription ==
  /\ cache' = IF FetchRegistry.kind = "registry" THEN FetchRegistry ELSE None
  /\ cache' # cache
  /\ UNCHANGED <<authorVars, deployed, call, ui, mempool, prompts, shown, landed>>

-----------------------------------------------------------------------------
(* authorizeAndSend.                                                       *)

Goes(c, from, to) ==
  call[c].pc = from /\ call' = [call EXCEPT ![c].pc = to]

clientOnly == <<authorVars, deployed, cache, mempool, prompts, shown, landed>>

Start(c) ==
  /\ Goes(c, "idle", "detect")
  /\ UNCHANGED <<clientOnly, ui>>

\* detectEnforcement: a simulation that fails, or logs no TRANA_MISSING_PROOF, means
\* that no proof is needed.  This repository's guard fails before it writes that log
\* when the wallet has no registry.
MarkerLogged(c) == deployed = "sdk" \/ keys[me] # {}

DetectEnforcement(c) ==
  /\ \/ Goes(c, "detect", "direct")
     \/ MarkerLogged(c) /\ Goes(c, "detect", "lookup")
  /\ UNCHANGED <<clientOnly, ui>>

DetectRegistry(c) ==
  /\ call[c].pc = "lookup"
  /\ call' = [call EXCEPT ![c].pc = "fetch",
                          ![c].reason = IF keys[me] = {} THEN "no-registry"
                                                         ELSE "missing-proof"]
  /\ UNCHANGED <<clientOnly, ui>>

BuildIntent(c, r) ==
  [wallet |-> me, ix |-> CallIx[c], nonce |-> r.nonce, expiry |-> now + Ttl]

\* Build the intent from the registry just read and show it.
Review(c, r) ==
  /\ call' = [call EXCEPT ![c].pc = "confirming", ![c].registry = r,
                          ![c].intent = BuildIntent(c, r)]
  /\ Trigger(c, "confirmation", BuildIntent(c, r))

\* Lazy registration when there is no registry, or there was none.
EnsureRegistry(c) ==
  /\ call[c].pc = "fetch"
  /\ LET r == FetchRegistry
     IN \/ r.kind = "throws" /\ Goes(c, "fetch", "failed") /\ UNCHANGED ui
        \/ /\ r = None \/ (r.kind = "registry" /\ call[c].reason = "no-registry")
           /\ Goes(c, "fetch", "registering")
           /\ Trigger(c, "registration", None)
        \/ /\ r.kind = "registry" /\ call[c].reason = "missing-proof"
           /\ Review(c, r)
  /\ UNCHANGED clientOnly

RefetchRegistry(c) ==
  /\ call[c].pc = "registered"
  /\ LET r == FetchRegistry
     IN \/ r.kind = "registry" /\ Review(c, r)
        \/ r.kind # "registry" /\ Goes(c, "registered", "failed") /\ UNCHANGED ui
  /\ UNCHANGED clientOnly

\* Mutant of AskApproval: the intent is built anew, with a later expiry.
AskAfresh(c) ==
  /\ call[c].pc = "confirmed"
  /\ LET intent == BuildIntent(c, call[c].registry)
     IN /\ call' = [call EXCEPT ![c].pc = "approving", ![c].intent = intent]
        /\ Trigger(c, "approval", intent)
  /\ UNCHANGED clientOnly

\* The intent that was shown is the intent that is signed.
AskApproval(c) ==
  /\ Goes(c, "confirmed", "approving")
  /\ Trigger(c, "approval", call[c].intent)
  /\ UNCHANGED clientOnly

\* The proof pair: the registry's key of before the modals, the device's answer, the
\* intent's expiry.
ProvedTx(c) == [kind |-> "proved", call |-> c, key |-> call[c].registry.entry.pubkey,
                by |-> call[c].approval, expiry |-> call[c].intent.expiry,
                attempt |-> call[c].attempt]
PlainTx(c)  == [kind |-> "plain", call |-> c]

Submitted(t, sent) == mempool' = IF sent THEN mempool \cup {t} ELSE mempool

RetriesOnceMore(c) == call[c].attempt < MAX_BLOCKHASH_RETRIES
MayRetry(c) == call[c].attempt < MAX_BLOCKHASH_RETRIES - 1

\* A fresh blockhash for every attempt; only an expired blockhash is retried.  An
\* error does not say that the transaction was not broadcast.
Send(c) ==
  /\ call[c].pc = "approved"
  /\ \E sent \in BOOLEAN :
       /\ Submitted(ProvedTx(c), sent)
       /\ \/ sent /\ Goes(c, "approved", "sent")
          \/ Goes(c, "approved", "failed")
          \/ /\ MayRetry(c)
             /\ call' = [call EXCEPT ![c].attempt = @ + 1]
  /\ UNCHANGED <<authorVars, deployed, ui, cache, prompts, shown, landed>>

SendDirect(c) ==
  /\ call[c].pc = "direct"
  /\ \/ Submitted(PlainTx(c), TRUE) /\ Goes(c, "direct", "sent")
     \/ \E sent \in BOOLEAN : Submitted(PlainTx(c), sent) /\ Goes(c, "direct", "failed")
  /\ UNCHANGED <<authorVars, deployed, ui, cache, prompts, shown, landed>>

-----------------------------------------------------------------------------
(* The modal and the devices.                                              *)

Busy == \E t \in tasks : t.own

StartTask(t) ==
  /\ ~Busy
  /\ prompts < MaxPrompts
  /\ tasks' = tasks \cup {t}
  /\ prompts' = prompts + 1
  /\ UNCHANGED <<authorVars, deployed, call, phase, pending, overwritten, cache,
                 mempool, shown, landed>>

\* RegistrationModal: handleSetup.
StartSetup ==
  /\ phase.name = Phase["registration"]
  /\ StartTask([kind |-> "setup", step |-> "device", on |-> None, own |-> TRUE])

RegisterTx(e) == [kind |-> "register", entry |-> e]

\* The older guard has the modal's instruction; this repository's has the IDL's.
RegistrationKnown ==
  deployed = "sdk" \/ Contract!Dispatched(Contract!ModalRegisterIx)

\* The device creates a credential and its registration is sent, unless the preflight
\* refuses the instruction.
CreatePasskey(t, e) ==
  /\ t.kind = "setup" /\ t.step = "device"
  /\ IF RegistrationKnown
     THEN /\ tasks' = (tasks \ {t}) \cup {[t EXCEPT !.step = "confirm", !.on = RegisterTx(e)]}
          /\ mempool' = mempool \cup {RegisterTx(e)}
     ELSE tasks' = tasks \ {t} /\ UNCHANGED mempool
  /\ UNCHANGED <<authorVars, deployed, call, phase, pending, overwritten, cache,
                 prompts, shown, landed>>

\* confirmTransaction returned; its err is not looked at.
SetupConfirmed(t) ==
  /\ t.kind = "setup" /\ t.step = "confirm"
  /\ t.on \notin mempool
  /\ Resolve("registration", tasks \ {t}, "registered", None)
  /\ UNCHANGED <<authorVars, deployed, cache, mempool, prompts, shown, landed>>

\* ConfirmationModal
Confirm ==
  /\ phase.name = Phase["confirmation"]
  /\ shown' = shown \cup {phase.intent}
  /\ Resolve("confirmation", tasks, "confirmed", None)
  /\ UNCHANGED <<authorVars, deployed, cache, mempool, prompts, landed>>

\* ApprovalModal: handleApprove asks for the credential of the provider's registry.
StartApproval ==
  /\ phase.name = Phase["approval"]
  /\ cache # None
  /\ now < phase.intent.expiry
  /\ StartTask([kind |-> "approval", step |-> "device", own |-> TRUE,
                on |-> [cred |-> cache.entry.cred, intent |-> phase.intent]])

\* The device that holds the credential signs; the answer settles whatever approval
\* is pending by then.
DeviceSigns(t) ==
  /\ t.kind = "approval"
  /\ \E e \in Entries :
       LET s == [key |-> e.pubkey, intent |-> t.on.intent]
       IN /\ e.cred = t.on.cred
          /\ signed' = signed \cup {s}
          /\ Resolve("approval", tasks \ {t}, "approved", s)
  /\ UNCHANGED <<chain, now, saved, deployed, cache, mempool, prompts, shown, landed>>

\* Refused, timed out, or a request failed: the modal shows the error.
TaskFails(t) ==
  /\ tasks' = tasks \ {t}
  /\ UNCHANGED <<authorVars, deployed, call, phase, pending, overwritten, cache,
                 mempool, prompts, shown, landed>>

-----------------------------------------------------------------------------
(* The cluster and the wallet's other clients.                             *)

chainOnly == <<deployed, call, ui, cache, prompts, shown>>

\* The request the guard rebuilds while it executes a call.
Expected(t) == [wallet |-> me, ix |-> CallIx[t.call], nonce |-> nonce[me],
                expiry |-> t.expiry]

\* Whether the guard finds what it needs in the proof the package builds, here for an
\* instruction with accounts of every kind.
ProofReadable ==
  Contract!Verifiable(Contract!ReactProof(Contract!WithdrawIdl), Contract!WithdrawIdl)

Lands(t) ==
  /\ mempool' = mempool \ {t}
  /\ \/ /\ t.kind = "register"
        /\ RegisterKey(me, t.entry)
        /\ Publish
        /\ UNCHANGED <<signed, now, landed>>
     \/ /\ t.kind = "proved"
        /\ ProofReadable
        /\ t.key = t.by.key                        \* the precompile
        /\ t.by.intent = Expected(t)               \* the challenge
        /\ nonce[me] < MaxNonce
        /\ Accept(t.by)
        /\ Publish
        /\ landed' = [landed EXCEPT ![t.call] = @ + 1]
        /\ UNCHANGED <<signed, now>>
     \/ /\ t.kind \in {"plain", "proved"}          \* the policy does not fire
        /\ t.call \in Conditional
        /\ t.kind = "proved" => t.key = t.by.key
        /\ landed' = [landed EXCEPT ![t.call] = @ + 1]
        /\ UNCHANGED authorVars
  /\ UNCHANGED chainOnly

\* Failed on chain, or never included.
Dropped(t) ==
  /\ mempool' = mempool \ {t}
  /\ UNCHANGED <<chainOnly, authorVars, landed>>

\* The wallet registers or recovers with another client.
Other ==
  /\ \E e \in Entries : \/ RegisterKey(me, e)
                        \/ era[me] < MaxEra /\ keys[me] # {} /\ Recover(me, e)
  /\ Publish
  /\ UNCHANGED <<signed, now>>
  /\ UNCHANGED <<chainOnly, mempool, landed>>

Tick ==
  /\ now < MaxNow
  /\ now' = now + 1
  /\ UNCHANGED <<chainOnly, chain, signed, saved, mempool, landed>>

-----------------------------------------------------------------------------

CallStep(c) ==
  \/ DetectEnforcement(c) \/ DetectRegistry(c) \/ EnsureRegistry(c)
  \/ RefetchRegistry(c) \/ AskApproval(c) \/ Send(c) \/ SendDirect(c)

UserActs == StartSetup \/ Confirm \/ StartApproval \/ Cancel

TaskStep(t) ==
  \/ \E e \in Entries : CreatePasskey(t, e)
  \/ SetupConfirmed(t) \/ DeviceSigns(t) \/ TaskFails(t)

FlowNext ==
  \/ \E c \in Calls : Start(c) \/ CallStep(c)
  \/ UserActs
  \/ \E t \in tasks : TaskStep(t)
  \/ Subscription
  \/ \E t \in mempool : Lands(t) \/ Dropped(t)
  \/ Other
  \/ Tick

\* JavaScript runs what is ready; a person does something about an open modal, and
\* tries a ceremony a bounded number of times (MaxPrompts).  Nothing is assumed of
\* devices, wallets' answers, the cluster or other clients.
Fairness == WF_flowVars(UserActs) /\ \A c \in Calls : WF_flowVars(CallStep(c))

FlowSpec == FlowInit /\ [][FlowNext]_flowVars /\ Fairness

-----------------------------------------------------------------------------
(* Properties.                                                             *)

Waiting == [registration |-> "registering", confirmation |-> "confirming",
            approval |-> "approving"]

FlowTypeOK ==
  /\ DOMAIN call = Calls
  /\ \A c \in Calls : /\ call[c].attempt \in 0..MAX_BLOCKHASH_RETRIES - 1
                      /\ call[c].registry.kind \in {"none", "registry"}
  /\ phase.name \in {"idle"} \cup {Phase[k] : k \in DOMAIN Phase}
  /\ pending = None \/ pending \in [kind: DOMAIN Phase, call: Calls]
  /\ cache.kind \in {"none", "registry"}
  /\ nonce[me] \in 0..MaxNonce

\* What the modal shows is what the pending promise waits for: the phase, the kind of
\* the promise, the state of the call that will be resumed and the intent all agree,
\* so an answer never resumes a call for something the user did not see.
ModalMatchesPromise ==
  \/ phase = Idle /\ pending = None
  \/ /\ pending # None
     /\ phase.name = Phase[pending.kind]
     /\ call[pending.call].pc = Waiting[pending.kind]
     /\ pending.kind # "registration" => phase.intent = call[pending.call].intent

\* Retries, late answers and other clients do not execute a protected instruction
\* twice for one call, nor without its proof.  A recovery in between restarts the
\* nonce, and then a retry that is still in flight can be accepted again.
ExecutedOnce ==
  \A c \in Calls \ Conditional :
    LET Mine == {i \in DOMAIN accepted : accepted[i].s.intent.ix = CallIx[c]}
    IN /\ landed[c] = Cardinality(Mine)
       /\ \A i, j \in Mine : i # j => accepted[i].era # accepted[j].era

\* Nothing is authorized on chain that the user did not see in the review step.
AuthorizedWasShown ==
  \A i \in DOMAIN accepted : accepted[i].s.intent \in shown

\* Against the guard of this repository the React flow gets no protected instruction
\* through: it cannot read a registry and cannot create one.
NothingPassesHere ==
  deployed = "repo" => \A c \in Calls \ Conditional : landed[c] = 0

\* A call that was started returns a signature or throws, unless a second call
\* replaced the promise it was waiting on: then it waits for ever.
CallsSettle ==
  \A c \in Calls :
    call[c].pc # "idle" ~> call[c].pc \in Settled \/ c \in overwritten

=============================================================================
