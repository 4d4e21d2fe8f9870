----------------------------- MODULE CounterApp -----------------------------
(***************************************************************************)
(* The counter example as it is run: run.mjs, which starts a fresh ledger  *)
(* each time, the browser page with its wallets and the handles it keeps   *)
(* in localStorage, and the programs.  The ledger does not survive a new   *)
(* start, localStorage does, and the page's state survives neither a       *)
(* reload nor its author's patience.                                       *)
(*                                                                         *)
(* Requests to the validator are steps of their own: a reload of the page  *)
(* data, which switching wallets starts, may still wait for answers when   *)
(* the next one starts.                                                    *)
(***************************************************************************)
EXTENDS Naturals, FiniteSets, Sequences

CONSTANTS
  MaxWallets,    \* bound: keypairs the page generates
  MaxCreds,      \* bound: credentials the device creates
  MaxReloads,    \* bound: reloads of the page data that wait at once
  MaxEvents,     \* bound: starts of run.mjs, loads of the page, requests that fail
                 \* though the validator is up, changes of a registry elsewhere
  MaxCount       \* bound: increments of a counter

ASSUME CounterAssumption ==
  /\ MaxWallets \in Nat \ {0}
  /\ {MaxCreds, MaxReloads, MaxEvents, MaxCount} \subseteq Nat

VARIABLES
  stack,     \* how far run.mjs has come
  ledger,    \* config, and per wallet the registry and the counter
  net,       \* the transaction submitted and neither landed nor expired
  store,     \* localStorage: wallets, active, and the handle of each wallet
  ui,        \* the page's React state
  reloads,   \* calls of reload that have not returned
  job,       \* the handler under way
  maker,     \* the wallet each credential was created for
  events,    \* the bound's counter
  calm,      \* no request failed, no reload was overtaken, no page was dropped
  overtaken  \* a wallet was left while its reload was under way

counterVars == <<stack, ledger, net, store, ui, reloads, job, maker, events, calm, overtaken>>

Wallets == 1..MaxWallets
Creds   == 1..MaxCreds
None    == 0              \* no handle, no count
Foreign == MaxCreds + 1   \* a credential of another device

NoRegistry == [exists |-> FALSE, keys |-> {}, nonce |-> 0]
Genesis == [config |-> FALSE, registry |-> [w \in Wallets |-> NoRegistry],
            counter |-> [w \in Wallets |-> [exists |-> FALSE, count |-> 0]]]

NoJob == [kind |-> "none", wallet |-> 0, handle |-> None, pc |-> "done",
          nonce |-> 0, keys |-> {}, outcome |-> "none"]
Closed == [open |-> FALSE, active |-> 1, shown |-> "loading", of |-> 1,
           handle |-> None, busy |-> FALSE]
NoTx == [kind |-> "none", wallet |-> 0, handle |-> None, nonce |-> 0, mine |-> FALSE]

Counts == events < MaxEvents /\ events' = events + 1

-----------------------------------------------------------------------------
(* run.mjs: build, validator, fund and deploy, config, frontend.           *)

RpcUp == stack # "down"

\* solana-test-validator --reset, then anchor deploy: what was on the ledger is gone.
StartsValidator ==
  /\ stack = "down"
  /\ stack' = "deployed" /\ ledger' = Genesis /\ net' = NoTx
  /\ job' = IF net.mine THEN [job EXCEPT !.outcome = "bad"] ELSE job
  /\ Counts
  /\ UNCHANGED <<store, ui, reloads, maker, calm, overtaken>>

\* initTranaConfig: left as it is when the account exists.
InitsTranaConfig ==
  /\ stack = "deployed" /\ stack' = "ready"
  /\ ledger' = [ledger EXCEPT !.config = TRUE]
  /\ UNCHANGED <<net, store, ui, reloads, job, maker, events, calm, overtaken>>

\* cleanup on a signal, or die: the page stays open in the browser.
Stops ==
  /\ stack # "down" /\ stack' = "down"
  /\ UNCHANGED <<ledger, net, store, ui, reloads, job, maker, events, calm, overtaken>>

Launcher == StartsValidator \/ InitsTranaConfig \/ Stops

-----------------------------------------------------------------------------
(* The page's data.                                                        *)

Reload(w, by, step) == [wallet |-> w, by |-> by, step |-> step,
                        counter |-> "null", registry |-> "null"]

\* A request fails because the validator is gone, or just so.
Fails ==
  /\ IF RpcUp THEN Counts ELSE UNCHANGED events
  /\ calm' = FALSE

Waiting(w) == {i \in DOMAIN reloads : reloads[i].by = "effect" /\ reloads[i].wallet # w}
Without(i) == SubSeq(reloads, 1, i - 1) \o SubSeq(reloads, i + 1, Len(reloads))

\* Mutant of EntersWallet: the old wallet's counter stays on the screen.
EntersStill(w, page) ==
  /\ ui' = [page EXCEPT !.active = w]
  /\ reloads' = Append(reloads, Reload(w, "effect", "fund"))

\* The effect on activeIdx: "loading" hides the buttons until a reload shows.
EntersWallet(w, page) ==
  /\ ui' = [page EXCEPT !.active = w, !.shown = "loading"]
  /\ reloads' = Append(reloads, Reload(w, "effect", "fund"))

\* The page is loaded: its state is new, what it was doing is dropped.
Opens ==
  /\ stack = "ready"
  /\ ui' = [Closed EXCEPT !.open = TRUE, !.active = store.active]
  /\ reloads' = <<Reload(store.active, "effect", "fund")>>
  /\ job' = NoJob /\ net' = [net EXCEPT !.mine = FALSE]
  /\ calm' = (calm /\ ~ui.busy)
  /\ Counts
  /\ UNCHANGED <<stack, ledger, store, maker, overtaken>>

Clickable == ui.open /\ ~ui.busy

Leaves(w) ==
  /\ overtaken' = (overtaken \/ Waiting(w) # {})
  /\ calm' = (calm /\ reloads = <<>>)

SwitchesWallet ==
  /\ Clickable /\ Len(reloads) < MaxReloads
  /\ \E w \in 1..store.wallets :
       /\ w # ui.active
       /\ store' = [store EXCEPT !.active = w]
       /\ EntersWallet(w, ui)
       /\ Leaves(w)
  /\ UNCHANGED <<stack, ledger, net, job, maker, events>>

\* addWallet appends a keypair and makes it the active one.
AddsWallet ==
  /\ Clickable /\ Len(reloads) < MaxReloads /\ store.wallets < MaxWallets
  /\ LET w == store.wallets + 1
     IN /\ store' = [store EXCEPT !.wallets = w, !.active = w]
        /\ EntersWallet(w, ui)
        /\ Leaves(w)
  /\ UNCHANGED <<stack, ledger, net, job, maker, events>>

\* ensureFunded.
Funds(i) ==
  /\ reloads[i].step = "fund"
  /\ \/ RpcUp /\ reloads' = [reloads EXCEPT ![i].step = "read"] /\ UNCHANGED <<events, calm>>
     \/ Fails /\ reloads' = Without(i)
  /\ UNCHANGED <<stack, ledger, net, store, ui, job, maker, overtaken>>

\* Ending a handler: every path sets busy to FALSE.
Ends == job' = NoJob /\ ui' = [ui EXCEPT !.busy = FALSE]

\* fetchRegistry: null for a wallet that has none, and for any failure.
FetchRegistry(w) == IF ledger.registry[w].exists THEN "found" ELSE "null"
FetchCounter(w)  == IF ledger.counter[w].exists THEN "count" ELSE "null"

\* Promise.all: fetchCounter throws when its request fails, and reload with it.
Fetches(i) ==
  /\ reloads[i].step = "read"
  /\ LET r == reloads[i]
         Reads(registry) ==
           reloads' = [reloads EXCEPT ![i].step = "show", ![i].registry = registry,
                                      ![i].counter = FetchCounter(r.wallet)]
     IN \/ RpcUp /\ Reads(FetchRegistry(r.wallet)) /\ UNCHANGED <<events, calm, ui, job>>
        \/ RpcUp /\ Fails /\ Reads("null") /\ UNCHANGED <<ui, job>>
        \/ /\ Fails /\ reloads' = Without(i)
           /\ IF r.by = "job" THEN Ends ELSE UNCHANGED <<ui, job>>
  /\ UNCHANGED <<stack, ledger, net, store, maker, overtaken>>

\* Both answers are there.
Shows(i) ==
  /\ reloads[i].step = "show"
  /\ LET r     == reloads[i]
         known == r.registry = "found"
         page  == [ui EXCEPT !.shown = r.counter, !.of = r.wallet,
                             !.handle = IF known THEN store.handle[r.wallet] ELSE None]
     IN /\ store' = IF known THEN store ELSE [store EXCEPT !.handle[r.wallet] = None]
        /\ IF r.by = "job"
           THEN job' = NoJob /\ ui' = [page EXCEPT !.busy = FALSE]
           ELSE ui' = page /\ UNCHANGED job
        /\ reloads' = Without(i)
  /\ UNCHANGED <<stack, ledger, net, maker, events, calm, overtaken>>

ReloadStep(i) == Funds(i) \/ Fetches(i) \/ Shows(i)

-----------------------------------------------------------------------------
(* The handlers.                                                           *)

Starts(kind, pc) ==
  /\ job' = [NoJob EXCEPT !.kind = kind, !.wallet = ui.active, !.handle = ui.handle,
                          !.pc = pc]
  /\ ui' = [ui EXCEPT !.busy = TRUE]
  /\ UNCHANGED <<stack, ledger, net, store, reloads, maker, events, calm, overtaken>>

InitCounter == Clickable /\ ui.shown = "null" /\ Starts("init", "sign")

\* Without a handle the button registers.
Increment ==
  /\ Clickable /\ ui.shown = "count"
  /\ IF ui.handle = None THEN Starts("register", "config") ELSE Starts("increment", "nonce")

At(pc) == job.pc = pc /\ UNCHANGED <<stack, overtaken>>

\* Mutant of Throws: no finally.
ThrowsBusy == job' = NoJob /\ UNCHANGED <<ui, ledger, net, store, reloads, maker>>

Throws == Ends /\ UNCHANGED <<ledger, net, store, reloads, maker>>

\* registerPasskey: fetchConfig, null for any failure.
FetchesConfig ==
  /\ At("config")
  /\ \/ /\ RpcUp /\ ledger.config /\ job' = [job EXCEPT !.pc = "create"]
        /\ UNCHANGED <<ledger, net, store, ui, reloads, maker, events, calm>>
     \/ RpcUp /\ ~ledger.config /\ Throws /\ UNCHANGED <<events, calm>>
     \/ Fails /\ Throws

\* nativeRegister; the user may decline.
Creates ==
  /\ At("create")
  /\ \/ /\ Len(maker) < MaxCreds
        /\ maker' = Append(maker, job.wallet)
        /\ job' = [job EXCEPT !.handle = Len(maker'), !.pc = "sign"]
        /\ UNCHANGED <<ledger, net, store, ui, reloads>>
     \/ Throws
  /\ UNCHANGED <<events, calm>>

\* buildProof's first read.  Only its error counts as a missing registration: the
\* handle is dropped and a new passkey registered.
FetchesNonce ==
  /\ At("nonce")
  /\ LET Missing == /\ store' = [store EXCEPT !.handle[job.wallet] = None]
                    /\ ui' = [ui EXCEPT !.handle = None]
                    /\ job' = [job EXCEPT !.kind = "register", !.handle = None,
                                          !.pc = "config"]
         reg == ledger.registry[job.wallet]
     IN \/ /\ RpcUp /\ reg.exists
           /\ job' = [job EXCEPT !.nonce = reg.nonce, !.pc = "registry"]
           /\ UNCHANGED <<store, ui, events, calm>>
        \/ RpcUp /\ ~reg.exists /\ Missing /\ UNCHANGED <<events, calm>>
        \/ Fails /\ Missing
  /\ UNCHANGED <<ledger, net, reloads, maker>>

\* Its second read: another message, which registers nothing.
FetchesKeys ==
  /\ At("registry")
  /\ LET reg == ledger.registry[job.wallet]
     IN \/ /\ RpcUp /\ reg.exists
           /\ job' = [job EXCEPT !.keys = reg.keys, !.pc = "touch"]
           /\ UNCHANGED <<ledger, net, store, ui, reloads, maker, events, calm>>
        \/ RpcUp /\ ~reg.exists /\ Throws /\ UNCHANGED <<events, calm>>
        \/ Fails /\ Throws

\* signIntent, then the entry of the credential among the keys that were read.
Touches ==
  /\ At("touch")
  /\ \/ /\ job.handle \in job.keys
        /\ job' = [job EXCEPT !.pc = "sign"]
        /\ UNCHANGED <<ledger, net, store, ui, reloads, maker>>
     \/ Throws
  /\ UNCHANGED <<events, calm>>

\* sign: send without preflight.
Sends ==
  /\ At("sign")
  /\ \/ /\ RpcUp /\ net = NoTx
        /\ net' = [kind |-> job.kind, wallet |-> job.wallet, handle |-> job.handle,
                   nonce |-> job.nonce, mine |-> TRUE]
        /\ job' = [job EXCEPT !.pc = "confirm"]
        /\ UNCHANGED <<ledger, store, ui, reloads, maker, events, calm>>
     \/ Fails /\ Throws

Confirms ==
  /\ At("confirm")
  /\ \/ job.outcome = "ok" /\ job' = [job EXCEPT !.pc = "logs"]
        /\ UNCHANGED <<ledger, net, store, ui, reloads, maker, events, calm>>
     \/ job.outcome = "bad" /\ Throws /\ UNCHANGED <<events, calm>>
     \/ Fails /\ Ends /\ net' = [net EXCEPT !.mine = FALSE]
        /\ UNCHANGED <<ledger, store, reloads, maker>>

\* Mutant of Saves: the handle is kept in React state only.
SavesInState ==
  /\ job.kind = "register"
  /\ ui' = [ui EXCEPT !.handle = job.handle, !.busy = FALSE]
  /\ job' = NoJob /\ UNCHANGED <<store, reloads>>

\* What follows a confirmed transaction.
Saves ==
  /\ job.kind = "register"
  /\ store' = [store EXCEPT !.handle[job.wallet] = job.handle]
  /\ ui' = [ui EXCEPT !.handle = job.handle, !.busy = FALSE]
  /\ job' = NoJob /\ UNCHANGED reloads

ReloadsAfter ==
  /\ job.kind # "register"
  /\ reloads' = Append(reloads, Reload(job.wallet, "job", "read"))
  /\ job' = [job EXCEPT !.pc = "reload"]
  /\ UNCHANGED <<store, ui>>

\* getTransaction for the logs: when it fails the handler fails, though the
\* transaction has landed.
ReadsLogs ==
  /\ At("logs")
  /\ \/ RpcUp /\ (Saves \/ ReloadsAfter) /\ UNCHANGED <<ledger, net, maker, events, calm>>
     \/ Fails /\ Throws

JobStep ==
  FetchesConfig \/ Creates \/ FetchesNonce \/ FetchesKeys \/ Touches \/ Sends \/ Confirms
  \/ ReadsLogs

-----------------------------------------------------------------------------
(* The cluster and other clients.                                          *)

Settles(result) ==
  /\ net' = NoTx
  /\ job' = IF net.mine THEN [job EXCEPT !.outcome = result] ELSE job
  /\ UNCHANGED <<stack, store, ui, reloads, maker, events, calm, overtaken>>

\* The programs: initialize, register_passkey, increment behind enforce.
MayInitialize(w) == ~ledger.counter[w].exists
MayRegister(w)   == ledger.config /\ ledger.registry[w].keys = {}
MayIncrement(tx) ==
  /\ ledger.counter[tx.wallet].exists
  /\ tx.handle \in ledger.registry[tx.wallet].keys
  /\ tx.nonce = ledger.registry[tx.wallet].nonce

After(tx) ==
  CASE tx.kind = "init" -> [ledger EXCEPT !.counter[tx.wallet].exists = TRUE]
    [] tx.kind = "register" ->
         [ledger EXCEPT !.registry[tx.wallet] =
                          [exists |-> TRUE, keys |-> {tx.handle}, nonce |-> @.nonce]]
    [] tx.kind = "increment" ->
         [ledger EXCEPT !.counter[tx.wallet].count = @ + 1,
                        !.registry[tx.wallet].nonce = @ + 1]

Accepted(tx) ==
  CASE tx.kind = "init"      -> MayInitialize(tx.wallet)
    [] tx.kind = "register"  -> MayRegister(tx.wallet)
    [] tx.kind = "increment" -> MayIncrement(tx)

Lands ==
  /\ RpcUp /\ net # NoTx
  /\ net.kind = "increment" => ledger.counter[net.wallet].count < MaxCount
  /\ IF Accepted(net) THEN ledger' = After(net) /\ Settles("ok")
     ELSE UNCHANGED ledger /\ Settles("bad")

\* The blockhash is too old, or the proof is when it lands.
Expires == net # NoTx /\ UNCHANGED ledger /\ Settles("bad")

\* Another client consumes a nonce or recovers the registry.
ChangesElsewhere ==
  /\ RpcUp
  /\ \E w \in Wallets :
       /\ ledger.registry[w].exists
       /\ \E reg \in {[ledger.registry[w] EXCEPT !.nonce = @ + 1],
                      [exists |-> TRUE, keys |-> {Foreign}, nonce |-> 0]} :
            ledger' = [ledger EXCEPT !.registry[w] = reg]
  /\ Counts
  /\ UNCHANGED <<stack, net, store, ui, reloads, job, maker, calm, overtaken>>

-----------------------------------------------------------------------------

CounterInit ==
  /\ stack = "down" /\ ledger = Genesis /\ net = NoTx
  /\ store = [wallets |-> 1, active |-> 1, handle |-> [w \in Wallets |-> None]]
  /\ ui = Closed /\ reloads = <<>> /\ job = NoJob /\ maker = <<>>
  /\ events = 0
  /\ calm = TRUE /\ overtaken = FALSE

JobReloadStep == \E i \in DOMAIN reloads : reloads[i].by = "job" /\ ReloadStep(i)

CounterNext ==
  \/ Launcher \/ Opens \/ SwitchesWallet \/ AddsWallet \/ InitCounter \/ Increment
  \/ \E i \in DOMAIN reloads : ReloadStep(i)
  \/ JobStep
  \/ Lands \/ Expires \/ ChangesElsewhere

\* The page's own steps are taken: a request is answered or fails, a person answers
\* the device's dialog or it times out, a transaction lands or its blockhash expires.
\* Nothing is assumed of run.mjs, of clicks or of other clients.
CounterFairness ==
  WF_counterVars(JobStep) /\ WF_counterVars(JobReloadStep) /\ WF_counterVars(Lands \/ Expires)

CounterSpec == CounterInit /\ [][CounterNext]_counterVars /\ CounterFairness

-----------------------------------------------------------------------------
(* Properties.                                                             *)

\* A key the page registered is one it can still prove with: its handle is in
\* localStorage, whichever wallets were visited since and however often the ledger
\* was started anew.  A failed request, an overtaken reload or a page that is
\* loaded again in the middle of a handler can lose the only copy: fetchRegistry
\* answers null for a failure, and reload then removes the handle (App.tsx:37).
HandleKept ==
  calm /\ job = NoJob =>
    \A w \in Wallets : \A c \in ledger.registry[w].keys \ {Foreign} : store.handle[w] = c

\* The buttons act for the wallet the page shows: counter and handle are that
\* wallet's, and a handler keeps its wallet on the screen.  A reload that was
\* overtaken by another wallet's may bring the old one's data back.
ScreenFollowsWallet ==
  /\ ~overtaken /\ ui.shown # "loading" =>
       /\ ui.of = ui.active
       /\ ui.handle # None => maker[ui.handle] = ui.active
  /\ job # NoJob => job.wallet = ui.active

\* Every handler gives the buttons back: on each path, the nested registration of
\* increment included, busy is set to FALSE again.
BusyClears == ui.busy ~> ~ui.busy
=============================================================================
