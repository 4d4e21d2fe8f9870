------------------------------ MODULE Scripts ------------------------------
(***************************************************************************)
(* The command line scripts of one wallet against the deployed programs.   *)
(* Every script reads accounts one await at a time, decides, sends one     *)
(* transaction and waits for it; secure-upgrade-authority then calls the   *)
(* Solana CLI.  Scripts run side by side in several terminals and may be   *)
(* interrupted anywhere; what was sent may still land, and what has not    *)
(* landed may expire with its blockhash.  The browser and the config       *)
(* authority change the same accounts meanwhile.                           *)
(*                                                                         *)
(* The programs are as much of trana_guard, trana_authority and the vault  *)
(* as decides whether a transaction of a script succeeds; TranaGuard and   *)
(* TranaAuthority model them in full.                                      *)
(***************************************************************************)
EXTENDS Interface, FiniteSets

CONSTANTS
  Terminals,   \* where scripts run
  Treasuries,  \* accounts the config may name as treasury
  MaxKeys,     \* entries a registry has room for
  MaxRuns,     \* bound: scripts started
  MaxNonce,    \* bound: proofs accepted
  MaxEra       \* bound: recoveries

ASSUME ScriptsAssumption ==
  /\ Treasuries # {}
  /\ {MaxKeys, MaxRuns, MaxNonce, MaxEra} \subseteq Nat

VARIABLES
  ledger,  \* the accounts on chain
  net,     \* transactions sent, neither landed nor expired
  run,     \* what each terminal is doing
  started  \* scripts started so far

vars == <<ledger, net, run, started>>

(***************************************************************************)
(* The script's own key is derived from the wallet's secret key; the       *)
(* browser's is made by the device.                                        *)
(***************************************************************************)
Keys == {"cli", "touch"}

\* Scripts and the arguments they are started with.
Commands ==
  {<<"register", "cli">>, <<"add", "touch">>, <<"remove", "cli">>,
   <<"remove", "touch">>, <<"recover", "touch">>, <<"initConfig", "cli">>,
   <<"initVault", "cli">>, <<"secure", "cli">>, <<"upgrade", "cli">>,
   <<"reclaim", "cli">>}

InitLedger ==
  [registered |-> FALSE, keys |-> <<>>, nonce |-> 0, era |-> 0,
   configured |-> FALSE, treasury |-> CHOOSE t \in Treasuries : TRUE,
   pool |-> FALSE, record |-> FALSE,
   authority |-> "wallet",  \* of the target program
   buffer |-> "wallet",     \* authority of the buffer to upgrade from
   version |-> 0]           \* upgrades of the target, 0 or 1

\* A wallet that has run init-config, register-passkey and add-passkey before.
Furnished ==
  [InitLedger EXCEPT !.registered = TRUE, !.keys = <<"cli", "touch">>,
                     !.nonce = 1, !.configured = TRUE]

Idle == [script |-> "none", arg |-> "cli", pc |-> "done", outcome |-> "none",
         nonce |-> 0, keys |-> <<>>, era |-> 0,
         treasury |-> InitLedger.treasury, id |-> 0, result |-> "none"]

Init ==
  /\ ledger \in {InitLedger, Furnished}
  /\ net = {}
  /\ run = [t \in Terminals |-> Idle]
  /\ started = 0

-----------------------------------------------------------------------------
(* What the programs make of a script's transaction.                       *)

Ix(script) ==
  CASE script = "register"   -> RegisterScriptIx
    [] script = "add"        -> AddScriptIx
    [] script = "remove"     -> RemoveScriptIx
    [] script = "recover"    -> RecoverScriptIx
    [] script = "initConfig" -> InitConfigScriptIx
    [] script = "initVault"  -> InitVaultScriptIx
    [] script = "secure"     -> SecureScriptIx
    [] script = "upgrade"    -> UpgradeScriptIx
    [] script = "reclaim"    -> ReclaimScriptIx

Proof(script) ==
  CASE script = "add"     -> AddScriptProof
    [] script = "remove"  -> RemoveScriptProof
    [] script = "upgrade" -> UpgradeScriptProof
    [] script = "reclaim" -> ReclaimScriptProof

Proved == {"add", "remove", "upgrade", "reclaim"}

\* Instructions the programs dispatch, and proofs the guard can verify.
Reaches == {c[1] : c \in {d \in Commands : Dispatched(Ix(d[1]))}}
Checks  == {s \in Proved : Verifiable(Proof(s), Ix(s))}

\* The script's key is registered and has signed the registry's nonce.
Approved(L, tx) ==
  /\ L.registered
  /\ tx.script \in Checks
  /\ \E i \in DOMAIN L.keys : L.keys[i] = "cli"
  /\ tx.nonce = L.nonce

Pays(L, tx) == L.configured /\ tx.treasury = L.treasury

HasRoom(L) == Len(L.keys) < MaxKeys

\* What each handler requires beyond its proof.
Permitted(L, tx) ==
  CASE tx.script = "register"   -> Pays(L, tx) /\ L.keys = <<>>
    [] tx.script = "add"        -> Pays(L, tx) /\ HasRoom(L)
    [] tx.script = "remove"     -> /\ Len(L.keys) > 1
                                   /\ \E i \in DOMAIN L.keys : L.keys[i] = tx.arg
    [] tx.script = "recover"    -> L.registered
    [] tx.script = "initConfig" -> ~L.configured
    [] tx.script = "initVault"  -> ~L.pool
    [] tx.script = "secure"     -> ~L.record
    [] tx.script = "upgrade"    -> /\ L.record
                                   /\ L.authority = "record"
                                   /\ L.buffer = "record"
    [] tx.script = "reclaim"    -> L.record /\ L.authority = "record"

Succeeds(L, tx) ==
  /\ tx.script \in Reaches
  /\ tx.script \in Proved => Approved(L, tx)
  /\ Permitted(L, tx)

\* Variant: an approved change of keys leaves the nonce as it was.
NonceForgotten(L, tx) == IF tx.script = "upgrade" THEN L.nonce + 1 ELSE L.nonce

NonceUsed(L, tx) == IF tx.script \in Proved THEN L.nonce + 1 ELSE L.nonce

Without(keys, k) == SelectSeq(keys, LAMBDA e : e # k)

After(L, tx) ==
  LET M == [L EXCEPT !.nonce = NonceUsed(L, tx)] IN
  CASE tx.script = "register"   -> [M EXCEPT !.registered = TRUE, !.keys = <<"cli">>]
    [] tx.script = "add"        -> [M EXCEPT !.keys = Append(@, tx.arg)]
    [] tx.script = "remove"     -> [M EXCEPT !.keys = Without(@, tx.arg)]
    [] tx.script = "recover"    -> [M EXCEPT !.keys = <<tx.arg>>, !.nonce = 0,
                                             !.era = @ + 1]
    [] tx.script = "initConfig" -> [M EXCEPT !.configured = TRUE]
    [] tx.script = "initVault"  -> [M EXCEPT !.pool = TRUE]
    [] tx.script = "secure"     -> [M EXCEPT !.record = TRUE]
    [] tx.script = "upgrade"    -> [M EXCEPT !.version = 1]
    [] tx.script = "reclaim"    -> [M EXCEPT !.record = FALSE, !.authority = "wallet"]

InBounds(L) == L.nonce <= MaxNonce /\ L.era <= MaxEra

-----------------------------------------------------------------------------
(* Steps every script shares.                                              *)

At(t, script, pc) == run[t].script = script /\ run[t].pc = pc

Exit(t, outcome) ==
  /\ run' = [run EXCEPT ![t] = [Idle EXCEPT !.outcome = outcome]]
  /\ UNCHANGED <<ledger, net, started>>

Continue(t, r) ==
  /\ run' = [run EXCEPT ![t] = r]
  /\ UNCHANGED <<ledger, net, started>>

Tx(r) == [script |-> r.script, arg |-> r.arg, nonce |-> r.nonce, keys |-> r.keys,
          era |-> r.era, treasury |-> r.treasury, id |-> r.id]

Send(t) ==
  /\ net' = net \cup {Tx(run[t])}
  /\ run' = [run EXCEPT ![t].pc = "sent"]
  /\ UNCHANGED <<ledger, started>>

\* sendRawTransaction simulates first and throws, unless it is told to skip that.
SendChecked(t) ==
  \/ Succeeds(ledger, Tx(run[t])) /\ Send(t)
  \/ ~Succeeds(ledger, Tx(run[t])) /\ Exit(t, "failed")

\* What a script reads of the registry, at the offsets it reads it.
ReadRegistry(r) ==
  [r EXCEPT !.nonce = ledger[ScriptNonce], !.keys = ledger[ScriptKeyCount],
            !.era = ledger.era]
ReadConfig(r) == [r EXCEPT !.treasury = ledger[ScriptTreasury]]

Start(t, c) ==
  /\ run[t].pc = "done"
  /\ started < MaxRuns
  /\ started' = started + 1
  /\ run' = [run EXCEPT ![t] = [Idle EXCEPT !.script = c[1], !.arg = c[2],
                                            !.pc = "start", !.id = started + 1]]
  /\ UNCHANGED <<ledger, net>>

-----------------------------------------------------------------------------
(* The scripts.                                                            *)

RegisterReadsConfig(t) ==
  /\ At(t, "register", "start")
  /\ \/ ~ledger.configured /\ Exit(t, "failed")
     \/ ledger.configured /\ Continue(t, [ReadConfig(run[t]) EXCEPT !.pc = "look"])

RegisterLooks(t) ==
  /\ At(t, "register", "look")
  /\ \/ ledger.registered /\ Exit(t, "exists")
     \/ ~ledger.registered /\ Continue(t, [run[t] EXCEPT !.pc = "send"])

RegisterSends(t) == At(t, "register", "send") /\ SendChecked(t)

AddReadsRegistry(t) ==
  /\ At(t, "add", "start")
  /\ \/ ~ledger.registered /\ Exit(t, "failed")
     \/ ledger.registered /\ Continue(t, [ReadRegistry(run[t]) EXCEPT !.pc = "config"])

AddReadsConfig(t) ==
  /\ At(t, "add", "config")
  /\ \/ ~ledger.configured /\ Exit(t, "failed")
     \/ ledger.configured /\ Continue(t, [ReadConfig(run[t]) EXCEPT !.pc = "send"])

AddSends(t) == At(t, "add", "send") /\ Send(t)

RemoveReads(t) ==
  /\ At(t, "remove", "start")
  /\ \/ (~ledger.registered \/ Len(ledger[ScriptKeyCount]) <= 1) /\ Exit(t, "failed")
     \/ /\ ledger.registered /\ Len(ledger[ScriptKeyCount]) > 1
        /\ Continue(t, [ReadRegistry(run[t]) EXCEPT !.pc = "send"])

RemoveSends(t) == At(t, "remove", "send") /\ Send(t)

\* The registry is read for the number of keys to print, and may be missing.
RecoverSends(t) == At(t, "recover", "start") /\ Send(t)

InitConfigLooks(t) ==
  /\ At(t, "initConfig", "start")
  /\ \/ ledger.configured /\ Exit(t, "exists")
     \/ ~ledger.configured /\ Continue(t, [run[t] EXCEPT !.pc = "send"])

InitConfigSends(t) == At(t, "initConfig", "send") /\ SendChecked(t)

InitVaultLooks(t) ==
  /\ At(t, "initVault", "start")
  /\ \/ ledger.pool /\ Exit(t, "exists")
     \/ ~ledger.pool /\ Continue(t, [run[t] EXCEPT !.pc = "send"])

InitVaultSends(t) == At(t, "initVault", "send") /\ SendChecked(t)

\* Variant: the authority is transferred before the record is registered.
SecureSkipsRecord(t) ==
  At(t, "secure", "start") /\ Continue(t, [run[t] EXCEPT !.pc = "transfer"])

SecureRegisters(t) == At(t, "secure", "start") /\ SendChecked(t)

\* The CLI transfers the authority, which only the current authority can do.
SecureTransfers(t) ==
  /\ At(t, "secure", "transfer")
  /\ \/ /\ ledger.authority = "wallet"
        /\ ledger' = [ledger EXCEPT !.authority = "record"]
        /\ run' = [run EXCEPT ![t] = [Idle EXCEPT !.outcome = "ok"]]
        /\ UNCHANGED <<net, started>>
     \/ ledger.authority # "wallet" /\ Exit(t, "failed")

UpgradeReads(t) ==
  /\ At(t, "upgrade", "start")
  /\ \/ ~ledger.registered /\ Exit(t, "failed")
     \/ ledger.registered /\ Continue(t, [ReadRegistry(run[t]) EXCEPT !.pc = "send"])

UpgradeSends(t) == At(t, "upgrade", "send") /\ Send(t)

ReclaimReads(t) ==
  /\ At(t, "reclaim", "start")
  /\ \/ ~ledger.registered /\ Exit(t, "failed")
     \/ ledger.registered /\ Continue(t, [ReadRegistry(run[t]) EXCEPT !.pc = "send"])

ReclaimSends(t) == At(t, "reclaim", "send") /\ Send(t)

\* Variant: add-passkey.mjs does not look at the error either.
UncheckedAdd == {"register", "initConfig", "initVault", "add"}

\* Scripts that never look at result.value.err after confirmTransaction.
Unchecked == {"register", "initConfig", "initVault"}

\* secure-upgrade-authority goes on to its second step.
AfterConfirm(t) ==
  IF run[t].script = "secure"
  THEN Continue(t, [run[t] EXCEPT !.pc = "transfer"])
  ELSE Exit(t, "ok")

Confirms(t) ==
  /\ run[t].pc = "sent"
  /\ \/ run[t].result = "ok" /\ AfterConfirm(t)
     \/ /\ run[t].result = "error"
        /\ IF run[t].script \in Unchecked THEN Exit(t, "ok") ELSE Exit(t, "failed")
     \/ run[t].result = "expired" /\ Exit(t, "failed")

-----------------------------------------------------------------------------
(* The cluster, the operator, and everybody else.                          *)

\* The terminal that still waits for the transaction, if any, learns the result.
Settles(tx, res) ==
  /\ net' = net \ {tx}
  /\ run' = [t \in Terminals |->
              IF run[t].id = tx.id THEN [run[t] EXCEPT !.result = res] ELSE run[t]]
  /\ UNCHANGED started

Lands(tx) ==
  \/ /\ Succeeds(ledger, tx) /\ InBounds(After(ledger, tx))
     /\ ledger' = After(ledger, tx)
     /\ Settles(tx, "ok")
  \/ /\ ~Succeeds(ledger, tx)
     /\ UNCHANGED ledger
     /\ Settles(tx, "error")

Expires(tx) == Settles(tx, "expired") /\ UNCHANGED ledger

\* Control-C, a lost terminal, an exception of the connection.
Interrupt(t) == run[t].pc # "done" /\ Exit(t, "none")

\* The browser adds its key or removes the script's, with a proof of its own.
BrowserChangesKeys ==
  /\ ledger.registered /\ ledger.nonce < MaxNonce
  /\ \E i \in DOMAIN ledger.keys : ledger.keys[i] = "touch"
  /\ \E keys \in {Append(ledger.keys, "touch"), Without(ledger.keys, "cli")} :
       /\ keys # ledger.keys /\ Len(keys) <= MaxKeys
       /\ ledger' = [ledger EXCEPT !.keys = keys, !.nonce = @ + 1]
  /\ UNCHANGED <<net, run, started>>

\* reclaim_authority through the SDK's client: record and authority go together.
ClientReclaims ==
  /\ Dispatched(ReclaimClientIx)
  /\ ledger.registered /\ ledger.keys # <<>> /\ ledger.nonce < MaxNonce
  /\ ledger.record /\ ledger.authority = "record"
  /\ ledger' = [ledger EXCEPT !.record = FALSE, !.authority = "wallet",
                              !.nonce = @ + 1]
  /\ UNCHANGED <<net, run, started>>

\* update_config; bounded to one move.
MovesTreasury ==
  /\ ledger.configured
  /\ ledger.treasury = InitLedger.treasury
  /\ \E a \in Treasuries \ {ledger.treasury} : ledger' = [ledger EXCEPT !.treasury = a]
  /\ UNCHANGED <<net, run, started>>

\* solana program set-buffer-authority, which no script runs.
HandsOverBuffer ==
  /\ ledger.buffer = "wallet"
  /\ ledger' = [ledger EXCEPT !.buffer = "record"]
  /\ UNCHANGED <<net, run, started>>

ScriptStep(t) ==
  \/ RegisterReadsConfig(t) \/ RegisterLooks(t) \/ RegisterSends(t)
  \/ AddReadsRegistry(t) \/ AddReadsConfig(t) \/ AddSends(t)
  \/ RemoveReads(t) \/ RemoveSends(t)
  \/ RecoverSends(t)
  \/ InitConfigLooks(t) \/ InitConfigSends(t)
  \/ InitVaultLooks(t) \/ InitVaultSends(t)
  \/ SecureRegisters(t) \/ SecureTransfers(t)
  \/ UpgradeReads(t) \/ UpgradeSends(t)
  \/ ReclaimReads(t) \/ ReclaimSends(t)
  \/ Confirms(t)

Next ==
  \/ \E t \in Terminals : ScriptStep(t) \/ Interrupt(t)
  \/ \E t \in Terminals, c \in Commands : Start(t, c)
  \/ \E tx \in net : Lands(tx) \/ Expires(tx)
  \/ BrowserChangesKeys \/ ClientReclaims \/ MovesTreasury \/ HandsOverBuffer

Spec == Init /\ [][Next]_vars

-----------------------------------------------------------------------------
(* Properties.                                                             *)

(* Who can upgrade is never lost: whenever the record's address is the     *)
(* target's upgrade authority the record exists, so its owner can still    *)
(* upgrade or reclaim.  secure-upgrade-authority.mjs has two steps and may *)
(* stop in between, and a reclaim may come in between.                     *)
RecordBehindAuthority == ledger.authority = "record" => ledger.record

(* A script that prints its success has had it.  Three scripts do not look *)
(* at the error of the transaction they confirmed; what they name exists   *)
(* all the same, unless the treasury moved under register-passkey.mjs.     *)
Claimed(t) ==
  \/ run[t].result = "ok"
  \/ run[t].script = "initConfig" /\ ledger.configured
  \/ run[t].script = "initVault" /\ ledger.pool
  \/ /\ run[t].script = "register"
     /\ ledger.registered \/ run[t].treasury # ledger.treasury

OkIsTrue ==
  \A t \in Terminals :
    (run[t].outcome # "ok" /\ run'[t].outcome = "ok") => Claimed(t)

ReportsAreTrue == [][OkIsTrue]_vars

(* A proof is spent on the keys its script looked at: if an instruction    *)
(* approved by a script succeeds, no key was added or removed since the    *)
(* script read the registry, whatever the other terminal and the browser   *)
(* did.  A recovery resets the nonce and voids this; so does registering   *)
(* into a registry that was empty, which leaves the nonce alone.           *)
SawTheKeys ==
  \A tx \in net :
    (tx \notin net' /\ ledger' # ledger /\ tx.script \in Proved) =>
      \/ tx.keys = ledger.keys
      \/ tx.era # ledger.era
      \/ tx.keys = <<>>

ProofsFollowReads == [][SawTheKeys]_vars

(* upgrade-program.mjs upgrades a program secured by the record: with the  *)
(* record as authority of program and buffer, the script's key registered  *)
(* and its nonce current, the transaction succeeds.                        *)
UpgradeScriptWorks ==
  \A tx \in net :
    (tx.script = "upgrade" /\ Permitted(ledger, tx)
       /\ tx.nonce = ledger.nonce /\ \E i \in DOMAIN ledger.keys : ledger.keys[i] = "cli")
    => Succeeds(ledger, tx)

=============================================================================
