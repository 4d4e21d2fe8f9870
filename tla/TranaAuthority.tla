--------------------------- MODULE TranaAuthority ---------------------------
(***************************************************************************)
(* The trana_authority program on top of trana_guard: an AuthorityRecord   *)
(* account holds the upgrade authority of a program, and only a passkey's  *)
(* signature lets it upgrade the program or give the authority away.       *)
(*                                                                         *)
(* The upgradeable loader is external: it is modelled by the checks the    *)
(* program and its scripts rely on.  Every wallet has already registered   *)
(* a passkey.                                                              *)
(***************************************************************************)
EXTENDS TranaGuard

CONSTANTS
  Targets,      \* programs whose upgrade authority may be protected
  Buffers,      \* loader buffer accounts
  Codes         \* program images

VARIABLES
  records,      \* which AuthorityRecord accounts exist
  upgrader,     \* the upgrade authority of each program
  code,         \* the deployed image of each program
  buffers,      \* loader buffers
  actions,      \* UpgradeExecuted and AuthorityReclaimed events, oldest first
  stored,       \* the accounts above as last committed
  signedBuffer  \* history: the buffer's account when a device signed an upgrade

loader        == <<upgrader, code, buffers>>
accounts      == <<records, loader, actions>>
authorityVars == <<accounts, stored, signedBuffer>>
allVars       == <<vars, authorityVars>>

Authority == "trana_authority"
Loader    == "bpf_loader_upgradeable"

\* The record's address, which is also the authority it holds.
Pda(w, t) == [owner |-> w, target |-> t]
Pdas == {Pda(w, t) : w \in Wallets, t \in Targets}

NoAuthority == Pda(ZeroKey, ZeroKey)
NoBuffer == [exists |-> FALSE, code |-> ZeroKey, authority |-> NoAuthority]

Stored == [records |-> records, upgrader |-> upgrader, code |-> code,
           buffers |-> buffers, actions |-> actions]

\* The arguments and accounts of the protected instructions.
UpgradeArgs == [op: {"execute_upgrade"}, target: Targets, buffer: Buffers]
ReclaimArgs == [op: {"reclaim_authority"}, target: Targets,
                new_authority: Wallets \cup Pdas]

\* Record addresses are derived off the curve: no wallet has a key for one, nor for
\* the zero address.
ASSUME AuthorityAssumption ==
  /\ AppArgs \subseteq UpgradeArgs \cup ReclaimArgs
  /\ Wallets \cap Pdas = {}
  /\ ZeroKey \notin Wallets

AuthorityInit ==
  /\ \E e \in Entry :
       /\ KeyLen[e.pubkey] = 33 /\ ValidKeyInputs(e)
       /\ registry = [w \in Wallets |-> [exists |-> TRUE, owner |-> w, nonce |-> 0,
                                         keys |-> Pushed(<<>>, e)]]
  /\ \E w \in Wallets, t \in Treasuries :
       config = [exists |-> TRUE, authority |-> w, treasury |-> t,
                 register_fee |-> 0, add_key_fee |-> 0]
  /\ lamports  = [a \in Accounts |-> InitialLamports]
  /\ log       = <<>>
  /\ epoch     = [w \in Wallets |-> 0]
  /\ committed = [config |-> config, registry |-> registry, lamports |-> lamports,
                  log |-> log, epoch |-> epoch]
  /\ tx        = <<>>
  /\ approvals = {}
  /\ clock     = [slot |-> 0, time |-> 0]
  /\ records   = {}
  /\ upgrader \in [Targets -> Wallets]
  /\ \E c \in Codes : code = [t \in Targets |-> c]
  /\ buffers   = [b \in Buffers |-> NoBuffer]
  /\ actions   = <<>>
  /\ stored    = Stored
  /\ signedBuffer = {}

-----------------------------------------------------------------------------
(* The loader, called by wallets and by the program.                       *)

Plain(program, op, w) ==
  /\ Len(tx) < MaxIx
  /\ tx' = Append(tx, PlainCall(program, op, w))

IsUpgrader(t, holder) == upgrader[t] = holder

\* Upgrade: the buffer's authority must be the program's, and the buffer is used up.
Upgraded(t, b, holder) ==
  /\ IsUpgrader(t, holder)
  /\ buffers[b].exists
  /\ buffers[b].authority = holder
  /\ code'    = [code EXCEPT ![t] = buffers[b].code]
  /\ buffers' = [buffers EXCEPT ![b] = NoBuffer]
  /\ UNCHANGED upgrader

\* SetAuthority on a program.
HandedOver(t, holder, new) ==
  /\ IsUpgrader(t, holder)
  /\ upgrader' = [upgrader EXCEPT ![t] = new]
  /\ UNCHANGED <<code, buffers>>

\* A wallet that still holds the authority uses it directly.
DirectUpgrade(w, t, b) ==
  /\ Plain(Loader, "upgrade", w)
  /\ Upgraded(t, b, w)
  /\ UNCHANGED <<ledger, committed, approvals, clock, records, actions, stored,
                 signedBuffer>>

\* solana program set-upgrade-authority, the second step of securing a program.
SetUpgradeAuthority(w, t, new) ==
  /\ Plain(Loader, "set_authority", w)
  /\ HandedOver(t, w, new)
  /\ UNCHANGED <<ledger, committed, approvals, clock, records, actions, stored,
                 signedBuffer>>

\* solana program write-buffer: the writer is the buffer's first authority.
WriteBuffer(w, b, c) ==
  /\ Plain(Loader, "write", w)
  /\ buffers[b].exists => buffers[b].authority = w
  /\ buffers' = [buffers EXCEPT ![b] = [exists |-> TRUE, code |-> c, authority |-> w]]
  /\ UNCHANGED <<ledger, committed, approvals, clock, records, upgrader, code, actions,
                 stored, signedBuffer>>

\* solana program set-buffer-authority.
SetBufferAuthority(w, b, new) ==
  /\ Plain(Loader, "set_buffer_authority", w)
  /\ buffers[b].exists
  /\ buffers[b].authority = w
  /\ buffers' = [buffers EXCEPT ![b].authority = new]
  /\ UNCHANGED <<ledger, committed, approvals, clock, records, upgrader, code, actions,
                 stored, signedBuffer>>

-----------------------------------------------------------------------------
(* The program's instructions.                                             *)

\* register: the owner's signature alone; the target is not looked at.
Register(w, t) ==
  /\ Plain(Authority, "register", w)
  /\ Pda(w, t) \notin records
  /\ records' = records \cup {Pda(w, t)}
  /\ UNCHANGED <<ledger, committed, approvals, clock, loader, actions, stored,
                 signedBuffer>>

OnceUnlocked == [id |-> "trana.not_before", bound |-> 0]
ActionPolicy == [id |-> "trana.require", bound |-> 0]

\* What both protected instructions check before they act: the record's seeds and
\* the guard's proof, against the registry derived from the same owner.
ProofEnforced(ix) ==
  /\ Len(tx) < MaxIx
  /\ tx' = Append(tx, ix)
  /\ Pda(ix.wallet, ix.arg.target) \in records
  /\ registry[ix.wallet].exists
  /\ Enforced(tx', ix.wallet, ix.wallet, ActionPolicy)
  /\ UNCHANGED <<config, lamports, epoch, committed, approvals, clock, stored,
                 signedBuffer>>

UpgradeEvent(ix) ==
  [op |-> "execute_upgrade", owner |-> ix.wallet, target |-> ix.arg.target,
   code |-> buffers[ix.arg.buffer].code]

\* invoke_signed(...)?: a refusal of the loader is an error of the instruction.
UpgradeAttempted(ix, pda) ==
  \/ Upgraded(ix.arg.target, ix.arg.buffer, pda) /\ actions' = Append(actions, UpgradeEvent(ix))
  \/ ~IsUpgrader(ix.arg.target, pda) /\ UNCHANGED <<loader, actions>>
UpgradeAnnounced(ix, pda) ==
  /\ \/ Upgraded(ix.arg.target, ix.arg.buffer, pda)
     \/ ~buffers[ix.arg.buffer].exists /\ UNCHANGED loader
  /\ actions' = Append(actions, UpgradeEvent(ix))
UpgradeInvoked(ix, pda) ==
  /\ Upgraded(ix.arg.target, ix.arg.buffer, pda)
  /\ actions' = Append(actions, UpgradeEvent(ix))

\* execute_upgrade
ExecuteUpgrade(ix) ==
  /\ ix.arg.op = "execute_upgrade"
  /\ ProofEnforced(ix)
  /\ UpgradeInvoked(ix, Pda(ix.wallet, ix.arg.target))
  /\ UNCHANGED records

\* reclaim_authority: the record is closed when the instruction ends.
ReclaimAuthority(ix) ==
  LET t == ix.arg.target
      pda == Pda(ix.wallet, t)
  IN /\ ix.arg.op = "reclaim_authority"
     /\ ProofEnforced(ix)
     /\ HandedOver(t, pda, ix.arg.new_authority)
     /\ actions' = Append(actions, [op |-> "reclaim_authority", owner |-> ix.wallet,
                                    target |-> t, code |-> code[t]])
     /\ records' = records \ {pda}

-----------------------------------------------------------------------------
(* Steps of the environment.                                               *)

AuthorityCommit ==
  /\ Commit
  /\ stored' = Stored
  /\ UNCHANGED <<accounts, signedBuffer>>

AuthorityAbort ==
  /\ Abort
  /\ records'  = stored.records
  /\ upgrader' = stored.upgrader
  /\ code'     = stored.code
  /\ buffers'  = stored.buffers
  /\ actions'  = stored.actions
  /\ UNCHANGED <<stored, signedBuffer>>

ProtectedCalls == {ix \in Calls : ix.op = "protected"}

\* A device signs; the intent names the buffer account, not what it holds.
SignAction(k, ix, ttl) ==
  /\ Approve(k, ix, ActionPolicy.id, ttl)
  /\ signedBuffer' = signedBuffer \cup
       IF ix.arg.op = "execute_upgrade"
       THEN {[intent |-> BuildIntent(ix, ActionPolicy.id, ttl),
              buffer |-> stored.buffers[ix.arg.buffer]]}
       ELSE {}
  /\ UNCHANGED <<accounts, stored>>

AttachProof(a) ==
  /\ Len(tx) + 2 <= MaxIx
  /\ tx' = tx \o ProofIxs(a)
  /\ UNCHANGED <<ledger, committed, approvals, clock, authorityVars>>

AuthorityNext ==
  \/ \E w \in Wallets, t \in Targets, b \in Buffers : DirectUpgrade(w, t, b)
  \/ \E w \in Wallets, t \in Targets, new \in Wallets \cup Pdas :
        SetUpgradeAuthority(w, t, new)
  \/ \E w \in Wallets, b \in Buffers, c \in Codes : WriteBuffer(w, b, c)
  \/ \E w \in Wallets, b \in Buffers, new \in Wallets \cup Pdas :
        SetBufferAuthority(w, b, new)
  \/ \E w \in Wallets, t \in Targets : Register(w, t)
  \/ \E ix \in ProtectedCalls : ExecuteUpgrade(ix)
  \/ \E ix \in ProtectedCalls : ReclaimAuthority(ix)
  \/ \E k \in PubKeys, ix \in ProtectedCalls, ttl \in Ttls : SignAction(k, ix, ttl)
  \/ \E a \in approvals : AttachProof(a)
  \/ AuthorityCommit
  \/ AuthorityAbort

AuthoritySpec == AuthorityInit /\ [][AuthorityNext]_allVars

-----------------------------------------------------------------------------
(* Properties.                                                             *)

AuthorityTypeOK ==
  /\ records \subseteq Pdas
  /\ upgrader \in [Targets -> Wallets \cup Pdas]
  /\ code \in [Targets -> Codes]
  /\ buffers \in [Buffers -> [exists: BOOLEAN, code: Codes \cup {ZeroKey},
                              authority: Wallets \cup Pdas \cup {NoAuthority}]]
  /\ actions \in Seq([op: {"execute_upgrade", "reclaim_authority"}, owner: Wallets,
                     target: Targets, code: Codes])

ActsOn(g, a) ==
  /\ Len(g) = Len(a)
  /\ \A i \in DOMAIN g :
       /\ g[i].intent.wallet = a[i].owner
       /\ g[i].intent.ix.arg.op = a[i].op
       /\ g[i].intent.ix.arg.target = a[i].target

\* A passkey's proof is consumed exactly when the loader carried out what was
\* signed: a refused upgrade or hand-over leaves nonce, record and authority alone.
ProofConsumedOnlyByAction ==
  /\ ActsOn(log, actions)
  /\ ActsOn(committed.log, stored.actions)

LoaderCalledBy(w) ==
  \E i \in DOMAIN tx : tx[i].kind = "call" /\ tx[i].program = Loader /\ tx[i].wallet = w

\* The proof of event v is one for handing over the authority of t.
HandsOver(v, t) ==
  v.intent.ix.arg.op = "reclaim_authority" /\ v.intent.ix.arg.target = t

\* The new upgrader is the one a hand-over names, or that wallet's choice.
NamedBy(v, new) ==
  \/ v.intent.ix.arg.new_authority = new
  \/ LoaderCalledBy(v.intent.ix.arg.new_authority)

\* What the owner of the record that held t, with the events since, may have done.
AuthorizedChange(events, t, old, new) ==
  LET Owners == {v \in events : old = Pda(v.owner, t) /\ v.intent.ix.arg.target = t}
  IN /\ Owners # {}
     /\ new # old => /\ \E v \in Owners : HandsOver(v, t)
                     /\ \E v \in events : HandsOver(v, t) /\ NamedBy(v, new)

\* A committed transaction changes the code or the authority of a program held by
\* a record only with an accepted proof that names that program, of the record's
\* owner, and gives the authority away only by hand-overs, of which the last names
\* the holder (a record that is named may hand over once more); it changes a
\* program held by a wallet only if the wallet called the loader.
AuthorityRespected ==
  [][\A t \in Targets :
       \/ stored'.code[t] = stored.code[t] /\ stored'.upgrader[t] = stored.upgrader[t]
       \/ \E w \in Wallets : stored.upgrader[t] = w /\ LoaderCalledBy(w)
       \/ AuthorizedChange(NewEvents, t, stored.upgrader[t], stored'.upgrader[t])]_stored

\* Once a buffer belongs to the record its content is fixed: an upgrade signed from
\* then on deploys the image the buffer held when the device signed.
SignedImageDeployed ==
  \A i \in DOMAIN actions :
    actions[i].op = "execute_upgrade" =>
      \A s \in signedBuffer :
        /\ s.intent = log[i].intent
        /\ s.buffer.authority = Pda(actions[i].owner, actions[i].target)
        => s.buffer.code = actions[i].code

=============================================================================
