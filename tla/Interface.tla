----------------------------- MODULE Interface -----------------------------
(***************************************************************************)
(* The contract between the programs and their clients: the instructions   *)
(* of the IDLs (arguments, accounts, their order and flags), the layout of *)
(* the accounts clients read at fixed offsets, and every instruction that  *)
(* the scripts and the landing page put together by hand.                  *)
(*                                                                         *)
(* Bytes are abstracted to what both sides must agree on: the instruction  *)
(* a discriminator names, the types of the arguments in their order, and   *)
(* the account meant for each position.                                    *)
(***************************************************************************)
EXTENDS Integers, Sequences, SequencesExt

ro(a)     == [key |-> a, writable |-> FALSE, signer |-> FALSE]
mut(a)    == [key |-> a, writable |-> TRUE,  signer |-> FALSE]
signer(a) == [key |-> a, writable |-> FALSE, signer |-> TRUE]
payer(a)  == [key |-> a, writable |-> TRUE,  signer |-> TRUE]

Instruction(program, name, accounts, args) ==
  [program |-> program, name |-> name, accounts |-> accounts, args |-> args]

\* KeyKind is a one-byte enum; a policy is its tag and one value.
KeyArgs    == <<"keyKind", "bytes", "bytes">>
ConfigArgs == <<"u64", "u64", "pubkey">>
ProofArgs  == <<"u8", "i64", "string", "bytes", "bytes">>

-----------------------------------------------------------------------------
(* trana_guard.                                                            *)

AddPasskeyIdl == Instruction("guard", "add_passkey",
  <<mut("registry"), payer("owner"), ro("system"), ro("config"),
    mut("treasury"), ro("sysvar")>>, KeyArgs)

EnforceIdl == Instruction("guard", "enforce",
  <<mut("registry"), signer("owner"), ro("sysvar")>>, <<"policy">>)

InitConfigIdl == Instruction("guard", "init_config",
  <<mut("config"), payer("owner"), ro("system")>>, ConfigArgs)

RecordProofIdl == Instruction("guard", "record_proof", <<ro("sysvar")>>, ProofArgs)

RecoverRegistryIdl == Instruction("guard", "recover_registry",
  <<mut("registry"), payer("owner"), ro("system")>>, KeyArgs)

RegisterPasskeyIdl == Instruction("guard", "register_passkey",
  <<mut("registry"), payer("owner"), ro("system"), ro("config"), mut("treasury")>>,
  KeyArgs)

RemovePasskeyIdl == Instruction("guard", "remove_passkey",
  <<mut("registry"), signer("owner"), ro("sysvar")>>, <<"bytes">>)

UpdateConfigIdl == Instruction("guard", "update_config",
  <<mut("config"), signer("owner")>>, ConfigArgs)

(* trana_authority.                                                        *)

ExecuteUpgradeIdl == Instruction("authority", "execute_upgrade",
  <<ro("record"), signer("owner"), mut("target"), mut("programData"),
    mut("buffer"), mut("spill"), ro("rent"), ro("clock"), ro("loader"),
    ro("guard"), mut("registry"), ro("sysvar")>>, <<>>)

ReclaimAuthorityIdl == Instruction("authority", "reclaim_authority",
  <<mut("record"), payer("owner"), mut("target"), mut("programData"),
    ro("newAuthority"), ro("loader"), ro("guard"), mut("registry"),
    ro("sysvar"), ro("system")>>, <<"pubkey">>)

RegisterIdl == Instruction("authority", "register",
  <<mut("record"), payer("owner"), ro("target"), ro("system")>>, <<>>)

(* trana_test_vault.                                                       *)

InitializePoolIdl == Instruction("vault", "initialize_pool",
  <<mut("pool"), payer("owner"), ro("system")>>, <<"poolKind", "string">>)

DepositIdl == Instruction("vault", "deposit",
  <<mut("pool"), mut("deposit"), payer("owner"), ro("system")>>, <<"u64">>)

WithdrawIdl == Instruction("vault", "withdraw",
  <<mut("pool"), mut("deposit"), signer("owner"), mut("destination"),
    ro("guard"), mut("registry"), ro("sysvar")>>, <<"u64">>)

Idl == {AddPasskeyIdl, EnforceIdl, InitConfigIdl, RecordProofIdl,
        RecoverRegistryIdl, RegisterPasskeyIdl, RemovePasskeyIdl,
        UpdateConfigIdl, ExecuteUpgradeIdl, ReclaimAuthorityIdl, RegisterIdl,
        InitializePoolIdl, DepositIdl, WithdrawIdl}

\* Positions that accept one address only: programs, sysvars and derived accounts.
Pinned == {"system", "sysvar", "rent", "clock", "loader", "guard",
           "config", "registry", "record", "pool", "deposit"}

(***************************************************************************)
(* An instruction reaches its handler if the program has the instruction,  *)
(* the arguments decode, and every position holds an account it accepts.   *)
(* Accounts after the last position are ignored.  The fee payer, who is    *)
(* the owner in every client, is a writable signer of the whole message.   *)
(***************************************************************************)
Granted(account) ==
  IF account.key = "owner" THEN payer("owner") ELSE account

Fits(given, wanted) ==
  /\ wanted.key \in Pinned => given.key = wanted.key
  /\ wanted.writable => Granted(given).writable
  /\ wanted.signer => Granted(given).signer

Dispatched(ix) ==
  \E known \in Idl :
    /\ ix.program = known.program
    /\ ix.name = known.name
    /\ ix.args = known.args
    /\ Len(ix.accounts) >= Len(known.accounts)
    /\ \A i \in DOMAIN known.accounts : Fits(ix.accounts[i], known.accounts[i])

-----------------------------------------------------------------------------
(* Account layouts, field by field with its width in bytes.  Everything    *)
(* behind the variable-length list of keys has no fixed offset.            *)

RegistryLayout ==
  <<<<"discriminator", 8>>, <<"owner", 32>>, <<"nonce", 8>>, <<"keys", 4>>>>
ConfigLayout ==
  <<<<"discriminator", 8>>, <<"authority", 32>>, <<"treasury", 32>>,
    <<"registerFee", 8>>, <<"addKeyFee", 8>>>>
DepositLayout ==
  <<<<"discriminator", 8>>, <<"pool", 32>>, <<"user", 32>>, <<"balance", 8>>,
    <<"lastWithdrawSlot", 8>>, <<"windowWithdrawn", 8>>,
    <<"lastWithdrawAt", 8>>, <<"bump", 1>>>>

\* Where each field starts, behind the widths of those before it.
Offsets(layout) ==
  LET at[i \in DOMAIN layout] == IF i = 1 THEN 0 ELSE at[i - 1] + layout[i - 1][2]
  IN at

\* The field that starts at an offset; a reader that misses every field reads garbage.
FieldAt(layout, offset) ==
  IF \E i \in DOMAIN layout : Offsets(layout)[i] = offset
  THEN layout[CHOOSE i \in DOMAIN layout : Offsets(layout)[i] = offset][1]
  ELSE "garbage"

\* Where each client looks.
ScriptNonce    == FieldAt(RegistryLayout, 40)
ScriptKeyCount == FieldAt(RegistryLayout, 8 + 32 + 8)
ScriptTreasury == FieldAt(ConfigLayout, 40)
PageTreasury   == FieldAt(ConfigLayout, 40)
PageNonce      == FieldAt(RegistryLayout, 40)
PageDeposit    ==
  [balance |-> FieldAt(DepositLayout, 8 + 32 + 32),
   lastWithdrawSlot |-> FieldAt(DepositLayout, 8 + 32 + 32 + 8),
   windowWithdrawn |-> FieldAt(DepositLayout, 8 + 32 + 32 + 16),
   lastWithdrawAt |-> FieldAt(DepositLayout, 8 + 32 + 32 + 24)]

-----------------------------------------------------------------------------
(* What a passkey signs: the fields of the intent, in order.               *)

IntentLayout ==
  <<"version", "domain", "wallet", "guardId", "targetId", "policy",
    "discriminator", "accountsHash", "paramsHash", "nonce", "expiry">>

\* The precompile's header of two bytes and seven 16-bit offsets, then its data.
SecpLayout ==
  <<<<"count", 1>>, <<"padding", 1>>, <<"offsets", 14>>, <<"pubkey", 33>>,
    <<"signature", 64>>, <<"message", 37 + 32>>>>

\* A proof: the intent's fields, the accounts hashed into it, where the
\* precompile is told to look, and the arguments of record_proof.
Verifiable(proof, ix) ==
  /\ proof.intent = IntentLayout
  /\ proof.hashed = [i \in DOMAIN ix.accounts |-> ix.accounts[i].key]
  /\ FieldAt(SecpLayout, proof.at.pubkeyOff) = "pubkey"
  /\ FieldAt(SecpLayout, proof.at.sigOff) = "signature"
  /\ FieldAt(SecpLayout, proof.at.msgOff) = "message"
  /\ Dispatched(proof.record)

RecordProofIx == Instruction("guard", "record_proof", <<ro("sysvar")>>,
  <<"u8", "i64", "string", "bytes", "bytes">>)

\* The proof of the SDK: the accounts are taken from the instruction itself.
HashIntent ==
  <<"version", "domain", "wallet", "guardId", "targetId", "policy",
    "discriminator", "accountsHash", "paramsHash", "nonce", "expiry">>
IntentFromInstruction(ix) == [i \in DOMAIN ix.accounts |-> ix.accounts[i].key]
SecpOffsets == [pubkeyOff |-> 16, sigOff |-> 49, msgOff |-> 113]

SdkProof(ix) ==
  [intent |-> HashIntent, hashed |-> IntentFromInstruction(ix),
   at |-> SecpOffsets, record |-> RecordProofIx]

\* The proof the scripts assemble, each with its own copy of the code.
CliProof(hashed) ==
  [intent |-> <<"version", "domain", "wallet", "guardId", "targetId", "policy",
                "discriminator", "accountsHash", "paramsHash", "nonce", "expiry">>,
   hashed |-> hashed,
   at |-> [pubkeyOff |-> 16, sigOff |-> 49, msgOff |-> 113],
   record |-> RecordProofIx]

-----------------------------------------------------------------------------
(* What the scripts build.                                                 *)

RegisterScriptIx == Instruction("guard", "register_passkey",
  <<mut("registry"), payer("owner"), ro("system"), ro("config"), mut("treasury")>>,
  <<"keyKind", "bytes", "bytes">>)

AddScriptIx == Instruction("guard", "add_passkey",
  <<mut("registry"), payer("owner"), ro("system"), ro("config"),
    mut("treasury"), ro("sysvar")>>, <<"keyKind", "bytes", "bytes">>)
AddScriptProof ==
  CliProof(<<"registry", "owner", "system", "config", "treasury", "sysvar">>)

RemoveScriptIx == Instruction("guard", "remove_passkey",
  <<mut("registry"), signer("owner"), ro("sysvar")>>, <<"bytes">>)
RemoveScriptProof == CliProof(<<"registry", "owner", "sysvar">>)

RecoverScriptIx == Instruction("guard", "recover_registry",
  <<mut("registry"), payer("owner"), ro("system")>>, <<"keyKind", "bytes", "bytes">>)

InitConfigScriptIx == Instruction("guard", "init_config",
  <<mut("config"), payer("owner"), ro("system")>>, <<"u64", "u64", "pubkey">>)

InitVaultScriptIx == Instruction("vault", "initialize_pool",
  <<mut("pool"), payer("owner"), ro("system")>>, <<"poolKind", "string">>)

SecureScriptIx == Instruction("authority", "register",
  <<mut("record"), payer("owner"), ro("target"), ro("system")>>, <<>>)

\* The loader stands last here; the program expects it before the guard.
UpgradeScriptIx == Instruction("authority", "execute_upgrade",
  <<ro("record"), signer("owner"), mut("target"), mut("programData"),
    mut("buffer"), mut("owner"), ro("rent"), ro("clock"), ro("guard"),
    mut("registry"), ro("sysvar"), ro("loader")>>, <<>>)
UpgradeScriptProof ==
  CliProof(<<"record", "owner", "target", "programData", "buffer", "owner",
             "rent", "clock", "guard", "registry", "sysvar", "loader">>)

\* The target is not writable, the loader stands last and the system program is missing.
ReclaimScriptIx == Instruction("authority", "reclaim_authority",
  <<mut("record"), payer("owner"), ro("target"), mut("programData"),
    ro("newAuthority"), ro("guard"), mut("registry"), ro("sysvar"),
    ro("loader")>>, <<"pubkey">>)
ReclaimScriptProof ==
  CliProof(<<"record", "owner", "target", "programData", "newAuthority",
             "guard", "registry", "sysvar", "loader">>)

-----------------------------------------------------------------------------
(* What the landing page builds.                                           *)

DepositPageIx == Instruction("vault", "deposit",
  <<mut("pool"), mut("deposit"), payer("owner"), ro("system")>>, <<"u64">>)

WithdrawPageIx == Instruction("vault", "withdraw",
  <<mut("pool"), mut("deposit"), signer("owner"), mut("destination"),
    ro("guard"), mut("registry"), ro("sysvar")>>, <<"u64">>)

RegisterPageIx == Instruction("guard", "register_passkey",
  <<mut("registry"), payer("owner"), ro("system"), ro("config"), mut("treasury")>>,
  <<"keyKind", "bytes", "bytes">>)

AddPageIx == Instruction("guard", "add_passkey",
  <<mut("registry"), payer("owner"), ro("system"), ro("config"),
    mut("treasury"), ro("sysvar")>>, <<"keyKind", "bytes", "bytes">>)

\* The authority client lets Anchor build from the IDL, so the accounts and
\* arguments are the IDL's; the page names the owner as spill.
RegisterClientIx == RegisterIdl
ExecuteUpgradeClientIx ==
  [ExecuteUpgradeIdl EXCEPT !.accounts[6] = mut("owner")]
ReclaimClientIx == ReclaimAuthorityIdl

-----------------------------------------------------------------------------
(* What the React package builds, with copies of its own.                  *)

ReactHashIntent ==
  <<"version", "domain", "wallet", "guardId", "targetId", "policy",
    "discriminator", "accountsHash", "paramsHash", "nonce", "expiry">>
ReactIntentFromInstruction(ix) == [i \in DOMAIN ix.accounts |-> ix.accounts[i].key]
ReactSecpOffsets == [pubkeyOff |-> 16, sigOff |-> 49, msgOff |-> 113]
ReactRecordProofIx == Instruction("guard", "record_proof", <<ro("sysvar")>>,
  <<"u8", "i64", "string", "bytes", "bytes">>)

ReactProof(ix) ==
  [intent |-> ReactHashIntent, hashed |-> ReactIntentFromInstruction(ix),
   at |-> ReactSecpOffsets, record |-> ReactRecordProofIx]

\* The registration modal's instruction: the accounts and arguments of
\* register_passkey under the discriminator of an older name.
ModalRegisterIx == Instruction("guard", "register_two_fa",
  <<mut("registry"), payer("owner"), ro("system"), ro("config"), mut("treasury")>>,
  <<"keyKind", "bytes", "bytes">>)
=============================================================================
