---------------------------- MODULE ClientData -----------------------------
(***************************************************************************)
(* The data the programs and their clients describe twice: types, events   *)
(* and errors of the programs against those of the IDLs, the bytes of the  *)
(* registry against the clients that walk through them, policies against   *)
(* the SDK's two mirrors of them, and what a user is told of an error.     *)
(*                                                                         *)
(* Names are compared without their case.  Account discriminators are      *)
(* hashes of the account's name and stand here as that name.               *)
(***************************************************************************)
EXTENDS Integers, Sequences, SequencesExt

-----------------------------------------------------------------------------

(* The programs.                                                           *)

KeyKind         == <<"secp256r1Passkey", "ed25519">>
PasskeyEntry    == <<<<"keyKind", "KeyKind">>, <<"pubkeyBytes", "bytes">>,
                     <<"credentialId", "bytes">>>>
PasskeyRegistry == <<<<"owner", "pubkey">>, <<"nonce", "u64">>, <<"keys", "PasskeyEntry">>>>
Policy          == <<<<"require">>, <<"notBefore", "u64">>, <<"notAfter", "u64">>,
                     <<"limit", "u8", "u64">>>>
ProofVerified   == <<<<"owner", "pubkey">>, <<"policy", "string">>, <<"target", "pubkey">>,
                     <<"nonce", "u64">>, <<"expiry", "i64">>>>
GuardError      == <<"MissingProof", "ProofExpired", "PayloadMismatch", "WrongSigner",
                     "InvalidProof", "NonceOverflow", "PolicyMismatch", "Unauthorized",
                     "InvalidTreasury", "MaxKeysReached", "LastKeyCannotBeRemoved",
                     "CredentialNotFound", "RegistryRequired">>
AuthorityRecord    == <<<<"owner", "pubkey">>, <<"target", "pubkey">>, <<"bump", "u8">>>>
UpgradeExecuted    == <<<<"owner", "pubkey">>, <<"program", "pubkey">>>>
AuthorityReclaimed == <<<<"owner", "pubkey">>, <<"target", "pubkey">>,
                        <<"newAuthority", "pubkey">>>>
AuthorityError     == <<"TargetMismatch">>
VaultError         == <<"Unauthorized", "ZeroAmount", "InsufficientFunds", "LabelTooLong">>

(* The IDLs; the authority's repeats the types of the registry it reads.   *)

IdlGuardAccounts == <<"PasskeyRegistry", "TranaConfig">>
IdlGuardEvents   == <<"ProofVerified">>
IdlGuardErrors   == <<"MissingProof", "ProofExpired", "PayloadMismatch", "WrongSigner",
                      "InvalidProof", "NonceOverflow", "PolicyMismatch", "Unauthorized",
                      "InvalidTreasury", "MaxKeysReached", "LastKeyCannotBeRemoved",
                      "CredentialNotFound", "RegistryRequired">>
IdlPasskeyEntry  == <<<<"keyKind", "KeyKind">>, <<"pubkeyBytes", "bytes">>,
                      <<"credentialId", "bytes">>>>
IdlPolicy        == <<<<"require">>, <<"notBefore", "u64">>, <<"notAfter", "u64">>,
                      <<"limit", "u8", "u64">>>>
IdlProofVerified == <<<<"owner", "pubkey">>, <<"policy", "string">>, <<"target", "pubkey">>,
                      <<"nonce", "u64">>, <<"expiry", "i64">>>>
IdlAuthorityAccounts  == <<"AuthorityRecord", "PasskeyRegistry">>
IdlAuthorityEvents    == <<"AuthorityReclaimed", "UpgradeExecuted">>
IdlAuthorityErrors    == <<"TargetMismatch">>
IdlAuthorityReclaimed == <<<<"owner", "pubkey">>, <<"target", "pubkey">>,
                           <<"newAuthority", "pubkey">>>>
IdlAuthorityRecord    == <<<<"owner", "pubkey">>, <<"target", "pubkey">>, <<"bump", "u8">>>>
IdlAuthorityKeyKind   == <<"secp256r1Passkey", "ed25519">>
IdlAuthorityEntry     == <<<<"keyKind", "KeyKind">>, <<"pubkeyBytes", "bytes">>,
                           <<"credentialId", "bytes">>>>
IdlAuthorityRegistry  == <<<<"owner", "pubkey">>, <<"nonce", "u64">>,
                           <<"keys", "PasskeyEntry">>>>
IdlUpgradeExecuted    == <<<<"owner", "pubkey">>, <<"program", "pubkey">>>>

\* A client that encodes and decodes with the IDLs means what the programs mean.
ASSUME IdlsAreCurrent ==
  /\ IdlPasskeyEntry = PasskeyEntry /\ IdlAuthorityEntry = PasskeyEntry
  /\ IdlAuthorityKeyKind = KeyKind /\ IdlAuthorityRegistry = PasskeyRegistry
  /\ IdlPolicy = Policy /\ IdlProofVerified = ProofVerified
  /\ IdlAuthorityRecord = AuthorityRecord
  /\ IdlAuthorityReclaimed = AuthorityReclaimed /\ IdlUpgradeExecuted = UpgradeExecuted
  /\ IdlGuardErrors = GuardError /\ IdlAuthorityErrors = AuthorityError
  /\ {"PasskeyRegistry", "TranaConfig"} = ToSet(IdlGuardAccounts)
  /\ {"AuthorityRecord"} = ToSet(IdlAuthorityAccounts) \ ToSet(IdlGuardAccounts)
  /\ ToSet(IdlGuardEvents) = {"ProofVerified"}
  /\ ToSet(IdlAuthorityEvents) = {"AuthorityReclaimed", "UpgradeExecuted"}

-----------------------------------------------------------------------------
(* The bytes of a registry and the clients that read them.                 *)

\* n bytes, the lowest first, of a number below 2^24.
Little(v, n) == [i \in 1..n |-> IF i > 3 THEN 0 ELSE (v \div 256^(i - 1)) % 256]
\* The four bytes at an offset that counts from 0, of a number below 2^31.
U32(data, at) == data[at + 1] + 256 * (data[at + 2] + 256 * (data[at + 3] + 256 * data[at + 4]))

Slice(data, from, to) == SubSeq(data, from + 1, IF to < Len(data) THEN to ELSE Len(data))

EntryBytes(e) ==
  <<0>> \o Little(Len(e.pubkey), 4) \o e.pubkey \o Little(Len(e.credential), 4) \o e.credential

Serialized(nonce, keys) ==
  [i \in 1..40 |-> 7] \o Little(nonce, 8) \o Little(Len(keys), 4)
    \o FlattenSeq([i \in DOMAIN keys |-> EntryBytes(keys[i])])

\* An account keeps its size: what is shorter than before leaves old bytes behind it.
Rewritten(old, new) == new \o SubSeq(old, Len(new) + 1, Len(old))

\* One entry at an offset, and where the next one starts.
ReadEntry(data, at) ==
  LET pkLen  == U32(data, at + 1)
      cidAt  == at + 5 + pkLen
      cidLen == U32(data, cidAt)
  IN [entry |-> [pubkey |-> Slice(data, at + 5, cidAt),
                 credential |-> Slice(data, cidAt + 4, cidAt + 4 + cidLen)],
      next  |-> cidAt + 4 + cidLen]

FetchAllPasskeys(data) ==
  LET step(r, i) == LET e == ReadEntry(data, r.next)
                    IN [entries |-> Append(r.entries, e.entry), next |-> e.next]
  IN FoldLeft(step, [entries |-> <<>>, next |-> 8 + 32 + 8 + 4],
              [i \in 1..U32(data, 8 + 32 + 8) |-> i]).entries

FetchFirstPasskey(data) == ReadEntry(data, 8 + 32 + 8 + 4).entry

\* The React package expects one key behind the owner and the nonce at the end.
ParseRegistryAccount(data) ==
  LET pkLen   == U32(data, 8 + 32 + 1)
      credAt  == 8 + 32 + 1 + 4 + pkLen
      credLen == U32(data, credAt)
      nonceAt == credAt + 4 + credLen + 1
  IN IF nonceAt + 8 > Len(data) THEN "RangeError" ELSE "read"

SampleKeys == {[pubkey |-> [i \in 1..33 |-> p], credential |-> [i \in 1..n |-> p]] :
                 p \in {0, 3}, n \in {0, 16}}
KeyLists   == UNION {[1..n -> SampleKeys] : n \in 1..2}
Blank      == [i \in 1..300 |-> 0]

\* Whatever keys were stored before, the page's readers find exactly those stored
\* now, and the React package's reader throws (for nonces below 256; above, its
\* lengths are other bytes of the nonce).
ASSUME ReadersFindTheKeys ==
  \A before, now \in KeyLists : \A nonce \in {0, 1, 255} :
    LET data == Rewritten(Rewritten(Blank, Serialized(0, before)), Serialized(nonce, now))
    IN /\ FetchAllPasskeys(data) = now
       /\ FetchFirstPasskey(data) = now[1]
       /\ ParseRegistryAccount(data) = "RangeError"

-----------------------------------------------------------------------------
(* Policies: the guard's condition and names, and the SDK's mirrors.       *)

Identifier == [require   |-> "trana.require",    notBefore |-> "trana.not_before",
               notAfter  |-> "trana.not_after",  limit     |-> "trana.limit"]

Demands(policy, amount, slot) ==
  \/ policy.type = "require"
  \/ policy.type = "notBefore" /\ slot < policy.bound
  \/ policy.type = "notAfter"  /\ slot > policy.bound
  \/ policy.type = "limit"     /\ amount >= policy.bound

PolicyId ==
  [require |-> "trana.require", notBefore |-> "trana.not_before",
   notAfter |-> "trana.not_after", limit |-> "trana.limit"]
PolicyString ==
  [require |-> "trana.require", limit |-> "trana.limit",
   notBefore |-> "trana.not_before", notAfter |-> "trana.not_after"]

\* A context leaves out what it does not know: the empty set, or a set of one number.
EvaluatePolicy(policy, ctx) ==
  CASE policy.type = "require"   -> TRUE
    [] policy.type = "limit"     -> \E amount \in ctx.amount : amount >= policy.bound
    [] policy.type = "notBefore" -> \E slot \in ctx.slot : slot < policy.bound
    [] policy.type = "notAfter"  -> \E slot \in ctx.slot : slot > policy.bound

CheckRequirement(policy, ctx) ==
  LET required == EvaluatePolicy(policy, ctx)
  IN [required |-> required, policy |-> IF required THEN {policy} ELSE {}]

PolicyValues == [type : DOMAIN Identifier, bound : 0..2]

\* The mirrors name and judge a policy as the guard does, if they are told both
\* the amount and the slot; told less, they may miss a demand and never make one up.
ASSUME MirrorsAgree ==
  /\ PolicyId = Identifier /\ PolicyString = Identifier
  /\ {v[1] : v \in ToSet(Policy)} = DOMAIN Identifier
  /\ \A p \in PolicyValues, amount, slot \in 0..3 :
       LET known == CheckRequirement(p, [amount |-> {amount}, slot |-> {slot}])
       IN /\ known.required = Demands(p, amount, slot)
          /\ \A ctx \in [amount : {{}, {amount}}, slot : {{}, {slot}}] :
               CheckRequirement(p, ctx).required => known.required

-----------------------------------------------------------------------------
(* The detector's reading of a simulation's log.                           *)

\* Enforcements of a transaction without proofs: those that demand nothing log
\* nothing, the first that demands one names its policy and fails.
SimulationLogs(enforced) ==
  LET demands == SelectSeq(enforced, LAMBDA e : e.fires)
  IN IF demands = <<>> THEN <<>>
     ELSE <<[line |-> "require", policy |-> demands[1].policy], [line |-> "missing"]>>

HasSecp256r1Ix(programs) == \E i \in DOMAIN programs : programs[i] = "secp256r1"

ParsePolicyFromLogs(logs) ==
  LET at == {i \in DOMAIN logs : logs[i].line = "require"}
  IN IF at = {} THEN "none" ELSE logs[CHOOSE i \in at : \A j \in at : i <= j].policy

Enforcements == [fires : BOOLEAN, policy : {"trana.require", "trana.limit", "trana.not_before"}]

\* The policy a passkey is asked to sign for is that of the enforcement that failed.
ASSUME DetectorNamesTheDemand ==
  /\ ~HasSecp256r1Ix(<<"guard", "system">>) /\ HasSecp256r1Ix(<<"system", "secp256r1", "guard">>)
  /\ \A e \in UNION {[1..n -> Enforcements] : n \in 0..3} :
       LET failing == {i \in DOMAIN e : e[i].fires}
       IN ParsePolicyFromLogs(SimulationLogs(e)) =
            IF failing = {} THEN "none"
            ELSE e[CHOOSE i \in failing : \A j \in failing : i <= j].policy

-----------------------------------------------------------------------------
(* What a user is told of an error.                                        *)

\* A program's codes start at 6000; nothing in a code says whose it is.
Code(errors, name) == 6000 + (CHOOSE i \in DOMAIN errors : errors[i] = name) - 1

CodeToMsg(code) ==
  IF code \in 6000..6012
  THEN <<"MissingProof", "ProofExpired", "PayloadMismatch", "WrongSigner", "InvalidProof",
         "NonceOverflow", "PolicyMismatch", "Unauthorized", "InvalidTreasury",
         "MaxKeysReached", "LastKeyCannotBeRemoved", "CredentialNotFound",
         "RegistryRequired">>[code - 5999]
  ELSE "Program error"

\* An error carries the log lines a wallet wrapped, a code in its text, both or
\* neither.  Anchor's own line comes first, then the code in the log, then the text.
ParseErrMsg(error) ==
  LET named == {l \in error.logs : l.line = "message"}
      coded == {l \in error.logs : l.line = "code"}
  IN CASE named # {} -> (CHOOSE l \in named : TRUE).name
       [] named = {} /\ coded # {} -> CodeToMsg((CHOOSE l \in coded : TRUE).code)
       [] named = {} /\ coded = {} /\ error.text # {} -> CodeToMsg(CHOOSE c \in error.text : TRUE)
       [] OTHER -> "text"

\* The registration and approval modals look for names only.
TRANA_GUARD_ERRORS == {"ProofExpired", "PayloadMismatch", "WrongSigner", "MissingProof",
                       "PolicyMismatch", "RegistryDisabled"}
HumanizeError(name) == IF name \in TRANA_GUARD_ERRORS THEN name ELSE "text"

Deliveries(errors, name) ==
  LET message == [line |-> "message", name |-> name]
      code    == [line |-> "code", code |-> Code(errors, name)]
  IN [logs : {{}, {code}, {message, code}}, text : {{Code(errors, name)}}]

\* The React package's classification: the first marker in the logs, or else the
\* first in the message.
MARKERS == <<"TRANA_NO_REGISTRY", "TRANA_MISSING_PROOF">>
Kinds(lines) == SelectSeq(lines, LAMBDA line : line \in ToSet(MARKERS))
ParseTranaError(error) ==
  LET found == Kinds(error.logs) \o Kinds(error.message)
  IN IF found = <<>> THEN "none" ELSE found[1]

\* The markers the guard logs; the package waits for one that no program writes.
GuardMarkers == {"TRANA_MISSING_PROOF"}

\* The page names every error of the guard however it arrives.  It takes a code of
\* another program for the guard's: a balance too low is told as a tampered payload.
\* The modals still wait for an error the guard no longer has, the classification for
\* a marker it never writes.
ASSUME ErrorsAreNamed ==
  /\ \A name \in ToSet(GuardError) : \A e \in Deliveries(GuardError, name) : ParseErrMsg(e) = name
  /\ CodeToMsg(Code(VaultError, "InsufficientFunds")) = "PayloadMismatch"
  /\ CodeToMsg(Code(AuthorityError, "TargetMismatch")) = "MissingProof"
  /\ {n \in TRANA_GUARD_ERRORS : HumanizeError(n) \notin ToSet(GuardError)} = {"RegistryDisabled"}
  /\ \A marker \in ToSet(MARKERS) :
       LET inLogs == [logs |-> <<"other", marker>>, message |-> <<"other">>]
           inText == [logs |-> <<"other">>, message |-> <<marker>>]
       IN ParseTranaError(inLogs) = marker /\ ParseTranaError(inText) = marker
  /\ ToSet(MARKERS) \ GuardMarkers = {"TRANA_NO_REGISTRY"}
=============================================================================
