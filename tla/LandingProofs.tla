---------------------------- MODULE LandingProofs ----------------------------
(***************************************************************************)
(* Theorems about the landing app: the try page for any number of handlers *)
(* under way at once, and the illustrations for any number of effects.     *)
(***************************************************************************)
EXTENDS LandingApp, FiniteSetTheorems, SequenceTheorems, TLAPS

-----------------------------------------------------------------------------
(* What the page reads and encodes.                                        *)

LEMMA RegistryOffsets ==
  /\ DOMAIN RegistryLayout = 1..4
  /\ Offsets(RegistryLayout)[1] = 0 /\ Offsets(RegistryLayout)[2] = 8
  /\ Offsets(RegistryLayout)[3] = 40 /\ Offsets(RegistryLayout)[4] = 48
<1> DEFINE P(f) == f = [i \in DOMAIN RegistryLayout |->
                         IF i = 1 THEN 0 ELSE f[i - 1] + RegistryLayout[i - 1][2]]
           g == [i \in 1..4 |-> IF i = 1 THEN 0 ELSE IF i = 2 THEN 8 ELSE
                                IF i = 3 THEN 40 ELSE 48]
<1>1. /\ DOMAIN RegistryLayout = 1..4
      /\ RegistryLayout[1][2] = 8 /\ RegistryLayout[2][2] = 32
      /\ RegistryLayout[3][2] = 8
  BY DEF RegistryLayout
<1>2. P(g)
  <2>1. \A i \in 1..4 : g[i] = IF i = 1 THEN 0 ELSE g[i - 1] + RegistryLayout[i - 1][2]
    BY <1>1
  <2> QED
    BY <1>1, <2>1
<1>3. Offsets(RegistryLayout) = CHOOSE f : P(f)
  BY DEF Offsets
<1>4. P(Offsets(RegistryLayout))
  BY <1>2, <1>3
<1> HIDE DEF g
<1> QED
  BY <1>1, <1>4

LEMMA PageReadsNonce == PageNonce = "nonce"
<1>1. \A i \in DOMAIN RegistryLayout : Offsets(RegistryLayout)[i] = 40 <=> i = 3
  BY RegistryOffsets
<1>2. FieldAt(RegistryLayout, 40) = RegistryLayout[3][1]
  BY <1>1, RegistryOffsets DEF FieldAt
<1>3. RegistryLayout[3][1] = "nonce"
  BY DEF RegistryLayout
<1> QED
  BY <1>2, <1>3 DEF PageNonce

\* A device's signature arrives at the precompile in the form it takes.
LEMMA SignaturesGood == SignatureOutcomes = {TRUE}
<1>1. \A rs \in Signatures : PrecompileAccepts(NormalizeLowS(DerToCompact(Der(rs))), rs)
  BY EncodersAgree, ZenonT(40)
<1>2. \A rs \in Signatures :
        PrecompileAccepts(NormalizeLowS(DerToCompact(Der(rs))), rs) \in BOOLEAN
  BY DEF PrecompileAccepts
<1>3. [r |-> 1, s |-> 1] \in Signatures
  BY DEF Signatures, Edges
<1> QED
  BY <1>1, <1>2, <1>3 DEF SignatureOutcomes

LEMMA PrecompileOffsets ==
  /\ DOMAIN SecpLayout = 1..6
  /\ Offsets(SecpLayout)[1] = 0 /\ Offsets(SecpLayout)[2] = 1
  /\ Offsets(SecpLayout)[3] = 2 /\ Offsets(SecpLayout)[4] = 16
  /\ Offsets(SecpLayout)[5] = 49 /\ Offsets(SecpLayout)[6] = 113
<1> DEFINE P(f) == f = [i \in DOMAIN SecpLayout |->
                         IF i = 1 THEN 0 ELSE f[i - 1] + SecpLayout[i - 1][2]]
           g == [i \in 1..6 |-> IF i = 1 THEN 0 ELSE IF i = 2 THEN 1 ELSE
                                IF i = 3 THEN 2 ELSE IF i = 4 THEN 16 ELSE
                                IF i = 5 THEN 49 ELSE 113]
<1>1. /\ DOMAIN SecpLayout = 1..6
      /\ SecpLayout[1][2] = 1 /\ SecpLayout[2][2] = 1 /\ SecpLayout[3][2] = 14
      /\ SecpLayout[4][2] = 33 /\ SecpLayout[5][2] = 64
  BY DEF SecpLayout
<1>2. P(g)
  <2>1. \A i \in 1..6 : g[i] = IF i = 1 THEN 0 ELSE g[i - 1] + SecpLayout[i - 1][2]
    BY <1>1
  <2> QED
    BY <1>1, <2>1
<1>3. Offsets(SecpLayout) = CHOOSE f : P(f)
  BY DEF Offsets
<1>4. P(Offsets(SecpLayout))
  BY <1>2, <1>3
<1> HIDE DEF g
<1> QED
  BY <1>1, <1>4

LEMMA PrecompileFields ==
  /\ FieldAt(SecpLayout, 16) = "pubkey"
  /\ FieldAt(SecpLayout, 49) = "signature"
  /\ FieldAt(SecpLayout, 113) = "message"
<1>1. /\ \A i \in DOMAIN SecpLayout : Offsets(SecpLayout)[i] = 16 <=> i = 4
      /\ \A i \in DOMAIN SecpLayout : Offsets(SecpLayout)[i] = 49 <=> i = 5
      /\ \A i \in DOMAIN SecpLayout : Offsets(SecpLayout)[i] = 113 <=> i = 6
  BY PrecompileOffsets
<1>2. /\ FieldAt(SecpLayout, 16) = SecpLayout[4][1]
      /\ FieldAt(SecpLayout, 49) = SecpLayout[5][1]
      /\ FieldAt(SecpLayout, 113) = SecpLayout[6][1]
  BY <1>1, PrecompileOffsets DEF FieldAt
<1>3. SecpLayout[4][1] = "pubkey" /\ SecpLayout[5][1] = "signature"
      /\ SecpLayout[6][1] = "message"
  BY DEF SecpLayout
<1> QED
  BY <1>2, <1>3

LEMMA ProofInstruction == Dispatched(RecordProofIx)
<1>1. RecordProofIx = RecordProofIdl
  BY DEF RecordProofIx, RecordProofIdl, ProofArgs
<1>2. RecordProofIdl \in Idl
  BY DEF Idl
<1>3. /\ Len(RecordProofIdl.accounts) = 1 /\ DOMAIN RecordProofIdl.accounts = 1..1
      /\ RecordProofIdl.accounts[1] = ro("sysvar")
  BY DEF RecordProofIdl, Instruction
<1>4. Fits(ro("sysvar"), ro("sysvar"))
  BY DEF Fits, ro, Granted
<1>5. \A i \in DOMAIN RecordProofIdl.accounts :
        Fits(RecordProofIdl.accounts[i], RecordProofIdl.accounts[i])
  BY <1>3, <1>4
<1>6. Len(RecordProofIdl.accounts) >= Len(RecordProofIdl.accounts)
  BY <1>3
<1> QED
  BY <1>1, <1>2, <1>5, <1>6 DEF Dispatched

\* The guard finds in a proof of the SDK what it looks for, whatever the instruction.
LEMMA ProofsVerify ==
  ASSUME NEW ix
  PROVE  Verifiable(SdkProof(ix), ix)
<1> DEFINE p == SdkProof(ix)
<1>1. /\ p.intent = HashIntent /\ p.hashed = IntentFromInstruction(ix)
      /\ p.at.pubkeyOff = 16 /\ p.at.sigOff = 49 /\ p.at.msgOff = 113
      /\ p.record = RecordProofIx
  BY DEF SdkProof, SecpOffsets
<1>2. HashIntent = IntentLayout
  BY DEF HashIntent, IntentLayout
<1> HIDE DEF p
<1>3. Verifiable(p, ix)
  BY <1>1, <1>2, PrecompileFields, ProofInstruction DEF Verifiable, IntentFromInstruction
<1> QED
  BY <1>3 DEF p

-----------------------------------------------------------------------------
(* The accounts.                                                           *)

ChainFields == {"registered", "keys", "first", "nonce", "purse", "balance", "window",
                "cooling", "record", "authority", "version", "recent"}
RunFields == {"handler", "id", "pc", "amount", "cred", "made", "key", "nonce", "policy",
              "good", "result", "claim", "calm"}

Shape(x, fields) == x = [f \in fields |-> x[f]]

\* Keys are credentials and the first is where clients look for it, funds are
\* conserved, and the record's address is nobody's authority without a record.
ChainOk(c) ==
  /\ Shape(c, ChainFields)
  /\ c.keys \in Seq(Creds) /\ c.first \in Creds
  /\ c.keys # <<>> => c.first = c.keys[1]
  /\ c.nonce \in Nat /\ c.nonce <= MaxNonce
  /\ c.purse \in Nat /\ c.balance \in Nat /\ c.purse + c.balance <= Funds
  /\ c.authority \in {"wallet", "record"}
  /\ c.recent \in {"ok", "error", "old"}
  /\ c.authority = "record" => c.record

TxOk(tx, n) ==
  /\ tx.id \in 1..n
  /\ tx.amount \in Nat /\ tx.made \in Creds /\ tx.nonce \in 0..MaxNonce

LEMMA Numbers ==
  /\ MaxRuns \in Nat /\ MaxNonce \in Nat /\ MaxElsewhere \in Nat
  /\ Own \in Creds /\ Backup \in Creds /\ 0 \in Creds
  /\ \A n \in 0..MaxRuns : n \in Creds
  /\ Limit = 2 /\ Funds = 3
BY PageAssumption DEF Own, Backup, Creds, Limit, Funds

LEMMA KeysSet ==
  ASSUME NEW c, ChainOk(c), NEW k \in Seq(Creds)
  PROVE  LET d == WithKeys(c, k)
         IN  /\ Shape(d, ChainFields)
             /\ d.keys = k /\ d.first \in Creds /\ d.nonce = c.nonce
             /\ k # <<>> => d.first = k[1]
             /\ d.purse = c.purse /\ d.balance = c.balance /\ d.authority = c.authority
             /\ d.record = c.record /\ d.recent = c.recent
             /\ d.window = c.window /\ d.cooling = c.cooling
<1> DEFINE f == IF k = <<>> THEN c.first ELSE k[1]
           d == [c EXCEPT !.keys = k, !.registered = TRUE, !.first = f]
<1>1. f \in Creds /\ (k # <<>> => f = k[1])
  <2>1. k # <<>> => k[1] \in Creds
    OBVIOUS
  <2> QED
    BY <2>1 DEF ChainOk
<1>2. WithKeys(c, k) = d
  BY DEF WithKeys
<1> HIDE DEF f
<1>3. /\ Shape(d, ChainFields)
      /\ d.keys = k /\ d.first = f /\ d.nonce = c.nonce
      /\ d.purse = c.purse /\ d.balance = c.balance /\ d.authority = c.authority
      /\ d.record = c.record /\ d.recent = c.recent
      /\ d.window = c.window /\ d.cooling = c.cooling
  BY DEF ChainOk, Shape, ChainFields
<1> QED
  BY <1>1, <1>2, <1>3

LEMMA RecentSet ==
  ASSUME NEW c, ChainOk(c), NEW v \in {"ok", "error", "old"}
  PROVE  ChainOk([c EXCEPT !.recent = v])
<1> DEFINE d == [c EXCEPT !.recent = v]
<1>1. /\ Shape(d, ChainFields) /\ d.recent = v
      /\ d.keys = c.keys /\ d.first = c.first /\ d.nonce = c.nonce
      /\ d.purse = c.purse /\ d.balance = c.balance /\ d.authority = c.authority
      /\ d.record = c.record
  BY DEF ChainOk, Shape, ChainFields
<1> HIDE DEF d
<1>2. ChainOk(d)
  BY <1>1 DEF ChainOk
<1> QED
  BY <1>2 DEF d

\* What a transaction leaves, as long as the bound on nonces holds.
LEMMA AfterOk ==
  ASSUME NEW c, ChainOk(c), NEW n, NEW tx, TxOk(tx, n), Succeeds(c, tx),
         InBounds(After(c, tx))
  PROVE  ChainOk(After(c, tx))
<1> DEFINE m == IF Asked(c, tx) = "none" THEN c.nonce ELSE c.nonce + 1
           d == [c EXCEPT !.nonce = m]
<1>0. /\ tx.handler \in {"withdraw", "deposit", "upgrade", "add", "secure", "register"}
      /\ Permitted(c, tx)
  BY DEF Succeeds, Reaches, AllHandlers
<1>1. m \in Nat
  BY DEF ChainOk
<1>2. d = [c EXCEPT !.nonce = IF Asked(c, tx) = "none" THEN @ ELSE @ + 1]
  OBVIOUS
<1> HIDE DEF m
<1>3. /\ Shape(d, ChainFields) /\ d.nonce = m
      /\ d.keys = c.keys /\ d.first = c.first /\ d.recent = c.recent
      /\ d.purse = c.purse /\ d.balance = c.balance /\ d.authority = c.authority
      /\ d.record = c.record
  BY DEF ChainOk, Shape, ChainFields
<1> HIDE DEF d
<1>4. ASSUME NEW e, e = After(c, tx), Shape(e, ChainFields), e.keys \in Seq(Creds),
             e.first \in Creds, e.keys # <<>> => e.first = e.keys[1], e.nonce = m,
             e.purse \in Nat, e.balance \in Nat, e.purse + e.balance <= Funds,
             e.authority \in {"wallet", "record"}, e.recent = c.recent,
             e.authority = "record" => e.record
      PROVE  ChainOk(After(c, tx))
  BY <1>1, <1>4 DEF ChainOk, InBounds
<1>5. /\ c.purse \in Nat /\ c.balance \in Nat /\ c.purse + c.balance <= Funds
      /\ tx.amount \in Nat /\ Funds \in Nat
  BY Numbers DEF ChainOk, TxOk
<1>6. CASE tx.handler = "withdraw"
  <2> DEFINE p == d.window \/ tx.amount >= Limit
             e == [d EXCEPT !.balance = @ - tx.amount, !.purse = @ + tx.amount,
                            !.window = ~p, !.cooling = ~p]
  <2>1. After(c, tx) = e
    BY <1>2, <1>6 DEF After, AfterWithdrawal
  <2> HIDE DEF p
  <2>2. /\ Shape(e, ChainFields) /\ e.nonce = m
        /\ e.keys = c.keys /\ e.first = c.first /\ e.recent = c.recent
        /\ e.purse = c.purse + tx.amount /\ e.balance = c.balance - tx.amount
        /\ e.authority = c.authority /\ e.record = c.record
    BY <1>3 DEF Shape, ChainFields
  <2> HIDE DEF e
  <2>3. c.balance >= tx.amount
    BY <1>0, <1>6 DEF Permitted
  <2>4. e.purse \in Nat /\ e.balance \in Nat /\ e.purse + e.balance <= Funds
    BY <1>5, <2>2, <2>3
  <2> QED
    BY <1>4, <2>1, <2>2, <2>4 DEF ChainOk
<1>7. CASE tx.handler = "deposit"
  <2> DEFINE e == [d EXCEPT !.purse = @ - tx.amount, !.balance = @ + tx.amount]
  <2>1. After(c, tx) = e
    BY <1>2, <1>7 DEF After
  <2>2. /\ Shape(e, ChainFields) /\ e.nonce = m
        /\ e.keys = c.keys /\ e.first = c.first /\ e.recent = c.recent
        /\ e.purse = c.purse - tx.amount /\ e.balance = c.balance + tx.amount
        /\ e.authority = c.authority /\ e.record = c.record
    BY <1>3 DEF Shape, ChainFields
  <2> HIDE DEF e
  <2>3. c.purse >= tx.amount
    BY <1>0, <1>7 DEF Permitted
  <2>4. e.purse \in Nat /\ e.balance \in Nat /\ e.purse + e.balance <= Funds
    BY <1>5, <2>2, <2>3
  <2> QED
    BY <1>4, <2>1, <2>2, <2>4 DEF ChainOk
<1>8. CASE tx.handler = "upgrade"
  <2> DEFINE e == [d EXCEPT !.version = 1]
  <2>1. After(c, tx) = e
    BY <1>2, <1>8 DEF After
  <2>2. /\ Shape(e, ChainFields) /\ e.nonce = m
        /\ e.keys = c.keys /\ e.first = c.first /\ e.recent = c.recent
        /\ e.purse = c.purse /\ e.balance = c.balance
        /\ e.authority = c.authority /\ e.record = c.record
    BY <1>3 DEF Shape, ChainFields
  <2> HIDE DEF e
  <2> QED
    BY <1>4, <1>5, <2>1, <2>2 DEF ChainOk
<1>9. CASE tx.handler = "secure"
  <2> DEFINE e == [d EXCEPT !.record = TRUE, !.authority = "record"]
  <2>1. After(c, tx) = e
    BY <1>2, <1>9 DEF After, Secured
  <2>2. /\ Shape(e, ChainFields) /\ e.nonce = m
        /\ e.keys = c.keys /\ e.first = c.first /\ e.recent = c.recent
        /\ e.purse = c.purse /\ e.balance = c.balance
        /\ e.authority = "record" /\ e.record = TRUE
    BY <1>3 DEF Shape, ChainFields
  <2> HIDE DEF e
  <2> QED
    BY <1>4, <1>5, <2>1, <2>2 DEF ChainOk
<1>10. CASE tx.handler \in {"add", "register"}
  <2>1. PICK k \in Seq(Creds) : After(c, tx) = WithKeys(d, k)
    <3>1. After(c, tx) = WithKeys(d, IF tx.handler = "add" THEN Append(d.keys, tx.made)
                                                          ELSE <<tx.made>>)
      BY <1>2, <1>10 DEF After
    <3>2. Append(d.keys, tx.made) \in Seq(Creds) /\ <<tx.made>> \in Seq(Creds)
      BY <1>3 DEF ChainOk, TxOk
    <3> QED
      BY <3>1, <3>2
  <2> DEFINE f == IF k = <<>> THEN d.first ELSE k[1]
             e == [d EXCEPT !.keys = k, !.registered = TRUE, !.first = f]
  <2>2. f \in Creds /\ (k # <<>> => f = k[1])
    <3>1. k # <<>> => k[1] \in Creds
      OBVIOUS
    <3> QED
      BY <1>3, <3>1 DEF ChainOk
  <2>3. After(c, tx) = e
    BY <2>1 DEF WithKeys
  <2> HIDE DEF f
  <2>4. /\ Shape(e, ChainFields) /\ e.nonce = m
        /\ e.keys = k /\ e.first = f /\ e.recent = c.recent
        /\ e.purse = c.purse /\ e.balance = c.balance
        /\ e.authority = c.authority /\ e.record = c.record
    BY <1>3 DEF Shape, ChainFields
  <2> HIDE DEF e
  <2> QED
    BY <1>4, <1>5, <2>2, <2>3, <2>4 DEF ChainOk
<1> QED
  BY <1>0, <1>6, <1>7, <1>8, <1>9, <1>10

-----------------------------------------------------------------------------
(* The handlers.                                                           *)

Pcs == {"look", "first", "create", "register", "registering", "simulate", "nonce",
        "sign", "match", "authority", "send", "recent", "wait", "done"}

\* A handler that has ended is forgotten but for its claim, and only a withdrawal
\* looks at recent transactions.
RunOk(r, n) ==
  /\ Shape(r, RunFields)
  /\ r.handler \in AllHandlers \cup {"none"} /\ r.pc \in Pcs
  /\ r.handler = "none" <=> r.pc = "done"
  /\ r.pc = "recent" => r.handler = "withdraw"
  /\ r.id \in 0..n
  /\ r.pc # "done" => r.id # 0
  /\ r.amount \in Nat /\ r.made \in Creds /\ r.nonce \in 0..MaxNonce
  /\ r.claim \in {"none", "ok", "err"}

RunsOk(runs, n) ==
  /\ runs = [h \in Slots |-> runs[h]]
  /\ \A h \in Slots : RunOk(runs[h], n)

PageInv ==
  /\ ChainOk(chain)
  /\ started \in Nat /\ started <= MaxRuns
  /\ ref \in Creds /\ device \subseteq Creds /\ cache \in 0..Funds
  /\ \A tx \in net : TxOk(tx, started)
  /\ RunsOk(run, started)
  /\ lock \in BOOLEAN /\ LockMatchesRun

\* OutcomeTrue for one handler.
Outcome(r, s, recent) ==
  (r.pc # "done" /\ s.pc = "done") =>
    /\ s.claim = "ok" =>
         \/ r.result = "ok"
         \/ r.handler = "generate"
         \/ r.handler = "deposit" /\ r.result = "error"
         \/ r.pc = "recent" /\ recent = "ok"
    /\ (s.claim = "err" /\ r.pc = "wait"
          /\ r.handler \in {"withdraw", "upgrade"}) => r.result # "ok"

Kept == PageInv' /\ OutcomeTrue

\* What one handler's step, or the cluster's, leaves of the others.
Bystander(r, s) == s = r \/ s = [r EXCEPT !.calm = FALSE]

LEMMA BystanderOk ==
  ASSUME NEW n, NEW r, RunOk(r, n), NEW s, Bystander(r, s)
  PROVE  RunOk(s, n) /\ s.handler = r.handler /\ s.pc = r.pc
<1>1. CASE s = r
  BY <1>1
<1>2. CASE s = [r EXCEPT !.calm = FALSE]
  <2>1. /\ Shape(s, RunFields) /\ s.handler = r.handler /\ s.pc = r.pc /\ s.id = r.id
        /\ s.amount = r.amount /\ s.made = r.made /\ s.nonce = r.nonce
        /\ s.claim = r.claim
    BY <1>2 DEF RunOk, Shape, RunFields
  <2> QED
    BY <2>1 DEF RunOk
<1> QED
  BY <1>1, <1>2 DEF Bystander

\* A handler goes on.
Onward(r, s) ==
  /\ Shape(s, RunFields)
  /\ s.handler = r.handler /\ s.id = r.id /\ s.amount = r.amount /\ s.claim = r.claim
  /\ s.made \in Creds /\ s.nonce \in 0..MaxNonce
  /\ r.pc # "done"
  /\ s.pc \in Pcs \ {"done"}
  /\ s.pc = "recent" => s.handler = "withdraw"

LEMMA OnwardOk ==
  ASSUME NEW n, NEW r, RunOk(r, n), NEW s, Onward(r, s), NEW recent
  PROVE  /\ RunOk(s, n)
         /\ s.handler = "secure" <=> r.handler = "secure"
         /\ Outcome(r, s, recent)
BY DEF Onward, RunOk, Outcome, Pcs

LEMMA EndedOk ==
  ASSUME NEW n \in Nat, NEW h, NEW claim \in {"none", "ok", "err"}
  PROVE  LET s == Ended(h, claim)
         IN  RunOk(s, n) /\ s.handler = "none" /\ s.pc = "done" /\ s.claim = claim
<1> DEFINE s == Ended(h, claim)
<1>1. /\ Shape(s, RunFields) /\ s.handler = "none" /\ s.pc = "done" /\ s.id = 0
      /\ s.amount = 0 /\ s.made = 0 /\ s.nonce = 0 /\ s.claim = claim
  BY DEF Ended, Idle, Shape, RunFields
<1>a. s = Ended(h, claim)
  OBVIOUS
<1> HIDE DEF s
<1>2. 0 \in Creds /\ 0 \in 0..MaxNonce /\ 0 \in 0..n /\ 0 \in Nat
  BY Numbers
<1>3. RunOk(s, n)
  BY <1>1, <1>2 DEF RunOk, Pcs
<1> QED
  BY <1>1, <1>3, <1>a

\* One handler's slot changes: it goes on, or it ends and gives its lock back.
LEMMA OneMoves ==
  ASSUME PageInv, NEW h \in Slots, NEW s, RunOk(s, started),
         run' = [x \in Slots |-> run'[x]], run'[h] = s,
         \A x \in Slots \ {h} : Bystander(run[x], run'[x]),
         started' = started,
         \/ (s.handler = "secure" <=> run[h].handler = "secure") /\ lock' = lock
         \/ s.handler # "secure" /\ lock' = Unlocked(h),
         Outcome(run[h], s, chain.recent)
  PROVE  RunsOk(run', started') /\ lock' \in BOOLEAN /\ LockMatchesRun' /\ OutcomeTrue
<1>1. /\ \A x \in Slots : RunOk(run[x], started)
      /\ lock \in BOOLEAN /\ LockMatchesRun
  BY DEF PageInv, RunsOk
<1>2. \A x \in Slots \ {h} : /\ RunOk(run'[x], started)
                             /\ run'[x].handler = run[x].handler
                             /\ run'[x].pc = run[x].pc
  BY <1>1, BystanderOk
<1>3. RunsOk(run', started')
  BY <1>2 DEF RunsOk
<1>4. LockMatchesRun' /\ lock' \in BOOLEAN
  <2>1. CASE (s.handler = "secure" <=> run[h].handler = "secure") /\ lock' = lock
    BY <1>1, <1>2, <2>1 DEF LockMatchesRun
  <2>2. CASE s.handler # "secure" /\ lock' = Unlocked(h)
    BY <1>1, <1>2, <2>2 DEF LockMatchesRun, Unlocked
  <2> QED
    BY <2>1, <2>2
<1>5. \A x \in Slots : Outcome(run[x], run'[x], chain.recent)
  BY <1>2 DEF Outcome
<1>6. OutcomeTrue
  BY <1>5 DEF OutcomeTrue, Outcome
<1> QED
  BY <1>3, <1>4, <1>6

LEMMA GoKeeps ==
  ASSUME PageInv, NEW h \in Slots, NEW s, Onward(run[h], s), Go(h, s)
  PROVE  Kept
<1>1. /\ run = [x \in Slots |-> run[x]] /\ RunOk(run[h], started)
      /\ run' = [run EXCEPT ![h] = s]
      /\ UNCHANGED <<chain, net, ref, device, cache, lock, started, elsewhere>>
  BY DEF PageInv, RunsOk, Go
<1>2. /\ run' = [x \in Slots |-> run'[x]] /\ run'[h] = s
      /\ \A x \in Slots \ {h} : Bystander(run[x], run'[x])
  BY <1>1 DEF Bystander
<1>3. /\ RunOk(s, started) /\ (s.handler = "secure" <=> run[h].handler = "secure")
      /\ Outcome(run[h], s, chain.recent)
  BY <1>1, OnwardOk
<1>4. RunsOk(run', started') /\ lock' \in BOOLEAN /\ LockMatchesRun' /\ OutcomeTrue
  BY <1>1, <1>2, <1>3, OneMoves
<1> QED
  BY <1>1, <1>4 DEF Kept, PageInv

LEMMA EndKeeps ==
  ASSUME PageInv, NEW h \in Slots, NEW claim \in {"ok", "err"}, End(h, claim),
         Outcome(run[h], Ended(h, claim), chain.recent)
  PROVE  Kept
<1> DEFINE s == Ended(h, claim)
<1>1. /\ run = [x \in Slots |-> run[x]] /\ started \in Nat
      /\ run' = [run EXCEPT ![h] = s] /\ lock' = Unlocked(h)
      /\ UNCHANGED <<chain, net, ref, device, cache, started, elsewhere>>
  BY DEF PageInv, RunsOk, End
<1>2. RunOk(s, started) /\ s.handler # "secure"
  BY <1>1, EndedOk
<1> HIDE DEF s
<1>3. /\ run' = [x \in Slots |-> run'[x]] /\ run'[h] = s
      /\ \A x \in Slots \ {h} : Bystander(run[x], run'[x])
  BY <1>1 DEF Bystander
<1>4. Outcome(run[h], s, chain.recent)
  BY DEF s
<1>5. RunsOk(run', started') /\ lock' \in BOOLEAN /\ LockMatchesRun' /\ OutcomeTrue
  BY <1>1, <1>2, <1>3, <1>4, OneMoves
<1> QED
  BY <1>1, <1>5 DEF Kept, PageInv

LEMMA SubmitsKeeps ==
  ASSUME PageInv, NEW h \in Slots, NEW handler, NEW s, Submits(h, handler, s),
         \/ Onward(run[h], s)
         \/ s = Ended(h, "err") /\ run[h].pc \notin {"wait", "done"}
  PROVE  Kept
<1>1. /\ run = [x \in Slots |-> run[x]] /\ started \in Nat /\ RunOk(run[h], started)
      /\ run' = [run EXCEPT ![h] = s]
      /\ lock' = IF s.pc = "done" THEN Unlocked(h) ELSE lock
      /\ net' = net \cup {Tx(run[h], handler)}
      /\ UNCHANGED <<chain, ref, device, cache, started, elsewhere>>
  BY DEF PageInv, RunsOk, Submits
<1>2. /\ run' = [x \in Slots |-> run'[x]] /\ run'[h] = s
      /\ \A x \in Slots \ {h} : Bystander(run[x], run'[x])
  BY <1>1 DEF Bystander
<1>3. /\ RunOk(s, started) /\ Outcome(run[h], s, chain.recent)
      /\ \/ (s.handler = "secure" <=> run[h].handler = "secure") /\ lock' = lock
         \/ s.handler # "secure" /\ lock' = Unlocked(h)
      /\ run[h].pc # "done"
  <2>1. CASE Onward(run[h], s)
    <3>1. s.pc # "done" /\ run[h].pc # "done"
      BY <2>1 DEF Onward
    <3> QED
      BY <1>1, <2>1, <3>1, OnwardOk
  <2>2. CASE s = Ended(h, "err") /\ run[h].pc \notin {"wait", "done"}
    <3>1. /\ RunOk(s, started) /\ s.handler = "none" /\ s.pc = "done" /\ s.claim = "err"
      BY <1>1, <2>2, EndedOk
    <3> QED
      BY <1>1, <2>2, <3>1 DEF Outcome
  <2> QED
    BY <2>1, <2>2
<1>4. RunsOk(run', started') /\ lock' \in BOOLEAN /\ LockMatchesRun' /\ OutcomeTrue
  BY <1>1, <1>2, <1>3, OneMoves
<1>5. TxOk(Tx(run[h], handler), started)
  <2>1. run[h].id \in 1..started
    BY <1>1, <1>3 DEF RunOk
  <2> QED
    BY <1>1, <2>1 DEF RunOk, TxOk, Tx
<1>6. \A tx \in net' : TxOk(tx, started')
  BY <1>1, <1>5 DEF PageInv
<1> QED
  BY <1>1, <1>4, <1>6 DEF Kept, PageInv

LEMMA Edits ==
  ASSUME NEW n, NEW r, RunOk(r, n), r.pc # "done",
         NEW pc \in Pcs \ {"done"}, pc = "recent" => r.handler = "withdraw",
         NEW made \in Creds, NEW nonce \in 0..MaxNonce,
         NEW cred, NEW key, NEW policy, NEW good
  PROVE  /\ Onward(r, [r EXCEPT !.pc = pc])
         /\ Onward(r, [r EXCEPT !.pc = pc, !.cred = cred, !.policy = policy])
         /\ Onward(r, [r EXCEPT !.pc = pc, !.policy = policy, !.cred = cred])
         /\ Onward(r, [r EXCEPT !.made = made, !.pc = pc])
         /\ Onward(r, [r EXCEPT !.made = made, !.policy = policy, !.pc = pc])
         /\ Onward(r, [r EXCEPT !.nonce = nonce, !.pc = pc])
         /\ Onward(r, [r EXCEPT !.key = key, !.good = good, !.pc = pc])
<1> DEFINE Same(s) == /\ Shape(s, RunFields) /\ s.pc = pc
                      /\ s.handler = r.handler /\ s.id = r.id /\ s.amount = r.amount
                      /\ s.claim = r.claim
                      /\ s.made \in {r.made, made} /\ s.nonce \in {r.nonce, nonce}
<1>1. ASSUME NEW s, Same(s)
      PROVE  Onward(r, s)
  BY <1>1 DEF Onward, RunOk
<1>2. Same([r EXCEPT !.pc = pc])
  BY DEF RunOk, Shape, RunFields
<1>3. /\ Same([r EXCEPT !.pc = pc, !.cred = cred, !.policy = policy])
      /\ Same([r EXCEPT !.pc = pc, !.policy = policy, !.cred = cred])
  BY DEF RunOk, Shape, RunFields
<1>4. /\ Same([r EXCEPT !.made = made, !.pc = pc])
      /\ Same([r EXCEPT !.made = made, !.policy = policy, !.pc = pc])
  BY DEF RunOk, Shape, RunFields
<1>5. /\ Same([r EXCEPT !.nonce = nonce, !.pc = pc])
      /\ Same([r EXCEPT !.key = key, !.good = good, !.pc = pc])
  BY DEF RunOk, Shape, RunFields
<1> HIDE DEF Same
<1> QED
  BY <1>1, <1>2, <1>3, <1>4, <1>5

LEMMA ProvidedOk ==
  ASSUME NEW n, NEW r, RunOk(r, n), r.pc # "done", NEW cred
  PROVE  /\ Onward(r, Provided(r, cred))
         /\ Onward(r, Provided([r EXCEPT !.result = "none"], cred))
<1>0. "simulate" \in Pcs \ {"done"} /\ "nonce" \in Pcs \ {"done"}
  BY DEF Pcs
<1>1. ASSUME NEW q, RunOk(q, n), q.pc # "done"
      PROVE  Onward(q, Provided(q, cred))
  <2>1. q.made \in Creds /\ q.nonce \in 0..MaxNonce
    BY <1>1 DEF RunOk
  <2>2. Onward(q, [q EXCEPT !.pc = "simulate"])
    BY <1>0, <1>1, <2>1, Edits
  <2>3. Onward(q, [q EXCEPT !.pc = "nonce", !.cred = cred, !.policy = "trana.require"])
    BY <1>0, <1>1, <2>1, Edits
  <2> QED
    BY <2>2, <2>3 DEF Provided
<1> DEFINE q == [r EXCEPT !.result = "none"]
<1>2. /\ Shape(q, RunFields) /\ q.handler = r.handler /\ q.id = r.id
      /\ q.amount = r.amount /\ q.claim = r.claim /\ q.made = r.made
      /\ q.nonce = r.nonce /\ q.pc = r.pc
  BY DEF RunOk, Shape, RunFields
<1> HIDE DEF q
<1>3. RunOk(q, n) /\ q.pc # "done"
  BY <1>2 DEF RunOk
<1>4. Onward(q, Provided(q, cred))
  BY <1>1, <1>3
<1>5. Onward(r, Provided(q, cred))
  BY <1>2, <1>4 DEF Onward
<1> QED
  BY <1>1, <1>5 DEF q

LEMMA GoWithRefKeeps ==
  ASSUME PageInv, NEW h \in Slots, NEW s, Onward(run[h], s), NEW cred \in Creds,
         GoWithRef(h, s, cred), device' \subseteq Creds
  PROVE  Kept
<1>1. /\ run = [x \in Slots |-> run[x]] /\ RunOk(run[h], started)
      /\ ref' = cred
      /\ UNCHANGED <<chain, net, cache, lock, started, elsewhere>>
  BY DEF PageInv, RunsOk, GoWithRef
<1>2. /\ run' = [x \in Slots |-> run'[x]] /\ run'[h] = s
      /\ \A x \in Slots \ {h} : Bystander(run[x], run'[x])
  <2>1. CASE cred = ref
    BY <1>1, <2>1 DEF GoWithRef, Bystander
  <2>2. CASE cred # ref
    <3>1. run' = [Disturbed(h) EXCEPT ![h] = s]
      BY <2>2 DEF GoWithRef
    <3>2. /\ Disturbed(h) = [x \in Slots |-> Disturbed(h)[x]]
          /\ \A x \in Slots \ {h} : Disturbed(h)[x] = [run[x] EXCEPT !.calm = FALSE]
      BY DEF Disturbed
    <3> QED
      BY <3>1, <3>2 DEF Bystander
  <2> QED
    BY <2>1, <2>2
<1>3. /\ RunOk(s, started) /\ (s.handler = "secure" <=> run[h].handler = "secure")
      /\ Outcome(run[h], s, chain.recent)
  BY <1>1, OnwardOk
<1>4. RunsOk(run', started') /\ lock' \in BOOLEAN /\ LockMatchesRun' /\ OutcomeTrue
  BY <1>1, <1>2, <1>3, OneMoves
<1> QED
  BY <1>1, <1>4 DEF Kept, PageInv

\* Nothing is claimed by giving up before anything was sent.
LEMMA GivesUp ==
  ASSUME PageInv, NEW h \in Slots, End(h, "err"), run[h].pc # "wait"
  PROVE  Kept
<1>1. LET s == Ended(h, "err") IN s.claim = "err"
  BY EndedOk, 0 \in Nat
<1>2. Outcome(run[h], Ended(h, "err"), chain.recent)
  BY <1>1 DEF Outcome
<1> QED
  BY <1>2, EndKeeps

-----------------------------------------------------------------------------
(* One lemma per group of steps.                                           *)

LEMMA RunKnown ==
  ASSUME PageInv, NEW h \in Slots
  PROVE  /\ RunOk(run[h], started) /\ run[h].made \in Creds
         /\ run[h].nonce \in 0..MaxNonce /\ run[h].id \in Creds
         /\ chain.nonce \in 0..MaxNonce /\ chain.first \in Creds
<1>1. /\ RunOk(run[h], started) /\ started \in Nat /\ started <= MaxRuns
      /\ ChainOk(chain)
  BY DEF PageInv, RunsOk
<1>2. run[h].id \in 0..MaxRuns
  BY <1>1, Numbers DEF RunOk
<1>3. chain.nonce \in 0..MaxNonce /\ chain.first \in Creds
  BY <1>1, Numbers DEF ChainOk
<1> QED
  BY <1>1, <1>2, <1>3, Numbers DEF RunOk

LEMMA LookupKeeps ==
  ASSUME PageInv, NEW h \in Slots,
         \/ LooksForRegistry(h) \/ ReadsFirstPasskey(h) \/ MatchesKey(h)
         \/ ReadsAuthority(h) \/ ReadsNonce(h)
  PROVE  Kept
<1> DEFINE r == run[h]
<1>1. /\ RunOk(r, started) /\ r.made \in Creds /\ r.nonce \in 0..MaxNonce
      /\ chain.nonce \in 0..MaxNonce /\ chain.first \in Creds /\ device \subseteq Creds
  BY RunKnown DEF PageInv
<1>2. ASSUME NEW pc \in {"first", "create", "send"}, r.pc # "done", GoTo(h, pc)
      PROVE  Kept
  <2>1. pc \in Pcs \ {"done"} /\ pc # "recent"
    BY <1>2 DEF Pcs
  <2>2. Onward(r, [r EXCEPT !.pc = pc])
    BY <1>1, <1>2, <2>1, Edits
  <2> QED
    BY <1>2, <2>2, GoKeeps DEF GoTo
<1>3. CASE LooksForRegistry(h)
  BY <1>2, <1>3 DEF LooksForRegistry, At
<1>4. CASE MatchesKey(h)
  <2>1. r.pc = "match" /\ (GoTo(h, "send") \/ End(h, "err"))
    BY <1>4 DEF MatchesKey, At
  <2> QED
    BY <1>2, <2>1, GivesUp
<1>5. CASE ReadsAuthority(h)
  <2>1. r.pc = "authority" /\ (GoTo(h, "send") \/ End(h, "err"))
    BY <1>5 DEF ReadsAuthority, At
  <2> QED
    BY <1>2, <2>1, GivesUp
<1>6. CASE ReadsNonce(h)
  <2>1. /\ r.pc = "nonce"
        /\ Go(h, [r EXCEPT !.nonce = chain.nonce, !.pc = "sign"])
    BY <1>6, PageReadsNonce DEF ReadsNonce, At
  <2>2. Onward(r, [r EXCEPT !.nonce = chain.nonce, !.pc = "sign"])
    BY <1>1, <2>1, Edits DEF Pcs
  <2> QED
    BY <2>1, <2>2, GoKeeps
<1>7. CASE ReadsFirstPasskey(h)
  <2> DEFINE s == IF r.handler = "add" THEN [r EXCEPT !.pc = "create"]
                  ELSE Provided(r, chain.first)
  <2>1. /\ r.pc = "first"
        /\ End(h, "err") \/ (device' = device /\ GoWithRef(h, s, chain.first))
    BY <1>7 DEF ReadsFirstPasskey, At, FirstPasskey
  <2>2. Onward(r, [r EXCEPT !.pc = "create"])
    BY <1>1, <2>1, Edits DEF Pcs
  <2>3. Onward(r, Provided(r, chain.first))
    BY <1>1, <2>1, ProvidedOk
  <2>4. Onward(r, s)
    BY <2>2, <2>3
  <2> HIDE DEF s
  <2> QED
    BY <1>1, <2>1, <2>4, GivesUp, GoWithRefKeeps
<1> QED
  BY <1>3, <1>4, <1>5, <1>6, <1>7

LEMMA CredentialKeeps ==
  ASSUME PageInv, NEW h \in Slots,
         \/ DeclinesCredential(h) \/ CreatesCredential(h) \/ CreatesSecond(h)
         \/ Generates(h)
  PROVE  Kept
<1> DEFINE r == run[h]
<1>1. /\ RunOk(r, started) /\ r.made \in Creds /\ r.nonce \in 0..MaxNonce
      /\ r.id \in Creds /\ device \subseteq Creds /\ started \in Nat
      /\ r.pc = "create" /\ run = [x \in Slots |-> run[x]]
  BY RunKnown DEF PageInv, RunsOk, DeclinesCredential, CreatesCredential, CreatesSecond,
     Generates, At
<1>2. CASE DeclinesCredential(h)
  BY <1>1, <1>2, GivesUp DEF DeclinesCredential
<1>3. CASE CreatesCredential(h)
  <2>1. Onward(r, [r EXCEPT !.made = r.id, !.pc = "register"])
    BY <1>1, Edits DEF Pcs
  <2>2. /\ device' \subseteq Creds
        /\ GoWithRef(h, [r EXCEPT !.made = r.id, !.pc = "register"], r.id)
    BY <1>1, <1>3 DEF CreatesCredential
  <2> QED
    BY <1>1, <2>1, <2>2, GoWithRefKeeps
<1>4. CASE CreatesSecond(h)
  <2> DEFINE s == [r EXCEPT !.made = r.id, !.policy = "trana.require", !.pc = "nonce"]
  <2>1. Onward(r, s)
    BY <1>1, Edits DEF Pcs
  <2>2. /\ device' \subseteq Creds
        /\ run' = [run EXCEPT ![h] = s]
        /\ UNCHANGED <<chain, net, ref, cache, lock, started, elsewhere>>
    BY <1>1, <1>4 DEF CreatesSecond
  <2> HIDE DEF s
  <2>3. /\ run' = [x \in Slots |-> run'[x]] /\ run'[h] = s
        /\ \A x \in Slots \ {h} : Bystander(run[x], run'[x])
    BY <1>1, <2>2 DEF Bystander
  <2>4. /\ RunOk(s, started) /\ (s.handler = "secure" <=> r.handler = "secure")
        /\ Outcome(r, s, chain.recent)
    BY <1>1, <2>1, OnwardOk
  <2>5. RunsOk(run', started') /\ lock' \in BOOLEAN /\ LockMatchesRun' /\ OutcomeTrue
    BY <2>2, <2>3, <2>4, OneMoves
  <2> QED
    BY <2>2, <2>5 DEF Kept, PageInv
<1>5. CASE Generates(h)
  <2> DEFINE s == Ended(h, "ok")
  <2>1. RunOk(s, started) /\ s.handler = "none" /\ s.claim = "ok"
    BY <1>1, EndedOk
  <2>2. /\ device' \subseteq Creds /\ r.handler = "generate"
        /\ run' = [run EXCEPT ![h] = s]
        /\ UNCHANGED <<chain, net, ref, cache, lock, started, elsewhere>>
    BY <1>1, <1>5 DEF Generates
  <2> HIDE DEF s
  <2>3. /\ run' = [x \in Slots |-> run'[x]] /\ run'[h] = s
        /\ \A x \in Slots \ {h} : Bystander(run[x], run'[x])
    BY <1>1, <2>2 DEF Bystander
  <2>4. Outcome(r, s, chain.recent) /\ (s.handler = "secure" <=> r.handler = "secure")
    BY <2>1, <2>2 DEF Outcome
  <2>5. RunsOk(run', started') /\ lock' \in BOOLEAN /\ LockMatchesRun' /\ OutcomeTrue
    BY <2>1, <2>2, <2>3, <2>4, OneMoves
  <2> QED
    BY <2>2, <2>5 DEF Kept, PageInv
<1> QED
  BY <1>2, <1>3, <1>4, <1>5

LEMMA ProofKeeps ==
  ASSUME PageInv, NEW h \in Slots,
         RegistrationConfirmed(h) \/ Simulates(h) \/ Signs(h)
  PROVE  Kept
<1> DEFINE r == run[h]
<1>1. /\ RunOk(r, started) /\ r.made \in Creds /\ r.nonce \in 0..MaxNonce
      /\ r.pc \in {"registering", "simulate", "sign"}
  BY RunKnown DEF RegistrationConfirmed, Simulates, Signs, At
<1>2. r.pc # "done" /\ r.pc # "wait"
  BY <1>1
<1>3. CASE RegistrationConfirmed(h)
  <2>1. End(h, "err") \/ Go(h, Provided([r EXCEPT !.result = "none"], ref))
    BY <1>3 DEF RegistrationConfirmed
  <2>2. Onward(r, Provided([r EXCEPT !.result = "none"], ref))
    BY <1>1, <1>2, ProvidedOk
  <2> QED
    BY <1>2, <2>1, <2>2, GivesUp, GoKeeps
<1>4. CASE Simulates(h)
  <2> DEFINE label == ProofPolicy(Demand(chain, r.amount))
  <2>1. \/ End(h, "err")
        \/ GoTo(h, "send")
        \/ Go(h, [r EXCEPT !.pc = "nonce", !.policy = label, !.cred = ref])
    BY <1>4 DEF Simulates
  <2> HIDE DEF label
  <2>2. /\ Onward(r, [r EXCEPT !.pc = "send"])
        /\ Onward(r, [r EXCEPT !.pc = "nonce", !.policy = label, !.cred = ref])
    BY <1>1, <1>2, Edits DEF Pcs
  <2> QED
    BY <1>2, <2>1, <2>2, GivesUp, GoKeeps DEF GoTo
<1>5. CASE Signs(h)
  <2> DEFINE pc == IF r.handler = "add" THEN "match" ELSE "send"
  <2>1. \/ End(h, "err")
        \/ \E k, good : Go(h, [r EXCEPT !.key = k, !.good = good, !.pc = pc])
    BY <1>5 DEF Signs
  <2>2. pc \in Pcs \ {"done"} /\ pc # "recent"
    BY DEF Pcs
  <2> HIDE DEF pc
  <2>3. ASSUME NEW k, NEW good, Go(h, [r EXCEPT !.key = k, !.good = good, !.pc = pc])
        PROVE  Kept
    <3>1. Onward(r, [r EXCEPT !.key = k, !.good = good, !.pc = pc])
      BY <1>1, <1>2, <2>2, Edits
    <3> QED
      BY <2>3, <3>1, GoKeeps
  <2> QED
    BY <1>2, <2>1, <2>3, GivesUp
<1> QED
  BY <1>3, <1>4, <1>5

LEMMA SendKeeps ==
  ASSUME PageInv, NEW h \in Slots,
         SendsRegistration(h) \/ WalletRefuses(h) \/ WalletSends(h)
  PROVE  Kept
<1> DEFINE r == run[h]
<1>1. /\ RunOk(r, started) /\ r.made \in Creds /\ r.nonce \in 0..MaxNonce
      /\ r.pc \in {"register", "send"}
  BY RunKnown DEF SendsRegistration, WalletRefuses, WalletSends, At
<1>2. r.pc # "done" /\ r.pc # "wait"
  BY <1>1
<1>3. r.handler = "withdraw" => Onward(r, Thrown(h))
  BY <1>1, <1>2, Edits DEF Thrown, Pcs
<1>4. r.handler # "withdraw" => Thrown(h) = Ended(h, "err")
  BY DEF Thrown
<1>5. CASE SendsRegistration(h)
  <2>1. \/ End(h, "err")
        \/ Submits(h, "register", [r EXCEPT !.pc = "registering"])
        \/ Submits(h, "register", Ended(h, "err"))
    BY <1>5 DEF SendsRegistration
  <2>2. Onward(r, [r EXCEPT !.pc = "registering"])
    BY <1>1, <1>2, Edits DEF Pcs
  <2> QED
    BY <1>2, <2>1, <2>2, GivesUp, SubmitsKeeps
<1>6. CASE WalletRefuses(h)
  <2>1. \/ r.handler = "withdraw" /\ Go(h, Thrown(h))
        \/ End(h, "err")
    BY <1>6 DEF WalletRefuses
  <2> QED
    BY <1>2, <1>3, <2>1, GivesUp, GoKeeps
<1>7. CASE WalletSends(h)
  <2>1. \/ Submits(h, r.handler, [r EXCEPT !.pc = "wait"])
        \/ Submits(h, r.handler, Thrown(h))
    BY <1>7 DEF WalletSends
  <2>2. Onward(r, [r EXCEPT !.pc = "wait"])
    BY <1>1, <1>2, Edits DEF Pcs
  <2> QED
    BY <1>2, <1>3, <1>4, <2>1, <2>2, SubmitsKeeps
<1> QED
  BY <1>5, <1>6, <1>7

LEMMA ReportKeeps ==
  ASSUME PageInv, NEW h \in Slots,
         ChecksRecent(h) \/ Confirms(h) \/ ConfirmThrows(h)
  PROVE  Kept
<1> DEFINE r == run[h]
<1>1. /\ RunOk(r, started) /\ r.made \in Creds /\ started \in Nat
      /\ run = [x \in Slots |-> run[x]] /\ ref \in Creds /\ cache \in 0..Funds
  BY RunKnown DEF PageInv, RunsOk
<1>2. chain.balance \in 0..Funds
  BY Numbers DEF PageInv, ChainOk
<1>3. ASSUME NEW claim \in {"ok", "err"}
      PROVE  LET s == Ended(h, claim)
             IN  RunOk(s, started) /\ s.handler = "none" /\ s.pc = "done" /\ s.claim = claim
  BY <1>1, EndedOk
<1>4. CASE ConfirmThrows(h)
  <2> DEFINE claim == IF r.handler \in {"withdraw", "upgrade"} /\ r.result = "ok"
                      THEN "ok" ELSE "err"
  <2>1. End(h, claim)
    BY <1>4 DEF ConfirmThrows
  <2>2. Outcome(r, Ended(h, claim), chain.recent)
    BY <1>3 DEF Outcome
  <2> QED
    BY <2>1, <2>2, EndKeeps
<1>5. CASE ChecksRecent(h)
  <2> DEFINE claim == IF chain.recent = "ok" THEN "ok" ELSE "err"
             s == Ended(h, claim)
  <2>1. /\ r.pc = "recent" /\ r.handler = "withdraw"
        /\ run' = [run EXCEPT ![h] = s]
        /\ cache' \in {cache, chain.balance}
        /\ UNCHANGED <<chain, net, ref, device, lock, started, elsewhere>>
    BY <1>1, <1>5 DEF ChecksRecent, At, RunOk
  <2>2. /\ RunOk(s, started) /\ s.handler = "none" /\ s.claim = claim
        /\ Outcome(r, s, chain.recent)
    BY <1>3, <2>1 DEF Outcome
  <2> HIDE DEF claim, s
  <2>3. /\ run' = [x \in Slots |-> run'[x]] /\ run'[h] = s
        /\ \A x \in Slots \ {h} : Bystander(run[x], run'[x])
    BY <1>1, <2>1 DEF Bystander
  <2>4. RunsOk(run', started') /\ lock' \in BOOLEAN /\ LockMatchesRun' /\ OutcomeTrue
    BY <2>1, <2>2, <2>3, OneMoves
  <2>5. cache' \in 0..Funds
    BY <1>1, <1>2, <2>1
  <2> QED
    BY <2>1, <2>4, <2>5 DEF Kept, PageInv
<1>6. CASE Confirms(h)
  <2> DEFINE claim == ConfirmClaim(r)
             s == Ended(h, claim)
             stirs == r.handler = "add" /\ claim = "ok"
  <2>1. /\ r.pc = "wait" /\ lock' = Unlocked(h)
        /\ run' = [IF stirs THEN Disturbed(h) ELSE run EXCEPT ![h] = s]
        /\ ref' = IF stirs THEN r.made ELSE ref
        /\ cache' \in {cache, chain.balance}
        /\ UNCHANGED <<chain, net, device, started, elsewhere>>
    BY <1>6 DEF Confirms, At
  <2>2. claim \in {"ok", "err"}
    BY DEF ConfirmClaim
  <2>3. /\ RunOk(s, started) /\ s.handler = "none" /\ s.claim = claim
        /\ Outcome(r, s, chain.recent)
    BY <1>3, <2>1, <2>2 DEF Outcome, ConfirmClaim
  <2> HIDE DEF claim, s, stirs
  <2>4. /\ run' = [x \in Slots |-> run'[x]] /\ run'[h] = s
        /\ \A x \in Slots \ {h} : Bystander(run[x], run'[x])
    <3>1. /\ Disturbed(h) = [x \in Slots |-> Disturbed(h)[x]]
          /\ \A x \in Slots \ {h} : Disturbed(h)[x] = [run[x] EXCEPT !.calm = FALSE]
      BY DEF Disturbed
    <3>2. CASE stirs
      BY <2>1, <3>1, <3>2 DEF Bystander
    <3>3. CASE ~stirs
      BY <1>1, <2>1, <3>3 DEF Bystander
    <3> QED
      BY <3>2, <3>3
  <2>5. RunsOk(run', started') /\ lock' \in BOOLEAN /\ LockMatchesRun' /\ OutcomeTrue
    BY <2>1, <2>3, <2>4, OneMoves
  <2>6. ref' \in Creds /\ cache' \in 0..Funds
    BY <1>1, <1>2, <2>1
  <2> QED
    BY <2>1, <2>5, <2>6 DEF Kept, PageInv
<1> QED
  BY <1>4, <1>5, <1>6

LEMMA ClickKeeps ==
  ASSUME PageInv, NEW h \in Slots, NEW handler \in AllHandlers, NEW amount \in Nat,
         Click(h, handler, amount)
  PROVE  Kept
<1> DEFINE s == [Idle EXCEPT !.handler = handler, !.amount = amount,
                             !.id = started + 1, !.pc = FirstStep(handler)]
           r == run[h]
<1>1. /\ run = [x \in Slots |-> run[x]] /\ \A x \in Slots : RunOk(run[x], started)
      /\ started \in Nat /\ lock \in BOOLEAN /\ LockMatchesRun
  BY DEF PageInv, RunsOk
<1>2. /\ r.pc = "done" /\ started < MaxRuns /\ started' = started + 1
      /\ handler = "secure" => ~lock
  BY DEF Click, MayClick, At
<1>3. /\ run' = [run EXCEPT ![h] = s]
      /\ lock' = (lock \/ handler = "secure")
      /\ UNCHANGED <<chain, net, ref, device, cache, elsewhere>>
  BY DEF Click
<1>4. /\ Shape(s, RunFields) /\ s.handler = handler /\ s.pc = FirstStep(handler)
      /\ s.id = started + 1 /\ s.amount = amount /\ s.made = 0 /\ s.nonce = 0
      /\ s.claim = "none"
  BY DEF Idle, Shape, RunFields
<1> HIDE DEF s
<1>5. FirstStep(handler) \in Pcs \ {"done", "recent"}
  BY DEF FirstStep, AllHandlers, Pcs
<1>6. RunOk(s, started')
  <2>1. /\ 0 \in Creds /\ 0 \in 0..MaxNonce
        /\ started + 1 \in 0..started' /\ started + 1 # 0
    BY <1>1, <1>2, Numbers
  <2>2. handler # "none" /\ s.pc # "done" /\ s.pc # "recent" /\ s.pc \in Pcs
    BY <1>4, <1>5 DEF AllHandlers
  <2> QED
    BY <1>4, <2>1, <2>2 DEF RunOk
<1>7. ASSUME NEW x \in Slots \ {h}
      PROVE  run'[x] = run[x] /\ RunOk(run[x], started')
  <2>1. run'[x] = run[x] /\ RunOk(run[x], started)
    BY <1>1, <1>3
  <2>2. run[x].id \in 0..started'
    <3>1. run[x].id \in 0..started
      BY <2>1 DEF RunOk
    <3> QED
      BY <1>1, <1>2, <3>1
  <2> QED
    BY <2>1, <2>2 DEF RunOk
<1>8. RunsOk(run', started')
  BY <1>1, <1>3, <1>6, <1>7 DEF RunsOk
<1>9. lock' \in BOOLEAN /\ LockMatchesRun'
  <2>1. run'[h].handler = handler /\ run[h].handler = "none"
    BY <1>1, <1>2, <1>3, <1>4 DEF RunOk
  <2> QED
    BY <1>1, <1>2, <1>3, <1>7, <2>1 DEF LockMatchesRun
<1>10. OutcomeTrue
  BY <1>2, <1>7 DEF OutcomeTrue
<1>11. \A tx \in net' : TxOk(tx, started')
  <2>1. \A tx \in net : TxOk(tx, started)
    BY DEF PageInv
  <2> QED
    BY <1>1, <1>2, <1>3, <2>1 DEF TxOk
<1>12. started' \in Nat /\ started' <= MaxRuns
  BY <1>1, <1>2, Numbers
<1> QED
  BY <1>3, <1>8, <1>9, <1>10, <1>11, <1>12 DEF Kept, PageInv

\* The cluster and other sessions change a handler's result and its calm at most.
Touched(r, s) ==
  /\ Shape(s, RunFields)
  /\ s.handler = r.handler /\ s.pc = r.pc /\ s.id = r.id /\ s.amount = r.amount
  /\ s.made = r.made /\ s.nonce = r.nonce /\ s.claim = r.claim

LEMMA Touches ==
  ASSUME NEW n, NEW r, RunOk(r, n), NEW res
  PROVE  LET q == [r EXCEPT !.calm = FALSE]
         IN  /\ Touched(r, r)
             /\ Touched(r, [r EXCEPT !.result = res])
             /\ Touched(r, q)
             /\ Touched(r, [q EXCEPT !.result = res])
BY DEF RunOk, Touched, Shape, RunFields

LEMMA AllTouched ==
  ASSUME PageInv, run' = [x \in Slots |-> run'[x]],
         \A x \in Slots : Touched(run[x], run'[x]),
         started' = started, lock' = lock
  PROVE  RunsOk(run', started') /\ lock' \in BOOLEAN /\ LockMatchesRun' /\ OutcomeTrue
<1>1. /\ \A x \in Slots : RunOk(run[x], started)
      /\ lock \in BOOLEAN /\ LockMatchesRun
  BY DEF PageInv, RunsOk
<1>2. ASSUME NEW x \in Slots
      PROVE  /\ RunOk(run'[x], started') /\ run'[x].handler = run[x].handler
             /\ run'[x].pc = run[x].pc
  <2>1. RunOk(run[x], started) /\ Touched(run[x], run'[x])
    BY <1>1
  <2> QED
    BY <2>1 DEF RunOk, Touched
<1>3. LockMatchesRun'
  BY <1>1, <1>2 DEF LockMatchesRun
<1>4. OutcomeTrue
  BY <1>2 DEF OutcomeTrue
<1> QED
  BY <1>1, <1>2, <1>3, <1>4 DEF RunsOk

LEMMA SettledTouches ==
  ASSUME PageInv, NEW tx, NEW res, NEW before, before = run \/ before = Shaken(tx)
  PROVE  LET after == Settled(before, tx, res)
         IN  /\ after = [x \in Slots |-> after[x]]
             /\ \A x \in Slots : Touched(run[x], after[x])
<1> DEFINE after == Settled(before, tx, res)
<1>1. after = [x \in Slots |-> IF before[x].id = tx.id
                               THEN [before[x] EXCEPT !.result = res] ELSE before[x]]
  BY DEF Settled
<1>2. ASSUME NEW x \in Slots
      PROVE  Touched(run[x], after[x])
  <2> DEFINE r == run[x]
  <2>1. RunOk(r, started)
    BY DEF PageInv, RunsOk
  <2>2. before[x] = r \/ before[x] = [r EXCEPT !.calm = FALSE]
    BY DEF Shaken
  <2>3. after[x] = before[x] \/ after[x] = [before[x] EXCEPT !.result = res]
    BY <1>1
  <2>4. CASE before[x] = r
    BY <2>1, <2>3, <2>4, Touches
  <2>5. CASE before[x] = [r EXCEPT !.calm = FALSE]
    <3> DEFINE q == [r EXCEPT !.calm = FALSE]
    <3>1. Touched(r, q) /\ Touched(r, [q EXCEPT !.result = res])
      BY <2>1, Touches
    <3>2. after[x] = q \/ after[x] = [q EXCEPT !.result = res]
      BY <2>3, <2>5
    <3> HIDE DEF q
    <3> QED
      BY <3>1, <3>2
  <2> QED
    BY <2>2, <2>4, <2>5
<1>3. after = [x \in Slots |-> after[x]]
  BY <1>1
<1> QED
  BY <1>2, <1>3

LEMMA ClusterKeeps ==
  ASSUME PageInv, NEW tx \in net, Lands(tx) \/ Expires(tx)
  PROVE  Kept
<1>1. /\ ChainOk(chain) /\ TxOk(tx, started)
      /\ net' = net \ {tx}
      /\ UNCHANGED <<ref, device, cache, lock, started, elsewhere>>
  BY DEF PageInv, Lands, Expires
<1>2. PICK before, res : /\ before = run \/ before = Shaken(tx)
                         /\ run' = Settled(before, tx, res)
  BY DEF Lands, Expires
<1>3. ChainOk(chain')
  <2>1. CASE chain' = chain
    BY <1>1, <2>1
  <2>2. CASE /\ Succeeds(chain, tx) /\ InBounds(After(chain, tx))
             /\ chain' = [After(chain, tx) EXCEPT !.recent = "ok"]
    <3>1. ChainOk(After(chain, tx))
      BY <1>1, <2>2, AfterOk
    <3> QED
      BY <2>2, <3>1, RecentSet
  <2>3. CASE chain' = [chain EXCEPT !.recent = "error"]
    BY <1>1, <2>3, RecentSet
  <2> QED
    BY <2>1, <2>2, <2>3 DEF Lands, Expires
<1>4. /\ run' = [x \in Slots |-> run'[x]]
      /\ \A x \in Slots : Touched(run[x], run'[x])
  BY <1>2, SettledTouches
<1>5. RunsOk(run', started') /\ lock' \in BOOLEAN /\ LockMatchesRun' /\ OutcomeTrue
  BY <1>1, <1>4, AllTouched
<1> QED
  BY <1>1, <1>3, <1>5 DEF Kept, PageInv

LEMMA ChangesKeep ==
  ASSUME PageInv, NEW c, ChainOk(c), Changes(c)
  PROVE  Kept
<1>1. /\ chain' = c
      /\ UNCHANGED <<net, ref, device, cache, lock, started>>
      /\ run' = [x \in Slots |-> [run[x] EXCEPT !.calm = FALSE]]
  BY DEF Changes
<1>2. ASSUME NEW x \in Slots
      PROVE  Touched(run[x], run'[x])
  <2>1. RunOk(run[x], started)
    BY DEF PageInv, RunsOk
  <2>2. run'[x] = [run[x] EXCEPT !.calm = FALSE]
    BY <1>1
  <2> QED
    BY <2>1, <2>2, Touches
<1>3. run' = [x \in Slots |-> run'[x]]
  BY <1>1
<1>4. RunsOk(run', started') /\ lock' \in BOOLEAN /\ LockMatchesRun' /\ OutcomeTrue
  BY <1>1, <1>2, <1>3, AllTouched
<1> QED
  BY <1>1, <1>4 DEF Kept, PageInv

\* What other sessions and the clock make of the accounts.
LEMMA OthersOk ==
  ASSUME NEW c, ChainOk(c)
  PROVE  /\ ChainOk([c EXCEPT !.cooling = FALSE])
         /\ ChainOk([c EXCEPT !.window = FALSE, !.cooling = FALSE])
         /\ \A k \in Seq(Creds), n \in Nat :
              LET d == [[WithKeys(c, k) EXCEPT !.nonce = n] EXCEPT !.recent = "ok"]
              IN  n <= MaxNonce => ChainOk(d)
         /\ \A n \in Nat :
              LET d == [[c EXCEPT !.record = FALSE, !.authority = "wallet", !.nonce = n]
                          EXCEPT !.recent = "ok"]
              IN  n <= MaxNonce => ChainOk(d)
         /\ c.purse > 0 => ChainOk([[c EXCEPT !.purse = @ - 1] EXCEPT !.recent = "ok"])
<1>1. ChainOk([c EXCEPT !.cooling = FALSE])
  <2> DEFINE d == [c EXCEPT !.cooling = FALSE]
  <2>1. /\ Shape(d, ChainFields) /\ d.recent = c.recent
        /\ d.keys = c.keys /\ d.first = c.first /\ d.nonce = c.nonce
        /\ d.purse = c.purse /\ d.balance = c.balance /\ d.authority = c.authority
        /\ d.record = c.record
    BY DEF ChainOk, Shape, ChainFields
  <2> HIDE DEF d
  <2>2. ChainOk(d)
    BY <2>1 DEF ChainOk
  <2> QED
    BY <2>2 DEF d
<1>2. ChainOk([c EXCEPT !.window = FALSE, !.cooling = FALSE])
  <2> DEFINE d == [c EXCEPT !.window = FALSE, !.cooling = FALSE]
  <2>1. /\ Shape(d, ChainFields) /\ d.recent = c.recent
        /\ d.keys = c.keys /\ d.first = c.first /\ d.nonce = c.nonce
        /\ d.purse = c.purse /\ d.balance = c.balance /\ d.authority = c.authority
        /\ d.record = c.record
    BY DEF ChainOk, Shape, ChainFields
  <2> HIDE DEF d
  <2>2. ChainOk(d)
    BY <2>1 DEF ChainOk
  <2> QED
    BY <2>2 DEF d
<1>3. ASSUME NEW k \in Seq(Creds), NEW n \in Nat, n <= MaxNonce
      PROVE  ChainOk([[WithKeys(c, k) EXCEPT !.nonce = n] EXCEPT !.recent = "ok"])
  <2> DEFINE w == WithKeys(c, k)
             d == [[w EXCEPT !.nonce = n] EXCEPT !.recent = "ok"]
  <2>1. /\ Shape(w, ChainFields)
        /\ w.keys = k /\ w.first \in Creds /\ (k # <<>> => w.first = k[1])
        /\ w.purse = c.purse /\ w.balance = c.balance /\ w.authority = c.authority
        /\ w.record = c.record
    BY KeysSet
  <2> HIDE DEF w
  <2>2. /\ Shape(d, ChainFields) /\ d.recent = "ok" /\ d.nonce = n
        /\ d.keys = k /\ d.first = w.first
        /\ d.purse = c.purse /\ d.balance = c.balance /\ d.authority = c.authority
        /\ d.record = c.record
    BY <2>1 DEF Shape, ChainFields
  <2> HIDE DEF d
  <2>3. ChainOk(d)
    BY <1>3, <2>1, <2>2 DEF ChainOk
  <2> QED
    BY <2>3 DEF d, w
<1>4. ASSUME NEW n \in Nat, n <= MaxNonce
      PROVE  ChainOk([[c EXCEPT !.record = FALSE, !.authority = "wallet", !.nonce = n]
                        EXCEPT !.recent = "ok"])
  <2> DEFINE d == [[c EXCEPT !.record = FALSE, !.authority = "wallet", !.nonce = n]
                     EXCEPT !.recent = "ok"]
  <2>1. /\ Shape(d, ChainFields) /\ d.recent = "ok" /\ d.nonce = n
        /\ d.keys = c.keys /\ d.first = c.first
        /\ d.purse = c.purse /\ d.balance = c.balance /\ d.authority = "wallet"
    BY DEF ChainOk, Shape, ChainFields
  <2> HIDE DEF d
  <2>2. ChainOk(d)
    BY <1>4, <2>1 DEF ChainOk
  <2> QED
    BY <2>2 DEF d
<1>5. ASSUME c.purse > 0
      PROVE  ChainOk([[c EXCEPT !.purse = @ - 1] EXCEPT !.recent = "ok"])
  <2> DEFINE d == [[c EXCEPT !.purse = @ - 1] EXCEPT !.recent = "ok"]
  <2>1. /\ Shape(d, ChainFields) /\ d.recent = "ok" /\ d.nonce = c.nonce
        /\ d.keys = c.keys /\ d.first = c.first
        /\ d.purse = c.purse - 1 /\ d.balance = c.balance /\ d.authority = c.authority
        /\ d.record = c.record
    BY DEF ChainOk, Shape, ChainFields
  <2> HIDE DEF d
  <2>2. d.purse \in Nat /\ d.purse + d.balance <= Funds
    BY <1>5, <2>1, Numbers DEF ChainOk
  <2>3. ChainOk(d)
    BY <2>1, <2>2 DEF ChainOk
  <2> QED
    BY <2>3 DEF d
<1> QED
  BY <1>1, <1>2, <1>3, <1>4, <1>5

LEMMA OthersKeep ==
  ASSUME PageInv,
         \/ TimePasses \/ Polls
         \/ KeysElsewhere \/ RecoversElsewhere \/ ReclaimsElsewhere \/ SpendsElsewhere
  PROVE  Kept
<1>1. ChainOk(chain) /\ chain.nonce \in Nat /\ chain.keys \in Seq(Creds)
  BY DEF PageInv, ChainOk
<1>2. CASE TimePasses
  <2>1. PICK c \in {[chain EXCEPT !.cooling = FALSE],
                    [chain EXCEPT !.window = FALSE, !.cooling = FALSE],
                    [chain EXCEPT !.recent = "old"]} : Changes(c)
    BY <1>2 DEF TimePasses
  <2>2. ChainOk(c)
    BY <1>1, OthersOk, RecentSet
  <2> QED
    BY <2>1, <2>2, ChangesKeep
<1>3. CASE Polls
  <2>1. /\ cache' = chain.balance
        /\ UNCHANGED <<chain, net, run, ref, device, lock, started, elsewhere>>
    BY <1>3 DEF Polls
  <2>2. cache' \in 0..Funds
    BY <1>1, <2>1, Numbers DEF ChainOk
  <2>3. OutcomeTrue
    BY <2>1 DEF OutcomeTrue
  <2>4. LockMatchesRun'
    BY <2>1 DEF LockMatchesRun, PageInv
  <2> QED
    BY <2>1, <2>2, <2>3, <2>4 DEF Kept, PageInv
<1>4. CASE KeysElsewhere
  <2>1. PICK k \in {Append(chain.keys, Backup), <<Backup>>, <<>>} :
               Elsewhere([WithKeys(chain, k) EXCEPT !.nonce = @ + 2])
    BY <1>4 DEF KeysElsewhere
  <2> DEFINE w == WithKeys(chain, k)
             n == chain.nonce + 2
             d == [w EXCEPT !.nonce = n]
  <2>2. k \in Seq(Creds)
    <3>1. Append(chain.keys, Backup) \in Seq(Creds)
      BY <1>1, Numbers
    <3>2. <<Backup>> \in Seq(Creds) /\ <<>> \in Seq(Creds)
      BY Numbers
    <3> QED
      BY <2>1, <3>1, <3>2
  <2>3. Shape(w, ChainFields) /\ w.nonce = chain.nonce
    BY <1>1, <2>2, KeysSet
  <2> HIDE DEF w
  <2>4. [w EXCEPT !.nonce = @ + 2] = d /\ d.nonce = n /\ n \in Nat
    <3>1. n \in Nat /\ [w EXCEPT !.nonce = @ + 2] = d
      BY <1>1, <2>3
    <3> HIDE DEF n
    <3>2. d.nonce = n
      BY <2>3 DEF Shape, ChainFields
    <3> QED
      BY <3>1, <3>2
  <2>5. Elsewhere(d)
    BY <2>1, <2>4 DEF w
  <2> HIDE DEF n, d
  <2>6. n <= MaxNonce /\ Changes([d EXCEPT !.recent = "ok"])
    BY <2>4, <2>5 DEF Elsewhere, InBounds
  <2>7. ChainOk([[w EXCEPT !.nonce = n] EXCEPT !.recent = "ok"])
    BY <1>1, <2>2, <2>4, <2>6, OthersOk DEF w
  <2>8. ChainOk([d EXCEPT !.recent = "ok"])
    BY <2>7 DEF d
  <2> QED
    BY <2>6, <2>8, ChangesKeep
<1>5. CASE RecoversElsewhere
  <2> DEFINE w == WithKeys(chain, <<Backup>>)
             d == [w EXCEPT !.nonce = 0]
  <2>1. Changes([d EXCEPT !.recent = "ok"])
    BY <1>5 DEF RecoversElsewhere, Elsewhere
  <2>2. <<Backup>> \in Seq(Creds) /\ 0 \in Nat /\ 0 <= MaxNonce
    BY Numbers
  <2>3. ChainOk([d EXCEPT !.recent = "ok"])
    BY <1>1, <2>2, OthersOk
  <2> QED
    BY <2>1, <2>3, ChangesKeep
<1>6. CASE ReclaimsElsewhere
  <2> DEFINE n == chain.nonce + 1
             d == [chain EXCEPT !.record = FALSE, !.authority = "wallet", !.nonce = n]
  <2>1. d = [chain EXCEPT !.record = FALSE, !.authority = "wallet", !.nonce = @ + 1]
    OBVIOUS
  <2>2. d.nonce = n /\ n \in Nat
    BY <1>1 DEF ChainOk, Shape, ChainFields
  <2>3. Elsewhere(d)
    BY <1>6, <2>1 DEF ReclaimsElsewhere
  <2> HIDE DEF n, d
  <2>4. n <= MaxNonce /\ Changes([d EXCEPT !.recent = "ok"])
    BY <2>2, <2>3 DEF Elsewhere, InBounds
  <2>5. ChainOk([[chain EXCEPT !.record = FALSE, !.authority = "wallet", !.nonce = n]
                   EXCEPT !.recent = "ok"])
    BY <1>1, <2>2, <2>4, OthersOk
  <2>6. ChainOk([d EXCEPT !.recent = "ok"])
    BY <2>5 DEF d
  <2> QED
    BY <2>4, <2>6, ChangesKeep
<1>7. CASE SpendsElsewhere
  <2>1. /\ chain.purse > 0
        /\ Changes([[chain EXCEPT !.purse = @ - 1] EXCEPT !.recent = "ok"])
    BY <1>7 DEF SpendsElsewhere, Elsewhere
  <2>2. ChainOk([[chain EXCEPT !.purse = @ - 1] EXCEPT !.recent = "ok"])
    BY <1>1, <2>1, OthersOk
  <2> QED
    BY <2>1, <2>2, ChangesKeep
<1> QED
  BY <1>2, <1>3, <1>4, <1>5, <1>6, <1>7

-----------------------------------------------------------------------------
(* Together.                                                               *)

LEMMA PageStarts ==
  ASSUME Init
  PROVE  PageInv
<1>1. PICK k \in {<<>>, <<Own>>}, o \in {"wallet", "record"} : chain = Ledger(k, o)
  BY DEF Init
<1>2. k \in Seq(Creds) /\ (IF k = <<>> THEN 0 ELSE k[1]) \in Creds
  <2>1. CASE k = <<>>
    BY <2>1, Numbers
  <2>2. CASE k = <<Own>>
    <3>1. k \in Seq(Creds) /\ k[1] = Own
      BY <2>2, Numbers
    <3> QED
      BY <3>1, Numbers
  <2> QED
    BY <2>1, <2>2
<1>3. /\ Shape(chain, ChainFields) /\ chain.keys = k
      /\ chain.first = (IF k = <<>> THEN 0 ELSE k[1])
      /\ chain.nonce = 0 /\ chain.purse = 1 /\ chain.balance = Funds - 1
      /\ chain.authority = o /\ chain.recent = "old" /\ chain.record = (o = "record")
  BY <1>1 DEF Ledger, Shape, ChainFields
<1>4. ChainOk(chain) /\ chain.balance \in 0..Funds
  <2>1. /\ chain.nonce \in Nat /\ chain.nonce <= MaxNonce
        /\ chain.purse \in Nat /\ chain.balance \in Nat
        /\ chain.purse + chain.balance <= Funds /\ chain.balance \in 0..Funds
    BY <1>3, Numbers
  <2>2. /\ chain.authority \in {"wallet", "record"} /\ chain.recent = "old"
        /\ chain.authority = "record" => chain.record
    BY <1>3
  <2> QED
    BY <1>2, <1>3, <2>1, <2>2 DEF ChainOk
<1>5. RunsOk(run, 0) /\ \A h \in Slots : run[h].handler = "none"
  <2>1. RunOk(Idle, 0) /\ Idle.handler = "none"
    <3>1. 0 \in Creds /\ 0 \in 0..MaxNonce /\ 0 \in 0..0
      BY Numbers
    <3>2. Shape(Idle, RunFields)
      BY DEF Idle, Shape, RunFields
    <3> QED
      BY <3>1, <3>2 DEF RunOk, Idle, Pcs
  <2>2. run = [h \in Slots |-> Idle]
    BY DEF Init
  <2> QED
    BY <2>1, <2>2 DEF RunsOk
<1>6. LockMatchesRun /\ lock \in BOOLEAN
  BY <1>5 DEF Init, LockMatchesRun
<1>7. /\ ref = chain.first /\ device = {Own} /\ cache = chain.balance
      /\ net = {} /\ started = 0
  BY DEF Init
<1> QED
  BY <1>4, <1>5, <1>6, <1>7, Numbers DEF PageInv, ChainOk

LEMMA PageSteps ==
  ASSUME PageInv, Next
  PROVE  Kept
<1>1. ASSUME NEW h \in Slots, HandlerStep(h)
      PROVE  Kept
  BY <1>1, LookupKeeps, CredentialKeeps, ProofKeeps, SendKeeps, ReportKeeps
     DEF HandlerStep
<1>2. ASSUME NEW h \in Slots, NEW handler \in Handlers, NEW amount \in 1..Limit,
             Click(h, handler, amount)
      PROVE  Kept
  <2>1. handler \in AllHandlers /\ amount \in Nat
    BY PageAssumption, Numbers
  <2> QED
    BY <1>2, <2>1, ClickKeeps
<1>3. ASSUME NEW tx \in net, Lands(tx) \/ Expires(tx)
      PROVE  Kept
  BY <1>3, ClusterKeeps
<1> QED
  BY <1>1, <1>2, <1>3, OthersKeep DEF Next

LEMMA PageRests ==
  ASSUME PageInv, UNCHANGED vars
  PROVE  Kept
<1>1. LockMatchesRun' /\ OutcomeTrue
  BY DEF vars, PageInv, LockMatchesRun, OutcomeTrue
<1> QED
  BY <1>1 DEF vars, Kept, PageInv

LEMMA PageInvariant == LandingSpec => [](PageInv) /\ [][OutcomeTrue]_vars
<1>1. LandingInit => PageInv
  BY PageStarts DEF LandingInit
<1>2. PageInv /\ [LandingNext]_siteVars => Kept
  <2>1. ASSUME PageInv, [LandingNext]_siteVars
        PROVE  Next \/ UNCHANGED vars
    BY <2>1 DEF LandingNext, siteVars
  <2> QED
    BY <2>1, PageSteps, PageRests
<1>3. PageInv /\ [LandingNext]_siteVars => PageInv' /\ [OutcomeTrue]_vars
  BY <1>2 DEF Kept
<1> QED
  BY <1>1, <1>3, PTL DEF LandingSpec

(* Every account, transaction and handler of the try page is in a state    *)
(* its code can describe, whatever overlaps, and the wallet's funds are    *)
(* never more than there were.                                             *)
THEOREM PageStateTypes == LandingSpec => []PageTypeOK
<1>1. PageInv => PageTypeOK
  <2> SUFFICES ASSUME PageInv
               PROVE  PageTypeOK
    OBVIOUS
  <2>1. /\ chain.nonce \in 0..MaxNonce
        /\ chain.purse \in 0..Funds /\ chain.balance \in 0..Funds
    BY Numbers DEF PageInv, ChainOk
  <2>2. \A h \in Slots : run[h].pc \in Pcs /\ run[h].claim \in {"none", "ok", "err"}
    BY DEF PageInv, RunsOk, RunOk
  <2>3. \A tx \in net : tx.id \in 1..started /\ tx.nonce \in 0..MaxNonce
    BY DEF PageInv, TxOk
  <2> QED
    BY <2>1, <2>2, <2>3 DEF PageTypeOK, PageInv, ChainOk, Pcs
<1> QED
  BY PageInvariant, <1>1, PTL

(* The lock of handleAuthSecure is held exactly while that handler runs:   *)
(* two never overlap, and no early return or error leaves it behind.       *)
THEOREM LockFollowsHandler == LandingSpec => []LockMatchesRun
<1>1. PageInv => LockMatchesRun
  BY DEF PageInv
<1> QED
  BY PageInvariant, <1>1, PTL

(* The page hands a program's authority to the record's address only       *)
(* together with a record, whatever a reclaim elsewhere came between.      *)
THEOREM PageNeverStrandsAuthority == LandingSpec => []PageKeepsRecord
<1>1. PageInv => PageKeepsRecord
  BY DEF PageInv, ChainOk, PageKeepsRecord
<1> QED
  BY PageInvariant, <1>1, PTL

(* A handler of the page that ends with "ok" saw its transaction go        *)
(* through, up to the exceptions the property names, and one that ends     *)
(* with "err" after confirming had not seen it succeed.                    *)
THEOREM PageReportsTruly == LandingSpec => OutcomesAreTrue
BY PageInvariant, PTL DEF OutcomesAreTrue

-----------------------------------------------------------------------------
(* What an undisturbed handler knows.                                      *)

\* The key is registered, or nothing is.
Held(c, k) == c.keys = <<>> \/ \E i \in DOMAIN c.keys : c.keys[i] = k

\* The policy the guard will ask a proof for.
Wanted(r, c) == IF r.handler = "withdraw" THEN Demand(c, r.amount) ELSE "trana.require"

\* What a handler that has sent something has in flight.
Sent == {"registering", "wait", "recent"}
Sending(r) == Tx(r, IF r.pc = "registering" THEN "register" ELSE r.handler)

\* The signature is one the precompile takes.
Genuine(r) == r.good = TRUE

\* Which handlers come by which step.
Placed(r) ==
  /\ r.pc \in {"look", "register", "registering"} => r.handler \in {"withdraw", "upgrade"}
  /\ r.pc \in {"first", "nonce", "sign"} => r.handler \in {"withdraw", "upgrade", "add"}
  /\ r.pc = "simulate" => r.handler = "withdraw"
  /\ r.pc = "match" => r.handler = "add"
  /\ r.pc = "authority" => r.handler = "secure"
  /\ r.result # "none" => r.pc \in Sent
  /\ Genuine(r)

\* What has been read still is so: the credential, the policy, the nonce, and with
\* them the proof.
Informed(r, c, cred) ==
  /\ r.pc \in {"register", "registering"} => cred = r.made
  /\ (r.pc = "registering" /\ r.result = "ok") => Held(c, r.made)
  /\ r.pc = "simulate" => Held(c, cred)
  /\ r.pc \in {"nonce", "sign", "match"} => r.policy = Wanted(r, c)
  /\ (r.pc \in {"nonce", "sign"} /\ r.handler # "add") => Held(c, r.cred)
  /\ r.pc \in {"sign", "match"} => r.nonce = c.nonce
  /\ (r.pc \in {"send", "wait", "recent"} /\ r.result = "none") =>
       Approved(c, Tx(r, r.handler)) \/ c.keys = <<>>

KnownOk(r, c, cred) == Placed(r) /\ (r.calm => Informed(r, c, cred))

CalmInv ==
  /\ \A h \in Slots : KnownOk(run[h], chain, ref)
  /\ \A g, h \in Slots : (run[g].id = run[h].id /\ run[g].id # 0) => g = h
  /\ \A tx \in net, h \in Slots : tx.id = run[h].id =>
       run[h].pc \in Sent /\ run[h].result = "none" /\ tx = Sending(run[h])

LEMMA ChecksAll == {"withdraw", "upgrade", "add"} \subseteq Checks
BY ProofsVerify DEF Checks

\* A proof of what was wanted, with the current nonce and a registered key, passes.
LEMMA ProofReady ==
  ASSUME NEW r, NEW c, r.handler \in {"withdraw", "upgrade", "add"},
         r.policy = Wanted(r, c), r.nonce = c.nonce, Genuine(r), Held(c, r.key)
  PROVE  Approved(c, Tx(r, r.handler)) \/ c.keys = <<>>
<1> DEFINE tx == Tx(r, r.handler)
<1>1. /\ tx.handler = r.handler /\ tx.amount = r.amount /\ tx.policy = r.policy
      /\ tx.good = TRUE /\ tx.key = r.key /\ tx.nonce = r.nonce
  BY DEF Tx, Genuine
<1> HIDE DEF tx
<1>2. tx.policy = Asked(c, tx)
  BY <1>1 DEF Asked, Wanted
<1>3. tx.handler \in Checks
  BY <1>1, ChecksAll
<1>4. Approved(c, tx) \/ c.keys = <<>>
  BY <1>1, <1>2, <1>3 DEF Approved, Held
<1> QED
  BY <1>4 DEF tx

LEMMA NoProofNeeded ==
  ASSUME NEW r, NEW c, r.handler \in AllHandlers,
         \/ r.handler \notin {"withdraw", "upgrade", "add"}
         \/ r.handler = "withdraw" /\ Demand(c, r.amount) = "none"
  PROVE  Approved(c, Tx(r, r.handler))
<1> DEFINE tx == Tx(r, r.handler)
<1>1. tx.handler = r.handler /\ tx.amount = r.amount
  BY DEF Tx
<1> HIDE DEF tx
<1>2. Asked(c, tx) = "none"
  BY <1>1 DEF Asked, AllHandlers
<1>3. Approved(c, tx)
  BY <1>2 DEF Approved
<1> QED
  BY <1>3 DEF tx

\* Only some of the accounts matter to a handler's knowledge.
LEMMA SameKnowledge ==
  ASSUME NEW r, NEW c, NEW d, NEW cred, Informed(r, c, cred),
         d.keys = c.keys, d.nonce = c.nonce, d.window = c.window, d.cooling = c.cooling
  PROVE  Informed(r, d, cred)
<1>1. \A a : Demand(d, a) = Demand(c, a)
  BY DEF Demand
<1>2. Wanted(r, d) = Wanted(r, c)
  BY <1>1 DEF Wanted
<1>3. \A k : Held(d, k) <=> Held(c, k)
  BY DEF Held
<1>4. Approved(d, Tx(r, r.handler)) <=> Approved(c, Tx(r, r.handler))
  <2> DEFINE tx == Tx(r, r.handler)
  <2>1. Asked(d, tx) = Asked(c, tx)
    BY <1>1 DEF Asked
  <2> HIDE DEF tx
  <2>2. Approved(d, tx) <=> Approved(c, tx)
    BY <2>1 DEF Approved
  <2> QED
    BY <2>2 DEF tx
<1> QED
  BY <1>2, <1>3, <1>4 DEF Informed

\* Nothing of a handler is in flight before it sends, or once it has seen the result.
LEMMA NothingInFlight ==
  ASSUME CalmInv, NEW h \in Slots,
         run[h].pc \notin Sent \/ run[h].result # "none"
  PROVE  \A tx \in net : tx.id # run[h].id
BY DEF CalmInv

LEMMA OneKnows ==
  ASSUME PageInv, CalmInv, NEW h \in Slots, NEW s,
         run[h].pc # "done", run' = [x \in Slots |-> run'[x]], run'[h] = s,
         \A x \in Slots \ {h} : \/ run'[x] = [run[x] EXCEPT !.calm = FALSE]
                                \/ run'[x] = run[x] /\ ref' = ref,
         chain' = chain,
         s.id = run[h].id \/ s.id = 0,
         KnownOk(s, chain, ref'),
         \A tx \in net' \ net : tx.id = run[h].id,
         \A tx \in net' : tx.id = s.id =>
           s.pc \in Sent /\ s.result = "none" /\ tx = Sending(s)
  PROVE  CalmInv'
<1>1. /\ \A x \in Slots : RunOk(run[x], started) /\ KnownOk(run[x], chain, ref)
      /\ \A f, g \in Slots : (run[f].id = run[g].id /\ run[f].id # 0) => f = g
      /\ run[h].id # 0
  BY DEF PageInv, RunsOk, CalmInv, RunOk
<1>2. ASSUME NEW x \in Slots \ {h}
      PROVE  /\ KnownOk(run'[x], chain', ref')
             /\ run'[x].id = run[x].id /\ run'[x].pc = run[x].pc
             /\ run'[x].result = run[x].result /\ Sending(run'[x]) = Sending(run[x])
  <2> DEFINE r == run[x]
             q == run'[x]
  <2>1. RunOk(r, started) /\ KnownOk(r, chain, ref)
    BY <1>1
  <2>2. CASE q = [r EXCEPT !.calm = FALSE]
    <3>1. /\ q.id = r.id /\ q.pc = r.pc /\ q.result = r.result /\ q.handler = r.handler
          /\ q.amount = r.amount /\ q.made = r.made /\ q.key = r.key
          /\ q.nonce = r.nonce /\ q.policy = r.policy /\ q.good = r.good
          /\ q.calm = FALSE
      BY <2>1, <2>2 DEF RunOk, Shape, RunFields
    <3>2. Sending(q) = Sending(r)
      BY <3>1 DEF Sending, Tx
    <3>3. KnownOk(q, chain', ref')
      BY <2>1, <3>1 DEF KnownOk, Placed, Genuine
    <3> QED
      BY <3>1, <3>2, <3>3
  <2>3. CASE q = r /\ ref' = ref
    BY <2>1, <2>3
  <2> QED
    BY <2>2, <2>3
<1>3. \A x \in Slots : KnownOk(run'[x], chain', ref')
  BY <1>2
<1>4. \A f, g \in Slots : (run'[f].id = run'[g].id /\ run'[f].id # 0) => f = g
  BY <1>1, <1>2
<1>5. ASSUME NEW tx \in net', NEW x \in Slots, tx.id = run'[x].id
      PROVE  run'[x].pc \in Sent /\ run'[x].result = "none" /\ tx = Sending(run'[x])
  <2>1. CASE x = h
    BY <1>5, <2>1
  <2>2. CASE x # h
    <3>1. tx.id = run[x].id
      BY <1>2, <1>5, <2>2
    <3>2. tx \in net
      BY <1>1, <2>2, <3>1
    <3>3. run[x].pc \in Sent /\ run[x].result = "none" /\ tx = Sending(run[x])
      BY <3>1, <3>2 DEF CalmInv
    <3> QED
      BY <1>2, <2>2, <3>3
  <2> QED
    BY <2>1, <2>2
<1> QED
  BY <1>3, <1>4, <1>5 DEF CalmInv

LEMMA EndedKnows ==
  ASSUME NEW h, NEW claim \in {"none", "ok", "err"}, NEW c, NEW cred
  PROVE  LET s == Ended(h, claim) IN KnownOk(s, c, cred) /\ s.id = 0
<1> DEFINE s == Ended(h, claim)
<1>1. /\ s.pc = "done" /\ s.id = 0 /\ s.result = "none" /\ s.good = TRUE
      /\ s.handler = "none"
  BY DEF Ended, Idle
<1>a. s = Ended(h, claim)
  OBVIOUS
<1> HIDE DEF s
<1>2. KnownOk(s, c, cred)
  BY <1>1 DEF KnownOk, Placed, Informed, Genuine
<1> QED
  BY <1>1, <1>2, <1>a

LEMMA EndKnows ==
  ASSUME PageInv, CalmInv, NEW h \in Slots, NEW claim \in {"ok", "err"},
         run[h].pc # "done", run' = [run EXCEPT ![h] = Ended(h, claim)],
         UNCHANGED <<chain, net, ref>>
  PROVE  CalmInv'
<1> DEFINE s == Ended(h, claim)
<1>1. /\ run = [x \in Slots |-> run[x]]
      /\ run' = [run EXCEPT ![h] = s]
      /\ UNCHANGED <<chain, net, ref>>
      /\ \A tx \in net : TxOk(tx, started)
  BY DEF PageInv, RunsOk
<1>2. KnownOk(s, chain, ref) /\ s.id = 0
  BY EndedKnows
<1> HIDE DEF s
<1>3. \A tx \in net : tx.id # 0
  BY <1>1 DEF TxOk
<1>4. run' = [x \in Slots |-> run'[x]] /\ run'[h] = s
  BY <1>1
<1>5. \A x \in Slots \ {h} : run'[x] = run[x]
  BY <1>1
<1> QED
  BY <1>1, <1>2, <1>3, <1>4, <1>5, OneKnows

\* A handler with nothing in flight goes on.
LEMMA GoKnows ==
  ASSUME PageInv, CalmInv, NEW h \in Slots, NEW s, run[h].pc # "done",
         run' = [run EXCEPT ![h] = s], UNCHANGED <<chain, net, ref>>,
         run[h].pc \notin Sent \/ run[h].result # "none",
         s.id = run[h].id, KnownOk(s, chain, ref)
  PROVE  CalmInv'
<1>1. /\ run = [x \in Slots |-> run[x]]
      /\ run' = [run EXCEPT ![h] = s]
      /\ UNCHANGED <<chain, net, ref>>
  BY DEF PageInv, RunsOk
<1>2. \A tx \in net : tx.id # s.id
  BY NothingInFlight
<1>3. run' = [x \in Slots |-> run'[x]] /\ run'[h] = s
  BY <1>1
<1>4. \A x \in Slots \ {h} : run'[x] = run[x]
  BY <1>1
<1> QED
  BY <1>1, <1>2, <1>3, <1>4, OneKnows

LEMMA GoWithRefKnows ==
  ASSUME PageInv, CalmInv, NEW h \in Slots, NEW s, NEW cred, GoWithRef(h, s, cred),
         run[h].pc \notin Sent \cup {"done"},
         s.id = run[h].id, KnownOk(s, chain, cred)
  PROVE  CalmInv'
<1>1. /\ run = [x \in Slots |-> run[x]]
      /\ ref' = cred /\ UNCHANGED <<chain, net>>
  BY DEF PageInv, RunsOk, GoWithRef
<1>2. /\ run' = [x \in Slots |-> run'[x]] /\ run'[h] = s
      /\ \A x \in Slots \ {h} : \/ run'[x] = [run[x] EXCEPT !.calm = FALSE]
                                \/ run'[x] = run[x] /\ ref' = ref
  <2>1. CASE cred = ref
    BY <1>1, <2>1 DEF GoWithRef
  <2>2. CASE cred # ref
    <3>1. run' = [Disturbed(h) EXCEPT ![h] = s]
      BY <2>2 DEF GoWithRef
    <3>2. /\ Disturbed(h) = [x \in Slots |-> Disturbed(h)[x]]
          /\ \A x \in Slots \ {h} : Disturbed(h)[x] = [run[x] EXCEPT !.calm = FALSE]
      BY DEF Disturbed
    <3> QED
      BY <3>1, <3>2
  <2> QED
    BY <2>1, <2>2
<1>3. \A tx \in net : tx.id # s.id
  BY NothingInFlight
<1>4. KnownOk(s, chain, ref') /\ run[h].pc # "done"
  BY <1>1
<1> QED
  BY <1>1, <1>2, <1>3, <1>4, OneKnows

LEMMA SubmitsKnows ==
  ASSUME PageInv, CalmInv, NEW h \in Slots, NEW handler, NEW s, Submits(h, handler, s),
         run[h].pc \notin Sent \cup {"done"},
         \/ /\ s.id = run[h].id /\ KnownOk(s, chain, ref)
            /\ s.pc \in Sent /\ s.result = "none" /\ Sending(s) = Tx(run[h], handler)
         \/ s = Ended(h, "err")
  PROVE  CalmInv'
<1>1. /\ run = [x \in Slots |-> run[x]] /\ RunOk(run[h], started)
      /\ run' = [run EXCEPT ![h] = s]
      /\ net' = net \cup {Tx(run[h], handler)}
      /\ UNCHANGED <<chain, ref>>
      /\ \A tx \in net : TxOk(tx, started)
  BY DEF PageInv, RunsOk, Submits
<1>2. Tx(run[h], handler).id = run[h].id /\ run[h].id # 0
  BY <1>1 DEF Tx, RunOk
<1>3. run' = [x \in Slots |-> run'[x]] /\ run'[h] = s
  BY <1>1
<1>4. \A x \in Slots \ {h} : run'[x] = run[x]
  BY <1>1
<1>5. \A tx \in net : tx.id # run[h].id /\ tx.id # 0
  <2>1. \A tx \in net : tx.id # run[h].id
    BY NothingInFlight
  <2> QED
    BY <1>1, <2>1 DEF TxOk
<1>6. s = Ended(h, "err") => KnownOk(s, chain, ref) /\ s.id = 0
  BY EndedKnows
<1>7. /\ s.id = run[h].id \/ s.id = 0
      /\ KnownOk(s, chain, ref') /\ run[h].pc # "done"
      /\ \A tx \in net' \ net : tx.id = run[h].id
      /\ \A tx \in net' : tx.id = s.id =>
           s.pc \in Sent /\ s.result = "none" /\ tx = Sending(s)
  BY <1>1, <1>2, <1>5, <1>6
<1> QED
  BY <1>1, <1>3, <1>4, <1>7, OneKnows

\* Only the place changes, and a proof where it was made or asked for.
Edited(r, s, pc) ==
  /\ s.pc = pc /\ s.id = r.id /\ s.handler = r.handler /\ s.amount = r.amount
  /\ (Genuine(s) <=> Genuine(r)) /\ s.calm = r.calm

LEMMA PcEdited ==
  ASSUME NEW n, NEW r, RunOk(r, n), NEW pc
  PROVE  LET s == [r EXCEPT !.pc = pc]
         IN  /\ Edited(r, s, pc)
             /\ s.made = r.made /\ s.key = r.key /\ s.nonce = r.nonce
             /\ s.policy = r.policy /\ s.result = r.result /\ s.cred = r.cred
BY DEF RunOk, Shape, RunFields, Edited, Genuine

LEMMA ProvidedKnows ==
  ASSUME NEW n, NEW r, RunOk(r, n), NEW c, NEW cred,
         r.handler \in {"withdraw", "upgrade"}, r.result = "none", Genuine(r),
         r.calm => Held(c, cred)
  PROVE  Provided(r, cred).id = r.id /\ KnownOk(Provided(r, cred), c, cred)
<1>1. CASE r.handler = "withdraw"
  <2> DEFINE s == [r EXCEPT !.pc = "simulate"]
  <2>1. Edited(r, s, "simulate") /\ s.result = "none"
    BY PcEdited
  <2>2. Provided(r, cred) = s
    BY <1>1 DEF Provided
  <2> HIDE DEF s
  <2>3. KnownOk(s, c, cred)
    BY <1>1, <2>1 DEF KnownOk, Placed, Informed, Edited
  <2> QED
    BY <2>1, <2>2, <2>3 DEF Edited
<1>2. CASE r.handler = "upgrade"
  <2> DEFINE s == [r EXCEPT !.pc = "nonce", !.cred = cred, !.policy = "trana.require"]
  <2>1. /\ Edited(r, s, "nonce") /\ s.result = "none" /\ s.cred = cred
        /\ s.policy = "trana.require"
    BY DEF RunOk, Shape, RunFields, Edited, Genuine
  <2>2. Provided(r, cred) = s
    BY <1>2 DEF Provided
  <2> HIDE DEF s
  <2>3. KnownOk(s, c, cred)
    BY <1>2, <2>1 DEF KnownOk, Placed, Informed, Edited, Wanted
  <2> QED
    BY <2>1, <2>2, <2>3 DEF Edited
<1> QED
  BY <1>1, <1>2

LEMMA SlotKnown ==
  ASSUME PageInv, CalmInv, NEW h \in Slots
  PROVE  /\ RunOk(run[h], started) /\ Placed(run[h])
         /\ run[h].calm => Informed(run[h], chain, ref)
         /\ chain.keys # <<>> => chain.first = chain.keys[1] /\ 1 \in DOMAIN chain.keys
<1>1. chain.keys \in Seq(Creds) /\ (chain.keys # <<>> => chain.first = chain.keys[1])
  BY DEF PageInv, ChainOk
<1>2. chain.keys # <<>> => 1 \in DOMAIN chain.keys
  BY <1>1
<1> QED
  BY <1>1, <1>2 DEF PageInv, RunsOk, CalmInv, KnownOk

LEMMA LookupKnows ==
  ASSUME PageInv, CalmInv, NEW h \in Slots,
         \/ LooksForRegistry(h) \/ ReadsFirstPasskey(h) \/ MatchesKey(h)
         \/ ReadsAuthority(h) \/ ReadsNonce(h)
  PROVE  CalmInv'
<1> DEFINE r == run[h]
<1>1. /\ RunOk(r, started) /\ Placed(r) /\ (r.calm => Informed(r, chain, ref))
      /\ chain.keys # <<>> => chain.first = chain.keys[1] /\ 1 \in DOMAIN chain.keys
  BY SlotKnown
<1>2. r.pc \in {"look", "first", "match", "authority", "nonce"}
  BY DEF LooksForRegistry, ReadsFirstPasskey, MatchesKey, ReadsAuthority, ReadsNonce, At
<1>3. r.pc # "done" /\ r.pc \notin Sent /\ r.result = "none" /\ Genuine(r)
  BY <1>1, <1>2 DEF Placed, Sent
<1>4. ASSUME NEW pc, GoTo(h, pc), KnownOk([r EXCEPT !.pc = pc], chain, ref)
      PROVE  CalmInv'
  <2>1. [r EXCEPT !.pc = pc].id = r.id
    BY <1>1, PcEdited DEF Edited
  <2> QED
    BY <1>3, <1>4, <2>1, GoKnows DEF GoTo, Go
<1>5. End(h, "err") => CalmInv'
  BY <1>3, EndKnows DEF End
<1>6. CASE LooksForRegistry(h)
  <2>1. r.pc = "look" /\ (GoTo(h, "first") \/ GoTo(h, "create"))
    BY <1>6 DEF LooksForRegistry, At
  <2>2. ASSUME NEW pc \in {"first", "create"}
        PROVE  KnownOk([r EXCEPT !.pc = pc], chain, ref)
    <3> DEFINE s == [r EXCEPT !.pc = pc]
    <3>1. Edited(r, s, pc) /\ s.result = "none"
      BY <1>1, <1>3, PcEdited
    <3> HIDE DEF s
    <3>2. r.handler \in {"withdraw", "upgrade"}
      BY <1>1, <2>1 DEF Placed
    <3>3. KnownOk(s, chain, ref)
      BY <1>3, <3>1, <3>2 DEF KnownOk, Placed, Informed, Edited
    <3> QED
      BY <3>3 DEF s
  <2> QED
    BY <1>4, <2>1, <2>2
<1>7. CASE MatchesKey(h)
  <2>1. /\ r.pc = "match"
        /\ \/ End(h, "err")
           \/ GoTo(h, "send") /\ Held(chain, r.key)
    BY <1>7 DEF MatchesKey, At, Held
  <2>2. ASSUME Held(chain, r.key)
        PROVE  KnownOk([r EXCEPT !.pc = "send"], chain, ref)
    <3> DEFINE s == [r EXCEPT !.pc = "send"]
    <3>1. /\ Edited(r, s, "send") /\ s.result = "none" /\ s.key = r.key
          /\ s.nonce = r.nonce /\ s.policy = r.policy
      BY <1>1, <1>3, PcEdited
    <3> HIDE DEF s
    <3>2. r.handler = "add"
      BY <1>1, <2>1 DEF Placed
    <3>3. r.calm => r.policy = Wanted(r, chain) /\ r.nonce = chain.nonce
      BY <1>1, <2>1 DEF Informed
    <3>4. Wanted(s, chain) = Wanted(r, chain)
      BY <3>1 DEF Wanted, Edited
    <3>5. ASSUME s.calm
          PROVE  Approved(chain, Tx(s, s.handler)) \/ chain.keys = <<>>
      <4>1. /\ s.handler \in {"withdraw", "upgrade", "add"} /\ Genuine(s)
            /\ s.policy = Wanted(s, chain) /\ s.nonce = chain.nonce
            /\ Held(chain, s.key)
        BY <1>3, <2>2, <3>1, <3>2, <3>3, <3>4, <3>5 DEF Edited
      <4> QED
        BY <4>1, ProofReady
    <3>6. KnownOk(s, chain, ref)
      BY <1>3, <3>1, <3>2, <3>5 DEF KnownOk, Placed, Informed, Edited
    <3> QED
      BY <3>6 DEF s
  <2> QED
    BY <1>4, <1>5, <2>1, <2>2
<1>8. CASE ReadsAuthority(h)
  <2>1. r.pc = "authority" /\ (GoTo(h, "send") \/ End(h, "err"))
    BY <1>8 DEF ReadsAuthority, At
  <2>2. KnownOk([r EXCEPT !.pc = "send"], chain, ref)
    <3> DEFINE s == [r EXCEPT !.pc = "send"]
    <3>1. Edited(r, s, "send") /\ s.result = "none"
      BY <1>1, <1>3, PcEdited
    <3> HIDE DEF s
    <3>2. s.handler = "secure" /\ s.handler \in AllHandlers
      BY <1>1, <2>1, <3>1 DEF Placed, Edited, AllHandlers
    <3>3. Approved(chain, Tx(s, s.handler))
      BY <3>2, NoProofNeeded
    <3>4. KnownOk(s, chain, ref)
      BY <1>3, <3>1, <3>3 DEF KnownOk, Placed, Informed, Edited
    <3> QED
      BY <3>4 DEF s
  <2> QED
    BY <1>4, <1>5, <2>1, <2>2
<1>9. CASE ReadsNonce(h)
  <2> DEFINE s == [r EXCEPT !.nonce = chain.nonce, !.pc = "sign"]
  <2>1. r.pc = "nonce" /\ Go(h, s)
    BY <1>9, PageReadsNonce DEF ReadsNonce, At
  <2>2. /\ Edited(r, s, "sign") /\ s.result = r.result /\ s.nonce = chain.nonce
        /\ s.policy = r.policy /\ s.cred = r.cred
    BY <1>1 DEF RunOk, Shape, RunFields, Edited, Genuine
  <2> HIDE DEF s
  <2>3. r.handler \in {"withdraw", "upgrade", "add"}
    BY <1>1, <2>1 DEF Placed
  <2>4. Wanted(s, chain) = Wanted(r, chain)
    BY <2>2 DEF Wanted, Edited
  <2>5. r.calm => /\ r.policy = Wanted(r, chain)
                  /\ r.handler # "add" => Held(chain, r.cred)
    BY <1>1, <2>1 DEF Informed
  <2>6. KnownOk(s, chain, ref) /\ s.id = r.id
    BY <1>3, <2>2, <2>3, <2>4, <2>5 DEF KnownOk, Placed, Informed, Edited
  <2> QED
    BY <1>3, <2>1, <2>6, GoKnows DEF Go
<1>10. CASE ReadsFirstPasskey(h)
  <2>1. /\ r.pc = "first"
        /\ \/ End(h, "err")
           \/ r.handler = "add" /\ GoWithRef(h, [r EXCEPT !.pc = "create"], chain.first)
           \/ r.handler # "add" /\ GoWithRef(h, Provided(r, chain.first), chain.first)
    BY <1>10 DEF ReadsFirstPasskey, At, FirstPasskey
  <2>2. Held(chain, chain.first)
    BY <1>1 DEF Held
  <2>3. KnownOk([r EXCEPT !.pc = "create"], chain, chain.first)
    <3> DEFINE s == [r EXCEPT !.pc = "create"]
    <3>1. Edited(r, s, "create") /\ s.result = "none"
      BY <1>1, <1>3, PcEdited
    <3> HIDE DEF s
    <3>2. KnownOk(s, chain, chain.first)
      BY <1>3, <3>1 DEF KnownOk, Placed, Informed, Edited
    <3> QED
      BY <3>2 DEF s
  <2>4. [r EXCEPT !.pc = "create"].id = r.id
    BY <1>1, PcEdited DEF Edited
  <2>5. r.handler # "add" => r.handler \in {"withdraw", "upgrade"}
    BY <1>1, <2>1 DEF Placed
  <2>6. r.handler # "add" => /\ Provided(r, chain.first).id = r.id
                             /\ KnownOk(Provided(r, chain.first), chain, chain.first)
    BY <1>1, <1>3, <2>2, <2>5, ProvidedKnows
  <2> QED
    BY <1>3, <1>5, <2>1, <2>3, <2>4, <2>6, GoWithRefKnows
<1> QED
  BY <1>6, <1>7, <1>8, <1>9, <1>10

LEMMA CredentialKnows ==
  ASSUME PageInv, CalmInv, NEW h \in Slots,
         \/ DeclinesCredential(h) \/ CreatesCredential(h) \/ CreatesSecond(h)
         \/ Generates(h)
  PROVE  CalmInv'
<1> DEFINE r == run[h]
<1>1. /\ RunOk(r, started) /\ Placed(r) /\ run = [x \in Slots |-> run[x]]
      /\ r.pc = "create"
  BY SlotKnown DEF PageInv, RunsOk, DeclinesCredential, CreatesCredential, CreatesSecond,
     Generates, At
<1>2. r.pc # "done" /\ r.pc \notin Sent /\ r.result = "none" /\ Genuine(r)
  BY <1>1 DEF Placed, Sent
<1>3. CASE DeclinesCredential(h)
  BY <1>2, <1>3, EndKnows DEF DeclinesCredential, End
<1>4. CASE Generates(h)
  BY <1>2, <1>4, EndKnows DEF Generates
<1>5. CASE CreatesCredential(h)
  <2> DEFINE s == [r EXCEPT !.made = r.id, !.pc = "register"]
  <2>1. GoWithRef(h, s, r.id) /\ r.handler \in {"withdraw", "upgrade"}
    BY <1>5 DEF CreatesCredential
  <2>2. Edited(r, s, "register") /\ s.made = r.id /\ s.result = r.result
    BY <1>1 DEF RunOk, Shape, RunFields, Edited, Genuine
  <2> HIDE DEF s
  <2>3. KnownOk(s, chain, r.id) /\ s.id = r.id
    BY <1>2, <2>1, <2>2 DEF KnownOk, Placed, Informed, Edited
  <2> QED
    BY <1>2, <2>1, <2>3, GoWithRefKnows
<1>6. CASE CreatesSecond(h)
  <2> DEFINE s == [r EXCEPT !.made = r.id, !.policy = "trana.require", !.pc = "nonce"]
  <2>1. /\ run' = [run EXCEPT ![h] = s] /\ UNCHANGED <<chain, net, ref>>
        /\ r.handler = "add"
    BY <1>1, <1>6 DEF CreatesSecond
  <2>2. Edited(r, s, "nonce") /\ s.policy = "trana.require" /\ s.result = r.result
    BY <1>1 DEF RunOk, Shape, RunFields, Edited, Genuine
  <2> HIDE DEF s
  <2>3. KnownOk(s, chain, ref) /\ s.id = r.id
    BY <1>2, <2>1, <2>2 DEF KnownOk, Placed, Informed, Edited, Wanted
  <2> QED
    BY <1>2, <2>1, <2>3, GoKnows
<1> QED
  BY <1>3, <1>4, <1>5, <1>6

LEMMA ProofKnows ==
  ASSUME PageInv, CalmInv, NEW h \in Slots,
         RegistrationConfirmed(h) \/ Simulates(h) \/ Signs(h)
  PROVE  CalmInv'
<1> DEFINE r == run[h]
<1>1. /\ RunOk(r, started) /\ Placed(r) /\ (r.calm => Informed(r, chain, ref))
      /\ r.pc \in {"registering", "simulate", "sign"}
  BY SlotKnown DEF RegistrationConfirmed, Simulates, Signs, At
<1>2. r.pc # "done" /\ Genuine(r)
  BY <1>1 DEF Placed
<1>3. End(h, "err") => CalmInv'
  BY <1>2, EndKnows DEF End
<1>4. CASE RegistrationConfirmed(h)
  <2> DEFINE q == [r EXCEPT !.result = "none"]
             s == Provided(q, ref)
  <2>1. /\ r.pc = "registering"
        /\ End(h, "err") \/ (r.result = "ok" /\ Go(h, s))
    BY <1>4 DEF RegistrationConfirmed, At
  <2>2. ASSUME r.result = "ok", Go(h, s)
        PROVE  CalmInv'
    <3>1. /\ Shape(q, RunFields) /\ q.handler = r.handler /\ q.id = r.id
          /\ q.amount = r.amount /\ q.claim = r.claim /\ q.made = r.made
          /\ q.nonce = r.nonce /\ q.pc = r.pc /\ q.result = "none"
          /\ (Genuine(q) <=> Genuine(r)) /\ q.calm = r.calm
      BY <1>1 DEF RunOk, Shape, RunFields, Genuine
    <3> HIDE DEF q
    <3>2. RunOk(q, started)
      BY <1>1, <3>1 DEF RunOk
    <3>3. q.handler \in {"withdraw", "upgrade"}
      BY <1>1, <2>1, <3>1 DEF Placed
    <3>4. q.calm => Held(chain, ref)
      BY <1>1, <2>1, <2>2, <3>1 DEF Informed
    <3>5. s.id = q.id /\ KnownOk(s, chain, ref)
      BY <1>2, <3>1, <3>2, <3>3, <3>4, ProvidedKnows
    <3> HIDE DEF s
    <3> QED
      BY <1>2, <2>2, <3>1, <3>5, GoKnows DEF Go
  <2> QED
    BY <1>3, <2>1, <2>2
<1>5. CASE Simulates(h)
  <2> DEFINE demand == Demand(chain, r.amount)
             s == [r EXCEPT !.pc = "nonce", !.policy = ProofPolicy(demand), !.cred = ref]
             t == [r EXCEPT !.pc = "send"]
  <2>1. /\ r.pc = "simulate"
        /\ \/ End(h, "err")
           \/ demand = "none" /\ Go(h, t)
           \/ demand # "none" /\ Go(h, s)
    BY <1>5 DEF Simulates, At, GoTo
  <2>2. r.handler = "withdraw" /\ r.result = "none" /\ r.pc \notin Sent
    BY <1>1, <2>1 DEF Placed, Sent
  <2>3. r.calm => Held(chain, ref)
    BY <1>1, <2>1 DEF Informed
  <2>4. ASSUME demand = "none"
        PROVE  KnownOk(t, chain, ref) /\ t.id = r.id
    <3>1. Edited(r, t, "send") /\ t.result = "none"
      BY <1>1, <2>2, PcEdited
    <3> HIDE DEF t
    <3>2. t.handler \in AllHandlers /\ t.handler = "withdraw" /\ Demand(chain, t.amount) = "none"
      BY <2>2, <2>4, <3>1 DEF Edited, AllHandlers
    <3>3. Approved(chain, Tx(t, t.handler))
      BY <3>2, NoProofNeeded
    <3> QED
      BY <1>2, <2>2, <3>1, <3>3 DEF KnownOk, Placed, Informed, Edited
  <2>5. ASSUME demand # "none"
        PROVE  KnownOk(s, chain, ref) /\ s.id = r.id
    <3>1. ProofPolicy(demand) = demand
      BY <2>5 DEF ProofPolicy, Demand
    <3>2. /\ Edited(r, s, "nonce") /\ s.result = r.result
          /\ s.policy = ProofPolicy(demand) /\ s.cred = ref
      BY <1>1 DEF RunOk, Shape, RunFields, Edited, Genuine
    <3> HIDE DEF s
    <3>3. s.policy = Wanted(s, chain)
      BY <2>2, <3>1, <3>2 DEF Wanted, Edited
    <3> QED
      BY <1>2, <2>2, <2>3, <3>2, <3>3 DEF KnownOk, Placed, Informed, Edited
  <2> HIDE DEF s, t, demand
  <2>6. \/ End(h, "err")
        \/ \E u \in {s, t} : Go(h, u) /\ KnownOk(u, chain, ref) /\ u.id = r.id
    BY <2>1, <2>4, <2>5
  <2> QED
    BY <1>2, <1>3, <2>2, <2>6, GoKnows DEF Go
<1>6. CASE Signs(h)
  <2> DEFINE pc == IF r.handler = "add" THEN "match" ELSE "send"
             s(k, good) == [r EXCEPT !.key = k, !.good = good, !.pc = pc]
  <2>1. /\ r.pc = "sign"
        /\ \/ End(h, "err")
           \/ \E k \in Allowed(r), good \in SignatureOutcomes : Go(h, s(k, good))
    BY <1>6 DEF Signs, At
  <2>2. /\ r.handler \in {"withdraw", "upgrade", "add"} /\ r.result = "none"
        /\ r.pc \notin Sent
    BY <1>1, <2>1 DEF Placed, Sent
  <2>3. r.calm => /\ r.policy = Wanted(r, chain) /\ r.nonce = chain.nonce
                  /\ r.handler # "add" => Held(chain, r.cred)
    BY <1>1, <2>1 DEF Informed
  <2>4. ASSUME NEW k \in Allowed(r), Go(h, s(k, TRUE))
        PROVE  CalmInv'
    <3> DEFINE q == s(k, TRUE)
    <3>1. r.handler # "add" => k = r.cred
      BY DEF Allowed
    <3>2. /\ q.pc = pc /\ q.id = r.id /\ q.handler = r.handler /\ q.amount = r.amount
          /\ Genuine(q) /\ q.calm = r.calm /\ q.result = r.result /\ q.key = k
          /\ q.nonce = r.nonce /\ q.policy = r.policy
      BY <1>1 DEF RunOk, Shape, RunFields, Genuine
    <3>3. Go(h, q)
      BY <2>4
    <3> HIDE DEF q, s
    <3>4. Wanted(q, chain) = Wanted(r, chain)
      BY <3>2 DEF Wanted
    <3>5. ASSUME q.calm, q.handler # "add"
          PROVE  Approved(chain, Tx(q, q.handler)) \/ chain.keys = <<>>
      <4>1. /\ q.handler \in {"withdraw", "upgrade", "add"} /\ Genuine(q)
            /\ q.policy = Wanted(q, chain) /\ q.nonce = chain.nonce
            /\ Held(chain, q.key)
        BY <2>2, <2>3, <3>1, <3>2, <3>4, <3>5
      <4> QED
        BY <4>1, ProofReady
    <3>6. KnownOk(q, chain, ref)
      BY <2>2, <2>3, <3>2, <3>4, <3>5 DEF KnownOk, Placed, Informed
    <3> QED
      BY <1>2, <2>2, <3>2, <3>3, <3>6, GoKnows DEF Go
  <2> HIDE DEF s
  <2> QED
    BY <1>3, <2>1, <2>4, SignaturesGood
<1> QED
  BY <1>4, <1>5, <1>6

LEMMA SendKnows ==
  ASSUME PageInv, CalmInv, NEW h \in Slots,
         SendsRegistration(h) \/ WalletRefuses(h) \/ WalletSends(h)
  PROVE  CalmInv'
<1> DEFINE r == run[h]
<1>1. /\ RunOk(r, started) /\ Placed(r) /\ (r.calm => Informed(r, chain, ref))
      /\ r.pc \in {"register", "send"}
  BY SlotKnown DEF SendsRegistration, WalletRefuses, WalletSends, At
<1>2. r.pc \notin Sent \cup {"done"} /\ r.pc # "done" /\ r.result = "none" /\ Genuine(r)
  BY <1>1 DEF Placed, Sent
<1>3. End(h, "err") => CalmInv'
  BY <1>2, EndKnows DEF End
<1>4. ASSUME NEW pc, r.pc = "register" => pc = "registering",
             r.pc = "send" => pc \in {"wait", "recent"}
      PROVE  LET s == [r EXCEPT !.pc = pc]
                 handler == IF r.pc = "register" THEN "register" ELSE r.handler
             IN  /\ s.id = r.id /\ KnownOk(s, chain, ref)
                 /\ s.pc \in Sent /\ s.result = "none" /\ Sending(s) = Tx(r, handler)
  <2> DEFINE s == [r EXCEPT !.pc = pc]
  <2>a. s = [r EXCEPT !.pc = pc]
    OBVIOUS
  <2>1. /\ Edited(r, s, pc) /\ s.made = r.made /\ s.key = r.key /\ s.nonce = r.nonce
        /\ s.policy = r.policy /\ s.result = r.result /\ s.good = r.good
    BY <1>1, PcEdited DEF RunOk, Shape, RunFields
  <2> HIDE DEF s
  <2>2. pc \in Sent /\ (pc = "registering" <=> r.pc = "register")
    BY <1>1, <1>4 DEF Sent
  <2>3. \A x : Tx(s, x) = Tx(r, x)
    BY <2>1 DEF Tx, Edited
  <2>4. s.handler = r.handler
    BY <2>1 DEF Edited
  <2>5. r.calm => Informed(s, chain, ref)
    BY <1>1, <1>2, <1>4, <2>1, <2>3, <2>4 DEF Informed, Edited
  <2>6. Placed(s)
    BY <1>1, <1>2, <1>4, <2>1, <2>2 DEF Placed, Edited
  <2>7. KnownOk(s, chain, ref)
    BY <2>1, <2>5, <2>6 DEF KnownOk, Edited
  <2> QED
    BY <1>2, <2>a, <2>1, <2>2, <2>3, <2>4, <2>7 DEF Sending, Edited
<1>5. CASE SendsRegistration(h)
  <2> DEFINE s == [r EXCEPT !.pc = "registering"]
  <2>1. /\ r.pc = "register"
        /\ \/ End(h, "err")
           \/ Submits(h, "register", s)
           \/ Submits(h, "register", Ended(h, "err"))
    BY <1>5 DEF SendsRegistration, At
  <2>2. /\ s.id = r.id /\ KnownOk(s, chain, ref)
        /\ s.pc \in Sent /\ s.result = "none" /\ Sending(s) = Tx(r, "register")
    BY <1>4, <2>1
  <2> HIDE DEF s
  <2> QED
    BY <1>2, <1>3, <2>1, <2>2, SubmitsKnows
<1>6. ASSUME r.pc = "send", r.handler = "withdraw"
      PROVE  /\ Thrown(h).id = r.id /\ KnownOk(Thrown(h), chain, ref)
             /\ Thrown(h).pc \in Sent /\ Thrown(h).result = "none"
             /\ Sending(Thrown(h)) = Tx(r, r.handler)
  <2>1. Thrown(h) = [r EXCEPT !.pc = "recent"]
    BY <1>6 DEF Thrown
  <2> QED
    BY <1>4, <1>6, <2>1
<1>7. r.handler # "withdraw" => Thrown(h) = Ended(h, "err")
  BY DEF Thrown
<1>8. CASE WalletRefuses(h)
  <2>1. /\ r.pc = "send"
        /\ \/ r.handler = "withdraw" /\ Go(h, Thrown(h))
           \/ End(h, "err")
    BY <1>8 DEF WalletRefuses, At
  <2> QED
    BY <1>2, <1>3, <1>6, <2>1, GoKnows DEF Go
<1>9. CASE WalletSends(h)
  <2> DEFINE s == [r EXCEPT !.pc = "wait"]
  <2>1. /\ r.pc = "send"
        /\ Submits(h, r.handler, s) \/ Submits(h, r.handler, Thrown(h))
    BY <1>9 DEF WalletSends, At
  <2>2. /\ s.id = r.id /\ KnownOk(s, chain, ref)
        /\ s.pc \in Sent /\ s.result = "none" /\ Sending(s) = Tx(r, r.handler)
    BY <1>4, <2>1
  <2> HIDE DEF s
  <2>3. Submits(h, r.handler, s) => CalmInv'
    BY <1>2, <2>2, SubmitsKnows
  <2>4. Submits(h, r.handler, Thrown(h)) => CalmInv'
    BY <1>2, <1>6, <1>7, <2>1, SubmitsKnows
  <2> QED
    BY <2>1, <2>3, <2>4
<1> QED
  BY <1>5, <1>8, <1>9

LEMMA ReportKnows ==
  ASSUME PageInv, CalmInv, NEW h \in Slots,
         ChecksRecent(h) \/ Confirms(h) \/ ConfirmThrows(h)
  PROVE  CalmInv'
<1> DEFINE r == run[h]
<1>1. r.pc # "done"
  BY DEF ChecksRecent, Confirms, ConfirmThrows, At
<1>2. CASE ConfirmThrows(h)
  BY <1>1, <1>2, EndKnows DEF ConfirmThrows, End
<1>3. CASE ChecksRecent(h)
  <2>1. PICK claim \in {"ok", "err"} : run' = [run EXCEPT ![h] = Ended(h, claim)]
    BY <1>3 DEF ChecksRecent
  <2> QED
    BY <1>1, <1>3, <2>1, EndKnows DEF ChecksRecent
<1>4. CASE Confirms(h)
  <2> DEFINE claim == ConfirmClaim(r)
             s == Ended(h, claim)
             stirs == r.handler = "add" /\ claim = "ok"
  <2>1. /\ run' = [IF stirs THEN Disturbed(h) ELSE run EXCEPT ![h] = s]
        /\ ref' = IF stirs THEN r.made ELSE ref
        /\ UNCHANGED <<chain, net>>
    BY <1>4 DEF Confirms
  <2>2. claim \in {"ok", "err"}
    BY DEF ConfirmClaim
  <2>3. KnownOk(s, chain, ref') /\ s.id = 0
    BY <2>2, EndedKnows
  <2> HIDE DEF claim, s, stirs
  <2>4. /\ run' = [x \in Slots |-> run'[x]] /\ run'[h] = s
        /\ \A x \in Slots \ {h} : \/ run'[x] = [run[x] EXCEPT !.calm = FALSE]
                                  \/ run'[x] = run[x] /\ ref' = ref
    <3>1. /\ Disturbed(h) = [x \in Slots |-> Disturbed(h)[x]]
          /\ \A x \in Slots \ {h} : Disturbed(h)[x] = [run[x] EXCEPT !.calm = FALSE]
      BY DEF Disturbed
    <3>2. CASE stirs
      BY <2>1, <3>1, <3>2
    <3>3. CASE ~stirs
      <4>1. run = [x \in Slots |-> run[x]]
        BY DEF PageInv, RunsOk
      <4> QED
        BY <2>1, <3>3, <4>1
    <3> QED
      BY <3>2, <3>3
  <2>5. \A tx \in net : tx.id # 0
    BY DEF PageInv, TxOk
  <2> QED
    BY <1>1, <2>1, <2>3, <2>4, <2>5, OneKnows
<1> QED
  BY <1>2, <1>3, <1>4

LEMMA ClickKnows ==
  ASSUME PageInv, CalmInv, NEW h \in Slots, NEW handler \in AllHandlers, NEW amount \in Nat,
         Click(h, handler, amount)
  PROVE  CalmInv'
<1> DEFINE s == [Idle EXCEPT !.handler = handler, !.amount = amount,
                             !.id = started + 1, !.pc = FirstStep(handler)]
<1>1. /\ run = [x \in Slots |-> run[x]] /\ \A x \in Slots : RunOk(run[x], started)
      /\ started \in Nat /\ \A tx \in net : TxOk(tx, started)
  BY DEF PageInv, RunsOk
<1>2. run' = [run EXCEPT ![h] = s] /\ UNCHANGED <<chain, net, ref>>
  BY DEF Click
<1>3. /\ s.handler = handler /\ s.pc = FirstStep(handler) /\ s.id = started + 1
      /\ s.result = "none" /\ Genuine(s)
  BY DEF Idle, Genuine
<1> HIDE DEF s
<1>4. /\ s.pc \in {"look", "send", "create", "first", "authority"}
      /\ s.pc = "look" => handler \in {"withdraw", "upgrade"}
      /\ s.pc = "first" => handler = "add"
      /\ s.pc = "authority" => handler = "secure"
      /\ s.pc = "send" => handler = "deposit"
  BY <1>3 DEF FirstStep, AllHandlers
<1>5. handler = "deposit" => Approved(chain, Tx(s, s.handler))
  BY <1>3, NoProofNeeded
<1>6. KnownOk(s, chain, ref)
  BY <1>3, <1>4, <1>5 DEF KnownOk, Placed, Informed
<1>7. \A x \in Slots : run[x].id # started + 1
  <2>1. \A x \in Slots : run[x].id \in 0..started
    BY <1>1 DEF RunOk
  <2> QED
    BY <1>1, <2>1
<1>8. \A tx \in net : tx.id # started + 1
  <2>1. \A tx \in net : tx.id \in 1..started
    BY <1>1 DEF TxOk
  <2> QED
    BY <1>1, <2>1
<1>9. run'[h] = s /\ \A x \in Slots \ {h} : run'[x] = run[x]
  BY <1>1, <1>2
<1> QED
  BY <1>2, <1>3, <1>6, <1>7, <1>8, <1>9 DEF CalmInv

\* A handler whose calm is gone knows nothing, and has in flight what it had.
LEMMA Uncalmed ==
  ASSUME NEW n, NEW r, RunOk(r, n), Placed(r), NEW c, NEW cred
  PROVE  LET q == [r EXCEPT !.calm = FALSE]
         IN  /\ KnownOk(q, c, cred) /\ q.id = r.id /\ q.pc = r.pc /\ q.result = r.result
             /\ Sending(q) = Sending(r)
<1> DEFINE q == [r EXCEPT !.calm = FALSE]
<1>a. q = [r EXCEPT !.calm = FALSE]
  OBVIOUS
<1>1. /\ q.id = r.id /\ q.pc = r.pc /\ q.result = r.result /\ q.handler = r.handler
      /\ q.amount = r.amount /\ q.made = r.made /\ q.key = r.key
      /\ q.nonce = r.nonce /\ q.policy = r.policy /\ q.good = r.good
      /\ q.calm = FALSE
  BY DEF RunOk, Shape, RunFields
<1> HIDE DEF q
<1>2. Sending(q) = Sending(r)
  BY <1>1 DEF Sending, Tx
<1>3. KnownOk(q, c, cred)
  BY <1>1 DEF KnownOk, Placed, Genuine
<1> QED
  BY <1>a, <1>1, <1>2, <1>3

\* What the cluster makes of the chain decides what others still know.
LEMMA ClusterKnows ==
  ASSUME PageInv, CalmInv, NEW tx \in net, Lands(tx) \/ Expires(tx)
  PROVE  CalmInv'
<1>1. /\ ChainOk(chain) /\ TxOk(tx, started) /\ started \in Nat
      /\ \A x \in Slots : RunOk(run[x], started) /\ KnownOk(run[x], chain, ref)
      /\ \A f, g \in Slots : (run[f].id = run[g].id /\ run[f].id # 0) => f = g
      /\ net' = net \ {tx} /\ ref' = ref
  BY DEF PageInv, RunsOk, CalmInv, Lands, Expires
<1>2. PICK res \in {"ok", "error", "expired"} :
        \/ /\ res = "ok" /\ run' = Settled(Shaken(tx), tx, res)
           /\ Succeeds(chain, tx) /\ chain' = [After(chain, tx) EXCEPT !.recent = "ok"]
        \/ /\ res # "ok" /\ run' = Settled(run, tx, res)
           /\ chain' = chain \/ chain' = [chain EXCEPT !.recent = "error"]
  BY DEF Lands, Expires
<1>3. ASSUME NEW x \in Slots
      PROVE  run'[x] = IF run[x].id = tx.id THEN [run[x] EXCEPT !.result = res]
                       ELSE IF res = "ok" THEN [run[x] EXCEPT !.calm = FALSE] ELSE run[x]
  <2> DEFINE q == [run[x] EXCEPT !.calm = FALSE]
  <2>1. q.id = run[x].id
    BY <1>1 DEF RunOk, Shape, RunFields
  <2> HIDE DEF q
  <2>2. Shaken(tx)[x] = IF run[x].id = tx.id THEN run[x] ELSE q
    BY DEF Shaken, q
  <2>3. CASE res = "ok"
    <3>1. run'[x] = IF Shaken(tx)[x].id = tx.id
                    THEN [Shaken(tx)[x] EXCEPT !.result = res] ELSE Shaken(tx)[x]
      BY <1>2, <2>3 DEF Settled
    <3> QED
      BY <2>1, <2>2, <2>3, <3>1 DEF q
  <2>4. CASE res # "ok"
    BY <1>2, <2>4 DEF Settled
  <2> QED
    BY <2>3, <2>4
<1>4. res # "ok" => /\ chain'.keys = chain.keys /\ chain'.nonce = chain.nonce
                    /\ chain'.window = chain.window /\ chain'.cooling = chain.cooling
  BY <1>1, <1>2 DEF ChainOk, Shape, ChainFields
<1>5. ASSUME res = "ok", tx.handler = "register"
      PROVE  Held(chain', tx.made)
  <2> DEFINE d == [chain EXCEPT !.nonce = IF Asked(chain, tx) = "none" THEN @ ELSE @ + 1]
             e == WithKeys(d, <<tx.made>>)
  <2>1. chain' = [e EXCEPT !.recent = "ok"]
    BY <1>2, <1>5 DEF After
  <2>2. Shape(d, ChainFields)
    BY <1>1 DEF ChainOk, Shape, ChainFields
  <2> HIDE DEF d
  <2>3. Shape(e, ChainFields) /\ e.keys = <<tx.made>>
    BY <2>2 DEF WithKeys, Shape, ChainFields
  <2> HIDE DEF e
  <2>4. chain'.keys = <<tx.made>>
    BY <2>1, <2>3 DEF Shape, ChainFields
  <2>5. 1 \in DOMAIN chain'.keys /\ chain'.keys[1] = tx.made
    BY <2>4
  <2> QED
    BY <2>5 DEF Held
<1>6. ASSUME NEW x \in Slots
      PROVE  /\ KnownOk(run'[x], chain', ref') /\ run'[x].id = run[x].id
             /\ run[x].id # tx.id => /\ run'[x].pc = run[x].pc
                                     /\ run'[x].result = run[x].result
                                     /\ Sending(run'[x]) = Sending(run[x])
  <2> DEFINE r == run[x]
             q == run'[x]
  <2>1. RunOk(r, started) /\ Placed(r) /\ (r.calm => Informed(r, chain, ref))
    BY <1>1 DEF KnownOk
  <2>2. CASE r.id = tx.id
    <3>1. r.pc \in Sent /\ r.result = "none" /\ tx = Sending(r)
      BY <2>2 DEF CalmInv
    <3>2. /\ q.id = r.id /\ q.handler = r.handler /\ q.pc = r.pc /\ q.made = r.made
          /\ q.calm = r.calm /\ q.good = r.good /\ q.result = res
      BY <1>3, <2>1, <2>2 DEF RunOk, Shape, RunFields
    <3>3. r.pc = "registering" => tx.handler = "register" /\ tx.made = r.made
      BY <3>1 DEF Sending, Tx
    <3>4. Placed(q)
      BY <2>1, <3>1, <3>2 DEF Placed, Genuine
    <3>5. r.calm => Informed(q, chain', ref')
      BY <1>1, <1>2, <1>5, <2>1, <3>1, <3>2, <3>3 DEF Informed, Sent
    <3> QED
      BY <2>2, <3>2, <3>4, <3>5 DEF KnownOk
  <2>3. CASE r.id # tx.id /\ res = "ok"
    <3>1. q = [r EXCEPT !.calm = FALSE]
      BY <1>3, <2>3
    <3> QED
      BY <2>1, <3>1, Uncalmed
  <2>4. CASE r.id # tx.id /\ res # "ok"
    <3>1. q = r
      BY <1>3, <2>4
    <3>2. r.calm => Informed(r, chain', ref)
      BY <1>4, <2>1, <2>4, SameKnowledge
    <3> QED
      BY <1>1, <2>1, <3>1, <3>2 DEF KnownOk
  <2> QED
    BY <2>2, <2>3, <2>4
<1>7. \A f, g \in Slots : (run'[f].id = run'[g].id /\ run'[f].id # 0) => f = g
  BY <1>1, <1>6
<1>8. ASSUME NEW ux \in net', NEW x \in Slots, ux.id = run'[x].id
      PROVE  run'[x].pc \in Sent /\ run'[x].result = "none" /\ ux = Sending(run'[x])
  <2>1. ux \in net /\ ux # tx /\ ux.id = run[x].id
    BY <1>1, <1>6, <1>8
  <2>2. run[x].pc \in Sent /\ run[x].result = "none" /\ ux = Sending(run[x])
    BY <2>1 DEF CalmInv
  <2>3. run[x].id # tx.id
    BY <2>1, <2>2 DEF CalmInv
  <2> QED
    BY <1>6, <2>2, <2>3
<1> QED
  BY <1>6, <1>7, <1>8 DEF CalmInv

LEMMA ChangesKnow ==
  ASSUME PageInv, CalmInv, NEW c, Changes(c)
  PROVE  CalmInv'
<1>1. /\ UNCHANGED <<net, ref>>
      /\ run' = [x \in Slots |-> [run[x] EXCEPT !.calm = FALSE]]
  BY DEF Changes
<1>2. ASSUME NEW x \in Slots
      PROVE  /\ KnownOk(run'[x], chain', ref') /\ run'[x].id = run[x].id
             /\ run'[x].pc = run[x].pc /\ run'[x].result = run[x].result
             /\ Sending(run'[x]) = Sending(run[x])
  <2>1. RunOk(run[x], started) /\ Placed(run[x])
    BY SlotKnown
  <2>2. run'[x] = [run[x] EXCEPT !.calm = FALSE]
    BY <1>1
  <2> QED
    BY <2>1, <2>2, Uncalmed
<1> QED
  BY <1>1, <1>2 DEF CalmInv

LEMMA OthersKnow ==
  ASSUME PageInv, CalmInv,
         \/ TimePasses \/ Polls
         \/ KeysElsewhere \/ RecoversElsewhere \/ ReclaimsElsewhere \/ SpendsElsewhere
  PROVE  CalmInv'
<1>1. CASE Polls
  BY <1>1 DEF Polls, CalmInv
<1>2. ASSUME NEW c, Changes(c)
      PROVE  CalmInv'
  BY <1>2, ChangesKnow
<1>3. ASSUME NEW c, Elsewhere(c)
      PROVE  CalmInv'
  BY <1>2, <1>3 DEF Elsewhere
<1>4. CASE TimePasses
  BY <1>2, <1>4 DEF TimePasses
<1>5. CASE KeysElsewhere
  BY <1>3, <1>5 DEF KeysElsewhere
<1>6. CASE RecoversElsewhere
  BY <1>3, <1>6 DEF RecoversElsewhere
<1>7. CASE ReclaimsElsewhere
  BY <1>3, <1>7 DEF ReclaimsElsewhere
<1>8. CASE SpendsElsewhere
  BY <1>3, <1>8 DEF SpendsElsewhere
<1> QED
  BY <1>1, <1>4, <1>5, <1>6, <1>7, <1>8

LEMMA CalmSteps ==
  ASSUME PageInv, CalmInv, Next
  PROVE  CalmInv'
<1>1. ASSUME NEW h \in Slots, HandlerStep(h)
      PROVE  CalmInv'
  BY <1>1, LookupKnows, CredentialKnows, ProofKnows, SendKnows, ReportKnows
     DEF HandlerStep
<1>2. ASSUME NEW h \in Slots, NEW handler \in Handlers, NEW amount \in 1..Limit,
             Click(h, handler, amount)
      PROVE  CalmInv'
  <2>1. handler \in AllHandlers /\ amount \in Nat
    BY PageAssumption, Numbers
  <2> QED
    BY <1>2, <2>1, ClickKnows
<1>3. ASSUME NEW tx \in net, Lands(tx) \/ Expires(tx)
      PROVE  CalmInv'
  BY <1>3, ClusterKnows
<1> QED
  BY <1>1, <1>2, <1>3, OthersKnow DEF Next

LEMMA CalmStarts ==
  ASSUME Init
  PROVE  CalmInv
<1>1. \A h \in Slots : run[h] = Idle
  BY DEF Init
<1>2. KnownOk(Idle, chain, ref) /\ Idle.id = 0
  BY DEF KnownOk, Placed, Informed, Genuine, Idle
<1>3. net = {}
  BY DEF Init
<1> QED
  BY <1>1, <1>2, <1>3 DEF CalmInv

(* A handler that nobody interferes with makes a proof the guard accepts:  *)
(* the credential, the policy and the nonce it read still stand when its   *)
(* transaction is under way, and its signature is one the precompile       *)
(* takes, however many handlers overlap and whatever other sessions do.    *)
THEOREM CalmHandlersPass == LandingSpec => []CalmProofsAccepted
<1>1. LandingInit => CalmInv
  BY CalmStarts DEF LandingInit
<1>2. PageInv /\ CalmInv /\ [LandingNext]_siteVars => CalmInv'
  <2>1. ASSUME PageInv, CalmInv, [LandingNext]_siteVars
        PROVE  Next \/ UNCHANGED vars
    BY <2>1 DEF LandingNext, siteVars
  <2>2. CalmInv /\ UNCHANGED vars => CalmInv'
    BY DEF vars, CalmInv
  <2> QED
    BY <2>1, <2>2, CalmSteps
<1>3. CalmInv => CalmProofsAccepted
  <2> SUFFICES ASSUME CalmInv, NEW tx \in net, NEW h \in Slots,
                      run[h].id = tx.id, run[h].calm, tx.handler # "register"
               PROVE  Approved(chain, tx) \/ chain.keys = <<>>
    BY DEF CalmProofsAccepted
  <2> DEFINE r == run[h]
  <2>1. /\ r.pc \in Sent /\ r.result = "none" /\ tx = Sending(r)
        /\ Informed(r, chain, ref)
    BY DEF CalmInv, KnownOk
  <2>2. r.pc # "registering"
    BY <2>1 DEF Sending, Tx
  <2>3. tx = Tx(r, r.handler) /\ r.pc \in {"wait", "recent"}
    BY <2>1, <2>2 DEF Sending, Sent
  <2> QED
    BY <2>1, <2>3 DEF Informed
<1> QED
  BY PageInvariant, <1>1, <1>2, <1>3, PTL DEF LandingSpec

-----------------------------------------------------------------------------
(* The illustrations: what their scripts tell, and where they look.        *)

Scenes == Sections \cup Panels \cup {Slide}
Facts  == {"needs", "blocked", "asking", "tick", "done"}

\* Between two looks at the flag a section writes once at most; the last beat is
\* followed by the script's own look.
Watched(s) ==
  /\ Len(s) \in Nat \ {0} /\ ~s[1].before
  /\ \A j \in 1..Len(s) - 1 : \/ s[j].after
                              \/ s[j + 1].before \/ s[j + 1].after \/ j + 1 = Len(s)

\* The panels look after every beat but the last.
Watchful(s) ==
  /\ Len(s) \in Nat \ {0} /\ ~s[1].before
  /\ \A j \in 1..Len(s) - 1 : s[j].after

\* What a beat shows and takes away.
Sets(set, on, off) == DOMAIN set = on \cup off /\ \A f \in DOMAIN set : set[f] <=> f \in on

\* span[f]: the beats after which the page shows f.
Turns(set, span, k) ==
  \A f \in Facts : k + 1 \in span[f] <=> IF f \in DOMAIN set THEN set[f] ELSE k \in span[f]

Story(s, span) ==
  /\ \A f \in Facts : f \in DOMAIN s[1].set /\ (s[1].set[f] <=> 1 \in span[f])
  /\ \A k \in 1..Len(s) - 1 : Turns(s[k + 1].set, span, k)
  /\ \A k \in 1..Len(s) : /\ k \in span["needs"] /\ k \in span["done"] => k \in span["tick"]
                          /\ ~(k \in span["asking"] /\ k \in span["done"])

LEMMA BeatSets == \A x : Beat(x).set = x /\ Blind(x).set = x /\ Wary(x).set = x
BY DEF Beat, Blind, Wary

LEMMA WhatSets ==
  /\ Sets(Still, {}, {}) /\ Sets(Blocks, {"blocked"}, {}) /\ Sets(Asks, {"asking"}, {})
  /\ Sets(Passes, {"tick"}, {"blocked"}) /\ Sets(Done, {"done"}, {})
  /\ Sets(Fresh(TRUE), {"needs"}, Facts \ {"needs"}) /\ Sets(Fresh(FALSE), {}, Facts)
  /\ Sets([blocked |-> FALSE], {}, {"blocked"}) /\ Sets([asking |-> FALSE], {}, {"asking"})
  /\ Sets([needs |-> FALSE], {}, {"needs"}) /\ Sets([tick |-> TRUE], {"tick"}, {})
  /\ Sets([tick |-> FALSE, done |-> FALSE], {}, {"tick", "done"})
  /\ Sets([asking |-> FALSE, tick |-> TRUE], {"tick"}, {"asking"})
  /\ Sets([blocked |-> FALSE, tick |-> TRUE, done |-> TRUE, asking |-> FALSE],
          {"tick", "done"}, {"blocked", "asking"})
<1>1. Sets(Still, {}, {}) /\ Sets(Blocks, {"blocked"}, {}) /\ Sets(Asks, {"asking"}, {})
  BY DEF Sets, Still, Blocks, Asks
<1>2. Sets(Passes, {"tick"}, {"blocked"}) /\ Sets(Done, {"done"}, {})
  BY DEF Sets, Passes, Done
<1>3. Sets(Fresh(TRUE), {"needs"}, Facts \ {"needs"}) /\ Sets(Fresh(FALSE), {}, Facts)
  BY DEF Sets, Fresh, Facts
<1>4. Sets([blocked |-> FALSE], {}, {"blocked"}) /\ Sets([asking |-> FALSE], {}, {"asking"})
  BY DEF Sets
<1>5. Sets([needs |-> FALSE], {}, {"needs"}) /\ Sets([tick |-> TRUE], {"tick"}, {})
  BY DEF Sets
<1>6. Sets([tick |-> FALSE, done |-> FALSE], {}, {"tick", "done"})
  BY DEF Sets
<1>7. Sets([asking |-> FALSE, tick |-> TRUE], {"tick"}, {"asking"})
  BY DEF Sets
<1>8. Sets([blocked |-> FALSE, tick |-> TRUE, done |-> TRUE, asking |-> FALSE],
          {"tick", "done"}, {"blocked", "asking"})
  BY DEF Sets
<1> QED
  BY <1>1, <1>2, <1>3, <1>4, <1>5, <1>6, <1>7, <1>8

LEMMA TurnsWith ==
  ASSUME NEW set, NEW on, NEW off, Sets(set, on, off), NEW span, NEW k,
         \A f \in Facts : k + 1 \in span[f] <=> f \in on \/ (f \notin off /\ k \in span[f])
  PROVE  Turns(set, span, k)
BY DEF Sets, Turns

LimitSpan ==
  [needs |-> 7..16, blocked |-> 10..12, asking |-> 12..13,
   tick |-> 5..6 \cup 13..16, done |-> {6, 16}]

LEMMA LimitStory == Watched(LimitRun) /\ Story(LimitRun, LimitSpan)
<1> DEFINE beats == LimitRun
           span == LimitSpan
           first == Fresh(FALSE)
           second == Fresh(TRUE)
<1>7. /\ beats = <<Beat(first), Beat(Still), Beat(Still), Beat(Still),
                   Blind([tick |-> TRUE]), Beat(Done)>>
                 \o <<Beat(second), Beat(Still)>> \o Refused \o <<Blind(Done)>>
      /\ Sets(first, {}, Facts) /\ Sets(second, {"needs"}, Facts \ {"needs"})
  BY WhatSets DEF LimitRun
<1> HIDE DEF beats, first, second
<1>1. /\ Len(beats) = 16
      /\ beats[1] = Beat(first)
      /\ beats[2] = Beat(Still) /\ beats[3] = Beat(Still) /\ beats[4] = Beat(Still)
      /\ beats[5] = Blind([tick |-> TRUE]) /\ beats[6] = Beat(Done)
      /\ beats[7] = Beat(second) /\ beats[8] = Beat(Still)
      /\ beats[9] = Beat(Still) /\ beats[10] = Blind(Blocks) /\ beats[11] = Wary(Still)
      /\ beats[12] = Beat(Asks) /\ beats[13] = Beat(Passes)
      /\ beats[14] = Beat([asking |-> FALSE]) /\ beats[15] = Blind(Still)
      /\ beats[16] = Blind(Done)
  BY <1>7 DEF Refused
<1>2. /\ span["needs"] = 7..16 /\ span["blocked"] = 10..12 /\ span["asking"] = 12..13
      /\ span["tick"] = 5..6 \cup 13..16 /\ span["done"] = {6, 16}
  BY DEF LimitSpan
<1> HIDE DEF span
<1> SUFFICES Watched(beats) /\ Story(beats, span)
  BY DEF beats, span
<1>3. Watched(beats)
  BY <1>1 DEF Watched, Beat, Blind, Wary
<1>4. \A f \in Facts : f \in DOMAIN beats[1].set /\ (beats[1].set[f] <=> 1 \in span[f])
  <2>1. beats[1].set = first /\ Sets(first, {}, Facts)
    BY <1>1, <1>7, BeatSets
  <2>2. \A f \in Facts : 1 \in span[f] <=> f \in {}
    BY <1>2 DEF Facts
  <2> QED
    BY <2>1, <2>2 DEF Sets, Facts
<1>5. \A k \in 1..Len(beats) - 1 : Turns(beats[k + 1].set, span, k)
  <2>1. \A k \in {1, 2, 3, 7, 8, 10, 14} : Turns(Still, span, k)
    BY <1>2, WhatSets, TurnsWith DEF Facts
  <2>2. \A k \in {4} : Turns([tick |-> TRUE], span, k)
    BY <1>2, WhatSets, TurnsWith DEF Facts
  <2>3. \A k \in {5, 15} : Turns(Done, span, k)
    BY <1>2, WhatSets, TurnsWith DEF Facts
  <2>4. \A k \in {6} : Turns(second, span, k)
    <3>1. \A k \in {6} : \A f \in Facts :
            k + 1 \in span[f] <=>
              f \in {"needs"} \/ (f \notin Facts \ {"needs"} /\ k \in span[f])
      BY <1>2 DEF Facts
    <3> QED
      BY <1>7, <3>1, TurnsWith
  <2>5. \A k \in {9} : Turns(Blocks, span, k)
    BY <1>2, WhatSets, TurnsWith DEF Facts
  <2>6. \A k \in {11} : Turns(Asks, span, k)
    BY <1>2, WhatSets, TurnsWith DEF Facts
  <2>7. \A k \in {12} : Turns(Passes, span, k)
    BY <1>2, WhatSets, TurnsWith DEF Facts
  <2>8. \A k \in {13} : Turns([asking |-> FALSE], span, k)
    BY <1>2, WhatSets, TurnsWith DEF Facts
  <2> SUFFICES ASSUME NEW k \in 1..15 PROVE Turns(beats[k + 1].set, span, k)
    BY <1>1
  <2> QED
    BY <1>1, <2>1, <2>2, <2>3, <2>4, <2>5, <2>6, <2>7, <2>8, BeatSets
<1>6. ASSUME NEW k \in 1..Len(beats)
      PROVE  /\ k \in span["needs"] /\ k \in span["done"] => k \in span["tick"]
             /\ ~(k \in span["asking"] /\ k \in span["done"])
  BY <1>1, <1>2
<1> QED
  BY <1>3, <1>4, <1>5, <1>6 DEF Story

DrainSpan ==
  [needs |-> 1..12, blocked |-> 6..8, asking |-> 8..9,
   tick |-> 9..12, done |-> {12}]

LEMMA DrainStory == Watched(DrainRun) /\ Story(DrainRun, DrainSpan)
<1> DEFINE beats == DrainRun
           span == DrainSpan
<1>1. /\ Len(beats) = 12
      /\ beats[1] = Beat(Fresh(TRUE)) /\ beats[2] = Beat(Still)
      /\ beats[3] = Blind(Still) /\ beats[4] = Wary(Still) /\ beats[5] = Beat(Still)
      /\ beats[6] = Blind(Blocks) /\ beats[7] = Wary(Still) /\ beats[8] = Beat(Asks)
      /\ beats[9] = Beat(Passes) /\ beats[10] = Beat([asking |-> FALSE])
      /\ beats[11] = Blind(Still) /\ beats[12] = Blind(Done)
  BY DEF DrainRun, Refused
<1>2. /\ span["needs"] = 1..12 /\ span["blocked"] = 6..8 /\ span["asking"] = 8..9
      /\ span["tick"] = 9..12 /\ span["done"] = {12}
  BY DEF DrainSpan
<1> HIDE DEF beats, span
<1> SUFFICES Watched(beats) /\ Story(beats, span)
  BY DEF beats, span
<1>3. Watched(beats)
  BY <1>1 DEF Watched, Beat, Blind, Wary
<1>4. \A f \in Facts : f \in DOMAIN beats[1].set /\ (beats[1].set[f] <=> 1 \in span[f])
  <2>1. beats[1].set = Fresh(TRUE) /\ Sets(Fresh(TRUE), {"needs"}, Facts \ {"needs"})
    BY <1>1, WhatSets, BeatSets
  <2>2. \A f \in Facts : 1 \in span[f] <=> f \in {"needs"}
    BY <1>2 DEF Facts
  <2> QED
    BY <2>1, <2>2 DEF Sets, Facts
<1>5. \A k \in 1..Len(beats) - 1 : Turns(beats[k + 1].set, span, k)
  <2>1. \A k \in {1, 2, 3, 4, 6, 10} : Turns(Still, span, k)
    BY <1>2, WhatSets, TurnsWith DEF Facts
  <2>2. \A k \in {5} : Turns(Blocks, span, k)
    BY <1>2, WhatSets, TurnsWith DEF Facts
  <2>3. \A k \in {7} : Turns(Asks, span, k)
    BY <1>2, WhatSets, TurnsWith DEF Facts
  <2>4. \A k \in {8} : Turns(Passes, span, k)
    BY <1>2, WhatSets, TurnsWith DEF Facts
  <2>5. \A k \in {9} : Turns([asking |-> FALSE], span, k)
    BY <1>2, WhatSets, TurnsWith DEF Facts
  <2>6. \A k \in {11} : Turns(Done, span, k)
    BY <1>2, WhatSets, TurnsWith DEF Facts
  <2> SUFFICES ASSUME NEW k \in 1..11 PROVE Turns(beats[k + 1].set, span, k)
    BY <1>1
  <2> QED
    BY <1>1, <2>1, <2>2, <2>3, <2>4, <2>5, <2>6, BeatSets
<1>6. ASSUME NEW k \in 1..Len(beats)
      PROVE  /\ k \in span["needs"] /\ k \in span["done"] => k \in span["tick"]
             /\ ~(k \in span["asking"] /\ k \in span["done"])
  BY <1>1, <1>2
<1> QED
  BY <1>3, <1>4, <1>5, <1>6 DEF Story

RequireSpan ==
  [needs |-> 1..10, blocked |-> 4..6, asking |-> 6..7,
   tick |-> 7..10, done |-> {10}]

LEMMA RequireStory == Watched(RequireRun) /\ Story(RequireRun, RequireSpan)
<1> DEFINE beats == RequireRun
           span == RequireSpan
<1>1. /\ Len(beats) = 10
      /\ beats[1] = Beat(Fresh(TRUE)) /\ beats[2] = Beat(Still)
      /\ beats[3] = Beat(Still) /\ beats[4] = Blind(Blocks) /\ beats[5] = Wary(Still)
      /\ beats[6] = Beat(Asks) /\ beats[7] = Beat(Passes)
      /\ beats[8] = Beat([asking |-> FALSE]) /\ beats[9] = Blind(Still)
      /\ beats[10] = Blind(Done)
  BY DEF RequireRun, Refused
<1>2. /\ span["needs"] = 1..10 /\ span["blocked"] = 4..6 /\ span["asking"] = 6..7
      /\ span["tick"] = 7..10 /\ span["done"] = {10}
  BY DEF RequireSpan
<1> HIDE DEF beats, span
<1> SUFFICES Watched(beats) /\ Story(beats, span)
  BY DEF beats, span
<1>3. Watched(beats)
  BY <1>1 DEF Watched, Beat, Blind, Wary
<1>4. \A f \in Facts : f \in DOMAIN beats[1].set /\ (beats[1].set[f] <=> 1 \in span[f])
  <2>1. beats[1].set = Fresh(TRUE) /\ Sets(Fresh(TRUE), {"needs"}, Facts \ {"needs"})
    BY <1>1, WhatSets, BeatSets
  <2>2. \A f \in Facts : 1 \in span[f] <=> f \in {"needs"}
    BY <1>2 DEF Facts
  <2> QED
    BY <2>1, <2>2 DEF Sets, Facts
<1>5. \A k \in 1..Len(beats) - 1 : Turns(beats[k + 1].set, span, k)
  <2>1. \A k \in {1, 2, 4, 8} : Turns(Still, span, k)
    BY <1>2, WhatSets, TurnsWith DEF Facts
  <2>2. \A k \in {3} : Turns(Blocks, span, k)
    BY <1>2, WhatSets, TurnsWith DEF Facts
  <2>3. \A k \in {5} : Turns(Asks, span, k)
    BY <1>2, WhatSets, TurnsWith DEF Facts
  <2>4. \A k \in {6} : Turns(Passes, span, k)
    BY <1>2, WhatSets, TurnsWith DEF Facts
  <2>5. \A k \in {7} : Turns([asking |-> FALSE], span, k)
    BY <1>2, WhatSets, TurnsWith DEF Facts
  <2>6. \A k \in {9} : Turns(Done, span, k)
    BY <1>2, WhatSets, TurnsWith DEF Facts
  <2> SUFFICES ASSUME NEW k \in 1..9 PROVE Turns(beats[k + 1].set, span, k)
    BY <1>1
  <2> QED
    BY <1>1, <2>1, <2>2, <2>3, <2>4, <2>5, <2>6, BeatSets
<1>6. ASSUME NEW k \in 1..Len(beats)
      PROVE  /\ k \in span["needs"] /\ k \in span["done"] => k \in span["tick"]
             /\ ~(k \in span["asking"] /\ k \in span["done"])
  BY <1>1, <1>2
<1> QED
  BY <1>3, <1>4, <1>5, <1>6 DEF Story

NotBeforeSpan ==
  [needs |-> 1..11, blocked |-> 4..6, asking |-> 6..7,
   tick |-> 7..12 \cup 15..17, done |-> 10..12 \cup {17}]

LEMMA NotBeforeStory == Watched(NotBeforeRun) /\ Story(NotBeforeRun, NotBeforeSpan)
<1> DEFINE beats == NotBeforeRun
           span == NotBeforeSpan
<1>1. /\ Len(beats) = 17
      /\ beats[1] = Beat(Fresh(TRUE)) /\ beats[2] = Beat(Still)
      /\ beats[3] = Beat(Still) /\ beats[4] = Blind(Blocks) /\ beats[5] = Wary(Still)
      /\ beats[6] = Beat(Asks) /\ beats[7] = Beat(Passes)
      /\ beats[8] = Beat([asking |-> FALSE]) /\ beats[9] = Blind(Still)
      /\ beats[10] = Beat(Done) /\ beats[11] = Blind(Still)
      /\ beats[12] = Beat([needs |-> FALSE])
      /\ beats[13] = Beat([tick |-> FALSE, done |-> FALSE]) /\ beats[14] = Beat(Still)
      /\ beats[15] = Beat([tick |-> TRUE]) /\ beats[16] = Blind(Still)
      /\ beats[17] = Blind(Done)
  BY DEF NotBeforeRun, Refused
<1>2. /\ span["needs"] = 1..11 /\ span["blocked"] = 4..6 /\ span["asking"] = 6..7
      /\ span["tick"] = 7..12 \cup 15..17 /\ span["done"] = 10..12 \cup {17}
  BY DEF NotBeforeSpan
<1> HIDE DEF beats, span
<1> SUFFICES Watched(beats) /\ Story(beats, span)
  BY DEF beats, span
<1>3. Watched(beats)
  BY <1>1 DEF Watched, Beat, Blind, Wary
<1>4. \A f \in Facts : f \in DOMAIN beats[1].set /\ (beats[1].set[f] <=> 1 \in span[f])
  <2>1. beats[1].set = Fresh(TRUE) /\ Sets(Fresh(TRUE), {"needs"}, Facts \ {"needs"})
    BY <1>1, WhatSets, BeatSets
  <2>2. \A f \in Facts : 1 \in span[f] <=> f \in {"needs"}
    BY <1>2 DEF Facts
  <2> QED
    BY <2>1, <2>2 DEF Sets, Facts
<1>5. \A k \in 1..Len(beats) - 1 : Turns(beats[k + 1].set, span, k)
  <2>1. \A k \in {1, 2, 4, 8, 10, 13, 15} : Turns(Still, span, k)
    BY <1>2, WhatSets, TurnsWith DEF Facts
  <2>2. \A k \in {3} : Turns(Blocks, span, k)
    BY <1>2, WhatSets, TurnsWith DEF Facts
  <2>3. \A k \in {5} : Turns(Asks, span, k)
    BY <1>2, WhatSets, TurnsWith DEF Facts
  <2>4. \A k \in {6} : Turns(Passes, span, k)
    BY <1>2, WhatSets, TurnsWith DEF Facts
  <2>5. \A k \in {7} : Turns([asking |-> FALSE], span, k)
    BY <1>2, WhatSets, TurnsWith DEF Facts
  <2>6. \A k \in {9, 16} : Turns(Done, span, k)
    BY <1>2, WhatSets, TurnsWith DEF Facts
  <2>7. \A k \in {11} : Turns([needs |-> FALSE], span, k)
    BY <1>2, WhatSets, TurnsWith DEF Facts
  <2>8. \A k \in {12} : Turns([tick |-> FALSE, done |-> FALSE], span, k)
    BY <1>2, WhatSets, TurnsWith DEF Facts
  <2>9. \A k \in {14} : Turns([tick |-> TRUE], span, k)
    BY <1>2, WhatSets, TurnsWith DEF Facts
  <2> SUFFICES ASSUME NEW k \in 1..16 PROVE Turns(beats[k + 1].set, span, k)
    BY <1>1
  <2> QED
    BY <1>1, <2>1, <2>2, <2>3, <2>4, <2>5, <2>6, <2>7, <2>8, <2>9, BeatSets
<1>6. ASSUME NEW k \in 1..Len(beats)
      PROVE  /\ k \in span["needs"] /\ k \in span["done"] => k \in span["tick"]
             /\ ~(k \in span["asking"] /\ k \in span["done"])
  BY <1>1, <1>2
<1> QED
  BY <1>3, <1>4, <1>5, <1>6 DEF Story

RecipientSpan ==
  [needs |-> 1..7, blocked |-> 3..4, asking |-> {4},
   tick |-> 5..7, done |-> 5..7]

LEMMA RecipientStory == Watched(RecipientRun) /\ Story(RecipientRun, RecipientSpan)
<1> DEFINE beats == RecipientRun
           span == RecipientSpan
<1>1. /\ Len(beats) = 7
      /\ beats[1] = Beat(Fresh(TRUE)) /\ beats[2] = Beat(Still)
      /\ beats[3] = Beat(Blocks) /\ beats[4] = Beat(Asks)
      /\ beats[5] = Beat([blocked |-> FALSE, tick |-> TRUE, done |-> TRUE,
                          asking |-> FALSE])
      /\ beats[6] = Blind(Still) /\ beats[7] = Blind(Still)
  BY DEF RecipientRun
<1>2. /\ span["needs"] = 1..7 /\ span["blocked"] = 3..4 /\ span["asking"] = {4}
      /\ span["tick"] = 5..7 /\ span["done"] = 5..7
  BY DEF RecipientSpan
<1> HIDE DEF beats, span
<1> SUFFICES Watched(beats) /\ Story(beats, span)
  BY DEF beats, span
<1>3. Watched(beats)
  BY <1>1 DEF Watched, Beat, Blind, Wary
<1>4. \A f \in Facts : f \in DOMAIN beats[1].set /\ (beats[1].set[f] <=> 1 \in span[f])
  <2>1. beats[1].set = Fresh(TRUE) /\ Sets(Fresh(TRUE), {"needs"}, Facts \ {"needs"})
    BY <1>1, WhatSets, BeatSets
  <2>2. \A f \in Facts : 1 \in span[f] <=> f \in {"needs"}
    BY <1>2 DEF Facts
  <2> QED
    BY <2>1, <2>2 DEF Sets, Facts
<1>5. \A k \in 1..Len(beats) - 1 : Turns(beats[k + 1].set, span, k)
  <2>1. \A k \in {1, 5, 6} : Turns(Still, span, k)
    BY <1>2, WhatSets, TurnsWith DEF Facts
  <2>2. \A k \in {2} : Turns(Blocks, span, k)
    BY <1>2, WhatSets, TurnsWith DEF Facts
  <2>3. \A k \in {3} : Turns(Asks, span, k)
    BY <1>2, WhatSets, TurnsWith DEF Facts
  <2>4. \A k \in {4} :
          Turns([blocked |-> FALSE, tick |-> TRUE, done |-> TRUE, asking |-> FALSE], span, k)
    BY <1>2, WhatSets, TurnsWith DEF Facts
  <2> SUFFICES ASSUME NEW k \in 1..6 PROVE Turns(beats[k + 1].set, span, k)
    BY <1>1
  <2> QED
    BY <1>1, <2>1, <2>2, <2>3, <2>4, BeatSets
<1>6. ASSUME NEW k \in 1..Len(beats)
      PROVE  /\ k \in span["needs"] /\ k \in span["done"] => k \in span["tick"]
             /\ ~(k \in span["asking"] /\ k \in span["done"])
  BY <1>1, <1>2
<1> QED
  BY <1>3, <1>4, <1>5, <1>6 DEF Story

HeroSpan ==
  [needs |-> 1..8, blocked |-> {}, asking |-> {4},
   tick |-> 5..8, done |-> 6..8]

LEMMA HeroStory == Watchful(HeroCycle) /\ Story(HeroCycle, HeroSpan)
<1> DEFINE beats == HeroCycle
           span == HeroSpan
<1>1. /\ Len(beats) = 8
      /\ beats[1] = Beat(Fresh(TRUE)) /\ beats[2] = Beat(Still)
      /\ beats[3] = Beat(Still) /\ beats[4] = Beat(Asks)
      /\ beats[5] = Beat([asking |-> FALSE, tick |-> TRUE]) /\ beats[6] = Beat(Done)
      /\ beats[7] = Beat(Still) /\ beats[8] = Blind(Still)
  BY DEF HeroCycle
<1>2. /\ span["needs"] = 1..8 /\ span["blocked"] = {} /\ span["asking"] = {4}
      /\ span["tick"] = 5..8 /\ span["done"] = 6..8
  BY DEF HeroSpan
<1> HIDE DEF beats, span
<1> SUFFICES Watchful(beats) /\ Story(beats, span)
  BY DEF beats, span
<1>3. Watchful(beats)
  BY <1>1 DEF Watchful, Beat, Blind, Wary
<1>4. \A f \in Facts : f \in DOMAIN beats[1].set /\ (beats[1].set[f] <=> 1 \in span[f])
  <2>1. beats[1].set = Fresh(TRUE) /\ Sets(Fresh(TRUE), {"needs"}, Facts \ {"needs"})
    BY <1>1, WhatSets, BeatSets
  <2>2. \A f \in Facts : 1 \in span[f] <=> f \in {"needs"}
    BY <1>2 DEF Facts
  <2> QED
    BY <2>1, <2>2 DEF Sets, Facts
<1>5. \A k \in 1..Len(beats) - 1 : Turns(beats[k + 1].set, span, k)
  <2>1. \A k \in {1, 2, 6, 7} : Turns(Still, span, k)
    BY <1>2, WhatSets, TurnsWith DEF Facts
  <2>2. \A k \in {3} : Turns(Asks, span, k)
    BY <1>2, WhatSets, TurnsWith DEF Facts
  <2>3. \A k \in {4} : Turns([asking |-> FALSE, tick |-> TRUE], span, k)
    BY <1>2, WhatSets, TurnsWith DEF Facts
  <2>4. \A k \in {5} : Turns(Done, span, k)
    BY <1>2, WhatSets, TurnsWith DEF Facts
  <2> SUFFICES ASSUME NEW k \in 1..7 PROVE Turns(beats[k + 1].set, span, k)
    BY <1>1
  <2> QED
    BY <1>1, <2>1, <2>2, <2>3, <2>4, BeatSets
<1>6. ASSUME NEW k \in 1..Len(beats)
      PROVE  /\ k \in span["needs"] /\ k \in span["done"] => k \in span["tick"]
             /\ ~(k \in span["asking"] /\ k \in span["done"])
  BY <1>1, <1>2
<1> QED
  BY <1>3, <1>4, <1>5, <1>6 DEF Story

SlideSpan ==
  [needs |-> 1..7, blocked |-> {}, asking |-> {4},
   tick |-> 5..7, done |-> 6..7]

LEMMA SlideStory == Watchful(SlideCycle) /\ Story(SlideCycle, SlideSpan)
<1> DEFINE beats == SlideCycle
           span == SlideSpan
<1>1. /\ Len(beats) = 7
      /\ beats[1] = Beat(Fresh(TRUE)) /\ beats[2] = Beat(Still)
      /\ beats[3] = Beat(Still) /\ beats[4] = Beat(Asks)
      /\ beats[5] = Beat([asking |-> FALSE, tick |-> TRUE]) /\ beats[6] = Beat(Done)
      /\ beats[7] = Blind(Still)
  BY DEF SlideCycle, HeroCycle
<1>2. /\ span["needs"] = 1..7 /\ span["blocked"] = {} /\ span["asking"] = {4}
      /\ span["tick"] = 5..7 /\ span["done"] = 6..7
  BY DEF SlideSpan
<1> HIDE DEF beats, span
<1> SUFFICES Watchful(beats) /\ Story(beats, span)
  BY DEF beats, span
<1>3. Watchful(beats)
  BY <1>1 DEF Watchful, Beat, Blind, Wary
<1>4. \A f \in Facts : f \in DOMAIN beats[1].set /\ (beats[1].set[f] <=> 1 \in span[f])
  <2>1. beats[1].set = Fresh(TRUE) /\ Sets(Fresh(TRUE), {"needs"}, Facts \ {"needs"})
    BY <1>1, WhatSets, BeatSets
  <2>2. \A f \in Facts : 1 \in span[f] <=> f \in {"needs"}
    BY <1>2 DEF Facts
  <2> QED
    BY <2>1, <2>2 DEF Sets, Facts
<1>5. \A k \in 1..Len(beats) - 1 : Turns(beats[k + 1].set, span, k)
  <2>1. \A k \in {1, 2, 6} : Turns(Still, span, k)
    BY <1>2, WhatSets, TurnsWith DEF Facts
  <2>2. \A k \in {3} : Turns(Asks, span, k)
    BY <1>2, WhatSets, TurnsWith DEF Facts
  <2>3. \A k \in {4} : Turns([asking |-> FALSE, tick |-> TRUE], span, k)
    BY <1>2, WhatSets, TurnsWith DEF Facts
  <2>4. \A k \in {5} : Turns(Done, span, k)
    BY <1>2, WhatSets, TurnsWith DEF Facts
  <2> SUFFICES ASSUME NEW k \in 1..6 PROVE Turns(beats[k + 1].set, span, k)
    BY <1>1
  <2> QED
    BY <1>1, <2>1, <2>2, <2>3, <2>4, BeatSets
<1>6. ASSUME NEW k \in 1..Len(beats)
      PROVE  /\ k \in span["needs"] /\ k \in span["done"] => k \in span["tick"]
             /\ ~(k \in span["asking"] /\ k \in span["done"])
  BY <1>1, <1>2
<1> QED
  BY <1>3, <1>4, <1>5, <1>6 DEF Story

Span == [limit |-> LimitSpan, drain |-> DrainSpan, require |-> RequireSpan,
         notBefore |-> NotBeforeSpan, recipient |-> RecipientSpan,
         hero |-> HeroSpan, guardPanel |-> HeroSpan, whyTrana |-> SlideSpan]

LEMMA ScriptsTell ==
  /\ \A s \in Sections : Watched(Script[s]) /\ Story(Script[s], Span[s])
  /\ \A s \in Panels \cup {Slide} : Watchful(Script[s]) /\ Story(Script[s], Span[s])
<1>1. /\ Script["limit"] = LimitRun /\ Script["drain"] = DrainRun
      /\ Script["require"] = RequireRun /\ Script["notBefore"] = NotBeforeRun
      /\ Script["recipient"] = RecipientRun /\ Script["hero"] = HeroCycle
      /\ Script["guardPanel"] = HeroCycle /\ Script["whyTrana"] = SlideCycle
  BY DEF Script, GuardPanelCycle
<1>2. /\ Span["limit"] = LimitSpan /\ Span["drain"] = DrainSpan
      /\ Span["require"] = RequireSpan /\ Span["notBefore"] = NotBeforeSpan
      /\ Span["recipient"] = RecipientSpan /\ Span["hero"] = HeroSpan
      /\ Span["guardPanel"] = HeroSpan /\ Span["whyTrana"] = SlideSpan
  BY DEF Span
<1> QED
  BY <1>1, <1>2, LimitStory, DrainStory, RequireStory, NotBeforeStory, RecipientStory,
     HeroStory, SlideStory DEF Sections, Panels, Slide
-----------------------------------------------------------------------------
(* The illustrations: the invariant.                                       *)

LoopRecords   == [effect: Nat, at: Nat, late: Nat]
EffectRecords == [stopped: BOOLEAN, started: BOOLEAN]

ShowTypes ==
  /\ scene \in Scenes \cup {"none"}
  /\ effects \in Seq(EffectRecords)
  /\ loops \in Seq(LoopRecords)
  /\ scene = "none" => loops = <<>>
  /\ DOMAIN screen = Facts

\* A loop that has been told to stop and wrote since then ends at its next wait.
Lateness(l, show, effs) ==
  l.late > 0 => /\ l.late = 1 /\ l.at > 0
                /\ show \in Sections /\ effs[l.effect].stopped
                /\ Script[show][l.at].after \/ l.at = Len(Script[show])

LoopOk(l, show, effs) ==
  /\ l.at \in 0..Len(Script[show])
  /\ Lateness(l, show, effs)
  /\ show \in Sections => l.effect \in DOMAIN effs /\ effs[l.effect].started

LoopsOk == \A i \in DOMAIN loops : LoopOk(loops[i], scene, effects)

\* In a section every effect but the last has been told to stop, and no two loops
\* belong to one effect.
EffectsOk ==
  scene \in Sections =>
    /\ \A e \in DOMAIN effects : e < Len(effects) => effects[e].stopped
    /\ \A i, j \in DOMAIN loops : loops[i].effect = loops[j].effect => i = j

\* What the page shows after beat k.
Told(page, span, k) == DOMAIN page = Facts /\ \A f \in Facts : page[f] <=> k \in span[f]

Truthful(page) == /\ page["needs"] /\ page["done"] => page["tick"]
                  /\ ~(page["asking"] /\ page["done"])

\* A loop's page is what its script tells, or was wiped when the loop was told to stop.
LoopsFollow ==
  \A i \in DOMAIN loops : loops[i].at > 0 =>
    Told(screen, Span[scene], loops[i].at) \/ (scene \notin Sections /\ cancel)

StoryOk ==
  ~overlapped =>
    /\ Truthful(screen)
    /\ \A i, j \in DOMAIN loops : loops[i].at > 0 /\ loops[j].at > 0 => i = j
    /\ LoopsFollow

ShowInv == ShowTypes /\ LoopsOk /\ EffectsOk /\ StoryOk

\* What is left when one element goes.
LEMMA Removed ==
  ASSUME NEW S, NEW s \in Seq(S), NEW i \in DOMAIN s
  PROVE  /\ RemoveAt(s, i) \in Seq(S)
         /\ \E from \in [DOMAIN RemoveAt(s, i) -> DOMAIN s] :
              /\ \A j \in DOMAIN RemoveAt(s, i) : RemoveAt(s, i)[j] = s[from[j]]
              /\ \A j, k \in DOMAIN RemoveAt(s, i) : from[j] = from[k] => j = k
              /\ \A j \in DOMAIN RemoveAt(s, i) : from[j] # i
<1> DEFINE a == SubSeq(s, 1, i - 1)
           b == SubSeq(s, i + 1, Len(s))
           q == a \o b
<1>1. i \in 1..Len(s) /\ Len(s) \in Nat
  OBVIOUS
<1>2. a \in Seq(S) /\ Len(a) = i - 1 /\ \A j \in 1..i - 1 : a[j] = s[j]
  BY <1>1
<1>3. b \in Seq(S) /\ Len(b) = Len(s) - i /\ \A j \in 1..Len(s) - i : b[j] = s[i + j]
  BY <1>1
<1>4. RemoveAt(s, i) = q
  BY DEF RemoveAt
<1> HIDE DEF a, b
<1>5. /\ q \in Seq(S) /\ Len(q) = Len(a) + Len(b)
      /\ \A j \in 1..Len(a) + Len(b) : q[j] = IF j <= Len(a) THEN a[j] ELSE b[j - Len(a)]
  BY <1>2, <1>3, ConcatProperties
<1> HIDE DEF q
<1>6. DOMAIN q = 1..Len(s) - 1 /\ DOMAIN s = 1..Len(s)
  BY <1>1, <1>2, <1>3, <1>5
<1> DEFINE from == [j \in DOMAIN q |-> IF j < i THEN j ELSE j + 1]
<1>7. from \in [DOMAIN q -> DOMAIN s]
  BY <1>1, <1>6
<1>8. ASSUME NEW j \in DOMAIN q PROVE q[j] = s[from[j]]
  <2>1. j \in 1..Len(a) + Len(b) /\ Len(a) = i - 1
    BY <1>1, <1>2, <1>3, <1>6
  <2>2. q[j] = IF j <= i - 1 THEN a[j] ELSE b[j - (i - 1)]
    BY <1>5, <2>1
  <2>3. CASE j < i
    BY <1>1, <1>2, <2>1, <2>2, <2>3
  <2>4. CASE ~(j < i)
    <3>1. j - (i - 1) \in 1..Len(s) - i /\ i + (j - (i - 1)) = j + 1
      BY <1>1, <1>6, <2>4
    <3>2. b[j - (i - 1)] = s[i + (j - (i - 1))]
      BY <1>3, <3>1
    <3>3. q[j] = b[j - (i - 1)]
      BY <1>1, <2>1, <2>2, <2>4
    <3>4. from[j] = j + 1
      BY <2>4
    <3> QED
      BY <3>1, <3>2, <3>3, <3>4
  <2> QED
    BY <2>3, <2>4
<1>9. /\ \A j, k \in DOMAIN q : from[j] = from[k] => j = k
      /\ \A j \in DOMAIN q : from[j] # i
  BY <1>1, <1>6
<1> HIDE DEF from
<1> QED
  BY <1>4, <1>5, <1>7, <1>8, <1>9

LEMMA ScriptsLong ==
  \A s \in Scenes : /\ Len(Script[s]) \in Nat \ {0} /\ ~Script[s][1].before
                    /\ s \notin Sections => \A j \in 1..Len(Script[s]) - 1 : Script[s][j].after
BY ScriptsTell DEF Scenes, Watched, Watchful

LEMMA StoriesTold == \A s \in Scenes : Story(Script[s], Span[s])
BY ScriptsTell DEF Scenes

LEMMA NextBeat ==
  ASSUME NEW n \in Nat \ {0}, NEW a \in 0..n
  PROVE  (a % n) + 1 = IF a = n THEN 1 ELSE a + 1
OBVIOUS

\* A first beat shows everything; each further beat keeps the story told.
LEMMA StoryStarts ==
  ASSUME NEW s \in Scenes, NEW page, DOMAIN page = Facts
  PROVE  Told(Drawn(Script[s][1].set, page), Span[s], 1)
<1> DEFINE set == Script[s][1].set
<1>1. \A f \in Facts : f \in DOMAIN set /\ (set[f] <=> 1 \in Span[s][f])
  BY StoriesTold DEF Story
<1> HIDE DEF set
<1>2. \A f \in Facts : Drawn(set, page)[f] = set[f]
  BY <1>1 DEF Drawn
<1>3. DOMAIN Drawn(set, page) = Facts
  BY DEF Drawn
<1> HIDE DEF Drawn
<1> DEFINE new == Drawn(set, page)
<1>4. \A f \in Facts : new[f] <=> 1 \in Span[s][f]
  BY <1>1, <1>2
<1> QED
  BY <1>3, <1>4 DEF Told, set

LEMMA StoryGoesOn ==
  ASSUME NEW s \in Scenes, NEW k \in 1..Len(Script[s]) - 1,
         NEW page, Told(page, Span[s], k)
  PROVE  Told(Drawn(Script[s][k + 1].set, page), Span[s], k + 1)
<1> DEFINE set == Script[s][k + 1].set
<1>1. \A f \in Facts :
        k + 1 \in Span[s][f] <=> IF f \in DOMAIN set THEN set[f] ELSE k \in Span[s][f]
  BY StoriesTold DEF Story, Turns
<1> HIDE DEF set
<1> DEFINE new == Drawn(set, page)
<1>2. \A f \in Facts : new[f] = IF f \in DOMAIN set THEN set[f] ELSE page[f]
  BY DEF Drawn, Told
<1>3. DOMAIN new = Facts
  BY DEF Drawn, Told
<1>4. \A f \in Facts : page[f] <=> k \in Span[s][f]
  BY DEF Told
<1> HIDE DEF new
<1>5. ASSUME NEW f \in Facts PROVE new[f] <=> k + 1 \in Span[s][f]
  <2>1. CASE f \in DOMAIN set
    BY <1>1, <1>2, <2>1
  <2>2. CASE f \notin DOMAIN set
    BY <1>1, <1>2, <1>4, <2>2
  <2> QED
    BY <2>1, <2>2
<1> QED
  BY <1>3, <1>5 DEF Told, new, set

LEMMA StoryTrue ==
  ASSUME NEW s \in Scenes, NEW k \in 1..Len(Script[s]), NEW page, Told(page, Span[s], k)
  PROVE  Truthful(page)
<1>1. /\ k \in Span[s]["needs"] /\ k \in Span[s]["done"] => k \in Span[s]["tick"]
      /\ ~(k \in Span[s]["asking"] /\ k \in Span[s]["done"])
  BY StoriesTold DEF Story
<1> QED
  BY <1>1 DEF Told, Truthful, Facts

\* The panels and the slide start with a transaction that needs a passkey.
LEMMA PanelsStart ==
  ASSUME NEW s \in Panels \cup {Slide}
  PROVE  DOMAIN Fresh(TRUE) = Facts /\ Told(Fresh(TRUE), Span[s], 1)
<1> DEFINE set == Script[s][1].set
           fresh == Fresh(TRUE)
<1>1. HeroCycle[1] = Beat(fresh) /\ SlideCycle[1] = Beat(fresh)
  BY DEF HeroCycle, SlideCycle
<1>2. Script[s][1] = HeroCycle[1] \/ Script[s][1] = SlideCycle[1]
  BY DEF Panels, Slide, Script, GuardPanelCycle
<1>3. DOMAIN fresh = Facts
  BY DEF Fresh, Facts
<1> HIDE DEF fresh
<1>4. set = fresh
  BY <1>1, <1>2, BeatSets
<1>5. \A f \in Facts : f \in DOMAIN set /\ (set[f] <=> 1 \in Span[s][f])
  BY StoriesTold DEF Story, Scenes
<1> HIDE DEF set
<1> QED
  BY <1>3, <1>4, <1>5 DEF Told, fresh

LEMMA FreshTrue == Truthful(Fresh(TRUE)) /\ DOMAIN Fresh(TRUE) = Facts
BY DEF Truthful, Fresh, Facts

\* Counting loops.
LEMMA AtMostOne ==
  ASSUME NEW S, \A x, y \in S : x = y
  PROVE  Cardinality(S) <= 1
<1>1. CASE S = {}
  BY <1>1, FS_EmptySet
<1>2. CASE S # {}
  <2>1. PICK x : S = {x}
    BY <1>2
  <2> QED
    BY <2>1, FS_Singleton
<1> QED
  BY <1>1, <1>2

LEMMA OneBegun ==
  ASSUME NEW ls \in Seq(LoopRecords), ~(Begun(ls) > 1)
  PROVE  \A i, j \in DOMAIN ls : ls[i].at > 0 /\ ls[j].at > 0 => i = j
<1> DEFINE S == {i \in DOMAIN ls : ls[i].at > 0}
<1>1. IsFiniteSet(S) /\ Cardinality(S) \in Nat
  <2>1. DOMAIN ls = 1..Len(ls) /\ Len(ls) \in Nat
    OBVIOUS
  <2>2. IsFiniteSet(1..Len(ls))
    BY <2>1, FS_Interval
  <2> QED
    BY <2>1, <2>2, FS_Subset, FS_CardinalityType
<1>2. ~(Cardinality(S) > 1)
  BY DEF Begun
<1> SUFFICES ASSUME NEW i \in S, NEW j \in S, i # j PROVE FALSE
  OBVIOUS
<1> HIDE DEF S
<1> DEFINE both == {i} \cup {j}
<1>3. Cardinality(both) = 2
  <2>1. IsFiniteSet({i}) /\ Cardinality({i}) = 1
    BY FS_Singleton
  <2>2. Cardinality(both) = IF j \in {i} THEN 1 ELSE 1 + 1
    BY <2>1, FS_AddElement
  <2> QED
    BY <2>2
<1>4. both \in SUBSET S
  OBVIOUS
<1> HIDE DEF both
<1>5. Cardinality(both) <= Cardinality(S)
  BY <1>1, <1>4, FS_Subset
<1> QED
  BY <1>1, <1>2, <1>3, <1>5

\* A loop that ends takes nothing from the others; it may have written before it looked.
LEMMA LoopEnds ==
  ASSUME ShowInv, NEW i \in DOMAIN loops, loops' = RemoveAt(loops, i),
         UNCHANGED <<scene, effects, cancel>>, overlapped => overlapped',
         DOMAIN screen' = Facts,
         \/ screen' = screen
         \/ loops[i].at > 0 /\ (~overlapped' => Truthful(screen'))
  PROVE  ShowInv'
<1>1. loops' \in Seq(LoopRecords)
  BY Removed DEF ShowInv, ShowTypes
<1>2. PICK from \in [DOMAIN loops' -> DOMAIN loops] :
        /\ \A j \in DOMAIN loops' : loops'[j] = loops[from[j]]
        /\ \A j, k \in DOMAIN loops' : from[j] = from[k] => j = k
        /\ \A j \in DOMAIN loops' : from[j] # i
  BY Removed DEF ShowInv, ShowTypes
<1>3. ShowTypes'
  <2>1. loops # <<>>
    OBVIOUS
  <2> QED
    BY <1>1, <2>1 DEF ShowInv, ShowTypes
<1>4. LoopsOk'
  BY <1>2 DEF ShowInv, LoopsOk
<1>5. EffectsOk'
  BY <1>2 DEF ShowInv, EffectsOk
<1>6. StoryOk'
  <2> SUFFICES ASSUME ~overlapped' PROVE StoryOk'
    BY DEF StoryOk
  <2>1. /\ Truthful(screen)
        /\ \A j, k \in DOMAIN loops : loops[j].at > 0 /\ loops[k].at > 0 => j = k
        /\ LoopsFollow
    BY DEF ShowInv, StoryOk
  <2>2. \A j, k \in DOMAIN loops' : loops'[j].at > 0 /\ loops'[k].at > 0 => j = k
    BY <1>2, <2>1
  <2>3. CASE screen' = screen
    <3>1. LoopsFollow'
      BY <1>2, <2>1, <2>3 DEF LoopsFollow
    <3> QED
      BY <2>1, <2>2, <2>3, <3>1 DEF StoryOk
  <2>4. CASE loops[i].at > 0 /\ (~overlapped' => Truthful(screen'))
    <3>1. \A j \in DOMAIN loops' : ~(loops'[j].at > 0)
      BY <1>2, <2>1, <2>4
    <3> QED
      BY <2>2, <2>4, <3>1 DEF StoryOk, LoopsFollow
  <2> QED
    BY <2>3, <2>4
<1> QED
  BY <1>3, <1>4, <1>5, <1>6 DEF ShowInv

\* What is known of the beat that loop i plays next.
Plays(i, k) ==
  LET l == loops[i]
      s == Script[scene]
  IN /\ k \in 1..Len(s) /\ Len(s) \in Nat \ {0}
     /\ k # 1 => k - 1 = l.at
     /\ k # 1 => ~(s[k - 1].after /\ Stopped(l))

LEMMA NextIs ==
  ASSUME ShowInv, NEW i \in DOMAIN loops
  PROVE  LET k == (loops[i].at % Len(Script[scene])) + 1
         IN  /\ k \in 1..Len(Script[scene]) /\ Len(Script[scene]) \in Nat \ {0}
             /\ k # 1 => k - 1 = loops[i].at
             /\ scene \in Scenes
<1> DEFINE n == Len(Script[scene])
           a == loops[i].at
<1>1. scene \in Scenes
  BY DEF ShowInv, ShowTypes
<1>2. n \in Nat \ {0}
  BY <1>1, ScriptsLong
<1>3. a \in 0..n
  BY DEF ShowInv, LoopsOk, LoopOk
<1> HIDE DEF n, a
<1>4. (a % n) + 1 = IF a = n THEN 1 ELSE a + 1
  BY <1>2, <1>3, NextBeat
<1> DEFINE k == (a % n) + 1
<1>5. k \in 1..n /\ (k # 1 => k - 1 = a)
  BY <1>2, <1>3, <1>4
<1> HIDE DEF k
<1> QED
  BY <1>1, <1>2, <1>5 DEF n, a, k

\* The page after the beat.
LEMMA BeatTold ==
  ASSUME ShowInv, NEW i \in DOMAIN loops, NEW k, Plays(i, k), ~overlapped,
         screen' = Drawn(Script[scene][k].set, screen)
  PROVE  Told(screen', Span[scene], k) /\ Truthful(screen')
<1>1. scene \in Scenes /\ DOMAIN screen = Facts
  BY DEF ShowInv, ShowTypes
<1>2. k \in 1..Len(Script[scene])
  BY DEF Plays
<1>3. CASE k = 1
  <2>1. Told(screen', Span[scene], k)
    BY <1>1, <1>3, StoryStarts
  <2> QED
    BY <1>1, <1>2, <2>1, StoryTrue
<1>4. CASE k # 1
  <2> DEFINE j == k - 1
  <2>1. j \in 1..Len(Script[scene]) - 1 /\ j + 1 = k
    BY <1>2, <1>4 DEF Plays
  <2>2. loops[i].at = j /\ ~(Script[scene][j].after /\ Stopped(loops[i]))
    BY <1>4 DEF Plays
  <2>3. Told(screen, Span[scene], j) \/ (scene \notin Sections /\ cancel)
    BY <2>1, <2>2 DEF ShowInv, StoryOk, LoopsFollow
  <2>4. scene \notin Sections => Script[scene][j].after
    BY <1>1, <2>1, ScriptsLong
  <2>5. Told(screen, Span[scene], j)
    BY <2>2, <2>3, <2>4 DEF Stopped
  <2> HIDE DEF j
  <2>6. Told(screen', Span[scene], j + 1)
    BY <1>1, <2>1, <2>5, StoryGoesOn
  <2>7. Told(screen', Span[scene], k)
    BY <2>1, <2>6
  <2> QED
    BY <1>1, <1>2, <2>7, StoryTrue
<1> QED
  BY <1>3, <1>4

\* A loop that was told to stop writes once before it looks.
LEMMA WritesOnce ==
  ASSUME ShowInv, NEW i \in DOMAIN loops, NEW k, Plays(i, k),
         ~(k = 1 /\ Stopped(loops[i])), ~(Script[scene][k].before /\ Stopped(loops[i]))
  PROVE  LoopOk(Writes(loops[i], k), scene, effects)
<1> DEFINE l == loops[i]
           s == Script[scene]
           m == Writes(l, k)
<1>1. /\ l \in LoopRecords /\ scene \in Scenes
      /\ k \in 1..Len(s) /\ Len(s) \in Nat
  BY DEF ShowInv, ShowTypes, Plays
<1>2. Lateness(l, scene, effects)
      /\ (scene \in Sections => l.effect \in DOMAIN effects /\ effects[l.effect].started)
  BY DEF ShowInv, LoopsOk, LoopOk
<1>3. k # 1 => k - 1 = l.at /\ ~(s[k - 1].after /\ Stopped(l))
  BY DEF Plays
<1>4. ~(k = 1 /\ Stopped(l)) /\ ~(s[k].before /\ Stopped(l))
  OBVIOUS
<1> HIDE DEF l
<1>5. /\ m.at = k /\ m.effect = l.effect
      /\ m.late = IF Stopped(l) THEN l.late + 1 ELSE l.late
  BY <1>1 DEF Writes, LoopRecords
<1> HIDE DEF m
<1>6. Lateness(m, scene, effects)
  <2>1. CASE Stopped(l)
    <3> DEFINE j == k - 1
    <3>1. j \in 1..Len(s) - 1 /\ j + 1 = k /\ l.at = j /\ ~s[j].after
      BY <1>1, <1>3, <1>4, <2>1
    <3>2. scene \in Sections
      BY <1>1, <3>1, ScriptsLong
    <3>3. s[j].after \/ s[j + 1].before \/ s[j + 1].after \/ j + 1 = Len(s)
      BY <3>1, <3>2, ScriptsTell DEF Watched
    <3>4. ~(l.late > 0)
      BY <1>1, <1>2, <3>1 DEF Lateness
    <3>5. m.late = 1
      BY <1>1, <1>5, <2>1, <3>4 DEF LoopRecords
    <3>6. effects[m.effect].stopped
      BY <1>5, <2>1, <3>2 DEF Stopped
    <3>7. s[m.at].after \/ m.at = Len(s)
      BY <1>4, <1>5, <2>1, <3>1, <3>3
    <3> QED
      BY <1>1, <1>5, <3>2, <3>5, <3>6, <3>7 DEF Lateness
  <2>2. CASE ~Stopped(l)
    <3>1. ~(l.late > 0)
      BY <1>2, <2>2 DEF Lateness, Stopped
    <3> QED
      BY <1>5, <2>2, <3>1 DEF Lateness
  <2> QED
    BY <2>1, <2>2
<1> QED
  BY <1>1, <1>2, <1>5, <1>6 DEF LoopOk, m, l

\* The loop has written and waits again.
LEMMA LoopWrites ==
  ASSUME ShowInv, NEW i \in DOMAIN loops, NEW k, Plays(i, k),
         ~(k = 1 /\ Stopped(loops[i])), ~(Script[scene][k].before /\ Stopped(loops[i])),
         loops' = [loops EXCEPT ![i] = Writes(loops[i], k)],
         screen' = Drawn(Script[scene][k].set, screen),
         overlapped' = (overlapped \/ Begun(loops') > 1),
         UNCHANGED <<scene, effects, cancel>>
  PROVE  ShowInv'
<1> DEFINE m == Writes(loops[i], k)
<1>1. LoopOk(m, scene, effects)
  BY WritesOnce
<1>2. loops \in Seq(LoopRecords) /\ loops[i] \in LoopRecords /\ k \in Nat
  BY DEF ShowInv, ShowTypes, Plays
<1>3. m \in LoopRecords /\ m.effect = loops[i].effect /\ m.at = k
  <2> DEFINE l == loops[i]
             n == IF Stopped(l) THEN l.late + 1 ELSE l.late
  <2>1. l \in LoopRecords /\ n \in Nat
    BY <1>2 DEF LoopRecords
  <2> HIDE DEF l
  <2>2. m = [l EXCEPT !.at = k, !.late = n]
    BY <2>1 DEF Writes, LoopRecords, l
  <2> HIDE DEF n, m
  <2>3. m \in LoopRecords /\ m.effect = l.effect /\ m.at = k
    BY <1>2, <2>1, <2>2 DEF LoopRecords
  <2> QED
    BY <2>3 DEF l
<1> HIDE DEF m
<1>4. /\ loops' \in Seq(LoopRecords) /\ DOMAIN loops' = DOMAIN loops
      /\ \A j \in DOMAIN loops : loops'[j] = IF j = i THEN m ELSE loops[j]
  BY <1>2, <1>3 DEF m
<1>5. ShowTypes'
  <2>1. loops # <<>> /\ DOMAIN screen' = DOMAIN screen
    BY DEF Drawn
  <2> QED
    BY <1>4, <2>1 DEF ShowInv, ShowTypes
<1>6. LoopsOk'
  BY <1>1, <1>4 DEF ShowInv, LoopsOk
<1>7. EffectsOk'
  BY <1>3, <1>4 DEF ShowInv, EffectsOk
<1>8. StoryOk'
  <2> SUFFICES ASSUME ~overlapped' PROVE StoryOk'
    BY DEF StoryOk
  <2>1. ~overlapped /\ ~(Begun(loops') > 1)
    OBVIOUS
  <2>2. Told(screen', Span[scene], k) /\ Truthful(screen')
    BY <2>1, BeatTold
  <2>3. \A j, n \in DOMAIN loops' : loops'[j].at > 0 /\ loops'[n].at > 0 => j = n
    BY <1>4, <2>1, OneBegun
  <2>4. loops'[i].at = k /\ k > 0
    BY <1>3, <1>4 DEF Plays
  <2>5. \A j \in DOMAIN loops' : loops'[j].at > 0 => Told(screen', Span[scene], loops'[j].at)
    BY <1>4, <2>2, <2>3, <2>4
  <2> QED
    BY <2>2, <2>3, <2>5 DEF StoryOk, LoopsFollow
<1> QED
  BY <1>5, <1>6, <1>7, <1>8 DEF ShowInv

LEMMA PlaysKeep ==
  ASSUME ShowInv, NEW i \in DOMAIN loops, PlaysOn(i)
  PROVE  ShowInv'
<1> DEFINE l == loops[i]
           s == Script[scene]
           k == (l.at % Len(s)) + 1
<1>1. /\ k \in 1..Len(s) /\ Len(s) \in Nat \ {0} /\ (k # 1 => k - 1 = l.at)
      /\ scene \in Scenes /\ DOMAIN screen = Facts
  BY NextIs DEF ShowInv, ShowTypes
<1>2. /\ IF l.at > 0 /\ s[l.at].after /\ Stopped(l)
         THEN loops' = RemoveAt(loops, i) /\ screen' = screen
         ELSE Continues(i, k)
      /\ overlapped' = (overlapped \/ Begun(loops') > 1)
      /\ UNCHANGED <<scene, effects, cancel>>
  BY DEF PlaysOn
<1>3. ASSUME loops' = RemoveAt(loops, i), screen' = screen
      PROVE  ShowInv'
  BY <1>1, <1>2, <1>3, LoopEnds
<1> HIDE DEF k
<1>4. ASSUME Continues(i, k), ~(l.at > 0 /\ s[l.at].after /\ Stopped(l))
      PROVE  ShowInv'
  <2>1. Plays(i, k)
    BY <1>1, <1>4 DEF Plays
  <2>2. CASE k = 1 /\ Stopped(l)
    BY <1>3, <1>4, <2>2 DEF Continues
  <2>3. CASE ~(k = 1 /\ Stopped(l))
    <3>1. /\ screen' = Drawn(s[k].set, screen)
          /\ loops' = IF s[k].before /\ Stopped(l) THEN RemoveAt(loops, i)
                      ELSE [loops EXCEPT ![i] = Writes(l, k)]
      BY <1>4, <2>3 DEF Continues
    <3>2. CASE s[k].before /\ Stopped(l)
      <4>1. l.at > 0
        BY <1>1, <2>3, <3>2, ScriptsLong
      <4>2. ~overlapped' => Truthful(screen')
        BY <1>2, <2>1, <3>1, BeatTold
      <4>3. DOMAIN screen' = Facts
        BY <1>1, <3>1 DEF Drawn
      <4> QED
        BY <1>2, <3>1, <3>2, <4>1, <4>2, <4>3, LoopEnds
    <3>3. CASE ~(s[k].before /\ Stopped(l))
      BY <1>2, <2>1, <2>3, <3>1, <3>3, LoopWrites
    <3> QED
      BY <3>2, <3>3
  <2> QED
    BY <2>2, <2>3
<1> QED
  BY <1>2, <1>3, <1>4

\* A loop is added after those there are.
LEMMA Appended ==
  ASSUME NEW S, NEW s \in Seq(S), NEW x \in S
  PROVE  /\ Append(s, x) \in Seq(S) /\ Len(Append(s, x)) = Len(s) + 1
         /\ DOMAIN Append(s, x) = DOMAIN s \cup {Len(s) + 1} /\ Len(s) + 1 \notin DOMAIN s
         /\ \A j \in DOMAIN s : Append(s, x)[j] = s[j]
         /\ Append(s, x)[Len(s) + 1] = x
OBVIOUS

LEMMA PanelSetsUp ==
  ASSUME ShowInv, SetUpPanel, scene \in Panels \cup {Slide}, UNCHANGED scene
  PROVE  ShowInv'
<1> DEFINE l == [effect |-> Len(effects'), at |-> 1, late |-> 0]
           e == [stopped |-> FALSE, started |-> TRUE]
<1>1. /\ loops' = Append(loops, l) /\ effects' = Append(effects, e)
      /\ screen' = Fresh(TRUE) /\ overlapped' = (overlapped \/ Begun(loops') > 1)
  BY DEF SetUpPanel, Begins
<1>2. scene \in Scenes /\ scene \notin Sections /\ scene # "none"
  BY DEF Scenes, Sections, Panels, Slide
<1>3. /\ loops \in Seq(LoopRecords) /\ effects \in Seq(EffectRecords)
      /\ e \in EffectRecords
  BY DEF ShowInv, ShowTypes, EffectRecords
<1> HIDE DEF e
<1>4. effects' \in Seq(EffectRecords) /\ Len(effects') \in Nat
  BY <1>1, <1>3
<1>5. l \in LoopRecords /\ l.at = 1 /\ l.late = 0
  BY <1>4 DEF LoopRecords
<1> HIDE DEF l
<1>6. /\ loops' \in Seq(LoopRecords) /\ DOMAIN loops' = DOMAIN loops \cup {Len(loops) + 1}
      /\ \A j \in DOMAIN loops : loops'[j] = loops[j]
      /\ loops'[Len(loops) + 1] = l
  BY <1>1, <1>3, <1>5, Appended
<1>7. ShowTypes'
  BY <1>1, <1>2, <1>4, <1>6, FreshTrue DEF ShowTypes
<1>8. LoopsOk'
  <2>1. LoopOk(l, scene, effects')
    BY <1>2, <1>5, ScriptsLong DEF LoopOk, Lateness
  <2>2. \A j \in DOMAIN loops : LoopOk(loops[j], scene, effects')
    BY <1>2 DEF ShowInv, LoopsOk, LoopOk, Lateness
  <2> QED
    BY <1>6, <2>1, <2>2 DEF LoopsOk
<1>9. EffectsOk'
  BY <1>2 DEF EffectsOk
<1>10. StoryOk'
  <2> SUFFICES ASSUME ~overlapped' PROVE StoryOk'
    BY DEF StoryOk
  <2> DEFINE n == Len(loops) + 1
  <2>1. \A i, j \in DOMAIN loops' : loops'[i].at > 0 /\ loops'[j].at > 0 => i = j
    BY <1>1, <1>6, OneBegun
  <2>2. n \in DOMAIN loops' /\ loops'[n].at = 1
    BY <1>5, <1>6
  <2>3. Told(screen', Span[scene], 1) /\ Truthful(screen')
    BY <1>1, PanelsStart, FreshTrue
  <2> HIDE DEF n
  <2>4. \A i \in DOMAIN loops' : loops'[i].at > 0 => Told(screen', Span[scene], loops'[i].at)
    BY <2>1, <2>2, <2>3
  <2> QED
    BY <2>1, <2>3, <2>4 DEF StoryOk, LoopsFollow
<1> QED
  BY <1>7, <1>8, <1>9, <1>10 DEF ShowInv

LEMMA SectionSetsUp ==
  ASSUME ShowInv, SetUpSection, scene \in Sections, UNCHANGED scene,
         Effect > 0, effects[Effect].stopped
  PROVE  ShowInv'
<1> DEFINE e == [stopped |-> FALSE, started |-> FALSE]
<1>1. effects' = Append(effects, e) /\ UNCHANGED <<cancel, loops, screen, overlapped>>
  BY DEF SetUpSection
<1>2. effects \in Seq(EffectRecords) /\ e \in EffectRecords
  BY DEF ShowInv, ShowTypes, EffectRecords
<1> HIDE DEF e
<1>3. /\ effects' \in Seq(EffectRecords) /\ Len(effects') = Len(effects) + 1
      /\ DOMAIN effects' = DOMAIN effects \cup {Len(effects) + 1}
      /\ \A j \in DOMAIN effects : effects'[j] = effects[j]
  BY <1>1, <1>2, Appended
<1>4. ShowTypes'
  BY <1>1, <1>3 DEF ShowInv, ShowTypes
<1>5. LoopsOk'
  <2>1. \A i \in DOMAIN loops : LoopOk(loops[i], scene, effects')
    BY <1>3 DEF ShowInv, LoopsOk, LoopOk, Lateness
  <2> QED
    BY <1>1, <2>1 DEF LoopsOk
<1>6. EffectsOk'
  <2>1. ASSUME NEW f \in DOMAIN effects', f < Len(effects')
        PROVE  effects'[f].stopped
    <3>1. f \in DOMAIN effects /\ effects'[f] = effects[f]
      BY <1>2, <1>3, <2>1
    <3>2. f < Len(effects) \/ f = Effect
      BY <1>2, <3>1 DEF Effect
    <3> QED
      BY <3>1, <3>2 DEF ShowInv, EffectsOk
  <2> QED
    BY <1>1, <2>1 DEF ShowInv, EffectsOk
<1>7. StoryOk'
  BY <1>1 DEF ShowInv, StoryOk, LoopsFollow
<1> QED
  BY <1>4, <1>5, <1>6, <1>7 DEF ShowInv

\* The observer starts the loop of an effect that has none.
LEMMA StartsOnce ==
  ASSUME ShowInv, Intersects
  PROVE  ShowInv'
<1>1. PICK e \in DOMAIN effects :
        /\ ~effects[e].stopped /\ ~effects[e].started
        /\ effects' = [effects EXCEPT ![e].started = TRUE]
        /\ loops' = Append(loops, [effect |-> e, at |-> 0, late |-> 0])
  BY DEF Intersects, Fires
<1>2. scene \in Sections /\ UNCHANGED <<scene, cancel, screen, overlapped, deck>>
  BY DEF Intersects
<1> DEFINE l == [effect |-> e, at |-> 0, late |-> 0]
<1>3. /\ loops \in Seq(LoopRecords) /\ effects \in Seq(EffectRecords)
      /\ scene \in Scenes /\ scene # "none"
  BY <1>2 DEF ShowInv, ShowTypes, Scenes, Sections
<1>4. effects[e] \in EffectRecords /\ e \in Nat
  BY <1>3
<1>5. l \in LoopRecords /\ l.at = 0 /\ l.late = 0 /\ l.effect = e
  BY <1>4 DEF LoopRecords
<1> HIDE DEF l
<1>6. /\ loops' \in Seq(LoopRecords) /\ DOMAIN loops' = DOMAIN loops \cup {Len(loops) + 1}
      /\ \A j \in DOMAIN loops : loops'[j] = loops[j]
      /\ loops'[Len(loops) + 1] = l
  BY <1>1, <1>3, <1>5, Appended DEF l
<1>7. /\ effects' \in Seq(EffectRecords) /\ Len(effects') = Len(effects)
      /\ DOMAIN effects' = DOMAIN effects
      /\ \A f \in DOMAIN effects : /\ effects'[f].stopped = effects[f].stopped
                                   /\ effects[f].started => effects'[f].started
      /\ effects'[e].started
  <2> DEFINE r == [effects[e] EXCEPT !.started = TRUE]
  <2>1. r \in EffectRecords /\ r.stopped = effects[e].stopped /\ r.started
    BY <1>4 DEF EffectRecords
  <2>2. effects' = [effects EXCEPT ![e] = r]
    BY <1>1
  <2> HIDE DEF r
  <2> QED
    BY <1>3, <2>1, <2>2
<1>8. ShowTypes'
  BY <1>2, <1>3, <1>6, <1>7 DEF ShowInv, ShowTypes
<1>9. LoopsOk'
  <2>1. LoopOk(l, scene, effects')
    BY <1>3, <1>5, <1>7, ScriptsLong DEF LoopOk, Lateness
  <2>2. \A j \in DOMAIN loops : LoopOk(loops[j], scene, effects')
    BY <1>7 DEF ShowInv, LoopsOk, LoopOk, Lateness
  <2> QED
    BY <1>2, <1>6, <2>1, <2>2 DEF LoopsOk
<1>10. EffectsOk'
  <2>1. \A j \in DOMAIN loops : loops[j].effect # e
    BY <1>1, <1>2 DEF ShowInv, LoopsOk, LoopOk
  <2>2. \A i, j \in DOMAIN loops' : loops'[i].effect = loops'[j].effect => i = j
    BY <1>2, <1>5, <1>6, <2>1 DEF ShowInv, EffectsOk
  <2>3. \A f \in DOMAIN effects' : f < Len(effects') => effects'[f].stopped
    BY <1>2, <1>7 DEF ShowInv, EffectsOk
  <2> QED
    BY <2>2, <2>3 DEF EffectsOk
<1>11. StoryOk'
  BY <1>2, <1>5, <1>6 DEF ShowInv, StoryOk, LoopsFollow
<1> QED
  BY <1>8, <1>9, <1>10, <1>11 DEF ShowInv

LEMMA Replaced ==
  ASSUME NEW S, NEW s \in Seq(S), NEW e \in DOMAIN s, NEW r \in S
  PROVE  LET t == [s EXCEPT ![e] = r]
         IN  /\ t \in Seq(S) /\ Len(t) = Len(s) /\ DOMAIN t = DOMAIN s
             /\ \A f \in DOMAIN s : t[f] = IF f = e THEN r ELSE s[f]
OBVIOUS

\* Cleaning up tells loops to stop; the slide also wipes its page.
LEMMA CleansUp ==
  ASSUME ShowInv, Mounted,
         effects' = [effects EXCEPT ![Effect].stopped = TRUE],
         UNCHANGED <<scene, loops, overlapped>>,
         \/ UNCHANGED <<cancel, screen>>
         \/ cancel' /\ scene \notin Sections /\ screen' \in {screen, Fresh(TRUE)}
  PROVE  ShowInv'
<1>1. effects \in Seq(EffectRecords) /\ Effect \in DOMAIN effects
  BY DEF ShowInv, ShowTypes, Mounted, Effect
<1>2. /\ effects' \in Seq(EffectRecords) /\ Len(effects') = Len(effects)
      /\ DOMAIN effects' = DOMAIN effects
      /\ \A f \in DOMAIN effects : /\ effects'[f].started = effects[f].started
                                   /\ effects[f].stopped => effects'[f].stopped
  <2> DEFINE e == Effect
             r == [effects[e] EXCEPT !.stopped = TRUE]
  <2>1. effects[e] \in EffectRecords /\ e \in DOMAIN effects
    BY <1>1
  <2>2. r \in EffectRecords /\ r.started = effects[e].started /\ r.stopped
    BY <2>1 DEF EffectRecords
  <2>3. effects' = [effects EXCEPT ![e] = r]
    OBVIOUS
  <2> HIDE DEF e, r
  <2> DEFINE t == [effects EXCEPT ![e] = r]
  <2>4. /\ t \in Seq(EffectRecords) /\ Len(t) = Len(effects)
        /\ DOMAIN t = DOMAIN effects
        /\ \A f \in DOMAIN effects : t[f] = IF f = e THEN r ELSE effects[f]
    BY <1>1, <2>1, <2>2, Replaced
  <2> HIDE DEF t
  <2> QED
    BY <2>2, <2>3, <2>4 DEF t
<1>3. ShowTypes'
  BY <1>2, FreshTrue DEF ShowInv, ShowTypes
<1>4. LoopsOk'
  <2>1. \A i \in DOMAIN loops : LoopOk(loops[i], scene, effects')
    BY <1>2 DEF ShowInv, LoopsOk, LoopOk, Lateness
  <2> QED
    BY <2>1 DEF LoopsOk
<1>5. EffectsOk'
  BY <1>2 DEF ShowInv, EffectsOk
<1>6. StoryOk'
  <2>1. CASE UNCHANGED <<cancel, screen>>
    BY <2>1 DEF ShowInv, StoryOk, LoopsFollow
  <2>2. CASE cancel' /\ scene \notin Sections /\ screen' \in {screen, Fresh(TRUE)}
    <3>1. Truthful(screen) => Truthful(screen')
      BY <2>2, FreshTrue
    <3> QED
      BY <2>2, <3>1 DEF ShowInv, StoryOk, LoopsFollow
  <2> QED
    BY <2>1, <2>2
<1> QED
  BY <1>3, <1>4, <1>5, <1>6 DEF ShowInv

\* A component that is not there, or has just appeared, has no loop.
LEMMA NoLoops ==
  ASSUME scene \in Scenes \cup {"none"}, effects \in Seq(EffectRecords), loops = <<>>,
         screen = Fresh(TRUE),
         scene \in Sections => \A e \in DOMAIN effects : ~(e < Len(effects))
  PROVE  ShowInv
<1>1. DOMAIN loops = {} /\ loops \in Seq(LoopRecords)
  OBVIOUS
<1> QED
  BY <1>1, FreshTrue
     DEF ShowInv, ShowTypes, LoopsOk, EffectsOk, StoryOk, LoopsFollow

LEMMA Unmoved ==
  ASSUME ShowInv, UNCHANGED <<scene, effects, cancel, loops, screen, overlapped>>
  PROVE  ShowInv'
BY DEF ShowInv, ShowTypes, LoopsOk, EffectsOk, StoryOk, LoopsFollow

LEMMA DeckTurns ==
  ASSUME ShowInv, scene \in {"none", Slide}, TimerFires
  PROVE  ShowInv'
<1>1. CASE UNCHANGED <<scene, effects, cancel, loops, screen, overlapped>>
  BY <1>1, Unmoved
<1>2. CASE scene' = Slide /\ UNCHANGED <<effects, cancel, loops, screen, overlapped>>
  <2>1. CASE scene = Slide
    BY <1>2, <2>1, Unmoved
  <2>2. CASE scene = "none"
    <3>1. scene' \in Scenes /\ scene' \notin Sections
      BY <1>2 DEF Scenes, Sections, Slide
    <3>2. loops' = <<>> /\ DOMAIN loops' = {}
      BY <1>2, <2>2 DEF ShowInv, ShowTypes
    <3>3. ShowTypes'
      BY <1>2, <3>1, <3>2 DEF ShowInv, ShowTypes
    <3>4. LoopsOk' /\ EffectsOk'
      BY <3>1, <3>2 DEF LoopsOk, EffectsOk
    <3>5. StoryOk'
      BY <1>2, <3>2 DEF ShowInv, StoryOk, LoopsFollow
    <3> QED
      BY <3>3, <3>4, <3>5 DEF ShowInv
  <2> QED
    BY <2>1, <2>2
<1>3. CASE /\ scene' = "none" /\ effects' = <<>> /\ cancel' = FALSE
           /\ loops' = <<>> /\ screen' = Fresh(TRUE) /\ overlapped' = FALSE
  <2>1. scene' \in Scenes \cup {"none"} /\ scene' \notin Sections
    BY <1>3 DEF Sections
  <2>2. effects' \in Seq(EffectRecords) /\ loops' \in Seq(LoopRecords) /\ DOMAIN loops' = {}
    BY <1>3
  <2> QED
    BY <1>3, <2>1, <2>2, FreshTrue
       DEF ShowInv, ShowTypes, LoopsOk, EffectsOk, StoryOk, LoopsFollow
<1> QED
  BY <1>1, <1>2, <1>3 DEF TimerFires, Turned

LEMMA ShowSteps ==
  ASSUME ShowInv, ShowNext
  PROVE  ShowInv'
<1>1. ASSUME NEW i \in DOMAIN loops, PlaysOn(i) PROVE ShowInv'
  BY <1>1, PlaysKeep
<1>2. CASE Intersects
  BY <1>2, StartsOnce
<1>3. CASE Unmounts
  BY <1>3, CleansUp DEF Unmounts, CleanUp, CleanUpSection, CleanUpPanel
<1>4. CASE Reruns
  <2>1. UNCHANGED scene /\ scene \in Sections \cup Panels
        /\ Effect > 0 /\ effects[Effect].stopped
    BY <1>4, ShowAssumption DEF Reruns
  <2>2. CASE scene \in Sections
    BY <1>4, <2>1, <2>2, SectionSetsUp DEF Reruns, SetUp
  <2>3. CASE scene \notin Sections
    BY <1>4, <2>1, <2>3, PanelSetsUp DEF Reruns, SetUp
  <2> QED
    BY <2>2, <2>3
<1>5. CASE Presses
  BY <1>5, Unmoved DEF Presses
<1>6. CASE scene \in {"none", Slide} /\ TimerFires
  BY <1>6, DeckTurns
<1>7. CASE ComesIntoView
  BY <1>7, PanelSetsUp DEF ComesIntoView
<1>8. CASE GoesOutOfView
  <2>1. scene = Slide /\ scene \notin Sections
    BY <1>8 DEF GoesOutOfView, Sections, Slide
  <2> QED
    BY <1>8, <2>1, CleansUp DEF GoesOutOfView, CleanUpPanel
<1> QED
  BY <1>1, <1>2, <1>3, <1>4, <1>5, <1>6, <1>7, <1>8 DEF ShowNext

LEMMA ShowStarts ==
  ASSUME ShowInit
  PROVE  ShowInv
<1>1. cancel = FALSE /\ overlapped = FALSE /\ screen = Fresh(TRUE)
  BY DEF ShowInit
<1>2. scene \in Scenes \cup {"none"} /\ Sections \cap Panels = {}
  BY DEF ShowInit, Scenes, Sections, Panels
<1>3. effects \in Seq(EffectRecords) /\ Len(effects) \in 0..1
  <2> DEFINE e == [stopped |-> FALSE, started |-> scene \in Panels]
  <2>1. e \in EffectRecords
    BY DEF EffectRecords
  <2>2. effects = <<>> \/ effects = <<e>>
    BY DEF ShowInit
  <2> HIDE DEF e
  <2>3. <<>> \in Seq(EffectRecords) /\ Len(<<>>) = 0
    OBVIOUS
  <2>4. <<e>> \in Seq(EffectRecords) /\ Len(<<e>>) = 1
    BY <2>1
  <2>5. CASE effects = <<>>
    BY <2>3, <2>5
  <2>6. CASE effects = <<e>>
    BY <2>4, <2>6
  <2> QED
    BY <2>2, <2>5, <2>6
<1>4. CASE scene \notin Panels
  BY <1>1, <1>2, <1>3, <1>4, NoLoops DEF ShowInit
<1>5. CASE scene \in Panels
  <2> DEFINE l == [effect |-> 1, at |-> 1, late |-> 0]
  <2>1. loops = <<l>> /\ scene # "none" /\ scene \notin Sections
    BY <1>2, <1>5 DEF ShowInit, Panels
  <2>2. l \in LoopRecords /\ l.at = 1 /\ l.late = 0
    BY DEF LoopRecords
  <2> HIDE DEF l
  <2>3. loops \in Seq(LoopRecords) /\ DOMAIN loops = {1} /\ loops[1] = l
    BY <2>1, <2>2
  <2>4. LoopOk(l, scene, effects)
    BY <1>2, <2>1, <2>2, ScriptsLong DEF LoopOk, Lateness
  <2>5. Told(screen, Span[scene], 1) /\ Truthful(screen)
    BY <1>1, <1>5, PanelsStart, FreshTrue
  <2> QED
    BY <1>1, <1>2, <1>3, <2>1, <2>2, <2>3, <2>4, <2>5, FreshTrue
       DEF ShowInv, ShowTypes, LoopsOk, EffectsOk, StoryOk, LoopsFollow
<1> QED
  BY <1>4, <1>5

LEMMA ShowInvariant == LandingSpec => []ShowInv
<1>1. LandingInit => ShowInv
  BY ShowStarts DEF LandingInit
<1>2. ShowInv /\ [LandingNext]_siteVars => ShowInv'
  BY ShowSteps, Unmoved DEF LandingNext, siteVars, showVars
<1> QED
  BY <1>1, <1>2, PTL DEF LandingSpec

(* A section has one loop at work, however often its effect is set up and  *)
(* cleaned up and however late the old loops notice: the flag belongs to   *)
(* the effect, and the observer starts an effect's loop once.              *)
THEOREM OneLoopAtWork == LandingSpec => []OneLoopPerSection
<1>1. ShowInv => OneLoopPerSection
  <2> SUFFICES ASSUME ShowInv, scene \in Sections PROVE Cardinality(AtWork(loops)) <= 1
    BY DEF OneLoopPerSection
  <2>1. effects \in Seq(EffectRecords)
    BY DEF ShowInv, ShowTypes
  <2>2. \A i \in AtWork(loops) : i \in DOMAIN loops /\ loops[i].effect = Len(effects)
    <3> SUFFICES ASSUME NEW i \in AtWork(loops)
                 PROVE  i \in DOMAIN loops /\ loops[i].effect = Len(effects)
      OBVIOUS
    <3>1. i \in DOMAIN loops /\ ~effects[loops[i].effect].stopped
      BY DEF AtWork, Stopped
    <3>2. loops[i].effect \in DOMAIN effects
      BY <3>1 DEF ShowInv, LoopsOk, LoopOk
    <3>3. ~(loops[i].effect < Len(effects))
      BY <3>1, <3>2 DEF ShowInv, EffectsOk
    <3> QED
      BY <2>1, <3>1, <3>2, <3>3
  <2>3. \A i, j \in AtWork(loops) : i = j
    BY <2>2 DEF ShowInv, EffectsOk
  <2> QED
    BY <2>3, AtMostOne
<1> QED
  BY <1>1, ShowInvariant, PTL

(* A loop told to stop, by whichever flag its component uses, writes to    *)
(* the page once more at most.                                             *)
THEOREM LoopsNotice == LandingSpec => []LoopsStopSoon
<1>1. ShowInv => LoopsStopSoon
  <2> SUFFICES ASSUME ShowInv, NEW i \in DOMAIN loops PROVE loops[i].late <= 1
    BY DEF LoopsStopSoon
  <2>1. loops[i] \in LoopRecords /\ (loops[i].late > 0 => loops[i].late = 1)
    BY DEF ShowInv, ShowTypes, LoopsOk, LoopOk, Lateness
  <2>2. loops[i].late \in Nat
    BY <2>1 DEF LoopRecords
  <2> QED
    BY <2>1, <2>2
<1> QED
  BY <1>1, ShowInvariant, PTL

(* Unless two loops have written to it at once, an illustration never      *)
(* shows a transaction that needs a passkey as executed without the check  *)
(* mark, nor as executed while the passkey is asked for: whatever beat the *)
(* loop is at, the page is what its script tells, also when the slide has  *)
(* wiped it under a loop that will not write again.                        *)
THEOREM StoriesAreTrue == LandingSpec => []StoryIsTrue
<1>1. ShowInv => StoryIsTrue
  BY DEF ShowInv, StoryOk, Truthful, StoryIsTrue
<1> QED
  BY <1>1, ShowInvariant, PTL
=============================================================================
