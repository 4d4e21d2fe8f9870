---------------------------- MODULE ScriptsProofs ----------------------------
(***************************************************************************)
(* Theorems about the command line scripts, for any number of terminals,   *)
(* scripts, keys and treasuries.                                           *)
(***************************************************************************)
EXTENDS Scripts, TLAPS

-----------------------------------------------------------------------------
(* Where the scripts look, and what the programs dispatch.                 *)

LEMMA RegistryOffsets ==
  /\ DOMAIN RegistryLayout = 1..4
  /\ Offsets(RegistryLayout)[1] = 0 /\ Offsets(RegistryLayout)[2] = 8
  /\ Offsets(RegistryLayout)[3] = 40 /\ Offsets(RegistryLayout)[4] = 48
<1> DEFINE P(f) == f = [i \in DOMAIN RegistryLayout |->
                         IF i = 1 THEN 0 ELSE f[i - 1] + RegistryLayout[i - 1][2]]
           g == [i \in 1..4 |-> IF i = 1 THEN 0 ELSE IF i = 2 THEN 8 ELSE
                                IF i = 3 THEN 40 ELSE 48]
<1>1. /\ DOMAIN RegistryLayout = 1..4
      /\ RegistryLayout[1][2] = 8 /\ RegistryLayout[2][2] = 32
      /\ RegistryLayout[3][2] = 8
  BY DEF RegistryLayout
<1>2. P(g)
  <2>1. \A i \in 1..4 : g[i] = IF i = 1 THEN 0 ELSE g[i - 1] + RegistryLayout[i - 1][2]
    BY <1>1
  <2> QED
    BY <1>1, <2>1
<1>3. Offsets(RegistryLayout) = CHOOSE f : P(f)
  BY DEF Offsets
<1>4. P(Offsets(RegistryLayout))
  BY <1>2, <1>3
<1> HIDE DEF g
<1> QED
  BY <1>1, <1>4

LEMMA ConfigOffsets ==
  /\ DOMAIN ConfigLayout = 1..5
  /\ Offsets(ConfigLayout)[1] = 0 /\ Offsets(ConfigLayout)[2] = 8
  /\ Offsets(ConfigLayout)[3] = 40 /\ Offsets(ConfigLayout)[4] = 72
  /\ Offsets(ConfigLayout)[5] = 80
<1> DEFINE P(f) == f = [i \in DOMAIN ConfigLayout |->
                         IF i = 1 THEN 0 ELSE f[i - 1] + ConfigLayout[i - 1][2]]
           g == [i \in 1..5 |-> IF i = 1 THEN 0 ELSE IF i = 2 THEN 8 ELSE
                                IF i = 3 THEN 40 ELSE IF i = 4 THEN 72 ELSE 80]
<1>1. /\ DOMAIN ConfigLayout = 1..5
      /\ ConfigLayout[1][2] = 8 /\ ConfigLayout[2][2] = 32
      /\ ConfigLayout[3][2] = 32 /\ ConfigLayout[4][2] = 8
  BY DEF ConfigLayout
<1>2. P(g)
  <2>1. \A i \in 1..5 : g[i] = IF i = 1 THEN 0 ELSE g[i - 1] + ConfigLayout[i - 1][2]
    BY <1>1
  <2> QED
    BY <1>1, <2>1
<1>3. Offsets(ConfigLayout) = CHOOSE f : P(f)
  BY DEF Offsets
<1>4. P(Offsets(ConfigLayout))
  BY <1>2, <1>3
<1> HIDE DEF g
<1> QED
  BY <1>1, <1>4

\* The scripts read the nonce, the keys and the treasury where the accounts have them.
LEMMA ScriptsReadRight ==
  ScriptNonce = "nonce" /\ ScriptKeyCount = "keys" /\ ScriptTreasury = "treasury"
<1>1. /\ RegistryLayout[3][1] = "nonce" /\ RegistryLayout[4][1] = "keys"
      /\ ConfigLayout[3][1] = "treasury"
  BY DEF RegistryLayout, ConfigLayout
<1>2. FieldAt(RegistryLayout, 40) = RegistryLayout[3][1]
  <2>1. \A i \in DOMAIN RegistryLayout : Offsets(RegistryLayout)[i] = 40 <=> i = 3
    BY RegistryOffsets
  <2> QED
    BY <2>1, RegistryOffsets DEF FieldAt
<1>3. FieldAt(RegistryLayout, 48) = RegistryLayout[4][1]
  <2>1. \A i \in DOMAIN RegistryLayout : Offsets(RegistryLayout)[i] = 48 <=> i = 4
    BY RegistryOffsets
  <2> QED
    BY <2>1, RegistryOffsets DEF FieldAt
<1>4. FieldAt(ConfigLayout, 40) = ConfigLayout[3][1]
  <2>1. \A i \in DOMAIN ConfigLayout : Offsets(ConfigLayout)[i] = 40 <=> i = 3
    BY ConfigOffsets
  <2> QED
    BY <2>1, ConfigOffsets DEF FieldAt
<1>5. 8 + 32 + 8 = 48
  OBVIOUS
<1> QED
  BY <1>1, <1>2, <1>3, <1>4, <1>5 DEF ScriptNonce, ScriptKeyCount, ScriptTreasury

\* The scripts whose error is not looked at send instructions that are dispatched.
LEMMA UncheckedReach == Unchecked \subseteq Reaches
<1>1. \A a : Fits(a, a)
  BY DEF Fits, Granted, payer
<1>2. \A ix \in Idl : Len(ix.accounts) \in Nat => Dispatched(ix)
  BY <1>1 DEF Dispatched
<1>3. /\ RegisterPasskeyIdl \in Idl /\ Len(RegisterPasskeyIdl.accounts) = 5
      /\ InitConfigIdl \in Idl /\ Len(InitConfigIdl.accounts) = 3
      /\ InitializePoolIdl \in Idl /\ Len(InitializePoolIdl.accounts) = 3
  BY DEF Idl, RegisterPasskeyIdl, InitConfigIdl, InitializePoolIdl, Instruction
<1>4. /\ RegisterScriptIx = RegisterPasskeyIdl /\ InitConfigScriptIx = InitConfigIdl
      /\ InitVaultScriptIx = InitializePoolIdl
  BY DEF RegisterScriptIx, RegisterPasskeyIdl, InitConfigScriptIx, InitConfigIdl,
         InitVaultScriptIx, InitializePoolIdl, KeyArgs, ConfigArgs
<1>5. \A s \in Unchecked : Dispatched(Ix(s))
  BY <1>2, <1>3, <1>4 DEF Unchecked, Ix
<1>6. \A s \in Unchecked : <<s, "cli">> \in Commands
  BY DEF Unchecked, Commands
<1>7. \A s \in Unchecked : <<s, "cli">>[1] = s
  OBVIOUS
<1> QED
  BY <1>5, <1>6, <1>7 DEF Reaches

-----------------------------------------------------------------------------
(* The ledger.                                                             *)

LedgerFields == {"registered", "keys", "nonce", "era", "configured", "treasury",
                 "pool", "record", "authority", "buffer", "version"}
RunFields == {"script", "arg", "pc", "outcome", "nonce", "keys", "era", "treasury",
              "id", "result"}

Shape(x, fields) == x = [f \in fields |-> x[f]]

Names == {"register", "add", "remove", "recover", "initConfig", "initVault", "secure",
          "upgrade", "reclaim"}

\* A registry with keys is registered; the record's address is nobody's authority
\* without a record.
LedgerOk(L) ==
  /\ Shape(L, LedgerFields)
  /\ L.nonce \in Nat /\ L.era \in Nat
  /\ L.authority \in {"wallet", "record"}
  /\ L.authority = "record" => L.record
  /\ L.keys # <<>> => L.registered

\* What never goes back, from ledger L to a later ledger M: existing accounts stay, a
\* recovery starts an era, and in an era keys do not change without the nonce, but for
\* the first.
Onward(L, M) ==
  /\ L.registered => M.registered
  /\ L.configured => M.configured
  /\ L.pool => M.pool
  /\ L.era <= M.era
  /\ L.era = M.era => L.nonce <= M.nonce
  /\ L.era = M.era /\ L.nonce = M.nonce => M.keys = L.keys \/ L.keys = <<>>
  /\ M.treasury = L.treasury \/ L.treasury = InitLedger.treasury

\* A record is registered and its program not yet handed over.
Halfway(L) == L.record /\ L.authority = "wallet"

LEMMA FieldSet ==
  ASSUME NEW F, NEW x, Shape(x, F), NEW f \in F, NEW v
  PROVE  /\ Shape([x EXCEPT ![f] = v], F)
         /\ [x EXCEPT ![f] = v][f] = v
         /\ \A g \in F : g # f => [x EXCEPT ![f] = v][g] = x[g]
BY DEF Shape

LEMMA AfterFacts ==
  ASSUME NEW L, LedgerOk(L), NEW tx, tx.script \in Names, Succeeds(L, tx)
  PROVE  /\ LedgerOk(After(L, tx)) /\ Onward(L, After(L, tx))
         /\ Halfway(L) => Halfway(After(L, tx))
         /\ tx.script = "secure" => ~L.record /\ Halfway(After(L, tx))
<1> DEFINE M == [L EXCEPT !.nonce = NonceUsed(L, tx)]
<1>0. /\ L = [f \in LedgerFields |-> L[f]]
      /\ L.nonce \in Nat /\ L.era \in Nat /\ L.authority \in {"wallet", "record"}
      /\ L.authority = "record" => L.record
      /\ L.keys # <<>> => L.registered
  BY DEF LedgerOk, Shape
<1>1. Permitted(L, tx) /\ (tx.script \in Proved => L.registered)
  BY DEF Succeeds, Approved
<1>2. NonceUsed(L, tx) = IF tx.script \in Proved THEN L.nonce + 1 ELSE L.nonce
  BY DEF NonceUsed
<1>3. /\ M = [f \in LedgerFields |-> M[f]] /\ M.nonce = NonceUsed(L, tx)
      /\ M.registered = L.registered /\ M.keys = L.keys /\ M.era = L.era
      /\ M.configured = L.configured /\ M.treasury = L.treasury /\ M.pool = L.pool
      /\ M.record = L.record /\ M.authority = L.authority /\ M.buffer = L.buffer
      /\ M.version = L.version
  BY <1>0 DEF LedgerFields
<1>4. NonceUsed(L, tx) \in Nat /\ L.nonce <= NonceUsed(L, tx)
      /\ (tx.script \in Proved => L.nonce # NonceUsed(L, tx))
  BY <1>0, <1>2
<1> DEFINE Good(N) == /\ LedgerOk(N) /\ Onward(L, N)
                      /\ Halfway(L) => Halfway(N)
                      /\ tx.script = "secure" => ~L.record /\ Halfway(N)
<1> HIDE DEF M
<1>5. CASE tx.script = "register"
  <2> DEFINE N == [M EXCEPT !.registered = TRUE, !.keys = <<"cli">>]
  <2>1. L.keys = <<>>
    BY <1>1, <1>5 DEF Permitted
  <2>2. After(L, tx) = N
    BY <1>5 DEF After, M
  <2>3. /\ N = [f \in LedgerFields |-> N[f]]
        /\ N.registered = TRUE /\ N.nonce = M.nonce /\ N.era = M.era
        /\ N.configured = M.configured /\ N.treasury = M.treasury /\ N.pool = M.pool
        /\ N.record = M.record /\ N.authority = M.authority
    BY <1>3 DEF LedgerFields
  <2> HIDE DEF N
  <2>4. Good(N)
    BY <1>0, <1>3, <1>4, <1>5, <2>1, <2>3 DEF LedgerOk, Shape, Onward, Halfway
  <2> QED
    BY <2>2, <2>4
<1>6. CASE tx.script = "add"
  <2> DEFINE N == [M EXCEPT !.keys = Append(@, tx.arg)]
  <2>1. After(L, tx) = N
    BY <1>6 DEF After, M
  <2>2. /\ N = [f \in LedgerFields |-> N[f]]
        /\ N.registered = M.registered /\ N.nonce = M.nonce /\ N.era = M.era
        /\ N.configured = M.configured /\ N.treasury = M.treasury /\ N.pool = M.pool
        /\ N.record = M.record /\ N.authority = M.authority
    BY <1>3 DEF LedgerFields
  <2> HIDE DEF N
  <2>3. Good(N)
    BY <1>0, <1>1, <1>3, <1>4, <1>6, <2>2 DEF LedgerOk, Shape, Onward, Halfway, Proved
  <2> QED
    BY <2>1, <2>3
<1>7. CASE tx.script = "remove"
  <2> DEFINE N == [M EXCEPT !.keys = Without(@, tx.arg)]
  <2>1. After(L, tx) = N
    BY <1>7 DEF After, M
  <2>2. /\ N = [f \in LedgerFields |-> N[f]]
        /\ N.registered = M.registered /\ N.nonce = M.nonce /\ N.era = M.era
        /\ N.configured = M.configured /\ N.treasury = M.treasury /\ N.pool = M.pool
        /\ N.record = M.record /\ N.authority = M.authority
    BY <1>3 DEF LedgerFields
  <2> HIDE DEF N
  <2>3. Good(N)
    BY <1>0, <1>1, <1>3, <1>4, <1>7, <2>2 DEF LedgerOk, Shape, Onward, Halfway, Proved
  <2> QED
    BY <2>1, <2>3
<1>8. CASE tx.script = "recover"
  <2> DEFINE N == [M EXCEPT !.keys = <<tx.arg>>, !.nonce = 0, !.era = @ + 1]
  <2>0. L.registered
    BY <1>1, <1>8 DEF Permitted
  <2>1. After(L, tx) = N
    BY <1>8 DEF After, M
  <2>2. /\ N = [f \in LedgerFields |-> N[f]]
        /\ N.registered = M.registered /\ N.nonce = 0 /\ N.era = M.era + 1
        /\ N.configured = M.configured /\ N.treasury = M.treasury /\ N.pool = M.pool
        /\ N.record = M.record /\ N.authority = M.authority
    BY <1>3 DEF LedgerFields
  <2> HIDE DEF N
  <2>3. Good(N)
    BY <1>0, <1>3, <1>8, <2>0, <2>2 DEF LedgerOk, Shape, Onward, Halfway
  <2> QED
    BY <2>1, <2>3
<1>9. CASE tx.script \in {"initConfig", "initVault", "secure", "upgrade"}
  <2> DEFINE N == After(L, tx)
  <2>1. /\ tx.script = "initConfig" => N = [M EXCEPT !.configured = TRUE]
        /\ tx.script = "initVault" => N = [M EXCEPT !.pool = TRUE]
        /\ tx.script = "secure" => N = [M EXCEPT !.record = TRUE]
        /\ tx.script = "upgrade" => N = [M EXCEPT !.version = 1]
    BY <1>9 DEF After, M
  <2>2. tx.script = "secure" => ~L.record
    BY <1>1 DEF Permitted
  <2> HIDE DEF N
  <2>3. /\ N = [f \in LedgerFields |-> N[f]]
        /\ N.registered = M.registered /\ N.nonce = M.nonce /\ N.era = M.era
        /\ N.keys = M.keys /\ N.treasury = M.treasury /\ N.authority = M.authority
        /\ M.configured => N.configured
        /\ M.pool => N.pool
        /\ M.record => N.record
        /\ tx.script = "secure" => N.record
    BY <1>3, <1>9, <2>1 DEF LedgerFields
  <2>4. Good(N)
    BY <1>0, <1>3, <1>4, <1>9, <2>2, <2>3 DEF LedgerOk, Shape, Onward, Halfway
  <2> QED
    BY <2>4 DEF N
<1>10. CASE tx.script = "reclaim"
  <2> DEFINE N == [M EXCEPT !.record = FALSE, !.authority = "wallet"]
  <2>0. L.authority = "record"
    BY <1>1, <1>10 DEF Permitted
  <2>1. After(L, tx) = N
    BY <1>10 DEF After, M
  <2>2. /\ N = [f \in LedgerFields |-> N[f]]
        /\ N.registered = M.registered /\ N.nonce = M.nonce /\ N.era = M.era
        /\ N.configured = M.configured /\ N.treasury = M.treasury /\ N.pool = M.pool
        /\ N.keys = M.keys /\ N.authority = "wallet"
    BY <1>3 DEF LedgerFields
  <2> HIDE DEF N
  <2>3. Good(N)
    BY <1>0, <1>3, <1>4, <1>10, <2>0, <2>2 DEF LedgerOk, Shape, Onward, Halfway
  <2> QED
    BY <2>1, <2>3
<1> QED
  BY <1>5, <1>6, <1>7, <1>8, <1>9, <1>10 DEF Names

-----------------------------------------------------------------------------
(* What a script knows.                                                    *)

\* What was read of a registry is still there unless nonce or era have moved on.
FreshRead(x, L) ==
  /\ x.era <= L.era /\ x.era \in Nat /\ x.nonce \in Nat
  /\ x.era = L.era => x.nonce <= L.nonce
  /\ x.era = L.era /\ x.nonce = L.nonce => x.keys = L.keys \/ x.keys = <<>>

\* What a script names exists although its transaction failed.
Explained(r, L) ==
  /\ r.script = "initConfig" => L.configured
  /\ r.script = "initVault" => L.pool
  /\ r.script = "register" => L.registered \/ r.treasury # L.treasury

\* A script that has registered a record and may be about to hand the program over.
Holds(r) == r.script = "secure" /\ r.result = "ok"

RunOk(r, L, n) ==
  /\ Shape(r, RunFields)
  /\ r.script \in Names \cup {"none"}
  /\ r.id \in Nat /\ r.id <= n
  /\ r.pc # "done" => r.id # 0 /\ r.script \in Names
  /\ r.pc \notin {"sent", "transfer"} => r.result = "none"
  /\ r.pc = "transfer" => Holds(r)
  /\ Holds(r) => Halfway(L)
  /\ r.script = "register" /\ r.pc \in {"look", "send", "sent"} => L.configured
  /\ r.treasury \in {InitLedger.treasury, L.treasury}
  /\ r.result = "error" => Explained(r, L)
  /\ r.script \in Proved /\ r.pc \in {"config", "send", "sent"} => FreshRead(r, L)

TxOk(tx, L, n) ==
  /\ tx.script \in Names
  /\ tx.id \in Nat /\ tx.id # 0 /\ tx.id <= n
  /\ tx.script = "register" => L.configured
  /\ tx.script \in Proved => FreshRead(tx, L)

\* A script waits for what it sent.
Waits(r, tx) == r.pc = "sent" /\ r.result = "none" /\ Tx(r) = tx

ScriptsInv ==
  /\ started \in Nat
  /\ LedgerOk(ledger)
  /\ run = [t \in Terminals |-> run[t]]
  /\ \A t \in Terminals : RunOk(run[t], ledger, started)
  /\ \A tx \in net : TxOk(tx, ledger, started)
  /\ \A t \in Terminals, tx \in net : run[t].id = tx.id => Waits(run[t], tx)
  /\ \A t, u \in Terminals : run[t].id = run[u].id /\ run[t].id # 0 => t = u
  /\ \A t, u \in Terminals : Holds(run[t]) /\ Holds(run[u]) => t = u

\* What was true of a read stays true of it as the ledger goes on.
LEMMA FreshStays ==
  ASSUME NEW L, LedgerOk(L), NEW M, LedgerOk(M), Onward(L, M), NEW x, FreshRead(x, L)
  PROVE  FreshRead(x, M)
BY DEF FreshRead, Onward, LedgerOk

LEMMA RunStays ==
  ASSUME NEW L, LedgerOk(L), NEW M, LedgerOk(M), Onward(L, M), NEW r, NEW n, RunOk(r, L, n),
         Holds(r) => Halfway(M)
  PROVE  RunOk(r, M, n)
<1>1. FreshRead(r, L) => FreshRead(r, M)
  BY FreshStays
<1>2. r.treasury \in {InitLedger.treasury, M.treasury}
  BY DEF RunOk, Onward
<1>3. r.result = "error" => Explained(r, M)
  BY DEF RunOk, Onward, Explained
<1> QED
  BY <1>1, <1>2, <1>3 DEF RunOk, Onward

LEMMA TxStays ==
  ASSUME NEW L, LedgerOk(L), NEW M, LedgerOk(M), Onward(L, M), NEW x, NEW n, TxOk(x, L, n)
  PROVE  TxOk(x, M, n)
<1>1. FreshRead(x, L) => FreshRead(x, M)
  BY FreshStays
<1> QED
  BY <1>1 DEF TxOk, Onward

LEMMA TxFields ==
  ASSUME NEW r
  PROVE  /\ Tx(r).script = r.script /\ Tx(r).arg = r.arg /\ Tx(r).nonce = r.nonce
         /\ Tx(r).keys = r.keys /\ Tx(r).era = r.era /\ Tx(r).treasury = r.treasury
         /\ Tx(r).id = r.id
BY DEF Tx

-----------------------------------------------------------------------------
(* Scripts move.                                                           *)

Kept == ScriptsInv' /\ OkIsTrue /\ SawTheKeys

\* One terminal goes on, and what is on chain stays.
LEMMA TerminalMoves ==
  ASSUME ScriptsInv, NEW t \in Terminals, NEW r, RunOk(r, ledger, started),
         run' = [run EXCEPT ![t] = r], UNCHANGED <<ledger, started>>,
         Holds(r) => Holds(run[t]),
         r.outcome = "ok" => run[t].outcome = "ok" \/ Claimed(t),
         \/ r.id = 0 /\ UNCHANGED net
         \/ /\ r.id = run[t].id /\ UNCHANGED net
            /\ run[t].pc = "sent" => run[t].result # "none"
         \/ /\ r.id = run[t].id /\ net' = net \cup {Tx(run[t])}
            /\ run[t].pc \notin {"sent", "done"}
            /\ Waits(r, Tx(run[t])) /\ TxOk(Tx(run[t]), ledger, started)
  PROVE  Kept
<1>1. /\ run'[t] = r /\ \A u \in Terminals : u # t => run'[u] = run[u]
      /\ run' = [u \in Terminals |-> run'[u]]
  BY DEF ScriptsInv
<1>2. \A u \in Terminals : RunOk(run'[u], ledger', started')
  BY <1>1 DEF ScriptsInv
<1>3. \A tx \in net' : TxOk(tx, ledger', started')
  BY DEF ScriptsInv
<1>4. \A u, v \in Terminals : run'[u].id = run'[v].id /\ run'[u].id # 0 => u = v
  BY <1>1 DEF ScriptsInv
<1>5. \A u, v \in Terminals : Holds(run'[u]) /\ Holds(run'[v]) => u = v
  BY <1>1 DEF ScriptsInv
<1>6. ASSUME NEW u \in Terminals, NEW tx \in net', run'[u].id = tx.id
      PROVE  Waits(run'[u], tx)
  <2>1. run[t].pc # "done" => run[t].id # 0
    BY DEF ScriptsInv, RunOk
  <2>2. tx.id # 0
    BY <1>3 DEF TxOk
  <2>3. CASE tx \in net /\ u = t
    <3>1. r.id = tx.id /\ r.id # 0
      BY <1>1, <1>6, <2>2, <2>3
    <3>2. Waits(run[t], tx)
      BY <2>3, <3>1 DEF ScriptsInv
    <3> QED
      BY <3>1, <3>2 DEF Waits
  <2>4. CASE tx \in net /\ u # t
    BY <1>1, <1>6, <2>4 DEF ScriptsInv
  <2>5. CASE tx \notin net
    <3>1. tx = Tx(run[t]) /\ tx.id = run[t].id /\ Waits(r, tx)
      BY <1>6, <2>5, TxFields
    <3>2. u = t
      BY <1>1, <1>6, <2>2, <3>1 DEF ScriptsInv
    <3> QED
      BY <1>1, <3>1, <3>2
  <2> QED
    BY <2>3, <2>4, <2>5
<1>7. ScriptsInv'
  BY <1>1, <1>2, <1>3, <1>4, <1>5, <1>6 DEF ScriptsInv
<1>8. OkIsTrue
  BY <1>1 DEF OkIsTrue
<1>9. SawTheKeys
  BY DEF SawTheKeys
<1> QED
  BY <1>7, <1>8, <1>9 DEF Kept

LEMMA IdleOk ==
  ASSUME ScriptsInv, NEW o
  PROVE  /\ RunOk([Idle EXCEPT !.outcome = o], ledger, started)
         /\ [Idle EXCEPT !.outcome = o].id = 0
         /\ [Idle EXCEPT !.outcome = o].outcome = o
         /\ ~Holds([Idle EXCEPT !.outcome = o])
<1> DEFINE r == [Idle EXCEPT !.outcome = o]
<1>1. /\ r = [f \in RunFields |-> r[f]]
      /\ r.script = "none" /\ r.pc = "done" /\ r.id = 0 /\ r.result = "none"
      /\ r.treasury = InitLedger.treasury /\ r.outcome = o
  BY DEF Idle, RunFields
<1>2. \A s \in Proved : s # "none"
  BY DEF Proved
<1> HIDE DEF r
<1>3. RunOk(r, ledger, started) /\ r.id = 0 /\ r.outcome = o /\ ~Holds(r)
  BY <1>1, <1>2 DEF RunOk, Shape, Holds, ScriptsInv
<1> QED
  BY <1>3 DEF r

LEMMA Exits ==
  ASSUME ScriptsInv, NEW t \in Terminals, NEW o, Exit(t, o), o = "ok" => Claimed(t)
  PROVE  Kept
<1> DEFINE r == [Idle EXCEPT !.outcome = o]
<1>1. RunOk(r, ledger, started) /\ r.id = 0 /\ r.outcome = o /\ ~Holds(r)
  BY IdleOk
<1>2. run' = [run EXCEPT ![t] = r] /\ UNCHANGED <<ledger, net, started>>
  BY DEF Exit
<1> HIDE DEF r
<1> QED
  BY <1>1, <1>2, TerminalMoves

\* A script goes on without having sent anything.
LEMMA Continues ==
  ASSUME ScriptsInv, NEW t \in Terminals, NEW r, Continue(t, r), RunOk(r, ledger, started),
         r.id = run[t].id, r.outcome = run[t].outcome, Holds(r) => Holds(run[t]),
         run[t].pc = "sent" => run[t].result # "none"
  PROVE  Kept
BY TerminalMoves DEF Continue

LEMMA Sends ==
  ASSUME ScriptsInv, NEW t \in Terminals, Send(t), run[t].pc \in {"start", "send"},
         run[t].script = "register" => run[t].pc = "send",
         run[t].script \in Proved => run[t].pc = "send"
  PROVE  Kept
<1> DEFINE r == [run[t] EXCEPT !.pc = "sent"]
<1>1. RunOk(run[t], ledger, started) /\ Shape(run[t], RunFields)
  BY DEF ScriptsInv, RunOk
<1>2. /\ Shape(r, RunFields) /\ r.pc = "sent"
      /\ \A f \in RunFields : f # "pc" => r[f] = run[t][f]
  BY <1>1, FieldSet DEF RunFields
<1>3. /\ net' = net \cup {Tx(run[t])} /\ run' = [run EXCEPT ![t] = r]
      /\ UNCHANGED <<ledger, started>>
  BY DEF Send, ScriptsInv
<1> HIDE DEF r
<1>4. /\ r.script = run[t].script /\ r.arg = run[t].arg /\ r.outcome = run[t].outcome
      /\ r.nonce = run[t].nonce /\ r.keys = run[t].keys /\ r.era = run[t].era
      /\ r.treasury = run[t].treasury /\ r.id = run[t].id /\ r.result = run[t].result
  BY <1>2 DEF RunFields
<1>5. run[t].result = "none" /\ run[t].id # 0
  BY <1>1 DEF RunOk
<1>6. RunOk(r, ledger, started)
  BY <1>1, <1>2, <1>4, <1>5 DEF RunOk, Holds, Explained, FreshRead
<1>7. TxOk(Tx(run[t]), ledger, started)
  BY <1>1, <1>5, TxFields DEF RunOk, TxOk, FreshRead
<1>8. Tx(r) = Tx(run[t])
  BY <1>4 DEF Tx
<1>9. Waits(r, Tx(run[t])) /\ (Holds(r) => Holds(run[t]))
  BY <1>2, <1>4, <1>5, <1>8 DEF Waits, Holds
<1> QED
  BY <1>3, <1>4, <1>6, <1>7, <1>9, TerminalMoves

LEMMA SendsChecked ==
  ASSUME ScriptsInv, NEW t \in Terminals, SendChecked(t), run[t].pc \in {"start", "send"},
         run[t].script = "register" => run[t].pc = "send",
         run[t].script \notin Proved
  PROVE  Kept
BY Sends, Exits DEF SendChecked

\* A script has read something and not yet sent anything.
LEMMA Proceeds ==
  ASSUME ScriptsInv, NEW t \in Terminals, NEW q, Continue(t, q), Shape(q, RunFields),
         q.script = run[t].script, q.id = run[t].id, q.outcome = run[t].outcome,
         q.result = run[t].result, q.pc \in {"look", "config", "send"},
         run[t].pc \in {"start", "look", "config"},
         q.treasury \in {run[t].treasury, ledger.treasury},
         q.script = "register" => ledger.configured,
         q.script \in Proved => FreshRead(q, ledger)
  PROVE  Kept
<1>1. RunOk(run[t], ledger, started)
  BY DEF ScriptsInv
<1>2. run[t].result = "none"
  BY <1>1 DEF RunOk
<1>3. RunOk(q, ledger, started) /\ ~Holds(q)
  BY <1>1, <1>2 DEF RunOk, Holds
<1> QED
  BY <1>3, Continues

LEMMA PcSet ==
  ASSUME NEW r, Shape(r, RunFields), NEW to
  PROVE  LET q == [r EXCEPT !.pc = to]
         IN  /\ Shape(q, RunFields) /\ q.pc = to
             /\ q.script = r.script /\ q.id = r.id /\ q.outcome = r.outcome
             /\ q.result = r.result /\ q.treasury = r.treasury
             /\ q.nonce = r.nonce /\ q.keys = r.keys /\ q.era = r.era
BY DEF Shape, RunFields

LEMMA ConfigRead ==
  ASSUME NEW r, Shape(r, RunFields)
  PROVE  LET q == ReadConfig(r)
         IN  /\ Shape(q, RunFields) /\ q.treasury = ledger.treasury
             /\ q.script = r.script /\ q.id = r.id /\ q.outcome = r.outcome
             /\ q.result = r.result
             /\ q.nonce = r.nonce /\ q.keys = r.keys /\ q.era = r.era
<1>1. ReadConfig(r) = [r EXCEPT !.treasury = ledger.treasury]
  BY ScriptsReadRight DEF ReadConfig
<1> QED
  BY <1>1 DEF Shape, RunFields

LEMMA RegistryRead ==
  ASSUME LedgerOk(ledger), NEW r, Shape(r, RunFields)
  PROVE  LET q == ReadRegistry(r)
         IN  /\ Shape(q, RunFields)
             /\ q.script = r.script /\ q.id = r.id /\ q.outcome = r.outcome
             /\ q.result = r.result /\ q.treasury = r.treasury
             /\ q.nonce = ledger.nonce /\ q.keys = ledger.keys /\ q.era = ledger.era
             /\ FreshRead(q, ledger)
<1> DEFINE q == [r EXCEPT !.nonce = ledger.nonce, !.keys = ledger.keys, !.era = ledger.era]
<1>1. ReadRegistry(r) = q
  BY ScriptsReadRight DEF ReadRegistry
<1>2. /\ Shape(q, RunFields)
      /\ q.script = r.script /\ q.id = r.id /\ q.outcome = r.outcome
      /\ q.result = r.result /\ q.treasury = r.treasury
      /\ q.nonce = ledger.nonce /\ q.keys = ledger.keys /\ q.era = ledger.era
  BY DEF Shape, RunFields
<1> HIDE DEF q
<1>3. FreshRead(q, ledger)
  BY <1>2 DEF FreshRead, LedgerOk
<1> QED
  BY <1>1, <1>2, <1>3

\* The script goes on with what it knows.
LEMMA GoesOn ==
  ASSUME ScriptsInv, NEW t \in Terminals, NEW to \in {"look", "config", "send"},
         Continue(t, [run[t] EXCEPT !.pc = to]), run[t].pc \in {"start", "look", "config"},
         run[t].script = "register" => ledger.configured,
         run[t].script \notin Proved
  PROVE  Kept
<1> DEFINE q == [run[t] EXCEPT !.pc = to]
<1>1. Shape(run[t], RunFields)
  BY DEF ScriptsInv, RunOk
<1>2. /\ Shape(q, RunFields) /\ q.pc = to
      /\ q.script = run[t].script /\ q.id = run[t].id /\ q.outcome = run[t].outcome
      /\ q.result = run[t].result /\ q.treasury = run[t].treasury
  BY <1>1, PcSet
<1> HIDE DEF q
<1>3. Continue(t, q)
  BY DEF q
<1> QED
  BY <1>2, <1>3, Proceeds

LEMMA GoesOnReadingConfig ==
  ASSUME ScriptsInv, NEW t \in Terminals, NEW to \in {"look", "send"}, ledger.configured,
         Continue(t, [ReadConfig(run[t]) EXCEPT !.pc = to]), run[t].pc \in {"start", "config"},
         run[t].script \in Proved => run[t].pc = "config"
  PROVE  Kept
<1> DEFINE r == ReadConfig(run[t])
           q == [r EXCEPT !.pc = to]
<1>0. RunOk(run[t], ledger, started) /\ Shape(run[t], RunFields)
  BY DEF ScriptsInv, RunOk
<1>1. /\ Shape(r, RunFields) /\ r.treasury = ledger.treasury
      /\ r.script = run[t].script /\ r.id = run[t].id /\ r.outcome = run[t].outcome
      /\ r.result = run[t].result
      /\ r.nonce = run[t].nonce /\ r.keys = run[t].keys /\ r.era = run[t].era
  BY <1>0, ConfigRead
<1> HIDE DEF r
<1>2. /\ Shape(q, RunFields) /\ q.pc = to
      /\ q.script = r.script /\ q.id = r.id /\ q.outcome = r.outcome
      /\ q.result = r.result /\ q.treasury = r.treasury
      /\ q.nonce = r.nonce /\ q.keys = r.keys /\ q.era = r.era
  BY <1>1, PcSet
<1>3. Continue(t, q)
  BY DEF r
<1> HIDE DEF q
<1>4. q.script \in Proved => FreshRead(q, ledger)
  BY <1>0, <1>1, <1>2 DEF RunOk, FreshRead
<1> QED
  BY <1>1, <1>2, <1>3, <1>4, Proceeds

LEMMA GoesOnReadingRegistry ==
  ASSUME ScriptsInv, NEW t \in Terminals, NEW to \in {"config", "send"},
         Continue(t, [ReadRegistry(run[t]) EXCEPT !.pc = to]), run[t].pc = "start",
         run[t].script # "register"
  PROVE  Kept
<1> DEFINE r == ReadRegistry(run[t])
           q == [r EXCEPT !.pc = to]
<1>0. Shape(run[t], RunFields) /\ LedgerOk(ledger)
  BY DEF ScriptsInv, RunOk
<1>1. /\ Shape(r, RunFields) /\ r.treasury = run[t].treasury
      /\ r.script = run[t].script /\ r.id = run[t].id /\ r.outcome = run[t].outcome
      /\ r.result = run[t].result /\ FreshRead(r, ledger)
  BY <1>0, RegistryRead
<1> HIDE DEF r
<1>2. /\ Shape(q, RunFields) /\ q.pc = to
      /\ q.script = r.script /\ q.id = r.id /\ q.outcome = r.outcome
      /\ q.result = r.result /\ q.treasury = r.treasury
      /\ q.nonce = r.nonce /\ q.keys = r.keys /\ q.era = r.era
  BY <1>1, PcSet
<1>3. Continue(t, q)
  BY DEF r
<1> HIDE DEF q
<1>4. FreshRead(q, ledger)
  BY <1>1, <1>2 DEF FreshRead
<1> QED
  BY <1>1, <1>2, <1>3, <1>4, Proceeds

\* A script learns what became of its transaction.
LEMMA ConfirmsKeeps ==
  ASSUME ScriptsInv, NEW t \in Terminals, Confirms(t)
  PROVE  Kept
<1>0. /\ run[t].pc = "sent" /\ RunOk(run[t], ledger, started)
      /\ Shape(run[t], RunFields)
  BY DEF Confirms, ScriptsInv, RunOk
<1>1. CASE run[t].result = "ok" /\ AfterConfirm(t)
  <2>1. CASE run[t].script = "secure"
    <3> DEFINE q == [run[t] EXCEPT !.pc = "transfer"]
    <3>1. /\ Shape(q, RunFields) /\ q.pc = "transfer"
          /\ q.script = run[t].script /\ q.id = run[t].id /\ q.outcome = run[t].outcome
          /\ q.result = run[t].result /\ q.treasury = run[t].treasury
      BY <1>0, PcSet
    <3>2. Continue(t, q)
      BY <1>1, <2>1 DEF AfterConfirm
    <3> HIDE DEF q
    <3>3. Holds(q) /\ Holds(run[t])
      BY <1>1, <2>1, <3>1 DEF Holds
    <3>4. RunOk(q, ledger, started)
      <4>1. Halfway(ledger) /\ q.script \notin Proved /\ q.script \in Names
        BY <1>0, <2>1, <3>1, <3>3 DEF RunOk, Proved, Names
      <4> QED
        BY <1>0, <1>1, <2>1, <3>1, <3>3, <4>1 DEF RunOk
    <3> QED
      BY <1>1, <3>1, <3>2, <3>3, <3>4, Continues
  <2>2. CASE run[t].script # "secure"
    <3>1. Exit(t, "ok") /\ Claimed(t)
      BY <1>1, <2>2 DEF AfterConfirm, Claimed
    <3> QED
      BY <3>1, Exits
  <2> QED
    BY <2>1, <2>2
<1>2. CASE run[t].result = "error" /\ run[t].script \in Unchecked /\ Exit(t, "ok")
  <2>1. Explained(run[t], ledger)
    BY <1>0, <1>2 DEF RunOk
  <2>2. Claimed(t)
    BY <1>2, <2>1 DEF Explained, Claimed, Unchecked
  <2> QED
    BY <1>2, <2>2, Exits
<1>3. CASE Exit(t, "failed")
  BY <1>3, Exits
<1> QED
  BY <1>1, <1>2, <1>3 DEF Confirms

\* The second half of secure-upgrade-authority.
LEMMA TransferKeeps ==
  ASSUME ScriptsInv, NEW t \in Terminals, SecureTransfers(t)
  PROVE  Kept
<1>0. /\ At(t, "secure", "transfer") /\ RunOk(run[t], ledger, started)
      /\ Holds(run[t]) /\ Halfway(ledger)
  BY DEF SecureTransfers, At, ScriptsInv, RunOk
<1>1. CASE ledger.authority # "wallet" /\ Exit(t, "failed")
  BY <1>1, Exits
<1>2. CASE /\ ledger.authority = "wallet"
           /\ ledger' = [ledger EXCEPT !.authority = "record"]
           /\ run' = [run EXCEPT ![t] = [Idle EXCEPT !.outcome = "ok"]]
           /\ UNCHANGED <<net, started>>
  <2> DEFINE r == [Idle EXCEPT !.outcome = "ok"]
  <2>1. RunOk(r, ledger, started) /\ r.id = 0 /\ r.outcome = "ok" /\ ~Holds(r)
    BY IdleOk
  <2>2. /\ run' = [run EXCEPT ![t] = r]
    BY <1>2
  <2> HIDE DEF r
  <2>3. /\ run'[t] = r /\ \A u \in Terminals : u # t => run'[u] = run[u]
        /\ run' = [u \in Terminals |-> run'[u]]
    BY <2>2 DEF ScriptsInv
  <2>4. LedgerOk(ledger) /\ LedgerOk(ledger') /\ Onward(ledger, ledger')
    <3>1. /\ ledger = [f \in LedgerFields |-> ledger[f]]
          /\ ledger.nonce \in Nat /\ ledger.era \in Nat /\ ledger.record
          /\ ledger.keys # <<>> => ledger.registered
      BY <1>0 DEF ScriptsInv, LedgerOk, Shape, Halfway
    <3>2. /\ ledger' = [f \in LedgerFields |-> ledger'[f]]
          /\ ledger'.authority = "record"
          /\ ledger'.registered = ledger.registered /\ ledger'.keys = ledger.keys
          /\ ledger'.nonce = ledger.nonce /\ ledger'.era = ledger.era
          /\ ledger'.configured = ledger.configured /\ ledger'.pool = ledger.pool
          /\ ledger'.treasury = ledger.treasury /\ ledger'.record = ledger.record
      BY <1>2, <3>1 DEF LedgerFields
    <3> QED
      BY <3>1, <3>2 DEF ScriptsInv, LedgerOk, Shape, Onward
  <2>5. ASSUME NEW u \in Terminals PROVE RunOk(run'[u], ledger', started')
    <3>1. RunOk(run'[u], ledger, started) /\ ~Holds(run'[u])
      BY <1>0, <2>1, <2>3 DEF ScriptsInv
    <3> QED
      BY <1>2, <2>4, <3>1, RunStays
  <2>6. \A tx \in net' : TxOk(tx, ledger', started')
    BY <1>2, <2>4, TxStays DEF ScriptsInv
  <2>7. ASSUME NEW u \in Terminals, NEW tx \in net', run'[u].id = tx.id
        PROVE  Waits(run'[u], tx)
    BY <1>2, <2>1, <2>3, <2>6, <2>7 DEF ScriptsInv, TxOk
  <2>8. /\ \A u, v \in Terminals : run'[u].id = run'[v].id /\ run'[u].id # 0 => u = v
        /\ \A u, v \in Terminals : Holds(run'[u]) /\ Holds(run'[v]) => u = v
    BY <2>1, <2>3 DEF ScriptsInv
  <2>9. ScriptsInv'
    BY <1>2, <2>3, <2>4, <2>5, <2>6, <2>7, <2>8 DEF ScriptsInv
  <2>10. OkIsTrue
    BY <1>0, <2>3 DEF OkIsTrue, Claimed, Holds
  <2>11. SawTheKeys
    BY <1>2 DEF SawTheKeys
  <2> QED
    BY <2>9, <2>10, <2>11 DEF Kept
<1> QED
  BY <1>1, <1>2 DEF SecureTransfers

LEMMA ScriptStepKeeps ==
  ASSUME ScriptsInv, NEW t \in Terminals, ScriptStep(t) \/ Interrupt(t)
  PROVE  Kept
<1> USE DEF At
<1>0. /\ RunOk(run[t], ledger, started)
      /\ \A s \in {"register", "initConfig", "initVault", "secure", "recover"} : s \notin Proved
  BY DEF ScriptsInv, Proved
<1>1. CASE RegisterReadsConfig(t)
  BY <1>0, <1>1, Exits, GoesOnReadingConfig DEF RegisterReadsConfig
<1>2. CASE RegisterLooks(t)
  BY <1>0, <1>2, Exits, GoesOn DEF RegisterLooks, RunOk
<1>3. CASE RegisterSends(t)
  BY <1>0, <1>3, SendsChecked DEF RegisterSends
<1>4. CASE AddReadsRegistry(t)
  BY <1>4, Exits, GoesOnReadingRegistry DEF AddReadsRegistry
<1>5. CASE AddReadsConfig(t)
  BY <1>5, Exits, GoesOnReadingConfig DEF AddReadsConfig
<1>6. CASE AddSends(t)
  BY <1>6, Sends DEF AddSends
<1>7. CASE RemoveReads(t)
  BY <1>7, Exits, GoesOnReadingRegistry DEF RemoveReads
<1>8. CASE RemoveSends(t)
  BY <1>8, Sends DEF RemoveSends
<1>9. CASE RecoverSends(t)
  BY <1>0, <1>9, Sends DEF RecoverSends
<1>10. CASE InitConfigLooks(t)
  BY <1>0, <1>10, Exits, GoesOn DEF InitConfigLooks
<1>11. CASE InitConfigSends(t)
  BY <1>0, <1>11, SendsChecked DEF InitConfigSends
<1>12. CASE InitVaultLooks(t)
  BY <1>0, <1>12, Exits, GoesOn DEF InitVaultLooks
<1>13. CASE InitVaultSends(t)
  BY <1>0, <1>13, SendsChecked DEF InitVaultSends
<1>14. CASE SecureRegisters(t)
  BY <1>0, <1>14, SendsChecked DEF SecureRegisters
<1>15. CASE SecureTransfers(t)
  BY <1>15, TransferKeeps
<1>16. CASE UpgradeReads(t)
  BY <1>16, Exits, GoesOnReadingRegistry DEF UpgradeReads
<1>17. CASE UpgradeSends(t)
  BY <1>17, Sends DEF UpgradeSends
<1>18. CASE ReclaimReads(t)
  BY <1>18, Exits, GoesOnReadingRegistry DEF ReclaimReads
<1>19. CASE ReclaimSends(t)
  BY <1>19, Sends DEF ReclaimSends
<1>20. CASE Confirms(t)
  BY <1>20, ConfirmsKeeps
<1>21. CASE Interrupt(t)
  BY <1>21, Exits DEF Interrupt
<1> QED
  BY <1>1, <1>2, <1>3, <1>4, <1>5, <1>6, <1>7, <1>8, <1>9, <1>10, <1>11, <1>12, <1>13,
     <1>14, <1>15, <1>16, <1>17, <1>18, <1>19, <1>20, <1>21 DEF ScriptStep

LEMMA StartKeeps ==
  ASSUME ScriptsInv, NEW t \in Terminals, NEW c \in Commands, Start(t, c)
  PROVE  Kept
<1> DEFINE r == [Idle EXCEPT !.script = c[1], !.arg = c[2], !.pc = "start", !.id = started + 1]
<1>1. /\ r = [f \in RunFields |-> r[f]]
      /\ r.script = c[1] /\ r.pc = "start" /\ r.id = started + 1 /\ r.result = "none"
      /\ r.treasury = InitLedger.treasury /\ r.outcome = "none"
  BY DEF Idle, RunFields
<1>2. c[1] \in Names
  BY DEF Commands, Names
<1>3. run' = [run EXCEPT ![t] = r] /\ started' = started + 1 /\ UNCHANGED <<ledger, net>>
  BY DEF Start
<1> HIDE DEF r
<1>4. /\ run'[t] = r /\ \A u \in Terminals : u # t => run'[u] = run[u]
      /\ run' = [u \in Terminals |-> run'[u]] /\ started \in Nat /\ started' \in Nat
  BY <1>3 DEF ScriptsInv
<1>5. RunOk(r, ledger', started') /\ ~Holds(r)
  BY <1>1, <1>2, <1>3, <1>4 DEF RunOk, Shape, Holds
<1>6. \A u \in Terminals : RunOk(run[u], ledger', started')
  BY <1>3, <1>4 DEF ScriptsInv, RunOk
<1>7. \A tx \in net' : TxOk(tx, ledger', started') /\ tx.id # r.id
  BY <1>1, <1>3, <1>4 DEF ScriptsInv, TxOk
<1>8. \A u \in Terminals : run[u].id # r.id
  BY <1>1, <1>4 DEF ScriptsInv, RunOk
<1>9. ScriptsInv'
  BY <1>3, <1>4, <1>5, <1>6, <1>7, <1>8 DEF ScriptsInv
<1>10. OkIsTrue /\ SawTheKeys
  BY <1>1, <1>3, <1>4 DEF OkIsTrue, SawTheKeys
<1> QED
  BY <1>9, <1>10 DEF Kept

-----------------------------------------------------------------------------
(* The cluster and everybody else.                                         *)

LEMMA ResultSet ==
  ASSUME NEW r, Shape(r, RunFields), NEW res
  PROVE  LET q == [r EXCEPT !.result = res]
         IN  /\ Shape(q, RunFields) /\ q.result = res /\ q.pc = r.pc
             /\ q.script = r.script /\ q.id = r.id /\ q.outcome = r.outcome
             /\ q.treasury = r.treasury
             /\ q.nonce = r.nonce /\ q.keys = r.keys /\ q.era = r.era
BY DEF Shape, RunFields

\* A transaction leaves the network, and the script that waits for it, if it still
\* does, learns the result.
LEMMA SettlesKeeps ==
  ASSUME ScriptsInv, NEW tx \in net, NEW res \in {"ok", "error", "expired"},
         Settles(tx, res), LedgerOk(ledger'), Onward(ledger, ledger'),
         Halfway(ledger) => Halfway(ledger'),
         res = "ok" /\ tx.script = "secure" => ~ledger.record /\ Halfway(ledger'),
         res = "error" => Explained(tx, ledger'),
         ledger' # ledger /\ tx.script \in Proved => tx.nonce = ledger.nonce
  PROVE  Kept
<1>0. TxOk(tx, ledger, started) /\ LedgerOk(ledger) /\ started' = started /\ net' = net \ {tx}
  BY DEF ScriptsInv, Settles
<1> DEFINE Told(u) == [run[u] EXCEPT !.result = res]
<1>1. /\ run' = [u \in Terminals |-> run'[u]]
      /\ \A u \in Terminals : run'[u] = IF run[u].id = tx.id THEN Told(u) ELSE run[u]
  BY DEF Settles
<1>2. ASSUME NEW u \in Terminals
      PROVE  /\ Shape(Told(u), RunFields) /\ Told(u).result = res
             /\ Told(u).pc = run[u].pc /\ Told(u).script = run[u].script
             /\ Told(u).id = run[u].id /\ Told(u).outcome = run[u].outcome
             /\ Told(u).treasury = run[u].treasury /\ Told(u).nonce = run[u].nonce
             /\ Told(u).keys = run[u].keys /\ Told(u).era = run[u].era
  <2>1. Shape(run[u], RunFields)
    BY DEF ScriptsInv, RunOk
  <2> QED
    BY <2>1, ResultSet
<1> HIDE DEF Told
<1>3. \A u \in Terminals : run[u].id = tx.id =>
         /\ run[u].pc = "sent" /\ run[u].result = "none"
         /\ tx.script = run[u].script /\ tx.treasury = run[u].treasury
         /\ Tx(run[u]) = tx
  BY TxFields DEF ScriptsInv, Waits
<1>4. ASSUME NEW u \in Terminals PROVE RunOk(run'[u], ledger', started')
  <2>1. RunOk(run[u], ledger', started)
    <3>1. RunOk(run[u], ledger, started)
      BY DEF ScriptsInv
    <3>2. Holds(run[u]) => Halfway(ledger')
      BY <3>1 DEF RunOk
    <3> QED
      BY <1>0, <3>1, <3>2, RunStays
  <2>2. CASE run[u].id # tx.id
    BY <1>0, <1>1, <2>1, <2>2
  <2>3. CASE run[u].id = tx.id
    <3>1. run'[u] = Told(u) /\ run[u].pc = "sent"
      BY <1>1, <1>3, <2>3
    <3>2. Holds(Told(u)) => Halfway(ledger')
      BY <1>2, <1>3, <2>3 DEF Holds
    <3>3. Told(u).result = "error" => Explained(Told(u), ledger')
      BY <1>2, <1>3, <2>3 DEF Explained
    <3>4. Told(u).script \in Proved => FreshRead(Told(u), ledger')
      BY <1>2, <2>1, <3>1 DEF RunOk, FreshRead
    <3>5. RunOk(Told(u), ledger', started)
      BY <1>2, <2>1, <3>1, <3>2, <3>3, <3>4 DEF RunOk
    <3> QED
      BY <1>0, <3>1, <3>5
  <2> QED
    BY <2>2, <2>3
<1>5. \A x \in net' : TxOk(x, ledger', started')
  BY <1>0, TxStays DEF ScriptsInv
<1>6. ASSUME NEW u \in Terminals, NEW x \in net', run'[u].id = x.id
      PROVE  Waits(run'[u], x)
  <2>1. run[u].id = x.id /\ x \in net /\ x # tx
    BY <1>0, <1>1, <1>2, <1>6
  <2>2. Waits(run[u], x)
    BY <2>1 DEF ScriptsInv
  <2>3. run[u].id # tx.id
    BY <1>3, <2>1, <2>2 DEF Waits
  <2> QED
    BY <1>1, <2>2, <2>3
<1>7. ASSUME NEW u \in Terminals, NEW v \in Terminals,
             run'[u].id = run'[v].id, run'[u].id # 0
      PROVE  u = v
  <2>1. run'[u].id = run[u].id /\ run'[v].id = run[v].id
    BY <1>1, <1>2
  <2> QED
    BY <1>7, <2>1 DEF ScriptsInv
<1>8. ASSUME NEW u \in Terminals, NEW v \in Terminals, Holds(run'[u]), Holds(run'[v])
      PROVE  u = v
  <2>1. CASE ~ledger.record
    <3>1. ~Holds(run[u]) /\ ~Holds(run[v])
      BY <2>1 DEF ScriptsInv, RunOk, Halfway
    <3>2. run[u].id = tx.id /\ run[v].id = tx.id
      BY <1>1, <1>8, <3>1
    <3> QED
      BY <1>0, <3>2 DEF ScriptsInv, TxOk
  <2>2. CASE ledger.record
    <3>1. Holds(run[u]) /\ Holds(run[v])
      BY <1>1, <1>2, <1>3, <1>8, <2>2 DEF Holds
    <3> QED
      BY <3>1 DEF ScriptsInv
  <2> QED
    BY <2>1, <2>2
<1>9. ScriptsInv'
  BY <1>0, <1>1, <1>4, <1>5, <1>6, <1>7, <1>8 DEF ScriptsInv
<1>10. OkIsTrue
  BY <1>1, <1>2 DEF OkIsTrue
<1>11. SawTheKeys
  <2> SUFFICES ASSUME NEW x \in net, x \notin net', ledger' # ledger, x.script \in Proved
               PROVE  x.keys = ledger.keys \/ x.era # ledger.era \/ x.keys = <<>>
    BY DEF SawTheKeys
  <2>1. x = tx
    BY <1>0
  <2> QED
    BY <1>0, <2>1 DEF TxOk, FreshRead
<1> QED
  BY <1>9, <1>10, <1>11 DEF Kept

LEMMA SameLedger ==
  ASSUME LedgerOk(ledger), UNCHANGED ledger
  PROVE  LedgerOk(ledger') /\ Onward(ledger, ledger') /\ (Halfway(ledger) => Halfway(ledger'))
BY DEF Onward, LedgerOk

LEMMA ClusterKeeps ==
  ASSUME ScriptsInv, NEW tx \in net, Lands(tx) \/ Expires(tx)
  PROVE  Kept
<1>0. TxOk(tx, ledger, started) /\ LedgerOk(ledger) /\ tx.script \in Names
  BY DEF ScriptsInv, TxOk
<1>1. CASE Succeeds(ledger, tx) /\ ledger' = After(ledger, tx) /\ Settles(tx, "ok")
  <2>1. /\ LedgerOk(ledger') /\ Onward(ledger, ledger')
        /\ Halfway(ledger) => Halfway(ledger')
        /\ tx.script = "secure" => ~ledger.record /\ Halfway(ledger')
    BY <1>0, <1>1, AfterFacts
  <2>2. tx.script \in Proved => tx.nonce = ledger.nonce
    BY <1>1 DEF Succeeds, Approved
  <2> QED
    BY <1>1, <2>1, <2>2, SettlesKeeps
<1>2. CASE ~Succeeds(ledger, tx) /\ UNCHANGED ledger /\ Settles(tx, "error")
  <2>1. tx.script \in Unchecked => ~Permitted(ledger, tx)
    <3>1. \A s \in Unchecked : s \notin Proved /\ s \in Reaches
      BY UncheckedReach DEF Unchecked, Proved
    <3> QED
      BY <1>2, <3>1 DEF Succeeds
  <2>2. Explained(tx, ledger)
    <3>1. tx.script = "initConfig" => ledger.configured
      BY <2>1 DEF Unchecked, Permitted
    <3>2. tx.script = "initVault" => ledger.pool
      BY <2>1 DEF Unchecked, Permitted
    <3>3. tx.script = "register" => ~(Pays(ledger, tx) /\ ledger.keys = <<>>)
      BY <2>1 DEF Unchecked, Permitted
    <3>4. tx.script = "register" => ledger.registered \/ tx.treasury # ledger.treasury
      BY <1>0, <3>3 DEF Pays, TxOk, LedgerOk
    <3> QED
      BY <3>1, <3>2, <3>4 DEF Explained
  <2> QED
    BY <1>0, <1>2, <2>2, SameLedger, SettlesKeeps
<1>3. CASE Expires(tx)
  BY <1>0, <1>3, SameLedger, SettlesKeeps DEF Expires
<1> QED
  BY <1>1, <1>2, <1>3 DEF Lands

\* The ledger moves on without the scripts.
LEMMA LedgerMoves ==
  ASSUME ScriptsInv, UNCHANGED <<net, run, started>>, LedgerOk(ledger'),
         Onward(ledger, ledger'), Halfway(ledger) => Halfway(ledger')
  PROVE  Kept
<1>0. LedgerOk(ledger)
  BY DEF ScriptsInv
<1>1. ASSUME NEW t \in Terminals PROVE RunOk(run[t], ledger', started)
  <2>1. RunOk(run[t], ledger, started)
    BY DEF ScriptsInv
  <2>2. Holds(run[t]) => Halfway(ledger')
    BY <2>1 DEF RunOk
  <2> QED
    BY <1>0, <2>1, <2>2, RunStays
<1>2. \A tx \in net : TxOk(tx, ledger', started)
  BY <1>0, TxStays DEF ScriptsInv
<1>3. ScriptsInv'
  BY <1>1, <1>2 DEF ScriptsInv
<1>4. OkIsTrue /\ SawTheKeys
  BY DEF OkIsTrue, SawTheKeys
<1> QED
  BY <1>3, <1>4 DEF Kept

LEMMA OthersKeep ==
  ASSUME ScriptsInv, BrowserChangesKeys \/ ClientReclaims \/ MovesTreasury \/ HandsOverBuffer
  PROVE  Kept
<1>0. /\ ledger = [f \in LedgerFields |-> ledger[f]] /\ LedgerOk(ledger)
      /\ ledger.nonce \in Nat /\ ledger.era \in Nat
      /\ ledger.authority \in {"wallet", "record"}
      /\ ledger.authority = "record" => ledger.record
      /\ ledger.keys # <<>> => ledger.registered
  BY DEF ScriptsInv, LedgerOk, Shape
<1> DEFINE M == ledger'
<1>1. CASE BrowserChangesKeys
  <2>1. PICK k : /\ ledger.registered
                 /\ ledger' = [ledger EXCEPT !.keys = k, !.nonce = @ + 1]
                 /\ UNCHANGED <<net, run, started>>
    BY <1>1 DEF BrowserChangesKeys
  <2>2. /\ M = [f \in LedgerFields |-> M[f]] /\ M.nonce = ledger.nonce + 1
        /\ M.registered = ledger.registered /\ M.era = ledger.era
        /\ M.configured = ledger.configured /\ M.treasury = ledger.treasury
        /\ M.pool = ledger.pool /\ M.record = ledger.record
        /\ M.authority = ledger.authority
    BY <1>0, <2>1 DEF LedgerFields
  <2>3. LedgerOk(M) /\ Onward(ledger, M) /\ (Halfway(ledger) => Halfway(M))
    <3>0. M.nonce \in Nat /\ M.era \in Nat
      BY <1>0, <2>2
    <3>a. M.registered = ledger.registered /\ ledger.registered
      BY <2>1, <2>2
    <3>1. LedgerOk(M)
      BY <1>0, <2>2, <3>0, <3>a DEF LedgerOk, Shape
    <3>2. ledger.nonce <= M.nonce /\ ledger.nonce # M.nonce
      BY <1>0, <2>2
    <3>3. Onward(ledger, M)
      BY <1>0, <2>2, <3>2 DEF Onward
    <3>4. Halfway(ledger) => Halfway(M)
      BY <2>1, <2>2 DEF Halfway
    <3> QED
      BY <3>1, <3>3, <3>4
  <2> QED
    BY <2>1, <2>3, LedgerMoves
<1>2. CASE ClientReclaims
  <2>1. /\ ledger.authority = "record"
        /\ ledger' = [ledger EXCEPT !.record = FALSE, !.authority = "wallet", !.nonce = @ + 1]
        /\ UNCHANGED <<net, run, started>>
    BY <1>2 DEF ClientReclaims
  <2>2. /\ M = [f \in LedgerFields |-> M[f]] /\ M.nonce = ledger.nonce + 1
        /\ M.registered = ledger.registered /\ M.era = ledger.era
        /\ M.configured = ledger.configured /\ M.treasury = ledger.treasury
        /\ M.pool = ledger.pool /\ M.keys = ledger.keys
        /\ M.authority = "wallet"
    BY <1>0, <2>1 DEF LedgerFields
  <2>3. LedgerOk(M) /\ Onward(ledger, M) /\ (Halfway(ledger) => Halfway(M))
    <3>0. M.nonce \in Nat /\ M.era \in Nat /\ (M.keys # <<>> => M.registered)
      BY <1>0, <2>2
    <3>1. LedgerOk(M)
      BY <2>2, <3>0 DEF LedgerOk, Shape
    <3>2. ledger.nonce <= M.nonce /\ ledger.nonce # M.nonce
      BY <1>0, <2>2
    <3>3. Onward(ledger, M)
      BY <1>0, <2>2, <3>2 DEF Onward
    <3>4. Halfway(ledger) => Halfway(M)
      BY <2>1, <2>2 DEF Halfway
    <3> QED
      BY <3>1, <3>3, <3>4
  <2> QED
    BY <2>1, <2>3, LedgerMoves
<1>3. CASE MovesTreasury
  <2>1. PICK a : /\ ledger.treasury = InitLedger.treasury
                 /\ ledger' = [ledger EXCEPT !.treasury = a]
                 /\ UNCHANGED <<net, run, started>>
    BY <1>3 DEF MovesTreasury
  <2>2. /\ M = [f \in LedgerFields |-> M[f]] /\ M.nonce = ledger.nonce
        /\ M.registered = ledger.registered /\ M.era = ledger.era
        /\ M.configured = ledger.configured /\ M.keys = ledger.keys
        /\ M.pool = ledger.pool /\ M.record = ledger.record
        /\ M.authority = ledger.authority
    BY <1>0, <2>1 DEF LedgerFields
  <2>3. LedgerOk(M) /\ Onward(ledger, M) /\ (Halfway(ledger) => Halfway(M))
    BY <1>0, <2>1, <2>2 DEF LedgerOk, Shape, Onward, Halfway
  <2> QED
    BY <2>1, <2>3, LedgerMoves
<1>4. CASE HandsOverBuffer
  <2>1. /\ ledger' = [ledger EXCEPT !.buffer = "record"]
        /\ UNCHANGED <<net, run, started>>
    BY <1>4 DEF HandsOverBuffer
  <2>2. /\ M = [f \in LedgerFields |-> M[f]] /\ M.nonce = ledger.nonce
        /\ M.registered = ledger.registered /\ M.era = ledger.era
        /\ M.configured = ledger.configured /\ M.treasury = ledger.treasury
        /\ M.pool = ledger.pool /\ M.record = ledger.record /\ M.keys = ledger.keys
        /\ M.authority = ledger.authority
    BY <1>0, <2>1 DEF LedgerFields
  <2>3. LedgerOk(M) /\ Onward(ledger, M) /\ (Halfway(ledger) => Halfway(M))
    BY <1>0, <2>1, <2>2 DEF LedgerOk, Shape, Onward, Halfway
  <2> QED
    BY <2>1, <2>3, LedgerMoves
<1> QED
  BY <1>1, <1>2, <1>3, <1>4

-----------------------------------------------------------------------------
(* The theorems.                                                           *)

LEMMA ScriptsInit == Init => ScriptsInv
<1> SUFFICES ASSUME Init PROVE ScriptsInv
  OBVIOUS
<1>1. /\ net = {} /\ run = [t \in Terminals |-> Idle] /\ started = 0
      /\ ledger = InitLedger \/ ledger = Furnished
  BY DEF Init
<1>2. /\ InitLedger = [f \in LedgerFields |-> InitLedger[f]]
      /\ InitLedger.nonce = 0 /\ InitLedger.era = 0 /\ InitLedger.authority = "wallet"
      /\ InitLedger.keys = <<>>
  BY DEF InitLedger, LedgerFields
<1>3. /\ Furnished = [f \in LedgerFields |-> Furnished[f]]
      /\ Furnished.nonce = 1 /\ Furnished.era = 0 /\ Furnished.authority = "wallet"
      /\ Furnished.registered
  <2> DEFINE x == [InitLedger EXCEPT !.registered = TRUE, !.keys = <<"cli", "touch">>]
  <2>1. /\ x = [f \in LedgerFields |-> x[f]] /\ x.era = 0 /\ x.authority = "wallet"
        /\ x.registered = TRUE
    BY <1>2 DEF LedgerFields
  <2>2. Furnished = [x EXCEPT !.nonce = 1, !.configured = TRUE]
    BY DEF Furnished
  <2> HIDE DEF x
  <2> QED
    BY <2>1, <2>2 DEF LedgerFields
<1>4. LedgerOk(ledger)
  BY <1>1, <1>2, <1>3 DEF LedgerOk, Shape
<1>5. /\ Idle = [f \in RunFields |-> Idle[f]] /\ Idle.script = "none" /\ Idle.pc = "done"
      /\ Idle.id = 0 /\ Idle.result = "none" /\ Idle.treasury = InitLedger.treasury
  BY DEF Idle, RunFields
<1>6. RunOk(Idle, ledger, started) /\ ~Holds(Idle)
  BY <1>1, <1>5 DEF RunOk, Shape, Holds, Proved
<1> QED
  BY <1>1, <1>4, <1>5, <1>6 DEF ScriptsInv

LEMMA ScriptsStep == ScriptsInv /\ [Next]_vars => Kept
<1> SUFFICES ASSUME ScriptsInv, [Next]_vars PROVE Kept
  OBVIOUS
<1>1. CASE UNCHANGED vars
  <2>1. UNCHANGED <<ledger, net, run, started>>
    BY <1>1 DEF vars
  <2> QED
    BY <2>1, SameLedger, LedgerMoves DEF ScriptsInv
<1> QED
  BY <1>1, ScriptStepKeeps, StartKeeps, ClusterKeeps, OthersKeep DEF Next

LEMMA ScriptsInvariance == Spec => []ScriptsInv
<1>1. Kept => ScriptsInv'
  BY DEF Kept
<1> QED
  BY <1>1, ScriptsInit, ScriptsStep, PTL DEF Spec

\* Who can upgrade is never lost: the record's address is never the upgrade authority of
\* a program that has no record, wherever the two-step script was interrupted.
THEOREM AuthorityNeverLost == Spec => []RecordBehindAuthority
<1>1. ScriptsInv => RecordBehindAuthority
  BY DEF ScriptsInv, LedgerOk, RecordBehindAuthority
<1> QED
  BY <1>1, ScriptsInvariance, PTL

\* A script that prints its success has had it.
THEOREM ScriptsReportTruly == Spec => ReportsAreTrue
<1>1. Kept => OkIsTrue
  BY DEF Kept
<1> QED
  BY <1>1, ScriptsInvariance, ScriptsStep, PTL DEF Spec, ReportsAreTrue

\* A proof is spent on the keys its script looked at.
THEOREM ProofsSpentOnKeysRead == Spec => ProofsFollowReads
<1>1. Kept => SawTheKeys
  BY DEF Kept
<1> QED
  BY <1>1, ScriptsInvariance, ScriptsStep, PTL DEF Spec, ProofsFollowReads

=============================================================================
