--------------------------- MODULE CounterProofs ----------------------------
(***************************************************************************)
(* Theorems about the counter example, for any number of wallets,          *)
(* credentials, reloads, restarts and failing requests.                    *)
(***************************************************************************)
EXTENDS CounterApp, SequenceTheorems, TLAPS

-----------------------------------------------------------------------------
(* The shapes of the records.                                              *)

Shape(x, fields) == x = [f \in fields |-> x[f]]

JobFields  == {"kind", "wallet", "handle", "pc", "nonce", "keys", "outcome"}
PageFields == {"open", "active", "shown", "of", "handle", "busy"}
TxFields   == {"kind", "wallet", "handle", "nonce", "mine"}
RegFields  == {"exists", "keys", "nonce"}

ReloadRecords == [wallet: Wallets, by: {"effect", "job"}, step: {"fund", "read", "show"},
                  counter: {"null", "count"}, registry: {"null", "found"}]

LedgerShaped(l) ==
  /\ Shape(l, {"config", "registry", "counter"})
  /\ Shape(l.registry, Wallets)
  /\ \A w \in Wallets : Shape(l.registry[w], RegFields)

StoreShaped(s) ==
  /\ Shape(s, {"wallets", "active", "handle"})
  /\ Shape(s.handle, Wallets)
  /\ s.wallets \in Wallets /\ s.active \in Wallets

Shaped ==
  /\ LedgerShaped(ledger) /\ StoreShaped(store)
  /\ Shape(net, TxFields) /\ Shape(ui, PageFields) /\ Shape(job, JobFields)
  /\ reloads \in Seq(ReloadRecords)
  /\ maker \in Seq(Nat)
  /\ ui.active \in Wallets /\ job.wallet \in Nat

-----------------------------------------------------------------------------
(* The invariant, whatever fails.                                          *)

Kinds   == {"init", "register", "increment"}
Unsent  == {"config", "create", "nonce", "registry", "touch", "sign"}
Sent    == {"confirm", "logs", "reload"}

\* The awaits of buildProof and signIntent: only an increment needs a proof.
Proving == {"nonce", "registry", "touch"}

JobOk ==
  \/ job = NoJob
  \/ /\ job.kind \in Kinds /\ job.pc \in Unsent \cup Sent
     /\ job.wallet = ui.active
     /\ job.pc \in Unsent => job.outcome = "none"
     /\ job.pc \in Proving => job.kind = "increment"
     /\ job.pc = "logs" => job.outcome = "ok"

\* busy is the handler's.
BusyOk == ui.busy <=> job # NoJob

\* A handler waits for at most one reload, which is for its wallet and funds nothing.
ReloadsOk ==
  /\ \A i \in DOMAIN reloads : reloads[i].by = "job" =>
       job.pc = "reload" /\ reloads[i].wallet = job.wallet /\ reloads[i].step # "fund"
  /\ \A i, j \in DOMAIN reloads : reloads[i].by = "job" /\ reloads[j].by = "job" => i = j

\* The transaction that is waited for is the handler's.
NetOk ==
  /\ net = NoTx \/ net.kind \in Kinds
  /\ net.mine => /\ job.pc = "confirm" /\ job.outcome = "none"
                 /\ net.kind = job.kind /\ net.wallet = job.wallet /\ net.handle = job.handle

MadeFor(c, w) == c = None \/ (c \in DOMAIN maker /\ maker[c] = w)

\* A handle is of a credential made for its wallet.
MadeOk ==
  /\ \A w \in Wallets : MadeFor(store.handle[w], w)
  /\ job.kind = "register" /\ job.pc \in {"sign", "confirm", "logs"} =>
       MadeFor(job.handle, job.wallet)

ScreenOk ==
  ~overtaken =>
    /\ \A i \in DOMAIN reloads : reloads[i].wallet = ui.active
    /\ ui.shown # "loading" => ui.of = ui.active /\ MadeFor(ui.handle, ui.active)

\* An account that does not exist has no keys.
EmptyOk == \A w \in Wallets : ~ledger.registry[w].exists => ledger.registry[w].keys = {}

-----------------------------------------------------------------------------
(* The invariant, as long as nothing fails.                                *)

\* The handler's registration has landed and its handle is not saved yet.
Landed == job.kind = "register" /\ job.outcome = "ok" /\ job.pc \in {"confirm", "logs"}

\* One thing at a time: a reload, or a handler with its transaction.
Orderly ==
  /\ net # NoTx => net.mine
  /\ Len(reloads) <= 1
  /\ job # NoJob /\ job.pc # "reload" => reloads = <<>>
  /\ \A i \in DOMAIN reloads : reloads[i].by = "effect" => job = NoJob /\ ui.shown = "loading"

\* A registry that was read as missing still is when the answer is looked at.
AnswersTrue ==
  \A i \in DOMAIN reloads : reloads[i].step = "show" /\ reloads[i].registry # "found" =>
    ~ledger.registry[reloads[i].wallet].exists

\* Every key's handle is in localStorage, or in the handler that is about to save it.
KeysHeld ==
  /\ \A w \in Wallets : \A c \in ledger.registry[w].keys \ {Foreign} :
       store.handle[w] = c \/ (Landed /\ job.wallet = w /\ job.handle = c)
  /\ Landed => \A w \in Wallets : w = job.wallet =>
                 ledger.registry[w].keys \subseteq {job.handle, Foreign}

CalmOk == calm => Orderly /\ AnswersTrue /\ KeysHeld

CounterInv ==
  Shaped /\ JobOk /\ BusyOk /\ ReloadsOk /\ NetOk /\ MadeOk /\ ScreenOk /\ EmptyOk /\ CalmOk

-----------------------------------------------------------------------------

LEMMA NoJobFields ==
  /\ Shape(NoJob, JobFields) /\ NoJob.kind = "none" /\ NoJob.pc = "done"
  /\ NoJob.wallet = 0 /\ NoJob.outcome = "none" /\ NoJob.handle = None
BY DEF NoJob, Shape, JobFields

LEMMA NoTxFields ==
  /\ Shape(NoTx, TxFields) /\ ~NoTx.mine
  /\ [NoTx EXCEPT !.mine = FALSE] = NoTx
<1>1. Shape(NoTx, TxFields) /\ ~NoTx.mine
  BY DEF NoTx, Shape, TxFields
<1>2. [NoTx EXCEPT !.mine = FALSE] = NoTx
  <2>1. NoTx.mine = FALSE
    BY DEF NoTx
  <2>2. NoTx = [f \in TxFields |-> NoTx[f]]
    BY <1>1 DEF Shape
  <2> DEFINE t == NoTx
  <2>3. t.mine = FALSE /\ t = [f \in TxFields |-> t[f]]
    BY <2>1, <2>2
  <2> HIDE DEF t
  <2>4. [t EXCEPT !.mine = FALSE] = [f \in TxFields |-> t[f]]
    BY <2>3, Zenon
  <2> QED
    BY <2>3, <2>4 DEF t
<1> QED
  BY <1>1, <1>2

LEMMA ReloadTyped ==
  ASSUME NEW w \in Wallets, NEW by \in {"effect", "job"}, NEW step \in {"fund", "read"}
  PROVE  /\ Reload(w, by, step) \in ReloadRecords
         /\ Reload(w, by, step).wallet = w /\ Reload(w, by, step).by = by
         /\ Reload(w, by, step).step = step
BY DEF Reload, ReloadRecords

\* What is left when one element goes.
LEMMA OneOut ==
  ASSUME NEW S, NEW s \in Seq(S), NEW i \in DOMAIN s
  PROVE  LET q == SubSeq(s, 1, i - 1) \o SubSeq(s, i + 1, Len(s))
         IN /\ q \in Seq(S) /\ Len(q) = Len(s) - 1
            /\ \A j \in DOMAIN q : j \in DOMAIN s /\ j + 1 \in DOMAIN s
            /\ \A j \in DOMAIN q : q[j] = IF j < i THEN s[j] ELSE s[j + 1]
<1> DEFINE a == SubSeq(s, 1, i - 1)
           b == SubSeq(s, i + 1, Len(s))
<1>1. i \in 1..Len(s) /\ Len(s) \in Nat
  OBVIOUS
<1>2. a \in Seq(S) /\ Len(a) = i - 1 /\ \A j \in 1..i - 1 : a[j] = s[j]
  BY <1>1
<1>3. b \in Seq(S) /\ Len(b) = Len(s) - i /\ \A j \in 1..Len(s) - i : b[j] = s[i + j]
  BY <1>1
<1> HIDE DEF a, b
<1>0. /\ a \o b \in Seq(S) /\ Len(a \o b) = Len(a) + Len(b)
      /\ \A j \in 1..Len(a) + Len(b) :
           (a \o b)[j] = IF j <= Len(a) THEN a[j] ELSE b[j - Len(a)]
  BY <1>2, <1>3, ConcatProperties
<1>4. a \o b \in Seq(S) /\ Len(a \o b) = Len(s) - 1
  BY <1>1, <1>2, <1>3, <1>0
<1>5. \A j \in 1..Len(s) - 1 : (a \o b)[j] = IF j < i THEN s[j] ELSE s[j + 1]
  <2> SUFFICES ASSUME NEW j \in 1..Len(s) - 1
               PROVE  (a \o b)[j] = IF j < i THEN s[j] ELSE s[j + 1]
    OBVIOUS
  <2>1. j \in 1..Len(a) + Len(b) /\ Len(a) = i - 1
    BY <1>1, <1>2, <1>3
  <2>2. (a \o b)[j] = IF j <= i - 1 THEN a[j] ELSE b[j - (i - 1)]
    BY <1>0, <2>1
  <2>3. CASE j < i
    BY <1>1, <1>2, <2>2, <2>3
  <2>4. CASE ~(j < i)
    <3>1. j - (i - 1) \in 1..Len(s) - i /\ i + (j - (i - 1)) = j + 1
      BY <1>1, <2>4
    <3>2. b[j - (i - 1)] = s[i + (j - (i - 1))]
      BY <1>3, <3>1
    <3> QED
      BY <1>1, <2>2, <2>4, <3>1, <3>2
  <2> QED
    BY <2>3, <2>4
<1> DEFINE q == a \o b
<1>6. DOMAIN q = 1..Len(s) - 1 /\ DOMAIN s = 1..Len(s)
  BY <1>4
<1> HIDE DEF q
<1>7. \A j \in DOMAIN q : j \in DOMAIN s /\ j + 1 \in DOMAIN s
  BY <1>1, <1>6
<1> QED
  BY <1>4, <1>5, <1>6, <1>7 DEF a, b, q

LEMMA InitHolds == CounterInit => CounterInv
<1> SUFFICES ASSUME CounterInit PROVE CounterInv
  OBVIOUS
<1>1. Shaped
  <2>1. LedgerShaped(Genesis)
    BY DEF LedgerShaped, Genesis, NoRegistry, Shape, RegFields
  <2>2. StoreShaped(store)
    BY CounterAssumption DEF CounterInit, StoreShaped, Shape, Wallets
  <2>3. Shape(Closed, PageFields) /\ Closed.active = 1
    BY DEF Closed, Shape, PageFields
  <2> QED
    BY <2>1, <2>2, <2>3, NoJobFields, NoTxFields, CounterAssumption
       DEF CounterInit, Shaped, Wallets
<1>2. /\ job = NoJob /\ net = NoTx /\ reloads = <<>> /\ maker = <<>>
      /\ ~ui.busy /\ ui.shown = "loading"
      /\ \A w \in Wallets : store.handle[w] = None /\ ledger.registry[w].keys = {}
  BY DEF CounterInit, Closed, Genesis, NoRegistry
<1> QED
  BY <1>1, <1>2, NoJobFields, NoTxFields
     DEF CounterInv, JobOk, BusyOk, ReloadsOk, NetOk, MadeOk, ScreenOk, EmptyOk, CalmOk,
         Orderly, AnswersTrue, KeysHeld, Landed, MadeFor

-----------------------------------------------------------------------------
(* Steps of a handler.                                                     *)

\* Credentials stay those of the wallets they were made for.
Grows(m, m2) == \A c \in DOMAIN m : c \in DOMAIN m2 /\ m2[c] = m[c]

\* The page shows what it showed, and no handle but the one it had.
SamePage(p, p2) ==
  /\ p2.active = p.active /\ p2.shown = p.shown /\ p2.of = p.of
  /\ p2.handle = None \/ p2.handle = p.handle

\* A handler that has sent nothing goes from one of its reads to the next.
LEMMA HandlerMoves ==
  ASSUME CounterInv, Shaped', job # NoJob, job.pc \in Unsent,
         job'.kind \in Kinds, job'.pc \in Unsent, job'.wallet = job.wallet,
         job'.outcome = "none", job'.pc \in Proving => job'.kind = "increment",
         (job.kind = "register" /\ job.pc = "sign" => MadeFor(job.handle, job.wallet))',
         Grows(maker, maker'), SamePage(ui, ui'), ui'.busy <=> ui.busy,
         \A w \in Wallets : \/ store'.handle[w] = store.handle[w]
                            \/ /\ store'.handle[w] = None
                               /\ calm' => ledger.registry[w].keys = {},
         UNCHANGED <<ledger, net, reloads, overtaken>>, calm' => calm
  PROVE  CounterInv'
<1>1. /\ job.kind \in Kinds /\ job.wallet = ui.active /\ job.outcome = "none"
      /\ ~net.mine /\ job.pc # "reload" /\ job.pc \notin Sent /\ job'.pc \notin Sent
      /\ job'.pc # "logs"
      /\ \A i \in DOMAIN reloads : reloads[i].by # "job"
  BY DEF CounterInv, JobOk, NetOk, ReloadsOk, Unsent, Sent, Kinds, NoJob
<1>2. job' # NoJob
  BY NoJobFields DEF Kinds
<1>3. JobOk' /\ BusyOk' /\ ReloadsOk' /\ EmptyOk'
  BY <1>1, <1>2 DEF CounterInv, JobOk, BusyOk, ReloadsOk, EmptyOk, SamePage
<1>4. NetOk'
  BY <1>1 DEF CounterInv, NetOk
<1>5. \A c, w : MadeFor(c, w) => MadeFor(c, w)'
  BY DEF MadeFor, Grows
<1>6. MadeOk'
  <2>1. (\A w \in Wallets : MadeFor(store.handle[w], w))'
    BY <1>5 DEF CounterInv, MadeOk, MadeFor
  <2> QED
    BY <1>1, <2>1 DEF MadeOk, Unsent, Sent
<1>7. ScreenOk'
  BY <1>5 DEF CounterInv, ScreenOk, SamePage, MadeFor
<1>8. CalmOk'
  <2> SUFFICES ASSUME calm' PROVE (Orderly /\ AnswersTrue /\ KeysHeld)'
    BY DEF CalmOk
  <2>1. Orderly /\ AnswersTrue /\ KeysHeld /\ ~Landed /\ ~Landed'
    BY <1>1 DEF CounterInv, CalmOk, Landed, Sent
  <2>2. Orderly' /\ AnswersTrue'
    BY <1>1, <1>2, <2>1 DEF Orderly, AnswersTrue, Sent, SamePage
  <2>3. KeysHeld'
    BY <2>1 DEF KeysHeld
  <2> QED
    BY <2>2, <2>3
<1> QED
  BY <1>3, <1>4, <1>6, <1>7, <1>8 DEF CounterInv

\* A handler that ends before its reload.
LEMMA HandlerEnds ==
  ASSUME CounterInv, Shaped', job # NoJob, job.pc # "reload", job' = NoJob,
         SamePage(ui, ui'), ~ui'.busy, ~net'.mine,
         net' = net \/ net' = [net EXCEPT !.mine = FALSE],
         calm' => calm /\ net' = net /\ ~Landed,
         UNCHANGED <<ledger, store, reloads, maker, overtaken>>
  PROVE  CounterInv'
<1>1. \A i \in DOMAIN reloads : reloads[i].by # "job"
  BY DEF CounterInv, ReloadsOk
<1>2. JobOk' /\ BusyOk' /\ ReloadsOk' /\ EmptyOk'
  BY <1>1 DEF CounterInv, JobOk, BusyOk, ReloadsOk, EmptyOk
<1>3. NetOk'
  <2>1. Shape(net, TxFields)
    BY DEF CounterInv, Shaped
  <2>2. net = NoTx \/ net.kind \in Kinds
    BY DEF CounterInv, NetOk
  <2>3. net' = NoTx \/ net'.kind \in Kinds
    <3>1. CASE net' = net
      BY <2>2, <3>1
    <3>2. CASE net' = [net EXCEPT !.mine = FALSE]
      <4>1. CASE net = NoTx
        BY <3>2, <4>1, NoTxFields
      <4>2. CASE net.kind \in Kinds
        BY <2>1, <3>2, <4>2 DEF Shape, TxFields
      <4> QED
        BY <2>2, <4>1, <4>2
    <3> QED
      BY <3>1, <3>2
  <2> QED
    BY <2>3 DEF NetOk
<1>4. MadeOk'
  BY NoJobFields DEF CounterInv, MadeOk, MadeFor
<1>5. ScreenOk'
  BY DEF CounterInv, ScreenOk, SamePage, MadeFor
<1>6. CalmOk'
  <2> SUFFICES ASSUME calm' PROVE (Orderly /\ AnswersTrue /\ KeysHeld)'
    BY DEF CalmOk
  <2>1. Orderly /\ AnswersTrue /\ KeysHeld /\ ~Landed /\ ~Landed' /\ net' = net
    BY NoJobFields DEF CounterInv, CalmOk, Landed
  <2>2. reloads = <<>> /\ net' = NoTx
    BY <2>1 DEF Orderly
  <2>3. Orderly' /\ AnswersTrue'
    BY <2>2 DEF Orderly, AnswersTrue
  <2>4. KeysHeld'
    BY <2>1 DEF KeysHeld
  <2> QED
    BY <2>3, <2>4
<1> QED
  BY <1>2, <1>3, <1>4, <1>5, <1>6 DEF CounterInv

\* What is known of a handler at one of its awaits.
LEMMA HandlerFacts ==
  ASSUME CounterInv, NEW pc \in Unsent \cup {"confirm", "logs"}, At(pc)
  PROVE  /\ job # NoJob /\ job.pc = pc /\ job.kind \in Kinds /\ job.pc # "reload"
         /\ job.wallet = ui.active /\ ui.busy
         /\ Shaped /\ Shape(job, JobFields) /\ Shape(ui, PageFields)
         /\ pc # "confirm" => ~net.mine
         /\ UNCHANGED <<stack, overtaken>>
BY NoJobFields DEF CounterInv, JobOk, BusyOk, NetOk, At, Unsent, Shaped

LEMMA ThrowKeeps ==
  ASSUME CounterInv, NEW pc \in Unsent \cup {"confirm", "logs"}, At(pc), Throws,
         calm' => calm, ~net.mine, calm' => ~Landed
  PROVE  CounterInv'
<1>1. /\ job # NoJob /\ job.pc # "reload" /\ Shaped /\ Shape(ui, PageFields)
      /\ UNCHANGED overtaken
  BY HandlerFacts
<1>2. /\ job' = NoJob /\ ui' = [ui EXCEPT !.busy = FALSE]
      /\ UNCHANGED <<ledger, net, store, reloads, maker>>
  BY DEF Throws, Ends
<1>3. SamePage(ui, ui') /\ ~ui'.busy /\ Shape(ui', PageFields) /\ ui'.active = ui.active
  BY <1>1, <1>2 DEF Shape, PageFields, SamePage
<1>4. Shaped'
  BY <1>1, <1>2, <1>3, NoJobFields DEF Shaped
<1> QED
  BY <1>1, <1>2, <1>3, <1>4, HandlerEnds

\* Before anything is sent, an error leaves everything as it is.
LEMMA EarlyThrowKeeps ==
  ASSUME CounterInv, NEW pc \in Unsent, At(pc), Throws, calm' => calm
  PROVE  CounterInv'
<1>1. ~net.mine /\ ~Landed
  BY HandlerFacts DEF Landed, Unsent
<1> QED
  BY <1>1, ThrowKeeps

LEMMA FailsEndsCalm == Fails => ~calm'
BY DEF Fails

\* A handler's record after one of its awaits.
Stays(j, q, v) ==
  /\ Shape(q, JobFields)
  /\ q.kind = j.kind /\ q.wallet = j.wallet /\ q.outcome = j.outcome /\ q.pc = v

LEMMA JobEdited ==
  ASSUME NEW j, Shape(j, JobFields), NEW v, NEW x, NEW q,
         \/ q = [j EXCEPT !.pc = v]
         \/ q = [j EXCEPT !.nonce = x, !.pc = v]
         \/ q = [j EXCEPT !.keys = x, !.pc = v]
  PROVE  Stays(j, q, v) /\ q.handle = j.handle
BY DEF Shape, JobFields, Stays

\* A read whose answer only the handler sees.
LEMMA ReadMoves ==
  ASSUME CounterInv, NEW pc \in Unsent, At(pc), NEW next \in Unsent,
         Stays(job, job', next),
         job.kind = "register" => next # "sign",
         next \in Proving => job.kind = "increment",
         UNCHANGED <<ledger, net, store, ui, reloads, maker, calm>>
  PROVE  CounterInv'
<1>1. /\ job # NoJob /\ job.pc = pc /\ job.kind \in Kinds /\ Shaped /\ UNCHANGED overtaken
      /\ Shape(job', JobFields) /\ job'.kind = job.kind /\ job'.wallet = job.wallet
      /\ job'.outcome = job.outcome /\ job'.pc = next
  BY HandlerFacts DEF Stays
<1>2. job.outcome = "none"
  BY <1>1 DEF CounterInv, JobOk
<1>3. Shaped'
  BY <1>1 DEF Shaped
<1>4. Grows(maker, maker') /\ SamePage(ui, ui') /\ (ui'.busy <=> ui.busy)
  BY DEF Grows, SamePage
<1> QED
  BY <1>1, <1>2, <1>3, <1>4, HandlerMoves

LEMMA FetchesConfigKeeps == CounterInv /\ FetchesConfig => CounterInv'
<1> SUFFICES ASSUME CounterInv, FetchesConfig PROVE CounterInv'
  OBVIOUS
<1>1. "config" \in Unsent /\ At("config")
  BY DEF FetchesConfig, Unsent
<1>2. CASE /\ job' = [job EXCEPT !.pc = "create"]
           /\ UNCHANGED <<ledger, net, store, ui, reloads, maker, events, calm>>
  <2>1. "create" \in Unsent /\ "create" # "sign" /\ "create" \notin Proving
    BY DEF Unsent, Proving
  <2>2. Shape(job, JobFields)
    BY <1>1, HandlerFacts
  <2>3. Stays(job, job', "create")
    BY <1>2, <2>2, JobEdited
  <2> QED
    BY <1>1, <1>2, <2>1, <2>3, ReadMoves
<1>3. CASE Throws /\ UNCHANGED <<events, calm>>
  BY <1>1, <1>3, EarlyThrowKeeps
<1>4. CASE Fails /\ Throws
  BY <1>1, <1>4, FailsEndsCalm, EarlyThrowKeeps
<1> QED
  BY <1>2, <1>3, <1>4 DEF FetchesConfig

LEMMA CreatesKeeps == CounterInv /\ Creates => CounterInv'
<1> SUFFICES ASSUME CounterInv, Creates PROVE CounterInv'
  OBVIOUS
<1>1. "create" \in Unsent /\ At("create") /\ "sign" \in Unsent /\ UNCHANGED calm
  BY DEF Creates, Unsent
<1>2. CASE /\ maker' = Append(maker, job.wallet)
           /\ job' = [job EXCEPT !.handle = Len(maker'), !.pc = "sign"]
           /\ UNCHANGED <<ledger, net, store, ui, reloads>>
  <2>1. /\ job # NoJob /\ job.pc = "create" /\ job.kind \in Kinds /\ Shaped
        /\ Shape(job, JobFields) /\ UNCHANGED overtaken
    BY <1>1, HandlerFacts
  <2>2. job.outcome = "none"
    BY <1>1, <2>1 DEF CounterInv, JobOk
  <2>3. /\ Shape(job', JobFields) /\ job'.kind = job.kind /\ job'.wallet = job.wallet
        /\ job'.outcome = "none" /\ job'.pc = "sign" /\ job'.handle = Len(maker')
    <3> DEFINE c == Len(maker')
    <3>1. job' = [job EXCEPT !.handle = c, !.pc = "sign"] /\ Shape(job, JobFields)
      BY <1>2, <2>1
    <3> HIDE DEF c
    <3>2. Stays(job, job', "sign") /\ job'.handle = c
      BY <3>1 DEF Shape, JobFields, Stays
    <3> QED
      BY <2>2, <3>2 DEF Stays, c
  <2>4. maker \in Seq(Nat) /\ job.wallet \in Nat
    BY <2>1 DEF Shaped
  <2>5. /\ maker' \in Seq(Nat) /\ Grows(maker, maker')
        /\ Len(maker') \in DOMAIN maker' /\ maker'[Len(maker')] = job.wallet
    BY <1>2, <2>4 DEF Grows
  <2>6. Shaped'
    BY <1>2, <2>1, <2>3, <2>5 DEF Shaped
  <2>7. MadeFor(job.handle, job.wallet)'
    BY <2>3, <2>5 DEF MadeFor
  <2>8. SamePage(ui, ui') /\ (ui'.busy <=> ui.busy) /\ "sign" \notin Proving
    BY <1>2 DEF SamePage, Proving
  <2> QED
    BY <1>1, <1>2, <2>1, <2>3, <2>5, <2>6, <2>7, <2>8, HandlerMoves
<1>3. CASE Throws
  BY <1>1, <1>3, EarlyThrowKeeps
<1> QED
  BY <1>2, <1>3 DEF Creates

LEMMA FetchesNonceKeeps == CounterInv /\ FetchesNonce => CounterInv'
<1> SUFFICES ASSUME CounterInv, FetchesNonce PROVE CounterInv'
  OBVIOUS
<1> DEFINE w == job.wallet
           reg == ledger.registry[w]
           Missing == /\ store' = [store EXCEPT !.handle[w] = None]
                      /\ ui' = [ui EXCEPT !.handle = None]
                      /\ job' = [job EXCEPT !.kind = "register", !.handle = None,
                                            !.pc = "config"]
<1>1. /\ "nonce" \in Unsent /\ At("nonce") /\ "registry" \in Unsent /\ "config" \in Unsent
      /\ UNCHANGED <<ledger, net, reloads, maker>>
  BY DEF FetchesNonce, Unsent
<1>2. /\ job # NoJob /\ job.pc = "nonce" /\ job.kind \in Kinds /\ Shaped
      /\ Shape(job, JobFields) /\ Shape(ui, PageFields) /\ UNCHANGED overtaken
  BY <1>1, HandlerFacts
<1>3. CASE /\ job' = [job EXCEPT !.nonce = reg.nonce, !.pc = "registry"]
           /\ UNCHANGED <<store, ui, events, calm>>
  <2>1. Stays(job, job', "registry")
    BY <1>2, <1>3, JobEdited
  <2>2. "registry" # "sign" /\ job.kind = "increment"
    BY <1>2 DEF CounterInv, JobOk, Proving
  <2> QED
    BY <1>1, <1>3, <2>1, <2>2, ReadMoves
<1>4. ASSUME Missing, calm' => calm /\ ~reg.exists PROVE CounterInv'
  <2>1. /\ Shape(job', JobFields) /\ job'.kind = "register" /\ job'.wallet = w
        /\ job'.outcome = job.outcome /\ job'.pc = "config"
    <3>1. job' = [job EXCEPT !.kind = "register", !.handle = None, !.pc = "config"]
      BY <1>4
    <3> QED
      BY <1>2, <3>1 DEF Shape, JobFields
  <2>2. job.outcome = "none"
    BY <1>1, <1>2 DEF CounterInv, JobOk
  <2>3. /\ Shape(ui', PageFields) /\ SamePage(ui, ui') /\ (ui'.busy <=> ui.busy)
        /\ ui'.active = ui.active
    BY <1>2, <1>4 DEF Shape, PageFields, SamePage
  <2>4. StoreShaped(store)
    BY <1>2 DEF Shaped
  <2>5. StoreShaped(store') /\ \A v \in Wallets :
            \/ store'.handle[v] = store.handle[v]
            \/ v = w /\ store'.handle[v] = None
    BY <1>4, <2>4 DEF StoreShaped, Shape
  <2>6. Shaped'
    BY <1>1, <1>2, <2>1, <2>3, <2>5 DEF Shaped
  <2>7. \A v \in Wallets : \/ store'.handle[v] = store.handle[v]
                           \/ /\ store'.handle[v] = None
                              /\ calm' => ledger.registry[v].keys = {}
    BY <1>4, <2>5 DEF CounterInv, EmptyOk
  <2>8. /\ Grows(maker, maker') /\ job'.pc # "sign" /\ "register" \in Kinds
        /\ "config" \notin Proving
    BY <1>1, <2>1 DEF Grows, Kinds, Proving
  <2> QED
    BY <1>1, <1>2, <1>4, <2>1, <2>2, <2>3, <2>6, <2>7, <2>8, HandlerMoves
<1>5. CASE ~reg.exists /\ Missing /\ UNCHANGED <<events, calm>>
  BY <1>4, <1>5
<1>6. CASE Fails /\ Missing
  BY <1>4, <1>6, FailsEndsCalm
<1> QED
  BY <1>3, <1>5, <1>6 DEF FetchesNonce

LEMMA FetchesKeysKeeps == CounterInv /\ FetchesKeys => CounterInv'
<1> SUFFICES ASSUME CounterInv, FetchesKeys PROVE CounterInv'
  OBVIOUS
<1> DEFINE reg == ledger.registry[job.wallet]
<1>1. "registry" \in Unsent /\ At("registry") /\ "touch" \in Unsent
  BY DEF FetchesKeys, Unsent
<1>2. Shape(job, JobFields)
  BY <1>1, HandlerFacts
<1>3. CASE /\ job' = [job EXCEPT !.keys = reg.keys, !.pc = "touch"]
           /\ UNCHANGED <<ledger, net, store, ui, reloads, maker, events, calm>>
  <2>1. Stays(job, job', "touch")
    BY <1>2, <1>3, JobEdited
  <2>2. "touch" # "sign" /\ job.kind = "increment"
    BY <1>1, HandlerFacts DEF CounterInv, JobOk, Proving
  <2> QED
    BY <1>1, <1>3, <2>1, <2>2, ReadMoves
<1>4. CASE Throws /\ UNCHANGED <<events, calm>>
  BY <1>1, <1>4, EarlyThrowKeeps
<1>5. CASE Fails /\ Throws
  BY <1>1, <1>5, FailsEndsCalm, EarlyThrowKeeps
<1> QED
  BY <1>3, <1>4, <1>5 DEF FetchesKeys

LEMMA TouchesKeeps == CounterInv /\ Touches => CounterInv'
<1> SUFFICES ASSUME CounterInv, Touches PROVE CounterInv'
  OBVIOUS
<1>1. "touch" \in Unsent /\ At("touch") /\ "sign" \in Unsent /\ UNCHANGED calm
  BY DEF Touches, Unsent
<1>2. CASE /\ job' = [job EXCEPT !.pc = "sign"]
           /\ UNCHANGED <<ledger, net, store, ui, reloads, maker>>
  <2>1. Shape(job, JobFields) /\ job.kind = "increment"
    BY <1>1, HandlerFacts DEF CounterInv, JobOk, Proving
  <2>2. Stays(job, job', "sign")
    BY <1>2, <2>1, JobEdited
  <2>3. job.kind # "register" /\ "sign" \notin Proving
    BY <2>1 DEF Proving
  <2> QED
    BY <1>1, <1>2, <2>2, <2>3, ReadMoves
<1>3. CASE Throws
  BY <1>1, <1>3, EarlyThrowKeeps
<1> QED
  BY <1>2, <1>3 DEF Touches

LEMMA SendsKeeps == CounterInv /\ Sends => CounterInv'
<1> SUFFICES ASSUME CounterInv, Sends PROVE CounterInv'
  OBVIOUS
<1>1. "sign" \in Unsent /\ At("sign")
  BY DEF Sends, Unsent
<1>2. CASE /\ net = NoTx
           /\ net' = [kind |-> job.kind, wallet |-> job.wallet, handle |-> job.handle,
                      nonce |-> job.nonce, mine |-> TRUE]
           /\ job' = [job EXCEPT !.pc = "confirm"]
           /\ UNCHANGED <<ledger, store, ui, reloads, maker, events, calm>>
  <2>1. /\ job # NoJob /\ job.pc = "sign" /\ job.kind \in Kinds /\ Shaped
        /\ Shape(job, JobFields) /\ UNCHANGED overtaken
    BY <1>1, HandlerFacts
  <2>2. job.outcome = "none" /\ job.wallet = ui.active
    BY <1>1, <2>1 DEF CounterInv, JobOk
  <2>3. Stays(job, job', "confirm") /\ job'.handle = job.handle
    BY <1>2, <2>1, JobEdited
  <2>4. /\ Shape(net', TxFields) /\ net'.kind = job.kind /\ net'.wallet = job.wallet
        /\ net'.handle = job.handle /\ net'.mine
    BY <1>2 DEF Shape, TxFields
  <2>5. Shaped'
    BY <1>2, <2>1, <2>3, <2>4 DEF Shaped, Stays
  <2>6. job' # NoJob
    BY <2>1, <2>3, NoJobFields DEF Stays, Kinds
  <2>7. JobOk' /\ BusyOk' /\ ReloadsOk' /\ EmptyOk'
    <3>1. \A i \in DOMAIN reloads : reloads[i].by # "job"
      BY <2>1 DEF CounterInv, ReloadsOk
    <3>2. /\ job'.kind \in Kinds /\ job'.pc = "confirm" /\ job'.wallet = ui'.active
          /\ UNCHANGED <<reloads, ui, ledger>>
      BY <1>2, <2>1, <2>2, <2>3 DEF Stays
    <3> QED
      BY <2>1, <2>6, <3>1, <3>2
         DEF CounterInv, JobOk, BusyOk, ReloadsOk, EmptyOk, Unsent, Sent, Proving
  <2>8. NetOk'
    BY <2>1, <2>2, <2>3, <2>4 DEF NetOk, Stays
  <2>9. MadeOk'
    BY <1>2, <2>1, <2>3 DEF CounterInv, MadeOk, MadeFor, Stays
  <2>10. ScreenOk'
    BY <1>2, <2>1 DEF CounterInv, ScreenOk, MadeFor
  <2>11. CalmOk'
    <3> SUFFICES ASSUME calm' PROVE (Orderly /\ AnswersTrue /\ KeysHeld)'
      BY DEF CalmOk
    <3>1. Orderly /\ AnswersTrue /\ KeysHeld /\ ~Landed /\ ~Landed'
      BY <1>2, <2>1, <2>2, <2>3 DEF CounterInv, CalmOk, Landed, Stays
    <3>2. Orderly' /\ AnswersTrue'
      BY <1>2, <2>1, <2>4, <2>6, <3>1 DEF Orderly, AnswersTrue
    <3>3. KeysHeld'
      BY <1>2, <3>1 DEF KeysHeld
    <3> QED
      BY <3>2, <3>3
  <2> QED
    BY <2>5, <2>7, <2>8, <2>9, <2>10, <2>11 DEF CounterInv
<1>3. CASE Fails /\ Throws
  BY <1>1, <1>3, FailsEndsCalm, EarlyThrowKeeps
<1> QED
  BY <1>2, <1>3 DEF Sends
LEMMA ConfirmsKeeps == CounterInv /\ Confirms => CounterInv'
<1> SUFFICES ASSUME CounterInv, Confirms PROVE CounterInv'
  OBVIOUS
<1>1. At("confirm")
  BY DEF Confirms
<1>2. /\ job # NoJob /\ job.pc = "confirm" /\ job.kind \in Kinds /\ job.pc # "reload"
      /\ Shaped /\ Shape(job, JobFields) /\ Shape(ui, PageFields) /\ UNCHANGED overtaken
  BY <1>1, HandlerFacts
<1>3. CASE /\ job.outcome = "ok" /\ job' = [job EXCEPT !.pc = "logs"]
           /\ UNCHANGED <<ledger, net, store, ui, reloads, maker, events, calm>>
  <2>1. Stays(job, job', "logs") /\ job'.handle = job.handle
    BY <1>2, <1>3, JobEdited
  <2>2. ~net.mine /\ \A i \in DOMAIN reloads : reloads[i].by # "job"
    BY <1>2, <1>3 DEF CounterInv, NetOk, ReloadsOk
  <2>3. Shaped' /\ job' # NoJob
    BY <1>2, <1>3, <2>1, NoJobFields DEF Shaped, Stays, Kinds
  <2>4. job.wallet = ui.active
    BY <1>2 DEF CounterInv, JobOk
  <2>5. JobOk' /\ BusyOk' /\ ReloadsOk' /\ EmptyOk'
    BY <1>2, <1>3, <2>1, <2>2, <2>3, <2>4
       DEF CounterInv, JobOk, BusyOk, ReloadsOk, EmptyOk, Unsent, Sent, Proving, Stays
  <2>6. NetOk'
    BY <1>3, <2>2 DEF CounterInv, NetOk
  <2>7. MadeOk' /\ ScreenOk'
    BY <1>2, <1>3, <2>1 DEF CounterInv, MadeOk, ScreenOk, MadeFor, Stays
  <2>8. CalmOk'
    <3> SUFFICES ASSUME calm' PROVE (Orderly /\ AnswersTrue /\ KeysHeld)'
      BY DEF CalmOk
    <3>1. Orderly /\ AnswersTrue /\ KeysHeld /\ (Landed' <=> Landed)
      BY <1>2, <1>3, <2>1 DEF CounterInv, CalmOk, Landed, Stays
    <3>2. Orderly' /\ AnswersTrue'
      BY <1>2, <1>3, <2>3, <3>1 DEF Orderly, AnswersTrue
    <3>3. KeysHeld'
      BY <1>3, <2>1, <3>1 DEF KeysHeld, Stays
    <3> QED
      BY <3>2, <3>3
  <2> QED
    BY <2>3, <2>5, <2>6, <2>7, <2>8 DEF CounterInv
<1>4. CASE job.outcome = "bad" /\ Throws /\ UNCHANGED <<events, calm>>
  <2>1. ~net.mine /\ ~Landed
    BY <1>4 DEF CounterInv, NetOk, Landed
  <2> QED
    BY <1>1, <1>4, <2>1, ThrowKeeps
<1>5. CASE /\ Fails /\ Ends /\ net' = [net EXCEPT !.mine = FALSE]
           /\ UNCHANGED <<ledger, store, reloads, maker>>
  <2>1. job' = NoJob /\ ui' = [ui EXCEPT !.busy = FALSE] /\ Shape(net, TxFields)
    BY <1>2, <1>5 DEF Ends, Shaped
  <2>2. SamePage(ui, ui') /\ ~ui'.busy /\ Shape(ui', PageFields) /\ ui'.active = ui.active
    BY <1>2, <2>1 DEF Shape, PageFields, SamePage
  <2>3. Shape(net', TxFields) /\ ~net'.mine
    BY <1>5, <2>1 DEF Shape, TxFields
  <2>4. Shaped'
    BY <1>2, <1>5, <2>1, <2>2, <2>3, NoJobFields DEF Shaped
  <2> QED
    BY <1>2, <1>5, <2>1, <2>2, <2>3, <2>4, FailsEndsCalm, HandlerEnds
<1> QED
  BY <1>3, <1>4, <1>5 DEF Confirms

LEMMA SavesKeeps ==
  CounterInv /\ At("logs") /\ Saves /\ UNCHANGED <<ledger, net, maker, events, calm>>
    => CounterInv'
<1> SUFFICES ASSUME CounterInv, At("logs"), Saves,
                    UNCHANGED <<ledger, net, maker, events, calm>>
             PROVE  CounterInv'
  OBVIOUS
<1> DEFINE h == job.handle
           v == job.wallet
<1>1. /\ job # NoJob /\ job.pc = "logs" /\ job.kind \in Kinds /\ job.wallet = ui.active
      /\ ~net.mine /\ Shaped /\ Shape(ui, PageFields) /\ UNCHANGED overtaken
  BY HandlerFacts
<1>2. /\ store' = [store EXCEPT !.handle[v] = h]
      /\ ui' = [ui EXCEPT !.handle = h, !.busy = FALSE]
      /\ job' = NoJob /\ UNCHANGED reloads
  BY DEF Saves
<1>3. job.kind = "register" /\ Landed /\ MadeFor(h, v)
  BY <1>1 DEF Saves, CounterInv, JobOk, MadeOk, Landed
<1>4. /\ Shape(ui', PageFields) /\ ui'.active = ui.active /\ ui'.shown = ui.shown
      /\ ui'.of = ui.of /\ ui'.handle = h /\ ~ui'.busy
  <2> DEFINE k == h
  <2>1. ui' = [ui EXCEPT !.handle = k, !.busy = FALSE]
    BY <1>2
  <2> HIDE DEF k
  <2> SUFFICES /\ Shape(ui', PageFields) /\ ui'.active = ui.active /\ ui'.shown = ui.shown
               /\ ui'.of = ui.of /\ ui'.handle = k /\ ~ui'.busy
    BY DEF k
  <2> QED
    BY <1>1, <2>1 DEF Shape, PageFields
<1>5. /\ StoreShaped(store')
      /\ \A w \in Wallets : store'.handle[w] = IF w = v THEN h ELSE store.handle[w]
  <2>1. StoreShaped(store)
    BY <1>1 DEF Shaped
  <2> HIDE DEF h, v
  <2> QED
    BY <1>2, <2>1 DEF StoreShaped, Shape
<1>6. Shaped'
  BY <1>1, <1>2, <1>4, <1>5, NoJobFields DEF Shaped
<1>7. \A i \in DOMAIN reloads : reloads[i].by # "job"
  BY <1>1 DEF CounterInv, ReloadsOk
<1>8. JobOk' /\ BusyOk' /\ ReloadsOk' /\ NetOk' /\ EmptyOk'
  BY <1>1, <1>2, <1>4, <1>7 DEF CounterInv, JobOk, BusyOk, ReloadsOk, NetOk, EmptyOk
<1>9. MadeOk'
  BY <1>2, <1>3, <1>5, NoJobFields DEF CounterInv, MadeOk, MadeFor
<1>10. ScreenOk'
  BY <1>1, <1>2, <1>3, <1>4 DEF CounterInv, ScreenOk, MadeFor
<1>11. CalmOk'
  <2> SUFFICES ASSUME calm' PROVE (Orderly /\ AnswersTrue /\ KeysHeld)'
    BY DEF CalmOk
  <2>1. Orderly /\ AnswersTrue /\ KeysHeld /\ ~Landed'
    BY <1>2, NoJobFields DEF CounterInv, CalmOk, Landed
  <2>2. reloads = <<>>
    BY <1>1, <2>1 DEF Orderly
  <2>3. Orderly' /\ AnswersTrue'
    BY <1>1, <1>2, <2>1, <2>2 DEF Orderly, AnswersTrue
  <2>4. ASSUME NEW w \in Wallets, NEW c \in ledger.registry[w].keys \ {Foreign}
        PROVE  store'.handle[w] = c
    <3>1. CASE w = v
      BY <1>3, <1>5, <2>1, <2>4, <3>1 DEF KeysHeld
    <3>2. CASE w # v
      BY <1>5, <2>1, <2>4, <3>2 DEF KeysHeld
    <3> QED
      BY <3>1, <3>2
  <2>5. KeysHeld'
    BY <2>1, <2>4 DEF KeysHeld
  <2> QED
    BY <2>3, <2>5
<1> QED
  BY <1>6, <1>8, <1>9, <1>10, <1>11 DEF CounterInv

\* Appending the first reload.
LEMMA FirstReload ==
  ASSUME NEW r \in ReloadRecords, NEW q, q = Append(<<>>, r)
  PROVE  q = <<r>> /\ q \in Seq(ReloadRecords) /\ Len(q) = 1 /\ \A i \in DOMAIN q : q[i] = r
OBVIOUS

LEMMA ReloadsAfterKeeps ==
  CounterInv /\ At("logs") /\ ReloadsAfter /\ UNCHANGED <<ledger, net, maker, events, calm>>
    => CounterInv'
<1> SUFFICES ASSUME CounterInv, At("logs"), ReloadsAfter,
                    UNCHANGED <<ledger, net, maker, events, calm>>
             PROVE  CounterInv'
  OBVIOUS
<1> DEFINE r == Reload(job.wallet, "job", "read")
<1>1. /\ job # NoJob /\ job.pc = "logs" /\ job.kind \in Kinds /\ job.wallet = ui.active
      /\ ~net.mine /\ Shaped /\ Shape(job, JobFields) /\ UNCHANGED overtaken
  BY HandlerFacts
<1>2. /\ reloads' = Append(reloads, r) /\ job' = [job EXCEPT !.pc = "reload"]
      /\ job.kind # "register" /\ UNCHANGED <<store, ui>>
  BY DEF ReloadsAfter
<1>3. /\ job.wallet \in Wallets /\ reloads \in Seq(ReloadRecords)
      /\ \A i \in DOMAIN reloads : reloads[i].by # "job"
  BY <1>1 DEF CounterInv, ReloadsOk, Shaped
<1>4. /\ r \in ReloadRecords /\ r.wallet = job.wallet /\ r.by = "job" /\ r.step = "read"
  BY <1>3, ReloadTyped
<1> HIDE DEF r
<1>5. /\ reloads' \in Seq(ReloadRecords) /\ Len(reloads') = Len(reloads) + 1
      /\ \A i \in DOMAIN reloads' : /\ i = Len(reloads') => reloads'[i] = r
                                    /\ i # Len(reloads') => /\ i \in DOMAIN reloads
                                                            /\ reloads'[i] = reloads[i]
  BY <1>2, <1>3, <1>4
<1>6. Stays(job, job', "reload")
  BY <1>1, <1>2, JobEdited
<1>7. Shaped' /\ job' # NoJob
  BY <1>1, <1>2, <1>5, <1>6, NoJobFields DEF Shaped, Stays, Kinds
<1>8. JobOk' /\ BusyOk' /\ NetOk' /\ EmptyOk'
  BY <1>1, <1>2, <1>6, <1>7
     DEF CounterInv, JobOk, BusyOk, NetOk, EmptyOk, Unsent, Sent, Proving, Stays
<1>9. ReloadsOk'
  BY <1>3, <1>4, <1>5, <1>6 DEF ReloadsOk, Stays
<1>10. MadeOk'
  BY <1>2, <1>6 DEF CounterInv, MadeOk, MadeFor, Stays
<1>11. ScreenOk'
  BY <1>1, <1>2, <1>4, <1>5 DEF CounterInv, ScreenOk, MadeFor
<1>12. CalmOk'
  <2> SUFFICES ASSUME calm' PROVE (Orderly /\ AnswersTrue /\ KeysHeld)'
    BY DEF CalmOk
  <2>1. Orderly /\ KeysHeld /\ ~Landed /\ ~Landed'
    BY <1>2, <1>6 DEF CounterInv, CalmOk, Landed, Stays
  <2>2. reloads = <<>>
    BY <1>1, <2>1 DEF Orderly
  <2>3. Len(reloads') = 1 /\ \A i \in DOMAIN reloads' : reloads'[i] = r
    BY <1>2, <1>4, <2>2, FirstReload
  <2>4. Orderly' /\ AnswersTrue'
    BY <1>1, <1>4, <1>6, <2>1, <2>3 DEF Orderly, AnswersTrue, Stays
  <2>5. KeysHeld'
    BY <1>2, <2>1 DEF KeysHeld
  <2> QED
    BY <2>4, <2>5
<1> QED
  BY <1>7, <1>8, <1>9, <1>10, <1>11, <1>12 DEF CounterInv

LEMMA ReadsLogsKeeps == CounterInv /\ ReadsLogs => CounterInv'
<1> SUFFICES ASSUME CounterInv, ReadsLogs PROVE CounterInv'
  OBVIOUS
<1>1. At("logs")
  BY DEF ReadsLogs
<1>2. CASE Fails /\ Throws
  <2>1. ~net.mine
    BY <1>1, HandlerFacts
  <2> QED
    BY <1>1, <1>2, <2>1, FailsEndsCalm, ThrowKeeps
<1> QED
  BY <1>1, <1>2, SavesKeeps, ReloadsAfterKeeps DEF ReadsLogs

-----------------------------------------------------------------------------
(* Clicks.                                                                 *)

LEMMA ClickFacts ==
  ASSUME CounterInv, Clickable
  PROVE  /\ job = NoJob /\ ~net.mine /\ Shaped /\ Shape(ui, PageFields)
         /\ StoreShaped(store) /\ reloads \in Seq(ReloadRecords)
         /\ \A i \in DOMAIN reloads : reloads[i].by = "effect"
<1>1. job = NoJob /\ Shaped
  BY DEF CounterInv, BusyOk, Clickable
<1>2. ~net.mine /\ reloads \in Seq(ReloadRecords)
      /\ \A i \in DOMAIN reloads : reloads[i].by # "job"
  BY <1>1, NoJobFields DEF CounterInv, NetOk, ReloadsOk, Shaped
<1>3. \A i \in DOMAIN reloads : reloads[i].by \in {"effect", "job"}
  <2>1. \A i \in DOMAIN reloads : reloads[i] \in ReloadRecords
    BY <1>2
  <2> QED
    BY <2>1 DEF ReloadRecords
<1> QED
  BY <1>1, <1>2, <1>3 DEF Shaped

LEMMA StartKeeps ==
  ASSUME CounterInv, Clickable, ui.shown # "loading",
         NEW kind \in Kinds, NEW pc \in {"config", "nonce", "sign"}, Starts(kind, pc),
         kind = "register" => pc = "config", pc = "nonce" => kind = "increment"
  PROVE  CounterInv'
<1>1. /\ job = NoJob /\ ~net.mine /\ Shaped /\ Shape(ui, PageFields)
      /\ reloads \in Seq(ReloadRecords)
      /\ \A i \in DOMAIN reloads : reloads[i].by = "effect"
  BY ClickFacts
<1>2. UNCHANGED <<stack, ledger, net, store, reloads, maker, events, calm, overtaken>>
  BY DEF Starts
<1>3. /\ Shape(job', JobFields) /\ job'.kind = kind /\ job'.wallet = ui.active
      /\ job'.pc = pc /\ job'.outcome = "none"
  <2> DEFINE v == ui.active
             h == ui.handle
  <2>1. job' = [NoJob EXCEPT !.kind = kind, !.wallet = v, !.handle = h, !.pc = pc]
    BY DEF Starts
  <2> HIDE DEF v, h
  <2>2. Shape(job', JobFields) /\ job'.kind = kind /\ job'.wallet = v
        /\ job'.pc = pc /\ job'.outcome = "none"
    BY <2>1, NoJobFields DEF Shape, JobFields
  <2> QED
    BY <2>2 DEF v
<1>4. /\ Shape(ui', PageFields) /\ ui'.busy /\ ui'.active = ui.active
      /\ ui'.shown = ui.shown /\ ui'.of = ui.of /\ ui'.handle = ui.handle
  BY <1>1 DEF Starts, Shape, PageFields
<1>5. Shaped' /\ job' # NoJob
  BY <1>1, <1>2, <1>3, <1>4, NoJobFields DEF Shaped, Kinds, Wallets
<1>6. /\ pc \in Unsent /\ pc \notin Sent
      /\ pc \in Proving => kind = "increment"
  BY DEF Unsent, Sent, Proving
<1>7. JobOk' /\ BusyOk' /\ ReloadsOk' /\ EmptyOk'
  <2>1. JobOk'
    BY <1>3, <1>4, <1>6 DEF JobOk, Sent
  <2>2. BusyOk' /\ EmptyOk'
    BY <1>2, <1>4, <1>5 DEF CounterInv, BusyOk, EmptyOk
  <2>3. ReloadsOk'
    BY <1>1, <1>2 DEF ReloadsOk
  <2> QED
    BY <2>1, <2>2, <2>3
<1>8. NetOk' /\ MadeOk' /\ ScreenOk'
  BY <1>1, <1>2, <1>3, <1>4 DEF CounterInv, NetOk, MadeOk, ScreenOk, MadeFor
<1>9. CalmOk'
  <2> SUFFICES ASSUME calm' PROVE (Orderly /\ AnswersTrue /\ KeysHeld)'
    BY DEF CalmOk
  <2>1. Orderly /\ AnswersTrue /\ KeysHeld /\ ~Landed /\ ~Landed'
    BY <1>1, <1>2, <1>3, NoJobFields DEF CounterInv, CalmOk, Landed
  <2>2. reloads = <<>>
    BY <1>1, <2>1 DEF Orderly
  <2>3. Orderly' /\ AnswersTrue'
    BY <1>1, <1>2, <2>1, <2>2 DEF Orderly, AnswersTrue
  <2>4. KeysHeld'
    BY <1>2, <2>1 DEF KeysHeld
  <2> QED
    BY <2>3, <2>4
<1> QED
  BY <1>5, <1>7, <1>8, <1>9 DEF CounterInv

LEMMA ButtonsKeep == CounterInv /\ (InitCounter \/ Increment) => CounterInv'
<1> SUFFICES ASSUME CounterInv, InitCounter \/ Increment PROVE CounterInv'
  OBVIOUS
<1>1. CASE InitCounter
  <2>1. /\ Clickable /\ ui.shown # "loading" /\ Starts("init", "sign")
        /\ "init" \in Kinds /\ "init" # "register"
    BY <1>1 DEF InitCounter, Kinds
  <2> QED
    BY <2>1, StartKeeps
<1>2. CASE Increment
  <2>1. /\ Clickable /\ ui.shown # "loading"
        /\ Starts("register", "config") \/ Starts("increment", "nonce")
        /\ "register" \in Kinds /\ "increment" \in Kinds /\ "increment" # "register"
    BY <1>2 DEF Increment, Kinds
  <2>2. CASE Starts("register", "config")
    BY <2>1, <2>2, StartKeeps
  <2>3. CASE Starts("increment", "nonce")
    BY <2>1, <2>3, StartKeeps
  <2> QED
    BY <2>1, <2>2, <2>3
<1> QED
  BY <1>1, <1>2

\* Another wallet is entered: its reload is the only one, or the last.
LEMMA EnterKeeps ==
  ASSUME CounterInv, Clickable, NEW w \in Wallets, EntersWallet(w, ui), Leaves(w),
         StoreShaped(store'), store'.handle = store.handle,
         UNCHANGED <<ledger, net, job, maker>>
  PROVE  CounterInv'
<1> DEFINE r == Reload(w, "effect", "fund")
<1>1. /\ job = NoJob /\ ~net.mine /\ Shaped /\ Shape(ui, PageFields)
      /\ reloads \in Seq(ReloadRecords)
      /\ \A i \in DOMAIN reloads : reloads[i].by = "effect"
  BY ClickFacts
<1>2. /\ r \in ReloadRecords /\ r.wallet = w /\ r.by = "effect" /\ r.step = "fund"
  BY ReloadTyped
<1>3. reloads' = Append(reloads, r) /\ ui' = [ui EXCEPT !.active = w, !.shown = "loading"]
  BY DEF EntersWallet
<1> HIDE DEF r
<1>4. /\ reloads' \in Seq(ReloadRecords) /\ Len(reloads') = Len(reloads) + 1
      /\ \A i \in DOMAIN reloads' : /\ i = Len(reloads') => reloads'[i] = r
                                    /\ i # Len(reloads') => /\ i \in DOMAIN reloads
                                                            /\ reloads'[i] = reloads[i]
  BY <1>1, <1>2, <1>3
<1>5. /\ Shape(ui', PageFields) /\ ui'.active = w /\ ui'.shown = "loading"
      /\ ui'.busy = ui.busy
  BY <1>1, <1>3 DEF Shape, PageFields
<1>6. Shaped'
  BY <1>1, <1>4, <1>5 DEF Shaped
<1>7. \A i \in DOMAIN reloads' : reloads'[i].by = "effect"
  BY <1>1, <1>2, <1>4
<1>8. JobOk' /\ BusyOk' /\ ReloadsOk' /\ NetOk' /\ MadeOk' /\ EmptyOk'
  BY <1>1, <1>5, <1>7, NoJobFields
     DEF CounterInv, JobOk, BusyOk, ReloadsOk, NetOk, MadeOk, EmptyOk, MadeFor
<1>9. ScreenOk'
  <2> SUFFICES ASSUME ~overtaken' PROVE \A i \in DOMAIN reloads' : reloads'[i].wallet = w
    BY <1>5 DEF ScreenOk
  <2>1. \A i \in DOMAIN reloads : reloads[i].wallet = w
    BY <1>1 DEF Leaves, Waiting
  <2> QED
    BY <1>2, <1>4, <2>1
<1>10. CalmOk'
  <2> SUFFICES ASSUME calm' PROVE (Orderly /\ AnswersTrue /\ KeysHeld)'
    BY DEF CalmOk
  <2>1. Orderly /\ KeysHeld /\ ~Landed /\ ~Landed' /\ reloads = <<>>
    BY <1>1, NoJobFields DEF CounterInv, CalmOk, Landed, Leaves
  <2>2. Len(reloads') = 1 /\ \A i \in DOMAIN reloads' : reloads'[i] = r
    BY <1>2, <1>3, <2>1, FirstReload
  <2>3. Orderly' /\ AnswersTrue'
    BY <1>1, <1>2, <1>5, <2>1, <2>2 DEF Orderly, AnswersTrue
  <2>4. KeysHeld'
    BY <2>1 DEF KeysHeld
  <2> QED
    BY <2>3, <2>4
<1> QED
  BY <1>6, <1>8, <1>9, <1>10 DEF CounterInv

LEMMA WalletsKeep == CounterInv /\ (SwitchesWallet \/ AddsWallet) => CounterInv'
<1> SUFFICES ASSUME CounterInv, SwitchesWallet \/ AddsWallet PROVE CounterInv'
  OBVIOUS
<1>1. Clickable /\ UNCHANGED <<stack, ledger, net, job, maker, events>>
  BY DEF SwitchesWallet, AddsWallet
<1>2. StoreShaped(store)
  BY <1>1, ClickFacts
<1>3. CASE SwitchesWallet
  <2>1. PICK w \in 1..store.wallets :
          store' = [store EXCEPT !.active = w] /\ EntersWallet(w, ui) /\ Leaves(w)
    BY <1>3 DEF SwitchesWallet
  <2>2. w \in Wallets
    BY <1>2, CounterAssumption DEF StoreShaped, Wallets
  <2>3. StoreShaped(store') /\ store'.handle = store.handle
    BY <1>2, <2>1, <2>2 DEF StoreShaped, Shape
  <2> QED
    BY <1>1, <2>1, <2>2, <2>3, EnterKeeps
<1>4. CASE AddsWallet
  <2> DEFINE w == store.wallets + 1
  <2>1. /\ store' = [store EXCEPT !.wallets = w, !.active = w]
        /\ EntersWallet(w, ui) /\ Leaves(w)
    BY <1>4 DEF AddsWallet
  <2>2. w \in Wallets
    BY <1>2, <1>4, CounterAssumption DEF AddsWallet, StoreShaped, Wallets
  <2> HIDE DEF w
  <2>3. StoreShaped(store') /\ store'.handle = store.handle
    BY <1>2, <2>1, <2>2 DEF StoreShaped, Shape
  <2> QED
    BY <1>1, <2>1, <2>2, <2>3, EnterKeeps
<1> QED
  BY <1>3, <1>4

LEMMA OpensKeeps == CounterInv /\ Opens => CounterInv'
<1> SUFFICES ASSUME CounterInv, Opens PROVE CounterInv'
  OBVIOUS
<1> DEFINE a == store.active
           r == Reload(a, "effect", "fund")
<1>1. /\ ui' = [Closed EXCEPT !.open = TRUE, !.active = a]
      /\ reloads' = <<r>> /\ job' = NoJob /\ net' = [net EXCEPT !.mine = FALSE]
      /\ calm' = (calm /\ ~ui.busy)
      /\ UNCHANGED <<stack, ledger, store, maker, overtaken>>
  BY DEF Opens
<1>2. Shaped /\ a \in Wallets /\ Shape(net, TxFields)
  BY DEF CounterInv, Shaped, StoreShaped
<1>3. /\ r \in ReloadRecords /\ r.wallet = a /\ r.by = "effect" /\ r.step = "fund"
  BY <1>2, ReloadTyped
<1> HIDE DEF r, a
<1>4. /\ Shape(ui', PageFields) /\ ui'.active = a /\ ui'.shown = "loading" /\ ~ui'.busy
  BY <1>1 DEF Closed, Shape, PageFields
<1>5. /\ reloads' \in Seq(ReloadRecords) /\ Len(reloads') = 1
      /\ \A i \in DOMAIN reloads' : reloads'[i] = r
  BY <1>1, <1>3
<1>6. Shape(net', TxFields) /\ ~net'.mine /\ (net' = NoTx \/ net'.kind \in Kinds)
  <2>1. CASE net = NoTx
    BY <1>1, <2>1, NoTxFields
  <2>2. CASE net.kind \in Kinds
    BY <1>1, <1>2, <2>2 DEF Shape, TxFields
  <2> QED
    BY <2>1, <2>2 DEF CounterInv, NetOk
<1>7. Shaped'
  BY <1>1, <1>2, <1>4, <1>5, <1>6, NoJobFields DEF Shaped
<1>8. JobOk' /\ BusyOk' /\ ReloadsOk' /\ NetOk' /\ MadeOk' /\ ScreenOk' /\ EmptyOk'
  BY <1>1, <1>3, <1>4, <1>5, <1>6, NoJobFields
     DEF CounterInv, JobOk, BusyOk, ReloadsOk, NetOk, MadeOk, ScreenOk, EmptyOk, MadeFor
<1>9. CalmOk'
  <2> SUFFICES ASSUME calm' PROVE (Orderly /\ AnswersTrue /\ KeysHeld)'
    BY DEF CalmOk
  <2>1. job = NoJob /\ Orderly /\ KeysHeld
    BY <1>1 DEF CounterInv, CalmOk, BusyOk
  <2>2. ~net.mine /\ ~Landed /\ ~Landed'
    BY <1>1, <2>1, NoJobFields DEF CounterInv, NetOk, Landed
  <2>3. net' = NoTx
    BY <1>1, <2>1, <2>2, NoTxFields DEF Orderly
  <2>4. Orderly' /\ AnswersTrue'
    BY <1>1, <1>3, <1>4, <1>5, <2>3 DEF Orderly, AnswersTrue
  <2>5. KeysHeld'
    BY <1>1, <2>1, <2>2 DEF KeysHeld
  <2> QED
    BY <2>4, <2>5
<1> QED
  BY <1>7, <1>8, <1>9 DEF CounterInv

-----------------------------------------------------------------------------
(* Reloads.                                                                *)

\* What is known of a reload.
LEMMA ReloadFacts ==
  ASSUME CounterInv, NEW i \in DOMAIN reloads
  PROVE  /\ reloads \in Seq(ReloadRecords) /\ reloads[i] \in ReloadRecords
         /\ reloads[i].wallet \in Wallets /\ reloads[i].by \in {"effect", "job"}
         /\ Shaped /\ Shape(ui, PageFields) /\ StoreShaped(store)
<1>1. Shaped /\ reloads \in Seq(ReloadRecords) /\ Shape(ui, PageFields) /\ StoreShaped(store)
  BY DEF CounterInv, Shaped
<1>2. reloads[i] \in ReloadRecords
  BY <1>1
<1>3. reloads[i].wallet \in Wallets /\ reloads[i].by \in {"effect", "job"}
  BY <1>2 DEF ReloadRecords
<1> QED
  BY <1>1, <1>2, <1>3

\* A reload ends; with it ends the handler that waits for it.
LEMMA ReloadGone ==
  ASSUME CounterInv, NEW i \in DOMAIN reloads, reloads' = Without(i),
         reloads[i].by = "job" => job' = NoJob /\ ~ui'.busy,
         reloads[i].by # "job" => UNCHANGED job /\ ui'.busy = ui.busy,
         ui'.active = ui.active, UNCHANGED <<ledger, net, maker, overtaken>>
  PROVE  /\ reloads' \in Seq(ReloadRecords) /\ Len(reloads') = Len(reloads) - 1
         /\ \A j \in DOMAIN reloads' : \E k \in DOMAIN reloads :
              k # i /\ reloads'[j] = reloads[k]
         /\ \A j \in DOMAIN reloads' : reloads'[j].by = "job" => reloads[i].by # "job"
         /\ JobOk' /\ BusyOk' /\ ReloadsOk' /\ NetOk' /\ EmptyOk'
<1>1. reloads \in Seq(ReloadRecords) /\ i \in Nat
  BY ReloadFacts
<1> DEFINE q == SubSeq(reloads, 1, i - 1) \o SubSeq(reloads, i + 1, Len(reloads))
<1>2. /\ q \in Seq(ReloadRecords) /\ Len(q) = Len(reloads) - 1
      /\ \A j \in DOMAIN q : j \in DOMAIN reloads /\ j + 1 \in DOMAIN reloads
      /\ \A j \in DOMAIN q : q[j] = IF j < i THEN reloads[j] ELSE reloads[j + 1]
  BY <1>1, OneOut
<1>3. reloads' = q
  BY DEF Without
<1> HIDE DEF q
<1> DEFINE from(j) == IF j < i THEN j ELSE j + 1
<1>4. \A j \in DOMAIN q : /\ from(j) \in DOMAIN reloads /\ from(j) # i
                          /\ q[j] = reloads[from(j)]
  BY <1>1, <1>2
<1>5. \A j, k \in DOMAIN q : from(j) = from(k) => j = k
  BY <1>1, <1>2
<1> HIDE DEF from
<1>6. \A j \in DOMAIN q : q[j].by = "job" => reloads[i].by # "job"
  BY <1>4 DEF CounterInv, ReloadsOk
<1>7. ReloadsOk'
  <2>1. ASSUME NEW j \in DOMAIN q, q[j].by = "job"
        PROVE  job'.pc = "reload" /\ q[j].wallet = job'.wallet /\ q[j].step # "fund"
    BY <1>4, <1>6, <2>1 DEF CounterInv, ReloadsOk
  <2>2. ASSUME NEW j \in DOMAIN q, NEW k \in DOMAIN q, q[j].by = "job", q[k].by = "job"
        PROVE  j = k
    BY <1>4, <1>5, <2>2 DEF CounterInv, ReloadsOk
  <2> QED
    BY <1>3, <2>1, <2>2 DEF ReloadsOk
<1>8. JobOk' /\ BusyOk' /\ EmptyOk'
  BY DEF CounterInv, JobOk, BusyOk, EmptyOk
<1>9. NetOk'
  <2>1. net.mine => job.pc # "reload"
    BY DEF CounterInv, NetOk
  <2>2. CASE reloads[i].by = "job"
    BY <2>1, <2>2 DEF CounterInv, NetOk, ReloadsOk
  <2>3. CASE reloads[i].by # "job"
    BY <2>3 DEF CounterInv, NetOk
  <2> QED
    BY <2>2, <2>3
<1> QED
  BY <1>2, <1>3, <1>4, <1>6, <1>7, <1>8, <1>9

\* A reload that fails.
LEMMA FailedReload ==
  ASSUME CounterInv, NEW i \in DOMAIN reloads, reloads' = Without(i), Fails,
         IF reloads[i].by = "job" THEN Ends ELSE UNCHANGED <<ui, job>>,
         UNCHANGED <<ledger, net, store, maker, overtaken>>
  PROVE  CounterInv'
<1>1. Shaped /\ Shape(ui, PageFields)
  BY ReloadFacts
<1>2. /\ Shape(ui', PageFields) /\ SamePage(ui, ui')
      /\ reloads[i].by = "job" => job' = NoJob /\ ~ui'.busy
      /\ reloads[i].by # "job" => UNCHANGED job /\ ui'.busy = ui.busy
      /\ ui'.active = ui.active
  BY <1>1 DEF Ends, Shape, PageFields, SamePage
<1>3. /\ reloads' \in Seq(ReloadRecords)
      /\ \A j \in DOMAIN reloads' : \E k \in DOMAIN reloads : reloads'[j] = reloads[k]
      /\ JobOk' /\ BusyOk' /\ ReloadsOk' /\ NetOk' /\ EmptyOk'
  BY <1>2, ReloadGone
<1>4. job' = NoJob \/ job' = job
  BY <1>2
<1>5. Shaped'
  BY <1>1, <1>2, <1>3, <1>4, NoJobFields DEF Shaped
<1>6. MadeOk'
  BY <1>4, NoJobFields DEF CounterInv, MadeOk, MadeFor
<1>7. ScreenOk'
  BY <1>2, <1>3 DEF CounterInv, ScreenOk, SamePage, MadeFor
<1>8. CalmOk'
  BY FailsEndsCalm DEF CalmOk
<1> QED
  BY <1>3, <1>5, <1>6, <1>7, <1>8 DEF CounterInv

\* A reload that goes on.
LEMMA ReloadMoves ==
  ASSUME CounterInv, NEW i \in DOMAIN reloads, NEW r \in ReloadRecords,
         reloads' = [reloads EXCEPT ![i] = r],
         r.wallet = reloads[i].wallet, r.by = reloads[i].by, r.step # "fund",
         calm' => /\ calm
                  /\ r.step = "show" /\ r.registry # "found"
                       => ~ledger.registry[r.wallet].exists,
         UNCHANGED <<ledger, net, store, ui, job, maker, overtaken>>
  PROVE  CounterInv'
<1>1. Shaped /\ reloads \in Seq(ReloadRecords)
  BY ReloadFacts
<1>2. /\ reloads' \in Seq(ReloadRecords) /\ Len(reloads') = Len(reloads)
      /\ DOMAIN reloads' = DOMAIN reloads
      /\ \A j \in DOMAIN reloads : reloads'[j] = IF j = i THEN r ELSE reloads[j]
  BY <1>1
<1>3. \A j \in DOMAIN reloads : /\ reloads'[j].wallet = reloads[j].wallet
                                /\ reloads'[j].by = reloads[j].by
  BY <1>2
<1>4. Shaped'
  BY <1>1, <1>2 DEF Shaped
<1>5. ReloadsOk' /\ ScreenOk'
  BY <1>2, <1>3 DEF CounterInv, ReloadsOk, ScreenOk, MadeFor
<1>6. JobOk' /\ BusyOk' /\ NetOk' /\ MadeOk' /\ EmptyOk'
  BY DEF CounterInv, JobOk, BusyOk, NetOk, MadeOk, EmptyOk, MadeFor
<1>7. CalmOk'
  <2> SUFFICES ASSUME calm' PROVE (Orderly /\ AnswersTrue /\ KeysHeld)'
    BY DEF CalmOk
  <2>1. Orderly /\ AnswersTrue /\ KeysHeld /\ (Landed' <=> Landed)
    BY DEF CounterInv, CalmOk, Landed
  <2>2. Orderly'
    <3>1. reloads = <<>> => reloads' = <<>>
      BY <1>1, <1>2
    <3> QED
      BY <1>2, <1>3, <2>1, <3>1 DEF Orderly
  <2>3. AnswersTrue'
    BY <1>2, <2>1 DEF AnswersTrue
  <2>4. KeysHeld'
    BY <2>1 DEF KeysHeld
  <2> QED
    BY <2>2, <2>3, <2>4
<1> QED
  BY <1>4, <1>5, <1>6, <1>7 DEF CounterInv

LEMMA FundsKeeps == ASSUME NEW i \in DOMAIN reloads, CounterInv, Funds(i) PROVE CounterInv'
<1>1. UNCHANGED <<stack, ledger, net, store, ui, job, maker, overtaken>>
  BY DEF Funds
<1>2. CASE reloads' = [reloads EXCEPT ![i].step = "read"] /\ UNCHANGED <<events, calm>>
  <2> DEFINE o == reloads[i]
             r == [o EXCEPT !.step = "read"]
  <2>1. o \in ReloadRecords /\ reloads' = [reloads EXCEPT ![i] = r]
    BY <1>2, ReloadFacts
  <2> HIDE DEF o
  <2>2. r \in ReloadRecords /\ r.wallet = o.wallet /\ r.by = o.by /\ r.step = "read"
    BY <2>1 DEF ReloadRecords
  <2> HIDE DEF r
  <2>3. r.step # "show" /\ r.step # "fund" /\ o = reloads[i]
    BY <2>2 DEF o
  <2> QED
    BY <1>1, <1>2, <2>1, <2>2, <2>3, ReloadMoves
<1>3. CASE Fails /\ reloads' = Without(i)
  <2>1. reloads[i].by # "job"
    BY DEF Funds, CounterInv, ReloadsOk
  <2> QED
    BY <1>1, <1>3, <2>1, FailedReload
<1> QED
  BY <1>2, <1>3 DEF Funds
LEMMA FetchesKeeps == ASSUME NEW i \in DOMAIN reloads, CounterInv, Fetches(i) PROVE CounterInv'
<1> DEFINE o == reloads[i]
           c == FetchCounter(o.wallet)
           Reads(registry) ==
             reloads' = [reloads EXCEPT ![i].step = "show", ![i].registry = registry,
                                        ![i].counter = c]
<1>1. UNCHANGED <<stack, ledger, net, store, maker, overtaken>>
  BY DEF Fetches
<1>2. ASSUME NEW g \in {"null", "found"}, Reads(g), UNCHANGED <<ui, job>>,
             calm' => calm /\ (g # "found" => ~ledger.registry[o.wallet].exists)
      PROVE  CounterInv'
  <2> DEFINE r == [o EXCEPT !.step = "show", !.registry = g, !.counter = c]
  <2>1. o \in ReloadRecords /\ reloads' = [reloads EXCEPT ![i] = r] /\ o = reloads[i]
    BY <1>2, ReloadFacts
  <2>2. c \in {"null", "count"}
    BY DEF FetchCounter
  <2> HIDE DEF o, c
  <2>3. /\ r \in ReloadRecords /\ r.wallet = o.wallet /\ r.by = o.by /\ r.step = "show"
        /\ r.registry = g
    BY <2>1, <2>2 DEF ReloadRecords
  <2> HIDE DEF r
  <2>4. r.step # "fund" /\ r.wallet = reloads[i].wallet /\ r.by = reloads[i].by
    BY <2>1, <2>3
  <2>5. calm' => calm /\ (r.step = "show" /\ r.registry # "found"
                            => ~ledger.registry[r.wallet].exists)
    BY <1>2, <2>3
  <2> QED
    BY <1>1, <1>2, <2>1, <2>3, <2>4, <2>5, ReloadMoves
<1>3. CASE Reads(FetchRegistry(o.wallet)) /\ UNCHANGED <<events, calm, ui, job>>
  <2> DEFINE g == FetchRegistry(o.wallet)
  <2>1. g \in {"null", "found"} /\ (g # "found" => ~ledger.registry[o.wallet].exists)
    BY DEF FetchRegistry
  <2>2. Reads(g) /\ UNCHANGED <<ui, job>> /\ calm' = calm
    BY <1>3
  <2> HIDE DEF g, c, o
  <2> QED
    BY <1>2, <2>1, <2>2
<1>4. CASE Fails /\ Reads("null") /\ UNCHANGED <<ui, job>>
  BY <1>2, <1>4, FailsEndsCalm
<1>5. CASE /\ Fails /\ reloads' = Without(i)
           /\ IF o.by = "job" THEN Ends ELSE UNCHANGED <<ui, job>>
  BY <1>1, <1>5, FailedReload
<1> QED
  BY <1>3, <1>4, <1>5 DEF Fetches

LEMMA ShowsKeeps == ASSUME NEW i \in DOMAIN reloads, CounterInv, Shows(i) PROVE CounterInv'
<1> DEFINE o == reloads[i]
           w == o.wallet
           shown == o.counter
           known == o.registry = "found"
           h == IF known THEN store.handle[w] ELSE None
           page == [ui EXCEPT !.shown = shown, !.of = w, !.handle = h]
<1>1. /\ UNCHANGED <<stack, ledger, net, maker, events, calm, overtaken>>
      /\ o.step = "show" /\ reloads' = Without(i)
      /\ store' = IF known THEN store ELSE [store EXCEPT !.handle[w] = None]
  BY DEF Shows
<1>2. /\ o.by = "job" => job' = NoJob /\ ui' = [page EXCEPT !.busy = FALSE]
      /\ o.by # "job" => UNCHANGED job /\ ui' = page
  BY DEF Shows
<1>3. /\ reloads \in Seq(ReloadRecords) /\ w \in Wallets
      /\ Shaped /\ Shape(ui, PageFields) /\ StoreShaped(store)
  BY ReloadFacts
<1>4. /\ MadeFor(h, w)
      /\ StoreShaped(store')
      /\ \A v \in Wallets : store'.handle[v] = store.handle[v]
                              \/ (v = w /\ ~known /\ store'.handle[v] = None)
  <2>1. CASE known
    BY <1>1, <1>3, <2>1 DEF CounterInv, MadeOk
  <2>2. CASE ~known
    <3>1. h = None /\ store' = [store EXCEPT !.handle[w] = None]
      BY <1>1, <2>2
    <3>2. w \in Wallets /\ StoreShaped(store)
      BY <1>3
    <3> HIDE DEF h, w, known
    <3>3. StoreShaped(store') /\ \A v \in Wallets :
            store'.handle[v] = IF v = w THEN None ELSE store.handle[v]
      BY <3>1, <3>2 DEF StoreShaped, Shape
    <3> QED
      BY <2>2, <3>1, <3>3 DEF MadeFor
  <2> QED
    BY <2>1, <2>2
<1> HIDE DEF h, known, shown, w
<1>5. /\ Shape(ui', PageFields) /\ ui'.active = ui.active /\ ui'.of = w /\ ui'.handle = h
      /\ o.by = "job" => ~ui'.busy
      /\ o.by # "job" => ui'.busy = ui.busy
  <2>1. CASE o.by = "job"
    <3>1. ui' = [page EXCEPT !.busy = FALSE]
      BY <1>2, <2>1
    <3> QED
      BY <1>3, <2>1, <3>1 DEF Shape, PageFields
  <2>2. CASE o.by # "job"
    <3>1. ui' = page
      BY <1>2, <2>2
    <3> QED
      BY <1>3, <2>2, <3>1 DEF Shape, PageFields
  <2> QED
    BY <2>1, <2>2
<1> HIDE DEF page
<1>6. /\ reloads' \in Seq(ReloadRecords) /\ Len(reloads') = Len(reloads) - 1
      /\ \A j \in DOMAIN reloads' : \E k \in DOMAIN reloads : reloads'[j] = reloads[k]
      /\ JobOk' /\ BusyOk' /\ ReloadsOk' /\ NetOk' /\ EmptyOk'
  BY <1>1, <1>2, <1>5, ReloadGone
<1>7. job' = NoJob \/ job' = job
  BY <1>2
<1>8. Shaped'
  BY <1>1, <1>3, <1>4, <1>5, <1>6, <1>7, NoJobFields DEF Shaped
<1>9. MadeOk'
  BY <1>1, <1>4, <1>7, NoJobFields DEF CounterInv, MadeOk, MadeFor
<1>10. ScreenOk'
  <2> SUFFICES ASSUME ~overtaken'
               PROVE  /\ \A j \in DOMAIN reloads' : reloads'[j].wallet = ui'.active
                      /\ ui'.of = ui'.active /\ MadeFor(ui.handle, ui.active)'
    BY DEF ScreenOk
  <2>1. \A k \in DOMAIN reloads : reloads[k].wallet = ui.active
    BY <1>1 DEF CounterInv, ScreenOk
  <2>2. w = ui.active
    BY <2>1 DEF w
  <2>3. MadeFor(ui.handle, ui.active)'
    BY <1>1, <1>4, <1>5, <2>2 DEF MadeFor
  <2> QED
    BY <1>5, <1>6, <2>1, <2>2, <2>3
<1>11. CalmOk'
  <2> SUFFICES ASSUME calm' PROVE (Orderly /\ AnswersTrue /\ KeysHeld)'
    BY DEF CalmOk
  <2>1. Orderly /\ AnswersTrue /\ KeysHeld
    BY <1>1 DEF CounterInv, CalmOk
  <2>2. reloads' = <<>> /\ reloads # <<>>
    BY <1>3, <1>6, <2>1 DEF Orderly
  <2>3. job = NoJob \/ job.pc = "reload"
    BY <2>1, <2>2 DEF Orderly
  <2>4. ~Landed /\ ~Landed' /\ ~net.mine
    BY <1>7, <2>3, NoJobFields DEF Landed, CounterInv, NetOk
  <2>5. Orderly' /\ AnswersTrue'
    BY <1>1, <2>1, <2>2, <2>4 DEF Orderly, AnswersTrue
  <2>6. ~known => ledger.registry[w].keys = {}
    <3>1. ~known => ~ledger.registry[w].exists
      BY <1>1, <2>1 DEF AnswersTrue, known, w
    <3> QED
      BY <1>3, <3>1 DEF CounterInv, EmptyOk
  <2>7. KeysHeld'
    BY <1>1, <1>4, <2>1, <2>4, <2>6 DEF KeysHeld
  <2> QED
    BY <2>5, <2>7
<1> QED
  BY <1>6, <1>8, <1>9, <1>10, <1>11 DEF CounterInv

-----------------------------------------------------------------------------
(* The cluster, run.mjs and other clients.                                 *)

\* The handler hears of its transaction.
Heard(result) == job' = IF net.mine THEN [job EXCEPT !.outcome = result] ELSE job

LEMMA HeardKeeps ==
  ASSUME CounterInv, NEW result \in {"ok", "bad"}, Heard(result)
  PROVE  /\ Shape(job', JobFields) /\ job'.kind = job.kind /\ job'.wallet = job.wallet
         /\ job'.handle = job.handle /\ job'.pc = job.pc
         /\ job'.outcome = IF net.mine THEN result ELSE job.outcome
         /\ job' = NoJob <=> job = NoJob
<1>1. Shape(job, JobFields) /\ (job = NoJob => ~net.mine)
  BY NoJobFields DEF CounterInv, Shaped, NetOk
<1>2. CASE net.mine
  <2>1. job' = [job EXCEPT !.outcome = result]
    BY <1>2 DEF Heard
  <2>2. /\ Shape(job', JobFields) /\ job'.kind = job.kind /\ job'.wallet = job.wallet
        /\ job'.handle = job.handle /\ job'.pc = job.pc /\ job'.outcome = result
    BY <1>1, <2>1 DEF Shape, JobFields
  <2>3. job # NoJob /\ job' # NoJob
    BY <1>1, <1>2, <2>2, NoJobFields DEF CounterInv, NetOk
  <2> QED
    BY <1>2, <2>2, <2>3
<1>3. CASE ~net.mine
  BY <1>1, <1>3 DEF Heard
<1> QED
  BY <1>2, <1>3

\* What another party does to the ledger, the page untouched.
LEMMA OutsideKeeps ==
  ASSUME CounterInv, NEW result \in {"ok", "bad"},
         (net' = net /\ job' = job) \/ (net' = NoTx /\ Heard(result)),
         LedgerShaped(ledger'), EmptyOk', calm => AnswersTrue' /\ KeysHeld',
         UNCHANGED <<store, ui, reloads, maker, calm, overtaken>>
  PROVE  CounterInv'
<1>1. /\ Shape(job', JobFields) /\ job'.kind = job.kind /\ job'.wallet = job.wallet
      /\ job'.handle = job.handle /\ job'.pc = job.pc
      /\ job' = NoJob <=> job = NoJob
      /\ job'.outcome = job.outcome \/ (net.mine /\ net' = NoTx)
  <2>1. CASE net' = net /\ job' = job
    BY <2>1 DEF CounterInv, Shaped
  <2>2. CASE net' = NoTx /\ Heard(result)
    BY <2>2, HeardKeeps
  <2> QED
    BY <2>1, <2>2
<1>2. net.mine => job.pc = "confirm"
  BY DEF CounterInv, NetOk
<1>3. /\ Shape(net', TxFields)
      /\ net' = NoTx \/ (net' = net /\ job' = job)
  BY NoTxFields DEF CounterInv, Shaped
<1>4. Shaped'
  BY <1>1, <1>3 DEF CounterInv, Shaped
<1>5. JobOk'
  BY <1>1, <1>2 DEF CounterInv, JobOk, Unsent
<1>6. BusyOk' /\ ReloadsOk' /\ ScreenOk'
  BY <1>1 DEF CounterInv, BusyOk, ReloadsOk, ScreenOk, MadeFor
<1>7. NetOk'
  BY <1>3, NoTxFields DEF CounterInv, NetOk
<1>8. MadeOk'
  BY <1>1 DEF CounterInv, MadeOk, MadeFor
<1>9. CalmOk'
  <2> SUFFICES ASSUME calm' PROVE (Orderly /\ AnswersTrue /\ KeysHeld)'
    BY DEF CalmOk
  <2>1. Orderly /\ AnswersTrue' /\ KeysHeld'
    BY DEF CounterInv, CalmOk
  <2>2. Orderly'
    BY <1>1, <1>3, <2>1 DEF Orderly
  <2> QED
    BY <2>1, <2>2
<1> QED
  BY <1>4, <1>5, <1>6, <1>7, <1>8, <1>9 DEF CounterInv

LEMMA LauncherKeeps == CounterInv /\ Launcher => CounterInv'
<1> SUFFICES ASSUME CounterInv, Launcher PROVE CounterInv'
  OBVIOUS
<1>1. CASE StartsValidator
  <2>1. /\ ledger' = Genesis /\ net' = NoTx /\ Heard("bad")
        /\ UNCHANGED <<store, ui, reloads, maker, calm, overtaken>>
    BY <1>1 DEF StartsValidator, Heard
  <2>2. /\ LedgerShaped(ledger')
        /\ \A w \in Wallets : ~ledger'.registry[w].exists /\ ledger'.registry[w].keys = {}
    BY <2>1 DEF LedgerShaped, Genesis, NoRegistry, Shape, RegFields
  <2>3. EmptyOk' /\ KeysHeld'
    BY <2>2 DEF EmptyOk, KeysHeld
  <2>4. AnswersTrue'
    <3>1. \A i \in DOMAIN reloads : reloads[i].wallet \in Wallets
      BY ReloadFacts
    <3> QED
      BY <2>1, <2>2, <3>1 DEF AnswersTrue
  <2> QED
    BY <2>1, <2>2, <2>3, <2>4, OutsideKeeps
<1>2. CASE InitsTranaConfig
  <2>1. /\ ledger' = [ledger EXCEPT !.config = TRUE]
        /\ UNCHANGED <<net, store, ui, reloads, job, maker, calm, overtaken>>
    BY <1>2 DEF InitsTranaConfig
  <2>2. LedgerShaped(ledger') /\ ledger'.registry = ledger.registry
    BY <2>1 DEF CounterInv, Shaped, LedgerShaped, Shape
  <2>3. EmptyOk' /\ (calm => AnswersTrue' /\ KeysHeld')
    BY <2>1, <2>2 DEF CounterInv, EmptyOk, CalmOk, AnswersTrue, KeysHeld, Landed
  <2> QED
    BY <2>1, <2>2, <2>3, OutsideKeeps
<1>3. CASE Stops
  <2>1. UNCHANGED <<ledger, net, store, ui, reloads, job, maker, calm, overtaken>>
    BY <1>3 DEF Stops
  <2>2. LedgerShaped(ledger')
    BY <2>1 DEF CounterInv, Shaped
  <2>3. EmptyOk' /\ (calm => AnswersTrue' /\ KeysHeld')
    BY <2>1 DEF CounterInv, EmptyOk, CalmOk, AnswersTrue, KeysHeld, Landed
  <2> QED
    BY <2>1, <2>2, <2>3, OutsideKeeps
<1> QED
  BY <1>1, <1>2, <1>3 DEF Launcher

\* A transaction changes the registry of its wallet at most, and only a registration
\* changes who is in it.
LEMMA AfterRegistry ==
  ASSUME LedgerShaped(ledger), NEW tx, tx.kind \in Kinds
  PROVE  /\ LedgerShaped(After(tx))
         /\ \A w \in Wallets :
              IF tx.kind = "register" /\ w = tx.wallet
              THEN After(tx).registry[w].exists /\ After(tx).registry[w].keys = {tx.handle}
              ELSE /\ After(tx).registry[w].exists = ledger.registry[w].exists
                   /\ After(tx).registry[w].keys = ledger.registry[w].keys
<1> DEFINE l == After(tx)
           v == tx.wallet
           h == tx.handle
<1>1. CASE tx.kind = "init"
  <2>1. l = [ledger EXCEPT !.counter[v].exists = TRUE]
    BY <1>1 DEF After
  <2> HIDE DEF l, v
  <2>2. LedgerShaped(l) /\ l.registry = ledger.registry
    BY <2>1 DEF LedgerShaped, Shape
  <2> QED
    BY <1>1, <2>2 DEF l
<1>2. CASE tx.kind = "register"
  <2> DEFINE reg == [exists |-> TRUE, keys |-> {h}, nonce |-> ledger.registry[v].nonce]
  <2>1. l = [ledger EXCEPT !.registry[v] = reg]
    BY <1>2 DEF After
  <2>2. Shape(reg, RegFields) /\ reg.exists /\ reg.keys = {h}
    BY DEF Shape, RegFields
  <2> HIDE DEF l, v, h, reg
  <2>3. /\ LedgerShaped(l)
        /\ \A w \in Wallets : l.registry[w] = IF w = v THEN reg ELSE ledger.registry[w]
    BY <2>1, <2>2 DEF LedgerShaped, Shape
  <2> QED
    BY <1>2, <2>2, <2>3 DEF l, v, h
<1>3. CASE tx.kind = "increment"
  <2>1. l = [ledger EXCEPT !.counter[v].count = @ + 1, !.registry[v].nonce = @ + 1]
    BY <1>3 DEF After
  <2> HIDE DEF l, v
  <2> DEFINE n == ledger.registry[v].nonce + 1
             reg == [ledger.registry[v] EXCEPT !.nonce = n]
  <2>2. /\ Shape(l, {"config", "registry", "counter"})
        /\ l.registry = [ledger.registry EXCEPT ![v] = reg]
    BY <2>1 DEF LedgerShaped, Shape
  <2> HIDE DEF n
  <2>3. v \in Wallets => /\ Shape(reg, RegFields)
                         /\ reg.exists = ledger.registry[v].exists
                         /\ reg.keys = ledger.registry[v].keys
    BY DEF LedgerShaped, Shape, RegFields
  <2> HIDE DEF reg
  <2>4. /\ Shape(l.registry, Wallets)
        /\ \A w \in Wallets : l.registry[w] = IF w = v THEN reg ELSE ledger.registry[w]
    BY <2>2 DEF LedgerShaped, Shape
  <2>5. LedgerShaped(l)
    BY <2>2, <2>3, <2>4 DEF LedgerShaped
  <2> QED
    BY <1>3, <2>3, <2>4, <2>5 DEF l
<1> QED
  BY <1>1, <1>2, <1>3 DEF Kinds

LEMMA LandsKeeps == CounterInv /\ Lands => CounterInv'
<1> SUFFICES ASSUME CounterInv, Lands PROVE CounterInv'
  OBVIOUS
<1>1. /\ net # NoTx /\ net.kind \in Kinds
      /\ Shaped /\ LedgerShaped(ledger)
      /\ net' = NoTx /\ UNCHANGED <<store, ui, reloads, maker, calm, overtaken>>
  BY DEF Lands, Settles, CounterInv, NetOk, Shaped
\* While nothing fails the transaction is the handler's and no reload waits.
<1>2. calm => /\ net.mine /\ reloads = <<>> /\ KeysHeld /\ ~Landed
              /\ net.kind = job.kind /\ net.wallet = job.wallet /\ net.handle = job.handle
              /\ job.pc = "confirm"
  BY <1>1, NoJobFields DEF CounterInv, CalmOk, Orderly, NetOk, Landed
<1>3. calm => AnswersTrue'
  BY <1>1, <1>2 DEF AnswersTrue
<1>4. CASE ledger' = After(net) /\ Settles("ok")
  <2>1. Heard("ok")
    BY <1>4 DEF Settles, Heard
  <2>2. /\ LedgerShaped(ledger')
        /\ \A w \in Wallets :
             IF net.kind = "register" /\ w = net.wallet
             THEN ledger'.registry[w].exists /\ ledger'.registry[w].keys = {net.handle}
             ELSE /\ ledger'.registry[w].exists = ledger.registry[w].exists
                  /\ ledger'.registry[w].keys = ledger.registry[w].keys
    BY <1>1, <1>4, AfterRegistry
  <2>3. EmptyOk'
    BY <2>2 DEF CounterInv, EmptyOk
  <2>4. calm => KeysHeld'
    <3> SUFFICES ASSUME calm PROVE KeysHeld'
      OBVIOUS
    <3>1. /\ job'.kind = job.kind /\ job'.wallet = job.wallet /\ job'.handle = job.handle
          /\ job'.pc = "confirm" /\ job'.outcome = "ok"
      BY <1>2, <2>1, HeardKeeps
    <3>2. Landed' <=> net.kind = "register"
      BY <1>2, <3>1 DEF Landed
    <3> QED
      BY <1>1, <1>2, <2>2, <3>1, <3>2 DEF KeysHeld
  <2> QED
    BY <1>1, <1>3, <2>1, <2>2, <2>3, <2>4, OutsideKeeps
<1>5. CASE UNCHANGED ledger /\ Settles("bad")
  <2>1. Heard("bad")
    BY <1>5 DEF Settles, Heard
  <2>2. EmptyOk'
    BY <1>5 DEF CounterInv, EmptyOk
  <2>3. calm => KeysHeld'
    <3>1. calm => job'.outcome = "bad"
      BY <1>2, <2>1, HeardKeeps
    <3> QED
      BY <1>1, <1>2, <1>5, <3>1 DEF KeysHeld, Landed
  <2> QED
    BY <1>1, <1>3, <1>5, <2>1, <2>2, <2>3, OutsideKeeps
<1> QED
  BY <1>4, <1>5 DEF Lands

LEMMA ExpiresKeeps == CounterInv /\ Expires => CounterInv'
<1> SUFFICES ASSUME CounterInv, Expires PROVE CounterInv'
  OBVIOUS
<1>1. /\ net # NoTx /\ Shaped /\ LedgerShaped(ledger) /\ Heard("bad")
      /\ net' = NoTx /\ UNCHANGED <<ledger, store, ui, reloads, maker, calm, overtaken>>
  BY DEF Expires, Settles, CounterInv, Shaped, Heard
<1>2. calm => net.mine /\ KeysHeld /\ AnswersTrue /\ ~Landed
  BY <1>1, NoJobFields DEF CounterInv, CalmOk, Orderly, NetOk, Landed
<1>3. calm => job'.outcome = "bad"
  BY <1>1, <1>2, HeardKeeps
<1>4. EmptyOk' /\ (calm => AnswersTrue' /\ KeysHeld')
  BY <1>1, <1>2, <1>3 DEF CounterInv, EmptyOk, AnswersTrue, KeysHeld, Landed
<1> QED
  BY <1>1, <1>4, OutsideKeeps

LEMMA ElsewhereKeeps == CounterInv /\ ChangesElsewhere => CounterInv'
<1> SUFFICES ASSUME CounterInv, ChangesElsewhere PROVE CounterInv'
  OBVIOUS
<1>1. UNCHANGED <<stack, net, store, ui, reloads, job, maker, calm, overtaken>>
  BY DEF ChangesElsewhere
<1>2. PICK v \in Wallets :
        /\ ledger.registry[v].exists
        /\ \E reg \in {[ledger.registry[v] EXCEPT !.nonce = @ + 1],
                       [exists |-> TRUE, keys |-> {Foreign}, nonce |-> 0]} :
             ledger' = [ledger EXCEPT !.registry[v] = reg]
  BY DEF ChangesElsewhere
<1>3. PICK reg \in {[ledger.registry[v] EXCEPT !.nonce = @ + 1],
                    [exists |-> TRUE, keys |-> {Foreign}, nonce |-> 0]} :
        ledger' = [ledger EXCEPT !.registry[v] = reg]
  BY <1>2
<1>4. LedgerShaped(ledger)
  BY DEF CounterInv, Shaped
<1>5. /\ Shape(reg, RegFields) /\ reg.exists
      /\ reg.keys = ledger.registry[v].keys \/ reg.keys = {Foreign}
  <2>1. CASE reg = [ledger.registry[v] EXCEPT !.nonce = @ + 1]
    <3> DEFINE o == ledger.registry[v]
               n == o.nonce + 1
    <3>1. Shape(o, RegFields) /\ o.exists /\ reg = [o EXCEPT !.nonce = n]
      BY <1>2, <1>4, <2>1 DEF LedgerShaped
    <3> HIDE DEF n, o
    <3>2. Shape(reg, RegFields) /\ reg.exists /\ reg.keys = o.keys
      BY <3>1 DEF Shape, RegFields
    <3> QED
      BY <3>2 DEF o
  <2>2. CASE reg = [exists |-> TRUE, keys |-> {Foreign}, nonce |-> 0]
    BY <2>2 DEF Shape, RegFields
  <2> QED
    BY <1>3, <2>1, <2>2
<1>6. /\ LedgerShaped(ledger')
      /\ \A w \in Wallets : ledger'.registry[w] = IF w = v THEN reg ELSE ledger.registry[w]
  BY <1>3, <1>4, <1>5 DEF LedgerShaped, Shape
<1>7. EmptyOk'
  BY <1>5, <1>6 DEF CounterInv, EmptyOk
<1>8. ASSUME calm PROVE AnswersTrue' /\ KeysHeld'
  <2>1. AnswersTrue /\ KeysHeld /\ (Landed' <=> Landed)
    BY <1>1, <1>8 DEF CounterInv, CalmOk, Landed
  <2>2. \A i \in DOMAIN reloads : reloads[i].wallet \in Wallets
    BY ReloadFacts
  <2>3. AnswersTrue'
    BY <1>1, <1>2, <1>6, <2>1, <2>2 DEF AnswersTrue
  <2>4. KeysHeld'
    BY <1>1, <1>5, <1>6, <2>1 DEF KeysHeld
  <2> QED
    BY <2>3, <2>4
<1> QED
  BY <1>1, <1>6, <1>7, <1>8, OutsideKeeps

-----------------------------------------------------------------------------

LEMMA CounterStep == CounterInv /\ [CounterNext]_counterVars => CounterInv'
<1> SUFFICES ASSUME CounterInv, [CounterNext]_counterVars PROVE CounterInv'
  OBVIOUS
<1>1. CASE Launcher
  BY <1>1, LauncherKeeps
<1>2. CASE Opens
  BY <1>2, OpensKeeps
<1>3. CASE SwitchesWallet \/ AddsWallet
  BY <1>3, WalletsKeep
<1>4. CASE InitCounter \/ Increment
  BY <1>4, ButtonsKeep
<1>5. CASE \E i \in DOMAIN reloads : ReloadStep(i)
  BY <1>5, FundsKeeps, FetchesKeeps, ShowsKeeps DEF ReloadStep
<1>6. CASE JobStep
  BY <1>6, FetchesConfigKeeps, CreatesKeeps, FetchesNonceKeeps, FetchesKeysKeeps,
     TouchesKeeps, SendsKeeps, ConfirmsKeeps, ReadsLogsKeeps DEF JobStep
<1>7. CASE Lands \/ Expires \/ ChangesElsewhere
  BY <1>7, LandsKeeps, ExpiresKeeps, ElsewhereKeeps
<1>8. CASE UNCHANGED counterVars
  BY <1>8 DEF counterVars, CounterInv, Shaped, JobOk, BusyOk, ReloadsOk, NetOk, MadeOk,
              ScreenOk, EmptyOk, CalmOk, Orderly, AnswersTrue, KeysHeld, Landed, MadeFor
<1> QED
  BY <1>1, <1>2, <1>3, <1>4, <1>5, <1>6, <1>7, <1>8 DEF CounterNext

\* A handler has its wallet on the screen and is the reason for busy, waits for one
\* transaction and one reload, both its own, and every handle belongs to its wallet;
\* as long as no request fails, nothing is overtaken and no page dropped, the page does
\* one thing at a time and every key's handle is in localStorage or about to be.
THEOREM CounterInvariance == CounterSpec => []CounterInv
BY InitHolds, CounterStep, PTL DEF CounterSpec

\* HandleKept: a key the page registered is one it can still prove with (App.tsx's
\* reload, increment and registerPasskey, each of which writes the handle).
THEOREM HandlesAreKept == CounterSpec => []HandleKept
<1>1. CounterInv => HandleKept
  <2> SUFFICES ASSUME CounterInv, calm, job = NoJob,
                      NEW w \in Wallets, NEW c \in ledger.registry[w].keys \ {Foreign}
               PROVE  store.handle[w] = c
    BY DEF HandleKept
  <2> QED
    BY NoJobFields DEF CounterInv, CalmOk, KeysHeld, Landed
<1> QED
  BY <1>1, CounterInvariance, PTL

\* ScreenFollowsWallet: counter, handle and handler are those of the wallet shown, as
\* long as no reload was overtaken by another wallet's.
THEOREM ScreenShowsTheWallet == CounterSpec => []ScreenFollowsWallet
<1>1. CounterInv => ScreenFollowsWallet
  BY DEF CounterInv, ScreenOk, JobOk, MadeFor, ScreenFollowsWallet
<1> QED
  BY <1>1, CounterInvariance, PTL
=============================================================================
