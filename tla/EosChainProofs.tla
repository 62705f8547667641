--------------------------- MODULE EosChainProofs ---------------------------
(***************************************************************************)
(* Proofs of EosChain, for any accounts, depth, amounts and events.        *)
(*                                                                         *)
(* In the middle of a transaction nothing adds up: a deposit is in the     *)
(* lockbox and its wrapped form is not minted, or burned and not yet       *)
(* announced.  The invariant says that what is missing is owed by the      *)
(* frames of the stack.  A gauge reads a number from the tables (Level),   *)
(* and every action that waits, every notification that is still to come   *)
(* and every inline action that was sent changes it by an amount that is   *)
(* known beforehand (Weight, Share).  Whatever the order, level and debts  *)
(* add up to what the level was between transactions.                      *)
(*                                                                         *)
(* There are two kinds of gauges.  A count adds up whatever users'         *)
(* contracts do in between: the collateral against what it backs, the      *)
(* numbers given, a user's data.  A meter reads what one wallet, all       *)
(* wallets, the events or the settlements come to, and adds up while no    *)
(* contract of a user answers a notification: then the first action of a   *)
(* transaction says all that it changes, and the transaction is a step of  *)
(* the ledger of EosLedger.                                                *)
(***************************************************************************)
EXTENDS EosChain, SumProofs

-----------------------------------------------------------------------------
\* What the tables and the frames hold.

Data == Payloads \cup {NoData}

\* What swap is given to print.
Announced ==
    [nonce: Int, token: {A!TokenWord(Registry.token)}, chain: {m.chain : m \in SwapMemo},
     amount: Int, sender: Account, recipient: {m.recipient : m \in SwapMemo}, data: Data]

AnyMemo == Memos \cup SwapMemo \cup Account \cup {NoMemo}

Moves(code, name, from, symbol) ==
    [code: {code}, name: {name}, from: from, to: Account, symbol: {symbol},
     amount: Int, memo: AnyMemo]

TokenTransfers == Moves(tokenAccount, "transfer", Account, TokenSymbol)
XTokenTransfers == Moves(xtokenAccount, "transfer", Account, XSymbol)
Mints == Moves(xtokenAccount, "mint", {adapter, lockbox}, XSymbol)
Burns == Moves(xtokenAccount, "burn", {adapter, lockbox}, XSymbol)
Imitations == Moves(other, "transfer", Account, TokenSymbol) \cup
              Moves(other, "transfer", Account, XSymbol)
Swaps ==
    [code: {adapter}, name: {"swap"}, from: {adapter}, to: {adapter}, symbol: {XSymbol},
     amount: {0}, memo: Announced]

Sendable == TokenTransfers \cup XTokenTransfers \cup Mints \cup Burns \cup Imitations \cup Swaps

Settles ==
    [code: {adapter}, name: {"settle"}, from: {relayer}, operation: Operations,
     metadata: Metadata]

Frames ==
    [act: Sendable \cup Settles, receivers: Seq(Account), done: Nat, sent: Seq(Sendable)]

\* Nobody is told twice, the contract itself first.
ToldOnce(f) ==
    /\ Len(f.receivers) > 0 /\ f.receivers[1] = f.act.code
    /\ \A i, j \in DOMAIN f.receivers : f.receivers[i] = f.receivers[j] => i = j

FrameOK(f) ==
    /\ f \in Frames /\ ToldOnce(f)
    /\ f.done = 0 => Len(f.receivers) = 1 /\ f.sent = <<>>

-----------------------------------------------------------------------------
\* The gauges.

NoneForAdapter == \A m \in Metadata : m.preimage.content.recipient # adapter

\* What is the same again at the end of every transaction.
Count ==
    [of  : {"backed", "adapter", "lockbox", "number"} \cup
           IF NoneForAdapter THEN {"xadapter"} ELSE {},
     user: {NoName}, data: {NoData}] \cup
    [of: {"data"}, user: Users, data: Data \ {NoData}]

\* What the action that a transaction begins with is known to change, while
\* no user's contract adds to it: wallets, events and their amounts, what is
\* settled, and the quantities that no token accepts, which are none.
IsMeter(k) == k.of \in {"wallet", "events", "announced", "refused", "settled"}

Meter ==
    [of: {"wallet"}, user: Account \ {adapter, lockbox}, data: {NoData}] \cup
    [of: {"events", "announced", "refused"}, user: {NoName}, data: {NoData}] \cup
    [of: {"settled"}, user: {NoName}, data: {m.preimage : m \in Metadata}]

Gauge == Count \cup IF Contracts = {} THEN Meter ELSE {}

\* What a transfer, a mint or a burn does to an account's balance.
Gain(m, account) ==
    IF m.from = account /\ m.name # "mint" THEN -m.amount
    ELSE IF m.to = account /\ m.name # "burn" THEN m.amount ELSE 0

\* A quantity that the tokens' contracts refuse; those that the bridge's
\* contracts send are never too large, as nobody has so much.
Refused(m) ==
    IF /\ m.name # "mint"
       /\ m.amount <= 0 \/ (m.from \notin {adapter, lockbox} /\ m.amount > MaxAmount)
    THEN 1 ELSE 0

MeterEffect(k, m) ==
    IF m \in TokenTransfers \cup XTokenTransfers \cup Mints \cup Burns
    THEN IF k.of = "wallet" THEN Gain(m, k.user)
         ELSE IF k.of = "refused" THEN Refused(m) ELSE 0
    ELSE IF m \in Swaps
    THEN IF k.of = "events" THEN 1
         ELSE IF k.of = "announced" THEN m.memo.amount \div Unit ELSE 0
    ELSE IF m \in Settles
    THEN IF k.of = "wallet" /\ m.metadata.preimage.content.recipient = k.user
         THEN UnitsOf(m.metadata.preimage)
         ELSE IF k.of = "settled" /\ m.metadata.preimage = k.data THEN 1
         ELSE IF /\ k.of = "refused" /\ m.metadata.preimage.content.recipient = lockbox
                 /\ m.metadata.preimage.content.amount # 0 THEN 1 ELSE 0
    ELSE 0

\* What the execution of m by its own contract adds to the gauge.
Effect(k, m) ==
    IF IsMeter(k) THEN MeterEffect(k, m)
    ELSE IF m \in TokenTransfers
    THEN IF k.of = "backed" THEN -Gain(m, lockbox)
         ELSE IF k.of = "adapter" THEN Gain(m, adapter) ELSE 0
    ELSE IF m \in XTokenTransfers \cup Mints \cup Burns
    THEN IF k.of = "backed"
         THEN IF m.name = "mint" THEN m.amount ELSE IF m.name = "burn" THEN -m.amount ELSE 0
         ELSE IF k.of = "xadapter" THEN Gain(m, adapter)
         ELSE IF k.of = "lockbox" THEN Gain(m, lockbox) ELSE 0
    ELSE IF m \in Swaps
    THEN IF k.of = "backed" THEN m.memo.amount \div Unit
         ELSE IF k.of = "number" THEN -1
         ELSE IF k.of = "data" /\ m.memo.sender = k.user /\ m.memo.data = k.data THEN 1 ELSE 0
    ELSE 0

Fee(amount) ==
    LET fee == (FEE_BASIS_POINTS * amount) \div FEE_BASIS_POINTS_DIVISOR
    IN  IF fee < MinFee THEN MinFee ELSE fee

\* A swap of this quantity: a fee, and an event of the rest.
Swapping(k, amount, memo) ==
    IF memo \notin SwapMemo THEN IF k.of = "refused" THEN 1 ELSE 0
    ELSE IF k.of = "wallet" THEN IF k.user = fees THEN Fee(amount) ELSE 0
    ELSE IF k.of = "events" THEN 1
    ELSE IF k.of = "announced" THEN amount - Fee(amount)
    ELSE IF k.of = "refused"
    THEN (IF Fee(amount) > 0 THEN 0 ELSE 1) + (IF amount - Fee(amount) > 0 THEN 0 ELSE 1)
    ELSE 0

Paid(k, account, amount) == IF k.of = "wallet" /\ k.user = account THEN amount ELSE 0

\* What is released for an account; the lockbox itself would wrap it again,
\* for the adapter, with a memo that is no swap's.
Reaches(k, account, amount) ==
    IF account = lockbox THEN Swapping(k, amount, account) ELSE Paid(k, account, amount)

\* Collateral: to the one it is released for, or to be wrapped and, for the
\* adapter, swapped.
TokenPasses(k, r, m) ==
    IF r = adapter
    THEN IF m.from = lockbox THEN Reaches(k, m.memo, m.amount) ELSE Swapping(k, m.amount, m.memo)
    ELSE IF r = lockbox
    THEN IF m.from = adapter THEN Swapping(k, m.amount, m.memo) ELSE Paid(k, m.from, m.amount)
    ELSE 0

\* xERC20 tokens: to be swapped, or to be unwrapped for the sender or, from
\* the adapter, for the one that an event names.
XTokenPasses(k, r, m) ==
    IF r = adapter THEN Swapping(k, m.amount, m.memo)
    ELSE IF r = lockbox
    THEN IF m.from = adapter THEN Reaches(k, m.memo, m.amount) ELSE Paid(k, m.from, m.amount)
    ELSE 0

\* What follows from the notification of r adds to it: the adapter passes
\* tokens on, the lockbox wraps or unwraps them.
Share(k, r, m) ==
    IF m \in TokenTransfers /\ r = m.to /\ m.from # r
    THEN IF IsMeter(k) THEN TokenPasses(k, r, m)
         ELSE IF r = adapter /\ k.of = "adapter" THEN -m.amount
         ELSE IF r = lockbox /\ k.of = "backed" THEN m.amount ELSE 0
    ELSE IF m \in XTokenTransfers \cup Mints /\ r = m.to /\ m.from # r
    THEN IF IsMeter(k) THEN XTokenPasses(k, r, m)
         ELSE IF (r = adapter /\ k.of = "xadapter") \/ (r = lockbox /\ k.of = "lockbox")
         THEN -m.amount ELSE 0
    ELSE 0

Shares(k, m) == Share(k, adapter, m) + Share(k, lockbox, m)

Weight(k, m) == Effect(k, m) + Shares(k, m)

Weights(k, s) == [i \in DOMAIN s |-> Weight(k, s[i])]

Total(w) == SumFunctionOnSet(w, DOMAIN w)

Awaits(f, r) == \E i \in DOMAIN f.receivers : i > f.done /\ f.receivers[i] = r

Awaited(k, r, f) == IF Awaits(f, r) THEN Share(k, r, f.act) ELSE 0

\* What a frame will still add to the gauge.
Owed(k, f) ==
    IF f.done = 0 THEN Weight(k, f.act)
    ELSE Awaited(k, adapter, f) + Awaited(k, lockbox, f) + Total(Weights(k, f.sent))

Debts(k, s) == [i \in DOMAIN s |-> Owed(k, s[i])]

Debt(k, s) == Total(Debts(k, s))

Taken(k, d) == {i \in DOMAIN d.events : d.events[i].sender = k.user /\ d.events[i].data = k.data}

MeterLevel(k, d) ==
    IF k.of = "wallet" THEN Balance(d, k.user)
    ELSE IF k.of = "events" THEN Len(d.events)
    ELSE IF k.of = "announced" THEN SwappedUnits(d)
    ELSE IF k.of = "settled" THEN IF k.data \in SettledEvents(d) THEN 1 ELSE 0
    ELSE 0

Level(k, d) ==
    IF IsMeter(k) THEN MeterLevel(k, d)
    ELSE IF k.of = "backed"
    THEN d.xtoken.supply - d.token.rows[lockbox].balance - SettledUnits(d) + SwappedUnits(d)
    ELSE IF k.of = "adapter" THEN d.token.rows[adapter].balance
    ELSE IF k.of = "xadapter" THEN d.xtoken.rows[adapter].balance
    ELSE IF k.of = "lockbox" THEN d.xtoken.rows[lockbox].balance
    ELSE IF k.of = "number"
    THEN d.adapter.nonce - Cardinality(d.adapter.past) - Len(d.events)
    ELSE (IF d.adapter.userdata[k.user] = k.data THEN 1 ELSE 0) + Cardinality(Taken(k, d))

-----------------------------------------------------------------------------
\* A gauge is of one of the two kinds.
LEMMA CountKinds == \A k \in Count : ~IsMeter(k) /\ k \in Gauge
BY DEF Count, IsMeter, Gauge

\* The meters are told from the counts,
LEMMA MeterKinds == \A k \in Meter : IsMeter(k)
BY DEF Meter, IsMeter

\* and only a chain without users' contracts has them.
LEMMA GaugeKinds == \A k \in Gauge : k \in Count \/ (k \in Meter /\ Contracts = {})
BY DEF Gauge

\* A meter of wallets has an account that is not the adapter or the lockbox.
LEMMA WalletMeters ==
    \A k \in Meter : k.of = "wallet" =>
        k.user \in Account /\ k.user # adapter /\ k.user # lockbox
BY DEF Meter

-----------------------------------------------------------------------------
\* Arithmetic of the debts.

\* The units of an event are an integer.
LEMMA UnitsType == ASSUME NEW id \in {m.preimage : m \in Metadata} PROVE UnitsOf(id) \in Int
<1> DEFINE whole == id.content.amount \div Unit
           low == whole % A!Int64s
<1>1. id.content.amount \in Nat /\ Unit \in Nat \ {0}
    BY QuantitiesAssumption, ChainAssumption
<1>2. A!Int64s \in Nat \ {0}
    BY AssetsAssumption DEF A!Int64s
<1>3. whole \in Int
    BY <1>1
<1>4. low \in Int
    <2> HIDE DEF whole
    <2> QED
        BY <1>2, <1>3
<1>5. UnitsOf(id) = IF 2 * low >= A!Int64s THEN low - A!Int64s ELSE low
    BY DEF UnitsOf, A!AdjustPrecision
<1> HIDE DEF low
<1> QED
    BY <1>2, <1>4, <1>5

\* What an int64_t can count reaches the recipient in whole units: the cast to
\* it changes amounts from 2^63 units on (adjust_precision).
THEOREM AdjustedExactly ==
    ASSUME NEW amount \in Nat, amount \div Unit < 2 * (MaxAmount + 1)
    PROVE  A!AdjustPrecision(amount) = amount \div Unit
<1> DEFINE whole == amount \div Unit
<1>1. Unit \in Nat \ {0} /\ MaxAmount \in Nat \ {0}
    BY ChainAssumption, AssetsAssumption
<1>2. whole \in Nat
    BY <1>1
<1>3. A!AdjustPrecision(amount) =
        IF 2 * (whole % A!Int64s) >= A!Int64s THEN (whole % A!Int64s) - A!Int64s ELSE whole % A!Int64s
    BY DEF A!AdjustPrecision
<1>4. whole < 2 * (MaxAmount + 1)
    OBVIOUS
<1> HIDE DEF whole
<1>5. whole % (4 * (MaxAmount + 1)) = whole
    BY <1>1, <1>2, <1>4
<1>6. 2 * whole < 4 * (MaxAmount + 1)
    BY <1>1, <1>2, <1>4
<1>7. A!AdjustPrecision(amount) = whole
    BY <1>1, <1>2, <1>3, <1>5, <1>6 DEF A!Int64s
<1> QED
    BY <1>7 DEF whole

\* Of no wei there are no units.
LEMMA NothingAdjusted == A!AdjustPrecision(0) = 0
<1>1. 0 \div Unit = 0 /\ MaxAmount \in Nat
    BY ChainAssumption, AssetsAssumption
<1> QED
    BY <1>1, AdjustedExactly

\* So is a fee.
LEMMA FeeType == ASSUME NEW amount \in Int PROVE Fee(amount) \in Int
<1> DEFINE fee == (FEE_BASIS_POINTS * amount) \div FEE_BASIS_POINTS_DIVISOR
<1>1. FEE_BASIS_POINTS * amount \in Int /\ FEE_BASIS_POINTS_DIVISOR \in Nat \ {0}
    BY ChainAssumption
<1>2. fee \in Int
    BY <1>1
<1>3. MinFee \in Int
    BY QuantitiesAssumption
<1>4. Fee(amount) = IF fee < MinFee THEN MinFee ELSE fee
    BY DEF Fee
<1> HIDE DEF fee
<1> QED
    BY <1>2, <1>3, <1>4

\* And what a swap adds to a gauge.
LEMMA SwappingType ==
    ASSUME NEW k, NEW amount \in Int, NEW memo
    PROVE  Swapping(k, amount, memo) \in Int
BY FeeType DEF Swapping

\* What follows from a notification is an integer.
LEMMA ShareType ==
    ASSUME NEW k \in Gauge, NEW r, NEW m \in Sendable \cup Settles
    PROVE  Share(k, r, m) \in Int
<1>1. m \in TokenTransfers \cup XTokenTransfers \cup Mints => m.amount \in Int
    BY DEF TokenTransfers, XTokenTransfers, Mints, Moves
<1>2. m.amount \in Int => TokenPasses(k, r, m) \in Int /\ XTokenPasses(k, r, m) \in Int
    BY SwappingType DEF TokenPasses, XTokenPasses, Reaches, Paid
<1> QED
    BY <1>1, <1>2 DEF Share

\* So are weights.
LEMMA EffectIsInt ==
    ASSUME NEW k \in Gauge, NEW m \in Sendable \cup Settles
    PROVE  Effect(k, m) \in Int
<1>1. /\ m \in TokenTransfers \cup XTokenTransfers \cup Mints \cup Burns => m.amount \in Int
      /\ m \in Swaps => m.memo.amount \div Unit \in Int
      /\ m \in Settles => UnitsOf(m.metadata.preimage) \in Int
    <2>1. m \in TokenTransfers \cup XTokenTransfers \cup Mints \cup Burns => m.amount \in Int
        BY DEF TokenTransfers, XTokenTransfers, Mints, Burns, Moves
    <2>2. m \in Swaps => m.memo.amount \in Int
        BY DEF Swaps, Announced
    <2>3. Unit \in Nat \ {0}
        BY ChainAssumption
    <2>4. m \in Settles => m.metadata \in Metadata
        BY DEF Settles
    <2> QED
        BY <2>1, <2>2, <2>3, <2>4, UnitsType
<1>2. MeterEffect(k, m) \in Int
    BY <1>1 DEF MeterEffect, Gain, Refused
<1> QED
    BY <1>1, <1>2 DEF Effect, Gain

\* Both together are the weight.
LEMMA WeightType ==
    ASSUME NEW k \in Gauge, NEW m \in Sendable \cup Settles
    PROVE  Weight(k, m) \in Int
<1>1. Shares(k, m) \in Int
    BY ShareType DEF Shares
<1> QED
    BY <1>1, EffectIsInt DEF Weight

\* The weights of what waits to be executed are a sequence of integers.
LEMMA WeightsType ==
    ASSUME NEW k \in Gauge, NEW s \in Seq(Sendable)
    PROVE  Weights(k, s) \in Seq(Int)
<1>1. Len(s) \in Nat /\ DOMAIN s = 1 .. Len(s) /\ \A i \in DOMAIN s : s[i] \in Sendable
    BY LenProperties, ElementOfSeq
<1>2. \A i \in 1 .. Len(s) : Weight(k, s[i]) \in Int
    BY <1>1, WeightType
<1> HIDE DEF Sendable
<1> QED
    BY <1>1, <1>2 DEF Weights

\* What a frame owes is an integer.
LEMMA OwedType ==
    ASSUME NEW k \in Gauge, NEW f \in Frames
    PROVE  Owed(k, f) \in Int
<1>1. f.act \in Sendable \cup Settles /\ f.sent \in Seq(Sendable)
    BY DEF Frames
<1>2. Awaited(k, adapter, f) \in Int /\ Awaited(k, lockbox, f) \in Int
    BY <1>1, ShareType DEF Awaited
<1>3. Total(Weights(k, f.sent)) \in Int
    BY <1>1, WeightsType, SumSequenceIsInt DEF Total
<1>4. Weight(k, f.act) \in Int
    BY <1>1, WeightType
<1> QED
    BY <1>2, <1>3, <1>4 DEF Owed

\* A sequence is its head and its tail.
LEMMA HeadAndTail ==
    ASSUME NEW S, NEW s \in Seq(S), s # <<>>
    PROVE  /\ Head(s) \in S /\ Tail(s) \in Seq(S)
           /\ s = <<Head(s)>> \o Tail(s)
<1>1. /\ Head(s) \in S /\ Tail(s) \in Seq(S) /\ Len(Tail(s)) = Len(s) - 1
      /\ \A i \in 1 .. Len(Tail(s)) : Tail(s)[i] = s[i + 1]
      /\ Len(s) \in Nat \ {0}
    BY HeadTailProperties, EmptySeq
<1> DEFINE t == <<Head(s)>> \o Tail(s)
<1>2. /\ t \in Seq(S) /\ Len(t) = Len(s)
      /\ \A i \in 1 .. Len(s) : t[i] = IF i <= 1 THEN Head(s) ELSE Tail(s)[i - 1]
    <2>1. <<Head(s)>> \in Seq(S) /\ Len(<<Head(s)>>) = 1 /\ <<Head(s)>>[1] = Head(s)
        BY <1>1
    <2> QED
        BY <1>1, <2>1, ConcatProperties
<1> HIDE DEF t
<1>3. \A i \in 1 .. Len(s) : s[i] = t[i]
    <2> SUFFICES ASSUME NEW i \in 1 .. Len(s) PROVE s[i] = t[i]
        OBVIOUS
    <2>1. CASE i = 1
        BY <1>2, <2>1
    <2>2. CASE i # 1
        <3>1. i - 1 \in 1 .. Len(Tail(s)) /\ (i - 1) + 1 = i
            BY <1>1, <2>2
        <3>2. Tail(s)[i - 1] = s[i]
            BY <1>1, <3>1
        <3>3. ~ i <= 1
            BY <1>1, <2>2
        <3> QED
            BY <1>2, <3>2, <3>3
    <2> QED
        BY <2>1, <2>2
<1>4. s = t
    BY <1>2, <1>3, SeqEqual
<1> QED
    BY <1>1, <1>4 DEF t

\* Who sends nothing owes nothing.
LEMMA WeightsOfNone == ASSUME NEW k PROVE Total(Weights(k, <<>>)) = 0
<1>1. DOMAIN Weights(k, <<>>) = {}
    BY DEF Weights
<1> QED
    BY <1>1, SumEmpty DEF Total

\* One action weighs what it weighs.
LEMMA WeightsOfOne ==
    ASSUME NEW k \in Gauge, NEW m \in Sendable
    PROVE  Total(Weights(k, <<m>>)) = Weight(k, m)
<1>1. Weights(k, <<m>>) = <<Weight(k, m)>>
    BY DEF Weights
<1>2. Weight(k, m) \in Int
    BY WeightType
<1> DEFINE v == <<Weight(k, m)>>
           n == 0
<1>3. DOMAIN v = 1 .. n + 1 /\ 1 .. n = {} /\ v[n + 1] = Weight(k, m) /\ n \in Nat
    OBVIOUS
<1>4. \A i \in 1 .. n + 1 : v[i] \in Int
    BY <1>2
<1> HIDE DEF v, n
<1>5. SumFunctionOnSet(v, 1 .. n + 1) = SumFunctionOnSet(v, 1 .. n) + v[n + 1]
    BY <1>3, <1>4, SumUpTo
<1>6. Total(v) = Weight(k, m)
    BY <1>2, <1>3, <1>5, SumEmpty DEF Total
<1> QED
    BY <1>1, <1>6 DEF v

\* The weights of two sequences, one after the other, add up.
LEMMA WeightsConcat ==
    ASSUME NEW k \in Gauge, NEW s \in Seq(Sendable), NEW t \in Seq(Sendable)
    PROVE  Total(Weights(k, s \o t)) = Total(Weights(k, s)) + Total(Weights(k, t))
<1>1. /\ s \o t \in Seq(Sendable) /\ Len(s \o t) = Len(s) + Len(t)
      /\ \A i \in 1 .. Len(s) + Len(t) : (s \o t)[i] = IF i <= Len(s) THEN s[i] ELSE t[i - Len(s)]
      /\ Len(s) \in Nat /\ Len(t) \in Nat
      /\ DOMAIN s = 1 .. Len(s) /\ DOMAIN t = 1 .. Len(t)
      /\ DOMAIN (s \o t) = 1 .. Len(s) + Len(t)
    BY ConcatProperties, LenProperties
<1> DEFINE u == s \o t
           a == Weights(k, s)
           b == Weights(k, t)
           c == Weights(k, u)
<1>2. a \in Seq(Int) /\ b \in Seq(Int) /\ c \in Seq(Int)
    BY <1>1, WeightsType
<1>3. Len(a) = Len(s) /\ Len(b) = Len(t) /\ Len(c) = Len(s) + Len(t)
    BY <1>1 DEF Weights
<1>4. /\ a \o b \in Seq(Int) /\ Len(a \o b) = Len(s) + Len(t)
      /\ \A i \in 1 .. Len(s) + Len(t) : (a \o b)[i] = IF i <= Len(s) THEN a[i] ELSE b[i - Len(s)]
    <2> HIDE DEF a, b, c, u
    <2>1. /\ a \o b \in Seq(Int) /\ Len(a \o b) = Len(a) + Len(b)
          /\ \A i \in 1 .. Len(a) + Len(b) : (a \o b)[i] = IF i <= Len(a) THEN a[i] ELSE b[i - Len(a)]
        BY <1>2, ConcatProperties
    <2> QED
        BY <1>3, <2>1
<1>5. \A i \in 1 .. Len(s) + Len(t) : c[i] = (a \o b)[i]
    <2> SUFFICES ASSUME NEW i \in 1 .. Len(s) + Len(t) PROVE c[i] = (a \o b)[i]
        OBVIOUS
    <2>1. c[i] = Weight(k, u[i])
        BY <1>1 DEF Weights
    <2>2. CASE i <= Len(s)
        <3>1. i \in DOMAIN s
            BY <1>1, <2>2
        <3>2. a[i] = Weight(k, s[i])
            BY <3>1 DEF Weights
        <3> QED
            BY <1>1, <1>4, <2>1, <2>2, <3>2
    <2>3. CASE ~ i <= Len(s)
        <3>1. i - Len(s) \in DOMAIN t
            BY <1>1, <2>3
        <3>2. b[i - Len(s)] = Weight(k, t[i - Len(s)])
            BY <3>1 DEF Weights
        <3> QED
            BY <1>1, <1>4, <2>1, <2>3, <3>2
    <2> QED
        BY <2>2, <2>3
<1> HIDE DEF a, b, c
<1>6. c = a \o b
    BY <1>2, <1>3, <1>4, <1>5, SeqEqual
<1>7. SumFunctionOnSet(a \o b, DOMAIN (a \o b))
        = SumFunctionOnSet(a, DOMAIN a) + SumFunctionOnSet(b, DOMAIN b)
    BY <1>2, SumConcat
<1> QED
    BY <1>6, <1>7 DEF Total, a, b, c

\* The first action can be weighed by itself.
LEMMA WeightsHead ==
    ASSUME NEW k \in Gauge, NEW s \in Seq(Sendable), s # <<>>
    PROVE  /\ Head(s) \in Sendable /\ Tail(s) \in Seq(Sendable)
           /\ Total(Weights(k, s)) = Weight(k, Head(s)) + Total(Weights(k, Tail(s)))
<1>1. Head(s) \in Sendable /\ Tail(s) \in Seq(Sendable) /\ s = <<Head(s)>> \o Tail(s)
    BY HeadAndTail
<1>2. <<Head(s)>> \in Seq(Sendable)
    BY <1>1
<1>3. Total(Weights(k, <<Head(s)>> \o Tail(s)))
        = Total(Weights(k, <<Head(s)>>)) + Total(Weights(k, Tail(s)))
    BY <1>1, <1>2, WeightsConcat
<1>4. Total(Weights(k, <<Head(s)>>)) = Weight(k, Head(s))
    BY <1>1, WeightsOfOne
<1> QED
    BY <1>1, <1>3, <1>4

\* The sum of weights is an integer.
LEMMA WeightsSumType ==
    ASSUME NEW k \in Gauge, NEW s \in Seq(Sendable)
    PROVE  Total(Weights(k, s)) \in Int
BY WeightsType, SumSequenceIsInt DEF Total

\* The debt of a stack is that of its top and of the rest.
LEMMA DebtsType ==
    ASSUME NEW k \in Gauge, NEW s \in Seq(Frames)
    PROVE  Debts(k, s) \in Seq(Int) /\ Debt(k, s) \in Int
<1>1. Len(s) \in Nat /\ DOMAIN s = 1 .. Len(s) /\ \A i \in DOMAIN s : s[i] \in Frames
    BY LenProperties, ElementOfSeq
<1>2. \A i \in 1 .. Len(s) : Owed(k, s[i]) \in Int
    BY <1>1, OwedType
<1>3. Debts(k, s) \in Seq(Int)
    BY <1>1, <1>2 DEF Debts
<1> QED
    BY <1>3, SumSequenceIsInt DEF Debt, Total

\* Without frames nothing is owed.
LEMMA DebtOfNone == ASSUME NEW k PROVE Debt(k, <<>>) = 0
<1>1. DOMAIN Debts(k, <<>>) = {}
    BY DEF Debts
<1> QED
    BY <1>1, SumEmpty DEF Debt, Total

\* A frame on top of others adds what it owes.
LEMMA DebtCons ==
    ASSUME NEW k \in Gauge, NEW f \in Frames, NEW s \in Seq(Frames)
    PROVE  Debt(k, <<f>> \o s) = Owed(k, f) + Debt(k, s)
<1> DEFINE u == <<f>> \o s
           x == Owed(k, f)
           a == Debts(k, s)
           c == Debts(k, u)
<1>1. /\ u \in Seq(Frames) /\ Len(u) = 1 + Len(s)
      /\ u[1] = f /\ \A i \in 1 .. Len(s) : u[i + 1] = s[i]
      /\ Len(s) \in Nat /\ DOMAIN s = 1 .. Len(s)
      /\ DOMAIN u = 1 .. 1 + Len(s)
    <2>1. <<f>> \in Seq(Frames) /\ Len(<<f>>) = 1 /\ <<f>>[1] = f
        OBVIOUS
    <2> QED
        BY <2>1, ConcatProperties, LenProperties
<1>2. x \in Int /\ a \in Seq(Int) /\ c \in Seq(Int)
    BY <1>1, OwedType, DebtsType
<1>3. Len(a) = Len(s) /\ Len(c) = 1 + Len(s)
    BY <1>1 DEF Debts
<1>4. /\ c[1] = x /\ \A i \in 1 .. Len(s) : c[i + 1] = a[i]
    BY <1>1 DEF Debts
<1> HIDE DEF u, x, a, c
<1>5. \A i \in 1 .. Len(s) : a[i] \in Int
    BY <1>2, <1>3, ElementOfSeq
<1>6. SumFunctionOnSet(c, 1 .. Len(s) + 1) = c[1] + SumFunctionOnSet(a, 1 .. Len(s))
    BY <1>1, <1>2, <1>4, <1>5, SumShifted
<1>7. DOMAIN c = 1 .. Len(s) + 1 /\ DOMAIN a = 1 .. Len(s)
    BY <1>1, <1>2, <1>3, LenProperties
<1> QED
    BY <1>4, <1>6, <1>7 DEF Debt, Total, a, c, u, x

-----------------------------------------------------------------------------
\* The frames.

Lists(receivers, code) ==
    /\ receivers \in Seq(Account) /\ Len(receivers) > 0 /\ receivers[1] = code
    /\ \A i, j \in DOMAIN receivers : receivers[i] = receivers[j] => i = j

Has(receivers, r) == \E i \in DOMAIN receivers : receivers[i] = r

\* Notifying tells nobody twice and keeps who was told.
LEMMA NotifyLists ==
    ASSUME NEW receivers, NEW code, Lists(receivers, code), NEW account \in Account
    PROVE  /\ Lists(Notify(receivers, account), code)
           /\ Has(Notify(receivers, account), account)
           /\ \A r : Has(receivers, r) => Has(Notify(receivers, account), r)
<1>1. CASE \E i \in DOMAIN receivers : receivers[i] = account
    BY <1>1 DEF Notify, Has
<1>2. CASE ~ \E i \in DOMAIN receivers : receivers[i] = account
    <2> DEFINE n == Len(receivers)
               v == Append(receivers, account)
    <2>1. /\ n \in Nat /\ n > 0 /\ DOMAIN receivers = 1 .. n
          /\ v \in Seq(Account) /\ Len(v) = n + 1 /\ DOMAIN v = 1 .. n + 1
          /\ \A i \in 1 .. n : v[i] = receivers[i]
          /\ v[n + 1] = account
        BY LenProperties, AppendProperties DEF Lists
    <2>2. Notify(receivers, account) = v
        BY <1>2 DEF Notify
    <2> HIDE DEF v, n
    <2>3. \A i, j \in 1 .. n + 1 : v[i] = v[j] => i = j
        <3> SUFFICES ASSUME NEW i \in 1 .. n + 1, NEW j \in 1 .. n + 1, v[i] = v[j] PROVE i = j
            OBVIOUS
        <3>1. CASE i \in 1 .. n /\ j \in 1 .. n
            BY <2>1, <3>1 DEF Lists
        <3>2. CASE i \notin 1 .. n /\ j \notin 1 .. n
            BY <2>1, <3>2
        <3>3. CASE i \in 1 .. n /\ j \notin 1 .. n
            <4>1. j = n + 1
                BY <2>1, <3>3
            <4> QED
                BY <1>2, <2>1, <3>3, <4>1
        <3>4. CASE i \notin 1 .. n /\ j \in 1 .. n
            <4>1. i = n + 1
                BY <2>1, <3>4
            <4> QED
                BY <1>2, <2>1, <3>4, <4>1
        <3> QED
            BY <3>1, <3>2, <3>3, <3>4
    <2>4. v[1] = code
        BY <2>1 DEF Lists
    <2>5. Lists(v, code)
        BY <2>1, <2>3, <2>4 DEF Lists
    <2>6. Has(v, account)
        BY <2>1 DEF Has
    <2>7. \A r : Has(receivers, r) => Has(v, r)
        BY <2>1 DEF Has
    <2> QED
        BY <2>2, <2>5, <2>6, <2>7
<1> QED
    BY <1>1, <1>2

\* Two notifications.
LEMMA BothLists ==
    ASSUME NEW receivers, NEW code, Lists(receivers, code), NEW a \in Account, NEW b \in Account
    PROVE  /\ Lists(NotifyBoth(receivers, a, b), code)
           /\ Has(NotifyBoth(receivers, a, b), a) /\ Has(NotifyBoth(receivers, a, b), b)
BY NotifyLists DEF NotifyBoth

\* Every action names the account of its contract.
LEMMA ActCode == ASSUME NEW m \in Sendable \cup Settles PROVE m.code \in Account
BY DEF Sendable, TokenTransfers, XTokenTransfers, Mints, Burns, Imitations, Swaps, Settles,
       Moves, Account

\* A new frame is in order and owes the whole of its action.
LEMMA FrameStarts ==
    ASSUME NEW k \in Gauge, NEW m \in Sendable \cup Settles
    PROVE  FrameOK(Frame(m)) /\ Owed(k, Frame(m)) = Weight(k, m)
<1>1. m.code \in Account
    BY ActCode
<1>2. <<m.code>> \in Seq(Account) /\ <<>> \in Seq(Sendable)
    BY <1>1, EmptySeq
<1> QED
    BY <1>2 DEF Frame, FrameOK, Frames, ToldOnce, Owed

\* The contract itself has executed its action.
LEMMA RunFrame ==
    ASSUME NEW k \in Gauge, NEW f, FrameOK(f), f.done = 0,
           NEW receivers, Lists(receivers, f.act.code), NEW s \in Seq(Sendable),
           \A r \in {adapter, lockbox} :
               Share(k, r, f.act) # 0 => r # f.act.code /\ Has(receivers, r)
    PROVE  /\ FrameOK(Executed(f, receivers, s))
           /\ Owed(k, Executed(f, receivers, s)) = Shares(k, f.act) + Total(Weights(k, s))
<1> DEFINE g == Executed(f, receivers, s)
<1>1. f.act \in Sendable \cup Settles /\ f.sent = <<>>
    BY DEF FrameOK, Frames
<1>2. g = [act |-> f.act, receivers |-> receivers, done |-> 1, sent |-> s]
    <2>1. <<>> \o s = s
        BY ConcatEmptySeq
    <2> QED
        BY <1>1, <2>1 DEF Executed
<1>3. FrameOK(g)
    BY <1>1, <1>2 DEF FrameOK, Frames, ToldOnce, Lists
<1>4. ASSUME NEW r \in {adapter, lockbox} PROVE Awaited(k, r, g) = Share(k, r, f.act)
    <2>1. ASSUME Share(k, r, f.act) # 0 PROVE Awaits(g, r)
        <3>1. PICK i \in DOMAIN receivers : receivers[i] = r
            BY <2>1 DEF Has
        <3>2. i # 1
            BY <2>1, <3>1 DEF Lists
        <3>3. i > 1
            BY <3>2, LenProperties DEF Lists
        <3> QED
            BY <1>2, <3>1, <3>3 DEF Awaits
    <2> QED
        BY <1>2, <2>1 DEF Awaited
<1> HIDE DEF g
<1>5. Owed(k, g) = Shares(k, f.act) + Total(Weights(k, s))
    BY <1>2, <1>4 DEF Owed, Shares
<1> QED
    BY <1>3, <1>5 DEF g

\* A notified account has.
LEMMA NotifiedFrame ==
    ASSUME NEW k \in Gauge, NEW f, FrameOK(f), f.done # 0,
           f.done < Len(f.receivers), NEW s \in Seq(Sendable)
    PROVE  /\ FrameOK(Executed(f, f.receivers, s))
           /\ Owed(k, Executed(f, f.receivers, s))
                = Owed(k, f) - Share(k, f.receivers[f.done + 1], f.act) + Total(Weights(k, s))
<1> DEFINE g == Executed(f, f.receivers, s)
           r == f.receivers[f.done + 1]
           n == f.done
<1>1. /\ f.act \in Sendable \cup Settles /\ f.sent \in Seq(Sendable) /\ n \in Nat \ {0}
      /\ f.receivers \in Seq(Account) /\ DOMAIN f.receivers = 1 .. Len(f.receivers)
      /\ Len(f.receivers) \in Nat
    BY LenProperties DEF FrameOK, Frames
<1>2. /\ g = [act |-> f.act, receivers |-> f.receivers, done |-> n + 1, sent |-> f.sent \o s]
      /\ f.sent \o s \in Seq(Sendable)
    BY <1>1, ConcatProperties DEF Executed
<1>3. FrameOK(g)
    <2> HIDE DEF g
    <2>1. g \in Frames
        BY <1>1, <1>2 DEF Frames
    <2>2. ToldOnce(g)
        BY <1>2 DEF FrameOK, ToldOnce
    <2>3. g.done # 0
        BY <1>1, <1>2
    <2> QED
        BY <2>1, <2>2, <2>3 DEF FrameOK
<1>4. n + 1 \in DOMAIN f.receivers
    BY <1>1
<1>5. \A a : Awaits(g, a) <=> Awaits(f, a) /\ a # r
    <2> SUFFICES ASSUME NEW a PROVE Awaits(g, a) <=> Awaits(f, a) /\ a # r
        OBVIOUS
    <2>1. ASSUME Awaits(g, a) PROVE Awaits(f, a) /\ a # r
        <3>1. PICK i \in DOMAIN f.receivers : i > n + 1 /\ f.receivers[i] = a
            BY <1>2, <2>1 DEF Awaits
        <3>2. i > n
            BY <1>1, <3>1
        <3>3. a # r
            BY <1>1, <1>4, <3>1 DEF FrameOK, ToldOnce
        <3> QED
            BY <3>1, <3>2, <3>3 DEF Awaits
    <2>2. ASSUME Awaits(f, a), a # r PROVE Awaits(g, a)
        <3>1. PICK i \in DOMAIN f.receivers : i > n /\ f.receivers[i] = a
            BY <2>2 DEF Awaits
        <3>2. i > n + 1
            BY <1>1, <2>2, <3>1
        <3> QED
            BY <1>2, <3>1, <3>2 DEF Awaits
    <2> QED
        BY <2>1, <2>2
<1>6. Awaits(f, r)
    BY <1>1, <1>4 DEF Awaits
<1>7. \A a : Share(k, a, f.act) \in Int
    BY <1>1, ShareType
<1>8. r \notin {adapter, lockbox} => Share(k, r, f.act) = 0
    BY DEF Share, TokenPasses, XTokenPasses
<1>9. Total(Weights(k, f.sent \o s)) = Total(Weights(k, f.sent)) + Total(Weights(k, s))
    BY <1>1, WeightsConcat
<1>10. Total(Weights(k, f.sent)) \in Int /\ Total(Weights(k, s)) \in Int
    BY <1>1, WeightsSumType
<1>11. Awaited(k, adapter, g) = IF r = adapter THEN 0 ELSE Awaited(k, adapter, f)
    <2>1. g.act = f.act
        BY <1>2
    <2> HIDE DEF g, r
    <2> QED
        BY <1>5, <2>1 DEF Awaited
<1>12. Awaited(k, lockbox, g) = IF r = lockbox THEN 0 ELSE Awaited(k, lockbox, f)
    <2>1. g.act = f.act
        BY <1>2
    <2> HIDE DEF g, r
    <2> QED
        BY <1>5, <2>1 DEF Awaited
<1>13. Awaited(k, adapter, f) \in Int /\ Awaited(k, lockbox, f) \in Int
    BY <1>7 DEF Awaited
<1>14. Awaited(k, r, f) = Share(k, r, f.act)
    BY <1>6 DEF Awaited
<1>15. Owed(k, f) = Awaited(k, adapter, f) + Awaited(k, lockbox, f) + Total(Weights(k, f.sent))
    BY <1>1 DEF Owed
<1>16. Owed(k, g) = Awaited(k, adapter, g) + Awaited(k, lockbox, g) + Total(Weights(k, f.sent \o s))
    BY <1>1, <1>2 DEF Owed
<1>17. adapter # lockbox
    BY AccountsAssumption
<1> HIDE DEF g, r, n
<1>18. Owed(k, g) = Owed(k, f) - Share(k, r, f.act) + Total(Weights(k, s))
    <2>1. CASE r = adapter
        BY <1>9, <1>10, <1>11, <1>12, <1>13, <1>14, <1>15, <1>16, <1>17, <2>1
    <2>2. CASE r = lockbox
        BY <1>9, <1>10, <1>11, <1>12, <1>13, <1>14, <1>15, <1>16, <1>17, <2>2
    <2>3. CASE r \notin {adapter, lockbox}
        BY <1>8, <1>9, <1>10, <1>11, <1>12, <1>13, <1>15, <1>16, <2>3
    <2> QED
        BY <2>1, <2>2, <2>3
<1> QED
    BY <1>3, <1>18 DEF g, r, n

-----------------------------------------------------------------------------
\* The invariant.

GoodFrame == {f \in Frames : FrameOK(f)}

TokenTables ==
    [rows: [Account -> [payer: Account \cup {NoName}, balance: Int]], supply: Int,
     maxSupply: Int, issuer: Account \cup {NoName}]

XTokenRows == [Account -> [payer: Account \cup {NoName}, balance: Int]]

\* All fields, without the limits' contents.
XTokenOK(x) ==
    /\ x = [rows |-> x.rows, supply |-> x.supply, maxSupply |-> x.maxSupply,
            bridges |-> x.bridges, minting |-> x.minting, burning |-> x.burning,
            lockbox |-> x.lockbox, freezer |-> x.freezer, frozen |-> x.frozen]
    /\ x.rows \in XTokenRows /\ x.supply \in Int
    /\ x.lockbox \in {NoName, lockbox}

AdapterTables ==
    [registry: {Unset, Registry}, nonce: Nat, feesmanager: {NoName, fees},
     past: SUBSET [notused: Nat, event_id: {m.preimage : m \in Metadata}],
     userdata: [Account -> Data]]

TablesOK(d) ==
    /\ d = [token |-> d.token, xtoken |-> d.xtoken, lockbox |-> d.lockbox,
            adapter |-> d.adapter, pam |-> d.pam, events |-> d.events]
    /\ d.token \in TokenTables /\ XTokenOK(d.xtoken)
    /\ d.lockbox \subseteq {Pair}
    /\ d.adapter \in AdapterTables /\ IsFiniteSet(d.adapter.past)
    /\ d.events \in Seq(Announced)

\* The numbers that are used up, and those of events that wait to be printed.
Numbers(d) ==
    {r.notused : r \in d.adapter.past} \cup {d.events[i].nonce : i \in DOMAIN d.events}

Waiting(f) == IF f.done = 0 THEN {f.act} ELSE {f.sent[i] : i \in DOMAIN f.sent}

AllWaiting(s) == UNION {Waiting(s[i]) : i \in DOMAIN s}

Named(messages) == {m.memo.nonce : m \in Swaps \cap messages}

Pending(s) == Named(AllWaiting(s))

Numbered(d, s) == Numbers(d) \cup Pending(s) = 0 .. d.adapter.nonce - 1

\* Events are only added.
Extends(d, c) ==
    /\ Len(c.events) <= Len(d.events)
    /\ \A i \in DOMAIN c.events : d.events[i] = c.events[i]

\* What a transaction begins with.
Starts == Settles \cup UNION {Transfers(u) : u \in Users}

First(s) == s[Len(s)].act

Due(k, s) == IF s = <<>> THEN 0 ELSE Weight(k, First(s))

Covered(d, s, c) == \A k \in Gauge : Level(k, d) + Debt(k, s) = Level(k, c) + Due(k, s)

Even(d) == \A k \in Count : k.of # "data" => Level(k, d) = 0

Balanced(d, s, c) ==
    /\ TablesOK(d) /\ TablesOK(c)
    /\ s \in Seq(GoodFrame)
    /\ IF s = <<>> THEN d = c ELSE First(s) \in Starts
    /\ Covered(d, s, c) /\ Even(c)
    /\ Numbered(d, s) /\ Numbered(c, <<>>)
    /\ Extends(d, c)

IInv == Balanced(db, stack, committed)

-----------------------------------------------------------------------------
\* Steps of the chain.

\* A stack of good frames is a stack of frames.
LEMMA GoodFrames == ASSUME NEW s \in Seq(GoodFrame) PROVE s \in Seq(Frames)
BY SeqMonotonic DEF GoodFrame

\* The top of the stack and the rest are frames in order.
LEMMA TopOfStack ==
    ASSUME NEW s \in Seq(GoodFrame), s # <<>>
    PROVE  /\ Head(s) \in GoodFrame /\ FrameOK(Head(s)) /\ Head(s) \in Frames
           /\ Tail(s) \in Seq(GoodFrame) /\ s = <<Head(s)>> \o Tail(s)
BY HeadAndTail DEF GoodFrame

\* A frame on top of others adds what it waits for and owes.
LEMMA Pushed ==
    ASSUME NEW f \in GoodFrame, NEW s \in Seq(GoodFrame)
    PROVE  /\ <<f>> \o s \in Seq(GoodFrame)
           /\ <<f>> \o s # <<>>
           /\ AllWaiting(<<f>> \o s) = Waiting(f) \cup AllWaiting(s)
           /\ \A k \in Gauge : Debt(k, <<f>> \o s) = Owed(k, f) + Debt(k, s)
<1> DEFINE u == <<f>> \o s
<1>1. /\ u \in Seq(GoodFrame) /\ Len(u) = 1 + Len(s)
      /\ u[1] = f /\ \A i \in 1 .. Len(s) : u[i + 1] = s[i]
      /\ Len(s) \in Nat /\ DOMAIN s = 1 .. Len(s)
      /\ DOMAIN u = 1 .. 1 + Len(s)
    <2>1. <<f>> \in Seq(GoodFrame) /\ Len(<<f>>) = 1 /\ <<f>>[1] = f
        OBVIOUS
    <2> QED
        BY <2>1, ConcatProperties, LenProperties
<1>2. \A k \in Gauge : Debt(k, u) = Owed(k, f) + Debt(k, s)
    <2>1. f \in Frames /\ s \in Seq(Frames)
        BY GoodFrames DEF GoodFrame
    <2> QED
        BY <2>1, DebtCons
<1> HIDE DEF u
<1>3. ASSUME NEW m PROVE m \in AllWaiting(u) <=> m \in Waiting(f) \/ m \in AllWaiting(s)
    <2>1. ASSUME m \in AllWaiting(u) PROVE m \in Waiting(f) \/ m \in AllWaiting(s)
        <3>1. PICK i \in DOMAIN u : m \in Waiting(u[i])
            BY <2>1 DEF AllWaiting
        <3>2. CASE i = 1
            BY <1>1, <3>1, <3>2
        <3>3. CASE i # 1
            <4>1. i - 1 \in DOMAIN s /\ (i - 1) + 1 = i
                BY <1>1, <3>3
            <4>2. m \in Waiting(s[i - 1])
                BY <1>1, <3>1, <4>1
            <4> QED
                BY <4>1, <4>2 DEF AllWaiting
        <3> QED
            BY <3>2, <3>3
    <2>2. ASSUME m \in Waiting(f) PROVE m \in AllWaiting(u)
        <3>1. 1 \in DOMAIN u
            BY <1>1
        <3> QED
            BY <1>1, <2>2, <3>1 DEF AllWaiting
    <2>3. ASSUME m \in AllWaiting(s) PROVE m \in AllWaiting(u)
        <3>1. PICK i \in DOMAIN s : m \in Waiting(s[i])
            BY <2>3 DEF AllWaiting
        <3>2. i + 1 \in DOMAIN u /\ u[i + 1] = s[i]
            BY <1>1
        <3> QED
            BY <3>1, <3>2 DEF AllWaiting
    <2> QED
        BY <2>1, <2>2, <2>3
<1>4. u # <<>>
    BY <1>1
<1> QED
    BY <1>1, <1>2, <1>3, <1>4 DEF u

\* The numbers of events in two sets of actions.
LEMMA NamedUnion ==
    ASSUME NEW a, NEW b PROVE Named(a \cup b) = Named(a) \cup Named(b)
BY DEF Named

\* No event waits on an empty stack.
LEMMA PendingNone == Pending(<<>>) = {}
BY DEF Pending, Named, AllWaiting

\* Finitely many events were settled.
LEMMA SettledFinite == ASSUME NEW d, TablesOK(d) PROVE IsFiniteSet(SettledEvents(d))
<1> DEFINE S == SettledEvents(d)
           g == [r \in d.adapter.past |-> r.event_id]
<1>1. g \in Surjection(d.adapter.past, S)
    BY DEF Surjection, SettledEvents
<1>2. IsFiniteSet(d.adapter.past)
    BY DEF TablesOK
<1> HIDE DEF g, S
<1>3. IsFiniteSet(S)
    BY <1>1, <1>2, FS_Surjection
<1> QED
    BY <1>3 DEF S

\* What was settled is an integer.
LEMMA SettledUnitsType == ASSUME NEW d, TablesOK(d) PROVE SettledUnits(d) \in Int
<1> DEFINE S == SettledEvents(d)
           f == [e \in S |-> UnitsOf(e)]
<1>1. IsFiniteSet(S)
    BY SettledFinite
<1>2. \A e \in S : f[e] \in Int
    <2>1. \A e \in S : e \in {m.preimage : m \in Metadata}
        BY DEF SettledEvents, TablesOK, AdapterTables
    <2> HIDE DEF S
    <2> QED
        BY <2>1, UnitsType
<1>3. SettledUnits(d) = SumFunctionOnSet(f, S)
    BY DEF SettledUnits, SumFunction
<1> HIDE DEF f, S
<1> QED
    BY <1>1, <1>2, <1>3, SumIsInt

\* What the events printed are worth.
Worths(events) == [i \in DOMAIN events |-> events[i].amount \div Unit]

\* What the events are worth is a sequence of integers.
LEMMA WorthsType == ASSUME NEW s \in Seq(Announced) PROVE Worths(s) \in Seq(Int)
<1>1. Len(s) \in Nat /\ DOMAIN s = 1 .. Len(s) /\ \A i \in DOMAIN s : s[i] \in Announced
    BY LenProperties, ElementOfSeq
<1>2. Unit \in Nat \ {0}
    BY ChainAssumption
<1>3. \A i \in 1 .. Len(s) : s[i].amount \div Unit \in Int
    <2>1. \A i \in 1 .. Len(s) : s[i].amount \in Int
        BY <1>1 DEF Announced
    <2> QED
        BY <1>2, <2>1
<1> QED
    BY <1>1, <1>3 DEF Worths

\* What was swapped is their sum.
LEMMA SwappedSum ==
    ASSUME NEW d, TablesOK(d)
    PROVE  /\ SwappedUnits(d) = Total(Worths(d.events))
           /\ SwappedUnits(d) \in Int
<1>1. DOMAIN Worths(d.events) = DOMAIN d.events
    BY DEF Worths
<1>2. SwappedUnits(d) = Total(Worths(d.events))
    BY <1>1 DEF SwappedUnits, SumFunction, Worths, Total
<1>3. Worths(d.events) \in Seq(Int)
    BY WorthsType DEF TablesOK
<1> QED
    BY <1>2, <1>3, SumSequenceIsInt DEF Total

\* The events that took a user's data can be counted.
LEMMA TakenFinite ==
    ASSUME NEW k, NEW d, TablesOK(d)
    PROVE  IsFiniteSet(Taken(k, d)) /\ Cardinality(Taken(k, d)) \in Nat
<1>1. Taken(k, d) \subseteq 1 .. Len(d.events) /\ Len(d.events) \in Nat
    BY LenProperties DEF Taken, TablesOK
<1>2. IsFiniteSet(1 .. Len(d.events))
    BY <1>1, FS_Interval
<1>3. IsFiniteSet(Taken(k, d))
    BY <1>1, <1>2, FS_Subset
<1> QED
    BY <1>3, FS_CardinalityType

\* The contracts and the users are accounts.
LEMMA AccountFacts ==
    /\ adapter \in Account /\ lockbox \in Account /\ tokenAccount \in Account
    /\ xtokenAccount \in Account /\ other \in Account /\ fees \in Account
    /\ Users \subseteq Account
BY DEF Account

\* Balances are integers.
LEMMA BalanceTypes ==
    ASSUME NEW d, TablesOK(d), NEW a \in Account
    PROVE  d.token.rows[a].balance \in Int /\ d.xtoken.rows[a].balance \in Int
BY DEF TablesOK, TokenTables, XTokenOK, XTokenRows

\* Every gauge reads an integer.
LEMMA LevelType ==
    ASSUME NEW k \in Gauge, NEW d, TablesOK(d)
    PROVE  Level(k, d) \in Int
<1>1. SettledUnits(d) \in Int /\ SwappedUnits(d) \in Int /\ Cardinality(Taken(k, d)) \in Nat
    BY SettledUnitsType, SwappedSum, TakenFinite
<1>2. /\ d.xtoken.supply \in Int /\ d.token.rows[lockbox].balance \in Int
      /\ d.token.rows[adapter].balance \in Int /\ d.xtoken.rows[adapter].balance \in Int
      /\ d.xtoken.rows[lockbox].balance \in Int
    BY BalanceTypes, AccountFacts DEF TablesOK, XTokenOK
<1>3. d.adapter.nonce \in Int /\ Cardinality(d.adapter.past) \in Int /\ Len(d.events) \in Int
    BY FS_CardinalityType, LenProperties DEF TablesOK, AdapterTables
<1>4. CASE IsMeter(k)
    <2>1. k \in Meter
        BY <1>4, GaugeKinds, CountKinds
    <2>2. k.of = "wallet" => Balance(d, k.user) \in Int
        BY <2>1, WalletMeters, BalanceTypes DEF Balance
    <2> QED
        BY <1>1, <1>3, <1>4, <2>2 DEF Level, MeterLevel
<1>5. CASE ~IsMeter(k) /\ k.of = "backed"
    BY <1>1, <1>2, <1>5 DEF Level
<1>6. CASE ~IsMeter(k) /\ k.of = "number"
    BY <1>3, <1>6 DEF Level
<1>7. CASE ~IsMeter(k) /\ k.of \in {"adapter", "xadapter", "lockbox"}
    BY <1>2, <1>7 DEF Level
<1>8. CASE ~IsMeter(k) /\ k.of \notin {"backed", "number", "adapter", "xadapter", "lockbox"}
    BY <1>1, <1>8 DEF Level
<1> QED
    BY <1>4, <1>5, <1>6, <1>7, <1>8

\* So does every part that a gauge adds up.
LEMMA LevelParts ==
    ASSUME NEW k \in Gauge, NEW d, TablesOK(d)
    PROVE  /\ Level(k, d) \in Int /\ Cardinality(Taken(k, d)) \in Int /\ SettledUnits(d) \in Int
           /\ SwappedUnits(d) \in Int /\ d.xtoken.supply \in Int
           /\ d.token.rows[lockbox].balance \in Int
           /\ d.adapter.nonce \in Int /\ Cardinality(d.adapter.past) \in Int
           /\ d.adapter.userdata \in [Account -> Data]
<1>1. Level(k, d) \in Int /\ Cardinality(Taken(k, d)) \in Int
    BY LevelType, TakenFinite
<1>2. SettledUnits(d) \in Int /\ SwappedUnits(d) \in Int
    BY SettledUnitsType, SwappedSum
<1>3. d.xtoken.supply \in Int /\ d.token.rows[lockbox].balance \in Int
    BY BalanceTypes, AccountFacts DEF TablesOK, XTokenOK
<1>4. /\ d.adapter.nonce \in Int /\ Cardinality(d.adapter.past) \in Int
      /\ d.adapter.userdata \in [Account -> Data]
    BY FS_CardinalityType DEF TablesOK, AdapterTables
<1> QED
    BY <1>1, <1>2, <1>3, <1>4

-----------------------------------------------------------------------------
\* Steps of the chain, whatever the handlers do.

\* Tables extend themselves.
LEMMA ExtendsItself == \A d : TablesOK(d) => Extends(d, d)
BY LenProperties DEF Extends, TablesOK

\* To extend is transitive.
LEMMA ExtendsFurther ==
    ASSUME NEW d, NEW e, NEW c, TablesOK(d), TablesOK(e), TablesOK(c), Extends(d, c), Extends(e, d)
    PROVE  Extends(e, c)
<1>1. /\ Len(d.events) \in Nat /\ DOMAIN d.events = 1 .. Len(d.events)
      /\ Len(e.events) \in Nat /\ DOMAIN e.events = 1 .. Len(e.events)
      /\ Len(c.events) \in Nat /\ DOMAIN c.events = 1 .. Len(c.events)
    BY LenProperties DEF TablesOK
<1> QED
    BY <1>1 DEF Extends

\* The first of the frames is the deepest in the sequence.
LEMMA FirstOfStack ==
    ASSUME NEW f \in GoodFrame, NEW s \in Seq(GoodFrame)
    PROVE  First(<<f>> \o s) = IF s = <<>> THEN f.act ELSE First(s)
<1> DEFINE u == <<f>> \o s
<1>1. <<f>> \in Seq(GoodFrame) /\ Len(<<f>>) = 1 /\ <<f>>[1] = f
    OBVIOUS
<1>2. /\ Len(u) = 1 + Len(s) /\ Len(s) \in Nat
      /\ \A i \in 1 .. 1 + Len(s) : u[i] = IF i <= 1 THEN <<f>>[i] ELSE s[i - 1]
    BY <1>1, ConcatProperties, LenProperties
<1> HIDE DEF u
<1>3. CASE s = <<>>
    <2>1. Len(s) = 0
        BY <1>3
    <2> QED
        BY <1>1, <1>2, <1>3, <2>1 DEF First, u
<1>4. CASE s # <<>>
    <2>1. Len(s) > 0
        BY <1>2, <1>4, EmptySeq
    <2> DEFINE n == 1 + Len(s)
    <2>2. n \in 1 .. 1 + Len(s) /\ ~ n <= 1 /\ n - 1 = Len(s)
        BY <1>2, <2>1
    <2>3. u[n] = s[Len(s)]
        BY <1>2, <2>2
    <2> QED
        BY <1>2, <1>4, <2>3 DEF First, u
<1> QED
    BY <1>3, <1>4

\* What is due is an integer, and the same whatever is on top of the first frame.
LEMMA DueType ==
    ASSUME NEW k \in Gauge, NEW s \in Seq(GoodFrame)
    PROVE  Due(k, s) \in Int
<1>1. CASE s = <<>>
    BY <1>1 DEF Due
<1>2. CASE s # <<>>
    <2>1. Len(s) \in 1 .. Len(s) /\ DOMAIN s = 1 .. Len(s)
        BY <1>2, LenProperties, EmptySeq
    <2>2. s[Len(s)] \in GoodFrame
        BY <2>1, ElementOfSeq
    <2>3. First(s) \in Sendable \cup Settles
        BY <2>2 DEF First, GoodFrame, Frames
    <2> QED
        BY <1>2, <2>3, WeightType DEF Due
<1> QED
    BY <1>1, <1>2

\* A consistent state between transactions.
LEMMA BalancedAlone ==
    ASSUME NEW c, TablesOK(c), Even(c), Numbered(c, <<>>)
    PROVE  Balanced(c, <<>>, c)
<1>1. <<>> \in Seq(GoodFrame)
    BY EmptySeq
<1>2. Covered(c, <<>>, c)
    <2> SUFFICES ASSUME NEW k \in Gauge
                 PROVE  Level(k, c) + Debt(k, <<>>) = Level(k, c) + Due(k, <<>>)
        BY DEF Covered
    <2>1. Level(k, c) \in Int /\ Debt(k, <<>>) = 0 /\ Due(k, <<>>) = 0
        BY LevelType, DebtOfNone DEF Due
    <2> QED
        BY <2>1
<1>3. Extends(c, c)
    BY ExtendsItself
<1> QED
    BY <1>1, <1>2, <1>3 DEF Balanced

\* A transaction that reverts leaves what was committed, which is balanced.
LEMMA RevertStep == IInv /\ Revert => IInv'
<1> SUFFICES ASSUME IInv, Revert PROVE IInv'
    OBVIOUS
<1>1. Balanced(committed, <<>>, committed)
    BY BalancedAlone DEF IInv, Balanced
<1> QED
    BY <1>1 DEF IInv, Revert

\* The frame on top is replaced.
LEMMA TopChanges ==
    ASSUME NEW d, NEW s, NEW c, Balanced(d, s, c), s # <<>>,
           NEW e, TablesOK(e), Extends(e, d), d.adapter.nonce <= e.adapter.nonce,
           NEW g \in GoodFrame, g.act = Head(s).act,
           \A k \in Gauge : Level(k, e) + Owed(k, g) = Level(k, d) + Owed(k, Head(s)),
           Numbers(e) \cup Named(Waiting(g))
             = Numbers(d) \cup Named(Waiting(Head(s))) \cup (d.adapter.nonce .. e.adapter.nonce - 1)
    PROVE  Balanced(e, <<g>> \o Tail(s), c)
<1> DEFINE t == Tail(s)
           f == Head(s)
<1>1. f \in GoodFrame /\ t \in Seq(GoodFrame) /\ s = <<f>> \o t
    BY TopOfStack DEF Balanced
<1> DEFINE u == <<g>> \o t
           v == <<f>> \o t
<1>2. /\ u \in Seq(GoodFrame) /\ u # <<>>
      /\ AllWaiting(u) = Waiting(g) \cup AllWaiting(t)
      /\ \A k \in Gauge : Debt(k, u) = Owed(k, g) + Debt(k, t)
    BY <1>1, Pushed
<1>3. /\ AllWaiting(s) = Waiting(f) \cup AllWaiting(t)
      /\ \A k \in Gauge : Debt(k, s) = Owed(k, f) + Debt(k, t)
    <2>1. /\ AllWaiting(v) = Waiting(f) \cup AllWaiting(t)
          /\ \A k \in Gauge : Debt(k, v) = Owed(k, f) + Debt(k, t)
        BY <1>1, Pushed
    <2> QED
        BY <1>1, <2>1
<1>4. First(u) = First(s)
    <2>1. First(u) = (IF t = <<>> THEN g.act ELSE First(t)) /\ First(v) = IF t = <<>> THEN f.act ELSE First(t)
        BY <1>1, FirstOfStack
    <2> QED
        BY <1>1, <2>1
<1>5. Covered(e, u, c)
    <2> SUFFICES ASSUME NEW k \in Gauge PROVE Level(k, e) + Debt(k, u) = Level(k, c) + Due(k, u)
        BY DEF Covered
    <2>1. Level(k, d) + Debt(k, s) = Level(k, c) + Due(k, u)
        BY <1>2, <1>4 DEF Balanced, Covered, Due
    <2>2. Level(k, e) + Owed(k, g) = Level(k, d) + Owed(k, f)
        OBVIOUS
    <2>3. Debt(k, u) = Owed(k, g) + Debt(k, t) /\ Debt(k, s) = Owed(k, f) + Debt(k, t)
        BY <1>2, <1>3
    <2>4. /\ Level(k, d) \in Int /\ Level(k, e) \in Int
          /\ Owed(k, f) \in Int /\ Owed(k, g) \in Int /\ Debt(k, t) \in Int
        <3>1. f \in Frames /\ g \in Frames /\ t \in Seq(Frames)
            BY <1>1, GoodFrames DEF GoodFrame
        <3>2. Level(k, d) \in Int /\ Level(k, e) \in Int
            BY LevelType DEF Balanced
        <3>3. Owed(k, f) \in Int /\ Owed(k, g) \in Int
            BY <3>1, OwedType
        <3>4. Debt(k, t) \in Int
            BY <3>1, DebtsType
        <3> QED
            BY <3>2, <3>3, <3>4
    <2> HIDE DEF u, t, f
    <2> QED
        BY <2>1, <2>2, <2>3, <2>4
<1>6. Numbered(e, u)
    <2>1. Pending(u) = Named(Waiting(g)) \cup Named(AllWaiting(t))
        BY <1>2, NamedUnion DEF Pending
    <2>2. Pending(s) = Named(Waiting(f)) \cup Named(AllWaiting(t))
        BY <1>3, NamedUnion DEF Pending
    <2>3. Numbers(d) \cup Pending(s) = 0 .. d.adapter.nonce - 1
        BY DEF Balanced, Numbered
    <2>4. d.adapter.nonce \in Nat /\ e.adapter.nonce \in Nat
        BY DEF Balanced, TablesOK, AdapterTables
    <2> DEFINE m == d.adapter.nonce
               n == e.adapter.nonce
    <2>5. (0 .. m - 1) \cup (m .. n - 1) = 0 .. n - 1
        BY <2>4
    <2>6. Numbers(e) \cup Pending(u)
            = (Numbers(d) \cup Named(Waiting(f)) \cup (m .. n - 1)) \cup Named(AllWaiting(t))
        BY <2>1, Zenon
    <2>7. Numbers(e) \cup Pending(u) = (Numbers(d) \cup Pending(s)) \cup (m .. n - 1)
        BY <2>2, <2>6, Zenon
    <2> QED
        BY <2>3, <2>5, <2>7, Zenon DEF Numbered
<1>7. Extends(e, c)
    BY ExtendsFurther DEF Balanced
<1> QED
    BY <1>2, <1>4, <1>5, <1>6, <1>7 DEF Balanced

Members(s) == {s[i] : i \in DOMAIN s}

\* What the execution of an action by its own contract has to achieve: its
\* effect, and that everybody it concerns is told.
RunOK(f, d, e, receivers, s) ==
    /\ TablesOK(e) /\ Extends(e, d) /\ d.adapter.nonce <= e.adapter.nonce
    /\ Lists(receivers, f.act.code) /\ s \in Seq(Sendable)
    /\ \A k \in Gauge : \A r \in {adapter, lockbox} :
          Share(k, r, f.act) # 0 => r # f.act.code /\ Has(receivers, r)
    /\ \A k \in Gauge : Level(k, e) + Total(Weights(k, s)) = Level(k, d) + Effect(k, f.act)
    /\ Numbers(e) \cup Named(Members(s))
         = Numbers(d) \cup Named({f.act}) \cup (d.adapter.nonce .. e.adapter.nonce - 1)

\* What a notified account has to achieve: its share.
NotifiedOK(f, d, e, s) ==
    /\ TablesOK(e) /\ Extends(e, d) /\ d.adapter.nonce <= e.adapter.nonce
    /\ s \in Seq(Sendable)
    /\ \A k \in Gauge : Level(k, e) + Total(Weights(k, s))
                          = Level(k, d) + Share(k, f.receivers[f.done + 1], f.act)
    /\ Numbers(e) \cup Named(Members(s))
         = Numbers(d) \cup (d.adapter.nonce .. e.adapter.nonce - 1)

\* The effect of an action is an integer.
LEMMA EffectType ==
    ASSUME NEW k \in Gauge, NEW m \in Sendable \cup Settles
    PROVE  Effect(k, m) \in Int /\ Shares(k, m) \in Int /\ Weight(k, m) = Effect(k, m) + Shares(k, m)
<1>1. Shares(k, m) \in Int
    BY ShareType DEF Shares
<1>2. Effect(k, m) \in Int
    BY EffectIsInt
<1> QED
    BY <1>1, <1>2 DEF Weight

\* The actions in two sequences.
LEMMA MembersConcat ==
    ASSUME NEW S, NEW s \in Seq(S), NEW t \in Seq(S)
    PROVE  Members(s \o t) = Members(s) \cup Members(t)
<1> DEFINE u == s \o t
<1>1. /\ \A i \in 1 .. Len(s) + Len(t) : u[i] = IF i <= Len(s) THEN s[i] ELSE t[i - Len(s)]
      /\ Len(s) \in Nat /\ Len(t) \in Nat
      /\ DOMAIN s = 1 .. Len(s) /\ DOMAIN t = 1 .. Len(t)
      /\ DOMAIN u = 1 .. Len(s) + Len(t)
    BY ConcatProperties, LenProperties
<1> HIDE DEF u
<1>2. Members(u) \subseteq Members(s) \cup Members(t)
    BY <1>1 DEF Members
<1>3. Members(s) \subseteq Members(u)
    BY <1>1 DEF Members
<1>4. Members(t) \subseteq Members(u)
    <2> SUFFICES ASSUME NEW i \in DOMAIN t PROVE t[i] \in Members(u)
        BY DEF Members
    <2>1. i + Len(s) \in DOMAIN u /\ u[i + Len(s)] = t[i]
        BY <1>1
    <2> QED
        BY <2>1 DEF Members
<1> QED
    BY <1>2, <1>3, <1>4 DEF u

\* The contract executes its action: its effect is booked, and what follows is owed by the
\* frame, by who waits to be told and by what is sent.
LEMMA RunStep ==
    ASSUME NEW d, NEW s, NEW c, Balanced(d, s, c), s # <<>>, Head(s).done = 0,
           NEW e, NEW receivers, NEW sent, RunOK(Head(s), d, e, receivers, sent)
    PROVE  Balanced(e, <<Executed(Head(s), receivers, sent)>> \o Tail(s), c)
<1> DEFINE f == Head(s)
           g == Executed(f, receivers, sent)
<1>1. f \in GoodFrame /\ FrameOK(f)
    BY TopOfStack DEF Balanced
<1>2. f.act \in Sendable \cup Settles /\ f.sent = <<>>
    BY <1>1 DEF FrameOK, Frames
<1>3. ASSUME NEW k \in Gauge
      PROVE  FrameOK(g) /\ Owed(k, g) = Shares(k, f.act) + Total(Weights(k, sent))
    <2> HIDE DEF f
    <2> QED
        BY <1>1, RunFrame DEF RunOK, f
<1>4. g \in GoodFrame
    <2>1. [of |-> "backed", user |-> NoName, data |-> NoData] \in Gauge
        BY DEF Gauge, Count
    <2>2. FrameOK(g)
        BY <1>3, <2>1
    <2> QED
        BY <2>2 DEF GoodFrame, FrameOK
<1>5. ASSUME NEW k \in Gauge PROVE Level(k, e) + Owed(k, g) = Level(k, d) + Owed(k, f)
    <2>1. Owed(k, f) = Effect(k, f.act) + Shares(k, f.act)
        BY <1>2, EffectType DEF Owed
    <2>2. Level(k, e) + Total(Weights(k, sent)) = Level(k, d) + Effect(k, f.act)
        BY DEF RunOK
    <2>3. /\ Level(k, d) \in Int /\ Level(k, e) \in Int /\ Total(Weights(k, sent)) \in Int
          /\ Effect(k, f.act) \in Int /\ Shares(k, f.act) \in Int
        <3>1. Level(k, d) \in Int /\ Level(k, e) \in Int
            BY LevelType DEF Balanced, RunOK
        <3>2. Total(Weights(k, sent)) \in Int
            BY WeightsSumType DEF RunOK
        <3>3. Effect(k, f.act) \in Int /\ Shares(k, f.act) \in Int
            BY <1>2, EffectType
        <3> QED
            BY <3>1, <3>2, <3>3
    <2>4. Owed(k, g) = Shares(k, f.act) + Total(Weights(k, sent))
        BY <1>3
    <2> HIDE DEF f, g
    <2> QED
        BY <2>1, <2>2, <2>3, <2>4
<1>6. Waiting(f) = {f.act} /\ Waiting(g) = Members(sent)
    <2>1. <<>> \o sent = sent
        <3>1. sent \in Seq(Sendable)
            BY DEF RunOK
        <3> QED
            BY <3>1, ConcatEmptySeq
    <2>2. g.done = 1 /\ g.sent = sent
        <3>1. f.done = 0
            OBVIOUS
        <3> HIDE DEF f
        <3> QED
            BY <1>2, <2>1, <3>1 DEF Executed
    <2> HIDE DEF g
    <2> QED
        BY <2>2 DEF Waiting, Members
<1>7. Numbers(e) \cup Named(Waiting(g))
        = Numbers(d) \cup Named(Waiting(f)) \cup (d.adapter.nonce .. e.adapter.nonce - 1)
    BY <1>6 DEF RunOK
<1>8. TablesOK(e) /\ Extends(e, d) /\ d.adapter.nonce <= e.adapter.nonce
    BY DEF RunOK
<1>9. g.act = f.act
    BY DEF Executed
<1> HIDE DEF g
<1>10. Balanced(e, <<g>> \o Tail(s), c)
    BY <1>4, <1>5, <1>7, <1>8, <1>9, TopChanges
<1> QED
    BY <1>10 DEF g

\* A told account answers: its share is sent, and no longer awaited.
LEMMA NotifiedStep ==
    ASSUME NEW d, NEW s, NEW c, Balanced(d, s, c), s # <<>>,
           Head(s).done # 0, Head(s).done < Len(Head(s).receivers),
           NEW e, NEW sent, NotifiedOK(Head(s), d, e, sent)
    PROVE  Balanced(e, <<Executed(Head(s), Head(s).receivers, sent)>> \o Tail(s), c)
<1> DEFINE f == Head(s)
           g == Executed(f, f.receivers, sent)
           r == f.receivers[f.done + 1]
<1>1. f \in GoodFrame /\ FrameOK(f)
    BY TopOfStack DEF Balanced
<1>2. f \in Frames /\ f.act \in Sendable \cup Settles /\ f.sent \in Seq(Sendable) /\ f.done \in Nat
    BY <1>1 DEF FrameOK, Frames
<1>3. ASSUME NEW k \in Gauge
      PROVE  FrameOK(g) /\ Owed(k, g) = Owed(k, f) - Share(k, r, f.act) + Total(Weights(k, sent))
    <2>1. sent \in Seq(Sendable)
        BY DEF NotifiedOK
    <2> HIDE DEF f
    <2> QED
        BY <1>1, <2>1, NotifiedFrame DEF f
<1>4. g \in GoodFrame
    <2>1. [of |-> "backed", user |-> NoName, data |-> NoData] \in Gauge
        BY DEF Gauge, Count
    <2>2. FrameOK(g)
        BY <1>3, <2>1
    <2> QED
        BY <2>2 DEF GoodFrame, FrameOK
<1>5. ASSUME NEW k \in Gauge PROVE Level(k, e) + Owed(k, g) = Level(k, d) + Owed(k, f)
    <2>1. Level(k, e) + Total(Weights(k, sent)) = Level(k, d) + Share(k, r, f.act)
        BY DEF NotifiedOK
    <2>2. /\ Level(k, d) \in Int /\ Level(k, e) \in Int /\ Total(Weights(k, sent)) \in Int
          /\ Share(k, r, f.act) \in Int /\ Owed(k, f) \in Int
        <3>1. Level(k, d) \in Int /\ Level(k, e) \in Int
            BY LevelType DEF Balanced, NotifiedOK
        <3>2. Total(Weights(k, sent)) \in Int
            BY WeightsSumType DEF NotifiedOK
        <3>3. Share(k, r, f.act) \in Int
            BY <1>2, ShareType
        <3>4. Owed(k, f) \in Int
            BY <1>2, OwedType
        <3> QED
            BY <3>1, <3>2, <3>3, <3>4
    <2>3. Owed(k, g) = Owed(k, f) - Share(k, r, f.act) + Total(Weights(k, sent))
        BY <1>3
    <2> HIDE DEF f, g, r
    <2> QED
        BY <2>1, <2>2, <2>3
<1>6. Named(Waiting(g)) = Named(Waiting(f)) \cup Named(Members(sent))
    <2>1. Members(f.sent \o sent) = Members(f.sent) \cup Members(sent)
        BY <1>2, MembersConcat DEF NotifiedOK
    <2>2. g.done # 0 /\ g.sent = f.sent \o sent
        BY <1>2 DEF Executed
    <2>3. Waiting(g) = Members(f.sent \o sent) /\ Waiting(f) = Members(f.sent)
        <3> HIDE DEF g
        <3> QED
            BY <2>2 DEF Waiting, Members
    <2> QED
        BY <2>1, <2>3, NamedUnion
<1>7. Numbers(e) \cup Named(Waiting(g))
        = Numbers(d) \cup Named(Waiting(f)) \cup (d.adapter.nonce .. e.adapter.nonce - 1)
    <2>1. Numbers(e) \cup Named(Members(sent)) = Numbers(d) \cup (d.adapter.nonce .. e.adapter.nonce - 1)
        BY DEF NotifiedOK
    <2> DEFINE A1 == Numbers(e)
               A2 == Named(Members(sent))
               A3 == Numbers(d)
               A4 == d.adapter.nonce .. e.adapter.nonce - 1
               A5 == Named(Waiting(f))
               A6 == Named(Waiting(g))
    <2>2. A1 \cup A2 = A3 \cup A4 /\ A6 = A5 \cup A2
        BY <1>6, <2>1
    <2> HIDE DEF A1, A2, A3, A4, A5, A6
    <2>3. A1 \cup A6 = (A1 \cup A2) \cup A5 /\ A3 \cup A5 \cup A4 = (A3 \cup A4) \cup A5
        BY <2>2
    <2>4. A1 \cup A6 = A3 \cup A5 \cup A4
        BY <2>2, <2>3
    <2> QED
        BY <2>4 DEF A1, A3, A4, A5, A6
<1>8. TablesOK(e) /\ Extends(e, d) /\ d.adapter.nonce <= e.adapter.nonce
    BY DEF NotifiedOK
<1>9. g.act = f.act
    BY DEF Executed
<1> HIDE DEF g
<1>10. Balanced(e, <<g>> \o Tail(s), c)
    BY <1>4, <1>5, <1>7, <1>8, <1>9, TopChanges
<1> QED
    BY <1>10 DEF g

\* The next inline action starts, one level deeper.
LEMMA DescendStep == IInv /\ Descend => IInv'
<1> SUFFICES ASSUME IInv, Descend PROVE IInv'
    OBVIOUS
<1>1. CASE Len(stack) > MaxDepth
    BY <1>1, RevertStep DEF Descend
<1>2. CASE ~ Len(stack) > MaxDepth
    <2> DEFINE f == Head(stack)
               t == Tail(stack)
               m == Head(f.sent)
               g == [f EXCEPT !.sent = Tail(@)]
    <2>1. /\ stack # <<>> /\ f.done = Len(f.receivers) /\ f.sent # <<>>
          /\ stack' = << Frame(m), g >> \o t
          /\ db' = db /\ committed' = committed
        BY <1>2 DEF Descend, AllExecuted
    <2>2. f \in GoodFrame /\ FrameOK(f) /\ f \in Frames /\ t \in Seq(GoodFrame) /\ stack = <<f>> \o t
        BY <2>1, TopOfStack DEF IInv, Balanced
    <2>3. /\ f = [act |-> f.act, receivers |-> f.receivers, done |-> f.done, sent |-> f.sent]
          /\ f.done \in Nat \ {0} /\ f.sent \in Seq(Sendable) /\ f.act \in Sendable \cup Settles
          /\ f.receivers \in Seq(Account)
        BY <2>1, <2>2, LenProperties DEF FrameOK, Frames, ToldOnce
    <2>4. /\ m \in Sendable /\ Tail(f.sent) \in Seq(Sendable)
          /\ \A k \in Gauge : Total(Weights(k, f.sent)) = Weight(k, m) + Total(Weights(k, Tail(f.sent)))
        <3> DEFINE z == f.sent
        <3>1. z \in Seq(Sendable) /\ z # <<>>
            BY <2>1, <2>3
        <3> HIDE DEF z
        <3>2. Head(z) \in Sendable /\ Tail(z) \in Seq(Sendable)
            BY <3>1, HeadAndTail
        <3>3. \A k \in Gauge : Total(Weights(k, z)) = Weight(k, Head(z)) + Total(Weights(k, Tail(z)))
            BY <3>1, WeightsHead
        <3> QED
            BY <3>2, <3>3 DEF z
    <2>5. g = [act |-> f.act, receivers |-> f.receivers, done |-> f.done, sent |-> Tail(f.sent)]
        <3> DEFINE v == Tail(f.sent)
        <3> HIDE DEF f, v
        <3>1. f \in Frames
            BY <2>2
        <3>2. [f EXCEPT !.sent = v]
                = [act |-> f.act, receivers |-> f.receivers, done |-> f.done, sent |-> v]
            BY <3>1 DEF Frames
        <3> QED
            BY <3>2 DEF v
    <2>6. g \in GoodFrame
        <3>1. g \in Frames
            BY <2>3, <2>4, <2>5 DEF Frames
        <3>2. ToldOnce(g) /\ g.done # 0
            BY <2>2, <2>3, <2>5 DEF FrameOK, ToldOnce
        <3> QED
            BY <3>1, <3>2 DEF GoodFrame, FrameOK
    <2>7. ASSUME NEW k \in Gauge PROVE Owed(k, f) = Weight(k, m) + Owed(k, g) /\ Owed(k, g) \in Int
        <3>1. Awaited(k, adapter, g) = Awaited(k, adapter, f) /\ Awaited(k, lockbox, g) = Awaited(k, lockbox, f)
            BY <2>5 DEF Awaited, Awaits
        <3>2. Owed(k, f) = Awaited(k, adapter, f) + Awaited(k, lockbox, f) + Total(Weights(k, f.sent))
            BY <2>3 DEF Owed
        <3>3. Owed(k, g) = Awaited(k, adapter, g) + Awaited(k, lockbox, g) + Total(Weights(k, Tail(f.sent)))
            BY <2>3, <2>5 DEF Owed
        <3>4. /\ Awaited(k, adapter, f) \in Int /\ Awaited(k, lockbox, f) \in Int
              /\ Weight(k, m) \in Int /\ Total(Weights(k, Tail(f.sent))) \in Int
            <4>1. Awaited(k, adapter, f) \in Int /\ Awaited(k, lockbox, f) \in Int
                BY <2>3, ShareType DEF Awaited
            <4>2. Weight(k, m) \in Int
                BY <2>4, WeightType
            <4>3. Total(Weights(k, Tail(f.sent))) \in Int
                BY <2>4, WeightsSumType
            <4> QED
                BY <4>1, <4>2, <4>3
        <3>5. Total(Weights(k, f.sent)) = Weight(k, m) + Total(Weights(k, Tail(f.sent)))
            BY <2>4
        <3> HIDE DEF g, m, f
        <3> QED
            BY <3>1, <3>2, <3>3, <3>4, <3>5
    <2>8. Waiting(f) = {m} \cup Waiting(g)
        <3>1. Waiting(f) = Members(f.sent) /\ Waiting(g) = Members(Tail(f.sent))
            <4> HIDE DEF g
            <4> QED
                BY <2>3, <2>5 DEF Waiting, Members
        <3>2. f.sent = <<m>> \o Tail(f.sent) /\ <<m>> \in Seq(Sendable)
            BY <2>1, <2>3, <2>4, HeadAndTail
        <3>3. Members(<<m>> \o Tail(f.sent)) = Members(<<m>>) \cup Members(Tail(f.sent))
            BY <2>4, <3>2, MembersConcat
        <3>4. Members(<<m>>) = {m}
            BY DEF Members
        <3> QED
            BY <3>1, <3>2, <3>3, <3>4
    <2> DEFINE u == <<g>> \o t
               h == Frame(m)
               v == <<h>> \o u
    <2>9. ASSUME NEW k \in Gauge PROVE FrameOK(h) /\ Owed(k, h) = Weight(k, m)
        BY <2>4, FrameStarts
    <2>10. h \in GoodFrame
        <3>1. [of |-> "backed", user |-> NoName, data |-> NoData] \in Gauge
            BY DEF Gauge, Count
        <3>2. FrameOK(h)
            BY <2>9, <3>1
        <3> QED
            BY <3>2 DEF GoodFrame, FrameOK
    <2>11. Waiting(h) = {m}
        BY DEF Waiting, Frame
    <2>12. stack' = v
        <3> HIDE DEF h, g
        <3>1. <<h, g>> \o t = <<h>> \o (<<g>> \o t)
            <4>1. <<h, g>> = <<h>> \o <<g>>
                OBVIOUS
            <4>2. <<h>> \in Seq(GoodFrame) /\ <<g>> \in Seq(GoodFrame)
                BY <2>6, <2>10
            <4> QED
                BY <2>2, <4>1, <4>2, ConcatAssociative
        <3> QED
            BY <2>1, <3>1 DEF h, g
    <2> HIDE DEF g, h, m
    <2>13. /\ u \in Seq(GoodFrame) /\ u # <<>> /\ AllWaiting(u) = Waiting(g) \cup AllWaiting(t)
           /\ \A k \in Gauge : Debt(k, u) = Owed(k, g) + Debt(k, t)
        BY <2>2, <2>6, Pushed
    <2> HIDE DEF u
    <2>14. /\ v \in Seq(GoodFrame) /\ v # <<>> /\ AllWaiting(v) = Waiting(h) \cup AllWaiting(u)
           /\ \A k \in Gauge : Debt(k, v) = Owed(k, h) + Debt(k, u)
        BY <2>10, <2>13, Pushed
    <2>15. /\ AllWaiting(stack) = Waiting(f) \cup AllWaiting(t)
           /\ \A k \in Gauge : Debt(k, stack) = Owed(k, f) + Debt(k, t)
        <3> DEFINE w == <<f>> \o t
        <3>1. /\ AllWaiting(w) = Waiting(f) \cup AllWaiting(t)
              /\ \A k \in Gauge : Debt(k, w) = Owed(k, f) + Debt(k, t)
            BY <2>2, Pushed
        <3> QED
            BY <2>2, <3>1
    <2> HIDE DEF v
    <2>16. ASSUME NEW k \in Gauge PROVE Debt(k, v) = Debt(k, stack)
        <3>1. t \in Seq(Frames)
            BY <2>2, GoodFrames
        <3>2. Debt(k, t) \in Int
            BY <3>1, DebtsType
        <3>3. Owed(k, h) = Weight(k, m) /\ Weight(k, m) \in Int
            BY <2>4, <2>9, WeightType
        <3> HIDE DEF f, t
        <3> QED
            BY <2>7, <2>13, <2>14, <2>15, <3>2, <3>3
    <2>17. AllWaiting(v) = AllWaiting(stack)
        BY <2>8, <2>11, <2>13, <2>14, <2>15
    <2>18. First(v) = First(stack)
        <3>1. u # <<>> /\ First(v) = First(u)
            BY <2>10, <2>13, FirstOfStack DEF v
        <3>2. First(<<g>> \o t) = (IF t = <<>> THEN g.act ELSE First(t))
            BY <2>2, <2>6, FirstOfStack
        <3>3. First(<<f>> \o t) = (IF t = <<>> THEN f.act ELSE First(t))
            BY <2>2, FirstOfStack
        <3>4. g.act = f.act
            BY <2>5
        <3> QED
            BY <2>2, <3>1, <3>2, <3>3, <3>4 DEF u
    <2>19. Balanced(db, v, committed)
        <3>1. Covered(db, v, committed)
            BY <2>1, <2>14, <2>16, <2>18 DEF IInv, Balanced, Covered, Due
        <3> QED
            BY <2>1, <2>14, <2>17, <2>18, <3>1 DEF IInv, Balanced, Numbered, Pending
    <2> QED
        BY <2>1, <2>12, <2>19 DEF IInv
<1> QED
    BY <1>1, <1>2

\* A frame with nothing left to do owes nothing.
LEMMA FrameDone ==
    ASSUME NEW k \in Gauge, NEW f, FrameOK(f), f.done = Len(f.receivers), f.sent = <<>>
    PROVE  Owed(k, f) = 0 /\ Waiting(f) = {}
<1>1. f.done # 0 /\ DOMAIN f.receivers = 1 .. Len(f.receivers) /\ Len(f.receivers) \in Nat
    BY LenProperties DEF FrameOK, Frames, ToldOnce
<1>2. \A r : ~Awaits(f, r)
    BY <1>1 DEF Awaits
<1>3. Total(Weights(k, f.sent)) = 0
    BY WeightsOfNone
<1>4. Awaited(k, adapter, f) = 0 /\ Awaited(k, lockbox, f) = 0
    BY <1>2 DEF Awaited
<1>5. Owed(k, f) = 0
    BY <1>1, <1>3, <1>4 DEF Owed
<1>6. Waiting(f) = {}
    BY <1>1 DEF Waiting
<1> QED
    BY <1>5, <1>6

\* What is left on the stack when the top returns.
LEMMA Returned ==
    ASSUME IInv, Return
    PROVE  /\ stack # <<>> /\ Tail(stack) \in Seq(GoodFrame)
           /\ Pending(Tail(stack)) = Pending(stack)
           /\ \A k \in Gauge : Debt(k, Tail(stack)) = Debt(k, stack)
           /\ Len(Tail(stack)) = Len(stack) - 1 /\ Len(stack) \in Nat
           /\ First(stack) = IF Tail(stack) = <<>> THEN Act ELSE First(Tail(stack))
<1> DEFINE f == Head(stack)
           t == Tail(stack)
           w == <<f>> \o t
<1>1. stack # <<>> /\ f.done = Len(f.receivers) /\ f.sent = <<>>
    BY DEF Return, AllExecuted
<1>2. f \in GoodFrame /\ FrameOK(f) /\ t \in Seq(GoodFrame) /\ stack = <<f>> \o t
    BY <1>1, TopOfStack DEF IInv, Balanced
<1>3. /\ AllWaiting(w) = Waiting(f) \cup AllWaiting(t)
      /\ \A k \in Gauge : Debt(k, w) = Owed(k, f) + Debt(k, t)
    BY <1>2, Pushed
<1>4. ASSUME NEW k \in Gauge PROVE Owed(k, f) = 0 /\ Waiting(f) = {} /\ Debt(k, t) \in Int
    <2>1. Debt(k, t) \in Int
        BY <1>2, GoodFrames, DebtsType
    <2> HIDE DEF f, t
    <2> QED
        BY <1>1, <1>2, <2>1, FrameDone
<1>5. Waiting(f) = {}
    <2>1. [of |-> "backed", user |-> NoName, data |-> NoData] \in Gauge
        BY DEF Gauge, Count
    <2> QED
        BY <1>4, <2>1
<1>6. AllWaiting(stack) = AllWaiting(t)
    BY <1>2, <1>3, <1>5
<1>7. ASSUME NEW k \in Gauge PROVE Debt(k, t) = Debt(k, stack)
    <2>1. Debt(k, w) = Owed(k, f) + Debt(k, t) /\ stack = w
        BY <1>2, <1>3
    <2> HIDE DEF f, t, w
    <2> QED
        BY <1>4, <2>1
<1>8. Len(t) = Len(stack) - 1 /\ Len(stack) \in Nat
    BY <1>1, HeadTailProperties DEF IInv, Balanced
<1>9. Pending(t) = Pending(stack)
    BY <1>6 DEF Pending
<1>10. First(w) = IF t = <<>> THEN f.act ELSE First(t)
    BY <1>2, FirstOfStack
<1> QED
    BY <1>1, <1>2, <1>7, <1>8, <1>9, <1>10 DEF Act

\* A transaction changes every gauge by what the action it began with is worth.
LEMMA TransactionEnds ==
    ASSUME IInv, Return, Len(stack) = 1
    PROVE  /\ Tail(stack) = <<>> /\ stack' = <<>> /\ committed' = db /\ db' = db
           /\ TablesOK(db) /\ TablesOK(committed) /\ Extends(db, committed)
           /\ Act \in Starts
           /\ \A k \in Gauge : Level(k, db) = Level(k, committed) + Weight(k, Act)
           /\ Numbered(db, <<>>)
<1> DEFINE t == Tail(stack)
<1>1. t = <<>>
    <2>1. t \in Seq(GoodFrame) /\ Len(t) = 0
        BY Returned
    <2> QED
        BY <2>1, EmptySeq
<1>2. stack # <<>> /\ First(stack) = Act
    BY <1>1, Returned
<1>3. Act \in Starts
    BY <1>2 DEF IInv, Balanced
<1>4. ASSUME NEW k \in Gauge PROVE Level(k, db) = Level(k, committed) + Weight(k, Act)
    <2>1. Level(k, db) + Debt(k, stack) = Level(k, committed) + Weight(k, Act)
        BY <1>2 DEF IInv, Balanced, Covered, Due
    <2>2. Debt(k, stack) = 0
        <3>1. Debt(k, t) = Debt(k, stack)
            BY Returned
        <3>2. Debt(k, <<>>) = 0
            BY DebtOfNone
        <3> HIDE DEF t
        <3> QED
            BY <1>1, <3>1, <3>2
    <2>3. Level(k, db) \in Int
        BY LevelType DEF IInv, Balanced
    <2> QED
        BY <2>1, <2>2, <2>3
<1>5. Numbered(db, <<>>)
    BY <1>1, Returned DEF IInv, Balanced, Numbered
<1> QED
    BY <1>1, <1>3, <1>4, <1>5 DEF Return, IInv, Balanced

\* An action that is one step.
LEMMA AloneStep ==
    ASSUME IInv, NEW after, db' = after, committed' = after, stack = <<>>, stack' = stack,
           TablesOK(after), Even(after), Numbered(after, <<>>)
    PROVE  IInv'
BY BalancedAlone DEF IInv

\* A transaction begins.
LEMMA SubmitStep ==
    ASSUME IInv, NEW m \in Sendable \cup Settles, Submit(m),
           m \in Starts, m \notin Swaps
    PROVE  IInv'
<1> DEFINE f == Frame(m)
           u == <<f>> \o <<>>
<1>1. stack = <<>> /\ stack' = <<f>> /\ db' = db /\ committed' = committed /\ db = committed
    BY DEF Submit, IInv, Balanced
<1>2. \A k \in Gauge : FrameOK(f) /\ Owed(k, f) = Weight(k, m)
    BY FrameStarts
<1>3. f \in GoodFrame
    <2>1. [of |-> "backed", user |-> NoName, data |-> NoData] \in Gauge
        BY DEF Gauge, Count
    <2>2. FrameOK(f)
        BY <1>2, <2>1
    <2> QED
        BY <2>2 DEF GoodFrame, FrameOK
<1>4. Waiting(f) = {m}
    BY DEF Waiting, Frame
<1> HIDE DEF f
<1>5. <<>> \in Seq(GoodFrame) /\ <<f>> \in Seq(GoodFrame) /\ u = <<f>>
    BY <1>3, EmptySeq, ConcatEmptySeq
<1>6. /\ u \in Seq(GoodFrame) /\ u # <<>>
      /\ AllWaiting(u) = Waiting(f) \cup AllWaiting(<<>>)
      /\ \A k \in Gauge : Debt(k, u) = Owed(k, f) + Debt(k, <<>>)
    BY <1>3, <1>5, Pushed
<1>7. First(u) = m
    <2>1. f.act = m
        BY DEF f, Frame
    <2> QED
        BY <1>3, <1>5, <2>1, FirstOfStack
<1>8. Covered(db, u, committed)
    <2> SUFFICES ASSUME NEW k \in Gauge
                 PROVE  Level(k, db) + Debt(k, u) = Level(k, committed) + Due(k, u)
        BY DEF Covered
    <2>1. Debt(k, u) = Weight(k, m)
        BY <1>2, <1>6, DebtOfNone, WeightType
    <2>2. Due(k, u) = Weight(k, m)
        BY <1>6, <1>7 DEF Due
    <2> QED
        BY <1>1, <2>1, <2>2
<1>9. Pending(u) = {}
    <2>1. AllWaiting(u) = {m}
        BY <1>4, <1>6 DEF AllWaiting
    <2> QED
        BY <2>1 DEF Pending, Named
<1>10. Numbered(db, u)
    BY <1>1, <1>9, PendingNone DEF IInv, Balanced, Numbered
<1>11. Balanced(db, u, committed)
    BY <1>6, <1>7, <1>8, <1>10 DEF IInv, Balanced
<1> QED
    BY <1>1, <1>5, <1>11 DEF IInv

-----------------------------------------------------------------------------
\* Who executes: the contract itself first, then those it notified.

\* The top frame, whoever executes it, is in order.
LEMMA FirstIsCode ==
    ASSUME IInv, NEW r, Executes(r)
    PROVE  /\ stack # <<>> /\ FrameOK(Head(stack)) /\ Head(stack) \in Frames
           /\ Head(stack).done < Len(Head(stack).receivers) /\ r \in Account
           /\ Act \in Sendable \cup Settles
           /\ Head(stack).receivers[Head(stack).done + 1] = r
           /\ Lists(Told, Act.code)
           /\ r = Act.code <=> Head(stack).done = 0
<1> DEFINE f == Head(stack)
<1>1. stack # <<>> /\ f.done < Len(f.receivers) /\ f.receivers[f.done + 1] = r
    BY DEF Executes
<1>2. FrameOK(f) /\ f \in Frames
    BY <1>1, TopOfStack DEF IInv, Balanced
<1> HIDE DEF f
<1>3. /\ f.act \in Sendable \cup Settles /\ f.done \in Nat /\ f.receivers \in Seq(Account)
      /\ DOMAIN f.receivers = 1 .. Len(f.receivers) /\ Len(f.receivers) \in Nat
    BY <1>2, LenProperties DEF Frames
<1>4. f.done + 1 \in DOMAIN f.receivers /\ 1 \in DOMAIN f.receivers
    BY <1>1, <1>3
<1>5. r \in Account
    BY <1>1, <1>3, <1>4, ElementOfSeq
<1>6. Lists(f.receivers, f.act.code)
    BY <1>2, <1>3 DEF FrameOK, ToldOnce, Lists
<1>7. r = f.act.code <=> f.done = 0
    BY <1>1, <1>3, <1>4, <1>6 DEF Lists
<1> QED
    BY <1>1, <1>2, <1>3, <1>5, <1>6, <1>7 DEF f, Act, Told

\* What a handler leaves if its checks hold, in the two cases.
LEMMA RunHandled ==
    ASSUME IInv, NEW r, Executes(r), Act.code = r,
           NEW checks, NEW e, NEW receivers, NEW s, Handle(checks, e, receivers, s),
           checks => RunOK(Head(stack), db, e, receivers, s)
    PROVE  IInv'
<1>1. CASE ~checks
    BY <1>1, RevertStep DEF Handle
<1>2. CASE checks
    <2>1. stack # <<>> /\ Head(stack).done = 0
        BY FirstIsCode
    <2>2. Balanced(e, <<Executed(Head(stack), receivers, s)>> \o Tail(stack), committed)
        BY <1>2, <2>1, RunStep DEF IInv
    <2>3. /\ db' = e /\ committed' = committed
          /\ stack' = <<Executed(Head(stack), receivers, s)>> \o Tail(stack)
        BY <1>2 DEF Handle
    <2> QED
        BY <2>2, <2>3 DEF IInv
<1> QED
    BY <1>1, <1>2

\* The same of an account that is notified.
LEMMA NotifiedHandled ==
    ASSUME IInv, NEW r, Notified(r),
           NEW checks, NEW e, NEW s, Handle(checks, e, Told, s),
           checks => NotifiedOK(Head(stack), db, e, s)
    PROVE  IInv'
<1>1. CASE ~checks
    BY <1>1, RevertStep DEF Handle
<1>2. CASE checks
    <2>1. stack # <<>> /\ Head(stack).done # 0 /\ Head(stack).done < Len(Head(stack).receivers)
        BY FirstIsCode DEF Notified
    <2>2. Balanced(e, <<Executed(Head(stack), Head(stack).receivers, s)>> \o Tail(stack), committed)
        BY <1>2, <2>1, NotifiedStep DEF IInv
    <2>3. /\ db' = e /\ committed' = committed
          /\ stack' = <<Executed(Head(stack), Head(stack).receivers, s)>> \o Tail(stack)
        BY <1>2 DEF Handle, Told
    <2> QED
        BY <2>2, <2>3 DEF IInv
<1> QED
    BY <1>1, <1>2

-----------------------------------------------------------------------------
\* Which action it is.

\* The contract and the name of an action say which message it is.
LEMMA MessageKinds ==
    ASSUME NEW m \in Sendable \cup Settles
    PROVE  /\ m.code = tokenAccount /\ m.name = "transfer" => m \in TokenTransfers
           /\ m.code = xtokenAccount /\ m.name = "transfer" => m \in XTokenTransfers
           /\ m.code = xtokenAccount /\ m.name = "mint" => m \in Mints
           /\ m.code = xtokenAccount /\ m.name = "burn" => m \in Burns
           /\ m.code = other => m \in Imitations
           /\ m.code = adapter /\ m.name = "settle" => m \in Settles
           /\ m.code = adapter /\ m.name = "swap" => m \in Swaps
<1>1. m \in TokenTransfers => m.code = tokenAccount /\ m.name = "transfer"
    BY DEF TokenTransfers, Moves
<1>2. m \in XTokenTransfers => m.code = xtokenAccount /\ m.name = "transfer"
    BY DEF XTokenTransfers, Moves
<1>3. m \in Mints => m.code = xtokenAccount /\ m.name = "mint"
    BY DEF Mints, Moves
<1>4. m \in Burns => m.code = xtokenAccount /\ m.name = "burn"
    BY DEF Burns, Moves
<1>5. m \in Imitations => m.code = other /\ m.name = "transfer"
    BY DEF Imitations, Moves
<1>6. m \in Swaps => m.code = adapter /\ m.name = "swap"
    BY DEF Swaps
<1>7. m \in Settles => m.code = adapter /\ m.name = "settle"
    BY DEF Settles
<1>8. /\ tokenAccount # xtokenAccount /\ tokenAccount # other /\ xtokenAccount # other
      /\ adapter \notin {tokenAccount, xtokenAccount, other}
    BY AccountsAssumption
<1>9. \/ m \in TokenTransfers \/ m \in XTokenTransfers \/ m \in Mints \/ m \in Burns
      \/ m \in Imitations \/ m \in Swaps \/ m \in Settles
    BY DEF Sendable
<1> QED
    BY <1>1, <1>2, <1>3, <1>4, <1>5, <1>6, <1>7, <1>8, <1>9

\* No action is of two kinds.
LEMMA OneKind ==
    ASSUME NEW m
    PROVE  /\ m \in TokenTransfers =>
                m \notin XTokenTransfers \cup Mints \cup Burns \cup Imitations \cup Swaps \cup Settles
           /\ m \in XTokenTransfers =>
                m \notin TokenTransfers \cup Mints \cup Burns \cup Imitations \cup Swaps \cup Settles
           /\ m \in Mints =>
                m \notin TokenTransfers \cup XTokenTransfers \cup Burns \cup Imitations \cup Swaps \cup Settles
           /\ m \in Burns =>
                m \notin TokenTransfers \cup XTokenTransfers \cup Mints \cup Imitations \cup Swaps \cup Settles
           /\ m \in Imitations =>
                m \notin TokenTransfers \cup XTokenTransfers \cup Mints \cup Burns \cup Swaps \cup Settles
           /\ m \in Swaps =>
                m \notin TokenTransfers \cup XTokenTransfers \cup Mints \cup Burns \cup Imitations \cup Settles
           /\ m \in Settles =>
                m \notin TokenTransfers \cup XTokenTransfers \cup Mints \cup Burns \cup Imitations \cup Swaps
<1>1. m \in TokenTransfers => m.code = tokenAccount /\ m.name = "transfer"
    BY DEF TokenTransfers, Moves
<1>2. m \in XTokenTransfers => m.code = xtokenAccount /\ m.name = "transfer"
    BY DEF XTokenTransfers, Moves
<1>3. m \in Mints => m.code = xtokenAccount /\ m.name = "mint"
    BY DEF Mints, Moves
<1>4. m \in Burns => m.code = xtokenAccount /\ m.name = "burn"
    BY DEF Burns, Moves
<1>5. m \in Imitations => m.code = other /\ m.name = "transfer"
    BY DEF Imitations, Moves
<1>6. m \in Swaps => m.code = adapter /\ m.name = "swap"
    BY DEF Swaps
<1>7. m \in Settles => m.code = adapter /\ m.name = "settle"
    BY DEF Settles
<1>8. /\ tokenAccount # xtokenAccount /\ tokenAccount # other /\ xtokenAccount # other
      /\ adapter \notin {tokenAccount, xtokenAccount, other}
    BY AccountsAssumption
<1> QED
    BY <1>1, <1>2, <1>3, <1>4, <1>5, <1>6, <1>7, <1>8

\* The fields of actions that move tokens.
LEMMA MoveFields ==
    ASSUME NEW m \in TokenTransfers \cup XTokenTransfers \cup Mints \cup Burns \cup Imitations
    PROVE  /\ m.from \in Account /\ m.to \in Account /\ m.amount \in Int /\ m.memo \in AnyMemo
           /\ m \in TokenTransfers \cup XTokenTransfers => m.name = "transfer"
           /\ m \in Mints => m.name = "mint" /\ m.from \in {adapter, lockbox}
           /\ m \in Burns => m.name = "burn" /\ m.from \in {adapter, lockbox}
           /\ m \in Imitations => m.name = "transfer"
<1>1. m \in TokenTransfers \cup XTokenTransfers =>
        m.from \in Account /\ m.to \in Account /\ m.amount \in Int /\ m.memo \in AnyMemo /\ m.name = "transfer"
    BY DEF TokenTransfers, XTokenTransfers, Moves
<1>2. m \in Mints =>
        /\ m.from \in {adapter, lockbox} /\ m.to \in Account /\ m.amount \in Int /\ m.memo \in AnyMemo
        /\ m.name = "mint"
    BY DEF Mints, Moves
<1>3. m \in Burns =>
        /\ m.from \in {adapter, lockbox} /\ m.to \in Account /\ m.amount \in Int /\ m.memo \in AnyMemo
        /\ m.name = "burn"
    BY DEF Burns, Moves
<1>4. m \in Imitations =>
        m.from \in Account /\ m.to \in Account /\ m.amount \in Int /\ m.memo \in AnyMemo /\ m.name = "transfer"
    BY DEF Imitations, Moves
<1> QED
    BY <1>1, <1>2, <1>3, <1>4, AccountFacts, OneKind

-----------------------------------------------------------------------------
\* One table changes.

\* The tables with one of them replaced, written out.
LEMMA Replaced ==
    ASSUME NEW d, TablesOK(d), NEW v
    PROVE  /\ [d EXCEPT !.token = v] =
                [token |-> v, xtoken |-> d.xtoken, lockbox |-> d.lockbox,
                 adapter |-> d.adapter, pam |-> d.pam, events |-> d.events]
           /\ [d EXCEPT !.xtoken = v] =
                [token |-> d.token, xtoken |-> v, lockbox |-> d.lockbox,
                 adapter |-> d.adapter, pam |-> d.pam, events |-> d.events]
           /\ [d EXCEPT !.lockbox = v] =
                [token |-> d.token, xtoken |-> d.xtoken, lockbox |-> v,
                 adapter |-> d.adapter, pam |-> d.pam, events |-> d.events]
           /\ [d EXCEPT !.adapter = v] =
                [token |-> d.token, xtoken |-> d.xtoken, lockbox |-> d.lockbox,
                 adapter |-> v, pam |-> d.pam, events |-> d.events]
           /\ [d EXCEPT !.events = v] =
                [token |-> d.token, xtoken |-> d.xtoken, lockbox |-> d.lockbox,
                 adapter |-> d.adapter, pam |-> d.pam, events |-> v]
<1> DEFINE a == d.token
           b == d.xtoken
           c == d.lockbox
           f == d.adapter
           g == d.pam
           h == d.events
<1>1. d = [token |-> a, xtoken |-> b, lockbox |-> c, adapter |-> f, pam |-> g, events |-> h]
    BY DEF TablesOK
<1> HIDE DEF a, b, c, f, g, h
<1>2. /\ [d EXCEPT !.token = v] =
            [token |-> v, xtoken |-> b, lockbox |-> c, adapter |-> f, pam |-> g, events |-> h]
      /\ [d EXCEPT !.xtoken = v] =
            [token |-> a, xtoken |-> v, lockbox |-> c, adapter |-> f, pam |-> g, events |-> h]
      /\ [d EXCEPT !.lockbox = v] =
            [token |-> a, xtoken |-> b, lockbox |-> v, adapter |-> f, pam |-> g, events |-> h]
      /\ [d EXCEPT !.adapter = v] =
            [token |-> a, xtoken |-> b, lockbox |-> c, adapter |-> v, pam |-> g, events |-> h]
      /\ [d EXCEPT !.events = v] =
            [token |-> a, xtoken |-> b, lockbox |-> c, adapter |-> f, pam |-> g, events |-> v]
    BY <1>1
<1> QED
    BY <1>2 DEF a, b, c, f, g, h

\* Levels, from the parts they read.
LEMMA SameRecords ==
    ASSUME NEW d, NEW e, e.adapter.past = d.adapter.past, e.events = d.events
    PROVE  /\ SettledUnits(e) = SettledUnits(d) /\ SwappedUnits(e) = SwappedUnits(d)
           /\ \A k : Taken(k, e) = Taken(k, d)
           /\ Numbers(e) = Numbers(d)
<1>1. SettledEvents(e) = SettledEvents(d)
    BY DEF SettledEvents
<1> QED
    BY <1>1 DEF SettledUnits, SwappedUnits, Taken, Numbers

\* Gauges, when the tables of the underlying token are replaced.
LEMMA TokenChanged ==
    ASSUME NEW d, TablesOK(d), NEW v \in TokenTables
    PROVE  LET e == [d EXCEPT !.token = v]
           IN  /\ TablesOK(e) /\ e.adapter = d.adapter /\ e.events = d.events
               /\ e.token = v /\ e.xtoken = d.xtoken
               /\ \A k \in Count : Level(k, e) = Level(k, d) +
                     IF k.of = "backed"
                     THEN d.token.rows[lockbox].balance - v.rows[lockbox].balance
                     ELSE IF k.of = "adapter"
                     THEN v.rows[adapter].balance - d.token.rows[adapter].balance ELSE 0
<1> DEFINE e == [d EXCEPT !.token = v]
<1>1. e = [token |-> v, xtoken |-> d.xtoken, lockbox |-> d.lockbox,
           adapter |-> d.adapter, pam |-> d.pam, events |-> d.events]
    BY Replaced
<1> HIDE DEF e
<1>2. TablesOK(e) /\ e.adapter = d.adapter /\ e.events = d.events /\ e.xtoken = d.xtoken /\ e.token = v
    BY <1>1 DEF TablesOK
<1>3. ASSUME NEW k \in Count
      PROVE  Level(k, e) = Level(k, d) +
                     IF k.of = "backed"
                     THEN d.token.rows[lockbox].balance - v.rows[lockbox].balance
                     ELSE IF k.of = "adapter"
                     THEN v.rows[adapter].balance - d.token.rows[adapter].balance ELSE 0
    <2>1. SettledUnits(e) = SettledUnits(d) /\ SwappedUnits(e) = SwappedUnits(d) /\ Taken(k, e) = Taken(k, d)
        BY <1>2, SameRecords
    <2>2. Level(k, d) \in Int /\ SettledUnits(d) \in Int /\ SwappedUnits(d) \in Int /\ d.xtoken.supply \in Int
        BY LevelType, CountKinds, SettledUnitsType, SwappedSum DEF TablesOK, XTokenOK
    <2>3. /\ d.token.rows[lockbox].balance \in Int /\ e.token.rows[lockbox].balance \in Int
          /\ d.token.rows[adapter].balance \in Int /\ e.token.rows[adapter].balance \in Int
        BY <1>2, BalanceTypes, AccountFacts
    <2>4. CASE k.of = "backed"
        BY CountKinds, <1>2, <2>1, <2>2, <2>3, <2>4 DEF Level
    <2>5. CASE k.of = "adapter"
        BY CountKinds, <1>2, <2>3, <2>5 DEF Level
    <2>6. CASE k.of \notin {"backed", "adapter"}
        <3>1. Level(k, e) = Level(k, d)
            BY CountKinds, <1>2, <2>1, <2>6 DEF Level
        <3> QED
            BY <2>2, <2>6, <3>1
    <2> QED
        BY <2>4, <2>5, <2>6
<1> QED
    BY <1>2, <1>3 DEF e

\* Gauges, when the tables of the xERC20 token are replaced.
LEMMA XTokenChanged ==
    ASSUME NEW d, TablesOK(d), NEW v, XTokenOK(v)
    PROVE  LET e == [d EXCEPT !.xtoken = v]
           IN  /\ TablesOK(e) /\ e.adapter = d.adapter /\ e.events = d.events
               /\ e.token = d.token /\ e.xtoken = v
               /\ \A k \in Count : Level(k, e) = Level(k, d) +
                     IF k.of = "backed" THEN v.supply - d.xtoken.supply
                     ELSE IF k.of = "xadapter"
                     THEN v.rows[adapter].balance - d.xtoken.rows[adapter].balance
                     ELSE IF k.of = "lockbox"
                     THEN v.rows[lockbox].balance - d.xtoken.rows[lockbox].balance ELSE 0
<1> DEFINE e == [d EXCEPT !.xtoken = v]
<1>1. e = [token |-> d.token, xtoken |-> v, lockbox |-> d.lockbox,
           adapter |-> d.adapter, pam |-> d.pam, events |-> d.events]
    BY Replaced
<1> HIDE DEF e
<1>2. TablesOK(e) /\ e.adapter = d.adapter /\ e.events = d.events /\ e.xtoken = v /\ e.token = d.token
    BY <1>1 DEF TablesOK
<1>3. ASSUME NEW k \in Count
      PROVE  Level(k, e) = Level(k, d) +
                     IF k.of = "backed" THEN v.supply - d.xtoken.supply
                     ELSE IF k.of = "xadapter"
                     THEN v.rows[adapter].balance - d.xtoken.rows[adapter].balance
                     ELSE IF k.of = "lockbox"
                     THEN v.rows[lockbox].balance - d.xtoken.rows[lockbox].balance ELSE 0
    <2>1. SettledUnits(e) = SettledUnits(d) /\ SwappedUnits(e) = SwappedUnits(d) /\ Taken(k, e) = Taken(k, d)
        BY <1>2, SameRecords
    <2>2. /\ Level(k, d) \in Int /\ SettledUnits(d) \in Int /\ SwappedUnits(d) \in Int
          /\ d.xtoken.supply \in Int /\ v.supply \in Int
        BY LevelType, CountKinds, SettledUnitsType, SwappedSum DEF TablesOK, XTokenOK
    <2>3. /\ d.xtoken.rows[lockbox].balance \in Int /\ e.xtoken.rows[lockbox].balance \in Int
          /\ d.xtoken.rows[adapter].balance \in Int /\ e.xtoken.rows[adapter].balance \in Int
          /\ d.token.rows[lockbox].balance \in Int
        BY <1>2, BalanceTypes, AccountFacts
    <2>4. CASE k.of = "backed"
        BY CountKinds, <1>2, <2>1, <2>2, <2>3, <2>4 DEF Level
    <2>5. CASE k.of = "xadapter"
        BY CountKinds, <1>2, <2>3, <2>5 DEF Level
    <2>6. CASE k.of = "lockbox"
        BY CountKinds, <1>2, <2>3, <2>6 DEF Level
    <2>7. CASE k.of \notin {"backed", "xadapter", "lockbox"}
        <3>1. Level(k, e) = Level(k, d)
            BY CountKinds, <1>2, <2>1, <2>7 DEF Level
        <3> QED
            BY <2>2, <2>7, <3>1
    <2> QED
        BY <2>4, <2>5, <2>6, <2>7
<1> QED
    BY <1>2, <1>3 DEF e

\* Meters, when neither events nor settlements are added.
LEMMA MetersKept ==
    ASSUME NEW k \in Meter, Contracts = {}, NEW d, TablesOK(d), NEW e, TablesOK(e),
           e.adapter.past = d.adapter.past, e.events = d.events
    PROVE  Level(k, e) = Level(k, d) +
             IF k.of = "wallet" THEN Balance(e, k.user) - Balance(d, k.user) ELSE 0
<1>1. SwappedUnits(e) = SwappedUnits(d) /\ SettledEvents(e) = SettledEvents(d)
    BY SameRecords DEF SettledEvents
<1>2. IsMeter(k) /\ k \in Gauge
    BY MeterKinds DEF Gauge
<1>3. Level(k, d) \in Int
    BY <1>2, LevelType
<1>4. CASE k.of = "wallet"
    <2>1. k.user \in Account
        BY <1>4, WalletMeters
    <2>2. Balance(d, k.user) \in Int /\ Balance(e, k.user) \in Int
        BY <2>1, BalanceTypes DEF Balance
    <2> QED
        BY <1>2, <1>4, <2>2 DEF Level, MeterLevel
<1>5. CASE k.of # "wallet"
    <2>1. Level(k, e) = Level(k, d)
        BY <1>1, <1>2, <1>5 DEF Level, MeterLevel
    <2> QED
        BY <1>3, <1>5, <2>1
<1> QED
    BY <1>4, <1>5

-----------------------------------------------------------------------------
\* Rows.

\* A transfer moves its amount from row to row and no other row changes.
LEMMA RowsMoved ==
    ASSUME NEW rows \in XTokenRows, NEW from \in Account, NEW to \in Account, from # to,
           NEW value \in Int, NEW payer \in Account
    PROVE  LET moved == T!Move(rows, from, to, value, payer)
           IN  /\ X!Move(rows, from, to, value, payer) = moved
               /\ moved \in XTokenRows
               /\ moved[from].balance = rows[from].balance - value
               /\ moved[to].balance = rows[to].balance + value
               /\ \A a \in Account \ {from, to} : moved[a] = rows[a]
<1> DEFINE sub == [payer |-> from, balance |-> rows[from].balance - value]
           half == [rows EXCEPT ![from] = sub]
           add == [payer |-> IF half[to].payer # NoName THEN half[to].payer ELSE payer,
                   balance |-> half[to].balance + value]
           moved == [half EXCEPT ![to] = add]
<1>1. T!Move(rows, from, to, value, payer) = moved
    BY DEF T!Move, T!AddBalance, T!SubBalance, T!HasRow
<1>2. X!Move(rows, from, to, value, payer) = moved
    BY DEF X!Move, X!AddBalance, X!SubBalance, X!HasRow
<1>3. rows[from].balance \in Int /\ rows[to].balance \in Int /\ rows[to].payer \in Account \cup {NoName}
    BY DEF XTokenRows
<1>4. sub \in [payer: Account \cup {NoName}, balance: Int]
    BY <1>3
<1>5. half \in XTokenRows /\ half[to] = rows[to] /\ half[from] = sub
    <2> HIDE DEF sub
    <2> QED
        BY <1>4 DEF XTokenRows
<1>6. add \in [payer: Account \cup {NoName}, balance: Int] /\ add.balance = rows[to].balance + value
    <2> HIDE DEF half
    <2> QED
        BY <1>3, <1>5
<1>7. /\ moved \in XTokenRows /\ moved[to] = add /\ moved[from] = half[from]
      /\ \A a \in Account \ {from, to} : moved[a] = rows[a]
    <2>1. \A a \in Account \ {from} : half[a] = rows[a]
        BY DEF XTokenRows
    <2> HIDE DEF add, half
    <2> QED
        BY <1>5, <1>6, <2>1 DEF XTokenRows
<1> HIDE DEF moved, add, half
<1> QED
    BY <1>1, <1>2, <1>5, <1>6, <1>7

\* Tokens are added to one row.
LEMMA RowsPaid ==
    ASSUME NEW rows \in XTokenRows, NEW to \in Account, NEW value \in Int, NEW payer \in Account
    PROVE  LET paid == X!AddBalance(rows, to, value, payer)
           IN  /\ paid \in XTokenRows
               /\ paid[to].balance = rows[to].balance + value
               /\ \A a \in Account \ {to} : paid[a] = rows[a]
<1> DEFINE row == [payer |-> IF rows[to].payer # NoName THEN rows[to].payer ELSE payer,
                   balance |-> rows[to].balance + value]
<1>1. X!AddBalance(rows, to, value, payer) = [rows EXCEPT ![to] = row]
    BY DEF X!AddBalance, X!HasRow
<1>2. row \in [payer: Account \cup {NoName}, balance: Int] /\ row.balance = rows[to].balance + value
    BY DEF XTokenRows
<1> HIDE DEF row
<1> QED
    BY <1>1, <1>2 DEF XTokenRows

\* Tokens are taken from one row.
LEMMA RowsTaken ==
    ASSUME NEW rows \in XTokenRows, NEW from \in Account, NEW value \in Int
    PROVE  LET left == X!SubBalance(rows, from, value)
           IN  /\ left \in XTokenRows
               /\ left[from].balance = rows[from].balance - value
               /\ \A a \in Account \ {from} : left[a] = rows[a]
<1> DEFINE row == [payer |-> from, balance |-> rows[from].balance - value]
<1>1. X!SubBalance(rows, from, value) = [rows EXCEPT ![from] = row]
    BY DEF X!SubBalance
<1>2. row \in [payer: Account \cup {NoName}, balance: Int] /\ row.balance = rows[from].balance - value
    BY DEF XTokenRows
<1> HIDE DEF row
<1> QED
    BY <1>1, <1>2 DEF XTokenRows

-----------------------------------------------------------------------------
\* The tokens' own actions.

\* An action that sends nothing and changes no number and no event.
LEMMA PlainRun ==
    ASSUME IInv, Act \in Sendable \cup Settles, Act \notin Swaps,
           NEW e, TablesOK(e), e.adapter = db.adapter, e.events = db.events,
           NEW receivers, Lists(receivers, Act.code),
           \A k \in Gauge : \A r \in {adapter, lockbox} :
               Share(k, r, Act) # 0 => r # Act.code /\ Has(receivers, r),
           \A k \in Gauge : Level(k, e) = Level(k, db) + Effect(k, Act)
    PROVE  RunOK(Head(stack), db, e, receivers, <<>>)
<1> DEFINE f == Head(stack)
<1>1. f.act = Act
    BY DEF Act
<1>2. TablesOK(db) /\ db.adapter.nonce \in Nat
    BY DEF IInv, Balanced, TablesOK, AdapterTables
<1>3. Extends(e, db)
    BY <1>2, ExtendsItself DEF Extends
<1>4. Numbers(e) = Numbers(db)
    BY SameRecords
<1>5. Named(Members(<<>>)) = {} /\ Named({f.act}) = {}
    BY <1>1 DEF Named, Members
<1>6. db.adapter.nonce .. e.adapter.nonce - 1 = {} /\ db.adapter.nonce <= e.adapter.nonce
    BY <1>2
<1>7. ASSUME NEW k \in Gauge
      PROVE  Level(k, e) + Total(Weights(k, <<>>)) = Level(k, db) + Effect(k, f.act)
    <2>1. Total(Weights(k, <<>>)) = 0
        BY WeightsOfNone
    <2>2. Level(k, e) = Level(k, db) + Effect(k, f.act)
        BY <1>1
    <2>3. Level(k, e) \in Int
        BY LevelType
    <2> HIDE DEF f
    <2> QED
        BY <2>1, <2>2, <2>3
<1>8. <<>> \in Seq(Sendable)
    BY EmptySeq
<1>9. \A k \in Gauge : \A r \in {adapter, lockbox} :
        Share(k, r, f.act) # 0 => r # f.act.code /\ Has(receivers, r)
    BY <1>1
<1>10. Lists(receivers, f.act.code)
    BY <1>1
<1>11. Numbers(e) \cup Named(Members(<<>>))
        = Numbers(db) \cup Named({f.act}) \cup (db.adapter.nonce .. e.adapter.nonce - 1)
    BY <1>4, <1>5, <1>6
<1> HIDE DEF f
<1> QED
    BY <1>3, <1>6, <1>7, <1>8, <1>9, <1>10, <1>11 DEF RunOK, f

\* Meters, when a token's contract has accepted the quantity and changed the
\* balances.
LEMMA MetersRun ==
    ASSUME IInv, Act \in TokenTransfers \cup XTokenTransfers \cup Mints \cup Burns,
           Act.name = "mint" \/ Act.amount \in 1 .. MaxAmount,
           NEW e, TablesOK(e), e.adapter = db.adapter, e.events = db.events,
           \A a \in Account : Balance(e, a) = Balance(db, a) + Gain(Act, a)
    PROVE  \A k \in Meter : Contracts = {} => Level(k, e) = Level(k, db) + Effect(k, Act)
<1> SUFFICES ASSUME NEW k \in Meter, Contracts = {}
             PROVE  Level(k, e) = Level(k, db) + Effect(k, Act)
    OBVIOUS
<1>1. Refused(Act) = 0
    <2>1. Act.name = "mint" \/ ~(Act.amount <= 0 \/ Act.amount > MaxAmount)
        BY AssetsAssumption
    <2> QED
        BY <2>1 DEF Refused
<1>2. Effect(k, Act) = IF k.of = "wallet" THEN Gain(Act, k.user) ELSE 0
    BY <1>1, MeterKinds DEF Effect, MeterEffect
<1>3. TablesOK(db)
    BY DEF IInv, Balanced
<1>4. Level(k, e) = Level(k, db) + IF k.of = "wallet" THEN Balance(e, k.user) - Balance(db, k.user) ELSE 0
    BY <1>3, MetersKept
<1>5. k.of = "wallet" => Balance(e, k.user) - Balance(db, k.user) = Gain(Act, k.user)
    <2>1. SUFFICES ASSUME k.of = "wallet"
                   PROVE  Balance(e, k.user) - Balance(db, k.user) = Gain(Act, k.user)
        OBVIOUS
    <2>2. k.user \in Account
        BY <2>1, WalletMeters
    <2>3. Balance(db, k.user) \in Int
        BY <1>3, <2>2, BalanceTypes DEF Balance
    <2>4. Gain(Act, k.user) \in Int
        <3>1. Act.amount \in Int
            BY MoveFields
        <3> QED
            BY <3>1 DEF Gain
    <2> QED
        BY <2>2, <2>3, <2>4
<1> QED
    BY <1>2, <1>4, <1>5

\* transfer of the underlying token (eosio.token.cpp).
LEMMA TokenTransferStep == IInv /\ TokenTransfer => IInv'
<1> SUFFICES ASSUME IInv, TokenTransfer PROVE IInv'
    OBVIOUS
<1> DEFINE m == Act
           v == T!Transferred(db.token, {m.from}, m.from, m.to, m.amount)
           checks == /\ m.symbol = TokenSymbol
                     /\ T!CanTransfer(db.token, {m.from}, m.from, m.to, m.amount)
           receivers == NotifyBoth(Told, m.from, m.to)
           e == [db EXCEPT !.token = v]
<1>1. /\ Executes(tokenAccount) /\ m.code = tokenAccount /\ m.name = "transfer"
      /\ Handle(checks, e, receivers, <<>>)
    BY DEF TokenTransfer, Runs
<1>2. m \in Sendable \cup Settles /\ Lists(Told, m.code)
    BY <1>1, FirstIsCode
<1> HIDE DEF m
<1>3. m \in TokenTransfers
    BY <1>1, <1>2, MessageKinds
<1>4. m.from \in Account /\ m.to \in Account /\ m.amount \in Int /\ m.name = "transfer"
    BY <1>3, MoveFields
<1>5. Lists(receivers, m.code) /\ Has(receivers, m.to)
    BY <1>2, <1>4, BothLists
<1>6. ASSUME checks PROVE RunOK(Head(stack), db, e, receivers, <<>>)
    <2>1. m.from # m.to
        BY <1>6 DEF T!CanTransfer
    <2>2. TablesOK(db) /\ db.token \in TokenTables /\ db.token.rows \in XTokenRows
        BY DEF IInv, Balanced, TablesOK, TokenTables, XTokenRows
    <2> DEFINE rows == T!Move(db.token.rows, m.from, m.to, m.amount, m.from)
    <2>3. /\ rows \in XTokenRows
          /\ rows[m.from].balance = db.token.rows[m.from].balance - m.amount
          /\ rows[m.to].balance = db.token.rows[m.to].balance + m.amount
          /\ \A a \in Account \ {m.from, m.to} : rows[a] = db.token.rows[a]
        BY <1>4, <2>1, <2>2, RowsMoved
    <2>4. v = [db.token EXCEPT !.rows = rows]
        BY DEF T!Transferred, T!TransferPayer
    <2> HIDE DEF rows, v
    <2>5. v \in TokenTables /\ v.rows = rows
        BY <2>2, <2>3, <2>4 DEF TokenTables, XTokenRows
    <2>6. ASSUME NEW a \in Account
          PROVE  v.rows[a].balance = db.token.rows[a].balance + Gain(m, a)
        <3>1. a \in Account /\ db.token.rows[a].balance \in Int
            BY <2>2, AccountFacts, BalanceTypes
        <3>2. CASE a = m.from
            BY <1>4, <2>3, <2>5, <3>1, <3>2 DEF Gain
        <3>3. CASE a = m.to
            BY <1>4, <2>1, <2>3, <2>5, <3>1, <3>3 DEF Gain
        <3>4. CASE a \notin {m.from, m.to}
            BY <1>4, <2>3, <2>5, <3>1, <3>4 DEF Gain
        <3> QED
            BY <3>2, <3>3, <3>4
    <2>7. /\ TablesOK(e) /\ e.adapter = db.adapter /\ e.events = db.events
          /\ e.token = v /\ e.xtoken = db.xtoken
          /\ \A k \in Count : Level(k, e) = Level(k, db) +
                     IF k.of = "backed"
                     THEN db.token.rows[lockbox].balance - v.rows[lockbox].balance
                     ELSE IF k.of = "adapter"
                     THEN v.rows[adapter].balance - db.token.rows[adapter].balance ELSE 0
        BY <2>2, <2>5, TokenChanged
    <2> HIDE DEF e
    <2>8. ASSUME NEW k \in Count PROVE Level(k, e) = Level(k, db) + Effect(k, m)
        <3>1. ~IsMeter(k) /\ adapter \in Account /\ lockbox \in Account
            BY CountKinds, AccountFacts
        <3>2. /\ db.token.rows[lockbox].balance \in Int /\ db.token.rows[adapter].balance \in Int
              /\ Gain(m, adapter) \in Int /\ Gain(m, lockbox) \in Int
            BY <1>4, <2>2, AccountFacts, BalanceTypes DEF Gain
        <3>3. Effect(k, m) = IF k.of = "backed" THEN -Gain(m, lockbox)
                           ELSE IF k.of = "adapter" THEN Gain(m, adapter) ELSE 0
            BY <3>1, <1>3 DEF Effect
        <3>4. CASE k.of = "backed"
            BY <3>1, <3>3, <2>6, <2>7, <3>2, <3>4
        <3>5. CASE k.of = "adapter"
            BY <3>1, <3>3, <2>6, <2>7, <3>2, <3>5
        <3>6. CASE k.of \notin {"backed", "adapter"}
            BY <3>1, <3>3, <2>7, <3>6
        <3> QED
            BY <3>4, <3>5, <3>6
    <2>9. ASSUME NEW k \in Gauge, NEW r \in {adapter, lockbox}, Share(k, r, m) # 0
          PROVE  r # m.code /\ Has(receivers, r)
        <3>1. r = m.to
            BY <1>3, <2>9, OneKind DEF Share
        <3> QED
            BY <1>1, <1>5, <3>1, AccountsAssumption
    <2>10. ASSUME NEW a \in Account PROVE Balance(e, a) = Balance(db, a) + Gain(m, a)
        <3>1. db.token.rows[a].balance \in Int /\ db.xtoken.rows[a].balance \in Int /\ Gain(m, a) \in Int
            BY <1>4, <2>2, BalanceTypes DEF Gain
        <3>2. v.rows[a].balance = db.token.rows[a].balance + Gain(m, a)
            BY <2>6
        <3> QED
            BY <2>7, <3>1, <3>2 DEF Balance
    <2>11. m.amount \in 1 .. MaxAmount
        BY <1>6 DEF T!CanTransfer
    <2>12. ASSUME NEW k \in Gauge PROVE Level(k, e) = Level(k, db) + Effect(k, m)
        BY <1>3, <2>7, <2>8, <2>10, <2>11, GaugeKinds, MetersRun DEF m
    <2>13. m \notin Swaps
        BY <1>3, OneKind
    <2> HIDE DEF receivers
    <2> QED
        BY <1>2, <1>5, <2>7, <2>9, <2>12, <2>13, PlainRun DEF m
<1> HIDE DEF checks, e, receivers
<1>7. Act.code = tokenAccount
    BY <1>1 DEF m
<1> QED
    BY <1>1, <1>6, <1>7, RunHandled

\* Fields of the xERC20 tables.
MintedTables(x, quotas, supply, rows) ==
    [x EXCEPT !.minting = quotas, !.supply = supply, !.rows = rows]

BurnedTables(x, quotas, supply, rows) ==
    [x EXCEPT !.burning = quotas, !.supply = supply, !.rows = rows]

\* What a mint changes, table by table.
LEMMA MintedParts ==
    ASSUME NEW x, XTokenOK(x), NEW rows \in XTokenRows, NEW supply \in Int, NEW quotas
    PROVE  LET v == MintedTables(x, quotas, supply, rows)
           IN  XTokenOK(v) /\ v.rows = rows /\ v.supply = supply
<1> DEFINE a == x.maxSupply
           b == x.bridges
           c == x.lockbox
           f == x.freezer
           g == x.frozen
           h == x.rows
           i == x.supply
           j == x.minting
           l == x.burning
           v == [rows |-> rows, supply |-> supply, maxSupply |-> a, bridges |-> b, minting |-> quotas,
                 burning |-> l, lockbox |-> c, freezer |-> f, frozen |-> g]
<1>1. x = [rows |-> h, supply |-> i, maxSupply |-> a, bridges |-> b, minting |-> j,
           burning |-> l, lockbox |-> c, freezer |-> f, frozen |-> g]
    BY DEF XTokenOK
<1>2. c \in {NoName, lockbox} /\ i \in Int
    BY DEF XTokenOK
<1> HIDE DEF a, b, c, f, g, h, i, j, l
<1> DEFINE y == [rows |-> h, supply |-> i, maxSupply |-> a, bridges |-> b, minting |-> quotas,
                 burning |-> l, lockbox |-> c, freezer |-> f, frozen |-> g]
           z == [rows |-> h, supply |-> supply, maxSupply |-> a, bridges |-> b, minting |-> quotas,
                 burning |-> l, lockbox |-> c, freezer |-> f, frozen |-> g]
<1>3. [x EXCEPT !.minting = quotas] = y
    BY <1>1
<1>4. [y EXCEPT !.supply = supply] = z /\ [z EXCEPT !.rows = rows] = v
    OBVIOUS
<1>5. [x EXCEPT !.minting = quotas, !.supply = supply, !.rows = rows] = v
    <2> HIDE DEF y, z, v
    <2> QED
        BY <1>3, <1>4
<1>6. XTokenOK(v) /\ v.rows = rows /\ v.supply = supply
    BY <1>2 DEF XTokenOK
<1> QED
    BY <1>5, <1>6 DEF i, MintedTables

\* What a burn changes, table by table.
LEMMA BurnedParts ==
    ASSUME NEW x, XTokenOK(x), NEW rows \in XTokenRows, NEW supply \in Int, NEW quotas
    PROVE  LET v == BurnedTables(x, quotas, supply, rows)
           IN  XTokenOK(v) /\ v.rows = rows /\ v.supply = supply
<1> DEFINE a == x.maxSupply
           b == x.bridges
           c == x.lockbox
           f == x.freezer
           g == x.frozen
           h == x.rows
           i == x.supply
           j == x.minting
           l == x.burning
           v == [rows |-> rows, supply |-> supply, maxSupply |-> a, bridges |-> b, minting |-> j,
                 burning |-> quotas, lockbox |-> c, freezer |-> f, frozen |-> g]
<1>1. x = [rows |-> h, supply |-> i, maxSupply |-> a, bridges |-> b, minting |-> j,
           burning |-> l, lockbox |-> c, freezer |-> f, frozen |-> g]
    BY DEF XTokenOK
<1>2. c \in {NoName, lockbox} /\ i \in Int
    BY DEF XTokenOK
<1> HIDE DEF a, b, c, f, g, h, i, j, l
<1> DEFINE y == [rows |-> h, supply |-> i, maxSupply |-> a, bridges |-> b, minting |-> j,
                 burning |-> quotas, lockbox |-> c, freezer |-> f, frozen |-> g]
           z == [rows |-> h, supply |-> supply, maxSupply |-> a, bridges |-> b, minting |-> j,
                 burning |-> quotas, lockbox |-> c, freezer |-> f, frozen |-> g]
<1>3. [x EXCEPT !.burning = quotas] = y
    BY <1>1
<1>4. [y EXCEPT !.supply = supply] = z /\ [z EXCEPT !.rows = rows] = v
    OBVIOUS
<1>5. [x EXCEPT !.burning = quotas, !.supply = supply, !.rows = rows] = v
    <2> HIDE DEF y, z, v
    <2> QED
        BY <1>3, <1>4
<1>6. XTokenOK(v) /\ v.rows = rows /\ v.supply = supply
    BY <1>2 DEF XTokenOK
<1> QED
    BY <1>5, <1>6 DEF i, BurnedTables

\* Only balances of the xERC20 token change.
LEMMA XTokenRowsChanged ==
    ASSUME NEW x, XTokenOK(x), NEW rows \in XTokenRows
    PROVE  LET v == [x EXCEPT !.rows = rows]
           IN  XTokenOK(v) /\ v.rows = rows /\ v.supply = x.supply
<1> DEFINE a == x.maxSupply
           b == x.bridges
           c == x.lockbox
           f == x.freezer
           g == x.frozen
           h == x.rows
           i == x.supply
           j == x.minting
           l == x.burning
           v == [rows |-> rows, supply |-> i, maxSupply |-> a, bridges |-> b, minting |-> j,
                 burning |-> l, lockbox |-> c, freezer |-> f, frozen |-> g]
<1>1. x = [rows |-> h, supply |-> i, maxSupply |-> a, bridges |-> b, minting |-> j,
           burning |-> l, lockbox |-> c, freezer |-> f, frozen |-> g]
    BY DEF XTokenOK
<1>2. c \in {NoName, lockbox} /\ i \in Int
    BY DEF XTokenOK
<1> HIDE DEF a, b, c, f, g, h, i, j, l
<1>3. [x EXCEPT !.rows = rows] = v
    BY <1>1
<1>4. XTokenOK(v) /\ v.rows = rows /\ v.supply = i
    BY <1>2 DEF XTokenOK
<1> QED
    BY <1>3, <1>4 DEF i

\* transfer of the xERC20 token (xerc20.token.cpp).
LEMMA XTokenTransferStep == IInv /\ XTokenTransfer => IInv'
<1> SUFFICES ASSUME IInv, XTokenTransfer PROVE IInv'
    OBVIOUS
<1> DEFINE m == Act
           v == X!Transferred(db.xtoken, {m.from}, m.from, m.to, m.amount)
           checks == /\ m.symbol = XSymbol
                     /\ X!CanTransfer(db.xtoken, {m.from}, m.from, m.to, m.amount)
           receivers == NotifyBoth(Told, m.from, m.to)
           e == [db EXCEPT !.xtoken = v]
<1>1. /\ Executes(xtokenAccount) /\ m.code = xtokenAccount /\ m.name = "transfer"
      /\ Handle(checks, e, receivers, <<>>)
    BY DEF XTokenTransfer, Runs
<1>2. m \in Sendable \cup Settles /\ Lists(Told, m.code)
    BY <1>1, FirstIsCode
<1> HIDE DEF m
<1>3. m \in XTokenTransfers
    BY <1>1, <1>2, MessageKinds
<1>4. m.from \in Account /\ m.to \in Account /\ m.amount \in Int /\ m.name = "transfer"
    BY <1>3, MoveFields
<1>5. Lists(receivers, m.code) /\ Has(receivers, m.to)
    BY <1>2, <1>4, BothLists
<1>6. ASSUME checks PROVE RunOK(Head(stack), db, e, receivers, <<>>)
    <2>1. m.from # m.to
        BY <1>6 DEF X!CanTransfer
    <2>2. TablesOK(db) /\ XTokenOK(db.xtoken) /\ db.xtoken.rows \in XTokenRows
        BY DEF IInv, Balanced, TablesOK, XTokenOK
    <2> DEFINE rows == X!Move(db.xtoken.rows, m.from, m.to, m.amount, m.from)
    <2>3. /\ rows \in XTokenRows
          /\ rows[m.from].balance = db.xtoken.rows[m.from].balance - m.amount
          /\ rows[m.to].balance = db.xtoken.rows[m.to].balance + m.amount
          /\ \A a \in Account \ {m.from, m.to} : rows[a] = db.xtoken.rows[a]
        BY <1>4, <2>1, <2>2, RowsMoved
    <2>4. v = [db.xtoken EXCEPT !.rows = rows]
        BY DEF X!Transferred, X!TransferPayer
    <2> HIDE DEF rows, v
    <2>5. XTokenOK(v) /\ v.rows = rows /\ v.supply = db.xtoken.supply
        BY <2>2, <2>3, <2>4, XTokenRowsChanged
    <2>6. ASSUME NEW a \in Account
          PROVE  v.rows[a].balance = db.xtoken.rows[a].balance + Gain(m, a)
        <3>1. a \in Account /\ db.xtoken.rows[a].balance \in Int
            BY <2>2, AccountFacts, BalanceTypes
        <3>2. CASE a = m.from
            BY <1>4, <2>3, <2>5, <3>1, <3>2 DEF Gain
        <3>3. CASE a = m.to
            BY <1>4, <2>1, <2>3, <2>5, <3>1, <3>3 DEF Gain
        <3>4. CASE a \notin {m.from, m.to}
            BY <1>4, <2>3, <2>5, <3>1, <3>4 DEF Gain
        <3> QED
            BY <3>2, <3>3, <3>4
    <2>7. /\ TablesOK(e) /\ e.adapter = db.adapter /\ e.events = db.events
          /\ e.token = db.token /\ e.xtoken = v
          /\ \A k \in Count : Level(k, e) = Level(k, db) +
                     IF k.of = "backed" THEN v.supply - db.xtoken.supply
                     ELSE IF k.of = "xadapter"
                     THEN v.rows[adapter].balance - db.xtoken.rows[adapter].balance
                     ELSE IF k.of = "lockbox"
                     THEN v.rows[lockbox].balance - db.xtoken.rows[lockbox].balance ELSE 0
        BY <2>2, <2>5, XTokenChanged
    <2> HIDE DEF e
    <2>8. ASSUME NEW k \in Count PROVE Level(k, e) = Level(k, db) + Effect(k, m)
        <3>1. ~IsMeter(k) /\ adapter \in Account /\ lockbox \in Account
            BY CountKinds, AccountFacts
        <3>2. /\ db.xtoken.rows[lockbox].balance \in Int /\ db.xtoken.rows[adapter].balance \in Int
              /\ Gain(m, adapter) \in Int /\ Gain(m, lockbox) \in Int /\ db.xtoken.supply \in Int
            BY <1>4, <2>2, AccountFacts, BalanceTypes DEF Gain, XTokenOK
        <3>3. m \notin TokenTransfers
            BY <1>3, OneKind
        <3>4. Effect(k, m) = IF k.of = "backed"
                           THEN IF m.name = "mint" THEN m.amount ELSE IF m.name = "burn" THEN -m.amount ELSE 0
                           ELSE IF k.of = "xadapter" THEN Gain(m, adapter)
                           ELSE IF k.of = "lockbox" THEN Gain(m, lockbox) ELSE 0
            BY <3>1, <1>3, <3>3 DEF Effect
        <3>5. CASE k.of = "backed"
            BY <3>4, <1>4, <2>5, <2>7, <3>2, <3>3, <3>5
        <3>6. CASE k.of = "xadapter"
            BY <3>1, <3>4, <2>6, <2>7, <3>2, <3>3, <3>6
        <3>7. CASE k.of = "lockbox"
            BY <3>1, <3>4, <2>6, <2>7, <3>2, <3>3, <3>7
        <3>8. CASE k.of \notin {"backed", "xadapter", "lockbox"}
            BY <3>1, <3>4, <2>7, <3>3, <3>8
        <3> QED
            BY <3>5, <3>6, <3>7, <3>8
    <2>9. ASSUME NEW k \in Gauge, NEW r \in {adapter, lockbox}, Share(k, r, m) # 0
          PROVE  r # m.code /\ Has(receivers, r)
        <3>1. r = m.to
            BY <1>3, <2>9, OneKind DEF Share
        <3> QED
            BY <1>1, <1>5, <3>1, AccountsAssumption
    <2>10. ASSUME NEW a \in Account PROVE Balance(e, a) = Balance(db, a) + Gain(m, a)
        <3>1. db.token.rows[a].balance \in Int /\ db.xtoken.rows[a].balance \in Int /\ Gain(m, a) \in Int
            BY <1>4, <2>2, BalanceTypes DEF Gain
        <3>2. v.rows[a].balance = db.xtoken.rows[a].balance + Gain(m, a)
            BY <2>6
        <3> QED
            BY <2>7, <3>1, <3>2 DEF Balance
    <2>11. m.amount \in 1 .. MaxAmount
        BY <1>6 DEF X!CanTransfer
    <2>12. ASSUME NEW k \in Gauge PROVE Level(k, e) = Level(k, db) + Effect(k, m)
        BY <1>3, <2>7, <2>8, <2>10, <2>11, GaugeKinds, MetersRun DEF m
    <2>13. m \notin Swaps
        BY <1>3, OneKind
    <2> HIDE DEF receivers
    <2> QED
        BY <1>2, <1>5, <2>7, <2>9, <2>12, <2>13, PlainRun DEF m
<1> HIDE DEF checks, e, receivers
<1>7. Act.code = xtokenAccount
    BY <1>1 DEF m
<1> QED
    BY <1>1, <1>6, <1>7, RunHandled

\* mint (xerc20.token.cpp).
LEMMA XTokenMintStep == IInv /\ XTokenMint => IInv'
<1> SUFFICES ASSUME IInv, XTokenMint PROVE IInv'
    OBVIOUS
<1> DEFINE m == Act
           v == X!Minted(db.xtoken, m.from, m.to, m.amount)
           checks == /\ m.symbol = XSymbol
                     /\ X!CanMint(db.xtoken, {m.from}, m.from, m.to, m.amount)
           receivers == Notify(Told, m.to)
           e == [db EXCEPT !.xtoken = v]
<1>1. /\ Executes(xtokenAccount) /\ m.code = xtokenAccount /\ m.name = "mint"
      /\ Handle(checks, e, receivers, <<>>)
    BY DEF XTokenMint, Runs
<1>2. m \in Sendable \cup Settles /\ Lists(Told, m.code)
    BY <1>1, FirstIsCode
<1> HIDE DEF m
<1>3. m \in Mints
    BY <1>1, <1>2, MessageKinds
<1>4. m.from \in Account /\ m.to \in Account /\ m.amount \in Int
    BY <1>3, MoveFields
<1>5. Lists(receivers, m.code) /\ Has(receivers, m.to)
    BY <1>2, <1>4, NotifyLists
<1>6. ASSUME checks PROVE RunOK(Head(stack), db, e, receivers, <<>>)
    <2>1. TablesOK(db) /\ XTokenOK(db.xtoken) /\ db.xtoken.rows \in XTokenRows /\ db.xtoken.supply \in Int
        BY DEF IInv, Balanced, TablesOK, XTokenOK
    <2> DEFINE rows == X!AddBalance(db.xtoken.rows, m.to, m.amount, m.from)
               quotas == X!AfterUse(db.xtoken, db.xtoken.minting, m.from, m.amount)
    <2>2. /\ rows \in XTokenRows
          /\ rows[m.to].balance = db.xtoken.rows[m.to].balance + m.amount
          /\ \A a \in Account \ {m.to} : rows[a] = db.xtoken.rows[a]
        <3> DEFINE old == db.xtoken.rows
        <3>1. old \in XTokenRows
            BY <2>1
        <3> HIDE DEF old
        <3>2. LET paid == X!AddBalance(old, m.to, m.amount, m.from)
              IN  /\ paid \in XTokenRows
                  /\ paid[m.to].balance = old[m.to].balance + m.amount
                  /\ \A a \in Account \ {m.to} : paid[a] = old[a]
            BY <1>4, <3>1, RowsPaid
        <3> QED
            BY <3>2 DEF old
    <2>3. v = [db.xtoken EXCEPT !.minting = quotas, !.supply = db.xtoken.supply + m.amount, !.rows = rows]
        BY DEF X!Minted
    <2> HIDE DEF rows, quotas, v
    <2>4. XTokenOK(v) /\ v.rows = rows /\ v.supply = db.xtoken.supply + m.amount
        <3> DEFINE s == db.xtoken.supply + m.amount
        <3>1. s \in Int
            BY <1>4, <2>1
        <3>2. v = MintedTables(db.xtoken, quotas, s, rows)
            BY <2>3 DEF MintedTables
        <3> HIDE DEF s
        <3>3. XTokenOK(v) /\ v.rows = rows /\ v.supply = s
            BY <2>1, <2>2, <3>1, <3>2, MintedParts
        <3> QED
            BY <3>3 DEF s
    <2>5. ASSUME NEW a \in Account
          PROVE  v.rows[a].balance = db.xtoken.rows[a].balance + Gain(m, a)
        <3>1. a \in Account /\ db.xtoken.rows[a].balance \in Int /\ m.name = "mint"
            BY <1>1, <2>1, AccountFacts, BalanceTypes
        <3>2. CASE a = m.to
            BY <1>4, <2>2, <2>4, <3>1, <3>2 DEF Gain
        <3>3. CASE a # m.to
            BY <1>4, <2>2, <2>4, <3>1, <3>3 DEF Gain
        <3> QED
            BY <3>2, <3>3
    <2>6. /\ TablesOK(e) /\ e.adapter = db.adapter /\ e.events = db.events
          /\ e.token = db.token /\ e.xtoken = v
          /\ \A k \in Count : Level(k, e) = Level(k, db) +
                     IF k.of = "backed" THEN v.supply - db.xtoken.supply
                     ELSE IF k.of = "xadapter"
                     THEN v.rows[adapter].balance - db.xtoken.rows[adapter].balance
                     ELSE IF k.of = "lockbox"
                     THEN v.rows[lockbox].balance - db.xtoken.rows[lockbox].balance ELSE 0
        BY <2>1, <2>4, XTokenChanged
    <2> HIDE DEF e
    <2>7. ASSUME NEW k \in Count PROVE Level(k, e) = Level(k, db) + Effect(k, m)
        <3>1. ~IsMeter(k) /\ adapter \in Account /\ lockbox \in Account
            BY CountKinds, AccountFacts
        <3>2. /\ db.xtoken.rows[lockbox].balance \in Int /\ db.xtoken.rows[adapter].balance \in Int
              /\ Gain(m, adapter) \in Int /\ Gain(m, lockbox) \in Int /\ db.xtoken.supply \in Int
            BY <1>4, <2>1, AccountFacts, BalanceTypes DEF Gain, XTokenOK
        <3>3. m \notin TokenTransfers /\ m.name = "mint"
            BY <1>1, <1>3, OneKind
        <3>4. Effect(k, m) = IF k.of = "backed"
                           THEN m.amount
                           ELSE IF k.of = "xadapter" THEN Gain(m, adapter)
                           ELSE IF k.of = "lockbox" THEN Gain(m, lockbox) ELSE 0
            BY <3>1, <1>3, <3>3 DEF Effect
        <3>5. CASE k.of = "backed"
            BY <3>4, <1>4, <2>4, <2>6, <3>2, <3>3, <3>5
        <3>6. CASE k.of = "xadapter"
            BY <3>1, <3>4, <2>5, <2>6, <3>2, <3>3, <3>6
        <3>7. CASE k.of = "lockbox"
            BY <3>1, <3>4, <2>5, <2>6, <3>2, <3>3, <3>7
        <3>8. CASE k.of \notin {"backed", "xadapter", "lockbox"}
            BY <3>1, <3>4, <2>6, <3>3, <3>8
        <3> QED
            BY <3>5, <3>6, <3>7, <3>8
    <2>8. ASSUME NEW k \in Gauge, NEW r \in {adapter, lockbox}, Share(k, r, m) # 0
          PROVE  r # m.code /\ Has(receivers, r)
        <3>1. r = m.to
            BY <1>3, <2>8, OneKind DEF Share
        <3> QED
            BY <1>1, <1>5, <3>1, AccountsAssumption
    <2>9. ASSUME NEW a \in Account PROVE Balance(e, a) = Balance(db, a) + Gain(m, a)
        <3>1. db.token.rows[a].balance \in Int /\ db.xtoken.rows[a].balance \in Int /\ Gain(m, a) \in Int
            BY <1>4, <2>1, BalanceTypes DEF Gain
        <3>2. v.rows[a].balance = db.xtoken.rows[a].balance + Gain(m, a)
            BY <2>5
        <3> QED
            BY <2>6, <3>1, <3>2 DEF Balance
    <2>10. m.name = "mint"
        BY <1>1
    <2>11. ASSUME NEW k \in Gauge PROVE Level(k, e) = Level(k, db) + Effect(k, m)
        BY <1>3, <2>6, <2>7, <2>9, <2>10, GaugeKinds, MetersRun DEF m
    <2>12. m \notin Swaps
        BY <1>3, OneKind
    <2> HIDE DEF receivers
    <2> QED
        BY <1>2, <1>5, <2>6, <2>8, <2>11, <2>12, PlainRun DEF m
<1> HIDE DEF checks, e, receivers
<1>7. Act.code = xtokenAccount
    BY <1>1 DEF m
<1> QED
    BY <1>1, <1>6, <1>7, RunHandled

\* burn (xerc20.token.cpp).
LEMMA XTokenBurnStep == IInv /\ XTokenBurn => IInv'
<1> SUFFICES ASSUME IInv, XTokenBurn PROVE IInv'
    OBVIOUS
<1> DEFINE m == Act
           v == X!Burned(db.xtoken, m.from, m.amount)
           checks == /\ m.symbol = XSymbol
                     /\ X!CanBurn(db.xtoken, {m.from}, m.from, m.amount)
           e == [db EXCEPT !.xtoken = v]
<1>1. /\ Executes(xtokenAccount) /\ m.code = xtokenAccount /\ m.name = "burn"
      /\ Handle(checks, e, Told, <<>>)
    BY DEF XTokenBurn, Runs
<1>2. m \in Sendable \cup Settles /\ Lists(Told, m.code)
    BY <1>1, FirstIsCode
<1> HIDE DEF m
<1>3. m \in Burns
    BY <1>1, <1>2, MessageKinds
<1>4. m.from \in Account /\ m.to \in Account /\ m.amount \in Int
    BY <1>3, MoveFields
<1>5. ASSUME checks PROVE RunOK(Head(stack), db, e, Told, <<>>)
    <2>1. TablesOK(db) /\ XTokenOK(db.xtoken) /\ db.xtoken.rows \in XTokenRows /\ db.xtoken.supply \in Int
        BY DEF IInv, Balanced, TablesOK, XTokenOK
    <2> DEFINE rows == X!SubBalance(db.xtoken.rows, m.from, m.amount)
               quotas == X!AfterUse(db.xtoken, db.xtoken.burning, m.from, m.amount)
    <2>2. /\ rows \in XTokenRows
          /\ rows[m.from].balance = db.xtoken.rows[m.from].balance - m.amount
          /\ \A a \in Account \ {m.from} : rows[a] = db.xtoken.rows[a]
        BY <1>4, <2>1, RowsTaken
    <2>3. v = [db.xtoken EXCEPT !.burning = quotas, !.supply = db.xtoken.supply - m.amount, !.rows = rows]
        BY DEF X!Burned
    <2> HIDE DEF rows, quotas, v
    <2>4. XTokenOK(v) /\ v.rows = rows /\ v.supply = db.xtoken.supply - m.amount
        <3> DEFINE s == db.xtoken.supply - m.amount
        <3>1. s \in Int
            BY <1>4, <2>1
        <3>2. v = BurnedTables(db.xtoken, quotas, s, rows)
            BY <2>3 DEF BurnedTables
        <3> HIDE DEF s
        <3>3. XTokenOK(v) /\ v.rows = rows /\ v.supply = s
            BY <2>1, <2>2, <3>1, <3>2, BurnedParts
        <3> QED
            BY <3>3 DEF s
    <2>5. ASSUME NEW a \in Account
          PROVE  v.rows[a].balance = db.xtoken.rows[a].balance + Gain(m, a)
        <3>1. a \in Account /\ db.xtoken.rows[a].balance \in Int /\ m.name = "burn"
            BY <1>1, <2>1, AccountFacts, BalanceTypes
        <3>2. CASE a = m.from
            BY <1>4, <2>2, <2>4, <3>1, <3>2 DEF Gain
        <3>3. CASE a # m.from
            BY <1>4, <2>2, <2>4, <3>1, <3>3 DEF Gain
        <3> QED
            BY <3>2, <3>3
    <2>6. /\ TablesOK(e) /\ e.adapter = db.adapter /\ e.events = db.events
          /\ e.token = db.token /\ e.xtoken = v
          /\ \A k \in Count : Level(k, e) = Level(k, db) +
                     IF k.of = "backed" THEN v.supply - db.xtoken.supply
                     ELSE IF k.of = "xadapter"
                     THEN v.rows[adapter].balance - db.xtoken.rows[adapter].balance
                     ELSE IF k.of = "lockbox"
                     THEN v.rows[lockbox].balance - db.xtoken.rows[lockbox].balance ELSE 0
        BY <2>1, <2>4, XTokenChanged
    <2> HIDE DEF e
    <2>7. ASSUME NEW k \in Count PROVE Level(k, e) = Level(k, db) + Effect(k, m)
        <3>1. ~IsMeter(k) /\ adapter \in Account /\ lockbox \in Account
            BY CountKinds, AccountFacts
        <3>2. /\ db.xtoken.rows[lockbox].balance \in Int /\ db.xtoken.rows[adapter].balance \in Int
              /\ Gain(m, adapter) \in Int /\ Gain(m, lockbox) \in Int /\ db.xtoken.supply \in Int
            BY <1>4, <2>1, AccountFacts, BalanceTypes DEF Gain, XTokenOK
        <3>3. m \notin TokenTransfers /\ m.name = "burn"
            BY <1>1, <1>3, OneKind
        <3>4. Effect(k, m) = IF k.of = "backed"
                           THEN -m.amount
                           ELSE IF k.of = "xadapter" THEN Gain(m, adapter)
                           ELSE IF k.of = "lockbox" THEN Gain(m, lockbox) ELSE 0
            BY <3>1, <1>3, <3>3 DEF Effect
        <3>5. CASE k.of = "backed"
            BY <3>4, <1>4, <2>4, <2>6, <3>2, <3>3, <3>5
        <3>6. CASE k.of = "xadapter"
            BY <3>1, <3>4, <2>5, <2>6, <3>2, <3>3, <3>6
        <3>7. CASE k.of = "lockbox"
            BY <3>1, <3>4, <2>5, <2>6, <3>2, <3>3, <3>7
        <3>8. CASE k.of \notin {"backed", "xadapter", "lockbox"}
            BY <3>1, <3>4, <2>6, <3>3, <3>8
        <3> QED
            BY <3>5, <3>6, <3>7, <3>8
    <2>8. ASSUME NEW k \in Gauge, NEW r \in {adapter, lockbox}
          PROVE  Share(k, r, m) = 0
        BY <1>3, OneKind DEF Share
    <2>9. ASSUME NEW a \in Account PROVE Balance(e, a) = Balance(db, a) + Gain(m, a)
        <3>1. db.token.rows[a].balance \in Int /\ db.xtoken.rows[a].balance \in Int /\ Gain(m, a) \in Int
            BY <1>4, <2>1, BalanceTypes DEF Gain
        <3>2. v.rows[a].balance = db.xtoken.rows[a].balance + Gain(m, a)
            BY <2>5
        <3> QED
            BY <2>6, <3>1, <3>2 DEF Balance
    <2>10. m.amount \in 1 .. MaxAmount
        BY <1>5 DEF X!CanBurn
    <2>11. ASSUME NEW k \in Gauge PROVE Level(k, e) = Level(k, db) + Effect(k, m)
        BY <1>3, <2>6, <2>7, <2>9, <2>10, GaugeKinds, MetersRun DEF m
    <2>12. m \notin Swaps
        BY <1>3, OneKind
    <2> QED
        BY <1>2, <2>6, <2>8, <2>11, <2>12, PlainRun DEF m
<1> HIDE DEF checks, e
<1>6. Act.code = xtokenAccount
    BY <1>1 DEF m
<1> QED
    BY <1>1, <1>5, <1>6, RunHandled

\* A message of somebody else's token is worth nothing here.
LEMMA NoEffect ==
    ASSUME NEW k, NEW m \in Imitations
    PROVE  Effect(k, m) = 0 /\ Share(k, adapter, m) = 0 /\ Share(k, lockbox, m) = 0
<1>1. m \notin TokenTransfers \cup XTokenTransfers \cup Mints \cup Burns \cup Swaps \cup Settles
    BY OneKind
<1> QED
    BY <1>1 DEF Effect, MeterEffect, Share

\* What another contract claims moves no gauge.
LEMMA OtherTokenStep == IInv /\ OtherToken => IInv'
<1> SUFFICES ASSUME IInv, OtherToken PROVE IInv'
    OBVIOUS
<1> DEFINE m == Act
           receivers == NotifyBoth(Told, m.from, m.to)
<1>1. Executes(other) /\ m.code = other /\ Handle(TRUE, db, receivers, <<>>)
    BY DEF OtherToken
<1>2. m \in Sendable \cup Settles /\ Lists(Told, m.code)
    BY <1>1, FirstIsCode
<1> HIDE DEF m
<1>3. m \in Imitations
    BY <1>1, <1>2, MessageKinds
<1>4. m.from \in Account /\ m.to \in Account
    BY <1>3, MoveFields
<1>5. Lists(receivers, m.code)
    BY <1>2, <1>4, BothLists
<1>6. RunOK(Head(stack), db, db, receivers, <<>>)
    <2>1. TablesOK(db)
        BY DEF IInv, Balanced
    <2>2. ASSUME NEW k \in Gauge PROVE Level(k, db) = Level(k, db) + Effect(k, m)
        <3>1. Effect(k, m) = 0 /\ Level(k, db) \in Int
            BY <1>3, <2>1, NoEffect, LevelType
        <3> QED
            BY <3>1
    <2>3. \A k \in Gauge : \A r \in {adapter, lockbox} : Share(k, r, m) = 0
        BY <1>3, NoEffect
    <2>4. m \notin Swaps
        BY <1>3, OneKind
    <2> HIDE DEF receivers
    <2> QED
        BY <1>2, <1>5, <2>1, <2>2, <2>3, <2>4, PlainRun DEF m
<1> HIDE DEF receivers
<1>7. Act.code = other
    BY <1>1 DEF m
<1> QED
    BY <1>1, <1>6, <1>7, RunHandled

-----------------------------------------------------------------------------
\* What messages are worth when they are sent, with all that follows.

\* Of a transfer of the token.
LEMMA TokenTransferWeight ==
    ASSUME NEW k \in Count, NEW m \in TokenTransfers
    PROVE  Weight(k, m) =
             IF k.of = "backed" /\ m.from = lockbox THEN m.amount
             ELSE IF k.of = "adapter" /\ m.from = adapter THEN -m.amount ELSE 0
<1>1. m.amount \in Int /\ m.name = "transfer" /\ adapter # lockbox
    BY MoveFields, AccountsAssumption
<1>2. CASE k.of = "backed"
    BY CountKinds, <1>1, <1>2 DEF Weight, Shares, Effect, Share, Gain
<1>3. CASE k.of = "adapter"
    BY CountKinds, <1>1, <1>3 DEF Weight, Shares, Effect, Share, Gain
<1>4. CASE k.of \notin {"backed", "adapter"}
    BY CountKinds, <1>1, <1>4 DEF Weight, Shares, Effect, Share, Gain
<1> QED
    BY <1>2, <1>3, <1>4

\* A transfer of xERC20 tokens weighs only on who sends it: what adapter and
\* lockbox receive they pass on.
LEMMA XTokenTransferWeight ==
    ASSUME NEW k \in Count, NEW m \in XTokenTransfers
    PROVE  Weight(k, m) =
             IF \/ k.of = "xadapter" /\ m.from = adapter
                \/ k.of = "lockbox" /\ m.from = lockbox
             THEN -m.amount ELSE 0
<1>1. m.amount \in Int /\ m.name = "transfer" /\ adapter # lockbox /\ m \notin TokenTransfers
    BY MoveFields, AccountsAssumption, OneKind
<1>2. CASE k.of = "backed"
    BY CountKinds, <1>1, <1>2 DEF Weight, Shares, Effect, Share, Gain
<1>3. CASE k.of = "xadapter"
    <2>1. Effect(k, m) = Gain(m, adapter)
        BY CountKinds, <1>1, <1>3 DEF Effect
    <2>2. Shares(k, m) = IF m.to = adapter /\ m.from # adapter THEN -m.amount ELSE 0
        BY CountKinds, <1>1, <1>3 DEF Shares, Share
    <2> QED
        BY <1>1, <1>3, <2>1, <2>2 DEF Weight, Gain
<1>4. CASE k.of = "lockbox"
    BY CountKinds, <1>1, <1>4 DEF Weight, Shares, Effect, Share, Gain
<1>5. CASE k.of \notin {"backed", "xadapter", "lockbox"}
    BY CountKinds, <1>1, <1>5 DEF Weight, Shares, Effect, Share, Gain
<1> QED
    BY <1>2, <1>3, <1>4, <1>5

\* A mint, and what follows from it.
LEMMA MintWeight ==
    ASSUME NEW k \in Count, NEW m \in Mints
    PROVE  Weight(k, m) =
             IF \/ k.of = "backed"
                \/ k.of = "xadapter" /\ m.to = adapter /\ m.from = adapter
                \/ k.of = "lockbox" /\ m.to = lockbox /\ m.from = lockbox
             THEN m.amount ELSE 0
<1>1. m.amount \in Int /\ m.name = "mint" /\ adapter # lockbox /\ m \notin TokenTransfers
    BY MoveFields, AccountsAssumption, OneKind
<1>2. CASE k.of = "backed"
    BY CountKinds, <1>1, <1>2 DEF Weight, Shares, Effect, Share, Gain
<1>3. CASE k.of = "xadapter"
    BY CountKinds, <1>1, <1>3 DEF Weight, Shares, Effect, Share, Gain
<1>4. CASE k.of = "lockbox"
    BY CountKinds, <1>1, <1>4 DEF Weight, Shares, Effect, Share, Gain
<1>5. CASE k.of \notin {"backed", "xadapter", "lockbox"}
    BY CountKinds, <1>1, <1>5 DEF Weight, Shares, Effect, Share, Gain
<1> QED
    BY <1>2, <1>3, <1>4, <1>5

\* A burn.
LEMMA BurnWeight ==
    ASSUME NEW k \in Count, NEW m \in Burns
    PROVE  Weight(k, m) =
             IF \/ k.of = "backed"
                \/ k.of = "xadapter" /\ m.from = adapter
                \/ k.of = "lockbox" /\ m.from = lockbox
             THEN -m.amount ELSE 0
<1>1. /\ m.amount \in Int /\ m.name = "burn" /\ adapter # lockbox
      /\ m \notin TokenTransfers \cup XTokenTransfers \cup Mints
    BY MoveFields, AccountsAssumption, OneKind
<1>2. Shares(k, m) = 0
    BY CountKinds, <1>1 DEF Shares, Share
<1>3. CASE k.of = "backed"
    BY CountKinds, <1>1, <1>2, <1>3 DEF Weight, Effect
<1>4. CASE k.of = "xadapter"
    BY CountKinds, <1>1, <1>2, <1>4 DEF Weight, Effect, Gain
<1>5. CASE k.of = "lockbox"
    BY CountKinds, <1>1, <1>2, <1>5 DEF Weight, Effect, Gain
<1>6. CASE k.of \notin {"backed", "xadapter", "lockbox"}
    BY CountKinds, <1>1, <1>2, <1>6 DEF Weight, Effect
<1> QED
    BY <1>3, <1>4, <1>5, <1>6

\* The event of a swap.
LEMMA SwapWeight ==
    ASSUME NEW k \in Count, NEW m \in Swaps
    PROVE  /\ Weight(k, m) =
                IF k.of = "backed" THEN m.memo.amount \div Unit
                ELSE IF k.of = "number" THEN -1
                ELSE IF k.of = "data" /\ m.memo.sender = k.user /\ m.memo.data = k.data THEN 1
                ELSE 0
           /\ Effect(k, m) = Weight(k, m)
           /\ \A r : Share(k, r, m) = 0
<1>1. m \notin TokenTransfers \cup XTokenTransfers \cup Mints \cup Burns
    BY OneKind
<1>2. \A r : Share(k, r, m) = 0
    BY CountKinds, <1>1 DEF Share
<1>3. m.memo.amount \div Unit \in Int
    <2>1. m.memo.amount \in Int /\ Unit \in Nat \ {0}
        BY ChainAssumption DEF Swaps, Announced
    <2> QED
        BY <2>1
<1>4. Effect(k, m) =
        IF k.of = "backed" THEN m.memo.amount \div Unit
        ELSE IF k.of = "number" THEN -1
        ELSE IF k.of = "data" /\ m.memo.sender = k.user /\ m.memo.data = k.data THEN 1
        ELSE 0
    BY CountKinds, <1>1 DEF Effect
<1>5. Effect(k, m) \in Int
    BY <1>3, <1>4
<1>6. Weight(k, m) = Effect(k, m)
    BY <1>2, <1>5 DEF Weight, Shares
<1> QED
    BY <1>2, <1>4, <1>6

\* What the weights of actions are for meters: of a mint,
LEMMA MintMeters ==
    ASSUME NEW k \in Meter, NEW m \in Mints
    PROVE  Weight(k, m) =
             IF m.to = adapter
             THEN IF m.from = adapter THEN 0 ELSE Swapping(k, m.amount, m.memo)
             ELSE IF m.to = lockbox
             THEN IF m.from = lockbox THEN 0 ELSE Reaches(k, m.memo, m.amount)
             ELSE Paid(k, m.to, m.amount)
<1>1. /\ m.amount \in Int /\ m.name = "mint" /\ m.from \in {adapter, lockbox}
      /\ m \notin TokenTransfers /\ adapter # lockbox /\ IsMeter(k)
    BY OneKind, MoveFields, AccountsAssumption, MeterKinds
<1>2. Effect(k, m) = IF m.to \in {adapter, lockbox} THEN 0 ELSE Paid(k, m.to, m.amount)
    BY <1>1, WalletMeters DEF Effect, MeterEffect, Gain, Refused, Paid
<1>3. Share(k, adapter, m) =
        IF m.to = adapter /\ m.from # adapter THEN Swapping(k, m.amount, m.memo) ELSE 0
    BY <1>1 DEF Share, XTokenPasses
<1>4. Share(k, lockbox, m) =
        IF m.to = lockbox /\ m.from # lockbox THEN Reaches(k, m.memo, m.amount) ELSE 0
    BY <1>1 DEF Share, XTokenPasses
<1>5. Swapping(k, m.amount, m.memo) \in Int /\ \A a : Paid(k, a, m.amount) \in Int
      /\ Reaches(k, m.memo, m.amount) \in Int
    BY <1>1, SwappingType DEF Reaches, Paid
<1>6. Weight(k, m) = Effect(k, m) + (Share(k, adapter, m) + Share(k, lockbox, m))
    BY DEF Weight, Shares
<1> QED
    BY <1>1, <1>2, <1>3, <1>4, <1>5, <1>6

\* of collateral that the adapter or the lockbox sends,
LEMMA TokenMeters ==
    ASSUME NEW k \in Meter, NEW m \in TokenTransfers, m.from \in {adapter, lockbox}, m.amount > 0
    PROVE  Weight(k, m) =
             IF m.to = adapter
             THEN IF m.from = adapter THEN 0 ELSE Reaches(k, m.memo, m.amount)
             ELSE IF m.to = lockbox
             THEN IF m.from = lockbox THEN 0 ELSE Swapping(k, m.amount, m.memo)
             ELSE Paid(k, m.to, m.amount)
<1>1. m.amount \in Int /\ m.name = "transfer" /\ adapter # lockbox /\ IsMeter(k)
    BY MoveFields, AccountsAssumption, MeterKinds
<1>2. Refused(m) = 0
    BY <1>1 DEF Refused
<1>3. Effect(k, m) = IF m.to \in {adapter, lockbox} THEN 0 ELSE Paid(k, m.to, m.amount)
    BY <1>1, <1>2, WalletMeters DEF Effect, MeterEffect, Gain, Paid
<1>4. Share(k, adapter, m) =
        IF m.to = adapter /\ m.from # adapter THEN Reaches(k, m.memo, m.amount) ELSE 0
    BY <1>1 DEF Share, TokenPasses
<1>5. Share(k, lockbox, m) =
        IF m.to = lockbox /\ m.from # lockbox THEN Swapping(k, m.amount, m.memo) ELSE 0
    BY <1>1 DEF Share, TokenPasses
<1>6. Swapping(k, m.amount, m.memo) \in Int /\ \A a : Paid(k, a, m.amount) \in Int
      /\ Reaches(k, m.memo, m.amount) \in Int
    BY <1>1, SwappingType DEF Reaches, Paid
<1>7. Weight(k, m) = Effect(k, m) + (Share(k, adapter, m) + Share(k, lockbox, m))
    BY DEF Weight, Shares
<1>8. CASE m.to = adapter
    BY <1>1, <1>3, <1>4, <1>5, <1>6, <1>7, <1>8
<1>9. CASE m.to = lockbox
    BY <1>1, <1>3, <1>4, <1>5, <1>6, <1>7, <1>9
<1>10. CASE m.to \notin {adapter, lockbox}
    <2>1. Paid(k, m.to, m.amount) \in Int
        BY <1>6
    <2> QED
        BY <1>3, <1>4, <1>5, <1>7, <1>10, <2>1
<1> QED
    BY <1>8, <1>9, <1>10

\* of fees,
LEMMA FeeMeters ==
    ASSUME NEW k \in Meter, NEW m \in XTokenTransfers, m.from = adapter, m.to \notin {adapter, lockbox}
    PROVE  Weight(k, m) =
             IF k.of = "wallet" THEN Paid(k, m.to, m.amount)
             ELSE IF k.of = "refused" /\ ~(m.amount > 0) THEN 1 ELSE 0
<1>1. /\ m.amount \in Int /\ m.name = "transfer" /\ adapter # lockbox /\ IsMeter(k)
      /\ m \notin TokenTransfers
    BY OneKind, MoveFields, AccountsAssumption, MeterKinds
<1>2. Refused(m) = IF m.amount > 0 THEN 0 ELSE 1
    BY <1>1 DEF Refused
<1>3. Effect(k, m) =
        IF k.of = "wallet" THEN Paid(k, m.to, m.amount)
        ELSE IF k.of = "refused" /\ ~(m.amount > 0) THEN 1 ELSE 0
    BY <1>1, <1>2, WalletMeters DEF Effect, MeterEffect, Gain, Paid
<1>4. Share(k, adapter, m) = 0 /\ Share(k, lockbox, m) = 0
    BY <1>1 DEF Share
<1>5. Effect(k, m) \in Int
    BY <1>1, <1>3 DEF Paid
<1> QED
    BY <1>3, <1>4, <1>5 DEF Weight, Shares

\* of a burn,
LEMMA BurnMeters ==
    ASSUME NEW k \in Meter, NEW m \in Burns
    PROVE  Weight(k, m) = IF k.of = "refused" /\ ~(m.amount > 0) THEN 1 ELSE 0
<1>1. /\ m.amount \in Int /\ m.name = "burn" /\ m.from \in {adapter, lockbox} /\ IsMeter(k)
      /\ m \notin TokenTransfers \cup XTokenTransfers \cup Mints
    BY OneKind, MoveFields, MeterKinds
<1>2. Refused(m) = IF m.amount > 0 THEN 0 ELSE 1
    BY <1>1 DEF Refused
<1>3. Effect(k, m) = IF k.of = "refused" /\ ~(m.amount > 0) THEN 1 ELSE 0
    BY <1>1, <1>2, WalletMeters DEF Effect, MeterEffect, Gain
<1>4. Share(k, adapter, m) = 0 /\ Share(k, lockbox, m) = 0
    BY <1>1 DEF Share
<1> QED
    BY <1>3, <1>4 DEF Weight, Shares

\* and of what swap prints.
LEMMA SwapMeters ==
    ASSUME NEW k \in Meter, NEW m \in Swaps
    PROVE  /\ Weight(k, m) =
                IF k.of = "events" THEN 1
                ELSE IF k.of = "announced" THEN m.memo.amount \div Unit ELSE 0
           /\ Effect(k, m) = Weight(k, m)
           /\ \A r : Share(k, r, m) = 0
<1>1. m \notin TokenTransfers \cup XTokenTransfers \cup Mints \cup Burns /\ IsMeter(k)
    BY OneKind, MeterKinds
<1>2. \A r : Share(k, r, m) = 0
    BY <1>1 DEF Share
<1>3. m.memo.amount \div Unit \in Int
    <2>1. m.memo.amount \in Int /\ Unit \in Nat \ {0}
        BY ChainAssumption DEF Swaps, Announced
    <2> QED
        BY <2>1
<1>4. Effect(k, m) =
        IF k.of = "events" THEN 1
        ELSE IF k.of = "announced" THEN m.memo.amount \div Unit ELSE 0
    BY <1>1 DEF Effect, MeterEffect
<1>5. Weight(k, m) = Effect(k, m)
    BY <1>2, <1>3, <1>4 DEF Weight, Shares
<1> QED
    BY <1>2, <1>4, <1>5

\* What a settlement weighs.
LEMMA SettleWeight ==
    ASSUME NEW m \in Settles
    PROVE  /\ \A k, r : Share(k, r, m) = 0
           /\ \A k \in Count : Effect(k, m) = 0
           /\ \A k \in Meter : Effect(k, m) =
                IF k.of = "wallet" /\ m.metadata.preimage.content.recipient = k.user
                THEN UnitsOf(m.metadata.preimage)
                ELSE IF k.of = "settled" /\ m.metadata.preimage = k.data THEN 1
                ELSE IF /\ k.of = "refused" /\ m.metadata.preimage.content.recipient = lockbox
                        /\ m.metadata.preimage.content.amount # 0 THEN 1 ELSE 0
<1>1. m \notin TokenTransfers \cup XTokenTransfers \cup Mints \cup Burns \cup Swaps
    BY OneKind
<1>2. \A k, r : Share(k, r, m) = 0
    BY <1>1 DEF Share
<1>3. \A k \in Count : Effect(k, m) = 0
    BY <1>1, CountKinds DEF Effect
<1>4. \A k \in Meter : Effect(k, m) = MeterEffect(k, m)
    BY MeterKinds DEF Effect
<1> QED
    BY <1>1, <1>2, <1>3, <1>4 DEF MeterEffect

\* What a user sends is passed on by whoever gets it, or worth nothing.
LEMMA UserSends ==
    ASSUME NEW u \in Users, NEW m \in Transfers(u)
    PROVE  /\ m \in Sendable /\ m \notin Swaps
           /\ m \in TokenTransfers \cup XTokenTransfers \cup Imitations
           /\ m \notin Imitations => m.from = u /\ m.to # u
           /\ \A k \in Count : Weight(k, m) = 0
<1>1. PICK c \in {<<tokenAccount, TokenSymbol>>, <<xtokenAccount, XSymbol>>,
                  <<other, TokenSymbol>>, <<other, XSymbol>>},
           from \in {u} \cup Imitated, to \in Receivers \ {u}, q \in Quantities, memo \in Memos :
        m = Message(c[1], "transfer", from, to, c[2], q, memo)
    BY DEF Transfers
<1>2. /\ to \in Account /\ q \in Int /\ memo \in AnyMemo /\ u \in Account /\ u \notin {adapter, lockbox}
      /\ from \in Account /\ to # u
    BY AccountFacts, ChainAssumption, QuantitiesAssumption, AccountsAssumption DEF AnyMemo
<1>3. m = [code |-> c[1], name |-> "transfer", from |-> from, to |-> to,
           symbol |-> c[2], amount |-> q, memo |-> memo]
    BY <1>1 DEF Message
<1>4. m.code # other => from = u
    BY <1>3 DEF Transfers
<1>8. tokenAccount # other /\ xtokenAccount # other
    BY AccountsAssumption
<1>5. CASE c = <<tokenAccount, TokenSymbol>>
    <2>1. m \in TokenTransfers /\ m.from = u /\ m.to # u
        BY <1>2, <1>3, <1>4, <1>5, <1>8 DEF TokenTransfers, Moves
    <2> QED
        BY <1>2, <2>1, TokenTransferWeight, OneKind DEF Sendable
<1>6. CASE c = <<xtokenAccount, XSymbol>>
    <2>1. m \in XTokenTransfers /\ m.from = u /\ m.to # u
        BY <1>2, <1>3, <1>4, <1>6, <1>8 DEF XTokenTransfers, Moves
    <2> QED
        BY <1>2, <2>1, XTokenTransferWeight, OneKind DEF Sendable
<1>7. CASE c = <<other, TokenSymbol>> \/ c = <<other, XSymbol>>
    <2>1. m \in Imitations
        BY <1>2, <1>3, <1>7 DEF Imitations, Moves
    <2>2. \A k \in Count : Weight(k, m) = 0
        BY <2>1, NoEffect DEF Weight, Shares
    <2> QED
        BY <2>1, <2>2, OneKind DEF Sendable
<1> QED
    BY <1>5, <1>6, <1>7

\* What a transaction begins with is worth nothing to what is to stay the same.
LEMMA StartsWeigh == ASSUME NEW k \in Count, NEW m \in Starts PROVE Weight(k, m) = 0
<1>1. CASE m \in Settles
    BY <1>1, SettleWeight DEF Weight, Shares
<1>2. CASE \E u \in Users : m \in Transfers(u)
    BY <1>2, UserSends
<1> QED
    BY <1>1, <1>2 DEF Starts

\* A transaction leaves those gauges as it found them.
LEMMA CountsReturn ==
    ASSUME IInv, Return, Len(stack) = 1
    PROVE  /\ \A k \in Count : Level(k, db) = Level(k, committed)
           /\ Even(db)
<1>1. ASSUME NEW k \in Count PROVE Level(k, db) = Level(k, committed)
    <2>1. k \in Gauge /\ Weight(k, Act) = 0
        BY TransactionEnds, StartsWeigh, CountKinds
    <2>2. Level(k, db) = Level(k, committed) + Weight(k, Act)
        BY <2>1, TransactionEnds
    <2>3. Level(k, committed) \in Int
        BY <2>1, LevelType DEF IInv, Balanced
    <2> QED
        BY <2>1, <2>2, <2>3
<1> QED
    BY <1>1 DEF Even, IInv, Balanced

\* A level ends, owing nothing.
LEMMA ReturnStep == IInv /\ Return => IInv'
<1> SUFFICES ASSUME IInv, Return PROVE IInv'
    OBVIOUS
<1>1. CASE Len(stack) = 1
    <2>1. Balanced(db, <<>>, db)
        BY <1>1, TransactionEnds, CountsReturn, BalancedAlone
    <2>2. stack' = <<>> /\ committed' = db /\ db' = db
        BY <1>1, TransactionEnds
    <2> QED
        BY <2>1, <2>2 DEF IInv
<1>2. CASE Len(stack) # 1
    <2>1. stack' = Tail(stack) /\ db' = db /\ committed' = committed
        BY <1>2 DEF Return
    <2>2. Tail(stack) # <<>>
        <3> DEFINE t == Tail(stack)
        <3>1. Len(t) = Len(stack) - 1 /\ Len(stack) \in Nat
            BY Returned
        <3> HIDE DEF t
        <3>2. t # <<>>
            BY <1>2, <3>1
        <3> QED
            BY <3>2 DEF t
    <2>3. Balanced(db, Tail(stack), committed)
        <3>1. First(Tail(stack)) = First(stack)
            BY <2>2, Returned
        <3>2. Covered(db, Tail(stack), committed)
            BY <2>2, <3>1, Returned DEF IInv, Balanced, Covered, Due
        <3> QED
            BY <2>2, <3>1, <3>2, Returned DEF IInv, Balanced, Numbered
    <2> QED
        BY <2>1, <2>3 DEF IInv
<1> QED
    BY <1>1, <1>2

-----------------------------------------------------------------------------
\* Notifications without consequence.

\* The invariant is kept when a handler returns without effect.
LEMMA QuietNotified ==
    ASSUME IInv, NEW r, Notified(r), Handle(TRUE, db, Told, <<>>),
           \A k \in Gauge : Share(k, r, Act) = 0
    PROVE  IInv'
<1>1. Executes(r) /\ Head(stack).receivers[Head(stack).done + 1] = r
    BY FirstIsCode DEF Notified
<1>2. NotifiedOK(Head(stack), db, db, <<>>)
    <2> DEFINE f == Head(stack)
    <2>1. TablesOK(db) /\ db.adapter.nonce \in Nat
        BY DEF IInv, Balanced, TablesOK, AdapterTables
    <2>2. Extends(db, db) /\ db.adapter.nonce <= db.adapter.nonce
        BY <2>1, ExtendsItself
    <2>3. <<>> \in Seq(Sendable) /\ Named(Members(<<>>)) = {}
        BY EmptySeq DEF Named, Members
    <2>4. ASSUME NEW k \in Gauge
          PROVE  Level(k, db) + Total(Weights(k, <<>>))
                   = Level(k, db) + Share(k, f.receivers[f.done + 1], f.act)
        <3>1. Total(Weights(k, <<>>)) = 0 /\ Share(k, f.receivers[f.done + 1], f.act) = 0
            BY <1>1, WeightsOfNone DEF Act
        <3> QED
            BY <3>1
    <2>5. Numbers(db) \cup Named(Members(<<>>))
            = Numbers(db) \cup (db.adapter.nonce .. db.adapter.nonce - 1)
        BY <2>1, <2>3
    <2> HIDE DEF f
    <2> QED
        BY <2>1, <2>2, <2>3, <2>4, <2>5 DEF NotifiedOK, f
<1> QED
    BY <1>2, NotifiedHandled

\* Accounts without a handler.
LEMMA NobodyNotifiedStep == IInv /\ NobodyNotified => IInv'
<1> SUFFICES ASSUME IInv, NobodyNotified PROVE IInv'
    OBVIOUS
<1>1. PICK r \in Account \ Users : Notified(r) /\ ~HasHandler(r) /\ Handle(TRUE, db, Told, <<>>)
    BY DEF NobodyNotified
<1>2. Act \in Sendable \cup Settles
    BY <1>1, FirstIsCode DEF Notified
<1>3. Act \in TokenTransfers \cup XTokenTransfers \cup Mints => Act.name \in {"mint", "transfer"}
    BY MoveFields
<1>4. \A k \in Gauge : Share(k, r, Act) = 0
    BY <1>1, <1>3 DEF HasHandler, Share, TokenPasses, XTokenPasses
<1> QED
    BY <1>1, <1>4, QuietNotified

\* A user's contract refuses, does nothing or sends tokens to the adapter.
LEMMA UserNotifiedStep == ASSUME IInv, NEW u \in Users, UserNotified(u) PROVE IInv'
<1>1. Notified(u) /\ u \notin {adapter, lockbox}
    BY AccountsAssumption DEF UserNotified
<1>2. \A k \in Gauge : Share(k, u, Act) = 0
    BY <1>1 DEF Share, TokenPasses, XTokenPasses
<1>3. CASE Handle(TRUE, db, Told, <<>>)
    BY <1>1, <1>2, <1>3, QuietNotified
<1>4. CASE Revert
    BY <1>4, RevertStep
<1>5. ASSUME u \in Contracts, NEW m \in Transfers(u), Handle(TRUE, db, Told, <<m>>)
      PROVE  IInv'
    <2>1. m \in Sendable /\ m \notin Swaps /\ \A k \in Gauge : Weight(k, m) = 0
        BY <1>5, UserSends, GaugeKinds
    <2>2. NotifiedOK(Head(stack), db, db, <<m>>)
        <3> DEFINE f == Head(stack)
        <3>1. TablesOK(db) /\ db.adapter.nonce \in Nat
            BY DEF IInv, Balanced, TablesOK, AdapterTables
        <3>2. Extends(db, db) /\ db.adapter.nonce <= db.adapter.nonce
            BY <3>1, ExtendsItself
        <3>3. <<m>> \in Seq(Sendable) /\ Named(Members(<<m>>)) = {}
            BY <2>1 DEF Named, Members
        <3>4. ASSUME NEW k \in Gauge
              PROVE  Level(k, db) + Total(Weights(k, <<m>>))
                       = Level(k, db) + Share(k, f.receivers[f.done + 1], f.act)
            <4>1. f.receivers[f.done + 1] = u
                BY <1>1, FirstIsCode DEF Notified
            <4>2. Total(Weights(k, <<m>>)) = 0 /\ Share(k, f.receivers[f.done + 1], f.act) = 0
                BY <1>2, <2>1, <4>1, WeightsOfOne DEF Act
            <4> QED
                BY <4>2
        <3>5. Numbers(db) \cup Named(Members(<<m>>))
                = Numbers(db) \cup (db.adapter.nonce .. db.adapter.nonce - 1)
            BY <3>1, <3>3
        <3> HIDE DEF f
        <3> QED
            BY <3>1, <3>2, <3>3, <3>4, <3>5 DEF NotifiedOK, f
    <2> QED
        BY <1>1, <1>5, <2>2, NotifiedHandled
<1> QED
    BY <1>3, <1>4, <1>5 DEF UserNotified

-----------------------------------------------------------------------------
\* Events that are printed.

\* One more is one more amount.
LEMMA WorthsAppend ==
    ASSUME NEW s \in Seq(Announced), NEW x \in Announced
    PROVE  /\ Worths(Append(s, x)) = Append(Worths(s), x.amount \div Unit)
           /\ Worths(s) \in Seq(Int) /\ x.amount \div Unit \in Int
<1> DEFINE n == Len(s)
           t == Append(s, x)
           w == Worths(s)
           z == x.amount \div Unit
<1>1. /\ n \in Nat /\ DOMAIN s = 1 .. n
      /\ t \in Seq(Announced) /\ Len(t) = n + 1 /\ DOMAIN t = 1 .. n + 1
      /\ \A i \in 1 .. n : t[i] = s[i]
      /\ t[n + 1] = x
    BY AppendProperties, LenProperties
<1>2. w \in Seq(Int) /\ Worths(t) \in Seq(Int)
    BY <1>1, WorthsType
<1>3. z \in Int
    <2>1. x.amount \in Int /\ Unit \in Nat \ {0}
        BY ChainAssumption DEF Announced
    <2> QED
        BY <2>1
<1> HIDE DEF t, n
<1>4. Len(w) = n /\ Len(Worths(t)) = n + 1
    <2>1. DOMAIN w = 1 .. n /\ DOMAIN Worths(t) = 1 .. n + 1
        BY <1>1 DEF Worths
    <2> HIDE DEF w
    <2> QED
        BY <1>1, <1>2, <2>1, LenProperties
<1>5. /\ \A i \in 1 .. n : Worths(t)[i] = w[i]
      /\ Worths(t)[n + 1] = z
    <2>1. \A i \in 1 .. n : i \in 1 .. n + 1
        BY <1>1
    <2>2. n + 1 \in 1 .. n + 1
        BY <1>1
    <2> QED
        BY <1>1, <2>1, <2>2 DEF Worths
<1> HIDE DEF w, z
<1>6. /\ Append(w, z) \in Seq(Int) /\ Len(Append(w, z)) = n + 1
      /\ \A i \in 1 .. n : Append(w, z)[i] = w[i]
      /\ Append(w, z)[n + 1] = z
    BY <1>2, <1>3, <1>4, AppendProperties
<1>7. \A i \in 1 .. n + 1 : i \in 1 .. n \/ i = n + 1
    BY <1>1
<1>8. Worths(t) = Append(w, z)
    BY <1>2, <1>4, <1>5, <1>6, <1>7, SeqEqual
<1> QED
    BY <1>2, <1>3, <1>8 DEF t, w, z

\* What an event that is printed changes.
LEMMA EventAdded ==
    ASSUME NEW d, TablesOK(d), NEW x \in Announced
    PROVE  LET e == [d EXCEPT !.events = Append(@, x)]
           IN  /\ TablesOK(e) /\ Extends(e, d) /\ e.adapter = d.adapter
               /\ e.token = d.token /\ e.xtoken = d.xtoken /\ Len(e.events) = Len(d.events) + 1
               /\ SwappedUnits(e) = SwappedUnits(d) + x.amount \div Unit
               /\ Numbers(e) = Numbers(d) \cup {x.nonce}
               /\ \A k \in Count : Level(k, e) = Level(k, d) +
                     IF k.of = "backed" THEN x.amount \div Unit
                     ELSE IF k.of = "number" THEN -1
                     ELSE IF k.of = "data" /\ x.sender = k.user /\ x.data = k.data THEN 1
                     ELSE 0
<1> DEFINE s == Append(d.events, x)
           e == [d EXCEPT !.events = s]
           n == Len(d.events)
<1>1. /\ d.events \in Seq(Announced) /\ n \in Nat /\ DOMAIN d.events = 1 .. n
      /\ s \in Seq(Announced) /\ Len(s) = n + 1 /\ DOMAIN s = 1 .. n + 1
      /\ \A i \in 1 .. n : s[i] = d.events[i]
      /\ s[n + 1] = x
    BY AppendProperties, LenProperties DEF TablesOK
<1> HIDE DEF s, n
<1>2. e = [token |-> d.token, xtoken |-> d.xtoken, lockbox |-> d.lockbox,
           adapter |-> d.adapter, pam |-> d.pam, events |-> s]
    BY Replaced
<1> HIDE DEF e
<1>3. /\ TablesOK(e) /\ e.adapter = d.adapter /\ e.events = s
      /\ e.token = d.token /\ e.xtoken = d.xtoken
    BY <1>1, <1>2 DEF TablesOK
<1>4. Extends(e, d)
    BY <1>1, <1>3 DEF Extends, n
<1>5. Numbers(e) = Numbers(d) \cup {x.nonce}
    <2>1. {s[i].nonce : i \in 1 .. n + 1} = {d.events[i].nonce : i \in 1 .. n} \cup {x.nonce}
        <3>1. \A i \in 1 .. n + 1 : i \in 1 .. n \/ i = n + 1
            BY <1>1
        <3>2. \A i \in 1 .. n : i \in 1 .. n + 1
            BY <1>1
        <3>3. n + 1 \in 1 .. n + 1
            BY <1>1
        <3> QED
            BY <1>1, <3>1, <3>2, <3>3
    <2> QED
        BY <1>1, <1>3, <2>1 DEF Numbers
<1>6. SettledUnits(e) = SettledUnits(d)
    BY <1>3 DEF SettledUnits, SettledEvents
<1>7. SwappedUnits(e) = SwappedUnits(d) + x.amount \div Unit
    <2> DEFINE w == Worths(d.events)
               z == x.amount \div Unit
    <2>1. Worths(s) = Append(w, z) /\ w \in Seq(Int) /\ z \in Int
        BY <1>1, WorthsAppend DEF s
    <2>2. SwappedUnits(e) = Total(Worths(s)) /\ SwappedUnits(d) = Total(w)
        BY <1>3, SwappedSum
    <2> HIDE DEF w, z
    <2>3. SumFunctionOnSet(Append(w, z), DOMAIN Append(w, z)) = SumFunctionOnSet(w, DOMAIN w) + z
        BY <2>1, SumAppend
    <2> QED
        BY <2>1, <2>2, <2>3 DEF Total, z
<1>8. ASSUME NEW k \in Count
      PROVE  Cardinality(Taken(k, e)) = Cardinality(Taken(k, d)) +
                (IF x.sender = k.user /\ x.data = k.data THEN 1 ELSE 0)
    <2>1. IsFiniteSet(Taken(k, d)) /\ Cardinality(Taken(k, d)) \in Nat
        BY TakenFinite
    <2>2. Taken(k, d) = {i \in 1 .. n : d.events[i].sender = k.user /\ d.events[i].data = k.data}
        BY <1>1 DEF Taken
    <2>3. Taken(k, e) = {i \in 1 .. n + 1 : s[i].sender = k.user /\ s[i].data = k.data}
        BY <1>1, <1>3 DEF Taken
    <2>4. n + 1 \notin Taken(k, d)
        BY <1>1, <2>2
    <2>5. 1 .. n + 1 = (1 .. n) \cup {n + 1}
        BY <1>1
    <2>6. CASE x.sender = k.user /\ x.data = k.data
        <3>1. Taken(k, e) = Taken(k, d) \cup {n + 1}
            BY <1>1, <2>2, <2>3, <2>5, <2>6
        <3> QED
            BY <2>1, <2>4, <2>6, <3>1, FS_AddElement
    <2>7. CASE ~(x.sender = k.user /\ x.data = k.data)
        <3>1. Taken(k, e) = Taken(k, d)
            BY <1>1, <2>2, <2>3, <2>5, <2>7
        <3> QED
            BY <2>1, <2>7, <3>1
    <2> QED
        BY <2>6, <2>7
<1>9. ASSUME NEW k \in Count
      PROVE  Level(k, e) = Level(k, d) +
                     IF k.of = "backed" THEN x.amount \div Unit
                     ELSE IF k.of = "number" THEN -1
                     ELSE IF k.of = "data" /\ x.sender = k.user /\ x.data = k.data THEN 1
                     ELSE 0
    <2>1. /\ Level(k, d) \in Int /\ Cardinality(Taken(k, d)) \in Int /\ SettledUnits(d) \in Int
          /\ SwappedUnits(d) \in Int /\ d.xtoken.supply \in Int /\ d.token.rows[lockbox].balance \in Int
          /\ d.adapter.nonce \in Int /\ Cardinality(d.adapter.past) \in Int
          /\ d.adapter.userdata \in [Account -> Data]
        BY LevelParts, CountKinds
    <2>2. x.amount \div Unit \in Int
        <3>1. x.amount \in Int /\ Unit \in Nat \ {0}
            BY ChainAssumption DEF Announced
        <3> QED
            BY <3>1
    <2>3. CASE k.of = "backed"
        BY CountKinds, <1>3, <1>6, <1>7, <2>1, <2>2, <2>3 DEF Level
    <2>4. CASE k.of = "number"
        <3>1. Level(k, e) = d.adapter.nonce - Cardinality(d.adapter.past) - Len(s)
            BY CountKinds, <1>3, <2>4 DEF Level
        <3>2. Level(k, d) = d.adapter.nonce - Cardinality(d.adapter.past) - n
            BY CountKinds, <2>4 DEF Level, n
        <3> QED
            BY <1>1, <2>1, <2>4, <3>1, <3>2
    <2>5. CASE k.of = "data"
        BY CountKinds, <1>3, <1>8, <2>1, <2>5 DEF Level
    <2>6. CASE k.of \in {"adapter", "xadapter", "lockbox"}
        <3>1. Level(k, e) = Level(k, d)
            BY CountKinds, <1>3, <2>6 DEF Level
        <3> QED
            BY <2>1, <2>6, <3>1
    <2>7. k.of \in {"backed", "adapter", "lockbox", "number", "xadapter", "data"}
        BY DEF Count
    <2> QED
        BY <2>3, <2>4, <2>5, <2>6, <2>7
<1> QED
    BY <1>1, <1>3, <1>4, <1>5, <1>7, <1>9 DEF e, s, n

\* Meters count it, and its amount.
LEMMA EventMeters ==
    ASSUME NEW k \in Meter, Contracts = {}, NEW d, TablesOK(d), NEW e, TablesOK(e), NEW m \in Swaps,
           e.adapter = d.adapter, e.token = d.token, e.xtoken = d.xtoken,
           Len(e.events) = Len(d.events) + 1,
           SwappedUnits(e) = SwappedUnits(d) + m.memo.amount \div Unit
    PROVE  Level(k, e) = Level(k, d) + Effect(k, m)
<1>1. IsMeter(k) /\ k \in Gauge
    BY MeterKinds DEF Gauge
<1>2. Level(k, d) \in Int
    BY <1>1, LevelType
<1>3. Effect(k, m) =
        IF k.of = "events" THEN 1
        ELSE IF k.of = "announced" THEN m.memo.amount \div Unit ELSE 0
    BY SwapMeters
<1>4. CASE k.of \in {"events", "announced"}
    BY <1>1, <1>3, <1>4 DEF Level, MeterLevel
<1>5. CASE k.of \notin {"events", "announced"}
    <2>1. SettledEvents(e) = SettledEvents(d) /\ Balance(e, k.user) = Balance(d, k.user)
        BY DEF SettledEvents, Balance
    <2>2. Level(k, e) = Level(k, d)
        BY <1>1, <1>5, <2>1 DEF Level, MeterLevel
    <2> QED
        BY <1>2, <1>3, <1>5, <2>2
<1> QED
    BY <1>4, <1>5

\* swap prints the event whose number was taken when it was sent.
LEMMA AdapterSwapStep == IInv /\ AdapterSwap => IInv'
<1> SUFFICES ASSUME IInv, AdapterSwap PROVE IInv'
    OBVIOUS
<1> DEFINE m == Act
           e == [db EXCEPT !.events = Append(@, m.memo)]
<1>1. /\ Executes(adapter) /\ m.code = adapter /\ m.name = "swap"
      /\ Handle(m.from = adapter, e, Told, <<>>)
    BY DEF AdapterSwap, Runs
<1>2. m \in Sendable \cup Settles /\ Lists(Told, m.code)
    BY <1>1, FirstIsCode
<1> HIDE DEF m
<1>3. m \in Swaps
    BY <1>1, <1>2, MessageKinds
<1>4. m.memo \in Announced
    BY <1>3 DEF Swaps
<1>5. TablesOK(db) /\ db.adapter.nonce \in Nat
    BY DEF IInv, Balanced, TablesOK, AdapterTables
<1>6. /\ TablesOK(e) /\ Extends(e, db) /\ e.adapter = db.adapter
      /\ Numbers(e) = Numbers(db) \cup {m.memo.nonce}
      /\ e.token = db.token /\ e.xtoken = db.xtoken /\ Len(e.events) = Len(db.events) + 1
      /\ SwappedUnits(e) = SwappedUnits(db) + m.memo.amount \div Unit
      /\ \A k \in Count : Level(k, e) = Level(k, db) +
            IF k.of = "backed" THEN m.memo.amount \div Unit
            ELSE IF k.of = "number" THEN -1
            ELSE IF k.of = "data" /\ m.memo.sender = k.user /\ m.memo.data = k.data THEN 1
            ELSE 0
    BY <1>4, <1>5, EventAdded
<1> HIDE DEF e
<1>7. RunOK(Head(stack), db, e, Told, <<>>)
    <2> DEFINE f == Head(stack)
    <2>1. f.act = m
        BY DEF m, Act
    <2> HIDE DEF f
    <2>2. <<>> \in Seq(Sendable) /\ Named(Members(<<>>)) = {}
        BY EmptySeq DEF Named, Members
    <2>3. Named({m}) = {m.memo.nonce}
        BY <1>3 DEF Named
    <2>4. ASSUME NEW k \in Gauge
          PROVE  Level(k, e) + Total(Weights(k, <<>>)) = Level(k, db) + Effect(k, m)
        <3>1. Total(Weights(k, <<>>)) = 0
            BY WeightsOfNone
        <3>2. Level(k, e) = Level(k, db) + Effect(k, m)
            BY <1>3, <1>5, <1>6, SwapWeight, EventMeters, GaugeKinds
        <3>3. Level(k, e) \in Int
            BY <1>6, LevelType
        <3> QED
            BY <3>1, <3>2, <3>3
    <2>5. \A k \in Gauge : \A r : Share(k, r, m) = 0
        BY <1>3, SwapWeight, SwapMeters, GaugeKinds
    <2>6. db.adapter.nonce .. e.adapter.nonce - 1 = {} /\ db.adapter.nonce <= e.adapter.nonce
        BY <1>5, <1>6
    <2>7. Numbers(e) \cup Named(Members(<<>>))
            = Numbers(db) \cup Named({m}) \cup (db.adapter.nonce .. e.adapter.nonce - 1)
        BY <1>6, <2>2, <2>3, <2>6
    <2> QED
        BY <1>2, <1>6, <2>1, <2>2, <2>4, <2>5, <2>6, <2>7 DEF RunOK, f
<1>8. Act.code = adapter /\ Handle(Act.from = adapter, e, Told, <<>>)
    BY <1>1 DEF m
<1> QED
    BY <1>1, <1>7, <1>8, RunHandled

-----------------------------------------------------------------------------
\* Tokens are passed on.

\* Nothing is written and what is sent is worth the share.
LEMMA PassedOn ==
    ASSUME IInv, NEW r, Notified(r), NEW s \in Seq(Sendable), Named(Members(s)) = {},
           \A k \in Gauge : Total(Weights(k, s)) = Share(k, r, Act)
    PROVE  NotifiedOK(Head(stack), db, db, s)
<1> DEFINE f == Head(stack)
<1>1. TablesOK(db) /\ db.adapter.nonce \in Nat
    BY DEF IInv, Balanced, TablesOK, AdapterTables
<1>2. Extends(db, db) /\ db.adapter.nonce <= db.adapter.nonce
    BY <1>1, ExtendsItself
<1>3. f.receivers[f.done + 1] = r /\ f.act = Act
    BY FirstIsCode DEF Notified, Act
<1>4. \A k \in Gauge : Level(k, db) + Total(Weights(k, s))
                         = Level(k, db) + Share(k, f.receivers[f.done + 1], f.act)
    BY <1>3
<1>5. Numbers(db) \cup Named(Members(s))
        = Numbers(db) \cup (db.adapter.nonce .. db.adapter.nonce - 1)
    BY <1>1
<1> HIDE DEF f
<1> QED
    BY <1>1, <1>2, <1>4, <1>5 DEF NotifiedOK, f

\* A pair is two sequences of one.
LEMMA TwoOf == ASSUME NEW S, NEW a \in S, NEW b \in S PROVE <<a, b>> = <<a>> \o <<b>>
<1>1. <<a>> \in Seq(S) /\ <<b>> \in Seq(S) /\ <<a, b>> \in Seq(S)
    OBVIOUS
<1>2. Len(<<a>>) = 1 /\ Len(<<b>>) = 1 /\ Len(<<a, b>>) = 2 /\ <<a>>[1] = a /\ <<b>>[1] = b
      /\ <<a, b>>[1] = a /\ <<a, b>>[2] = b
    OBVIOUS
<1> DEFINE s == <<a>>
           t == <<b>>
           u == <<a, b>>
<1> HIDE DEF s, t, u
<1>3. /\ s \in Seq(S) /\ t \in Seq(S) /\ u \in Seq(S) /\ Len(s) = 1 /\ Len(t) = 1 /\ Len(u) = 2
      /\ s[1] = a /\ t[1] = b /\ u[1] = a /\ u[2] = b
    BY <1>1, <1>2 DEF s, t, u
<1>4. /\ s \o t \in Seq(S) /\ Len(s \o t) = 2
      /\ \A i \in 1 .. 2 : (s \o t)[i] = IF i <= 1 THEN s[i] ELSE t[i - 1]
    <2>1. /\ s \o t \in Seq(S) /\ Len(s \o t) = Len(s) + Len(t)
          /\ \A i \in 1 .. Len(s) + Len(t) :
                (s \o t)[i] = IF i <= Len(s) THEN s[i] ELSE t[i - Len(s)]
        BY <1>3, ConcatProperties
    <2>2. 1 + 1 = 2
        OBVIOUS
    <2> QED
        BY <1>3, <2>1, <2>2
<1>5. (s \o t)[1] = a /\ (s \o t)[2] = b
    <2>1. (s \o t)[1] = s[1] /\ (s \o t)[2] = t[2 - 1]
        BY <1>4
    <2> QED
        BY <1>3, <2>1
<1>6. \A i \in 1 .. 2 : i = 1 \/ i = 2
    OBVIOUS
<1>7. \A i \in 1 .. Len(u) : u[i] = (s \o t)[i]
    BY <1>3, <1>5, <1>6
<1>8. u = s \o t
    BY <1>3, <1>4, <1>7, SeqEqual
<1> QED
    BY <1>8 DEF s, t, u

\* Two actions weigh what both weigh.
LEMMA WeightsOfTwo ==
    ASSUME NEW k \in Gauge, NEW m \in Sendable, NEW n \in Sendable
    PROVE  /\ <<m, n>> \in Seq(Sendable) /\ Members(<<m, n>>) = {m, n}
           /\ Total(Weights(k, <<m, n>>)) = Weight(k, m) + Weight(k, n)
<1>1. /\ <<m>> \in Seq(Sendable) /\ <<n>> \in Seq(Sendable) /\ <<m, n>> \in Seq(Sendable)
      /\ <<m, n>> = <<m>> \o <<n>>
    <2> DEFINE S == Sendable
    <2>1. m \in S /\ n \in S
        OBVIOUS
    <2> HIDE DEF S
    <2>2. <<m>> \in Seq(S) /\ <<n>> \in Seq(S)
        BY <2>1
    <2>3. <<m, n>> = <<m>> \o <<n>>
        BY TwoOf
    <2>4. <<m>> \o <<n>> \in Seq(S)
        BY <2>2, ConcatProperties
    <2> QED
        BY <2>2, <2>3, <2>4 DEF S
<1>2. Total(Weights(k, <<m>> \o <<n>>)) = Total(Weights(k, <<m>>)) + Total(Weights(k, <<n>>))
    BY <1>1, WeightsConcat
<1>3. Total(Weights(k, <<m>>)) = Weight(k, m) /\ Total(Weights(k, <<n>>)) = Weight(k, n)
    BY WeightsOfOne
<1>4. Members(<<m, n>>) = {m, n}
    BY DEF Members
<1> QED
    BY <1>1, <1>2, <1>3, <1>4

\* What comes with the name of a handler, and from where.
LEMMA HandledKinds ==
    ASSUME NEW m \in Sendable \cup Settles, m.name \in {"mint", "transfer"}
    PROVE  /\ m \in TokenTransfers \cup XTokenTransfers \cup Mints \cup Imitations
           /\ m.code = tokenAccount => m \in TokenTransfers /\ m.symbol = TokenSymbol
           /\ m.code = xtokenAccount => m \in XTokenTransfers \cup Mints /\ m.symbol = XSymbol
           /\ m.code \in {tokenAccount, xtokenAccount, other}
<1>1. m \in TokenTransfers => m.code = tokenAccount /\ m.symbol = TokenSymbol
    BY DEF TokenTransfers, Moves
<1>2. m \in XTokenTransfers => m.code = xtokenAccount /\ m.symbol = XSymbol
    BY DEF XTokenTransfers, Moves
<1>3. m \in Mints => m.code = xtokenAccount /\ m.symbol = XSymbol
    BY DEF Mints, Moves
<1>4. m \in Burns => m.name = "burn"
    BY DEF Burns, Moves
<1>5. m \in Imitations => m.code = other
    BY DEF Imitations, Moves
<1>6. m \in Swaps => m.name = "swap"
    BY DEF Swaps
<1>7. m \in Settles => m.name = "settle"
    BY DEF Settles
<1>8. tokenAccount # xtokenAccount /\ tokenAccount # other /\ xtokenAccount # other
    BY AccountsAssumption
<1>9. \/ m \in TokenTransfers \/ m \in XTokenTransfers \/ m \in Mints \/ m \in Burns
      \/ m \in Imitations \/ m \in Swaps \/ m \in Settles
    BY DEF Sendable
<1> QED
    BY <1>1, <1>2, <1>3, <1>4, <1>5, <1>6, <1>7, <1>8, <1>9

\* The fields of the pair.
LEMMA PairFields ==
    /\ Pair.token = tokenAccount /\ Pair.token_symbol = TokenSymbol
    /\ Pair.xerc20 = xtokenAccount /\ Pair.xerc20_symbol = XSymbol
BY DEF Pair

\* A deposit is wrapped.
LEMMA LockboxDeposit ==
    ASSUME NEW m \in TokenTransfers, m.to = lockbox, m.from # lockbox
    PROVE  /\ L!Minted(Pair, m) \in Seq(Sendable) /\ Named(Members(L!Minted(Pair, m))) = {}
           /\ \A k \in Gauge : Total(Weights(k, L!Minted(Pair, m))) = Share(k, lockbox, m)
<1> DEFINE n == Message(xtokenAccount, "mint", lockbox, m.from, XSymbol, m.amount, m.memo)
<1>1. L!Minted(Pair, m) = <<n>>
    BY PairFields DEF L!Minted, L!Message, Message
<1>2. m.from \in Account /\ m.amount \in Int /\ m.memo \in AnyMemo
    BY MoveFields
<1>3. n \in Mints /\ n.from = lockbox /\ n.to = m.from /\ n.amount = m.amount /\ n.memo = m.memo
    BY <1>2, AccountFacts DEF Mints, Moves, Message
<1> HIDE DEF n
<1>4. n \in Sendable /\ n \notin Swaps
    BY <1>3, OneKind DEF Sendable
<1>5. <<n>> \in Seq(Sendable) /\ Named(Members(<<n>>)) = {}
    BY <1>4 DEF Named, Members
<1>6. ASSUME NEW k \in Count PROVE Total(Weights(k, <<n>>)) = Share(k, lockbox, m)
    <2>1. Weight(k, n) = IF k.of = "backed" THEN m.amount ELSE 0
        BY <1>3, MintWeight, AccountsAssumption
    <2>2. Share(k, lockbox, m) = IF k.of = "backed" THEN m.amount ELSE 0
        BY CountKinds, AccountsAssumption DEF Share
    <2> QED
        BY <1>4, <2>1, <2>2, CountKinds, WeightsOfOne
<1>7. ASSUME NEW k \in Meter, Contracts = {} PROVE Total(Weights(k, <<n>>)) = Share(k, lockbox, m)
    <2>1. Weight(k, n) = IF m.from = adapter THEN Swapping(k, m.amount, m.memo) ELSE Paid(k, m.from, m.amount)
        BY <1>3, MintMeters, AccountsAssumption
    <2>2. Share(k, lockbox, m) = IF m.from = adapter THEN Swapping(k, m.amount, m.memo) ELSE Paid(k, m.from, m.amount)
        BY MeterKinds, AccountsAssumption DEF Share, TokenPasses
    <2>3. k \in Gauge
        BY <1>7 DEF Gauge
    <2> QED
        BY <1>4, <2>1, <2>2, <2>3, WeightsOfOne
<1> QED
    BY <1>1, <1>5, <1>6, <1>7, GaugeKinds

\* Wrapped tokens are burned and the collateral is released.
LEMMA LockboxWithdrawal ==
    ASSUME NEW m \in XTokenTransfers \cup Mints, m.to = lockbox, m.from # lockbox, m.amount > 0
    PROVE  /\ L!Released(Pair, m) \in Seq(Sendable) /\ Named(Members(L!Released(Pair, m))) = {}
           /\ \A k \in Gauge : Total(Weights(k, L!Released(Pair, m))) = Share(k, lockbox, m)
<1> DEFINE b == Message(xtokenAccount, "burn", lockbox, lockbox, XSymbol, m.amount, m.memo)
           n == Message(tokenAccount, "transfer", lockbox, m.from, TokenSymbol, m.amount, m.memo)
<1>1. L!Released(Pair, m) = <<b, n>>
    <2>1. m.code = xtokenAccount /\ m.symbol = XSymbol
        BY DEF XTokenTransfers, Mints, Moves
    <2> QED
        BY <2>1, PairFields DEF L!Released, L!Message, Message
<1>2. m.from \in Account /\ m.amount \in Int /\ m.memo \in AnyMemo
    BY MoveFields
<1>3. n \in TokenTransfers /\ n.from = lockbox /\ n.to = m.from /\ n.amount = m.amount /\ n.memo = m.memo
    BY <1>2, AccountFacts DEF TokenTransfers, Moves, Message
<1>4. b \in Burns /\ b.from = lockbox /\ b.to = lockbox /\ b.amount = m.amount
    BY <1>2, AccountFacts DEF Burns, Moves, Message
<1> HIDE DEF n, b
<1>5. n \in Sendable /\ n \notin Swaps /\ b \in Sendable /\ b \notin Swaps
    BY <1>3, <1>4, OneKind DEF Sendable
<1>6. \A k \in Gauge : /\ <<b, n>> \in Seq(Sendable) /\ Members(<<b, n>>) = {b, n}
                       /\ Total(Weights(k, <<b, n>>)) = Weight(k, b) + Weight(k, n)
    BY <1>5, WeightsOfTwo
<1>7. <<b, n>> \in Seq(Sendable) /\ Named(Members(<<b, n>>)) = {}
    <2>1. Members(<<b, n>>) = {b, n} /\ <<b, n>> \in Seq(Sendable)
        BY <1>5 DEF Members
    <2> QED
        BY <1>5, <2>1 DEF Named
<1>8. ASSUME NEW k \in Count PROVE Total(Weights(k, <<b, n>>)) = Share(k, lockbox, m)
    <2>1. Weight(k, n) = IF k.of = "backed" THEN m.amount ELSE 0
        BY <1>3, TokenTransferWeight, AccountsAssumption
    <2>2. Weight(k, b) = IF k.of \in {"backed", "lockbox"} THEN -m.amount ELSE 0
        BY <1>4, BurnWeight, AccountsAssumption
    <2>3. Share(k, lockbox, m) = IF k.of = "lockbox" THEN -m.amount ELSE 0
        BY CountKinds, AccountsAssumption, OneKind DEF Share
    <2>4. Total(Weights(k, <<b, n>>)) = Weight(k, b) + Weight(k, n)
        BY <1>6, CountKinds
    <2> QED
        BY <1>2, <2>1, <2>2, <2>3, <2>4
<1>9. ASSUME NEW k \in Meter, Contracts = {} PROVE Total(Weights(k, <<b, n>>)) = Share(k, lockbox, m)
    <2> DEFINE passed == IF m.from = adapter THEN Reaches(k, m.memo, m.amount)
                         ELSE Paid(k, m.from, m.amount)
    <2>1. Weight(k, n) = passed
        BY <1>3, TokenMeters, AccountsAssumption
    <2>2. Weight(k, b) = 0
        BY <1>4, BurnMeters
    <2>3. Share(k, lockbox, m) = passed
        BY MeterKinds, AccountsAssumption, OneKind DEF Share, XTokenPasses
    <2>4. Total(Weights(k, <<b, n>>)) = Weight(k, b) + Weight(k, n)
        BY <1>6, <1>9 DEF Gauge
    <2>5. passed \in Int
        BY <1>2, SwappingType DEF Reaches, Paid
    <2> QED
        BY <2>1, <2>2, <2>3, <2>4, <2>5
<1> QED
    BY <1>1, <1>7, <1>8, <1>9, GaugeKinds

\* The lockbox is notified (ontransfer, onmint of lockbox.cpp).
LEMMA LockboxNotifiedStep == IInv /\ LockboxNotified => IInv'
<1> SUFFICES ASSUME IInv, LockboxNotified PROVE IInv'
    OBVIOUS
<1> DEFINE m == Act
           R == db.lockbox
<1>1. Notified(lockbox) /\ m.name \in {"mint", "transfer"}
    BY DEF LockboxNotified, HasHandler
<1>2. m \in Sendable \cup Settles
    BY <1>1, FirstIsCode DEF Notified
<1>3. R \subseteq {Pair}
    BY DEF IInv, Balanced, TablesOK
<1>4. CASE m.from = lockbox
    <2>1. Handle(TRUE, db, Told, <<>>)
        BY <1>4 DEF LockboxNotified, L!Ignores
    <2>2. \A k \in Gauge : Share(k, lockbox, Act) = 0
        BY <1>4 DEF Share, TokenPasses, XTokenPasses
    <2> QED
        BY <1>1, <2>1, <2>2, QuietNotified
<1>5. CASE m.from # lockbox
    <2> DEFINE s == L!Sent(R, m)
               checks == L!CanReceive(R, m)
    <2>1. Handle(checks, db, Told, s)
        BY <1>5 DEF LockboxNotified, L!Ignores
    <2>2. ASSUME checks PROVE NotifiedOK(Head(stack), db, db, s)
        <3> HIDE DEF m, R
        <3>1. m.to = lockbox /\ m.amount > 0 /\ L!Deposit(R, m) \cup L!Withdrawal(R, m) # {}
            BY <2>2 DEF L!CanReceive
        <3>2. CASE L!Deposit(R, m) # {}
            <4>1. L!Deposit(R, m) = {Pair} /\ m.code = tokenAccount
                BY <1>3, <3>2, PairFields DEF L!Deposit, L!FoundToken
            <4>2. m \in TokenTransfers
                BY <1>1, <1>2, <4>1, HandledKinds DEF m
            <4>3. s = L!Minted(Pair, m)
                BY <3>2, <4>1 DEF L!Sent
            <4>4. /\ s \in Seq(Sendable) /\ Named(Members(s)) = {}
                  /\ \A k \in Gauge : Total(Weights(k, s)) = Share(k, lockbox, m)
                BY <1>5, <3>1, <4>2, <4>3, LockboxDeposit
            <4> HIDE DEF s
            <4> QED
                BY <1>1, <4>4, PassedOn DEF m
        <3>3. CASE L!Deposit(R, m) = {}
            <4>1. L!Withdrawal(R, m) # {}
                BY <3>1, <3>3
            <4>2. L!Withdrawal(R, m) = {Pair} /\ m.code = xtokenAccount
                BY <1>3, <4>1, PairFields DEF L!Withdrawal, L!LowerBoundXERC20
            <4>3. m \in XTokenTransfers \cup Mints
                BY <1>1, <1>2, <4>2, HandledKinds DEF m
            <4>4. s = L!Released(Pair, m)
                BY <3>3, <4>2 DEF L!Sent
            <4>5. /\ s \in Seq(Sendable) /\ Named(Members(s)) = {}
                  /\ \A k \in Gauge : Total(Weights(k, s)) = Share(k, lockbox, m)
                BY <1>5, <3>1, <4>3, <4>4, LockboxWithdrawal
            <4> HIDE DEF s
            <4> QED
                BY <1>1, <4>5, PassedOn DEF m
        <3> QED
            BY <3>2, <3>3
    <2> HIDE DEF s, checks
    <2> QED
        BY <1>1, <2>1, <2>2, NotifiedHandled
<1> QED
    BY <1>4, <1>5

-----------------------------------------------------------------------------
\* The adapter's tables change.

\* What the counts read when only the adapter's tables differ.
LEMMA AdapterChanged ==
    ASSUME NEW d, TablesOK(d), NEW v \in AdapterTables, IsFiniteSet(v.past)
    PROVE  LET e == [d EXCEPT !.adapter = v]
           IN  /\ TablesOK(e) /\ e.adapter = v /\ e.events = d.events /\ Extends(e, d)
               /\ e.token = d.token /\ e.xtoken = d.xtoken
               /\ \A k \in Count : Level(k, e) = Level(k, d) +
                     IF k.of = "backed" THEN SettledUnits(d) - SettledUnits(e)
                     ELSE IF k.of = "number"
                     THEN v.nonce - d.adapter.nonce - Cardinality(v.past) + Cardinality(d.adapter.past)
                     ELSE IF k.of = "data"
                     THEN (IF v.userdata[k.user] = k.data THEN 1 ELSE 0)
                          - (IF d.adapter.userdata[k.user] = k.data THEN 1 ELSE 0)
                     ELSE 0
<1> DEFINE e == [d EXCEPT !.adapter = v]
<1>1. e = [token |-> d.token, xtoken |-> d.xtoken, lockbox |-> d.lockbox,
           adapter |-> v, pam |-> d.pam, events |-> d.events]
    BY Replaced
<1> HIDE DEF e
<1>2. /\ TablesOK(e) /\ e.adapter = v /\ e.events = d.events
      /\ e.token = d.token /\ e.xtoken = d.xtoken
    BY <1>1 DEF TablesOK
<1>3. Extends(e, d)
    BY <1>2, ExtendsItself DEF Extends
<1>4. ASSUME NEW k \in Count
      PROVE  Level(k, e) = Level(k, d) +
                     IF k.of = "backed" THEN SettledUnits(d) - SettledUnits(e)
                     ELSE IF k.of = "number"
                     THEN v.nonce - d.adapter.nonce - Cardinality(v.past) + Cardinality(d.adapter.past)
                     ELSE IF k.of = "data"
                     THEN (IF v.userdata[k.user] = k.data THEN 1 ELSE 0)
                          - (IF d.adapter.userdata[k.user] = k.data THEN 1 ELSE 0)
                     ELSE 0
    <2>1. SwappedUnits(e) = SwappedUnits(d) /\ Taken(k, e) = Taken(k, d)
        BY <1>2 DEF SwappedUnits, Taken
    <2>2. /\ Level(k, d) \in Int /\ Cardinality(Taken(k, d)) \in Int /\ SettledUnits(d) \in Int
          /\ SwappedUnits(d) \in Int /\ d.xtoken.supply \in Int
          /\ d.token.rows[lockbox].balance \in Int
          /\ d.adapter.nonce \in Int /\ Cardinality(d.adapter.past) \in Int
        BY LevelParts, CountKinds
    <2>3. SettledUnits(e) \in Int /\ v.nonce \in Int /\ Cardinality(v.past) \in Int
        BY <1>2, SettledUnitsType, FS_CardinalityType DEF AdapterTables
    <2>4. CASE k.of = "backed"
        BY CountKinds, <1>2, <2>1, <2>2, <2>3, <2>4 DEF Level
    <2>5. CASE k.of = "number"
        <3> DEFINE n == Len(d.events)
                   x == Cardinality(v.past)
                   y == Cardinality(d.adapter.past)
        <3>1. n \in Int
            BY LenProperties DEF TablesOK
        <3>2. Level(k, e) = v.nonce - x - n /\ Level(k, d) = d.adapter.nonce - y - n
            BY CountKinds, <1>2, <2>5 DEF Level
        <3>3. x \in Int /\ y \in Int /\ v.nonce \in Int /\ d.adapter.nonce \in Int
            BY <2>2, <2>3
        <3> HIDE DEF n, x, y
        <3>4. Level(k, e) = Level(k, d) + (v.nonce - d.adapter.nonce - x + y)
            BY <3>1, <3>2, <3>3
        <3> QED
            BY <2>5, <3>4 DEF x, y
    <2>6. CASE k.of = "data"
        <3> DEFINE n == Cardinality(Taken(k, d))
                   a == IF v.userdata[k.user] = k.data THEN 1 ELSE 0
                   b == IF d.adapter.userdata[k.user] = k.data THEN 1 ELSE 0
        <3>1. Level(k, e) = a + n /\ Level(k, d) = b + n
            BY CountKinds, <1>2, <2>1, <2>6 DEF Level
        <3>2. n \in Int /\ a \in Int /\ b \in Int
            BY <2>2
        <3> HIDE DEF n, a, b
        <3>3. Level(k, e) = Level(k, d) + (a - b)
            BY <3>1, <3>2
        <3> QED
            BY <2>6, <3>3 DEF a, b
    <2>7. CASE k.of \in {"adapter", "xadapter", "lockbox"}
        <3>1. Level(k, e) = Level(k, d)
            BY CountKinds, <1>2, <2>7 DEF Level
        <3> QED
            BY <2>2, <2>7, <3>1
    <2>8. k.of \in {"backed", "adapter", "lockbox", "number", "xadapter", "data"}
        BY DEF Count
    <2> QED
        BY <2>4, <2>5, <2>6, <2>7, <2>8
<1> QED
    BY <1>2, <1>3, <1>4 DEF e

\* The fields of the adapter's tables.
LEMMA AdapterTypes ==
    ASSUME NEW a \in AdapterTables
    PROVE  /\ a = [registry |-> a.registry, nonce |-> a.nonce, feesmanager |-> a.feesmanager,
                   past |-> a.past, userdata |-> a.userdata]
           /\ a.registry \in {Unset, Registry} /\ a.nonce \in Nat /\ a.feesmanager \in {NoName, fees}
           /\ a.past \in SUBSET [notused: Nat, event_id: {m.preimage : m \in Metadata}]
           /\ a.userdata \in [Account -> Data]
BY DEF AdapterTables

\* Two fields of the adapter's tables change.
LEMMA AdapterFields ==
    ASSUME NEW a \in AdapterTables, NEW past, NEW nonce, NEW userdata
    PROVE  /\ [a EXCEPT !.past = past, !.nonce = nonce] =
                [registry |-> a.registry, nonce |-> nonce, feesmanager |-> a.feesmanager,
                 past |-> past, userdata |-> a.userdata]
           /\ [a EXCEPT !.nonce = nonce, !.userdata = userdata] =
                [registry |-> a.registry, nonce |-> nonce, feesmanager |-> a.feesmanager,
                 past |-> a.past, userdata |-> userdata]
<1> DEFINE b == a.registry
           c == a.nonce
           f == a.feesmanager
           g == a.past
           h == a.userdata
<1>1. a = [registry |-> b, nonce |-> c, feesmanager |-> f, past |-> g, userdata |-> h]
    BY DEF AdapterTables
<1> HIDE DEF b, c, f, g, h
<1> DEFINE x == [registry |-> b, nonce |-> c, feesmanager |-> f, past |-> past, userdata |-> h]
           y == [registry |-> b, nonce |-> nonce, feesmanager |-> f, past |-> g, userdata |-> h]
           v == [registry |-> b, nonce |-> nonce, feesmanager |-> f, past |-> past, userdata |-> h]
           w == [registry |-> b, nonce |-> nonce, feesmanager |-> f, past |-> g, userdata |-> userdata]
<1>2. [a EXCEPT !.past = past] = x /\ [a EXCEPT !.nonce = nonce] = y
    BY <1>1
<1>3. [x EXCEPT !.nonce = nonce] = v /\ [y EXCEPT !.userdata = userdata] = w
    OBVIOUS
<1>4. [a EXCEPT !.past = past, !.nonce = nonce] = v /\ [a EXCEPT !.nonce = nonce, !.userdata = userdata] = w
    <2> HIDE DEF x, y, v, w
    <2> QED
        BY <1>2, <1>3
<1> QED
    BY <1>4 DEF b, c, f, g, h

\* A settled event is one more, under the number that was next.
LEMMA SettledAdded ==
    ASSUME NEW d, TablesOK(d), NEW id \in {m.preimage : m \in Metadata},
           id \notin SettledEvents(d), ~\E r \in d.adapter.past : r.notused = d.adapter.nonce
    PROVE  LET e == [d EXCEPT !.adapter = A!Settled(@, id)]
           IN  /\ TablesOK(e) /\ Extends(e, d) /\ e.adapter.nonce = d.adapter.nonce + 1
               /\ e.token = d.token /\ e.xtoken = d.xtoken /\ e.events = d.events
               /\ SettledEvents(e) = SettledEvents(d) \cup {id}
               /\ Numbers(e) = Numbers(d) \cup {d.adapter.nonce}
               /\ \A k \in Count : Level(k, e) = Level(k, d) -
                     IF k.of = "backed" THEN UnitsOf(id) ELSE 0
<1> DEFINE a == d.adapter
           r == [notused |-> a.nonce, event_id |-> id]
           v == A!Settled(a, id)
           e == [d EXCEPT !.adapter = v]
<1>1. a \in AdapterTables /\ IsFiniteSet(a.past) /\ a.nonce \in Nat
    BY DEF TablesOK, AdapterTables
<1>2. r \notin a.past /\ r \in [notused: Nat, event_id: {m.preimage : m \in Metadata}]
    BY <1>1
<1>3. v \in AdapterTables /\ v.past = a.past \cup {r} /\ v.nonce = a.nonce + 1 /\ v.userdata = a.userdata
    <2> DEFINE w == [registry |-> a.registry, nonce |-> a.nonce + 1,
                     feesmanager |-> a.feesmanager, past |-> a.past \cup {r},
                     userdata |-> a.userdata]
    <2>1. v = w
        <3> HIDE DEF a
        <3>1. v = [a EXCEPT !.past = a.past \cup {r}, !.nonce = a.nonce + 1]
            BY <1>1, AdapterFields DEF A!Settled
        <3> QED
            BY <1>1, <3>1, AdapterFields
    <2>2. w \in AdapterTables
        <3>1. /\ a.registry \in {Unset, Registry} /\ a.feesmanager \in {NoName, fees}
              /\ a.nonce + 1 \in Nat
              /\ a.past \in SUBSET [notused: Nat, event_id: {m.preimage : m \in Metadata}]
              /\ a.userdata \in [Account -> Data]
            BY <1>1, AdapterTypes
        <3>2. a.past \cup {r} \in SUBSET [notused: Nat, event_id: {m.preimage : m \in Metadata}]
            <4> HIDE DEF a, r
            <4> QED
                BY <1>2, <3>1
        <3> HIDE DEF a, r
        <3> QED
            BY <3>1, <3>2 DEF AdapterTables
    <2> QED
        BY <2>1, <2>2
<1>4. /\ IsFiniteSet(v.past) /\ Cardinality(v.past) = Cardinality(a.past) + 1
      /\ Cardinality(a.past) \in Nat
    BY <1>1, <1>2, <1>3, FS_AddElement, FS_CardinalityType
<1> HIDE DEF v
<1>5. /\ TablesOK(e) /\ e.adapter = v /\ e.events = d.events /\ Extends(e, d)
      /\ e.token = d.token /\ e.xtoken = d.xtoken
      /\ \A k \in Count : Level(k, e) = Level(k, d) +
            IF k.of = "backed" THEN SettledUnits(d) - SettledUnits(e)
            ELSE IF k.of = "number"
            THEN v.nonce - d.adapter.nonce - Cardinality(v.past) + Cardinality(d.adapter.past)
            ELSE IF k.of = "data"
            THEN (IF v.userdata[k.user] = k.data THEN 1 ELSE 0)
                 - (IF d.adapter.userdata[k.user] = k.data THEN 1 ELSE 0)
            ELSE 0
    BY <1>3, <1>4, AdapterChanged
<1> HIDE DEF e
<1>6. Numbers(e) = Numbers(d) \cup {a.nonce}
    <2> DEFINE N == {d.events[i].nonce : i \in DOMAIN d.events}
    <2>1. Numbers(e) = {x.notused : x \in a.past \cup {r}} \cup N
        BY <1>3, <1>5 DEF Numbers
    <2>2. Numbers(d) = {x.notused : x \in a.past} \cup N
        BY DEF Numbers
    <2>3. {x.notused : x \in a.past \cup {r}} = {x.notused : x \in a.past} \cup {r.notused}
        <3> HIDE DEF a, r
        <3> QED
            OBVIOUS
    <2>4. r.notused = a.nonce
        OBVIOUS
    <2> HIDE DEF a, r, N
    <2> QED
        BY <2>1, <2>2, <2>3, <2>4
<1>7. SettledEvents(e) = SettledEvents(d) \cup {id}
    <2> DEFINE S == SettledEvents(d)
               U == SettledEvents(e)
    <2>1. U = {x.event_id : x \in a.past \cup {r}} /\ S = {x.event_id : x \in a.past}
        BY <1>3, <1>5 DEF SettledEvents
    <2>2. {x.event_id : x \in a.past \cup {r}} = {x.event_id : x \in a.past} \cup {r.event_id}
        <3> HIDE DEF a, r
        <3> QED
            OBVIOUS
    <2>3. r.event_id = id
        OBVIOUS
    <2> HIDE DEF S, U, r, a
    <2>4. U = S \cup {id}
        BY <2>1, <2>2, <2>3
    <2> QED
        BY <2>4 DEF S, U
<1>8. SettledUnits(e) = SettledUnits(d) + UnitsOf(id)
    <2> DEFINE S == SettledEvents(d)
               U == SettledEvents(e)
               f == [x \in S |-> UnitsOf(x)]
               g == [x \in U |-> UnitsOf(x)]
    <2>1. U = S \cup {id}
        BY <1>7
    <2>2. IsFiniteSet(S) /\ \A x \in S \cup {id} : UnitsOf(x) \in Int
        BY SettledFinite, UnitsType DEF SettledEvents, TablesOK, AdapterTables
    <2>3. SettledUnits(d) = SumFunctionOnSet(f, S) /\ SettledUnits(e) = SumFunctionOnSet(g, U)
        BY DEF SettledUnits, SumFunction
    <2>4. \A x \in S \cup {id} : g[x] = UnitsOf(x)
        BY <2>1
    <2>5. \A x \in S : f[x] = g[x]
        BY <2>1
    <2> HIDE DEF f, g, S, U
    <2>6. SumFunctionOnSet(f, S) = SumFunctionOnSet(g, S)
        BY <2>2, <2>5, SumSame
    <2>7. id \notin S
        BY DEF S
    <2>8. SumFunctionOnSet(g, S \cup {id}) = SumFunctionOnSet(g, S) + g[id]
        BY <2>2, <2>4, <2>7, SumAdd
    <2> QED
        BY <2>1, <2>3, <2>4, <2>6, <2>8
<1>9. ASSUME NEW k \in Count
      PROVE  Level(k, e) = Level(k, d) - IF k.of = "backed" THEN UnitsOf(id) ELSE 0
    <2>1. Level(k, d) \in Int /\ SettledUnits(d) \in Int /\ UnitsOf(id) \in Int
        BY LevelParts, CountKinds, UnitsType
    <2>2. CASE k.of = "backed"
        BY <1>5, <1>8, <2>1, <2>2
    <2>3. CASE k.of = "number"
        <3> DEFINE x == Cardinality(v.past)
                   y == Cardinality(a.past)
        <3>1. Level(k, e) = Level(k, d) + (v.nonce - a.nonce - x + y)
            BY <1>5, <2>3
        <3>2. x = y + 1 /\ v.nonce = a.nonce + 1 /\ y \in Nat /\ a.nonce \in Nat
            BY <1>1, <1>3, <1>4
        <3> HIDE DEF x, y, a
        <3> QED
            BY <2>1, <2>3, <3>1, <3>2
    <2>4. CASE k.of = "data"
        <3> DEFINE z == IF a.userdata[k.user] = k.data THEN 1 ELSE 0
        <3>1. Level(k, e) = Level(k, d) + (z - z) /\ z \in Int
            BY <1>3, <1>5, <2>4
        <3> HIDE DEF z
        <3> QED
            BY <2>1, <2>4, <3>1
    <2>5. CASE k.of \notin {"backed", "number", "data"}
        BY <1>5, <2>1, <2>5
    <2> QED
        BY <2>2, <2>3, <2>4, <2>5
<1> QED
    BY <1>3, <1>5, <1>6, <1>7, <1>9 DEF e, v, a

\* To the meters, one more event is settled.
LEMMA SettledMeters ==
    ASSUME NEW k \in Meter, Contracts = {}, NEW d, TablesOK(d), NEW e, NEW id,
           id \notin SettledEvents(d), SettledEvents(e) = SettledEvents(d) \cup {id},
           e.token = d.token, e.xtoken = d.xtoken, e.events = d.events
    PROVE  Level(k, e) = Level(k, d) + IF k.of = "settled" /\ id = k.data THEN 1 ELSE 0
<1>1. IsMeter(k) /\ k \in Gauge
    BY MeterKinds DEF Gauge
<1>2. Level(k, d) \in Int
    BY <1>1, LevelType
<1>3. CASE k.of = "settled"
    BY <1>1, <1>3 DEF Level, MeterLevel
<1>4. CASE k.of # "settled"
    <2>1. Balance(e, k.user) = Balance(d, k.user) /\ SwappedUnits(e) = SwappedUnits(d)
        BY DEF Balance, SwappedUnits
    <2>2. Level(k, e) = Level(k, d)
        BY <1>1, <1>4, <2>1 DEF Level, MeterLevel
    <2> QED
        BY <1>2, <1>4, <2>2
<1> QED
    BY <1>3, <1>4

\* What a settlement sends is worth what it settles.
LEMMA SettleMints ==
    ASSUME NEW lock \in {NoName, lockbox}, NEW a \in AdapterTables, a.registry = Registry,
           NEW m \in Metadata, NEW op, op.amount = m.preimage.content.amount,
           op.recipient = m.preimage.content.recipient, op.recipient \in Account
    PROVE  LET s == A!SettleSends(a, op, lock)
           IN  /\ s \in Seq(Sendable) /\ Named(Members(s)) = {}
               /\ \A k \in Count : Total(Weights(k, s)) =
                     IF k.of = "backed" THEN UnitsOf(m.preimage) ELSE 0
               /\ Contracts = {} => \A k \in Meter : Total(Weights(k, s)) =
                     IF k.of = "wallet" /\ op.recipient = k.user THEN UnitsOf(m.preimage)
                     ELSE IF k.of = "refused" /\ op.recipient = lockbox /\ op.amount # 0
                     THEN 1 ELSE 0
<1> DEFINE s == A!SettleSends(a, op, lock)
           to == IF lock = NoName THEN op.recipient ELSE lock
           q == UnitsOf(m.preimage)
           n == Message(xtokenAccount, "mint", adapter, to, XSymbol, q, op.recipient)
<1>1. Registry.xerc20 = xtokenAccount /\ Registry.xerc20_symbol = XSymbol
    BY DEF Registry
<1>2. q = A!AdjustPrecision(op.amount) /\ q \in Int
    BY UnitsType DEF UnitsOf
<1>3. CASE op.amount = 0
    <2>1. s = <<>>
        BY <1>3 DEF A!SettleSends
    <2>2. q = 0
        BY <1>2, <1>3, NothingAdjusted
    <2>3. <<>> \in Seq(Sendable) /\ Named(Members(<<>>)) = {}
        BY EmptySeq DEF Named, Members
    <2> HIDE DEF s, q
    <2> QED
        BY <1>3, <2>1, <2>2, <2>3, WeightsOfNone DEF s, q
<1>4. CASE op.amount # 0
    <2>1. s = <<n>>
        BY <1>1, <1>2, <1>4 DEF A!SettleSends, A!Message, Message
    <2>2. to \in Account /\ op.recipient \in AnyMemo
        BY AccountFacts DEF AnyMemo
    <2>3. n \in Mints /\ n.from = adapter /\ n.to = to /\ n.amount = q /\ n.memo = op.recipient
        <3> HIDE DEF to, q
        <3> QED
            BY <1>2, <2>2, AccountFacts DEF Mints, Moves, Message
    <2> HIDE DEF n
    <2>4. n \in Sendable /\ n \notin Swaps
        BY <2>3, OneKind DEF Sendable
    <2>5. <<n>> \in Seq(Sendable) /\ Named(Members(<<n>>)) = {}
        BY <2>4 DEF Named, Members
    <2>6. ASSUME NEW k \in Count PROVE Total(Weights(k, <<n>>)) = IF k.of = "backed" THEN q ELSE 0
        <3>1. k.of = "xadapter" => to # adapter
            <4>1. k.of = "xadapter" => NoneForAdapter
                BY DEF Count
            <4>2. lockbox # adapter
                BY AccountsAssumption
            <4> QED
                BY <4>1, <4>2 DEF NoneForAdapter
        <3>2. adapter # lockbox
            BY AccountsAssumption
        <3>3. Weight(k, n) = IF k.of = "backed" THEN q ELSE 0
            <4> HIDE DEF to, q
            <4> QED
                BY <2>3, <3>1, <3>2, MintWeight
        <3> QED
            BY <2>4, <3>3, CountKinds, WeightsOfOne
    <2>7. ASSUME NEW k \in Meter, Contracts = {}
          PROVE  Total(Weights(k, <<n>>)) =
                     IF k.of = "wallet" /\ op.recipient = k.user THEN q
                     ELSE IF k.of = "refused" /\ op.recipient = lockbox THEN 1 ELSE 0
        <3>1. /\ adapter # lockbox /\ lockbox # NoName
              /\ k.of = "wallet" => k.user # adapter /\ k.user # lockbox
            BY AccountsAssumption, AccountFacts, WalletMeters
        <3>2. lockbox \notin SwapMemo
            BY AccountFacts, MemosAssumption
        <3>3. Weight(k, n) = IF to = adapter THEN 0
                             ELSE IF to = lockbox THEN Reaches(k, op.recipient, q) ELSE Paid(k, to, q)
            <4> HIDE DEF to, q
            <4> QED
                BY <2>3, <3>1, MintMeters
        <3>4. Reaches(k, op.recipient, q) =
                IF k.of = "wallet" /\ op.recipient = k.user THEN q
                ELSE IF k.of = "refused" /\ op.recipient = lockbox THEN 1 ELSE 0
            <4> HIDE DEF q
            <4> QED
                BY <3>1, <3>2 DEF Reaches, Swapping, Paid
        <3>5. Weight(k, n) =
                IF k.of = "wallet" /\ op.recipient = k.user THEN q
                ELSE IF k.of = "refused" /\ op.recipient = lockbox THEN 1 ELSE 0
            <4> HIDE DEF q
            <4> QED
                BY <3>1, <3>3, <3>4 DEF Paid
        <3>6. k \in Gauge
            BY <2>7 DEF Gauge
        <3> QED
            BY <2>4, <3>5, <3>6, WeightsOfOne
    <2> QED
        BY <1>4, <2>1, <2>5, <2>6, <2>7
<1> QED
    BY <1>3, <1>4

\* settle: the event becomes past and its mint is sent.
LEMMA AdapterSettleStep == IInv /\ AdapterSettle => IInv'
<1> SUFFICES ASSUME IInv, AdapterSettle PROVE IInv'
    OBVIOUS
<1> DEFINE m == Act
           op == m.operation
           id == m.metadata.preimage
           authorized == P!IsAuthorized(db.pam, op, m.metadata)
           checks == A!CanSettle(db.adapter, op, id, authorized, db.xtoken.lockbox)
           e == [db EXCEPT !.adapter = A!Settled(@, id)]
           receivers == IF A!SettleNotifies(op) THEN Notify(Told, op.recipient) ELSE Told
           s == A!SettleSends(db.adapter, op, db.xtoken.lockbox)
<1>1. Executes(adapter) /\ m.code = adapter /\ m.name = "settle" /\ Handle(checks, e, receivers, s)
    BY DEF AdapterSettle, Runs
<1>2. m \in Sendable \cup Settles /\ Lists(Told, m.code)
    BY <1>1, FirstIsCode
<1>3. m \in Settles
    <2> HIDE DEF m
    <2> QED
        BY <1>1, <1>2, MessageKinds
<1>4. TablesOK(db) /\ db.adapter.nonce \in Nat
    BY DEF IInv, Balanced, TablesOK, AdapterTables
<1>5. ASSUME checks PROVE RunOK(Head(stack), db, e, receivers, s)
    <2> DEFINE f == Head(stack)
               n == db.adapter.nonce
    <2>1. f.act = m
        BY DEF Act
    <2>2. m.metadata \in Metadata /\ id \in {x.preimage : x \in Metadata}
        <3> HIDE DEF m
        <3>1. m.metadata \in Metadata
            BY <1>3 DEF Settles
        <3> QED
            BY <3>1
    <2>3. /\ op.amount = id.content.amount /\ op.recipient = id.content.recipient
          /\ op.recipient \in Account
        <3>1. authorized
            BY <1>5 DEF A!CanSettle
        <3> QED
            BY <3>1 DEF P!IsAuthorized, P!ContentMatches
    <2>4. /\ db.adapter.registry = Registry /\ id \notin SettledEvents(db)
          /\ ~\E r \in db.adapter.past : r.notused = db.adapter.nonce
        <3>1. /\ db.adapter.registry # Unset
              /\ ~\E r \in db.adapter.past : r.event_id = id
              /\ ~\E r \in db.adapter.past : r.notused = db.adapter.nonce
            BY <1>5 DEF A!CanSettle, A!IsCreated, A!IsPast
        <3>2. db.adapter.registry \in {Unset, Registry}
            BY <1>4 DEF TablesOK, AdapterTables
        <3> QED
            BY <3>1, <3>2 DEF SettledEvents
    <2>5. /\ TablesOK(e) /\ Extends(e, db) /\ e.adapter.nonce = n + 1
          /\ Numbers(e) = Numbers(db) \cup {n}
          /\ e.token = db.token /\ e.xtoken = db.xtoken /\ e.events = db.events
          /\ SettledEvents(e) = SettledEvents(db) \cup {id}
          /\ \A k \in Count : Level(k, e) = Level(k, db) - IF k.of = "backed" THEN UnitsOf(id) ELSE 0
        BY <1>4, <2>2, <2>4, SettledAdded
    <2>6. db.adapter \in AdapterTables /\ db.xtoken.lockbox \in {NoName, lockbox}
        BY <1>4 DEF TablesOK, XTokenOK
    <2>7. /\ s \in Seq(Sendable) /\ Named(Members(s)) = {}
          /\ \A k \in Count : Total(Weights(k, s)) = IF k.of = "backed" THEN UnitsOf(id) ELSE 0
          /\ Contracts = {} => \A k \in Meter : Total(Weights(k, s)) =
                IF k.of = "wallet" /\ op.recipient = k.user THEN UnitsOf(id)
                ELSE IF k.of = "refused" /\ op.recipient = lockbox /\ op.amount # 0 THEN 1 ELSE 0
        <3> DEFINE y == m.metadata
                   a == db.adapter
                   lock == db.xtoken.lockbox
        <3>1. y \in Metadata /\ op.amount = y.preimage.content.amount
              /\ op.recipient = y.preimage.content.recipient /\ op.recipient \in Account
            BY <2>2, <2>3
        <3>2. a \in AdapterTables /\ a.registry = Registry /\ lock \in {NoName, lockbox}
            BY <2>4, <2>6
        <3> HIDE DEF y, op, a, lock
        <3>3. LET z == A!SettleSends(a, op, lock)
              IN  /\ z \in Seq(Sendable) /\ Named(Members(z)) = {}
                  /\ \A k \in Count : Total(Weights(k, z)) =
                        IF k.of = "backed" THEN UnitsOf(y.preimage) ELSE 0
                  /\ Contracts = {} => \A k \in Meter : Total(Weights(k, z)) =
                        IF k.of = "wallet" /\ op.recipient = k.user THEN UnitsOf(y.preimage)
                        ELSE IF k.of = "refused" /\ op.recipient = lockbox /\ op.amount # 0
                        THEN 1 ELSE 0
            BY <3>1, <3>2, SettleMints
        <3> QED
            BY <3>3 DEF y, a, lock
    <2>8. Lists(receivers, m.code)
        BY <1>2, <2>3, NotifyLists
    <2>9. /\ \A k \in Count : Effect(k, m) = 0
          /\ \A k \in Meter : Effect(k, m) =
                IF k.of = "wallet" /\ op.recipient = k.user THEN UnitsOf(id)
                ELSE IF k.of = "settled" /\ id = k.data THEN 1
                ELSE IF k.of = "refused" /\ op.recipient = lockbox /\ op.amount # 0 THEN 1 ELSE 0
          /\ \A k, r : Share(k, r, m) = 0
        <3> HIDE DEF m
        <3> QED
            BY <1>3, <2>3, SettleWeight
    <2>10. Named({m}) = {}
        BY <1>3, OneKind DEF Named
    <2> HIDE DEF f, e, s, receivers, m, op, id, checks, authorized
    <2>11. ASSUME NEW k \in Gauge
           PROVE  Level(k, e) + Total(Weights(k, s)) = Level(k, db) + Effect(k, m)
        <3>1. Level(k, db) \in Int /\ UnitsOf(id) \in Int
            BY <1>4, <2>2, LevelType, UnitsType
        <3>2. CASE k \in Count
            BY <2>5, <2>7, <2>9, <3>1, <3>2
        <3>3. CASE k \in Meter /\ Contracts = {}
            <4>1. Level(k, e) = Level(k, db) + IF k.of = "settled" /\ id = k.data THEN 1 ELSE 0
                BY <1>4, <2>4, <2>5, <3>3, SettledMeters
            <4> QED
                BY <2>7, <2>9, <3>1, <3>3, <4>1
        <3> QED
            BY <3>2, <3>3, GaugeKinds
    <2>12. db.adapter.nonce .. e.adapter.nonce - 1 = {n}
        <3>1. e.adapter.nonce = n + 1
            BY <2>5
        <3> DEFINE o == e.adapter.nonce
        <3>2. o = n + 1 /\ n \in Nat
            BY <1>4, <3>1
        <3> HIDE DEF n, o
        <3>3. n .. o - 1 = {n}
            BY <3>2
        <3> QED
            BY <3>3 DEF n, o
    <2>13. /\ TablesOK(e) /\ Extends(e, db) /\ db.adapter.nonce <= e.adapter.nonce
           /\ s \in Seq(Sendable)
        BY <1>4, <2>5, <2>7
    <2>14. \A k \in Gauge : \A r \in {adapter, lockbox} :
              Share(k, r, m) # 0 => r # m.code /\ Has(receivers, r)
        BY <2>9
    <2>15. Numbers(e) \cup Named(Members(s))
             = Numbers(db) \cup Named({m}) \cup (db.adapter.nonce .. e.adapter.nonce - 1)
        BY <2>5, <2>7, <2>10, <2>12
    <2> QED
        BY <2>1, <2>8, <2>11, <2>13, <2>14, <2>15 DEF RunOK, f
<1> HIDE DEF e, s, receivers, op, id, checks, authorized
<1> QED
    BY <1>1, <1>5, RunHandled

-----------------------------------------------------------------------------
\* The adapter passes on what it is sent.

\* Units times the unit, over the unit, are the units.
LEMMA UnitsBack == ASSUME NEW x \in Int, NEW u \in Nat \ {0} PROVE (x * u) \div u = x
OBVIOUS

\* The fee is an integer, the one the meters take for granted.
LEMMA FeesType ==
    ASSUME NEW a, a.registry = Registry, NEW amount \in Int
    PROVE  A!CalculateFees(a, amount) \in Int /\ A!CalculateFees(a, amount) = Fee(amount)
<1> DEFINE fee == (FEE_BASIS_POINTS * amount) \div FEE_BASIS_POINTS_DIVISOR
<1>1. FEE_BASIS_POINTS * amount \in Int /\ FEE_BASIS_POINTS_DIVISOR \in Nat \ {0}
    BY ChainAssumption
<1>2. fee \in Int
    BY <1>1
<1>3. a.registry.min_fee = MinFee /\ MinFee \in Int
    BY QuantitiesAssumption DEF Registry
<1> HIDE DEF fee
<1>4. A!CalculateFees(a, amount) = IF fee < a.registry.min_fee THEN a.registry.min_fee ELSE fee
    BY DEF A!CalculateFees, fee
<1>5. Fee(amount) = IF fee < MinFee THEN MinFee ELSE fee
    BY DEF Fee, fee
<1> QED
    BY <1>2, <1>3, <1>4, <1>5

\* A swap takes the next number and the sender's data.
LEMMA SwapReceived ==
    ASSUME NEW d, TablesOK(d), NEW m, ~A!IsTokenTransfer(d.adapter, m), m.memo.sender \in Account
    PROVE  LET e == [d EXCEPT !.adapter = A!Received(@, m)]
           IN  /\ TablesOK(e) /\ Extends(e, d) /\ e.adapter.nonce = d.adapter.nonce + 1
               /\ e.token = d.token /\ e.xtoken = d.xtoken /\ e.events = d.events
               /\ e.adapter.past = d.adapter.past /\ Numbers(e) = Numbers(d)
               /\ \A k \in Count : Level(k, e) = Level(k, d) +
                     IF k.of = "number" THEN 1
                     ELSE IF /\ k.of = "data" /\ m.memo.has_userdata /\ m.memo.sender = k.user
                             /\ d.adapter.userdata[k.user] = k.data THEN -1
                     ELSE 0
<1> DEFINE a == d.adapter
           h == IF ~m.memo.has_userdata THEN a.userdata
                ELSE [a.userdata EXCEPT ![m.memo.sender] = NoData]
           v == [registry |-> a.registry, nonce |-> a.nonce + 1, feesmanager |-> a.feesmanager,
                 past |-> a.past, userdata |-> h]
           e == [d EXCEPT !.adapter = v]
<1>1. a \in AdapterTables /\ IsFiniteSet(a.past)
    BY DEF TablesOK
<1>2. A!Received(a, m) = v
    <2>1. A!Received(a, m) = [a EXCEPT !.nonce = a.nonce + 1, !.userdata = h]
        <3> HIDE DEF a
        <3> QED
            BY DEF A!Received, a
    <2> HIDE DEF a, h
    <2> QED
        BY <1>1, <2>1, AdapterFields
<1>3. /\ a.registry \in {Unset, Registry} /\ a.nonce \in Nat /\ a.feesmanager \in {NoName, fees}
      /\ a.past \in SUBSET [notused: Nat, event_id: {x.preimage : x \in Metadata}]
      /\ a.userdata \in [Account -> Data]
    BY <1>1, AdapterTypes
<1>4. h \in [Account -> Data]
    <2> HIDE DEF a
    <2> QED
        BY <1>3 DEF Data
<1>5. v \in AdapterTables /\ v.past = a.past /\ v.nonce = a.nonce + 1 /\ v.userdata = h
    <2> HIDE DEF a, h
    <2> QED
        BY <1>3, <1>4 DEF AdapterTables
<1> HIDE DEF v
<1>6. /\ TablesOK(e) /\ e.adapter = v /\ e.events = d.events /\ Extends(e, d)
      /\ e.token = d.token /\ e.xtoken = d.xtoken
      /\ \A k \in Count : Level(k, e) = Level(k, d) +
            IF k.of = "backed" THEN SettledUnits(d) - SettledUnits(e)
            ELSE IF k.of = "number"
            THEN v.nonce - d.adapter.nonce - Cardinality(v.past) + Cardinality(d.adapter.past)
            ELSE IF k.of = "data"
            THEN (IF v.userdata[k.user] = k.data THEN 1 ELSE 0)
                 - (IF d.adapter.userdata[k.user] = k.data THEN 1 ELSE 0)
            ELSE 0
    BY <1>1, <1>5, AdapterChanged
<1> HIDE DEF e
<1>7. SettledUnits(e) = SettledUnits(d) /\ Numbers(e) = Numbers(d)
    BY <1>5, <1>6, SameRecords
<1>8. ASSUME NEW k \in Count
      PROVE  Level(k, e) = Level(k, d) +
                     IF k.of = "number" THEN 1
                     ELSE IF /\ k.of = "data" /\ m.memo.has_userdata /\ m.memo.sender = k.user
                             /\ d.adapter.userdata[k.user] = k.data THEN -1
                     ELSE 0
    <2>1. Level(k, d) \in Int /\ SettledUnits(d) \in Int
        BY LevelParts, CountKinds
    <2>2. CASE k.of = "backed"
        BY <1>6, <1>7, <2>1, <2>2
    <2>3. CASE k.of = "number"
        <3> DEFINE y == Cardinality(a.past)
        <3>1. Level(k, e) = Level(k, d) + (v.nonce - a.nonce - y + y)
            BY <1>5, <1>6, <2>3
        <3>2. v.nonce = a.nonce + 1 /\ a.nonce \in Nat /\ y \in Nat
            BY <1>1, <1>3, <1>5, FS_CardinalityType
        <3> HIDE DEF y, a
        <3> QED
            BY <2>1, <2>3, <3>1, <3>2
    <2>4. CASE k.of = "data"
        <3>1. k.user \in Account /\ k.data # NoData
            BY <2>4, AccountFacts DEF Count
        <3> DEFINE o == IF a.userdata[k.user] = k.data THEN 1 ELSE 0
                   n == IF h[k.user] = k.data THEN 1 ELSE 0
                   b == m.memo.has_userdata /\ m.memo.sender = k.user /\ a.userdata[k.user] = k.data
        <3>2. Level(k, e) = Level(k, d) + (n - o)
            BY <1>5, <1>6, <2>4
        <3>3. n - o = IF b THEN -1 ELSE 0
            <4> DEFINE u == a.userdata
            <4>1. u \in [Account -> Data]
                BY <1>3
            <4>2. h = IF ~m.memo.has_userdata THEN u ELSE [u EXCEPT ![m.memo.sender] = NoData]
                OBVIOUS
            <4> HIDE DEF u
            <4>3. h[k.user] = IF m.memo.has_userdata /\ m.memo.sender = k.user THEN NoData ELSE u[k.user]
                BY <3>1, <4>1, <4>2
            <4> HIDE DEF h, a
            <4> QED
                BY <3>1, <4>3 DEF u
        <3> HIDE DEF o, n
        <3>4. Level(k, e) = Level(k, d) + IF b THEN -1 ELSE 0
            BY <3>2, <3>3
        <3> QED
            BY <2>4, <3>4
    <2>5. CASE k.of \notin {"backed", "number", "data"}
        BY <1>6, <2>1, <2>5
    <2> QED
        BY <2>2, <2>3, <2>4, <2>5
<1> QED
    BY <1>2, <1>5, <1>6, <1>7, <1>8 DEF e

\* Three actions weigh what all weigh.
LEMMA WeightsOfThree ==
    ASSUME NEW k \in Gauge, NEW l \in Sendable, NEW m \in Sendable, NEW n \in Sendable
    PROVE  /\ <<l, m, n>> \in Seq(Sendable) /\ Members(<<l, m, n>>) = {l, m, n}
           /\ Total(Weights(k, <<l, m, n>>)) = Weight(k, l) + (Weight(k, m) + Weight(k, n))
<1>1. <<l, m, n>> = <<l>> \o <<m, n>> /\ <<l>> \in Seq(Sendable) /\ <<l, m, n>> \in Seq(Sendable)
    <2> DEFINE S == Sendable
    <2>1. l \in S /\ m \in S /\ n \in S
        OBVIOUS
    <2> HIDE DEF S
    <2>2. <<l>> \in Seq(S) /\ <<m, n>> \in Seq(S) /\ <<l, m, n>> \in Seq(S)
        BY <2>1
    <2> DEFINE s == <<l>>
               t == <<m, n>>
               u == <<l, m, n>>
    <2>3. /\ Len(s) = 1 /\ Len(t) = 2 /\ Len(u) = 3 /\ s[1] = l /\ t[1] = m /\ t[2] = n
          /\ u[1] = l /\ u[2] = m /\ u[3] = n
        OBVIOUS
    <2>4. s \in Seq(S) /\ t \in Seq(S) /\ u \in Seq(S)
        BY <2>2
    <2> HIDE DEF s, t, u
    <2>5. /\ s \o t \in Seq(S) /\ Len(s \o t) = Len(s) + Len(t)
          /\ \A i \in 1 .. Len(s) + Len(t) :
                (s \o t)[i] = IF i <= Len(s) THEN s[i] ELSE t[i - Len(s)]
        BY <2>4, ConcatProperties
    <2>6. 1 + 2 = 3 /\ 2 - 1 = 1 /\ 3 - 1 = 2
        OBVIOUS
    <2>7. Len(s \o t) = 3 /\ \A i \in 1 .. 3 : (s \o t)[i] = IF i <= 1 THEN s[i] ELSE t[i - 1]
        BY <2>3, <2>5, <2>6
    <2>8. (s \o t)[1] = l /\ (s \o t)[2] = m /\ (s \o t)[3] = n
        <3>1. (s \o t)[1] = s[1] /\ (s \o t)[2] = t[2 - 1] /\ (s \o t)[3] = t[3 - 1]
            BY <2>7
        <3> QED
            BY <2>3, <2>6, <3>1
    <2>9. \A i \in 1 .. 3 : i = 1 \/ i = 2 \/ i = 3
        OBVIOUS
    <2>10. \A i \in 1 .. Len(u) : u[i] = (s \o t)[i]
        BY <2>3, <2>8, <2>9
    <2>11. u = s \o t
        BY <2>3, <2>4, <2>5, <2>7, <2>10, SeqEqual
    <2> QED
        BY <2>2, <2>11 DEF S, s, t, u
<1>2. <<m, n>> \in Seq(Sendable) /\ Total(Weights(k, <<m, n>>)) = Weight(k, m) + Weight(k, n)
    BY WeightsOfTwo
<1>3. Total(Weights(k, <<l>> \o <<m, n>>)) = Total(Weights(k, <<l>>)) + Total(Weights(k, <<m, n>>))
    BY <1>1, <1>2, WeightsConcat
<1>4. Total(Weights(k, <<l>>)) = Weight(k, l)
    BY WeightsOfOne
<1>5. Members(<<l, m, n>>) = {l, m, n}
    <2> DEFINE u == <<l, m, n>>
    <2>1. DOMAIN u = {1, 2, 3} /\ u[1] = l /\ u[2] = m /\ u[3] = n
        <3>1. 1 .. 3 = {1, 2, 3}
            OBVIOUS
        <3> QED
            BY <3>1
    <2> HIDE DEF u
    <2>2. Members(u) = {l, m, n}
        BY <2>1 DEF Members
    <2> QED
        BY <2>2 DEF u
<1> QED
    BY <1>1, <1>2, <1>3, <1>4, <1>5

\* Fees, burning and the event: worth what was sent, with the number and the
\* data that are taken for the event.
LEMMA SwapSends ==
    ASSUME NEW a \in AdapterTables, a.registry = Registry, NEW lock,
           NEW m \in XTokenTransfers \cup Mints, m.to = adapter, m.from # adapter,
           A!CanSwap(a, m), ~A!IsTokenTransfer(a, m)
    PROVE  LET s == A!ReceiveSends(a, m, lock)
           IN  /\ s \in Seq(Sendable) /\ Named(Members(s)) = {a.nonce}
               /\ \A k \in Count : Total(Weights(k, s)) =
                     IF k.of = "xadapter" THEN -m.amount
                     ELSE IF k.of = "number" THEN -1
                     ELSE IF /\ k.of = "data" /\ m.memo.has_userdata /\ m.memo.sender = k.user
                             /\ a.userdata[k.user] = k.data THEN 1
                     ELSE 0
               /\ Contracts = {} =>
                     \A k \in Meter : Total(Weights(k, s)) = Swapping(k, m.amount, m.memo)
<1> DEFINE fee == A!CalculateFees(a, m.amount)
           left == m.amount - fee
           x == A!SwapEvent(a, m)
           s == A!ReceiveSends(a, m, lock)
           l == Message(xtokenAccount, "transfer", adapter, a.feesmanager, XSymbol, fee, NoMemo)
           b == Message(xtokenAccount, "burn", adapter, adapter, XSymbol, left, m.memo)
           n == Message(adapter, "swap", adapter, adapter, XSymbol, 0, x)
<1>1. Registry.xerc20 = xtokenAccount
    BY DEF Registry
<1>2. m.amount \in Int /\ m.symbol = XSymbol /\ fee \in Int /\ fee = Fee(m.amount)
    <2>1. m.amount \in Int /\ m.symbol = XSymbol
        BY DEF XTokenTransfers, Mints, Moves
    <2> QED
        BY <2>1, FeesType
<1>3. /\ a.feesmanager \in Account /\ m.memo \in SwapMemo /\ m.memo.sender \in Account
      /\ m.memo.has_userdata => a.userdata[m.memo.sender] # NoData
      /\ a.feesmanager = fees /\ fees \notin {adapter, lockbox}
    BY AdapterTypes, AccountsAssumption DEF A!CanSwap, A!CanExtract
<1>4. a.nonce \in Nat /\ a.userdata \in [Account -> Data]
    BY AdapterTypes
<1>5. left \in Int
    BY <1>2
<1>6. x = [nonce |-> a.nonce, token |-> A!TokenWord(Registry.token), chain |-> m.memo.chain,
           amount |-> left * Unit, sender |-> m.memo.sender, recipient |-> m.memo.recipient,
           data |-> IF m.memo.has_userdata THEN a.userdata[m.memo.sender] ELSE NoData]
    BY DEF A!SwapEvent
<1>7. x.amount \div Unit = left
    <2>1. x.amount = left * Unit /\ Unit \in Nat \ {0}
        BY <1>6, ChainAssumption
    <2> HIDE DEF x, left
    <2> QED
        BY <1>5, <2>1, UnitsBack
<1>8. x \in Announced /\ x.nonce = a.nonce /\ x.sender = m.memo.sender
    <2> DEFINE y == left * Unit
               z == IF m.memo.has_userdata THEN a.userdata[m.memo.sender] ELSE NoData
    <2>1. y \in Int /\ z \in Data
        <3>1. Unit \in Int
            BY ChainAssumption
        <3>2. y \in Int
            <4> HIDE DEF left
            <4> QED
                BY <1>5, <3>1
        <3>3. z \in Data
            BY <1>3, <1>4 DEF Data
        <3> QED
            BY <3>2, <3>3
    <2>2. x = [nonce |-> a.nonce, token |-> A!TokenWord(Registry.token), chain |-> m.memo.chain,
               amount |-> y, sender |-> m.memo.sender, recipient |-> m.memo.recipient, data |-> z]
        BY <1>6
    <2>3. a.nonce \in Int /\ m.memo.chain \in {o.chain : o \in SwapMemo}
          /\ m.memo.recipient \in {o.recipient : o \in SwapMemo}
        BY <1>3, <1>4
    <2> HIDE DEF x, y, z
    <2> QED
        BY <1>3, <2>1, <2>2, <2>3 DEF Announced
<1>9. x.data = IF m.memo.has_userdata THEN a.userdata[m.memo.sender] ELSE NoData
    BY <1>6
<1>10. s = <<l, b, n>>
    <2>1. s = << A!Message(a.registry.xerc20, "transfer", adapter, a.feesmanager, m.symbol, fee, NoMemo),
                 A!Message(a.registry.xerc20, "burn", adapter, adapter, m.symbol, left, m.memo),
                 A!Message(adapter, "swap", adapter, adapter, m.symbol, 0, x) >>
        BY DEF A!ReceiveSends
    <2> HIDE DEF s, fee, left, x
    <2> QED
        BY <1>1, <1>2, <2>1 DEF A!Message, Message
<1> HIDE DEF fee, left, x, s
<1>11. m.memo \in AnyMemo /\ NoMemo \in AnyMemo
    BY <1>3 DEF AnyMemo
<1>12. l \in XTokenTransfers /\ l.from = adapter /\ l.to = fees /\ l.amount = fee
    BY <1>2, <1>3, <1>11, AccountFacts DEF XTokenTransfers, Moves, Message
<1>13. b \in Burns /\ b.from = adapter /\ b.amount = left
    BY <1>5, <1>11, AccountFacts DEF Burns, Moves, Message
<1>14. n \in Swaps /\ n.memo = x
    BY <1>8 DEF Swaps, Message
<1> HIDE DEF l, b, n
<1>15. /\ l \in Sendable /\ b \in Sendable /\ n \in Sendable
       /\ l \notin Swaps /\ b \notin Swaps
    BY <1>12, <1>13, <1>14, OneKind DEF Sendable
<1>16. <<l, b, n>> \in Seq(Sendable) /\ Named(Members(<<l, b, n>>)) = {a.nonce}
    <2>1. [of |-> "backed", user |-> NoName, data |-> NoData] \in Count
        BY DEF Count
    <2>2. <<l, b, n>> \in Seq(Sendable) /\ Members(<<l, b, n>>) = {l, b, n}
        BY <1>15, <2>1, CountKinds, WeightsOfThree
    <2>3. Swaps \cap {l, b, n} = {n} /\ n.memo.nonce = a.nonce
        BY <1>8, <1>14, <1>15
    <2>4. Named({l, b, n}) = {a.nonce}
        BY <2>3 DEF Named
    <2> QED
        BY <2>2, <2>4
<1>17. ASSUME NEW k \in Count
       PROVE  Total(Weights(k, <<l, b, n>>)) =
                 IF k.of = "xadapter" THEN -m.amount
                 ELSE IF k.of = "number" THEN -1
                 ELSE IF /\ k.of = "data" /\ m.memo.has_userdata /\ m.memo.sender = k.user
                         /\ a.userdata[k.user] = k.data THEN 1
                 ELSE 0
    <2>1. Total(Weights(k, <<l, b, n>>)) = Weight(k, l) + (Weight(k, b) + Weight(k, n))
        BY <1>15, CountKinds, WeightsOfThree
    <2>2. adapter # lockbox
        BY AccountsAssumption
    <2>3. Weight(k, l) = IF k.of = "xadapter" THEN -fee ELSE 0
        BY <1>12, <2>2, XTokenTransferWeight
    <2>4. Weight(k, b) = IF k.of \in {"backed", "xadapter"} THEN -left ELSE 0
        BY <1>13, <2>2, BurnWeight
    <2>5. Weight(k, n) =
            IF k.of = "backed" THEN left
            ELSE IF k.of = "number" THEN -1
            ELSE IF k.of = "data" /\ x.sender = k.user /\ x.data = k.data THEN 1
            ELSE 0
        BY <1>7, <1>14, SwapWeight
    <2>6. CASE k.of = "backed"
        BY <1>5, <2>1, <2>3, <2>4, <2>5, <2>6
    <2>7. CASE k.of = "xadapter"
        <3>1. Total(Weights(k, <<l, b, n>>)) = -fee + (-left + 0)
            BY <2>1, <2>3, <2>4, <2>5, <2>7
        <3>2. left = m.amount - fee
            BY DEF left
        <3> QED
            BY <1>2, <2>7, <3>1, <3>2
    <2>8. CASE k.of = "number"
        BY <2>1, <2>3, <2>4, <2>5, <2>8
    <2>9. CASE k.of = "data"
        <3>1. k.data # NoData
            BY <2>9 DEF Count
        <3>2. x.sender = k.user /\ x.data = k.data
                <=> m.memo.has_userdata /\ m.memo.sender = k.user /\ a.userdata[k.user] = k.data
            BY <1>8, <1>9, <3>1
        <3> QED
            BY <2>1, <2>3, <2>4, <2>5, <2>9, <3>2
    <2>10. CASE k.of \notin {"backed", "xadapter", "number", "data"}
        BY <2>1, <2>3, <2>4, <2>5, <2>10
    <2> QED
        BY <2>6, <2>7, <2>8, <2>9, <2>10
<1>18. ASSUME NEW k \in Meter, Contracts = {}
       PROVE  Total(Weights(k, <<l, b, n>>)) = Swapping(k, m.amount, m.memo)
    <2>1. k \in Gauge
        BY <1>18 DEF Gauge
    <2>2. Total(Weights(k, <<l, b, n>>)) = Weight(k, l) + (Weight(k, b) + Weight(k, n))
        BY <1>15, <2>1, CountKinds, WeightsOfThree
    <2>3. Weight(k, l) = IF k.of = "wallet" THEN IF k.user = fees THEN fee ELSE 0
                         ELSE IF k.of = "refused" /\ ~(fee > 0) THEN 1 ELSE 0
        BY <1>3, <1>12, FeeMeters DEF Paid
    <2>4. Weight(k, b) = IF k.of = "refused" /\ ~(left > 0) THEN 1 ELSE 0
        BY <1>13, BurnMeters
    <2>5. Weight(k, n) = IF k.of = "events" THEN 1 ELSE IF k.of = "announced" THEN left ELSE 0
        BY <1>7, <1>14, SwapMeters
    <2>6. left = m.amount - fee
        BY DEF left
    <2> QED
        BY <1>2, <1>3, <2>2, <2>3, <2>4, <2>5, <2>6 DEF Swapping
<1> QED
    BY <1>10, <1>16, <1>17, <1>18 DEF s

\* Collateral goes to whom the memo names, a deposit to the lockbox.
LEMMA TokenPassed ==
    ASSUME NEW a \in AdapterTables, a.registry.token = tokenAccount,
           NEW lock \in {lockbox}, NEW m \in TokenTransfers, m.to = adapter, m.from # adapter,
           m.from = lock => m.memo \in Account, A!IsTokenTransfer(a, m), m.amount > 0
    PROVE  LET s == A!ReceiveSends(a, m, lock)
           IN  /\ s \in Seq(Sendable) /\ Named(Members(s)) = {}
               /\ \A k \in Gauge : Total(Weights(k, s)) = Share(k, adapter, m)
<1> DEFINE to == IF m.from = lock THEN m.memo ELSE lock
           n == Message(tokenAccount, "transfer", adapter, to, TokenSymbol, m.amount, m.memo)
           s == A!ReceiveSends(a, m, lock)
<1>1. m.amount \in Int /\ m.memo \in AnyMemo /\ m.symbol = TokenSymbol
    BY MoveFields DEF TokenTransfers, Moves
<1>2. s = <<n>>
    <2>1. s = << A!Message(a.registry.token, "transfer", adapter, to, m.symbol, m.amount, m.memo) >>
        BY DEF A!ReceiveSends
    <2> HIDE DEF s, to
    <2> QED
        BY <1>1, <2>1 DEF A!Message, Message
<1>3. to \in Account
    BY AccountFacts
<1> HIDE DEF to, s
<1>4. /\ n \in TokenTransfers /\ n.from = adapter /\ n.amount = m.amount
      /\ n.to = to /\ n.memo = m.memo
    BY <1>1, <1>3, AccountFacts DEF TokenTransfers, Moves, Message
<1> HIDE DEF n
<1>5. n \in Sendable /\ n \notin Swaps
    BY <1>4, OneKind DEF Sendable
<1>6. <<n>> \in Seq(Sendable) /\ Named(Members(<<n>>)) = {}
    BY <1>5 DEF Named, Members
<1>7. ASSUME NEW k \in Count PROVE Total(Weights(k, <<n>>)) = Share(k, adapter, m)
    <2>1. adapter # lockbox
        BY AccountsAssumption
    <2>2. Weight(k, n) = IF k.of = "adapter" THEN -m.amount ELSE 0
        BY <1>4, <2>1, TokenTransferWeight
    <2>3. Share(k, adapter, m) = IF k.of = "adapter" THEN -m.amount ELSE 0
        BY CountKinds, <2>1 DEF Share
    <2> QED
        BY <1>5, <2>2, <2>3, CountKinds, WeightsOfOne
<1>8. ASSUME NEW k \in Meter, Contracts = {} PROVE Total(Weights(k, <<n>>)) = Share(k, adapter, m)
    <2>1. adapter # lockbox /\ IsMeter(k) /\ k \in Gauge
        BY <1>8, AccountsAssumption, MeterKinds DEF Gauge
    <2>2. Weight(k, n) = IF to = adapter THEN 0
                         ELSE IF to = lockbox THEN Swapping(k, m.amount, m.memo)
                         ELSE Paid(k, to, m.amount)
        BY <1>4, TokenMeters
    <2>3. Share(k, adapter, m) =
            IF m.from = lockbox THEN Reaches(k, m.memo, m.amount) ELSE Swapping(k, m.amount, m.memo)
        BY <2>1 DEF Share, TokenPasses
    <2>4. Paid(k, adapter, m.amount) = 0
        BY WalletMeters DEF Paid
    <2>5. CASE m.from = lockbox
        <3>1. to = m.memo
            BY <2>5 DEF to
        <3> QED
            BY <1>5, <2>1, <2>2, <2>3, <2>4, <2>5, <3>1, WeightsOfOne DEF Reaches
    <2>6. CASE m.from # lockbox
        <3>1. to = lockbox
            BY <2>6 DEF to
        <3> QED
            BY <1>5, <2>1, <2>2, <2>3, <2>6, <3>1, WeightsOfOne
    <2> QED
        BY <2>5, <2>6
<1> QED
    BY <1>2, <1>6, <1>7, <1>8, GaugeKinds DEF s

\* The adapter is notified (ontransfer, onmint of adapter.cpp).
LEMMA AdapterNotifiedStep == IInv /\ AdapterNotified => IInv'
<1> SUFFICES ASSUME IInv, AdapterNotified PROVE IInv'
    OBVIOUS
<1> DEFINE m == Act
           a == db.adapter
           lock == db.xtoken.lockbox
<1>1. Notified(adapter) /\ m.name \in {"mint", "transfer"}
    BY DEF AdapterNotified, HasHandler
<1>2. m \in Sendable \cup Settles
    BY <1>1, FirstIsCode DEF Notified
<1>3. /\ TablesOK(db) /\ a \in AdapterTables /\ a.nonce \in Nat
      /\ a.registry \in {Unset, Registry} /\ lock \in {NoName, lockbox}
    BY DEF IInv, Balanced, TablesOK, AdapterTables, XTokenOK
<1>4. CASE m.from = adapter
    <2>1. Handle(TRUE, db, Told, <<>>)
        BY <1>4 DEF AdapterNotified, A!Ignores
    <2>2. \A k \in Gauge : Share(k, adapter, Act) = 0
        BY <1>4 DEF Share
    <2> QED
        BY <1>1, <2>1, <2>2, QuietNotified
<1>5. CASE m.from # adapter
    <2> DEFINE checks == A!CanReceive(a, m, lock)
               e == [db EXCEPT !.adapter = A!Received(@, m)]
               s == A!ReceiveSends(a, m, lock)
    <2>1. Handle(checks, e, Told, s)
        BY <1>5 DEF AdapterNotified, A!Ignores
    <2>2. ASSUME checks PROVE NotifiedOK(Head(stack), db, e, s)
        <3>1. /\ m.to = adapter /\ m.amount > 0 /\ a.registry = Registry
              /\ m.code \in {lock, xtokenAccount, Registry.token}
              /\ IF ~A!IsTokenTransfer(a, m) THEN A!CanSwap(a, m)
                 ELSE lock \in Account /\ (m.from = lock => m.memo \in Account)
            <4>1. a.registry = Registry
                BY <1>3, <2>2 DEF A!CanReceive, A!IsCreated
            <4>2. Registry.xerc20 = xtokenAccount
                BY DEF Registry
            <4> HIDE DEF m, a, lock
            <4> QED
                BY <2>2, <4>1, <4>2 DEF A!CanReceive, A!IsTrusted
        <3>2. /\ m \in TokenTransfers \cup XTokenTransfers \cup Mints \cup Imitations
              /\ m.code = tokenAccount => m \in TokenTransfers /\ m.symbol = TokenSymbol
              /\ m.code = xtokenAccount => m \in XTokenTransfers \cup Mints /\ m.symbol = XSymbol
              /\ m.code \in {tokenAccount, xtokenAccount, other}
            <4> HIDE DEF m
            <4> QED
                BY <1>1, <1>2, HandledKinds
        <3>3. Registry.token \in {NoName, tokenAccount} /\ (Registry.token = tokenAccount =>
                Registry.token_symbol = TokenSymbol) /\ Registry.token_symbol # XSymbol
            <4>1. NoName # tokenAccount
                BY AccountsAssumption, AccountFacts
            <4> QED
                BY <4>1 DEF Registry, TokenSymbol, XSymbol, NoSymbol
        <3>4. /\ m.code = tokenAccount /\ Registry.token = tokenAccount
              \/ m.code = xtokenAccount
            <4>1. /\ NoName \notin {tokenAccount, xtokenAccount, other}
                  /\ lockbox \notin {tokenAccount, xtokenAccount, other}
                  /\ tokenAccount # other /\ xtokenAccount # other
                BY AccountsAssumption, AccountFacts
            <4> HIDE DEF m, lock
            <4> QED
                BY <1>3, <3>1, <3>2, <3>3, <4>1
        <3>5. A!IsTokenTransfer(a, m) <=> m.symbol = Registry.token_symbol
            BY <3>1 DEF A!IsTokenTransfer
        <3>6. CASE m.code = tokenAccount /\ Registry.token = tokenAccount
            <4>1. m \in TokenTransfers /\ A!IsTokenTransfer(a, m)
                BY <3>2, <3>3, <3>5, <3>6
            <4>2. lock = lockbox /\ (m.from = lock => m.memo \in Account)
                <5>1. NoName \notin Account
                    BY AccountsAssumption
                <5> QED
                    BY <1>3, <3>1, <4>1, <5>1
            <4>3. e = db
                <5>1. A!Received(a, m) = a
                    BY <4>1 DEF A!Received
                <5>2. e = [token |-> db.token, xtoken |-> db.xtoken, lockbox |-> db.lockbox,
                           adapter |-> a, pam |-> db.pam, events |-> db.events]
                    BY <1>3, <5>1, Replaced
                <5> QED
                    BY <1>3, <5>2 DEF TablesOK
            <4>4. /\ s \in Seq(Sendable) /\ Named(Members(s)) = {}
                  /\ \A k \in Gauge : Total(Weights(k, s)) = Share(k, adapter, m)
                <5> HIDE DEF m, a, lock
                <5>1. lock \in {lockbox} /\ a.registry.token = tokenAccount
                    BY <3>1, <3>6, <4>2
                <5> QED
                    BY <1>3, <1>5, <3>1, <4>1, <4>2, <5>1, TokenPassed
            <4> HIDE DEF s, e
            <4>5. NotifiedOK(Head(stack), db, db, s)
                BY <1>1, <4>4, PassedOn
            <4> QED
                BY <4>3, <4>5
        <3>7. CASE m.code = xtokenAccount
            <4>1. m \in XTokenTransfers \cup Mints /\ ~A!IsTokenTransfer(a, m)
                BY <3>2, <3>3, <3>5, <3>7
            <4>2. A!CanSwap(a, m)
                BY <3>1, <4>1
            <4>3. /\ s \in Seq(Sendable) /\ Named(Members(s)) = {a.nonce}
                  /\ \A k \in Count : Total(Weights(k, s)) =
                        IF k.of = "xadapter" THEN -m.amount
                        ELSE IF k.of = "number" THEN -1
                        ELSE IF /\ k.of = "data" /\ m.memo.has_userdata /\ m.memo.sender = k.user
                                /\ a.userdata[k.user] = k.data THEN 1
                        ELSE 0
                  /\ Contracts = {} =>
                        \A k \in Meter : Total(Weights(k, s)) = Swapping(k, m.amount, m.memo)
                <5> HIDE DEF m, a, lock
                <5> QED
                    BY <1>3, <1>5, <3>1, <4>1, <4>2, SwapSends
            <4>4. /\ TablesOK(e) /\ Extends(e, db) /\ e.adapter.nonce = a.nonce + 1
                  /\ e.token = db.token /\ e.xtoken = db.xtoken /\ e.events = db.events
                  /\ e.adapter.past = db.adapter.past /\ Numbers(e) = Numbers(db)
                  /\ \A k \in Count : Level(k, e) = Level(k, db) +
                        IF k.of = "number" THEN 1
                        ELSE IF /\ k.of = "data" /\ m.memo.has_userdata /\ m.memo.sender = k.user
                                /\ a.userdata[k.user] = k.data THEN -1
                        ELSE 0
                <5>1. m.memo.sender \in Account
                    BY <4>2 DEF A!CanSwap, A!CanExtract
                <5> HIDE DEF m
                <5> QED
                    BY <1>3, <4>1, <5>1, SwapReceived
            <4> DEFINE f == Head(stack)
            <4>5. f.receivers[f.done + 1] = adapter /\ f.act = m
                BY <1>1, FirstIsCode DEF Notified, Act
            <4> HIDE DEF e, s, f
            <4>6. ASSUME NEW k \in Count
                  PROVE  Level(k, e) + Total(Weights(k, s)) = Level(k, db) + Share(k, adapter, m)
                <5> DEFINE taken == /\ k.of = "data" /\ m.memo.has_userdata /\ m.memo.sender = k.user
                                    /\ a.userdata[k.user] = k.data
                           lev == Level(k, e)
                           old == Level(k, db)
                           sum == Total(Weights(k, s))
                           got == Share(k, adapter, m)
                           q == m.amount
                <5>1. lev = old + IF k.of = "number" THEN 1 ELSE IF taken THEN -1 ELSE 0
                    BY <4>4
                <5>2. sum = IF k.of = "xadapter" THEN -q
                            ELSE IF k.of = "number" THEN -1 ELSE IF taken THEN 1 ELSE 0
                    BY <4>3
                <5>3. got = IF k.of = "xadapter" THEN -q ELSE 0
                    <6>1. adapter # lockbox /\ m \notin TokenTransfers
                        BY <4>1, OneKind, AccountsAssumption
                    <6> HIDE DEF m
                    <6> QED
                        BY <1>5, <3>1, <4>1, <6>1, CountKinds DEF Share, q
                <5>4. old \in Int /\ q \in Int
                    <6>1. old \in Int
                        BY <1>3, LevelType, CountKinds
                    <6> HIDE DEF m
                    <6> QED
                        BY <4>1, <6>1, MoveFields DEF q
                <5>5. taken => k.of = "data"
                    OBVIOUS
                <5> SUFFICES lev + sum = old + got
                    OBVIOUS
                <5> HIDE DEF taken, lev, old, sum, got, q
                <5>6. CASE k.of = "number"
                    <6>1. lev = old + 1 /\ sum = -1 /\ got = 0
                        BY <5>1, <5>2, <5>3, <5>6, Zenon
                    <6> QED
                        BY <5>4, <6>1
                <5>7. CASE k.of = "xadapter"
                    <6>1. k.of # "number" /\ ~taken
                        BY <5>7 DEF taken
                    <6>2. lev = old + 0 /\ sum = -q /\ got = -q
                        BY <5>1, <5>2, <5>3, <5>7, <6>1, Zenon
                    <6> QED
                        BY <5>4, <6>2
                <5>8. CASE taken
                    <6>1. k.of # "number" /\ k.of # "xadapter"
                        BY <5>8 DEF taken
                    <6>2. lev = old + -1 /\ sum = 1 /\ got = 0
                        BY <5>1, <5>2, <5>3, <5>8, <6>1, Zenon
                    <6> QED
                        BY <5>4, <6>2
                <5>9. CASE ~taken /\ k.of \notin {"number", "xadapter"}
                    <6>1. k.of # "number" /\ k.of # "xadapter"
                        BY <5>9
                    <6>2. lev = old + 0 /\ sum = 0 /\ got = 0
                        BY <5>1, <5>2, <5>3, <5>9, <6>1, Zenon
                    <6> QED
                        BY <5>4, <6>2
                <5> QED
                    BY <5>6, <5>7, <5>8, <5>9
            <4>7. ASSUME NEW k \in Meter, Contracts = {}
                  PROVE  Level(k, e) + Total(Weights(k, s)) = Level(k, db) + Share(k, adapter, m)
                <5>1. Level(k, e) = Level(k, db)
                    <6>1. Level(k, e) = Level(k, db) +
                            IF k.of = "wallet" THEN Balance(e, k.user) - Balance(db, k.user) ELSE 0
                        BY <1>3, <4>4, <4>7, MetersKept
                    <6>2. Balance(e, k.user) = Balance(db, k.user)
                        BY <4>4 DEF Balance
                    <6>3. Level(k, db) \in Int /\ (k.of = "wallet" => Balance(db, k.user) \in Int)
                        <7>1. k \in Gauge
                            BY <4>7 DEF Gauge
                        <7>2. k.of = "wallet" => Balance(db, k.user) \in Int
                            BY <1>3, WalletMeters, BalanceTypes DEF Balance
                        <7> QED
                            BY <1>3, <7>1, <7>2, LevelType
                    <6> QED
                        BY <6>1, <6>2, <6>3
                <5>2. Share(k, adapter, m) = Swapping(k, m.amount, m.memo)
                    <6>1. adapter # lockbox /\ m \notin TokenTransfers
                        BY <4>1, OneKind, AccountsAssumption
                    <6> HIDE DEF m
                    <6> QED
                        BY <1>5, <3>1, <4>1, <6>1, MeterKinds DEF Share, XTokenPasses
                <5> QED
                    BY <4>3, <4>7, <5>1, <5>2
            <4>8. db.adapter.nonce .. e.adapter.nonce - 1 = {a.nonce} /\ db.adapter.nonce <= e.adapter.nonce
                <5> DEFINE n == a.nonce
                           o == e.adapter.nonce
                <5>1. o = n + 1 /\ n \in Nat
                    BY <1>3, <4>4
                <5> HIDE DEF n, o
                <5>2. n .. o - 1 = {n} /\ n <= o
                    BY <5>1
                <5> QED
                    BY <5>2 DEF n, o
            <4>9. Numbers(e) \cup Named(Members(s))
                    = Numbers(db) \cup (db.adapter.nonce .. e.adapter.nonce - 1)
                BY <4>3, <4>4, <4>8
            <4>10. TablesOK(e) /\ Extends(e, db) /\ s \in Seq(Sendable)
                BY <4>3, <4>4
            <4>11. NotifiedOK(f, db, e, s)
                BY <4>5, <4>6, <4>7, <4>8, <4>9, <4>10, GaugeKinds DEF NotifiedOK
            <4> QED
                BY <4>11 DEF f
        <3> QED
            BY <3>4, <3>6, <3>7
    <2> HIDE DEF checks, e, s
    <2> QED
        BY <1>1, <2>1, <2>2, NotifiedHandled
<1> QED
    BY <1>4, <1>5

-----------------------------------------------------------------------------
\* Actions that are one step.

\* What everybody but the bridge's own contracts holds.
Held(d) == [w \in Account \ {adapter, lockbox} |-> Balance(d, w)]

\* No wallet, event or settlement changes.
Calm(d, c) == Held(d) = Held(c) /\ d.events = c.events /\ d.adapter.past = c.adapter.past

\* None of them moves a token or adds an operation.
LEMMA OneStepKeeps ==
    ASSUME IInv, NEW checks, NEW after, OneStep(checks, after), TablesOK(after),
           after.events = db.events, after.adapter.past = db.adapter.past,
           after.adapter.nonce = db.adapter.nonce,
           \A k \in Count : k.of # "data" => Level(k, after) = Level(k, db)
    PROVE  IInv'
<1>1. stack = <<>> /\ db' = after /\ committed' = after /\ stack' = stack /\ db = committed
    BY DEF OneStep, IInv, Balanced
<1>2. Even(after)
    BY <1>1 DEF IInv, Balanced, Even
<1>3. Numbered(after, <<>>)
    <2>1. Numbers(after) = Numbers(db)
        BY SameRecords
    <2>2. Numbered(db, <<>>)
        BY <1>1 DEF IInv, Balanced
    <2> QED
        BY <2>1, <2>2 DEF Numbered
<1> QED
    BY <1>1, <1>2, <1>3, AloneStep

\* A field of the xERC20 token's tables changes, other than rows and supply.
LEMMA XTokenFields ==
    ASSUME NEW x, XTokenOK(x), NEW w
    PROVE  /\ XTokenOK([x EXCEPT !.bridges = w])
           /\ [x EXCEPT !.bridges = w].rows = x.rows /\ [x EXCEPT !.bridges = w].supply = x.supply
           /\ XTokenOK([x EXCEPT !.minting = w])
           /\ [x EXCEPT !.minting = w].rows = x.rows /\ [x EXCEPT !.minting = w].supply = x.supply
           /\ XTokenOK([x EXCEPT !.burning = w])
           /\ [x EXCEPT !.burning = w].rows = x.rows /\ [x EXCEPT !.burning = w].supply = x.supply
           /\ XTokenOK([x EXCEPT !.frozen = w])
           /\ [x EXCEPT !.frozen = w].rows = x.rows /\ [x EXCEPT !.frozen = w].supply = x.supply
           /\ XTokenOK([x EXCEPT !.freezer = w])
           /\ [x EXCEPT !.freezer = w].rows = x.rows /\ [x EXCEPT !.freezer = w].supply = x.supply
           /\ XTokenOK([x EXCEPT !.maxSupply = w])
           /\ [x EXCEPT !.maxSupply = w].rows = x.rows /\ [x EXCEPT !.maxSupply = w].supply = x.supply
           /\ w \in {NoName, lockbox} =>
                /\ XTokenOK([x EXCEPT !.lockbox = w])
                /\ [x EXCEPT !.lockbox = w].rows = x.rows
                /\ [x EXCEPT !.lockbox = w].supply = x.supply
<1> DEFINE a == x.maxSupply
           b == x.bridges
           c == x.lockbox
           f == x.freezer
           g == x.frozen
           h == x.rows
           i == x.supply
           j == x.minting
           l == x.burning
<1>1. x = [rows |-> h, supply |-> i, maxSupply |-> a, bridges |-> b, minting |-> j,
           burning |-> l, lockbox |-> c, freezer |-> f, frozen |-> g]
    BY DEF XTokenOK
<1>2. c \in {NoName, lockbox} /\ i \in Int /\ h \in XTokenRows
    BY DEF XTokenOK
<1> HIDE DEF a, b, c, f, g, h, i, j, l
<1> DEFINE v1 == [rows |-> h, supply |-> i, maxSupply |-> a, bridges |-> w, minting |-> j,
                  burning |-> l, lockbox |-> c, freezer |-> f, frozen |-> g]
           v2 == [rows |-> h, supply |-> i, maxSupply |-> a, bridges |-> b, minting |-> w,
                  burning |-> l, lockbox |-> c, freezer |-> f, frozen |-> g]
           v3 == [rows |-> h, supply |-> i, maxSupply |-> a, bridges |-> b, minting |-> j,
                  burning |-> w, lockbox |-> c, freezer |-> f, frozen |-> g]
           v4 == [rows |-> h, supply |-> i, maxSupply |-> a, bridges |-> b, minting |-> j,
                  burning |-> l, lockbox |-> c, freezer |-> f, frozen |-> w]
           v5 == [rows |-> h, supply |-> i, maxSupply |-> a, bridges |-> b, minting |-> j,
                  burning |-> l, lockbox |-> w, freezer |-> f, frozen |-> g]
           v6 == [rows |-> h, supply |-> i, maxSupply |-> a, bridges |-> b, minting |-> j,
                  burning |-> l, lockbox |-> c, freezer |-> w, frozen |-> g]
           v7 == [rows |-> h, supply |-> i, maxSupply |-> w, bridges |-> b, minting |-> j,
                  burning |-> l, lockbox |-> c, freezer |-> f, frozen |-> g]
<1>3. /\ [x EXCEPT !.bridges = w] = v1
      /\ [x EXCEPT !.minting = w] = v2
      /\ [x EXCEPT !.burning = w] = v3
      /\ [x EXCEPT !.frozen = w] = v4
      /\ [x EXCEPT !.lockbox = w] = v5
      /\ [x EXCEPT !.freezer = w] = v6
      /\ [x EXCEPT !.maxSupply = w] = v7
    BY <1>1
<1>4. XTokenOK(v1) /\ v1.rows = h /\ v1.supply = i
    BY <1>2 DEF XTokenOK
<1>5. XTokenOK(v2) /\ v2.rows = h /\ v2.supply = i
    BY <1>2 DEF XTokenOK
<1>6. XTokenOK(v3) /\ v3.rows = h /\ v3.supply = i
    BY <1>2 DEF XTokenOK
<1>7. XTokenOK(v4) /\ v4.rows = h /\ v4.supply = i
    BY <1>2 DEF XTokenOK
<1>8. w \in {NoName, lockbox} => XTokenOK(v5) /\ v5.rows = h /\ v5.supply = i
    BY <1>2 DEF XTokenOK
<1>9. XTokenOK(v6) /\ v6.rows = h /\ v6.supply = i
    BY <1>2 DEF XTokenOK
<1>10. XTokenOK(v7) /\ v7.rows = h /\ v7.supply = i
    BY <1>2 DEF XTokenOK
<1> HIDE DEF v1, v2, v3, v4, v5, v6, v7
<1> QED
    BY <1>3, <1>4, <1>5, <1>6, <1>7, <1>8, <1>9, <1>10 DEF h, i

\* setlimits moves no token.
LEMMA LimitsKept ==
    ASSUME NEW d, XTokenOK(d.xtoken)
    PROVE  /\ XTokenOK(LimitsOf(d)) /\ LimitsOf(d).rows = d.xtoken.rows
           /\ LimitsOf(d).supply = d.xtoken.supply
<1> DEFINE x == d.xtoken
           rate == CHOOSE r \in X!RatesOf(BridgeLimit) : TRUE
           bridges == x.bridges \cup {adapter}
           minting == [x.minting EXCEPT ![adapter] = X!LimitChanged(@, BridgeLimit, rate)]
           burning == [x.burning EXCEPT ![adapter] = X!LimitChanged(@, BridgeLimit, rate)]
           y == [x EXCEPT !.bridges = bridges]
           z == [y EXCEPT !.minting = minting]
           v == [z EXCEPT !.burning = burning]
<1>1. LimitsOf(d) = v
    <2>1. LimitsOf(d) = [x EXCEPT !.bridges = bridges, !.minting = minting, !.burning = burning]
        <3> HIDE DEF rate, x
        <3> QED
            BY DEF LimitsOf, X!LimitsSet, rate, x
    <2> QED
        BY <2>1
<1> HIDE DEF x, bridges, minting, burning
<1>2. XTokenOK(y) /\ y.rows = x.rows /\ y.supply = x.supply
    BY XTokenFields DEF x
<1> HIDE DEF y
<1>3. XTokenOK(z) /\ z.rows = x.rows /\ z.supply = x.supply
    BY <1>2, XTokenFields
<1> HIDE DEF z
<1>4. XTokenOK(v) /\ v.rows = x.rows /\ v.supply = x.supply
    BY <1>3, XTokenFields
<1> QED
    BY <1>1, <1>4 DEF x

\* The limits, the frozen accounts and the lockbox of the token.
LEMMA XTokenStep ==
    ASSUME IInv, NEW checks, NEW v, OneStep(checks, [db EXCEPT !.xtoken = v]),
           XTokenOK(v), v.rows = db.xtoken.rows, v.supply = db.xtoken.supply
    PROVE  IInv' /\ Calm(committed', committed)
<1> DEFINE e == [db EXCEPT !.xtoken = v]
<1>1. TablesOK(db)
    BY DEF IInv, Balanced
<1>2. /\ TablesOK(e) /\ e.adapter = db.adapter /\ e.events = db.events
      /\ \A k \in Count : Level(k, e) = Level(k, db) +
            IF k.of = "backed" THEN v.supply - db.xtoken.supply
            ELSE IF k.of = "xadapter"
            THEN v.rows[adapter].balance - db.xtoken.rows[adapter].balance
            ELSE IF k.of = "lockbox"
            THEN v.rows[lockbox].balance - db.xtoken.rows[lockbox].balance ELSE 0
    BY <1>1, XTokenChanged
<1>3. ASSUME NEW k \in Count PROVE Level(k, e) = Level(k, db)
    <2>1. /\ Level(k, db) \in Int /\ v.supply - db.xtoken.supply = 0
          /\ v.rows[adapter].balance - db.xtoken.rows[adapter].balance = 0
          /\ v.rows[lockbox].balance - db.xtoken.rows[lockbox].balance = 0
        BY <1>1, LevelParts, CountKinds, BalanceTypes, AccountFacts
    <2>2. Level(k, e) = Level(k, db) + 0
        BY <1>2, <2>1
    <2> QED
        BY <2>1, <2>2
<1> HIDE DEF e
<1>4. OneStep(checks, e)
    BY DEF e
<1>5. Calm(e, db)
    <2>1. e.token = db.token /\ e.xtoken = v
        BY <1>1, Replaced DEF e
    <2> QED
        BY <1>2, <2>1 DEF Calm, Held, Balance
<1>6. committed' = e /\ committed = db
    BY <1>4 DEF OneStep, IInv, Balanced
<1> QED
    BY <1>2, <1>3, <1>4, <1>5, <1>6, OneStepKeeps

\* The registration, the fees manager and the users' data of the adapter.
LEMMA AdapterStep ==
    ASSUME IInv, NEW checks, NEW v \in AdapterTables, OneStep(checks, [db EXCEPT !.adapter = v]),
           v.past = db.adapter.past, v.nonce = db.adapter.nonce
    PROVE  IInv' /\ Calm(committed', committed)
<1> DEFINE e == [db EXCEPT !.adapter = v]
           a == db.adapter
<1>1. TablesOK(db) /\ IsFiniteSet(v.past) /\ a \in AdapterTables
    BY DEF IInv, Balanced, TablesOK
<1>2. /\ TablesOK(e) /\ e.adapter = v /\ e.events = db.events
      /\ \A k \in Count : Level(k, e) = Level(k, db) +
            IF k.of = "backed" THEN SettledUnits(db) - SettledUnits(e)
            ELSE IF k.of = "number"
            THEN v.nonce - db.adapter.nonce - Cardinality(v.past) + Cardinality(db.adapter.past)
            ELSE IF k.of = "data"
            THEN (IF v.userdata[k.user] = k.data THEN 1 ELSE 0)
                 - (IF db.adapter.userdata[k.user] = k.data THEN 1 ELSE 0)
            ELSE 0
    BY <1>1, AdapterChanged
<1> HIDE DEF e
<1>3. SettledUnits(e) = SettledUnits(db)
    BY <1>2, SameRecords
<1>4. ASSUME NEW k \in Count, k.of # "data" PROVE Level(k, e) = Level(k, db)
    <2> DEFINE n == a.nonce
               c == Cardinality(a.past)
    <2>1. Level(k, db) \in Int /\ SettledUnits(db) \in Int /\ n \in Int /\ c \in Int
        BY <1>1, LevelParts, CountKinds
    <2>2. Level(k, e) = Level(k, db) +
            IF k.of = "backed" THEN SettledUnits(db) - SettledUnits(db)
            ELSE IF k.of = "number" THEN n - n - c + c ELSE 0
        BY <1>2, <1>3, <1>4
    <2> HIDE DEF n, c
    <2> QED
        BY <2>1, <2>2
<1>5. OneStep(checks, e)
    BY DEF e
<1>6. Calm(e, db)
    <2>1. e.token = db.token /\ e.xtoken = db.xtoken
        BY <1>1, Replaced DEF e
    <2> QED
        BY <1>2, <2>1 DEF Calm, Held, Balance
<1>7. committed' = e /\ committed = db
    BY <1>5 DEF OneStep, IInv, Balanced
<1> QED
    BY <1>2, <1>4, <1>5, <1>6, <1>7, OneStepKeeps

\* The actions of the adapter's owner and of the users on their data.
LEMMA AdapterSteps ==
    ASSUME IInv,
           \/ CreateAdapter \/ SetFeesManager \/ AddUserData \/ FreeUserData
    PROVE  IInv' /\ Calm(committed', committed)
<1> DEFINE a == db.adapter
<1>1. a \in AdapterTables
    BY DEF IInv, Balanced, TablesOK
<1>2. a.userdata \in [Account -> Data]
    BY <1>1, AdapterTypes
<1>3. CASE CreateAdapter
    <2>1. /\ A!Created(a, Registry) \in AdapterTables
          /\ A!Created(a, Registry).past = a.past /\ A!Created(a, Registry).nonce = a.nonce
        <3> HIDE DEF a
        <3> QED
            BY <1>1 DEF A!Created, AdapterTables
    <2>2. PICK checks : OneStep(checks, [db EXCEPT !.adapter = A!Created(a, Registry)])
        BY <1>3 DEF CreateAdapter
    <2> QED
        BY <2>1, <2>2, AdapterStep
<1>4. CASE SetFeesManager
    <2>1. /\ A!FeesManagerSet(a, fees) \in AdapterTables
          /\ A!FeesManagerSet(a, fees).past = a.past /\ A!FeesManagerSet(a, fees).nonce = a.nonce
        <3> HIDE DEF a
        <3> QED
            BY <1>1 DEF A!FeesManagerSet, AdapterTables
    <2>2. PICK checks : OneStep(checks, [db EXCEPT !.adapter = A!FeesManagerSet(a, fees)])
        BY <1>4 DEF SetFeesManager
    <2> QED
        BY <2>1, <2>2, AdapterStep
<1>5. ASSUME NEW u \in Users, NEW payload \in Data
      PROVE  /\ A!UserDataSet(a, u, payload) \in AdapterTables
             /\ A!UserDataSet(a, u, payload).past = a.past
             /\ A!UserDataSet(a, u, payload).nonce = a.nonce
    <2> DEFINE w == [a.userdata EXCEPT ![u] = payload]
    <2>1. w \in [Account -> Data]
        BY <1>2, AccountFacts
    <2>2. A!UserDataSet(a, u, payload) = [a EXCEPT !.userdata = w]
        BY DEF A!UserDataSet
    <2> HIDE DEF a, w
    <2> QED
        BY <1>1, <2>1, <2>2 DEF AdapterTables
<1>6. CASE AddUserData
    <2>1. PICK u \in Users, payload \in Payloads :
            OneStep(A!CanAddUserData({u}, u, payload),
                    [db EXCEPT !.adapter = A!UserDataSet(a, u, payload)])
        BY <1>6 DEF AddUserData
    <2> QED
        BY <1>5, <2>1, AdapterStep DEF Data
<1>7. CASE FreeUserData
    <2>1. PICK u \in Users :
            OneStep(TRUE, [db EXCEPT !.adapter = A!UserDataSet(a, u, NoData)])
        BY <1>7 DEF FreeUserData
    <2> QED
        BY <1>5, <2>1, AdapterStep DEF Data
<1> QED
    BY <1>3, <1>4, <1>6, <1>7

\* The actions of the xERC20 token's owner and freezing account, and the clock.
LEMMA XTokenSteps ==
    ASSUME IInv,
           \/ SetLockbox \/ SetLimits \/ Freeze \/ Unfreeze \/ Tick
    PROVE  IInv' /\ Calm(committed', committed)
<1> DEFINE x == db.xtoken
<1>1. XTokenOK(x)
    BY DEF IInv, Balanced, TablesOK
<1>2. CASE SetLockbox
    <2>1. /\ XTokenOK(X!LockboxSet(x, lockbox)) /\ X!LockboxSet(x, lockbox).rows = x.rows
          /\ X!LockboxSet(x, lockbox).supply = x.supply
        <3> HIDE DEF x
        <3> QED
            BY <1>1, XTokenFields DEF X!LockboxSet
    <2>2. OneStep(Home, [db EXCEPT !.xtoken = X!LockboxSet(x, lockbox)])
        BY <1>2 DEF SetLockbox
    <2> QED
        BY <2>1, <2>2, XTokenStep
<1>3. CASE SetLimits
    <2>1. XTokenOK(LimitsOf(db)) /\ LimitsOf(db).rows = x.rows /\ LimitsOf(db).supply = x.supply
        BY <1>1, LimitsKept
    <2>2. PICK checks : OneStep(checks, [db EXCEPT !.xtoken = LimitsOf(db)])
        BY <1>3 DEF SetLimits
    <2> QED
        BY <2>1, <2>2, XTokenStep
<1>4. CASE Freeze
    <2>1. PICK a \in FreezeTargets :
            OneStep(X!CanFreeze(db.xtoken, {relayer}, a), [db EXCEPT !.xtoken = X!Frozen(x, a)])
        BY <1>4 DEF Freeze
    <2>2. XTokenOK(X!Frozen(x, a)) /\ X!Frozen(x, a).rows = x.rows /\ X!Frozen(x, a).supply = x.supply
        <3> DEFINE w == x.frozen \cup {a}
                   y == [x EXCEPT !.frozen = w]
        <3>1. X!Frozen(x, a) = y
            BY DEF X!Frozen
        <3> HIDE DEF x, w
        <3>2. XTokenOK(y) /\ y.rows = x.rows /\ y.supply = x.supply
            BY <1>1, XTokenFields
        <3> QED
            BY <3>1, <3>2
    <2> QED
        BY <2>1, <2>2, XTokenStep
<1>5. CASE Unfreeze
    <2>1. PICK a \in FreezeTargets :
            OneStep(X!CanUnfreeze(db.xtoken, {relayer}, a), [db EXCEPT !.xtoken = X!Unfrozen(x, a)])
        BY <1>5 DEF Unfreeze
    <2>2. XTokenOK(X!Unfrozen(x, a)) /\ X!Unfrozen(x, a).rows = x.rows /\ X!Unfrozen(x, a).supply = x.supply
        <3> DEFINE w == x.frozen \ {a}
                   y == [x EXCEPT !.frozen = w]
        <3>1. X!Unfrozen(x, a) = y
            BY DEF X!Unfrozen
        <3> HIDE DEF x, w
        <3>2. XTokenOK(y) /\ y.rows = x.rows /\ y.supply = x.supply
            BY <1>1, XTokenFields
        <3> QED
            BY <3>1, <3>2
    <2> QED
        BY <2>1, <2>2, XTokenStep
<1>6. CASE Tick
    <2> DEFINE m == [a \in Account |-> X!SecondOlder(x.minting[a])]
               b == [a \in Account |-> X!SecondOlder(x.burning[a])]
               y == [x EXCEPT !.minting = m]
    <2>1. X!AllOlder(x) = [y EXCEPT !.burning = b]
        BY DEF X!AllOlder
    <2>2. XTokenOK(X!AllOlder(x)) /\ X!AllOlder(x).rows = x.rows /\ X!AllOlder(x).supply = x.supply
        <3> HIDE DEF x, m, b
        <3>1. XTokenOK(y) /\ y.rows = x.rows /\ y.supply = x.supply
            BY <1>1, XTokenFields
        <3> DEFINE z == [y EXCEPT !.burning = b]
        <3> HIDE DEF y
        <3>2. XTokenOK(z) /\ z.rows = y.rows /\ z.supply = y.supply
            BY <3>1, XTokenFields
        <3>3. X!AllOlder(x) = z
            BY <2>1
        <3> HIDE DEF z
        <3> QED
            BY <3>1, <3>2, <3>3
    <2>3. OneStep(TRUE, [db EXCEPT !.xtoken = X!AllOlder(x)])
        BY <1>6 DEF Tick
    <2> QED
        BY <2>2, <2>3, XTokenStep
<1> QED
    BY <1>2, <1>3, <1>4, <1>5, <1>6

\* No gauge reads the pairs of the lockbox.
LEMMA LockboxChanged ==
    ASSUME NEW d, TablesOK(d), NEW v, v \subseteq {Pair}
    PROVE  LET e == [d EXCEPT !.lockbox = v]
           IN  /\ TablesOK(e) /\ e.adapter = d.adapter /\ e.events = d.events
               /\ \A k \in Count : Level(k, e) = Level(k, d)
<1> DEFINE e == [d EXCEPT !.lockbox = v]
<1>1. e = [token |-> d.token, xtoken |-> d.xtoken, lockbox |-> v,
           adapter |-> d.adapter, pam |-> d.pam, events |-> d.events]
    BY Replaced
<1> HIDE DEF e
<1>2. /\ TablesOK(e) /\ e.adapter = d.adapter /\ e.events = d.events
      /\ e.xtoken = d.xtoken /\ e.token = d.token
    BY <1>1 DEF TablesOK
<1>3. ASSUME NEW k \in Count PROVE Level(k, e) = Level(k, d)
    <2>1. SettledUnits(e) = SettledUnits(d) /\ SwappedUnits(e) = SwappedUnits(d) /\ Taken(k, e) = Taken(k, d)
        BY <1>2, SameRecords
    <2> QED
        BY CountKinds, <1>2, <2>1 DEF Level
<1> QED
    BY <1>2, <1>3 DEF e

\* create (lockbox.cpp).
LEMMA CreatePairStep == IInv /\ CreatePair => IInv' /\ Calm(committed', committed)
<1> SUFFICES ASSUME IInv, CreatePair PROVE IInv' /\ Calm(committed', committed)
    OBVIOUS
<1> DEFINE v == L!Created(db.lockbox, Pair)
           e == [db EXCEPT !.lockbox = v]
<1>1. TablesOK(db)
    BY DEF IInv, Balanced
<1>2. v \subseteq {Pair}
    BY <1>1 DEF L!Created, TablesOK
<1>3. PICK checks : OneStep(checks, e)
    BY DEF CreatePair
<1>4. /\ TablesOK(e) /\ e.adapter = db.adapter /\ e.events = db.events
      /\ \A k \in Count : Level(k, e) = Level(k, db)
    <2> HIDE DEF v
    <2> QED
        BY <1>1, <1>2, LockboxChanged
<1>5. Calm(e, db)
    <2>1. e.token = db.token /\ e.xtoken = db.xtoken
        BY <1>1, Replaced
    <2> QED
        BY <1>4, <2>1 DEF Calm, Held, Balance
<1>6. committed' = e /\ committed = db
    BY <1>3 DEF OneStep, IInv, Balanced
<1> HIDE DEF e
<1> QED
    BY <1>3, <1>4, <1>5, <1>6, OneStepKeeps

-----------------------------------------------------------------------------
\* What transactions start with.

\* A user's transfer starts a transaction.
LEMMA SubmitTransferStep == IInv /\ SubmitTransfer => IInv'
<1> SUFFICES ASSUME IInv, SubmitTransfer PROVE IInv'
    OBVIOUS
<1>1. PICK u \in Users : \E m \in Transfers(u) : Submit(m)
    BY DEF SubmitTransfer
<1>2. PICK m \in Transfers(u) : Submit(m)
    BY <1>1
<1>3. m \in Sendable /\ m \notin Swaps /\ m \in Starts
    BY UserSends DEF Starts
<1> QED
    BY <1>2, <1>3, SubmitStep

\* The relayer, or somebody with any operation, calls settle.
LEMMA SubmitSettleStep == IInv /\ SubmitSettle => IInv'
<1> SUFFICES ASSUME IInv, SubmitSettle PROVE IInv'
    OBVIOUS
<1>1. PICK op \in Operations, metadata \in Metadata : CallSettle(op, metadata)
    BY DEF SubmitSettle
<1> DEFINE m == [code |-> adapter, name |-> "settle", from |-> relayer,
                 operation |-> op, metadata |-> metadata]
<1>2. Submit(m)
    BY <1>1 DEF CallSettle
<1>3. m \in Settles
    BY DEF Settles
<1> HIDE DEF m
<1>4. m \notin Swaps /\ m \in Starts
    BY <1>3, OneKind DEF Starts
<1> QED
    BY <1>2, <1>3, <1>4, SubmitStep

-----------------------------------------------------------------------------
\* The invariant.

\* Every step keeps the invariant.
LEMMA NextStep == IInv /\ [Next]_vars => IInv'
<1> SUFFICES ASSUME IInv, [Next]_vars PROVE IInv'
    OBVIOUS
<1>1. CASE UNCHANGED vars
    BY <1>1 DEF vars, IInv
<1>2. CASE Execution
    <2>1. ASSUME NEW u \in Users, UserNotified(u) PROVE IInv'
        BY <2>1, UserNotifiedStep
    <2> QED
        BY <1>2, <2>1, TokenTransferStep, XTokenTransferStep, XTokenMintStep, XTokenBurnStep,
           OtherTokenStep, AdapterSettleStep, AdapterSwapStep, AdapterNotifiedStep,
           LockboxNotifiedStep, NobodyNotifiedStep, DescendStep, ReturnStep, Zenon
           DEF Execution
<1>3. CASE Between
    BY <1>3, SubmitTransferStep, SubmitSettleStep, CreatePairStep, AdapterSteps, XTokenSteps, Zenon
       DEF Between
<1> QED
    BY <1>1, <1>2, <1>3 DEF Next

-----------------------------------------------------------------------------
\* The states a deployment starts in.

\* No event is settled or announced, and the contracts have no tokens.
Untouched(d) ==
    /\ TablesOK(d)
    /\ d.token.rows[adapter].balance = 0 /\ d.token.rows[lockbox].balance = 0
    /\ d.xtoken.rows[adapter].balance = 0 /\ d.xtoken.rows[lockbox].balance = 0
    /\ d.xtoken.supply = 0 /\ d.adapter.past = {} /\ d.adapter.nonce = 0 /\ d.events = <<>>

\* All gauges of such tables read zero.
LEMMA UntouchedIsEven ==
    ASSUME NEW d, Untouched(d)
    PROVE  Even(d) /\ Numbered(d, <<>>)
<1>1. SettledUnits(d) = 0
    <2> DEFINE f == [e \in {} |-> UnitsOf(e)]
    <2>1. SettledEvents(d) = {}
        BY DEF SettledEvents, Untouched
    <2>2. SettledUnits(d) = SumFunctionOnSet(f, {})
        BY <2>1 DEF SettledUnits, SumFunction
    <2> HIDE DEF f
    <2> QED
        BY <2>2, SumEmpty
<1>2. SwappedUnits(d) = 0
    <2> DEFINE f == [i \in {} |-> d.events[i].amount \div Unit]
    <2>1. DOMAIN d.events = {}
        BY DEF Untouched
    <2>2. SwappedUnits(d) = SumFunctionOnSet(f, {})
        BY <2>1 DEF SwappedUnits, SumFunction
    <2> HIDE DEF f
    <2> QED
        BY <2>2, SumEmpty
<1>3. Even(d)
    <2> SUFFICES ASSUME NEW k \in Count, k.of # "data" PROVE Level(k, d) = 0
        BY DEF Even
    <2>1. k.of \in {"backed", "adapter", "xadapter", "lockbox", "number"}
        BY DEF Count
    <2>2. Cardinality(d.adapter.past) = 0 /\ Len(d.events) = 0
        BY FS_EmptySet DEF Untouched
    <2>3. CASE k.of = "backed"
        BY CountKinds, <1>1, <1>2, <2>3 DEF Level, Untouched
    <2>4. CASE k.of = "number"
        BY CountKinds, <2>2, <2>4 DEF Level, Untouched
    <2>5. CASE k.of \in {"adapter", "xadapter", "lockbox"}
        BY CountKinds, <2>5 DEF Level, Untouched
    <2> QED
        BY <2>1, <2>3, <2>4, <2>5
<1>4. Numbered(d, <<>>)
    <2>1. Numbers(d) = {}
        BY DEF Numbers, Untouched
    <2>2. 0 .. d.adapter.nonce - 1 = {}
        BY DEF Untouched
    <2> QED
        BY <2>1, <2>2, PendingNone DEF Numbered
<1> QED
    BY <1>3, <1>4

\* Adapter and lockbox have no underlying tokens at first.
LEMMA FirstToken ==
    /\ Bare.token \in TokenTables
    /\ Bare.token.rows[adapter].balance = 0 /\ Bare.token.rows[lockbox].balance = 0
    /\ \A a \in Account \ Users : Bare.token.rows[a].balance = 0
<1> DEFINE rows == [a \in Account |->
                      IF a \notin Users THEN T!NoRow
                      ELSE [payer |-> tokenAccount, balance |-> Holding]]
           n == Cardinality(Users) * Holding
<1>1. n \in Int
    <2>1. Cardinality(Users) \in Nat /\ Holding \in Nat
        BY AccountsAssumption, QuantitiesAssumption, FS_CardinalityType
    <2> QED
        BY <2>1
<1>2. /\ rows \in [Account -> [payer: Account \cup {NoName}, balance: Int]]
      /\ rows[adapter].balance = 0 /\ rows[lockbox].balance = 0
      /\ \A a \in Account \ Users : rows[a].balance = 0
    <2>1. T!NoRow \in [payer: Account \cup {NoName}, balance: Int] /\ T!NoRow.balance = 0
        BY DEF T!NoRow
    <2>2. [payer |-> tokenAccount, balance |-> Holding] \in [payer: Account \cup {NoName}, balance: Int]
        BY AccountFacts, QuantitiesAssumption
    <2>3. adapter \notin Users /\ lockbox \notin Users
        BY AccountsAssumption
    <2> QED
        BY <2>1, <2>2, <2>3, AccountFacts
<1>3. /\ T!NoRows \in [Account -> [payer: Account \cup {NoName}, balance: Int]]
      /\ \A a \in Account : T!NoRows[a].balance = 0
    BY AccountFacts DEF T!NoRows, T!NoRow
<1>4. CASE ~Home
    <2>1. Bare.token = [rows |-> T!NoRows, supply |-> 0, maxSupply |-> 0, issuer |-> NoName]
        BY <1>4 DEF Bare, T!NewToken
    <2> QED
        BY <1>3, <2>1, AccountFacts DEF TokenTables
<1>5. CASE Home
    <2>1. Bare.token = [rows |-> rows, supply |-> n, maxSupply |-> MaxSupply, issuer |-> tokenAccount]
        <3>1. Bare.token = [T!NewToken EXCEPT !.maxSupply = MaxSupply, !.issuer = tokenAccount,
                                              !.supply = n, !.rows = rows]
            BY <1>5 DEF Bare
        <3> HIDE DEF n, rows
        <3> QED
            BY <3>1 DEF T!NewToken
    <2> HIDE DEF n, rows
    <2>2. MaxSupply \in Int /\ tokenAccount \in Account
        BY QuantitiesAssumption, AccountFacts
    <2> QED
        BY <1>1, <1>2, <2>1, <2>2 DEF TokenTables
<1> QED
    BY <1>4, <1>5

\* Nobody has xERC20 tokens at first.
LEMMA FirstXToken ==
    /\ XTokenOK(Bare.xtoken) /\ Bare.xtoken.supply = 0
    /\ \A a \in Account : Bare.xtoken.rows[a].balance = 0
    /\ Bare.xtoken.rows[adapter].balance = 0 /\ Bare.xtoken.rows[lockbox].balance = 0
<1> DEFINE x == X!NewXToken
           y == [x EXCEPT !.maxSupply = MaxSupply]
           z == [y EXCEPT !.freezer = relayer]
<1>1. XTokenOK(x) /\ x.rows = X!NoRows /\ x.supply = 0
    <2>1. X!NoRows \in XTokenRows
        BY DEF X!NoRows, X!NoRow, XTokenRows
    <2> QED
        BY <2>1 DEF X!NewXToken, XTokenOK
<1>2. Bare.xtoken = z
    BY DEF Bare, X!FreezeAccSet, X!Created
<1> HIDE DEF x
<1>3. XTokenOK(y) /\ y.rows = x.rows /\ y.supply = x.supply
    BY <1>1, XTokenFields
<1> HIDE DEF y
<1>4. XTokenOK(z) /\ z.rows = y.rows /\ z.supply = y.supply
    BY <1>3, XTokenFields
<1> HIDE DEF z
<1>5. \A a \in Account : X!NoRows[a].balance = 0
    BY DEF X!NoRows, X!NoRow
<1> QED
    BY <1>1, <1>2, <1>3, <1>4, <1>5, AccountFacts

\* A new adapter, and one that was set up, has settled nothing.
LEMMA FirstAdapter ==
    /\ A!NewAdapter \in AdapterTables /\ A!NewAdapter.past = {} /\ A!NewAdapter.nonce = 0
    /\ LET a == A!FeesManagerSet(A!Created(A!NewAdapter, Registry), fees)
       IN  a \in AdapterTables /\ a.past = {} /\ a.nonce = 0
<1> DEFINE u == [a \in Account |-> NoData]
           b == [registry |-> Registry, nonce |-> 0, feesmanager |-> fees, past |-> {}, userdata |-> u]
<1>1. u \in [Account -> Data]
    BY DEF Data
<1>2. A!NewAdapter = [registry |-> Unset, nonce |-> 0, feesmanager |-> NoName, past |-> {}, userdata |-> u]
    BY DEF A!NewAdapter
<1> HIDE DEF u
<1>3. A!FeesManagerSet(A!Created(A!NewAdapter, Registry), fees) = b
    <2> DEFINE n == A!NewAdapter
               c == [n EXCEPT !.registry = Registry]
               d == [registry |-> Registry, nonce |-> 0, feesmanager |-> NoName, past |-> {},
                     userdata |-> u]
    <2>1. A!FeesManagerSet(A!Created(n, Registry), fees) = [c EXCEPT !.feesmanager = fees]
        BY DEF A!FeesManagerSet, A!Created
    <2> HIDE DEF n
    <2>2. c = d
        BY <1>2 DEF n
    <2> HIDE DEF c
    <2>3. [c EXCEPT !.feesmanager = fees] = b
        BY <2>2
    <2> QED
        BY <2>1, <2>3 DEF n
<1>4. b \in AdapterTables /\ b.past = {} /\ b.nonce = 0
    BY <1>1 DEF AdapterTables
<1> HIDE DEF b
<1>5. A!NewAdapter \in AdapterTables /\ A!NewAdapter.past = {} /\ A!NewAdapter.nonce = 0
    BY <1>1, <1>2 DEF AdapterTables
<1> QED
    BY <1>3, <1>4, <1>5

\* Before the owner's work.
LEMMA BareUntouched == Untouched(Bare)
<1> DEFINE t == Bare.token
           x == Bare.xtoken
<1>1. Bare = [token |-> t, xtoken |-> x, lockbox |-> {}, adapter |-> A!NewAdapter,
              pam |-> InitialPam, events |-> <<>>]
    BY DEF Bare
<1>2. /\ t \in TokenTables /\ t.rows[adapter].balance = 0 /\ t.rows[lockbox].balance = 0
      /\ XTokenOK(x) /\ x.supply = 0
      /\ x.rows[adapter].balance = 0 /\ x.rows[lockbox].balance = 0
    BY FirstToken, FirstXToken
<1>3. <<>> \in Seq(Announced) /\ IsFiniteSet({})
    BY EmptySeq, FS_EmptySet
<1> HIDE DEF t, x
<1> QED
    BY <1>1, <1>2, <1>3, FirstAdapter DEF Untouched, TablesOK

\* After it.
LEMMA ReadyUntouched == Untouched(Ready)
<1> DEFINE b == Bare
           l == LimitsOf(b)
           x == IF Home THEN X!LockboxSet(l, lockbox) ELSE l
           r == IF Home THEN {Pair} ELSE {}
           a == A!FeesManagerSet(A!Created(A!NewAdapter, Registry), fees)
           y == [b EXCEPT !.xtoken = x]
           z == [y EXCEPT !.lockbox = r]
           v == [z EXCEPT !.adapter = a]
<1>1. Untouched(b) /\ b.adapter = A!NewAdapter
    BY BareUntouched DEF Bare
<1>2. XTokenOK(l) /\ l.rows = b.xtoken.rows /\ l.supply = b.xtoken.supply
    BY <1>1, LimitsKept DEF Untouched, TablesOK
<1>3. XTokenOK(x) /\ x.rows = b.xtoken.rows /\ x.supply = b.xtoken.supply
    <2> DEFINE w == [l EXCEPT !.lockbox = lockbox]
    <2>1. x = IF Home THEN w ELSE l
        BY DEF X!LockboxSet
    <2> HIDE DEF l, b, x
    <2>2. XTokenOK(w) /\ w.rows = l.rows /\ w.supply = l.supply
        BY <1>2, XTokenFields
    <2> HIDE DEF w
    <2> QED
        BY <1>2, <2>1, <2>2
<1>4. a \in AdapterTables /\ a.past = {} /\ a.nonce = 0
    BY FirstAdapter
<1>5. Ready = v
    <2>1. Ready = [b EXCEPT !.xtoken = x, !.lockbox = r,
                            !.adapter = A!FeesManagerSet(A!Created(@, Registry), fees)]
        BY DEF Ready
    <2> HIDE DEF x, r, b
    <2>2. Ready = [b EXCEPT !.xtoken = x, !.lockbox = r, !.adapter = a]
        BY <1>1, <2>1
    <2> HIDE DEF a
    <2> QED
        BY <2>2
<1>6. r \subseteq {Pair}
    OBVIOUS
<1>7. IsFiniteSet(a.past)
    BY <1>4, FS_EmptySet
<1> HIDE DEF b, l, x, r, a
<1>8. Untouched(y)
    <2>1. TablesOK(b)
        BY <1>1 DEF Untouched
    <2>2. y = [token |-> b.token, xtoken |-> x, lockbox |-> b.lockbox,
               adapter |-> b.adapter, pam |-> b.pam, events |-> b.events]
        BY <2>1, Replaced
    <2> HIDE DEF y
    <2> QED
        BY <1>1, <1>3, <2>2 DEF Untouched, TablesOK
<1> HIDE DEF y
<1>9. Untouched(z)
    <2>1. TablesOK(y)
        BY <1>8 DEF Untouched
    <2>2. z = [token |-> y.token, xtoken |-> y.xtoken, lockbox |-> r,
               adapter |-> y.adapter, pam |-> y.pam, events |-> y.events]
        BY <2>1, Replaced
    <2> HIDE DEF z
    <2> QED
        BY <1>6, <1>8, <2>2 DEF Untouched, TablesOK
<1> HIDE DEF z
<1>10. Untouched(v)
    <2>1. TablesOK(z)
        BY <1>9 DEF Untouched
    <2>2. v = [token |-> z.token, xtoken |-> z.xtoken, lockbox |-> z.lockbox,
               adapter |-> a, pam |-> z.pam, events |-> z.events]
        BY <2>1, Replaced
    <2> HIDE DEF v
    <2> QED
        BY <1>4, <1>7, <1>9, <2>2 DEF Untouched, TablesOK
<1> HIDE DEF v
<1> QED
    BY <1>5, <1>10

\* The invariant holds at first.
LEMMA InitOK == Init => IInv
<1> SUFFICES ASSUME Init PROVE IInv
    OBVIOUS
<1>1. Untouched(db)
    BY BareUntouched, ReadyUntouched DEF Init
<1>2. TablesOK(db) /\ Even(db) /\ Numbered(db, <<>>)
    BY <1>1, UntouchedIsEven DEF Untouched
<1>3. Balanced(db, <<>>, db)
    BY <1>2, BalancedAlone
<1> QED
    BY <1>3 DEF Init, IInv

\* The invariant holds.
LEMMA Inductive == Spec => []IInv
BY InitOK, NextStep, PTL DEF Spec

-----------------------------------------------------------------------------
\* What follows between transactions.

\* After every transaction the wrapped tokens are the collateral and what was
\* settled, less what was swapped, on a home chain or elsewhere, whatever
\* users' contracts do when they are notified (adapter.cpp, lockbox.cpp).
THEOREM BackedSafety == Spec => []Backed
<1>1. IInv => Backed
    <2> SUFFICES ASSUME IInv PROVE Backed
        OBVIOUS
    <2> DEFINE k == [of |-> "backed", user |-> NoName, data |-> NoData]
               s == committed.xtoken.supply
               b == committed.token.rows[lockbox].balance
               m == SettledUnits(committed)
               n == SwappedUnits(committed)
    <2>1. k \in Count /\ k.of = "backed"
        BY DEF Count
    <2>2. Level(k, committed) = 0
        BY <2>1 DEF IInv, Balanced, Even
    <2>3. Level(k, committed) = s - b - m + n
        BY CountKinds, <2>1 DEF Level
    <2>4. TablesOK(committed)
        BY DEF IInv, Balanced
    <2>5. s \in Int /\ b \in Int /\ m \in Int /\ n \in Int
        BY <2>1, <2>4, LevelParts, CountKinds
    <2> HIDE DEF k, s, b, m, n
    <2>6. s = b + m - n
        BY <2>2, <2>3, <2>5
    <2> QED
        BY <2>6 DEF Backed, s, b, m, n
<1> QED
    BY <1>1, Inductive, PTL

\* Nothing stays with the adapter or the lockbox between transactions, if no
\* event pays the adapter itself: ontransfer ignores what comes from itself,
\* so such a mint would stay (adapter.cpp, settle and ontransfer).
THEOREM NothingStrandedSafety == NoneForAdapter => (Spec => []NothingStranded)
<1> SUFFICES ASSUME NoneForAdapter PROVE Spec => []NothingStranded
    OBVIOUS
<1>1. IInv => NothingStranded
    <2> SUFFICES ASSUME IInv PROVE NothingStranded
        OBVIOUS
    <2> DEFINE k(of) == [of |-> of, user |-> NoName, data |-> NoData]
    <2>1. k("adapter") \in Count /\ k("xadapter") \in Count /\ k("lockbox") \in Count
        BY DEF Count
    <2>2. /\ Level(k("adapter"), committed) = 0 /\ Level(k("xadapter"), committed) = 0
          /\ Level(k("lockbox"), committed) = 0
        BY <2>1 DEF IInv, Balanced, Even
    <2>3. /\ committed.token.rows[adapter].balance = 0
          /\ committed.xtoken.rows[adapter].balance = 0
          /\ committed.xtoken.rows[lockbox].balance = 0
        BY <2>1, <2>2, CountKinds DEF Level
    <2> QED
        BY <2>3 DEF NothingStranded, Balance
<1> QED
    BY <1>1, Inductive, PTL

\* The settlements and the swaps that are done have the numbers below the
\* adapter's nonce, one each, also those that began inside another.
THEOREM OperationsNumberedSafety == Spec => []OperationsNumbered
<1>1. IInv => OperationsNumbered
    <2> SUFFICES ASSUME IInv PROVE OperationsNumbered
        OBVIOUS
    <2> DEFINE k == [of |-> "number", user |-> NoName, data |-> NoData]
               n == committed.adapter.nonce
               c == Cardinality(committed.adapter.past)
               l == Len(committed.events)
    <2>1. k \in Count /\ k.of = "number"
        BY DEF Count
    <2>2. Level(k, committed) = 0
        BY <2>1 DEF IInv, Balanced, Even
    <2>3. Level(k, committed) = n - c - l
        BY CountKinds, <2>1 DEF Level
    <2>4. TablesOK(committed)
        BY DEF IInv, Balanced
    <2>5. n \in Int /\ c \in Int /\ l \in Int
        BY <2>1, <2>4, LevelParts, CountKinds, LenProperties DEF TablesOK
    <2> HIDE DEF k, n, c, l
    <2>6. c + l = n
        BY <2>2, <2>3, <2>5
    <2>7. Numbers(committed) = 0 .. committed.adapter.nonce - 1
        BY PendingNone DEF IInv, Balanced, Numbered
    <2> QED
        BY <2>6, <2>7 DEF OperationsNumbered, Numbers, n, c, l
<1> QED
    BY <1>1, Inductive, PTL

-----------------------------------------------------------------------------
\* Users' data.

\* The events of d that c has not and that take the data of gauge k.
NewlyTaken(k, d, c) ==
    {i \in DOMAIN d.events :
        /\ i > Len(c.events)
        /\ d.events[i].sender = k.user
        /\ d.events[i].data = k.data}

\* The events that took the data are those before and those since.
LEMMA TakenSince ==
    ASSUME NEW k, NEW d, NEW c, TablesOK(d), TablesOK(c), Extends(d, c)
    PROVE  Cardinality(Taken(k, d)) = Cardinality(Taken(k, c)) + Cardinality(NewlyTaken(k, d, c))
<1> DEFINE S == Taken(k, c)
           N == NewlyTaken(k, d, c)
<1>1. /\ Len(d.events) \in Nat /\ DOMAIN d.events = 1 .. Len(d.events)
      /\ Len(c.events) \in Nat /\ DOMAIN c.events = 1 .. Len(c.events)
    BY LenProperties DEF TablesOK
<1>2. Taken(k, d) = S \cup N
    <2>1. \A i \in DOMAIN c.events : i \in DOMAIN d.events /\ d.events[i] = c.events[i]
        BY <1>1 DEF Extends
    <2>2. \A i \in DOMAIN d.events : i > Len(c.events) \/ i \in DOMAIN c.events
        BY <1>1
    <2> QED
        BY <2>1, <2>2 DEF Taken, NewlyTaken
<1>3. S \cap N = {}
    BY <1>1 DEF Taken, NewlyTaken
<1>4. IsFiniteSet(S) /\ IsFiniteSet(N)
    <2>1. IsFiniteSet(Taken(k, d))
        BY TakenFinite
    <2> QED
        BY <1>2, <2>1, FS_Subset
<1> HIDE DEF S, N
<1>5. Cardinality(S \cup N) = Cardinality(S) + Cardinality(N) - Cardinality(S \cap N)
    BY <1>4, FS_Union
<1>6. Cardinality({}) = 0 /\ Cardinality(S) \in Nat /\ Cardinality(N) \in Nat
    BY <1>4, FS_EmptySet, FS_CardinalityType
<1> DEFINE p == Cardinality(S)
           q == Cardinality(N)
           r == Cardinality(S \cup N)
<1>7. r = p + q - Cardinality({}) /\ p \in Nat /\ q \in Nat
    BY <1>3, <1>5, <1>6
<1>8. r = p + q
    <2> HIDE DEF p, q, r
    <2> QED
        BY <1>6, <1>7
<1> QED
    BY <1>2, <1>8 DEF S, N

\* Within a transaction only its end changes what is committed.
LEMMA OnlyReturnCommits == Execution /\ ~Return => committed' = committed
<1> SUFFICES ASSUME Execution, ~Return PROVE committed' = committed
    OBVIOUS
<1>1. ASSUME NEW checks, NEW after, NEW receivers, NEW sent, Handle(checks, after, receivers, sent)
      PROVE  committed' = committed
    BY <1>1 DEF Handle, Revert
<1>2. Revert => committed' = committed
    BY DEF Revert
<1>3. TokenTransfer \/ XTokenTransfer \/ XTokenMint \/ XTokenBurn \/ OtherToken => committed' = committed
    BY <1>1 DEF TokenTransfer, XTokenTransfer, XTokenMint, XTokenBurn, OtherToken
<1>4. AdapterSettle \/ AdapterSwap \/ AdapterNotified \/ LockboxNotified => committed' = committed
    BY <1>1 DEF AdapterSettle, AdapterSwap, AdapterNotified, LockboxNotified
<1>5. (\E u \in Users : UserNotified(u)) \/ NobodyNotified => committed' = committed
    BY <1>1, <1>2 DEF UserNotified, NobodyNotified
<1>6. Descend => committed' = committed
    BY <1>2 DEF Descend
<1> QED
    BY <1>3, <1>4, <1>5, <1>6 DEF Execution

\* A transaction after which a user's data is gone has one event with it: the gauge
\* of the data reads one before and after.
LEMMA DataTakenOnce ==
    ASSUME IInv, Return, NEW u \in Users,
           committed.adapter.userdata[u] # NoData, committed'.adapter.userdata[u] = NoData
    PROVE  Cardinality({i \in DOMAIN committed'.events :
                /\ i > Len(committed.events)
                /\ committed'.events[i].sender = u
                /\ committed'.events[i].data = committed.adapter.userdata[u]}) = 1
<1> DEFINE c == committed
           data == c.adapter.userdata[u]
           k == [of |-> "data", user |-> u, data |-> data]
<1>1. Len(stack) = 1
    BY DEF Return
<1>2. /\ committed' = db /\ TablesOK(db) /\ TablesOK(c) /\ Extends(db, c)
      /\ \A g \in Count : Level(g, db) = Level(g, c)
    BY <1>1, TransactionEnds, CountsReturn
<1>3. data \in Data \ {NoData}
    BY <1>2, AccountFacts DEF TablesOK, AdapterTables
<1> HIDE DEF data
<1>4. k \in Count /\ k.of = "data" /\ k.user = u /\ k.data = data
    BY <1>3 DEF Count
<1>5. Level(k, c) = 1 + Cardinality(Taken(k, c))
    BY CountKinds, <1>4 DEF Level, data
<1>6. Level(k, db) = 0 + Cardinality(Taken(k, db))
    BY CountKinds, <1>2, <1>3, <1>4 DEF Level
<1>7. Cardinality(Taken(k, db)) = Cardinality(Taken(k, c)) + Cardinality(NewlyTaken(k, db, c))
    BY <1>2, TakenSince
<1>8. Cardinality(Taken(k, db)) \in Int /\ Cardinality(Taken(k, c)) \in Int
    BY <1>2, <1>4, LevelParts, CountKinds
<1>9. Cardinality(NewlyTaken(k, db, c)) \in Int
    <2>1. NewlyTaken(k, db, c) \subseteq Taken(k, db)
        BY DEF NewlyTaken, Taken
    <2> QED
        BY <1>2, <2>1, TakenFinite, FS_Subset, FS_CardinalityType
<1>10. Cardinality(NewlyTaken(k, db, c)) = 1
    <2>1. Level(k, db) = Level(k, c)
        BY <1>2, <1>4
    <2> HIDE DEF k, c
    <2> QED
        BY <1>5, <1>6, <1>7, <1>8, <1>9, <2>1
<1> QED
    BY <1>2, <1>4, <1>10 DEF NewlyTaken, data

\* Between transactions only its owner removes data.
LEMMA DataKept ==
    ASSUME IInv, Between, ~FreeUserData, NEW u \in Users, committed.adapter.userdata[u] # NoData
    PROVE  committed'.adapter.userdata[u] # NoData
<1> DEFINE a == db.adapter
<1>1. TablesOK(db) /\ a \in AdapterTables
    BY DEF IInv, Balanced, TablesOK
<1>2. ASSUME NEW checks, NEW after, OneStep(checks, after),
             after.adapter.userdata[u] = db.adapter.userdata[u]
      PROVE  committed'.adapter.userdata[u] # NoData
    BY <1>2 DEF OneStep, IInv, Balanced
<1>3. ASSUME NEW v PROVE [db EXCEPT !.xtoken = v].adapter = a /\ [db EXCEPT !.lockbox = v].adapter = a
                         /\ [db EXCEPT !.adapter = v].adapter = v
    BY <1>1, Replaced
<1>4. CASE SubmitTransfer \/ SubmitSettle
    <2>1. committed' = committed
        BY <1>4 DEF SubmitTransfer, SubmitSettle, CallSettle, Submit
    <2> QED
        BY <2>1
<1>5. CASE CreatePair \/ SetLockbox \/ SetLimits \/ Freeze \/ Unfreeze \/ Tick
    <2>1. CreatePair => \E v : committed' = [db EXCEPT !.lockbox = v]
        BY DEF CreatePair, OneStep
    <2>2. SetLockbox \/ SetLimits \/ Tick => \E v : committed' = [db EXCEPT !.xtoken = v]
        BY DEF SetLockbox, SetLimits, Tick, OneStep
    <2>3. Freeze \/ Unfreeze => \E v : committed' = [db EXCEPT !.xtoken = v]
        BY DEF Freeze, Unfreeze, OneStep
    <2>4. committed'.adapter = a
        BY <1>3, <1>5, <2>1, <2>2, <2>3
    <2>5. a = committed.adapter
        <3>1. stack = <<>>
            BY <1>5 DEF CreatePair, SetLockbox, SetLimits, Freeze, Unfreeze, Tick, OneStep
        <3> QED
            BY <3>1 DEF IInv, Balanced
    <2> QED
        BY <2>4, <2>5
<1>6. CASE CreateAdapter
    <2>1. A!Created(a, Registry).userdata = a.userdata
        <3> HIDE DEF a
        <3> QED
            BY <1>1 DEF A!Created, AdapterTables
    <2>2. PICK checks : OneStep(checks, [db EXCEPT !.adapter = A!Created(a, Registry)])
        BY <1>6 DEF CreateAdapter
    <2> QED
        BY <1>2, <1>3, <2>1, <2>2
<1>7. CASE SetFeesManager
    <2>1. A!FeesManagerSet(a, fees).userdata = a.userdata
        <3> HIDE DEF a
        <3> QED
            BY <1>1 DEF A!FeesManagerSet, AdapterTables
    <2>2. PICK checks : OneStep(checks, [db EXCEPT !.adapter = A!FeesManagerSet(a, fees)])
        BY <1>7 DEF SetFeesManager
    <2> QED
        BY <1>2, <1>3, <2>1, <2>2
<1>8. CASE AddUserData
    <2>1. PICK w \in Users, payload \in Payloads :
            OneStep(A!CanAddUserData({w}, w, payload), [db EXCEPT !.adapter = A!UserDataSet(a, w, payload)])
        BY <1>8 DEF AddUserData
    <2> DEFINE t == [a.userdata EXCEPT ![w] = payload]
    <2>2. a.userdata \in [Account -> Data] /\ u \in Account
        BY <1>1, AdapterTypes, AccountFacts
    <2>3. A!UserDataSet(a, w, payload).userdata = t
        <3>1. A!UserDataSet(a, w, payload) = [a EXCEPT !.userdata = t]
            BY DEF A!UserDataSet
        <3> HIDE DEF a, t
        <3> QED
            BY <1>1, <3>1 DEF AdapterTables
    <2>4. payload # NoData
        BY <2>1 DEF OneStep, A!CanAddUserData
    <2>5. CASE w = u
        <3>1. t[u] # NoData
            BY <2>2, <2>4, <2>5
        <3>2. committed' = [db EXCEPT !.adapter = A!UserDataSet(a, w, payload)]
            BY <2>1 DEF OneStep
        <3> HIDE DEF t
        <3> QED
            BY <1>3, <2>3, <3>1, <3>2
    <2>6. CASE w # u
        <3>1. t[u] = a.userdata[u]
            BY <2>2, <2>6
        <3> HIDE DEF t
        <3> QED
            BY <1>2, <1>3, <2>1, <2>3, <3>1
    <2> QED
        BY <2>5, <2>6
<1> QED
    BY <1>4, <1>5, <1>6, <1>7, <1>8, Zenon DEF Between

\* Data that disappears was removed by its owner, or is in exactly one event
\* of the transaction that took it (extract_memo_args).
THEOREM UserDataTakenSafety == Spec => UserDataTaken
<1> DEFINE Takes(u) == Cardinality({i \in DOMAIN committed'.events :
                            /\ i > Len(committed.events)
                            /\ committed'.events[i].sender = u
                            /\ committed'.events[i].data = committed.adapter.userdata[u]}) = 1
           Step == \A u \in Users :
                      LET data == committed.adapter.userdata[u]
                      IN  /\ data # NoData
                          /\ committed'.adapter.userdata[u] = NoData
                          => \/ FreeUserData
                             \/ Cardinality({i \in DOMAIN committed'.events :
                                    /\ i > Len(committed.events)
                                    /\ committed'.events[i].sender = u
                                    /\ committed'.events[i].data = data}) = 1
<1>1. IInv /\ [Next]_vars => [Step]_vars
    <2> SUFFICES ASSUME IInv, Next, NEW u \in Users,
                        committed.adapter.userdata[u] # NoData,
                        committed'.adapter.userdata[u] = NoData, ~FreeUserData
                 PROVE  Takes(u)
        BY Zenon
    <2>1. CASE Return
        BY <2>1, DataTakenOnce, Zenon
    <2>2. CASE Execution /\ ~Return
        BY <2>2, OnlyReturnCommits, Zenon
    <2>3. CASE Between
        BY <2>3, DataKept, Zenon
    <2> QED
        BY <2>1, <2>2, <2>3, Zenon DEF Next
<1> QED
    BY <1>1, Inductive, PTL DEF Spec, UserDataTaken

-----------------------------------------------------------------------------
\* The types of the tokens' tables.

\* Rows and tables in which nobody owes: an asset's amount may be negative, a
\* balance never is, as sub_balance takes no more than there is.
Purse == {row \in X!Row : row.balance >= 0}

Solvent == {t \in T!Token : t.rows \in [Account -> Purse]}

XSolvent == {x \in X!XToken : x.rows \in [Account -> Purse]}

\* A field of the xERC20 token's tables is replaced by one of its type.
LEMMA XTokenFieldTypes ==
    ASSUME NEW x \in XSolvent, NEW w
    PROVE  /\ w \in [Account -> Purse] => [x EXCEPT !.rows = w] \in XSolvent
           /\ w \in X!Amount => [x EXCEPT !.supply = w] \in XSolvent
           /\ w \in X!Limit => [x EXCEPT !.maxSupply = w] \in XSolvent
           /\ w \in [Account -> X!Quota] =>
                 [x EXCEPT !.minting = w] \in XSolvent /\ [x EXCEPT !.burning = w] \in XSolvent
           /\ w \in X!AccountOrNone =>
                 [x EXCEPT !.lockbox = w] \in XSolvent /\ [x EXCEPT !.freezer = w] \in XSolvent
           /\ w \subseteq Account =>
                 [x EXCEPT !.bridges = w] \in XSolvent /\ [x EXCEPT !.frozen = w] \in XSolvent
<1> DEFINE rows == [Account -> X!Row]
           purses == [Account -> Purse]
           quotas == [Account -> X!Quota]
<1>1. purses \subseteq rows
    BY DEF Purse
<1>2. XSolvent = [rows: purses, supply: X!Amount, maxSupply: X!Limit, bridges: SUBSET Account,
                  minting: quotas, burning: quotas, lockbox: X!AccountOrNone,
                  freezer: X!AccountOrNone, frozen: SUBSET Account]
    <2>1. X!XToken = [rows: rows, supply: X!Amount, maxSupply: X!Limit, bridges: SUBSET Account,
                      minting: quotas, burning: quotas, lockbox: X!AccountOrNone,
                      freezer: X!AccountOrNone, frozen: SUBSET Account]
        BY DEF X!XToken
    <2>2. XSolvent = {v \in X!XToken : v.rows \in purses}
        BY DEF XSolvent
    <2> HIDE DEF rows, purses, quotas
    <2> QED
        BY <1>1, <2>1, <2>2
<1> HIDE DEF rows, purses, quotas
<1>3. /\ w \in purses => [x EXCEPT !.rows = w] \in XSolvent
      /\ w \in X!Amount => [x EXCEPT !.supply = w] \in XSolvent
      /\ w \in X!Limit => [x EXCEPT !.maxSupply = w] \in XSolvent
    BY <1>2
<1>4. w \in quotas => [x EXCEPT !.minting = w] \in XSolvent /\ [x EXCEPT !.burning = w] \in XSolvent
    BY <1>2
<1>5. w \in X!AccountOrNone =>
         [x EXCEPT !.lockbox = w] \in XSolvent /\ [x EXCEPT !.freezer = w] \in XSolvent
    BY <1>2
<1>6. w \in SUBSET Account =>
         [x EXCEPT !.bridges = w] \in XSolvent /\ [x EXCEPT !.frozen = w] \in XSolvent
    BY <1>2
<1> QED
    BY <1>3, <1>4, <1>5, <1>6 DEF purses, quotas

\* Rows keep their type where the asset arithmetic asserts it.
LEMMA RowTypes ==
    ASSUME NEW rows \in [Account -> Purse], NEW auth, NEW owner \in Account, NEW value \in Int,
           NEW payer \in Account
    PROVE  /\ X!CanSubBalance(rows, auth, owner, value) =>
                 X!SubBalance(rows, owner, value) \in [Account -> Purse]
           /\ value >= 0 /\ X!CanAddBalance(rows, auth, owner, value, payer) =>
                 X!AddBalance(rows, owner, value, payer) \in [Account -> Purse]
<1> DEFINE left == [payer |-> owner, balance |-> rows[owner].balance - value]
           paid == [payer |-> IF X!HasRow(rows, owner) THEN rows[owner].payer ELSE payer,
                    balance |-> rows[owner].balance + value]
<1>1. /\ X!SubBalance(rows, owner, value) = [rows EXCEPT ![owner] = left]
      /\ X!AddBalance(rows, owner, value, payer) = [rows EXCEPT ![owner] = paid]
    BY DEF X!SubBalance, X!AddBalance
<1>2. X!CanSubBalance(rows, auth, owner, value) => left \in Purse
    <2>1. rows[owner].balance \in Int
        BY AssetsAssumption DEF Purse, X!Row, X!Amount
    <2>2. X!CanSubBalance(rows, auth, owner, value) =>
             left.balance \in X!Amount /\ left.balance >= 0
        BY <2>1 DEF X!CanSubBalance
    <2> QED
        BY <2>2 DEF X!Row, X!AccountOrNone, Purse
<1>3. value >= 0 /\ X!CanAddBalance(rows, auth, owner, value, payer) => paid \in Purse
    <2>1. rows[owner].payer \in X!AccountOrNone /\ payer \in X!AccountOrNone
        BY DEF Purse, X!Row, X!AccountOrNone
    <2>2. X!CanAddBalance(rows, auth, owner, value, payer) => rows[owner].balance + value \in X!Amount
        BY DEF X!CanAddBalance
    <2> QED
        <3>1. rows[owner].balance \in Int /\ rows[owner].balance >= 0
            BY AssetsAssumption DEF Purse, X!Row, X!Amount
        <3>2. value >= 0 => rows[owner].balance + value >= 0
            BY <3>1
        <3> QED
            BY <2>1, <2>2, <3>2 DEF X!Row, Purse
<1> HIDE DEF left, paid
<1> QED
    BY <1>1, <1>2, <1>3

\* The same of a transfer's two rows.
LEMMA MovedRowTypes ==
    ASSUME NEW rows \in [Account -> Purse], NEW auth, NEW from \in Account, NEW to \in Account,
           from # to, NEW value \in Nat, NEW payer \in Account,
           X!CanMove(rows, auth, from, to, value, payer)
    PROVE  X!Move(rows, from, to, value, payer) \in [Account -> Purse]
<1> DEFINE half == X!SubBalance(rows, from, value)
<1>1. value \in Int /\ value >= 0
    OBVIOUS
<1>2. X!CanSubBalance(rows, auth, from, value) /\ X!CanAddBalance(rows, auth, to, value, payer)
    BY DEF X!CanMove
<1>3. half \in [Account -> Purse]
    BY <1>1, <1>2, RowTypes
<1>4. half[to] = rows[to]
    BY DEF X!SubBalance
<1>5. X!CanAddBalance(half, auth, to, value, payer)
    <2> HIDE DEF half
    <2> QED
        BY <1>2, <1>4 DEF X!CanAddBalance, X!HasRow
<1>6. X!Move(rows, from, to, value, payer) = X!AddBalance(half, to, value, payer)
    BY DEF X!Move
<1> HIDE DEF half
<1>7. X!AddBalance(half, to, value, payer) \in [Account -> Purse]
    BY <1>1, <1>3, <1>5, RowTypes
<1> QED
    BY <1>6, <1>7

\* What is left of a limit that admitted a use is a limit.
LEMMA QuotaUsed ==
    ASSUME NEW q \in X!Quota, NEW n \in Nat, n <= X!CurrentLimit(q)
    PROVE  X!LimitUsed(q, n) \in X!Quota
<1>1. q.age \in Nat /\ q.rate \in Nat /\ q.current \in Nat /\ q.max \in Nat /\ q.max <= MaxAmount
    BY AssetsAssumption DEF X!Quota, X!Limit
<1>2. X!Refill(q) \in Nat
    <2>1. q.age * q.rate \in Nat
        BY <1>1
    <2> QED
        BY <1>1, <2>1 DEF X!Refill
<1>3. X!CurrentLimit(q) \in Nat /\ X!CurrentLimit(q) <= q.max
    BY <1>1, <1>2 DEF X!CurrentLimit
<1> DEFINE c == X!CurrentLimit(q) - n
<1>4. c \in X!Limit
    BY <1>1, <1>3, AssetsAssumption DEF X!Limit
<1>5. X!LimitUsed(q, n) = [q EXCEPT !.age = 0, !.current = c]
    BY DEF X!LimitUsed
<1>6. 0 \in 0 .. DURATION
    BY AssetsAssumption
<1> HIDE DEF c
<1> QED
    BY <1>4, <1>5, <1>6 DEF X!Quota

\* The quotas after a use.
LEMMA QuotasUsed ==
    ASSUME NEW x \in XSolvent, NEW quotas \in [Account -> X!Quota], NEW caller \in Account,
           NEW n \in Nat, X!MayUse(x, quotas, caller, n)
    PROVE  X!AfterUse(x, quotas, caller, n) \in [Account -> X!Quota]
<1>1. CASE caller = x.lockbox
    BY <1>1 DEF X!AfterUse
<1>2. CASE caller # x.lockbox
    <2> DEFINE q == X!LimitUsed(quotas[caller], n)
    <2>1. q \in X!Quota
        BY <1>2, QuotaUsed DEF X!MayUse
    <2>2. X!AfterUse(x, quotas, caller, n) = [quotas EXCEPT ![caller] = q]
        BY <1>2 DEF X!AfterUse
    <2> HIDE DEF q
    <2> QED
        BY <2>1, <2>2
<1> QED
    BY <1>1, <1>2

\* A limit that the owner changes, at any rate a float may be cut to.
LEMMA QuotaChanged ==
    ASSUME NEW q \in X!Quota, NEW rate \in Nat
    PROVE  X!LimitChanged(q, BridgeLimit, rate) \in X!Quota
<1> DEFINE g == X!CurrentLimit(q)
           c == X!NewCurrentLimit(BridgeLimit, q.max, g)
<1>1. q.age \in Nat /\ q.rate \in Nat /\ q.current \in Nat /\ q.max \in Nat
    BY AssetsAssumption DEF X!Quota, X!Limit
<1>2. X!Refill(q) \in Nat
    <2>1. q.age * q.rate \in Nat
        BY <1>1
    <2> QED
        BY <1>1, <2>1 DEF X!Refill
<1>3. g \in Nat /\ g <= q.max
    BY <1>1, <1>2 DEF X!CurrentLimit
<1> HIDE DEF g
<1>4. BridgeLimit \in Nat /\ BridgeLimit <= MaxAmount
    BY AssetsAssumption, QuantitiesAssumption
<1>5. c \in Nat /\ c <= BridgeLimit
    BY <1>1, <1>3, <1>4 DEF X!NewCurrentLimit
<1>6. c \in X!Limit /\ BridgeLimit \in X!Limit /\ 0 \in 0 .. DURATION
    BY <1>4, <1>5, AssetsAssumption DEF X!Limit
<1>7. X!LimitChanged(q, BridgeLimit, rate) =
        [age |-> 0, rate |-> rate, max |-> BridgeLimit, current |-> c]
    BY DEF X!LimitChanged, g
<1> HIDE DEF c
<1> QED
    BY <1>6, <1>7 DEF X!Quota

\* A quota a second later.
LEMMA QuotaOlder == ASSUME NEW q \in X!Quota PROVE X!SecondOlder(q) \in X!Quota
<1> DEFINE n == IF q.age < DURATION THEN q.age + 1 ELSE q.age
<1>1. n \in 0 .. DURATION
    BY AssetsAssumption DEF X!Quota
<1>2. X!SecondOlder(q) = [q EXCEPT !.age = n]
    BY DEF X!SecondOlder
<1> HIDE DEF n
<1> QED
    BY <1>1, <1>2 DEF X!Quota

-----------------------------------------------------------------------------
\* The tables the contracts of the tokens keep, and the adapter's for its
\* authorization; IInv has the other types.
Typed(d) == d.token \in Solvent /\ d.xtoken \in XSolvent /\ d.pam \in P!Pam

TypeInv == Typed(db) /\ Typed(committed) /\ Len(stack) <= MaxDepth + 1

\* One contract's tables are replaced.
LEMMA TypedParts ==
    ASSUME NEW d, TablesOK(d), Typed(d), NEW v
    PROVE  /\ v \in Solvent => Typed([d EXCEPT !.token = v])
           /\ v \in XSolvent => Typed([d EXCEPT !.xtoken = v])
           /\ Typed([d EXCEPT !.lockbox = v])
           /\ Typed([d EXCEPT !.adapter = v])
           /\ Typed([d EXCEPT !.events = v])
<1> DEFINE a == d.token
           b == d.xtoken
           g == d.pam
           d1 == [d EXCEPT !.token = v]
           d2 == [d EXCEPT !.xtoken = v]
           d3 == [d EXCEPT !.lockbox = v]
           d4 == [d EXCEPT !.adapter = v]
           d5 == [d EXCEPT !.events = v]
<1>1. /\ d1.token = v /\ d1.xtoken = b /\ d1.pam = g
      /\ d2.token = a /\ d2.xtoken = v /\ d2.pam = g
      /\ d3.token = a /\ d3.xtoken = b /\ d3.pam = g
      /\ d4.token = a /\ d4.xtoken = b /\ d4.pam = g
      /\ d5.token = a /\ d5.xtoken = b /\ d5.pam = g
    BY Replaced
<1> HIDE DEF d1, d2, d3, d4, d5
<1>2. /\ v \in Solvent => Typed(d1)
      /\ v \in XSolvent => Typed(d2)
      /\ Typed(d3) /\ Typed(d4) /\ Typed(d5)
    BY <1>1, Zenon DEF Typed
<1> QED
    BY <1>2 DEF d1, d2, d3, d4, d5

\* A transaction that reverts.
LEMMA RevertTyped == TypeInv /\ Revert => TypeInv'
<1> SUFFICES ASSUME TypeInv, Revert PROVE TypeInv'
    OBVIOUS
<1>1. Len(<<>>) <= MaxDepth + 1
    BY ChainAssumption
<1>2. db' = committed /\ committed' = committed /\ stack' = <<>>
    BY DEF Revert
<1> QED
    BY <1>1, <1>2 DEF TypeInv

\* A handler: what it leaves has the types if its checks hold.
LEMMA HandledTyped ==
    ASSUME IInv, TypeInv, stack # <<>>, NEW checks, NEW e, NEW receivers, NEW s,
           Handle(checks, e, receivers, s), checks => Typed(e)
    PROVE  TypeInv'
<1>1. CASE ~checks
    BY <1>1, RevertTyped DEF Handle
<1>2. CASE checks
    <2> DEFINE top == Executed(Head(stack), receivers, s)
    <2>1. /\ db' = e /\ committed' = committed /\ stack' = <<top>> \o Tail(stack)
        BY <1>2 DEF Handle
    <2>2. stack \in Seq(GoodFrame)
        BY DEF IInv, Balanced
    <2> HIDE DEF top
    <2>3. Len(<<top>> \o Tail(stack)) = Len(stack)
        BY <2>2
    <2> QED
        BY <1>2, <2>1, <2>3 DEF TypeInv
<1> QED
    BY <1>1, <1>2

\* An action that is a whole transaction.
LEMMA OneStepTyped ==
    ASSUME TypeInv, NEW checks, NEW e, OneStep(checks, e), checks => Typed(e)
    PROVE  TypeInv'
BY DEF OneStep, TypeInv

\* The chain's own steps.
LEMMA ChainTyped == IInv /\ TypeInv /\ (Descend \/ Return) => TypeInv'
<1> SUFFICES ASSUME IInv, TypeInv, Descend \/ Return PROVE TypeInv'
    OBVIOUS
<1>1. stack \in Seq(GoodFrame) /\ stack # <<>> /\ Len(stack) \in Nat /\ MaxDepth \in Nat
    BY ChainAssumption DEF IInv, Balanced, Descend, Return, AllExecuted
<1>2. Len(Tail(stack)) = Len(stack) - 1
    BY <1>1
<1>3. CASE Descend
    <2>1. CASE Len(stack) > MaxDepth
        BY <1>3, <2>1, RevertTyped DEF Descend
    <2>2. CASE ~(Len(stack) > MaxDepth)
        <3> DEFINE one == Frame(Head(Head(stack).sent))
                   two == [Head(stack) EXCEPT !.sent = Tail(@)]
        <3>1. stack' = <<one, two>> \o Tail(stack) /\ db' = db /\ committed' = committed
            BY <1>3, <2>2 DEF Descend
        <3> HIDE DEF one, two
        <3>2. Len(<<one, two>> \o Tail(stack)) = Len(stack) + 1
            BY <1>1, <1>2
        <3> QED
            BY <1>1, <2>2, <3>1, <3>2 DEF TypeInv
    <2> QED
        BY <2>1, <2>2
<1>4. CASE Return
    BY <1>1, <1>2, <1>4 DEF Return, TypeInv
<1> QED
    BY <1>3, <1>4

\* Transactions begin with one frame.
LEMMA SubmitTyped == ASSUME TypeInv, NEW m, Submit(m) PROVE TypeInv'
<1>1. Len(<<Frame(m)>>) <= MaxDepth + 1
    BY ChainAssumption
<1> QED
    BY <1>1 DEF Submit, TypeInv

\* Rows are the same in both tokens.
LEMMA SameRowChecks ==
    /\ T!Row = X!Row
    /\ \A rows, auth, from, to, value, payer :
          /\ T!CanMove(rows, auth, from, to, value, payer) <=> X!CanMove(rows, auth, from, to, value, payer)
          /\ T!Move(rows, from, to, value, payer) = X!Move(rows, from, to, value, payer)
BY DEF T!Row, X!Row, T!AccountOrNone, X!AccountOrNone, T!Amount, X!Amount,
       T!CanMove, T!CanSubBalance, T!CanAddBalance, T!HasRow, T!Move, T!SubBalance, T!AddBalance,
       X!CanMove, X!CanSubBalance, X!CanAddBalance, X!HasRow, X!Move, X!SubBalance, X!AddBalance

\* transfer of the underlying token.
LEMMA TokenTransferTyped == IInv /\ TypeInv /\ TokenTransfer => TypeInv'
<1> SUFFICES ASSUME IInv, TypeInv, TokenTransfer PROVE TypeInv'
    OBVIOUS
<1> DEFINE m == Act
           v == T!Transferred(db.token, {m.from}, m.from, m.to, m.amount)
           checks == /\ m.symbol = TokenSymbol
                     /\ T!CanTransfer(db.token, {m.from}, m.from, m.to, m.amount)
           receivers == NotifyBoth(Told, m.from, m.to)
           e == [db EXCEPT !.token = v]
<1>1. /\ Executes(tokenAccount) /\ m.code = tokenAccount /\ m.name = "transfer"
      /\ Handle(checks, e, receivers, <<>>)
    BY DEF TokenTransfer, Runs
<1>2. m \in TokenTransfers
    BY <1>1, FirstIsCode, MessageKinds
<1> HIDE DEF m
<1>3. m.from \in Account /\ m.to \in Account /\ m.amount \in Int
    BY <1>2, MoveFields
<1>4. TablesOK(db) /\ Typed(db) /\ stack # <<>>
    BY <1>1 DEF IInv, Balanced, TypeInv, Executes
<1>5. ASSUME checks PROVE v \in Solvent
    <2> DEFINE rows == T!Move(db.token.rows, m.from, m.to, m.amount, m.from)
    <2>1. /\ m.from # m.to /\ m.amount \in 1 .. MaxAmount
          /\ T!CanMove(db.token.rows, {m.from}, m.from, m.to, m.amount, m.from)
        BY <1>5 DEF T!CanTransfer, T!TransferPayer
    <2>2. db.token \in Solvent /\ db.token.rows \in [Account -> Purse]
        BY <1>4 DEF Typed, Solvent
    <2>3. rows \in [Account -> Purse]
        <3>1. m.amount \in Nat
            BY <2>1, AssetsAssumption
        <3> QED
            BY <1>3, <2>1, <2>2, <3>1, SameRowChecks, MovedRowTypes
    <2>4. v = [db.token EXCEPT !.rows = rows]
        BY DEF T!Transferred, T!TransferPayer
    <2> HIDE DEF rows, v
    <2>5. rows \in [Account -> T!Row]
        BY <2>3, SameRowChecks DEF Purse
    <2>6. v \in T!Token /\ v.rows = rows
        BY <2>2, <2>4, <2>5 DEF Solvent, T!Token
    <2> QED
        BY <2>3, <2>6 DEF Solvent
<1> HIDE DEF v
<1>6. checks => Typed(e)
    BY <1>4, <1>5, TypedParts
<1> HIDE DEF checks, e, receivers
<1> QED
    BY <1>1, <1>4, <1>6, HandledTyped

\* transfer of the xERC20 token.
LEMMA XTokenTransferTyped == IInv /\ TypeInv /\ XTokenTransfer => TypeInv'
<1> SUFFICES ASSUME IInv, TypeInv, XTokenTransfer PROVE TypeInv'
    OBVIOUS
<1> DEFINE m == Act
           x == db.xtoken
           v == X!Transferred(x, {m.from}, m.from, m.to, m.amount)
           checks == /\ m.symbol = XSymbol
                     /\ X!CanTransfer(x, {m.from}, m.from, m.to, m.amount)
           receivers == NotifyBoth(Told, m.from, m.to)
           e == [db EXCEPT !.xtoken = v]
<1>1. /\ Executes(xtokenAccount) /\ m.code = xtokenAccount /\ m.name = "transfer"
      /\ Handle(checks, e, receivers, <<>>)
    BY DEF XTokenTransfer, Runs
<1>2. m \in XTokenTransfers
    BY <1>1, FirstIsCode, MessageKinds
<1> HIDE DEF m
<1>3. m.from \in Account /\ m.to \in Account /\ m.amount \in Int
    BY <1>2, MoveFields
<1>4. TablesOK(db) /\ Typed(db) /\ stack # <<>>
    BY <1>1 DEF IInv, Balanced, TypeInv, Executes
<1>5. x \in XSolvent
    BY <1>4 DEF Typed
<1> HIDE DEF x
<1>6. x.rows \in [Account -> Purse]
    BY <1>5 DEF XSolvent, X!XToken
<1>7. ASSUME checks PROVE v \in XSolvent
    <2> DEFINE rows == X!Move(x.rows, m.from, m.to, m.amount, m.from)
    <2>1. /\ m.from # m.to /\ m.amount \in 1 .. MaxAmount
          /\ X!CanMove(x.rows, {m.from}, m.from, m.to, m.amount, m.from)
        BY <1>7 DEF X!CanTransfer, X!TransferPayer
    <2>2. rows \in [Account -> Purse]
        <3>1. m.amount \in Nat
            BY <2>1, AssetsAssumption
        <3> QED
            BY <1>3, <1>6, <2>1, <3>1, MovedRowTypes
    <2>3. v = [x EXCEPT !.rows = rows]
        BY DEF X!Transferred, X!TransferPayer
    <2> HIDE DEF rows, v
    <2> QED
        BY <1>5, <2>2, <2>3, XTokenFieldTypes
<1> HIDE DEF v
<1>8. checks => Typed(e)
    BY <1>4, <1>7, TypedParts
<1> HIDE DEF checks, e, receivers
<1> QED
    BY <1>1, <1>4, <1>8, HandledTyped

\* mint (xerc20.token.cpp): the check against the maximum bounds the supply.
LEMMA XTokenMintTyped == IInv /\ TypeInv /\ XTokenMint => TypeInv'
<1> SUFFICES ASSUME IInv, TypeInv, XTokenMint PROVE TypeInv'
    OBVIOUS
<1> DEFINE m == Act
           x == db.xtoken
           v == X!Minted(x, m.from, m.to, m.amount)
           checks == m.symbol = XSymbol /\ X!CanMint(x, {m.from}, m.from, m.to, m.amount)
           receivers == Notify(Told, m.to)
           e == [db EXCEPT !.xtoken = v]
<1>1. /\ Executes(xtokenAccount) /\ m.code = xtokenAccount /\ m.name = "mint"
      /\ Handle(checks, e, receivers, <<>>)
    BY DEF XTokenMint, Runs
<1>2. m \in Mints
    BY <1>1, FirstIsCode, MessageKinds
<1> HIDE DEF m
<1>3. m.from \in Account /\ m.to \in Account /\ m.amount \in Int
    BY <1>2, MoveFields
<1>4. TablesOK(db) /\ Typed(db) /\ stack # <<>>
    BY <1>1 DEF IInv, Balanced, TypeInv, Executes
<1>5. x \in XSolvent
    BY <1>4 DEF Typed
<1> HIDE DEF x
<1>6. /\ x.rows \in [Account -> Purse] /\ x.minting \in [Account -> X!Quota]
      /\ x.supply \in X!Amount /\ x.maxSupply \in X!Limit
    BY <1>5 DEF XSolvent, X!XToken
<1>7. ASSUME checks PROVE v \in XSolvent
    <2> DEFINE rows == X!AddBalance(x.rows, m.to, m.amount, m.from)
               supply == x.supply + m.amount
               quotas == X!AfterUse(x, x.minting, m.from, m.amount)
               y == [x EXCEPT !.minting = quotas]
               z == [y EXCEPT !.supply = supply]
    <2>1. /\ X!MayUse(x, x.minting, m.from, m.amount)
          /\ m.amount \in 1 .. x.maxSupply - x.supply
          /\ X!CanAddBalance(x.rows, {m.from}, m.to, m.amount, m.from)
        BY <1>7 DEF X!CanMint
    <2>2. x.maxSupply \in 0 .. MaxAmount /\ x.supply \in -MaxAmount .. MaxAmount
        BY <1>6 DEF X!Limit, X!Amount
    <2>3. m.amount \in Nat /\ supply \in X!Amount
        BY <2>1, <2>2, AssetsAssumption DEF X!Amount
    <2>4. rows \in [Account -> Purse]
        <3>1. m.amount >= 0
            BY <2>3
        <3> QED
            BY <1>3, <1>6, <2>1, <3>1, RowTypes
    <2>5. quotas \in [Account -> X!Quota]
        BY <1>3, <1>5, <1>6, <2>1, <2>3, QuotasUsed
    <2>6. v = [z EXCEPT !.rows = rows]
        BY DEF X!Minted
    <2> HIDE DEF rows, supply, quotas, v
    <2>7. y \in XSolvent
        BY <1>5, <2>5, XTokenFieldTypes
    <2> HIDE DEF y
    <2>8. z \in XSolvent
        BY <2>3, <2>7, XTokenFieldTypes
    <2> HIDE DEF z
    <2> QED
        BY <2>4, <2>6, <2>8, XTokenFieldTypes
<1> HIDE DEF v
<1>8. checks => Typed(e)
    BY <1>4, <1>7, TypedParts
<1> HIDE DEF checks, e, receivers
<1> QED
    BY <1>1, <1>4, <1>8, HandledTyped

\* burn (xerc20.token.cpp).
LEMMA XTokenBurnTyped == IInv /\ TypeInv /\ XTokenBurn => TypeInv'
<1> SUFFICES ASSUME IInv, TypeInv, XTokenBurn PROVE TypeInv'
    OBVIOUS
<1> DEFINE m == Act
           x == db.xtoken
           v == X!Burned(x, m.from, m.amount)
           checks == m.symbol = XSymbol /\ X!CanBurn(x, {m.from}, m.from, m.amount)
           e == [db EXCEPT !.xtoken = v]
<1>1. /\ Executes(xtokenAccount) /\ m.code = xtokenAccount /\ m.name = "burn"
      /\ Handle(checks, e, Told, <<>>)
    BY DEF XTokenBurn, Runs
<1>2. m \in Burns
    BY <1>1, FirstIsCode, MessageKinds
<1> HIDE DEF m
<1>3. m.from \in Account /\ m.amount \in Int
    BY <1>2, MoveFields
<1>4. TablesOK(db) /\ Typed(db) /\ stack # <<>>
    BY <1>1 DEF IInv, Balanced, TypeInv, Executes
<1>5. x \in XSolvent
    BY <1>4 DEF Typed
<1> HIDE DEF x
<1>6. x.rows \in [Account -> Purse] /\ x.burning \in [Account -> X!Quota]
    BY <1>5 DEF XSolvent, X!XToken
<1>7. ASSUME checks PROVE v \in XSolvent
    <2> DEFINE rows == X!SubBalance(x.rows, m.from, m.amount)
               supply == x.supply - m.amount
               quotas == X!AfterUse(x, x.burning, m.from, m.amount)
               y == [x EXCEPT !.burning = quotas]
               z == [y EXCEPT !.supply = supply]
    <2>1. /\ X!MayUse(x, x.burning, m.from, m.amount)
          /\ m.amount \in 1 .. MaxAmount /\ supply \in X!Amount
          /\ X!CanSubBalance(x.rows, {m.from}, m.from, m.amount)
        BY <1>7 DEF X!CanBurn
    <2>2. rows \in [Account -> Purse]
        BY <1>3, <1>6, <2>1, RowTypes
    <2>3. m.amount \in Nat
        BY <2>1, AssetsAssumption
    <2>4. quotas \in [Account -> X!Quota]
        BY <1>3, <1>5, <1>6, <2>1, <2>3, QuotasUsed
    <2>5. v = [z EXCEPT !.rows = rows]
        BY DEF X!Burned
    <2> HIDE DEF rows, supply, quotas, v
    <2>6. y \in XSolvent
        BY <1>5, <2>4, XTokenFieldTypes
    <2> HIDE DEF y
    <2>7. z \in XSolvent
        BY <2>1, <2>6, XTokenFieldTypes
    <2> HIDE DEF z
    <2> QED
        BY <2>2, <2>5, <2>7, XTokenFieldTypes
<1> HIDE DEF v
<1>8. checks => Typed(e)
    BY <1>4, <1>7, TypedParts
<1> HIDE DEF checks, e
<1> QED
    BY <1>1, <1>4, <1>8, HandledTyped

\* The handlers that leave the tokens' tables alone.
LEMMA OthersTyped ==
    ASSUME IInv, TypeInv,
           \/ OtherToken \/ AdapterSettle \/ AdapterSwap \/ AdapterNotified \/ LockboxNotified
           \/ \E u \in Users : UserNotified(u)
           \/ NobodyNotified
    PROVE  TypeInv'
<1>1. stack # <<>>
    BY DEF OtherToken, AdapterSettle, AdapterSwap, AdapterNotified, LockboxNotified, UserNotified,
           NobodyNotified, Notified, Runs, Executes
<1>2. TablesOK(db) /\ Typed(db)
    BY DEF IInv, Balanced, TypeInv
<1>3. \A v : Typed([db EXCEPT !.adapter = v]) /\ Typed([db EXCEPT !.events = v])
    BY <1>2, TypedParts
<1>4. ASSUME NEW checks, NEW receivers, NEW s, Handle(checks, db, receivers, s) PROVE TypeInv'
    BY <1>1, <1>2, <1>4, HandledTyped
<1>5. ASSUME NEW checks, NEW v, NEW receivers, NEW s,
             \/ Handle(checks, [db EXCEPT !.adapter = v], receivers, s)
             \/ Handle(checks, [db EXCEPT !.events = v], receivers, s)
      PROVE  TypeInv'
    <2> DEFINE d == [db EXCEPT !.adapter = v]
               e == [db EXCEPT !.events = v]
    <2>1. Typed(d) /\ Typed(e) /\ (Handle(checks, d, receivers, s) \/ Handle(checks, e, receivers, s))
        BY <1>3, <1>5
    <2> HIDE DEF d, e
    <2> QED
        BY <1>1, <2>1, HandledTyped
<1>6. CASE OtherToken
    BY <1>4, <1>6 DEF OtherToken
<1>7. CASE AdapterSettle
    <2> DEFINE v == A!Settled(db.adapter, Act.metadata.preimage)
    <2>1. PICK checks, receivers, s : Handle(checks, [db EXCEPT !.adapter = v], receivers, s)
        BY <1>7 DEF AdapterSettle
    <2> HIDE DEF v
    <2> QED
        BY <1>5, <2>1
<1>8. CASE AdapterSwap
    <2> DEFINE v == Append(db.events, Act.memo)
    <2>1. PICK checks : Handle(checks, [db EXCEPT !.events = v], Told, <<>>)
        BY <1>8 DEF AdapterSwap
    <2> HIDE DEF v
    <2> QED
        BY <1>5, <2>1
<1>9. CASE AdapterNotified
    <2> DEFINE v == A!Received(db.adapter, Act)
    <2>1. \/ Handle(TRUE, db, Told, <<>>)
          \/ \E checks, s : Handle(checks, [db EXCEPT !.adapter = v], Told, s)
        BY <1>9 DEF AdapterNotified
    <2> HIDE DEF v
    <2> QED
        BY <1>4, <1>5, <2>1
<1>10. CASE LockboxNotified
    BY <1>4, <1>10 DEF LockboxNotified
<1>11. ASSUME NEW u \in Users, UserNotified(u) PROVE TypeInv'
    <2>1. \/ Revert
          \/ \E s : Handle(TRUE, db, Told, s)
        BY <1>11 DEF UserNotified
    <2> QED
        BY <1>4, <2>1, RevertTyped
<1>12. CASE NobodyNotified
    BY <1>4, <1>12 DEF NobodyNotified
<1> QED
    BY <1>6, <1>7, <1>8, <1>9, <1>10, <1>11, <1>12

-----------------------------------------------------------------------------
\* The owner's actions and the others between transactions.

\* There is a rate for every limit: the quotient that is not rounded.
LEMMA RateExists ==
    (CHOOSE r \in X!RatesOf(BridgeLimit) : TRUE) \in Nat
<1> DEFINE r == BridgeLimit \div DURATION
           f == RateError
<1>1. BridgeLimit \in Nat /\ DURATION \in Nat \ {0} /\ f \in Nat
    BY AssetsAssumption, QuantitiesAssumption
<1>2. r \in Nat /\ r * DURATION <= BridgeLimit /\ BridgeLimit < (r + 1) * DURATION
    BY <1>1
<1>3. r <= r * DURATION /\ r * DURATION \in Nat /\ (r + 1) * DURATION \in Nat
    BY <1>1, <1>2
<1> HIDE DEF r
<1>4. r \in 0 .. BridgeLimit + f
    BY <1>1, <1>2, <1>3
<1>5. r * DURATION <= BridgeLimit + f /\ BridgeLimit < (r + 1) * DURATION + f
    BY <1>1, <1>2, <1>3
<1>6. r \in X!RatesOf(BridgeLimit)
    BY <1>4, <1>5 DEF X!RatesOf
<1>7. X!RatesOf(BridgeLimit) \subseteq Nat
    BY DEF X!RatesOf
<1> QED
    BY <1>6, <1>7

\* setlimits for the adapter.
LEMMA LimitsTyped == ASSUME NEW d, d.xtoken \in XSolvent PROVE LimitsOf(d) \in XSolvent
<1> DEFINE x == d.xtoken
           rate == CHOOSE r \in X!RatesOf(BridgeLimit) : TRUE
           bridges == x.bridges \cup {adapter}
           mq == X!LimitChanged(x.minting[adapter], BridgeLimit, rate)
           bq == X!LimitChanged(x.burning[adapter], BridgeLimit, rate)
           minting == [x.minting EXCEPT ![adapter] = mq]
           burning == [x.burning EXCEPT ![adapter] = bq]
           y == [x EXCEPT !.bridges = bridges]
           z == [y EXCEPT !.minting = minting]
           v == [z EXCEPT !.burning = burning]
<1>1. LimitsOf(d) = v
    <2>1. LimitsOf(d) = [x EXCEPT !.bridges = bridges, !.minting = minting, !.burning = burning]
        <3> HIDE DEF rate, x
        <3> QED
            BY DEF LimitsOf, X!LimitsSet, rate, x
    <2> QED
        BY <2>1
<1>2. rate \in Nat /\ x \in XSolvent /\ adapter \in Account
    BY RateExists, AccountFacts
<1> HIDE DEF x, rate
<1>3. /\ x.minting \in [Account -> X!Quota] /\ x.burning \in [Account -> X!Quota]
      /\ x.bridges \subseteq Account
    BY <1>2 DEF XSolvent, X!XToken
<1>4. mq \in X!Quota /\ bq \in X!Quota
    BY <1>2, <1>3, QuotaChanged
<1> HIDE DEF mq, bq
<1>5. minting \in [Account -> X!Quota] /\ burning \in [Account -> X!Quota] /\ bridges \subseteq Account
    BY <1>2, <1>3, <1>4
<1> HIDE DEF minting, burning, bridges
<1>6. y \in XSolvent
    BY <1>2, <1>5, XTokenFieldTypes
<1> HIDE DEF y
<1>7. z \in XSolvent
    BY <1>5, <1>6, XTokenFieldTypes
<1> HIDE DEF z
<1> QED
    BY <1>1, <1>5, <1>7, XTokenFieldTypes

\* All of them.
LEMMA BetweenTyped == IInv /\ TypeInv /\ Between => TypeInv'
<1> SUFFICES ASSUME IInv, TypeInv, Between PROVE TypeInv'
    OBVIOUS
<1> DEFINE x == db.xtoken
<1>1. TablesOK(db) /\ Typed(db) /\ x \in XSolvent
    BY DEF IInv, Balanced, TypeInv, Typed
<1>2. ASSUME NEW v, NEW checks, v \in XSolvent, OneStep(checks, [db EXCEPT !.xtoken = v])
      PROVE  TypeInv'
    <2> DEFINE e == [db EXCEPT !.xtoken = v]
    <2>1. Typed(e) /\ OneStep(checks, e)
        BY <1>1, <1>2, TypedParts
    <2> HIDE DEF e
    <2> QED
        BY <2>1, OneStepTyped
<1>3. ASSUME NEW v, NEW checks,
             \/ OneStep(checks, [db EXCEPT !.adapter = v])
             \/ OneStep(checks, [db EXCEPT !.lockbox = v])
      PROVE  TypeInv'
    <2> DEFINE d == [db EXCEPT !.adapter = v]
               e == [db EXCEPT !.lockbox = v]
    <2>1. Typed(d) /\ Typed(e) /\ (OneStep(checks, d) \/ OneStep(checks, e))
        BY <1>1, <1>3, TypedParts
    <2> HIDE DEF d, e
    <2> QED
        BY <2>1, OneStepTyped
<1> HIDE DEF x
<1>4. CASE SubmitTransfer \/ SubmitSettle
    BY <1>4, SubmitTyped DEF SubmitTransfer, SubmitSettle, CallSettle
<1>5. CASE CreateAdapter \/ SetFeesManager \/ AddUserData \/ FreeUserData \/ CreatePair
    <2>1. \E v, checks : \/ OneStep(checks, [db EXCEPT !.adapter = v])
                         \/ OneStep(checks, [db EXCEPT !.lockbox = v])
        BY <1>5 DEF CreateAdapter, SetFeesManager, AddUserData, FreeUserData, CreatePair
    <2> QED
        BY <1>3, <2>1
<1>6. CASE SetLockbox
    <2>1. X!LockboxSet(x, lockbox) \in XSolvent
        BY <1>1, XTokenFieldTypes, AccountFacts DEF X!LockboxSet, X!AccountOrNone
    <2> QED
        BY <1>2, <1>6, <2>1 DEF SetLockbox, x
<1>7. CASE SetLimits
    <2>1. LimitsOf(db) \in XSolvent
        BY <1>1, LimitsTyped DEF x
    <2> QED
        BY <1>2, <1>7, <2>1 DEF SetLimits
<1>8. CASE Freeze \/ Unfreeze
    <2>1. PICK a \in FreezeTargets : \E checks :
            \/ OneStep(checks, [db EXCEPT !.xtoken = X!Frozen(x, a)])
            \/ OneStep(checks, [db EXCEPT !.xtoken = X!Unfrozen(x, a)])
        BY <1>8 DEF Freeze, Unfreeze, x
    <2>2. x.frozen \cup {a} \subseteq Account /\ x.frozen \ {a} \subseteq Account
        BY <1>1, ChainAssumption DEF XSolvent, X!XToken
    <2>3. X!Frozen(x, a) \in XSolvent /\ X!Unfrozen(x, a) \in XSolvent
        BY <1>1, <2>2, XTokenFieldTypes DEF X!Frozen, X!Unfrozen
    <2> QED
        BY <1>2, <2>1, <2>3
<1>9. CASE Tick
    <2> DEFINE m == [a \in Account |-> X!SecondOlder(x.minting[a])]
               b == [a \in Account |-> X!SecondOlder(x.burning[a])]
               y == [x EXCEPT !.minting = m]
    <2>1. X!AllOlder(x) = [y EXCEPT !.burning = b]
        BY DEF X!AllOlder
    <2>2. m \in [Account -> X!Quota] /\ b \in [Account -> X!Quota]
        BY <1>1, QuotaOlder DEF XSolvent, X!XToken
    <2> HIDE DEF m, b
    <2>3. y \in XSolvent
        BY <1>1, <2>2, XTokenFieldTypes
    <2> HIDE DEF y
    <2>4. X!AllOlder(x) \in XSolvent
        BY <2>1, <2>2, <2>3, XTokenFieldTypes
    <2> QED
        BY <1>2, <1>9, <2>4 DEF Tick, x
<1> QED
    BY <1>4, <1>5, <1>6, <1>7, <1>8, <1>9 DEF Between

-----------------------------------------------------------------------------
\* The tables at first.

\* The underlying token: what users have is part of the supply.
LEMMA FirstTokenTyped == Bare.token \in Solvent
<1> DEFINE rows == [a \in Account |->
                      IF a \notin Users THEN T!NoRow
                      ELSE [payer |-> tokenAccount, balance |-> Holding]]
           n == Cardinality(Users) * Holding
<1>1. /\ MaxAmount \in Nat /\ MaxSupply \in 0 .. MaxAmount /\ Holding \in Nat
      /\ Cardinality(Users) \in Nat /\ n \in Nat /\ n <= MaxAmount
    <2>1. Cardinality(Users) \in Nat /\ Holding \in Nat
        BY AccountsAssumption, QuantitiesAssumption, FS_CardinalityType
    <2>2. n \in Nat
        BY <2>1
    <2> HIDE DEF n
    <2>3. n <= MaxSupply
        BY AssetsAssumption DEF n
    <2> QED
        BY <2>1, <2>2, <2>3, AssetsAssumption, QuantitiesAssumption
<1>2. 0 \in T!Amount /\ n \in T!Amount
    <2> HIDE DEF n
    <2> QED
        BY <1>1 DEF T!Amount
<1>3. T!NoRow \in Purse
    BY <1>2 DEF Purse, T!NoRow, X!Row, X!AccountOrNone, T!Amount, X!Amount
<1>4. ASSUME NEW a \in Users PROVE [payer |-> tokenAccount, balance |-> Holding] \in Purse
    <2>1. Cardinality(Users) # 0
        BY <1>4, AccountsAssumption, FS_EmptySet
    <2>2. Holding <= n
        BY <1>1, <2>1
    <2>3. Holding \in T!Amount
        <3> HIDE DEF n
        <3> QED
            BY <1>1, <2>2 DEF T!Amount
    <2> QED
        BY <1>1, <2>3, AccountFacts DEF Purse, X!Row, X!AccountOrNone, T!Amount, X!Amount
<1>5. rows \in [Account -> Purse] /\ T!NoRows \in [Account -> Purse]
    BY <1>3, <1>4 DEF T!NoRows
<1>6. \A r \in [Account -> Purse] : r \in [Account -> T!Row]
    BY SameRowChecks DEF Purse
<1>7. CASE ~Home
    <2>1. Bare.token = [rows |-> T!NoRows, supply |-> 0, maxSupply |-> 0, issuer |-> NoName]
        BY <1>7 DEF Bare, T!NewToken
    <2> QED
        BY <1>6, <1>1, <1>2, <1>5, <2>1 DEF Solvent, T!Token, T!AccountOrNone
<1>8. CASE Home
    <2>1. Bare.token = [rows |-> rows, supply |-> n, maxSupply |-> MaxSupply, issuer |-> tokenAccount]
        <3>1. Bare.token = [T!NewToken EXCEPT !.maxSupply = MaxSupply, !.issuer = tokenAccount,
                                              !.supply = n, !.rows = rows]
            BY <1>8 DEF Bare
        <3> HIDE DEF n, rows
        <3> QED
            BY <3>1 DEF T!NewToken
    <2> HIDE DEF n, rows
    <2> QED
        BY <1>6, <1>1, <1>2, <1>5, <2>1, AccountFacts DEF Solvent, T!Token, T!AccountOrNone
<1> QED
    BY <1>7, <1>8

\* The xERC20 token.
LEMMA FirstXTokenTyped == Bare.xtoken \in XSolvent
<1> DEFINE x == X!NewXToken
           y == [x EXCEPT !.maxSupply = MaxSupply]
<1>1. MaxSupply \in X!Limit /\ 0 \in X!Limit /\ 0 \in X!Amount /\ DURATION \in 0 .. DURATION
    BY AssetsAssumption, QuantitiesAssumption DEF X!Limit, X!Amount
<1>2. X!NoRow \in Purse /\ X!EmptyQuota \in X!Quota
    BY <1>1 DEF Purse, X!NoRow, X!Row, X!AccountOrNone, X!EmptyQuota, X!Quota
<1>3. X!NoRows \in [Account -> Purse] /\ [a \in Account |-> X!EmptyQuota] \in [Account -> X!Quota]
    BY <1>2 DEF X!NoRows
<1>4. [Account -> Purse] \subseteq [Account -> X!Row]
    BY DEF Purse
<1>5. x \in XSolvent
    BY <1>4, <1>1, <1>3 DEF X!NewXToken, XSolvent, X!XToken, X!AccountOrNone
<1>6. Bare.xtoken = [y EXCEPT !.freezer = relayer]
    BY DEF Bare, X!FreezeAccSet, X!Created
<1> HIDE DEF x
<1>7. y \in XSolvent
    BY <1>1, <1>5, XTokenFieldTypes
<1>8. relayer \in X!AccountOrNone
    BY DEF X!AccountOrNone, Account
<1> HIDE DEF y
<1> QED
    BY <1>6, <1>7, <1>8, XTokenFieldTypes

\* A deployment, before and after the owner's work.
LEMMA InitTyped == Init => TypeInv
<1> SUFFICES ASSUME Init PROVE TypeInv
    OBVIOUS
<1>1. Typed(Bare)
    <2>1. Bare.pam = InitialPam
        BY DEF Bare
    <2> QED
        BY <2>1, FirstTokenTyped, FirstXTokenTyped, ChainAssumption DEF Typed
<1>2. Typed(Ready)
    <2> DEFINE x == IF Home THEN X!LockboxSet(LimitsOf(Bare), lockbox) ELSE LimitsOf(Bare)
    <2>1. Ready.token = Bare.token /\ Ready.pam = Bare.pam /\ Ready.xtoken = x
        BY DEF Ready, Bare
    <2>2. LimitsOf(Bare) \in XSolvent
        BY LimitsTyped, FirstXTokenTyped
    <2>3. x \in XSolvent
        BY <2>2, XTokenFieldTypes, AccountFacts DEF X!LockboxSet, X!AccountOrNone
    <2> HIDE DEF x
    <2> QED
        BY <1>1, <2>1, <2>3 DEF Typed
<1>3. Len(<<>>) <= MaxDepth + 1
    BY ChainAssumption
<1> QED
    BY <1>1, <1>2, <1>3 DEF Init, TypeInv

\* Every step keeps the types.
LEMMA NextTyped == IInv /\ TypeInv /\ [Next]_vars => TypeInv'
<1> SUFFICES ASSUME IInv, TypeInv, [Next]_vars PROVE TypeInv'
    OBVIOUS
<1>1. CASE UNCHANGED vars
    BY <1>1 DEF vars, TypeInv
<1>2. CASE Execution
    BY <1>2, TokenTransferTyped, XTokenTransferTyped, XTokenMintTyped, XTokenBurnTyped,
       OthersTyped, ChainTyped, Zenon DEF Execution
<1>3. CASE Between
    BY <1>3, BetweenTyped
<1> QED
    BY <1>1, <1>2, <1>3 DEF Next

\* The tables of all contracts keep their types, in the middle of a
\* transaction too, and no transaction is deeper than the chain allows.
THEOREM TypeCorrect == Spec => []TypeOK
<1>1. IInv /\ TypeInv => TypeOK
    <2> SUFFICES ASSUME IInv, TypeInv PROVE TypeOK
        OBVIOUS
    <2>1. TablesOK(db) /\ TablesOK(committed)
        BY DEF IInv, Balanced
    <2>2. ASSUME NEW d \in {db, committed}
          PROVE  /\ d.token \in T!Token /\ d.xtoken \in X!XToken /\ d.pam \in P!Pam
                 /\ d.lockbox \subseteq {Pair}
                 /\ d.adapter.registry \in {Unset, Registry} /\ d.adapter.nonce \in Nat
                 /\ d.adapter.feesmanager \in {NoName, fees}
        BY <2>1, <2>2 DEF TypeInv, Typed, TablesOK, AdapterTables, Solvent, XSolvent
    <2> QED
        BY <2>2 DEF TypeOK, TypeInv
<1>2. Spec => []TypeInv
    BY InitTyped, NextTyped, Inductive, PTL DEF Spec
<1> QED
    BY <1>1, <1>2, Inductive, PTL

-----------------------------------------------------------------------------
\* The ledger.

MeterOf(of, user, data) == [of |-> of, user |-> user, data |-> data]

Settlement(d, e) == IF e \in SettledEvents(d) THEN 1 ELSE 0

\* Every meter reads more by what action m was worth.
Amended(d, c, m) ==
    /\ \A w \in Account \ {adapter, lockbox} :
          Balance(d, w) = Balance(c, w) + Weight(MeterOf("wallet", w, NoData), m)
    /\ Len(d.events) = Len(c.events) + Weight(MeterOf("events", NoName, NoData), m)
    /\ SwappedUnits(d) = SwappedUnits(c) + Weight(MeterOf("announced", NoName, NoData), m)
    /\ Weight(MeterOf("refused", NoName, NoData), m) = 0
    /\ \A e \in {p.preimage : p \in Metadata} :
          Settlement(d, e) = Settlement(c, e) + Weight(MeterOf("settled", NoName, e), m)

\* The meters and what they read.
LEMMA MetersRead ==
    /\ \A w \in Account \ {adapter, lockbox} : MeterOf("wallet", w, NoData) \in Meter
    /\ MeterOf("events", NoName, NoData) \in Meter
    /\ MeterOf("announced", NoName, NoData) \in Meter
    /\ MeterOf("refused", NoName, NoData) \in Meter
    /\ \A e \in {p.preimage : p \in Metadata} : MeterOf("settled", NoName, e) \in Meter
    /\ \A d : /\ \A w : Level(MeterOf("wallet", w, NoData), d) = Balance(d, w)
              /\ Level(MeterOf("events", NoName, NoData), d) = Len(d.events)
              /\ Level(MeterOf("announced", NoName, NoData), d) = SwappedUnits(d)
              /\ Level(MeterOf("refused", NoName, NoData), d) = 0
              /\ \A e : Level(MeterOf("settled", NoName, e), d) = Settlement(d, e)
<1>1. /\ \A w \in Account \ {adapter, lockbox} : MeterOf("wallet", w, NoData) \in Meter
      /\ MeterOf("events", NoName, NoData) \in Meter
      /\ MeterOf("announced", NoName, NoData) \in Meter
      /\ MeterOf("refused", NoName, NoData) \in Meter
      /\ \A e \in {p.preimage : p \in Metadata} : MeterOf("settled", NoName, e) \in Meter
    BY DEF Meter, MeterOf
<1>2. \A d : /\ \A w : Level(MeterOf("wallet", w, NoData), d) = Balance(d, w)
             /\ Level(MeterOf("events", NoName, NoData), d) = Len(d.events)
             /\ Level(MeterOf("announced", NoName, NoData), d) = SwappedUnits(d)
             /\ Level(MeterOf("refused", NoName, NoData), d) = 0
             /\ \A e : Level(MeterOf("settled", NoName, e), d) = Settlement(d, e)
    BY DEF Level, MeterLevel, IsMeter, MeterOf, Settlement
<1> QED
    BY <1>1, <1>2

\* While no user has code, a transaction amends them by its first action.
LEMMA TransactionAmends ==
    ASSUME IInv, Contracts = {}, Return, Len(stack) = 1
    PROVE  Amended(db, committed, Act)
<1>1. \A k \in Meter : Level(k, db) = Level(k, committed) + Weight(k, Act)
    BY TransactionEnds DEF Gauge
<1>2. Act \in Sendable \cup Settles
    BY TransactionEnds, UserSends DEF Starts
<1>3. \A k \in Meter : Weight(k, Act) \in Int
    BY <1>2, WeightType DEF Gauge
<1> DEFINE k == MeterOf("refused", NoName, NoData)
<1>4. k \in Meter /\ Level(k, db) = 0 /\ Level(k, committed) = 0
    BY MetersRead
<1>5. Weight(k, Act) = 0
    BY <1>1, <1>3, <1>4
<1> QED
    BY <1>1, <1>5, MetersRead DEF Amended

\* No event is added, or one.
LEMMA EventsSince ==
    ASSUME NEW d, NEW c, TablesOK(d), TablesOK(c), Extends(d, c)
    PROVE  /\ Len(d.events) = Len(c.events) => d.events = c.events
           /\ Len(d.events) = Len(c.events) + 1 =>
                Worths(d.events) = Append(Worths(c.events), SwappedUnits(d) - SwappedUnits(c))
<1> DEFINE s == c.events
           t == d.events
           n == Len(c.events)
<1>1. /\ s \in Seq(Announced) /\ t \in Seq(Announced)
      /\ n \in Nat /\ DOMAIN s = 1 .. n /\ DOMAIN t = 1 .. Len(t)
      /\ \A i \in DOMAIN s : t[i] = s[i]
    BY LenProperties DEF TablesOK, Extends
<1>2. Len(t) = n => t = s
    BY <1>1, SeqEqual
<1>3. ASSUME Len(t) = n + 1
      PROVE  Worths(t) = Append(Worths(s), SwappedUnits(d) - SwappedUnits(c))
    <2> DEFINE x == t[n + 1]
               e == [c EXCEPT !.events = Append(s, x)]
               v == x.amount \div Unit
    <2>1. x \in Announced
        BY <1>1, <1>3, ElementOfSeq
    <2>2. t = Append(s, x)
        <3>1. /\ Append(s, x) \in Seq(Announced) /\ Len(Append(s, x)) = n + 1
              /\ \A i \in 1 .. n : Append(s, x)[i] = s[i]
              /\ Append(s, x)[n + 1] = x
            BY <1>1, <2>1, AppendProperties
        <3> QED
            BY <1>1, <1>3, <3>1, SeqEqual
    <2>3. SwappedUnits(e) = SwappedUnits(c) + v
        BY <2>1, EventAdded
    <2>4. e.events = Append(s, x)
        BY Replaced
    <2>5. SwappedUnits(d) = SwappedUnits(e)
        BY <2>2, <2>4 DEF SwappedUnits
    <2>6. v \in Int /\ SwappedUnits(c) \in Int
        <3>1. x.amount \in Int /\ Unit \in Nat \ {0}
            BY <2>1, ChainAssumption DEF Announced
        <3> QED
            BY <3>1, SwappedSum
    <2>7. SwappedUnits(d) - SwappedUnits(c) = v
        <3> HIDE DEF e, v, x
        <3> QED
            BY <2>3, <2>5, <2>6
    <2>8. Worths(Append(s, x)) = Append(Worths(s), v)
        BY <1>1, <2>1, WorthsAppend
    <2> QED
        BY <2>2, <2>7, <2>8
<1> QED
    BY <1>2, <1>3

\* The same events are settled if their meters are not moved.
LEMMA SettledSame ==
    ASSUME NEW d, NEW c, NEW m, TablesOK(d), TablesOK(c), Amended(d, c, m),
           \A e \in {p.preimage : p \in Metadata} : Weight(MeterOf("settled", NoName, e), m) = 0
    PROVE  SettledEvents(d) = SettledEvents(c)
<1>1. SettledEvents(d) \cup SettledEvents(c) \subseteq {p.preimage : p \in Metadata}
    BY DEF SettledEvents, TablesOK, AdapterTables
<1>2. \A e \in {p.preimage : p \in Metadata} : Settlement(d, e) = Settlement(c, e)
    BY DEF Amended, Settlement
<1>3. \A e \in {p.preimage : p \in Metadata} : e \in SettledEvents(d) <=> e \in SettledEvents(c)
    BY <1>2 DEF Settlement
<1> QED
    BY <1>1, <1>3

\* What the transfer itself does to a meter, for a user's transfer; and what
\* follows from it.
Own(k, m) ==
    IF k.of = "wallet" THEN Gain(m, k.user) ELSE IF k.of = "refused" THEN Refused(m) ELSE 0

Rest(k, m) ==
    IF m.to = adapter THEN Swapping(k, m.amount, m.memo)
    ELSE IF m.to = lockbox THEN Paid(k, m.from, m.amount) ELSE 0

\* A user's transfer weighs on a meter by both.
LEMMA UserMeters ==
    ASSUME NEW k \in Meter, NEW m \in TokenTransfers \cup XTokenTransfers, m.from \in Users
    PROVE  Weight(k, m) = Own(k, m) + Rest(k, m) /\ Own(k, m) \in Int /\ Rest(k, m) \in Int
<1>1. /\ m.amount \in Int /\ m.name = "transfer" /\ adapter # lockbox /\ IsMeter(k)
      /\ m.from \notin {adapter, lockbox}
      /\ m \in XTokenTransfers => m \notin TokenTransfers
    BY OneKind, MoveFields, AccountsAssumption, MeterKinds
<1>2. Effect(k, m) = Own(k, m)
    BY <1>1 DEF Effect, MeterEffect, Own
<1>3. Own(k, m) \in Int
    BY <1>1 DEF Own, Gain, Refused
<1>4. Rest(k, m) \in Int
    BY <1>1, SwappingType DEF Rest, Paid
<1>5. Share(k, adapter, m) = IF m.to = adapter THEN Swapping(k, m.amount, m.memo) ELSE 0
    BY <1>1 DEF Share, TokenPasses, XTokenPasses
<1>6. Share(k, lockbox, m) = IF m.to = lockbox THEN Paid(k, m.from, m.amount) ELSE 0
    BY <1>1 DEF Share, TokenPasses, XTokenPasses
<1>7. Shares(k, m) = Rest(k, m)
    <2>1. m.to = adapter => Share(k, lockbox, m) = 0 /\ Share(k, adapter, m) = Rest(k, m)
        BY <1>1, <1>5, <1>6 DEF Rest
    <2>2. m.to # adapter => Share(k, adapter, m) = 0 /\ Share(k, lockbox, m) = Rest(k, m)
        BY <1>1, <1>5, <1>6 DEF Rest
    <2> QED
        BY <1>4, <2>1, <2>2 DEF Shares
<1> QED
    BY <1>2, <1>3, <1>4, <1>7 DEF Weight

\* And no user's transfer settles an event.
LEMMA UserSettlesNone ==
    ASSUME NEW m \in TokenTransfers \cup XTokenTransfers, m.from \in Users,
           NEW e \in {p.preimage : p \in Metadata}
    PROVE  Weight(MeterOf("settled", NoName, e), m) = 0
<1> DEFINE k == MeterOf("settled", NoName, e)
<1>1. k \in Meter /\ k.of = "settled"
    BY MetersRead DEF MeterOf
<1> HIDE DEF k
<1> QED
    BY <1>1, UserMeters DEF Own, Rest, Swapping, Paid, k

\* Nobody holds less than nothing.
LEMMA NobodyOwes ==
    ASSUME NEW d, Typed(d), NEW w \in Account
    PROVE  Balance(d, w) \in Int /\ Balance(d, w) >= 0
<1>1. d.token.rows[w] \in Purse /\ d.xtoken.rows[w] \in Purse
    BY DEF Typed, Solvent, XSolvent
<1>2. /\ d.token.rows[w].balance \in Int /\ d.token.rows[w].balance >= 0
      /\ d.xtoken.rows[w].balance \in Int /\ d.xtoken.rows[w].balance >= 0
    BY <1>1, AssetsAssumption DEF Purse, X!Row, X!Amount
<1> QED
    BY <1>2 DEF Balance

\* What a user's transfer leaves in a wallet.
LEMMA UserHeld ==
    ASSUME NEW d, NEW c, TablesOK(c),
           NEW m \in TokenTransfers \cup XTokenTransfers, m.from \in Users,
           Amended(d, c, m), NEW w \in Account \ {adapter, lockbox}
    PROVE  /\ Balance(c, w) \in Int
           /\ Balance(d, w) = Balance(c, w) + Gain(m, w) + Rest(MeterOf("wallet", w, NoData), m)
           /\ Gain(m, w) = IF w = m.from THEN -m.amount ELSE IF w = m.to THEN m.amount ELSE 0
<1> DEFINE k == MeterOf("wallet", w, NoData)
<1>1. m.amount \in Int /\ m.name = "transfer" /\ m.from \notin {adapter, lockbox}
    BY MoveFields, AccountsAssumption
<1>2. k \in Meter /\ k.of = "wallet" /\ k.user = w
    BY MetersRead DEF MeterOf
<1>3. Balance(d, w) = Balance(c, w) + Weight(k, m)
    BY DEF Amended
<1>4. Balance(c, w) \in Int
    BY BalanceTypes DEF Balance
<1> HIDE DEF k
<1>5. /\ Own(k, m) = Gain(m, w)
      /\ Gain(m, w) = IF w = m.from THEN -m.amount ELSE IF w = m.to THEN m.amount ELSE 0
    BY <1>1, <1>2 DEF Own, Gain
<1>6. Weight(k, m) = Own(k, m) + Rest(k, m) /\ Own(k, m) \in Int /\ Rest(k, m) \in Int
    BY <1>2, UserMeters
<1>7. Balance(d, w) = Balance(c, w) + Own(k, m) + Rest(k, m)
    BY <1>3, <1>4, <1>6
<1> QED
    BY <1>4, <1>5, <1>7 DEF k

\* And on the other meters.
LEMMA UserAmends ==
    ASSUME NEW d, NEW c, TablesOK(d), TablesOK(c),
           NEW m \in TokenTransfers \cup XTokenTransfers, m.from \in Users, m.to # m.from,
           Amended(d, c, m)
    PROVE  /\ SettledEvents(d) = SettledEvents(c)
           /\ 0 < m.amount /\ m.amount <= MaxAmount /\ m.amount \in Int
           /\ Rest(MeterOf("refused", NoName, NoData), m) = 0
           /\ Len(d.events) = Len(c.events) + Rest(MeterOf("events", NoName, NoData), m)
           /\ SwappedUnits(d) - SwappedUnits(c) = Rest(MeterOf("announced", NoName, NoData), m)
<1>1. m.amount \in Int /\ m.name = "transfer" /\ m.from \notin {adapter, lockbox} /\ MaxAmount \in Int
    BY MoveFields, AccountsAssumption, AssetsAssumption
<1>2. SettledEvents(d) = SettledEvents(c)
    BY SettledSame, UserSettlesNone
<1>3. /\ 0 < m.amount /\ m.amount <= MaxAmount
      /\ Rest(MeterOf("refused", NoName, NoData), m) = 0
    <2> DEFINE k == MeterOf("refused", NoName, NoData)
    <2>1. k \in Meter /\ k.of = "refused"
        BY MetersRead DEF MeterOf
    <2>2. Weight(k, m) = 0
        BY DEF Amended
    <2> HIDE DEF k
    <2>3. Own(k, m) = IF 0 < m.amount /\ m.amount <= MaxAmount THEN 0 ELSE 1
        BY <1>1, <2>1 DEF Own, Refused
    <2>4. Weight(k, m) = Own(k, m) + Rest(k, m) /\ Rest(k, m) \in Int
        BY <2>1, UserMeters
    <2>5. Rest(k, m) >= 0
        BY <1>1, <2>1 DEF Rest, Swapping, Paid
    <2> QED
        BY <2>2, <2>3, <2>4, <2>5 DEF k
<1>4. Len(d.events) = Len(c.events) + Rest(MeterOf("events", NoName, NoData), m)
    <2> DEFINE k == MeterOf("events", NoName, NoData)
    <2>1. k \in Meter /\ Len(d.events) = Len(c.events) + Weight(k, m)
        BY MetersRead DEF Amended
    <2>2. Own(k, m) = 0
        BY DEF Own, MeterOf
    <2> HIDE DEF k
    <2>3. Weight(k, m) = Rest(k, m)
        BY <2>1, <2>2, UserMeters
    <2> QED
        BY <2>1, <2>3 DEF k
<1>5. SwappedUnits(d) - SwappedUnits(c) = Rest(MeterOf("announced", NoName, NoData), m)
    <2> DEFINE k == MeterOf("announced", NoName, NoData)
    <2>1. k \in Meter /\ SwappedUnits(d) = SwappedUnits(c) + Weight(k, m)
        BY MetersRead DEF Amended
    <2>2. Own(k, m) = 0
        BY DEF Own, MeterOf
    <2> HIDE DEF k
    <2>3. Weight(k, m) = Rest(k, m) /\ Rest(k, m) \in Int
        BY <2>1, <2>2, UserMeters
    <2>4. SwappedUnits(c) \in Int
        BY SwappedSum
    <2> QED
        BY <2>1, <2>3, <2>4 DEF k
<1> QED
    BY <1>1, <1>2, <1>3, <1>4, <1>5

\* Between users and other accounts it is a transfer between wallets,
LEMMA TransferHeld ==
    ASSUME NEW d, NEW c, TablesOK(d), TablesOK(c), Extends(d, c), Typed(d),
           NEW m \in TokenTransfers \cup XTokenTransfers, m.from \in Users, m.to # m.from,
           m.to \notin {adapter, lockbox}, Amended(d, c, m)
    PROVE  /\ m.amount \in 1 .. Held(c)[m.from]
           /\ Held(d) = [Held(c) EXCEPT ![m.from] = @ - m.amount, ![m.to] = @ + m.amount]
           /\ d.events = c.events
<1> DEFINE W == Account \ {adapter, lockbox}
<1>1. m.from \in W /\ m.to \in W /\ m.amount \in Int /\ MaxAmount \in Int
    BY MoveFields, AccountsAssumption, AccountFacts, AssetsAssumption
<1>2. \A k \in Meter : Rest(k, m) = 0
    BY DEF Rest
<1>3. ASSUME NEW w \in W
      PROVE  /\ Balance(c, w) \in Int
             /\ Balance(d, w) = Balance(c, w)
                    + (IF w = m.from THEN -m.amount ELSE IF w = m.to THEN m.amount ELSE 0)
    <2> DEFINE g == Gain(m, w)
               r == Rest(MeterOf("wallet", w, NoData), m)
    <2>1. /\ Balance(c, w) \in Int /\ Balance(d, w) = Balance(c, w) + g + r
          /\ g = IF w = m.from THEN -m.amount ELSE IF w = m.to THEN m.amount ELSE 0
        BY UserHeld
    <2>2. r = 0
        BY <1>2, MetersRead
    <2> HIDE DEF g, r
    <2> QED
        BY <1>1, <2>1, <2>2
<1>4. d.events = c.events
    <2>1. Rest(MeterOf("events", NoName, NoData), m) = 0
        BY <1>2, MetersRead
    <2>2. Len(d.events) = Len(c.events) + 0 /\ Len(c.events) \in Nat
        BY <2>1, UserAmends, LenProperties DEF TablesOK
    <2> QED
        BY <2>2, EventsSince
<1>5. m.amount \in 1 .. Held(c)[m.from]
    <2>1. Balance(d, m.from) >= 0 /\ Balance(d, m.from) = Balance(c, m.from) + -m.amount
        BY <1>1, <1>3, NobodyOwes
    <2>2. Held(c)[m.from] = Balance(c, m.from) /\ Balance(c, m.from) \in Int
        BY <1>1, <1>3 DEF Held
    <2>3. 0 < m.amount
        BY UserAmends
    <2> QED
        BY <1>1, <2>1, <2>2, <2>3
<1>6. Held(d) = [Held(c) EXCEPT ![m.from] = @ - m.amount, ![m.to] = @ + m.amount]
    <2> DEFINE h == [Held(c) EXCEPT ![m.from] = @ - m.amount, ![m.to] = @ + m.amount]
    <2>1. h = [w \in W |-> IF w = m.to THEN Balance(c, w) + m.amount
                           ELSE IF w = m.from THEN Balance(c, w) - m.amount ELSE Balance(c, w)]
        BY <1>1 DEF Held
    <2>2. \A w \in W : Balance(d, w) = IF w = m.to THEN Balance(c, w) + m.amount
                           ELSE IF w = m.from THEN Balance(c, w) - m.amount ELSE Balance(c, w)
        BY <1>1, <1>3
    <2> QED
        BY <2>1, <2>2 DEF Held
<1> QED
    BY <1>4, <1>5, <1>6

\* to the lockbox it comes back in the other form,
LEMMA WrappedHeld ==
    ASSUME NEW d, NEW c, TablesOK(d), TablesOK(c), Extends(d, c),
           NEW m \in TokenTransfers \cup XTokenTransfers, m.from \in Users, m.to = lockbox,
           Amended(d, c, m)
    PROVE  Held(d) = Held(c) /\ d.events = c.events
<1> DEFINE W == Account \ {adapter, lockbox}
<1>1. m.amount \in Int /\ m.to # m.from /\ adapter # lockbox
    BY MoveFields, AccountsAssumption
<1>2. \A w \in W : Rest(MeterOf("wallet", w, NoData), m) = IF w = m.from THEN m.amount ELSE 0
    BY <1>1 DEF Rest, Paid, MeterOf
<1>3. ASSUME NEW w \in W PROVE Balance(d, w) = Balance(c, w)
    <2> DEFINE g == Gain(m, w)
               r == Rest(MeterOf("wallet", w, NoData), m)
    <2>1. /\ Balance(c, w) \in Int /\ Balance(d, w) = Balance(c, w) + g + r
          /\ g = IF w = m.from THEN -m.amount ELSE IF w = m.to THEN m.amount ELSE 0
        BY UserHeld
    <2>2. r = IF w = m.from THEN m.amount ELSE 0
        BY <1>2
    <2> HIDE DEF g, r
    <2> QED
        BY <1>1, <2>1, <2>2
<1>4. Rest(MeterOf("events", NoName, NoData), m) = 0
    BY <1>1 DEF Rest, Paid, MeterOf
<1>5. d.events = c.events
    <2>1. Len(d.events) = Len(c.events) + 0 /\ Len(c.events) \in Nat
        BY <1>1, <1>4, UserAmends, LenProperties DEF TablesOK
    <2> QED
        BY <2>1, EventsSince
<1> QED
    BY <1>3, <1>5 DEF Held

\* What a swap of n with fee f does to the wallets and the events.
SwapTakes(d, c, u, n, f) ==
    /\ n \in 1 .. Held(c)[u] /\ f \in 1 .. Held(c)[u] /\ f < n
    /\ Held(d) = [[Held(c) EXCEPT ![u] = @ - f, ![fees] = @ + f] EXCEPT ![u] = @ - (n - f)]
    /\ Worths(d.events) = Append(Worths(c.events), n - f)

\* to the adapter it is a swap.
LEMMA SwapHeld ==
    ASSUME NEW d, NEW c, TablesOK(d), TablesOK(c), Extends(d, c), Typed(d),
           NEW m \in TokenTransfers \cup XTokenTransfers, m.from \in Users, m.to = adapter,
           Amended(d, c, m)
    PROVE  SwapTakes(d, c, m.from, m.amount, Fee(m.amount))
<1> DEFINE W == Account \ {adapter, lockbox}
           u == m.from
           n == m.amount
           f == Fee(n)
<1>1. /\ u \in W /\ fees \in W /\ u # fees /\ m.to # u /\ n \in Int /\ MaxAmount \in Int
      /\ f \in Int /\ m.name = "transfer"
    BY MoveFields, AccountsAssumption, AccountFacts, AssetsAssumption, FeeType
<1>2. 0 < n /\ n <= MaxAmount
    BY <1>1, UserAmends
<1>3. m.memo \in SwapMemo /\ f > 0 /\ n - f > 0
    <2> DEFINE k == MeterOf("refused", NoName, NoData)
    <2>1. Swapping(k, n, m.memo) = 0 /\ k.of = "refused"
        <3>1. Rest(k, m) = 0
            BY <1>1, UserAmends
        <3> QED
            BY <3>1 DEF Rest, MeterOf
    <2>2. m.memo \in SwapMemo
        BY <2>1 DEF Swapping
    <2>3. (IF f > 0 THEN 0 ELSE 1) + (IF n - f > 0 THEN 0 ELSE 1) = 0
        BY <2>1, <2>2 DEF Swapping
    <2> HIDE DEF f, n, k
    <2> QED
        BY <2>2, <2>3
<1>4. \A w \in W : Rest(MeterOf("wallet", w, NoData), m) = IF w = fees THEN f ELSE 0
    BY <1>3 DEF Rest, Swapping, MeterOf
<1>5. /\ Rest(MeterOf("events", NoName, NoData), m) = 1
      /\ Rest(MeterOf("announced", NoName, NoData), m) = n - f
    BY <1>3 DEF Rest, Swapping, MeterOf
<1>6. ASSUME NEW w \in W
      PROVE  /\ Balance(c, w) \in Int
             /\ Balance(d, w) = Balance(c, w)
                    + (IF w = u THEN -n ELSE IF w = m.to THEN n ELSE 0) + (IF w = fees THEN f ELSE 0)
    <2> DEFINE g == Gain(m, w)
               r == Rest(MeterOf("wallet", w, NoData), m)
    <2>1. Balance(c, w) \in Int /\ Balance(d, w) = Balance(c, w) + g + r
        BY UserHeld
    <2>2. g = IF w = u THEN -n ELSE IF w = m.to THEN n ELSE 0
        BY <1>1 DEF Gain
    <2>3. r = IF w = fees THEN f ELSE 0
        BY <1>4
    <2> HIDE DEF f, g, r
    <2> QED
        BY <2>1, <2>3, <2>2
<1>7. /\ Len(d.events) = Len(c.events) + 1
      /\ SwappedUnits(d) - SwappedUnits(c) = n - f
    <2>1. /\ Len(d.events) = Len(c.events) + Rest(MeterOf("events", NoName, NoData), m)
          /\ SwappedUnits(d) - SwappedUnits(c) = Rest(MeterOf("announced", NoName, NoData), m)
        BY <1>1, UserAmends
    <2> HIDE DEF f
    <2> QED
        BY <1>5, <2>1
<1>8. Worths(d.events) = Append(Worths(c.events), n - f)
    BY <1>7, EventsSince
<1> HIDE DEF f, n
<1>9. n \in 1 .. Held(c)[u] /\ f \in 1 .. Held(c)[u]
    <2>1. Balance(d, u) >= 0 /\ Balance(d, u) = Balance(c, u) + -n + 0
        BY <1>1, <1>6, NobodyOwes
    <2>2. Held(c)[u] = Balance(c, u) /\ Balance(c, u) \in Int
        BY <1>1, <1>6 DEF Held
    <2> QED
        BY <1>1, <1>2, <1>3, <2>1, <2>2
<1>10. Held(d) = [[Held(c) EXCEPT ![u] = @ - f, ![fees] = @ + f] EXCEPT ![u] = @ - (n - f)]
    <2> DEFINE h == [[Held(c) EXCEPT ![u] = @ - f, ![fees] = @ + f] EXCEPT ![u] = @ - (n - f)]
    <2>1. h = [w \in W |-> IF w = u THEN Balance(c, w) - f - (n - f)
                           ELSE IF w = fees THEN Balance(c, w) + f ELSE Balance(c, w)]
        BY <1>1 DEF Held
    <2>2. \A w \in W : Balance(d, w) = IF w = u THEN Balance(c, w) - f - (n - f)
                           ELSE IF w = fees THEN Balance(c, w) + f ELSE Balance(c, w)
        BY <1>1, <1>6
    <2> QED
        BY <2>1, <2>2 DEF Held
<1> QED
    BY <1>1, <1>2, <1>3, <1>8, <1>9, <1>10 DEF f, n, SwapTakes

\* What another contract claims changes none of them.
LEMMA ImitationHeld ==
    ASSUME NEW d, NEW c, TablesOK(d), TablesOK(c), Extends(d, c), NEW m \in Imitations,
           Amended(d, c, m)
    PROVE  Held(d) = Held(c) /\ d.events = c.events /\ SettledEvents(d) = SettledEvents(c)
<1>1. \A k : Weight(k, m) = 0
    BY NoEffect DEF Weight, Shares
<1>2. Held(d) = Held(c)
    <2>1. ASSUME NEW w \in Account \ {adapter, lockbox} PROVE Balance(d, w) = Balance(c, w)
        <3>1. Balance(c, w) \in Int
            BY BalanceTypes DEF Balance
        <3> QED
            BY <1>1, <3>1 DEF Amended
    <2> QED
        BY <2>1 DEF Held
<1>3. d.events = c.events
    <2>1. Len(d.events) = Len(c.events) + 0 /\ Len(c.events) \in Nat
        BY <1>1, LenProperties DEF Amended, TablesOK
    <2> QED
        BY <2>1, EventsSince
<1>4. SettledEvents(d) = SettledEvents(c)
    BY <1>1, SettledSame
<1> QED
    BY <1>2, <1>3, <1>4

\* A settlement pays its event, which was not settled before.
LEMMA SettleHeld ==
    ASSUME NEW d, NEW c, TablesOK(d), TablesOK(c), Extends(d, c), NEW m \in Settles,
           Amended(d, c, m)
    PROVE  LET e == m.metadata.preimage
           IN  /\ e \in {p.preimage : p \in Metadata} /\ e \notin SettledEvents(c)
               /\ SettledEvents(d) = SettledEvents(c) \cup {e}
               /\ Held(d) = [Held(c) EXCEPT ![RecipientOf(e)] = @ + UnitsOf(e)]
               /\ d.events = c.events
<1> DEFINE W == Account \ {adapter, lockbox}
           E == {p.preimage : p \in Metadata}
           e == m.metadata.preimage
<1>1. e \in E /\ UnitsOf(e) \in Int
    <2>1. e \in E
        BY DEF Settles
    <2> QED
        BY <2>1, UnitsType
<1>2. ASSUME NEW k \in Meter
      PROVE  Weight(k, m) =
                IF k.of = "wallet" /\ RecipientOf(e) = k.user THEN UnitsOf(e)
                ELSE IF k.of = "settled" /\ e = k.data THEN 1
                ELSE IF /\ k.of = "refused" /\ RecipientOf(e) = lockbox
                        /\ e.content.amount # 0 THEN 1 ELSE 0
    <2>1. Share(k, adapter, m) = 0 /\ Share(k, lockbox, m) = 0
        BY SettleWeight
    <2>2. Effect(k, m) =
                IF k.of = "wallet" /\ RecipientOf(e) = k.user THEN UnitsOf(e)
                ELSE IF k.of = "settled" /\ e = k.data THEN 1
                ELSE IF /\ k.of = "refused" /\ RecipientOf(e) = lockbox
                        /\ e.content.amount # 0 THEN 1 ELSE 0
        BY SettleWeight DEF RecipientOf
    <2> HIDE DEF e
    <2>3. Effect(k, m) \in Int
        BY <1>1, <2>2
    <2> QED
        BY <2>1, <2>2, <2>3 DEF Weight, Shares
<1> HIDE DEF e
<1>3. ASSUME NEW w \in W
      PROVE  /\ Balance(c, w) \in Int
             /\ Balance(d, w) = IF RecipientOf(e) = w THEN Balance(c, w) + UnitsOf(e) ELSE Balance(c, w)
    <2> DEFINE k == MeterOf("wallet", w, NoData)
    <2>1. k \in Meter /\ k.of = "wallet" /\ k.user = w
        BY MetersRead DEF MeterOf
    <2>2. Balance(d, w) = Balance(c, w) + Weight(k, m)
        BY DEF Amended
    <2>3. Balance(c, w) \in Int
        BY BalanceTypes DEF Balance
    <2> HIDE DEF k
    <2>4. Weight(k, m) = IF RecipientOf(e) = w THEN UnitsOf(e) ELSE 0
        BY <1>2, <2>1
    <2> QED
        BY <2>2, <2>3, <2>4
<1>4. Held(d) = [Held(c) EXCEPT ![RecipientOf(e)] = @ + UnitsOf(e)]
    <2>1. [Held(c) EXCEPT ![RecipientOf(e)] = @ + UnitsOf(e)] =
            [w \in W |-> IF RecipientOf(e) = w THEN Balance(c, w) + UnitsOf(e) ELSE Balance(c, w)]
        BY DEF Held
    <2> QED
        BY <1>3, <2>1 DEF Held
<1>5. d.events = c.events
    <2>1. MeterOf("events", NoName, NoData) \in Meter /\ MeterOf("events", NoName, NoData).of = "events"
        BY MetersRead DEF MeterOf
    <2>2. Weight(MeterOf("events", NoName, NoData), m) = 0
        BY <1>2, <2>1
    <2>3. Len(d.events) = Len(c.events) + 0 /\ Len(c.events) \in Nat
        BY <2>2, LenProperties DEF Amended, TablesOK
    <2> QED
        BY <2>3, EventsSince
<1>6. ASSUME NEW f \in E
      PROVE  Settlement(d, f) = Settlement(c, f) + IF f = e THEN 1 ELSE 0
    <2> DEFINE k == MeterOf("settled", NoName, f)
    <2>1. k \in Meter /\ k.of = "settled" /\ k.data = f
        BY MetersRead DEF MeterOf
    <2>2. Settlement(d, f) = Settlement(c, f) + Weight(k, m)
        BY DEF Amended
    <2> HIDE DEF k
    <2>3. Weight(k, m) = IF f = e THEN 1 ELSE 0
        BY <1>2, <2>1
    <2> QED
        BY <2>2, <2>3
<1>7. e \notin SettledEvents(c) /\ e \in SettledEvents(d)
    BY <1>1, <1>6 DEF Settlement
<1>8. \A f \in E : f # e => (f \in SettledEvents(d) <=> f \in SettledEvents(c))
    BY <1>6 DEF Settlement
<1>9. SettledEvents(d) \cup SettledEvents(c) \subseteq E
    BY DEF SettledEvents, TablesOK, AdapterTables
<1>10. SettledEvents(d) = SettledEvents(c) \cup {e}
    BY <1>1, <1>7, <1>8, <1>9
<1> QED
    BY <1>1, <1>4, <1>5, <1>7, <1>10 DEF e

\* When nothing that the ledger sees changes, it stutters.
LEMMA LedgerSame ==
    ASSUME Held(committed') = Held(committed), committed'.events = committed.events,
           SettledEvents(committed') = SettledEvents(committed)
    PROVE  UNCHANGED Ledger!vars
BY DEF Ledger!vars, Held

\* An event that is paid is a settlement of the ledger.
LEMMA LedgerSettles ==
    ASSUME NEW e \in {p.preimage : p \in Metadata}, e \notin SettledEvents(committed),
           SettledEvents(committed') = SettledEvents(committed) \cup {e},
           Held(committed') = [Held(committed) EXCEPT ![RecipientOf(e)] = @ + UnitsOf(e)],
           committed'.events = committed.events
    PROVE  Ledger!Next
<1>1. Ledger!Settle(e)
    BY DEF Ledger!Settle, Ledger!Given, Held
<1> QED
    BY <1>1 DEF Ledger!Next

\* An amount taken, announced but for the fee, is a swap of the ledger.
LEMMA LedgerSwaps ==
    ASSUME NEW u \in Account \ {adapter, lockbox}, u # fees, NEW n, NEW f,
           SwapTakes(committed', committed, u, n, f),
           SettledEvents(committed') = SettledEvents(committed)
    PROVE  Ledger!Next
<1> DEFINE h == Held(committed)
           a == Worths(committed.events)
<1>1. /\ n \in 1 .. h[u] /\ f \in 1 .. h[u] /\ f < n
      /\ Held(committed') = [[h EXCEPT ![u] = @ - f, ![fees] = @ + f] EXCEPT ![u] = @ - (n - f)]
      /\ Worths(committed'.events) = Append(a, n - f)
    BY DEF SwapTakes
<1>2. Ledger!Swap(u, n, f)
    <2>1. 0 < f
        BY <1>1
    <2>2. [w \in Account \ {adapter, lockbox} |-> Balance(committed', w)] =
            [Ledger!Moved(u, fees, f) EXCEPT ![u] = @ - (n - f)]
        BY <1>1 DEF Held, Ledger!Moved
    <2>3. [i \in DOMAIN committed'.events |-> committed'.events[i].amount \div Unit] =
            Append([i \in DOMAIN committed.events |-> committed.events[i].amount \div Unit], n - f)
        BY <1>1, Zenon DEF Worths
    <2> QED
        BY <1>1, <2>1, <2>2, <2>3, Zenon DEF Ledger!Swap
<1> QED
    BY <1>1, <1>2 DEF Ledger!Next, Held

\* What one wallet loses and another gets is a transfer of the ledger.
LEMMA LedgerTransfers ==
    ASSUME NEW v \in Account \ {adapter, lockbox}, NEW w \in Account \ {adapter, lockbox},
           v # w, NEW n \in 1 .. Held(committed)[v],
           Held(committed') = [Held(committed) EXCEPT ![v] = @ - n, ![w] = @ + n],
           committed'.events = committed.events,
           SettledEvents(committed') = SettledEvents(committed)
    PROVE  Ledger!Next
<1>1. Ledger!Transfer(v, w, n)
    BY DEF Ledger!Transfer, Ledger!Moved, Held
<1> QED
    BY <1>1 DEF Ledger!Next, Held

\* A transaction that ends is a step of the ledger, or changes nothing in it.
LEMMA LedgerReturn ==
    ASSUME Contracts = {}, IInv, TypeInv, Return, Len(stack) = 1
    PROVE  [Ledger!Next]_(Ledger!vars)
<1> DEFINE m == Act
<1>1. /\ TablesOK(db) /\ TablesOK(committed) /\ Extends(db, committed) /\ committed' = db
      /\ m \in Starts
    BY TransactionEnds
<1>2. Amended(db, committed, m) /\ Typed(db)
    BY TransactionAmends DEF TypeInv
<1> HIDE DEF m
<1>3. CASE m \in Settles
    <2> DEFINE e == m.metadata.preimage
    <2>1. /\ e \in {p.preimage : p \in Metadata} /\ e \notin SettledEvents(committed)
          /\ SettledEvents(db) = SettledEvents(committed) \cup {e}
          /\ Held(db) = [Held(committed) EXCEPT ![RecipientOf(e)] = @ + UnitsOf(e)]
          /\ db.events = committed.events
        BY <1>1, <1>2, <1>3, SettleHeld
    <2> HIDE DEF e
    <2> QED
        BY <1>1, <2>1, LedgerSettles
<1>4. CASE \E u \in Users : m \in Transfers(u)
    <2>1. PICK u \in Users : m \in Transfers(u)
        BY <1>4
    <2>2. /\ m \in TokenTransfers \cup XTokenTransfers \cup Imitations
          /\ m \notin Imitations =>
                m.from = u /\ m.to # u /\ m.from \in Users /\ m.to # m.from
        BY <2>1, UserSends
    <2>3. /\ u \in Account \ {adapter, lockbox} /\ u # fees /\ m.to \in Account
        BY <2>2, MoveFields, AccountFacts, AccountsAssumption
    <2>4. CASE m \in Imitations
        <3>1. /\ Held(db) = Held(committed) /\ db.events = committed.events
              /\ SettledEvents(db) = SettledEvents(committed)
            BY <1>1, <1>2, <2>4, ImitationHeld
        <3> QED
            BY <1>1, <3>1, LedgerSame
    <2>5. CASE m \in TokenTransfers \cup XTokenTransfers
        <3>0. m.from = u /\ m.to # u /\ m.from \in Users /\ m.to # m.from
            BY <2>2, <2>5, OneKind
        <3>1. SettledEvents(db) = SettledEvents(committed)
            BY <1>1, <1>2, <2>5, <3>0, SettledSame, UserSettlesNone
        <3>2. CASE m.to = adapter
            <4>1. SwapTakes(db, committed, m.from, m.amount, Fee(m.amount))
                BY <1>1, <1>2, <3>0, <2>5, <3>2, SwapHeld
            <4> QED
                BY <1>1, <3>0, <2>3, <3>1, <4>1, LedgerSwaps
        <3>3. CASE m.to = lockbox
            <4>1. Held(db) = Held(committed) /\ db.events = committed.events
                BY <1>1, <1>2, <3>0, <2>5, <3>3, WrappedHeld
            <4> QED
                BY <1>1, <3>1, <4>1, LedgerSame
        <3>4. CASE m.to \notin {adapter, lockbox}
            <4> DEFINE n == m.amount
                       w == m.to
            <4>1. /\ n \in 1 .. Held(committed)[u]
                  /\ Held(db) = [Held(committed) EXCEPT ![u] = @ - n, ![w] = @ + n]
                  /\ db.events = committed.events
                BY <1>1, <1>2, <3>0, <2>5, <3>4, TransferHeld
            <4>2. w \in Account \ {adapter, lockbox} /\ u # w
                BY <3>0, <2>3, <3>4
            <4> HIDE DEF n, w
            <4> QED
                BY <1>1, <2>3, <3>1, <4>1, <4>2, LedgerTransfers
        <3> QED
            BY <3>2, <3>3, <3>4
    <2> QED
        BY <2>2, <2>4, <2>5
<1> QED
    BY <1>1, <1>3, <1>4 DEF Starts

\* Between transactions nothing changes in it.
LEMMA BetweenCalm == IInv /\ Between => Calm(committed', committed)
<1> SUFFICES ASSUME IInv, Between PROVE Calm(committed', committed)
    OBVIOUS
<1>1. SubmitTransfer \/ SubmitSettle => committed' = committed
    BY DEF SubmitTransfer, SubmitSettle, CallSettle, Submit
<1>2. SubmitTransfer \/ SubmitSettle => Calm(committed', committed)
    BY <1>1 DEF Calm
<1> QED
    BY <1>2, CreatePairStep, AdapterSteps, XTokenSteps, Zenon DEF Between

\* Every step of the chain.
LEMMA LedgerStep ==
    ASSUME Contracts = {}, IInv, TypeInv, [Next]_vars
    PROVE  [Ledger!Next]_(Ledger!vars)
<1>1. committed' = committed => UNCHANGED Ledger!vars
    BY LedgerSame
<1>2. CASE UNCHANGED vars
    BY <1>1, <1>2 DEF vars
<1>3. CASE Execution /\ ~Return
    BY <1>1, <1>3, OnlyReturnCommits
<1>4. CASE Return
    <2>1. CASE Len(stack) = 1
        BY <1>4, <2>1, LedgerReturn
    <2>2. CASE Len(stack) # 1
        BY <1>1, <1>4, <2>2 DEF Return
    <2> QED
        BY <2>1, <2>2
<1>5. CASE Between
    <2>1. Calm(committed', committed)
        BY <1>5, BetweenCalm
    <2> QED
        BY <2>1, LedgerSame DEF Calm, SettledEvents
<1> QED
    BY <1>2, <1>3, <1>4, <1>5 DEF Next

\* At first users have what was issued to them, and nobody else anything.
LEMMA FirstHeld ==
    ASSUME NEW d \in {Bare, Ready}
    PROVE  /\ Held(d) \in [Account \ {adapter, lockbox} -> 0 .. MaxAmount]
           /\ Held(d)[fees] = 0
<1>1. d.token = Bare.token /\ d.xtoken.rows = Bare.xtoken.rows
    <2> DEFINE l == LimitsOf(Bare)
               x == IF Home THEN X!LockboxSet(l, lockbox) ELSE l
    <2>1. Ready.token = Bare.token /\ Ready.xtoken = x
        BY DEF Ready, Bare
    <2>2. XTokenOK(l) /\ l.rows = Bare.xtoken.rows
        BY FirstXToken, LimitsKept
    <2>3. x.rows = Bare.xtoken.rows
        <3> DEFINE w == [l EXCEPT !.lockbox = lockbox]
        <3>1. x = IF Home THEN w ELSE l
            BY DEF X!LockboxSet
        <3> HIDE DEF l, x
        <3>2. w.rows = l.rows
            BY <2>2, XTokenFields
        <3> HIDE DEF w
        <3> QED
            BY <2>2, <3>1, <3>2
    <2> HIDE DEF x
    <2> QED
        BY <2>1, <2>3
<1>2. ASSUME NEW w \in Account
      PROVE  Balance(d, w) \in 0 .. MaxAmount /\ (w \notin Users => Balance(d, w) = 0)
    <2>1. Bare.token.rows[w] \in Purse
        BY FirstTokenTyped DEF Solvent
    <2>2. Bare.token.rows[w].balance \in 0 .. MaxAmount
        BY <2>1, AssetsAssumption DEF Purse, X!Row, X!Amount
    <2>3. Bare.xtoken.rows[w].balance = 0
        BY FirstXToken
    <2>4. w \notin Users => Bare.token.rows[w].balance = 0
        BY FirstToken
    <2>5. Balance(d, w) = Bare.token.rows[w].balance + Bare.xtoken.rows[w].balance
        BY <1>1 DEF Balance
    <2> QED
        BY <2>2, <2>3, <2>4, <2>5, AssetsAssumption
<1>3. fees \in Account \ {adapter, lockbox} /\ fees \notin Users
    BY AccountFacts, AccountsAssumption
<1> QED
    BY <1>2, <1>3 DEF Held

\* That is a first state of the ledger.
LEMMA LedgerInit == Init => Ledger!Init
<1> SUFFICES ASSUME Init PROVE Ledger!Init
    OBVIOUS
<1> DEFINE c == committed
<1>1. c \in {Bare, Ready} /\ Untouched(c)
    BY BareUntouched, ReadyUntouched DEF Init
<1>2. /\ Held(c) \in [Account \ {adapter, lockbox} -> 0 .. MaxAmount]
      /\ Held(c)[fees] = 0
    BY <1>1, FirstHeld
<1>3. SettledEvents(c) = {}
    BY <1>1 DEF Untouched, SettledEvents
<1>4. Worths(c.events) = <<>>
    BY <1>1 DEF Untouched, Worths
<1> QED
    BY <1>2, <1>3, <1>4 DEF Ledger!Init, Held, Worths

\* A deployment does what the ledger says, as long as no user's contract
\* answers a notification: for any users, amounts, depth and fees, through all
\* inline actions and notifications, a settlement pays its recipient once, a
\* swap takes from its sender what it announces and the fee, a transfer moves
\* what it says, and nothing else changes what anybody holds (settle, swap and
\* ontransfer of adapter and lockbox, transfer, mint and burn of the tokens).
THEOREM LedgerRefinement == Contracts = {} => (Spec => ImplementsLedger)
<1> SUFFICES ASSUME Contracts = {} PROVE Spec => ImplementsLedger
    OBVIOUS
<1>1. IInv /\ TypeInv /\ [Next]_vars => [Ledger!Next]_(Ledger!vars)
    BY LedgerStep
<1>2. Spec => []TypeInv
    BY InitTyped, NextTyped, Inductive, PTL DEF Spec
<1> QED
    BY <1>1, <1>2, LedgerInit, Inductive, PTL DEF Spec, ImplementsLedger, Ledger!Spec

=============================================================================
