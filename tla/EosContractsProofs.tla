------------------------- MODULE EosContractsProofs -------------------------
(***************************************************************************)
(* Proofs about the contracts of EOS that stand beside the adapter.        *)
(*                                                                         *)
(* The two tokens, the xERC20 token and the underlying token, whose tables *)
(* of balances and the code that changes them are the same: for every set  *)
(* of accounts, every duration, every range of assets and every error of   *)
(* the float rates.                                                        *)
(*                                                                         *)
(* The fees manager, for every set of nodes, tokens and symbols, shared    *)
(* ones too, every fee and every allowance, whether new payers of memory   *)
(* have to sign or not.                                                    *)
(*                                                                         *)
(* The lockbox, for any pairs registered in any order, any bridges that    *)
(* mint and burn, any maximum supplies and frozen accounts.                *)
(***************************************************************************)
EXTENDS EosContracts, SequenceTheorems, SumProofs

(***************************************************************************)
(* Rows.                                                                   *)
(***************************************************************************)

\* Who has no row has no tokens.
RowsOK(rows) == \A a \in Account : HasRow(rows, a) \/ rows[a].balance = 0

LEMMA BalanceInt ==
    ASSUME NEW rows \in [Account -> Row], NEW a \in Account PROVE rows[a].balance \in Int
<1>1. Amount \subseteq Int
  BY MaxAmountAssumption DEF Amount
<1>2. rows[a].balance \in Amount
  BY DEF Row
<1>3. QED
  BY <1>1, <1>2

\* One holder's balance changes.
LEMMA SumOfOneChange ==
    ASSUME NEW rows \in [Account -> Row], NEW after \in [Account -> Row], NEW owner \in Account,
           \A a \in Account \ {owner} : after[a].balance = rows[a].balance
    PROVE  BalancesSum(after) = BalancesSum(rows) - rows[owner].balance + after[owner].balance
<1> DEFINE f == [a \in Account |-> rows[a].balance]
           g == [a \in Account |-> after[a].balance]
<1>1. /\ \A a \in Account : f[a] \in Int /\ g[a] \in Int
      /\ \A a \in Account \ {owner} : f[a] = g[a]
      /\ f[owner] = rows[owner].balance /\ g[owner] = after[owner].balance
  BY BalanceInt
<1> HIDE DEF f, g
<1>2. SumFunctionOnSet(g, Account) = SumFunctionOnSet(f, Account) - f[owner] + g[owner]
  BY <1>1, AccountAssumption, SumChange
<1>3. QED
  BY <1>1, <1>2 DEF BalancesSum, f, g

LEMMA BalancesSumInt == ASSUME NEW rows \in [Account -> Row] PROVE BalancesSum(rows) \in Int
<1> DEFINE f == [a \in Account |-> rows[a].balance]
<1>1. \A a \in Account : f[a] \in Int
  BY BalanceInt
<1> HIDE DEF f
<1>2. SumFunctionOnSet(f, Account) \in Int
  BY <1>1, AccountAssumption, SumIsInt
<1>3. QED
  BY <1>2 DEF BalancesSum, f

LEMMA SubFacts ==
    ASSUME NEW rows \in [Account -> Row], RowsOK(rows), NEW auth,
           NEW owner \in Account, NEW value \in Int, CanSubBalance(rows, auth, owner, value)
    PROVE  /\ SubBalance(rows, owner, value) \in [Account -> Row]
           /\ RowsOK(SubBalance(rows, owner, value))
           /\ BalancesSum(SubBalance(rows, owner, value)) = BalancesSum(rows) - value
           /\ SubBalance(rows, owner, value)[owner].balance = rows[owner].balance - value
           /\ \A a \in Account \ {owner} : SubBalance(rows, owner, value)[a] = rows[a]
<1> DEFINE row == [payer |-> owner, balance |-> rows[owner].balance - value]
<1>1. row \in Row /\ row.payer = owner /\ row.balance = rows[owner].balance - value
  BY DEF CanSubBalance, Row, AccountOrNone
<1>2. SubBalance(rows, owner, value) = [rows EXCEPT ![owner] = row]
  BY DEF SubBalance
<1>3. owner # NoName
  BY AccountAssumption
<1> DEFINE after == SubBalance(rows, owner, value)
<1> HIDE DEF row
<1>4. /\ after \in [Account -> Row] /\ RowsOK(after)
      /\ after[owner].balance = rows[owner].balance - value
      /\ \A a \in Account \ {owner} : after[a] = rows[a]
  BY <1>1, <1>2, <1>3 DEF RowsOK, HasRow
<1> HIDE DEF after
<1>5. BalancesSum(after) = BalancesSum(rows) - rows[owner].balance + after[owner].balance
  BY <1>4, SumOfOneChange
<1>6. BalancesSum(after) = BalancesSum(rows) - value
  BY <1>4, <1>5, BalanceInt, BalancesSumInt
<1>7. QED
  BY <1>4, <1>6 DEF after

LEMMA AddFacts ==
    ASSUME NEW rows \in [Account -> Row], RowsOK(rows), NEW owner \in Account,
           NEW value \in Int, NEW ram_payer \in Account, rows[owner].balance + value \in Amount
    PROVE  /\ AddBalance(rows, owner, value, ram_payer) \in [Account -> Row]
           /\ RowsOK(AddBalance(rows, owner, value, ram_payer))
           /\ BalancesSum(AddBalance(rows, owner, value, ram_payer)) = BalancesSum(rows) + value
           /\ AddBalance(rows, owner, value, ram_payer)[owner].balance = rows[owner].balance + value
           /\ \A a \in Account \ {owner} : AddBalance(rows, owner, value, ram_payer)[a] = rows[a]
<1> DEFINE payer == IF HasRow(rows, owner) THEN rows[owner].payer ELSE ram_payer
           row == [payer |-> payer, balance |-> rows[owner].balance + value]
<1>1. payer \in AccountOrNone /\ payer # NoName
  BY AccountAssumption DEF AccountOrNone, HasRow, Row
<1>2. AddBalance(rows, owner, value, ram_payer) = [rows EXCEPT ![owner] = row]
  BY DEF AddBalance
<1> HIDE DEF payer
<1>3. row \in Row /\ row.payer = payer /\ row.balance = rows[owner].balance + value
  BY <1>1 DEF Row
<1> DEFINE after == AddBalance(rows, owner, value, ram_payer)
<1> HIDE DEF row
<1>4. /\ after \in [Account -> Row] /\ RowsOK(after)
      /\ after[owner].balance = rows[owner].balance + value
      /\ \A a \in Account \ {owner} : after[a] = rows[a]
  BY <1>1, <1>2, <1>3 DEF RowsOK, HasRow
<1> HIDE DEF after
<1>5. BalancesSum(after) = BalancesSum(rows) - rows[owner].balance + after[owner].balance
  BY <1>4, SumOfOneChange
<1>6. BalancesSum(after) = BalancesSum(rows) + value
  BY <1>4, <1>5, BalanceInt, BalancesSumInt
<1>7. QED
  BY <1>4, <1>6 DEF after

\* A transfer between two holders takes from one what it gives to the other.
LEMMA MoveFacts ==
    ASSUME NEW rows \in [Account -> Row], RowsOK(rows), NEW auth,
           NEW from \in Account, NEW to \in Account, from # to,
           NEW value \in Int, NEW ram_payer \in Account,
           CanMove(rows, auth, from, to, value, ram_payer)
    PROVE  /\ Move(rows, from, to, value, ram_payer) \in [Account -> Row]
           /\ RowsOK(Move(rows, from, to, value, ram_payer))
           /\ BalancesSum(Move(rows, from, to, value, ram_payer)) = BalancesSum(rows)
           /\ Move(rows, from, to, value, ram_payer)[from].balance = rows[from].balance - value
           /\ Move(rows, from, to, value, ram_payer)[to].balance = rows[to].balance + value
           /\ \A a \in Account \ {from, to} :
                 Move(rows, from, to, value, ram_payer)[a] = rows[a]
<1> DEFINE less == SubBalance(rows, from, value)
<1>1. /\ less \in [Account -> Row] /\ RowsOK(less)
      /\ BalancesSum(less) = BalancesSum(rows) - value
      /\ less[from].balance = rows[from].balance - value
      /\ \A a \in Account \ {from} : less[a] = rows[a]
  BY SubFacts DEF CanMove
<1>2. less[to].balance + value \in Amount
  BY <1>1 DEF CanMove, CanAddBalance
<1>3. Move(rows, from, to, value, ram_payer) = AddBalance(less, to, value, ram_payer)
  BY DEF Move
<1> DEFINE after == AddBalance(less, to, value, ram_payer)
<1> HIDE DEF less
<1>4. /\ after \in [Account -> Row] /\ RowsOK(after)
      /\ BalancesSum(after) = BalancesSum(less) + value
      /\ after[to].balance = less[to].balance + value
      /\ \A a \in Account \ {to} : after[a] = less[a]
  BY <1>1, <1>2, AddFacts
<1> HIDE DEF after
<1>5. BalancesSum(after) = BalancesSum(rows)
  BY <1>1, <1>4, BalancesSumInt
<1>6. QED
  BY <1>1, <1>3, <1>4, <1>5 DEF after

LEMMA OpenFacts ==
    ASSUME NEW rows \in [Account -> Row], RowsOK(rows),
           NEW owner \in Account, NEW ram_payer \in Account
    PROVE  /\ Open(rows, owner, ram_payer) \in [Account -> Row]
           /\ RowsOK(Open(rows, owner, ram_payer))
           /\ BalancesSum(Open(rows, owner, ram_payer)) = BalancesSum(rows)
           /\ \A a \in Account : Open(rows, owner, ram_payer)[a].balance = rows[a].balance
<1> DEFINE row == [payer |-> ram_payer, balance |-> 0]
<1>1. 0 \in Amount
  BY MaxAmountAssumption DEF Amount
<1>2. row \in Row /\ row.payer # NoName /\ row.balance = 0
  BY <1>1, AccountAssumption DEF Row, AccountOrNone
<1>3. Open(rows, owner, ram_payer) = IF HasRow(rows, owner) THEN rows
                                     ELSE [rows EXCEPT ![owner] = row]
  BY DEF Open
<1> HIDE DEF row
<1> DEFINE after == Open(rows, owner, ram_payer)
<1>4. /\ after \in [Account -> Row] /\ RowsOK(after)
      /\ \A a \in Account : after[a].balance = rows[a].balance
  BY <1>2, <1>3 DEF RowsOK, HasRow
<1> HIDE DEF after
<1>5. BalancesSum(after) = BalancesSum(rows) - rows[owner].balance + after[owner].balance
  BY <1>4, SumOfOneChange
<1>6. BalancesSum(after) = BalancesSum(rows)
  BY <1>4, <1>5, BalanceInt, BalancesSumInt
<1>7. QED
  BY <1>4, <1>6 DEF after

LEMMA CloseFacts ==
    ASSUME NEW rows \in [Account -> Row], RowsOK(rows), NEW auth,
           NEW owner \in Account, CanClose(rows, auth, owner)
    PROVE  /\ Close(rows, owner) \in [Account -> Row]
           /\ RowsOK(Close(rows, owner))
           /\ BalancesSum(Close(rows, owner)) = BalancesSum(rows)
           /\ \A a \in Account : Close(rows, owner)[a].balance = rows[a].balance
<1>1. 0 \in Amount
  BY MaxAmountAssumption DEF Amount
<1>2. NoRow \in Row /\ NoRow.balance = 0
  BY <1>1 DEF NoRow, Row, AccountOrNone
<1>3. Close(rows, owner) = [rows EXCEPT ![owner] = NoRow]
  BY DEF Close
<1>4. rows[owner].balance = 0
  BY DEF CanClose
<1> DEFINE after == Close(rows, owner)
<1>5. /\ after \in [Account -> Row] /\ RowsOK(after)
      /\ \A a \in Account : after[a].balance = rows[a].balance
  BY <1>2, <1>3, <1>4 DEF RowsOK, HasRow
<1> HIDE DEF after
<1>6. BalancesSum(after) = BalancesSum(rows) - rows[owner].balance + after[owner].balance
  BY <1>5, SumOfOneChange
<1>7. BalancesSum(after) = BalancesSum(rows)
  BY <1>5, <1>6, BalanceInt, BalancesSumInt
<1>8. QED
  BY <1>5, <1>7 DEF after

(***************************************************************************)
(* One quota.                                                              *)
(***************************************************************************)

LEMMA QuotaTypes ==
    ASSUME NEW q \in Quota
    PROVE  /\ q.age \in 0 .. DURATION /\ q.age \in Nat /\ q.rate \in Nat
           /\ q.current \in Nat /\ q.max \in Nat /\ q.max <= MaxAmount
BY MaxAmountAssumption, DurationAssumption DEF Quota, Limit

\* The limit read off a quota lies between the stored one and the maximum.
LEMMA CurrentLimitBounds ==
    ASSUME NEW q \in Quota, q.current <= q.max
    PROVE  /\ CurrentLimit(q) \in Nat
           /\ q.current <= CurrentLimit(q)
           /\ CurrentLimit(q) <= q.max
<1>1. q.age \in Nat /\ q.rate \in Nat /\ q.current \in Nat /\ q.max \in Nat
  BY QuotaTypes
<1>2. q.age * q.rate \in Nat
  BY <1>1
<1>3. QED
  BY <1>1, <1>2 DEF CurrentLimit, Refill

\* What was just written is what is read.
LEMMA FreshLimit ==
    ASSUME NEW q \in Quota, q.current <= q.max, q.age = 0
    PROVE  CurrentLimit(q) = q.current
<1>1. q.rate \in Nat /\ q.current \in Nat /\ q.max \in Nat
  BY QuotaTypes
<1>2. Refill(q) = q.current
  BY <1>1 DEF Refill
<1>3. QED
  BY <1>1, <1>2, DurationAssumption DEF CurrentLimit, Rested

LEMMA LimitUsedFacts ==
    ASSUME NEW q \in Quota, QuotaOK(q), NEW change \in Nat, change <= CurrentLimit(q)
    PROVE  /\ LimitUsed(q, change) \in Quota
           /\ QuotaOK(LimitUsed(q, change))
           /\ CurrentLimit(LimitUsed(q, change)) = CurrentLimit(q) - change
           /\ LimitUsed(q, change).age = 0
           /\ LimitUsed(q, change).max = q.max
           /\ LimitUsed(q, change).rate = q.rate
<1> DEFINE c == CurrentLimit(q) - change
           r == LimitUsed(q, change)
<1>1. q.max \in Nat /\ q.max <= MaxAmount /\ q.rate \in Nat
  BY QuotaTypes
<1>2. c \in Limit /\ c <= q.max
  BY <1>1, CurrentLimitBounds, MaxAmountAssumption DEF QuotaOK, Limit
<1>3. r = [q EXCEPT !.age = 0, !.current = c]
  BY DEF LimitUsed
<1> HIDE DEF c, r
<1>4. /\ r \in Quota /\ r.age = 0 /\ r.current = c /\ r.max = q.max /\ r.rate = q.rate
  <2>1. 0 \in 0 .. DURATION
    BY DurationAssumption
  <2>2. QED
    BY <1>2, <1>3, <2>1 DEF Quota
<1>5. QuotaOK(r)
  BY <1>2, <1>4 DEF QuotaOK
<1>6. CurrentLimit(r) = c
  BY <1>2, <1>4, FreshLimit
<1>7. QED
  BY <1>4, <1>5, <1>6 DEF c, r

\* A new maximum leaves a quota that has what the old one had left, less or
\* more by the change, and never more than the new maximum.
LEMMA LimitChangedFacts ==
    ASSUME NEW q \in Quota, QuotaOK(q), NEW limit \in Limit, NEW rate \in RatesOf(limit)
    PROVE  /\ LimitChanged(q, limit, rate) \in Quota
           /\ QuotaOK(LimitChanged(q, limit, rate))
           /\ LimitChanged(q, limit, rate).age = 0
           /\ limit - CurrentLimit(LimitChanged(q, limit, rate)) =
                 IF q.max - CurrentLimit(q) < limit THEN q.max - CurrentLimit(q) ELSE limit
<1> DEFINE g == CurrentLimit(q)
           c == NewCurrentLimit(limit, q.max, g)
           r == LimitChanged(q, limit, rate)
<1>1. g \in Nat /\ g <= q.max /\ q.max \in Nat /\ limit \in Nat /\ limit <= MaxAmount
  BY QuotaTypes, CurrentLimitBounds, MaxAmountAssumption DEF QuotaOK, Limit
<1> HIDE DEF g
<1>2. /\ c \in Nat /\ c <= limit
      /\ limit - c = IF q.max - g < limit THEN q.max - g ELSE limit
  BY <1>1 DEF NewCurrentLimit
<1> HIDE DEF c
<1>3. rate \in Nat /\ rate * DURATION <= limit + RateError
  BY <1>1, RateErrorAssumption DEF RatesOf
<1>4. r = [age |-> 0, rate |-> rate, max |-> limit, current |-> c]
  BY DEF LimitChanged, c, g
<1> HIDE DEF r
<1>5. /\ r \in Quota /\ r.age = 0 /\ r.current = c /\ r.max = limit /\ r.rate = rate
  <2>1. 0 \in 0 .. DURATION /\ c \in Limit
    BY <1>1, <1>2, DurationAssumption, MaxAmountAssumption DEF Limit
  <2>2. QED
    BY <1>3, <1>4, <2>1 DEF Quota
<1>6. QuotaOK(r)
  BY <1>2, <1>3, <1>5 DEF QuotaOK
<1>7. CurrentLimit(r) = c
  BY <1>2, <1>5, FreshLimit
<1>8. QED
  BY <1>2, <1>5, <1>6, <1>7 DEF r, g

\* A second refills a quota by at most its rate, unless it ends the day.
LEMMA SecondOlderFacts ==
    ASSUME NEW q \in Quota, QuotaOK(q)
    PROVE  /\ SecondOlder(q) \in Quota
           /\ QuotaOK(SecondOlder(q))
           /\ SecondOlder(q).age = IF q.age < DURATION THEN q.age + 1 ELSE q.age
           /\ SecondOlder(q).max = q.max
           /\ SecondOlder(q).rate = q.rate
           /\ q.age + 1 # DURATION =>
                 CurrentLimit(SecondOlder(q)) <= CurrentLimit(q) + q.rate
<1> DEFINE a == IF q.age < DURATION THEN q.age + 1 ELSE q.age
           r == SecondOlder(q)
<1>1. /\ q.age \in 0 .. DURATION /\ q.age \in Nat /\ q.rate \in Nat
      /\ q.current \in Nat /\ q.max \in Nat
  BY QuotaTypes
<1>2. a \in 0 .. DURATION
  BY <1>1, DurationAssumption
<1>3. r = [q EXCEPT !.age = a]
  BY DEF SecondOlder
<1> HIDE DEF a, r
<1>4. /\ r \in Quota /\ r.age = a /\ r.current = q.current
      /\ r.max = q.max /\ r.rate = q.rate
  BY <1>2, <1>3 DEF Quota
<1>5. QuotaOK(r)
  BY <1>4 DEF QuotaOK
<1>6. ASSUME q.age + 1 # DURATION
      PROVE  CurrentLimit(r) <= CurrentLimit(q) + q.rate
  <2>1. CASE Rested(q)
    <3>1. CurrentLimit(q) = q.max
      BY <2>1 DEF CurrentLimit
    <3>2. CurrentLimit(r) \in Nat /\ CurrentLimit(r) <= q.max
      BY <1>4, <1>5, CurrentLimitBounds DEF QuotaOK
    <3>3. QED
      BY <1>1, <3>1, <3>2
  <2>2. CASE ~Rested(q)
    <3>1. a = q.age + 1 /\ a < DURATION
      BY <1>1, <1>6, <2>2, DurationAssumption DEF a, Rested
    <3>2. ~Rested(r)
      BY <1>1, <1>4, <2>2, <3>1, DurationAssumption DEF Rested
    <3>3. (q.age + 1) * q.rate = q.age * q.rate + q.rate
      BY <1>1
    <3>4. q.age * q.rate \in Nat
      BY <1>1
    <3>5. Refill(r) = Refill(q) + q.rate /\ Refill(q) \in Nat
      BY <1>1, <1>4, <3>1, <3>3, <3>4 DEF Refill
    <3>6. QED
      BY <1>1, <1>4, <2>2, <3>2, <3>5 DEF CurrentLimit
  <2>3. QED
    BY <2>1, <2>2
<1>7. QED
  BY <1>4, <1>5, <1>6 DEF a, r

\* With a maximum below half of an asset's range the sum that refills a quota
\* is an asset.
LEMMA SmallReadable ==
    ASSUME NEW q \in Quota, QuotaOK(q), 2 * q.max + RateError <= MaxAmount
    PROVE  IsReadable(q)
<1>1. /\ q.age \in 0 .. DURATION /\ q.age \in Nat /\ q.rate \in Nat
      /\ q.current \in Nat /\ q.max \in Nat
  BY QuotaTypes
<1>2. DURATION - q.age \in Nat
  BY <1>1, DurationAssumption
<1>3. (DURATION - q.age) * q.rate \in Nat
  BY <1>1, <1>2
<1>4. q.rate * DURATION = q.age * q.rate + (DURATION - q.age) * q.rate
  BY <1>1, DurationAssumption
<1>5. q.age * q.rate \in Nat
  BY <1>1
<1>6. q.age * q.rate <= q.max + RateError
  <2> DEFINE x == q.age * q.rate
             y == (DURATION - q.age) * q.rate
             z == q.rate * DURATION
  <2>1. x \in Nat /\ y \in Nat /\ z = x + y /\ z <= q.max + RateError
    BY <1>3, <1>4, <1>5 DEF QuotaOK
  <2> HIDE DEF x, y, z
  <2>2. x <= q.max + RateError
    BY <1>1, <2>1, RateErrorAssumption
  <2>3. QED
    BY <2>2 DEF x
<1>7. Refill(q) <= MaxAmount
  BY <1>1, <1>5, <1>6, RateErrorAssumption, MaxAmountAssumption DEF Refill, QuotaOK
<1>8. QED
  BY <1>7 DEF IsReadable

(***************************************************************************)
(* The tables.                                                             *)
(***************************************************************************)

\* Actions that change the holders' rows and nothing else.
LEMMA RowsChanged ==
    ASSUME NEW x \in XToken, NEW rows \in [Account -> Row]
    PROVE  /\ [x EXCEPT !.rows = rows] \in XToken
           /\ [x EXCEPT !.rows = rows].rows = rows
           /\ [x EXCEPT !.rows = rows].minting = x.minting
           /\ [x EXCEPT !.rows = rows].burning = x.burning
           /\ [x EXCEPT !.rows = rows].supply = x.supply
BY DEF XToken

\* The balances add up to the supply.
AddsUp(x) == BalancesSum(x.rows) = x.supply

\* A mint uses the caller's minting quota, unless it is the lockbox, and
\* takes from nobody.
MintOK(x, n, caller, quantity) ==
    /\ n \in XToken /\ RowsOK(n.rows) /\ AddsUp(n)
    /\ \A a \in Account : n.rows[a].balance >= x.rows[a].balance
    /\ n.burning = x.burning
    /\ caller = x.lockbox => n.minting = x.minting
    /\ caller # x.lockbox =>
          /\ quantity \in Nat /\ quantity <= CurrentLimit(x.minting[caller])
          /\ n.minting = [x.minting EXCEPT ![caller] = LimitUsed(x.minting[caller], quantity)]

LEMMA MintedFacts ==
    ASSUME NEW x \in XToken, RowsOK(x.rows), AddsUp(x),
           \A a \in Account : QuotaOK(x.minting[a]),
           NEW auth, NEW caller \in Account, NEW to \in Account, NEW quantity \in Int,
           CanMint(x, auth, caller, to, quantity)
    PROVE  MintOK(x, Minted(x, caller, to, quantity), caller, quantity)
<1> DEFINE rows == AddBalance(x.rows, to, quantity, caller)
           minting == AfterUse(x, x.minting, caller, quantity)
           n == Minted(x, caller, to, quantity)
<1>1. /\ x.rows \in [Account -> Row] /\ x.minting \in [Account -> Quota]
      /\ x.supply \in Amount /\ x.maxSupply \in Nat /\ x.maxSupply <= MaxAmount
  BY MaxAmountAssumption DEF XToken, Limit
<1>2. quantity \in Nat /\ quantity >= 1 /\ quantity <= x.maxSupply - x.supply
  BY <1>1 DEF CanMint, Amount
<1>3. x.supply + quantity \in Amount
  BY <1>1, <1>2, MaxAmountAssumption DEF Amount
<1>4. /\ rows \in [Account -> Row] /\ RowsOK(rows)
      /\ BalancesSum(rows) = BalancesSum(x.rows) + quantity
      /\ rows[to].balance = x.rows[to].balance + quantity
      /\ \A a \in Account \ {to} : rows[a] = x.rows[a]
  <2>1. x.rows[to].balance + quantity \in Amount
    BY DEF CanMint, CanAddBalance
  <2>2. QED
    BY <1>1, <2>1, AddFacts
<1>5. \A a \in Account : x.rows[a].balance \in Int
  <2>1. Amount \subseteq Int
    BY MaxAmountAssumption DEF Amount
  <2>2. \A row \in Row : row.balance \in Amount
    BY DEF Row
  <2>3. QED
    BY <1>1, <2>1, <2>2
<1>6. \A a \in Account : rows[a].balance >= x.rows[a].balance
  <2> SUFFICES ASSUME NEW a \in Account PROVE rows[a].balance >= x.rows[a].balance
    OBVIOUS
  <2> HIDE DEF rows
  <2>1. CASE a = to
    BY <1>2, <1>4, <1>5, <2>1
  <2>2. CASE a # to
    BY <1>4, <1>5, <2>2
  <2>3. QED
    BY <2>1, <2>2
<1>7. /\ caller = x.lockbox => minting = x.minting
      /\ caller # x.lockbox =>
            /\ quantity <= CurrentLimit(x.minting[caller])
            /\ minting = [x.minting EXCEPT ![caller] = LimitUsed(x.minting[caller], quantity)]
  BY <1>1 DEF CanMint, MayUse, AfterUse
<1>8. minting \in [Account -> Quota]
  <2>1. CASE caller = x.lockbox
    BY <1>1, <1>7, <2>1
  <2>2. CASE caller # x.lockbox
    <3>1. LimitUsed(x.minting[caller], quantity) \in Quota
      BY <1>1, <1>2, <1>7, <2>2, LimitUsedFacts
    <3>2. QED
      BY <1>1, <1>7, <2>2, <3>1
  <2>3. QED
    BY <2>1, <2>2
<1>9. n = [x EXCEPT !.minting = minting, !.supply = x.supply + quantity, !.rows = rows]
  BY DEF Minted
<1> HIDE DEF rows, minting, n
<1>10. /\ n \in XToken /\ n.rows = rows /\ n.minting = minting /\ n.burning = x.burning
       /\ n.supply = x.supply + quantity
  BY <1>3, <1>4, <1>8, <1>9 DEF XToken
<1>11. AddsUp(n)
  BY <1>4, <1>10 DEF AddsUp
<1>12. QED
  BY <1>2, <1>4, <1>6, <1>7, <1>10, <1>11 DEF n, MintOK

\* A burn uses the caller's burning quota, unless it is the lockbox, and
\* takes from nobody else.
LEMMA BurnedFacts ==
    ASSUME NEW x \in XToken, RowsOK(x.rows), AddsUp(x),
           \A a \in Account : QuotaOK(x.burning[a]),
           NEW auth, NEW caller \in Account, NEW quantity \in Int,
           CanBurn(x, auth, caller, quantity)
    PROVE  /\ Burned(x, caller, quantity) \in XToken
           /\ RowsOK(Burned(x, caller, quantity).rows)
           /\ AddsUp(Burned(x, caller, quantity))
           /\ \A a \in Account \ {caller} : Burned(x, caller, quantity).rows[a] = x.rows[a]
           /\ Burned(x, caller, quantity).minting = x.minting
           /\ caller \in x.bridges \cup {x.lockbox}
           /\ caller = x.lockbox => Burned(x, caller, quantity).burning = x.burning
           /\ caller # x.lockbox =>
                /\ quantity \in Nat /\ quantity <= CurrentLimit(x.burning[caller])
                /\ Burned(x, caller, quantity).burning =
                      [x.burning EXCEPT ![caller] = LimitUsed(x.burning[caller], quantity)]
<1> DEFINE rows == SubBalance(x.rows, caller, quantity)
           burning == AfterUse(x, x.burning, caller, quantity)
           n == Burned(x, caller, quantity)
<1>1. x.rows \in [Account -> Row] /\ x.burning \in [Account -> Quota]
  BY DEF XToken
<1>2. quantity \in Nat /\ x.supply - quantity \in Amount
  BY MaxAmountAssumption DEF CanBurn
<1>0. CanSubBalance(x.rows, auth, caller, quantity)
  BY DEF CanBurn
<1>3. /\ rows \in [Account -> Row] /\ RowsOK(rows)
      /\ BalancesSum(rows) = BalancesSum(x.rows) - quantity
      /\ \A a \in Account \ {caller} : rows[a] = x.rows[a]
  BY <1>1, <1>0, SubFacts
<1>4. /\ caller = x.lockbox => burning = x.burning
      /\ caller \in x.bridges \cup {x.lockbox}
      /\ caller # x.lockbox =>
            /\ quantity <= CurrentLimit(x.burning[caller])
            /\ burning = [x.burning EXCEPT ![caller] = LimitUsed(x.burning[caller], quantity)]
  BY <1>1 DEF CanBurn, MayUse, AfterUse
<1>5. burning \in [Account -> Quota]
  <2>1. CASE caller = x.lockbox
    BY <1>1, <1>4, <2>1
  <2>2. CASE caller # x.lockbox
    <3>1. LimitUsed(x.burning[caller], quantity) \in Quota
      BY <1>1, <1>2, <1>4, <2>2, LimitUsedFacts
    <3>2. QED
      BY <1>1, <1>4, <2>2, <3>1
  <2>3. QED
    BY <2>1, <2>2
<1>6. n = [x EXCEPT !.burning = burning, !.supply = x.supply - quantity, !.rows = rows]
  BY DEF Burned
<1> HIDE DEF rows, burning, n
<1>7. /\ n \in XToken /\ n.rows = rows /\ n.burning = burning /\ n.minting = x.minting
      /\ n.supply = x.supply - quantity
  BY <1>2, <1>3, <1>5, <1>6 DEF XToken
<1>8. AddsUp(n)
  BY <1>3, <1>7 DEF AddsUp
<1>9. QED
  BY <1>2, <1>3, <1>4, <1>7, <1>8 DEF n

LEMMA LimitsSetFacts ==
    ASSUME NEW x \in XToken, \A a \in Account : QuotaOK(x.minting[a]) /\ QuotaOK(x.burning[a]),
           NEW b \in Account, NEW l \in Limit, NEW k \in Limit,
           NEW r \in RatesOf(l), NEW s \in RatesOf(k)
    PROVE  /\ LimitsSet(x, b, l, k, r, s) \in XToken
           /\ LimitsSet(x, b, l, k, r, s).rows = x.rows
           /\ LimitsSet(x, b, l, k, r, s).supply = x.supply
           /\ LimitsSet(x, b, l, k, r, s).minting =
                 [x.minting EXCEPT ![b] = LimitChanged(x.minting[b], l, r)]
           /\ LimitsSet(x, b, l, k, r, s).burning =
                 [x.burning EXCEPT ![b] = LimitChanged(x.burning[b], k, s)]
<1> DEFINE p == LimitChanged(x.minting[b], l, r)
           q == LimitChanged(x.burning[b], k, s)
           minting == [x.minting EXCEPT ![b] = p]
           burning == [x.burning EXCEPT ![b] = q]
           bridges == x.bridges \cup {b}
<1>1. x.minting \in [Account -> Quota] /\ x.burning \in [Account -> Quota]
  BY DEF XToken
<1>2. p \in Quota /\ q \in Quota
  BY <1>1, LimitChangedFacts
<1>3. LimitsSet(x, b, l, k, r, s)
        = [x EXCEPT !.bridges = bridges, !.minting = minting, !.burning = burning]
  BY DEF LimitsSet
<1> HIDE DEF p, q
<1>4. minting \in [Account -> Quota] /\ burning \in [Account -> Quota]
  BY <1>1, <1>2
<1>5. bridges \in SUBSET Account
  BY DEF XToken
<1> HIDE DEF minting, burning, bridges
<1>6. QED
  BY <1>3, <1>4, <1>5 DEF XToken, minting, burning, p, q

LEMMA AllOlderFacts ==
    ASSUME NEW x \in XToken, \A a \in Account : QuotaOK(x.minting[a]) /\ QuotaOK(x.burning[a])
    PROVE  /\ AllOlder(x) \in XToken
           /\ AllOlder(x).rows = x.rows /\ AllOlder(x).supply = x.supply
           /\ AllOlder(x).minting = [a \in Account |-> SecondOlder(x.minting[a])]
           /\ AllOlder(x).burning = [a \in Account |-> SecondOlder(x.burning[a])]
<1> DEFINE minting == [a \in Account |-> SecondOlder(x.minting[a])]
           burning == [a \in Account |-> SecondOlder(x.burning[a])]
<1>1. minting \in [Account -> Quota] /\ burning \in [Account -> Quota]
  BY SecondOlderFacts DEF XToken
<1>2. AllOlder(x) = [x EXCEPT !.minting = minting, !.burning = burning]
  BY DEF AllOlder
<1> HIDE DEF minting, burning
<1>3. QED
  BY <1>1, <1>2 DEF XToken, minting, burning

-----------------------------------------------------------------------------
(***************************************************************************)
(* A quota together with the history of its uses.                          *)
(***************************************************************************)

\* A use moves what is left of the quota to what is used.
LEMMA HistoryUse ==
    ASSUME NEW q \in Quota, QuotaOK(q), NEW w \in [Window -> Nat], HistoryOK(w, q),
           NEW change \in Nat, change <= CurrentLimit(q)
    PROVE  HistoryOK([k \in Window |-> w[k] + change], LimitUsed(q, change))
<1> DEFINE r == LimitUsed(q, change)
           g == CurrentLimit(q)
           v == [k \in Window |-> w[k] + change]
<1>1. CurrentLimit(r) = g - change /\ r.age = 0 /\ r.max = q.max /\ r.rate = q.rate
  BY LimitUsedFacts
<1>2. g \in Nat
  BY CurrentLimitBounds DEF QuotaOK
<1> SUFFICES ASSUME NEW k \in Window
             PROVE  /\ v[k] + CurrentLimit(r) <= r.max + k * r.rate
                    /\ k < r.age => v[k] = 0
  BY DEF HistoryOK
<1>3. w[k] + g <= q.max + k * q.rate
  BY DEF HistoryOK
<1> HIDE DEF r, g
<1>4. v[k] + CurrentLimit(r) = w[k] + g
  BY <1>1, <1>2
<1>5. QED
  BY <1>1, <1>3, <1>4, DurationAssumption DEF Window

\* The history starts anew when limits are set.
LEMMA HistoryChange ==
    ASSUME NEW q \in Quota, QuotaOK(q), q.age = 0
    PROVE  HistoryOK(NothingWithin, q)
<1>1. CurrentLimit(q) \in Nat /\ CurrentLimit(q) <= q.max
  BY CurrentLimitBounds DEF QuotaOK
<1>2. q.max \in Nat /\ q.rate \in Nat
  BY QuotaTypes
<1>3. \A k \in Window : k \in Nat /\ k * q.rate \in Nat
  BY <1>2, DurationAssumption DEF Window
<1>4. QED
  BY <1>1, <1>2, <1>3 DEF HistoryOK, NothingWithin

\* When a second passes every use is one second longer ago.
LEMMA HistorySlide ==
    ASSUME NEW q \in Quota, QuotaOK(q), NEW w \in [Window -> Nat], HistoryOK(w, q)
    PROVE  HistoryOK([k \in Window |-> IF k = 0 THEN 0 ELSE w[k - 1]], SecondOlder(q))
<1> DEFINE r == SecondOlder(q)
           g == CurrentLimit(q)
           v == [k \in Window |-> IF k = 0 THEN 0 ELSE w[k - 1]]
<1>1. /\ r \in Quota /\ QuotaOK(r) /\ r.max = q.max /\ r.rate = q.rate
      /\ r.age = IF q.age < DURATION THEN q.age + 1 ELSE q.age
      /\ q.age + 1 # DURATION => CurrentLimit(r) <= g + q.rate
  BY SecondOlderFacts
<1>2. g \in Nat /\ CurrentLimit(r) \in Nat /\ CurrentLimit(r) <= q.max
  BY <1>1, CurrentLimitBounds DEF QuotaOK
<1>3. q.age \in 0 .. DURATION /\ q.rate \in Nat /\ q.max \in Nat
  BY QuotaTypes
<1> SUFFICES ASSUME NEW k \in Window
             PROVE  /\ v[k] + CurrentLimit(r) <= r.max + k * r.rate
                    /\ k < r.age => v[k] = 0
  BY DEF HistoryOK
<1> HIDE DEF r, g
<1>4. k \in Nat /\ k < DURATION /\ k * q.rate \in Nat
  BY <1>3, DurationAssumption DEF Window
<1>5. CASE k = 0
  BY <1>1, <1>2, <1>3, <1>4, <1>5
<1>6. CASE k # 0
  <2>1. k - 1 \in Window /\ v[k] = w[k - 1] /\ w[k - 1] \in Nat
    BY <1>4, <1>6, DurationAssumption DEF Window
  <2>2. w[k - 1] + g <= q.max + (k - 1) * q.rate /\ (k - 1 < q.age => w[k - 1] = 0)
    BY <2>1 DEF HistoryOK, g
  <2>3. (k - 1) * q.rate + q.rate = k * q.rate /\ (k - 1) * q.rate \in Nat
    BY <1>3, <1>4, <1>6
  <2>4. k < r.age => v[k] = 0
    BY <1>1, <1>3, <1>4, <2>1, <2>2, DurationAssumption
  <2>5. v[k] + CurrentLimit(r) <= r.max + k * r.rate
    <3>1. CASE q.age + 1 = DURATION
      BY <1>1, <1>2, <1>3, <1>4, <2>1, <2>2, <3>1
    <3>2. CASE q.age + 1 # DURATION
      BY <1>1, <1>2, <1>3, <1>4, <2>1, <2>2, <2>3, <3>2
    <3>3. QED
      BY <3>1, <3>2
  <2>6. QED
    BY <2>4, <2>5
<1>7. QED
  BY <1>5, <1>6

(***************************************************************************)
(* One direction, minting or burning, of all accounts.                     *)
(***************************************************************************)
History == [Account -> [Window -> Nat]]

Side(h, quotas) == \A b \in Account : QuotaOK(quotas[b]) /\ HistoryOK(h[b], quotas[b])

LEMMA SideUse ==
    ASSUME NEW h \in History, NEW quotas \in [Account -> Quota], Side(h, quotas),
           NEW caller \in Account, NEW quantity \in Nat, quantity <= CurrentLimit(quotas[caller])
    PROVE  /\ Metered(h, caller, quantity) \in History
           /\ Side(Metered(h, caller, quantity),
                   [quotas EXCEPT ![caller] = LimitUsed(quotas[caller], quantity)])
<1> DEFINE w == [k \in Window |-> h[caller][k] + quantity]
           r == LimitUsed(quotas[caller], quantity)
<1>1. /\ QuotaOK(quotas[caller]) /\ HistoryOK(h[caller], quotas[caller])
      /\ h[caller] \in [Window -> Nat]
  BY DEF Side, History
<1>2. QuotaOK(r) /\ HistoryOK(w, r)
  BY <1>1, LimitUsedFacts, HistoryUse
<1>3. w \in [Window -> Nat]
  BY <1>1
<1> HIDE DEF w, r
<1>4. Side([h EXCEPT ![caller] = w], [quotas EXCEPT ![caller] = r])
  BY <1>2 DEF Side, History
<1>5. [h EXCEPT ![caller] = w] \in History
  BY <1>3 DEF History
<1>6. QED
  BY <1>4, <1>5 DEF Metered, w, r

LEMMA SideChange ==
    ASSUME NEW h \in History, NEW quotas \in [Account -> Quota], Side(h, quotas),
           NEW b \in Account, NEW limit \in Limit, NEW rate \in RatesOf(limit)
    PROVE  /\ [h EXCEPT ![b] = NothingWithin] \in History
           /\ Side([h EXCEPT ![b] = NothingWithin],
                   [quotas EXCEPT ![b] = LimitChanged(quotas[b], limit, rate)])
<1> DEFINE r == LimitChanged(quotas[b], limit, rate)
<1>1. QuotaOK(r) /\ HistoryOK(NothingWithin, r)
  BY LimitChangedFacts, HistoryChange DEF Side
<1>2. NothingWithin \in [Window -> Nat]
  BY DEF NothingWithin
<1> HIDE DEF r
<1>3. Side([h EXCEPT ![b] = NothingWithin], [quotas EXCEPT ![b] = r])
  BY <1>1 DEF Side, History
<1>4. QED
  BY <1>2, <1>3 DEF History, r

LEMMA SideSlide ==
    ASSUME NEW h \in History, NEW quotas \in [Account -> Quota], Side(h, quotas)
    PROVE  /\ Slid(h) \in History
           /\ Side(Slid(h), [a \in Account |-> SecondOlder(quotas[a])])
<1>1. ASSUME NEW b \in Account
      PROVE  /\ Slid(h)[b] \in [Window -> Nat]
             /\ QuotaOK(SecondOlder(quotas[b]))
             /\ HistoryOK(Slid(h)[b], SecondOlder(quotas[b]))
  <2>1. /\ QuotaOK(quotas[b]) /\ HistoryOK(h[b], quotas[b]) /\ h[b] \in [Window -> Nat]
    BY DEF Side, History
  <2>2. Slid(h)[b] = [k \in Window |-> IF k = 0 THEN 0 ELSE h[b][k - 1]]
    BY DEF Slid
  <2>3. \A k \in Window : k # 0 => k - 1 \in Window
    BY DurationAssumption DEF Window
  <2>4. QED
    BY <2>1, <2>2, <2>3, SecondOlderFacts, HistorySlide
<1>2. QED
  BY <1>1 DEF Side, Slid, History

-----------------------------------------------------------------------------
(***************************************************************************)
(* The inductive invariant.                                                *)
(***************************************************************************)
IInv == TypeOK /\ QuotaInvariant /\ SupplyIsSumOfBalances /\ RowsOK(xtoken.rows)

LEMMA IInvParts ==
    IInv <=> /\ xtoken \in XToken /\ RowsOK(xtoken.rows) /\ AddsUp(xtoken)
             /\ mintedWithin \in History /\ Side(mintedWithin, xtoken.minting)
             /\ burnedWithin \in History /\ Side(burnedWithin, xtoken.burning)
BY DEF IInv, TypeOK, QuotaInvariant, SupplyIsSumOfBalances, AddsUp, Side, History

LEMMA IInvPartsNext ==
    IInv' <=> /\ xtoken' \in XToken /\ RowsOK(xtoken'.rows) /\ AddsUp(xtoken')
              /\ mintedWithin' \in History /\ Side(mintedWithin', xtoken'.minting)
              /\ burnedWithin' \in History /\ Side(burnedWithin', xtoken'.burning)
BY DEF IInv, TypeOK, QuotaInvariant, SupplyIsSumOfBalances, AddsUp, RowsOK, BalancesSum,
       Side, History

LEMMA InitIInv == Init => IInv
<1> SUFFICES ASSUME Init PROVE IInv
  OBVIOUS
<1>1. EmptyQuota \in Quota
  BY DurationAssumption, MaxAmountAssumption DEF EmptyQuota, Quota, Limit
<1>2. 0 \in Amount /\ 0 \in Limit
  BY MaxAmountAssumption DEF Amount, Limit
<1>3. NoRows \in [Account -> Row] /\ RowsOK(NoRows) /\ AddsUp(NewXToken)
  <2> DEFINE f == [a \in Account |-> NoRows[a].balance]
  <2>1. \A a \in Account : f[a] = 0
    BY DEF NoRows, NoRow
  <2> HIDE DEF f
  <2>2. SumFunctionOnSet(f, Account) = 0
    BY <2>1, AccountAssumption, SumZero
  <2>3. AddsUp(NewXToken)
    BY <2>2 DEF AddsUp, BalancesSum, NewXToken, f
  <2>4. QED
    BY <1>2, <2>3 DEF NoRows, NoRow, Row, AccountOrNone, RowsOK
<1>4. NewXToken \in XToken
  BY <1>1, <1>2, <1>3 DEF NewXToken, XToken, AccountOrNone
<1>5. CurrentLimit(EmptyQuota) = 0
  BY DEF CurrentLimit, Rested, EmptyQuota
<1>6. QuotaOK(EmptyQuota) /\ HistoryOK(NothingWithin, EmptyQuota)
  <2>1. \A k \in Window : k * 0 = 0
    BY DurationAssumption DEF Window
  <2>2. HistoryOK(NothingWithin, EmptyQuota)
    BY <1>5, <2>1 DEF HistoryOK, NothingWithin, EmptyQuota
  <2>3. QuotaOK(EmptyQuota)
    BY DurationAssumption, RateErrorAssumption DEF QuotaOK, EmptyQuota
  <2>4. QED
    BY <2>2, <2>3
<1>7. NothingWithin \in [Window -> Nat]
  BY DEF NothingWithin
<1> DEFINE none == [b \in Account |-> NothingWithin]
           empty == [a \in Account |-> EmptyQuota]
<1>8. none \in History /\ Side(none, empty)
  BY <1>6, <1>7 DEF History, Side
<1>9. NewXToken.minting = empty /\ NewXToken.burning = empty /\ NewXToken.rows = NoRows
  BY DEF NewXToken
<1>10. QED
  BY <1>3, <1>4, <1>8, <1>9, IInvParts DEF Init

\* Actions that touch neither quotas nor history.
LEMMA RowsStep ==
    ASSUME IInv, xtoken' \in XToken, RowsOK(xtoken'.rows), AddsUp(xtoken'),
           xtoken'.minting = xtoken.minting, xtoken'.burning = xtoken.burning,
           UNCHANGED history
    PROVE  IInv'
BY IInvParts, IInvPartsNext DEF history

LEMMA MintStep ==
    ASSUME IInv, NEW auth, NEW caller \in Account, NEW to \in Account, NEW q \in Int,
           mint(auth, caller, to, q)
    PROVE  IInv'
<1> DEFINE n == Minted(xtoken, caller, to, q)
<1>1. /\ xtoken \in XToken /\ RowsOK(xtoken.rows) /\ AddsUp(xtoken)
      /\ mintedWithin \in History /\ Side(mintedWithin, xtoken.minting)
      /\ burnedWithin \in History /\ Side(burnedWithin, xtoken.burning)
  BY IInvParts
<1>2. CanMint(xtoken, auth, caller, to, q) /\ xtoken' = n /\ burnedWithin' = burnedWithin
  BY DEF mint
<1>3. /\ n \in XToken /\ RowsOK(n.rows) /\ AddsUp(n) /\ n.burning = xtoken.burning
      /\ caller = xtoken.lockbox => n.minting = xtoken.minting
      /\ caller # xtoken.lockbox =>
            /\ q \in Nat /\ q <= CurrentLimit(xtoken.minting[caller])
            /\ n.minting = [xtoken.minting EXCEPT ![caller] = LimitUsed(xtoken.minting[caller], q)]
  <2>1. xtoken \in XToken /\ RowsOK(xtoken.rows) /\ AddsUp(xtoken)
    BY <1>1
  <2>2. \A a \in Account : QuotaOK(xtoken.minting[a])
    BY <1>1 DEF Side
  <2>3. CanMint(xtoken, auth, caller, to, q)
    BY <1>2
  <2>4. MintOK(xtoken, n, caller, q)
    BY <2>1, <2>2, <2>3, MintedFacts
  <2>5. QED
    BY <2>4 DEF MintOK
<1> HIDE DEF n
<1>4. CASE caller = xtoken.lockbox
  <2>1. mintedWithin' = mintedWithin
    BY <1>4 DEF mint
  <2>2. QED
    BY <1>2, <1>3, <1>4, <2>1, RowsStep DEF history
<1>5. CASE caller # xtoken.lockbox
  <2>1. mintedWithin' = Metered(mintedWithin, caller, q)
    BY <1>5 DEF mint
  <2>2. xtoken.minting \in [Account -> Quota]
    BY <1>1 DEF XToken
  <2>3. mintedWithin' \in History /\ Side(mintedWithin', n.minting)
    BY <1>1, <1>3, <1>5, <2>1, <2>2, SideUse
  <2>4. QED
    BY <1>1, <1>2, <1>3, <2>3, IInvPartsNext
<1>6. QED
  BY <1>4, <1>5

LEMMA BurnStep ==
    ASSUME IInv, NEW auth, NEW caller \in Account, NEW q \in Int, burn(auth, caller, q)
    PROVE  IInv'
<1> DEFINE n == Burned(xtoken, caller, q)
<1>1. /\ xtoken \in XToken /\ RowsOK(xtoken.rows) /\ AddsUp(xtoken)
      /\ mintedWithin \in History /\ Side(mintedWithin, xtoken.minting)
      /\ burnedWithin \in History /\ Side(burnedWithin, xtoken.burning)
  BY IInvParts
<1>2. CanBurn(xtoken, auth, caller, q) /\ xtoken' = n /\ mintedWithin' = mintedWithin
  BY DEF burn
<1>3. /\ n \in XToken /\ RowsOK(n.rows) /\ AddsUp(n) /\ n.minting = xtoken.minting
      /\ caller = xtoken.lockbox => n.burning = xtoken.burning
      /\ caller # xtoken.lockbox =>
            /\ q \in Nat /\ q <= CurrentLimit(xtoken.burning[caller])
            /\ n.burning = [xtoken.burning EXCEPT ![caller] = LimitUsed(xtoken.burning[caller], q)]
  <2>1. \A a \in Account : QuotaOK(xtoken.burning[a])
    BY <1>1 DEF Side
  <2>2. QED
    BY <1>1, <1>2, <2>1, BurnedFacts
<1> HIDE DEF n
<1>4. CASE caller = xtoken.lockbox
  <2>1. burnedWithin' = burnedWithin
    BY <1>4 DEF burn
  <2>2. QED
    BY <1>2, <1>3, <1>4, <2>1, RowsStep DEF history
<1>5. CASE caller # xtoken.lockbox
  <2>1. burnedWithin' = Metered(burnedWithin, caller, q)
    BY <1>5 DEF burn
  <2>2. xtoken.burning \in [Account -> Quota]
    BY <1>1 DEF XToken
  <2>3. burnedWithin' \in History /\ Side(burnedWithin', n.burning)
    BY <1>1, <1>3, <1>5, <2>1, <2>2, SideUse
  <2>4. QED
    BY <1>1, <1>2, <1>3, <2>3, IInvPartsNext
<1>6. QED
  BY <1>4, <1>5

\* Actions that change the holders' rows only.
LEMMA HoldersStep ==
    ASSUME IInv, NEW rows \in [Account -> Row], RowsOK(rows),
           BalancesSum(rows) = BalancesSum(xtoken.rows),
           xtoken' = [xtoken EXCEPT !.rows = rows], UNCHANGED history
    PROVE  IInv'
<1>1. xtoken \in XToken /\ AddsUp(xtoken)
  BY IInvParts
<1>2. /\ xtoken' \in XToken /\ xtoken'.rows = rows /\ xtoken'.supply = xtoken.supply
      /\ xtoken'.minting = xtoken.minting /\ xtoken'.burning = xtoken.burning
  BY <1>1, RowsChanged
<1>3. AddsUp(xtoken')
  BY <1>1, <1>2 DEF AddsUp
<1>4. QED
  BY <1>2, <1>3, RowsStep

LEMMA HolderRows == IInv => xtoken.rows \in [Account -> Row] /\ RowsOK(xtoken.rows)
BY IInvParts DEF XToken

Conserved(rows) ==
    rows \in [Account -> Row] /\ RowsOK(rows) /\ BalancesSum(rows) = BalancesSum(xtoken.rows)

LEMMA TransferRows ==
    ASSUME IInv, NEW auth, NEW from \in Account, NEW to \in Account, NEW q \in Int,
           CanTransfer(xtoken, auth, from, to, q)
    PROVE  LET rows == Move(xtoken.rows, from, to, q, TransferPayer(auth, from, to))
           IN  /\ Conserved(rows)
               /\ \A a \in Account \ {from, to} : rows[a] = xtoken.rows[a]
               /\ from \notin xtoken.frozen /\ to \notin xtoken.frozen
<1> DEFINE payer == TransferPayer(auth, from, to)
<1>1. payer \in Account
  BY DEF TransferPayer
<1>2. /\ from # to /\ CanMove(xtoken.rows, auth, from, to, q, payer)
      /\ from \notin xtoken.frozen /\ to \notin xtoken.frozen
  BY DEF CanTransfer, IsFrozen
<1>3. xtoken.rows \in [Account -> Row] /\ RowsOK(xtoken.rows)
  BY HolderRows
<1> DEFINE old == xtoken.rows
           rows == Move(old, from, to, q, payer)
<1>4. /\ old \in [Account -> Row] /\ RowsOK(old) /\ from # to
      /\ CanMove(old, auth, from, to, q, payer)
  BY <1>2, <1>3
<1> HIDE DEF payer, old
<1>5. /\ rows \in [Account -> Row] /\ RowsOK(rows) /\ BalancesSum(rows) = BalancesSum(old)
      /\ \A a \in Account \ {from, to} : rows[a] = old[a]
  BY <1>1, <1>4, MoveFacts
<1>6. QED
  BY <1>2, <1>5 DEF payer, old, Conserved

LEMMA PulledRows ==
    ASSUME IInv, NEW auth, NEW a \in Account, NEW to \in Account, NEW q \in Int,
           CanPullFrozen(xtoken, auth, a, to, q)
    PROVE  LET rows == Move(xtoken.rows, a, to, q, to)
           IN  /\ Conserved(rows)
               /\ \A b \in Account \ {a, to} : rows[b] = xtoken.rows[b]
               /\ a \in xtoken.frozen /\ to \notin xtoken.frozen
               /\ xtoken.freezer \in auth
<1> DEFINE signers == auth \cup {Self}
<1>1. /\ CanMove(xtoken.rows, signers, a, to, q, to) /\ a # to
      /\ a \in xtoken.frozen /\ to \notin xtoken.frozen /\ xtoken.freezer \in auth
  BY DEF CanPullFrozen, IsFrozen, CheckFreezingRequirements
<1>2. xtoken.rows \in [Account -> Row] /\ RowsOK(xtoken.rows)
  BY HolderRows
<1> DEFINE old == xtoken.rows
           payer == to
           rows == Move(old, a, to, q, payer)
<1>3. /\ old \in [Account -> Row] /\ RowsOK(old) /\ a # to
      /\ payer \in Account /\ CanMove(old, signers, a, to, q, payer)
  BY <1>1, <1>2
<1> HIDE DEF signers, old, payer
<1>4. /\ rows \in [Account -> Row] /\ RowsOK(rows) /\ BalancesSum(rows) = BalancesSum(old)
      /\ \A b \in Account \ {a, to} : rows[b] = old[b]
  BY <1>3, MoveFacts
<1>5. QED
  BY <1>1, <1>4 DEF old, payer, Conserved

\* What setlimits leaves in the quotas.
LEMMA SetLimitsTables ==
    ASSUME IInv, NEW b \in Account, NEW m \in Limit, NEW n \in Limit,
           NEW r \in RatesOf(m), NEW t \in RatesOf(n),
           xtoken' = LimitsSet(xtoken, b, m, n, r, t)
    PROVE  /\ xtoken' \in XToken /\ xtoken'.rows = xtoken.rows /\ xtoken'.supply = xtoken.supply
           /\ xtoken'.minting =
                 [xtoken.minting EXCEPT ![b] = LimitChanged(xtoken.minting[b], m, r)]
           /\ xtoken'.burning =
                 [xtoken.burning EXCEPT ![b] = LimitChanged(xtoken.burning[b], n, t)]
<1>1. xtoken \in XToken
  BY IInvParts
<1>2. \A a \in Account : QuotaOK(xtoken.minting[a]) /\ QuotaOK(xtoken.burning[a])
  BY IInvParts DEF Side
<1>3. QED
  BY <1>1, <1>2, LimitsSetFacts

LEMMA SetLimitsStep ==
    ASSUME IInv, NEW auth, NEW b \in Account, NEW m, NEW n, setlimits(auth, b, m, n)
    PROVE  IInv'
<1>1. m \in Limit /\ n \in Limit
  BY DEF setlimits, CanSetLimits
<1>2. PICK r \in RatesOf(m), t \in RatesOf(n) :
        xtoken' = LimitsSet(xtoken, b, m, n, r, t)
  BY DEF setlimits
<1>3. /\ xtoken \in XToken /\ RowsOK(xtoken.rows) /\ AddsUp(xtoken)
      /\ mintedWithin \in History /\ Side(mintedWithin, xtoken.minting)
      /\ burnedWithin \in History /\ Side(burnedWithin, xtoken.burning)
  BY IInvParts
<1>4. xtoken.minting \in [Account -> Quota] /\ xtoken.burning \in [Account -> Quota]
  BY <1>3 DEF XToken
<1>5. /\ xtoken' \in XToken /\ xtoken'.rows = xtoken.rows /\ AddsUp(xtoken')
      /\ xtoken'.minting = [xtoken.minting EXCEPT ![b] = LimitChanged(xtoken.minting[b], m, r)]
      /\ xtoken'.burning = [xtoken.burning EXCEPT ![b] = LimitChanged(xtoken.burning[b], n, t)]
  BY <1>1, <1>2, <1>3, SetLimitsTables DEF AddsUp
<1>6. /\ mintedWithin' = [mintedWithin EXCEPT ![b] = NothingWithin]
      /\ burnedWithin' = [burnedWithin EXCEPT ![b] = NothingWithin]
  BY DEF setlimits
<1> DEFINE minting == xtoken.minting
           burning == xtoken.burning
<1>7. /\ mintedWithin \in History /\ minting \in [Account -> Quota]
      /\ burnedWithin \in History /\ burning \in [Account -> Quota]
      /\ Side(mintedWithin, minting) /\ Side(burnedWithin, burning)
  BY <1>3, <1>4
<1> HIDE DEF minting, burning
<1>8. /\ [mintedWithin EXCEPT ![b] = NothingWithin] \in History
      /\ Side([mintedWithin EXCEPT ![b] = NothingWithin],
              [minting EXCEPT ![b] = LimitChanged(minting[b], m, r)])
  BY <1>1, <1>7, SideChange
<1>9. /\ [burnedWithin EXCEPT ![b] = NothingWithin] \in History
      /\ Side([burnedWithin EXCEPT ![b] = NothingWithin],
              [burning EXCEPT ![b] = LimitChanged(burning[b], n, t)])
  BY <1>1, <1>7, SideChange
<1>10. QED
  BY <1>3, <1>5, <1>6, <1>8, <1>9, IInvPartsNext DEF minting, burning

LEMMA TickStep == IInv /\ Tick => IInv'
<1> SUFFICES ASSUME IInv, Tick PROVE IInv'
  OBVIOUS
<1>1. /\ xtoken \in XToken /\ RowsOK(xtoken.rows) /\ AddsUp(xtoken)
      /\ mintedWithin \in History /\ Side(mintedWithin, xtoken.minting)
      /\ burnedWithin \in History /\ Side(burnedWithin, xtoken.burning)
  BY IInvParts
<1>2. /\ xtoken.minting \in [Account -> Quota] /\ xtoken.burning \in [Account -> Quota]
      /\ \A a \in Account : QuotaOK(xtoken.minting[a]) /\ QuotaOK(xtoken.burning[a])
  BY <1>1 DEF XToken, Side
<1>3. /\ xtoken' \in XToken /\ xtoken'.rows = xtoken.rows /\ AddsUp(xtoken')
      /\ xtoken'.minting = [a \in Account |-> SecondOlder(xtoken.minting[a])]
      /\ xtoken'.burning = [a \in Account |-> SecondOlder(xtoken.burning[a])]
  BY <1>1, <1>2, AllOlderFacts DEF Tick, AddsUp
<1>4. mintedWithin' \in History /\ Side(mintedWithin', xtoken'.minting)
  BY <1>1, <1>2, <1>3, SideSlide DEF Tick
<1>5. burnedWithin' \in History /\ Side(burnedWithin', xtoken'.burning)
  BY <1>1, <1>2, <1>3, SideSlide DEF Tick
<1>6. QED
  BY <1>1, <1>3, <1>4, <1>5, IInvPartsNext

LEMMA HolderIInv == ASSUME IInv, NEW auth \in Signatures, HolderStep(auth) PROVE IInv'
<1>1. ASSUME NEW caller \in Account, NEW to \in Account, NEW q \in Quantities,
             mint(auth, caller, to, q)
      PROVE  IInv'
  BY <1>1, MintStep, InputAssumption
<1>2. ASSUME NEW caller \in Account, NEW q \in Quantities, burn(auth, caller, q)
      PROVE  IInv'
  BY <1>2, BurnStep, InputAssumption
<1>3. ASSUME NEW from \in Account, NEW to \in Account, NEW q \in Quantities,
             transfer(auth, from, to, q)
      PROVE  IInv'
  <2> DEFINE rows == Move(xtoken.rows, from, to, q, TransferPayer(auth, from, to))
  <2>1. q \in Int /\ CanTransfer(xtoken, auth, from, to, q)
    BY <1>3, InputAssumption DEF transfer
  <2>2. Conserved(rows)
    BY <2>1, TransferRows
  <2>3. xtoken' = [xtoken EXCEPT !.rows = rows] /\ UNCHANGED history
    BY <1>3 DEF transfer, Transferred
  <2> HIDE DEF rows
  <2>4. QED
    BY <2>2, <2>3, HoldersStep DEF Conserved
<1>4. ASSUME NEW owner \in Account, NEW ram_payer \in Account, open(auth, owner, ram_payer)
      PROVE  IInv'
  <2> DEFINE rows == Open(xtoken.rows, owner, ram_payer)
  <2>1. /\ rows \in [Account -> Row] /\ RowsOK(rows)
        /\ BalancesSum(rows) = BalancesSum(xtoken.rows)
    BY HolderRows, OpenFacts
  <2>2. xtoken' = [xtoken EXCEPT !.rows = rows] /\ UNCHANGED history
    BY <1>4 DEF open, RowOpened
  <2> HIDE DEF rows
  <2>3. QED
    BY <2>1, <2>2, HoldersStep
<1>5. ASSUME NEW owner \in Account, close(auth, owner) PROVE IInv'
  <2> DEFINE rows == Close(xtoken.rows, owner)
  <2>1. /\ rows \in [Account -> Row] /\ RowsOK(rows)
        /\ BalancesSum(rows) = BalancesSum(xtoken.rows)
    BY <1>5, HolderRows, CloseFacts DEF close, CanCloseRow
  <2>2. xtoken' = [xtoken EXCEPT !.rows = rows] /\ UNCHANGED history
    BY <1>5 DEF close, RowClosed
  <2> HIDE DEF rows
  <2>3. QED
    BY <2>1, <2>2, HoldersStep
<1>6. QED
  BY <1>1, <1>2, <1>3, <1>4, <1>5 DEF HolderStep

\* Actions that set a field that is neither rows nor a quota.
LEMMA FieldChanged ==
    ASSUME NEW x \in XToken
    PROVE  /\ \A l \in AccountOrNone : [x EXCEPT !.lockbox = l] \in XToken
           /\ \A f \in AccountOrNone : [x EXCEPT !.freezer = f] \in XToken
           /\ \A s \in SUBSET Account : [x EXCEPT !.frozen = s] \in XToken
           /\ \A m \in Limit : [x EXCEPT !.maxSupply = m] \in XToken
BY DEF XToken

LEMMA FieldStep ==
    ASSUME IInv, xtoken' \in XToken, xtoken'.rows = xtoken.rows, xtoken'.supply = xtoken.supply,
           xtoken'.minting = xtoken.minting, xtoken'.burning = xtoken.burning,
           UNCHANGED history
    PROVE  IInv'
<1>1. AddsUp(xtoken')
  BY IInvParts DEF AddsUp
<1>2. QED
  BY <1>1, HolderRows, RowsStep

LEMMA OwnerIInv == ASSUME IInv, NEW auth \in Signatures, OwnerStep(auth) PROVE IInv'
<1>1. xtoken \in XToken
  BY IInvParts
<1>2. Account \subseteq AccountOrNone
  BY DEF AccountOrNone
<1>3. ASSUME NEW max \in Supplies, create(auth, max) PROVE IInv'
  <2>1. max \in Limit /\ xtoken' = [xtoken EXCEPT !.maxSupply = max] /\ UNCHANGED history
    BY <1>3, MaxAmountAssumption DEF create, CanCreate, Created, Limit
  <2>2. xtoken' \in XToken
    BY <1>1, <2>1, FieldChanged
  <2>3. /\ xtoken'.rows = xtoken.rows /\ xtoken'.supply = xtoken.supply
        /\ xtoken'.minting = xtoken.minting /\ xtoken'.burning = xtoken.burning
    BY <1>1, <2>1 DEF XToken
  <2>4. QED
    BY <2>1, <2>2, <2>3, FieldStep
<1>4. ASSUME NEW a \in Lockboxes, setlockbox(auth, a) PROVE IInv'
  <2>1. a \in AccountOrNone /\ xtoken' = [xtoken EXCEPT !.lockbox = a] /\ UNCHANGED history
    BY <1>2, <1>4, InputAssumption DEF setlockbox, LockboxSet
  <2>2. xtoken' \in XToken
    BY <1>1, <2>1, FieldChanged
  <2>3. /\ xtoken'.rows = xtoken.rows /\ xtoken'.supply = xtoken.supply
        /\ xtoken'.minting = xtoken.minting /\ xtoken'.burning = xtoken.burning
    BY <1>1, <2>1 DEF XToken
  <2>4. QED
    BY <2>1, <2>2, <2>3, FieldStep
<1>5. ASSUME NEW b \in Bridges, NEW m \in Limits, NEW n \in Limits, setlimits(auth, b, m, n)
      PROVE  IInv'
  BY <1>5, SetLimitsStep, InputAssumption
<1>6. ASSUME NEW a \in Freezers, setfreezeacc(auth, a) PROVE IInv'
  <2>1. a \in AccountOrNone /\ xtoken' = [xtoken EXCEPT !.freezer = a] /\ UNCHANGED history
    BY <1>2, <1>6, InputAssumption DEF setfreezeacc, FreezeAccSet
  <2>2. xtoken' \in XToken
    BY <1>1, <2>1, FieldChanged
  <2>3. /\ xtoken'.rows = xtoken.rows /\ xtoken'.supply = xtoken.supply
        /\ xtoken'.minting = xtoken.minting /\ xtoken'.burning = xtoken.burning
    BY <1>1, <2>1 DEF XToken
  <2>4. QED
    BY <2>1, <2>2, <2>3, FieldStep
<1>7. QED
  BY <1>3, <1>4, <1>5, <1>6 DEF OwnerStep

LEMMA FreezerIInv == ASSUME IInv, NEW auth \in Signatures, FreezerStep(auth) PROVE IInv'
<1>1. xtoken \in XToken
  BY IInvParts
<1>2. ASSUME NEW a \in Account, freeze(auth, a) \/ unfreeze(auth, a) PROVE IInv'
  <2>1. PICK s \in SUBSET Account : xtoken' = [xtoken EXCEPT !.frozen = s]
    <3>1. /\ xtoken.frozen \cup {a} \in SUBSET Account
          /\ xtoken.frozen \ {a} \in SUBSET Account
      BY <1>1 DEF XToken
    <3>2. \/ xtoken' = [xtoken EXCEPT !.frozen = xtoken.frozen \cup {a}]
          \/ xtoken' = [xtoken EXCEPT !.frozen = xtoken.frozen \ {a}]
      BY <1>2 DEF freeze, unfreeze, Frozen, Unfrozen
    <3>3. QED
      BY <3>1, <3>2
  <2>2. UNCHANGED history
    BY <1>2 DEF freeze, unfreeze
  <2>3. xtoken' \in XToken
    BY <1>1, <2>1, FieldChanged
  <2>4. /\ xtoken'.rows = xtoken.rows /\ xtoken'.supply = xtoken.supply
        /\ xtoken'.minting = xtoken.minting /\ xtoken'.burning = xtoken.burning
    BY <1>1, <2>1 DEF XToken
  <2>5. QED
    BY <2>2, <2>3, <2>4, FieldStep
<1>3. ASSUME NEW a \in Account, NEW to \in Account, NEW q \in Pulled,
             pullfrozen(auth, a, to, q)
      PROVE  IInv'
  <2> DEFINE rows == Move(xtoken.rows, a, to, q, to)
  <2>1. q \in Int /\ CanPullFrozen(xtoken, auth, a, to, q)
    BY <1>3, InputAssumption DEF pullfrozen
  <2>2. Conserved(rows)
    BY <2>1, PulledRows
  <2>3. xtoken' = [xtoken EXCEPT !.rows = rows] /\ UNCHANGED history
    BY <1>3 DEF pullfrozen, FrozenPulled
  <2> HIDE DEF rows
  <2>4. QED
    BY <2>2, <2>3, HoldersStep DEF Conserved
<1>4. QED
  BY <1>2, <1>3 DEF FreezerStep

LEMMA StepIInv == IInv /\ [Next]_vars => IInv'
<1> SUFFICES ASSUME IInv, [Next]_vars PROVE IInv'
  OBVIOUS
<1>1. ASSUME NEW auth \in Signatures, HolderStep(auth) PROVE IInv'
  BY <1>1, HolderIInv
<1>2. ASSUME NEW auth \in Signatures, OwnerStep(auth) PROVE IInv'
  BY <1>2, OwnerIInv
<1>3. ASSUME NEW auth \in Signatures, FreezerStep(auth) PROVE IInv'
  BY <1>3, FreezerIInv
<1>4. CASE Tick
  BY <1>4, TickStep
<1>5. CASE UNCHANGED vars
  BY <1>5, IInvParts, IInvPartsNext DEF vars, history
<1>6. QED
  BY <1>1, <1>2, <1>3, <1>4, <1>5 DEF Next

LEMMA Invariance == Spec => []IInv
BY InitIInv, StepIInv, PTL DEF Spec

-----------------------------------------------------------------------------
\* Rows, supply, quotas and history have their types in every reachable state
\* (the tables of xerc20.token.hpp).
THEOREM TypeCorrect == Spec => []TypeOK
<1>1. IInv => TypeOK
  BY DEF IInv
<1>2. QED
  BY <1>1, Invariance, PTL

\* The bookkeeping of every bridge is in order in both directions, for every
\* duration and every error of the float rates (get_current_limit).
THEOREM QuotaSafety == Spec => []QuotaInvariant
<1>1. IInv => QuotaInvariant
  BY DEF IInv
<1>2. QED
  BY <1>1, Invariance, PTL

\* The balances add up to the supply in every reachable state, for every set of
\* accounts and every range of assets: no action but mint and burn creates or
\* destroys tokens (add_balance, sub_balance, open, close, pullfrozen).
THEOREM SupplySafety == Spec => []SupplyIsSumOfBalances
<1>1. IInv => SupplyIsSumOfBalances
  BY DEF IInv
<1>2. QED
  BY <1>1, Invariance, PTL

\* What a bridge used, given the invariant of one direction.
LEMMA WindowFacts ==
    ASSUME NEW q \in Quota, QuotaOK(q), NEW w \in [Window -> Nat], HistoryOK(w, q),
           NEW k \in Window
    PROVE  w[k] <= q.max + k * q.rate
<1>1. CurrentLimit(q) \in Nat /\ q.max \in Nat /\ q.rate \in Nat
  BY CurrentLimitBounds, QuotaTypes DEF QuotaOK
<1>2. w[k] + CurrentLimit(q) <= q.max + k * q.rate /\ w[k] \in Nat
  BY DEF HistoryOK
<1>3. k * q.rate \in Nat
  BY <1>1, DurationAssumption DEF Window
<1>4. QED
  BY <1>1, <1>2, <1>3

\* In any stretch of at most a day a bridge mints, and burns, at most its
\* maximum and what refilled meanwhile (use_minter_limits, use_burner_limits).
THEOREM WindowSafety == Spec => []WindowBound
<1>1. IInv => WindowBound
  <2> SUFFICES ASSUME IInv, NEW b \in Account, NEW k \in Window
               PROVE  /\ mintedWithin[b][k] <= xtoken.minting[b].max + k * xtoken.minting[b].rate
                      /\ burnedWithin[b][k] <= xtoken.burning[b].max + k * xtoken.burning[b].rate
    BY DEF WindowBound
  <2> DEFINE p == xtoken.minting[b]
             q == xtoken.burning[b]
  <2>1. /\ p \in Quota /\ QuotaOK(p) /\ HistoryOK(mintedWithin[b], p)
        /\ q \in Quota /\ QuotaOK(q) /\ HistoryOK(burnedWithin[b], q)
        /\ mintedWithin[b] \in [Window -> Nat] /\ burnedWithin[b] \in [Window -> Nat]
    BY DEF IInv, TypeOK, QuotaInvariant, XToken
  <2> HIDE DEF p, q
  <2>2. mintedWithin[b][k] <= p.max + k * p.rate
    BY <2>1, WindowFacts
  <2>3. burnedWithin[b][k] <= q.max + k * q.rate
    BY <2>1, WindowFacts
  <2>4. QED
    BY <2>2, <2>3 DEF p, q
<1>2. QED
  BY <1>1, Invariance, PTL

\* A limit below half of what an asset holds can be read at every moment: the
\* actions of its bridge never stop at the asset's range (get_current_limit).
THEOREM ReadableSafety == Spec => []SmallLimitsReadable
<1>1. IInv => SmallLimitsReadable
  <2> SUFFICES ASSUME IInv, NEW b \in Account
               PROVE  /\ 2 * xtoken.minting[b].max + RateError <= MaxAmount =>
                            IsReadable(xtoken.minting[b])
                      /\ 2 * xtoken.burning[b].max + RateError <= MaxAmount =>
                            IsReadable(xtoken.burning[b])
    BY DEF SmallLimitsReadable
  <2>1. /\ xtoken.minting[b] \in Quota /\ QuotaOK(xtoken.minting[b])
        /\ xtoken.burning[b] \in Quota /\ QuotaOK(xtoken.burning[b])
    BY DEF IInv, TypeOK, QuotaInvariant, XToken
  <2>2. QED
    BY <2>1, SmallReadable
<1>2. QED
  BY <1>1, Invariance, PTL

\* When the owner changes a maximum, what the bridge had spent of the old one
\* stays spent, up to the new one (calculate_new_current_limit).
THEOREM SpentSafety == Spec => SpentStaysSpent
<1>1. ASSUME IInv, NEW auth \in Signatures, NEW b \in Bridges, NEW m \in Limits, NEW n \in Limits,
             setlimits(auth, b, m, n)
      PROVE  LET spent == xtoken.minting[b].max - CurrentLimit(xtoken.minting[b])
             IN  m - CurrentLimit(xtoken'.minting[b]) = IF spent < m THEN spent ELSE m
  <2>1. b \in Account /\ m \in Limit /\ n \in Limit
    BY <1>1, InputAssumption DEF setlimits, CanSetLimits
  <2>2. PICK r \in RatesOf(m), t \in RatesOf(n) :
          xtoken' = LimitsSet(xtoken, b, m, n, r, t)
    BY <1>1 DEF setlimits
  <2>3. /\ xtoken \in XToken /\ xtoken.minting \in [Account -> Quota]
        /\ \A a \in Account : QuotaOK(xtoken.minting[a]) /\ QuotaOK(xtoken.burning[a])
    BY <1>1 DEF IInv, TypeOK, QuotaInvariant, XToken
  <2>4. xtoken'.minting = [xtoken.minting EXCEPT ![b] = LimitChanged(xtoken.minting[b], m, r)]
    BY <1>1, <2>1, <2>2, SetLimitsTables
  <2> DEFINE q == xtoken.minting[b]
  <2>5. q \in Quota /\ QuotaOK(q) /\ xtoken'.minting[b] = LimitChanged(q, m, r)
    BY <2>1, <2>3, <2>4
  <2> HIDE DEF q
  <2>6. m - CurrentLimit(LimitChanged(q, m, r)) =
           IF q.max - CurrentLimit(q) < m THEN q.max - CurrentLimit(q) ELSE m
    BY <2>1, <2>5, LimitChangedFacts
  <2>7. QED
    BY <2>5, <2>6 DEF q
<1> DEFINE A == \A auth \in Signatures, b \in Bridges, m, n \in Limits :
                   setlimits(auth, b, m, n) =>
                      LET spent == xtoken.minting[b].max - CurrentLimit(xtoken.minting[b])
                      IN  m - CurrentLimit(xtoken'.minting[b]) = IF spent < m THEN spent ELSE m
<1>2. IInv => A
  BY <1>1
<1> HIDE DEF A
<1>3. IInv /\ [Next]_vars => [A]_vars
  BY <1>2
<1>4. Spec => [][A]_vars
  BY <1>3, Invariance, PTL DEF Spec
<1>5. QED
  BY <1>4 DEF SpentStaysSpent, A

\* What mints, burns, transfers and rows do to an account that neither calls
\* as a bridge or the lockbox nor may send.
LEMMA HolderKeeps ==
    ASSUME IInv, NEW auth \in Signatures, HolderStep(auth),
           NEW a \in Account, a \in xtoken.frozen, a \notin xtoken.bridges \cup {xtoken.lockbox}
    PROVE  xtoken'.rows[a].balance >= xtoken.rows[a].balance
<1>1. /\ xtoken \in XToken /\ xtoken.rows \in [Account -> Row] /\ RowsOK(xtoken.rows)
      /\ AddsUp(xtoken) /\ xtoken.rows[a].balance \in Int
  BY IInvParts, HolderRows, BalanceInt
<1>2. ASSUME NEW caller \in Account, NEW to \in Account, NEW q \in Quantities,
             mint(auth, caller, to, q)
      PROVE  xtoken'.rows[a].balance >= xtoken.rows[a].balance
  <2>1. \A b \in Account : QuotaOK(xtoken.minting[b])
    BY DEF IInv, QuotaInvariant
  <2>2. q \in Int /\ CanMint(xtoken, auth, caller, to, q)
    BY <1>2, InputAssumption DEF mint
  <2>3. xtoken \in XToken /\ RowsOK(xtoken.rows) /\ AddsUp(xtoken)
    BY <1>1
  <2>4. Minted(xtoken, caller, to, q).rows[a].balance >= xtoken.rows[a].balance
    BY <2>1, <2>2, <2>3, MintedFacts DEF MintOK
  <2>5. QED
    BY <1>2, <2>4 DEF mint
<1>3. ASSUME NEW caller \in Account, NEW q \in Quantities, burn(auth, caller, q)
      PROVE  xtoken'.rows[a].balance >= xtoken.rows[a].balance
  <2>1. \A b \in Account : QuotaOK(xtoken.burning[b])
    BY DEF IInv, QuotaInvariant
  <2>2. q \in Int /\ CanBurn(xtoken, auth, caller, q)
    BY <1>3, InputAssumption DEF burn
  <2>3. xtoken \in XToken /\ RowsOK(xtoken.rows)
    BY <1>1
  <2>4. caller \in xtoken.bridges \cup {xtoken.lockbox}
    BY <2>2 DEF CanBurn, MayUse
  <2>5. Burned(xtoken, caller, q).rows[a] = xtoken.rows[a]
    <3> DEFINE rows == SubBalance(xtoken.rows, caller, q)
    <3>1. CanSubBalance(xtoken.rows, auth, caller, q) /\ a # caller
      BY <2>2, <2>4 DEF CanBurn
    <3>2. rows \in [Account -> Row] /\ rows[a] = xtoken.rows[a]
      BY <1>1, <2>2, <3>1, SubFacts
    <3> HIDE DEF rows
    <3>3. Burned(xtoken, caller, q).rows = rows
      BY <1>1 DEF Burned, XToken, rows
    <3>4. QED
      BY <3>2, <3>3
  <2>6. QED
    BY <1>1, <1>3, <2>5 DEF burn
<1>4. ASSUME NEW from \in Account, NEW to \in Account, NEW q \in Quantities,
             transfer(auth, from, to, q)
      PROVE  xtoken'.rows[a].balance >= xtoken.rows[a].balance
  <2> DEFINE rows == Move(xtoken.rows, from, to, q, TransferPayer(auth, from, to))
  <2>1. q \in Int /\ CanTransfer(xtoken, auth, from, to, q)
    BY <1>4, InputAssumption DEF transfer
  <2>2. Conserved(rows) /\ \A b \in Account \ {from, to} : rows[b] = xtoken.rows[b]
    BY <2>1, TransferRows
  <2>3. xtoken' = [xtoken EXCEPT !.rows = rows]
    BY <1>4 DEF transfer, Transferred
  <2> HIDE DEF rows
  <2>4. xtoken'.rows = rows
    BY <1>1, <2>2, <2>3, RowsChanged DEF Conserved
  <2>5. a # from /\ a # to
    BY <2>1 DEF CanTransfer, IsFrozen
  <2>6. QED
    BY <1>1, <2>2, <2>4, <2>5
<1>5. ASSUME NEW owner \in Account, NEW ram_payer \in Account, open(auth, owner, ram_payer)
      PROVE  xtoken'.rows[a].balance >= xtoken.rows[a].balance
  <2> DEFINE rows == Open(xtoken.rows, owner, ram_payer)
  <2>1. rows \in [Account -> Row] /\ rows[a].balance = xtoken.rows[a].balance
    BY HolderRows, OpenFacts
  <2>2. xtoken' = [xtoken EXCEPT !.rows = rows]
    BY <1>5 DEF open, RowOpened
  <2> HIDE DEF rows
  <2>3. xtoken'.rows = rows
    BY <1>1, <2>1, <2>2, RowsChanged
  <2>4. QED
    BY <1>1, <2>1, <2>3
<1>6. ASSUME NEW owner \in Account, close(auth, owner)
      PROVE  xtoken'.rows[a].balance >= xtoken.rows[a].balance
  <2> DEFINE rows == Close(xtoken.rows, owner)
  <2>1. rows \in [Account -> Row] /\ rows[a].balance = xtoken.rows[a].balance
    BY <1>6, HolderRows, CloseFacts DEF close, CanCloseRow
  <2>2. xtoken' = [xtoken EXCEPT !.rows = rows]
    BY <1>6 DEF close, RowClosed
  <2> HIDE DEF rows
  <2>3. xtoken'.rows = rows
    BY <1>1, <2>1, <2>2, RowsChanged
  <2>4. QED
    BY <1>1, <2>1, <2>3
<1>7. QED
  BY <1>2, <1>3, <1>4, <1>5, <1>6 DEF HolderStep

\* The owner's actions, time, freezing and thawing move no tokens.
LEMMA OthersKeep ==
    ASSUME IInv, NEW auth \in Signatures
    PROVE  /\ OwnerStep(auth) => xtoken'.rows = xtoken.rows
           /\ \A a \in Account : freeze(auth, a) \/ unfreeze(auth, a) =>
                 xtoken'.rows = xtoken.rows
           /\ Tick => xtoken'.rows = xtoken.rows
<1>1. xtoken \in XToken
  BY IInvParts
<1>2. OwnerStep(auth) => xtoken'.rows = xtoken.rows
  BY <1>1 DEF OwnerStep, create, Created, setlockbox, LockboxSet, setlimits, LimitsSet,
              setfreezeacc, FreezeAccSet, XToken
<1>3. \A a \in Account : freeze(auth, a) \/ unfreeze(auth, a) => xtoken'.rows = xtoken.rows
  BY <1>1 DEF freeze, unfreeze, Frozen, Unfrozen, XToken
<1>4. Tick => xtoken'.rows = xtoken.rows
  BY <1>1 DEF Tick, AllOlder, XToken
<1>5. QED
  BY <1>2, <1>3, <1>4

\* While an account is frozen its tokens leave it only pulled by the freezing
\* account, or burned by itself as a bridge or the lockbox (is_frozen).
THEOREM FrozenSafety == Spec => FrozenTokensStay
<1> DEFINE Kept(a) == xtoken'.rows[a].balance >= xtoken.rows[a].balance
           WasPulled(a) == \E auth \in Signatures, to \in Account, q \in Pulled :
                              xtoken.freezer \in auth /\ pullfrozen(auth, a, to, q)
<1>1. ASSUME IInv, Next, NEW a \in xtoken.frozen \ (xtoken.bridges \cup {xtoken.lockbox})
      PROVE  Kept(a) \/ WasPulled(a)
  <2>1. /\ xtoken \in XToken /\ a \in Account /\ xtoken.rows \in [Account -> Row]
        /\ xtoken.rows[a].balance \in Int
    BY <1>1, IInvParts, BalanceInt DEF XToken
  <2>2. ASSUME xtoken'.rows = xtoken.rows PROVE Kept(a)
    BY <2>1, <2>2
  <2>3. CASE Tick
    BY <1>1, <2>2, <2>3, OthersKeep DEF Tick, AllOlder
  <2>4. ASSUME NEW auth \in Signatures, HolderStep(auth) PROVE Kept(a)
    BY <1>1, <2>1, <2>4, HolderKeeps
  <2>5. ASSUME NEW auth \in Signatures, OwnerStep(auth) PROVE Kept(a)
    BY <1>1, <2>2, <2>5, OthersKeep
  <2>6. ASSUME NEW auth \in Signatures, NEW b \in Account, freeze(auth, b) \/ unfreeze(auth, b)
        PROVE  Kept(a)
    BY <1>1, <2>2, <2>6, OthersKeep
  <2>7. ASSUME NEW auth \in Signatures, NEW b \in Account, NEW to \in Account, NEW q \in Pulled,
               pullfrozen(auth, b, to, q)
        PROVE  Kept(a) \/ WasPulled(a)
    <3> DEFINE rows == Move(xtoken.rows, b, to, q, to)
    <3>1. q \in Int /\ CanPullFrozen(xtoken, auth, b, to, q)
      BY <2>7, InputAssumption DEF pullfrozen
    <3>2. /\ Conserved(rows) /\ xtoken.freezer \in auth /\ to \notin xtoken.frozen
          /\ \A c \in Account \ {b, to} : rows[c] = xtoken.rows[c]
      BY <1>1, <3>1, PulledRows
    <3>3. xtoken' = [xtoken EXCEPT !.rows = rows]
      BY <2>7 DEF pullfrozen, FrozenPulled
    <3> HIDE DEF rows
    <3>4. xtoken'.rows = rows
      BY <2>1, <3>2, <3>3, RowsChanged DEF Conserved
    <3>5. CASE a = b
      BY <2>7, <3>2, <3>5
    <3>6. CASE a # b
      <4>1. rows[a] = xtoken.rows[a]
        BY <1>1, <2>1, <3>2, <3>6
      <4>2. QED
        BY <2>1, <3>4, <4>1
    <3>7. QED
      BY <3>5, <3>6
  <2>8. QED
    BY <1>1, <2>3, <2>4, <2>5, <2>6, <2>7 DEF Next, FreezerStep
<1> DEFINE A == \A a \in xtoken.frozen \ (xtoken.bridges \cup {xtoken.lockbox}) :
                   \/ xtoken'.rows[a].balance >= xtoken.rows[a].balance
                   \/ \E auth \in Signatures, to \in Account, q \in Pulled :
                         xtoken.freezer \in auth /\ pullfrozen(auth, a, to, q)
<1>2. IInv /\ Next => A
  BY <1>1
<1> HIDE DEF A
<1>3. IInv /\ [Next]_vars => [A]_vars
  BY <1>2
<1>4. Spec => [][A]_vars
  BY <1>3, Invariance, PTL DEF Spec
<1>5. QED
  BY <1>4 DEF FrozenTokensStay, A

-----------------------------------------------------------------------------
(***************************************************************************)
(* The underlying token.                                                   *)
(***************************************************************************)

\* Its code is the same text as the xERC20 token's.
LEMMA SameRows ==
    ASSUME NEW rows, NEW auth, NEW a, NEW b, NEW v, NEW p
    PROVE  /\ I!CanSubBalance(rows, auth, a, v) <=> CanSubBalance(rows, auth, a, v)
           /\ I!SubBalance(rows, a, v) = SubBalance(rows, a, v)
           /\ I!CanAddBalance(rows, auth, a, v, p) <=> CanAddBalance(rows, auth, a, v, p)
           /\ I!AddBalance(rows, a, v, p) = AddBalance(rows, a, v, p)
           /\ I!CanMove(rows, auth, a, b, v, p) <=> CanMove(rows, auth, a, b, v, p)
           /\ I!Move(rows, a, b, v, p) = Move(rows, a, b, v, p)
<1>1. I!Amount = Amount /\ (I!HasRow(rows, a) <=> HasRow(rows, a))
  BY DEF I!Amount, Amount, I!HasRow, HasRow
<1>2. /\ I!CanSubBalance(rows, auth, a, v) <=> CanSubBalance(rows, auth, a, v)
      /\ \A r, o : I!SubBalance(r, o, v) = SubBalance(r, o, v)
      /\ \A o : I!CanAddBalance(rows, auth, o, v, p) <=> CanAddBalance(rows, auth, o, v, p)
      /\ \A r, o : I!AddBalance(r, o, v, p) = AddBalance(r, o, v, p)
  BY <1>1 DEF I!CanSubBalance, CanSubBalance, I!SubBalance, SubBalance, I!CanAddBalance,
              CanAddBalance, I!AddBalance, AddBalance, I!HasRow, HasRow
<1>3. QED
  BY <1>2 DEF I!CanMove, CanMove, I!Move, Move

LEMMA SameOpenAndClose ==
    ASSUME NEW rows, NEW auth, NEW a, NEW p
    PROVE  /\ I!Open(rows, a, p) = Open(rows, a, p)
           /\ I!CanClose(rows, auth, a) <=> CanClose(rows, auth, a)
           /\ I!Close(rows, a) = Close(rows, a)
BY DEF I!Open, Open, I!CanClose, CanClose, I!Close, Close, I!HasRow, HasRow, I!NoRow, NoRow

LEMMA SameSums == ASSUME NEW rows PROVE I!BalancesSum(rows) = BalancesSum(rows)
BY DEF I!BalancesSum, BalancesSum,
       SumFunctionOnSet, FoldFunctionOnSet, MapThenFoldSet,
       I!SumFunctionOnSet, I!FoldFunctionOnSet, I!MapThenFoldSet

\* What holds of the tables in every reachable state.  The issuer need not be an
\* account that exists: create does not look it up.
Tokens ==
    [rows: [Account -> Row], supply: Amount, maxSupply: 0 .. MaxAmount,
     issuer: AccountOrNone \cup Issuers]

NobodyOwes(rows) == \A a \in Account : rows[a].balance >= 0

TokenInv(t) ==
    /\ t \in Tokens /\ RowsOK(t.rows) /\ AddsUp(t)
    /\ NobodyOwes(t.rows) /\ t.supply <= t.maxSupply

\* Rows that may replace others when the supply grows by v: nobody owes tokens
\* and who did not sign has lost nothing.
Follows(rows, before, v, auth) ==
    /\ rows \in [Account -> Row] /\ RowsOK(rows) /\ NobodyOwes(rows)
    /\ BalancesSum(rows) = BalancesSum(before) + v
    /\ \A a \in Account \ auth : rows[a].balance >= before[a].balance

LEMMA RowsFollow ==
    ASSUME NEW t, TokenInv(t), NEW rows, NEW v \in Int, NEW auth,
           Follows(rows, t.rows, v, auth), t.supply + v \in Amount,
           t.supply + v <= t.maxSupply
    PROVE  /\ TokenInv([t EXCEPT !.supply = t.supply + v, !.rows = rows])
           /\ [t EXCEPT !.supply = t.supply + v, !.rows = rows].rows = rows
<1> DEFINE w == t.supply + v
           n == [t EXCEPT !.supply = w, !.rows = rows]
<1>1. /\ t \in Tokens /\ rows \in [Account -> Row] /\ w \in Amount /\ w <= t.maxSupply
      /\ BalancesSum(rows) = w
  BY DEF TokenInv, Follows, AddsUp
<1> HIDE DEF w
<1>2. n \in Tokens /\ n.rows = rows /\ n.supply = w /\ n.maxSupply = t.maxSupply
  BY <1>1 DEF Tokens
<1> HIDE DEF n
<1>3. TokenInv(n) /\ n.rows = rows
  BY <1>1, <1>2 DEF TokenInv, Follows, AddsUp
<1>4. QED
  BY <1>3 DEF n, w

LEMMA HoldersFollow ==
    ASSUME NEW t, TokenInv(t), NEW rows, NEW auth, Follows(rows, t.rows, 0, auth)
    PROVE  TokenInv([t EXCEPT !.rows = rows]) /\ [t EXCEPT !.rows = rows].rows = rows
<1> DEFINE n == [t EXCEPT !.rows = rows]
<1>1. t \in Tokens /\ rows \in [Account -> Row]
  BY DEF TokenInv, Follows
<1>2. n \in Tokens /\ n.rows = rows /\ n.supply = t.supply /\ n.maxSupply = t.maxSupply
  BY <1>1 DEF Tokens
<1>3. BalancesSum(t.rows) = t.supply /\ BalancesSum(rows) = BalancesSum(t.rows) + 0
  BY DEF TokenInv, Follows, AddsUp
<1>4. t.supply \in Int
  BY <1>1, MaxAmountAssumption DEF Tokens, Amount
<1> HIDE DEF n
<1>5. AddsUp(n)
  BY <1>2, <1>3, <1>4 DEF AddsUp
<1>6. TokenInv(n) /\ n.rows = rows
  BY <1>1, <1>2, <1>5 DEF TokenInv, Follows
<1>7. QED
  BY <1>6 DEF n

\* A credit.
LEMMA AddFollows ==
    ASSUME NEW rows \in [Account -> Row], RowsOK(rows), NobodyOwes(rows), NEW auth,
           NEW owner \in Account, NEW value \in Nat, NEW payer \in Account,
           rows[owner].balance + value \in Amount
    PROVE  Follows(AddBalance(rows, owner, value, payer), rows, value, auth)
<1> DEFINE after == AddBalance(rows, owner, value, payer)
<1>1. /\ after \in [Account -> Row] /\ RowsOK(after)
      /\ BalancesSum(after) = BalancesSum(rows) + value
      /\ after[owner].balance = rows[owner].balance + value
      /\ \A a \in Account \ {owner} : after[a] = rows[a]
  BY AddFacts
<1> HIDE DEF after
<1>2. ASSUME NEW a \in Account
      PROVE  after[a].balance >= rows[a].balance /\ after[a].balance >= 0
  <2>1. rows[a].balance \in Int /\ rows[a].balance >= 0
    BY BalanceInt DEF NobodyOwes
  <2>2. CASE a = owner
    BY <1>1, <2>1, <2>2
  <2>3. CASE a # owner
    BY <1>1, <2>1, <2>3
  <2>4. QED
    BY <2>2, <2>3
<1>3. QED
  BY <1>1, <1>2 DEF Follows, NobodyOwes, after

\* A debit, signed by its owner.
LEMMA SubFollows ==
    ASSUME NEW rows \in [Account -> Row], RowsOK(rows), NobodyOwes(rows), NEW auth,
           NEW owner \in Account, owner \in auth, NEW value \in Int,
           CanSubBalance(rows, auth, owner, value)
    PROVE  Follows(SubBalance(rows, owner, value), rows, 0 - value, auth)
<1> DEFINE after == SubBalance(rows, owner, value)
<1>1. /\ after \in [Account -> Row] /\ RowsOK(after)
      /\ BalancesSum(after) = BalancesSum(rows) - value
      /\ after[owner].balance = rows[owner].balance - value
      /\ \A a \in Account \ {owner} : after[a] = rows[a]
  BY SubFacts
<1>2. rows[owner].balance >= value
  BY DEF CanSubBalance
<1> HIDE DEF after
<1>3. ASSUME NEW a \in Account
      PROVE  /\ a \notin auth => after[a].balance >= rows[a].balance
             /\ after[a].balance >= 0
  <2>1. rows[a].balance \in Int /\ rows[a].balance >= 0
    BY BalanceInt DEF NobodyOwes
  <2>2. CASE a = owner
    BY <1>1, <1>2, <2>1, <2>2
  <2>3. CASE a # owner
    BY <1>1, <2>1, <2>3
  <2>4. QED
    BY <2>2, <2>3
<1>4. BalancesSum(after) = BalancesSum(rows) + (0 - value)
  BY <1>1, BalancesSumInt
<1>5. QED
  BY <1>1, <1>3, <1>4 DEF Follows, NobodyOwes, after

\* A transfer, signed by its sender.
LEMMA MoveFollows ==
    ASSUME NEW rows \in [Account -> Row], RowsOK(rows), NobodyOwes(rows), NEW auth,
           NEW from \in Account, NEW to \in Account, from # to, from \in auth,
           NEW value \in Nat, NEW payer \in Account, CanMove(rows, auth, from, to, value, payer)
    PROVE  Follows(Move(rows, from, to, value, payer), rows, 0, auth)
<1> DEFINE after == Move(rows, from, to, value, payer)
<1>1. value \in Int
  OBVIOUS
<1>2. /\ after \in [Account -> Row] /\ RowsOK(after)
      /\ BalancesSum(after) = BalancesSum(rows)
      /\ after[from].balance = rows[from].balance - value
      /\ after[to].balance = rows[to].balance + value
      /\ \A a \in Account \ {from, to} : after[a] = rows[a]
  BY <1>1, MoveFacts
<1>3. rows[from].balance >= value
  BY DEF CanMove, CanSubBalance
<1> HIDE DEF after
<1>4. ASSUME NEW a \in Account
      PROVE  /\ a \notin auth => after[a].balance >= rows[a].balance
             /\ after[a].balance >= 0
  <2>1. rows[a].balance \in Int /\ rows[a].balance >= 0
    BY BalanceInt DEF NobodyOwes
  <2>2. CASE a = from
    BY <1>2, <1>3, <2>1, <2>2
  <2>3. CASE a = to
    BY <1>2, <2>1, <2>3
  <2>4. CASE a \notin {from, to}
    BY <1>2, <2>1, <2>4
  <2>5. QED
    BY <2>2, <2>3, <2>4
<1>5. BalancesSum(after) = BalancesSum(rows) + 0
  BY <1>2, BalancesSumInt
<1>6. QED
  BY <1>2, <1>4, <1>5 DEF Follows, NobodyOwes, after

\* Rows whose balances are the same.
LEMMA SameFollows ==
    ASSUME NEW rows \in [Account -> Row], RowsOK(rows), NobodyOwes(rows), NEW auth,
           NEW after \in [Account -> Row], RowsOK(after), BalancesSum(after) = BalancesSum(rows),
           \A a \in Account : after[a].balance = rows[a].balance
    PROVE  Follows(after, rows, 0, auth)
<1>1. \A a \in Account : rows[a].balance \in Int /\ rows[a].balance >= 0
  BY BalanceInt DEF NobodyOwes
<1>2. BalancesSum(after) = BalancesSum(rows) + 0
  BY BalancesSumInt
<1>3. QED
  BY <1>1, <1>2 DEF Follows, NobodyOwes

\* What a step leaves: the invariant, and every account that did not sign it at
\* least what it had.
Kept(auth) ==
    /\ TokenInv(token')
    /\ \A a \in Account \ auth : token'.rows[a].balance >= token.rows[a].balance

LEMMA TokenTypes ==
    ASSUME TokenInv(token)
    PROVE  /\ token \in Tokens /\ token.rows \in [Account -> Row] /\ RowsOK(token.rows)
           /\ NobodyOwes(token.rows) /\ AddsUp(token) /\ token.supply \in Amount
           /\ token.supply \in Int /\ token.maxSupply \in Nat /\ token.maxSupply <= MaxAmount
           /\ token.supply <= token.maxSupply
BY MaxAmountAssumption DEF TokenInv, Tokens, Amount

LEMMA CreateKept ==
    ASSUME TokenInv(token), NEW auth, NEW i \in Issuers, NEW max, I!create(auth, i, max)
    PROVE  Kept(auth)
<1>1. /\ max \in 1 .. MaxAmount /\ token.maxSupply = 0
      /\ token' = [token EXCEPT !.maxSupply = max, !.issuer = i]
  BY DEF I!create, I!CanCreate, I!Created
<1>2. token \in Tokens /\ token.supply \in Int /\ token.supply <= 0
  BY <1>1, TokenTypes
<1>3. max \in 0 .. MaxAmount /\ max \in Int /\ max >= 1 /\ i \in AccountOrNone \cup Issuers
  BY <1>1, MaxAmountAssumption
<1>4. /\ token' \in Tokens /\ token'.rows = token.rows /\ token'.supply = token.supply
      /\ token'.maxSupply = max
  BY <1>1, <1>2, <1>3 DEF Tokens
<1>5. token'.supply <= token'.maxSupply
  BY <1>2, <1>3, <1>4
<1>6. TokenInv(token')
  BY <1>4, <1>5 DEF TokenInv, AddsUp
<1>7. \A a \in Account : token.rows[a].balance \in Int
  BY TokenTypes, BalanceInt
<1>8. QED
  BY <1>4, <1>6, <1>7 DEF Kept

LEMMA IssueKept ==
    ASSUME TokenInv(token), NEW auth \in SUBSET Account, NEW to, NEW q, I!issue(auth, to, q)
    PROVE  Kept(auth)
<1> DEFINE rows == AddBalance(token.rows, token.issuer, q, token.issuer)
<1>1. /\ token.issuer \in Account /\ q \in 1 .. token.maxSupply - token.supply
      /\ I!CanAddBalance(token.rows, auth, token.issuer, q, token.issuer)
      /\ token' = [token EXCEPT !.supply = token.supply + q,
                               !.rows = I!AddBalance(token.rows, token.issuer, q, token.issuer)]
  BY DEF I!issue, I!CanIssue, I!Issued
<1>2. /\ q \in Nat /\ q \in Int /\ token.supply + q \in Amount
      /\ token.supply + q <= token.maxSupply
  <2> DEFINE s == token.supply
             m == token.maxSupply
  <2>1. s \in Int /\ s \in -MaxAmount .. MaxAmount /\ m \in Nat /\ m <= MaxAmount
    BY TokenTypes DEF Amount
  <2>2. q \in 1 .. m - s
    BY <1>1
  <2> HIDE DEF s, m
  <2>3. q \in Nat /\ s + q \in -MaxAmount .. MaxAmount /\ s + q <= m
    BY <2>1, <2>2, MaxAmountAssumption
  <2>4. QED
    BY <2>3 DEF s, m, Amount
<1>3. token.rows[token.issuer].balance + q \in Amount
  BY <1>1, SameRows DEF CanAddBalance
<1>4. Follows(rows, token.rows, q, auth)
  BY <1>1, <1>2, <1>3, TokenTypes, AddFollows
<1>5. token' = [token EXCEPT !.supply = token.supply + q, !.rows = rows]
  BY <1>1, SameRows
<1> HIDE DEF rows
<1>6. TokenInv(token') /\ token'.rows = rows
  BY <1>2, <1>4, <1>5, RowsFollow
<1>7. QED
  BY <1>4, <1>6 DEF Kept, Follows

LEMMA RetireKept ==
    ASSUME TokenInv(token), NEW auth \in SUBSET Account, NEW q, I!retire(auth, q)
    PROVE  Kept(auth)
<1> DEFINE rows == SubBalance(token.rows, token.issuer, q)
           v == 0 - q
<1>1. /\ token.issuer \in Account /\ token.issuer \in auth /\ q \in 1 .. MaxAmount
      /\ token.supply - q \in Amount
      /\ I!CanSubBalance(token.rows, auth, token.issuer, q)
      /\ token' = [token EXCEPT !.supply = token.supply - q,
                               !.rows = I!SubBalance(token.rows, token.issuer, q)]
  BY DEF I!retire, I!CanRetire, I!Retired, I!Amount, Amount
<1>2. /\ q \in Int /\ v \in Int /\ token.supply + v = token.supply - q
      /\ token.supply + v <= token.maxSupply
  BY <1>1, TokenTypes, MaxAmountAssumption
<1>3. CanSubBalance(token.rows, auth, token.issuer, q)
  BY <1>1, SameRows
<1>4. Follows(rows, token.rows, v, auth)
  BY <1>1, <1>2, <1>3, TokenTypes, SubFollows
<1>5. token' = [token EXCEPT !.supply = token.supply + v, !.rows = rows]
  BY <1>1, <1>2, SameRows
<1>6. token.supply + v \in Amount
  BY <1>1, <1>2
<1> HIDE DEF rows, v
<1>7. TokenInv(token') /\ token'.rows = rows
  BY <1>2, <1>4, <1>5, <1>6, RowsFollow
<1>8. QED
  BY <1>4, <1>7 DEF Kept, Follows

\* Actions that change the rows only.
LEMMA HoldersKept ==
    ASSUME TokenInv(token), NEW auth, NEW rows, Follows(rows, token.rows, 0, auth),
           token' = [token EXCEPT !.rows = rows]
    PROVE  Kept(auth)
<1>1. TokenInv(token') /\ token'.rows = rows
  BY HoldersFollow
<1>2. QED
  BY <1>1 DEF Kept, Follows

LEMMA SendKept ==
    ASSUME TokenInv(token), NEW auth, NEW from \in Account, NEW to \in Account, NEW q,
           I!transfer(auth, from, to, q)
    PROVE  Kept(auth)
<1> DEFINE payer == I!TransferPayer(auth, from, to)
           old == token.rows
           rows == Move(old, from, to, q, payer)
<1>1. /\ from # to /\ from \in auth /\ q \in 1 .. MaxAmount
      /\ I!CanMove(old, auth, from, to, q, payer)
      /\ token' = [token EXCEPT !.rows = I!Move(old, from, to, q, payer)]
  BY DEF I!transfer, I!CanTransfer, I!Transferred
<1>2. payer \in Account /\ q \in Nat
  BY <1>1, MaxAmountAssumption DEF I!TransferPayer
<1>3. old \in [Account -> Row] /\ RowsOK(old) /\ NobodyOwes(old)
  BY TokenTypes
<1> HIDE DEF payer
<1>4. CanMove(old, auth, from, to, q, payer) /\ token' = [token EXCEPT !.rows = rows]
  BY <1>1, SameRows
<1>5. Follows(rows, old, 0, auth)
  <2> HIDE DEF old
  <2>1. QED
    BY <1>1, <1>2, <1>3, <1>4, MoveFollows
<1> HIDE DEF rows
<1>6. QED
  BY <1>4, <1>5, HoldersKept

LEMMA OpenKept ==
    ASSUME TokenInv(token), NEW auth, NEW owner \in Account, NEW ram_payer \in Account,
           I!open(auth, owner, ram_payer)
    PROVE  Kept(auth)
<1> DEFINE rows == Open(token.rows, owner, ram_payer)
<1>1. token' = [token EXCEPT !.rows = rows]
  BY SameOpenAndClose DEF I!open, I!RowOpened
<1>2. Follows(rows, token.rows, 0, auth)
  BY TokenTypes, OpenFacts, SameFollows
<1> HIDE DEF rows
<1>3. QED
  BY <1>1, <1>2, HoldersKept

LEMMA CloseKept ==
    ASSUME TokenInv(token), NEW auth, NEW owner \in Account, I!close(auth, owner)
    PROVE  Kept(auth)
<1> DEFINE rows == Close(token.rows, owner)
<1>1. token' = [token EXCEPT !.rows = rows] /\ CanClose(token.rows, auth, owner)
  BY SameOpenAndClose DEF I!close, I!RowClosed, I!CanCloseRow
<1>2. Follows(rows, token.rows, 0, auth)
  BY <1>1, TokenTypes, CloseFacts, SameFollows
<1> HIDE DEF rows
<1>3. QED
  BY <1>1, <1>2, HoldersKept

LEMMA IssuanceKept ==
    ASSUME TokenInv(token), NEW auth \in Signatures, I!Step(auth) PROVE Kept(auth)
<1>1. auth \in SUBSET Account
  BY InputAssumption
<1>2. QED
  BY <1>1, CreateKept, IssueKept, RetireKept, SendKept, OpenKept, CloseKept DEF I!Step

LEMMA IssuanceInit == ASSUME I!Init PROVE TokenInv(token)
<1>1. /\ token.rows = [a \in Account |-> [payer |-> NoName, balance |-> 0]]
      /\ token.supply = 0 /\ token.maxSupply = 0
      /\ token = [rows |-> token.rows, supply |-> 0, maxSupply |-> 0, issuer |-> NoName]
  BY DEF I!Init, I!NewToken, I!NoRows, I!NoRow
<1>2. 0 \in Amount /\ 0 \in 0 .. MaxAmount
  BY MaxAmountAssumption DEF Amount
<1>3. /\ token.rows \in [Account -> Row] /\ RowsOK(token.rows) /\ NobodyOwes(token.rows)
  BY <1>1, <1>2 DEF Row, AccountOrNone, RowsOK, NobodyOwes
<1>4. token \in Tokens
  BY <1>1, <1>2, <1>3 DEF Tokens, AccountOrNone
<1>5. AddsUp(token)
  <2> DEFINE f == [a \in Account |-> token.rows[a].balance]
  <2>1. \A a \in Account : f[a] = 0
    BY <1>1
  <2> HIDE DEF f
  <2>2. SumFunctionOnSet(f, Account) = 0
    BY <2>1, AccountAssumption, SumZero
  <2>3. QED
    BY <1>1, <2>2 DEF AddsUp, BalancesSum, f
<1>6. QED
  BY <1>1, <1>3, <1>4, <1>5 DEF TokenInv

LEMMA IssuanceInvariance == I!Spec => []TokenInv(token)
<1>1. TokenInv(token) /\ [I!Next]_token => TokenInv(token)'
  BY IssuanceKept DEF I!Next, Kept, TokenInv, AddsUp, NobodyOwes, RowsOK
<1>2. QED
  BY <1>1, IssuanceInit, PTL DEF I!Spec

\* Whatever is issued and retired, the balances of the underlying token add up
\* to the supply, nobody owes tokens and there are no more than the maximum,
\* although retire does not look at the supply (issue, retire, sub_balance).
THEOREM WithinSupplySafety == I!Spec => []WithinSupply
<1>1. ASSUME TokenInv(token) PROVE I!WithinSupply
  <2> DEFINE f == [a \in Account |-> token.rows[a].balance]
  <2>1. \A a \in Account : f[a] \in Nat
    BY <1>1, TokenTypes, BalanceInt DEF NobodyOwes
  <2>2. BalancesSum(token.rows) = SumFunctionOnSet(f, Account)
    BY DEF BalancesSum
  <2> HIDE DEF f
  <2>3. SumFunctionOnSet(f, Account) \in Nat
    BY <2>1, AccountAssumption, SumIsNat
  <2>4. \A a \in Account : f[a] <= SumFunctionOnSet(f, Account)
    BY <2>1, AccountAssumption, SumAtLeast
  <2>5. token.supply = SumFunctionOnSet(f, Account)
    BY <1>1, <2>2, TokenTypes DEF AddsUp
  <2>6. token.supply \in 0 .. token.maxSupply
    BY <1>1, <2>3, <2>5, TokenTypes
  <2>7. \A a \in Account : token.rows[a].balance \in 0 .. token.supply
    BY <2>1, <2>3, <2>4, <2>5 DEF f
  <2>8. QED
    BY <1>1, <2>6, <2>7, SameSums, TokenTypes DEF I!WithinSupply, AddsUp
<1>2. QED
  BY <1>1, IssuanceInvariance, PTL DEF WithinSupply

\* Nobody loses tokens of the underlying token by an action that others sign,
\* whoever pays for the rows (transfer, retire, open, close).
THEOREM OwnersOnlySafety == I!Spec => OnlyOwnersSpend
<1> DEFINE A == \A a \in Account : token'.rows[a].balance < token.rows[a].balance =>
                   \A auth \in Signatures : I!Step(auth) => a \in auth
<1>1. ASSUME TokenInv(token) PROVE A
  <2> SUFFICES ASSUME NEW a \in Account, token'.rows[a].balance < token.rows[a].balance,
                      NEW auth \in Signatures, I!Step(auth), a \notin auth
               PROVE  FALSE
    OBVIOUS
  <2>1. Kept(auth)
    BY <1>1, IssuanceKept
  <2>2. token.rows[a].balance \in Int
    BY <1>1, TokenTypes, BalanceInt
  <2>3. token'.rows[a].balance \in Int
    <3> DEFINE rows == token'.rows
    <3>1. rows \in [Account -> Row]
      BY <2>1 DEF Kept, TokenInv, Tokens
    <3> HIDE DEF rows
    <3>2. rows[a].balance \in Int
      BY <3>1, BalanceInt
    <3>3. QED
      BY <3>2 DEF rows
  <2>4. QED
    BY <2>1, <2>2, <2>3 DEF Kept
<1> HIDE DEF A
<1>2. TokenInv(token) /\ [I!Next]_token => [A]_token
  BY <1>1
<1>3. I!Spec => [][A]_token
  BY <1>2, IssuanceInvariance, PTL DEF I!Spec
<1>4. QED
  BY <1>3 DEF OnlyOwnersSpend, I!OnlyOwnersSpend, A

-----------------------------------------------------------------------------
(***************************************************************************)
(* What is allowed, when one row changes.                                  *)
(***************************************************************************)
AllRows == [Node -> [Symbol -> FM!Allowance \cup {Unset}]]

\* The fees manager's sums are the sums of SumProofs.
LEMMA SameFeeSums == \A f, S : FM!SumFunctionOnSet(f, S) = SumFunctionOnSet(f, S)
BY DEF SumFunctionOnSet, FoldFunctionOnSet, MapThenFoldSet,
       FM!SumFunctionOnSet, FM!FoldFunctionOnSet, FM!MapThenFoldSet

\* What is allowed of a set of tokens, as a sum.
LEMMA AllowedInAllSum ==
    ASSUME NEW rows, NEW T
    PROVE  FM!AllowedInAll(rows, T) = SumFunctionOnSet(FM!Allowed(rows, T), Node \X Symbol)
BY SameFeeSums DEF FM!AllowedInAll

\* The fields of a row.
LEMMA RowTypes ==
    ASSUME FM!Parameters, NEW rows \in AllRows, NEW n \in Node, NEW s \in Symbol
    PROVE  /\ rows[n][s] \in FM!Allowance \cup {Unset}
           /\ rows[n][s] # Unset =>
                 /\ rows[n][s] \in FM!Allowance /\ rows[n][s].token \in FeeToken
                 /\ rows[n][s].amount \in Nat
           /\ FM!AmountOf(rows[n][s]) \in Nat
<1>1. rows[n][s] \in FM!Allowance \cup {Unset}
  BY DEF AllRows
<1>2. \A row \in FM!Allowance : row.token \in FeeToken /\ row.amount \in Nat
  BY DEF FM!Allowance
<1>3. QED
  BY <1>1, <1>2 DEF FM!AmountOf

\* One node's and symbol's part of the sums.
LEMMA AllowedEntry ==
    ASSUME NEW rows, NEW T, NEW n \in Node, NEW s \in Symbol
    PROVE  FM!Allowed(rows, T)[<<n, s>>] = FM!AmountIn(rows[n][s], T)
<1> DEFINE r == <<n, s>>
<1>1. r \in Node \X Symbol /\ r[1] = n /\ r[2] = s
  OBVIOUS
<1> HIDE DEF r
<1>2. FM!Allowed(rows, T)[r] = FM!AmountIn(rows[r[1]][r[2]], T)
  BY <1>1 DEF FM!Allowed
<1>3. QED
  BY <1>1, <1>2 DEF r

\* Nobody is allowed less than nothing.
LEMMA AllowedIsNat ==
    ASSUME FM!Parameters, NEW rows \in AllRows, NEW T, NEW r \in Node \X Symbol
    PROVE  FM!Allowed(rows, T)[r] \in Nat
<1>1. \A m \in Node, q \in Symbol : FM!AmountIn(rows[m][q], T) \in Nat
  BY RowTypes DEF FM!AmountIn
<1>2. r[1] \in Node /\ r[2] \in Symbol
  OBVIOUS
<1>3. FM!AmountIn(rows[r[1]][r[2]], T) \in Nat
  BY <1>1, <1>2
<1>4. QED
  BY <1>3 DEF FM!Allowed

\* The sums are over finite sets.
LEMMA FiniteKeys ==
    ASSUME FM!Parameters, NEW s \in Symbol
    PROVE  /\ IsFiniteSet(Node \X Symbol) /\ IsFiniteSet(Node \X {s})
           /\ Node \X {s} \subseteq Node \X Symbol
<1>1. IsFiniteSet(Node) /\ IsFiniteSet(Symbol) /\ IsFiniteSet({s})
  BY FS_Singleton DEF FM!Parameters, FM!IsFiniteSet, IsFiniteSet
<1>2. QED
  BY <1>1, FS_Product

\* A symbol's part of what is allowed of a token.
LEMMA AllowedBounds ==
    ASSUME FM!Parameters, NEW rows \in AllRows, NEW t, NEW s \in Symbol
    PROVE  /\ FM!AllowedOf(rows, <<t, s>>) \in Nat
           /\ FM!AllowedInAll(rows, {t}) \in Nat
           /\ FM!AllowedOf(rows, <<t, s>>) <= FM!AllowedInAll(rows, {t})
<1> DEFINE f == FM!Allowed(rows, {t})
           S == Node \X Symbol
           T == Node \X {s}
<1>1. \A r \in S : f[r] \in Nat
  BY AllowedIsNat
<1>2. IsFiniteSet(S) /\ IsFiniteSet(T) /\ T \subseteq S
  BY FiniteKeys
<1>3. FM!AllowedOf(rows, <<t, s>>) = SumFunctionOnSet(f, T)
  BY SameFeeSums DEF FM!AllowedOf
<1>4. FM!AllowedInAll(rows, {t}) = SumFunctionOnSet(f, S)
  BY AllowedInAllSum
<1> HIDE DEF f, S, T
<1>6. SumFunctionOnSet(f, T) <= SumFunctionOnSet(f, S)
  BY <1>1, <1>2, SumSubset
<1>7. SumFunctionOnSet(f, S) \in Nat /\ SumFunctionOnSet(f, T) \in Nat
  BY <1>1, <1>2, SumIsNat
<1>9. QED
  BY <1>3, <1>4, <1>6, <1>7

\* What is allowed of a set of tokens is a number.
LEMMA AllowedInAllIsNat ==
    ASSUME FM!Parameters, NEW rows \in AllRows, NEW T
    PROVE  FM!AllowedInAll(rows, T) \in Nat
<1> DEFINE f == FM!Allowed(rows, T)
           S == Node \X Symbol
<1>1. \A r \in S : f[r] \in Nat
  BY AllowedIsNat
<1>2. IsFiniteSet(S)
  <2>1. IsFiniteSet(Node) /\ IsFiniteSet(Symbol)
    BY DEF FM!Parameters, FM!IsFiniteSet, IsFiniteSet
  <2> QED
    BY <2>1, FS_Product
<1>3. FM!AllowedInAll(rows, T) = SumFunctionOnSet(f, S)
  BY AllowedInAllSum
<1> HIDE DEF f, S
<1> QED
  BY <1>1, <1>2, <1>3, SumIsNat

\* The row of node n and symbol s is replaced by one of the same token, or set.
Replaced(rows, n, s, row) == [rows EXCEPT ![n][s] = row]

Replaceable(rows, n, s, row) ==
    rows[n][s] # Unset => rows[n][s].token = row.token

\* The other rows stay.
LEMMA ReplacedRows ==
    ASSUME NEW rows \in AllRows, NEW n \in Node, NEW s \in Symbol, NEW row \in FM!Allowance
    PROVE  /\ Replaced(rows, n, s, row) \in AllRows
           /\ Replaced(rows, n, s, row)[n][s] = row
           /\ \A m \in Node, r \in Symbol : <<m, r>> # <<n, s>> =>
                 Replaced(rows, n, s, row)[m][r] = rows[m][r]
BY DEF Replaced, AllRows

\* The parts of the sums, when a row is replaced.
LEMMA ReplacedEntries ==
    ASSUME FM!Parameters, NEW rows \in AllRows, NEW n \in Node, NEW s \in Symbol,
           NEW row \in FM!Allowance, Replaceable(rows, n, s, row), NEW T
    PROVE  /\ \A r \in (Node \X Symbol) \ {<<n, s>>} :
                 FM!Allowed(Replaced(rows, n, s, row), T)[r] = FM!Allowed(rows, T)[r]
           /\ FM!Allowed(Replaced(rows, n, s, row), T)[<<n, s>>] =
                 IF row.token \in T THEN row.amount ELSE 0
           /\ FM!Allowed(rows, T)[<<n, s>>] =
                 IF row.token \in T THEN FM!AmountOf(rows[n][s]) ELSE 0
<1> DEFINE after == Replaced(rows, n, s, row)
<1>1. /\ after[n][s] = row
      /\ \A m \in Node, r \in Symbol : <<m, r>> # <<n, s>> => after[m][r] = rows[m][r]
  BY ReplacedRows
<1>2. row # Unset
  BY DEF FM!Parameters
<1> HIDE DEF after
<1>3. ASSUME NEW r \in (Node \X Symbol) \ {<<n, s>>}
      PROVE  FM!Allowed(after, T)[r] = FM!Allowed(rows, T)[r]
  <2>1. PICK m \in Node, q \in Symbol : r = <<m, q>>
    OBVIOUS
  <2>2. m \in Node /\ q \in Symbol /\ after[m][q] = rows[m][q]
    BY <1>1, <1>3, <2>1
  <2>3. /\ FM!Allowed(after, T)[<<m, q>>] = FM!AmountIn(after[m][q], T)
        /\ FM!Allowed(rows, T)[<<m, q>>] = FM!AmountIn(rows[m][q], T)
    BY <2>2, AllowedEntry
  <2>4. QED
    BY <2>1, <2>2, <2>3
<1>4. FM!Allowed(after, T)[<<n, s>>] = FM!AmountIn(row, T)
  <2>1. FM!Allowed(after, T)[<<n, s>>] = FM!AmountIn(after[n][s], T)
    BY AllowedEntry
  <2> QED
    BY <1>1, <2>1
<1>5. FM!Allowed(rows, T)[<<n, s>>] = FM!AmountIn(rows[n][s], T)
  BY AllowedEntry
<1>6. FM!AmountIn(row, T) = IF row.token \in T THEN row.amount ELSE 0
  BY <1>2 DEF FM!AmountIn
<1>7. FM!AmountIn(rows[n][s], T) = IF row.token \in T THEN FM!AmountOf(rows[n][s]) ELSE 0
  BY DEF FM!AmountOf, FM!AmountIn, Replaceable
<1>10. QED
  BY <1>3, <1>4, <1>5, <1>6, <1>7 DEF after

\* What is allowed of a set of tokens follows the row, if its token is in it.
LEMMA ReplacedSums ==
    ASSUME FM!Parameters, NEW rows \in AllRows, NEW n \in Node, NEW s \in Symbol,
           NEW row \in FM!Allowance, Replaceable(rows, n, s, row), NEW T
    PROVE  FM!AllowedInAll(Replaced(rows, n, s, row), T) =
              IF row.token \in T
              THEN FM!AllowedInAll(rows, T) - FM!AmountOf(rows[n][s]) + row.amount
              ELSE FM!AllowedInAll(rows, T)
<1> DEFINE f == FM!Allowed(rows, T)
           g == FM!Allowed(Replaced(rows, n, s, row), T)
           S == Node \X Symbol
           z == <<n, s>>
           after == Replaced(rows, n, s, row)
           old == FM!AmountOf(rows[n][s])
<1>1. \A r \in S : f[r] \in Int /\ g[r] \in Int
  <2>1. Replaced(rows, n, s, row) \in AllRows
    BY ReplacedRows
  <2>3. \A r \in S : f[r] \in Nat /\ g[r] \in Nat
    BY <2>1, AllowedIsNat
  <2> HIDE DEF f, g
  <2>4. QED
    BY <2>3
<1>2. /\ \A r \in S \ {z} : f[r] = g[r]
      /\ g[z] = IF row.token \in T THEN row.amount ELSE 0
      /\ f[z] = IF row.token \in T THEN old ELSE 0
  <2> HIDE DEF old
  <2> QED
    BY ReplacedEntries DEF old
<1>3. IsFiniteSet(S) /\ z \in S
  BY FiniteKeys
<1>4. /\ FM!AllowedInAll(after, T) = SumFunctionOnSet(g, S)
      /\ FM!AllowedInAll(rows, T) = SumFunctionOnSet(f, S)
  BY AllowedInAllSum
<1>6. SumFunctionOnSet(f, S) \in Int
  <2> HIDE DEF f, g, S, z
  <2> QED
    BY <1>1, <1>3, SumIsInt
<1>7. old \in Nat /\ row.amount \in Nat
  BY RowTypes DEF FM!Allowance
<1> HIDE DEF f, g, S, z, after, old
<1>5. SumFunctionOnSet(g, S) = SumFunctionOnSet(f, S) - f[z] + g[z]
  BY <1>1, <1>2, <1>3, SumChange
<1>8. FM!AllowedInAll(after, T) =
              IF row.token \in T
              THEN FM!AllowedInAll(rows, T) - old + row.amount
              ELSE FM!AllowedInAll(rows, T)
  BY <1>2, <1>4, <1>5, <1>6, <1>7
<1> QED
  BY <1>8 DEF after, old

\* What is allowed of the row's asset follows the row, of others it stays.
LEMMA ReplacedParts ==
    ASSUME FM!Parameters, NEW rows \in AllRows, NEW n \in Node, NEW s \in Symbol,
           NEW row \in FM!Allowance, Replaceable(rows, n, s, row), NEW t, NEW q \in Symbol
    PROVE  FM!AllowedOf(Replaced(rows, n, s, row), <<t, q>>) =
              IF t = row.token /\ q = s
              THEN FM!AllowedOf(rows, <<t, q>>) - FM!AmountOf(rows[n][s]) + row.amount
              ELSE FM!AllowedOf(rows, <<t, q>>)
<1> DEFINE after == Replaced(rows, n, s, row)
           f == FM!Allowed(rows, {t})
           g == FM!Allowed(after, {t})
           S == Node \X {q}
           z == <<n, s>>
           old == FM!AmountOf(rows[n][s])
<1>1. \A r \in S : f[r] \in Int /\ g[r] \in Int
  <2>1. Replaced(rows, n, s, row) \in AllRows
    BY ReplacedRows
  <2>2. S \subseteq Node \X Symbol
    OBVIOUS
  <2>3. \A r \in S : f[r] \in Nat /\ g[r] \in Nat
    BY <2>1, <2>2, AllowedIsNat
  <2> HIDE DEF f, g
  <2>4. QED
    BY <2>3
<1>2. /\ \A r \in (Node \X Symbol) \ {z} : f[r] = g[r]
      /\ g[z] = IF row.token \in {t} THEN row.amount ELSE 0
      /\ f[z] = IF row.token \in {t} THEN old ELSE 0
  <2> HIDE DEF old
  <2> QED
    BY ReplacedEntries DEF old
<1>3. IsFiniteSet(S) /\ S \subseteq Node \X Symbol /\ (z \in S <=> q = s)
  BY FiniteKeys
<1>4. /\ FM!AllowedOf(after, <<t, q>>) = SumFunctionOnSet(g, S)
      /\ FM!AllowedOf(rows, <<t, q>>) = SumFunctionOnSet(f, S)
  BY SameFeeSums DEF FM!AllowedOf
<1>6. SumFunctionOnSet(f, S) \in Int
  <2> HIDE DEF f, g, S, z
  <2> QED
    BY <1>1, <1>3, SumIsInt
<1>7. old \in Nat /\ row.amount \in Nat
  BY RowTypes DEF FM!Allowance
<1> HIDE DEF f, g, S, z, after, old
<1>8. CASE q = s
  <2>1. SumFunctionOnSet(g, S) = SumFunctionOnSet(f, S) - f[z] + g[z]
    BY <1>1, <1>2, <1>3, <1>8, SumChange
  <2> QED
    BY <1>2, <1>4, <1>6, <1>7, <1>8, <2>1 DEF after, old
<1>9. CASE q # s
  <2>1. \A r \in S : f[r] = g[r]
    BY <1>2, <1>3, <1>9
  <2>2. SumFunctionOnSet(g, S) = SumFunctionOnSet(f, S)
    BY <1>3, <2>1, SumSame
  <2> QED
    BY <1>4, <1>9, <2>2 DEF after, old
<1> QED
  BY <1>8, <1>9

-----------------------------------------------------------------------------
(***************************************************************************)
(* The contract's books, as a value: the totals of tokens that share no    *)
(* symbol with others are what the rows allow, what is allowed of such a   *)
(* token is held, and a row that allows anything is still the contract's   *)
(* to pay for.  Every action writes one row at a time.                     *)
(***************************************************************************)
TotalIn(d, t) == IF d.total[t] = Unset THEN 0 ELSE d.total[t]

TotalSum(d, T) == SumFunctionOnSet([t \in FeeToken |-> TotalIn(d, t)], T)

RowOK(row, s) ==
    row # Unset => /\ <<row.token, s>> \in Assets
                   /\ row.amount > 0 => row.payer = Self

BooksTyped(d) ==
    /\ d.held \in [Assets -> Nat]
    /\ d.total \in [FeeToken -> Int \cup {Unset}]
    /\ d.allowances \in AllRows

BooksOK(d) ==
    /\ BooksTyped(d)
    /\ \A n \in Node, s \in Symbol : RowOK(d.allowances[n][s], s)
    /\ \A T \in FM!ClosedSets : TotalSum(d, T) = FM!AllowedInAll(d.allowances, T)
    /\ \A x \in Assets : {x[1]} \in FM!ClosedSets => FM!AllowedOf(d.allowances, x) <= d.held[x]

\* A row is written, the total of token t follows, and h is held of its asset:
\* t need not be the row's token, but has the row's symbol.
Booked(d, n, s, row, t, h) ==
    [held       |-> [d.held EXCEPT ![<<t, s>>] = h],
     total      |-> [d.total EXCEPT ![t] =
                       TotalIn(d, t) - FM!AmountOf(d.allowances[n][s]) + row.amount],
     allowances |-> Replaced(d.allowances, n, s, row)]

\* A total is a number, and so is the sum over a set of tokens.
LEMMA TotalsAreInts ==
    ASSUME FM!Parameters, NEW d, d.total \in [FeeToken -> Int \cup {Unset}],
           NEW T \in SUBSET FeeToken
    PROVE  /\ \A t \in FeeToken : TotalIn(d, t) \in Int
           /\ IsFiniteSet(T) /\ TotalSum(d, T) \in Int
           /\ \A t \in FeeToken : TotalSum(d, {t}) = TotalIn(d, t)
<1> DEFINE f == [t \in FeeToken |-> TotalIn(d, t)]
<1>1. \A t \in FeeToken : TotalIn(d, t) \in Int
  BY DEF TotalIn
<1>2. IsFiniteSet(FeeToken)
  BY DEF FM!Parameters, FM!IsFiniteSet, IsFiniteSet
<1>3. IsFiniteSet(T)
  BY <1>2, FS_Subset
<1>4. \A t \in FeeToken : f[t] \in Int /\ f[t] = TotalIn(d, t)
  BY <1>1
<1> HIDE DEF f
<1>5. \A t \in T : f[t] \in Int
  BY <1>4
<1>6. SumFunctionOnSet(f, T) \in Int
  BY <1>3, <1>5, SumIsInt
<1>7. ASSUME NEW t \in FeeToken PROVE SumFunctionOnSet(f, {t}) = TotalIn(d, t)
  <2>1. IsFiniteSet({t}) /\ t \in {t} /\ {t} \ {t} = {}
    BY FS_Singleton
  <2>2. \A u \in {t} : f[u] \in Int
    BY <1>4
  <2>3. SumFunctionOnSet(f, {t}) = f[t] + SumFunctionOnSet(f, {t} \ {t})
    BY <2>1, <2>2, SumRemove
  <2>4. SumFunctionOnSet(f, {t} \ {t}) = 0
    BY <2>1, SumEmpty
  <2> QED
    BY <1>4, <2>3, <2>4
<1> QED
  BY <1>1, <1>3, <1>6, <1>7 DEF TotalSum, f

\* The sum of totals follows one of them.
LEMMA BookedTotals ==
    ASSUME FM!Parameters, NEW d, d.total \in [FeeToken -> Int \cup {Unset}],
           NEW b, NEW t \in FeeToken, NEW v \in Int, b.total = [d.total EXCEPT ![t] = v],
           NEW T \in SUBSET FeeToken
    PROVE  TotalSum(b, T) = IF t \in T THEN TotalSum(d, T) - TotalIn(d, t) + v
                                       ELSE TotalSum(d, T)
<1> DEFINE f == [u \in FeeToken |-> TotalIn(d, u)]
           g == [u \in FeeToken |-> TotalIn(b, u)]
<1>1. b.total[t] = v /\ v # Unset /\ \A u \in FeeToken \ {t} : b.total[u] = d.total[u]
  BY DEF FM!Parameters
<1>2. TotalIn(b, t) = v /\ \A u \in FeeToken \ {t} : TotalIn(b, u) = TotalIn(d, u)
  BY <1>1 DEF TotalIn
<1>3. IsFiniteSet(T) /\ \A u \in FeeToken : TotalIn(d, u) \in Int
  BY TotalsAreInts
<1>4. /\ f[t] = TotalIn(d, t) /\ g[t] = v
      /\ \A u \in FeeToken : f[u] \in Int /\ g[u] \in Int
      /\ \A u \in FeeToken \ {t} : f[u] = g[u]
  BY <1>2, <1>3
<1> HIDE DEF f, g
<1>5. CASE t \in T
  <2>1. SumFunctionOnSet(g, T) = SumFunctionOnSet(f, T) - f[t] + g[t]
    BY <1>3, <1>4, <1>5, SumChange
  <2> QED
    BY <1>4, <1>5, <2>1 DEF TotalSum, f, g
<1>6. CASE t \notin T
  <2>1. \A u \in T : g[u] = f[u]
    BY <1>4, <1>6
  <2>2. SumFunctionOnSet(g, T) = SumFunctionOnSet(f, T)
    BY <1>3, <2>1, SumSame
  <2> QED
    BY <1>6, <2>2 DEF TotalSum, f, g
<1> QED
  BY <1>5, <1>6

\* A set closed under sharing symbols has both of two tokens with a symbol, or
\* neither; if it is one token's, that is the only one with its symbols.
LEMMA ClosedTokens ==
    ASSUME FM!Parameters, NEW s, NEW t, NEW u, <<t, s>> \in Assets, <<u, s>> \in Assets
    PROVE  /\ \A T \in FM!ClosedSets : T \subseteq FeeToken /\ (t \in T <=> u \in T)
           /\ {t} \in FM!ClosedSets => u = t
<1>1. ASSUME NEW T \in FM!ClosedSets PROVE T \subseteq FeeToken /\ (t \in T <=> u \in T)
  <2> DEFINE x == <<t, s>>
             y == <<u, s>>
  <2>1. x \in Assets /\ y \in Assets /\ x[2] = y[2] /\ x[1] = t /\ y[1] = u
    OBVIOUS
  <2> HIDE DEF x, y
  <2>2. T \subseteq FeeToken /\ (x[1] \in T <=> y[1] \in T)
    BY <2>1 DEF FM!ClosedSets
  <2> QED
    BY <2>1, <2>2
<1> QED
  BY <1>1

\* Booking keeps the books typed.
LEMMA BookedTyped ==
    ASSUME FM!Parameters, NEW d, BooksTyped(d), NEW n \in Node, NEW s \in Symbol,
           NEW row \in FM!Allowance, NEW t \in FeeToken, NEW h \in Nat
    PROVE  /\ BooksTyped(Booked(d, n, s, row, t, h))
           /\ TotalIn(d, t) - FM!AmountOf(d.allowances[n][s]) + row.amount \in Int
<1> DEFINE rows == d.allowances
           old == FM!AmountOf(rows[n][s])
           new == TotalIn(d, t) - old + row.amount
<1>1. row.amount \in Nat
  BY DEF FM!Allowance
<1>2. rows \in AllRows /\ d.held \in [Assets -> Nat] /\ d.total \in [FeeToken -> Int \cup {Unset}]
  BY DEF BooksTyped
<1>3. Replaced(rows, n, s, row) \in AllRows
  BY <1>2, ReplacedRows
<1>4. TotalIn(d, t) \in Int
  BY <1>2 DEF TotalIn
<1>7. old \in Nat
  BY <1>2, RowTypes
<1> HIDE DEF rows, old
<1>8. new \in Int
  BY <1>1, <1>4, <1>7
<1> HIDE DEF new
<1>9. [d.total EXCEPT ![t] = new] \in [FeeToken -> Int \cup {Unset}]
  BY <1>2, <1>8
<1>10. [d.held EXCEPT ![<<t, s>>] = h] \in [Assets -> Nat]
  BY <1>2
<1> QED
  BY <1>3, <1>8, <1>9, <1>10 DEF BooksTyped, Booked, new, old, rows

\* Booking keeps the books, if what is then allowed is held.
LEMMA BookedOK ==
    ASSUME FM!Parameters, NEW d, BooksOK(d), NEW n \in Node, NEW s \in Symbol,
           NEW row \in FM!Allowance, Replaceable(d.allowances, n, s, row),
           NEW t \in FeeToken, NEW h \in Nat,
           RowOK(row, s), <<row.token, s>> \in Assets, <<t, s>> \in Assets,
           {t} \in FM!ClosedSets =>
              FM!AllowedOf(Replaced(d.allowances, n, s, row), <<t, s>>) <= h
    PROVE  BooksOK(Booked(d, n, s, row, t, h))
<1> DEFINE rows == d.allowances
           after == Replaced(rows, n, s, row)
           b == Booked(d, n, s, row, t, h)
           old == FM!AmountOf(rows[n][s])
           new == TotalIn(d, t) - old + row.amount
<1>2. /\ rows \in AllRows /\ d.held \in [Assets -> Nat]
      /\ d.total \in [FeeToken -> Int \cup {Unset}]
  BY DEF BooksOK, BooksTyped
<1>3. BooksTyped(b) /\ new \in Int
  BY BookedTyped DEF BooksOK
<1>4. /\ b.allowances = after
      /\ b.held = [d.held EXCEPT ![<<t, s>>] = h]
      /\ b.total = [d.total EXCEPT ![t] = new]
  BY DEF Booked
<1>5. ASSUME NEW m \in Node, NEW q \in Symbol PROVE RowOK(b.allowances[m][q], q)
  <2>1. RowOK(rows[m][q], q)
    BY DEF BooksOK
  <2>2. after[n][s] = row /\ (<<m, q>> # <<n, s>> => after[m][q] = rows[m][q])
    <3> HIDE DEF rows
    <3> QED
      BY <1>2, ReplacedRows
  <2> HIDE DEF after, rows, b
  <2>3. CASE <<m, q>> = <<n, s>>
    BY <1>4, <2>2, <2>3
  <2>4. CASE <<m, q>> # <<n, s>>
    BY <1>4, <2>1, <2>2, <2>4
  <2> QED
    BY <2>3, <2>4
<1>6. Replaceable(rows, n, s, row)
  OBVIOUS
<1>7. \A T \in FM!ClosedSets : TotalSum(d, T) = FM!AllowedInAll(rows, T)
  BY DEF BooksOK
<1>8. \A x \in Assets : {x[1]} \in FM!ClosedSets => FM!AllowedOf(rows, x) <= d.held[x]
  BY DEF BooksOK
<1>9. {t} \in FM!ClosedSets => FM!AllowedOf(after, <<t, s>>) <= h
  OBVIOUS
<1>12. old \in Nat /\ row.amount \in Nat /\ TotalIn(d, t) \in Int
  <2>1. old \in Nat
    BY <1>2, RowTypes
  <2>2. TotalIn(d, t) \in Int
    BY <1>2 DEF TotalIn
  <2> HIDE DEF old
  <2> QED
    BY <2>1, <2>2 DEF FM!Allowance
<1> HIDE DEF rows, b
<1>10. ASSUME NEW T \in FM!ClosedSets PROVE TotalSum(b, T) = FM!AllowedInAll(after, T)
  <2>1. T \subseteq FeeToken /\ (t \in T <=> row.token \in T)
    BY ClosedTokens
  <2>2. FM!AllowedInAll(after, T) =
           IF row.token \in T THEN FM!AllowedInAll(rows, T) - old + row.amount
                              ELSE FM!AllowedInAll(rows, T)
    BY <1>2, <1>6, ReplacedSums
  <2> HIDE DEF new, old, after
  <2>3. TotalSum(b, T) = IF t \in T THEN TotalSum(d, T) - TotalIn(d, t) + new ELSE TotalSum(d, T)
    BY <1>2, <1>3, <1>4, <2>1, BookedTotals
  <2>4. TotalSum(d, T) \in Int
    BY <1>2, <2>1, TotalsAreInts
  <2> QED
    BY <1>7, <1>12, <2>1, <2>2, <2>3, <2>4 DEF new
<1>11. ASSUME NEW x \in Assets, {x[1]} \in FM!ClosedSets PROVE FM!AllowedOf(after, x) <= b.held[x]
  <2>1. CASE x = <<t, s>>
    BY <1>2, <1>4, <1>9, <1>11, <2>1
  <2>2. CASE x # <<t, s>>
    <3>1. PICK u \in FeeToken, q \in Symbol : x = <<u, q>>
      BY DEF FM!Parameters
    <3>2. ~(u = row.token /\ q = s)
      <4>1. SUFFICES ASSUME u = row.token, q = s PROVE FALSE
        OBVIOUS
      <4>2. {u} \in FM!ClosedSets /\ <<u, s>> \in Assets
        BY <1>11, <3>1, <4>1
      <4>3. t = u
        BY <4>2, ClosedTokens
      <4> QED
        BY <2>2, <3>1, <4>1, <4>3
    <3>3. FM!AllowedOf(after, <<u, q>>) = FM!AllowedOf(rows, <<u, q>>)
      BY <1>2, <1>6, <3>2, ReplacedParts
    <3>4. b.held[x] = d.held[x]
      BY <1>2, <1>4, <2>2
    <3> QED
      BY <1>8, <1>11, <3>1, <3>3, <3>4
  <2> QED
    BY <2>1, <2>2
<1> QED
  BY <1>3, <1>4, <1>5, <1>10, <1>11 DEF BooksOK, b
-----------------------------------------------------------------------------
(***************************************************************************)
(* The actions, as rows that are booked.                                   *)
(***************************************************************************)
\* A row names a contract that has its symbol, and the contract charged if
\* that one shares no symbol.
LEMMA RowPaired ==
    ASSUME FM!Parameters, NEW d, BooksOK(d), NEW n \in Node,
           NEW t \in FeeToken, NEW s \in Symbol, <<t, s>> \in Assets,
           d.allowances[n][s] # Unset
    PROVE  /\ d.allowances[n][s] \in FM!Allowance
           /\ <<d.allowances[n][s].token, s>> \in Assets
           /\ {t} \in FM!ClosedSets => d.allowances[n][s].token = t
           /\ d.allowances[n][s].amount > 0 => d.allowances[n][s].payer = Self
<1> DEFINE row == d.allowances[n][s]
<1>1. row \in FM!Allowance
  BY RowTypes DEF BooksOK, BooksTyped
<1>2. <<row.token, s>> \in Assets /\ (row.amount > 0 => row.payer = Self)
  BY DEF BooksOK, RowOK
<1> HIDE DEF row
<1>3. {t} \in FM!ClosedSets => row.token = t
  BY <1>2, ClosedTokens
<1>4. QED
  BY <1>1, <1>2, <1>3 DEF row

LEMMA TakenRow ==
    ASSUME FM!Parameters, NEW row \in FM!Allowance, NEW n \in Node
    PROVE  /\ FM!Taken(row, n) \in FM!Allowance /\ FM!Taken(row, n) # Unset
           /\ FM!Taken(row, n).token = row.token /\ FM!Taken(row, n).amount = 0
BY DEF FM!Taken, FM!Allowance, FM!Parameters

\* What one withdrawal does: a node that signed takes all it was allowed.
TakesItsOwn(d, after, auth, n, t, s) ==
    /\ PayersSign => n \in auth
    /\ {t} \in FM!ClosedSets => d.allowances[n][s].token = t
    /\ FM!AmountOf(d.allowances[n][s]) > 0
    /\ after.held = [d.held EXCEPT ![<<t, s>>] = @ - FM!AmountOf(d.allowances[n][s])]
    /\ FM!AmountOf(after.allowances[n][s]) = 0
    /\ \A q \in Symbol \ {s} : after.allowances[n][q] = d.allowances[n][q]

LEMMA WithdrawnOK ==
    ASSUME FM!Parameters, NEW d, BooksOK(d), NEW auth, NEW n \in Node,
           NEW t \in FeeToken, NEW s \in Symbol, FM!CanWithdraw(d, auth, n, t, s)
    PROVE  /\ BooksOK(FM!Withdrawn(d, n, t, s))
           /\ TakesItsOwn(d, FM!Withdrawn(d, n, t, s), auth, n, t, s)
<1> DEFINE rows == d.allowances
           row == rows[n][s]
           taken == FM!Taken(row, n)
           x == <<t, s>>
           h == d.held[x] - row.amount
<1>1. /\ row # Unset /\ d.total[t] # Unset /\ FM!MayCharge(auth, row, n)
      /\ x \in Assets /\ row.amount > 0 /\ d.held[x] >= row.amount
  BY DEF FM!CanWithdraw
<1>2. /\ row \in FM!Allowance /\ <<row.token, s>> \in Assets /\ row.payer = Self
      /\ {t} \in FM!ClosedSets => row.token = t
  BY <1>1, RowPaired
<1>3. /\ rows \in AllRows /\ d.held \in [Assets -> Nat]
      /\ d.total \in [FeeToken -> Int \cup {Unset}]
  BY DEF BooksOK, BooksTyped
<1> HIDE DEF rows
<1>4. /\ taken \in FM!Allowance /\ taken.token = row.token /\ taken.amount = 0
      /\ taken # Unset
  BY <1>2, TakenRow
<1>5. row.amount \in Nat /\ FM!AmountOf(row) = row.amount
  BY <1>1, <1>2 DEF FM!Allowance, FM!AmountOf
<1>6. h \in Nat
  BY <1>1, <1>3, <1>5
<1>7. PayersSign => n \in auth
  BY <1>1, <1>2 DEF FM!MayCharge, FM!Parameters
<1>8. RowOK(taken, s)
  BY <1>1, <1>2, <1>4 DEF RowOK
<1>9. Replaceable(rows, n, s, taken)
  BY <1>2, <1>4 DEF Replaceable
<1>10. {t} \in FM!ClosedSets => FM!AllowedOf(Replaced(rows, n, s, taken), x) <= h
  <2> SUFFICES ASSUME {t} \in FM!ClosedSets
               PROVE  FM!AllowedOf(Replaced(rows, n, s, taken), x) <= h
    OBVIOUS
  <2>1. FM!AllowedOf(rows, x) <= d.held[x]
    BY <1>1 DEF BooksOK, rows
  <2>2. FM!AllowedOf(Replaced(rows, n, s, taken), <<t, s>>)
          = FM!AllowedOf(rows, <<t, s>>) - FM!AmountOf(rows[n][s]) + taken.amount
    <3>1. taken.token = t
      BY <1>2, <1>4
    <3> HIDE DEF taken
    <3> QED
      BY <1>3, <1>4, <1>9, <3>1, ReplacedParts
  <2>3. FM!AllowedOf(rows, x) \in Nat
    BY <1>3, AllowedBounds
  <2>4. d.held[x] \in Nat
    BY <1>1, <1>3
  <2> HIDE DEF taken
  <2>5. FM!AllowedOf(Replaced(rows, n, s, taken), x) = FM!AllowedOf(rows, x) - row.amount
    BY <1>4, <1>5, <2>2, <2>3
  <2> QED
    BY <1>5, <2>1, <2>3, <2>4, <2>5
<1>11. BooksOK(Booked(d, n, s, taken, t, h))
  <2>1. /\ Replaceable(d.allowances, n, s, taken)
        /\ {t} \in FM!ClosedSets =>
              FM!AllowedOf(Replaced(d.allowances, n, s, taken), <<t, s>>) <= h
        /\ <<taken.token, s>> \in Assets
    BY <1>1, <1>2, <1>4, <1>9, <1>10 DEF rows
  <2>2. <<t, s>> \in Assets
    BY <1>1
  <2> HIDE DEF taken, h
  <2> QED
    BY <1>4, <1>6, <1>8, <2>1, <2>2, BookedOK
<1>12. TotalIn(d, t) - row.amount + 0 = d.total[t] - row.amount
  BY <1>1, <1>3, <1>5 DEF TotalIn
<1>13. Booked(d, n, s, taken, t, h) = FM!Withdrawn(d, n, t, s)
  <2>1. Booked(d, n, s, taken, t, h).held = FM!Withdrawn(d, n, t, s).held
    BY <1>4 DEF Booked, FM!Withdrawn, rows
  <2>2. Booked(d, n, s, taken, t, h).total = FM!Withdrawn(d, n, t, s).total
    <3>1. Booked(d, n, s, taken, t, h).total =
            [d.total EXCEPT ![t] = TotalIn(d, t) - row.amount + 0]
      <4> HIDE DEF taken
      <4> QED
        BY <1>4, <1>5 DEF Booked, rows
    <3>2. FM!Withdrawn(d, n, t, s).total = [d.total EXCEPT ![t] = d.total[t] - row.amount]
      BY DEF FM!Withdrawn, rows
    <3> QED
      BY <1>12, <3>1, <3>2
  <2>3. Booked(d, n, s, taken, t, h).allowances = FM!Withdrawn(d, n, t, s).allowances
    BY DEF Booked, FM!Withdrawn, Replaced, rows
  <2> QED
    BY <2>1, <2>2, <2>3 DEF Booked, FM!Withdrawn
<1>14. TakesItsOwn(d, FM!Withdrawn(d, n, t, s), auth, n, t, s)
  <2> DEFINE after == FM!Withdrawn(d, n, t, s)
  <2>1. after.held = [d.held EXCEPT ![x] = @ - row.amount]
    BY DEF FM!Withdrawn, rows
  <2>2. after.allowances = Replaced(rows, n, s, taken)
    BY DEF FM!Withdrawn, Replaced, rows
  <2>3. /\ after.allowances[n][s] = taken
        /\ \A q \in Symbol \ {s} : after.allowances[n][q] = rows[n][q]
    <3> HIDE DEF after, taken
    <3> QED
      BY <1>3, <1>4, <2>2, ReplacedRows
  <2>4. FM!AmountOf(taken) = 0
    BY <1>4 DEF FM!AmountOf
  <2> HIDE DEF after, taken
  <2> QED
    BY <1>1, <1>2, <1>5, <1>7, <2>1, <2>3, <2>4 DEF TakesItsOwn, rows, after
<1> QED
  BY <1>11, <1>13, <1>14

\* withdrawmtto for two tokens is one withdrawal after the other.
LEMMA TwoWithdrawals ==
    ASSUME NEW auth, NEW n, NEW t1, NEW s1, NEW t2, NEW s2,
           FM!withdrawmtto(auth, n, <<t1, t2>>, <<s1, s2>>)
    PROVE  LET first == FM!Withdrawn(FM!Tables, n, t1, s1)
           IN  /\ FM!CanWithdraw(FM!Tables, auth, n, t1, s1)
               /\ FM!CanWithdraw(first, auth, n, t2, s2)
               /\ FM!Becomes(FM!Withdrawn(first, n, t2, s2))
<1> DEFINE tokens == <<t1, t2>>
           symbols == <<s1, s2>>
           W(d, i) == FM!Withdrawn(d, n, tokens[i], symbols[i])
           F(f) == [i \in 0 .. Len(tokens) |-> IF i = 0 THEN FM!Tables ELSE W(f[i - 1], i)]
           after == CHOOSE f : f = F(f)
           first == FM!Withdrawn(FM!Tables, n, t1, s1)
           second == FM!Withdrawn(first, n, t2, s2)
<1>1. after = F(after)
  <2> DEFINE g == [i \in 0 .. Len(tokens) |-> IF i = 0 THEN FM!Tables ELSE
                                              IF i = 1 THEN first ELSE second]
  <2>1. Len(tokens) = 2 /\ 0 .. Len(tokens) = {0, 1, 2}
    OBVIOUS
  <2>2. W(FM!Tables, 1) = first /\ W(first, 2) = second
    OBVIOUS
  <2> HIDE DEF tokens, symbols, W, first, second
  <2>3. g[0] = FM!Tables /\ g[1] = first /\ g[2] = second
    BY <2>1
  <2>4. \A i \in 0 .. Len(tokens) : g[i] = F(g)[i]
    BY <2>1, <2>2, <2>3
  <2>5. g = F(g)
    BY <2>4
  <2> HIDE DEF g, F
  <2> QED
    BY <2>5
<1>2. /\ \A i \in 1 .. Len(tokens) :
            FM!CanWithdraw(after[i - 1], auth, n, tokens[i], symbols[i])
      /\ FM!Becomes(after[Len(tokens)])
  BY DEF FM!withdrawmtto
<1>3. Len(tokens) = 2 /\ 0 .. Len(tokens) = {0, 1, 2} /\ 1 .. Len(tokens) = {1, 2}
  OBVIOUS
<1>4. /\ tokens[1] = t1 /\ symbols[1] = s1 /\ tokens[2] = t2 /\ symbols[2] = s2
  OBVIOUS
<1> HIDE DEF after, tokens, symbols
<1>5. after[0] = FM!Tables
  BY <1>1, <1>3
<1>6. after[1] = W(after[0], 1)
  BY <1>1, <1>3
<1>7. after[2] = W(after[1], 2)
  BY <1>1, <1>3
<1>8. QED
  BY <1>2, <1>3, <1>4, <1>5, <1>6, <1>7

\* The owner's two actions write a row the contract pays for, after comparing
\* the new total with what is held.
LEMMA AllowedOK ==
    ASSUME FM!Parameters, NEW d, BooksOK(d), NEW n \in Node, NEW s \in Symbol,
           NEW row \in FM!Allowance, row.payer = Self, <<row.token, s>> \in Assets,
           Replaceable(d.allowances, n, s, row),
           NEW t \in FeeToken, <<t, s>> \in Assets,
           TotalIn(d, t) - FM!AmountOf(d.allowances[n][s]) + row.amount <= d.held[<<t, s>>]
    PROVE  BooksOK(Booked(d, n, s, row, t, d.held[<<t, s>>]))
<1> DEFINE rows == d.allowances
           after == Replaced(rows, n, s, row)
           h == d.held[<<t, s>>]
           old == FM!AmountOf(rows[n][s])
<1>1. rows \in AllRows /\ h \in Nat
  BY DEF BooksOK, BooksTyped
<1>2. RowOK(row, s)
  BY DEF RowOK
<1>3. Replaceable(rows, n, s, row) /\ TotalIn(d, t) - old + row.amount <= h
  OBVIOUS
<1>4. ASSUME {t} \in FM!ClosedSets PROVE FM!AllowedOf(after, <<t, s>>) <= h
  <2>1. row.token = t
    BY <1>4, ClosedTokens
  <2>2. TotalSum(d, {t}) = FM!AllowedInAll(rows, {t})
    BY <1>4 DEF BooksOK
  <2>3. TotalSum(d, {t}) = TotalIn(d, t)
    BY TotalsAreInts DEF BooksOK, BooksTyped
  <2> HIDE DEF rows, h
  <2>4. after \in AllRows
    BY <1>1, ReplacedRows
  <2>5. FM!AllowedInAll(after, {t}) = FM!AllowedInAll(rows, {t}) - old + row.amount
    BY <1>1, <1>3, <2>1, ReplacedSums
  <2> HIDE DEF after, old
  <2>6. /\ FM!AllowedOf(after, <<t, s>>) <= FM!AllowedInAll(after, {t})
        /\ FM!AllowedOf(after, <<t, s>>) \in Nat /\ FM!AllowedInAll(after, {t}) \in Nat
    BY <2>4, AllowedBounds
  <2>7. FM!AllowedInAll(after, {t}) = TotalIn(d, t) - old + row.amount
    BY <2>2, <2>3, <2>5
  <2> QED
    BY <1>1, <1>3, <2>6, <2>7
<1>5. {t} \in FM!ClosedSets =>
         FM!AllowedOf(Replaced(d.allowances, n, s, row), <<t, s>>) <= h
  BY <1>4
<1>6. Replaceable(d.allowances, n, s, row)
  OBVIOUS
<1> HIDE DEF h, rows, after, old
<1>7. BooksOK(Booked(d, n, s, row, t, h))
  BY <1>1, <1>2, <1>5, <1>6, BookedOK
<1> QED
  BY <1>7 DEF h

LEMMA SetAllowanceOK ==
    ASSUME FM!Parameters, BooksOK(FM!Tables), NEW auth, NEW n \in Node, NEW t \in FeeToken,
           NEW s \in Symbol, <<t, s>> \in Assets, NEW v \in Nat,
           FM!setallowance(auth, n, t, s, v)
    PROVE  BooksOK(FM!Tables)'
<1> DEFINE row == [token |-> t, amount |-> v, payer |-> Self]
           rows == allowances
           old == FM!AmountOf(rows[n][s])
<1>1. /\ FM!Tables.held = fees /\ FM!Tables.total = total /\ FM!Tables.allowances = allowances
  BY DEF FM!Tables
<1>2. /\ fees \in [Assets -> Nat] /\ total \in [FeeToken -> Int \cup {Unset}]
      /\ allowances \in AllRows
  BY <1>1 DEF BooksOK, BooksTyped
<1>3. Replaceable(rows, n, s, row)
  BY DEF FM!setallowance, FM!CanSetAllowance, Replaceable
<1>4. TotalIn(FM!Tables, t) - old + v <= fees[<<t, s>>]
  BY <1>1 DEF FM!setallowance, FM!CanSetAllowance, TotalIn, FM!AmountOf, FM!NewTotal, FM!Balance
<1>5. BooksOK(Booked(FM!Tables, n, s, row, t, fees[<<t, s>>]))
  <2>1. /\ row \in FM!Allowance /\ row.payer = Self /\ row.token = t /\ row.amount = v
        /\ <<row.token, s>> \in Assets
    BY DEF FM!Allowance
  <2>2. /\ Replaceable(FM!Tables.allowances, n, s, row)
        /\ TotalIn(FM!Tables, t) - FM!AmountOf(FM!Tables.allowances[n][s]) + row.amount
             <= FM!Tables.held[<<t, s>>]
    BY <1>1, <1>3, <1>4
  <2> HIDE DEF row
  <2> QED
    BY <1>1, <2>1, <2>2, AllowedOK
<1>6. /\ allowances' = Replaced(allowances, n, s, row)
      /\ total' = [total EXCEPT ![t] = TotalIn(FM!Tables, t) - old + v]
      /\ fees' = [fees EXCEPT ![<<t, s>>] = fees[<<t, s>>]]
  BY <1>1, <1>2 DEF FM!setallowance, Replaced, TotalIn, FM!AmountOf, FM!NewTotal
<1>7. Booked(FM!Tables, n, s, row, t, fees[<<t, s>>]) = FM!Tables'
  BY <1>1, <1>6 DEF Booked, FM!Tables
<1> QED
  BY <1>5, <1>7

LEMMA IncAllowanceOK ==
    ASSUME FM!Parameters, BooksOK(FM!Tables), NEW auth, NEW n \in Node, NEW t \in FeeToken,
           NEW s \in Symbol, <<t, s>> \in Assets, NEW v \in Nat,
           FM!incallowance(auth, n, t, s, v)
    PROVE  BooksOK(FM!Tables)'
<1> DEFINE old == allowances[n][s]
           w == old.amount + v
           row == [token |-> old.token, amount |-> w, payer |-> Self]
<1>1. /\ FM!Tables.held = fees /\ FM!Tables.total = total /\ FM!Tables.allowances = allowances
  BY DEF FM!Tables
<1>2. /\ fees \in [Assets -> Nat] /\ total \in [FeeToken -> Int \cup {Unset}]
      /\ allowances \in AllRows
  BY <1>1 DEF BooksOK, BooksTyped
<1>3. old # Unset /\ total[t] # Unset /\ fees[<<t, s>>] >= total[t] + v
  BY DEF FM!incallowance, FM!CanIncrease, FM!Balance
<1>4. old \in FM!Allowance /\ <<old.token, s>> \in Assets
  BY <1>1, <1>3, RowPaired
<1>5. FM!AmountOf(old) = old.amount /\ old.amount \in Nat /\ w \in Nat
  BY <1>3, <1>4 DEF FM!AmountOf, FM!Allowance
<1>6. total[t] \in Int /\ TotalIn(FM!Tables, t) = total[t]
  BY <1>1, <1>2, <1>3 DEF TotalIn
<1>7. Replaceable(allowances, n, s, row)
  BY DEF Replaceable
<1>9. allowances' = Replaced(allowances, n, s, row)
  <2>1. allowances' = [allowances EXCEPT ![n][s] =
                         [token |-> @.token, amount |-> @.amount + v, payer |-> Self]]
    BY DEF FM!incallowance
  <2>2. allowances' = [allowances EXCEPT ![n][s] =
                         [token |-> old.token, amount |-> w, payer |-> Self]]
    BY <2>1
  <2> QED
    BY <2>2 DEF Replaced
<1>8. /\ row \in FM!Allowance /\ row.payer = Self /\ row.token = old.token /\ row.amount = w
  BY <1>4, <1>5 DEF FM!Allowance
<1> HIDE DEF old, w, row
<1>10. TotalIn(FM!Tables, t) - FM!AmountOf(old) + w = total[t] + v
  BY <1>5, <1>6 DEF w
<1>11. TotalIn(FM!Tables, t) - FM!AmountOf(FM!Tables.allowances[n][s]) + w <= FM!Tables.held[<<t, s>>]
  <2>1. fees[<<t, s>>] \in Nat
    BY <1>2
  <2> QED
    BY <1>1, <1>3, <1>6, <1>10, <2>1 DEF old
<1>12. BooksOK(Booked(FM!Tables, n, s, row, t, fees[<<t, s>>]))
  BY <1>1, <1>4, <1>7, <1>8, <1>11, AllowedOK
<1>13. /\ total' = [total EXCEPT ![t] = TotalIn(FM!Tables, t) - FM!AmountOf(old) + w]
       /\ fees' = [fees EXCEPT ![<<t, s>>] = fees[<<t, s>>]]
  <2>1. total' = [total EXCEPT ![t] = total[t] + v] /\ fees' = fees
    BY DEF FM!incallowance
  <2> QED
    BY <1>2, <1>10, <2>1
<1>14. Booked(FM!Tables, n, s, row, t, fees[<<t, s>>]) = FM!Tables'
  BY <1>1, <1>8, <1>9, <1>13 DEF Booked, FM!Tables, old
<1> QED
  BY <1>12, <1>14

LEMMA ReceiveOK ==
    ASSUME FM!Parameters, BooksOK(FM!Tables), NEW x \in Assets, NEW v \in Nat, FM!Receive(x, v)
    PROVE  BooksOK(FM!Tables)'
<1>1. /\ FM!Tables.held = fees /\ FM!Tables.total = total /\ FM!Tables.allowances = allowances
  BY DEF FM!Tables
<1>2. /\ fees \in [Assets -> Nat] /\ total \in [FeeToken -> Int \cup {Unset}]
      /\ allowances \in AllRows
      /\ \A n \in Node, s \in Symbol : RowOK(allowances[n][s], s)
      /\ \A T \in FM!ClosedSets : TotalSum(FM!Tables, T) = FM!AllowedInAll(allowances, T)
      /\ \A y \in Assets : {y[1]} \in FM!ClosedSets => FM!AllowedOf(allowances, y) <= fees[y]
  BY <1>1 DEF BooksOK, BooksTyped
<1> DEFINE d == [held |-> fees', total |-> total, allowances |-> allowances]
<1>3. FM!Tables' = d
  BY DEF FM!Tables, FM!Receive
<1>4. fees' = [fees EXCEPT ![x] = fees[x] + v] /\ fees' \in [Assets -> Nat]
  BY <1>2 DEF FM!Receive
<1>5. \A y \in Assets : {y[1]} \in FM!ClosedSets => FM!AllowedOf(allowances, y) <= fees'[y]
  <2>1. \A y \in Assets : FM!AllowedOf(allowances, y) \in Nat
    <3> TAKE y \in Assets
    <3>1. PICK t \in FeeToken, s \in Symbol : y = <<t, s>>
      BY DEF FM!Parameters
    <3>2. FM!AllowedOf(allowances, <<t, s>>) \in Nat
      BY <1>2, AllowedBounds
    <3> QED
      BY <3>1, <3>2
  <2> QED
    BY <1>2, <1>4, <2>1
<1>6. \A T : TotalSum(d, T) = TotalSum(FM!Tables, T)
  BY <1>1 DEF TotalSum, TotalIn
<1>8. \A T \in FM!ClosedSets : TotalSum(d, T) = FM!AllowedInAll(d.allowances, T)
  BY <1>2, <1>6
<1>9. BooksTyped(d)
  BY <1>2, <1>4 DEF BooksTyped
<1>10. d.held = fees' /\ d.allowances = allowances
  OBVIOUS
<1> HIDE DEF d
<1>7. BooksOK(d)
  BY <1>2, <1>5, <1>8, <1>9, <1>10 DEF BooksOK
<1> QED
  BY <1>3, <1>7

-----------------------------------------------------------------------------
(***************************************************************************)
(* The inductive invariant and the theorems.                               *)
(***************************************************************************)
BooksInv == BooksOK(FM!Tables)

LEMMA BooksInit == ASSUME FM!Parameters, FM!Init PROVE BooksInv
<1> DEFINE none == [n \in Node |-> [s \in Symbol |-> Unset]]
<1>1. /\ FM!Tables.held = [x \in Assets |-> 0] /\ FM!Tables.total = [t \in FeeToken |-> Unset]
      /\ FM!Tables.allowances = none
  BY DEF FM!Init, FM!Tables
<1>2. none \in AllRows
  BY DEF AllRows
<1>3. \A n \in Node, s \in Symbol : none[n][s] = Unset
  OBVIOUS
<1>4. ASSUME NEW T, NEW r \in Node \X Symbol PROVE FM!Allowed(none, T)[r] = 0
  <2>1. PICK m \in Node, q \in Symbol : r = <<m, q>>
    OBVIOUS
  <2>2. m \in Node /\ q \in Symbol /\ none[m][q] = Unset
    BY <1>3, <2>1
  <2> HIDE DEF none
  <2>3. FM!AmountIn(none[m][q], T) = 0
    BY <2>2 DEF FM!AmountIn
  <2>4. FM!Allowed(none, T)[<<m, q>>] = FM!AmountIn(none[m][q], T)
    <3>1. <<m, q>> \in Node \X Symbol /\ <<m, q>>[1] = m /\ <<m, q>>[2] = q
      BY <2>2
    <3>2. \A p \in Node \X Symbol : FM!Allowed(none, T)[p] = FM!AmountIn(none[p[1]][p[2]], T)
      BY DEF FM!Allowed
    <3> QED
      BY <3>1, <3>2
  <2> QED
    BY <2>1, <2>3, <2>4
<1> HIDE DEF none
<1>5. ASSUME NEW T PROVE FM!AllowedInAll(none, T) = 0
  <2> DEFINE f == FM!Allowed(none, T)
             S == Node \X Symbol
  <2>1. IsFiniteSet(S)
    <3>1. IsFiniteSet(Node) /\ IsFiniteSet(Symbol)
      BY DEF FM!Parameters, FM!IsFiniteSet, IsFiniteSet
    <3> QED
      BY <3>1, FS_Product
  <2>2. \A r \in S : f[r] = 0
    BY <1>4
  <2> HIDE DEF f, S
  <2>3. SumFunctionOnSet(f, S) = 0
    BY <2>1, <2>2, SumZero
  <2> QED
    BY <2>3, AllowedInAllSum DEF f, S
<1>6. ASSUME NEW x \in Assets PROVE FM!AllowedOf(none, x) <= 0
  <2>1. PICK t \in FeeToken, s \in Symbol : x = <<t, s>>
    BY DEF FM!Parameters
  <2>2. t \in FeeToken /\ s \in Symbol
    BY <2>1
  <2>3. FM!AllowedOf(none, <<t, s>>) <= FM!AllowedInAll(none, {t})
    BY <1>2, <2>2, AllowedBounds
  <2> QED
    BY <1>5, <2>1, <2>3
<1>7. ASSUME NEW T \in FM!ClosedSets PROVE TotalSum(FM!Tables, T) = FM!AllowedInAll(none, T)
  <2> DEFINE f == [t \in FeeToken |-> TotalIn(FM!Tables, t)]
  <2>1. T \subseteq FeeToken /\ IsFiniteSet(FeeToken)
    BY DEF FM!ClosedSets, FM!Parameters, FM!IsFiniteSet, IsFiniteSet
  <2>2. IsFiniteSet(T)
    BY <2>1, FS_Subset
  <2>3. \A t \in T : f[t] = 0
    BY <1>1, <2>1 DEF TotalIn
  <2> HIDE DEF f
  <2>4. SumFunctionOnSet(f, T) = 0
    BY <2>2, <2>3, SumZero
  <2> QED
    BY <1>5, <2>4 DEF TotalSum, f
<1>8. \A x \in Assets : FM!AllowedOf(none, x) <= FM!Tables.held[x]
  BY <1>1, <1>6
<1>9. BooksTyped(FM!Tables)
  BY <1>1, <1>2 DEF BooksTyped
<1>10. \A n \in Node, s \in Symbol : RowOK(none[n][s], s)
  BY <1>3 DEF RowOK, none
<1> QED
  BY <1>1, <1>7, <1>8, <1>9, <1>10 DEF BooksInv, BooksOK

\* What a step of Withdraw does: one withdrawal, or two by the same node.
LEMMA WithdrawSteps ==
    ASSUME FM!Parameters, BooksInv, NEW auth, FM!Withdraw(auth)
    PROVE  /\ BooksInv'
           /\ \E n \in Node : \E x \in Assets :
                 \/ TakesItsOwn(FM!Tables, FM!Tables', auth, n, x[1], x[2])
                 \/ \E y \in Assets : \E d :
                       /\ TakesItsOwn(FM!Tables, d, auth, n, x[1], x[2])
                       /\ TakesItsOwn(d, FM!Tables', auth, n, y[1], y[2])
<1>1. PICK n \in Node, x \in Assets :
         \/ FM!withdrawto(auth, n, x[1], x[2])
         \/ \E y \in Assets : FM!withdrawmtto(auth, n, <<x[1], y[1]>>, <<x[2], y[2]>>)
  BY DEF FM!Withdraw
<1>2. \A y \in Assets : y[1] \in FeeToken /\ y[2] \in Symbol
  BY DEF FM!Parameters
<1>3. BooksOK(FM!Tables)
  BY DEF BooksInv
<1> DEFINE first == FM!Withdrawn(FM!Tables, n, x[1], x[2])
<1>4. \A d : FM!Becomes(FM!Withdrawn(d, n, x[1], x[2])) => FM!Tables' = FM!Withdrawn(d, n, x[1], x[2])
  BY DEF FM!Becomes, FM!Tables, FM!Withdrawn
<1>5. CASE FM!withdrawto(auth, n, x[1], x[2])
  <2>1. FM!CanWithdraw(FM!Tables, auth, n, x[1], x[2]) /\ FM!Tables' = first
    BY <1>4, <1>5 DEF FM!withdrawto
  <2>2. BooksOK(first) /\ TakesItsOwn(FM!Tables, first, auth, n, x[1], x[2])
    BY <1>2, <1>3, <2>1, WithdrawnOK
  <2> HIDE DEF first
  <2> QED
    BY <2>1, <2>2 DEF BooksInv
<1>6. CASE \E y \in Assets : FM!withdrawmtto(auth, n, <<x[1], y[1]>>, <<x[2], y[2]>>)
  <2>1. PICK y \in Assets : FM!withdrawmtto(auth, n, <<x[1], y[1]>>, <<x[2], y[2]>>)
    BY <1>6
  <2> DEFINE second == FM!Withdrawn(first, n, y[1], y[2])
  <2>2. /\ FM!CanWithdraw(FM!Tables, auth, n, x[1], x[2])
        /\ FM!CanWithdraw(first, auth, n, y[1], y[2]) /\ FM!Becomes(second)
    BY <2>1, TwoWithdrawals
  <2>3. FM!Tables' = second
    BY <2>2 DEF FM!Becomes, FM!Tables, FM!Withdrawn
  <2>4. BooksOK(first) /\ TakesItsOwn(FM!Tables, first, auth, n, x[1], x[2])
    BY <1>2, <1>3, <2>2, WithdrawnOK
  <2> HIDE DEF first
  <2>5. BooksOK(second) /\ TakesItsOwn(first, second, auth, n, y[1], y[2])
    BY <1>2, <2>2, <2>4, WithdrawnOK
  <2> HIDE DEF second
  <2> QED
    BY <2>3, <2>4, <2>5 DEF BooksInv
<1> QED
  BY <1>1, <1>5, <1>6

LEMMA BooksNext == ASSUME FM!Parameters, BooksInv, [FM!Next]_FM!vars PROVE BooksInv'
<1>1. \A y \in Assets : y[1] \in FeeToken /\ y[2] \in Symbol /\ y = <<y[1], y[2]>>
  BY DEF FM!Parameters
<1>2. BooksOK(FM!Tables) /\ Values \subseteq Nat /\ Fees \subseteq Nat
  BY DEF BooksInv, FM!Parameters
<1>3. CASE \E auth \in Signatures, n \in Node, x \in Assets, v \in Values :
             FM!setallowance(auth, n, x[1], x[2], v)
  BY <1>1, <1>2, <1>3, SetAllowanceOK DEF BooksInv
<1>4. CASE \E auth \in Signatures, n \in Node, x \in Assets, v \in Values :
             FM!incallowance(auth, n, x[1], x[2], v)
  BY <1>1, <1>2, <1>4, IncAllowanceOK DEF BooksInv
<1>5. CASE \E auth \in Signatures : FM!Withdraw(auth)
  BY <1>5, WithdrawSteps
<1>6. CASE \E x \in Assets, v \in Fees : FM!Receive(x, v)
  BY <1>2, <1>6, ReceiveOK DEF BooksInv
<1>7. CASE UNCHANGED FM!vars
  BY <1>7 DEF FM!vars, BooksInv, FM!Tables, BooksOK, BooksTyped, TotalSum, TotalIn
<1> QED
  BY <1>3, <1>4, <1>5, <1>6, <1>7 DEF FM!Next

LEMMA BooksInductive == ASSUME FM!Parameters PROVE FM!Spec => []BooksInv
BY BooksInit, BooksNext, PTL DEF FM!Spec

\* The totals of tokens that share no symbol with others are what their nodes
\* may withdraw together, through every setallowance, incallowance, withdrawto
\* and withdrawmtto.
THEOREM TotalSafety ==
    ASSUME FM!Parameters PROVE FM!Spec => []TotalIsSum
<1>1. \A T : FM!TotalOf(T) = TotalSum(FM!Tables, T)
  <2>1. [t \in FeeToken |-> IF total[t] = Unset THEN 0 ELSE total[t]] =
        [t \in FeeToken |-> TotalIn(FM!Tables, t)]
    BY DEF TotalIn, FM!Tables
  <2> QED
    BY <2>1, SameFeeSums DEF FM!TotalOf, TotalSum
<1>2. BooksInv => FM!TotalIsSum
  <2> HAVE BooksInv
  <2>1. \A T \in FM!ClosedSets : TotalSum(FM!Tables, T) = FM!AllowedInAll(FM!Tables.allowances, T)
    BY DEF BooksInv, BooksOK
  <2>2. FM!Tables.allowances = allowances
    BY DEF FM!Tables
  <2> QED
    BY <1>1, <2>1, <2>2 DEF FM!TotalIsSum
<1> QED
  BY <1>2, BooksInductive, PTL DEF TotalIsSum

\* What the rows allow of an asset, whose token shares no symbol, is in the
\* contract's balance of it.
THEOREM CoveredSafety ==
    ASSUME FM!Parameters PROVE FM!Spec => []AllowancesCovered
<1>1. ASSUME BooksInv, NEW x \in Assets, {x[1]} \in FM!ClosedSets
      PROVE  FM!AllowedOf(allowances, x) <= FM!Balance(x[1], x[2])
  <2>1. x = <<x[1], x[2]>>
    BY DEF FM!Parameters
  <2>2. FM!AllowedOf(allowances, x) <= fees[x]
    BY <1>1 DEF BooksInv, BooksOK, FM!Tables
  <2> QED
    BY <2>1, <2>2 DEF FM!Balance
<1>2. BooksInv => FM!AllowancesCovered
  BY <1>1 DEF FM!AllowancesCovered
<1> QED
  BY <1>2, BooksInductive, PTL DEF AllowancesCovered

\* The tokens a withdrawal moves are all that a node's row allows, which then
\* allows nothing, and the row's own token if that shares no symbol; where
\* payers sign, the node signed: withdrawto asks for no signature, the row that
\* moves to the node's memory does.
THEOREM OwnSafety ==
    ASSUME FM!Parameters PROVE FM!Spec => NodesTakeTheirOwn
<1> DEFINE Fair(auth, n, x) ==
              /\ fees[x] - fees'[x] = FM!AmountOf(allowances[n][x[2]])
              /\ FM!AmountOf(allowances'[n][x[2]]) = 0
              /\ {x[1]} \in FM!ClosedSets => allowances[n][x[2]].token = x[1]
              /\ PayersSign => n \in auth
<1>1. ASSUME BooksInv, NEW x \in Assets, fees'[x] < fees[x], NEW auth \in Signatures, FM!Withdraw(auth)
      PROVE  \E n \in Node : Fair(auth, n, x)
  <2>1. PICK n \in Node, y \in Assets :
           \/ TakesItsOwn(FM!Tables, FM!Tables', auth, n, y[1], y[2])
           \/ \E z \in Assets : \E d :
                 /\ TakesItsOwn(FM!Tables, d, auth, n, y[1], y[2])
                 /\ TakesItsOwn(d, FM!Tables', auth, n, z[1], z[2])
    BY <1>1, WithdrawSteps
  <2>2. \A z \in Assets : z[2] \in Symbol /\ z = <<z[1], z[2]>>
    BY DEF FM!Parameters
  <2>4. /\ FM!Tables.held = fees /\ FM!Tables.allowances = allowances
        /\ FM!Tables'.held = fees' /\ FM!Tables'.allowances = allowances'
    BY DEF FM!Tables
  <2>5. fees \in [Assets -> Nat] /\ allowances \in AllRows
    BY <1>1, <2>4 DEF BooksInv, BooksOK, BooksTyped
  <2>6. \A m \in Node, s \in Symbol : FM!AmountOf(allowances[m][s]) \in Nat
    BY <2>5, RowTypes
  <2>7. CASE TakesItsOwn(FM!Tables, FM!Tables', auth, n, y[1], y[2])
    <3>1. /\ PayersSign => n \in auth
          /\ {y[1]} \in FM!ClosedSets => allowances[n][y[2]].token = y[1]
          /\ fees' = [fees EXCEPT ![y] = @ - FM!AmountOf(allowances[n][y[2]])]
          /\ FM!AmountOf(allowances'[n][y[2]]) = 0
      BY <2>2, <2>4, <2>7 DEF TakesItsOwn
    <3>2. x = y
      BY <1>1, <2>5, <3>1
    <3>3. fees'[x] = fees[x] - FM!AmountOf(allowances[n][x[2]])
      BY <2>5, <3>1, <3>2
    <3>4. fees[x] \in Nat /\ FM!AmountOf(allowances[n][x[2]]) \in Nat
      BY <2>2, <2>5, <2>6
    <3>5. fees[x] - fees'[x] = FM!AmountOf(allowances[n][x[2]])
      BY <3>3, <3>4
    <3> QED
      BY <3>1, <3>2, <3>5
  <2>8. CASE \E z \in Assets : \E d :
                 /\ TakesItsOwn(FM!Tables, d, auth, n, y[1], y[2])
                 /\ TakesItsOwn(d, FM!Tables', auth, n, z[1], z[2])
    <3>0. PICK z \in Assets : \E d :
             /\ TakesItsOwn(FM!Tables, d, auth, n, y[1], y[2])
             /\ TakesItsOwn(d, FM!Tables', auth, n, z[1], z[2])
      BY <2>8
    <3>1. PICK d : /\ TakesItsOwn(FM!Tables, d, auth, n, y[1], y[2])
                   /\ TakesItsOwn(d, FM!Tables', auth, n, z[1], z[2])
      BY <3>0
    <3>2. /\ PayersSign => n \in auth
          /\ {y[1]} \in FM!ClosedSets => allowances[n][y[2]].token = y[1]
          /\ d.held = [fees EXCEPT ![y] = @ - FM!AmountOf(allowances[n][y[2]])]
          /\ FM!AmountOf(d.allowances[n][y[2]]) = 0
          /\ \A q \in Symbol \ {y[2]} : d.allowances[n][q] = allowances[n][q]
      BY <2>2, <2>4, <3>1 DEF TakesItsOwn
    <3>3. /\ FM!AmountOf(d.allowances[n][z[2]]) > 0
          /\ {z[1]} \in FM!ClosedSets => d.allowances[n][z[2]].token = z[1]
          /\ fees' = [d.held EXCEPT ![z] = @ - FM!AmountOf(d.allowances[n][z[2]])]
          /\ FM!AmountOf(allowances'[n][z[2]]) = 0
          /\ \A q \in Symbol \ {z[2]} : allowances'[n][q] = d.allowances[n][q]
      BY <2>2, <2>4, <3>1 DEF TakesItsOwn
    <3>4. y[2] # z[2] /\ d.allowances[n][z[2]] = allowances[n][z[2]]
      BY <2>2, <3>2, <3>3
    <3>5. x = y \/ x = z
      BY <1>1, <2>5, <3>2, <3>3
    <3>6. fees'[x] = fees[x] - FM!AmountOf(allowances[n][x[2]])
      BY <2>5, <3>2, <3>3, <3>4, <3>5
    <3>7. FM!AmountOf(allowances'[n][x[2]]) = 0
      BY <2>2, <3>2, <3>3, <3>4, <3>5
    <3>8. fees[x] \in Nat /\ FM!AmountOf(allowances[n][x[2]]) \in Nat
      BY <2>2, <2>5, <2>6
    <3>9. fees[x] - fees'[x] = FM!AmountOf(allowances[n][x[2]])
      BY <3>6, <3>8
    <3>10. {x[1]} \in FM!ClosedSets => allowances[n][x[2]].token = x[1]
      BY <3>2, <3>3, <3>4, <3>5
    <3> QED
      BY <3>2, <3>7, <3>9, <3>10
  <2> QED
    BY <2>1, <2>7, <2>8
<1>2. BooksInv /\ [FM!Next]_FM!vars =>
        [ \A x \in Assets : fees'[x] < fees[x] =>
          \A auth \in Signatures : FM!Withdraw(auth) =>
              \E n \in Node :
                  /\ fees[x] - fees'[x] = FM!AmountOf(allowances[n][x[2]])
                  /\ FM!AmountOf(allowances'[n][x[2]]) = 0
                  /\ {x[1]} \in FM!ClosedSets => allowances[n][x[2]].token = x[1]
                  /\ PayersSign => n \in auth ]_FM!vars
  BY <1>1
<1> QED
  BY <1>2, BooksInductive, PTL DEF FM!Spec, NodesTakeTheirOwn, FM!NodesTakeTheirOwn

-----------------------------------------------------------------------------
(***************************************************************************)
(* A transaction's actions, one after the other.                           *)
(***************************************************************************)
LEMMA AfterFirst == ASSUME NEW tables, NEW m PROVE L!AfterAll(tables, <<m>>) = L!After(tables, m)
<1> DEFINE messages == <<m>>
           F(f) == [i \in 0 .. Len(messages) |->
                      IF i = 0 THEN tables ELSE L!After(f[i - 1], messages[i])]
           after == CHOOSE f : f = F(f)
           first == L!After(tables, m)
           g == [i \in 0 .. Len(messages) |-> IF i = 0 THEN tables ELSE first]
<1>1. Len(messages) = 1 /\ 0 .. Len(messages) = {0, 1} /\ messages[1] = m
  OBVIOUS
<1>2. L!AfterAll(tables, messages) = after[Len(messages)]
  BY DEF L!AfterAll
<1> HIDE DEF messages, first
<1>3. g[0] = tables /\ g[1] = L!After(tables, m)
  BY <1>1 DEF first
<1>4. \A i \in 0 .. Len(messages) : g[i] = F(g)[i]
  BY <1>1, <1>3
<1>5. g = F(g)
  BY <1>4
<1> HIDE DEF g, F
<1>6. after = F(after)
  BY <1>5
<1> HIDE DEF after
<1>7. after[0] = tables /\ after[1] = L!After(after[0], m)
  BY <1>1, <1>6 DEF F
<1> QED
  BY <1>1, <1>2, <1>7 DEF messages

LEMMA AfterTwo ==
    ASSUME NEW tables, NEW m1, NEW m2
    PROVE  L!AfterAll(tables, <<m1, m2>>) = L!After(L!After(tables, m1), m2)
<1> DEFINE messages == <<m1, m2>>
           F(f) == [i \in 0 .. Len(messages) |->
                      IF i = 0 THEN tables ELSE L!After(f[i - 1], messages[i])]
           after == CHOOSE f : f = F(f)
           first == L!After(tables, m1)
           second == L!After(first, m2)
           g == [i \in 0 .. Len(messages) |-> IF i = 0 THEN tables ELSE
                                              IF i = 1 THEN first ELSE second]
<1>1. /\ Len(messages) = 2 /\ 0 .. Len(messages) = {0, 1, 2}
      /\ messages[1] = m1 /\ messages[2] = m2
  OBVIOUS
<1>2. L!AfterAll(tables, messages) = after[Len(messages)]
  BY DEF L!AfterAll
<1> HIDE DEF messages, first, second
<1>3. g[0] = tables /\ g[1] = L!After(tables, m1) /\ g[2] = L!After(g[1], m2)
  BY <1>1 DEF first, second
<1>4. \A i \in 0 .. Len(messages) : g[i] = F(g)[i]
  BY <1>1, <1>3
<1>5. g = F(g)
  BY <1>4
<1> HIDE DEF g, F
<1>6. after = F(after)
  BY <1>5
<1> HIDE DEF after
<1>7. after[0] = tables /\ after[1] = L!After(after[0], m1) /\ after[2] = L!After(after[1], m2)
  BY <1>1, <1>6 DEF F
<1> QED
  BY <1>1, <1>2, <1>7 DEF messages

LEMMA AfterThree ==
    ASSUME NEW tables, NEW m1, NEW m2, NEW m3
    PROVE  L!AfterAll(tables, <<m1, m2, m3>>)
             = L!After(L!After(L!After(tables, m1), m2), m3)
<1> DEFINE messages == <<m1, m2, m3>>
           F(f) == [i \in 0 .. Len(messages) |->
                      IF i = 0 THEN tables ELSE L!After(f[i - 1], messages[i])]
           after == CHOOSE f : f = F(f)
           first == L!After(tables, m1)
           second == L!After(first, m2)
           third == L!After(second, m3)
           g == [i \in 0 .. Len(messages) |-> IF i = 0 THEN tables ELSE
                                              IF i = 1 THEN first ELSE
                                              IF i = 2 THEN second ELSE third]
<1>1. /\ Len(messages) = 3 /\ 0 .. Len(messages) = {0, 1, 2, 3}
      /\ messages[1] = m1 /\ messages[2] = m2 /\ messages[3] = m3
  OBVIOUS
<1>2. L!AfterAll(tables, messages) = after[Len(messages)]
  BY DEF L!AfterAll
<1> HIDE DEF messages, first, second, third
<1>3. /\ g[0] = tables /\ g[1] = L!After(tables, m1) /\ g[2] = L!After(g[1], m2)
      /\ g[3] = L!After(g[2], m3)
  BY <1>1 DEF first, second, third
<1>4. \A i \in 0 .. Len(messages) : g[i] = F(g)[i]
  BY <1>1, <1>3
<1>5. g = F(g)
  BY <1>4
<1> HIDE DEF g, F
<1>6. after = F(after)
  BY <1>5
<1> HIDE DEF after
<1>7. /\ after[0] = tables /\ after[1] = L!After(after[0], m1)
      /\ after[2] = L!After(after[1], m2) /\ after[3] = L!After(after[2], m3)
  BY <1>1, <1>6 DEF F
<1> QED
  BY <1>1, <1>2, <1>7 DEF messages

LEMMA AfterNone == ASSUME NEW m PROVE L!After({}, m) = {}
BY DEF L!After

LEMMA Joined ==
    ASSUME NEW a, NEW b, NEW c
    PROVE  /\ << a >> \o << b >> = << a, b >>
           /\ << a >> \o << b, c >> = << a, b, c >>
<1> DEFINE S == {a, b, c}
           s == << a >>
           t == << b >>
           u == << b, c >>
           v == << a, b >>
           w == << a, b, c >>
<1>1. /\ s \in Seq(S) /\ t \in Seq(S) /\ u \in Seq(S) /\ v \in Seq(S) /\ w \in Seq(S)
      /\ Len(s) = 1 /\ Len(t) = 1 /\ Len(u) = 2 /\ Len(v) = 2 /\ Len(w) = 3
      /\ s[1] = a /\ t[1] = b /\ u[1] = b /\ u[2] = c
      /\ v[1] = a /\ v[2] = b /\ w[1] = a /\ w[2] = b /\ w[3] = c
  OBVIOUS
<1> HIDE DEF S, s, t, u, v, w
<1>2. s \o t = v
  <2>1. /\ s \o t \in Seq(S) /\ Len(s \o t) = 2
        /\ (s \o t)[1] = a /\ (s \o t)[2] = b
    BY <1>1, ConcatProperties
  <2>2. \A i \in 1 .. 2 : (s \o t)[i] = v[i]
    BY <1>1, <2>1
  <2> QED
    BY <1>1, <2>1, <2>2, SeqEqual
<1>3. s \o u = w
  <2>1. /\ s \o u \in Seq(S) /\ Len(s \o u) = Len(s) + Len(u)
        /\ \A i \in 1 .. Len(s) + Len(u) :
              (s \o u)[i] = IF i <= Len(s) THEN s[i] ELSE u[i - Len(s)]
    BY <1>1, ConcatProperties
  <2>2. /\ Len(s \o u) = 3
        /\ (s \o u)[1] = w[1] /\ (s \o u)[2] = w[2] /\ (s \o u)[3] = w[3]
    BY <1>1, <2>1
  <2>3. \A i \in 1 .. 3 : (s \o u)[i] = w[i]
    BY <2>2
  <2> QED
    BY <1>1, <2>1, <2>2, <2>3, SeqEqual
<1> QED
  BY <1>2, <1>3 DEF s, t, u, v, w

\* What an action leaves of the tables when it is carried out.
Done(h, m) == [h EXCEPT ![<<m.code, m.symbol>>] = L!Booked(@, m)]

\* The actions that the lockbox sends.
Mints(r, m) == L!Message(r.xerc20, "mint", Self, m.from, r.xerc20_symbol, m.amount, m.memo)
Burns(m)    == L!Message(m.code, "burn", Self, Self, m.symbol, m.amount, m.memo)
Pays(r, m)  == L!Message(r.token, "transfer", Self, m.from, r.token_symbol, m.amount, m.memo)

\* One action of a token contract.
LEMMA AfterOne ==
    ASSUME NEW h, NEW m
    PROVE  L!After({h}, m) = IF L!Accepts(h, m) THEN {Done(h, m)} ELSE {}
<1> DEFINE x == <<m.code, m.symbol>>
<1>1. L!After({h}, m) =
        {[k EXCEPT ![x] = L!Booked(k[x], m)] : k \in {k \in {h} : L!Accepts(k, m)}}
  BY DEF L!After
<1>2. Done(h, m) = [h EXCEPT ![x] = L!Booked(h[x], m)]
  BY DEF Done
<1> HIDE DEF x
<1>3. CASE L!Accepts(h, m)
  <2>1. {k \in {h} : L!Accepts(k, m)} = {h}
    BY <1>3
  <2> QED
    BY <1>1, <1>2, <1>3, <2>1
<1>4. CASE ~L!Accepts(h, m)
  <2>1. {k \in {h} : L!Accepts(k, m)} = {}
    BY <1>4
  <2> QED
    BY <1>1, <1>4, <2>1
<1> QED
  BY <1>3, <1>4

\* A deposit is a transfer and a mint.
LEMMA DepositAfter ==
    ASSUME NEW h, NEW r, NEW m
    PROVE  L!AfterAll({h}, << m >> \o L!Minted(r, m)) =
              IF L!Accepts(h, m) /\ L!Accepts(Done(h, m), Mints(r, m))
              THEN {Done(Done(h, m), Mints(r, m))} ELSE {}
<1> DEFINE n == Mints(r, m)
           k == Done(h, m)
<1>1. L!Minted(r, m) = << n >>
  BY DEF L!Minted, Mints
<1> HIDE DEF n, k
<1>2. L!AfterAll({h}, << m >> \o << n >>) = L!After(L!After({h}, m), n)
  <2>1. << m >> \o << n >> = << m, n >>
    BY Joined
  <2>2. L!AfterAll({h}, << m, n >>) = L!After(L!After({h}, m), n)
    BY AfterTwo
  <2> QED
    BY <2>1, <2>2
<1>3. L!After({h}, m) = IF L!Accepts(h, m) THEN {k} ELSE {}
  BY AfterOne DEF k
<1>4. L!After({k}, n) = IF L!Accepts(k, n) THEN {Done(k, n)} ELSE {}
  BY AfterOne
<1>5. L!After({}, n) = {}
  BY AfterNone
<1> QED
  BY <1>1, <1>2, <1>3, <1>4, <1>5 DEF n, k

\* A withdrawal is a transfer or a mint, a burn, and a transfer.
LEMMA WithdrawalAfter ==
    ASSUME NEW h, NEW r, NEW m
    PROVE  L!AfterAll({h}, << m >> \o L!Released(r, m)) =
              IF /\ L!Accepts(h, m) /\ L!Accepts(Done(h, m), Burns(m))
                 /\ L!Accepts(Done(Done(h, m), Burns(m)), Pays(r, m))
              THEN {Done(Done(Done(h, m), Burns(m)), Pays(r, m))} ELSE {}
<1> DEFINE n == Burns(m)
           p == Pays(r, m)
           k == Done(h, m)
           l == Done(k, n)
<1>1. L!Released(r, m) = << n, p >>
  BY DEF L!Released, Burns, Pays
<1> HIDE DEF n, p, k, l
<1>2. L!AfterAll({h}, << m >> \o << n, p >>) = L!After(L!After(L!After({h}, m), n), p)
  <2>1. << m >> \o << n, p >> = << m, n, p >>
    BY Joined
  <2>2. L!AfterAll({h}, << m, n, p >>) = L!After(L!After(L!After({h}, m), n), p)
    BY AfterThree
  <2> QED
    BY <2>1, <2>2
<1>3. L!After({h}, m) = IF L!Accepts(h, m) THEN {k} ELSE {}
  BY AfterOne DEF k
<1>4. L!After({k}, n) = IF L!Accepts(k, n) THEN {l} ELSE {}
  BY AfterOne DEF l
<1>5. L!After({l}, p) = IF L!Accepts(l, p) THEN {Done(l, p)} ELSE {}
  BY AfterOne
<1>6. L!After({}, n) = {} /\ L!After({}, p) = {}
  BY AfterNone
<1> QED
  BY <1>1, <1>2, <1>3, <1>4, <1>5, <1>6 DEF n, p, k, l

-----------------------------------------------------------------------------
(***************************************************************************)
(* The tables after one action: who gains what, and the supply.            *)
(***************************************************************************)
PairTables == [PairAssets -> [L!Holders -> Nat]]

\* The lockbox's sums are the sums of SumProofs.
LEMMA SameHolderSums == \A f, S : L!SumFunctionOnSet(f, S) = SumFunctionOnSet(f, S)
BY DEF SumFunctionOnSet, FoldFunctionOnSet, MapThenFoldSet,
       L!SumFunctionOnSet, L!FoldFunctionOnSet, L!MapThenFoldSet

LEMMA HoldersFinite ==
    ASSUME L!Parameters PROVE IsFiniteSet(L!Holders)
<1>1. IsFiniteSet(Users)
  BY DEF L!Parameters, L!IsFiniteSet, IsFiniteSet
<1>2. IsFiniteSet(Users \cup {Self})
  BY <1>1, FS_AddElement
<1> QED
  BY <1>2 DEF L!Holders

\* An action that can be carried out, frozen accounts and maxima left aside.
Sound(h, m) ==
    /\ <<m.code, m.symbol>> \in PairAssets
    /\ m.name \in {"mint", "burn", "transfer"}
    /\ m.from \in L!Holders /\ m.to \in L!Holders /\ m.amount \in Nat
    /\ m.name # "mint" => h[<<m.code, m.symbol>>][m.from] >= m.amount
    /\ m.name = "transfer" => m.from # m.to

\* What account b gains of the asset, and what the supply does.
Gain(m, b) == IF m.name # "burn" /\ b = m.to THEN m.amount
              ELSE IF m.name # "mint" /\ b = m.from THEN -m.amount ELSE 0

Growth(m) == IF m.name = "mint" THEN m.amount ELSE IF m.name = "burn" THEN -m.amount ELSE 0

LEMMA Acted ==
    ASSUME L!Parameters, NEW h \in PairTables, NEW m, Sound(h, m)
    PROVE  LET x == <<m.code, m.symbol>>
           IN  /\ Done(h, m) \in PairTables
               /\ \A b \in L!Holders : Done(h, m)[x][b] = h[x][b] + Gain(m, b)
               /\ \A y \in PairAssets \ {x} : Done(h, m)[y] = h[y]
<1> DEFINE x == <<m.code, m.symbol>>
           f == h[x]
           g == L!Booked(f, m)
<1>1. /\ x \in PairAssets /\ f \in [L!Holders -> Nat]
      /\ m.from \in L!Holders /\ m.to \in L!Holders /\ m.amount \in Nat
      /\ m.name # "mint" => f[m.from] >= m.amount
      /\ m.name = "transfer" => m.from # m.to
  BY DEF Sound, PairTables
<1>2. Done(h, m) = [h EXCEPT ![x] = g]
  BY DEF Done
<1> HIDE DEF x, f
<1>3. g \in [L!Holders -> Nat] /\ \A b \in L!Holders : g[b] = f[b] + Gain(m, b)
  <2>1. CASE m.name = "mint"
    <3>1. g = [f EXCEPT ![m.to] = f[m.to] + m.amount]
      BY <2>1 DEF L!Booked
    <3> QED
      BY <1>1, <2>1, <3>1 DEF Gain
  <2>2. CASE m.name = "burn"
    <3>1. g = [f EXCEPT ![m.from] = f[m.from] - m.amount]
      BY <2>2 DEF L!Booked
    <3> QED
      BY <1>1, <2>2, <3>1 DEF Gain
  <2>3. CASE m.name = "transfer"
    <3>1. g = [f EXCEPT ![m.from] = f[m.from] - m.amount, ![m.to] = @ + m.amount]
      BY <2>3 DEF L!Booked
    <3> HIDE DEF g
    <3>2. g[m.from] = f[m.from] - m.amount /\ g[m.to] = f[m.to] + m.amount
          /\ \A b \in L!Holders \ {m.from, m.to} : g[b] = f[b]
      BY <1>1, <2>3, <3>1
    <3>3. g \in [L!Holders -> Nat]
      BY <1>1, <2>3, <3>1
    <3> QED
      BY <1>1, <2>3, <3>2, <3>3 DEF Gain
  <2> QED
    BY <2>1, <2>2, <2>3 DEF Sound
<1> HIDE DEF g
<1>4. /\ Done(h, m)[x] = g /\ Done(h, m) \in PairTables
      /\ \A y \in PairAssets \ {x} : Done(h, m)[y] = h[y]
  BY <1>1, <1>2, <1>3 DEF PairTables
<1> QED
  BY <1>3, <1>4 DEF x, f

LEMMA SupplyIsInt ==
    ASSUME L!Parameters, NEW h \in PairTables, NEW x \in PairAssets
    PROVE  L!Supply(h, x) = SumFunctionOnSet(h[x], L!Holders) /\ L!Supply(h, x) \in Int
<1>1. L!Supply(h, x) = SumFunctionOnSet(h[x], L!Holders)
  BY SameHolderSums DEF L!Supply
<1>2. \A b \in L!Holders : h[x][b] \in Int
  BY DEF PairTables
<1>3. SumFunctionOnSet(h[x], L!Holders) \in Int
  BY <1>2, HoldersFinite, SumIsInt
<1> QED
  BY <1>1, <1>3

LEMMA Grown ==
    ASSUME L!Parameters, NEW h \in PairTables, NEW m, Sound(h, m)
    PROVE  LET x == <<m.code, m.symbol>>
           IN  /\ L!Supply(Done(h, m), x) = L!Supply(h, x) + Growth(m)
               /\ \A y \in PairAssets \ {x} : L!Supply(Done(h, m), y) = L!Supply(h, y)
<1> DEFINE x == <<m.code, m.symbol>>
           S == L!Holders
           f == h[x]
           g == L!Booked(f, m)
<1>1. /\ x \in PairAssets /\ f \in [S -> Int]
      /\ m.from \in S /\ m.to \in S /\ m.amount \in Int
  BY DEF Sound, PairTables
<1>2. Done(h, m) = [h EXCEPT ![x] = g]
  BY DEF Done
<1>3. IsFiniteSet(S)
  BY HoldersFinite
<1> HIDE DEF x, f, S
<1>4. SumFunctionOnSet(f, S) \in Int
  BY <1>1, <1>3, SumIsInt
<1>5. SumFunctionOnSet(g, S) = SumFunctionOnSet(f, S) + Growth(m)
  <2>1. CASE m.name = "mint"
    <3>1. g = [f EXCEPT ![m.to] = @ + m.amount]
      BY <2>1 DEF L!Booked
    <3>2. Growth(m) = m.amount
      BY <2>1 DEF Growth
    <3> HIDE DEF g
    <3>3. SumFunctionOnSet([f EXCEPT ![m.to] = @ + m.amount], S) = SumFunctionOnSet(f, S) + m.amount
      BY <1>1, <1>3, SumIncreased
    <3> QED
      BY <3>1, <3>2, <3>3
  <2>2. CASE m.name = "burn"
    <3>1. g = [f EXCEPT ![m.from] = @ - m.amount]
      BY <2>2 DEF L!Booked
    <3>2. Growth(m) = -m.amount
      BY <2>2 DEF Growth
    <3> HIDE DEF g
    <3>3. SumFunctionOnSet([f EXCEPT ![m.from] = @ - m.amount], S) = SumFunctionOnSet(f, S) - m.amount
      BY <1>1, <1>3, SumDecreased
    <3>4. SumFunctionOnSet(g, S) = SumFunctionOnSet(f, S) - m.amount
      BY <3>1, <3>3
    <3> QED
      BY <1>1, <1>4, <3>2, <3>4
  <2>3. CASE m.name = "transfer"
    <3> DEFINE k == [f EXCEPT ![m.from] = @ - m.amount]
    <3>1. g = [k EXCEPT ![m.to] = f[m.to] + m.amount]
      BY <2>3 DEF L!Booked
    <3>2. Growth(m) = 0
      BY <2>3 DEF Growth
    <3>4. k[m.to] = f[m.to] /\ k \in [S -> Int]
      BY <1>1, <2>3 DEF Sound
    <3>5. SumFunctionOnSet(k, S) = SumFunctionOnSet(f, S) - m.amount
      BY <1>1, <1>3, SumDecreased
    <3> HIDE DEF g, k
    <3>6. SumFunctionOnSet([k EXCEPT ![m.to] = @ + m.amount], S) = SumFunctionOnSet(k, S) + m.amount
      <4>1. m.to \in S /\ m.amount \in Int /\ k \in [S -> Int]
        BY <1>1, <3>4
      <4> QED
        BY <1>3, <4>1, SumIncreased
    <3>7. g = [k EXCEPT ![m.to] = @ + m.amount]
      BY <3>1, <3>4
    <3>8. SumFunctionOnSet(g, S) = SumFunctionOnSet(k, S) + m.amount
      BY <3>6, <3>7
    <3>3. SumFunctionOnSet(g, S) = SumFunctionOnSet(f, S)
      BY <1>1, <1>4, <3>5, <3>8
    <3> QED
      BY <1>4, <3>2, <3>3
  <2> QED
    BY <2>1, <2>2, <2>3 DEF Sound
<1> HIDE DEF g
<1>6. Done(h, m)[x] = g /\ \A y \in PairAssets \ {x} : Done(h, m)[y] = h[y]
  BY <1>1, <1>2 DEF PairTables
<1> QED
  BY <1>5, <1>6, SameHolderSums DEF L!Supply, f, S, x

\* What a token contract accepts is sound.
LEMMA AcceptedIsSound ==
    ASSUME NEW h, NEW m, L!Accepts(h, m),
           m.name \in {"mint", "burn", "transfer"},
           m.from \in L!Holders, m.to \in L!Holders, m.amount \in Int
    PROVE  /\ Sound(h, m) /\ m.amount \in Nat \ {0}
           /\ m.name # "transfer" => m.code \in XTokens
<1>1. <<m.code, m.symbol>> \in PairAssets /\ m.amount \in Nat \ {0}
  BY DEF L!Accepts
<1>2. CASE m.name = "mint"
  BY <1>1, <1>2 DEF L!Accepts, Sound
<1>3. CASE m.name = "burn"
  BY <1>1, <1>3 DEF L!Accepts, Sound
<1>4. CASE m.name = "transfer"
  BY <1>1, <1>4 DEF L!Accepts, Sound
<1> QED
  BY <1>2, <1>3, <1>4

-----------------------------------------------------------------------------
(***************************************************************************)
(* What a transaction leaves.                                              *)
(***************************************************************************)
\* An action that goes through is not the lockbox's matter, or is a registered
\* token's deposit, or is of the contract of the pair that lower_bound finds.
LEMMA OutcomeCases ==
    ASSUME NEW m, NEW k \in L!Outcome(m)
    PROVE  \/ m.to # Self /\ L!Accepts(held, m) /\ k = Done(held, m)
           \/ /\ m.to = Self
              /\ \E r \in L!Deposit(registry, m) :
                    /\ L!Accepts(held, m) /\ L!Accepts(Done(held, m), Mints(r, m))
                    /\ k = Done(Done(held, m), Mints(r, m))
           \/ /\ m.to = Self
              /\ \E r \in L!Withdrawal(registry, m) :
                    /\ L!Accepts(held, m) /\ L!Accepts(Done(held, m), Burns(m))
                    /\ L!Accepts(Done(Done(held, m), Burns(m)), Pays(r, m))
                    /\ k = Done(Done(Done(held, m), Burns(m)), Pays(r, m))
<1>1. CASE m.to # Self
  <2>1. k \in L!After({held}, m)
    BY <1>1, AfterFirst DEF L!Outcome
  <2>2. L!After({held}, m) = IF L!Accepts(held, m) THEN {Done(held, m)} ELSE {}
    BY AfterOne
  <2>3. L!Accepts(held, m) /\ k = Done(held, m)
    BY <2>1, <2>2
  <2> QED
    BY <1>1, <2>3
<1>2. CASE m.to = Self /\ L!Deposit(registry, m) # {}
  <2> DEFINE r == CHOOSE r \in L!Deposit(registry, m) : TRUE
  <2>1. r \in L!Deposit(registry, m)
    BY <1>2
  <2>2. k \in L!AfterAll({held}, << m >> \o L!Minted(r, m))
    <3>1. L!Sent(registry, m) = L!Minted(r, m)
      BY <1>2 DEF L!Sent
    <3> HIDE DEF r
    <3> QED
      BY <1>2, <3>1 DEF L!Outcome
  <2> HIDE DEF r
  <2>3. /\ L!Accepts(held, m) /\ L!Accepts(Done(held, m), Mints(r, m))
        /\ k = Done(Done(held, m), Mints(r, m))
    BY <2>2, DepositAfter
  <2> QED
    BY <1>2, <2>1, <2>3
<1>3. CASE m.to = Self /\ L!Deposit(registry, m) = {}
  <2> DEFINE r == CHOOSE r \in L!Withdrawal(registry, m) : TRUE
  <2>1. r \in L!Withdrawal(registry, m)
    BY <1>3 DEF L!Outcome, L!CanReceive
  <2>2. k \in L!AfterAll({held}, << m >> \o L!Released(r, m))
    <3>1. L!Sent(registry, m) = L!Released(r, m)
      BY <1>3 DEF L!Sent
    <3> HIDE DEF r
    <3> QED
      BY <1>3, <3>1 DEF L!Outcome
  <2> HIDE DEF r
  <2>3. /\ L!Accepts(held, m) /\ L!Accepts(Done(held, m), Burns(m))
        /\ L!Accepts(Done(Done(held, m), Burns(m)), Pays(r, m))
        /\ k = Done(Done(Done(held, m), Burns(m)), Pays(r, m))
    BY <2>2, WithdrawalAfter
  <2> QED
    BY <1>3, <2>1, <2>3
<1> QED
  BY <1>1, <1>2, <1>3

\* The rows and the assets that actions find.
LEMMA RowsFound ==
    ASSUME L!Parameters, registry \subseteq Pairs, NEW m
    PROVE  /\ \A r \in L!Deposit(registry, m) :
                 /\ r \in registry /\ L!TokenOf(r) = <<m.code, m.symbol>>
                 /\ m.code \notin XTokens
           /\ \A r \in L!Withdrawal(registry, m) :
                 /\ r \in registry /\ r.xerc20 = m.code /\ m.symbol <= r.xerc20_symbol
                 /\ m.code \in XTokens
<1>1. \A r \in registry : /\ r.token_symbol \in Nat /\ r.xerc20_symbol \in Nat
                          /\ r.token \notin XTokens /\ r.xerc20 \in XTokens
  BY DEF L!Parameters
<1>2. \A r \in L!Deposit(registry, m) :
         r \in registry /\ L!TokenOf(r) = <<m.code, m.symbol>> /\ m.code \notin XTokens
  BY <1>1 DEF L!Deposit, L!FoundToken, L!TokenOf
<1>3. \A r \in L!Withdrawal(registry, m) :
         /\ r \in registry /\ r.xerc20 = m.code /\ r.xerc20_symbol >= m.symbol
         /\ m.code \in XTokens
  BY <1>1 DEF L!Withdrawal, L!LowerBoundXERC20
<1> QED
  BY <1>2, <1>3

-----------------------------------------------------------------------------
(***************************************************************************)
(* The collateral.                                                         *)
(***************************************************************************)
RowsOf(c, S) == {r \in Pairs : r.xerc20 = c /\ r.xerc20_symbol \in S}
SymbolsOf(c, S) == {x \in PairAssets : x[1] = c /\ x[2] \in S}

\* What K keeps by row covers what W wraps by asset, in each contract.
BackedBy(K, W) ==
    \A c \in XTokens :
        /\ SumFunctionOnSet(K, RowsOf(c, Nat)) = SumFunctionOnSet(W, SymbolsOf(c, Nat))
        /\ \A s \in Nat : SumFunctionOnSet(K, RowsOf(c, 0 .. s))
                             >= SumFunctionOnSet(W, SymbolsOf(c, 0 .. s))

LEMMA PartsFinite ==
    ASSUME L!Parameters, NEW c, NEW S
    PROVE  /\ IsFiniteSet(RowsOf(c, S)) /\ RowsOf(c, S) \subseteq Pairs
           /\ IsFiniteSet(SymbolsOf(c, S)) /\ SymbolsOf(c, S) \subseteq PairAssets
<1>1. IsFiniteSet(Pairs) /\ IsFiniteSet(PairAssets)
  BY DEF L!Parameters, L!IsFiniteSet, IsFiniteSet
<1>2. RowsOf(c, S) \subseteq Pairs /\ SymbolsOf(c, S) \subseteq PairAssets
  BY DEF RowsOf, SymbolsOf
<1> QED
  BY <1>1, <1>2, FS_Subset

\* A sum over part of a set on which one element changes.
LEMMA SumMoved ==
    ASSUME NEW S, IsFiniteSet(S), NEW f, NEW g, NEW z, NEW d \in Int,
           \A x \in S : f[x] \in Int /\ g[x] \in Int,
           z \in S => g[z] = f[z] + d, \A x \in S \ {z} : g[x] = f[x]
    PROVE  /\ SumFunctionOnSet(f, S) \in Int
           /\ SumFunctionOnSet(g, S) = IF z \in S THEN SumFunctionOnSet(f, S) + d
                                                  ELSE SumFunctionOnSet(f, S)
<1>1. SumFunctionOnSet(f, S) \in Int
  BY SumIsInt
<1>2. CASE z \in S
  <2>1. SumFunctionOnSet(g, S) = SumFunctionOnSet(f, S) - f[z] + g[z]
    BY <1>2, SumChange
  <2> QED
    BY <1>1, <1>2, <2>1
<1>3. CASE z \notin S
  <2>1. \A x \in S : g[x] = f[x]
    BY <1>3
  <2>2. SumFunctionOnSet(g, S) = SumFunctionOnSet(f, S)
    BY <2>1, SumSame
  <2> QED
    BY <1>1, <1>3, <2>2
<1> QED
  BY <1>2, <1>3

\* The collateral of a row and the wrapped tokens of an asset of its contract
\* change together: the asset is the row's, or has a smaller symbol and the
\* collateral falls.
LEMMA Shifted ==
    ASSUME L!Parameters, NEW K, NEW W, NEW K2, NEW W2, NEW r \in Pairs, NEW x \in PairAssets,
           NEW d \in Int, BackedBy(K, W),
           \A q \in Pairs : K[q] \in Int /\ K2[q] \in Int,
           \A y \in PairAssets : W[y] \in Int /\ W2[y] \in Int,
           K2[r] = K[r] + d, \A q \in Pairs \ {r} : K2[q] = K[q],
           W2[x] = W[x] + d, \A y \in PairAssets \ {x} : W2[y] = W[y],
           x[1] = r.xerc20,
           x[2] = r.xerc20_symbol \/ (d <= 0 /\ x[2] <= r.xerc20_symbol)
    PROVE  BackedBy(K2, W2)
<1>1. r.xerc20_symbol \in Nat /\ x[2] \in Nat
  BY DEF L!Parameters
<1>2. ASSUME NEW c, NEW S
      PROVE  /\ SumFunctionOnSet(K, RowsOf(c, S)) \in Int
             /\ SumFunctionOnSet(W, SymbolsOf(c, S)) \in Int
             /\ SumFunctionOnSet(K2, RowsOf(c, S)) =
                   IF c = r.xerc20 /\ r.xerc20_symbol \in S
                   THEN SumFunctionOnSet(K, RowsOf(c, S)) + d
                   ELSE SumFunctionOnSet(K, RowsOf(c, S))
             /\ SumFunctionOnSet(W2, SymbolsOf(c, S)) =
                   IF c = r.xerc20 /\ x[2] \in S
                   THEN SumFunctionOnSet(W, SymbolsOf(c, S)) + d
                   ELSE SumFunctionOnSet(W, SymbolsOf(c, S))
  <2> DEFINE R == RowsOf(c, S)
             Q == SymbolsOf(c, S)
  <2>1. /\ IsFiniteSet(R) /\ R \subseteq Pairs
        /\ IsFiniteSet(Q) /\ Q \subseteq PairAssets
    BY PartsFinite
  <2>2. /\ r \in R <=> c = r.xerc20 /\ r.xerc20_symbol \in S
        /\ x \in Q <=> c = r.xerc20 /\ x[2] \in S
    BY DEF RowsOf, SymbolsOf
  <2> HIDE DEF R, Q
  <2>3. /\ \A q \in R : K[q] \in Int /\ K2[q] \in Int
        /\ \A q \in R \ {r} : K2[q] = K[q]
        /\ \A y \in Q : W[y] \in Int /\ W2[y] \in Int
        /\ \A y \in Q \ {x} : W2[y] = W[y]
    BY <2>1
  <2>4. /\ SumFunctionOnSet(K, R) \in Int
        /\ SumFunctionOnSet(K2, R) = IF r \in R THEN SumFunctionOnSet(K, R) + d
                                                ELSE SumFunctionOnSet(K, R)
    <3>1. IsFiniteSet(R) /\ d \in Int /\ (r \in R => K2[r] = K[r] + d)
      BY <2>1
    <3> QED
      BY ONLY <2>3, <3>1, SumMoved
  <2>5. /\ SumFunctionOnSet(W, Q) \in Int
        /\ SumFunctionOnSet(W2, Q) = IF x \in Q THEN SumFunctionOnSet(W, Q) + d
                                                ELSE SumFunctionOnSet(W, Q)
    <3>1. IsFiniteSet(Q) /\ d \in Int /\ (x \in Q => W2[x] = W[x] + d)
      BY <2>1
    <3> QED
      BY ONLY <2>3, <3>1, SumMoved
  <2> QED
    BY <2>2, <2>4, <2>5 DEF R, Q
<1>3. ASSUME NEW c \in XTokens
      PROVE  SumFunctionOnSet(K2, RowsOf(c, Nat)) = SumFunctionOnSet(W2, SymbolsOf(c, Nat))
  <2>1. SumFunctionOnSet(K, RowsOf(c, Nat)) = SumFunctionOnSet(W, SymbolsOf(c, Nat))
    BY DEF BackedBy
  <2> QED
    BY <1>1, <1>2, <2>1
<1>4. ASSUME NEW c \in XTokens, NEW s \in Nat
      PROVE  SumFunctionOnSet(K2, RowsOf(c, 0 .. s)) >= SumFunctionOnSet(W2, SymbolsOf(c, 0 .. s))
  <2> DEFINE a == SumFunctionOnSet(K, RowsOf(c, 0 .. s))
             b == SumFunctionOnSet(W, SymbolsOf(c, 0 .. s))
             a2 == SumFunctionOnSet(K2, RowsOf(c, 0 .. s))
             b2 == SumFunctionOnSet(W2, SymbolsOf(c, 0 .. s))
  <2>1. a >= b
    BY DEF BackedBy
  <2>2. /\ r.xerc20_symbol \in 0 .. s <=> r.xerc20_symbol <= s
        /\ x[2] \in 0 .. s <=> x[2] <= s
    BY <1>1
  <2>3. /\ a \in Int /\ b \in Int
        /\ a2 = IF c = r.xerc20 /\ r.xerc20_symbol \in 0 .. s THEN a + d ELSE a
        /\ b2 = IF c = r.xerc20 /\ x[2] \in 0 .. s THEN b + d ELSE b
    BY <1>2
  <2> HIDE DEF a, b, a2, b2
  <2>4. a2 >= b2
    BY <1>1, <2>1, <2>2, <2>3
  <2> QED
    BY <2>4 DEF a2, b2
<1> QED
  BY <1>3, <1>4 DEF BackedBy

\* Nothing changes.
LEMMA Unshifted ==
    ASSUME L!Parameters, NEW K, NEW W, NEW K2, NEW W2, BackedBy(K, W),
           \A q \in Pairs : K2[q] = K[q], \A y \in PairAssets : W2[y] = W[y]
    PROVE  BackedBy(K2, W2)
<1>1. ASSUME NEW c, NEW S
      PROVE  /\ SumFunctionOnSet(K2, RowsOf(c, S)) = SumFunctionOnSet(K, RowsOf(c, S))
             /\ SumFunctionOnSet(W2, SymbolsOf(c, S)) = SumFunctionOnSet(W, SymbolsOf(c, S))
  <2> DEFINE R == RowsOf(c, S)
             Q == SymbolsOf(c, S)
  <2>1. /\ IsFiniteSet(R) /\ R \subseteq Pairs
        /\ IsFiniteSet(Q) /\ Q \subseteq PairAssets
    BY PartsFinite
  <2> HIDE DEF R, Q
  <2>2. (\A q \in R : K2[q] = K[q]) /\ (\A y \in Q : W2[y] = W[y])
    BY <2>1
  <2>3. SumFunctionOnSet(K2, R) = SumFunctionOnSet(K, R)
    BY <2>1, <2>2, SumSame
  <2>4. SumFunctionOnSet(W2, Q) = SumFunctionOnSet(W, Q)
    BY <2>1, <2>2, SumSame
  <2> QED
    BY <2>3, <2>4 DEF R, Q
<1> QED
  BY <1>1 DEF BackedBy

KeptIn(g, h) == [r \in Pairs |-> IF r \in g THEN h[L!TokenOf(r)][Self] ELSE 0]

WrappedIn(h, b) == [x \in PairAssets |-> L!Supply(h, x) - b[x]]

\* Registry g, tables h and history b: rows name existing assets and no token
\* twice, plain tokens in the lockbox are of registered rows, and what it
\* wrapped is covered.
PairsOK(g, h, b) ==
    /\ g \subseteq Pairs /\ h \in PairTables /\ b \in [PairAssets -> Int]
    /\ \A r \in g : L!TokenOf(r) \in PairAssets /\ L!WrappedOf(r) \in PairAssets
    /\ \A q, r \in g : q.token_symbol = r.token_symbol => q = r
    /\ \A x \in PairAssets : x[1] \notin XTokens /\ h[x][Self] # 0 =>
          \E r \in g : x = L!TokenOf(r)
    /\ BackedBy(KeptIn(g, h), WrappedIn(h, b))

PairsInv == PairsOK(registry, held, bridged)

\* A row's token is plain, and no other row's of the registry.
LEMMA PlainTokens ==
    ASSUME L!Parameters, PairsInv
    PROVE  /\ registry \subseteq Pairs
           /\ \A q \in registry : L!TokenOf(q)[1] \notin XTokens /\ L!TokenOf(q) \in PairAssets
           /\ \A p, q \in registry : L!TokenOf(p) = L!TokenOf(q) => p = q
<1>1. /\ registry \subseteq Pairs
      /\ \A q \in registry : L!TokenOf(q) \in PairAssets
      /\ \A p, q \in registry : p.token_symbol = q.token_symbol => p = q
  BY DEF PairsInv, PairsOK
<1>2. \A q \in registry : q.token \notin XTokens
  BY <1>1 DEF L!Parameters
<1>3. \A q : L!TokenOf(q)[1] = q.token /\ L!TokenOf(q)[2] = q.token_symbol
  BY DEF L!TokenOf
<1>4. ASSUME NEW p \in registry, NEW q \in registry, L!TokenOf(p) = L!TokenOf(q) PROVE p = q
  BY <1>1, <1>3, <1>4
<1>5. \A q \in registry : L!TokenOf(q)[1] \notin XTokens
  BY <1>2, <1>3
<1> QED
  BY <1>1, <1>4, <1>5

\* Rows keep, and assets wrap, whole numbers.
LEMMA PartsAreInts ==
    ASSUME L!Parameters, NEW g, NEW h \in PairTables, NEW b \in [PairAssets -> Int],
           \A r \in g : L!TokenOf(r) \in PairAssets
    PROVE  /\ \A q \in Pairs : KeptIn(g, h)[q] \in Int
           /\ \A y \in PairAssets : WrappedIn(h, b)[y] \in Int
<1>1. \A y \in PairAssets : h[y][Self] \in Int
  BY DEF PairTables, L!Holders
<1>2. \A y \in PairAssets : L!Supply(h, y) \in Int
  BY SupplyIsInt
<1> QED
  BY <1>1, <1>2 DEF KeptIn, WrappedIn

\* The lockbox gains d of a registered token, and d more of an asset of the
\* row's contract is there that bridges did not bring.
LEMMA Moved ==
    ASSUME L!Parameters, PairsInv, NEW k \in PairTables, NEW e \in [PairAssets -> Int],
           NEW r \in registry, NEW x \in PairAssets, NEW d \in Int,
           k[L!TokenOf(r)][Self] = held[L!TokenOf(r)][Self] + d,
           \A y \in PairAssets \ {L!TokenOf(r)} : y[1] \notin XTokens => k[y][Self] = held[y][Self],
           L!Supply(k, x) - e[x] = L!Supply(held, x) - bridged[x] + d,
           \A y \in PairAssets \ {x} : L!Supply(k, y) - e[y] = L!Supply(held, y) - bridged[y],
           x[1] = r.xerc20,
           x[2] = r.xerc20_symbol \/ (d <= 0 /\ x[2] <= r.xerc20_symbol)
    PROVE  PairsOK(registry, k, e)
<1> DEFINE K == KeptIn(registry, held)
           W == WrappedIn(held, bridged)
           K2 == KeptIn(registry, k)
           W2 == WrappedIn(k, e)
           t == L!TokenOf(r)
<1>1. /\ registry \subseteq Pairs /\ held \in PairTables /\ bridged \in [PairAssets -> Int]
      /\ \A q \in registry : L!TokenOf(q) \in PairAssets /\ L!WrappedOf(q) \in PairAssets
      /\ \A p, q \in registry : p.token_symbol = q.token_symbol => p = q
      /\ \A y \in PairAssets : y[1] \notin XTokens /\ held[y][Self] # 0 =>
            \E q \in registry : y = L!TokenOf(q)
      /\ BackedBy(K, W)
  BY DEF PairsInv, PairsOK
<1>2. \A q \in registry : L!TokenOf(q)[1] \notin XTokens /\ L!TokenOf(q) \in PairAssets
  BY PlainTokens
<1>3. \A q \in registry \ {r} : L!TokenOf(q) # t
  BY PlainTokens
<1>4. K2[r] = K[r] + d /\ r \in Pairs
  BY <1>1 DEF KeptIn
<1>5. \A q \in Pairs \ {r} : K2[q] = K[q]
  BY <1>2, <1>3 DEF KeptIn
<1>6. W2[x] = W[x] + d /\ \A y \in PairAssets \ {x} : W2[y] = W[y]
  BY DEF WrappedIn
<1>7. \A q \in Pairs : K[q] \in Int /\ K2[q] \in Int
  BY <1>1, PartsAreInts
<1>8. \A y \in PairAssets : W[y] \in Int /\ W2[y] \in Int
  BY <1>1, PartsAreInts
<1>9. \A y \in PairAssets : y[1] \notin XTokens /\ k[y][Self] # 0 =>
         \E q \in registry : y = L!TokenOf(q)
  BY <1>1
<1> HIDE DEF K, W, K2, W2
<1>10. BackedBy(K2, W2)
  <2>1. BackedBy(K, W) /\ r \in Pairs /\ K2[r] = K[r] + d /\ W2[x] = W[x] + d
    BY <1>1, <1>4, <1>6
  <2>2. \A y \in PairAssets \ {x} : W2[y] = W[y]
    BY <1>6
  <2>3. /\ L!Parameters /\ x \in PairAssets /\ d \in Int /\ x[1] = r.xerc20
        /\ x[2] = r.xerc20_symbol \/ (d <= 0 /\ x[2] <= r.xerc20_symbol)
    OBVIOUS
  <2> QED
    BY ONLY <1>5, <1>7, <1>8, <2>1, <2>2, <2>3, Shifted
<1> QED
  BY <1>1, <1>9, <1>10 DEF PairsOK, K2, W2

\* Neither the lockbox's tokens nor what it wrapped changes.
LEMMA Unmoved ==
    ASSUME L!Parameters, PairsInv, NEW k \in PairTables, NEW e \in [PairAssets -> Int],
           \A y \in PairAssets : y[1] \notin XTokens => k[y][Self] = held[y][Self],
           \A y \in PairAssets : L!Supply(k, y) - e[y] = L!Supply(held, y) - bridged[y]
    PROVE  PairsOK(registry, k, e)
<1> DEFINE K == KeptIn(registry, held)
           W == WrappedIn(held, bridged)
           K2 == KeptIn(registry, k)
           W2 == WrappedIn(k, e)
<1>1. /\ registry \subseteq Pairs /\ held \in PairTables /\ bridged \in [PairAssets -> Int]
      /\ \A q \in registry : L!TokenOf(q) \in PairAssets /\ L!WrappedOf(q) \in PairAssets
      /\ \A p, q \in registry : p.token_symbol = q.token_symbol => p = q
      /\ \A y \in PairAssets : y[1] \notin XTokens /\ held[y][Self] # 0 =>
            \E q \in registry : y = L!TokenOf(q)
      /\ BackedBy(K, W)
  BY DEF PairsInv, PairsOK
<1>2. \A q \in registry : L!TokenOf(q)[1] \notin XTokens /\ L!TokenOf(q) \in PairAssets
  BY PlainTokens
<1>3. \A q \in Pairs : K2[q] = K[q]
  BY <1>2 DEF KeptIn
<1>4. \A y \in PairAssets : W2[y] = W[y]
  BY DEF WrappedIn
<1>5. \A y \in PairAssets : y[1] \notin XTokens /\ k[y][Self] # 0 =>
         \E q \in registry : y = L!TokenOf(q)
  BY <1>1
<1> HIDE DEF K, W, K2, W2
<1>6. BackedBy(K2, W2)
  BY <1>1, <1>3, <1>4, Unshifted
<1> QED
  BY <1>1, <1>5, <1>6 DEF PairsOK, K2, W2

-----------------------------------------------------------------------------
(***************************************************************************)
(* The steps.                                                              *)
(***************************************************************************)
LEMMA PairsInit == ASSUME L!Parameters, L!Init PROVE PairsInv
<1> DEFINE K == KeptIn(registry, held)
           W == WrappedIn(held, bridged)
<1>1. registry = {} /\ held \in PairTables
  BY DEF L!Init, L!Parameters, PairTables, L!Holders
<1>2. bridged = [x \in PairAssets |-> L!Supply(held, x)]
  BY DEF L!Init
<1>3. \A x \in PairAssets : L!Supply(held, x) \in Int
  BY <1>1, SupplyIsInt
<1>4. bridged \in [PairAssets -> Int]
  BY <1>2, <1>3
<1>5. \A x \in PairAssets : held[x][Self] = 0
  BY DEF L!Init, L!Holders
<1>6. (\A q \in Pairs : K[q] = 0) /\ (\A x \in PairAssets : W[x] = 0)
  BY <1>1, <1>2, <1>3 DEF KeptIn, WrappedIn
<1> HIDE DEF K, W
<1>7. ASSUME NEW c, NEW S
      PROVE  SumFunctionOnSet(K, RowsOf(c, S)) = 0 /\ SumFunctionOnSet(W, SymbolsOf(c, S)) = 0
  <2> DEFINE R == RowsOf(c, S)
             Q == SymbolsOf(c, S)
  <2>1. /\ IsFiniteSet(R) /\ R \subseteq Pairs
        /\ IsFiniteSet(Q) /\ Q \subseteq PairAssets
    BY PartsFinite
  <2> HIDE DEF R, Q
  <2>2. (\A q \in R : K[q] = 0) /\ (\A x \in Q : W[x] = 0)
    BY <1>6, <2>1
  <2>3. SumFunctionOnSet(K, R) = 0
    BY <2>1, <2>2, SumZero
  <2>4. SumFunctionOnSet(W, Q) = 0
    BY <2>1, <2>2, SumZero
  <2> QED
    BY <2>3, <2>4 DEF R, Q
<1>8. BackedBy(K, W)
  BY <1>7 DEF BackedBy
<1> QED
  BY <1>1, <1>4, <1>5, <1>8 DEF PairsInv, PairsOK, K, W

\* The lockbox has none of a new row's token.
LEMMA PairsCreate ==
    ASSUME L!Parameters, PairsInv, NEW row \in Pairs, L!create(row)
    PROVE  PairsInv'
<1> DEFINE g == registry \cup {row}
           K == KeptIn(registry, held)
           W == WrappedIn(held, bridged)
           K2 == KeptIn(g, held)
           t == L!TokenOf(row)
<1>1. /\ registry' = g /\ held' = held /\ bridged' = bridged
      /\ t \in PairAssets /\ L!WrappedOf(row) \in PairAssets
      /\ \A r \in registry : r.token_symbol # row.token_symbol
  BY DEF L!create, L!CanCreate, L!Created, L!FoundToken
<1>2. /\ registry \subseteq Pairs /\ held \in PairTables /\ bridged \in [PairAssets -> Int]
      /\ \A q \in registry : L!TokenOf(q) \in PairAssets /\ L!WrappedOf(q) \in PairAssets
      /\ \A p, q \in registry : p.token_symbol = q.token_symbol => p = q
      /\ \A y \in PairAssets : y[1] \notin XTokens /\ held[y][Self] # 0 =>
            \E q \in registry : y = L!TokenOf(q)
      /\ BackedBy(K, W)
  BY DEF PairsInv, PairsOK
<1>3. row \notin registry
  BY <1>1
<1>4. held[t][Self] = 0
  <2>1. \A q : L!TokenOf(q)[1] = q.token /\ L!TokenOf(q)[2] = q.token_symbol
    BY DEF L!TokenOf
  <2>2. t[1] \notin XTokens
    BY <2>1 DEF L!Parameters
  <2>3. \A q \in registry : t # L!TokenOf(q)
    BY <1>1, <2>1
  <2> HIDE DEF t
  <2> QED
    BY <1>1, <1>2, <2>2, <2>3
<1>5. \A q \in Pairs : K2[q] = K[q]
  BY <1>3, <1>4 DEF KeptIn
<1> HIDE DEF K, W, K2
<1>6. BackedBy(K2, W)
  BY <1>2, <1>5, Unshifted
<1>7. \A p, q \in g : p.token_symbol = q.token_symbol => p = q
  BY <1>1, <1>2
<1>8. \A y \in PairAssets : y[1] \notin XTokens /\ held[y][Self] # 0 =>
         \E q \in g : y = L!TokenOf(q)
  BY <1>2
<1>9. PairsOK(g, held, bridged)
  BY <1>1, <1>2, <1>6, <1>7, <1>8 DEF PairsOK, K2, W
<1> QED
  BY <1>1, <1>9 DEF PairsInv

\* An action that is not the lockbox's matter.
LEMMA ElsewhereOK ==
    ASSUME L!Parameters, PairsInv, NEW m, Sound(held, m),
           m.name # "transfer" => m.code \in XTokens,
           m.code \in XTokens \/ (m.from # Self /\ m.to # Self),
           NEW e \in [PairAssets -> Int], <<m.code, m.symbol>> \in PairAssets,
           e = [bridged EXCEPT ![<<m.code, m.symbol>>] = @ + Growth(m)]
    PROVE  PairsOK(registry, Done(held, m), e)
<1> DEFINE x == <<m.code, m.symbol>>
           k == Done(held, m)
<1>1. held \in PairTables /\ bridged \in [PairAssets -> Int]
  BY DEF PairsInv, PairsOK
<1>2. /\ k \in PairTables /\ \A b \in L!Holders : k[x][b] = held[x][b] + Gain(m, b)
      /\ \A y \in PairAssets \ {x} : k[y] = held[y]
  BY <1>1, Acted
<1>3. /\ L!Supply(k, x) = L!Supply(held, x) + Growth(m)
      /\ \A y \in PairAssets \ {x} : L!Supply(k, y) = L!Supply(held, y)
  BY <1>1, Grown
<1>4. Self \in L!Holders /\ held[x][Self] \in Nat
  BY <1>1 DEF L!Holders, PairTables
<1>5. x[1] \notin XTokens => k[x][Self] = held[x][Self]
  BY <1>2, <1>4 DEF Gain
<1>6. Growth(m) \in Int /\ L!Supply(held, x) \in Int /\ bridged[x] \in Int
  BY <1>1, SupplyIsInt DEF Growth, Sound
<1>7. e[x] = bridged[x] + Growth(m) /\ \A y \in PairAssets \ {x} : e[y] = bridged[y]
  BY <1>1
<1> HIDE DEF x, k
<1>8. \A y \in PairAssets : y[1] \notin XTokens => k[y][Self] = held[y][Self]
  BY <1>2, <1>5
<1>9. \A y \in PairAssets : L!Supply(k, y) - e[y] = L!Supply(held, y) - bridged[y]
  BY <1>3, <1>6, <1>7
<1>10. PairsOK(registry, k, e)
  BY <1>2, <1>8, <1>9, Unmoved
<1> QED
  BY <1>10 DEF k

\* A deposit.
LEMMA DepositOK ==
    ASSUME L!Parameters, PairsInv, NEW m, m.to = Self, m.from \in Users, m.amount \in Int,
           m.name \in {"mint", "transfer"}, NEW r \in L!Deposit(registry, m),
           L!Accepts(held, m), L!Accepts(Done(held, m), Mints(r, m))
    PROVE  /\ PairsOK(registry, Done(Done(held, m), Mints(r, m)), bridged)
           /\ m.name = "transfer"
<1> DEFINE t == <<m.code, m.symbol>>
           n == Mints(r, m)
           w == <<n.code, n.symbol>>
           h == Done(held, m)
           k == Done(h, n)
           a == m.amount
<1>1. held \in PairTables /\ bridged \in [PairAssets -> Int] /\ registry \subseteq Pairs
  BY DEF PairsInv, PairsOK
<1>2. r \in registry /\ L!TokenOf(r) = t /\ m.code \notin XTokens
  BY <1>1, RowsFound
<1>3. Self \in L!Holders /\ m.from \in L!Holders /\ Self \notin Users /\ m.from # Self
  BY DEF L!Holders, L!Parameters
<1>4. Sound(held, m) /\ a \in Nat \ {0} /\ m.name = "transfer" /\ t \in PairAssets
  BY <1>2, <1>3, AcceptedIsSound DEF Sound
<1>5. /\ n.name = "mint" /\ n.from = Self /\ n.to = m.from /\ n.amount = a
      /\ w = L!WrappedOf(r) /\ w[1] = r.xerc20 /\ w[2] = r.xerc20_symbol
  BY DEF Mints, L!Message, L!WrappedOf
<1>6. r.xerc20 \in XTokens
  BY <1>1, <1>2 DEF L!Parameters
<1> HIDE DEF t, n, h, w, k, a
<1>7. Sound(h, n) /\ w \in PairAssets
  <2>1. n.name \in {"mint", "burn", "transfer"} /\ n.from \in L!Holders /\ n.to \in L!Holders
        /\ n.amount \in Int
    BY <1>3, <1>4, <1>5
  <2>2. L!Accepts(h, n)
    BY DEF h, n
  <2> QED
    BY <2>1, <2>2, AcceptedIsSound DEF Sound, w
<1>8. /\ h \in PairTables /\ \A b \in L!Holders : h[t][b] = held[t][b] + Gain(m, b)
      /\ \A y \in PairAssets \ {t} : h[y] = held[y]
  BY <1>1, <1>4, Acted DEF h, t
<1>9. /\ k \in PairTables /\ \A y \in PairAssets \ {w} : k[y] = h[y]
  BY <1>7, <1>8, Acted DEF k, w
<1>10. \A y \in PairAssets : L!Supply(h, y) = L!Supply(held, y)
  <2>1. L!Supply(h, t) = L!Supply(held, t) + Growth(m)
        /\ \A y \in PairAssets \ {t} : L!Supply(h, y) = L!Supply(held, y)
    BY <1>1, <1>4, Grown DEF h, t
  <2>2. Growth(m) = 0 /\ L!Supply(held, t) \in Int
    BY <1>1, <1>4, SupplyIsInt DEF Growth
  <2> QED
    BY <2>1, <2>2
<1>11. L!Supply(k, w) = L!Supply(h, w) + a /\ \A y \in PairAssets \ {w} : L!Supply(k, y) = L!Supply(h, y)
  <2>1. Growth(n) = a
    BY <1>5 DEF Growth
  <2> QED
    BY <1>7, <1>8, <2>1, Grown DEF k, w
<1>12. t # w /\ t[1] \notin XTokens /\ w[1] \in XTokens
  BY <1>2, <1>5, <1>6 DEF t
<1>13. k[t][Self] = held[t][Self] + a
  <2>1. Gain(m, Self) = a
    BY <1>4 DEF Gain, a
  <2> QED
    BY <1>3, <1>4, <1>8, <1>9, <1>12, <2>1
<1>14. \A y \in PairAssets \ {t} : y[1] \notin XTokens => k[y][Self] = held[y][Self]
  BY <1>8, <1>9, <1>12
<1>15. /\ L!Supply(k, w) - bridged[w] = L!Supply(held, w) - bridged[w] + a
       /\ \A y \in PairAssets \ {w} : L!Supply(k, y) - bridged[y] = L!Supply(held, y) - bridged[y]
  <2>1. L!Supply(held, w) \in Int /\ bridged[w] \in Int /\ a \in Int
    BY <1>1, <1>4, <1>7, SupplyIsInt
  <2>2. L!Supply(k, w) = L!Supply(held, w) + a
    BY <1>7, <1>10, <1>11
  <2>3. \A y \in PairAssets \ {w} : L!Supply(k, y) = L!Supply(held, y)
    BY <1>10, <1>11
  <2> QED
    BY <2>1, <2>2, <2>3
<1>16. PairsOK(registry, k, bridged)
  <2>1. /\ L!Parameters /\ PairsInv /\ a \in Int
        /\ k[L!TokenOf(r)][Self] = held[L!TokenOf(r)][Self] + a
        /\ \A y \in PairAssets \ {L!TokenOf(r)} : y[1] \notin XTokens => k[y][Self] = held[y][Self]
    BY <1>2, <1>4, <1>13, <1>14
  <2> QED
    BY ONLY <1>1, <1>2, <1>5, <1>7, <1>9, <1>15, <2>1, Moved
<1> QED
  BY <1>4, <1>16 DEF k, h, n

\* A withdrawal: of tokens transferred to the lockbox, or minted to it.
LEMMA WithdrawalOK ==
    ASSUME L!Parameters, PairsInv, NEW m, m.to = Self, m.from \in Users, m.amount \in Int,
           m.name \in {"mint", "transfer"}, NEW r \in L!Withdrawal(registry, m),
           L!Accepts(held, m), L!Accepts(Done(held, m), Burns(m)),
           L!Accepts(Done(Done(held, m), Burns(m)), Pays(r, m)),
           NEW e, e = [bridged EXCEPT ![<<m.code, m.symbol>>] = @ + Growth(m)]
    PROVE  PairsOK(registry, Done(Done(Done(held, m), Burns(m)), Pays(r, m)), e)
<1> DEFINE x == <<m.code, m.symbol>>
           n == Burns(m)
           p == Pays(r, m)
           t == <<p.code, p.symbol>>
           h == Done(held, m)
           l == Done(h, n)
           k == Done(l, p)
           a == m.amount
<1>1. held \in PairTables /\ bridged \in [PairAssets -> Int] /\ registry \subseteq Pairs
  BY DEF PairsInv, PairsOK
<1>2. /\ r \in registry /\ r.xerc20 = m.code /\ m.symbol <= r.xerc20_symbol
      /\ m.code \in XTokens
  BY <1>1, RowsFound
<1>3. Self \in L!Holders /\ m.from \in L!Holders /\ Self \notin Users /\ m.from # Self
  BY DEF L!Holders, L!Parameters
<1>4. Sound(held, m) /\ a \in Nat \ {0} /\ x \in PairAssets /\ m.name \in {"mint", "transfer"}
  BY <1>3, AcceptedIsSound DEF Sound
<1>5. /\ n.name = "burn" /\ n.from = Self /\ n.to = Self /\ n.amount = a
      /\ <<n.code, n.symbol>> = x
  BY DEF Burns, L!Message
<1>6. /\ p.name = "transfer" /\ p.from = Self /\ p.to = m.from /\ p.amount = a
      /\ t = L!TokenOf(r) /\ t[1] = r.token
  BY DEF Pays, L!Message, L!TokenOf
<1>7. r.token \notin XTokens /\ x[1] = m.code /\ x[2] = m.symbol
  BY <1>1, <1>2 DEF L!Parameters
<1> HIDE DEF n, p, t, h, l, k, a, x
<1>8. /\ h \in PairTables /\ \A y \in PairAssets \ {x} : h[y] = held[y]
  BY <1>1, <1>4, Acted DEF h, x
<1>9. Sound(h, n)
  <2>1. n.name \in {"mint", "burn", "transfer"} /\ n.from \in L!Holders /\ n.to \in L!Holders
        /\ n.amount \in Int
    BY <1>3, <1>4, <1>5
  <2>2. L!Accepts(h, n)
    BY DEF h, n
  <2> QED
    BY <2>1, <2>2, AcceptedIsSound
<1>10. /\ l \in PairTables /\ \A y \in PairAssets \ {x} : l[y] = h[y]
  BY <1>5, <1>8, <1>9, Acted DEF l
<1>11. Sound(l, p) /\ t \in PairAssets
  <2>1. p.name \in {"mint", "burn", "transfer"} /\ p.from \in L!Holders /\ p.to \in L!Holders
        /\ p.amount \in Int
    BY <1>3, <1>4, <1>6
  <2>2. L!Accepts(l, p)
    BY DEF l, h, n, p
  <2> QED
    BY <2>1, <2>2, AcceptedIsSound DEF Sound, t
<1>12. /\ k \in PairTables /\ \A b \in L!Holders : k[t][b] = l[t][b] + Gain(p, b)
       /\ \A y \in PairAssets \ {t} : k[y] = l[y]
  BY <1>10, <1>11, Acted DEF k, t
<1>13. t # x /\ t[1] \notin XTokens /\ x[1] \in XTokens
  BY <1>2, <1>6, <1>7
<1>14. k[t][Self] = held[t][Self] + (-a)
  <2>1. Gain(p, Self) = -a
    BY <1>3, <1>6 DEF Gain
  <2> QED
    BY <1>3, <1>8, <1>10, <1>11, <1>12, <1>13, <2>1
<1>15. \A y \in PairAssets \ {t} : y[1] \notin XTokens => k[y][Self] = held[y][Self]
  BY <1>8, <1>10, <1>12, <1>13
<1>16. Growth(m) \in Int
  BY <1>4 DEF Growth, a
<1>17. /\ L!Supply(h, x) = L!Supply(held, x) + Growth(m)
       /\ \A y \in PairAssets \ {x} : L!Supply(h, y) = L!Supply(held, y)
  BY <1>1, <1>4, Grown DEF h, x
<1>18. /\ L!Supply(l, x) = L!Supply(h, x) + (-a)
       /\ \A y \in PairAssets \ {x} : L!Supply(l, y) = L!Supply(h, y)
  <2>1. Growth(n) = -a
    BY <1>5 DEF Growth
  <2> QED
    BY <1>5, <1>8, <1>9, <2>1, Grown DEF l
<1>19. \A y \in PairAssets : L!Supply(k, y) = L!Supply(l, y)
  <2>1. Growth(p) = 0 /\ L!Supply(l, t) \in Int
    BY <1>6, <1>10, <1>11, SupplyIsInt DEF Growth
  <2>2. L!Supply(k, t) = L!Supply(l, t) + Growth(p)
        /\ \A y \in PairAssets \ {t} : L!Supply(k, y) = L!Supply(l, y)
    BY <1>10, <1>11, Grown DEF k, t
  <2> QED
    BY <2>1, <2>2
<1>20. /\ e[x] = bridged[x] + Growth(m) /\ \A y \in PairAssets \ {x} : e[y] = bridged[y]
       /\ e \in [PairAssets -> Int]
  BY <1>1, <1>4, <1>16 DEF x
<1>21. /\ L!Supply(k, x) - e[x] = L!Supply(held, x) - bridged[x] + (-a)
       /\ \A y \in PairAssets \ {x} : L!Supply(k, y) - e[y] = L!Supply(held, y) - bridged[y]
  <2>1. L!Supply(held, x) \in Int /\ bridged[x] \in Int /\ a \in Int
    BY <1>1, <1>4, SupplyIsInt
  <2>2. L!Supply(k, x) = L!Supply(held, x) + Growth(m) + (-a)
    BY <1>4, <1>17, <1>18, <1>19
  <2>3. \A y \in PairAssets \ {x} : L!Supply(k, y) = L!Supply(held, y)
    BY <1>17, <1>18, <1>19
  <2> QED
    BY <1>16, <1>20, <2>1, <2>2, <2>3
<1>22. PairsOK(registry, k, e)
  <2> DEFINE d == -a
  <2>1. /\ L!Parameters /\ PairsInv /\ d \in Int /\ d <= 0
        /\ k[L!TokenOf(r)][Self] = held[L!TokenOf(r)][Self] + d
        /\ \A y \in PairAssets \ {L!TokenOf(r)} : y[1] \notin XTokens => k[y][Self] = held[y][Self]
    BY <1>4, <1>6, <1>14, <1>15
  <2>2. x[1] = r.xerc20 /\ x[2] <= r.xerc20_symbol
    BY <1>2, <1>7
  <2>3. /\ L!Supply(k, x) - e[x] = L!Supply(held, x) - bridged[x] + d
        /\ \A y \in PairAssets \ {x} : L!Supply(k, y) - e[y] = L!Supply(held, y) - bridged[y]
    BY <1>21
  <2> HIDE DEF d
  <2> QED
    BY ONLY <1>2, <1>4, <1>12, <1>20, <2>1, <2>2, <2>3, Moved
<1> QED
  BY <1>22 DEF k, l, h, n, p

\* An action with what the lockbox answers.
LEMMA OutcomeOK ==
    ASSUME L!Parameters, PairsInv, NEW m, <<m.code, m.symbol>> \in PairAssets,
           m.name \in {"mint", "burn", "transfer"}, m.from \in Users, m.to \in L!Holders,
           m.amount \in Int, m.name = "burn" => m.to # Self, held' \in L!Outcome(m),
           registry' = registry, bridged' = [bridged EXCEPT ![<<m.code, m.symbol>>] = @ + Growth(m)]
    PROVE  PairsInv'
<1> DEFINE x == <<m.code, m.symbol>>
<1>1. /\ m.from \in L!Holders /\ m.from # Self /\ m.name \in {"mint", "burn", "transfer"}
  BY DEF L!Holders, L!Parameters
<1>2. bridged \in [PairAssets -> Int] /\ registry \subseteq Pairs /\ held \in PairTables
  BY DEF PairsInv, PairsOK
<1>3. CASE m.to # Self /\ L!Accepts(held, m) /\ held' = Done(held, m)
  <2>1. Sound(held, m) /\ (m.name # "transfer" => m.code \in XTokens) /\ m.amount \in Nat
    BY <1>1, <1>3, AcceptedIsSound
  <2>2. Growth(m) \in Int
    BY <2>1 DEF Growth
  <2>3. bridged' \in [PairAssets -> Int]
    BY <1>2, <2>2
  <2>4. PairsOK(registry, Done(held, m), bridged')
    BY <1>1, <1>3, <2>1, <2>3, ElsewhereOK
  <2> QED
    BY <1>3, <2>4 DEF PairsInv
<1>4. CASE m.to = Self /\ \E r \in L!Deposit(registry, m) :
              /\ L!Accepts(held, m) /\ L!Accepts(Done(held, m), Mints(r, m))
              /\ held' = Done(Done(held, m), Mints(r, m))
  <2>1. PICK r \in L!Deposit(registry, m) :
              /\ L!Accepts(held, m) /\ L!Accepts(Done(held, m), Mints(r, m))
              /\ held' = Done(Done(held, m), Mints(r, m))
    BY <1>4
  <2>2. m.name \in {"mint", "transfer"}
    BY <1>4
  <2>3. PairsOK(registry, Done(Done(held, m), Mints(r, m)), bridged) /\ m.name = "transfer"
    BY <1>4, <2>1, <2>2, DepositOK
  <2>4. Growth(m) = 0
    BY <2>3 DEF Growth
  <2>5. bridged' = bridged
    BY <1>2, <2>4
  <2> QED
    BY <2>1, <2>3, <2>5 DEF PairsInv
<1>5. CASE m.to = Self /\ \E r \in L!Withdrawal(registry, m) :
              /\ L!Accepts(held, m) /\ L!Accepts(Done(held, m), Burns(m))
              /\ L!Accepts(Done(Done(held, m), Burns(m)), Pays(r, m))
              /\ held' = Done(Done(Done(held, m), Burns(m)), Pays(r, m))
  <2>1. PICK r \in L!Withdrawal(registry, m) :
              /\ L!Accepts(held, m) /\ L!Accepts(Done(held, m), Burns(m))
              /\ L!Accepts(Done(Done(held, m), Burns(m)), Pays(r, m))
              /\ held' = Done(Done(Done(held, m), Burns(m)), Pays(r, m))
    BY <1>5
  <2>2. m.name \in {"mint", "transfer"}
    BY <1>5
  <2>3. PairsOK(registry, Done(Done(Done(held, m), Burns(m)), Pays(r, m)), bridged')
    BY <1>5, <2>1, <2>2, WithdrawalOK
  <2> QED
    BY <2>1, <2>3 DEF PairsInv
<1> QED
  BY <1>3, <1>4, <1>5, OutcomeCases

LEMMA PairsTransfer ==
    ASSUME L!Parameters, PairsInv, NEW u \in Users, NEW v \in L!Holders, NEW x \in PairAssets,
           NEW amount \in Quantities, L!transfer(u, v, x, amount)
    PROVE  PairsInv'
<1> DEFINE m == L!Transfer(u, v, x, amount)
<1>1. /\ m.code = x[1] /\ m.symbol = x[2] /\ m.name = "transfer" /\ m.from = u /\ m.to = v
      /\ m.amount = amount
  BY DEF L!Transfer, L!Message
<1>2. held' \in L!Outcome(m) /\ registry' = registry /\ bridged' = bridged
  BY DEF L!transfer
<1> HIDE DEF m
<1>3. /\ <<m.code, m.symbol>> \in PairAssets /\ amount \in Int
      /\ bridged \in [PairAssets -> Int]
  BY <1>1 DEF L!Parameters, PairsInv, PairsOK
<1>4. bridged' = [bridged EXCEPT ![<<m.code, m.symbol>>] = @ + Growth(m)]
  BY <1>1, <1>2, <1>3 DEF Growth
<1>5. m.name \in {"mint", "burn", "transfer"} /\ (m.name = "burn" => m.to # Self)
  BY <1>1
<1> QED
  BY <1>1, <1>2, <1>3, <1>4, <1>5, OutcomeOK

LEMMA PairsMint ==
    ASSUME L!Parameters, PairsInv, NEW b \in PairBridges, NEW v \in L!Holders, NEW x \in PairAssets,
           NEW amount \in Quantities, L!mint(b, v, x, amount)
    PROVE  PairsInv'
<1> DEFINE m == L!Message(x[1], "mint", b, v, x[2], amount, "")
<1>1. /\ m.code = x[1] /\ m.symbol = x[2] /\ m.name = "mint" /\ m.from = b /\ m.to = v
      /\ m.amount = amount
  BY DEF L!Message
<1>2. /\ held' \in L!Outcome(m) /\ registry' = registry
      /\ bridged' = [bridged EXCEPT ![x] = @ + amount]
  <2>1. held' \in L!Outcome(m)
    BY Zenon DEF L!mint
  <2>2. UNCHANGED <<registry, frozen>>
    BY Zenon DEF L!mint
  <2>3. bridged' = [bridged EXCEPT ![x] = @ + amount]
    BY Zenon DEF L!mint
  <2> HIDE DEF m
  <2> QED
    BY <2>1, <2>2, <2>3
<1> HIDE DEF m
<1>3. x = <<m.code, m.symbol>> /\ amount \in Int /\ b \in Users
  BY <1>1 DEF L!Parameters
<1>4. Growth(m) = amount
  BY <1>1 DEF Growth
<1>5. bridged' = [bridged EXCEPT ![<<m.code, m.symbol>>] = @ + Growth(m)]
  BY <1>2, <1>3, <1>4
<1>6. m.name \in {"mint", "burn", "transfer"} /\ (m.name = "burn" => m.to # Self)
  BY <1>1
<1> QED
  BY <1>1, <1>2, <1>3, <1>5, <1>6, OutcomeOK

LEMMA PairsBurn ==
    ASSUME L!Parameters, PairsInv, NEW b \in PairBridges, NEW x \in PairAssets,
           NEW amount \in Quantities, L!burn(b, x, amount)
    PROVE  PairsInv'
<1> DEFINE m == L!Message(x[1], "burn", b, b, x[2], amount, "")
<1>1. /\ m.code = x[1] /\ m.symbol = x[2] /\ m.name = "burn" /\ m.from = b /\ m.to = b
      /\ m.amount = amount
  BY DEF L!Message
<1>2. /\ held' \in L!Outcome(m) /\ registry' = registry
      /\ bridged' = [bridged EXCEPT ![x] = @ - amount]
  <2>1. held' \in L!Outcome(m)
    BY Zenon DEF L!burn
  <2>2. UNCHANGED <<registry, frozen>>
    BY Zenon DEF L!burn
  <2>3. bridged' = [bridged EXCEPT ![x] = @ - amount]
    BY Zenon DEF L!burn
  <2> HIDE DEF m
  <2> QED
    BY <2>1, <2>2, <2>3
<1> HIDE DEF m
<1>3. /\ x = <<m.code, m.symbol>> /\ amount \in Int /\ b \in Users /\ b # Self
      /\ bridged \in [PairAssets -> Int]
  BY <1>1 DEF L!Parameters, PairsInv, PairsOK
<1>4. Growth(m) = -amount /\ bridged[x] - amount = bridged[x] + (-amount)
  BY <1>1, <1>3 DEF Growth
<1>5. bridged' = [bridged EXCEPT ![<<m.code, m.symbol>>] = @ + Growth(m)]
  BY <1>2, <1>3, <1>4
<1>6. m.name \in {"mint", "burn", "transfer"} /\ (m.name = "burn" => m.to # Self) /\ b \in L!Holders
  BY <1>1, <1>3 DEF L!Holders
<1> QED
  BY <1>1, <1>2, <1>3, <1>5, <1>6, OutcomeOK

LEMMA PairsPull ==
    ASSUME L!Parameters, PairsInv, NEW a \in FreezeTargets, NEW v \in L!Holders, NEW x \in PairAssets,
           NEW amount \in Quantities, L!pullfrozen(a, v, x, amount)
    PROVE  PairsInv'
<1> DEFINE m == L!Transfer(a, v, x, amount)
<1>1. /\ m.code = x[1] /\ m.symbol = x[2] /\ m.name = "transfer" /\ m.from = a /\ m.to = v
      /\ m.amount = amount
  BY DEF L!Transfer, L!Message
<1>2. /\ x[1] \in XTokens /\ a # v /\ amount > 0 /\ held[x][a] >= amount
      /\ held' = [held EXCEPT ![x] = L!Booked(@, m)]
      /\ registry' = registry /\ bridged' = bridged
  BY DEF L!pullfrozen
<1> HIDE DEF m
<1>3. /\ x = <<m.code, m.symbol>> /\ amount \in Nat /\ a \in L!Holders
      /\ bridged \in [PairAssets -> Int]
  BY <1>1, <1>2 DEF L!Parameters, PairsInv, PairsOK
<1>4. held' = Done(held, m)
  BY <1>2, <1>3 DEF Done
<1>5. Sound(held, m)
  BY <1>1, <1>2, <1>3 DEF Sound
<1>6. bridged = [bridged EXCEPT ![<<m.code, m.symbol>>] = @ + Growth(m)]
  <2>1. Growth(m) = 0 /\ bridged[x] + 0 = bridged[x]
    BY <1>1, <1>3 DEF Growth
  <2> QED
    BY <1>3, <2>1
<1>7. PairsOK(registry, Done(held, m), bridged)
  BY <1>1, <1>2, <1>3, <1>5, <1>6, ElsewhereOK
<1> QED
  BY <1>2, <1>4, <1>7 DEF PairsInv

LEMMA PairsInductive == ASSUME L!Parameters PROVE L!Spec => []PairsInv
<1>1. ASSUME PairsInv, [L!Next]_L!vars PROVE PairsInv'
  <2>1. CASE \E row \in Pairs : L!create(row)
    BY <1>1, <2>1, PairsCreate
  <2>2. CASE \E x \in PairAssets, amount \in Quantities, u \in Users, v \in L!Holders :
               L!transfer(u, v, x, amount)
    BY <1>1, <2>2, PairsTransfer
  <2>3. CASE \E x \in PairAssets, amount \in Quantities, b \in PairBridges, v \in L!Holders :
               L!mint(b, v, x, amount)
    BY <1>1, <2>3, PairsMint
  <2>4. CASE \E x \in PairAssets, amount \in Quantities, b \in PairBridges : L!burn(b, x, amount)
    BY <1>1, <2>4, PairsBurn
  <2>5. CASE \E x \in PairAssets, amount \in Quantities, a \in FreezeTargets, v \in L!Holders :
               L!pullfrozen(a, v, x, amount)
    BY <1>1, <2>5, PairsPull
  <2>6. CASE \E c \in XTokens, a \in FreezeTargets : L!freeze(c, a) \/ L!unfreeze(c, a)
    <3>1. registry' = registry /\ held' = held /\ bridged' = bridged
      BY <2>6 DEF L!freeze, L!unfreeze
    <3> QED
      BY <1>1, <3>1 DEF PairsInv
  <2>7. CASE UNCHANGED L!vars
    BY <1>1, <2>7 DEF L!vars, PairsInv
  <2> QED
    BY <1>1, <2>1, <2>2, <2>3, <2>4, <2>5, <2>6, <2>7 DEF L!Next
<1> QED
  BY <1>1, PairsInit, PTL DEF L!Spec

\* In every xERC20 contract the lockbox keeps as much as it wrapped: through
\* registrations in any order, deposits, withdrawals of every symbol that
\* lower_bound answers, mints and burns of bridges, frozen accounts and full
\* supplies; with the collateral that is missing, if any, at a greater symbol.
THEOREM PairsSafety == ASSUME L!Parameters PROVE L!Spec => []PairsBacked
<1>1. ASSUME NEW c, NEW S
      PROVE  /\ L!KeptFor(c, S) = SumFunctionOnSet(KeptIn(registry, held), RowsOf(c, S))
             /\ L!WrappedOn(c, S) = SumFunctionOnSet(WrappedIn(held, bridged), SymbolsOf(c, S))
  BY SameHolderSums DEF L!KeptFor, L!WrappedOn, L!Kept, L!Wrapped, KeptIn, WrappedIn,
                        RowsOf, SymbolsOf
<1>2. ASSUME PairsInv, NEW c \in XTokens
      PROVE  /\ L!KeptFor(c, Nat) = L!WrappedOn(c, Nat)
             /\ \A x \in PairAssets : L!KeptFor(c, 0 .. x[2]) >= L!WrappedOn(c, 0 .. x[2])
  <2>1. \A x \in PairAssets : x[2] \in Nat
    BY DEF L!Parameters
  <2>2. BackedBy(KeptIn(registry, held), WrappedIn(held, bridged))
    BY <1>2 DEF PairsInv, PairsOK
  <2> QED
    BY <1>1, <2>1, <2>2 DEF BackedBy
<1>3. PairsInv => L!PairsBacked
  BY <1>2 DEF L!PairsBacked
<1> QED
  BY <1>3, PairsInductive, PTL DEF PairsBacked

-----------------------------------------------------------------------------
(***************************************************************************)
(* Wrapping and unwrapping.                                                *)
(***************************************************************************)
LEMMA CanWrap ==
    ASSUME L!Parameters, PairsInv, NEW r \in registry, NEW u \in Users, NEW a \in Nat, a > 0,
           held[L!TokenOf(r)][u] = a,
           a <= MaxSupply[L!WrappedOf(r)] - L!Supply(held, L!WrappedOf(r))
    PROVE  \E h \in L!Outcome(L!Transfer(u, Self, L!TokenOf(r), a)) :
              /\ h[L!WrappedOf(r)][u] = held[L!WrappedOf(r)][u] + a
              /\ h[L!TokenOf(r)][u] = 0
<1> DEFINE t == L!TokenOf(r)
           w == L!WrappedOf(r)
           m == L!Transfer(u, Self, t, a)
           n == Mints(r, m)
           h == Done(held, m)
           k == Done(h, n)
<1>1. /\ registry \subseteq Pairs /\ held \in PairTables
      /\ t \in PairAssets /\ w \in PairAssets
      /\ \A q \in registry : q.token_symbol = r.token_symbol => q = r
  BY DEF PairsInv, PairsOK
<1>2. /\ t[1] = r.token /\ t[2] = r.token_symbol /\ t = <<t[1], t[2]>>
      /\ w[1] = r.xerc20 /\ w[2] = r.xerc20_symbol /\ w = <<w[1], w[2]>>
  BY DEF L!TokenOf, L!WrappedOf
<1>3. /\ r.token \notin XTokens /\ r.xerc20 \in XTokens
      /\ Self \notin Users /\ u \in L!Holders /\ Self \in L!Holders /\ u # Self
  BY <1>1 DEF L!Parameters, L!Holders
<1>4. t # w
  BY <1>2, <1>3
<1>5. /\ m.code = t[1] /\ m.symbol = t[2] /\ m.amount = a /\ m.to = Self /\ m.from = u
      /\ m.name = "transfer"
  BY DEF L!Transfer, L!Message
<1>6. /\ n.name = "mint" /\ n.from = Self /\ n.to = m.from /\ n.amount = m.amount
      /\ <<n.code, n.symbol>> = w /\ n.code = w[1]
  BY DEF Mints, L!Message, L!WrappedOf
<1> HIDE DEF m, n, h, k, t, w
<1>7. L!Deposit(registry, m) = {r}
  BY <1>1, <1>2, <1>5 DEF L!Deposit, L!FoundToken
<1>8. L!CanReceive(registry, m) /\ L!Sent(registry, m) = L!Minted(r, m)
  BY <1>5, <1>7 DEF L!CanReceive, L!Sent
<1>9. <<m.code, m.symbol>> = t /\ held[t][u] = a
  BY <1>2, <1>5 DEF t
<1>10. L!Accepts(held, m) /\ Sound(held, m)
  <2>1. L!Accepts(held, m)
    BY <1>1, <1>2, <1>3, <1>5, <1>9 DEF L!Accepts
  <2>2. m.name \in {"mint", "burn", "transfer"} /\ m.amount \in Int
    BY <1>5
  <2> QED
    BY <1>3, <1>5, <2>1, <2>2, AcceptedIsSound
<1>11. /\ h \in PairTables /\ \A b \in L!Holders : h[t][b] = held[t][b] + Gain(m, b)
       /\ \A y \in PairAssets \ {t} : h[y] = held[y]
  BY <1>1, <1>9, <1>10, Acted DEF h
<1>12. L!Supply(h, w) = L!Supply(held, w)
  BY <1>1, <1>4, <1>9, <1>10, Grown DEF h
<1>13. L!Accepts(h, n) /\ Sound(h, n)
  <2>1. n.amount <= MaxSupply[w] - L!Supply(h, w)
    BY <1>5, <1>6, <1>12 DEF w
  <2>2. L!Accepts(h, n)
    BY <1>1, <1>2, <1>3, <1>5, <1>6, <2>1 DEF L!Accepts
  <2>3. n.name \in {"mint", "burn", "transfer"} /\ n.amount \in Int
    BY <1>5, <1>6
  <2> QED
    BY <1>3, <1>5, <1>6, <2>2, <2>3, AcceptedIsSound
<1>14. /\ \A b \in L!Holders : k[w][b] = h[w][b] + Gain(n, b)
       /\ \A y \in PairAssets \ {w} : k[y] = h[y]
  BY <1>6, <1>11, <1>13, Acted DEF k
<1>15. k \in L!Outcome(m)
  <2>1. L!Outcome(m) = L!AfterAll({held}, << m >> \o L!Minted(r, m))
    BY <1>5, <1>8 DEF L!Outcome
  <2>2. k \in L!AfterAll({held}, << m >> \o L!Minted(r, m))
    BY <1>10, <1>13, DepositAfter DEF h, n, k
  <2> QED
    BY <2>1, <2>2
<1>16. k[w][u] = held[w][u] + a
  <2>1. Gain(n, u) = a
    BY <1>5, <1>6 DEF Gain
  <2> QED
    BY <1>1, <1>3, <1>4, <1>11, <1>14, <2>1
<1>17. k[t][u] = 0
  <2>1. Gain(m, u) = -a
    BY <1>3, <1>5 DEF Gain
  <2> QED
    BY <1>1, <1>3, <1>4, <1>9, <1>11, <1>14, <2>1
<1> QED
  BY <1>15, <1>16, <1>17 DEF m, t, w

LEMMA CanUnwrap ==
    ASSUME L!Parameters, PairsInv, NEW r \in registry, NEW u \in Users, NEW a \in Nat, a > 0,
           held[L!WrappedOf(r)][u] = a, a <= held[L!TokenOf(r)][Self], L!IsFound(r),
           {u, Self} \cap frozen[L!WrappedOf(r)[1]] = {}
    PROVE  \E h \in L!Outcome(L!Transfer(u, Self, L!WrappedOf(r), a)) :
              /\ h[L!TokenOf(r)][u] = held[L!TokenOf(r)][u] + a
              /\ h[L!WrappedOf(r)][u] = 0
<1> DEFINE t == L!TokenOf(r)
           w == L!WrappedOf(r)
           m == L!Transfer(u, Self, w, a)
           n == Burns(m)
           p == Pays(r, m)
           h == Done(held, m)
           l == Done(h, n)
           k == Done(l, p)
<1>1. /\ registry \subseteq Pairs /\ held \in PairTables
      /\ t \in PairAssets /\ w \in PairAssets
  BY DEF PairsInv, PairsOK
<1>2. /\ t[1] = r.token /\ t[2] = r.token_symbol /\ t = <<t[1], t[2]>>
      /\ w[1] = r.xerc20 /\ w[2] = r.xerc20_symbol /\ w = <<w[1], w[2]>>
  BY DEF L!TokenOf, L!WrappedOf
<1>3. /\ r.token \notin XTokens /\ r.xerc20 \in XTokens
      /\ Self \notin Users /\ u \in L!Holders /\ Self \in L!Holders /\ u # Self
      /\ \A q \in registry : q.xerc20_symbol \in Nat /\ q.token_symbol \in Nat
  BY <1>1 DEF L!Parameters, L!Holders
<1>4. t # w
  BY <1>2, <1>3
<1>5. /\ m.code = w[1] /\ m.symbol = w[2] /\ m.amount = a /\ m.to = Self /\ m.from = u
      /\ m.name = "transfer"
  BY DEF L!Transfer, L!Message
<1>6. /\ n.name = "burn" /\ n.from = Self /\ n.to = Self /\ n.amount = m.amount
      /\ n.code = m.code /\ n.symbol = m.symbol
  BY DEF Burns, L!Message
<1>7. /\ p.name = "transfer" /\ p.from = Self /\ p.to = m.from /\ p.amount = m.amount
      /\ <<p.code, p.symbol>> = t /\ p.code = t[1]
  BY DEF Pays, L!Message, L!TokenOf
<1> HIDE DEF m, n, p, h, l, k, t, w
<1>8. L!FoundToken(registry, m.symbol) = {} /\ L!Deposit(registry, m) = {}
  <2>1. \A q \in registry : q.token_symbol # r.xerc20_symbol
    BY DEF L!IsFound
  <2> QED
    BY <1>2, <1>5, <2>1 DEF L!FoundToken, L!Deposit
<1>9. L!LowerBoundXERC20(registry, m.symbol) = {r}
  <2>1. \A q \in registry : q.xerc20_symbol = r.xerc20_symbol => q = r
    BY DEF L!IsFound
  <2>2. m.symbol = r.xerc20_symbol
    BY <1>2, <1>5
  <2>3. r \in L!LowerBoundXERC20(registry, m.symbol)
    <3>1. ASSUME NEW q \in registry, q.xerc20_symbol >= m.symbol
          PROVE  \/ r.xerc20_symbol < q.xerc20_symbol
                 \/ r.xerc20_symbol = q.xerc20_symbol /\ r.token_symbol <= q.token_symbol
      BY <1>3, <2>1, <2>2, <3>1
    <3>2. r.xerc20_symbol >= m.symbol
      BY <1>3, <2>2
    <3> QED
      BY <3>1, <3>2 DEF L!LowerBoundXERC20
  <2>4. ASSUME NEW q \in L!LowerBoundXERC20(registry, m.symbol) PROVE q = r
    <3>1. /\ q \in registry /\ q.xerc20_symbol >= m.symbol
          /\ q.xerc20_symbol < r.xerc20_symbol \/ q.xerc20_symbol = r.xerc20_symbol
      BY <1>3, <2>2 DEF L!LowerBoundXERC20
    <3>2. q.xerc20_symbol = r.xerc20_symbol
      BY <1>3, <2>2, <3>1
    <3> QED
      BY <2>1, <3>1, <3>2
  <2> QED
    BY <2>3, <2>4
<1>10. L!Withdrawal(registry, m) = {r}
  BY <1>2, <1>5, <1>8, <1>9 DEF L!Withdrawal
<1>11. L!CanReceive(registry, m) /\ L!Sent(registry, m) = L!Released(r, m)
  BY <1>5, <1>8, <1>10 DEF L!CanReceive, L!Sent
<1>12. <<m.code, m.symbol>> = w /\ held[w][u] = a /\ <<n.code, n.symbol>> = w
       /\ {u, Self} \cap frozen[w[1]] = {} /\ a <= held[t][Self]
  BY <1>2, <1>5, <1>6 DEF w, t
<1>13. L!Accepts(held, m) /\ Sound(held, m)
  <2>1. L!Accepts(held, m)
    BY <1>1, <1>2, <1>3, <1>5, <1>12 DEF L!Accepts
  <2>2. m.name \in {"mint", "burn", "transfer"} /\ m.amount \in Int
    BY <1>5
  <2> QED
    BY <1>3, <1>5, <2>1, <2>2, AcceptedIsSound
<1>14. /\ h \in PairTables /\ \A b \in L!Holders : h[w][b] = held[w][b] + Gain(m, b)
       /\ \A y \in PairAssets \ {w} : h[y] = held[y]
  BY <1>1, <1>12, <1>13, Acted DEF h
<1>15. h[w][Self] >= a /\ h[w][u] = 0
  <2>1. Gain(m, Self) = a /\ Gain(m, u) = -a
    BY <1>3, <1>5 DEF Gain
  <2>2. held[w][Self] \in Nat /\ held[w][u] = a
    BY <1>1, <1>3, <1>12 DEF PairTables
  <2> QED
    BY <1>3, <1>14, <2>1, <2>2
<1>16. L!Accepts(h, n) /\ Sound(h, n)
  <2>1. L!Accepts(h, n)
    BY <1>1, <1>2, <1>3, <1>5, <1>6, <1>12, <1>15 DEF L!Accepts
  <2>2. n.name \in {"mint", "burn", "transfer"} /\ n.amount \in Int
    BY <1>5, <1>6
  <2> QED
    BY <1>3, <1>6, <2>1, <2>2, AcceptedIsSound
<1>17. /\ l \in PairTables /\ \A b \in L!Holders : l[w][b] = h[w][b] + Gain(n, b)
       /\ \A y \in PairAssets \ {w} : l[y] = h[y]
  BY <1>12, <1>14, <1>16, Acted DEF l
<1>18. l[t] = held[t] /\ l[w][u] = 0
  <2>1. Gain(n, u) = 0
    BY <1>3, <1>6 DEF Gain
  <2> QED
    BY <1>1, <1>3, <1>4, <1>14, <1>15, <1>17, <2>1
<1>19. L!Accepts(l, p) /\ Sound(l, p)
  <2>1. l[t][Self] >= a
    BY <1>12, <1>18, <1>1, <1>3 DEF PairTables
  <2>2. L!Accepts(l, p)
    BY <1>1, <1>2, <1>3, <1>5, <1>7, <2>1 DEF L!Accepts
  <2>3. p.name \in {"mint", "burn", "transfer"} /\ p.amount \in Int
    BY <1>5, <1>7
  <2> QED
    BY <1>3, <1>5, <1>7, <2>2, <2>3, AcceptedIsSound
<1>20. /\ \A b \in L!Holders : k[t][b] = l[t][b] + Gain(p, b)
       /\ \A y \in PairAssets \ {t} : k[y] = l[y]
  BY <1>7, <1>17, <1>19, Acted DEF k
<1>21. k \in L!Outcome(m)
  <2>1. L!Outcome(m) = L!AfterAll({held}, << m >> \o L!Released(r, m))
    BY <1>5, <1>11 DEF L!Outcome
  <2>2. k \in L!AfterAll({held}, << m >> \o L!Released(r, m))
    BY <1>13, <1>16, <1>19, WithdrawalAfter DEF h, l, n, p, k
  <2> QED
    BY <2>1, <2>2
<1>22. k[t][u] = held[t][u] + a
  <2>1. Gain(p, u) = a
    BY <1>5, <1>7 DEF Gain
  <2> QED
    BY <1>3, <1>18, <1>20, <2>1
<1>23. k[w][u] = 0
  BY <1>1, <1>4, <1>18, <1>20
<1> QED
  BY <1>21, <1>22, <1>23 DEF m, t, w

\* Whoever holds tokens of a registered pair can wrap them all unless their
\* maximum is reached, and whoever holds wrapped ones can unwrap them all if
\* the collateral is there, nobody is frozen and no row hides the pair's, in
\* every reachable state: nothing else makes find or lower_bound miss the row.
THEOREM RedeemableSafety == ASSUME L!Parameters PROVE L!Spec => []Redeemable
<1>1. ASSUME PairsInv, NEW r \in registry, NEW u \in Users
      PROVE  LET t == L!TokenOf(r)
                 w == L!WrappedOf(r)
                 tokens == held[t][u]
                 wrapped == held[w][u]
             IN  /\ tokens \in 1 .. MaxSupply[w] - L!Supply(held, w) =>
                       \E h \in L!Outcome(L!Transfer(u, Self, t, tokens)) :
                          h[w][u] = wrapped + tokens /\ h[t][u] = 0
                 /\ /\ wrapped \in 1 .. held[t][Self] /\ L!IsFound(r)
                    /\ {u, Self} \cap frozen[w[1]] = {}
                    => \E h \in L!Outcome(L!Transfer(u, Self, w, wrapped)) :
                          h[t][u] = tokens + wrapped /\ h[w][u] = 0
  <2> DEFINE t == L!TokenOf(r)
             w == L!WrappedOf(r)
  <2>1. /\ held[w][u] \in Nat /\ held[t][u] \in Nat /\ held[t][Self] \in Nat
        /\ MaxSupply[w] \in Nat /\ L!Supply(held, w) \in Int
    <3>1. /\ held \in PairTables /\ t \in PairAssets /\ w \in PairAssets
          /\ MaxSupply \in [PairAssets -> Nat] /\ u \in L!Holders /\ Self \in L!Holders
      BY <1>1 DEF PairsInv, PairsOK, L!Parameters, L!Holders
    <3> HIDE DEF t, w
    <3>2. L!Supply(held, w) \in Int
      BY <3>1, SupplyIsInt
    <3> QED
      BY <3>1, <3>2 DEF PairTables
  <2> HIDE DEF t, w
  <2>2. ASSUME held[t][u] \in 1 .. MaxSupply[w] - L!Supply(held, w)
        PROVE  \E h \in L!Outcome(L!Transfer(u, Self, t, held[t][u])) :
                  h[w][u] = held[w][u] + held[t][u] /\ h[t][u] = 0
    <3>1. held[t][u] > 0 /\ held[t][u] <= MaxSupply[w] - L!Supply(held, w)
      BY <2>1, <2>2
    <3> QED
      BY <1>1, <2>1, <3>1, CanWrap DEF t, w
  <2>3. ASSUME held[w][u] \in 1 .. held[t][Self], L!IsFound(r), {u, Self} \cap frozen[w[1]] = {}
        PROVE  \E h \in L!Outcome(L!Transfer(u, Self, w, held[w][u])) :
                  h[t][u] = held[t][u] + held[w][u] /\ h[w][u] = 0
    <3>1. held[w][u] > 0 /\ held[w][u] <= held[t][Self]
      BY <2>1, <2>3
    <3> QED
      BY <1>1, <2>1, <2>3, <3>1, CanUnwrap DEF t, w
  <2> QED
    BY <2>2, <2>3 DEF t, w
<1>2. PairsInv => L!Redeemable
  BY <1>1 DEF L!Redeemable
<1> QED
  BY <1>2, PairsInductive, PTL DEF Redeemable

=============================================================================
