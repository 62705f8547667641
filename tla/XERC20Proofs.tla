---------------------------- MODULE XERC20Proofs ----------------------------
(***************************************************************************)
(* Proofs about the xERC20 token for every set of accounts, every duration *)
(* and every width of the integers.                                        *)
(***************************************************************************)
EXTENDS XERC20, XERC20TokenProofs

(***************************************************************************)
(* Lemmas about a bucket together with its use history.                    *)
(***************************************************************************)

\* A use moves quota from what is left to what is used.
LEMMA HistoryUse ==
    ASSUME NEW p \in Bucket, BucketOK(p),
           NEW w \in [Window -> Nat], HistoryOK(w, p),
           NEW change \in Nat, change <= GetCurrentLimit(p)
    PROVE  HistoryOK([k \in Window |-> w[k] + change], UseLimits(p, change))
<1> DEFINE q == UseLimits(p, change)
           g == GetCurrentLimit(p)
           v == [k \in Window |-> w[k] + change]
<1>1. /\ GetCurrentLimit(q) = g - change /\ q.age = 0
      /\ q.maxLimit = p.maxLimit /\ q.ratePerSecond = p.ratePerSecond
  BY UseLimitsFacts
<1>2. g \in Nat
  BY CurrentLimitBounds, MaxUintAssumption DEF BucketOK, Uint
<1> SUFFICES ASSUME NEW k \in Window
             PROVE  /\ v[k] + GetCurrentLimit(q) <= q.maxLimit + k * q.ratePerSecond
                    /\ ~(k < q.age)
  BY DEF HistoryOK
<1>3. w[k] + g <= p.maxLimit + k * p.ratePerSecond
  BY DEF HistoryOK
<1> HIDE DEF q, g
<1>4. v[k] + GetCurrentLimit(q) = w[k] + g
  BY <1>1, <1>2
<1>5. QED
  BY <1>1, <1>3, <1>4, DurationAssumption DEF Window

\* The limits being set starts an empty history.
LEMMA HistoryChange ==
    ASSUME NEW p \in Bucket, BucketOK(p), p.age = 0
    PROVE  HistoryOK(NothingWithin, p)
<1>1. GetCurrentLimit(p) \in Nat /\ GetCurrentLimit(p) <= p.maxLimit
  BY CurrentLimitBounds, MaxUintAssumption DEF BucketOK, Uint
<1>2. p.maxLimit \in Nat /\ p.ratePerSecond \in Nat
  BY MaxUintAssumption DEF Bucket, Uint
<1>3. \A k \in Window : k * p.ratePerSecond \in Nat
  BY <1>2, DurationAssumption DEF Window
<1>4. QED
  BY <1>1, <1>2, <1>3, DurationAssumption DEF HistoryOK, NothingWithin, Window

\* Time passing moves every window back by one second.
LEMMA HistorySlide ==
    ASSUME NEW p \in Bucket, BucketOK(p), NEW w \in [Window -> Nat], HistoryOK(w, p)
    PROVE  HistoryOK([k \in Window |-> IF k = 0 THEN 0 ELSE w[k - 1]], Aged(p))
<1> DEFINE q == Aged(p)
           g == GetCurrentLimit(p)
           v == [k \in Window |-> IF k = 0 THEN 0 ELSE w[k - 1]]
<1>1. /\ q \in Bucket /\ BucketOK(q) /\ q.age = Lesser(DURATION, p.age + 1)
      /\ q.maxLimit = p.maxLimit /\ q.ratePerSecond = p.ratePerSecond
      /\ p.age + 1 # DURATION => GetCurrentLimit(q) <= g + p.ratePerSecond
  BY AgedFacts
<1>2. /\ g \in Nat /\ GetCurrentLimit(q) \in Nat /\ GetCurrentLimit(q) <= p.maxLimit
  BY <1>1, CurrentLimitBounds, MaxUintAssumption DEF BucketOK, Uint
<1>3. p.age \in 0 .. DURATION /\ p.ratePerSecond \in Nat /\ p.maxLimit \in Nat
  BY MaxUintAssumption DEF Bucket, Uint
<1> SUFFICES ASSUME NEW k \in Window
             PROVE  /\ v[k] + GetCurrentLimit(q) <= q.maxLimit + k * q.ratePerSecond
                    /\ k < q.age => v[k] = 0
  BY DEF HistoryOK
<1> HIDE DEF q, g
<1>4. k \in Nat /\ k < DURATION /\ k * p.ratePerSecond \in Nat
  BY <1>3, DurationAssumption DEF Window
<1>5. CASE k = 0
  BY <1>1, <1>2, <1>3, <1>4, <1>5
<1>6. CASE k # 0
  <2>1. k - 1 \in Window /\ v[k] = w[k - 1] /\ w[k - 1] \in Nat
    BY <1>4, <1>6, DurationAssumption DEF Window
  <2>2. /\ w[k - 1] + g <= p.maxLimit + (k - 1) * p.ratePerSecond
        /\ k - 1 < p.age => w[k - 1] = 0
    BY <2>1 DEF HistoryOK, g
  <2>3. (k - 1) * p.ratePerSecond + p.ratePerSecond = k * p.ratePerSecond
    BY <1>3, <1>4
  <2>4. (k - 1) * p.ratePerSecond \in Nat
    BY <1>3, <1>4, <1>6
  <2>5. k < q.age => v[k] = 0
    BY <1>1, <1>3, <1>4, <2>1, <2>2, DurationAssumption DEF Lesser
  <2>6. v[k] + GetCurrentLimit(q) <= q.maxLimit + k * q.ratePerSecond
    <3>1. CASE p.age + 1 = DURATION
      BY <1>1, <1>2, <1>3, <1>4, <2>1, <2>2, <3>1
    <3>2. CASE p.age + 1 # DURATION
      BY <1>1, <1>2, <1>3, <1>4, <2>1, <2>2, <2>3, <2>4, <3>2
    <3>3. QED
      BY <3>1, <3>2
  <2>7. QED
    BY <2>5, <2>6
<1>7. QED
  BY <1>5, <1>6

\* Functions that touch neither bucket nor history.
LEMMA QuotaUnchanged ==
    ASSUME QuotaInvariant, token'.minter = token.minter, token'.burner = token.burner,
           UNCHANGED <<mintedWithin, burnedWithin>>
    PROVE  QuotaInvariant'
BY DEF QuotaInvariant, QuotaOK

-----------------------------------------------------------------------------
(***************************************************************************)
(* The inductive invariant.                                                *)
(***************************************************************************)
IInv == TypeOK /\ QuotaInvariant

LEMMA InitIInv == Init => IInv
<1> SUFFICES ASSUME Init PROVE IInv
  OBVIOUS
<1>1. ZeroBucket \in Bucket
  BY DurationAssumption, MaxUintAssumption DEF ZeroBucket, Bucket, Uint
<1>2. 0 \in Supply
  BY MaxUintAssumption DEF Supply
<1>3. NewToken \in Token
  BY <1>1, <1>2, MaxUintAssumption DEF NewToken, Token, AddressOrZero, Uint
<1>4. NothingWithin \in [Window -> Nat]
  BY DEF NothingWithin
<1>5. TypeOK
  BY <1>3, <1>4 DEF Init, TypeOK
<1>6. BucketOK(ZeroBucket)
  BY DurationAssumption DEF BucketOK, ZeroBucket
<1>7. HistoryOK(NothingWithin, ZeroBucket)
  <2>1. GetCurrentLimit(ZeroBucket) = 0
    BY DEF GetCurrentLimit, Refilled, ZeroBucket
  <2>2. \A k \in Window : k * 0 = 0
    BY DurationAssumption DEF Window
  <2>3. QED
    BY <2>1, <2>2 DEF HistoryOK, NothingWithin, ZeroBucket
<1>8. QuotaInvariant
  BY <1>6, <1>7 DEF Init, NewToken, QuotaInvariant, QuotaOK
<1>9. QED
  BY <1>5, <1>8 DEF IInv

\* One side of the bookkeeping when caller uses amount of its bucket.
LEMMA QuotaUse ==
    ASSUME NEW h \in [Address -> [Window -> Nat]], NEW buckets \in [Address -> Bucket],
           QuotaOK(h, buckets), NEW caller \in Address,
           NEW amount \in Nat, amount <= GetCurrentLimit(buckets[caller])
    PROVE  /\ QuotaOK(Metered(h, caller, amount),
                      [buckets EXCEPT ![caller] = UseLimits(buckets[caller], amount)])
           /\ Metered(h, caller, amount) \in [Address -> [Window -> Nat]]
<1> DEFINE w == [k \in Window |-> h[caller][k] + amount]
           q == UseLimits(buckets[caller], amount)
<1>1. BucketOK(buckets[caller]) /\ HistoryOK(h[caller], buckets[caller])
  BY DEF QuotaOK
<1>2. BucketOK(q) /\ HistoryOK(w, q)
  BY <1>1, UseLimitsFacts, HistoryUse
<1>3. w \in [Window -> Nat]
  OBVIOUS
<1> HIDE DEF w, q
<1>4. QuotaOK([h EXCEPT ![caller] = w], [buckets EXCEPT ![caller] = q])
  BY <1>2 DEF QuotaOK
<1>5. QED
  BY <1>3, <1>4 DEF Metered, w, q

\* One side of the bookkeeping when the owner changes the maximum of b.
LEMMA QuotaChange ==
    ASSUME NEW h \in [Address -> [Window -> Nat]], NEW buckets \in [Address -> Bucket],
           QuotaOK(h, buckets), NEW b \in Address, NEW limit \in Uint
    PROVE  QuotaOK([h EXCEPT ![b] = NothingWithin],
                   [buckets EXCEPT ![b] = ChangeLimit(buckets[b], limit)])
<1> DEFINE q == ChangeLimit(buckets[b], limit)
<1>1. BucketOK(buckets[b])
  BY DEF QuotaOK
<1>2. BucketOK(q) /\ HistoryOK(NothingWithin, q)
  BY <1>1, ChangeLimitFacts, HistoryChange
<1> HIDE DEF q
<1>3. QuotaOK([h EXCEPT ![b] = NothingWithin], [buckets EXCEPT ![b] = q])
  BY <1>2 DEF QuotaOK
<1>4. QED
  BY <1>3 DEF q

\* One side of the bookkeeping when a second passes.
LEMMA QuotaSlide ==
    ASSUME NEW h \in [Address -> [Window -> Nat]], NEW buckets \in [Address -> Bucket],
           QuotaOK(h, buckets)
    PROVE  /\ QuotaOK(Slid(h), [a \in Address |-> Aged(buckets[a])])
           /\ Slid(h) \in [Address -> [Window -> Nat]]
<1>1. ASSUME NEW b \in Address
      PROVE  /\ Slid(h)[b] \in [Window -> Nat]
             /\ BucketOK(Aged(buckets[b]))
             /\ HistoryOK(Slid(h)[b], Aged(buckets[b]))
  <2>1. BucketOK(buckets[b]) /\ HistoryOK(h[b], buckets[b])
    BY DEF QuotaOK
  <2>2. Slid(h)[b] = [k \in Window |-> IF k = 0 THEN 0 ELSE h[b][k - 1]]
    BY DEF Slid
  <2>3. \A k \in Window : k # 0 => k - 1 \in Window
    BY DurationAssumption DEF Window
  <2>4. QED
    BY <2>1, <2>2, <2>3, AgedFacts, HistorySlide
<1>2. QED
  BY <1>1 DEF QuotaOK, Slid

-----------------------------------------------------------------------------
(***************************************************************************)
(* Every function of the contract, and time, preserves the invariant.      *)
(***************************************************************************)

LEMMA StepIInv == IInv /\ [Next]_vars => IInv'
<1> SUFFICES ASSUME IInv, [Next]_vars PROVE IInv'
  OBVIOUS
<1>1. /\ token \in Token /\ QuotaInvariant
      /\ mintedWithin \in [Address -> [Window -> Nat]]
      /\ burnedWithin \in [Address -> [Window -> Nat]]
  BY DEF IInv, TypeOK
<1>2. \A a \in Address : BucketOK(token.minter[a]) /\ BucketOK(token.burner[a])
  BY <1>1 DEF QuotaInvariant, QuotaOK
<1>3. /\ token.minter \in [Address -> Bucket] /\ token.burner \in [Address -> Bucket]
      /\ QuotaOK(mintedWithin, token.minter) /\ QuotaOK(burnedWithin, token.burner)
  BY <1>1 DEF QuotaInvariant, Token
<1>4. \A v \in Amounts \cup Limits \cup Allowances : v \in Uint /\ v \in Nat
  BY InputAssumption, MaxUintAssumption DEF Uint
<1>5. ASSUME token' \in Token, token'.minter = token.minter, token'.burner = token.burner,
             UNCHANGED <<mintedWithin, burnedWithin>>
      PROVE  IInv'
  BY <1>1, <1>5, QuotaUnchanged DEF IInv, TypeOK
<1>6. ASSUME NEW from \in Address, NEW to \in Address, NEW v \in Amounts,
             Transfer(from, to, v)
      PROVE  IInv'
  BY <1>1, <1>4, <1>5, <1>6, MovedType DEF Transfer, CanTransfer
<1>7. ASSUME NEW owner \in Address, NEW spender \in Address, NEW v \in Allowances,
             Approve(owner, spender, v)
      PROVE  IInv'
  BY <1>1, <1>4, <1>5, <1>7, ApprovedType DEF Approve
<1>8. ASSUME NEW spender \in Address, NEW from \in Address, NEW to \in Address,
             NEW v \in Amounts, TransferFrom(spender, from, to, v)
      PROVE  IInv'
  <2> DEFINE s == Spent(token, from, spender, v)
  <2>1. CanSpend(token, from, spender, v) /\ token.balanceOf[from] >= v
    BY <1>8 DEF TransferFrom, CanTransferFrom, CanTransfer
  <2>2. /\ s \in Token /\ s.balanceOf = token.balanceOf
        /\ s.minter = token.minter /\ s.burner = token.burner
    BY <1>1, <1>4, <2>1, SpentType
  <2>3. token' = Moved(s, from, to, v) /\ UNCHANGED <<mintedWithin, burnedWithin>>
    BY <1>8 DEF TransferFrom, TransferredFrom
  <2> HIDE DEF s
  <2>4. QED
    BY <1>4, <1>5, <2>1, <2>2, <2>3, MovedType
<1>9. ASSUME NEW caller \in Address, NEW user \in Address, NEW v \in Amounts,
             Mint(caller, user, v)
      PROVE  IInv'
  <2> DEFINE n == Minted(token, caller, user, v)
             q == [token.minter EXCEPT ![caller] = UseLimits(token.minter[caller], v)]
  <2>1. v \in Uint /\ v \in Nat
    BY <1>4
  <2>2. CanMint(token, caller, user, v) /\ token' = n /\ burnedWithin' = burnedWithin
    BY <1>9 DEF Mint
  <2>3. /\ n \in Token /\ n.burner = token.burner
        /\ caller = token.lockbox => n.minter = token.minter
        /\ caller # token.lockbox => /\ v <= GetCurrentLimit(token.minter[caller])
                                     /\ n.minter = q
    BY <1>1, <1>2, <2>1, <2>2, MintedFacts
  <2> HIDE DEF n
  <2>4. CASE caller = token.lockbox
    <3>1. token'.minter = token.minter /\ mintedWithin' = mintedWithin
      BY <1>9, <2>2, <2>3, <2>4 DEF Mint
    <3>2. QED
      BY <1>5, <2>2, <2>3, <3>1
  <2>5. CASE caller # token.lockbox
    <3>1. mintedWithin' = Metered(mintedWithin, caller, v)
      BY <1>9, <2>5 DEF Mint
    <3>2. /\ QuotaOK(Metered(mintedWithin, caller, v), q)
          /\ Metered(mintedWithin, caller, v) \in [Address -> [Window -> Nat]]
      BY <1>1, <1>3, <2>1, <2>3, <2>5, QuotaUse
    <3> HIDE DEF q
    <3>3. QuotaOK(mintedWithin', token'.minter) /\ mintedWithin' \in [Address -> [Window -> Nat]]
      BY <2>2, <2>3, <2>5, <3>1, <3>2
    <3>4. QuotaOK(burnedWithin', token'.burner)
      BY <1>3, <2>2, <2>3
    <3>5. QED
      BY <1>1, <2>2, <2>3, <3>3, <3>4 DEF IInv, TypeOK, QuotaInvariant
  <2>6. QED
    BY <2>4, <2>5
<1>10. ASSUME NEW caller \in Address, NEW user \in Address, NEW v \in Amounts,
             Burn(caller, user, v)
      PROVE  IInv'
  <2> DEFINE n == Burned(token, caller, user, v)
             q == [token.burner EXCEPT ![caller] = UseLimits(token.burner[caller], v)]
  <2>1. v \in Uint /\ v \in Nat
    BY <1>4
  <2>2. CanBurn(token, caller, user, v) /\ token' = n /\ mintedWithin' = mintedWithin
    BY <1>10 DEF Burn
  <2>3. /\ n \in Token /\ n.minter = token.minter
        /\ caller = token.lockbox => n.burner = token.burner
        /\ caller # token.lockbox => /\ v <= GetCurrentLimit(token.burner[caller])
                                     /\ n.burner = q
    <3>1. token \in Token /\ \A a \in Address : BucketOK(token.burner[a])
      BY <1>1, <1>2
    <3>2. CanBurn(token, caller, user, v)
      BY <2>2
    <3>3. QED
      BY <2>1, <3>1, <3>2, BurnedFacts
  <2> HIDE DEF n
  <2>4. CASE caller = token.lockbox
    <3>1. token'.burner = token.burner /\ burnedWithin' = burnedWithin
      BY <1>10, <2>2, <2>3, <2>4 DEF Burn
    <3>2. QED
      BY <1>5, <2>2, <2>3, <3>1
  <2>5. CASE caller # token.lockbox
    <3>1. burnedWithin' = Metered(burnedWithin, caller, v)
      BY <1>10, <2>5 DEF Burn
    <3>2. /\ QuotaOK(Metered(burnedWithin, caller, v), q)
          /\ Metered(burnedWithin, caller, v) \in [Address -> [Window -> Nat]]
      BY <1>1, <1>3, <2>1, <2>3, <2>5, QuotaUse
    <3> HIDE DEF q
    <3>3. QuotaOK(burnedWithin', token'.burner) /\ burnedWithin' \in [Address -> [Window -> Nat]]
      BY <2>2, <2>3, <2>5, <3>1, <3>2
    <3>4. QuotaOK(mintedWithin', token'.minter)
      BY <1>3, <2>2, <2>3
    <3>5. QED
      BY <1>1, <2>2, <2>3, <3>3, <3>4 DEF IInv, TypeOK, QuotaInvariant
  <2>6. QED
    BY <2>4, <2>5
<1>11. ASSUME NEW b \in Bridges, NEW m \in Limits, NEW n \in Limits, SetLimits(b, m, n)
       PROVE  IInv'
  <2> DEFINE t == LimitsSet(token, b, m, n)
             minter == [token.minter EXCEPT ![b] = ChangeLimit(token.minter[b], m)]
             burner == [token.burner EXCEPT ![b] = ChangeLimit(token.burner[b], n)]
             minted == [mintedWithin EXCEPT ![b] = NothingWithin]
             burned == [burnedWithin EXCEPT ![b] = NothingWithin]
  <2>1. b \in Address /\ m \in Uint /\ n \in Uint
    BY <1>4, InputAssumption
  <2>2. token' = t /\ mintedWithin' = minted /\ burnedWithin' = burned
    BY <1>11 DEF SetLimits
  <2>3. t \in Token /\ t.minter = minter /\ t.burner = burner
    BY <1>1, <1>2, <2>1, LimitsSetFacts
  <2>4. QuotaOK(minted, minter) /\ QuotaOK(burned, burner)
    BY <1>1, <1>3, <2>1, QuotaChange
  <2>5. minted \in [Address -> [Window -> Nat]] /\ burned \in [Address -> [Window -> Nat]]
    BY <1>1 DEF NothingWithin
  <2> HIDE DEF t, minter, burner, minted, burned
  <2>6. QED
    BY <2>2, <2>3, <2>4, <2>5 DEF IInv, TypeOK, QuotaInvariant
<1>12. ASSUME NEW a \in Lockboxes, SetLockbox(a)
       PROVE  IInv'
  BY <1>1, <1>5, <1>12, InputAssumption DEF SetLockbox, LockboxSet, Token, AddressOrZero
<1>13. ASSUME NEW a \in FreezingRoles, SetFreezingAddress(a)
       PROVE  IInv'
  BY <1>1, <1>5, <1>13, InputAssumption DEF SetFreezingAddress, FreezingAddressSet, Token
<1>14. ASSUME NEW sender \in Address, NEW a \in Freezable, FreezeAddress(sender, a)
       PROVE  IInv'
  BY <1>1, <1>5, <1>14, InputAssumption DEF FreezeAddress, AddressFrozen, Token
<1>15. ASSUME NEW sender \in Address, NEW a \in Freezable, UnfreezeAddress(sender, a)
       PROVE  IInv'
  BY <1>1, <1>5, <1>15, InputAssumption DEF UnfreezeAddress, AddressUnfrozen, Token
<1>16. ASSUME NEW sender \in Address, NEW from \in Address, NEW to \in Address,
              NEW v \in Amounts, WithdrawFrozenAssets(sender, from, to, v)
       PROVE  IInv'
  BY <1>1, <1>4, <1>5, <1>16, MovedType DEF WithdrawFrozenAssets, CanWithdrawFrozen
<1>17. ASSUME Tick
       PROVE  IInv'
  <2> DEFINE t == SecondPassed(token)
             minter == [a \in Address |-> Aged(token.minter[a])]
             burner == [a \in Address |-> Aged(token.burner[a])]
  <2>1. t \in Token /\ t.minter = minter /\ t.burner = burner
    BY <1>1, <1>2, SecondPassedFacts
  <2>2. /\ QuotaOK(Slid(mintedWithin), minter) /\ QuotaOK(Slid(burnedWithin), burner)
        /\ Slid(mintedWithin) \in [Address -> [Window -> Nat]]
        /\ Slid(burnedWithin) \in [Address -> [Window -> Nat]]
    BY <1>1, <1>3, QuotaSlide
  <2>3. /\ token' = t
        /\ mintedWithin' = Slid(mintedWithin) /\ burnedWithin' = Slid(burnedWithin)
    BY <1>17 DEF Tick
  <2> HIDE DEF t, minter, burner
  <2>4. QED
    BY <2>1, <2>2, <2>3 DEF IInv, TypeOK, QuotaInvariant
<1>18. CASE UNCHANGED vars
  BY <1>1, <1>5, <1>18 DEF vars
<1>19. QED
  BY <1>6, <1>7, <1>8, <1>9, <1>10, <1>11, <1>12, <1>13, <1>14, <1>15, <1>16, <1>17, <1>18
     DEF Next

\* The quota bookkeeping implies the bound on every window: the limit read off
\* a bucket is a natural number.
LEMMA QuotaBoundsWindows == IInv => WindowBound
<1> SUFFICES ASSUME IInv PROVE WindowBound
  OBVIOUS
<1>1. ASSUME NEW h \in [Address -> [Window -> Nat]], NEW buckets \in [Address -> Bucket],
             QuotaOK(h, buckets)
      PROVE  WindowBoundOf(h, buckets)
  <2> SUFFICES ASSUME NEW b \in Address, NEW k \in Window
               PROVE  h[b][k] <= buckets[b].maxLimit + k * buckets[b].ratePerSecond
    BY DEF WindowBoundOf
  <2>1. BucketOK(buckets[b]) /\ HistoryOK(h[b], buckets[b])
    BY <1>1 DEF QuotaOK
  <2>2. GetCurrentLimit(buckets[b]) \in Nat
    BY <2>1, CurrentLimitBounds, MaxUintAssumption DEF BucketOK, Uint
  <2>3. h[b][k] + GetCurrentLimit(buckets[b])
           <= buckets[b].maxLimit + k * buckets[b].ratePerSecond
    BY <2>1 DEF HistoryOK
  <2>4. /\ h[b][k] \in Nat /\ buckets[b].maxLimit \in Nat
        /\ k \in Nat /\ buckets[b].ratePerSecond \in Nat
    BY DurationAssumption, MaxUintAssumption DEF Bucket, Uint, Window
  <2>5. k * buckets[b].ratePerSecond \in Nat
    BY <2>4
  <2>6. QED
    BY <2>2, <2>3, <2>4, <2>5
<1>2. QED
  BY <1>1 DEF IInv, TypeOK, QuotaInvariant, WindowBound, Token

-----------------------------------------------------------------------------
(***************************************************************************)
(* The supply: whatever the other functions do to storage, the balances    *)
(* add up.                                                                 *)
(***************************************************************************)

\* The new contract has issued nothing.
LEMMA InitSupply == Init => SupplyIsSumOfBalances
<1> DEFINE b == [a \in Address |-> 0]
<1>1. SumFunctionOnSet(b, Address) = 0
  BY AddressAssumption, SumZero
<1> HIDE DEF b
<1>2. Init => token.balanceOf = b /\ token.totalSupply = 0
  BY DEF Init, NewToken, b
<1>3. QED
  BY <1>1, <1>2 DEF SupplyIsSumOfBalances, BalancesAddUp

LEMMA StepSupply == IInv /\ SupplyIsSumOfBalances /\ [Next]_vars => SupplyIsSumOfBalances'
<1> SUFFICES ASSUME IInv, SupplyIsSumOfBalances, [Next]_vars PROVE SupplyIsSumOfBalances'
  OBVIOUS
<1>1. token \in Token /\ BalancesAddUp(token)
  BY DEF IInv, TypeOK, SupplyIsSumOfBalances
<1>2. \A a \in Address : BucketOK(token.minter[a]) /\ BucketOK(token.burner[a])
  BY DEF IInv, QuotaInvariant, QuotaOK
<1>3. \A v \in Amounts \cup Limits \cup Allowances : v \in Uint /\ v \in Nat
  BY InputAssumption, MaxUintAssumption DEF Uint
<1>4. ASSUME NEW n, token' = n, BalancesAddUp(n)
      PROVE  SupplyIsSumOfBalances'
  BY <1>4 DEF SupplyIsSumOfBalances, BalancesAddUp
<1>5. ASSUME NEW n, token' = n, SameFunds(token, n)
      PROVE  SupplyIsSumOfBalances'
  BY <1>1, <1>5 DEF SupplyIsSumOfBalances, BalancesAddUp, SameFunds
<1>6. ASSUME NEW from \in Address, NEW to \in Address, NEW v \in Amounts,
             Transfer(from, to, v)
      PROVE  SupplyIsSumOfBalances'
  BY <1>1, <1>3, <1>4, <1>6, MovedSum DEF Transfer
<1>7. ASSUME NEW owner \in Address, NEW spender \in Address, NEW v \in Allowances,
             Approve(owner, spender, v)
      PROVE  SupplyIsSumOfBalances'
  BY <1>1, <1>3, <1>5, <1>7, ApprovedType DEF Approve
<1>8. ASSUME NEW spender \in Address, NEW from \in Address, NEW to \in Address,
             NEW v \in Amounts, TransferFrom(spender, from, to, v)
      PROVE  SupplyIsSumOfBalances'
  <2> DEFINE s == Spent(token, from, spender, v)
  <2>1. CanSpend(token, from, spender, v)
    BY <1>8 DEF TransferFrom, CanTransferFrom
  <2>2. s \in Token /\ s.balanceOf = token.balanceOf /\ s.totalSupply = token.totalSupply
    BY <1>1, <1>3, <2>1, SpentType
  <2>3. token' = Moved(s, from, to, v)
    BY <1>8 DEF TransferFrom, TransferredFrom
  <2> HIDE DEF s
  <2>4. BalancesAddUp(s)
    BY <1>1, <2>2 DEF BalancesAddUp
  <2>5. QED
    BY <1>3, <1>4, <2>2, <2>3, <2>4, MovedSum
<1>9. ASSUME NEW caller \in Address, NEW user \in Address, NEW v \in Amounts,
             Mint(caller, user, v)
      PROVE  SupplyIsSumOfBalances'
  BY <1>1, <1>3, <1>4, <1>9, MintedSum DEF Mint
<1>10. ASSUME NEW caller \in Address, NEW user \in Address, NEW v \in Amounts,
             Burn(caller, user, v)
      PROVE  SupplyIsSumOfBalances'
  BY <1>1, <1>3, <1>4, <1>10, BurnedSum DEF Burn
<1>11. ASSUME NEW b \in Bridges, NEW m \in Limits, NEW n \in Limits, SetLimits(b, m, n)
       PROVE  SupplyIsSumOfBalances'
  <2>1. b \in Address /\ m \in Uint /\ n \in Uint
    BY <1>3, InputAssumption
  <2>2. SameFunds(token, LimitsSet(token, b, m, n))
    BY <1>1, <1>2, <2>1, LimitsSetFacts
  <2>3. QED
    BY <1>5, <1>11, <2>2 DEF SetLimits
<1>12. ASSUME NEW a, SetLockbox(a) \/ SetFreezingAddress(a)
       PROVE  SupplyIsSumOfBalances'
  BY <1>1, <1>12 DEF SetLockbox, LockboxSet, SetFreezingAddress, FreezingAddressSet, Token,
                     SupplyIsSumOfBalances, BalancesAddUp
<1>13. ASSUME NEW sender, NEW a, FreezeAddress(sender, a) \/ UnfreezeAddress(sender, a)
       PROVE  SupplyIsSumOfBalances'
  BY <1>1, <1>13 DEF FreezeAddress, AddressFrozen, UnfreezeAddress, AddressUnfrozen, Token,
                     SupplyIsSumOfBalances, BalancesAddUp
<1>14. ASSUME NEW sender \in Address, NEW from \in Address, NEW to \in Address,
              NEW v \in Amounts, WithdrawFrozenAssets(sender, from, to, v)
       PROVE  SupplyIsSumOfBalances'
  BY <1>1, <1>3, <1>4, <1>14, MovedSum DEF WithdrawFrozenAssets
<1>15. ASSUME Tick
       PROVE  SupplyIsSumOfBalances'
  BY <1>1, <1>2, <1>5, <1>15, SecondPassedFacts DEF Tick
<1>16. CASE UNCHANGED vars
  BY <1>1, <1>5, <1>16 DEF vars, SameFunds
<1>17. QED
  BY <1>6, <1>7, <1>8, <1>9, <1>10, <1>11, <1>12, <1>13, <1>14, <1>15, <1>16 DEF Next

-----------------------------------------------------------------------------
\* The storage of the contract keeps its types: no bucket leaves the range of
\* the integers the contract computes it in.
THEOREM TypeCorrect == Spec => []TypeOK
<1>1. IInv => TypeOK
  BY DEF IInv
<1>2. QED
  BY <1>1, InitIInv, StepIInv, PTL DEF Spec

\* Usage and quota of every bridge stay in balance, in every reachable state.
THEOREM QuotaSafety == Spec => []QuotaInvariant
<1>1. IInv => QuotaInvariant
  BY DEF IInv
<1>2. QED
  BY <1>1, InitIInv, StepIInv, PTL DEF Spec

\* For every duration, every maximum and every sequence of calls, no bridge
\* mints or burns more in a window than its maximum and the window's refill.
THEOREM WindowSafety == Spec => []WindowBound
BY InitIInv, StepIInv, QuotaBoundsWindows, PTL DEF Spec

\* For every number of accounts and every sequence of calls: what the accounts
\* hold adds up to totalSupply, so a burn can never take more than there is
\* (XERC20's mint, burn, withdrawFrozenAssets over OpenZeppelin's _update).
THEOREM SupplySafety == Spec => []SupplyIsSumOfBalances
BY InitIInv, StepIInv, InitSupply, StepSupply, PTL DEF Spec

\* No holder, spender, bridge or lockbox gets at a frozen account's balance or
\* adds to it; only the freezing address withdraws it (_update).
THEOREM FrozenFundsSafety == Spec => FrozenFundsOnlySeized
<1> DEFINE Kept == \/ \A a \in token.frozen \cap Address :
                          token'.balanceOf[a] = token.balanceOf[a]
                   \/ \E sender, from, to \in Address, v \in Amounts :
                          WithdrawFrozenAssets(sender, from, to, v)
<1>1. IInv /\ [Next]_vars => [Kept]_vars
  <2> SUFFICES ASSUME IInv, Next PROVE Kept
    OBVIOUS
  <2>1. token \in Token /\ token.balanceOf \in [Address -> Nat]
    BY DEF IInv, TypeOK, Token
  <2>2. \A a \in Address : BucketOK(token.minter[a]) /\ BucketOK(token.burner[a])
    BY DEF IInv, QuotaInvariant, QuotaOK
  <2>3. \A v \in Amounts \cup Limits \cup Allowances : v \in Uint /\ v \in Nat
    BY InputAssumption, MaxUintAssumption DEF Uint
  <2>4. ASSUME NEW n, token' = n, SameFunds(token, n)
        PROVE  Kept
    BY <2>4 DEF SameFunds
  <2>5. ASSUME NEW s \in Token, s.balanceOf = token.balanceOf,
               NEW from \in Address, NEW to \in Address, NEW v \in Amounts,
               NotFrozen(token, from, to), token' = Moved(s, from, to, v)
        PROVE  Kept
    <3>1. token'.balanceOf = [[s.balanceOf EXCEPT ![from] = @ - v] EXCEPT ![to] = @ + v]
      BY <2>5 DEF Moved, Token
    <3>2. \A a \in Address \ {from, to} : token'.balanceOf[a] = token.balanceOf[a]
      BY <2>1, <2>5, <3>1
    <3>3. QED
      BY <2>5, <3>2 DEF NotFrozen
  <2>6. ASSUME NEW from \in Address, NEW to \in Address, NEW v \in Amounts,
               Transfer(from, to, v)
        PROVE  Kept
    BY <2>1, <2>5, <2>6 DEF Transfer, CanTransfer
  <2>7. ASSUME NEW owner \in Address, NEW spender \in Address, NEW v \in Allowances,
               Approve(owner, spender, v)
        PROVE  Kept
    BY <2>1, <2>3, <2>4, <2>7, ApprovedType DEF Approve
  <2>8. ASSUME NEW spender \in Address, NEW from \in Address, NEW to \in Address,
               NEW v \in Amounts, TransferFrom(spender, from, to, v)
        PROVE  Kept
    <3> DEFINE s == Spent(token, from, spender, v)
    <3>1. CanSpend(token, from, spender, v) /\ NotFrozen(token, from, to)
      BY <2>8 DEF TransferFrom, CanTransferFrom, CanTransfer
    <3>2. s \in Token /\ s.balanceOf = token.balanceOf
      BY <2>1, <2>3, <3>1, SpentType
    <3>3. token' = Moved(s, from, to, v)
      BY <2>8 DEF TransferFrom, TransferredFrom
    <3> HIDE DEF s
    <3>4. QED
      BY <2>5, <3>1, <3>2, <3>3
  <2>9. ASSUME NEW caller \in Address, NEW user \in Address, NEW v \in Amounts,
               Mint(caller, user, v)
        PROVE  Kept
    <3>1. user \notin token.frozen
      BY <2>9 DEF Mint, CanMint, NotFrozen
    <3>2. token'.balanceOf = [token.balanceOf EXCEPT ![user] = @ + v]
      BY <2>1, <2>9 DEF Mint, Minted, Token
    <3>3. QED
      BY <2>1, <3>1, <3>2
  <2>10. ASSUME NEW caller \in Address, NEW user \in Address, NEW v \in Amounts,
                Burn(caller, user, v)
         PROVE  Kept
    <3> DEFINE s == IF caller = user THEN token ELSE Spent(token, user, caller, v)
    <3>1. user \notin token.frozen /\ (caller # user => CanSpend(token, user, caller, v))
      BY <2>10 DEF Burn, CanBurn, NotFrozen
    <3>2. s \in Token /\ s.balanceOf = token.balanceOf
      BY <2>1, <2>3, <3>1, SpentType
    <3>3. token' = [s EXCEPT
                      !.burner[caller] = IF caller = token.lockbox THEN @ ELSE UseLimits(@, v),
                      !.totalSupply = @ - v, !.balanceOf[user] = @ - v]
      BY <2>10 DEF Burn, Burned
    <3> HIDE DEF s
    <3>4. token'.balanceOf = [token.balanceOf EXCEPT ![user] = @ - v]
      BY <3>2, <3>3 DEF Token
    <3>5. QED
      BY <2>1, <3>1, <3>4
  <2>11. ASSUME NEW b \in Bridges, NEW m \in Limits, NEW n \in Limits, SetLimits(b, m, n)
         PROVE  Kept
    <3>1. b \in Address /\ m \in Uint /\ n \in Uint
      BY <2>3, InputAssumption
    <3>2. SameFunds(token, LimitsSet(token, b, m, n))
      BY <2>1, <2>2, <3>1, LimitsSetFacts
    <3>3. QED
      BY <2>4, <2>11, <3>2 DEF SetLimits
  <2>12. ASSUME NEW sender, NEW a,
                \/ SetLockbox(a) \/ SetFreezingAddress(a)
                \/ FreezeAddress(sender, a) \/ UnfreezeAddress(sender, a)
         PROVE  Kept
    BY <2>1, <2>12 DEF SetLockbox, LockboxSet, SetFreezingAddress, FreezingAddressSet,
                       FreezeAddress, AddressFrozen, UnfreezeAddress, AddressUnfrozen, Token
  <2>13. ASSUME Tick
         PROVE  Kept
    BY <2>1, <2>2, <2>4, <2>13, SecondPassedFacts DEF Tick
  <2>14. QED
    BY <2>6, <2>7, <2>8, <2>9, <2>10, <2>11, <2>12, <2>13 DEF Next
<1>2. QED
  BY <1>1, InitIInv, StepIInv, PTL DEF Spec, FrozenFundsOnlySeized

\* For every maximum, old and new, and however full the bucket: setLimits
\* neither forgives what a bridge has used nor charges it for more
\* (_calculateNewCurrentLimit).
THEOREM UsedQuotaSafety == Spec => UsedQuotaCarriedOver
<1> DEFINE Carried ==
        \A b \in Bridges, m, n \in Limits : SetLimits(b, m, n) =>
          /\ UsedQuota(token'.minter[b]) = Lesser(UsedQuota(token.minter[b]), m)
          /\ UsedQuota(token'.burner[b]) = Lesser(UsedQuota(token.burner[b]), n)
<1>1. IInv => Carried
  <2> SUFFICES ASSUME IInv, NEW b \in Bridges, NEW m \in Limits, NEW n \in Limits,
                      SetLimits(b, m, n)
               PROVE  /\ UsedQuota(token'.minter[b]) = Lesser(UsedQuota(token.minter[b]), m)
                      /\ UsedQuota(token'.burner[b]) = Lesser(UsedQuota(token.burner[b]), n)
    OBVIOUS
  <2>1. token \in Token /\ \A a \in Address : BucketOK(token.minter[a]) /\ BucketOK(token.burner[a])
    BY DEF IInv, TypeOK, QuotaInvariant, QuotaOK
  <2>2. b \in Address /\ m \in Uint /\ n \in Uint
    BY InputAssumption
  <2>3. token.minter[b] \in Bucket /\ token.burner[b] \in Bucket
    BY <2>1, <2>2 DEF Token
  <2>4. /\ token'.minter = [token.minter EXCEPT ![b] = ChangeLimit(token.minter[b], m)]
        /\ token'.burner = [token.burner EXCEPT ![b] = ChangeLimit(token.burner[b], n)]
    BY <2>1, <2>2, LimitsSetFacts DEF SetLimits
  <2>5. /\ token'.minter[b] = ChangeLimit(token.minter[b], m)
        /\ token'.burner[b] = ChangeLimit(token.burner[b], n)
    BY <2>1, <2>2, <2>4 DEF Token
  <2>6. QED
    BY <2>1, <2>2, <2>3, <2>5, ChangeLimitCarriesUsage
<1>2. QED
  BY <1>1, InitIInv, StepIInv, PTL DEF Spec, UsedQuotaCarriedOver

=============================================================================
