------------------------- MODULE XERC20TokenProofs --------------------------
(***************************************************************************)
(* Lemmas about the functions of the xERC20 token on its storage: what     *)
(* each returns, preserves or bounds, for every storage whose buckets are  *)
(* in order.                                                               *)
(***************************************************************************)
EXTENDS XERC20Token, SumProofs

(***************************************************************************)
(* Lemmas about one bucket.                                                *)
(***************************************************************************)

\* The limit read off a bucket lies between the stored one and the maximum.
LEMMA CurrentLimitBounds ==
    ASSUME NEW p \in Bucket, p.currentLimit <= p.maxLimit
    PROVE  /\ GetCurrentLimit(p) \in Uint
           /\ p.currentLimit <= GetCurrentLimit(p)
           /\ GetCurrentLimit(p) <= p.maxLimit
<1>1. p.age \in Nat /\ p.ratePerSecond \in Nat /\ p.currentLimit \in Nat /\ p.maxLimit \in Uint
  BY DurationAssumption, MaxUintAssumption DEF Bucket, Uint
<1>2. p.age * p.ratePerSecond \in Nat
  BY <1>1
<1>3. QED
  BY <1>1, <1>2, MaxUintAssumption DEF GetCurrentLimit, Refilled, Refill, Lesser, Uint

\* Using part of the quota leaves a well-formed bucket that holds the rest.
LEMMA UseLimitsFacts ==
    ASSUME NEW p \in Bucket, BucketOK(p),
           NEW change \in Nat, change <= GetCurrentLimit(p)
    PROVE  /\ UseLimits(p, change) \in Bucket
           /\ BucketOK(UseLimits(p, change))
           /\ GetCurrentLimit(UseLimits(p, change)) = GetCurrentLimit(p) - change
           /\ UseLimits(p, change).age = 0
           /\ UseLimits(p, change).maxLimit = p.maxLimit
           /\ UseLimits(p, change).ratePerSecond = p.ratePerSecond
<1> DEFINE c == GetCurrentLimit(p) - change
           q == UseLimits(p, change)
<1>1. p.maxLimit \in Uint /\ p.ratePerSecond \in Nat
  BY MaxUintAssumption DEF Bucket, Uint
<1>2. c \in Uint /\ c <= p.maxLimit
  BY <1>1, CurrentLimitBounds, MaxUintAssumption DEF BucketOK, Uint
<1>3. q = [p EXCEPT !.age = 0, !.currentLimit = c]
  BY DEF UseLimits
<1> HIDE DEF c, q
<1>4. /\ q \in Bucket /\ q.age = 0 /\ q.currentLimit = c
      /\ q.maxLimit = p.maxLimit /\ q.ratePerSecond = p.ratePerSecond
  <2>1. 0 \in 0 .. DURATION
    BY DurationAssumption
  <2>2. QED
    BY <1>2, <1>3, <2>1 DEF Bucket
<1>5. BucketOK(q)
  BY <1>2, <1>4 DEF BucketOK
<1>6. GetCurrentLimit(q) = c
  <2>1. Refill(q) = c
    BY <1>1, <1>2, <1>4, MaxUintAssumption DEF Refill, Uint
  <2>2. QED
    BY <2>1, <1>1, <1>2, <1>4, DurationAssumption, MaxUintAssumption
       DEF GetCurrentLimit, Refilled, Lesser, Uint
<1>7. QED
  BY <1>4, <1>5, <1>6 DEF c, q

\* Changing the maximum leaves a well-formed bucket, whatever it held.
LEMMA ChangeLimitFacts ==
    ASSUME NEW p \in Bucket, BucketOK(p), NEW limit \in Uint
    PROVE  /\ ChangeLimit(p, limit) \in Bucket
           /\ BucketOK(ChangeLimit(p, limit))
           /\ ChangeLimit(p, limit).age = 0
<1> DEFINE g == GetCurrentLimit(p)
           c == CalculateNewCurrentLimit(limit, p.maxLimit, g)
<1>1. g \in Nat /\ g <= p.maxLimit /\ p.maxLimit \in Nat /\ limit \in Nat
  BY CurrentLimitBounds, MaxUintAssumption DEF BucketOK, Bucket, Uint
<1> HIDE DEF g
<1>2. c \in Nat /\ c <= limit
  BY <1>1 DEF CalculateNewCurrentLimit
<1> HIDE DEF c
<1>3. limit \div DURATION \in Nat /\ limit \div DURATION <= limit
  BY <1>1, DurationAssumption
<1>4. ChangeLimit(p, limit) = [age |-> 0, ratePerSecond |-> limit \div DURATION,
                               maxLimit |-> limit, currentLimit |-> c]
  BY DEF ChangeLimit, c, g
<1>5. QED
  BY <1>2, <1>3, <1>4, DurationAssumption, MaxUintAssumption DEF Bucket, BucketOK, Uint

\* A change of the maximum keeps what is spent spent, up to the new maximum.
LEMMA ChangeLimitCarriesUsage ==
    ASSUME NEW p \in Bucket, BucketOK(p), NEW limit \in Uint
    PROVE  UsedQuota(ChangeLimit(p, limit)) = Lesser(UsedQuota(p), limit)
<1> DEFINE g == GetCurrentLimit(p)
           c == CalculateNewCurrentLimit(limit, p.maxLimit, g)
           q == ChangeLimit(p, limit)
<1>1. g \in Nat /\ g <= p.maxLimit /\ p.maxLimit \in Nat /\ limit \in Nat
  BY CurrentLimitBounds, MaxUintAssumption DEF BucketOK, Bucket, Uint
<1> HIDE DEF g
<1>2. c \in Nat /\ c <= limit
  BY <1>1 DEF CalculateNewCurrentLimit
<1>3. limit - c = Lesser(p.maxLimit - g, limit)
  BY <1>1 DEF CalculateNewCurrentLimit, Lesser
<1> HIDE DEF c
<1>4. q.age = 0 /\ q.maxLimit = limit /\ q.currentLimit = c /\ q.ratePerSecond \in Int
  BY <1>1, DurationAssumption DEF ChangeLimit, c, g
<1> HIDE DEF q
<1>5. GetCurrentLimit(q) = c
  <2>1. Refill(q) = c
    BY <1>2, <1>4 DEF Refill
  <2>2. QED
    BY <1>1, <1>2, <1>4, <2>1, DurationAssumption DEF GetCurrentLimit, Refilled, Lesser
<1>6. UsedQuota(q) = limit - c /\ UsedQuota(p) = p.maxLimit - g
  BY <1>4, <1>5 DEF UsedQuota, g
<1>7. QED
  BY <1>3, <1>6 DEF q

\* One more second refills a bucket by at most its rate, unless the bucket
\* becomes a day old, which fills it.
LEMMA AgedFacts ==
    ASSUME NEW p \in Bucket, BucketOK(p)
    PROVE  /\ Aged(p) \in Bucket
           /\ BucketOK(Aged(p))
           /\ Aged(p).age = Lesser(DURATION, p.age + 1)
           /\ Aged(p).maxLimit = p.maxLimit
           /\ Aged(p).ratePerSecond = p.ratePerSecond
           /\ p.age + 1 # DURATION =>
                 GetCurrentLimit(Aged(p)) <= GetCurrentLimit(p) + p.ratePerSecond
<1> DEFINE a == Lesser(DURATION, p.age + 1)
           q == Aged(p)
<1>1. /\ p.age \in 0 .. DURATION /\ p.ratePerSecond \in Nat
      /\ p.currentLimit \in Nat /\ p.maxLimit \in Nat
  BY MaxUintAssumption DEF Bucket, Uint
<1>2. a \in 0 .. DURATION
  BY <1>1, DurationAssumption DEF Lesser
<1>3. q = [p EXCEPT !.age = a]
  BY DEF Aged
<1> HIDE DEF a, q
<1>4. /\ q \in Bucket /\ q.age = a /\ q.currentLimit = p.currentLimit
      /\ q.maxLimit = p.maxLimit /\ q.ratePerSecond = p.ratePerSecond
  BY <1>2, <1>3 DEF Bucket
<1>5. BucketOK(q)
  BY <1>4 DEF BucketOK
<1>6. ASSUME p.age + 1 # DURATION
      PROVE  GetCurrentLimit(q) <= GetCurrentLimit(p) + p.ratePerSecond
  <2>1. CASE p.currentLimit = p.maxLimit \/ p.age >= DURATION
    <3>1. GetCurrentLimit(p) = p.maxLimit
      BY <2>1 DEF GetCurrentLimit, Refilled
    <3>2. GetCurrentLimit(q) <= q.maxLimit /\ GetCurrentLimit(q) \in Uint
      BY <1>4, <1>5, CurrentLimitBounds DEF BucketOK
    <3>3. QED
      BY <1>1, <1>4, <3>1, <3>2, MaxUintAssumption DEF Uint
  <2>2. CASE p.currentLimit # p.maxLimit /\ p.age < DURATION
    <3>1. a = p.age + 1 /\ a < DURATION
      BY <1>1, <1>6, <2>2, DurationAssumption DEF a, Lesser
    <3>2. ~Refilled(p) /\ ~Refilled(q)
      BY <1>1, <1>4, <2>2, <3>1, DurationAssumption DEF Refilled
    <3>3. (p.age + 1) * p.ratePerSecond = p.age * p.ratePerSecond + p.ratePerSecond
      BY <1>1
    <3>4. p.age * p.ratePerSecond \in Nat
      BY <1>1
    <3>5. Refill(q) = Refill(p) + p.ratePerSecond /\ Refill(p) \in Nat
      BY <1>1, <1>4, <3>1, <3>3, <3>4 DEF Refill
    <3>6. QED
      BY <1>1, <1>4, <3>2, <3>5 DEF GetCurrentLimit, Lesser
  <2>3. QED
    BY <1>1, <2>1, <2>2, DurationAssumption
<1>7. QED
  BY <1>4, <1>5, <1>6 DEF a, q

(***************************************************************************)
(* The token's functions keep its storage well-typed.                      *)
(***************************************************************************)

\* n holds the same tokens as t.
SameFunds(t, n) ==
    n.balanceOf = t.balanceOf /\ n.totalSupply = t.totalSupply /\ n.lockbox = t.lockbox

LEMMA MovedType ==
    ASSUME NEW t \in Token, NEW from \in Address, NEW to \in Address, NEW v \in Nat,
           t.balanceOf[from] >= v
    PROVE  /\ Moved(t, from, to, v) \in Token
           /\ Moved(t, from, to, v).minter = t.minter
           /\ Moved(t, from, to, v).burner = t.burner
<1> DEFINE b1 == [t.balanceOf EXCEPT ![from] = @ - v]
           b2 == [b1 EXCEPT ![to] = @ + v]
<1>1. b1 \in [Address -> Nat]
  BY DEF Token
<1> HIDE DEF b1
<1>2. b2 \in [Address -> Nat]
  BY <1>1
<1>3. Moved(t, from, to, v) = [t EXCEPT !.balanceOf = b2]
  BY DEF Moved, b1
<1> HIDE DEF b2
<1>4. QED
  BY <1>2, <1>3 DEF Token

LEMMA SpentType ==
    ASSUME NEW t \in Token, NEW owner \in Address, NEW spender \in Address, NEW v \in Nat,
           CanSpend(t, owner, spender, v),
           NEW s, s = Spent(t, owner, spender, v)
    PROVE  /\ s \in Token
           /\ s.balanceOf = t.balanceOf /\ s.totalSupply = t.totalSupply
           /\ s.minter = t.minter /\ s.burner = t.burner /\ s.lockbox = t.lockbox
<1> DEFINE left == t.allowance[owner][spender] - v
           a1 == [t.allowance[owner] EXCEPT ![spender] = left]
           a2 == [t.allowance EXCEPT ![owner] = a1]
<1>1. CASE t.allowance[owner][spender] = MaxUint
  BY <1>1 DEF Spent
<1>2. CASE t.allowance[owner][spender] # MaxUint
  <2>1. t.allowance[owner] \in [Address -> Uint]
    BY DEF Token
  <2>2. left \in Uint
    BY <2>1, MaxUintAssumption DEF CanSpend, Uint
  <2> HIDE DEF left
  <2>3. a1 \in [Address -> Uint]
    BY <2>1, <2>2
  <2>4. s = [t EXCEPT !.allowance = a2]
    BY <1>2 DEF Spent, left
  <2> HIDE DEF a1
  <2>5. a2 \in [Address -> [Address -> Uint]]
    BY <2>3 DEF Token
  <2> HIDE DEF a2
  <2>6. QED
    BY <2>4, <2>5 DEF Token
<1>3. QED
  BY <1>1, <1>2

\* A mint changes the caller's minting bucket, unless the lockbox mints.
LEMMA MintedFacts ==
    ASSUME NEW t \in Token, NEW caller \in Address, NEW user \in Address, NEW v \in Nat,
           \A a \in Address : BucketOK(t.minter[a]),
           CanMint(t, caller, user, v)
    PROVE  /\ Minted(t, caller, user, v) \in Token
           /\ Minted(t, caller, user, v).burner = t.burner
           /\ caller = t.lockbox => Minted(t, caller, user, v).minter = t.minter
           /\ caller # t.lockbox =>
                /\ v <= GetCurrentLimit(t.minter[caller])
                /\ Minted(t, caller, user, v).minter =
                      [t.minter EXCEPT ![caller] = UseLimits(t.minter[caller], v)]
<1> DEFINE m == IF caller = t.lockbox THEN t.minter[caller] ELSE UseLimits(t.minter[caller], v)
           n == Minted(t, caller, user, v)
<1>1. t.minter[caller] \in Bucket /\ BucketOK(t.minter[caller])
  BY DEF Token
<1>2. v \in Nat /\ (caller # t.lockbox => v <= GetCurrentLimit(t.minter[caller]))
  <2>1. GetCurrentLimit(t.minter[caller]) \in Nat
    BY <1>1, CurrentLimitBounds, MaxUintAssumption DEF BucketOK, Uint
  <2>2. QED
    BY <2>1, MaxUintAssumption DEF CanMint, CanUse, Uint
<1>3. m \in Bucket
  BY <1>1, <1>2, UseLimitsFacts
<1>4. n = [t EXCEPT !.minter = [t.minter EXCEPT ![caller] = m],
                    !.totalSupply = t.totalSupply + v,
                    !.balanceOf = [t.balanceOf EXCEPT ![user] = @ + v]]
  BY DEF Minted, m, Token
<1> HIDE DEF m, n
<1>5. t.totalSupply + v \in Supply
  BY <1>2, MaxUintAssumption DEF CanMint, Supply, Token
<1>6. [t.balanceOf EXCEPT ![user] = @ + v] \in [Address -> Nat]
  BY <1>2 DEF Token
<1>7. [t.minter EXCEPT ![caller] = m] \in [Address -> Bucket]
  BY <1>3 DEF Token
<1>8. n \in Token /\ n.burner = t.burner /\ n.minter = [t.minter EXCEPT ![caller] = m]
  BY <1>4, <1>5, <1>6, <1>7 DEF Token
<1>9. caller = t.lockbox => [t.minter EXCEPT ![caller] = m] = t.minter
  BY DEF m, Token
<1>10. QED
  BY <1>2, <1>8, <1>9 DEF m, n

\* A burn changes the caller's burning bucket, unless the lockbox burns.
LEMMA BurnedFacts ==
    ASSUME NEW t \in Token, NEW caller \in Address, NEW user \in Address, NEW v \in Nat,
           \A a \in Address : BucketOK(t.burner[a]),
           CanBurn(t, caller, user, v)
    PROVE  /\ Burned(t, caller, user, v) \in Token
           /\ Burned(t, caller, user, v).minter = t.minter
           /\ caller = t.lockbox => Burned(t, caller, user, v).burner = t.burner
           /\ caller # t.lockbox =>
                /\ v <= GetCurrentLimit(t.burner[caller])
                /\ Burned(t, caller, user, v).burner =
                      [t.burner EXCEPT ![caller] = UseLimits(t.burner[caller], v)]
<1> DEFINE s == IF caller = user THEN t ELSE Spent(t, user, caller, v)
           m == IF caller = t.lockbox THEN t.burner[caller] ELSE UseLimits(t.burner[caller], v)
           n == Burned(t, caller, user, v)
<1>1. t.burner[caller] \in Bucket /\ BucketOK(t.burner[caller])
  BY DEF Token
<1>2. v \in Nat /\ (caller # t.lockbox => v <= GetCurrentLimit(t.burner[caller]))
  <2>1. GetCurrentLimit(t.burner[caller]) \in Nat
    BY <1>1, CurrentLimitBounds, MaxUintAssumption DEF BucketOK, Uint
  <2>2. QED
    BY <2>1, MaxUintAssumption DEF CanBurn, CanUse, Uint
<1>3. m \in Bucket
  BY <1>1, <1>2, UseLimitsFacts
<1>4. /\ s \in Token /\ s.balanceOf = t.balanceOf /\ s.totalSupply = t.totalSupply
      /\ s.minter = t.minter /\ s.burner = t.burner /\ s.lockbox = t.lockbox
  BY <1>2, SpentType DEF CanBurn
<1>5. n = [s EXCEPT !.burner = [s.burner EXCEPT ![caller] = m],
                    !.totalSupply = s.totalSupply - v,
                    !.balanceOf = [s.balanceOf EXCEPT ![user] = @ - v]]
  <2>1. n = [s EXCEPT !.burner[caller] = m, !.totalSupply = @ - v, !.balanceOf[user] = @ - v]
    BY <1>4 DEF Burned, m, s
  <2> HIDE DEF n, m, s
  <2>2. QED
    BY <2>1, <1>4 DEF Token
<1> HIDE DEF s, m, n
<1>6. s.totalSupply - v \in Supply
  BY <1>2, <1>4, MaxUintAssumption DEF Supply, Token
<1>7. [s.balanceOf EXCEPT ![user] = @ - v] \in [Address -> Nat]
  BY <1>2, <1>4 DEF CanBurn, Token
<1>8. [s.burner EXCEPT ![caller] = m] \in [Address -> Bucket]
  BY <1>3, <1>4 DEF Token
<1>9. n \in Token /\ n.minter = t.minter /\ n.burner = [t.burner EXCEPT ![caller] = m]
  BY <1>4, <1>5, <1>6, <1>7, <1>8 DEF Token
<1>10. caller = t.lockbox => [t.burner EXCEPT ![caller] = m] = t.burner
  BY DEF m, Token
<1>11. QED
  BY <1>2, <1>9, <1>10 DEF m, n

LEMMA ApprovedType ==
    ASSUME NEW t \in Token, NEW owner \in Address, NEW spender \in Address, NEW v \in Uint
    PROVE  /\ Approved(t, owner, spender, v) \in Token
           /\ Approved(t, owner, spender, v).minter = t.minter
           /\ Approved(t, owner, spender, v).burner = t.burner
           /\ SameFunds(t, Approved(t, owner, spender, v))
<1> DEFINE a1 == [t.allowance[owner] EXCEPT ![spender] = v]
           a2 == [t.allowance EXCEPT ![owner] = a1]
<1>1. a1 \in [Address -> Uint]
  BY DEF Token
<1>2. Approved(t, owner, spender, v) = [t EXCEPT !.allowance = a2]
  BY DEF Approved
<1> HIDE DEF a1
<1>3. a2 \in [Address -> [Address -> Uint]]
  BY <1>1 DEF Token
<1> HIDE DEF a2
<1>4. QED
  BY <1>2, <1>3 DEF Token, SameFunds

LEMMA LimitsSetFacts ==
    ASSUME NEW t \in Token, NEW b \in Address, NEW m \in Uint, NEW n \in Uint,
           \A a \in Address : BucketOK(t.minter[a]) /\ BucketOK(t.burner[a])
    PROVE  /\ LimitsSet(t, b, m, n) \in Token
           /\ LimitsSet(t, b, m, n).minter = [t.minter EXCEPT ![b] = ChangeLimit(t.minter[b], m)]
           /\ LimitsSet(t, b, m, n).burner = [t.burner EXCEPT ![b] = ChangeLimit(t.burner[b], n)]
           /\ SameFunds(t, LimitsSet(t, b, m, n))
<1> DEFINE p == ChangeLimit(t.minter[b], m)
           q == ChangeLimit(t.burner[b], n)
           minter == [t.minter EXCEPT ![b] = p]
           burner == [t.burner EXCEPT ![b] = q]
<1>1. t.minter[b] \in Bucket /\ t.burner[b] \in Bucket
  BY DEF Token
<1>2. p \in Bucket /\ q \in Bucket
  BY <1>1, ChangeLimitFacts
<1>3. LimitsSet(t, b, m, n) = [t EXCEPT !.minter = minter, !.burner = burner]
  BY DEF LimitsSet, Token
<1> HIDE DEF p, q
<1>4. minter \in [Address -> Bucket] /\ burner \in [Address -> Bucket]
  BY <1>2 DEF Token
<1> HIDE DEF minter, burner
<1>5. QED
  BY <1>3, <1>4 DEF Token, SameFunds, minter, burner, p, q

LEMMA SecondPassedFacts ==
    ASSUME NEW t \in Token,
           \A a \in Address : BucketOK(t.minter[a]) /\ BucketOK(t.burner[a])
    PROVE  /\ SecondPassed(t) \in Token
           /\ SecondPassed(t).minter = [a \in Address |-> Aged(t.minter[a])]
           /\ SecondPassed(t).burner = [a \in Address |-> Aged(t.burner[a])]
           /\ SameFunds(t, SecondPassed(t))
<1> DEFINE minter == [a \in Address |-> Aged(t.minter[a])]
           burner == [a \in Address |-> Aged(t.burner[a])]
<1>1. minter \in [Address -> Bucket] /\ burner \in [Address -> Bucket]
  BY AgedFacts DEF Token
<1>2. SecondPassed(t) = [t EXCEPT !.minter = minter, !.burner = burner]
  BY DEF SecondPassed
<1> HIDE DEF minter, burner
<1>3. QED
  BY <1>1, <1>2 DEF Token, SameFunds, minter, burner

(***************************************************************************)
(* The token's functions keep the balances adding up to the supply.        *)
(***************************************************************************)

LEMMA MovedSum ==
    ASSUME NEW t \in Token, NEW from \in Address, NEW to \in Address, NEW v \in Nat,
           BalancesAddUp(t)
    PROVE  /\ BalancesAddUp(Moved(t, from, to, v))
           /\ Moved(t, from, to, v).totalSupply = t.totalSupply
           /\ Moved(t, from, to, v).lockbox = t.lockbox
<1> DEFINE b == [[t.balanceOf EXCEPT ![from] = @ - v] EXCEPT ![to] = @ + v]
<1>1. t.balanceOf \in [Address -> Int] /\ v \in Int
  BY DEF Token
<1>2. SumFunctionOnSet(b, Address) = SumFunctionOnSet(t.balanceOf, Address)
  BY <1>1, AddressAssumption, SumPaid
<1>3. Moved(t, from, to, v) = [t EXCEPT !.balanceOf = b]
  BY DEF Moved
<1> HIDE DEF b
<1>4. QED
  BY <1>2, <1>3 DEF BalancesAddUp, Token

LEMMA MintedSum ==
    ASSUME NEW t \in Token, NEW caller \in Address, NEW user \in Address, NEW v \in Nat,
           BalancesAddUp(t)
    PROVE  /\ BalancesAddUp(Minted(t, caller, user, v))
           /\ Minted(t, caller, user, v).totalSupply = t.totalSupply + v
           /\ Minted(t, caller, user, v).lockbox = t.lockbox
<1> DEFINE b == [t.balanceOf EXCEPT ![user] = @ + v]
           n == Minted(t, caller, user, v)
<1>1. t.balanceOf \in [Address -> Int] /\ v \in Int
  BY DEF Token
<1>2. SumFunctionOnSet(b, Address) = SumFunctionOnSet(t.balanceOf, Address) + v
  BY <1>1, AddressAssumption, SumIncreased
<1>3. n.balanceOf = b /\ n.totalSupply = t.totalSupply + v /\ n.lockbox = t.lockbox
  BY DEF Minted, Token
<1> HIDE DEF b, n
<1>4. QED
  BY <1>2, <1>3 DEF BalancesAddUp, n

LEMMA BurnedSum ==
    ASSUME NEW t \in Token, NEW caller \in Address, NEW user \in Address, NEW v \in Nat,
           CanBurn(t, caller, user, v), BalancesAddUp(t)
    PROVE  /\ BalancesAddUp(Burned(t, caller, user, v))
           /\ Burned(t, caller, user, v).totalSupply = t.totalSupply - v
           /\ Burned(t, caller, user, v).lockbox = t.lockbox
<1> DEFINE s == IF caller = user THEN t ELSE Spent(t, user, caller, v)
           b == [s.balanceOf EXCEPT ![user] = @ - v]
           n == Burned(t, caller, user, v)
<1>1. /\ s \in Token /\ s.balanceOf = t.balanceOf /\ s.totalSupply = t.totalSupply
      /\ s.lockbox = t.lockbox
  BY SpentType DEF CanBurn
<1>2. n = [s EXCEPT !.burner[caller] = IF caller = t.lockbox THEN @ ELSE UseLimits(@, v),
                    !.totalSupply = @ - v, !.balanceOf[user] = @ - v]
  BY DEF Burned
<1> HIDE DEF s, n
<1>3. s.balanceOf \in [Address -> Int] /\ v \in Int
  BY <1>1 DEF Token
<1>4. SumFunctionOnSet(b, Address) = SumFunctionOnSet(s.balanceOf, Address) - v
  BY <1>3, AddressAssumption, SumDecreased
<1>5. n.balanceOf = b /\ n.totalSupply = s.totalSupply - v /\ n.lockbox = s.lockbox
  BY <1>1, <1>2 DEF Token
<1> HIDE DEF b
<1>6. QED
  BY <1>1, <1>4, <1>5 DEF BalancesAddUp, n

\* A supply that is a sum of balances is a uint256.
LEMMA SupplyType ==
    ASSUME NEW t \in Token, BalancesAddUp(t)
    PROVE  /\ t.totalSupply \in Uint
           /\ \A a \in Address : t.balanceOf[a] <= t.totalSupply
<1>1. \A a \in Address : t.balanceOf[a] \in Nat
  BY DEF Token
<1>2. SumFunctionOnSet(t.balanceOf, Address) \in Nat
  BY <1>1, AddressAssumption, SumIsNat
<1>3. \A a \in Address : t.balanceOf[a] <= SumFunctionOnSet(t.balanceOf, Address)
  BY <1>1, AddressAssumption, SumAtLeast
<1>4. t.totalSupply <= MaxUint
  BY DEF Token, Supply
<1>5. QED
  BY <1>2, <1>3, <1>4, MaxUintAssumption DEF BalancesAddUp, Uint

=============================================================================
