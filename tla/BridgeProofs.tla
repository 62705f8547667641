---------------------------- MODULE BridgeProofs ----------------------------
(***************************************************************************)
(* Proofs that the bridge settles each swap at most once and as it was     *)
(* made, for any set of chains, users, amounts, keys and events, any       *)
(* number of swaps and any behaviour of owners and relayers.               *)
(*                                                                         *)
(* The invariant says what makes it so: swaps of a chain are numbered,     *)
(* PAMs believe nobody but the adapters and the attestator, and what an    *)
(* adapter has settled is the swap of an event it remembers.               *)
(***************************************************************************)
EXTENDS Bridge, XERC20TokenProofs

(***************************************************************************)
(* The calls of adapter, lockbox and token on the storage of one chain:    *)
(* each leaves the types, the token's buckets and the sum of its balances  *)
(* in order, and changes no more of adapter and PAM than it should.        *)
(***************************************************************************)

TokenOK(t) ==
    /\ t \in Token
    /\ BalancesAddUp(t)
    /\ \A a \in Address : BucketOK(t.minter[a]) /\ BucketOK(t.burner[a])

SideOK(s) == s \in Side /\ TokenOK(s.token)

\* u differs from s at most in its tokens, whose lockbox is the same.
OnlyTokensDiffer(s, u) ==
    /\ u.adapter = s.adapter /\ u.pam = s.pam /\ u.calling = s.calling
    /\ u.token.lockbox = s.token.lockbox

\* From s to u so much is issued, and so much collateral paid into the lockbox.
Funds(s, u, issued, paid) ==
    /\ u.token.totalSupply = s.token.totalSupply + issued
    /\ u.underlying[LockboxAddress] = s.underlying[LockboxAddress] + paid

-----------------------------------------------------------------------------
(***************************************************************************)
(* The token's calls keep it in order.                                     *)
(***************************************************************************)

LEMMA UsedBuckets ==
    ASSUME NEW buckets \in [Address -> Bucket], NEW b \in Address, NEW v \in Nat,
           \A a \in Address : BucketOK(buckets[a]), v <= GetCurrentLimit(buckets[b])
    PROVE  \A a \in Address : BucketOK([buckets EXCEPT ![b] = UseLimits(buckets[b], v)][a])
<1>1. BucketOK(UseLimits(buckets[b], v))
  BY UseLimitsFacts
<1>2. QED
  BY <1>1

LEMMA MintedOK ==
    ASSUME NEW t, TokenOK(t), NEW caller \in Address, NEW user \in Address, NEW v \in Nat,
           CanMint(t, caller, user, v)
    PROVE  TokenOK(Minted(t, caller, user, v))
<1> DEFINE n == Minted(t, caller, user, v)
           q == [t.minter EXCEPT ![caller] = UseLimits(t.minter[caller], v)]
<1>1. t \in Token /\ \A a \in Address : BucketOK(t.minter[a]) /\ BucketOK(t.burner[a])
  BY DEF TokenOK
<1>2. /\ n \in Token /\ n.burner = t.burner
      /\ caller = t.lockbox => n.minter = t.minter
      /\ caller # t.lockbox => v <= GetCurrentLimit(t.minter[caller]) /\ n.minter = q
  BY <1>1, MintedFacts
<1>3. v <= GetCurrentLimit(t.minter[caller]) => \A a \in Address : BucketOK(q[a])
  BY <1>1, UsedBuckets DEF Token
<1>4. BalancesAddUp(n)
  BY MintedSum DEF TokenOK
<1> HIDE DEF n, q
<1>5. QED
  BY <1>1, <1>2, <1>3, <1>4 DEF TokenOK, n

LEMMA BurnedOK ==
    ASSUME NEW t, TokenOK(t), NEW caller \in Address, NEW user \in Address, NEW v \in Nat,
           CanBurn(t, caller, user, v)
    PROVE  TokenOK(Burned(t, caller, user, v))
<1> DEFINE n == Burned(t, caller, user, v)
           q == [t.burner EXCEPT ![caller] = UseLimits(t.burner[caller], v)]
<1>1. t \in Token /\ \A a \in Address : BucketOK(t.minter[a]) /\ BucketOK(t.burner[a])
  BY DEF TokenOK
<1>2. /\ n \in Token /\ n.minter = t.minter
      /\ caller = t.lockbox => n.burner = t.burner
      /\ caller # t.lockbox => v <= GetCurrentLimit(t.burner[caller]) /\ n.burner = q
  BY <1>1, BurnedFacts
<1>3. v <= GetCurrentLimit(t.burner[caller]) => \A a \in Address : BucketOK(q[a])
  BY <1>1, UsedBuckets DEF Token
<1>4. BalancesAddUp(n)
  BY BurnedSum DEF TokenOK
<1> HIDE DEF n, q
<1>5. QED
  BY <1>1, <1>2, <1>3, <1>4 DEF TokenOK, n

LEMMA MovedOK ==
    ASSUME NEW t, TokenOK(t), NEW from \in Address, NEW to \in Address, NEW v \in Nat,
           CanTransfer(t, from, to, v)
    PROVE  TokenOK(Moved(t, from, to, v))
BY MovedType, MovedSum DEF TokenOK, CanTransfer

LEMMA TransferredFromOK ==
    ASSUME NEW t, TokenOK(t), NEW spender \in Address, NEW from \in Address,
           NEW to \in Address, NEW v \in Nat, CanTransferFrom(t, spender, from, to, v)
    PROVE  /\ TokenOK(TransferredFrom(t, spender, from, to, v))
           /\ TransferredFrom(t, spender, from, to, v).totalSupply = t.totalSupply
           /\ TransferredFrom(t, spender, from, to, v).lockbox = t.lockbox
<1> DEFINE s == Spent(t, from, spender, v)
           n == Moved(s, from, to, v)
<1>1. CanSpend(t, from, spender, v) /\ t.balanceOf[from] >= v /\ t \in Token
  BY DEF CanTransferFrom, CanTransfer, TokenOK
<1>2. /\ s \in Token /\ s.balanceOf = t.balanceOf /\ s.minter = t.minter /\ s.burner = t.burner
      /\ s.totalSupply = t.totalSupply /\ s.lockbox = t.lockbox
  BY <1>1, SpentType
<1>3. n = TransferredFrom(t, spender, from, to, v)
  BY DEF TransferredFrom
<1> HIDE DEF s
<1>4. n \in Token /\ n.minter = t.minter /\ n.burner = t.burner
  BY <1>1, <1>2, MovedType
<1>5. BalancesAddUp(s)
  BY <1>2 DEF TokenOK, BalancesAddUp
<1>6. BalancesAddUp(n) /\ n.totalSupply = s.totalSupply /\ n.lockbox = s.lockbox
  BY <1>2, <1>5, MovedSum
<1> HIDE DEF n
<1>7. QED
  BY <1>2, <1>3, <1>4, <1>6 DEF TokenOK

\* The same funds with other buckets or allowances.
LEMMA SameFundsAddUp ==
    ASSUME NEW t, BalancesAddUp(t), NEW n, SameFunds(t, n)
    PROVE  BalancesAddUp(n)
BY DEF BalancesAddUp, SameFunds

LEMMA LimitsSetOK ==
    ASSUME NEW t, TokenOK(t), NEW b \in Address, NEW m \in Uint, NEW n \in Uint
    PROVE  TokenOK(LimitsSet(t, b, m, n)) /\ SameFunds(t, LimitsSet(t, b, m, n))
<1>1. t \in Token /\ \A a \in Address : BucketOK(t.minter[a]) /\ BucketOK(t.burner[a])
  BY DEF TokenOK
<1>2. t.minter[b] \in Bucket /\ t.burner[b] \in Bucket
  BY <1>1 DEF Token
<1>3. BucketOK(ChangeLimit(t.minter[b], m)) /\ BucketOK(ChangeLimit(t.burner[b], n))
  BY <1>1, <1>2, ChangeLimitFacts
<1>4. /\ LimitsSet(t, b, m, n) \in Token
      /\ LimitsSet(t, b, m, n).minter = [t.minter EXCEPT ![b] = ChangeLimit(t.minter[b], m)]
      /\ LimitsSet(t, b, m, n).burner = [t.burner EXCEPT ![b] = ChangeLimit(t.burner[b], n)]
      /\ SameFunds(t, LimitsSet(t, b, m, n))
  BY <1>1, LimitsSetFacts
<1>5. BalancesAddUp(LimitsSet(t, b, m, n))
  BY <1>4, SameFundsAddUp DEF TokenOK
<1>6. QED
  BY <1>1, <1>3, <1>4, <1>5 DEF TokenOK, Token

LEMMA SecondPassedOK ==
    ASSUME NEW t, TokenOK(t)
    PROVE  TokenOK(SecondPassed(t)) /\ SameFunds(t, SecondPassed(t))
<1>1. t \in Token /\ \A a \in Address : BucketOK(t.minter[a]) /\ BucketOK(t.burner[a])
  BY DEF TokenOK
<1>2. \A a \in Address : BucketOK(Aged(t.minter[a])) /\ BucketOK(Aged(t.burner[a]))
  BY <1>1, AgedFacts DEF Token
<1>3. BalancesAddUp(SecondPassed(t)) /\ SameFunds(t, SecondPassed(t))
  BY <1>1, SecondPassedFacts, SameFundsAddUp DEF TokenOK
<1>4. QED
  BY <1>1, <1>2, <1>3, SecondPassedFacts DEF TokenOK

-----------------------------------------------------------------------------
(***************************************************************************)
(* The calls that change the tokens of a side only.                        *)
(***************************************************************************)

LEMMA PaidType ==
    ASSUME NEW u \in [Address -> Nat], NEW from \in Address, NEW to \in Address,
           NEW v \in Nat, u[from] >= v
    PROVE  /\ Paid(u, from, to, v) \in [Address -> Nat]
           /\ \A a \in Address \ {from, to} : Paid(u, from, to, v)[a] = u[a]
           /\ from # to => /\ Paid(u, from, to, v)[from] = u[from] - v
                          /\ Paid(u, from, to, v)[to] = u[to] + v
           /\ from = to => Paid(u, from, to, v) = u
<1> DEFINE b == [u EXCEPT ![from] = @ - v]
<1>1. b \in [Address -> Nat]
  OBVIOUS
<1> HIDE DEF b
<1>2. Paid(u, from, to, v) = [b EXCEPT ![to] = @ + v]
  BY DEF Paid, b
<1>3. \A a \in Address : b[a] = IF a = from THEN u[a] - v ELSE u[a]
  BY DEF b
<1>4. ASSUME from = to PROVE Paid(u, from, to, v) = u
  <2>1. \A a \in Address : Paid(u, from, to, v)[a] = u[a]
    BY <1>1, <1>2, <1>3, <1>4
  <2>2. Paid(u, from, to, v) \in [Address -> Nat]
    BY <1>1, <1>2
  <2>3. QED
    BY <2>1, <2>2
<1>5. QED
  BY <1>1, <1>2, <1>3, <1>4

LEMMA TokensReplaced ==
    ASSUME NEW s, SideOK(s), NEW t, TokenOK(t), t.lockbox = s.token.lockbox,
           NEW u, u \in [Address -> Nat], NEW n, n = [s EXCEPT !.token = t, !.underlying = u]
    PROVE  SideOK(n) /\ OnlyTokensDiffer(s, n)
BY DEF SideOK, TokenOK, Side, OnlyTokensDiffer

LEMMA TokenReplaced ==
    ASSUME NEW s, SideOK(s), NEW t, TokenOK(t), t.lockbox = s.token.lockbox,
           NEW n, n = [s EXCEPT !.token = t]
    PROVE  SideOK(n) /\ OnlyTokensDiffer(s, n)
BY DEF SideOK, TokenOK, Side, OnlyTokensDiffer

LEMMA DepositedOK ==
    ASSUME NEW s, SideOK(s), NEW from \in Address, NEW to \in Address, NEW v \in Nat,
           from # LockboxAddress, CanDeposit(s, from, to, v)
    PROVE  /\ SideOK(Deposited(s, from, to, v))
           /\ OnlyTokensDiffer(s, Deposited(s, from, to, v))
           /\ Funds(s, Deposited(s, from, to, v), v * ConversionRatio, v)
           /\ v * ConversionRatio \in Uint
<1> DEFINE t == Minted(s.token, LockboxAddress, to, v * ConversionRatio)
           u == Paid(s.underlying, from, LockboxAddress, v)
<1>1. TokenOK(s.token) /\ s.underlying \in [Address -> Nat]
  BY DEF SideOK, Side
<1>2. LockboxAddress \in Address /\ v * ConversionRatio \in Nat
  BY RolesAssumption, RatioAssumption
<1>3. s.underlying[from] >= v /\ CanMint(s.token, LockboxAddress, to, v * ConversionRatio)
  BY DEF CanDeposit
<1>4. TokenOK(t)
  BY <1>1, <1>2, <1>3, MintedOK
<1>5. t.totalSupply = s.token.totalSupply + v * ConversionRatio /\ t.lockbox = s.token.lockbox
  BY <1>1, <1>2, MintedSum DEF TokenOK
<1>6. u \in [Address -> Nat] /\ u[LockboxAddress] = s.underlying[LockboxAddress] + v
  BY <1>1, <1>2, <1>3, PaidType
<1>7. Deposited(s, from, to, v) = [s EXCEPT !.token = t, !.underlying = u]
  BY DEF Deposited, SideOK, Side
<1>8. v * ConversionRatio \in Uint
  <2>1. s.token.totalSupply \in Uint /\ s.token.totalSupply + v * ConversionRatio <= MaxUint
    BY <1>1, <1>3, SupplyType DEF TokenOK, CanMint
  <2>2. QED
    BY <1>2, <2>1, MaxUintAssumption DEF Uint
<1> HIDE DEF t, u
<1>9. s \in Side
  BY DEF SideOK
<1>10. Funds(s, [s EXCEPT !.token = t, !.underlying = u], v * ConversionRatio, v)
  BY <1>5, <1>6, <1>9 DEF Funds, Side
<1>11. QED
  BY <1>4, <1>5, <1>6, <1>7, <1>8, <1>10, TokensReplaced

\* What leaves the lockbox when so much is paid out to somebody.
Released(to, v) == IF to = LockboxAddress THEN 0 ELSE v \div ConversionRatio

LEMMA WithdrawnOK ==
    ASSUME NEW s, SideOK(s), NEW sender \in Address, NEW to \in Address, NEW v \in Nat,
           CanWithdraw(s, sender, to, v)
    PROVE  /\ SideOK(Withdrawn(s, sender, to, v))
           /\ OnlyTokensDiffer(s, Withdrawn(s, sender, to, v))
           /\ Funds(s, Withdrawn(s, sender, to, v), 0 - v, 0 - Released(to, v))
           /\ v <= s.token.totalSupply
<1> DEFINE w == v \div ConversionRatio
           t == Burned(s.token, LockboxAddress, sender, v)
           u == Paid(s.underlying, LockboxAddress, to, w)
<1>1. TokenOK(s.token) /\ s.underlying \in [Address -> Nat]
  BY DEF SideOK, Side
<1>2. LockboxAddress \in Address /\ w \in Nat
  BY RolesAssumption, RatioAssumption
<1>3. s.underlying[LockboxAddress] >= w /\ CanBurn(s.token, LockboxAddress, sender, v)
  BY DEF CanWithdraw
<1>4. TokenOK(t)
  BY <1>1, <1>2, <1>3, BurnedOK
<1>5. t.totalSupply = s.token.totalSupply - v /\ t.lockbox = s.token.lockbox
  BY <1>1, <1>2, <1>3, BurnedSum DEF TokenOK
<1>6. v <= s.token.totalSupply
  <2>1. s.token.balanceOf[sender] >= v /\ s.token.balanceOf[sender] <= s.token.totalSupply
    BY <1>1, <1>3, SupplyType DEF TokenOK, CanBurn
  <2>2. s.token.balanceOf[sender] \in Nat /\ s.token.totalSupply \in Int
    BY <1>1 DEF TokenOK, Token, Supply
  <2>3. QED
    BY <2>1, <2>2
<1>7. w = v \div ConversionRatio /\ Released(to, v) = IF to = LockboxAddress THEN 0 ELSE w
  BY DEF Released
<1> DEFINE r == Released(to, v)
<1> HIDE DEF w
<1>8. /\ u \in [Address -> Nat] /\ r \in Nat
      /\ u[LockboxAddress] = s.underlying[LockboxAddress] - r
  <2>1. CASE to = LockboxAddress
    BY <1>1, <1>2, <1>3, <1>7, <2>1, PaidType
  <2>2. CASE to # LockboxAddress
    BY <1>1, <1>2, <1>3, <1>7, <2>2, PaidType
  <2>3. QED
    BY <2>1, <2>2
<1>9. Withdrawn(s, sender, to, v) = [s EXCEPT !.token = t, !.underlying = u]
  BY <1>7 DEF Withdrawn, SideOK, Side
<1> HIDE DEF t, u
<1>10. /\ s \in Side /\ s.token.totalSupply \in Int /\ s.underlying[LockboxAddress] \in Int
  BY <1>1, <1>2 DEF SideOK, TokenOK, Token, Supply
<1> HIDE DEF r
<1>11. Funds(s, [s EXCEPT !.token = t, !.underlying = u], 0 - v, 0 - r)
  BY <1>5, <1>8, <1>10 DEF Funds, Side
<1>12. QED
  BY <1>4, <1>5, <1>6, <1>8, <1>9, <1>11, TokensReplaced DEF r

\* A settlement's payment: an amount of zero does nothing; on the home chain
\* collateral is released, elsewhere tokens are issued.
LEMMA DeliveredOK ==
    ASSUME NEW s, SideOK(s), NEW recipient \in Address, NEW v \in Uint,
           CanDeliver(s, recipient, v)
    PROVE  /\ SideOK(Delivered(s, recipient, v))
           /\ OnlyTokensDiffer(s, Delivered(s, recipient, v))
           /\ IF v # 0 /\ s.token.lockbox # NoAddress
              THEN Funds(s, Delivered(s, recipient, v), 0, 0 - Released(recipient, v))
              ELSE Funds(s, Delivered(s, recipient, v), v, 0)
<1>1. /\ v \in Nat /\ TokenOK(s.token) /\ {AdapterAddress, LockboxAddress} \subseteq Address
      /\ s \in Side /\ s.token.totalSupply \in Int /\ s.underlying[LockboxAddress] \in Int
  BY MaxUintAssumption, RolesAssumption DEF Uint, SideOK, TokenOK, Token, Supply, Side
<1>2. CASE v = 0
  BY <1>1, <1>2 DEF Delivered, OnlyTokensDiffer, Funds
<1>3. CASE v # 0 /\ s.token.lockbox # NoAddress
  <2> DEFINE t1 == Minted(s.token, AdapterAddress, AdapterAddress, v)
             t2 == Approved(t1, AdapterAddress, LockboxAddress, v)
             m  == MintedToSelf(s, v)
             w  == Released(recipient, v)
             d  == Withdrawn(m, AdapterAddress, recipient, v)
  <2>1. /\ CanMint(s.token, AdapterAddress, AdapterAddress, v)
        /\ CanWithdraw(m, AdapterAddress, recipient, v)
    BY <1>3 DEF CanDeliver
  <2>2. TokenOK(t1)
    BY <1>1, <2>1, MintedOK
  <2>3. t1.totalSupply = s.token.totalSupply + v /\ t1.lockbox = s.token.lockbox
    BY <1>1, MintedSum DEF TokenOK
  <2>4. m = [s EXCEPT !.token = t2]
    BY DEF MintedToSelf
  <2>5. Delivered(s, recipient, v) = d
    BY <1>3 DEF Delivered
  <2> HIDE DEF t1, m
  <2>6. TokenOK(t2) /\ SameFunds(t1, t2)
    <3>1. t1 \in Token /\ BalancesAddUp(t1)
      BY <2>2 DEF TokenOK
    <3>2. t2 \in Token /\ t2.minter = t1.minter /\ t2.burner = t1.burner /\ SameFunds(t1, t2)
      BY <1>1, <3>1, ApprovedType
    <3> HIDE DEF t2
    <3>3. QED
      BY <2>2, <3>1, <3>2, SameFundsAddUp DEF TokenOK
  <2> HIDE DEF t2
  <2>7. SideOK(m) /\ OnlyTokensDiffer(s, m)
    BY <2>3, <2>4, <2>6, TokenReplaced DEF SameFunds
  <2>8. m.token.totalSupply = s.token.totalSupply + v /\ m.underlying = s.underlying
    BY <1>1, <2>3, <2>4, <2>6 DEF SameFunds, Side
  <2>9. /\ SideOK(d) /\ OnlyTokensDiffer(m, d) /\ Funds(m, d, 0 - v, 0 - w)
    BY <1>1, <2>1, <2>7, WithdrawnOK
  <2>10. w \in Int
    BY <1>1, RatioAssumption DEF Released
  <2> HIDE DEF w, d
  <2>11. Funds(s, d, 0, 0 - w)
    BY <1>1, <2>8, <2>9, <2>10 DEF Funds
  <2>12. OnlyTokensDiffer(s, d)
    BY <2>7, <2>9 DEF OnlyTokensDiffer
  <2>13. QED
    BY <1>3, <2>5, <2>9, <2>11, <2>12 DEF w
<1>4. CASE v # 0 /\ s.token.lockbox = NoAddress
  <2> DEFINE t == Minted(s.token, AdapterAddress, recipient, v)
  <2>1. CanMint(s.token, AdapterAddress, recipient, v)
    BY <1>4 DEF CanDeliver
  <2>2. TokenOK(t)
    BY <1>1, <2>1, MintedOK
  <2>3. t.totalSupply = s.token.totalSupply + v /\ t.lockbox = s.token.lockbox
    BY <1>1, MintedSum DEF TokenOK
  <2>4. Delivered(s, recipient, v) = [s EXCEPT !.token = t]
    BY <1>4 DEF Delivered
  <2> HIDE DEF t
  <2>5. Funds(s, [s EXCEPT !.token = t], v, 0)
    BY <1>1, <2>3 DEF Funds, Side
  <2>6. QED
    BY <1>4, <2>2, <2>3, <2>4, <2>5, TokenReplaced
<1>5. QED
  BY <1>2, <1>3, <1>4

-----------------------------------------------------------------------------
(***************************************************************************)
(* swap and settle.                                                        *)
(***************************************************************************)

LEMMA FeeType ==
    ASSUME NEW a \in AdapterStorage, NEW v \in Nat
    PROVE  CalculateFee(a, v) \in Nat
<1>1. a.minFee \in Nat
  BY MaxUintAssumption DEF AdapterStorage, Uint
<1>2. v * FeeBasisPoints \in Nat
  BY FeeAssumption
<1>3. (v * FeeBasisPoints) \div FeeDivisor \in Nat
  BY <1>2, FeeAssumption
<1>4. QED
  BY <1>1, <1>3 DEF CalculateFee

\* The end of a swap takes a number and leaves the past events and the PAM; it
\* burns the net amount, a number of the contract's range, and no more than was
\* issued.
LEMMA SwapFinalizedOK ==
    ASSUME NEW s, SideOK(s), NEW v \in Uint, CanFinalizeSwap(s, v)
    PROVE  /\ SideOK(SwapFinalized(s, v))
           /\ SwapFinalized(s, v).adapter = [s.adapter EXCEPT !.nonce = @ + 1]
           /\ SwapFinalized(s, v).pam = s.pam
           /\ SwapFinalized(s, v).calling = s.calling
           /\ SwapFinalized(s, v).token.lockbox = s.token.lockbox
           /\ NetAmount(s, v) \in Uint /\ NetAmount(s, v) <= s.token.totalSupply
           /\ Funds(s, SwapFinalized(s, v), 0 - NetAmount(s, v), 0)
<1> DEFINE fee == CalculateFee(s.adapter, v)
           net == NetAmount(s, v)
           t1  == FeesTaken(s, v)
           t2  == Burned(t1, AdapterAddress, AdapterAddress, net)
           a   == [s.adapter EXCEPT !.nonce = @ + 1]
<1>1. /\ v \in Nat /\ TokenOK(s.token) /\ {AdapterAddress, LockboxAddress} \subseteq Address
      /\ s.adapter \in AdapterStorage /\ s.adapter.feesManager \in Address
      /\ s \in Side /\ s.underlying[LockboxAddress] \in Int
  BY MaxUintAssumption, RolesAssumption DEF Uint, SideOK, Side, AdapterStorage
<1>2. fee \in Nat /\ fee <= v
  BY <1>1, FeeType DEF CanFinalizeSwap
<1>3. net \in Nat /\ net \in Uint
  <2>1. net = v - fee
    BY DEF NetAmount
  <2> HIDE DEF fee, net
  <2>2. QED
    BY <1>1, <1>2, <2>1, MaxUintAssumption DEF Uint
<1>4. CanTransfer(s.token, AdapterAddress, s.adapter.feesManager, fee)
  BY DEF CanFinalizeSwap
<1>5. TokenOK(t1) /\ t1.totalSupply = s.token.totalSupply /\ t1.lockbox = s.token.lockbox
  <2> DEFINE t == Moved(s.token, AdapterAddress, s.adapter.feesManager, fee)
  <2>1. t1 = t
    BY DEF FeesTaken
  <2> HIDE DEF fee
  <2>2. TokenOK(t)
    BY <1>1, <1>2, <1>4, MovedOK
  <2>3. t.totalSupply = s.token.totalSupply /\ t.lockbox = s.token.lockbox
    BY <1>1, <1>2, MovedSum DEF TokenOK
  <2>4. QED
    BY <2>1, <2>2, <2>3
<1>6. CanBurn(t1, AdapterAddress, AdapterAddress, net)
  BY DEF CanFinalizeSwap
<1>7. net = NetAmount(s, v)
  OBVIOUS
<1>8. SwapFinalized(s, v) = [s EXCEPT !.token = t2, !.adapter = a]
  BY DEF SwapFinalized
<1> HIDE DEF t1, net
<1>9. TokenOK(t2)
  BY <1>1, <1>3, <1>5, <1>6, BurnedOK
<1>10. t2.totalSupply = t1.totalSupply - net /\ t2.lockbox = t1.lockbox
  BY <1>1, <1>3, <1>5, <1>6, BurnedSum DEF TokenOK
<1>11. net <= s.token.totalSupply /\ s.token.totalSupply \in Int
  <2>1. t1.balanceOf[AdapterAddress] >= net /\ t1.balanceOf[AdapterAddress] <= t1.totalSupply
    BY <1>1, <1>5, <1>6, SupplyType DEF TokenOK, CanBurn
  <2>2. t1.balanceOf[AdapterAddress] \in Nat /\ t1.totalSupply \in Int
    BY <1>1, <1>5 DEF TokenOK, Token, Supply
  <2>3. QED
    BY <1>3, <1>5, <2>1, <2>2
<1>12. a \in AdapterStorage
  BY <1>1 DEF AdapterStorage
<1> HIDE DEF t2, a
<1> DEFINE u == [s EXCEPT !.token = t2, !.adapter = a]
<1>13. /\ u.token = t2 /\ u.underlying = s.underlying /\ u.adapter = a
       /\ u.pam = s.pam /\ u.calling = s.calling
  BY <1>1 DEF Side
<1>14. SideOK(u)
  BY <1>1, <1>9, <1>12 DEF SideOK, TokenOK, Side
<1> HIDE DEF u
<1>15. Funds(s, u, 0 - net, 0)
  BY <1>1, <1>3, <1>5, <1>10, <1>11, <1>13 DEF Funds
<1>16. QED
  BY <1>3, <1>5, <1>7, <1>8, <1>10, <1>11, <1>13, <1>14, <1>15 DEF u, a

\* What is common to both ways of swapping: so much may be wrapped on the way,
\* and the net amount is burned.
SwapLeaves(s, u, v, wrapped, paid) ==
    /\ SideOK(u)
    /\ u.adapter = [s.adapter EXCEPT !.nonce = @ + 1]
    /\ u.pam = s.pam
    /\ u.calling = s.calling
    /\ u.token.lockbox = s.token.lockbox
    /\ NetAmount(s, v) \in Uint /\ NetAmount(s, v) <= s.token.totalSupply + wrapped
    /\ Funds(s, u, wrapped - NetAmount(s, v), paid)

LEMMA SwapAfterPull ==
    ASSUME NEW s, SideOK(s), NEW p, SideOK(p), OnlyTokensDiffer(s, p), NEW v \in Uint,
           NEW wrapped \in Int, NEW paid \in Int, Funds(s, p, wrapped, paid),
           CanFinalizeSwap(p, v)
    PROVE  SwapLeaves(s, SwapFinalized(p, v), v, wrapped, paid)
<1> DEFINE u == SwapFinalized(p, v)
           net == NetAmount(p, v)
<1>1. NetAmount(s, v) = net
  BY DEF NetAmount, OnlyTokensDiffer
<1>2. /\ SideOK(u) /\ u.adapter = [p.adapter EXCEPT !.nonce = @ + 1]
      /\ u.pam = p.pam /\ u.calling = p.calling /\ u.token.lockbox = p.token.lockbox
      /\ net \in Uint /\ net <= p.token.totalSupply
      /\ Funds(p, u, 0 - net, 0)
  BY SwapFinalizedOK
<1>3. /\ s.token.totalSupply \in Int /\ s.underlying[LockboxAddress] \in Int
      /\ p.token.totalSupply \in Int /\ p.underlying[LockboxAddress] \in Int
  BY RolesAssumption DEF SideOK, Side, Token, Supply
<1> HIDE DEF u, net
<1>4. net \in Int
  BY <1>2, MaxUintAssumption DEF Uint
<1>5. Funds(s, u, wrapped - net, paid) /\ net <= s.token.totalSupply + wrapped
  BY <1>2, <1>3, <1>4 DEF Funds
<1>6. QED
  BY <1>1, <1>2, <1>5 DEF SwapLeaves, OnlyTokensDiffer, u

LEMMA SwappedXERC20OK ==
    ASSUME NEW s, SideOK(s), NEW sender \in Address, NEW v \in Uint,
           CanSwapXERC20(s, sender, v)
    PROVE  SwapLeaves(s, SwappedXERC20(s, sender, v), v, 0, 0)
<1> DEFINE t == TransferredFrom(s.token, AdapterAddress, sender, AdapterAddress, v)
           p == XERC20Pulled(s, sender, v)
<1>1. /\ v \in Nat /\ TokenOK(s.token) /\ {AdapterAddress, LockboxAddress} \subseteq Address
      /\ s \in Side /\ s.token.totalSupply \in Int /\ s.underlying[LockboxAddress] \in Int
  BY MaxUintAssumption, RolesAssumption DEF Uint, SideOK, Side, Token, Supply
<1>2. /\ CanTransferFrom(s.token, AdapterAddress, sender, AdapterAddress, v)
      /\ CanFinalizeSwap(p, v)
  BY DEF CanSwapXERC20
<1>3. TokenOK(t) /\ t.totalSupply = s.token.totalSupply /\ t.lockbox = s.token.lockbox
  BY <1>1, <1>2, TransferredFromOK
<1>4. p = [s EXCEPT !.token = t]
  BY DEF XERC20Pulled
<1>5. SwappedXERC20(s, sender, v) = SwapFinalized(p, v)
  BY DEF SwappedXERC20
<1> HIDE DEF t, p
<1>6. SideOK(p) /\ OnlyTokensDiffer(s, p)
  BY <1>3, <1>4, TokenReplaced
<1>7. Funds(s, p, 0, 0)
  BY <1>1, <1>3, <1>4 DEF Funds, Side
<1>8. QED
  BY <1>2, <1>5, <1>6, <1>7, SwapAfterPull

\* What swapping so much of the ERC20 wraps and pays into the lockbox: on the
\* home chain all of it.
WrappedBySwap(s, v) == IF s.token.lockbox # NoAddress THEN v * ConversionRatio ELSE 0
PaidBySwap(s, v) == IF s.token.lockbox # NoAddress THEN v ELSE 0

LEMMA SwappedERC20OK ==
    ASSUME NEW s, SideOK(s), NEW sender \in Address, sender # LockboxAddress,
           NEW v \in Uint, CanSwapERC20(s, sender, v)
    PROVE  /\ SwapLeaves(s, SwappedERC20(s, sender, v), v, WrappedBySwap(s, v), PaidBySwap(s, v))
           /\ WrappedBySwap(s, v) \in Uint
<1> DEFINE u == Paid(s.underlying, sender, AdapterAddress, v)
           q == [s EXCEPT !.underlying = u]
           p == ERC20Pulled(s, sender, v)
<1>1. /\ v \in Nat /\ TokenOK(s.token) /\ {AdapterAddress, LockboxAddress} \subseteq Address
      /\ s.underlying \in [Address -> Nat] /\ s \in Side
      /\ s.token.totalSupply \in Int /\ s.underlying[LockboxAddress] \in Int
  BY MaxUintAssumption, RolesAssumption DEF Uint, SideOK, Side, Token, Supply
<1>2. s.underlying[sender] >= v /\ CanFinalizeSwap(p, v)
  BY DEF CanSwapERC20
<1>3. u \in [Address -> Nat] /\ u[LockboxAddress] = s.underlying[LockboxAddress]
  BY <1>1, <1>2, PaidType, RolesAssumption
<1>4. u[AdapterAddress] >= v
  BY <1>1, <1>2 DEF Paid
<1>5. p = IF s.token.lockbox # NoAddress
          THEN Deposited(q, AdapterAddress, AdapterAddress, v) ELSE q
  BY DEF ERC20Pulled
<1>6. SwappedERC20(s, sender, v) = SwapFinalized(p, v)
  BY DEF SwappedERC20
<1>7. SideOK(q) /\ OnlyTokensDiffer(s, q) /\ q.token = s.token /\ q.underlying = u
  <2> HIDE DEF u
  <2>1. QED
    BY <1>3 DEF SideOK, TokenOK, Side, OnlyTokensDiffer
<1>8. s.token.lockbox # NoAddress => CanDeposit(q, AdapterAddress, AdapterAddress, v)
  <2> HIDE DEF u, q
  <2>1. QED
    BY <1>4, <1>7 DEF CanSwapERC20, CanDeposit
<1> HIDE DEF u, q, p
<1>9. /\ SideOK(p) /\ OnlyTokensDiffer(s, p)
      /\ Funds(s, p, WrappedBySwap(s, v), PaidBySwap(s, v))
      /\ WrappedBySwap(s, v) \in Uint /\ PaidBySwap(s, v) \in Int
  <2>1. CASE s.token.lockbox # NoAddress
    <3> DEFINE d == Deposited(q, AdapterAddress, AdapterAddress, v)
    <3>1. /\ SideOK(d) /\ OnlyTokensDiffer(q, d) /\ Funds(q, d, v * ConversionRatio, v)
          /\ v * ConversionRatio \in Uint
      BY <1>1, <1>7, <1>8, <2>1, DepositedOK, RolesAssumption
    <3> HIDE DEF d
    <3>2. p = d
      BY <1>5, <2>1 DEF d
    <3>3. Funds(s, d, v * ConversionRatio, v)
      BY <1>3, <1>7, <3>1 DEF Funds
    <3>4. QED
      BY <1>1, <1>7, <2>1, <3>1, <3>2, <3>3 DEF OnlyTokensDiffer, WrappedBySwap, PaidBySwap
  <2>2. CASE s.token.lockbox = NoAddress
    <3>1. p = q /\ WrappedBySwap(s, v) = 0 /\ PaidBySwap(s, v) = 0 /\ 0 \in Uint
      BY <1>5, <2>2, MaxUintAssumption DEF WrappedBySwap, PaidBySwap, Uint
    <3>2. Funds(s, q, 0, 0)
      BY <1>1, <1>3, <1>7 DEF Funds
    <3>3. QED
      BY <1>7, <3>1, <3>2
  <2>3. QED
    BY <2>1, <2>2
<1>10. WrappedBySwap(s, v) \in Int
  BY <1>9, MaxUintAssumption DEF Uint
<1>11. QED
  BY <1>2, <1>6, <1>9, <1>10, SwapAfterPull

\* A settlement adds its event to the past ones.
LEMMA SettledOK ==
    ASSUME NEW s, SideOK(s), NEW chainid, NEW op \in Operation, NEW metadata,
           metadata.preimage \in Preimage,
           CanSettle(s, chainid, op, metadata)
    PROVE  LET u == Settled(s, op, metadata)
           IN  /\ SideOK(u) /\ u.pam = s.pam
               /\ u.adapter.nonce = s.adapter.nonce
               /\ u.adapter.pastEvents = s.adapter.pastEvents \cup {metadata.preimage}
               /\ u.token.lockbox = s.token.lockbox
               /\ IF op.amount # 0 /\ s.token.lockbox # NoAddress
                  THEN Funds(s, u, 0, 0 - Released(op.recipient, op.amount))
                  ELSE Funds(s, u, op.amount, 0)
<1> DEFINE d == Delivered(s, op.recipient, op.amount)
           a == [s.adapter EXCEPT !.pastEvents = @ \cup {metadata.preimage}]
           c == IF op.data # NoData THEN op.recipient ELSE NoAddress
           u == Settled(s, op, metadata)
<1>1. op.recipient \in Address /\ op.amount \in Uint
  BY DEF Operation
<1>2. CanDeliver(s, op.recipient, op.amount)
  BY DEF CanSettle
<1>3. /\ SideOK(d) /\ OnlyTokensDiffer(s, d)
      /\ IF op.amount # 0 /\ s.token.lockbox # NoAddress
         THEN Funds(s, d, 0, 0 - Released(op.recipient, op.amount))
         ELSE Funds(s, d, op.amount, 0)
  BY <1>1, <1>2, DeliveredOK
<1>4. c \in AddressOrZero
  BY <1>1 DEF AddressOrZero
<1>5. s.adapter \in AdapterStorage
  BY DEF SideOK, Side
<1>6. a \in AdapterStorage
  BY <1>5 DEF AdapterStorage
<1>7. u = [d EXCEPT !.adapter = a, !.calling = c]
  <2>1. u = [d EXCEPT !.adapter.pastEvents = @ \cup {metadata.preimage}, !.calling = c]
    BY DEF Settled
  <2>2. d.adapter = s.adapter
    BY <1>3 DEF OnlyTokensDiffer
  <2> HIDE DEF d, c, u
  <2>3. QED
    BY <2>1, <2>2
<1>8. a.nonce = s.adapter.nonce /\ a.pastEvents = s.adapter.pastEvents \cup {metadata.preimage}
  BY <1>5 DEF AdapterStorage
<1> HIDE DEF d, a, c, u
<1>9. /\ SideOK(u) /\ u.pam = d.pam /\ u.adapter = a
      /\ u.token = d.token /\ u.underlying = d.underlying
  BY <1>3, <1>4, <1>6, <1>7 DEF SideOK, TokenOK, Side
<1>10. \A n, m : Funds(s, d, n, m) => Funds(s, u, n, m)
  BY <1>9 DEF Funds
<1>11. QED
  BY <1>3, <1>8, <1>9, <1>10 DEF OnlyTokensDiffer, u

-----------------------------------------------------------------------------
(***************************************************************************)
(* The inductive invariant.                                                *)
(***************************************************************************)

\* The factory gives the token of the home chain its lockbox, and no other.
LockboxOf(c) == IF c = Home THEN LockboxAddress ELSE NoAddress

SidesOK == \A c \in Chain : SideOK(side[c]) /\ side[c].token.lockbox = LockboxOf(c)

PamsTrusted == \A c \in Chain : WellConfigured(side[c].pam)

\* What an adapter emits is a swap, or under a topic no PAM accepts.
LogsHonest ==
    \A l \in logs : l.emitter = EmitterOf[l.originChainId] /\ l.topic0 # SwapTopic
                      => l.topic0 # NoTopic

SwapsNumbered ==
    /\ \A l \in Swaps : l.content.nonce < side[l.originChainId].adapter.nonce
    /\ \A l, m \in Swaps : l.originChainId = m.originChainId /\ l.content.nonce = m.content.nonce
                             => l = m

\* The settlement s pays the swap of event l.
Pays(s, l) ==
    /\ s.operation = OperationOf(l)
    /\ s.chain = l.content.destinationChainId
    /\ l \in side[s.chain].adapter.pastEvents

SettlementsBacked ==
    /\ \A s \in settlements : \E l \in Swaps : Pays(s, l)
    /\ \A s, t \in settlements : s.operation = t.operation => s = t

IInv ==
    /\ TypeOK /\ IsFiniteSet(settlements) /\ IsFiniteSet(Swaps)
    /\ SidesOK /\ PamsTrusted /\ LogsHonest /\ SwapsNumbered /\ SettlementsBacked

-----------------------------------------------------------------------------
(***************************************************************************)
(* Initial states.                                                         *)
(***************************************************************************)

LEMMA DeployedTokenOK ==
    ASSUME NEW c \in Chain
    PROVE  /\ TokenOK(DeployedToken(c))
           /\ DeployedToken(c).totalSupply = 0
           /\ DeployedToken(c).lockbox = LockboxOf(c)
<1> DEFINE allowance == [a \in Address |-> [b \in Address |->
                IF a \in Users /\ b \in {AdapterAddress, LockboxAddress} THEN MaxUint ELSE 0]]
           lockbox == IF c = Home THEN LockboxAddress ELSE NoAddress
           t == [NewToken EXCEPT !.lockbox = lockbox, !.allowance = allowance]
<1>1. ZeroBucket \in Bucket /\ BucketOK(ZeroBucket)
  <2>1. 0 \in Uint /\ DURATION \in 0 .. DURATION /\ 0 \div DURATION = 0
    BY DurationAssumption, MaxUintAssumption DEF Uint
  <2>2. QED
    BY <2>1 DEF ZeroBucket, Bucket, BucketOK
<1>2. 0 \in Uint /\ MaxUint \in Uint /\ 0 \in Supply
  BY MaxUintAssumption DEF Uint, Supply
<1>3. allowance \in [Address -> [Address -> Uint]] /\ lockbox \in AddressOrZero
  BY <1>2, RolesAssumption DEF AddressOrZero
<1>4. NewToken \in Token
  BY <1>1, <1>2 DEF NewToken, Token, AddressOrZero
<1> HIDE DEF allowance, lockbox
<1>5. /\ t \in Token /\ t.minter = NewToken.minter /\ t.burner = NewToken.burner
      /\ t.balanceOf = NewToken.balanceOf /\ t.totalSupply = 0 /\ t.lockbox = lockbox
  BY <1>3, <1>4 DEF Token, NewToken
<1>6. BalancesAddUp(t)
  <2> DEFINE b == [a \in Address |-> 0]
  <2>1. SumFunctionOnSet(b, Address) = 0
    BY AddressAssumption, SumZero
  <2>2. t.balanceOf = b
    BY <1>5 DEF NewToken
  <2> HIDE DEF b
  <2>3. QED
    BY <1>5, <2>1, <2>2 DEF BalancesAddUp
<1>7. TokenOK(t)
  BY <1>1, <1>5, <1>6 DEF TokenOK, NewToken
<1>8. DeployedToken(c) = LimitsSet(t, AdapterAddress, InitialLimit, InitialLimit)
  BY DEF DeployedToken, allowance, lockbox
<1>9. lockbox = LockboxOf(c)
  BY DEF LockboxOf, lockbox
<1> HIDE DEF t
<1>10. QED
  BY <1>5, <1>7, <1>8, <1>9, LimitsSetOK, RolesAssumption, BridgeAssumption DEF SameFunds

LEMMA DeployedPamOK == ASSUME NEW c \in Chain PROVE WellConfigured(DeployedPam(c))
<1> DEFINE emitters == [o \in Chain |-> IF <<c, o>> \in Peers THEN EmitterOf[o] ELSE NoEmitter]
           topics == [o \in Chain |-> IF <<c, o>> \in Peers THEN SwapTopic ELSE NoTopic]
<1>1. /\ emitters \in [Chain -> Emitter \cup {NoEmitter}]
      /\ topics \in [Chain -> Topic \cup {NoTopic}]
      /\ \A o \in Chain : /\ emitters[o] \in {EmitterOf[o], NoEmitter}
                           /\ topics[o] \in {SwapTopic, NoTopic}
      /\ FirstKey \in TeeKeys /\ FirstKey \in KeyOrZero
  BY BridgeAssumption DEF KeyOrZero
<1>2. NewPam \in Pam /\ NewPam.teeAddressNew = NoKey
  BY GracePeriodAssumption DEF NewPam, Pam, KeyOrZero
<1>3. DeployedPam(c) = [NewPam EXCEPT !.teeAddress = FirstKey, !.emitters = emitters,
                                      !.chainIdToTopicZero = topics]
  BY DEF DeployedPam
<1> HIDE DEF emitters, topics
<1>4. QED
  BY <1>1, <1>2, <1>3 DEF WellConfigured, Pam

LEMMA InitIInv == Init => IInv
<1> SUFFICES ASSUME Init PROVE IInv
  OBVIOUS
<1>1. PICK f \in FeesManagers : side = [c \in Chain |-> Deployed(c, f)]
  BY DEF Init
<1>2. logs = {} /\ settlements = {}
  BY DEF Init
<1>3. f \in Address
  BY BridgeAssumption
<1>4. ASSUME NEW c \in Chain
      PROVE  /\ SideOK(side[c]) /\ WellConfigured(side[c].pam)
             /\ side[c].token.lockbox = LockboxOf(c)
  <2> DEFINE u == [a \in Address |-> IF a \notin Users THEN 0
                                     ELSE IF c = Home THEN InitialBalance ELSE TwinBalance]
  <2>1. u \in [Address -> Nat]
    BY BridgeAssumption
  <2>2. [nonce |-> 0, feesManager |-> f, minFee |-> 0, pastEvents |-> {}] \in AdapterStorage
    BY <1>3, MaxUintAssumption DEF AdapterStorage, Uint
  <2>3. /\ TokenOK(DeployedToken(c)) /\ DeployedToken(c).lockbox = LockboxOf(c)
        /\ WellConfigured(DeployedPam(c))
    BY DeployedTokenOK, DeployedPamOK
  <2>4. side[c] = [token |-> DeployedToken(c), underlying |-> u,
                   adapter |-> [nonce |-> 0, feesManager |-> f, minFee |-> 0, pastEvents |-> {}],
                   pam |-> DeployedPam(c), calling |-> NoAddress]
    BY <1>1 DEF Deployed
  <2> HIDE DEF u
  <2>5. QED
    BY <2>1, <2>2, <2>3, <2>4 DEF SideOK, TokenOK, Side, WellConfigured, AddressOrZero
<1>5. TypeOK
  BY <1>1, <1>2, <1>4 DEF TypeOK, SideOK
<1>6. QED
  BY <1>2, <1>4, <1>5, FS_EmptySet
     DEF IInv, SidesOK, PamsTrusted, LogsHonest, SwapsNumbered, SettlementsBacked, Swaps

-----------------------------------------------------------------------------
(***************************************************************************)
(* Steps.                                                                  *)
(***************************************************************************)

\* Whatever keeps the sides in order, forgets no event and swaps nothing
\* keeps the invariant.
LEMMA QuietStep ==
    ASSUME IInv,
           side' \in [Chain -> Side], SidesOK', PamsTrusted',
           \A o \in Chain : /\ side'[o].adapter.nonce = side[o].adapter.nonce
                            /\ side[o].adapter.pastEvents \subseteq side'[o].adapter.pastEvents,
           logs' \subseteq Preimage, LogsHonest', Swaps' = Swaps, settlements' = settlements
    PROVE  IInv' /\ Sent' = Sent /\ Received' = Received
<1>1. TypeOK' /\ IsFiniteSet(settlements') /\ IsFiniteSet(Swaps')
  BY DEF IInv, TypeOK
<1>2. \A l \in Swaps : l.originChainId \in Chain
  BY DEF IInv, TypeOK, Swaps, Preimage
<1>3. SwapsNumbered'
  BY <1>2 DEF IInv, SwapsNumbered
<1>4. \A s \in settlements : s.chain \in Chain
  BY DEF IInv, TypeOK
<1>5. \A s \in settlements, l \in Swaps : Pays(s, l) => Pays(s, l)'
  BY <1>4 DEF Pays
<1>6. SettlementsBacked'
  BY <1>5 DEF IInv, SettlementsBacked
<1>7. QED
  BY <1>1, <1>3, <1>6 DEF IInv, Sent, Received

\* What circulates on chain c grows by n, and what is locked by k ...
Shifted(c, n, k) ==
    /\ Circulating' = [Circulating EXCEPT ![c] = @ + n]
    /\ Locked' = Locked + k

\* ... when the funds of its side do.
LEMMA FundsMoved ==
    ASSUME IInv, NEW c \in Chain, NEW n \in Int, NEW m \in Int, NEW k,
           k = IF c = Home THEN m * ConversionRatio ELSE 0,
           NEW u, Funds(side[c], u, n, m), side' = [side EXCEPT ![c] = u]
    PROVE  Shifted(c, n, k)
<1>1. /\ side \in [Chain -> Side] /\ Home \in Chain
      /\ \A o \in Chain : side'[o] = IF o = c THEN u ELSE side[o]
  BY BridgeAssumption DEF IInv, TypeOK
<1>2. \A o \in Chain : side[o].underlying[LockboxAddress] \in Int
  BY <1>1, RolesAssumption DEF Side
<1>3. Circulating' = [Circulating EXCEPT ![c] = @ + n]
  BY <1>1 DEF Circulating, Funds
<1>4. CASE c = Home
  <2> DEFINE x == side[Home].underlying[LockboxAddress]
  <2>1. Locked' = (x + m) * ConversionRatio
    BY <1>1, <1>4 DEF Locked, Funds
  <2>2. x \in Int /\ Locked = x * ConversionRatio
    BY <1>1, <1>2 DEF Locked
  <2> HIDE DEF x
  <2>3. (x + m) * ConversionRatio = x * ConversionRatio + m * ConversionRatio
    BY <2>2, RatioAssumption
  <2>4. QED
    BY <1>3, <1>4, <2>1, <2>2, <2>3 DEF Shifted
<1>5. CASE c # Home
  <2>1. Locked' = Locked
    BY <1>1, <1>5 DEF Locked
  <2>2. Locked \in Int
    BY <1>1, <1>2, RatioAssumption DEF Locked
  <2>3. QED
    BY <1>3, <1>5, <2>1, <2>2 DEF Shifted
<1>6. QED
  BY <1>4, <1>5

\* Nothing the ledger sees.
Quiet == UNCHANGED <<Locked, Circulating, Sent, Received>>

LEMMA FundsKept ==
    ASSUME IInv, \A o \in Chain : Funds(side[o], side'[o], 0, 0)
    PROVE  Locked' = Locked /\ Circulating' = Circulating
<1>1. \A o \in Chain : /\ side[o].underlying[LockboxAddress] \in Int
                         /\ side[o].token.totalSupply \in Int
  BY RolesAssumption DEF IInv, TypeOK, Side, Token, Supply
<1>2. \A o \in Chain : /\ side'[o].underlying[LockboxAddress] = side[o].underlying[LockboxAddress]
                         /\ side'[o].token.totalSupply = side[o].token.totalSupply
  BY <1>1 DEF Funds
<1>3. QED
  BY <1>2, BridgeAssumption DEF Locked, Circulating

LEMMA SideStep ==
    ASSUME IInv, NEW c \in Chain, NEW u, SideOK(u), WellConfigured(u.pam),
           u.token.lockbox = side[c].token.lockbox,
           u.adapter.nonce = side[c].adapter.nonce,
           u.adapter.pastEvents = side[c].adapter.pastEvents,
           side' = [side EXCEPT ![c] = u], UNCHANGED <<logs, settlements>>
    PROVE  /\ IInv' /\ Sent' = Sent /\ Received' = Received
           /\ Funds(side[c], u, 0, 0) => Quiet
<1>1. side \in [Chain -> Side] /\ logs \subseteq Preimage
  BY DEF IInv, TypeOK
<1>2. \A o \in Chain : side'[o] = IF o = c THEN u ELSE side[o]
  BY <1>1
<1>3. u \in Side
  BY DEF SideOK
<1>4. side' \in [Chain -> Side] /\ SidesOK' /\ PamsTrusted'
  BY <1>1, <1>2, <1>3 DEF IInv, SidesOK, PamsTrusted
<1>5. Swaps' = Swaps /\ LogsHonest'
  BY DEF Swaps, IInv, LogsHonest
<1>6. IInv' /\ Sent' = Sent /\ Received' = Received
  BY <1>1, <1>2, <1>4, <1>5, QuietStep
<1>7. \A o \in Chain : /\ side[o].underlying[LockboxAddress] \in Int
                         /\ side[o].token.totalSupply \in Int
  BY <1>1, RolesAssumption DEF Side, Token, Supply
<1>8. Funds(side[c], u, 0, 0) => \A o \in Chain : Funds(side[o], side'[o], 0, 0)
  BY <1>2, <1>7 DEF Funds
<1>9. QED
  BY <1>6, <1>8, FundsKept DEF Quiet

LEMMA TokensStep ==
    ASSUME IInv, NEW c \in Chain, NEW u, SideOK(u), OnlyTokensDiffer(side[c], u),
           side' = [side EXCEPT ![c] = u], UNCHANGED <<logs, settlements>>
    PROVE  IInv' /\ Sent' = Sent /\ Received' = Received
BY SideStep DEF OnlyTokensDiffer, IInv, PamsTrusted

\* Tokens move, or limits or allowances change.
LEMMA TokenStep ==
    ASSUME IInv, NEW c \in Chain, NEW t, TokenOK(t), t.lockbox = side[c].token.lockbox,
           t.totalSupply = side[c].token.totalSupply,
           side' = [side EXCEPT ![c].token = t], UNCHANGED <<logs, settlements>>
    PROVE  IInv' /\ Quiet
<1> DEFINE u == [side[c] EXCEPT !.token = t]
<1>1. side' = [side EXCEPT ![c] = u]
  BY DEF IInv, TypeOK
<1>2. SideOK(side[c]) /\ WellConfigured(side[c].pam)
  BY DEF IInv, SidesOK, PamsTrusted
<1>3. SideOK(u) /\ OnlyTokensDiffer(side[c], u)
  BY <1>2, TokenReplaced
<1>4. Funds(side[c], u, 0, 0)
  BY <1>2, RolesAssumption DEF SideOK, Side, Token, Supply, Funds
<1> HIDE DEF u
<1>5. QED
  BY <1>1, <1>2, <1>3, <1>4, SideStep DEF OnlyTokensDiffer

\* The adapter's settings that no property depends on.
LEMMA AdapterStep ==
    ASSUME IInv, NEW c \in Chain, NEW a \in AdapterStorage,
           a.nonce = side[c].adapter.nonce, a.pastEvents = side[c].adapter.pastEvents,
           side' = [side EXCEPT ![c].adapter = a], UNCHANGED <<logs, settlements>>
    PROVE  IInv' /\ Quiet
<1> DEFINE u == [side[c] EXCEPT !.adapter = a]
<1>1. side' = [side EXCEPT ![c] = u]
  BY DEF IInv, TypeOK
<1>2. SideOK(side[c]) /\ WellConfigured(side[c].pam)
  BY DEF IInv, SidesOK, PamsTrusted
<1>3. SideOK(u) /\ u.adapter = a /\ u.pam = side[c].pam /\ u.token = side[c].token
  BY <1>2 DEF SideOK, TokenOK, Side
<1>4. Funds(side[c], u, 0, 0)
  BY <1>2, RolesAssumption DEF SideOK, Side, Token, Supply, Funds
<1> HIDE DEF u
<1>5. QED
  BY <1>1, <1>2, <1>3, <1>4, SideStep

LEMMA ConfigurationStep ==
    ASSUME IInv, NEW c \in Chain, NEW p, WellConfigured(p), PamStep(c, p)
    PROVE  IInv' /\ Quiet
<1> DEFINE u == [side[c] EXCEPT !.pam = p]
<1>1. side' = [side EXCEPT ![c] = u] /\ UNCHANGED <<logs, settlements>>
  BY DEF IInv, TypeOK, PamStep
<1>2. SideOK(side[c])
  BY DEF IInv, SidesOK
<1>3. SideOK(u) /\ u.adapter = side[c].adapter /\ u.pam = p /\ u.token = side[c].token
  BY <1>2 DEF SideOK, TokenOK, Side, WellConfigured
<1>4. Funds(side[c], u, 0, 0)
  BY <1>2, RolesAssumption DEF SideOK, Side, Token, Supply, Funds
<1> HIDE DEF u
<1>5. QED
  BY <1>1, <1>3, <1>4, SideStep

\* The calls of a PAM keep it well configured.
LEMMA PamCallsOK ==
    ASSUME NEW p, WellConfigured(p)
    PROVE  /\ \A key \in TeeKeys : WellConfigured(TeeSignerSet(p, key))
           /\ WellConfigured(NewTeeSignerApplied(p))
           /\ \A o \in Chain : \A e \in {EmitterOf[o], NoEmitter} :
                 WellConfigured(EmitterSet(p, o, e))
           /\ \A o \in Chain : WellConfigured(TopicZeroSet(p, o, SwapTopic))
           /\ WellConfigured(GraceElapsing(p))
<1>1. /\ p \in Pam /\ {p.teeAddress, p.teeAddressNew} \subseteq TeeKeys \cup {NoKey}
      /\ \A o \in Chain : /\ p.emitters[o] \in {EmitterOf[o], NoEmitter}
                           /\ p.chainIdToTopicZero[o] \in {SwapTopic, NoTopic}
  BY DEF WellConfigured
<1>2. ASSUME NEW key \in TeeKeys
      PROVE  WellConfigured(TeeSignerSet(p, key))
  <2>1. key \in KeyOrZero /\ GracePeriod \in 0 .. GracePeriod
    BY BridgeAssumption, GracePeriodAssumption DEF KeyOrZero
  <2>2. CASE p.teeAddress = NoKey
    BY <1>1, <2>1, <2>2 DEF TeeSignerSet, WellConfigured, Pam
  <2>3. CASE p.teeAddress # NoKey
    BY <1>1, <2>1, <2>3 DEF TeeSignerSet, WellConfigured, Pam
  <2>4. QED
    BY <2>2, <2>3
<1>3. WellConfigured(NewTeeSignerApplied(p))
  BY <1>1 DEF NewTeeSignerApplied, WellConfigured, Pam, KeyOrZero
<1>4. ASSUME NEW o \in Chain, NEW e \in {EmitterOf[o], NoEmitter}
      PROVE  WellConfigured(EmitterSet(p, o, e))
  <2> DEFINE emitters == [p.emitters EXCEPT ![o] = e]
  <2>1. /\ emitters \in [Chain -> Emitter \cup {NoEmitter}]
        /\ \A d \in Chain : emitters[d] \in {EmitterOf[d], NoEmitter}
    BY <1>1, BridgeAssumption DEF Pam
  <2>2. EmitterSet(p, o, e) = [p EXCEPT !.emitters = emitters]
    BY DEF EmitterSet
  <2> HIDE DEF emitters
  <2>3. QED
    BY <1>1, <2>1, <2>2 DEF WellConfigured, Pam
<1>5. ASSUME NEW o \in Chain
      PROVE  WellConfigured(TopicZeroSet(p, o, SwapTopic))
  <2> DEFINE topics == [p.chainIdToTopicZero EXCEPT ![o] = SwapTopic]
  <2>1. /\ topics \in [Chain -> Topic \cup {NoTopic}]
        /\ \A d \in Chain : topics[d] \in {SwapTopic, NoTopic}
    BY <1>1, BridgeAssumption DEF Pam
  <2>2. TopicZeroSet(p, o, SwapTopic) = [p EXCEPT !.chainIdToTopicZero = topics]
    BY DEF TopicZeroSet
  <2> HIDE DEF topics
  <2>3. QED
    BY <1>1, <2>1, <2>2 DEF WellConfigured, Pam
<1>6. WellConfigured(GraceElapsing(p))
  <2> DEFINE left == IF p.graceLeft = 0 THEN 0 ELSE p.graceLeft - 1
  <2>1. left \in 0 .. GracePeriod
    BY <1>1, GracePeriodAssumption DEF Pam
  <2>2. GraceElapsing(p) = [p EXCEPT !.graceLeft = left]
    BY DEF GraceElapsing
  <2> HIDE DEF left
  <2>3. QED
    BY <1>1, <2>1, <2>2 DEF WellConfigured, Pam
<1>7. QED
  BY <1>2, <1>3, <1>4, <1>5, <1>6

\* A swap takes the next number of its chain: to the ledger it sends the net
\* amount, after wrapping what was paid into the lockbox.
LEMMA SwapStep ==
    ASSUME IInv, NEW c \in Chain, NEW tx \in SwapTxs, NEW s \in Users, NEW r \in Recipients,
           NEW v \in Amounts, NEW d \in Destination, NEW p \in Payloads,
           side[c].adapter.nonce < MaxNonce,
           NEW u, NEW w \in Uint, NEW m \in Int, SwapLeaves(side[c], u, v, w, m),
           IF c = Home THEN w = m * ConversionRatio ELSE w = 0,
           side' = [side EXCEPT ![c] = u],
           logs' = logs \cup {SwapLog(c, tx, SwapContent(side[c], v, d, s, r, p))},
           settlements' = settlements
    PROVE  IInv' /\ Ledger!Next
<1> DEFINE content == SwapContent(side[c], v, d, s, r, p)
           l == SwapLog(c, tx, content)
           net == NetAmount(side[c], v)
<1>1. /\ side \in [Chain -> Side] /\ logs \subseteq Preimage
      /\ SideOK(side[c]) /\ WellConfigured(side[c].pam)
  BY DEF IInv, TypeOK, SidesOK, PamsTrusted
<1>2. /\ SideOK(u) /\ u.pam = side[c].pam /\ u.token.lockbox = side[c].token.lockbox
      /\ u.adapter = [side[c].adapter EXCEPT !.nonce = @ + 1]
      /\ NetAmount(side[c], v) \in Uint
  BY DEF SwapLeaves
<1>3. side[c].adapter \in AdapterStorage /\ side[c].adapter.nonce \in Nat
  BY <1>1 DEF SideOK, Side, AdapterStorage
<1>4. /\ u.adapter.nonce = side[c].adapter.nonce + 1
      /\ u.adapter.pastEvents = side[c].adapter.pastEvents
  BY <1>2, <1>3 DEF AdapterStorage
<1>5. /\ l.originChainId = c /\ l.emitter = EmitterOf[c] /\ l.topic0 = SwapTopic
      /\ l.content = content
      /\ content.nonce = side[c].adapter.nonce /\ content.amount = net
  BY DEF SwapLog, SwapContent
<1>6. l \in Preimage
  <2>1. s \in Address /\ r \in Address /\ p \in Data \cup {NoData} /\ tx \in Tx
    BY BridgeAssumption
  <2>2. content \in Content
    BY <1>2, <1>3, <2>1, Erc20Assumption DEF SwapContent, Content
  <2> HIDE DEF content
  <2>3. QED
    BY <2>1, <2>2, BridgeAssumption DEF SwapLog, Preimage
<1>7. logs' = logs \cup {l}
  OBVIOUS
<1> DEFINE t == OperationOf(l)
<1>8. /\ t \in Transfers
      /\ t.originChainId = c /\ t.nonce = content.nonce /\ t.amount = net
  <2>1. t = [tx |-> tx, originChainId |-> c, nonce |-> side[c].adapter.nonce,
             erc20 |-> Erc20, destinationChainId |-> d, amount |-> net, sender |-> s,
             recipient |-> r, data |-> p]
    BY DEF OperationOf, SwapLog, SwapContent
  <2>2. side[c].adapter.nonce \in 0 .. MaxNonce - 1
    BY <1>3, BridgeAssumption
  <2> HIDE DEF t, net, content
  <2>3. QED
    BY <1>2, <1>5, <2>1, <2>2 DEF Transfers, net
<1> HIDE DEF content, l, net
<1>9. Swaps' = Swaps \cup {l}
  BY <1>5, <1>7 DEF Swaps
<1>10. \A o \in Chain : side'[o] = IF o = c THEN u ELSE side[o]
  BY <1>1
<1>11. TypeOK' /\ IsFiniteSet(settlements') /\ IsFiniteSet(Swaps')
  <2>1. IsFiniteSet(Swaps \cup {l})
    BY FS_AddElement DEF IInv
  <2>2. QED
    BY <1>1, <1>2, <1>6, <1>7, <1>9, <2>1 DEF IInv, TypeOK, SideOK
<1>12. SidesOK' /\ PamsTrusted' /\ LogsHonest'
  <2>1. SidesOK' /\ PamsTrusted'
    BY <1>1, <1>2, <1>10 DEF IInv, SidesOK, PamsTrusted
  <2>2. LogsHonest'
    BY <1>5, <1>7 DEF IInv, LogsHonest
  <2>3. QED
    BY <2>1, <2>2
<1>13. \A e \in Swaps : /\ e.originChainId \in Chain
                        /\ e.content.nonce \in Nat
                        /\ e.content.nonce < side[e.originChainId].adapter.nonce
  BY <1>1 DEF IInv, SwapsNumbered, Swaps, Preimage, Content
<1>14. SwapsNumbered'
  <2>1. \A e \in Swaps' : e.content.nonce < side'[e.originChainId].adapter.nonce
    <3> SUFFICES ASSUME NEW e \in Swaps \cup {l}
                 PROVE  e.content.nonce < side'[e.originChainId].adapter.nonce
      BY <1>9
    <3>1. CASE e = l
      BY <1>3, <1>4, <1>5, <1>10, <3>1
    <3>2. CASE e \in Swaps /\ e.originChainId = c
      <4>1. e.content.nonce \in Nat /\ e.content.nonce < side[c].adapter.nonce
        BY <1>13, <3>2
      <4>2. side'[e.originChainId].adapter.nonce = side[c].adapter.nonce + 1
        BY <1>4, <1>10, <3>2
      <4>3. QED
        BY <1>3, <4>1, <4>2
    <3>3. CASE e \in Swaps /\ e.originChainId # c
      BY <1>10, <1>13, <3>3
    <3>4. QED
      BY <3>1, <3>2, <3>3
  <2>2. \A e \in Swaps : e.originChainId = c => e.content.nonce # content.nonce
    BY <1>3, <1>5, <1>13
  <2>3. QED
    BY <1>5, <1>9, <2>1, <2>2 DEF IInv, SwapsNumbered
<1>15. SettlementsBacked'
  <2>1. \A x \in settlements : x.chain \in Chain
    BY DEF IInv, TypeOK
  <2>2. \A x \in settlements, e \in Swaps : Pays(x, e) => Pays(x, e)'
    BY <1>4, <1>10, <2>1 DEF Pays
  <2>3. QED
    BY <1>9, <2>2 DEF IInv, SettlementsBacked
<1>16. IInv'
  BY <1>11, <1>12, <1>14, <1>15 DEF IInv
<1>17. Sent' = Sent \cup {t} /\ Received' = Received
  BY <1>9 DEF Sent, Received
<1>18. \A o \in Sent : Ledger!Id(o) # Ledger!Id(t)
  <2> SUFFICES ASSUME NEW k \in Swaps, Ledger!Id(OperationOf(k)) = Ledger!Id(t)
               PROVE  FALSE
    BY DEF Sent
  <2>1. k.originChainId = c /\ k.content.nonce = content.nonce
    BY <1>8 DEF Ledger!Id, OperationOf
  <2>2. QED
    BY <1>3, <1>5, <1>13, <2>1
<1>19. /\ Circulating[c] \in Int /\ Circulating[c] = side[c].token.totalSupply
       /\ w \in Int /\ net \in Int
  BY <1>1, <1>2, MaxUintAssumption DEF Circulating, SideOK, Side, Token, Supply, Uint, net
<1>20. net <= Circulating[c] + w
  BY <1>19 DEF SwapLeaves, net
<1>21. /\ Circulating' = [Circulating EXCEPT ![c] = @ + w - net]
       /\ Locked' = Locked + w
  <2> DEFINE n == w - net
             k == IF c = Home THEN m * ConversionRatio ELSE 0
  <2>1. Funds(side[c], u, n, m) /\ n \in Int /\ k = w
    BY <1>19 DEF SwapLeaves, net
  <2>2. Circulating[c] + n = Circulating[c] + w - net
    BY <1>19
  <2> HIDE DEF n
  <2>3. Shifted(c, n, k)
    BY <2>1, FundsMoved
  <2>4. QED
    BY <2>1, <2>2, <2>3 DEF Shifted
<1> HIDE DEF t
<1>22. Ledger!Send(t, w)
  BY <1>8, <1>17, <1>18, <1>20, <1>21 DEF Ledger!Send
<1>23. Ledger!Next
  BY <1>8, <1>22 DEF Ledger!Next
<1>24. QED
  BY <1>16, <1>23

\* What a well-configured PAM authorizes is a swap to its chain: whoever signed
\* it is the attestator, which signs only what was emitted, and whoever
\* emitted it is an adapter, as a swap.
LEMMA AuthorizedIsSwap ==
    ASSUME NEW p, WellConfigured(p), NEW c, NEW op \in Operation, NEW md \in Metadata,
           logs \subseteq Preimage, LogsHonest, IsAuthorized(p, c, op, md)
    PROVE  /\ md.preimage \in Swaps
           /\ md.preimage.content.destinationChainId = c
           /\ op = OperationOf(md.preimage)
<1>1. md.signer \in TeeKeys
  BY DEF IsAuthorized, WellConfigured
<1>2. md.preimage \in logs
  BY <1>1 DEF Metadata
<1>3. md.preimage.originChainId \in Chain
  BY <1>2 DEF Preimage
<1>4. /\ md.preimage.emitter = EmitterOf[md.preimage.originChainId]
      /\ md.preimage.topic0 \in {SwapTopic, NoTopic}
  BY <1>3 DEF IsAuthorized, WellConfigured
<1>5. md.preimage \in Swaps /\ md.preimage.content.destinationChainId = c
  BY <1>2, <1>4 DEF Swaps, LogsHonest, IsAuthorized, DoesContentMatchOperation
<1>6. op = OperationOf(md.preimage)
  BY DEF IsAuthorized, ContextChecks, DoesContentMatchOperation, OperationOf, Operation
<1>7. QED
  BY <1>5, <1>6

\* A settlement pays a swap that none has paid before.
LEMMA SettleStep ==
    ASSUME IInv, NEW c \in Chain, NEW op \in Operation,
           NEW md \in Metadata, Settle(c, op, md)
    PROVE  /\ IInv'
           /\ op \in Sent /\ op \notin Received
           /\ op.destinationChainId = c
           /\ Sent' = Sent /\ Received' = Received \cup {op}
<1> DEFINE pre == md.preimage
           u   == Settled(side[c], op, md)
           new == [chain |-> c, number |-> Cardinality(settlements), operation |-> op]
<1>1. /\ side \in [Chain -> Side] /\ logs \subseteq Preimage
      /\ SideOK(side[c]) /\ WellConfigured(side[c].pam) /\ IsFiniteSet(settlements)
      /\ LogsHonest
  BY DEF IInv, TypeOK, SidesOK, PamsTrusted
<1>2. /\ CanSettle(side[c], c, op, md) /\ side' = [side EXCEPT ![c] = u]
      /\ settlements' = settlements \cup {new} /\ logs' = logs
  BY DEF Settle
<1>3. /\ IsAuthorized(side[c].pam, c, op, md)
      /\ pre \notin side[c].adapter.pastEvents
  BY <1>2 DEF CanSettle
<1>4. pre \in Swaps /\ pre.content.destinationChainId = c /\ op = OperationOf(pre)
  BY <1>1, <1>3, AuthorizedIsSwap
<1>5. pre \in Preimage
  BY <1>1, <1>4 DEF Swaps
<1>6. /\ SideOK(u) /\ u.pam = side[c].pam /\ u.adapter.nonce = side[c].adapter.nonce
      /\ u.token.lockbox = side[c].token.lockbox
      /\ u.adapter.pastEvents = side[c].adapter.pastEvents \cup {pre}
  BY <1>1, <1>2, <1>5, SettledOK
<1> HIDE DEF u, pre
<1>7. \A o \in Chain : side'[o] = IF o = c THEN u ELSE side[o]
  BY <1>1, <1>2
<1>8. Cardinality(settlements) \in Nat
  BY <1>1, FS_CardinalityType
<1>9. TypeOK'
  BY <1>1, <1>2, <1>6, <1>8 DEF IInv, TypeOK, SideOK
<1>10. IsFiniteSet(settlements')
  BY <1>1, <1>2, FS_AddElement
<1>11. SidesOK' /\ PamsTrusted'
  BY <1>1, <1>6, <1>7 DEF IInv, SidesOK, PamsTrusted
<1>12. Swaps' = Swaps /\ LogsHonest'
  BY <1>1, <1>2 DEF Swaps, LogsHonest
<1>13. \A l \in Swaps : l.originChainId \in Chain
  BY <1>1 DEF Swaps, Preimage
<1>14. SwapsNumbered'
  BY <1>6, <1>7, <1>12, <1>13 DEF IInv, SwapsNumbered
<1>15. PICK n : n = new
  OBVIOUS
<1>16. n.chain = c /\ n.operation = op /\ settlements' = settlements \cup {n}
  BY <1>2, <1>15
<1>17. \A t \in settlements : t.operation # op
  <2> SUFFICES ASSUME NEW t \in settlements, t.operation = op PROVE FALSE
    OBVIOUS
  <2>1. PICK l \in Swaps : Pays(t, l)
    BY DEF IInv, SettlementsBacked
  <2>2. OperationOf(l) = OperationOf(pre)
    BY <1>4, <2>1 DEF Pays
  <2>3. l.originChainId = pre.originChainId /\ l.content.nonce = pre.content.nonce
    BY <2>2 DEF OperationOf
  <2>4. l = pre
    BY <1>4, <2>3 DEF IInv, SwapsNumbered
  <2>5. pre \in side[c].adapter.pastEvents
    BY <1>4, <2>1, <2>4 DEF Pays
  <2>6. QED
    BY <1>3, <2>5 DEF pre
<1>18. SettlementsBacked'
  <2>1. \A t \in settlements : t.chain \in Chain
    BY DEF IInv, TypeOK
  <2>2. \A t \in settlements, l \in Swaps : Pays(t, l) => Pays(t, l)'
    BY <1>6, <1>7, <2>1 DEF Pays
  <2>3. PICK l \in Swaps : l = pre
    BY <1>4
  <2>4. Pays(n, l)'
    BY <1>4, <1>6, <1>7, <1>16, <2>3 DEF Pays
  <2>5. \A t \in settlements' : \E m \in Swaps' : Pays(t, m)'
    BY <1>12, <1>16, <2>2, <2>4 DEF IInv, SettlementsBacked
  <2>6. \A t \in settlements : t.operation # n.operation
    BY <1>17, <1>16
  <2>7. \A s, t \in settlements' : s.operation = t.operation => s = t
    BY <1>16, <2>6 DEF IInv, SettlementsBacked
  <2>8. QED
    BY <2>5, <2>7 DEF SettlementsBacked
<1>19. IInv'
  BY <1>9, <1>10, <1>11, <1>12, <1>14, <1>18 DEF IInv
<1>20. op \in Sent /\ op \notin Received /\ op.destinationChainId = c
  BY <1>4, <1>17 DEF Sent, Received, OperationOf
<1>21. Sent' = Sent
  BY <1>12 DEF Sent
<1>22. Received' = Received \cup {op}
  BY <1>16 DEF Received
<1>23. QED
  BY <1>19, <1>20, <1>21, <1>22

-----------------------------------------------------------------------------
(***************************************************************************)
(* Every action of Next.                                                   *)
(***************************************************************************)

LEMMA ForeignLogStep ==
    ASSUME IInv, NEW log \in ForeignLogs, ForeignLog(log)
    PROVE  IInv' /\ Quiet
<1>1. /\ log \in Preimage
      /\ \/ log.emitter # EmitterOf[log.originChainId]
         \/ log.topic0 \notin {SwapTopic, NoTopic}
  BY BridgeAssumption
<1>2. logs' = logs \cup {log} /\ side' = side /\ settlements' = settlements
  BY DEF ForeignLog
<1>3. Swaps' = Swaps /\ logs' \subseteq Preimage /\ LogsHonest'
  BY <1>1, <1>2 DEF Swaps, IInv, TypeOK, LogsHonest
<1>4. side' \in [Chain -> Side] /\ SidesOK' /\ PamsTrusted'
  BY <1>2 DEF IInv, TypeOK, SidesOK, PamsTrusted
<1>5. Locked' = Locked /\ Circulating' = Circulating
  BY <1>2 DEF Locked, Circulating
<1>6. QED
  BY <1>2, <1>3, <1>4, <1>5, QuietStep DEF Quiet

LEMMA TickStep ==
    ASSUME IInv, Tick
    PROVE  IInv' /\ Quiet
<1>1. ASSUME NEW c \in Chain
      PROVE  /\ SideOK(side'[c]) /\ WellConfigured(side'[c].pam)
             /\ side'[c].adapter = side[c].adapter
             /\ side'[c].token.lockbox = LockboxOf(c)
             /\ Funds(side[c], side'[c], 0, 0)
  <2> DEFINE t == SecondPassed(side[c].token)
             p == GraceElapsing(side[c].pam)
  <2>1. /\ SideOK(side[c]) /\ WellConfigured(side[c].pam)
        /\ side[c].token.lockbox = LockboxOf(c)
    BY DEF IInv, SidesOK, PamsTrusted
  <2>2. TokenOK(t) /\ SameFunds(side[c].token, t) /\ WellConfigured(p)
    BY <2>1, SecondPassedOK, PamCallsOK DEF SideOK
  <2>3. side[c] \in Side /\ side'[c] = [side[c] EXCEPT !.token = t, !.pam = p]
    BY <2>1 DEF Tick, SideOK
  <2>4. t \in Token /\ p \in Pam
    BY <2>2 DEF TokenOK, WellConfigured
  <2> HIDE DEF t, p
  <2>5. /\ side'[c] \in Side /\ side'[c].token = t /\ side'[c].pam = p
        /\ side'[c].adapter = side[c].adapter /\ side'[c].underlying = side[c].underlying
    BY <2>3, <2>4 DEF Side
  <2>6. /\ side[c].token.totalSupply \in Int /\ side[c].underlying[LockboxAddress] \in Int
    BY <2>1, RolesAssumption DEF SideOK, Side, Token, Supply
  <2>7. QED
    BY <2>1, <2>2, <2>5, <2>6 DEF SideOK, SameFunds, Funds
<1>2. side' \in [Chain -> Side]
  <2>1. \A c \in Chain : side'[c] \in Side
    BY <1>1 DEF SideOK
  <2>2. QED
    BY <2>1 DEF Tick
<1>3. SidesOK' /\ PamsTrusted'
  BY <1>1 DEF SidesOK, PamsTrusted
<1>4. /\ Swaps' = Swaps /\ logs' \subseteq Preimage /\ LogsHonest'
      /\ settlements' = settlements
  BY DEF Tick, Swaps, IInv, TypeOK, LogsHonest
<1>5. QED
  BY <1>1, <1>2, <1>3, <1>4, QuietStep, FundsKept DEF Quiet

LEMMA ReturnStep ==
    ASSUME IInv, NEW c \in Chain, Return(c)
    PROVE  IInv' /\ Quiet
<1> DEFINE u == [side[c] EXCEPT !.calling = NoAddress]
<1>1. SideOK(side[c]) /\ WellConfigured(side[c].pam)
  BY DEF IInv, SidesOK, PamsTrusted
<1>2. side' = [side EXCEPT ![c] = u] /\ UNCHANGED <<logs, settlements>>
  BY DEF Return, IInv, TypeOK
<1>3. /\ SideOK(u) /\ u.pam = side[c].pam /\ u.adapter = side[c].adapter
      /\ u.token = side[c].token
  BY <1>1 DEF SideOK, TokenOK, Side, AddressOrZero
<1>4. Funds(side[c], u, 0, 0)
  BY <1>1, RolesAssumption DEF SideOK, Side, Token, Supply, Funds
<1> HIDE DEF u
<1>5. QED
  BY <1>1, <1>2, <1>3, <1>4, SideStep

\* What users move and wrap, and what they swap and what is settled.
LEMMA UserRanges ==
    /\ \A s \in Users : s \in Address
    /\ \A r \in Recipients : r \in Address
    /\ \A v \in Amounts : v \in Uint /\ v \in Nat
    /\ AdapterAddress \in Address
BY BridgeAssumption, RolesAssumption, MaxUintAssumption DEF Uint

LEMMA UserFacts == \A s \in Users : s # AdapterAddress /\ s # LockboxAddress
BY BridgeAssumption

\* Where the token has a lockbox, and what the division by the ratio loses.
LEMMA HomeHasLockbox ==
    ASSUME IInv, NEW c \in Chain
    PROVE  side[c].token.lockbox # NoAddress <=> c = Home
BY RolesAssumption, AddressAssumption DEF IInv, SidesOK, LockboxOf

LEMMA ReleasedWorth ==
    ASSUME NEW to, NEW v \in Uint
    PROVE  LET q == Released(to, v)
           IN  /\ q \in Nat /\ q * ConversionRatio \in Uint
               /\ Ledger!Releases(q * ConversionRatio, v)
               /\ (0 - q) * ConversionRatio = 0 - q * ConversionRatio
<1> DEFINE q == Released(to, v)
<1>1. v \in Nat /\ v <= MaxUint /\ ConversionRatio \in Nat \ {0}
  BY RatioAssumption, MaxUintAssumption DEF Uint
<1>2. q \in Nat /\ q * ConversionRatio <= v /\ (ConversionRatio = 1 => q \in {0, v})
  <2>1. CASE to = LockboxAddress
    BY <1>1, <2>1 DEF Released
  <2>2. CASE to # LockboxAddress
    BY <1>1, <2>2 DEF Released
  <2>3. QED
    BY <2>1, <2>2
<1> HIDE DEF q
<1>3. q * ConversionRatio \in Nat /\ (ConversionRatio = 1 => q * ConversionRatio \in {0, v})
  BY <1>1, <1>2
<1>4. (0 - q) * ConversionRatio = 0 - q * ConversionRatio
  BY <1>1, <1>2
<1>5. QED
  BY <1>1, <1>2, <1>3, <1>4, MaxUintAssumption DEF Uint, q, Ledger!Releases

LEMMA SwapXERC20Step ==
    ASSUME IInv, NEW c \in Chain, NEW tx \in SwapTxs, NEW s \in Users, NEW r \in Recipients,
           NEW v \in Amounts, NEW d \in Destination, NEW p \in Payloads,
           SwapXERC20(c, tx, s, v, d, r, p)
    PROVE  IInv' /\ Ledger!Next
<1> DEFINE u == SwappedXERC20(side[c], s, v)
<1>1. SideOK(side[c]) /\ CanSwapXERC20(side[c], s, v) /\ side[c].adapter.nonce < MaxNonce
  BY DEF IInv, SidesOK, SwapXERC20
<1> DEFINE z == 0
<1>2. SwapLeaves(side[c], u, v, z, z)
  BY <1>1, SwappedXERC20OK, UserRanges
<1>3. /\ side' = [side EXCEPT ![c] = u]
      /\ logs' = logs \cup {SwapLog(c, tx, SwapContent(side[c], v, d, s, r, p))}
      /\ settlements' = settlements
  BY DEF SwapXERC20
<1>4. z \in Uint /\ z \in Int /\ IF c = Home THEN z = z * ConversionRatio ELSE z = 0
  BY MaxUintAssumption, RatioAssumption DEF Uint
<1> HIDE DEF u, z
<1>5. QED
  BY <1>1, <1>2, <1>3, <1>4, SwapStep

LEMMA SwapERC20Step ==
    ASSUME IInv, NEW c \in Chain, NEW tx \in SwapTxs, NEW s \in Users, NEW r \in Recipients,
           NEW v \in Amounts, NEW d \in Destination, NEW p \in Payloads,
           SwapERC20(c, tx, s, v, d, r, p)
    PROVE  IInv' /\ Ledger!Next
<1> DEFINE u == SwappedERC20(side[c], s, v)
           w == WrappedBySwap(side[c], v)
           m == PaidBySwap(side[c], v)
<1>1. SideOK(side[c]) /\ CanSwapERC20(side[c], s, v) /\ side[c].adapter.nonce < MaxNonce
  BY DEF IInv, SidesOK, SwapERC20
<1>2. SwapLeaves(side[c], u, v, w, m) /\ w \in Uint
  BY <1>1, SwappedERC20OK, UserRanges, UserFacts
<1>3. /\ side' = [side EXCEPT ![c] = u]
      /\ logs' = logs \cup {SwapLog(c, tx, SwapContent(side[c], v, d, s, r, p))}
      /\ settlements' = settlements
  BY DEF SwapERC20
<1>4. m \in Int /\ IF c = Home THEN w = m * ConversionRatio ELSE w = 0
  BY HomeHasLockbox, UserRanges DEF WrappedBySwap, PaidBySwap
<1> HIDE DEF u, w, m
<1>5. QED
  BY <1>1, <1>2, <1>3, <1>4, SwapStep

\* To the ledger, a settlement receives the transfer: on the home chain by
\* releasing collateral, elsewhere, or if the amount is zero, by issuing it.
LEMMA ReceiveStep ==
    ASSUME IInv, NEW c \in Chain, NEW op \in Operation,
           NEW md \in Metadata, md.preimage \in Preimage, Settle(c, op, md)
    PROVE  IInv' /\ Ledger!Next
<1> DEFINE u == Settled(side[c], op, md)
           n == op.amount
           q == Released(op.recipient, n)
<1>1. /\ IInv' /\ op \in Sent /\ op \notin Received /\ op.destinationChainId = c
      /\ Sent' = Sent /\ Received' = Received \cup {op}
  BY SettleStep
<1>2. SideOK(side[c]) /\ CanSettle(side[c], c, op, md) /\ side' = [side EXCEPT ![c] = u]
  BY DEF Settle, IInv, SidesOK
<1>3. IF n # 0 /\ side[c].token.lockbox # NoAddress
      THEN Funds(side[c], u, 0, 0 - q) ELSE Funds(side[c], u, n, 0)
  BY <1>2, SettledOK
<1>4. n \in Uint /\ n \in Int
  BY MaxUintAssumption DEF Operation, Uint
<1>5. op \in Ledger!InFlight
  BY <1>1 DEF Ledger!InFlight
<1>6. /\ Circulating \in [Chain -> Int] /\ Locked \in Int /\ Home \in Chain
  BY RolesAssumption, RatioAssumption, BridgeAssumption
     DEF IInv, TypeOK, Side, Token, Supply, Circulating, Locked
<1> HIDE DEF u
<1>7. CASE n # 0 /\ c = Home
  <2>1. /\ q \in Nat /\ q * ConversionRatio \in Uint
        /\ Ledger!Releases(q * ConversionRatio, n)
        /\ (0 - q) * ConversionRatio = 0 - q * ConversionRatio
    BY <1>4, ReleasedWorth
  <2> DEFINE i == 0
             m == 0 - q
             k == m * ConversionRatio
  <2>2. Funds(side[c], u, i, m) /\ i \in Int /\ m \in Int
    BY <1>3, <1>7, <2>1, HomeHasLockbox
  <2>3. k = 0 - q * ConversionRatio /\ q * ConversionRatio \in Int
    BY <2>1, MaxUintAssumption DEF Uint
  <2> HIDE DEF q
  <2>4. Shifted(c, i, k)
    <3> HIDE DEF i, m
    <3>1. QED
      BY <1>2, <1>7, <2>2, FundsMoved
  <2> HIDE DEF k
  <2>5. Circulating' = Circulating /\ Locked' = Locked - q * ConversionRatio
    BY <1>6, <2>3, <2>4 DEF Shifted
  <2>6. Ledger!ReceiveUnwrapped(op, q * ConversionRatio)
    BY <1>1, <1>5, <1>7, <2>1, <2>5 DEF Ledger!ReceiveUnwrapped, n
  <2>7. Ledger!Next
    BY <1>5, <2>1, <2>6 DEF Ledger!Next
  <2>8. QED
    BY <1>1, <2>7
<1>8. CASE n = 0 \/ c # Home
  <2> DEFINE k == 0
  <2>1. Funds(side[c], u, n, k) /\ k \in Int
    BY <1>3, <1>8, HomeHasLockbox
  <2>2. k = IF c = Home THEN k * ConversionRatio ELSE 0
    BY RatioAssumption
  <2>3. Shifted(c, n, k)
    <3> HIDE DEF n, k
    <3>1. QED
      BY <1>2, <1>4, <2>1, <2>2, FundsMoved
  <2>4. Ledger!Receive(op)
    BY <1>1, <1>5, <1>6, <2>3 DEF Ledger!Receive, Shifted
  <2>5. Ledger!Next
    BY <1>5, <2>4 DEF Ledger!Next
  <2>6. QED
    BY <1>1, <2>5
<1>9. QED
  BY <1>7, <1>8

LEMMA SwapOrSettleStep ==
    ASSUME IInv, SwapOrSettle
    PROVE  IInv' /\ (Ledger!Next \/ Quiet)
<1>1. ASSUME NEW c \in Chain, NEW md \in Metadata, NEW op \in Operation, Settle(c, op, md)
      PROVE  IInv' /\ Ledger!Next
  <2>1. md.preimage \in Preimage
    BY BridgeAssumption DEF Metadata, IInv, TypeOK
  <2>2. QED
    BY <1>1, <2>1, ReceiveStep
<1>2. QED
  BY <1>1, SwapXERC20Step, SwapERC20Step, ReturnStep DEF SwapOrSettle

LEMMA DepositStep ==
    ASSUME IInv, NEW c \in Chain, NEW s \in Users, NEW r \in Address, NEW v \in Amounts,
           Deposit(c, s, r, v)
    PROVE  IInv' /\ Ledger!Next
<1> DEFINE u == Deposited(side[c], s, r, v)
           w == v * ConversionRatio
<1>1. SideOK(side[c]) /\ WellConfigured(side[c].pam) /\ CanDeposit(side[c], s, r, v) /\ c = Home
  BY HomeHasLockbox DEF IInv, SidesOK, PamsTrusted, Deposit
<1>2. v \in Nat /\ s \in Address /\ s # LockboxAddress
  BY UserRanges, UserFacts
<1>3. SideOK(u) /\ OnlyTokensDiffer(side[c], u) /\ Funds(side[c], u, w, v) /\ w \in Uint
  BY <1>1, <1>2, DepositedOK
<1>4. side' = [side EXCEPT ![c] = u] /\ UNCHANGED <<logs, settlements>>
  BY DEF Deposit
<1> HIDE DEF u
<1>5. IInv' /\ Sent' = Sent /\ Received' = Received
  BY <1>3, <1>4, TokensStep
<1>6. w \in Int
  BY <1>3, MaxUintAssumption DEF Uint
<1>7. Circulating' = [Circulating EXCEPT ![Home] = @ + w] /\ Locked' = Locked + w
  <2>1. Funds(side[c], u, w, v) /\ w \in Int /\ v \in Int
    BY <1>2, <1>3, <1>6
  <2>2. w = IF c = Home THEN v * ConversionRatio ELSE 0
    BY <1>1
  <2> HIDE DEF w
  <2>3. Shifted(c, w, w)
    BY <1>4, <2>1, <2>2, FundsMoved
  <2>4. QED
    BY <1>1, <2>3 DEF Shifted
<1> HIDE DEF w
<1>8. Ledger!Wrap(w)
  BY <1>5, <1>7 DEF Ledger!Wrap
<1>9. QED
  BY <1>3, <1>5, <1>8 DEF Ledger!Next

LEMMA WithdrawStep ==
    ASSUME IInv, NEW c \in Chain, NEW s \in Users, NEW r \in Recipients, NEW v \in Amounts,
           Withdraw(c, s, r, v)
    PROVE  IInv' /\ Ledger!Next
<1> DEFINE u == Withdrawn(side[c], s, r, v)
           q == Released(r, v)
<1>1. SideOK(side[c]) /\ CanWithdraw(side[c], s, r, v) /\ c = Home
  BY HomeHasLockbox DEF IInv, SidesOK, Withdraw
<1>2. v \in Nat /\ v \in Uint /\ s \in Address /\ r \in Address
  BY UserRanges
<1>3. /\ SideOK(u) /\ OnlyTokensDiffer(side[c], u) /\ Funds(side[c], u, 0 - v, 0 - q)
      /\ v <= side[c].token.totalSupply
  BY <1>1, <1>2, WithdrawnOK
<1>4. side' = [side EXCEPT ![c] = u] /\ UNCHANGED <<logs, settlements>>
  BY DEF Withdraw
<1> HIDE DEF u
<1>5. IInv' /\ Sent' = Sent /\ Received' = Received
  BY <1>3, <1>4, TokensStep
<1>6. /\ q \in Nat /\ q * ConversionRatio \in Uint /\ Ledger!Releases(q * ConversionRatio, v)
      /\ (0 - q) * ConversionRatio = 0 - q * ConversionRatio
  BY <1>2, ReleasedWorth
<1> HIDE DEF q
<1>7. /\ Circulating \in [Chain -> Int] /\ Locked \in Int
      /\ Circulating[c] = side[c].token.totalSupply
  BY RolesAssumption, RatioAssumption, BridgeAssumption
     DEF IInv, TypeOK, Side, Token, Supply, Circulating, Locked
<1>8. /\ Circulating' = [Circulating EXCEPT ![Home] = @ - v]
      /\ Locked' = Locked - q * ConversionRatio
  <2> DEFINE n == 0 - v
             m == 0 - q
             k == m * ConversionRatio
  <2>1. /\ Funds(side[c], u, n, m) /\ n \in Int /\ m \in Int
        /\ k = IF c = Home THEN m * ConversionRatio ELSE 0
    BY <1>1, <1>2, <1>3, <1>6
  <2>2. /\ k = 0 - q * ConversionRatio /\ q * ConversionRatio \in Int
        /\ Circulating[c] + n = Circulating[c] - v
    BY <1>2, <1>6, <1>7, MaxUintAssumption DEF Uint
  <2>3. Shifted(c, n, k)
    <3> HIDE DEF n, m, k
    <3>1. QED
      BY <1>4, <2>1, FundsMoved
  <2> DEFINE y == q * ConversionRatio
  <2>4. y \in Int /\ k = 0 - y
    BY <2>2
  <2> HIDE DEF n, k, y
  <2>5. Locked' = Locked - y
    BY <1>7, <2>3, <2>4 DEF Shifted
  <2>6. Circulating' = [Circulating EXCEPT ![Home] = @ - v]
    BY <1>1, <2>2, <2>3 DEF Shifted
  <2>7. QED
    BY <2>5, <2>6 DEF y
<1>9. Ledger!Unwrap(v, q * ConversionRatio)
  BY <1>1, <1>3, <1>5, <1>6, <1>7, <1>8 DEF Ledger!Unwrap
<1>10. QED
  BY <1>2, <1>5, <1>6, <1>9 DEF Ledger!Next

\* Underlying tokens paid to the lockbox of the home chain are a donation, and
\* to anybody else nothing to the ledger.
LEMMA TransferERC20Step ==
    ASSUME IInv, NEW c \in Chain, NEW s \in Users, NEW r \in Recipients, NEW v \in Amounts,
           TransferERC20(c, s, r, v)
    PROVE  IInv' /\ (Ledger!Next \/ Quiet)
<1> DEFINE p == Paid(side[c].underlying, s, r, v)
           u == [side[c] EXCEPT !.underlying = p]
<1>1. /\ side \in [Chain -> Side] /\ SideOK(side[c]) /\ side[c].underlying \in [Address -> Nat]
      /\ LockboxAddress \in Address /\ side[c].underlying[s] >= v
  BY RolesAssumption DEF IInv, TypeOK, SidesOK, SideOK, Side, TransferERC20
<1>2. v \in Nat /\ s \in Address /\ r \in Address /\ s # LockboxAddress
  BY UserRanges, UserFacts
<1> DEFINE m == IF r = LockboxAddress THEN v ELSE 0
           k == IF c = Home THEN m * ConversionRatio ELSE 0
<1>3. /\ p \in [Address -> Nat] /\ m \in Nat
      /\ p[LockboxAddress] = side[c].underlying[LockboxAddress] + m
  BY <1>1, <1>2, PaidType
<1>4. side' = [side EXCEPT ![c] = u] /\ UNCHANGED <<logs, settlements>>
  BY <1>1 DEF TransferERC20
<1>5. k \in Nat
  BY <1>3, RatioAssumption
<1> HIDE DEF p, m, k
<1>6. /\ SideOK(u) /\ OnlyTokensDiffer(side[c], u)
      /\ u.token = side[c].token /\ u.underlying = p
  BY <1>1, <1>3 DEF SideOK, TokenOK, Side, OnlyTokensDiffer
<1>7. side[c].token.totalSupply \in Int /\ side[c].underlying[LockboxAddress] \in Int
  BY <1>1 DEF SideOK, TokenOK, Token, Supply
<1> DEFINE z == 0
<1>8. Funds(side[c], u, z, m) /\ z \in Int /\ m \in Int
  BY <1>3, <1>6, <1>7 DEF Funds
<1>9. k = IF c = Home THEN m * ConversionRatio ELSE 0
  BY DEF k
<1>10. IInv' /\ Sent' = Sent /\ Received' = Received
  <2> HIDE DEF u
  <2>1. QED
    BY <1>4, <1>6, TokensStep
<1>11. Shifted(c, z, k)
  <2> HIDE DEF u, z
  <2>1. QED
    BY <1>4, <1>8, <1>9, FundsMoved
<1>12. Circulating \in [Chain -> Int] /\ Locked \in Int
  BY RolesAssumption, RatioAssumption, BridgeAssumption
     DEF IInv, TypeOK, Side, Token, Supply, Circulating, Locked
<1>13. Circulating' = Circulating /\ Locked' = Locked + k
  BY <1>11, <1>12 DEF Shifted
<1>14. CASE k = 0
  BY <1>10, <1>12, <1>13, <1>14 DEF Quiet
<1>15. CASE k # 0
  <2>1. Ledger!Donate
    BY <1>5, <1>10, <1>12, <1>13, <1>15 DEF Ledger!Donate
  <2>2. QED
    BY <1>10, <2>1 DEF Ledger!Next
<1>16. QED
  BY <1>14, <1>15

LEMMA AroundStep ==
    ASSUME IInv, Around
    PROVE  IInv' /\ (Ledger!Next \/ Quiet)
<1>1. ASSUME NEW c \in Chain, NEW s \in Users, NEW r \in Address, NEW v \in Amounts,
             Transfer(c, s, r, v)
      PROVE  IInv' /\ Quiet
  <2> DEFINE t == Moved(side[c].token, s, r, v)
  <2>1. TokenOK(side[c].token) /\ CanTransfer(side[c].token, s, r, v)
    BY <1>1 DEF IInv, SidesOK, SideOK, Transfer
  <2>2. TokenOK(t) /\ t.totalSupply = side[c].token.totalSupply
                   /\ t.lockbox = side[c].token.lockbox
    <3>1. s \in Address /\ v \in Nat /\ side[c].token \in Token
      BY <2>1, UserRanges DEF TokenOK
    <3>2. QED
      BY <2>1, <3>1, MovedOK, MovedSum DEF TokenOK
  <2>3. side' = [side EXCEPT ![c].token = t] /\ UNCHANGED <<logs, settlements>>
    BY <1>1 DEF Transfer, IInv, TypeOK
  <2> HIDE DEF t
  <2>4. QED
    BY <2>2, <2>3, TokenStep
<1>2. ASSUME NEW c \in Chain, NEW s \in Users, NEW r \in Recipients, NEW v \in Amounts,
             Deposit(c, s, r, v) \/ Deposit(c, s, AdapterAddress, v) \/ Withdraw(c, s, r, v)
      PROVE  IInv' /\ Ledger!Next
  BY <1>2, DepositStep, WithdrawStep, UserRanges
<1>3. QED
  BY <1>1, <1>2, TransferERC20Step, ForeignLogStep, TickStep DEF Around

LEMMA AdministerStep ==
    ASSUME IInv, Administer
    PROVE  IInv' /\ Quiet
<1>1. ASSUME NEW c \in Chain, NEW m \in Limits, NEW n \in Limits, SetLimits(c, m, n)
      PROVE  IInv' /\ Quiet
  <2> DEFINE t == LimitsSet(side[c].token, AdapterAddress, m, n)
  <2>1. TokenOK(side[c].token) /\ m \in Uint /\ n \in Uint
    BY BridgeAssumption DEF IInv, SidesOK, SideOK
  <2>2. TokenOK(t) /\ SameFunds(side[c].token, t)
    BY <2>1, LimitsSetOK, UserRanges
  <2>3. side' = [side EXCEPT ![c].token = t] /\ UNCHANGED <<logs, settlements>>
    BY <1>1 DEF SetLimits, IInv, TypeOK
  <2> HIDE DEF t
  <2>4. QED
    BY <2>2, <2>3, TokenStep DEF SameFunds
<1>2. ASSUME NEW c \in Chain, NEW fee \in MinFees, SetMinFee(c, fee)
      PROVE  IInv' /\ Quiet
  <2> DEFINE a == [side[c].adapter EXCEPT !.minFee = fee]
  <2>1. side[c].adapter \in AdapterStorage /\ fee \in Uint
    BY BridgeAssumption DEF IInv, SidesOK, SideOK, Side
  <2>2. /\ a \in AdapterStorage
        /\ a.nonce = side[c].adapter.nonce /\ a.pastEvents = side[c].adapter.pastEvents
    BY <2>1 DEF AdapterStorage
  <2>3. side' = [side EXCEPT ![c].adapter = a] /\ UNCHANGED <<logs, settlements>>
    BY <1>2 DEF SetMinFee, IInv, TypeOK
  <2> HIDE DEF a
  <2>4. QED
    BY <2>2, <2>3, AdapterStep
<1>3. ASSUME NEW c \in Chain, NEW m \in FeesManagers, SetFeesManager(c, m)
      PROVE  IInv' /\ Quiet
  <2> DEFINE a == [side[c].adapter EXCEPT !.feesManager = m]
  <2>1. side[c].adapter \in AdapterStorage /\ m \in Address
    BY BridgeAssumption DEF IInv, SidesOK, SideOK, Side
  <2>2. /\ a \in AdapterStorage
        /\ a.nonce = side[c].adapter.nonce /\ a.pastEvents = side[c].adapter.pastEvents
    BY <2>1 DEF AdapterStorage
  <2>3. side' = [side EXCEPT ![c].adapter = a] /\ UNCHANGED <<logs, settlements>>
    BY <1>3 DEF SetFeesManager, IInv, TypeOK
  <2> HIDE DEF a
  <2>4. QED
    BY <2>2, <2>3, AdapterStep
<1>4. ASSUME NEW c \in Chain, \E key \in Signers : SetTeeSigner(c, key)
      PROVE  IInv' /\ Quiet
  <2>1. PICK key \in Signers : PamStep(c, TeeSignerSet(side[c].pam, key))
    BY <1>4 DEF SetTeeSigner
  <2>2. WellConfigured(TeeSignerSet(side[c].pam, key))
    BY BridgeAssumption, PamCallsOK DEF IInv, PamsTrusted
  <2>3. QED
    BY <2>1, <2>2, ConfigurationStep
<1>5. ASSUME NEW c \in Chain, ApplyNewTeeSigner(c)
      PROVE  IInv' /\ Quiet
  <2>1. WellConfigured(NewTeeSignerApplied(side[c].pam))
    BY PamCallsOK DEF IInv, PamsTrusted
  <2>2. QED
    BY <1>5, <2>1, ConfigurationStep DEF ApplyNewTeeSigner
<1>6. ASSUME NEW c \in Chain, NEW p \in NewPams, SetPAM(c, p)
      PROVE  IInv' /\ Quiet
  BY <1>6, BridgeAssumption, ConfigurationStep DEF SetPAM
<1>7. ASSUME NEW c \in Chain, NEW o \in Chain,
             SetEmitter(c, o) \/ UnsetEmitter(c, o) \/ SetTopicZero(c, o)
      PROVE  IInv' /\ Quiet
  <2>1. /\ WellConfigured(EmitterSet(side[c].pam, o, EmitterOf[o]))
        /\ WellConfigured(EmitterSet(side[c].pam, o, NoEmitter))
        /\ WellConfigured(TopicZeroSet(side[c].pam, o, SwapTopic))
    BY PamCallsOK DEF IInv, PamsTrusted
  <2>2. QED
    BY <1>7, <2>1, ConfigurationStep DEF SetEmitter, UnsetEmitter, SetTopicZero
<1>8. QED
  BY <1>1, <1>2, <1>3, <1>4, <1>5, <1>6, <1>7 DEF Administer

\* Every step keeps the invariant, and is a step of the ledger or none.
LEMMA StepIInv == IInv /\ [Next]_vars => IInv' /\ [Ledger!Next]_(Ledger!vars)
<1> SUFFICES ASSUME IInv, [Next]_vars PROVE IInv' /\ [Ledger!Next]_(Ledger!vars)
  OBVIOUS
<1>1. CASE Next
  BY <1>1, SwapOrSettleStep, AroundStep, AdministerStep DEF Next, Quiet, Ledger!vars
<1>2. CASE UNCHANGED vars
  <2>1. side' = side /\ logs' = logs /\ settlements' = settlements
    BY <1>2 DEF vars
  <2>2. side' \in [Chain -> Side] /\ SidesOK' /\ PamsTrusted' /\ logs' \subseteq Preimage
    BY <2>1 DEF IInv, TypeOK, SidesOK, PamsTrusted
  <2>3. Swaps' = Swaps /\ LogsHonest'
    BY <2>1 DEF Swaps, IInv, LogsHonest
  <2>4. Locked' = Locked /\ Circulating' = Circulating
    BY <2>1 DEF Locked, Circulating
  <2>5. QED
    BY <2>1, <2>2, <2>3, <2>4, QuietStep DEF Ledger!vars
<1>3. QED
  BY <1>1, <1>2

LEMMA BridgeInvariant == Spec => []IInv
BY InitIInv, StepIInv, PTL DEF Spec

-----------------------------------------------------------------------------
(***************************************************************************)
(* What the invariant is for.                                              *)
(***************************************************************************)

\* Balances, limits, fees, signers and events stay what their types say, over
\* all chains: no admitted call leaves a balance negative or a bucket out of
\* its range (XERC20.sol, Adapter.sol, PAM.sol).
THEOREM BridgeTypeCorrect == Spec => []TypeOK
<1>1. IInv => TypeOK
  BY DEF IInv
<1>2. QED
  BY <1>1, BridgeInvariant, PTL

\* However many chains, swaps, relayers and owners' calls there are, and in
\* whatever order they come: the number of a swap is paid out at most once,
\* on one chain (Adapter.settle with its pastEvents and nonce).
THEOREM SettledOnceSafety == Spec => []SettledOnce
<1>1. IInv => SettledOnce
  <2> SUFFICES ASSUME IInv, NEW s \in settlements, NEW t \in settlements,
                      s.operation.originChainId = t.operation.originChainId,
                      s.operation.nonce = t.operation.nonce
               PROVE  s = t
    BY DEF SettledOnce
  <2>1. PICK l \in Swaps : Pays(s, l)
    BY DEF IInv, SettlementsBacked
  <2>2. PICK m \in Swaps : Pays(t, m)
    BY DEF IInv, SettlementsBacked
  <2>3. l.originChainId = m.originChainId /\ l.content.nonce = m.content.nonce
    BY <2>1, <2>2 DEF Pays, OperationOf
  <2>4. l = m
    BY <2>3 DEF IInv, SwapsNumbered
  <2>5. QED
    BY <2>1, <2>2, <2>4 DEF Pays, IInv, SettlementsBacked
<1>2. QED
  BY <1>1, BridgeInvariant, PTL

\* What an adapter pays out, an adapter of the bridge has taken, for that
\* recipient, in that amount and for that chain, whatever the owners configure
\* within the bridge (PAM.isAuthorized, Adapter._finalizeSwap).
THEOREM SettledAsSwappedSafety == Spec => []SettledAsSwapped
<1>1. IInv => SettledAsSwapped
  <2> SUFFICES ASSUME IInv, NEW s \in settlements
               PROVE  /\ s.operation \in {OperationOf(l) : l \in Swaps}
                      /\ s.operation.destinationChainId = s.chain
    BY DEF SettledAsSwapped
  <2>1. PICK l \in Swaps : Pays(s, l)
    BY DEF IInv, SettlementsBacked
  <2>2. OperationOf(l).destinationChainId = l.content.destinationChainId
    BY DEF OperationOf
  <2>3. QED
    BY <2>1, <2>2 DEF Pays
<1>2. QED
  BY <1>1, BridgeInvariant, PTL

-----------------------------------------------------------------------------
(***************************************************************************)
(* The bridge is a ledger of value.                                        *)
(***************************************************************************)

LEMMA InitLedger == Init => Ledger!Init
<1> SUFFICES ASSUME Init PROVE Ledger!Init
  OBVIOUS
<1>1. PICK f \in FeesManagers : side = [c \in Chain |-> Deployed(c, f)]
  BY DEF Init
<1>2. Sent = {} /\ Received = {}
  BY DEF Init, Sent, Received, Swaps
<1>3. \A c \in Chain : side[c].token.totalSupply = 0
  BY <1>1, DeployedTokenOK DEF Deployed
<1>4. Circulating = [c \in Chain |-> 0]
  BY <1>3 DEF Circulating
<1>5. side[Home].underlying[LockboxAddress] = 0
  BY <1>1, BridgeAssumption, RolesAssumption DEF Deployed
<1>6. Locked = 0
  BY <1>5, RatioAssumption DEF Locked
<1>7. QED
  BY <1>2, <1>4, <1>6 DEF Ledger!Init

\* The contracts of all chains implement the ledger: a swap takes its amount
\* out of circulation on its chain under a number nobody used before, a settle
\* brings it back at most once, on the chain it names, and only the lockbox
\* creates and redeems, for its whole worth at 18 decimals and never for more.
\* What is paid to the lockbox, by a transfer of the underlying token, a
\* withdrawal or a settlement, adds to the collateral and gives no claim
\* (Adapter.sol, XERC20Lockbox.sol, XERC20.sol).
THEOREM LedgerRefinement == Spec => ImplementsLedger
BY InitIInv, InitLedger, StepIInv, PTL DEF Spec, ImplementsLedger, Ledger!Spec

-----------------------------------------------------------------------------
(***************************************************************************)
(* The collateral covers all claims.                                       *)
(***************************************************************************)

\* The ledger's sums are those of SumProofs.
LEMMA LedgerSum ==
    ASSUME NEW f, NEW S
    PROVE  Ledger!SumFunctionOnSet(f, S) = SumFunctionOnSet(f, S)
BY DEF SumFunctionOnSet, FoldFunctionOnSet, MapThenFoldSet,
       Ledger!SumFunctionOnSet, Ledger!FoldFunctionOnSet, Ledger!MapThenFoldSet

Worth(T) == SumFunctionOnSet([t \in T |-> t.amount], T)

LEMMA WorthAdded ==
    ASSUME NEW T, IsFiniteSet(T), NEW t, t \notin T, \A x \in T \cup {t} : x.amount \in Int
    PROVE  Worth(T \cup {t}) = Worth(T) + t.amount
<1> DEFINE f == [x \in T |-> x.amount]
           g == [x \in T \cup {t} |-> x.amount]
<1>1. /\ \A x \in T \cup {t} : g[x] \in Int
      /\ \A x \in T : f[x] = g[x]
      /\ g[t] = t.amount
  OBVIOUS
<1> HIDE DEF f, g
<1>2. SumFunctionOnSet(g, T \cup {t}) = SumFunctionOnSet(g, T) + g[t]
  BY <1>1, SumAdd
<1>3. SumFunctionOnSet(f, T) = SumFunctionOnSet(g, T)
  BY <1>1, SumSame
<1>4. QED
  BY <1>1, <1>2, <1>3 DEF Worth, f, g

LEMMA WorthIsInt ==
    ASSUME NEW T, IsFiniteSet(T), \A x \in T : x.amount \in Int
    PROVE  Worth(T) \in Int
<1> DEFINE f == [x \in T |-> x.amount]
<1>1. \A x \in T : f[x] \in Int
  OBVIOUS
<1> HIDE DEF f
<1>2. SumFunctionOnSet(f, T) \in Int
  BY <1>1, SumIsInt
<1>3. QED
  BY <1>2 DEF Worth, f

LEMMA WorthRemoved ==
    ASSUME NEW T, IsFiniteSet(T), NEW t \in T, \A x \in T : x.amount \in Int
    PROVE  Worth(T \ {t}) = Worth(T) - t.amount
<1> DEFINE R == T \ {t}
<1>1. IsFiniteSet(R) /\ t \notin R /\ R \cup {t} = T
  BY FS_RemoveElement
<1>2. \A x \in R \cup {t} : x.amount \in Int
  BY <1>1
<1> HIDE DEF R
<1>3. Worth(R) \in Int /\ t.amount \in Int
  BY <1>1, <1>2, WorthIsInt
<1>4. Worth(R \cup {t}) = Worth(R) + t.amount
  BY <1>1, <1>2, WorthAdded
<1>5. Worth(T) = Worth(R) + t.amount
  BY <1>1, <1>4
<1>6. Worth(R) = Worth(T) - t.amount
  BY <1>3, <1>5
<1>7. QED
  BY <1>6 DEF R

\* What the ledger's steps meet.
LedgerSane ==
    /\ Circulating \in [Chain -> Int] /\ Locked \in Int
    /\ IsFiniteSet(Sent) /\ \A t \in Sent : t.amount \in Int
    /\ Received \subseteq Sent

LEMMA IInvLedgerSane == IInv => LedgerSane
<1> SUFFICES ASSUME IInv PROVE LedgerSane
  OBVIOUS
<1>1. Circulating \in [Chain -> Int] /\ Locked \in Int
  BY RolesAssumption, RatioAssumption, BridgeAssumption
     DEF IInv, TypeOK, Side, Token, Supply, Circulating, Locked
<1>2. IsFiniteSet(Sent)
  <2> DEFINE f == [l \in Swaps |-> OperationOf(l)]
  <2>1. f \in Surjection(Swaps, Sent)
    BY DEF Surjection, Sent
  <2>2. QED
    BY <2>1, FS_Surjection DEF IInv
<1>3. \A t \in Sent : t.amount \in Int
  BY MaxUintAssumption DEF IInv, TypeOK, Swaps, Preimage, Content, Uint, Sent, OperationOf
<1>4. Received \subseteq Sent
  <2> SUFFICES ASSUME NEW x \in settlements
               PROVE  x.operation \in Sent
    BY DEF Received
  <2>1. PICK l \in Swaps : Pays(x, l)
    BY DEF IInv, SettlementsBacked
  <2>2. QED
    BY <2>1 DEF Pays, Sent
<1>5. QED
  BY <1>1, <1>2, <1>3, <1>4 DEF LedgerSane

Supplies == SumFunctionOnSet(Circulating, Chain)

LEMMA SolventCovers ==
    /\ Ledger!Solvent = (Supplies + Worth(Ledger!InFlight) <= Locked)
    /\ Ledger!Solvent' = (Supplies' + Worth(Ledger!InFlight') <= Locked')
BY LedgerSum DEF Ledger!Solvent, Ledger!Claims, Supplies, Worth

\* Amounts that the ledger moves together leave the claims covered.
LEMMA LedgerStaysSolvent ==
    ASSUME LedgerSane, Ledger!Solvent, [Ledger!Next]_(Ledger!vars)
    PROVE  Ledger!Solvent'
<1> DEFINE F == Ledger!InFlight
           a == Supplies
           b == Worth(F)
<1>1. /\ IsFiniteSet(Chain) /\ Home \in Chain
      /\ Circulating \in [Chain -> Int] /\ Locked \in Int
      /\ IsFiniteSet(Sent) /\ (\A t \in Sent : t.amount \in Int)
      /\ Received \subseteq Sent
  BY BridgeAssumption DEF LedgerSane
<1>2. F \subseteq Sent /\ IsFiniteSet(F) /\ \A t \in F : t.amount \in Int
  <2>1. F \subseteq Sent
    BY DEF Ledger!InFlight
  <2>2. QED
    BY <1>1, <2>1, FS_Subset
<1>3. F = Sent \ Received /\ F' = Sent' \ Received'
  BY DEF Ledger!InFlight
<1> HIDE DEF F
<1>4. a \in Int /\ b \in Int
  BY <1>1, <1>2, SumIsInt, WorthIsInt DEF Supplies
<1>5. a + b <= Locked
  BY SolventCovers DEF F
<1>6. ASSUME NEW c \in Chain, NEW n \in Int, Circulating' = [Circulating EXCEPT ![c] = @ + n]
      PROVE  Supplies' = a + n
  BY <1>1, <1>6, SumIncreased DEF Supplies
<1>7. \A n \in Uint : n \in Int
  BY MaxUintAssumption DEF Uint
<1>8. ASSUME NEW x \in Int, NEW y \in Int, NEW z \in Int,
             Supplies' = a + x, Worth(F') = b + y, Locked' = Locked + z,
             x + y <= z
      PROVE  Ledger!Solvent'
  <2>1. Supplies' + Worth(F') <= Locked'
    BY <1>1, <1>4, <1>5, <1>8
  <2>2. QED
    BY <2>1, SolventCovers DEF F
<1> HIDE DEF a, b
<1>9. CASE UNCHANGED Ledger!vars
  <2>1. Supplies' = a + 0 /\ Worth(F') = b + 0 /\ Locked' = Locked + 0
    BY <1>1, <1>3, <1>4, <1>9 DEF Ledger!vars, Supplies, a, b
  <2>2. QED
    BY <1>8, <2>1
<1>10. ASSUME NEW n \in Uint, Ledger!Wrap(n)
       PROVE  Ledger!Solvent'
  <2>1. n \in Int
    BY <1>7
  <2>2. Supplies' = a + n
    BY <1>1, <1>6, <1>10, <2>1 DEF Ledger!Wrap
  <2>3. Worth(F') = b + 0 /\ Locked' = Locked + n
    BY <1>3, <1>4, <1>10 DEF Ledger!Wrap, b
  <2>4. QED
    BY <1>8, <2>1, <2>2, <2>3
<1>11. ASSUME Ledger!Donate
       PROVE  Ledger!Solvent'
  <2>1. Locked' \in Int /\ Locked' > Locked
    BY <1>11 DEF Ledger!Donate
  <2>2. PICK z \in Int : 0 + 0 <= z /\ Locked' = Locked + z
    <3> DEFINE x == Locked
               y == Locked'
    <3>1. x \in Int /\ y \in Int /\ y > x
      BY <1>1, <2>1
    <3> HIDE DEF x, y
    <3>2. y - x \in Int /\ 0 + 0 <= y - x /\ y = x + (y - x)
      BY <3>1
    <3>3. QED
      BY <3>2 DEF x, y
  <2>3. Supplies' = a + 0 /\ Worth(F') = b + 0
    BY <1>3, <1>4, <1>11 DEF Ledger!Donate, Supplies, a, b
  <2>4. QED
    BY <1>8, <2>2, <2>3
<1>12. ASSUME NEW n \in Uint, NEW m \in Uint, Ledger!Unwrap(n, m)
       PROVE  Ledger!Solvent'
  <2> DEFINE x == 0 - n
             z == 0 - m
  <2>1. /\ n \in Int /\ m \in Int /\ x \in Int /\ z \in Int
        /\ m <= n
    BY <1>7, <1>12 DEF Ledger!Unwrap, Ledger!Releases
  <2>2. Circulating' = [Circulating EXCEPT ![Home] = @ + x]
    <3>1. Circulating[Home] - n = Circulating[Home] + x
      BY <1>1, <2>1
    <3> HIDE DEF x
    <3>2. QED
      BY <1>12, <3>1 DEF Ledger!Unwrap
  <2>3. Worth(F') = b + 0 /\ Locked' = Locked + z
    BY <1>1, <1>3, <1>4, <1>12, <2>1 DEF Ledger!Unwrap, b
  <2>4. x + 0 <= z
    BY <2>1
  <2> HIDE DEF x, z
  <2>5. Supplies' = a + x
    BY <1>1, <1>6, <2>1, <2>2
  <2>6. QED
    BY <1>8, <2>1, <2>3, <2>4, <2>5
<1>13. ASSUME NEW t \in Transfers, NEW n \in Uint, Ledger!Send(t, n)
       PROVE  Ledger!Solvent'
  <2> DEFINE x == n - t.amount
  <2>1. /\ t.amount \in Int /\ n \in Int /\ t.originChainId \in Chain /\ x \in Int
    BY <1>7 DEF Transfers
  <2>2. Sent' = Sent \cup {t} /\ Received' = Received /\ t \notin Sent /\ Locked' = Locked + n
    BY <1>13 DEF Ledger!Send
  <2>3. F' = F \cup {t} /\ t \notin F
    BY <1>1, <1>3, <2>2
  <2>4. Worth(F') = b + t.amount
    BY <1>2, <2>1, <2>3, WorthAdded DEF b
  <2>5. Circulating' = [Circulating EXCEPT ![t.originChainId] = @ + x]
    BY <1>1, <1>13, <2>1 DEF Ledger!Send
  <2>6. x + t.amount <= n
    BY <2>1
  <2> HIDE DEF x
  <2>7. Supplies' = a + x
    BY <1>6, <2>1, <2>5
  <2>8. QED
    BY <1>8, <2>1, <2>2, <2>4, <2>6, <2>7
<1>14. ASSUME NEW t \in F, Received' = Received \cup {t}, Sent' = Sent
       PROVE  Worth(F') = b + (0 - t.amount) /\ t.amount \in Int
  <2>1. F' = F \ {t}
    BY <1>3, <1>14
  <2>2. Worth(F') = b - t.amount /\ t.amount \in Int
    BY <1>2, <2>1, WorthRemoved DEF b
  <2>3. QED
    BY <1>4, <2>2
<1>15. ASSUME NEW t \in F, Ledger!Receive(t)
       PROVE  Ledger!Solvent'
  <2> DEFINE y == 0 - t.amount
  <2>1. /\ t.amount \in Int /\ y \in Int /\ Worth(F') = b + y
        /\ t.destinationChainId \in Chain
    BY <1>14, <1>15 DEF Ledger!Receive
  <2>2. Locked' = Locked + 0 /\ t.amount + y <= 0
    BY <1>1, <1>15, <2>1 DEF Ledger!Receive
  <2> HIDE DEF y
  <2>3. Supplies' = a + t.amount
    BY <1>6, <1>15, <2>1 DEF Ledger!Receive
  <2>4. QED
    BY <1>8, <2>1, <2>2, <2>3
<1>16. ASSUME NEW t \in F, NEW m \in Uint, Ledger!ReceiveUnwrapped(t, m)
       PROVE  Ledger!Solvent'
  <2> DEFINE y == 0 - t.amount
             z == 0 - m
  <2>1. /\ t.amount \in Int /\ y \in Int /\ Worth(F') = b + y
        /\ m \in Int /\ z \in Int
        /\ m <= t.amount
    BY <1>7, <1>14, <1>16 DEF Ledger!ReceiveUnwrapped, Ledger!Releases
  <2>2. Supplies' = a + 0
    BY <1>4, <1>16 DEF Ledger!ReceiveUnwrapped, Supplies, a
  <2>3. Locked' = Locked + z
    BY <1>1, <1>16, <2>1 DEF Ledger!ReceiveUnwrapped
  <2>4. 0 + y <= z
    BY <2>1
  <2> HIDE DEF y, z
  <2>5. QED
    BY <1>8, <2>1, <2>2, <2>3, <2>4
<1>17. CASE Ledger!Next
  BY <1>10, <1>12, <1>13, <1>15, <1>16, <1>17, <1>11 DEF Ledger!Next, F
<1>18. QED
  BY <1>9, <1>17

LEMMA InitSolvent == Init => Ledger!Solvent
<1> SUFFICES ASSUME Init PROVE Ledger!Solvent
  OBVIOUS
<1>1. Circulating = [c \in Chain |-> 0] /\ Locked = 0 /\ Ledger!InFlight = {}
  BY InitLedger DEF Ledger!Init, Ledger!InFlight
<1>2. Supplies = 0
  <2> DEFINE f == [c \in Chain |-> 0]
  <2>1. \A c \in Chain : f[c] = 0
    OBVIOUS
  <2>2. Supplies = SumFunctionOnSet(f, Chain)
    BY <1>1 DEF Supplies
  <2> HIDE DEF f
  <2>3. QED
    BY <2>1, <2>2, BridgeAssumption, SumZero
<1>3. Worth({}) = 0
  BY SumEmpty DEF Worth
<1>4. Supplies + Worth(Ledger!InFlight) <= Locked
  BY <1>1, <1>2, <1>3
<1>5. QED
  BY <1>4, SolventCovers

\* The lockbox covers what circulates on all chains and what is under way, at
\* every moment, whatever is swapped, settled, wrapped and redeemed on
\* however many chains, in whatever order and with whatever amounts and fees,
\* and whoever is paid, the lockbox itself included.  With fewer than 18
\* decimals the holders lose the remainder of a redemption, never the lockbox
\* (Adapter.sol, XERC20Lockbox.sol, XERC20.sol).
THEOREM BackedSafety == Spec => []Backed
<1>1. IInv /\ Ledger!Solvent /\ [Next]_vars => Ledger!Solvent'
  BY StepIInv, IInvLedgerSane, LedgerStaysSolvent
<1>2. Spec => []Ledger!Solvent
  BY <1>1, InitSolvent, BridgeInvariant, PTL DEF Spec
<1>3. QED
  BY <1>2 DEF Backed

=============================================================================
