----------------------------- MODULE EosXToken ------------------------------
(***************************************************************************)
(* The xERC20 token of EOS, xerc20.token.cpp, as a value: one record holds *)
(* the tables of one symbol, and each action is a pair of operators, the   *)
(* checks under which it does not revert and the tables it leaves behind.  *)
(* (A quantity of another symbol fails a check of every action.)           *)
(*                                                                         *)
(* A bridge's quota keeps the seconds since its timestamp, up to DURATION, *)
(* the only way get_current_limit looks at it.                             *)
(***************************************************************************)
EXTENDS EosRows

CONSTANTS
    Self,        \* the account of the contract (get_self)
    DURATION,    \* seconds in which a quota refills (1 day)
    RateError    \* how far rounding to float may move rate * DURATION

ASSUME SelfAssumption == Self \in Account
ASSUME DurationAssumption == DURATION \in Nat \ {0}
ASSUME RateErrorAssumption == RateError \in Nat

Limit == 0 .. MaxAmount

Quota == [age: 0 .. DURATION, rate: Nat, current: Limit, max: Limit]

\* get_empty_bridge_model: timestamp 0 is more than a day ago.
EmptyQuota == [age |-> DURATION, rate |-> 0, current |-> 0, max |-> 0]

\* A quota the contract keeps.
QuotaOK(q) == q.current <= q.max /\ q.rate * DURATION <= q.max + RateError

\* max_supply is positive once the token is created.
XToken ==
    [rows     : [Account -> Row],
     supply   : Amount,
     maxSupply: Limit,
     bridges  : SUBSET Account,
     minting  : [Account -> Quota],
     burning  : [Account -> Quota],
     lockbox  : AccountOrNone,
     freezer  : AccountOrNone,
     frozen   : SUBSET Account]

NewXToken ==
    [rows |-> NoRows, supply |-> 0, maxSupply |-> 0, bridges |-> {},
     minting |-> [a \in Account |-> EmptyQuota],
     burning |-> [a \in Account |-> EmptyQuota],
     lockbox |-> NoName, freezer |-> NoName, frozen |-> {}]

-----------------------------------------------------------------------------
(***************************************************************************)
(* The limiter.                                                            *)
(***************************************************************************)
Refill(q) == q.current + q.age * q.rate

Rested(q) == q.current = q.max \/ q.age >= DURATION

\* The sum is an asset, and is taken before it is cut at the maximum.
IsReadable(q) == Rested(q) \/ Refill(q) <= MaxAmount

\* Faulty: the day is over one second early.
CurrentLimitEarly(q) ==
    IF q.current = q.max \/ q.age + 1 >= DURATION \/ Refill(q) > q.max
    THEN q.max ELSE Refill(q)

\* Faulty: nothing refills.
CurrentLimitStays(q) == q.current

CurrentLimit(q) == IF Rested(q) \/ Refill(q) > q.max THEN q.max ELSE Refill(q)

LimitUsed(q, change) == [q EXCEPT !.age = 0, !.current = CurrentLimit(q) - change]

\* Faulty: a new maximum starts with a full quota.
NewCurrentLimitFull(limit, old, current) == limit

NewCurrentLimit(limit, old, current) ==
    IF old > limit
    THEN IF current > old - limit THEN current - (old - limit) ELSE 0
    ELSE current + (limit - old)

\* Faulty: the limit refills every second.
RatesPerSecond(limit) == {limit}

\* The rate is the quotient of two floats, cut to an integer where it is
\* read: limit \div DURATION up to rounding.
RatesOf(limit) ==
    {rate \in 0 .. limit + RateError :
        /\ rate * DURATION <= limit + RateError
        /\ limit < (rate + 1) * DURATION + RateError}

LimitChanged(q, limit, rate) ==
    [age |-> 0, rate |-> rate, max |-> limit,
     current |-> NewCurrentLimit(limit, q.max, CurrentLimit(q))]

SecondOlder(q) == [q EXCEPT !.age = IF @ < DURATION THEN @ + 1 ELSE @]

-----------------------------------------------------------------------------
(***************************************************************************)
(* Creating, minting and burning.                                          *)
(***************************************************************************)
CanCreate(x, auth, maximum_supply) ==
    /\ Self \in auth
    /\ maximum_supply \in 1 .. MaxAmount
    /\ x.maxSupply = 0

Created(x, maximum_supply) == [x EXCEPT !.maxSupply = maximum_supply]

\* Faulty: the lockbox needs a limit like a bridge.
MayUseBridgesOnly(x, quotas, caller, quantity) ==
    /\ caller \in x.bridges
    /\ IsReadable(quotas[caller])
    /\ quantity <= CurrentLimit(quotas[caller])

\* "only lockbox or supported bridge can mint", "not high enough limits".
MayUse(x, quotas, caller, quantity) ==
    \/ caller = x.lockbox
    \/ /\ caller \in x.bridges
       /\ IsReadable(quotas[caller])
       /\ quantity <= CurrentLimit(quotas[caller])

\* Faulty: the lockbox's use counts too.
AfterAnyUse(x, quotas, caller, quantity) ==
    [quotas EXCEPT ![caller] = LimitUsed(@, quantity)]

AfterUse(x, quotas, caller, quantity) ==
    IF caller = x.lockbox THEN quotas
    ELSE [quotas EXCEPT ![caller] = LimitUsed(@, quantity)]

CanMint(x, auth, caller, to, quantity) ==
    /\ caller \in auth
    /\ x.maxSupply > 0
    /\ MayUse(x, x.minting, caller, quantity)
    /\ quantity \in 1 .. x.maxSupply - x.supply
    /\ CanAddBalance(x.rows, auth, to, quantity, caller)

Minted(x, caller, to, quantity) ==
    [x EXCEPT !.minting = AfterUse(x, @, caller, quantity),
              !.supply  = @ + quantity,
              !.rows    = AddBalance(@, to, quantity, caller)]

CanBurn(x, auth, caller, quantity) ==
    /\ caller \in auth
    /\ x.maxSupply > 0
    /\ MayUse(x, x.burning, caller, quantity)
    /\ quantity \in 1 .. MaxAmount
    /\ x.supply - quantity \in Amount
    /\ CanSubBalance(x.rows, auth, caller, quantity)

Burned(x, caller, quantity) ==
    [x EXCEPT !.burning = AfterUse(x, @, caller, quantity),
              !.supply  = @ - quantity,
              !.rows    = SubBalance(@, caller, quantity)]

-----------------------------------------------------------------------------
(***************************************************************************)
(* Transfers between holders.                                              *)
(***************************************************************************)
IsFrozen(x, account) == account \in x.frozen

TransferPayer(auth, from, to) == IF to \in auth THEN to ELSE from

\* Faulty: only the recipient is looked up.
CanTransferFromFrozen(x, auth, from, to, quantity) ==
    /\ ~IsFrozen(x, to)
    /\ from # to
    /\ from \in auth
    /\ to \in Account
    /\ x.maxSupply > 0
    /\ quantity \in 1 .. MaxAmount
    /\ CanMove(x.rows, auth, from, to, quantity, TransferPayer(auth, from, to))

CanTransfer(x, auth, from, to, quantity) ==
    /\ ~IsFrozen(x, from) /\ ~IsFrozen(x, to)
    /\ from # to
    /\ from \in auth
    /\ to \in Account
    /\ x.maxSupply > 0
    /\ quantity \in 1 .. MaxAmount
    /\ CanMove(x.rows, auth, from, to, quantity, TransferPayer(auth, from, to))

Transferred(x, auth, from, to, quantity) ==
    [x EXCEPT !.rows = Move(@, from, to, quantity, TransferPayer(auth, from, to))]

CanOpenRow(x, auth, owner, ram_payer) == x.maxSupply > 0 /\ CanOpen(auth, owner, ram_payer)

RowOpened(x, owner, ram_payer) == [x EXCEPT !.rows = Open(@, owner, ram_payer)]

CanCloseRow(x, auth, owner) == CanClose(x.rows, auth, owner)

RowClosed(x, owner) == [x EXCEPT !.rows = Close(@, owner)]

-----------------------------------------------------------------------------
(***************************************************************************)
(* The owner's actions and the freezing account's.                         *)
(***************************************************************************)
CanSetLockbox(auth) == Self \in auth

LockboxSet(x, account) == [x EXCEPT !.lockbox = account]

CanSetLimits(x, auth, account, minting_limit, burning_limit) ==
    /\ Self \in auth
    /\ x.maxSupply > 0
    /\ minting_limit \in Limit /\ burning_limit \in Limit
    /\ IsReadable(x.minting[account]) /\ IsReadable(x.burning[account])

LimitsSet(x, account, minting_limit, burning_limit, minting_rate, burning_rate) ==
    [x EXCEPT !.bridges = @ \cup {account},
              !.minting[account] = LimitChanged(@, minting_limit, minting_rate),
              !.burning[account] = LimitChanged(@, burning_limit, burning_rate)]

CanSetFreezeAcc(auth, freezing_account) == Self \in auth /\ freezing_account \in Account

FreezeAccSet(x, freezing_account) == [x EXCEPT !.freezer = freezing_account]

CheckFreezingRequirements(x, auth) == x.freezer # NoName /\ x.freezer \in auth

CanFreeze(x, auth, account) == CheckFreezingRequirements(x, auth) /\ ~IsFrozen(x, account)

Frozen(x, account) == [x EXCEPT !.frozen = @ \cup {account}]

CanUnfreeze(x, auth, account) == CheckFreezingRequirements(x, auth) /\ IsFrozen(x, account)

Unfrozen(x, account) == [x EXCEPT !.frozen = @ \ {account}]

\* The quantity may be any number; nothing asks for a positive one.
CanPullFrozen(x, auth, account, to, quantity) ==
    /\ CheckFreezingRequirements(x, auth)
    /\ IsFrozen(x, account)
    /\ ~IsFrozen(x, to)
    /\ CanMove(x.rows, auth \cup {Self}, account, to, quantity, to)

FrozenPulled(x, account, to, quantity) ==
    [x EXCEPT !.rows = Move(@, account, to, quantity, to)]

\* A second passes.
AllOlder(x) ==
    [x EXCEPT !.minting = [a \in Account |-> SecondOlder(x.minting[a])],
              !.burning = [a \in Account |-> SecondOlder(x.burning[a])]]

=============================================================================
