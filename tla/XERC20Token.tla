---------------------------- MODULE XERC20Token -----------------------------
(***************************************************************************)
(* The xERC20 token as a value: one record holds the storage of a deployed *)
(* XERC20 contract, and each function of the contract is a pair of         *)
(* operators, Can...(t, ...) for the conditions under which the call does  *)
(* not revert and a second one for the storage it leaves behind.  Modules  *)
(* that make several calls in one transaction chain the operators: the     *)
(* transaction succeeds when every call in turn does.                      *)
(***************************************************************************)
EXTENDS BridgeLimits, FiniteSets, Functions

CONSTANTS
    Address,          \* every account of the chain except the zero address
    NoAddress,        \* address(0)
    FreezingEnabled   \* the immutable freezingEnabled

ASSUME AddressAssumption == NoAddress \notin Address /\ IsFiniteSet(Address)
ASSUME FreezingAssumption == FreezingEnabled \in BOOLEAN

AddressOrZero == Address \cup {NoAddress}

\* burn subtracts from the supply unchecked; that it stays a natural number
\* rests on its being the sum of the balances (BalancesAddUp).
Supply == {n \in Int : n <= MaxUint}

Token ==
    [balanceOf       : [Address -> Nat],
     totalSupply     : Supply,
     allowance       : [Address -> [Address -> Uint]],
     minter          : [Address -> Bucket],
     burner          : [Address -> Bucket],
     lockbox         : AddressOrZero,
     frozen          : SUBSET AddressOrZero,
     freezingAddress : AddressOrZero]

NewToken ==
    [balanceOf       |-> [a \in Address |-> 0],
     totalSupply     |-> 0,
     allowance       |-> [a \in Address |-> [b \in Address |-> 0]],
     minter          |-> [a \in Address |-> ZeroBucket],
     burner          |-> [a \in Address |-> ZeroBucket],
     lockbox         |-> NoAddress,
     frozen          |-> {},
     freezingAddress |-> NoAddress]

\* Minting and burning aside, tokens only change hands.
BalancesAddUp(t) == SumFunctionOnSet(t.balanceOf, Address) = t.totalSupply

-----------------------------------------------------------------------------
(***************************************************************************)
(* The ERC20 part (OpenZeppelin) under the override of _update, which      *)
(* refuses a frozen account on either side.                                *)
(***************************************************************************)
\* Faulty: only the sender is looked up.
SenderNotFrozen(t, from, to) == from \notin t.frozen

\* _update's override; a mint comes from, and a burn goes to, address(0).
NotFrozen(t, from, to) == from \notin t.frozen /\ to \notin t.frozen

\* Faulty: the recipient's balance is read before the sender is debited.
MovedStaleCredit(t, from, to, amount) ==
    [t EXCEPT !.balanceOf =
        [[t.balanceOf EXCEPT ![from] = @ - amount] EXCEPT ![to] = t.balanceOf[to] + amount]]

Moved(t, from, to, amount) ==
    [t EXCEPT !.balanceOf =
        [[t.balanceOf EXCEPT ![from] = @ - amount] EXCEPT ![to] = @ + amount]]

CanTransfer(t, from, to, amount) ==
    /\ NotFrozen(t, from, to)
    /\ t.balanceOf[from] >= amount

Approved(t, owner, spender, amount) ==
    [t EXCEPT !.allowance[owner][spender] = amount]

CanSpend(t, owner, spender, amount) == t.allowance[owner][spender] >= amount

\* An allowance of type(uint256).max is never used up.
Spent(t, owner, spender, amount) ==
    IF t.allowance[owner][spender] = MaxUint
    THEN t
    ELSE [t EXCEPT !.allowance[owner][spender] = @ - amount]

CanTransferFrom(t, spender, from, to, amount) ==
    /\ CanSpend(t, from, spender, amount)
    /\ CanTransfer(t, from, to, amount)

TransferredFrom(t, spender, from, to, amount) ==
    Moved(Spent(t, from, spender, amount), from, to, amount)

-----------------------------------------------------------------------------
(***************************************************************************)
(* Minting and burning.  Anybody may call; whoever is not the lockbox pays *)
(* with the quota of its own bucket.                                       *)
(***************************************************************************)

\* The limit check of _mintWithCaller and _burnWithCaller.
CanUse(t, bucket, caller, amount) ==
    caller = t.lockbox \/ (LimitReadable(bucket) /\ GetCurrentLimit(bucket) >= amount)

\* Faulty: the last unit of the quota cannot be minted.
CanMintBelowLimit(t, caller, user, amount) ==
    /\ caller = t.lockbox \/ GetCurrentLimit(t.minter[caller]) > amount
    /\ NotFrozen(t, NoAddress, user)
    /\ t.totalSupply + amount <= MaxUint

CanMint(t, caller, user, amount) ==
    /\ CanUse(t, t.minter[caller], caller, amount)
    /\ NotFrozen(t, NoAddress, user)
    /\ t.totalSupply + amount <= MaxUint

Minted(t, caller, user, amount) ==
    [t EXCEPT
        !.minter[caller] = IF caller = t.lockbox THEN @ ELSE UseLimits(@, amount),
        !.totalSupply    = @ + amount,
        !.balanceOf[user] = @ + amount]

\* burn spends the user's allowance to the caller first.
CanBurn(t, caller, user, amount) ==
    /\ caller # user => CanSpend(t, user, caller, amount)
    /\ CanUse(t, t.burner[caller], caller, amount)
    /\ NotFrozen(t, user, NoAddress)
    /\ t.balanceOf[user] >= amount

Burned(t, caller, user, amount) ==
    LET s == IF caller = user THEN t ELSE Spent(t, user, caller, amount)
    IN  [s EXCEPT
            !.burner[caller] = IF caller = t.lockbox THEN @ ELSE UseLimits(@, amount),
            !.totalSupply    = @ - amount,
            !.balanceOf[user] = @ - amount]

-----------------------------------------------------------------------------
(***************************************************************************)
(* Administration: limits, lockbox, freezing.                              *)
(***************************************************************************)
CanSetLimits(t, bridge) ==
    LimitReadable(t.minter[bridge]) /\ LimitReadable(t.burner[bridge])

LimitsSet(t, bridge, mintingLimit, burningLimit) ==
    [t EXCEPT !.minter[bridge] = ChangeLimit(@, mintingLimit),
              !.burner[bridge] = ChangeLimit(@, burningLimit)]

LockboxSet(t, lockbox) == [t EXCEPT !.lockbox = lockbox]

FreezingAddressSet(t, a) == [t EXCEPT !.freezingAddress = a]

CanFreeze(t, sender) == FreezingEnabled /\ t.freezingAddress = sender

AddressFrozen(t, a) == [t EXCEPT !.frozen = @ \cup {a}]

AddressUnfrozen(t, a) == [t EXCEPT !.frozen = @ \ {a}]

\* withdrawFrozenAssets moves the balance past the frozen check: the
\* destination may be frozen as well.
CanWithdrawFrozen(t, sender, from, amount) ==
    /\ CanFreeze(t, sender)
    /\ from \in t.frozen
    /\ t.balanceOf[from] >= amount

SecondPassed(t) ==
    [t EXCEPT !.minter = [a \in Address |-> Aged(t.minter[a])],
              !.burner = [a \in Address |-> Aged(t.burner[a])]]

=============================================================================
