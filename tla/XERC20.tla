------------------------------- MODULE XERC20 -------------------------------
(***************************************************************************)
(* The xERC20 token contract as a state machine: every external function   *)
(* is an action, taken by any account that the contract lets call it, and  *)
(* time passes between the calls.                                          *)
(*                                                                         *)
(* mintedWithin and burnedWithin are history variables, not storage:       *)
(* mintedWithin[b][k] is what bridge b minted against its quota in the     *)
(* current second and the k seconds before it, counted from the last time  *)
(* the owner set the limits of b.                                          *)
(***************************************************************************)
EXTENDS XERC20Token

CONSTANTS
    Amounts,         \* the amounts the calls are tried with
    Limits,          \* the limits the owner chooses from
    Allowances,      \* the amounts approve is tried with
    Bridges,         \* the accounts the owner gives limits to
    Lockboxes,       \* what the factory may set as the lockbox
    FreezingRoles,   \* who the owner may name freezing address
    Freezable        \* what the freezing address may freeze

ASSUME InputAssumption ==
    /\ Amounts \subseteq Uint /\ Limits \subseteq Uint /\ Allowances \subseteq Uint
    /\ Bridges \subseteq Address /\ Lockboxes \subseteq Address
    /\ FreezingRoles \subseteq AddressOrZero /\ Freezable \subseteq AddressOrZero

VARIABLES
    token,          \* the storage of the contract
    mintedWithin,   \* history, see above
    burnedWithin

vars == <<token, mintedWithin, burnedWithin>>

Window == 0 .. DURATION - 1

NothingWithin == [k \in Window |-> 0]

Metered(h, b, amount) == [h EXCEPT ![b] = [k \in Window |-> h[b][k] + amount]]

Slid(h) ==
    [b \in Address |-> [k \in Window |-> IF k = 0 THEN 0 ELSE h[b][k - 1]]]

TypeOK ==
    /\ token \in Token
    /\ mintedWithin \in [Address -> [Window -> Nat]]
    /\ burnedWithin \in [Address -> [Window -> Nat]]

Init ==
    /\ token = NewToken
    /\ mintedWithin = [b \in Address |-> NothingWithin]
    /\ burnedWithin = [b \in Address |-> NothingWithin]

-----------------------------------------------------------------------------
\* ERC20 functions of holders and spenders.

Transfer(from, to, amount) ==
    /\ CanTransfer(token, from, to, amount)
    /\ token' = Moved(token, from, to, amount)
    /\ UNCHANGED <<mintedWithin, burnedWithin>>

Approve(owner, spender, amount) ==
    /\ token' = Approved(token, owner, spender, amount)
    /\ UNCHANGED <<mintedWithin, burnedWithin>>

TransferFrom(spender, from, to, amount) ==
    /\ CanTransferFrom(token, spender, from, to, amount)
    /\ token' = TransferredFrom(token, spender, from, to, amount)
    /\ UNCHANGED <<mintedWithin, burnedWithin>>

\* mint and burn: open to every caller.

Mint(caller, user, amount) ==
    /\ CanMint(token, caller, user, amount)
    /\ token' = Minted(token, caller, user, amount)
    /\ mintedWithin' = IF caller = token.lockbox
                       THEN mintedWithin ELSE Metered(mintedWithin, caller, amount)
    /\ UNCHANGED burnedWithin

Burn(caller, user, amount) ==
    /\ CanBurn(token, caller, user, amount)
    /\ token' = Burned(token, caller, user, amount)
    /\ burnedWithin' = IF caller = token.lockbox
                       THEN burnedWithin ELSE Metered(burnedWithin, caller, amount)
    /\ UNCHANGED mintedWithin

-----------------------------------------------------------------------------
\* The owner's and the factory's functions.

SetLimits(bridge, mintingLimit, burningLimit) ==
    /\ CanSetLimits(token, bridge)
    /\ token' = LimitsSet(token, bridge, mintingLimit, burningLimit)
    /\ mintedWithin' = [mintedWithin EXCEPT ![bridge] = NothingWithin]
    /\ burnedWithin' = [burnedWithin EXCEPT ![bridge] = NothingWithin]

SetLockbox(lockbox) ==
    /\ token' = LockboxSet(token, lockbox)
    /\ UNCHANGED <<mintedWithin, burnedWithin>>

SetFreezingAddress(a) ==
    /\ token' = FreezingAddressSet(token, a)
    /\ UNCHANGED <<mintedWithin, burnedWithin>>

\* The freezing address's functions.

FreezeAddress(sender, a) ==
    /\ CanFreeze(token, sender)
    /\ token' = AddressFrozen(token, a)
    /\ UNCHANGED <<mintedWithin, burnedWithin>>

UnfreezeAddress(sender, a) ==
    /\ CanFreeze(token, sender)
    /\ token' = AddressUnfrozen(token, a)
    /\ UNCHANGED <<mintedWithin, burnedWithin>>

WithdrawFrozenAssets(sender, from, to, amount) ==
    /\ CanWithdrawFrozen(token, sender, from, amount)
    /\ token' = Moved(token, from, to, amount)
    /\ UNCHANGED <<mintedWithin, burnedWithin>>

\* One second passes.
Tick ==
    /\ token' = SecondPassed(token)
    /\ mintedWithin' = Slid(mintedWithin)
    /\ burnedWithin' = Slid(burnedWithin)

-----------------------------------------------------------------------------
Next ==
    \/ \E from, to \in Address, v \in Amounts : Transfer(from, to, v)
    \/ \E owner, spender \in Address, v \in Allowances : Approve(owner, spender, v)
    \/ \E spender, from, to \in Address, v \in Amounts : TransferFrom(spender, from, to, v)
    \/ \E caller, user \in Address, v \in Amounts : Mint(caller, user, v)
    \/ \E caller, user \in Address, v \in Amounts : Burn(caller, user, v)
    \/ \E b \in Bridges, m, n \in Limits : SetLimits(b, m, n)
    \/ \E a \in Lockboxes : SetLockbox(a)
    \/ \E a \in FreezingRoles : SetFreezingAddress(a)
    \/ \E sender \in Address, a \in Freezable : FreezeAddress(sender, a)
    \/ \E sender \in Address, a \in Freezable : UnfreezeAddress(sender, a)
    \/ \E sender, from, to \in Address, v \in Amounts :
          WithdrawFrozenAssets(sender, from, to, v)
    \/ Tick

Spec == Init /\ [][Next]_vars

-----------------------------------------------------------------------------
(***************************************************************************)
(* Properties.                                                             *)
(***************************************************************************)

\* No sequence of calls creates or destroys tokens beside the mints and burns:
\* the balances always add up to totalSupply, also through withdrawFrozenAssets
\* and transfers to oneself (_update, withdrawFrozenAssets).
SupplyIsSumOfBalances == BalancesAddUp(token)

\* What a bridge used in a window and what it could still use now together
\* exceed its maximum by no more than what refilled since the window began,
\* and there is no use younger than the bucket's timestamp.  This is the
\* inductive strengthening of WindowBound.
HistoryOK(w, p) ==
    \A k \in Window :
        /\ w[k] + GetCurrentLimit(p) <= p.maxLimit + k * p.ratePerSecond
        /\ k < p.age => w[k] = 0

QuotaOK(h, buckets) == \A b \in Address : BucketOK(buckets[b]) /\ HistoryOK(h[b], buckets[b])

\* The bookkeeping of both directions is in order for every account, whatever
\* the interleaving of uses, limit changes and time (the invariant the proof
\* of WindowBound rests on).
QuotaInvariant == QuotaOK(mintedWithin, token.minter) /\ QuotaOK(burnedWithin, token.burner)

\* What a bridge has minted, and what it has burned, in any stretch of at
\* most DURATION seconds is at most its maximum plus what refilled meanwhile:
\* neither many small uses, nor waiting for the full refill, nor a new
\* second's rate lets it take more (_getCurrentLimit with _useMinterLimits).
WindowBoundOf(h, buckets) ==
    \A b \in Address, k \in Window :
        h[b][k] <= buckets[b].maxLimit + k * buckets[b].ratePerSecond

WindowBound ==
    /\ WindowBoundOf(mintedWithin, token.minter)
    /\ WindowBoundOf(burnedWithin, token.burner)

\* The funds of a frozen account move in no other way than by the freezing
\* address withdrawing them: no transfer, allowance, bridge mint or burn gets
\* at the balance or adds to it (_update, withdrawFrozenAssets).
FrozenFundsOnlySeized ==
    [][ \/ \A a \in token.frozen \cap Address :
              token'.balanceOf[a] = token.balanceOf[a]
        \/ \E sender, from, to \in Address, v \in Amounts :
              WithdrawFrozenAssets(sender, from, to, v) ]_vars

\* When the owner changes limits, the quota a bridge has spent at that moment
\* stays spent, up to the new maximum: a change neither forgives usage that
\* still fits nor takes quota away beyond the difference of the maxima
\* (_calculateNewCurrentLimit).
UsedQuotaCarriedOver ==
    [][ \A b \in Bridges, m, n \in Limits : SetLimits(b, m, n) =>
          /\ UsedQuota(token'.minter[b]) = Lesser(UsedQuota(token.minter[b]), m)
          /\ UsedQuota(token'.burner[b]) = Lesser(UsedQuota(token.burner[b]), n) ]_vars

=============================================================================
